---------------------------- MODULE MCExperiments ----------------------------
EXTENDS ExperimentsProperties
=============================================================================
