-------------------------- MODULE MCWorkerTransport --------------------------
EXTENDS WorkerTransportProperties
=============================================================================
