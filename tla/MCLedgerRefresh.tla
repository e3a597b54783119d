--------------------------- MODULE MCLedgerRefresh ---------------------------
EXTENDS LedgerRefreshProperties
=============================================================================
