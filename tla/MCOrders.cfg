SPECIFICATION Spec
CONSTANTS
  Nothing = Nothing
  Intents <- MCRivals
  StartAccount <- MCSmallAccount
  ManualChanges <- MCChanges
  Prices <- MCFewPrices
  Fees <- MCFees
  MaxManual = 1
INVARIANTS TransmittedOnce LedgerFollowsBroker NeverOverdrawn MeansStillThere
PROPERTIES SendsOnlyInStep LedgerAdvances
