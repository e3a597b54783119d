-------------------------- MODULE MCOfflineExecution --------------------------
EXTENDS OfflineExecutionProperties

Order(id, side, quantity, limit, budget) ==
  [id |-> id, symbol |-> "A", side |-> side, quantity |-> quantity,
   limit |-> limit, budget |-> budget]

\* Two purchases of which the cash pays one, one of them again with another fee
\* budget, and a sale of what was bought.
MCRivals == {Order("one", "buy", 2, 1, 0), Order("one", "buy", 2, 1, 1),
             Order("two", "buy", 1, 2, 0), Order("sell", "sell", 1, 2, 1)}

MCSmallAccount == [cash |-> 3, holdings |-> [s \in {"A"} |-> 0]]
MCChanges == {[cash |-> -1, symbol |-> "A", quantity |-> 0],
              [cash |-> 0, symbol |-> "A", quantity |-> -1]}
MCFewPrices == 1..2
MCFees == 0..1
=============================================================================
