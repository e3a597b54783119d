----------------------------- MODULE OrderFacts -----------------------------
(***************************************************************************)
(* The values of domain/order_execution/_model.py: what an order intent    *)
(* and a cumulative order fact are, which fact may follow which, what an   *)
(* order reserves and moves, and when a ledger and a broker's snapshot     *)
(* agree.  Whole shares and whole won, as in the code; its upper limit of  *)
(* 10^15 on every integer is not reached by the arithmetic here and is     *)
(* left out.                                                               *)
(***************************************************************************)
EXTENDS Integers, Sequences, FiniteSetsExt

CONSTANTS Intents,   \* the order intents callers may submit
          Nothing    \* no value (None)

Ids == {i.id : i \in Intents}
Symbols == {i.symbol : i \in Intents}

LocalStates == {"ready", "unknown"}
TerminalStates == {"filled", "cancelled", "rejected"}
States == LocalStates \cup {"open", "partial"} \cup TerminalStates

Facts == [intent : Intents, state : States, revision : Nat,
          filled : Nat, value : Nat, fees : Nat]

Accounts == [cash : Nat, holdings : [Symbols -> Nat]]
Brokers == [start : Accounts, orders : Seq(Facts)]

NewFact(intent, state, revision) ==
  [intent |-> intent, state |-> state, revision |-> revision,
   filled |-> 0, value |-> 0, fees |-> 0]

Terminal(f) == f.state \in TerminalStates
Signed(f, n) == IF f.intent.side = "buy" THEN n ELSE -n

(* A price is within the limit of an order: at most it for a purchase, at  *)
(* least it for a sale.                                                    *)
WithinLimit(intent, quantity, value) ==
  IF intent.side = "buy" THEN value <= quantity * intent.limit
                         ELSE value >= quantity * intent.limit

ValidFact(f) ==
  /\ (f.state \in LocalStates) <=> (f.revision = 0)
  /\ f.filled <= f.intent.quantity
  /\ f.fees <= f.value
  /\ f.fees <= f.intent.budget
  /\ WithinLimit(f.intent, f.filled, f.value)
  /\ (f.filled = 0) <=> (f.value = 0)
  /\ f.state = "filled" => f.filled = f.intent.quantity
  /\ f.state = "partial" => f.filled \in 1..(f.intent.quantity - 1)
  /\ f.state \in LocalStates \cup {"open", "rejected"} => f.filled = 0

Remaining(f) == IF Terminal(f) THEN 0 ELSE f.intent.quantity - f.filled

(* Mutant of Reserved: the fee budget is not reserved.                     *)
ReservedWithoutFees(f) ==
  IF f.intent.side = "buy" /\ ~Terminal(f) THEN Remaining(f) * f.intent.limit ELSE 0

Reserved(f) ==
  IF f.intent.side = "buy" /\ ~Terminal(f)
  THEN Remaining(f) * f.intent.limit + f.intent.budget - f.fees
  ELSE 0

CashChange(f) == Signed(f, -f.value) - f.fees
-----------------------------------------------------------------------------
(* Cumulative facts only move forward.  Continues: the later revision adds *)
(* fills within the limit to an order that is still open.                  *)
Continues(previous, f) ==
  LET quantity == f.filled - previous.filled
      value    == f.value - previous.value
      fees     == f.fees - previous.fees
  IN  /\ previous.state # "ready" /\ ~Terminal(previous)
      /\ f.state \notin LocalStates
      /\ quantity >= 0 /\ value >= 0 /\ fees >= 0
      /\ (quantity = 0) => (value = 0 /\ fees = 0)
      /\ (quantity > 0) => (value > 0)
      /\ WithinLimit(f.intent, quantity, value)

(* Mutant of Classify: a revision may not be skipped.                      *)
ClassifyNextOnly(previous, f) ==
  IF previous.intent # f.intent THEN "conflict"
  ELSE IF f = previous \/ f.revision < previous.revision THEN "ignore"
  ELSE IF f.revision = previous.revision + 1 /\ Continues(previous, f) THEN "apply"
  ELSE "conflict"

Classify(previous, f) ==
  IF previous.intent # f.intent THEN "conflict"
  ELSE IF f = previous \/ f.revision < previous.revision THEN "ignore"
  ELSE IF f.revision > previous.revision /\ Continues(previous, f) THEN "apply"
  ELSE "conflict"
-----------------------------------------------------------------------------
(* A broker is the account it started from and its orders in the order     *)
(* they were placed; a snapshot is its value at one moment.  AccountOf is  *)
(* the account the broker reports.                                         *)
Total(weight(_), facts) == SumFunction([k \in DOMAIN facts |-> weight(facts[k])])

Moved(f, s) == IF f.intent.symbol = s THEN Signed(f, f.filled) ELSE 0

AccountOf(b) ==
  [cash     |-> b.start.cash + Total(CashChange, b.orders),
   reserved |-> Total(Reserved, b.orders),
   holdings |-> [s \in Symbols |->
                   b.start.holdings[s] + Total(LAMBDA f : Moved(f, s), b.orders)]]

ValidAccount(a) ==
  /\ a.cash >= 0
  /\ a.reserved <= a.cash
  /\ \A s \in Symbols : a.holdings[s] >= 0

(* Mutant of Affordable: what open orders reserve is not taken off.        *)
AffordableFromAllCash(b, intent) ==
  IF intent.side = "buy"
  THEN Reserved(NewFact(intent, "open", 1)) <= AccountOf(b).cash
  ELSE intent.quantity <= AccountOf(b).holdings[intent.symbol]

(* The cash, or the unsold shares, an order needs are there.               *)
Offered(f, s) ==
  IF f.intent.side = "sell" /\ f.intent.symbol = s THEN Remaining(f) ELSE 0

Affordable(b, intent) ==
  LET a == AccountOf(b)
  IN  IF intent.side = "buy"
      THEN Reserved(NewFact(intent, "open", 1)) <= a.cash - a.reserved
      ELSE intent.quantity <= a.holdings[intent.symbol]
                                - Total(LAMBDA f : Offered(f, intent.symbol), b.orders)

(* Mutant of Matched: orders are compared, the account is not.             *)
MatchedOrders(baseline, book, b) ==
  LET local == {f \in {book[i] : i \in Ids} \ {Nothing} : f.state # "ready"}
  IN  /\ \A k \in DOMAIN b.orders : book[b.orders[k].intent.id] # Nothing
      /\ \A f \in local : \E k \in DOMAIN b.orders : b.orders[k] = f

(* reconcile: every order the ledger sent is at the broker exactly as the  *)
(* ledger has it, none is unknown or doubled, and the starting account     *)
(* plus the ledger's fills is the account the broker reports.              *)
Matched(baseline, book, b) ==
  LET sent == {i \in Ids : book[i] # Nothing /\ book[i].state # "ready"}
      local == [i \in sent |-> book[i]]
      a == AccountOf(b)
  IN  /\ \A j, k \in DOMAIN b.orders :
           b.orders[j].intent.id = b.orders[k].intent.id => j = k
      /\ \A k \in DOMAIN b.orders : book[b.orders[k].intent.id] # Nothing
      /\ \A i \in sent : \E k \in DOMAIN b.orders : b.orders[k] = local[i]
      /\ a.cash = baseline.cash + Total(CashChange, local)
      /\ a.reserved = Total(Reserved, local)
      /\ \A s \in Symbols :
           a.holdings[s] = baseline.holdings[s] + Total(LAMBDA f : Moved(f, s), local)
=============================================================================
