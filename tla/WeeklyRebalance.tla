--------------------------- MODULE WeeklyRebalance ---------------------------
(***************************************************************************)
(* application/weekly_rebalance/_execution.py: a run of the executor sends *)
(* the orders of one weekly plan (open), or cancels what is left of them   *)
(* and sends the rest anew (chase).  A lock file keeps two runs apart; a   *)
(* run may die or give up at any step, and the next one goes on from the   *)
(* ledger.                                                                 *)
(*                                                                         *)
(* The gateway of bootstrap/weekly_rebalance/_gateway.py stands between:   *)
(* the executor sees orders as the execution ledger has them, the account  *)
(* as the broker answers.  The service behind it is modelled in            *)
(* OfflineExecution; here one of its calls is one step with the outcomes   *)
(* that module allows.  Every share costs 1 and there are no fees; quotes, *)
(* risk checks and lack of a price are one choice, to skip an order.       *)
(***************************************************************************)
EXTENDS Integers, FiniteSets, FiniteSetsExt

CONSTANTS Symbols,         \* numbers, in the order of rank and of sorting
          Start, Target,   \* shares held at first, and aimed at by the plan
          Cash, Floor,     \* cash at first, and what the plan leaves of it
          MaxOrders,       \* max_orders_per_day: orders of one plan
          MaxRuns          \* bound: runs of the executor

ASSUME PlanAssumption ==
  /\ Symbols \subseteq Nat /\ IsFiniteSet(Symbols)
  /\ Start \in [Symbols -> Nat] /\ Target \in [Symbols -> Nat]
  /\ Cash \in Nat /\ Floor \in 0..Cash
  /\ MaxOrders \in Nat /\ MaxRuns \in Nat

Sides == {"buy", "sell"}
Ids == Symbols \X Sides \X (0 .. MaxRuns - 1)    \* symbol, side, -c<n>
None == [state |-> "none", quantity |-> 0, filled |-> 0]

VARIABLES orders,   \* the orders of the plan at the broker
          asked,    \* orders whose cancellation reached the broker
          ledger,   \* the same orders as the execution ledger has them
          runs,     \* runs begun so far
          run,      \* the run under way and how far it has come
          torn,     \* history: an account was read that is newer than its orders
          dark      \* history: the answer to a purchase was lost

vars == <<orders, asked, ledger, runs, run, torn, dark>>

Idle == [step |-> "idle", phase |-> "open", view |-> [i \in Ids |-> None],
         holdings |-> Start, todo |-> {}, buys |-> {}, budget |-> 0, available |-> 0]

Init ==
  /\ orders = [i \in Ids |-> None] /\ ledger = orders /\ asked = {}
  /\ runs = 0 /\ run = Idle /\ torn = FALSE /\ dark = FALSE
-----------------------------------------------------------------------------
(* The account at the broker, and what a query tells the ledger: how each  *)
(* order it sent stands.  An order it may have sent and the broker does    *)
(* not have (UNKNOWN) leaves the reconciliation unmatched.                 *)
Of(s, side) == {i \in Ids : i[1] = s /\ i[2] = side}
All(side) == {i \in Ids : i[2] = side}

Filled(set) == SumFunctionOnSet([i \in Ids |-> orders[i].filled], set)

Rest(o) == IF o.state = "open" THEN o.quantity - o.filled ELSE 0
MayFill(set) == SumFunctionOnSet([i \in Ids |-> Rest(orders[i])], set)

Holdings == [s \in Symbols |-> Start[s] + Filled(Of(s, "buy")) - Filled(Of(s, "sell"))]
FreeCash == Cash - Filled(All("buy")) + Filled(All("sell")) - MayFill(All("buy"))

Recovered == [i \in Ids |-> IF orders[i] # None THEN orders[i] ELSE ledger[i]]
Matched == \A i \in Ids : Recovered[i].state # "unknown"
-----------------------------------------------------------------------------
(* execute() and the gateway's state(): the ledger is brought up to date   *)
(* with one query of the broker, the account comes from the next one.      *)
Execute(phase) ==
  /\ run.step = "idle" /\ runs < MaxRuns
  /\ runs' = runs + 1
  /\ run' = [Idle EXCEPT !.step = "recover", !.phase = phase]
  /\ UNCHANGED <<orders, asked, ledger, torn, dark>>

(* A first state that does not match ends the run: HALTED.                 *)
Recover ==
  /\ run.step \in {"recover", "recover_again", "recover_cash"}
  /\ ledger' = Recovered
  /\ run' = IF run.step = "recover" /\ ~Matched THEN Idle
            ELSE [run EXCEPT !.step = CASE @ = "recover" -> "account"
                                        [] @ = "recover_again" -> "account_again"
                                        [] OTHER -> "account_cash"]
  /\ UNCHANGED <<orders, asked, runs, torn, dark>>

(* Mutant of OpenQuantity: a partial fill does not lessen what is open.    *)
OpenQuantityUnfilled(o) == IF o.state = "done" THEN 0 ELSE o.quantity

(* What is left to do for the target, after holdings and open orders.      *)
OpenQuantity(o) == IF o.state = "done" THEN 0 ELSE o.quantity - o.filled

Open(view, set) == SumFunctionOnSet([i \in Ids |-> OpenQuantity(view[i])], set)

Delta(view, holdings, s) ==
  Target[s] - (holdings[s] + Open(view, Of(s, "buy")) - Open(view, Of(s, "sell")))

Placing(view, holdings) ==
  [run EXCEPT !.step = "sells", !.view = view, !.holdings = holdings,
              !.todo = {s \in Symbols : Delta(view, holdings, s) < 0},
              !.buys = {s \in Symbols : Delta(view, holdings, s) > 0},
              !.budget = MaxOrders - Cardinality({i \in Ids : view[i] # None})]

ReadAccount ==
  /\ run.step \in {"account", "account_again"}
  /\ run' = IF run.step = "account" /\ run.phase = "chase"
            THEN [run EXCEPT !.step = "cancels", !.todo = {i \in Ids : ledger[i].state = "open"}]
            ELSE Placing(ledger, Holdings)
  /\ torn' = (torn \/ \E i \in Ids : Recovered[i].filled # ledger[i].filled)
  /\ UNCHANGED <<orders, asked, ledger, runs, dark>>

(* After the sells only the cash is read anew.                             *)
ReadCash ==
  /\ run.step = "account_cash"
  /\ run' = [run EXCEPT !.step = "buys", !.todo = run.buys, !.available = FreeCash - Floor]
  /\ UNCHANGED <<orders, asked, ledger, runs, torn, dark>>
-----------------------------------------------------------------------------
(* _cancel_open(): every order of the plan that may still fill, but for    *)
(* those in the dark.  The broker takes the cancellation and confirms it,  *)
(* takes it and does not (the executor polls, which changes nothing but    *)
(* the ledger, and gives up), or never gets it.                            *)
Cancel(i) ==
  /\ run.step = "cancels" /\ i \in run.todo
  /\ run' = [run EXCEPT !.todo = @ \ {i}]
  /\ \/ /\ orders' = [orders EXCEPT ![i].state = "done"]
        /\ ledger' = [ledger EXCEPT ![i] = orders'[i]]
        /\ UNCHANGED asked
     \/ /\ asked' = asked \cup {i}
        /\ UNCHANGED <<orders, ledger>>
     \/ UNCHANGED <<orders, asked, ledger>>
  /\ UNCHANGED <<runs, torn, dark>>

Cancelled ==
  /\ run.step = "cancels" /\ run.todo = {}
  /\ run' = [run EXCEPT !.step = "recover_again"]
  /\ UNCHANGED <<orders, asked, ledger, runs, torn, dark>>
-----------------------------------------------------------------------------
(* Mutant of Blocked: an order sent for cancelling counts as cancelled.    *)
BlockedUnasked(s, side) ==
  \E i \in Of(s, side) \ asked : run.view[i].state \in {"ready", "unknown", "open"}

(* _order(): not while an earlier order of the symbol and side may still   *)
(* fill, as far as the state read before the placing tells.                *)
Blocked(s, side) ==
  \E i \in Of(s, side) : run.view[i].state \in {"ready", "unknown", "open"}

NextId(s, side) == <<s, side, Cardinality({i \in Of(s, side) : run.view[i] # None})>>

Wanted(s, side) ==
  LET delta == Delta(run.view, run.holdings, s)
  IN  IF side = "sell" THEN Min({-delta, run.holdings[s]})
      ELSE Min({delta, run.available})

Sending(s, side) ==
  /\ run.step = (IF side = "sell" THEN "sells" ELSE "buys")
  /\ s \in run.todo /\ \A t \in run.todo : s <= t
  /\ run.budget > 0 /\ ~Blocked(s, side) /\ Wanted(s, side) > 0

(* Mutant of Spent: the cash of an order that was sent stays available.    *)
SpentNothing(side, quantity) == 0

Spent(side, quantity) == IF side = "buy" THEN quantity ELSE 0

Sent(s, spent) == run' = [run EXCEPT !.todo = @ \ {s}, !.budget = @ - 1, !.available = @ - spent]

NewOrder(state, quantity) == [state |-> state, quantity |-> quantity, filled |-> 0]

(* submit() of the service goes by its own query: matched, and with the    *)
(* means for the order, it takes the intent on, claims it and sends it.    *)
Admitted(s, side, quantity) ==
  /\ Matched
  /\ IF side = "buy" THEN quantity <= FreeCash
     ELSE quantity <= Holdings[s] - MayFill(Of(s, "sell"))

(* The order is not taken on: any check of _order or of submit(), or the   *)
(* query before it failed all nine times (RETRY).                          *)
Skip(s) ==
  /\ run.step \in {"sells", "buys"} /\ s \in run.todo /\ \A t \in run.todo : s <= t
  /\ \/ run' = [run EXCEPT !.todo = @ \ {s}] /\ UNCHANGED ledger
     \/ Sent(s, 0) /\ ledger' = Recovered
  /\ UNCHANGED <<orders, asked, runs, torn, dark>>

(* It is taken on: the broker has it and says so, refuses it, has it and   *)
(* the answer is lost, never gets it, or the ledger fails before the claim.*)
Submit(s, side) ==
  LET quantity == Wanted(s, side)
      id == NextId(s, side)
      Book(state) == [Recovered EXCEPT ![id] = NewOrder(state, quantity)]
      Take(state) == orders' = [orders EXCEPT ![id] = NewOrder(state, quantity)]
  IN  /\ Sending(s, side) /\ Admitted(s, side, quantity)
      /\ \/ Take("open") /\ ledger' = Book("open") /\ Sent(s, Spent(side, quantity))
            /\ UNCHANGED dark
         \/ Take("done") /\ ledger' = Book("done") /\ Sent(s, 0)
            /\ UNCHANGED dark
         \/ Take("open") /\ ledger' = Book("unknown") /\ Sent(s, 0)
            /\ dark' = (dark \/ side = "buy")
         \/ ledger' \in {Book("unknown"), Book("ready")} /\ Sent(s, 0)
            /\ UNCHANGED <<orders, dark>>
      /\ UNCHANGED <<asked, runs, torn>>

SellsDone ==
  /\ run.step = "sells" /\ run.todo = {}
  /\ run' = [run EXCEPT !.step = "recover_cash"]
  /\ UNCHANGED <<orders, asked, ledger, runs, torn, dark>>

(* The run is over, or it stops where it is: an error, or its death.       *)
End ==
  /\ run.step # "idle"
  /\ run' = Idle
  /\ UNCHANGED <<orders, asked, ledger, runs, torn, dark>>
-----------------------------------------------------------------------------
(* The broker on its own: a fill, and a cancellation taking effect.        *)
Fill(i) ==
  /\ orders[i].state = "open"
  /\ LET filled == orders[i].filled + 1
     IN  orders' = [orders EXCEPT ![i].filled = filled,
                      ![i].state = IF filled = orders[i].quantity THEN "done" ELSE "open"]
  /\ UNCHANGED <<asked, ledger, runs, run, torn, dark>>

TakeBack(i) ==
  /\ i \in asked /\ orders[i].state = "open"
  /\ orders' = [orders EXCEPT ![i].state = "done"]
  /\ UNCHANGED <<asked, ledger, runs, run, torn, dark>>

Next ==
  \/ \E phase \in {"open", "chase"} : Execute(phase)
  \/ Recover \/ ReadAccount \/ ReadCash
  \/ \E i \in Ids : Cancel(i)
  \/ Cancelled
  \/ \E s \in Symbols : Skip(s)
  \/ \E s \in Symbols, side \in Sides : Submit(s, side)
  \/ SellsDone \/ End
  \/ \E i \in Ids : Fill(i) \/ TakeBack(i)

Spec == Init /\ [][Next]_vars
=============================================================================
