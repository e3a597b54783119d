---------------------- MODULE WeeklyRebalanceProperties ----------------------
(***************************************************************************)
(* What the executor of the weekly plan promises, over WeeklyRebalance.    *)
(***************************************************************************)
EXTENDS WeeklyRebalance

Orders ==
  [state : {"none", "ready", "unknown", "open", "done"}, quantity : Nat, filled : Nat]

Steps == {"idle", "recover", "account", "cancels", "recover_again", "account_again",
          "sells", "recover_cash", "account_cash", "buys"}

(* Type invariant.                                                         *)
TypeOK ==
  /\ orders \in [Ids -> Orders] /\ ledger \in [Ids -> Orders]
  /\ asked \subseteq Ids
  /\ runs \in 0..MaxRuns
  /\ run \in [step : Steps, phase : {"open", "chase"}, view : [Ids -> Orders],
              holdings : [Symbols -> Nat], buys : SUBSET Symbols,
              todo : SUBSET (IF run.step = "cancels" THEN Ids ELSE Symbols),
              budget : Int, available : Int]
  /\ torn \in BOOLEAN /\ dark \in BOOLEAN

(* For a symbol and a side the broker never has two orders that may fill:  *)
(* not after a cancellation nobody confirmed, not when a run died and the  *)
(* next one starts over.                                                   *)
OneOrderAtATime ==
  \A s \in Symbols, side \in Sides :
    Cardinality({i \in Of(s, side) : orders[i].state = "open"}) <= 1

(* The same shares are never ordered twice: what was bought and may still  *)
(* be bought is at most what the plan buys, and nothing of what it sells;  *)
(* likewise for what is sold.                                              *)
Ordered(s, side) == Filled(Of(s, side)) + MayFill(Of(s, side))

WithinPlan ==
  \A s \in Symbols :
    /\ Ordered(s, "buy") <= Max({0, Target[s] - Start[s]})
    /\ Ordered(s, "sell") <= Max({0, Start[s] - Target[s]})

(* Only an account that was read after its orders, with a fill in between, *)
(* leads out of the plan.                                                  *)
OutOfPlanOnlyTorn == torn \/ WithinPlan

(* The cash the plan leaves is left, through fills, refusals and runs that *)
(* die, unless the answer to a purchase was lost: its cost is not taken    *)
(* off what the purchases after it may spend.                              *)
FloorKept == dark \/ FreeCash >= Floor
-----------------------------------------------------------------------------
(* Why they hold.  The ledger has every order the broker has, at most one  *)
(* query behind; an order it takes for done is done.                       *)
Living == {"ready", "unknown", "open"}

LedgerIsBehind ==
  \A i \in Ids :
    /\ orders[i].state \in {"none", "open", "done"}
    /\ orders[i].filled <= orders[i].quantity
    /\ orders[i].state = "open" => orders[i].filled < orders[i].quantity
    /\ orders[i].state = "none" => orders[i] = None
    /\ ledger[i].state = "none" => ledger[i] = None
    /\ ledger[i].filled <= orders[i].filled
    /\ orders[i] # None => ledger[i] # None /\ ledger[i].quantity = orders[i].quantity
    /\ ledger[i].state = "open" => orders[i] # None
    /\ ledger[i].state = "done" => orders[i] = ledger[i]

(* A symbol and side the run has not come to yet.                          *)
Due(s, side) ==
  \/ run.step \in {"recover", "account", "cancels", "recover_again", "account_again"}
  \/ run.step = "sells" /\ s \in (IF side = "sell" THEN run.todo ELSE run.buys)
  \/ run.step \in {"recover_cash", "account_cash"} /\ side = "buy" /\ s \in run.buys
  \/ run.step = "buys" /\ side = "buy" /\ s \in run.todo

(* Orders of a symbol and side are numbered without gaps, one in a run.    *)
Numbered ==
  /\ run.step # "idle" => runs >= 1
  /\ \A s \in Symbols, side \in Sides, n \in 0..(MaxRuns - 1) :
       ledger[<<s, side, n>>] # None =>
         /\ n < runs /\ (Due(s, side) => n < runs - 1)
         /\ \A m \in 0..(n - 1) : ledger[<<s, side, m>>] # None

(* What is cancelled is at the broker; what is placed was decided on a     *)
(* ledger to which nothing of the same symbol and side has been added.     *)
Decided == run.step \in {"sells", "recover_cash", "account_cash", "buys"}

ViewHolds ==
  /\ run.step = "cancels" => \A i \in run.todo : orders[i] # None
  /\ Decided => \A s \in Symbols, side \in Sides : Due(s, side) =>
                  \A i \in Of(s, side) :
                    /\ run.view[i] = None <=> ledger[i] = None
                    /\ orders[i].state = "open" => run.view[i].state \in Living

OneIsOpen ==
  \A s \in Symbols, side \in Sides : \A i, j \in Of(s, side) :
    orders[i].state = "open" /\ orders[j].state = "open" => i = j

(* What the ledger counts for a symbol and side, with what the run may     *)
(* still add, stays within the plan; what is offered for sale is held.     *)
Counted(o) == IF o.state = "done" THEN o.filled ELSE o.quantity
Booked(s, side) == SumFunctionOnSet([i \in Ids |-> Counted(ledger[i])], Of(s, side))
Wants(s, side) ==
  IF side = "buy" THEN Delta(run.view, run.holdings, s) ELSE -Delta(run.view, run.holdings, s)
Planned(s, side) == IF side = "buy" THEN Max({0, Target[s] - Start[s]})
                                    ELSE Max({0, Start[s] - Target[s]})

InPlan ==
  torn \/ \A s \in Symbols, side \in Sides :
            /\ Booked(s, side) <= Planned(s, side)
            /\ Decided /\ Due(s, side) => Booked(s, side) + Wants(s, side) <= Planned(s, side)

SharesAreHeld == \A s \in Symbols : MayFill(Of(s, "sell")) <= Holdings[s]

CashIsLeft ==
  dark \/ /\ FreeCash >= Floor
          /\ run.step = "buys" => run.available <= FreeCash - Floor

(* The inductive invariant.                                                *)
IndInv ==
  /\ TypeOK /\ LedgerIsBehind /\ Numbered /\ ViewHolds /\ OneIsOpen
  /\ InPlan /\ SharesAreHeld /\ CashIsLeft
=============================================================================
