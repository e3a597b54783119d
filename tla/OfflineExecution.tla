-------------------------- MODULE OfflineExecution --------------------------
(***************************************************************************)
(* application/offline_execution/_service.py over the SQLite ledger of     *)
(* adapters/outbound/execution_sqlite and the broker of                    *)
(* adapters/outbound/fake_broker.                                          *)
(*                                                                         *)
(* The service keeps no state: what it knows is in the ledger file, and    *)
(* every ledger call commits on its own.  One executor at a time holds the *)
(* file's lock; a call that finds it taken fails and changes nothing, so a *)
(* second caller is no step.  A task is the call that holds the lock and   *)
(* how far it has come.  Between its steps the broker goes on filling      *)
(* orders, the account may be changed by hand, and the process may die.    *)
(***************************************************************************)
EXTENDS OrderFacts

CONSTANTS StartAccount,     \* the account the broker starts with
          ManualChanges,    \* the changes somebody may make to it by hand
          Prices, Fees,     \* what one fill may cost per share, and its fee
          MaxManual         \* bound: changes made by hand in one behaviour

ASSUME IntentsAssumption ==
  \A i \in Intents :
    /\ i.side \in {"buy", "sell"}
    /\ i.quantity \in Nat \ {0} /\ i.limit \in Nat \ {0} /\ i.budget \in Nat

ASSUME NothingAssumption ==
  Nothing \notin Facts \cup Intents \cup Accounts \cup Brokers

ASSUME AccountAssumption == StartAccount \in Accounts

ASSUME OutsideAssumption ==
  /\ Prices \subseteq Nat /\ Fees \subseteq Nat /\ MaxManual \in Nat
  /\ ManualChanges \subseteq [cash : Int, symbol : Symbols, quantity : Int]

VARIABLES ledger,    \* the SQLite file: baseline, halted, order_intents, order_events
          broker,    \* the broker's account at the start and its orders
          changes,   \* changes made by hand so far
          task       \* the call that holds the executor lock

vars == <<ledger, broker, changes, task>>

Idle == [op |-> "none", step |-> "idle", intent |-> Nothing,
         snapshot |-> Nothing, next |-> 0, answer |-> Nothing]

Init ==
  /\ ledger = [baseline |-> Nothing, halted |-> FALSE,
               book |-> [i \in Ids |-> Nothing], events |-> {}]
  /\ broker = [start |-> StartAccount, orders |-> <<>>]
  /\ changes = 0
  /\ task = Idle

(* The broker answers a query only with an account that is one: a reserve  *)
(* above the cash, or less than nothing of anything, is an error there.    *)
Answers == ValidAccount(AccountOf(broker))

Holds(op, step) == task.op = op /\ task.step = step
Release == task' = Idle
-----------------------------------------------------------------------------
(* The ledger.  apply() is one transaction.  Seen: the fact was observed   *)
(* before, at this revision or as the current one.  Rejects: it cannot     *)
(* follow what the ledger has, and the transaction is rolled back.         *)
Local(l, f) == l.book[f.intent.id]

Seen(l, f) == f \in l.events \/ f = Local(l, f)

Rejects(l, f) ==
  \/ Local(l, f) = Nothing
  \/ Local(l, f).intent # f.intent
  \/ \E e \in l.events : /\ e.intent.id = f.intent.id
                         /\ e.revision = f.revision
                         /\ e # f
  \/ ~Seen(l, f) /\ Classify(Local(l, f), f) = "conflict"

Apply(l, f) ==
  IF Seen(l, f) THEN l
  ELSE [l EXCEPT
          !.events = @ \cup {f},
          !.book[f.intent.id] = IF Classify(@, f) = "apply" THEN f ELSE @]

Save(l, intent) ==
  IF l.book[intent.id] = Nothing
  THEN [l EXCEPT !.book[intent.id] = NewFact(intent, "ready", 0)] ELSE l

Claimed(l, id) == [l EXCEPT !.book[id].state = "unknown"]
-----------------------------------------------------------------------------
(* initialize(): the account of a broker without orders becomes the        *)
(* baseline, once, and only while the ledger has no intent.                *)
Initialize ==
  /\ task = Idle /\ Answers
  /\ broker.orders = <<>>
  /\ task' = [Idle EXCEPT !.op = "initialize", !.step = "store", !.snapshot = broker]
  /\ UNCHANGED <<ledger, broker, changes>>

StoreBaseline ==
  /\ Holds("initialize", "store")
  /\ ledger.baseline = Nothing
  /\ \A i \in Ids : ledger.book[i] = Nothing
  /\ ledger' = [ledger EXCEPT !.baseline = task.snapshot.start]
  /\ Release
  /\ UNCHANGED <<broker, changes>>

(* recover(), resume() and submit() begin alike: one query of the broker,  *)
(* whose facts are applied to the orders the ledger knows.  submit() goes  *)
(* no further with an intent that was claimed before, or whose identity    *)
(* carries another payload.                                                *)
Look(op, intent) ==
  /\ task = Idle /\ Answers
  /\ task' = [Idle EXCEPT !.op = op, !.step = "apply", !.intent = intent,
                          !.snapshot = broker, !.next = 1]
  /\ UNCHANGED <<ledger, broker, changes>>

Recover == Look("recover", Nothing)
Resume == Look("resume", Nothing)

Unclaimed(intent) ==
  ledger.book[intent.id] \in {Nothing, NewFact(intent, "ready", 0)}

Submit(intent) == Unclaimed(intent) /\ Look("submit", intent)

ApplyNext ==
  /\ task.step = "apply"
  /\ task.next <= Len(task.snapshot.orders)
  /\ LET f == task.snapshot.orders[task.next]
     IN  IF Local(ledger, f) = Nothing THEN UNCHANGED ledger
         ELSE ~Rejects(ledger, f) /\ ledger' = Apply(ledger, f)
  /\ task' = [task EXCEPT !.next = @ + 1]
  /\ UNCHANGED <<broker, changes>>

(* With every fact applied the snapshot is reconciled with the ledger.     *)
Reconciled ==
  /\ task.step = "apply"
  /\ task.next > Len(task.snapshot.orders)
  /\ ledger.baseline # Nothing

InStep == Matched(ledger.baseline, ledger.book, task.snapshot)

FinishRecover ==
  /\ Reconciled /\ task.op = "recover"
  /\ ledger' = [ledger EXCEPT !.halted = @ \/ ~InStep]
  /\ Release
  /\ UNCHANGED <<broker, changes>>

FinishResume ==
  /\ Reconciled /\ task.op = "resume"
  /\ ledger' = [ledger EXCEPT !.halted = @ /\ ~InStep]
  /\ Release
  /\ UNCHANGED <<broker, changes>>

Refuse ==
  /\ Reconciled /\ task.op = "submit"
  /\ ledger.halted \/ ~InStep \/ ~Affordable(task.snapshot, task.intent)
  /\ ledger' = [ledger EXCEPT !.halted = @ \/ ~InStep]
  /\ Release
  /\ UNCHANGED <<broker, changes>>

Accept ==
  /\ Reconciled /\ task.op = "submit"
  /\ ~ledger.halted /\ InStep /\ Affordable(task.snapshot, task.intent)
  /\ ledger' = Save(ledger, task.intent)
  /\ task' = [task EXCEPT !.step = "claim"]
  /\ UNCHANGED <<broker, changes>>

(* claim(): the right to send is the one committed step from READY to      *)
(* UNKNOWN.                                                                *)
Claim ==
  /\ Holds("submit", "claim")
  /\ ledger.book[task.intent.id].state = "ready"
  /\ ledger' = Claimed(ledger, task.intent.id)
  /\ task' = [task EXCEPT !.step = "transmit"]
  /\ UNCHANGED <<broker, changes>>

(* Mutant of Answered: a lost answer is retried.                           *)
AnsweredOrRetried(f) ==
  \/ task' = [task EXCEPT !.step = "record", !.answer = f]
  \/ UNCHANGED task

(* broker.submit() takes every call for a new order.  It may refuse the    *)
(* order, and its answer may be lost after the order was taken.            *)
Answered(f) ==
  \/ task' = [task EXCEPT !.step = "record", !.answer = f]
  \/ Release

Transmit ==
  /\ Holds("submit", "transmit") /\ Answers
  /\ \E state \in {"open", "rejected"} :
       /\ Affordable(broker, task.intent) \/ state = "rejected"
       /\ LET f == NewFact(task.intent, state, 1)
          IN  /\ broker' = [broker EXCEPT !.orders = Append(@, f)]
              /\ Answered(f)
  /\ UNCHANGED <<ledger, changes>>

Record ==
  /\ task.step = "record"
  /\ ~Rejects(ledger, task.answer)
  /\ ledger' = Apply(ledger, task.answer)
  /\ Release
  /\ UNCHANGED <<broker, changes>>

(* cancel(): only for an order the broker has confirmed.  Cancelling a     *)
(* finished order answers with how it finished.                            *)
Position(id) == {k \in DOMAIN broker.orders : broker.orders[k].intent.id = id}

(* Mutant of Cancel: the ledger is told before the broker.                 *)
CancelUnsent(id) ==
  /\ task = Idle
  /\ ledger.book[id] # Nothing /\ ledger.book[id].state \notin LocalStates
  /\ LET f == [ledger.book[id] EXCEPT !.state = "cancelled", !.revision = @ + 1]
     IN  /\ ~Terminal(ledger.book[id])
         /\ task' = [Idle EXCEPT !.op = "cancel", !.step = "record", !.answer = f]
  /\ UNCHANGED <<ledger, broker, changes>>

Cancel(id) ==
  /\ task = Idle
  /\ ledger.book[id] # Nothing /\ ledger.book[id].state \notin LocalStates
  /\ \E k \in Position(id) :
       /\ \A j \in Position(id) : k <= j
       /\ LET order == broker.orders[k]
              f == IF Terminal(order) THEN order
                   ELSE [order EXCEPT !.state = "cancelled", !.revision = @ + 1]
          IN  /\ broker' = [broker EXCEPT !.orders[k] = f]
              /\ \/ task' = [Idle EXCEPT !.op = "cancel", !.step = "record", !.answer = f]
                 \/ ~Terminal(order) /\ UNCHANGED task
  /\ UNCHANGED <<ledger, changes>>

Stop ==
  /\ task = Idle
  /\ ledger' = [ledger EXCEPT !.halted = TRUE]
  /\ UNCHANGED <<broker, changes, task>>

(* Mutant of Abort: an error before the transmission gives the claim back. *)
AbortUnclaims ==
  /\ task # Idle
  /\ ledger' = IF task.step = "transmit"
               THEN [ledger EXCEPT !.book[task.intent.id].state = "ready"] ELSE ledger
  /\ Release
  /\ UNCHANGED <<broker, changes>>

(* The executor stops where it is: its process dies, the ledger cannot be  *)
(* written or refuses what it is given, or the broker does not answer.     *)
(* The lock is released and what was committed stays.                      *)
Abort ==
  /\ task # Idle
  /\ Release
  /\ UNCHANGED <<ledger, broker, changes>>
-----------------------------------------------------------------------------
(* The broker on its own: a fill, checked before it is stored, and a       *)
(* change of the account by hand.                                          *)
FilledBy(f, quantity, price, fee) ==
  [f EXCEPT !.state = IF f.filled + quantity = f.intent.quantity
                      THEN "filled" ELSE "partial",
            !.revision = @ + 1,
            !.filled = @ + quantity,
            !.value = @ + quantity * price,
            !.fees = @ + fee]

Fill(k, quantity, price, fee) ==
  LET previous == broker.orders[k]
      f == FilledBy(previous, quantity, price, fee)
  IN  /\ ~Terminal(previous)
      /\ ValidFact(f) /\ Classify(previous, f) = "apply"
      /\ broker' = [broker EXCEPT !.orders[k] = f]
      /\ UNCHANGED <<ledger, changes, task>>

ManualChange(change) ==
  LET start == [cash     |-> broker.start.cash + change.cash,
                holdings |-> [broker.start.holdings EXCEPT ![change.symbol] = @ + change.quantity]]
  IN  /\ changes < MaxManual
      /\ start.cash >= 0 /\ \A s \in Symbols : start.holdings[s] >= 0
      /\ changes' = changes + 1
      /\ broker' = [broker EXCEPT !.start = start]
      /\ UNCHANGED <<ledger, task>>

AnyFill ==
  \E k \in DOMAIN broker.orders :
    \E quantity \in 1..broker.orders[k].intent.quantity, price \in Prices, fee \in Fees :
      Fill(k, quantity, price, fee)

Next ==
  \/ Initialize \/ StoreBaseline
  \/ Recover \/ Resume \/ \E intent \in Intents : Submit(intent)
  \/ ApplyNext \/ FinishRecover \/ FinishResume \/ Refuse \/ Accept
  \/ Claim \/ Transmit \/ Record
  \/ \E id \in Ids : Cancel(id)
  \/ Stop \/ Abort
  \/ AnyFill \/ \E change \in ManualChanges : ManualChange(change)

Spec == Init /\ [][Next]_vars
=============================================================================
