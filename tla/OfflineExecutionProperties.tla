--------------------- MODULE OfflineExecutionProperties ---------------------
(***************************************************************************)
(* What the execution of orders promises, over OfflineExecution.           *)
(***************************************************************************)
EXTENDS OfflineExecution

Steps == {"idle", "store", "apply", "claim", "transmit", "record"}

(* Type invariant.                                                         *)
TypeOK ==
  /\ ledger \in [baseline : Accounts \cup {Nothing}, halted : BOOLEAN,
                 book : [Ids -> Facts \cup {Nothing}], events : SUBSET Facts]
  /\ \A i \in Ids : ledger.book[i] # Nothing => ledger.book[i].intent.id = i
  /\ broker \in Brokers
  /\ changes \in 0..MaxManual
  /\ task \in [op : {"none", "initialize", "recover", "resume", "submit", "cancel"},
               step : Steps, intent : Intents \cup {Nothing},
               snapshot : Brokers \cup {Nothing}, next : Nat,
               answer : Facts \cup {Nothing}]
  /\ task.op = "submit" => task.intent # Nothing
  /\ task.step \in {"store", "apply", "claim", "transmit"} => task.snapshot # Nothing
  /\ task.step = "record" => task.answer # Nothing
  /\ task.step = "apply" => task.next > 0

(* An order reaches the broker at most once, whatever dies or gets lost on *)
(* the way: the broker would take a second transmission for a new order    *)
(* (submit in fake_broker), and only the committed claim keeps the service *)
(* from sending one.                                                       *)
TransmittedOnce ==
  \A j, k \in DOMAIN broker.orders :
    broker.orders[j].intent.id = broker.orders[k].intent.id => j = k

(* The ledger never runs ahead of the broker: every fact it observed, and  *)
(* every fact it holds, is how that order was at the broker at that        *)
(* revision, so a later revision of the broker has at least its fills.     *)
LedgerBehindBroker ==
  LET held == {ledger.book[i] : i \in Ids} \ {Nothing}
      observed == ledger.events \cup {f \in held : f.state \notin LocalStates}
  IN  \A f \in observed : \E k \in DOMAIN broker.orders :
        LET order == broker.orders[k]
        IN  /\ order.intent = f.intent
            /\ order = f \/ /\ f.revision < order.revision
                            /\ ~Terminal(f)
                            /\ f.filled <= order.filled
                            /\ f.value <= order.value
                            /\ f.fees <= order.fees

(* What the broker says of an order can always be recorded: whichever      *)
(* fills and cancellations the ledger missed, the order's newest fact does *)
(* not conflict with what the ledger has.                                  *)
NewsIsAccepted ==
  \A k \in DOMAIN broker.orders : ~Rejects(ledger, broker.orders[k])

(* The ledger follows the broker: what it has was true, and what comes is  *)
(* accepted, in whatever order facts were missed or come late.             *)
LedgerFollowsBroker == LedgerBehindBroker /\ NewsIsAccepted

(* A fill of a sale brings at least the fee it costs.  The code does not   *)
(* check that: it bounds the fees of an order, not those of one fill, so a *)
(* late fee may take back what an earlier fill brought.                    *)
SalesPay == \A i \in Intents, fee \in Fees : i.side = "sell" => fee <= i.limit

(* An order passes the check of cash and shares on a snapshot and is sent  *)
(* later.  What the broker filled meanwhile can not have taken those means *)
(* away, if every fill of a sale pays its fee; else only a change made by  *)
(* hand can.                                                               *)
MeansStillThere ==
  /\ SalesPay
  /\ task.op = "submit" /\ task.step \in {"claim", "transmit"}
  /\ task.snapshot.start = broker.start
  => Affordable(broker, task.intent)

(* Without changes by hand and without sales that cost more than they      *)
(* bring, the account stays one: the reserve of the open orders is covered *)
(* by the cash through every fill and cancellation, and no more shares are *)
(* sold than are held.                                                     *)
NeverOverdrawn == changes = 0 /\ SalesPay => Answers

(* An order is sent only when the ledger explains the whole snapshot it    *)
(* was decided on: not halted, the account is the baseline plus recorded   *)
(* fills, and no other order is in the dark (UNKNOWN).                     *)
Sends == Len(broker'.orders) > Len(broker.orders)

SendsOnlyInStep ==
  [][Sends =>
       /\ ~ledger.halted
       /\ task.snapshot.start = ledger.baseline
       /\ \A i \in Ids \ {task.intent.id} :
            ledger.book[i] # Nothing => ledger.book[i].state # "unknown"]_vars

(* What the ledger has of an order only advances: it is never dropped, no  *)
(* claim is taken back, fills are never unmade and a finished order stays  *)
(* as it finished.  The baseline, once stored, never changes.              *)
OnlyAdvances(f, g) ==
  f = g \/ /\ g # Nothing
           /\ f # Nothing => /\ f.intent = g.intent
                             /\ g.state # "ready"
                             /\ f.state = "ready" => g.state = "unknown"
                             /\ ~Terminal(f)
                             /\ f.revision <= g.revision /\ f.filled <= g.filled

LedgerAdvances ==
  [][/\ \A i \in Ids : OnlyAdvances(ledger.book[i], ledger'.book[i])
     /\ ledger.baseline # Nothing => ledger'.baseline = ledger.baseline
     /\ ledger.events \subseteq ledger'.events]_vars
=============================================================================
