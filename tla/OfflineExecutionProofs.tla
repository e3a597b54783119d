----------------------- MODULE OfflineExecutionProofs -----------------------
(***************************************************************************)
(* The execution of orders for any intents, accounts, prices and fees, and *)
(* any number of changes made by hand.                                     *)
(***************************************************************************)
EXTENDS OfflineExecutionProperties, SumProofs

Books == {b \in [Ids -> Facts \cup {Nothing}] : \A i \in Ids : b[i] # Nothing => b[i].intent.id = i}

Ledgers == {l \in [baseline : Accounts \cup {Nothing}, halted : BOOLEAN,
                   book : [Ids -> Facts \cup {Nothing}], events : SUBSET Facts] : l.book \in Books}

(* What makes the claim exclusive: whatever is at the broker was claimed   *)
(* before, what is about to be claimed is in the book, and what is about   *)
(* to be sent is claimed and not at the broker.                            *)
Sent(id) == \E k \in DOMAIN broker.orders : broker.orders[k].intent.id = id

Claims ==
  /\ \A id \in Ids : Sent(id) => ledger.book[id] # Nothing /\ ledger.book[id].state # "ready"
  /\ task.step \in {"claim", "transmit"} => task.op = "submit" /\ ledger.book[task.intent.id] # Nothing
  /\ task.step = "transmit" => ledger.book[task.intent.id].state = "unknown" /\ ~Sent(task.intent.id)

IndInv == TypeOK /\ Claims /\ TransmittedOnce
-----------------------------------------------------------------------------
LEMMA IntentFacts ==
  ASSUME NEW i \in Intents
  PROVE  i.id \in Ids /\ i.quantity \in Nat \ {0} /\ i.limit \in Nat \ {0} /\ i # Nothing
BY IntentsAssumption, NothingAssumption DEF Ids

LEMMA FactFacts ==
  ASSUME NEW f \in Facts
  PROVE  /\ f.intent \in Intents /\ f.intent.id \in Ids /\ f.state \in States
         /\ f.revision \in Nat /\ f.filled \in Nat /\ f.value \in Nat /\ f.fees \in Nat
         /\ f # Nothing
BY NothingAssumption DEF Facts, Ids

LEMMA NewFactType ==
  ASSUME NEW i \in Intents, NEW s \in States, NEW r \in Nat
  PROVE  /\ NewFact(i, s, r) \in Facts
         /\ NewFact(i, s, r).intent = i /\ NewFact(i, s, r).state = s
BY DEF NewFact, Facts

LEMMA LedgerType == TypeOK => ledger \in Ledgers
BY DEF TypeOK, Ledgers, Books

(* A fact the ledger applies replaces one that was claimed, by a broker's  *)
(* state of the same order.                                                *)
LEMMA ApplyFacts ==
  ASSUME NEW l \in Ledgers, NEW f \in Facts, ~Rejects(l, f)
  PROVE  /\ Apply(l, f) \in Ledgers
         /\ Apply(l, f).baseline = l.baseline /\ Apply(l, f).halted = l.halted
         /\ l.events \subseteq Apply(l, f).events
         /\ \A i \in Ids :
              \/ Apply(l, f).book[i] = l.book[i]
              \/ /\ i = f.intent.id /\ Apply(l, f).book[i] = f
                 /\ l.book[i] # Nothing /\ l.book[i].intent = f.intent
                 /\ f.revision > l.book[i].revision
                 /\ Continues(l.book[i], f)
PROOF
<1> DEFINE id == f.intent.id
           new == IF Classify(l.book[id], f) = "apply" THEN f ELSE l.book[id]
           applied == [l EXCEPT !.events = @ \cup {f},
                                !.book[id] = IF Classify(@, f) = "apply" THEN f ELSE @]
<1>1. /\ id \in Ids /\ l.book[id] # Nothing /\ l.book[id].intent = f.intent
      /\ l.book[id] \in Facts /\ l.book \in Books
    BY FactFacts DEF Rejects, Local, Ledgers, Books
<1>2. CASE Seen(l, f)
  <2>1. Apply(l, f) = l
    BY <1>2 DEF Apply
  <2> QED
    BY <2>1
<1>3. CASE ~Seen(l, f)
  <2>1. Apply(l, f) = applied
    BY <1>3 DEF Apply
  <2>2. /\ applied.baseline = l.baseline /\ applied.halted = l.halted
        /\ applied.events = l.events \cup {f}
        /\ applied.book = [l.book EXCEPT ![id] = new]
    BY <1>1 DEF Ledgers, Books
  <2>3. new \in Facts /\ new.intent.id = id
    BY <1>1
  <2>4. applied.book \in Books
    <3> HIDE DEF new, id, applied
    <3>1. [l.book EXCEPT ![id] = new] \in Books
      BY <1>1, <2>3 DEF Books
    <3> QED
      BY <2>2, <3>1
  <2>5. applied \in Ledgers
    BY <2>2, <2>4 DEF Ledgers, Books
  <2>6. new = f => f = l.book[id] \/ (f.revision > l.book[id].revision /\ Continues(l.book[id], f))
    BY <1>1 DEF Classify
  <2>7. \A i \in Ids : applied.book[i] = IF i = id THEN new ELSE l.book[i]
    BY <1>1, <2>2 DEF Books
  <2> HIDE DEF applied
  <2> QED
    BY <1>1, <2>1, <2>2, <2>5, <2>6, <2>7
<1> QED
    BY <1>2, <1>3
-----------------------------------------------------------------------------
Tasks ==
  {t \in [op : {"none", "initialize", "recover", "resume", "submit", "cancel"},
          step : Steps, intent : Intents \cup {Nothing},
          snapshot : Brokers \cup {Nothing}, next : Nat, answer : Facts \cup {Nothing}] :
     /\ t.op = "submit" => t.intent # Nothing
     /\ t.step \in {"store", "apply", "claim", "transmit"} => t.snapshot # Nothing
     /\ t.step = "record" => t.answer # Nothing
     /\ t.step = "apply" => t.next > 0}

LEMMA TypeParts ==
  TypeOK <=> /\ ledger \in Ledgers /\ broker \in Brokers
             /\ changes \in 0..MaxManual /\ task \in Tasks
BY DEF TypeOK, Ledgers, Books, Tasks

LEMMA TypePartsNext ==
  TypeOK' <=> /\ ledger' \in Ledgers /\ broker' \in Brokers
              /\ changes' \in 0..MaxManual /\ task' \in Tasks
BY DEF TypeOK, Ledgers, Books, Tasks

LEMMA IdleType == Idle \in Tasks /\ Idle.step = "idle"
BY DEF Idle, Tasks, Steps

LEMMA InitInv == Init => IndInv
PROOF
<1> SUFFICES ASSUME Init PROVE IndInv
    OBVIOUS
<1>1. ledger \in Ledgers /\ \A i \in Ids : ledger.book[i] = Nothing
    BY DEF Init, Ledgers, Books
<1>2. broker \in Brokers /\ broker.orders = <<>>
    BY AccountAssumption DEF Init, Brokers
<1>3. changes \in 0..MaxManual
    BY OutsideAssumption DEF Init
<1>4. task \in Tasks /\ task.step = "idle"
    BY IdleType DEF Init
<1>5. TypeOK
    BY <1>1, <1>2, <1>3, <1>4, TypeParts
<1>6. Claims /\ TransmittedOnce
    BY <1>2, <1>4 DEF Claims, TransmittedOnce, Sent
<1> QED
    BY <1>5, <1>6 DEF IndInv

(* The steps that touch neither the book nor which orders there are keep   *)
(* the claims, as long as they do not come to claim or to transmit.        *)
SameOrders ==
  /\ DOMAIN broker'.orders = DOMAIN broker.orders
  /\ \A k \in DOMAIN broker.orders : broker'.orders[k].intent = broker.orders[k].intent

NoClaimTaken ==
  \A i \in Ids : ledger.book[i] # Nothing /\ ledger.book[i].state # "ready"
                   => ledger'.book[i] # Nothing /\ ledger'.book[i].state # "ready"

LEMMA KeepsClaims ==
  ASSUME IndInv, SameOrders, NoClaimTaken, task'.step \notin {"claim", "transmit"}
  PROVE  Claims' /\ TransmittedOnce'
PROOF
<1>1. \A id \in Ids : Sent(id)' => Sent(id)
    BY DEF SameOrders, Sent
<1>2. Claims'
    BY <1>1 DEF IndInv, Claims, NoClaimTaken
<1>3. TransmittedOnce'
    BY DEF IndInv, TransmittedOnce, SameOrders
<1> QED
    BY <1>2, <1>3

LEMMA QuietStep ==
  ASSUME IndInv, UNCHANGED <<broker, changes>>, ledger' \in Ledgers, NoClaimTaken,
         task' \in Tasks, task'.step \notin {"claim", "transmit"}
  PROVE  IndInv'
PROOF
<1>1. SameOrders
    BY DEF SameOrders
<1>2. TypeOK'
    BY TypeParts, TypePartsNext DEF IndInv
<1> QED
    BY <1>1, <1>2, KeepsClaims DEF IndInv

LEMMA BrokerStep ==
  ASSUME IndInv, UNCHANGED ledger, broker' \in Brokers, changes' \in 0..MaxManual, SameOrders,
         UNCHANGED task \/ (task' \in Tasks /\ task'.step \notin {"claim", "transmit"})
  PROVE  IndInv'
PROOF
<1>1. TypeOK'
    BY TypeParts, TypePartsNext DEF IndInv
<1>2. NoClaimTaken
    BY DEF NoClaimTaken
<1>3. CASE UNCHANGED task
  <2>1. \A id : Sent(id)' <=> Sent(id)
    BY DEF SameOrders, Sent
  <2>2. Claims' /\ TransmittedOnce'
    BY <1>3, <2>1 DEF IndInv, Claims, TransmittedOnce, SameOrders
  <2> QED
    BY <1>1, <2>2 DEF IndInv
<1>4. CASE task' \in Tasks /\ task'.step \notin {"claim", "transmit"}
    BY <1>1, <1>2, <1>4, KeepsClaims DEF IndInv
<1> QED
    BY <1>3, <1>4
-----------------------------------------------------------------------------
(* One lemma per kind of step.                                             *)
LEMMA ReleaseType == Release => task' \in Tasks /\ task'.step = "idle"
BY IdleType DEF Release

(* Steps that end a task, or begin one, and leave the book alone.          *)
LEMMA BookKept ==
  ASSUME IndInv, UNCHANGED <<broker, changes>>, ledger' \in Ledgers, ledger'.book = ledger.book,
         task' \in Tasks, task'.step \notin {"claim", "transmit"}
  PROVE  IndInv'
BY QuietStep DEF NoClaimTaken

LEMMA LookStep ==
  ASSUME IndInv, NEW op \in {"recover", "resume", "submit"}, NEW intent \in Intents \cup {Nothing},
         op = "submit" => intent # Nothing, Look(op, intent)
  PROVE  IndInv'
PROOF
<1>1. broker \in Brokers
    BY TypeParts DEF IndInv
<1>2. ledger' \in Ledgers /\ ledger'.book = ledger.book
    BY TypeParts DEF IndInv, Look
<1>3. broker # Nothing
    BY <1>1, NothingAssumption
<1>4. task' \in Tasks /\ task'.step = "apply"
  <2>1. task' = [Idle EXCEPT !.op = op, !.step = "apply", !.intent = intent,
                             !.snapshot = broker, !.next = 1]
    BY DEF Look
  <2>2. task' = [op |-> op, step |-> "apply", intent |-> intent,
                 snapshot |-> broker, next |-> 1, answer |-> Nothing]
    BY <2>1 DEF Idle
  <2> QED
    BY <1>1, <1>3, <2>2 DEF Tasks, Steps
<1> QED
    BY <1>2, <1>4, BookKept DEF Look

LEMMA BaselineStep ==
  ASSUME IndInv, Initialize \/ StoreBaseline
  PROVE  IndInv'
PROOF
<1>1. ledger \in Ledgers /\ broker \in Brokers /\ task \in Tasks
    BY TypeParts DEF IndInv
<1>2. CASE Initialize
  <2>1. task' \in Tasks /\ task'.step = "store"
    BY <1>1, <1>2, NothingAssumption DEF Initialize, Idle, Tasks, Steps
  <2> QED
    BY <1>1, <1>2, <2>1, BookKept DEF Initialize
<1>3. CASE StoreBaseline
  <2>1. task.snapshot \in Brokers
    BY <1>1, <1>3 DEF StoreBaseline, Holds, Tasks
  <2>2. ledger' \in Ledgers /\ ledger'.book = ledger.book
    BY <1>1, <1>3, <2>1 DEF StoreBaseline, Ledgers, Brokers
  <2> QED
    BY <1>3, <2>2, BookKept, ReleaseType DEF StoreBaseline
<1> QED
    BY <1>2, <1>3

(* A ledger that applied a fact took no claim away.                        *)
LEMMA ApplyKeepsClaims ==
  ASSUME NEW f \in Facts, ledger \in Ledgers, ~Rejects(ledger, f), ledger' = Apply(ledger, f)
  PROVE  ledger' \in Ledgers /\ NoClaimTaken
PROOF
<1>1. \A i \in Ids : \/ ledger'.book[i] = ledger.book[i]
                     \/ ledger'.book[i] = f /\ Continues(ledger.book[i], f)
    BY ApplyFacts
<1>2. \A i \in Ids : Continues(ledger.book[i], f) => f.state # "ready"
    BY DEF Continues, LocalStates
<1>3. ledger' \in Ledgers
    BY ApplyFacts
<1> QED
    BY <1>1, <1>2, <1>3, FactFacts DEF NoClaimTaken

LEMMA ApplyNextStep ==
  ASSUME IndInv, ApplyNext
  PROVE  IndInv'
PROOF
<1> DEFINE f == task.snapshot.orders[task.next]
<1>1. ledger \in Ledgers /\ task \in Tasks
    BY TypeParts DEF IndInv
<1>2. f \in Facts
    BY <1>1 DEF ApplyNext, Tasks, Brokers
<1>3. task' \in Tasks /\ task'.step = "apply"
    BY <1>1 DEF ApplyNext, Tasks
<1>4. ledger' \in Ledgers /\ NoClaimTaken
  <2>1. CASE UNCHANGED ledger
    BY <1>1, <2>1 DEF NoClaimTaken
  <2>2. CASE ~Rejects(ledger, f) /\ ledger' = Apply(ledger, f)
    BY <1>1, <1>2, <2>2, ApplyKeepsClaims DEF ApplyNext
  <2> QED
    BY <2>1, <2>2 DEF ApplyNext
<1> QED
    BY <1>3, <1>4, QuietStep DEF ApplyNext

LEMMA RecordStep ==
  ASSUME IndInv, Record
  PROVE  IndInv'
PROOF
<1>1. ledger \in Ledgers /\ task.answer \in Facts
    BY TypeParts DEF IndInv, Record, Tasks
<1>2. ledger' \in Ledgers /\ NoClaimTaken
    BY <1>1, ApplyKeepsClaims DEF Record
<1> QED
    BY <1>2, QuietStep, ReleaseType DEF Record

LEMMA JudgeStep ==
  ASSUME IndInv, FinishRecover \/ FinishResume \/ Refuse
  PROVE  IndInv'
PROOF
<1>1. ledger \in Ledgers
    BY TypeParts DEF IndInv
<1>2. \E h \in BOOLEAN : ledger' = [ledger EXCEPT !.halted = h]
  <2>1. ledger.halted \in BOOLEAN
    BY <1>1 DEF Ledgers
  <2>2. InStep \in BOOLEAN
    BY DEF InStep, Matched
  <2> QED
    BY <2>1, <2>2 DEF FinishRecover, FinishResume, Refuse
<1>3. ledger' \in Ledgers /\ ledger'.book = ledger.book
    BY <1>1, <1>2 DEF Ledgers
<1> QED
    BY <1>3, BookKept, ReleaseType DEF FinishRecover, FinishResume, Refuse

(* Saving an intent writes an empty line of the book or none.              *)
LEMMA SaveFacts ==
  ASSUME NEW l \in Ledgers, NEW intent \in Intents
  PROVE  /\ Save(l, intent) \in Ledgers
         /\ Save(l, intent).baseline = l.baseline /\ Save(l, intent).events = l.events
         /\ Save(l, intent).book[intent.id] # Nothing
         /\ \A i \in Ids : \/ Save(l, intent).book[i] = l.book[i]
                           \/ /\ i = intent.id /\ l.book[i] = Nothing
                              /\ Save(l, intent).book[i] = NewFact(intent, "ready", 0)
PROOF
<1>1. /\ intent.id \in Ids
      /\ NewFact(intent, "ready", 0) \in Facts /\ NewFact(intent, "ready", 0).intent = intent
      /\ NewFact(intent, "ready", 0) # Nothing
    BY IntentFacts, NewFactType, FactFacts DEF States, LocalStates
<1> DEFINE new == NewFact(intent, "ready", 0)
<1> HIDE DEF new
<1>2. CASE l.book[intent.id] = Nothing
  <2>1. Save(l, intent) = [l EXCEPT !.book[intent.id] = new]
    BY <1>2 DEF Save, new
  <2>2. new \in Facts /\ new.intent.id = intent.id /\ new # Nothing
    BY <1>1 DEF new
  <2>3. [l.book EXCEPT ![intent.id] = new] \in Books
    BY <1>1, <2>2 DEF Ledgers, Books
  <2>4. Save(l, intent) = [l EXCEPT !.book = [l.book EXCEPT ![intent.id] = new]]
    BY <2>1 DEF Ledgers
  <2>5. Save(l, intent) \in Ledgers
    BY <2>3, <2>4 DEF Ledgers, Books
  <2>6. /\ Save(l, intent).book = [l.book EXCEPT ![intent.id] = new]
        /\ Save(l, intent).baseline = l.baseline /\ Save(l, intent).events = l.events
    BY <2>4 DEF Ledgers
  <2>7. /\ Save(l, intent).book[intent.id] = new
        /\ \A i \in Ids \ {intent.id} : Save(l, intent).book[i] = l.book[i]
    BY <1>1, <2>6 DEF Ledgers, Books
  <2> QED
    BY <1>2, <2>2, <2>5, <2>6, <2>7 DEF new
<1>3. CASE l.book[intent.id] # Nothing
    BY <1>3 DEF Save
<1> QED
    BY <1>2, <1>3

LEMMA AcceptStep ==
  ASSUME IndInv, Accept
  PROVE  IndInv'
PROOF
<1>1. ledger \in Ledgers /\ broker \in Brokers /\ task \in Tasks
    BY TypeParts DEF IndInv
<1>2. task.intent \in Intents
    BY <1>1 DEF Accept, Reconciled, Tasks
<1>3. ledger' \in Ledgers /\ ledger'.book[task.intent.id] # Nothing
    BY <1>1, <1>2, SaveFacts DEF Accept
<1>4. \A i \in Ids : ledger.book[i] # Nothing => ledger'.book[i] = ledger.book[i]
    BY <1>1, <1>2, SaveFacts DEF Accept
<1>5. task' \in Tasks /\ task'.step = "claim" /\ task'.op = "submit" /\ task'.intent = task.intent
    BY <1>1 DEF Accept, Reconciled, Tasks, Steps
<1>6. TypeOK'
    BY <1>1, <1>3, <1>5, TypeParts, TypePartsNext DEF IndInv, Accept
<1>7. Claims'
    BY <1>3, <1>4, <1>5 DEF IndInv, Claims, Sent, Accept
<1>8. TransmittedOnce'
    BY DEF IndInv, TransmittedOnce, Accept
<1> QED
    BY <1>6, <1>7, <1>8 DEF IndInv

(* The claim: nothing of this order is at the broker, for all that is was  *)
(* claimed, and this one is still READY.                                   *)
LEMMA ClaimedFacts ==
  ASSUME NEW l \in Ledgers, NEW id \in Ids, l.book[id] # Nothing
  PROVE  /\ Claimed(l, id) \in Ledgers
         /\ Claimed(l, id).baseline = l.baseline /\ Claimed(l, id).events = l.events
         /\ Claimed(l, id).book[id] = [l.book[id] EXCEPT !.state = "unknown"]
         /\ \A i \in Ids \ {id} : Claimed(l, id).book[i] = l.book[i]
PROOF
<1> DEFINE new == [l.book[id] EXCEPT !.state = "unknown"]
<1>1. new \in Facts /\ new.intent.id = id
    BY DEF Ledgers, Books, Facts, States, LocalStates
<1> HIDE DEF new
<1>2. Claimed(l, id) = [l EXCEPT !.book = [l.book EXCEPT ![id] = new]]
    BY DEF Claimed, Ledgers, new
<1>3. [l.book EXCEPT ![id] = new] \in Books
    BY <1>1 DEF Ledgers, Books
<1>4. Claimed(l, id) \in Ledgers
    BY <1>2, <1>3 DEF Ledgers, Books
<1> QED
    BY <1>2, <1>4 DEF Ledgers, new

LEMMA ClaimStep ==
  ASSUME IndInv, Claim
  PROVE  IndInv'
PROOF
<1> DEFINE id == task.intent.id
<1>1. ledger \in Ledgers /\ broker \in Brokers /\ task \in Tasks
    BY TypeParts DEF IndInv
<1>2. task.intent \in Intents /\ id \in Ids
    BY <1>1, IntentFacts DEF Claim, Holds, Tasks
<1>3. ledger.book[id] # Nothing /\ ledger.book[id] \in Facts /\ ledger.book[id].state = "ready"
    BY <1>1, <1>2 DEF IndInv, Claims, Claim, Holds, Ledgers
<1>4. /\ ledger' \in Ledgers
      /\ ledger'.book[id] = [ledger.book[id] EXCEPT !.state = "unknown"]
      /\ \A i \in Ids \ {id} : ledger'.book[i] = ledger.book[i]
    BY <1>1, <1>2, <1>3, ClaimedFacts DEF Claim
<1>5. ledger'.book[id].state = "unknown" /\ ledger'.book[id] # Nothing
  <2>1. ledger'.book[id].state = "unknown"
    BY <1>3, <1>4 DEF Facts
  <2>2. ledger'.book[id] \in Facts
    BY <1>3, <1>4 DEF Facts, States, LocalStates
  <2> QED
    BY <2>1, <2>2, NothingAssumption
<1>6. ~Sent(id)
    BY <1>2, <1>3 DEF IndInv, Claims
<1>7. task' \in Tasks /\ task'.step = "transmit" /\ task'.op = "submit" /\ task'.intent = task.intent
    BY <1>1 DEF Claim, Holds, Tasks, Steps
<1>8. TypeOK'
    BY <1>1, <1>4, <1>7, TypeParts, TypePartsNext DEF IndInv, Claim
<1>9. Claims'
  <2>1. broker' = broker /\ task'.step = "transmit" /\ task'.intent.id = id
    BY <1>7 DEF Claim
  <2>2. \A i \in Ids : Sent(i)' <=> Sent(i)
    BY <2>1 DEF Sent
  <2> HIDE DEF id
  <2>3. ASSUME NEW i \in Ids, Sent(i)
        PROVE  ledger'.book[i] # Nothing /\ ledger'.book[i].state # "ready"
    <3>1. i # id
      BY <1>6, <2>3
    <3> QED
      BY <1>4, <2>3, <3>1 DEF IndInv, Claims
  <2>4. task'.op = "submit"
    BY <1>7
  <2> QED
    BY ONLY <1>2, <1>5, <1>6, <2>1, <2>2, <2>3, <2>4 DEF Claims
<1>10. TransmittedOnce'
    BY DEF IndInv, TransmittedOnce, Claim
<1> QED
    BY <1>8, <1>9, <1>10 DEF IndInv

(* Putting a new order behind the others.                                  *)
LEMMA OrderAppended ==
  ASSUME broker \in Brokers, NEW f \in Facts, broker' = [broker EXCEPT !.orders = Append(broker.orders, f)]
  PROVE  /\ broker' \in Brokers
         /\ DOMAIN broker.orders = 1..Len(broker.orders) /\ Len(broker.orders) \in Nat
         /\ DOMAIN broker'.orders = 1..(Len(broker.orders) + 1)
         /\ \A k \in DOMAIN broker.orders : broker'.orders[k] = broker.orders[k]
         /\ broker'.orders[Len(broker.orders) + 1] = f
PROOF
<1> DEFINE orders == broker.orders
<1>1. orders \in Seq(Facts)
    BY DEF Brokers
<1>2. broker' = [start |-> broker.start, orders |-> Append(orders, f)]
    BY DEF Brokers
<1> HIDE DEF orders
<1>3. /\ Append(orders, f) \in Seq(Facts)
      /\ DOMAIN orders = 1..Len(orders) /\ Len(orders) \in Nat
      /\ DOMAIN Append(orders, f) = 1..(Len(orders) + 1)
      /\ \A k \in DOMAIN orders : Append(orders, f)[k] = orders[k]
      /\ Append(orders, f)[Len(orders) + 1] = f
    BY <1>1
<1>4. broker' \in Brokers /\ broker'.orders = Append(orders, f)
  <2>1. broker.start \in Accounts
    BY DEF Brokers
  <2> QED
    BY ONLY <1>2, <1>3, <2>1 DEF Brokers
<1> QED
    BY <1>3, <1>4 DEF orders

(* What is transmitted: a new order, under the intent that was claimed.    *)
LEMMA Transmitted ==
  ASSUME IndInv, Transmit
  PROVE  /\ task.intent \in Intents /\ task.intent.id \in Ids
         /\ \E state \in {"open", "rejected"} :
              LET f == NewFact(task.intent, state, 1)
              IN  /\ f \in Facts
                  /\ broker' = [broker EXCEPT !.orders = Append(broker.orders, f)]
                  /\ Answered(f)
PROOF
<1>1. task.intent \in Intents /\ task.intent.id \in Ids
    BY TypeParts, IntentFacts DEF IndInv, Transmit, Holds, Tasks
<1>2. PICK state \in {"open", "rejected"} :
        /\ broker' = [broker EXCEPT !.orders = Append(broker.orders, NewFact(task.intent, state, 1))]
        /\ Answered(NewFact(task.intent, state, 1))
    BY DEF Transmit
<1>3. state \in States
    BY DEF States, LocalStates, TerminalStates
<1>4. NewFact(task.intent, state, 1) \in Facts
    BY <1>1, <1>3, NewFactType
<1> QED
    BY <1>1, <1>2, <1>4

(* The transmission: what it appends was claimed and was not there.        *)
LEMMA TransmitStep ==
  ASSUME IndInv, Transmit
  PROVE  IndInv'
PROOF
<1> DEFINE id == task.intent.id
<1>1. ledger \in Ledgers /\ broker \in Brokers /\ task \in Tasks
    BY TypeParts DEF IndInv
<1>2. task.intent \in Intents /\ id \in Ids
    BY Transmitted
<1>3. PICK f \in Facts :
        /\ f.intent = task.intent
        /\ broker' = [broker EXCEPT !.orders = Append(broker.orders, f)]
        /\ Answered(f)
  <2>1. PICK state \in {"open", "rejected"} :
          /\ NewFact(task.intent, state, 1) \in Facts
          /\ broker' = [broker EXCEPT !.orders = Append(broker.orders, NewFact(task.intent, state, 1))]
          /\ Answered(NewFact(task.intent, state, 1))
    BY Transmitted
  <2> QED
    BY <2>1 DEF NewFact
<1>4. task' \in Tasks /\ task'.step \in {"record", "idle"}
  <2>1. CASE task' = [task EXCEPT !.step = "record", !.answer = f]
    BY <1>1, <2>1, FactFacts DEF Tasks, Steps
  <2>2. CASE Release
    BY <2>2, ReleaseType
  <2> QED
    BY <1>3, <2>1, <2>2 DEF Answered
<1>5. /\ broker' \in Brokers
      /\ DOMAIN broker.orders = 1..Len(broker.orders) /\ Len(broker.orders) \in Nat
      /\ DOMAIN broker'.orders = 1..(Len(broker.orders) + 1)
      /\ \A k \in DOMAIN broker.orders : broker'.orders[k] = broker.orders[k]
      /\ broker'.orders[Len(broker.orders) + 1] = f
    BY <1>1, <1>3, OrderAppended
<1>6. /\ \A k \in DOMAIN broker.orders : broker.orders[k].intent.id # id
      /\ ledger.book[id] # Nothing /\ ledger.book[id].state = "unknown"
    BY DEF IndInv, Claims, Sent, Transmit, Holds
<1>7. \A i \in Ids : Sent(i)' => Sent(i) \/ i = id
    BY <1>3, <1>5 DEF Sent
<1>8. TypeOK'
    BY <1>1, <1>4, <1>5, TypeParts, TypePartsNext DEF IndInv, Transmit
<1>9. Claims'
    BY <1>4, <1>6, <1>7 DEF IndInv, Claims, Transmit
<1>10. TransmittedOnce'
  <2> SUFFICES ASSUME NEW j \in DOMAIN broker'.orders, NEW k \in DOMAIN broker'.orders,
                      broker'.orders[j].intent.id = broker'.orders[k].intent.id
               PROVE  j = k
    BY DEF TransmittedOnce
  <2>1. CASE j \in DOMAIN broker.orders /\ k \in DOMAIN broker.orders
    BY <1>5, <2>1 DEF IndInv, TransmittedOnce
  <2>2. CASE j \in DOMAIN broker.orders /\ k = Len(broker.orders) + 1
    BY <1>3, <1>5, <1>6, <2>2
  <2>3. CASE k \in DOMAIN broker.orders /\ j = Len(broker.orders) + 1
    BY <1>3, <1>5, <1>6, <2>3
  <2>4. \A m \in DOMAIN broker'.orders : m \in DOMAIN broker.orders \/ m = Len(broker.orders) + 1
    BY <1>5
  <2> QED
    BY <2>1, <2>2, <2>3, <2>4
<1> QED
    BY <1>8, <1>9, <1>10 DEF IndInv

(* Putting a fact of the same order in an order's place.                   *)
LEMMA ReplaceOrder ==
  ASSUME broker \in Brokers, NEW k \in DOMAIN broker.orders, NEW f \in Facts,
         f.intent = broker.orders[k].intent, broker' = [broker EXCEPT !.orders[k] = f]
  PROVE  broker' \in Brokers /\ SameOrders
PROOF
<1>1. broker'.orders = [broker.orders EXCEPT ![k] = f] /\ broker'.start = broker.start
    BY DEF Brokers
<1>2. broker.orders \in Seq(Facts)
    BY DEF Brokers
<1>3. broker'.orders \in Seq(Facts) /\ DOMAIN broker'.orders = DOMAIN broker.orders
    BY <1>1, <1>2
<1>4. \A j \in DOMAIN broker.orders : broker'.orders[j] = IF j = k THEN f ELSE broker.orders[j]
    BY <1>1, <1>2
<1>5. broker' \in Brokers
    BY <1>3 DEF Brokers
<1> QED
    BY <1>3, <1>4, <1>5 DEF SameOrders

(* What a cancellation makes of an order.                                  *)
Outcome(order) ==
  IF Terminal(order) THEN order
  ELSE [order EXCEPT !.state = "cancelled", !.revision = @ + 1]

LEMMA OutcomeFacts ==
  ASSUME NEW order \in Facts
  PROVE  /\ Outcome(order) \in Facts /\ Outcome(order).intent = order.intent
         /\ ~Terminal(order) =>
              /\ Outcome(order).state = "cancelled" /\ Outcome(order).revision = order.revision + 1
              /\ Outcome(order).filled = order.filled /\ Outcome(order).value = order.value
              /\ Outcome(order).fees = order.fees
PROOF
<1>1. "cancelled" \in States
    BY DEF States, TerminalStates
<1>2. order.revision + 1 \in Nat
    BY FactFacts
<1>3. [order EXCEPT !.state = "cancelled", !.revision = @ + 1] \in Facts
    BY ONLY order \in Facts, <1>1, <1>2 DEF Facts
<1> QED
    BY <1>3 DEF Facts, Outcome

LEMMA Cancelled ==
  ASSUME NEW id \in Ids, Cancel(id)
  PROVE  \E k \in DOMAIN broker.orders :
           /\ broker' = [broker EXCEPT !.orders[k] = Outcome(broker.orders[k])]
           /\ \/ task' = [Idle EXCEPT !.op = "cancel", !.step = "record", !.answer = Outcome(broker.orders[k])]
              \/ UNCHANGED task
BY DEF Cancel, Position, Outcome

LEMMA CancelStep ==
  ASSUME IndInv, NEW id \in Ids, Cancel(id)
  PROVE  IndInv'
PROOF
<1>1. ledger \in Ledgers /\ broker \in Brokers /\ task \in Tasks /\ changes \in 0..MaxManual
    BY TypeParts DEF IndInv
<1>2. PICK k \in DOMAIN broker.orders :
        /\ broker' = [broker EXCEPT !.orders[k] = Outcome(broker.orders[k])]
        /\ \/ task' = [Idle EXCEPT !.op = "cancel", !.step = "record", !.answer = Outcome(broker.orders[k])]
           \/ UNCHANGED task
    BY Cancelled
<1> DEFINE f == Outcome(broker.orders[k])
<1>3. f \in Facts /\ f.intent = broker.orders[k].intent
  <2>1. broker.orders[k] \in Facts
    BY <1>1 DEF Brokers
  <2> QED
    BY <2>1, OutcomeFacts
<1> HIDE DEF f
<1>4. broker' \in Brokers /\ SameOrders
    BY <1>1, <1>2, <1>3, ReplaceOrder DEF f
<1>5. UNCHANGED task \/ (task' \in Tasks /\ task'.step = "record")
  <2>1. CASE task' = [Idle EXCEPT !.op = "cancel", !.step = "record", !.answer = f]
    <3>1. task' = [op |-> "cancel", step |-> "record", intent |-> Nothing,
                   snapshot |-> Nothing, next |-> 0, answer |-> f]
      BY <2>1 DEF Idle
    <3> QED
      BY <1>3, <3>1, NothingAssumption DEF Tasks, Steps
  <2> QED
    BY <1>2, <2>1 DEF f
<1> QED
    BY <1>1, <1>4, <1>5, BrokerStep DEF Cancel

(* What a fill makes of an order.                                          *)
LEMMA Filled ==
  ASSUME broker \in Brokers, AnyFill
  PROVE  \E k \in DOMAIN broker.orders : \E f \in Facts :
           /\ f.intent = broker.orders[k].intent /\ Classify(broker.orders[k], f) = "apply"
           /\ ValidFact(f) /\ \E fee \in Fees : f.fees = broker.orders[k].fees + fee
           /\ broker' = [broker EXCEPT !.orders[k] = f] /\ UNCHANGED <<ledger, changes, task>>
PROOF
<1>1. PICK k \in DOMAIN broker.orders, quantity \in Nat, price \in Nat, fee \in Fees :
        Fill(k, quantity, price, fee)
  <2>1. \A k \in DOMAIN broker.orders : broker.orders[k].intent.quantity \in Nat
    BY FactFacts, IntentFacts DEF Brokers
  <2> QED
    BY <2>1, OutsideAssumption DEF AnyFill
<1>0. fee \in Nat
    BY OutsideAssumption
<1> DEFINE f == FilledBy(broker.orders[k], quantity, price, fee)
<1>2. f \in Facts /\ f.intent = broker.orders[k].intent
  <2> DEFINE order == broker.orders[k]
             state == IF order.filled + quantity = order.intent.quantity THEN "filled" ELSE "partial"
             paid == quantity * price
  <2>1. order \in Facts
    BY DEF Brokers
  <2>2. state \in States
    BY DEF States, TerminalStates
  <2>3. paid \in Nat
    OBVIOUS
  <2>4. f = [order EXCEPT !.state = state, !.revision = @ + 1, !.filled = @ + quantity,
                          !.value = @ + paid, !.fees = @ + fee]
    BY DEF FilledBy
  <2> HIDE DEF order, state, paid, f
  <2>5. /\ order.revision + 1 \in Nat /\ order.filled + quantity \in Nat
        /\ order.value + paid \in Nat /\ order.fees + fee \in Nat
    BY <1>0, <2>1, <2>3, FactFacts
  <2>6. f = [order EXCEPT !.state = state, !.revision = order.revision + 1,
                          !.filled = order.filled + quantity,
                          !.value = order.value + paid, !.fees = order.fees + fee]
    BY <2>4
  <2>7. f \in Facts /\ f.intent = order.intent
    BY ONLY <2>1, <2>2, <2>5, <2>6 DEF Facts
  <2> QED
    BY <2>7 DEF order
<1>4. f.fees = broker.orders[k].fees + fee
  <2>1. broker.orders[k] \in Facts
    BY DEF Brokers
  <2> QED
    BY <2>1 DEF FilledBy, Facts
<1>3. /\ Classify(broker.orders[k], f) = "apply" /\ ValidFact(f)
      /\ broker' = [broker EXCEPT !.orders[k] = f] /\ UNCHANGED <<ledger, changes, task>>
    BY <1>1 DEF Fill
<1> HIDE DEF f
<1> QED
    BY <1>2, <1>3, <1>4

LEMMA FillStep ==
  ASSUME IndInv, AnyFill
  PROVE  IndInv'
PROOF
<1>1. broker \in Brokers /\ changes \in 0..MaxManual
    BY TypeParts DEF IndInv
<1>2. PICK k \in DOMAIN broker.orders : \E f \in Facts :
           /\ f.intent = broker.orders[k].intent
           /\ broker' = [broker EXCEPT !.orders[k] = f] /\ UNCHANGED <<ledger, changes, task>>
    BY <1>1, Filled
<1>3. broker' \in Brokers /\ SameOrders
    BY <1>1, <1>2, ReplaceOrder
<1> QED
    BY <1>1, <1>2, <1>3, BrokerStep

LEMMA ManualStep ==
  ASSUME IndInv, NEW change \in ManualChanges, ManualChange(change)
  PROVE  IndInv'
PROOF
<1> DEFINE cash == broker.start.cash + change.cash
           holdings == [broker.start.holdings EXCEPT ![change.symbol] = @ + change.quantity]
<1>1. broker \in Brokers /\ changes \in 0..MaxManual /\ MaxManual \in Nat
    BY TypeParts, OutsideAssumption DEF IndInv
<1>2. change \in [cash : Int, symbol : Symbols, quantity : Int]
    BY OutsideAssumption
<1>3. /\ cash >= 0 /\ \A s \in Symbols : holdings[s] >= 0
      /\ broker' = [broker EXCEPT !.start = [cash |-> cash, holdings |-> holdings]]
      /\ changes < MaxManual /\ changes' = changes + 1
    BY DEF ManualChange
<1>4. broker.start \in Accounts
    BY <1>1 DEF Brokers
<1>5. holdings \in [Symbols -> Int]
    BY <1>2, <1>4 DEF Accounts
<1>6. holdings \in [Symbols -> Nat] /\ cash \in Nat
    BY <1>2, <1>3, <1>4, <1>5 DEF Accounts
<1> HIDE DEF cash, holdings
<1>7. broker' \in Brokers /\ broker'.orders = broker.orders
    BY <1>1, <1>3, <1>6 DEF Brokers, Accounts
<1>8. SameOrders
    BY <1>7 DEF SameOrders
<1>9. changes' \in 0..MaxManual
    BY <1>1, <1>3
<1> QED
    BY <1>7, <1>8, <1>9, BrokerStep DEF ManualChange

LEMMA StopStep ==
  ASSUME IndInv, Stop \/ Abort
  PROVE  IndInv'
PROOF
<1>1. ledger \in Ledgers /\ broker \in Brokers /\ changes \in 0..MaxManual /\ task \in Tasks
    BY TypeParts DEF IndInv
<1>2. CASE Stop
  <2>1. ledger' \in Ledgers /\ ledger'.book = ledger.book
    BY <1>1, <1>2 DEF Stop, Ledgers
  <2>2. task' \in Tasks /\ task'.step = "idle"
    BY <1>1, <1>2, IdleType DEF Stop
  <2> QED
    BY <1>2, <2>1, <2>2, BookKept DEF Stop
<1>3. CASE Abort
    BY <1>1, <1>3, BookKept, ReleaseType DEF Abort
<1> QED
    BY <1>2, <1>3

LEMMA SubmitStep ==
  ASSUME IndInv, Recover \/ Resume \/ (\E intent \in Intents : Submit(intent))
  PROVE  IndInv'
PROOF
<1>1. CASE Recover
    BY <1>1, LookStep DEF Recover
<1>2. CASE Resume
    BY <1>2, LookStep DEF Resume
<1>3. CASE \E intent \in Intents : Submit(intent)
  <2>1. PICK intent \in Intents : Look("submit", intent)
    BY <1>3 DEF Submit
  <2> QED
    BY <2>1, LookStep, IntentFacts
<1> QED
    BY <1>1, <1>2, <1>3

LEMMA Invariance == IndInv /\ [Next]_vars => IndInv'
PROOF
<1> SUFFICES ASSUME IndInv, [Next]_vars PROVE IndInv'
    OBVIOUS
<1>1. CASE Initialize \/ StoreBaseline
    BY <1>1, BaselineStep
<1>2. CASE Recover \/ Resume \/ (\E intent \in Intents : Submit(intent))
    BY <1>2, SubmitStep
<1>3. CASE ApplyNext
    BY <1>3, ApplyNextStep
<1>4. CASE FinishRecover \/ FinishResume \/ Refuse
    BY <1>4, JudgeStep
<1>5. CASE Accept
    BY <1>5, AcceptStep
<1>6. CASE Claim
    BY <1>6, ClaimStep
<1>7. CASE Transmit
    BY <1>7, TransmitStep
<1>8. CASE Record
    BY <1>8, RecordStep
<1>9. CASE \E id \in Ids : Cancel(id)
    BY <1>9, CancelStep
<1>10. CASE Stop \/ Abort
    BY <1>10, StopStep
<1>11. CASE AnyFill
    BY <1>11, FillStep
<1>12. CASE \E change \in ManualChanges : ManualChange(change)
    BY <1>12, ManualStep
<1>13. CASE UNCHANGED vars
  <2>1. TypeOK' /\ Claims' /\ TransmittedOnce'
    BY <1>13 DEF IndInv, TypeOK, Claims, Sent, TransmittedOnce, vars
  <2> QED
    BY <2>1 DEF IndInv
<1> QED
    BY <1>1, <1>2, <1>3, <1>4, <1>5, <1>6, <1>7, <1>8, <1>9, <1>10, <1>11, <1>12, <1>13 DEF Next

LEMMA Inductive == Spec => []IndInv
PROOF
<1> QED
    BY InitInv, Invariance, PTL DEF Spec

(* Every value the service and the broker hold is of its type, whatever    *)
(* the intents, the account and the prices are.                            *)
THEOREM TypeCorrect == Spec => []TypeOK
PROOF
<1>1. IndInv => TypeOK
    BY DEF IndInv
<1> QED
    BY <1>1, Inductive, PTL

(* submit sends an order at most once, through lost answers, errors and    *)
(* deaths of the process at any step.                                      *)
THEOREM NothingSentTwice == Spec => []TransmittedOnce
PROOF
<1>1. IndInv => TransmittedOnce
    BY DEF IndInv
<1> QED
    BY <1>1, Inductive, PTL
-----------------------------------------------------------------------------
(* How the ledger's steps change it.                                       *)
Advance ==
  /\ \A i \in Ids : OnlyAdvances(ledger.book[i], ledger'.book[i])
  /\ ledger.baseline # Nothing => ledger'.baseline = ledger.baseline
  /\ ledger.events \subseteq ledger'.events

LEMMA SameBookAdvances ==
  ASSUME ledger'.book = ledger.book, ledger'.events = ledger.events,
         ledger.baseline # Nothing => ledger'.baseline = ledger.baseline
  PROVE  Advance
BY DEF Advance, OnlyAdvances

LEMMA ApplyAdvances ==
  ASSUME NEW f \in Facts, ledger \in Ledgers, ~Rejects(ledger, f), ledger' = Apply(ledger, f)
  PROVE  Advance
PROOF
<1>1. /\ ledger'.baseline = ledger.baseline /\ ledger.events \subseteq ledger'.events
      /\ \A i \in Ids :
           \/ ledger'.book[i] = ledger.book[i]
           \/ /\ ledger'.book[i] = f
              /\ ledger.book[i] # Nothing /\ ledger.book[i].intent = f.intent
              /\ f.revision > ledger.book[i].revision
              /\ Continues(ledger.book[i], f)
    BY ApplyFacts
<1>2. ASSUME NEW i \in Ids, ledger'.book[i] # ledger.book[i]
      PROVE  OnlyAdvances(ledger.book[i], ledger'.book[i])
  <2> DEFINE previous == ledger.book[i]
  <2>1. /\ ledger'.book[i] = f /\ f # Nothing
        /\ previous # Nothing /\ previous.intent = f.intent
        /\ f.revision > previous.revision /\ Continues(previous, f)
    BY <1>1, <1>2, FactFacts
  <2>2. previous \in Facts
    BY <2>1 DEF Ledgers
  <2> HIDE DEF previous
  <2>3. f.revision \in Nat /\ previous.revision \in Nat /\ f.filled \in Nat /\ previous.filled \in Nat
    BY <2>2, FactFacts
  <2>4. /\ previous.state # "ready" /\ ~Terminal(previous)
        /\ f.state # "ready" /\ f.filled - previous.filled >= 0
    BY <2>1 DEF Continues, LocalStates
  <2>5. previous.revision <= f.revision /\ previous.filled <= f.filled
    BY <2>1, <2>3, <2>4
  <2>6. OnlyAdvances(previous, f)
    BY <2>1, <2>4, <2>5 DEF OnlyAdvances
  <2> QED
    BY <2>1, <2>6 DEF previous
<1> QED
    BY <1>1, <1>2 DEF Advance, OnlyAdvances

LEMMA AcceptAdvances ==
  ASSUME IndInv, Accept
  PROVE  Advance
PROOF
<1>1. ledger \in Ledgers /\ task.intent \in Intents
    BY TypeParts DEF IndInv, Accept, Reconciled, Tasks
<1>2. NewFact(task.intent, "ready", 0) # Nothing
    BY <1>1, NewFactType, FactFacts DEF States, LocalStates
<1>3. /\ ledger'.baseline = ledger.baseline /\ ledger'.events = ledger.events
      /\ \A i \in Ids : \/ ledger'.book[i] = ledger.book[i]
                        \/ /\ ledger.book[i] = Nothing
                           /\ ledger'.book[i] = NewFact(task.intent, "ready", 0)
    BY <1>1, SaveFacts DEF Accept
<1> QED
    BY <1>2, <1>3 DEF Advance, OnlyAdvances

LEMMA ClaimAdvances ==
  ASSUME IndInv, Claim
  PROVE  Advance
PROOF
<1> DEFINE id == task.intent.id
           previous == ledger.book[id]
           next == [previous EXCEPT !.state = "unknown"]
<1>1. ledger \in Ledgers /\ task.intent \in Intents /\ id \in Ids
    BY TypeParts, IntentFacts DEF IndInv, Claim, Holds, Tasks
<1>2. previous # Nothing /\ previous \in Facts /\ previous.state = "ready"
    BY <1>1 DEF IndInv, Claims, Claim, Holds, Ledgers
<1>3. /\ ledger'.baseline = ledger.baseline /\ ledger'.events = ledger.events
      /\ ledger'.book[id] = next
      /\ \A i \in Ids \ {id} : ledger'.book[i] = ledger.book[i]
    BY <1>1, <1>2, ClaimedFacts DEF Claim
<1> HIDE DEF previous, id
<1>4. /\ next.intent = previous.intent /\ next.state = "unknown"
      /\ next.revision = previous.revision /\ next.filled = previous.filled
      /\ next \in Facts
    BY <1>2 DEF Facts, States, LocalStates
<1> HIDE DEF next
<1>5. next # Nothing /\ previous.revision <= next.revision /\ previous.filled <= next.filled
    BY <1>2, <1>4, FactFacts
<1>6. OnlyAdvances(previous, next)
    BY <1>2, <1>4, <1>5 DEF OnlyAdvances, Terminal, TerminalStates
<1> QED
    BY <1>3, <1>6 DEF Advance, OnlyAdvances, previous, id

LEMMA StepAdvances == IndInv /\ [Next]_vars => Advance
PROOF
<1> SUFFICES ASSUME IndInv, [Next]_vars PROVE Advance
    OBVIOUS
<1>1. ledger \in Ledgers /\ task \in Tasks
    BY TypeParts DEF IndInv
<1>2. CASE UNCHANGED ledger
    BY <1>2, SameBookAdvances
<1>3. CASE StoreBaseline
  <2>1. ledger'.book = ledger.book /\ ledger'.events = ledger.events /\ ledger.baseline = Nothing
    BY <1>1, <1>3 DEF StoreBaseline, Ledgers
  <2> QED
    BY <2>1, SameBookAdvances
<1>4. CASE ApplyNext
  <2>1. task.snapshot.orders[task.next] \in Facts
    BY <1>1, <1>4 DEF ApplyNext, Tasks, Brokers
  <2> QED
    BY <1>1, <1>2, <1>4, <2>1, ApplyAdvances DEF ApplyNext
<1>5. CASE Record
  <2>1. task.answer \in Facts
    BY <1>1, <1>5 DEF Record, Tasks
  <2> QED
    BY <1>1, <1>5, <2>1, ApplyAdvances DEF Record
<1>6. CASE FinishRecover \/ FinishResume \/ Refuse \/ Stop
  <2>1. PICK h : ledger' = [ledger EXCEPT !.halted = h]
    BY <1>6 DEF FinishRecover, FinishResume, Refuse, Stop
  <2>2. ledger'.book = ledger.book /\ ledger'.events = ledger.events /\ ledger'.baseline = ledger.baseline
    BY <1>1, <2>1 DEF Ledgers
  <2> QED
    BY <2>2, SameBookAdvances
<1>7. CASE Accept
    BY <1>7, AcceptAdvances
<1>8. CASE Claim
    BY <1>8, ClaimAdvances
<1> QED
    BY <1>2, <1>3, <1>4, <1>5, <1>6, <1>7, <1>8
    DEF Next, vars, Initialize, Recover, Resume, Submit, Look, Transmit, Cancel, Abort,
        AnyFill, Fill, ManualChange

(* No step takes back what the ledger has of an order: a claim, fills or   *)
(* how it finished, nor the baseline.                                      *)
THEOREM LedgerNeverGoesBack == Spec => LedgerAdvances
PROOF
<1>1. IndInv /\ [Next]_vars =>
        [/\ \A i \in Ids : OnlyAdvances(ledger.book[i], ledger'.book[i])
         /\ ledger.baseline # Nothing => ledger'.baseline = ledger.baseline
         /\ ledger.events \subseteq ledger'.events]_vars
    BY StepAdvances DEF Advance
<1> QED
    BY <1>1, Inductive, PTL DEF Spec, LedgerAdvances
-----------------------------------------------------------------------------
(* What the broker once said of an order, and what it says of it now: the  *)
(* same, or a later revision that continues it.                            *)
Follows(f, order) ==
  \/ order = f
  \/ order.intent = f.intent /\ f.revision < order.revision /\ Continues(f, order)

WasAt(b, f) == \E k \in DOMAIN b.orders : Follows(f, b.orders[k])

(* An order as it is claimed.  Every order at the broker continues the     *)
(* claim it was sent under, and the ledger has it under the same intent.   *)
AsClaimed(intent) == NewFact(intent, "unknown", 0)
AsSaved(intent) == NewFact(intent, "ready", 0)

GoesOn(l, order) ==
  /\ Follows(AsClaimed(order.intent), order) /\ order.state \notin LocalStates
  /\ l.book[order.intent.id].intent = order.intent

OrdersGoOn == \A k \in DOMAIN broker.orders : GoesOn(ledger, broker.orders[k])

(* What the ledger observed and holds, and what a call still carries to    *)
(* it, was true at the broker.                                             *)
LocalFact(f) == f \in {AsSaved(f.intent), AsClaimed(f.intent)}

LedgerIsHistory ==
  /\ \A f \in ledger.events : WasAt(broker, f)
  /\ \A i \in Ids : ledger.book[i] # Nothing => LocalFact(ledger.book[i]) \/ WasAt(broker, ledger.book[i])

TaskIsHistory ==
  /\ task.step = "apply" => \A k \in DOMAIN task.snapshot.orders : WasAt(broker, task.snapshot.orders[k])
  /\ task.step = "record" => WasAt(broker, task.answer)

(* The order a call of submit() is about is new until the call claims it.  *)
Booked == ledger.book[task.intent.id]

SubmitsItsOwn ==
  /\ task.op = "submit" /\ task.step = "apply" => Booked \in {Nothing, AsSaved(task.intent)}
  /\ task.step = "claim" => Booked = AsSaved(task.intent)
  /\ task.step = "transmit" => Booked = AsClaimed(task.intent)

History == OrdersGoOn /\ LedgerIsHistory /\ TaskIsHistory /\ SubmitsItsOwn

(* What is added to a fill is within the limit if both parts are.          *)
LEMMA Distribute ==
  ASSUME NEW a \in Int, NEW b \in Int, NEW c \in Int
  PROVE  (a + b) * c = a * c + b * c
OBVIOUS

LEMMA ContinuesOn ==
  ASSUME NEW f \in Facts, NEW g \in Facts, NEW h \in Facts,
         f.intent = g.intent, g.intent = h.intent, Continues(f, g), Continues(g, h)
  PROVE  Continues(f, h)
PROOF
<1> DEFINE q1 == g.filled - f.filled
           q2 == h.filled - g.filled
           v1 == g.value - f.value
           v2 == h.value - g.value
           f1 == g.fees - f.fees
           f2 == h.fees - g.fees
           limit == f.intent.limit
<1>1. /\ q1 \in Int /\ q2 \in Int /\ v1 \in Int /\ v2 \in Int /\ f1 \in Int /\ f2 \in Int
      /\ limit \in Int
      /\ h.filled - f.filled = q1 + q2 /\ h.value - f.value = v1 + v2 /\ h.fees - f.fees = f1 + f2
    BY FactFacts, IntentFacts
<1>2. /\ q1 >= 0 /\ v1 >= 0 /\ f1 >= 0 /\ (q1 = 0 => v1 = 0 /\ f1 = 0) /\ (q1 > 0 => v1 > 0)
      /\ WithinLimit(g.intent, q1, v1)
    BY DEF Continues
<1>3. /\ q2 >= 0 /\ v2 >= 0 /\ f2 >= 0 /\ (q2 = 0 => v2 = 0 /\ f2 = 0) /\ (q2 > 0 => v2 > 0)
      /\ WithinLimit(h.intent, q2, v2)
    BY DEF Continues
<1>4. f.state # "ready" /\ ~Terminal(f) /\ h.state \notin LocalStates
    BY DEF Continues
<1> HIDE DEF q1, q2, v1, v2, f1, f2
<1>5. /\ q1 + q2 >= 0 /\ v1 + v2 >= 0 /\ f1 + f2 >= 0
      /\ (q1 + q2 = 0 => v1 + v2 = 0 /\ f1 + f2 = 0) /\ (q1 + q2 > 0 => v1 + v2 > 0)
    BY ONLY <1>1, <1>2, <1>3
<1>6. WithinLimit(h.intent, q1 + q2, v1 + v2)
  <2>1. (q1 + q2) * limit = q1 * limit + q2 * limit /\ q1 * limit \in Int /\ q2 * limit \in Int
    BY <1>1, Distribute
  <2>2. h.intent = f.intent /\ g.intent = f.intent
    OBVIOUS
  <2>3. CASE f.intent.side = "buy"
    <3>1. v1 <= q1 * limit /\ v2 <= q2 * limit
      BY <1>2, <1>3, <2>2, <2>3 DEF WithinLimit
    <3>2. v1 + v2 <= (q1 + q2) * limit
      BY ONLY <1>1, <2>1, <3>1
    <3> QED
      BY <2>2, <2>3, <3>2 DEF WithinLimit
  <2>4. CASE f.intent.side # "buy"
    <3>1. v1 >= q1 * limit /\ v2 >= q2 * limit
      BY <1>2, <1>3, <2>2, <2>4 DEF WithinLimit
    <3>2. v1 + v2 >= (q1 + q2) * limit
      BY ONLY <1>1, <2>1, <3>1
    <3> QED
      BY <2>2, <2>4, <3>2 DEF WithinLimit
  <2> QED
    BY <2>3, <2>4
<1> QED
  <2>1. /\ h.filled - f.filled >= 0 /\ h.value - f.value >= 0 /\ h.fees - f.fees >= 0
        /\ (h.filled - f.filled = 0 => h.value - f.value = 0 /\ h.fees - f.fees = 0)
        /\ (h.filled - f.filled > 0 => h.value - f.value > 0)
        /\ WithinLimit(h.intent, h.filled - f.filled, h.value - f.value)
    BY <1>1, <1>5, <1>6
  <2> QED
    BY <1>4, <2>1 DEF Continues

LEMMA FollowsOn ==
  ASSUME NEW f \in Facts, NEW g \in Facts, NEW h \in Facts, Follows(f, g), Follows(g, h)
  PROVE  Follows(f, h)
PROOF
<1>1. CASE g = f \/ h = g
    BY <1>1
<1>2. CASE /\ g.intent = f.intent /\ f.revision < g.revision /\ Continues(f, g)
           /\ h.intent = g.intent /\ g.revision < h.revision /\ Continues(g, h)
  <2>1. f.revision < h.revision
    BY <1>2, FactFacts
  <2> QED
    BY <1>2, <2>1, ContinuesOn DEF Follows
<1> QED
    BY <1>1, <1>2 DEF Follows

LEMMA LocalTypes ==
  ASSUME NEW intent \in Intents
  PROVE  /\ AsClaimed(intent) \in Facts /\ AsSaved(intent) \in Facts
         /\ AsClaimed(intent).intent = intent /\ AsSaved(intent).intent = intent
         /\ AsClaimed(intent) # Nothing /\ AsSaved(intent) # Nothing
         /\ LocalFact(AsClaimed(intent)) /\ LocalFact(AsSaved(intent))
PROOF
<1>1. "unknown" \in States /\ "ready" \in States
    BY DEF States, LocalStates
<1>2. /\ AsClaimed(intent) \in Facts /\ AsSaved(intent) \in Facts
      /\ AsClaimed(intent).intent = intent /\ AsSaved(intent).intent = intent
    BY <1>1, NewFactType DEF AsClaimed, AsSaved
<1> QED
    BY <1>2, FactFacts DEF LocalFact

(* An order without fills may always be new, and any cancellation follows. *)
LEMMA NewOrderFollows ==
  ASSUME NEW intent \in Intents, NEW state \in {"open", "rejected"}
  PROVE  Follows(AsClaimed(intent), NewFact(intent, state, 1))
PROOF
<1>1. 0 * intent.limit = 0
    BY IntentFacts
<1>2. WithinLimit(intent, 0, 0)
    BY <1>1 DEF WithinLimit
<1>3. Continues(AsClaimed(intent), NewFact(intent, state, 1))
    BY <1>2 DEF Continues, AsClaimed, NewFact, Terminal, TerminalStates, LocalStates
<1> QED
    BY <1>3 DEF Follows, AsClaimed, NewFact

LEMMA OutcomeFollows ==
  ASSUME NEW order \in Facts, order.state \notin LocalStates
  PROVE  Follows(order, Outcome(order)) /\ Outcome(order).state \notin LocalStates
PROOF
<1>1. CASE Terminal(order)
    BY <1>1 DEF Outcome, Follows
<1>2. CASE ~Terminal(order)
  <2> DEFINE f == Outcome(order)
  <2>1. /\ f \in Facts /\ f.intent = order.intent
        /\ f.state = "cancelled" /\ f.revision = order.revision + 1
        /\ f.filled = order.filled /\ f.value = order.value /\ f.fees = order.fees
    BY <1>2, OutcomeFacts
  <2> HIDE DEF f
  <2>2. /\ f.filled - order.filled = 0 /\ f.value - order.value = 0 /\ f.fees - order.fees = 0
        /\ order.revision < f.revision
    BY <2>1, FactFacts
  <2>3. 0 * f.intent.limit = 0
    BY <2>1, FactFacts, IntentFacts
  <2>4. WithinLimit(f.intent, 0, 0)
    BY <2>3 DEF WithinLimit
  <2>5. order.state # "ready" /\ f.state \notin LocalStates
    BY <2>1 DEF LocalStates
  <2>6. Continues(order, f)
    BY <1>2, <2>2, <2>4, <2>5 DEF Continues
  <2> QED
    BY <2>1, <2>2, <2>5, <2>6 DEF Follows, f
<1> QED
    BY <1>1, <1>2
-----------------------------------------------------------------------------
(* What was true stays true while the broker's orders go on.               *)
BrokerGoesOn ==
  /\ DOMAIN broker.orders \subseteq DOMAIN broker'.orders
  /\ \A k \in DOMAIN broker.orders : Follows(broker.orders[k], broker'.orders[k])

LEMMA OrderTypes ==
  ASSUME IndInv
  PROVE  \A k \in DOMAIN broker.orders : broker.orders[k] \in Facts
BY TypeParts DEF IndInv, Brokers

LEMMA TrueStays ==
  ASSUME IndInv, IndInv', BrokerGoesOn, NEW f \in Facts, WasAt(broker, f)
  PROVE  WasAt(broker', f)
PROOF
<1>1. PICK k \in DOMAIN broker.orders : Follows(f, broker.orders[k])
    BY DEF WasAt
<1>2. k \in DOMAIN broker'.orders /\ Follows(broker.orders[k], broker'.orders[k])
    BY <1>1 DEF BrokerGoesOn
<1>3. broker.orders[k] \in Facts /\ broker'.orders[k] \in Facts
  <2>1. broker' \in Brokers
    BY TypePartsNext DEF IndInv
  <2> QED
    BY <1>1, <1>2, <2>1, OrderTypes DEF Brokers
<1>4. Follows(f, broker'.orders[k])
    BY <1>1, <1>2, <1>3, FollowsOn
<1> QED
    BY <1>2, <1>4 DEF WasAt

LEMMA SameBroker == UNCHANGED broker => BrokerGoesOn
BY DEF BrokerGoesOn, Follows

(* The orders of the broker go on, and the book keeps their intents.       *)
LEMMA OrdersStay ==
  ASSUME IndInv, IndInv', OrdersGoOn, Advance,
         \A k \in DOMAIN broker'.orders :
           \/ k \in DOMAIN broker.orders /\ Follows(broker.orders[k], broker'.orders[k])
           \/ GoesOn(ledger', broker'.orders[k])
  PROVE  OrdersGoOn'
PROOF
<1> SUFFICES ASSUME NEW k \in DOMAIN broker'.orders PROVE GoesOn(ledger', broker'.orders[k])
    BY DEF OrdersGoOn, GoesOn
<1>1. CASE k \in DOMAIN broker.orders /\ Follows(broker.orders[k], broker'.orders[k])
  <2> DEFINE old == broker.orders[k]
             new == broker'.orders[k]
  <2>1. old \in Facts /\ new \in Facts
    <3>1. broker' \in Brokers
      BY TypePartsNext DEF IndInv
    <3> QED
      BY <1>1, <3>1, OrderTypes DEF Brokers
  <2>2. GoesOn(ledger, old)
    BY <1>1 DEF OrdersGoOn
  <2>3. ledger.book[old.intent.id] # Nothing /\ old.intent.id \in Ids
    BY <1>1, <2>1, FactFacts DEF IndInv, Claims, Sent
  <2>4. Follows(old, new)
    BY <1>1
  <2> HIDE DEF old, new
  <2>5. new.intent = old.intent /\ new.state \notin LocalStates
    BY <2>2, <2>4 DEF GoesOn, Follows, Continues
  <2>6. Follows(AsClaimed(new.intent), new)
    <3>1. AsClaimed(old.intent) \in Facts
      BY <2>1, FactFacts, LocalTypes
    <3> QED
      BY <2>1, <2>2, <2>4, <2>5, <3>1, FollowsOn DEF GoesOn
  <2>7. ledger'.book[new.intent.id].intent = new.intent
    BY <2>2, <2>3, <2>5 DEF GoesOn, Advance, OnlyAdvances
  <2> QED
    BY <2>5, <2>6, <2>7 DEF GoesOn, new
<1>2. CASE GoesOn(ledger', broker'.orders[k])
    BY <1>2
<1> QED
    BY <1>1, <1>2

LEMMA BookTypes ==
  ASSUME IndInv
  PROVE  /\ \A f \in ledger.events : f \in Facts
         /\ \A i \in Ids : ledger.book[i] # Nothing => ledger.book[i] \in Facts
BY TypeParts DEF IndInv, Ledgers

(* The ledger has what was true, if what is new in it was.                 *)
LEMMA LedgerStays ==
  ASSUME IndInv, IndInv', LedgerIsHistory, BrokerGoesOn,
         \A f \in ledger'.events : f \in ledger.events \/ (f \in Facts /\ WasAt(broker, f)),
         \A i \in Ids : LET f == ledger'.book[i]
                        IN  \/ f = ledger.book[i] \/ f = Nothing \/ LocalFact(f)
                            \/ f \in Facts /\ WasAt(broker, f)
  PROVE  LedgerIsHistory'
PROOF
<1>1. ASSUME NEW f \in ledger'.events PROVE WasAt(broker', f)
    BY <1>1, BookTypes, TrueStays DEF LedgerIsHistory
<1>2. ASSUME NEW i \in Ids, ledger'.book[i] # Nothing
      PROVE  LocalFact(ledger'.book[i]) \/ WasAt(broker', ledger'.book[i])
  <2>1. \/ LocalFact(ledger'.book[i])
        \/ ledger'.book[i] \in Facts /\ WasAt(broker, ledger'.book[i])
    BY <1>2, BookTypes DEF LedgerIsHistory
  <2> QED
    BY <2>1, TrueStays
<1> QED
    BY <1>1, <1>2 DEF LedgerIsHistory, LocalFact, AsSaved, AsClaimed, NewFact

LEMMA SnapshotTypes ==
  ASSUME IndInv
  PROVE  /\ task.step = "apply" => \A k \in DOMAIN task.snapshot.orders : task.snapshot.orders[k] \in Facts
         /\ task.step = "record" => task.answer \in Facts
BY TypeParts DEF IndInv, Tasks, Brokers

(* A task goes on with what it carries.                                    *)
LEMMA TaskStays ==
  ASSUME IndInv, IndInv', TaskIsHistory, BrokerGoesOn,
         task'.step = "apply" => task.step = "apply" /\ task'.snapshot = task.snapshot,
         task'.step = "record" => task.step = "record" /\ task'.answer = task.answer
  PROVE  TaskIsHistory'
PROOF
<1>1. ASSUME task'.step = "apply", NEW k \in DOMAIN task'.snapshot.orders
      PROVE  WasAt(broker', task'.snapshot.orders[k])
    BY <1>1, SnapshotTypes, TrueStays DEF TaskIsHistory
<1>2. ASSUME task'.step = "record" PROVE WasAt(broker', task'.answer)
    BY <1>2, SnapshotTypes, TrueStays DEF TaskIsHistory
<1> QED
    BY <1>1, <1>2 DEF TaskIsHistory

(* Steps that leave the book, the events and the orders alone.             *)
LEMMA HistoryKept ==
  ASSUME IndInv, IndInv', History, Advance, UNCHANGED broker,
         ledger'.book = ledger.book, ledger'.events = ledger.events,
         UNCHANGED task \/ task'.step \in {"idle", "store"}
  PROVE  History'
PROOF
<1>1. BrokerGoesOn
    BY SameBroker
<1>2. OrdersGoOn'
    BY <1>1, OrdersStay DEF History, BrokerGoesOn
<1>3. LedgerIsHistory'
  <2>1. \A i \in Ids : ledger'.book[i] = ledger.book[i]
    OBVIOUS
  <2> QED
    BY <1>1, <2>1, LedgerStays DEF History
<1>4. TaskIsHistory'
    BY <1>1, TaskStays DEF History
<1>5. SubmitsItsOwn'
    BY DEF History, SubmitsItsOwn, Booked
<1> QED
    BY <1>2, <1>3, <1>4, <1>5 DEF History

LEMMA LookHistory ==
  ASSUME IndInv, IndInv', History, Advance, NEW op, NEW intent, Look(op, intent),
         op = "submit" => Unclaimed(intent)
  PROVE  History'
PROOF
<1>1. BrokerGoesOn /\ UNCHANGED <<ledger, broker>>
    BY SameBroker DEF Look
<1>2. task'.step = "apply" /\ task'.snapshot = broker /\ task'.op = op /\ task'.intent = intent
    BY DEF Look, Idle
<1>3. OrdersGoOn'
    BY <1>1, OrdersStay DEF History, BrokerGoesOn
<1>4. LedgerIsHistory'
    BY <1>1, LedgerStays DEF History
<1>5. TaskIsHistory'
  <2>1. \A k \in DOMAIN broker.orders : WasAt(broker, broker.orders[k])
    BY DEF WasAt, Follows
  <2> QED
    BY <1>1, <1>2, <2>1 DEF TaskIsHistory, WasAt
<1>6. SubmitsItsOwn'
    BY <1>1, <1>2 DEF SubmitsItsOwn, Booked, Unclaimed, AsSaved
<1> QED
    BY <1>3, <1>4, <1>5, <1>6 DEF History

(* What is applied was true.                                               *)
LEMMA ApplyHistory ==
  ASSUME IndInv, IndInv', History, NEW f \in Facts, WasAt(broker, f), ~Rejects(ledger, f),
         ledger' = Apply(ledger, f), UNCHANGED broker
  PROVE  OrdersGoOn' /\ LedgerIsHistory'
PROOF
<1>1. ledger \in Ledgers
    BY TypeParts DEF IndInv
<1>2. BrokerGoesOn /\ Advance
    BY <1>1, SameBroker, ApplyAdvances
<1>3. \A e \in ledger'.events : e \in ledger.events \/ e = f
  <2>1. CASE Seen(ledger, f)
    BY <2>1 DEF Apply
  <2>2. CASE ~Seen(ledger, f)
    <3>1. ledger'.events = ledger.events \cup {f}
      BY <1>1, <2>2 DEF Apply, Ledgers
    <3> QED
      BY <3>1
  <2> QED
    BY <2>1, <2>2
<1>4. \A i \in Ids : ledger'.book[i] = ledger.book[i] \/ ledger'.book[i] = f
    BY <1>1, ApplyFacts
<1>5. LedgerIsHistory'
    BY <1>2, <1>3, <1>4, LedgerStays DEF History
<1>6. OrdersGoOn'
    BY <1>2, OrdersStay DEF History, BrokerGoesOn
<1> QED
    BY <1>5, <1>6

LEMMA ApplyNextHistory ==
  ASSUME IndInv, IndInv', History, ApplyNext, Advance
  PROVE  History'
PROOF
<1> DEFINE f == task.snapshot.orders[task.next]
<1>1. ledger \in Ledgers /\ task \in Tasks
    BY TypeParts DEF IndInv
<1>2. /\ task.step = "apply" /\ UNCHANGED broker /\ BrokerGoesOn
      /\ task' = [task EXCEPT !.next = @ + 1]
      /\ UNCHANGED ledger \/ (~Rejects(ledger, f) /\ ledger' = Apply(ledger, f))
    BY SameBroker DEF ApplyNext
<1>3. /\ task'.step = task.step /\ task'.snapshot = task.snapshot
      /\ task'.op = task.op /\ task'.intent = task.intent
    BY <1>1, <1>2 DEF Tasks
<1>4. f \in Facts /\ WasAt(broker, f)
  <2>1. task.next \in DOMAIN task.snapshot.orders
    BY <1>1 DEF ApplyNext, Tasks, Brokers
  <2> QED
    BY <1>2, <2>1, SnapshotTypes DEF History, TaskIsHistory
<1> HIDE DEF f
<1>5. OrdersGoOn' /\ LedgerIsHistory'
  <2>1. CASE UNCHANGED ledger
    BY <1>2, <2>1, OrdersStay, LedgerStays DEF History, BrokerGoesOn
  <2>2. CASE ~Rejects(ledger, f) /\ ledger' = Apply(ledger, f)
    BY <1>2, <1>4, <2>2, ApplyHistory
  <2> QED
    BY <1>2, <2>1, <2>2
<1>6. TaskIsHistory'
    BY <1>2, <1>3, TaskStays DEF History
<1>7. SubmitsItsOwn'
  <2>1. CASE UNCHANGED ledger
    BY <1>2, <1>3, <2>1 DEF History, SubmitsItsOwn, Booked
  <2>2. CASE ~Rejects(ledger, f) /\ ledger' = Apply(ledger, f)
    <3> SUFFICES ASSUME task.op = "submit" PROVE Booked' \in {Nothing, AsSaved(task'.intent)}
      BY <1>2, <1>3 DEF SubmitsItsOwn
    <3>1. task.intent \in Intents /\ task.intent.id \in Ids
      BY <1>1, IntentFacts DEF Tasks
    <3>2. Booked \in {Nothing, AsSaved(task.intent)}
      BY <1>2 DEF History, SubmitsItsOwn
    <3>3. \/ ledger'.book[task.intent.id] = Booked
          \/ Booked # Nothing /\ Continues(Booked, f)
      BY <1>1, <1>4, <2>2, <3>1, ApplyFacts DEF Booked
    <3>4. ~Continues(AsSaved(task.intent), f)
      BY DEF Continues, AsSaved, NewFact
    <3> QED
      BY <1>3, <3>2, <3>3, <3>4 DEF Booked
  <2> QED
    BY <1>2, <2>1, <2>2
<1> QED
    BY <1>5, <1>6, <1>7 DEF History

LEMMA RecordHistory ==
  ASSUME IndInv, IndInv', History, Record
  PROVE  History'
PROOF
<1>1. task.answer \in Facts /\ WasAt(broker, task.answer) /\ UNCHANGED broker /\ task'.step = "idle"
    BY SnapshotTypes, ReleaseType DEF Record, History, TaskIsHistory
<1>2. OrdersGoOn' /\ LedgerIsHistory'
    BY <1>1, ApplyHistory DEF Record
<1>3. TaskIsHistory' /\ SubmitsItsOwn'
    BY <1>1 DEF TaskIsHistory, SubmitsItsOwn
<1> QED
    BY <1>2, <1>3 DEF History

LEMMA AcceptHistory ==
  ASSUME IndInv, IndInv', History, Accept, Advance
  PROVE  History'
PROOF
<1>1. ledger \in Ledgers /\ task \in Tasks /\ task.intent \in Intents
    BY TypeParts DEF IndInv, Accept, Reconciled, Tasks
<1>2. /\ task.op = "submit" /\ task.step = "apply" /\ UNCHANGED broker /\ BrokerGoesOn
      /\ ledger' = Save(ledger, task.intent) /\ task' = [task EXCEPT !.step = "claim"]
    BY SameBroker DEF Accept, Reconciled
<1>3. task'.step = "claim" /\ task'.op = "submit" /\ task'.intent = task.intent
    BY <1>1, <1>2 DEF Tasks
<1>4. /\ ledger'.events = ledger.events /\ task.intent.id \in Ids
      /\ ledger'.book[task.intent.id] # Nothing
      /\ \A i \in Ids : ledger'.book[i] = ledger.book[i] \/ ledger'.book[i] = AsSaved(task.intent)
    BY <1>1, <1>2, SaveFacts, IntentFacts DEF AsSaved
<1>5. OrdersGoOn'
    BY <1>2, OrdersStay DEF History, BrokerGoesOn
<1>6. LedgerIsHistory'
  <2>1. LocalFact(AsSaved(task.intent))
    BY <1>1, LocalTypes
  <2> QED
    BY <1>2, <1>4, <2>1, LedgerStays DEF History
<1>7. TaskIsHistory'
    BY <1>3 DEF TaskIsHistory
<1>8. SubmitsItsOwn'
    BY <1>2, <1>3, <1>4 DEF History, SubmitsItsOwn, Booked
<1> QED
    BY <1>5, <1>6, <1>7, <1>8 DEF History

LEMMA ClaimHistory ==
  ASSUME IndInv, IndInv', History, Claim, Advance
  PROVE  History'
PROOF
<1> DEFINE id == task.intent.id
<1>1. ledger \in Ledgers /\ task \in Tasks /\ task.intent \in Intents /\ id \in Ids
    BY TypeParts, IntentFacts DEF IndInv, Claim, Holds, Tasks
<1>2. /\ UNCHANGED broker /\ BrokerGoesOn
      /\ ledger' = Claimed(ledger, id) /\ task' = [task EXCEPT !.step = "transmit"]
      /\ Booked = AsSaved(task.intent)
    BY SameBroker DEF Claim, Holds, History, SubmitsItsOwn
<1>3. task'.step = "transmit" /\ task'.op = task.op /\ task'.intent = task.intent
    BY <1>1, <1>2 DEF Tasks
<1>4. /\ ledger'.events = ledger.events
      /\ ledger'.book[id] = AsClaimed(task.intent)
      /\ \A i \in Ids : ledger'.book[i] = ledger.book[i] \/ ledger'.book[i] = AsClaimed(task.intent)
  <2>1. ledger.book[id] = AsSaved(task.intent) /\ AsSaved(task.intent) # Nothing
    BY <1>1, <1>2, LocalTypes DEF Booked
  <2>2. [AsSaved(task.intent) EXCEPT !.state = "unknown"] = AsClaimed(task.intent)
    BY DEF AsSaved, AsClaimed, NewFact
  <2> QED
    BY <1>1, <1>2, <2>1, <2>2, ClaimedFacts
<1>5. OrdersGoOn'
    BY <1>2, OrdersStay DEF History, BrokerGoesOn
<1>6. LedgerIsHistory'
  <2>1. LocalFact(AsClaimed(task.intent))
    BY <1>1, LocalTypes
  <2> QED
    BY <1>2, <1>4, <2>1, LedgerStays DEF History
<1>7. TaskIsHistory'
    BY <1>3 DEF TaskIsHistory
<1>8. SubmitsItsOwn'
    BY <1>3, <1>4 DEF SubmitsItsOwn, Booked
<1> QED
    BY <1>5, <1>6, <1>7, <1>8 DEF History

(* Steps of the broker.                                                    *)
LEMMA TransmitHistory ==
  ASSUME IndInv, IndInv', History, Transmit, Advance
  PROVE  History'
PROOF
<1>1. broker \in Brokers /\ task \in Tasks /\ UNCHANGED ledger /\ task.step = "transmit"
    BY TypeParts DEF IndInv, Transmit, Holds
<1>2. PICK state \in {"open", "rejected"} :
        /\ NewFact(task.intent, state, 1) \in Facts
        /\ broker' = [broker EXCEPT !.orders = Append(broker.orders, NewFact(task.intent, state, 1))]
        /\ Answered(NewFact(task.intent, state, 1))
    BY Transmitted
<1> DEFINE f == NewFact(task.intent, state, 1)
           last == Len(broker.orders) + 1
<1>3. /\ f \in Facts /\ f.intent = task.intent /\ f.state \notin LocalStates
      /\ Follows(AsClaimed(f.intent), f) /\ task.intent \in Intents
    BY <1>2, NewOrderFollows, Transmitted DEF NewFact, LocalStates
<1>4. Answered(f) /\ broker' = [broker EXCEPT !.orders = Append(broker.orders, f)]
    BY <1>2
<1> HIDE DEF f
<1>5. /\ DOMAIN broker.orders \subseteq DOMAIN broker'.orders
      /\ \A k \in DOMAIN broker'.orders : k \in DOMAIN broker.orders \/ k = last
      /\ \A k \in DOMAIN broker.orders : broker'.orders[k] = broker.orders[k]
      /\ broker'.orders[last] = f /\ last \in DOMAIN broker'.orders
    BY <1>1, <1>3, <1>4, OrderAppended
<1>6. BrokerGoesOn
    BY <1>5 DEF BrokerGoesOn, Follows
<1>7. GoesOn(ledger', f)
  <2>1. ledger.book[task.intent.id] = AsClaimed(task.intent)
    BY <1>1 DEF History, SubmitsItsOwn, Booked
  <2> QED
    BY <1>1, <1>3, <2>1, LocalTypes DEF GoesOn
<1>8. OrdersGoOn'
  <2>1. \A k \in DOMAIN broker'.orders :
          \/ k \in DOMAIN broker.orders /\ Follows(broker.orders[k], broker'.orders[k])
          \/ GoesOn(ledger', broker'.orders[k])
    BY <1>5, <1>6, <1>7 DEF BrokerGoesOn
  <2> QED
    BY <2>1, OrdersStay DEF History
<1>9. LedgerIsHistory'
    BY <1>1, <1>6, LedgerStays DEF History
<1>10. (task'.step = "record" /\ task'.answer = f) \/ task'.step = "idle"
    BY <1>1, <1>4, ReleaseType DEF Answered, Tasks
<1>11. TaskIsHistory'
  <2>1. WasAt(broker', f)
    BY <1>5 DEF WasAt, Follows
  <2> QED
    BY <1>10, <2>1 DEF TaskIsHistory
<1>12. SubmitsItsOwn'
    BY <1>10 DEF SubmitsItsOwn
<1> QED
    BY <1>8, <1>9, <1>11, <1>12 DEF History

(* A later fact in the place of an order.                                  *)
LEMMA ReplaceHistory ==
  ASSUME IndInv, IndInv', History, Advance, UNCHANGED ledger,
         NEW k \in DOMAIN broker.orders, NEW f \in Facts, Follows(broker.orders[k], f),
         broker' = [broker EXCEPT !.orders[k] = f]
  PROVE  OrdersGoOn' /\ LedgerIsHistory' /\ BrokerGoesOn
         /\ k \in DOMAIN broker'.orders /\ broker'.orders[k] = f
PROOF
<1>1. broker \in Brokers
    BY TypeParts DEF IndInv
<1>2. /\ DOMAIN broker'.orders = DOMAIN broker.orders
      /\ \A j \in DOMAIN broker.orders : broker'.orders[j] = IF j = k THEN f ELSE broker.orders[j]
    BY <1>1 DEF Brokers
<1>3. \A j \in DOMAIN broker.orders : Follows(broker.orders[j], broker'.orders[j])
    BY <1>2 DEF Follows
<1>4. BrokerGoesOn
    BY <1>2, <1>3 DEF BrokerGoesOn
<1> QED
    BY <1>2, <1>3, <1>4, OrdersStay, LedgerStays DEF History

LEMMA CancelHistory ==
  ASSUME IndInv, IndInv', History, NEW id \in Ids, Cancel(id), Advance
  PROVE  History'
PROOF
<1>1. PICK k \in DOMAIN broker.orders :
        /\ broker' = [broker EXCEPT !.orders[k] = Outcome(broker.orders[k])]
        /\ \/ task' = [Idle EXCEPT !.op = "cancel", !.step = "record", !.answer = Outcome(broker.orders[k])]
           \/ UNCHANGED task
    BY Cancelled
<1> DEFINE f == Outcome(broker.orders[k])
<1>2. f \in Facts /\ Follows(broker.orders[k], f)
    BY OrderTypes, OutcomeFacts, OutcomeFollows DEF History, OrdersGoOn, GoesOn
<1>3. UNCHANGED ledger /\ task = Idle
    BY DEF Cancel
<1>4. broker' = [broker EXCEPT !.orders[k] = f]
    BY <1>1
<1>5. (task'.step = "record" /\ task'.answer = f) \/ task'.step = "idle"
  <2> HIDE DEF f
  <2>1. task' = [Idle EXCEPT !.op = "cancel", !.step = "record", !.answer = f] \/ UNCHANGED task
    BY <1>1 DEF f
  <2>2. Idle.step = "idle"
    BY DEF Idle
  <2>3. CASE task' = [Idle EXCEPT !.op = "cancel", !.step = "record", !.answer = f]
    <3>1. task' = [op |-> "cancel", step |-> "record", intent |-> Nothing,
                   snapshot |-> Nothing, next |-> 0, answer |-> f]
      BY <2>3 DEF Idle
    <3> QED
      BY <3>1
  <2> QED
    BY <1>3, <2>1, <2>2, <2>3
<1> HIDE DEF f
<1>6. OrdersGoOn' /\ LedgerIsHistory' /\ k \in DOMAIN broker'.orders /\ broker'.orders[k] = f
    BY <1>2, <1>3, <1>4, ReplaceHistory
<1>7. TaskIsHistory'
  <2>1. WasAt(broker', f)
    BY <1>6 DEF WasAt, Follows
  <2> QED
    BY <1>5, <2>1 DEF TaskIsHistory
<1>8. SubmitsItsOwn'
    BY <1>5 DEF SubmitsItsOwn
<1> QED
    BY <1>6, <1>7, <1>8 DEF History

LEMMA FillHistory ==
  ASSUME IndInv, IndInv', History, AnyFill, Advance
  PROVE  History'
PROOF
<1>1. broker \in Brokers
    BY TypeParts DEF IndInv
<1>2. PICK k \in DOMAIN broker.orders : \E f \in Facts :
           /\ f.intent = broker.orders[k].intent /\ Classify(broker.orders[k], f) = "apply"
           /\ broker' = [broker EXCEPT !.orders[k] = f] /\ UNCHANGED <<ledger, changes, task>>
    BY <1>1, Filled
<1>3. PICK f \in Facts :
           /\ f.intent = broker.orders[k].intent /\ Classify(broker.orders[k], f) = "apply"
           /\ broker' = [broker EXCEPT !.orders[k] = f] /\ UNCHANGED <<ledger, changes, task>>
    BY <1>2
<1>4. Follows(broker.orders[k], f)
  <2>1. f.revision > broker.orders[k].revision /\ Continues(broker.orders[k], f)
    BY <1>3 DEF Classify
  <2>2. f.revision \in Nat /\ broker.orders[k].revision \in Nat
    BY OrderTypes, FactFacts
  <2> QED
    BY <1>3, <2>1, <2>2 DEF Follows
<1>5. OrdersGoOn' /\ LedgerIsHistory' /\ BrokerGoesOn
    BY <1>3, <1>4, ReplaceHistory
<1>6. TaskIsHistory'
    BY <1>3, <1>5, TaskStays DEF History
<1>7. SubmitsItsOwn'
    BY <1>3 DEF History, SubmitsItsOwn, Booked
<1> QED
    BY <1>5, <1>6, <1>7 DEF History

LEMMA ManualHistory ==
  ASSUME IndInv, IndInv', History, NEW change \in ManualChanges, ManualChange(change), Advance
  PROVE  History'
PROOF
<1>1. UNCHANGED <<ledger, task>> /\ broker'.orders = broker.orders
  <2>1. broker \in Brokers
    BY TypeParts DEF IndInv
  <2> QED
    BY <2>1 DEF ManualChange, Brokers
<1>2. BrokerGoesOn
    BY <1>1 DEF BrokerGoesOn, Follows
<1>3. OrdersGoOn' /\ LedgerIsHistory'
    BY <1>1, <1>2, OrdersStay, LedgerStays DEF History, BrokerGoesOn
<1>4. TaskIsHistory'
    BY <1>1, <1>2, TaskStays DEF History
<1>5. SubmitsItsOwn'
    BY <1>1 DEF History, SubmitsItsOwn, Booked
<1> QED
    BY <1>3, <1>4, <1>5 DEF History

LEMMA InitHistory == Init => History
PROOF
<1> SUFFICES ASSUME Init PROVE History
    OBVIOUS
<1>1. broker.orders = <<>> /\ ledger.events = {} /\ task.step = "idle"
      /\ \A i \in Ids : ledger.book[i] = Nothing
    BY DEF Init, Idle
<1>2. OrdersGoOn /\ LedgerIsHistory
    BY <1>1 DEF OrdersGoOn, LedgerIsHistory
<1>3. TaskIsHistory /\ SubmitsItsOwn
    BY <1>1 DEF TaskIsHistory, SubmitsItsOwn
<1> QED
    BY <1>2, <1>3 DEF History

LEMMA HistoryStep == IndInv /\ IndInv' /\ History /\ [Next]_vars => History'
PROOF
<1> SUFFICES ASSUME IndInv, IndInv', History, [Next]_vars PROVE History'
    OBVIOUS
<1>1. Advance /\ ledger \in Ledgers
    BY StepAdvances, TypeParts DEF IndInv
<1>2. CASE Initialize
  <2>1. UNCHANGED <<ledger, broker>> /\ task'.step = "store"
    BY <1>2 DEF Initialize, Idle
  <2> QED
    BY <1>1, <2>1, HistoryKept
<1>3. CASE StoreBaseline
  <2>1. /\ UNCHANGED broker /\ task'.step = "idle"
        /\ ledger'.book = ledger.book /\ ledger'.events = ledger.events
    BY <1>1, <1>3, ReleaseType DEF StoreBaseline, Ledgers
  <2> QED
    BY <1>1, <2>1, HistoryKept
<1>4. CASE Recover \/ Resume \/ (\E intent \in Intents : Submit(intent))
    BY <1>1, <1>4, LookHistory DEF Recover, Resume, Submit
<1>5. CASE ApplyNext
    BY <1>1, <1>5, ApplyNextHistory
<1>6. CASE FinishRecover \/ FinishResume \/ Refuse \/ Stop
  <2>1. PICK h : ledger' = [ledger EXCEPT !.halted = h]
    BY <1>6 DEF FinishRecover, FinishResume, Refuse, Stop
  <2>2. ledger'.book = ledger.book /\ ledger'.events = ledger.events
    BY <1>1, <2>1 DEF Ledgers
  <2>3. UNCHANGED broker /\ (UNCHANGED task \/ task'.step = "idle")
    BY <1>6, ReleaseType DEF FinishRecover, FinishResume, Refuse, Stop
  <2> QED
    BY <1>1, <2>2, <2>3, HistoryKept
<1>7. CASE Accept
    BY <1>1, <1>7, AcceptHistory
<1>8. CASE Claim
    BY <1>1, <1>8, ClaimHistory
<1>9. CASE Transmit
    BY <1>1, <1>9, TransmitHistory
<1>10. CASE Record
    BY <1>10, RecordHistory
<1>11. CASE \E id \in Ids : Cancel(id)
    BY <1>1, <1>11, CancelHistory
<1>12. CASE Abort
  <2>1. UNCHANGED <<ledger, broker>> /\ task'.step = "idle"
    BY <1>12, ReleaseType DEF Abort
  <2> QED
    BY <1>1, <2>1, HistoryKept
<1>13. CASE AnyFill
    BY <1>1, <1>13, FillHistory
<1>14. CASE \E change \in ManualChanges : ManualChange(change)
    BY <1>1, <1>14, ManualHistory
<1>15. CASE UNCHANGED vars
    BY <1>1, <1>15, HistoryKept DEF vars
<1> QED
    BY <1>2, <1>3, <1>4, <1>5, <1>6, <1>7, <1>8, <1>9, <1>10, <1>11, <1>12, <1>13, <1>14, <1>15
    DEF Next

LEMMA HistoryHolds == Spec => [](IndInv /\ History)
PROOF
<1>1. Init => IndInv /\ History
    BY InitInv, InitHistory
<1>2. IndInv /\ History /\ [Next]_vars => IndInv' /\ History'
    BY Invariance, HistoryStep
<1> QED
    BY <1>1, <1>2, PTL DEF Spec

(* With the history and at most one order of an identity at the broker,    *)
(* the ledger is behind the broker and takes what the broker says.         *)
LEMMA Behind == IndInv /\ History => LedgerBehindBroker
PROOF
<1> SUFFICES ASSUME IndInv, History PROVE LedgerBehindBroker
    OBVIOUS
<1> DEFINE held == {ledger.book[i] : i \in Ids} \ {Nothing}
           observed == ledger.events \cup {f \in held : f.state \notin LocalStates}
<1>1. \A f \in observed : f \in Facts /\ WasAt(broker, f)
  <2>1. \A f : LocalFact(f) => f.state \in LocalStates
    BY DEF LocalFact, AsSaved, AsClaimed, NewFact, LocalStates
  <2> QED
    BY <2>1, BookTypes DEF History, LedgerIsHistory
<1> HIDE DEF observed
<1>2. ASSUME NEW f \in observed
      PROVE  \E k \in DOMAIN broker.orders :
               LET order == broker.orders[k]
               IN  /\ order.intent = f.intent
                   /\ order = f \/ /\ f.revision < order.revision
                                   /\ ~Terminal(f)
                                   /\ f.filled <= order.filled
                                   /\ f.value <= order.value
                                   /\ f.fees <= order.fees
  <2>1. PICK k \in DOMAIN broker.orders : Follows(f, broker.orders[k])
    BY <1>1 DEF WasAt
  <2> DEFINE order == broker.orders[k]
  <2>2. f \in Facts /\ order \in Facts /\ Follows(f, order)
    BY <1>1, <2>1, OrderTypes
  <2> HIDE DEF order
  <2>3. CASE order = f
    BY <2>1, <2>3 DEF order
  <2>4. CASE order.intent = f.intent /\ f.revision < order.revision /\ Continues(f, order)
    <3>1. /\ ~Terminal(f) /\ order.filled - f.filled >= 0
          /\ order.value - f.value >= 0 /\ order.fees - f.fees >= 0
      BY <2>4 DEF Continues
    <3>2. f.filled <= order.filled /\ f.value <= order.value /\ f.fees <= order.fees
      BY <2>2, <3>1, FactFacts
    <3> QED
      BY <2>4, <3>1, <3>2 DEF order
  <2> QED
    BY <2>2, <2>3, <2>4 DEF Follows
<1> QED
    BY <1>2 DEF LedgerBehindBroker, observed

LEMMA Accepted == IndInv /\ History => NewsIsAccepted
PROOF
<1> SUFFICES ASSUME IndInv, History, NEW k \in DOMAIN broker.orders
             PROVE  ~Rejects(ledger, broker.orders[k])
    BY DEF NewsIsAccepted
<1> DEFINE order == broker.orders[k]
           local == ledger.book[order.intent.id]
<1>1. order \in Facts /\ order.intent.id \in Ids /\ order.intent \in Intents
    BY OrderTypes, FactFacts
<1>2. /\ local # Nothing /\ local.state # "ready" /\ local.intent = order.intent
      /\ Follows(AsClaimed(order.intent), order) /\ order.state \notin LocalStates
    BY <1>1 DEF IndInv, Claims, Sent, History, OrdersGoOn, GoesOn
<1>3. ASSUME NEW f \in Facts, f.intent.id = order.intent.id, WasAt(broker, f)
      PROVE  Follows(f, order)
  <2>1. PICK j \in DOMAIN broker.orders : Follows(f, broker.orders[j])
    BY <1>3 DEF WasAt
  <2>2. broker.orders[j].intent = f.intent
    BY <2>1 DEF Follows
  <2>3. j = k
    BY <1>3, <2>2 DEF IndInv, TransmittedOnce
  <2> QED
    BY <2>1, <2>3
<1>4. Follows(local, order) /\ local \in Facts
  <2>1. local \in Facts /\ (LocalFact(local) \/ WasAt(broker, local))
    BY <1>1, <1>2, BookTypes DEF History, LedgerIsHistory
  <2>2. CASE LocalFact(local)
    <3>1. local # AsSaved(order.intent)
      BY <1>2 DEF AsSaved, NewFact
    <3> QED
      BY <1>2, <2>1, <2>2, <3>1 DEF LocalFact
  <2>3. CASE WasAt(broker, local)
    BY <1>2, <1>3, <2>1, <2>3
  <2> QED
    BY <2>1, <2>2, <2>3
<1>5. ASSUME NEW e \in ledger.events, e.intent.id = order.intent.id, e.revision = order.revision
      PROVE  e = order
  <2>1. e \in Facts /\ WasAt(broker, e)
    BY BookTypes DEF History, LedgerIsHistory
  <2>2. Follows(e, order)
    BY <1>3, <1>5, <2>1
  <2>3. ~(e.revision < order.revision)
    BY <1>1, <1>5, FactFacts
  <2> QED
    BY <2>2, <2>3 DEF Follows
<1>6. Classify(local, order) # "conflict"
  <2>1. CASE order = local
    BY <2>1 DEF Classify
  <2>2. CASE order.intent = local.intent /\ local.revision < order.revision /\ Continues(local, order)
    <3>1. order.revision > local.revision
      BY <1>1, <1>4, <2>2, FactFacts
    <3> QED
      BY <2>2, <3>1 DEF Classify
  <2> QED
    BY <1>4, <2>1, <2>2 DEF Follows
<1> HIDE DEF order
<1> QED
    BY <1>2, <1>5, <1>6 DEF Rejects, Local, order

(* Whichever fills and cancellations the ledger missed or sees late, what  *)
(* it has was true at the broker, and what the broker says next it takes   *)
(* (apply() of the ledger, submit, cancel and fill of the broker).         *)
THEOREM LedgerIsBehind == Spec => []LedgerFollowsBroker
PROOF
<1>1. IndInv /\ History => LedgerFollowsBroker
    BY Behind, Accepted DEF LedgerFollowsBroker
<1> QED
    BY <1>1, HistoryHolds, PTL
-----------------------------------------------------------------------------
(* The means: cash that no open order reserves, shares no open sale        *)
(* offers.  Free and Spare are what one order adds to them.                *)
Free(f) == CashChange(f) - Reserved(f)
Spare(f, s) == Moved(f, s) - Offered(f, s)

FreeCash(b) == AccountOf(b).cash - AccountOf(b).reserved
SpareShares(b, s) == AccountOf(b).holdings[s] - Total(LAMBDA f : Offered(f, s), b.orders)

(* An order never fills, nor costs, more than it may.                      *)
Bounded(f) == f.filled <= f.intent.quantity /\ f.fees <= f.intent.budget

(* What a later fact of an order does not take away.                       *)
Better(f, g) == Free(f) <= Free(g) /\ \A s \in Symbols : Spare(f, s) <= Spare(g, s)

LEMMA WeightTypes ==
  ASSUME NEW f \in Facts
  PROVE  /\ CashChange(f) \in Int /\ Reserved(f) \in Int /\ Free(f) \in Int
         /\ \A s : Moved(f, s) \in Int /\ Offered(f, s) \in Int /\ Spare(f, s) \in Int
PROOF
<1>1. /\ f.filled \in Nat /\ f.value \in Nat /\ f.fees \in Nat
      /\ f.intent.quantity \in Nat /\ f.intent.limit \in Nat /\ f.intent.budget \in Nat
    BY FactFacts, IntentsAssumption
<1>2. Remaining(f) \in Int
    BY <1>1 DEF Remaining
<1>3. Remaining(f) * f.intent.limit \in Int
    BY <1>1, <1>2
<1>4. CashChange(f) \in Int /\ Reserved(f) \in Int
    BY <1>1, <1>3 DEF CashChange, Signed, Reserved
<1>5. ASSUME NEW s PROVE Moved(f, s) \in Int /\ Offered(f, s) \in Int
    BY <1>1, <1>2 DEF Moved, Signed, Offered
<1> QED
    BY <1>4, <1>5 DEF Free, Spare

LEMMA OrdersFinite ==
  ASSUME NEW orders \in Seq(Facts)
  PROVE  IsFiniteSet(DOMAIN orders) /\ \A k \in DOMAIN orders : orders[k] \in Facts
BY FS_Interval

(* What all orders of a broker add up to.                                  *)
LEMMA Tallies ==
  ASSUME NEW b \in Brokers
  PROVE  /\ FreeCash(b) \in Int /\ AccountOf(b).reserved \in Int
         /\ FreeCash(b) = b.start.cash
              + SumFunctionOnSet([k \in DOMAIN b.orders |-> Free(b.orders[k])], DOMAIN b.orders)
         /\ \A s \in Symbols :
              /\ SpareShares(b, s) \in Int
              /\ Total(LAMBDA f : Offered(f, s), b.orders) \in Int
              /\ SpareShares(b, s) = b.start.holdings[s]
                   + SumFunctionOnSet([k \in DOMAIN b.orders |-> Spare(b.orders[k], s)], DOMAIN b.orders)
PROOF
<1> DEFINE D == DOMAIN b.orders
           cash == [k \in D |-> CashChange(b.orders[k])]
           reserved == [k \in D |-> Reserved(b.orders[k])]
           free == [k \in D |-> Free(b.orders[k])]
<1>1. IsFiniteSet(D) /\ \A k \in D : b.orders[k] \in Facts
    BY OrdersFinite DEF Brokers
<1>2. b.start.cash \in Int /\ \A s \in Symbols : b.start.holdings[s] \in Int
    BY DEF Brokers, Accounts
<1>3. \A k \in D : cash[k] \in Int /\ reserved[k] \in Int /\ free[k] = cash[k] - reserved[k]
    BY <1>1, WeightTypes DEF Free
<1>4. /\ AccountOf(b).cash = b.start.cash + SumFunctionOnSet(cash, D)
      /\ AccountOf(b).reserved = SumFunctionOnSet(reserved, D)
    BY DEF AccountOf, Total, SumFunction
<1> HIDE DEF cash, reserved, free
<1>5. /\ SumFunctionOnSet(free, D) = SumFunctionOnSet(cash, D) - SumFunctionOnSet(reserved, D)
      /\ SumFunctionOnSet(cash, D) \in Int /\ SumFunctionOnSet(reserved, D) \in Int
    BY <1>1, <1>3, SumMinus, SumType
<1>6. /\ FreeCash(b) \in Int /\ AccountOf(b).reserved \in Int
      /\ FreeCash(b) = b.start.cash + SumFunctionOnSet(free, D)
    BY <1>2, <1>4, <1>5 DEF FreeCash
<1>7. ASSUME NEW s \in Symbols
      PROVE  /\ SpareShares(b, s) \in Int
             /\ Total(LAMBDA f : Offered(f, s), b.orders) \in Int
             /\ SpareShares(b, s) = b.start.holdings[s]
                  + SumFunctionOnSet([k \in D |-> Spare(b.orders[k], s)], D)
  <2> DEFINE moved == [k \in D |-> Moved(b.orders[k], s)]
             offered == [k \in D |-> Offered(b.orders[k], s)]
             spare == [k \in D |-> Spare(b.orders[k], s)]
  <2>1. \A k \in D : moved[k] \in Int /\ offered[k] \in Int /\ spare[k] = moved[k] - offered[k]
      BY <1>1, WeightTypes DEF Spare
  <2>2. /\ AccountOf(b).holdings[s] = b.start.holdings[s] + SumFunctionOnSet(moved, D)
        /\ Total(LAMBDA f : Offered(f, s), b.orders) = SumFunctionOnSet(offered, D)
      BY DEF AccountOf, Total, SumFunction
  <2> HIDE DEF moved, offered, spare
  <2>3. /\ SumFunctionOnSet(spare, D) = SumFunctionOnSet(moved, D) - SumFunctionOnSet(offered, D)
        /\ SumFunctionOnSet(moved, D) \in Int /\ SumFunctionOnSet(offered, D) \in Int
      BY <1>1, <2>1, SumMinus, SumType
  <2> QED
      BY <1>2, <2>2, <2>3 DEF SpareShares, spare
<1> QED
    BY <1>6, <1>7 DEF free

(* What a continuation of an order within its limit does to the means.     *)
LEMMA ContinuationIsBetter ==
  ASSUME NEW f \in Facts, NEW g \in Facts, f.intent = g.intent, Continues(f, g),
         Bounded(f), Bounded(g),
         f.intent.side = "sell" => g.fees - f.fees <= g.value - f.value
  PROVE  Better(f, g)
PROOF
<1> DEFINE i == f.intent
           paid == g.value - f.value
           bought == g.filled - f.filled
<1>1. /\ f.filled \in Nat /\ f.value \in Nat /\ f.fees \in Nat
      /\ g.filled \in Nat /\ g.value \in Nat /\ g.fees \in Nat
      /\ i.quantity \in Nat /\ i.limit \in Nat /\ i.budget \in Nat /\ i.side \in {"buy", "sell"}
    BY FactFacts, IntentsAssumption
<1>2. /\ ~Terminal(f) /\ bought >= 0 /\ paid >= 0 /\ f.fees <= g.fees
      /\ i.side = "buy" => paid <= bought * i.limit
  <2>1. ~Terminal(f) /\ bought >= 0 /\ paid >= 0 /\ g.fees - f.fees >= 0
      BY DEF Continues
  <2>2. WithinLimit(i, bought, paid)
      BY DEF Continues
  <2> QED
      BY <1>1, <2>1, <2>2 DEF WithinLimit
<1>3. f.filled <= i.quantity /\ g.filled <= i.quantity /\ f.fees <= i.budget /\ g.fees <= i.budget
    BY DEF Bounded
<1> DEFINE left == (i.quantity - f.filled) * i.limit
           after == (i.quantity - g.filled) * i.limit
           worth == bought * i.limit
<1>4. left = after + worth /\ after \in Nat /\ worth \in Nat /\ left \in Nat
  <2>1. i.quantity - f.filled = (i.quantity - g.filled) + bought
      BY <1>1
  <2>2. i.quantity - g.filled \in Nat /\ bought \in Nat
      BY <1>1, <1>2, <1>3
  <2> HIDE DEF bought
  <2>3. ((i.quantity - g.filled) + bought) * i.limit = after + worth
      BY <1>1, <2>2, Distribute
  <2>4. after \in Nat /\ worth \in Nat
      BY <1>1, <2>2
  <2> QED
      BY <2>1, <2>3, <2>4
<1>5. Free(f) <= Free(g)
  <2>1. CASE i.side = "buy"
    <3>1. Free(f) = (-f.value - f.fees) - (left + i.budget - f.fees)
        BY <1>2, <2>1 DEF Free, CashChange, Signed, Reserved, Remaining
    <3>2. Free(g) = (-g.value - g.fees) - (IF Terminal(g) THEN 0 ELSE after + i.budget - g.fees)
        BY <2>1 DEF Free, CashChange, Signed, Reserved, Remaining
    <3>3. paid <= worth
        BY <1>2, <2>1
    <3> HIDE DEF left, after, worth
    <3> QED
        BY <1>1, <1>2, <1>3, <1>4, <3>1, <3>2, <3>3
  <2>2. CASE i.side = "sell"
    <3>1. Free(f) = -(-f.value) - f.fees /\ Free(g) = -(-g.value) - g.fees
        BY <1>1, <2>2 DEF Free, CashChange, Signed, Reserved
    <3> QED
        BY <1>1, <2>2, <3>1
  <2> QED
      BY <1>1, <2>1, <2>2
<1>6. ASSUME NEW s \in Symbols PROVE Spare(f, s) <= Spare(g, s)
    BY <1>1, <1>2, <1>3 DEF Spare, Moved, Offered, Signed, Remaining
<1> QED
    BY <1>5, <1>6 DEF Better

(* Orders that got better, each in its place, leave the means for more.    *)
LEMMA MeansGrow ==
  ASSUME NEW b \in Brokers, NEW c \in Brokers, b.start = c.start,
         DOMAIN b.orders = DOMAIN c.orders,
         \A k \in DOMAIN b.orders : Better(b.orders[k], c.orders[k])
  PROVE  FreeCash(b) <= FreeCash(c) /\ \A s \in Symbols : SpareShares(b, s) <= SpareShares(c, s)
PROOF
<1> DEFINE D == DOMAIN b.orders
<1>1. /\ IsFiniteSet(D) /\ \A k \in D : b.orders[k] \in Facts /\ c.orders[k] \in Facts
      /\ b.start.cash \in Int /\ \A s \in Symbols : b.start.holdings[s] \in Int
    BY OrdersFinite DEF Brokers, Accounts
<1>2. FreeCash(b) <= FreeCash(c)
  <2> DEFINE before == [k \in D |-> Free(b.orders[k])]
             after == [k \in D |-> Free(c.orders[k])]
  <2>1. \A k \in D : before[k] \in Int /\ after[k] \in Int /\ before[k] <= after[k]
      BY <1>1, WeightTypes DEF Better
  <2> HIDE DEF before, after
  <2>2. SumFunctionOnSet(before, D) <= SumFunctionOnSet(after, D)
        /\ SumFunctionOnSet(before, D) \in Int /\ SumFunctionOnSet(after, D) \in Int
      BY <1>1, <2>1, SumMonotone, SumType
  <2>3. /\ FreeCash(b) = b.start.cash + SumFunctionOnSet(before, D)
        /\ FreeCash(c) = b.start.cash + SumFunctionOnSet(after, D)
      BY Tallies DEF before, after
  <2> QED
      BY <1>1, <2>2, <2>3
<1>3. ASSUME NEW s \in Symbols PROVE SpareShares(b, s) <= SpareShares(c, s)
  <2> DEFINE before == [k \in D |-> Spare(b.orders[k], s)]
             after == [k \in D |-> Spare(c.orders[k], s)]
  <2>1. \A k \in D : before[k] \in Int /\ after[k] \in Int /\ before[k] <= after[k]
      BY <1>1, WeightTypes DEF Better
  <2> HIDE DEF before, after
  <2>2. SumFunctionOnSet(before, D) <= SumFunctionOnSet(after, D)
        /\ SumFunctionOnSet(before, D) \in Int /\ SumFunctionOnSet(after, D) \in Int
      BY <1>1, <2>1, SumMonotone, SumType
  <2>3. /\ SpareShares(b, s) = b.start.holdings[s] + SumFunctionOnSet(before, D)
        /\ SpareShares(c, s) = b.start.holdings[s] + SumFunctionOnSet(after, D)
      BY Tallies DEF before, after
  <2> QED
      BY <1>1, <2>2, <2>3
<1> QED
    BY <1>2, <1>3
-----------------------------------------------------------------------------
(* The invariant: no order fills or costs more than it may; the means are  *)
(* not below nothing; an order about to be sent passed the check on the    *)
(* snapshot, and the orders in it only got better since.                   *)
WithinBounds == \A k \in DOMAIN broker.orders : Bounded(broker.orders[k])

Covered == FreeCash(broker) >= 0 /\ \A s \in Symbols : SpareShares(broker, s) >= 0

SeenGotBetter ==
  /\ DOMAIN task.snapshot.orders = DOMAIN broker.orders
  /\ \A k \in DOMAIN broker.orders : Better(task.snapshot.orders[k], broker.orders[k])

Checked == Affordable(task.snapshot, task.intent)

Submitting(steps) == task.op = "submit" /\ task.step \in steps

Means ==
  /\ WithinBounds
  /\ SalesPay /\ changes = 0 => Covered
  /\ SalesPay /\ Submitting({"apply", "claim", "transmit"}) => SeenGotBetter
  /\ Submitting({"claim", "transmit"}) => Checked

LEMMA BetterOrder ==
  ASSUME NEW f \in Facts, NEW g \in Facts, NEW h \in Facts
  PROVE  Better(f, f) /\ (Better(f, g) /\ Better(g, h) => Better(f, h))
PROOF
<1>1. /\ Free(f) \in Int /\ Free(g) \in Int /\ Free(h) \in Int
      /\ \A s : Spare(f, s) \in Int /\ Spare(g, s) \in Int /\ Spare(h, s) \in Int
    BY WeightTypes
<1> QED
    BY <1>1 DEF Better

(* The check of a purchase or a sale, in terms of the means.               *)
Cost(intent) == Reserved(NewFact(intent, "open", 1))

LEMMA CheckOfMeans ==
  ASSUME NEW b, NEW intent
  PROVE  Affordable(b, intent) <=> IF intent.side = "buy" THEN Cost(intent) <= FreeCash(b)
                                   ELSE intent.quantity <= SpareShares(b, intent.symbol)
BY DEF Affordable, Cost, FreeCash, SpareShares

(* An account whose means are not below nothing is one.                    *)
LEMMA CoveredAnswers ==
  ASSUME broker \in Brokers, WithinBounds, Covered
  PROVE  Answers
PROOF
<1> DEFINE D == DOMAIN broker.orders
           account == AccountOf(broker)
<1>1. IsFiniteSet(D) /\ \A k \in D : broker.orders[k] \in Facts
    BY OrdersFinite DEF Brokers
<1>2. ASSUME NEW k \in D
      PROVE  /\ Reserved(broker.orders[k]) \in Nat
             /\ \A s : Offered(broker.orders[k], s) \in Nat
  <2> DEFINE f == broker.orders[k]
  <2>1. /\ f.filled \in Nat /\ f.fees \in Nat /\ f.filled <= f.intent.quantity /\ f.fees <= f.intent.budget
        /\ f.intent.quantity \in Nat /\ f.intent.limit \in Nat /\ f.intent.budget \in Nat
    <3>1. f \in Facts /\ Bounded(f)
        BY <1>1 DEF WithinBounds
    <3> QED
        BY <3>1, FactFacts, IntentsAssumption DEF Bounded
  <2> HIDE DEF f
  <2>2. Remaining(f) \in Nat
      BY <2>1 DEF Remaining
  <2>3. Remaining(f) * f.intent.limit \in Nat /\ f.intent.budget - f.fees \in Nat
      BY <2>1, <2>2
  <2>4. Reserved(f) \in Nat
      BY <2>1, <2>3 DEF Reserved
  <2> QED
      BY <2>2, <2>4 DEF Offered, f
<1>3. account.reserved \in Nat
  <2>1. account.reserved = SumFunctionOnSet([k \in D |-> Reserved(broker.orders[k])], D)
      BY DEF AccountOf, Total, SumFunction
  <2> QED
      BY <1>1, <1>2, <2>1, SumNatural
<1>4. account.cash \in Int /\ account.cash - account.reserved >= 0
  <2>1. account.cash = broker.start.cash + SumFunctionOnSet([k \in D |-> CashChange(broker.orders[k])], D)
      BY DEF AccountOf, Total, SumFunction
  <2>2. SumFunctionOnSet([k \in D |-> CashChange(broker.orders[k])], D) \in Int
      BY <1>1, WeightTypes, SumType
  <2>3. broker.start.cash \in Int
      BY DEF Brokers, Accounts
  <2> QED
      BY <2>1, <2>2, <2>3 DEF Covered, FreeCash
<1>5. ASSUME NEW s \in Symbols PROVE account.holdings[s] >= 0
  <2> DEFINE offered == SumFunctionOnSet([k \in D |-> Offered(broker.orders[k], s)], D)
             moved == SumFunctionOnSet([k \in D |-> Moved(broker.orders[k], s)], D)
  <2>1. offered \in Nat
      BY <1>1, <1>2, SumNatural
  <2>2. moved \in Int
      BY <1>1, WeightTypes, SumType
  <2>3. account.holdings[s] = broker.start.holdings[s] + moved /\ broker.start.holdings[s] \in Int
      BY DEF AccountOf, Total, SumFunction, Brokers, Accounts
  <2>4. account.holdings[s] - offered >= 0
      BY DEF Covered, SpareShares, Total, SumFunction
  <2> HIDE DEF offered, moved, account
  <2> QED
      BY <2>1, <2>2, <2>3, <2>4
<1> HIDE DEF account
<1> QED
    BY <1>3, <1>4, <1>5 DEF Answers, ValidAccount, account

LEMMA InitMeans == Init => Means
PROOF
<1> SUFFICES ASSUME Init PROVE Means
    OBVIOUS
<1>1. broker \in Brokers /\ DOMAIN broker.orders = {} /\ broker.start \in Accounts
    BY AccountAssumption DEF Init, Brokers
<1>2. /\ FreeCash(broker) = broker.start.cash + 0
      /\ \A s \in Symbols : SpareShares(broker, s) = broker.start.holdings[s] + 0
    BY <1>1, Tallies, SumEmpty
<1>3. Covered
    BY <1>1, <1>2 DEF Covered, Accounts
<1> QED
    BY <1>1, <1>3 DEF Init, Idle, Means, WithinBounds, Submitting

(* The broker puts a better fact in an order's place.                      *)
LEMMA ReplaceMeans ==
  ASSUME IndInv, Means, NEW k \in DOMAIN broker.orders, NEW f \in Facts,
         f.intent = broker.orders[k].intent, broker' = [broker EXCEPT !.orders[k] = f],
         Bounded(f), SalesPay => Better(broker.orders[k], f), UNCHANGED changes
  PROVE  /\ WithinBounds' /\ (SalesPay /\ changes' = 0 => Covered')
         /\ SalesPay /\ Submitting({"apply", "claim", "transmit"}) /\ UNCHANGED task
              => SeenGotBetter'
PROOF
<1>1. broker \in Brokers /\ broker' \in Brokers
    BY TypeParts, ReplaceOrder DEF IndInv
<1>2. /\ DOMAIN broker'.orders = DOMAIN broker.orders /\ broker'.start = broker.start
      /\ \A j \in DOMAIN broker.orders :
           broker'.orders[j] = IF j = k THEN f ELSE broker.orders[j]
    BY <1>1 DEF Brokers
<1>3. WithinBounds'
    BY <1>2 DEF Means, WithinBounds
<1>4. ASSUME SalesPay, NEW j \in DOMAIN broker.orders
      PROVE  Better(broker.orders[j], broker'.orders[j])
    BY <1>2, <1>4, OrderTypes, BetterOrder
<1>5. ASSUME SalesPay, changes' = 0 PROVE Covered'
  <2>1. Covered
      BY <1>5 DEF Means
  <2>2. /\ FreeCash(broker) <= FreeCash(broker')
        /\ \A s \in Symbols : SpareShares(broker, s) <= SpareShares(broker', s)
      BY <1>1, <1>2, <1>4, <1>5, MeansGrow
  <2>3. /\ FreeCash(broker) \in Int /\ FreeCash(broker') \in Int
        /\ \A s \in Symbols : SpareShares(broker, s) \in Int /\ SpareShares(broker', s) \in Int
      BY <1>1, Tallies
  <2> QED
      BY <2>1, <2>2, <2>3 DEF Covered
<1>6. ASSUME SalesPay, Submitting({"apply", "claim", "transmit"}), UNCHANGED task
      PROVE  SeenGotBetter'
  <2>1. SeenGotBetter
      BY <1>6 DEF Means
  <2>2. task.snapshot \in Brokers
    <3>1. task \in Tasks
        BY TypeParts DEF IndInv
    <3> QED
        BY <1>6, <3>1 DEF Tasks, Submitting
  <2>3. \A j \in DOMAIN broker.orders : task.snapshot.orders[j] \in Facts /\ broker'.orders[j] \in Facts
      BY <1>1, <1>2, <2>1, <2>2 DEF SeenGotBetter, Brokers
  <2>4. \A j \in DOMAIN broker.orders : Better(task.snapshot.orders[j], broker'.orders[j])
      BY <1>4, <1>6, <2>1, <2>3, OrderTypes, BetterOrder DEF SeenGotBetter
  <2> QED
      BY <1>2, <1>6, <2>1, <2>4 DEF SeenGotBetter
<1> QED
    BY <1>3, <1>5, <1>6

LEMMA ValidIsBounded ==
  ASSUME NEW f, ValidFact(f) PROVE Bounded(f)
BY DEF ValidFact, Bounded

LEMMA CancelMeans ==
  ASSUME IndInv, History, Means, NEW id \in Ids, Cancel(id)
  PROVE  Means'
PROOF
<1>1. PICK k \in DOMAIN broker.orders :
        /\ broker' = [broker EXCEPT !.orders[k] = Outcome(broker.orders[k])]
        /\ \/ task' = [Idle EXCEPT !.op = "cancel", !.step = "record", !.answer = Outcome(broker.orders[k])]
           \/ UNCHANGED task
    BY Cancelled
<1> DEFINE order == broker.orders[k]
           f == Outcome(order)
<1>2. order \in Facts /\ f \in Facts /\ f.intent = order.intent /\ Bounded(order)
    BY OrderTypes, OutcomeFacts DEF Means, WithinBounds
<1>3. f = order \/ /\ Continues(order, f)
                   /\ f.filled = order.filled /\ f.value = order.value /\ f.fees = order.fees
  <2>1. order.state \notin LocalStates
      BY DEF History, OrdersGoOn, GoesOn
  <2>2. Follows(order, f)
      BY <1>2, <2>1, OutcomeFollows
  <2>3. CASE Terminal(order)
      BY <2>3 DEF Outcome
  <2>4. CASE ~Terminal(order)
      BY <1>2, <2>2, <2>4, OutcomeFacts DEF Follows
  <2> QED
      BY <2>3, <2>4
<1> HIDE DEF order, f
<1>4. Bounded(f)
    BY <1>2, <1>3 DEF Bounded
<1>5. Better(order, f)
  <2>1. CASE f = order
      BY <1>2, <2>1, BetterOrder
  <2>2. CASE f # order
    <3>1. f.fees - order.fees = 0 /\ f.value - order.value = 0
        BY <1>2, <1>3, <2>2, FactFacts
    <3> QED
        BY <1>2, <1>3, <1>4, <2>2, <3>1, ContinuationIsBetter
  <2> QED
      BY <2>1, <2>2
<1>6. WithinBounds' /\ (SalesPay /\ changes' = 0 => Covered')
    BY <1>1, <1>2, <1>4, <1>5, ReplaceMeans DEF order, f, Cancel
<1>7. task'.op # "submit"
  <2>1. CASE task' = [Idle EXCEPT !.op = "cancel", !.step = "record", !.answer = f]
      BY <2>1 DEF Idle
  <2>2. CASE UNCHANGED task
      BY <2>2 DEF Cancel, Idle
  <2> QED
      BY <1>1, <2>1, <2>2 DEF f, order
<1> QED
    BY <1>6, <1>7 DEF Means, Submitting

LEMMA FillMeans ==
  ASSUME IndInv, Means, AnyFill
  PROVE  Means'
PROOF
<1>1. broker \in Brokers
    BY TypeParts DEF IndInv
<1>2. PICK k \in DOMAIN broker.orders : \E f \in Facts :
           /\ f.intent = broker.orders[k].intent /\ Classify(broker.orders[k], f) = "apply"
           /\ ValidFact(f) /\ \E fee \in Fees : f.fees = broker.orders[k].fees + fee
           /\ broker' = [broker EXCEPT !.orders[k] = f] /\ UNCHANGED <<ledger, changes, task>>
    BY <1>1, Filled
<1>3. PICK f \in Facts, fee \in Fees :
           /\ f.intent = broker.orders[k].intent /\ Classify(broker.orders[k], f) = "apply"
           /\ ValidFact(f) /\ f.fees = broker.orders[k].fees + fee
           /\ broker' = [broker EXCEPT !.orders[k] = f] /\ UNCHANGED <<ledger, changes, task>>
    BY <1>2
<1> DEFINE order == broker.orders[k]
<1>4. order \in Facts /\ Bounded(order) /\ Bounded(f) /\ Continues(order, f) /\ f.intent = order.intent
    BY <1>3, OrderTypes, ValidIsBounded DEF Means, WithinBounds, Classify
<1>5. f.fees = order.fees + fee /\ fee \in Nat
    BY <1>3, OutsideAssumption
<1> HIDE DEF order
<1>6. ASSUME SalesPay PROVE Better(order, f)
  <2>1. ASSUME f.intent.side = "sell" PROVE f.fees - order.fees <= f.value - order.value
    <3> DEFINE i == f.intent
               sold == f.filled - order.filled
               paid == f.value - order.value
    <3>1. /\ sold \in Int /\ paid \in Int /\ i.limit \in Nat /\ i \in Intents
        BY <1>4, FactFacts, IntentFacts
    <3>2. f.fees - order.fees = fee /\ fee <= i.limit
        BY <1>4, <1>5, <1>6, <2>1, <3>1, FactFacts DEF SalesPay
    <3>3. /\ sold >= 0 /\ paid >= 0 /\ (sold = 0 => f.fees - order.fees = 0)
        BY <1>4 DEF Continues
    <3>4. paid >= sold * i.limit
      <4>1. WithinLimit(i, sold, paid)
          BY <1>4 DEF Continues
      <4> QED
          BY <2>1, <4>1 DEF WithinLimit
    <3> HIDE DEF i, sold, paid
    <3>5. CASE sold = 0
        BY <1>5, <3>2, <3>3, <3>5 DEF paid
    <3>6. CASE sold # 0
      <4>1. sold - 1 \in Nat /\ sold = (sold - 1) + 1
          BY <3>1, <3>3, <3>6
      <4>2. sold * i.limit = (sold - 1) * i.limit + 1 * i.limit
          BY <3>1, <4>1, Distribute
      <4>3. (sold - 1) * i.limit \in Nat /\ 1 * i.limit = i.limit
          BY <3>1, <4>1
      <4>4. sold * i.limit >= i.limit
          BY <3>1, <4>2, <4>3
      <4>5. sold * i.limit \in Int
          BY <3>1
      <4> QED
          BY <1>5, <3>1, <3>2, <3>4, <4>4, <4>5 DEF paid
    <3> QED
        BY <3>5, <3>6
  <2> QED
      BY <1>4, <2>1, ContinuationIsBetter
<1>7. /\ WithinBounds' /\ (SalesPay /\ changes' = 0 => Covered')
      /\ SalesPay /\ Submitting({"apply", "claim", "transmit"}) => SeenGotBetter'
    BY <1>3, <1>4, <1>6, ReplaceMeans DEF order
<1> QED
    BY <1>3, <1>7 DEF Means, Submitting, Checked

(* A new order takes its cost from the cash, or its shares from those not  *)
(* offered yet; a refused one takes nothing.                               *)
LEMMA NewOrderTakes ==
  ASSUME NEW i \in Intents, NEW state \in {"open", "rejected"}, NEW s \in Symbols
  PROVE  LET f == NewFact(i, state, 1)
         IN  /\ Bounded(f)
             /\ state = "rejected" => Free(f) = 0 /\ Spare(f, s) = 0
             /\ state = "open" =>
                  /\ Free(f) = IF i.side = "buy" THEN 0 - Cost(i) ELSE 0
                  /\ Spare(f, s) = IF i.side = "sell" /\ i.symbol = s THEN -i.quantity ELSE 0
PROOF
<1> DEFINE f == NewFact(i, state, 1)
<1>1. /\ f.intent = i /\ f.state = state /\ f.filled = 0 /\ f.value = 0 /\ f.fees = 0
      /\ i.quantity \in Nat /\ i.budget \in Nat /\ i.side \in {"buy", "sell"}
    BY IntentsAssumption DEF NewFact
<1>2. state = "open" => f = NewFact(i, "open", 1)
    OBVIOUS
<1>3. Terminal(f) <=> state = "rejected"
    BY <1>1 DEF Terminal, TerminalStates
<1> HIDE DEF f
<1>4. Bounded(f)
    BY <1>1 DEF Bounded
<1>5. CashChange(f) = 0
  <2>1. f.value \in Int /\ f.fees \in Int /\ f.value <= 0 /\ f.value >= 0 /\ f.fees <= 0 /\ f.fees >= 0
      BY <1>1
  <2> QED
      BY <2>1 DEF CashChange, Signed
<1>6. state = "rejected" => Reserved(f) = 0
    BY <1>3 DEF Reserved
<1>7. state = "open" => Reserved(f) = IF i.side = "buy" THEN Cost(i) ELSE 0
    BY <1>1, <1>2 DEF Reserved, Cost
<1>8. Moved(f, s) = 0
  <2>1. f.filled \in Int /\ f.filled <= 0 /\ f.filled >= 0
      BY <1>1
  <2> QED
      BY <2>1 DEF Moved, Signed
<1>9. Offered(f, s) = IF i.side = "sell" /\ i.symbol = s /\ state = "open" THEN i.quantity ELSE 0
    BY <1>1, <1>3 DEF Offered, Remaining
<1> QED
    BY <1>1, <1>4, <1>5, <1>6, <1>7, <1>8, <1>9 DEF Free, Spare, f

LEMMA TransmitMeans ==
  ASSUME IndInv, IndInv', Means, Transmit
  PROVE  Means'
PROOF
<1>1. broker \in Brokers /\ broker' \in Brokers /\ task \in Tasks /\ task.step = "transmit"
    BY TypeParts, TypePartsNext DEF IndInv, Transmit, Holds
<1>2. PICK state \in {"open", "rejected"} :
        /\ Affordable(broker, task.intent) \/ state = "rejected"
        /\ broker' = [broker EXCEPT !.orders = Append(broker.orders, NewFact(task.intent, state, 1))]
        /\ Answered(NewFact(task.intent, state, 1))
    BY DEF Transmit
<1> DEFINE i == task.intent
           f == NewFact(i, state, 1)
           D == DOMAIN broker.orders
           last == Len(broker.orders) + 1
<1>3. i \in Intents /\ i.symbol \in Symbols
    BY Transmitted DEF Symbols
<1>4. f \in Facts
    BY <1>3, NewFactType DEF States, LocalStates, TerminalStates
<1>5. /\ IsFiniteSet(D) /\ last \notin D /\ DOMAIN broker'.orders = D \cup {last}
      /\ \A k \in D : broker'.orders[k] = broker.orders[k] /\ broker.orders[k] \in Facts
      /\ broker'.orders[last] = f /\ broker'.start = broker.start
  <2> HIDE DEF f
  <2>1. broker' = [broker EXCEPT !.orders = Append(broker.orders, f)]
      BY <1>2 DEF f
  <2>2. broker'.start = broker.start
      BY <1>1, <2>1 DEF Brokers
  <2> QED
      BY <1>1, <1>4, <2>1, <2>2, OrderAppended, OrdersFinite DEF Brokers
<1>6. task'.step \in {"record", "idle"}
  <2>1. CASE task' = [task EXCEPT !.step = "record", !.answer = f]
      BY <1>1, <2>1 DEF Tasks
  <2>2. CASE Release
      BY <2>2, ReleaseType
  <2> QED
      BY <1>2, <2>1, <2>2 DEF Answered
<1>7. WithinBounds'
    BY <1>3, <1>5, NewOrderTakes DEF Means, WithinBounds
<1>8. ASSUME SalesPay, changes' = 0 PROVE Covered'
  <2>1. Covered
      BY <1>8 DEF Means, Transmit
  <2>2. /\ Free(f) \in Int /\ \A s : Spare(f, s) \in Int
        /\ FreeCash(broker) \in Int /\ \A s \in Symbols : SpareShares(broker, s) \in Int
      BY <1>1, <1>4, WeightTypes, Tallies
  <2>3. FreeCash(broker') = FreeCash(broker) + Free(f)
    <3> DEFINE before == [k \in D |-> Free(broker.orders[k])]
               after == [k \in D \cup {last} |-> Free(broker'.orders[k])]
    <3>1. /\ \A k \in D : before[k] = after[k] /\ before[k] \in Int
          /\ after[last] = Free(f)
        BY <1>5, WeightTypes
    <3>2. /\ FreeCash(broker) = broker.start.cash + SumFunctionOnSet(before, D)
          /\ FreeCash(broker') = broker.start.cash + SumFunctionOnSet(after, D \cup {last})
          /\ broker.start.cash \in Int
      <4>1. FreeCash(broker') = broker'.start.cash
              + SumFunctionOnSet([k \in DOMAIN broker'.orders |-> Free(broker'.orders[k])],
                                 DOMAIN broker'.orders)
          BY <1>1, Tallies
      <4>2. DOMAIN broker'.orders = D \cup {last} /\ broker'.start = broker.start
          BY <1>5
      <4>3. FreeCash(broker) = broker.start.cash + SumFunctionOnSet(before, D)
          BY <1>1, Tallies
      <4>4. broker.start.cash \in Int
          BY <1>1 DEF Brokers, Accounts
      <4> HIDE DEF last, f, D
      <4> QED
          BY <4>1, <4>2, <4>3, <4>4
    <3> HIDE DEF before, after, D, last, f
    <3>3. SumFunctionOnSet(after, D \cup {last}) = SumFunctionOnSet(before, D) + Free(f)
          /\ SumFunctionOnSet(before, D) \in Int
        BY <1>5, <2>2, <3>1, SumExtended, SumType
    <3> QED
        BY <2>2, <3>2, <3>3
  <2>4. ASSUME NEW s \in Symbols
        PROVE  SpareShares(broker', s) = SpareShares(broker, s) + Spare(f, s)
    <3> DEFINE before == [k \in D |-> Spare(broker.orders[k], s)]
               after == [k \in D \cup {last} |-> Spare(broker'.orders[k], s)]
    <3>1. /\ \A k \in D : before[k] = after[k] /\ before[k] \in Int
          /\ after[last] = Spare(f, s)
        BY <1>5, WeightTypes
    <3>2. /\ SpareShares(broker, s) = broker.start.holdings[s] + SumFunctionOnSet(before, D)
          /\ SpareShares(broker', s) = broker.start.holdings[s] + SumFunctionOnSet(after, D \cup {last})
          /\ broker.start.holdings[s] \in Int
      <4>1. SpareShares(broker', s) = broker'.start.holdings[s]
              + SumFunctionOnSet([k \in DOMAIN broker'.orders |-> Spare(broker'.orders[k], s)],
                                 DOMAIN broker'.orders)
          BY <1>1, Tallies
      <4>2. DOMAIN broker'.orders = D \cup {last} /\ broker'.start = broker.start
          BY <1>5
      <4>3. SpareShares(broker, s) = broker.start.holdings[s] + SumFunctionOnSet(before, D)
          BY <1>1, Tallies
      <4>4. broker.start.holdings[s] \in Int
          BY <1>1 DEF Brokers, Accounts
      <4> HIDE DEF last, f, D
      <4> QED
          BY <4>1, <4>2, <4>3, <4>4
    <3> HIDE DEF before, after, D, last, f
    <3>3. SumFunctionOnSet(after, D \cup {last}) = SumFunctionOnSet(before, D) + Spare(f, s)
          /\ SumFunctionOnSet(before, D) \in Int
        BY <1>5, <2>2, <3>1, SumExtended, SumType
    <3> QED
        BY <2>2, <3>2, <3>3
  <2>5. CASE state = "rejected"
    <3>1. Free(f) = 0 /\ \A s \in Symbols : Spare(f, s) = 0
        BY <1>3, <2>5, NewOrderTakes
    <3> HIDE DEF f
    <3> QED
        BY <2>1, <2>2, <2>3, <2>4, <3>1 DEF Covered
  <2>6. CASE state = "open"
    <3>1. IF i.side = "buy" THEN Cost(i) <= FreeCash(broker)
          ELSE i.quantity <= SpareShares(broker, i.symbol)
        BY <1>2, <2>6, CheckOfMeans
    <3>2. /\ Free(f) = IF i.side = "buy" THEN 0 - Cost(i) ELSE 0
          /\ \A s \in Symbols :
               Spare(f, s) = IF i.side = "sell" /\ i.symbol = s THEN -i.quantity ELSE 0
        BY <1>3, <2>6, NewOrderTakes
    <3>3. Cost(i) \in Int /\ i.quantity \in Nat
        BY <1>3, NewFactType, WeightTypes, IntentsAssumption DEF Cost, States, LocalStates
    <3> HIDE DEF f
    <3>4. FreeCash(broker') >= 0
        BY <2>1, <2>2, <2>3, <3>1, <3>2, <3>3 DEF Covered
    <3>5. \A s \in Symbols : SpareShares(broker', s) >= 0
        BY <1>3, <2>1, <2>2, <2>4, <3>1, <3>2, <3>3 DEF Covered
    <3> QED
        BY <3>4, <3>5 DEF Covered
  <2> QED
      BY <2>5, <2>6
<1> QED
    BY <1>6, <1>7, <1>8 DEF Means, Submitting

(* Steps that leave the broker alone.                                      *)
LEMMA MeansKept ==
  ASSUME Means, UNCHANGED <<broker, changes>>,
         Submitting({"apply", "claim", "transmit"})' =>
           \/ /\ Submitting({"apply", "claim", "transmit"})
              /\ task'.snapshot = task.snapshot /\ task'.intent = task.intent
           \/ SeenGotBetter',
         Submitting({"claim", "transmit"})' => Checked'
  PROVE  Means'
PROOF
<1>1. WithinBounds' /\ (SalesPay /\ changes' = 0 => Covered')
    BY DEF Means, WithinBounds, Covered
<1>2. ASSUME SalesPay, Submitting({"apply", "claim", "transmit"})' PROVE SeenGotBetter'
    BY <1>2 DEF Means, SeenGotBetter
<1> QED
    BY <1>1, <1>2 DEF Means

LEMMA LookMeans ==
  ASSUME IndInv, Means, NEW op, NEW intent, Look(op, intent)
  PROVE  Means'
PROOF
<1>1. UNCHANGED <<broker, changes>> /\ task'.step = "apply" /\ task'.snapshot = broker
    BY DEF Look, Idle
<1>2. SeenGotBetter'
    BY <1>1, OrderTypes, BetterOrder DEF SeenGotBetter
<1>3. ~Submitting({"claim", "transmit"})'
    BY <1>1 DEF Submitting
<1> QED
    BY <1>1, <1>2, <1>3, MeansKept

LEMMA OwnStepMeans ==
  ASSUME IndInv, Means, ApplyNext \/ Accept \/ Claim
  PROVE  Means'
PROOF
<1>1. task \in Tasks /\ UNCHANGED <<broker, changes>>
    BY TypeParts DEF IndInv, ApplyNext, Accept, Claim
<1>2. task'.op = task.op /\ task'.snapshot = task.snapshot /\ task'.intent = task.intent
    BY <1>1 DEF ApplyNext, Accept, Claim, Tasks
<1>3. Submitting({"apply", "claim", "transmit"})' => Submitting({"apply", "claim", "transmit"})
    BY <1>1, <1>2 DEF ApplyNext, Accept, Claim, Reconciled, Holds, Submitting, Tasks
<1>4. Submitting({"claim", "transmit"})' => Checked'
  <2>1. CASE ApplyNext
      BY <1>1, <2>1 DEF ApplyNext, Submitting, Tasks
  <2>2. CASE Accept
      BY <1>1, <1>2, <2>2 DEF Accept, Checked
  <2>3. CASE Claim
    <3>1. Checked
        BY <2>3 DEF Means, Claim, Holds, Submitting
    <3> QED
        BY <1>1, <1>2, <3>1 DEF Checked
  <2> QED
      BY <2>1, <2>2, <2>3
<1> QED
    BY <1>1, <1>2, <1>3, <1>4, MeansKept

LEMMA ManualMeans ==
  ASSUME IndInv, Means, NEW change \in ManualChanges, ManualChange(change)
  PROVE  Means'
PROOF
<1>1. UNCHANGED <<ledger, task>> /\ broker'.orders = broker.orders
  <2>1. broker \in Brokers
    BY TypeParts DEF IndInv
  <2> QED
    BY <2>1 DEF ManualChange, Brokers
<1>2. changes' # 0
  <2>1. changes \in Nat /\ changes' = changes + 1
      BY TypeParts, OutsideAssumption DEF IndInv, ManualChange
  <2> QED
      BY <2>1
<1> QED
    BY <1>1, <1>2 DEF Means, WithinBounds, Submitting, SeenGotBetter, Checked

LEMMA MeansStep == IndInv /\ IndInv' /\ History /\ Means /\ [Next]_vars => Means'
PROOF
<1> SUFFICES ASSUME IndInv, IndInv', History, Means, [Next]_vars PROVE Means'
    OBVIOUS
<1>1. CASE \/ Initialize \/ StoreBaseline \/ FinishRecover \/ FinishResume \/ Refuse
           \/ Record \/ Abort
  <2>1. UNCHANGED <<broker, changes>> /\ task'.op # "submit"
    <3>1. CASE Initialize
        BY <3>1 DEF Initialize, Idle
    <3>2. CASE \/ StoreBaseline \/ FinishRecover \/ FinishResume \/ Refuse
               \/ Record \/ Abort
      <4>1. UNCHANGED <<broker, changes>> /\ task' = Idle
          BY <3>2 DEF StoreBaseline, FinishRecover, FinishResume, Refuse, Record, Abort, Release
      <4> QED
          BY <4>1 DEF Idle
    <3> QED
        BY <1>1, <3>1, <3>2
  <2> QED
      BY <2>1, MeansKept DEF Submitting
<1>2. CASE Recover \/ Resume \/ \E intent \in Intents : Submit(intent)
    BY <1>2, LookMeans DEF Recover, Resume, Submit
<1>3. CASE ApplyNext \/ Accept \/ Claim
    BY <1>3, OwnStepMeans
<1>4. CASE Transmit
    BY <1>4, TransmitMeans
<1>5. CASE \E id \in Ids : Cancel(id)
    BY <1>5, CancelMeans
<1>6. CASE Stop \/ UNCHANGED vars
  <2>1. UNCHANGED <<broker, changes, task>>
      BY <1>6 DEF Stop, vars
  <2> QED
      BY <2>1 DEF Means, WithinBounds, Covered, Submitting, SeenGotBetter, Checked
<1>7. CASE AnyFill
    BY <1>7, FillMeans
<1>8. CASE \E change \in ManualChanges : ManualChange(change)
    BY <1>8, ManualMeans
<1> QED
    BY <1>1, <1>2, <1>3, <1>4, <1>5, <1>6, <1>7, <1>8 DEF Next

LEMMA MeansHold == Spec => [](IndInv /\ Means)
PROOF
<1>1. IndInv /\ IndInv' /\ History /\ History' /\ Means /\ [Next]_vars => Means'
    BY MeansStep
<1> QED
    BY <1>1, InitMeans, HistoryHolds, PTL DEF Spec

(* Without changes by hand, and with sales that pay their fees, the broker *)
(* always has an account to answer with: neither cash nor shares are ever  *)
(* promised twice, through any number of orders, fills and cancellations.  *)
THEOREM AccountStaysOne == Spec => []NeverOverdrawn
PROOF
<1>1. IndInv /\ Means => NeverOverdrawn
    BY CoveredAnswers, TypeParts DEF IndInv, Means, NeverOverdrawn
<1> QED
    BY <1>1, MeansHold, PTL

(* What was checked on a snapshot still holds when the order is sent, on   *)
(* the same account, whatever was filled in between.                       *)
LEMMA StillThere == IndInv /\ Means => MeansStillThere
PROOF
<1> SUFFICES ASSUME IndInv, Means, SalesPay, Submitting({"claim", "transmit"}),
                    task.snapshot.start = broker.start
             PROVE  Affordable(broker, task.intent)
    BY DEF MeansStillThere, Submitting
<1>1. broker \in Brokers /\ task.snapshot \in Brokers /\ task.intent \in Intents
  <2>1. broker \in Brokers /\ task \in Tasks
      BY TypeParts DEF IndInv
  <2> QED
      BY <2>1 DEF Tasks, Submitting
<1>2. SeenGotBetter /\ Checked
    BY DEF Means, Submitting
<1>3. /\ FreeCash(task.snapshot) <= FreeCash(broker)
      /\ \A s \in Symbols : SpareShares(task.snapshot, s) <= SpareShares(broker, s)
    BY <1>1, <1>2, MeansGrow DEF SeenGotBetter
<1>4. /\ FreeCash(task.snapshot) \in Int /\ FreeCash(broker) \in Int
      /\ \A s \in Symbols : SpareShares(task.snapshot, s) \in Int /\ SpareShares(broker, s) \in Int
      /\ task.intent.symbol \in Symbols
    BY <1>1, Tallies DEF Symbols
<1>5. Cost(task.intent) \in Int /\ task.intent.quantity \in Int
    BY <1>1, NewFactType, WeightTypes, IntentsAssumption DEF Cost, States, LocalStates
<1>6. IF task.intent.side = "buy" THEN Cost(task.intent) <= FreeCash(task.snapshot)
      ELSE task.intent.quantity <= SpareShares(task.snapshot, task.intent.symbol)
    BY <1>2, CheckOfMeans DEF Checked
<1>7. IF task.intent.side = "buy" THEN Cost(task.intent) <= FreeCash(broker)
      ELSE task.intent.quantity <= SpareShares(broker, task.intent.symbol)
    BY <1>3, <1>4, <1>5, <1>6
<1> QED
    BY <1>7, CheckOfMeans

THEOREM ChecksStayTrue == Spec => []MeansStillThere
PROOF
<1> QED
    BY StillThere, MeansHold, PTL
-----------------------------------------------------------------------------
(* What a call of submit() that goes on to send has decided: the ledger is *)
(* not halted, the account it saw started from the baseline, and no other  *)
(* order is in the dark.  While a call looks, what it applies are orders   *)
(* the broker knows.                                                       *)
SeenAtBroker ==
  task.step = "apply" =>
    \A k \in DOMAIN task.snapshot.orders : task.snapshot.orders[k].state \notin LocalStates

NoOtherUnknown ==
  \A i \in Ids \ {task.intent.id} : ledger.book[i] # Nothing => ledger.book[i].state # "unknown"

Decided ==
  task.step \in {"claim", "transmit"} =>
    ~ledger.halted /\ task.snapshot.start = ledger.baseline /\ NoOtherUnknown

Decision == SeenAtBroker /\ Decided

(* An account that reconcile() accepts started from the baseline: the      *)
(* orders of the snapshot and those the ledger sent are the same, so they  *)
(* add up to the same and leave no room for a difference.                  *)
LEMMA MatchedStart ==
  ASSUME IndInv, History, Decision, task.step = "apply", ledger.baseline # Nothing, InStep
  PROVE  /\ task.snapshot.start = ledger.baseline
         /\ \A i \in Ids : ledger.book[i] # Nothing => ledger.book[i].state # "unknown"
PROOF
<1> DEFINE b == task.snapshot
           orders == b.orders
           book == ledger.book
           sent == {i \in Ids : book[i] # Nothing /\ book[i].state # "ready"}
           local == [i \in sent |-> book[i]]
<1>1. b \in Brokers /\ orders \in Seq(Facts) /\ b.start \in Accounts /\ ledger.baseline \in Accounts
    BY TypeParts DEF IndInv, Tasks, Brokers, Ledgers
<1>2. /\ \A j, k \in DOMAIN orders : orders[j].intent.id = orders[k].intent.id => j = k
      /\ \A k \in DOMAIN orders : book[orders[k].intent.id] # Nothing
      /\ \A i \in sent : \E k \in DOMAIN orders : orders[k] = local[i]
    BY DEF InStep, Matched
<1>3. ASSUME NEW k \in DOMAIN orders PROVE orders[k].intent.id \in sent
  <2>1. WasAt(broker, orders[k])
    BY DEF History, TaskIsHistory
  <2>2. PICK j \in DOMAIN broker.orders : broker.orders[j].intent = orders[k].intent
    BY <2>1 DEF WasAt, Follows
  <2>3. orders[k].intent.id \in Ids
    BY <1>1, FactFacts
  <2> QED
    BY <2>2, <2>3 DEF IndInv, Claims, Sent
<1>4. ASSUME NEW i \in sent
      PROVE  \E k \in DOMAIN orders : orders[k] = local[i] /\ orders[k].intent.id = i
  <2>1. book[i].intent.id = i /\ local[i] = book[i]
    BY TypeParts DEF IndInv, Ledgers, Books
  <2> QED
    BY <1>2, <2>1
<1>5. \A i \in Ids : book[i] # Nothing => book[i].state # "unknown"
  <2> SUFFICES ASSUME NEW i \in Ids, book[i] # Nothing, book[i].state = "unknown" PROVE FALSE
    OBVIOUS
  <2>1. i \in sent /\ local[i] = book[i]
    OBVIOUS
  <2>2. PICK k \in DOMAIN orders : orders[k] = book[i]
    BY <1>4, <2>1
  <2> QED
    BY <2>2 DEF Decision, SeenAtBroker, LocalStates
<1>6. ASSUME NEW w \in [Facts -> Int]
      PROVE  /\ SumFunctionOnSet([k \in DOMAIN orders |-> w[orders[k]]], DOMAIN orders)
                  = SumFunctionOnSet([i \in sent |-> w[local[i]]], sent)
             /\ SumFunctionOnSet([k \in DOMAIN orders |-> w[orders[k]]], DOMAIN orders) \in Int
  <2>1. \A k \in DOMAIN orders : w[orders[k]] \in Int
    BY <1>1, OrdersFinite
  <2>2. SumFunctionOnSet([k \in DOMAIN orders |-> w[orders[k]]], DOMAIN orders) \in Int
    BY <1>1, <2>1, OrdersFinite, SumType
  <2> DEFINE D == DOMAIN orders
             g == [k \in D |-> w[orders[k]]]
             f == [i \in sent |-> w[local[i]]]
             h == [k \in D |-> orders[k].intent.id]
  <2>3. IsFiniteSet(D) /\ \A k \in D : orders[k] \in Facts
    BY <1>1, OrdersFinite
  <2>4. h \in [D -> sent] /\ \A j, k \in D : h[j] = h[k] => j = k
    BY <1>2, <1>3
  <2>5. \A i \in sent : \E k \in D : h[k] = i
    BY <1>4
  <2>6. \A i \in sent : f[i] \in Int
    <3> HIDE DEF sent, local, orders
    <3> QED
      BY <1>4, <2>3
  <2>7. \A k \in D : g[k] = f[h[k]]
    <3> HIDE DEF sent, local, orders
    <3>1. \A k \in D : h[k] \in sent /\ local[h[k]] = orders[k]
      BY <1>3, <1>4, <2>4
    <3> QED
      BY <3>1
  <2> HIDE DEF sent, local, orders, g, f, h, D
  <2>8. SumFunctionOnSet(g, D) = SumFunctionOnSet(f, sent)
    BY ONLY <2>3, <2>4, <2>5, <2>6, <2>7, SumRenamed
  <2> QED
    BY <2>2, <2>8 DEF f, g, D
<1>7. \A i \in sent : local[i] \in Facts
    BY BookTypes
<1>8. \A k \in DOMAIN orders : orders[k] \in Facts
    BY <1>1, OrdersFinite
<1>9. b.start.cash = ledger.baseline.cash
  <2> DEFINE w == [f \in Facts |-> CashChange(f)]
             total == SumFunctionOnSet([k \in DOMAIN orders |-> w[orders[k]]], DOMAIN orders)
             kept == Total(CashChange, local)
  <2>1. w \in [Facts -> Int]
    BY WeightTypes
  <2>2. /\ [k \in DOMAIN orders |-> CashChange(orders[k])] = [k \in DOMAIN orders |-> w[orders[k]]]
        /\ [i \in sent |-> CashChange(local[i])] = [i \in sent |-> w[local[i]]]
    BY <1>7, <1>8
  <2> HIDE DEF w
  <2>3. AccountOf(b).cash = ledger.baseline.cash + kept
    BY DEF InStep, Matched
  <2>4. AccountOf(b).cash = b.start.cash + total
    BY <2>2 DEF AccountOf, Total, SumFunction
  <2>5. kept = total
    <3>1. Total(CashChange, local) = SumFunctionOnSet([i \in sent |-> CashChange(local[i])], sent)
      BY DEF Total, SumFunction
    <3> QED
      BY <1>6, <2>1, <2>2, <3>1
  <2>6. total \in Int
    BY <1>6, <2>1
  <2>7. b.start.cash \in Int /\ ledger.baseline.cash \in Int
    BY <1>1 DEF Accounts
  <2> HIDE DEF total, local, kept, b
  <2> QED
    BY ONLY <2>3, <2>4, <2>5, <2>6, <2>7
<1>10. ASSUME NEW s \in Symbols PROVE b.start.holdings[s] = ledger.baseline.holdings[s]
  <2> DEFINE w == [f \in Facts |-> Moved(f, s)]
             total == SumFunctionOnSet([k \in DOMAIN orders |-> w[orders[k]]], DOMAIN orders)
  <2>1. w \in [Facts -> Int]
    BY WeightTypes
  <2>2. /\ [k \in DOMAIN orders |-> Moved(orders[k], s)] = [k \in DOMAIN orders |-> w[orders[k]]]
        /\ [i \in sent |-> Moved(local[i], s)] = [i \in sent |-> w[local[i]]]
    BY <1>7, <1>8
  <2> HIDE DEF w
  <2>3. AccountOf(b).holdings[s]
          = ledger.baseline.holdings[s] + Total(LAMBDA f : Moved(f, s), local)
    BY DEF InStep, Matched
  <2>4. AccountOf(b).holdings[s] = b.start.holdings[s] + total
    BY <2>2 DEF AccountOf, Total, SumFunction
  <2>5. Total(LAMBDA f : Moved(f, s), local) = total
    <3>1. Total(LAMBDA f : Moved(f, s), local)
            = SumFunctionOnSet([i \in sent |-> Moved(local[i], s)], sent)
      BY DEF Total, SumFunction
    <3> QED
      BY <1>6, <2>1, <2>2, <3>1
  <2>6. total \in Int
    BY <1>6, <2>1
  <2>7. b.start.holdings[s] \in Int /\ ledger.baseline.holdings[s] \in Int
    BY <1>1 DEF Accounts
  <2> HIDE DEF total, local
  <2> QED
    BY <2>3, <2>4, <2>5, <2>6, <2>7
<1>11. b.start = ledger.baseline
    BY <1>1, <1>9, <1>10 DEF Accounts
<1> QED
    BY <1>5, <1>11

LEMMA InitDecision == Init => Decision
BY DEF Init, Idle, Decision, SeenAtBroker, Decided

(* Steps that begin or end a call, and steps of the broker.                *)
LEMMA DecisionKept ==
  ASSUME IndInv, Decision, task'.step \notin {"claim", "transmit"},
         task'.step = "apply" => \/ task.step = "apply" /\ task'.snapshot = task.snapshot
                                 \/ \A k \in DOMAIN task'.snapshot.orders :
                                      task'.snapshot.orders[k].state \notin LocalStates
  PROVE  Decision'
BY DEF Decision, SeenAtBroker, Decided

LEMMA DecisionStep == IndInv /\ IndInv' /\ History /\ Decision /\ [Next]_vars => Decision'
PROOF
<1> SUFFICES ASSUME IndInv, IndInv', History, Decision, [Next]_vars PROVE Decision'
    OBVIOUS
<1>1. ledger \in Ledgers /\ task \in Tasks
    BY TypeParts DEF IndInv
<1>2. CASE Initialize
  <2>1. task'.step = "store"
    BY <1>2 DEF Initialize, Idle
  <2> QED
    BY <2>1, DecisionKept
<1>3. CASE \/ StoreBaseline \/ FinishRecover \/ FinishResume \/ Refuse \/ Record \/ Abort
  <2>1. task'.step = "idle"
    BY <1>3, ReleaseType
    DEF StoreBaseline, FinishRecover, FinishResume, Refuse, Record, Abort
  <2> QED
    BY <2>1, DecisionKept
<1>4. CASE Recover \/ Resume \/ \E intent \in Intents : Submit(intent)
  <2>1. task'.step = "apply" /\ task'.snapshot = broker
    BY <1>4 DEF Recover, Resume, Submit, Look, Idle
  <2>2. \A k \in DOMAIN broker.orders : broker.orders[k].state \notin LocalStates
    BY DEF History, OrdersGoOn, GoesOn
  <2> QED
    BY <2>1, <2>2, DecisionKept
<1>5. CASE ApplyNext
  <2>1. task.step = "apply" /\ task'.step = "apply" /\ task'.snapshot = task.snapshot
    BY <1>1, <1>5 DEF ApplyNext, Tasks
  <2> QED
    BY <2>1, DecisionKept
<1>6. CASE Accept
  <2>1. /\ task'.step = "claim" /\ task'.intent = task.intent /\ task'.snapshot = task.snapshot
        /\ task.intent \in Intents /\ ledger' = Save(ledger, task.intent)
        /\ task.step = "apply" /\ ledger.baseline # Nothing /\ InStep /\ ~ledger.halted
    BY <1>1, <1>6 DEF Accept, Reconciled, Tasks
  <2>2. /\ task.snapshot.start = ledger.baseline
        /\ \A i \in Ids : ledger.book[i] # Nothing => ledger.book[i].state # "unknown"
    BY <2>1, MatchedStart
  <2>3. /\ ledger'.baseline = ledger.baseline
        /\ \A i \in Ids \ {task.intent.id} : ledger'.book[i] = ledger.book[i]
    BY <1>1, <2>1, SaveFacts
  <2>4. ledger'.halted = ledger.halted
    BY <1>1, <2>1 DEF Save, Ledgers
  <2> QED
    BY <2>1, <2>2, <2>3, <2>4 DEF Decision, SeenAtBroker, Decided, NoOtherUnknown
<1>7. CASE Claim
  <2>1. /\ task'.step = "transmit" /\ task'.intent = task.intent /\ task'.snapshot = task.snapshot
        /\ task.step = "claim" /\ task.intent \in Intents /\ task.intent.id \in Ids
        /\ ledger.book[task.intent.id] # Nothing /\ ledger' = Claimed(ledger, task.intent.id)
    BY <1>1, <1>7, IntentFacts DEF Claim, Holds, Tasks, IndInv, Claims
  <2>2. /\ ledger'.baseline = ledger.baseline
        /\ \A i \in Ids \ {task.intent.id} : ledger'.book[i] = ledger.book[i]
    BY <1>1, <2>1, ClaimedFacts
  <2>3. ledger'.halted = ledger.halted
    BY <1>1, <2>1 DEF Claimed, Ledgers
  <2> QED
    BY <2>1, <2>2, <2>3 DEF Decision, SeenAtBroker, Decided, NoOtherUnknown
<1>8. CASE Transmit
  <2>1. PICK f : Answered(f)
    BY <1>8 DEF Transmit
  <2>2. task'.step \in {"record", "idle"}
    BY <1>1, <2>1, ReleaseType DEF Answered, Tasks
  <2> QED
    BY <2>2, DecisionKept
<1>9. CASE \E id \in Ids : Cancel(id)
  <2>1. PICK id \in Ids : Cancel(id)
    BY <1>9
  <2>2. task'.step \in {"record", "idle"}
    <3>1. PICK f : \/ task' = [Idle EXCEPT !.op = "cancel", !.step = "record", !.answer = f]
                   \/ UNCHANGED task
      BY <2>1, Cancelled
    <3>2. task' = [Idle EXCEPT !.op = "cancel", !.step = "record", !.answer = f] => task'.step = "record"
      BY DEF Idle
    <3>3. task.step = "idle"
      BY <2>1 DEF Cancel, Idle
    <3> QED
      BY <3>1, <3>2, <3>3
  <2> QED
    BY <2>2, DecisionKept
<1>10. CASE Stop
  <2>1. task'.step = "idle"
    BY <1>10 DEF Stop, Idle
  <2> QED
    BY <2>1, DecisionKept
<1>11. CASE AnyFill \/ (\E change \in ManualChanges : ManualChange(change)) \/ UNCHANGED vars
  <2>1. UNCHANGED <<ledger, task>>
    BY <1>11 DEF AnyFill, Fill, ManualChange, vars
  <2> QED
    BY <2>1 DEF Decision, SeenAtBroker, Decided, NoOtherUnknown
<1> QED
    BY <1>2, <1>3, <1>4, <1>5, <1>6, <1>7, <1>8, <1>9, <1>10, <1>11 DEF Next

(* Only a transmission makes the broker's list of orders longer.           *)
LEMMA OnlyTransmitSends == IndInv /\ [Next]_vars /\ Sends => Transmit
PROOF
<1> SUFFICES ASSUME IndInv, [Next]_vars, Sends, ~Transmit PROVE FALSE
    OBVIOUS
<1>1. broker \in Brokers /\ broker.orders \in Seq(Facts)
    BY TypeParts DEF IndInv, Brokers
<1>2. ASSUME NEW k \in DOMAIN broker.orders, NEW f, broker' = [broker EXCEPT !.orders[k] = f]
      PROVE  FALSE
  <2>1. broker'.orders = [broker.orders EXCEPT ![k] = f]
    BY <1>1, <1>2 DEF Brokers
  <2>2. Len(broker'.orders) = Len(broker.orders)
    BY <1>1, <2>1
  <2> QED
    BY <1>1, <2>2 DEF Sends
<1>3. broker'.orders # broker.orders
    BY <1>1 DEF Sends
<1>4. CASE \E id \in Ids : Cancel(id)
    BY <1>2, <1>4, Cancelled
<1>5. CASE AnyFill
    BY <1>1, <1>2, <1>5, Filled
<1>6. CASE \E change \in ManualChanges : ManualChange(change)
    BY <1>1, <1>3, <1>6 DEF ManualChange, Brokers
<1> QED
    BY <1>3, <1>4, <1>5, <1>6
    DEF Next, vars, Initialize, StoreBaseline, Recover, Resume, Submit, Look, ApplyNext,
        FinishRecover, FinishResume, Refuse, Accept, Claim, Record, Stop, Abort

(* An order leaves only on a decision that still stands: the account it    *)
(* was decided on was the baseline and what the ledger recorded, nothing   *)
(* halted the ledger since, and no other order is in the dark              *)
(* (submit() of the service).                                              *)
THEOREM SendsOnDecision == Spec => SendsOnlyInStep
PROOF
<1>1. IndInv /\ Decision /\ [Next]_vars =>
        [Sends =>
           /\ ~ledger.halted
           /\ task.snapshot.start = ledger.baseline
           /\ \A i \in Ids \ {task.intent.id} :
                ledger.book[i] # Nothing => ledger.book[i].state # "unknown"]_vars
  <2> SUFFICES ASSUME IndInv, Decision, [Next]_vars, Sends
               PROVE  ~ledger.halted /\ task.snapshot.start = ledger.baseline /\ NoOtherUnknown
    BY DEF NoOtherUnknown
  <2>1. task.step = "transmit"
    BY OnlyTransmitSends DEF Transmit, Holds
  <2> QED
    BY <2>1 DEF Decision, Decided
<1>2. IndInv /\ IndInv' /\ History /\ Decision /\ [Next]_vars => Decision'
    BY DecisionStep
<1> QED
    BY <1>1, <1>2, InitDecision, HistoryHolds, PTL DEF Spec, SendsOnlyInStep
=============================================================================
