------------------------ MODULE AssistantTurnsProofs ------------------------
(***************************************************************************)
(* The runner of assistant turns for any turns and sessions, any number of *)
(* events and of faults.                                                   *)
(***************************************************************************)
EXTENDS AssistantTurnsProperties, TLAPS

Unanswered == {"accepted", "stranded", "reading", "deciding", "timing", "expiring",
               "expired", "crashed", "telling", "closing"}
Consuming == {"accepted", "reading", "deciding", "timing", "expiring", "expired"}
Active == Unanswered \cup {"settling", "saving", "freeing"}
Silent == {"saving", "freeing", "ended", "dead"}

(* A turn has an entry from its acceptance until its thread is done with   *)
(* it, and it is the only one of its session.                              *)
Slots ==
  /\ \A t \in Turns : occupied[t] <=> thread[t].stage \in Active
  /\ \A t, u \in Turns : occupied[t] /\ occupied[u] /\ SessionOf[t] = SessionOf[u] => t = u

(* The row lags behind the decision and never says anything else; when the *)
(* slot is to be freed it lags only if a write failed.                     *)
RowAgrees(t) ==
  /\ thread[t].stage = "none" => row[t] = "none"
  /\ ~occupied[t] => decided[t] = "none"
  /\ occupied[t] => row[t] \in {"running", decided[t]}
  /\ thread[t].stage \in {"saving", "freeing"} => decided[t] # "none"
  /\ thread[t].stage = "freeing" => row[t] = decided[t] \/ faults > 0
  /\ "completed" \in {row[t], decided[t]} => thread[t].stage \in Silent
RowsAgree == \A t \in Turns : RowAgrees(t)

(* The question of the turn that runs is the last message until it is      *)
(* answered, and the events behind its accepted_sequence are its own.      *)
Asked ==
  /\ \A s \in Sessions : \A i \in DOMAIN messages[s] : thread[messages[s][i].turn].stage # "none"
  /\ \A t \in Turns : thread[t].stage \in Unanswered =>
       LET said == messages[SessionOf[t]]
       IN  Len(said) > 0 /\ said[Len(said)] = [turn |-> t, role |-> "user"]

OwnTail ==
  /\ \A s \in Sessions : \A i \in DOMAIN events[s] : thread[events[s][i].turn].stage # "none"
  /\ \A t \in Turns : occupied[t] =>
       /\ accepted[t] <= Len(Events(t))
       /\ \A j \in accepted[t] + 1 .. Len(Events(t)) : Events(t)[j].turn = t

(* A reader that was told the turn is over, by the registry or by          *)
(* "completed", is right.                                                  *)
ReaderKnows ==
  LET t == reader.turn
  IN  /\ reader.stage # "idle" => thread[t].stage # "none"
      /\ reader.stage = "closed" => reader.settled
      /\ reader.stage \in {"sending", "closed"} /\ reader.settled => ~occupied[t]
      /\ reader.status # "none" => reader.stage \in {"live", "events", "messages", "done"}
      /\ reader.status = "completed" => thread[t].stage \in Silent
      /\ reader.status = "completed" /\ reader.stage \in {"messages", "done"} =>
           \A i \in DOMAIN Events(t) : i > reader.seen => Events(t)[i].turn # t

-----------------------------------------------------------------------------
(* What a step does to the threads: one of them moves on.                  *)
Moves(t, stages) ==
  /\ thread' \in [Turns -> Threads]
  /\ \A u \in Turns \ {t} : thread'[u] = thread[u]
  /\ thread'[t].stage \in stages

Decides(t) == decided' \in {decided, Decided(t, "failed"), Decided(t, "cancelled")}

MayFail == \/ faults' = faults
           \/ faults' = faults + 1 /\ faults' \in 0..MaxFaults

(* Whoever gives up on the stream, or crashes, does so with the end        *)
(* decided.                                                                *)
Sealed(t) == thread[t].late \/ thread[t].stage \in {"telling", "closing"}

(* What a thread does until the answer is saved: it may add an event and   *)
(* decide; a text is remembered for the answer.                            *)
Works(t) ==
  /\ thread[t].stage \in Unanswered /\ Moves(t, Unanswered)
  /\ Decides(t) /\ signal' \in [Turns -> BOOLEAN] /\ MayFail
  /\ \/ UNCHANGED events
     \/ \E kind \in EventKinds :
          /\ events' = [events EXCEPT ![SessionOf[t]] = Append(@, [turn |-> t, kind |-> kind])]
          /\ kind = "text" => thread'[t].spoken
  /\ thread'[t].stage # "accepted"
  /\ thread'[t].stage \in Consuming =>
       thread[t].stage \in Consuming /\ (thread[t].spoken => thread'[t].spoken)
  /\ Sealed(t)' => Sealed(t) \/ (occupied[t] => decided'[t] # "none")
  /\ UNCHANGED <<occupied, row, accepted, messages, reader>>

(* The step that leaves the stream with the answer saved or, at the close, *)
(* lost.                                                                   *)
Concludes(t) == Close(t) \/ (StreamEnds(t) /\ SavesAnswer(t))
-----------------------------------------------------------------------------
LEMMA SessionType == ASSUME NEW t \in Turns PROVE SessionOf[t] \in Sessions /\ t # NoTurn
BY TurnsAssumption

LEMMA ThreadType == TypeOK => thread \in [Turns -> Threads]
BY DEF TypeOK

LEMMA GoesToMoves ==
  ASSUME TypeOK, NEW t \in Turns, NEW stage \in Stages, GoesTo(t, stage)
  PROVE  /\ Moves(t, {stage})
         /\ thread'[t].spoken = thread[t].spoken /\ thread'[t].late = thread[t].late
BY ThreadType DEF GoesTo, Moves, Threads

LEMMA LeavesMoves ==
  ASSUME TypeOK, NEW t \in Turns, NEW stage \in Stages, NEW spoken \in BOOLEAN,
         Leaves(t, stage, spoken)
  PROVE  Moves(t, {stage}) /\ thread'[t].late = FALSE
<1>1. [NewThread EXCEPT !.stage = stage, !.spoken = spoken] \in Threads
  BY DEF NewThread, Threads
<1>2. /\ [NewThread EXCEPT !.stage = stage, !.spoken = spoken].stage = stage
      /\ [NewThread EXCEPT !.stage = stage, !.spoken = spoken].late = FALSE
  BY DEF NewThread
<1> QED
  BY <1>1, <1>2, ThreadType DEF Leaves, Moves

LEMMA AppendEventShape ==
  ASSUME NEW t, NEW kind \in Kinds, AppendEvent(t, kind)
  PROVE  \E k \in EventKinds :
           /\ events' = [events EXCEPT ![SessionOf[t]] = Append(@, [turn |-> t, kind |-> k])]
           /\ k = "text" <=> kind = "text"
<1>1. EventKind(kind) \in EventKinds /\ (EventKind(kind) = "text" <=> kind = "text")
  BY DEF EventKind, EventKinds, Kinds, Failures
<1> QED
  BY <1>1 DEF AppendEvent

LEMMA ConsumeWorks ==
  ASSUME TypeOK, NEW t \in Turns, At(t, "reading"), NEW kind \in Kinds, NEW changed \in Threads,
         thread[t].spoken \/ kind = "text" => changed.spoken, changed.late = thread[t].late,
         Consume(t, kind, changed)
  PROVE  Works(t)
<1> DEFINE next == IF kind \in Failures THEN "deciding" ELSE "timing"
           moved == [changed EXCEPT !.stage = next, !.hand = kind]
<1>1. /\ moved \in Threads /\ moved.stage \in {"deciding", "timing"}
      /\ moved.spoken = changed.spoken /\ moved.late = changed.late
  BY DEF Threads, Stages
<1>2. /\ Moves(t, Unanswered) /\ thread'[t].stage \in {"deciding", "timing"}
      /\ thread'[t].spoken = changed.spoken /\ thread'[t].late = thread[t].late
  BY <1>1, ThreadType DEF Consume, Moves, Unanswered
<1>3. \E k \in EventKinds :
        /\ events' = [events EXCEPT ![SessionOf[t]] = Append(@, [turn |-> t, kind |-> k])]
        /\ k = "text" => thread'[t].spoken
  <2>1. PICK k \in EventKinds :
          /\ events' = [events EXCEPT ![SessionOf[t]] = Append(@, [turn |-> t, kind |-> k])]
          /\ k = "text" <=> kind = "text"
    BY AppendEventShape DEF Consume
  <2> QED
    BY <1>2, <2>1
<1>4. /\ thread[t].stage \in Unanswered /\ Decides(t) /\ MayFail
      /\ thread[t].stage \in Consuming
      /\ signal' \in [Turns -> BOOLEAN]
      /\ UNCHANGED <<occupied, row, accepted, messages, reader>>
  BY DEF Consume, At, Unanswered, Consuming, Decides, MayFail, NoFault, registry, TypeOK
<1>5. Sealed(t)' => Sealed(t)
  BY <1>2 DEF Sealed
<1> QED
  BY <1>2, <1>3, <1>4, <1>5 DEF Works

LEMMA ResumedMoves ==
  ASSUME TypeOK, NEW t \in Turns, At(t, "timing") \/ At(t, "expired"), signal' \in [Turns -> BOOLEAN],
         Resumed(t)
  PROVE  /\ Moves(t, {"reading"}) /\ thread'[t].spoken = thread[t].spoken
         /\ thread'[t].late => thread[t].late \/ At(t, "expired")
<1> DEFINE reasons == IF thread[t].hand = "tool" \/ thread[t].stop # "none" THEN {thread[t].stop}
                      ELSE {"error", IF signal'[t] THEN "cancelled" ELSE "none"}
<1>0. reasons \subseteq {"none", "ended", "told", "error", "cancelled"}
  BY ThreadType DEF Threads
<1>1. PICK reason \in reasons :
        thread' = [thread EXCEPT ![t].stage = "reading", ![t].stop = reason, ![t].hand = "none",
                                 ![t].late = @ \/ At(t, "expired")]
  BY DEF Resumed
<1> HIDE DEF reasons
<1> DEFINE moved == [thread[t] EXCEPT !.stage = "reading", !.stop = reason, !.hand = "none",
                                      !.late = @ \/ At(t, "expired")]
<1>2. (thread[t].late \/ At(t, "expired")) \in BOOLEAN
  BY ThreadType DEF Threads, At
<1>3. /\ moved \in Threads /\ moved.stage = "reading" /\ moved.spoken = thread[t].spoken
      /\ moved.late = (thread[t].late \/ At(t, "expired"))
  <2>1. thread[t] \in Threads /\ reason \in {"none", "ended", "told", "error", "cancelled"}
    BY <1>0, ThreadType
  <2>2. ASSUME NEW late \in BOOLEAN
        PROVE  /\ [thread[t] EXCEPT !.stage = "reading", !.stop = reason, !.hand = "none",
                                    !.late = late] \in Threads
               /\ LET new == [thread[t] EXCEPT !.stage = "reading", !.stop = reason,
                                               !.hand = "none", !.late = late]
                  IN  new.stage = "reading" /\ new.spoken = thread[t].spoken /\ new.late = late
    BY <2>1 DEF Threads, Stages
  <2> QED
    BY <1>2, <2>2
<1>4. thread' = [thread EXCEPT ![t] = moved]
  BY <1>1, ThreadType DEF Threads
<1> QED
  BY <1>3, <1>4, ThreadType DEF Moves

LEMMA FaultMayFail == TypeOK /\ (Fault \/ NoFault) => MayFail
BY BoundsAssumption DEF TypeOK, Fault, NoFault, MayFail

(* Everything a thread does before the answer is saved is of this kind.    *)
Early(t) ==
  \/ ThreadStarts(t) \/ ThreadFails(t)
  \/ ProviderEvent(t) \/ ToolEvent(t) \/ ProviderEnds(t) \/ StopEvent(t)
  \/ StreamEnds(t) /\ LosesAnswer(t, "crashed")
  \/ Decide(t) \/ InTime(t) \/ TimeOver(t)
  \/ Expire(t) \/ ExpireDecides(t) \/ AppendFails(t) \/ CrashDecides(t) \/ TellCrash(t)

LEMMA EarlyWorks == ASSUME TypeOK, NEW t \in Turns, Early(t) PROVE Works(t)
<1> USE DEF At, Sealed, Consuming
<1> DEFINE Same == UNCHANGED <<occupied, row, accepted, messages, reader>>
<1>0. signal \in [Turns -> BOOLEAN] /\ thread[t] \in Threads
  BY ThreadType DEF TypeOK
<1>1. CASE ThreadStarts(t) \/ ThreadFails(t)
  <2>1. /\ Moves(t, {"reading"}) \/ Moves(t, {"stranded"})
        /\ thread'[t].spoken = thread[t].spoken /\ thread'[t].late = thread[t].late
    BY <1>1, GoesToMoves DEF ThreadStarts, ThreadFails, Stages
  <2> QED
    BY <1>0, <1>1, <2>1, FaultMayFail
       DEF ThreadStarts, ThreadFails, Works, Moves, Unanswered, Decides, registry, saved
<1>2. CASE ProviderEvent(t)
  <2>1. PICK kind \in {"text", "error", "cancelled"} :
          Consume(t, kind, [thread[t] EXCEPT !.spoken = @ \/ kind = "text",
                                             !.reported = @ \cup ({kind} \cap Failures)])
    BY <1>2 DEF ProviderEvent
  <2>2. (thread[t].spoken \/ kind = "text") \in BOOLEAN
        /\ thread[t].reported \cup ({kind} \cap Failures) \in SUBSET Failures
    BY <1>0 DEF Threads
  <2> DEFINE changed == [thread[t] EXCEPT !.spoken = @ \/ kind = "text",
                                          !.reported = @ \cup ({kind} \cap Failures)]
  <2>3. /\ changed \in Threads /\ changed.late = thread[t].late
        /\ changed.spoken = (thread[t].spoken \/ kind = "text")
    BY <1>0, <2>2 DEF Threads
  <2> HIDE DEF changed
  <2>4. Consume(t, kind, changed)
    BY <2>1 DEF changed
  <2> QED
    BY <1>2, <2>3, <2>4, ConsumeWorks DEF ProviderEvent, Kinds, Failures
<1>3. CASE ToolEvent(t)
  BY <1>0, <1>3, ConsumeWorks DEF ToolEvent, Kinds
<1>4. CASE ProviderEnds(t)
  <2>1. PICK reason \in {"error", "cancelled", "ended"} :
          thread' = [thread EXCEPT ![t].stop = reason]
    BY <1>4 DEF ProviderEnds
  <2>2. /\ Moves(t, {"reading"}) /\ thread'[t].spoken = thread[t].spoken
        /\ thread'[t].late = thread[t].late
    BY <1>4, <2>1, ThreadType DEF ProviderEnds, Moves, Threads
  <2> QED
    BY <1>0, <1>4, <2>2, FaultMayFail DEF ProviderEnds, Works, Moves, Unanswered, Decides, registry, saved
<1>5. CASE StopEvent(t)
  <2> DEFINE changed == [thread[t] EXCEPT !.stop = "told"]
  <2>1. /\ thread[t].stop \in Kinds \ {"text"} /\ changed \in Threads
        /\ changed.spoken = thread[t].spoken /\ changed.late = thread[t].late
    BY <1>0, <1>5 DEF StopEvent, Threads, Kinds, Failures
  <2> QED
    BY <1>5, <2>1, ConsumeWorks DEF StopEvent
<1>6. CASE StreamEnds(t) /\ LosesAnswer(t, "crashed")
  <2>1. Moves(t, {"crashed"}) /\ ~thread'[t].late
    BY <1>6, LeavesMoves DEF LosesAnswer, Stages
  <2> QED
    BY <1>0, <1>6, <2>1, FaultMayFail
       DEF StreamEnds, LosesAnswer, Works, Moves, Unanswered, Decides, registry
<1>7. CASE Decide(t)
  <2>1. /\ Moves(t, {"timing"})
        /\ thread'[t].spoken = thread[t].spoken /\ thread'[t].late = thread[t].late
    BY <1>7, GoesToMoves DEF Decide, Stages
  <2> QED
    BY <1>0, <1>7, <2>1, FaultMayFail DEF Decide, StatusFor, Works, Moves, Unanswered, Decides, saved
<1>8. CASE InTime(t)
  <2>1. /\ signal' = signal /\ Moves(t, {"reading"})
        /\ thread'[t].spoken = thread[t].spoken /\ (thread'[t].late => thread[t].late)
    BY <1>0, <1>8, ResumedMoves DEF InTime
  <2> QED
    BY <1>0, <1>8, <2>1, FaultMayFail DEF InTime, Works, Moves, Unanswered, Decides, saved
<1>9. CASE TimeOver(t)
  <2>1. \/ thread[t].late /\ Moves(t, {"closing"})
        \/ /\ Moves(t, {"expiring"})
           /\ thread'[t].spoken = thread[t].spoken /\ thread'[t].late = thread[t].late
    BY <1>0, <1>9, LeavesMoves, GoesToMoves DEF TimeOver, Stages, Threads
  <2> QED
    BY <1>0, <1>9, <2>1, FaultMayFail DEF TimeOver, Works, Moves, Unanswered, Decides, registry, saved
<1>10. CASE Expire(t)
  <2>1. /\ Moves(t, {"expired"})
        /\ thread'[t].spoken = thread[t].spoken /\ thread'[t].late = thread[t].late
    BY <1>10, GoesToMoves DEF Expire, Stages
  <2>2. \E k \in EventKinds \ {"text"} :
          events' = [events EXCEPT ![SessionOf[t]] = Append(@, [turn |-> t, kind |-> k])]
    <3>1. AppendEvent(t, "timeout")
      BY <1>10 DEF Expire
    <3>2. EventKind("timeout") = "failure"
      BY DEF EventKind, Failures
    <3> QED
      BY <3>1, <3>2 DEF AppendEvent, EventKinds
  <2>3. /\ thread[t].stage = "expiring" /\ thread'[t].stage = "expired"
        /\ Moves(t, Unanswered)
    BY <1>10, <2>1 DEF Expire, At, Moves, Unanswered
  <2>4. /\ signal' = signal /\ Decides(t) /\ MayFail
        /\ UNCHANGED <<occupied, row, accepted, messages, reader>>
    BY <1>10, FaultMayFail DEF Expire, Decides, registry
  <2>5. \E k \in EventKinds :
          /\ events' = [events EXCEPT ![SessionOf[t]] = Append(@, [turn |-> t, kind |-> k])]
          /\ k = "text" => thread'[t].spoken
    BY <2>2
  <2> QED
    BY <1>0, <2>1, <2>3, <2>4, <2>5 DEF Works, Unanswered, Consuming, Sealed
<1>11. CASE ExpireDecides(t)
  <2>1. signal' \in [Turns -> BOOLEAN]
    BY <1>0, <1>11 DEF ExpireDecides
  <2>2. Moves(t, {"reading"}) /\ thread'[t].spoken = thread[t].spoken
    BY <1>11, <2>1, ResumedMoves DEF ExpireDecides
  <2>3. occupied[t] => decided'[t] # "none"
    BY <1>11 DEF ExpireDecides, Decided, TypeOK
  <2> QED
    BY <1>11, <2>1, <2>2, <2>3, FaultMayFail DEF ExpireDecides, Works, Moves, Unanswered, Decides, saved
<1>12. CASE AppendFails(t)
  <2>1. PICK spoken \in BOOLEAN : Leaves(t, "crashed", spoken)
    BY <1>0, <1>12 DEF AppendFails, Threads
  <2>2. Moves(t, {"crashed"}) /\ ~thread'[t].late
    BY <2>1, LeavesMoves DEF Stages
  <2> QED
    BY <1>0, <1>12, <2>2, FaultMayFail DEF AppendFails, Works, Moves, Unanswered, Decides, registry, saved
<1>13. CASE CrashDecides(t)
  <2>1. /\ Moves(t, {"telling"})
        /\ thread'[t].spoken = thread[t].spoken /\ thread'[t].late = thread[t].late
    BY <1>13, GoesToMoves DEF CrashDecides, Stages
  <2>2. occupied[t] => decided'[t] # "none"
    BY <1>13 DEF CrashDecides, Decided, TypeOK
  <2> QED
    BY <1>0, <1>13, <2>1, <2>2, FaultMayFail DEF CrashDecides, Works, Moves, Unanswered, Decides, saved
<1>14. CASE TellCrash(t)
  <2>1. /\ Moves(t, {"closing"})
        /\ thread'[t].spoken = thread[t].spoken /\ thread'[t].late = thread[t].late
    BY <1>14, GoesToMoves DEF TellCrash, Stages
  <2>2. \/ UNCHANGED events
        \/ \E k \in EventKinds \ {"text"} :
             events' = [events EXCEPT ![SessionOf[t]] = Append(@, [turn |-> t, kind |-> k])]
    <3>1. CASE AppendEvent(t, "internal")
      BY <3>1, AppendEventShape DEF Kinds, Failures
    <3> QED
      BY <1>14, <3>1 DEF TellCrash
  <2> QED
    BY <1>0, <1>14, <2>1, <2>2, FaultMayFail
       DEF TellCrash, Works, Moves, Unanswered, Decides, registry
<1> QED
  BY <1>1, <1>2, <1>3, <1>4, <1>5, <1>6, <1>7, <1>8, <1>9, <1>10, <1>11, <1>12, <1>13, <1>14
     DEF Early
-----------------------------------------------------------------------------
LEMMA InitType == Init => TypeOK
<1> SUFFICES ASSUME Init PROVE TypeOK
  OBVIOUS
<1>1. NewThread \in Threads
  BY DEF NewThread, Threads, Stages, Kinds
<1>2. NoReader \in Readers /\ NoReader.stage = "idle"
  BY DEF NoReader, Readers, Statuses
<1> QED
  BY <1>1, <1>2, BoundsAssumption DEF Init, TypeOK, Statuses

LEMMA MessageType ==
  ASSUME TypeOK, NEW t \in Turns, NEW role \in {"user", "assistant"}, AppendMessage(t, role)
  PROVE  messages' \in [Sessions -> Seq(ChatMessages)]
<1>1. messages \in [Sessions -> Seq(ChatMessages)] /\ SessionOf[t] \in Sessions
  BY SessionType DEF TypeOK
<1>2. [turn |-> t, role |-> role] \in ChatMessages
  BY DEF ChatMessages
<1>3. Append(messages[SessionOf[t]], [turn |-> t, role |-> role]) \in Seq(ChatMessages)
  BY <1>1, <1>2
<1> QED
  BY <1>1, <1>3 DEF AppendMessage

LEMMA EventType ==
  ASSUME TypeOK, NEW t \in Turns, NEW kind \in EventKinds,
         events' = [events EXCEPT ![SessionOf[t]] = Append(@, [turn |-> t, kind |-> kind])]
  PROVE  events' \in [Sessions -> Seq(ChatEvents)]
<1>1. events \in [Sessions -> Seq(ChatEvents)] /\ SessionOf[t] \in Sessions
  BY SessionType DEF TypeOK
<1>2. [turn |-> t, kind |-> kind] \in ChatEvents
  BY DEF ChatEvents
<1>3. Append(events[SessionOf[t]], [turn |-> t, kind |-> kind]) \in Seq(ChatEvents)
  BY <1>1, <1>2
<1> QED
  BY <1>1, <1>3

LEMMA DecidedType ==
  ASSUME TypeOK, NEW t \in Turns, NEW status \in Ends
  PROVE  Decided(t, status) \in [Turns -> {"none"} \cup Ends]
BY DEF Decided, TypeOK

(* The steps of the runner other than Works, and what they do to threads.  *)
LEMMA LateMoves ==
  ASSUME TypeOK, NEW t \in Turns
  PROVE  /\ Start(t) => Moves(t, {"accepted"})
         /\ StartFails(t) => Moves(t, {"refused"})
         /\ Concludes(t) => Moves(t, {"settling"})
         /\ Settle(t) => Moves(t, {"saving"})
         /\ Save(t) => Moves(t, {"freeing"})
         /\ FreeSlot(t) => Moves(t, {"ended"})
<1>1. Start(t) => Moves(t, {"accepted"})
  BY GoesToMoves DEF Start, Stages
<1>2. StartFails(t) => Moves(t, {"refused"})
  BY GoesToMoves DEF StartFails, Stages
<1>3. Concludes(t) => Moves(t, {"settling"})
  BY LeavesMoves DEF Concludes, Close, StreamEnds, SavesAnswer, LosesAnswer, Stages
<1>4. Settle(t) => Moves(t, {"saving"})
  BY GoesToMoves DEF Settle, Stages
<1>5. Save(t) => Moves(t, {"freeing"})
  BY GoesToMoves DEF Save, Stages
<1>6. FreeSlot(t) => Moves(t, {"ended"})
  <2>1. [NewThread EXCEPT !.stage = "ended"] \in Threads
    BY DEF NewThread, Threads, Stages
  <2>2. [NewThread EXCEPT !.stage = "ended"].stage = "ended"
    BY DEF NewThread
  <2> QED
    BY <2>1, <2>2, ThreadType DEF FreeSlot, Moves
<1> QED
  BY <1>1, <1>2, <1>3, <1>4, <1>5, <1>6

LEMMA ConcludesShape ==
  ASSUME NEW t \in Turns, Concludes(t)
  PROVE  /\ thread[t].stage \in {"reading", "closing"}
         /\ UNCHANGED messages \/ AppendMessage(t, "assistant")
         /\ thread[t].stage = "reading" => ~thread[t].spoken \/ AppendMessage(t, "assistant")
         /\ Fault \/ NoFault
         /\ UNCHANGED <<registry, row, accepted, events, reader>>
BY DEF Concludes, Close, StreamEnds, SavesAnswer, LosesAnswer, At

LEMMA TypeStep == TypeOK /\ RowsAgree /\ [Next]_vars => TypeOK'
<1> SUFFICES ASSUME TypeOK, RowsAgree, [Next]_vars PROVE TypeOK'
  OBVIOUS
<1> USE FaultMayFail DEF TypeOK
<1>1. ASSUME NEW t \in Turns, Works(t) PROVE TypeOK'
  <2>1. decided' \in [Turns -> {"none"} \cup Ends]
    BY <1>1, DecidedType DEF Works, Decides, Ends
  <2>2. events' \in [Sessions -> Seq(ChatEvents)]
    BY <1>1, EventType DEF Works
  <2> QED
    BY <1>1, <2>1, <2>2 DEF Works, Moves, MayFail
<1>2. ASSUME NEW t \in Turns, Start(t) PROVE TypeOK'
  <2>1. messages' \in [Sessions -> Seq(ChatMessages)]
    BY <1>2, MessageType DEF Start
  <2>2. Len(Events(t)) \in Nat
    BY SessionType DEF Events
  <2>3. row' \in [Turns -> Statuses] /\ row'[t] # "none" /\ \A u \in Turns \ {t} : row'[u] = row[u]
    BY <1>2 DEF Start, Statuses
  <2> QED
    BY <1>2, <2>1, <2>2, <2>3, LateMoves DEF Start, Moves, NoFault
<1>3. ASSUME NEW t \in Turns, StartFails(t) PROVE TypeOK'
  <2>1. messages' \in [Sessions -> Seq(ChatMessages)]
    BY <1>3, MessageType DEF StartFails
  <2> QED
    BY <1>3, <2>1, LateMoves DEF StartFails, Moves, MayFail, registry
<1>4. ASSUME NEW t \in Turns, Cancel(t) PROVE TypeOK'
  <2>1. decided' \in [Turns -> {"none"} \cup Ends]
    BY <1>4, DecidedType DEF Cancel, Ends
  <2>2. row' \in [Turns -> Statuses] /\ \A u \in Turns : row[u] # "none" => row'[u] # "none"
    BY <1>4 DEF Cancel, Updated, Ends, Statuses
  <2> QED
    BY <1>4, <2>1, <2>2 DEF Cancel, MayFail
<1>5. ASSUME NEW t \in Turns, Concludes(t) PROVE TypeOK'
  <2>1. messages' \in [Sessions -> Seq(ChatMessages)]
    BY <1>5, ConcludesShape, MessageType DEF TypeOK
  <2> QED
    BY <1>5, <2>1, ConcludesShape, LateMoves DEF Moves, MayFail, registry
<1>6. ASSUME NEW t \in Turns, Settle(t) PROVE TypeOK'
  BY <1>6, DecidedType, LateMoves DEF Settle, Moves, NoFault, saved, Ends
<1>7. ASSUME NEW t \in Turns, Save(t) PROVE TypeOK'
  <2>1. row' \in [Turns -> Statuses] /\ \A u \in Turns \ {t} : row'[u] = row[u]
    BY <1>7 DEF Save, Updated, Ends, Statuses
  <2>2. row[t] # "none" => row'[t] # "none"
    BY <1>7 DEF Save, Updated, RowsAgree, RowAgrees, At
  <2> QED
    BY <1>7, <2>1, <2>2, LateMoves DEF Save, Moves, MayFail, registry
<1>8. ASSUME NEW t \in Turns, FreeSlot(t) PROVE TypeOK'
  BY <1>8, LateMoves DEF FreeSlot, Moves, NoFault, saved
<1>9. ASSUME Read PROVE TypeOK'
  <2>1. ASSUME NEW t \in Turns, OpenStream(t) \/ ReadRows(t)
        PROVE  reader' \in Readers /\ reader'.turn # NoTurn
    <3>1. NoReader \in Readers /\ accepted[t] \in Nat /\ row[t] \in Statuses /\ t # NoTurn
      BY SessionType DEF NoReader, Readers, Statuses
    <3>2. [NoReader EXCEPT !.stage = "asking", !.turn = t, !.seen = accepted[t]] \in Readers
      BY <3>1 DEF NoReader, Readers
    <3>3. [NoReader EXCEPT !.stage = "live", !.turn = t, !.status = row[t]] \in Readers
      BY <3>1 DEF NoReader, Readers
    <3> QED
      BY <2>1, <3>1, <3>2, <3>3 DEF OpenStream, ReadRows, NoReader
  <2>2. CASE AskSettled \/ ReadLive
    <3>1. reader.turn \in Turns
      BY <2>2 DEF AskSettled, ReadLive, Readers
    <3>2. Settled(reader.turn) \in BOOLEAN /\ Visible(reader.turn) \in Statuses
      BY <3>1 DEF Settled, Visible, Statuses
    <3>3. /\ reader' \in Readers /\ reader'.turn = reader.turn
          /\ UNCHANGED <<registry, thread, saved, faults>>
      BY <2>2, <3>1, <3>2 DEF AskSettled, ReadLive, Readers, Reads
    <3> QED
      BY <3>1, <3>3, TurnsAssumption DEF registry, saved
  <2>3. CASE SendEvents \/ ReadEvents \/ ReadMessages
    <3>1. reader.turn \in Turns
      BY <2>3 DEF SendEvents, ReadEvents, ReadMessages, Readers
    <3>2. Len(Events(reader.turn)) \in Nat /\ Len(messages[SessionOf[reader.turn]]) \in Nat
      BY <3>1, SessionType DEF Events
    <3>3. /\ reader' \in Readers /\ reader'.turn = reader.turn
          /\ UNCHANGED <<registry, thread, saved, faults>>
      BY <2>3, <3>1, <3>2 DEF SendEvents, ReadEvents, ReadMessages, Readers, Reads
    <3> QED
      BY <3>1, <3>3, TurnsAssumption DEF registry, saved
  <2>4. ASSUME NEW t \in Turns, OpenStream(t) \/ ReadRows(t) PROVE TypeOK'
    BY <2>1, <2>4 DEF OpenStream, ReadRows, Reads, registry, saved
  <2> QED
    BY <1>9, <2>2, <2>3, <2>4 DEF Read
<1>10. ASSUME Crash PROVE TypeOK'
  <2>1. [NewThread EXCEPT !.stage = "dead"] \in Threads
    BY DEF NewThread, Threads, Stages
  <2>2. NoReader \in Readers /\ NoReader.stage = "idle"
    BY DEF NoReader, Readers, Statuses
  <2> QED
    BY <1>10, <2>1, <2>2 DEF Crash, MayFail, saved
<1>11. CASE UNCHANGED vars
  BY <1>11 DEF vars, registry, saved
<1> QED
  BY <1>1, <1>2, <1>3, <1>4, <1>5, <1>6, <1>7, <1>8, <1>9, <1>10, <1>11, EarlyWorks
     DEF Next, ThreadStep, Produce, StreamEnds, Early, Concludes
-----------------------------------------------------------------------------
LEMMA Cases ==
  ASSUME TypeOK, [Next]_vars
  PROVE  \/ \E t \in Turns : \/ Works(t) \/ Start(t) \/ StartFails(t) \/ Cancel(t)
                             \/ Concludes(t) \/ Settle(t) \/ Save(t) \/ FreeSlot(t)
         \/ Crash
         \/ UNCHANGED <<registry, thread, saved, faults>>
<1>1. Read => UNCHANGED <<registry, thread, saved, faults>>
  BY DEF Read, Reads, OpenStream, ReadRows, AskSettled, SendEvents, ReadLive, ReadEvents,
         ReadMessages
<1> QED
  BY <1>1, EarlyWorks DEF Next, ThreadStep, Produce, StreamEnds, Early, Concludes, vars

(* One turn of a session has an entry, and none without a thread.          *)
LEMMA SlotsStep == TypeOK /\ Slots /\ [Next]_vars => Slots'
<1> SUFFICES ASSUME TypeOK, Slots, [Next]_vars PROVE Slots'
  OBVIOUS
<1> USE DEF Slots, Active, At
<1>0. occupied \in [Turns -> BOOLEAN] /\ thread \in [Turns -> Threads]
  BY DEF TypeOK
<1>1. ASSUME NEW t \in Turns, Works(t) PROVE Slots'
  BY <1>0, <1>1 DEF Works, Moves
<1>2. ASSUME NEW t \in Turns, Start(t) PROVE Slots'
  <2>1. /\ ~occupied[t] /\ occupied'[t] /\ thread'[t].stage = "accepted"
        /\ \A u \in Turns \ {t} : occupied'[u] = occupied[u] /\ thread'[u] = thread[u]
    <3>1. thread'[t].stage = "accepted" /\ \A u \in Turns \ {t} : thread'[u] = thread[u]
      BY <1>2, LateMoves DEF Start, Moves
    <3> QED
      BY <1>0, <1>2, <3>1 DEF Start, Free
  <2>2. \A u \in Turns : occupied[u] => SessionOf[u] # SessionOf[t]
    BY <1>2 DEF Start, Free
  <2> QED
    BY <2>1, <2>2 DEF Unanswered
<1>3. ASSUME NEW t \in Turns, StartFails(t) PROVE Slots'
  BY <1>0, <1>3, LateMoves DEF StartFails, Moves, Unanswered, registry
<1>4. ASSUME NEW t \in Turns, Cancel(t) PROVE Slots'
  BY <1>4 DEF Cancel
<1>5. ASSUME NEW t \in Turns, Concludes(t) \/ Settle(t) \/ Save(t) PROVE Slots'
  <2>1. /\ occupied' = occupied /\ thread[t].stage \in Active /\ thread'[t].stage \in Active
        /\ \A u \in Turns \ {t} : thread'[u] = thread[u]
    BY <1>0, <1>5, ConcludesShape, LateMoves DEF Settle, Save, Moves, Unanswered, registry
  <2> QED
    BY <2>1
<1>6. ASSUME NEW t \in Turns, FreeSlot(t) PROVE Slots'
  BY <1>0, <1>6, LateMoves DEF FreeSlot, Moves, Unanswered
<1>7. CASE Crash
  <2>1. \A t \in Turns : occupied[t] => thread'[t].stage = "dead"
    BY <1>7 DEF Crash, NewThread
  <2>2. \A t \in Turns : ~occupied[t] => thread'[t] = thread[t]
    BY <1>7 DEF Crash
  <2> QED
    BY <1>0, <1>7, <2>1, <2>2 DEF Crash, Unanswered
<1>8. CASE UNCHANGED <<registry, thread, saved, faults>>
  BY <1>8 DEF registry
<1> QED
  BY <1>1, <1>2, <1>3, <1>4, <1>5, <1>6, <1>7, <1>8, Cases

LEMMA RowKept ==
  ASSUME TypeOK, NEW u \in Turns, RowAgrees(u), faults' \in Nat, faults' >= faults,
         thread'[u] = thread[u], row'[u] = row[u], decided'[u] = decided[u],
         occupied'[u] = occupied[u]
  PROVE  RowAgrees(u)'
BY BoundsAssumption DEF RowAgrees, TypeOK

LEMMA RowsAgreeStep == TypeOK /\ Slots /\ RowsAgree /\ [Next]_vars => RowsAgree'
<1> SUFFICES ASSUME TypeOK, Slots, RowsAgree, [Next]_vars PROVE RowsAgree'
  OBVIOUS
<1>0. /\ occupied \in [Turns -> BOOLEAN] /\ thread \in [Turns -> Threads]
      /\ row \in [Turns -> Statuses] /\ decided \in [Turns -> {"none"} \cup Ends]
      /\ faults \in Nat
  BY BoundsAssumption DEF TypeOK
<1>1. \A t \in Turns : /\ RowAgrees(t) /\ (occupied[t] => row[t] # "none")
                       /\ (occupied[t] <=> thread[t].stage \in Active)
  BY DEF RowsAgree, Slots, TypeOK
<1> DEFINE Kept(t) == \A u \in Turns \ {t} :
             /\ thread'[u] = thread[u] /\ row'[u] = row[u]
             /\ decided'[u] = decided[u] /\ occupied'[u] = occupied[u]
           Counted == faults' \in Nat /\ faults' >= faults
<1>2. ASSUME NEW t \in Turns, Kept(t), Counted, RowAgrees(t)' PROVE RowsAgree'
  BY <1>1, <1>2, RowKept DEF RowsAgree
<1> HIDE DEF Kept, Counted
<1>3. (Fault \/ NoFault) => Counted
  BY <1>0 DEF Fault, NoFault, Counted
<1>4. ASSUME NEW t \in Turns, Works(t) PROVE RowsAgree'
  <2>1. /\ occupied'[t] /\ thread[t].stage \in Unanswered /\ thread'[t].stage \in Unanswered
        /\ row'[t] = row[t] /\ occupied[t]
    BY <1>1, <1>4 DEF Works, Moves, Active
  <2>2. \/ decided'[t] = decided[t]
        \/ decided[t] = "none" /\ decided'[t] \in {"failed", "cancelled"}
    BY <1>0, <1>4 DEF Works, Decides, Decided
  <2>3. RowAgrees(t)'
    BY <1>1, <2>1, <2>2 DEF RowAgrees, Unanswered, Silent
  <2>4. Kept(t)
    BY <1>0, <1>4 DEF Works, Moves, Decides, Decided, Kept
  <2>5. Counted
    BY <1>0, <1>4 DEF Works, MayFail, Counted
  <2> QED
    BY <1>2, <2>3, <2>4, <2>5
<1>5. ASSUME NEW t \in Turns, Start(t) PROVE RowsAgree'
  <2>1. /\ ~occupied[t] /\ occupied'[t] /\ thread'[t].stage = "accepted"
        /\ row'[t] = "running" /\ decided'[t] = decided[t]
    BY <1>0, <1>1, <1>5, LateMoves DEF Start, Moves, At, Active, Unanswered
  <2>2. RowAgrees(t)'
    BY <1>1, <2>1 DEF RowAgrees
  <2>3. Kept(t)
    BY <1>0, <1>5, LateMoves DEF Start, Moves, Kept
  <2> QED
    BY <1>2, <1>3, <1>5, <2>2, <2>3 DEF Start
<1>6. ASSUME NEW t \in Turns, StartFails(t) PROVE RowsAgree'
  <2>1. /\ thread[t].stage = "none" /\ thread'[t].stage = "refused" /\ row'[t] = row[t]
        /\ decided'[t] = decided[t] /\ occupied'[t] = occupied[t] /\ ~occupied[t]
    BY <1>1, <1>6, LateMoves DEF StartFails, Moves, At, registry, Active, Unanswered
  <2>2. RowAgrees(t)'
    BY <1>1, <2>1 DEF RowAgrees, Silent
  <2>3. Kept(t)
    BY <1>6, LateMoves DEF StartFails, Moves, registry, Kept
  <2> QED
    BY <1>2, <1>3, <1>6, <2>2, <2>3 DEF StartFails
<1>7. ASSUME NEW t \in Turns, Cancel(t) PROVE RowsAgree'
  <2>1. \/ decided'[t] = decided[t] /\ row'[t] = row[t]
        \/ /\ decided[t] = "none" /\ decided'[t] = "cancelled"
           /\ row'[t] \in {row[t], "cancelled"}
    BY <1>0, <1>7 DEF Cancel, Decided, Updated
  <2>2. occupied[t] /\ UNCHANGED <<occupied, thread>> /\ Counted
    BY <1>3, <1>7 DEF Cancel
  <2>3. RowAgrees(t)'
    BY <1>0, <1>1, <2>1, <2>2 DEF RowAgrees, Silent, Counted
  <2>4. Kept(t)
    BY <1>0, <1>7 DEF Cancel, Decided, Kept
  <2> QED
    BY <1>2, <2>2, <2>3, <2>4
<1>8. ASSUME NEW t \in Turns, Concludes(t) PROVE RowsAgree'
  <2>1. /\ thread[t].stage \in {"reading", "closing"} /\ thread'[t].stage = "settling"
        /\ row' = row /\ decided' = decided /\ occupied' = occupied
    BY <1>8, ConcludesShape, LateMoves DEF Moves, registry
  <2>2. RowAgrees(t)'
    BY <1>1, <2>1 DEF RowAgrees, Silent
  <2>3. Kept(t)
    BY <1>8, <2>1, LateMoves DEF Moves, Kept
  <2> QED
    BY <1>2, <1>3, <1>8, <2>2, <2>3, ConcludesShape
<1>9. ASSUME NEW t \in Turns, Settle(t) PROVE RowsAgree'
  <2>1. /\ thread[t].stage = "settling" /\ thread'[t].stage = "saving"
        /\ row' = row /\ occupied' = occupied /\ occupied[t]
    BY <1>1, <1>9, LateMoves DEF Settle, Moves, At, saved, Active
  <2>2. decided'[t] = IF decided[t] = "none" THEN "completed" ELSE decided[t]
    BY <1>0, <1>9, <2>1 DEF Settle, Decided
  <2>3. RowAgrees(t)'
    BY <1>1, <2>1, <2>2 DEF RowAgrees, Silent
  <2>4. Kept(t)
    BY <1>0, <1>9, <2>1, LateMoves DEF Moves, Settle, Decided, Kept
  <2> QED
    BY <1>2, <1>3, <1>9, <2>3, <2>4 DEF Settle
<1>10. ASSUME NEW t \in Turns, Save(t) PROVE RowsAgree'
  <2>1. /\ thread[t].stage = "saving" /\ thread'[t].stage = "freeing"
        /\ decided' = decided /\ occupied' = occupied /\ occupied[t]
    BY <1>1, <1>10, LateMoves DEF Save, Moves, At, registry, Active
  <2>2. \/ row'[t] = row[t] /\ faults' > 0
        \/ row'[t] = decided[t]
    BY <1>0, <1>1, <1>10, <2>1 DEF Save, Updated, RowAgrees, Fault, Ends
  <2>3. occupied'[t] /\ decided'[t] = decided[t] /\ decided[t] # "none"
    BY <1>1, <2>1 DEF RowAgrees
  <2>4. row'[t] \in {"running", decided'[t]}
    BY <1>1, <2>1, <2>2, <2>3 DEF RowAgrees
  <2>5. RowAgrees(t)'
    BY <2>1, <2>2, <2>3, <2>4 DEF RowAgrees, Silent
  <2>6. Kept(t)
    BY <1>0, <1>10, <2>1, LateMoves DEF Moves, Save, Kept
  <2> QED
    BY <1>2, <1>3, <1>10, <2>5, <2>6 DEF Save
<1>11. ASSUME NEW t \in Turns, FreeSlot(t) PROVE RowsAgree'
  <2>1. /\ thread'[t].stage = "ended" /\ row' = row /\ decided'[t] = "none" /\ ~occupied'[t]
    BY <1>0, <1>11, LateMoves DEF FreeSlot, Moves, saved
  <2>2. RowAgrees(t)'
    BY <2>1 DEF RowAgrees, Silent
  <2>3. Kept(t)
    BY <1>0, <1>11, <2>1, LateMoves DEF FreeSlot, Moves, Kept
  <2> QED
    BY <1>2, <1>3, <1>11, <2>2, <2>3 DEF FreeSlot
<1>12. CASE Crash
  <2> SUFFICES ASSUME NEW t \in Turns PROVE RowAgrees(t)'
    BY DEF RowsAgree
  <2>1. row' = row /\ decided'[t] = "none" /\ ~occupied'[t]
    BY <1>12 DEF Crash, saved
  <2>2. \/ thread'[t].stage = "dead"
        \/ ~occupied[t] /\ thread'[t] = thread[t]
    BY <1>0, <1>12 DEF Crash, NewThread
  <2> QED
    BY <1>1, <2>1, <2>2 DEF RowAgrees, Silent, Active, Unanswered
<1>13. CASE UNCHANGED <<registry, thread, saved, faults>>
  BY <1>13 DEF registry, saved, RowsAgree, RowAgrees
<1> QED
  BY <1>4, <1>5, <1>6, <1>7, <1>8, <1>9, <1>10, <1>11, <1>12, <1>13, Cases
-----------------------------------------------------------------------------
(* Threads only go on, and only start() makes an answer outstanding.       *)
LEMMA ThreadsGoOn ==
  ASSUME TypeOK, Slots, [Next]_vars, NEW u \in Turns
  PROVE  /\ thread[u].stage # "none" => thread'[u].stage # "none"
         /\ thread[u].stage \in Silent => thread'[u].stage \in Silent
         /\ thread'[u].stage \in Unanswered => thread[u].stage \in Unanswered \/ Start(u)
         /\ occupied'[u] => occupied[u] \/ Start(u)
<1> USE DEF Unanswered, Silent, At
<1>0. thread \in [Turns -> Threads] /\ occupied \in [Turns -> BOOLEAN]
  BY DEF TypeOK
<1>1. ASSUME NEW t \in Turns, Works(t) PROVE occupied' = occupied
        /\ \/ thread'[u] = thread[u]
           \/ t = u /\ thread[u].stage \in Unanswered /\ thread'[u].stage \in Unanswered
  BY <1>1 DEF Works, Moves
<1>2. ASSUME NEW t \in Turns, Start(t)
      PROVE  \/ t = u /\ thread[u].stage = "none" /\ thread'[u].stage = "accepted"
             \/ thread'[u] = thread[u] /\ occupied'[u] = occupied[u]
  BY <1>0, <1>2, LateMoves DEF Start, Moves
<1>3. ASSUME NEW t \in Turns, StartFails(t) \/ Concludes(t) \/ Settle(t) \/ Save(t)
      PROVE  /\ occupied' = occupied
             /\ \/ thread'[u] = thread[u]
                \/ /\ thread[u].stage \in {"none", "reading", "closing", "settling", "saving"}
                   /\ thread'[u].stage \in {"refused", "settling", "saving", "freeing"}
                   /\ thread[u].stage = "saving" => thread'[u].stage = "freeing"
  BY <1>0, <1>3, ConcludesShape, LateMoves DEF StartFails, Settle, Save, Moves, registry
<1>4. ASSUME NEW t \in Turns, FreeSlot(t)
      PROVE  /\ occupied'[u] => occupied[u]
             /\ thread'[u] = thread[u] \/ thread'[u].stage = "ended"
  BY <1>0, <1>4, LateMoves DEF FreeSlot, Moves
<1>5. ASSUME NEW t \in Turns, Cancel(t) PROVE occupied' = occupied /\ thread' = thread
  BY <1>5 DEF Cancel
<1>6. CASE Crash
  <2>1. ~occupied'[u] /\ (thread'[u].stage = "dead" \/ thread'[u] = thread[u])
    BY <1>6 DEF Crash, NewThread
  <2> QED
    BY <2>1
<1>7. CASE UNCHANGED <<registry, thread, saved, faults>>
  BY <1>7 DEF registry
<1> QED
  BY <1>1, <1>2, <1>3, <1>4, <1>5, <1>6, <1>7, Cases

(* While an answer is outstanding, or a turn is asked for, nobody else of  *)
(* the session is at it.                                                   *)
LEMMA Alone ==
  ASSUME Slots, NEW t \in Turns, NEW u \in Turns, SessionOf[u] = SessionOf[t],
         occupied[t] \/ Free(SessionOf[t]), occupied[u]
  PROVE  u = t
BY DEF Slots, Free

LEMMA MessagesOf ==
  ASSUME TypeOK, NEW s \in Sessions, NEW i \in DOMAIN messages[s]
  PROVE  i \in 1..Len(messages[s]) /\ messages[s][i].turn \in Turns
<1>1. messages[s] \in Seq(ChatMessages)
  BY DEF TypeOK
<1>2. i \in 1..Len(messages[s]) /\ messages[s][i] \in ChatMessages
  BY <1>1
<1> QED
  BY <1>2 DEF ChatMessages

LEMMA EventsOf ==
  ASSUME TypeOK, NEW s \in Sessions, NEW i \in DOMAIN events[s]
  PROVE  i \in 1..Len(events[s]) /\ events[s][i].turn \in Turns
<1>1. events[s] \in Seq(ChatEvents)
  BY DEF TypeOK
<1>2. i \in 1..Len(events[s]) /\ events[s][i] \in ChatEvents
  BY <1>1
<1> QED
  BY <1>2 DEF ChatEvents

AnswersFollow ==
  \A s \in Sessions : \A i \in DOMAIN messages[s] :
    messages[s][i].role = "assistant" =>
      i > 1 /\ messages[s][i - 1] = [turn |-> messages[s][i].turn, role |-> "user"]

LEMMA AskedStep ==
  TypeOK /\ Slots /\ Asked /\ AnswersFollow /\ [Next]_vars => Asked' /\ AnswersFollow'
<1> SUFFICES ASSUME TypeOK, Slots, Asked, AnswersFollow, [Next]_vars
             PROVE  Asked' /\ AnswersFollow'
  OBVIOUS
<1>0. messages \in [Sessions -> Seq(ChatMessages)]
  BY DEF TypeOK
<1>1. CASE UNCHANGED messages /\ \A t \in Turns : ~Start(t)
  <2>1. AnswersFollow'
    BY <1>1 DEF AnswersFollow
  <2>2. \A s \in Sessions : \A i \in DOMAIN messages[s] : messages[s][i].turn \in Turns
    BY MessagesOf
  <2> QED
    BY <1>1, <2>1, <2>2, ThreadsGoOn DEF Asked
<1>2. ASSUME NEW t \in Turns, NEW role \in {"user", "assistant"}, AppendMessage(t, role),
             occupied[t] \/ Free(SessionOf[t]), thread'[t].stage # "none",
             role = "assistant" => thread[t].stage \in Unanswered,
             thread'[t].stage \in Unanswered => role = "user",
             \A u \in Turns : Start(u) => u = t
      PROVE  Asked' /\ AnswersFollow'
  <2> DEFINE s == SessionOf[t]
             new == [turn |-> t, role |-> role]
  <2>1. s \in Sessions /\ messages[s] \in Seq(ChatMessages) /\ new \in ChatMessages
    BY <1>0, SessionType DEF ChatMessages
  <2>2. \A q \in Sessions : q # s => messages'[q] = messages[q]
    BY <1>0, <1>2, <2>1 DEF AppendMessage
  <2>3. messages'[s] = Append(messages[s], new)
    BY <1>0, <1>2, <2>1 DEF AppendMessage
  <2> HIDE DEF new
  <2>4. /\ Len(messages'[s]) = Len(messages[s]) + 1 /\ Len(messages[s]) \in Nat
        /\ DOMAIN messages[s] = 1..Len(messages[s])
        /\ DOMAIN messages'[s] = 1..Len(messages[s]) + 1
        /\ messages'[s][Len(messages[s]) + 1] = new
        /\ \A i \in 1..Len(messages[s]) : messages'[s][i] = messages[s][i]
    BY <2>1, <2>3
  <2>5. new.turn = t /\ new.role = role
    BY DEF new
  <2>6. \A q \in Sessions : \A i \in DOMAIN messages[q] : messages[q][i].turn \in Turns
    BY MessagesOf
  <2>7. \A q \in Sessions : \A i \in DOMAIN messages'[q] : thread'[messages'[q][i].turn].stage # "none"
    <3> SUFFICES ASSUME NEW q \in Sessions, NEW i \in DOMAIN messages'[q]
                 PROVE  thread'[messages'[q][i].turn].stage # "none"
      OBVIOUS
    <3>1. CASE q # s \/ i # Len(messages[s]) + 1
      <4>1. i \in DOMAIN messages[q] /\ messages'[q][i] = messages[q][i]
        <5>1. CASE q # s
          BY <2>2, <5>1
        <5>2. CASE q = s
          <6>1. i \in 1..Len(messages[s]) + 1 /\ i # Len(messages[s]) + 1
            BY <2>4, <3>1, <5>2
          <6>2. i \in 1..Len(messages[s])
            BY <2>4, <6>1
          <6> QED
            BY <2>4, <5>2, <6>2
        <5> QED
          BY <5>1, <5>2
      <4> QED
        BY <2>6, <4>1, ThreadsGoOn DEF Asked
    <3>2. CASE q = s /\ i = Len(messages[s]) + 1
      BY <1>2, <2>4, <2>5, <3>2
    <3> QED
      BY <3>1, <3>2
  <2>8. ASSUME NEW u \in Turns, thread'[u].stage \in Unanswered
        PROVE  /\ Len(messages'[SessionOf[u]]) > 0
               /\ messages'[SessionOf[u]][Len(messages'[SessionOf[u]])] = [turn |-> u, role |-> "user"]
    <3>1. CASE u = t
      BY <1>2, <2>4, <2>8, <3>1 DEF new
    <3>2. CASE u # t
      <4>1. thread[u].stage \in Unanswered /\ occupied[u]
        BY <1>2, <2>8, <3>2, ThreadsGoOn DEF Slots, Active
      <4>2. SessionOf[u] # s /\ SessionOf[u] \in Sessions
        BY <1>2, <3>2, <4>1, Alone, SessionType
      <4> QED
        BY <2>2, <4>1, <4>2 DEF Asked
    <3> QED
      BY <3>1, <3>2
  <2>9. AnswersFollow'
    <3> SUFFICES ASSUME NEW q \in Sessions, NEW i \in DOMAIN messages'[q],
                        messages'[q][i].role = "assistant"
                 PROVE  /\ i > 1
                        /\ messages'[q][i - 1] = [turn |-> messages'[q][i].turn, role |-> "user"]
      BY DEF AnswersFollow
    <3>1. CASE q # s
      BY <2>2, <3>1 DEF AnswersFollow
    <3>2. CASE q = s /\ i # Len(messages[s]) + 1
      <4>1. i \in 1..Len(messages[s]) /\ messages'[s][i] = messages[s][i]
        BY <2>4, <3>2
      <4>2. i > 1 /\ messages[s][i - 1] = [turn |-> messages[s][i].turn, role |-> "user"]
        BY <2>1, <2>4, <3>2, <4>1 DEF AnswersFollow
      <4>3. i - 1 \in 1..Len(messages[s])
        BY <2>4, <4>1, <4>2
      <4> QED
        BY <2>4, <3>2, <4>1, <4>2, <4>3
    <3>3. CASE q = s /\ i = Len(messages[s]) + 1
      <4>1. /\ Len(messages[s]) > 0
            /\ messages[s][Len(messages[s])] = [turn |-> t, role |-> "user"]
        BY <1>2, <2>4, <2>5, <3>3 DEF Asked
      <4> QED
        BY <2>4, <2>5, <3>3, <4>1
    <3> QED
      BY <3>1, <3>2, <3>3
  <2> QED
    BY <2>7, <2>8, <2>9 DEF Asked
<1>3. ASSUME NEW t \in Turns, Start(t) \/ StartFails(t) PROVE Asked' /\ AnswersFollow'
  <2>1. thread'[t].stage # "none" /\ thread[t].stage = "none"
        /\ \A u \in Turns : Start(u) => u = t
    BY <1>3, LateMoves DEF Start, StartFails, Moves, At
  <2> QED
    BY <1>2, <1>3, <2>1 DEF Start, StartFails
<1>4. ASSUME NEW t \in Turns, Concludes(t) PROVE Asked' /\ AnswersFollow'
  <2>1. /\ thread[t].stage \in {"reading", "closing"} /\ thread'[t].stage = "settling"
        /\ thread'[t].stage \notin Unanswered /\ thread[t].stage \in Unanswered
    BY <1>4, ConcludesShape, LateMoves DEF Moves, Unanswered
  <2>2. \A u \in Turns : ~Start(u)
    BY <1>4, <2>1, LateMoves DEF Start, Moves, At
  <2>3. occupied[t]
    BY <2>1 DEF Slots, Active
  <2> QED
    BY <1>1, <1>2, <1>4, <2>1, <2>2, <2>3, ConcludesShape
<1>5. CASE UNCHANGED messages /\ \E t \in Turns : Start(t)
  BY <1>3, <1>5
<1>6. \A t \in Turns : Works(t) \/ Cancel(t) \/ Settle(t) \/ Save(t) \/ FreeSlot(t)
        => UNCHANGED messages
  BY DEF Works, Cancel, Settle, Save, FreeSlot, saved
<1>7. Crash => UNCHANGED messages
  BY DEF Crash, saved
<1> QED
  BY <1>1, <1>3, <1>4, <1>5, <1>6, <1>7, Cases DEF saved
-----------------------------------------------------------------------------
EventsInPlace ==
  \A s \in Sessions : \A i \in DOMAIN events[s] :
    LET t == events[s][i].turn
    IN  /\ SessionOf[t] = s /\ accepted[t] < i
        /\ \A j \in accepted[t] + 1 .. i : events[s][j].turn = t

LEMMA NotMixed == TurnsDoNotMix <=> AnswersFollow /\ EventsInPlace
BY DEF TurnsDoNotMix, AnswersFollow, EventsInPlace

(* Works adds at most one event, of its own turn and at the end.           *)
LEMMA OneMore ==
  ASSUME TypeOK, NEW t \in Turns, Works(t)
  PROVE  LET s == SessionOf[t]
             n == Len(events[s])
         IN  /\ \A q \in Sessions : q # s => events'[q] = events[q]
             /\ n \in Nat /\ DOMAIN events[s] = 1..n
             /\ Len(events'[s]) \in {n, n + 1} /\ DOMAIN events'[s] = 1..Len(events'[s])
             /\ \A i \in 1..n : events'[s][i] = events[s][i]
             /\ \A i \in 1..Len(events'[s]) : i > n => events'[s][i].turn = t
<1> DEFINE s == SessionOf[t]
           n == Len(events[s])
           Goal == /\ \A q \in Sessions : q # s => events'[q] = events[q]
                   /\ n \in Nat /\ DOMAIN events[s] = 1..n
                   /\ Len(events'[s]) \in {n, n + 1} /\ DOMAIN events'[s] = 1..Len(events'[s])
                   /\ \A i \in 1..n : events'[s][i] = events[s][i]
                   /\ \A i \in 1..Len(events'[s]) : i > n => events'[s][i].turn = t
<1>0. events \in [Sessions -> Seq(ChatEvents)] /\ s \in Sessions
  BY SessionType DEF TypeOK
<1>1. CASE UNCHANGED events
  <2>1. events[s] \in Seq(ChatEvents) /\ events'[s] = events[s]
    BY <1>0, <1>1
  <2> QED
    BY <1>1, <2>1
<1>2. ASSUME NEW kind \in EventKinds,
             events' = [events EXCEPT ![s] = Append(@, [turn |-> t, kind |-> kind])]
      PROVE  Goal
  <2> DEFINE new == [turn |-> t, kind |-> kind]
  <2>1. new.turn = t /\ new \in ChatEvents
    BY DEF ChatEvents
  <2>2. events[s] \in Seq(ChatEvents)
    BY <1>0
  <2>3. events'[s] = Append(events[s], new) /\ \A q \in Sessions : q # s => events'[q] = events[q]
    BY <1>0, <1>2
  <2> HIDE DEF new
  <2> QED
    BY <2>1, <2>2, <2>3
<1> QED
  BY <1>1, <1>2 DEF Works

LEMMA OwnTailStep ==
  TypeOK /\ Slots /\ OwnTail /\ EventsInPlace /\ [Next]_vars => OwnTail' /\ EventsInPlace'
<1> SUFFICES ASSUME TypeOK, Slots, OwnTail, EventsInPlace, [Next]_vars
             PROVE  OwnTail' /\ EventsInPlace'
  OBVIOUS
<1>0. accepted \in [Turns -> Nat] /\ events \in [Sessions -> Seq(ChatEvents)]
  BY DEF TypeOK
<1>1. CASE UNCHANGED <<accepted, events>> /\ \A t \in Turns : ~Start(t)
  <2>1. EventsInPlace'
    BY <1>1 DEF EventsInPlace
  <2>2. \A s \in Sessions : \A i \in DOMAIN events[s] : events[s][i].turn \in Turns
    BY EventsOf
  <2> QED
    BY <1>1, <2>1, <2>2, ThreadsGoOn DEF OwnTail, Events
<1>2. ASSUME NEW t \in Turns, Start(t) PROVE OwnTail' /\ EventsInPlace'
  <2>1. /\ UNCHANGED events /\ accepted' = [accepted EXCEPT ![t] = Len(Events(t))]
        /\ thread[t].stage = "none" /\ Free(SessionOf[t])
    BY <1>2 DEF Start, At
  <2>2. \A u \in Turns : Start(u) => u = t
    BY <1>2, <2>1, LateMoves DEF Start, Moves, At
  <2>3. \A s \in Sessions : \A i \in DOMAIN events[s] :
          events[s][i].turn \in Turns \ {t} /\ thread'[events[s][i].turn].stage # "none"
    BY <2>1, EventsOf, ThreadsGoOn DEF OwnTail
  <2>4. EventsInPlace'
    BY <1>0, <2>1, <2>3 DEF EventsInPlace
  <2>5. Len(Events(t)) \in Nat
    BY <1>0, SessionType DEF Events
  <2>6. ASSUME NEW u \in Turns, occupied'[u]
        PROVE  /\ accepted'[u] <= Len(Events(u))
               /\ \A j \in accepted'[u] + 1 .. Len(Events(u)) : Events(u)[j].turn = u
    <3>1. CASE u = t
      BY <1>0, <2>1, <2>5, <3>1
    <3>2. CASE u # t
      BY <1>0, <2>1, <2>2, <2>6, <3>2, ThreadsGoOn DEF OwnTail
    <3> QED
      BY <3>1, <3>2
  <2> QED
    BY <2>1, <2>3, <2>4, <2>6 DEF OwnTail, Events
<1>3. ASSUME NEW t \in Turns, Works(t) PROVE OwnTail' /\ EventsInPlace'
  <2> DEFINE s == SessionOf[t]
             n == Len(events[s])
             m == Len(events'[s])
  <2>1. /\ UNCHANGED <<occupied, accepted>> /\ occupied[t] /\ thread'[t].stage # "none"
        /\ s \in Sessions /\ \A u \in Turns : ~Start(u)
    <3>1. \A u \in Turns : Start(u) => u = t
      BY <1>3, LateMoves DEF Works, Moves, Start, At, Unanswered
    <3> QED
      BY <1>0, <1>3, <3>1, SessionType DEF Works, Moves, Slots, Active, Unanswered, Start, At
  <2>2. /\ \A q \in Sessions : q # s => events'[q] = events[q]
        /\ n \in Nat /\ DOMAIN events[s] = 1..n /\ m \in {n, n + 1} /\ DOMAIN events'[s] = 1..m
        /\ \A i \in 1..n : events'[s][i] = events[s][i]
        /\ \A i \in 1..m : i > n => events'[s][i].turn = t
    BY <1>3, OneMore
  <2>3. accepted[t] \in Nat /\ accepted[t] <= n
        /\ \A j \in accepted[t] + 1 .. n : events[s][j].turn = t
    BY <1>0, <2>1 DEF OwnTail, Events
  <2> HIDE DEF n, m
  <2>4. \A j \in accepted[t] + 1 .. m : events'[s][j].turn = t
    <3> TAKE j \in accepted[t] + 1 .. m
    <3>1. j \in 1..m /\ (j > n \/ j \in 1..n)
      BY <2>2, <2>3
    <3> QED
      BY <2>2, <2>3, <3>1
  <2>5. ASSUME NEW q \in Sessions, NEW i \in DOMAIN events'[q]
        PROVE  \/ q # s /\ i \in DOMAIN events[q]
               \/ q = s /\ i \in 1..n
               \/ q = s /\ i \in 1..m /\ i > n
    BY <2>2, <2>5
  <2>6. EventsInPlace'
    <3> SUFFICES ASSUME NEW q \in Sessions, NEW i \in DOMAIN events'[q]
                 PROVE  LET u == events'[q][i].turn
                        IN  /\ SessionOf[u] = q /\ accepted'[u] < i
                            /\ \A j \in accepted'[u] + 1 .. i : events'[q][j].turn = u
      BY DEF EventsInPlace
    <3>1. CASE q # s /\ i \in DOMAIN events[q]
      BY <2>1, <2>2, <3>1 DEF EventsInPlace
    <3>2. CASE q = s /\ i \in 1..n
      <4> DEFINE u == events[s][i].turn
      <4>1. /\ SessionOf[u] = s /\ accepted[u] < i /\ u \in Turns
            /\ \A j \in accepted[u] + 1 .. i : events[s][j].turn = u
        BY <2>1, <2>2, <3>2, EventsOf DEF EventsInPlace
      <4>2. events'[s][i].turn = u /\ accepted[u] \in Nat
        BY <1>0, <2>2, <3>2, <4>1
      <4> HIDE DEF u
      <4>3. \A j \in accepted[u] + 1 .. i : j \in 1..n
        BY <2>2, <3>2, <4>2
      <4>4. \A j \in accepted[u] + 1 .. i : events'[s][j].turn = u
        BY <2>2, <4>1, <4>3
      <4> QED
        BY <2>1, <3>2, <4>1, <4>2, <4>4
    <3>3. CASE q = s /\ i \in 1..m /\ i > n
      <4>1. events'[s][i].turn = t /\ accepted[t] < i
        BY <2>2, <2>3, <3>3
      <4>2. \A j \in accepted[t] + 1 .. i : j \in accepted[t] + 1 .. m
        BY <2>2, <2>3, <3>3
      <4> QED
        BY <2>1, <2>4, <3>3, <4>1, <4>2
    <3> QED
      BY <2>5, <3>1, <3>2, <3>3
  <2>7. \A q \in Sessions : \A i \in DOMAIN events'[q] : thread'[events'[q][i].turn].stage # "none"
    <3> TAKE q \in Sessions
    <3> TAKE i \in DOMAIN events'[q]
    <3>1. CASE i \in DOMAIN events[q] /\ events'[q][i] = events[q][i]
      BY <3>1, EventsOf, ThreadsGoOn DEF OwnTail
    <3>2. CASE events'[q][i].turn = t
      BY <2>1, <3>2
    <3> QED
      BY <2>2, <2>5, <3>1, <3>2
  <2>8. ASSUME NEW u \in Turns, occupied'[u]
        PROVE  /\ accepted'[u] <= Len(Events(u)')
               /\ \A j \in accepted'[u] + 1 .. Len(Events(u)') : Events(u)'[j].turn = u
    <3>1. CASE SessionOf[u] = s
      <4>1. u = t
        BY <2>1, <2>8, <3>1 DEF Slots
      <4> QED
        BY <2>1, <2>2, <2>3, <2>4, <4>1 DEF Events, m
    <3>2. CASE SessionOf[u] # s
      BY <2>1, <2>2, <2>8, <3>2, SessionType DEF OwnTail, Events
    <3> QED
      BY <3>1, <3>2
  <2> QED
    BY <2>6, <2>7, <2>8 DEF OwnTail, Events
<1>4. ASSUME NEW t \in Turns, StartFails(t) \/ Cancel(t) \/ Concludes(t) \/ Settle(t) \/ Save(t) \/ FreeSlot(t)
      PROVE  UNCHANGED <<accepted, events>>
  BY <1>4, ConcludesShape DEF StartFails, Cancel, Settle, Save, FreeSlot, saved
<1>5. Crash => UNCHANGED <<accepted, events>>
  BY DEF Crash, saved
<1> QED
  BY <1>1, <1>2, <1>3, <1>4, <1>5, Cases DEF saved
-----------------------------------------------------------------------------
(* Nothing more is written by a turn that has no entry, or only its end to *)
(* save.                                                                   *)
Over(t) == thread[t].stage # "none" /\ (~occupied[t] \/ thread[t].stage \in Silent)

LEMMA NoMoreOf ==
  ASSUME TypeOK, Slots, [Next]_vars, NEW t \in Turns, Over(t)
  PROVE  /\ Over(t)'
         /\ \A i \in DOMAIN Events(t)' :
              Events(t)'[i].turn = t => i \in DOMAIN Events(t) /\ Events(t)[i].turn = t
         /\ \A i \in DOMAIN messages'[SessionOf[t]] :
              messages'[SessionOf[t]][i].turn = t /\ thread[t].stage \in Silent =>
                i \in DOMAIN messages[SessionOf[t]] /\ messages[SessionOf[t]][i].turn = t
<1> DEFINE s == SessionOf[t]
           EventsStay == \A i \in DOMAIN events'[s] :
              events'[s][i].turn = t => i \in DOMAIN events[s] /\ events[s][i].turn = t
           MessagesStay == \A i \in DOMAIN messages'[s] :
              messages'[s][i].turn = t /\ thread[t].stage \in Silent =>
                i \in DOMAIN messages[s] /\ messages[s][i].turn = t
<1>0. /\ s \in Sessions /\ messages \in [Sessions -> Seq(ChatMessages)]
      /\ occupied \in [Turns -> BOOLEAN] /\ thread[t].stage # "none"
  BY SessionType DEF TypeOK, Over
<1>1. Over(t)'
  <2>1. ~Start(t)
    BY <1>0 DEF Start, At
  <2> QED
    BY <2>1, ThreadsGoOn DEF Over
<1>2. EventsStay
  <2>1. ASSUME NEW u \in Turns, Works(u) PROVE EventsStay
    <3>1. u # t
      BY <2>1 DEF Works, Over, Slots, Active, Unanswered, Silent
    <3>2. CASE SessionOf[u] # s
      BY <1>0, <2>1, <3>2, OneMore
    <3>3. CASE SessionOf[u] = s
      <4>1. /\ DOMAIN events[s] = 1..Len(events[s]) /\ Len(events[s]) \in Nat
            /\ Len(events'[s]) \in {Len(events[s]), Len(events[s]) + 1}
            /\ DOMAIN events'[s] = 1..Len(events'[s])
            /\ \A i \in 1..Len(events[s]) : events'[s][i] = events[s][i]
            /\ \A i \in 1..Len(events'[s]) : i > Len(events[s]) => events'[s][i].turn = u
        BY <2>1, <3>3, OneMore, SMTT(30)
      <4> QED
        BY <3>1, <4>1
    <3> QED
      BY <3>2, <3>3
  <2>2. \A u \in Turns : Start(u) \/ StartFails(u) \/ Cancel(u) \/ Concludes(u) \/ Settle(u) \/ Save(u)
                         \/ FreeSlot(u) => UNCHANGED events
    BY ConcludesShape DEF Start, StartFails, Cancel, Settle, Save, FreeSlot, saved
  <2>3. Crash => UNCHANGED events
    BY DEF Crash, saved
  <2> QED
    BY <2>1, <2>2, <2>3, Cases DEF saved
<1>3. MessagesStay
  <2>1. ASSUME NEW u \in Turns, NEW role \in {"user", "assistant"}, AppendMessage(u, role),
               thread[u].stage \in {"none", "reading", "closing"}
        PROVE  MessagesStay
    <3>1. CASE u = t
      BY <2>1, <3>1 DEF Silent
    <3>2. CASE u # t /\ SessionOf[u] # s
      BY <1>0, <2>1, <3>2, SessionType DEF AppendMessage
    <3>3. CASE u # t /\ SessionOf[u] = s
      <4> DEFINE new == [turn |-> u, role |-> role]
      <4>1. messages[s] \in Seq(ChatMessages) /\ messages'[s] = Append(messages[s], new)
        BY <1>0, <2>1, <3>3 DEF AppendMessage
      <4>2. new.turn = u /\ new \in ChatMessages
        BY DEF ChatMessages
      <4> HIDE DEF new
      <4>3. /\ DOMAIN messages'[s] = 1..Len(messages[s]) + 1 /\ Len(messages[s]) \in Nat
            /\ DOMAIN messages[s] = 1..Len(messages[s])
            /\ \A i \in 1..Len(messages[s]) : messages'[s][i] = messages[s][i]
            /\ messages'[s][Len(messages[s]) + 1].turn = u
        BY <4>1, <4>2
      <4> QED
        BY ONLY <3>3, <4>3
    <3> QED
      BY <3>1, <3>2, <3>3
  <2>2. ASSUME NEW u \in Turns, Start(u) \/ StartFails(u) PROVE MessagesStay
    BY <2>1, <2>2 DEF Start, StartFails, At
  <2>3. ASSUME NEW u \in Turns, Concludes(u) PROVE MessagesStay
    <3>1. UNCHANGED messages => MessagesStay
      OBVIOUS
    <3> QED
      BY <2>1, <2>3, <3>1, ConcludesShape
  <2>4. \A u \in Turns : Works(u) \/ Cancel(u) \/ Settle(u) \/ Save(u) \/ FreeSlot(u)
                         => UNCHANGED messages
    BY DEF Works, Cancel, Settle, Save, FreeSlot, saved
  <2>5. Crash => UNCHANGED messages
    BY DEF Crash, saved
  <2> QED
    BY <2>2, <2>3, <2>4, <2>5, Cases DEF saved
<1> QED
  BY <1>1, <1>2, <1>3 DEF Events

LEMMA OnlyReads ==
  ASSUME [Next]_vars
  PROVE  \/ UNCHANGED reader
         \/ Crash
         \/ Reads /\ \/ \E u \in Turns : OpenStream(u) \/ ReadRows(u)
                     \/ AskSettled \/ SendEvents \/ ReadLive \/ ReadEvents \/ ReadMessages
<1>1. \A u \in Turns : \/ ThreadStarts(u) \/ ThreadFails(u) \/ Produce(u) \/ Decide(u) \/ InTime(u)
                       \/ TimeOver(u) \/ Expire(u) \/ ExpireDecides(u) \/ AppendFails(u)
                       \/ CrashDecides(u) \/ TellCrash(u)
        => UNCHANGED reader
  BY DEF ThreadStarts, ThreadFails, Produce, ProviderEvent, ToolEvent, ProviderEnds, StopEvent,
         StreamEnds, Consume, Decide, InTime, TimeOver, Expire, ExpireDecides, AppendFails,
         CrashDecides, TellCrash
<1>2. \A u \in Turns : \/ Start(u) \/ StartFails(u) \/ Cancel(u) \/ Close(u) \/ Settle(u)
                       \/ Save(u) \/ FreeSlot(u)
        => UNCHANGED reader
  BY DEF Start, StartFails, Cancel, Close, Settle, Save, FreeSlot
<1>3. Read => Reads
  BY DEF Read, OpenStream, ReadRows, AskSettled, SendEvents, ReadLive, ReadEvents, ReadMessages
<1> QED
  BY <1>1, <1>2, <1>3 DEF Next, ThreadStep, Read, vars

(* A reader learns only what stays true.                                   *)
NothingLater ==
  reader.stage = "done" /\ reader.status = "completed" =>
    LET t == reader.turn
        said == messages[SessionOf[t]]
    IN  /\ \A i \in DOMAIN Events(t) : i > reader.seen => Events(t)[i].turn # t
        /\ \A i \in DOMAIN said : i > reader.heard => said[i].turn # t
Reading == ReaderKnows /\ NothingMissed /\ NothingLater

LEMMA ReadingStep ==
  TypeOK /\ Slots /\ RowsAgree /\ Reading /\ [Next]_vars => Reading'
<1> SUFFICES ASSUME TypeOK, Slots, RowsAgree, Reading, [Next]_vars PROVE Reading'
  OBVIOUS
<1> DEFINE t == reader.turn
<1>0. reader \in Readers /\ (reader.stage # "idle" => t \in Turns)
  BY DEF TypeOK, Readers
<1>1. CASE UNCHANGED reader
  <2>1. CASE reader.stage = "idle"
    BY <1>1, <2>1 DEF Reading, ReaderKnows, NothingMissed, NothingLater
  <2>2. CASE reader.stage # "idle"
    <3>1. t \in Turns /\ thread[t].stage # "none" /\ thread'[t].stage # "none"
      BY <1>0, <2>2, ThreadsGoOn DEF Reading, ReaderKnows
    <3>2. reader.stage \in {"sending", "closed"} /\ reader.settled => ~occupied[t] /\ ~occupied'[t]
      <4>1. ~Start(t)
        BY <3>1 DEF Start, At
      <4> QED
        BY <3>1, <4>1, ThreadsGoOn DEF Reading, ReaderKnows
    <3>3. reader.status = "completed" => thread[t].stage \in Silent /\ thread'[t].stage \in Silent
      BY <3>1, ThreadsGoOn DEF Reading, ReaderKnows
    <3>4. reader.status = "completed" \/ (reader.stage = "closed" /\ reader.settled) => Over(t)
      BY <3>1, <3>2, <3>3 DEF Over
    <3>5. ReaderKnows'
      BY <1>1, <3>1, <3>2, <3>3, <3>4, NoMoreOf DEF Reading, ReaderKnows
    <3>6. NothingMissed'
      BY <1>1, <3>1, <3>4, NoMoreOf DEF Reading, ReaderKnows, NothingMissed
    <3>7. NothingLater'
      BY <1>1, <3>1, <3>3, <3>4, NoMoreOf DEF Reading, NothingLater
    <3> QED
      BY <3>5, <3>6, <3>7 DEF Reading
  <2> QED
    BY <2>1, <2>2
<1>2. CASE Crash
  <2>1. reader' = NoReader
    BY <1>2 DEF Crash
  <2> QED
    BY <2>1 DEF NoReader, Reading, ReaderKnows, NothingMissed, NothingLater
<1>3. CASE Reads
  <2>1. /\ \A u \in Turns : Events(u)' = Events(u) /\ UNCHANGED <<occupied, thread, messages>>
    BY <1>3 DEF Reads, Events, registry, saved
  <2>2. ASSUME t \in Turns
        PROVE  /\ DOMAIN Events(t) = 1..Len(Events(t))
               /\ DOMAIN messages[SessionOf[t]] = 1..Len(messages[SessionOf[t]])
    BY <2>2, SessionType DEF TypeOK, Events
  <2>3. ASSUME NEW u \in Turns, OpenStream(u) PROVE Reading'
    <3>1. thread[u].stage # "none"
      BY <2>3 DEF OpenStream, Slots, Active, Unanswered
    <3>2. reader'.turn = u /\ reader'.stage = "asking" /\ reader'.status = "none"
      BY <2>3 DEF OpenStream, NoReader
    <3> QED
      BY <2>1, <3>1, <3>2 DEF Reading, ReaderKnows, NothingMissed, NothingLater
  <2>4. ASSUME NEW u \in Turns, ReadRows(u) PROVE Reading'
    <3>1. thread[u].stage # "none" /\ (row[u] = "completed" => thread[u].stage \in Silent)
      BY <2>4 DEF ReadRows, RowsAgree, RowAgrees
    <3>2. reader'.turn = u /\ reader'.stage = "live" /\ reader'.status = row[u]
      BY <2>4 DEF ReadRows, NoReader
    <3> QED
      BY <2>1, <3>1, <3>2 DEF Reading, ReaderKnows, NothingMissed, NothingLater
  <2>5. CASE AskSettled
    <3>1. /\ reader.stage = "asking" /\ reader'.stage = "sending" /\ reader'.turn = t
          /\ reader'.settled = ~occupied[t] /\ reader'.status = reader.status
      BY <1>0, <2>5 DEF AskSettled, Settled, Readers
    <3> QED
      BY <1>0, <2>1, <3>1 DEF Reading, ReaderKnows, NothingMissed, NothingLater
  <2>6. CASE SendEvents
    <3>1. /\ reader.stage = "sending" /\ reader'.stage = IF reader.settled THEN "closed" ELSE "asking"
          /\ reader'.seen = Len(Events(t)) /\ reader'.settled = reader.settled
          /\ reader'.turn = t /\ reader'.status = reader.status
      BY <1>0, <2>6 DEF SendEvents, Readers
    <3> QED
      BY <1>0, <2>1, <2>2, <3>1 DEF Reading, ReaderKnows, NothingMissed, NothingLater
  <2>7. CASE ReadLive
    <3>1. /\ reader.stage = "live" /\ reader'.stage = "events" /\ reader'.turn = t
          /\ reader'.status = IF occupied[t] THEN Visible(t) ELSE reader.status
      BY <1>0, <2>7 DEF ReadLive, Readers
    <3>2. occupied[t] /\ Visible(t) = "completed" => thread[t].stage \in Silent
      BY <1>0, <3>1 DEF Visible, RowsAgree, RowAgrees
    <3> QED
      BY <1>0, <2>1, <3>1, <3>2 DEF Reading, ReaderKnows, NothingMissed, NothingLater
  <2>8. CASE ReadEvents
    <3>1. /\ reader.stage = "events" /\ reader'.stage = "messages" /\ reader'.turn = t
          /\ reader'.seen = Len(Events(t)) /\ reader'.status = reader.status
      BY <1>0, <2>8 DEF ReadEvents, Readers
    <3> QED
      BY <1>0, <2>1, <2>2, <3>1 DEF Reading, ReaderKnows, NothingMissed, NothingLater
  <2>9. CASE ReadMessages
    <3>1. /\ reader.stage = "messages" /\ reader'.stage = "done" /\ reader'.turn = t
          /\ reader'.heard = Len(messages[SessionOf[t]])
          /\ reader'.seen = reader.seen /\ reader'.status = reader.status
      BY <1>0, <2>9 DEF ReadMessages, Readers
    <3>2. ReaderKnows' /\ NothingMissed'
      BY <1>0, <2>1, <3>1 DEF Reading, ReaderKnows, NothingMissed
    <3>3. NothingLater'
      BY <1>0, <2>1, <2>2, <3>1 DEF Reading, ReaderKnows, NothingLater
    <3> QED
      BY <3>2, <3>3 DEF Reading
  <2> QED
    BY <1>1, <1>2, <2>3, <2>4, <2>5, <2>6, <2>7, <2>8, <2>9, OnlyReads
<1> QED
  BY <1>1, <1>2, <1>3, OnlyReads
-----------------------------------------------------------------------------
(* Answers: what was said as an event is remembered by the thread until it *)
(* is saved as a message, and a stream is closed by another hand only when *)
(* the end is decided.                                                     *)
HasText(t) == \E i \in DOMAIN Events(t) : Events(t)[i] = [turn |-> t, kind |-> "text"]
HasAnswer(t) ==
  \E i \in DOMAIN messages[SessionOf[t]] :
    messages[SessionOf[t]][i] = [turn |-> t, role |-> "assistant"]
Answered(t) == HasText(t) => HasAnswer(t)

AnswerAgrees(t) ==
  /\ thread[t].stage \in {"none", "accepted"} => ~thread[t].late
  /\ occupied[t] /\ Sealed(t) => decided[t] # "none"
  /\ thread[t].stage \in Consuming /\ HasText(t) => thread[t].spoken
  /\ thread[t].stage = "settling" /\ decided[t] = "none" => Answered(t)
  /\ "completed" \in {row[t], decided[t]} => Answered(t)
AnswersAgree == \A t \in Turns : AnswerAgrees(t)

LEMMA AnswerStays ==
  ASSUME TypeOK, [Next]_vars, NEW t \in Turns, HasAnswer(t)
  PROVE  HasAnswer(t)'
<1> DEFINE s == SessionOf[t]
<1>0. messages \in [Sessions -> Seq(ChatMessages)] /\ s \in Sessions
  BY SessionType DEF TypeOK
<1>1. ASSUME NEW u \in Turns, NEW role \in {"user", "assistant"}, AppendMessage(u, role)
      PROVE  HasAnswer(t)'
  <2> DEFINE new == [turn |-> u, role |-> role]
  <2>1. PICK i \in DOMAIN messages[s] : messages[s][i] = [turn |-> t, role |-> "assistant"]
    BY DEF HasAnswer
  <2>2. messages'[s] = messages[s] \/ messages'[s] = Append(messages[s], new)
    BY <1>0, <1>1, SessionType DEF AppendMessage
  <2>3. messages[s] \in Seq(ChatMessages) /\ new \in ChatMessages
    BY <1>0 DEF ChatMessages
  <2> HIDE DEF new
  <2>4. i \in DOMAIN messages'[s] /\ messages'[s][i] = messages[s][i]
    BY <2>2, <2>3
  <2> QED
    BY <2>1, <2>4 DEF HasAnswer
<1>2. CASE UNCHANGED messages
  BY <1>2 DEF HasAnswer
<1>3. ASSUME NEW u \in Turns, Start(u) \/ StartFails(u) \/ Concludes(u) PROVE HasAnswer(t)'
  BY <1>1, <1>2, <1>3, ConcludesShape DEF Start, StartFails
<1>4. \A u \in Turns : Works(u) \/ Cancel(u) \/ Settle(u) \/ Save(u) \/ FreeSlot(u)
        => UNCHANGED messages
  BY DEF Works, Cancel, Settle, Save, FreeSlot, saved
<1>5. Crash => UNCHANGED messages
  BY DEF Crash, saved
<1> QED
  BY <1>2, <1>3, <1>4, <1>5, Cases DEF saved

(* A turn has no new text but the one its thread remembers.                *)
LEMMA TextRemembered ==
  ASSUME TypeOK, [Next]_vars, NEW t \in Turns, HasText(t)'
  PROVE  HasText(t) \/ (thread[t].stage \in Unanswered /\ thread'[t].spoken)
<1> DEFINE s == SessionOf[t]
           text == [turn |-> t, kind |-> "text"]
           Goal == HasText(t) \/ (thread[t].stage \in Unanswered /\ thread'[t].spoken)
<1>0. events \in [Sessions -> Seq(ChatEvents)] /\ s \in Sessions
  BY SessionType DEF TypeOK
<1>1. PICK i \in DOMAIN events'[s] : events'[s][i] = text
  BY DEF HasText, Events
<1>2. ASSUME i \in DOMAIN events[s], events[s][i] = events'[s][i] PROVE Goal
  BY <1>1, <1>2 DEF HasText, Events
<1>3. ASSUME NEW u \in Turns, Works(u) PROVE Goal
  <2>1. CASE SessionOf[u] # s
    BY <1>0, <1>1, <1>2, <1>3, <2>1, OneMore
  <2>2. CASE SessionOf[u] = s /\ i \in 1..Len(events[s])
    BY <1>2, <1>3, <2>2, OneMore
  <2>3. CASE SessionOf[u] = s /\ i \notin 1..Len(events[s])
    <3>1. UNCHANGED events => FALSE
      BY <1>0, <1>1, <2>3
    <3>2. PICK kind \in EventKinds :
            /\ events' = [events EXCEPT ![s] = Append(@, [turn |-> u, kind |-> kind])]
            /\ kind = "text" => thread'[u].spoken
      BY <1>3, <2>3, <3>1 DEF Works
    <3> DEFINE new == [turn |-> u, kind |-> kind]
    <3>3. events'[s] = Append(events[s], new) /\ events[s] \in Seq(ChatEvents)
          /\ new \in ChatEvents
      BY <1>0, <3>2 DEF ChatEvents
    <3> HIDE DEF new
    <3>4. events'[s][i] = new
      BY <1>1, <2>3, <3>3
    <3>5. u = t /\ kind = "text"
      <4>1. new = text
        BY <1>1, <3>4
      <4>2. new.turn = text.turn /\ new.kind = text.kind
        BY <4>1
      <4> QED
        BY <4>2 DEF new
    <3> QED
      BY <1>3, <3>2, <3>5 DEF Works
  <2> QED
    BY <2>1, <2>2, <2>3
<1>4. CASE UNCHANGED events
  BY <1>1, <1>2, <1>4
<1>5. \A u \in Turns : Start(u) \/ StartFails(u) \/ Cancel(u) \/ Concludes(u) \/ Settle(u) \/ Save(u)
                       \/ FreeSlot(u) => UNCHANGED events
  BY ConcludesShape DEF Start, StartFails, Cancel, Settle, Save, FreeSlot, saved
<1>6. Crash => UNCHANGED events
  BY DEF Crash, saved
<1> QED
  BY <1>3, <1>4, <1>5, <1>6, Cases DEF saved

LEMMA AnswersAgreeStep ==
  TypeOK /\ Slots /\ RowsAgree /\ OwnTail /\ AnswersAgree /\ [Next]_vars => AnswersAgree'
<1> SUFFICES ASSUME TypeOK, Slots, RowsAgree, OwnTail, AnswersAgree, [Next]_vars,
                    NEW t \in Turns
             PROVE  AnswerAgrees(t)'
  BY DEF AnswersAgree
<1>0. /\ RowAgrees(t) /\ RowAgrees(t)' /\ AnswerAgrees(t)
      /\ (occupied[t] <=> thread[t].stage \in Active)
      /\ (occupied'[t] <=> thread'[t].stage \in Active)
      /\ occupied \in [Turns -> BOOLEAN] /\ thread \in [Turns -> Threads]
      /\ row \in [Turns -> Statuses] /\ decided \in [Turns -> {"none"} \cup Ends]
  BY RowsAgreeStep, SlotsStep DEF RowsAgree, AnswersAgree, Slots, TypeOK
<1>1. /\ HasAnswer(t) => HasAnswer(t)'
      /\ HasText(t)' => HasText(t) \/ (thread[t].stage \in Unanswered /\ thread'[t].spoken)
  BY AnswerStays, TextRemembered
<1>2. ASSUME thread[t].stage \notin Unanswered, Answered(t) PROVE Answered(t)'
  BY <1>1, <1>2 DEF Answered
<1>3. ASSUME thread'[t] = thread[t], row'[t] = row[t], decided'[t] = decided[t],
             occupied'[t] = occupied[t]
      PROVE  AnswerAgrees(t)'
  BY <1>0, <1>1, <1>2, <1>3 DEF AnswerAgrees, RowAgrees, Sealed, Silent, Unanswered
<1>4. ASSUME NEW u \in Turns, Works(u) PROVE AnswerAgrees(t)'
  <2>1. CASE u = t
    <3>1. thread'[t].stage \in Unanswered \ {"accepted"}
      BY <1>4, <2>1 DEF Works, Moves
    <3>2. occupied'[t] /\ Sealed(t)' => decided'[t] # "none"
      <4>1. occupied'[t] = occupied[t] /\ (decided[t] # "none" => decided'[t] = decided[t])
        BY <1>0, <1>4, <2>1 DEF Works, Decides, Decided
      <4> QED
        BY <1>0, <1>4, <2>1, <4>1 DEF Works, AnswerAgrees
    <3>3. thread'[t].stage \in Consuming /\ HasText(t)' => thread'[t].spoken
      BY <1>0, <1>1, <1>4, <2>1 DEF Works, AnswerAgrees
    <3>4. "completed" \notin {row'[t], decided'[t]} /\ thread'[t].stage # "settling"
      BY <1>0, <3>1 DEF RowAgrees, Unanswered, Silent
    <3> QED
      BY <3>1, <3>2, <3>3, <3>4 DEF AnswerAgrees, Unanswered
  <2>2. CASE u # t
    <3>1. /\ thread'[t] = thread[t] /\ row'[t] = row[t] /\ decided'[t] = decided[t]
          /\ occupied'[t] = occupied[t]
      BY <1>0, <1>4, <2>2 DEF Works, Moves, Decides, Decided
    <3> QED
      BY <1>3, <3>1
  <2> QED
    BY <2>1, <2>2
<1>5. ASSUME NEW u \in Turns, Start(u) PROVE AnswerAgrees(t)'
  <2>1. CASE u = t
    <3>1. /\ thread[t].stage = "none" /\ thread'[t].stage = "accepted"
          /\ thread'[t].late = thread[t].late /\ decided'[t] = decided[t] /\ row'[t] = "running"
      BY <1>0, <1>5, <2>1, GoesToMoves DEF Start, At, Moves, Stages
    <3>2. ~HasText(t) /\ events' = events
      <4>1. ASSUME NEW i \in DOMAIN events[SessionOf[t]] PROVE events[SessionOf[t]][i].turn # t
        BY <3>1, <4>1, SessionType DEF OwnTail
      <4>2. [turn |-> t, kind |-> "text"].turn = t
        OBVIOUS
      <4> QED
        BY <1>5, <4>1, <4>2 DEF HasText, Events, Start
    <3>3. ~HasText(t)'
      BY <3>2 DEF HasText, Events
    <3>4. decided[t] = "none"
      BY <1>0, <3>1 DEF RowAgrees, Active, Unanswered
    <3> QED
      BY <1>0, <3>1, <3>3, <3>4 DEF AnswerAgrees, Sealed
  <2>2. CASE u # t
    <3>1. /\ thread'[t] = thread[t] /\ row'[t] = row[t] /\ decided'[t] = decided[t]
          /\ occupied'[t] = occupied[t]
      BY <1>0, <1>5, <2>2, LateMoves DEF Start, Moves
    <3> QED
      BY <1>3, <3>1
  <2> QED
    BY <2>1, <2>2
<1>6. ASSUME NEW u \in Turns, StartFails(u) PROVE AnswerAgrees(t)'
  <2>1. CASE u = t
    <3>1. /\ thread[t].stage = "none" /\ thread'[t].stage = "refused"
          /\ row'[t] = "none" /\ decided'[t] = "none"
      BY <1>0, <1>6, <2>1, LateMoves
         DEF StartFails, At, Moves, registry, RowAgrees, Active, Unanswered
    <3> QED
      BY <1>0, <3>1 DEF AnswerAgrees, Active, Unanswered, Consuming
  <2>2. CASE u # t
    BY <1>3, <1>6, <2>2, LateMoves DEF StartFails, Moves, registry
  <2> QED
    BY <2>1, <2>2
<1>7. ASSUME NEW u \in Turns, Cancel(u) PROVE AnswerAgrees(t)'
  <2>1. thread' = thread /\ occupied' = occupied /\ events' = events
    BY <1>7 DEF Cancel
  <2>2. \/ decided'[t] = decided[t] /\ row'[t] = row[t]
        \/ /\ decided[t] = "none" /\ decided'[t] = "cancelled"
           /\ row'[t] \in {row[t], "cancelled"}
    BY <1>0, <1>7 DEF Cancel, Decided, Updated
  <2>3. HasText(t)' => HasText(t)
    BY <2>1 DEF HasText, Events
  <2>4. Answered(t) => Answered(t)'
    BY <1>1, <2>3 DEF Answered
  <2> QED
    BY <1>0, <2>1, <2>2, <2>3, <2>4 DEF AnswerAgrees, Sealed
<1>8. ASSUME NEW u \in Turns, Concludes(u) PROVE AnswerAgrees(t)'
  <2>1. CASE u = t
    <3>1. /\ thread[t].stage \in {"reading", "closing"} /\ thread'[t].stage = "settling"
          /\ row' = row /\ decided' = decided /\ occupied' = occupied /\ events' = events
      BY <1>8, <2>1, ConcludesShape, LateMoves DEF Moves, registry
    <3>2. "completed" \notin {row'[t], decided'[t]}
      BY <1>0, <3>1 DEF RowAgrees, Silent
    <3>3. thread[t].stage = "reading" => Answered(t)'
      <4>1. CASE thread[t].stage = "reading" /\ ~thread[t].spoken
        <5>1. ~HasText(t)
          BY <1>0, <4>1 DEF AnswerAgrees, Consuming
        <5>2. HasText(t)' => HasText(t)
          BY <3>1 DEF HasText, Events
        <5> QED
          BY <5>1, <5>2 DEF Answered
      <4>2. CASE AppendMessage(t, "assistant")
        <5> DEFINE s == SessionOf[t]
                   new == [turn |-> t, role |-> "assistant"]
        <5>1. /\ messages[s] \in Seq(ChatMessages) /\ new \in ChatMessages
              /\ messages'[s] = Append(messages[s], new)
          BY <4>2, SessionType DEF TypeOK, ChatMessages, AppendMessage
        <5> HIDE DEF new
        <5>2. Len(messages[s]) + 1 \in DOMAIN messages'[s]
              /\ messages'[s][Len(messages[s]) + 1] = new
          BY <5>1
        <5> QED
          BY <5>2 DEF Answered, HasAnswer, new
      <4> QED
        BY <1>8, <2>1, <4>1, <4>2, ConcludesShape
    <3>4. thread[t].stage = "closing" => decided'[t] # "none"
      BY <1>0, <3>1 DEF AnswerAgrees, Sealed, Active, Unanswered
    <3>5. ~thread'[t].late
      BY <1>8, <2>1, LeavesMoves DEF Concludes, Close, StreamEnds, SavesAnswer, LosesAnswer, Stages
    <3> QED
      BY <3>1, <3>2, <3>3, <3>4, <3>5 DEF AnswerAgrees, Sealed, Consuming
  <2>2. CASE u # t
    BY <1>3, <1>8, <2>2, ConcludesShape, LateMoves DEF Moves, registry
  <2> QED
    BY <2>1, <2>2
<1>9. ASSUME NEW u \in Turns, Settle(u) \/ Save(u) PROVE AnswerAgrees(t)'
  <2>1. CASE u = t
    <3>1. /\ thread[t].stage \in {"settling", "saving"}
          /\ thread'[t].stage \in {"saving", "freeing"} /\ decided'[t] # "none"
      BY <1>0, <1>9, <2>1, LateMoves DEF Settle, Save, At, Moves, RowAgrees
    <3>2. "completed" \in {row'[t], decided'[t]} =>
            \/ "completed" \in {row[t], decided[t]}
            \/ thread[t].stage = "settling" /\ decided[t] = "none"
      BY <1>0, <1>9, <2>1 DEF Settle, Save, At, Decided, Updated, registry, saved
    <3>3. "completed" \in {row'[t], decided'[t]} => Answered(t)'
      BY <1>0, <1>2, <3>1, <3>2 DEF AnswerAgrees, Unanswered
    <3> QED
      BY <3>1, <3>3 DEF AnswerAgrees, Consuming
  <2>2. CASE u # t
    <3>1. /\ thread'[t] = thread[t] /\ row'[t] = row[t] /\ decided'[t] = decided[t]
          /\ occupied'[t] = occupied[t]
      BY <1>0, <1>9, <2>2, LateMoves DEF Settle, Save, Decided, Moves, registry, saved
    <3> QED
      BY <1>3, <3>1
  <2> QED
    BY <2>1, <2>2
<1>10. ASSUME NEW u \in Turns, FreeSlot(u) PROVE AnswerAgrees(t)'
  <2>1. CASE u = t
    <3>1. /\ thread[t].stage = "freeing" /\ thread'[t].stage = "ended"
          /\ ~occupied'[t] /\ decided'[t] = "none" /\ row'[t] = row[t]
      BY <1>0, <1>10, <2>1, LateMoves DEF FreeSlot, At, Moves, saved
    <3>2. row[t] = "completed" => Answered(t)'
      BY <1>0, <1>2, <3>1 DEF AnswerAgrees, Unanswered
    <3> QED
      BY <3>1, <3>2 DEF AnswerAgrees, Consuming
  <2>2. CASE u # t
    <3>1. /\ thread'[t] = thread[t] /\ row'[t] = row[t] /\ decided'[t] = decided[t]
          /\ occupied'[t] = occupied[t]
      BY <1>0, <1>10, <2>2, LateMoves DEF FreeSlot, Moves, saved
    <3> QED
      BY <1>3, <3>1
  <2> QED
    BY <2>1, <2>2
<1>11. CASE Crash
  <2>1. row'[t] = row[t] /\ decided'[t] = "none" /\ ~occupied'[t] /\ events' = events
    BY <1>0, <1>11 DEF Crash, saved
  <2>2. \/ thread'[t].stage = "dead"
        \/ ~occupied[t] /\ thread'[t] = thread[t]
    BY <1>0, <1>11 DEF Crash, NewThread
  <2>3. row[t] = "completed" => Answered(t)'
    BY <1>0, <1>2 DEF AnswerAgrees, RowAgrees, Silent, Unanswered
  <2> QED
    BY <1>0, <2>1, <2>2, <2>3 DEF AnswerAgrees, RowAgrees, Consuming, Active, Unanswered
<1>12. CASE UNCHANGED <<registry, thread, saved, faults>>
  BY <1>3, <1>12 DEF registry, saved
<1> QED
  BY <1>4, <1>5, <1>6, <1>7, <1>8, <1>9, <1>10, <1>11, <1>12, Cases

(* A reader that was told "completed" can find the answer.                 *)
AnswerKnown == reader.stage # "idle" /\ reader.status = "completed" => Answered(reader.turn)

LEMMA AnswerKnownStep ==
  TypeOK /\ RowsAgree /\ AnswersAgree /\ Reading /\ AnswerKnown /\ [Next]_vars => AnswerKnown'
<1> SUFFICES ASSUME TypeOK, RowsAgree, AnswersAgree, Reading, AnswerKnown, [Next]_vars
             PROVE  AnswerKnown'
  OBVIOUS
<1> DEFINE t == reader.turn
<1>0. reader \in Readers /\ (reader.stage # "idle" => t \in Turns)
  BY DEF TypeOK, Readers
<1>1. CASE UNCHANGED reader
  <2> SUFFICES ASSUME reader.stage # "idle", reader.status = "completed" PROVE Answered(t)'
    BY <1>1 DEF AnswerKnown
  <2>1. t \in Turns /\ thread[t].stage \in Silent /\ Answered(t)
    BY <1>0 DEF Reading, ReaderKnows, AnswerKnown
  <2>2. (HasAnswer(t) => HasAnswer(t)') /\ (HasText(t)' => HasText(t))
    BY <1>1, <2>1, AnswerStays, TextRemembered DEF Silent, Unanswered
  <2> QED
    BY <2>1, <2>2 DEF Answered
<1>2. CASE Crash
  BY <1>2 DEF Crash, NoReader, AnswerKnown
<1>3. CASE Reads
  <2>1. \A u \in Turns : Answered(u)' <=> Answered(u)
    BY <1>3 DEF Reads, Answered, HasText, HasAnswer, Events, saved
  <2>2. ASSUME NEW u \in Turns, OpenStream(u) \/ ReadRows(u) PROVE AnswerKnown'
    <3>1. reader'.turn = u /\ reader'.status \in {"none", row[u]}
      BY <2>2 DEF OpenStream, ReadRows, NoReader
    <3> QED
      BY <2>1, <3>1 DEF AnswerKnown, AnswersAgree, AnswerAgrees
  <2>3. CASE AskSettled \/ SendEvents \/ ReadEvents \/ ReadMessages
    <3>1. reader'.turn = t /\ reader'.status = reader.status /\ reader.stage # "idle"
      BY <1>0, <2>3 DEF AskSettled, SendEvents, ReadEvents, ReadMessages, Readers
    <3> QED
      BY <1>0, <2>1, <3>1 DEF AnswerKnown
  <2>4. CASE ReadLive
    <3>1. /\ reader'.turn = t /\ reader.stage # "idle"
          /\ reader'.status = IF occupied[t] THEN Visible(t) ELSE reader.status
      BY <1>0, <2>4 DEF ReadLive, Readers
    <3>2. occupied[t] /\ Visible(t) = "completed" => Answered(t)
      BY <1>0, <3>1 DEF Visible, AnswersAgree, AnswerAgrees
    <3> QED
      BY <1>0, <2>1, <3>1, <3>2 DEF AnswerKnown
  <2> QED
    BY <1>1, <1>2, <2>2, <2>3, <2>4, OnlyReads
<1> QED
  BY <1>1, <1>2, <1>3, OnlyReads

(* Nothing comes later and the answer is there, so it was read.            *)
LEMMA Whole == TypeOK /\ Reading /\ AnswerKnown => CompletedIsWhole
<1> SUFFICES ASSUME TypeOK, Reading, AnswerKnown, reader.stage = "done",
                    reader.status = "completed"
             PROVE  LET t == reader.turn
                        said == messages[SessionOf[t]]
                    IN  /\ \A i \in DOMAIN Events(t) : i > reader.seen => Events(t)[i].turn # t
                        /\ \A i \in DOMAIN said : i > reader.heard => said[i].turn # t
                        /\ (\E i \in DOMAIN Events(t) :
                               Events(t)[i] = [turn |-> t, kind |-> "text"]) =>
                             \E i \in DOMAIN said :
                               i <= reader.heard /\ said[i] = [turn |-> t, role |-> "assistant"]
  BY DEF CompletedIsWhole
<1> DEFINE t == reader.turn
           said == messages[SessionOf[t]]
<1>1. /\ t \in Turns /\ reader.heard \in Nat
      /\ said \in Seq(ChatMessages)
  <2>1. t \in Turns /\ reader.heard \in Nat
    BY DEF TypeOK, Readers
  <2> QED
    BY <2>1, SessionType DEF TypeOK
<1>2. /\ \A i \in DOMAIN Events(t) : i > reader.seen => Events(t)[i].turn # t
      /\ \A i \in DOMAIN said : i > reader.heard => said[i].turn # t
  BY DEF Reading, NothingLater
<1>3. ASSUME NEW i \in DOMAIN Events(t), Events(t)[i] = [turn |-> t, kind |-> "text"]
      PROVE  \E k \in DOMAIN said :
               k <= reader.heard /\ said[k] = [turn |-> t, role |-> "assistant"]
  <2>1. HasText(t)
    BY <1>3 DEF HasText
  <2>2. PICK k \in DOMAIN said : said[k] = [turn |-> t, role |-> "assistant"]
    BY <2>1 DEF AnswerKnown, Answered, HasAnswer
  <2>3. said[k].turn = t /\ k \in Nat
    BY <1>1, <2>2
  <2>4. k <= reader.heard
    BY <1>1, <1>2, <2>2, <2>3
  <2> QED
    BY <2>2, <2>4
<1> QED
  BY <1>2, <1>3
-----------------------------------------------------------------------------
(* The inductive invariant.                                                *)
IndInv == /\ TypeOK /\ Slots /\ RowsAgree
          /\ Asked /\ AnswersFollow /\ OwnTail /\ EventsInPlace /\ Reading
          /\ AnswersAgree /\ AnswerKnown

LEMMA IndInvInit == Init => IndInv
<1> SUFFICES ASSUME Init PROVE IndInv
  OBVIOUS
<1>1. TypeOK
  BY InitType
<1>2. Slots /\ RowsAgree
  BY DEF Init, NewThread, Slots, RowsAgree, RowAgrees, Active, Unanswered
<1>3. \A s \in Sessions : messages[s] = <<>> /\ events[s] = <<>>
  BY DEF Init
<1>4. Asked /\ AnswersFollow
  BY <1>3 DEF Init, NewThread, Asked, AnswersFollow, Unanswered
<1>5. OwnTail /\ EventsInPlace
  BY <1>3 DEF Init, OwnTail, EventsInPlace
<1>6. Reading
  BY DEF Init, NoReader, Reading, ReaderKnows, NothingMissed, NothingLater
<1>7. AnswersAgree /\ AnswerKnown
  BY <1>3, SessionType
     DEF Init, NewThread, NoReader, AnswersAgree, AnswerAgrees, AnswerKnown, Answered, HasText,
         Events, Sealed, Consuming
<1> QED
  BY <1>1, <1>2, <1>4, <1>5, <1>6, <1>7 DEF IndInv

LEMMA IndInvStep == IndInv /\ [Next]_vars => IndInv'
BY TypeStep, SlotsStep, RowsAgreeStep, AskedStep, OwnTailStep, ReadingStep, AnswersAgreeStep,
   AnswerKnownStep DEF IndInv

LEMMA Inductive == Spec => []IndInv
BY IndInvInit, IndInvStep, PTL DEF Spec

(* Type correctness of the runner; an entry of the registry has a saved    *)
(* row.                                                                    *)
THEOREM TypeCorrect == Spec => []TypeOK
BY Inductive, PTL DEF IndInv

(* However long a cancelled turn goes on, whatever fails and whenever the  *)
(* process dies: the messages and events of two turns never mix.           *)
THEOREM SessionsStayInOrder == Spec => []TurnsDoNotMix
<1>1. IndInv => TurnsDoNotMix
  BY NotMixed DEF IndInv
<1> QED
  BY <1>1, Inductive, PTL

(* An event stream that is closed has sent all there will ever be of its   *)
(* turn.                                                                   *)
THEOREM StreamsAreComplete == Spec => []NothingMissed
<1>1. IndInv => NothingMissed
  BY DEF IndInv, Reading
<1> QED
  BY <1>1, Inductive, PTL

(* A history that shows a turn as completed has all of it: nothing of the  *)
(* turn comes later, and a turn that said something has its answer in it,  *)
(* whichever writes fail and whenever the process dies.                    *)
THEOREM HistoriesAreWhole == Spec => []CompletedIsWhole
<1>1. IndInv => CompletedIsWhole
  BY Whole DEF IndInv
<1> QED
  BY <1>1, Inductive, PTL

(* The end a client has seen stays, as long as no write fails and the      *)
(* process lives.                                                          *)
EndsStay == \A t \in Turns : Visible(t) \in Ends =>
              \/ Visible(t)' = Visible(t)
              \/ faults' > 0 /\ Visible(t)' = "running"

LEMMA EndsStayStep == IndInv /\ [Next]_vars => EndsStay
<1> SUFFICES ASSUME IndInv, [Next]_vars, NEW u \in Turns, Visible(u) \in Ends
             PROVE  \/ Visible(u)' = Visible(u)
                    \/ faults' > 0 /\ Visible(u)' = "running"
  BY DEF EndsStay
<1>0. /\ TypeOK /\ Slots /\ RowsAgree /\ RowAgrees(u) /\ RowsAgree'
      /\ occupied \in [Turns -> BOOLEAN] /\ decided \in [Turns -> {"none"} \cup Ends]
      /\ row \in [Turns -> Statuses] /\ faults \in Nat
      /\ (occupied[u] => decided[u] # "none")
  BY BoundsAssumption, IndInvStep DEF IndInv, TypeOK, RowsAgree, Visible, Ends
<1> DEFINE Goal == \/ Visible(u)' = Visible(u)
                   \/ faults' > 0 /\ Visible(u)' = "running"
<1>1. ASSUME occupied'[u] = occupied[u], occupied[u] => decided'[u] = decided[u],
             occupied[u] \/ row'[u] = row[u]
      PROVE  Goal
  BY <1>1 DEF Visible
<1>2. ASSUME NEW t \in Turns, Works(t) PROVE Goal
  <2>1. decided[u] # "none" => decided'[u] = decided[u]
    BY <1>0, <1>2 DEF Works, Decides, Decided
  <2> QED
    BY <1>0, <1>1, <1>2, <2>1 DEF Works
<1>3. ASSUME NEW t \in Turns, Start(t) PROVE Goal
  <2>1. t # u
    BY <1>0, <1>3 DEF Start, At, RowAgrees, Visible, Slots, Active, Unanswered, Ends
  <2> QED
    BY <1>0, <1>1, <1>3, <2>1 DEF Start
<1>4. ASSUME NEW t \in Turns, StartFails(t) \/ Concludes(t) PROVE Goal
  BY <1>1, <1>4, ConcludesShape DEF StartFails, registry
<1>5. ASSUME NEW t \in Turns, Cancel(t) PROVE Goal
  <2>1. decided[u] # "none" => decided'[u] = decided[u]
    BY <1>0, <1>5 DEF Cancel, Decided
  <2>2. occupied[u] \/ row'[u] = row[u]
    BY <1>0, <1>5 DEF Cancel
  <2> QED
    BY <1>0, <1>1, <1>5, <2>1, <2>2 DEF Cancel
<1>6. ASSUME NEW t \in Turns, Settle(t) PROVE Goal
  BY <1>0, <1>1, <1>6 DEF Settle, Decided, saved
<1>7. ASSUME NEW t \in Turns, Save(t) PROVE Goal
  <2>1. occupied[t]
    BY <1>0, <1>7 DEF Save, At, Slots, Active
  <2> QED
    BY <1>0, <1>1, <1>7, <2>1 DEF Save, registry
<1>8. ASSUME NEW t \in Turns, FreeSlot(t) PROVE Goal
  <2>1. CASE t # u
    BY <1>0, <1>1, <1>8, <2>1 DEF FreeSlot, saved
  <2>2. CASE t = u
    <3>1. /\ occupied[u] /\ thread[u].stage = "freeing" /\ ~occupied'[u] /\ row' = row
          /\ faults' = faults
      BY <1>0, <1>8, <2>2 DEF FreeSlot, saved, At, Slots, Active, NoFault
    <3>2. \/ row[u] = decided[u]
          \/ row[u] = "running" /\ faults > 0
      BY <1>0, <3>1 DEF RowAgrees
    <3> QED
      BY <1>0, <3>1, <3>2 DEF Visible
  <2> QED
    BY <2>1, <2>2
<1>9. CASE Crash
  <2>1. ~occupied'[u] /\ row' = row /\ faults' > 0
    BY <1>0, <1>9 DEF Crash, saved, Fault
  <2>2. occupied[u] => row[u] \in {"running", decided[u]}
    BY <1>0 DEF RowAgrees
  <2> QED
    BY <1>0, <2>1, <2>2 DEF Visible
<1>10. CASE UNCHANGED <<registry, thread, saved, faults>>
  BY <1>1, <1>10 DEF registry, saved
<1> QED
  BY <1>0, <1>2, <1>3, <1>4, <1>5, <1>6, <1>7, <1>8, <1>9, <1>10, Cases

(* Cancellation, time limit, failure and the end of the stream race in any *)
(* order: what a client was told of the end does not change.               *)
THEOREM EndsAreFinal == Spec => EndNeverReverts
<1>1. IndInv /\ [Next]_vars => [EndsStay]_vars
  BY EndsStayStep
<1>2. Spec => [][EndsStay]_vars
  BY <1>1, Inductive, PTL DEF Spec
<1> QED
  BY <1>2 DEF EndNeverReverts, EndsStay
=============================================================================
