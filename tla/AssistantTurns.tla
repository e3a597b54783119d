--------------------------- MODULE AssistantTurns ---------------------------
(***************************************************************************)
(* application/assistant_chat/_turns.py: the runner of assistant turns,    *)
(* with the stream it consumes (_stream in _chat.py), the saved sessions   *)
(* (adapters/outbound/assistant_sqlite) and two readers of the HTTP API    *)
(* (_assistant_routes.py): an event stream and the history of a session.   *)
(*                                                                         *)
(* A turn runs on a thread of its own.  The registry and the cancellation  *)
(* signals are in memory; rows, events and messages are saved, each write  *)
(* a transaction of its own.  Every action is one section of the runner's  *)
(* lock or one transaction: in between, a client may cancel or read, and   *)
(* the process may die.                                                    *)
(***************************************************************************)
EXTENDS Integers, Sequences, FiniteSets

CONSTANTS Turns,        \* the turns that may be asked for
          Sessions,     \* the chat sessions
          SessionOf,    \* the session of each turn
          NoTurn,       \* what a reader looks at before it has a turn
          MaxEvents,    \* bound: a turn with so many events gets no more of its provider
          Watched,      \* bound: the turns whose events and history a client reads
          MaxFaults     \* bound: failed writes, threads and processes in one behaviour

ASSUME TurnsAssumption == SessionOf \in [Turns -> Sessions] /\ NoTurn \notin Turns
ASSUME BoundsAssumption ==
  MaxEvents \in [Turns -> Nat] /\ Watched \subseteq Turns /\ MaxFaults \in Nat

VARIABLES occupied,   \* _running: has the turn an entry
          decided,    \* _Running.decided; "none" while open
          signal,     \* _Running.cancel: the event that asks the provider to stop
          thread,     \* how far the turn's thread and its stream have come
          row,        \* the saved status of the turn
          accepted,   \* Turn.accepted_sequence
          events,     \* chat_events of each session, by sequence
          messages,   \* chat_messages of each session, by ordinal
          reader,     \* a client that reads: an event stream or a history
          faults

registry == <<occupied, decided, signal>>
saved == <<row, accepted, events, messages>>
vars == <<registry, thread, saved, reader, faults>>

Failures == {"error", "cancelled", "timeout", "internal"}
Ends == {"completed", "failed", "cancelled"}

(* stop is state.stop: none while the provider's events are read, ended    *)
(* when they ran out, otherwise what is still to be reported, or told.     *)
(* hand is the event the consumer works on, late the grace period.         *)
NewThread == [stage |-> "none", stop |-> "none", hand |-> "none",
              reported |-> {}, spoken |-> FALSE, late |-> FALSE]

(* seen and heard are how far the client has the events and the messages.  *)
NoReader == [stage |-> "idle", turn |-> NoTurn, settled |-> FALSE, status |-> "none",
             seen |-> 0, heard |-> 0]

Init ==
  /\ occupied = [t \in Turns |-> FALSE]
  /\ decided = [t \in Turns |-> "none"]
  /\ signal = [t \in Turns |-> FALSE]
  /\ thread = [t \in Turns |-> NewThread]
  /\ row = [t \in Turns |-> "none"]
  /\ accepted = [t \in Turns |-> 0]
  /\ events = [s \in Sessions |-> <<>>]
  /\ messages = [s \in Sessions |-> <<>>]
  /\ reader = NoReader
  /\ faults = 0

At(t, stage) == thread[t].stage = stage
GoesTo(t, stage) == thread' = [thread EXCEPT ![t].stage = stage]

(* _consume() is left: of what it knew only the spoken text goes on.       *)
Leaves(t, stage, spoken) ==
  thread' = [thread EXCEPT ![t] = [NewThread EXCEPT !.stage = stage, !.spoken = spoken]]

Fault == faults < MaxFaults /\ faults' = faults + 1
NoFault == UNCHANGED faults

Events(t) == events[SessionOf[t]]
EventKind(kind) == IF kind \in Failures THEN "failure" ELSE kind
AppendEvent(t, kind) ==
  events' = [events EXCEPT ![SessionOf[t]] =
               Append(@, [turn |-> t, kind |-> EventKind(kind)])]
AppendMessage(t, role) ==
  messages' = [messages EXCEPT ![SessionOf[t]] = Append(@, [turn |-> t, role |-> role])]

(* view() for a turn of the registry, otherwise the saved row.             *)
Visible(t) ==
  IF ~occupied[t] THEN row[t] ELSE IF decided[t] = "none" THEN "running" ELSE decided[t]

(* update_turn() refuses to change the end of a turn that has one.         *)
Updated(t, status) == IF row[t] \in Ends THEN row[t] ELSE status

(* _decide(): the first reason stays.                                      *)
(* Mutant of Decided: the last one does.                                   *)
DecidedLast(t, status) == [decided EXCEPT ![t] = status]
Decided(t, status) ==
  IF occupied[t] /\ decided[t] = "none" THEN [decided EXCEPT ![t] = status] ELSE decided
-----------------------------------------------------------------------------
(* start().  The slot of a session is taken by whatever turn has an entry. *)
(* Mutant of Free: a cancellation frees it.                                *)
FreeOnceDecided(s) == \A t \in Turns : occupied[t] /\ SessionOf[t] = s => decided[t] # "none"
Free(s) == \A t \in Turns : occupied[t] => SessionOf[t] # s

Start(t) ==
  /\ At(t, "none") /\ Free(SessionOf[t])
  /\ AppendMessage(t, "user")
  /\ accepted' = [accepted EXCEPT ![t] = Len(Events(t))]
  /\ row' = [row EXCEPT ![t] = "running"]
  /\ occupied' = [occupied EXCEPT ![t] = TRUE]
  /\ GoesTo(t, "accepted")
  /\ UNCHANGED <<decided, signal, events, reader>> /\ NoFault

(* The question is saved, then reading the messages or create_turn fails:  *)
(* it stays without a turn.                                                *)
StartFails(t) ==
  /\ At(t, "none") /\ Free(SessionOf[t])
  /\ AppendMessage(t, "user")
  /\ GoesTo(t, "refused")
  /\ UNCHANGED <<registry, row, accepted, events, reader>> /\ Fault

(* thread.start(), after the lock was given back.                          *)
ThreadStarts(t) ==
  /\ At(t, "accepted") /\ GoesTo(t, "reading")
  /\ UNCHANGED <<registry, saved, reader>> /\ NoFault

ThreadFails(t) ==
  /\ At(t, "accepted") /\ GoesTo(t, "stranded")
  /\ UNCHANGED <<registry, saved, reader>> /\ Fault

(* cancel(): the signal always, the decision if it is still open, and the  *)
(* row with it; that write may fail.                                       *)
Cancel(t) ==
  /\ occupied[t] /\ ~(signal[t] /\ decided[t] # "none")
  /\ signal' = [signal EXCEPT ![t] = TRUE]
  /\ decided' = Decided(t, "cancelled")
  /\ \/ decided[t] # "none" /\ UNCHANGED row /\ NoFault
     \/ decided[t] = "none" /\ row' = [row EXCEPT ![t] = Updated(t, "cancelled")] /\ NoFault
     \/ decided[t] = "none" /\ UNCHANGED row /\ Fault
  /\ UNCHANGED <<occupied, thread, accepted, events, messages, reader>>
-----------------------------------------------------------------------------
(* The stream.  _consume() takes an event from it, appends it, decides if  *)
(* it is a failure, looks at the time, and resumes the stream.             *)
Room(t) == Len(Events(t)) < accepted[t] + MaxEvents[t]

Consume(t, kind, changed) ==
  /\ AppendEvent(t, kind)
  /\ thread' = [thread EXCEPT ![t] =
       [changed EXCEPT !.stage = IF kind \in Failures THEN "deciding" ELSE "timing", !.hand = kind]]
  /\ UNCHANGED <<registry, row, accepted, messages, reader>> /\ NoFault

(* The provider yields.  Only an adapter that saw the signal reports a     *)
(* cancellation.                                                           *)
ProviderEvent(t) ==
  /\ At(t, "reading") /\ thread[t].stop = "none" /\ Room(t)
  /\ \E kind \in {"text", "error", "cancelled"} :
       /\ kind = "cancelled" => signal[t]
       /\ Consume(t, kind, [thread[t] EXCEPT !.spoken = @ \/ kind = "text",
                                             !.reported = @ \cup ({kind} \cap Failures)])

(* What the tools left in the queue is handed out before the provider's    *)
(* next event, or after its last one.                                      *)
ToolEvent(t) ==
  /\ At(t, "reading") /\ thread[t].stop # "told" /\ Room(t)
  /\ Consume(t, "tool", thread[t])

(* The provider's events are over or it raised.                            *)
ProviderEnds(t) ==
  /\ At(t, "reading") /\ thread[t].stop = "none"
  /\ \E reason \in {"error", IF signal[t] THEN "cancelled" ELSE "ended"} :
       thread' = [thread EXCEPT ![t].stop = reason]
  /\ UNCHANGED <<registry, saved, reader>> /\ NoFault

(* The reason to stop is reported, unless the adapter did.  "error" stands *)
(* for several codes, so one reported error need not be the other.         *)
StopEvent(t) ==
  /\ At(t, "reading") /\ thread[t].stop \in Failures
  /\ thread[t].stop = "cancelled" => "cancelled" \notin thread[t].reported
  /\ Consume(t, thread[t].stop, [thread[t] EXCEPT !.stop = "told"])

(* When the stream is left, what was said becomes the assistant's message. *)
SavesAnswer(t) ==
  /\ Leaves(t, "settling", FALSE)
  /\ \/ thread[t].spoken /\ AppendMessage(t, "assistant")
     \/ ~thread[t].spoken /\ UNCHANGED messages
  /\ NoFault

LosesAnswer(t, stage) ==
  /\ thread[t].spoken /\ Leaves(t, stage, FALSE)
  /\ UNCHANGED messages /\ Fault

(* Mutant of StreamEnds: an answer that cannot be saved is only logged.    *)
StreamEndsQuietly(t) ==
  /\ At(t, "reading") /\ thread[t].stop \in {"ended", "told"} \cup thread[t].reported
  /\ SavesAnswer(t) \/ LosesAnswer(t, "settling")
  /\ UNCHANGED <<registry, row, accepted, events, reader>>

(* The stream is left by itself, while the consumer waits for its next     *)
(* event: an answer that cannot be saved crashes the turn.                 *)
StreamEnds(t) ==
  /\ At(t, "reading") /\ thread[t].stop \in {"ended", "told"} \cup thread[t].reported
  /\ SavesAnswer(t) \/ LosesAnswer(t, "crashed")
  /\ UNCHANGED <<registry, row, accepted, events, reader>>

(* The time after an event: within the limit or the grace period the       *)
(* stream is resumed.  After an event of the provider it looks whether a   *)
(* tool gave up on the proposals or the signal is set.                     *)
Resumed(t) ==
  \E reason \in IF thread[t].hand = "tool" \/ thread[t].stop # "none" THEN {thread[t].stop}
                ELSE {"error", IF signal'[t] THEN "cancelled" ELSE "none"} :
    thread' = [thread EXCEPT ![t].stage = "reading", ![t].stop = reason, ![t].hand = "none",
                             ![t].late = @ \/ At(t, "expired")]

InTime(t) ==
  /\ At(t, "timing") /\ UNCHANGED signal /\ Resumed(t)
  /\ UNCHANGED <<occupied, decided, saved, reader>> /\ NoFault

TimeOver(t) ==
  /\ At(t, "timing")
  /\ IF thread[t].late THEN Leaves(t, "closing", thread[t].spoken) ELSE GoesTo(t, "expiring")
  /\ UNCHANGED <<registry, saved, reader>> /\ NoFault

StatusFor(kind) == IF kind = "cancelled" THEN "cancelled" ELSE "failed"

Decide(t) ==
  /\ At(t, "deciding")
  /\ decided' = Decided(t, StatusFor(thread[t].hand))
  /\ GoesTo(t, "timing")
  /\ UNCHANGED <<occupied, signal, saved, reader>> /\ NoFault

(* _expire(): the event, then the decision, then the signal.  Nobody but   *)
(* this thread acts on the signal, so all that follows the event is one    *)
(* step.                                                                   *)
Expire(t) ==
  /\ At(t, "expiring")
  /\ AppendEvent(t, "timeout")
  /\ GoesTo(t, "expired")
  /\ UNCHANGED <<registry, row, accepted, messages, reader>> /\ NoFault

ExpireDecides(t) ==
  /\ At(t, "expired")
  /\ decided' = Decided(t, "failed")
  /\ signal' = [signal EXCEPT ![t] = TRUE]
  /\ Resumed(t)
  /\ UNCHANGED <<occupied, saved, reader>> /\ NoFault

(* An event cannot be saved: the turn crashes (_record_crash).  A text was *)
(* already added to the answer.                                            *)
AppendFails(t) ==
  /\ \/ At(t, "expiring")
     \/ At(t, "reading") /\ thread[t].stop # "told"
  /\ \E spoken \in {thread[t].spoken} \cup IF At(t, "reading") /\ thread[t].stop = "none"
                                          THEN {TRUE} ELSE {} :
       Leaves(t, "crashed", spoken)
  /\ UNCHANGED <<registry, saved, reader>> /\ Fault

CrashDecides(t) ==
  /\ At(t, "crashed")
  /\ decided' = Decided(t, "failed")
  /\ GoesTo(t, "telling")
  /\ UNCHANGED <<occupied, signal, saved, reader>> /\ NoFault

TellCrash(t) ==
  /\ At(t, "telling") /\ GoesTo(t, "closing")
  /\ \/ AppendEvent(t, "internal") /\ NoFault
     \/ UNCHANGED events /\ Fault
  /\ UNCHANGED <<registry, row, accepted, messages, reader>>
-----------------------------------------------------------------------------
(* _close() leaves the stream for the consumer, who gave up on it or       *)
(* crashed; an answer that cannot be saved is only logged.  Of a stream    *)
(* that was left already it has nothing to do.                             *)
Close(t) ==
  /\ At(t, "closing")
  /\ SavesAnswer(t) \/ LosesAnswer(t, "settling")
  /\ UNCHANGED <<registry, row, accepted, events, reader>>

(* _finish(): the end is settled in the registry, saved, and only then the *)
(* slot is free, whether or not the end could be saved.  Only a crash is   *)
(* handed in as a failure, and a crash has decided.                        *)
Settle(t) ==
  /\ At(t, "settling")
  /\ decided' = Decided(t, "completed")
  /\ GoesTo(t, "saving")
  /\ UNCHANGED <<occupied, signal, saved, reader>> /\ NoFault

(* Mutant of Save: the error of a failed write is raised.                  *)
SaveOrRaise(t) ==
  /\ At(t, "saving")
  /\ \/ GoesTo(t, "freeing") /\ row' = [row EXCEPT ![t] = Updated(t, decided[t])] /\ NoFault
     \/ GoesTo(t, "ended") /\ UNCHANGED row /\ Fault
  /\ UNCHANGED <<registry, accepted, events, messages, reader>>

Save(t) ==
  /\ At(t, "saving") /\ GoesTo(t, "freeing")
  /\ \/ row' = [row EXCEPT ![t] = Updated(t, decided[t])] /\ NoFault
     \/ UNCHANGED row /\ Fault
  /\ UNCHANGED <<registry, accepted, events, messages, reader>>

FreeSlot(t) ==
  /\ At(t, "freeing")
  /\ thread' = [thread EXCEPT ![t] = [NewThread EXCEPT !.stage = "ended"]]
  /\ occupied' = [occupied EXCEPT ![t] = FALSE]
  /\ decided' = [decided EXCEPT ![t] = "none"]
  /\ signal' = [signal EXCEPT ![t] = FALSE]
  /\ UNCHANGED <<saved, reader>> /\ NoFault
-----------------------------------------------------------------------------
(* Readers change nothing, so one at a time shows what any number sees.    *)
Reads == UNCHANGED <<registry, thread, saved, faults>>

(* The event stream of the turn that has the slot.  From which sequence on *)
(* the client wants it makes no difference once events were sent; here it  *)
(* is accepted_sequence.  _event_stream() asks first whether the turn is   *)
(* settled (has no entry) and reads the events then.                       *)
(* Mutant of Settled: judged by the status.                                *)
SettledByStatus(t) == Visible(t) \in Ends
Settled(t) == ~occupied[t]

OpenStream(t) ==
  /\ reader.stage = "idle" /\ t \in Watched /\ occupied[t]
  /\ reader' = [NoReader EXCEPT !.stage = "asking", !.turn = t, !.seen = accepted[t]]
  /\ Reads

AskSettled ==
  /\ reader.stage = "asking"
  /\ reader' = [reader EXCEPT !.stage = "sending", !.settled = Settled(reader.turn)]
  /\ Reads

SendEvents ==
  /\ reader.stage = "sending"
  /\ reader' = [reader EXCEPT !.stage = IF reader.settled THEN "closed" ELSE "asking",
                              !.seen = Len(Events(reader.turn))]
  /\ Reads

(* get_assistant_session() reads the saved turns, then those of the        *)
(* registry, which win, then the events, then the messages.  One turn of   *)
(* the answer is followed.                                                 *)
ReadRows(t) ==
  /\ reader.stage = "idle" /\ t \in Watched /\ row[t] # "none"
  /\ reader' = [NoReader EXCEPT !.stage = "live", !.turn = t, !.status = row[t]]
  /\ Reads

ReadLive ==
  /\ reader.stage = "live"
  /\ reader' = [reader EXCEPT !.stage = "events",
                   !.status = IF occupied[reader.turn] THEN Visible(reader.turn) ELSE @]
  /\ Reads

ReadEvents ==
  /\ reader.stage = "events"
  /\ reader' = [reader EXCEPT !.stage = "messages", !.seen = Len(Events(reader.turn))]
  /\ Reads

ReadMessages ==
  /\ reader.stage = "messages"
  /\ reader' = [reader EXCEPT !.stage = "done",
                              !.heard = Len(messages[SessionOf[reader.turn]])]
  /\ Reads

(* The process ends and the next one starts with an empty registry.  What  *)
(* was saved stays as it was, the rows of the turns that ran included.     *)
Crash ==
  /\ Fault
  /\ occupied' = [t \in Turns |-> FALSE]
  /\ decided' = [t \in Turns |-> "none"]
  /\ signal' = [t \in Turns |-> FALSE]
  /\ thread' = [t \in Turns |-> IF occupied[t] THEN [NewThread EXCEPT !.stage = "dead"]
                                ELSE thread[t]]
  /\ reader' = NoReader
  /\ UNCHANGED saved
-----------------------------------------------------------------------------
(* What the thread of a turn does by itself.                               *)
Produce(t) == \/ ProviderEvent(t) \/ ToolEvent(t) \/ ProviderEnds(t)
              \/ StopEvent(t) \/ StreamEnds(t)
ThreadStep(t) ==
  \/ Produce(t) \/ Decide(t) \/ InTime(t) \/ TimeOver(t)
  \/ Expire(t) \/ ExpireDecides(t)
  \/ AppendFails(t) \/ CrashDecides(t) \/ TellCrash(t)
  \/ Close(t) \/ Settle(t) \/ Save(t) \/ FreeSlot(t)

Read == \/ \E t \in Turns : OpenStream(t) \/ ReadRows(t)
        \/ AskSettled \/ SendEvents
        \/ ReadLive \/ ReadEvents \/ ReadMessages

Next ==
  \/ \E t \in Turns : \/ Start(t) \/ StartFails(t) \/ ThreadStarts(t) \/ ThreadFails(t)
                      \/ Cancel(t) \/ ThreadStep(t)
  \/ Read
  \/ Crash

Spec == Init /\ [][Next]_vars

FairSpec == /\ Spec
            /\ \A t \in Turns : WF_vars(ThreadStarts(t) \/ ThreadFails(t)) /\ WF_vars(ThreadStep(t))
=============================================================================
