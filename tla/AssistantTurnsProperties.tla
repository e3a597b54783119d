----------------------- MODULE AssistantTurnsProperties -----------------------
(***************************************************************************)
(* What the runner of assistant turns promises, over AssistantTurns.       *)
(***************************************************************************)
EXTENDS AssistantTurns

Stages == {"none", "refused", "accepted", "stranded", "reading", "deciding", "timing",
           "expiring", "expired", "crashed", "telling", "closing", "settling", "saving",
           "freeing", "ended", "dead"}
Statuses == {"none", "running"} \cup Ends
Kinds == {"text", "tool"} \cup Failures

Threads == [stage : Stages, stop : {"none", "ended", "told", "error", "cancelled"},
            hand : {"none"} \cup Kinds, reported : SUBSET Failures,
            spoken : BOOLEAN, late : BOOLEAN]
EventKinds == {"text", "tool", "failure"}
ChatEvents == [turn : Turns, kind : EventKinds]
ChatMessages == [turn : Turns, role : {"user", "assistant"}]
Readers == [stage : {"idle", "asking", "sending", "closed", "live", "events", "messages", "done"},
            turn : Turns \cup {NoTurn}, settled : BOOLEAN, status : Statuses,
            seen : Nat, heard : Nat]

(* Type invariant; an entry of the registry has a saved row.               *)
TypeOK ==
  /\ occupied \in [Turns -> BOOLEAN] /\ signal \in [Turns -> BOOLEAN]
  /\ decided \in [Turns -> {"none"} \cup Ends]
  /\ thread \in [Turns -> Threads]
  /\ row \in [Turns -> Statuses] /\ accepted \in [Turns -> Nat]
  /\ events \in [Sessions -> Seq(ChatEvents)]
  /\ messages \in [Sessions -> Seq(ChatMessages)]
  /\ reader \in Readers /\ (reader.stage # "idle" => reader.turn # NoTurn)
  /\ faults \in 0..MaxFaults
  /\ \A t \in Turns : occupied[t] => row[t] # "none"

(* Two turns of a session never run into each other, although a cancelled  *)
(* turn goes on until its provider yields: an answer follows the question  *)
(* of its own turn, and behind accepted_sequence a turn's events are in    *)
(* one piece.                                                              *)
TurnsDoNotMix ==
  \A s \in Sessions :
    /\ \A i \in DOMAIN messages[s] :
         messages[s][i].role = "assistant" =>
           /\ i > 1
           /\ messages[s][i - 1] = [turn |-> messages[s][i].turn, role |-> "user"]
    /\ \A i \in DOMAIN events[s] :
         LET t == events[s][i].turn
         IN  /\ SessionOf[t] = s /\ accepted[t] < i
             /\ \A j \in accepted[t] + 1 .. i : events[s][j].turn = t

(* Cancellation, time limit, failure and the end of the stream race, and   *)
(* the first stays: an end a client has seen never becomes another one.    *)
(* Only after a failed write or a dead process may the turn be seen        *)
(* running again.                                                          *)
EndNeverReverts ==
  [][\A t \in Turns : Visible(t) \in Ends =>
       \/ Visible(t)' = Visible(t)
       \/ faults' > 0 /\ Visible(t)' = "running"]_vars

(* A stream the server closes has sent every event of its turn, also those *)
(* that were written while it was closing: none comes later.               *)
NothingMissed ==
  reader.stage = "closed" =>
    \A i \in DOMAIN Events(reader.turn) :
      i > reader.seen => Events(reader.turn)[i].turn # reader.turn

(* A history that shows a turn as completed has all of it, although it was *)
(* read in four pieces: nothing of the turn comes later, and if an event   *)
(* of it is text, its answer is among the messages that were read: an answer  *)
(* that could not be saved never passes as completed.                      *)
CompletedIsWhole ==
  reader.stage = "done" /\ reader.status = "completed" =>
    LET t == reader.turn
        said == messages[SessionOf[t]]
    IN  /\ \A i \in DOMAIN Events(t) : i > reader.seen => Events(t)[i].turn # t
        /\ \A i \in DOMAIN said : i > reader.heard => said[i].turn # t
        /\ (\E i \in DOMAIN Events(t) : Events(t)[i] = [turn |-> t, kind |-> "text"]) =>
             \E i \in DOMAIN said :
               i <= reader.heard /\ said[i] = [turn |-> t, role |-> "assistant"]

(* Whatever ends a turn whose thread could be started, its session is free *)
(* again: failing writes, a crash of the consumer, a cancellation or the   *)
(* time limit at any point.                                                *)
SlotFreed ==
  \A t \in Turns : occupied[t] ~> (~occupied[t] \/ At(t, "stranded"))

-----------------------------------------------------------------------------
(* Said by the code and refuted by TLC (README, section 3).                *)

(* "The slot is freed and the turn ends whichever way it ends"             *)
(* (_turns.py:33): said of every turn that was accepted.                   *)
SlotAlwaysFreed == \A t \in Turns : occupied[t] ~> ~occupied[t]

(* The history is read turns first so that it never shows a turn as failed *)
(* without the failure event (_assistant_routes.py:259-262).               *)
FailureIsShown ==
  reader.stage = "done" /\ reader.status = "failed" =>
    \E i \in 1..reader.seen : /\ Events(reader.turn)[i].turn = reader.turn
                              /\ Events(reader.turn)[i].kind = "failure"
=============================================================================
