---------------------------- MODULE RunLifecycle ----------------------------
(***************************************************************************)
(* What a client of the run service is promised about the status of a run, *)
(* whoever shares it and however it is computed: the statuses follow one   *)
(* another in a fixed order, an end is final, and a restart takes back     *)
(* nothing that had been completed, nor any end that had been saved; it    *)
(* may only turn a run whose end was not saved into a failed one.          *)
(***************************************************************************)
CONSTANT Runs

VARIABLES
    view,    \* the status a client is told
    sure,    \* the runs whose end no restart takes back
    up       \* whether requests are served

vars == <<view, sure, up>>

Unfinished == {"queued", "running", "cancel_requested"}
Terminal == {"completed", "failed", "cancelled"}

Init ==
    /\ view = [r \in Runs |-> "absent"]
    /\ sure = {}
    /\ up = TRUE

(* Which status may follow.  A run whose cancellation was requested ends   *)
(* cancelled, and in no other way.                                         *)
Follows(st) ==
    CASE st = "absent" -> {"queued"}
      [] st = "queued" -> {"running", "cancel_requested"} \cup Terminal
      [] st = "running" -> {"cancel_requested"} \cup Terminal
      [] st = "cancel_requested" -> {"cancelled"}
      [] OTHER -> {}

(* An end is saved together with what the client sees, and a completion    *)
(* always is.                                                              *)
Step(r, st) ==
    /\ up
    /\ st \in Follows(view[r])
    /\ view' = [view EXCEPT ![r] = st]
    /\ \/ st # "completed" /\ sure' = sure
       \/ st \in Terminal /\ sure' = sure \cup {r}
    /\ UNCHANGED up

(* The server stops.  A run whose end is not sure is unfinished again.     *)
Stop ==
    /\ up' = FALSE
    /\ \E back \in [Runs -> Unfinished] :
         view' = [r \in Runs |-> IF r \in sure \/ view[r] = "absent" THEN view[r] ELSE back[r]]
    /\ UNCHANGED sure

(* Before it serves again it closes what did not finish.                   *)
Close(r) ==
    /\ ~up
    /\ view[r] \in Unfinished
    /\ view' = [view EXCEPT ![r] = "failed"]
    /\ sure' = sure \cup {r}
    /\ UNCHANGED up

Serve ==
    /\ ~up
    /\ \A r \in Runs : view[r] \notin Unfinished
    /\ up' = TRUE
    /\ UNCHANGED <<view, sure>>

Next ==
    \/ \E r \in Runs : Close(r) \/ \E st \in Unfinished \cup Terminal : Step(r, st)
    \/ Stop
    \/ Serve

Spec == Init /\ [][Next]_vars
=============================================================================
