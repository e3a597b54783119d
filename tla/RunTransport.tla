---------------------------- MODULE RunTransport ----------------------------
(***************************************************************************)
(* What a transport of runs promises the run service (RunExecutionPort,    *)
(* RunHandle, RunListener): a run that was taken on ends in one outcome,   *)
(* which is reported once; it ends as cancelled only if that was asked     *)
(* for; its result is in place if and only if the outcome says so, unless  *)
(* it can not be removed; nothing is written once the outcome is settled.  *)
(***************************************************************************)
CONSTANT Runs

VARIABLES phase,   \* of each run: new, running, settled, over
          outcome, \* what it is settled as
          report,  \* what the service was told
          files,   \* the run's directory: none, partial, whole
          asked,   \* runs whose cancellation was asked for
          left     \* runs given up by a shutdown

vars == <<phase, outcome, report, files, asked, left>>

Init ==
  /\ phase = [r \in Runs |-> "new"]
  /\ outcome = [r \in Runs |-> "none"] /\ report = outcome /\ files = outcome
  /\ asked = {} /\ left = {}

Start(r) ==
  /\ phase[r] = "new" /\ \E p \in {"running", "over"} : phase' = [phase EXCEPT ![r] = p]
  /\ UNCHANGED <<outcome, report, files, asked, left>>

Ask(r) ==
  /\ phase[r] # "new" /\ asked' = asked \union {r}
  /\ UNCHANGED <<phase, outcome, report, files, left>>

GiveUp(r) ==
  /\ phase[r] # "new" /\ left' = left \union {r}
  /\ UNCHANGED <<phase, outcome, report, files, asked>>

Write(r) ==
  /\ phase[r] = "running" /\ \E f \in {"none", "partial", "whole"} : files' = [files EXCEPT ![r] = f]
  /\ UNCHANGED <<phase, outcome, report, asked, left>>

Settle(r) ==
  /\ phase[r] = "running" /\ phase' = [phase EXCEPT ![r] = "settled"]
  /\ \E o \in {"committed", "failed", "cancelled"} :
       /\ o = "cancelled" => r \in asked
       /\ outcome' = [outcome EXCEPT ![r] = o]
       /\ \/ o = "committed" /\ files[r] = "whole" /\ r \notin left /\ UNCHANGED files
          \/ /\ o # "committed" \/ r \in left
             /\ files' \in {files, [files EXCEPT ![r] = "none"]}
  /\ UNCHANGED <<report, asked, left>>

(* A run given up need not be reported.                                    *)
Report(r) ==
  /\ phase[r] = "settled" /\ phase' = [phase EXCEPT ![r] = "over"]
  /\ \/ report' = [report EXCEPT ![r] = outcome[r]]
     \/ r \in left /\ UNCHANGED report
  /\ UNCHANGED <<outcome, files, asked, left>>

Next == \E r \in Runs : Start(r) \/ Ask(r) \/ GiveUp(r) \/ Write(r) \/ Settle(r) \/ Report(r)

Spec == Init /\ [][Next]_vars
=============================================================================
