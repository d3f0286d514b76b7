---------------------------- MODULE RunLifecycle ----------------------------
(***************************************************************************)
(* One execution as the API around it and the readers of the saved status  *)
(* may count on it: it saves "running" on its way and a final status at    *)
(* its end, at no other time; it is left by an exception only while no     *)
(* step waits for the user; a restart ends it wherever it is.  Executor    *)
(* implements it in detail, and Session for each of its executions.        *)
(***************************************************************************)
VARIABLES
    run,    \* where the execution is
    saved   \* the status in Redis, if it is this execution that saved it

vars == <<run, saved>>

FinalStatus == {"completed", "failed"}

\* Not yet begun, or at its beginning; whatever is saved is another's.
Init ==
    /\ run \in {"new", "running"}
    /\ saved = "other"

Goes(from, to) == run \in from /\ run' = to

Begin == Goes({"new"}, "running") /\ UNCHANGED saved

\* Some step waits for a confirmation; no step waits any more.
Pause == Goes({"running"}, "waiting") /\ UNCHANGED saved
Resume == Goes({"waiting"}, "running") /\ UNCHANGED saved

SaveProgress == Goes({"running"}, "running") /\ saved' = "running"
SaveOutcome == Goes({"running"}, "closing") /\ saved' \in FinalStatus

End == Goes({"closing"}, "ended") /\ UNCHANGED saved
Raise == Goes({"running"}, "raised") /\ UNCHANGED saved
Kill == Goes({"new", "running", "waiting"}, "killed") /\ UNCHANGED saved

\* Another execution of the session saves its status.
Overwritten == saved' = "other" /\ UNCHANGED run

Next ==
    \/ Begin \/ Pause \/ Resume
    \/ SaveProgress \/ SaveOutcome
    \/ End \/ Raise \/ Kill
    \/ Overwritten

Spec == Init /\ [][Next]_vars
=============================================================================
