--------------------------- MODULE TaskLifecycle ---------------------------
(***************************************************************************)
(* What execute() promises to those who read its events and states: steps  *)
(* are started in rounds, each only after the steps it depends on; a round *)
(* is over before the next one, a new plan or the end; a failed step leads *)
(* to a new plan while the budget lasts, and to a failed task after that.  *)
(***************************************************************************)
EXTENDS Integers, Sequences, Functions

CONSTANTS Steps, Plans, MaxConcurrent, MaxReplans

VARIABLES
    plan,      \* the plan in force
    steps,     \* the state of each of its steps
    replans,   \* new plans asked for so far
    outcome    \* how the task ended

vars == <<plan, steps, replans, outcome>>

StepsOf(p) == Range(p.order)

AllPending(p) == [s \in StepsOf(p) |-> "pending"]

Init ==
    /\ plan \in Plans
    /\ steps = AllPending(plan)
    /\ replans = 0
    /\ outcome = "open"

In(states) == {s \in StepsOf(plan) : steps[s] \in states}

Quiet == In({"active"}) = {}

Startable ==
    {s \in In({"pending"}) : plan.deps[s] \subseteq In({"completed", "skipped"})}

\* A round: at most max_concurrent steps whose dependencies are done.
Start ==
    /\ outcome = "open"
    /\ Quiet
    /\ In({"failed", "lost"}) = {}
    /\ \E round \in (SUBSET Startable) \ {{}} :
           /\ \E f \in [1..MaxConcurrent -> round] : Range(f) = round
           /\ steps' = [s \in StepsOf(plan) |->
                            IF s \in round THEN "active" ELSE steps[s]]
    /\ UNCHANGED <<plan, replans, outcome>>

End(s, result) ==
    /\ outcome = "open"
    /\ s \in In({"active"})
    /\ steps' = [steps EXCEPT ![s] = result]
    /\ UNCHANGED <<plan, replans, outcome>>

\* The planner is asked for a new plan, and answers.
AskReplan ==
    /\ outcome = "open"
    /\ Quiet
    /\ In({"failed"}) # {}
    /\ replans < MaxReplans
    /\ replans' = replans + 1
    /\ UNCHANGED <<plan, steps, outcome>>

NewPlan ==
    /\ outcome = "open"
    /\ Quiet
    /\ In({"failed"}) # {}
    /\ replans > 0
    /\ plan' \in Plans
    /\ steps' = AllPending(plan')
    /\ UNCHANGED <<replans, outcome>>

\* The task completes only with nothing failed, lost or startable.
Complete ==
    /\ outcome = "open"
    /\ Quiet
    /\ In({"failed", "lost"}) = {}
    /\ \A s \in Startable : \E d \in plan.deps[s] : steps[d] = "skipped"
    /\ outcome' = "completed"
    /\ UNCHANGED <<plan, steps, replans>>

Fail ==
    /\ outcome = "open"
    /\ Quiet
    /\ In({"failed"}) # {}
    /\ replans = MaxReplans
    /\ outcome' = "failed"
    /\ UNCHANGED <<plan, steps, replans>>

\* An exception escapes: no promise but that nothing of the round goes on.
Abort ==
    /\ Quiet
    /\ outcome # "aborted"
    /\ outcome' = "aborted"
    /\ UNCHANGED <<plan, steps, replans>>

Next ==
    \/ Start
    \/ \E s \in Steps, result \in {"completed", "failed", "skipped", "lost"} :
           End(s, result)
    \/ AskReplan
    \/ NewPlan
    \/ Complete
    \/ Fail
    \/ Abort

Spec == Init /\ [][Next]_vars
=============================================================================
