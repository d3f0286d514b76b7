------------------------------ MODULE Executor ------------------------------
(***************************************************************************)
(* The dual-loop execution engine, hermes/executor.py: one call of         *)
(* DualLoopExecutor.execute, the step tasks its outer loop gathers, and    *)
(* the confirm requests that arrive meanwhile from the API.                *)
(*                                                                         *)
(* asyncio runs one coroutine at a time and switches only where one        *)
(* suspends, so an action is the code between two suspension points.  The  *)
(* stream's emit never suspends (its lock is uncontended and the event     *)
(* store is in memory), so an event is part of the action that emits it.   *)
(***************************************************************************)
EXTENDS Integers, SequencesExt

CONSTANTS
    Steps,          \* step ids that plans and confirm requests may name
    Plans,          \* the plans the planner may answer with
    MaxConcurrent,  \* max_concurrent of _outer_loop (3 in the code)
    MaxRetries,     \* settings.max_retries_per_step
    MaxReplans      \* settings.max_replans

\* The steps of a plan, as the key set of steps_by_id.
StepsOf(p) == Range(p.order)

\* What parsing leaves of a Plan: the order of its steps, depends_on (which
\* nobody validates: it may name steps of no plan, or form a cycle) and
\* requires_confirm.  Distinct step ids are a precondition: the planner's
\* prompt asks for them, but nothing checks them, and of a plan that repeats
\* an id the code lists the step twice and runs it twice.
IsPlan(p) ==
    /\ p.order \in Seq(Steps)
    /\ IsInjective(p.order)
    /\ p.deps \in [StepsOf(p) -> SUBSET Steps]
    /\ p.confirm \subseteq StepsOf(p)

ASSUME ConstantsAssumption ==
    /\ IsFiniteSet(Steps)
    /\ \A p \in Plans : IsPlan(p)
    /\ MaxConcurrent \in Nat \ {0}
    /\ MaxRetries \in Nat
    /\ MaxReplans \in Nat

VARIABLES
    plan,           \* current_plan
    phase,          \* where the coroutine of execute() is suspended
    ready,          \* _outer_loop: steps whose dependencies are met, in order
    batch,          \* _outer_loop: the steps being gathered
    cursor,         \* the next result of the batch to process
    completed,      \* _outer_loop: steps whose result was processed
    taskStatus,     \* state.task_status
    stepState,      \* state.step_states
    replans,        \* state.replan_count
    observations,   \* state.observations
    pc,             \* where the task of each step is suspended
    attempt,        \* the loop variable of _execute_step
    confirmEvent,   \* _confirm_events: unregistered, registered or set
    confirmResult,  \* _confirm_results
    saved,          \* the execution state last written to Redis
    announced,      \* status carried by the TASK_COMPLETE event, once emitted
    approval        \* history: last answer given to the step while it waited

loopVars == <<plan, phase, ready, batch, cursor, completed>>
stateVars == <<taskStatus, stepState, replans, observations>>
taskVars == <<pc, attempt>>
confirmVars == <<confirmEvent, confirmResult, approval>>
outVars == <<saved, announced>>
vars == <<loopVars, stateVars, taskVars, confirmVars, outVars>>

StepStatus == {"pending", "running", "completed", "failed", "skipped",
               "waiting_confirm"}
TaskStatus == {"running", "paused", "completed", "failed"}

NotSaved == [task |-> "none"]
Snapshot == [task |-> taskStatus, steps |-> stepState, replans |-> replans,
             observed |-> observations]

----------------------------------------------------------------------------

Pending(p) == [s \in StepsOf(p) |-> "pending"]

\* The steps _outer_loop starts with: those without dependencies, in the
\* order of the plan (a set of exactly one sequence).
Position(p, s) == CHOOSE i \in DOMAIN p.order : p.order[i] = s
InitialReady(p) ==
    {r \in SetToSeqs({s \in StepsOf(p) : p.deps[s] = {}}) :
        \A i, j \in DOMAIN r : i < j => Position(p, r[i]) < Position(p, r[j])}

Init ==
    /\ plan \in Plans
    /\ phase = "loop"
    /\ ready \in InitialReady(plan)
    /\ batch = << >>
    /\ cursor = 1
    /\ completed = {}
    /\ taskStatus = "running"
    /\ stepState = Pending(plan)
    /\ replans = 0
    /\ observations = << >>
    /\ pc = [s \in Steps |-> "idle"]
    /\ attempt = [s \in Steps |-> 0]
    /\ confirmEvent = [s \in Steps |-> "none"]
    /\ confirmResult = [s \in Steps |-> "none"]
    /\ saved = NotSaved
    /\ announced = "none"
    /\ approval = [s \in Steps |-> "none"]

\* A step task returned, or was left by an exception.
Ended(s) == pc[s] \in {"returned", "crashed"}

----------------------------------------------------------------------------
\* The outer loop.

BatchSize == IF Len(ready) < MaxConcurrent THEN Len(ready) ELSE MaxConcurrent

\* Take the next batch off the ready list and gather its tasks.  The tasks
\* are scheduled back to back, so each runs to its first suspension before
\* anything else does: a step that needs confirmation registers a fresh
\* event and pauses the task, another one makes its first tool call.
StartBatch ==
    /\ phase = "loop"
    /\ ready # << >>
    /\ batch' = SubSeq(ready, 1, BatchSize)
    /\ ready' = SubSeq(ready, BatchSize + 1, Len(ready))
    /\ LET started == Range(batch')
           held == started \cap plan.confirm
       IN  /\ stepState' = [s \in StepsOf(plan) |->
                 IF s \in held THEN "waiting_confirm"
                 ELSE IF s \in started THEN "running" ELSE stepState[s]]
           /\ taskStatus' = IF held # {} THEN "paused" ELSE taskStatus
           /\ pc' = [s \in Steps |->
                 IF s \in held THEN "confirm"
                 ELSE IF s \in started THEN "call" ELSE "idle"]
           /\ attempt' = [s \in Steps |-> 0]
           /\ confirmEvent' = [s \in Steps |->
                 IF s \in held THEN "unset" ELSE confirmEvent[s]]
           /\ approval' = [s \in Steps |->
                 IF s \in held THEN "none" ELSE approval[s]]
    /\ phase' = "gather"
    /\ cursor' = 1
    /\ UNCHANGED <<plan, completed, replans, observations,
                   confirmResult, outVars>>

\* Faulty variant: gather without return_exceptions, which is left by the
\* first exception while its siblings still run.
GatherReturnsEarly ==
    /\ phase = "gather"
    /\ \/ \A i \in DOMAIN batch : Ended(batch[i])
       \/ \E i \in DOMAIN batch : Ended(batch[i]) /\ stepState[batch[i]] = "failed"
    /\ phase' = "results"
    /\ UNCHANGED <<plan, ready, batch, cursor, completed, stateVars, taskVars,
                   confirmVars, outVars>>

\* gather returns once every task of the batch has ended, failed or not.
GatherReturns ==
    /\ phase = "gather"
    /\ \A i \in DOMAIN batch : Ended(batch[i])
    /\ phase' = "results"
    /\ UNCHANGED <<plan, ready, batch, cursor, completed, stateVars, taskVars,
                   confirmVars, outVars>>

\* Faulty variants: a dependent is unlocked by any of its dependencies; is
\* unlocked again by every later result; is looked up before the step that
\* completed is added.
UnlockedByAny(s, done) == {d \in StepsOf(plan) : s \in plan.deps[d]}
UnlockedAgain(s, done) == {d \in StepsOf(plan) : plan.deps[d] \subseteq done}
UnlockedTooEarly(s, done) ==
    {d \in StepsOf(plan) : s \in plan.deps[d] /\ plan.deps[d] \subseteq done \ {s}}

\* Dependents of s that its completion unlocks, given the steps done so far.
Unlocked(s, done) ==
    {d \in StepsOf(plan) : s \in plan.deps[d] /\ plan.deps[d] \subseteq done}

Observation(s) == [plan |-> replans, step |-> s, status |-> stepState[s]]

\* Faulty variant: a skipped step is not observed.
ObserveCompletedOnly ==
    /\ phase = "results"
    /\ cursor <= Len(batch)
    /\ LET s == batch[cursor]
           done == completed \cup {s}
       IN  /\ pc[s] = "returned"
           /\ stepState[s] \in {"completed", "skipped"}
           /\ observations' = IF stepState[s] = "skipped" THEN observations
                              ELSE Append(observations, Observation(s))
           /\ completed' = done
           /\ \E unlocked \in SetToSeqs(IF stepState[s] = "completed"
                                        THEN Unlocked(s, done) ELSE {}) :
                  ready' = ready \o unlocked
    /\ cursor' = cursor + 1
    /\ UNCHANGED <<plan, phase, batch, taskStatus, stepState, replans,
                   taskVars, confirmVars, outVars>>

\* A result that is an Observation: it is recorded and yielded, then its
\* dependents are unlocked.  They are kept in a set of strings, so the
\* order in which they join the ready list is arbitrary.  A skipped step
\* counts as completed but unlocks nothing.
ProcessObservation ==
    /\ phase = "results"
    /\ cursor <= Len(batch)
    /\ LET s == batch[cursor]
           done == completed \cup {s}
       IN  /\ pc[s] = "returned"
           /\ stepState[s] \in {"completed", "skipped"}
           /\ observations' = Append(observations, Observation(s))
           /\ completed' = done
           /\ \E unlocked \in SetToSeqs(IF stepState[s] = "completed"
                                        THEN Unlocked(s, done) ELSE {}) :
                  ready' = ready \o unlocked
    /\ cursor' = cursor + 1
    /\ UNCHANGED <<plan, phase, batch, taskStatus, stepState, replans,
                   taskVars, confirmVars, outVars>>

\* A _ReplanNeeded result leaves _outer_loop at once: the results behind it
\* in the batch are dropped.  Within the limit the planner is asked for a
\* new plan; past it the task fails and the completion is announced.
ProcessFailure ==
    /\ phase = "results"
    /\ cursor <= Len(batch)
    /\ pc[batch[cursor]] = "returned"
    /\ stepState[batch[cursor]] = "failed"
    /\ IF replans < MaxReplans
       THEN /\ replans' = replans + 1
            /\ phase' = "replan"
            /\ UNCHANGED <<taskStatus, announced>>
       ELSE /\ taskStatus' = "failed"
            /\ announced' = "failed"
            /\ phase' = "final"
            /\ UNCHANGED replans
    /\ UNCHANGED <<plan, ready, batch, cursor, completed, stepState,
                   observations, taskVars, confirmVars, saved>>

\* Any other exception of a task fails the whole execution and escapes.
ProcessCrash ==
    /\ phase = "results"
    /\ cursor <= Len(batch)
    /\ pc[batch[cursor]] = "crashed"
    /\ taskStatus' = "failed"
    /\ phase' = "raised"
    /\ UNCHANGED <<plan, ready, batch, cursor, completed, stepState, replans,
                   observations, taskVars, confirmVars, outVars>>

\* After the results of a batch, its state is persisted.
SaveBatch ==
    /\ phase = "results"
    /\ cursor > Len(batch)
    /\ saved' = Snapshot
    /\ phase' = "loop"
    /\ UNCHANGED <<plan, ready, batch, cursor, completed, stateVars, taskVars,
                   confirmVars, announced>>

\* With nothing ready the loop breaks, and execute marks the task COMPLETED
\* and announces it.
LoopEnds ==
    /\ phase = "loop"
    /\ ready = << >>
    /\ taskStatus' = "completed"
    /\ announced' = "completed"
    /\ phase' = "final"
    /\ UNCHANGED <<plan, ready, batch, cursor, completed, stepState, replans,
                   observations, taskVars, confirmVars, saved>>

\* Faulty variant: the final state is persisted on success only.
SaveSuccessOnly ==
    /\ phase = "final"
    /\ saved' = IF taskStatus = "completed" THEN Snapshot ELSE saved
    /\ phase' = "done"
    /\ UNCHANGED <<plan, ready, batch, cursor, completed, stateVars, taskVars,
                   confirmVars, announced>>

\* The final state is persisted and the stream closed.
SaveFinal ==
    /\ phase = "final"
    /\ saved' = Snapshot
    /\ phase' = "done"
    /\ UNCHANGED <<plan, ready, batch, cursor, completed, stateVars, taskVars,
                   confirmVars, announced>>

\* planner.replan answers with a plan that replaces the current one.
Replan ==
    /\ phase = "replan"
    /\ plan' \in Plans
    /\ stepState' = Pending(plan')
    /\ ready' \in InitialReady(plan')
    /\ batch' = << >>
    /\ cursor' = 1
    /\ completed' = {}
    /\ pc' = [s \in Steps |-> "idle"]
    /\ phase' = "loop"
    /\ UNCHANGED <<taskStatus, replans, observations, attempt,
                   confirmVars, outVars>>

\* planner.replan raises PlanningError, which nothing in execute catches.
ReplanFails ==
    /\ phase = "replan"
    /\ phase' = "raised"
    /\ UNCHANGED <<plan, ready, batch, cursor, completed, stateVars, taskVars,
                   confirmVars, outVars>>

\* A write to Redis fails: a save of the state, or the message the consumer
\* of the generator appends for each observation.  The exception ends the
\* execution.
MemoryFails ==
    /\ \/ phase = "results" /\ cursor > 1
       \/ phase = "final"
    /\ phase' = "raised"
    /\ UNCHANGED <<plan, ready, batch, cursor, completed, stateVars, taskVars,
                   confirmVars, outVars>>

----------------------------------------------------------------------------
\* The task of one step.

\* The finally of _wait_for_confirm: the step's event and result are dropped.
PopConfirm(s) ==
    /\ confirmEvent' = [confirmEvent EXCEPT ![s] = "none"]
    /\ confirmResult' = [confirmResult EXCEPT ![s] = "none"]

SkipStep(s) ==
    /\ stepState' = [stepState EXCEPT ![s] = "skipped"]
    /\ pc' = [pc EXCEPT ![s] = "returned"]
    /\ UNCHANGED attempt

\* The waiting task wakes after its event was set and reads the answer.  The
\* task status goes back to RUNNING whatever the other steps wait for.
ConfirmWakes(s) ==
    /\ pc[s] = "confirm"
    /\ confirmEvent[s] = "set"
    /\ taskStatus' = "running"
    /\ IF confirmResult[s] = "approved"
       THEN /\ stepState' = [stepState EXCEPT ![s] = "running"]
            /\ pc' = [pc EXCEPT ![s] = "call"]
            /\ attempt' = [attempt EXCEPT ![s] = 0]
       ELSE SkipStep(s)
    /\ PopConfirm(s)
    /\ UNCHANGED <<loopVars, replans, observations, approval, outVars>>

\* Faulty variant: a timeout that falls back on a stored answer.
TimeoutReadsAnswer(s) ==
    /\ pc[s] = "confirm"
    /\ taskStatus' = "running"
    /\ IF confirmResult[s] = "approved"
       THEN /\ stepState' = [stepState EXCEPT ![s] = "running"]
            /\ pc' = [pc EXCEPT ![s] = "call"]
            /\ UNCHANGED attempt
       ELSE SkipStep(s)
    /\ PopConfirm(s)
    /\ UNCHANGED <<loopVars, replans, observations, approval, outVars>>

\* CONFIRM_TIMEOUT_S passed.  The timer may fire between the event being set
\* and the task waking: the cancellation then wins and the answer is lost.
ConfirmTimesOut(s) ==
    /\ pc[s] = "confirm"
    /\ taskStatus' = "running"
    /\ SkipStep(s)
    /\ PopConfirm(s)
    /\ UNCHANGED <<loopVars, replans, observations, approval, outVars>>

CallSucceeds(s) ==
    /\ pc[s] = "call"
    /\ stepState' = [stepState EXCEPT ![s] = "completed"]
    /\ pc' = [pc EXCEPT ![s] = "returned"]
    /\ UNCHANGED <<loopVars, taskStatus, replans, observations, attempt,
                   confirmVars, outVars>>

\* Every MCPError is retried, from a 4xx answer, a 5xx, a broken connection or
\* a tool that reports is_error, until the attempts are used up; then the step
\* is FAILED and its task ends with _ReplanNeeded.
CallFails(s) ==
    /\ pc[s] = "call"
    /\ IF attempt[s] < MaxRetries
       THEN /\ pc' = [pc EXCEPT ![s] = "backoff"]
            /\ UNCHANGED stepState
       ELSE /\ pc' = [pc EXCEPT ![s] = "returned"]
            /\ stepState' = [stepState EXCEPT ![s] = "failed"]
    /\ UNCHANGED <<loopVars, taskStatus, replans, observations, attempt,
                   confirmVars, outVars>>

\* Faulty variant: the attempt is not counted.
BackoffForgets(s) ==
    /\ pc[s] = "backoff"
    /\ pc' = [pc EXCEPT ![s] = "call"]
    /\ UNCHANGED <<loopVars, stateVars, attempt, confirmVars, outVars>>

\* asyncio.sleep(2**attempt) is over: the next attempt calls the tool.
BackoffEnds(s) ==
    /\ pc[s] = "backoff"
    /\ attempt' = [attempt EXCEPT ![s] = @ + 1]
    /\ pc' = [pc EXCEPT ![s] = "call"]
    /\ UNCHANGED <<loopVars, stateVars, confirmVars, outVars>>

\* An exception that is no MCPError (httpx's, from the token login) leaves
\* the step RUNNING and ends its task.
CallCrashes(s) ==
    /\ pc[s] = "call"
    /\ pc' = [pc EXCEPT ![s] = "crashed"]
    /\ UNCHANGED <<loopVars, stateVars, attempt, confirmVars, outVars>>

----------------------------------------------------------------------------

\* A confirm request.  The answer is always stored; the event is set only if
\* the step is waiting, so an answer that comes early is not seen by the wait.
ConfirmStep(s, answer) ==
    /\ phase \notin {"done", "raised"}
    /\ confirmResult' = [confirmResult EXCEPT ![s] = answer]
    /\ IF confirmEvent[s] # "none"
       THEN /\ confirmEvent' = [confirmEvent EXCEPT ![s] = "set"]
            /\ approval' = [approval EXCEPT ![s] = answer]
       ELSE UNCHANGED <<confirmEvent, approval>>
    /\ UNCHANGED <<loopVars, stateVars, taskVars, outVars>>

\* execute() returned or raised.
Stopped == phase \in {"done", "raised"}

Loop ==
    \/ StartBatch
    \/ GatherReturns
    \/ ProcessObservation
    \/ ProcessFailure
    \/ ProcessCrash
    \/ SaveBatch
    \/ LoopEnds
    \/ SaveFinal
    \/ Replan
    \/ ReplanFails
    \/ MemoryFails

StepTask(s) ==
    \/ ConfirmWakes(s)
    \/ ConfirmTimesOut(s)
    \/ CallSucceeds(s)
    \/ CallFails(s)
    \/ BackoffEnds(s)
    \/ CallCrashes(s)

Next ==
    \/ Loop
    \/ \E s \in Steps : StepTask(s)
    \/ \E s \in Steps, answer \in {"approved", "rejected"} :
           ConfirmStep(s, answer)

Spec == Init /\ [][Next]_vars

\* The event loop runs every coroutine that can run; calls end (the HTTP
\* client has a timeout), sleeps end and the confirm timer fires.  Nobody
\* has to answer a confirm request.
FairSpec ==
    /\ Spec
    /\ WF_vars(Loop)
    /\ \A s \in Steps : WF_vars(StepTask(s))

----------------------------------------------------------------------------
\* Properties.

\* Every variable keeps its type; in particular an attempt number never
\* passes max_retries_per_step, replan_count never passes max_replans, and no
\* batch is larger than max_concurrent.
TypeOK ==
    /\ plan \in Plans
    /\ phase \in {"loop", "gather", "results", "replan", "final", "done",
                  "raised"}
    /\ ready \in Seq(StepsOf(plan))
    /\ batch \in Seq(StepsOf(plan)) /\ Len(batch) <= MaxConcurrent
    /\ cursor \in Nat \ {0}
    /\ completed \subseteq StepsOf(plan)
    /\ taskStatus \in TaskStatus
    /\ stepState \in [StepsOf(plan) -> StepStatus]
    /\ replans \in 0..MaxReplans
    /\ pc \in [Steps -> {"idle", "confirm", "call", "backoff", "returned",
                         "crashed"}]
    /\ attempt \in [Steps -> 0..MaxRetries]
    /\ confirmEvent \in [Steps -> {"none", "unset", "set"}]
    /\ confirmResult \in [Steps -> {"none", "approved", "rejected"}]
    /\ approval \in [Steps -> {"none", "approved", "rejected"}]
    /\ announced \in {"none", "completed", "failed"}

\* The task of s is between its start and its end.
Active(s) == pc[s] \in {"confirm", "call", "backoff"}

\* Whatever order results and confirmations come in, a step starts only when
\* every step it depends on, in this plan, has completed or was skipped.
TopologicalOrder ==
    \A s \in StepsOf(plan) : stepState[s] # "pending" =>
        \A d \in plan.deps[s] :
            d \in StepsOf(plan) /\ stepState[d] \in {"completed", "skipped"}

\* With distinct ids (IsPlan), a step runs at most once under one plan: it is
\* never unlocked a second time, so a final status stays until the plan is
\* replaced.
RunsOnce ==
    [][phase # "replan" =>
        \A s \in StepsOf(plan) :
            stepState[s] \in {"completed", "failed", "skipped"} =>
                stepState'[s] = stepState[s]]_vars

\* A step that requires confirmation calls its tool only if the last answer
\* given while it was waiting, under the present plan, approved it: answers
\* that came too early, too late or for a step of the same name in a
\* replaced plan never count.
FreshApproval ==
    \A s \in plan.confirm :
        stepState[s] \in {"running", "completed", "failed"} =>
            approval[s] = "approved"

\* No task outlives its batch: while results are processed, the state is
\* saved or a new plan is made, no step of the batch is still running.
NoOrphans == phase # "gather" => \A s \in Steps : ~Active(s)

\* The task is PAUSED only while some step waits for confirmation.
PausedMeansWaiting ==
    taskStatus = "paused" => \E s \in Steps : pc[s] = "confirm"

\* A task announced as completed leaves no step failed or unfinished, and
\* every step it never started is explained by a dependency that was
\* skipped, never started itself, or is no step of the plan.
CompletedExplained ==
    announced = "completed" =>
        \A s \in StepsOf(plan) :
            \/ stepState[s] \in {"completed", "skipped"}
            \/ /\ stepState[s] = "pending"
               /\ \E d \in plan.deps[s] :
                      \/ d \notin StepsOf(plan)
                      \/ stepState[d] \in {"pending", "skipped"}

\* The observations yielded under a plan come in an order in which the steps
\* could have run, and none comes twice: whatever order the results of a batch
\* came in, a reader of the history never meets a step before those it needs.
ObservedInOrder ==
    \A i \in DOMAIN observations : observations[i].plan = replans =>
        LET before == {observations[j].step :
                          j \in {k \in 1 .. i - 1 : observations[k].plan = replans}}
        IN  /\ observations[i].step \notin before
            /\ plan.deps[observations[i].step] \subseteq before

\* Once execute() returned, a status query answers from Redis with the same
\* state and status that TASK_COMPLETE announced.
AnnouncedIsSaved ==
    phase = "done" => saved = Snapshot /\ announced = taskStatus

\* execute() always comes to an end: retries, replans and confirmations
\* nobody answers do not keep it going for ever.
Terminates == <>Stopped

----------------------------------------------------------------------------
\* The inductive invariant behind RunsOnce, TopologicalOrder, NoOrphans,
\* FreshApproval and PausedMeansWaiting.

\* The ready list, the batch and the completed set partition what was
\* unlocked: nothing is listed twice, and what is listed has not run.
ScheduleInv ==
    /\ IsInjective(ready)
    /\ \A i \in DOMAIN ready :
          stepState[ready[i]] = "pending" /\ plan.deps[ready[i]] \subseteq completed
    /\ IsInjective(batch)
    /\ phase \in {"gather", "results"} =>
          \A i \in DOMAIN batch : /\ pc[batch[i]] # "idle"
                                  /\ batch[i] \in completed <=> i < cursor
    /\ phase = "gather" => cursor = 1
    /\ \A s \in completed : stepState[s] \in {"completed", "skipped"}
    /\ \A s \in StepsOf(plan) :
          stepState[s] # "pending" => plan.deps[s] \subseteq completed

\* The state of a step and where its task is suspended agree.
TaskInv ==
    /\ \A s \in StepsOf(plan) :
          /\ pc[s] = "confirm" <=> stepState[s] = "waiting_confirm"
          /\ pc[s] \in {"call", "backoff", "crashed"} => stepState[s] = "running"
          /\ pc[s] = "returned" => stepState[s] \in {"completed", "failed", "skipped"}
    /\ \A s \in Steps : pc[s] # "idle" => s \in StepsOf(plan)
    /\ \A s \in Steps : pc[s] = "backoff" => attempt[s] < MaxRetries
    /\ \A s \in Steps : Active(s) => phase = "gather" /\ s \in Range(batch)

\* An event is registered exactly while its step waits, and an event that is
\* set goes with the answer that set it or a later one.
ConfirmInv ==
    /\ \A s \in Steps : confirmEvent[s] # "none" <=> pc[s] = "confirm"
    /\ \A s \in Steps : confirmEvent[s] = "set" => confirmResult[s] = approval[s]
    /\ FreshApproval
    /\ PausedMeansWaiting

\* Checked by TLC, and proved inductive in ExecutorProofs: the scheduling,
\* the tasks and the confirmations of the executor stay consistent.
IInv == TypeOK /\ ScheduleInv /\ TaskInv /\ ConfirmInv

\* What was started is completed or in the batch, and a step that was not is
\* listed or waits for a dependency that will not unlock it.
LeftInv ==
    /\ \A s \in StepsOf(plan) : stepState[s] # "pending" =>
          s \in completed \/ (phase # "loop" /\ s \in Range(batch) /\ pc[s] # "idle")
    /\ \A s \in StepsOf(plan) : stepState[s] = "pending" =>
          \/ s \in Range(ready)
          \/ \E d \in plan.deps[s] : d \notin completed \/ stepState[d] = "skipped"
    /\ announced = "completed" =>
          ready = << >> /\ \A s \in StepsOf(plan) : stepState[s] # "pending" => s \in completed

\* The outcome is announced at the end; a new plan is asked for after a failure.
OutcomeInv ==
    /\ phase \in {"loop", "gather", "results", "replan"} =>
          taskStatus \in {"running", "paused"} /\ announced = "none"
    /\ phase \in {"final", "done"} => taskStatus = announced /\ announced # "none"
    /\ phase = "replan" =>
          replans > 0 /\ \E s \in StepsOf(plan) : pc[s] = "returned" /\ stepState[s] = "failed"
    /\ AnnouncedIsSaved

\* What was observed under the present plan is what has completed.
Observed == {observations[i].step : i \in {j \in DOMAIN observations : observations[j].plan = replans}}

ObservedInv ==
    /\ observations \in Seq([plan : Nat, step : Steps, status : StepStatus])
    /\ \A i \in DOMAIN observations : observations[i].plan <= replans
    /\ phase = "replan" => Observed = {}
    /\ phase \notin {"replan", "raised"} => Observed = completed
    /\ ObservedInOrder

\* Checked by TLC, and proved inductive beside IInv in ExecutorProofs: what is
\* left over, announced, saved and observed fits what has run.
HistoryInv == LeftInv /\ OutcomeInv /\ ObservedInv

----------------------------------------------------------------------------
\* Why it terminates.  What is left to do for a step under the present plan,
\* from the start over the attempts to the processing of its result, and for
\* execute() itself, unless there is another plan.
StepsLeft(s) ==
    IF s \notin StepsOf(plan) THEN 0
    ELSE IF stepState[s] = "pending" THEN 2 * MaxRetries + 6
    ELSE IF pc[s] = "confirm" THEN 2 * MaxRetries + 5
    ELSE IF pc[s] = "call" THEN 2 * (MaxRetries - attempt[s]) + 4
    ELSE IF pc[s] = "backoff" THEN 2 * (MaxRetries - attempt[s]) + 3
    ELSE IF s \notin Range(batch) THEN 0
    ELSE IF phase = "gather" THEN 3
    ELSE IF phase = "results" THEN (IF s \in completed THEN 1 ELSE 2)
    ELSE 0

PhasesLeft ==
    IF phase = "replan" THEN 3
    ELSE IF phase = "final" THEN 1
    ELSE IF Stopped THEN 0
    ELSE 2

\* Every step of the executor, confirm requests apart, spends one of the
\* replans, brings execute() nearer its end or leaves less to do for some step
\* and more for none: with n steps an execution comes to no more than
\* (MaxReplans + 1) * (n * (2 * MaxRetries + 6) + 3) of them, whatever fails
\* and whoever answers.
EveryStepAdvances ==
    [][\/ replans' > replans
       \/ /\ replans' = replans
          /\ \/ PhasesLeft' < PhasesLeft
             \/ /\ PhasesLeft' = PhasesLeft
                /\ \A s \in Steps : StepsLeft(s)' <= StepsLeft(s)
                /\ \E s \in Steps : StepsLeft(s)' < StepsLeft(s)
      ]_<<loopVars, stateVars, taskVars, outVars>>

\* Nobody waits for what cannot come: a batch that is gathered has a task that
\* can go on by itself (a call, a sleep or a confirmation's timer) or is
\* complete, and each of its results is one that the loop knows what to do with.
NobodyIsStuck ==
    /\ phase \in {"gather", "results"} => batch # << >>
    /\ phase = "gather" =>
          (\A i \in DOMAIN batch : Ended(batch[i])) \/ \E s \in Steps : Active(s)
    /\ phase = "results" => \A i \in DOMAIN batch :
          \/ pc[batch[i]] = "crashed"
          \/ pc[batch[i]] = "returned" /\ stepState[batch[i]] \in {"completed", "failed", "skipped"}

----------------------------------------------------------------------------
\* What the repository says and the code does not do (violation runs).

\* executor.py:149, "All steps completed successfully", read so that a step
\* the user rejected counts: no step is left that never ran.
AllStepsCompleted ==
    taskStatus = "completed" =>
        \A s \in StepsOf(plan) : stepState[s] \in {"completed", "skipped"}

\* A-03 AC-3 and AC-6: a task that cannot be completed is marked FAILED, and
\* its status is found by the session query.  executor.py:315 does mark it, but
\* nothing is saved any more once an exception escapes execute().
FailureIsShown == phase = "raised" => saved.task = "failed"

----------------------------------------------------------------------------
\* The executor implements the lifecycle it promises.  A step whose task
\* crashed stays RUNNING in the code's table although nothing runs any more.
LifecycleState(s) ==
    CASE pc[s] = "crashed" -> "lost"
      [] pc[s] # "crashed" /\ stepState[s] \in {"running", "waiting_confirm"} -> "active"
      [] OTHER -> stepState[s]

Lifecycle == INSTANCE TaskLifecycle WITH
    steps <- [s \in StepsOf(plan) |-> LifecycleState(s)],
    outcome <- IF phase = "raised" THEN "aborted"
               ELSE IF taskStatus \in {"completed", "failed"} THEN taskStatus
               ELSE "open"

\* Every behaviour of the executor, seen through its step states, is one of
\* the lifecycle: batches, results, retries and waits are its stutters.
ImplementsLifecycle == Lifecycle!Spec

\* What the API sees of it: whether it waits for the user, and the status it
\* saved.  The run's end, after execute() returned, is not the executor's.
RunState ==
    CASE phase = "done" -> "closing"
      [] phase = "raised" -> "raised"
      [] OTHER -> IF \E s \in Steps : pc[s] = "confirm" THEN "waiting" ELSE "running"

Run == INSTANCE RunLifecycle WITH
    run <- RunState,
    saved <- IF saved = NotSaved THEN "other" ELSE saved.task

\* The executor keeps to what Session reduces an execution to: however batches,
\* answers and failures interleave, nothing is saved and no exception escapes
\* while a step waits, and a final status is saved just when execute() is about
\* to return.  So PAUSED is never saved, which A-03 AC-6 would have the session
\* query show.
ImplementsRun == Run!Spec
=============================================================================
