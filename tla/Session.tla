------------------------------- MODULE Session -------------------------------
(***************************************************************************)
(* The API process around one session, api_app/routers/agent.py: its       *)
(* message handlers, the background executions they start, the two         *)
(* module-level registries that connect requests to them, _executors and   *)
(* _streams, and the event streams (EventStream) the executions emit to.   *)
(* Registries are keyed by session, so sessions do not meet.  The process  *)
(* may stop and be started again: everything but Redis is then lost.       *)
(*                                                                         *)
(* Message handlers and executions are numbered together: handler n starts *)
(* execution n, which has executor n and stream n.  What an execution does *)
(* is Executor's business: here it emits, waits for a confirmation, saves  *)
(* its state and ends, by itself or with an exception.                     *)
(***************************************************************************)
EXTENDS EventStream

CONSTANTS
    MaxRuns,     \* bound: messages sent to the session
    MaxEmits,    \* bound: events of all executions, the error events aside
    MaxRestarts  \* bound: restarts of the process

Runs == 1..MaxRuns
None == 0
Placeholder == MaxRuns + 1    \* the stream a GET creates when there is none

ASSUME SessionAssumption ==
    /\ MaxRuns \in Nat \ {0}
    /\ MaxEmits \in Nat \ {0}
    /\ MaxRestarts \in Nat
    /\ Outputs = Runs \cup {Placeholder}

VARIABLES
    handler,     \* the POST message handler of each run
    run,         \* the background task of each run
    executors,   \* _executors.get(session_id)
    streams,     \* _streams.get(session_id)
    savedStatus, \* the execution state in Redis: whose, and what status
    overlapped,  \* history: a message was sent while an execution was active
    restarts     \* how often the process was restarted

registryVars == <<executors, streams>>
vars == <<handler, run, registryVars, savedStatus, overlapped, restarts, streamVars>>

\* A run is "closing" once its final state is saved: close() is still to come.
Active == {"scheduled", "running", "waiting", "closing"}
Over == {"ended", "raised", "killed"}
FinalStatus == {"completed", "failed"}

NothingSaved == [by |-> None, status |-> "none"]

Init ==
    /\ handler = [r \in Runs |-> "idle"]
    /\ run = [r \in Runs |-> "none"]
    /\ executors = None
    /\ streams = None
    /\ savedStatus = NothingSaved
    /\ overlapped = FALSE
    /\ restarts = 0
    /\ StreamInit

----------------------------------------------------------------------------
\* POST /messages.

Busy == \E r \in Runs : handler[r] = "planning" \/ run[r] \in Active

\* The session exists and the message is stored; the handler now awaits the
\* intent, the tools and the plan.  Messages are numbered as they arrive.
SendMessage(r) ==
    /\ handler[r] = "idle"
    /\ \A q \in 1 .. r - 1 : handler[q] # "idle"
    /\ handler' = [handler EXCEPT ![r] = "planning"]
    /\ overlapped' = (overlapped \/ Busy)
    /\ UNCHANGED <<run, registryVars, savedStatus, restarts, streamVars>>

\* 404, a clarification, or an exception while planning: no execution.
HandlerEnds(r) ==
    /\ handler[r] = "planning"
    /\ handler' = [handler EXCEPT ![r] = "refused"]
    /\ UNCHANGED <<run, registryVars, savedStatus, overlapped, restarts, streamVars>>

\* Faulty variant: the executor is not registered.
StartUnregistered(r) ==
    /\ handler[r] = "planning"
    /\ handler' = [handler EXCEPT ![r] = "accepted"]
    /\ streams' = r
    /\ run' = [run EXCEPT ![r] = "scheduled"]
    /\ UNCHANGED <<executors, savedStatus, overlapped, restarts, streamVars>>

\* With the plan made, the rest runs without suspending: a new stream and a
\* new executor replace whatever was registered, and the task is created.
StartExecution(r) ==
    /\ handler[r] = "planning"
    /\ handler' = [handler EXCEPT ![r] = "accepted"]
    /\ streams' = r
    /\ executors' = r
    /\ run' = [run EXCEPT ![r] = "scheduled"]
    /\ UNCHANGED <<savedStatus, overlapped, restarts, streamVars>>

----------------------------------------------------------------------------
\* The background task _run_execution.

\* The task goes from one of the states in from to the state to.
Goes(r, from, to) ==
    /\ run[r] \in from
    /\ run' = [run EXCEPT ![r] = to]

\* The task gets to run: execute() sets the executor's state.
Begins(r) ==
    /\ Goes(r, {"scheduled"}, "running")
    /\ UNCHANGED <<handler, registryVars, savedStatus, overlapped, restarts, streamVars>>

\* The steps emit events, those of a batch also while one of them waits.
Emits(r) ==
    /\ run[r] \in {"running", "waiting"}
    /\ FoldFunction(+, 0, counter) < MaxEmits
    /\ Emit(r)
    /\ UNCHANGED <<handler, run, registryVars, savedStatus, overlapped, restarts>>

\* A step requires confirmation.
Pauses(r) ==
    /\ Goes(r, {"running"}, "waiting")
    /\ UNCHANGED <<handler, registryVars, savedStatus, overlapped, restarts, streamVars>>

WaitTimesOut(r) ==
    /\ Goes(r, {"waiting"}, "running")
    /\ UNCHANGED <<handler, registryVars, savedStatus, overlapped, restarts, streamVars>>

\* The state after a batch is persisted.
SavesProgress(r) ==
    /\ run[r] = "running"
    /\ savedStatus' = [by |-> r, status |-> "running"]
    /\ UNCHANGED <<handler, run, registryVars, overlapped, restarts, streamVars>>

\* Faulty variant: the final state is saved on success only.
SavesSuccess(r, outcome) ==
    /\ Goes(r, {"running"}, "closing")
    /\ savedStatus' = IF outcome = "completed" THEN [by |-> r, status |-> outcome]
                      ELSE savedStatus
    /\ UNCHANGED <<handler, registryVars, overlapped, restarts, streamVars>>

\* The final state reaches Redis; execute() still awaits the answer.
SavesOutcome(r, outcome) ==
    /\ Goes(r, {"running"}, "closing")
    /\ savedStatus' = [by |-> r, status |-> outcome]
    /\ UNCHANGED <<handler, registryVars, overlapped, restarts, streamVars>>

\* execute() closes the stream and returns, and the finally of _run_execution
\* drops the session's executor, whichever execution it belongs to; _streams
\* keeps its entry.
Ends(r) ==
    /\ Goes(r, {"closing"}, "ended")
    /\ Close(r)
    /\ executors' = None
    /\ UNCHANGED <<handler, streams, savedStatus, overlapped, restarts>>

\* An exception escapes execute(), the answer of the final save being lost
\* included: _run_execution emits the error, closes the stream, and drops the
\* session's executor.
Raises(r) ==
    /\ \/ Goes(r, {"running"}, "raised")
       \/ Goes(r, {"closing"}, "ended")
    /\ EmitAndClose(r)
    /\ executors' = None
    /\ UNCHANGED <<handler, streams, savedStatus, overlapped, restarts>>

----------------------------------------------------------------------------
\* The other endpoints, and the process.

\* POST /confirm goes to the registered executor, if there is one, and
\* resumes the step if that executor's execution waits for it.
Confirm ==
    /\ executors # None
    /\ Goes(executors, {"waiting"}, "running")
    /\ UNCHANGED <<handler, registryVars, savedStatus, overlapped, restarts, streamVars>>

\* GET /stream attaches to the registered stream; without one it registers a
\* stream of its own.
OpenStream(c) ==
    /\ LET s == IF streams = None THEN Placeholder ELSE streams
       IN  streams' = s /\ Open(c, s)
    /\ UNCHANGED <<handler, run, executors, savedStatus, overlapped, restarts>>

\* GET /status: the executor's get_status reads the persisted state, as the
\* handler does itself when no executor is registered.
StatusShown == savedStatus

\* Faulty variant: the executions survive in the registry.
RestartRegistered ==
    /\ restarts < MaxRestarts
    /\ restarts' = restarts + 1
    /\ handler' = [r \in Runs |-> IF handler[r] = "planning" THEN "refused" ELSE handler[r]]
    /\ run' = [r \in Runs |->
          IF run[r] = "closing" THEN "ended"
          ELSE IF run[r] \in Active THEN "killed" ELSE run[r]]
    /\ Lose
    /\ UNCHANGED <<registryVars, savedStatus, overlapped>>

\* The process is started again.  Handlers and tasks are gone, nothing resumes
\* an execution from Redis, and the registries start empty.
Restart ==
    /\ restarts < MaxRestarts
    /\ restarts' = restarts + 1
    /\ handler' = [r \in Runs |-> IF handler[r] = "planning" THEN "refused" ELSE handler[r]]
    /\ run' = [r \in Runs |->
          IF run[r] = "closing" THEN "ended"
          ELSE IF run[r] \in Active THEN "killed" ELSE run[r]]
    /\ executors' = None
    /\ streams' = None
    /\ Lose
    /\ UNCHANGED <<savedStatus, overlapped>>

----------------------------------------------------------------------------

Execution(r) ==
    \/ Begins(r) \/ Emits(r) \/ Pauses(r) \/ WaitTimesOut(r) \/ SavesProgress(r)
    \/ \E o \in FinalStatus : SavesOutcome(r, o)
    \/ Ends(r) \/ Raises(r)

Next ==
    \/ \E r \in Runs : SendMessage(r) \/ HandlerEnds(r) \/ StartExecution(r) \/ Execution(r)
    \/ Confirm
    \/ \E c \in Clients :
          \/ OpenStream(c)
          \/ Client(c) /\ UNCHANGED <<handler, run, registryVars, savedStatus, overlapped, restarts>>
          \/ Disconnect(c) /\ UNCHANGED <<handler, run, registryVars, savedStatus, overlapped, restarts>>
    \/ Restart

Spec == Init /\ [][Next]_vars

\* The event loop runs every task and client that can go on; a run pauses
\* finitely often and ends (Executor, Terminates), hence the strong fairness.
Fairness ==
    /\ \A r \in Runs :
          /\ WF_vars(Begins(r))
          /\ WF_vars(WaitTimesOut(r))
          /\ SF_vars(Raises(r) \/ \E o \in FinalStatus : SavesOutcome(r, o))
          /\ WF_vars(Ends(r))
    /\ \A c \in Clients :
          WF_vars(Client(c) /\ UNCHANGED <<handler, run, registryVars, savedStatus, overlapped, restarts>>)

FairSpec == Spec /\ Fairness

----------------------------------------------------------------------------
\* Properties.

\* Types; only the streams of executions that are over are closed, and the
\* placeholder stream never is.
TypeOK ==
    /\ handler \in [Runs -> {"idle", "planning", "refused", "accepted"}]
    /\ run \in [Runs -> Active \cup Over \cup {"none"}]
    /\ executors \in Runs \cup {None}
    /\ streams \in Outputs \cup {None}
    /\ closed \subseteq {r \in Runs : run[r] \in Over}
    /\ savedStatus \in [by : Runs \cup {None}, status : FinalStatus \cup {"running", "none"}]
    /\ overlapped \in BOOLEAN
    /\ restarts \in 0..MaxRestarts

\* Even when executions of a session overlap and the process is restarted,
\* _executors never names an execution that is over: a confirmation is never
\* swallowed by a dead one.
RegistryNeverStale ==
    executors # None => run[executors] \in Active

\* As long as messages wait for the execution before them to end, every request
\* reaches the active execution: POST /confirm its executor, GET /stream its
\* stream.  (With messages that overlap, the end of one execution makes the
\* others unreachable.)
ActiveIsReachable ==
    ~overlapped => \A r \in Runs : run[r] \in Active => executors = r /\ streams = r

\* A final status that GET /status shows is that of an execution whose last save
\* it is.  Of one that raised an exception or was killed by a restart nothing
\* final is saved at all: see Executor's FailureIsShown.
FinalStatusIsFinal ==
    \A r \in Runs : StatusShown.by = r /\ StatusShown.status \in FinalStatus =>
        run[r] \in {"closing"} \cup Over

\* A run exists once its handler has accepted the message; only messages that
\* overlap are planned or executed at the same time.
RunsInTurn ==
    /\ \A r \in Runs : handler[r] = "accepted" <=> run[r] # "none"
    /\ ~overlapped => \A q, r \in Runs :
          /\ handler[q] = "planning" \/ run[q] \in Active
          /\ handler[r] = "planning" \/ run[r] \in Active
          => q = r

\* Types, what the registries and the saved status know, and the order of what
\* is stored, queued and received.
IInv ==
    /\ TypeOK /\ RegistryNeverStale /\ RunsInTurn /\ ActiveIsReachable /\ FinalStatusIsFinal
    /\ StreamTypeOK /\ StoreIsRecent /\ StoreIsOrdered
    /\ \A c \in Clients : QueueIsOrdered(c) /\ ComesInOrder(c) /\ EndIsComplete(c)
    /\ ReceivedInOrder /\ SubscribedMissesNothing

\* When the end marker ends a client's response, the client has got all that
\* its output emitted since it subscribed, unless its queue ran over.
ReleasedHasAll ==
    \A c \in Clients : ReceiveEnd(c) /\ ~overflowed[c] =>
        \A n \in joined[c] + 1 .. counter[source[c]] :
            \E e \in Range(received[c]) : e = [out |-> source[c], id |-> n]

ReleasedHaveAll == [][ReleasedHasAll]_vars

\* However executions overlap and however they end, the response of a client
\* that subscribed to the stream of an execution before it closed ends, unless
\* the end marker itself did not fit its queue.
ListenersAreReleased ==
    \A c \in Clients : \A r \in Runs :
        (c \in Subscribers(r) /\ r \notin closed)
            ~> (mode[c] = "away" \/ c \in endDropped)

----------------------------------------------------------------------------
\* Each execution, seen alone.
Run(r) == INSTANCE RunLifecycle WITH
    run <- IF run[r] \in {"none", "scheduled"} THEN "new" ELSE run[r],
    saved <- IF savedStatus.by = r THEN savedStatus.status ELSE "other"

\* However messages overlap and whenever the process stops, each execution is
\* one as Executor implements it, followed by its end.
RunsKeepTheirLifecycle ==
    /\ \A r \in Runs : Run(r)!Init
    /\ [][\A r \in Runs : [Run(r)!Next]_(Run(r)!vars)]_vars
=============================================================================
