----------------------------- MODULE ToolServers -----------------------------
(***************************************************************************)
(* The MCP servers of mcp_servers/: Jupyter, whose kernels hold what the   *)
(* steps of a plan build on, the feature store and the data catalog.  Each *)
(* is a call_tool that looks up a handler and answers; no handler awaits   *)
(* anything, so a server does one thing at a time, and the Jupyter server  *)
(* does nothing else while code runs, however long that takes.  What the   *)
(* servers keep is in memory: it goes when the process ends.               *)
(*                                                                         *)
(* Request <<c, n>> is attempt n of call c.  The calls of a plan name one  *)
(* kernel, made before the plan was, and one feature view.                 *)
(***************************************************************************)
EXTENDS Integers, FiniteSets

CONSTANTS
    Calls,
    MaxAttempts,    \* max_retries_per_step + 1
    MaxCrashes      \* bound: how often the Jupyter server goes down

ASSUME ServersAssumption ==
    /\ Calls \subseteq Nat
    /\ MaxAttempts \in Nat \ {0}
    /\ MaxCrashes \in Nat

Requests == Calls \X (1..MaxAttempts)

Given == <<0, 0>>    \* the kernel the plan names
NoCall == -1

\* execute_code, by what the code does to the server: bind names; evaluate an
\* expression that raises SyntaxError itself; end the process (SystemExit).
Code == {"define", "relapse", "exit"}
KernelTools == Code \cup {"restart_kernel", "list_variables"}
JupyterTools == KernelTools \cup {"create_kernel"}
ViewTools == {"materialize", "get_online_features"}
Tools == JupyterTools \cup ViewTools \cup {"register_feature_view", "get_schema", "malformed"}

VARIABLES
    tool,        \* what each call asks for
    server,      \* what the server does with each request
    up,          \* the Jupyter server's process runs
    kernels,     \* its _kernels: Given and those that requests created
    namespace,   \* the calls whose code has left its effects in Given
    view,        \* the call whose definition is in the feature store's _views
    effects,     \* history: how often each call has changed a server
    seen,        \* history: the namespace that each request's code found
    crashes

kernelVars == <<up, kernels, namespace, crashes>>
serverVars == <<tool, server, kernelVars, view, effects, seen>>

ServerInit ==
    /\ server = [r \in Requests |-> "none"]
    /\ up = TRUE
    /\ kernels = {Given}
    /\ namespace = {}
    /\ view = NoCall
    /\ effects = [c \in Calls |-> 0]
    /\ seen = [r \in Requests |-> {}]
    /\ crashes = 0

----------------------------------------------------------------------------

\* A request is sent to its server; a Jupyter server that is down refuses it.
Ask(r) ==
    server' = [server EXCEPT ![r] =
                  IF tool[r[1]] \in JupyterTools /\ ~up THEN "lost" ELSE "asked"]

Busy == \E q \in Requests : server[q] = "running"

\* The server gets to a request for a tool.
Handles(r, tools) ==
    /\ server[r] = "asked"
    /\ tool[r[1]] \in tools
    /\ tool[r[1]] \in JupyterTools => ~Busy

Reply(r, result) == server' = [server EXCEPT ![r] = result]

TakesEffect(c, times) == effects' = [effects EXCEPT ![c] = @ + times]

CreateKernel(r) ==
    /\ Handles(r, {"create_kernel"})
    /\ kernels' = kernels \cup {r}
    /\ TakesEffect(r[1], 1)
    /\ Reply(r, "succeeded")
    /\ UNCHANGED <<tool, up, namespace, crashes, view, seen>>

\* restart_kernel clears the namespace, whoever filled it.
RestartKernel(r) ==
    /\ Handles(r, {"restart_kernel"})
    /\ Given \in kernels
    /\ namespace' = {}
    /\ TakesEffect(r[1], 1)
    /\ Reply(r, "succeeded")
    /\ UNCHANGED <<tool, up, kernels, crashes, view, seen>>

\* Faulty variant: a kernel that is not there is made on the spot.
ExecuteAnyway(r) ==
    /\ Handles(r, Code)
    /\ Reply(r, "running")
    /\ seen' = [seen EXCEPT ![r] = namespace]
    /\ namespace' = namespace \cup {r[1]}
    /\ TakesEffect(r[1], IF tool[r[1]] = "relapse" THEN 2 ELSE 1)
    /\ UNCHANGED <<tool, up, kernels, crashes, view>>

\* execute_code: the code is evaluated and, after a SyntaxError, executed.  A
\* statement does not get past the parser the first time; an expression whose
\* evaluation ends in a SyntaxError takes effect twice.
ExecuteCode(r) ==
    /\ Handles(r, Code)
    /\ Given \in kernels
    /\ Reply(r, "running")
    /\ seen' = [seen EXCEPT ![r] = namespace]
    /\ namespace' = namespace \cup {r[1]}
    /\ TakesEffect(r[1], IF tool[r[1]] = "relapse" THEN 2 ELSE 1)
    /\ UNCHANGED <<tool, up, kernels, crashes, view>>

\* The code ends; an exception is reported in stderr, not as an error.
CodeEnds(r) ==
    /\ server[r] = "running"
    /\ tool[r[1]] # "exit"
    /\ Reply(r, "succeeded")
    /\ UNCHANGED <<tool, kernelVars, view, effects, seen>>

\* Faulty variant: what the server was running is taken to go on.
CrashUnnoticed ==
    /\ up
    /\ \E c \in Calls : tool[c] \in JupyterTools
    /\ crashes < MaxCrashes
    /\ crashes' = crashes + 1
    /\ up' = FALSE
    /\ kernels' = {}
    /\ namespace' = {}
    /\ UNCHANGED <<tool, server, view, effects, seen>>

\* The process ends, by itself or because code makes it; what waits is lost.
\* (A server that no call of the plan uses is left alone.)
Crash ==
    /\ up
    /\ \E c \in Calls : tool[c] \in JupyterTools
    /\ crashes < MaxCrashes \/ \E r \in Requests : server[r] = "running" /\ tool[r[1]] = "exit"
    /\ crashes' = crashes + 1
    /\ up' = FALSE
    /\ kernels' = {}
    /\ namespace' = {}
    /\ server' = [r \in Requests |->
          IF tool[r[1]] \in JupyterTools /\ server[r] \in {"asked", "running"}
          THEN "lost" ELSE server[r]]
    /\ UNCHANGED <<tool, view, effects, seen>>

\* Someone starts it again; nothing does so by itself (docker-compose.yml).
Reboot ==
    /\ ~up
    /\ up' = TRUE
    /\ UNCHANGED <<tool, server, kernels, namespace, crashes, view, effects, seen>>

\* Faulty variant: a second registration counts like the first.
RegisterAgain(r) ==
    /\ Handles(r, {"register_feature_view"})
    /\ view' = r[1]
    /\ TakesEffect(r[1], 1)
    /\ Reply(r, "succeeded")
    /\ UNCHANGED <<tool, kernelVars, seen>>

\* A view that is registered stays as it is; the answer is a success either way.
RegisterFeatureView(r) ==
    /\ Handles(r, {"register_feature_view"})
    /\ IF view = NoCall THEN view' = r[1] /\ TakesEffect(r[1], 1)
       ELSE UNCHANGED <<view, effects>>
    /\ Reply(r, "succeeded")
    /\ UNCHANGED <<tool, kernelVars, seen>>

\* Every call of materialize adds a job.
Materialize(r) ==
    /\ Handles(r, {"materialize"})
    /\ view # NoCall
    /\ TakesEffect(r[1], 1)
    /\ Reply(r, "succeeded")
    /\ UNCHANGED <<tool, kernelVars, view, seen>>

ListVariables(r) ==
    /\ Handles(r, {"list_variables"})
    /\ Given \in kernels
    /\ Reply(r, "succeeded")
    /\ UNCHANGED <<tool, kernelVars, view, effects, seen>>

\* get_online_features and compute_feature_stats.
ReadView(r) ==
    /\ Handles(r, {"get_online_features"})
    /\ view # NoCall
    /\ Reply(r, "succeeded")
    /\ UNCHANGED <<tool, kernelVars, view, effects, seen>>

\* The tools of the data catalog, whose tables never change.
ReadCatalog(r) ==
    /\ Handles(r, {"get_schema"})
    /\ Reply(r, "succeeded")
    /\ UNCHANGED <<tool, kernelVars, view, effects, seen>>

\* No such kernel, no such view, an argument missing or a tool that does not
\* exist.
NoKernel(r) == Handles(r, KernelTools) /\ Given \notin kernels
NoView(r) == Handles(r, ViewTools) /\ view = NoCall
Malformed(r) == Handles(r, {"malformed"})

Refuse(r) ==
    /\ NoKernel(r) \/ NoView(r) \/ Malformed(r)
    /\ Reply(r, "failed")
    /\ UNCHANGED <<tool, kernelVars, view, effects, seen>>

Serve(r) ==
    \/ CreateKernel(r) \/ RestartKernel(r) \/ ExecuteCode(r) \/ CodeEnds(r)
    \/ RegisterFeatureView(r) \/ Materialize(r)
    \/ ListVariables(r) \/ ReadView(r) \/ ReadCatalog(r) \/ Refuse(r)

----------------------------------------------------------------------------
\* Types; a process that is down keeps nothing, and only code runs for long.
ServerTypeOK ==
    /\ tool \in [Calls -> Tools]
    /\ server \in [Requests -> {"none", "asked", "running", "succeeded", "failed", "lost"}]
    /\ up \in BOOLEAN
    /\ kernels \subseteq {Given} \cup Requests
    /\ ~up => kernels = {}
    /\ namespace \subseteq Calls
    /\ Given \notin kernels => namespace = {}
    /\ view \in Calls \cup {NoCall}
    /\ effects \in [Calls -> Nat]
    /\ seen \in [Requests -> SUBSET Calls]
    /\ crashes \in Nat
    /\ \A r \in Requests : server[r] = "running" => up /\ tool[r[1]] \in Code
=============================================================================
