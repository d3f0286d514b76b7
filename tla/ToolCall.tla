------------------------------ MODULE ToolCall ------------------------------
(***************************************************************************)
(* The tool calls of a plan on their way from the agent to an MCP server   *)
(* and back: MCPClient.call_tool and the retries of the executor's inner   *)
(* loop, the gateway's endpoint and ToolRouter.route with its audit log,   *)
(* and the servers of ToolServers.  Each party waits for the next with a   *)
(* timeout of its own and stops waiting without stopping the other, so an  *)
(* attempt given up may still be running when the next one is sent, or     *)
(* when the next call of the plan is.                                      *)
(*                                                                         *)
(* Each call depends on the one before it and may be a dry run.  The token *)
(* and the registration of the tool are looked up for every request anew,  *)
(* with any result: TokenProvider and CapabilityRegistry say which.        *)
(***************************************************************************)
EXTENDS ToolServers, Sequences

Kinds == {"plain", "dry_run"}
Asked == [tool : Tools, kind : Kinds]

CONSTANTS
    Plans,         \* what the calls of a plan ask for
    AdminTools,    \* the tools whose required role is admin
    Roles          \* the roles a token may name

ASSUME ToolCallAssumption ==
    Plans \subseteq [Calls -> Asked] /\ AdminTools \subseteq Tools

VARIABLES
    kind,      \* what each call is
    role,      \* the role in the agent's token
    client,    \* where each step of the plan is
    attempt,   \* its current attempt
    gateway,   \* what the gateway does with each request
    answer,    \* the gateway's answer to each request
    audit      \* the audit entries of each request, their status

fixedVars == <<kind, role>>
clientVars == <<client, attempt>>
vars == <<fixedVars, clientVars, gateway, serverVars, answer, audit>>

NoAnswer == "none"
Ended == {"completed", "failed"}

Init ==
    /\ \E plan \in Plans :
          /\ tool = [c \in Calls |-> plan[c].tool]
          /\ kind = [c \in Calls |-> plan[c].kind]
    /\ role \in Roles
    /\ client = [c \in Calls |-> "ready"]
    /\ attempt = [c \in Calls |-> 0]
    /\ gateway = [r \in Requests |-> "none"]
    /\ answer = [r \in Requests |-> NoAnswer]
    /\ audit = [r \in Requests |-> << >>]
    /\ ServerInit

----------------------------------------------------------------------------
\* The agent: one attempt after the other.

Send(c) ==
    /\ client[c] = "ready"
    /\ \A b \in Calls : b < c => client[b] \in Ended
    /\ attempt' = [attempt EXCEPT ![c] = @ + 1]
    /\ client' = [client EXCEPT ![c] = "waiting"]
    /\ gateway' = [gateway EXCEPT ![<<c, attempt[c] + 1>>] = "arrived"]
    /\ UNCHANGED <<fixedVars, serverVars, answer, audit>>

\* Whatever the error, it is retried until the attempts are used up.
Retry(c) ==
    client' = [client EXCEPT ![c] =
                  IF attempt[c] < MaxAttempts THEN "ready" ELSE "failed"]

\* Faulty variant: the answer to an earlier attempt is taken for this one's.
ReceiveAny(c) ==
    /\ client[c] = "waiting"
    /\ \E n \in 1..attempt[c] :
          /\ answer[<<c, n>>] # NoAnswer
          /\ IF answer[<<c, n>>] = "ok"
             THEN client' = [client EXCEPT ![c] = "completed"]
             ELSE Retry(c)
    /\ UNCHANGED <<fixedVars, attempt, gateway, serverVars, answer, audit>>

\* The answer to the current attempt: content without is_error completes the
\* step; 4xx, 5xx and is_error are errors.
Receive(c) ==
    /\ client[c] = "waiting"
    /\ answer[<<c, attempt[c]>>] # NoAnswer
    /\ IF answer[<<c, attempt[c]>>] = "ok"
       THEN client' = [client EXCEPT ![c] = "completed"]
       ELSE Retry(c)
    /\ UNCHANGED <<fixedVars, attempt, gateway, serverVars, answer, audit>>

\* The read timeout (60 s), or a connection that breaks; the gateway goes on.
TimeOut(c) ==
    /\ client[c] = "waiting"
    /\ Retry(c)
    /\ UNCHANGED <<fixedVars, attempt, gateway, serverVars, answer, audit>>

----------------------------------------------------------------------------
\* The gateway.

\* A role that is not in the enumeration counts as scientist, and so does the
\* requirement of a tool that has none of its own.
Level(name) == IF name = "admin" THEN 2 ELSE 1
Denied(c) == Level(role) < (IF tool[c] \in AdminTools THEN 2 ELSE 1)

Answer(r, a) ==
    /\ gateway' = [gateway EXCEPT ![r] = "answered"]
    /\ answer' = [answer EXCEPT ![r] = a]

Log(r, status) == audit' = [audit EXCEPT ![r] = Append(@, status)]

Routes(r) == gateway[r] = "arrived"

\* get_current_user refuses the token, which has expired or was signed with
\* another secret: the request is not routed.
Unauthorized(r) ==
    /\ gateway[r] = "arrived"
    /\ Answer(r, "401")
    /\ UNCHANGED <<fixedVars, clientVars, serverVars, audit>>

\* Faulty variant: a refusal leaves no trace.
DenyQuietly(r) ==
    /\ Routes(r)
    /\ Denied(r[1])
    /\ Answer(r, "403")
    /\ UNCHANGED <<fixedVars, clientVars, serverVars, audit>>

\* The role check comes first, for dry runs too.
Deny(r) ==
    /\ Routes(r)
    /\ Denied(r[1])
    /\ Log(r, "permission_denied")
    /\ Answer(r, "403")
    /\ UNCHANGED <<fixedVars, clientVars, serverVars>>

\* A dry run is answered before the server is resolved.
DryRun(r) ==
    /\ Routes(r) /\ ~Denied(r[1])
    /\ kind[r[1]] = "dry_run"
    /\ Log(r, "dry_run")
    /\ Answer(r, "ok")
    /\ UNCHANGED <<fixedVars, clientVars, serverVars>>

\* resolve_server finds nothing, or nothing any more: RoutingError, without an
\* audit entry.
NoServer(r) ==
    /\ Routes(r) /\ ~Denied(r[1])
    /\ kind[r[1]] = "plain"
    /\ Answer(r, "502")
    /\ UNCHANGED <<fixedVars, clientVars, serverVars, audit>>

Forward(r) ==
    /\ Routes(r) /\ ~Denied(r[1])
    /\ kind[r[1]] = "plain"
    /\ gateway' = [gateway EXCEPT ![r] = "forwarded"]
    /\ Ask(r)
    /\ UNCHANGED <<fixedVars, clientVars, tool, kernelVars, view, effects, seen,
                   answer, audit>>

\* The server's result is passed on and logged by its isError.
PassOn(r) ==
    /\ gateway[r] = "forwarded"
    /\ server[r] \in {"succeeded", "failed"}
    /\ IF server[r] = "succeeded" THEN Log(r, "success") /\ Answer(r, "ok")
       ELSE Log(r, "failed") /\ Answer(r, "is_error")
    /\ UNCHANGED <<fixedVars, clientVars, serverVars>>

\* Faulty variant: a server that does not answer is waited for.
UnreachableIfLost(r) ==
    /\ gateway[r] = "forwarded"
    /\ server[r] = "lost"
    /\ Log(r, "failed")
    /\ Answer(r, "502")
    /\ UNCHANGED <<fixedVars, clientVars, serverVars>>

\* The server is down, cannot be reached, answers with an HTTP error or without
\* JSON, or does not answer in 300 s.  One that was reached handles the request all the same.
Unreachable(r) ==
    /\ gateway[r] = "forwarded"
    /\ Log(r, "failed")
    /\ Answer(r, "502")
    /\ \/ server' = server
       \/ server[r] = "asked" /\ server' = [server EXCEPT ![r] = "lost"]
    /\ UNCHANGED <<fixedVars, clientVars, tool, kernelVars, view, effects, seen>>

\* What is registered at the address is none of the servers, and its answer is
\* JSON but not what MCP asks for: building the response raises outside the
\* try, and the 500 has no audit entry.
Garbled(r) ==
    /\ gateway[r] = "forwarded"
    /\ server[r] = "asked"
    /\ server' = [server EXCEPT ![r] = "lost"]
    /\ Answer(r, "500")
    /\ UNCHANGED <<fixedVars, clientVars, tool, kernelVars, view, effects, seen, audit>>

----------------------------------------------------------------------------

Client(c) == Send(c) \/ Receive(c) \/ TimeOut(c)
Gateway(r) ==
    Unauthorized(r) \/ Deny(r) \/ DryRun(r) \/ NoServer(r) \/ Forward(r)
        \/ PassOn(r) \/ Unreachable(r) \/ Garbled(r)
Server ==
    /\ Crash \/ Reboot \/ \E r \in Requests : Serve(r)
    /\ UNCHANGED <<fixedVars, clientVars, gateway, answer, audit>>

Next ==
    \/ \E c \in Calls : Client(c)
    \/ \E r \in Requests : Gateway(r)
    \/ Server

Spec == Init /\ [][Next]_vars

\* The agent and the gateway go on as long as one of their tasks can, and both
\* waiting parties have a timeout; the servers need not do anything: code may
\* run for ever, and a server that went down may stay down.
Fairness ==
    /\ WF_vars(\E c \in Calls : Client(c))
    /\ WF_vars(\E r \in Requests : Gateway(r))

FairSpec == Spec /\ Fairness

----------------------------------------------------------------------------
\* Properties.

\* Types, of the servers as well; the calls and the roles are fixed.
TypeOK ==
    /\ ServerTypeOK
    /\ kind \in [Calls -> Kinds]
    /\ role \in Roles
    /\ client \in [Calls -> Ended \cup {"ready", "waiting"}]
    /\ attempt \in [Calls -> 0..MaxAttempts]
    /\ gateway \in [Requests -> {"none", "arrived", "forwarded", "answered"}]
    /\ answer \in [Requests -> {NoAnswer, "ok", "is_error", "401", "403", "500", "502"}]
    /\ audit \in [Requests ->
          Seq({"success", "failed", "permission_denied", "dry_run"})]

Tells(status) ==
    CASE status = "success"           -> {"ok"}
      [] status = "dry_run"           -> {"ok"}
      [] status = "permission_denied" -> {"403"}
      [] status = "failed"            -> {"is_error", "502"}

\* However the client and the server behave, and whichever gives the other up,
\* a request has at most one entry, written no later than the answer and telling
\* the same story; and none is missing of a request that got a result or a
\* refusal, or that one of the servers has got to (G-05 AC-1, AC-4).
AuditMatchesAnswer ==
    \A r \in Requests :
        /\ Len(audit[r]) <= 1
        /\ audit[r] # << >> => answer[r] \in Tells(audit[r][1])
        /\ \/ answer[r] \in {"ok", "is_error", "403"}
           \/ answer[r] # NoAnswer /\ server[r] \notin {"none", "lost"}
           => audit[r] # << >>

\* audit.py:1, "audit trail for all MCP tool calls": no call that gets past the
\* token check is answered without an entry.
EveryCallIsAudited ==
    \A r \in Requests : answer[r] \notin {NoAnswer, "401"} => audit[r] # << >>

\* A step is completed by the tool run of its last attempt, never by a late
\* answer to one it gave up.
CompletedByItsRun ==
    \A c \in Calls : client[c] = "completed" /\ kind[c] = "plain" =>
        /\ server[<<c, attempt[c]>>] = "succeeded"
        /\ audit[<<c, attempt[c]>>] = <<"success">>

\* What the kernel has lost is never lost silently.  Code that completes its
\* step has found the effects of every completed step before it, unless the
\* plan itself restarts the kernel: after a crash it fails instead, since the
\* kernel is not there any more.
Restarts == \E c \in Calls : tool[c] = "restart_kernel"
Ran(c) == client[c] = "completed" /\ kind[c] = "plain" /\ tool[c] \in Code

CompletedWorkIsSeen ==
    ~Restarts => \A b, c \in Calls : b < c /\ Ran(b) /\ Ran(c) =>
        b \in seen[<<c, attempt[c]>>]

\* A step that is completed by its first attempt has changed its server once
\* (code that relapses, twice), and no step changes it more than once per
\* attempt, whichever of them are given up; a view is registered once even so.
Changes(c) ==
    CASE tool[c] = "relapse"                                  -> 2
      [] tool[c] \in {"get_schema", "list_variables",
                      "get_online_features", "malformed"}     -> 0
      [] OTHER                                                -> 1

EffectsBounded ==
    \A c \in Calls :
        /\ effects[c] <= Changes(c) *
              (IF tool[c] = "register_feature_view" THEN 1 ELSE attempt[c])
        /\ client[c] = "completed" /\ kind[c] = "plain" /\ attempt[c] = 1 =>
              \/ effects[c] = Changes(c)
              \/ tool[c] = "register_feature_view" /\ view # NoCall

\* Every request is answered, though the client may long have given it up and
\* code may run for ever and block its server; and a plan that has begun gets to
\* its end.
PlanOver ==
    /\ \A c \in Calls : client[c] \in Ended
    /\ \A r \in Requests : gateway[r] \in {"none", "answered"}

PlanEnds == (\E c \in Calls : attempt[c] > 0) ~> PlanOver

\* What an attempt has come to stays: a request is answered and audited once,
\* and a call that has ended is neither revived by a late answer nor retried.
OutcomesAreFinal ==
    [][/\ \A r \in Requests : answer[r] # NoAnswer =>
             answer'[r] = answer[r] /\ audit'[r] = audit[r]
       /\ \A c \in Calls : client[c] \in Ended =>
             client'[c] = client[c] /\ attempt'[c] = attempt[c]]_vars

\* The steps that the agent has left to make for a call, and the gateway for a
\* request.
TriesLeft(c) ==
    CASE client[c] = "ready"   -> 2 * (MaxAttempts - attempt[c])
      [] client[c] = "waiting" -> 2 * (MaxAttempts - attempt[c]) + 1
      [] client[c] \in Ended   -> 0

HopsLeft(r) ==
    CASE gateway[r] = "none"      -> 3
      [] gateway[r] = "arrived"   -> 2
      [] gateway[r] = "forwarded" -> 1
      [] gateway[r] = "answered"  -> 0

\* Whatever the agent or the gateway does brings the plan nearer to its end, and
\* nothing a server does takes it back: retries beside attempts that were given
\* up cannot keep each other going.
EveryStepCounts ==
    [][/\ \A c \in Calls : TriesLeft(c)' <= TriesLeft(c)
       /\ \A r \in Requests : HopsLeft(r)' <= HopsLeft(r)
       /\ \/ \E c \in Calls : TriesLeft(c)' < TriesLeft(c)
          \/ \E r \in Requests : HopsLeft(r)' < HopsLeft(r)]_<<clientVars, gateway>>

\* Until the last call has ended it is the turn of one to be sent or one is
\* waiting, and its timeout will end that.
Turn(c) == client[c] = "ready" /\ \A b \in Calls : b < c => client[b] \in Ended

NobodyIsStuck ==
    \/ \A c \in Calls : client[c] \in Ended
    \/ \E c \in Calls : Turn(c) \/ client[c] = "waiting"

----------------------------------------------------------------------------
\* What the invariants rest on.

\* Calls are made one after the other, and a call completes with an answer.
CallsInTurn ==
    /\ \A b, c \in Calls : b < c /\ client[b] \notin Ended => attempt[c] = 0
    /\ \A c \in Calls :
          /\ client[c] = "ready" => attempt[c] < MaxAttempts
          /\ client[c] \in {"waiting", "completed"} => attempt[c] > 0
          /\ client[c] = "completed" => answer[<<c, attempt[c]>>] = "ok"

\* A request reaches the server through the gateway, which answers once.
RequestsMove ==
    \A r \in Requests :
        /\ r[2] > attempt[r[1]] => gateway[r] = "none"
        /\ server[r] # "none" => kind[r[1]] = "plain" /\ ~Denied(r[1])
                                    /\ gateway[r] \in {"forwarded", "answered"}
        /\ gateway[r] = "forwarded" => server[r] # "none"
        /\ answer[r] # NoAnswer <=> gateway[r] = "answered"
        /\ answer[r] = NoAnswer => audit[r] = << >>
        /\ answer[r] = "ok" /\ kind[r[1]] = "plain" =>
              server[r] = "succeeded" /\ audit[r] = <<"success">>
        /\ server[r] = "asked" /\ tool[r[1]] \in JupyterTools => up

\* While the given kernel is there, it keeps the effects of all code.
Begun(r) == tool[r[1]] \in Code /\ server[r] \in {"running", "succeeded"}

WorkIsKept ==
    ~Restarts => \A r \in Requests : Begun(r) =>
        /\ Given \in kernels => r[1] \in namespace
        /\ \A b \in Calls : b < r[1] /\ Ran(b) => b \in seen[r]

\* Each request that its server has got to has counted once at most.
GotTo(c) == {n \in 1..MaxAttempts : server[<<c, n>>] \notin {"none", "asked"}}

EffectsCounted ==
    \A c \in Calls :
        /\ effects[c] <= Changes(c) * Cardinality(GotTo(c))
        /\ tool[c] = "register_feature_view" =>
              effects[c] = IF view = c THEN 1 ELSE 0
        /\ attempt[c] = 1 /\ server[<<c, 1>>] \in {"running", "succeeded"} =>
              \/ effects[c] = Changes(c)
              \/ tool[c] = "register_feature_view" /\ view # NoCall

IInv ==
    TypeOK /\ CallsInTurn /\ RequestsMove /\ AuditMatchesAnswer
        /\ WorkIsKept /\ EffectsCounted
=============================================================================
