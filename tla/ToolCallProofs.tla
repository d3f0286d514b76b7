--------------------------- MODULE ToolCallProofs ---------------------------
(***************************************************************************)
(* What the runs of ToolCall check on plans of two calls holds for plans   *)
(* of any length, any number of attempts and of crashes.                   *)
(***************************************************************************)
EXTENDS ToolCall, FiniteSetTheorems, WellFoundedInduction, TLAPS

\* A request is a call and the number of an attempt; the calls are numbers.
LEMMA RequestParts ==
    ASSUME NEW r \in Requests
    PROVE  /\ r[1] \in Calls /\ r[1] \in Nat
           /\ r[2] \in 1..MaxAttempts /\ r[2] \in Nat
           /\ r = <<r[1], r[2]>>
           /\ r # Given /\ r[1] # NoCall
<1>1. PICK c \in Calls, n \in 1..MaxAttempts : r = <<c, n>>
  BY DEF Requests
<1>2. r[1] = c /\ r[2] = n
  BY <1>1
<1>3. c \in Nat /\ n \in Nat /\ n # 0
  BY ServersAssumption
<1> QED  BY <1>1, <1>2, <1>3 DEF Given, NoCall

LEMMA AttemptIsRequest ==
    ASSUME TypeOK, NEW c \in Calls
    PROVE  /\ attempt[c] \in Nat
           /\ attempt[c] > 0 => <<c, attempt[c]>> \in Requests
           /\ \A n \in 1..MaxAttempts : <<c, n>> \in Requests
BY ServersAssumption DEF TypeOK, Requests

LEMMA InitEstablishes == Init => IInv
<1> SUFFICES ASSUME Init PROVE IInv
  OBVIOUS
<1>1. PICK plan \in Plans : /\ tool = [c \in Calls |-> plan[c].tool]
                            /\ kind = [c \in Calls |-> plan[c].kind]
  BY DEF Init
<1>2. \A c \in Calls : plan[c].tool \in Tools /\ plan[c].kind \in Kinds
  BY ToolCallAssumption DEF Asked
<1>3. ServerTypeOK
  BY <1>1, <1>2, ServersAssumption DEF Init, ServerInit, ServerTypeOK
<1>4. TypeOK
  BY <1>1, <1>2, <1>3, ServersAssumption DEF Init, TypeOK, Ended, NoAnswer
<1>5. CallsInTurn
  BY ServersAssumption DEF Init, CallsInTurn
<1>6. RequestsMove
  BY DEF Init, ServerInit, RequestsMove, Requests, NoAnswer
<1>7. AuditMatchesAnswer
  <2>1. \A r \in Requests : audit[r] = << >> /\ answer[r] = NoAnswer
    BY DEF Init
  <2>2. Len(<< >>) = 0
    OBVIOUS
  <2> QED  BY <2>1, <2>2 DEF AuditMatchesAnswer, NoAnswer
<1>8. WorkIsKept
  BY DEF Init, ServerInit, WorkIsKept, Begun
<1>9. EffectsCounted
  <2> SUFFICES ASSUME NEW c \in Calls
               PROVE  /\ effects[c] <= Changes(c) * Cardinality(GotTo(c))
                      /\ effects[c] = 0 /\ view # c
                      /\ attempt[c] = 0
    BY DEF EffectsCounted
  <2>1. GotTo(c) = {}
    BY DEF Init, ServerInit, GotTo, Requests
  <2>2. Cardinality(GotTo(c)) = 0
    BY <2>1, FS_EmptySet
  <2>3. Changes(c) * 0 = 0
    BY DEF Changes
  <2>4. effects[c] = 0 /\ view # c /\ attempt[c] = 0
    BY ServersAssumption DEF Init, ServerInit, NoCall
  <2> QED  BY <2>2, <2>3, <2>4
<1> QED  BY <1>4, <1>5, <1>6, <1>7, <1>8, <1>9 DEF IInv

----------------------------------------------------------------------------
\* Types.

LEMMA ServerTypesHold ==
    ASSUME ServerTypeOK, Crash \/ Reboot \/ \E r \in Requests : Serve(r),
           \A r \in Requests : server[r] = "asked" /\ tool[r[1]] \in JupyterTools => up
    PROVE  ServerTypeOK'
<1> USE DEF ServerTypeOK
<1>1. CASE Crash
  <2>1. server' \in [Requests -> {"none", "asked", "running", "succeeded", "failed", "lost"}]
    BY <1>1 DEF Crash
  <2>2. \A r \in Requests : server'[r] # "running"
    BY <1>1 DEF Crash, Code, KernelTools, JupyterTools
  <2>3. crashes' \in Nat /\ up' = FALSE /\ kernels' = {} /\ namespace' = {}
        /\ UNCHANGED <<tool, view, effects, seen>>
    BY <1>1 DEF Crash
  <2> QED  BY <2>1, <2>2, <2>3
<1>2. CASE Reboot
  BY <1>2 DEF Reboot
<1>3. ASSUME NEW r \in Requests, Serve(r) PROVE ServerTypeOK'
  <2> USE DEF Handles, Reply, TakesEffect, kernelVars
  <2> r[1] \in Calls
    BY RequestParts
  <2>1. CASE CreateKernel(r)
    <3>1. up
      BY <2>1 DEF CreateKernel, JupyterTools
    <3>2. kernels' \subseteq {Given} \cup Requests /\ kernels \subseteq kernels'
      BY <2>1 DEF CreateKernel
    <3> QED  BY <2>1, <3>1, <3>2 DEF CreateKernel
  <2>2. CASE RestartKernel(r)
    BY <2>2 DEF RestartKernel
  <2>3. CASE ExecuteCode(r)
    <3>1. up
      BY <2>3 DEF ExecuteCode
    <3>2. effects' \in [Calls -> Nat]
      BY <2>3 DEF ExecuteCode
    <3> QED  BY <2>3, <3>1, <3>2 DEF ExecuteCode
  <2>4. CASE CodeEnds(r)
    BY <2>4 DEF CodeEnds
  <2>5. CASE RegisterFeatureView(r)
    <3>1. view' \in Calls \cup {NoCall} /\ effects' \in [Calls -> Nat]
      BY <2>5 DEF RegisterFeatureView
    <3> QED  BY <2>5, <3>1 DEF RegisterFeatureView
  <2>6. CASE Materialize(r)
    BY <2>6 DEF Materialize
  <2>7. CASE ListVariables(r)
    BY <2>7 DEF ListVariables
  <2>8. CASE ReadView(r)
    BY <2>8 DEF ReadView
  <2>9. CASE ReadCatalog(r)
    BY <2>9 DEF ReadCatalog
  <2>10. CASE Refuse(r)
    BY <2>10 DEF Refuse
  <2> QED
    BY <1>3, <2>1, <2>2, <2>3, <2>4, <2>5, <2>6, <2>7, <2>8, <2>9, <2>10 DEF Serve
<1> QED  BY <1>1, <1>2, <1>3

LEMMA TypesHold == IInv /\ [Next]_vars => TypeOK'
<1> SUFFICES ASSUME IInv, [Next]_vars PROVE TypeOK'
  OBVIOUS
<1> USE DEF IInv, TypeOK, ServerTypeOK
<1>1. ASSUME NEW c \in Calls, Client(c) PROVE TypeOK'
  <2>1. CASE Send(c)
    <3>1. attempt[c] < MaxAttempts
      BY <2>1 DEF Send, CallsInTurn
    <3>2. attempt' \in [Calls -> 0..MaxAttempts]
      BY <2>1, <3>1, ServersAssumption DEF Send
    <3> QED  BY <2>1, <3>2 DEF Send, fixedVars, serverVars, kernelVars
  <2>2. CASE Receive(c)
    BY <2>2 DEF Receive, Retry, Ended, fixedVars, serverVars, kernelVars
  <2>3. CASE TimeOut(c)
    BY <2>3 DEF TimeOut, Retry, Ended, fixedVars, serverVars, kernelVars
  <2> QED  BY <1>1, <2>1, <2>2, <2>3 DEF Client
<1>2. ASSUME NEW r \in Requests, Gateway(r) PROVE TypeOK'
  <2> USE DEF Answer, Log, fixedVars, clientVars, serverVars, kernelVars
  <2>1. CASE Unauthorized(r)
    BY <2>1 DEF Unauthorized
  <2>2. CASE Deny(r)
    BY <2>2 DEF Deny
  <2>3. CASE DryRun(r)
    BY <2>3 DEF DryRun
  <2>4. CASE NoServer(r)
    BY <2>4 DEF NoServer
  <2>5. CASE Forward(r)
    BY <2>5 DEF Forward, Ask
  <2>6. CASE PassOn(r)
    <3>1. PICK status \in {"success", "failed"}, a \in {"ok", "is_error"} :
              Log(r, status) /\ Answer(r, a)
      BY <2>6 DEF PassOn
    <3> QED  BY <2>6, <3>1 DEF PassOn
  <2>7. CASE Unreachable(r)
    <3>1. server' \in [Requests -> {"none", "asked", "running", "succeeded", "failed", "lost"}]
      BY <2>7 DEF Unreachable
    <3>2. \A q \in Requests : server'[q] = "running" => server[q] = "running"
      BY <2>7 DEF Unreachable
    <3>3. UNCHANGED <<fixedVars, clientVars, tool, kernelVars, view, effects, seen>>
          /\ Log(r, "failed") /\ Answer(r, "502")
      BY <2>7 DEF Unreachable
    <3>4. \A q \in Requests : server'[q] = "running" => up' /\ tool'[q[1]] \in Code
      BY <3>2, <3>3
    <3>5. ServerTypeOK'
      BY <3>1, <3>3, <3>4
    <3>6. client' = client /\ attempt' = attempt /\ kind' = kind /\ role' = role
      BY <3>3
    <3>7. /\ gateway' \in [Requests -> {"none", "arrived", "forwarded", "answered"}]
          /\ answer' \in [Requests -> {NoAnswer, "ok", "is_error", "401", "403", "500", "502"}]
          /\ audit' \in [Requests ->
                Seq({"success", "failed", "permission_denied", "dry_run"})]
      BY <3>3
    <3> HIDE DEF ServerTypeOK
    <3> QED  BY <3>5, <3>6, <3>7
  <2>8. CASE Garbled(r)
    <3>1. /\ server' = [server EXCEPT ![r] = "lost"] /\ Answer(r, "500")
          /\ UNCHANGED <<fixedVars, clientVars, tool, kernelVars, view, effects, seen, audit>>
      BY <2>8 DEF Garbled
    <3> QED  BY <3>1
  <2> QED  BY <1>2, <2>1, <2>2, <2>3, <2>4, <2>5, <2>6, <2>7, <2>8 DEF Gateway
<1>3. CASE Server
  <2>1. ServerTypeOK'
    BY <1>3, ServerTypesHold DEF Server, RequestsMove
  <2> QED  BY <1>3, <2>1 DEF Server, fixedVars, clientVars
<1>4. CASE UNCHANGED vars
  BY <1>4 DEF vars, fixedVars, clientVars, serverVars, kernelVars
<1> QED  BY <1>1, <1>2, <1>3, <1>4 DEF Next

----------------------------------------------------------------------------
\* What a step of the gateway and of the servers does to the requests.

\* Where a step of the gateway takes its request.
Forwarded(r) ==
    /\ server[r] = "none" /\ server'[r] \in {"asked", "lost"}
    /\ server'[r] = "asked" /\ tool[r[1]] \in JupyterTools => up
    /\ kind[r[1]] = "plain" /\ ~Denied(r[1])
    /\ gateway'[r] = "forwarded"
    /\ answer'[r] = NoAnswer /\ audit'[r] = << >>

Answered(r) ==
    /\ server'[r] = server[r] \/ (server[r] = "asked" /\ server'[r] = "lost")
    /\ gateway'[r] = "answered" /\ answer'[r] # NoAnswer
    /\ answer'[r] = "ok" /\ kind[r[1]] = "plain" =>
          server'[r] = "succeeded" /\ audit'[r] = <<"success">>
    /\ Len(audit'[r]) <= 1
    /\ audit'[r] # << >> => answer'[r] \in Tells(audit'[r][1])
    /\ \/ answer'[r] \in {"ok", "is_error", "403"}
       \/ server'[r] \notin {"none", "lost"}
       => audit'[r] # << >>

OnlyMoves(r) ==
    /\ UNCHANGED <<fixedVars, clientVars, tool, kernelVars, view, effects, seen>>
    /\ \A q \in Requests : q # r =>
          /\ gateway'[q] = gateway[q] /\ server'[q] = server[q]
          /\ answer'[q] = answer[q] /\ audit'[q] = audit[q]
    /\ gateway[r] # "none" /\ answer[r] = NoAnswer
    /\ Forwarded(r) \/ Answered(r)

LEMMA GatewayMoves ==
    ASSUME TypeOK, RequestsMove, NEW r \in Requests, Gateway(r)
    PROVE  OnlyMoves(r)
<1>1. r[1] \in Calls
  BY RequestParts
<1>2. gateway[r] \in {"arrived", "forwarded"} /\ answer[r] = NoAnswer /\ audit[r] = << >>
  BY DEF Gateway, Unauthorized, Deny, DryRun, NoServer, Forward, PassOn, Unreachable, Garbled,
         Routes, RequestsMove
<1>3. \A s : Append(<< >>, s) = <<s>> /\ Len(<<s>>) = 1 /\ <<s>>[1] = s /\ <<s>> # << >>
  OBVIOUS
<1>4. ASSUME NEW s \in {"success", "failed", "permission_denied", "dry_run"}, Log(r, s)
      PROVE  /\ audit'[r] = <<s>> /\ Len(audit'[r]) = 1 /\ audit'[r][1] = s /\ audit'[r] # << >>
             /\ \A q \in Requests : q # r => audit'[q] = audit[q]
  BY <1>2, <1>3, <1>4 DEF Log, TypeOK
<1>5. ASSUME NEW a \in {"ok", "is_error", "401", "403", "500", "502"}, Answer(r, a)
      PROVE  /\ gateway'[r] = "answered" /\ answer'[r] = a /\ answer'[r] # NoAnswer
             /\ \A q \in Requests : q # r => answer'[q] = answer[q] /\ gateway'[q] = gateway[q]
  BY <1>5 DEF Answer, TypeOK, NoAnswer
<1>6. /\ "ok" \in Tells("success") /\ "ok" \in Tells("dry_run")
      /\ "403" \in Tells("permission_denied")
      /\ "is_error" \in Tells("failed") /\ "502" \in Tells("failed")
  BY DEF Tells
<1>7. ASSUME \/ server' = server
             \/ server[r] = "asked" /\ server' = [server EXCEPT ![r] = "lost"]
      PROVE  /\ server'[r] = server[r] \/ (server[r] = "asked" /\ server'[r] = "lost")
             /\ \A q \in Requests : q # r => server'[q] = server[q]
  BY <1>7 DEF TypeOK, ServerTypeOK
\* How the cases below end: an answer with an entry, or without.
<1>8. ASSUME NEW s \in {"success", "failed", "permission_denied", "dry_run"},
             NEW a \in {"ok", "is_error", "403", "502"},
             Log(r, s), Answer(r, a), a \in Tells(s),
             a = "ok" /\ kind[r[1]] = "plain" => server'[r] = "succeeded" /\ s = "success",
             UNCHANGED <<fixedVars, clientVars, tool, kernelVars, view, effects, seen>>,
             \/ server' = server
             \/ server[r] = "asked" /\ server' = [server EXCEPT ![r] = "lost"]
      PROVE  OnlyMoves(r)
  <2>1. /\ audit'[r] = <<s>> /\ Len(audit'[r]) = 1 /\ audit'[r][1] = s /\ audit'[r] # << >>
        /\ \A q \in Requests : q # r => audit'[q] = audit[q]
    BY <1>4, <1>8
  <2>2. /\ gateway'[r] = "answered" /\ answer'[r] = a /\ answer'[r] # NoAnswer
        /\ \A q \in Requests : q # r => answer'[q] = answer[q] /\ gateway'[q] = gateway[q]
    BY <1>5, <1>8
  <2>3. /\ server'[r] = server[r] \/ (server[r] = "asked" /\ server'[r] = "lost")
        /\ \A q \in Requests : q # r => server'[q] = server[q]
    BY <1>7, <1>8
  <2>4. Answered(r)
    BY <1>8, <2>1, <2>2, <2>3 DEF Answered
  <2> QED  BY <1>2, <1>8, <2>1, <2>2, <2>3, <2>4 DEF OnlyMoves
<1>9. ASSUME NEW a \in {"401", "500", "502"},
             Answer(r, a), UNCHANGED audit, server'[r] \in {"none", "lost"},
             UNCHANGED <<fixedVars, clientVars, tool, kernelVars, view, effects, seen>>,
             \/ server' = server
             \/ server[r] = "asked" /\ server' = [server EXCEPT ![r] = "lost"]
      PROVE  OnlyMoves(r)
  <2>1. /\ gateway'[r] = "answered" /\ answer'[r] = a /\ answer'[r] # NoAnswer
        /\ \A q \in Requests : q # r => answer'[q] = answer[q] /\ gateway'[q] = gateway[q]
    BY <1>5, <1>9
  <2>2. /\ server'[r] = server[r] \/ (server[r] = "asked" /\ server'[r] = "lost")
        /\ \A q \in Requests : q # r => server'[q] = server[q]
    BY <1>7, <1>9
  <2>3. audit'[r] = << >> /\ Len(audit'[r]) <= 1
        /\ \A q \in Requests : q # r => audit'[q] = audit[q]
    BY <1>2, <1>9
  <2>4. Answered(r)
    BY <1>9, <2>1, <2>2, <2>3 DEF Answered
  <2> QED  BY <1>2, <1>9, <2>1, <2>2, <2>3, <2>4 DEF OnlyMoves
<1>10. CASE Unauthorized(r)
  <2>1. Answer(r, "401") /\ UNCHANGED <<fixedVars, clientVars, serverVars, audit>>
        /\ gateway[r] = "arrived"
    BY <1>10 DEF Unauthorized
  <2>2. server[r] = "none"
    BY <2>1 DEF RequestsMove
  <2> QED  BY <1>9, <2>1, <2>2 DEF serverVars
<1>11. CASE Deny(r)
  <2>1. Log(r, "permission_denied") /\ Answer(r, "403")
    BY <1>11 DEF Deny
  <2>2. /\ UNCHANGED <<fixedVars, clientVars, tool, kernelVars, view, effects, seen>>
        /\ server' = server
    BY <1>11 DEF Deny, serverVars
  <2> QED  BY <1>6, <1>8, <2>1, <2>2
<1>12. CASE DryRun(r)
  <2>1. Log(r, "dry_run") /\ Answer(r, "ok") /\ kind[r[1]] = "dry_run"
    BY <1>12 DEF DryRun
  <2>2. /\ UNCHANGED <<fixedVars, clientVars, tool, kernelVars, view, effects, seen>>
        /\ server' = server
    BY <1>12 DEF DryRun, serverVars
  <2> QED  BY <1>6, <1>8, <2>1, <2>2
<1>13. CASE NoServer(r)
  <2>1. Answer(r, "502") /\ UNCHANGED <<fixedVars, clientVars, serverVars, audit>>
        /\ gateway[r] = "arrived"
    BY <1>13 DEF NoServer, Routes
  <2>2. server[r] = "none"
    BY <2>1 DEF RequestsMove
  <2> QED  BY <1>9, <2>1, <2>2 DEF serverVars
<1>14. CASE Forward(r)
  <2>1. gateway[r] = "arrived" /\ kind[r[1]] = "plain" /\ ~Denied(r[1]) /\ server[r] = "none"
    BY <1>14 DEF Forward, Routes, RequestsMove
  <2>2. /\ gateway'[r] = "forwarded"
        /\ \A q \in Requests : q # r => gateway'[q] = gateway[q]
        /\ UNCHANGED <<fixedVars, clientVars, tool, kernelVars, view, effects, seen, answer, audit>>
    BY <1>14 DEF Forward, TypeOK
  <2>3. /\ server'[r] \in {"asked", "lost"}
        /\ server'[r] = "asked" /\ tool[r[1]] \in JupyterTools => up
        /\ \A q \in Requests : q # r => server'[q] = server[q]
    BY <1>14 DEF Forward, Ask, TypeOK, ServerTypeOK
  <2> QED  BY <1>2, <2>1, <2>2, <2>3 DEF OnlyMoves, Forwarded
<1>15. CASE PassOn(r)
  <2>1. /\ UNCHANGED <<fixedVars, clientVars, tool, kernelVars, view, effects, seen>>
        /\ server' = server
    BY <1>15 DEF PassOn, serverVars
  <2>2. CASE server[r] = "succeeded"
    <3>1. Log(r, "success") /\ Answer(r, "ok")
      BY <1>15, <2>2 DEF PassOn
    <3> QED  BY <1>6, <1>8, <2>1, <2>2, <3>1
  <2>3. CASE server[r] # "succeeded"
    <3>1. Log(r, "failed") /\ Answer(r, "is_error")
      BY <1>15, <2>3 DEF PassOn
    <3> QED  BY <1>6, <1>8, <2>1, <3>1
  <2> QED  BY <2>2, <2>3
<1>16. CASE Unreachable(r)
  <2>1. /\ Log(r, "failed") /\ Answer(r, "502")
        /\ UNCHANGED <<fixedVars, clientVars, tool, kernelVars, view, effects, seen>>
    BY <1>16 DEF Unreachable
  <2>2. \/ server' = server
        \/ server[r] = "asked" /\ server' = [server EXCEPT ![r] = "lost"]
    BY <1>16 DEF Unreachable
  <2> QED  BY <1>6, <1>8, <2>1, <2>2
<1>17. CASE Garbled(r)
  <2>1. /\ Answer(r, "500")
        /\ UNCHANGED <<fixedVars, clientVars, tool, kernelVars, view, effects, seen, audit>>
        /\ server[r] = "asked" /\ server' = [server EXCEPT ![r] = "lost"]
    BY <1>17 DEF Garbled
  <2>2. server'[r] = "lost"
    BY <2>1 DEF TypeOK, ServerTypeOK
  <2> QED  BY <1>9, <2>1, <2>2
<1> QED  BY <1>10, <1>11, <1>12, <1>13, <1>14, <1>15, <1>16, <1>17 DEF Gateway

LEMMA ServerMoves ==
    ASSUME TypeOK, RequestsMove, Server
    PROVE  /\ UNCHANGED <<fixedVars, clientVars, tool, gateway, answer, audit>>
           /\ \A r \in Requests :
                 /\ \/ server'[r] = server[r]
                    \/ server[r] = "asked" /\ server'[r] \in {"running", "succeeded", "failed", "lost"}
                    \/ server[r] = "running" /\ server'[r] \in {"succeeded", "lost"}
                 /\ server'[r] = "asked" /\ tool[r[1]] \in JupyterTools => up'
<1> USE DEF TypeOK, ServerTypeOK
<1>1. UNCHANGED <<fixedVars, clientVars, gateway, answer, audit>>
  BY DEF Server
<1>2. CASE Crash
  <2>1. UNCHANGED tool
        /\ server' = [r \in Requests |->
              IF tool[r[1]] \in JupyterTools /\ server[r] \in {"asked", "running"}
              THEN "lost" ELSE server[r]]
    BY <1>2 DEF Crash
  <2> QED  BY <1>1, <2>1
<1>3. CASE Reboot
  BY <1>1, <1>3 DEF Reboot, RequestsMove
<1>4. ASSUME NEW q \in Requests, Serve(q)
      PROVE  /\ UNCHANGED <<tool, up>>
             /\ \A r \in Requests : r # q => server'[r] = server[r]
             /\ \/ server[q] = "asked" /\ server'[q] \in {"running", "succeeded", "failed", "lost"}
                \/ server[q] = "running" /\ server'[q] \in {"succeeded", "lost"}
  <2> USE DEF Handles, Reply, kernelVars
  <2> QED
    BY <1>4 DEF Serve, CreateKernel, RestartKernel, ExecuteCode, CodeEnds,
                RegisterFeatureView, Materialize, ListVariables, ReadView, ReadCatalog,
                Refuse, NoKernel, NoView, Malformed
<1>5. ASSUME NEW q \in Requests, Serve(q)
      PROVE  \A r \in Requests : 
                 /\ \/ server'[r] = server[r]
                    \/ server[r] = "asked" /\ server'[r] \in {"running", "succeeded", "failed", "lost"}
                    \/ server[r] = "running" /\ server'[r] \in {"succeeded", "lost"}
                 /\ server'[r] = "asked" /\ tool[r[1]] \in JupyterTools => up'
  BY <1>4, <1>5 DEF RequestsMove
<1> QED  BY <1>1, <1>2, <1>3, <1>4, <1>5 DEF Server

----------------------------------------------------------------------------
LEMMA TurnsHold == IInv /\ [Next]_vars => CallsInTurn'
<1> SUFFICES ASSUME IInv, [Next]_vars PROVE CallsInTurn'
  OBVIOUS
<1> USE DEF IInv, CallsInTurn
<1>1. ASSUME NEW c \in Calls, Client(c) PROVE CallsInTurn'
  <2> USE DEF TypeOK
  <2>1. CASE Send(c)
    BY <2>1, ServersAssumption DEF Send, Ended
  <2>2. CASE Receive(c)
    <3>1. /\ client[c] = "waiting" /\ UNCHANGED <<attempt, answer>>
          /\ \A b \in Calls : b # c => client'[b] = client[b]
      BY <2>2 DEF Receive, Retry
    <3>2. \/ client'[c] = "completed" /\ answer[<<c, attempt[c]>>] = "ok"
          \/ client'[c] = "ready" /\ attempt[c] < MaxAttempts
          \/ client'[c] = "failed"
      BY <2>2 DEF Receive, Retry
    <3> QED  BY <3>1, <3>2, ServersAssumption DEF Ended
  <2>3. CASE TimeOut(c)
    BY <2>3, ServersAssumption DEF TimeOut, Retry, Ended
  <2> QED  BY <1>1, <2>1, <2>2, <2>3 DEF Client
<1>2. ASSUME NEW r \in Requests, Gateway(r) PROVE CallsInTurn'
  <2>1. /\ UNCHANGED clientVars /\ answer[r] = NoAnswer
        /\ \A q \in Requests : q # r => answer'[q] = answer[q]
    BY <1>2, GatewayMoves DEF OnlyMoves
  <2>2. \A c \in Calls : attempt[c] > 0 => <<c, attempt[c]>> \in Requests
    BY AttemptIsRequest
  <2> QED  BY <2>1, <2>2 DEF clientVars, NoAnswer
<1>3. CASE Server
  BY <1>3, ServerMoves DEF clientVars
<1>4. CASE UNCHANGED vars
  BY <1>4 DEF vars, clientVars
<1> QED  BY <1>1, <1>2, <1>3, <1>4 DEF Next

LEMMA MovesHold == IInv /\ [Next]_vars => RequestsMove' /\ AuditMatchesAnswer'
<1> SUFFICES ASSUME IInv, [Next]_vars PROVE RequestsMove' /\ AuditMatchesAnswer'
  OBVIOUS
<1> USE DEF IInv
<1>1. ASSUME NEW c \in Calls, Client(c) PROVE RequestsMove' /\ AuditMatchesAnswer'
  <2>1. UNCHANGED <<fixedVars, serverVars, answer, audit>>
    BY <1>1 DEF Client, Send, Receive, TimeOut
  <2>2. AuditMatchesAnswer'
    BY <2>1 DEF AuditMatchesAnswer, Tells, serverVars
  <2>3. CASE Send(c)
    <3> DEFINE sent == <<c, attempt[c] + 1>>
    <3>1. /\ attempt' = [attempt EXCEPT ![c] = @ + 1]
          /\ gateway' = [gateway EXCEPT ![sent] = "arrived"]
          /\ attempt \in [Calls -> 0..MaxAttempts] /\ attempt[c] < MaxAttempts
      BY <2>3 DEF Send, TypeOK, CallsInTurn
    <3>2. sent \in Requests /\ sent[1] = c /\ sent[2] = attempt[c] + 1 /\ attempt[c] \in Nat
      BY <3>1, ServersAssumption DEF Requests
    <3>3. gateway[sent] = "none"
      BY <3>2 DEF RequestsMove
    <3>4. gateway'[sent] = "arrived" /\ \A r \in Requests : r # sent => gateway'[r] = gateway[r]
      BY <3>1, <3>2 DEF TypeOK
    <3>5. ASSUME NEW r \in Requests, r[2] > attempt'[r[1]] PROVE gateway'[r] = "none"
      <4>1. r[1] \in Calls /\ r[2] \in Nat
        BY RequestParts
      <4>2. r[2] > attempt[r[1]] /\ r # sent
        BY <3>1, <3>2, <3>5, <4>1
      <4> QED  BY <3>4, <4>2 DEF RequestsMove
    <3>6. \A r \in Requests : gateway'[r] \in {"forwarded", "answered"} <=>
                                gateway[r] \in {"forwarded", "answered"}
      BY <3>3, <3>4
    <3>7. \A r \in Requests : gateway'[r] = "answered" <=> gateway[r] = "answered"
      BY <3>3, <3>4
    <3> QED
      BY <2>1, <2>2, <3>5, <3>6, <3>7
      DEF RequestsMove, Denied, Level, fixedVars, serverVars, kernelVars
  <2>4. CASE ~Send(c)
    <3>1. UNCHANGED <<attempt, gateway>>
      BY <1>1, <2>4 DEF Client, Receive, TimeOut
    <3> QED  BY <2>1, <2>2, <3>1 DEF RequestsMove, Denied, Level, fixedVars, serverVars, kernelVars
  <2> QED  BY <2>3, <2>4
<1>2. ASSUME NEW r \in Requests, Gateway(r) PROVE RequestsMove' /\ AuditMatchesAnswer'
  <2>1. /\ UNCHANGED <<fixedVars, clientVars, tool, up>>
        /\ \A c : Denied(c) <=> Denied(c)'
    BY <1>2, GatewayMoves DEF OnlyMoves, Denied, Level, fixedVars, kernelVars
  <2>2. ASSUME NEW q \in Requests, q # r
        PROVE  gateway'[q] = gateway[q] /\ server'[q] = server[q]
               /\ answer'[q] = answer[q] /\ audit'[q] = audit[q]
    BY <1>2, <2>2, GatewayMoves DEF OnlyMoves
  <2>3. r[2] <= attempt[r[1]]
    <3>1. gateway[r] # "none"
      BY <1>2, GatewayMoves DEF OnlyMoves
    <3>2. r[2] \in Nat /\ attempt[r[1]] \in Nat
      BY RequestParts DEF TypeOK
    <3> QED  BY <3>1, <3>2 DEF RequestsMove
  <2>4. RequestsMove'
    <3> SUFFICES ASSUME NEW q \in Requests
                 PROVE  /\ gateway'[q] = "forwarded" => server'[q] # "none"
                        /\ q[2] > attempt[q[1]] => gateway'[q] = "none"
                        /\ server'[q] # "none" => kind[q[1]] = "plain" /\ ~Denied(q[1])
                                                    /\ gateway'[q] \in {"forwarded", "answered"}
                        /\ answer'[q] # NoAnswer <=> gateway'[q] = "answered"
                        /\ answer'[q] = NoAnswer => audit'[q] = << >>
                        /\ answer'[q] = "ok" /\ kind[q[1]] = "plain" =>
                              server'[q] = "succeeded" /\ audit'[q] = <<"success">>
                        /\ server'[q] = "asked" /\ tool[q[1]] \in JupyterTools => up
      BY <2>1 DEF RequestsMove, fixedVars, clientVars
    <3>1. CASE q # r
      BY <2>2, <3>1 DEF RequestsMove
    <3>2. CASE q = r
      <4>1. ~(r[2] > attempt[r[1]])
        BY <2>3, RequestParts DEF TypeOK
      <4> QED  BY <1>2, <3>2, <4>1, GatewayMoves DEF OnlyMoves, Answered, Forwarded, RequestsMove
    <3> QED  BY <3>1, <3>2
  <2>5. AuditMatchesAnswer'
    <3> SUFFICES ASSUME NEW q \in Requests
                 PROVE  /\ Len(audit'[q]) <= 1
                        /\ audit'[q] # << >> => answer'[q] \in Tells(audit'[q][1])
                        /\ \/ answer'[q] \in {"ok", "is_error", "403"}
                           \/ answer'[q] # NoAnswer /\ server'[q] \notin {"none", "lost"}
                           => audit'[q] # << >>
      BY DEF AuditMatchesAnswer, Tells
    <3>1. CASE q # r
      BY <2>2, <3>1 DEF AuditMatchesAnswer
    <3>2. CASE q = r
      <4>1. Len(<< >>) = 0
        OBVIOUS
      <4> QED  BY <1>2, <3>2, <4>1, GatewayMoves DEF OnlyMoves, Answered, Forwarded, NoAnswer
    <3> QED  BY <3>1, <3>2
  <2> QED  BY <2>4, <2>5
<1>3. CASE Server
  <2>1. /\ UNCHANGED <<fixedVars, clientVars, tool, gateway, answer, audit>>
        /\ \A c : Denied(c) <=> Denied(c)'
    BY <1>3, ServerMoves DEF Denied, Level, fixedVars
  <2>2. AuditMatchesAnswer'
    <3>1. \A r \in Requests : server'[r] \notin {"none", "lost"} =>
                               server[r] \notin {"none", "lost"}
      BY <1>3, ServerMoves
    <3> QED  BY <2>1, <3>1 DEF AuditMatchesAnswer, Tells
  <2>3. \A r \in Requests :
          /\ server'[r] # "none" <=> server[r] # "none"
          /\ server[r] = "succeeded" => server'[r] = "succeeded"
          /\ server'[r] = "asked" /\ tool[r[1]] \in JupyterTools => up'
    BY <1>3, ServerMoves
  <2> QED  BY <2>1, <2>2, <2>3 DEF RequestsMove, fixedVars, clientVars
<1>4. CASE UNCHANGED vars
  BY <1>4 DEF vars, fixedVars, clientVars, serverVars, kernelVars, RequestsMove,
              AuditMatchesAnswer, Denied, Level, Tells
<1> QED  BY <1>1, <1>2, <1>3, <1>4 DEF Next

----------------------------------------------------------------------------
\* What a request's code has done is there as long as the kernel is.  A call
\* that is completed has left its effects before the next one is sent.

LEMMA CompletedRequest ==
    ASSUME IInv, NEW c \in Calls, client[c] = "completed", kind[c] = "plain"
    PROVE  /\ <<c, attempt[c]>> \in Requests
           /\ server[<<c, attempt[c]>>] = "succeeded"
           /\ audit[<<c, attempt[c]>>] = <<"success">>
<1> DEFINE r == <<c, attempt[c]>>
<1>1. attempt[c] > 0 /\ answer[r] = "ok"
  BY DEF IInv, CallsInTurn
<1>2. r \in Requests /\ r[1] = c
  BY <1>1, AttemptIsRequest DEF IInv
<1> QED  BY <1>1, <1>2 DEF IInv, RequestsMove

\* Once a request of a call has reached its server, the calls before are over.
LEMMA BegunAfterEnded ==
    ASSUME IInv, NEW r \in Requests, server[r] # "none", NEW b \in Calls, b < r[1]
    PROVE  client[b] \in Ended
<1>1. gateway[r] # "none"
  BY DEF IInv, RequestsMove
<1>2. r[1] \in Calls /\ r[2] \in 1..MaxAttempts /\ attempt[r[1]] \in Nat
  BY RequestParts DEF IInv, TypeOK
<1>3. attempt[r[1]] # 0
  BY <1>1, <1>2, ServersAssumption DEF IInv, RequestsMove
<1> QED  BY <1>2, <1>3 DEF IInv, CallsInTurn

LEMMA WorkKept == IInv /\ [Next]_vars => WorkIsKept'
<1> SUFFICES ASSUME IInv, [Next]_vars, ~Restarts',
                    NEW r \in Requests, Begun(r)'
             PROVE  /\ Given \in kernels' => r[1] \in namespace'
                    /\ \A b \in Calls : b < r[1] /\ Ran(b)' => b \in seen'[r]
  BY DEF WorkIsKept
<1> DEFINE Kept == /\ Given \in kernels' => r[1] \in namespace'
                   /\ \A b \in Calls : b < r[1] /\ Ran(b)' => b \in seen'[r]
<1> USE DEF IInv
<1>1. r[1] \in Calls
  BY RequestParts
<1>2. UNCHANGED <<tool, kind>>
  <2>1. ASSUME NEW q \in Requests, Gateway(q) PROVE UNCHANGED <<tool, kind>>
    BY <2>1, GatewayMoves DEF OnlyMoves, fixedVars
  <2>2. CASE Server
    BY <2>2, ServerMoves DEF fixedVars
  <2>3. ASSUME NEW c \in Calls, Client(c) PROVE UNCHANGED <<tool, kind>>
    BY <2>3 DEF Client, Send, Receive, TimeOut, fixedVars, serverVars
  <2> QED  BY <2>1, <2>2, <2>3 DEF Next, vars, fixedVars, serverVars
<1>3. ~Restarts
  BY <1>2 DEF Restarts
\* What has been begun before keeps its place, and so do the calls before it.
<1>4. ASSUME Begun(r), NEW b \in Calls, b < r[1], Ran(b)' PROVE Ran(b) /\ b \in seen[r]
  <2>1. client[b] \in Ended
    BY <1>4, BegunAfterEnded DEF Begun
  <2>2. client'[b] = client[b]
    <3>1. ASSUME NEW c \in Calls, Client(c) PROVE client'[b] = client[b]
      <4>1. client[c] \notin Ended
        BY <3>1 DEF Client, Send, Receive, TimeOut, Ended
      <4>2. b # c
        BY <2>1, <4>1
      <4> QED  BY <3>1, <4>2 DEF Client, Send, Receive, TimeOut, Retry, TypeOK
    <3>2. ASSUME NEW q \in Requests, Gateway(q) PROVE client'[b] = client[b]
      BY <3>2, GatewayMoves DEF OnlyMoves, clientVars
    <3>3. CASE Server
      BY <3>3, ServerMoves DEF clientVars
    <3> QED  BY <3>1, <3>2, <3>3 DEF Next, vars, clientVars
  <2>3. Ran(b)
    BY <1>2, <1>4, <2>2 DEF Ran
  <2> QED  BY <1>3, <1>4, <2>3 DEF WorkIsKept
<1>5. ASSUME Begun(r), UNCHANGED <<kernels, namespace>> \/ Given \notin kernels', seen'[r] = seen[r]
      PROVE  Kept
  BY <1>3, <1>4, <1>5 DEF WorkIsKept
<1>6. ASSUME NEW c \in Calls, Client(c)
      PROVE  Kept
  <2>1. UNCHANGED serverVars
    BY <1>6 DEF Client, Send, Receive, TimeOut
  <2> QED  BY <1>5, <2>1 DEF Begun, serverVars, kernelVars
<1>7. ASSUME NEW q \in Requests, Gateway(q)
      PROVE  Kept
  <2>1. UNCHANGED <<tool, kernelVars, seen>>
    BY <1>7, GatewayMoves DEF OnlyMoves
  <2>2. server'[r] = server[r] \/ server'[r] \in {"asked", "lost"}
    BY <1>7, GatewayMoves DEF OnlyMoves, Forwarded, Answered
  <2>3. Begun(r)
    BY <1>2, <2>2 DEF Begun
  <2> QED  BY <1>5, <2>1, <2>3 DEF kernelVars
<1>8. ASSUME Server
      PROVE  Kept
  <2> USE DEF Handles, Reply, kernelVars
  <2>1. CASE Crash
    <3>1. kernels' = {} /\ seen' = seen
      BY <2>1 DEF Crash
    <3>2. server'[r] = server[r] \/ server'[r] = "lost"
      BY <2>1 DEF Crash
    <3> QED  BY <1>2, <1>5, <3>1, <3>2 DEF Begun
  <2>2. CASE Reboot
    BY <1>5, <2>2 DEF Reboot, Begun
  <2>3. ASSUME NEW q \in Requests, CreateKernel(q)
        PROVE  Kept
    <3>1. Given \in kernels' => Given \in kernels
      BY <2>3, RequestParts DEF CreateKernel
    <3>2. UNCHANGED <<namespace, seen>>
      BY <2>3 DEF CreateKernel
    <3>3. Begun(r)
      BY <1>2, <2>3 DEF CreateKernel, Begun, Code, TypeOK, ServerTypeOK
    <3> QED  BY <1>3, <1>4, <3>1, <3>2, <3>3 DEF WorkIsKept
  <2>4. ASSUME NEW q \in Requests, ExecuteCode(q)
        PROVE  Kept
    <3>1. CASE r = q
      <4>1. r[1] \in namespace' /\ seen'[r] = namespace /\ Given \in kernels /\ UNCHANGED client
        BY <1>8, <2>4, <3>1 DEF ExecuteCode, TypeOK, ServerTypeOK, Server, clientVars
      <4>2. ASSUME NEW b \in Calls, b < r[1], Ran(b)' PROVE b \in namespace
        <5>1. Ran(b)
          BY <1>2, <4>1, <4>2 DEF Ran
        <5>2. <<b, attempt[b]>> \in Requests /\ Begun(<<b, attempt[b]>>)
          BY <5>1, CompletedRequest DEF Ran, Begun
        <5> QED  BY <1>3, <4>1, <5>2 DEF WorkIsKept
      <4> QED  BY <4>1, <4>2
    <3>2. CASE r # q
      <4>1. server'[r] = server[r] /\ seen'[r] = seen[r] /\ namespace \subseteq namespace'
            /\ UNCHANGED kernels
        BY <2>4, <3>2 DEF ExecuteCode, TypeOK, ServerTypeOK
      <4>2. Begun(r)
        BY <1>2, <4>1 DEF Begun
      <4> QED  BY <1>3, <1>4, <4>1, <4>2 DEF WorkIsKept
    <3> QED  BY <3>1, <3>2
  <2>5. ASSUME NEW q \in Requests, CodeEnds(q)
        PROVE  Kept
    <3>1. Begun(r) /\ UNCHANGED <<kernels, namespace, seen>>
      BY <1>2, <2>5 DEF CodeEnds, Begun, TypeOK, ServerTypeOK
    <3> QED  BY <1>5, <3>1
  <2>6. ASSUME NEW q \in Requests,
               \/ RegisterFeatureView(q) \/ Materialize(q) \/ ListVariables(q)
               \/ ReadView(q) \/ ReadCatalog(q) \/ Refuse(q)
        PROVE  Kept
    <3>1. UNCHANGED <<kernels, namespace, seen>>
      BY <2>6 DEF RegisterFeatureView, Materialize, ListVariables, ReadView, ReadCatalog, Refuse
    <3>2. CASE Refuse(q)
      <4>1. server'[r] = server[r] \/ server'[r] = "failed"
        BY <3>2 DEF Refuse, TypeOK, ServerTypeOK
      <4> QED  BY <1>2, <1>5, <3>1, <4>1 DEF Begun
    <3>3. CASE ~Refuse(q)
      <4>1. tool[q[1]] \notin Code /\ server' = [server EXCEPT ![q] = "succeeded"]
        BY <2>6, <3>3 DEF RegisterFeatureView, Materialize, ListVariables, ReadView,
                          ReadCatalog, Code, ViewTools
      <4>2. Begun(r)
        BY <1>2, <4>1 DEF Begun, TypeOK, ServerTypeOK
      <4> QED  BY <1>5, <3>1, <4>2
    <3> QED  BY <3>2, <3>3
  <2>7. ASSUME NEW q \in Requests, RestartKernel(q) PROVE FALSE
    BY <1>3, <2>7, RequestParts DEF RestartKernel, Restarts
  <2> QED  BY <1>8, <2>1, <2>2, <2>3, <2>4, <2>5, <2>6, <2>7 DEF Server, Serve
<1>9. CASE UNCHANGED vars
  BY <1>5, <1>9 DEF vars, serverVars, kernelVars, Begun
<1> QED  BY <1>6, <1>7, <1>8, <1>9 DEF Next

----------------------------------------------------------------------------
\* A request that its server has got to is counted from then on.

LEMMA CountOfRequests ==
    ASSUME TypeOK, NEW c \in Calls
    PROVE  /\ IsFiniteSet(GotTo(c)) /\ Cardinality(GotTo(c)) \in Nat
           /\ RequestsMove => Cardinality(GotTo(c)) <= attempt[c]
<1>1. attempt[c] \in Nat /\ GotTo(c) \subseteq 1..MaxAttempts /\ MaxAttempts \in Nat
  BY ServersAssumption DEF TypeOK, GotTo
<1>2. IsFiniteSet(GotTo(c)) /\ Cardinality(GotTo(c)) \in Nat
  <2>1. IsFiniteSet(GotTo(c))
    <3>1. IsFiniteSet(1..MaxAttempts)
      BY <1>1, FS_Interval
    <3> QED  BY <1>1, <3>1, FS_Subset
  <2> QED  BY <2>1, FS_CardinalityType
<1>3. ASSUME RequestsMove PROVE Cardinality(GotTo(c)) <= attempt[c]
  <2>1. GotTo(c) \subseteq 1..attempt[c]
    <3> SUFFICES ASSUME NEW n \in GotTo(c) PROVE n <= attempt[c]
      BY <1>1
    <3>1. n \in 1..MaxAttempts /\ <<c, n>> \in Requests /\ server[<<c, n>>] # "none"
      BY AttemptIsRequest DEF GotTo
    <3>2. gateway[<<c, n>>] # "none"
      BY <1>3, <3>1 DEF RequestsMove
    <3>3. ~(n > attempt[c])
      BY <1>3, <3>1, <3>2 DEF RequestsMove
    <3> QED  BY <1>1, <3>1, <3>3
  <2>2. IsFiniteSet(1..attempt[c]) /\ Cardinality(1..attempt[c]) = attempt[c]
    BY <1>1, FS_Interval, SMTT(30)
  <2> QED  BY <2>1, <2>2, FS_Subset
<1> QED  BY <1>2, <1>3

LEMMA CountGrows ==
    ASSUME TypeOK, TypeOK', NEW c \in Calls,
           \A r \in Requests : server[r] \notin {"none", "asked"} =>
                                server'[r] \notin {"none", "asked"}
    PROVE  /\ Cardinality(GotTo(c)) \in Nat /\ Cardinality(GotTo(c)') \in Nat
           /\ Cardinality(GotTo(c)) <= Cardinality(GotTo(c)')
           /\ \A r \in Requests :
                 r[1] = c /\ server[r] = "asked" /\ server'[r] \notin {"none", "asked"} =>
                    Cardinality(GotTo(c)) + 1 <= Cardinality(GotTo(c)')
<1>1. GotTo(c) \subseteq GotTo(c)'
  BY AttemptIsRequest DEF GotTo
<1>2. IsFiniteSet(GotTo(c)) /\ IsFiniteSet(GotTo(c)')
      /\ Cardinality(GotTo(c)) \in Nat /\ Cardinality(GotTo(c)') \in Nat
  <2>1. GotTo(c)' \subseteq 1..MaxAttempts
    BY DEF GotTo
  <2>2. IsFiniteSet(GotTo(c)')
    <3>1. IsFiniteSet(1..MaxAttempts)
      BY ServersAssumption, FS_Interval
    <3> QED  BY <2>1, <3>1, FS_Subset
  <2> QED  BY <2>2, CountOfRequests, FS_CardinalityType
<1>3. ASSUME NEW r \in Requests, r[1] = c, server[r] = "asked",
             server'[r] \notin {"none", "asked"}
      PROVE  Cardinality(GotTo(c)) + 1 <= Cardinality(GotTo(c)')
  <2>1. r = <<c, r[2]>> /\ r[2] \in 1..MaxAttempts
    BY <1>3, RequestParts
  <2>2. r[2] \notin GotTo(c) /\ r[2] \in GotTo(c)'
    BY <1>3, <2>1 DEF GotTo
  <2>3. GotTo(c) \cup {r[2]} \subseteq GotTo(c)'
    BY <1>1, <2>2
  <2>4. /\ IsFiniteSet(GotTo(c) \cup {r[2]})
        /\ Cardinality(GotTo(c) \cup {r[2]}) = Cardinality(GotTo(c)) + 1
    BY <1>2, <2>2, FS_AddElement
  <2> QED  BY <1>2, <2>3, <2>4, FS_Subset
<1> QED  BY <1>1, <1>2, <1>3, FS_Subset

\* The bound grows with the count by what a request can change.
LEMMA BoundGrows ==
    ASSUME NEW a \in {0, 1, 2}, NEW m \in Nat, NEW n \in Nat, NEW e \in Nat, NEW k \in Nat,
           e <= a * m, (k = 0 /\ m <= n) \/ (k <= a /\ m + 1 <= n)
    PROVE  e + k <= a * n
<1>1. CASE a = 0
  BY <1>1
<1>2. CASE a = 1
  BY <1>2
<1>3. CASE a = 2
  BY <1>3
<1> QED  BY <1>1, <1>2, <1>3

LEMMA ChangesAreFew == ASSUME NEW c PROVE Changes(c) \in {0, 1, 2}
BY DEF Changes

\* Steps that change no server.
LEMMA CountedUnchanged ==
    ASSUME IInv, TypeOK', UNCHANGED <<tool, view, effects>>,
           \A r \in Requests : server[r] \notin {"none", "asked"} =>
                                server'[r] \notin {"none", "asked"},
           \A c \in Calls : attempt'[c] = 1 /\ server'[<<c, 1>>] \in {"running", "succeeded"} =>
               \/ attempt[c] = 1 /\ server[<<c, 1>>] \in {"running", "succeeded"}
               \/ Changes(c) = 0 /\ effects[c] = 0
               \/ tool[c] = "register_feature_view" /\ view # NoCall
    PROVE  EffectsCounted'
<1> SUFFICES ASSUME NEW c \in Calls
             PROVE  /\ effects'[c] <= Changes(c)' * Cardinality(GotTo(c)')
                    /\ tool'[c] = "register_feature_view" =>
                          effects'[c] = IF view' = c THEN 1 ELSE 0
                    /\ attempt'[c] = 1 /\ server'[<<c, 1>>] \in {"running", "succeeded"} =>
                          \/ effects'[c] = Changes(c)'
                          \/ tool'[c] = "register_feature_view" /\ view' # NoCall
  BY DEF EffectsCounted
<1>1. Changes(c)' = Changes(c) /\ effects'[c] = effects[c]
  BY DEF Changes
<1>2. Cardinality(GotTo(c)) <= Cardinality(GotTo(c)')
  BY CountGrows DEF IInv
<1>3. effects[c] \in Nat /\ Cardinality(GotTo(c)) \in Nat /\ Cardinality(GotTo(c)') \in Nat
  BY CountGrows DEF IInv, TypeOK, ServerTypeOK
<1>4. effects[c] + 0 <= Changes(c) * Cardinality(GotTo(c)')
  BY <1>2, <1>3, ChangesAreFew, BoundGrows DEF IInv, EffectsCounted
<1> QED  BY <1>1, <1>3, <1>4 DEF IInv, EffectsCounted

\* A request that its server has not got to, of a call that has been sent once,
\* is its only one, and has changed nothing yet.
LEMMA NothingCounted ==
    ASSUME IInv, NEW r \in Requests, server[r] = "asked", attempt[r[1]] = 1
    PROVE  effects[r[1]] = 0
<1>1. r[1] \in Calls /\ r = <<r[1], r[2]>> /\ r[2] \in 1..MaxAttempts
  BY RequestParts
<1>2. ASSUME NEW n \in 1..MaxAttempts PROVE n \notin GotTo(r[1])
  <2>1. <<r[1], n>> \in Requests /\ <<r[1], n>>[1] = r[1] /\ <<r[1], n>>[2] = n
    BY <1>1, AttemptIsRequest DEF IInv
  <2>2. CASE n > 1
    <3>1. gateway[<<r[1], n>>] = "none"
      BY <2>1, <2>2 DEF IInv, RequestsMove
    <3>2. server[<<r[1], n>>] = "none"
      BY <2>1, <3>1 DEF IInv, RequestsMove
    <3> QED  BY <3>2 DEF GotTo
  <2>3. CASE n = 1
    <3>1. gateway[r] # "none"
      BY DEF IInv, RequestsMove
    <3>2. r[2] = 1
      BY <1>1, <3>1 DEF IInv, RequestsMove
    <3> QED  BY <1>1, <2>3, <3>2 DEF GotTo
  <2> QED  BY <2>2, <2>3
<1>3. GotTo(r[1]) = {}
  BY <1>2 DEF GotTo
<1>4. Cardinality(GotTo(r[1])) = 0
  BY <1>3, FS_EmptySet
<1>5. effects[r[1]] <= Changes(r[1]) * 0 /\ effects[r[1]] \in Nat
  BY <1>1, <1>4 DEF IInv, EffectsCounted, TypeOK, ServerTypeOK
<1> QED  BY <1>1, <1>5, ChangesAreFew

\* A server gets to a request and changes by k, which is what its tool does or,
\* for a view that is there, nothing.
LEMMA CountedOnce ==
    ASSUME IInv, TypeOK', UNCHANGED <<tool, attempt>>, NEW r \in Requests,
           server[r] = "asked", NEW v \in {"running", "succeeded"},
           server' = [server EXCEPT ![r] = v],
           NEW k \in Nat, effects' = [effects EXCEPT ![r[1]] = @ + k],
           IF tool[r[1]] = "register_feature_view"
           THEN IF view = NoCall THEN k = 1 /\ view' = r[1] ELSE k = 0 /\ view' = view
           ELSE k = Changes(r[1]) /\ view' = view
    PROVE  EffectsCounted'
<1>1. r[1] \in Calls /\ r = <<r[1], r[2]>> /\ r[1] # NoCall
  BY RequestParts
<1>2. \A q \in Requests : server'[q] = IF q = r THEN v ELSE server[q]
  BY DEF IInv, TypeOK, ServerTypeOK
<1>3. \A q \in Requests : server[q] \notin {"none", "asked"} =>
                         server'[q] \notin {"none", "asked"}
  BY <1>2
<1>4. k <= Changes(r[1])
  BY ChangesAreFew DEF Changes
<1> SUFFICES ASSUME NEW c \in Calls
             PROVE  /\ effects'[c] <= Changes(c)' * Cardinality(GotTo(c)')
                    /\ tool'[c] = "register_feature_view" =>
                          effects'[c] = IF view' = c THEN 1 ELSE 0
                    /\ attempt'[c] = 1 /\ server'[<<c, 1>>] \in {"running", "succeeded"} =>
                          \/ effects'[c] = Changes(c)'
                          \/ tool'[c] = "register_feature_view" /\ view' # NoCall
  BY DEF EffectsCounted
<1>5. Changes(c)' = Changes(c)
  BY DEF Changes
<1>6. /\ effects \in [Calls -> Nat]
      /\ Cardinality(GotTo(c)) \in Nat /\ Cardinality(GotTo(c)') \in Nat
      /\ Cardinality(GotTo(c)) <= Cardinality(GotTo(c)')
  BY <1>3, CountGrows DEF IInv, TypeOK, ServerTypeOK
<1>7. CASE c = r[1]
  <2>1. effects'[c] = effects[c] + k
    BY <1>6, <1>7
  <2>2. Cardinality(GotTo(c)) + 1 <= Cardinality(GotTo(c)')
    BY <1>2, <1>3, <1>7, CountGrows DEF IInv
  <2>3. effects[c] + k <= Changes(c) * Cardinality(GotTo(c)')
    <3>1. effects[c] <= Changes(c) * Cardinality(GotTo(c)) /\ effects[c] \in Nat
      BY <1>6 DEF IInv, EffectsCounted
    <3>2. Changes(c) \in {0, 1, 2} /\ k <= Changes(c)
      BY <1>4, <1>7, ChangesAreFew
    <3> QED  BY <1>6, <2>2, <3>1, <3>2, BoundGrows
  <2>4. ASSUME tool[c] = "register_feature_view"
        PROVE  effects'[c] = (IF view' = c THEN 1 ELSE 0) /\ view' # NoCall
    <3>1. effects[c] = IF view = c THEN 1 ELSE 0
      BY <2>4 DEF IInv, EffectsCounted
    <3> QED  BY <1>1, <1>7, <2>1, <2>4, <3>1
  <2>5. ASSUME attempt'[c] = 1, tool[c] # "register_feature_view"
        PROVE  effects'[c] = Changes(c)
    <3>1. effects[c] = 0
      BY <1>7, <2>5, NothingCounted
    <3> QED  BY <1>7, <2>1, <2>5, <3>1, ChangesAreFew
  <2> QED  BY <1>5, <2>1, <2>3, <2>4, <2>5
<1>8. CASE c # r[1]
  <2>1. effects'[c] = effects[c] /\ <<c, 1>> # r
    BY <1>1, <1>6, <1>8
  <2>2. effects[c] + 0 <= Changes(c) * Cardinality(GotTo(c)')
    <3>1. effects[c] <= Changes(c) * Cardinality(GotTo(c)) /\ effects[c] \in Nat
      BY <1>6 DEF IInv, EffectsCounted
    <3>2. Changes(c) \in {0, 1, 2}
      BY ChangesAreFew
    <3> QED  BY <1>6, <3>1, <3>2, BoundGrows
  <2>3. tool[c] = "register_feature_view" => effects[c] = IF view' = c THEN 1 ELSE 0
    <3>1. c # NoCall
      BY ServersAssumption DEF NoCall
    <3> QED  BY <1>8, <3>1 DEF IInv, EffectsCounted
  <2>4. view # NoCall => view' # NoCall
    BY <1>1
  <2>5. ASSUME attempt[c] = 1, server'[<<c, 1>>] \in {"running", "succeeded"}
        PROVE  server[<<c, 1>>] \in {"running", "succeeded"}
    <3>1. <<c, 1>> \in Requests
      BY ServersAssumption DEF Requests
    <3> QED  BY <1>2, <2>1, <2>5, <3>1
  <2> QED  BY <1>5, <1>6, <2>1, <2>2, <2>3, <2>4, <2>5 DEF IInv, EffectsCounted
<1> QED  BY <1>7, <1>8

LEMMA EffectsHold == IInv /\ [Next]_vars => EffectsCounted'
<1> SUFFICES ASSUME IInv, [Next]_vars PROVE EffectsCounted'
  OBVIOUS
<1>1. TypeOK'
  BY TypesHold
<1>2. ASSUME NEW c \in Calls, Client(c) PROVE EffectsCounted'
  <2>1. UNCHANGED serverVars
    BY <1>2 DEF Client, Send, Receive, TimeOut
  <2>2. ASSUME NEW d \in Calls, attempt'[d] = 1, server[<<d, 1>>] \in {"running", "succeeded"}
        PROVE  attempt[d] = 1
    <3>1. /\ <<d, 1>> \in Requests /\ <<d, 1>>[1] = d /\ <<d, 1>>[2] = 1
          /\ attempt[d] \in Nat
      BY ServersAssumption DEF Requests, IInv, TypeOK
    <3>2. gateway[<<d, 1>>] # "none"
      BY <2>2, <3>1 DEF IInv, RequestsMove
    <3>3. attempt[d] # 0
      BY <3>1, <3>2 DEF IInv, RequestsMove
    <3>4. attempt'[d] = attempt[d] \/ attempt'[d] = attempt[d] + 1
      BY <1>2 DEF Client, Send, Receive, TimeOut, IInv, TypeOK
    <3> QED  BY <2>2, <3>1, <3>3, <3>4
  <2> QED  BY <1>1, <2>1, <2>2, CountedUnchanged DEF serverVars
<1>3. ASSUME NEW r \in Requests, Gateway(r) PROVE EffectsCounted'
  <2>1. UNCHANGED <<attempt, tool, view, effects>>
    BY <1>3, GatewayMoves DEF OnlyMoves, clientVars, IInv
  <2>2. \A q \in Requests :
           /\ server[q] \notin {"none", "asked"} => server'[q] \notin {"none", "asked"}
           /\ server'[q] \in {"running", "succeeded"} => server[q] \in {"running", "succeeded"}
    BY <1>3, GatewayMoves DEF OnlyMoves, Forwarded, Answered, IInv
  <2>3. \A c \in Calls : <<c, 1>> \in Requests
    BY ServersAssumption DEF Requests
  <2> QED  BY <1>1, <2>1, <2>2, <2>3, CountedUnchanged
<1>4. ASSUME Server PROVE EffectsCounted'
  <2>1. UNCHANGED <<attempt, tool>>
    BY <1>4, ServerMoves DEF IInv, clientVars
  <2>2. \A q \in Requests :
           server[q] \notin {"none", "asked"} => server'[q] \notin {"none", "asked"}
    BY <1>4, ServerMoves DEF IInv
  <2>3. \A c \in Calls : <<c, 1>> \in Requests
    BY ServersAssumption DEF Requests
  <2>4. ASSUME Crash \/ Reboot PROVE EffectsCounted'
    <3>1. /\ UNCHANGED <<view, effects>>
          /\ \A q \in Requests : server'[q] = server[q] \/ server'[q] = "lost"
      BY <2>4 DEF Crash, Reboot
    <3> QED  BY <1>1, <2>1, <2>2, <2>3, <3>1, CountedUnchanged
  <2>5. ASSUME NEW r \in Requests, Serve(r) PROVE EffectsCounted'
    <3> USE <1>1, <2>1 DEF Handles, Reply, TakesEffect
    <3>1. r[1] \in Calls /\ effects \in [Calls -> Nat]
      BY RequestParts DEF IInv, TypeOK, ServerTypeOK
    <3>2. CASE CreateKernel(r)
      <4>1. Changes(r[1]) = 1 /\ tool[r[1]] # "register_feature_view"
        BY <3>2 DEF CreateKernel, Changes
      <4> QED  BY <3>2, <4>1, CountedOnce DEF CreateKernel
    <3>3. CASE RestartKernel(r)
      <4>1. Changes(r[1]) = 1 /\ tool[r[1]] # "register_feature_view"
        BY <3>3 DEF RestartKernel, Changes
      <4> QED  BY <3>3, <4>1, CountedOnce DEF RestartKernel
    <3>4. CASE ExecuteCode(r)
      <4>1. /\ Changes(r[1]) = IF tool[r[1]] = "relapse" THEN 2 ELSE 1
            /\ tool[r[1]] # "register_feature_view"
        BY <3>4 DEF ExecuteCode, Changes, Code
      <4> QED  BY <3>4, <4>1, CountedOnce DEF ExecuteCode
    <3>5. CASE CodeEnds(r)
      <4>1. server[r] = "running" /\ server' = [server EXCEPT ![r] = "succeeded"]
            /\ UNCHANGED <<view, effects>>
        BY <3>5 DEF CodeEnds
      <4>2. \A q \in Requests : server'[q] \in {"running", "succeeded"} =>
                               server[q] \in {"running", "succeeded"}
        BY <4>1 DEF IInv, TypeOK, ServerTypeOK
      <4> QED  BY <2>2, <2>3, <4>1, <4>2, CountedUnchanged
    <3>6. CASE RegisterFeatureView(r)
      <4>1. /\ server[r] = "asked" /\ server' = [server EXCEPT ![r] = "succeeded"]
            /\ tool[r[1]] = "register_feature_view"
        BY <3>6 DEF RegisterFeatureView
      <4>2. CASE view = NoCall
        <5>1. view' = r[1] /\ effects' = [effects EXCEPT ![r[1]] = @ + 1]
          BY <3>6, <4>2 DEF RegisterFeatureView
        <5> QED  BY <4>1, <4>2, <5>1, CountedOnce
      <4>3. CASE view # NoCall
        <5>1. view' = view /\ effects' = [effects EXCEPT ![r[1]] = @ + 0]
          BY <3>1, <3>6, <4>3 DEF RegisterFeatureView
        <5> QED  BY <4>1, <4>3, <5>1, CountedOnce
      <4> QED  BY <4>2, <4>3
    <3>7. CASE Materialize(r)
      <4>1. Changes(r[1]) = 1 /\ tool[r[1]] # "register_feature_view"
        BY <3>7 DEF Materialize, Changes
      <4> QED  BY <3>7, <4>1, CountedOnce DEF Materialize
    <3>8. CASE ListVariables(r) \/ ReadView(r) \/ ReadCatalog(r)
      <4>1. /\ tool[r[1]] \in {"list_variables", "get_online_features", "get_schema"}
            /\ server[r] = "asked" /\ server' = [server EXCEPT ![r] = "succeeded"]
            /\ view' = view /\ effects' = effects
        BY <3>8 DEF ListVariables, ReadView, ReadCatalog
      <4>2. Changes(r[1]) = 0 /\ effects' = [effects EXCEPT ![r[1]] = @ + 0]
        BY <3>1, <4>1 DEF Changes
      <4> QED  BY <4>1, <4>2, CountedOnce
    <3>9. CASE Refuse(r)
      <4>1. server' = [server EXCEPT ![r] = "failed"] /\ UNCHANGED <<view, effects>>
        BY <3>9 DEF Refuse
      <4>2. \A q \in Requests : server'[q] \in {"running", "succeeded"} =>
                               server[q] \in {"running", "succeeded"}
        BY <4>1 DEF IInv, TypeOK, ServerTypeOK
      <4> QED  BY <2>2, <2>3, <4>1, <4>2, CountedUnchanged
    <3> QED  BY <2>5, <3>2, <3>3, <3>4, <3>5, <3>6, <3>7, <3>8, <3>9 DEF Serve
  <2> QED  BY <1>4, <2>4, <2>5 DEF Server
<1>5. CASE UNCHANGED vars
  BY <1>1, <1>5, CountedUnchanged DEF vars, serverVars, clientVars
<1> QED  BY <1>2, <1>3, <1>4, <1>5 DEF Next

----------------------------------------------------------------------------
\* The invariant of ToolCall: types, the turns of the calls, the way of every
\* request through the gateway and its servers, the audit log, the work that a
\* kernel keeps and the count of what the calls have changed.
THEOREM ToolCallInvariance == Spec => []IInv
<1>1. IInv /\ [Next]_vars => IInv'
  BY TypesHold, TurnsHold, MovesHold, WorkKept, EffectsHold DEF IInv
<1> QED  BY <1>1, InitEstablishes, PTL DEF Spec

\* However many calls, attempts and crashes: a request never leaves more than
\* one audit entry, and the entry tells what the answer tells; a result, a
\* refusal, and any answer to a request that a server has got to, leave one.
\* The answers 401, 500 and the 502 of a tool without a server leave none.
THEOREM AuditTellsTheAnswer == Spec => []AuditMatchesAnswer
<1>1. IInv => AuditMatchesAnswer
  BY DEF IInv
<1> QED  BY <1>1, ToolCallInvariance, PTL

\* A step that completes has been completed by the run of its last attempt.
THEOREM LateAnswersDoNotCount == Spec => []CompletedByItsRun
<1>1. IInv => CompletedByItsRun
  BY CompletedRequest DEF CompletedByItsRun
<1> QED  BY <1>1, ToolCallInvariance, PTL

\* Code that completes has found what all completed code before it has left,
\* however often the kernel's server has crashed.
THEOREM LossesAreNoticed == Spec => []CompletedWorkIsSeen
<1>1. IInv => CompletedWorkIsSeen
  <2> SUFFICES ASSUME IInv, ~Restarts, NEW b \in Calls, NEW c \in Calls, b < c, Ran(b), Ran(c)
               PROVE  b \in seen[<<c, attempt[c]>>]
    BY DEF CompletedWorkIsSeen
  <2>1. <<c, attempt[c]>> \in Requests /\ Begun(<<c, attempt[c]>>)
    BY CompletedRequest DEF Ran, Begun
  <2> QED  BY <2>1 DEF IInv, WorkIsKept
<1> QED  BY <1>1, ToolCallInvariance, PTL

\* No step changes its server more often than it was attempted, and one that is
\* completed by its first attempt has changed it exactly once.
THEOREM EffectsStayBounded == Spec => []EffectsBounded
<1>1. IInv => EffectsBounded
  <2> SUFFICES ASSUME IInv, NEW c \in Calls
               PROVE  /\ effects[c] <= Changes(c) *
                            (IF tool[c] = "register_feature_view" THEN 1 ELSE attempt[c])
                      /\ client[c] = "completed" /\ kind[c] = "plain" /\ attempt[c] = 1 =>
                            \/ effects[c] = Changes(c)
                            \/ tool[c] = "register_feature_view" /\ view # NoCall
    BY DEF EffectsBounded
  <2>1. effects[c] \in Nat /\ attempt[c] \in Nat
    BY DEF IInv, TypeOK, ServerTypeOK
  <2>2. effects[c] + 0 <= Changes(c) * attempt[c]
    <3>1. effects[c] <= Changes(c) * Cardinality(GotTo(c))
      BY DEF IInv, EffectsCounted
    <3>2. Cardinality(GotTo(c)) \in Nat /\ Cardinality(GotTo(c)) <= attempt[c]
      BY CountOfRequests DEF IInv
    <3>3. Changes(c) \in {0, 1, 2}
      BY ChangesAreFew
    <3> QED  BY <2>1, <3>1, <3>2, <3>3, BoundGrows
  <2>3. ASSUME tool[c] = "register_feature_view" PROVE effects[c] <= Changes(c) * 1
    <3>1. effects[c] = IF view = c THEN 1 ELSE 0
      BY <2>3 DEF IInv, EffectsCounted
    <3>2. Changes(c) = 1
      BY <2>3 DEF Changes
    <3> QED  BY <3>1, <3>2
  <2>4. ASSUME client[c] = "completed", kind[c] = "plain", attempt[c] = 1
        PROVE  server[<<c, 1>>] \in {"running", "succeeded"}
    BY <2>4, CompletedRequest
  <2> QED  BY <2>1, <2>2, <2>3, <2>4 DEF IInv, EffectsCounted
<1> QED  BY <1>1, ToolCallInvariance, PTL

----------------------------------------------------------------------------
\* Action properties.

\* What a step of the agent does to the calls, and the gateway's to the requests.
LEMMA ClientMoves ==
    ASSUME IInv, NEW c \in Calls, Client(c)
    PROVE  /\ client[c] \notin Ended
           /\ \A b \in Calls : b # c => client'[b] = client[b] /\ attempt'[b] = attempt[b]
           /\ \/ /\ client[c] = "ready" /\ client'[c] = "waiting"
                 /\ attempt'[c] = attempt[c] + 1 /\ attempt[c] < MaxAttempts
                 /\ gateway' = [gateway EXCEPT ![<<c, attempt'[c]>>] = "arrived"]
              \/ /\ client[c] = "waiting" /\ attempt'[c] = attempt[c] /\ gateway' = gateway
                 /\ \/ client'[c] \in Ended
                    \/ client'[c] = "ready"
           /\ UNCHANGED <<answer, audit>>
<1>1. CASE Send(c)
  BY <1>1 DEF Send, Ended, IInv, TypeOK, CallsInTurn
<1>2. CASE Receive(c)
  BY <1>2 DEF Receive, Retry, Ended, IInv, TypeOK
<1>3. CASE TimeOut(c)
  BY <1>3 DEF TimeOut, Retry, Ended, IInv, TypeOK
<1> QED  BY <1>1, <1>2, <1>3 DEF Client

\* An answer and its audit entries are never changed, and a call that has ended
\* stays so, whatever comes late.
THEOREM OutcomesStay == Spec => OutcomesAreFinal
<1> DEFINE Final ==
      /\ \A r \in Requests : answer[r] # NoAnswer =>
            answer'[r] = answer[r] /\ audit'[r] = audit[r]
      /\ \A c \in Calls : client[c] \in Ended =>
            client'[c] = client[c] /\ attempt'[c] = attempt[c]
<1>1. IInv /\ [Next]_vars => [Final]_vars
  <2> SUFFICES ASSUME IInv, Next PROVE Final
    BY DEF vars
  <2>1. ASSUME NEW c \in Calls, Client(c) PROVE Final
    BY <2>1, ClientMoves
  <2>2. ASSUME NEW q \in Requests, Gateway(q) PROVE Final
    BY <2>2, GatewayMoves DEF OnlyMoves, clientVars, IInv
  <2>3. CASE Server
    BY <2>3, ServerMoves DEF clientVars, IInv
  <2> QED  BY <2>1, <2>2, <2>3 DEF Next
<1>2. Spec => [][Final]_vars
  BY <1>1, ToolCallInvariance, PTL DEF Spec
<1> QED  BY <1>2 DEF OutcomesAreFinal

LEMMA LeftBounded ==
    ASSUME IInv
    PROVE  /\ \A c \in Calls : TriesLeft(c) \in 0..2 * MaxAttempts + 1
           /\ \A r \in Requests : HopsLeft(r) \in 0..3
BY ServersAssumption DEF IInv, TypeOK, TriesLeft, HopsLeft, Ended

\* Each step of the agent or the gateway lowers what is left to do for a call
\* or a request, and raises none of it: with so many attempts a call takes the
\* agent 2 * MaxAttempts steps at most, and a request the gateway three.
THEOREM NoStepInVain == Spec => EveryStepCounts
<1> DEFINE Less ==
      /\ \A c \in Calls : TriesLeft(c)' <= TriesLeft(c)
      /\ \A r \in Requests : HopsLeft(r)' <= HopsLeft(r)
      /\ \/ \E c \in Calls : TriesLeft(c)' < TriesLeft(c)
         \/ \E r \in Requests : HopsLeft(r)' < HopsLeft(r)
<1>1. IInv /\ IInv' /\ [Next]_vars => [Less]_<<clientVars, gateway>>
  <2> SUFFICES ASSUME IInv, IInv', Next, ~UNCHANGED <<clientVars, gateway>> PROVE Less
    BY DEF vars
  <2>1. MaxAttempts \in Nat /\ \A c \in Calls : attempt[c] \in Nat
    BY ServersAssumption DEF IInv, TypeOK
  <2>a. /\ \A c \in Calls : TriesLeft(c) \in Nat
        /\ \A r \in Requests : HopsLeft(r) \in Nat
    BY <2>1, LeftBounded
  <2>2. ASSUME NEW c \in Calls, Client(c) PROVE Less
    <3>1. \A b \in Calls : b # c => TriesLeft(b)' = TriesLeft(b)
      BY <2>2, ClientMoves DEF TriesLeft
    <3>0. \/ /\ client[c] = "ready" /\ client'[c] = "waiting"
             /\ attempt'[c] = attempt[c] + 1 /\ attempt[c] < MaxAttempts
             /\ gateway' = [gateway EXCEPT ![<<c, attempt'[c]>>] = "arrived"]
          \/ /\ client[c] = "waiting" /\ attempt'[c] = attempt[c] /\ gateway' = gateway
             /\ client'[c] \in Ended \/ client'[c] = "ready"
      BY <2>2, ClientMoves
    <3>2. TriesLeft(c)' < TriesLeft(c) /\ TriesLeft(c)' \in Int
      <4>1. CASE client[c] = "ready"
        <5>1. TriesLeft(c) = 2 * (MaxAttempts - attempt[c])
          BY <4>1 DEF TriesLeft, Ended
        <5>2. TriesLeft(c)' = 2 * (MaxAttempts - (attempt[c] + 1)) + 1
          BY <3>0, <4>1 DEF TriesLeft, Ended
        <5> QED  BY <2>1, <5>1, <5>2
      <4>2. CASE client[c] = "waiting"
        <5>1. TriesLeft(c) = 2 * (MaxAttempts - attempt[c]) + 1
          BY <4>2 DEF TriesLeft, Ended
        <5>2. attempt'[c] = attempt[c] /\ attempt[c] \in 0..MaxAttempts
          BY <3>0, <4>2 DEF IInv, TypeOK
        <5>3. CASE client'[c] = "ready"
          <6>1. TriesLeft(c)' = 2 * (MaxAttempts - attempt[c])
            BY <5>2, <5>3 DEF TriesLeft, Ended
          <6> QED  BY <2>1, <5>1, <6>1
        <5>4. CASE client'[c] \in Ended
          <6>1. TriesLeft(c)' = 0
            BY <5>4 DEF TriesLeft, Ended
          <6> QED  BY <2>1, <5>1, <5>2, <6>1
        <5> QED  BY <3>0, <4>2, <5>3, <5>4
      <4> QED  BY <3>0, <4>1, <4>2
    <3>3. \A r \in Requests : HopsLeft(r)' <= HopsLeft(r)
      <4>1. ASSUME client[c] = "ready", NEW n \in Nat, n = attempt[c] + 1
            PROVE  gateway[<<c, n>>] = "none"
        <5>1. attempt[c] < MaxAttempts /\ n \in 1..MaxAttempts
          BY <2>1, <3>0, <4>1
        <5>2. <<c, n>> \in Requests /\ <<c, n>>[1] = c /\ <<c, n>>[2] = n
          BY <5>1 DEF Requests
        <5> QED  BY <2>1, <4>1, <5>2 DEF IInv, RequestsMove
      <4>2. CASE gateway' = gateway
        <5>1. \A r \in Requests : HopsLeft(r)' = HopsLeft(r)
          BY <4>2 DEF HopsLeft
        <5> QED  BY <2>a, <5>1
      <4>3. CASE client[c] = "ready" /\ gateway' = [gateway EXCEPT ![<<c, attempt[c] + 1>>] = "arrived"]
        <5>1. gateway[<<c, attempt[c] + 1>>] = "none"
          BY <2>1, <4>1, <4>3
        <5>2. \A r \in Requests : gateway'[r] = gateway[r]
                    \/ (gateway[r] = "none" /\ gateway'[r] = "arrived")
          BY <4>3, <5>1 DEF IInv, TypeOK
        <5>3. ASSUME NEW r \in Requests PROVE HopsLeft(r)' <= HopsLeft(r)
          <6>1. CASE gateway'[r] = gateway[r]
            <7>1. HopsLeft(r)' = HopsLeft(r)
              BY <6>1 DEF HopsLeft
            <7> QED  BY <2>a, <7>1
          <6>2. CASE gateway[r] = "none" /\ gateway'[r] = "arrived"
            BY <6>2 DEF HopsLeft
          <6> QED  BY <5>2, <6>1, <6>2
        <5> QED  BY <5>3
      <4> QED  BY <3>0, <4>2, <4>3
    <3>4. \A b \in Calls : TriesLeft(b)' <= TriesLeft(b)
      <4>1. \A b \in Calls : b # c => TriesLeft(b)' <= TriesLeft(b)
        BY <2>a, <3>1
      <4>2. TriesLeft(c)' <= TriesLeft(c)
        BY <2>a, <3>2
      <4> QED  BY <4>1, <4>2
    <3> QED  BY <3>2, <3>3, <3>4
  <2>3. ASSUME NEW q \in Requests, Gateway(q) PROVE Less
    <3>1. \A c \in Calls : TriesLeft(c)' = TriesLeft(c)
      BY <2>3, GatewayMoves DEF OnlyMoves, clientVars, TriesLeft, IInv
    <3>2. \A r \in Requests : r # q => HopsLeft(r)' = HopsLeft(r)
      BY <2>3, GatewayMoves DEF OnlyMoves, HopsLeft, IInv
    <3>3. /\ gateway[q] \in {"arrived", "forwarded"}
          /\ gateway'[q] = "answered" \/ (gateway[q] = "arrived" /\ gateway'[q] = "forwarded")
      BY <2>3, GatewayMoves DEF OnlyMoves, Forwarded, Answered, IInv, TypeOK, RequestsMove
    <3>4. HopsLeft(q)' < HopsLeft(q) /\ HopsLeft(q)' \in Nat
      BY <3>3 DEF HopsLeft
    <3>5. \A r \in Requests : HopsLeft(r)' <= HopsLeft(r)
      BY <2>a, <3>2, <3>4
    <3> QED  BY <2>a, <3>1, <3>4, <3>5
  <2>4. CASE Server
    BY <2>4, ServerMoves DEF IInv
  <2> QED  BY <2>2, <2>3, <2>4 DEF Next
<1>2. Spec => [][Less]_<<clientVars, gateway>>
  BY <1>1, ToolCallInvariance, PTL DEF Spec
<1> QED  BY <1>2 DEF EveryStepCounts

\* The first call that has not ended can be sent or times out.
THEOREM SomeCallGoesOn == Spec => []NobodyIsStuck
<1>1. IInv => NobodyIsStuck
  <2> SUFFICES ASSUME IInv, NEW d \in Calls, client[d] \notin Ended
               PROVE  \E c \in Calls : Turn(c) \/ client[c] = "waiting"
    BY DEF NobodyIsStuck
  <2> DEFINE Open == {c \in Calls : client[c] \notin Ended}
  <2>1. Open \subseteq Nat /\ Open # {}
    BY ServersAssumption
  <2>2. PICK c \in Open : \A b \in Open : <<b, c>> \notin OpToRel(<, Nat)
    BY <2>1, NatLessThanWellFounded, WFMin
  <2>3. ASSUME NEW b \in Nat, NEW e \in Nat, <<b, e>> \notin OpToRel(<, Nat) PROVE ~(b < e)
    BY <2>3 DEF OpToRel
  <2>4. c \in Calls /\ \A b \in Calls : b < c => client[b] \in Ended
    BY <2>1, <2>2, <2>3
  <2>5. client[c] \in {"ready", "waiting"}
    BY <2>2 DEF IInv, TypeOK
  <2> QED  BY <2>4, <2>5 DEF Turn
<1> QED  BY <1>1, ToolCallInvariance, PTL
=============================================================================
