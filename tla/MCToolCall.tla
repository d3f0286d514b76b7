----------------------------- MODULE MCToolCall -----------------------------
(***************************************************************************)
(* Tool calls and the token they carry, for model-checking.  ToolCall      *)
(* takes any answer to the token check, so the two share no state: a       *)
(* behaviour is one of either, the other being left where it begins.       *)
(*                                                                         *)
(* The plans are of two calls: the second builds on what the first leaves  *)
(* in the server, or undoes it; a dry run comes before a call that is      *)
(* forwarded.                                                              *)
(***************************************************************************)
EXTENDS ToolCall, TokenProvider

CONSTANTS
    MaxUnaudited,    \* bound: the requests answered without an audit entry
    MaxTime          \* bound: the clock of TokenProvider

ASSUME MCAssumption == MaxUnaudited \in Nat /\ MaxTime \in Nat

Plain(t) == [tool |-> t, kind |-> "plain"]

ServerPlans ==
    { <<"relapse", "define">>, <<"restart_kernel", "exit">>,
      <<"list_variables", "materialize">>,
      <<"register_feature_view", "register_feature_view">>,
      <<"register_feature_view", "materialize">>,
      <<"register_feature_view", "get_online_features">>,
      <<"create_kernel", "malformed">> }

DryRunFirst ==
    [c \in Calls |-> [tool |-> "get_schema", kind |-> IF c = 1 THEN "dry_run" ELSE "plain"]]

MCPlans == {[c \in Calls |-> Plain(p[c])] : p \in ServerPlans} \cup {DryRunFirst}

Unaudited == {r \in Requests : answer[r] # NoAnswer /\ audit[r] = << >>}

VARIABLE part    \* the component that takes steps

CallInit ==
    /\ part \in {"call", "token"} /\ Init /\ TokenInit
    /\ part = "token" => kind[1] = "dry_run"    \* any plan will do

CallNext ==
    /\ UNCHANGED part
    /\ \/ /\ part = "call" /\ Next /\ UNCHANGED tokenVars
          /\ Cardinality(Unaudited') <= MaxUnaudited
       \/ part = "token" /\ TokenNext /\ now' <= MaxTime /\ UNCHANGED vars

\* The agent and the gateway go on, as in FairSpec: where MaxUnaudited rules out
\* an answer the gateway has another step for the request.
CallSpec ==
    /\ CallInit
    /\ [][CallNext]_<<part, vars, tokenVars>>
    /\ WF_vars(part = "call" /\ \E c \in Calls : Client(c))
    /\ WF_vars(part = "call" /\ \E r \in Requests : Gateway(r))
=============================================================================
