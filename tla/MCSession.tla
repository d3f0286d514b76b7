------------------------------ MODULE MCSession ------------------------------
(***************************************************************************)
(* The API process and the planner its message handlers await, for         *)
(* model-checking.  Session takes any outcome of the planning, so the two  *)
(* share no state: a behaviour is one of either, the other being left      *)
(* where it begins.                                                        *)
(***************************************************************************)
EXTENDS Session, Planner

VARIABLE part    \* the component that takes steps

PartsInit == part \in {"session", "planner"} /\ Init /\ PlannerInit

PartsNext ==
    /\ UNCHANGED part
    /\ \/ part = "session" /\ Next /\ UNCHANGED plannerVars
       \/ part = "planner" /\ PlannerNext /\ UNCHANGED vars

\* Nothing that Session asks fairness of is enabled where it begins, and the
\* same holds of Planner.
PartsSpec ==
    /\ PartsInit
    /\ [][PartsNext]_<<part, vars, plannerVars>>
    /\ Fairness
    /\ PlannerFairness
=============================================================================
