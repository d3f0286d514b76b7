---------------------------- MODULE PlannerProofs ----------------------------
(***************************************************************************)
(* Proofs about Planner: what its plans contain, for every set of tools,   *)
(* every length of the replies and every number of retries and revisions.  *)
(***************************************************************************)
EXTENDS Planner, TLAPS

\* A list is a function on an interval from 1.
LEMMA ListsAreFunctions ==
    ASSUME NEW S, NEW p \in Lists(S)
    PROVE  \E n \in 0..MaxSteps : p \in [1..n -> S]
BY DEF Lists

LEMMA FunctionsAreLists ==
    ASSUME NEW S, NEW n \in 0..MaxSteps, NEW p \in [1..n -> S]
    PROVE  p \in Lists(S)
BY DEF Lists

\* The empty plan is a plan and has no tools.
LEMMA EmptyPlan == << >> \in Lists(Step) /\ DOMAIN << >> = {} /\ ToolsOf(<< >>) = {}
<1>1. 0 \in 0..MaxSteps /\ << >> \in [1..0 -> Step]
  BY PlannerAssumption
<1>2. << >> \in Lists(Step)
  BY <1>1, FunctionsAreLists
<1> QED BY <1>1, <1>2 DEF ToolsOf

\* Marking keeps steps, tools and confirmations, and confirms the high-risk
\* steps (_mark_high_risk_steps).
LEMMA Marked ==
    ASSUME NEW steps \in Lists(Step)
    PROVE  /\ MarkHighRisk(steps) \in Lists(Step)
           /\ ToolsOf(MarkHighRisk(steps)) = ToolsOf(steps)
           /\ \A i \in DOMAIN MarkHighRisk(steps) :
                 MarkHighRisk(steps)[i].tool \in HighRisk => MarkHighRisk(steps)[i].confirm
<1>1. PICK n \in 0..MaxSteps : steps \in [1..n -> Step]
  BY ListsAreFunctions
<1> DEFINE marked == MarkHighRisk(steps)
<1>2. DOMAIN steps = 1..n /\ DOMAIN marked = 1..n
  BY <1>1 DEF MarkHighRisk
<1>3. ASSUME NEW i \in 1..n
      PROVE  /\ marked[i] \in Step
             /\ marked[i].tool = steps[i].tool
             /\ marked[i].tool \in HighRisk => marked[i].confirm
  <2>1. steps[i] \in Step
    BY <1>1
  <2>2. marked[i] = [steps[i] EXCEPT !.confirm = @ \/ steps[i].tool \in HighRisk]
    BY <1>2 DEF MarkHighRisk
  <2> QED BY <2>1, <2>2 DEF Step
<1>4. marked \in [1..n -> Step]
  BY <1>2, <1>3 DEF MarkHighRisk
<1>5. marked \in Lists(Step)
  BY <1>4, FunctionsAreLists
<1>6. ToolsOf(marked) = ToolsOf(steps)
  BY <1>2, <1>3 DEF ToolsOf
<1> QED BY <1>2, <1>3, <1>5, <1>6

\* A list of tools becomes a list of steps with these tools.
LEMMA Unmarked ==
    ASSUME NEW tools \in Lists(Tools)
    PROVE  LET steps == [i \in DOMAIN tools |-> [tool |-> tools[i], confirm |-> FALSE]]
           IN  steps \in Lists(Step) /\ ToolsOf(steps) = {tools[i] : i \in DOMAIN tools}
<1>1. PICK n \in 0..MaxSteps : tools \in [1..n -> Tools]
  BY ListsAreFunctions
<1> DEFINE steps == [i \in DOMAIN tools |-> [tool |-> tools[i], confirm |-> FALSE]]
<1>2. steps \in [1..n -> Step]
  BY <1>1 DEF Step
<1>3. steps \in Lists(Step)
  BY <1>2, FunctionsAreLists
<1>4. ToolsOf(steps) = {tools[i] : i \in DOMAIN tools}
  BY DEF ToolsOf
<1> QED BY <1>3, <1>4

----------------------------------------------------------------------------
\* Accepting a reply (ToolsAccepted): the new plan is a plan, asks for the
\* confirmations and uses only available tools.
LEMMA Accepted ==
    ASSUME PlannerTypeOK, NEW tools \in Lists(Tools), ToolsAccepted(tools)
    PROVE  /\ plan' \in Lists(Step)
           /\ HighRiskConfirmed'
           /\ ToolsOf(plan') \subseteq available
<1> DEFINE steps == [i \in DOMAIN tools |-> [tool |-> tools[i], confirm |-> FALSE]]
<1>1. steps \in Lists(Step) /\ ToolsOf(steps) = {tools[i] : i \in DOMAIN tools}
  BY Unmarked
<1>2. plan' = MarkHighRisk(steps)
  BY DEF ToolsAccepted
<1>3. \A i \in DOMAIN tools : tools[i] \in available
  BY DEF ToolsAccepted, Unknown
<1> HIDE DEF steps
<1>4. /\ plan' \in Lists(Step)
      /\ ToolsOf(plan') = ToolsOf(steps)
      /\ \A i \in DOMAIN plan' : plan'[i].tool \in HighRisk => plan'[i].confirm
  BY <1>1, <1>2, Marked
<1>5. HighRiskConfirmed'
  BY <1>4 DEF HighRiskConfirmed
<1> QED BY <1>1, <1>3, <1>4, <1>5

LEMMA InitEstablishes == PlannerInit => PlannerInv
<1> SUFFICES ASSUME PlannerInit PROVE PlannerInv
  OBVIOUS
<1> USE DEF PlannerInit
<1>1. PlannerTypeOK
  <2>1. plan \in Lists(Step)
    BY EmptyPlan
  <2>2. attempt \in 0 .. MaxRetries + 1 /\ replans \in 0..MaxReplans
    BY PlannerAssumption
  <2> QED BY <2>1, <2>2 DEF PlannerTypeOK
<1>2. HighRiskConfirmed
  BY EmptyPlan DEF HighRiskConfirmed
<1>3. StaysInManifest /\ Whitelists
  BY EmptyPlan DEF StaysInManifest, Whitelists
<1> QED BY <1>1, <1>2, <1>3 DEF PlannerInv

LEMMA NextPreserves == PlannerInv /\ [PlannerNext]_plannerVars => PlannerInv'
<1> SUFFICES ASSUME PlannerInv, [PlannerNext]_plannerVars PROVE PlannerInv'
  OBVIOUS
<1> USE DEF PlannerInv
<1>1. ASSUME NEW m \in SUBSET Tools, CreatePlan(m) PROVE PlannerInv'
  <2> USE <1>1 DEF CreatePlan, Ask
  <2>0. attempt' \in 0 .. MaxRetries + 1 /\ attempt' <= MaxRetries
    BY PlannerAssumption
  <2>1. PlannerTypeOK'
    BY <2>0 DEF PlannerTypeOK
  <2>2. HighRiskConfirmed'
    BY DEF HighRiskConfirmed
  <2>3. StaysInManifest' /\ Whitelists'
    BY EmptyPlan DEF StaysInManifest, Whitelists
  <2> QED BY <2>1, <2>2, <2>3
<1>2. ASSUME NEW m \in SUBSET Tools, NEW skill \in Skills, PlanFromSkill(m, skill) PROVE PlannerInv'
  <2> USE <1>2 DEF PlanFromSkill
  <2>1. skill.steps \in Lists(Step)
    BY DEF Skills
  <2>2. plan' = plan \/ plan' = MarkHighRisk(skill.steps)
    OBVIOUS
  <2>3. plan' \in Lists(Step) /\ HighRiskConfirmed'
    BY <2>1, <2>2, Marked DEF PlannerTypeOK, HighRiskConfirmed
  <2>4. PlannerTypeOK'
    BY <2>3 DEF PlannerTypeOK
  <2>5. StaysInManifest' /\ Whitelists'
    BY DEF StaysInManifest, Whitelists
  <2> QED BY <2>3, <2>4, <2>5
<1>3. ASSUME Replan PROVE PlannerInv'
  <2> USE <1>3 DEF Replan, Ask
  <2>0. attempt' \in 0 .. MaxRetries + 1 /\ attempt' <= MaxRetries /\ replans' \in 0..MaxReplans
    BY PlannerAssumption DEF PlannerTypeOK
  <2>1. ToolsOf(plan) \subseteq Tools
    <3>1. plan \in Lists(Step)
      BY DEF PlannerTypeOK
    <3>2. PICK n \in 0..MaxSteps : plan \in [1..n -> Step]
      BY <3>1, ListsAreFunctions
    <3>3. \A i \in DOMAIN plan : plan[i] \in Step
      BY <3>2
    <3> QED BY <3>3 DEF ToolsOf, Step
  <2>2. PlannerTypeOK'
    BY <2>0, <2>1 DEF PlannerTypeOK
  <2>3. HighRiskConfirmed'
    BY DEF HighRiskConfirmed
  <2>4. StaysInManifest' /\ Whitelists'
    BY DEF StaysInManifest, Whitelists
  <2> QED BY <2>2, <2>3, <2>4
<1>4. ASSUME NotUnderstood PROVE PlannerInv'
  <2> USE <1>4 DEF NotUnderstood, Again
  <2>1. PlannerTypeOK'
    BY PlannerAssumption DEF PlannerTypeOK
  <2>2. HighRiskConfirmed'
    BY DEF HighRiskConfirmed
  <2>3. StaysInManifest' /\ Whitelists'
    BY DEF StaysInManifest, Whitelists
  <2> QED BY <2>1, <2>2, <2>3
<1>5. ASSUME AskFails PROVE PlannerInv'
  BY <1>5 DEF AskFails, PlannerTypeOK, HighRiskConfirmed, StaysInManifest, Whitelists
<1>6. ASSUME NEW tools \in Lists(Tools), ToolRefused(tools) PROVE PlannerInv'
  <2> USE <1>6 DEF ToolRefused, Again
  <2>1. \A i \in DOMAIN tools : tools[i] \in Tools
    BY ListsAreFunctions
  <2>2. hinted' \subseteq Tools \ available
    BY <2>1 DEF Unknown, PlannerTypeOK
  <2>3. PlannerTypeOK'
    BY <2>2, PlannerAssumption DEF PlannerTypeOK
  <2>4. HighRiskConfirmed'
    BY DEF HighRiskConfirmed
  <2>5. StaysInManifest' /\ Whitelists'
    BY DEF StaysInManifest, Whitelists
  <2> QED BY <2>3, <2>4, <2>5
<1>7. ASSUME NEW tools \in Lists(Tools), ToolsAccepted(tools) PROVE PlannerInv'
  <2>1. plan' \in Lists(Step) /\ HighRiskConfirmed' /\ ToolsOf(plan') \subseteq available
    BY <1>7, Accepted
  <2>2. PlannerTypeOK'
    BY <1>7, <2>1 DEF ToolsAccepted, PlannerTypeOK
  <2>3. StaysInManifest' /\ Whitelists'
    BY <1>7, <2>1 DEF ToolsAccepted, StaysInManifest, Whitelists
  <2> QED BY <2>1, <2>2, <2>3
<1>8. ASSUME NewMessage PROVE PlannerInv'
  BY <1>8, EmptyPlan, PlannerAssumption
  DEF NewMessage, PlannerTypeOK, HighRiskConfirmed, StaysInManifest, Whitelists
<1>9. CASE UNCHANGED plannerVars
  BY <1>9 DEF plannerVars, PlannerTypeOK, HighRiskConfirmed, StaysInManifest, Whitelists
<1> QED
  BY <1>1, <1>2, <1>3, <1>4, <1>5, <1>6, <1>7, <1>8, <1>9 DEF PlannerNext, Reply

\* Whatever the model replies, the planner keeps its types, its whitelists and
\* the confirmations: the invariant that the theorems below follow from.
THEOREM PlannerInvariance == PlannerSpec => []PlannerInv
BY InitEstablishes, NextPreserves, PTL DEF PlannerSpec

\* A high-risk step is never in a plan without asking for confirmation, whether
\* create_plan, a skill or replan put it there.
THEOREM HighRiskAlwaysConfirmed == PlannerSpec => []HighRiskConfirmed
<1>1. PlannerInv => HighRiskConfirmed
  BY DEF PlannerInv
<1> QED BY <1>1, PlannerInvariance, PTL

\* A plan made by the model, and every revision of it, uses only tools of the
\* manifest it was made for, although replan is not given the manifest.
THEOREM PlansUseManifest == PlannerSpec => []StaysInManifest
<1>1. PlannerInv => StaysInManifest
  BY DEF PlannerInv
<1> QED BY <1>1, PlannerInvariance, PTL

\* The tools of a revision are among those of the plan that replan revised.
THEOREM RevisionsOnlyNarrow == PlannerSpec => RevisionsNarrow
<1> DEFINE Narrow == replans > 0 /\ stage = "asking" => ToolsOf(plan') \subseteq ToolsOf(plan)
<1>1. PlannerInv /\ [PlannerNext]_plannerVars => [Narrow]_plannerVars
  <2> SUFFICES ASSUME PlannerInv, PlannerNext, replans > 0, stage = "asking"
               PROVE  ToolsOf(plan') \subseteq ToolsOf(plan)
    OBVIOUS
  <2>1. CASE UNCHANGED plan
    BY <2>1
  <2>2. ASSUME NEW tools \in Lists(Tools), ToolsAccepted(tools)
        PROVE  ToolsOf(plan') \subseteq ToolsOf(plan)
    BY <2>2, Accepted DEF PlannerInv, Whitelists
  <2> QED
    BY <2>1, <2>2 DEF PlannerNext, Reply, CreatePlan, PlanFromSkill, Replan, NotUnderstood,
       AskFails, ToolRefused, NewMessage
<1> QED BY <1>1, PlannerInvariance, PTL DEF PlannerSpec, RevisionsNarrow
=============================================================================
