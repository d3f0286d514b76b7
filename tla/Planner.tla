------------------------------- MODULE Planner -------------------------------
(***************************************************************************)
(* The planner, hermes/planner.py: plans made by a language model or taken *)
(* from a skill, and their revisions after a failed step.  The model's     *)
(* replies are external: any list of steps, text that is no such list, or  *)
(* an error.  Of a step the tool and the need to confirm it are kept; the  *)
(* dependencies, which the planner passes on unread, are the executor's.   *)
(***************************************************************************)
EXTENDS Integers, Sequences

CONSTANTS
    Tools,
    HighRisk,     \* the tools the two lists of high-risk tools match
    MaxSteps,     \* bound: the length of a reply
    MaxRetries,   \* plan_max_retries
    MaxReplans    \* how often the executor has a plan revised

ASSUME PlannerAssumption ==
    HighRisk \subseteq Tools /\ MaxSteps \in Nat /\ MaxRetries \in Nat /\ MaxReplans \in Nat

VARIABLES
    stage,
    manifest,     \* the tools the gateway listed for this message
    available,    \* available_tools of the call under way
    attempt,
    hinted,       \* the tools the messages call not available
    plan,         \* the plan last returned, a sequence of steps
    fromSkill,    \* whether the first plan was a skill's
    replans

plannerVars == <<stage, manifest, available, attempt, hinted, plan, fromSkill, replans>>

Step == [tool : Tools, confirm : BOOLEAN]
Lists(S) == UNION {[1..n -> S] : n \in 0..MaxSteps}

\* A skill: steps that are mappings (hand-made ones), which the planner can
\* read, or the objects of the skill library.
Skills == [steps : Lists(Step), library : BOOLEAN]

ToolsOf(p) == {p[i].tool : i \in DOMAIN p}

PlannerInit ==
    /\ stage = "idle"
    /\ manifest = {}
    /\ available = {}
    /\ attempt = 0
    /\ hinted = {}
    /\ plan = << >>
    /\ fromSkill = FALSE
    /\ replans = 0

\* Faulty variant: only the last step is looked at.
MarkHighRiskLast(steps) ==
    [i \in DOMAIN steps |->
        [steps[i] EXCEPT !.confirm = @ \/ (i = Len(steps) /\ steps[i].tool \in HighRisk)]]

\* _mark_high_risk_steps
MarkHighRisk(steps) ==
    [i \in DOMAIN steps |->
        [steps[i] EXCEPT !.confirm = @ \/ steps[i].tool \in HighRisk]]

\* _call_and_validate begins: the model is asked.
Ask(tools) ==
    /\ stage' = "asking"
    /\ available' = tools
    /\ attempt' = 0
    /\ hinted' = {}

\* create_plan for a new message, without a skill.
CreatePlan(m) ==
    /\ stage = "idle"
    /\ manifest' = m
    /\ Ask(m)
    /\ fromSkill' = FALSE
    /\ UNCHANGED <<plan, replans>>

\* create_plan with a skill: neither the model nor the manifest is consulted.
PlanFromSkill(m, skill) ==
    /\ stage = "idle"
    /\ manifest' = m
    /\ fromSkill' = TRUE
    /\ IF skill.library /\ skill.steps # << >>
       THEN stage' = "raised" /\ UNCHANGED plan
       ELSE stage' = "planned" /\ plan' = MarkHighRisk(skill.steps)
    /\ UNCHANGED <<available, attempt, hinted, replans>>

\* Faulty variant: the alternatives are sought among all the tools.
ReplanFromAll ==
    /\ stage = "planned"
    /\ plan # << >>
    /\ replans < MaxReplans
    /\ replans' = replans + 1
    /\ Ask(Tools)
    /\ UNCHANGED <<manifest, plan, fromSkill>>

\* replan, when a step of the plan has failed: the tools available are those
\* of the plan.
Replan ==
    /\ stage = "planned"
    /\ plan # << >>
    /\ replans < MaxReplans
    /\ replans' = replans + 1
    /\ Ask(ToolsOf(plan))
    /\ UNCHANGED <<manifest, plan, fromSkill>>

\* The next turn of the retry loop; after the last, PlanningError.
Again ==
    /\ attempt' = attempt + 1
    /\ stage' = IF attempt < MaxRetries THEN "asking" ELSE "raised"

\* Faulty variant: after a reply that is not understood the count starts anew.
NotUnderstoodForever ==
    /\ stage = "asking"
    /\ attempt' = 0
    /\ UNCHANGED <<stage, manifest, available, hinted, plan, fromSkill, replans>>

\* The reply is no JSON, no list, or lacks a field: asked again, unchanged.
NotUnderstood ==
    /\ stage = "asking"
    /\ Again
    /\ UNCHANGED <<manifest, available, hinted, plan, fromSkill, replans>>

\* The request fails, the reply has no text, or an entry of the list is no
\* object: the exception is none that the loop catches.
AskFails ==
    /\ stage = "asking"
    /\ stage' = "raised"
    /\ UNCHANGED <<manifest, available, attempt, hinted, plan, fromSkill, replans>>

Unknown(tools) == {i \in DOMAIN tools : tools[i] \notin available}

\* A list of steps naming a tool that is not available: the messages say so of
\* the first such tool, and the model is asked again.
ToolRefused(tools) ==
    /\ stage = "asking"
    /\ \E i \in Unknown(tools) :
          /\ \A j \in Unknown(tools) : i <= j
          /\ hinted' = hinted \cup {tools[i]}
    /\ Again
    /\ UNCHANGED <<manifest, available, plan, fromSkill, replans>>

\* Faulty variant: a list is taken when one of its tools is available.
ToolsAcceptedAny(tools) ==
    /\ stage = "asking"
    /\ tools # << >> => Unknown(tools) # DOMAIN tools
    /\ plan' = MarkHighRisk([i \in DOMAIN tools |-> [tool |-> tools[i], confirm |-> FALSE]])
    /\ stage' = "planned"
    /\ UNCHANGED <<manifest, available, attempt, hinted, fromSkill, replans>>

\* Every tool is available: the plan is returned.
ToolsAccepted(tools) ==
    /\ stage = "asking"
    /\ Unknown(tools) = {}
    /\ plan' = MarkHighRisk([i \in DOMAIN tools |-> [tool |-> tools[i], confirm |-> FALSE]])
    /\ stage' = "planned"
    /\ UNCHANGED <<manifest, available, attempt, hinted, fromSkill, replans>>

\* The execution of the plan is over, or there is none: a new message.
NewMessage ==
    /\ stage \in {"planned", "raised"}
    /\ stage' = "idle"
    /\ plan' = << >>
    /\ replans' = 0
    /\ UNCHANGED <<manifest, available, attempt, hinted, fromSkill>>

Reply ==
    \/ NotUnderstood
    \/ AskFails
    \/ \E tools \in Lists(Tools) : ToolRefused(tools) \/ ToolsAccepted(tools)

PlannerNext ==
    \/ \E m \in SUBSET Tools :
          CreatePlan(m) \/ \E skill \in Skills : PlanFromSkill(m, skill)
    \/ Replan
    \/ Reply
    \/ NewMessage

PlannerSpec == PlannerInit /\ [][PlannerNext]_plannerVars

\* Every request to the model ends.
PlannerFairness == WF_plannerVars(Reply)

PlannerFairSpec == PlannerSpec /\ PlannerFairness

----------------------------------------------------------------------------
\* Properties.

\* Types; the attempts are bounded, and no available tool is called missing.
PlannerTypeOK ==
    /\ stage \in {"idle", "asking", "planned", "raised"}
    /\ manifest \subseteq Tools
    /\ available \subseteq Tools
    /\ attempt \in 0 .. MaxRetries + 1
    /\ stage = "asking" => attempt <= MaxRetries
    /\ hinted \subseteq Tools \ available
    /\ plan \in Lists(Step)
    /\ fromSkill \in BOOLEAN
    /\ replans \in 0..MaxReplans

\* Wherever a plan comes from, the model, a skill or a revision of either, its
\* high-risk steps ask for confirmation.
HighRiskConfirmed ==
    \A i \in DOMAIN plan : plan[i].tool \in HighRisk => plan[i].confirm

\* A plan the model made uses only tools of the manifest it was made for, and
\* so do all its revisions, though replan does not see the manifest.
StaysInManifest == ~fromSkill => ToolsOf(plan) \subseteq manifest

\* A revision uses no tool that the plan it revises does not use: a chain of
\* revisions can only lose tools.
RevisionsNarrow ==
    [][replans > 0 /\ stage = "asking" => ToolsOf(plan') \subseteq ToolsOf(plan)]_plannerVars

\* Why: a message begins with no plan; the whitelist of a call is within the
\* manifest, and that of a revision within the plan revised.
Whitelists ==
    /\ stage = "idle" => plan = << >> /\ replans = 0
    /\ stage = "asking" /\ ~fromSkill => available \subseteq manifest
    /\ stage = "asking" /\ replans > 0 => available \subseteq ToolsOf(plan)

\* The inductive invariant behind the three properties above.
PlannerInv == PlannerTypeOK /\ HighRiskConfirmed /\ StaysInManifest /\ Whitelists

\* Whatever the model replies, the planner comes to a plan or an exception.
PlanningEnds == (stage = "asking") ~> (stage # "asking")
=============================================================================
