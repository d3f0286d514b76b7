--------------------------- MODULE ExecutorProofs ---------------------------
(***************************************************************************)
(* Proofs about Executor, for all plans, step ids and limits: its          *)
(* invariants, and that it implements TaskLifecycle.                       *)
(***************************************************************************)
EXTENDS Executor, FunctionTheorems, FiniteSetTheorems, SequenceTheorems, TLAPS

\* Any part of a sequence without repetitions is one, its elements are
\* elements of the sequence, and a prefix shares none with the rest.
LEMMA SplitLemma ==
    ASSUME NEW S, NEW r \in Seq(S), IsInjective(r), NEW n \in 0..Len(r)
    PROVE  LET p == SubSeq(r, 1, n)
               q == SubSeq(r, n + 1, Len(r))
           IN  /\ p \in Seq(S) /\ IsInjective(p)
               /\ q \in Seq(S) /\ IsInjective(q)
               /\ \A i \in DOMAIN p : i \in DOMAIN r /\ p[i] = r[i]
               /\ \A i \in DOMAIN q : \E j \in DOMAIN r : q[i] = r[j]
               /\ \A i \in DOMAIN p, j \in DOMAIN q : p[i] # q[j]
<1> DEFINE p == SubSeq(r, 1, n)
           q == SubSeq(r, n + 1, Len(r))
<1>0. Len(r) \in Nat /\ n \in Nat /\ n <= Len(r) /\ DOMAIN r = 1..Len(r)
  BY LenProperties
<1>1. p \in Seq(S) /\ Len(p) = n /\ \A i \in 1..n : p[i] = r[i]
  <2>1. \A i \in 1..n : r[i] \in S
    BY <1>0, ElementOfSeq
  <2>2. /\ p \in Seq(S)
        /\ Len(p) = IF 1 <= n THEN n - 1 + 1 ELSE 0
        /\ \A i \in 1..(n - 1 + 1) : p[i] = r[1 + i - 1]
    BY <1>0, <2>1, SubSeqProperties
  <2>. QED  BY <1>0, <2>2
<1>2. q \in Seq(S) /\ Len(q) = Len(r) - n /\ \A i \in 1..(Len(r) - n) : q[i] = r[n + i]
  <2>1. \A i \in (n + 1)..Len(r) : r[i] \in S
    BY <1>0, ElementOfSeq
  <2>2. /\ q \in Seq(S)
        /\ Len(q) = IF n + 1 <= Len(r) THEN Len(r) - (n + 1) + 1 ELSE 0
        /\ \A i \in 1..(Len(r) - (n + 1) + 1) : q[i] = r[(n + 1) + i - 1]
    BY <1>0, <2>1, SubSeqProperties
  <2> HIDE DEF q
  <2>3. Len(q) = Len(r) - n
    <3>1. CASE n + 1 <= Len(r)
      <4>1. Len(q) = Len(r) - (n + 1) + 1
        BY <2>2, <3>1
      <4>2. Len(r) - (n + 1) + 1 = Len(r) - n
        BY <1>0
      <4>. QED  BY <4>1, <4>2
    <3>2. CASE ~(n + 1 <= Len(r))
      <4>1. Len(q) = 0
        BY <2>2, <3>2
      <4>2. \A k, m \in Nat : k <= m /\ ~(k + 1 <= m) => m - k = 0
        OBVIOUS
      <4>3. Len(r) - n = 0
        BY <1>0, <3>2, <4>2
      <4>. QED  BY <4>1, <4>3
    <3>. QED  BY <3>1, <3>2
  <2>4. ASSUME NEW i \in 1..(Len(r) - n) PROVE q[i] = r[n + i]
    <3>1. i \in 1..(Len(r) - (n + 1) + 1) /\ (n + 1) + i - 1 = n + i
      BY <1>0
    <3>. QED  BY <2>2, <3>1
  <2>. QED  BY <2>2, <2>3, <2>4
<1> HIDE DEF p, q
<1>3. DOMAIN p = 1..n /\ DOMAIN q = 1..(Len(r) - n)
  BY <1>1, <1>2, LenProperties
<1>4. \A i \in DOMAIN p : i \in DOMAIN r /\ p[i] = r[i]
  BY <1>0, <1>1, <1>3
<1>5. \A i \in DOMAIN q : n + i \in DOMAIN r /\ q[i] = r[n + i] /\ i \in Nat /\ i > 0
  BY <1>0, <1>2, <1>3
<1>6. IsInjective(p)
  BY <1>4 DEF IsInjective
<1>7. IsInjective(q)
  <2>1. SUFFICES ASSUME NEW i \in DOMAIN q, NEW j \in DOMAIN q, q[i] = q[j]
                 PROVE  i = j
    BY DEF IsInjective
  <2>2. n + i = n + j
    BY <1>5, <2>1 DEF IsInjective
  <2>. QED  BY <1>0, <1>5, <2>2
<1>8. ASSUME NEW i \in DOMAIN p, NEW j \in DOMAIN q PROVE p[i] # q[j]
  <2>1. i # n + j
    BY <1>0, <1>3, <1>5
  <2>. QED  BY <1>4, <1>5, <2>1 DEF IsInjective
<1>. QED  BY <1>1, <1>2, <1>4, <1>5, <1>6, <1>7, <1>8 DEF p, q

\* An arrangement of a finite set is a sequence over it, without repetitions.
LEMMA ArrangementLemma ==
    ASSUME NEW U, IsFiniteSet(U), NEW q \in SetToSeqs(U)
    PROVE  /\ q \in Seq(U) /\ IsInjective(q)
           /\ \A i \in DOMAIN q : q[i] \in U
<1>1. Cardinality(U) \in Nat
  BY FS_CardinalityType
<1>2. q \in [1..Cardinality(U) -> U]
  BY DEF SetToSeqs
<1>3. q \in Seq(U)
  BY <1>1, <1>2, SeqDef
<1>. QED  BY <1>2, <1>3 DEF SetToSeqs, IsInjective

\* Two sequences without repetitions and without common elements make one.
LEMMA ConcatLemma ==
    ASSUME NEW S, NEW r \in Seq(S), NEW q \in Seq(S),
           IsInjective(r), IsInjective(q),
           \A i \in DOMAIN r, j \in DOMAIN q : r[i] # q[j]
    PROVE  /\ r \o q \in Seq(S) /\ IsInjective(r \o q)
           /\ \A i \in DOMAIN (r \o q) :
                 \/ \E j \in DOMAIN r : (r \o q)[i] = r[j]
                 \/ \E j \in DOMAIN q : (r \o q)[i] = q[j]
<1> DEFINE c == r \o q
<1>0. /\ Len(r) \in Nat /\ DOMAIN r = 1..Len(r)
      /\ Len(q) \in Nat /\ DOMAIN q = 1..Len(q)
  BY LenProperties
<1>1. c \in Seq(S) /\ Len(c) = Len(r) + Len(q)
  BY ConcatProperties
<1>2. \A i \in 1..Len(c) : c[i] = IF i <= Len(r) THEN r[i] ELSE q[i - Len(r)]
  BY <1>1, ConcatProperties
<1> HIDE DEF c
<1>3. DOMAIN c = 1..(Len(r) + Len(q))
  BY <1>1, LenProperties
<1>4. \A i \in DOMAIN c :
         \/ i \in DOMAIN r /\ c[i] = r[i]
         \/ i - Len(r) \in DOMAIN q /\ c[i] = q[i - Len(r)] /\ i \in Nat
  BY <1>0, <1>1, <1>2, <1>3
<1>5. ASSUME NEW i \in DOMAIN c, NEW j \in DOMAIN c, c[i] = c[j]
      PROVE  i = j
  <2>1. CASE i \in DOMAIN r /\ c[i] = r[i]
    BY <1>4, <1>5, <2>1 DEF IsInjective
  <2>2. CASE i - Len(r) \in DOMAIN q /\ c[i] = q[i - Len(r)] /\ i \in Nat
    <3>1. j - Len(r) \in DOMAIN q /\ c[j] = q[j - Len(r)] /\ j \in Nat
      BY <1>4, <1>5, <2>2
    <3>2. i - Len(r) = j - Len(r)
      BY <1>5, <2>2, <3>1 DEF IsInjective
    <3>. QED  BY <1>0, <2>2, <3>1, <3>2
  <2>. QED  BY <1>4, <2>1, <2>2
<1>6. IsInjective(c)
  BY <1>5 DEF IsInjective
<1>. QED  BY <1>1, <1>4, <1>6 DEF c

----------------------------------------------------------------------------
\* What ConstantsAssumption says of any plan.
LEMMA PlanFacts ==
    ASSUME NEW p \in Plans
    PROVE  /\ StepsOf(p) \subseteq Steps
           /\ IsFiniteSet(StepsOf(p))
           /\ p.deps \in [StepsOf(p) -> SUBSET Steps]
           /\ p.confirm \subseteq StepsOf(p)
<1>1. IsPlan(p)
  BY ConstantsAssumption
<1>2. StepsOf(p) \subseteq Steps
  BY <1>1, ElementOfSeq, LenProperties DEF IsPlan, StepsOf, Range
<1>3. IsFiniteSet(StepsOf(p))
  BY <1>2, ConstantsAssumption, FS_Subset
<1>. QED  BY <1>1, <1>2, <1>3 DEF IsPlan

\* The list a plan starts with: its steps without dependencies, each once.
LEMMA InitialReadyFacts ==
    ASSUME NEW p \in Plans, NEW r \in InitialReady(p)
    PROVE  /\ r \in Seq(StepsOf(p)) /\ IsInjective(r)
           /\ \A i \in DOMAIN r : r[i] \in StepsOf(p) /\ p.deps[r[i]] = {}
<1> DEFINE U == {s \in StepsOf(p) : p.deps[s] = {}}
<1>1. U \subseteq StepsOf(p) /\ IsFiniteSet(U)
  BY PlanFacts, FS_Subset
<1>2. r \in SetToSeqs(U)
  BY DEF InitialReady
<1>3. r \in Seq(U) /\ IsInjective(r) /\ \A i \in DOMAIN r : r[i] \in U
  <2> HIDE DEF U
  <2>. QED  BY <1>1, <1>2, ArrangementLemma
<1>4. r \in Seq(StepsOf(p))
  BY <1>1, <1>3, SeqMonotonic
<1>. QED  BY <1>3, <1>4

----------------------------------------------------------------------------
\* The invariant holds initially.
LEMMA InitInv == Init => IInv
<1> SUFFICES ASSUME Init PROVE IInv
  OBVIOUS
<1> USE DEF Init
<1>1. /\ ready \in Seq(StepsOf(plan)) /\ IsInjective(ready)
      /\ \A i \in DOMAIN ready : ready[i] \in StepsOf(plan) /\ plan.deps[ready[i]] = {}
  BY InitialReadyFacts
<1>2. /\ batch \in Seq(StepsOf(plan)) /\ DOMAIN batch = {} /\ IsInjective(batch)
  BY EmptySeq, LenProperties DEF IsInjective
<1>3. TypeOK
  BY <1>1, <1>2, ConstantsAssumption DEF TypeOK, Pending, StepStatus, TaskStatus
<1>4. ScheduleInv
  BY <1>1, <1>2 DEF ScheduleInv, Pending
<1>5. TaskInv
  BY PlanFacts DEF TaskInv, Pending, Active
<1>6. ConfirmInv
  BY PlanFacts DEF ConfirmInv, FreshApproval, PausedMeansWaiting, Pending
<1>. QED  BY <1>3, <1>4, <1>5, <1>6 DEF IInv

\* Starting a batch keeps the invariant.
LEMMA StartBatchInv == IInv /\ StartBatch => IInv'
<1> SUFFICES ASSUME IInv, StartBatch PROVE IInv'
  OBVIOUS
<1> USE DEF IInv
<1> DEFINE started == Range(batch')
           held == started \cap plan.confirm
<1>1. /\ plan \in Plans /\ plan' = plan
      /\ StepsOf(plan) \subseteq Steps
      /\ plan.confirm \subseteq StepsOf(plan)
  BY PlanFacts DEF TypeOK, StartBatch
<1>2. BatchSize \in 0..Len(ready)
  BY ConstantsAssumption, LenProperties DEF TypeOK, BatchSize
<1>3. /\ batch' \in Seq(StepsOf(plan)) /\ IsInjective(batch')
      /\ ready' \in Seq(StepsOf(plan)) /\ IsInjective(ready')
      /\ \A i \in DOMAIN batch' : i \in DOMAIN ready /\ batch'[i] = ready[i]
      /\ \A i \in DOMAIN ready' : \E j \in DOMAIN ready : ready'[i] = ready[j]
      /\ \A i \in DOMAIN batch', j \in DOMAIN ready' : batch'[i] # ready'[j]
  BY <1>2, SplitLemma DEF TypeOK, ScheduleInv, StartBatch
<1>4. /\ started \subseteq StepsOf(plan)
      /\ \A s \in started : stepState[s] = "pending" /\ plan.deps[s] \subseteq completed
      /\ \A i \in DOMAIN batch' : batch'[i] \in started
      /\ \A i \in DOMAIN ready' : ready'[i] \notin started
  BY <1>3, ElementOfSeq, LenProperties DEF ScheduleInv, Range
<1>5. /\ stepState' = [s \in StepsOf(plan) |->
             IF s \in held THEN "waiting_confirm"
             ELSE IF s \in started THEN "running" ELSE stepState[s]]
      /\ taskStatus' = IF held # {} THEN "paused" ELSE taskStatus
      /\ pc' = [s \in Steps |->
             IF s \in held THEN "confirm"
             ELSE IF s \in started THEN "call" ELSE "idle"]
      /\ attempt' = [s \in Steps |-> 0]
      /\ confirmEvent' = [s \in Steps |->
             IF s \in held THEN "unset" ELSE confirmEvent[s]]
      /\ approval' = [s \in Steps |->
             IF s \in held THEN "none" ELSE approval[s]]
      /\ phase = "loop" /\ phase' = "gather" /\ cursor' = 1
      /\ UNCHANGED <<completed, replans, confirmResult, announced>>
  BY DEF StartBatch, outVars
<1>6. \A s \in Steps : pc[s] \notin {"confirm", "call", "backoff"}
  BY <1>5 DEF TaskInv, Active
<1>7. held \subseteq started /\ held \subseteq plan.confirm
      /\ \A s \in started : s \in plan.confirm => s \in held
  OBVIOUS
<1> HIDE DEF started, held
<1>8. TypeOK'
  <2>1. batch' = SubSeq(ready, 1, BatchSize) /\ ready \in Seq(StepsOf(plan))
    BY DEF StartBatch, TypeOK
  <2>2. BatchSize <= MaxConcurrent /\ BatchSize \in Nat
    BY <1>2, <2>1, ConstantsAssumption, LenProperties DEF BatchSize
  <2>3. Len(batch') <= MaxConcurrent
    BY <1>2, <2>1, <2>2, SubSeqProperties, LenProperties, ConstantsAssumption
  <2>. QED  BY <1>1, <1>3, <1>5, <2>3, ConstantsAssumption DEF TypeOK, StepStatus, TaskStatus
<1>9. ScheduleInv'
  <2>1. \A i \in DOMAIN ready' : /\ ready'[i] \in StepsOf(plan)
                                 /\ stepState'[ready'[i]] = "pending"
                                 /\ plan.deps[ready'[i]] \subseteq completed
    BY <1>3, <1>4, <1>5, <1>7, ElementOfSeq, LenProperties DEF ScheduleInv
  <2>2. ASSUME NEW i \in DOMAIN batch'
        PROVE  /\ pc'[batch'[i]] # "idle"
               /\ batch'[i] \notin completed
               /\ i \in Nat /\ ~(i < 1)
    <3>1. batch'[i] \in started
      BY <1>4
    <3>2. pc'[batch'[i]] # "idle"
      BY <1>1, <1>4, <1>5, <3>1
    <3>3. batch'[i] \notin completed
      BY <1>4, <3>1 DEF ScheduleInv
    <3>4. i \in Nat /\ ~(i < 1)
      BY <1>3, LenProperties
    <3>. QED  BY <3>2, <3>3, <3>4
  <2>3. \A s \in completed : stepState'[s] \in {"completed", "skipped"}
    BY <1>4, <1>5, <1>7 DEF ScheduleInv, TypeOK
  <2>4. \A s \in StepsOf(plan) : stepState'[s] # "pending" => plan.deps[s] \subseteq completed
    BY <1>4, <1>5, <1>7 DEF ScheduleInv
  <2>. QED  BY <1>1, <1>3, <1>5, <2>1, <2>2, <2>3, <2>4 DEF ScheduleInv
<1>10. TaskInv'
  <2>1. \A s \in StepsOf(plan) :
          /\ pc'[s] = "confirm" <=> stepState'[s] = "waiting_confirm"
          /\ pc'[s] \in {"call", "backoff", "crashed"} => stepState'[s] = "running"
          /\ pc'[s] # "returned"
    BY <1>1, <1>4, <1>5, <1>6, <1>7 DEF TaskInv
  <2>2. \A s \in Steps : pc'[s] # "idle" => s \in started
    BY <1>5, <1>7
  <2>. QED  BY <1>1, <1>4, <1>5, <2>1, <2>2 DEF TaskInv, Active, started
<1>11. ConfirmInv'
  <2>1. \A s \in Steps : confirmEvent[s] = "none"
    BY <1>6 DEF ConfirmInv, TypeOK
  <2>2. taskStatus' = "paused" => \E s \in Steps : pc'[s] = "confirm"
    BY <1>1, <1>5, <1>6, <1>7 DEF ConfirmInv, PausedMeansWaiting
  <2>3. \A s \in plan.confirm :
          stepState'[s] \in {"running", "completed", "failed"} => approval'[s] = "approved"
    BY <1>1, <1>5, <1>7 DEF ConfirmInv, FreshApproval
  <2>. QED  BY <1>1, <1>5, <1>7, <2>1, <2>2, <2>3
            DEF ConfirmInv, FreshApproval, PausedMeansWaiting
<1>. QED  BY <1>8, <1>9, <1>10, <1>11

----------------------------------------------------------------------------
\* Steps of the main coroutine that touch neither tasks nor confirmations:
\* the phase moves on to one in which no task is active and none was, and
\* the ready list, the completed set and the step states stay.
LEMMA PhaseMoves ==
    ASSUME IInv, phase # "gather", phase' \notin {"gather", "results"},
           phase' \in {"loop", "replan", "final", "done", "raised"},
           UNCHANGED <<plan, ready, batch, cursor, completed, stepState,
                       pc, attempt, confirmVars>>,
           taskStatus' \in {taskStatus, "completed", "failed"},
           replans' \in 0..MaxReplans,
           announced' \in {"none", "completed", "failed"}
    PROVE  IInv'
<1> USE DEF IInv
<1>1. \A s \in Steps : pc[s] \notin {"confirm", "call", "backoff"}
  BY DEF TaskInv, Active
<1>2. taskStatus # "paused"
  BY <1>1 DEF ConfirmInv, PausedMeansWaiting
<1>3. TypeOK'
  BY DEF TypeOK, confirmVars, TaskStatus
<1>4. ScheduleInv'
  BY DEF ScheduleInv
<1>5. TaskInv'
  BY <1>1 DEF TaskInv, Active
<1>6. ConfirmInv'
  BY <1>2 DEF ConfirmInv, FreshApproval, PausedMeansWaiting, confirmVars
<1>. QED  BY <1>3, <1>4, <1>5, <1>6

LEMMA QuietStepsInv ==
    IInv /\ (ProcessFailure \/ ProcessCrash \/ SaveBatch \/ LoopEnds
             \/ SaveFinal \/ ReplanFails \/ MemoryFails) => IInv'
<1> SUFFICES ASSUME IInv PROVE
      (ProcessFailure \/ ProcessCrash \/ SaveBatch \/ LoopEnds
             \/ SaveFinal \/ ReplanFails \/ MemoryFails) => IInv'
  OBVIOUS
<1>1. replans \in 0..MaxReplans /\ announced \in {"none", "completed", "failed"}
  BY DEF IInv, TypeOK
<1>2. CASE ProcessFailure
  <2>1. replans' \in 0..MaxReplans
    BY <1>1, <1>2, ConstantsAssumption DEF ProcessFailure
  <2>. QED  BY <1>1, <1>2, <2>1, PhaseMoves DEF ProcessFailure, taskVars
<1>3. CASE ProcessCrash
  BY <1>1, <1>3, PhaseMoves DEF ProcessCrash, taskVars, outVars
<1>4. CASE SaveBatch
  BY <1>1, <1>4, PhaseMoves DEF SaveBatch, taskVars, stateVars
<1>5. CASE LoopEnds
  BY <1>1, <1>5, PhaseMoves DEF LoopEnds, taskVars
<1>6. CASE SaveFinal
  BY <1>1, <1>6, PhaseMoves DEF SaveFinal, taskVars, stateVars
<1>7. CASE ReplanFails
  BY <1>1, <1>7, PhaseMoves DEF ReplanFails, taskVars, stateVars, outVars
<1>8. CASE MemoryFails
  BY <1>1, <1>8, PhaseMoves DEF MemoryFails, taskVars, stateVars, outVars
<1>. QED  BY <1>2, <1>3, <1>4, <1>5, <1>6, <1>7, <1>8

LEMMA GatherReturnsInv == IInv /\ GatherReturns => IInv'
<1> SUFFICES ASSUME IInv, GatherReturns PROVE IInv'
  OBVIOUS
<1> USE DEF IInv, GatherReturns, stateVars, taskVars, outVars, confirmVars
<1>1. TypeOK'
  BY DEF TypeOK
<1>2. ScheduleInv'
  BY DEF ScheduleInv
<1>3. \A s \in Steps : pc[s] \notin {"confirm", "call", "backoff"}
  BY DEF TaskInv, Active, Ended, Range
<1>4. TaskInv'
  BY <1>3 DEF TaskInv, Active
<1>5. ConfirmInv'
  BY DEF ConfirmInv, FreshApproval, PausedMeansWaiting
<1>. QED  BY <1>1, <1>2, <1>4, <1>5

\* An observation completes its step and unlocks dependents: none of them
\* was listed or run before, because each depends on the step just completed.
LEMMA ProcessObservationInv == IInv /\ ProcessObservation => IInv'
<1> SUFFICES ASSUME IInv, ProcessObservation PROVE IInv'
  OBVIOUS
<1> USE DEF IInv
<1> DEFINE s == batch[cursor]
           done == completed \cup {s}
           U == IF stepState[s] = "completed" THEN Unlocked(s, done) ELSE {}
<1>1. /\ plan \in Plans /\ plan' = plan
      /\ phase = "results" /\ phase' = "results"
      /\ batch' = batch /\ cursor' = cursor + 1 /\ completed' = done
      /\ stepState[s] \in {"completed", "skipped"}
      /\ UNCHANGED <<taskStatus, stepState, replans, pc, attempt,
                     confirmEvent, confirmResult, approval, announced>>
  BY DEF ProcessObservation, TypeOK, taskVars, confirmVars, outVars
<1>2. /\ StepsOf(plan) \subseteq Steps /\ IsFiniteSet(StepsOf(plan))
      /\ plan.deps \in [StepsOf(plan) -> SUBSET Steps]
  BY <1>1, PlanFacts
<1>3. /\ cursor \in DOMAIN batch /\ s \in StepsOf(plan) /\ s \notin completed
      /\ cursor \in Nat /\ DOMAIN batch \subseteq Nat
  <2>1. cursor \in Nat /\ cursor > 0 /\ batch \in Seq(StepsOf(plan)) /\ cursor <= Len(batch)
    BY DEF TypeOK, ProcessObservation
  <2>2. cursor \in DOMAIN batch /\ s \in StepsOf(plan) /\ DOMAIN batch \subseteq Nat
    BY <2>1, LenProperties, ElementOfSeq
  <2>. QED  BY <1>1, <2>1, <2>2 DEF ScheduleInv
<1>4. /\ U \subseteq StepsOf(plan) /\ IsFiniteSet(U)
      /\ \A d \in U : s \in plan.deps[d] /\ plan.deps[d] \subseteq done
  BY <1>2, FS_Subset DEF Unlocked
<1>5. \A d \in U : stepState[d] = "pending"
  BY <1>3, <1>4 DEF ScheduleInv
<1>6. PICK q \in SetToSeqs(U) : ready' = ready \o q
  BY DEF ProcessObservation
<1> HIDE DEF U
<1>7. q \in Seq(StepsOf(plan)) /\ IsInjective(q) /\ \A i \in DOMAIN q : q[i] \in U
  BY <1>4, ArrangementLemma, SeqMonotonic
<1>8. ready \in Seq(StepsOf(plan)) /\ IsInjective(ready)
  BY DEF TypeOK, ScheduleInv
<1>9. \A i \in DOMAIN ready : s \notin plan.deps[ready[i]]
  BY <1>3 DEF ScheduleInv
<1>10. \A i \in DOMAIN ready, j \in DOMAIN q : ready[i] # q[j]
  BY <1>4, <1>7, <1>9
<1>11. /\ ready' \in Seq(StepsOf(plan)) /\ IsInjective(ready')
       /\ \A i \in DOMAIN ready' : \/ \E j \in DOMAIN ready : ready'[i] = ready[j]
                                   \/ \E j \in DOMAIN q : ready'[i] = q[j]
  BY <1>6, <1>7, <1>8, <1>10, ConcatLemma
<1>12. TypeOK'
  BY <1>1, <1>3, <1>11 DEF TypeOK
<1>13. ScheduleInv'
  <2>1. \A i \in DOMAIN ready' : stepState[ready'[i]] = "pending"
                                 /\ plan.deps[ready'[i]] \subseteq done
    BY <1>4, <1>5, <1>7, <1>11 DEF ScheduleInv
  <2>2. ASSUME NEW i \in DOMAIN batch
        PROVE  /\ pc[batch[i]] # "idle"
               /\ batch[i] \in done <=> i < cursor + 1
    <3>1. pc[batch[i]] # "idle" /\ (batch[i] \in completed <=> i < cursor)
      BY <1>1 DEF ScheduleInv
    <3>2. batch[i] = s <=> i = cursor
      BY <1>3 DEF ScheduleInv, IsInjective
    <3>3. i \in Nat /\ cursor \in Nat
      BY <1>3
    <3>. QED  BY <3>1, <3>2, <3>3
  <2>3. \A t \in done : stepState[t] \in {"completed", "skipped"}
    BY <1>1 DEF ScheduleInv
  <2>4. \A t \in StepsOf(plan) : stepState[t] # "pending" => plan.deps[t] \subseteq done
    BY DEF ScheduleInv
  <2>. QED  BY <1>1, <1>11, <2>1, <2>2, <2>3, <2>4 DEF ScheduleInv
<1>14. TaskInv'
  BY <1>1 DEF TaskInv, Active
<1>15. ConfirmInv'
  BY <1>1 DEF ConfirmInv, FreshApproval, PausedMeansWaiting
<1>. QED  BY <1>12, <1>13, <1>14, <1>15

\* A new plan starts from scratch; answers to steps of the old one are kept
\* but no event is registered.
LEMMA ReplanInv == IInv /\ Replan => IInv'
<1> SUFFICES ASSUME IInv, Replan PROVE IInv'
  OBVIOUS
<1> USE DEF IInv
<1>1. /\ plan' \in Plans /\ phase = "replan" /\ phase' = "loop"
      /\ stepState' = Pending(plan') /\ ready' \in InitialReady(plan')
      /\ batch' = << >> /\ cursor' = 1 /\ completed' = {}
      /\ pc' = [s \in Steps |-> "idle"]
      /\ UNCHANGED <<taskStatus, replans, attempt, confirmEvent,
                     confirmResult, approval, announced>>
  BY DEF Replan, confirmVars, outVars
<1>2. /\ ready' \in Seq(StepsOf(plan')) /\ IsInjective(ready')
      /\ \A i \in DOMAIN ready' : ready'[i] \in StepsOf(plan')
                                  /\ plan'.deps[ready'[i]] = {}
  BY <1>1, InitialReadyFacts
<1>3. batch' \in Seq(StepsOf(plan')) /\ DOMAIN batch' = {} /\ IsInjective(batch')
  BY <1>1, EmptySeq, LenProperties DEF IsInjective
<1>4. \A s \in Steps : pc[s] \notin {"confirm", "call", "backoff"}
  BY <1>1 DEF TaskInv, Active
<1>5. TypeOK'
  <2>1. Len(batch') <= MaxConcurrent
    BY <1>1, EmptySeq, ConstantsAssumption
  <2>. QED  BY <1>1, <1>2, <1>3, <2>1 DEF TypeOK, Pending, StepStatus
<1>6. ScheduleInv'
  BY <1>1, <1>2, <1>3 DEF ScheduleInv, Pending
<1>7. TaskInv'
  BY <1>1, PlanFacts DEF TaskInv, Pending, Active
<1>8. ConfirmInv'
  <2>1. \A s \in plan'.confirm : stepState'[s] = "pending"
    BY <1>1, PlanFacts DEF Pending
  <2>. QED  BY <1>1, <1>4, <2>1 DEF ConfirmInv, FreshApproval, PausedMeansWaiting
<1>. QED  BY <1>5, <1>6, <1>7, <1>8

----------------------------------------------------------------------------
\* Steps of the task of one step t of the running batch: they leave the
\* outer loop alone, move t between its own states, and touch no other step.
LEMMA TaskStep ==
    ASSUME IInv, NEW t \in Steps, Active(t),
           UNCHANGED <<loopVars, replans, announced>>,
           taskStatus' \in TaskStatus,
           NEW state \in {"running", "completed", "failed", "skipped"},
           NEW place \in {"call", "backoff", "returned", "crashed"},
           stepState' = [stepState EXCEPT ![t] = state],
           pc' = [pc EXCEPT ![t] = place],
           attempt' \in [Steps -> 0..MaxRetries],
           \A s \in Steps \ {t} : attempt'[s] = attempt[s],
           place = "backoff" => attempt'[t] < MaxRetries,
           confirmEvent' \in [Steps -> {"none", "unset", "set"}],
           confirmResult' \in [Steps -> {"none", "approved", "rejected"}],
           approval' = approval,
           place = "returned" <=> state # "running"
    PROVE  TypeOK' /\ ScheduleInv' /\ TaskInv'
<1> USE DEF IInv
<1>1. /\ plan \in Plans /\ plan' = plan /\ StepsOf(plan) \subseteq Steps
      /\ phase = "gather" /\ t \in StepsOf(plan) /\ t \in Range(batch)
      /\ pc[t] # "idle" /\ pc[t] \in {"confirm", "call", "backoff"}
      /\ stepState[t] \in {"running", "waiting_confirm"}
      /\ UNCHANGED <<phase, ready, batch, cursor, completed>>
  BY PlanFacts DEF TypeOK, TaskInv, Active, loopVars
<1>2. /\ stepState \in [StepsOf(plan) -> StepStatus]
      /\ pc \in [Steps -> {"idle", "confirm", "call", "backoff", "returned", "crashed"}]
  BY DEF TypeOK
<1>3. TypeOK'
  BY <1>1, <1>2 DEF TypeOK, StepStatus
<1>4. ScheduleInv'
  <2>1. t \notin completed /\ plan.deps[t] \subseteq completed
    BY <1>1 DEF ScheduleInv
  <2>2. \A i \in DOMAIN ready : ready[i] # t
    BY <1>1 DEF ScheduleInv
  <2>3. \A i \in DOMAIN ready : ready[i] \in StepsOf(plan)
    BY ElementOfSeq, LenProperties DEF TypeOK
  <2>4. \A i \in DOMAIN batch : batch[i] \in StepsOf(plan)
    BY ElementOfSeq, LenProperties DEF TypeOK
  <2>5. completed \subseteq StepsOf(plan)
    BY DEF TypeOK
  <2>6. \A i \in DOMAIN ready : stepState'[ready[i]] = "pending"
    BY <1>2, <2>2, <2>3 DEF ScheduleInv
  <2>7. \A i \in DOMAIN batch : pc'[batch[i]] # "idle"
    BY <1>1, <1>2, <2>4 DEF ScheduleInv
  <2>8. \A s \in completed : stepState'[s] \in {"completed", "skipped"}
    BY <1>2, <2>1, <2>5 DEF ScheduleInv
  <2>9. \A s \in StepsOf(plan) : stepState'[s] # "pending" => plan.deps[s] \subseteq completed
    BY <1>2, <2>1 DEF ScheduleInv
  <2>. QED  BY <1>1, <2>6, <2>7, <2>8, <2>9 DEF ScheduleInv
<1>5. TaskInv'
  BY <1>1, <1>2 DEF TaskInv, Active
<1>. QED  BY <1>3, <1>4, <1>5

\* What a call, a backoff or a crash does to the confirmations: nothing.
LEMMA CallStep ==
    ASSUME IInv, NEW t \in Steps, pc[t] \in {"call", "backoff"},
           UNCHANGED <<loopVars, taskStatus, replans, announced, confirmVars>>,
           NEW state \in {"running", "completed", "failed"},
           NEW place \in {"call", "backoff", "returned", "crashed"},
           stepState' = [stepState EXCEPT ![t] = state],
           pc' = [pc EXCEPT ![t] = place],
           attempt' \in [Steps -> 0..MaxRetries],
           \A s \in Steps \ {t} : attempt'[s] = attempt[s],
           place = "backoff" => attempt'[t] < MaxRetries,
           place = "returned" <=> state # "running"
    PROVE  IInv'
<1> USE DEF IInv
<1>1. TypeOK' /\ ScheduleInv' /\ TaskInv'
  BY TaskStep DEF Active, TypeOK, confirmVars
<1>2. /\ plan \in Plans /\ plan' = plan /\ StepsOf(plan) \subseteq Steps
      /\ plan.confirm \subseteq StepsOf(plan) /\ t \in StepsOf(plan)
      /\ stepState[t] = "running"
      /\ stepState \in [StepsOf(plan) -> StepStatus]
      /\ pc \in [Steps -> {"idle", "confirm", "call", "backoff", "returned", "crashed"}]
  BY PlanFacts DEF TypeOK, TaskInv, loopVars
<1>3. FreshApproval'
  BY <1>2 DEF ConfirmInv, FreshApproval, confirmVars
<1>4. PausedMeansWaiting'
  BY <1>2 DEF ConfirmInv, PausedMeansWaiting
<1>5. ConfirmInv'
  BY <1>2, <1>3, <1>4 DEF ConfirmInv, confirmVars
<1>. QED  BY <1>1, <1>5

LEMMA CallActionsInv ==
    ASSUME IInv, NEW t \in Steps,
           \/ CallSucceeds(t) \/ BackoffEnds(t) \/ CallCrashes(t)
           \/ CallFails(t)
    PROVE  IInv'
<1> USE DEF IInv
<1>1. /\ attempt \in [Steps -> 0..MaxRetries]
      /\ DOMAIN stepState = StepsOf(plan) /\ DOMAIN pc = Steps
      /\ pc[t] \in {"call", "backoff"} => t \in StepsOf(plan) /\ stepState[t] = "running"
  BY DEF TypeOK, TaskInv
<1>2. stepState[t] = "running" => stepState = [stepState EXCEPT ![t] = "running"]
  BY <1>1 DEF TypeOK
<1>3. CASE CallSucceeds(t)
  BY <1>1, <1>3, CallStep DEF CallSucceeds, outVars
<1>4. CASE BackoffEnds(t)
  <2>1. attempt[t] < MaxRetries
    BY <1>4 DEF BackoffEnds, TaskInv
  <2>2. attempt' \in [Steps -> 0..MaxRetries] /\ \A s \in Steps \ {t} : attempt'[s] = attempt[s]
    BY <1>1, <1>4, <2>1, ConstantsAssumption DEF BackoffEnds
  <2>3. stepState' = [stepState EXCEPT ![t] = "running"]
    BY <1>1, <1>2, <1>4 DEF BackoffEnds, stateVars
  <2>. QED  BY <1>4, <2>2, <2>3, CallStep DEF BackoffEnds, stateVars, outVars
<1>5. CASE CallCrashes(t)
  <2>1. stepState' = [stepState EXCEPT ![t] = "running"]
    BY <1>1, <1>2, <1>5 DEF CallCrashes, stateVars
  <2>. QED  BY <1>1, <1>5, <2>1, CallStep DEF CallCrashes, stateVars, outVars
<1>6. CASE CallFails(t)
  <2>1. CASE attempt[t] < MaxRetries
    <3>1. stepState' = [stepState EXCEPT ![t] = "running"]
      BY <1>1, <1>2, <1>6, <2>1 DEF CallFails
    <3>. QED  BY <1>1, <1>6, <2>1, <3>1, CallStep DEF CallFails, outVars
  <2>2. CASE ~(attempt[t] < MaxRetries)
    BY <1>1, <1>6, <2>2, CallStep DEF CallFails, outVars
  <2>. QED  BY <2>1, <2>2
<1>. QED  BY <1>3, <1>4, <1>5, <1>6

\* A wait that ends, answered or timed out: its event goes, the task status
\* resumes, and only an answer given to this wait lets the step run.
LEMMA WaitActionsInv ==
    ASSUME IInv, NEW t \in Steps, ConfirmWakes(t) \/ ConfirmTimesOut(t)
    PROVE  IInv'
<1> USE DEF IInv
<1>1. /\ plan \in Plans /\ StepsOf(plan) \subseteq Steps
      /\ plan.confirm \subseteq StepsOf(plan)
      /\ plan' = plan /\ pc[t] = "confirm" /\ t \in StepsOf(plan)
      /\ UNCHANGED <<loopVars, replans, announced, approval>>
      /\ taskStatus' = "running" /\ PopConfirm(t)
  BY PlanFacts DEF TypeOK, TaskInv, ConfirmWakes, ConfirmTimesOut, loopVars, outVars
<1>2. /\ attempt \in [Steps -> 0..MaxRetries]
      /\ confirmEvent \in [Steps -> {"none", "unset", "set"}]
      /\ confirmResult \in [Steps -> {"none", "approved", "rejected"}]
      /\ stepState \in [StepsOf(plan) -> StepStatus]
      /\ pc \in [Steps -> {"idle", "confirm", "call", "backoff", "returned", "crashed"}]
  BY DEF TypeOK
<1>3. /\ confirmEvent' = [confirmEvent EXCEPT ![t] = "none"]
      /\ confirmEvent' \in [Steps -> {"none", "unset", "set"}]
      /\ confirmResult' = [confirmResult EXCEPT ![t] = "none"]
      /\ confirmResult' \in [Steps -> {"none", "approved", "rejected"}]
  BY <1>1, <1>2 DEF PopConfirm
<1>4. \/ /\ SkipStep(t)
      \/ /\ approval[t] = "approved"
         /\ stepState' = [stepState EXCEPT ![t] = "running"]
         /\ pc' = [pc EXCEPT ![t] = "call"]
         /\ attempt' = [attempt EXCEPT ![t] = 0]
  BY DEF ConfirmWakes, ConfirmTimesOut, ConfirmInv
<1>5. TypeOK' /\ ScheduleInv' /\ TaskInv'
  <2>1. CASE SkipStep(t)
    BY <1>1, <1>2, <1>3, <2>1, TaskStep DEF SkipStep, Active, TaskStatus
  <2>2. CASE /\ stepState' = [stepState EXCEPT ![t] = "running"]
             /\ pc' = [pc EXCEPT ![t] = "call"]
             /\ attempt' = [attempt EXCEPT ![t] = 0]
    <3>1. attempt' \in [Steps -> 0..MaxRetries] /\ \A s \in Steps \ {t} : attempt'[s] = attempt[s]
      BY <1>2, <2>2, ConstantsAssumption
    <3>. QED  BY <1>1, <1>2, <1>3, <2>2, <3>1, TaskStep DEF Active, TaskStatus
  <2>. QED  BY <1>4, <2>1, <2>2
<1>6. /\ pc'[t] # "confirm" /\ \A s \in Steps \ {t} : pc'[s] = pc[s]
      /\ \A s \in StepsOf(plan) \ {t} : stepState'[s] = stepState[s]
      /\ stepState'[t] = "skipped" \/ approval[t] = "approved"
  BY <1>1, <1>2, <1>4 DEF SkipStep
<1>7. FreshApproval'
  BY <1>1, <1>6 DEF ConfirmInv, FreshApproval
<1>8. ConfirmInv'
  BY <1>1, <1>2, <1>3, <1>6, <1>7 DEF ConfirmInv, PausedMeansWaiting
<1>. QED  BY <1>5, <1>8

\* A request to confirm: an answer counts only for a step that is waiting,
\* and a waiting step has not run.
LEMMA ConfirmStepInv ==
    ASSUME IInv, NEW t \in Steps, NEW answer \in {"approved", "rejected"},
           ConfirmStep(t, answer)
    PROVE  IInv'
<1> USE DEF IInv
<1>1. /\ plan \in Plans /\ plan' = plan
      /\ plan.confirm \subseteq StepsOf(plan) /\ StepsOf(plan) \subseteq Steps
      /\ UNCHANGED <<loopVars, stateVars, taskVars, outVars>>
  BY PlanFacts DEF TypeOK, ConfirmStep, loopVars
<1>2. TypeOK'
  <2>1. /\ confirmResult' \in [Steps -> {"none", "approved", "rejected"}]
        /\ confirmEvent' \in [Steps -> {"none", "unset", "set"}]
        /\ approval' \in [Steps -> {"none", "approved", "rejected"}]
    <3>1. /\ confirmResult \in [Steps -> {"none", "approved", "rejected"}]
          /\ confirmEvent \in [Steps -> {"none", "unset", "set"}]
          /\ approval \in [Steps -> {"none", "approved", "rejected"}]
      BY DEF TypeOK
    <3>2. CASE confirmEvent[t] # "none"
      BY <3>1, <3>2 DEF ConfirmStep
    <3>3. CASE confirmEvent[t] = "none"
      BY <3>1, <3>3 DEF ConfirmStep
    <3>. QED  BY <3>2, <3>3
  <2>. QED  BY <1>1, <2>1 DEF TypeOK, loopVars, stateVars, taskVars, outVars
<1>3. ScheduleInv'
  BY <1>1 DEF ScheduleInv, loopVars, stateVars, taskVars
<1>4. TaskInv'
  BY <1>1 DEF TaskInv, Active, loopVars, stateVars, taskVars
<1>5. PausedMeansWaiting'
  BY <1>1 DEF ConfirmInv, PausedMeansWaiting, stateVars, taskVars
<1>6. FreshApproval'
  <2>1. confirmEvent[t] # "none" /\ t \in StepsOf(plan) => stepState[t] = "waiting_confirm"
    BY DEF ConfirmInv, TaskInv
  <2>. QED  BY <1>1, <2>1 DEF ConfirmInv, FreshApproval, ConfirmStep, TypeOK, stateVars
<1>7. ConfirmInv'
  BY <1>1, <1>5, <1>6 DEF ConfirmInv, ConfirmStep, TypeOK, taskVars
<1>. QED  BY <1>2, <1>3, <1>4, <1>7

----------------------------------------------------------------------------
LEMMA NextInv == IInv /\ [Next]_vars => IInv'
<1> SUFFICES ASSUME IInv, [Next]_vars PROVE IInv'
  OBVIOUS
<1>1. CASE StartBatch
  BY <1>1, StartBatchInv
<1>2. CASE GatherReturns
  BY <1>2, GatherReturnsInv
<1>3. CASE ProcessObservation
  BY <1>3, ProcessObservationInv
<1>4. CASE \/ ProcessFailure \/ ProcessCrash \/ SaveBatch \/ LoopEnds
           \/ SaveFinal \/ ReplanFails \/ MemoryFails
  BY <1>4, QuietStepsInv
<1>5. CASE Replan
  BY <1>5, ReplanInv
<1>6. CASE \E s \in Steps : StepTask(s)
  BY <1>6, CallActionsInv, WaitActionsInv DEF StepTask
<1>7. CASE \E s \in Steps, answer \in {"approved", "rejected"} : ConfirmStep(s, answer)
  BY <1>7, ConfirmStepInv
<1>8. CASE UNCHANGED vars
  <2> USE DEF IInv, vars, loopVars, stateVars, taskVars, confirmVars, outVars
  <2>1. TypeOK'
    BY <1>8 DEF TypeOK
  <2>2. ScheduleInv'
    BY <1>8 DEF ScheduleInv
  <2>3. TaskInv'
    BY <1>8 DEF TaskInv, Active
  <2>4. ConfirmInv'
    BY <1>8 DEF ConfirmInv, FreshApproval, PausedMeansWaiting
  <2>. QED  BY <2>1, <2>2, <2>3, <2>4
<1>. QED
  BY <1>1, <1>2, <1>3, <1>4, <1>5, <1>6, <1>7, <1>8 DEF Next, Loop

\* The inductive invariant of the executor.
THEOREM Invariance == Spec => []IInv
<1>. QED  BY InitInv, NextInv, PTL DEF Spec

----------------------------------------------------------------------------
\* The history: what is left over, announced, saved and observed.

\* Cutting a sequence in two loses none of its elements.
LEMMA SplitCovers ==
    ASSUME NEW S, NEW r \in Seq(S), NEW n \in 0..Len(r), NEW i \in DOMAIN r
    PROVE  r[i] \in Range(SubSeq(r, 1, n)) \cup Range(SubSeq(r, n + 1, Len(r)))
<1>1. /\ Len(r) \in Nat /\ n \in Nat /\ n <= Len(r) /\ i \in 1..Len(r)
      /\ \A j \in 1..Len(r) : r[j] \in S
  BY LenProperties, ElementOfSeq
<1>2. CASE i <= n
  <2> DEFINE p == SubSeq(r, 1, n)
  <2>1. p \in Seq(S) /\ Len(p) = n /\ \A j \in 1..n : p[j] = r[j]
    <3>1. \A j \in 1..n : r[j] \in S
      BY <1>1
    <3>2. /\ p \in Seq(S)
          /\ Len(p) = IF 1 <= n THEN n - 1 + 1 ELSE 0
          /\ \A j \in 1..(n - 1 + 1) : p[j] = r[1 + j - 1]
      BY <1>1, <3>1, SubSeqProperties
    <3>. QED  BY <1>1, <3>2
  <2> HIDE DEF p
  <2>2. i \in DOMAIN p /\ p[i] = r[i]
    BY <1>1, <1>2, <2>1, LenProperties
  <2>3. r[i] \in Range(p)
    BY <2>2 DEF Range
  <2>. QED  BY <2>3 DEF p
<1>3. CASE ~(i <= n)
  <2> DEFINE q == SubSeq(r, n + 1, Len(r))
  <2>0. n + 1 <= Len(r) /\ i - n \in 1..(Len(r) - n) /\ n + (i - n) = i
    BY <1>1, <1>3
  <2>1. q \in Seq(S) /\ Len(q) = Len(r) - n /\ \A j \in 1..(Len(r) - n) : q[j] = r[n + j]
    <3>1. \A j \in (n + 1)..Len(r) : r[j] \in S
      BY <1>1
    <3>2. /\ q \in Seq(S)
          /\ Len(q) = IF n + 1 <= Len(r) THEN Len(r) - (n + 1) + 1 ELSE 0
          /\ \A j \in 1..(Len(r) - (n + 1) + 1) : q[j] = r[(n + 1) + j - 1]
      BY <1>1, <3>1, SubSeqProperties
    <3> HIDE DEF q
    <3>3. Len(r) - (n + 1) + 1 = Len(r) - n
      BY <1>1
    <3>4. Len(q) = Len(r) - n
      BY <2>0, <3>2, <3>3
    <3>5. ASSUME NEW j \in 1..(Len(r) - n) PROVE q[j] = r[n + j]
      <4>1. j \in 1..(Len(r) - (n + 1) + 1) /\ (n + 1) + j - 1 = n + j
        BY <1>1
      <4>. QED  BY <3>2, <4>1
    <3>. QED  BY <3>2, <3>4, <3>5
  <2> HIDE DEF q
  <2>2. i - n \in DOMAIN q /\ q[i - n] = r[i]
    BY <2>0, <2>1, LenProperties
  <2>3. r[i] \in Range(q)
    BY <2>2 DEF Range
  <2>. QED  BY <2>3 DEF q
<1>. QED  BY <1>2, <1>3

\* An arrangement of a finite set has every element of it.
LEMMA ArrangementCovers ==
    ASSUME NEW U, IsFiniteSet(U), NEW q \in SetToSeqs(U)
    PROVE  U \subseteq Range(q)
<1> DEFINE n == Cardinality(U)
<1>1. n \in Nat
  BY FS_CardinalityType
<1>2. IsFiniteSet(1..n) /\ Cardinality(1..n) = n
  BY <1>1, FS_Interval
<1>3. q \in [1..n -> U] /\ \A i, j \in 1..n : i # j => q[i] # q[j]
  BY DEF SetToSeqs
<1> HIDE DEF n
<1>4. q \in Injection(1..n, U)
  BY <1>3, Fun_IsInj
<1>5. Cardinality(1..n) = Cardinality(U)
  BY <1>2 DEF n
<1>6. q \in Surjection(1..n, U)
  BY <1>4, <1>5, FS_Injection
<1>7. \A u \in U : \E i \in 1..n : q[i] = u
  BY <1>6 DEF Surjection
<1>. QED  BY <1>3, <1>7 DEF Range

\* Appending keeps what was there and adds what is appended.
LEMMA ConcatCovers ==
    ASSUME NEW S, NEW r \in Seq(S), NEW q \in Seq(S)
    PROVE  Range(r) \cup Range(q) \subseteq Range(r \o q)
<1> DEFINE c == r \o q
<1>1. /\ Len(r) \in Nat /\ DOMAIN r = 1..Len(r)
      /\ Len(q) \in Nat /\ DOMAIN q = 1..Len(q)
  BY LenProperties
<1>2. c \in Seq(S) /\ Len(c) = Len(r) + Len(q)
  BY ConcatProperties
<1>3. \A i \in 1..Len(c) : c[i] = IF i <= Len(r) THEN r[i] ELSE q[i - Len(r)]
  BY <1>2, ConcatProperties
<1>4. DOMAIN c = 1..Len(c)
  BY <1>2, LenProperties
<1> HIDE DEF c
<1>5. ASSUME NEW i \in DOMAIN r PROVE r[i] \in Range(c)
  <2>1. i \in 1..Len(c) /\ c[i] = r[i]
    BY <1>1, <1>2, <1>3
  <2>. QED  BY <1>4, <2>1 DEF Range
<1>6. ASSUME NEW i \in DOMAIN q PROVE q[i] \in Range(c)
  <2>1. Len(r) + i \in 1..Len(c) /\ ~(Len(r) + i <= Len(r)) /\ (Len(r) + i) - Len(r) = i
    BY <1>1, <1>2
  <2>2. c[Len(r) + i] = q[i]
    BY <1>3, <2>1
  <2>. QED  BY <1>4, <2>1, <2>2 DEF Range
<1>7. Range(r) \cup Range(q) \subseteq Range(c)
  BY <1>5, <1>6 DEF Range
<1>. QED  BY <1>7 DEF c

\* The list a plan starts with has all its steps without dependencies.
LEMMA InitialReadyCovers ==
    ASSUME NEW p \in Plans, NEW r \in InitialReady(p), NEW s \in StepsOf(p), p.deps[s] = {}
    PROVE  s \in Range(r)
<1> DEFINE U == {t \in StepsOf(p) : p.deps[t] = {}}
<1>1. U \subseteq StepsOf(p) /\ IsFiniteSet(U)
  BY PlanFacts, FS_Subset
<1>2. r \in SetToSeqs(U) /\ s \in U
  BY DEF InitialReady
<1> HIDE DEF U
<1>. QED  BY <1>1, <1>2, ArrangementCovers

\* Whatever the task of a step does, it starts no other step and leaves the
\* outer loop, the observations and the saved state alone.
LEMMA TaskMoves ==
    ASSUME IInv, NEW t \in Steps, StepTask(t)
    PROVE  /\ t \in StepsOf(plan) /\ t \in Range(batch) /\ phase = "gather"
           /\ stepState[t] \in {"running", "waiting_confirm"}
           /\ pc[t] \in {"confirm", "call", "backoff"}
           /\ UNCHANGED <<plan, phase, ready, batch, cursor, completed>>
           /\ UNCHANGED <<replans, observations, saved, announced>>
           /\ taskStatus' \in {taskStatus, "running"}
           /\ \E state \in {"running", "completed", "failed", "skipped"} :
                 stepState' = [stepState EXCEPT ![t] = state]
           /\ \E place \in {"call", "backoff", "returned", "crashed"} :
                 pc' = [pc EXCEPT ![t] = place]
           /\ \A s \in StepsOf(plan) : s # t => stepState'[s] = stepState[s]
           /\ stepState'[t] \in {"running", "completed", "failed", "skipped"}
           /\ \A s \in Steps : s # t => pc'[s] = pc[s]
           /\ pc'[t] \in {"call", "backoff", "returned", "crashed"}
<1> USE DEF IInv
<1>1. pc[t] \in {"confirm", "call", "backoff"}
  BY DEF StepTask, ConfirmWakes, ConfirmTimesOut, CallSucceeds, CallFails, BackoffEnds, CallCrashes
<1>2. /\ t \in StepsOf(plan) /\ t \in Range(batch) /\ phase = "gather"
      /\ stepState[t] \in {"running", "waiting_confirm"}
  BY <1>1 DEF TaskInv, Active
<1>3. /\ UNCHANGED <<plan, phase, ready, batch, cursor, completed>>
      /\ UNCHANGED <<replans, observations, saved, announced>>
      /\ taskStatus' \in {taskStatus, "running"}
  BY DEF StepTask, ConfirmWakes, ConfirmTimesOut, CallSucceeds, CallFails, BackoffEnds,
         CallCrashes, loopVars, stateVars, outVars
<1>4. DOMAIN stepState = StepsOf(plan) /\ DOMAIN pc = Steps
  BY DEF TypeOK
<1>5. pc[t] \in {"call", "backoff"} => stepState = [stepState EXCEPT ![t] = "running"]
  BY <1>2, <1>4 DEF TaskInv, TypeOK
<1>6. \E state \in {"running", "completed", "failed", "skipped"} :
         stepState' = [stepState EXCEPT ![t] = state]
  BY <1>5 DEF StepTask, ConfirmWakes, ConfirmTimesOut, CallSucceeds, CallFails, BackoffEnds,
         CallCrashes, SkipStep, stateVars
<1>7. \E place \in {"call", "backoff", "returned", "crashed"} :
         pc' = [pc EXCEPT ![t] = place]
  BY DEF StepTask, ConfirmWakes, ConfirmTimesOut, CallSucceeds, CallFails, BackoffEnds,
         CallCrashes, SkipStep
<1>8. /\ \A s \in StepsOf(plan) : s # t => stepState'[s] = stepState[s]
      /\ stepState'[t] \in {"running", "completed", "failed", "skipped"}
  BY <1>2, <1>4, <1>6
<1>9. /\ \A s \in Steps : s # t => pc'[s] = pc[s]
      /\ pc'[t] \in {"call", "backoff", "returned", "crashed"}
  BY <1>4, <1>7
<1>. QED  BY <1>1, <1>2, <1>3, <1>6, <1>7, <1>8, <1>9

\* What is started is taken off the front of the ready list.
LEMMA BatchFacts ==
    ASSUME IInv, StartBatch
    PROVE  /\ UNCHANGED <<plan, completed, replans, observations, saved, announced>>
           /\ phase = "loop" /\ phase' = "gather"
           /\ Range(batch') \subseteq StepsOf(plan)
           /\ \A s \in Range(batch') :
                 /\ stepState[s] = "pending" /\ plan.deps[s] \subseteq completed
                 /\ stepState'[s] \in {"running", "waiting_confirm"} /\ pc'[s] # "idle"
           /\ \A s \in StepsOf(plan) : s \notin Range(batch') => stepState'[s] = stepState[s]
           /\ Range(ready) \subseteq Range(batch') \cup Range(ready')
<1> USE DEF IInv
<1>1. /\ plan \in Plans /\ StepsOf(plan) \subseteq Steps
      /\ ready \in Seq(StepsOf(plan)) /\ IsInjective(ready)
  BY PlanFacts DEF TypeOK, ScheduleInv
<1>2. BatchSize \in 0..Len(ready)
  BY <1>1, ConstantsAssumption, LenProperties DEF BatchSize
<1>3. batch' = SubSeq(ready, 1, BatchSize) /\ ready' = SubSeq(ready, BatchSize + 1, Len(ready))
  BY DEF StartBatch
<1>4. \A i \in DOMAIN batch' : i \in DOMAIN ready /\ batch'[i] = ready[i]
  BY <1>1, <1>2, <1>3, SplitLemma
<1>5. \A s \in Range(batch') :
         s \in StepsOf(plan) /\ stepState[s] = "pending" /\ plan.deps[s] \subseteq completed
  BY <1>1, <1>4, ElementOfSeq, LenProperties DEF ScheduleInv, Range
<1>6. Range(ready) \subseteq Range(batch') \cup Range(ready')
  <2> SUFFICES ASSUME NEW i \in DOMAIN ready
               PROVE  ready[i] \in Range(batch') \cup Range(ready')
    BY DEF Range
  <2>. QED  BY <1>1, <1>2, <1>3, SplitCovers
<1>7. \A s \in Range(batch') :
         stepState'[s] \in {"running", "waiting_confirm"} /\ pc'[s] # "idle"
  BY <1>1, <1>5 DEF StartBatch
<1>8. \A s \in StepsOf(plan) : s \notin Range(batch') => stepState'[s] = stepState[s]
  BY DEF StartBatch
<1>. QED  BY <1>5, <1>6, <1>7, <1>8 DEF StartBatch, outVars

\* What a result that is an observation does.
LEMMA ObservationFacts ==
    ASSUME IInv, ProcessObservation
    PROVE  LET s == batch[cursor]
           IN  /\ UNCHANGED <<plan, phase, batch, taskStatus, stepState, replans, pc, saved, announced>>
               /\ phase = "results" /\ cursor' = cursor + 1
               /\ s \in StepsOf(plan) /\ s \notin completed
               /\ stepState[s] \in {"completed", "skipped"}
               /\ plan.deps[s] \subseteq completed
               /\ completed' = completed \cup {s}
               /\ observations' = Append(observations, Observation(s))
               /\ Range(ready) \subseteq Range(ready')
               /\ \A d \in StepsOf(plan) :
                     /\ stepState[s] = "completed"
                     /\ s \in plan.deps[d] /\ plan.deps[d] \subseteq completed'
                     => d \in Range(ready')
<1> USE DEF IInv
<1> DEFINE s == batch[cursor]
           done == completed \cup {s}
           U == IF stepState[s] = "completed" THEN Unlocked(s, done) ELSE {}
<1>1. /\ plan \in Plans
      /\ phase = "results"
      /\ cursor' = cursor + 1 /\ completed' = done
      /\ stepState[s] \in {"completed", "skipped"}
      /\ observations' = Append(observations, Observation(s))
      /\ UNCHANGED <<plan, phase, batch, taskStatus, stepState, replans, pc, saved, announced>>
  BY DEF ProcessObservation, TypeOK, taskVars, outVars
<1>2. IsFiniteSet(StepsOf(plan))
  BY <1>1, PlanFacts
<1>3. s \in StepsOf(plan) /\ s \notin completed
  <2>1. cursor \in Nat /\ cursor > 0 /\ batch \in Seq(StepsOf(plan)) /\ cursor <= Len(batch)
    BY DEF TypeOK, ProcessObservation
  <2>2. cursor \in DOMAIN batch /\ s \in StepsOf(plan) /\ ~(cursor < cursor)
    BY <2>1, LenProperties, ElementOfSeq
  <2>. QED  BY <1>1, <2>2 DEF ScheduleInv
<1>4. plan.deps[s] \subseteq completed
  BY <1>1, <1>3 DEF ScheduleInv
<1>5. U \subseteq StepsOf(plan) /\ IsFiniteSet(U)
  BY <1>2, FS_Subset DEF Unlocked
<1>6. PICK q \in SetToSeqs(U) : ready' = ready \o q
  BY DEF ProcessObservation
<1>7. \A d \in StepsOf(plan) :
         /\ stepState[s] = "completed"
         /\ s \in plan.deps[d] /\ plan.deps[d] \subseteq done
         => d \in U
  BY DEF Unlocked
<1> HIDE DEF U
<1>8. q \in Seq(StepsOf(plan)) /\ U \subseteq Range(q)
  BY <1>5, <1>6, ArrangementLemma, ArrangementCovers, SeqMonotonic
<1>9. Range(ready) \cup Range(q) \subseteq Range(ready')
  BY <1>6, <1>8, ConcatCovers DEF TypeOK
<1>. QED  BY <1>1, <1>3, <1>4, <1>7, <1>8, <1>9

LEMMA LeftInitially == ASSUME Init PROVE LeftInv
<1> USE DEF Init
<1>1. \A s \in StepsOf(plan) : stepState[s] = "pending"
  BY DEF Pending
<1>2. ASSUME NEW s \in StepsOf(plan)
      PROVE  s \in Range(ready) \/ \E d \in plan.deps[s] : d \notin completed
  BY InitialReadyCovers
<1>. QED  BY <1>1, <1>2 DEF LeftInv

\* Nothing is left over without a reason.
LEMMA LeftStep == ASSUME IInv, LeftInv, OutcomeInv, [Next]_vars PROVE LeftInv'
<1> USE DEF IInv
<1> DEFINE Reached(s) == s \in completed \/ (phase # "loop" /\ s \in Range(batch) /\ pc[s] # "idle")
           Waits(s) == \/ s \in Range(ready)
                       \/ \E d \in plan.deps[s] : d \notin completed \/ stepState[d] = "skipped"
<1>1. CASE StartBatch
  <2>1. announced' = "none"
    BY <1>1, BatchFacts DEF OutcomeInv
  <2>2. ASSUME NEW s \in StepsOf(plan)', stepState'[s] # "pending" PROVE Reached(s)'
    <3>1. CASE s \in Range(batch')
      BY <1>1, <3>1, BatchFacts
    <3>2. CASE s \notin Range(batch')
      BY <1>1, <2>2, <3>2, BatchFacts DEF LeftInv
    <3>. QED  BY <3>1, <3>2
  <2>3. ASSUME NEW s \in StepsOf(plan)', stepState'[s] = "pending" PROVE Waits(s)'
    <3>1. s \notin Range(batch') /\ stepState[s] = "pending"
      BY <1>1, <2>3, BatchFacts
    <3>2. CASE s \in Range(ready)
      BY <1>1, <3>1, <3>2, BatchFacts
    <3>3. CASE \E d \in plan.deps[s] : d \notin completed \/ stepState[d] = "skipped"
      <4>1. PICK d \in plan.deps[s] : d \notin completed \/ stepState[d] = "skipped"
        BY <3>3
      <4>2. stepState[d] = "skipped" => d \notin Range(batch')
        BY <1>1, BatchFacts
      <4>3. d \in completed => d \in StepsOf(plan)
        BY DEF TypeOK
      <4>. QED  BY <1>1, <4>1, <4>2, <4>3, BatchFacts
    <3>. QED  BY <1>1, <3>1, <3>2, <3>3, BatchFacts DEF LeftInv
  <2>. QED  BY <2>1, <2>2, <2>3 DEF LeftInv
<1>2. CASE ProcessObservation
  <2> DEFINE o == batch[cursor]
  <2>1. announced' = "none"
    BY <1>2, ObservationFacts DEF OutcomeInv
  <2>2. ASSUME NEW s \in StepsOf(plan)', stepState'[s] # "pending" PROVE Reached(s)'
    BY <1>2, <2>2, ObservationFacts DEF LeftInv
  <2>3. ASSUME NEW s \in StepsOf(plan)', stepState'[s] = "pending" PROVE Waits(s)'
    <3>1. CASE s \in Range(ready)
      BY <1>2, <3>1, ObservationFacts
    <3>2. CASE /\ s \notin Range(ready)'
               /\ plan.deps[s] \subseteq completed'
      <4>1. s \notin Range(ready) /\ ~(stepState[o] = "completed" /\ o \in plan.deps[s])
        BY <1>2, <3>2, ObservationFacts
      <4>2. PICK d \in plan.deps[s] : d \notin completed \/ stepState[d] = "skipped"
        BY <1>2, <2>3, <4>1, ObservationFacts DEF LeftInv
      <4>3. stepState[d] = "skipped"
        BY <1>2, <3>2, <4>1, <4>2, ObservationFacts
      <4>. QED  BY <1>2, <4>2, <4>3, ObservationFacts
    <3>3. CASE ~(plan.deps[s] \subseteq completed')
      BY <1>2, <3>3, ObservationFacts
    <3>. QED  BY <3>1, <3>2, <3>3
  <2>. QED  BY <2>1, <2>2, <2>3 DEF LeftInv
<1>3. CASE \E t \in Steps : StepTask(t)
  <2>1. PICK t \in Steps : StepTask(t)
    BY <1>3
  <2>2. /\ plan \in Plans /\ StepsOf(plan) \subseteq Steps
        /\ completed \subseteq StepsOf(plan)
    BY PlanFacts DEF TypeOK
  <2>3. announced' = "none"
    BY <2>1, TaskMoves DEF OutcomeInv
  <2>4. ASSUME NEW s \in StepsOf(plan)', stepState'[s] # "pending" PROVE Reached(s)'
    <3>1. CASE s = t
      BY <2>1, <3>1, TaskMoves
    <3>2. CASE s # t
      BY <2>1, <2>2, <2>4, <3>2, TaskMoves DEF LeftInv
    <3>. QED  BY <3>1, <3>2
  <2>5. ASSUME NEW s \in StepsOf(plan)', stepState'[s] = "pending" PROVE Waits(s)'
    <3>1. stepState[s] = "pending"
      BY <2>1, <2>5, TaskMoves
    <3>2. CASE s \in Range(ready)
      BY <2>1, <3>2, TaskMoves
    <3>3. CASE \E d \in plan.deps[s] : d \notin completed \/ stepState[d] = "skipped"
      <4>1. PICK d \in plan.deps[s] : d \notin completed \/ stepState[d] = "skipped"
        BY <3>3
      <4>. QED  BY <2>1, <2>2, <4>1, TaskMoves
    <3>. QED  BY <2>1, <3>1, <3>2, <3>3, TaskMoves DEF LeftInv
  <2>. QED  BY <2>3, <2>4, <2>5 DEF LeftInv
<1>4. CASE Replan
  <2>1. /\ plan' \in Plans /\ stepState' = Pending(plan') /\ completed' = {}
        /\ ready' \in InitialReady(plan') /\ announced' = announced /\ phase = "replan"
    BY <1>4 DEF Replan, outVars
  <2>2. announced' = "none"
    BY <2>1 DEF OutcomeInv
  <2>3. \A s \in StepsOf(plan') : stepState'[s] = "pending"
    BY <2>1 DEF Pending
  <2>4. ASSUME NEW s \in StepsOf(plan') PROVE Waits(s)'
    BY <2>1, InitialReadyCovers
  <2>. QED  BY <2>2, <2>3, <2>4 DEF LeftInv
<1>5. CASE SaveBatch
  <2>1. /\ phase = "results" /\ phase' = "loop" /\ cursor > Len(batch)
        /\ UNCHANGED <<plan, ready, batch, cursor, completed, stepState, pc, announced>>
    BY <1>5 DEF SaveBatch, stateVars, taskVars
  <2>2. \A s \in Range(batch) : s \in completed
    <3>1. cursor \in Nat /\ Len(batch) \in Nat /\ DOMAIN batch = 1..Len(batch)
      BY LenProperties DEF TypeOK
    <3>2. \A i \in DOMAIN batch : i < cursor
      BY <2>1, <3>1
    <3>. QED  BY <2>1, <3>2 DEF ScheduleInv, Range
  <2>. QED  BY <2>1, <2>2 DEF LeftInv
<1>6. CASE LoopEnds
  BY <1>6 DEF LoopEnds, taskVars, LeftInv
<1>7. CASE \/ GatherReturns \/ ProcessFailure \/ ProcessCrash
           \/ SaveFinal \/ ReplanFails \/ MemoryFails
  <2>1. /\ UNCHANGED <<plan, ready, batch, completed, stepState, pc>>
        /\ announced' \in {announced, "failed"}
        /\ phase # "loop" /\ phase' # "loop"
    BY <1>7 DEF GatherReturns, ProcessFailure, ProcessCrash, SaveFinal, ReplanFails,
                MemoryFails, stateVars, taskVars, outVars
  <2>. QED  BY <2>1 DEF LeftInv
<1>8. CASE \/ \E s \in Steps, answer \in {"approved", "rejected"} : ConfirmStep(s, answer)
           \/ UNCHANGED vars
  <2>1. UNCHANGED <<plan, phase, ready, batch, completed, stepState, pc, announced>>
    BY <1>8 DEF ConfirmStep, vars, loopVars, stateVars, taskVars, outVars
  <2>. QED  BY <2>1 DEF LeftInv
<1>. QED
  BY <1>1, <1>2, <1>3, <1>4, <1>5, <1>6, <1>7, <1>8 DEF Next, Loop

LEMMA OutcomeInitially == ASSUME Init PROVE OutcomeInv
  BY DEF Init, OutcomeInv, AnnouncedIsSaved

\* The outcome is announced once, at the end, and saved as announced.
LEMMA OutcomeStep == ASSUME IInv, OutcomeInv, [Next]_vars PROVE OutcomeInv'
<1> USE DEF IInv
<1>1. CASE StartBatch
  <2>1. taskStatus' \in {taskStatus, "paused"}
    BY <1>1 DEF StartBatch
  <2>. QED  BY <1>1, <2>1, BatchFacts DEF OutcomeInv, AnnouncedIsSaved
<1>2. CASE ProcessObservation
  BY <1>2, ObservationFacts DEF OutcomeInv, AnnouncedIsSaved
<1>3. CASE \E t \in Steps : StepTask(t)
  <2>1. PICK t \in Steps : StepTask(t)
    BY <1>3
  <2>. QED  BY <2>1, TaskMoves DEF OutcomeInv, AnnouncedIsSaved
<1>4. CASE ProcessFailure
  <2>1. batch[cursor] \in StepsOf(plan)
    <3>1. cursor \in Nat /\ cursor > 0 /\ batch \in Seq(StepsOf(plan)) /\ cursor <= Len(batch)
      BY <1>4 DEF TypeOK, ProcessFailure
    <3>. QED  BY <3>1, LenProperties, ElementOfSeq
  <2>2. /\ phase = "results" /\ UNCHANGED <<plan, stepState, pc>>
        /\ pc[batch[cursor]] = "returned" /\ stepState[batch[cursor]] = "failed"
    BY <1>4 DEF ProcessFailure, taskVars
  <2>3. \/ /\ phase' = "replan" /\ replans' = replans + 1 /\ UNCHANGED <<taskStatus, announced>>
        \/ taskStatus' = "failed" /\ announced' = "failed" /\ phase' = "final"
    BY <1>4 DEF ProcessFailure
  <2>4. replans + 1 > 0
    BY ConstantsAssumption DEF TypeOK
  <2>. QED  BY <2>1, <2>2, <2>3, <2>4 DEF OutcomeInv, AnnouncedIsSaved
<1>5. CASE SaveFinal
  BY <1>5 DEF SaveFinal, stateVars, OutcomeInv, AnnouncedIsSaved, Snapshot
<1>6. CASE Replan
  BY <1>6 DEF Replan, outVars, OutcomeInv, AnnouncedIsSaved
<1>7. CASE SaveBatch \/ GatherReturns
  BY <1>7 DEF SaveBatch, GatherReturns, stateVars, outVars, OutcomeInv, AnnouncedIsSaved
<1>8. CASE LoopEnds
  BY <1>8 DEF LoopEnds, OutcomeInv, AnnouncedIsSaved
<1>9. CASE ProcessCrash \/ ReplanFails \/ MemoryFails
  <2>1. phase' = "raised"
    BY <1>9 DEF ProcessCrash, ReplanFails, MemoryFails
  <2>. QED  BY <2>1 DEF OutcomeInv, AnnouncedIsSaved
<1>10. CASE \/ \E s \in Steps, answer \in {"approved", "rejected"} : ConfirmStep(s, answer)
            \/ UNCHANGED vars
  <2>1. UNCHANGED <<plan, phase, taskStatus, stepState, replans, observations, pc, saved, announced>>
    BY <1>10 DEF ConfirmStep, vars, loopVars, stateVars, taskVars, outVars
  <2>. QED  BY <2>1 DEF OutcomeInv, AnnouncedIsSaved, Snapshot
<1>. QED
  BY <1>1, <1>2, <1>3, <1>4, <1>5, <1>6, <1>7, <1>8, <1>9, <1>10 DEF Next, Loop

----------------------------------------------------------------------------
LEMMA ObservedInitially == ASSUME Init PROVE ObservedInv
<1>1. observations = << >> /\ DOMAIN observations = {} /\ Observed = {} /\ completed = {}
  BY EmptySeq, LenProperties DEF Init, Observed
<1>2. observations \in Seq([plan : Nat, step : Steps, status : StepStatus])
  BY <1>1, EmptySeq
<1>. QED  BY <1>1, <1>2 DEF ObservedInv, ObservedInOrder

\* Where the observations and the count of replans stay, all depends on what
\* completed and on the plan.
LEMMA ObservedStays ==
    ASSUME IInv, ObservedInv, UNCHANGED <<observations, replans>>,
           UNCHANGED plan \/ Observed = {},
           phase' = "replan" => Observed = {},
           phase' \in {"replan", "raised"} \/ completed' = Observed
    PROVE  ObservedInv'
<1>1. Observed' = Observed
  BY DEF Observed
<1>2. ObservedInOrder'
  <2>1. CASE UNCHANGED plan
    <3>1. observations' = observations /\ replans' = replans /\ plan' = plan
      BY <2>1
    <3>2. ObservedInOrder
      BY DEF ObservedInv
    <3>. QED  BY <3>1, <3>2 DEF ObservedInOrder
  <2>2. CASE Observed = {}
    <3>1. \A i \in DOMAIN observations : observations[i].plan # replans
      BY <2>2 DEF Observed
    <3>. QED  BY <3>1 DEF ObservedInOrder
  <2>. QED  BY <2>1, <2>2
<1>. QED  BY <1>1, <1>2 DEF ObservedInv

\* An observation is recorded after those of all steps it depends on.
LEMMA ObservationStep ==
    ASSUME IInv, ObservedInv, ProcessObservation PROVE ObservedInv'
<1> USE DEF IInv
<1> DEFINE s == batch[cursor]
           Rec == [plan : Nat, step : Steps, status : StepStatus]
           n == Len(observations)
<1>1. /\ UNCHANGED <<plan, replans>> /\ phase = "results" /\ phase' = "results"
      /\ s \in StepsOf(plan) /\ s \notin completed /\ plan.deps[s] \subseteq completed
      /\ completed' = completed \cup {s}
      /\ observations' = Append(observations, Observation(s))
  BY ObservationFacts
<1>2. Observed = completed /\ observations \in Seq(Rec) /\ replans \in Nat
  BY <1>1, ConstantsAssumption DEF ObservedInv, TypeOK
<1>3. Observation(s) \in Rec /\ Observation(s).plan = replans /\ Observation(s).step = s
  BY <1>1, <1>2, PlanFacts DEF Observation, TypeOK
<1> HIDE DEF Rec, s
<1>4. /\ n \in Nat /\ DOMAIN observations = 1..n
      /\ observations' \in Seq(Rec) /\ DOMAIN observations' = 1..(n + 1)
      /\ \A i \in 1..n : observations'[i] = observations[i]
      /\ observations'[n + 1] = Observation(s)
  BY <1>1, <1>2, <1>3, AppendProperties, LenProperties
<1> HIDE DEF n
<1>5. \A i \in 1..(n + 1) : i \in 1..n \/ i = n + 1
  BY <1>4
<1>6. n + 1 \in 1..(n + 1) /\ \A i \in 1..n : i \in 1..(n + 1)
  BY <1>4
<1>7. Observed' = completed'
  <2>1. \A t : t \in Observed' <=> \E i \in 1..(n + 1) :
                  observations'[i].plan = replans /\ t = observations'[i].step
    BY <1>1, <1>4 DEF Observed
  <2>2. \A t : t \in Observed <=> \E i \in 1..n :
                  observations[i].plan = replans /\ t = observations[i].step
    BY <1>4 DEF Observed
  <2>3. \A t : t \in Observed' <=> t \in Observed \/ t = s
    BY <1>3, <1>4, <1>5, <1>6, <2>1, <2>2
  <2>. QED  BY <1>1, <1>2, <2>3
<1>8. \A i \in DOMAIN observations' : observations'[i].plan <= replans'
  BY <1>1, <1>2, <1>3, <1>4, <1>5 DEF ObservedInv
<1>9. ObservedInOrder'
  <2> DEFINE Before(i) == {observations[j].step :
                              j \in {k \in 1 .. i - 1 : observations[k].plan = replans}}
             After(i) == {observations'[j].step :
                              j \in {k \in 1 .. i - 1 : observations'[k].plan = replans'}}
  <2>1. ASSUME NEW i \in 1..n PROVE After(i) = Before(i)
    <3>1. \A k \in 1 .. i - 1 : k \in 1..n
      BY <1>4
    <3>. QED  BY <1>1, <1>4, <3>1
  <2>2. After(n + 1) = Observed
    <3>1. n + 1 - 1 = n
      BY <1>4
    <3>. QED  BY <1>1, <1>4, <3>1 DEF Observed
  <2>3. ASSUME NEW i \in 1..n, observations[i].plan = replans
        PROVE  observations[i].step \notin Before(i) /\ plan.deps[observations[i].step] \subseteq Before(i)
    BY <1>4, <2>3 DEF ObservedInv, ObservedInOrder
  <2> HIDE DEF Before, After
  <2>4. ASSUME NEW i \in 1..(n + 1), observations'[i].plan = replans'
        PROVE  observations'[i].step \notin After(i) /\ plan'.deps[observations'[i].step] \subseteq After(i)
    <3>1. CASE i \in 1..n
      BY <1>1, <1>4, <2>1, <2>3, <2>4, <3>1
    <3>2. CASE i = n + 1
      BY <1>1, <1>2, <1>3, <1>4, <2>2, <3>2
    <3>. QED  BY <1>5, <3>1, <3>2
  <2>. QED  BY <1>4, <2>4 DEF ObservedInOrder, After
<1>. QED  BY <1>1, <1>4, <1>7, <1>8, <1>9 DEF ObservedInv, Rec

\* What is observed is what has completed under the present plan.
LEMMA ObservedStep == ASSUME IInv, ObservedInv, [Next]_vars PROVE ObservedInv'
<1> USE DEF IInv
<1>1. CASE ProcessObservation
  BY <1>1, ObservationStep
<1>2. CASE ProcessFailure
  <2>1. UNCHANGED <<plan, completed, observations>> /\ phase = "results"
    BY <1>2 DEF ProcessFailure
  <2>2. CASE replans < MaxReplans
    <3>1. replans' = replans + 1 /\ phase' = "replan"
      BY <1>2, <2>2 DEF ProcessFailure
    <3>2. \A i \in DOMAIN observations :
             observations[i].plan <= replans' /\ observations[i].plan # replans'
      <4>1. replans \in Nat
        BY ConstantsAssumption DEF TypeOK
      <4>2. ASSUME NEW i \in DOMAIN observations
            PROVE  observations[i].plan \in Nat /\ observations[i].plan <= replans
        <5>1. observations \in Seq([plan : Nat, step : Steps, status : StepStatus])
          BY DEF ObservedInv
        <5>2. observations[i] \in [plan : Nat, step : Steps, status : StepStatus]
          BY <5>1, ElementOfSeq, LenProperties
        <5>. QED  BY <5>2 DEF ObservedInv
      <4>. QED  BY <3>1, <4>1, <4>2
    <3>3. Observed' = {} /\ ObservedInOrder'
      BY <2>1, <3>2 DEF Observed, ObservedInOrder
    <3>. QED  BY <2>1, <3>1, <3>2, <3>3 DEF ObservedInv
  <2>3. CASE ~(replans < MaxReplans)
    <3>1. UNCHANGED replans /\ phase' = "final"
      BY <1>2, <2>3 DEF ProcessFailure
    <3>. QED  BY <2>1, <3>1, ObservedStays DEF ObservedInv
  <2>. QED  BY <2>2, <2>3
<1>3. CASE Replan
  <2>1. /\ phase = "replan" /\ phase' = "loop" /\ completed' = {}
        /\ UNCHANGED <<replans, observations>>
    BY <1>3 DEF Replan
  <2>. QED  BY <2>1, ObservedStays DEF ObservedInv
<1>4. CASE ProcessCrash \/ ReplanFails \/ MemoryFails
  <2>1. phase' = "raised" /\ UNCHANGED <<plan, replans, observations>>
    BY <1>4 DEF ProcessCrash, ReplanFails, MemoryFails, stateVars
  <2>. QED  BY <2>1, ObservedStays
<1>5. CASE StartBatch \/ GatherReturns \/ SaveBatch \/ LoopEnds \/ SaveFinal
  <2>1. /\ phase \notin {"replan", "raised"} /\ phase' \notin {"replan", "raised"}
        /\ UNCHANGED <<plan, replans, observations, completed>>
    BY <1>5 DEF StartBatch, GatherReturns, SaveBatch, LoopEnds, SaveFinal, stateVars
  <2>. QED  BY <2>1, ObservedStays DEF ObservedInv
<1>6. CASE \/ \E t \in Steps : StepTask(t)
           \/ \E t \in Steps, answer \in {"approved", "rejected"} : ConfirmStep(t, answer)
           \/ UNCHANGED vars
  <2>1. UNCHANGED <<plan, phase, completed, replans, observations>>
    BY <1>6, TaskMoves DEF ConfirmStep, vars, loopVars, stateVars
  <2>. QED  BY <2>1, ObservedStays DEF ObservedInv
<1>. QED
  BY <1>1, <1>2, <1>3, <1>4, <1>5, <1>6 DEF Next, Loop

\* What is left over, announced, saved and observed fits what has run.
THEOREM HistoryInvariance == Spec => []HistoryInv
<1>1. Init => HistoryInv
  BY LeftInitially, OutcomeInitially, ObservedInitially DEF HistoryInv
<1>2. IInv /\ HistoryInv /\ [Next]_vars => HistoryInv'
  BY LeftStep, OutcomeStep, ObservedStep DEF HistoryInv
<1>. QED  BY <1>1, <1>2, Invariance, PTL DEF Spec

----------------------------------------------------------------------------
\* Type correctness for any plans and limits: attempts and replans stay
\* within max_retries_per_step and max_replans.
THEOREM TypeCorrect == Spec => []TypeOK
<1>1. IInv => TypeOK
  BY DEF IInv
<1>. QED  BY <1>1, Invariance, PTL

\* Steps start in dependency order, whatever the plan: a plan whose
\* dependencies are cyclic or unknown leaves steps pending, it never starts
\* them early.
THEOREM StartsInOrder == Spec => []TopologicalOrder
<1>1. IInv => TopologicalOrder
  <2>1. SUFFICES ASSUME IInv, NEW s \in StepsOf(plan), stepState[s] # "pending",
                        NEW d \in plan.deps[s]
                 PROVE  d \in StepsOf(plan) /\ stepState[d] \in {"completed", "skipped"}
    BY DEF TopologicalOrder
  <2>2. d \in completed
    BY <2>1 DEF IInv, ScheduleInv
  <2>3. completed \subseteq StepsOf(plan)
    BY <2>1 DEF IInv, TypeOK
  <2>4. \A t \in completed : stepState[t] \in {"completed", "skipped"}
    BY <2>1 DEF IInv, ScheduleInv
  <2>. QED  BY <2>2, <2>3, <2>4
<1>. QED  BY <1>1, Invariance, PTL

\* No tool call of a step that requires confirmation without an approval
\* given while it waited.
THEOREM ApprovedBeforeRun == Spec => []FreshApproval
<1>1. IInv => FreshApproval
  BY DEF IInv, ConfirmInv
<1>. QED  BY <1>1, Invariance, PTL

\* No step task survives its batch.
THEOREM BatchesAreClosed == Spec => []NoOrphans
<1>1. IInv => NoOrphans
  BY DEF IInv, TaskInv, NoOrphans
<1>. QED  BY <1>1, Invariance, PTL

\* The task status is PAUSED only while a step waits.
THEOREM PauseIsJustified == Spec => []PausedMeansWaiting
<1>1. IInv => PausedMeansWaiting
  BY DEF IInv, ConfirmInv
<1>. QED  BY <1>1, Invariance, PTL

\* A step runs at most once under one plan.
THEOREM StepsRunOnce == Spec => RunsOnce
<1> DEFINE Once ==
      phase # "replan" =>
        \A s \in StepsOf(plan) :
            stepState[s] \in {"completed", "failed", "skipped"} =>
                stepState'[s] = stepState[s]
<1>1. IInv /\ [Next]_vars => [Once]_vars
  <2> SUFFICES ASSUME IInv, Next, phase # "replan", NEW s \in StepsOf(plan),
                      stepState[s] \in {"completed", "failed", "skipped"}
               PROVE  stepState'[s] = stepState[s]
    OBVIOUS
  <2> USE DEF IInv
  <2>1. /\ s \in Steps /\ stepState \in [StepsOf(plan) -> StepStatus]
        /\ pc[s] \notin {"confirm", "call", "backoff"}
    BY PlanFacts DEF TypeOK, TaskInv
  <2>2. CASE StartBatch
    <3>1. BatchSize \in 0..Len(ready)
      BY ConstantsAssumption, LenProperties DEF TypeOK, BatchSize
    <3>2. \A i \in DOMAIN batch' : i \in DOMAIN ready /\ batch'[i] = ready[i]
      BY <2>2, <3>1, SplitLemma DEF TypeOK, ScheduleInv, StartBatch
    <3>3. s \notin Range(batch')
      BY <3>2 DEF ScheduleInv, Range
    <3>. QED  BY <2>2, <3>3 DEF StartBatch
  <2>3. CASE \E t \in Steps : StepTask(t)
    <3>1. PICK t \in Steps : StepTask(t)
      BY <2>3
    <3>2. t # s
      BY <2>1, <3>1 DEF StepTask, ConfirmWakes, ConfirmTimesOut, CallSucceeds,
                        CallFails, BackoffEnds, CallCrashes
    <3>. QED
      BY <2>1, <3>1, <3>2
         DEF StepTask, ConfirmWakes, ConfirmTimesOut, CallSucceeds, CallFails,
             BackoffEnds, CallCrashes, SkipStep, stateVars
  <2>4. CASE \E t \in Steps, answer \in {"approved", "rejected"} : ConfirmStep(t, answer)
    BY <2>4 DEF ConfirmStep, stateVars
  <2>5. CASE Loop /\ ~StartBatch
    BY <2>5 DEF Loop, GatherReturns, ProcessObservation, ProcessFailure,
                ProcessCrash, SaveBatch, LoopEnds, SaveFinal, Replan,
                ReplanFails, MemoryFails, stateVars
  <2>. QED  BY <2>2, <2>3, <2>4, <2>5 DEF Next, Loop
<1>. QED  BY <1>1, Invariance, PTL DEF Spec, RunsOnce
\* A task announced as completed explains every step it left.
THEOREM LeftStepsExplained == Spec => []CompletedExplained
<1>1. IInv /\ HistoryInv => CompletedExplained
  <2> SUFFICES ASSUME IInv, LeftInv, announced = "completed", NEW s \in StepsOf(plan)
               PROVE  \/ stepState[s] \in {"completed", "skipped"}
                      \/ /\ stepState[s] = "pending"
                         /\ \E d \in plan.deps[s] :
                                \/ d \notin StepsOf(plan)
                                \/ stepState[d] \in {"pending", "skipped"}
    BY DEF CompletedExplained, HistoryInv
  <2>1. \A d \in StepsOf(plan) : stepState[d] # "pending" => d \in completed
    BY DEF LeftInv
  <2>2. \A d \in completed : stepState[d] \in {"completed", "skipped"}
    BY DEF IInv, ScheduleInv
  <2>3. Range(ready) = {}
    BY EmptySeq, LenProperties DEF LeftInv, Range
  <2>4. stepState[s] = "pending" =>
           \E d \in plan.deps[s] : d \notin completed \/ stepState[d] = "skipped"
    BY <2>3 DEF LeftInv
  <2>. QED  BY <2>1, <2>2, <2>4
<1>. QED  BY <1>1, Invariance, HistoryInvariance, PTL

\* The observations under a plan are in an order in which its steps could have
\* run, whatever the order of the results.
THEOREM ObservationsInOrder == Spec => []ObservedInOrder
<1>1. HistoryInv => ObservedInOrder
  BY DEF HistoryInv, ObservedInv
<1>. QED  BY <1>1, HistoryInvariance, PTL

\* What TASK_COMPLETE announced is what Redis holds once execute() returned.
THEOREM OutcomeIsSaved == Spec => []AnnouncedIsSaved
<1>1. HistoryInv => AnnouncedIsSaved
  BY DEF HistoryInv, OutcomeInv
<1>. QED  BY <1>1, HistoryInvariance, PTL

----------------------------------------------------------------------------
\* The refinement of TaskLifecycle.

Seen == [s \in StepsOf(plan) |-> LifecycleState(s)]

Outcome ==
    IF phase = "raised" THEN "aborted"
    ELSE IF taskStatus \in {"completed", "failed"} THEN taskStatus
    ELSE "open"

\* How the states that the lifecycle sees go with those of the executor.
LEMMA SeenStates ==
    ASSUME IInv, HistoryInv, NEW s \in StepsOf(plan)
    PROVE  /\ LifecycleState(s) = "active" => phase = "gather"
           /\ phase = "loop" =>
                 LifecycleState(s) = stepState[s] /\ stepState[s] \in {"pending", "completed", "skipped"}
           /\ stepState[s] = "failed" => LifecycleState(s) = "failed"
           /\ s \in completed => LifecycleState(s) = stepState[s]
           /\ phase = "loop" /\ stepState[s] # "pending" => s \in completed
<1> USE DEF IInv
<1>1. s \in Steps /\ stepState[s] \in StepStatus
  BY PlanFacts DEF TypeOK
<1>2. pc[s] \in {"idle", "confirm", "call", "backoff", "returned", "crashed"}
  BY <1>1 DEF TypeOK
<1>3. s \in completed => stepState[s] \in {"completed", "skipped"} /\ pc[s] # "crashed"
  BY DEF ScheduleInv, TaskInv
<1>4. stepState[s] # "pending" => s \in completed \/ (phase # "loop" /\ pc[s] # "idle")
  BY DEF HistoryInv, LeftInv
<1>5. pc[s] \in {"call", "backoff", "crashed"} => stepState[s] = "running"
  BY DEF TaskInv
<1>6. LifecycleState(s) = "active" => Active(s)
  BY <1>2, <1>3, <1>4, <1>5 DEF LifecycleState, Active, TaskInv, StepStatus
<1>7. LifecycleState(s) = "active" => phase = "gather"
  BY <1>1, <1>6 DEF TaskInv
<1>. QED  BY <1>1, <1>2, <1>3, <1>4, <1>5, <1>7 DEF LifecycleState

LEMMA LifecycleStepsOf == ASSUME NEW p PROVE Lifecycle!StepsOf(p) = StepsOf(p)
  BY DEF Lifecycle!StepsOf, StepsOf, Lifecycle!Range, Range

LEMMA QuietOutsideGather ==
    ASSUME IInv, HistoryInv, phase # "gather" PROVE Lifecycle!Quiet
  BY SeenStates, LifecycleStepsOf DEF Lifecycle!Quiet, Lifecycle!In

LEMMA StartsARound == ASSUME IInv, HistoryInv, StartBatch PROVE Lifecycle!Start
<1> USE DEF IInv
<1> DEFINE round == Range(batch')
<1>1. /\ plan \in Plans /\ StepsOf(plan) \subseteq Steps
      /\ completed \subseteq StepsOf(plan)
      /\ UNCHANGED <<plan, completed, replans>> /\ phase = "loop" /\ phase' = "gather"
  BY PlanFacts, BatchFacts DEF TypeOK
<1>2. /\ round \subseteq StepsOf(plan)
      /\ \A s \in round : stepState[s] = "pending" /\ plan.deps[s] \subseteq completed
  BY BatchFacts
<1>3. /\ batch' \in Seq(StepsOf(plan)) /\ Len(batch') \in 1..MaxConcurrent
      /\ DOMAIN batch' = 1..Len(batch')
  <2>1. ready \in Seq(StepsOf(plan)) /\ ready # << >> /\ IsInjective(ready)
    BY DEF StartBatch, TypeOK, ScheduleInv
  <2>2. Len(ready) \in Nat /\ Len(ready) > 0
    BY <2>1, EmptySeq, LenProperties
  <2>3. BatchSize \in 1..Len(ready) /\ BatchSize \in 1..MaxConcurrent
    BY <2>2, ConstantsAssumption DEF BatchSize
  <2>4. batch' = SubSeq(ready, 1, BatchSize)
    BY DEF StartBatch
  <2>5. \A i \in 1..BatchSize : ready[i] \in StepsOf(plan)
    BY <2>1, <2>2, <2>3, ElementOfSeq
  <2>6. Len(batch') = BatchSize
    BY <2>1, <2>2, <2>3, <2>4, <2>5, SubSeqProperties
  <2>7. batch' \in Seq(StepsOf(plan))
    BY <2>1, <2>2, <2>3, <2>4, <2>5, SubSeqProperties
  <2>. QED  BY <2>3, <2>6, <2>7, LenProperties
<1>4. round # {} /\ \E f \in [1..MaxConcurrent -> round] : Range(f) = round
  <2> DEFINE f == [i \in 1..MaxConcurrent |->
                      IF i <= Len(batch') THEN batch'[i] ELSE batch'[1]]
  <2>1. 1 \in DOMAIN batch' /\ \A i \in DOMAIN batch' : batch'[i] \in round
    BY <1>3 DEF Range
  <2>2. \A i \in 1..MaxConcurrent : i <= Len(batch') => i \in DOMAIN batch'
    BY <1>3, ConstantsAssumption
  <2>3. f \in [1..MaxConcurrent -> round]
    BY <2>1, <2>2
  <2>4. \A i \in DOMAIN batch' : i \in 1..MaxConcurrent /\ i <= Len(batch')
    BY <1>3, ConstantsAssumption
  <2>5. \A i \in DOMAIN batch' : f[i] = batch'[i]
    BY <2>4
  <2>6. round \subseteq Range(f)
    BY <2>4, <2>5 DEF Range
  <2>7. Range(f) \subseteq round
    BY <2>3 DEF Range
  <2>8. Range(f) = round /\ round # {}
    BY <2>1, <2>6, <2>7
  <2> HIDE DEF f, round
  <2>. QED  BY <2>3, <2>8
<1> HIDE DEF round
<1>5. \A s \in StepsOf(plan) :
         Seen[s] = stepState[s] /\ Seen[s] \in {"pending", "completed", "skipped"}
  BY <1>1, SeenStates DEF Seen
<1>6. \A s \in completed : s \in StepsOf(plan) /\ Seen[s] \in {"completed", "skipped"}
  BY <1>1, <1>5 DEF ScheduleInv
<1>7. Seen' = [s \in StepsOf(plan) |-> IF s \in round THEN "active" ELSE Seen[s]]
  <2>1. ASSUME NEW s \in round PROVE LifecycleState(s)' = "active"
    <3>1. stepState'[s] \in {"running", "waiting_confirm"}
      BY BatchFacts DEF round
    <3>2. s \in Steps
      BY <1>1, <1>2
    <3>3. pc'[s] # "crashed"
      BY <3>2 DEF StartBatch
    <3>. QED  BY <3>1, <3>3 DEF LifecycleState
  <2>2. ASSUME NEW s \in StepsOf(plan), s \notin round PROVE LifecycleState(s)' = Seen[s]
    <3>1. stepState'[s] = stepState[s]
      BY <2>2, BatchFacts DEF round
    <3>2. s \in Steps
      BY <1>1
    <3>3. pc'[s] = "idle"
      BY <2>2, <3>2 DEF StartBatch, round
    <3>. QED  BY <1>5, <3>1, <3>3 DEF LifecycleState
  <2>. QED  BY <1>1, <1>2, <2>1, <2>2 DEF Seen
<1>8. Outcome = "open" /\ Outcome' = "open"
  <2>1. taskStatus \in {"running", "paused"} /\ taskStatus' \in {taskStatus, "paused"}
    BY <1>1 DEF HistoryInv, OutcomeInv, StartBatch
  <2>. QED  BY <1>1, <2>1 DEF Outcome
<1>9. Lifecycle!Quiet
  BY <1>1, QuietOutsideGather
<1>10. Lifecycle!In({"failed", "lost"}) = {}
  BY <1>5, LifecycleStepsOf DEF Lifecycle!In, Seen
<1>11. round \subseteq Lifecycle!Startable
  <2> SUFFICES ASSUME NEW s \in round PROVE s \in Lifecycle!Startable
    OBVIOUS
  <2>1. s \in Lifecycle!In({"pending"})
    BY <1>2, <1>5, LifecycleStepsOf DEF Lifecycle!In, Seen
  <2>2. completed \subseteq Lifecycle!In({"completed", "skipped"})
    BY <1>6, LifecycleStepsOf DEF Lifecycle!In, Seen
  <2>. QED  BY <1>2, <2>1, <2>2 DEF Lifecycle!Startable
<1>12. \E f \in [1..MaxConcurrent -> round] : Lifecycle!Range(f) = round
  BY <1>4 DEF Range, Lifecycle!Range
<1>13. round \in (SUBSET Lifecycle!Startable) \ {{}}
  BY <1>4, <1>11
<1>14. \E r \in (SUBSET Lifecycle!Startable) \ {{}} :
          /\ \E f \in [1..MaxConcurrent -> r] : Lifecycle!Range(f) = r
          /\ Seen' = [s \in StepsOf(plan) |-> IF s \in r THEN "active" ELSE Seen[s]]
  BY <1>7, <1>12, <1>13
<1>. QED
  BY <1>1, <1>8, <1>9, <1>10, <1>14, LifecycleStepsOf DEF Lifecycle!Start, Seen, Outcome
\* What the task of a step does is the end of the step, or nothing to see.
LEMMA TaskEnds ==
    ASSUME IInv, HistoryInv, NEW t \in Steps, StepTask(t)
    PROVE  \/ \E result \in {"completed", "failed", "skipped", "lost"} : Lifecycle!End(t, result)
           \/ UNCHANGED <<plan, Seen, replans, Outcome>>
<1> USE DEF IInv
<1>1. /\ plan \in Plans /\ StepsOf(plan) \subseteq Steps
      /\ t \in StepsOf(plan) /\ phase = "gather" /\ UNCHANGED <<plan, phase, replans>>
      /\ stepState[t] \in {"running", "waiting_confirm"} /\ pc[t] # "crashed"
  BY PlanFacts, TaskMoves DEF TypeOK
<1>2. \A s \in StepsOf(plan) : s # t => LifecycleState(s)' = LifecycleState(s)
  BY <1>1, TaskMoves DEF LifecycleState
<1>3. LifecycleState(t) = "active"
  BY <1>1 DEF LifecycleState
<1>4. LifecycleState(t)' \in {"active", "completed", "failed", "skipped", "lost"}
  BY TaskMoves DEF LifecycleState
<1>5. Outcome = "open" /\ Outcome' = "open"
  <2>1. taskStatus \in {"running", "paused"} /\ taskStatus' \in {taskStatus, "running"}
    BY <1>1, TaskMoves DEF HistoryInv, OutcomeInv
  <2>. QED  BY <1>1, <2>1 DEF Outcome
<1>6. Seen' = [Seen EXCEPT ![t] = LifecycleState(t)']
  BY <1>1, <1>2 DEF Seen
<1>7. t \in Lifecycle!In({"active"})
  BY <1>1, <1>3, LifecycleStepsOf DEF Lifecycle!In
<1>8. CASE LifecycleState(t)' = "active"
  BY <1>1, <1>2, <1>3, <1>5, <1>8 DEF Seen
<1>9. CASE LifecycleState(t)' \in {"completed", "failed", "skipped", "lost"}
  <2>1. PICK result \in {"completed", "failed", "skipped", "lost"} : result = LifecycleState(t)'
    BY <1>9
  <2>2. Lifecycle!End(t, result)
    BY <1>1, <1>5, <1>6, <1>7, <2>1 DEF Lifecycle!End, Seen, Outcome
  <2>. QED  BY <2>2
<1>. QED  BY <1>4, <1>8, <1>9

\* A failure leads to a new plan or, past the limit, to a failed task.
LEMMA FailureMaps ==
    ASSUME IInv, HistoryInv, ProcessFailure PROVE Lifecycle!AskReplan \/ Lifecycle!Fail
<1> USE DEF IInv
<1>1. batch[cursor] \in StepsOf(plan) /\ stepState[batch[cursor]] = "failed"
  <2>1. cursor \in Nat /\ cursor > 0 /\ batch \in Seq(StepsOf(plan)) /\ cursor <= Len(batch)
    BY DEF TypeOK, ProcessFailure
  <2>. QED  BY <2>1, LenProperties, ElementOfSeq DEF ProcessFailure
<1>2. phase = "results" /\ UNCHANGED <<plan, stepState, pc>>
  BY DEF ProcessFailure, taskVars
<1>3. Seen' = Seen
  BY <1>2 DEF Seen, LifecycleState
<1>4. Lifecycle!Quiet
  BY <1>2, QuietOutsideGather
<1>5. Lifecycle!In({"failed"}) # {}
  BY <1>1, SeenStates, LifecycleStepsOf DEF Lifecycle!In
<1>6. taskStatus \in {"running", "paused"}
  BY <1>2 DEF HistoryInv, OutcomeInv
<1>7. CASE replans < MaxReplans
  <2>1. replans' = replans + 1 /\ phase' = "replan" /\ taskStatus' = taskStatus
    BY <1>7 DEF ProcessFailure
  <2>2. Outcome = "open" /\ Outcome' = "open"
    BY <1>2, <1>6, <2>1 DEF Outcome
  <2>. QED  BY <1>2, <1>3, <1>4, <1>5, <1>7, <2>1, <2>2 DEF Lifecycle!AskReplan, Seen, Outcome
<1>8. CASE ~(replans < MaxReplans)
  <2>1. taskStatus' = "failed" /\ phase' = "final" /\ replans' = replans
    BY <1>8 DEF ProcessFailure
  <2>2. Outcome = "open" /\ Outcome' = "failed"
    BY <1>2, <1>6, <2>1 DEF Outcome
  <2>3. replans = MaxReplans
    BY <1>8, ConstantsAssumption DEF TypeOK
  <2>. QED  BY <1>2, <1>3, <1>4, <1>5, <2>1, <2>2, <2>3 DEF Lifecycle!Fail, Seen, Outcome
<1>. QED  BY <1>7, <1>8

\* The loop that breaks has left nothing that could be started.
LEMMA CompletionMaps == ASSUME IInv, HistoryInv, LoopEnds PROVE Lifecycle!Complete
<1> USE DEF IInv
<1>1. /\ phase = "loop" /\ phase' = "final" /\ ready = << >> /\ taskStatus' = "completed"
      /\ UNCHANGED <<plan, stepState, pc, replans>>
  BY DEF LoopEnds, taskVars
<1>2. Seen' = Seen
  BY <1>1 DEF Seen, LifecycleState
<1>3. Lifecycle!Quiet
  BY <1>1, QuietOutsideGather
<1>4. Lifecycle!In({"failed", "lost"}) = {}
  <2>1. \A s \in StepsOf(plan) : LifecycleState(s) \in {"pending", "completed", "skipped"}
    BY <1>1, SeenStates
  <2>. QED  BY <2>1, LifecycleStepsOf DEF Lifecycle!In
<1>5. Outcome = "open" /\ Outcome' = "completed"
  <2>1. taskStatus \in {"running", "paused"}
    BY <1>1 DEF HistoryInv, OutcomeInv
  <2>. QED  BY <1>1, <2>1 DEF Outcome
<1>6. ASSUME NEW s \in Lifecycle!Startable
      PROVE  \E d \in plan.deps[s] : Seen[d] = "skipped"
  <2>1. s \in StepsOf(plan) /\ LifecycleState(s) = "pending"
    BY LifecycleStepsOf DEF Lifecycle!Startable, Lifecycle!In
  <2>2. \A d \in plan.deps[s] :
           d \in StepsOf(plan) /\ LifecycleState(d) \in {"completed", "skipped"}
    BY LifecycleStepsOf DEF Lifecycle!Startable, Lifecycle!In
  <2>3. stepState[s] = "pending" /\ s \notin Range(ready)
    <3>1. Range(ready) = {}
      BY <1>1, EmptySeq, LenProperties DEF Range
    <3>. QED  BY <1>1, <2>1, <3>1, SeenStates
  <2>4. PICK d \in plan.deps[s] : d \notin completed \/ stepState[d] = "skipped"
    BY <2>1, <2>3 DEF HistoryInv, LeftInv
  <2>5. LifecycleState(d) = stepState[d] /\ (stepState[d] # "pending" => d \in completed)
    BY <1>1, <2>2, SeenStates
  <2>6. LifecycleState(d) = "skipped"
    BY <2>2, <2>4, <2>5
  <2>. QED  BY <2>2, <2>6 DEF Seen
<1>. QED
  BY <1>1, <1>2, <1>3, <1>4, <1>5, <1>6 DEF Lifecycle!Complete, Seen, Outcome

LEMMA ReplanMaps == ASSUME IInv, HistoryInv, Replan PROVE Lifecycle!NewPlan
<1> USE DEF IInv
<1>1. /\ phase = "replan" /\ phase' = "loop" /\ plan' \in Plans
      /\ stepState' = Pending(plan') /\ pc' = [s \in Steps |-> "idle"]
      /\ UNCHANGED <<taskStatus, replans>>
  BY DEF Replan
<1>2. Seen' = [s \in StepsOf(plan') |-> "pending"]
  <2>1. \A s \in StepsOf(plan') : s \in Steps /\ stepState'[s] = "pending" /\ pc'[s] = "idle"
    BY <1>1, PlanFacts DEF Pending
  <2>2. \A s \in StepsOf(plan') : LifecycleState(s)' = "pending"
    BY <2>1 DEF LifecycleState
  <2>. QED  BY <2>2 DEF Seen
<1>3. Lifecycle!Quiet
  BY <1>1, QuietOutsideGather
<1>4. replans > 0 /\ Lifecycle!In({"failed"}) # {}
  <2>1. replans > 0 /\ \E s \in StepsOf(plan) : stepState[s] = "failed"
    BY <1>1 DEF HistoryInv, OutcomeInv
  <2>. QED  BY <2>1, SeenStates, LifecycleStepsOf DEF Lifecycle!In
<1>5. Outcome = "open" /\ Outcome' = "open"
  <2>1. taskStatus \in {"running", "paused"}
    BY <1>1 DEF HistoryInv, OutcomeInv
  <2>. QED  BY <1>1, <2>1 DEF Outcome
<1>. QED
  BY <1>1, <1>2, <1>3, <1>4, <1>5, LifecycleStepsOf
     DEF Lifecycle!NewPlan, Lifecycle!AllPending, Seen, Outcome

\* An exception leaves nothing at work.
LEMMA AbortMaps ==
    ASSUME IInv, HistoryInv, ProcessCrash \/ ReplanFails \/ MemoryFails PROVE Lifecycle!Abort
<1>1. /\ phase \notin {"gather", "raised"} /\ phase' = "raised"
      /\ UNCHANGED <<plan, stepState, pc, replans>>
  BY DEF ProcessCrash, ReplanFails, MemoryFails, stateVars, taskVars
<1>2. Seen' = Seen
  BY <1>1 DEF Seen, LifecycleState
<1>3. Lifecycle!Quiet
  BY <1>1, QuietOutsideGather
<1>4. Outcome # "aborted" /\ Outcome' = "aborted"
  BY <1>1 DEF Outcome
<1>. QED  BY <1>1, <1>2, <1>3, <1>4 DEF Lifecycle!Abort, Seen, Outcome

\* The executor implements the lifecycle: every step of it is one of the
\* lifecycle or is not to be seen there.
THEOREM Refinement == Spec => ImplementsLifecycle
<1>1. Init => Lifecycle!Init
  <2> SUFFICES ASSUME Init PROVE Lifecycle!Init
    OBVIOUS
  <2>1. /\ plan \in Plans /\ replans = 0 /\ phase = "loop" /\ taskStatus = "running"
        /\ stepState = Pending(plan) /\ pc = [s \in Steps |-> "idle"]
    BY DEF Init
  <2>2. Seen = [s \in StepsOf(plan) |-> "pending"]
    <3>1. \A s \in StepsOf(plan) : s \in Steps /\ stepState[s] = "pending" /\ pc[s] = "idle"
      BY <2>1, PlanFacts DEF Pending
    <3>2. \A s \in StepsOf(plan) : LifecycleState(s) = "pending"
      BY <3>1 DEF LifecycleState
    <3>. QED  BY <3>2 DEF Seen
  <2>3. Outcome = "open"
    BY <2>1 DEF Outcome
  <2>. QED
    BY <2>1, <2>2, <2>3, LifecycleStepsOf
       DEF Lifecycle!Init, Lifecycle!AllPending, Seen, Outcome
<1>2. IInv /\ HistoryInv /\ [Next]_vars => [Lifecycle!Next]_(Lifecycle!vars)
  <2> SUFFICES ASSUME IInv, HistoryInv, [Next]_vars
               PROVE  Lifecycle!Next \/ UNCHANGED Lifecycle!vars
    OBVIOUS
  <2>1. UNCHANGED <<plan, Seen, replans, Outcome>> => UNCHANGED Lifecycle!vars
    BY DEF Lifecycle!vars, Seen, Outcome
  <2>2. CASE StartBatch
    BY <2>2, StartsARound DEF Lifecycle!Next
  <2>3. CASE \E t \in Steps : StepTask(t)
    BY <2>1, <2>3, TaskEnds DEF Lifecycle!Next
  <2>4. CASE ProcessFailure
    BY <2>4, FailureMaps DEF Lifecycle!Next
  <2>5. CASE LoopEnds
    BY <2>5, CompletionMaps DEF Lifecycle!Next
  <2>6. CASE Replan
    BY <2>6, ReplanMaps DEF Lifecycle!Next
  <2>7. CASE ProcessCrash \/ ReplanFails \/ MemoryFails
    BY <2>7, AbortMaps DEF Lifecycle!Next
  <2>8. CASE \/ GatherReturns \/ ProcessObservation \/ SaveBatch \/ SaveFinal
             \/ \E s \in Steps, answer \in {"approved", "rejected"} : ConfirmStep(s, answer)
             \/ UNCHANGED vars
    <3>1. /\ UNCHANGED <<plan, stepState, pc, replans, taskStatus>>
          /\ phase = "raised" <=> phase' = "raised"
      BY <2>8 DEF GatherReturns, ProcessObservation, SaveBatch, SaveFinal, ConfirmStep,
                  vars, loopVars, stateVars, taskVars
    <3>2. UNCHANGED <<plan, Seen, replans, Outcome>>
      BY <3>1 DEF Seen, LifecycleState, Outcome
    <3>. QED  BY <2>1, <3>2
  <2>. QED
    BY <2>2, <2>3, <2>4, <2>5, <2>6, <2>7, <2>8 DEF Next, Loop
<1>. QED
  BY <1>1, <1>2, Invariance, HistoryInvariance, PTL DEF Spec, ImplementsLifecycle, Lifecycle!Spec

----------------------------------------------------------------------------
\* What the API sees of the executor.

SavedState == IF saved = NotSaved THEN "other" ELSE saved.task

Waiting == \E s \in Steps : pc[s] = "confirm"

\* Nothing waits for the user outside gather.
LEMMA NobodyWaits == ASSUME IInv, phase # "gather" PROVE ~Waiting
BY DEF IInv, TaskInv, Active, Waiting

LEMMA RunStates ==
    /\ phase = "done" => RunState = "closing"
    /\ phase = "raised" => RunState = "raised"
    /\ phase \notin {"done", "raised"} => RunState = IF Waiting THEN "waiting" ELSE "running"
BY DEF RunState, Waiting

\* A phase of the loop in which no task is at work, its saves among them.
LEMMA LoopIsARun ==
    ASSUME IInv, HistoryInv,
           \/ GatherReturns \/ ProcessObservation \/ ProcessFailure \/ ProcessCrash \/ SaveBatch
           \/ LoopEnds \/ SaveFinal \/ Replan \/ ReplanFails \/ MemoryFails
    PROVE  Run!Next \/ UNCHANGED Run!vars
<1>1. ~Waiting
  <2>1. CASE GatherReturns
    <3>1. \A i \in DOMAIN batch : pc[batch[i]] # "confirm"
      BY <2>1 DEF GatherReturns, Ended
    <3>2. \A s \in Steps : pc[s] = "confirm" => \E i \in DOMAIN batch : s = batch[i]
      BY DEF IInv, TaskInv, Active, Range
    <3>. QED  BY <3>1, <3>2 DEF Waiting
  <2>2. CASE ~GatherReturns
    BY <2>2, NobodyWaits DEF ProcessObservation, ProcessFailure, ProcessCrash, SaveBatch, LoopEnds,
                             SaveFinal, Replan, ReplanFails, MemoryFails
  <2>. QED  BY <2>1, <2>2
<1>2. ~Waiting'
  <2>1. CASE Replan
    BY <2>1 DEF Replan, Waiting
  <2>2. CASE ~Replan
    <3>1. pc' = pc
      BY <2>2 DEF GatherReturns, ProcessObservation, ProcessFailure, ProcessCrash, SaveBatch, LoopEnds,
                  SaveFinal, ReplanFails, MemoryFails, taskVars
    <3>. QED  BY <1>1, <3>1 DEF Waiting
  <2>. QED  BY <2>1, <2>2
<1>3. phase \notin {"done", "raised"} /\ RunState = "running"
  <2>1. phase \notin {"done", "raised"}
    BY DEF GatherReturns, ProcessObservation, ProcessFailure, ProcessCrash, SaveBatch, LoopEnds,
           SaveFinal, Replan, ReplanFails, MemoryFails
  <2>. QED  BY <1>1, <2>1, RunStates
<1>4. /\ phase' = "done" => RunState' = "closing"
      /\ phase' = "raised" => RunState' = "raised"
      /\ phase' \notin {"done", "raised"} => RunState' = "running"
  BY <1>2 DEF RunState, Waiting
<1>5. saved' = Snapshot => SavedState' = taskStatus
  <2>1. Snapshot.task = taskStatus /\ NotSaved.task = "none" /\ taskStatus # "none"
    BY DEF Snapshot, NotSaved, IInv, TypeOK, TaskStatus
  <2>. QED  BY <2>1 DEF SavedState
<1>6. saved' = saved => SavedState' = SavedState
  BY DEF SavedState
<1>7. CASE SaveBatch
  <2>1. phase = "results" /\ phase' = "loop" /\ saved' = Snapshot
    BY <1>7 DEF SaveBatch
  <2>2. taskStatus = "running"
    BY <1>1, <2>1 DEF HistoryInv, OutcomeInv, IInv, ConfirmInv, PausedMeansWaiting, Waiting
  <2>. QED
    BY <1>3, <1>4, <1>5, <2>1, <2>2 DEF Run!Next, Run!SaveProgress, Run!Goes, SavedState
<1>8. CASE SaveFinal
  <2>1. phase = "final" /\ phase' = "done" /\ saved' = Snapshot
    BY <1>8 DEF SaveFinal
  <2>2. taskStatus \in {"completed", "failed"}
    BY <2>1 DEF HistoryInv, OutcomeInv, IInv, TypeOK
  <2>. QED
    BY <1>3, <1>4, <1>5, <2>1, <2>2
       DEF Run!Next, Run!SaveOutcome, Run!Goes, Run!FinalStatus, SavedState
<1>9. CASE ProcessCrash \/ ReplanFails \/ MemoryFails
  <2>1. phase' = "raised" /\ saved' = saved
    BY <1>9 DEF ProcessCrash, ReplanFails, MemoryFails, outVars
  <2>. QED
    BY <1>3, <1>4, <1>6, <2>1 DEF Run!Next, Run!Raise, Run!Goes, SavedState
<1>10. CASE GatherReturns \/ ProcessObservation \/ ProcessFailure \/ LoopEnds \/ Replan
  <2>1. phase' \notin {"done", "raised"} /\ saved' = saved
    BY <1>10 DEF GatherReturns, ProcessObservation, ProcessFailure, LoopEnds, Replan, outVars
  <2>. QED
    BY <1>3, <1>4, <1>6, <2>1 DEF Run!vars, SavedState
<1>. QED  BY <1>7, <1>8, <1>9, <1>10

\* While a batch is at work its waits begin and end.
LEMMA TasksAreARun ==
    ASSUME IInv, \/ StartBatch \/ \E t \in Steps : StepTask(t)
                 \/ \E s \in Steps, answer \in {"approved", "rejected"} : ConfirmStep(s, answer)
                 \/ UNCHANGED vars
    PROVE  Run!Next \/ UNCHANGED Run!vars
<1>1. saved' = saved
  BY DEF StartBatch, StepTask, ConfirmWakes, ConfirmTimesOut, CallSucceeds, CallFails,
         BackoffEnds, CallCrashes, ConfirmStep, vars, outVars
<1>2. \/ phase' = phase /\ pc' = pc
      \/ phase \notin {"done", "raised"} /\ phase' \notin {"done", "raised"}
  <2>1. CASE StartBatch
    BY <2>1 DEF StartBatch
  <2>2. ASSUME NEW t \in Steps, StepTask(t) PROVE phase = "gather" /\ phase' = phase
    BY <2>2 DEF StepTask, ConfirmWakes, ConfirmTimesOut, CallSucceeds, CallFails,
         BackoffEnds, CallCrashes, loopVars, IInv, TaskInv, Active
  <2>3. ASSUME NEW s \in Steps, NEW answer \in {"approved", "rejected"}, ConfirmStep(s, answer)
        PROVE  phase' = phase /\ pc' = pc
    BY <2>3 DEF ConfirmStep, loopVars, taskVars
  <2>4. ASSUME UNCHANGED vars PROVE phase' = phase /\ pc' = pc
    BY <2>4 DEF vars, loopVars, taskVars
  <2>. QED  BY <2>1, <2>2, <2>3, <2>4
<1>3. SavedState' = SavedState
  BY <1>1 DEF SavedState
<1>4. CASE phase' = phase /\ pc' = pc
  BY <1>3, <1>4 DEF Run!vars, RunState, SavedState
<1>5. CASE phase \notin {"done", "raised"} /\ phase' \notin {"done", "raised"}
  <2>1. /\ RunState = IF Waiting THEN "waiting" ELSE "running"
        /\ RunState' = IF Waiting' THEN "waiting" ELSE "running"
    BY <1>5 DEF RunState, Waiting
  <2>. QED
    BY <1>3, <2>1 DEF Run!Next, Run!Pause, Run!Resume, Run!Goes, Run!vars, SavedState
<1>. QED  BY <1>2, <1>4, <1>5

\* What Session takes an execution to be, the executor implements.
THEOREM RunRefinement == Spec => ImplementsRun
<1>1. Init => Run!Init
  BY DEF Init, Run!Init, RunState
<1>2. IInv /\ HistoryInv /\ [Next]_vars => [Run!Next]_(Run!vars)
  BY LoopIsARun, TasksAreARun DEF Next, Loop
<1>. QED
  BY <1>1, <1>2, Invariance, HistoryInvariance, PTL DEF Spec, ImplementsRun, Run!Spec

----------------------------------------------------------------------------
\* Termination: every step of the executor leaves less to do.

\* The batches: none is empty, and what is gathered goes on or has ended.
LEMMA BatchesAreTaken ==
    ASSUME IInv, StartBatch
    PROVE  batch' # << >> /\ batch'[1] \in Range(batch')
<1>1. ready \in Seq(StepsOf(plan)) /\ ready # << >>
  BY DEF IInv, TypeOK, StartBatch
<1>2. Len(ready) \in Nat /\ Len(ready) > 0
  BY <1>1, LenProperties, EmptySeq
<1>3. BatchSize \in 1..Len(ready)
  BY <1>2, ConstantsAssumption DEF BatchSize
<1>4. batch' = SubSeq(ready, 1, BatchSize)
  BY DEF StartBatch
<1>5. Len(batch') = BatchSize /\ batch' \in Seq(StepsOf(plan))
  <2>1. /\ SubSeq(ready, 1, BatchSize) \in Seq(StepsOf(plan))
        /\ Len(SubSeq(ready, 1, BatchSize)) = BatchSize
    BY <1>1, <1>2, <1>3
  <2>. QED  BY <1>4, <2>1
<1>6. 1 \in DOMAIN batch'
  BY <1>3, <1>5, LenProperties
<1>7. Len(batch') # 0
  BY <1>3, <1>5
<1>. QED  BY <1>6, <1>7, EmptySeq DEF Range

NoEmptyBatch == phase \in {"gather", "results"} => batch # << >>

LEMMA BatchesAreFull == Spec => []NoEmptyBatch
<1>1. Init => NoEmptyBatch
  BY DEF Init, NoEmptyBatch
<1>2. IInv /\ NoEmptyBatch /\ [Next]_vars => NoEmptyBatch'
  <2> SUFFICES ASSUME IInv, NoEmptyBatch, [Next]_vars PROVE NoEmptyBatch'
    OBVIOUS
  <2>1. CASE StartBatch
    BY <2>1, BatchesAreTaken DEF NoEmptyBatch
  <2>2. CASE GatherReturns \/ ProcessObservation
    BY <2>2 DEF GatherReturns, ProcessObservation, NoEmptyBatch
  <2>3. CASE \E t \in Steps : StepTask(t)
    BY <2>3, TaskMoves DEF NoEmptyBatch
  <2>4. CASE \/ ProcessFailure \/ ProcessCrash \/ SaveBatch \/ LoopEnds \/ SaveFinal
             \/ Replan \/ ReplanFails \/ MemoryFails
    BY <2>4 DEF ProcessFailure, ProcessCrash, SaveBatch, LoopEnds, SaveFinal, Replan,
                ReplanFails, MemoryFails, NoEmptyBatch
  <2>5. CASE \/ \E s \in Steps, answer \in {"approved", "rejected"} : ConfirmStep(s, answer)
             \/ UNCHANGED vars
    BY <2>5 DEF ConfirmStep, vars, loopVars, NoEmptyBatch
  <2>. QED  BY <2>1, <2>2, <2>3, <2>4, <2>5 DEF Next, Loop
<1>. QED  BY <1>1, <1>2, Invariance, PTL DEF Spec

\* A task of the batch can go on, or all have ended with a result that the loop
\* processes: neither a confirmation nobody gives nor a result it does not
\* expect stops the executor.
THEOREM NoDeadEnd == Spec => []NobodyIsStuck
<1>1. IInv /\ NoEmptyBatch => NobodyIsStuck
  <2> SUFFICES ASSUME IInv, NoEmptyBatch PROVE NobodyIsStuck
    OBVIOUS
  <2>1. \A i \in DOMAIN batch : batch[i] \in StepsOf(plan) /\ batch[i] \in Steps
    <3>1. batch \in Seq(StepsOf(plan)) /\ StepsOf(plan) \subseteq Steps
      BY PlanFacts DEF IInv, TypeOK
    <3>. QED  BY <3>1, ElementOfSeq, LenProperties
  <2>2. ASSUME phase \in {"gather", "results"}, NEW i \in DOMAIN batch
        PROVE  Active(batch[i]) \/ Ended(batch[i])
    BY <2>1, <2>2 DEF IInv, TypeOK, ScheduleInv, Active, Ended
  <2>3. ASSUME phase = "results", NEW i \in DOMAIN batch
        PROVE  \/ pc[batch[i]] = "crashed"
               \/ /\ pc[batch[i]] = "returned"
                  /\ stepState[batch[i]] \in {"completed", "failed", "skipped"}
    BY <2>1, <2>2, <2>3 DEF IInv, TaskInv, Ended
  <2>. QED  BY <2>1, <2>2, <2>3 DEF NobodyIsStuck, NoEmptyBatch
<1>. QED  BY <1>1, Invariance, BatchesAreFull, PTL

LEMMA LeftIsNat ==
    ASSUME IInv, NEW s \in Steps
    PROVE  StepsLeft(s) \in Nat
<1>1. attempt[s] \in 0..MaxRetries /\ MaxRetries \in Nat
  BY ConstantsAssumption DEF IInv, TypeOK
<1>. QED  BY <1>1 DEF StepsLeft

Advances ==
    \/ replans' > replans
    \/ /\ replans' = replans
       /\ \/ PhasesLeft' < PhasesLeft
          \/ /\ PhasesLeft' = PhasesLeft
             /\ \A s \in Steps : StepsLeft(s)' <= StepsLeft(s)
             /\ \E s \in Steps : StepsLeft(s)' < StepsLeft(s)

\* A step of a task takes it forward and leaves the others where they are.
LEMMA TaskAdvances ==
    ASSUME IInv, NEW t \in Steps, StepTask(t)
    PROVE  Advances
<1> USE DEF IInv
<1>1. /\ t \in StepsOf(plan) /\ t \in Range(batch) /\ phase = "gather"
      /\ stepState[t] \in {"running", "waiting_confirm"}
      /\ UNCHANGED <<plan, phase, ready, batch, cursor, completed, replans>>
      /\ \A s \in StepsOf(plan) : s # t => stepState'[s] = stepState[s]
      /\ stepState'[t] \in {"running", "completed", "failed", "skipped"}
      /\ \A s \in Steps : s # t => pc'[s] = pc[s]
  BY TaskMoves
<1>2. \A s \in Steps : s # t => attempt'[s] = attempt[s]
  BY DEF StepTask, ConfirmWakes, ConfirmTimesOut, CallSucceeds, CallFails, BackoffEnds,
         CallCrashes, SkipStep, TypeOK
<1>3. MaxRetries \in Nat /\ attempt[t] \in 0..MaxRetries
  BY ConstantsAssumption DEF TypeOK
<1>4. \/ pc[t] = "confirm" /\ pc'[t] = "call" /\ attempt'[t] = 0
      \/ pc[t] = "call" /\ pc'[t] = "backoff" /\ attempt'[t] = attempt[t]
      \/ /\ pc[t] = "backoff" /\ pc'[t] = "call"
         /\ attempt'[t] = attempt[t] + 1 /\ attempt[t] < MaxRetries
      \/ pc[t] \in {"confirm", "call"} /\ pc'[t] \in {"returned", "crashed"}
  BY DEF StepTask, ConfirmWakes, ConfirmTimesOut, CallSucceeds, CallFails, BackoffEnds,
         CallCrashes, SkipStep, TypeOK, TaskInv
<1>5. /\ pc[t] = "confirm" => StepsLeft(t) = 2 * MaxRetries + 5
      /\ pc[t] = "call" => StepsLeft(t) = 2 * (MaxRetries - attempt[t]) + 4
      /\ pc[t] = "backoff" => StepsLeft(t) = 2 * (MaxRetries - attempt[t]) + 3
  BY <1>1 DEF StepsLeft
<1>6. /\ pc'[t] = "call" => StepsLeft(t)' = 2 * (MaxRetries - attempt'[t]) + 4
      /\ pc'[t] = "backoff" => StepsLeft(t)' = 2 * (MaxRetries - attempt'[t]) + 3
      /\ pc'[t] \in {"returned", "crashed"} => StepsLeft(t)' = 3
  BY <1>1 DEF StepsLeft
<1>7. StepsLeft(t)' < StepsLeft(t) /\ StepsLeft(t)' <= StepsLeft(t)
  BY <1>3, <1>4, <1>5, <1>6
<1>8. ASSUME NEW s \in Steps, s # t PROVE StepsLeft(s)' = StepsLeft(s)
  BY <1>1, <1>2, <1>8 DEF StepsLeft
<1>9. \A s \in Steps : StepsLeft(s)' <= StepsLeft(s)
  <2> SUFFICES ASSUME NEW s \in Steps PROVE StepsLeft(s)' <= StepsLeft(s)
    OBVIOUS
  <2>1. CASE s = t
    BY <1>7, <2>1
  <2>2. CASE s # t
    BY <1>8, <2>2, LeftIsNat
  <2>. QED  BY <2>1, <2>2
<1>10. PhasesLeft' = PhasesLeft
  BY <1>1 DEF PhasesLeft, Stopped
<1>. QED  BY <1>1, <1>7, <1>9, <1>10 DEF Advances

\* Starting a batch takes its steps out of the pending ones.
LEMMA StartAdvances ==
    ASSUME IInv, HistoryInv, StartBatch
    PROVE  Advances
<1>1. /\ UNCHANGED <<plan, completed, replans>> /\ phase = "loop" /\ phase' = "gather"
      /\ Range(batch') \subseteq StepsOf(plan) /\ StepsOf(plan) \subseteq Steps
      /\ \A s \in Range(batch') : stepState[s] = "pending" /\ stepState'[s] # "pending"
      /\ \A s \in StepsOf(plan) : s \notin Range(batch') => stepState'[s] = stepState[s]
  BY BatchFacts, PlanFacts DEF IInv, TypeOK
<1>2. /\ \A s \in Steps : pc'[s] \in {"confirm", "call", "idle"} /\ attempt'[s] = 0
      /\ \A s \in Steps : s \in Range(batch') => pc'[s] # "idle"
      /\ \A s \in Steps : s \notin Range(batch') => pc'[s] = "idle"
  BY DEF StartBatch
<1>3. MaxRetries \in Nat
  BY ConstantsAssumption
<1>4. ASSUME NEW s \in Range(batch') PROVE StepsLeft(s)' < StepsLeft(s) /\ StepsLeft(s)' <= StepsLeft(s)
  <2>1. StepsLeft(s) = 2 * MaxRetries + 6
    BY <1>1, <1>4 DEF StepsLeft
  <2>2. StepsLeft(s)' \in {2 * MaxRetries + 5, 2 * (MaxRetries - 0) + 4}
    <3>1. s \in StepsOf(plan') /\ stepState'[s] # "pending" /\ attempt'[s] = 0
      BY <1>1, <1>2, <1>4
    <3>2. pc'[s] = "confirm" \/ pc'[s] = "call"
      BY <1>1, <1>2, <1>4
    <3>. QED  BY <3>1, <3>2 DEF StepsLeft
  <2>. QED  BY <1>3, <2>1, <2>2
<1>5. ASSUME NEW s \in Steps, s \notin Range(batch') PROVE StepsLeft(s)' <= StepsLeft(s)
  <2>1. StepsLeft(s) \in Nat
    BY LeftIsNat
  <2>2. CASE s \notin StepsOf(plan) \/ stepState[s] # "pending"
    <3>1. StepsLeft(s)' = 0
      BY <1>1, <1>2, <1>5, <2>2 DEF StepsLeft
    <3>. QED  BY <2>1, <3>1
  <2>3. CASE s \in StepsOf(plan) /\ stepState[s] = "pending"
    <3>1. StepsLeft(s)' = StepsLeft(s)
      BY <1>1, <1>5, <2>3 DEF StepsLeft
    <3>. QED  BY <2>1, <3>1
  <2>. QED  BY <2>2, <2>3
<1>6. PhasesLeft' = PhasesLeft
  BY <1>1 DEF PhasesLeft, Stopped
<1>7. \A s \in Steps : StepsLeft(s)' <= StepsLeft(s)
  BY <1>4, <1>5
<1>8. batch'[1] \in Range(batch') /\ batch'[1] \in Steps
  BY <1>1, BatchesAreTaken
<1>. QED  BY <1>1, <1>4, <1>6, <1>7, <1>8 DEF Advances

\* The batch goes from its gathering over its results to the next batch.
LEMMA BatchAdvances ==
    ASSUME IInv, NoEmptyBatch, GatherReturns \/ ProcessObservation \/ SaveBatch
    PROVE  Advances
<1> USE DEF IInv
<1>1. /\ batch \in Seq(StepsOf(plan)) /\ StepsOf(plan) \subseteq Steps
      /\ DOMAIN batch = 1..Len(batch) /\ Len(batch) \in Nat
  BY PlanFacts, LenProperties DEF TypeOK
<1>2. \A i \in DOMAIN batch : batch[i] \in StepsOf(plan) /\ batch[i] \in Steps
  BY <1>1, ElementOfSeq
<1>3. UNCHANGED <<plan, batch, stepState, replans, pc, attempt>>
  BY DEF GatherReturns, ProcessObservation, SaveBatch, stateVars, taskVars
<1>4. phase \in {"gather", "results"} /\ batch # << >>
  BY DEF GatherReturns, ProcessObservation, SaveBatch, NoEmptyBatch
<1>5. Len(batch) > 0 /\ 1 \in DOMAIN batch
  BY <1>1, <1>4, EmptySeq
<1>6. PhasesLeft' = PhasesLeft
  BY DEF GatherReturns, ProcessObservation, SaveBatch, PhasesLeft, Stopped
<1>7. ASSUME NEW s \in Steps, s \notin Range(batch) PROVE StepsLeft(s)' = StepsLeft(s)
  BY <1>3, <1>7 DEF StepsLeft
<1>8. ASSUME NEW i \in DOMAIN batch, Ended(batch[i])
      PROVE  /\ StepsLeft(batch[i]) = IF phase = "gather" THEN 3
                    ELSE IF phase = "results" THEN (IF batch[i] \in completed THEN 1 ELSE 2)
                    ELSE 0
             /\ StepsLeft(batch[i])' = IF phase' = "gather" THEN 3
                    ELSE IF phase' = "results" THEN (IF batch[i] \in completed' THEN 1 ELSE 2)
                    ELSE 0
  <2>1. batch[i] \in Range(batch) /\ batch[i] \in StepsOf(plan)
    BY <1>2 DEF Range
  <2>2. pc[batch[i]] \in {"returned", "crashed"} /\ stepState[batch[i]] # "pending"
    BY <1>2, <1>8 DEF Ended, TaskInv
  <2>. QED  BY <1>3, <2>1, <2>2 DEF StepsLeft
<1>9. ASSUME NEW i \in DOMAIN batch, phase = "results" PROVE Ended(batch[i])
  BY <1>2, <1>9 DEF TypeOK, ScheduleInv, TaskInv, Active, Ended
<1>10. \A s \in Steps : StepsLeft(s) \in Nat
  BY LeftIsNat
\* It is enough to look at the batch.
<1>11. ASSUME \A i \in DOMAIN batch : StepsLeft(batch[i])' <= StepsLeft(batch[i]),
              NEW k \in DOMAIN batch, StepsLeft(batch[k])' < StepsLeft(batch[k])
       PROVE  Advances
  <2>1. ASSUME NEW s \in Steps PROVE StepsLeft(s)' <= StepsLeft(s)
    <3>1. CASE s \in Range(batch)
      <4>1. PICK i \in DOMAIN batch : s = batch[i]
        BY <3>1 DEF Range
      <4>2. StepsLeft(s) = StepsLeft(batch[i]) /\ StepsLeft(s)' = StepsLeft(batch[i])'
        BY <1>3, <4>1 DEF StepsLeft
      <4>. QED  BY <1>11, <4>2
    <3>2. CASE s \notin Range(batch)
      BY <1>7, <1>10, <3>2
    <3>. QED  BY <3>1, <3>2
  <2>2. batch[k] \in Steps
    BY <1>2
  <2>. QED  BY <1>3, <1>6, <1>11, <2>1, <2>2 DEF Advances
<1>12. CASE GatherReturns
  <2>1. phase = "gather" /\ phase' = "results" /\ \A i \in DOMAIN batch : Ended(batch[i])
    BY <1>12 DEF GatherReturns
  <2>2. ASSUME NEW i \in DOMAIN batch
        PROVE  StepsLeft(batch[i]) = 3 /\ StepsLeft(batch[i])' \in {1, 2}
    BY <1>8, <2>1
  <2>. QED  BY <1>5, <1>11, <2>2
<1>13. CASE SaveBatch
  <2>1. phase = "results" /\ phase' = "loop"
    BY <1>13 DEF SaveBatch
  <2>2. ASSUME NEW i \in DOMAIN batch
        PROVE  StepsLeft(batch[i]) \in {1, 2} /\ StepsLeft(batch[i])' = 0
    BY <1>8, <1>9, <2>1
  <2>. QED  BY <1>5, <1>11, <2>2
<1>14. CASE ProcessObservation
  <2>1. /\ phase = "results" /\ phase' = "results" /\ completed' = completed \cup {batch[cursor]}
        /\ batch[cursor] \notin completed
    BY <1>14, ObservationFacts
  <2>2. PICK k \in DOMAIN batch : k = cursor
    BY <1>1, <1>14 DEF ProcessObservation, TypeOK
  <2>3. ASSUME NEW i \in DOMAIN batch
        PROVE  /\ StepsLeft(batch[i]) = IF batch[i] \in completed THEN 1 ELSE 2
               /\ StepsLeft(batch[i])' = IF batch[i] \in completed' THEN 1 ELSE 2
    <3>1. Ended(batch[i])
      BY <1>9, <2>1
    <3>. QED  BY <1>8, <2>1, <3>1
  <2>4. ASSUME NEW i \in DOMAIN batch
        PROVE  StepsLeft(batch[i])' <= StepsLeft(batch[i])
    <3>1. CASE batch[i] \in completed
      BY <2>1, <2>3, <3>1
    <3>2. CASE batch[i] \notin completed
      BY <2>3, <3>2
    <3>. QED  BY <3>1, <3>2
  <2>5. StepsLeft(batch[k])' < StepsLeft(batch[k])
    <3>1. batch[k] \in completed' /\ batch[k] \notin completed
      BY <2>1, <2>2
    <3>2. StepsLeft(batch[k])' = 1 /\ StepsLeft(batch[k]) = 2
      BY <2>3, <3>1
    <3>. QED  BY <3>2
  <2>. QED  BY <1>11, <2>2, <2>4, <2>5
<1>. QED  BY <1>12, <1>13, <1>14

\* Whatever the executor does, confirm requests apart, it has less left to do
\* under the present plan, or it spends one of its replans.
THEOREM NoStepInVain == Spec => EveryStepAdvances
<1>1. IInv /\ HistoryInv /\ NoEmptyBatch /\ [Next]_vars
        => [Advances]_<<loopVars, stateVars, taskVars, outVars>>
  <2> SUFFICES ASSUME IInv, HistoryInv, NoEmptyBatch, Next,
                      ~UNCHANGED <<loopVars, stateVars, taskVars, outVars>>
               PROVE  Advances
    BY DEF vars
  <2>1. CASE \E t \in Steps : StepTask(t)
    BY <2>1, TaskAdvances
  <2>2. CASE StartBatch
    BY <2>2, StartAdvances
  <2>3. CASE GatherReturns \/ ProcessObservation \/ SaveBatch
    BY <2>3, BatchAdvances
  <2>4. CASE \/ ProcessFailure \/ ProcessCrash \/ LoopEnds \/ SaveFinal \/ Replan
             \/ ReplanFails \/ MemoryFails
    <3>1. replans \in Nat
      BY ConstantsAssumption DEF IInv, TypeOK
    <3>2. \/ replans' = replans + 1
          \/ replans' = replans /\ PhasesLeft' < PhasesLeft
      BY <2>4 DEF ProcessFailure, ProcessCrash, LoopEnds, SaveFinal, Replan, ReplanFails,
                  MemoryFails, stateVars, PhasesLeft, Stopped
    <3>. QED  BY <3>1, <3>2 DEF Advances
  <2>5. CASE \E s \in Steps, answer \in {"approved", "rejected"} : ConfirmStep(s, answer)
    BY <2>5 DEF ConfirmStep
  <2>. QED  BY <2>1, <2>2, <2>3, <2>4, <2>5 DEF Next, Loop
<1>2. Spec => [][Advances]_<<loopVars, stateVars, taskVars, outVars>>
  BY <1>1, Invariance, HistoryInvariance, BatchesAreFull, PTL DEF Spec
<1>. QED  BY <1>2 DEF EveryStepAdvances, Advances
=============================================================================
