---------------------------- MODULE ScanRunProofs ----------------------------
(***************************************************************************)
(* The job registry and the runners that drive it, for every number of     *)
(* jobs, devices, stocks and permits and every value of the limits.        *)
(*                                                                         *)
(* JobManager: ManagerInv is the inductive invariant of the registry; the  *)
(* theorems read its consequences off.                                     *)
(*                                                                         *)
(* ScanRun: the runners drive the registry as JobManager allows, and what  *)
(* they leave behind is whole, wherever a job is cancelled, times out or   *)
(* raises.                                                                 *)
(***************************************************************************)
EXTENDS ScanRun, FiniteSetTheorems, SequenceTheorems, WellFoundedInduction, TLAPS

USE ConcurrencyAssumption, RetentionAssumption, NoTypeAssumption

\* Completion times order the finished jobs strictly: no two share one.
CompletionOrder ==
    /\ \A j \in JobIds : jobs[j].status \in Terminal => jobs[j].completedAt \in 1 .. finishes
    /\ \A j, k \in JobIds :
          /\ jobs[j].status \in Terminal /\ jobs[k].status \in Terminal
          /\ jobs[j].completedAt = jobs[k].completedAt
          => j = k

\* The cap, counted on the registry as start_job counts it.
RunningCapped == \A t \in ScanTypes : Cardinality(RunningSameType(t)) <= MaxConcurrentJobs

BornHaveType == \A j \in JobIds : jobs[j].status # "unborn" => jobs[j].type \in ScanTypes

ManagerInv ==
    /\ ManagerTypeOK
    /\ IsFiniteSet(registry)
    /\ BornHaveType
    /\ RunningAreListed
    /\ CompletionOrder
    /\ OneRunningPerDevice
    /\ RunningCapped
    /\ RetentionBound
    /\ EvictedAreOldest

-----------------------------------------------------------------------------
(* Lemmas about the operators.                                             *)

\* A finite, non-empty set of jobs with natural completion times has an oldest
\* one: the jobs older than it are a minimal set, hence empty.
LEMMA OldestExists ==
    ASSUME NEW js \in [JobIds -> ScanJob], NEW F \in SUBSET JobIds, F # {}, IsFiniteSet(F)
    PROVE  \E o \in F : \A m \in F : js[o].completedAt <= js[m].completedAt
<1> DEFINE Older(k) == {m \in F : js[m].completedAt < js[k].completedAt}
           T == {Older(k) : k \in F}
<1>1. \A k \in F : js[k].completedAt \in Nat
  BY DEF ScanJob
<1>2. T \subseteq FiniteSubsetsOf(F) /\ T # {}
  <2>1. \A k \in F : Older(k) \in SUBSET F
    OBVIOUS
  <2> HIDE DEF Older
  <2>2. T \subseteq SUBSET F
    BY <2>1
  <2>3. T # {}
    <3>1. PICK k \in F : TRUE
      OBVIOUS
    <3>2. Older(k) \in T
      OBVIOUS
    <3> QED
      BY <3>2
  <2> QED
    BY <2>2, <2>3, FS_FiniteSubsetsOfFinite
<1>3. PICK x \in T : \A y \in T : ~ (<<y, x>> \in StrictSubsetOrdering(F))
  <2> HIDE DEF T
  <2> QED
    BY <1>2, FS_StrictSubsetOrderingWellFounded, WFMin
<1>4. PICK o \in F : x = Older(o)
  OBVIOUS
<1>5. ASSUME NEW m \in F, js[m].completedAt < js[o].completedAt
      PROVE  FALSE
  <2>1. m \in Older(o) /\ m \notin Older(m)
    BY <1>1, <1>5
  <2>2. Older(m) \subseteq Older(o)
    BY <1>1, <1>5
  <2>3. <<Older(m), Older(o)>> \in StrictSubsetOrdering(F)
    BY <2>1, <2>2 DEF StrictSubsetOrdering
  <2> QED
    BY <1>3, <1>4, <2>3
<1> QED
  BY <1>1, <1>5

\* The eviction keeps everything up to the bound and, one over it, drops exactly
\* the oldest job.
LEMMA EvictionExact ==
    ASSUME NEW js \in [JobIds -> ScanJob], NEW reg \in SUBSET JobIds, NEW t \in ScanTypes,
           IsFiniteSet(reg),
           \A j, k \in FinishedIn(js, reg, t) :
               js[j].completedAt = js[k].completedAt => j = k,
           Cardinality(FinishedIn(js, reg, t)) <= MaxCompletedRetained + 1,
           NEW F, F = FinishedIn(js, reg, t),
           NEW G, G = FinishedIn(js, EvictOldCompletedJobs(js, reg, t), t)
    PROVE  \/ Cardinality(F) <= MaxCompletedRetained /\ G = F
           \/ /\ Cardinality(F) = MaxCompletedRetained + 1
              /\ \E o \in F : /\ \A m \in F : js[o].completedAt <= js[m].completedAt
                             /\ G = F \ {o}
<1>1. F \in SUBSET reg /\ F \in SUBSET JobIds /\ IsFiniteSet(F) /\ Cardinality(F) \in Nat
  <2>1. F \in SUBSET reg
    BY DEF FinishedIn
  <2> QED
    BY <2>1, FS_Subset, FS_CardinalityType
<1>2. G = {k \in F : Cardinality(NewerThan(js, reg, k)) < MaxCompletedRetained}
  BY DEF FinishedIn, EvictOldCompletedJobs
<1>3. \A k \in F : NewerThan(js, reg, k) = {m \in F : js[m].completedAt > js[k].completedAt}
  BY DEF FinishedIn, NewerThan
<1>4. \A k \in F : js[k].completedAt \in Nat
  BY <1>1 DEF ScanJob
<1>5. CASE Cardinality(F) <= MaxCompletedRetained
  <2>1. ASSUME NEW k \in F
        PROVE  Cardinality(NewerThan(js, reg, k)) < MaxCompletedRetained
    <3>1. NewerThan(js, reg, k) \in SUBSET (F \ {k})
      BY <1>3, <1>4
    <3>2. IsFiniteSet(F \ {k}) /\ Cardinality(F \ {k}) = Cardinality(F) - 1
      BY <1>1, <2>1, FS_RemoveElement
    <3>3. /\ Cardinality(NewerThan(js, reg, k)) <= Cardinality(F \ {k})
          /\ Cardinality(NewerThan(js, reg, k)) \in Nat
      BY <3>1, <3>2, FS_Subset, FS_CardinalityType
    <3> QED
      BY <3>2, <3>3, <1>1, <1>5
  <2> QED
    BY <1>2, <1>5, <2>1
<1>6. CASE Cardinality(F) = MaxCompletedRetained + 1
  <2>1. F # {}
    BY <1>1, <1>6, FS_EmptySet
  <2>2. PICK o \in F : \A m \in F : js[o].completedAt <= js[m].completedAt
    BY <1>1, <2>1, OldestExists
  <2>3. IsFiniteSet(F \ {o}) /\ Cardinality(F \ {o}) = MaxCompletedRetained
    <3>1. IsFiniteSet(F \ {o}) /\ Cardinality(F \ {o}) = Cardinality(F) - 1
      BY <1>1, <2>2, FS_RemoveElement
    <3> QED
      BY <3>1, <1>6
  <2>4. o \notin G
    <3>1. \A m \in F : js[m].completedAt > js[o].completedAt <=> m # o
      BY <1>4, <2>2
    <3>2. NewerThan(js, reg, o) = F \ {o}
      BY <1>3, <2>2, <3>1
    <3>3. ~ (Cardinality(NewerThan(js, reg, o)) < MaxCompletedRetained)
      BY <2>3, <3>2
    <3> QED
      BY <1>2, <3>3
  <2>5. ASSUME NEW k \in F \ {o}
        PROVE  k \in G
    <3>1. NewerThan(js, reg, k) \in SUBSET ((F \ {o}) \ {k})
      BY <1>3, <1>4, <2>2
    <3>2. /\ IsFiniteSet((F \ {o}) \ {k})
          /\ Cardinality((F \ {o}) \ {k}) = Cardinality(F \ {o}) - 1
      BY <2>3, <2>5, FS_RemoveElement
    <3>3. /\ Cardinality(NewerThan(js, reg, k)) <= Cardinality((F \ {o}) \ {k})
          /\ Cardinality(NewerThan(js, reg, k)) \in Nat
      BY <3>1, <3>2, FS_Subset, FS_CardinalityType
    <3>4. Cardinality(NewerThan(js, reg, k)) < MaxCompletedRetained
      BY <3>2, <3>3, <2>3
    <3> QED
      BY <1>2, <3>4
  <2>6. G = F \ {o}
    BY <1>2, <2>4, <2>5
  <2> QED
    BY <1>6, <2>2, <2>6
<1> QED
  BY <1>1, <1>5, <1>6

-----------------------------------------------------------------------------
(* Finish, whatever the outcome.                                           *)

\* What the end of a job does to the objects, and to the finished jobs of its type.
LEMMA FinishFacts ==
    ASSUME ManagerInv, NEW j \in JobIds, NEW outcome \in Terminal, Finish(j, outcome),
           NEW F, F = FinishedIn(jobs', registry, jobs[j].type)
    PROVE  /\ jobs[j].type \in ScanTypes
           /\ j \in registry
           /\ jobs' \in [JobIds -> ScanJob]
           /\ \A k \in JobIds \ {j} : jobs'[k] = jobs[k]
           /\ jobs'[j].status = outcome /\ jobs'[j].completedAt = finishes + 1
           /\ jobs'[j].type = jobs[j].type /\ jobs'[j].device = jobs[j].device
           /\ CompletionOrder'
           /\ F = FinishedIn(jobs, registry, jobs[j].type) \cup {j}
           /\ IsFiniteSet(F)
           /\ Cardinality(F) <= MaxCompletedRetained + 1
<1>1. jobs[j].type \in ScanTypes /\ j \in registry
  BY DEF ManagerInv, Finish, BornHaveType, RunningAreListed
<1>2. /\ jobs' \in [JobIds -> ScanJob]
      /\ \A k \in JobIds \ {j} : jobs'[k] = jobs[k]
      /\ jobs'[j].status = outcome /\ jobs'[j].completedAt = finishes + 1
      /\ jobs'[j].type = jobs[j].type /\ jobs'[j].device = jobs[j].device
  BY DEF ManagerInv, ManagerTypeOK, Finish, ScanJob, Status, Terminal
<1>3. CompletionOrder'
  <2>1. finishes \in Nat /\ finishes' = finishes + 1
    BY DEF ManagerInv, ManagerTypeOK, Finish
  <2>2. \A k \in JobIds \ {j} : jobs'[k].status \in Terminal => jobs'[k].completedAt \in 1 .. finishes
    BY <1>2 DEF ManagerInv, CompletionOrder
  <2>3. ASSUME NEW k \in JobIds, jobs'[k].status \in Terminal
        PROVE  jobs'[k].completedAt \in 1 .. finishes'
    BY <1>2, <2>1, <2>2, <2>3
  <2>4. ASSUME NEW k \in JobIds, NEW m \in JobIds,
               jobs'[k].status \in Terminal, jobs'[m].status \in Terminal,
               jobs'[k].completedAt = jobs'[m].completedAt
        PROVE  k = m
    <3>1. CASE k # j /\ m # j
      BY <1>2, <2>4, <3>1 DEF ManagerInv, CompletionOrder
    <3>2. CASE k = j \/ m = j
      BY <1>2, <2>1, <2>2, <2>4, <3>2
    <3> QED
      BY <3>1, <3>2
  <2> QED
    BY <2>3, <2>4 DEF CompletionOrder
<1>4. F = FinishedIn(jobs, registry, jobs[j].type) \cup {j}
  BY <1>1, <1>2 DEF FinishedIn, ManagerInv, ManagerTypeOK
<1>5. IsFiniteSet(F) /\ Cardinality(F) <= MaxCompletedRetained + 1
  <2> DEFINE E == FinishedIn(jobs, registry, jobs[j].type)
  <2>1. IsFiniteSet(E) /\ Cardinality(E) <= MaxCompletedRetained /\ Cardinality(E) \in Nat
    <3>1. E \in SUBSET registry
      BY DEF FinishedIn
    <3> QED
      BY <1>1, <3>1, FS_Subset, FS_CardinalityType DEF ManagerInv, RetentionBound
  <2> HIDE DEF E
  <2>2. /\ IsFiniteSet(E \cup {j})
        /\ Cardinality(E \cup {j}) = IF j \in E THEN Cardinality(E) ELSE Cardinality(E) + 1
    BY <2>1, FS_AddElement
  <2> QED
    BY <1>4, <2>1, <2>2 DEF E
<1> QED
  BY <1>1, <1>2, <1>3, <1>4, <1>5

\* The eviction at the end of a job keeps the registry within its bound, and an
\* evicted job has a full set of newer ones.
LEMMA FinishEvicts ==
    ASSUME ManagerInv, NEW j \in JobIds, NEW outcome \in Terminal, Finish(j, outcome)
    PROVE  RetentionBound' /\ EvictedAreOldest'
<1> DEFINE t0 == jobs[j].type
           F == FinishedIn(jobs', registry, t0)
           G == FinishedIn(jobs', registry', t0)
<1> HIDE DEF F, G, t0
<1>1. /\ t0 \in ScanTypes
      /\ j \in registry
      /\ jobs' \in [JobIds -> ScanJob]
      /\ \A k \in JobIds \ {j} : jobs'[k] = jobs[k]
      /\ jobs'[j].status = outcome /\ jobs'[j].completedAt = finishes + 1
      /\ jobs'[j].type = t0
      /\ CompletionOrder'
      /\ F = FinishedIn(jobs, registry, t0) \cup {j}
      /\ IsFiniteSet(F)
      /\ Cardinality(F) <= MaxCompletedRetained + 1
  BY FinishFacts DEF F, t0
<1>2. registry' = EvictOldCompletedJobs(jobs', registry, t0) /\ registry \in SUBSET JobIds
  BY DEF Finish, t0, ManagerInv, ManagerTypeOK
<1>3. \/ Cardinality(F) <= MaxCompletedRetained /\ G = F
      \/ /\ Cardinality(F) = MaxCompletedRetained + 1
         /\ \E o \in F : /\ \A m \in F : jobs'[o].completedAt <= jobs'[m].completedAt
                        /\ G = F \ {o}
  <2>1. \A k, m \in F : jobs'[k].completedAt = jobs'[m].completedAt => k = m
    BY <1>1, <1>2 DEF F, FinishedIn, CompletionOrder
  <2>2. IsFiniteSet(registry)
    BY DEF ManagerInv
  <2>3. /\ Cardinality(FinishedIn(jobs', registry, t0)) <= MaxCompletedRetained + 1
        /\ \A k, m \in FinishedIn(jobs', registry, t0) :
               jobs'[k].completedAt = jobs'[m].completedAt => k = m
    BY <1>1, <2>1 DEF F
  <2>4. G = FinishedIn(jobs', EvictOldCompletedJobs(jobs', registry, t0), t0)
    BY <1>2 DEF G
  <2>5. F = FinishedIn(jobs', registry, t0)
    BY DEF F
  <2>6. t0 \in ScanTypes /\ jobs' \in [JobIds -> ScanJob]
    BY <1>1
  <2> QED
    BY <1>2, <2>2, <2>3, <2>4, <2>5, <2>6, EvictionExact
<1>4. Cardinality(G) <= MaxCompletedRetained
  <2>1. ASSUME NEW o \in F, G = F \ {o}, Cardinality(F) = MaxCompletedRetained + 1
        PROVE  Cardinality(G) <= MaxCompletedRetained
    <3>1. Cardinality(F \ {o}) = Cardinality(F) - 1
      BY <1>1, <2>1, FS_RemoveElement
    <3> QED
      BY <2>1, <3>1
  <2> QED
    BY <1>3, <2>1
<1>5. ASSUME NEW t \in ScanTypes, t # t0
      PROVE  FinishedIn(jobs', registry', t) = FinishedIn(jobs, registry, t)
  <2>1. \A k \in registry : jobs[k].type = t => k # j /\ jobs'[k] = jobs[k]
    BY <1>1, <1>2, <1>5 DEF t0
  <2>2. \A k \in registry : jobs'[k].type = t => jobs[k].type = t
    BY <1>1, <1>2, <1>5
  <2>3. \A k : k \in registry' <=>
               k \in registry /\ (k \in FinishedIn(jobs', registry, t0) =>
                   Cardinality(NewerThan(jobs', registry, k)) < MaxCompletedRetained)
    BY <1>2 DEF EvictOldCompletedJobs
  <2>4. \A k \in registry : jobs'[k].type = t => k \in registry'
    BY <1>5, <2>3 DEF FinishedIn
  <2>5. \A k \in registry' : k \in registry
    BY <2>3
  <2> QED
    BY <2>1, <2>2, <2>4, <2>5 DEF FinishedIn
<1>6. RetentionBound'
  BY <1>4, <1>5 DEF RetentionBound, ManagerInv, G
<1>7. ASSUME NEW k \in JobIds \ registry', jobs'[k].status \in Terminal
      PROVE  Cardinality(NewerThan(jobs', registry', k)) >= MaxCompletedRetained
  <2>1. CASE jobs'[k].type # t0
    <3>1. k # j /\ jobs'[k] = jobs[k] /\ k \notin registry
      BY <1>1, <1>2, <1>7, <2>1 DEF EvictOldCompletedJobs, FinishedIn
    <3>2. jobs[k].type \in ScanTypes
      BY <1>7, <3>1 DEF ManagerInv, BornHaveType, Terminal
    <3>3. FinishedIn(jobs', registry', jobs'[k].type) = FinishedIn(jobs, registry, jobs[k].type)
      BY <1>5, <2>1, <3>1, <3>2
    <3>4. j \notin FinishedIn(jobs, registry, jobs[k].type)
      BY <1>1, <2>1, <3>1 DEF FinishedIn, t0
    <3>5. FinishedIn(jobs, registry, jobs[k].type) \subseteq JobIds
      BY <1>2 DEF FinishedIn
    <3>6. NewerThan(jobs', registry', k) = NewerThan(jobs, registry, k)
      BY <1>1, <3>1, <3>3, <3>4, <3>5 DEF NewerThan
    <3> QED
      BY <1>7, <3>1, <3>6 DEF ManagerInv, EvictedAreOldest
  <2>2. CASE jobs'[k].type = t0
    <3> DEFINE N == {m \in F : jobs'[m].completedAt > jobs'[k].completedAt}
    <3> HIDE DEF N
    <3>1. NewerThan(jobs', registry', k) = {m \in G : jobs'[m].completedAt > jobs'[k].completedAt}
      BY <2>2 DEF NewerThan, G
    <3>2. \A m \in F : jobs'[m].completedAt \in Nat
      BY <1>1, <1>2 DEF F, FinishedIn, ScanJob
    <3>3. Cardinality(N) >= MaxCompletedRetained /\ IsFiniteSet(N) /\ N \in SUBSET F
      <4>1. IsFiniteSet(N) /\ N \in SUBSET F
        BY <1>1, FS_Subset DEF N
      <4>2. CASE k \in registry
        <5>1. ~ (Cardinality(NewerThan(jobs', registry, k)) < MaxCompletedRetained)
          BY <1>2, <1>7, <4>2 DEF EvictOldCompletedJobs
        <5>2. NewerThan(jobs', registry, k) = N
          BY <2>2 DEF NewerThan, N, F
        <5>3. Cardinality(N) \in Nat
          BY <4>1, FS_CardinalityType
        <5> QED
          BY <4>1, <5>1, <5>2, <5>3
      <4>3. CASE k \notin registry
        <5>1. k # j /\ jobs'[k] = jobs[k]
          BY <1>1, <4>3
        <5>2. Cardinality(NewerThan(jobs, registry, k)) >= MaxCompletedRetained
          BY <1>7, <4>3, <5>1 DEF ManagerInv, EvictedAreOldest
        <5>3. NewerThan(jobs, registry, k) \in SUBSET N
          <6>1. ASSUME NEW m \in NewerThan(jobs, registry, k)
                PROVE  m \in N
            <7>1. m \in FinishedIn(jobs, registry, t0) /\ jobs[m].completedAt > jobs[k].completedAt
              BY <2>2, <5>1 DEF NewerThan
            <7>2. m # j /\ m \in JobIds
              BY <1>2, <7>1 DEF FinishedIn, Finish, Terminal
            <7> QED
              BY <1>1, <5>1, <7>1, <7>2 DEF N
          <6> QED
            BY <6>1
        <5>4. /\ Cardinality(NewerThan(jobs, registry, k)) <= Cardinality(N)
              /\ Cardinality(NewerThan(jobs, registry, k)) \in Nat
              /\ Cardinality(N) \in Nat
          BY <4>1, <5>3, FS_Subset, FS_CardinalityType
        <5> QED
          BY <4>1, <5>2, <5>4
      <4> QED
        BY <4>2, <4>3
    <3>4. CASE G = F
      BY <3>1, <3>3, <3>4 DEF N
    <3>5. ASSUME Cardinality(F) = MaxCompletedRetained + 1, NEW o \in F, G = F \ {o},
                 \A m \in F : jobs'[o].completedAt <= jobs'[m].completedAt
          PROVE  Cardinality(NewerThan(jobs', registry', k)) >= MaxCompletedRetained
      <4>1. CASE o \notin N
        <5>1. NewerThan(jobs', registry', k) = N
          BY <3>1, <3>5, <4>1 DEF N
        <5> QED
          BY <3>3, <5>1
      <4>2. CASE o \in N
        <5>1. jobs'[k].completedAt \in Nat
          BY <1>1 DEF ScanJob
        <5>2. \A m \in F : jobs'[m].completedAt > jobs'[k].completedAt
          BY <3>2, <3>5, <4>2, <5>1 DEF N
        <5>3. NewerThan(jobs', registry', k) = F \ {o}
          BY <3>1, <3>5, <5>2
        <5>4. Cardinality(F \ {o}) = Cardinality(F) - 1
          BY <1>1, <3>5, FS_RemoveElement
        <5> QED
          BY <3>5, <5>3, <5>4
      <4> QED
        BY <4>1, <4>2
    <3> QED
      BY <1>3, <3>4, <3>5
  <2> QED
    BY <2>1, <2>2
<1> QED
  BY <1>6, <1>7 DEF EvictedAreOldest

\* The rest of the invariant at the end of a job: fewer run, and the eviction
\* spares every job that still does.
LEMMA FinishPreserves ==
    ASSUME ManagerInv, NEW j \in JobIds, NEW outcome \in Terminal, Finish(j, outcome)
    PROVE  ManagerInv'
<1>1. /\ jobs[j].type \in ScanTypes
      /\ jobs' \in [JobIds -> ScanJob]
      /\ \A k \in JobIds \ {j} : jobs'[k] = jobs[k]
      /\ jobs'[j].status = outcome
      /\ jobs'[j].type = jobs[j].type /\ jobs'[j].device = jobs[j].device
      /\ CompletionOrder'
  BY FinishFacts
<1>2. /\ registry' = EvictOldCompletedJobs(jobs', registry, jobs[j].type)
      /\ registry \in SUBSET JobIds
      /\ cancelRequested' = cancelRequested /\ finishes' = finishes + 1
      /\ jobs[j].status = "running"
  BY DEF Finish, ManagerInv, ManagerTypeOK
<1>3. registry' \in SUBSET registry
  BY <1>2 DEF EvictOldCompletedJobs
<1>4. \A k \in JobIds : jobs'[k].status = "running" => k # j /\ jobs'[k] = jobs[k]
  BY <1>1 DEF Terminal
<1>5. ManagerTypeOK'
  BY <1>1, <1>2, <1>3 DEF ManagerInv, ManagerTypeOK
<1>6. IsFiniteSet(registry)'
  BY <1>3, FS_Subset DEF ManagerInv
<1>7. BornHaveType'
  BY <1>1, <1>2 DEF ManagerInv, BornHaveType
<1>8. RunningAreListed'
  <2>1. ASSUME NEW k \in JobIds, jobs'[k].status = "running"
        PROVE  k \in registry'
    <3>1. k \in registry
      BY <1>4, <2>1 DEF ManagerInv, RunningAreListed
    <3>2. k \notin FinishedIn(jobs', registry, jobs[j].type)
      BY <2>1 DEF FinishedIn, Terminal
    <3> QED
      BY <1>2, <3>1, <3>2 DEF EvictOldCompletedJobs
  <2> QED
    BY <2>1 DEF RunningAreListed
<1>9. OneRunningPerDevice'
  BY <1>4 DEF ManagerInv, OneRunningPerDevice
<1>10. RunningCapped'
  <2>1. ASSUME NEW t \in ScanTypes
        PROVE  Cardinality(RunningSameType(t)') <= MaxConcurrentJobs
    <3>1. RunningSameType(t)' \in SUBSET RunningSameType(t)
      BY <1>2, <1>3, <1>4 DEF RunningSameType
    <3>2. IsFiniteSet(RunningSameType(t))
      BY FS_Subset DEF RunningSameType, ManagerInv
    <3>3. /\ Cardinality(RunningSameType(t)') <= Cardinality(RunningSameType(t))
          /\ Cardinality(RunningSameType(t)') \in Nat
          /\ Cardinality(RunningSameType(t)) \in Nat
      BY <3>1, <3>2, FS_Subset, FS_CardinalityType
    <3>4. Cardinality(RunningSameType(t)) <= MaxConcurrentJobs
      BY DEF ManagerInv, RunningCapped
    <3> QED
      BY <3>3, <3>4
  <2> QED
    BY <2>1 DEF RunningCapped
<1>11. RetentionBound' /\ EvictedAreOldest'
  BY FinishEvicts
<1> QED
  BY <1>1, <1>5, <1>6, <1>7, <1>8, <1>9, <1>10, <1>11 DEF ManagerInv

-----------------------------------------------------------------------------
(* The other actions.                                                      *)

\* A new job is admitted only when there is room for it, and is not a finished
\* job: neither the completion order nor what is retained changes.
LEMMA StartPreserves ==
    ASSUME ManagerInv, NEW j \in JobIds, NEW t \in ScanTypes, NEW d \in DeviceIds,
           StartJob(j, t, d)
    PROVE  ManagerInv'
<1>1. /\ jobs[j].status = "unborn"
      /\ SameDevice(t, d) = {}
      /\ Cardinality(RunningSameType(t)) < MaxConcurrentJobs
      /\ registry' = registry \cup {j}
      /\ cancelRequested' = cancelRequested /\ finishes' = finishes
  BY DEF StartJob
<1>2. /\ jobs' \in [JobIds -> ScanJob]
      /\ \A k \in JobIds \ {j} : jobs'[k] = jobs[k]
      /\ jobs'[j].type = t /\ jobs'[j].device = d /\ jobs'[j].status = "running"
  BY DEF StartJob, ManagerInv, ManagerTypeOK, ScanJob, Status
<1>3. registry \in SUBSET JobIds /\ IsFiniteSet(registry)
  BY DEF ManagerInv, ManagerTypeOK
<1>4. \A k \in JobIds : jobs[k].status \in Terminal \/ jobs'[k].status \in Terminal
                            => k # j /\ jobs'[k] = jobs[k]
  BY <1>1, <1>2 DEF Terminal
<1>5. ManagerTypeOK'
  BY <1>1, <1>2 DEF ManagerInv, ManagerTypeOK
<1>6. IsFiniteSet(registry)'
  BY <1>1, <1>3, FS_AddElement
<1>7. BornHaveType'
  BY <1>2 DEF ManagerInv, BornHaveType
<1>8. RunningAreListed'
  BY <1>1, <1>2 DEF ManagerInv, RunningAreListed
<1>9. CompletionOrder'
  BY <1>1, <1>4 DEF ManagerInv, CompletionOrder
<1>10. OneRunningPerDevice'
  <2>1. ASSUME NEW k \in JobIds \ {j}, jobs'[k].status = "running",
               jobs'[k].type = t, jobs'[k].device = d
        PROVE  FALSE
    <3>1. k \in SameDevice(t, d)
      BY <1>2, <2>1 DEF SameDevice, RunningSameType, ManagerInv, RunningAreListed
    <3> QED
      BY <1>1, <3>1
  <2>2. ASSUME NEW k \in JobIds, NEW m \in JobIds,
               jobs'[k].status = "running", jobs'[m].status = "running",
               jobs'[k].type = jobs'[m].type, jobs'[k].device = jobs'[m].device
        PROVE  k = m
    <3>1. CASE k # j /\ m # j
      BY <1>2, <2>2, <3>1 DEF ManagerInv, OneRunningPerDevice
    <3>2. CASE k = j \/ m = j
      BY <1>2, <2>1, <2>2, <3>2
    <3> QED
      BY <3>1, <3>2
  <2> QED
    BY <2>2 DEF OneRunningPerDevice
<1>11. RunningCapped'
  <2>1. ASSUME NEW u \in ScanTypes
        PROVE  Cardinality(RunningSameType(u)') <= MaxConcurrentJobs
    <3>1. /\ IsFiniteSet(RunningSameType(u))
          /\ Cardinality(RunningSameType(u)) \in Nat
          /\ Cardinality(RunningSameType(u)) <= MaxConcurrentJobs
      BY <1>3, FS_Subset, FS_CardinalityType DEF RunningSameType, ManagerInv, RunningCapped
    <3>2. CASE u # t
      <4>1. RunningSameType(u)' = RunningSameType(u)
        BY <1>1, <1>2, <1>3, <3>2 DEF RunningSameType
      <4> QED
        BY <3>1, <4>1
    <3>3. CASE u = t
      <4>1. RunningSameType(u)' = RunningSameType(u) \cup {j}
        BY <1>1, <1>2, <1>3, <3>3 DEF RunningSameType
      <4>2. Cardinality(RunningSameType(u) \cup {j})
               = IF j \in RunningSameType(u) THEN Cardinality(RunningSameType(u))
                 ELSE Cardinality(RunningSameType(u)) + 1
        BY <3>1, FS_AddElement
      <4>3. /\ Cardinality(RunningSameType(u) \cup {j}) \in Nat
            /\ Cardinality(RunningSameType(u)) < MaxConcurrentJobs
        BY <1>1, <3>1, <3>3, FS_AddElement, FS_CardinalityType
      <4> QED
        BY <3>1, <4>1, <4>2, <4>3
    <3> QED
      BY <3>2, <3>3
  <2> QED
    BY <2>1 DEF RunningCapped
<1>12. \A u : FinishedIn(jobs', registry', u) = FinishedIn(jobs, registry, u)
  BY <1>1, <1>2, <1>3, <1>4 DEF FinishedIn
<1>13. RetentionBound'
  BY <1>12 DEF ManagerInv, RetentionBound
<1>14. EvictedAreOldest'
  <2>1. ASSUME NEW k \in JobIds \ registry', jobs'[k].status \in Terminal
        PROVE  Cardinality(NewerThan(jobs', registry', k)) >= MaxCompletedRetained
    <3>1. k \notin registry /\ k # j /\ jobs'[k] = jobs[k]
      BY <1>1, <1>4, <2>1
    <3>2. \A m \in FinishedIn(jobs, registry, jobs[k].type) : jobs'[m] = jobs[m]
      BY <1>3, <1>4 DEF FinishedIn
    <3>3. NewerThan(jobs', registry', k) = NewerThan(jobs, registry, k)
      BY <1>12, <3>1, <3>2 DEF NewerThan
    <3> QED
      BY <2>1, <3>1, <3>3 DEF ManagerInv, EvictedAreOldest
  <2> QED
    BY <2>1 DEF EvictedAreOldest
<1> QED
  BY <1>5, <1>6, <1>7, <1>8, <1>9, <1>10, <1>11, <1>13, <1>14 DEF ManagerInv

\* The invariant does not look at the cancellation requests beyond their type.
LEMMA ManagerInvCongruence ==
    ASSUME ManagerInv, jobs' = jobs, registry' = registry, finishes' = finishes,
           cancelRequested' \in SUBSET JobIds
    PROVE  ManagerInv'
<1>1. \A t : RunningSameType(t)' = RunningSameType(t)
  BY DEF RunningSameType
<1> QED
  BY <1>1 DEF ManagerInv, ManagerTypeOK, BornHaveType, RunningAreListed, CompletionOrder,
     OneRunningPerDevice, RunningCapped, RetentionBound, EvictedAreOldest

-----------------------------------------------------------------------------
(* The invariant of the specification.                                     *)

\* The empty registry satisfies the invariant.
LEMMA ManagerInitInv == ManagerInit => ManagerInv
<1> SUFFICES ASSUME ManagerInit PROVE ManagerInv
  OBVIOUS
<1>1. /\ \A j \in JobIds : jobs[j] = Unborn
      /\ jobs \in [JobIds -> ScanJob]
      /\ registry = {} /\ cancelRequested = {} /\ finishes = 0
  BY DEF ManagerInit, Unborn, ScanJob, Status, DeviceIds
<1>2. IsFiniteSet({}) /\ Cardinality({}) = 0
  BY FS_EmptySet
<1>3. \A t : RunningSameType(t) = {} /\ FinishedIn(jobs, registry, t) = {}
  BY <1>1 DEF RunningSameType, FinishedIn
<1>4. \A j \in JobIds : jobs[j].status = "unborn"
  BY <1>1 DEF Unborn
<1>5. ManagerTypeOK
  BY <1>1 DEF ManagerTypeOK
<1>6. RunningCapped /\ RetentionBound
  BY <1>2, <1>3 DEF RunningCapped, RetentionBound
<1> QED
  BY <1>1, <1>2, <1>4, <1>5, <1>6 DEF ManagerInv, BornHaveType, RunningAreListed,
     CompletionOrder, OneRunningPerDevice, EvictedAreOldest, Terminal

\* Every step keeps the invariant.
LEMMA ManagerStepInv == ManagerInv /\ [ManagerNext]_managerVars => ManagerInv'
<1> SUFFICES ASSUME ManagerInv, [ManagerNext]_managerVars PROVE ManagerInv'
  OBVIOUS
<1>1. ASSUME NEW j \in JobIds, NEW t \in ScanTypes, NEW d \in DeviceIds, StartJob(j, t, d)
      PROVE  ManagerInv'
  BY <1>1, StartPreserves
<1>2. ASSUME NEW j \in JobIds, NEW d \in DeviceIds, CancelJob(j, d)
      PROVE  ManagerInv'
  <2>1. /\ jobs' = jobs /\ registry' = registry /\ finishes' = finishes
        /\ cancelRequested' \in SUBSET JobIds
    BY <1>2 DEF CancelJob, ManagerInv, ManagerTypeOK
  <2> QED
    BY <2>1, ManagerInvCongruence
<1>3. ASSUME NEW j \in JobIds, RunnerReturns(j) \/ RunnerRaises(j) \/ RunnerCancelled(j)
      PROVE  ManagerInv'
  <2>1. PICK outcome \in Terminal : Finish(j, outcome)
    BY <1>3 DEF RunnerReturns, RunnerRaises, RunnerCancelled, Terminal
  <2> QED
    BY <2>1, FinishPreserves
<1>4. CASE UNCHANGED managerVars
  <2>1. /\ jobs' = jobs /\ registry' = registry /\ finishes' = finishes
        /\ cancelRequested' \in SUBSET JobIds
    BY <1>4 DEF managerVars, ManagerInv, ManagerTypeOK
  <2> QED
    BY <2>1, ManagerInvCongruence
<1> QED
  BY <1>1, <1>2, <1>3, <1>4 DEF ManagerNext

\* The inductive invariant of the registry.
THEOREM ManagerInvariant == ManagerSpec => []ManagerInv
<1> QED
  BY ManagerInitInv, ManagerStepInv, PTL DEF ManagerSpec

-----------------------------------------------------------------------------
(* What follows from it.                                                   *)

\* Type correctness of the job registry, for any number of jobs, devices and
\* scan types.
THEOREM ManagerTypeCorrect == ManagerSpec => []ManagerTypeOK
<1>1. ManagerInv => ManagerTypeOK
  BY DEF ManagerInv
<1> QED
  BY <1>1, ManagerInvariant, PTL

\* start_job never lets a device have two running jobs of one scan type.
THEOREM OneJobPerDevice == ManagerSpec => []OneRunningPerDevice
<1>1. ManagerInv => OneRunningPerDevice
  BY DEF ManagerInv
<1> QED
  BY <1>1, ManagerInvariant, PTL

\* The running jobs of a scan type, over all devices and all job objects, are
\* never more than MAX_CONCURRENT_JOBS_PER_SCAN_TYPE: no job runs outside the
\* registry start_job counts.
THEOREM JobsAreCapped == ManagerSpec => []ConcurrencyCap
<1>1. ManagerInv => ConcurrencyCap
  <2> SUFFICES ASSUME ManagerInv, NEW t \in ScanTypes
               PROVE  Cardinality({j \in JobIds : jobs[j].type = t /\ jobs[j].status = "running"})
                          <= MaxConcurrentJobs
    BY DEF ConcurrencyCap
  <2>1. {j \in JobIds : jobs[j].type = t /\ jobs[j].status = "running"} = RunningSameType(t)
    BY DEF ManagerInv, ManagerTypeOK, RunningAreListed, RunningSameType
  <2> QED
    BY <2>1 DEF ManagerInv, RunningCapped
<1> QED
  BY <1>1, ManagerInvariant, PTL

\* _evict_old_completed_jobs bounds the finished jobs the registry keeps.
THEOREM RegistryIsBounded == ManagerSpec => []RetentionBound
<1>1. ManagerInv => RetentionBound
  BY DEF ManagerInv
<1> QED
  BY <1>1, ManagerInvariant, PTL

\* The limits on running and on kept jobs hold together.
THEOREM ManagerKeepsLimits == ManagerSpec => []Limits
<1>1. OneRunningPerDevice /\ ConcurrencyCap /\ RetentionBound => Limits
  BY DEF Limits
<1> QED
  BY <1>1, OneJobPerDevice, JobsAreCapped, RegistryIsBounded, PTL

\* A finished job is dropped only when the registry is full of newer ones.
THEOREM EvictionTakesOldest == ManagerSpec => []EvictedAreOldest
<1>1. ManagerInv => EvictedAreOldest
  BY DEF ManagerInv
<1> QED
  BY <1>1, ManagerInvariant, PTL

\* The eviction never takes a running job.
THEOREM RunningJobsAreListed == ManagerSpec => []RunningAreListed
<1>1. ManagerInv => RunningAreListed
  BY DEF ManagerInv
<1> QED
  BY <1>1, ManagerInvariant, PTL

\* The eviction takes neither a running job nor one of the newest finished ones.
THEOREM EvictionIsSound == ManagerSpec => []EvictionSparesNewest
<1>1. EvictedAreOldest /\ RunningAreListed => EvictionSparesNewest
  BY DEF EvictionSparesNewest
<1> QED
  BY <1>1, EvictionTakesOldest, RunningJobsAreListed, PTL

\* A job that has ended never changes again, in a state or by a late cancel.
THEOREM EndedJobsAreFinal == ManagerSpec => EndedIsFinal
<1> DEFINE Final(k) == /\ jobs'[k] = jobs[k]
                       /\ (k \in cancelRequested') = (k \in cancelRequested)
           Step == \A j \in JobIds : jobs[j].status \in Terminal =>
                       /\ jobs'[j] = jobs[j]
                       /\ (j \in cancelRequested') = (j \in cancelRequested)
<1>1. ASSUME ManagerTypeOK, ManagerNext, NEW k \in JobIds, jobs[k].status \in Terminal
      PROVE  Final(k)
  <2>1. ASSUME NEW j \in JobIds, NEW t \in ScanTypes, NEW d \in DeviceIds, StartJob(j, t, d)
        PROVE  Final(k)
    BY <1>1, <2>1 DEF StartJob, Terminal, ManagerTypeOK
  <2>2. ASSUME NEW j \in JobIds, NEW d \in DeviceIds, CancelJob(j, d)
        PROVE  Final(k)
    BY <1>1, <2>2 DEF CancelJob, Terminal
  <2>3. ASSUME NEW j \in JobIds, NEW outcome \in Terminal, Finish(j, outcome)
        PROVE  Final(k)
    <3>1. j # k /\ cancelRequested' = cancelRequested
      BY <1>1, <2>3 DEF Finish, Terminal
    <3>2. jobs'[k] = jobs[k]
      BY <1>1, <2>3, <3>1 DEF Finish, ManagerTypeOK
    <3> QED
      BY <3>1, <3>2
  <2>4. ASSUME NEW j \in JobIds, RunnerReturns(j) \/ RunnerRaises(j) \/ RunnerCancelled(j)
        PROVE  Final(k)
    <3>1. PICK outcome \in Terminal : Finish(j, outcome)
      BY <2>4 DEF RunnerReturns, RunnerRaises, RunnerCancelled, Terminal
    <3> QED
      BY <2>3, <3>1
  <2> QED
    BY <1>1, <2>1, <2>2, <2>4 DEF ManagerNext
<1>2. ManagerTypeOK /\ [ManagerNext]_managerVars => [Step]_managerVars
  BY <1>1
<1> HIDE DEF Step
<1>3. ManagerSpec => [][Step]_managerVars
  BY <1>2, ManagerTypeCorrect, PTL DEF ManagerSpec
<1> QED
  BY <1>3 DEF Step, EndedIsFinal

-----------------------------------------------------------------------------
(* The registry under the runners.                                         *)

\* What a scan does to the registry, the registry's own operations do.
LEMMA ScanStepIsManagerStep ==
    ASSUME [ScanNext]_vars
    PROVE  [ManagerNext]_managerVars
<1>1. ASSUME NEW j \in JobIds, Api(j)
      PROVE  [ManagerNext]_managerVars
  BY <1>1 DEF Api, StartScan, FreshScan, CancelScan, ManagerNext
<1>2. ASSUME NEW j \in JobIds, Runner(j)
      PROVE  [ManagerNext]_managerVars
  BY <1>2 DEF Runner, RunnerBegins, UniverseUnavailable, InlineScanReturns, InlineScanFails,
              FinalizeBegins, FinalizerWrites, FinalizerRaises, FinalizeReturns, GatherRaises, CancelDelivered, ManagerNext
<1>3. ASSUME NEW j \in JobIds, NEW s \in Stocks,
             AcquirePermit(j, s) \/ FetchTimesOut(j, s) \/ ChildProgress(j, s)
      PROVE  UNCHANGED managerVars
  BY <1>3 DEF AcquirePermit, FetchTimesOut, ChildProgress, FetchSucceeds, FetchFails,
              FailureReported, AnalysisEnds, EvaluationEnds, AnalysisRaises, Report, OnlyStockMoves
<1>4. CASE DownloadEnds \/ ScripMasterExpires \/ \E t \in ScanTypes : ResultCacheCleared(t)
  BY <1>4 DEF DownloadEnds, DownloadSucceeds, DownloadFails, DownloadCancelled,
              ScripMasterExpires, ResultCacheCleared
<1>5. CASE UNCHANGED vars
  BY <1>5 DEF vars
<1> QED
  BY <1>1, <1>2, <1>3, <1>4, <1>5 DEF ScanNext

\* The registry of the runners is JobManager's, by the way its operations are
\* called: what is proved of the registry holds under the runners.
LEMMA ScansDriveTheRegistry == ScanSafety => ManagerSpec
<1>1. ScanInit => ManagerInit
  BY DEF ScanInit
<1> QED
  BY <1>1, ScanStepIsManagerStep, PTL DEF ScanSafety, ManagerSpec

-----------------------------------------------------------------------------
(* The invariant.                                                          *)

Ended == {"ok", "failed"}
EndedStocks(j) == {s \in Stocks : stock[j][s] \in Ended}

RunnerTypeOK ==
    /\ phase \in [JobIds -> {"none", "created", "scanning", "finalizing", "over"}]
    /\ universe \in [JobIds -> SUBSET Stocks]
    /\ stock \in [JobIds -> [Stocks -> StockState]]
    /\ gatherResult \in [JobIds -> {"none", "error", "cancelled"}]
    /\ progressLog \in [JobIds -> Seq(Stocks \X BOOLEAN)]
    /\ finalizers \subseteq JobIds
    /\ download \in {"idle", "running", "cancelling"}
    /\ scripCached \in {"missing", "cached", "kept"}
    /\ resultCache \in [ScanTypes -> JobIds \cup {NoJob}]

\* The runner of a job is under way as long as the job runs.
PhaseInv ==
    \A j \in JobIds :
        /\ phase[j] = "none" <=> jobs[j].status = "unborn"
        /\ phase[j] \in {"created", "scanning", "finalizing"} <=> jobs[j].status = "running"
        /\ phase[j] \in {"none", "created"} => universe[j] = {}

\* A gather without an exception has children that have not ended in one.
ChildInv ==
    \A j \in JobIds, s \in Stocks :
        /\ stock[j][s] = "idle" <=> s \notin universe[j]
        /\ stock[j][s] \in {"raised", "cancelled"} => gatherResult[j] # "none"

\* A child reports once, when it ends.
LogInv ==
    \A j \in JobIds :
        /\ Reported(j) = EndedStocks(j)
        /\ Len(progressLog[j]) = Cardinality(EndedStocks(j))

\* A gather that came to its end stays there.
Settled(j) ==
    /\ phase[j] \in {"finalizing", "over"}
    /\ gatherResult[j] = "none"
    /\ LiveStocks(j) = {}

OutcomeInv ==
    \A j \in JobIds :
        /\ phase[j] = "finalizing" \/ jobs[j].status = "completed" => Settled(j)
        /\ j \in finalizers => Settled(j)

CacheInv ==
    \A t \in ScanTypes : resultCache[t] # NoJob =>
        /\ Settled(resultCache[t])
        /\ jobs[resultCache[t]].type = t

ScanInv ==
    /\ ManagerInv /\ RunnerTypeOK
    /\ PhaseInv /\ ChildInv /\ LogInv /\ OutcomeInv /\ CacheInv
    /\ WaitersHaveDownload

-----------------------------------------------------------------------------
(* The children.                                                           *)

\* A step of the children: whoever has ended stays as it is, an exception gets
\* into the gather, and a gather changes only while a child is at work.
ChildrenMove ==
    /\ UNCHANGED <<jobs, phase, universe, finalizers, resultCache>>
    /\ stock' \in [JobIds -> [Stocks -> StockState]]
    /\ gatherResult' \in [JobIds -> {"none", "error", "cancelled"}]
    /\ \A j \in JobIds, s \in Stocks : stock'[j][s] # stock[j][s] =>
           /\ stock[j][s] \in Live /\ stock'[j][s] # "idle"
           /\ stock'[j][s] \in {"raised", "cancelled"} => gatherResult'[j] # "none"
    /\ \A j \in JobIds : gatherResult'[j] # gatherResult[j] =>
           gatherResult[j] = "none" /\ LiveStocks(j) # {}

LEMMA SettledJobsStay ==
    ASSUME ScanInv, ChildrenMove, NEW j \in JobIds, Settled(j)
    PROVE  Settled(j)'
<1>1. \A s \in Stocks : stock'[j][s] = stock[j][s]
  BY DEF ChildrenMove, Settled, LiveStocks
<1> QED
  BY <1>1 DEF ChildrenMove, Settled, LiveStocks

LEMMA ChildrenKeep ==
    ASSUME ScanInv, ChildrenMove
    PROVE  PhaseInv' /\ ChildInv' /\ OutcomeInv' /\ CacheInv'
<1>1. PhaseInv'
  BY DEF ScanInv, PhaseInv, ChildrenMove
<1>2. ChildInv'
  <2> SUFFICES ASSUME NEW j \in JobIds, NEW s \in Stocks
               PROVE  /\ stock'[j][s] = "idle" <=> s \notin universe'[j]
                      /\ stock'[j][s] \in {"raised", "cancelled"} => gatherResult'[j] # "none"
    BY DEF ChildInv
  <2>1. /\ stock[j][s] = "idle" <=> s \notin universe[j]
        /\ stock[j][s] \in {"raised", "cancelled"} => gatherResult[j] # "none"
    BY DEF ScanInv, ChildInv
  <2> QED
    BY <2>1 DEF ChildrenMove, Live, HoldingPermit
<1>3. OutcomeInv'
  <2>1. \A j \in JobIds : (j \in finalizers)' = (j \in finalizers)
    BY DEF ChildrenMove
  <2> QED
    BY <2>1, SettledJobsStay DEF ScanInv, OutcomeInv, ChildrenMove
<1>4. CacheInv'
  <2> SUFFICES ASSUME NEW t \in ScanTypes, resultCache'[t] # NoJob
               PROVE  /\ Settled(resultCache[t])'
                      /\ jobs'[resultCache'[t]].type = t
    BY DEF CacheInv, Settled, LiveStocks
  <2>1. resultCache' = resultCache /\ jobs' = jobs
    BY DEF ChildrenMove
  <2>2. /\ resultCache[t] \in JobIds
        /\ Settled(resultCache[t])
        /\ jobs[resultCache[t]].type = t
    BY <2>1 DEF ScanInv, CacheInv, RunnerTypeOK
  <2>3. Settled(resultCache[t])'
    <3> DEFINE j == resultCache[t]
    <3>1. j' = j
      BY <2>1
    <3> QED
      BY <2>2, <2>1, SettledJobsStay DEF Settled, LiveStocks
  <2> QED
    BY <2>1, <2>2, <2>3
<1> QED
  BY <1>1, <1>2, <1>3, <1>4

\* As long as nobody ends, nobody reports.
LEMMA LogStays ==
    ASSUME ScanInv, ChildrenMove, UNCHANGED progressLog,
           \A j \in JobIds, s \in Stocks : stock'[j][s] # stock[j][s] => stock'[j][s] \notin Ended
    PROVE  LogInv'
<1>1. ASSUME NEW j \in JobIds
      PROVE  EndedStocks(j)' = EndedStocks(j)
  BY DEF EndedStocks, ChildrenMove, Live, HoldingPermit, Ended
<1> QED
  BY <1>1 DEF ScanInv, LogInv, Reported

\* Fewer wait, and the download is still there.
LEMMA FewerWait ==
    ASSUME ScanInv, \A j \in JobIds : Waiters(j)' \subseteq Waiters(j),
           download' # "idle" \/ UNCHANGED download
    PROVE  WaitersHaveDownload'
  BY DEF ScanInv, WaitersHaveDownload

LEMMA OneChildMoves ==
    ASSUME ScanInv, NEW j \in JobIds, NEW s \in Stocks, NEW state \in StockState \ {"idle", "cancelled"},
           SetStock(j, s, state), stock[j][s] \in Live,
           UNCHANGED <<jobs, phase, universe, finalizers, resultCache>>,
           \/ UNCHANGED gatherResult /\ state # "raised"
           \/ gatherResult' = [gatherResult EXCEPT ![j] = IF @ = "none" THEN "error" ELSE @]
    PROVE  /\ ChildrenMove
           /\ stock'[j][s] = state
           /\ \A k \in JobIds, r \in Stocks : k # j \/ r # s => stock'[k][r] = stock[k][r]
<1>1. /\ stock' \in [JobIds -> [Stocks -> StockState]]
      /\ stock'[j][s] = state
      /\ \A k \in JobIds, r \in Stocks : k # j \/ r # s => stock'[k][r] = stock[k][r]
  BY DEF ScanInv, RunnerTypeOK, SetStock
<1>2. s \in LiveStocks(j)
  BY DEF LiveStocks
<1>3. /\ gatherResult' \in [JobIds -> {"none", "error", "cancelled"}]
      /\ \A k \in JobIds : gatherResult'[k] # gatherResult[k] => k = j /\ gatherResult[k] = "none"
      /\ state = "raised" => gatherResult'[j] # "none"
  BY DEF ScanInv, RunnerTypeOK
<1> QED
  BY <1>1, <1>2, <1>3 DEF ChildrenMove

\* What the steps of the children have in common.
ChildrenStep == ChildrenMove /\ LogInv' /\ WaitersHaveDownload' /\ RunnerTypeOK'

LEMMA OnlyAChildMoves ==
    ASSUME ScanInv, NEW j \in JobIds, NEW s \in Stocks,
           NEW state \in {"fetching", "fetchFailed", "analysing", "evaluating", "raised"},
           SetStock(j, s, state), stock[j][s] \in Live,
           UNCHANGED <<jobs, phase, universe, finalizers, resultCache, progressLog, scripCached>>,
           download' \in {"idle", "running", "cancelling"},
           download' # "idle" \/ UNCHANGED download,
           \/ UNCHANGED gatherResult /\ state # "raised"
           \/ gatherResult' = [gatherResult EXCEPT ![j] = IF @ = "none" THEN "error" ELSE @]
    PROVE  ChildrenStep
<1>0. state \in StockState \ {"idle", "cancelled"} /\ state \notin Ended /\ state \notin Waiting
  BY DEF StockState, Live, HoldingPermit, Ended, Waiting
<1>1. /\ ChildrenMove
      /\ stock'[j][s] = state
      /\ \A k \in JobIds, r \in Stocks : k # j \/ r # s => stock'[k][r] = stock[k][r]
  BY <1>0, OneChildMoves
<1>2. LogInv'
  BY <1>0, <1>1, LogStays
<1>3. WaitersHaveDownload'
  BY <1>0, <1>1, FewerWait DEF Waiters
<1>4. RunnerTypeOK'
  BY <1>1 DEF RunnerTypeOK, ChildrenMove, ScanInv
<1> QED
  BY <1>1, <1>2, <1>3, <1>4 DEF ChildrenStep

\* A child that reports adds one entry, its own, and has ended.
LEMMA ReportIsAStep ==
    ASSUME ScanInv, NEW j \in JobIds, NEW s \in Stocks, NEW success \in BOOLEAN,
           stock[j][s] \in Live, Report(j, s, success)
    PROVE  ChildrenStep
<1> DEFINE state == IF success THEN "ok" ELSE "failed"
<1>0. state \in StockState \ {"idle", "cancelled", "raised"} /\ state \in Ended /\ state \notin Waiting
  BY DEF StockState, Ended, Waiting
<1>1. /\ ChildrenMove
      /\ stock'[j][s] = state
      /\ \A k \in JobIds, r \in Stocks : k # j \/ r # s => stock'[k][r] = stock[k][r]
  <2>1. SetStock(j, s, state) /\ UNCHANGED <<jobs, phase, universe, finalizers, resultCache, gatherResult>>
    BY DEF Report, managerVars
  <2> HIDE DEF state
  <2> QED
    BY <1>0, <2>1, OneChildMoves
<1> HIDE DEF state
<1>2. /\ progressLog[j] \in Seq(Stocks \X BOOLEAN) /\ <<s, success>> \in Stocks \X BOOLEAN
      /\ progressLog' = [progressLog EXCEPT ![j] = Append(progressLog[j], <<s, success>>)]
      /\ progressLog \in [JobIds -> Seq(Stocks \X BOOLEAN)]
  BY DEF Report, ScanInv, RunnerTypeOK
<1>3. progressLog' \in [JobIds -> Seq(Stocks \X BOOLEAN)]
  BY <1>2
<1>4. LogInv'
  <2>1. ASSUME NEW k \in JobIds, k # j
        PROVE  Reported(k)' = EndedStocks(k)' /\ Len(progressLog'[k]) = Cardinality(EndedStocks(k)')
    <3>1. EndedStocks(k)' = EndedStocks(k) /\ progressLog'[k] = progressLog[k]
      BY <1>1, <1>2, <2>1 DEF EndedStocks
    <3> QED
      BY <3>1 DEF ScanInv, LogInv, Reported
  <2>2. /\ EndedStocks(j)' = EndedStocks(j) \cup {s}
        /\ s \notin EndedStocks(j)
    BY <1>0, <1>1 DEF EndedStocks, Live, HoldingPermit, Ended
  <2>3. Cardinality(EndedStocks(j)') = Cardinality(EndedStocks(j)) + 1
    <3>1. EndedStocks(j) \subseteq Stocks
      BY DEF EndedStocks
    <3>2. IsFiniteSet(EndedStocks(j))
      BY <3>1, StocksAssumption, FS_Subset
    <3> QED
      BY <3>2, <2>2, FS_AddElement
  <2>4. Len(progressLog'[j]) = Len(progressLog[j]) + 1
    BY <1>2
  <2>5. Reported(j)' = Reported(j) \cup {s}
    <3>1. /\ DOMAIN progressLog'[j] = DOMAIN progressLog[j] \cup {Len(progressLog[j]) + 1}
          /\ \A i \in DOMAIN progressLog[j] : progressLog'[j][i] = progressLog[j][i]
          /\ progressLog'[j][Len(progressLog[j]) + 1] = <<s, success>>
      BY <1>2
    <3> QED
      BY <3>1 DEF Reported
  <2>6. Reported(j) = EndedStocks(j) /\ Len(progressLog[j]) = Cardinality(EndedStocks(j))
    BY DEF ScanInv, LogInv
  <2>7. Reported(j)' = EndedStocks(j)' /\ Len(progressLog'[j]) = Cardinality(EndedStocks(j)')
    BY <2>2, <2>3, <2>4, <2>5, <2>6
  <2> QED
    BY <2>1, <2>7 DEF LogInv
<1>5. WaitersHaveDownload'
  BY <1>0, <1>1, FewerWait DEF Waiters, Report
<1>6. RunnerTypeOK'
  BY <1>1, <1>3 DEF RunnerTypeOK, ChildrenMove, ScanInv, Report
<1> QED
  BY <1>1, <1>4, <1>5, <1>6 DEF ChildrenStep

LEMMA ChildSteps ==
    ASSUME ScanInv, NEW j \in JobIds, NEW s \in Stocks,
           AcquirePermit(j, s) \/ FetchTimesOut(j, s) \/ ChildProgress(j, s)
    PROVE  ChildrenStep
<1> USE DEF Live, HoldingPermit, managerVars
<1>1. CASE AcquirePermit(j, s) /\ scripCached # "missing"
  <2>1. SetStock(j, s, "fetching") /\ UNCHANGED download
    BY <1>1 DEF AcquirePermit
  <2> QED
    BY <1>1, <2>1, OnlyAChildMoves DEF AcquirePermit, ScanInv, RunnerTypeOK
<1>2. CASE AcquirePermit(j, s) /\ scripCached = "missing"
  <2>1. SetStock(j, s, "resolving") /\ download' \in {"running", "cancelling"}
    BY <1>2 DEF AcquirePermit, ScanInv, RunnerTypeOK
  <2>2. ChildrenMove /\ stock'[j][s] = "resolving"
        /\ \A k \in JobIds, r \in Stocks : k # j \/ r # s => stock'[k][r] = stock[k][r]
    BY <1>2, <2>1, OneChildMoves DEF AcquirePermit, StockState
  <2>3. LogInv'
    BY <1>2, <2>2, LogStays DEF AcquirePermit, Ended
  <2> QED
    BY <1>2, <2>1, <2>2, <2>3
    DEF ChildrenStep, ChildrenMove, WaitersHaveDownload, RunnerTypeOK, ScanInv, AcquirePermit
<1>3. CASE FetchTimesOut(j, s)
  BY <1>3, OnlyAChildMoves DEF FetchTimesOut, ScanInv, RunnerTypeOK
<1>4. ASSUME NEW state \in {"analysing", "evaluating"}, OnlyStockMoves(j, s, state), stock[j][s] \in Live
      PROVE  ChildrenStep
  BY <1>4, OnlyAChildMoves DEF OnlyStockMoves, ScanInv, RunnerTypeOK
<1>5. ASSUME NEW success \in BOOLEAN, Report(j, s, success), stock[j][s] \in Live
      PROVE  ChildrenStep
  BY <1>5, ReportIsAStep
<1>6. CASE AnalysisRaises(j, s)
  BY <1>6, OnlyAChildMoves DEF AnalysisRaises, ScanInv, RunnerTypeOK
<1> QED
  BY <1>1, <1>2, <1>3, <1>4, <1>5, <1>6
  DEF ChildProgress, FetchSucceeds, FetchFails, FailureReported, AnalysisEnds, EvaluationEnds

\* The end of the download wakes every waiter of every job.
LEMMA DownloadSteps ==
    ASSUME ScanInv, DownloadEnds
    PROVE  ChildrenStep
<1>1. PICK state \in {"fetching", "fetchFailed", "cancelled"} :
          /\ WaitersMoveTo(state)
          /\ state # "cancelled" => UNCHANGED gatherResult
          /\ state = "cancelled" => gatherResult' =
                [j \in JobIds |-> IF gatherResult[j] = "none" /\ Waiters(j) # {} THEN "cancelled"
                                                                                 ELSE gatherResult[j]]
  BY DEF DownloadEnds, DownloadSucceeds, DownloadFails, DownloadCancelled
<1>2. /\ UNCHANGED <<jobs, phase, universe, finalizers, resultCache, progressLog>>
      /\ download' = "idle" /\ scripCached' \in {scripCached, "cached"}
  BY DEF DownloadEnds, DownloadSucceeds, DownloadFails, DownloadCancelled, managerVars
<1>3. \A j \in JobIds, s \in Stocks :
          stock'[j][s] = IF stock[j][s] = "resolving" THEN state ELSE stock[j][s]
  BY <1>1 DEF WaitersMoveTo, Waiters, Waiting
<1>4. stock' \in [JobIds -> [Stocks -> StockState]]
  BY <1>1 DEF WaitersMoveTo, ScanInv, RunnerTypeOK, StockState, Live, HoldingPermit
<1>5. /\ gatherResult' \in [JobIds -> {"none", "error", "cancelled"}]
      /\ \A j \in JobIds : gatherResult'[j] # gatherResult[j] =>
             gatherResult[j] = "none" /\ Waiters(j) # {}
      /\ state = "cancelled" => \A j \in JobIds : Waiters(j) # {} => gatherResult'[j] # "none"
  BY <1>1 DEF ScanInv, RunnerTypeOK
<1>6. \A j \in JobIds : Waiters(j) \subseteq LiveStocks(j)
  BY DEF Waiters, Waiting, LiveStocks, Live, HoldingPermit
<1>7. ChildrenMove
  <2>1. ASSUME NEW j \in JobIds, NEW s \in Stocks, stock'[j][s] # stock[j][s]
        PROVE  /\ stock[j][s] \in Live /\ stock'[j][s] # "idle"
               /\ stock'[j][s] \in {"raised", "cancelled"} => gatherResult'[j] # "none"
    <3>1. s \in Waiters(j) /\ stock'[j][s] = state /\ stock[j][s] = "resolving"
      BY <1>3, <2>1 DEF Waiters, Waiting
    <3> QED
      BY <3>1, <1>5 DEF Live, HoldingPermit
  <2> QED
    BY <2>1, <1>2, <1>4, <1>5, <1>6 DEF ChildrenMove
<1>8. LogInv'
  BY <1>2, <1>3, <1>7, LogStays DEF Ended
<1>9. WaitersHaveDownload'
  BY <1>3 DEF WaitersHaveDownload, Waiters, Waiting
<1>10. RunnerTypeOK'
  BY <1>2, <1>7 DEF RunnerTypeOK, ChildrenMove, ScanInv
<1> QED
  BY <1>7, <1>8, <1>9, <1>10 DEF ChildrenStep

\* A cancellation ends every unfinished child of its job, and may leave the
\* download without a waiter.
LEMMA CancelSteps ==
    ASSUME ScanInv, NEW j \in JobIds, NEW d \in DeviceIds, CancelScan(j, d)
    PROVE  ChildrenStep
<1> DEFINE hit == IF phase[j] = "scanning" /\ gatherResult[j] = "none" THEN LiveStocks(j) ELSE {}
<1>1. /\ stock' = [stock EXCEPT ![j] = [s \in Stocks |-> IF s \in hit THEN "cancelled" ELSE stock[j][s]]]
      /\ gatherResult' = [gatherResult EXCEPT ![j] = IF hit # {} THEN "cancelled" ELSE @]
      /\ download' \in {download, "cancelling"}
      /\ UNCHANGED <<jobs, phase, universe, finalizers, resultCache, progressLog, scripCached>>
  BY DEF CancelScan, CancelJob
<1>2. hit \subseteq LiveStocks(j) /\ (hit # {} => gatherResult[j] = "none")
  OBVIOUS
<1> HIDE DEF hit
<1>3. /\ stock' \in [JobIds -> [Stocks -> StockState]]
      /\ \A k \in JobIds, s \in Stocks :
            stock'[k][s] = IF k = j /\ s \in hit THEN "cancelled" ELSE stock[k][s]
  BY <1>1 DEF ScanInv, RunnerTypeOK, StockState
<1>4. ChildrenMove
  BY <1>1, <1>2, <1>3 DEF ChildrenMove, LiveStocks, ScanInv, RunnerTypeOK
<1>5. LogInv'
  BY <1>1, <1>3, <1>4, LogStays DEF Ended
<1>6. WaitersHaveDownload'
  BY <1>1, <1>3, FewerWait DEF Waiters, Waiting
<1>7. RunnerTypeOK'
  BY <1>1, <1>4 DEF RunnerTypeOK, ChildrenMove, ScanInv
<1> QED
  BY <1>4, <1>5, <1>6, <1>7 DEF ChildrenStep

-----------------------------------------------------------------------------
(* The runners.                                                            *)

\* What the steps of the runners have to keep; the registry is JobManager's.
RunnerStep ==
    /\ RunnerTypeOK' /\ PhaseInv' /\ ChildInv' /\ LogInv' /\ OutcomeInv' /\ CacheInv'
    /\ WaitersHaveDownload'

NoChildMoves == UNCHANGED <<universe, stock, gatherResult, progressLog, download>>

LEMMA ChildrenAreLeft ==
    ASSUME ScanInv, NoChildMoves
    PROVE  ChildInv' /\ LogInv' /\ WaitersHaveDownload'
<1>1. ChildInv'
  BY DEF ScanInv, NoChildMoves, ChildInv
<1>2. LogInv'
  BY SMTT(60) DEF ScanInv, NoChildMoves, LogInv, Reported, EndedStocks
<1>3. WaitersHaveDownload'
  BY DEF ScanInv, NoChildMoves, WaitersHaveDownload, Waiters
<1> QED
  BY <1>1, <1>2, <1>3

LEMMA FinishMoves ==
    ASSUME ScanInv, NEW j \in JobIds, NEW outcome \in Terminal, Finish(j, outcome)
    PROVE  /\ jobs[j].status = "running"
           /\ jobs'[j].status = outcome /\ jobs'[j].type = jobs[j].type
           /\ \A k \in JobIds : k # j => jobs'[k] = jobs[k]
  BY DEF Finish, ScanInv, ManagerInv, ManagerTypeOK, ScanJob

\* The runner of one job moves, and no child: its gather is settled when the
\* runner finalizes, completes or fills the cache, and stays so.
LEMMA OneRunnerMoves ==
    ASSUME ScanInv, NoChildMoves, scripCached' \in {"missing", "cached", "kept"},
           NEW j \in JobIds, NEW now \in {"created", "finalizing", "over"},
           phase' = [phase EXCEPT ![j] = now],
           \A k \in JobIds : k # j => jobs'[k] = jobs[k],
           /\ now = "created" => /\ jobs[j].status = "unborn"
                                 /\ jobs'[j].status = "running"
           /\ now = "finalizing" => UNCHANGED jobs
           /\ now = "over" => /\ jobs[j].status = "running" /\ jobs'[j].status \in Terminal
                              /\ jobs'[j].type = jobs[j].type
           /\ now = "finalizing" \/ jobs'[j].status = "completed"
                     \/ (\E t \in ScanTypes : resultCache'[t] # resultCache[t])
                  => phase[j] \in {"scanning", "finalizing"} /\ gatherResult[j] = "none"
                     /\ LiveStocks(j) = {},
           finalizers' \subseteq finalizers \cup (IF now = "finalizing" THEN {j} ELSE {}),
           resultCache' \in [ScanTypes -> JobIds \cup {NoJob}],
           \A t \in ScanTypes : resultCache'[t] # resultCache[t] =>
               /\ resultCache'[t] = j /\ now = "over" /\ jobs'[j].type = t
    PROVE  RunnerStep
<1>1. RunnerTypeOK'
  BY DEF ScanInv, RunnerTypeOK, NoChildMoves
<1>2. phase'[j] = now /\ \A k \in JobIds : k # j => phase'[k] = phase[k]
  BY DEF ScanInv, RunnerTypeOK
<1>3. PhaseInv'
  <2> SUFFICES ASSUME NEW k \in JobIds
               PROVE  /\ phase'[k] = "none" <=> jobs'[k].status = "unborn"
                      /\ phase'[k] \in {"created", "scanning", "finalizing"} <=> jobs'[k].status = "running"
                      /\ phase'[k] \in {"none", "created"} => universe'[k] = {}
    BY DEF PhaseInv
  <2>1. /\ phase[k] = "none" <=> jobs[k].status = "unborn"
        /\ phase[k] \in {"created", "scanning", "finalizing"} <=> jobs[k].status = "running"
        /\ phase[k] \in {"none", "created"} => universe[k] = {}
    BY DEF ScanInv, PhaseInv
  <2> QED
    BY <1>2, <2>1 DEF NoChildMoves, Terminal
<1>4. ASSUME NEW k \in JobIds, Settled(k)
      PROVE  /\ Settled(k)'
             /\ jobs'[k].type = jobs[k].type
  <2>1. LiveStocks(k)' = LiveStocks(k) /\ gatherResult'[k] = gatherResult[k]
    BY DEF NoChildMoves, LiveStocks
  <2>2. phase[j] = "none" <=> jobs[j].status = "unborn"
    BY DEF ScanInv, PhaseInv
  <2> QED
    BY <1>2, <1>4, <2>1, <2>2 DEF Settled
<1>5. now = "finalizing" \/ jobs'[j].status = "completed" \/ (\E t \in ScanTypes : resultCache'[t] # resultCache[t])
         => Settled(j)'
  <2>1. LiveStocks(j)' = LiveStocks(j) /\ gatherResult'[j] = gatherResult[j]
    BY DEF NoChildMoves, LiveStocks
  <2>2. jobs'[j].status = "completed" \/ (\E t \in ScanTypes : resultCache'[t] # resultCache[t])
            => now # "created"
    OBVIOUS
  <2> QED
    BY <1>2, <2>1, <2>2 DEF Settled
<1>6. OutcomeInv'
  <2> SUFFICES ASSUME NEW k \in JobIds
               PROVE  /\ phase'[k] = "finalizing" \/ jobs'[k].status = "completed" => Settled(k)'
                      /\ k \in finalizers' => Settled(k)'
    BY DEF OutcomeInv, Settled, LiveStocks
  <2>1. /\ phase[k] = "finalizing" \/ jobs[k].status = "completed" => Settled(k)
        /\ k \in finalizers => Settled(k)
    BY DEF ScanInv, OutcomeInv
  <2>2. CASE k # j
    BY <1>2, <1>4, <2>1, <2>2
  <2>3. CASE k = j
    BY <1>2, <1>4, <1>5, <2>1, <2>3
  <2> QED
    BY <2>2, <2>3
<1>7. CacheInv'
  <2> SUFFICES ASSUME NEW t \in ScanTypes, resultCache'[t] # NoJob
               PROVE  /\ Settled(resultCache[t])'
                      /\ jobs'[resultCache'[t]].type = t
    BY DEF CacheInv, Settled, LiveStocks
  <2>1. PICK k \in JobIds : k = resultCache'[t]
    BY NoJobAssumption
  <2>2. Settled(k)' /\ jobs'[k].type = t
    <3>1. CASE resultCache'[t] # resultCache[t]
      BY <1>5, <2>1, <3>1
    <3>2. CASE resultCache'[t] = resultCache[t]
      <4>1. Settled(k) /\ jobs[k].type = t
        BY <2>1, <3>2 DEF ScanInv, CacheInv
      <4> QED
        BY <1>4, <4>1
    <3> QED
      BY <3>1, <3>2
  <2> QED
    BY <2>1, <2>2 DEF Settled, LiveStocks
<1> QED
  BY <1>1, <1>3, <1>6, <1>7, ChildrenAreLeft DEF RunnerStep

\* Neither does a step that moves no runner undo what a runner has settled.
LEMMA NoRunnerMoves ==
    ASSUME ScanInv, NoChildMoves, UNCHANGED <<jobs, phase>>,
           scripCached' \in {"missing", "cached", "kept"},
           finalizers' \subseteq finalizers,
           resultCache' \in [ScanTypes -> JobIds \cup {NoJob}],
           \A t \in ScanTypes : resultCache'[t] # resultCache[t] /\ resultCache'[t] # NoJob =>
               /\ resultCache'[t] \in finalizers
               /\ jobs[resultCache'[t]].type = t
    PROVE  RunnerStep
<1>1. RunnerTypeOK'
  BY DEF ScanInv, RunnerTypeOK, NoChildMoves
<1>2. PhaseInv'
  BY DEF ScanInv, PhaseInv, NoChildMoves
<1>3. \A k \in JobIds : Settled(k) => Settled(k)'
  BY DEF Settled, LiveStocks, NoChildMoves
<1>4. OutcomeInv'
  BY <1>3 DEF ScanInv, OutcomeInv
<1>5. CacheInv'
  <2> SUFFICES ASSUME NEW t \in ScanTypes, resultCache'[t] # NoJob
               PROVE  /\ Settled(resultCache[t])'
                      /\ jobs[resultCache'[t]].type = t
    BY DEF CacheInv, Settled, LiveStocks
  <2>1. PICK k \in JobIds : k = resultCache'[t]
    BY NoJobAssumption
  <2>2. Settled(k) /\ jobs[k].type = t
    BY <2>1 DEF ScanInv, CacheInv, OutcomeInv, RunnerTypeOK
  <2>3. Settled(k)'
    BY <2>2, <1>3
  <2> QED
    BY <2>1, <2>2, <2>3 DEF Settled, LiveStocks
<1> QED
  BY <1>1, <1>2, <1>4, <1>5, ChildrenAreLeft DEF RunnerStep

\* The first step of a runner creates its children.
LEMMA BeginIsAStep ==
    ASSUME ScanInv, NEW j \in JobIds, RunnerBegins(j)
    PROVE  RunnerStep
<1>1. PICK u \in SUBSET Stocks :
        /\ universe' = [universe EXCEPT ![j] = u]
        /\ stock' = [stock EXCEPT ![j] = [s \in Stocks |-> IF s \in u THEN "queued" ELSE "idle"]]
  <2>1. {Stocks} \cup (IF jobs[j].type \in UniverseOptionalTypes THEN {{}} ELSE {}) \subseteq SUBSET Stocks
    OBVIOUS
  <2> QED
    BY <2>1, Zenon DEF RunnerBegins
<1>2. /\ phase[j] = "created" /\ phase' = [phase EXCEPT ![j] = "scanning"]
      /\ UNCHANGED <<jobs, gatherResult, progressLog, finalizers, download, scripCached, resultCache>>
  BY DEF RunnerBegins, managerVars
<1>3. /\ universe'[j] = u /\ \A s \in Stocks : stock'[j][s] = IF s \in u THEN "queued" ELSE "idle"
      /\ phase'[j] = "scanning"
      /\ \A k \in JobIds : k # j => /\ universe'[k] = universe[k] /\ stock'[k] = stock[k]
                                    /\ phase'[k] = phase[k]
  BY <1>1, <1>2 DEF ScanInv, RunnerTypeOK
<1>4. /\ universe[j] = {} /\ jobs[j].status = "running"
      /\ \A s \in Stocks : stock[j][s] = "idle"
      /\ ~Settled(j) /\ j \notin finalizers
  BY <1>2 DEF ScanInv, PhaseInv, ChildInv, OutcomeInv, Settled
<1>5. RunnerTypeOK'
  BY <1>1, <1>2 DEF ScanInv, RunnerTypeOK, StockState, Live
<1>6. PhaseInv'
  BY <1>2, <1>3, <1>4 DEF ScanInv, PhaseInv
<1>7. ChildInv'
  BY <1>2, <1>3 DEF ScanInv, ChildInv
<1>8. LogInv'
  <2>1. \A k \in JobIds : EndedStocks(k)' = EndedStocks(k)
    BY <1>3, <1>4 DEF EndedStocks, Ended
  <2> QED
    BY <1>2, <2>1 DEF ScanInv, LogInv, Reported
<1>9. \A k \in JobIds : Settled(k) => k # j /\ Settled(k)'
  BY <1>2, <1>3, <1>4 DEF Settled, LiveStocks
<1>10. OutcomeInv'
  BY <1>2, <1>3, <1>4, <1>9 DEF ScanInv, OutcomeInv
<1>11. CacheInv'
  <2> SUFFICES ASSUME NEW t \in ScanTypes, resultCache[t] # NoJob
               PROVE  /\ Settled(resultCache[t])'
                      /\ jobs[resultCache[t]].type = t
    BY <1>2 DEF CacheInv, Settled, LiveStocks
  <2>1. PICK k \in JobIds : k = resultCache[t]
    BY NoJobAssumption DEF ScanInv, RunnerTypeOK
  <2>2. Settled(k) /\ jobs[k].type = t
    BY <2>1 DEF ScanInv, CacheInv
  <2>3. Settled(k)'
    BY <2>2, <1>9
  <2> QED
    BY <1>2, <2>1, <2>2, <2>3 DEF Settled, LiveStocks
<1>12. WaitersHaveDownload'
  <2>1. \A k \in JobIds : Waiters(k)' \subseteq Waiters(k)
    BY <1>3 DEF Waiters, Waiting
  <2> QED
    BY <1>2, <2>1, FewerWait
<1> QED
  BY <1>5, <1>6, <1>7, <1>8, <1>10, <1>11, <1>12 DEF RunnerStep

LEMMA RunnerSteps ==
    ASSUME ScanInv, NEW j \in JobIds,
           \/ \E t \in ScanTypes, d \in DeviceIds : StartScan(j, t, d) \/ FreshScan(j, t, d)
           \/ Runner(j)
    PROVE  RunnerStep
<1>0. /\ scripCached \in {"missing", "cached", "kept"}
      /\ resultCache \in [ScanTypes -> JobIds \cup {NoJob}]
  BY DEF ScanInv, RunnerTypeOK
<1>1. ASSUME NEW t \in ScanTypes, NEW d \in DeviceIds, FreshScan(j, t, d)
      PROVE  RunnerStep
  <2>1. /\ jobs[j].status = "unborn" /\ jobs'[j].status = "running"
        /\ \A k \in JobIds : k # j => jobs'[k] = jobs[k]
    BY <1>1 DEF FreshScan, StartJob, ScanInv, ManagerInv, ManagerTypeOK
  <2> QED
    BY <1>0, <1>1, <2>1, OneRunnerMoves DEF FreshScan, NoChildMoves
<1>2. CASE RunnerBegins(j)
  BY <1>2, BeginIsAStep
<1>3. CASE UniverseUnavailable(j)
  <2>1. Finish(j, "failed")
    BY <1>3 DEF UniverseUnavailable, RunnerRaises
  <2> QED
    BY <1>0, <1>3, <2>1, FinishMoves, OneRunnerMoves DEF UniverseUnavailable, NoChildMoves, Terminal
<1>4. CASE InlineScanReturns(j) \/ InlineScanFails(j)
  <2>1. GatherDone(j) /\ \E outcome \in {"completed", "failed"} : Finish(j, outcome)
    BY <1>4 DEF InlineScanReturns, InlineScanFails, RunnerReturns, RunnerRaises
  <2>2. jobs[j].status = "running" /\ jobs'[j].status \in Terminal /\ jobs'[j].type = jobs[j].type
        /\ \A k \in JobIds : k # j => jobs'[k] = jobs[k]
    BY <2>1, FinishMoves DEF Terminal
  <2>3. jobs[j].type \in ScanTypes
    BY <2>2 DEF ScanInv, ManagerInv, BornHaveType
  <2>4. /\ resultCache' \in [ScanTypes -> JobIds \cup {NoJob}]
        /\ \A t \in ScanTypes : resultCache'[t] # resultCache[t] =>
               resultCache'[t] = j /\ jobs'[j].type = t
    BY <1>0, <1>4, <2>2, <2>3 DEF InlineScanReturns, InlineScanFails
  <2>5. /\ phase' = [phase EXCEPT ![j] = "over"] /\ UNCHANGED finalizers /\ NoChildMoves
        /\ UNCHANGED scripCached
    BY <1>4 DEF InlineScanReturns, InlineScanFails, NoChildMoves
  <2> QED
    BY <1>0, <2>1, <2>2, <2>4, <2>5, OneRunnerMoves DEF GatherDone, Terminal
<1>5. CASE FinalizeBegins(j)
  <2>1. /\ phase' = [phase EXCEPT ![j] = "finalizing"] /\ finalizers' = finalizers \cup {j}
        /\ NoChildMoves /\ UNCHANGED <<jobs, scripCached, resultCache>>
        /\ GatherDone(j)
    BY <1>5 DEF FinalizeBegins, NoChildMoves, managerVars
  <2>2. jobs[j].status = "running"
    BY <2>1 DEF GatherDone, ScanInv, PhaseInv
  <2> QED
    BY <1>0, <2>1, <2>2, OneRunnerMoves DEF GatherDone
<1>6. CASE FinalizerWrites(j)
  <2>1. jobs[j].type \in ScanTypes
    BY <1>6 DEF FinalizerWrites, ScanInv, OutcomeInv, PhaseInv, Settled, ManagerInv, BornHaveType
  <2> QED
    BY <1>0, <1>6, <2>1, NoRunnerMoves DEF FinalizerWrites, NoChildMoves, managerVars
<1>10. CASE FinalizerRaises(j)
  <2>1. CASE phase[j] = "finalizing" /\ j \notin cancelRequested
    <3>1. Finish(j, "failed") /\ phase' = [phase EXCEPT ![j] = "over"] /\ NoChildMoves
          /\ finalizers' \subseteq finalizers /\ UNCHANGED <<scripCached, resultCache>>
      BY <1>10, <2>1 DEF FinalizerRaises, RunnerRaises, NoChildMoves
    <3> QED
      BY <1>0, <3>1, FinishMoves, OneRunnerMoves DEF Terminal
  <2>2. CASE ~(phase[j] = "finalizing" /\ j \notin cancelRequested)
    BY <1>0, <1>10, <2>2, NoRunnerMoves DEF FinalizerRaises, NoChildMoves, managerVars
  <2> QED
    BY <2>1, <2>2
<1>7. CASE FinalizeReturns(j)
  <2>1. Finish(j, "completed") /\ phase[j] = "finalizing" /\ gatherResult[j] = "none" /\ LiveStocks(j) = {}
    BY <1>7 DEF FinalizeReturns, RunnerReturns, ScanInv, OutcomeInv, Settled
  <2> QED
    BY <1>0, <1>7, <2>1, FinishMoves, OneRunnerMoves DEF FinalizeReturns, NoChildMoves, Terminal
<1>8. CASE GatherRaises(j)
  <2>1. PICK outcome \in {"cancelled", "failed"} : Finish(j, outcome)
    BY <1>8 DEF GatherRaises, RunnerCancelled, RunnerRaises
  <2> QED
    BY <1>0, <1>8, <2>1, FinishMoves, OneRunnerMoves DEF GatherRaises, NoChildMoves, Terminal
<1>9. CASE CancelDelivered(j)
  <2>1. Finish(j, "cancelled")
    BY <1>9 DEF CancelDelivered, RunnerCancelled
  <2> QED
    BY <1>0, <1>9, <2>1, FinishMoves, OneRunnerMoves DEF CancelDelivered, NoChildMoves, Terminal
<1> QED
  BY <1>1, <1>2, <1>3, <1>4, <1>5, <1>6, <1>7, <1>8, <1>9, <1>10 DEF Runner, StartScan

-----------------------------------------------------------------------------
LEMMA ScanInitInv == ScanInit => ScanInv
<1> SUFFICES ASSUME ScanInit
             PROVE  ScanInv
  OBVIOUS
<1>1. ManagerInv
  BY ManagerInitInv DEF ScanInit
<1>2. \A j \in JobIds : jobs[j].status = "unborn"
  BY DEF ScanInit, ManagerInit, Unborn
<1>3. RunnerTypeOK
  BY FlagsAssumption DEF ScanInit, RunnerTypeOK, StockState
<1>4. PhaseInv /\ ChildInv /\ OutcomeInv /\ CacheInv
  BY <1>2 DEF ScanInit, PhaseInv, ChildInv, OutcomeInv, CacheInv
<1>5. LogInv
  <2>1. \A j \in JobIds : EndedStocks(j) = {} /\ Reported(j) = {} /\ Len(progressLog[j]) = 0
    BY DEF ScanInit, EndedStocks, Ended, Reported
  <2> QED
    BY <2>1, FS_EmptySet DEF LogInv
<1>6. WaitersHaveDownload
  BY DEF ScanInit, WaitersHaveDownload, Waiters, Waiting
<1> QED
  BY <1>1, <1>3, <1>4, <1>5, <1>6 DEF ScanInv

\* The invariant is inductive: the registry's part by JobManager's proof, the
\* rest by the steps of the children and of the runners.
THEOREM ScanInvariant == ScanSafety => []ScanInv
<1>1. ScanInv /\ [ScanNext]_vars => ScanInv'
  <2> SUFFICES ASSUME ScanInv, [ScanNext]_vars
               PROVE  ScanInv'
    OBVIOUS
  <2>1. ManagerInv'
    BY ScanStepIsManagerStep, ManagerStepInv DEF ScanInv
  <2>2. CASE ChildrenStep
    BY <2>1, <2>2, ChildrenKeep DEF ChildrenStep, ScanInv
  <2>3. CASE RunnerStep
    BY <2>1, <2>3 DEF RunnerStep, ScanInv
  <2>4. ASSUME NEW j \in JobIds, Api(j) \/ Runner(j)
        PROVE  ScanInv'
    BY <2>2, <2>3, <2>4, CancelSteps, RunnerSteps DEF Api
  <2>5. ASSUME NEW j \in JobIds, NEW s \in Stocks,
               AcquirePermit(j, s) \/ FetchTimesOut(j, s) \/ ChildProgress(j, s)
        PROVE  ScanInv'
    BY <2>2, <2>5, ChildSteps
  <2>6. CASE DownloadEnds
    BY <2>2, <2>6, DownloadSteps
  <2>7. CASE ScripMasterExpires \/ (\E t \in ScanTypes : ResultCacheCleared(t)) \/ UNCHANGED vars
    <3>1. /\ NoChildMoves /\ UNCHANGED <<jobs, phase, finalizers>>
          /\ scripCached' \in {"missing", "cached", "kept"}
          /\ resultCache' \in [ScanTypes -> JobIds \cup {NoJob}]
          /\ \A t \in ScanTypes : resultCache'[t] = resultCache[t] \/ resultCache'[t] = NoJob
      BY <2>7 DEF ScripMasterExpires, ResultCacheCleared, NoChildMoves, vars, scanVars, managerVars,
                  ScanInv, RunnerTypeOK
    <3> QED
      BY <2>3, <3>1, NoRunnerMoves
  <2> QED
    BY <2>4, <2>5, <2>6, <2>7 DEF ScanNext
<1> QED
  BY <1>1, ScanInitInv, PTL DEF ScanSafety

\* A completed job has reported every stock of its universe exactly once and has
\* no child at work, and what the 24 h cache serves is a whole scan of its type.
THEOREM WhatScansLeaveIsWhole == ScanSafety => []ResultsAreWhole
<1>1. ScanInv => ResultsAreWhole
  <2> SUFFICES ASSUME ScanInv
               PROVE  ResultsAreWhole
    OBVIOUS
  <2>1. ASSUME NEW j \in JobIds, Settled(j)
        PROVE  EndedStocks(j) = universe[j]
    <3>1. ASSUME NEW s \in Stocks
          PROVE  stock[j][s] \in Ended <=> s \in universe[j]
      <4>1. /\ stock[j][s] \in StockState
            /\ stock[j][s] = "idle" <=> s \notin universe[j]
            /\ stock[j][s] \notin {"raised", "cancelled"}
            /\ stock[j][s] \notin Live
        BY <2>1 DEF ScanInv, RunnerTypeOK, ChildInv, Settled, LiveStocks
      <4> QED
        BY <4>1 DEF StockState, Ended
    <3>2. universe[j] \subseteq Stocks
      BY DEF ScanInv, RunnerTypeOK
    <3> QED
      BY <3>1, <3>2 DEF EndedStocks
  <2>2. CompletedCoversUniverse
    BY <2>1 DEF ScanInv, OutcomeInv, LogInv, Settled, CompletedCoversUniverse
  <2>3. CacheHoldsWholeScan
    <3> SUFFICES ASSUME NEW t \in ScanTypes, NEW j \in JobIds, j = resultCache[t]
                 PROVE  jobs[j].type = t /\ Reported(j) = universe[j]
      BY DEF CacheHoldsWholeScan, ScanInv, RunnerTypeOK
    <3>1. Settled(j) /\ jobs[j].type = t
      BY NoJobAssumption DEF ScanInv, CacheInv
    <3> QED
      BY <2>1, <3>1 DEF ScanInv, LogInv
  <2> QED
    BY <2>2, <2>3 DEF ResultsAreWhole
<1> QED
  BY <1>1, ScanInvariant, PTL

\* The types hold, and nobody waits for a scrip-master download that is gone.
THEOREM RunnersFitTogether == ScanSafety => []RunnersAreSound
<1>1. ScanInv => RunnersAreSound
  BY DEF ScanInv, ManagerInv, RunnerTypeOK, RunnersAreSound, ScanTypeOK
<1> QED
  BY <1>1, ScanInvariant, PTL

\* The limits of the registry hold under the runners.
THEOREM ScansKeepLimits == ScanSafety => []Limits
  BY ScansDriveTheRegistry, ManagerKeepsLimits, PTL

-----------------------------------------------------------------------------
(* While the scrip master is kept.                                         *)

\* No download couples the jobs: a gather is cancelled by its own job's cancel
\* only, which leaves no child at work, or holds the exception of a child.
KeptInv ==
    scripCached = "kept" =>
        /\ download = "idle"
        /\ \A j \in JobIds :
              /\ phase[j] \in {"none", "created"} => gatherResult[j] = "none"
              /\ gatherResult[j] = "cancelled" => j \in cancelRequested /\ LiveStocks(j) = {}
              /\ gatherResult[j] = "error" => \E s \in Stocks : stock[j][s] = "raised"
              /\ jobs[j].status = "cancelled" => j \in cancelRequested
              /\ jobs[j].status \in Terminal /\ gatherResult[j] = "none" => LiveStocks(j) = {}

\* The children of no job are left to work by their steps: fewer are at work, and
\* what was raised stays so.
LEMMA FewerAtWork ==
    ASSUME ScanInv, ChildrenMove, NEW j \in JobIds
    PROVE  /\ LiveStocks(j)' \subseteq LiveStocks(j)
           /\ \A s \in Stocks : stock[j][s] = "raised" => stock'[j][s] = "raised"
  BY DEF ChildrenMove, LiveStocks, Live, HoldingPermit

LEMMA ChildrenKeepKept ==
    ASSUME ScanInv, KeptInv, ChildrenMove, UNCHANGED <<gatherResult, cancelRequested>>,
           scripCached' = "kept" => scripCached = "kept" /\ UNCHANGED download
    PROVE  KeptInv'
<1> SUFFICES ASSUME scripCached' = "kept", NEW j \in JobIds
             PROVE  /\ download' = "idle"
                    /\ phase'[j] \in {"none", "created"} => gatherResult'[j] = "none"
                    /\ gatherResult'[j] = "cancelled" => j \in cancelRequested' /\ LiveStocks(j)' = {}
                    /\ gatherResult'[j] = "error" => \E s \in Stocks : stock'[j][s] = "raised"
                    /\ jobs'[j].status = "cancelled" => j \in cancelRequested'
                    /\ jobs'[j].status \in Terminal /\ gatherResult'[j] = "none" => LiveStocks(j)' = {}
  BY DEF KeptInv
<1> QED
  BY FewerAtWork DEF KeptInv, ChildrenMove

LEMMA ChildStepsKeepKept ==
    ASSUME ScanInv, KeptInv, NEW j \in JobIds, NEW s \in Stocks,
           AcquirePermit(j, s) \/ FetchTimesOut(j, s) \/ ChildProgress(j, s)
    PROVE  KeptInv'
<1>1. ChildrenMove
  BY ChildSteps DEF ChildrenStep
<1>2. UNCHANGED <<cancelRequested, jobs, phase, scripCached>>
  BY DEF AcquirePermit, FetchTimesOut, ChildProgress, FetchSucceeds, FetchFails, FailureReported,
         AnalysisEnds, EvaluationEnds, AnalysisRaises, Report, OnlyStockMoves, managerVars
<1>3. scripCached = "kept" => UNCHANGED download
  <2>1. scripCached = "kept" => stock[j][s] \notin Waiting
    BY DEF ScanInv, KeptInv, WaitersHaveDownload, Waiters
  <2> QED
    BY <2>1 DEF AcquirePermit, FetchTimesOut, ChildProgress, FetchSucceeds, FetchFails,
         FailureReported, AnalysisEnds, EvaluationEnds, AnalysisRaises, Report, OnlyStockMoves
<1>4. CASE UNCHANGED gatherResult
  BY <1>1, <1>2, <1>3, <1>4, ChildrenKeepKept
<1>5. CASE AnalysisRaises(j, s)
  <2> SUFFICES ASSUME scripCached = "kept", NEW k \in JobIds
               PROVE  /\ download' = "idle"
                      /\ phase'[k] \in {"none", "created"} => gatherResult'[k] = "none"
                      /\ gatherResult'[k] = "cancelled" => k \in cancelRequested' /\ LiveStocks(k)' = {}
                      /\ gatherResult'[k] = "error" => \E r \in Stocks : stock'[k][r] = "raised"
                      /\ jobs'[k].status = "cancelled" => k \in cancelRequested'
                      /\ jobs'[k].status \in Terminal /\ gatherResult'[k] = "none" => LiveStocks(k)' = {}
    BY <1>2 DEF KeptInv
  <2>1. /\ stock'[j][s] = "raised"
        /\ gatherResult'[j] = IF gatherResult[j] = "none" THEN "error" ELSE gatherResult[j]
        /\ \A i \in JobIds : i # j => gatherResult'[i] = gatherResult[i]
    BY <1>5 DEF AnalysisRaises, SetStock, ScanInv, RunnerTypeOK
  <2>2. phase[j] \notin {"none", "created"}
    <3>1. stock[j][s] # "idle"
      BY <1>5 DEF AnalysisRaises
    <3> QED
      BY <3>1 DEF ScanInv, PhaseInv, ChildInv
  <2> QED
    BY <1>2, <1>3, <2>1, <2>2, <1>1, FewerAtWork DEF KeptInv
<1> QED
  BY <1>4, <1>5
  DEF AcquirePermit, FetchTimesOut, ChildProgress, FetchSucceeds, FetchFails, FailureReported,
      AnalysisEnds, EvaluationEnds, Report, OnlyStockMoves

LEMMA CancelKeepsKept ==
    ASSUME ScanInv, KeptInv, NEW j \in JobIds, NEW d \in DeviceIds, CancelScan(j, d)
    PROVE  KeptInv'
<1> DEFINE hit == IF phase[j] = "scanning" /\ gatherResult[j] = "none" THEN LiveStocks(j) ELSE {}
<1>1. /\ stock' = [stock EXCEPT ![j] = [s \in Stocks |-> IF s \in hit THEN "cancelled" ELSE stock[j][s]]]
      /\ gatherResult' = [gatherResult EXCEPT ![j] = IF hit # {} THEN "cancelled" ELSE @]
      /\ download' = IF \E s \in hit : stock[j][s] \in Waiting THEN "cancelling" ELSE download
      /\ cancelRequested' = cancelRequested \cup {j}
      /\ UNCHANGED <<jobs, phase, scripCached>>
      /\ phase[j] \in {"scanning", "finalizing"}
  BY DEF CancelScan, CancelJob
<1>2. /\ hit \subseteq Stocks
      /\ hit # {} => hit = LiveStocks(j)
  BY DEF LiveStocks
<1> HIDE DEF hit
<1>3. ChildrenMove
  BY CancelSteps DEF ChildrenStep
<1> SUFFICES ASSUME scripCached = "kept", NEW k \in JobIds
             PROVE  /\ download' = "idle"
                    /\ phase'[k] \in {"none", "created"} => gatherResult'[k] = "none"
                    /\ gatherResult'[k] = "cancelled" => k \in cancelRequested' /\ LiveStocks(k)' = {}
                    /\ gatherResult'[k] = "error" => \E r \in Stocks : stock'[k][r] = "raised"
                    /\ jobs'[k].status = "cancelled" => k \in cancelRequested'
                    /\ jobs'[k].status \in Terminal /\ gatherResult'[k] = "none" => LiveStocks(k)' = {}
  BY <1>1 DEF KeptInv
<1>4. download' = "idle"
  BY <1>1, <1>2 DEF ScanInv, KeptInv, WaitersHaveDownload, Waiters
<1>5. /\ gatherResult'[j] = IF hit # {} THEN "cancelled" ELSE gatherResult[j]
      /\ k # j => gatherResult'[k] = gatherResult[k]
  BY <1>1 DEF ScanInv, RunnerTypeOK
<1>6. hit # {} => LiveStocks(j)' = {}
  BY <1>1, <1>2 DEF LiveStocks, Live, HoldingPermit, ScanInv, RunnerTypeOK
<1> QED
  BY <1>1, <1>3, <1>4, <1>5, <1>6, FewerAtWork DEF KeptInv

\* A runner ends as cancelled on a request only, and not before its children.
LEMMA RunnerKeepsKept ==
    ASSUME ScanInv, KeptInv, NoChildMoves, UNCHANGED cancelRequested,
           scripCached' = "kept" => scripCached = "kept",
           \A k \in JobIds :
               /\ phase'[k] \in {"none", "created"} => phase[k] \in {"none", "created"}
               /\ jobs'[k].status = "cancelled" =>
                      jobs[k].status = "cancelled" \/ k \in cancelRequested
                          \/ gatherResult[k] = "cancelled"
               /\ jobs'[k].status \in Terminal /\ gatherResult[k] = "none" =>
                      jobs[k].status \in Terminal \/ LiveStocks(k) = {}
    PROVE  KeptInv'
<1>1. \A k \in JobIds : LiveStocks(k)' = LiveStocks(k)
  BY DEF LiveStocks, NoChildMoves
<1> QED
  BY <1>1 DEF KeptInv, NoChildMoves

LEMMA RunnerStepsKeepKept ==
    ASSUME ScanInv, KeptInv, NEW j \in JobIds,
           \/ \E t \in ScanTypes, d \in DeviceIds : StartScan(j, t, d) \/ FreshScan(j, t, d)
           \/ Runner(j)
    PROVE  KeptInv'
<1>1. ASSUME NEW t \in ScanTypes, NEW d \in DeviceIds, FreshScan(j, t, d)
      PROVE  KeptInv'
  <2>1. /\ jobs[j].status = "unborn" /\ jobs'[j].status = "running"
        /\ \A k \in JobIds : k # j => jobs'[k] = jobs[k]
        /\ phase' = [phase EXCEPT ![j] = "created"] /\ phase[j] = "none"
        /\ NoChildMoves /\ UNCHANGED <<cancelRequested, scripCached>>
    BY <1>1 DEF FreshScan, StartJob, NoChildMoves, ScanInv, ManagerInv, ManagerTypeOK, PhaseInv
  <2> QED
    BY <2>1, RunnerKeepsKept DEF Terminal, ScanInv, RunnerTypeOK
<1>2. CASE RunnerBegins(j)
  <2>1. /\ phase[j] = "created" /\ phase' = [phase EXCEPT ![j] = "scanning"]
        /\ UNCHANGED <<jobs, cancelRequested, gatherResult, download, scripCached>>
        /\ \A k \in JobIds : k # j => stock'[k] = stock[k]
    BY <1>2 DEF RunnerBegins, managerVars, ScanInv, RunnerTypeOK
  <2>2. jobs[j].status = "running"
    BY <2>1 DEF ScanInv, PhaseInv
  <2>3. \A k \in JobIds : k # j => LiveStocks(k)' = LiveStocks(k)
    BY <2>1 DEF LiveStocks
  <2>4. scripCached = "kept" => gatherResult[j] = "none"
    BY <2>1 DEF KeptInv
  <2>5. \A k \in JobIds : k # j => phase'[k] = phase[k]
    BY <2>1 DEF ScanInv, RunnerTypeOK
  <2>6. phase'[j] = "scanning"
    BY <2>1 DEF ScanInv, RunnerTypeOK
  <2> QED
    BY <2>1, <2>2, <2>3, <2>4, <2>5, <2>6 DEF KeptInv, Terminal
<1>3. ASSUME NEW outcome \in Terminal, Finish(j, outcome), NoChildMoves, UNCHANGED scripCached,
             phase' = [phase EXCEPT ![j] = "over"],
             outcome = "cancelled" => j \in cancelRequested \/ gatherResult[j] = "cancelled",
             gatherResult[j] = "none" => LiveStocks(j) = {}
      PROVE  KeptInv'
  <2>1. /\ jobs'[j].status = outcome
        /\ \A k \in JobIds : k # j => jobs'[k] = jobs[k]
    BY <1>3, FinishMoves
  <2>2. UNCHANGED cancelRequested
    BY <1>3 DEF Finish
  <2> QED
    BY <1>3, <2>1, <2>2, RunnerKeepsKept DEF ScanInv, RunnerTypeOK
<1>4. CASE UniverseUnavailable(j)
  <2>1. LiveStocks(j) = {}
    BY <1>4 DEF UniverseUnavailable, ScanInv, PhaseInv, ChildInv, LiveStocks, Live, HoldingPermit
  <2> QED
    BY <1>3, <1>4, <2>1 DEF UniverseUnavailable, RunnerRaises, NoChildMoves, Terminal
<1>5. CASE InlineScanReturns(j) \/ InlineScanFails(j)
  BY <1>3, <1>5 DEF InlineScanReturns, InlineScanFails, RunnerReturns, RunnerRaises, GatherDone, NoChildMoves,
                    Terminal
<1>10. CASE FinalizerRaises(j)
  <2>1. NoChildMoves /\ UNCHANGED scripCached
    BY <1>10 DEF FinalizerRaises, NoChildMoves
  <2>2. CASE phase[j] = "finalizing" /\ j \notin cancelRequested
    <3>1. Finish(j, "failed") /\ phase' = [phase EXCEPT ![j] = "over"]
      BY <1>10, <2>2 DEF FinalizerRaises, RunnerRaises
    <3>2. LiveStocks(j) = {}
      BY <2>2 DEF ScanInv, OutcomeInv, Settled
    <3> QED
      BY <1>3, <2>1, <3>1, <3>2 DEF Terminal
  <2>3. CASE ~(phase[j] = "finalizing" /\ j \notin cancelRequested)
    <3>1. UNCHANGED <<jobs, phase, cancelRequested>>
      BY <1>10, <2>3 DEF FinalizerRaises, managerVars
    <3> QED
      BY <2>1, <3>1, RunnerKeepsKept DEF ScanInv, RunnerTypeOK
  <2> QED
    BY <2>2, <2>3
<1>6. CASE FinalizeBegins(j) \/ FinalizerWrites(j)
  <2>1. /\ NoChildMoves /\ UNCHANGED <<jobs, cancelRequested, scripCached>>
        /\ phase' = phase \/ phase' = [phase EXCEPT ![j] = "finalizing"]
    BY <1>6 DEF FinalizeBegins, FinalizerWrites, NoChildMoves, managerVars
  <2> QED
    BY <2>1, RunnerKeepsKept DEF ScanInv, RunnerTypeOK
<1>7. CASE FinalizeReturns(j)
  BY <1>3, <1>7 DEF FinalizeReturns, RunnerReturns, NoChildMoves, Terminal, ScanInv, OutcomeInv, Settled
<1>8. CASE GatherRaises(j)
  BY <1>3, <1>8 DEF GatherRaises, RunnerCancelled, RunnerRaises, NoChildMoves, Terminal
<1>9. CASE CancelDelivered(j)
  BY <1>3, <1>9 DEF CancelDelivered, RunnerCancelled, GatherDone, NoChildMoves, Terminal,
                    ScanInv, OutcomeInv, Settled
<1> QED
  BY <1>1, <1>2, <1>4, <1>5, <1>6, <1>7, <1>8, <1>9, <1>10 DEF Runner, StartScan

\* While the scrip master is kept no job is cancelled unless asked to be, and a
\* job none of whose analyses raised leaves no fetch or analysis behind.
THEOREM KeptScansAreIndependent == ScanSafety => []IndependentWhenKept
<1>1. ScanInit => KeptInv
  BY DEF ScanInit, ManagerInit, Unborn, KeptInv, LiveStocks, Live, HoldingPermit, Terminal
<1>2. ScanInv /\ KeptInv /\ [ScanNext]_vars => KeptInv'
  <2> SUFFICES ASSUME ScanInv, KeptInv, [ScanNext]_vars
               PROVE  KeptInv'
    OBVIOUS
  <2>1. ASSUME NEW j \in JobIds, Api(j) \/ Runner(j)
        PROVE  KeptInv'
    BY <2>1, CancelKeepsKept, RunnerStepsKeepKept DEF Api
  <2>2. ASSUME NEW j \in JobIds, NEW s \in Stocks,
               AcquirePermit(j, s) \/ FetchTimesOut(j, s) \/ ChildProgress(j, s)
        PROVE  KeptInv'
    BY <2>2, ChildStepsKeepKept
  <2>3. CASE DownloadEnds
    <3>1. download # "idle" /\ scripCached' \in {scripCached, "cached"}
      BY <2>3 DEF DownloadEnds, DownloadSucceeds, DownloadFails, DownloadCancelled
    <3> QED
      BY <3>1 DEF KeptInv
  <2>4. CASE ScripMasterExpires \/ (\E t \in ScanTypes : ResultCacheCleared(t)) \/ UNCHANGED vars
    <3>1. /\ NoChildMoves /\ UNCHANGED <<jobs, phase, cancelRequested>>
          /\ scripCached' = "kept" => scripCached = "kept"
      BY <2>4 DEF ScripMasterExpires, ResultCacheCleared, NoChildMoves, vars, scanVars, managerVars
    <3> QED
      BY <3>1, RunnerKeepsKept
  <2> QED
    BY <2>1, <2>2, <2>3, <2>4 DEF ScanNext
<1>3. ScanInv /\ KeptInv => IndependentWhenKept
  <2> SUFFICES ASSUME ScanInv, KeptInv, scripCached = "kept"
               PROVE  /\ OnlyRequestedCancellation
                      /\ \A j \in JobIds :
                            jobs[j].status \in Terminal /\ "raised" \notin Range(stock[j])
                                => LiveStocks(j) = {}
    BY DEF IndependentWhenKept
  <2>1. OnlyRequestedCancellation
    BY DEF KeptInv, OnlyRequestedCancellation
  <2>2. ASSUME NEW j \in JobIds, jobs[j].status \in Terminal, "raised" \notin Range(stock[j])
        PROVE  LiveStocks(j) = {}
    <3>1. \A s \in Stocks : stock[j][s] # "raised"
      BY <2>2 DEF Range, ScanInv, RunnerTypeOK
    <3> QED
      BY <2>2, <3>1, SMTT(60) DEF KeptInv, ScanInv, RunnerTypeOK
  <2> QED
    BY <2>1, <2>2
<1> QED
  BY <1>1, <1>2, <1>3, ScanInvariant, PTL DEF ScanSafety
=============================================================================
