----------------------------- MODULE JobManager -----------------------------
(***************************************************************************)
(* The in-process job registry of services/scan_job_manager.py, and what   *)
(* it promises to the scan API whatever the scan itself does.  A scan is a *)
(* runner: a task that returns, raises, or is cancelled; ScanRun gives the *)
(* runners of the application and shows that they are such tasks.          *)
(*                                                                         *)
(* A ScanJob object outlives its registry entry (its task still holds it), *)
(* so `jobs` keeps every object and `registry` is JobManager._jobs.        *)
(***************************************************************************)
EXTENDS Naturals, FiniteSets

CONSTANTS
    JobIds,                \* the uuids start_job may draw
    ScanTypes,             \* "a_group", "expiry_level_1", ...
    Devices,               \* client-generated device ids
    NoDevice,              \* device_id=None, an older client
    NoType,                \* the scan type of a job that does not exist yet
    MaxConcurrentJobs,     \* MAX_CONCURRENT_JOBS_PER_SCAN_TYPE
    MaxCompletedRetained   \* MAX_COMPLETED_JOBS_RETAINED_PER_TYPE

ASSUME ConcurrencyAssumption == MaxConcurrentJobs \in Nat \ {0}
ASSUME RetentionAssumption == MaxCompletedRetained \in Nat \ {0}
ASSUME NoTypeAssumption == NoType \notin ScanTypes

VARIABLES
    jobs,             \* job id -> the ScanJob object
    registry,         \* ids held by JobManager._jobs
    cancelRequested,  \* jobs whose task has been asked to cancel
    finishes          \* how many jobs have finished: the order of completion_time

managerVars == <<jobs, registry, cancelRequested, finishes>>

DeviceIds == Devices \cup {NoDevice}
Terminal == {"completed", "failed", "cancelled"}
Status == {"unborn", "running"} \cup Terminal

ScanJob == [type: ScanTypes \cup {NoType}, device: DeviceIds,
            status: Status, completedAt: Nat]

Unborn == [type |-> NoType, device |-> NoDevice, status |-> "unborn", completedAt |-> 0]

-----------------------------------------------------------------------------
\* The running jobs of one scan type, as start_job counts them.
RunningSameType(t) == {j \in registry : jobs[j].type = t /\ jobs[j].status = "running"}

SameDevice(t, d) == {j \in RunningSameType(t) : jobs[j].device = d}

\* JobManager.get: without a device id every job of the registry is visible.
Get(j, d) == j \in registry /\ (d # NoDevice => jobs[j].device = d)

\* The finished jobs of type t among the ids of reg, and those of them that
\* finished after k.
FinishedIn(js, reg, t) == {j \in reg : js[j].type = t /\ js[j].status \in Terminal}
NewerThan(js, reg, k) ==
    {m \in FinishedIn(js, reg, js[k].type) : js[m].completedAt > js[k].completedAt}

EvictOldCompletedJobs_OldestKept(js, reg, t) ==
    {k \in reg : k \in FinishedIn(js, reg, t) =>
        Cardinality({m \in FinishedIn(js, reg, t) : js[m].completedAt < js[k].completedAt})
            < MaxCompletedRetained}
\* _evict_old_completed_jobs: the registry without the finished jobs of type t
\* that come after the first MaxCompletedRetained, newest first.
EvictOldCompletedJobs(js, reg, t) ==
    {k \in reg : k \in FinishedIn(js, reg, t)
                    => Cardinality(NewerThan(js, reg, k)) < MaxCompletedRetained}

-----------------------------------------------------------------------------
ManagerInit ==
    /\ jobs = [j \in JobIds |-> Unborn]
    /\ registry = {}
    /\ cancelRequested = {}
    /\ finishes = 0

\* Mutant: the cap is compared with > instead of >=.
StartJob_OffByOne(j, t, d) ==
    /\ jobs[j].status = "unborn"
    /\ SameDevice(t, d) = {}
    /\ Cardinality(RunningSameType(t)) <= MaxConcurrentJobs
    /\ jobs' = [jobs EXCEPT ![j] =
                   [type |-> t, device |-> d, status |-> "running", completedAt |-> 0]]
    /\ registry' = registry \cup {j}
    /\ UNCHANGED <<cancelRequested, finishes>>

\* start_job: one running job per scan type and device, at most
\* MaxConcurrentJobs per scan type over all devices, under a fresh uuid.
StartJob(j, t, d) ==
    /\ jobs[j].status = "unborn"
    /\ SameDevice(t, d) = {}
    /\ Cardinality(RunningSameType(t)) < MaxConcurrentJobs
    /\ jobs' = [jobs EXCEPT ![j] =
                   [type |-> t, device |-> d, status |-> "running", completedAt |-> 0]]
    /\ registry' = registry \cup {j}
    /\ UNCHANGED <<cancelRequested, finishes>>

\* Mutants: the status the API answers with is stored in the job; the status of
\* the job is not looked at.
CancelJob_StoresCancelling(j, d) ==
    /\ Get(j, d)
    /\ jobs[j].status = "running"
    /\ jobs' = [jobs EXCEPT ![j].status = "cancelling"]
    /\ cancelRequested' = cancelRequested \cup {j}
    /\ UNCHANGED <<registry, finishes>>
CancelJob_EndedToo(j, d) ==
    /\ Get(j, d)
    /\ cancelRequested' = cancelRequested \cup {j}
    /\ UNCHANGED <<jobs, registry, finishes>>

\* cancel: only asks the task; the job keeps running until its task has
\* received the CancelledError.
CancelJob(j, d) ==
    /\ Get(j, d)
    /\ jobs[j].status = "running"
    /\ cancelRequested' = cancelRequested \cup {j}
    /\ UNCHANGED <<jobs, registry, finishes>>

\* The end of _execute: the status, and in its finally the completion time and
\* the eviction.
Finish(j, outcome) ==
    /\ jobs[j].status = "running"
    /\ finishes' = finishes + 1
    /\ jobs' = [jobs EXCEPT ![j].status = outcome, ![j].completedAt = finishes + 1]
    /\ registry' = EvictOldCompletedJobs(jobs', registry, jobs[j].type)
    /\ UNCHANGED cancelRequested

\* A task that has been asked to cancel gets the CancelledError at its next
\* step: it cannot return or raise anything else.
RunnerReturns(j) == j \notin cancelRequested /\ Finish(j, "completed")
RunnerRaises(j) == j \notin cancelRequested /\ Finish(j, "failed")
\* `except CancelledError` does not ask where the exception comes from.
RunnerCancelled(j) == Finish(j, "cancelled")

ManagerNext ==
    \E j \in JobIds :
        \/ \E t \in ScanTypes, d \in DeviceIds : StartJob(j, t, d)
        \/ \E d \in DeviceIds : CancelJob(j, d)
        \/ RunnerReturns(j)
        \/ RunnerRaises(j)
        \/ RunnerCancelled(j)

ManagerSpec == ManagerInit /\ [][ManagerNext]_managerVars

-----------------------------------------------------------------------------
\* Type invariant of the registry.
ManagerTypeOK ==
    /\ jobs \in [JobIds -> ScanJob]
    /\ registry \subseteq JobIds
    /\ cancelRequested \subseteq JobIds
    /\ finishes \in Nat

\* A device never has two running jobs of one scan type: start_job rejects the
\* second with ScanAlreadyRunningError (409), also while a cancellation of the
\* first is still on its way.
OneRunningPerDevice ==
    \A j, k \in JobIds :
        /\ jobs[j].status = "running" /\ jobs[k].status = "running"
        /\ jobs[j].type = jobs[k].type /\ jobs[j].device = jobs[k].device
        => j = k

\* MAX_CONCURRENT_JOBS_PER_SCAN_TYPE bounds the running jobs of a scan type
\* over all devices, counted on the job objects and not on the registry.
ConcurrencyCap ==
    \A t \in ScanTypes :
        Cardinality({j \in JobIds : jobs[j].type = t /\ jobs[j].status = "running"})
            <= MaxConcurrentJobs

\* The registry never keeps more than MAX_COMPLETED_JOBS_RETAINED_PER_TYPE
\* finished jobs of a scan type (the out-of-memory fix of the module's comment).
RetentionBound ==
    \A t \in ScanTypes : Cardinality(FinishedIn(jobs, registry, t)) <= MaxCompletedRetained

\* The three limits of the registry together.
Limits == OneRunningPerDevice /\ ConcurrencyCap /\ RetentionBound

\* Eviction takes the oldest first and only what is over the bound: a finished
\* job that is gone from the registry has MaxCompletedRetained finished jobs of
\* its type in the registry that all finished after it.
EvictedAreOldest ==
    \A k \in JobIds \ registry :
        jobs[k].status \in Terminal =>
            Cardinality(NewerThan(jobs, registry, k)) >= MaxCompletedRetained

\* "Never touches a still-running job": whoever polls a running job finds it.
RunningAreListed ==
    \A j \in JobIds : jobs[j].status = "running" => j \in registry

\* What is evicted is old and over: a poll finds every job that runs and the
\* newest of those that have ended.
EvictionSparesNewest == EvictedAreOldest /\ RunningAreListed

\* A job that has ended never changes again, and a cancel that arrives after
\* the end is refused.
EndedIsFinal ==
    [][\A j \in JobIds : jobs[j].status \in Terminal =>
           /\ jobs'[j] = jobs[j]
           /\ (j \in cancelRequested') = (j \in cancelRequested)]_managerVars
=============================================================================
