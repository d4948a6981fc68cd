------------------------------ MODULE ScanRun -------------------------------
(***************************************************************************)
(* The runners behind JobManager: what a scan job does between its start   *)
(* and its end.  One child task per stock under asyncio.gather, a fetch    *)
(* semaphore per job, the scrip-master download that the jobs of the whole *)
(* process share, the worker threads of the A Group scan, and the 24-hour  *)
(* result cache the jobs leave behind.                                     *)
(*                                                                         *)
(* ThreadedTypes is {"a_group"} in the code: only that scan has a per-stock *)
(* timeout, analyses in worker threads outside any try, and finalizes in a *)
(* thread.  The other scans analyse inline under `except Exception`.       *)
(* UniverseOptionalTypes are the expiry scans, which carry on with an empty *)
(* universe when it cannot be loaded.                                      *)
(***************************************************************************)
EXTENDS JobManager, Sequences, SequencesExt

CONSTANTS
    Stocks,                 \* the A Group universe
    NoJob,                  \* no result in the cache
    FetchPermits,           \* permits of a job's fetch semaphore
    ThreadedTypes,
    UniverseOptionalTypes,
    ScripMasterAtStart,     \* how a run may find the scrip master: "missing", "kept"
    WorkMayRaise            \* can the analysis of a stock raise, or what is done with the outcome?

ASSUME StocksAssumption == IsFiniteSet(Stocks)
ASSUME PermitAssumption == FetchPermits \in Nat \ {0}
ASSUME TypesAssumption == ThreadedTypes \subseteq ScanTypes /\ UniverseOptionalTypes \subseteq ScanTypes
ASSUME FlagsAssumption == ScripMasterAtStart \subseteq {"missing", "kept"} /\ WorkMayRaise \in BOOLEAN
ASSUME NoJobAssumption == NoJob \notin JobIds

VARIABLES
    phase,          \* job id -> where its runner is
    universe,       \* job id -> the stocks it gathers over
    stock,          \* job id -> stock -> state of the child task
    gatherResult,   \* job id -> the exception the gather future holds, if any
    progressLog,    \* job id -> ScanJob.progress_log, the <<symbol, success>> pairs
    finalizers,     \* jobs whose _finalize_a_group thread has not written yet
    download,       \* the shared task of _fetch_scrip_master
    scripCached,    \* the scrip master in the cache; "kept": for the whole run
    resultCache     \* scan type -> the job whose result the 24 h cache holds

scanVars == <<phase, universe, stock, gatherResult, progressLog, finalizers,
              download, scripCached, resultCache>>
vars == <<managerVars, scanVars>>

Waiting == {"resolving"}
HoldingPermit == {"resolving", "fetching", "fetchFailed", "analysing"}
Live == {"queued", "evaluating"} \cup HoldingPermit
StockState == {"idle", "ok", "failed", "raised", "cancelled"} \cup Live

LiveStocks(j) == {s \in Stocks : stock[j][s] \in Live}
Reported(j) == {progressLog[j][i][1] : i \in DOMAIN progressLog[j]}
Threaded(j) == jobs[j].type \in ThreadedTypes

-----------------------------------------------------------------------------
ScanInit ==
    /\ ManagerInit
    /\ phase = [j \in JobIds |-> "none"]
    /\ universe = [j \in JobIds |-> {}]
    /\ stock = [j \in JobIds |-> [s \in Stocks |-> "idle"]]
    /\ gatherResult = [j \in JobIds |-> "none"]
    /\ progressLog = [j \in JobIds |-> <<>>]
    /\ finalizers = {}
    /\ download = "idle"
    /\ scripCached \in ScripMasterAtStart
    /\ resultCache = [t \in ScanTypes |-> NoJob]

-----------------------------------------------------------------------------
(* The scan API.                                                           *)

\* POST /fresh: always a new job.
FreshScan(j, t, d) ==
    /\ StartJob(j, t, d)
    /\ phase' = [phase EXCEPT ![j] = "created"]
    /\ UNCHANGED <<universe, stock, gatherResult, progressLog, finalizers, download,
                   scripCached, resultCache>>

\* POST /start: a cached result is served instead, and nothing changes.
StartScan(j, t, d) == resultCache[t] = NoJob /\ FreshScan(j, t, d)

\* Mutant: only the children that hold a permit are cancelled.
CancelScan_QueuedSurvive(j, d) ==
    LET hit == IF phase[j] = "scanning" /\ gatherResult[j] = "none"
               THEN {s \in Stocks : stock[j][s] \in HoldingPermit} ELSE {}
    IN  /\ phase[j] \in {"scanning", "finalizing"}
        /\ CancelJob(j, d)
        /\ stock' = [stock EXCEPT ![j] =
                        [s \in Stocks |-> IF s \in hit THEN "cancelled" ELSE @[s]]]
        /\ gatherResult' = [gatherResult EXCEPT ![j] = IF hit # {} THEN "cancelled" ELSE @]
        /\ UNCHANGED <<phase, universe, progressLog, finalizers, download, scripCached, resultCache>>

\* POST /jobs/{id}/cancel: Task.cancel goes down synchronously to whatever the
\* job awaits.  While the gather is pending that is every unfinished child, and
\* through a child that awaits the scrip master the shared download task; a
\* gather that already holds an exception passes nothing on.  (A job id leaves
\* the process in a response, so the task has made its first step by then.)
CancelScan(j, d) ==
    LET hit == IF phase[j] = "scanning" /\ gatherResult[j] = "none" THEN LiveStocks(j) ELSE {}
    IN  /\ phase[j] \in {"scanning", "finalizing"}
        /\ CancelJob(j, d)
        /\ stock' = [stock EXCEPT ![j] =
                        [s \in Stocks |-> IF s \in hit THEN "cancelled" ELSE @[s]]]
        /\ gatherResult' = [gatherResult EXCEPT ![j] = IF hit # {} THEN "cancelled" ELSE @]
        /\ download' = IF \E s \in hit : stock[j][s] \in Waiting THEN "cancelling" ELSE download
        /\ UNCHANGED <<phase, universe, progressLog, finalizers, scripCached, resultCache>>

\* DELETE /cache/{type}, or the entry's 24 hours are over.
ResultCacheCleared(t) ==
    /\ resultCache[t] # NoJob
    /\ resultCache' = [resultCache EXCEPT ![t] = NoJob]
    /\ UNCHANGED <<managerVars, phase, universe, stock, gatherResult, progressLog,
                   finalizers, download, scripCached>>

-----------------------------------------------------------------------------
(* The runner.                                                             *)

\* The first step of the task: the universe is loaded, the children created.
RunnerBegins(j) ==
    /\ phase[j] = "created"
    /\ phase' = [phase EXCEPT ![j] = "scanning"]
    /\ \E u \in {Stocks} \cup (IF jobs[j].type \in UniverseOptionalTypes THEN {{}} ELSE {}) :
          /\ universe' = [universe EXCEPT ![j] = u]
          /\ stock' = [stock EXCEPT ![j] = [s \in Stocks |-> IF s \in u THEN "queued" ELSE "idle"]]
    /\ UNCHANGED <<managerVars, gatherResult, progressLog, finalizers, download, scripCached, resultCache>>

\* load_a_group_universe raises in a scan that needs it.
UniverseUnavailable(j) ==
    /\ phase[j] = "created"
    /\ jobs[j].type \notin UniverseOptionalTypes
    /\ RunnerRaises(j)
    /\ phase' = [phase EXCEPT ![j] = "over"]
    /\ UNCHANGED <<universe, stock, gatherResult, progressLog, finalizers, download,
                   scripCached, resultCache>>

\* Mutant: gather(..., return_exceptions=True).
GatherDone_ReturnExceptions(j) == phase[j] = "scanning" /\ LiveStocks(j) = {}

GatherDone(j) ==
    phase[j] = "scanning" /\ gatherResult[j] = "none" /\ LiveStocks(j) = {}

\* An inline scan returns: the cache is replaced and the job completed in one
\* step of the task.
InlineScanReturns(j) ==
    /\ GatherDone(j)
    /\ ~Threaded(j)
    /\ RunnerReturns(j)
    /\ resultCache' = [resultCache EXCEPT ![jobs[j].type] = j]
    /\ phase' = [phase EXCEPT ![j] = "over"]
    /\ UNCHANGED <<universe, stock, gatherResult, progressLog, finalizers, download, scripCached>>

\* Making a payload of the outcome raises; or, in the expiry scans, making rows
\* for Excel of the payload, which the cache has by then.
InlineScanFails(j) ==
    /\ WorkMayRaise
    /\ GatherDone(j)
    /\ ~Threaded(j)
    /\ RunnerRaises(j)
    /\ \/ UNCHANGED resultCache
       \/ jobs[j].type \in UniverseOptionalTypes /\ resultCache' = [resultCache EXCEPT ![jobs[j].type] = j]
    /\ phase' = [phase EXCEPT ![j] = "over"]
    /\ UNCHANGED <<universe, stock, gatherResult, progressLog, finalizers, download, scripCached>>

\* The A Group runner hands its outcome to asyncio.to_thread(_finalize_a_group).
FinalizeBegins(j) ==
    /\ GatherDone(j)
    /\ Threaded(j)
    /\ j \notin cancelRequested
    /\ phase' = [phase EXCEPT ![j] = "finalizing"]
    /\ finalizers' = finalizers \cup {j}
    /\ UNCHANGED <<managerVars, universe, stock, gatherResult, progressLog, download,
                   scripCached, resultCache>>

\* The thread writes the cache.  Nothing stops a thread: not the cancellation
\* of the task that waits for it.
FinalizerWrites(j) ==
    /\ j \in finalizers
    /\ finalizers' = finalizers \ {j}
    /\ resultCache' = [resultCache EXCEPT ![jobs[j].type] = j]
    /\ UNCHANGED <<managerVars, phase, universe, stock, gatherResult, progressLog, download, scripCached>>

\* The thread cannot make a payload of the outcome: the task that waits for it
\* raises, unless it has been cancelled and waits no longer.
FinalizerRaises(j) ==
    /\ WorkMayRaise
    /\ j \in finalizers
    /\ finalizers' = finalizers \ {j}
    /\ IF phase[j] = "finalizing" /\ j \notin cancelRequested
       THEN RunnerRaises(j) /\ phase' = [phase EXCEPT ![j] = "over"]
       ELSE UNCHANGED <<managerVars, phase>>
    /\ UNCHANGED <<universe, stock, gatherResult, progressLog, download, scripCached, resultCache>>

\* Mutant: the cancellation is swallowed while the runner waits for the thread.
FinalizeReturns_Shielded(j) ==
    /\ phase[j] = "finalizing"
    /\ j \notin finalizers
    /\ Finish(j, "completed")
    /\ phase' = [phase EXCEPT ![j] = "over"]
    /\ UNCHANGED <<universe, stock, gatherResult, progressLog, finalizers, download,
                   scripCached, resultCache>>

FinalizeReturns(j) ==
    /\ phase[j] = "finalizing"
    /\ j \notin finalizers
    /\ RunnerReturns(j)
    /\ phase' = [phase EXCEPT ![j] = "over"]
    /\ UNCHANGED <<universe, stock, gatherResult, progressLog, finalizers, download,
                   scripCached, resultCache>>

\* The gather raises what the first failing child raised; its other children run on.
GatherRaises(j) ==
    /\ phase[j] = "scanning"
    /\ gatherResult[j] # "none"
    /\ IF j \in cancelRequested \/ gatherResult[j] = "cancelled"
       THEN RunnerCancelled(j)
       ELSE RunnerRaises(j)
    /\ phase' = [phase EXCEPT ![j] = "over"]
    /\ UNCHANGED <<universe, stock, gatherResult, progressLog, finalizers, download,
                   scripCached, resultCache>>

\* The CancelledError reaches a task that waits for its finalizer, or whose
\* gather was done when cancel was called.
CancelDelivered(j) ==
    /\ j \in cancelRequested
    /\ GatherDone(j) \/ phase[j] = "finalizing"
    /\ RunnerCancelled(j)
    /\ phase' = [phase EXCEPT ![j] = "over"]
    /\ UNCHANGED <<universe, stock, gatherResult, progressLog, finalizers, download,
                   scripCached, resultCache>>

-----------------------------------------------------------------------------
(* The child task of one stock.  It acts on its own state only: it goes on  *)
(* when its job has ended without cancelling it.                            *)

SetStock(j, s, state) == stock' = [stock EXCEPT ![j][s] = state]

\* record_progress.
Report(j, s, success) ==
    /\ SetStock(j, s, IF success THEN "ok" ELSE "failed")
    /\ progressLog' = [progressLog EXCEPT ![j] = Append(@, <<s, success>>)]
    /\ UNCHANGED <<managerVars, phase, universe, gatherResult, finalizers, download,
                   scripCached, resultCache>>

OnlyStockMoves(j, s, state) ==
    /\ SetStock(j, s, state)
    /\ UNCHANGED <<managerVars, phase, universe, gatherResult, progressLog, finalizers,
                   download, scripCached, resultCache>>

\* The semaphore, then _fetch_scrip_master: the cached rows, or the download in
\* flight (also one that is being cancelled: its task is not done yet), or a new one.
AcquirePermit(j, s) ==
    /\ stock[j][s] = "queued"
    /\ Cardinality({r \in Stocks : stock[j][r] \in HoldingPermit}) < FetchPermits
    /\ SetStock(j, s, IF scripCached # "missing" THEN "fetching" ELSE "resolving")
    /\ download' = IF scripCached # "missing" \/ download # "idle" THEN download ELSE "running"
    /\ UNCHANGED <<managerVars, phase, universe, gatherResult, progressLog, finalizers,
                   scripCached, resultCache>>

\* wait_for's 75 seconds are over: the child's await is cancelled, and with it
\* the download if that is what it awaited.
FetchTimesOut(j, s) ==
    /\ Threaded(j)
    /\ stock[j][s] \in {"resolving", "fetching"}
    /\ SetStock(j, s, "fetchFailed")
    /\ download' = IF stock[j][s] \in Waiting THEN "cancelling" ELSE download
    /\ UNCHANGED <<managerVars, phase, universe, gatherResult, progressLog, finalizers,
                   scripCached, resultCache>>

FetchSucceeds(j, s) ==
    /\ stock[j][s] = "fetching"
    /\ IF Threaded(j) THEN OnlyStockMoves(j, s, "analysing") ELSE Report(j, s, TRUE)

FetchFails(j, s) == stock[j][s] = "fetching" /\ Report(j, s, FALSE)

FailureReported(j, s) == stock[j][s] = "fetchFailed" /\ Report(j, s, FALSE)

\* analyze_stock in a worker thread, still inside the semaphore.
AnalysisEnds(j, s) ==
    /\ stock[j][s] = "analysing"
    /\ OnlyStockMoves(j, s, "evaluating") \/ Report(j, s, FALSE)

\* _evaluate_all_strategies in the shared pool, outside the semaphore.
EvaluationEnds(j, s) == stock[j][s] = "evaluating" /\ Report(j, s, TRUE)

\* Neither thread call is inside a try: the exception ends the child.
AnalysisRaises(j, s) ==
    /\ WorkMayRaise
    /\ stock[j][s] \in {"analysing", "evaluating"}
    /\ SetStock(j, s, "raised")
    /\ gatherResult' = [gatherResult EXCEPT ![j] = IF @ = "none" THEN "error" ELSE @]
    /\ UNCHANGED <<managerVars, phase, universe, progressLog, finalizers, download,
                   scripCached, resultCache>>

-----------------------------------------------------------------------------
(* The shared scrip-master download.                                       *)

Waiters(j) == {s \in Stocks : stock[j][s] \in Waiting}

\* Mutant: the waiters whose job is already over are forgotten.
WaitersMoveTo_RunningOnly(state) ==
    stock' = [j \in JobIds |-> [s \in Stocks |->
                IF s \in Waiters(j) /\ jobs[j].status = "running" THEN state ELSE stock[j][s]]]

WaitersMoveTo(state) ==
    stock' = [j \in JobIds |-> [s \in Stocks |-> IF s \in Waiters(j) THEN state ELSE stock[j][s]]]

DownloadSucceeds ==
    /\ download = "running"
    /\ download' = "idle"
    /\ scripCached' = "cached"
    /\ WaitersMoveTo("fetching")
    /\ UNCHANGED <<managerVars, phase, universe, gatherResult, progressLog, finalizers, resultCache>>

\* Mutant: the failure of the download is not passed to those who wait for it.
DownloadFails_WakesNobody ==
    /\ download = "running"
    /\ download' = "idle"
    /\ UNCHANGED <<managerVars, phase, universe, stock, gatherResult, progressLog, finalizers,
                   scripCached, resultCache>>

DownloadFails ==
    /\ download = "running"
    /\ download' = "idle"
    /\ WaitersMoveTo("fetchFailed")
    /\ UNCHANGED <<managerVars, phase, universe, gatherResult, progressLog, finalizers,
                   scripCached, resultCache>>

\* `await task` raises the task's CancelledError in every waiter, and `except
\* Exception` does not catch it.
DownloadCancelled ==
    /\ download = "cancelling"
    /\ download' = "idle"
    /\ WaitersMoveTo("cancelled")
    /\ gatherResult' = [j \in JobIds |->
                          IF gatherResult[j] = "none" /\ Waiters(j) # {} THEN "cancelled"
                                                                         ELSE gatherResult[j]]
    /\ UNCHANGED <<managerVars, phase, universe, progressLog, finalizers, scripCached, resultCache>>

\* The scrip master's own 24 hours are over.
ScripMasterExpires ==
    /\ scripCached = "cached"
    /\ scripCached' = "missing"
    /\ UNCHANGED <<managerVars, phase, universe, stock, gatherResult, progressLog,
                   finalizers, download, resultCache>>

-----------------------------------------------------------------------------
Api(j) ==
    \/ \E t \in ScanTypes, d \in DeviceIds : StartScan(j, t, d) \/ FreshScan(j, t, d)
    \/ \E d \in DeviceIds : CancelScan(j, d)

Runner(j) ==
    \/ RunnerBegins(j)
    \/ UniverseUnavailable(j)
    \/ InlineScanReturns(j)
    \/ InlineScanFails(j)
    \/ FinalizeBegins(j)
    \/ FinalizerWrites(j)
    \/ FinalizerRaises(j)
    \/ FinalizeReturns(j)
    \/ GatherRaises(j)
    \/ CancelDelivered(j)

ChildProgress(j, s) ==
    \/ FetchSucceeds(j, s)
    \/ FetchFails(j, s)
    \/ FailureReported(j, s)
    \/ AnalysisEnds(j, s)
    \/ EvaluationEnds(j, s)
    \/ AnalysisRaises(j, s)

DownloadEnds == DownloadSucceeds \/ DownloadFails \/ DownloadCancelled

ScanNext ==
    \/ \E j \in JobIds : Api(j) \/ Runner(j)
    \/ \E j \in JobIds, s \in Stocks : AcquirePermit(j, s) \/ FetchTimesOut(j, s) \/ ChildProgress(j, s)
    \/ \E t \in ScanTypes : ResultCacheCleared(t)
    \/ DownloadEnds
    \/ ScripMasterExpires

ScanSafety == ScanInit /\ [][ScanNext]_vars

\* The event loop runs every ready task; each HTTP call has a timeout and each
\* thread ends.  Nothing makes a user start, cancel or clear anything, and no
\* timeout has to fire.  The semaphore is first in first out, so a waiting
\* child gets a permit that is released again and again.
ScanSpec ==
    /\ ScanSafety
    /\ WF_vars(DownloadEnds)
    /\ \A j \in JobIds : WF_vars(Runner(j))
    /\ \A j \in JobIds, s \in Stocks : SF_vars(AcquirePermit(j, s)) /\ WF_vars(ChildProgress(j, s))

-----------------------------------------------------------------------------
\* Type invariant of the runners.
ScanTypeOK ==
    /\ ManagerTypeOK
    /\ phase \in [JobIds -> {"none", "created", "scanning", "finalizing", "over"}]
    /\ universe \in [JobIds -> SUBSET Stocks]
    /\ stock \in [JobIds -> [Stocks -> StockState]]
    /\ gatherResult \in [JobIds -> {"none", "error", "cancelled"}]
    /\ progressLog \in [JobIds -> Seq(Stocks \X BOOLEAN)]
    /\ finalizers \subseteq JobIds
    /\ download \in {"idle", "running", "cancelling"}
    /\ scripCached \in {"missing", "cached", "kept"}
    /\ resultCache \in [ScanTypes -> JobIds \cup {NoJob}]

\* A job is completed only when every stock of its universe has been reported
\* exactly once (the progress log a browser keeps is complete and gap-free) and
\* none of its children is still at work.
CompletedCoversUniverse ==
    \A j \in JobIds : jobs[j].status = "completed" =>
        /\ Reported(j) = universe[j]
        /\ Len(progressLog[j]) = Cardinality(universe[j])
        /\ LiveStocks(j) = {}

\* What POST /start serves from the 24-hour cache is a whole scan of that type:
\* never the partial outcome of a job whose children failed or were cut short.
CacheHoldsWholeScan ==
    \A t \in ScanTypes : resultCache[t] # NoJob =>
        LET j == resultCache[t]
        IN  jobs[j].type = t /\ Reported(j) = universe[j]

\* What a job leaves behind is whole, whether the page reads it or the cache serves it.
ResultsAreWhole == CompletedCoversUniverse /\ CacheHoldsWholeScan

\* A failed or cancelled fresh scan never replaces the previous cache.
CacheOnlyFromSuccess ==
    \A t \in ScanTypes : resultCache[t] # NoJob =>
        jobs[resultCache[t]].status \notin {"failed", "cancelled"}

\* A job ends as cancelled only if somebody asked for its cancellation: the
\* jobs of the process "can run concurrently without cancelling one another".
OnlyRequestedCancellation ==
    \A j \in JobIds : jobs[j].status = "cancelled" => j \in cancelRequested

\* Nobody awaits a scrip-master download that no longer exists: every waiter of
\* every job is woken by the end of the download it joined.
WaitersHaveDownload ==
    (\E j \in JobIds : Waiters(j) # {}) => download # "idle"

\* Children, gathers and the download they share fit together.
RunnersAreSound == ScanTypeOK /\ WaitersHaveDownload

\* While the scrip master stays cached the jobs are independent: none is
\* cancelled unless asked to be, and one none of whose analyses raised leaves
\* no fetch or analysis behind when it ends.
IndependentWhenKept ==
    scripCached = "kept" =>
        /\ OnlyRequestedCancellation
        /\ \A j \in JobIds :
               jobs[j].status \in Terminal /\ "raised" \notin Range(stock[j]) => LiveStocks(j) = {}

\* "one bad symbol must never crash the whole scan": a scan fails only when
\* its universe cannot be loaded.
BadSymbolNeverFailsScan ==
    \A j \in JobIds : jobs[j].status = "failed" => universe[j] = {}

\* MAX_CONCURRENT_JOBS_PER_SCAN_TYPE "exists only to bound that per-job memory":
\* at most so many jobs of one type hold results of stocks they work on.
WorkingJobsCapped ==
    \A t \in ScanTypes :
        Cardinality({j \in JobIds : jobs[j].type = t /\ LiveStocks(j) # {}}) <= MaxConcurrentJobs

\* The fetch semaphore "limits only the Angel One fetch, not the CPU work": while
\* fewer than FetchPermits stocks of a job are being fetched, a permit is free.
PermitsOnlyForFetches ==
    \A j \in JobIds :
        LET Fetching == {s \in Stocks : stock[j][s] \in HoldingPermit \ {"analysing"}}
        IN  Cardinality(Fetching) < FetchPermits =>
                Cardinality({s \in Stocks : stock[j][s] \in HoldingPermit}) < FetchPermits

\* Every job that starts comes to an end, whatever is cancelled, timed out or
\* lost on the way.
EveryJobEnds ==
    \A j \in JobIds : jobs[j].status = "running" ~> jobs[j].status \in Terminal

\* An accepted cancellation leads to the status "cancelled", and not to a result.
CancelLeadsToCancelled ==
    \A j \in JobIds : j \in cancelRequested ~> jobs[j].status = "cancelled"
=============================================================================
