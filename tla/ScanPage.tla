------------------------------ MODULE ScanPage ------------------------------
(***************************************************************************)
(* A page that shows one scan: the hook useScanJob of the browser on top   *)
(* of the scan API, whose registry is JobManager.  The page starts jobs,   *)
(* polls the one it follows, and restores what it can when it is opened.   *)
(* Every request may be lost, with or without having been served, and      *)
(* every answer arrives in a page that may have moved on meanwhile.        *)
(*                                                                         *)
(* A step of the page lasts from one await to the next; React shows what   *)
(* was set during the step as a whole.  A poll loop is known by its        *)
(* generation.  The stocks of a scan are numbered in the order in which    *)
(* they are reported; Signals are those that qualify for a strategy.       *)
(***************************************************************************)
EXTENDS JobManager, Sequences

CONSTANTS
    ThisType, ThisDevice,   \* what this page scans, and for whom
    Total,                  \* stocks of a scan
    Signals,                \* the qualifying ones
    NoJob,
    Clicks,                 \* uses of the two start buttons (bound)
    StartAttempts,          \* START_RETRY_ATTEMPTS
    Mishaps,                \* the kinds of mishap that occur
    MishapLimit             \* how many of them (bound)

ASSUME PageAssumption == ThisType \in ScanTypes /\ ThisDevice \in Devices /\ NoJob \notin JobIds
ASSUME StocksAssumption == Total \in Nat /\ Signals \subseteq 1 .. Total
ASSUME MishapAssumption ==
    StartAttempts \in Nat \ {0} /\ MishapLimit \in Nat
        /\ Mishaps \subseteq {"lost", "restart", "reload", "expiry"}
ASSUME UserAssumption == IsFiniteSet(Clicks)

VARIABLES
    processed,     \* job -> stocks reported so far
    serverCache,   \* the job whose result the 24 h cache of the backend holds
    view,          \* what React shows
    mounted,
    refs,          \* the refs of the hook
    loops,         \* generation -> the poll loop
    click,         \* click -> the run() or runFresh() it has begun
    restore,       \* the effect that runs when the page is opened
    cancelCalls,   \* jobs for which a cancel request is on its way
    local,         \* the job whose result the device's own cache holds
    mishapsLeft

server == <<managerVars, processed, serverCache>>
vars == <<server, view, mounted, refs, loops, click, restore, cancelCalls, local, mishapsLeft>>

Generations == 1 .. Cardinality(Clicks) + 1
Stream == {"partial", "progress"}
AnyJob == JobIds \cup {NoJob}

Issue == {"none", "unavailable", "interrupted", "error"}
LoopStep == {"none", "asking", "partial", "progress", "results", "sleeping", "over"}
ClickStep == {"idle", "local", "sent", "answered", "adopting", "over"}
Reply == {"none", "cached", "started", "conflict", "refused"}
RestoreStep == {"local", "list", "results", "cache", "over"}

NoCursor == [s \in Stream |-> 0]
NoItems == [s \in Stream |-> << >>]

\* What a page starts with when it is opened or reloaded.
NewView == [result |-> NoJob, job |-> NoJob, running |-> FALSE, issue |-> "none",
            items |-> NoItems]
NewRefs == [active |-> NoJob, generation |-> 0, timer |-> 0, failing |-> FALSE, cursor |-> NoCursor]
NoLoop == [job |-> NoJob, step |-> "none", status |-> "unborn", count |-> 0, after |-> 0]
Ended == [NoLoop EXCEPT !.step = "over"]
NoLoops == [g \in Generations |-> NoLoop]
NewRestore == [step |-> "local", job |-> NoJob]
Restored == [step |-> "over", job |-> NoJob]

Init ==
    /\ ManagerInit
    /\ processed = [j \in JobIds |-> 0]
    /\ serverCache = NoJob
    /\ view = NewView /\ mounted = TRUE /\ refs = NewRefs /\ loops = NoLoops
    /\ click = [c \in Clicks |-> [step |-> "idle", fresh |-> FALSE, attempt |-> 1,
                                  reply |-> "none", job |-> NoJob]]
    /\ restore = NewRestore
    /\ cancelCalls = {}
    /\ local = NoJob
    /\ mishapsLeft = MishapLimit

-----------------------------------------------------------------------------
(* The backend.  What its jobs do is ScanRun's business: here they report   *)
(* their stocks and end.                                                    *)

\* The bound on what may go wrong.
Mishap(kind) == kind \in Mishaps /\ mishapsLeft > 0 /\ mishapsLeft' = mishapsLeft - 1

Hidden == <<view, mounted, refs, loops, click, restore, cancelCalls, local, mishapsLeft>>

StockReported(j) ==
    /\ jobs[j].status = "running" /\ j \notin cancelRequested /\ processed[j] < Total
    /\ processed' = [processed EXCEPT ![j] = @ + 1]
    /\ UNCHANGED <<managerVars, serverCache, Hidden>>

JobEnds(j) ==
    /\ \/ processed[j] = Total /\ RunnerReturns(j) /\ serverCache' = j
       \/ RunnerRaises(j) /\ UNCHANGED serverCache
       \/ j \in cancelRequested /\ RunnerCancelled(j) /\ UNCHANGED serverCache
    /\ UNCHANGED <<processed, Hidden>>

\* Another tab of this device starts the scan, or stops it.
OtherTabStarts(j) ==
    /\ StartJob(j, ThisType, ThisDevice)
    /\ UNCHANGED <<processed, serverCache, Hidden>>

OtherTabStops(j) ==
    /\ j \notin cancelRequested /\ CancelJob(j, ThisDevice)
    /\ UNCHANGED <<processed, serverCache, Hidden>>

\* The registry is lost with the process, the cache has its file.
BackendRestarts ==
    /\ Mishap("restart") /\ registry # {}
    /\ registry' = {}
    /\ jobs' = [j \in JobIds |->
                  IF jobs[j].status = "running" THEN [jobs[j] EXCEPT !.status = "cancelled"] ELSE jobs[j]]
    /\ UNCHANGED <<cancelRequested, finishes, processed, serverCache, view, mounted, refs, loops,
                   click, restore, cancelCalls, local>>

ServerCacheExpires ==
    /\ Mishap("expiry") /\ serverCache # NoJob
    /\ serverCache' = NoJob
    /\ UNCHANGED <<managerVars, processed, view, mounted, refs, loops, click, restore, cancelCalls, local>>

\* A request is lost, or its answer is.
Lost == Mishap("lost")

\* The items of a stream of the job: every processed stock, or the qualifying ones.
Items(s, j) == IF s = "progress" THEN processed[j] ELSE Cardinality(Signals \cap 1 .. processed[j])

RunningHere == {j \in registry : jobs[j].type = ThisType /\ jobs[j].device = ThisDevice
                                 /\ jobs[j].status = "running"}

-----------------------------------------------------------------------------
(* The poll loop.                                                          *)

\* Setting state in a component that has gone does nothing.
Show(v) == view' = IF mounted THEN v ELSE view

\* stopPolling: only the loop whose timer pollTimer holds is stopped.
StoppedLoops ==
    [g \in Generations |->
        IF g = refs.timer /\ loops[g].step = "sleeping" THEN Ended
                                                        ELSE loops[g]]

\* pollJob, up to the first request; v is what the caller has set before.
PollJob(j, v) ==
    LET g == refs.generation + 1
    IN  /\ refs' = [NewRefs EXCEPT !.active = j, !.generation = g]
        /\ loops' = [StoppedLoops EXCEPT ![g] = [NoLoop EXCEPT !.job = j, !.step = "asking"]]
        /\ Show([v EXCEPT !.items = NoItems])

\* Mutant: only the job is compared, as the comment in pollJob warns.
Current_JobOnly(g) == refs.active = loops[g].job

\* Neither superseded nor given up.
Current(g) == refs.active = loops[g].job /\ refs.generation = g

LoopOver(g) == loops' = [loops EXCEPT ![g] = Ended]

TimerFires(g) ==
    /\ loops[g].step = "sleeping"
    /\ IF Current(g) THEN loops' = [loops EXCEPT ![g].step = "asking"] ELSE LoopOver(g)
    /\ UNCHANGED <<server, view, mounted, refs, click, restore, cancelCalls, local, mishapsLeft>>

\* The end of tick, with the state v and the refs r of this step: what the job
\* answered is acted upon without another look at the generation.
TickEnds(g, lp, v, r) ==
    /\ Show([v EXCEPT !.running = (lp.status = "running"),
                      !.issue = IF lp.status = "failed" THEN "error" ELSE @])
    /\ refs' = IF lp.status = "running" THEN [r EXCEPT !.timer = g] ELSE r
    /\ loops' = [loops EXCEPT ![g] =
                   CASE lp.status = "running" -> [NoLoop EXCEPT !.job = lp.job, !.step = "sleeping"]
                     [] lp.status = "completed" -> [NoLoop EXCEPT !.job = lp.job, !.step = "results"]
                     [] OTHER -> Ended]

\* The two streams in turn, each only when there can be something new.
AskStreams(g, lp, v, r, todo) ==
    LET wanted(s) ==
            /\ s \in todo
            /\ \/ r.cursor[s] > 0
               \/ IF s = "progress" THEN lp.count > 0 ELSE Signals \cap 1 .. lp.count # {}
        next == IF wanted("partial") THEN "partial" ELSE "progress"
    IN  IF \E s \in todo : wanted(s)
        THEN Show(v) /\ refs' = r /\ loops' = [loops EXCEPT ![g] = [lp EXCEPT !.step = next, !.after = r.cursor[next]]]
        ELSE TickEnds(g, lp, v, r)

\* getJob is answered.
JobAnswered(g) ==
    LET j == loops[g].job
        lp == [loops[g] EXCEPT !.status = jobs[j].status, !.count = processed[j]]
    IN  /\ loops[g].step = "asking" /\ Get(j, ThisDevice)
        /\ IF Current(g)
           THEN AskStreams(g, lp, [view EXCEPT !.issue = "none", !.job = j],
                           [refs EXCEPT !.failing = FALSE], Stream)
           ELSE LoopOver(g) /\ UNCHANGED <<view, refs>>
        /\ UNCHANGED <<server, mounted, click, restore, cancelCalls, local, mishapsLeft>>

\* Mutant: tried again like any other failure.
JobGone_Retried(g) ==
    /\ loops[g].step = "asking" /\ ~Get(loops[g].job, ThisDevice)
    /\ IF Current(g)
       THEN refs' = [refs EXCEPT !.timer = g] /\ loops' = [loops EXCEPT ![g].step = "sleeping"]
       ELSE LoopOver(g) /\ UNCHANGED refs
    /\ UNCHANGED <<server, view, mounted, click, restore, cancelCalls, local, mishapsLeft>>

\* 404: the backend was restarted, and the job with it.
JobGone(g) ==
    /\ loops[g].step = "asking" /\ ~Get(loops[g].job, ThisDevice)
    /\ IF Current(g)
       THEN /\ refs' = [refs EXCEPT !.active = NoJob, !.timer = 0]
            /\ loops' = [StoppedLoops EXCEPT ![g] = Ended]
            /\ Show([view EXCEPT !.running = FALSE, !.job = NoJob, !.issue = "interrupted"])
       ELSE LoopOver(g) /\ UNCHANGED <<view, refs>>
    /\ UNCHANGED <<server, mounted, click, restore, cancelCalls, local, mishapsLeft>>

\* Mutant: a failed poll is not tried again.
JobUnavailable_NoTimer(g) ==
    /\ loops[g].step = "asking" /\ Lost
    /\ IF Current(g) THEN Show([view EXCEPT !.issue = "unavailable"]) ELSE UNCHANGED view
    /\ LoopOver(g)
    /\ UNCHANGED <<server, mounted, refs, click, restore, cancelCalls, local>>

\* No answer: tried again for the minute of the recovery window, which only a
\* second failure can find over.
JobUnavailable(g) ==
    /\ loops[g].step = "asking" /\ Lost
    /\ IF ~Current(g) THEN LoopOver(g) /\ UNCHANGED <<view, refs>>
       ELSE \/ /\ refs' = [refs EXCEPT !.failing = TRUE, !.timer = g]
               /\ Show([view EXCEPT !.issue = "unavailable"])
               /\ loops' = [loops EXCEPT ![g].step = "sleeping"]
            \/ /\ refs.failing
               /\ Show([view EXCEPT !.running = FALSE, !.issue = "unavailable"])
               /\ LoopOver(g) /\ UNCHANGED refs
    /\ UNCHANGED <<server, mounted, click, restore, cancelCalls, local>>

\* getPartial or getProgressLog is answered: the items beyond the cursor as it was
\* when the request was sent.
StreamAnswered(g) ==
    LET s == loops[g].step
        j == loops[g].job
        after == loops[g].after
        new == [i \in 1 .. Items(s, j) - after |-> <<j, after + i>>]
        taken == Current(g) /\ j \in registry /\ new # << >>
        v == IF taken THEN [view EXCEPT !.items[s] = @ \o new] ELSE view
        r == IF taken THEN [refs EXCEPT !.cursor[s] = after + Len(new)] ELSE refs
    IN  /\ s \in Stream
        /\ AskStreams(g, loops[g], v, r, IF s = "partial" THEN {"progress"} ELSE {})
        /\ UNCHANGED <<server, mounted, click, restore, cancelCalls, local, mishapsLeft>>

\* The streams are best effort.
StreamLost(g) ==
    /\ loops[g].step \in Stream /\ Lost
    /\ AskStreams(g, loops[g], view, refs, IF loops[g].step = "partial" THEN {"progress"} ELSE {})
    /\ UNCHANGED <<server, mounted, click, restore, cancelCalls, local>>

\* Mutant: without a look at the generation.
ResultsAnswered_Late(g) ==
    LET j == loops[g].job
    IN  /\ loops[g].step = "results" /\ j \in registry
        /\ LoopOver(g)
        /\ Show([view EXCEPT !.result = j]) /\ local' = j
        /\ UNCHANGED <<server, mounted, refs, click, restore, cancelCalls, mishapsLeft>>

\* getJobResults; saveLocal is not awaited.
ResultsAnswered(g) ==
    LET j == loops[g].job
    IN  /\ loops[g].step = "results" /\ j \in registry
        /\ LoopOver(g)
        /\ IF Current(g) THEN Show([view EXCEPT !.result = j]) /\ local' = j
                         ELSE UNCHANGED <<view, local>>
        /\ UNCHANGED <<server, mounted, refs, click, restore, cancelCalls, mishapsLeft>>

\* Mutant: the error is swallowed, as those of the streams are.
ResultsFail_Silent(g) ==
    /\ loops[g].step = "results"
    /\ \/ loops[g].job \notin registry /\ UNCHANGED mishapsLeft
       \/ Lost
    /\ LoopOver(g)
    /\ UNCHANGED <<server, view, mounted, refs, click, restore, cancelCalls, local>>

\* The error is shown without a look at the generation.
ResultsFail(g) ==
    /\ loops[g].step = "results"
    /\ \/ loops[g].job \notin registry /\ UNCHANGED mishapsLeft
       \/ Lost
    /\ LoopOver(g)
    /\ Show([view EXCEPT !.issue = "error"])
    /\ UNCHANGED <<server, mounted, refs, click, restore, cancelCalls, local>>

-----------------------------------------------------------------------------
(* The buttons.                                                            *)

Served == [step |-> "over", fresh |-> FALSE, attempt |-> 1, reply |-> "none", job |-> NoJob]
ClickOver(c) == click' = [click EXCEPT ![c] = Served]

\* run and runFresh; the buttons are there while nothing runs.
ClickStart(c, fresh) ==
    /\ mounted /\ ~view.running /\ click[c].step = "idle"
    /\ click' = [click EXCEPT ![c].step = "local", ![c].fresh = fresh]
    /\ Show([view EXCEPT !.issue = "none"])
    /\ UNCHANGED <<server, mounted, refs, loops, restore, cancelCalls, local, mishapsLeft>>

\* A valid result of the device's own cache is enough for run; runFresh deletes it.
LocalCacheAnswered(c) ==
    /\ click[c].step = "local"
    /\ IF click[c].fresh
       THEN /\ local' = NoJob
            /\ click' = [click EXCEPT ![c].step = "sent"]
            /\ UNCHANGED view
       ELSE /\ UNCHANGED local
            /\ IF local = NoJob
               THEN click' = [click EXCEPT ![c].step = "sent"] /\ UNCHANGED view
               ELSE /\ ClickOver(c)
                    /\ Show([view EXCEPT !.result = local, !.job = NoJob, !.running = FALSE])
    /\ UNCHANGED <<server, mounted, refs, loops, restore, cancelCalls, mishapsLeft>>

\* POST /start or /fresh is served; it is refused when other devices hold all the
\* slots of this type.
StartServed(c) ==
    LET answer(reply, j) == click' = [click EXCEPT ![c].step = "answered", ![c].reply = reply, ![c].job = j]
    IN  /\ click[c].step = "sent"
        /\ IF serverCache # NoJob /\ ~click[c].fresh
           THEN answer("cached", serverCache) /\ UNCHANGED managerVars
           ELSE IF SameDevice(ThisType, ThisDevice) # {}
           THEN (\E j \in SameDevice(ThisType, ThisDevice) : answer("conflict", j)) /\ UNCHANGED managerVars
           ELSE \/ \E j \in JobIds : StartJob(j, ThisType, ThisDevice) /\ answer("started", j)
                \/ answer("refused", NoJob) /\ UNCHANGED managerVars
        /\ UNCHANGED <<processed, serverCache, view, mounted, refs, loops, restore, cancelCalls, local, mishapsLeft>>

\* withColdStartRetry: also a request that was served is sent again when its
\* answer is lost.
StartLost(c) ==
    /\ click[c].step \in {"sent", "answered"} /\ Lost
    /\ IF click[c].attempt < StartAttempts
       THEN /\ click' = [click EXCEPT ![c].step = "sent", ![c].attempt = @ + 1]
            /\ UNCHANGED view
       ELSE /\ ClickOver(c)
            /\ Show([view EXCEPT !.issue = "error"])
    /\ UNCHANGED <<server, mounted, refs, loops, restore, cancelCalls, local>>

CachedAnswered(c) ==
    /\ click[c].step = "answered" /\ click[c].reply = "cached"
    /\ ClickOver(c)
    /\ Show([view EXCEPT !.result = click[c].job, !.job = NoJob, !.running = FALSE])
    /\ local' = click[c].job
    /\ UNCHANGED <<server, mounted, refs, loops, restore, cancelCalls, mishapsLeft>>

StartedAnswered(c) ==
    /\ click[c].step = "answered" /\ click[c].reply = "started"
    /\ ClickOver(c)
    /\ PollJob(click[c].job, [view EXCEPT !.job = click[c].job, !.running = TRUE])
    /\ UNCHANGED <<server, mounted, restore, cancelCalls, local, mishapsLeft>>

\* 409 names the job that runs already: run follows it, runFresh reports an error.
ConflictAnswered(c) ==
    /\ click[c].step = "answered" /\ click[c].reply \in {"conflict", "refused"}
    /\ IF click[c].reply = "conflict" /\ ~click[c].fresh
       THEN click' = [click EXCEPT ![c].step = "adopting"] /\ UNCHANGED view
       ELSE ClickOver(c) /\ Show([view EXCEPT !.issue = "error"])
    /\ UNCHANGED <<server, mounted, refs, loops, restore, cancelCalls, local, mishapsLeft>>

AdoptAnswered(c) ==
    LET j == click[c].job
        v == [view EXCEPT !.job = j, !.running = (jobs[j].status = "running")]
    IN  /\ click[c].step = "adopting" /\ Get(j, ThisDevice)
        /\ ClickOver(c)
        /\ IF jobs[j].status = "running" THEN PollJob(j, v) ELSE Show(v) /\ UNCHANGED <<refs, loops>>
        /\ UNCHANGED <<server, mounted, restore, cancelCalls, local, mishapsLeft>>

AdoptFails(c) ==
    /\ click[c].step = "adopting"
    /\ \/ ~Get(click[c].job, ThisDevice) /\ UNCHANGED mishapsLeft
       \/ Lost
    /\ ClickOver(c)
    /\ Show([view EXCEPT !.issue = "error"])
    /\ UNCHANGED <<server, mounted, refs, loops, restore, cancelCalls, local>>

\* cancel: the page does not wait for the backend.
ClickStop ==
    /\ mounted /\ view.running /\ view.job # NoJob
    /\ refs' = [refs EXCEPT !.active = NoJob, !.timer = 0]
    /\ loops' = StoppedLoops
    /\ Show([view EXCEPT !.running = FALSE])
    /\ cancelCalls' = cancelCalls \cup {view.job}
    /\ UNCHANGED <<server, mounted, click, restore, local, mishapsLeft>>

CancelServed(j) ==
    /\ j \in cancelCalls
    /\ cancelCalls' = cancelCalls \ {j}
    /\ IF Get(j, ThisDevice) /\ jobs[j].status = "running" THEN CancelJob(j, ThisDevice) ELSE UNCHANGED managerVars
    /\ UNCHANGED <<processed, serverCache, view, mounted, refs, loops, click, restore, local, mishapsLeft>>

CancelLost(j) ==
    /\ j \in cancelCalls /\ Lost
    /\ cancelCalls' = cancelCalls \ {j}
    /\ UNCHANGED <<server, view, mounted, refs, loops, click, restore, local>>

-----------------------------------------------------------------------------
(* Opening and leaving the page.                                           *)

RestoreLocal ==
    /\ restore.step = "local"
    /\ restore' = [step |-> "list", job |-> local]
    /\ IF local # NoJob THEN Show([view EXCEPT !.result = local]) ELSE UNCHANGED view
    /\ UNCHANGED <<server, mounted, refs, loops, click, cancelCalls, local, mishapsLeft>>

Completed == {j \in registry : jobs[j].device = ThisDevice /\ jobs[j].type = ThisType
                               /\ jobs[j].status = "completed"}

\* A running job comes first, then what the device has, then the newest
\* completed job.
RestoreLists ==
    /\ restore.step = "list"
    /\ \/ \E j \in RunningHere :
             /\ PollJob(j, [view EXCEPT !.job = j, !.running = TRUE])
             /\ restore' = Restored
       \/ /\ RunningHere = {}
          /\ \/ restore.job # NoJob /\ restore' = Restored
             \/ /\ restore.job = NoJob /\ Completed = {}
                /\ restore' = [restore EXCEPT !.step = "cache"]
             \/ /\ restore.job = NoJob
                /\ \E j \in Completed :
                     /\ \A k \in Completed : jobs[k].completedAt <= jobs[j].completedAt
                     /\ restore' = [step |-> "results", job |-> j]
          /\ UNCHANGED <<view, refs, loops>>
    /\ UNCHANGED <<server, mounted, click, cancelCalls, local, mishapsLeft>>

RestoreResults ==
    LET j == restore.job
    IN  /\ restore.step = "results"
        /\ IF j \in registry
           THEN /\ Show([view EXCEPT !.result = j, !.job = j])
                /\ local' = j
                /\ restore' = Restored
           ELSE restore' = [step |-> "cache", job |-> NoJob] /\ UNCHANGED <<view, local>>
        /\ UNCHANGED <<server, mounted, refs, loops, click, cancelCalls, mishapsLeft>>

RestoreCache ==
    /\ restore.step = "cache"
    /\ restore' = Restored
    /\ IF serverCache # NoJob THEN Show([view EXCEPT !.result = serverCache]) /\ local' = serverCache
                              ELSE UNCHANGED <<view, local>>
    /\ UNCHANGED <<server, mounted, refs, loops, click, cancelCalls, mishapsLeft>>

RestoreLost ==
    /\ restore.step \in {"list", "results", "cache"} /\ Lost
    /\ restore' = IF restore.step = "results" THEN [step |-> "cache", job |-> NoJob] ELSE Restored
    /\ UNCHANGED <<server, view, mounted, refs, loops, click, cancelCalls, local>>

\* Another page of the application: what is under way goes on unseen.
Leave ==
    /\ mounted
    /\ mounted' = FALSE
    /\ restore' = Restored
    /\ refs' = [refs EXCEPT !.active = NoJob, !.timer = 0]
    /\ loops' = StoppedLoops
    /\ UNCHANGED <<server, view, click, cancelCalls, local, mishapsLeft>>

\* The browser reloads: everything in memory is gone.
Reload ==
    /\ Mishap("reload")
    /\ view' = NewView /\ mounted' = TRUE /\ refs' = NewRefs /\ loops' = NoLoops /\ restore' = NewRestore
    /\ click' = [c \in Clicks |-> IF click[c].step = "idle" THEN click[c] ELSE Served]
    /\ UNCHANGED <<server, cancelCalls, local>>

\* 24 hours later, or in private mode.
LocalCacheExpires ==
    /\ Mishap("expiry") /\ local # NoJob
    /\ local' = NoJob
    /\ UNCHANGED <<server, view, mounted, refs, loops, click, restore, cancelCalls>>

-----------------------------------------------------------------------------
Backend ==
    \/ \E j \in JobIds : \/ StockReported(j) \/ JobEnds(j) \/ OtherTabStarts(j) \/ OtherTabStops(j)
                       \/ CancelServed(j) \/ CancelLost(j)
    \/ BackendRestarts \/ ServerCacheExpires \/ LocalCacheExpires

Poll(g) ==
    \/ TimerFires(g) \/ JobAnswered(g) \/ JobGone(g) \/ StreamAnswered(g) \/ ResultsAnswered(g)

PollLost(g) == JobUnavailable(g) \/ StreamLost(g) \/ ResultsFail(g)

Click(c) ==
    \/ LocalCacheAnswered(c) \/ StartServed(c) \/ CachedAnswered(c) \/ StartedAnswered(c)
    \/ ConflictAnswered(c) \/ AdoptAnswered(c) \/ AdoptFails(c)

Restoring == RestoreLocal \/ RestoreLists \/ RestoreResults \/ RestoreCache

PageNext ==
    \/ \E g \in Generations : Poll(g) \/ PollLost(g)
    \/ \E c \in Clicks : Click(c) \/ StartLost(c) \/ \E fresh \in BOOLEAN : ClickStart(c, fresh)
    \/ ClickStop
    \/ Restoring \/ RestoreLost
    \/ Leave \/ Reload

Next == Backend \/ PageNext

Spec == Init /\ [][Next]_vars

\* Requests have timeouts, timers fire, jobs end (ScanRun's EveryJobEnds).
LiveSpec ==
    /\ Spec
    /\ \A g \in Generations : WF_vars(Poll(g) \/ ResultsFail(g))
    /\ \A j \in JobIds : WF_vars(JobEnds(j)) /\ WF_vars(StockReported(j))

-----------------------------------------------------------------------------
\* Type invariant.
TypeOK ==
    /\ ManagerTypeOK
    /\ processed \in [JobIds -> 0 .. Total] /\ serverCache \in AnyJob /\ local \in AnyJob
    /\ view \in [result : AnyJob, job : AnyJob, running : BOOLEAN,
                 issue : Issue, items : [Stream -> Seq(JobIds \X (1 .. Total))]]
    /\ mounted \in BOOLEAN
    /\ refs \in [active : AnyJob, generation : {0} \cup Generations, timer : {0} \cup Generations,
                 failing : BOOLEAN, cursor : [Stream -> 0 .. Total]]
    /\ loops \in [Generations -> [job : AnyJob, step : LoopStep, status : Status, count : 0 .. Total,
                              after : 0 .. Total]]
    /\ click \in [Clicks -> [step : ClickStep, fresh : BOOLEAN, attempt : 1 .. StartAttempts,
                             reply : Reply, job : AnyJob]]
    /\ restore \in [step : RestoreStep, job : AnyJob]
    /\ cancelCalls \subseteq JobIds

\* However many loops have polled, been superseded and been answered late, what
\* the page has collected are the items of one job from the first on, each once.
ItemsGapFree ==
    \A s \in Stream : LET items == view.items[s]
                      IN  \A i \in DOMAIN items : items[i] = <<items[1][1], i>>

Live == {"asking", "partial", "progress", "sleeping"}
Followed(j) == \E g \in Generations : Current(g) /\ loops[g].job = j /\ loops[g].step \in Live

\* A page that says it is scanning and follows no job will not notice an end.
Misled == mounted /\ view.running /\ ~\E j \in JobIds : Followed(j)

\* The tick of a loop that a Stop or a newer poll overtook in a request for its
\* stream goes on as if it were the current one.
LateTick(g) ==
    /\ loops[g].step \in Stream /\ loops[g].status = "running" /\ ~Current(g)
    /\ loops'[g].step = "sleeping"

\* What the page collects and counts is about one job at a time.
PageIsConsistent == TypeOK /\ ItemsGapFree

\* Whatever the user clicks and stops and however late the answers come, a page
\* that says it is scanning goes on following a job for as long as it says so:
\* nothing but a late tick makes it say so of a scan that it no longer polls.
OnlyLateTicksMislead == [][~Misled /\ Misled' => \E g \in Generations : LateTick(g)]_vars

\* "Stop polling and flip back to Run/Fresh Scan immediately": a page that has
\* given its job up is not scanning before it follows another one.
StopIsFinal == mounted /\ view.running => refs.active # NoJob

ReplacedByOlder ==
    /\ view.result # NoJob /\ view'.result # NoJob
    /\ jobs'[view'.result].completedAt < jobs[view.result].completedAt

\* The result of the job the page has followed is never replaced by that of an
\* earlier one which another poll fetched meanwhile.  (The restore of an opened
\* page and the answer to an earlier click may bring one: they do not look.)
FollowedResultStays ==
    [][view.result = refs.active /\ UNCHANGED <<restore, click>> => ~ReplacedByOlder]_vars

\* The result of a job the page follows to its end is shown, unless the page has
\* turned to something else or stopped with a word on what went wrong; or it has
\* been misled.
FollowedResultArrives ==
    \A j \in JobIds :
        Followed(j) /\ mounted /\ jobs[j].status = "completed"
            ~> \/ view.result = j
               \/ ~view.running /\ view.issue # "none"
               \/ refs.active # j \/ ~mounted \/ Misled

\* A page that is scanning does not do so for ever, unless it has been misled.
RunningEnds == view.running /\ mounted ~> ~view.running \/ ~mounted \/ Misled
=============================================================================
