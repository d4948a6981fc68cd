--------------------------- MODULE ScanPageProofs ---------------------------
(***************************************************************************)
(* The page that shows a scan keeps its state, its requests and the poll   *)
(* loop it follows together, for any number of jobs, stocks and clicks:    *)
(* wherever a request is lost, the backend restarts or the page is left.   *)
(***************************************************************************)
EXTENDS ScanPage, FiniteSetTheorems, SequenceTheorems, TLAPS


-----------------------------------------------------------------------------
(* Types.                                                                  *)

ItemsType == [Stream -> Seq(JobIds \X (1 .. Total))]
ViewType == [result : AnyJob, job : AnyJob, running : BOOLEAN, issue : Issue, items : ItemsType]
RefsType == [active : AnyJob, generation : {0} \cup Generations, timer : {0} \cup Generations,
             failing : BOOLEAN, cursor : [Stream -> 0 .. Total]]
LoopType == [job : AnyJob, step : LoopStep, status : Status, count : 0 .. Total, after : 0 .. Total]
ClickType == [step : ClickStep, fresh : BOOLEAN, attempt : 1 .. StartAttempts, reply : Reply, job : AnyJob]

\* The clicks that are answered, or were lost with the page.
Over == {c \in Clicks : click[c].step = "over"}

\* A generation is used up by a click that is answered, or by the restoring
\* effect: there are enough of them.
GenerationsAreUsed ==
    refs.generation <= Cardinality(Over) + (IF restore.step = "over" THEN 1 ELSE 0)

ServerType == ManagerTypeOK /\ processed \in [JobIds -> 0 .. Total] /\ serverCache \in AnyJob

\* The parts of the page, each of which is set in few steps.
PollType ==
    /\ view \in ViewType /\ mounted \in BOOLEAN /\ refs \in RefsType
    /\ loops \in [Generations -> LoopType]

ClickingType ==
    /\ click \in [Clicks -> ClickType]
    /\ restore \in [step : RestoreStep, job : AnyJob]
    /\ cancelCalls \subseteq JobIds /\ local \in AnyJob

TypeInv == ServerType /\ PollType /\ ClickingType /\ GenerationsAreUsed

LEMMA TypeInParts == TypeOK <=> ServerType /\ PollType /\ ClickingType
  BY DEF TypeOK, ServerType, PollType, ClickingType, ItemsType, ViewType, RefsType, LoopType, ClickType

-----------------------------------------------------------------------------
(* The backend keeps its types.                                            *)

LEMMA FinishTypes ==
    ASSUME ManagerTypeOK, NEW j \in JobIds, NEW outcome \in Terminal, Finish(j, outcome)
    PROVE  ManagerTypeOK'
<1>1. finishes + 1 \in Nat /\ outcome \in Status
  BY DEF ManagerTypeOK, Status, Terminal
<1>2. jobs' \in [JobIds -> ScanJob]
  BY <1>1 DEF Finish, ManagerTypeOK, ScanJob
<1>3. registry' \subseteq registry
  BY DEF Finish, EvictOldCompletedJobs
<1> QED
  BY <1>1, <1>2, <1>3 DEF Finish, ManagerTypeOK

LEMMA StartTypes ==
    ASSUME ManagerTypeOK, NEW j \in JobIds, StartJob(j, ThisType, ThisDevice)
    PROVE  ManagerTypeOK'
  BY PageAssumption DEF StartJob, ManagerTypeOK, ScanJob, Status, DeviceIds

LEMMA CancelTypes ==
    ASSUME ManagerTypeOK, NEW j \in JobIds, CancelJob(j, ThisDevice)
    PROVE  ManagerTypeOK'
  BY DEF CancelJob, ManagerTypeOK

LEMMA BackendTypes ==
    ASSUME ServerType, Next
    PROVE  ServerType'
<1>1. ASSUME NEW j \in JobIds, StockReported(j)
      PROVE  ServerType'
  <2>1. UNCHANGED <<managerVars, serverCache>>
    BY <1>1 DEF StockReported
  <2>2. processed' \in [JobIds -> 0 .. Total]
    BY <1>1, StocksAssumption DEF StockReported, ServerType
  <2> QED
    BY <2>1, <2>2 DEF ServerType, managerVars, ManagerTypeOK
<1>2. ASSUME NEW j \in JobIds, JobEnds(j)
      PROVE  ServerType'
  <2>1. PICK outcome \in Terminal : Finish(j, outcome)
    BY <1>2 DEF JobEnds, RunnerReturns, RunnerRaises, RunnerCancelled, Terminal
  <2>2. ManagerTypeOK'
    BY <2>1, FinishTypes DEF ServerType
  <2>3. UNCHANGED processed /\ serverCache' \in {serverCache, j}
    BY <1>2 DEF JobEnds
  <2> QED
    BY <2>2, <2>3 DEF ServerType, AnyJob
<1>3. ASSUME NEW j \in JobIds, OtherTabStarts(j) \/ OtherTabStops(j)
      PROVE  ServerType'
  BY <1>3, StartTypes, CancelTypes DEF OtherTabStarts, OtherTabStops, ServerType
<1>4. ASSUME NEW j \in JobIds, CancelServed(j)
      PROVE  ServerType'
  BY <1>4, CancelTypes DEF CancelServed, ServerType, managerVars, ManagerTypeOK
<1>5. CASE BackendRestarts
  <2>1. jobs' \in [JobIds -> ScanJob]
    BY <1>5 DEF BackendRestarts, ServerType, ManagerTypeOK, ScanJob, Status, Terminal
  <2> QED
    BY <1>5, <2>1 DEF BackendRestarts, ServerType, ManagerTypeOK
<1>6. CASE ServerCacheExpires
  BY <1>6 DEF ServerCacheExpires, ServerType, managerVars, ManagerTypeOK, AnyJob
<1>7. ASSUME NEW c \in Clicks, StartServed(c)
      PROVE  ServerType'
  <2>1. UNCHANGED <<processed, serverCache>>
    BY <1>7 DEF StartServed
  <2>2. UNCHANGED managerVars \/ \E j \in JobIds : StartJob(j, ThisType, ThisDevice)
    BY <1>7 DEF StartServed
  <2> QED
    BY <2>1, <2>2, StartTypes DEF ServerType, managerVars, ManagerTypeOK
<1>8. CASE UNCHANGED server
  BY <1>8 DEF server, ServerType, managerVars, ManagerTypeOK
<1>9. ASSUME NEW j \in JobIds, CancelLost(j)
      PROVE  UNCHANGED server
  BY <1>9 DEF CancelLost
<1>10. ASSUME NEW g \in Generations, Poll(g) \/ PollLost(g)
       PROVE  UNCHANGED server
  BY <1>10 DEF Poll, PollLost, TimerFires, JobAnswered, JobGone, StreamAnswered, ResultsAnswered,
              JobUnavailable, StreamLost, ResultsFail
<1>11. ASSUME NEW c \in Clicks, Click(c) \/ StartLost(c) \/ \E fresh \in BOOLEAN : ClickStart(c, fresh)
       PROVE  UNCHANGED server \/ StartServed(c)
  BY <1>11 DEF Click, LocalCacheAnswered, CachedAnswered, StartedAnswered, ConflictAnswered,
              AdoptAnswered, AdoptFails, StartLost, ClickStart
<1>12. CASE ClickStop \/ Restoring \/ RestoreLost \/ Leave \/ Reload \/ LocalCacheExpires
  <2>1. UNCHANGED server
    BY <1>12 DEF ClickStop, Restoring, RestoreLocal, RestoreLists, RestoreResults, RestoreCache,
                RestoreLost, Leave, Reload, LocalCacheExpires
  <2> QED
    BY <1>8, <2>1
<1> QED
  BY <1>1, <1>2, <1>3, <1>4, <1>5, <1>6, <1>7, <1>8, <1>9, <1>10, <1>11, <1>12
  DEF Next, Backend, PageNext

-----------------------------------------------------------------------------
(* The poll loops keep their types.                                        *)

NewItems(j, n, after) == [i \in 1 .. n - after |-> <<j, after + i>>]

LEMMA EmptyTypes ==
    /\ NoItems \in ItemsType
    /\ NoCursor \in [Stream -> 0 .. Total]
    /\ NewRefs \in RefsType
    /\ NewView \in ViewType
    /\ NoLoop \in LoopType /\ Ended \in LoopType
<1>1. 0 \in 0 .. Total
  BY StocksAssumption
<1>2. << >> \in Seq(JobIds \X (1 .. Total))
  BY EmptySeq
<1>3. NoItems \in ItemsType /\ NoCursor \in [Stream -> 0 .. Total]
  BY <1>1, <1>2 DEF NoItems, NoCursor, ItemsType
<1>4. NewRefs \in RefsType /\ NewView \in ViewType
  BY <1>3 DEF NewRefs, RefsType, NewView, ViewType, AnyJob, Issue
<1>5. NoLoop \in LoopType
  BY <1>1 DEF NoLoop, LoopType, LoopStep, Status, AnyJob
<1> QED
  BY <1>3, <1>4, <1>5 DEF Ended, LoopType, LoopStep

LEMMA ShowTypes ==
    ASSUME PollType, NEW v \in ViewType, Show(v)
    PROVE  view' \in ViewType
  BY DEF PollType, Show

LEMMA StoppedLoopsTypes ==
    ASSUME PollType
    PROVE  StoppedLoops \in [Generations -> LoopType]
  BY EmptyTypes DEF PollType, StoppedLoops

\* What a loop does between two requests.
LEMMA TickEndsTypes ==
    ASSUME PollType, NEW g \in Generations, NEW lp \in LoopType, NEW v \in ViewType, NEW r \in RefsType,
           TickEnds(g, lp, v, r)
    PROVE  view' \in ViewType /\ refs' \in RefsType /\ loops' \in [Generations -> LoopType]
<1>1. [v EXCEPT !.running = (lp.status = "running"), !.issue = IF lp.status = "failed" THEN "error" ELSE @]
          \in ViewType
  BY DEF ViewType, Issue
<1>2. [r EXCEPT !.timer = g] \in RefsType
  BY DEF RefsType
<1>3. /\ [NoLoop EXCEPT !.job = lp.job, !.step = "sleeping"] \in LoopType
      /\ [NoLoop EXCEPT !.job = lp.job, !.step = "results"] \in LoopType
  BY EmptyTypes DEF LoopType, LoopStep
<1>4. view' \in ViewType
  BY <1>1, ShowTypes DEF TickEnds
<1>5. refs' \in RefsType
  BY <1>2 DEF TickEnds
<1>6. \E l \in LoopType : loops' = [loops EXCEPT ![g] = l]
  BY <1>3, EmptyTypes DEF TickEnds
<1> QED
  BY <1>4, <1>5, <1>6 DEF PollType

\* The loop asks for a stream.
Asks(g, lp, v, r, s) ==
    /\ Show(v) /\ refs' = r
    /\ loops' = [loops EXCEPT ![g] = [lp EXCEPT !.step = s, !.after = r.cursor[s]]]

\* Either the next stream is asked, or the tick ends.
LEMMA AskStreamsCases ==
    ASSUME NEW g, NEW lp, NEW v, NEW r, NEW todo, AskStreams(g, lp, v, r, todo)
    PROVE  \/ TickEnds(g, lp, v, r)
           \/ \E s \in Stream : Asks(g, lp, v, r, s)
  BY DEF AskStreams, Stream, Asks

LEMMA AskStreamsRefs ==
    ASSUME NEW g, NEW lp, NEW v, NEW r, NEW todo, AskStreams(g, lp, v, r, todo)
    PROVE  refs' \in {r, [r EXCEPT !.timer = g]}
<1>1. TickEnds(g, lp, v, r) \/ refs' = r
  BY AskStreamsCases, Zenon DEF Asks
<1> QED
  BY <1>1 DEF TickEnds

LEMMA AskStreamsTypes ==
    ASSUME PollType, NEW g \in Generations, NEW lp \in LoopType, NEW v \in ViewType, NEW r \in RefsType,
           NEW todo, AskStreams(g, lp, v, r, todo)
    PROVE  view' \in ViewType /\ refs' \in RefsType /\ loops' \in [Generations -> LoopType]
<1>1. ASSUME NEW s \in Stream, Show(v), refs' = r,
             loops' = [loops EXCEPT ![g] = [lp EXCEPT !.step = s, !.after = r.cursor[s]]]
      PROVE  view' \in ViewType /\ refs' \in RefsType /\ loops' \in [Generations -> LoopType]
  <2>1. [lp EXCEPT !.step = s, !.after = r.cursor[s]] \in LoopType
    BY DEF LoopType, RefsType, LoopStep, Stream
  <2> QED
    BY <1>1, <2>1, ShowTypes DEF PollType
<1>2. CASE TickEnds(g, lp, v, r)
  BY <1>2, TickEndsTypes
<1>3. \/ TickEnds(g, lp, v, r)
      \/ \E s \in Stream : Asks(g, lp, v, r, s)
  BY AskStreamsCases, Zenon
<1> QED
  BY <1>1, <1>2, <1>3 DEF Asks

\* What a stream has for the page is at most what there is.
LEMMA ItemsCounted ==
    ASSUME ServerType, NEW s \in Stream, NEW j \in JobIds
    PROVE  Items(s, j) \in 0 .. Total
<1>1. processed[j] \in 0 .. Total
  BY DEF ServerType
<1>2. Signals \cap 1 .. processed[j] \subseteq 1 .. processed[j]
  OBVIOUS
<1>3. IsFiniteSet(1 .. processed[j]) /\ Cardinality(1 .. processed[j]) = processed[j]
  <2>1. processed[j] \in Int /\ processed[j] >= 0 /\ 1 \in Int
    BY <1>1, StocksAssumption
  <2>2. /\ IsFiniteSet(1 .. processed[j])
        /\ Cardinality(1 .. processed[j]) = IF 1 > processed[j] THEN 0 ELSE processed[j] - 1 + 1
    BY <2>1, FS_Interval
  <2> QED
    BY <2>1, <2>2
<1>4. /\ Cardinality(Signals \cap 1 .. processed[j]) \in Nat
      /\ Cardinality(Signals \cap 1 .. processed[j]) <= processed[j]
  BY <1>2, <1>3, FS_Subset, FS_CardinalityType
<1> QED
  BY <1>1, <1>4, StocksAssumption DEF Items

\* The items beyond a cursor are items of that job, numbered on from the cursor.
LEMMA NewItemsTypes ==
    ASSUME NEW j \in JobIds, NEW n \in 0 .. Total, NEW after \in 0 .. Total
    PROVE  /\ NewItems(j, n, after) \in Seq(JobIds \X (1 .. Total))
           /\ Len(NewItems(j, n, after)) = IF n >= after THEN n - after ELSE 0
           /\ NewItems(j, n, after) # << >> => after + Len(NewItems(j, n, after)) = n
           /\ \A i \in 1 .. Len(NewItems(j, n, after)) : NewItems(j, n, after)[i] = <<j, after + i>>
<1> DEFINE k == IF n >= after THEN n - after ELSE 0
           new == NewItems(j, n, after)
<1>1. k \in Nat /\ 1 .. n - after = 1 .. k /\ n \in Nat /\ after \in Nat
  BY StocksAssumption
<1>2. \A i \in 1 .. k : after + i \in 1 .. Total
  BY StocksAssumption
<1>3. new = [i \in 1 .. k |-> <<j, after + i>>]
  BY <1>1 DEF NewItems
<1> HIDE DEF k, new
<1>4. new \in [1 .. k -> JobIds \X (1 .. Total)]
  BY <1>2, <1>3
<1>5. new \in Seq(JobIds \X (1 .. Total))
  BY <1>1, <1>4, SeqDef
<1>6. Len(new) = k
  BY <1>1, <1>4, <1>5, LenProperties
<1>7. new # << >> => k # 0
  BY <1>5, <1>6, EmptySeq
<1>8. k # 0 => after + k = n
  BY <1>1 DEF k
<1> QED
  BY <1>3, <1>5, <1>6, <1>7, <1>8 DEF k, new

\* A loop that ends, or goes on to another request for its job.
LEMMA LoopOverTypes ==
    ASSUME PollType, NEW g \in Generations, LoopOver(g)
    PROVE  loops' \in [Generations -> LoopType]
  BY EmptyTypes DEF LoopOver, PollType

LEMMA LoopStepTypes ==
    ASSUME ServerType, PollType, NEW g \in Generations, Poll(g) \/ PollLost(g)
    PROVE  PollType'
<1>0. /\ view \in ViewType /\ refs \in RefsType /\ mounted \in BOOLEAN
      /\ loops \in [Generations -> LoopType] /\ loops[g] \in LoopType /\ UNCHANGED mounted
  BY DEF Poll, PollLost, TimerFires, JobAnswered, JobGone, StreamAnswered, ResultsAnswered,
         JobUnavailable, StreamLost, ResultsFail, PollType
<1> DEFINE Typed == view' \in ViewType /\ refs' \in RefsType /\ loops' \in [Generations -> LoopType]
<1> SUFFICES Typed
  BY <1>0 DEF PollType
<1>1. CASE TimerFires(g)
  <2>1. [loops[g] EXCEPT !.step = "asking"] \in LoopType
    BY <1>0 DEF LoopType, LoopStep
  <2>2. loops' = [loops EXCEPT ![g] = [loops[g] EXCEPT !.step = "asking"]] \/ LoopOver(g)
    BY <1>0, <1>1 DEF TimerFires
  <2>3. loops' \in [Generations -> LoopType]
    BY <1>0, <2>1, <2>2, LoopOverTypes
  <2> QED
    BY <1>0, <1>1, <2>3 DEF TimerFires
<1>2. CASE JobAnswered(g)
  <2> DEFINE j == loops[g].job
             lp == [loops[g] EXCEPT !.status = jobs[j].status, !.count = processed[j]]
             v == [view EXCEPT !.issue = "none", !.job = j]
             r == [refs EXCEPT !.failing = FALSE]
  <2>1. j \in JobIds
    BY <1>2 DEF JobAnswered, Get, ServerType, ManagerTypeOK
  <2>2. jobs[j].status \in Status /\ processed[j] \in 0 .. Total
    BY <2>1 DEF ServerType, ManagerTypeOK, ScanJob
  <2>3. lp \in LoopType /\ v \in ViewType /\ r \in RefsType
    BY <1>0, <2>1, <2>2 DEF LoopType, ViewType, RefsType, AnyJob, Issue
  <2>4. CASE Current(g)
    <3>1. AskStreams(g, lp, v, r, Stream)
      BY <1>2, <2>4 DEF JobAnswered
    <3> HIDE DEF lp, v, r
    <3> QED
      BY <2>3, <3>1, AskStreamsTypes
  <2>5. CASE ~Current(g)
    BY <1>0, <1>2, <2>5, LoopOverTypes DEF JobAnswered
  <2> QED
    BY <2>4, <2>5
<1>3. CASE JobGone(g)
  <2>1. /\ [refs EXCEPT !.active = NoJob, !.timer = 0] \in RefsType
        /\ [view EXCEPT !.running = FALSE, !.job = NoJob, !.issue = "interrupted"] \in ViewType
        /\ [StoppedLoops EXCEPT ![g] = Ended] \in [Generations -> LoopType]
    BY <1>0, StoppedLoopsTypes, EmptyTypes DEF RefsType, ViewType, AnyJob, Issue
  <2> QED
    BY <1>0, <1>3, <2>1, LoopOverTypes, ShowTypes DEF JobGone
<1>4. CASE StreamAnswered(g)
  <2> DEFINE s == loops[g].step
             j == loops[g].job
             after == loops[g].after
             new == NewItems(j, Items(s, j), after)
             taken == Current(g) /\ j \in registry /\ new # << >>
             v == IF taken THEN [view EXCEPT !.items[s] = @ \o new] ELSE view
             r == IF taken THEN [refs EXCEPT !.cursor[s] = after + Len(new)] ELSE refs
             todo == IF s = "partial" THEN {"progress"} ELSE {}
  <2>1. s \in Stream /\ AskStreams(g, loops[g], v, r, todo)
    BY <1>4 DEF StreamAnswered, NewItems
  <2>2. CASE ~taken
    <3>1. v = view /\ r = refs
      BY <2>2
    <3> HIDE DEF s, v, r, todo
    <3> QED
      BY <1>0, <2>1, <3>1, AskStreamsTypes
  <2>3. CASE taken
    <3>1. j \in JobIds /\ Items(s, j) \in 0 .. Total /\ after \in 0 .. Total
      BY <1>0, <2>1, <2>3, ItemsCounted DEF ServerType, ManagerTypeOK, LoopType
    <3> HIDE DEF s, j, after
    <3>2. new \in Seq(JobIds \X (1 .. Total)) /\ after + Len(new) = Items(s, j)
      BY <2>3, <3>1, NewItemsTypes
    <3> HIDE DEF new
    <3>3. view.items \in ItemsType /\ view.items[s] \in Seq(JobIds \X (1 .. Total))
      BY <1>0, <2>1 DEF ViewType, ItemsType
    <3>4. view.items[s] \o new \in Seq(JobIds \X (1 .. Total))
      BY <3>2, <3>3, ConcatProperties
    <3>5. [view EXCEPT !.items[s] = @ \o new] \in ViewType
      BY <1>0, <3>3, <3>4 DEF ViewType, ItemsType
    <3>6. [refs EXCEPT !.cursor[s] = after + Len(new)] \in RefsType
      BY <1>0, <3>1, <3>2 DEF RefsType
    <3>7. v \in ViewType /\ r \in RefsType
      BY <2>3, <3>5, <3>6
    <3> HIDE DEF v, r, todo
    <3> QED
      BY <1>0, <2>1, <3>7, AskStreamsTypes
  <2> QED
    BY <2>2, <2>3
<1>5. CASE ResultsAnswered(g)
  <2>1. loops[g].job \in registry => [view EXCEPT !.result = loops[g].job] \in ViewType
    BY <1>0 DEF ViewType, AnyJob, ServerType, ManagerTypeOK
  <2> QED
    BY <1>0, <1>5, <2>1, LoopOverTypes, ShowTypes DEF ResultsAnswered
<1>6. CASE JobUnavailable(g)
  <2>1. /\ [view EXCEPT !.issue = "unavailable"] \in ViewType
        /\ [view EXCEPT !.running = FALSE, !.issue = "unavailable"] \in ViewType
        /\ [refs EXCEPT !.failing = TRUE, !.timer = g] \in RefsType
        /\ [loops[g] EXCEPT !.step = "sleeping"] \in LoopType
    BY <1>0 DEF ViewType, RefsType, LoopType, Issue, LoopStep
  <2>2. /\ refs' = [refs EXCEPT !.failing = TRUE, !.timer = g] \/ UNCHANGED refs
        /\ \/ Show([view EXCEPT !.issue = "unavailable"])
           \/ Show([view EXCEPT !.running = FALSE, !.issue = "unavailable"])
           \/ UNCHANGED view
        /\ loops' = [loops EXCEPT ![g] = [loops[g] EXCEPT !.step = "sleeping"]] \/ LoopOver(g)
    BY <1>0, <1>6 DEF JobUnavailable
  <2>3. loops' \in [Generations -> LoopType]
    BY <1>0, <2>1, <2>2, LoopOverTypes
  <2> QED
    BY <1>0, <2>1, <2>2, <2>3, ShowTypes
<1>7. CASE StreamLost(g)
  BY <1>0, <1>7, AskStreamsTypes DEF StreamLost
<1>8. CASE ResultsFail(g)
  <2>1. [view EXCEPT !.issue = "error"] \in ViewType
    BY <1>0 DEF ViewType, Issue
  <2> QED
    BY <1>0, <1>8, <2>1, LoopOverTypes, ShowTypes DEF ResultsFail
<1> QED
  BY <1>1, <1>2, <1>3, <1>4, <1>5, <1>6, <1>7, <1>8 DEF Poll, PollLost

-----------------------------------------------------------------------------
(* The buttons and the restoring effect keep their types.                  *)

\* What a loop does to the refs: only its timer, the failure and the cursors, or
\* it lets go of the job.
LEMMA LoopKeepsGeneration ==
    ASSUME ServerType, PollType, NEW g \in Generations, Poll(g) \/ PollLost(g)
    PROVE  refs'.generation = refs.generation /\ refs'.active \in {refs.active, NoJob}
<1>1. refs \in RefsType
  BY DEF PollType
<1> DEFINE Kept == refs'.generation = refs.generation /\ refs'.active \in {refs.active, NoJob}
<1>2. ASSUME NEW r \in {refs, [refs EXCEPT !.failing = FALSE]}, NEW lp, NEW v, NEW todo,
             AskStreams(g, lp, v, r, todo)
      PROVE  Kept
  <2>1. refs' \in {r, [r EXCEPT !.timer = g]}
    BY <1>2, AskStreamsRefs
  <2> QED
    BY <1>1, <1>2, <2>1 DEF RefsType
<1>3. CASE JobAnswered(g)
  <2>1. UNCHANGED refs
        \/ \E lp, v : AskStreams(g, lp, v, [refs EXCEPT !.failing = FALSE], Stream)
    BY <1>3 DEF JobAnswered
  <2> QED
    BY <1>2, <2>1
<1>4. CASE StreamLost(g)
  BY <1>2, <1>4 DEF StreamLost
<1>5. CASE StreamAnswered(g)
  <2>1. PICK s, n, lp, v, todo :
            /\ s \in Stream
            /\ \/ AskStreams(g, lp, v, refs, todo)
               \/ AskStreams(g, lp, v, [refs EXCEPT !.cursor[s] = n], todo)
    BY <1>5 DEF StreamAnswered
  <2>2. refs' \in {refs, [refs EXCEPT !.timer = g], [refs EXCEPT !.cursor[s] = n],
                   [[refs EXCEPT !.cursor[s] = n] EXCEPT !.timer = g]}
    BY <2>1, AskStreamsRefs
  <2> QED
    BY <1>1, <2>2 DEF RefsType
<1>6. CASE TimerFires(g) \/ JobGone(g) \/ ResultsAnswered(g) \/ JobUnavailable(g) \/ ResultsFail(g)
  <2>1. refs' \in {refs, [refs EXCEPT !.active = NoJob, !.timer = 0],
                   [refs EXCEPT !.failing = TRUE, !.timer = g]}
    BY <1>6 DEF TimerFires, JobGone, ResultsAnswered, JobUnavailable, ResultsFail
  <2> QED
    BY <1>1, <2>1 DEF RefsType
<1> QED
  BY <1>3, <1>4, <1>5, <1>6 DEF Poll, PollLost

LEMMA PollJobTypes ==
    ASSUME PollType, NEW j \in AnyJob, NEW v \in ViewType, refs.generation + 1 \in Generations,
           PollJob(j, v), UNCHANGED mounted
    PROVE  PollType' /\ refs'.generation = refs.generation + 1
<1> DEFINE g == refs.generation + 1
<1>1. [NewRefs EXCEPT !.active = j, !.generation = g] \in RefsType
  BY EmptyTypes DEF RefsType
<1>2. [NoLoop EXCEPT !.job = j, !.step = "asking"] \in LoopType
  BY EmptyTypes DEF LoopType, LoopStep
<1>3. [StoppedLoops EXCEPT ![g] = [NoLoop EXCEPT !.job = j, !.step = "asking"]]
          \in [Generations -> LoopType]
  BY <1>2, StoppedLoopsTypes
<1>4. [v EXCEPT !.items = NoItems] \in ViewType
  BY EmptyTypes DEF ViewType
<1>5. /\ refs' = [NewRefs EXCEPT !.active = j, !.generation = g]
      /\ loops' = [StoppedLoops EXCEPT ![g] = [NoLoop EXCEPT !.job = j, !.step = "asking"]]
      /\ Show([v EXCEPT !.items = NoItems])
  BY DEF PollJob
<1>6. refs'.generation = g
  BY <1>5 DEF NewRefs
<1> QED
  BY <1>1, <1>3, <1>4, <1>5, <1>6, ShowTypes DEF PollType

LEMMA OverCounted ==
    /\ IsFiniteSet(Over) /\ Cardinality(Over) \in Nat /\ Cardinality(Over) <= Cardinality(Clicks)
    /\ Cardinality(Clicks) \in Nat
<1>1. Over \subseteq Clicks
  BY DEF Over
<1>2. IsFiniteSet(Clicks)
  BY UserAssumption
<1> QED
  BY <1>1, <1>2, FS_Subset, FS_CardinalityType

\* The generation stays or starts again from 0, and no click that was over begins again.
LEMMA GenerationsKept ==
    ASSUME TypeInv, ClickingType', Over \subseteq Over', refs'.generation \in {0, refs.generation},
           restore.step = "over" => restore'.step = "over"
    PROVE  GenerationsAreUsed'
<1> DEFINE n == Cardinality(Over)
           m == Cardinality(Over')
           a == IF restore.step = "over" THEN 1 ELSE 0
           b == IF restore'.step = "over" THEN 1 ELSE 0
<1>1. Over' \subseteq Clicks
  BY DEF Over
<1>2. n \in Nat /\ m \in Nat /\ n <= m
  BY <1>1, OverCounted, UserAssumption, FS_Subset, FS_CardinalityType
<1>3. a <= b /\ a \in Nat /\ b \in Nat
  OBVIOUS
<1>4. refs.generation <= n + a /\ refs.generation \in Nat
  BY OverCounted DEF TypeInv, GenerationsAreUsed, PollType, RefsType, Generations
<1>5. refs'.generation <= m + b
  <2> HIDE DEF n, m, a, b
  <2> QED
    BY <1>2, <1>3, <1>4
<1> QED
  BY <1>5 DEF GenerationsAreUsed

\* There is a generation left for a click that is answered ...
LEMMA ClickHasGeneration ==
    ASSUME TypeInv, NEW c \in Clicks, c \notin Over
    PROVE  refs.generation + 1 \in Generations
<1> DEFINE n == Cardinality(Over)
<1>1. n + 1 <= Cardinality(Clicks)
  <2>1. Over \cup {c} \subseteq Clicks /\ Cardinality(Over \cup {c}) = n + 1
    BY OverCounted, FS_AddElement DEF Over
  <2> QED
    BY <2>1, FS_Subset, UserAssumption
<1>2. refs.generation <= n + 1 /\ refs.generation \in Nat
  BY OverCounted DEF TypeInv, GenerationsAreUsed, PollType, RefsType, Generations
<1>3. n \in Nat /\ Cardinality(Clicks) \in Nat
  BY OverCounted
<1> HIDE DEF n
<1> QED
  BY <1>1, <1>2, <1>3 DEF Generations

\* ... and for the restoring effect.
LEMMA RestoreHasGeneration ==
    ASSUME TypeInv, restore.step # "over"
    PROVE  refs.generation + 1 \in Generations
<1>1. refs.generation <= Cardinality(Over) /\ refs.generation \in Nat
  BY OverCounted DEF TypeInv, GenerationsAreUsed, PollType, RefsType, Generations
<1> QED
  BY <1>1, OverCounted DEF Generations

LEMMA ClickUsesGeneration ==
    ASSUME TypeInv, NEW c \in Clicks, c \notin Over, Over' = Over \cup {c}, UNCHANGED restore,
           refs'.generation = refs.generation + 1
    PROVE  GenerationsAreUsed'
<1> DEFINE n == Cardinality(Over)
           a == IF restore.step = "over" THEN 1 ELSE 0
<1>1. Cardinality(Over') = n + 1 /\ n \in Nat
  BY OverCounted, FS_AddElement
<1>2. refs.generation <= n + a /\ refs.generation \in Nat
  BY OverCounted DEF TypeInv, GenerationsAreUsed, PollType, RefsType, Generations
<1>3. a \in Nat /\ a = IF restore'.step = "over" THEN 1 ELSE 0
  OBVIOUS
<1>4. refs'.generation <= n + 1 + a
  <2> HIDE DEF n, a
  <2> QED
    BY <1>1, <1>2, <1>3
<1> QED
  BY <1>1, <1>3, <1>4 DEF GenerationsAreUsed

LEMMA RestoreUsesGeneration ==
    ASSUME TypeInv, restore.step # "over", restore'.step = "over", UNCHANGED click,
           refs'.generation = refs.generation + 1
    PROVE  GenerationsAreUsed'
<1>1. refs.generation <= Cardinality(Over) /\ refs.generation \in Nat
  BY OverCounted DEF TypeInv, GenerationsAreUsed, PollType, RefsType, Generations
<1>2. Over' = Over
  BY DEF Over
<1>3. refs'.generation <= Cardinality(Over) + 1
  BY <1>1, OverCounted
<1> QED
  BY <1>2, <1>3 DEF GenerationsAreUsed

LEMMA ClickOverTypes ==
    ASSUME ClickingType, NEW c \in Clicks, ClickOver(c)
    PROVE  click' \in [Clicks -> ClickType] /\ Over' = Over \cup {c}
<1>1. Served \in ClickType
  BY MishapAssumption DEF Served, ClickType, ClickStep, Reply, AnyJob
<1>2. click' = [click EXCEPT ![c] = Served] /\ Served.step = "over"
  BY DEF ClickOver, Served
<1> HIDE DEF Served
<1> QED
  BY <1>1, <1>2 DEF ClickingType, Over

\* A click that goes on.
LEMMA ClickMovesTypes ==
    ASSUME ClickingType, NEW c \in Clicks, NEW x \in ClickType, click' = [click EXCEPT ![c] = x],
           c \notin Over, x.step # "over"
    PROVE  click' \in [Clicks -> ClickType] /\ Over' = Over
  BY DEF ClickingType, Over

LEMMA ClickStepTypes ==
    ASSUME TypeInv, ServerType', NEW c \in Clicks,
           Click(c) \/ StartLost(c) \/ \E fresh \in BOOLEAN : ClickStart(c, fresh)
    PROVE  TypeInv'
<1>0. /\ view \in ViewType /\ refs \in RefsType /\ mounted \in BOOLEAN
      /\ loops \in [Generations -> LoopType] /\ click[c] \in ClickType /\ local \in AnyJob
      /\ ClickingType /\ PollType
  BY DEF TypeInv, PollType, ClickingType
<1>1. UNCHANGED <<mounted, restore, cancelCalls>>
  BY DEF Click, StartLost, ClickStart, LocalCacheAnswered, StartServed, CachedAnswered, StartedAnswered,
         ConflictAnswered, AdoptAnswered, AdoptFails
<1>2. c \notin Over
  BY DEF Click, StartLost, ClickStart, LocalCacheAnswered, StartServed, CachedAnswered, StartedAnswered,
         ConflictAnswered, AdoptAnswered, AdoptFails, Over
<1> DEFINE Goes == \E x \in ClickType : x.step # "over" /\ click' = [click EXCEPT ![c] = x]
           Quiet == UNCHANGED <<refs, loops>>
\* What all of them do to the click, the view and the device's cache.
<1>3. local' \in AnyJob
  BY <1>0 DEF Click, StartLost, ClickStart, LocalCacheAnswered, StartServed, CachedAnswered,
         StartedAnswered, ConflictAnswered, AdoptAnswered, AdoptFails, AnyJob, ClickType
<1>4. Goes \/ ClickOver(c)
  <2>1. CASE \E fresh \in BOOLEAN : ClickStart(c, fresh)
    <3>1. PICK fresh \in BOOLEAN : click' = [click EXCEPT ![c] = [click[c] EXCEPT !.step = "local", !.fresh = fresh]]
      BY <1>0, <2>1 DEF ClickStart, ClickingType
    <3>2. [click[c] EXCEPT !.step = "local", !.fresh = fresh] \in ClickType
      BY <1>0 DEF ClickType, ClickStep
    <3> QED
      BY <1>0, <3>1, <3>2 DEF ClickType
  <2>2. CASE LocalCacheAnswered(c)
    <3>1. [click[c] EXCEPT !.step = "sent"] \in ClickType /\ [click[c] EXCEPT !.step = "sent"].step = "sent"
      BY <1>0 DEF ClickType, ClickStep
    <3>2. ClickOver(c) \/ click' = [click EXCEPT ![c] = [click[c] EXCEPT !.step = "sent"]]
      BY <1>0, <2>2 DEF LocalCacheAnswered, ClickingType
    <3> QED
      BY <3>1, <3>2
  <2>3. CASE StartServed(c)
    <3>1. PICK reply \in Reply, j \in AnyJob :
              click' = [click EXCEPT ![c] = [click[c] EXCEPT !.step = "answered", !.reply = reply, !.job = j]]
      <4>1. SameDevice(ThisType, ThisDevice) \subseteq AnyJob /\ serverCache \in AnyJob
        BY DEF SameDevice, RunningSameType, AnyJob, TypeInv, ServerType, ManagerTypeOK
      <4>2. {"cached", "conflict", "started", "refused"} \subseteq Reply /\ JobIds \cup {NoJob} \subseteq AnyJob
        BY DEF Reply, AnyJob
      <4>3. ASSUME NEW reply, NEW j,
                   click' = [click EXCEPT ![c].step = "answered", ![c].reply = reply, ![c].job = j]
            PROVE  click' = [click EXCEPT ![c] = [click[c] EXCEPT !.step = "answered", !.reply = reply, !.job = j]]
        BY <1>0, <4>3 DEF ClickingType
      <4>4. \E reply \in Reply, j \in AnyJob :
                click' = [click EXCEPT ![c].step = "answered", ![c].reply = reply, ![c].job = j]
        BY <2>3, <4>1, <4>2 DEF StartServed
      <4> QED
        BY <4>3, <4>4
    <3>2. [click[c] EXCEPT !.step = "answered", !.reply = reply, !.job = j] \in ClickType
      BY <1>0 DEF ClickType, ClickStep
    <3> QED
      BY <1>0, <3>1, <3>2 DEF ClickType
  <2>4. CASE StartLost(c)
    <3>1. CASE click[c].attempt < StartAttempts
      <4>1. click' = [click EXCEPT ![c] = [click[c] EXCEPT !.step = "sent", !.attempt = @ + 1]]
        BY <1>0, <2>4, <3>1 DEF StartLost, ClickingType
      <4>2. click[c].attempt + 1 \in 1 .. StartAttempts
        BY <1>0, <3>1, MishapAssumption DEF ClickType
      <4>3. [click[c] EXCEPT !.step = "sent", !.attempt = @ + 1] \in ClickType
        BY <1>0, <4>2 DEF ClickType, ClickStep
      <4> QED
        BY <1>0, <4>1, <4>3 DEF ClickType
    <3> QED
      BY <2>4, <3>1 DEF StartLost
  <2>5. CASE ConflictAnswered(c)
    <3>1. [click[c] EXCEPT !.step = "adopting"] \in ClickType /\ [click[c] EXCEPT !.step = "adopting"].step = "adopting"
      BY <1>0 DEF ClickType, ClickStep
    <3>2. ClickOver(c) \/ click' = [click EXCEPT ![c] = [click[c] EXCEPT !.step = "adopting"]]
      BY <1>0, <2>5 DEF ConflictAnswered, ClickingType
    <3> QED
      BY <3>1, <3>2
  <2>6. CASE CachedAnswered(c) \/ StartedAnswered(c) \/ AdoptAnswered(c) \/ AdoptFails(c)
    BY <2>6 DEF CachedAnswered, StartedAnswered, AdoptAnswered, AdoptFails
  <2> QED
    BY <2>1, <2>2, <2>3, <2>4, <2>5, <2>6 DEF Click
<1>5. click' \in [Clicks -> ClickType] /\ Over' \in {Over, Over \cup {c}}
  BY <1>0, <1>2, <1>4, ClickOverTypes, ClickMovesTypes
<1>6. ClickingType'
  BY <1>1, <1>3, <1>5 DEF TypeInv, ClickingType
<1>7. CASE Quiet /\ view' \in ViewType
  <2>1. PollType'
    BY <1>0, <1>1, <1>7 DEF PollType
  <2>2. GenerationsAreUsed'
    BY <1>1, <1>5, <1>6, <1>7, GenerationsKept
  <2> QED
    BY <1>6, <2>1, <2>2 DEF TypeInv
<1>8. CASE \E v \in ViewType, j \in AnyJob : PollJob(j, v) /\ ClickOver(c)
  <2>1. PollType' /\ refs'.generation = refs.generation + 1
    BY <1>0, <1>1, <1>2, <1>8, PollJobTypes, ClickHasGeneration
  <2>2. Over' = Over \cup {c}
    BY <1>0, <1>8, ClickOverTypes
  <2>3. GenerationsAreUsed'
    BY <1>1, <1>2, <2>1, <2>2, ClickUsesGeneration
  <2> QED
    BY <1>6, <2>1, <2>3 DEF TypeInv
<1>9. ASSUME NEW v \in ViewType, Show(v)
      PROVE  view' \in ViewType
  BY <1>0, <1>9, ShowTypes
<1>10. CASE StartedAnswered(c)
  <2>1. [view EXCEPT !.job = click[c].job, !.running = TRUE] \in ViewType /\ click[c].job \in AnyJob
    BY <1>0 DEF ViewType, ClickType
  <2>2. PollJob(click[c].job, [view EXCEPT !.job = click[c].job, !.running = TRUE]) /\ ClickOver(c)
    BY <1>10 DEF StartedAnswered
  <2> QED
    BY <1>8, <2>1, <2>2
<1>11. CASE AdoptAnswered(c)
  <2> DEFINE j == click[c].job
             v == [view EXCEPT !.job = j, !.running = (jobs[j].status = "running")]
  <2>1. v \in ViewType /\ j \in AnyJob
    BY <1>0 DEF ViewType, ClickType
  <2>2. (PollJob(j, v) /\ ClickOver(c)) \/ (Show(v) /\ Quiet)
    BY <1>11 DEF AdoptAnswered
  <2> HIDE DEF v, j
  <2> QED
    BY <1>7, <1>8, <1>9, <2>1, <2>2
<1>12. CASE ~StartedAnswered(c) /\ ~AdoptAnswered(c)
  <2>1. /\ [view EXCEPT !.issue = "none"] \in ViewType
        /\ [view EXCEPT !.issue = "error"] \in ViewType
        /\ [view EXCEPT !.result = local, !.job = NoJob, !.running = FALSE] \in ViewType
        /\ [view EXCEPT !.result = click[c].job, !.job = NoJob, !.running = FALSE] \in ViewType
    BY <1>0 DEF ViewType, ClickType, AnyJob, Issue
  <2>2. Quiet
    BY <1>12 DEF Click, StartLost, ClickStart, LocalCacheAnswered, StartServed, CachedAnswered,
                ConflictAnswered, AdoptFails
  <2>3. \/ UNCHANGED view
        \/ Show([view EXCEPT !.issue = "none"])
        \/ Show([view EXCEPT !.issue = "error"])
        \/ Show([view EXCEPT !.result = local, !.job = NoJob, !.running = FALSE])
        \/ Show([view EXCEPT !.result = click[c].job, !.job = NoJob, !.running = FALSE])
    BY <1>12 DEF Click, StartLost, ClickStart, LocalCacheAnswered, StartServed, CachedAnswered,
                ConflictAnswered, AdoptFails
  <2> QED
    BY <1>0, <1>7, <1>9, <2>1, <2>2, <2>3
<1> QED
  BY <1>10, <1>11, <1>12

LEMMA PageMovesTypes ==
    ASSUME TypeInv, ServerType', NEW j,
           ClickStop \/ CancelServed(j) \/ CancelLost(j) \/ Leave \/ Reload \/ LocalCacheExpires
    PROVE  TypeInv'
<1>0. /\ view \in ViewType /\ refs \in RefsType /\ mounted \in BOOLEAN
      /\ loops \in [Generations -> LoopType] /\ click \in [Clicks -> ClickType]
      /\ ClickingType /\ PollType
  BY DEF TypeInv, PollType, ClickingType
<1> DEFINE Gone == [refs EXCEPT !.active = NoJob, !.timer = 0]
<1>1. Gone \in RefsType /\ Gone.generation = refs.generation /\ NewRefs.generation = 0
  BY <1>0 DEF RefsType, AnyJob, NewRefs
<1>2. Served \in ClickType /\ Served.step = "over"
  BY MishapAssumption DEF Served, ClickType, ClickStep, Reply, AnyJob
<1>3. /\ NewRestore \in [step : RestoreStep, job : AnyJob]
      /\ Restored \in [step : RestoreStep, job : AnyJob] /\ Restored.step = "over"
  BY DEF NewRestore, Restored, RestoreStep, AnyJob
<1>4. CASE ClickStop
  <2>1. [view EXCEPT !.running = FALSE] \in ViewType /\ view.job \in AnyJob /\ view.job # NoJob
    BY <1>0, <1>4 DEF ViewType, ClickStop
  <2>2. /\ Show([view EXCEPT !.running = FALSE]) /\ refs' = Gone /\ loops' = StoppedLoops
        /\ UNCHANGED <<mounted, click, restore, local>> /\ cancelCalls' = cancelCalls \cup {view.job}
    BY <1>4 DEF ClickStop
  <2>3. PollType'
    BY <1>0, <1>1, <2>1, <2>2, ShowTypes, StoppedLoopsTypes DEF PollType
  <2>4. ClickingType' /\ Over' = Over
    BY <2>1, <2>2 DEF TypeInv, ClickingType, AnyJob, Over
  <2> QED
    BY <1>1, <2>2, <2>3, <2>4, GenerationsKept DEF TypeInv
<1>5. CASE CancelServed(j) \/ CancelLost(j) \/ LocalCacheExpires
  <2>1. /\ UNCHANGED <<view, mounted, refs, loops, click, restore>>
        /\ cancelCalls' \subseteq cancelCalls /\ local' \in {local, NoJob}
    BY <1>5 DEF CancelServed, CancelLost, LocalCacheExpires
  <2>2. PollType' /\ ClickingType' /\ Over' = Over
    BY <2>1 DEF TypeInv, PollType, ClickingType, AnyJob, Over
  <2> QED
    BY <2>1, <2>2, GenerationsKept DEF TypeInv
<1>6. CASE Leave
  <2>1. /\ mounted' = FALSE /\ restore' = Restored /\ refs' = Gone /\ loops' = StoppedLoops
        /\ UNCHANGED <<view, click, cancelCalls, local>>
    BY <1>6 DEF Leave
  <2>2. PollType' /\ ClickingType' /\ Over' = Over
    BY <1>0, <1>1, <1>3, <2>1, StoppedLoopsTypes DEF PollType, ClickingType, Over
  <2> QED
    BY <1>1, <1>3, <2>1, <2>2, GenerationsKept DEF TypeInv
<1>7. CASE Reload
  <2>1. /\ view' = NewView /\ mounted' = TRUE /\ refs' = NewRefs /\ loops' = NoLoops
        /\ restore' = NewRestore /\ UNCHANGED <<cancelCalls, local>>
        /\ click' = [c \in Clicks |-> IF click[c].step = "idle" THEN click[c] ELSE Served]
    BY <1>7 DEF Reload
  <2>2. PollType'
    BY <2>1, EmptyTypes DEF PollType, NoLoops
  <2> HIDE DEF Served
  <2>3. ClickingType'
    BY <1>0, <1>2, <1>3, <2>1 DEF ClickingType
  <2>4. Over' = {c \in Clicks : click[c].step # "idle"}
    BY <1>2, <2>1 DEF Over
  <2>5. Over \subseteq Over'
    BY <2>4 DEF Over
  <2>6. GenerationsAreUsed'
    <3>1. Cardinality(Over') \in Nat
      BY <2>4, UserAssumption, FS_Subset, FS_CardinalityType
    <3> QED
      BY <1>1, <2>1, <3>1 DEF GenerationsAreUsed
  <2> QED
    BY <2>2, <2>3, <2>6 DEF TypeInv
<1> QED
  BY <1>4, <1>5, <1>6, <1>7

LEMMA RestoreStepTypes ==
    ASSUME TypeInv, ServerType', Restoring \/ RestoreLost
    PROVE  TypeInv'
<1>0. /\ view \in ViewType /\ PollType /\ ClickingType
      /\ restore \in [step : RestoreStep, job : AnyJob]
  BY DEF TypeInv, PollType, ClickingType
<1>1. UNCHANGED <<mounted, click, cancelCalls>> /\ restore.step # "over"
  BY DEF Restoring, RestoreLost, RestoreLocal, RestoreLists, RestoreResults, RestoreCache
<1>2. local' \in {local, restore.job, serverCache}
  BY DEF Restoring, RestoreLost, RestoreLocal, RestoreLists, RestoreResults, RestoreCache
<1>3. restore' \in [step : RestoreStep, job : AnyJob]
  <2>1. Completed \subseteq JobIds /\ local \in AnyJob
    BY DEF Completed, TypeInv, ServerType, ManagerTypeOK, ClickingType
  <2>2. CASE restore.step = "list"
    <3>1. \/ restore' = Restored
          \/ restore' = [restore EXCEPT !.step = "cache"]
          \/ \E j \in Completed : restore' = [step |-> "results", job |-> j]
      BY <2>2 DEF Restoring, RestoreLost, RestoreLocal, RestoreLists, RestoreResults, RestoreCache
    <3> QED
      BY <1>0, <2>1, <3>1 DEF RestoreStep, AnyJob, Restored
  <2>3. CASE restore.step # "list"
    <3>1. restore' \in {Restored, [step |-> "cache", job |-> NoJob], [step |-> "list", job |-> local]}
      BY <2>3 DEF Restoring, RestoreLost, RestoreLocal, RestoreLists, RestoreResults, RestoreCache
    <3> QED
      BY <2>1, <3>1 DEF RestoreStep, AnyJob, Restored
  <2> QED
    BY <2>2, <2>3
<1>4. ClickingType' /\ Over' = Over
  BY <1>1, <1>2, <1>3 DEF TypeInv, ServerType, ClickingType, Over
<1>5. CASE UNCHANGED <<refs, loops>> /\ view' \in ViewType
  <2>1. PollType'
    BY <1>0, <1>1, <1>5 DEF PollType
  <2> QED
    BY <1>1, <1>4, <1>5, <2>1, GenerationsKept DEF TypeInv
<1>6. ASSUME NEW j \in RunningHere, PollJob(j, [view EXCEPT !.job = j, !.running = TRUE]), restore' = Restored
      PROVE  TypeInv'
  <2>1. j \in AnyJob /\ [view EXCEPT !.job = j, !.running = TRUE] \in ViewType
    BY <1>0, <1>6 DEF RunningHere, ViewType, AnyJob, TypeInv, ServerType, ManagerTypeOK
  <2>2. PollType' /\ refs'.generation = refs.generation + 1
    BY <1>0, <1>1, <1>6, <2>1, PollJobTypes, RestoreHasGeneration
  <2>3. GenerationsAreUsed'
    BY <1>1, <1>6, <2>2, RestoreUsesGeneration DEF Restored
  <2> QED
    BY <1>4, <2>2, <2>3 DEF TypeInv
<1>7. CASE RestoreLists
  <2>1. \/ \E j \in RunningHere :
              PollJob(j, [view EXCEPT !.job = j, !.running = TRUE]) /\ restore' = Restored
        \/ UNCHANGED <<view, refs, loops>>
    BY <1>7 DEF RestoreLists
  <2> QED
    BY <1>0, <1>5, <1>6, <2>1
<1>8. CASE ~RestoreLists
  <2>1. /\ [view EXCEPT !.result = local] \in ViewType
        /\ [view EXCEPT !.result = serverCache] \in ViewType
        /\ [view EXCEPT !.result = restore.job, !.job = restore.job] \in ViewType
    BY <1>0 DEF ViewType, TypeInv, ServerType, ClickingType
  <2>2. /\ UNCHANGED <<refs, loops>>
        /\ \/ UNCHANGED view
           \/ Show([view EXCEPT !.result = local])
           \/ Show([view EXCEPT !.result = serverCache])
           \/ Show([view EXCEPT !.result = restore.job, !.job = restore.job])
    BY <1>8 DEF Restoring, RestoreLost, RestoreLocal, RestoreResults, RestoreCache
  <2> QED
    BY <1>0, <1>5, <2>1, <2>2, ShowTypes
<1> QED
  BY <1>7, <1>8

LEMMA InitTypes == Init => TypeInv
<1> SUFFICES ASSUME Init PROVE TypeInv
  OBVIOUS
<1>1. ManagerTypeOK
  BY DEF Init, ManagerInit, ManagerTypeOK, Unborn, ScanJob, Status, DeviceIds
<1>2. ServerType
  BY <1>1, StocksAssumption DEF Init, ServerType, AnyJob
<1>3. PollType
  BY EmptyTypes DEF Init, PollType, NoLoops
<1>4. ClickingType
  <2>1. [step |-> "idle", fresh |-> FALSE, attempt |-> 1, reply |-> "none", job |-> NoJob] \in ClickType
    BY MishapAssumption DEF ClickType, ClickStep, Reply, AnyJob
  <2> QED
    BY <2>1 DEF Init, ClickingType, NewRestore, RestoreStep, AnyJob
<1>5. GenerationsAreUsed
  <2>1. refs.generation = 0 /\ restore.step = "local"
    BY DEF Init, NewRefs, NewRestore
  <2> QED
    BY <2>1, OverCounted DEF GenerationsAreUsed
<1> QED
  BY <1>2, <1>3, <1>4, <1>5 DEF TypeInv

LEMMA StepTypes == TypeInv /\ [Next]_vars => TypeInv'
<1> SUFFICES ASSUME TypeInv, [Next]_vars PROVE TypeInv'
  OBVIOUS
<1>1. CASE UNCHANGED vars
  <2>1. /\ UNCHANGED <<managerVars, processed, serverCache, view, mounted, refs, loops, click>>
        /\ UNCHANGED <<restore, cancelCalls, local>>
    BY <1>1 DEF vars, server
  <2>2. ServerType' /\ PollType' /\ ClickingType' /\ Over' = Over
    BY <2>1 DEF TypeInv, ServerType, managerVars, ManagerTypeOK, PollType, ClickingType, Over
  <2> QED
    BY <2>1, <2>2, GenerationsKept DEF TypeInv
<1>2. CASE Next
  <2>1. ServerType'
    BY <1>2, BackendTypes DEF TypeInv
  <2>2. ASSUME UNCHANGED <<view, mounted, refs, loops, click, restore, cancelCalls, local>>
        PROVE  TypeInv'
    <3>1. PollType' /\ ClickingType' /\ Over' = Over
      BY <2>2 DEF TypeInv, PollType, ClickingType, Over
    <3> QED
      BY <2>1, <2>2, <3>1, GenerationsKept DEF TypeInv
  <2>3. ASSUME NEW j \in JobIds,
               StockReported(j) \/ JobEnds(j) \/ OtherTabStarts(j) \/ OtherTabStops(j)
                   \/ BackendRestarts \/ ServerCacheExpires
        PROVE  TypeInv'
    BY <2>2, <2>3 DEF StockReported, JobEnds, OtherTabStarts, OtherTabStops, BackendRestarts,
                     ServerCacheExpires, Hidden
  <2>4. CASE BackendRestarts \/ ServerCacheExpires
    BY <2>2, <2>4 DEF BackendRestarts, ServerCacheExpires
  <2>5. ASSUME NEW g \in Generations, Poll(g) \/ PollLost(g)
        PROVE  TypeInv'
    <3>1. PollType'
      BY <2>5, LoopStepTypes DEF TypeInv
    <3>2. /\ UNCHANGED <<click, restore, cancelCalls>> /\ local' \in {local, loops[g].job}
          /\ loops[g].job \in AnyJob
      BY <2>5 DEF Poll, PollLost, TimerFires, JobAnswered, JobGone, StreamAnswered, ResultsAnswered,
                 JobUnavailable, StreamLost, ResultsFail, TypeInv, PollType, LoopType
    <3>3. refs'.generation = refs.generation
      BY <2>5, LoopKeepsGeneration DEF TypeInv
    <3>4. ClickingType' /\ Over' = Over
      BY <3>2 DEF TypeInv, ClickingType, Over
    <3> QED
      BY <2>1, <3>1, <3>2, <3>3, <3>4, GenerationsKept DEF TypeInv
  <2>6. ASSUME NEW c \in Clicks, Click(c) \/ StartLost(c) \/ \E fresh \in BOOLEAN : ClickStart(c, fresh)
        PROVE  TypeInv'
    BY <2>1, <2>6, ClickStepTypes
  <2>7. CASE Restoring \/ RestoreLost
    BY <2>1, <2>7, RestoreStepTypes
  <2>8. ASSUME NEW j, ClickStop \/ CancelServed(j) \/ CancelLost(j) \/ Leave \/ Reload \/ LocalCacheExpires
        PROVE  TypeInv'
    BY <2>1, <2>8, PageMovesTypes
  <2> QED
    BY <1>2, <2>3, <2>4, <2>5, <2>6, <2>7, <2>8 DEF Next, Backend, PageNext
<1> QED
  BY <1>1, <1>2

LEMMA TypesInvariant == Spec => []TypeInv
  BY InitTypes, StepTypes, PTL DEF Spec

\* Type correctness of the page and of the registry it polls, for any number of
\* jobs, stocks, clicks and mishaps: a generation of poll loops is never missing.
THEOREM PageTypeCorrect == Spec => []TypeOK
<1>1. TypeInv => TypeOK
  BY TypeInParts DEF TypeInv
<1> QED
  BY <1>1, TypesInvariant, PTL

-----------------------------------------------------------------------------
(* What a step does to the loops.                                          *)

Begun == Live \cup {"results"}

\* A loop with something left to do is about a job ...
LoopsHaveJobs == \A g \in Generations : loops[g].step \in Begun => loops[g].job \in JobIds

\* ... and so is the answer to a click that has started one.
StartedIsKnown ==
    \A c \in Clicks : click[c].step = "answered" /\ click[c].reply = "started" => click[c].job \in JobIds

JobsAreKnown == LoopsHaveJobs /\ StartedIsKnown

\* A loop ends, or goes on with the job it has; another one goes on as it is, or
\* ends with its timer.
LEMMA LoopMoves ==
    ASSUME ServerType, PollType, NEW g \in Generations, Poll(g) \/ PollLost(g)
    PROVE  /\ loops[g].step \in Begun
           /\ \A h \in Generations \ {g} : loops'[h] = loops[h] \/ (loops'[h] = Ended /\ loops[h].step = "sleeping")
           /\ loops'[g] = Ended \/ (loops'[g].job = loops[g].job /\ loops'[g].step \in Begun)
<1>0. loops \in [Generations -> LoopType] /\ loops[g] \in LoopType
  BY DEF PollType
<1>1. loops[g].step \in Begun
  BY DEF Poll, PollLost, TimerFires, JobAnswered, JobGone, StreamAnswered, ResultsAnswered,
         JobUnavailable, StreamLost, ResultsFail, Begun, Live, Stream
<1> DEFINE Goes(x) == x = Ended \/ (x.job = loops[g].job /\ x.step \in Begun)
           Moves == \E x : Goes(x) /\ loops' = [loops EXCEPT ![g] = x]
<1>2. ASSUME NEW lp \in LoopType, lp.job = loops[g].job, NEW v, NEW r, NEW todo, AskStreams(g, lp, v, r, todo)
      PROVE  Moves
  <2>1. CASE TickEnds(g, lp, v, r)
    <3>1. \/ loops' = [loops EXCEPT ![g] = [NoLoop EXCEPT !.job = lp.job, !.step = "sleeping"]]
          \/ loops' = [loops EXCEPT ![g] = [NoLoop EXCEPT !.job = lp.job, !.step = "results"]]
          \/ loops' = [loops EXCEPT ![g] = Ended]
      BY <2>1 DEF TickEnds
    <3>2. /\ Goes([NoLoop EXCEPT !.job = lp.job, !.step = "sleeping"])
          /\ Goes([NoLoop EXCEPT !.job = lp.job, !.step = "results"])
          /\ Goes(Ended)
      BY <1>2 DEF NoLoop, Begun, Live
    <3> HIDE DEF Goes
    <3> QED
      BY <3>1, <3>2
  <2>2. ASSUME NEW s \in Stream, loops' = [loops EXCEPT ![g] = [lp EXCEPT !.step = s, !.after = r.cursor[s]]]
        PROVE  Moves
    <3>1. Goes([lp EXCEPT !.step = s, !.after = r.cursor[s]])
      BY <1>2 DEF LoopType, Begun, Live, Stream
    <3> QED
      BY <2>2, <3>1
  <2>3. \/ TickEnds(g, lp, v, r)
        \/ \E s \in Stream : Asks(g, lp, v, r, s)
    BY <1>2, AskStreamsCases, Zenon
  <2> QED
    BY <2>1, <2>2, <2>3 DEF Asks
<1>3. LoopOver(g) => Moves
  BY DEF LoopOver
<1>4. ASSUME NEW step \in Begun, loops' = [loops EXCEPT ![g].step = step]
      PROVE  Moves
  <2>1. loops' = [loops EXCEPT ![g] = [loops[g] EXCEPT !.step = step]]
    BY <1>0, <1>4
  <2>2. Goes([loops[g] EXCEPT !.step = step])
    BY <1>0 DEF LoopType
  <2> QED
    BY <2>1, <2>2
<1>5. CASE Moves
  BY <1>0, <1>1, <1>5
<1>6. CASE TimerFires(g) \/ JobUnavailable(g) \/ ResultsAnswered(g) \/ ResultsFail(g)
  <2>1. \/ LoopOver(g)
        \/ loops' = [loops EXCEPT ![g].step = "asking"] \/ loops' = [loops EXCEPT ![g].step = "sleeping"]
    BY <1>6 DEF TimerFires, JobUnavailable, ResultsAnswered, ResultsFail
  <2>2. {"asking", "sleeping"} \subseteq Begun
    BY DEF Begun, Live
  <2> HIDE DEF Moves
  <2> QED
    BY <1>3, <1>4, <1>5, <2>1, <2>2
<1>7. CASE JobAnswered(g)
  <2> DEFINE j == loops[g].job
             lp == [loops[g] EXCEPT !.status = jobs[j].status, !.count = processed[j]]
  <2>1. j \in JobIds
    BY <1>7 DEF JobAnswered, Get, ServerType, ManagerTypeOK
  <2>2. jobs[j].status \in Status /\ processed[j] \in 0 .. Total
    BY <2>1 DEF ServerType, ManagerTypeOK, ScanJob
  <2>3. lp \in LoopType /\ lp.job = loops[g].job
    BY <1>0, <2>1, <2>2 DEF LoopType
  <2>4. LoopOver(g) \/ \E v, r : AskStreams(g, lp, v, r, Stream)
    BY <1>7 DEF JobAnswered
  <2> HIDE DEF lp, Moves
  <2> QED
    BY <1>2, <1>3, <1>5, <2>3, <2>4
<1>8. CASE StreamAnswered(g) \/ StreamLost(g)
  <2>1. \E v, r, todo : AskStreams(g, loops[g], v, r, todo)
    BY <1>8 DEF StreamAnswered, StreamLost
  <2> HIDE DEF Moves
  <2> QED
    BY <1>0, <1>2, <1>5, <2>1
<1>9. CASE JobGone(g)
  <2>1. CASE loops' = [StoppedLoops EXCEPT ![g] = Ended]
    BY <1>0, <1>1, <2>1 DEF StoppedLoops
  <2>2. LoopOver(g) \/ loops' = [StoppedLoops EXCEPT ![g] = Ended]
    BY <1>9 DEF JobGone
  <2> HIDE DEF Moves
  <2> QED
    BY <1>3, <1>5, <2>1, <2>2
<1> HIDE DEF Moves
<1> QED
  BY <1>5, <1>6, <1>7, <1>8, <1>9 DEF Poll, PollLost

\* pollJob begins a loop of its own.
LEMMA PollJobMoves ==
    ASSUME PollType, NEW j, NEW v \in ViewType, refs.generation + 1 \in Generations, PollJob(j, v)
    PROVE  /\ refs'.active = j /\ refs'.generation = refs.generation + 1 /\ refs'.cursor = NoCursor
           /\ loops'[refs.generation + 1] = [NoLoop EXCEPT !.job = j, !.step = "asking"]
           /\ \A h \in Generations \ {refs.generation + 1} :
                  loops'[h] = loops[h] \/ (loops'[h] = Ended /\ loops[h].step = "sleeping")
           /\ mounted => view' = [v EXCEPT !.items = NoItems]
           /\ ~mounted => UNCHANGED view
<1> DEFINE g == refs.generation + 1
<1>1. refs' = [NewRefs EXCEPT !.active = j, !.generation = g]
  BY DEF PollJob
<1>2. loops' = [StoppedLoops EXCEPT ![g] = [NoLoop EXCEPT !.job = j, !.step = "asking"]]
  BY DEF PollJob
<1>3. Show([v EXCEPT !.items = NoItems])
  BY DEF PollJob
<1>4. refs'.active = j /\ refs'.generation = g /\ refs'.cursor = NoCursor
  BY <1>1 DEF NewRefs
<1> HIDE DEF g
<1>5. /\ loops'[g] = [NoLoop EXCEPT !.job = j, !.step = "asking"]
      /\ \A h \in Generations \ {g} : loops'[h] = loops[h] \/ (loops'[h] = Ended /\ loops[h].step = "sleeping")
  BY <1>2 DEF StoppedLoops, g
<1> QED
  BY <1>3, <1>4, <1>5 DEF Show, g

\* The kinds of steps, as the loops and what they have collected see them.
LEMMA PageStepCases ==
    ASSUME TypeInv, StartedIsKnown, [Next]_vars
    PROVE  \/ \E g \in Generations : Poll(g) \/ PollLost(g)
           \/ UNCHANGED <<mounted, refs, loops>> /\ view'.items = view.items
           \/ /\ \E j \in JobIds, v \in ViewType : PollJob(j, v)
              /\ UNCHANGED mounted /\ refs.generation + 1 \in Generations
           \/ /\ refs' = [refs EXCEPT !.active = NoJob, !.timer = 0] /\ loops' = StoppedLoops
              /\ view'.items = view.items /\ mounted' \in {mounted, FALSE}
           \/ view' = NewView /\ mounted' = TRUE /\ refs' = NewRefs /\ loops' = NoLoops
<1> DEFINE Quiet == UNCHANGED <<mounted, refs, loops>> /\ view'.items = view.items
           Begins == /\ \E j \in JobIds, v \in ViewType : PollJob(j, v)
                     /\ UNCHANGED mounted /\ refs.generation + 1 \in Generations
<1>0. view \in ViewType /\ registry \subseteq JobIds
  BY DEF TypeInv, PollType, ServerType, ManagerTypeOK
<1>1. ASSUME NEW result, NEW job, NEW running, NEW issue,
             Show([view EXCEPT !.result = result, !.job = job, !.running = running, !.issue = issue])
      PROVE  view'.items = view.items
  BY <1>0, <1>1 DEF Show, ViewType
<1>2. /\ \A x : Show([view EXCEPT !.issue = x]) => view'.items = view.items
      /\ \A x : Show([view EXCEPT !.running = x]) => view'.items = view.items
      /\ \A x : Show([view EXCEPT !.result = x]) => view'.items = view.items
      /\ \A x, y : Show([view EXCEPT !.result = x, !.job = y]) => view'.items = view.items
      /\ \A x, y : Show([view EXCEPT !.job = x, !.running = y]) => view'.items = view.items
      /\ \A x, y, z : Show([view EXCEPT !.result = x, !.job = y, !.running = z]) => view'.items = view.items
  BY <1>0 DEF Show, ViewType
<1>3. CASE Backend
  BY <1>3 DEF Backend, StockReported, JobEnds, OtherTabStarts, OtherTabStops, CancelServed, CancelLost,
             BackendRestarts, ServerCacheExpires, LocalCacheExpires, Hidden
<1>4. ASSUME NEW c \in Clicks, Click(c) \/ StartLost(c) \/ \E fresh \in BOOLEAN : ClickStart(c, fresh)
      PROVE  Quiet \/ Begins
  <2>1. CASE StartedAnswered(c) \/ AdoptAnswered(c)
    <3>1. c \notin Over /\ UNCHANGED mounted
      BY <2>1 DEF StartedAnswered, AdoptAnswered, Over
    <3>2. refs.generation + 1 \in Generations
      BY <3>1, ClickHasGeneration
    <3>3. click[c].job \in JobIds
      BY <1>0, <1>4, <2>1 DEF StartedAnswered, AdoptAnswered, StartedIsKnown, Get
    <3>4. /\ [view EXCEPT !.job = click[c].job, !.running = TRUE] \in ViewType
          /\ [view EXCEPT !.job = click[c].job, !.running = (jobs[click[c].job].status = "running")] \in ViewType
      BY <1>0, <3>3 DEF ViewType, AnyJob
    <3>5. \/ \E v \in ViewType : PollJob(click[c].job, v)
          \/ (\E x, y : Show([view EXCEPT !.job = x, !.running = y])) /\ UNCHANGED <<refs, loops>>
      BY <2>1, <3>4 DEF StartedAnswered, AdoptAnswered
    <3>6. (\E x, y : Show([view EXCEPT !.job = x, !.running = y])) => view'.items = view.items
      BY <1>2
    <3> QED
      BY <3>1, <3>2, <3>3, <3>5, <3>6
  <2>2. CASE ~StartedAnswered(c) /\ ~AdoptAnswered(c)
    <3>1. UNCHANGED <<mounted, refs, loops>>
      BY <1>4, <2>2 DEF Click, StartLost, ClickStart, LocalCacheAnswered, StartServed, CachedAnswered,
                       ConflictAnswered, AdoptFails
    <3>2. \/ UNCHANGED view
          \/ \E x : Show([view EXCEPT !.issue = x])
          \/ \E x, y, z : Show([view EXCEPT !.result = x, !.job = y, !.running = z])
      BY <1>4, <2>2 DEF Click, StartLost, ClickStart, LocalCacheAnswered, StartServed, CachedAnswered,
                       ConflictAnswered, AdoptFails
    <3> QED
      BY <1>2, <3>1, <3>2
  <2> QED
    BY <2>1, <2>2
<1>5. CASE Restoring \/ RestoreLost
  <2>1. restore.step # "over" /\ UNCHANGED mounted
    BY <1>5 DEF Restoring, RestoreLost, RestoreLocal, RestoreLists, RestoreResults, RestoreCache
  <2>2. refs.generation + 1 \in Generations
    BY <2>1, RestoreHasGeneration
  <2>3. \A j \in RunningHere : j \in JobIds /\ [view EXCEPT !.job = j, !.running = TRUE] \in ViewType
    BY <1>0 DEF RunningHere, ViewType, AnyJob
  <2>4. \/ \E j \in RunningHere : PollJob(j, [view EXCEPT !.job = j, !.running = TRUE])
        \/ /\ UNCHANGED <<refs, loops>>
           /\ \/ UNCHANGED view
              \/ \E x : Show([view EXCEPT !.result = x])
              \/ \E x, y : Show([view EXCEPT !.result = x, !.job = y])
    BY <1>5 DEF Restoring, RestoreLost, RestoreLocal, RestoreLists, RestoreResults, RestoreCache
  <2>5. Quiet \/ Begins
    BY <1>2, <2>1, <2>2, <2>3, <2>4
  <2> QED
    BY <2>5
<1>6. CASE ClickStop \/ Leave
  <2>1. UNCHANGED view \/ Show([view EXCEPT !.running = FALSE])
    BY <1>6 DEF ClickStop, Leave
  <2>2. /\ refs' = [refs EXCEPT !.active = NoJob, !.timer = 0] /\ loops' = StoppedLoops
        /\ mounted' \in {mounted, FALSE}
    BY <1>6 DEF ClickStop, Leave
  <2> QED
    BY <1>2, <2>1, <2>2
<1>7. CASE Reload
  BY <1>7 DEF Reload
<1>8. CASE UNCHANGED vars
  BY <1>8 DEF vars
<1> QED
  BY <1>3, <1>4, <1>5, <1>6, <1>7, <1>8 DEF Next, PageNext

LEMMA StepKnowsJobs == TypeInv /\ TypeInv' /\ JobsAreKnown /\ [Next]_vars => JobsAreKnown'
<1> SUFFICES ASSUME TypeInv, TypeInv', JobsAreKnown, [Next]_vars PROVE JobsAreKnown'
  OBVIOUS
<1>0. loops \in [Generations -> LoopType] /\ click \in [Clicks -> ClickType]
  BY DEF TypeInv, PollType, ClickingType
<1>1. LoopsHaveJobs'
  <2>1. CASE \E g \in Generations : Poll(g) \/ PollLost(g)
    <3>1. PICK g \in Generations : Poll(g) \/ PollLost(g)
      BY <2>1
    <3>2. /\ loops[g].step \in Begun
          /\ \A h \in Generations \ {g} : loops'[h] = loops[h] \/ (loops'[h] = Ended /\ loops[h].step = "sleeping")
          /\ loops'[g] = Ended \/ (loops'[g].job = loops[g].job /\ loops'[g].step \in Begun)
      BY <3>1, LoopMoves DEF TypeInv
    <3>3. Ended.step \notin Begun
      BY DEF Ended, NoLoop, Begun, Live
    <3> QED
      BY <3>2, <3>3 DEF JobsAreKnown, LoopsHaveJobs
  <2>2. CASE (\E j \in JobIds, v \in ViewType : PollJob(j, v)) /\ refs.generation + 1 \in Generations
    <3>1. PICK j \in JobIds, v \in ViewType : PollJob(j, v)
      BY <2>2
    <3>2. /\ loops'[refs.generation + 1] = [NoLoop EXCEPT !.job = j, !.step = "asking"]
          /\ \A h \in Generations \ {refs.generation + 1} :
                 loops'[h] = loops[h] \/ (loops'[h] = Ended /\ loops[h].step = "sleeping")
      BY <2>2, <3>1, PollJobMoves DEF TypeInv
    <3>3. Ended.step \notin Begun /\ [NoLoop EXCEPT !.job = j, !.step = "asking"].job = j
      BY DEF Ended, NoLoop, Begun, Live
    <3> QED
      BY <3>2, <3>3 DEF JobsAreKnown, LoopsHaveJobs
  <2>3. CASE loops' \in {loops, StoppedLoops, NoLoops}
    <3>1. Ended.step \notin Begun /\ NoLoop.step \notin Begun
      BY DEF Ended, NoLoop, Begun, Live
    <3>2. \A h \in Generations : loops'[h] \in {loops[h], Ended, NoLoop}
      BY <2>3 DEF StoppedLoops, NoLoops
    <3> QED
      BY <3>1, <3>2 DEF JobsAreKnown, LoopsHaveJobs
  <2> QED
    BY <2>1, <2>2, <2>3, PageStepCases DEF JobsAreKnown
<1>2. StartedIsKnown'
  <2> DEFINE Known(x) == x.step = "answered" /\ x.reply = "started" => x.job \in JobIds
  <2>0. \A c \in Clicks : Known(click[c])
    BY DEF JobsAreKnown, StartedIsKnown
  <2>1. Known(Served)
    BY DEF Served
  <2>2. ASSUME NEW c \in Clicks, Click(c) \/ StartLost(c) \/ \E fresh \in BOOLEAN : ClickStart(c, fresh)
        PROVE  \A d \in Clicks : Known(click'[d])
    <3>1. CASE StartServed(c)
      <4> DEFINE Answers(reply, j) ==
                     click' = [click EXCEPT ![c].step = "answered", ![c].reply = reply, ![c].job = j]
      <4>0. \/ Answers("cached", serverCache) \/ Answers("refused", NoJob)
            \/ \E j \in SameDevice(ThisType, ThisDevice) : Answers("conflict", j)
            \/ \E j \in JobIds : Answers("started", j)
        BY <3>1 DEF StartServed
      <4>1. PICK reply, j : Answers(reply, j) /\ (reply = "started" => j \in JobIds)
        <5> HIDE DEF Answers
        <5> QED
          BY <4>0
      <4> QED
        BY <1>0, <2>0, <4>1 DEF ClickType
    <3>2. CASE ~StartServed(c)
      <4>1. \/ ClickOver(c)
            \/ \E fresh : click' = [click EXCEPT ![c].step = "local", ![c].fresh = fresh]
            \/ click' = [click EXCEPT ![c].step = "sent"]
            \/ click' = [click EXCEPT ![c].step = "sent", ![c].attempt = @ + 1]
            \/ click' = [click EXCEPT ![c].step = "adopting"]
        BY <2>2, <3>2 DEF Click, StartLost, ClickStart, LocalCacheAnswered, CachedAnswered, StartedAnswered,
                         ConflictAnswered, AdoptAnswered, AdoptFails
      <4>2. CASE ClickOver(c)
        <5> HIDE DEF Known
        <5> QED
          BY <1>0, <2>0, <2>1, <4>2 DEF ClickOver
      <4> QED
        BY <1>0, <2>0, <4>1, <4>2 DEF ClickType
    <3> QED
      BY <3>1, <3>2
  <2>3. CASE \E c \in Clicks : Click(c) \/ StartLost(c) \/ \E fresh \in BOOLEAN : ClickStart(c, fresh)
    BY <2>2, <2>3 DEF StartedIsKnown
  <2>4. CASE ~ \E c \in Clicks : Click(c) \/ StartLost(c) \/ \E fresh \in BOOLEAN : ClickStart(c, fresh)
    <3>1. UNCHANGED click \/ click' = [c \in Clicks |-> IF click[c].step = "idle" THEN click[c] ELSE Served]
      BY <2>4 DEF Next, PageNext, Backend, StockReported, JobEnds, OtherTabStarts, OtherTabStops, CancelServed,
                 CancelLost, BackendRestarts, ServerCacheExpires, LocalCacheExpires, Hidden, Poll, PollLost,
                 TimerFires, JobAnswered, JobGone, StreamAnswered, ResultsAnswered, JobUnavailable, StreamLost,
                 ResultsFail, ClickStop, Restoring, RestoreLocal, RestoreLists, RestoreResults, RestoreCache,
                 RestoreLost, Leave, Reload, vars
    <3>2. \A d \in Clicks : click'[d] = click[d] \/ click'[d] = Served
      BY <3>1
    <3> HIDE DEF Known
    <3>3. \A d \in Clicks : Known(click'[d])
      BY <2>0, <2>1, <3>2
    <3> USE DEF Known
    <3> QED
      BY <3>3 DEF StartedIsKnown
  <2> QED
    BY <2>3, <2>4
<1> QED
  BY <1>1, <1>2 DEF JobsAreKnown

-----------------------------------------------------------------------------
(* What the page has collected.                                            *)

GapFree(v) ==
    \A s \in Stream : \A i \in DOMAIN v.items[s] : v.items[s][i] = <<v.items[s][1][1], i>>

\* The cursors count what is shown, and that is of the job that is followed.
Agree(v, r) ==
    \A s \in Stream :
        /\ Len(v.items[s]) = r.cursor[s]
        /\ r.active # NoJob => \A i \in 1 .. Len(v.items[s]) : v.items[s][i] = <<r.active, i>>

CursorsAgree == mounted => Agree(view, refs)

\* Nothing has been taken since the loop that is followed has asked.
AskedAtCursor ==
    \A g \in Generations :
        Current(g) /\ loops[g].step \in Stream => loops[g].after = refs.cursor[loops[g].step]

CollectInv == ItemsGapFree /\ CursorsAgree /\ AskedAtCursor

LEMMA GapFreeIsOfView == ItemsGapFree <=> GapFree(view)
  BY DEF ItemsGapFree, GapFree

LEMMA AgreeGapFree ==
    ASSUME NEW v \in ViewType, NEW r, Agree(v, r), r.active # NoJob
    PROVE  GapFree(v)
<1> SUFFICES ASSUME NEW s \in Stream, NEW i \in DOMAIN v.items[s]
             PROVE  v.items[s][i] = <<v.items[s][1][1], i>>
  BY DEF GapFree
<1>1. v.items[s] \in Seq(JobIds \X (1 .. Total))
  BY DEF ViewType, ItemsType
<1>2. DOMAIN v.items[s] = 1 .. Len(v.items[s]) /\ Len(v.items[s]) \in Nat
  BY <1>1, LenProperties
<1>3. i \in 1 .. Len(v.items[s]) /\ 1 \in 1 .. Len(v.items[s])
  BY <1>2
<1>4. v.items[s][i] = <<r.active, i>> /\ v.items[s][1] = <<r.active, 1>>
  BY <1>3 DEF Agree
<1> QED
  BY <1>4

\* An answer is put after what is there.
LEMMA AppendAgrees ==
    ASSUME NEW v \in ViewType, NEW r \in RefsType, Agree(v, r), NEW s \in Stream, NEW j \in JobIds,
           r.active = j, NEW n \in 0 .. Total,
           NEW new, new = NewItems(j, n, r.cursor[s])
    PROVE  Agree([v EXCEPT !.items[s] = @ \o new], [r EXCEPT !.cursor[s] = @ + Len(new)])
<1> DEFINE k == r.cursor[s]
           old == v.items[s]
           all == old \o new
           w == [v EXCEPT !.items[s] = @ \o new]
           q == [r EXCEPT !.cursor[s] = @ + Len(new)]
<1>1. k \in 0 .. Total /\ old \in Seq(JobIds \X (1 .. Total)) /\ v.items \in ItemsType
  BY DEF RefsType, ViewType, ItemsType
<1>2. /\ new \in Seq(JobIds \X (1 .. Total))
      /\ \A i \in 1 .. Len(new) : new[i] = <<j, k + i>>
  BY <1>1, NewItemsTypes
<1>3. Len(old) = k /\ \A i \in 1 .. Len(old) : old[i] = <<j, i>>
  BY PageAssumption DEF Agree
<1>4. /\ Len(all) = Len(old) + Len(new)
      /\ \A i \in 1 .. Len(old) + Len(new) : all[i] = IF i <= Len(old) THEN old[i] ELSE new[i - Len(old)]
  <2> HIDE DEF old
  <2> QED
    BY <1>1, <1>2, ConcatProperties
<1>5. Len(old) \in Nat /\ Len(new) \in Nat
  BY <1>1, <1>2, LenProperties
<1>6. w.items = [v.items EXCEPT ![s] = all] /\ q.cursor = [r.cursor EXCEPT ![s] = k + Len(new)] /\ q.active = j
  BY DEF ViewType, RefsType
<1> HIDE DEF k, old, all, w, q
<1>7. \A i \in 1 .. Len(all) : all[i] = <<j, i>>
  <2> SUFFICES ASSUME NEW i \in 1 .. Len(all) PROVE all[i] = <<j, i>>
    OBVIOUS
  <2>1. CASE i <= Len(old)
    BY <1>3, <1>4, <1>5, <2>1
  <2>2. CASE i > Len(old)
    <3>1. i - Len(old) \in 1 .. Len(new) /\ k + (i - Len(old)) = i
      BY <1>3, <1>4, <1>5, <2>2
    <3>2. all[i] = new[i - Len(old)]
      BY <1>4, <1>5, <2>2
    <3> QED
      BY <1>2, <3>1, <3>2
  <2> QED
    BY <1>4, <1>5, <2>1, <2>2
<1>8. w.items[s] = all /\ q.cursor[s] = k + Len(new)
  BY <1>1, <1>6 DEF ItemsType, RefsType
<1>9. ASSUME NEW u \in Stream, u # s
      PROVE  w.items[u] = v.items[u] /\ q.cursor[u] = r.cursor[u]
  BY <1>1, <1>6, <1>9 DEF ItemsType, RefsType
<1>10. Agree(w, q)
  <2> SUFFICES ASSUME NEW u \in Stream
               PROVE  /\ Len(w.items[u]) = q.cursor[u]
                      /\ q.active # NoJob => \A i \in 1 .. Len(w.items[u]) : w.items[u][i] = <<q.active, i>>
    BY DEF Agree
  <2>1. CASE u = s
    BY <1>3, <1>4, <1>6, <1>7, <1>8, <2>1
  <2>2. CASE u # s
    BY <1>6, <1>9, <2>2 DEF Agree
  <2> QED
    BY <2>1, <2>2
<1> QED
  BY <1>10 DEF w, q

LEMMA CollectLoops ==
    ASSUME ServerType, PollType, PollType', LoopsHaveJobs, CollectInv,
           NEW g \in Generations, Poll(g) \/ PollLost(g)
    PROVE  CollectInv'
<1>0. /\ view \in ViewType /\ refs \in RefsType /\ mounted \in BOOLEAN
      /\ loops \in [Generations -> LoopType] /\ loops[g] \in LoopType /\ UNCHANGED mounted
      /\ loops' \in [Generations -> LoopType]
  BY DEF Poll, PollLost, TimerFires, JobAnswered, JobGone, StreamAnswered, ResultsAnswered,
         JobUnavailable, StreamLost, ResultsFail, PollType
<1>1. \A h \in Generations \ {g} : loops'[h] = loops[h] \/ loops'[h].step \notin Stream
  <2>1. Ended.step \notin Stream
    BY DEF Ended, NoLoop, Stream
  <2> QED
    BY <2>1, LoopMoves
<1>2. refs'.generation = refs.generation /\ refs'.active \in {refs.active, NoJob}
  BY LoopKeepsGeneration
<1>3. ASSUME NEW lp \in LoopType, NEW v \in ViewType, NEW r \in RefsType, NEW todo,
             AskStreams(g, lp, v, r, todo), mounted => GapFree(v) /\ Agree(v, r),
             r.active = refs.active, r.cursor = refs.cursor \/ Current(g)
      PROVE  CollectInv'
  <2>1. /\ refs' \in {r, [r EXCEPT !.timer = g]}
        /\ \/ loops'[g].step \notin Stream
           \/ refs' = r /\ loops'[g].after = r.cursor[loops'[g].step]
        /\ mounted => view'.items = v.items
        /\ ~mounted => UNCHANGED view
    <3>1. CASE TickEnds(g, lp, v, r)
      <4>1. refs' \in {r, [r EXCEPT !.timer = g]}
        BY <3>1 DEF TickEnds
      <4>2. loops'[g].step \notin Stream
        <5>1. \/ loops' = [loops EXCEPT ![g] = [NoLoop EXCEPT !.job = lp.job, !.step = "sleeping"]]
              \/ loops' = [loops EXCEPT ![g] = [NoLoop EXCEPT !.job = lp.job, !.step = "results"]]
              \/ loops' = [loops EXCEPT ![g] = Ended]
          BY <3>1 DEF TickEnds
        <5> QED
          BY <1>0, <5>1 DEF NoLoop, Ended, Stream
      <4>3. Show([v EXCEPT !.running = (lp.status = "running"),
                           !.issue = IF lp.status = "failed" THEN "error" ELSE @])
        BY <3>1 DEF TickEnds
      <4> QED
        BY <4>1, <4>2, <4>3 DEF Show, ViewType
    <3>2. ASSUME NEW s \in Stream, Show(v), refs' = r,
                 loops' = [loops EXCEPT ![g] = [lp EXCEPT !.step = s, !.after = r.cursor[s]]]
          PROVE  /\ loops'[g].step = s /\ loops'[g].after = r.cursor[s]
                 /\ mounted => view' = v
                 /\ ~mounted => UNCHANGED view
      BY <1>0, <3>2 DEF Show, LoopType
    <3>3. \/ TickEnds(g, lp, v, r)
          \/ \E s \in Stream : Asks(g, lp, v, r, s)
      BY <1>3, AskStreamsCases, Zenon
    <3>4. ASSUME NEW s \in Stream, Show(v), refs' = r,
                 loops' = [loops EXCEPT ![g] = [lp EXCEPT !.step = s, !.after = r.cursor[s]]]
          PROVE  /\ refs' \in {r, [r EXCEPT !.timer = g]}
                 /\ refs' = r /\ loops'[g].after = r.cursor[loops'[g].step]
                 /\ mounted => view'.items = v.items
                 /\ ~mounted => UNCHANGED view
      BY <3>2, <3>4
    <3> QED
      BY <3>1, <3>3, <3>4 DEF Asks
  <2>2. refs'.cursor = r.cursor /\ refs'.active = refs.active
    BY <1>3, <2>1 DEF RefsType
  <2>3. GapFree(view')
    BY <1>3, <2>1, GapFreeIsOfView DEF GapFree, CollectInv
  <2>4. mounted' => Agree(view', refs')
    BY <1>0, <1>3, <2>1, <2>2 DEF Agree
  <2>5. AskedAtCursor'
    <3> SUFFICES ASSUME NEW h \in Generations, Current(h)', loops'[h].step \in Stream
                 PROVE  loops'[h].after = refs'.cursor[loops'[h].step]
      BY DEF AskedAtCursor
    <3>1. CASE h = g
      BY <2>1, <3>1
    <3>2. CASE h # g
      <4>1. loops'[h] = loops[h] /\ Current(h) /\ ~Current(g)
        BY <1>1, <1>2, <2>2, <3>2 DEF Current
      <4>2. refs'.cursor = refs.cursor
        BY <1>3, <2>2, <4>1
      <4> QED
        BY <4>1, <4>2 DEF CollectInv, AskedAtCursor
    <3> QED
      BY <3>1, <3>2
  <2> QED
    BY <2>3, <2>4, <2>5 DEF CollectInv, GapFree, ItemsGapFree, CursorsAgree
<1>4. GapFree(view) /\ (mounted => Agree(view, refs))
  BY GapFreeIsOfView DEF CollectInv, CursorsAgree
<1>5. CASE /\ view'.items = view.items /\ refs'.cursor = refs.cursor
           /\ loops'[g].step \notin Stream
  <2>1. GapFree(view')
    BY <1>4, <1>5 DEF GapFree
  <2>2. mounted' => Agree(view', refs')
    BY <1>0, <1>2, <1>4, <1>5 DEF Agree
  <2>3. AskedAtCursor'
    <3> SUFFICES ASSUME NEW h \in Generations, Current(h)', loops'[h].step \in Stream
                 PROVE  loops'[h].after = refs'.cursor[loops'[h].step]
      BY DEF AskedAtCursor
    <3>1. loops'[h] = loops[h]
      BY <1>1, <1>5
    <3>2. refs'.active # NoJob
      BY <3>1, PageAssumption DEF Current, LoopsHaveJobs, Begun, Live, Stream
    <3>3. Current(h)
      BY <1>2, <3>1, <3>2 DEF Current
    <3> QED
      BY <1>5, <3>1, <3>3 DEF CollectInv, AskedAtCursor
  <2> QED
    BY <2>1, <2>2, <2>3 DEF CollectInv, GapFree, ItemsGapFree, CursorsAgree
<1>6. CASE TimerFires(g) \/ ResultsAnswered(g) \/ JobUnavailable(g) \/ ResultsFail(g) \/ JobGone(g)
  <2>1. \/ LoopOver(g) \/ loops' = [loops EXCEPT ![g].step = "asking"]
        \/ loops' = [loops EXCEPT ![g].step = "sleeping"]
        \/ loops' = [StoppedLoops EXCEPT ![g] = Ended]
    BY <1>6 DEF TimerFires, ResultsAnswered, JobUnavailable, ResultsFail, JobGone
  <2>2. loops'[g].step \notin Stream
    BY <1>0, <2>1 DEF LoopOver, Ended, NoLoop, Stream, StoppedLoops, LoopType
  <2>3. refs'.cursor = refs.cursor
    <3>1. refs' \in {refs, [refs EXCEPT !.active = NoJob, !.timer = 0],
                     [refs EXCEPT !.failing = TRUE, !.timer = g]}
      BY <1>6 DEF TimerFires, JobGone, ResultsAnswered, JobUnavailable, ResultsFail
    <3> QED
      BY <1>0, <3>1 DEF RefsType
  <2>4. view'.items = view.items
    <3>1. \/ UNCHANGED view
          \/ Show([view EXCEPT !.result = loops[g].job])
          \/ Show([view EXCEPT !.issue = "unavailable"]) \/ Show([view EXCEPT !.issue = "error"])
          \/ Show([view EXCEPT !.running = FALSE, !.issue = "unavailable"])
          \/ Show([view EXCEPT !.running = FALSE, !.job = NoJob, !.issue = "interrupted"])
      BY <1>6 DEF TimerFires, JobGone, ResultsAnswered, JobUnavailable, ResultsFail
    <3> QED
      BY <1>0, <3>1 DEF Show, ViewType
  <2> QED
    BY <1>5, <2>2, <2>3, <2>4
<1>7. CASE StreamLost(g)
  <2>1. PICK todo : AskStreams(g, loops[g], view, refs, todo)
    BY <1>7 DEF StreamLost
  <2> QED
    BY <1>0, <1>3, <1>4, <2>1
<1>8. CASE JobAnswered(g)
  <2> DEFINE j == loops[g].job
             lp == [loops[g] EXCEPT !.status = jobs[j].status, !.count = processed[j]]
             v == [view EXCEPT !.issue = "none", !.job = j]
             r == [refs EXCEPT !.failing = FALSE]
  <2>1. j \in JobIds
    BY <1>8 DEF JobAnswered, Get, ServerType, ManagerTypeOK
  <2>2. jobs[j].status \in Status /\ processed[j] \in 0 .. Total
    BY <2>1 DEF ServerType, ManagerTypeOK, ScanJob
  <2>3. lp \in LoopType /\ v \in ViewType /\ r \in RefsType
    BY <1>0, <2>1, <2>2 DEF LoopType, ViewType, RefsType, AnyJob, Issue
  <2>4. v.items = view.items /\ r.cursor = refs.cursor /\ r.active = refs.active
    BY <1>0 DEF ViewType, RefsType
  <2>5. CASE Current(g)
    <3>1. AskStreams(g, lp, v, r, Stream)
      BY <1>8, <2>5 DEF JobAnswered
    <3> HIDE DEF lp, v, r
    <3>2. mounted => GapFree(v) /\ Agree(v, r)
      BY <1>4, <2>4 DEF GapFree, Agree
    <3> QED
      BY <1>3, <2>3, <2>4, <3>1, <3>2
  <2>6. CASE ~Current(g)
    <3>1. LoopOver(g) /\ UNCHANGED <<view, refs>>
      BY <1>8, <2>6 DEF JobAnswered
    <3>2. loops'[g].step \notin Stream
      BY <1>0, <3>1 DEF LoopOver, Ended, NoLoop, Stream
    <3> QED
      BY <1>5, <3>1, <3>2
  <2> QED
    BY <2>5, <2>6
<1>9. CASE StreamAnswered(g)
  <2> DEFINE s == loops[g].step
             j == loops[g].job
             after == loops[g].after
             new == NewItems(j, Items(s, j), after)
             taken == Current(g) /\ j \in registry /\ new # << >>
             v == IF taken THEN [view EXCEPT !.items[s] = @ \o new] ELSE view
             r == IF taken THEN [refs EXCEPT !.cursor[s] = after + Len(new)] ELSE refs
             todo == IF s = "partial" THEN {"progress"} ELSE {}
  <2>1. s \in Stream /\ AskStreams(g, loops[g], v, r, todo)
    BY <1>9 DEF StreamAnswered, NewItems
  <2>2. CASE ~taken
    <3>1. v = view /\ r = refs
      BY <2>2
    <3> HIDE DEF s, v, r, todo
    <3> QED
      BY <1>0, <1>3, <1>4, <2>1, <3>1
  <2>3. CASE taken
    <3>1. j \in JobIds /\ Items(s, j) \in 0 .. Total /\ after \in 0 .. Total /\ refs.active = j
      BY <1>0, <2>1, <2>3, ItemsCounted DEF ServerType, ManagerTypeOK, LoopType, Current
    <3>2. after = refs.cursor[s] /\ Current(g)
      BY <2>1, <2>3 DEF CollectInv, AskedAtCursor
    <3>3. v = [view EXCEPT !.items[s] = @ \o new] /\ r = [refs EXCEPT !.cursor[s] = @ + Len(new)]
      BY <2>3, <3>2
    <3>4. new = NewItems(j, Items(s, j), refs.cursor[s])
      BY <3>2
    <3> HIDE DEF s, j, after
    <3>5. new \in Seq(JobIds \X (1 .. Total)) /\ after + Len(new) = Items(s, j)
      BY <2>3, <3>1, NewItemsTypes
    <3> HIDE DEF new, v, r, todo, taken
    <3>6. v \in ViewType
      <4>1. view.items \in ItemsType /\ view.items[s] \in Seq(JobIds \X (1 .. Total))
        BY <1>0, <2>1 DEF ViewType, ItemsType
      <4>2. view.items[s] \o new \in Seq(JobIds \X (1 .. Total))
        BY <3>5, <4>1, ConcatProperties
      <4> QED
        BY <1>0, <3>3, <4>1, <4>2 DEF ViewType, ItemsType
    <3>7. r \in RefsType /\ r.active = refs.active
      BY <1>0, <3>1, <3>2, <3>3, <3>5 DEF RefsType
    <3>8. mounted => Agree(v, r)
      BY <1>0, <1>4, <2>1, <3>1, <3>3, <3>4, AppendAgrees
    <3>9. mounted => GapFree(v)
      BY <3>1, <3>6, <3>7, <3>8, AgreeGapFree, PageAssumption
    <3> QED
      BY <1>0, <1>3, <2>1, <3>2, <3>6, <3>7, <3>8, <3>9
  <2> QED
    BY <2>2, <2>3
<1> QED
  BY <1>6, <1>7, <1>8, <1>9 DEF Poll, PollLost

LEMMA StepCollects ==
    TypeInv /\ TypeInv' /\ JobsAreKnown /\ CollectInv /\ [Next]_vars => CollectInv'
<1> SUFFICES ASSUME TypeInv, TypeInv', JobsAreKnown, CollectInv, [Next]_vars PROVE CollectInv'
  OBVIOUS
<1>0. /\ view \in ViewType /\ refs \in RefsType /\ loops \in [Generations -> LoopType]
      /\ view' \in ViewType /\ refs' \in RefsType /\ mounted \in BOOLEAN
      /\ GapFree(view) /\ (mounted => Agree(view, refs))
  BY GapFreeIsOfView DEF TypeInv, PollType, CollectInv, CursorsAgree
<1>1. CASE \E g \in Generations : Poll(g) \/ PollLost(g)
  BY <1>1, CollectLoops DEF TypeInv, JobsAreKnown
<1>2. ASSUME view'.items = NoItems, refs'.cursor = NoCursor
      PROVE  GapFree(view') /\ Agree(view', refs')
  <2>1. \A s \in Stream : view'.items[s] = << >> /\ refs'.cursor[s] = 0
    BY <1>2 DEF NoItems, NoCursor
  <2> QED
    BY <2>1 DEF GapFree, Agree
<1>3. CASE /\ view'.items = view.items /\ mounted' \in {mounted, FALSE}
           /\ \/ UNCHANGED <<refs, loops>>
              \/ refs' = [refs EXCEPT !.active = NoJob, !.timer = 0] /\ loops' = StoppedLoops
  <2>1. refs'.cursor = refs.cursor /\ refs'.active \in {refs.active, NoJob} /\ refs'.generation = refs.generation
    BY <1>0, <1>3 DEF RefsType
  <2>2. GapFree(view') /\ (mounted' => Agree(view', refs'))
    <3>1. GapFree(view')
      BY <1>0, <1>3 DEF GapFree
    <3>2. ASSUME Agree(view, refs)
          PROVE  Agree(view', refs')
      BY <1>3, <2>1, <3>2 DEF Agree
    <3>3. mounted' => mounted
      BY <1>3
    <3> QED
      BY <1>0, <3>1, <3>2, <3>3
  <2>3. AskedAtCursor'
    <3> SUFFICES ASSUME NEW h \in Generations, Current(h)', loops'[h].step \in Stream
                 PROVE  loops'[h].after = refs'.cursor[loops'[h].step]
      BY DEF AskedAtCursor
    <3>1. loops'[h] = loops[h]
      BY <1>3 DEF StoppedLoops, Ended, NoLoop, Stream
    <3>2. refs'.active # NoJob
      BY <3>1, PageAssumption DEF Current, JobsAreKnown, LoopsHaveJobs, Begun, Live, Stream
    <3>3. Current(h)
      BY <2>1, <3>1, <3>2 DEF Current
    <3> QED
      BY <2>1, <3>1, <3>3 DEF CollectInv, AskedAtCursor
  <2> QED
    BY <2>2, <2>3 DEF CollectInv, GapFree, ItemsGapFree, CursorsAgree
<1>4. ASSUME NEW j \in JobIds, NEW v \in ViewType, PollJob(j, v), UNCHANGED mounted,
             refs.generation + 1 \in Generations
      PROVE  CollectInv'
  <2> DEFINE g == refs.generation + 1
  <2>1. /\ refs'.generation = g /\ refs'.cursor = NoCursor
        /\ loops'[g] = [NoLoop EXCEPT !.job = j, !.step = "asking"]
        /\ mounted => view' = [v EXCEPT !.items = NoItems]
        /\ ~mounted => UNCHANGED view
    BY <1>4, PollJobMoves DEF TypeInv
  <2>2. mounted => view'.items = NoItems
    BY <2>1 DEF ViewType
  <2>3. GapFree(view') /\ (mounted' => Agree(view', refs'))
    BY <1>0, <1>2, <1>4, <2>1, <2>2
  <2>4. AskedAtCursor'
    <3>1. loops'[g].step \notin Stream
      BY <2>1 DEF NoLoop, Stream
    <3> QED
      BY <2>1, <3>1 DEF AskedAtCursor, Current
  <2> QED
    BY <2>3, <2>4 DEF CollectInv, GapFree, ItemsGapFree, CursorsAgree
<1>5. CASE view' = NewView /\ mounted' = TRUE /\ refs' = NewRefs /\ loops' = NoLoops
  <2>1. GapFree(view') /\ Agree(view', refs')
    BY <1>2, <1>5 DEF NewView, NewRefs
  <2>2. AskedAtCursor'
    BY <1>5 DEF AskedAtCursor, NoLoops, NoLoop, Stream
  <2> QED
    BY <2>1, <2>2 DEF CollectInv, GapFree, ItemsGapFree, CursorsAgree
<1> QED
  BY <1>1, <1>3, <1>4, <1>5, PageStepCases DEF JobsAreKnown

LEMMA InitCollects == Init => JobsAreKnown /\ CollectInv
<1> SUFFICES ASSUME Init PROVE JobsAreKnown /\ CollectInv
  OBVIOUS
<1>1. /\ view = NewView /\ refs = NewRefs /\ loops = NoLoops
      /\ \A c \in Clicks : click[c].step = "idle"
  BY DEF Init
<1>2. JobsAreKnown
  BY <1>1 DEF JobsAreKnown, LoopsHaveJobs, StartedIsKnown, NoLoops, NoLoop, Begun, Live
<1>3. \A s \in Stream : view.items[s] = << >> /\ refs.cursor[s] = 0
  BY <1>1 DEF NewView, NewRefs, NoItems, NoCursor
<1>4. ItemsGapFree /\ CursorsAgree
  BY <1>3 DEF ItemsGapFree, CursorsAgree, Agree
<1>5. AskedAtCursor
  BY <1>1 DEF AskedAtCursor, NoLoops, NoLoop, Stream
<1> QED
  BY <1>2, <1>4, <1>5 DEF CollectInv

LEMMA CollectInvariant == Spec => [](TypeInv /\ JobsAreKnown /\ CollectInv)
<1>1. Init => TypeInv /\ JobsAreKnown /\ CollectInv
  BY InitTypes, InitCollects
<1>2. TypeInv /\ JobsAreKnown /\ CollectInv /\ [Next]_vars => (TypeInv /\ JobsAreKnown /\ CollectInv)'
  BY StepTypes, StepKnowsJobs, StepCollects
<1> QED
  BY <1>1, <1>2, PTL DEF Spec

\* What the page has collected of a stream are the items of one job from the
\* first on, each once, whenever the user stops, starts and leaves.
THEOREM CollectedItemsAreGapFree == Spec => []ItemsGapFree
<1>1. CollectInv => ItemsGapFree
  BY DEF CollectInv
<1> QED
  BY <1>1, CollectInvariant, PTL

-----------------------------------------------------------------------------
(* The page and the loop it follows.                                       *)

Following == \E g \in Generations : Current(g) /\ loops[g].step \in Live

LEMMA MisledIs ==
    ASSUME LoopsHaveJobs
    PROVE  Misled <=> mounted /\ view.running /\ ~Following
  BY DEF Misled, Following, Followed, LoopsHaveJobs, Begun

\* What is followed depends on the refs and the loops alone.
LEMMA QuietFollows ==
    ASSUME UNCHANGED <<refs, loops>>
    PROVE  Following' <=> Following
  BY DEF Following, Current

\* A poll that begins is followed.
LEMMA BeginFollows ==
    ASSUME PollType, NEW j, NEW v \in ViewType, refs.generation + 1 \in Generations, PollJob(j, v)
    PROVE  Following'
<1> DEFINE g == refs.generation + 1
<1>1. /\ refs'.active = j /\ refs'.generation = g
      /\ loops'[g] = [NoLoop EXCEPT !.job = j, !.step = "asking"]
  BY PollJobMoves
<1>2. loops'[g].job = j /\ loops'[g].step = "asking"
  BY <1>1 DEF NoLoop
<1> HIDE DEF g
<1>3. g \in Generations
  BY DEF g
<1> QED
  BY <1>1, <1>2, <1>3 DEF Following, Current, Live

\* A tick leaves what is followed alone; it goes on with its job, or the page
\* says that it is not running.
LEMMA TickGoesOn ==
    ASSUME PollType, mounted, NEW g \in Generations, NEW lp \in LoopType, lp.job = loops[g].job,
           NEW v \in ViewType,
           NEW r \in RefsType, r.active = refs.active, r.generation = refs.generation,
           NEW todo, AskStreams(g, lp, v, r, todo)
    PROVE  /\ refs'.active = refs.active /\ refs'.generation = refs.generation
           /\ \A h \in Generations \ {g} : loops'[h] = loops[h]
           /\ \/ view'.running = FALSE
              \/ /\ loops'[g].job = loops[g].job
                 /\ \/ loops'[g].step \in Stream /\ view'.running = v.running
                    \/ loops'[g].step = "sleeping" /\ lp.status = "running"
<1>0. loops \in [Generations -> LoopType]
  BY DEF PollType
<1>1. CASE TickEnds(g, lp, v, r)
  <2> DEFINE w == [v EXCEPT !.running = (lp.status = "running"),
                            !.issue = IF lp.status = "failed" THEN "error" ELSE @]
  <2>1. view' = w /\ refs' \in {r, [r EXCEPT !.timer = g]}
    BY <1>1 DEF TickEnds, Show
  <2>2. view'.running = (lp.status = "running")
    BY <2>1 DEF ViewType
  <2>3. refs'.active = refs.active /\ refs'.generation = refs.generation
    BY <2>1 DEF RefsType
  <2>4. CASE lp.status = "running"
    <3>1. loops' = [loops EXCEPT ![g] = [NoLoop EXCEPT !.job = lp.job, !.step = "sleeping"]]
      BY <1>1, <2>4 DEF TickEnds
    <3>2. loops'[g].step = "sleeping" /\ loops'[g].job = loops[g].job
      BY <1>0, <3>1 DEF NoLoop
    <3> QED
      BY <1>0, <2>3, <2>4, <3>1, <3>2
  <2>5. CASE lp.status # "running"
    <3>1. \/ loops' = [loops EXCEPT ![g] = [NoLoop EXCEPT !.job = lp.job, !.step = "results"]]
          \/ loops' = [loops EXCEPT ![g] = Ended]
      BY <1>1, <2>5 DEF TickEnds
    <3>2. \A h \in Generations \ {g} : loops'[h] = loops[h]
      BY <1>0, <3>1
    <3> QED
      BY <2>2, <2>3, <2>5, <3>2
  <2> QED
    BY <2>4, <2>5
<1>2. ASSUME NEW s \in Stream, Show(v), refs' = r,
             loops' = [loops EXCEPT ![g] = [lp EXCEPT !.step = s, !.after = r.cursor[s]]]
      PROVE  /\ view'.running = v.running
             /\ refs'.active = refs.active /\ refs'.generation = refs.generation
             /\ loops'[g].step \in Stream /\ loops'[g].job = loops[g].job
             /\ \A h \in Generations \ {g} : loops'[h] = loops[h]
  <2>1. view' = v
    BY <1>2 DEF Show
  <2>2. loops'[g].step \in Stream /\ loops'[g].job = loops[g].job
    BY <1>0, <1>2 DEF LoopType, Stream
  <2> QED
    BY <1>0, <1>2, <2>1, <2>2
<1>3. \/ TickEnds(g, lp, v, r)
      \/ \E s \in Stream : Asks(g, lp, v, r, s)
  BY ONLY AskStreams(g, lp, v, r, todo), AskStreamsCases, Zenon
<1> QED
  BY <1>1, <1>2, <1>3 DEF Asks

\* A loop's step, while the page is open: only a late tick can leave the page
\* running with nothing to follow.
LEMMA LoopMisleads ==
    ASSUME ServerType, PollType, PollType', LoopsHaveJobs, LoopsHaveJobs', mounted,
           view.running => Following,
           NEW g \in Generations, Poll(g) \/ PollLost(g), view'.running, ~Following'
    PROVE  LateTick(g)
<1>0. /\ view \in ViewType /\ refs \in RefsType /\ view' \in ViewType /\ refs' \in RefsType
      /\ loops \in [Generations -> LoopType] /\ loops[g] \in LoopType
      /\ loops' \in [Generations -> LoopType]
  BY DEF PollType
<1>1. Stream \subseteq Live /\ {"asking", "sleeping"} \subseteq Live
  BY DEF Live, Stream
\* A loop that goes on while it is the current one is followed.
<1>2. ~(/\ Current(g) /\ refs'.active = refs.active /\ refs'.generation = refs.generation
        /\ loops'[g].job = loops[g].job /\ loops'[g].step \in Live)
  BY DEF Following, Current
\* A step that leaves the others alone does not hide the one that is followed.
<1>3. ASSUME refs'.active = refs.active, refs'.generation = refs.generation,
             \A h \in Generations \ {g} : loops'[h] = loops[h],
             ~Current(g) \/ loops[g].step \notin Live
      PROVE  ~view.running
  BY <1>3 DEF Following, Current
<1>4. ASSUME NEW lp \in LoopType, lp.job = loops[g].job, NEW v \in ViewType, NEW r \in RefsType,
             r.active = refs.active, r.generation = refs.generation, NEW todo,
             AskStreams(g, lp, v, r, todo)
      PROVE  ~Current(g) /\ (\/ loops'[g].step = "sleeping" /\ lp.status = "running"
                             \/ v.running)
  <2>1. /\ refs'.active = refs.active /\ refs'.generation = refs.generation
        /\ \/ view'.running = FALSE
           \/ /\ loops'[g].job = loops[g].job
              /\ \/ loops'[g].step \in Stream /\ view'.running = v.running
                 \/ loops'[g].step = "sleeping" /\ lp.status = "running"
    BY <1>4, TickGoesOn
  <2> QED
    BY <1>1, <1>2, <2>1
<1>5. CASE TimerFires(g)
  <2>1. CASE Current(g)
    <3>1. loops[g].step = "sleeping" /\ loops' = [loops EXCEPT ![g].step = "asking"] /\ UNCHANGED refs
      BY <1>5, <2>1 DEF TimerFires
    <3>2. loops'[g].step = "asking" /\ loops'[g].job = loops[g].job
      BY <1>0, <3>1 DEF LoopType
    <3> QED
      BY <1>1, <1>2, <2>1, <3>1, <3>2
  <2>2. CASE ~Current(g)
    <3>1. LoopOver(g) /\ UNCHANGED <<view, refs>>
      BY <1>5, <2>2 DEF TimerFires
    <3>2. \A h \in Generations \ {g} : loops'[h] = loops[h]
      BY <1>0, <3>1 DEF LoopOver
    <3> QED
      BY <1>3, <2>2, <3>1, <3>2
  <2> QED
    BY <2>1, <2>2
<1>6. CASE JobAnswered(g)
  <2> DEFINE j == loops[g].job
             lp == [loops[g] EXCEPT !.status = jobs[j].status, !.count = processed[j]]
             v == [view EXCEPT !.issue = "none", !.job = j]
             r == [refs EXCEPT !.failing = FALSE]
  <2>1. CASE Current(g)
    <3>1. j \in JobIds
      BY <1>6 DEF JobAnswered, Get, ServerType, ManagerTypeOK
    <3>2. jobs[j].status \in Status /\ processed[j] \in 0 .. Total
      BY <3>1 DEF ServerType, ManagerTypeOK, ScanJob
    <3>3. lp \in LoopType /\ v \in ViewType /\ r \in RefsType
      BY <1>0, <3>1, <3>2 DEF LoopType, ViewType, RefsType, AnyJob, Issue
    <3>4. lp.job = loops[g].job /\ r.active = refs.active /\ r.generation = refs.generation
      BY <1>0 DEF LoopType, RefsType
    <3>5. AskStreams(g, lp, v, r, Stream)
      BY <1>6, <2>1 DEF JobAnswered
    <3> HIDE DEF lp, v, r
    <3> QED
      BY <1>4, <2>1, <3>3, <3>4, <3>5
  <2>2. CASE ~Current(g)
    <3>1. LoopOver(g) /\ UNCHANGED <<view, refs>>
      BY <1>6, <2>2 DEF JobAnswered
    <3>2. \A h \in Generations \ {g} : loops'[h] = loops[h]
      BY <1>0, <3>1 DEF LoopOver
    <3> QED
      BY <1>3, <2>2, <3>1, <3>2
  <2> QED
    BY <2>1, <2>2
<1>7. CASE JobGone(g)
  <2>1. CASE Current(g)
    <3>1. view' = [view EXCEPT !.running = FALSE, !.job = NoJob, !.issue = "interrupted"]
      BY <1>7, <2>1 DEF JobGone, Show
    <3> QED
      BY <1>0, <3>1 DEF ViewType
  <2>2. CASE ~Current(g)
    <3>1. LoopOver(g) /\ UNCHANGED <<view, refs>>
      BY <1>7, <2>2 DEF JobGone
    <3>2. \A h \in Generations \ {g} : loops'[h] = loops[h]
      BY <1>0, <3>1 DEF LoopOver
    <3> QED
      BY <1>3, <2>2, <3>1, <3>2
  <2> QED
    BY <2>1, <2>2
\* A stream is answered, or lost, with the state and the refs as they are or,
\* when the loop is the current one, with the cursor moved.
<1>8. ASSUME NEW v \in ViewType, NEW r \in RefsType, v.running = view.running,
             r.active = refs.active, r.generation = refs.generation, NEW todo,
             AskStreams(g, loops[g], v, r, todo), loops[g].step \in Stream
      PROVE  LateTick(g)
  <2>1. ~Current(g) /\ (\/ loops'[g].step = "sleeping" /\ loops[g].status = "running"
                        \/ view.running)
    BY <1>0, <1>4, <1>8
  <2>2. /\ refs'.active = refs.active /\ refs'.generation = refs.generation
        /\ \A h \in Generations \ {g} : loops'[h] = loops[h]
    BY <1>0, <1>8, TickGoesOn
  <2>3. ~view.running
    BY <1>3, <2>1, <2>2
  <2> QED
    BY <1>8, <2>1, <2>3 DEF LateTick
<1>9. CASE StreamLost(g)
  <2>1. loops[g].step \in Stream /\ \E todo : AskStreams(g, loops[g], view, refs, todo)
    BY <1>9 DEF StreamLost
  <2> QED
    BY <1>0, <1>8, <2>1
<1>10. CASE StreamAnswered(g)
  <2> DEFINE s == loops[g].step
             j == loops[g].job
             after == loops[g].after
             new == NewItems(j, Items(s, j), after)
             taken == Current(g) /\ j \in registry /\ new # << >>
             v == IF taken THEN [view EXCEPT !.items[s] = @ \o new] ELSE view
             r == IF taken THEN [refs EXCEPT !.cursor[s] = after + Len(new)] ELSE refs
             todo == IF s = "partial" THEN {"progress"} ELSE {}
  <2>1. s \in Stream /\ AskStreams(g, loops[g], v, r, todo)
    BY <1>10 DEF StreamAnswered, NewItems
  <2>2. v \in ViewType /\ r \in RefsType
    <3>1. CASE ~taken
      BY <1>0, <3>1
    <3>2. CASE taken
      <4>1. j \in JobIds /\ Items(s, j) \in 0 .. Total /\ after \in 0 .. Total
        BY <1>0, <2>1, <3>2, ItemsCounted DEF ServerType, ManagerTypeOK, LoopType
      <4> HIDE DEF s, j, after
      <4>2. new \in Seq(JobIds \X (1 .. Total)) /\ after + Len(new) = Items(s, j)
        BY <3>2, <4>1, NewItemsTypes
      <4> HIDE DEF new
      <4>3. view.items \in ItemsType /\ view.items[s] \in Seq(JobIds \X (1 .. Total))
        BY <1>0, <2>1 DEF ViewType, ItemsType
      <4>4. view.items[s] \o new \in Seq(JobIds \X (1 .. Total))
        BY <4>2, <4>3, ConcatProperties
      <4>5. [view EXCEPT !.items[s] = @ \o new] \in ViewType
        BY <1>0, <4>3, <4>4 DEF ViewType, ItemsType
      <4>6. [refs EXCEPT !.cursor[s] = after + Len(new)] \in RefsType
        BY <1>0, <4>1, <4>2 DEF RefsType
      <4> QED
        BY <3>2, <4>5, <4>6
    <3> QED
      BY <3>1, <3>2
  <2>3. v.running = view.running /\ r.active = refs.active /\ r.generation = refs.generation
    <3> HIDE DEF s, new, taken
    <3> QED
      BY <1>0 DEF ViewType, RefsType
  <2> HIDE DEF v, r, todo, j, new, taken, after
  <2> QED
    BY <1>8, <2>1, <2>2, <2>3
<1>11. CASE ResultsAnswered(g) \/ ResultsFail(g)
  <2>1. /\ loops[g].step = "results" /\ LoopOver(g) /\ UNCHANGED refs
        /\ \/ UNCHANGED view
           \/ Show([view EXCEPT !.result = loops[g].job])
           \/ Show([view EXCEPT !.issue = "error"])
    BY <1>11 DEF ResultsAnswered, ResultsFail
  <2>2. view'.running = view.running
    BY <1>0, <2>1 DEF Show, ViewType
  <2>3. loops[g].step \notin Live /\ \A h \in Generations \ {g} : loops'[h] = loops[h]
    BY <1>0, <2>1 DEF LoopOver, Live
  <2> QED
    BY <1>3, <2>1, <2>2, <2>3
<1>12. CASE JobUnavailable(g)
  <2>1. CASE /\ Current(g) /\ refs' = [refs EXCEPT !.failing = TRUE, !.timer = g]
             /\ loops' = [loops EXCEPT ![g].step = "sleeping"]
    <3>1. refs'.active = refs.active /\ refs'.generation = refs.generation
      BY <1>0, <2>1 DEF RefsType
    <3>2. loops'[g].step = "sleeping" /\ loops'[g].job = loops[g].job
      BY <1>0, <2>1 DEF LoopType
    <3> QED
      BY <1>1, <1>2, <2>1, <3>1, <3>2
  <2>2. CASE Show([view EXCEPT !.running = FALSE, !.issue = "unavailable"])
    BY <1>0, <2>2 DEF Show, ViewType
  <2>3. CASE ~Current(g) /\ LoopOver(g) /\ UNCHANGED <<view, refs>>
    <3>1. \A h \in Generations \ {g} : loops'[h] = loops[h]
      BY <1>0, <2>3 DEF LoopOver
    <3> QED
      BY <1>3, <2>3, <3>1
  <2> QED
    BY <1>12, <2>1, <2>2, <2>3 DEF JobUnavailable
<1> QED
  BY <1>5, <1>6, <1>7, <1>9, <1>10, <1>11, <1>12 DEF Poll, PollLost

\* Whenever the user clicks or stops, whatever is lost, restarted or left and
\* however late it is answered: nothing but a late tick makes an open page say
\* that it is scanning while it polls no job whose end it would notice.
LEMMA StepMisleads ==
    ASSUME TypeInv, TypeInv', JobsAreKnown, JobsAreKnown', [Next]_vars, ~Misled, Misled'
    PROVE  \E g \in Generations : LateTick(g)
<1>0. /\ view \in ViewType /\ refs \in RefsType /\ PollType /\ PollType' /\ ServerType
      /\ registry \subseteq JobIds /\ click \in [Clicks -> ClickType]
  BY DEF TypeInv, PollType, ServerType, ManagerTypeOK, ClickingType
<1>1. mounted' /\ view'.running /\ ~Following'
  BY DEF Misled, Following, Followed, JobsAreKnown, LoopsHaveJobs, Begun
<1>2. mounted /\ view.running => Following
  BY MisledIs DEF JobsAreKnown
<1>3. ~(UNCHANGED <<mounted, refs, loops>> /\ (view'.running => view.running))
  BY <1>1, <1>2, QuietFollows
<1>4. ASSUME NEW j, NEW v \in ViewType, refs.generation + 1 \in Generations, PollJob(j, v)
      PROVE  FALSE
  BY <1>0, <1>1, <1>4, BeginFollows
<1>5. CASE Backend \/ UNCHANGED vars
  <2>1. UNCHANGED <<view, mounted, refs, loops>>
    BY <1>5 DEF Backend, StockReported, JobEnds, OtherTabStarts, OtherTabStops, CancelServed, CancelLost,
                BackendRestarts, ServerCacheExpires, LocalCacheExpires, Hidden, vars
  <2> QED
    BY <1>3, <2>1
<1>6. ASSUME NEW g \in Generations, Poll(g) \/ PollLost(g)
      PROVE  LateTick(g)
  <2>1. UNCHANGED mounted
    BY <1>6 DEF Poll, PollLost, TimerFires, JobAnswered, JobGone, StreamAnswered, ResultsAnswered,
                JobUnavailable, StreamLost, ResultsFail
  <2> QED
    BY <1>0, <1>1, <1>2, <1>6, <2>1, LoopMisleads DEF JobsAreKnown
<1>7. ASSUME NEW c \in Clicks, Click(c) \/ StartLost(c) \/ \E fresh \in BOOLEAN : ClickStart(c, fresh)
      PROVE  FALSE
  <2>1. CASE StartedAnswered(c) \/ AdoptAnswered(c)
    <3> DEFINE j == click[c].job
               v == [view EXCEPT !.job = j, !.running = TRUE]
               w == [view EXCEPT !.job = j, !.running = (jobs[j].status = "running")]
    <3>1. c \notin Over
      BY <2>1 DEF StartedAnswered, AdoptAnswered, Over
    <3>2. refs.generation + 1 \in Generations
      BY <3>1, ClickHasGeneration
    <3>3. v \in ViewType /\ w \in ViewType /\ w.running = (jobs[j].status = "running")
      BY <1>0 DEF ViewType, ClickType
    <3>4. \/ PollJob(j, v) \/ PollJob(j, w)
          \/ jobs[j].status # "running" /\ Show(w) /\ UNCHANGED <<mounted, refs, loops>>
      BY <2>1 DEF StartedAnswered, AdoptAnswered
    <3> HIDE DEF j, v, w
    <3>5. jobs[j].status # "running" /\ Show(w) /\ UNCHANGED <<mounted, refs, loops>>
      BY <1>4, <3>2, <3>3, <3>4
    <3> QED
      BY <1>1, <3>3, <3>5 DEF Show
  <2>2. CASE ~StartedAnswered(c) /\ ~AdoptAnswered(c)
    <3>1. UNCHANGED <<mounted, refs, loops>>
      BY <1>7, <2>2 DEF Click, StartLost, ClickStart, LocalCacheAnswered, StartServed, CachedAnswered,
                       ConflictAnswered, AdoptFails
    <3>2. \/ UNCHANGED view
          \/ \E x : Show([view EXCEPT !.issue = x])
          \/ \E x, y : Show([view EXCEPT !.result = x, !.job = y, !.running = FALSE])
      BY <1>7, <2>2 DEF Click, StartLost, ClickStart, LocalCacheAnswered, StartServed, CachedAnswered,
                       ConflictAnswered, AdoptFails
    <3>3. view'.running => view.running
      BY <1>0, <3>2 DEF Show, ViewType
    <3> QED
      BY <1>3, <3>1, <3>3
  <2> QED
    BY <2>1, <2>2
<1>8. CASE Restoring \/ RestoreLost
  <2>1. restore.step # "over" /\ UNCHANGED mounted
    BY <1>8 DEF Restoring, RestoreLost, RestoreLocal, RestoreLists, RestoreResults, RestoreCache
  <2>2. refs.generation + 1 \in Generations
    BY <2>1, RestoreHasGeneration
  <2>3. \A j \in RunningHere : [view EXCEPT !.job = j, !.running = TRUE] \in ViewType
    BY <1>0 DEF RunningHere, ViewType, AnyJob
  <2>4. \/ \E j \in RunningHere : PollJob(j, [view EXCEPT !.job = j, !.running = TRUE])
        \/ /\ UNCHANGED <<refs, loops>>
           /\ \/ UNCHANGED view
              \/ \E x : Show([view EXCEPT !.result = x])
              \/ \E x, y : Show([view EXCEPT !.result = x, !.job = y])
    BY <1>8 DEF Restoring, RestoreLost, RestoreLocal, RestoreLists, RestoreResults, RestoreCache
  <2>5. /\ UNCHANGED <<refs, loops>>
        /\ \/ UNCHANGED view
           \/ \E x : Show([view EXCEPT !.result = x])
           \/ \E x, y : Show([view EXCEPT !.result = x, !.job = y])
    BY <1>4, <2>2, <2>3, <2>4
  <2>6. view'.running = view.running
    BY <1>0, <2>5 DEF Show, ViewType
  <2> QED
    BY <1>3, <2>1, <2>5, <2>6
<1>9. CASE ClickStop
  <2>1. Show([view EXCEPT !.running = FALSE]) /\ mounted
    BY <1>9 DEF ClickStop
  <2> QED
    BY <1>0, <1>1, <2>1 DEF Show, ViewType
<1>10. CASE Leave
  BY <1>1, <1>10 DEF Leave
<1>11. CASE Reload
  BY <1>1, <1>11 DEF Reload, NewView
<1> QED
  BY <1>5, <1>6, <1>7, <1>8, <1>9, <1>10, <1>11 DEF Next, PageNext

\* A page that says it is scanning goes on following a job for as long as it says
\* so, for any user, any number of jobs and any mishaps: but for a late tick.
THEOREM NothingElseMisleads == Spec => OnlyLateTicksMislead
<1>1. TypeInv /\ TypeInv' /\ JobsAreKnown /\ JobsAreKnown' /\ [Next]_vars
          => [~Misled /\ Misled' => \E g \in Generations : LateTick(g)]_vars
  BY StepMisleads
<1> QED
  BY <1>1, CollectInvariant, PTL DEF Spec, OnlyLateTicksMislead

\* What the page collects and counts is about one job at a time: for any user.
THEOREM PageStaysConsistent == Spec => []PageIsConsistent
<1>1. TypeOK /\ ItemsGapFree => PageIsConsistent
  BY DEF PageIsConsistent
<1> QED
  BY <1>1, PageTypeCorrect, CollectedItemsAreGapFree, PTL
-----------------------------------------------------------------------------
(* What is shown and cached are results of completed jobs.                 *)

CompletedJobs == {j \in JobIds : jobs[j].status = "completed"}

CountedByFinishes == \A j \in JobIds : jobs[j].completedAt <= finishes

\* The cache of the backend holds what was completed last.
CacheIsNewest ==
    serverCache # NoJob =>
        /\ serverCache \in CompletedJobs
        /\ \A j \in CompletedJobs : jobs[j].completedAt <= jobs[serverCache].completedAt

\* A job that is completed stays so, and the cache keeps up.
LEMMA ServerRemembers ==
    ASSUME ServerType, CountedByFinishes, CacheIsNewest, [Next]_vars
    PROVE  /\ CompletedJobs \subseteq CompletedJobs'
           /\ \A j \in CompletedJobs : jobs'[j].completedAt = jobs[j].completedAt
           /\ CountedByFinishes' /\ CacheIsNewest'
<1> DEFINE Goal == /\ CompletedJobs \subseteq CompletedJobs'
                   /\ \A j \in CompletedJobs : jobs'[j].completedAt = jobs[j].completedAt
                   /\ CountedByFinishes' /\ CacheIsNewest'
<1> SUFFICES Goal
  OBVIOUS
<1>0. /\ jobs \in [JobIds -> ScanJob] /\ finishes \in Nat
      /\ \A j \in JobIds : jobs[j].completedAt \in Nat
  BY DEF ServerType, ManagerTypeOK, ScanJob
<1>1. ASSUME CompletedJobs' = CompletedJobs, \A j \in CompletedJobs : jobs'[j].completedAt = jobs[j].completedAt,
             CountedByFinishes', serverCache' \in {serverCache, NoJob}
      PROVE  Goal
  <2>1. CASE serverCache' = NoJob
    BY <1>1, <2>1 DEF CacheIsNewest
  <2>2. CASE serverCache' = serverCache /\ serverCache # NoJob
    BY <1>1, <2>2 DEF CacheIsNewest
  <2> QED
    BY <1>1, <2>1, <2>2
<1>2. CASE UNCHANGED <<jobs, finishes>> /\ serverCache' \in {serverCache, NoJob}
  BY <1>1, <1>2 DEF CompletedJobs, CountedByFinishes
<1>3. ASSUME NEW j \in JobIds, NEW d, StartJob(j, ThisType, d), serverCache' = serverCache
      PROVE  Goal
  <2>1. /\ jobs' = [jobs EXCEPT ![j] = [type |-> ThisType, device |-> d, status |-> "running", completedAt |-> 0]]
        /\ jobs[j].status = "unborn" /\ finishes' = finishes
    BY <1>3 DEF StartJob
  <2>2. /\ jobs'[j].status = "running" /\ jobs'[j].completedAt = 0
        /\ \A k \in JobIds \ {j} : jobs'[k] = jobs[k]
    BY <1>0, <2>1
  <2>3. CompletedJobs' = CompletedJobs /\ \A k \in CompletedJobs : jobs'[k] = jobs[k]
    BY <2>1, <2>2 DEF CompletedJobs
  <2>4. CountedByFinishes'
    BY <1>0, <2>1, <2>2 DEF CountedByFinishes
  <2> QED
    BY <1>1, <1>3, <2>3, <2>4
<1>4. ASSUME NEW j \in JobIds, NEW outcome \in Terminal, Finish(j, outcome),
             serverCache' = IF outcome = "completed" THEN j ELSE serverCache
      PROVE  Goal
  <2>1. /\ jobs' = [jobs EXCEPT ![j].status = outcome, ![j].completedAt = finishes + 1]
        /\ jobs[j].status = "running" /\ finishes' = finishes + 1
    BY <1>4 DEF Finish
  <2>2. /\ jobs'[j].status = outcome /\ jobs'[j].completedAt = finishes + 1
        /\ \A k \in JobIds \ {j} : jobs'[k] = jobs[k]
    BY <1>0, <2>1 DEF ScanJob
  <2>3. j \notin CompletedJobs /\ \A k \in CompletedJobs : jobs'[k] = jobs[k]
    BY <2>1, <2>2 DEF CompletedJobs
  <2>4. CountedByFinishes'
    BY <1>0, <2>1, <2>2 DEF CountedByFinishes
  <2>5. CASE outcome = "completed"
    <3>1. CompletedJobs' = CompletedJobs \cup {j} /\ serverCache' = j
      BY <1>4, <2>2, <2>3, <2>5 DEF CompletedJobs
    <3>2. \A k \in CompletedJobs' : jobs'[k].completedAt <= jobs'[j].completedAt
      BY <1>0, <2>2, <2>3, <3>1 DEF CountedByFinishes, CompletedJobs
    <3> QED
      BY <2>3, <2>4, <3>1, <3>2 DEF CacheIsNewest
  <2>6. CASE outcome # "completed"
    <3>1. CompletedJobs' = CompletedJobs /\ serverCache' = serverCache
      BY <1>4, <2>2, <2>3, <2>6 DEF CompletedJobs
    <3> QED
      BY <1>1, <2>3, <2>4, <3>1
  <2> QED
    BY <2>5, <2>6
<1>5. ASSUME NEW j \in JobIds, JobEnds(j)
      PROVE  Goal
  <2>1. \/ Finish(j, "completed") /\ serverCache' = j
        \/ Finish(j, "failed") /\ serverCache' = serverCache
        \/ Finish(j, "cancelled") /\ serverCache' = serverCache
    BY <1>5 DEF JobEnds, RunnerReturns, RunnerRaises, RunnerCancelled
  <2> HIDE DEF Goal
  <2> QED
    BY <1>4, <2>1 DEF Terminal
<1>6. CASE BackendRestarts
  <2>1. /\ jobs' = [j \in JobIds |-> IF jobs[j].status = "running" THEN [jobs[j] EXCEPT !.status = "cancelled"]
                                                                  ELSE jobs[j]]
        /\ UNCHANGED <<finishes, serverCache>>
    BY <1>6 DEF BackendRestarts
  <2>2. \A j \in JobIds : /\ jobs'[j].completedAt = jobs[j].completedAt
                          /\ jobs'[j].status = "completed" <=> jobs[j].status = "completed"
    BY <1>0, <2>1 DEF ScanJob
  <2>3. CompletedJobs' = CompletedJobs /\ CountedByFinishes'
    BY <2>1, <2>2 DEF CompletedJobs, CountedByFinishes
  <2> QED
    BY <1>1, <2>1, <2>2, <2>3 DEF CompletedJobs
<1>7. ASSUME NEW j \in JobIds, OtherTabStarts(j)
      PROVE  Goal
  BY <1>3, <1>7 DEF OtherTabStarts
<1>8. ASSUME NEW c \in Clicks, StartServed(c)
      PROVE  Goal
  <2>1. serverCache' = serverCache /\ (UNCHANGED managerVars \/ \E j \in JobIds : StartJob(j, ThisType, ThisDevice))
    BY <1>8 DEF StartServed
  <2> HIDE DEF Goal
  <2> QED
    BY <1>2, <1>3, <2>1 DEF managerVars
<1>9. CASE UNCHANGED server
  BY <1>2, <1>9 DEF server, managerVars
<1>10. ASSUME NEW j \in JobIds, StockReported(j) \/ OtherTabStops(j) \/ CancelServed(j) \/ CancelLost(j)
                                    \/ ServerCacheExpires
       PROVE  Goal
  <2>1. UNCHANGED <<jobs, finishes>> /\ serverCache' \in {serverCache, NoJob}
    BY <1>10 DEF StockReported, OtherTabStops, CancelJob, CancelServed, CancelLost, ServerCacheExpires, server,
                managerVars
  <2> QED
    BY <1>2, <2>1
<1>11. CASE ServerCacheExpires
  BY <1>2, <1>11 DEF ServerCacheExpires, managerVars
<1>12. ASSUME NEW g \in Generations, Poll(g) \/ PollLost(g)
       PROVE  UNCHANGED server
  BY <1>12 DEF Poll, PollLost, TimerFires, JobAnswered, JobGone, StreamAnswered, ResultsAnswered,
              JobUnavailable, StreamLost, ResultsFail
<1>13. ASSUME NEW c \in Clicks, Click(c) \/ StartLost(c) \/ \E fresh \in BOOLEAN : ClickStart(c, fresh)
       PROVE  UNCHANGED server \/ StartServed(c)
  BY <1>13 DEF Click, LocalCacheAnswered, CachedAnswered, StartedAnswered, ConflictAnswered,
              AdoptAnswered, AdoptFails, StartLost, ClickStart
<1>14. CASE ClickStop \/ Restoring \/ RestoreLost \/ Leave \/ Reload \/ LocalCacheExpires \/ UNCHANGED vars
  <2>1. UNCHANGED server
    BY <1>14 DEF ClickStop, Restoring, RestoreLocal, RestoreLists, RestoreResults, RestoreCache,
                RestoreLost, Leave, Reload, LocalCacheExpires, vars
  <2> QED
    BY <1>9, <2>1
<1> HIDE DEF Goal
<1> QED
  BY <1>5, <1>6, <1>7, <1>8, <1>9, <1>10, <1>11, <1>12, <1>13, <1>14 DEF Next, Backend, PageNext

\* A loop that has been told of the completion.
Told(l) == l.step = "results" \/ l.status = "completed"

LoopsKnowCompleted == \A g \in Generations : Told(loops[g]) => loops[g].job \in CompletedJobs

CachedIsCompleted ==
    \A c \in Clicks : click[c].step = "answered" /\ click[c].reply = "cached" => click[c].job \in CompletedJobs

ResultsKept == {view.result, local, restore.job} \subseteq CompletedJobs \cup {NoJob}

CompletedInv ==
    CountedByFinishes /\ CacheIsNewest /\ ResultsKept /\ LoopsKnowCompleted /\ CachedIsCompleted

\* A loop asks for results when it is told, in a tick of its own, that the job
\* it has is completed.
LEMMA LoopResults ==
    ASSUME ServerType, PollType, NEW g \in Generations, Poll(g) \/ PollLost(g),
           Told(loops[g]) => loops[g].job \in CompletedJobs, Told(loops'[g])
    PROVE  /\ loops[g].job \in CompletedJobs /\ loops'[g].job = loops[g].job
           /\ loops'[g].step = "results" => loops[g].step \in Live /\ (Current(g) \/ loops[g].step \in Stream)
<1>0. loops \in [Generations -> LoopType] /\ loops[g] \in LoopType
  BY DEF PollType
<1>1. ~Told(Ended)
  BY DEF Told, Ended, NoLoop
<1> DEFINE Goal == /\ loops[g].job \in CompletedJobs /\ loops'[g].job = loops[g].job
                   /\ loops'[g].step = "results" =>
                          loops[g].step \in Live /\ (Current(g) \/ loops[g].step \in Stream)
<1>2. ASSUME NEW lp \in LoopType, lp.job = loops[g].job, Told(lp) => lp.job \in CompletedJobs,
             loops[g].step \in Live, Current(g) \/ loops[g].step \in Stream,
             NEW v, NEW r, NEW todo, AskStreams(g, lp, v, r, todo)
      PROVE  Goal
  <2>1. CASE TickEnds(g, lp, v, r)
    <3>1. \/ lp.status = "running" /\ loops' = [loops EXCEPT ![g] = [NoLoop EXCEPT !.job = lp.job, !.step = "sleeping"]]
          \/ /\ lp.status = "completed"
             /\ loops' = [loops EXCEPT ![g] = [NoLoop EXCEPT !.job = lp.job, !.step = "results"]]
          \/ loops' = [loops EXCEPT ![g] = Ended]
      BY <2>1 DEF TickEnds
    <3>2. CASE lp.status = "completed"
      <4>1. lp.job \in CompletedJobs
        BY <1>2, <3>2 DEF Told
      <4>2. loops' # [loops EXCEPT ![g] = Ended]
        BY <1>0, <1>1
      <4>3. loops'[g] = [NoLoop EXCEPT !.job = lp.job, !.step = "results"]
        BY <1>0, <3>1, <3>2, <4>2
      <4>4. loops'[g].job = lp.job
        BY <4>3 DEF NoLoop
      <4> QED
        BY <1>2, <4>1, <4>4
    <3>3. CASE lp.status # "completed"
      <4>1. loops'[g] = [NoLoop EXCEPT !.job = lp.job, !.step = "sleeping"] \/ loops'[g] = Ended
        BY <1>0, <3>1, <3>3
      <4>2. ~Told([NoLoop EXCEPT !.job = lp.job, !.step = "sleeping"])
        BY DEF Told, NoLoop
      <4> QED
        BY <1>1, <4>1, <4>2
    <3> QED
      BY <3>2, <3>3
  <2>2. ASSUME NEW s \in Stream, loops' = [loops EXCEPT ![g] = [lp EXCEPT !.step = s, !.after = r.cursor[s]]]
        PROVE  Goal
    <3>1. loops'[g].step = s /\ loops'[g].status = lp.status /\ loops'[g].job = lp.job
      BY <1>0, <2>2 DEF LoopType
    <3>2. s # "results"
      BY DEF Stream
    <3> QED
      BY <1>2, <3>1, <3>2 DEF Told
  <2>3. \/ TickEnds(g, lp, v, r)
        \/ \E s \in Stream : Asks(g, lp, v, r, s)
    BY ONLY AskStreams(g, lp, v, r, todo), AskStreamsCases, Zenon
  <2> QED
    BY <2>1, <2>2, <2>3 DEF Asks
<1>3. ~LoopOver(g)
  BY <1>0, <1>1 DEF LoopOver
<1>4. CASE TimerFires(g) \/ JobUnavailable(g) \/ ResultsAnswered(g) \/ ResultsFail(g)
  <2>1. loops' = [loops EXCEPT ![g].step = "asking"] \/ loops' = [loops EXCEPT ![g].step = "sleeping"]
    BY <1>3, <1>4 DEF TimerFires, JobUnavailable, ResultsAnswered, ResultsFail
  <2>2. loops'[g].step \in {"asking", "sleeping"} /\ loops'[g].status = loops[g].status /\ loops'[g].job = loops[g].job
    BY <1>0, <2>1 DEF LoopType
  <2> QED
    BY <2>2 DEF Told
<1>5. CASE JobAnswered(g)
  <2> DEFINE j == loops[g].job
             lp == [loops[g] EXCEPT !.status = jobs[j].status, !.count = processed[j]]
  <2>1. j \in JobIds
    BY <1>5 DEF JobAnswered, Get, ServerType, ManagerTypeOK
  <2>2. jobs[j].status \in Status /\ processed[j] \in 0 .. Total
    BY <2>1 DEF ServerType, ManagerTypeOK, ScanJob
  <2>3. /\ lp \in LoopType /\ lp.job = j /\ lp.status = jobs[j].status /\ lp.step = "asking"
        /\ loops[g].step \in Live
    BY <1>0, <1>5, <2>1, <2>2 DEF LoopType, JobAnswered, Live
  <2>4. Told(lp) => lp.job \in CompletedJobs
    BY <2>1, <2>3 DEF Told, CompletedJobs
  <2>5. Current(g) /\ \E v, r : AskStreams(g, lp, v, r, Stream)
    BY <1>3, <1>5 DEF JobAnswered
  <2>6. PICK v, r : AskStreams(g, lp, v, r, Stream)
    BY <2>5
  <2> HIDE DEF lp, j, Goal
  <2>7. lp.job = loops[g].job
    BY <2>3 DEF j
  <2>8. Goal
    BY <1>2, <2>3, <2>4, <2>5, <2>6, <2>7
  <2> QED
    BY <2>8 DEF Goal
<1>6. CASE StreamAnswered(g) \/ StreamLost(g)
  <2>1. loops[g].step \in Stream /\ \E v, r, todo : AskStreams(g, loops[g], v, r, todo)
    BY <1>6 DEF StreamAnswered, StreamLost
  <2>2. loops[g].step \in Live
    BY <2>1 DEF Stream, Live
  <2>3. PICK v, r, todo : AskStreams(g, loops[g], v, r, todo)
    BY <2>1
  <2> HIDE DEF Goal
  <2>4. Goal
    BY <1>0, <1>2, <2>1, <2>2, <2>3
  <2> QED
    BY <2>4 DEF Goal
<1>7. CASE JobGone(g)
  <2>1. loops' = [StoppedLoops EXCEPT ![g] = Ended]
    BY <1>3, <1>7 DEF JobGone
  <2>2. loops'[g] = Ended
    BY <2>1 DEF StoppedLoops
  <2> QED
    BY <1>1, <2>2
<1> HIDE DEF Goal
<1> QED
  BY <1>4, <1>5, <1>6, <1>7 DEF Poll, PollLost, Goal

\* So it is for all of them, and no other step makes a loop ask.
LEMMA NewResults ==
    ASSUME TypeInv, JobsAreKnown, LoopsKnowCompleted, [Next]_vars,
           NEW h \in Generations, Told(loops'[h])
    PROVE  /\ loops[h].job \in CompletedJobs /\ loops'[h].job = loops[h].job
           /\ loops'[h].step = "results" =>
                  \/ loops[h].step = "results"
                  \/ loops[h].step \in Live /\ (Current(h) \/ loops[h].step \in Stream)
<1>0. ~Told(Ended) /\ ~Told(NoLoop)
  BY DEF Told, Ended, NoLoop
<1>1. ASSUME loops'[h] = loops[h] \/ loops'[h] = Ended
      PROVE  /\ loops[h].job \in CompletedJobs /\ loops'[h].job = loops[h].job
             /\ loops'[h].step = "results" => loops[h].step = "results"
  BY <1>0, <1>1 DEF LoopsKnowCompleted
<1>2. ASSUME NEW g \in Generations, Poll(g) \/ PollLost(g)
      PROVE  (loops'[h] = loops[h] \/ loops'[h] = Ended) \/ g = h
  BY <1>2, LoopMoves DEF TypeInv
<1>3. CASE Poll(h) \/ PollLost(h)
  BY <1>3, LoopResults DEF TypeInv, LoopsKnowCompleted
<1>4. CASE loops' \in {loops, StoppedLoops, NoLoops}
  <2>1. loops'[h] \in {loops[h], Ended, NoLoop}
    BY <1>4 DEF StoppedLoops, NoLoops
  <2> QED
    BY <1>0, <1>1, <2>1
<1>5. ASSUME NEW j \in JobIds, NEW v \in ViewType, PollJob(j, v), refs.generation + 1 \in Generations
      PROVE  loops'[h] = loops[h] \/ loops'[h] = Ended
  <2>1. /\ loops'[refs.generation + 1] = [NoLoop EXCEPT !.job = j, !.step = "asking"]
        /\ h # refs.generation + 1 => (loops'[h] = loops[h] \/ loops'[h] = Ended)
    BY <1>5, PollJobMoves DEF TypeInv
  <2>2. ~Told([NoLoop EXCEPT !.job = j, !.step = "asking"])
    BY DEF Told, NoLoop
  <2> QED
    BY <2>1, <2>2
<1> QED
  BY <1>1, <1>2, <1>3, <1>4, <1>5, PageStepCases DEF JobsAreKnown

\* A click is answered from the cache of the backend as it is then.
LEMMA NewCached ==
    ASSUME TypeInv, [Next]_vars, NEW c \in Clicks, click'[c].step = "answered", click'[c].reply = "cached"
    PROVE  \/ click'[c] = click[c]
           \/ /\ serverCache # NoJob /\ click'[c].job = serverCache
              /\ UNCHANGED <<jobs, view, loops>>
<1>0. click \in [Clicks -> ClickType]
  BY DEF TypeInv, ClickingType
<1>1. ASSUME NEW d \in Clicks, Click(d) \/ StartLost(d) \/ \E fresh \in BOOLEAN : ClickStart(d, fresh)
      PROVE  \/ click'[c] = click[c]
             \/ /\ serverCache # NoJob /\ click'[c].job = serverCache
                /\ UNCHANGED <<jobs, view, loops>>
  <2>1. CASE StartServed(d)
    <3> DEFINE Answers(reply, j) ==
                   click' = [click EXCEPT ![d].step = "answered", ![d].reply = reply, ![d].job = j]
    <3>1. \/ Answers("cached", serverCache) /\ serverCache # NoJob /\ UNCHANGED managerVars
          \/ Answers("refused", NoJob)
          \/ \E j \in SameDevice(ThisType, ThisDevice) : Answers("conflict", j)
          \/ \E j \in JobIds : Answers("started", j)
      BY <2>1 DEF StartServed
    <3>2. UNCHANGED <<view, loops>>
      BY <2>1 DEF StartServed
    <3>3. PICK reply, j : /\ Answers(reply, j) /\ reply \in {"cached", "refused", "conflict", "started"}
                          /\ reply = "cached" => j = serverCache /\ serverCache # NoJob /\ UNCHANGED managerVars
      <4> HIDE DEF Answers
      <4> QED
        BY <3>1
    <3>4. c = d => click'[c].reply = reply /\ click'[c].job = j
      BY <1>0, <3>3 DEF ClickType
    <3>5. c # d => click'[c] = click[c]
      BY <1>0, <3>3
    <3> QED
      BY <3>2, <3>3, <3>4, <3>5 DEF managerVars
  <2>2. CASE ~StartServed(d)
    <3>1. \/ ClickOver(d)
          \/ \E fresh : click' = [click EXCEPT ![d].step = "local", ![d].fresh = fresh]
          \/ click' = [click EXCEPT ![d].step = "sent"]
          \/ click' = [click EXCEPT ![d].step = "sent", ![d].attempt = @ + 1]
          \/ click' = [click EXCEPT ![d].step = "adopting"]
      BY <1>1, <2>2 DEF Click, StartLost, ClickStart, LocalCacheAnswered, CachedAnswered, StartedAnswered,
                       ConflictAnswered, AdoptAnswered, AdoptFails
    <3>2. click'[c] = click[c] \/ click'[c].step # "answered"
      BY <1>0, <3>1 DEF ClickOver, Served, ClickType
    <3> QED
      BY <3>2
  <2> QED
    BY <2>1, <2>2
<1>2. CASE ~ \E d \in Clicks : Click(d) \/ StartLost(d) \/ \E fresh \in BOOLEAN : ClickStart(d, fresh)
  <2>1. UNCHANGED click \/ click' = [d \in Clicks |-> IF click[d].step = "idle" THEN click[d] ELSE Served]
    BY <1>2 DEF Next, PageNext, Backend, StockReported, JobEnds, OtherTabStarts, OtherTabStops, CancelServed,
               CancelLost, BackendRestarts, ServerCacheExpires, LocalCacheExpires, Hidden, Poll, PollLost,
               TimerFires, JobAnswered, JobGone, StreamAnswered, ResultsAnswered, JobUnavailable, StreamLost,
               ResultsFail, ClickStop, Restoring, RestoreLocal, RestoreLists, RestoreResults, RestoreCache,
               RestoreLost, Leave, Reload, vars
  <2>2. click'[c] = click[c] \/ click'[c] = Served
    BY <2>1
  <2> QED
    BY <2>2 DEF Served
<1> QED
  BY <1>1, <1>2

\* Where a result that is shown, and kept on the device, comes from.
Comes(x) ==
    \/ x = local /\ (restore.step = "local" \/ \E c \in Clicks : click[c].step = "local")
    \/ \E g \in Generations : loops[g].step = "results" /\ Current(g) /\ x = loops[g].job
    \/ \E c \in Clicks : click[c].step = "answered" /\ click[c].reply = "cached" /\ x = click[c].job
    \/ restore.step = "results" /\ x = restore.job
    \/ restore.step = "cache" /\ x = serverCache

\* The result stays, and the device keeps or loses what it has; or both are
\* replaced; or the page is opened again.
ResultStays ==
    /\ view'.result = view.result /\ local' \in {local, NoJob} /\ (mounted' => mounted)
    /\ mounted' /\ restore'.step # "local" => restore.step # "local" \/ local = NoJob

ResultComes ==
    /\ UNCHANGED mounted
    /\ \E x : Comes(x) /\ local' = x /\ view'.result = (IF mounted THEN x ELSE view.result)

ResultGoes == view'.result = NoJob /\ local' = local /\ restore'.step = "local"

\* Only an answer with results replaces what a loop's page shows and keeps.
LEMMA LoopKeepsResult ==
    ASSUME TypeInv, NEW g \in Generations, Poll(g) \/ PollLost(g), ~ResultsAnswered(g)
    PROVE  view'.result = view.result /\ local' = local
<1>0. view \in ViewType /\ mounted \in BOOLEAN /\ UNCHANGED <<mounted, restore>>
  BY DEF TypeInv, PollType, Poll, PollLost, TimerFires, JobAnswered, JobGone, StreamAnswered, ResultsAnswered,
         JobUnavailable, StreamLost, ResultsFail
<1>2. ASSUME NEW lp, NEW v, NEW r, NEW todo, v \in ViewType, v.result = view.result, AskStreams(g, lp, v, r, todo)
      PROVE  view'.result = view.result
  <2>1. Show(v) \/ TickEnds(g, lp, v, r)
    BY ONLY AskStreams(g, lp, v, r, todo), AskStreamsCases, Zenon DEF Asks
  <2>2. Show(v) \/ \E x, y : Show([v EXCEPT !.running = x, !.issue = y])
    BY <2>1 DEF TickEnds
  <2> QED
    BY <1>2, <2>2 DEF Show, ViewType
<1>4. CASE JobAnswered(g)
  <2> DEFINE j == loops[g].job
             v == [view EXCEPT !.issue = "none", !.job = j]
  <2>1. j \in JobIds
    BY <1>4 DEF JobAnswered, Get, TypeInv, ServerType, ManagerTypeOK
  <2>2. v \in ViewType /\ v.result = view.result
    BY <1>0, <2>1 DEF ViewType, AnyJob, Issue
  <2>3. UNCHANGED view \/ \E lp, r : AskStreams(g, lp, v, r, Stream)
    BY <1>4 DEF JobAnswered
  <2>4. local' = local
    BY <1>4 DEF JobAnswered
  <2> HIDE DEF v
  <2> QED
    BY <1>2, <2>2, <2>3, <2>4
<1>5. CASE StreamLost(g)
  <2>1. local' = local /\ \E todo : AskStreams(g, loops[g], view, refs, todo)
    BY <1>5 DEF StreamLost
  <2> QED
    BY <1>0, <1>2, <2>1
<1>6. CASE StreamAnswered(g)
  <2> DEFINE s == loops[g].step
             j == loops[g].job
             after == loops[g].after
             new == NewItems(j, Items(s, j), after)
             taken == Current(g) /\ j \in registry /\ new # << >>
             v == IF taken THEN [view EXCEPT !.items[s] = @ \o new] ELSE view
             r == IF taken THEN [refs EXCEPT !.cursor[s] = after + Len(new)] ELSE refs
             todo == IF s = "partial" THEN {"progress"} ELSE {}
  <2>1. s \in Stream /\ AskStreams(g, loops[g], v, r, todo) /\ local' = local
    BY <1>6 DEF StreamAnswered, NewItems
  <2>2. v \in ViewType /\ v.result = view.result
    <3>1. CASE ~taken
      BY <1>0, <3>1
    <3>2. CASE taken
      <4>1. j \in JobIds /\ Items(s, j) \in 0 .. Total /\ after \in 0 .. Total
        BY <2>1, <3>2, ItemsCounted DEF TypeInv, PollType, ServerType, ManagerTypeOK, LoopType
      <4> HIDE DEF s, j, after
      <4>2. new \in Seq(JobIds \X (1 .. Total))
        BY <4>1, NewItemsTypes
      <4> HIDE DEF new
      <4>3. view.items \in ItemsType /\ view.items[s] \in Seq(JobIds \X (1 .. Total))
        BY <1>0, <2>1 DEF ViewType, ItemsType
      <4>4. view.items[s] \o new \in Seq(JobIds \X (1 .. Total))
        BY <4>2, <4>3, ConcatProperties
      <4>5. v = [view EXCEPT !.items[s] = @ \o new]
        BY <3>2
      <4> HIDE DEF v
      <4> QED
        BY <1>0, <4>3, <4>4, <4>5 DEF ViewType, ItemsType
    <3> QED
      BY <3>1, <3>2
  <2> HIDE DEF v, r, todo, s, j, new, taken, after
  <2> QED
    BY <1>2, <2>1, <2>2
<1>7. CASE TimerFires(g) \/ JobGone(g) \/ JobUnavailable(g) \/ ResultsFail(g)
  <2>1. /\ local' = local
        /\ \/ UNCHANGED view
           \/ Show([view EXCEPT !.running = FALSE, !.job = NoJob, !.issue = "interrupted"])
           \/ Show([view EXCEPT !.issue = "unavailable"])
           \/ Show([view EXCEPT !.running = FALSE, !.issue = "unavailable"])
           \/ Show([view EXCEPT !.issue = "error"])
    BY <1>7 DEF TimerFires, JobGone, JobUnavailable, ResultsFail
  <2>2. view'.result = view.result
    BY <1>0, <2>1 DEF Show, ViewType
  <2> QED
    BY <2>1, <2>2
<1> QED
  BY <1>4, <1>5, <1>6, <1>7 DEF Poll, PollLost

LEMMA LoopShows ==
    ASSUME TypeInv, NEW g \in Generations, Poll(g) \/ PollLost(g)
    PROVE  ResultStays \/ ResultComes
<1>0. view \in ViewType /\ mounted \in BOOLEAN /\ UNCHANGED <<mounted, restore>>
  BY DEF TypeInv, PollType, Poll, PollLost, TimerFires, JobAnswered, JobGone, StreamAnswered, ResultsAnswered,
         JobUnavailable, StreamLost, ResultsFail
<1>1. CASE view'.result = view.result /\ local' = local
  BY <1>0, <1>1 DEF ResultStays
<1>2. CASE ~ResultsAnswered(g)
  BY <1>1, <1>2, LoopKeepsResult
<1>3. CASE ResultsAnswered(g)
  <2>1. CASE Current(g)
    <3>1. /\ loops[g].step = "results" /\ local' = loops[g].job
          /\ Show([view EXCEPT !.result = loops[g].job])
      BY <1>3, <2>1 DEF ResultsAnswered
    <3>2. view'.result = IF mounted THEN loops[g].job ELSE view.result
      BY <1>0, <3>1 DEF Show, ViewType
    <3> QED
      BY <1>0, <2>1, <3>1, <3>2 DEF ResultComes, Comes
  <2>2. CASE ~Current(g)
    BY <1>1, <1>3, <2>2 DEF ResultsAnswered
  <2> QED
    BY <2>1, <2>2
<1> QED
  BY <1>2, <1>3

\* Only an answer from one of the two caches does so for a click.
LEMMA ClickKeepsResult ==
    ASSUME TypeInv, NEW c \in Clicks, Click(c) \/ StartLost(c) \/ \E fresh \in BOOLEAN : ClickStart(c, fresh),
           ~LocalCacheAnswered(c), ~CachedAnswered(c)
    PROVE  view'.result = view.result /\ local' = local
<1>0. view \in ViewType
  BY DEF TypeInv, PollType
<1>1. CASE StartedAnswered(c) \/ AdoptAnswered(c)
  <2>1. local' = local
    BY <1>1 DEF StartedAnswered, AdoptAnswered
  <2>2. \/ \E x, y : Show([[view EXCEPT !.job = x, !.running = y] EXCEPT !.items = NoItems])
        \/ \E x, y : Show([view EXCEPT !.job = x, !.running = y])
    BY <1>1 DEF StartedAnswered, AdoptAnswered, PollJob
  <2>3. view'.result = view.result
    BY <1>0, <2>2 DEF Show, ViewType
  <2> QED
    BY <2>1, <2>3
<1>2. CASE ~StartedAnswered(c) /\ ~AdoptAnswered(c)
  <2>1. local' = local /\ (UNCHANGED view \/ \E x : Show([view EXCEPT !.issue = x]))
    BY <1>2 DEF Click, StartLost, ClickStart, StartServed, ConflictAnswered, AdoptFails
  <2>2. view'.result = view.result
    BY <1>0, <2>1 DEF Show, ViewType
  <2> QED
    BY <2>1, <2>2
<1> QED
  BY <1>1, <1>2

LEMMA ClickShows ==
    ASSUME TypeInv, NEW c \in Clicks, Click(c) \/ StartLost(c) \/ \E fresh \in BOOLEAN : ClickStart(c, fresh)
    PROVE  ResultStays \/ ResultComes
<1>0. view \in ViewType /\ mounted \in BOOLEAN
  BY DEF TypeInv, PollType
<1>1. UNCHANGED <<mounted, restore>>
  BY DEF Click, StartLost, ClickStart, LocalCacheAnswered, StartServed, CachedAnswered, StartedAnswered,
         ConflictAnswered, AdoptAnswered, AdoptFails
<1>2. ASSUME view'.result = view.result, local' \in {local, NoJob}
      PROVE  ResultStays
  BY <1>0, <1>1, <1>2 DEF ResultStays
<1>3. ASSUME NEW x, Comes(x), local' = x, Show([view EXCEPT !.result = x, !.job = NoJob, !.running = FALSE])
      PROVE  ResultComes
  <2>1. view'.result = IF mounted THEN x ELSE view.result
    BY <1>0, <1>3 DEF Show, ViewType
  <2> QED
    BY <1>1, <1>3, <2>1 DEF ResultComes
<1>4. CASE LocalCacheAnswered(c)
  <2>1. \/ local' = NoJob /\ UNCHANGED view
        \/ local' = local /\ UNCHANGED view
        \/ local' = local /\ Show([view EXCEPT !.result = local, !.job = NoJob, !.running = FALSE])
    BY <1>4 DEF LocalCacheAnswered
  <2>2. Comes(local)
    BY <1>4 DEF LocalCacheAnswered, Comes
  <2> QED
    BY <1>2, <1>3, <2>1, <2>2
<1>5. CASE CachedAnswered(c)
  <2>1. /\ Comes(click[c].job) /\ local' = click[c].job
        /\ Show([view EXCEPT !.result = click[c].job, !.job = NoJob, !.running = FALSE])
    BY <1>5 DEF CachedAnswered, Comes
  <2> QED
    BY <1>3, <2>1
<1>6. CASE ~LocalCacheAnswered(c) /\ ~CachedAnswered(c)
  BY <1>2, <1>6, ClickKeepsResult
<1> QED
  BY <1>4, <1>5, <1>6

LEMMA RestoreShows ==
    ASSUME TypeInv, Restoring \/ RestoreLost
    PROVE  ResultStays \/ ResultComes
<1>0. view \in ViewType /\ mounted \in BOOLEAN
  BY DEF TypeInv, PollType
<1>1. UNCHANGED mounted
  BY DEF Restoring, RestoreLost, RestoreLocal, RestoreLists, RestoreResults, RestoreCache
<1>2. ASSUME view'.result = view.result, local' = local, restore.step # "local" \/ local = NoJob
      PROVE  ResultStays
  BY <1>0, <1>1, <1>2 DEF ResultStays
<1>3. ASSUME NEW x, Comes(x), local' = x,
             \/ Show([view EXCEPT !.result = x])
             \/ Show([view EXCEPT !.result = x, !.job = x])
      PROVE  ResultComes
  <2>1. view'.result = IF mounted THEN x ELSE view.result
    BY <1>0, <1>3 DEF Show, ViewType
  <2> QED
    BY <1>1, <1>3, <2>1 DEF ResultComes
<1>4. CASE RestoreLocal
  <2>1. CASE local = NoJob
    BY <1>2, <1>4, <2>1 DEF RestoreLocal
  <2>2. CASE local # NoJob
    BY <1>3, <1>4, <2>2 DEF RestoreLocal, Comes
  <2> QED
    BY <2>1, <2>2
<1>5. CASE RestoreLists
  <2>1. local' = local /\ restore.step = "list"
    BY <1>5 DEF RestoreLists
  <2>2. UNCHANGED view \/ \E x : Show([[view EXCEPT !.job = x, !.running = TRUE] EXCEPT !.items = NoItems])
    BY <1>5 DEF RestoreLists, PollJob
  <2>3. view'.result = view.result
    BY <1>0, <2>2 DEF Show, ViewType
  <2> QED
    BY <1>2, <2>1, <2>3
<1>6. CASE RestoreResults
  <2>1. restore.step = "results" /\ Comes(restore.job)
    BY <1>6 DEF RestoreResults, Comes
  <2>2. \/ Show([view EXCEPT !.result = restore.job, !.job = restore.job]) /\ local' = restore.job
        \/ UNCHANGED <<view, local>>
    BY <1>6 DEF RestoreResults
  <2> QED
    BY <1>2, <1>3, <2>1, <2>2
<1>7. CASE RestoreCache
  <2>1. restore.step = "cache" /\ Comes(serverCache)
    BY <1>7 DEF RestoreCache, Comes
  <2>2. \/ Show([view EXCEPT !.result = serverCache]) /\ local' = serverCache
        \/ UNCHANGED <<view, local>>
    BY <1>7 DEF RestoreCache
  <2> QED
    BY <1>2, <1>3, <2>1, <2>2
<1>8. CASE RestoreLost
  BY <1>2, <1>8 DEF RestoreLost
<1> QED
  BY <1>4, <1>5, <1>6, <1>7, <1>8 DEF Restoring

LEMMA ResultMoves ==
    ASSUME TypeInv, [Next]_vars
    PROVE  ResultStays \/ ResultComes \/ ResultGoes
<1>0. view \in ViewType /\ mounted \in BOOLEAN
  BY DEF TypeInv, PollType
<1>1. CASE Backend \/ UNCHANGED vars
  <2>1. UNCHANGED <<view, mounted, restore>> /\ local' \in {local, NoJob}
    BY <1>1 DEF Backend, StockReported, JobEnds, OtherTabStarts, OtherTabStops, CancelServed, CancelLost,
                BackendRestarts, ServerCacheExpires, LocalCacheExpires, Hidden, vars
  <2> QED
    BY <1>0, <2>1 DEF ResultStays
<1>2. CASE ClickStop \/ Leave
  <2>1. /\ UNCHANGED local /\ (mounted' => mounted /\ restore' = restore)
        /\ UNCHANGED view \/ Show([view EXCEPT !.running = FALSE])
    BY <1>2 DEF ClickStop, Leave
  <2>2. view'.result = view.result
    BY <1>0, <2>1 DEF Show, ViewType
  <2> QED
    BY <2>1, <2>2 DEF ResultStays
<1>3. CASE Reload
  BY <1>3 DEF Reload, ResultGoes, NewView, NewRestore
<1> QED
  BY <1>1, <1>2, <1>3, LoopShows, ClickShows, RestoreShows DEF Next, PageNext

LEMMA ComesCompleted ==
    ASSUME CompletedInv, NEW x, Comes(x)
    PROVE  x \in CompletedJobs \cup {NoJob}
<1>1. {local, restore.job, serverCache} \subseteq CompletedJobs \cup {NoJob}
  BY DEF CompletedInv, ResultsKept, CacheIsNewest
<1>2. \A g \in Generations : loops[g].step = "results" => loops[g].job \in CompletedJobs
  BY DEF CompletedInv, LoopsKnowCompleted, Told
<1> QED
  BY <1>1, <1>2 DEF Comes, CompletedInv, CachedIsCompleted

LEMMA StepKeepsCompleted ==
    ASSUME TypeInv, JobsAreKnown, CompletedInv, [Next]_vars
    PROVE  CompletedInv'
<1>1. CompletedJobs \subseteq CompletedJobs' /\ CountedByFinishes' /\ CacheIsNewest'
  BY ServerRemembers DEF CompletedInv, TypeInv
<1>2. LoopsKnowCompleted'
  <2> SUFFICES ASSUME NEW h \in Generations, Told(loops'[h])
               PROVE  loops'[h].job \in CompletedJobs'
    BY DEF LoopsKnowCompleted, Told
  <2>1. loops[h].job \in CompletedJobs /\ loops'[h].job = loops[h].job
    BY NewResults DEF CompletedInv
  <2> QED
    BY <1>1, <2>1
<1>3. CachedIsCompleted'
  <2> SUFFICES ASSUME NEW c \in Clicks, click'[c].step = "answered", click'[c].reply = "cached"
               PROVE  click'[c].job \in CompletedJobs'
    BY DEF CachedIsCompleted
  <2>1. click'[c] = click[c] \/ (serverCache # NoJob /\ click'[c].job = serverCache)
    BY NewCached
  <2> QED
    BY <1>1, <2>1 DEF CompletedInv, CachedIsCompleted, CacheIsNewest
<1>4. {view'.result, local'} \subseteq CompletedJobs' \cup {NoJob}
  <2>1. {view.result, local} \subseteq CompletedJobs \cup {NoJob}
    BY DEF CompletedInv, ResultsKept
  <2>2. CASE ResultStays \/ ResultGoes
    BY <1>1, <2>1, <2>2 DEF ResultStays, ResultGoes
  <2>3. CASE ResultComes
    <3>1. PICK x : Comes(x) /\ local' = x /\ view'.result = (IF mounted THEN x ELSE view.result)
      BY <2>3 DEF ResultComes
    <3>2. x \in CompletedJobs \cup {NoJob}
      BY <3>1, ComesCompleted
    <3> QED
      BY <1>1, <2>1, <3>1, <3>2
  <2> QED
    BY <2>2, <2>3, ResultMoves
<1>5. restore'.job \in CompletedJobs' \cup {NoJob}
  <2>1. Completed \subseteq CompletedJobs
    BY DEF Completed, CompletedJobs, TypeInv, ServerType, ManagerTypeOK
  <2>2. restore.job \in CompletedJobs \cup {NoJob} /\ local \in CompletedJobs \cup {NoJob}
    BY DEF CompletedInv, ResultsKept
  <2>3. CASE Restoring \/ RestoreLost
    <3>1. \/ restore'.job \in {NoJob, restore.job, local}
          \/ \E j \in Completed : restore' = [step |-> "results", job |-> j]
      <4>1. restore \in [step : RestoreStep, job : AnyJob]
        BY DEF TypeInv, ClickingType
      <4>2. \/ restore' \in {Restored, [step |-> "cache", job |-> NoJob], [step |-> "list", job |-> local]}
            \/ restore' = [restore EXCEPT !.step = "cache"]
            \/ \E j \in Completed : restore' = [step |-> "results", job |-> j]
        BY <2>3 DEF Restoring, RestoreLost, RestoreLocal, RestoreLists, RestoreResults, RestoreCache
      <4> QED
        BY <4>1, <4>2 DEF Restored
    <3> QED
      BY <1>1, <2>1, <2>2, <3>1
  <2>4. CASE ~(Restoring \/ RestoreLost)
    <3>1. restore' \in {restore, Restored, NewRestore}
      BY <2>4 DEF Next, PageNext, Backend, StockReported, JobEnds, OtherTabStarts, OtherTabStops, CancelServed,
                 CancelLost, BackendRestarts, ServerCacheExpires, LocalCacheExpires, Hidden, Poll, PollLost,
                 TimerFires, JobAnswered, JobGone, StreamAnswered, ResultsAnswered, JobUnavailable, StreamLost,
                 ResultsFail, ClickStop, Click, StartLost, ClickStart, LocalCacheAnswered, StartServed,
                 CachedAnswered, StartedAnswered, ConflictAnswered, AdoptAnswered, AdoptFails, Leave, Reload, vars
    <3> QED
      BY <1>1, <2>2, <3>1 DEF Restored, NewRestore
  <2> QED
    BY <2>3, <2>4
<1> QED
  BY <1>1, <1>2, <1>3, <1>4, <1>5 DEF CompletedInv, ResultsKept

LEMMA InitCompleted == Init => CompletedInv
<1> SUFFICES ASSUME Init PROVE CompletedInv
  OBVIOUS
<1>1. CountedByFinishes /\ CacheIsNewest
  BY DEF Init, ManagerInit, Unborn, CountedByFinishes, CacheIsNewest
<1>2. ResultsKept
  BY DEF Init, NewView, NewRestore, ResultsKept
<1>3. LoopsKnowCompleted
  BY DEF Init, NoLoops, NoLoop, LoopsKnowCompleted, Told
<1>4. CachedIsCompleted
  BY DEF Init, CachedIsCompleted
<1> QED
  BY <1>1, <1>2, <1>3, <1>4 DEF CompletedInv

\* What a page shows and what the caches keep are results of completed jobs, and
\* the cache of the backend has the newest: for any user.
LEMMA CompletedInvariant == Spec => [](TypeInv /\ JobsAreKnown /\ CompletedInv)
<1>1. Init => TypeInv /\ JobsAreKnown /\ CompletedInv
  BY InitTypes, InitCollects, InitCompleted
<1>2. TypeInv /\ JobsAreKnown /\ CompletedInv /\ [Next]_vars => (TypeInv /\ JobsAreKnown /\ CompletedInv)'
  BY StepTypes, StepKnowsJobs, StepKeepsCompleted
<1> QED
  BY <1>1, <1>2, PTL DEF Spec
-----------------------------------------------------------------------------
(* The result of the job that was followed.                                *)

\* Unless a click is answered or the page is restored, only the loop that the
\* page follows brings a result: that of its job.
LEMMA FollowedBrings ==
    ASSUME TypeInv, [Next]_vars, UNCHANGED <<restore, click>>
    PROVE  view'.result \in {view.result, refs.active, NoJob}
<1>0. view \in ViewType /\ click \in [Clicks -> ClickType]
  BY DEF TypeInv, PollType, ClickingType
<1>1. CASE Backend \/ UNCHANGED vars
  BY <1>1 DEF Backend, StockReported, JobEnds, OtherTabStarts, OtherTabStops, CancelServed, CancelLost,
              BackendRestarts, ServerCacheExpires, LocalCacheExpires, Hidden, vars
<1>2. ASSUME NEW g \in Generations, Poll(g) \/ PollLost(g)
      PROVE  view'.result \in {view.result, refs.active}
  <2>1. CASE ResultsAnswered(g)
    <3>1. \/ UNCHANGED view
          \/ Current(g) /\ Show([view EXCEPT !.result = loops[g].job])
      BY <2>1 DEF ResultsAnswered
    <3> QED
      BY <1>0, <3>1 DEF Current, Show, ViewType
  <2>2. CASE ~ResultsAnswered(g)
    BY <1>2, <2>2, LoopKeepsResult
  <2> QED
    BY <2>1, <2>2
<1>3. ASSUME NEW c \in Clicks, Click(c) \/ StartLost(c) \/ \E fresh \in BOOLEAN : ClickStart(c, fresh)
      PROVE  view'.result = view.result
  <2>0. click' = click
    OBVIOUS
  <2>1. ASSUME LocalCacheAnswered(c) PROVE FALSE
    <3>1. click[c].step = "local" /\ (ClickOver(c) \/ click' = [click EXCEPT ![c].step = "sent"])
      BY <2>1 DEF LocalCacheAnswered
    <3> QED
      BY <1>0, <2>0, <3>1 DEF ClickOver, Served, ClickType
  <2>2. ASSUME CachedAnswered(c) PROVE FALSE
    <3>1. click[c].step = "answered" /\ ClickOver(c)
      BY <2>2 DEF CachedAnswered
    <3> QED
      BY <1>0, <2>0, <3>1 DEF ClickOver, Served
  <2> QED
    BY <1>3, <2>1, <2>2, ClickKeepsResult
<1>4. CASE Restoring \/ RestoreLost
  <2>1. UNCHANGED view \/ RestoreLists
    BY <1>4 DEF Restoring, RestoreLost, RestoreLocal, RestoreResults, RestoreCache, Restored
  <2>2. UNCHANGED view \/ \E x : Show([[view EXCEPT !.job = x, !.running = TRUE] EXCEPT !.items = NoItems])
    BY <2>1 DEF RestoreLists, PollJob
  <2> QED
    BY <1>0, <2>2 DEF Show, ViewType
<1>5. CASE ClickStop \/ Leave
  <2>1. UNCHANGED view \/ Show([view EXCEPT !.running = FALSE])
    BY <1>5 DEF ClickStop, Leave
  <2> QED
    BY <1>0, <2>1 DEF Show, ViewType
<1>6. CASE Reload
  BY <1>6 DEF Reload, NewView
<1> QED
  BY <1>1, <1>2, <1>3, <1>4, <1>5, <1>6 DEF Next, PageNext

\* The result of the job that a page has followed is not replaced by that of an
\* earlier scan which a superseded loop has asked for, however late it is
\* answered, whatever the user clicks and however often the backend restarts.
THEOREM FollowedResultIsNotReplaced == Spec => FollowedResultStays
<1>1. ASSUME TypeInv, CompletedInv, [Next]_vars, view.result = refs.active, UNCHANGED <<restore, click>>,
             view.result # NoJob, view'.result # NoJob
      PROVE  ~(jobs'[view'.result].completedAt < jobs[view.result].completedAt)
  <2>1. view'.result = view.result
    BY <1>1, FollowedBrings
  <2>2. view.result \in CompletedJobs
    BY <1>1 DEF CompletedInv, ResultsKept
  <2>3. jobs'[view.result].completedAt = jobs[view.result].completedAt
    BY <1>1, <2>2, ServerRemembers DEF CompletedInv, TypeInv
  <2>4. jobs[view.result].completedAt \in Nat
    BY <1>1, <2>2 DEF CompletedJobs, TypeInv, ServerType, ManagerTypeOK, ScanJob
  <2> QED
    BY <2>1, <2>3, <2>4
<1>2. TypeInv /\ CompletedInv /\ [Next]_vars
          => [view.result = refs.active /\ UNCHANGED <<restore, click>> => ~ReplacedByOlder]_vars
  BY <1>1 DEF ReplacedByOlder
<1> QED
  BY <1>2, CompletedInvariant, PTL DEF Spec, FollowedResultStays
=============================================================================
