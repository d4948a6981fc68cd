---------------------------- MODULE LocalHistory ----------------------------
(***************************************************************************)
(* The scan history that a browser keeps for ever: useLocalHistoryWriter   *)
(* writes what the page receives to IndexedDB while the scan runs, and     *)
(* fills in the final result when there is one.                            *)
(*                                                                         *)
(* ScanPage has the page in full.  Here it follows one job at a time, and  *)
(* what matters is which of its pieces of state change in one rendering:   *)
(* the effects of the writer run for those, in the order of the source.    *)
(* Nothing is awaited by the page: a write is a transaction in `queue`,    *)
(* and one that shares a store with an earlier one waits for it.           *)
(***************************************************************************)
EXTENDS Naturals, Sequences, FiniteSets, SequencesExt

CONSTANTS
    Jobs,           \* numbered as they are started
    NoJob,
    Total,          \* stocks of a scan, numbered as they are reported
    Failing,        \* those without data
    Found,          \* stock -> the signals the strategies find
    HasUniverse,    \* does the result have the shape of the A Group scan?
    ChunkRows,      \* CHUNK
    Mishaps,        \* what can go wrong, once (bound)
    Lag,            \* transactions the page may be ahead of the database (bound)
    UserDeletes     \* which scans the user deletes from the history

ASSUME ScanAssumption ==
    /\ Jobs \subseteq Nat /\ Total \in Nat /\ Failing \subseteq 1 .. Total /\ NoJob \notin Jobs
    /\ DOMAIN Found \subseteq 1 .. Total \ Failing /\ ChunkRows \in Nat \ {0}
ASSUME FoundAssumption ==
    \A i \in DOMAIN Found :
        IsFiniteSet(Found[i]) /\ \A x \in Found[i] : x.strategy # "" /\ IsFiniteSet(x.structures)
ASSUME HistoryBounds ==
    Mishaps \subseteq {"answer", "write", "reload", "delete"} /\ Lag \in Nat /\ UserDeletes \in {"left", "any"}

VARIABLES
    scan,        \* job -> its state at the backend
    page,        \* what React shows, and what the page waits for
    device,      \* the job whose result the device's own cache holds
    writer,      \* the refs of the writer
    finals,      \* job -> the writing of its final result
    queue,       \* the transactions in the order of their creation
    snapshots,   \* job -> its status in the store of scans
    rows,        \* the store of results
    mishap,      \* the mishap that has occurred
    lost         \* keys of rows that could not be written (auxiliary)

vars == <<scan, page, device, writer, finals, queue, snapshots, rows, mishap, lost>>

AnyJob == Jobs \cup {NoJob}
Stream == {"partial", "progress"}
NoItems == [s \in Stream |-> {}]
NoCursor == [s \in Stream |-> 0]

NewPage == [job |-> NoJob, status |-> "running", result |-> NoJob, items |-> NoItems,
            cursor |-> NoCursor, step |-> "local"]
NewWriter == [localId |-> NoJob, cursor |-> NoCursor, finalized |-> FALSE]
NoFinal == [of |-> NoJob, chunks |-> << >>, step |-> "none"]
NoSnapshot == "none"

Init ==
    /\ scan = [j \in Jobs |-> [status |-> "unborn", processed |-> 0]]
    /\ page = NewPage /\ device = NoJob
    /\ writer = NewWriter /\ finals = [j \in Jobs |-> NoFinal] /\ queue = << >>
    /\ snapshots = [j \in Jobs |-> NoSnapshot] /\ rows = {}
    /\ mishap = "none" /\ lost = {}

-----------------------------------------------------------------------------
(* Rows.                                                                   *)

None == "none"

\* resultRowKey: a row that is written again replaces itself.
Key(r) == <<r.job, r.stock, r.strategy, r.timeframe, r.a>>
Keys(R) == {Key(r) : r \in R}
Upsert(R, new) == {r \in R : Key(r) \notin Keys(new)} \cup new

\* Every row: filed under the scan `id`, from the data of the scan `of`.
StockRow(id, of, stock, by) ==
    [job |-> id, of |-> of, by |-> by, stock |-> stock, strategy |-> "", timeframe |-> None, a |-> None,
     status |-> IF stock \in Failing THEN "DATA_UNAVAILABLE" ELSE "SCANNED_NO_SIGNAL"]

Forming == {"PRD Forming", "NRD Forming"}
Divergences == {"PRD", "NRD"}

\* The structures of a signal that get a row: of the forming ones only the
\* freshest of a time frame, of the confirmed ones all.  The one structure of a
\* "CUP" is the cup itself; "QUALIFIED" stands for the status it brings along.
Shown(x) ==
    IF x.strategy \in Forming
    THEN {f \in x.structures :
             \A g \in x.structures : g.timeframe = f.timeframe => f.distance <= g.distance}
    ELSE x.structures

SignalRows(id, of, stock, x, by) ==
    LET base == [StockRow(id, of, stock, by) EXCEPT !.strategy = x.strategy, !.status = "QUALIFIED"]
    IN  IF x.strategy \in Forming \cup {"CUP"} \/ (x.strategy \in Divergences /\ x.structures # {})
        THEN {[base EXCEPT !.timeframe = f.timeframe, !.a = f.a,
                           !.status = IF x.strategy \in Forming THEN "FORMING" ELSE @] : f \in Shown(x)}
        ELSE {base}

PartialRows(id, item) ==
    UNION {SignalRows(id, item.job, item.stock, x, "stream") : x \in Found[item.stock]}

Unavailable(id, r) == {StockRow(id, r, i, "result") : i \in Failing}
AllSignals(id, r) ==
    UNION {UNION {SignalRows(id, r, i, x, "result") : x \in Found[i]} : i \in DOMAIN Found}

\* mapScanResultToHistoryRows
FinalRows(id, r) == IF HasUniverse THEN Unavailable(id, r) \cup AllSignals(id, r) ELSE {}

\* The first n chunks of rows.
Cut(all, n) ==
    [k \in 1 .. n |-> {all[i] : i \in {x \in DOMAIN all : (x - 1) \div ChunkRows = k - 1}}]

InOrder(id, r) ==
    IF HasUniverse THEN SetToSeq(Unavailable(id, r)) \o SetToSeq(AllSignals(id, r)) ELSE << >>

\* Mutant: the loop ends with the last whole chunk before the end.
Chunks_DropsLast(id, r) == Cut(InOrder(id, r), (Len(InOrder(id, r)) - 1) \div ChunkRows)

Chunks(id, r) == Cut(InOrder(id, r), (Len(InOrder(id, r)) + ChunkRows - 1) \div ChunkRows)

-----------------------------------------------------------------------------
(* The effects of one rendering.                                           *)

Tx(op, j) == [op |-> op, job |-> j, status |-> None, rows |-> {}, final |-> FALSE]
Get(j) == Tx("get", j)
PutSnapshot(j, status) == [Tx("put", j) EXCEPT !.status = status]
PutResults(j, R, final) == [Tx("rows", j) EXCEPT !.rows = R, !.final = final]

\* putResults returns at once when there is nothing to write.
Written(j, R) == IF R = {} THEN << >> ELSE <<PutResults(j, R, FALSE)>>

SummarizeStatus(status) == IF status = "cancelled" THEN "stopped" ELSE status

\* Mutant: the cursors of the last job are kept.
NextJob_KeepsCursors(p, changed) ==
    IF "job" \in changed /\ p.job \notin {NoJob, writer.localId}
    THEN [writer EXCEPT !.localId = p.job, !.finalized = FALSE]
    ELSE writer

\* First effect: a new job.
NextJob(p, changed) ==
    IF "job" \in changed /\ p.job \notin {NoJob, writer.localId}
    THEN [NewWriter EXCEPT !.localId = p.job]
    ELSE writer

\* What the two streams have brought since the cursor moved.
Fresh(s, p, w, changed) ==
    IF s \in changed /\ w.localId # NoJob
    THEN {x \in p.items[s] : x.seq > w.cursor[s]}
    ELSE {}

Newest(new) == Max({x.seq : x \in new})

StreamRows(s, id, new) ==
    UNION {IF s = "partial" THEN PartialRows(id, x)
                            ELSE {StockRow(id, x.job, x.stock, "stream")} : x \in new}

\* Mutant: the loop does not wait for its writes.
FinalStep_NotAwaited(id, f) ==
    IF f.chunks = << >>
    THEN [tx |-> PutSnapshot(id, "completed"), final |-> [f EXCEPT !.step = "over"]]
    ELSE [tx |-> PutResults(id, Head(f.chunks), FALSE),
          final |-> [f EXCEPT !.step = "next", !.chunks = Tail(@)]]

\* The loop of the last effect up to its next await.  The id it looks for in a
\* result is null in every result.
FinalStep(id, f) ==
    IF f.chunks = << >>
    THEN [tx |-> PutSnapshot(id, "completed"), final |-> [f EXCEPT !.step = "over"]]
    ELSE [tx |-> PutResults(id, Head(f.chunks), TRUE),
          final |-> [f EXCEPT !.step = "waiting", !.chunks = Tail(@)]]

\* `changed` is what was set; the third and fourth effect are throttled only
\* while the job runs.
Render(p, changed) ==
    LET w == NextJob(p, changed)
        id == w.localId
        new(s) == Fresh(s, p, w, changed)
        jobSet == "job" \in changed /\ p.job # NoJob
        ends == /\ changed \cap {"job", "result"} # {} /\ p.job # NoJob
                /\ p.status = "completed" /\ p.result # NoJob /\ ~w.finalized
        started == FinalStep(id, [of |-> p.result, chunks |-> Chunks(id, p.result), step |-> "first"])
    IN  /\ Len(queue) <= Lag
        /\ page' = p
        /\ writer' = [w EXCEPT !.cursor = [s \in Stream |-> IF new(s) = {} THEN @[s] ELSE Newest(new(s))],
                               !.finalized = @ \/ ends]
        /\ finals' = IF ends THEN [finals EXCEPT ![id] = started.final] ELSE finals
        /\ \E flush \in BOOLEAN :
               /\ jobSet /\ p.status # "running" => flush
               /\ queue' = queue
                      \o (IF id # writer.localId THEN <<Get(id)>> ELSE << >>)
                      \o Written(id, StreamRows("partial", id, new("partial")))
                      \o Written(id, StreamRows("progress", id, new("progress")))
                      \o (IF jobSet /\ flush THEN <<PutSnapshot(id, SummarizeStatus(p.status))>> ELSE << >>)
                      \o (IF ends THEN <<started.tx>> ELSE << >>)

-----------------------------------------------------------------------------
(* The backend, and the page.                                              *)

Unseen == <<page, device, writer, finals, queue, snapshots, rows, mishap, lost>>
Mishap(kind) == kind \in Mishaps /\ mishap = "none" /\ mishap' = kind

Stored == <<snapshots, rows, mishap, lost>>

StockDone(j) ==
    /\ scan[j].status = "running" /\ scan[j].processed < Total
    /\ scan' = [scan EXCEPT ![j].processed = @ + 1]
    /\ UNCHANGED Unseen

\* It may fail at any time.
ScanEnds(j) ==
    /\ scan[j].status = "running"
    /\ \E status \in {"failed"} \cup {s \in {"completed"} : scan[j].processed = Total} :
           scan' = [scan EXCEPT ![j].status = status]
    /\ UNCHANGED Unseen

\* The entries of a stream, numbered in the order in which they were made.
ReportedStocks(s, j) ==
    IF s = "progress" THEN 1 .. scan[j].processed ELSE (1 .. scan[j].processed) \cap DOMAIN Found

Reported(s, j) ==
    {[job |-> j, seq |-> Cardinality(ReportedStocks(s, j) \cap (1 .. i)), stock |-> i] : i \in ReportedStocks(s, j)}

\* The cache of the last result on this device: a result that is a day old is
\* deleted when it is asked for.
GetLocalScanCache(answer) ==
    \/ device # NoJob /\ answer = device /\ UNCHANGED device
    \/ answer = NoJob /\ device' = NoJob

PutLocalScanCache(j) == device' = j
DeleteLocalScanCache == device' = NoJob

\* Mutant: the streams of the last job are still shown.
Followed_KeepsItems(p, j) ==
    [p EXCEPT !.job = j, !.status = "running", !.cursor = NoCursor, !.step = "asking"]

\* setJob and pollJob
Followed(p, j) ==
    [p EXCEPT !.job = j, !.status = "running", !.items = NoItems, !.cursor = NoCursor, !.step = "asking"]

\* run, when the device has a result already.
ServedFromDevice ==
    /\ page.step = "idle"
    /\ \E r \in Jobs : GetLocalScanCache(r) /\ Render([page EXCEPT !.result = r, !.job = NoJob], {"job", "result"})
    /\ UNCHANGED <<scan, Stored>>

\* run and runFresh: what the page shows stays until the new result arrives.
ScanStarts(j) ==
    /\ page.step = "idle" /\ scan[j].status = "unborn"
    /\ \A k \in Jobs : scan[k].status # "running" /\ (k < j => scan[k].status # "unborn")
    /\ scan' = [scan EXCEPT ![j].status = "running"]
    /\ DeleteLocalScanCache
    /\ Render(Followed(page, j), {"job", "partial", "progress"})
    /\ UNCHANGED Stored

Polled ==
    /\ page.step = "asking"
    /\ Render([page EXCEPT !.status = scan[page.job].status, !.step = "partial"], {"job"})
    /\ UNCHANGED <<scan, device, Stored>>

\* After the streams, as the answer to the poll says.
NextStep(status) ==
    CASE status = "running" -> "asking" [] status = "completed" -> "results" [] OTHER -> "idle"

\* What is new in a stream; or no answer, until the next poll.
StreamAnswered ==
    LET s == page.step
        p == [page EXCEPT !.step = IF s = "partial" THEN "progress" ELSE NextStep(page.status)]
        new == {x \in Reported(s, page.job) : x.seq > page.cursor[s]}
    IN  /\ s \in Stream
        /\ \/ /\ Render([p EXCEPT !.items[s] = @ \cup new,
                                  !.cursor[s] = Cardinality(ReportedStocks(s, page.job))],
                        IF new = {} THEN {} ELSE {s})
              /\ UNCHANGED mishap
           \/ Mishap("answer") /\ Render(p, {})
        /\ UNCHANGED <<scan, device, snapshots, rows, lost>>

ResultsAnswered ==
    /\ page.step = "results"
    /\ Render([page EXCEPT !.result = page.job, !.step = "idle"], {"result"})
    /\ PutLocalScanCache(page.job)
    /\ UNCHANGED <<scan, Stored>>

\* cancel: the page polls no more, and goes on showing the job as it was.
UserStops ==
    /\ page.step = "asking"
    /\ page' = [page EXCEPT !.step = "idle"]
    /\ scan' = [scan EXCEPT ![page.job].status = IF @ = "running" THEN "cancelled" ELSE @]
    /\ UNCHANGED <<device, writer, finals, queue, Stored>>

\* The effect on mount: the device's own result, unless it has expired, ...
RestoreLocal ==
    /\ page.step = "local"
    /\ \E r \in AnyJob :
           /\ GetLocalScanCache(r)
           /\ Render([page EXCEPT !.result = r, !.step = "list"], IF r = NoJob THEN {} ELSE {"result"})
    /\ UNCHANGED <<scan, Stored>>

\* ... then a job that runs, or else the result of a completed one.
RestoreLists ==
    LET with(status) == {j \in Jobs : scan[j].status = status}
    IN  /\ page.step = "list"
        /\ \/ \E j \in with("running") : Render(Followed(page, j), {"job", "partial", "progress"})
           \/ /\ with("running") = {}
              /\ \/ /\ page.result = NoJob
                    /\ \E j \in with("completed") :
                           Render([page EXCEPT !.job = j, !.status = "completed", !.result = j, !.step = "idle"],
                                  {"job", "result"})
                 \/ /\ page.result # NoJob \/ with("completed") = {}
                    /\ Render([page EXCEPT !.step = "idle"], {})
        /\ UNCHANGED <<scan, device, Stored>>

\* Transactions that have not begun are dropped with the page.
Reload ==
    /\ Mishap("reload")
    /\ lost' = lost \cup UNION {Keys(queue[i].rows) : i \in DOMAIN queue}
                    \cup UNION {Keys(UNION {finals[j].chunks[i] : i \in DOMAIN finals[j].chunks}) : j \in Jobs}
    /\ page' = NewPage /\ writer' = NewWriter /\ finals' = [j \in Jobs |-> NoFinal] /\ queue' = << >>
    /\ UNCHANGED <<scan, device, snapshots, rows>>

-----------------------------------------------------------------------------
(* IndexedDB.                                                              *)

Stores(t) ==
    CASE t.op = "rows" -> {"results"} [] t.op = "delete" -> {"snapshots", "results"} [] OTHER -> {"snapshots"}

CanRun(i) == i \in DOMAIN queue /\ \A k \in 1 .. i - 1 : Stores(queue[k]) \cap Stores(queue[i]) = {}

\* The transaction completes, and what awaits it goes on.
Completes(i) ==
    LET t == queue[i]
        rest == RemoveAt(queue, i)
    IN  /\ CanRun(i)
        /\ snapshots' = CASE t.op = "put" -> [snapshots EXCEPT ![t.job] = t.status]
                          [] t.op = "delete" -> [snapshots EXCEPT ![t.job] = NoSnapshot]
                          [] OTHER -> snapshots
        /\ rows' = CASE t.op = "rows" -> Upsert(rows, t.rows)
                     [] t.op = "delete" -> {r \in rows : r.job # t.job}
                     [] OTHER -> rows
        /\ queue' = IF t.op = "get" /\ snapshots[t.job] = NoSnapshot
                    THEN Append(rest, PutSnapshot(t.job, "running"))
                    ELSE rest
        /\ finals' = IF t.final THEN [finals EXCEPT ![t.job].step = "next"] ELSE finals
        /\ UNCHANGED <<scan, page, device, writer, mishap, lost>>

\* No space left, private mode: every error is swallowed, and nothing is tried again.
Fails(i) ==
    LET t == queue[i]
        f == finals[t.job]
    IN  /\ CanRun(i) /\ Mishap("write")
        /\ queue' = RemoveAt(queue, i)
        /\ finals' = IF t.final THEN [finals EXCEPT ![t.job].step = "failed"] ELSE finals
        /\ lost' = lost \cup Keys(t.rows)
                        \cup (IF t.final THEN Keys(UNION {f.chunks[k] : k \in DOMAIN f.chunks}) ELSE {})
        /\ UNCHANGED <<scan, page, device, writer, snapshots, rows>>

\* The zero timeout between two chunks.
FinalContinues(j) ==
    LET next == FinalStep(j, finals[j])
    IN  /\ finals[j].step = "next"
        /\ finals' = [finals EXCEPT ![j] = next.final]
        /\ queue' = Append(queue, next.tx)
        /\ UNCHANGED <<scan, page, device, writer, snapshots, rows, mishap, lost>>

\* The history page; "left": only a scan that nothing is written to any more.
DeleteSnapshot(j) ==
    /\ \/ UserDeletes = "any"
       \/ /\ UserDeletes = "left" /\ writer.localId # j /\ finals[j].step \notin {"waiting", "next"}
          /\ \A i \in DOMAIN queue : queue[i].job # j
    /\ Mishap("delete") /\ snapshots[j] # NoSnapshot
    /\ queue' = Append(queue, Tx("delete", j))
    /\ UNCHANGED <<scan, page, device, writer, finals, snapshots, rows, lost>>

Backend == \E j \in Jobs : StockDone(j) \/ ScanEnds(j)
Answers == Polled \/ StreamAnswered \/ ResultsAnswered \/ RestoreLocal \/ RestoreLists
User == (\E j \in Jobs : ScanStarts(j) \/ DeleteSnapshot(j)) \/ ServedFromDevice \/ UserStops \/ Reload
Transactions == \E i \in 1 .. Len(queue) : Completes(i) \/ Fails(i)
Finalizers == \E j \in Jobs : FinalContinues(j)

Next == Backend \/ Answers \/ User \/ Transactions \/ Finalizers

Spec == Init /\ [][Next]_vars

\* Requests are answered, transactions complete or fail, timeouts fire.
LiveSpec == Spec /\ WF_vars(Answers) /\ WF_vars(Transactions) /\ WF_vars(Finalizers)

-----------------------------------------------------------------------------
(* Properties.                                                             *)

\* Row by row: the keys are unique, and what the streams brought is filed under
\* the scan it is of, whatever jobs the page has turned to since.
StreamedRowsAreOwn ==
    /\ \A r, s \in rows : Key(r) = Key(s) => r = s
    /\ \A r \in rows : r.by = "stream" => r.of = r.job

Holds(id, r) ==
    \A x \in FinalRows(id, r) : \E y \in rows : Key(y) = Key(x) /\ y.of \in {r, id} /\ y.status = x.status

\* Once the loop that stores a result has come to its end, the history has every
\* row of that result, or what the scan itself says instead, and keeps it until
\* the user deletes the scan: through streams that write to the same rows, other
\* scans, and their deletion.  (A reload between two chunks is not covered: the status
\* is "completed" before, and the page may never take up the loop again.)
FinalizedIsWhole ==
    \A j \in Jobs : finals[j].step = "over" /\ snapshots[j] # NoSnapshot => Holds(j, finals[j].of)

\* "A complete, gap-free local record": every signal and every stock the page
\* has received is stored, on its way to the store, or was lost with a write
\* that failed or was cut short.
ReceivedIsRecorded ==
    page.job # NoJob /\ writer.localId = page.job =>
        \A s \in Stream :
            Keys(StreamRows(s, page.job, page.items[s]))
                \subseteq Keys(rows) \cup lost \cup UNION {Keys(queue[k].rows) : k \in DOMAIN queue}

\* A result that the writer begins to store for its own scan is stored in the
\* end, all of it, unless a write fails or the page is reloaded.
ResultIsStored ==
    \A j \in Jobs :
        finals[j].of = j /\ finals[j].step # "over" ~>
               \/ finals[j].step = "over" /\ snapshots[j] = "completed" /\ Holds(j, j)
               \/ mishap \in {"write", "reload"}

\* "The exact, detailed final data": the rows of a scan are of that scan.  Does
\* not hold: a page that shows an earlier result sees its new job completed
\* before the new result is there, and files the old one.
HistoryIsOfItsScan == \A r \in rows : r.of = r.job

\* "Every OTHER processed stock": a stock with a signal is not recorded as one
\* without.  Does not hold: both streams have it.
NoSignalMeansNone ==
    \A r \in rows : r.status = "SCANNED_NO_SIGNAL" => r.stock \notin DOMAIN Found

\* A scan that has been recorded as ended is never again said to run.  Does not
\* hold: the snapshot of a new job is looked for before the first effect to
\* store one, and written after it.
EndedStaysEnded ==
    [][\A j \in Jobs : snapshots[j] \in {"completed", "stopped", "failed"} =>
                       snapshots'[j] # "running"]_vars

\* A scan the user has stopped is recorded as stopped.  Does not hold: the page
\* asks no more.
StoppedIsRecorded == \A j \in Jobs : scan[j].status = "cancelled" ~> snapshots[j] # "running"
=============================================================================
