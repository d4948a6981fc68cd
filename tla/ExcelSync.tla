----------------------------- MODULE ExcelSync -----------------------------
(***************************************************************************)
(* The OneDrive worksheet of a scan: services/excel_sync/scan_sync.py and  *)
(* graph_backend.py.  A scan queues rows in memory; a task of its own      *)
(* creates the worksheet, one name after the other until one is free, and  *)
(* writes the queued rows in batches, retrying what fails.  Every scan has *)
(* its own backend, so nothing but the workbook itself orders the requests *)
(* of two scans that start in the same minute and want the same names.     *)
(*                                                                         *)
(* A request that raises may have been carried out.  A row stands for its  *)
(* key; the texts in it, the token and the intervals are left out.         *)
(***************************************************************************)
EXTENDS Naturals, Sequences, FiniteSets

CONSTANTS
    Scans,          \* scans started in the same minute
    History,        \* owner of the worksheets of earlier days
    Nobody,         \* owner of a free name
    MaxNames,       \* MAX_NAME_ATTEMPTS
    MaxPerRequest,  \* MAX_ROWS_PER_REQUEST
    GiveUpAfter,    \* failures after which a closing task gives up (8)
    MaxRows,        \* scan -> rows it reports (bound)
    Faults          \* requests that raise or are answered with 504 (bound)

ASSUME OwnerAssumption == History \notin Scans /\ Nobody \notin Scans \cup {History}
ASSUME LimitAssumption == MaxNames \in Nat \ {0} /\ MaxPerRequest \in Nat \ {0} /\ GiveUpAfter \in Nat
ASSUME BoundAssumption == MaxRows \in [Scans -> Nat] /\ Faults \in Nat

VARIABLES
    task,        \* where ScanSheetSync._run is
    attempt,     \* the name it tries, or owns
    sheet,       \* sheet_name as its number, 0 for None
    rows,        \* key of every row given out so far: _row_by_key, _next_row
    dirty,       \* _dirty
    batch,       \* rows the running _flush has still to write
    closing,     \* _closing
    promised,    \* how many rows were queued when finish() was called
    failures,    \* the counter
    workbook,    \* name -> its worksheet
    faultsLeft

sync == <<task, attempt, sheet, rows, dirty, batch, closing, promised, failures>>
vars == <<sync, workbook, faultsLeft>>

Names == 1 .. MaxNames
Rows == UNION {1 .. MaxRows[s] : s \in Scans}
Creating == {"lookup", "adding", "header"}
TaskStep == Creating \cup {"createBackoff", "idle", "batching", "writing", "backoff", "done", "gaveUp", "cut"}
Over == {"done", "gaveUp", "cut"}

NoCell == 0
Worksheet(owner) == [owner |-> owner, header |-> FALSE, cells |-> [r \in Rows |-> NoCell]]

\* The first name is taken by a scan of an earlier day, whose rows are kept.
Init ==
    /\ task = [s \in Scans |-> "lookup"]
    /\ attempt = [s \in Scans |-> 1]
    /\ sheet = [s \in Scans |-> 0]
    /\ rows = [s \in Scans |-> << >>]
    /\ dirty = [s \in Scans |-> {}] /\ batch = [s \in Scans |-> {}]
    /\ closing = [s \in Scans |-> FALSE]
    /\ promised = [s \in Scans |-> 0]
    /\ failures = [s \in Scans |-> 0]
    /\ workbook = [n \in Names |-> Worksheet(IF n = 1 THEN History ELSE Nobody)]
    /\ faultsLeft = Faults

-----------------------------------------------------------------------------
(* What the scan calls.                                                    *)

\* on_progress and add_rows: n new keys get the next rows.  Stocks that outlive
\* a failed scan report after finish(), too.
Enqueue(s, n) ==
    /\ Len(rows[s]) + n <= MaxRows[s]
    /\ rows' = [rows EXCEPT ![s] = @ \o [i \in 1 .. n |-> Len(@) + i]]
    /\ dirty' = [dirty EXCEPT ![s] = @ \cup (Len(rows[s]) + 1 .. Len(rows[s]) + n)]
    /\ UNCHANGED <<task, attempt, sheet, batch, closing, promised, failures, workbook, faultsLeft>>

Finish(s) ==
    /\ ~closing[s]
    /\ closing' = [closing EXCEPT ![s] = TRUE]
    /\ promised' = [promised EXCEPT ![s] = Len(rows[s])]
    /\ UNCHANGED <<task, attempt, sheet, rows, dirty, batch, failures, workbook, faultsLeft>>

\* Mutant: `if self._closing: return` stands before the look at _dirty.
LoopTop_ClosingFirst(s, toWrite) ==
    /\ task' = [task EXCEPT ![s] = IF closing[s] THEN "done" ELSE IF toWrite # {} THEN "writing" ELSE "idle"]
    /\ batch' = [batch EXCEPT ![s] = IF closing[s] THEN {} ELSE toWrite]

\* The top of `while True`: what is dirty is flushed, a task that is closing and
\* has nothing to flush returns, any other one waits.
LoopTop(s, toWrite) ==
    /\ task' = [task EXCEPT ![s] = IF toWrite # {} THEN "writing"
                                   ELSE IF closing[s] THEN "done" ELSE "idle"]
    /\ batch' = [batch EXCEPT ![s] = toWrite]

-----------------------------------------------------------------------------
(* The worksheet.                                                          *)

\* `while not self.sheet_name` goes round, unless too much has failed.
CreateAgain(s, failed) ==
    task' = [task EXCEPT ![s] = IF closing[s] /\ failed > GiveUpAfter THEN "gaveUp" ELSE "createBackoff"]

\* create_sheet returned False: the next name, or False from _create_sheet.
NameTaken(s) ==
    IF attempt[s] < MaxNames
    THEN /\ attempt' = [attempt EXCEPT ![s] = @ + 1]
         /\ task' = [task EXCEPT ![s] = "lookup"]
    ELSE /\ CreateAgain(s, failures[s])
         /\ UNCHANGED attempt

LookupAnswered(s) ==
    /\ task[s] = "lookup"
    /\ IF workbook[attempt[s]].owner # Nobody
       THEN NameTaken(s)
       ELSE /\ task' = [task EXCEPT ![s] = "adding"]
            /\ UNCHANGED attempt
    /\ UNCHANGED <<sheet, rows, dirty, batch, closing, promised, failures, workbook, faultsLeft>>

\* Still 429, 503 or 504 after four attempts: not 200, so the name counts as free.
LookupUnclear(s) ==
    /\ task[s] = "lookup" /\ faultsLeft > 0
    /\ faultsLeft' = faultsLeft - 1
    /\ task' = [task EXCEPT ![s] = "adding"]
    /\ UNCHANGED <<attempt, sheet, rows, dirty, batch, closing, promised, failures, workbook>>

SheetAdded(s) == workbook' = [workbook EXCEPT ![attempt[s]].owner = s]

\* Mutant: the answer 409 of worksheets/add is not looked at.
AddAnswered_IgnoresConflict(s) ==
    /\ task[s] = "adding"
    /\ task' = [task EXCEPT ![s] = "header"]
    /\ workbook' = IF workbook[attempt[s]].owner = Nobody
                   THEN [workbook EXCEPT ![attempt[s]].owner = s] ELSE workbook
    /\ UNCHANGED <<attempt, sheet, rows, dirty, batch, closing, promised, failures, faultsLeft>>

\* worksheets/add; 409 when another scan was faster since the lookup.
AddAnswered(s) ==
    /\ task[s] = "adding"
    /\ IF workbook[attempt[s]].owner # Nobody
       THEN NameTaken(s) /\ UNCHANGED workbook
       ELSE /\ SheetAdded(s)
            /\ task' = [task EXCEPT ![s] = "header"]
            /\ UNCHANGED attempt
    /\ UNCHANGED <<sheet, rows, dirty, batch, closing, promised, failures, faultsLeft>>

\* 504 although the sheet was added: _request repeats the call and gets 409.
AddRepeated(s) ==
    /\ task[s] = "adding" /\ faultsLeft > 0 /\ workbook[attempt[s]].owner = Nobody
    /\ faultsLeft' = faultsLeft - 1
    /\ SheetAdded(s)
    /\ NameTaken(s)
    /\ UNCHANGED <<sheet, rows, dirty, batch, closing, promised, failures>>

\* A request of create_sheet raises, carried out or not.
CreateFails(s) ==
    /\ task[s] \in Creating /\ faultsLeft > 0
    /\ faultsLeft' = faultsLeft - 1
    /\ failures' = [failures EXCEPT ![s] = @ + 1]
    /\ CreateAgain(s, failures'[s])
    /\ \/ UNCHANGED workbook
       \/ task[s] = "adding" /\ workbook[attempt[s]].owner = Nobody /\ SheetAdded(s)
       \/ task[s] = "header" /\ workbook' = [workbook EXCEPT ![attempt[s]].header = TRUE]
    /\ UNCHANGED <<attempt, sheet, rows, dirty, batch, closing, promised>>

CreateRetries(s) ==
    /\ task[s] = "createBackoff"
    /\ task' = [task EXCEPT ![s] = "lookup"]
    /\ attempt' = [attempt EXCEPT ![s] = 1]
    /\ UNCHANGED <<sheet, rows, dirty, batch, closing, promised, failures, workbook, faultsLeft>>

-----------------------------------------------------------------------------
(* The flusher.                                                            *)

HeaderAnswered(s) ==
    /\ task[s] = "header"
    /\ workbook' = [workbook EXCEPT ![attempt[s]].header = TRUE]
    /\ sheet' = [sheet EXCEPT ![s] = attempt[s]]
    /\ LoopTop(s, dirty[s])
    /\ UNCHANGED <<attempt, rows, dirty, closing, promised, failures, faultsLeft>>

\* Woken, or after the flush interval: rows that have come in wait for more, but
\* not when the scan is over.
IdleEnds(s) ==
    /\ task[s] = "idle"
    /\ IF dirty[s] # {} /\ ~closing[s]
       THEN task' = [task EXCEPT ![s] = "batching"] /\ UNCHANGED batch
       ELSE LoopTop(s, dirty[s])
    /\ UNCHANGED <<attempt, sheet, rows, dirty, closing, promised, failures, workbook, faultsLeft>>

FlushBegins(s) ==
    /\ task[s] \in {"batching", "backoff"}
    /\ LoopTop(s, dirty[s])
    /\ UNCHANGED <<attempt, sheet, rows, dirty, closing, promised, failures, workbook, faultsLeft>>

\* The next contiguous rows of the batch, at most MaxPerRequest of them.
Run(s) ==
    LET first == CHOOSE r \in batch[s] : \A q \in batch[s] : r <= q
    IN  {r \in batch[s] : r < first + MaxPerRequest /\ first .. r \subseteq batch[s]}

RunWritten(s) ==
    workbook' = [workbook EXCEPT ![sheet[s]].cells =
                    [r \in Rows |-> IF r \in Run(s) THEN rows[s][r] ELSE @[r]]]

\* Mutant: the whole set is cleared, with what came in during the request.
RowsClean_All(s) == dirty' = [dirty EXCEPT ![s] = {}]

RowsClean(s) == dirty' = [dirty EXCEPT ![s] = @ \ Run(s)]

\* write_rows returns: its rows are clean, and the rest of the batch is next.
WriteAnswered(s) ==
    /\ task[s] = "writing"
    /\ RunWritten(s)
    /\ RowsClean(s)
    /\ LET rest == batch[s] \ Run(s)
       IN  IF rest = {} THEN LoopTop(s, dirty'[s])
                        ELSE batch' = [batch EXCEPT ![s] = rest] /\ UNCHANGED task
    /\ UNCHANGED <<attempt, sheet, rows, closing, promised, failures, faultsLeft>>

\* Mutant: the exception leaves the loop.
WriteFails_EndsTask(s) ==
    /\ task[s] = "writing" /\ faultsLeft > 0
    /\ faultsLeft' = faultsLeft - 1
    /\ failures' = [failures EXCEPT ![s] = @ + 1]
    /\ task' = [task EXCEPT ![s] = "gaveUp"]
    /\ batch' = [batch EXCEPT ![s] = {}]
    /\ UNCHANGED workbook \/ RunWritten(s)
    /\ UNCHANGED <<attempt, sheet, rows, dirty, closing, promised>>

\* write_rows raises, carried out or not; all rows of the batch stay dirty.
WriteFails(s) ==
    /\ task[s] = "writing" /\ faultsLeft > 0
    /\ faultsLeft' = faultsLeft - 1
    /\ failures' = [failures EXCEPT ![s] = @ + 1]
    /\ task' = [task EXCEPT ![s] = IF closing[s] /\ failures'[s] > GiveUpAfter THEN "gaveUp" ELSE "backoff"]
    /\ batch' = [batch EXCEPT ![s] = {}]
    /\ UNCHANGED workbook \/ RunWritten(s)
    /\ UNCHANGED <<attempt, sheet, rows, dirty, closing, promised>>

\* wait_for cancels the task when finish() has waited its 60 seconds; a request
\* that is under way may still be carried out.
FinishTimesOut(s) ==
    /\ closing[s] /\ task[s] \notin Over
    /\ task' = [task EXCEPT ![s] = "cut"]
    /\ batch' = [batch EXCEPT ![s] = {}]
    /\ \/ UNCHANGED workbook
       \/ task[s] = "adding" /\ workbook[attempt[s]].owner = Nobody /\ SheetAdded(s)
       \/ task[s] = "header" /\ workbook' = [workbook EXCEPT ![attempt[s]].header = TRUE]
       \/ task[s] = "writing" /\ RunWritten(s)
    /\ UNCHANGED <<attempt, sheet, rows, dirty, closing, promised, failures, faultsLeft>>

-----------------------------------------------------------------------------
TaskRuns(s) ==
    \/ LookupAnswered(s) \/ AddAnswered(s) \/ HeaderAnswered(s) \/ CreateRetries(s)
    \/ IdleEnds(s) \/ FlushBegins(s) \/ WriteAnswered(s)

Next ==
    \E s \in Scans :
        \/ \E n \in 1 .. MaxRows[s] : Enqueue(s, n)
        \/ Finish(s) \/ FinishTimesOut(s)
        \/ TaskRuns(s)
        \/ LookupUnclear(s) \/ AddRepeated(s) \/ CreateFails(s) \/ WriteFails(s)

\* Every request has a timeout and every sleep ends; nobody has to finish a scan.
Spec == Init /\ [][Next]_vars /\ \A s \in Scans : WF_vars(TaskRuns(s))

-----------------------------------------------------------------------------
\* What is dirty has a row, what is being flushed is dirty.
RowRanges ==
    \A s \in Scans :
        /\ Len(rows[s]) <= MaxRows[s] /\ promised[s] <= Len(rows[s])
        /\ dirty[s] \subseteq 1 .. Len(rows[s])
        /\ batch[s] \subseteq dirty[s]
        /\ batch[s] # {} <=> task[s] = "writing"
        /\ failures[s] + faultsLeft <= Faults

\* Type invariant.
TypeOK ==
    /\ task \in [Scans -> TaskStep]
    /\ attempt \in [Scans -> Names] /\ sheet \in [Scans -> Names \cup {0}]
    /\ rows \in [Scans -> Seq(Rows)]
    /\ dirty \in [Scans -> SUBSET Rows] /\ batch \in [Scans -> SUBSET Rows]
    /\ closing \in [Scans -> BOOLEAN] /\ promised \in [Scans -> Nat]
    /\ failures \in [Scans -> Nat] /\ faultsLeft \in Nat
    /\ workbook \in [Names -> [owner : Scans \cup {History, Nobody}, header : BOOLEAN,
                               cells : [Rows -> Rows \cup {NoCell}]]]
    /\ RowRanges

Written(s, r) == sheet[s] # 0 /\ r <= Len(rows[s]) /\ workbook[sheet[s]].cells[r] = rows[s][r]

\* A row that is no longer dirty is in the worksheet: neither rows that come in
\* during a request nor requests that fail get lost.
CleanRowsAreWritten ==
    \A s \in Scans : \A r \in 1 .. Len(rows[s]) : r \in dirty[s] \/ Written(s, r)

\* A task that returns by itself has written every row of its scan.
DoneHasWrittenAll ==
    \A s \in Scans : task[s] = "done" => \A r \in 1 .. promised[s] : Written(s, r)

\* "It can never duplicate a row": whatever is retried, no key is in two rows.
NoRowTwice ==
    \A n \in Names : \A q, r \in Rows :
        workbook[n].cells[q] = workbook[n].cells[r] /\ workbook[n].cells[q] # NoCell => q = r

\* Two scans of one minute race for the same names, and still write only to
\* worksheets they have added themselves.
WritesToOwnSheet ==
    \A s \in Scans :
        /\ sheet[s] # 0 => workbook[sheet[s]].owner = s
        /\ task[s] = "header" => workbook[attempt[s]].owner = s

\* Rows are only ever written below a header.
RowsUnderHeader ==
    \A n \in Names : (\E r \in Rows : workbook[n].cells[r] # NoCell) => workbook[n].header

\* No row is lost between the scan and the end of its task.
NothingIsLost == CleanRowsAreWritten /\ DoneHasWrittenAll

\* Every worksheet is one scan's, with a header and no row twice.
SheetsAreSound == NoRowTwice /\ WritesToOwnSheet /\ RowsUnderHeader

\* Rows appear "progressively before scan ends": as long as a scan goes on, it
\* is again and again without unwritten rows, although requests fail.
RowsAppear == \A s \in Scans : []<>(closing[s] \/ dirty[s] = {})

\* "The same scan never creates a second worksheet".
OneSheetPerScan == \A s \in Scans : Cardinality({n \in Names : workbook[n].owner = s}) <= 1
=============================================================================
