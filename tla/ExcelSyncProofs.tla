-------------------------- MODULE ExcelSyncProofs --------------------------
(***************************************************************************)
(* Proofs about ExcelSync, for any number of scans, names and rows.  The   *)
(* inductive invariant adds to the properties where in its life a task     *)
(* owns a worksheet, and that a task that has returned has left nothing    *)
(* dirty of what was queued when finish() was called.                      *)
(***************************************************************************)
EXTENDS ExcelSync, SequenceTheorems, TLAPS

\* The task has a worksheet exactly from the end of create_sheet on.
SheetWhileFlushing ==
    \A s \in Scans :
        /\ task[s] \in Creating \cup {"createBackoff"} => sheet[s] = 0
        /\ task[s] \in {"idle", "batching", "writing", "backoff", "done"} => sheet[s] # 0

DoneLeavesClean ==
    \A s \in Scans : task[s] = "done" =>
        closing[s] /\ \A r \in 1 .. promised[s] : r \notin dirty[s]

SyncInv ==
    /\ TypeOK
    /\ WritesToOwnSheet
    /\ SheetWhileFlushing
    /\ CleanRowsAreWritten
    /\ DoneLeavesClean

-----------------------------------------------------------------------------
(* What the requests do to the workbook.                                   *)

WorkbookType ==
    workbook \in [Names -> [owner : Scans \cup {History, Nobody}, header : BOOLEAN,
                            cells : [Rows -> Rows \cup {NoCell}]]]

OwnersKept ==
    \A n \in Names : workbook[n].owner # Nobody => workbook'[n].owner = workbook[n].owner

CellsKept == \A n \in Names : workbook'[n].cells = workbook[n].cells

\* Rows are positive numbers, and hold the rows of every scan.
LEMMA RowsAreNumbers ==
    /\ Rows \subseteq Nat \ {0} /\ NoCell \notin Rows
    /\ \A s \in Scans : 1 .. MaxRows[s] \subseteq Rows
BY BoundAssumption DEF Rows, NoCell

\* A run is taken from the batch.
LEMMA RunIsOfBatch == ASSUME NEW s \in Scans PROVE Run(s) \subseteq batch[s]
BY DEF Run

\* A worksheet is added under a free name, so no worksheet changes its owner.
LEMMA AddingKeeps ==
    ASSUME TypeOK, NEW s \in Scans, workbook[attempt[s]].owner = Nobody, SheetAdded(s)
    PROVE  WorkbookType' /\ OwnersKept /\ CellsKept /\ workbook'[attempt[s]].owner = s
<1> DEFINE n == attempt[s]
<1>1. n \in Names BY DEF TypeOK
<1>2. workbook' = [workbook EXCEPT ![n] = [workbook[n] EXCEPT !.owner = s]]
  BY DEF SheetAdded
<1>3. workbook \in [Names -> [owner : Scans \cup {History, Nobody}, header : BOOLEAN,
                              cells : [Rows -> Rows \cup {NoCell}]]]
  BY DEF TypeOK
<1> HIDE DEF n
<1>4. WorkbookType' /\ OwnersKept /\ CellsKept /\ workbook'[n].owner = s
  <2>1. workbook[n].owner = Nobody BY DEF n
  <2> QED BY <1>1, <1>2, <1>3, <2>1 DEF WorkbookType, OwnersKept, CellsKept
<1> QED BY <1>4 DEF n

\* Writing the header changes no owner and no cell.
LEMMA HeaderKeeps ==
    ASSUME TypeOK, NEW s \in Scans,
           workbook' = [workbook EXCEPT ![attempt[s]].header = TRUE]
    PROVE  /\ WorkbookType' /\ OwnersKept /\ CellsKept
           /\ \A n \in Names : workbook'[n].owner = workbook[n].owner
<1> DEFINE n == attempt[s]
<1>1. n \in Names BY DEF TypeOK
<1>2. workbook' = [workbook EXCEPT ![n] = [workbook[n] EXCEPT !.header = TRUE]]
  OBVIOUS
<1>3. workbook \in [Names -> [owner : Scans \cup {History, Nobody}, header : BOOLEAN,
                              cells : [Rows -> Rows \cup {NoCell}]]]
  BY DEF TypeOK
<1> HIDE DEF n
<1>4. \A m \in Names : workbook'[m].owner = workbook[m].owner /\ workbook'[m].cells = workbook[m].cells
  BY <1>1, <1>2, <1>3
<1>5. WorkbookType'
  BY <1>1, <1>2, <1>3 DEF WorkbookType
<1> QED BY <1>4, <1>5 DEF OwnersKept, CellsKept

\* A run of rows changes nothing but the cells of these rows, in the worksheet
\* the task owns.
LEMMA WritingKeeps ==
    ASSUME TypeOK, NEW s \in Scans, sheet[s] # 0, RunWritten(s)
    PROVE  /\ WorkbookType' /\ OwnersKept
           /\ \A n \in Names : n # sheet[s] => workbook'[n] = workbook[n]
           /\ \A r \in Rows : workbook'[sheet[s]].cells[r] =
                                IF r \in Run(s) THEN rows[s][r] ELSE workbook[sheet[s]].cells[r]
<1> DEFINE n == sheet[s]
           new == [r \in Rows |-> IF r \in Run(s) THEN rows[s][r] ELSE workbook[n].cells[r]]
<1>1. n \in Names BY DEF TypeOK
<1>2. workbook' = [workbook EXCEPT ![n] = [workbook[n] EXCEPT !.cells = new]]
  BY DEF RunWritten
<1>3. WorkbookType BY DEF TypeOK, WorkbookType
<1>4. \A r \in Run(s) : r \in 1 .. Len(rows[s]) /\ rows[s][r] \in Rows
  <2>1. Run(s) \subseteq 1 .. Len(rows[s]) BY RunIsOfBatch DEF TypeOK, RowRanges
  <2>2. rows[s] \in Seq(Rows) BY DEF TypeOK
  <2> QED BY <2>1, <2>2
<1>5. new \in [Rows -> Rows \cup {NoCell}]
  <2>1. workbook[n].cells \in [Rows -> Rows \cup {NoCell}] BY <1>1, <1>3 DEF WorkbookType
  <2> QED BY <1>4, <2>1
<1>6. \A r \in Rows : new[r] = IF r \in Run(s) THEN rows[s][r] ELSE workbook[n].cells[r]
  OBVIOUS
<1> HIDE DEF new
<1>7. WorkbookType' /\ OwnersKept /\ workbook'[n].cells = new
      /\ \A m \in Names : m # n => workbook'[m] = workbook[m]
  <2> HIDE DEF n
  <2> QED BY <1>1, <1>2, <1>3, <1>5 DEF WorkbookType, OwnersKept
<1> QED BY <1>6, <1>7

\* Nor does a step that leaves the workbook alone.
LEMMA UnchangedKeeps == ASSUME TypeOK, UNCHANGED workbook
                        PROVE  WorkbookType' /\ OwnersKept /\ CellsKept
BY DEF TypeOK, WorkbookType, OwnersKept, CellsKept

\* What is written stays written while the cells are kept.
LEMMA CellsKeptWritten ==
    ASSUME TypeOK, CellsKept, NEW s \in Scans, NEW r \in Nat \ {0}, Written(s, r),
           sheet'[s] = sheet[s], rows'[s] = rows[s]
    PROVE  Written(s, r)'
BY DEF TypeOK, CellsKept, Written

-----------------------------------------------------------------------------
(* The steps.                                                              *)

\* At the start of the scans nothing is queued and nothing owned.
LEMMA InitEstablishes == Init => SyncInv
<1> SUFFICES ASSUME Init PROVE SyncInv OBVIOUS
<1>1. RowRanges
  BY BoundAssumption DEF Init, RowRanges
<1>2. Worksheet(History) \in [owner : Scans \cup {History, Nobody}, header : BOOLEAN,
                              cells : [Rows -> Rows \cup {NoCell}]]
      /\ Worksheet(Nobody) \in [owner : Scans \cup {History, Nobody}, header : BOOLEAN,
                              cells : [Rows -> Rows \cup {NoCell}]]
  BY DEF Worksheet
<1>3. TypeOK
  BY <1>1, <1>2, BoundAssumption, LimitAssumption DEF Init, TypeOK, TaskStep, Creating, Names
<1> QED BY <1>3 DEF Init, SyncInv, WritesToOwnSheet, SheetWhileFlushing, CleanRowsAreWritten, DoneLeavesClean, Creating


\* A step of s keeps the worksheets apart if what it claims for s is its own.
LEMMA OwnSheetStep ==
    ASSUME SyncInv, OwnersKept, NEW s \in Scans,
           \A z \in Scans \ {s} : task'[z] = task[z] /\ attempt'[z] = attempt[z] /\ sheet'[z] = sheet[z],
           sheet'[s] # sheet[s] => workbook'[sheet'[s]].owner = s,
           task'[s] = "header" => workbook'[attempt'[s]].owner = s
    PROVE  WritesToOwnSheet'
<1>0. \A z \in Scans : z # Nobody /\ attempt[z] \in Names /\ (sheet[z] # 0 => sheet[z] \in Names)
  BY OwnerAssumption DEF SyncInv, TypeOK
<1>1. \A z \in Scans : sheet[z] # 0 => workbook'[sheet[z]].owner = z
  BY <1>0 DEF SyncInv, WritesToOwnSheet, OwnersKept
<1>2. \A z \in Scans : task[z] = "header" => workbook'[attempt[z]].owner = z
  BY <1>0 DEF SyncInv, WritesToOwnSheet, OwnersKept
<1> QED BY <1>1, <1>2 DEF WritesToOwnSheet

\* A step that keeps cells, rows and dirty cannot make a clean row unwritten.
LEMMA CleanStep ==
    ASSUME SyncInv, CellsKept, UNCHANGED <<rows, dirty>>,
           \A z \in Scans : sheet'[z] = sheet[z] \/ sheet[z] = 0
    PROVE  CleanRowsAreWritten'
<1> SUFFICES ASSUME NEW z \in Scans, NEW r \in 1 .. Len(rows[z]), r \notin dirty[z]
             PROVE  Written(z, r)'
  BY DEF CleanRowsAreWritten
<1>1. Written(z, r) BY DEF SyncInv, CleanRowsAreWritten
<1>2. sheet'[z] = sheet[z] BY <1>1 DEF Written
<1>3. r \in Nat \ {0} BY DEF SyncInv, TypeOK
<1> QED BY <1>1, <1>2, <1>3, CellsKeptWritten DEF SyncInv

\* The same for a step of s that may write rows: they are in its own worksheet.
LEMMA WriteStep ==
    ASSUME SyncInv, NEW s \in Scans, sheet[s] # 0, RunWritten(s), UNCHANGED <<rows, sheet>>,
           dirty' = dirty \/ dirty' = [dirty EXCEPT ![s] = @ \ Run(s)]
    PROVE  CleanRowsAreWritten'
<1> SUFFICES ASSUME NEW z \in Scans, NEW r \in 1 .. Len(rows[z]), r \notin dirty'[z]
             PROVE  Written(z, r)'
  BY DEF CleanRowsAreWritten
<1>1. TypeOK BY DEF SyncInv
<1>2. r \in Rows
  <2>1. Len(rows[z]) \in Nat /\ Len(rows[z]) <= MaxRows[z] /\ MaxRows[z] \in Nat
    BY <1>1, BoundAssumption DEF TypeOK, RowRanges
  <2>2. r \in 1 .. MaxRows[z] BY <2>1
  <2> QED BY <2>2, RowsAreNumbers
<1>3. CASE z = s
  <2>1. CASE r \in Run(s)
    BY <1>1, <1>2, <1>3, <2>1, WritingKeeps DEF Written
  <2>2. CASE r \notin Run(s)
    <3>1. r \notin dirty[s] BY <1>1, <1>3, <2>2 DEF TypeOK
    <3>2. Written(s, r) BY <1>2, <1>3, <3>1 DEF SyncInv, CleanRowsAreWritten
    <3> QED BY <1>1, <1>2, <1>3, <2>2, <3>2, WritingKeeps DEF Written
  <2> QED BY <2>1, <2>2
<1>4. CASE z # s
  <2>1. r \notin dirty[z] BY <1>1, <1>4 DEF TypeOK
  <2>2. Written(z, r) BY <1>2, <2>1 DEF SyncInv, CleanRowsAreWritten
  <2>3. sheet[z] # 0 /\ sheet[z] \in Names BY <1>1, <2>2 DEF Written, TypeOK
  <2>4. sheet[z] # sheet[s]
    BY <1>4, <2>3 DEF SyncInv, WritesToOwnSheet
  <2>5. workbook'[sheet[z]] = workbook[sheet[z]] BY <1>1, <2>3, <2>4, WritingKeeps
  <2> QED BY <2>2, <2>5 DEF Written
<1> QED BY <1>3, <1>4


\* New rows are dirty, and no row that had its number before changes.
LEMMA EnqueuePreserves ==
    ASSUME SyncInv, NEW s \in Scans, NEW n \in 1 .. MaxRows[s], Enqueue(s, n) PROVE SyncInv'
<1>0. WorkbookType' /\ OwnersKept /\ CellsKept
  BY UnchangedKeeps DEF SyncInv, Enqueue
<1>1. TypeOK'
  <2>1. RowRanges'
    <3> SUFFICES ASSUME NEW z \in Scans
                 PROVE  /\ Len(rows'[z]) <= MaxRows[z] /\ promised'[z] <= Len(rows'[z])
                        /\ dirty'[z] \subseteq 1 .. Len(rows'[z])
                        /\ batch'[z] \subseteq dirty'[z]
                        /\ batch'[z] # {} <=> task'[z] = "writing"
                        /\ failures'[z] + faultsLeft' <= Faults
      BY DEF RowRanges
    <3>1. CASE z = s
      BY <3>1, BoundAssumption DEF SyncInv, TypeOK, RowRanges, Enqueue
    <3>2. CASE z # s
      BY <3>2, BoundAssumption DEF SyncInv, TypeOK, RowRanges, Enqueue
    <3> QED BY <3>1, <3>2
  <2>2. task' \in [Scans -> TaskStep] /\ sheet' \in [Scans -> Names \cup {0}]
    BY DEF SyncInv, TypeOK, TaskStep, Creating, Enqueue
  <2>3. attempt' \in [Scans -> Names]
    BY LimitAssumption DEF SyncInv, TypeOK, Names, Enqueue
  <2>4. rows' \in [Scans -> Seq(Rows)] /\ dirty' \in [Scans -> SUBSET Rows] /\ batch' \in [Scans -> SUBSET Rows]
    <3> DEFINE new == [i \in 1 .. n |-> Len(rows[s]) + i]
    <3>1. Len(rows[s]) \in Nat /\ n \in Nat /\ rows[s] \in Seq(Rows)
      BY BoundAssumption DEF SyncInv, TypeOK
    <3>2. \A i \in 1 .. n : Len(rows[s]) + i \in 1 .. MaxRows[s]
      BY <3>1, BoundAssumption DEF Enqueue
    <3>3. new \in Seq(Rows)
      <4>1. new \in [1 .. n -> Rows] BY <3>2, RowsAreNumbers
      <4> QED BY <3>1, <4>1, SeqDef
    <3>4. Len(rows[s]) + 1 .. Len(rows[s]) + n \subseteq Rows
      <4>1. Len(rows[s]) + 1 .. Len(rows[s]) + n \subseteq 1 .. MaxRows[s]
        BY <3>1, BoundAssumption DEF Enqueue
      <4> QED BY <4>1, RowsAreNumbers
    <3>5. rows' = [rows EXCEPT ![s] = @ \o new] BY DEF Enqueue
    <3> HIDE DEF new
    <3>6. rows[s] \o new \in Seq(Rows) BY <3>1, <3>3
    <3>7. rows' \in [Scans -> Seq(Rows)] BY <3>5, <3>6 DEF SyncInv, TypeOK
    <3> QED BY <3>4, <3>7 DEF SyncInv, TypeOK, Enqueue
  <2>5. /\ closing' \in [Scans -> BOOLEAN] /\ promised' \in [Scans -> Nat]
        /\ failures' \in [Scans -> Nat] /\ faultsLeft' \in Nat
    BY DEF SyncInv, TypeOK, Enqueue
  <2> QED BY <1>0, <2>1, <2>2, <2>3, <2>4, <2>5 DEF TypeOK, WorkbookType
<1>2. WritesToOwnSheet'
  BY <1>0, OwnSheetStep DEF SyncInv, TypeOK, WritesToOwnSheet, Enqueue
<1>3. SheetWhileFlushing'
  BY DEF SyncInv, TypeOK, SheetWhileFlushing, TaskStep, Creating, Names, Enqueue
<1>4. CleanRowsAreWritten'
  <2> SUFFICES ASSUME NEW z \in Scans, NEW r \in 1 .. Len(rows'[z]), r \notin dirty'[z]
               PROVE  Written(z, r)'
    BY DEF CleanRowsAreWritten
  <2>1. r \in 1 .. Len(rows[z]) /\ r \notin dirty[z] /\ rows'[z][r] = rows[z][r]
    BY DEF SyncInv, TypeOK, RowRanges, Enqueue
  <2>2. Written(z, r) BY <2>1 DEF SyncInv, CleanRowsAreWritten
  <2> QED BY <1>1, <2>1, <2>2 DEF Written, Enqueue
<1>5. DoneLeavesClean'
  BY DEF SyncInv, TypeOK, RowRanges, DoneLeavesClean, Enqueue
<1> QED BY <1>1, <1>2, <1>3, <1>4, <1>5 DEF SyncInv

\* finish() promises the rows that are queued.
LEMMA FinishPreserves ==
    ASSUME SyncInv, NEW s \in Scans, Finish(s) PROVE SyncInv'
<1>0. WorkbookType' /\ OwnersKept /\ CellsKept
  BY UnchangedKeeps DEF SyncInv, Finish
<1>1. TypeOK'
  <2>1. RowRanges'
    <3> SUFFICES ASSUME NEW z \in Scans
                 PROVE  /\ Len(rows'[z]) <= MaxRows[z] /\ promised'[z] <= Len(rows'[z])
                        /\ dirty'[z] \subseteq 1 .. Len(rows'[z])
                        /\ batch'[z] \subseteq dirty'[z]
                        /\ batch'[z] # {} <=> task'[z] = "writing"
                        /\ failures'[z] + faultsLeft' <= Faults
      BY DEF RowRanges
    <3>1. CASE z = s
      BY <3>1, BoundAssumption DEF SyncInv, TypeOK, RowRanges, Finish
    <3>2. CASE z # s
      BY <3>2, BoundAssumption DEF SyncInv, TypeOK, RowRanges, Finish
    <3> QED BY <3>1, <3>2
  <2>2. task' \in [Scans -> TaskStep] /\ sheet' \in [Scans -> Names \cup {0}]
    BY DEF SyncInv, TypeOK, TaskStep, Creating, Finish
  <2>3. attempt' \in [Scans -> Names]
    BY LimitAssumption DEF SyncInv, TypeOK, Names, Finish
  <2>4. rows' \in [Scans -> Seq(Rows)] /\ dirty' \in [Scans -> SUBSET Rows] /\ batch' \in [Scans -> SUBSET Rows]
    BY DEF SyncInv, TypeOK, Finish
  <2>5. /\ closing' \in [Scans -> BOOLEAN] /\ promised' \in [Scans -> Nat]
        /\ failures' \in [Scans -> Nat] /\ faultsLeft' \in Nat
    BY DEF SyncInv, TypeOK, Finish
  <2> QED BY <1>0, <2>1, <2>2, <2>3, <2>4, <2>5 DEF TypeOK, WorkbookType
<1>2. WritesToOwnSheet'
  BY <1>0, OwnSheetStep DEF SyncInv, TypeOK, WritesToOwnSheet, Finish
<1>3. SheetWhileFlushing'
  BY DEF SyncInv, TypeOK, SheetWhileFlushing, TaskStep, Creating, Names, Finish
<1>4. CleanRowsAreWritten'
  BY <1>0, CleanStep DEF SyncInv, TypeOK, SheetWhileFlushing, Creating, Finish
<1>5. DoneLeavesClean'
  BY DEF SyncInv, TypeOK, RowRanges, DoneLeavesClean, Finish
<1> QED BY <1>1, <1>2, <1>3, <1>4, <1>5 DEF SyncInv

\* The lookup only moves the task.
LEMMA LookupAnsweredPreserves ==
    ASSUME SyncInv, NEW s \in Scans, LookupAnswered(s) PROVE SyncInv'
<1>0. WorkbookType' /\ OwnersKept /\ CellsKept
  BY UnchangedKeeps DEF SyncInv, LookupAnswered
<1>1. TypeOK'
  <2>1. RowRanges'
    <3> SUFFICES ASSUME NEW z \in Scans
                 PROVE  /\ Len(rows'[z]) <= MaxRows[z] /\ promised'[z] <= Len(rows'[z])
                        /\ dirty'[z] \subseteq 1 .. Len(rows'[z])
                        /\ batch'[z] \subseteq dirty'[z]
                        /\ batch'[z] # {} <=> task'[z] = "writing"
                        /\ failures'[z] + faultsLeft' <= Faults
      BY DEF RowRanges
    <3>1. CASE z = s
      BY <3>1, BoundAssumption DEF SyncInv, TypeOK, RowRanges, LookupAnswered, NameTaken, CreateAgain
    <3>2. CASE z # s
      BY <3>2, BoundAssumption DEF SyncInv, TypeOK, RowRanges, LookupAnswered, NameTaken, CreateAgain
    <3> QED BY <3>1, <3>2
  <2>2. task' \in [Scans -> TaskStep] /\ sheet' \in [Scans -> Names \cup {0}]
    BY DEF SyncInv, TypeOK, TaskStep, Creating, LookupAnswered, NameTaken, CreateAgain
  <2>3. attempt' \in [Scans -> Names]
    <3>1. attempt[s] \in Names /\ (attempt[s] < MaxNames => attempt[s] + 1 \in Names)
      BY LimitAssumption DEF SyncInv, TypeOK, Names
    <3>2. attempt' = attempt \/ (attempt[s] < MaxNames /\ attempt' = [attempt EXCEPT ![s] = attempt[s] + 1])
      BY DEF LookupAnswered, NameTaken, CreateAgain
    <3> QED BY <3>1, <3>2 DEF SyncInv, TypeOK
  <2>4. rows' \in [Scans -> Seq(Rows)] /\ dirty' \in [Scans -> SUBSET Rows] /\ batch' \in [Scans -> SUBSET Rows]
    BY DEF SyncInv, TypeOK, LookupAnswered, NameTaken, CreateAgain
  <2>5. /\ closing' \in [Scans -> BOOLEAN] /\ promised' \in [Scans -> Nat]
        /\ failures' \in [Scans -> Nat] /\ faultsLeft' \in Nat
    BY DEF SyncInv, TypeOK, LookupAnswered, NameTaken, CreateAgain
  <2> QED BY <1>0, <2>1, <2>2, <2>3, <2>4, <2>5 DEF TypeOK, WorkbookType
<1>2. WritesToOwnSheet'
  <2>1. /\ \A z \in Scans \ {s} : task'[z] = task[z] /\ attempt'[z] = attempt[z]
        /\ sheet' = sheet /\ task'[s] # "header"
    BY DEF SyncInv, TypeOK, LookupAnswered, NameTaken, CreateAgain
  <2> QED BY <1>0, <2>1, OwnSheetStep
<1>3. SheetWhileFlushing'
  BY DEF SyncInv, TypeOK, SheetWhileFlushing, TaskStep, Creating, Names, LookupAnswered, NameTaken, CreateAgain
<1>4. CleanRowsAreWritten'
  BY <1>0, CleanStep DEF SyncInv, TypeOK, SheetWhileFlushing, Creating, LookupAnswered, NameTaken, CreateAgain
<1>5. DoneLeavesClean'
  BY DEF SyncInv, TypeOK, RowRanges, DoneLeavesClean, LookupAnswered, NameTaken, CreateAgain
<1> QED BY <1>1, <1>2, <1>3, <1>4, <1>5 DEF SyncInv

\* So does a lookup without a clear answer.
LEMMA LookupUnclearPreserves ==
    ASSUME SyncInv, NEW s \in Scans, LookupUnclear(s) PROVE SyncInv'
<1>0. WorkbookType' /\ OwnersKept /\ CellsKept
  BY UnchangedKeeps DEF SyncInv, LookupUnclear
<1>1. TypeOK'
  <2>1. RowRanges'
    <3> SUFFICES ASSUME NEW z \in Scans
                 PROVE  /\ Len(rows'[z]) <= MaxRows[z] /\ promised'[z] <= Len(rows'[z])
                        /\ dirty'[z] \subseteq 1 .. Len(rows'[z])
                        /\ batch'[z] \subseteq dirty'[z]
                        /\ batch'[z] # {} <=> task'[z] = "writing"
                        /\ failures'[z] + faultsLeft' <= Faults
      BY DEF RowRanges
    <3>1. CASE z = s
      <4>1. batch' = batch /\ (batch'[z] # {} <=> task'[z] = "writing")
        BY <3>1 DEF SyncInv, TypeOK, RowRanges, Creating, LookupUnclear
      <4>2. failures'[z] + faultsLeft' <= Faults
        BY <3>1, BoundAssumption DEF SyncInv, TypeOK, RowRanges, LookupUnclear
      <4> QED BY <3>1, <4>1, <4>2 DEF SyncInv, TypeOK, RowRanges, LookupUnclear
    <3>2. CASE z # s
      BY <3>2, BoundAssumption DEF SyncInv, TypeOK, RowRanges, LookupUnclear
    <3> QED BY <3>1, <3>2
  <2>2. task' \in [Scans -> TaskStep] /\ sheet' \in [Scans -> Names \cup {0}]
    BY DEF SyncInv, TypeOK, TaskStep, Creating, LookupUnclear
  <2>3. attempt' \in [Scans -> Names]
    BY LimitAssumption DEF SyncInv, TypeOK, Names, LookupUnclear
  <2>4. rows' \in [Scans -> Seq(Rows)] /\ dirty' \in [Scans -> SUBSET Rows] /\ batch' \in [Scans -> SUBSET Rows]
    BY DEF SyncInv, TypeOK, LookupUnclear
  <2>5. /\ closing' \in [Scans -> BOOLEAN] /\ promised' \in [Scans -> Nat]
        /\ failures' \in [Scans -> Nat] /\ faultsLeft' \in Nat
    BY DEF SyncInv, TypeOK, LookupUnclear
  <2> QED BY <1>0, <2>1, <2>2, <2>3, <2>4, <2>5 DEF TypeOK, WorkbookType
<1>2. WritesToOwnSheet'
  <2>1. /\ \A z \in Scans \ {s} : task'[z] = task[z] /\ attempt'[z] = attempt[z]
        /\ sheet' = sheet /\ task'[s] # "header"
    BY DEF SyncInv, TypeOK, LookupUnclear
  <2> QED BY <1>0, <2>1, OwnSheetStep
<1>3. SheetWhileFlushing'
  BY DEF SyncInv, TypeOK, SheetWhileFlushing, TaskStep, Creating, Names, LookupUnclear
<1>4. CleanRowsAreWritten'
  BY <1>0, CleanStep DEF SyncInv, TypeOK, SheetWhileFlushing, Creating, LookupUnclear
<1>5. DoneLeavesClean'
  BY DEF SyncInv, TypeOK, RowRanges, DoneLeavesClean, LookupUnclear
<1> QED BY <1>1, <1>2, <1>3, <1>4, <1>5 DEF SyncInv

\* The task goes on to the header only under a name it has just taken.
LEMMA AddAnsweredPreserves ==
    ASSUME SyncInv, NEW s \in Scans, AddAnswered(s) PROVE SyncInv'
<1>0. WorkbookType' /\ OwnersKept /\ CellsKept
  BY AddingKeeps, UnchangedKeeps DEF SyncInv, AddAnswered
<1>1. TypeOK'
  <2>1. RowRanges'
    <3> SUFFICES ASSUME NEW z \in Scans
                 PROVE  /\ Len(rows'[z]) <= MaxRows[z] /\ promised'[z] <= Len(rows'[z])
                        /\ dirty'[z] \subseteq 1 .. Len(rows'[z])
                        /\ batch'[z] \subseteq dirty'[z]
                        /\ batch'[z] # {} <=> task'[z] = "writing"
                        /\ failures'[z] + faultsLeft' <= Faults
      BY DEF RowRanges
    <3>1. CASE z = s
      BY <3>1, BoundAssumption DEF SyncInv, TypeOK, RowRanges, AddAnswered, NameTaken, CreateAgain
    <3>2. CASE z # s
      BY <3>2, BoundAssumption DEF SyncInv, TypeOK, RowRanges, AddAnswered, NameTaken, CreateAgain
    <3> QED BY <3>1, <3>2
  <2>2. task' \in [Scans -> TaskStep] /\ sheet' \in [Scans -> Names \cup {0}]
    BY DEF SyncInv, TypeOK, TaskStep, Creating, AddAnswered, NameTaken, CreateAgain
  <2>3. attempt' \in [Scans -> Names]
    <3>1. attempt[s] \in Names /\ (attempt[s] < MaxNames => attempt[s] + 1 \in Names)
      BY LimitAssumption DEF SyncInv, TypeOK, Names
    <3>2. attempt' = attempt \/ (attempt[s] < MaxNames /\ attempt' = [attempt EXCEPT ![s] = attempt[s] + 1])
      BY DEF AddAnswered, NameTaken, CreateAgain
    <3> QED BY <3>1, <3>2 DEF SyncInv, TypeOK
  <2>4. rows' \in [Scans -> Seq(Rows)] /\ dirty' \in [Scans -> SUBSET Rows] /\ batch' \in [Scans -> SUBSET Rows]
    BY DEF SyncInv, TypeOK, AddAnswered, NameTaken, CreateAgain
  <2>5. /\ closing' \in [Scans -> BOOLEAN] /\ promised' \in [Scans -> Nat]
        /\ failures' \in [Scans -> Nat] /\ faultsLeft' \in Nat
    BY DEF SyncInv, TypeOK, AddAnswered, NameTaken, CreateAgain
  <2> QED BY <1>0, <2>1, <2>2, <2>3, <2>4, <2>5 DEF TypeOK, WorkbookType
<1>2. WritesToOwnSheet'
  <2>1. /\ \A z \in Scans \ {s} : task'[z] = task[z] /\ attempt'[z] = attempt[z]
        /\ sheet' = sheet
    BY DEF SyncInv, TypeOK, AddAnswered, NameTaken, CreateAgain
  <2>2. CASE workbook[attempt[s]].owner = Nobody
    <3>1. SheetAdded(s) /\ attempt' = attempt
      BY <2>2 DEF AddAnswered
    <3>2. workbook'[attempt'[s]].owner = s
      BY <2>2, <3>1, AddingKeeps DEF SyncInv
    <3> QED BY <1>0, <2>1, <3>2, OwnSheetStep
  <2>3. CASE workbook[attempt[s]].owner # Nobody
    <3>1. task'[s] \in {"lookup", "gaveUp", "createBackoff"}
      BY <2>3 DEF SyncInv, TypeOK, AddAnswered, NameTaken, CreateAgain
    <3> QED BY <1>0, <2>1, <3>1, OwnSheetStep
  <2> QED BY <2>2, <2>3
<1>3. SheetWhileFlushing'
  BY DEF SyncInv, TypeOK, SheetWhileFlushing, TaskStep, Creating, Names, AddAnswered, NameTaken, CreateAgain
<1>4. CleanRowsAreWritten'
  BY <1>0, CleanStep DEF SyncInv, TypeOK, SheetWhileFlushing, Creating, AddAnswered, NameTaken, CreateAgain
<1>5. DoneLeavesClean'
  BY DEF SyncInv, TypeOK, RowRanges, DoneLeavesClean, AddAnswered, NameTaken, CreateAgain
<1> QED BY <1>1, <1>2, <1>3, <1>4, <1>5 DEF SyncInv

\* The worksheet that a repeated call has added is nobody else's, and is left.
LEMMA AddRepeatedPreserves ==
    ASSUME SyncInv, NEW s \in Scans, AddRepeated(s) PROVE SyncInv'
<1>0. WorkbookType' /\ OwnersKept /\ CellsKept
  BY AddingKeeps DEF SyncInv, AddRepeated
<1>1. TypeOK'
  <2>1. RowRanges'
    <3> SUFFICES ASSUME NEW z \in Scans
                 PROVE  /\ Len(rows'[z]) <= MaxRows[z] /\ promised'[z] <= Len(rows'[z])
                        /\ dirty'[z] \subseteq 1 .. Len(rows'[z])
                        /\ batch'[z] \subseteq dirty'[z]
                        /\ batch'[z] # {} <=> task'[z] = "writing"
                        /\ failures'[z] + faultsLeft' <= Faults
      BY DEF RowRanges
    <3>1. CASE z = s
      <4>1. batch' = batch /\ (batch'[z] # {} <=> task'[z] = "writing")
        BY <3>1 DEF SyncInv, TypeOK, RowRanges, Creating, AddRepeated, NameTaken, CreateAgain
      <4>2. failures'[z] + faultsLeft' <= Faults
        BY <3>1, BoundAssumption DEF SyncInv, TypeOK, RowRanges, AddRepeated
      <4> QED BY <3>1, <4>1, <4>2 DEF SyncInv, TypeOK, RowRanges, AddRepeated
    <3>2. CASE z # s
      BY <3>2, BoundAssumption DEF SyncInv, TypeOK, RowRanges, AddRepeated, NameTaken, CreateAgain
    <3> QED BY <3>1, <3>2
  <2>2. task' \in [Scans -> TaskStep] /\ sheet' \in [Scans -> Names \cup {0}]
    <3>1. "lookup" \in TaskStep /\ "gaveUp" \in TaskStep /\ "createBackoff" \in TaskStep
      BY DEF TaskStep, Creating
    <3> QED BY <3>1, ZenonT(30) DEF SyncInv, TypeOK, AddRepeated, NameTaken, CreateAgain
  <2>3. attempt' \in [Scans -> Names]
    <3>1. attempt[s] \in Names /\ (attempt[s] < MaxNames => attempt[s] + 1 \in Names)
      BY LimitAssumption DEF SyncInv, TypeOK, Names
    <3>2. attempt' = attempt \/ (attempt[s] < MaxNames /\ attempt' = [attempt EXCEPT ![s] = attempt[s] + 1])
      BY DEF AddRepeated, NameTaken, CreateAgain
    <3> QED BY <3>1, <3>2 DEF SyncInv, TypeOK
  <2>4. rows' \in [Scans -> Seq(Rows)] /\ dirty' \in [Scans -> SUBSET Rows] /\ batch' \in [Scans -> SUBSET Rows]
    BY DEF SyncInv, TypeOK, AddRepeated, NameTaken, CreateAgain
  <2>5. /\ closing' \in [Scans -> BOOLEAN] /\ promised' \in [Scans -> Nat]
        /\ failures' \in [Scans -> Nat] /\ faultsLeft' \in Nat
    BY DEF SyncInv, TypeOK, AddRepeated, NameTaken, CreateAgain
  <2> QED BY <1>0, <2>1, <2>2, <2>3, <2>4, <2>5 DEF TypeOK, WorkbookType
<1>2. WritesToOwnSheet'
  <2>1. /\ \A z \in Scans \ {s} : task'[z] = task[z] /\ attempt'[z] = attempt[z]
        /\ sheet' = sheet /\ task'[s] # "header"
    BY DEF SyncInv, TypeOK, AddRepeated, NameTaken, CreateAgain
  <2> QED BY <1>0, <2>1, OwnSheetStep
<1>3. SheetWhileFlushing'
  BY DEF SyncInv, TypeOK, SheetWhileFlushing, TaskStep, Creating, Names, AddRepeated, NameTaken, CreateAgain
<1>4. CleanRowsAreWritten'
  BY <1>0, CleanStep DEF SyncInv, TypeOK, SheetWhileFlushing, Creating, AddRepeated, NameTaken, CreateAgain
<1>5. DoneLeavesClean'
  BY DEF SyncInv, TypeOK, RowRanges, DoneLeavesClean, AddRepeated, NameTaken, CreateAgain
<1> QED BY <1>1, <1>2, <1>3, <1>4, <1>5 DEF SyncInv

\* A failed creation may have added a worksheet or its header, and no cell.
LEMMA CreateFailsPreserves ==
    ASSUME SyncInv, NEW s \in Scans, CreateFails(s) PROVE SyncInv'
<1>0. WorkbookType' /\ OwnersKept /\ CellsKept
  BY AddingKeeps, HeaderKeeps, UnchangedKeeps DEF SyncInv, CreateFails
<1>1. TypeOK'
  <2>1. RowRanges'
    <3> SUFFICES ASSUME NEW z \in Scans
                 PROVE  /\ Len(rows'[z]) <= MaxRows[z] /\ promised'[z] <= Len(rows'[z])
                        /\ dirty'[z] \subseteq 1 .. Len(rows'[z])
                        /\ batch'[z] \subseteq dirty'[z]
                        /\ batch'[z] # {} <=> task'[z] = "writing"
                        /\ failures'[z] + faultsLeft' <= Faults
      BY DEF RowRanges
    <3>1. CASE z = s
      <4>1. batch' = batch /\ (batch'[z] # {} <=> task'[z] = "writing")
        BY <3>1 DEF SyncInv, TypeOK, RowRanges, Creating, CreateFails, CreateAgain
      <4>2. failures'[z] + faultsLeft' <= Faults
        BY <3>1, BoundAssumption DEF SyncInv, TypeOK, RowRanges, CreateFails
      <4> QED BY <3>1, <4>1, <4>2 DEF SyncInv, TypeOK, RowRanges, CreateFails
    <3>2. CASE z # s
      BY <3>2, BoundAssumption DEF SyncInv, TypeOK, RowRanges, CreateFails, CreateAgain
    <3> QED BY <3>1, <3>2
  <2>2. task' \in [Scans -> TaskStep] /\ sheet' \in [Scans -> Names \cup {0}]
    BY DEF SyncInv, TypeOK, TaskStep, Creating, CreateFails, CreateAgain
  <2>3. attempt' \in [Scans -> Names]
    BY LimitAssumption DEF SyncInv, TypeOK, Names, CreateFails, CreateAgain
  <2>4. rows' \in [Scans -> Seq(Rows)] /\ dirty' \in [Scans -> SUBSET Rows] /\ batch' \in [Scans -> SUBSET Rows]
    BY DEF SyncInv, TypeOK, CreateFails, CreateAgain
  <2>5. /\ closing' \in [Scans -> BOOLEAN] /\ promised' \in [Scans -> Nat]
        /\ failures' \in [Scans -> Nat] /\ faultsLeft' \in Nat
    BY DEF SyncInv, TypeOK, CreateFails, CreateAgain
  <2> QED BY <1>0, <2>1, <2>2, <2>3, <2>4, <2>5 DEF TypeOK, WorkbookType
<1>2. WritesToOwnSheet'
  <2>1. /\ \A z \in Scans \ {s} : task'[z] = task[z] /\ attempt'[z] = attempt[z]
        /\ sheet' = sheet /\ task'[s] # "header"
    BY DEF SyncInv, TypeOK, CreateFails, CreateAgain
  <2> QED BY <1>0, <2>1, OwnSheetStep
<1>3. SheetWhileFlushing'
  BY DEF SyncInv, TypeOK, SheetWhileFlushing, TaskStep, Creating, Names, CreateFails, CreateAgain
<1>4. CleanRowsAreWritten'
  BY <1>0, CleanStep DEF SyncInv, TypeOK, SheetWhileFlushing, Creating, CreateFails, CreateAgain
<1>5. DoneLeavesClean'
  BY DEF SyncInv, TypeOK, RowRanges, DoneLeavesClean, CreateFails, CreateAgain
<1> QED BY <1>1, <1>2, <1>3, <1>4, <1>5 DEF SyncInv

\* The names are tried from the first one again.
LEMMA CreateRetriesPreserves ==
    ASSUME SyncInv, NEW s \in Scans, CreateRetries(s) PROVE SyncInv'
<1>0. WorkbookType' /\ OwnersKept /\ CellsKept
  BY UnchangedKeeps DEF SyncInv, CreateRetries
<1>1. TypeOK'
  <2>1. RowRanges'
    <3> SUFFICES ASSUME NEW z \in Scans
                 PROVE  /\ Len(rows'[z]) <= MaxRows[z] /\ promised'[z] <= Len(rows'[z])
                        /\ dirty'[z] \subseteq 1 .. Len(rows'[z])
                        /\ batch'[z] \subseteq dirty'[z]
                        /\ batch'[z] # {} <=> task'[z] = "writing"
                        /\ failures'[z] + faultsLeft' <= Faults
      BY DEF RowRanges
    <3>1. CASE z = s
      BY <3>1, BoundAssumption DEF SyncInv, TypeOK, RowRanges, CreateRetries
    <3>2. CASE z # s
      BY <3>2, BoundAssumption DEF SyncInv, TypeOK, RowRanges, CreateRetries
    <3> QED BY <3>1, <3>2
  <2>2. task' \in [Scans -> TaskStep] /\ sheet' \in [Scans -> Names \cup {0}]
    BY DEF SyncInv, TypeOK, TaskStep, Creating, CreateRetries
  <2>3. attempt' \in [Scans -> Names]
    BY LimitAssumption DEF SyncInv, TypeOK, Names, CreateRetries
  <2>4. rows' \in [Scans -> Seq(Rows)] /\ dirty' \in [Scans -> SUBSET Rows] /\ batch' \in [Scans -> SUBSET Rows]
    BY DEF SyncInv, TypeOK, CreateRetries
  <2>5. /\ closing' \in [Scans -> BOOLEAN] /\ promised' \in [Scans -> Nat]
        /\ failures' \in [Scans -> Nat] /\ faultsLeft' \in Nat
    BY DEF SyncInv, TypeOK, CreateRetries
  <2> QED BY <1>0, <2>1, <2>2, <2>3, <2>4, <2>5 DEF TypeOK, WorkbookType
<1>2. WritesToOwnSheet'
  BY <1>0, OwnSheetStep DEF SyncInv, TypeOK, WritesToOwnSheet, CreateRetries
<1>3. SheetWhileFlushing'
  BY DEF SyncInv, TypeOK, SheetWhileFlushing, TaskStep, Creating, Names, CreateRetries
<1>4. CleanRowsAreWritten'
  BY <1>0, CleanStep DEF SyncInv, TypeOK, SheetWhileFlushing, Creating, CreateRetries
<1>5. DoneLeavesClean'
  BY DEF SyncInv, TypeOK, RowRanges, DoneLeavesClean, CreateRetries
<1> QED BY <1>1, <1>2, <1>3, <1>4, <1>5 DEF SyncInv

\* The worksheet becomes the scan's: all its rows are dirty until now.
LEMMA HeaderAnsweredPreserves ==
    ASSUME SyncInv, NEW s \in Scans, HeaderAnswered(s) PROVE SyncInv'
<1>0. WorkbookType' /\ OwnersKept /\ CellsKept
  BY HeaderKeeps DEF SyncInv, HeaderAnswered
<1>1. TypeOK'
  <2>1. RowRanges'
    <3> SUFFICES ASSUME NEW z \in Scans
                 PROVE  /\ Len(rows'[z]) <= MaxRows[z] /\ promised'[z] <= Len(rows'[z])
                        /\ dirty'[z] \subseteq 1 .. Len(rows'[z])
                        /\ batch'[z] \subseteq dirty'[z]
                        /\ batch'[z] # {} <=> task'[z] = "writing"
                        /\ failures'[z] + faultsLeft' <= Faults
      BY DEF RowRanges
    <3>1. CASE z = s
      BY <3>1, BoundAssumption DEF SyncInv, TypeOK, RowRanges, HeaderAnswered, LoopTop
    <3>2. CASE z # s
      BY <3>2, BoundAssumption DEF SyncInv, TypeOK, RowRanges, HeaderAnswered, LoopTop
    <3> QED BY <3>1, <3>2
  <2>2. task' \in [Scans -> TaskStep] /\ sheet' \in [Scans -> Names \cup {0}]
    BY DEF SyncInv, TypeOK, TaskStep, Creating, HeaderAnswered, LoopTop
  <2>3. attempt' \in [Scans -> Names]
    BY LimitAssumption DEF SyncInv, TypeOK, Names, HeaderAnswered, LoopTop
  <2>4. rows' \in [Scans -> Seq(Rows)] /\ dirty' \in [Scans -> SUBSET Rows] /\ batch' \in [Scans -> SUBSET Rows]
    BY DEF SyncInv, TypeOK, HeaderAnswered, LoopTop
  <2>5. /\ closing' \in [Scans -> BOOLEAN] /\ promised' \in [Scans -> Nat]
        /\ failures' \in [Scans -> Nat] /\ faultsLeft' \in Nat
    BY DEF SyncInv, TypeOK, HeaderAnswered, LoopTop
  <2> QED BY <1>0, <2>1, <2>2, <2>3, <2>4, <2>5 DEF TypeOK, WorkbookType
<1>2. WritesToOwnSheet'
  BY <1>0, HeaderKeeps, OwnSheetStep DEF SyncInv, TypeOK, WritesToOwnSheet, HeaderAnswered, LoopTop
<1>3. SheetWhileFlushing'
  BY DEF SyncInv, TypeOK, SheetWhileFlushing, TaskStep, Creating, Names, HeaderAnswered, LoopTop
<1>4. CleanRowsAreWritten'
  BY <1>0, CleanStep DEF SyncInv, TypeOK, SheetWhileFlushing, Creating, HeaderAnswered, LoopTop
<1>5. DoneLeavesClean'
  BY DEF SyncInv, TypeOK, RowRanges, DoneLeavesClean, HeaderAnswered, LoopTop
<1> QED BY <1>1, <1>2, <1>3, <1>4, <1>5 DEF SyncInv

\* A woken task returns only when nothing is dirty.
LEMMA IdleEndsPreserves ==
    ASSUME SyncInv, NEW s \in Scans, IdleEnds(s) PROVE SyncInv'
<1>0. WorkbookType' /\ OwnersKept /\ CellsKept
  BY UnchangedKeeps DEF SyncInv, IdleEnds
<1>1. TypeOK'
  <2>1. RowRanges'
    <3> SUFFICES ASSUME NEW z \in Scans
                 PROVE  /\ Len(rows'[z]) <= MaxRows[z] /\ promised'[z] <= Len(rows'[z])
                        /\ dirty'[z] \subseteq 1 .. Len(rows'[z])
                        /\ batch'[z] \subseteq dirty'[z]
                        /\ batch'[z] # {} <=> task'[z] = "writing"
                        /\ failures'[z] + faultsLeft' <= Faults
      BY DEF RowRanges
    <3>1. CASE z = s
      BY <3>1, BoundAssumption DEF SyncInv, TypeOK, RowRanges, IdleEnds, LoopTop
    <3>2. CASE z # s
      BY <3>2, BoundAssumption DEF SyncInv, TypeOK, RowRanges, IdleEnds, LoopTop
    <3> QED BY <3>1, <3>2
  <2>2. task' \in [Scans -> TaskStep] /\ sheet' \in [Scans -> Names \cup {0}]
    BY DEF SyncInv, TypeOK, TaskStep, Creating, IdleEnds, LoopTop
  <2>3. attempt' \in [Scans -> Names]
    BY LimitAssumption DEF SyncInv, TypeOK, Names, IdleEnds, LoopTop
  <2>4. rows' \in [Scans -> Seq(Rows)] /\ dirty' \in [Scans -> SUBSET Rows] /\ batch' \in [Scans -> SUBSET Rows]
    BY DEF SyncInv, TypeOK, IdleEnds, LoopTop
  <2>5. /\ closing' \in [Scans -> BOOLEAN] /\ promised' \in [Scans -> Nat]
        /\ failures' \in [Scans -> Nat] /\ faultsLeft' \in Nat
    BY DEF SyncInv, TypeOK, IdleEnds, LoopTop
  <2> QED BY <1>0, <2>1, <2>2, <2>3, <2>4, <2>5 DEF TypeOK, WorkbookType
<1>2. WritesToOwnSheet'
  BY <1>0, OwnSheetStep DEF SyncInv, TypeOK, WritesToOwnSheet, IdleEnds, LoopTop
<1>3. SheetWhileFlushing'
  BY DEF SyncInv, TypeOK, SheetWhileFlushing, TaskStep, Creating, Names, IdleEnds, LoopTop
<1>4. CleanRowsAreWritten'
  BY <1>0, CleanStep DEF SyncInv, TypeOK, SheetWhileFlushing, Creating, IdleEnds, LoopTop
<1>5. DoneLeavesClean'
  BY DEF SyncInv, TypeOK, RowRanges, DoneLeavesClean, IdleEnds, LoopTop
<1> QED BY <1>1, <1>2, <1>3, <1>4, <1>5 DEF SyncInv

\* So does a task that has slept.
LEMMA FlushBeginsPreserves ==
    ASSUME SyncInv, NEW s \in Scans, FlushBegins(s) PROVE SyncInv'
<1>0. WorkbookType' /\ OwnersKept /\ CellsKept
  BY UnchangedKeeps DEF SyncInv, FlushBegins
<1>1. TypeOK'
  <2>1. RowRanges'
    <3> SUFFICES ASSUME NEW z \in Scans
                 PROVE  /\ Len(rows'[z]) <= MaxRows[z] /\ promised'[z] <= Len(rows'[z])
                        /\ dirty'[z] \subseteq 1 .. Len(rows'[z])
                        /\ batch'[z] \subseteq dirty'[z]
                        /\ batch'[z] # {} <=> task'[z] = "writing"
                        /\ failures'[z] + faultsLeft' <= Faults
      BY DEF RowRanges
    <3>1. CASE z = s
      BY <3>1, BoundAssumption DEF SyncInv, TypeOK, RowRanges, FlushBegins, LoopTop
    <3>2. CASE z # s
      BY <3>2, BoundAssumption DEF SyncInv, TypeOK, RowRanges, FlushBegins, LoopTop
    <3> QED BY <3>1, <3>2
  <2>2. task' \in [Scans -> TaskStep] /\ sheet' \in [Scans -> Names \cup {0}]
    BY DEF SyncInv, TypeOK, TaskStep, Creating, FlushBegins, LoopTop
  <2>3. attempt' \in [Scans -> Names]
    BY LimitAssumption DEF SyncInv, TypeOK, Names, FlushBegins, LoopTop
  <2>4. rows' \in [Scans -> Seq(Rows)] /\ dirty' \in [Scans -> SUBSET Rows] /\ batch' \in [Scans -> SUBSET Rows]
    BY DEF SyncInv, TypeOK, FlushBegins, LoopTop
  <2>5. /\ closing' \in [Scans -> BOOLEAN] /\ promised' \in [Scans -> Nat]
        /\ failures' \in [Scans -> Nat] /\ faultsLeft' \in Nat
    BY DEF SyncInv, TypeOK, FlushBegins, LoopTop
  <2> QED BY <1>0, <2>1, <2>2, <2>3, <2>4, <2>5 DEF TypeOK, WorkbookType
<1>2. WritesToOwnSheet'
  BY <1>0, OwnSheetStep DEF SyncInv, TypeOK, WritesToOwnSheet, FlushBegins, LoopTop
<1>3. SheetWhileFlushing'
  BY DEF SyncInv, TypeOK, SheetWhileFlushing, TaskStep, Creating, Names, FlushBegins, LoopTop
<1>4. CleanRowsAreWritten'
  BY <1>0, CleanStep DEF SyncInv, TypeOK, SheetWhileFlushing, Creating, FlushBegins, LoopTop
<1>5. DoneLeavesClean'
  BY DEF SyncInv, TypeOK, RowRanges, DoneLeavesClean, FlushBegins, LoopTop
<1> QED BY <1>1, <1>2, <1>3, <1>4, <1>5 DEF SyncInv

\* The rows that become clean have just been written.
LEMMA WriteAnsweredPreserves ==
    ASSUME SyncInv, NEW s \in Scans, WriteAnswered(s) PROVE SyncInv'
<1>0. WorkbookType' /\ OwnersKept
  BY AddingKeeps, HeaderKeeps, UnchangedKeeps, WritingKeeps DEF SyncInv, SheetWhileFlushing, WriteAnswered
<1>1. TypeOK'
  <2>1. RowRanges'
    <3> SUFFICES ASSUME NEW z \in Scans
                 PROVE  /\ Len(rows'[z]) <= MaxRows[z] /\ promised'[z] <= Len(rows'[z])
                        /\ dirty'[z] \subseteq 1 .. Len(rows'[z])
                        /\ batch'[z] \subseteq dirty'[z]
                        /\ batch'[z] # {} <=> task'[z] = "writing"
                        /\ failures'[z] + faultsLeft' <= Faults
      BY DEF RowRanges
    <3>1. CASE z = s
      BY <3>1, BoundAssumption, RunIsOfBatch DEF SyncInv, TypeOK, RowRanges, WriteAnswered, LoopTop, RowsClean
    <3>2. CASE z # s
      BY <3>2, BoundAssumption DEF SyncInv, TypeOK, RowRanges, WriteAnswered, LoopTop, RowsClean
    <3> QED BY <3>1, <3>2
  <2>2. task' \in [Scans -> TaskStep] /\ sheet' \in [Scans -> Names \cup {0}]
    BY DEF SyncInv, TypeOK, TaskStep, Creating, WriteAnswered, LoopTop, RowsClean
  <2>3. attempt' \in [Scans -> Names]
    BY LimitAssumption DEF SyncInv, TypeOK, Names, WriteAnswered, LoopTop, RowsClean
  <2>4. rows' \in [Scans -> Seq(Rows)] /\ dirty' \in [Scans -> SUBSET Rows] /\ batch' \in [Scans -> SUBSET Rows]
    <3>1. dirty[s] \ Run(s) \in SUBSET Rows /\ batch[s] \ Run(s) \in SUBSET Rows
      BY DEF SyncInv, TypeOK
    <3>2. rows' = rows /\ dirty' = [dirty EXCEPT ![s] = dirty[s] \ Run(s)]
      BY DEF WriteAnswered, RowsClean
    <3>3. dirty'[s] = dirty[s] \ Run(s) BY <3>2 DEF SyncInv, TypeOK
    <3>4. batch' = [batch EXCEPT ![s] = batch[s] \ Run(s)] \/ batch' = [batch EXCEPT ![s] = dirty[s] \ Run(s)]
      BY <3>3 DEF WriteAnswered, LoopTop
    <3> QED BY <3>1, <3>2, <3>4 DEF SyncInv, TypeOK
  <2>5. /\ closing' \in [Scans -> BOOLEAN] /\ promised' \in [Scans -> Nat]
        /\ failures' \in [Scans -> Nat] /\ faultsLeft' \in Nat
    BY DEF SyncInv, TypeOK, WriteAnswered, LoopTop, RowsClean
  <2> QED BY <1>0, <2>1, <2>2, <2>3, <2>4, <2>5 DEF TypeOK, WorkbookType
<1>2. WritesToOwnSheet'
  BY <1>0, OwnSheetStep DEF SyncInv, TypeOK, WritesToOwnSheet, WriteAnswered, LoopTop, RowsClean
<1>3. SheetWhileFlushing'
  BY DEF SyncInv, TypeOK, SheetWhileFlushing, TaskStep, Creating, Names, WriteAnswered, LoopTop, RowsClean
<1>4. CleanRowsAreWritten'
  BY WriteStep DEF SyncInv, SheetWhileFlushing, WriteAnswered, RowsClean
<1>5. DoneLeavesClean'
  BY DEF SyncInv, TypeOK, RowRanges, DoneLeavesClean, WriteAnswered, LoopTop, RowsClean
<1> QED BY <1>1, <1>2, <1>3, <1>4, <1>5 DEF SyncInv

\* Rows of a failed request stay dirty, written or not.
LEMMA WriteFailsPreserves ==
    ASSUME SyncInv, NEW s \in Scans, WriteFails(s) PROVE SyncInv'
<1>0. WorkbookType' /\ OwnersKept
  BY AddingKeeps, HeaderKeeps, UnchangedKeeps, WritingKeeps DEF SyncInv, SheetWhileFlushing, WriteFails
<1>1. TypeOK'
  <2>1. RowRanges'
    <3> SUFFICES ASSUME NEW z \in Scans
                 PROVE  /\ Len(rows'[z]) <= MaxRows[z] /\ promised'[z] <= Len(rows'[z])
                        /\ dirty'[z] \subseteq 1 .. Len(rows'[z])
                        /\ batch'[z] \subseteq dirty'[z]
                        /\ batch'[z] # {} <=> task'[z] = "writing"
                        /\ failures'[z] + faultsLeft' <= Faults
      BY DEF RowRanges
    <3>1. CASE z = s
      BY <3>1, BoundAssumption DEF SyncInv, TypeOK, RowRanges, WriteFails
    <3>2. CASE z # s
      BY <3>2, BoundAssumption DEF SyncInv, TypeOK, RowRanges, WriteFails
    <3> QED BY <3>1, <3>2
  <2>2. task' \in [Scans -> TaskStep] /\ sheet' \in [Scans -> Names \cup {0}]
    BY DEF SyncInv, TypeOK, TaskStep, Creating, WriteFails
  <2>3. attempt' \in [Scans -> Names]
    BY LimitAssumption DEF SyncInv, TypeOK, Names, WriteFails
  <2>4. rows' \in [Scans -> Seq(Rows)] /\ dirty' \in [Scans -> SUBSET Rows] /\ batch' \in [Scans -> SUBSET Rows]
    BY DEF SyncInv, TypeOK, WriteFails
  <2>5. /\ closing' \in [Scans -> BOOLEAN] /\ promised' \in [Scans -> Nat]
        /\ failures' \in [Scans -> Nat] /\ faultsLeft' \in Nat
    BY DEF SyncInv, TypeOK, WriteFails
  <2> QED BY <1>0, <2>1, <2>2, <2>3, <2>4, <2>5 DEF TypeOK, WorkbookType
<1>2. WritesToOwnSheet'
  BY <1>0, OwnSheetStep DEF SyncInv, TypeOK, WritesToOwnSheet, WriteFails
<1>3. SheetWhileFlushing'
  BY DEF SyncInv, TypeOK, SheetWhileFlushing, TaskStep, Creating, Names, WriteFails
<1>4. CleanRowsAreWritten'
  <2>1. CASE UNCHANGED workbook
    BY <2>1, UnchangedKeeps, CleanStep DEF SyncInv, WriteFails
  <2>2. CASE RunWritten(s)
    BY <2>2, WriteStep DEF SyncInv, SheetWhileFlushing, WriteFails
  <2> QED BY <2>1, <2>2 DEF WriteFails
<1>5. DoneLeavesClean'
  BY DEF SyncInv, TypeOK, RowRanges, DoneLeavesClean, WriteFails
<1> QED BY <1>1, <1>2, <1>3, <1>4, <1>5 DEF SyncInv

\* A request that is cut off may have been carried out.
LEMMA FinishTimesOutPreserves ==
    ASSUME SyncInv, NEW s \in Scans, FinishTimesOut(s) PROVE SyncInv'
<1>0. WorkbookType' /\ OwnersKept
  BY AddingKeeps, HeaderKeeps, UnchangedKeeps, WritingKeeps DEF SyncInv, SheetWhileFlushing, FinishTimesOut
<1>1. TypeOK'
  <2>1. RowRanges'
    <3> SUFFICES ASSUME NEW z \in Scans
                 PROVE  /\ Len(rows'[z]) <= MaxRows[z] /\ promised'[z] <= Len(rows'[z])
                        /\ dirty'[z] \subseteq 1 .. Len(rows'[z])
                        /\ batch'[z] \subseteq dirty'[z]
                        /\ batch'[z] # {} <=> task'[z] = "writing"
                        /\ failures'[z] + faultsLeft' <= Faults
      BY DEF RowRanges
    <3>1. CASE z = s
      BY <3>1, BoundAssumption DEF SyncInv, TypeOK, RowRanges, FinishTimesOut, Over
    <3>2. CASE z # s
      BY <3>2, BoundAssumption DEF SyncInv, TypeOK, RowRanges, FinishTimesOut, Over
    <3> QED BY <3>1, <3>2
  <2>2. task' \in [Scans -> TaskStep] /\ sheet' \in [Scans -> Names \cup {0}]
    BY DEF SyncInv, TypeOK, TaskStep, Creating, FinishTimesOut, Over
  <2>3. attempt' \in [Scans -> Names]
    BY LimitAssumption DEF SyncInv, TypeOK, Names, FinishTimesOut, Over
  <2>4. rows' \in [Scans -> Seq(Rows)] /\ dirty' \in [Scans -> SUBSET Rows] /\ batch' \in [Scans -> SUBSET Rows]
    BY DEF SyncInv, TypeOK, FinishTimesOut, Over
  <2>5. /\ closing' \in [Scans -> BOOLEAN] /\ promised' \in [Scans -> Nat]
        /\ failures' \in [Scans -> Nat] /\ faultsLeft' \in Nat
    BY DEF SyncInv, TypeOK, FinishTimesOut, Over
  <2> QED BY <1>0, <2>1, <2>2, <2>3, <2>4, <2>5 DEF TypeOK, WorkbookType
<1>2. WritesToOwnSheet'
  <2>1. /\ \A z \in Scans \ {s} : task'[z] = task[z] /\ attempt'[z] = attempt[z]
        /\ sheet' = sheet /\ task'[s] # "header"
    BY DEF SyncInv, TypeOK, FinishTimesOut
  <2> QED BY <1>0, <2>1, OwnSheetStep
<1>3. SheetWhileFlushing'
  BY DEF SyncInv, TypeOK, SheetWhileFlushing, TaskStep, Creating, Names, FinishTimesOut, Over
<1>4. CleanRowsAreWritten'
  <2>1. CASE task[s] = "writing" /\ RunWritten(s)
    BY <2>1, WriteStep DEF SyncInv, SheetWhileFlushing, FinishTimesOut
  <2>2. CASE ~(task[s] = "writing" /\ RunWritten(s))
    <3>1. CellsKept BY <2>2, UnchangedKeeps, AddingKeeps, HeaderKeeps DEF SyncInv, FinishTimesOut
    <3> QED BY <3>1, CleanStep DEF FinishTimesOut
  <2> QED BY <2>1, <2>2
<1>5. DoneLeavesClean'
  BY DEF SyncInv, TypeOK, RowRanges, DoneLeavesClean, FinishTimesOut, Over
<1> QED BY <1>1, <1>2, <1>3, <1>4, <1>5 DEF SyncInv

\* Every step preserves the invariant.
LEMMA NextPreserves == SyncInv /\ [Next]_vars => SyncInv'
<1> SUFFICES ASSUME SyncInv, [Next]_vars PROVE SyncInv' OBVIOUS
<1>1. CASE UNCHANGED vars
  BY <1>1 DEF vars, sync, SyncInv, TypeOK, RowRanges, WritesToOwnSheet, SheetWhileFlushing,
              CleanRowsAreWritten, Written, DoneLeavesClean
<1>2. CASE Next
  <2> PICK s \in Scans :
        \/ \E n \in 1 .. MaxRows[s] : Enqueue(s, n)
        \/ Finish(s) \/ FinishTimesOut(s)
        \/ TaskRuns(s)
        \/ LookupUnclear(s) \/ AddRepeated(s) \/ CreateFails(s) \/ WriteFails(s)
    BY <1>2 DEF Next
  <2>1. CASE \E n \in 1 .. MaxRows[s] : Enqueue(s, n) BY <2>1, EnqueuePreserves
  <2>2. CASE Finish(s) BY <2>2, FinishPreserves
  <2>3. CASE FinishTimesOut(s) BY <2>3, FinishTimesOutPreserves
  <2>4. CASE TaskRuns(s)
    BY <2>4, LookupAnsweredPreserves, AddAnsweredPreserves, HeaderAnsweredPreserves, CreateRetriesPreserves,
       IdleEndsPreserves, FlushBeginsPreserves, WriteAnsweredPreserves DEF TaskRuns
  <2>5. CASE LookupUnclear(s) BY <2>5, LookupUnclearPreserves
  <2>6. CASE AddRepeated(s) BY <2>6, AddRepeatedPreserves
  <2>7. CASE CreateFails(s) BY <2>7, CreateFailsPreserves
  <2>8. CASE WriteFails(s) BY <2>8, WriteFailsPreserves
  <2> QED BY <2>1, <2>2, <2>3, <2>4, <2>5, <2>6, <2>7, <2>8
<1> QED BY <1>1, <1>2

-----------------------------------------------------------------------------
\* The invariant holds in every reachable state.
THEOREM SyncInvariant == Spec => []SyncInv
BY InitEstablishes, NextPreserves, PTL DEF Spec

\* The counters, row sets and worksheets of the scans always have their types.
THEOREM SyncTypeCorrect == Spec => []TypeOK
<1>1. SyncInv => TypeOK BY DEF SyncInv
<1> QED BY <1>1, SyncInvariant, PTL

\* Scans that race for the names of one minute never write to a worksheet that
\* another scan has added.
THEOREM ScansKeepApart == Spec => []WritesToOwnSheet
<1>1. SyncInv => WritesToOwnSheet BY DEF SyncInv
<1> QED BY <1>1, SyncInvariant, PTL

\* No row is taken for written that is not in the worksheet.
THEOREM NoRowIsLost == Spec => []CleanRowsAreWritten
<1>1. SyncInv => CleanRowsAreWritten BY DEF SyncInv
<1> QED BY <1>1, SyncInvariant, PTL

\* A task that returns by itself has written every row queued before finish().
THEOREM ReturnedMeansWritten == Spec => []DoneHasWrittenAll
<1>1. SyncInv => DoneHasWrittenAll
  <2> SUFFICES ASSUME SyncInv, NEW s \in Scans, task[s] = "done", NEW r \in 1 .. promised[s]
               PROVE  Written(s, r)
    BY DEF DoneHasWrittenAll
  <2>1. r \notin dirty[s] BY DEF SyncInv, DoneLeavesClean
  <2>2. r \in 1 .. Len(rows[s]) BY DEF SyncInv, TypeOK, RowRanges
  <2> QED BY <2>1, <2>2 DEF SyncInv, CleanRowsAreWritten
<1> QED BY <1>1, SyncInvariant, PTL

\* Nothing a scan has queued is lost.
THEOREM NothingGetsLost == Spec => []NothingIsLost
<1>1. CleanRowsAreWritten /\ DoneHasWrittenAll => NothingIsLost BY DEF NothingIsLost
<1> QED BY <1>1, NoRowIsLost, ReturnedMeansWritten, PTL

-----------------------------------------------------------------------------
(* Headers and rows.                                                       *)

\* The keys of a scan stand in the order of their rows, in its table and in every
\* worksheet; and the worksheet a task goes on with has its header.
SheetsInv ==
    /\ \A s \in Scans : \A r \in 1 .. Len(rows[s]) : rows[s][r] = r
    /\ \A n \in Names : \A r \in Rows : workbook[n].cells[r] \in {NoCell, r}
    /\ \A s \in Scans : sheet[s] # 0 => workbook[sheet[s]].header
    /\ RowsUnderHeader

\* What a step does to the worksheets: it takes no header away, and writes rows
\* of a scan at their numbers, below the header of its own worksheet.
SheetsStep ==
    /\ \A n \in Names : workbook[n].header => workbook'[n].header
    /\ \A n \in Names : \A r \in Rows :
           \/ workbook'[n].cells[r] = workbook[n].cells[r]
           \/ workbook[n].header /\ workbook'[n].cells[r] = r
    /\ \A s \in Scans : sheet'[s] = sheet[s] \/ workbook'[sheet'[s]].header
    /\ \A s \in Scans : \A r \in 1 .. Len(rows'[s]) : rows'[s][r] = r

LEMMA SheetsStepKeeps ==
    ASSUME SyncInv, SyncInv', SheetsInv, SheetsStep
    PROVE  SheetsInv'
<1>1. \A n \in Names : \A r \in Rows : workbook'[n].cells[r] \in {NoCell, r}
  BY DEF SheetsInv, SheetsStep
<1>2. \A s \in Scans : sheet'[s] # 0 => workbook'[sheet'[s]].header
  BY DEF SheetsInv, SheetsStep, SyncInv, TypeOK
<1>3. RowsUnderHeader'
  BY DEF SheetsInv, SheetsStep, RowsUnderHeader
<1> QED
  BY <1>1, <1>2, <1>3 DEF SheetsInv, SheetsStep

\* The four things a request can do to the workbook.
LEMMA WorkbookSteps ==
    ASSUME SyncInv, SheetsInv, NEW s \in Scans,
           \/ UNCHANGED workbook
           \/ workbook[attempt[s]].owner = Nobody /\ SheetAdded(s)
           \/ workbook' = [workbook EXCEPT ![attempt[s]].header = TRUE]
           \/ task[s] = "writing" /\ RunWritten(s)
    PROVE  /\ \A n \in Names : workbook[n].header => workbook'[n].header
           /\ \A n \in Names : \A r \in Rows :
                  \/ workbook'[n].cells[r] = workbook[n].cells[r]
                  \/ workbook[n].header /\ workbook'[n].cells[r] = r
<1>0. TypeOK /\ WorkbookType /\ attempt[s] \in Names
  BY DEF SyncInv, TypeOK, WorkbookType
<1>1. CASE UNCHANGED workbook
  BY <1>1
<1>2. CASE workbook[attempt[s]].owner = Nobody /\ SheetAdded(s)
  <2>1. CellsKept
    BY <1>0, <1>2, AddingKeeps
  <2>2. workbook' = [workbook EXCEPT ![attempt[s]] = [workbook[attempt[s]] EXCEPT !.owner = s]]
    BY <1>2 DEF SheetAdded
  <2> QED
    BY <1>0, <2>1, <2>2 DEF CellsKept, WorkbookType
<1>3. CASE workbook' = [workbook EXCEPT ![attempt[s]].header = TRUE]
  <2>1. CellsKept
    BY <1>0, <1>3, HeaderKeeps
  <2>2. workbook' = [workbook EXCEPT ![attempt[s]] = [workbook[attempt[s]] EXCEPT !.header = TRUE]]
    BY <1>3
  <2> QED
    BY <1>0, <2>1, <2>2 DEF CellsKept, WorkbookType
<1>4. CASE task[s] = "writing" /\ RunWritten(s)
  <2>1. sheet[s] # 0 /\ sheet[s] \in Names /\ workbook[sheet[s]].header
    BY <1>0, <1>4 DEF SyncInv, SheetWhileFlushing, SheetsInv, TypeOK
  <2>2. /\ \A n \in Names : n # sheet[s] => workbook'[n] = workbook[n]
        /\ \A r \in Rows : workbook'[sheet[s]].cells[r] =
                             IF r \in Run(s) THEN rows[s][r] ELSE workbook[sheet[s]].cells[r]
    BY <1>0, <1>4, <2>1, WritingKeeps
  <2>3. \A r \in Run(s) : rows[s][r] = r
    BY <1>0, RunIsOfBatch DEF TypeOK, RowRanges, SheetsInv
  <2>4. workbook'[sheet[s]].header
    <3> DEFINE new == [r \in Rows |-> IF r \in Run(s) THEN rows[s][r] ELSE workbook[sheet[s]].cells[r]]
    <3>1. workbook' = [workbook EXCEPT ![sheet[s]] = [workbook[sheet[s]] EXCEPT !.cells = new]]
      BY <1>4 DEF RunWritten
    <3> HIDE DEF new
    <3> QED
      BY <1>0, <2>1, <3>1 DEF WorkbookType
  <2> QED
    BY <2>1, <2>2, <2>3, <2>4
<1> QED
  BY <1>1, <1>2, <1>3, <1>4

LEMMA StepsKeepSheets ==
    ASSUME SyncInv, SyncInv', SheetsInv, [Next]_vars
    PROVE  SheetsInv'
<1>1. ASSUME NEW s \in Scans,
             \/ UNCHANGED workbook
             \/ workbook[attempt[s]].owner = Nobody /\ SheetAdded(s)
             \/ workbook' = [workbook EXCEPT ![attempt[s]].header = TRUE]
             \/ task[s] = "writing" /\ RunWritten(s),
             UNCHANGED <<rows, sheet>>
      PROVE  SheetsInv'
  BY <1>1, WorkbookSteps, SheetsStepKeeps DEF SheetsStep, SheetsInv
<1>2. ASSUME NEW s \in Scans, NEW n \in 1 .. MaxRows[s], Enqueue(s, n)
      PROVE  SheetsInv'
  <2>1. ASSUME NEW z \in Scans, NEW r \in 1 .. Len(rows'[z])
        PROVE  rows'[z][r] = r
    <3>1. /\ Len(rows[s]) \in Nat /\ n \in Nat /\ rows[s] \in Seq(Rows) /\ rows[z] \in Seq(Rows)
          /\ rows \in [Scans -> Seq(Rows)]
      BY BoundAssumption DEF SyncInv, TypeOK
    <3>2. \A i \in 1 .. Len(rows[z]) : rows[z][i] = i
      BY DEF SheetsInv
    <3> DEFINE new == [i \in 1 .. n |-> Len(rows[s]) + i]
    <3>3. rows' = [rows EXCEPT ![s] = rows[s] \o new]
      BY <1>2 DEF Enqueue
    <3>4. Len(new) = n /\ \A i \in 1 .. n : new[i] = Len(rows[s]) + i
      BY <3>1
    <3>5. new \in Seq(Rows)
      <4>1. \A i \in 1 .. n : Len(rows[s]) + i \in 1 .. MaxRows[s]
        BY <1>2, <3>1, BoundAssumption DEF Enqueue
      <4>2. new \in [1 .. n -> Rows]
        BY <4>1, RowsAreNumbers
      <4>3. n \in Nat
        BY <3>1
      <4> HIDE DEF new
      <4> QED
        BY <4>2, <4>3, SeqDef
    <3> HIDE DEF new
    <3>6. CASE z = s
      <4>1. rows'[z] = rows[s] \o new
        BY <3>1, <3>3, <3>6
      <4> QED
        BY <2>1, <3>1, <3>2, <3>4, <3>5, <3>6, <4>1
    <3>7. CASE z # s
      BY <2>1, <3>2, <3>3, <3>7
    <3> QED
      BY <3>6, <3>7
  <2>2. UNCHANGED <<sheet, workbook>>
    BY <1>2 DEF Enqueue
  <2> QED
    BY <2>1, <2>2, SheetsStepKeeps DEF SheetsStep
<1>3. ASSUME NEW s \in Scans, HeaderAnswered(s)
      PROVE  SheetsInv'
  <2>1. /\ workbook' = [workbook EXCEPT ![attempt[s]].header = TRUE]
        /\ sheet' = [sheet EXCEPT ![s] = attempt[s]] /\ UNCHANGED rows
    BY <1>3 DEF HeaderAnswered
  <2>2. attempt[s] \in Names /\ workbook'[attempt[s]].header
    BY <2>1 DEF SyncInv, TypeOK
  <2>3. \A z \in Scans : sheet'[z] = sheet[z] \/ sheet'[z] = attempt[s]
    BY <2>1 DEF SyncInv, TypeOK
  <2> QED
    BY <2>1, <2>2, <2>3, WorkbookSteps, SheetsStepKeeps DEF SheetsStep, SheetsInv
<1>4. CASE UNCHANGED vars
  BY <1>4, SheetsStepKeeps DEF vars, sync, SheetsStep, SheetsInv
<1> QED
  BY <1>1, <1>2, <1>3, <1>4
  DEF Next, TaskRuns, Finish, FinishTimesOut, LookupAnswered, AddAnswered, CreateRetries, IdleEnds,
      FlushBegins, WriteAnswered, LookupUnclear, AddRepeated, CreateFails, WriteFails

\* Every worksheet is one scan's, its rows stand below a header, and no key is in
\* two rows, whatever is retried.
THEOREM SheetsStaySound == Spec => []SheetsAreSound
<1>1. Init => SheetsInv
  BY DEF Init, SheetsInv, RowsUnderHeader, Worksheet
<1>2. SyncInv /\ SheetsInv => SheetsAreSound
  <2> SUFFICES ASSUME SyncInv, SheetsInv
               PROVE  SheetsAreSound
    OBVIOUS
  <2>1. NoRowTwice
    <3>1. \A n \in Names : \A r \in Rows : workbook[n].cells[r] # NoCell => workbook[n].cells[r] = r
      BY DEF SheetsInv
    <3> QED
      BY <3>1 DEF NoRowTwice
  <2> QED
    BY <2>1 DEF SyncInv, SheetsInv, SheetsAreSound
<1>3. SyncInv /\ SyncInv' /\ SheetsInv /\ [Next]_vars => SheetsInv'
  BY StepsKeepSheets
<1> QED
  BY <1>1, <1>2, <1>3, SyncInvariant, PTL DEF Spec
=============================================================================
