------------------------- MODULE LocalHistoryProofs -------------------------
(***************************************************************************)
(* The history that a browser keeps: rows are filed under their own scan,  *)
(* nothing received is skipped, and a result whose storing has ended is     *)
(* all there, for any number of scans, stocks, signals and transactions.   *)
(***************************************************************************)
EXTENDS LocalHistory, FiniteSetTheorems, SequenceTheorems, WellFoundedInduction, TLAPS

-----------------------------------------------------------------------------
(* Rows.                                                                   *)

Signals == UNION {Found[i] : i \in DOMAIN Found}
Structures == UNION {x.structures : x \in Signals}

\* A row says of a stock and a strategy what its key says, and nothing else.
StatusOf(stock, strategy) ==
    IF strategy = ""
    THEN IF stock \in Failing THEN "DATA_UNAVAILABLE" ELSE "SCANNED_NO_SIGNAL"
    ELSE IF strategy \in Forming THEN "FORMING" ELSE "QUALIFIED"

RowType ==
    [job : Jobs, of : Jobs, by : {"stream", "result"}, stock : 1 .. Total,
     strategy : {""} \cup {x.strategy : x \in Signals},
     timeframe : {None} \cup {f.timeframe : f \in Structures},
     a : {None} \cup {f.a : f \in Structures},
     status : {"DATA_UNAVAILABLE", "SCANNED_NO_SIGNAL", "FORMING", "QUALIFIED"}]

Row == {r \in RowType : r.status = StatusOf(r.stock, r.strategy)}

\* The rows that go to the store together.
Filed(id, of, by) == {r \in Row : r.job = id /\ r.of = of /\ r.by = by}

LEMMA StockRowIsFiled ==
    ASSUME NEW id \in Jobs, NEW of \in Jobs, NEW stock \in 1 .. Total, NEW by \in {"stream", "result"}
    PROVE  StockRow(id, of, stock, by) \in Filed(id, of, by)
  BY DEF StockRow, Filed, Row, RowType, StatusOf

LEMMA SignalRowsAreFiled ==
    ASSUME NEW id \in Jobs, NEW of \in Jobs, NEW stock \in DOMAIN Found, NEW x \in Found[stock],
           NEW by \in {"stream", "result"}
    PROVE  SignalRows(id, of, stock, x, by) \subseteq Filed(id, of, by)
<1>1. stock \in 1 .. Total /\ x \in Signals /\ x.strategy # ""
  BY ScanAssumption, FoundAssumption DEF Signals
<1>2. Shown(x) \subseteq x.structures /\ x.structures \subseteq Structures
  BY <1>1 DEF Shown, Structures
<1> DEFINE plain == StockRow(id, of, stock, by)
           base == [plain EXCEPT !.strategy = x.strategy, !.status = "QUALIFIED"]
           formed(f) == [base EXCEPT !.timeframe = f.timeframe, !.a = f.a,
                                     !.status = IF x.strategy \in Forming THEN "FORMING" ELSE @]
<1>3. plain \in RowType /\ plain.job = id /\ plain.of = of /\ plain.by = by /\ plain.stock = stock
  <2>1. plain \in Filed(id, of, by)
    BY <1>1, StockRowIsFiled
  <2>2. plain.stock = stock
    BY DEF StockRow
  <2> HIDE DEF plain
  <2> QED
    BY <2>1, <2>2 DEF Filed, Row
<1>4. /\ base \in RowType /\ base.status = "QUALIFIED" /\ base.strategy = x.strategy
      /\ base.job = id /\ base.of = of /\ base.by = by /\ base.stock = stock
  <2> HIDE DEF plain
  <2> QED
    BY <1>1, <1>3 DEF RowType
<1>5. ASSUME NEW f \in Structures
      PROVE  /\ formed(f) \in RowType
             /\ formed(f).status = IF x.strategy \in Forming THEN "FORMING" ELSE "QUALIFIED"
             /\ formed(f).strategy = x.strategy
             /\ formed(f).job = id /\ formed(f).of = of /\ formed(f).by = by /\ formed(f).stock = stock
  <2> HIDE DEF base
  <2> QED
    BY <1>4 DEF RowType
<1>6. CASE x.strategy \in Forming \cup {"CUP"} \/ (x.strategy \in Divergences /\ x.structures # {})
  <2>1. SignalRows(id, of, stock, x, by) = {formed(f) : f \in Shown(x)}
    BY <1>6 DEF SignalRows
  <2> HIDE DEF formed
  <2> QED
    BY <1>1, <1>2, <1>5, <2>1 DEF Filed, Row, StatusOf
<1>7. CASE ~(x.strategy \in Forming \cup {"CUP"} \/ (x.strategy \in Divergences /\ x.structures # {}))
  <2>1. SignalRows(id, of, stock, x, by) = {base}
    BY <1>7 DEF SignalRows
  <2> HIDE DEF base
  <2> QED
    BY <1>1, <1>4, <1>7, <2>1 DEF Filed, Row, StatusOf
<1> QED
  BY <1>6, <1>7

\* What the streams bring is filed under the scan it is of.
Item == [job : Jobs, seq : Nat, stock : 1 .. Total]

LEMMA StreamRowsAreFiled ==
    ASSUME NEW s \in Stream, NEW id \in Jobs, NEW new \in SUBSET Item,
           \A x \in new : x.job = id /\ (s = "partial" => x.stock \in DOMAIN Found)
    PROVE  StreamRows(s, id, new) \subseteq Filed(id, id, "stream")
<1>1. ASSUME NEW x \in new
      PROVE  (IF s = "partial" THEN PartialRows(id, x) ELSE {StockRow(id, x.job, x.stock, "stream")})
                 \subseteq Filed(id, id, "stream")
  <2>1. x.job = id /\ x.stock \in 1 .. Total
    BY DEF Item
  <2>2. CASE s = "partial"
    BY <2>1, <2>2, SignalRowsAreFiled DEF PartialRows
  <2>3. CASE s # "partial"
    BY <2>1, <2>3, StockRowIsFiled
  <2> QED
    BY <2>2, <2>3
<1> QED
  BY <1>1 DEF StreamRows

LEMMA FinalRowsAreFiled ==
    ASSUME NEW id \in Jobs, NEW r \in Jobs
    PROVE  /\ Unavailable(id, r) \subseteq Filed(id, r, "result")
           /\ AllSignals(id, r) \subseteq Filed(id, r, "result")
           /\ FinalRows(id, r) \subseteq Filed(id, r, "result")
<1>1. Unavailable(id, r) \subseteq Filed(id, r, "result")
  BY StockRowIsFiled, ScanAssumption DEF Unavailable
<1>2. AllSignals(id, r) \subseteq Filed(id, r, "result")
  BY SignalRowsAreFiled DEF AllSignals
<1> QED
  BY <1>1, <1>2 DEF FinalRows

\* Two rows of one transaction that replace each other are the same.
LEMMA FiledKeys ==
    ASSUME NEW id, NEW of, NEW by, NEW r \in Filed(id, of, by), NEW s \in Filed(id, of, by), Key(r) = Key(s)
    PROVE  r = s
<1>1. r \in RowType /\ s \in RowType
  BY DEF Filed, Row
<1>2. /\ r.job = s.job /\ r.of = s.of /\ r.by = s.by /\ r.stock = s.stock /\ r.strategy = s.strategy
      /\ r.timeframe = s.timeframe /\ r.a = s.a /\ r.status = s.status
  BY DEF Filed, Row, Key
<1>3. ASSUME NEW t \in RowType
      PROVE  t = [job |-> t.job, of |-> t.of, by |-> t.by, stock |-> t.stock, strategy |-> t.strategy,
                  timeframe |-> t.timeframe, a |-> t.a, status |-> t.status]
  BY DEF RowType
<1> QED
  BY <1>1, <1>2, <1>3

-----------------------------------------------------------------------------
(* The final result in chunks.                                             *)

\* SetToSeq lists every element of a finite set.
LEMMA SetToSeqLists ==
    ASSUME NEW S, IsFiniteSet(S)
    PROVE  /\ SetToSeq(S) \in Seq(S)
           /\ \A x \in S : \E i \in DOMAIN SetToSeq(S) : SetToSeq(S)[i] = x
<1> DEFINE n == Cardinality(S)
           f == SetToSeq(S)
<1>1. n \in Nat /\ ExistsBijection(1 .. n, S)
  BY FS_CardinalityType
<1>2. \E g \in [1 .. n -> S] : IsInjective(g)
  BY <1>1 DEF ExistsBijection, Bijection, Injection
<1>3. f \in [1 .. n -> S] /\ IsInjective(f)
  BY <1>2 DEF SetToSeq
<1>4. IsFiniteSet(1 .. n) /\ Cardinality(1 .. n) = n
  BY <1>1, FS_Interval
<1>5. f \in Surjection(1 .. n, S)
  <2>1. f \in Injection(1 .. n, S)
    BY <1>3 DEF Injection
  <2> HIDE DEF f
  <2> QED
    BY <1>4, <2>1, FS_Injection
<1> HIDE DEF f
<1>6. f \in Seq(S)
  BY <1>1, <1>3
<1> QED
  BY <1>3, <1>5, <1>6 DEF Surjection, f

\* What is computed from finitely many stocks and signals is finite.
LEMMA ImageIsFinite ==
    ASSUME NEW S, NEW f, DOMAIN f = S, IsFiniteSet(S)
    PROVE  IsFiniteSet({f[x] : x \in S})
<1>1. [x \in S |-> f[x]] \in Surjection(S, {f[x] : x \in S})
  BY DEF Surjection
<1> QED
  BY <1>1, FS_Surjection

LEMMA FinalRowsAreFinite ==
    ASSUME NEW id \in Jobs, NEW r \in Jobs
    PROVE  IsFiniteSet(Unavailable(id, r)) /\ IsFiniteSet(AllSignals(id, r))
<1>1. IsFiniteSet(1 .. Total) /\ IsFiniteSet(Failing) /\ IsFiniteSet(DOMAIN Found)
  <2>1. IsFiniteSet(1 .. Total)
    BY ScanAssumption, FS_Interval
  <2> QED
    BY <2>1, ScanAssumption, FS_Subset
<1>2. IsFiniteSet(Unavailable(id, r))
  <2> DEFINE f == [i \in Failing |-> StockRow(id, r, i, "result")]
  <2>1. Unavailable(id, r) = {f[i] : i \in Failing}
    BY DEF Unavailable
  <2>2. DOMAIN f = Failing
    OBVIOUS
  <2> HIDE DEF f
  <2> QED
    BY <1>1, <2>1, <2>2, ImageIsFinite
<1>3. ASSUME NEW i \in DOMAIN Found, NEW x \in Found[i]
      PROVE  IsFiniteSet(SignalRows(id, r, i, x, "result"))
  <2>1. IsFiniteSet(Shown(x))
    <3>1. Shown(x) \subseteq x.structures /\ IsFiniteSet(x.structures)
      BY FoundAssumption DEF Shown
    <3> QED
      BY <3>1, FS_Subset
  <2> DEFINE base == [StockRow(id, r, i, "result") EXCEPT !.strategy = x.strategy, !.status = "QUALIFIED"]
             formed(f) == [base EXCEPT !.timeframe = f.timeframe, !.a = f.a,
                                       !.status = IF x.strategy \in Forming THEN "FORMING" ELSE @]
             g == [f \in Shown(x) |-> formed(f)]
  <2>2. SignalRows(id, r, i, x, "result") \in {{base}, {formed(f) : f \in Shown(x)}}
    BY DEF SignalRows
  <2> HIDE DEF formed
  <2>3. {formed(f) : f \in Shown(x)} = {g[f] : f \in Shown(x)} /\ DOMAIN g = Shown(x)
    OBVIOUS
  <2> HIDE DEF g
  <2>4. IsFiniteSet({formed(f) : f \in Shown(x)})
    BY <2>1, <2>3, ImageIsFinite
  <2>5. IsFiniteSet({base})
    BY FS_Singleton
  <2> QED
    BY <2>2, <2>4, <2>5
<1>4. IsFiniteSet(AllSignals(id, r))
  <2> DEFINE of(i) == UNION {SignalRows(id, r, i, x, "result") : x \in Found[i]}
             all == [i \in DOMAIN Found |-> of(i)]
  <2>1. ASSUME NEW i \in DOMAIN Found
        PROVE  IsFiniteSet(of(i))
    <3> DEFINE g == [x \in Found[i] |-> SignalRows(id, r, i, x, "result")]
    <3>1. IsFiniteSet(Found[i])
      BY FoundAssumption
    <3>2. IsFiniteSet({g[x] : x \in Found[i]})
      BY <3>1, ImageIsFinite
    <3>3. IsFiniteSet(UNION {g[x] : x \in Found[i]})
      BY <1>3, <3>2, FS_UNION
    <3> QED
      BY <3>3
  <2>2. AllSignals(id, r) = UNION {all[i] : i \in DOMAIN Found}
    BY DEF AllSignals
  <2> HIDE DEF of
  <2>3. IsFiniteSet({all[i] : i \in DOMAIN Found})
    BY <1>1, ImageIsFinite
  <2> QED
    BY <2>1, <2>2, <2>3, FS_UNION
<1> QED
  BY <1>2, <1>4

LEMMA InOrderIsWhole ==
    ASSUME NEW id \in Jobs, NEW r \in Jobs
    PROVE  /\ InOrder(id, r) \in Seq(FinalRows(id, r))
           /\ \A x \in FinalRows(id, r) : \E i \in DOMAIN InOrder(id, r) : InOrder(id, r)[i] = x
<1> DEFINE U == Unavailable(id, r)
           A == AllSignals(id, r)
           F == FinalRows(id, r)
<1>1. CASE HasUniverse
  <2>1. F = U \cup A /\ InOrder(id, r) = SetToSeq(U) \o SetToSeq(A)
    BY <1>1 DEF FinalRows, InOrder
  <2>2. SetToSeq(U) \in Seq(U) /\ \A x \in U : \E i \in DOMAIN SetToSeq(U) : SetToSeq(U)[i] = x
    BY FinalRowsAreFinite, SetToSeqLists
  <2>3. SetToSeq(A) \in Seq(A) /\ \A x \in A : \E i \in DOMAIN SetToSeq(A) : SetToSeq(A)[i] = x
    BY FinalRowsAreFinite, SetToSeqLists
  <2>4. SetToSeq(U) \in Seq(F) /\ SetToSeq(A) \in Seq(F)
    BY <2>1, <2>2, <2>3, SeqMonotonic
  <2> HIDE DEF U, A, F
  <2>5. Range(SetToSeq(U) \o SetToSeq(A)) = Range(SetToSeq(U)) \cup Range(SetToSeq(A))
    BY <2>4, RangeConcatenation
  <2>6. F \subseteq Range(SetToSeq(U) \o SetToSeq(A))
    BY <2>1, <2>2, <2>3, <2>5 DEF Range
  <2>7. SetToSeq(U) \o SetToSeq(A) \in Seq(F)
    BY <2>4, ConcatProperties
  <2> QED
    BY <2>1, <2>6, <2>7 DEF Range, F
<1>2. CASE ~HasUniverse
  BY <1>2 DEF FinalRows, InOrder
<1> QED
  BY <1>1, <1>2

\* The k-th row is in the chunk that its place says.
LEMMA ChunkNumber ==
    ASSUME NEW n \in Nat, NEW c \in Nat \ {0}, NEW i \in 1 .. n
    PROVE  /\ (n + c - 1) \div c \in Nat
           /\ (i - 1) \div c + 1 \in 1 .. (n + c - 1) \div c
  OBVIOUS

LEMMA ChunksAreWhole ==
    ASSUME NEW id \in Jobs, NEW r \in Jobs
    PROVE  /\ Chunks(id, r) \in Seq(SUBSET FinalRows(id, r))
           /\ \A x \in FinalRows(id, r) : \E k \in DOMAIN Chunks(id, r) : x \in Chunks(id, r)[k]
<1> DEFINE all == InOrder(id, r)
           n == (Len(all) + ChunkRows - 1) \div ChunkRows
           F == FinalRows(id, r)
           ch == Cut(all, n)
<1>1. all \in Seq(F) /\ Len(all) \in Nat /\ DOMAIN all = 1 .. Len(all) /\ \A i \in DOMAIN all : all[i] \in F
  BY InOrderIsWhole
<1>2. ChunkRows \in Nat \ {0}
  BY ScanAssumption
<1>3. n \in Nat
  BY <1>1, <1>2, ChunkNumber, EmptySeq
<1> HIDE DEF all, n, F
<1>4. ch \in Seq(SUBSET F)
  BY <1>1, <1>3 DEF Cut
<1>5. ASSUME NEW x \in F
      PROVE  \E k \in DOMAIN ch : x \in ch[k]
  <2>1. PICK i \in DOMAIN all : all[i] = x
    BY InOrderIsWhole DEF all, F
  <2> DEFINE k == (i - 1) \div ChunkRows + 1
  <2>2. k \in 1 .. n
    BY <1>1, <1>2, <2>1, ChunkNumber DEF n
  <2>3. k - 1 = (i - 1) \div ChunkRows
    BY <1>1, <1>2, <2>1
  <2> HIDE DEF k
  <2>4. k \in DOMAIN ch /\ x \in ch[k]
    BY <1>3, <2>1, <2>2, <2>3 DEF Cut
  <2> QED
    BY <2>4
<1>6. Chunks(id, r) = ch
  BY DEF Chunks, ch, all, n
<1> QED
  BY <1>4, <1>5, <1>6 DEF F

-----------------------------------------------------------------------------
(* Types.                                                                  *)

ScanStatus == {"unborn", "running", "completed", "failed", "cancelled"}
SnapshotStatus == {None, "stopped"} \cup ScanStatus
PageStep == {"local", "list", "idle", "asking", "results"} \cup Stream

PageType == [job : AnyJob, status : ScanStatus, result : AnyJob, items : [Stream -> SUBSET Item],
             cursor : [Stream -> Nat], step : PageStep]
WriterType == [localId : AnyJob, cursor : [Stream -> Nat], finalized : BOOLEAN]
FinalType == [of : AnyJob, chunks : Seq(SUBSET Row), step : {"none", "waiting", "next", "over", "failed"}]
TxType == [op : {"get", "put", "rows", "delete"}, job : Jobs, status : SnapshotStatus,
           rows : SUBSET Row, final : BOOLEAN]

TypeInv ==
    /\ scan \in [Jobs -> [status : ScanStatus, processed : 0 .. Total]]
    /\ page \in PageType /\ device \in AnyJob /\ writer \in WriterType
    /\ finals \in [Jobs -> FinalType] /\ queue \in Seq(TxType)
    /\ snapshots \in [Jobs -> SnapshotStatus]
    /\ rows \in SUBSET Row

-----------------------------------------------------------------------------
(* The queue.                                                              *)

Queued == Range(queue)

\* A final result waits for one transaction at a time.
OneFinalEach(q) ==
    \A i, k \in DOMAIN q : q[i].final /\ q[k].final /\ q[i].job = q[k].job => i = k

LEMMA RangeIn ==
    ASSUME NEW S, NEW q \in Seq(S)
    PROVE  Range(q) \subseteq S
  BY DEF Range

LEMMA AddedToQueue ==
    ASSUME NEW q \in Seq(TxType), NEW t \in TxType
    PROVE  /\ Append(q, t) \in Seq(TxType)
           /\ Range(Append(q, t)) = Range(q) \cup {t}
           /\ OneFinalEach(q) /\ (t.final => \A u \in Range(q) : u.final => u.job # t.job)
                  => OneFinalEach(Append(q, t))
<1> DEFINE p == Append(q, t)
<1>1. /\ p \in Seq(TxType) /\ Len(p) = Len(q) + 1 /\ DOMAIN p = 1 .. Len(q) + 1 /\ DOMAIN q = 1 .. Len(q)
      /\ \A i \in 1 .. Len(q) : p[i] = q[i]
      /\ p[Len(q) + 1] = t /\ Len(q) \in Nat
  BY AppendProperties, LenProperties
<1> HIDE DEF p
<1>2. Range(p) = Range(q) \cup {t}
  BY <1>1 DEF Range
<1>3. ASSUME OneFinalEach(q), t.final => \A u \in Range(q) : u.final => u.job # t.job,
             NEW i \in DOMAIN p, NEW k \in DOMAIN p, p[i].final, p[k].final, p[i].job = p[k].job
      PROVE  i = k
  BY <1>1, <1>3 DEF OneFinalEach, Range
<1> QED
  BY <1>1, <1>2, <1>3 DEF OneFinalEach, p

LEMMA ConcatToQueue ==
    ASSUME NEW q \in Seq(TxType), NEW new \in Seq(TxType), \A t \in Range(new) : ~t.final
    PROVE  /\ q \o new \in Seq(TxType)
           /\ Range(q \o new) = Range(q) \cup Range(new)
           /\ OneFinalEach(q) => OneFinalEach(q \o new)
<1> DEFINE p == q \o new
<1>1. /\ p \in Seq(TxType) /\ DOMAIN p = 1 .. Len(q) + Len(new) /\ DOMAIN q = 1 .. Len(q)
      /\ DOMAIN new = 1 .. Len(new) /\ Len(q) \in Nat /\ Len(new) \in Nat
      /\ \A i \in 1 .. Len(q) + Len(new) : p[i] = IF i <= Len(q) THEN q[i] ELSE new[i - Len(q)]
  BY ConcatProperties, LenProperties
<1>2. Range(p) = Range(q) \cup Range(new)
  BY RangeConcatenation
<1> HIDE DEF p
<1>3. ASSUME OneFinalEach(q), NEW i \in DOMAIN p, NEW k \in DOMAIN p,
             p[i].final, p[k].final, p[i].job = p[k].job
      PROVE  i = k
  <2>1. ASSUME NEW l \in DOMAIN p, p[l].final
        PROVE  l \in DOMAIN q /\ p[l] = q[l]
    <3>1. CASE l <= Len(q)
      BY <1>1, <3>1
    <3>2. CASE l > Len(q)
      <4>1. l - Len(q) \in DOMAIN new /\ p[l] = new[l - Len(q)]
        BY <1>1, <3>2
      <4> QED
        BY <2>1, <4>1 DEF Range
    <3> QED
      BY <1>1, <3>1, <3>2
  <2> QED
    BY <1>3, <2>1 DEF OneFinalEach
<1> QED
  BY <1>1, <1>2, <1>3 DEF OneFinalEach, p

LEMMA TakenFromQueue ==
    ASSUME NEW q \in Seq(TxType), NEW i \in DOMAIN q
    PROVE  /\ RemoveAt(q, i) \in Seq(TxType)
           /\ Range(q) = Range(RemoveAt(q, i)) \cup {q[i]}
           /\ OneFinalEach(q) => OneFinalEach(RemoveAt(q, i))
           /\ OneFinalEach(q) /\ q[i].final => \A t \in Range(RemoveAt(q, i)) : t.final => t.job # q[i].job
<1> DEFINE a == SubSeq(q, 1, i - 1)
           b == SubSeq(q, i + 1, Len(q))
           p == a \o b
<1>1. Len(q) \in Nat /\ DOMAIN q = 1 .. Len(q) /\ i \in 1 .. Len(q) /\ \A k \in 1 .. Len(q) : q[k] \in TxType
  BY LenProperties, ElementOfSeq
<1>2. a \in Seq(TxType) /\ Len(a) = i - 1 /\ \A k \in 1 .. i - 1 : a[k] = q[k]
  BY <1>1, SubSeqProperties
<1>3. b \in Seq(TxType) /\ Len(b) = Len(q) - i /\ \A k \in 1 .. Len(q) - i : b[k] = q[k + i]
  BY <1>1, SubSeqProperties
<1> HIDE DEF a, b
<1>4. /\ p \in Seq(TxType) /\ Len(p) = Len(q) - 1
      /\ \A k \in 1 .. Len(q) - 1 : p[k] = IF k <= i - 1 THEN a[k] ELSE b[k - (i - 1)]
  <2>1. /\ p \in Seq(TxType) /\ Len(p) = Len(a) + Len(b)
        /\ \A k \in 1 .. Len(a) + Len(b) : p[k] = IF k <= Len(a) THEN a[k] ELSE b[k - Len(a)]
    BY <1>2, <1>3, ConcatProperties
  <2>2. Len(a) + Len(b) = Len(q) - 1
    BY <1>1, <1>2, <1>3
  <2> QED
    BY <1>2, <2>1, <2>2
<1>5. DOMAIN p = 1 .. Len(q) - 1
  BY <1>4, LenProperties
<1> HIDE DEF p
<1>6. \A k \in 1 .. Len(q) - 1 : p[k] = IF k < i THEN q[k] ELSE q[k + 1]
  <2>1. ASSUME NEW k \in 1 .. Len(q) - 1
        PROVE  p[k] = IF k < i THEN q[k] ELSE q[k + 1]
    <3>1. CASE k < i
      BY <1>1, <1>2, <1>4, <3>1
    <3>2. CASE k >= i
      <4>1. k - (i - 1) \in 1 .. Len(q) - i /\ k - (i - 1) + i = k + 1
        BY <1>1, <3>2
      <4>2. p[k] = b[k - (i - 1)]
        BY <1>1, <1>4, <3>2
      <4> QED
        BY <1>1, <1>3, <3>2, <4>1, <4>2
    <3> QED
      BY <1>1, <3>1, <3>2
  <2> QED
    BY <2>1
<1>7. Range(q) = Range(p) \cup {q[i]}
  <2>1. ASSUME NEW k \in 1 .. Len(q), k # i
        PROVE  q[k] \in Range(p)
    <3>1. CASE k < i
      BY <1>1, <1>5, <1>6, <3>1 DEF Range
    <3>2. CASE k > i
      <4>1. k - 1 \in DOMAIN p /\ p[k - 1] = q[k]
        BY <1>1, <1>5, <1>6, <3>2
      <4> QED
        BY <4>1 DEF Range
    <3> QED
      BY <1>1, <2>1, <3>1, <3>2
  <2>2. Range(p) \subseteq Range(q)
    BY <1>1, <1>5, <1>6 DEF Range
  <2> QED
    BY <1>1, <2>1, <2>2 DEF Range
<1>8. ASSUME OneFinalEach(q)
      PROVE  OneFinalEach(p) /\ (q[i].final => \A t \in Range(p) : t.final => t.job # q[i].job)
  <2> DEFINE from(k) == IF k < i THEN k ELSE k + 1
  <2>1. \A k \in DOMAIN p : from(k) \in DOMAIN q /\ from(k) # i /\ p[k] = q[from(k)]
    BY <1>1, <1>5, <1>6
  <2>2. \A k, l \in DOMAIN p : from(k) = from(l) => k = l
    BY <1>1, <1>5
  <2> HIDE DEF from
  <2>3. OneFinalEach(p)
    BY <1>8, <2>1, <2>2 DEF OneFinalEach
  <2>4. \A k \in DOMAIN p : q[i].final /\ p[k].final => p[k].job # q[i].job
    BY <1>8, <2>1 DEF OneFinalEach
  <2> QED
    BY <2>3, <2>4 DEF Range
<1>9. RemoveAt(q, i) = p
  BY DEF RemoveAt, p, a, b
<1> QED
  BY <1>4, <1>7, <1>8, <1>9

-----------------------------------------------------------------------------
(* What one rendering does.                                                *)

LEMMA TxIs ==
    ASSUME NEW j \in Jobs, NEW op \in {"get", "put", "rows", "delete"}
    PROVE  LET t == Tx(op, j)
           IN  /\ t \in TxType /\ t.op = op /\ t.job = j /\ t.status = None
               /\ t.rows = {} /\ ~t.final
  BY DEF Tx, TxType, SnapshotStatus, AnyJob

LEMMA PutSnapshotIs ==
    ASSUME NEW j \in Jobs, NEW status \in SnapshotStatus
    PROVE  LET t == PutSnapshot(j, status)
           IN  /\ t \in TxType /\ t.op = "put" /\ t.job = j /\ t.status = status
               /\ t.rows = {} /\ ~t.final
<1> DEFINE base == Tx("put", j)
<1>1. /\ base \in TxType /\ base.op = "put" /\ base.job = j /\ base.status = None
      /\ base.rows = {} /\ ~base.final
  BY TxIs
<1>2. PutSnapshot(j, status) = [base EXCEPT !.status = status]
  BY DEF PutSnapshot
<1> HIDE DEF base
<1> QED
  BY <1>1, <1>2 DEF TxType

LEMMA PutResultsIs ==
    ASSUME NEW j \in Jobs, NEW R \in SUBSET Row, NEW final \in BOOLEAN
    PROVE  LET t == PutResults(j, R, final)
           IN  /\ t \in TxType /\ t.op = "rows" /\ t.job = j /\ t.rows = R
               /\ t.final = final
<1> DEFINE base == Tx("rows", j)
<1>1. /\ base \in TxType /\ base.op = "rows" /\ base.job = j /\ base.status = None
      /\ base.rows = {} /\ ~base.final
  BY TxIs
<1>2. PutResults(j, R, final) = [base EXCEPT !.rows = R, !.final = final]
  BY DEF PutResults
<1> HIDE DEF base
<1> QED
  BY <1>1, <1>2 DEF TxType

LEMMA HeadAndTail ==
    ASSUME NEW S, NEW c \in Seq(S), c # << >>
    PROVE  Head(c) \in S /\ Tail(c) \in Seq(S) /\ Range(c) = Range(Tail(c)) \cup {Head(c)}
<1> DEFINE t == Tail(c)
<1>1. /\ Head(c) \in S /\ t \in Seq(S) /\ Len(t) = Len(c) - 1
      /\ \A i \in 1 .. Len(t) : t[i] = c[i + 1]
  BY HeadTailProperties
<1>2. DOMAIN c = 1 .. Len(c) /\ DOMAIN t = 1 .. Len(t) /\ Len(c) \in Nat \ {0} /\ Head(c) = c[1]
  BY <1>1, EmptySeq
<1> HIDE DEF t
<1>3. ASSUME NEW i \in 2 .. Len(c)
      PROVE  c[i] \in Range(t)
  <2>1. i - 1 \in DOMAIN t /\ t[i - 1] = c[i]
    BY <1>1, <1>2
  <2> QED
    BY <2>1 DEF Range
<1>4. Range(c) \subseteq Range(t) \cup {Head(c)}
  <2>1. ASSUME NEW i \in DOMAIN c
        PROVE  c[i] \in Range(t) \cup {Head(c)}
    BY <1>2, <1>3
  <2> QED
    BY <2>1 DEF Range
<1>5. Range(t) \cup {Head(c)} \subseteq Range(c)
  <2>1. \A i \in DOMAIN t : t[i] = c[i + 1] /\ i + 1 \in DOMAIN c
    BY <1>1, <1>2
  <2>2. 1 \in DOMAIN c
    BY <1>2
  <2> QED
    BY <1>2, <2>1, <2>2 DEF Range
<1> QED
  BY <1>1, <1>4, <1>5 DEF t

\* A step of the loop that stores a final result: a chunk, or the snapshot.
LEMMA FinalStepIs ==
    ASSUME NEW id \in Jobs, NEW f \in [of : AnyJob, chunks : Seq(SUBSET Row), step : {"first", "next"}]
    PROVE  LET n == FinalStep(id, f)
           IN  /\ n.tx \in TxType /\ n.tx.job = id /\ n.final \in FinalType /\ n.final.of = f.of
               /\ \/ /\ f.chunks = << >> /\ n.tx.op = "put" /\ n.tx.rows = {} /\ ~n.tx.final
                     /\ n.final.step = "over" /\ n.final.chunks = << >>
                  \/ /\ n.tx.op = "rows" /\ n.tx.final /\ n.final.step = "waiting"
                     /\ Range(f.chunks) = Range(n.final.chunks) \cup {n.tx.rows}
<1>1. CASE f.chunks = << >>
  <2> DEFINE t == PutSnapshot(id, "completed")
             g == [f EXCEPT !.step = "over"]
  <2>1. /\ t \in TxType /\ t.op = "put" /\ t.job = id
        /\ t.rows = {} /\ ~t.final
    <3>1. "completed" \in SnapshotStatus /\ f.of \in AnyJob
      BY DEF SnapshotStatus, ScanStatus
    <3> QED
      BY <3>1, PutSnapshotIs
  <2>2. g \in FinalType /\ g.of = f.of /\ g.chunks = << >> /\ g.step = "over"
    BY <1>1 DEF FinalType
  <2>3. FinalStep(id, f) = [tx |-> t, final |-> g]
    BY <1>1 DEF FinalStep
  <2> HIDE DEF t, g
  <2> QED
    BY <1>1, <2>1, <2>2, <2>3
<1>2. CASE f.chunks # << >>
  <2> DEFINE t == PutResults(id, Head(f.chunks), TRUE)
             g == [f EXCEPT !.step = "waiting", !.chunks = Tail(@)]
  <2>1. /\ Head(f.chunks) \in SUBSET Row /\ Tail(f.chunks) \in Seq(SUBSET Row)
        /\ Range(f.chunks) = Range(Tail(f.chunks)) \cup {Head(f.chunks)}
    <3>1. f.chunks \in Seq(SUBSET Row)
      OBVIOUS
    <3> QED
      BY <1>2, <3>1, HeadAndTail
  <2>2. t \in TxType /\ t.op = "rows" /\ t.job = id /\ t.rows = Head(f.chunks) /\ t.final
    <3> DEFINE h == Head(f.chunks)
               u(final) == PutResults(id, h, final)
    <3>1. h \in SUBSET Row
      BY <2>1
    <3> HIDE DEF h
    <3>2. \A final \in BOOLEAN :
              /\ u(final) \in TxType /\ u(final).op = "rows" /\ u(final).job = id
              /\ u(final).rows = h /\ u(final).final = final
      BY <3>1, PutResultsIs
    <3> HIDE DEF u
    <3>3. LET v == u(TRUE)
          IN  /\ v \in TxType /\ v.op = "rows" /\ v.job = id /\ v.rows = h /\ v.final
      BY <3>2
    <3> QED
      BY <3>3 DEF u, h
  <2>3. g \in FinalType /\ g.of = f.of /\ g.chunks = Tail(f.chunks) /\ g.step = "waiting"
    BY <2>1 DEF FinalType
  <2>4. FinalStep(id, f) = [tx |-> t, final |-> g]
    BY <1>2 DEF FinalStep
  <2>5. Range(f.chunks) = Range(g.chunks) \cup {t.rows}
    BY <2>1, <2>2, <2>3
  <2> HIDE DEF t, g
  <2> DEFINE n == FinalStep(id, f)
  <2>6. n.tx = t /\ n.final = g
    BY <2>4
  <2> HIDE DEF n
  <2>7. /\ n.tx \in TxType /\ n.tx.job = id /\ n.final \in FinalType /\ n.final.of = f.of
        /\ n.tx.op = "rows" /\ n.tx.final /\ n.final.step = "waiting"
    BY <2>2, <2>3, <2>6
  <2>8. Range(f.chunks) = Range(n.final.chunks) \cup {n.tx.rows}
    BY <2>5, <2>6
  <2> QED
    BY <2>7, <2>8 DEF n
<1> QED
  BY <1>1, <1>2

\* Math.max over the numbers of the new entries.
LEMMA NewestIs ==
    ASSUME NEW new \in SUBSET Item, new # {}, NEW n \in Nat, \A x \in new : x.seq <= n
    PROVE  /\ Newest(new) \in 0 .. n
           /\ \A x \in new : x.seq <= Newest(new)
<1> DEFINE S == {x.seq : x \in new}
           Above(k) == {l \in S : k < l}
           T == {Above(k) : k \in S}
<1>1. S \subseteq 0 .. n /\ S # {}
  BY DEF Item
<1> HIDE DEF S
<1>2. IsFiniteSet(S)
  <2>1. IsFiniteSet(0 .. n)
    BY FS_Interval
  <2> QED
    BY <1>1, <2>1, FS_Subset
<1>3. T \subseteq FiniteSubsetsOf(S) /\ T # {}
  <2>1. \A k \in S : Above(k) \in SUBSET S
    OBVIOUS
  <2> HIDE DEF Above
  <2>2. T \subseteq SUBSET S /\ T # {}
    BY <1>1, <2>1
  <2> QED
    BY <1>2, <2>2, FS_FiniteSubsetsOfFinite
<1>4. PICK m \in T : \A y \in T : ~ (<<y, m>> \in StrictSubsetOrdering(S))
  <2> HIDE DEF T
  <2> QED
    BY <1>3, FS_StrictSubsetOrderingWellFounded, WFMin
<1>5. PICK top \in S : m = Above(top)
  OBVIOUS
<1>6. ASSUME NEW k \in S, k > top
       PROVE  FALSE
  <2>1. k \in Above(top) /\ k \notin Above(k)
    BY <1>1, <1>6
  <2>2. Above(k) \subseteq Above(top)
    <3>1. \A l \in S : k < l => top < l
      BY <1>1, <1>6
    <3> QED
      BY <3>1
  <2>3. <<Above(k), Above(top)>> \in StrictSubsetOrdering(S)
    BY <2>1, <2>2 DEF StrictSubsetOrdering
  <2> QED
    BY <1>4, <1>5, <2>3
<1>7. top \in S /\ \A k \in S : top >= k
  BY <1>1, <1>6
<1>8. Max(S) \in S /\ \A k \in S : Max(S) >= k
  BY <1>7 DEF Max
<1> QED
  BY <1>1, <1>8 DEF Newest, S

New(s, p, changed) == Fresh(s, p, NextJob(p, changed), changed)

Ends(p, changed) ==
    /\ changed \cap {"job", "result"} # {} /\ p.job # NoJob
    /\ p.status = "completed" /\ p.result # NoJob /\ ~NextJob(p, changed).finalized

Start(p, id) == FinalStep(id, [of |-> p.result, chunks |-> Chunks(id, p.result), step |-> "first"])

\* What the page may show: the writer turns to its job, and its new entries are
\* of the job that the writer files them under.
Fits(p, changed) ==
    /\ p \in PageType
    /\ p.job # NoJob => NextJob(p, changed).localId = p.job
    /\ \A s \in Stream : \A x \in New(s, p, changed) :
           /\ x.job = NextJob(p, changed).localId /\ x.seq <= p.cursor[s]
           /\ s = "partial" => x.stock \in DOMAIN Found

\* A transaction of the first four effects.
Streamed(t, id) ==
    /\ t \in TxType /\ t.job = id /\ t.op # "delete" /\ ~t.final
    /\ t.op # "rows" => t.rows = {}
    /\ t.rows \subseteq Filed(id, id, "stream")

Optional(q, id) == q = << >> \/ \E t : Streamed(t, id) /\ q = <<t>>

LEMMA OptionalAdds ==
    ASSUME NEW id, NEW q \in Seq(TxType), NEW new, Optional(new, id)
    PROVE  /\ q \o new \in Seq(TxType)
           /\ Range(q \o new) = Range(q) \cup Range(new)
           /\ OneFinalEach(q) => OneFinalEach(q \o new)
           /\ \A t \in Range(new) : Streamed(t, id)
<1>1. new \in Seq(TxType) /\ \A t \in Range(new) : Streamed(t, id)
  <2>1. CASE new = << >>
    BY <2>1 DEF Range
  <2>2. ASSUME NEW t, Streamed(t, id), new = <<t>>
        PROVE  new \in Seq(TxType) /\ \A u \in Range(new) : Streamed(u, id)
    BY <2>2 DEF Range, Streamed
  <2> QED
    BY <2>1, <2>2 DEF Optional
<1>2. \A t \in Range(new) : ~t.final
  BY <1>1 DEF Streamed
<1> QED
  BY <1>1, <1>2, ConcatToQueue

LEMMA NextJobIs ==
    ASSUME writer \in WriterType, NEW p \in PageType, NEW changed
    PROVE  /\ NextJob(p, changed) \in WriterType
           /\ \/ NextJob(p, changed) = writer
              \/ /\ NextJob(p, changed).localId = p.job /\ p.job # NoJob /\ p.job # writer.localId
                 /\ NextJob(p, changed).cursor = NoCursor /\ ~NextJob(p, changed).finalized
                 /\ "job" \in changed
<1>1. NewWriter \in WriterType /\ NewWriter.cursor = NoCursor /\ ~NewWriter.finalized
  BY DEF NewWriter, WriterType, NoCursor, AnyJob
<1>2. p.job \in AnyJob
  BY DEF PageType
<1>3. [NewWriter EXCEPT !.localId = p.job] \in WriterType
  BY <1>1, <1>2 DEF WriterType
<1> QED
  BY <1>1, <1>2, <1>3 DEF NextJob, WriterType

LEMMA StartIs ==
    ASSUME NEW p \in PageType, NEW id \in Jobs, p.result # NoJob
    PROVE  LET n == Start(p, id)
           IN  /\ n.tx \in TxType /\ n.tx.job = id /\ n.final \in FinalType /\ n.final.of = p.result
               /\ p.result \in Jobs
               /\ \/ /\ FinalRows(id, p.result) = {}
                     /\ n.tx.op = "put" /\ n.tx.rows = {} /\ ~n.tx.final
                     /\ n.final.step = "over" /\ n.final.chunks = << >>
                  \/ /\ n.tx.op = "rows" /\ n.tx.final /\ n.final.step = "waiting"
                     /\ (UNION Range(n.final.chunks)) \cup n.tx.rows = FinalRows(id, p.result)
<1> DEFINE ch == Chunks(id, p.result)
           f == [of |-> p.result, chunks |-> ch, step |-> "first"]
           F == FinalRows(id, p.result)
           n == FinalStep(id, f)
<1>1. p.result \in Jobs
  BY DEF PageType, AnyJob
<1>2. ch \in Seq(SUBSET F) /\ \A x \in F : \E k \in DOMAIN ch : x \in ch[k]
  BY <1>1, ChunksAreWhole
<1>3. F \subseteq Row
  BY <1>1, FinalRowsAreFiled DEF Filed
<1> HIDE DEF ch, F
<1>4. UNION Range(ch) = F
  <2>1. Range(ch) \subseteq SUBSET F
    BY <1>2, RangeOfSeq
  <2> QED
    BY <1>2, <2>1 DEF Range
<1>5. f \in [of : AnyJob, chunks : Seq(SUBSET Row), step : {"first", "next"}]
  <2>1. ch \in Seq(SUBSET Row)
    BY <1>2, <1>3, SeqMonotonic
  <2> QED
    BY <1>1, <2>1 DEF AnyJob
<1>6. f.of = p.result /\ f.chunks = ch
  OBVIOUS
<1> HIDE DEF f
<1>7. /\ n.tx \in TxType /\ n.tx.job = id /\ n.final \in FinalType /\ n.final.of = p.result
      /\ \/ /\ ch = << >> /\ n.tx.op = "put" /\ n.tx.rows = {} /\ ~n.tx.final
            /\ n.final.step = "over" /\ n.final.chunks = << >>
         \/ /\ n.tx.op = "rows" /\ n.tx.final /\ n.final.step = "waiting"
            /\ Range(ch) = Range(n.final.chunks) \cup {n.tx.rows}
  BY <1>5, <1>6, FinalStepIs
<1>8. ch = << >> => F = {}
  BY <1>2
<1>9. n = Start(p, id)
  BY DEF Start, f, ch
<1> HIDE DEF n
<1>10. Range(ch) = Range(n.final.chunks) \cup {n.tx.rows} => (UNION Range(n.final.chunks)) \cup n.tx.rows = F
  BY <1>4
<1>11. /\ n.tx \in TxType /\ n.tx.job = id /\ n.final \in FinalType /\ n.final.of = p.result
       /\ p.result \in Jobs
       /\ \/ /\ F = {} /\ n.tx.op = "put" /\ n.tx.rows = {} /\ ~n.tx.final
             /\ n.final.step = "over" /\ n.final.chunks = << >>
          \/ /\ n.tx.op = "rows" /\ n.tx.final /\ n.final.step = "waiting"
             /\ (UNION Range(n.final.chunks)) \cup n.tx.rows = F
  BY <1>1, <1>7, <1>8, <1>10
<1> QED
  BY <1>9, <1>11 DEF F

LEMMA RenderEffect ==
    ASSUME TypeInv, NEW p, NEW changed, Fits(p, changed), Render(p, changed)
    PROVE  LET w == NextJob(p, changed)
               id == w.localId
           IN  /\ page' = p /\ writer' \in WriterType /\ writer'.localId = id
               /\ writer'.finalized = (w.finalized \/ Ends(p, changed))
               /\ \A s \in Stream :
                      /\ w.cursor[s] <= p.cursor[s] => writer'.cursor[s] <= p.cursor[s]
                      /\ New(s, p, changed) = {} => writer'.cursor[s] = w.cursor[s]
               /\ finals' = IF Ends(p, changed) THEN [finals EXCEPT ![id] = Start(p, id).final] ELSE finals
               /\ queue' \in Seq(TxType)
               /\ \E pre :
                      /\ \A t \in pre : Streamed(t, id)
                      /\ Range(queue') = Queued \cup pre
                             \cup (IF Ends(p, changed) THEN {Start(p, id).tx} ELSE {})
                      /\ \A s \in Stream : StreamRows(s, id, New(s, p, changed)) \subseteq UNION {t.rows : t \in pre}
               /\ OneFinalEach(queue) /\ (Ends(p, changed) => \A t \in Queued : t.final => t.job # id)
                      => OneFinalEach(queue')
<1> DEFINE w == NextJob(p, changed)
           id == w.localId
           new(s) == New(s, p, changed)
           jobSet == "job" \in changed /\ p.job # NoJob
           ends == Ends(p, changed)
           started == Start(p, id)
           streamRows(s) == StreamRows(s, id, new(s))
<1>1. /\ page' = p
      /\ writer' = [w EXCEPT !.cursor = [s \in Stream |-> IF new(s) = {} THEN w.cursor[s] ELSE Newest(new(s))],
                             !.finalized = w.finalized \/ ends]
      /\ finals' = IF ends THEN [finals EXCEPT ![id] = started.final] ELSE finals
      /\ \E flush \in BOOLEAN :
             queue' = queue
                   \o (IF id # writer.localId THEN <<Get(id)>> ELSE << >>)
                   \o Written(id, streamRows("partial"))
                   \o Written(id, streamRows("progress"))
                   \o (IF jobSet /\ flush THEN <<PutSnapshot(id, SummarizeStatus(p.status))>> ELSE << >>)
                   \o (IF ends THEN <<started.tx>> ELSE << >>)
  BY DEF Render, New, Ends, Start
<1>2. PICK flush \in BOOLEAN :
          queue' = queue
                \o (IF id # writer.localId THEN <<Get(id)>> ELSE << >>)
                \o Written(id, streamRows("partial"))
                \o Written(id, streamRows("progress"))
                \o (IF jobSet /\ flush THEN <<PutSnapshot(id, SummarizeStatus(p.status))>> ELSE << >>)
                \o (IF ends THEN <<started.tx>> ELSE << >>)
  BY <1>1
<1>3. /\ p \in PageType /\ p.job \in AnyJob /\ w \in WriterType /\ (p.job # NoJob => id = p.job)
      /\ \/ w = writer
         \/ id = p.job /\ p.job # NoJob
  BY NextJobIs DEF Fits, TypeInv, PageType
<1>4. \A s \in Stream : /\ new(s) \subseteq p.items[s] /\ new(s) \in SUBSET Item
                        /\ new(s) # {} => id \in Jobs
                        /\ \A x \in new(s) : x.job = id /\ x.seq <= p.cursor[s]
                                             /\ (s = "partial" => x.stock \in DOMAIN Found)
  BY <1>3 DEF New, Fresh, Fits, PageType, WriterType, AnyJob
<1>5. ends => id \in Jobs /\ started.tx \in TxType /\ started.tx.job = id /\ p.result # NoJob
  <2>1. ends => id \in Jobs /\ p.result # NoJob
    BY <1>3 DEF Ends, AnyJob
  <2> QED
    BY <1>3, <2>1, StartIs
<1>6. p.cursor \in [Stream -> Nat]
  BY <1>3 DEF PageType
<1> HIDE DEF w, new, ends, started
<1>7. \A s \in Stream : new(s) # {} => Newest(new(s)) \in 0 .. p.cursor[s]
  BY <1>4, <1>6, NewestIs
<1>8. /\ writer' \in WriterType /\ writer'.localId = id /\ writer'.finalized = (w.finalized \/ ends)
      /\ \A s \in Stream : writer'.cursor[s] = IF new(s) = {} THEN w.cursor[s] ELSE Newest(new(s))
  <2> DEFINE c == [s \in Stream |-> IF new(s) = {} THEN w.cursor[s] ELSE Newest(new(s))]
  <2>1. c \in [Stream -> Nat]
    BY <1>3, <1>6, <1>7 DEF WriterType
  <2>2. (w.finalized \/ ends) \in BOOLEAN
    OBVIOUS
  <2>3. writer' = [w EXCEPT !.cursor = c, !.finalized = w.finalized \/ ends]
    BY <1>1
  <2>4. \A s \in Stream : c[s] = IF new(s) = {} THEN w.cursor[s] ELSE Newest(new(s))
    OBVIOUS
  <2> HIDE DEF c
  <2>5. writer' \in WriterType /\ writer'.localId = id /\ writer'.finalized = (w.finalized \/ ends)
        /\ writer'.cursor = c
    BY <1>3, <2>1, <2>2, <2>3 DEF WriterType
  <2> QED
    BY <2>4, <2>5
<1> DEFINE a == IF id # writer.localId THEN <<Get(id)>> ELSE << >>
           written(s) == Written(id, streamRows(s))
           d == IF jobSet /\ flush THEN <<PutSnapshot(id, SummarizeStatus(p.status))>> ELSE << >>
           e == IF ends THEN <<started.tx>> ELSE << >>
<1>9. Optional(a, id)
  <2>1. CASE id # writer.localId
    <3>1. id \in Jobs
      BY <1>3, <2>1 DEF AnyJob
    <3>2. Streamed(Get(id), id)
      BY <3>1, TxIs DEF Get, Streamed
    <3> QED
      BY <2>1, <3>2 DEF Optional
  <2> QED
    BY <2>1 DEF Optional
<1>10. ASSUME NEW s \in Stream
       PROVE  Optional(written(s), id) /\ streamRows(s) = UNION {t.rows : t \in Range(written(s))}
  <2>1. CASE streamRows(s) = {}
    <3>1. written(s) = << >>
      BY <2>1 DEF Written
    <3>2. Range(written(s)) = {}
      BY <3>1 DEF Range
    <3> QED
      BY <2>1, <3>1, <3>2 DEF Optional
  <2>2. CASE streamRows(s) # {}
    <3> DEFINE t == PutResults(id, streamRows(s), FALSE)
    <3>1. new(s) # {}
      BY <2>2 DEF StreamRows
    <3>2. id \in Jobs /\ streamRows(s) \subseteq Filed(id, id, "stream")
      BY <1>4, <3>1, StreamRowsAreFiled
    <3>3. written(s) = <<t>> /\ streamRows(s) \in SUBSET Row
      BY <2>2, <3>2 DEF Written, Filed
    <3> HIDE DEF streamRows
    <3>4. \A final \in BOOLEAN :
              LET u == PutResults(id, streamRows(s), final)
              IN  u \in TxType /\ u.op = "rows" /\ u.job = id /\ u.rows = streamRows(s)
                  /\ u.final = final
      BY <3>2, <3>3, PutResultsIs
    <3>5. t \in TxType /\ t.op = "rows" /\ t.job = id /\ t.rows = streamRows(s) /\ ~t.final
      BY <3>4
    <3> HIDE DEF t
    <3>6. Streamed(t, id)
      BY <3>2, <3>5 DEF Streamed
    <3>7. Range(<<t>>) = {t}
      BY DEF Range
    <3> QED
      BY <3>3, <3>5, <3>6, <3>7 DEF Optional
  <2> QED
    BY <2>1, <2>2
<1>11. Optional(d, id)
  <2>1. CASE jobSet /\ flush
    <3> DEFINE status == SummarizeStatus(p.status)
    <3>1. id \in Jobs /\ status \in SnapshotStatus /\ NoJob \in AnyJob
      BY <1>3, <2>1 DEF AnyJob, SummarizeStatus, SnapshotStatus, PageType
    <3> HIDE DEF status
    <3>2. Streamed(PutSnapshot(id, status), id)
      BY <3>1, PutSnapshotIs DEF Streamed
    <3> QED
      BY <2>1, <3>2 DEF Optional, status
  <2> QED
    BY <2>1 DEF Optional
<1>12. queue' = queue \o a \o written("partial") \o written("progress") \o d \o e
  BY <1>2
<1>13. queue \in Seq(TxType) /\ "partial" \in Stream /\ "progress" \in Stream
       /\ \A s \in Stream : s = "partial" \/ s = "progress"
  BY DEF TypeInv, Stream
<1>13a. Optional(written("partial"), id) /\ Optional(written("progress"), id)
  BY <1>10, <1>13
<1> HIDE DEF a, written, d, e, streamRows, jobSet
<1> DEFINE q1 == queue \o a
           q2 == q1 \o written("partial")
           q3 == q2 \o written("progress")
           q4 == q3 \o d
           pre == Range(a) \cup Range(written("partial")) \cup Range(written("progress")) \cup Range(d)
<1>14. /\ q1 \in Seq(TxType) /\ Range(q1) = Range(queue) \cup Range(a)
       /\ OneFinalEach(queue) => OneFinalEach(q1)
       /\ \A t \in Range(a) : Streamed(t, id)
  BY <1>9, <1>13, OptionalAdds
<1> HIDE DEF q1
<1>15. /\ q2 \in Seq(TxType) /\ Range(q2) = Range(q1) \cup Range(written("partial"))
       /\ OneFinalEach(q1) => OneFinalEach(q2)
       /\ \A t \in Range(written("partial")) : Streamed(t, id)
  <2> DEFINE new1 == written("partial")
  <2>1. q1 \in Seq(TxType) /\ Optional(new1, id)
    BY <1>13a, <1>14
  <2> HIDE DEF new1, id
  <2> QED
    BY <2>1, OptionalAdds DEF new1
<1> HIDE DEF q2
<1>16. /\ q3 \in Seq(TxType) /\ Range(q3) = Range(q2) \cup Range(written("progress"))
       /\ OneFinalEach(q2) => OneFinalEach(q3)
       /\ \A t \in Range(written("progress")) : Streamed(t, id)
  <2> DEFINE new1 == written("progress")
  <2>1. q2 \in Seq(TxType) /\ Optional(new1, id)
    BY <1>13a, <1>15
  <2> HIDE DEF new1, id
  <2> QED
    BY <2>1, OptionalAdds DEF new1
<1> HIDE DEF q3
<1>17. /\ q4 \in Seq(TxType) /\ Range(q4) = Range(q3) \cup Range(d)
       /\ OneFinalEach(q3) => OneFinalEach(q4)
       /\ \A t \in Range(d) : Streamed(t, id)
  <2>1. q3 \in Seq(TxType) /\ Optional(d, id)
    BY <1>11, <1>16
  <2> HIDE DEF id
  <2> QED
    BY <2>1, OptionalAdds
<1>18. queue' = q4 \o e
  BY <1>12 DEF q1, q2, q3
<1> HIDE DEF q4
<1>19. /\ \A t \in pre : Streamed(t, id)
       /\ Range(q4) = Queued \cup pre
       /\ OneFinalEach(queue) => OneFinalEach(q4)
       /\ \A s \in Stream : streamRows(s) \subseteq UNION {t.rows : t \in pre}
  <2>1. \A s \in Stream : streamRows(s) \subseteq UNION {t.rows : t \in pre}
    BY <1>10, <1>13
  <2> QED
    BY <1>14, <1>15, <1>16, <1>17, <2>1 DEF Queued
<1> HIDE DEF pre
<1>20. /\ queue' \in Seq(TxType)
       /\ Range(queue') = Queued \cup pre \cup (IF ends THEN {started.tx} ELSE {})
       /\ OneFinalEach(queue) /\ (ends => \A t \in Queued : t.final => t.job # id) => OneFinalEach(queue')
  <2>1. CASE ends
    <3>1. queue' = Append(q4, started.tx)
      BY <1>5, <1>17, <1>18, <2>1, AppendIsConcat DEF e
    <3>2. (\A t \in Queued : t.final => t.job # id) => \A t \in Range(q4) : t.final => t.job # started.tx.job
      BY <1>5, <1>19, <2>1 DEF Streamed
    <3>3. /\ Append(q4, started.tx) \in Seq(TxType)
          /\ Range(Append(q4, started.tx)) = Range(q4) \cup {started.tx}
          /\ OneFinalEach(q4) /\ (started.tx.final => \A t \in Range(q4) : t.final => t.job # started.tx.job)
                  => OneFinalEach(Append(q4, started.tx))
      BY <1>5, <1>17, <2>1, AddedToQueue
    <3> QED
      BY <1>19, <2>1, <3>1, <3>2, <3>3
  <2>2. CASE ~ends
    <3>1. queue' = q4
      BY <1>17, <1>18, <2>2, ConcatEmptySeq DEF e
    <3> QED
      BY <1>17, <1>19, <2>2, <3>1
  <2> QED
    BY <2>1, <2>2
<1>21. \A s \in Stream :
           /\ w.cursor[s] <= p.cursor[s] => writer'.cursor[s] <= p.cursor[s]
           /\ new(s) = {} => writer'.cursor[s] = w.cursor[s]
  BY <1>6, <1>7, <1>8
<1> QED
  BY <1>1, <1>8, <1>19, <1>20, <1>21 DEF w, new, ends, started, streamRows

-----------------------------------------------------------------------------
(* The page, its writer and the transactions on their way.                 *)

Polling == Stream \cup {"asking"}

\* Before the page has been restored there is nothing to write.
EarlyPage ==
    page.step \in {"local", "list"} =>
        /\ page.job = NoJob /\ page.items = NoItems /\ page.cursor = NoCursor /\ writer = NewWriter
        /\ \A j \in Jobs : finals[j] = NoFinal
        /\ queue = << >>
        /\ mishap = "reload" \/ \A j \in Jobs : snapshots[j] = NoSnapshot

WriterFollows ==
    /\ page.job # NoJob => writer.localId = page.job
    /\ writer.localId # NoJob => scan[writer.localId].status # "unborn"

StepsFit ==
    /\ page.step \in Polling \cup {"results"} => page.job # NoJob
    /\ page.step = "asking" => page.status = "running"
    /\ page.job # NoJob /\ page.status = "completed" => scan[page.job].status = "completed"

\* What is shown is of the job that the writer files it under.
ItemsAreOwn ==
    \A s \in Stream : \A x \in page.items[s] :
        /\ x.job = writer.localId /\ x.seq <= page.cursor[s]
        /\ s = "partial" => x.stock \in DOMAIN Found

CursorsFit ==
    \A s \in Stream :
        /\ writer.cursor[s] <= page.cursor[s]
        /\ page.step \in Polling => page.cursor[s] <= Cardinality(ReportedStocks(s, page.job))

PageInv == WriterFollows /\ StepsFit /\ ItemsAreOwn /\ CursorsFit

\* A final result is written once in the life of a page.
FinalsInv ==
    \A j \in Jobs :
        \/ finals[j] = NoFinal
        \/ /\ finals[j].of \in Jobs /\ finals[j].step \in {"waiting", "next", "over", "failed"}
           /\ scan[j].status = "completed"
           /\ j = writer.localId => writer.finalized
           /\ \A R \in Range(finals[j].chunks) : R \subseteq Filed(j, finals[j].of, "result")

QueuedWell(t) ==
    /\ scan[t.job].status # "unborn"
    /\ t.op # "rows" => t.rows = {} /\ ~t.final
    /\ t.rows \subseteq IF t.final THEN Filed(t.job, finals[t.job].of, "result")
                                  ELSE Filed(t.job, t.job, "stream")
    /\ t.final => finals[t.job].step = "waiting"

QueueInv == OneFinalEach(queue) /\ \A t \in Queued : QueuedWell(t)

SnapshotsAreOfScans == \A j \in Jobs : snapshots[j] # NoSnapshot => scan[j].status # "unborn"

WritingInv == TypeInv /\ EarlyPage /\ PageInv /\ FinalsInv /\ QueueInv /\ SnapshotsAreOfScans

-----------------------------------------------------------------------------
(* The backend.                                                            *)

\* Nothing is taken back.
ScanGrows ==
    \A j \in Jobs :
        /\ scan'[j].status = "unborn" => scan[j].status = "unborn"
        /\ scan[j].status = "completed" => scan'[j].status = "completed"
        /\ scan[j].processed <= scan'[j].processed

ScanType == [Jobs -> [status : ScanStatus, processed : 0 .. Total]]

LEMMA ScanMoves ==
    ASSUME TypeInv, [Next]_vars
    PROVE  scan' \in ScanType /\ ScanGrows
<1>1. scan \in ScanType /\ Total \in Nat /\ page.job \in AnyJob
  BY ScanAssumption DEF TypeInv, ScanType, PageType
<1>2. CASE UNCHANGED scan
  BY <1>1, <1>2 DEF ScanGrows, ScanType
<1>3. ASSUME NEW j \in Jobs, StockDone(j)
      PROVE  scan' \in ScanType /\ ScanGrows
  <2>1. scan' = [scan EXCEPT ![j].processed = @ + 1] /\ scan[j].processed < Total
    BY <1>3 DEF StockDone
  <2> QED
    BY <1>1, <2>1 DEF ScanGrows, ScanType
<1>4. ASSUME NEW j \in Jobs, ScanEnds(j)
      PROVE  scan' \in ScanType /\ ScanGrows
  <2>1. PICK status \in {"failed", "completed"} :
            scan' = [scan EXCEPT ![j].status = status] /\ scan[j].status = "running"
    BY <1>4 DEF ScanEnds
  <2> QED
    BY <1>1, <2>1 DEF ScanGrows, ScanType, ScanStatus
<1>5. ASSUME NEW j \in Jobs, ScanStarts(j)
      PROVE  scan' \in ScanType /\ ScanGrows
  <2>1. scan' = [scan EXCEPT ![j].status = "running"] /\ scan[j].status = "unborn"
    BY <1>5 DEF ScanStarts
  <2> QED
    BY <1>1, <2>1 DEF ScanGrows, ScanType, ScanStatus
<1>6. CASE UserStops
  <2> DEFINE k == page.job
  <2>1. scan' = [scan EXCEPT ![k].status = IF @ = "running" THEN "cancelled" ELSE @]
    BY <1>6 DEF UserStops
  <2> DEFINE status == IF scan[k].status = "running" THEN "cancelled" ELSE scan[k].status
  <2> HIDE DEF k
  <2>2. CASE k \in Jobs
    <3>1. scan' = [scan EXCEPT ![k].status = status]
      BY <2>1
    <3>2. status \in ScanStatus /\ (status = "unborn" => scan[k].status = "unborn")
          /\ (scan[k].status = "completed" => status = "completed")
      BY <1>1, <2>2 DEF ScanType, ScanStatus
    <3> HIDE DEF status
    <3> QED
      BY <1>1, <2>2, <3>1, <3>2 DEF ScanGrows, ScanType
  <2>3. CASE k \notin Jobs
    <3>1. scan' = scan
      BY <1>1, <2>1, <2>3 DEF ScanType
    <3> QED
      BY <1>2, <3>1
  <2> QED
    BY <2>2, <2>3
<1>7. CASE UNCHANGED vars
  BY <1>2, <1>7 DEF vars
<1>8. CASE Answers \/ Transactions \/ Finalizers \/ ServedFromDevice \/ Reload \/ \E j \in Jobs : DeleteSnapshot(j)
  BY <1>2, <1>8 DEF Answers, Polled, StreamAnswered, ResultsAnswered, RestoreLocal, RestoreLists, Transactions,
     Completes, Fails, Finalizers, FinalContinues, ServedFromDevice, Reload, DeleteSnapshot
<1> QED
  BY <1>3, <1>4, <1>5, <1>6, <1>7, <1>8 DEF Next, Backend, User

LEMMA ReportedIs ==
    ASSUME scan \in ScanType, NEW s \in Stream, NEW j \in Jobs
    PROVE  /\ IsFiniteSet(ReportedStocks(s, j)) /\ Cardinality(ReportedStocks(s, j)) \in Nat
           /\ Reported(s, j) \in SUBSET Item
           /\ \A x \in Reported(s, j) : /\ x.job = j /\ x.seq <= Cardinality(ReportedStocks(s, j))
                                        /\ s = "partial" => x.stock \in DOMAIN Found
<1> DEFINE S == ReportedStocks(s, j)
<1>1. S \subseteq 1 .. Total /\ (s = "partial" => S \subseteq DOMAIN Found) /\ Total \in Nat
  BY ScanAssumption DEF ReportedStocks, ScanType, Stream
<1>2. IsFiniteSet(S) /\ Cardinality(S) \in Nat
  <2>1. IsFiniteSet(1 .. Total)
    BY <1>1, FS_Interval
  <2> QED
    BY <1>1, <2>1, FS_Subset, FS_CardinalityType
<1>3. ASSUME NEW i \in S
      PROVE  Cardinality(S \cap (1 .. i)) \in Nat /\ Cardinality(S \cap (1 .. i)) <= Cardinality(S)
  <2>1. IsFiniteSet(S \cap (1 .. i)) /\ Cardinality(S \cap (1 .. i)) <= Cardinality(S)
    BY <1>2, FS_Intersection
  <2> QED
    BY <2>1, FS_CardinalityType
<1> HIDE DEF S
<1>4. Reported(s, j) = {[job |-> j, seq |-> Cardinality(S \cap (1 .. i)), stock |-> i] : i \in S}
  BY DEF Reported, S
<1>5. ASSUME NEW x \in Reported(s, j)
      PROVE  /\ x \in Item /\ x.job = j /\ x.seq <= Cardinality(S)
             /\ s = "partial" => x.stock \in DOMAIN Found
  <2>1. PICK i \in S : x = [job |-> j, seq |-> Cardinality(S \cap (1 .. i)), stock |-> i]
    BY <1>4
  <2> QED
    BY <1>1, <1>3, <2>1 DEF Item
<1> QED
  BY <1>2, <1>5 DEF S

LEMMA ReportedGrows ==
    ASSUME scan \in ScanType, scan' \in ScanType, ScanGrows, NEW s \in Stream, NEW j \in Jobs
    PROVE  /\ Cardinality(ReportedStocks(s, j)) <= Cardinality(ReportedStocks(s, j)')
           /\ Cardinality(ReportedStocks(s, j)') \in Nat
<1> DEFINE S == ReportedStocks(s, j)
           T == ReportedStocks(s, j)'
<1>1. S \subseteq T /\ T \subseteq 1 .. Total /\ Total \in Nat
  BY ScanAssumption DEF ReportedStocks, ScanType, ScanGrows
<1>2. IsFiniteSet(T)
  <2>1. IsFiniteSet(1 .. Total)
    BY <1>1, FS_Interval
  <2> QED
    BY <1>1, <2>1, FS_Subset
<1> HIDE DEF S, T
<1>3. Cardinality(S) <= Cardinality(T) /\ Cardinality(T) \in Nat
  BY <1>1, <1>2, FS_Subset, FS_CardinalityType
<1> QED
  BY <1>3 DEF S, T

-----------------------------------------------------------------------------
(* What all renderings of the page have in common.                         *)

NewItemsAreOwn(p, changed) ==
    \A s \in Stream : \A x \in p.items[s] :
        /\ x.job = NextJob(p, changed).localId /\ x.seq <= p.cursor[s]
        /\ s = "partial" => x.stock \in DOMAIN Found

\* The cursors of the writer stay behind those of the page, and these behind
\* what the job has reported.
NewCursorsFit(p, changed) ==
    \A s \in Stream :
        /\ NextJob(p, changed).cursor[s] <= p.cursor[s]
        /\ p.step \in Polling =>
               \A k \in Jobs : k = p.job => p.cursor[s] <= Cardinality(ReportedStocks(s, k)')

NewStepFits(p) ==
    /\ p.step \in Polling \cup {"results"} => p.job # NoJob
    /\ p.step = "asking" => p.status = "running"
    /\ p.job # NoJob => /\ scan'[p.job].status # "unborn"
                        /\ p.status = "completed" => scan'[p.job].status = "completed"

\* The page turns to another job with nothing shown of it.
Turns(p, changed) ==
    p.job \notin {NoJob, writer.localId} =>
        /\ "job" \in changed /\ p.items = NoItems /\ p.cursor = NoCursor
        /\ page.step = "list" \/ scan[p.job].status = "unborn"

\* The page is restored first.
Restored(p, changed) ==
    p.step \in {"local", "list"} =>
        /\ page.step = "local" /\ changed \subseteq {"result"}
        /\ p.job = NoJob /\ p.items = page.items /\ p.cursor = page.cursor

\* A result that the writer takes for its job's is this job's, unless the job has
\* just been seen to be completed.
ResultFits(p, changed) ==
    Ends(p, changed) => p.result = p.job \/ (page.job = p.job /\ page.status = "running")

\* What is newly shown goes to the writer.
Shows(p, changed) == \A s \in Stream : p.items[s] \subseteq page.items[s] \cup New(s, p, changed)

\* A job that is shown to run was shown to run, or has just been turned to.
StatusFits(p) ==
    p.job # NoJob /\ p.status = "running" =>
        \/ page.job = p.job /\ page.status = "running"
        \/ scan'[p.job].status = "running"

Rendering(p, changed) ==
    /\ p \in PageType /\ Render(p, changed)
    /\ UNCHANGED <<snapshots, rows, lost>>
    /\ mishap' = mishap \/ (mishap = "none" /\ mishap' = "answer")
    /\ NewItemsAreOwn(p, changed) /\ NewCursorsFit(p, changed) /\ NewStepFits(p)
    /\ Turns(p, changed) /\ Restored(p, changed) /\ ResultFits(p, changed)
    /\ Shows(p, changed) /\ StatusFits(p)
    /\ p.job # NoJob => NextJob(p, changed).localId = p.job

Rendered == \E p, changed : Rendering(p, changed)

\* The writer that does not turn.
LEMMA SameJob ==
    ASSUME NEW p, NEW changed, p.job \in {NoJob, writer.localId} \/ "job" \notin changed
    PROVE  NextJob(p, changed) = writer
  BY DEF NextJob

LEMMA EmptyStreams ==
    /\ NoItems \in [Stream -> SUBSET Item] /\ NoCursor \in [Stream -> Nat]
    /\ \A s \in Stream : NoItems[s] = {} /\ NoCursor[s] = 0
  BY DEF NoItems, NoCursor

\* A page that turns to a job which runs.
LEMMA FollowedRenders ==
    ASSUME WritingInv, scan' \in ScanType, ScanGrows, NEW j \in Jobs, scan'[j].status = "running",
           page.step = "list" \/ scan[j].status = "unborn",
           Render(Followed(page, j), {"job", "partial", "progress"}),
           UNCHANGED <<snapshots, rows, lost, mishap>>
    PROVE  Rendered
<1> DEFINE p == Followed(page, j)
           changed == {"job", "partial", "progress"}
           w == NextJob(p, changed)
<1>1. page \in PageType /\ writer \in WriterType /\ scan \in ScanType
  BY DEF WritingInv, TypeInv, ScanType
<1>2. p \in PageType /\ p.job = j /\ p.status = "running" /\ p.items = NoItems /\ p.cursor = NoCursor
      /\ p.step = "asking"
  BY <1>1, EmptyStreams DEF Followed, PageType, AnyJob, ScanStatus, PageStep
<1>3. j # writer.localId /\ j # NoJob
  BY <1>1, ScanAssumption DEF WritingInv, EarlyPage, PageInv, WriterFollows, NewWriter
<1> HIDE DEF p
<1>4. w.localId = j /\ w.cursor = NoCursor
  BY <1>2, <1>3 DEF NextJob, NewWriter
<1>5. NewItemsAreOwn(p, changed)
  BY <1>2, EmptyStreams DEF NewItemsAreOwn
<1>6. NewCursorsFit(p, changed)
  <2>1. \A s \in Stream : 0 <= Cardinality(ReportedStocks(s, j)')
    BY <1>1, ReportedGrows
  <2> QED
    BY <1>2, <1>4, <2>1, EmptyStreams DEF NewCursorsFit
<1>7. NewStepFits(p)
  BY <1>2, <1>3 DEF NewStepFits, Polling
<1>8. Turns(p, changed) /\ Restored(p, changed) /\ ResultFits(p, changed)
  BY <1>2 DEF Turns, Restored, ResultFits, Ends
<1>9. Render(p, changed)
  BY DEF p
<1>10. Shows(p, changed) /\ StatusFits(p)
  BY <1>2, EmptyStreams DEF Shows, StatusFits
<1> QED
  BY <1>2, <1>4, <1>5, <1>6, <1>7, <1>8, <1>9, <1>10 DEF Rendered, Rendering

\* A page that stays with its job, or with none, and gets no new entries.
LEMMA QuietRenders ==
    ASSUME WritingInv, UNCHANGED <<scan, snapshots, rows, lost>>,
           mishap' = mishap \/ (mishap = "none" /\ mishap' = "answer"),
           NEW p \in PageType, NEW changed, Render(p, changed),
           p.job \in {NoJob, page.job}, p.items = page.items, p.cursor = page.cursor,
           p.job # NoJob /\ p.status = "completed" => scan[p.job].status = "completed",
           p.step \in Polling \cup {"results"} => p.job # NoJob,
           p.step \in Polling => page.step \in Polling,
           p.step = "asking" => p.status = "running",
           p.job # NoJob /\ p.status = "running" => page.status = "running",
           Restored(p, changed), ResultFits(p, changed)
    PROVE  Rendered
<1>1. p.job \in {NoJob, writer.localId}
  BY DEF WritingInv, PageInv, WriterFollows
<1>2. NextJob(p, changed) = writer
  BY <1>1, SameJob
<1>3. NewItemsAreOwn(p, changed)
  BY <1>2 DEF NewItemsAreOwn, WritingInv, PageInv, ItemsAreOwn
<1>4. NewCursorsFit(p, changed)
  <2>1. ASSUME NEW s \in Stream
        PROVE  writer.cursor[s] <= page.cursor[s]
    BY DEF WritingInv, PageInv, CursorsFit
  <2>2. ASSUME NEW s \in Stream, p.step \in Polling, NEW k \in Jobs, k = p.job
        PROVE  page.cursor[s] <= Cardinality(ReportedStocks(s, k)')
    <3>1. page.step \in Polling /\ k = page.job
      BY <2>2
    <3>2. page.cursor[s] <= Cardinality(ReportedStocks(s, k))
      BY <3>1 DEF WritingInv, PageInv, CursorsFit
    <3>3. ReportedStocks(s, k) = ReportedStocks(s, k)'
      BY DEF ReportedStocks
    <3> QED
      BY <3>2, <3>3
  <2> QED
    BY <1>2, <2>1, <2>2 DEF NewCursorsFit
<1>5. NewStepFits(p)
  BY <1>1 DEF NewStepFits, WritingInv, PageInv, WriterFollows
<1>6. Turns(p, changed) /\ Shows(p, changed) /\ StatusFits(p)
  BY <1>1 DEF Turns, Shows, StatusFits
<1> QED
  BY <1>1, <1>2, <1>3, <1>4, <1>5, <1>6 DEF Rendered, Rendering

Read(s, new, step) ==
    [page EXCEPT !.step = step, !.items[s] = @ \cup new, !.cursor[s] = Cardinality(ReportedStocks(s, page.job))]

\* A page that has read a stream of its job.
LEMMA StreamRenders ==
    ASSUME WritingInv, UNCHANGED <<scan, snapshots, rows, lost, mishap>>,
           NEW s \in Stream, page.step = s, NEW new, new \subseteq Reported(s, page.job),
           \A x \in new : x.seq > page.cursor[s],
           NEW p, NEW changed \in {{}, {s}}, Render(p, changed), new # {} => changed = {s},
           NEW step \in {"progress", NextStep(page.status)},
           p = Read(s, new, step)
    PROVE  Rendered
<1> DEFINE j == page.job
           n == Cardinality(ReportedStocks(s, page.job))
<1>1. /\ page \in PageType /\ j \in Jobs /\ j = writer.localId /\ s \in Polling
      /\ j # NoJob /\ scan[j].status # "unborn"
      /\ page.status = "completed" => scan[j].status = "completed"
  BY ScanAssumption DEF WritingInv, TypeInv, PageType, AnyJob, PageInv, WriterFollows, StepsFit, Polling
<1>2. /\ n \in Nat /\ Reported(s, j) \in SUBSET Item
      /\ \A x \in Reported(s, j) : x.job = j /\ x.seq <= n /\ (s = "partial" => x.stock \in DOMAIN Found)
  BY <1>1, ReportedIs DEF WritingInv, TypeInv, ScanType
<1>3. page.cursor[s] <= n /\ writer.cursor[s] <= page.cursor[s]
  BY <1>1 DEF WritingInv, PageInv, CursorsFit
<1> HIDE DEF n
<1>4. step \in PageStep \ {"local", "list"} /\ (step = "asking" => page.status = "running")
  BY DEF NextStep, PageStep, Stream
<1>5. /\ p \in PageType /\ p.job = j /\ p.status = page.status /\ p.result = page.result /\ p.step = step
      /\ p.items[s] = page.items[s] \cup new /\ p.cursor[s] = n
      /\ \A u \in Stream \ {s} : p.items[u] = page.items[u] /\ p.cursor[u] = page.cursor[u]
  <2>1. page.items[s] \cup new \in SUBSET Item
    BY <1>1, <1>2 DEF PageType
  <2>2. page.items \in [Stream -> SUBSET Item] /\ page.cursor \in [Stream -> Nat]
    BY <1>1 DEF PageType
  <2> DEFINE items == [page.items EXCEPT ![s] = @ \cup new]
             cursor == [page.cursor EXCEPT ![s] = n]
  <2>3. /\ items \in [Stream -> SUBSET Item] /\ items[s] = page.items[s] \cup new
        /\ cursor \in [Stream -> Nat] /\ cursor[s] = n
        /\ \A u \in Stream \ {s} : items[u] = page.items[u] /\ cursor[u] = page.cursor[u]
    BY <1>2, <2>1, <2>2
  <2>4. p = [page EXCEPT !.step = step, !.items = items, !.cursor = cursor]
    BY DEF n, Read
  <2> HIDE DEF items, cursor
  <2>5. p \in PageType /\ p.job = j /\ p.status = page.status /\ p.result = page.result /\ p.step = step
        /\ p.items = items /\ p.cursor = cursor
    BY <1>1, <1>4, <2>3, <2>4 DEF PageType
  <2> QED
    BY <2>3, <2>5
<1>6. NextJob(p, changed) = writer
  BY <1>1, <1>5, SameJob
<1>7. NewItemsAreOwn(p, changed)
  <2>1. ASSUME NEW u \in Stream, NEW x \in p.items[u]
        PROVE  x.job = j /\ x.seq <= p.cursor[u] /\ (u = "partial" => x.stock \in DOMAIN Found)
    <3>1. x \in page.items[u] => x.job = j /\ x.seq <= page.cursor[u] /\ (u = "partial" => x.stock \in DOMAIN Found)
      BY <1>1 DEF WritingInv, PageInv, ItemsAreOwn
    <3>2. CASE u # s
      BY <1>5, <3>1, <3>2
    <3>3. CASE u = s /\ x \in page.items[s]
      <4>1. x.seq \in Nat /\ page.cursor[s] \in Nat /\ p.cursor[s] = n
        BY <1>1, <1>5, <3>3 DEF PageType, Item
      <4> QED
        BY <1>2, <1>3, <3>1, <3>3, <4>1
    <3>4. CASE u = s /\ x \in new
      BY <1>2, <1>5, <3>4
    <3> QED
      BY <1>5, <3>2, <3>3, <3>4
  <2> QED
    BY <1>1, <1>6, <2>1 DEF NewItemsAreOwn
<1>8. NewCursorsFit(p, changed)
  <2>1. ASSUME NEW u \in Stream
        PROVE  writer.cursor[u] <= p.cursor[u] /\ p.cursor[u] <= Cardinality(ReportedStocks(u, j))
    <3>1. writer.cursor[u] <= page.cursor[u] /\ page.cursor[u] <= Cardinality(ReportedStocks(u, j))
      BY <1>1 DEF WritingInv, PageInv, CursorsFit
    <3>2. CASE u # s
      BY <1>5, <3>1, <3>2
    <3>3. CASE u = s
      <4>1. writer.cursor[s] \in Nat /\ page.cursor[s] \in Nat /\ p.cursor[s] = n
        BY <1>1, <1>5 DEF WritingInv, TypeInv, WriterType, PageType
      <4>2. writer.cursor[s] <= n /\ n <= n
        BY <1>2, <1>3, <4>1
      <4> QED
        BY <3>3, <4>1, <4>2 DEF n
    <3> QED
      BY <3>2, <3>3
  <2>2. \A u, k : ReportedStocks(u, k)' = ReportedStocks(u, k)
    BY DEF ReportedStocks
  <2> QED
    BY <1>5, <1>6, <2>1, <2>2 DEF NewCursorsFit
<1>9. NewStepFits(p) /\ Turns(p, changed) /\ Restored(p, changed)
  BY <1>1, <1>4, <1>5 DEF NewStepFits, Turns, Restored, Polling
<1>10. ResultFits(p, changed) /\ StatusFits(p)
  BY <1>5 DEF ResultFits, StatusFits, Ends, Stream
<1>11. Shows(p, changed)
  <2>1. ASSUME NEW x \in new
        PROVE  x \in New(s, p, changed)
    <3>1. x.seq \in Nat /\ x.seq > page.cursor[s] /\ page.cursor[s] \in Nat /\ writer.cursor[s] \in Nat
      BY <1>1, <1>2 DEF Item, PageType, WritingInv, TypeInv, WriterType
    <3>2. x.seq > writer.cursor[s] /\ x \in p.items[s] /\ changed = {s}
      BY <1>3, <1>5, <3>1
    <3> QED
      BY <1>1, <1>6, <3>2 DEF New, Fresh
  <2> QED
    BY <1>5, <2>1 DEF Shows
<1> QED
  BY <1>1, <1>5, <1>6, <1>7, <1>8, <1>9, <1>10, <1>11 DEF Rendered, Rendering

\* Everything that sets the state of the page renders it.
LEMMA PageStepsRender ==
    ASSUME WritingInv, scan' \in ScanType, ScanGrows,
           ServedFromDevice \/ Answers \/ \E j \in Jobs : ScanStarts(j)
    PROVE  Rendered
<1>1. page \in PageType /\ writer \in WriterType
  BY DEF WritingInv, TypeInv
<1>2. CASE ServedFromDevice
  <2>1. PICK r \in Jobs : /\ Render([page EXCEPT !.result = r, !.job = NoJob], {"job", "result"})
                          /\ page.step = "idle" /\ UNCHANGED <<scan, snapshots, rows, mishap, lost>>
    BY <1>2 DEF ServedFromDevice, Stored
  <2> DEFINE p == [page EXCEPT !.result = r, !.job = NoJob]
  <2>2. p \in PageType /\ p.job = NoJob /\ p.items = page.items /\ p.cursor = page.cursor /\ p.step = "idle"
    BY <1>1, <2>1 DEF PageType, AnyJob
  <2>3. Render(p, {"job", "result"})
    BY <2>1
  <2> HIDE DEF p
  <2>4. Restored(p, {"job", "result"}) /\ ResultFits(p, {"job", "result"})
    BY <2>2 DEF Restored, ResultFits, Ends
  <2> QED
    BY <2>1, <2>2, <2>3, <2>4, QuietRenders DEF Polling, Stream
<1>3. ASSUME NEW j \in Jobs, ScanStarts(j)
      PROVE  Rendered
  BY <1>1, <1>3, FollowedRenders DEF ScanStarts, Stored, WritingInv, TypeInv, ScanType
<1>4. CASE Polled
  <2> DEFINE p == [page EXCEPT !.status = scan[page.job].status, !.step = "partial"]
  <2>1. Render(p, {"job"}) /\ page.step = "asking" /\ UNCHANGED <<scan, snapshots, rows, mishap, lost>>
    BY <1>4 DEF Polled, Stored
  <2>2. page.job \in Jobs /\ page.status = "running" /\ scan[page.job].status \in ScanStatus
    BY <2>1 DEF WritingInv, TypeInv, PageType, AnyJob, PageInv, StepsFit, Polling
  <2>3. /\ p \in PageType /\ p.job = page.job /\ p.items = page.items /\ p.cursor = page.cursor
        /\ p.step = "partial" /\ p.status = scan[p.job].status
    BY <1>1, <2>2 DEF PageType, PageStep, Stream
  <2> HIDE DEF p
  <2>4. Restored(p, {"job"}) /\ ResultFits(p, {"job"})
    BY <2>2, <2>3 DEF Restored, ResultFits
  <2> QED
    BY <2>1, <2>2, <2>3, <2>4, ScanAssumption, QuietRenders DEF Polling
<1>5. CASE StreamAnswered
  <2> DEFINE s == page.step
             step == IF s = "partial" THEN "progress" ELSE NextStep(page.status)
             p == [page EXCEPT !.step = step]
             new == {x \in Reported(s, page.job) : x.seq > page.cursor[s]}
             q == [p EXCEPT !.items[s] = @ \cup new, !.cursor[s] = Cardinality(ReportedStocks(s, page.job))]
             changed == IF new = {} THEN {} ELSE {s}
  <2>1. /\ s \in Stream /\ UNCHANGED <<scan, device, snapshots, rows, lost>>
        /\ \/ Render(q, changed) /\ UNCHANGED mishap
           \/ Mishap("answer") /\ Render(p, {})
    BY <1>5 DEF StreamAnswered
  <2>2. step \in {"progress", NextStep(page.status)}
    OBVIOUS
  <2>3. CASE Render(q, changed) /\ UNCHANGED mishap
    <3>1. q = Read(s, new, step)
      BY DEF Read
    <3>2. /\ changed \in {{}, {s}} /\ (new # {} => changed = {s}) /\ new \subseteq Reported(s, page.job)
          /\ \A x \in new : x.seq > page.cursor[s]
      OBVIOUS
    <3>3. UNCHANGED <<scan, snapshots, rows, lost, mishap>>
      BY <2>1, <2>3
    <3> HIDE DEF q, changed, new, step
    <3>4. Render(q, changed)
      BY <2>3
    <3> QED
      BY <2>1, <2>2, <3>1, <3>2, <3>3, <3>4, StreamRenders
  <2>4. CASE Mishap("answer") /\ Render(p, {})
    <3>1. mishap = "none" /\ mishap' = "answer"
      BY <2>4 DEF Mishap
    <3>2. /\ step \in PageStep \ {"local", "list"} /\ (step = "asking" => page.status = "running")
          /\ page.job # NoJob
      BY <2>1 DEF NextStep, PageStep, Stream, WritingInv, PageInv, StepsFit, Polling
    <3> HIDE DEF step
    <3>3. /\ p \in PageType /\ p.job = page.job /\ p.items = page.items /\ p.cursor = page.cursor
          /\ p.step = step /\ p.status = page.status
      BY <1>1, <3>2 DEF PageType
    <3> HIDE DEF p
    <3>4. Restored(p, {}) /\ ResultFits(p, {})
      BY <3>2, <3>3 DEF Restored, ResultFits, Ends
    <3>5. p.status = "completed" => scan[p.job].status = "completed"
      BY <3>2, <3>3 DEF WritingInv, PageInv, StepsFit
    <3>6. page.step \in Polling
      BY <2>1 DEF Polling
    <3> QED
      BY <2>1, <2>4, <3>1, <3>2, <3>3, <3>4, <3>5, <3>6, QuietRenders
  <2> QED
    BY <2>1, <2>3, <2>4
<1>6. CASE ResultsAnswered
  <2> DEFINE p == [page EXCEPT !.result = page.job, !.step = "idle"]
  <2>1. Render(p, {"result"}) /\ page.step = "results" /\ UNCHANGED <<scan, snapshots, rows, mishap, lost>>
    BY <1>6 DEF ResultsAnswered, Stored
  <2>2. /\ p \in PageType /\ p.job = page.job /\ p.items = page.items /\ p.cursor = page.cursor
        /\ p.step = "idle" /\ p.status = page.status /\ p.result = p.job
    BY <1>1 DEF PageType, PageStep
  <2> HIDE DEF p
  <2>3. Restored(p, {"result"}) /\ ResultFits(p, {"result"})
    BY <2>2 DEF Restored, ResultFits
  <2>4. p.job # NoJob /\ p.status = "completed" => scan[p.job].status = "completed"
    BY <2>2 DEF WritingInv, PageInv, StepsFit
  <2> QED
    BY <2>1, <2>2, <2>3, <2>4, QuietRenders DEF Polling, Stream
<1>7. CASE RestoreLocal
  <2>1. PICK r \in AnyJob : /\ Render([page EXCEPT !.result = r, !.step = "list"], IF r = NoJob THEN {} ELSE {"result"})
                            /\ page.step = "local" /\ UNCHANGED <<scan, snapshots, rows, mishap, lost>>
    BY <1>7 DEF RestoreLocal, Stored
  <2> DEFINE p == [page EXCEPT !.result = r, !.step = "list"]
             changed == IF r = NoJob THEN {} ELSE {"result"}
  <2>2. Render(p, changed) /\ changed \subseteq {"result"} /\ page.job = NoJob
    BY <2>1 DEF WritingInv, EarlyPage
  <2>3. p \in PageType /\ p.job = NoJob /\ p.items = page.items /\ p.cursor = page.cursor /\ p.step = "list"
    BY <1>1, <2>2 DEF PageType, PageStep
  <2> HIDE DEF p, changed
  <2>4. Restored(p, changed) /\ ResultFits(p, changed)
    BY <2>1, <2>2, <2>3 DEF Restored, ResultFits, Ends
  <2> QED
    BY <2>1, <2>2, <2>3, <2>4, QuietRenders DEF Polling, Stream
<1>8. CASE RestoreLists
  <2>1. /\ page.step = "list" /\ UNCHANGED <<scan, snapshots, rows, mishap, lost>>
        /\ \/ \E j \in Jobs : scan[j].status = "running" /\ Render(Followed(page, j), {"job", "partial", "progress"})
           \/ \E j \in Jobs :
                  /\ scan[j].status = "completed"
                  /\ Render([page EXCEPT !.job = j, !.status = "completed", !.result = j, !.step = "idle"],
                            {"job", "result"})
           \/ Render([page EXCEPT !.step = "idle"], {})
    BY <1>8 DEF RestoreLists, Stored
  <2>2. page.job = NoJob /\ page.items = NoItems /\ page.cursor = NoCursor /\ writer = NewWriter
    BY <2>1 DEF WritingInv, EarlyPage
  <2>3. ASSUME NEW j \in Jobs, scan[j].status = "running",
               Render(Followed(page, j), {"job", "partial", "progress"})
        PROVE  Rendered
    BY <2>1, <2>3, FollowedRenders
  <2>4. ASSUME NEW j \in Jobs, scan[j].status = "completed",
               Render([page EXCEPT !.job = j, !.status = "completed", !.result = j, !.step = "idle"],
                      {"job", "result"})
        PROVE  Rendered
    <3> DEFINE p == [page EXCEPT !.job = j, !.status = "completed", !.result = j, !.step = "idle"]
               changed == {"job", "result"}
    <3>1. /\ p \in PageType /\ p.job = j /\ p.items = NoItems /\ p.cursor = NoCursor
          /\ p.step = "idle" /\ p.status = "completed" /\ p.result = j
      BY <1>1, <2>2 DEF PageType, PageStep, AnyJob, ScanStatus
    <3>2. Render(p, changed)
      BY <2>4
    <3> HIDE DEF p
    <3>3. NextJob(p, changed).localId = j /\ NextJob(p, changed).cursor = NoCursor
      BY <2>2, <3>1, ScanAssumption DEF NextJob, NewWriter
    <3>4. NewItemsAreOwn(p, changed) /\ NewCursorsFit(p, changed)
      BY <3>1, <3>3, EmptyStreams DEF NewItemsAreOwn, NewCursorsFit, Polling, Stream
    <3>5. NewStepFits(p) /\ Turns(p, changed) /\ Restored(p, changed) /\ ResultFits(p, changed)
      BY <2>1, <2>4, <3>1 DEF NewStepFits, Turns, Restored, ResultFits, Polling, Stream
    <3>6. Shows(p, changed) /\ StatusFits(p)
      BY <3>1, EmptyStreams DEF Shows, StatusFits
    <3> QED
      BY <2>1, <3>1, <3>2, <3>3, <3>4, <3>5, <3>6 DEF Rendered, Rendering
  <2>5. ASSUME Render([page EXCEPT !.step = "idle"], {})
        PROVE  Rendered
    <3> DEFINE p == [page EXCEPT !.step = "idle"]
    <3>1. p \in PageType /\ p.job = NoJob /\ p.items = page.items /\ p.cursor = page.cursor /\ p.step = "idle"
      BY <1>1, <2>2 DEF PageType, PageStep
    <3>2. Render(p, {})
      BY <2>5
    <3> HIDE DEF p
    <3>3. Restored(p, {}) /\ ResultFits(p, {})
      BY <3>1 DEF Restored, ResultFits, Ends
    <3> QED
      BY <2>1, <3>1, <3>2, <3>3, QuietRenders DEF Polling, Stream
  <2> QED
    BY <2>1, <2>3, <2>4, <2>5
<1> QED
  BY <1>2, <1>3, <1>4, <1>5, <1>6, <1>7, <1>8 DEF Answers

\* The writer starts on a final result once in a job's life.
LEMMA FinalIsFirst ==
    ASSUME WritingInv, NEW p \in PageType, NEW changed, Turns(p, changed),
           NEW j \in Jobs, j = NextJob(p, changed).localId, ~NextJob(p, changed).finalized
    PROVE  finals[j] = NoFinal
<1>1. writer \in WriterType /\ FinalsInv
  BY DEF WritingInv, TypeInv
<1>2. CASE NextJob(p, changed) = writer
  BY <1>1, <1>2 DEF FinalsInv
<1>3. CASE NextJob(p, changed) # writer
  <2>1. j = p.job /\ p.job \notin {NoJob, writer.localId}
    BY <1>1, <1>3, NextJobIs
  <2>2. page.step = "list" \/ scan[j].status = "unborn"
    BY <2>1 DEF Turns
  <2> QED
    BY <2>2 DEF WritingInv, EarlyPage, FinalsInv
<1> QED
  BY <1>2, <1>3

\* The transactions and refs that a rendering leaves.
RenderLeaves(p, changed, pre) ==
    LET w == NextJob(p, changed)
        id == w.localId
        n == Start(p, id)
    IN  /\ page' = p /\ writer' \in WriterType /\ writer'.localId = id
        /\ writer'.finalized = (w.finalized \/ Ends(p, changed))
        /\ \A s \in Stream :
               /\ writer'.cursor[s] <= p.cursor[s]
               /\ New(s, p, changed) = {} => writer'.cursor[s] = w.cursor[s]
               /\ StreamRows(s, id, New(s, p, changed)) \subseteq UNION {t.rows : t \in pre}
        /\ finals' = IF Ends(p, changed) THEN [finals EXCEPT ![id] = n.final] ELSE finals
        /\ queue' \in Seq(TxType) /\ OneFinalEach(queue')
        /\ \A t \in pre : Streamed(t, id)
        /\ Range(queue') = Queued \cup pre \cup (IF Ends(p, changed) THEN {n.tx} ELSE {})
        /\ Ends(p, changed) => id \in Jobs /\ id = p.job /\ finals[id] = NoFinal /\ p.result # NoJob

LEMMA WhatIsRendered ==
    ASSUME WritingInv, NEW p, NEW changed, Rendering(p, changed)
    PROVE  \E pre : RenderLeaves(p, changed, pre)
<1> DEFINE w == NextJob(p, changed)
           id == w.localId
<1>1. /\ TypeInv /\ p \in PageType /\ Render(p, changed) /\ Turns(p, changed)
      /\ NewItemsAreOwn(p, changed) /\ NewCursorsFit(p, changed) /\ (p.job # NoJob => id = p.job)
  BY DEF Rendering, WritingInv
<1>2. Fits(p, changed)
  <2>1. \A s \in Stream : New(s, p, changed) \subseteq p.items[s]
    BY DEF New, Fresh
  <2> QED
    BY <1>1, <2>1 DEF Fits, NewItemsAreOwn
<1>3. ASSUME Ends(p, changed)
      PROVE  id \in Jobs /\ id = p.job /\ finals[id] = NoFinal /\ p.result # NoJob
  <2>1. id \in Jobs /\ id = p.job /\ p.result # NoJob /\ ~w.finalized
    BY <1>1, <1>3 DEF Ends, PageType, AnyJob
  <2> QED
    BY <1>1, <2>1, FinalIsFirst
<1>4. ASSUME Ends(p, changed), NEW t \in Queued, t.final
      PROVE  t.job # id
  <2>1. finals[t.job].step = "waiting"
    BY <1>4 DEF WritingInv, QueueInv, QueuedWell
  <2> QED
    BY <1>3, <1>4, <2>1 DEF NoFinal
<1>5. OneFinalEach(queue) /\ \A s \in Stream : w.cursor[s] <= p.cursor[s]
  BY <1>1 DEF WritingInv, QueueInv, NewCursorsFit
<1> DEFINE n == Start(p, id)
           rowsOf(s) == StreamRows(s, id, New(s, p, changed))
<1>6. /\ page' = p /\ writer' \in WriterType /\ writer'.localId = id
      /\ writer'.finalized = (w.finalized \/ Ends(p, changed))
      /\ \A s \in Stream :
             /\ w.cursor[s] <= p.cursor[s] => writer'.cursor[s] <= p.cursor[s]
             /\ New(s, p, changed) = {} => writer'.cursor[s] = w.cursor[s]
      /\ finals' = IF Ends(p, changed) THEN [finals EXCEPT ![id] = n.final] ELSE finals
      /\ queue' \in Seq(TxType)
      /\ \E pre :
             /\ \A t \in pre : Streamed(t, id)
             /\ Range(queue') = Queued \cup pre \cup (IF Ends(p, changed) THEN {n.tx} ELSE {})
             /\ \A s \in Stream : rowsOf(s) \subseteq UNION {t.rows : t \in pre}
      /\ OneFinalEach(queue) /\ (Ends(p, changed) => \A t \in Queued : t.final => t.job # id)
             => OneFinalEach(queue')
  BY <1>1, <1>2, RenderEffect
<1> HIDE DEF w, id, n, rowsOf
<1>7. PICK pre :
          /\ \A t \in pre : Streamed(t, id)
          /\ Range(queue') = Queued \cup pre \cup (IF Ends(p, changed) THEN {n.tx} ELSE {})
          /\ \A s \in Stream : rowsOf(s) \subseteq UNION {t.rows : t \in pre}
  BY <1>6
<1>8. OneFinalEach(queue')
  BY <1>4, <1>5, <1>6
<1>9. \A s \in Stream :
          /\ writer'.cursor[s] <= p.cursor[s]
          /\ New(s, p, changed) = {} => writer'.cursor[s] = w.cursor[s]
          /\ rowsOf(s) \subseteq UNION {t.rows : t \in pre}
  BY <1>5, <1>6, <1>7
<1>10. RenderLeaves(p, changed, pre)
  BY <1>3, <1>6, <1>7, <1>8, <1>9 DEF RenderLeaves, w, id, n, rowsOf
<1> QED
  BY <1>10

\* The transaction with which a final result begins.
LEMMA StartIsFiled ==
    ASSUME NEW p \in PageType, NEW id \in Jobs, p.result # NoJob
    PROVE  LET n == Start(p, id)
           IN  /\ n.final \in FinalType /\ n.final.of = p.result /\ p.result \in Jobs
               /\ n.final.step \in {"waiting", "over"}
               /\ \A R \in Range(n.final.chunks) : R \subseteq Filed(id, p.result, "result")
               /\ n.tx \in TxType /\ n.tx.job = id /\ n.tx.op # "delete"
               /\ n.tx.op # "rows" => n.tx.rows = {} /\ ~n.tx.final
               /\ n.tx.rows \subseteq Filed(id, p.result, "result")
               /\ n.tx.rows = {} \/ n.tx.final
               /\ n.tx.final => n.final.step = "waiting"
<1> DEFINE n == Start(p, id)
<1>1. FinalRows(id, p.result) \subseteq Filed(id, p.result, "result") /\ p.result \in Jobs
  BY StartIs, FinalRowsAreFiled
<1>2. /\ n.tx \in TxType /\ n.tx.job = id /\ n.final \in FinalType /\ n.final.of = p.result
      /\ \/ /\ n.tx.op = "put" /\ n.tx.rows = {} /\ ~n.tx.final
            /\ n.final.step = "over" /\ n.final.chunks = << >>
         \/ /\ n.tx.op = "rows" /\ n.tx.final /\ n.final.step = "waiting"
            /\ (UNION Range(n.final.chunks)) \cup n.tx.rows = FinalRows(id, p.result)
  BY StartIs
<1> HIDE DEF n
<1>3. Range(<< >>) = {}
  BY DEF Range
<1>4. /\ n.final.step \in {"waiting", "over"}
      /\ \A R \in Range(n.final.chunks) : R \subseteq Filed(id, p.result, "result")
  BY <1>1, <1>2, <1>3
<1>5. /\ n.tx.op # "delete"
      /\ n.tx.op # "rows" => n.tx.rows = {} /\ ~n.tx.final
      /\ n.tx.rows \subseteq Filed(id, p.result, "result")
      /\ n.tx.rows = {} \/ n.tx.final
      /\ n.tx.final => n.final.step = "waiting"
  BY <1>1, <1>2
<1> QED
  BY <1>1, <1>2, <1>4, <1>5 DEF n

LEMMA RenderedKeeps ==
    ASSUME WritingInv, scan' \in ScanType, ScanGrows, device' \in AnyJob, Rendered
    PROVE  WritingInv'
<1>1. PICK p, changed : Rendering(p, changed)
  BY DEF Rendered
<1>2. PICK pre : RenderLeaves(p, changed, pre)
  BY <1>1, WhatIsRendered
<1> DEFINE w == NextJob(p, changed)
           id == w.localId
           ends == Ends(p, changed)
           n == Start(p, id)
<1>3. /\ page' = p /\ writer' \in WriterType /\ writer'.localId = id /\ writer'.finalized = (w.finalized \/ ends)
      /\ \A s \in Stream : /\ writer'.cursor[s] <= p.cursor[s]
                           /\ New(s, p, changed) = {} => writer'.cursor[s] = w.cursor[s]
      /\ finals' = IF ends THEN [finals EXCEPT ![id] = n.final] ELSE finals
      /\ queue' \in Seq(TxType) /\ OneFinalEach(queue') /\ \A t \in pre : Streamed(t, id)
      /\ Range(queue') = Queued \cup pre \cup (IF ends THEN {n.tx} ELSE {})
      /\ ends => id \in Jobs /\ id = p.job /\ finals[id] = NoFinal /\ p.result # NoJob
  BY <1>2 DEF RenderLeaves
<1>4. /\ p \in PageType /\ UNCHANGED <<snapshots, rows, lost>>
      /\ mishap' = mishap \/ (mishap = "none" /\ mishap' = "answer")
      /\ NewItemsAreOwn(p, changed) /\ NewCursorsFit(p, changed) /\ NewStepFits(p)
      /\ Turns(p, changed) /\ Restored(p, changed) /\ (p.job # NoJob => id = p.job)
  BY <1>1 DEF Rendering
<1>5. /\ w \in WriterType
      /\ \/ w = writer
         \/ id = p.job /\ p.job \notin {NoJob, writer.localId}
  BY <1>4, NextJobIs DEF WritingInv, TypeInv
<1>6. ends => /\ n.final \in FinalType /\ n.final.of = p.result /\ p.result \in Jobs
              /\ n.final.step \in {"waiting", "over"}
              /\ \A R \in Range(n.final.chunks) : R \subseteq Filed(id, p.result, "result")
              /\ n.tx \in TxType /\ n.tx.job = id
              /\ n.tx.op # "rows" => n.tx.rows = {} /\ ~n.tx.final
              /\ n.tx.rows \subseteq Filed(id, p.result, "result")
              /\ n.tx.rows = {} \/ n.tx.final
              /\ n.tx.final => n.final.step = "waiting"
  BY <1>3, <1>4, StartIsFiled
<1>7. /\ finals \in [Jobs -> FinalType] /\ scan \in ScanType /\ snapshots \in [Jobs -> SnapshotStatus]
      /\ rows \in SUBSET Row /\ queue \in Seq(TxType) /\ writer \in WriterType /\ page \in PageType
  BY DEF WritingInv, TypeInv, ScanType
<1>8. ends => p.status = "completed" /\ ~w.finalized
  BY DEF Ends
<1> HIDE DEF w, id, ends, n
<1>9. finals' \in [Jobs -> FinalType]
  BY <1>3, <1>6, <1>7
<1>10. TypeInv'
  BY <1>3, <1>4, <1>7, <1>9 DEF TypeInv, ScanType
<1>11. id # NoJob => id \in Jobs /\ scan'[id].status # "unborn"
  <2>1. CASE w = writer
    <3>1. id # NoJob => id \in Jobs /\ scan[id].status # "unborn"
      BY <1>7, <2>1 DEF id, WriterType, AnyJob, WritingInv, PageInv, WriterFollows
    <3> QED
      BY <3>1 DEF ScanGrows
  <2>2. CASE id = p.job /\ p.job # NoJob
    BY <1>4, <2>2 DEF NewStepFits, PageType, AnyJob
  <2> QED
    BY <1>5, <2>1, <2>2
<1>12. WriterFollows'
  BY <1>3, <1>4, <1>11 DEF WriterFollows
<1>13. StepsFit'
  BY <1>3, <1>4 DEF StepsFit, NewStepFits
<1>14. ItemsAreOwn'
  BY <1>3, <1>4 DEF ItemsAreOwn, NewItemsAreOwn, id, w
<1>15. CursorsFit'
  <2>1. ASSUME NEW s \in Stream, p.step \in Polling
        PROVE  p.cursor[s] <= Cardinality(ReportedStocks(s, p.job)')
    <3>1. p.job \in Jobs
      BY <1>4, <2>1 DEF NewStepFits, PageType, AnyJob
    <3> QED
      BY <1>4, <2>1, <3>1 DEF NewCursorsFit
  <2>2. \A s : ReportedStocks(s, page.job)' = ReportedStocks(s, p.job)'
    BY <1>3 DEF ReportedStocks
  <2> QED
    BY <1>3, <2>1, <2>2 DEF CursorsFit
<1>16. FinalsInv'
  <2>1. ASSUME NEW j \in Jobs, ends, j = id
        PROVE  /\ finals'[j].of \in Jobs /\ finals'[j].step \in {"waiting", "next", "over", "failed"}
               /\ scan'[j].status = "completed" /\ writer'.finalized
               /\ \A R \in Range(finals'[j].chunks) : R \subseteq Filed(j, finals'[j].of, "result")
    <3>1. finals'[j] = n.final
      BY <1>3, <1>7, <2>1
    <3>2. scan'[j].status = "completed"
      BY <1>3, <1>4, <1>8, <2>1, ScanAssumption DEF NewStepFits
    <3> QED
      BY <1>3, <1>6, <2>1, <3>1, <3>2
  <2>2. ASSUME NEW j \in Jobs, ~(ends /\ j = id), finals'[j] # NoFinal
        PROVE  /\ finals'[j].of \in Jobs /\ finals'[j].step \in {"waiting", "next", "over", "failed"}
               /\ scan'[j].status = "completed" /\ (j = writer'.localId => writer'.finalized)
               /\ \A R \in Range(finals'[j].chunks) : R \subseteq Filed(j, finals'[j].of, "result")
    <3>1. finals'[j] = finals[j]
      BY <1>3, <1>7, <2>2
    <3>2. /\ finals[j].of \in Jobs /\ finals[j].step \in {"waiting", "next", "over", "failed"}
          /\ scan[j].status = "completed"
          /\ \A R \in Range(finals[j].chunks) : R \subseteq Filed(j, finals[j].of, "result")
      BY <2>2, <3>1 DEF WritingInv, FinalsInv
    <3>3. j = id => w.finalized
      BY <1>4, <2>2, <3>1, FinalIsFirst DEF id, w
    <3> QED
      BY <1>3, <3>1, <3>2, <3>3 DEF ScanGrows
  <2> QED
    BY <2>1, <2>2 DEF FinalsInv
<1>17. QueueInv'
  <2>1. ASSUME NEW t \in Queued
        PROVE  QueuedWell(t)'
    <3>1. t \in TxType /\ QueuedWell(t)
      BY <1>7, RangeIn DEF Queued, WritingInv, QueueInv
    <3>2. t.job \in Jobs /\ (t.final => finals'[t.job] = finals[t.job])
      <4>1. t.job \in Jobs
        BY <3>1 DEF TxType
      <4>2. t.final => finals[t.job].step = "waiting"
        BY <3>1 DEF QueuedWell
      <4>3. t.final => ~(ends /\ t.job = id)
        BY <1>3, <4>2 DEF NoFinal
      <4> QED
        BY <1>3, <1>7, <4>1, <4>3
    <3> QED
      BY <3>1, <3>2 DEF QueuedWell, ScanGrows
  <2>2. ASSUME NEW t \in pre
        PROVE  QueuedWell(t)'
    <3>1. Streamed(t, id)
      BY <1>3
    <3>2. t.job = id /\ id # NoJob
      BY <3>1, ScanAssumption DEF Streamed, TxType
    <3> QED
      BY <1>11, <3>1, <3>2 DEF Streamed, QueuedWell
  <2>3. ASSUME ends, NEW t, t = n.tx
        PROVE  QueuedWell(t)'
    <3>1. id \in Jobs /\ finals'[id] = n.final /\ id # NoJob
      BY <1>3, <1>7, <2>3, ScanAssumption
    <3>2. /\ t.job = id /\ (t.op # "rows" => t.rows = {} /\ ~t.final)
          /\ t.rows \subseteq Filed(id, finals'[id].of, "result") /\ (t.rows = {} \/ t.final)
          /\ t.final => finals'[id].step = "waiting"
      BY <1>6, <2>3, <3>1
    <3> QED
      BY <1>11, <3>1, <3>2 DEF QueuedWell
  <2>4. \A t \in Queued' : QueuedWell(t)'
    <3>1. PICK m : m = n.tx
      OBVIOUS
    <3>2. Queued' = Queued \cup pre \cup (IF ends THEN {m} ELSE {})
      BY <1>3, <3>1 DEF Queued
    <3>3. ends => QueuedWell(m)'
      BY <2>3, <3>1
    <3> QED
      BY <2>1, <2>2, <3>2, <3>3
  <2> QED
    BY <1>3, <2>4 DEF QueueInv
<1>18. EarlyPage'
  <2>1. SUFFICES ASSUME p.step \in {"local", "list"}
                 PROVE  /\ p.job = NoJob /\ p.items = NoItems /\ p.cursor = NoCursor /\ writer' = NewWriter
                        /\ finals' = finals /\ queue' = << >>
    BY <1>3, <1>4, <2>1 DEF EarlyPage, Restored, WritingInv
  <2>2. /\ page.step = "local" /\ changed \subseteq {"result"} /\ p.job = NoJob
        /\ p.items = NoItems /\ p.cursor = NoCursor /\ writer = NewWriter /\ queue = << >>
    BY <1>4, <2>1 DEF Restored, WritingInv, EarlyPage
  <2>3. ~ends /\ w = writer /\ id = NoJob
    BY <2>2 DEF ends, Ends, w, id, NextJob, NewWriter
  <2>4. pre = {}
    BY <1>3, <2>3, ScanAssumption DEF Streamed, TxType
  <2>5. queue' = << >>
    <3>1. Range(queue') = {}
      BY <1>3, <2>2, <2>3, <2>4 DEF Queued, Range
    <3> QED
      BY <1>3, <3>1, EmptySeq, LenProperties DEF Range
  <2>6. writer' = NewWriter
    <3>1. \A s \in Stream : New(s, p, changed) = {}
      BY <2>2 DEF New, Fresh, Stream
    <3>2. writer'.localId = NewWriter.localId /\ writer'.finalized = NewWriter.finalized
      BY <1>3, <2>2, <2>3 DEF NewWriter, WriterType
    <3>3. writer'.cursor = NewWriter.cursor
      <4>1. writer'.cursor \in [Stream -> Nat] /\ writer.cursor \in [Stream -> Nat]
        BY <1>3, <1>7 DEF WriterType
      <4>2. \A s \in Stream : writer'.cursor[s] = writer.cursor[s]
        BY <1>3, <2>3, <3>1
      <4> QED
        BY <2>2, <4>1, <4>2
    <3>4. \A u \in WriterType : u = [localId |-> u.localId, cursor |-> u.cursor, finalized |-> u.finalized]
      BY DEF WriterType
    <3> QED
      BY <1>3, <1>7, <2>2, <3>2, <3>3, <3>4
  <2> QED
    BY <1>3, <2>2, <2>3, <2>5, <2>6
<1>19. SnapshotsAreOfScans'
  BY <1>4 DEF SnapshotsAreOfScans, WritingInv, ScanGrows
<1> QED
  BY <1>10, <1>12, <1>13, <1>14, <1>15, <1>16, <1>17, <1>18, <1>19 DEF WritingInv, PageInv

\* The backend goes on, or the user stops it.
LEMMA BackendKeeps ==
    ASSUME WritingInv, scan' \in ScanType, ScanGrows,
           \/ UNCHANGED page
           \/ page.step = "asking" /\ page' = [page EXCEPT !.step = "idle"],
           UNCHANGED <<device, writer, finals, queue, Stored>>
    PROVE  WritingInv'
<1>1. /\ UNCHANGED <<device, writer, finals, queue, snapshots, rows, mishap>>
      /\ TypeInv /\ page \in PageType /\ finals \in [Jobs -> FinalType] /\ queue \in Seq(TxType)
  BY DEF Stored, WritingInv, TypeInv
<1>2. /\ page' \in PageType /\ page'.job = page.job /\ page'.status = page.status
      /\ page'.items = page.items /\ page'.cursor = page.cursor
      /\ page'.step = page.step \/ (page.step = "asking" /\ page'.step = "idle")
  <2>1. CASE UNCHANGED page
    BY <1>1, <2>1
  <2>2. CASE page.step = "asking" /\ page' = [page EXCEPT !.step = "idle"]
    BY <1>1, <2>2 DEF PageType, PageStep
  <2> QED
    BY <2>1, <2>2
<1>3. TypeInv'
  BY <1>1, <1>2 DEF TypeInv, ScanType
<1>4. EarlyPage'
  BY <1>1, <1>2 DEF EarlyPage, WritingInv
<1>5. WriterFollows'
  <2>1. writer.localId \in AnyJob
    BY <1>1 DEF TypeInv, WriterType
  <2> QED
    BY <1>1, <1>2, <2>1 DEF WriterFollows, WritingInv, PageInv, ScanGrows, AnyJob
<1>6. StepsFit'
  BY <1>2 DEF StepsFit, WritingInv, PageInv, ScanGrows, Polling, Stream, PageType, AnyJob
<1>7. ItemsAreOwn'
  BY <1>1, <1>2 DEF ItemsAreOwn, WritingInv, PageInv
<1>8. CursorsFit'
  <2>1. ASSUME NEW s \in Stream, page'.step \in Polling
        PROVE  page.cursor[s] <= Cardinality(ReportedStocks(s, page.job)')
    <3>1. page.step \in Polling
      BY <1>2, <2>1 DEF Polling, Stream
    <3>2. page.job \in Jobs
      BY <1>1, <3>1 DEF WritingInv, PageInv, StepsFit, PageType, AnyJob
    <3> DEFINE j == page.job
    <3>3. PICK k \in Jobs : k = j
      BY <3>2
    <3>4. page.cursor[s] <= Cardinality(ReportedStocks(s, k)) /\ page.cursor[s] \in Nat
      BY <1>1, <3>1, <3>3 DEF WritingInv, PageInv, CursorsFit, PageType
    <3>5. /\ Cardinality(ReportedStocks(s, k)) <= Cardinality(ReportedStocks(s, k)')
          /\ Cardinality(ReportedStocks(s, k)') \in Nat /\ Cardinality(ReportedStocks(s, k)) \in Nat
      BY <1>1, ReportedGrows, ReportedIs DEF TypeInv, ScanType
    <3>6. ReportedStocks(s, page.job)' = ReportedStocks(s, k)'
      BY <1>2, <3>3 DEF ReportedStocks
    <3> QED
      BY <3>4, <3>5, <3>6
  <2> QED
    BY <1>1, <1>2, <2>1 DEF CursorsFit, WritingInv, PageInv
<1>9. FinalsInv'
  BY <1>1 DEF FinalsInv, WritingInv, ScanGrows
<1>10. QueueInv'
  <2>1. ASSUME NEW t \in Queued
        PROVE  QueuedWell(t)'
    <3>1. QueuedWell(t) /\ t.job \in Jobs
      BY <1>1, RangeIn DEF Queued, WritingInv, QueueInv, TxType
    <3> QED
      BY <1>1, <3>1 DEF QueuedWell, ScanGrows
  <2> QED
    BY <1>1, <2>1 DEF QueueInv, WritingInv, Queued
<1>11. SnapshotsAreOfScans'
  BY <1>1 DEF SnapshotsAreOfScans, WritingInv, ScanGrows
<1> QED
  BY <1>3, <1>4, <1>5, <1>6, <1>7, <1>8, <1>9, <1>10, <1>11 DEF WritingInv, PageInv

LEMMA NoQueue == Range(<< >>) = {}
  BY DEF Range

LEMMA ReloadKeeps ==
    ASSUME WritingInv, Reload
    PROVE  WritingInv'
<1>1. /\ page' = NewPage /\ writer' = NewWriter /\ finals' = [j \in Jobs |-> NoFinal] /\ queue' = << >>
      /\ mishap' = "reload" /\ UNCHANGED <<scan, device, snapshots, rows>> /\ TypeInv
  BY DEF Reload, Mishap, WritingInv
<1>2. NewPage \in PageType /\ NewWriter \in WriterType /\ NoFinal \in FinalType
  BY EmptyStreams DEF NewPage, NewWriter, NoFinal, PageType, WriterType, FinalType, AnyJob, ScanStatus, PageStep
<1>3. TypeInv'
  BY <1>1, <1>2 DEF TypeInv
<1>4. EarlyPage'
  BY <1>1 DEF EarlyPage, NewPage
<1>5. PageInv'
  BY <1>1, EmptyStreams DEF PageInv, WriterFollows, StepsFit, ItemsAreOwn, CursorsFit, NewPage, NewWriter, Polling, Stream
<1>6. FinalsInv'
  BY <1>1 DEF FinalsInv
<1>7. QueueInv'
  BY <1>1, NoQueue DEF QueueInv, OneFinalEach, Queued
<1>8. SnapshotsAreOfScans'
  BY <1>1 DEF SnapshotsAreOfScans, WritingInv
<1> QED
  BY <1>3, <1>4, <1>5, <1>6, <1>7, <1>8 DEF WritingInv

\* A transaction ends, and what waits for it goes on.
LEMMA EndedTxKeeps ==
    ASSUME WritingInv, NEW i \in DOMAIN queue, NEW step \in {"next", "failed"},
           UNCHANGED <<scan, page, device, writer>>,
           finals' = IF queue[i].final THEN [finals EXCEPT ![queue[i].job].step = step] ELSE finals,
           \/ queue' = RemoveAt(queue, i)
           \/ queue' = Append(RemoveAt(queue, i), PutSnapshot(queue[i].job, "running")),
           snapshots' \in [Jobs -> SnapshotStatus],
           \A j \in Jobs : snapshots'[j] # NoSnapshot => scan[j].status # "unborn",
           rows' \in SUBSET Row
    PROVE  WritingInv'
<1> DEFINE t == queue[i]
           rest == RemoveAt(queue, i)
           put == PutSnapshot(t.job, "running")
<1>1. /\ TypeInv /\ queue \in Seq(TxType) /\ t \in TxType /\ t.job \in Jobs /\ t \in Queued
      /\ finals \in [Jobs -> FinalType] /\ QueueInv /\ QueuedWell(t)
  <2>1. TypeInv /\ queue \in Seq(TxType) /\ finals \in [Jobs -> FinalType] /\ QueueInv
    BY DEF WritingInv, TypeInv
  <2>2. t \in TxType /\ t \in Queued
    BY <2>1, ElementOfSeq, LenProperties DEF Queued, Range
  <2> HIDE DEF t
  <2>3. t.job \in Jobs
    BY <2>2 DEF TxType
  <2> QED
    BY <2>1, <2>2, <2>3 DEF QueueInv
<1>2. /\ rest \in Seq(TxType) /\ Queued = Range(rest) \cup {t} /\ OneFinalEach(rest)
      /\ t.final => \A u \in Range(rest) : u.final => u.job # t.job
  BY <1>1, TakenFromQueue DEF QueueInv, Queued
<1>3. put \in TxType /\ put.job = t.job /\ put.op = "put" /\ put.rows = {} /\ ~put.final
  BY <1>1, PutSnapshotIs DEF SnapshotStatus, ScanStatus, AnyJob
<1>4. finals' = IF t.final THEN [finals EXCEPT ![t.job].step = step] ELSE finals
  OBVIOUS
<1>5. \/ queue' = rest
      \/ queue' = Append(rest, put)
  OBVIOUS
<1> HIDE DEF t, rest, put
<1>6. /\ finals' \in [Jobs -> FinalType]
      /\ \A j \in Jobs : /\ finals'[j].of = finals[j].of /\ finals'[j].chunks = finals[j].chunks
                         /\ ~(t.final /\ j = t.job) => finals'[j] = finals[j]
                         /\ t.final /\ j = t.job => finals'[j].step = step /\ finals[j].step = "waiting"
  <2>1. CASE t.final
    <3> DEFINE f == [finals[t.job] EXCEPT !.step = step]
    <3>1. finals[t.job] \in FinalType /\ finals[t.job].step = "waiting"
      BY <1>1, <2>1 DEF QueuedWell
    <3>2. f \in FinalType /\ f.of = finals[t.job].of /\ f.chunks = finals[t.job].chunks /\ f.step = step
      BY <3>1 DEF FinalType
    <3>3. finals' = [finals EXCEPT ![t.job] = f]
      BY <1>4, <2>1
    <3> HIDE DEF f
    <3> QED
      BY <1>1, <2>1, <3>1, <3>2, <3>3
  <2>2. CASE ~t.final
    BY <1>1, <1>4, <2>2
  <2> QED
    BY <2>1, <2>2
<1>7. queue' \in Seq(TxType) /\ OneFinalEach(queue') /\ Range(queue') \subseteq Range(rest) \cup {put}
  <2>1. /\ Append(rest, put) \in Seq(TxType) /\ Range(Append(rest, put)) = Range(rest) \cup {put}
        /\ OneFinalEach(Append(rest, put))
    BY <1>2, <1>3, AddedToQueue
  <2> QED
    BY <1>2, <1>5, <2>1
<1>8. TypeInv'
  BY <1>1, <1>6, <1>7 DEF TypeInv
<1>9. EarlyPage'
  <2>1. queue # << >>
    BY <1>1, NoQueue DEF Queued
  <2> QED
    BY <2>1 DEF EarlyPage, WritingInv
<1>10. PageInv'
  <2>1. \A s : ReportedStocks(s, page.job)' = ReportedStocks(s, page.job)
    BY DEF ReportedStocks
  <2>2. WriterFollows' /\ StepsFit' /\ ItemsAreOwn'
    BY DEF WritingInv, PageInv, WriterFollows, StepsFit, ItemsAreOwn
  <2>3. CursorsFit'
    BY <2>1 DEF WritingInv, PageInv, CursorsFit
  <2> QED
    BY <2>2, <2>3 DEF PageInv
<1>11. FinalsInv'
  <2>1. ASSUME NEW j \in Jobs, finals'[j] # NoFinal
        PROVE  /\ finals'[j].of \in Jobs /\ finals'[j].step \in {"waiting", "next", "over", "failed"}
               /\ scan'[j].status = "completed" /\ (j = writer'.localId => writer'.finalized)
               /\ \A R \in Range(finals'[j].chunks) : R \subseteq Filed(j, finals'[j].of, "result")
    <3>1. finals[j] # NoFinal
      BY <1>6, <2>1 DEF NoFinal
    <3> QED
      BY <1>6, <2>1, <3>1 DEF FinalsInv, WritingInv
  <2> QED
    BY <2>1 DEF FinalsInv
<1>12. QueueInv'
  <2>1. ASSUME NEW u \in Range(rest)
        PROVE  QueuedWell(u)'
    <3>1. QueuedWell(u) /\ u.job \in Jobs
      <4>1. u \in Queued /\ u \in TxType
        BY <1>2, RangeIn
      <4> QED
        BY <1>1, <4>1 DEF QueueInv, TxType
    <3>2. u.final => finals'[u.job] = finals[u.job]
      BY <1>2, <1>6, <3>1
    <3> QED
      BY <3>1, <3>2 DEF QueuedWell
  <2>2. ASSUME NEW u, u = put
        PROVE  QueuedWell(u)'
    BY <1>1, <1>3, <2>2 DEF QueuedWell
  <2>3. PICK u : u = put
    OBVIOUS
  <2>4. QueuedWell(u)' /\ Range(queue') \subseteq Range(rest) \cup {u}
    BY <1>7, <2>2, <2>3
  <2> QED
    BY <1>7, <2>1, <2>4 DEF QueueInv, Queued
<1>13. SnapshotsAreOfScans'
  BY DEF SnapshotsAreOfScans
<1> QED
  BY <1>8, <1>9, <1>10, <1>11, <1>12, <1>13 DEF WritingInv

LEMMA CompletesKeeps ==
    ASSUME WritingInv, NEW i, Completes(i)
    PROVE  WritingInv'
<1> DEFINE t == queue[i]
<1>1. /\ i \in DOMAIN queue
      /\ snapshots' = CASE t.op = "put" -> [snapshots EXCEPT ![t.job] = t.status]
                        [] t.op = "delete" -> [snapshots EXCEPT ![t.job] = NoSnapshot]
                        [] OTHER -> snapshots
      /\ rows' = CASE t.op = "rows" -> Upsert(rows, t.rows)
                   [] t.op = "delete" -> {r \in rows : r.job # t.job}
                   [] OTHER -> rows
      /\ \/ queue' = RemoveAt(queue, i)
         \/ queue' = Append(RemoveAt(queue, i), PutSnapshot(queue[i].job, "running"))
      /\ finals' = IF queue[i].final THEN [finals EXCEPT ![queue[i].job].step = "next"] ELSE finals
      /\ UNCHANGED <<scan, page, device, writer, mishap>>
  BY DEF Completes, CanRun
<1>2. /\ t \in TxType /\ QueuedWell(t) /\ rows \in SUBSET Row
      /\ snapshots \in [Jobs -> SnapshotStatus]
  BY <1>1 DEF WritingInv, TypeInv, QueueInv, Queued, Range
<1> HIDE DEF t
<1>3. t.job \in Jobs /\ t.status \in SnapshotStatus /\ t.rows \in SUBSET Row
      /\ t.op \in {"get", "put", "rows", "delete"} /\ scan[t.job].status # "unborn"
  BY <1>2 DEF TxType, QueuedWell
<1>4. t.status \in SnapshotStatus
      /\ NoSnapshot \in SnapshotStatus
  BY <1>3 DEF NoSnapshot, SnapshotStatus, None, AnyJob
<1>5. /\ snapshots' \in [Jobs -> SnapshotStatus]
      /\ \A j \in Jobs : snapshots'[j] # NoSnapshot => j = t.job \/ snapshots[j] # NoSnapshot
  BY <1>1, <1>2, <1>3, <1>4
<1>6. \A j \in Jobs : snapshots'[j] # NoSnapshot => scan[j].status # "unborn"
  BY <1>3, <1>5 DEF WritingInv, SnapshotsAreOfScans
<1>7. rows' \in SUBSET Row
  BY <1>1, <1>2, <1>3 DEF Upsert
<1> QED
  BY <1>1, <1>5, <1>6, <1>7, EndedTxKeeps

LEMMA FailsKeeps ==
    ASSUME WritingInv, NEW i, Fails(i)
    PROVE  WritingInv'
<1>1. /\ i \in DOMAIN queue /\ queue' = RemoveAt(queue, i)
      /\ finals' = IF queue[i].final THEN [finals EXCEPT ![queue[i].job].step = "failed"] ELSE finals
      /\ UNCHANGED <<scan, page, device, writer, snapshots, rows>>
  BY DEF Fails, CanRun
<1>2. /\ snapshots' \in [Jobs -> SnapshotStatus] /\ rows' \in SUBSET Row
      /\ \A j \in Jobs : snapshots'[j] # NoSnapshot => scan[j].status # "unborn"
  BY <1>1 DEF WritingInv, TypeInv, SnapshotsAreOfScans
<1> QED
  BY <1>1, <1>2, EndedTxKeeps

\* A transaction is created by what has no rendering.
LEMMA AddedTxKeeps ==
    ASSUME WritingInv, NEW j \in Jobs, NEW t \in TxType, t.job = j, NEW f \in FinalType,
           UNCHANGED <<scan, page, device, writer, snapshots, rows>>,
           page.step \notin {"local", "list"}, scan[j].status # "unborn",
           queue' = Append(queue, t), finals' = [finals EXCEPT ![j] = f],
           \/ f = finals[j] /\ ~t.final
           \/ /\ finals[j].step = "next" /\ f.of = finals[j].of /\ f.step \in {"waiting", "over"}
              /\ Range(f.chunks) \subseteq Range(finals[j].chunks),
           t.final => f.step = "waiting",
           t.op # "rows" => t.rows = {} /\ ~t.final,
           t.rows \subseteq IF t.final THEN Filed(j, f.of, "result") ELSE Filed(j, j, "stream")
    PROVE  WritingInv'
<1>1. /\ TypeInv /\ queue \in Seq(TxType) /\ finals \in [Jobs -> FinalType] /\ QueueInv
  BY DEF WritingInv, TypeInv
<1>2. /\ finals' \in [Jobs -> FinalType] /\ finals'[j] = f
      /\ \A k \in Jobs \ {j} : finals'[k] = finals[k]
  BY <1>1
<1>3. ASSUME NEW u \in Queued
      PROVE  /\ QueuedWell(u) /\ u.job \in Jobs
             /\ u.job = j /\ u.final => ~t.final /\ f = finals[j]
  <2>1. QueuedWell(u) /\ u.job \in Jobs
    <3>1. u \in TxType
      BY <1>1, RangeIn DEF Queued
    <3> QED
      BY <1>1, <3>1 DEF QueueInv, TxType
  <2> QED
    BY <2>1 DEF QueuedWell
<1>4. queue' \in Seq(TxType) /\ Range(queue') = Queued \cup {t} /\ OneFinalEach(queue')
  <2>1. OneFinalEach(queue) /\ (t.final => \A u \in Range(queue) : u.final => u.job # t.job)
    BY <1>1, <1>3 DEF QueueInv, Queued
  <2> QED
    BY <1>1, <2>1, AddedToQueue DEF Queued
<1>5. TypeInv'
  BY <1>1, <1>2, <1>4 DEF TypeInv
<1>6. EarlyPage'
  BY DEF EarlyPage
<1>7. PageInv'
  <2>1. \A s : ReportedStocks(s, page.job)' = ReportedStocks(s, page.job)
    BY DEF ReportedStocks
  <2>2. WriterFollows' /\ StepsFit' /\ ItemsAreOwn'
    BY DEF WritingInv, PageInv, WriterFollows, StepsFit, ItemsAreOwn
  <2>3. CursorsFit'
    BY <2>1 DEF WritingInv, PageInv, CursorsFit
  <2> QED
    BY <2>2, <2>3 DEF PageInv
<1>8. FinalsInv'
  <2>1. ASSUME NEW k \in Jobs, finals'[k] # NoFinal
        PROVE  /\ finals'[k].of \in Jobs /\ finals'[k].step \in {"waiting", "next", "over", "failed"}
               /\ scan'[k].status = "completed" /\ (k = writer'.localId => writer'.finalized)
               /\ \A R \in Range(finals'[k].chunks) : R \subseteq Filed(k, finals'[k].of, "result")
    <3>1. CASE finals'[k] = finals[k]
      BY <2>1, <3>1 DEF WritingInv, FinalsInv
    <3>2. CASE finals'[k] # finals[k]
      <4>1. /\ k = j /\ finals[j].step = "next" /\ f.of = finals[j].of /\ f.step \in {"waiting", "over"}
            /\ Range(f.chunks) \subseteq Range(finals[j].chunks)
        BY <1>2, <3>2
      <4>2. finals[j] # NoFinal
        BY <4>1 DEF NoFinal
      <4> QED
        BY <1>2, <4>1, <4>2 DEF WritingInv, FinalsInv
    <3> QED
      BY <3>1, <3>2
  <2> QED
    BY <2>1 DEF FinalsInv
<1>9. QueueInv'
  <2>1. ASSUME NEW u \in Queued
        PROVE  QueuedWell(u)'
    <3>1. u.final => finals'[u.job] = finals[u.job]
      BY <1>2, <1>3
    <3> QED
      BY <1>3, <3>1 DEF QueuedWell
  <2>2. QueuedWell(t)'
    BY <1>2 DEF QueuedWell
  <2> QED
    BY <1>4, <2>1, <2>2 DEF QueueInv, Queued
<1>10. SnapshotsAreOfScans'
  BY DEF WritingInv, SnapshotsAreOfScans
<1> QED
  BY <1>5, <1>6, <1>7, <1>8, <1>9, <1>10 DEF WritingInv

\* A step of the loop, after the first.
LEMMA ContinuesIs ==
    ASSUME TypeInv, NEW j \in Jobs, FinalContinues(j)
    PROVE  LET f == finals[j]
               n == FinalStep(j, f)
           IN  /\ finals' = [finals EXCEPT ![j] = n.final] /\ queue' = Append(queue, n.tx)
               /\ f.step = "next" /\ f \in FinalType
               /\ n.tx \in TxType /\ n.tx.job = j /\ n.final \in FinalType /\ n.final.of = f.of
               /\ \/ /\ f.chunks = << >> /\ n.tx.op = "put" /\ n.tx.rows = {} /\ ~n.tx.final
                     /\ n.final.step = "over" /\ n.final.chunks = << >>
                  \/ /\ n.tx.op = "rows" /\ n.tx.final /\ n.final.step = "waiting"
                     /\ Range(f.chunks) = Range(n.final.chunks) \cup {n.tx.rows}
<1> DEFINE f == finals[j]
<1>1. f \in FinalType /\ f.step = "next"
  BY DEF TypeInv, FinalContinues
<1>2. /\ finals' = [finals EXCEPT ![j] = FinalStep(j, f).final]
      /\ queue' = Append(queue, FinalStep(j, f).tx)
  BY DEF FinalContinues
<1> HIDE DEF f
<1>3. f \in [of : AnyJob, chunks : Seq(SUBSET Row), step : {"first", "next"}]
  BY <1>1 DEF FinalType
<1>4. LET n == FinalStep(j, f)
      IN  /\ n.tx \in TxType /\ n.tx.job = j /\ n.final \in FinalType /\ n.final.of = f.of
          /\ \/ /\ f.chunks = << >> /\ n.tx.op = "put" /\ n.tx.rows = {} /\ ~n.tx.final
                /\ n.final.step = "over" /\ n.final.chunks = << >>
             \/ /\ n.tx.op = "rows" /\ n.tx.final /\ n.final.step = "waiting"
                /\ Range(f.chunks) = Range(n.final.chunks) \cup {n.tx.rows}
  BY <1>3, FinalStepIs
<1> QED
  BY <1>1, <1>2, <1>4 DEF f

LEMMA ContinuesKeeps ==
    ASSUME WritingInv, NEW j \in Jobs, FinalContinues(j)
    PROVE  WritingInv'
<1> DEFINE f == finals[j]
           n == FinalStep(j, f)
           t == n.tx
           g == n.final
<1>1. /\ finals' = [finals EXCEPT ![j] = g] /\ queue' = Append(queue, t)
      /\ f.step = "next" /\ f \in FinalType /\ t \in TxType /\ t.job = j /\ g \in FinalType /\ g.of = f.of
      /\ \/ /\ f.chunks = << >> /\ t.op = "put" /\ t.rows = {} /\ ~t.final
            /\ g.step = "over" /\ g.chunks = << >>
         \/ /\ t.op = "rows" /\ t.final /\ g.step = "waiting"
            /\ Range(f.chunks) = Range(g.chunks) \cup {t.rows}
  BY ContinuesIs DEF WritingInv
<1>2. UNCHANGED <<scan, page, device, writer, snapshots, rows>>
  BY DEF FinalContinues
<1>3. /\ page.step \notin {"local", "list"} /\ scan[j].status = "completed"
      /\ \A R \in Range(f.chunks) : R \subseteq Filed(j, f.of, "result")
  <2>1. f # NoFinal
    BY <1>1 DEF NoFinal
  <2> QED
    BY <2>1 DEF WritingInv, EarlyPage, FinalsInv
<1>4. PICK u : u = t
  OBVIOUS
<1>5. PICK h : h = g
  OBVIOUS
<1> HIDE DEF n, f
<1>6. /\ u \in TxType /\ u.job = j /\ h \in FinalType /\ h.of = f.of /\ h.step \in {"waiting", "over"}
      /\ (u.op # "rows" => u.rows = {} /\ ~u.final)
      /\ u.final => h.step = "waiting"
      /\ queue' = Append(queue, u) /\ finals' = [finals EXCEPT ![j] = h]
  BY <1>1, <1>4, <1>5
<1>7. /\ Range(h.chunks) \subseteq Range(f.chunks)
      /\ u.rows \subseteq IF u.final THEN Filed(j, h.of, "result") ELSE Filed(j, j, "stream")
  BY <1>1, <1>3, <1>4, <1>5, NoQueue
<1>8. /\ page.step \notin {"local", "list"} /\ scan[j].status # "unborn"
      /\ finals[j].step = "next" /\ h.of = finals[j].of /\ h.step \in {"waiting", "over"}
      /\ Range(h.chunks) \subseteq Range(finals[j].chunks)
  BY <1>1, <1>3, <1>6, <1>7 DEF f
<1> QED
  BY <1>2, <1>6, <1>7, <1>8, AddedTxKeeps

LEMMA DeleteKeeps ==
    ASSUME WritingInv, NEW j \in Jobs, DeleteSnapshot(j)
    PROVE  WritingInv'
<1>1. /\ mishap = "none" /\ snapshots[j] # NoSnapshot /\ queue' = Append(queue, Tx("delete", j))
      /\ UNCHANGED <<scan, page, device, writer, finals, snapshots, rows>>
  BY DEF DeleteSnapshot, Mishap
<1>2. PICK t : t = Tx("delete", j)
  OBVIOUS
<1>3. /\ t \in TxType /\ t.op = "delete" /\ t.job = j /\ t.rows = {} /\ ~t.final
  BY <1>2, TxIs
<1>4. page.step \notin {"local", "list"} /\ scan[j].status # "unborn"
  BY <1>1 DEF WritingInv, EarlyPage, SnapshotsAreOfScans
<1>5. finals[j] \in FinalType /\ finals' = [finals EXCEPT ![j] = finals[j]]
  BY <1>1 DEF WritingInv, TypeInv
<1>6. PICK f \in FinalType : f = finals[j]
  BY <1>5
<1>7. /\ queue' = Append(queue, t) /\ finals' = [finals EXCEPT ![j] = f]
      /\ UNCHANGED <<scan, page, device, writer, snapshots, rows>>
  BY <1>1, <1>2, <1>5, <1>6
<1>8. t.rows \subseteq IF t.final THEN Filed(j, f.of, "result") ELSE Filed(j, j, "stream")
  BY <1>3
<1>9. /\ f = finals[j] /\ ~t.final
      /\ t.final => f.step = "waiting"
      /\ t.op # "rows" => t.rows = {} /\ ~t.final
      /\ t \in TxType /\ t.job = j
  BY <1>3, <1>6
<1> QED
  BY <1>4, <1>6, <1>7, <1>8, <1>9, AddedTxKeeps

-----------------------------------------------------------------------------
(* Every step.                                                             *)

\* A step of the system, as the proofs take it.
Step ==
    \/ Rendered /\ device' \in AnyJob
    \/ /\ UNCHANGED page \/ (page.step = "asking" /\ page' = [page EXCEPT !.step = "idle"])
       /\ UNCHANGED <<device, writer, finals, queue, Stored>>
    \/ Reload
    \/ \E i : Completes(i) \/ Fails(i)
    \/ \E j \in Jobs : FinalContinues(j) \/ DeleteSnapshot(j)

LEMMA Steps ==
    ASSUME WritingInv, [Next]_vars
    PROVE  scan' \in ScanType /\ ScanGrows /\ Step
<1>1. scan' \in ScanType /\ ScanGrows /\ device \in AnyJob /\ page \in PageType
  BY ScanMoves DEF WritingInv, TypeInv
<1>2. CASE ServedFromDevice \/ Answers \/ \E j \in Jobs : ScanStarts(j)
  <2>1. Rendered
    BY <1>1, <1>2, PageStepsRender
  <2>2. page.job \in AnyJob /\ NoJob \in AnyJob
    BY <1>1 DEF PageType, AnyJob
  <2>3. device' \in AnyJob
    BY <1>1, <1>2, <2>2 DEF ServedFromDevice, Answers, Polled, StreamAnswered, ResultsAnswered, RestoreLocal, RestoreLists,
       ScanStarts, GetLocalScanCache, PutLocalScanCache, DeleteLocalScanCache
  <2> QED
    BY <1>1, <2>1, <2>3 DEF Step
<1>3. CASE Backend \/ UserStops \/ UNCHANGED vars
  BY <1>1, <1>3 DEF Step, Backend, StockDone, ScanEnds, UserStops, Unseen, Stored, vars
<1>4. CASE Reload \/ Transactions \/ Finalizers \/ \E j \in Jobs : DeleteSnapshot(j)
  BY <1>1, <1>4 DEF Step, Transactions, Finalizers
<1> QED
  BY <1>2, <1>3, <1>4 DEF Next, User

LEMMA WritingInvKept ==
    ASSUME WritingInv, [Next]_vars
    PROVE  WritingInv'
<1>1. scan' \in ScanType /\ ScanGrows /\ Step
  BY Steps
<1> QED
  BY <1>1, RenderedKeeps, BackendKeeps, ReloadKeeps, CompletesKeeps, FailsKeeps, ContinuesKeeps, DeleteKeeps DEF Step

LEMMA WritingInvBegins == Init => WritingInv
<1> SUFFICES ASSUME Init
             PROVE  WritingInv
  OBVIOUS
<1>1. /\ scan = [j \in Jobs |-> [status |-> "unborn", processed |-> 0]] /\ page = NewPage /\ device = NoJob
      /\ writer = NewWriter /\ finals = [j \in Jobs |-> NoFinal] /\ queue = << >>
      /\ snapshots = [j \in Jobs |-> NoSnapshot] /\ rows = {}
  BY DEF Init
<1>2. NewPage \in PageType /\ NewWriter \in WriterType /\ NoFinal \in FinalType
  BY EmptyStreams DEF NewPage, NewWriter, NoFinal, PageType, WriterType, FinalType, AnyJob, ScanStatus, PageStep
<1>3. NoSnapshot \in SnapshotStatus
  BY DEF NoSnapshot, SnapshotStatus, None, AnyJob
<1>4. TypeInv
  BY <1>1, <1>2, <1>3, ScanAssumption DEF TypeInv, ScanStatus, AnyJob
<1>5. EarlyPage
  BY <1>1 DEF EarlyPage, NewPage
<1>6. PageInv
  BY <1>1, EmptyStreams DEF PageInv, WriterFollows, StepsFit, ItemsAreOwn, CursorsFit, NewPage, NewWriter, Polling, Stream
<1>7. FinalsInv /\ SnapshotsAreOfScans
  BY <1>1 DEF FinalsInv, SnapshotsAreOfScans
<1>8. QueueInv
  BY <1>1, NoQueue DEF QueueInv, OneFinalEach, Queued
<1> QED
  BY <1>4, <1>5, <1>6, <1>7, <1>8 DEF WritingInv

\* Only a transaction that completes changes the store of rows.
LEMMA RowsMove ==
    ASSUME Step
    PROVE  UNCHANGED rows \/ \E i : Completes(i)
  BY DEF Step, Rendered, Rendering, Stored, Reload, Fails, FinalContinues, DeleteSnapshot

LEMMA RowsStayOwn ==
    ASSUME WritingInv, StreamedRowsAreOwn, Step
    PROVE  StreamedRowsAreOwn'
<1>1. CASE UNCHANGED rows
  BY <1>1 DEF StreamedRowsAreOwn
<1>2. ASSUME NEW i, Completes(i)
      PROVE  StreamedRowsAreOwn'
  <2> DEFINE t == queue[i]
  <2>1. /\ i \in DOMAIN queue
        /\ rows' = CASE t.op = "rows" -> Upsert(rows, t.rows)
                     [] t.op = "delete" -> {r \in rows : r.job # t.job}
                     [] OTHER -> rows
    BY <1>2 DEF Completes, CanRun
  <2>2. t \in Queued
    BY <2>1 DEF Queued, Range
  <2> HIDE DEF t
  <2>3. QueuedWell(t)
    BY <2>2 DEF WritingInv, QueueInv
  <2>4. PICK of, by : t.rows \subseteq Filed(t.job, of, by) /\ (by = "stream" => of = t.job)
    <3>1. CASE t.final
      BY <2>3, <3>1 DEF QueuedWell
    <3>2. CASE ~t.final
      BY <2>3, <3>2 DEF QueuedWell
    <3> QED
      BY <3>1, <3>2
  <2>5. CASE rows' = Upsert(rows, t.rows)
    <3>1. \A r, s \in rows' : Key(r) = Key(s) => r = s
      <4>1. SUFFICES ASSUME NEW r \in rows', NEW s \in rows', Key(r) = Key(s)
                     PROVE  r = s
        OBVIOUS
      <4>2. CASE r \in t.rows /\ s \in t.rows
        BY <2>4, <4>1, <4>2, FiledKeys
      <4>3. CASE r \notin t.rows /\ s \notin t.rows
        BY <2>5, <4>1, <4>3 DEF Upsert, StreamedRowsAreOwn
      <4>4. CASE r \in t.rows /\ s \notin t.rows
        BY <2>5, <4>1, <4>4 DEF Upsert, Keys
      <4>5. CASE r \notin t.rows /\ s \in t.rows
        BY <2>5, <4>1, <4>5 DEF Upsert, Keys
      <4> QED
        BY <4>2, <4>3, <4>4, <4>5
    <3>2. \A r \in rows' : r.by = "stream" => r.of = r.job
      BY <2>4, <2>5 DEF Upsert, Filed, StreamedRowsAreOwn
    <3> QED
      BY <3>1, <3>2 DEF StreamedRowsAreOwn
  <2>6. CASE rows' \subseteq rows
    BY <2>6 DEF StreamedRowsAreOwn
  <2> QED
    BY <2>1, <2>5, <2>6
<1> QED
  BY <1>1, <1>2, RowsMove

\* Rows are kept under one key each, and what a stream brought stays with the
\* scan it is of, for every number of scans and whatever the user, the network
\* and the database do.
THEOREM RowsAreOwn == Spec => []StreamedRowsAreOwn
<1>1. Init => WritingInv /\ StreamedRowsAreOwn
  BY WritingInvBegins DEF Init, StreamedRowsAreOwn
<1>2. WritingInv /\ StreamedRowsAreOwn /\ [Next]_vars => (WritingInv /\ StreamedRowsAreOwn)'
  BY Steps, WritingInvKept, RowsStayOwn
<1> QED
  BY <1>1, <1>2, PTL DEF Spec

\* The types, and how page, writer, transactions and final results fit together.
THEOREM WritingCorrect == Spec => []WritingInv
<1>1. WritingInv /\ [Next]_vars => WritingInv'
  BY WritingInvKept
<1> QED
  BY <1>1, WritingInvBegins, PTL DEF Spec

-----------------------------------------------------------------------------
(* A user who deletes only what is not written to any more.                *)

\* Nothing is on its way to a scan that is deleted.
DeletesLeft ==
    \A t \in Queued : t.op = "delete" =>
        /\ writer.localId # t.job /\ finals[t.job].step \notin {"waiting", "next"}
        /\ \A u \in Queued : u.job = t.job => u.op = "delete"

\* A rendering writes to no scan that is being deleted.
LEMMA RenderingLeavesDeleted ==
    ASSUME WritingInv, DeletesLeft, NEW p, NEW changed, NEW pre,
           Rendering(p, changed), RenderLeaves(p, changed, pre)
    PROVE  DeletesLeft'
<1> DEFINE w == NextJob(p, changed)
           id == w.localId
           ends == Ends(p, changed)
           n == Start(p, id)
<1>1. /\ p \in PageType /\ Turns(p, changed)
      /\ writer'.localId = id /\ finals' = IF ends THEN [finals EXCEPT ![id] = n.final] ELSE finals
      /\ \A t \in pre : Streamed(t, id)
      /\ Range(queue') = Queued \cup pre \cup (IF ends THEN {n.tx} ELSE {})
      /\ ends => id \in Jobs /\ p.result # NoJob
  BY DEF Rendering, RenderLeaves
<1>2. /\ TypeInv /\ writer \in WriterType /\ finals \in [Jobs -> FinalType]
      /\ \A t \in Queued : QueuedWell(t)
  BY DEF WritingInv, TypeInv, QueueInv
<1>3. ends => n.tx.job = id /\ n.tx.op # "delete"
  BY <1>1, StartIsFiled
<1>4. ASSUME NEW t \in Queued, t.op = "delete"
      PROVE  t.job # id
  <2>1. writer.localId # t.job /\ scan[t.job].status # "unborn" /\ queue # << >>
    BY <1>2, <1>4, NoQueue DEF DeletesLeft, QueuedWell, Queued
  <2>2. CASE w = writer
    BY <2>1, <2>2
  <2>3. CASE w # writer
    <3>1. id = p.job /\ p.job \notin {NoJob, writer.localId}
      BY <1>1, <1>2, <2>3, NextJobIs
    <3>2. page.step = "list" \/ scan[p.job].status = "unborn"
      BY <1>1, <3>1 DEF Turns
    <3> QED
      BY <2>1, <3>1, <3>2 DEF WritingInv, EarlyPage
  <2> QED
    BY <2>2, <2>3
<1> HIDE DEF w, id, ends, n
<1>5. \A u \in Range(queue') \ Queued : u.job = id /\ u.op # "delete"
  BY <1>1, <1>3 DEF Streamed
<1>6. ASSUME NEW t \in Range(queue'), t.op = "delete"
      PROVE  /\ t \in Queued /\ t.job # id /\ finals'[t.job] = finals[t.job]
  <2>1. t \in Queued /\ t.job # id
    BY <1>4, <1>5, <1>6
  <2>2. t \in TxType
    BY <1>2, <2>1, RangeIn DEF Queued, TypeInv
  <2>3. t.job \in Jobs
    BY <2>2 DEF TxType
  <2> QED
    BY <1>1, <1>2, <2>1, <2>3
<1> QED
  BY <1>1, <1>5, <1>6 DEF DeletesLeft, Queued

LEMMA DeletesLeftKept ==
    ASSUME UserDeletes = "left", WritingInv, DeletesLeft, Step
    PROVE  DeletesLeft'
<1>1. /\ TypeInv /\ queue \in Seq(TxType) /\ finals \in [Jobs -> FinalType]
      /\ \A t \in Queued : QueuedWell(t) /\ t \in TxType
  <2>1. TypeInv /\ queue \in Seq(TxType) /\ finals \in [Jobs -> FinalType] /\ QueueInv
    BY DEF WritingInv, TypeInv
  <2> QED
    BY <2>1, RangeIn DEF QueueInv, Queued
<1>2. CASE Rendered
  <2>1. PICK p, changed : Rendering(p, changed)
    BY <1>2 DEF Rendered
  <2>2. PICK pre : RenderLeaves(p, changed, pre)
    BY <2>1, WhatIsRendered
  <2> QED
    BY <2>1, <2>2, RenderingLeavesDeleted
<1>3. CASE UNCHANGED <<device, writer, finals, queue, Stored>>
  BY <1>3 DEF DeletesLeft, Queued
<1>4. CASE Reload
  BY <1>4, NoQueue DEF Reload, DeletesLeft, Queued
<1>5. ASSUME NEW i, Completes(i) \/ Fails(i)
      PROVE  DeletesLeft'
  <2> DEFINE t == queue[i]
             rest == RemoveAt(queue, i)
             put == PutSnapshot(t.job, "running")
  <2>1. /\ i \in DOMAIN queue /\ UNCHANGED writer
        /\ \/ queue' = rest
           \/ queue' = Append(rest, put) /\ t.op = "get"
        /\ \/ finals' = finals
           \/ t.final /\ \E step : finals' = [finals EXCEPT ![t.job].step = step]
    BY <1>5 DEF Completes, Fails, CanRun
  <2>2. t \in Queued
    BY <2>1 DEF Queued, Range
  <2>3. QueuedWell(t) /\ t \in TxType
    BY <1>1, <2>2
  <2> HIDE DEF t
  <2>4. t.job \in Jobs /\ (t.final => t.op = "rows")
    BY <2>3 DEF TxType, QueuedWell
  <2>5. put \in TxType /\ put.job = t.job /\ put.op = "put"
    BY <2>4, PutSnapshotIs DEF SnapshotStatus, ScanStatus, AnyJob
  <2>6. Range(rest) \subseteq Queued /\ rest \in Seq(TxType)
    BY <1>1, <2>1, TakenFromQueue DEF Queued
  <2> HIDE DEF rest, put
  <2>7. Range(queue') \subseteq Queued \cup (IF t.op = "get" THEN {put} ELSE {})
    <3>1. Range(Append(rest, put)) = Range(rest) \cup {put}
      BY <2>5, <2>6, AddedToQueue
    <3> QED
      BY <2>1, <2>6, <3>1
  <2>8. ASSUME NEW d \in Range(queue'), d.op = "delete"
        PROVE  /\ d \in Queued
               /\ d.job # t.job \/ t.op = "delete"
               /\ finals'[d.job] = finals[d.job]
    <3>1. d \in Queued
      BY <2>5, <2>7, <2>8
    <3>2. d.job = t.job => t.op = "delete"
      BY <2>2, <2>8, <3>1 DEF DeletesLeft
    <3>3. d.job \in Jobs
      BY <1>1, <3>1 DEF TxType
    <3> QED
      BY <1>1, <2>1, <2>4, <3>1, <3>2, <3>3
  <2> QED
    BY <2>1, <2>5, <2>7, <2>8 DEF DeletesLeft, Queued
<1>6. ASSUME NEW j \in Jobs, FinalContinues(j)
      PROVE  DeletesLeft'
  <2> DEFINE n == FinalStep(j, finals[j])
  <2>1. /\ finals' = [finals EXCEPT ![j] = n.final] /\ queue' = Append(queue, n.tx)
        /\ finals[j].step = "next" /\ n.tx \in TxType /\ n.tx.job = j /\ n.tx.op # "delete"
    BY <1>1, <1>6, ContinuesIs
  <2>2. UNCHANGED writer
    BY <1>6 DEF FinalContinues
  <2> HIDE DEF n
  <2>3. Range(queue') = Queued \cup {n.tx}
    BY <1>1, <2>1, AddedToQueue DEF Queued
  <2>4. ASSUME NEW d \in Range(queue'), d.op = "delete"
        PROVE  d \in Queued /\ d.job # j /\ finals'[d.job] = finals[d.job]
    <3>1. d \in Queued /\ d.job # j
      BY <2>1, <2>3, <2>4 DEF DeletesLeft
    <3>2. d.job \in Jobs
      BY <1>1, <3>1 DEF TxType
    <3> QED
      BY <1>1, <2>1, <3>1, <3>2
  <2> QED
    BY <2>1, <2>2, <2>3, <2>4 DEF DeletesLeft, Queued
<1>7. ASSUME NEW j \in Jobs, DeleteSnapshot(j)
      PROVE  DeletesLeft'
  <2> DEFINE t == Tx("delete", j)
  <2>1. /\ writer.localId # j /\ finals[j].step \notin {"waiting", "next"}
        /\ \A i \in DOMAIN queue : queue[i].job # j
        /\ queue' = Append(queue, t) /\ UNCHANGED <<writer, finals>>
    BY <1>7 DEF DeleteSnapshot
  <2>2. t \in TxType /\ t.job = j /\ t.op = "delete"
    BY TxIs
  <2> HIDE DEF t
  <2>3. Range(queue') = Queued \cup {t} /\ \A u \in Queued : u.job # j
    BY <1>1, <2>1, <2>2, AddedToQueue DEF Queued, Range
  <2> QED
    BY <2>1, <2>2, <2>3 DEF DeletesLeft, Queued
<1> QED
  BY <1>2, <1>3, <1>4, <1>5, <1>6, <1>7 DEF Step

-----------------------------------------------------------------------------
(* What is received is recorded.                                           *)

\* Stored, on its way to the store, or lost.
Recorded == Keys(rows) \cup lost \cup UNION {Keys(t.rows) : t \in Queued}

ItemsRecorded == \A s \in Stream : Keys(StreamRows(s, writer.localId, page.items[s])) \subseteq Recorded

LEMMA StreamRowsOfUnion ==
    ASSUME NEW s, NEW id, NEW S, NEW T, NEW U, S \subseteq T \cup U
    PROVE  StreamRows(s, id, S) \subseteq StreamRows(s, id, T) \cup StreamRows(s, id, U)
  BY DEF StreamRows

\* The rows of what is shown belong to the scan of the writer.
LEMMA ShownRowsAreOwn ==
    ASSUME WritingInv, NEW s \in Stream, NEW r \in StreamRows(s, writer.localId, page.items[s])
    PROVE  r.job = writer.localId
<1>1. page.items[s] \in SUBSET Item /\ page.items[s] # {}
  BY DEF WritingInv, TypeInv, PageType, StreamRows
<1>2. \A x \in page.items[s] : x.job = writer.localId /\ (s = "partial" => x.stock \in DOMAIN Found)
  BY DEF WritingInv, PageInv, ItemsAreOwn
<1>3. writer.localId \in Jobs
  BY <1>1, <1>2 DEF Item
<1>4. StreamRows(s, writer.localId, page.items[s]) \subseteq Filed(writer.localId, writer.localId, "stream")
  BY <1>1, <1>2, <1>3, StreamRowsAreFiled
<1> QED
  BY <1>4 DEF Filed

LEMMA RenderingRecords ==
    ASSUME WritingInv, ItemsRecorded, NEW p, NEW changed, NEW pre,
           Rendering(p, changed), RenderLeaves(p, changed, pre)
    PROVE  ItemsRecorded'
<1> DEFINE id == NextJob(p, changed).localId
           new(s) == New(s, p, changed)
<1>1. /\ page' = p /\ writer'.localId = id /\ UNCHANGED <<rows, lost>> /\ p \in PageType
      /\ Turns(p, changed) /\ Queued \cup pre \subseteq Queued'
      /\ \A s \in Stream : /\ StreamRows(s, id, new(s)) \subseteq UNION {t.rows : t \in pre}
                           /\ p.items[s] \subseteq page.items[s] \cup new(s)
  BY DEF Rendering, RenderLeaves, Shows, Queued
<1>2. NextJob(p, changed) = writer \/ (id = p.job /\ p.job \notin {NoJob, writer.localId})
  BY <1>1, NextJobIs DEF WritingInv, TypeInv
<1>3. CASE id = writer.localId
  <2>1. ASSUME NEW s \in Stream
        PROVE  Keys(StreamRows(s, id, p.items[s])) \subseteq Recorded'
    <3>1. StreamRows(s, id, p.items[s]) \subseteq StreamRows(s, id, page.items[s]) \cup StreamRows(s, id, new(s))
      <4> HIDE DEF id, new
      <4> QED
        BY <1>1, StreamRowsOfUnion
    <3>2. Keys(StreamRows(s, id, page.items[s])) \subseteq Recorded
      BY <1>3 DEF ItemsRecorded
    <3> HIDE DEF id, new
    <3>3. Recorded \subseteq Recorded'
      BY <1>1 DEF Recorded
    <3>4. Keys(StreamRows(s, id, new(s))) \subseteq Recorded'
      BY <1>1 DEF Recorded, Keys
    <3> QED
      BY <3>1, <3>2, <3>3, <3>4 DEF Keys
  <2> QED
    BY <1>1, <2>1 DEF ItemsRecorded
<1>4. CASE id # writer.localId
  <2>1. p.items = NoItems
    BY <1>1, <1>2, <1>4 DEF Turns
  <2>2. \A s \in Stream : StreamRows(s, id, p.items[s]) = {}
    BY <2>1, EmptyStreams DEF StreamRows
  <2> QED
    BY <1>1, <2>2 DEF ItemsRecorded, Keys
<1> QED
  BY <1>3, <1>4

LEMMA UpsertKeepsKeys ==
    ASSUME NEW R, NEW new
    PROVE  Keys(Upsert(R, new)) = Keys(R) \cup Keys(new)
  BY DEF Keys, Upsert

LEMMA RecordedStays ==
    ASSUME UserDeletes = "left", WritingInv, DeletesLeft, ItemsRecorded, Step
    PROVE  ItemsRecorded'
<1>1. /\ TypeInv /\ queue \in Seq(TxType)
      /\ \A t \in Queued : QueuedWell(t) /\ t \in TxType
  <2>1. TypeInv /\ queue \in Seq(TxType) /\ QueueInv
    BY DEF WritingInv, TypeInv
  <2> QED
    BY <2>1, RangeIn DEF QueueInv, Queued
<1>2. CASE Rendered
  <2>1. PICK p, changed : Rendering(p, changed)
    BY <1>2 DEF Rendered
  <2>2. PICK pre : RenderLeaves(p, changed, pre)
    BY <2>1, WhatIsRendered
  <2> QED
    BY <2>1, <2>2, RenderingRecords
<1>3. CASE /\ UNCHANGED page \/ page' = [page EXCEPT !.step = "idle"]
           /\ UNCHANGED <<device, writer, finals, queue, Stored>>
  <2>1. page'.items = page.items
    BY <1>1, <1>3 DEF TypeInv, PageType
  <2> QED
    BY <1>3, <2>1 DEF ItemsRecorded, Recorded, Queued, Stored
<1>4. CASE Reload
  <2>1. page'.items = NoItems
    BY <1>4 DEF Reload, NewPage
  <2> QED
    BY <2>1, EmptyStreams DEF ItemsRecorded, StreamRows, Keys
<1>5. ASSUME NEW i, Completes(i) \/ Fails(i)
      PROVE  ItemsRecorded'
  <2> DEFINE t == queue[i]
  <2>1. /\ i \in DOMAIN queue /\ UNCHANGED <<writer, page>>
        /\ \/ queue' = RemoveAt(queue, i)
           \/ queue' = Append(RemoveAt(queue, i), PutSnapshot(t.job, "running"))
        /\ \/ lost' = lost /\ rows' = CASE t.op = "rows" -> Upsert(rows, t.rows)
                                        [] t.op = "delete" -> {r \in rows : r.job # t.job}
                                        [] OTHER -> rows
           \/ rows' = rows /\ lost \cup Keys(t.rows) \subseteq lost'
    BY <1>5 DEF Completes, Fails, CanRun
  <2>2. t \in Queued /\ Queued \subseteq Queued' \cup {t}
    <3>1. t \in Queued
      BY <2>1 DEF Queued, Range
    <3>2. /\ RemoveAt(queue, i) \in Seq(TxType) /\ Queued = Range(RemoveAt(queue, i)) \cup {t}
      BY <1>1, <2>1, TakenFromQueue DEF Queued
    <3>3. t.job \in Jobs
      BY <1>1, <3>1 DEF TxType
    <3>4. PutSnapshot(t.job, "running") \in TxType
      BY <3>3, PutSnapshotIs DEF SnapshotStatus, ScanStatus, AnyJob
    <3> DEFINE rest == RemoveAt(queue, i)
               put == PutSnapshot(t.job, "running")
    <3>5. queue' = rest \/ queue' = Append(rest, put)
      BY <2>1
    <3> HIDE DEF t, rest, put
    <3>6. Range(Append(rest, put)) = Range(rest) \cup {put}
      BY <3>2, <3>4, AddedToQueue DEF rest, put
    <3>7. Range(rest) \subseteq Queued'
      BY <3>5, <3>6 DEF Queued
    <3> QED
      BY <3>1, <3>2, <3>7 DEF rest
  <2>3. /\ t.op # "rows" => t.rows = {}
        /\ t.op = "delete" => t.job # writer.localId
    BY <1>1, <2>2 DEF QueuedWell, DeletesLeft
  <2> HIDE DEF t
  <2>4. ASSUME NEW s \in Stream, NEW r \in StreamRows(s, writer.localId, page.items[s])
        PROVE  Key(r) \in Recorded'
    <3>1. Key(r) \in Recorded /\ r.job = writer.localId
      BY ShownRowsAreOwn DEF ItemsRecorded, Keys
    <3>2. ASSUME Key(r) \in lost
          PROVE  Key(r) \in lost'
      BY <2>1, <3>2
    <3>3. ASSUME NEW u \in Queued, Key(r) \in Keys(u.rows)
          PROVE  Key(r) \in Recorded'
      <4>1. CASE u \in Queued'
        BY <3>3, <4>1 DEF Recorded
      <4>2. CASE u = t
        <5>1. t.op = "rows"
          BY <2>3, <3>3, <4>2 DEF Keys
        <5>2. Keys(t.rows) \subseteq Keys(rows') \cup lost'
          BY <2>1, <5>1, UpsertKeepsKeys
        <5> QED
          BY <3>3, <4>2, <5>2 DEF Recorded, Keys
      <4> QED
        BY <2>2, <4>1, <4>2
    <3>4. ASSUME Key(r) \in Keys(rows)
          PROVE  Key(r) \in Keys(rows')
      <4>1. CASE rows' = rows
        BY <3>4, <4>1
      <4>2. CASE rows' = Upsert(rows, t.rows)
        BY <3>4, <4>2, UpsertKeepsKeys
      <4>3. CASE t.op = "delete" /\ rows' = {y \in rows : y.job # t.job}
        <5>1. PICK y \in rows : Key(y) = Key(r)
          BY <3>4 DEF Keys
        <5>2. y.job = r.job
          BY <5>1 DEF Key
        <5> QED
          BY <2>3, <3>1, <4>3, <5>1, <5>2 DEF Keys
      <4> QED
        BY <2>1, <4>1, <4>2, <4>3
    <3> QED
      BY <3>1, <3>2, <3>3, <3>4 DEF Recorded, Keys
  <2> QED
    BY <2>1, <2>4 DEF ItemsRecorded, Keys
<1>6. ASSUME NEW j \in Jobs, FinalContinues(j) \/ DeleteSnapshot(j)
      PROVE  ItemsRecorded'
  <2>1. PICK t \in TxType : queue' = Append(queue, t)
    <3>1. CASE FinalContinues(j)
      BY <1>1, <3>1, ContinuesIs
    <3>2. CASE DeleteSnapshot(j)
      BY <3>2, TxIs DEF DeleteSnapshot
    <3> QED
      BY <1>6, <3>1, <3>2
  <2>2. Queued \subseteq Queued'
    BY <1>1, <2>1, AddedToQueue DEF Queued
  <2>3. UNCHANGED <<writer, page, rows, lost>>
    BY <1>6 DEF FinalContinues, DeleteSnapshot
  <2>4. Recorded \subseteq Recorded'
    BY <2>2, <2>3 DEF Recorded
  <2> QED
    BY <2>3, <2>4 DEF ItemsRecorded
<1> QED
  BY <1>2, <1>3, <1>4, <1>5, <1>6 DEF Step

\* Every signal and every stock that the page has received is stored, on its way
\* to the store, or was lost with a write that failed or was cut short; a user who
\* deletes a scan that is still written to takes rows away, and is left out.
THEOREM ReceivedStaysRecorded == UserDeletes = "left" /\ Spec => []ReceivedIsRecorded
<1>1. ASSUME UserDeletes = "left"
      PROVE  Spec => []ReceivedIsRecorded
  <2>1. Init => WritingInv /\ DeletesLeft /\ ItemsRecorded
    <3>1. ASSUME Init
          PROVE  queue = << >> /\ page.items = NoItems
      BY <3>1 DEF Init, NewPage
    <3>2. ASSUME Init
          PROVE  DeletesLeft /\ ItemsRecorded
      BY <3>1, <3>2, NoQueue, EmptyStreams DEF DeletesLeft, ItemsRecorded, StreamRows, Keys, Queued
    <3> QED
      BY <3>2, WritingInvBegins
  <2>2. WritingInv /\ DeletesLeft /\ ItemsRecorded /\ [Next]_vars => (WritingInv /\ DeletesLeft /\ ItemsRecorded)'
    BY <1>1, Steps, WritingInvKept, DeletesLeftKept, RecordedStays
  <2>3. ItemsRecorded => ReceivedIsRecorded
    BY DEF ItemsRecorded, ReceivedIsRecorded, Recorded, Queued, Range
  <2> QED
    BY <2>1, <2>2, <2>3, PTL DEF Spec
<1> QED
  BY <1>1

-----------------------------------------------------------------------------
(* A result that the loop has written to its end is there.                 *)

HeldRows(j, r) == {y \in rows : y.of \in {j, r}}
Held(j, r) == Keys(FinalRows(j, r)) \subseteq Keys(HeldRows(j, r))

\* What the loop has still to write, and what it waits for.
Pending(j) ==
    (UNION Range(finals[j].chunks)) \cup UNION {t.rows : t \in {u \in Queued : u.final /\ u.job = j}}

Covered ==
    \A j, r \in Jobs : finals[j].of = r /\ finals[j].step \in {"waiting", "next"} =>
        Keys(FinalRows(j, r)) \subseteq Keys(HeldRows(j, r)) \cup Keys(Pending(j))

\* The scan is deleted, and nothing writes to it.
Gone(j) ==
    /\ snapshots[j] = NoSnapshot /\ writer.localId # j
    /\ \A t \in Queued : t.job = j => t.op = "delete"

WrittenWhole ==
    \A j, r \in Jobs : finals[j].of = r /\ finals[j].step = "over" => Held(j, r) \/ Gone(j)

WholeInv == Covered /\ WrittenWhole

LEMMA RenderingWhole ==
    ASSUME WritingInv, WholeInv, ScanGrows, NEW p, NEW changed, NEW pre,
           Rendering(p, changed), RenderLeaves(p, changed, pre)
    PROVE  WholeInv'
<1> DEFINE w == NextJob(p, changed)
           id == w.localId
           ends == Ends(p, changed)
           n == Start(p, id)
<1>0. w = writer \/ (id = p.job /\ p.job \notin {NoJob, writer.localId})
  BY NextJobIs DEF Rendering, WritingInv, TypeInv
<1>1. /\ page' = p /\ writer'.localId = id
      /\ finals' = IF ends THEN [finals EXCEPT ![id] = n.final] ELSE finals
      /\ \A t \in pre : Streamed(t, id)
      /\ Range(queue') = Queued \cup pre \cup (IF ends THEN {n.tx} ELSE {})
      /\ ends => id \in Jobs /\ id = p.job /\ finals[id] = NoFinal /\ p.result # NoJob
      /\ p \in PageType /\ UNCHANGED <<snapshots, rows>>
      /\ Turns(p, changed)
  BY DEF Rendering, RenderLeaves
<1>2. /\ finals \in [Jobs -> FinalType] /\ FinalsInv /\ NoJob \notin Jobs
      /\ \A t \in Queued : t.job \in Jobs
  <2>1. \A t \in Queued : t \in TxType
    BY RangeIn DEF WritingInv, TypeInv, Queued
  <2> QED
    BY <2>1, ScanAssumption DEF WritingInv, TypeInv, TxType
<1>3. ends => /\ n.tx.job = id /\ n.final.of = p.result /\ p.result \in Jobs
              /\ \/ /\ FinalRows(id, p.result) = {}
                    /\ n.tx.op = "put" /\ n.tx.rows = {} /\ ~n.tx.final
                    /\ n.final.step = "over"
                 \/ /\ n.tx.op = "rows" /\ n.tx.final /\ n.final.step = "waiting"
                    /\ (UNION Range(n.final.chunks)) \cup n.tx.rows = FinalRows(id, p.result)
  BY <1>1, StartIs, ZenonT(30)
<1>4. ASSUME NEW j \in Jobs, finals[j] # NoFinal, writer.localId # j
      PROVE  id # j
  <2>1. scan[j].status # "unborn" /\ page.step \notin {"local", "list"}
    BY <1>2, <1>4 DEF FinalsInv, WritingInv, EarlyPage
  <2> QED
    BY <1>0, <1>1, <1>4, <2>1 DEF Turns
<1> HIDE DEF w, id, ends, n
<1>5. PICK tx : tx = n.tx
  OBVIOUS
<1>6. PICK f : f = n.final
  OBVIOUS
<1>7. ASSUME ends
      PROVE  finals'[id] = f /\ f.of = p.result /\ tx \in Queued'
  BY <1>1, <1>2, <1>3, <1>5, <1>6, <1>7 DEF Queued
<1>8. \A j \in Jobs : ~(ends /\ j = id) => finals'[j] = finals[j]
  BY <1>1, <1>2
<1>9. Covered'
  <2>1. ASSUME NEW j \in Jobs, NEW r \in Jobs, finals'[j].of = r, finals'[j].step \in {"waiting", "next"}
        PROVE  Keys(FinalRows(j, r)) \subseteq Keys(HeldRows(j, r)') \cup Keys(Pending(j)')
    <3>1. CASE ends /\ j = id
      <4>1. tx.final /\ tx.job = id /\ (UNION Range(f.chunks)) \cup tx.rows = FinalRows(j, r)
        BY <1>3, <1>5, <1>6, <1>7, <2>1, <3>1
      <4>2. (UNION Range(f.chunks)) \cup tx.rows \subseteq Pending(j)'
        BY <1>7, <3>1, <4>1 DEF Pending
      <4> QED
        BY <4>1, <4>2 DEF Keys
    <3>2. CASE ~(ends /\ j = id)
      <4>1. finals'[j] = finals[j] /\ Queued \subseteq Queued'
        BY <1>1, <1>8, <3>2 DEF Queued
      <4>2. Pending(j) \subseteq Pending(j)'
        BY <4>1 DEF Pending
      <4>3. HeldRows(j, r)' = HeldRows(j, r)
        BY <1>1 DEF HeldRows
      <4> QED
        BY <2>1, <4>1, <4>2, <4>3 DEF WholeInv, Covered, Keys
    <3> QED
      BY <3>1, <3>2
  <2> QED
    BY <2>1 DEF Covered
<1>10. \A j, r : Held(j, r)' = Held(j, r)
  BY <1>1 DEF Held, HeldRows
<1>11. WrittenWhole'
  <2>1. ASSUME NEW j \in Jobs, NEW r \in Jobs, finals'[j].of = r, finals'[j].step = "over"
        PROVE  Held(j, r)' \/ Gone(j)'
    <3>1. CASE ends /\ j = id
      <4>1. FinalRows(j, r) = {}
        BY <1>3, <1>6, <1>7, <2>1, <3>1
      <4> QED
        BY <1>10, <4>1 DEF Held, Keys
    <3>2. CASE ~(ends /\ j = id)
      <4>1. finals[j].of = r /\ finals[j].step = "over" /\ finals[j] # NoFinal
        BY <1>2, <1>8, <2>1, <3>2 DEF NoFinal
      <4>2. CASE Held(j, r)
        BY <1>10, <4>2
      <4>3. CASE Gone(j)
        <5>1. id # j
          BY <1>4, <4>1, <4>3 DEF Gone
        <5>2. \A t \in Queued' : t \in Queued \/ t.job = id
          BY <1>1, <1>3, <1>5 DEF Queued, Streamed
        <5> QED
          BY <1>1, <4>3, <5>1, <5>2 DEF Gone
      <4> QED
        BY <4>1, <4>2, <4>3 DEF WholeInv, WrittenWhole
    <3> QED
      BY <3>1, <3>2
  <2> QED
    BY <2>1 DEF WrittenWhole
<1> QED
  BY <1>9, <1>11 DEF WholeInv

\* What a transaction that ends leaves to be written.
LEMMA EndedTxLeaves ==
    ASSUME WritingInv, NEW i \in DOMAIN queue, NEW t, t = queue[i], NEW step \in {"next", "failed"},
           finals' = IF t.final THEN [finals EXCEPT ![t.job].step = step] ELSE finals,
           \/ queue' = RemoveAt(queue, i)
           \/ queue' = Append(RemoveAt(queue, i), PutSnapshot(t.job, "running"))
    PROVE  /\ t \in Queued /\ QueuedWell(t) /\ t \in TxType /\ t.job \in Jobs
           /\ \A u \in Queued' : u \in Queued \/ u = PutSnapshot(t.job, "running")
           /\ \A j \in Jobs :
                  /\ finals'[j].of = finals[j].of
                  /\ ~(t.final /\ j = t.job) => finals'[j] = finals[j] /\ Pending(j) \subseteq Pending(j)'
                  /\ t.final /\ j = t.job => /\ finals'[j].step = step /\ finals[j].step = "waiting"
                                             /\ Pending(j) \subseteq Pending(j)' \cup t.rows
<1> DEFINE rest == RemoveAt(queue, i)
           put == PutSnapshot(t.job, "running")
<1>1. /\ queue \in Seq(TxType) /\ finals \in [Jobs -> FinalType] /\ QueueInv
  BY DEF WritingInv, TypeInv
<1>2. t \in Queued /\ t \in TxType
  BY <1>1, ElementOfSeq, LenProperties DEF Queued, Range
<1>3. QueuedWell(t) /\ t.job \in Jobs
  BY <1>1, <1>2 DEF QueueInv, TxType
<1>4. rest \in Seq(TxType) /\ Queued = Range(rest) \cup {t}
  BY <1>1, TakenFromQueue DEF Queued
<1>5. put \in TxType
  BY <1>3, PutSnapshotIs DEF SnapshotStatus, ScanStatus, AnyJob
<1> HIDE DEF rest, put
<1>6. Range(Append(rest, put)) = Range(rest) \cup {put}
  BY <1>4, <1>5, AddedToQueue
<1>7. Range(rest) \subseteq Queued' /\ Queued' \subseteq Range(rest) \cup {put}
  BY <1>6 DEF Queued, rest, put
<1>8. \A u \in Queued' : u \in Queued \/ u = PutSnapshot(t.job, "running")
  BY <1>4, <1>7 DEF put
<1>9. ASSUME NEW j \in Jobs
      PROVE  /\ finals'[j].of = finals[j].of /\ finals'[j].chunks = finals[j].chunks
             /\ ~(t.final /\ j = t.job) => finals'[j] = finals[j]
             /\ t.final /\ j = t.job => finals'[j].step = step /\ finals[j].step = "waiting"
  <2>1. CASE t.final
    <3> DEFINE f == [finals[t.job] EXCEPT !.step = step]
    <3>1. finals[t.job] \in FinalType /\ finals[t.job].step = "waiting"
      BY <1>1, <1>3, <2>1 DEF QueuedWell
    <3>2. f.of = finals[t.job].of /\ f.chunks = finals[t.job].chunks /\ f.step = step
      BY <3>1 DEF FinalType
    <3>3. finals' = [finals EXCEPT ![t.job] = f]
      BY <2>1
    <3> HIDE DEF f
    <3> QED
      BY <1>1, <1>3, <2>1, <3>1, <3>2, <3>3
  <2>2. CASE ~t.final
    BY <2>2
  <2> QED
    BY <2>1, <2>2
<1>10. ASSUME NEW j \in Jobs
       PROVE  /\ ~(t.final /\ j = t.job) => Pending(j) \subseteq Pending(j)'
              /\ Pending(j) \subseteq Pending(j)' \cup t.rows
  BY <1>4, <1>7, <1>9 DEF Pending
<1> QED
  BY <1>2, <1>3, <1>8, <1>9, <1>10

\* A write to the store of rows keeps the rows of a result, or puts there what
\* the scan itself says.
LEMMA HeldStays ==
    ASSUME WritingInv, NEW t \in Queued, NEW j \in Jobs, NEW r \in Jobs, finals[j].of \in {NoJob, j, r},
           t.op = "delete" => t.job # j,
           rows' = CASE t.op = "rows" -> Upsert(rows, t.rows)
                     [] t.op = "delete" -> {y \in rows : y.job # t.job}
                     [] OTHER -> rows
    PROVE  /\ \A k \in Keys(FinalRows(j, r)) : k \in Keys(HeldRows(j, r)) => k \in Keys(HeldRows(j, r)')
           /\ t.op = "rows" /\ t.job = j => Keys(t.rows) \subseteq Keys(HeldRows(j, r)')
<1>1. QueuedWell(t) /\ NoJob \notin Jobs
  BY ScanAssumption DEF WritingInv, QueueInv
<1>2. ASSUME NEW z \in t.rows, t.job = j
      PROVE  z.of \in {j, r}
  <2>1. CASE t.final
    <3>1. finals[j].step = "waiting" /\ z \in Filed(j, finals[j].of, "result")
      BY <1>1, <1>2, <2>1 DEF QueuedWell
    <3>2. finals[j].of \in Jobs
      BY <3>1 DEF WritingInv, FinalsInv, NoFinal
    <3> QED
      BY <1>1, <3>1, <3>2 DEF Filed
  <2>2. CASE ~t.final
    BY <1>1, <1>2, <2>2 DEF QueuedWell, Filed
  <2> QED
    BY <2>1, <2>2
<1>3. \A z \in t.rows : z.job = t.job
  BY <1>1 DEF QueuedWell, Filed
<1>4. ASSUME t.op = "rows", t.job = j, NEW z \in t.rows
      PROVE  Key(z) \in Keys(HeldRows(j, r)')
  <2>1. z \in rows' /\ z.of \in {j, r}
    BY <1>2, <1>4 DEF Upsert
  <2> QED
    BY <2>1 DEF Keys, HeldRows
<1>5. ASSUME NEW x \in FinalRows(j, r), NEW y \in HeldRows(j, r), Key(y) = Key(x)
      PROVE  Key(y) \in Keys(HeldRows(j, r)')
  <2>1. y \in rows /\ y.of \in {j, r}
    BY DEF HeldRows
  <2>2. y.job = j
    BY <1>5, FinalRowsAreFiled DEF Key, Filed
  <2>3. CASE y \in rows'
    BY <2>1, <2>3 DEF Keys, HeldRows
  <2>4. CASE y \notin rows'
    <3>1. t.op = "rows" /\ Key(y) \in Keys(t.rows)
      BY <2>1, <2>2, <2>4 DEF Upsert
    <3>2. PICK z \in t.rows : Key(z) = Key(y)
      BY <3>1 DEF Keys
    <3>3. t.job = j
      BY <1>3, <2>2, <3>2 DEF Key
    <3> QED
      BY <1>4, <3>1, <3>2, <3>3
  <2> QED
    BY <2>3, <2>4
<1>6. \A k \in Keys(FinalRows(j, r)) : k \in Keys(HeldRows(j, r)) => k \in Keys(HeldRows(j, r)')
  BY <1>5 DEF Keys
<1>7. t.op = "rows" /\ t.job = j => Keys(t.rows) \subseteq Keys(HeldRows(j, r)')
  BY <1>4 DEF Keys
<1> QED
  BY <1>6, <1>7

LEMMA CompletesWhole ==
    ASSUME WritingInv, DeletesLeft, WholeInv, NEW i, Completes(i)
    PROVE  WholeInv'
<1> DEFINE t == queue[i]
<1>1. /\ i \in DOMAIN queue
      /\ snapshots' = CASE t.op = "put" -> [snapshots EXCEPT ![t.job] = t.status]
                        [] t.op = "delete" -> [snapshots EXCEPT ![t.job] = NoSnapshot]
                        [] OTHER -> snapshots
      /\ rows' = CASE t.op = "rows" -> Upsert(rows, t.rows)
                   [] t.op = "delete" -> {y \in rows : y.job # t.job}
                   [] OTHER -> rows
      /\ \/ queue' = RemoveAt(queue, i)
         \/ queue' = Append(RemoveAt(queue, i), PutSnapshot(t.job, "running")) /\ t.op = "get"
      /\ finals' = IF t.final THEN [finals EXCEPT ![t.job].step = "next"] ELSE finals
      /\ UNCHANGED <<scan, page, writer>>
  BY DEF Completes, CanRun
<1>2. /\ t \in Queued /\ QueuedWell(t) /\ t \in TxType /\ t.job \in Jobs
      /\ \A u \in Queued' : u \in Queued \/ u = PutSnapshot(t.job, "running")
      /\ \A j \in Jobs :
             /\ finals'[j].of = finals[j].of
             /\ ~(t.final /\ j = t.job) => finals'[j] = finals[j] /\ Pending(j) \subseteq Pending(j)'
             /\ t.final /\ j = t.job => /\ finals'[j].step = "next" /\ finals[j].step = "waiting"
                                        /\ Pending(j) \subseteq Pending(j)' \cup t.rows
  BY <1>1, EndedTxLeaves
<1>3. snapshots \in [Jobs -> SnapshotStatus] /\ finals \in [Jobs -> FinalType]
  BY DEF WritingInv, TypeInv
<1>30. /\ \A u \in Queued' : u \in Queued \/ (u.job = t.job /\ t.op = "get")
  <2>1. PutSnapshot(t.job, "running").job = t.job
    BY <1>2, PutSnapshotIs DEF SnapshotStatus, ScanStatus
  <2>2. CASE queue' = RemoveAt(queue, i)
    <3>1. \A u \in Queued' : u \in Queued
      BY <1>1, <2>2, TakenFromQueue DEF Queued, WritingInv, TypeInv
    <3> QED
      BY <3>1
  <2>3. CASE t.op = "get"
    BY <1>2, <2>1, <2>3
  <2> QED
    BY <1>1, <2>2, <2>3
<1> HIDE DEF t
<1>4. ASSUME NEW j \in Jobs, NEW r \in Jobs, finals[j].of \in {NoJob, j, r}, t.op = "delete" => t.job # j
      PROVE  /\ \A k \in Keys(FinalRows(j, r)) : k \in Keys(HeldRows(j, r)) => k \in Keys(HeldRows(j, r)')
             /\ t.op = "rows" /\ t.job = j => Keys(t.rows) \subseteq Keys(HeldRows(j, r)')
             /\ Held(j, r) => Held(j, r)'
  <2>1. /\ \A k \in Keys(FinalRows(j, r)) : k \in Keys(HeldRows(j, r)) => k \in Keys(HeldRows(j, r)')
        /\ t.op = "rows" /\ t.job = j => Keys(t.rows) \subseteq Keys(HeldRows(j, r)')
    BY <1>1, <1>2, <1>4, HeldStays
  <2>2. FinalRows(j, r)' = FinalRows(j, r)
    BY DEF FinalRows, Unavailable, AllSignals
  <2> QED
    BY <2>1, <2>2 DEF Held
<1>5. t.final => t.op = "rows"
  BY <1>2 DEF QueuedWell
<1>6. Covered'
  <2>1. ASSUME NEW j \in Jobs, NEW r \in Jobs, finals'[j].of = r, finals'[j].step \in {"waiting", "next"}
        PROVE  Keys(FinalRows(j, r)) \subseteq Keys(HeldRows(j, r)') \cup Keys(Pending(j)')
    <3>1. finals[j].of = r /\ finals[j].step \in {"waiting", "next"}
      BY <1>2, <2>1
    <3>2. t.op = "delete" => t.job # j
      BY <1>2, <3>1 DEF DeletesLeft
    <3>3. Keys(FinalRows(j, r)) \subseteq Keys(HeldRows(j, r)) \cup Keys(Pending(j))
      BY <3>1 DEF WholeInv, Covered
    <3>4. Keys(Pending(j)) \subseteq Keys(HeldRows(j, r)') \cup Keys(Pending(j)')
      <4>1. CASE t.final /\ j = t.job
        <5>1. Keys(t.rows) \subseteq Keys(HeldRows(j, r)')
          BY <1>4, <1>5, <3>1, <3>2, <4>1
        <5> QED
          BY <1>2, <4>1, <5>1 DEF Keys
      <4>2. CASE ~(t.final /\ j = t.job)
        BY <1>2, <4>2 DEF Keys
      <4> QED
        BY <4>1, <4>2
    <3> QED
      BY <1>4, <3>1, <3>2, <3>3, <3>4
  <2> QED
    BY <2>1 DEF Covered
<1>7. WrittenWhole'
  <2>1. ASSUME NEW j \in Jobs, NEW r \in Jobs, finals'[j].of = r, finals'[j].step = "over"
        PROVE  Held(j, r)' \/ Gone(j)'
    <3>1. finals[j].of = r /\ finals[j].step = "over"
      BY <1>2, <2>1
    <3>2. CASE t.op = "delete" /\ t.job = j
      <4>1. snapshots'[j] = NoSnapshot
        BY <1>1, <1>2, <1>3, <3>2
      <4>2. writer.localId # j /\ \A u \in Queued : u.job = j => u.op = "delete"
        BY <1>2, <3>2 DEF DeletesLeft
      <4>3. \A u \in Queued' : u \in Queued
        BY <1>30, <3>2
      <4> QED
        BY <1>1, <4>1, <4>2, <4>3 DEF Gone
    <3>3. CASE ~(t.op = "delete" /\ t.job = j) /\ Held(j, r)
      BY <1>4, <3>1, <3>3
    <3>4. CASE ~(t.op = "delete" /\ t.job = j) /\ Gone(j)
      <4>1. t.job # j
        BY <1>2, <3>4 DEF Gone
      <4>2. snapshots'[j] = snapshots[j]
        BY <1>1, <1>3, <4>1
      <4> QED
        BY <1>1, <1>30, <3>4, <4>1, <4>2 DEF Gone
    <3> QED
      BY <3>1, <3>2, <3>3, <3>4 DEF WholeInv, WrittenWhole
  <2> QED
    BY <2>1 DEF WrittenWhole
<1> QED
  BY <1>6, <1>7 DEF WholeInv

LEMMA FailsWhole ==
    ASSUME WritingInv, WholeInv, NEW i, Fails(i)
    PROVE  WholeInv'
<1> DEFINE t == queue[i]
<1>1. /\ i \in DOMAIN queue /\ queue' = RemoveAt(queue, i)
      /\ finals' = IF t.final THEN [finals EXCEPT ![t.job].step = "failed"] ELSE finals
      /\ UNCHANGED <<scan, page, writer, snapshots, rows>>
  BY DEF Fails, CanRun
<1>2. /\ t \in Queued
      /\ \A u \in Queued' : u \in Queued \/ u = PutSnapshot(t.job, "running")
      /\ \A j \in Jobs :
             /\ finals'[j].of = finals[j].of
             /\ ~(t.final /\ j = t.job) => finals'[j] = finals[j] /\ Pending(j) \subseteq Pending(j)'
             /\ t.final /\ j = t.job => finals'[j].step = "failed" /\ finals[j].step = "waiting"
  BY <1>1, EndedTxLeaves
<1>20. \A u \in Queued' : u \in Queued
  BY <1>1, TakenFromQueue DEF Queued, WritingInv, TypeInv
<1> HIDE DEF t
<1>3. /\ \A j, r : HeldRows(j, r)' = HeldRows(j, r) /\ (Held(j, r)' <=> Held(j, r))
      /\ \A u \in Queued : u.job \in Jobs
  <2>1. \A u \in Queued : u \in TxType
    BY RangeIn DEF WritingInv, TypeInv, Queued
  <2> QED
    BY <1>1, <2>1 DEF Held, HeldRows, TxType
<1>4. Covered'
  <2>1. ASSUME NEW j \in Jobs, NEW r \in Jobs, finals'[j].of = r, finals'[j].step \in {"waiting", "next"}
        PROVE  Keys(FinalRows(j, r)) \subseteq Keys(HeldRows(j, r)') \cup Keys(Pending(j)')
    BY <1>2, <1>3, <2>1 DEF WholeInv, Covered, Keys
  <2> QED
    BY <2>1 DEF Covered
<1>5. WrittenWhole'
  <2>1. ASSUME NEW j \in Jobs, NEW r \in Jobs, finals'[j].of = r, finals'[j].step = "over"
        PROVE  Held(j, r)' \/ Gone(j)'
    <3>1. finals[j].of = r /\ finals[j].step = "over"
      BY <1>2, <2>1
    <3>2. Gone(j) => Gone(j)'
      BY <1>1, <1>20 DEF Gone
    <3> QED
      BY <1>3, <3>1, <3>2 DEF WholeInv, WrittenWhole
  <2> QED
    BY <2>1 DEF WrittenWhole
<1> QED
  BY <1>4, <1>5 DEF WholeInv

LEMMA ContinuesWhole ==
    ASSUME WritingInv, WholeInv, NEW j \in Jobs, FinalContinues(j)
    PROVE  WholeInv'
<1> DEFINE n == FinalStep(j, finals[j])
<1>1. PICK f : f = finals[j]
  OBVIOUS
<1>2. PICK t : t = n.tx
  OBVIOUS
<1>3. PICK g : g = n.final
  OBVIOUS
<1>4. /\ finals' = [finals EXCEPT ![j] = g] /\ queue' = Append(queue, t)
      /\ f.step = "next" /\ t \in TxType /\ t.job = j /\ g \in FinalType /\ g.of = f.of
      /\ \/ /\ f.chunks = << >> /\ t.op = "put" /\ t.rows = {} /\ ~t.final
            /\ g.step = "over" /\ g.chunks = << >>
         \/ /\ t.op = "rows" /\ t.final /\ g.step = "waiting"
            /\ Range(f.chunks) = Range(g.chunks) \cup {t.rows}
  BY <1>1, <1>2, <1>3, ContinuesIs DEF WritingInv
<1> HIDE DEF n
<1>5. /\ UNCHANGED <<scan, page, writer, snapshots, rows>> /\ finals \in [Jobs -> FinalType] /\ queue \in Seq(TxType)
      /\ page.job \in AnyJob /\ QueueInv /\ FinalsInv
  BY DEF FinalContinues, WritingInv, TypeInv, PageType
<1>6. Queued' = Queued \cup {t}
  BY <1>4, <1>5, AddedToQueue DEF Queued
<1>7. finals'[j] = g /\ \A k \in Jobs : k # j => finals'[k] = finals[k]
  BY <1>4, <1>5
<1>8. /\ \A k, r : HeldRows(k, r)' = HeldRows(k, r) /\ (Held(k, r)' <=> Held(k, r))
      /\ \A u \in Queued : u.job \in Jobs
  <2>1. \A u \in Queued : u \in TxType
    BY <1>5, RangeIn DEF Queued
  <2> QED
    BY <1>5, <2>1 DEF Held, HeldRows, TxType
<1>9. Covered'
  <2>1. ASSUME NEW k \in Jobs, NEW r \in Jobs, finals'[k].of = r, finals'[k].step \in {"waiting", "next"}
        PROVE  Keys(FinalRows(k, r)) \subseteq Keys(HeldRows(k, r)') \cup Keys(Pending(k)')
    <3>1. finals[k].of = r /\ finals[k].step \in {"waiting", "next"}
      BY <1>1, <1>4, <1>7, <2>1
    <3>2. Pending(k) \subseteq Pending(k)'
      <4>1. CASE k = j
        <5>1. t.final /\ t.job = k /\ Range(finals[k].chunks) = Range(finals'[k].chunks) \cup {t.rows}
          BY <1>1, <1>4, <1>7, <2>1, <4>1
        <5> QED
          BY <1>6, <5>1 DEF Pending
      <4>2. CASE k # j
        BY <1>6, <1>7, <4>2 DEF Pending
      <4> QED
        BY <4>1, <4>2
    <3> QED
      BY <1>8, <3>1, <3>2 DEF WholeInv, Covered, Keys
  <2> QED
    BY <2>1 DEF Covered
<1>10. ASSUME f.chunks = << >>
       PROVE  Held(j, f.of)
  <2>1. f.of \in Jobs
    BY <1>1, <1>4, <1>5 DEF FinalsInv, NoFinal
  <2>2. \A u \in Queued : ~(u.final /\ u.job = j)
    BY <1>1, <1>4, <1>5 DEF QueueInv, QueuedWell
  <2>3. Pending(j) = {}
    BY <1>1, <1>10, <2>2, NoQueue DEF Pending
  <2>4. Keys(FinalRows(j, f.of)) \subseteq Keys(HeldRows(j, f.of)) \cup Keys(Pending(j))
    BY <1>1, <1>4, <2>1 DEF WholeInv, Covered
  <2> QED
    BY <2>3, <2>4 DEF Held, Keys
<1>11. WrittenWhole'
  <2>1. ASSUME NEW k \in Jobs, NEW r \in Jobs, finals'[k].of = r, finals'[k].step = "over"
        PROVE  Held(k, r)' \/ Gone(k)'
    <3>1. CASE k = j
      BY <1>4, <1>7, <1>8, <1>10, <2>1, <3>1
    <3>2. CASE k # j
      <4>1. finals[k].of = r /\ finals[k].step = "over"
        BY <1>7, <2>1, <3>2
      <4>2. Gone(k) => Gone(k)'
        BY <1>4, <1>5, <1>6, <3>2 DEF Gone
      <4> QED
        BY <1>8, <4>1, <4>2 DEF WholeInv, WrittenWhole
    <3> QED
      BY <3>1, <3>2
  <2> QED
    BY <2>1 DEF WrittenWhole
<1> QED
  BY <1>9, <1>11 DEF WholeInv

LEMMA WholeStays ==
    ASSUME UserDeletes = "left", WritingInv, DeletesLeft, WholeInv, ScanGrows, Step
    PROVE  WholeInv'
<1>1. CASE Rendered
  <2>1. PICK p, changed : Rendering(p, changed)
    BY <1>1 DEF Rendered
  <2>2. PICK pre : RenderLeaves(p, changed, pre)
    BY <2>1, WhatIsRendered
  <2> QED
    BY <2>1, <2>2, RenderingWhole
<1>2. CASE /\ UNCHANGED page \/ (page.step = "asking" /\ page' = [page EXCEPT !.step = "idle"])
           /\ UNCHANGED <<device, writer, finals, queue, Stored>>
  <2>1. page'.job = page.job /\ page'.status = page.status /\ UNCHANGED <<finals, queue, snapshots, rows>>
    BY <1>2 DEF WritingInv, TypeInv, PageType, Stored
  <2>2. /\ \A j, r : HeldRows(j, r)' = HeldRows(j, r) /\ (Held(j, r)' <=> Held(j, r))
        /\ \A j : Pending(j)' = Pending(j)
    BY <2>1 DEF Held, HeldRows, Pending, Queued
  <2>3. Covered'
    BY <2>1, <2>2 DEF WholeInv, Covered
  <2>4. WrittenWhole'
    <3>1. \A j : Gone(j)' <=> Gone(j)
      BY <1>2 DEF Gone, Queued, Stored
    <3> QED
      BY <2>1, <2>2, <3>1 DEF WholeInv, WrittenWhole
  <2> QED
    BY <2>3, <2>4 DEF WholeInv
<1>3. CASE Reload
  <2>1. finals' = [j \in Jobs |-> NoFinal]
    BY <1>3 DEF Reload
  <2> QED
    BY <2>1 DEF WholeInv, Covered, WrittenWhole, NoFinal
<1>4. ASSUME NEW j \in Jobs, DeleteSnapshot(j)
      PROVE  WholeInv'
  <2>1. PICK t : t = Tx("delete", j)
    OBVIOUS
  <2>2. /\ queue' = Append(queue, t) /\ UNCHANGED <<scan, page, writer, finals, snapshots, rows>>
        /\ queue \in Seq(TxType)
    BY <1>4, <2>1 DEF DeleteSnapshot, WritingInv, TypeInv
  <2>3. t \in TxType /\ t.op = "delete"
    BY <2>1, TxIs
  <2>4. Queued' = Queued \cup {t}
    BY <2>2, <2>3, AddedToQueue DEF Queued
  <2>5. /\ \A k, r : HeldRows(k, r)' = HeldRows(k, r) /\ (Held(k, r)' <=> Held(k, r))
        /\ \A k : Pending(k) \subseteq Pending(k)'
    BY <2>2, <2>4 DEF Held, HeldRows, Pending
  <2>6. Covered'
    <3>1. \A k : Keys(Pending(k)) \subseteq Keys(Pending(k)')
      BY <2>5 DEF Keys
    <3> QED
      BY <2>2, <2>5, <3>1 DEF WholeInv, Covered
  <2>7. WrittenWhole'
    <3>1. \A k : Gone(k) => Gone(k)'
      BY <2>2, <2>3, <2>4 DEF Gone
    <3> QED
      BY <2>2, <2>5, <3>1 DEF WholeInv, WrittenWhole
  <2> QED
    BY <2>6, <2>7 DEF WholeInv
<1> QED
  BY <1>1, <1>2, <1>3, <1>4, CompletesWhole, FailsWhole, ContinuesWhole DEF Step

\* Equal keys, equal statuses.
LEMMA HeldIsHolding ==
    ASSUME WritingInv, NEW j \in Jobs, NEW r \in Jobs, Held(j, r)
    PROVE  Holds(j, r)
<1>1. ASSUME NEW x \in FinalRows(j, r)
      PROVE  \E y \in rows : Key(y) = Key(x) /\ y.of \in {r, j} /\ y.status = x.status
  <2>1. PICK y \in rows : Key(y) = Key(x) /\ y.of \in {j, r}
    BY DEF Held, HeldRows, Keys
  <2>2. x \in Row /\ y \in Row
    BY FinalRowsAreFiled DEF Filed, WritingInv, TypeInv
  <2>3. x.stock = y.stock /\ x.strategy = y.strategy
    BY <2>1 DEF Key
  <2> QED
    BY <2>1, <2>2, <2>3 DEF Row
<1> QED
  BY <1>1 DEF Holds

\* Once the loop that stores a result has come to its end, every row of that
\* result, or what the scan itself says instead, is in the history and stays
\* there until the user deletes the scan; again for a user who deletes only what
\* is not written to any more.
THEOREM FinalizedStaysWhole == UserDeletes = "left" /\ Spec => []FinalizedIsWhole
<1>1. ASSUME UserDeletes = "left"
      PROVE  Spec => []FinalizedIsWhole
  <2>1. Init => WritingInv /\ DeletesLeft /\ WholeInv
    <3>1. ASSUME Init
          PROVE  DeletesLeft /\ WholeInv
      BY <3>1, NoQueue DEF Init, DeletesLeft, WholeInv, Covered, WrittenWhole, NoFinal, Queued
    <3> QED
      BY <3>1, WritingInvBegins
  <2>2. WritingInv /\ DeletesLeft /\ WholeInv /\ [Next]_vars => (WritingInv /\ DeletesLeft /\ WholeInv)'
    BY <1>1, Steps, WritingInvKept, DeletesLeftKept, WholeStays
  <2>3. WritingInv /\ WholeInv => FinalizedIsWhole
    <3>1. ASSUME WritingInv, WholeInv, NEW j \in Jobs, finals[j].step = "over", snapshots[j] # NoSnapshot
          PROVE  Holds(j, finals[j].of)
      <4>1. finals[j].of \in Jobs
        BY <3>1 DEF WritingInv, FinalsInv, NoFinal
      <4>2. Held(j, finals[j].of)
        BY <3>1, <4>1 DEF WholeInv, WrittenWhole, Gone
      <4> QED
        BY <3>1, <4>1, <4>2, HeldIsHolding
    <3> QED
      BY <3>1 DEF FinalizedIsWhole
  <2> QED
    BY <2>1, <2>2, <2>3, PTL DEF Spec
<1> QED
  BY <1>1
=============================================================================
