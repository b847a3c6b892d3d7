-------------------------- MODULE LogReaderProofs --------------------------
(***************************************************************************)
(* Proofs about LogReader, for any number of reader threads, any capacity  *)
(* of the private buffer, any number of levels and any file: the byte      *)
(* ranges cut the file into its lines, every line is in one place on its   *)
(* way from the file to Region A, no wake-up is lost, and the process      *)
(* implements LineStream.                                                  *)
(***************************************************************************)
EXTENDS LogReader, CountingLemmas

-----------------------------------------------------------------------------
(* The file                                                                *)

\* The inputs: a file, and lines of it that parse.
FileInv == file \in Files /\ wellFormed \subseteq LineStarts(file)

\* A file is a function on the offsets 1 to its size.
LEMMA FileBytes ==
    ASSUME FileInv
    PROVE  Size \in Nat /\ \A i \in 1..Size : file[i] \in {NL, Other}
<1>1. PICK n \in 0..MaxFileSize : file \in [1..n -> {NL, Other}]
  BY DEF FileInv, Files
<1>2. n \in Nat
  BY <1>1, ReaderAssumption
<1>3. Len(file) = n
  BY <1>1, <1>2
<1> QED BY <1>1, <1>2, <1>3 DEF Size

\* What a line start is.
LEMMA LineStartsAre ==
    ASSUME FileInv, NEW i
    PROVE  i \in LineStarts(file) <=> (i \in Nat /\ i < Size /\ (i = 0 \/ file[i] = NL))
BY FileBytes DEF LineStarts, Size

\* There are finitely many lines.
LEMMA LinesAreFinite ==
    ASSUME FileInv
    PROVE  IsFiniteSet(LineStarts(file)) /\ IsFiniteSet(wellFormed)
<1>1. IsFiniteSet(0..(Size - 1))
  BY FileBytes, FS_Interval
<1>2. LineStarts(file) \subseteq 0..(Size - 1)
  BY DEF LineStarts, Size
<1>3. IsFiniteSet(LineStarts(file))
  BY <1>1, <1>2, FS_Subset
<1> QED BY <1>3, FS_Subset DEF FileInv

\* The offset behind the next newline is the next line start, or the end of the
\* file when there is none.
LEMMA AfterNewlineIsNext ==
    ASSUME FileInv, NEW i \in Nat, i <= Size
    PROVE  /\ AfterNewline(i) \in Nat
           /\ i <= AfterNewline(i)
           /\ AfterNewline(i) >= Size \/ (AfterNewline(i) \in LineStarts(file) /\ i < AfterNewline(i))
           /\ \A j \in LineStarts(file) : j < AfterNewline(i) => j <= i
           /\ i < Size => i < AfterNewline(i)
<1> DEFINE ends == {j \in i..(Size - 1) : file[j + 1] = NL}
<1>1. Size \in Nat /\ ends \in SUBSET Nat
  BY FileBytes
<1>2. CASE ends = {}
  <2>1. AfterNewline(i) = Max({i, Size})
    BY <1>2 DEF AfterNewline
  <2>2. Max({i, Size}) = Size
    BY <1>1 DEF Max
  <2>3. \A j \in LineStarts(file) : j <= i
    <3> SUFFICES ASSUME NEW j \in LineStarts(file), j > i PROVE FALSE
      BY <1>1, LineStartsAre
    <3>1. j \in Nat /\ j < Size /\ file[j] = NL
      BY LineStartsAre
    <3>2. j - 1 \in i..(Size - 1) /\ (j - 1) + 1 = j
      BY <1>1, <3>1
    <3>3. j - 1 \in ends
      BY <3>1, <3>2
    <3> QED BY <1>2, <3>3
  <2> QED BY <1>1, <2>1, <2>2, <2>3
<1>3. CASE ends # {}
  <2> DEFINE m == Min(ends)
  <2>1. AfterNewline(i) = m + 1
    BY <1>3 DEF AfterNewline
  <2>2. m \in ends /\ \A j \in ends : m <= j
    <3> HIDE DEF ends
    <3> QED BY <1>1, <1>3, MinNatural
  <2> HIDE DEF m
  <2>3. m \in Nat /\ i <= m /\ m < Size /\ file[m + 1] = NL
    BY <1>1, <2>2
  <2>4. m + 1 >= Size \/ m + 1 \in LineStarts(file)
    BY <1>1, <2>3, LineStartsAre
  <2>5. \A j \in LineStarts(file) : j < m + 1 => j <= i
    <3> SUFFICES ASSUME NEW j \in LineStarts(file), j < m + 1, j > i PROVE FALSE
      BY <1>1, LineStartsAre
    <3>1. j \in Nat /\ j < Size /\ file[j] = NL
      BY LineStartsAre
    <3>2. j - 1 \in i..(Size - 1) /\ (j - 1) + 1 = j
      BY <1>1, <3>1
    <3>3. j - 1 \in ends
      BY <3>1, <3>2
    <3>4. m <= j - 1
      BY <2>2, <3>3
    <3> QED BY <2>3, <3>1, <3>4
  <2> QED BY <1>1, <2>1, <2>3, <2>4, <2>5
<1> QED BY <1>2, <1>3

-----------------------------------------------------------------------------
(* The byte ranges                                                         *)

\* Division with remainder.
LEMMA Division ==
    ASSUME NEW x \in Nat, NEW n \in Nat \ {0}
    PROVE  x \div n \in Nat /\ x % n \in 0..(n - 1) /\ x = n * (x \div n) + (x % n)
OBVIOUS

\* Products grow with their factor.
LEMMA ProductGrows ==
    ASSUME NEW c \in Nat, NEW t \in Nat, NEW u \in Nat, t < u
    PROVE  t * c \in Nat /\ (t + 1) * c = t * c + c /\ (t + 1) * c <= u * c
<1>1. PICK k \in Nat : u = (t + 1) + k
  <2>1. u - (t + 1) \in Nat /\ u = (t + 1) + (u - (t + 1))
    OBVIOUS
  <2> QED BY <2>1
<1>2. ((t + 1) + k) * c = (t + 1) * c + k * c
  OBVIOUS
<1>3. k * c \in Nat /\ (t + 1) * c \in Nat /\ t * c \in Nat
  OBVIOUS
<1>4. (t + 1) * c = t * c + c
  OBVIOUS
<1> QED BY <1>1, <1>2, <1>3, <1>4

\* chunk is rounded up: the ranges of all threads cover the file.
LEMMA ChunksCover ==
    ASSUME FileInv
    PROVE  Chunk \in Nat /\ NumThreads * Chunk >= Size
<1>1. Size \in Nat /\ NumThreads \in Nat \ {0}
  BY FileBytes, ReaderAssumption
<1>2. PICK x \in Nat : x = Size + NumThreads - 1
  BY <1>1
<1>3. /\ x \div NumThreads \in Nat
      /\ x % NumThreads \in 0..(NumThreads - 1)
      /\ x = NumThreads * (x \div NumThreads) + (x % NumThreads)
  BY <1>1, Division
<1>4. PICK q \in Nat : q = x \div NumThreads
  BY <1>3
<1>5. PICK r \in 0..(NumThreads - 1) : r = x % NumThreads
  BY <1>3
<1>6. PICK p : p = NumThreads * q
  OBVIOUS
<1>7. p \in Nat
  BY <1>1, <1>6
<1>8. x = p + r
  BY <1>3, <1>4, <1>5, <1>6
<1>9. p >= Size
  BY <1>1, <1>2, <1>5, <1>7, <1>8
<1>10. Chunk = q
  BY <1>2, <1>4 DEF Chunk
<1> QED BY <1>6, <1>9, <1>10

\* The lines that start in a thread's byte range.
LinesOf(t) == {i \in LineStarts(file) : StartOffset(t) <= i /\ i < EndOffset(t)}

\* The offsets of a range.
LEMMA RangeOffsets ==
    ASSUME FileInv, NEW t \in Threads
    PROVE  /\ t \in Nat /\ StartOffset(t) \in Nat
           /\ StartOffset(t) + Chunk = (t + 1) * Chunk
           /\ EndOffset(t) \in Nat /\ EndOffset(t) <= Size
           /\ EndOffset(t) <= StartOffset(t) + Chunk
           /\ EndOffset(t) = Size \/ EndOffset(t) = StartOffset(t) + Chunk
           /\ IsLast(t) => EndOffset(t) = Size
<1>1. Size \in Nat /\ Chunk \in Nat /\ NumThreads * Chunk >= Size
  BY FileBytes, ChunksCover
<1>2. t \in Nat /\ t + 1 \in Nat /\ t < t + 1 /\ NumThreads \in Nat
  BY ReaderAssumption DEF Threads
<1>3. t * Chunk \in Nat /\ (t + 1) * Chunk = t * Chunk + Chunk
  BY <1>1, <1>2, ProductGrows
<1>4. PICK a \in Nat : a = t * Chunk
  BY <1>3
<1>5. PICK e \in Nat : e = (t + 1) * Chunk
  BY <1>1, <1>3
<1>6. e = a + Chunk
  BY <1>3, <1>4, <1>5
<1>7. EndOffset(t) = Min({e, Size})
  BY <1>5 DEF EndOffset
<1>8. Min({e, Size}) = IF e <= Size THEN e ELSE Size
  <2>1. Min({e, Size}) \in {e, Size} /\ \A j \in {e, Size} : Min({e, Size}) <= j
    <3>1. {e, Size} \in SUBSET Nat /\ {e, Size} # {}
      BY <1>1, <1>5
    <3> QED BY <3>1, MinNatural
  <2> QED BY <1>1, <1>5, <2>1
<1>9. IsLast(t) => e >= Size
  BY <1>1, <1>2, <1>5 DEF IsLast
<1>10. StartOffset(t) = a
  BY <1>4 DEF StartOffset
<1>11. EndOffset(t) = IF e <= Size THEN e ELSE Size
  BY <1>7, <1>8
<1>12. EndOffset(t) \in Nat /\ EndOffset(t) <= Size /\ EndOffset(t) <= e
  BY <1>1, <1>5, <1>11
<1>13. EndOffset(t) = Size \/ EndOffset(t) = e
  BY <1>11
<1>14. IsLast(t) => EndOffset(t) = Size
  BY <1>1, <1>5, <1>9, <1>11
<1>15. StartOffset(t) + Chunk = e
  BY <1>6, <1>10
<1> QED BY <1>2, <1>4, <1>5, <1>10, <1>12, <1>13, <1>14, <1>15

\* Ranges of different threads share no line.
LEMMA RangesDisjoint ==
    ASSUME FileInv, NEW t \in Threads, NEW u \in Threads, t # u
    PROVE  LinesOf(t) \cap LinesOf(u) = {}
<1>1. ASSUME NEW x \in Threads, NEW y \in Threads, x < y
      PROVE  LinesOf(x) \cap LinesOf(y) = {}
  <2>1. x \in Nat /\ y \in Nat /\ Chunk \in Nat
    BY RangeOffsets, ChunksCover
  <2>2. (x + 1) * Chunk <= y * Chunk
    BY <1>1, <2>1, ProductGrows
  <2>3. EndOffset(x) \in Nat /\ StartOffset(y) \in Nat /\ EndOffset(x) <= (x + 1) * Chunk
    BY RangeOffsets
  <2>4. PICK e : e = (x + 1) * Chunk
    OBVIOUS
  <2>5. e \in Int
    BY <2>1, <2>4, RangeOffsets
  <2>6. EndOffset(x) <= StartOffset(y)
    BY <2>2, <2>3, <2>4, <2>5 DEF StartOffset
  <2>7. ASSUME NEW i \in LinesOf(x) \cap LinesOf(y) PROVE FALSE
    <3>1. i \in LineStarts(file) /\ i < EndOffset(x) /\ StartOffset(y) <= i
      BY <2>7 DEF LinesOf
    <3>2. i \in Nat
      BY <3>1, LineStartsAre
    <3> QED BY <2>3, <2>6, <3>1, <3>2
  <2> QED BY <2>7
<1>2. t \in Nat /\ u \in Nat
  BY RangeOffsets
<1>3. t < u \/ u < t
  BY <1>2
<1> QED BY <1>1, <1>3

\* Every line starts in some range: the least range that ends behind it.
LEMMA RangesCover ==
    ASSUME FileInv, NEW i \in LineStarts(file)
    PROVE  \E t \in Threads : i \in LinesOf(t)
<1>1. i \in Nat /\ i < Size /\ Size \in Nat /\ Chunk \in Nat /\ NumThreads * Chunk >= Size
  BY FileBytes, LineStartsAre, ChunksCover
<1> DEFINE S == {k \in Nat : i < (k + 1) * Chunk}
<1>2. NumThreads - 1 \in S
  <2>1. NumThreads - 1 \in Nat /\ (NumThreads - 1) + 1 = NumThreads
    BY ReaderAssumption
  <2>2. PICK p : p = NumThreads * Chunk
    OBVIOUS
  <2>3. p \in Nat
    BY <1>1, <2>1, <2>2
  <2>4. i < NumThreads * Chunk
    BY <1>1, <2>2, <2>3
  <2> QED BY <2>1, <2>4
<1>3. PICK t \in S : \A k \in S : t <= k
  <2>1. S \in SUBSET Nat /\ S # {}
    BY <1>2
  <2> HIDE DEF S
  <2> QED BY <2>1, LeastNatural
<1>4. t \in Nat /\ i < (t + 1) * Chunk /\ t <= NumThreads - 1
  BY <1>2, <1>3
<1>5. t \in Threads
  BY <1>4, ReaderAssumption DEF Threads
<1>6. t * Chunk <= i
  <2>1. CASE t = 0
    <3>1. t * Chunk = 0
      BY <1>1, <2>1
    <3> QED BY <1>1, <3>1
  <2>2. CASE t # 0
    <3>1. t - 1 \in Nat /\ (t - 1) + 1 = t /\ ~(t <= t - 1)
      BY <1>4, <2>2
    <3>2. t - 1 \notin S
      BY <1>3, <3>1
    <3>3. ~(i < t * Chunk)
      BY <3>1, <3>2
    <3>4. t * Chunk \in Nat
      BY <1>1, <1>4
    <3> QED BY <1>1, <3>3, <3>4
  <2> QED BY <2>1, <2>2
<1>7. StartOffset(t) <= i
  BY <1>6 DEF StartOffset
<1>8. i < EndOffset(t)
  <2>1. EndOffset(t) = Size \/ EndOffset(t) = (t + 1) * Chunk
    BY <1>5, RangeOffsets
  <2> QED BY <1>1, <1>4, <2>1
<1> QED BY <1>5, <1>7, <1>8 DEF LinesOf

\* Past the boundary check a thread stands at the end of the file or at the
\* first line start of its range or behind it.
LEMMA BoundaryIsFirstLine ==
    ASSUME FileInv, NEW t \in Threads
    PROVE  /\ BoundaryPosition(t) \in Nat
           /\ \/ BoundaryPosition(t) >= Size
              \/ BoundaryPosition(t) \in LineStarts(file) /\ BoundaryPosition(t) >= StartOffset(t)
           /\ \A i \in LinesOf(t) : ~(i < BoundaryPosition(t))
<1>1. PICK s \in Nat : s = StartOffset(t)
  BY RangeOffsets
<1>2. PICK z \in Nat : z = Size
  BY FileBytes
<1>3. \A i \in LinesOf(t) : i \in Nat /\ s <= i /\ i < z /\ (i = 0 \/ file[i] = NL)
  BY <1>1, <1>2, LineStartsAre DEF LinesOf
<1>4. CASE s = 0
  <2>1. BoundaryPosition(t) = 0
    BY <1>1, <1>4 DEF BoundaryPosition
  <2>2. 0 >= z \/ 0 \in LineStarts(file)
    BY <1>2, LineStartsAre
  <2> QED BY <1>1, <1>2, <1>3, <1>4, <2>1, <2>2
<1>5. CASE s # 0 /\ s - 1 >= z
  <2>1. BoundaryPosition(t) = s - 1
    BY <1>1, <1>2, <1>5 DEF BoundaryPosition
  <2> QED BY <1>1, <1>2, <1>3, <1>5, <2>1
<1>6. CASE s # 0 /\ ~(s - 1 >= z) /\ file[s] = NL
  <2>1. BoundaryPosition(t) = s
    BY <1>1, <1>2, <1>6 DEF BoundaryPosition
  <2>2. s >= z \/ s \in LineStarts(file)
    BY <1>2, <1>6, LineStartsAre
  <2> QED BY <1>1, <1>2, <1>3, <2>1, <2>2
<1>7. CASE s # 0 /\ ~(s - 1 >= z) /\ file[s] # NL
  <2>1. BoundaryPosition(t) = AfterNewline(s)
    BY <1>1, <1>2, <1>7 DEF BoundaryPosition
  <2>2. s <= Size
    BY <1>2, <1>7
  <2>3. PICK a : a = AfterNewline(s)
    OBVIOUS
  <2>4. /\ a \in Nat /\ s <= a
        /\ a >= Size \/ a \in LineStarts(file)
        /\ \A j \in LineStarts(file) : j < a => j <= s
    BY <2>2, <2>3, AfterNewlineIsNext
  <2>5. \A i \in LinesOf(t) : ~(i < a)
    <3> SUFFICES ASSUME NEW i \in LinesOf(t), i < a PROVE FALSE
      OBVIOUS
    <3>1. i \in Nat /\ s <= i /\ i <= s
      BY <1>3, <2>4 DEF LinesOf
    <3>2. i = s
      BY <3>1
    <3> QED BY <1>3, <1>7, <3>2
  <2> QED BY <1>1, <1>2, <2>1, <2>3, <2>4, <2>5
<1> QED BY <1>4, <1>5, <1>6, <1>7

\* A thread at a line of its range takes that line and nothing else.
LEMMA NextLineOfRange ==
    ASSUME FileInv, NEW t \in Threads, NEW p \in LinesOf(t)
    PROVE  {i \in LinesOf(t) : i < AfterNewline(p)} = {i \in LinesOf(t) : i < p} \cup {p}
<1>1. p \in Nat /\ p < Size /\ p \in LineStarts(file) /\ Size \in Nat
  BY FileBytes, LineStartsAre DEF LinesOf
<1>2. PICK a : a = AfterNewline(p)
  OBVIOUS
<1>3. p <= Size
  BY <1>1
<1>4. a \in Nat /\ p < a /\ \A j \in LineStarts(file) : j < a => j <= p
  BY <1>1, <1>2, <1>3, AfterNewlineIsNext
<1>5. \A i \in LinesOf(t) : i \in Nat /\ i \in LineStarts(file)
  BY LineStartsAre DEF LinesOf
<1>6. \A i \in LinesOf(t) : i < a <=> (i < p \/ i = p)
  BY <1>1, <1>4, <1>5
<1> QED BY <1>2, <1>6

\* A thread whose range is not exhausted stands at a line of its range.
LEMMA AtLineOfRange ==
    ASSUME FileInv, NEW t \in Threads, pos[t] \in Nat, ~RangeExhausted(t),
           pos[t] >= Size \/ (pos[t] \in LineStarts(file) /\ pos[t] >= StartOffset(t))
    PROVE  pos[t] \in LinesOf(t)
<1>1. pos[t] < Size /\ (~IsLast(t) => pos[t] < EndOffset(t))
  BY FileBytes, RangeOffsets DEF RangeExhausted
<1>2. pos[t] < EndOffset(t)
  BY <1>1, RangeOffsets
<1>3. pos[t] \in LineStarts(file) /\ StartOffset(t) <= pos[t]
  BY <1>1, FileBytes, RangeOffsets
<1> QED BY <1>2, <1>3 DEF LinesOf

\* A thread whose range is exhausted has passed all lines of it.
LEMMA RangePassed ==
    ASSUME FileInv, NEW t \in Threads, pos[t] \in Nat, RangeExhausted(t)
    PROVE  \A i \in LinesOf(t) : i < pos[t]
<1>1. PICK e \in Nat : e = EndOffset(t) /\ e <= Size
  BY RangeOffsets
<1>2. pos[t] >= e
  BY <1>1, FileBytes DEF RangeExhausted
<1>3. \A i \in LinesOf(t) : i \in Nat /\ i < e
  BY <1>1, LineStartsAre DEF LinesOf
<1> QED BY <1>2, <1>3

-----------------------------------------------------------------------------
(* The ring, without the modulo                                            *)

\* The cells of the ring that hold c entries from cell h on.
Cells(h, c) == {i \in 0..(Capacity - 1) : (h <= i /\ i < h + c) \/ i + Capacity < h + c}

\* The modulo of a ring index is a step or a return to cell 0.
LEMMA NextIndexIs ==
    ASSUME NEW i \in 0..(Capacity - 1)
    PROVE  NextIndex(i) = IF i + 1 = Capacity THEN 0 ELSE i + 1
<1>1. Capacity \in Nat \ {0} /\ i \in Nat /\ i + 1 \in Nat /\ i + 1 <= Capacity
  BY ReaderAssumption
<1>2. CASE i + 1 = Capacity
  BY <1>1, <1>2 DEF NextIndex
<1>3. CASE i + 1 # Capacity
  BY <1>1, <1>3 DEF NextIndex
<1> QED BY <1>2, <1>3

\* The cell behind c entries from h on.
CellBehind(h, c) == IF h + c < Capacity THEN h + c ELSE h + c - Capacity

\* A push fills the cell behind the entries, which was free.
LEMMA PushFillsCell ==
    ASSUME NEW h \in 0..(Capacity - 1), NEW c \in Nat, c < Capacity
    PROVE  /\ CellBehind(h, c) \in 0..(Capacity - 1)
           /\ CellBehind(h, c) \notin Cells(h, c)
           /\ Cells(h, c + 1) = Cells(h, c) \cup {CellBehind(h, c)}
           /\ NextIndex(CellBehind(h, c)) = CellBehind(h, c + 1)
<1>1. Capacity \in Nat \ {0} /\ h \in Nat
  BY ReaderAssumption
<1>2. CellBehind(h, c) \in 0..(Capacity - 1)
  BY <1>1 DEF CellBehind
<1>3. CellBehind(h, c) \notin Cells(h, c)
  BY <1>1 DEF CellBehind, Cells
<1>4. Cells(h, c + 1) = Cells(h, c) \cup {CellBehind(h, c)}
  BY <1>1 DEF CellBehind, Cells
<1>5. NextIndex(CellBehind(h, c)) = CellBehind(h, c + 1)
  BY <1>1, <1>2, NextIndexIs DEF CellBehind
<1> QED BY <1>2, <1>3, <1>4, <1>5

\* A pop empties the first cell and leaves the others.
LEMMA PopEmptiesCell ==
    ASSUME NEW h \in 0..(Capacity - 1), NEW c \in Nat, 0 < c, c <= Capacity
    PROVE  /\ NextIndex(h) \in 0..(Capacity - 1)
           /\ h \in Cells(h, c)
           /\ Cells(NextIndex(h), c - 1) = Cells(h, c) \ {h}
           /\ CellBehind(NextIndex(h), c - 1) = CellBehind(h, c)
<1>1. Capacity \in Nat \ {0} /\ h \in Nat
  BY ReaderAssumption
<1>2. PICK m : m = NextIndex(h)
  OBVIOUS
<1>3. m = IF h + 1 = Capacity THEN 0 ELSE h + 1
  BY <1>2, NextIndexIs
<1>4. m \in 0..(Capacity - 1)
  BY <1>1, <1>3
<1>5. h \in Cells(h, c)
  BY <1>1 DEF Cells
<1>6. Cells(m, c - 1) = Cells(h, c) \ {h}
  BY <1>1, <1>3 DEF Cells
<1>7. CellBehind(m, c - 1) = CellBehind(h, c)
  BY <1>1, <1>3 DEF CellBehind
<1> QED BY <1>2, <1>4, <1>5, <1>6, <1>7

\* An empty ring has no entries.
LEMMA EmptyRing ==
    ASSUME NEW h \in 0..(Capacity - 1)
    PROVE  Cells(h, 0) = {} /\ CellBehind(h, 0) = h
BY ReaderAssumption DEF Cells, CellBehind

-----------------------------------------------------------------------------
(* The inductive invariant                                                 *)

\* The lines of its range that a thread has taken from the file, and the one of
\* them it still holds for private_buffer_push.
Consumed(t) == {i \in LinesOf(t) : tpc[t] # "start" /\ i < pos[t]}
Held(t)     == IF tpc[t] = "push" THEN {parsed[t]} ELSE {}

\* A thread between two lines is at a line start; it holds a well-formed line it
\* has taken; its counters are what it has taken.
ThreadInv(t) ==
    /\ tpc[t] # "start" =>
           pos[t] >= Size \/ (pos[t] \in LineStarts(file) /\ pos[t] >= StartOffset(t))
    /\ tpc[t] = "ended" => RangeExhausted(t)
    /\ Held(t) \subseteq Consumed(t) \cap wellFormed
    /\ linesRead[t] = Cardinality(Consumed(t) \ Held(t))
    /\ malformed[t] = Cardinality(Consumed(t) \ wellFormed)

ThreadsInv == \A t \in Threads : ThreadInv(t)

\* The cells of the private buffer that hold entries; tail is behind them.
Occupied == Cells(head, count)
RingInv  == tail = CellBehind(head, count)

\* The places a line can be in on its way to Region A.
Fetched(n)  == \E t \in Threads : n \in Consumed(t)
InHand(n)   == \E t \in Threads : tpc[t] = "push" /\ parsed[t] = n
InRing(n)   == \E i \in Occupied : entries[i] = n
AtParser(n) == ppc = "forward" /\ current = n
IsSent(n)   == \E j \in 1..Len(output) : output[j] = [is_eof |-> FALSE, value |-> n]

\* A line that was taken from the file is in exactly one place.
OnePlace(n) ==
    /\ Fetched(n) <=> (InHand(n) \/ InRing(n) \/ AtParser(n) \/ IsSent(n))
    /\ InHand(n) => ~InRing(n) /\ ~AtParser(n) /\ ~IsSent(n)
    /\ InRing(n) => ~AtParser(n) /\ ~IsSent(n)
    /\ AtParser(n) => ~IsSent(n)

PlacesInv ==
    /\ \A i, j \in Occupied : entries[i] = entries[j] => i = j
    /\ \A i \in Occupied : entries[i] \in wellFormed
    /\ ppc = "forward" => current \in wellFormed
    /\ \A n \in wellFormed : OnePlace(n)

\* The lines already in Region A.
SentLines == {n \in wellFormed : IsSent(n)}

\* What Region A receives.
Items == [is_eof : BOOLEAN, value : Int]

\* The EOF markers come when nothing is left, and are what Region A has received
\* beyond the lines.
ParserInv ==
    /\ output \in Seq(Items)
    /\ producersDone => \A t \in Threads : tpc[t] = "ended"
    /\ ppc \in {"eof", "ended"} => Drained
    /\ eofLevel > 0 => ppc \in {"eof", "ended"}
    /\ ppc = "eof" => eofLevel < NumLevels
    /\ Len(output) = Cardinality(SentLines) + eofLevel

\* Who sleeps on not_full is about to push.
WaitInv == \A t \in notFull : tpc[t] = "push"

ReaderInv ==
    /\ TypeOK /\ FileInv /\ ThreadsInv /\ RingInv /\ PlacesInv /\ ParserInv
    /\ WaitInv /\ NoWakeupLost

-----------------------------------------------------------------------------
(* What stays when a part of the state stays                               *)

\* The ranges belong to the file.
LEMMA RangesKept ==
    ASSUME file' = file, NEW t
    PROVE  /\ Size' = Size /\ LineStarts(file)' = LineStarts(file)
           /\ StartOffset(t)' = StartOffset(t) /\ EndOffset(t)' = EndOffset(t)
           /\ LinesOf(t)' = LinesOf(t)
<1>1. Size' = Size /\ LineStarts(file)' = LineStarts(file)
  BY DEF Size, LineStarts
<1>2. Chunk' = Chunk
  BY <1>1 DEF Chunk
<1>3. StartOffset(t)' = StartOffset(t) /\ EndOffset(t)' = EndOffset(t)
  BY <1>1, <1>2 DEF StartOffset, EndOffset
<1> QED BY <1>1, <1>3 DEF LinesOf

\* The inputs never change.
LEMMA FileKept ==
    ASSUME FileInv, file' = file, wellFormed' = wellFormed
    PROVE  FileInv'
BY DEF FileInv, LineStarts

\* Every step leaves the inputs alone.
LEMMA InputsFixed ==
    ASSUME [Next]_vars
    PROVE  file' = file /\ wellFormed' = wellFormed
BY DEF Next, vars, fileVars, ReaderThread, OpenAndSeek, ReadLine, ThreadEnds, PushPrivate,
       PushPrivateWaits, ProducersDone, ParserThread, PopPrivate, PopPrivateWaits,
       PopPrivateEnds, Forward, ForwardEof, Exited

\* What a thread has taken depends on its position.
LEMMA ConsumedKept ==
    ASSUME file' = file, NEW t, pos'[t] = pos[t], tpc'[t] = "start" <=> tpc[t] = "start"
    PROVE  Consumed(t)' = Consumed(t)
BY RangesKept DEF Consumed

\* A thread that a step leaves alone keeps its part of the invariant.
LEMMA ThreadKept ==
    ASSUME file' = file, wellFormed' = wellFormed, NEW t, ThreadInv(t),
           tpc'[t] = tpc[t], pos'[t] = pos[t], parsed'[t] = parsed[t],
           linesRead'[t] = linesRead[t], malformed'[t] = malformed[t]
    PROVE  ThreadInv(t)'
<1>1. Consumed(t)' = Consumed(t)
  BY ConsumedKept
<1>2. Held(t)' = Held(t)
  BY DEF Held
<1>3. RangeExhausted(t)' = RangeExhausted(t)
  BY RangesKept DEF RangeExhausted, IsLast
<1> QED BY <1>1, <1>2, <1>3, RangesKept DEF ThreadInv

\* A line's places depend on the parts of the state they are about.
LEMMA FetchedKept ==
    ASSUME file' = file, pos' = pos, \A t \in Threads : tpc'[t] = "start" <=> tpc[t] = "start", NEW n
    PROVE  Fetched(n)' <=> Fetched(n)
<1>1. \A t \in Threads : Consumed(t)' = Consumed(t)
  BY ConsumedKept
<1> QED BY <1>1 DEF Fetched, Threads

\* Likewise for what the threads hold.
LEMMA InHandKept ==
    ASSUME parsed' = parsed, \A t \in Threads : tpc'[t] = "push" <=> tpc[t] = "push", NEW n
    PROVE  InHand(n)' <=> InHand(n)
BY DEF InHand, Threads

\* Likewise for the private buffer.
LEMMA InRingKept ==
    ASSUME UNCHANGED ringVars, NEW n
    PROVE  Occupied' = Occupied /\ (InRing(n)' <=> InRing(n)) /\ (RingInv' <=> RingInv)
BY DEF InRing, Occupied, Cells, RingInv, CellBehind, ringVars

\* Likewise for the parser's entry and for Region A.
LEMMA AtParserKept ==
    ASSUME ppc' = ppc \/ (ppc' # "forward" /\ ppc # "forward"), current' = current, NEW n
    PROVE  AtParser(n)' <=> AtParser(n)
BY DEF AtParser

\* Likewise for Region A.
LEMMA IsSentKept ==
    ASSUME output' = output, NEW n
    PROVE  IsSent(n)' <=> IsSent(n)
BY DEF IsSent

\* A step that moves no line keeps all lines in their places.
LEMMA PlacesKept ==
    ASSUME PlacesInv, wellFormed' = wellFormed, UNCHANGED ringVars, current' = current,
           ppc' = ppc \/ (ppc' # "forward" /\ ppc # "forward"),
           \A n \in wellFormed : Fetched(n)' <=> Fetched(n),
           \A n \in wellFormed : InHand(n)' <=> InHand(n),
           \A n \in wellFormed : IsSent(n)' <=> IsSent(n)
    PROVE  PlacesInv'
<1>1. Occupied' = Occupied /\ entries' = entries
  BY InRingKept DEF ringVars
<1>2. \A n \in wellFormed : InRing(n)' <=> InRing(n)
  BY InRingKept
<1>3. \A n \in wellFormed : AtParser(n)' <=> AtParser(n)
  BY AtParserKept
<1>4. \A n \in wellFormed : OnePlace(n) => OnePlace(n)'
  BY <1>2, <1>3 DEF OnePlace
<1>5. (ppc = "forward" => current \in wellFormed)'
  BY DEF PlacesInv
<1> QED BY <1>1, <1>4, <1>5 DEF PlacesInv

-----------------------------------------------------------------------------
(* Types                                                                   *)

\* A signal of not_empty moves the parser from its wait to its loop.
LEMMA AwakeIs ==
    ASSUME NEW pc \in {"pop", "wait", "forward", "eof", "ended"}
    PROVE  /\ Awake(pc) \in {"pop", "forward", "eof", "ended"}
           /\ \A x \in {"forward", "eof", "ended"} : Awake(pc) = x <=> pc = x
BY DEF Awake

\* Where a thread that reads on stands.
LEMMA ReadsOn ==
    ASSUME TypeOK, FileInv, NEW t \in Threads, ~RangeExhausted(t)
    PROVE  pos[t] \in Nat /\ pos[t] < Size /\ pos[t] <= Size /\ AfterNewline(pos[t]) \in Nat
<1>1. PICK p \in Nat : p = pos[t]
  BY DEF TypeOK
<1>2. p < Size /\ p <= Size
  BY <1>1, FileBytes DEF RangeExhausted
<1>3. AfterNewline(p) \in Nat
  BY <1>2, AfterNewlineIsNext
<1> QED BY <1>1, <1>2, <1>3

\* Every step of a reader thread keeps the types.
LEMMA ThreadTypes ==
    ASSUME TypeOK, FileInv, NEW t \in Threads, ReaderThread(t)
    PROVE  TypeOK'
<1> USE DEF fileVars, threadVars, ringVars, parserVars
<1>1. CASE OpenAndSeek(t)
  <2>1. BoundaryPosition(t) \in Nat
    BY BoundaryIsFirstLine
  <2> QED BY <1>1, <2>1 DEF OpenAndSeek, TypeOK
<1>2. CASE ReadLine(t)
  <2>1. PICK a \in Nat : a = AfterNewline(pos[t])
    BY <1>2, ReadsOn DEF ReadLine
  <2>2. PICK p \in Nat : p = pos[t]
    BY DEF TypeOK
  <2>3. pos' \in [Threads -> Nat]
    BY <1>2, <2>1 DEF ReadLine, TypeOK
  <2>4. CASE pos[t] \in wellFormed
    <3>1. parsed' = [parsed EXCEPT ![t] = p] /\ tpc' = [tpc EXCEPT ![t] = "push"]
      BY <1>2, <2>2, <2>4 DEF ReadLine
    <3>2. parsed' \in [Threads -> Int] /\ tpc' \in [Threads -> {"start", "read", "push", "ended"}]
      BY <3>1 DEF TypeOK
    <3>3. linesRead' = linesRead /\ malformed' = malformed
      BY <1>2, <2>4 DEF ReadLine
    <3> QED BY <1>2, <2>3, <3>2, <3>3 DEF ReadLine, TypeOK
  <2>5. CASE pos[t] \notin wellFormed
    <3>1. /\ malformed' = [malformed EXCEPT ![t] = @ + 1]
          /\ linesRead' = [linesRead EXCEPT ![t] = @ + 1]
      BY <1>2, <2>5 DEF ReadLine
    <3>2. linesRead' \in [Threads -> Nat] /\ malformed' \in [Threads -> Nat]
      BY <3>1 DEF TypeOK
    <3>3. parsed' = parsed /\ tpc' = tpc
      BY <1>2, <2>5 DEF ReadLine
    <3> QED BY <1>2, <2>3, <3>2, <3>3 DEF ReadLine, TypeOK
  <2> QED BY <2>4, <2>5
<1>3. CASE ThreadEnds(t)
  BY <1>3 DEF ThreadEnds, TypeOK
<1>4. CASE PushPrivate(t)
  <2>1. tail' \in 0..(Capacity - 1)
    <3>1. tail \in 0..(Capacity - 1) /\ tail' = NextIndex(tail)
      BY <1>4 DEF PushPrivate, TypeOK
    <3> QED BY <3>1, NextIndexIs, ReaderAssumption
  <2>2. count' \in 0..Capacity
    BY <1>4, ReaderAssumption DEF PushPrivate, TypeOK
  <2>3. ppc' \in {"pop", "wait", "forward", "eof", "ended"}
    BY <1>4, AwakeIs DEF PushPrivate, TypeOK
  <2>4. parsed' \in [Threads -> Int] /\ tpc' \in [Threads -> {"start", "read", "push", "ended"}]
    BY <1>4 DEF PushPrivate, TypeOK, NoLine
  <2>5. linesRead' \in [Threads -> Nat] /\ entries' \in [0..(Capacity - 1) -> Int]
    BY <1>4 DEF PushPrivate, TypeOK
  <2> QED BY <1>4, <2>1, <2>2, <2>3, <2>4, <2>5 DEF PushPrivate, TypeOK
<1>5. CASE PushPrivateWaits(t)
  BY <1>5 DEF PushPrivateWaits, TypeOK
<1> QED BY <1>1, <1>2, <1>3, <1>4, <1>5 DEF ReaderThread

\* A signal wakes nobody who was not asleep.
LEMMA SignalledSome ==
    ASSUME NEW W, NEW woken \in Signalled(W)
    PROVE  (W = {} /\ woken = {}) \/ (\E t \in W : woken = {t})
BY DEF Signalled

\* Every step of the main thread and the parser keeps the types.
LEMMA ParserTypes ==
    ASSUME TypeOK, ParserInv, ProducersDone \/ ParserThread
    PROVE  TypeOK'
<1> USE DEF fileVars, threadVars, ringVars, parserVars
<1>1. CASE ProducersDone
  <2>1. ppc' \in {"pop", "wait", "forward", "eof", "ended"}
    BY <1>1, AwakeIs DEF ProducersDone, TypeOK
  <2> QED BY <1>1, <2>1 DEF ProducersDone, TypeOK
<1>2. CASE PopPrivate
  <2>1. head' \in 0..(Capacity - 1)
    BY <1>2, NextIndexIs, ReaderAssumption DEF PopPrivate, TypeOK
  <2>2. count' \in 0..Capacity
    BY <1>2, ReaderAssumption DEF PopPrivate, TypeOK
  <2>3. current' \in Int
    BY <1>2 DEF PopPrivate, TypeOK
  <2>4. notFull' \subseteq Threads
    BY <1>2 DEF PopPrivate, TypeOK
  <2> QED BY <1>2, <2>1, <2>2, <2>3, <2>4 DEF PopPrivate, TypeOK
<1>3. CASE PopPrivateWaits
  BY <1>3 DEF PopPrivateWaits, TypeOK
<1>4. CASE PopPrivateEnds
  BY <1>4 DEF PopPrivateEnds, TypeOK
<1>5. CASE Forward
  BY <1>5 DEF Forward, TypeOK, NoLine
<1>6. CASE ForwardEof
  <2>1. eofLevel' \in 0..NumLevels
    BY <1>6, ReaderAssumption DEF ForwardEof, TypeOK, ParserInv
  <2> QED BY <1>6, <2>1 DEF ForwardEof, TypeOK
<1> QED BY <1>1, <1>2, <1>3, <1>4, <1>5, <1>6 DEF ParserThread

-----------------------------------------------------------------------------
(* Effects of the reader threads' steps                                    *)

\* The threads other than t.
LEMMA OthersKept ==
    ASSUME ThreadsInv, TypeOK, file' = file, wellFormed' = wellFormed, NEW t \in Threads,
           ThreadInv(t)',
           \A u \in Threads : u # t =>
               /\ tpc'[u] = tpc[u] /\ pos'[u] = pos[u] /\ parsed'[u] = parsed[u]
               /\ linesRead'[u] = linesRead[u] /\ malformed'[u] = malformed[u]
    PROVE  ThreadsInv'
<1>1. \A u \in Threads : u # t => ThreadInv(u)'
  BY ThreadKept DEF ThreadsInv
<1>2. \A u \in Threads : ThreadInv(u)'
  BY <1>1
<1> QED BY <1>2 DEF ThreadsInv, Threads

\* What a thread has taken is finite.
LEMMA ConsumedIsFinite ==
    ASSUME FileInv, NEW t
    PROVE  /\ Consumed(t) \subseteq LineStarts(file)
           /\ IsFiniteSet(Consumed(t)) /\ IsFiniteSet(Consumed(t) \ wellFormed)
           /\ IsFiniteSet(Consumed(t) \ Held(t))
<1>1. Consumed(t) \subseteq LineStarts(file)
  BY DEF Consumed, LinesOf
<1>2. IsFiniteSet(Consumed(t))
  BY <1>1, LinesAreFinite, FS_Subset
<1> QED BY <1>1, <1>2, FS_Subset

\* A thread that has settled on its first line has taken nothing.
LEMMA SeekTakesNothing ==
    ASSUME TypeOK, FileInv, ThreadsInv, NEW t \in Threads, OpenAndSeek(t)
    PROVE  /\ Consumed(t) = {} /\ Consumed(t)' = {}
           /\ ThreadInv(t)'
<1>1. /\ tpc[t] = "start" /\ tpc'[t] = "read" /\ pos'[t] = BoundaryPosition(t)
      /\ linesRead'[t] = linesRead[t] /\ malformed'[t] = malformed[t]
      /\ file' = file /\ wellFormed' = wellFormed
  BY DEF OpenAndSeek, TypeOK, fileVars
<1>2. Consumed(t) = {}
  BY <1>1 DEF Consumed
<1>3. Consumed(t)' = {}
  BY <1>1, RangesKept, BoundaryIsFirstLine DEF Consumed
<1>4. Held(t)' = {} /\ Held(t) = {}
  BY <1>1 DEF Held
<1>5. linesRead[t] = Cardinality({}) /\ malformed[t] = Cardinality({})
  <2>1. ThreadInv(t)
    BY DEF ThreadsInv
  <2>2. Consumed(t) \ Held(t) = {} /\ Consumed(t) \ wellFormed = {}
    BY <1>2
  <2> QED BY <2>1, <2>2 DEF ThreadInv
<1>6. /\ (tpc[t] # "start" =>
           pos[t] >= Size \/ (pos[t] \in LineStarts(file) /\ pos[t] >= StartOffset(t)))'
      /\ (tpc[t] = "ended" => RangeExhausted(t))'
  BY <1>1, RangesKept, BoundaryIsFirstLine
<1>7. (Held(t) \subseteq Consumed(t) \cap wellFormed)'
  BY <1>4
<1>8. (Consumed(t) \ Held(t))' = {} /\ (Consumed(t) \ wellFormed)' = {}
  BY <1>3
<1> QED BY <1>1, <1>2, <1>3, <1>5, <1>6, <1>7, <1>8 DEF ThreadInv

\* ReadLine takes the line the thread stands at.
LEMMA ReadTakesLine ==
    ASSUME TypeOK, FileInv, ThreadsInv, NEW t \in Threads, ReadLine(t)
    PROVE  /\ pos[t] \in LinesOf(t) /\ pos[t] \notin Consumed(t)
           /\ Consumed(t)' = Consumed(t) \cup {pos[t]}
           /\ (tpc[t] # "start" =>
                 pos[t] >= Size \/ (pos[t] \in LineStarts(file) /\ pos[t] >= StartOffset(t)))'
<1>1. /\ tpc[t] = "read" /\ ~RangeExhausted(t) /\ tpc'[t] # "start"
      /\ pos'[t] = AfterNewline(pos[t]) /\ file' = file
  BY DEF ReadLine, TypeOK, fileVars
<1>2. pos[t] \in LinesOf(t)
  <2>1. pos[t] >= Size \/ (pos[t] \in LineStarts(file) /\ pos[t] >= StartOffset(t))
    BY <1>1 DEF ThreadsInv, ThreadInv
  <2>2. pos[t] \in Nat
    BY DEF TypeOK
  <2> QED BY <1>1, <2>1, <2>2, AtLineOfRange
<1>3. PICK p \in LinesOf(t) : p = pos[t]
  BY <1>2
<1>4. p \in Nat /\ p < Size /\ p <= Size /\ p >= StartOffset(t)
  BY <1>1, <1>3, ReadsOn, RangeOffsets DEF LinesOf
<1>5. pos[t] \notin Consumed(t)
  BY <1>3, <1>4 DEF Consumed
<1>6. Consumed(t) = {i \in LinesOf(t) : i < p}
  BY <1>1, <1>3 DEF Consumed
<1>7. Consumed(t)' = {i \in LinesOf(t) : i < AfterNewline(p)}
  BY <1>1, <1>3, RangesKept DEF Consumed
<1>8. {i \in LinesOf(t) : i < AfterNewline(p)} = {i \in LinesOf(t) : i < p} \cup {p}
  BY NextLineOfRange
<1>9. PICK a \in Nat : a = AfterNewline(p) /\ p <= a /\ (a >= Size \/ a \in LineStarts(file))
  BY <1>4, AfterNewlineIsNext
<1>10. a >= StartOffset(t)
  BY <1>4, <1>9, RangeOffsets
<1>11. pos'[t] = a
  BY <1>1, <1>3, <1>9
<1> QED BY <1>2, <1>3, <1>5, <1>6, <1>7, <1>8, <1>9, <1>10, <1>11, <1>1, RangesKept

\* A thread that read a well-formed line holds it.
LEMMA ReadWellFormed ==
    ASSUME TypeOK, FileInv, ThreadsInv, NEW t \in Threads, ReadLine(t), pos[t] \in wellFormed
    PROVE  ThreadInv(t)' /\ tpc'[t] = "push" /\ parsed'[t] = pos[t]
<1>1. /\ tpc[t] = "read" /\ tpc'[t] = "push" /\ parsed'[t] = pos[t]
      /\ linesRead'[t] = linesRead[t] /\ malformed'[t] = malformed[t]
      /\ file' = file /\ wellFormed' = wellFormed
  BY DEF ReadLine, TypeOK, fileVars
<1>2. PICK p : p = pos[t]
  OBVIOUS
<1>3. /\ p \notin Consumed(t) /\ Consumed(t)' = Consumed(t) \cup {p}
      /\ (tpc[t] # "start" =>
             pos[t] >= Size \/ (pos[t] \in LineStarts(file) /\ pos[t] >= StartOffset(t)))'
  BY <1>2, ReadTakesLine
<1>4. Held(t) = {} /\ Held(t)' = {p}
  BY <1>1, <1>2 DEF Held
<1>5. (Held(t) \subseteq Consumed(t) \cap wellFormed)'
  BY <1>1, <1>2, <1>3, <1>4
<1>6. (Consumed(t) \ Held(t))' = Consumed(t) \ Held(t)
  BY <1>3, <1>4
<1>7. (Consumed(t) \ wellFormed)' = Consumed(t) \ wellFormed
  BY <1>1, <1>2, <1>3
<1>8. linesRead[t] = Cardinality(Consumed(t) \ Held(t)) /\ malformed[t] = Cardinality(Consumed(t) \ wellFormed)
  BY DEF ThreadsInv, ThreadInv
<1>9. (linesRead[t] = Cardinality(Consumed(t) \ Held(t)))'
  BY <1>1, <1>6, <1>8
<1>10. (malformed[t] = Cardinality(Consumed(t) \ wellFormed))'
  BY <1>1, <1>7, <1>8
<1>11. (tpc[t] = "ended" => RangeExhausted(t))'
  BY <1>1
<1> QED BY <1>1, <1>3, <1>5, <1>9, <1>10, <1>11 DEF ThreadInv

\* A thread that read a malformed line has counted it.
LEMMA ReadMalformed ==
    ASSUME TypeOK, FileInv, ThreadsInv, NEW t \in Threads, ReadLine(t), pos[t] \notin wellFormed
    PROVE  ThreadInv(t)' /\ tpc' = tpc /\ parsed' = parsed
<1>1. /\ tpc[t] = "read" /\ tpc' = tpc /\ parsed' = parsed
      /\ linesRead'[t] = linesRead[t] + 1 /\ malformed'[t] = malformed[t] + 1
      /\ file' = file /\ wellFormed' = wellFormed
  BY DEF ReadLine, TypeOK, fileVars
<1>2. PICK p : p = pos[t]
  OBVIOUS
<1>3. /\ p \notin Consumed(t) /\ Consumed(t)' = Consumed(t) \cup {p}
      /\ (tpc[t] # "start" =>
             pos[t] >= Size \/ (pos[t] \in LineStarts(file) /\ pos[t] >= StartOffset(t)))'
  BY <1>2, ReadTakesLine
<1>4. Held(t) = {} /\ Held(t)' = {}
  BY <1>1 DEF Held
<1> DEFINE A == Consumed(t) \ Held(t)
           B == Consumed(t) \ wellFormed
<1>5. IsFiniteSet(A) /\ IsFiniteSet(B)
  BY ConsumedIsFinite
<1>6. (Consumed(t) \ Held(t))' = A \cup {p} /\ p \notin A
  BY <1>3, <1>4
<1>7. (Consumed(t) \ wellFormed)' = B \cup {p} /\ p \notin B
  BY <1>1, <1>2, <1>3
<1>8. linesRead[t] = Cardinality(A) /\ malformed[t] = Cardinality(B)
  BY DEF ThreadsInv, ThreadInv
<1> HIDE DEF A, B
<1>9. (linesRead[t] = Cardinality(Consumed(t) \ Held(t)))'
  <2>1. Cardinality(A \cup {p}) = Cardinality(A) + 1
    BY <1>5, <1>6, FS_AddElement
  <2> QED BY <1>1, <1>6, <1>8, <2>1
<1>10. (malformed[t] = Cardinality(Consumed(t) \ wellFormed))'
  <2>1. Cardinality(B \cup {p}) = Cardinality(B) + 1
    BY <1>5, <1>7, FS_AddElement
  <2> QED BY <1>1, <1>7, <1>8, <2>1
<1>11. (tpc[t] = "ended" => RangeExhausted(t))'
  BY <1>1
<1>12. (Held(t) \subseteq Consumed(t) \cap wellFormed)'
  BY <1>4
<1> QED BY <1>1, <1>3, <1>9, <1>10, <1>11, <1>12 DEF ThreadInv

\* A thread ends with its range exhausted.
LEMMA EndsExhausted ==
    ASSUME TypeOK, FileInv, ThreadsInv, NEW t \in Threads, ThreadEnds(t)
    PROVE  ThreadInv(t)'
<1>1. /\ tpc[t] = "read" /\ tpc'[t] = "ended" /\ RangeExhausted(t)
      /\ pos' = pos /\ parsed' = parsed /\ linesRead' = linesRead /\ malformed' = malformed
      /\ file' = file /\ wellFormed' = wellFormed
  BY DEF ThreadEnds, TypeOK, fileVars
<1>2. Consumed(t)' = Consumed(t)
  BY <1>1, ConsumedKept
<1>3. Held(t)' = {} /\ Held(t) = {}
  BY <1>1 DEF Held
<1>4. RangeExhausted(t)' = RangeExhausted(t)
  BY <1>1, RangesKept DEF RangeExhausted, IsLast
<1>5. ThreadInv(t)
  BY DEF ThreadsInv
<1> QED BY <1>1, <1>2, <1>3, <1>4, <1>5, RangesKept DEF ThreadInv

\* A thread that pushed its line has counted it.
LEMMA PushCounts ==
    ASSUME TypeOK, FileInv, ThreadsInv, NEW t \in Threads, PushPrivate(t)
    PROVE  ThreadInv(t)'
<1>1. /\ tpc[t] = "push" /\ tpc'[t] = "read" /\ pos' = pos
      /\ linesRead'[t] = linesRead[t] + 1 /\ malformed' = malformed
      /\ file' = file /\ wellFormed' = wellFormed
  BY DEF PushPrivate, TypeOK, fileVars
<1>2. Consumed(t)' = Consumed(t)
  BY <1>1, ConsumedKept
<1>3. PICK p : p = parsed[t]
  OBVIOUS
<1>4. Held(t)' = {} /\ Held(t) = {p}
  BY <1>1, <1>3 DEF Held
<1> DEFINE A == Consumed(t) \ Held(t)
<1>5. ThreadInv(t)
  BY DEF ThreadsInv
<1>6. p \in Consumed(t) /\ linesRead[t] = Cardinality(A)
  BY <1>4, <1>5 DEF ThreadInv
<1>7. (Consumed(t) \ Held(t))' = A \cup {p} /\ p \notin A /\ IsFiniteSet(A)
  BY <1>2, <1>4, <1>6, ConsumedIsFinite
<1> HIDE DEF A
<1>8. (linesRead[t] = Cardinality(Consumed(t) \ Held(t)))'
  <2>1. Cardinality(A \cup {p}) = Cardinality(A) + 1
    BY <1>7, FS_AddElement
  <2> QED BY <1>1, <1>6, <1>7, <2>1
<1>9. (Held(t) \subseteq Consumed(t) \cap wellFormed)'
  BY <1>4
<1>10. (malformed[t] = Cardinality(Consumed(t) \ wellFormed))'
  BY <1>1, <1>2, <1>5 DEF ThreadInv
<1>11. /\ (tpc[t] # "start" =>
             pos[t] >= Size \/ (pos[t] \in LineStarts(file) /\ pos[t] >= StartOffset(t)))'
       /\ (tpc[t] = "ended" => RangeExhausted(t))'
  BY <1>1, <1>5, RangesKept DEF ThreadInv
<1> QED BY <1>8, <1>9, <1>10, <1>11 DEF ThreadInv

\* Every step keeps what is said about the threads.
LEMMA ThreadsStep ==
    ASSUME TypeOK, FileInv, ThreadsInv, [Next]_vars
    PROVE  ThreadsInv'
<1>1. file' = file /\ wellFormed' = wellFormed
  BY InputsFixed
<1>2. ASSUME NEW t \in Threads, ReaderThread(t) PROVE ThreadsInv'
  <2>1. \A u \in Threads : u # t =>
            /\ tpc'[u] = tpc[u] /\ pos'[u] = pos[u] /\ parsed'[u] = parsed[u]
            /\ linesRead'[u] = linesRead[u] /\ malformed'[u] = malformed[u]
    <3>1. CASE OpenAndSeek(t)
      BY <3>1 DEF OpenAndSeek, TypeOK
    <3>2. CASE ReadLine(t)
      BY <3>2 DEF ReadLine, TypeOK
    <3>3. CASE ThreadEnds(t)
      BY <3>3 DEF ThreadEnds, TypeOK
    <3>4. CASE PushPrivate(t)
      BY <3>4 DEF PushPrivate, TypeOK
    <3>5. CASE PushPrivateWaits(t)
      BY <3>5 DEF PushPrivateWaits, threadVars
    <3> QED BY <1>2, <3>1, <3>2, <3>3, <3>4, <3>5 DEF ReaderThread
  <2>2. ThreadInv(t)'
    <3>1. CASE OpenAndSeek(t)
      BY <3>1, SeekTakesNothing
    <3>2. CASE ReadLine(t)
      BY <3>2, ReadWellFormed, ReadMalformed
    <3>3. CASE ThreadEnds(t)
      BY <3>3, EndsExhausted
    <3>4. CASE PushPrivate(t)
      BY <3>4, PushCounts
    <3>5. CASE PushPrivateWaits(t)
      <4>1. UNCHANGED threadVars /\ ThreadInv(t)
        BY <3>5 DEF PushPrivateWaits, ThreadsInv
      <4> QED BY <1>1, <4>1, ThreadKept DEF threadVars
    <3> QED BY <1>2, <3>1, <3>2, <3>3, <3>4, <3>5 DEF ReaderThread
  <2> QED BY <1>1, <2>1, <2>2, OthersKept
<1>3. ASSUME UNCHANGED threadVars PROVE ThreadsInv'
  <2>1. \A t \in Threads : ThreadInv(t)'
    BY <1>1, <1>3, ThreadKept DEF threadVars, ThreadsInv
  <2> QED BY <2>1 DEF ThreadsInv, Threads
<1>4. CASE ProducersDone \/ ParserThread \/ Exited \/ UNCHANGED vars
  BY <1>3, <1>4 DEF ProducersDone, ParserThread, PopPrivate, PopPrivateWaits, PopPrivateEnds,
                    Forward, ForwardEof, Exited, vars
<1> QED BY <1>2, <1>4 DEF Next

-----------------------------------------------------------------------------
(* Where the lines are: steps of the reader threads                        *)

\* A line belongs to the range of one thread.
LEMMA OneTaker ==
    ASSUME FileInv, NEW t \in Threads, NEW u \in Threads, NEW n \in LinesOf(t), n \in Consumed(u)
    PROVE  u = t
BY RangesDisjoint DEF Consumed

\* What one thread takes is what is fetched on top.
LEMMA FetchedGrows ==
    ASSUME file' = file, NEW t \in Threads, NEW X, Consumed(t)' = Consumed(t) \cup X,
           \A u \in Threads : u # t => pos'[u] = pos[u] /\ tpc'[u] = tpc[u], NEW n
    PROVE  Fetched(n)' <=> (Fetched(n) \/ n \in X)
<1>1. \A u \in Threads : u # t => Consumed(u)' = Consumed(u)
  BY ConsumedKept
<1>2. Fetched(n)' <=> \E u \in Threads : n \in Consumed(u)'
  BY DEF Fetched, Threads
<1>3. Fetched(n) <=> \E u \in Threads : n \in Consumed(u)
  BY DEF Fetched
<1>4. (\E u \in Threads : n \in Consumed(u)') <=> ((\E u \in Threads : n \in Consumed(u)) \/ n \in X)
  BY <1>1, Zenon
<1> QED BY <1>2, <1>3, <1>4

\* OpenAndSeek moves no line.
LEMMA SeekPlaces ==
    ASSUME TypeOK, FileInv, ThreadsInv, PlacesInv, NEW t \in Threads, OpenAndSeek(t)
    PROVE  PlacesInv'
<1>1. /\ file' = file /\ wellFormed' = wellFormed /\ parsed' = parsed /\ UNCHANGED ringVars
      /\ ppc' = ppc /\ current' = current /\ output' = output
  BY DEF OpenAndSeek, fileVars, parserVars
<1>2. /\ \A u \in Threads : u # t => pos'[u] = pos[u] /\ tpc'[u] = tpc[u]
      /\ \A u \in Threads : tpc'[u] = "push" <=> tpc[u] = "push"
  BY DEF OpenAndSeek, TypeOK
<1>3. PICK X : X = {}
  OBVIOUS
<1>4. \A n \in wellFormed : Fetched(n)' <=> Fetched(n)
  <2>1. Consumed(t)' = Consumed(t) \cup X
    BY <1>3, SeekTakesNothing
  <2>2. \A n : Fetched(n)' <=> (Fetched(n) \/ n \in X)
    BY <1>1, <1>2, <2>1, FetchedGrows
  <2> QED BY <1>3, <2>2
<1>5. \A n \in wellFormed : InHand(n)' <=> InHand(n)
  BY <1>1, <1>2, InHandKept
<1>6. \A n \in wellFormed : IsSent(n)' <=> IsSent(n)
  BY <1>1, IsSentKept
<1> QED BY <1>1, <1>4, <1>5, <1>6, PlacesKept

\* A malformed line goes nowhere.
LEMMA ReadMalformedPlaces ==
    ASSUME TypeOK, FileInv, ThreadsInv, PlacesInv, NEW t \in Threads, ReadLine(t),
           pos[t] \notin wellFormed
    PROVE  PlacesInv'
<1>1. /\ file' = file /\ wellFormed' = wellFormed /\ UNCHANGED ringVars
      /\ ppc' = ppc /\ current' = current /\ output' = output
  BY DEF ReadLine, fileVars, parserVars
<1>2. tpc' = tpc /\ parsed' = parsed
  BY ReadMalformed
<1>3. \A u \in Threads : u # t => pos'[u] = pos[u] /\ tpc'[u] = tpc[u]
  BY <1>2 DEF ReadLine, TypeOK
<1>4. PICK X : X = {pos[t]}
  OBVIOUS
<1>5. Consumed(t)' = Consumed(t) \cup X
  BY <1>4, ReadTakesLine
<1>6. \A n \in wellFormed : Fetched(n)' <=> Fetched(n)
  <2>1. \A n : Fetched(n)' <=> (Fetched(n) \/ n \in X)
    BY <1>1, <1>3, <1>5, FetchedGrows
  <2> QED BY <1>4, <2>1
<1>7. \A n \in wellFormed : InHand(n)' <=> InHand(n)
  BY <1>2, InHandKept
<1>8. \A n \in wellFormed : IsSent(n)' <=> IsSent(n)
  BY <1>1, IsSentKept
<1> QED BY <1>1, <1>6, <1>7, <1>8, PlacesKept

\* A well-formed line moves from the file into the thread's hand.
LEMMA ReadWellFormedPlaces ==
    ASSUME TypeOK, FileInv, ThreadsInv, PlacesInv, NEW t \in Threads, ReadLine(t),
           pos[t] \in wellFormed
    PROVE  PlacesInv'
<1>1. /\ file' = file /\ wellFormed' = wellFormed /\ UNCHANGED ringVars
      /\ ppc' = ppc /\ current' = current /\ output' = output /\ entries' = entries
  BY DEF ReadLine, fileVars, parserVars, ringVars
<1>2. tpc[t] = "read" /\ tpc'[t] = "push" /\ parsed'[t] = pos[t]
  BY ReadWellFormed DEF ReadLine
<1>3. \A u \in Threads : u # t => pos'[u] = pos[u] /\ tpc'[u] = tpc[u] /\ parsed'[u] = parsed[u]
  BY DEF ReadLine, TypeOK
<1>4. PICK x : x = pos[t]
  OBVIOUS
<1>5. Consumed(t)' = Consumed(t) \cup {x} /\ x \notin Consumed(t) /\ x \in LinesOf(t)
  BY <1>4, ReadTakesLine
<1>6. \A n : Fetched(n)' <=> (Fetched(n) \/ n = x)
  <2>1. \A n : Fetched(n)' <=> (Fetched(n) \/ n \in {x})
    BY <1>1, <1>3, <1>5, FetchedGrows
  <2> QED BY <2>1
<1>7. ~Fetched(x)
  BY <1>5, OneTaker DEF Fetched
<1>8. \A n : InHand(n)' <=> (InHand(n) \/ n = x)
  <2>1. \A n : InHand(n)' <=> \E u \in Threads : tpc'[u] = "push" /\ parsed'[u] = n
    BY DEF InHand, Threads
  <2> QED BY <1>2, <1>3, <1>4, <2>1 DEF InHand
<1>9. /\ Occupied' = Occupied /\ \A n : InRing(n)' <=> InRing(n)
      /\ \A n : AtParser(n)' <=> AtParser(n)
      /\ \A n : IsSent(n)' <=> IsSent(n)
  BY <1>1, InRingKept, AtParserKept, IsSentKept
<1>10. \A n \in wellFormed : OnePlace(n)'
  <2> SUFFICES ASSUME NEW n \in wellFormed PROVE OnePlace(n)'
    OBVIOUS
  <2>1. OnePlace(n) /\ (n = x => ~Fetched(n))
    BY <1>7 DEF PlacesInv
  <2> QED BY <1>6, <1>8, <1>9, <2>1 DEF OnePlace
<1> QED BY <1>1, <1>9, <1>10 DEF PlacesInv

\* A pushed line moves from the thread's hand into the cell at tail.
LEMMA PushPlaces ==
    ASSUME TypeOK, FileInv, ThreadsInv, RingInv, PlacesInv, NEW t \in Threads, PushPrivate(t)
    PROVE  PlacesInv' /\ RingInv'
<1>1. /\ file' = file /\ wellFormed' = wellFormed /\ pos' = pos /\ head' = head
      /\ current' = current /\ output' = output
      /\ entries' = [entries EXCEPT ![tail] = parsed[t]]
      /\ tail' = NextIndex(tail) /\ count' = count + 1 /\ count < Capacity
      /\ ppc' = Awake(ppc)
  BY DEF PushPrivate, fileVars
<1>2. tpc[t] = "push" /\ tpc'[t] = "read"
  BY DEF PushPrivate, TypeOK
<1>3. \A u \in Threads : u # t => tpc'[u] = tpc[u] /\ parsed'[u] = parsed[u]
  BY DEF PushPrivate, TypeOK
<1>4. PICK x : x = parsed[t]
  OBVIOUS
<1>5. \A u \in Threads : tpc[u] = "push" => parsed[u] \in Consumed(u) /\ parsed[u] \in wellFormed
  BY DEF ThreadsInv, ThreadInv, Held
<1>6. x \in wellFormed /\ x \in Consumed(t) /\ x \in LinesOf(t)
  BY <1>2, <1>4, <1>5 DEF Consumed
<1>7. InHand(x)
  BY <1>2, <1>4 DEF InHand
<1>8. \A u \in Threads : u # t /\ tpc[u] = "push" => parsed[u] # x
  BY <1>5, <1>6, OneTaker
<1>9. \A n : InHand(n)' <=> (InHand(n) /\ n # x)
  <2>1. \A n : InHand(n)' <=> \E u \in Threads : tpc'[u] = "push" /\ parsed'[u] = n
    BY DEF InHand, Threads
  <2> QED BY <1>2, <1>3, <1>4, <1>8, <2>1 DEF InHand
<1>10. \A n : Fetched(n)' <=> Fetched(n)
  <2>1. \A u \in Threads : tpc'[u] = "start" <=> tpc[u] = "start"
    BY <1>2, <1>3
  <2> QED BY <1>1, <2>1, FetchedKept
<1>11. PICK h \in 0..(Capacity - 1) : h = head
  BY DEF TypeOK
<1>12. PICK c \in Nat : c = count /\ c < Capacity
  BY <1>1, ReaderAssumption DEF TypeOK
<1>13. /\ tail = CellBehind(h, c) /\ Occupied = Cells(h, c) /\ Occupied' = Cells(h, c + 1)
  BY <1>1, <1>11, <1>12 DEF RingInv, Occupied, Cells
<1>14. /\ tail \in 0..(Capacity - 1) /\ tail \notin Occupied /\ Occupied' = Occupied \cup {tail}
       /\ tail' = CellBehind(h, c + 1)
  BY <1>1, <1>12, <1>13, PushFillsCell
<1>15. RingInv'
  BY <1>1, <1>11, <1>12, <1>14 DEF RingInv, CellBehind
<1>16. Occupied \subseteq 0..(Capacity - 1)
  BY DEF Occupied, Cells
<1>17. entries'[tail] = x /\ \A i \in Occupied : entries'[i] = entries[i]
  BY <1>1, <1>4, <1>14, <1>16 DEF TypeOK
<1>18. \A n : InRing(n)' <=> (InRing(n) \/ n = x)
  <2>1. \A n : InRing(n)' <=> \E i \in Occupied' : entries'[i] = n
    BY DEF InRing
  <2> QED BY <1>14, <1>17, <2>1 DEF InRing
<1>19. ~InRing(x)
  BY <1>6, <1>7 DEF PlacesInv, OnePlace
<1>20. (\A i, j \in Occupied : entries[i] = entries[j] => i = j)'
  <2>1. \A i \in Occupied : entries'[i] # x
    BY <1>17, <1>19 DEF InRing
  <2>2. \A i, j \in Occupied : entries'[i] = entries'[j] => i = j
    BY <1>17 DEF PlacesInv
  <2> QED BY <1>14, <1>17, <2>1, <2>2
<1>21. (\A i \in Occupied : entries[i] \in wellFormed)'
  BY <1>1, <1>6, <1>14, <1>17 DEF PlacesInv
<1>22. ppc' = "forward" <=> ppc = "forward"
  BY <1>1, AwakeIs DEF TypeOK
<1>23. /\ \A n : AtParser(n)' <=> AtParser(n)
       /\ \A n : IsSent(n)' <=> IsSent(n)
  BY <1>1, <1>22, IsSentKept DEF AtParser
<1>24. \A n \in wellFormed : OnePlace(n)'
  <2> SUFFICES ASSUME NEW n \in wellFormed PROVE OnePlace(n)'
    OBVIOUS
  <2>1. OnePlace(n) /\ (n = x => InHand(n))
    BY <1>7 DEF PlacesInv
  <2> QED BY <1>9, <1>10, <1>18, <1>23, <2>1 DEF OnePlace
<1>25. (ppc = "forward" => current \in wellFormed)'
  BY <1>1, <1>22 DEF PlacesInv
<1>26. (\A n \in wellFormed : OnePlace(n))'
  BY <1>1, <1>24
<1> QED BY <1>15, <1>20, <1>21, <1>25, <1>26 DEF PlacesInv

-----------------------------------------------------------------------------
(* Where the lines are: steps of the parser                                *)

\* A popped line moves from the cell at head to the parser.
LEMMA PopPlaces ==
    ASSUME TypeOK, RingInv, PlacesInv, PopPrivate
    PROVE  PlacesInv' /\ RingInv'
<1>1. /\ file' = file /\ wellFormed' = wellFormed /\ UNCHANGED threadVars
      /\ entries' = entries /\ tail' = tail /\ output' = output
      /\ current' = entries[head] /\ head' = NextIndex(head)
      /\ count' = count - 1 /\ count > 0
      /\ ppc = "pop" /\ ppc' = "forward"
  BY DEF PopPrivate, fileVars
<1>2. PICK h \in 0..(Capacity - 1) : h = head
  BY DEF TypeOK
<1>3. PICK c \in Nat : c = count /\ 0 < c /\ c <= Capacity
  BY <1>1, ReaderAssumption DEF TypeOK
<1>4. PICK m : m = NextIndex(h)
  OBVIOUS
<1>5. tail = CellBehind(h, c) /\ Occupied = Cells(h, c) /\ Occupied' = Cells(m, c - 1)
  BY <1>1, <1>2, <1>3, <1>4 DEF RingInv, Occupied, Cells
<1>6. h \in Occupied /\ Occupied' = Occupied \ {h} /\ CellBehind(m, c - 1) = tail
  BY <1>3, <1>4, <1>5, PopEmptiesCell
<1>7. RingInv'
  BY <1>1, <1>2, <1>3, <1>4, <1>6 DEF RingInv, CellBehind
<1>8. PICK x : x = entries[h]
  OBVIOUS
<1>9. x \in wellFormed /\ InRing(x) /\ \A i \in Occupied : entries[i] = x => i = h
  BY <1>6, <1>8 DEF PlacesInv, InRing
<1>10. \A n : InRing(n)' <=> (InRing(n) /\ n # x)
  <2>1. \A n : InRing(n)' <=> \E i \in Occupied' : entries[i] = n
    BY <1>1 DEF InRing
  <2> QED BY <1>6, <1>8, <1>9, <2>1 DEF InRing
<1>11. \A n : (AtParser(n)' <=> n = x) /\ ~AtParser(n)
  BY <1>1, <1>2, <1>8 DEF AtParser
<1>12. /\ \A n : Fetched(n)' <=> Fetched(n)
       /\ \A n : InHand(n)' <=> InHand(n)
       /\ \A n : IsSent(n)' <=> IsSent(n)
  BY <1>1, FetchedKept, InHandKept, IsSentKept DEF threadVars
<1>13. \A n \in wellFormed : OnePlace(n)'
  <2> SUFFICES ASSUME NEW n \in wellFormed PROVE OnePlace(n)'
    OBVIOUS
  <2>1. OnePlace(n) /\ (n = x => InRing(n))
    BY <1>9 DEF PlacesInv
  <2> QED BY <1>10, <1>11, <1>12, <2>1 DEF OnePlace
<1>14. (\A n \in wellFormed : OnePlace(n))'
  BY <1>1, <1>13
<1>15. (ppc = "forward" => current \in wellFormed)'
  BY <1>1, <1>2, <1>8, <1>9
<1>16. /\ (\A i, j \in Occupied : entries[i] = entries[j] => i = j)'
       /\ (\A i \in Occupied : entries[i] \in wellFormed)'
  BY <1>1, <1>6 DEF PlacesInv
<1> QED BY <1>7, <1>14, <1>15, <1>16 DEF PlacesInv

\* What is appended to Region A is there, besides what was there.
LEMMA AppendSends ==
    ASSUME output \in Seq(Items), NEW y \in Items, output' = Append(output, y), NEW n
    PROVE  /\ output' \in Seq(Items) /\ Len(output') = Len(output) + 1 /\ Len(output) \in Nat
           /\ IsSent(n)' <=> (IsSent(n) \/ y = [is_eof |-> FALSE, value |-> n])
<1> HIDE DEF Items
<1>1. output' \in Seq(Items) /\ Len(output') = Len(output) + 1 /\ Len(output) \in Nat
  OBVIOUS
<1>2. output'[Len(output) + 1] = y /\ \A j \in 1..Len(output) : output'[j] = output[j]
  OBVIOUS
<1>3. 1..Len(output') = (1..Len(output)) \cup {Len(output) + 1}
  BY <1>1
<1>4. PICK item : item = [is_eof |-> FALSE, value |-> n]
  OBVIOUS
<1>5. /\ IsSent(n)' <=> \E j \in 1..Len(output') : output'[j] = item
      /\ IsSent(n) <=> \E j \in 1..Len(output) : output[j] = item
  BY <1>4 DEF IsSent
<1> QED BY <1>1, <1>2, <1>3, <1>4, <1>5

\* What the parser appends are items.
LEMMA ItemsAppended ==
    ASSUME NEW n \in Int, NEW b \in BOOLEAN
    PROVE  [is_eof |-> b, value |-> n] \in Items
BY DEF Items

\* Lines and EOF markers are different items.
LEMMA ItemsDiffer ==
    ASSUME NEW n, NEW m
    PROVE  /\ [is_eof |-> TRUE, value |-> n] # [is_eof |-> FALSE, value |-> m]
           /\ [is_eof |-> FALSE, value |-> n] = [is_eof |-> FALSE, value |-> m] => n = m
<1>1. /\ [is_eof |-> TRUE, value |-> n].is_eof = TRUE
      /\ [is_eof |-> FALSE, value |-> m].is_eof = FALSE
      /\ [is_eof |-> FALSE, value |-> n].value = n
      /\ [is_eof |-> FALSE, value |-> m].value = m
  OBVIOUS
<1> QED BY <1>1

\* A forwarded line moves from the parser to Region A.
LEMMA ForwardPlaces ==
    ASSUME TypeOK, PlacesInv, output \in Seq(Items), Forward
    PROVE  /\ PlacesInv' /\ output' \in Seq(Items)
           /\ current \in wellFormed /\ ~IsSent(current)
           /\ Len(output') = Len(output) + 1 /\ Len(output) \in Nat
           /\ \A n : IsSent(n)' <=> (IsSent(n) \/ n = current)
<1>1. /\ wellFormed' = wellFormed /\ file' = file /\ UNCHANGED threadVars /\ UNCHANGED ringVars
      /\ ppc = "forward" /\ ppc' = "pop" /\ entries' = entries
      /\ output' = Append(output, [is_eof |-> FALSE, value |-> current])
  BY DEF Forward, fileVars, ringVars
<1>2. PICK x \in Int : x = current
  BY DEF TypeOK
<1>3. PICK y \in Items : y = [is_eof |-> FALSE, value |-> x]
  BY ItemsAppended
<1>4. output' = Append(output, y)
  BY <1>1, <1>2, <1>3
<1>5. /\ output' \in Seq(Items) /\ Len(output') = Len(output) + 1 /\ Len(output) \in Nat
      /\ \A n : IsSent(n)' <=> (IsSent(n) \/ y = [is_eof |-> FALSE, value |-> n])
  BY <1>4, AppendSends
<1>6. \A n : IsSent(n)' <=> (IsSent(n) \/ n = x)
  BY <1>3, <1>5, ItemsDiffer
<1>7. x \in wellFormed /\ AtParser(x)
  BY <1>1, <1>2 DEF PlacesInv, AtParser
<1>8. ~IsSent(x)
  BY <1>7 DEF PlacesInv, OnePlace
<1>9. \A n : (AtParser(n) <=> n = x) /\ ~AtParser(n)'
  BY <1>1, <1>2 DEF AtParser
<1>10. /\ Occupied' = Occupied /\ \A n : InRing(n)' <=> InRing(n)
       /\ \A n : Fetched(n)' <=> Fetched(n)
       /\ \A n : InHand(n)' <=> InHand(n)
  BY <1>1, InRingKept, FetchedKept, InHandKept DEF threadVars
<1>11. \A n \in wellFormed : OnePlace(n)'
  <2> SUFFICES ASSUME NEW n \in wellFormed PROVE OnePlace(n)'
    OBVIOUS
  <2>1. OnePlace(n)
    BY DEF PlacesInv
  <2> QED BY <1>6, <1>9, <1>10, <2>1 DEF OnePlace
<1>12. PlacesInv'
  BY <1>1, <1>10, <1>11 DEF PlacesInv
<1> QED BY <1>2, <1>5, <1>6, <1>7, <1>8, <1>12

\* An EOF marker moves no line.
LEMMA ForwardEofPlaces ==
    ASSUME TypeOK, PlacesInv, output \in Seq(Items), ForwardEof
    PROVE  /\ PlacesInv' /\ output' \in Seq(Items)
           /\ Len(output') = Len(output) + 1 /\ Len(output) \in Nat
           /\ \A n : IsSent(n)' <=> IsSent(n)
<1>1. /\ wellFormed' = wellFormed /\ file' = file /\ UNCHANGED threadVars /\ UNCHANGED ringVars
      /\ ppc # "forward" /\ ppc' # "forward" /\ current' = current
      /\ output' = Append(output, [is_eof |-> TRUE, value |-> eofLevel])
  BY DEF ForwardEof, fileVars
<1>2. PICK x \in Int : x = eofLevel
  BY DEF TypeOK
<1>3. PICK y \in Items : y = [is_eof |-> TRUE, value |-> x]
  BY ItemsAppended
<1>4. output' = Append(output, y)
  BY <1>1, <1>2, <1>3
<1>5. /\ output' \in Seq(Items) /\ Len(output') = Len(output) + 1 /\ Len(output) \in Nat
      /\ \A n : IsSent(n)' <=> (IsSent(n) \/ y = [is_eof |-> FALSE, value |-> n])
  BY <1>4, AppendSends
<1>6. \A n : IsSent(n)' <=> IsSent(n)
  BY <1>3, <1>5, ItemsDiffer
<1>7. /\ \A n \in wellFormed : Fetched(n)' <=> Fetched(n)
      /\ \A n \in wellFormed : InHand(n)' <=> InHand(n)
  BY <1>1, FetchedKept, InHandKept DEF threadVars
<1>8. PlacesInv'
  BY <1>1, <1>6, <1>7, PlacesKept
<1> QED BY <1>5, <1>6, <1>8

\* Every other step leaves all lines where they are.
LEMMA OtherPlaces ==
    ASSUME TypeOK, FileInv, RingInv, PlacesInv,
           \/ \E t \in Threads : ThreadEnds(t) \/ PushPrivateWaits(t)
           \/ ProducersDone \/ PopPrivateWaits \/ PopPrivateEnds \/ Exited \/ UNCHANGED vars
    PROVE  PlacesInv' /\ RingInv'
<1>1. /\ wellFormed' = wellFormed /\ file' = file /\ pos' = pos /\ parsed' = parsed
      /\ UNCHANGED ringVars /\ current' = current /\ output' = output
  BY DEF ThreadEnds, PushPrivateWaits, ProducersDone, PopPrivateWaits, PopPrivateEnds, Exited,
         vars, fileVars, threadVars, parserVars
<1>2. ppc' = ppc \/ (ppc' # "forward" /\ ppc # "forward")
  BY AwakeIs DEF ThreadEnds, PushPrivateWaits, ProducersDone, PopPrivateWaits, PopPrivateEnds,
         Exited, vars, parserVars, TypeOK, Awake
<1>3. \A u \in Threads : /\ tpc'[u] = "start" <=> tpc[u] = "start"
                         /\ tpc'[u] = "push" <=> tpc[u] = "push"
  BY DEF ThreadEnds, PushPrivateWaits, ProducersDone, PopPrivateWaits, PopPrivateEnds, Exited,
         vars, threadVars, TypeOK
<1>4. /\ \A n \in wellFormed : Fetched(n)' <=> Fetched(n)
      /\ \A n \in wellFormed : InHand(n)' <=> InHand(n)
      /\ \A n \in wellFormed : IsSent(n)' <=> IsSent(n)
  BY <1>1, <1>3, FetchedKept, InHandKept, IsSentKept
<1>5. PlacesInv'
  BY <1>1, <1>2, <1>4, PlacesKept
<1>6. RingInv'
  BY <1>1, InRingKept
<1> QED BY <1>5, <1>6

\* Every step keeps each line in one place.
LEMMA PlacesStep ==
    ASSUME TypeOK, FileInv, ThreadsInv, RingInv, PlacesInv, output \in Seq(Items), [Next]_vars
    PROVE  PlacesInv' /\ RingInv'
<1>1. ASSUME NEW t \in Threads, ReaderThread(t) PROVE PlacesInv' /\ RingInv'
  <2>1. CASE OpenAndSeek(t)
    BY <2>1, SeekPlaces, InRingKept DEF OpenAndSeek
  <2>2. CASE ReadLine(t)
    BY <2>2, ReadWellFormedPlaces, ReadMalformedPlaces, InRingKept DEF ReadLine
  <2>3. CASE ThreadEnds(t) \/ PushPrivateWaits(t)
    BY <2>3, OtherPlaces
  <2>4. CASE PushPrivate(t)
    BY <2>4, PushPlaces
  <2> QED BY <1>1, <2>1, <2>2, <2>3, <2>4 DEF ReaderThread
<1>2. CASE PopPrivate
  BY <1>2, PopPlaces
<1>3. CASE Forward
  BY <1>3, ForwardPlaces, InRingKept DEF Forward
<1>4. CASE ForwardEof
  BY <1>4, ForwardEofPlaces, InRingKept DEF ForwardEof
<1>5. CASE ProducersDone \/ PopPrivateWaits \/ PopPrivateEnds \/ Exited \/ UNCHANGED vars
  BY <1>5, OtherPlaces
<1> QED BY <1>1, <1>2, <1>3, <1>4, <1>5 DEF Next, ParserThread

-----------------------------------------------------------------------------
(* The parser and the sleepers                                             *)

\* A step that sends nothing keeps what Region A holds.
LEMMA SentKept ==
    ASSUME output' = output, wellFormed' = wellFormed
    PROVE  SentLines' = SentLines
BY IsSentKept DEF SentLines

\* Once the producers are done, no thread moves.
LEMMA DoneThreadsStop ==
    ASSUME ParserInv, producersDone, NEW t \in Threads
    PROVE  ~ReaderThread(t)
BY DEF ParserInv, ReaderThread, OpenAndSeek, ReadLine, ThreadEnds, PushPrivate, PushPrivateWaits

\* A thread's step keeps what is said about the parser: it only happens before
\* the end, and at most wakes the parser.
LEMMA ThreadKeepsParser ==
    ASSUME TypeOK, ParserInv, NEW t \in Threads, ReaderThread(t)
    PROVE  ParserInv'
<1>1. ~producersDone
  BY DoneThreadsStop DEF TypeOK
<1>2. /\ producersDone' = producersDone /\ eofLevel' = eofLevel /\ output' = output
      /\ wellFormed' = wellFormed /\ (ppc' = ppc \/ ppc' = Awake(ppc))
  BY DEF ReaderThread, OpenAndSeek, ReadLine, ThreadEnds, PushPrivate, PushPrivateWaits,
         fileVars, parserVars
<1>3. ppc \notin {"eof", "ended"}
  BY <1>1 DEF ParserInv, Drained
<1>4. ppc' \notin {"eof", "ended"}
  BY <1>2, <1>3, AwakeIs DEF TypeOK
<1>5. SentLines' = SentLines
  BY <1>2, SentKept
<1> QED BY <1>1, <1>2, <1>3, <1>4, <1>5 DEF ParserInv

\* Steps of the main thread and of the parser that send nothing.
LEMMA ParserKeeps ==
    ASSUME TypeOK, ParserInv, ProducersDone \/ PopPrivate \/ PopPrivateWaits \/ PopPrivateEnds
    PROVE  ParserInv'
<1>1. /\ eofLevel' = eofLevel /\ output' = output /\ wellFormed' = wellFormed /\ tpc' = tpc
  BY DEF ProducersDone, PopPrivate, PopPrivateWaits, PopPrivateEnds, fileVars, threadVars
<1>2. SentLines' = SentLines
  BY <1>1, SentKept
<1>3. CASE ProducersDone
  <2>1. /\ producersDone' = TRUE /\ ~producersDone /\ \A t \in Threads : tpc[t] = "ended"
        /\ ppc' = Awake(ppc) /\ count' = count
    BY <1>3 DEF ProducersDone, ringVars
  <2>2. ppc \notin {"eof", "ended"} /\ ppc' \notin {"eof", "ended"}
    BY <2>1, AwakeIs DEF ParserInv, Drained, TypeOK
  <2>3. (producersDone => \A t \in Threads : tpc[t] = "ended")'
    BY <1>1, <2>1 DEF Threads
  <2> QED BY <1>1, <1>2, <2>2, <2>3 DEF ParserInv
<1>4. CASE PopPrivate
  <2>1. producersDone' = producersDone /\ ppc = "pop" /\ ppc' = "forward"
    BY <1>4 DEF PopPrivate
  <2> QED BY <1>1, <1>2, <2>1 DEF ParserInv, Threads
<1>5. CASE PopPrivateWaits
  <2>1. producersDone' = producersDone /\ ppc = "pop" /\ ppc' = "wait"
    BY <1>5 DEF PopPrivateWaits
  <2> QED BY <1>1, <1>2, <2>1 DEF ParserInv, Threads
<1>6. CASE PopPrivateEnds
  <2>1. producersDone' = producersDone /\ count' = count /\ ppc = "pop" /\ ppc' = "eof" /\ Drained
    BY <1>6 DEF PopPrivateEnds, ringVars
  <2>2. ~(eofLevel > 0)
    BY <2>1 DEF ParserInv
  <2>3. eofLevel < NumLevels
    BY <2>2, ReaderAssumption DEF TypeOK
  <2>4. Drained'
    BY <2>1 DEF Drained
  <2> QED BY <1>1, <1>2, <2>1, <2>3, <2>4 DEF ParserInv, Threads
<1> QED BY <1>3, <1>4, <1>5, <1>6

\* A forwarded line is one more line in Region A.
LEMMA ForwardKeepsParser ==
    ASSUME TypeOK, FileInv, PlacesInv, ParserInv, Forward
    PROVE  ParserInv'
<1>1. /\ ppc = "forward" /\ ppc' = "pop" /\ eofLevel' = eofLevel /\ tpc' = tpc
      /\ producersDone' = producersDone /\ wellFormed' = wellFormed
  BY DEF Forward, threadVars, fileVars
<1>2. output \in Seq(Items) /\ Len(output) = Cardinality(SentLines) + eofLevel
  BY DEF ParserInv
<1>3. PICK x : x = current
  OBVIOUS
<1>4. /\ output' \in Seq(Items) /\ x \in wellFormed /\ ~IsSent(x)
      /\ Len(output') = Len(output) + 1
      /\ \A n : IsSent(n)' <=> (IsSent(n) \/ n = x)
  BY <1>2, <1>3, ForwardPlaces
<1>5. SentLines' = SentLines \cup {x} /\ x \notin SentLines /\ SentLines \subseteq wellFormed
  BY <1>1, <1>4 DEF SentLines
<1>6. Cardinality(SentLines \cup {x}) = Cardinality(SentLines) + 1 /\ Cardinality(SentLines) \in Nat
  BY <1>5, LinesAreFinite, FS_Subset, FS_AddElement, FS_CardinalityType
<1>7. (Len(output) = Cardinality(SentLines) + eofLevel)'
  BY <1>1, <1>2, <1>4, <1>5, <1>6 DEF TypeOK
<1> QED BY <1>1, <1>4, <1>7 DEF ParserInv, Threads

\* An EOF marker is one more marker in Region A.
LEMMA ForwardEofKeepsParser ==
    ASSUME TypeOK, FileInv, PlacesInv, ParserInv, ForwardEof
    PROVE  ParserInv'
<1>1. /\ ppc = "eof" /\ ppc' = (IF eofLevel + 1 < NumLevels THEN "eof" ELSE "ended")
      /\ eofLevel' = eofLevel + 1 /\ tpc' = tpc /\ count' = count
      /\ producersDone' = producersDone /\ wellFormed' = wellFormed
  BY DEF ForwardEof, threadVars, fileVars, ringVars
<1>2. output \in Seq(Items) /\ Len(output) = Cardinality(SentLines) + eofLevel
  BY DEF ParserInv
<1>3. /\ output' \in Seq(Items) /\ Len(output') = Len(output) + 1
      /\ \A n : IsSent(n)' <=> IsSent(n)
  BY <1>2, ForwardEofPlaces
<1>4. SentLines' = SentLines /\ SentLines \subseteq wellFormed
  BY <1>1, <1>3 DEF SentLines
<1>5. Cardinality(SentLines) \in Nat
  BY <1>4, LinesAreFinite, FS_Subset, FS_CardinalityType
<1>6. (Len(output) = Cardinality(SentLines) + eofLevel)'
  BY <1>1, <1>2, <1>3, <1>4, <1>5 DEF TypeOK
<1>7. Drained'
  BY <1>1 DEF Drained, ParserInv
<1>8. ppc' \in {"eof", "ended"} /\ (ppc' = "eof" => eofLevel' < NumLevels)
  BY <1>1
<1> QED BY <1>1, <1>3, <1>6, <1>7, <1>8 DEF ParserInv, Threads

\* Every step keeps what is said about the parser.
LEMMA ParserStep ==
    ASSUME TypeOK, FileInv, PlacesInv, ParserInv, [Next]_vars
    PROVE  ParserInv'
<1>1. CASE UNCHANGED vars
  <2>1. /\ ppc' = ppc /\ eofLevel' = eofLevel /\ output' = output /\ wellFormed' = wellFormed
        /\ tpc' = tpc /\ producersDone' = producersDone /\ count' = count
    BY <1>1 DEF vars, fileVars, threadVars, ringVars, parserVars
  <2>2. SentLines' = SentLines
    BY <2>1, SentKept
  <2> QED BY <2>1, <2>2 DEF ParserInv, Drained, Threads
<1>2. CASE \E t \in Threads : ReaderThread(t)
  BY <1>2, ThreadKeepsParser
<1>3. CASE ProducersDone \/ PopPrivate \/ PopPrivateWaits \/ PopPrivateEnds
  BY <1>3, ParserKeeps
<1>4. CASE Forward
  BY <1>4, ForwardKeepsParser
<1>5. CASE ForwardEof
  BY <1>5, ForwardEofKeepsParser
<1> QED BY <1>1, <1>2, <1>3, <1>4, <1>5 DEF Next, ParserThread, Exited

\* A thread's step loses no wake-up: it sleeps only when the buffer is full, and
\* its push wakes the parser.
LEMMA ThreadWakes ==
    ASSUME TypeOK, ParserInv, WaitInv, NoWakeupLost, NEW t \in Threads, ReaderThread(t)
    PROVE  WaitInv' /\ NoWakeupLost'
<1>1. \A u \in Threads : u # t => tpc'[u] = tpc[u]
  BY DEF ReaderThread, OpenAndSeek, ReadLine, ThreadEnds, PushPrivate, PushPrivateWaits,
         TypeOK, threadVars
<1>2. CASE OpenAndSeek(t) \/ ReadLine(t) \/ ThreadEnds(t)
  <2>1. /\ tpc[t] # "push" /\ notFull' = notFull /\ count' = count /\ ppc' = ppc
        /\ producersDone' = producersDone
    BY <1>2 DEF OpenAndSeek, ReadLine, ThreadEnds, ringVars, parserVars
  <2>2. t \notin notFull /\ notFull \subseteq Threads
    BY <2>1 DEF WaitInv, TypeOK
  <2>3. WaitInv'
    BY <1>1, <2>1, <2>2 DEF WaitInv
  <2>4. (ppc = "wait" => count = 0 /\ ~producersDone)'
    BY <2>1 DEF NoWakeupLost
  <2>5. ASSUME notFull # {}, ~(count > 0) PROVE \E u \in Threads \ notFull : tpc'[u] = "push"
    BY <1>1, <2>1, <2>5 DEF NoWakeupLost
  <2>6. (notFull # {} => count > 0 \/ \E u \in Threads \ notFull : tpc[u] = "push")'
    BY <2>1, <2>5 DEF Threads
  <2> QED BY <2>3, <2>4, <2>6 DEF NoWakeupLost
<1>3. CASE PushPrivate(t)
  <2>1. t \notin notFull /\ notFull' = notFull /\ count' = count + 1 /\ ppc' = Awake(ppc)
    BY <1>3 DEF PushPrivate
  <2>2. WaitInv'
    BY <1>1, <2>1 DEF WaitInv, TypeOK
  <2>3. ppc' # "wait"
    BY <2>1, AwakeIs DEF TypeOK
  <2>4. count' > 0
    BY <2>1, ReaderAssumption DEF TypeOK
  <2> QED BY <2>2, <2>3, <2>4 DEF NoWakeupLost
<1>4. CASE PushPrivateWaits(t)
  <2>1. /\ tpc[t] = "push" /\ tpc' = tpc /\ notFull' = notFull \cup {t} /\ count = Capacity
        /\ count' = count /\ ppc' = ppc /\ producersDone' = producersDone
    BY <1>4 DEF PushPrivateWaits, threadVars, ringVars, parserVars
  <2>2. WaitInv'
    BY <2>1 DEF WaitInv
  <2>3. count' > 0
    BY <2>1, ReaderAssumption
  <2> QED BY <2>1, <2>2, <2>3 DEF NoWakeupLost
<1> QED BY <1>2, <1>3, <1>4 DEF ReaderThread

\* A step of the main thread or of the parser loses no wake-up: who takes the
\* last entry wakes a sleeper that will push.
LEMMA ParserWakes ==
    ASSUME TypeOK, ParserInv, WaitInv, NoWakeupLost, ProducersDone \/ ParserThread
    PROVE  WaitInv' /\ NoWakeupLost'
<1>1. tpc' = tpc
  BY DEF ProducersDone, ParserThread, PopPrivate, PopPrivateWaits, PopPrivateEnds, Forward,
         ForwardEof, threadVars
<1>2. CASE PopPrivate
  <2>1. PICK woken \in Signalled(notFull) : notFull' = notFull \ woken
    BY <1>2 DEF PopPrivate
  <2>2. WaitInv'
    BY <1>1, <2>1 DEF WaitInv
  <2>3. ppc' # "wait"
    BY <1>2 DEF PopPrivate
  <2>4. notFull' # {} => \E u \in Threads \ notFull' : tpc'[u] = "push"
    <3>1. CASE notFull = {} /\ woken = {}
      BY <2>1, <3>1
    <3>2. CASE \E t \in notFull : woken = {t}
      <4>1. PICK t \in notFull : woken = {t}
        BY <3>2
      <4>2. t \in Threads \ notFull' /\ tpc'[t] = "push"
        BY <1>1, <2>1, <4>1 DEF WaitInv, TypeOK
      <4> QED BY <4>2
    <3> QED BY <3>1, <3>2, SignalledSome
  <2>5. (notFull # {} => count > 0 \/ \E u \in Threads \ notFull : tpc[u] = "push")'
    BY <2>4 DEF Threads
  <2> QED BY <2>2, <2>3, <2>5 DEF NoWakeupLost
<1>3. CASE ProducersDone \/ PopPrivateWaits \/ PopPrivateEnds \/ Forward \/ ForwardEof
  <2>1. notFull' = notFull /\ count' = count
    BY <1>3 DEF ProducersDone, PopPrivateWaits, PopPrivateEnds, Forward, ForwardEof, ringVars
  <2>2. WaitInv'
    BY <1>1, <2>1 DEF WaitInv
  <2>3. (ppc = "wait" => count = 0 /\ ~producersDone)'
    <3>1. CASE ProducersDone
      BY <3>1, AwakeIs DEF ProducersDone, TypeOK
    <3>2. CASE PopPrivateWaits
      BY <3>2 DEF PopPrivateWaits, ringVars
    <3>3. CASE PopPrivateEnds \/ Forward \/ ForwardEof
      BY <3>3 DEF PopPrivateEnds, Forward, ForwardEof
    <3> QED BY <1>3, <3>1, <3>2, <3>3
  <2>4. (notFull # {} => count > 0 \/ \E u \in Threads \ notFull : tpc[u] = "push")'
    BY <1>1, <2>1 DEF NoWakeupLost, Threads
  <2> QED BY <2>2, <2>3, <2>4 DEF NoWakeupLost
<1> QED BY <1>2, <1>3 DEF ParserThread

-----------------------------------------------------------------------------
(* The theorems                                                            *)

\* The initial states satisfy the invariant.
LEMMA ReaderInit ==
    ASSUME Init
    PROVE  ReaderInv
<1>1. TypeOK
  BY ReaderAssumption DEF Init, TypeOK, NoLine
<1>2. FileInv
  BY DEF Init, FileInv, MayParse
<1>3. \A t \in Threads : Consumed(t) = {} /\ Held(t) = {} /\ linesRead[t] = 0 /\ malformed[t] = 0
  BY DEF Init, Consumed, Held
<1>4. ThreadsInv
  <2>1. \A t \in Threads : /\ Consumed(t) \ Held(t) = {} /\ Consumed(t) \ wellFormed = {}
                           /\ tpc[t] = "start"
    BY <1>3 DEF Init
  <2> QED BY <1>3, <2>1, FS_EmptySet DEF ThreadsInv, ThreadInv
<1>5. 0 \in 0..(Capacity - 1) /\ head = 0 /\ count = 0 /\ tail = 0
  BY ReaderAssumption DEF Init
<1>6. Occupied = {} /\ RingInv
  BY <1>5, EmptyRing DEF Occupied, RingInv
<1>7. \A n : ~Fetched(n) /\ ~InHand(n) /\ ~InRing(n) /\ ~AtParser(n) /\ ~IsSent(n)
  <2>1. \A n : ~Fetched(n)
    BY <1>3 DEF Fetched
  <2>2. \A n : ~InHand(n)
    BY DEF InHand, Init
  <2>3. \A n : ~InRing(n)
    BY <1>6 DEF InRing
  <2>4. \A n : ~AtParser(n) /\ ~IsSent(n)
    BY DEF AtParser, IsSent, Init
  <2> QED BY <2>1, <2>2, <2>3, <2>4
<1>8. PlacesInv
  BY <1>6, <1>7 DEF PlacesInv, OnePlace, Init
<1>9. ParserInv
  <2>1. SentLines = {}
    BY <1>7 DEF SentLines
  <2>2. output = <<>> /\ eofLevel = 0 /\ ppc = "pop" /\ ~producersDone
    BY DEF Init
  <2>3. output \in Seq(Items) /\ Len(output) = 0
    BY <2>2
  <2> QED BY <2>1, <2>2, <2>3, FS_EmptySet DEF ParserInv
<1>10. WaitInv /\ NoWakeupLost
  BY DEF Init, WaitInv, NoWakeupLost
<1> QED BY <1>1, <1>2, <1>4, <1>6, <1>8, <1>9, <1>10 DEF ReaderInv

\* Every step keeps the invariant.
LEMMA ReaderStep ==
    ASSUME ReaderInv, [Next]_vars
    PROVE  ReaderInv'
<1>1. /\ TypeOK /\ FileInv /\ ThreadsInv /\ RingInv /\ PlacesInv /\ ParserInv
      /\ WaitInv /\ NoWakeupLost /\ output \in Seq(Items)
  BY DEF ReaderInv, ParserInv
<1>2. FileInv' /\ ThreadsInv' /\ RingInv' /\ PlacesInv' /\ ParserInv'
  BY <1>1, InputsFixed, FileKept, ThreadsStep, PlacesStep, ParserStep
<1>3. TypeOK' /\ WaitInv' /\ NoWakeupLost'
  <2>1. CASE UNCHANGED vars
    <3>1. /\ tpc' = tpc /\ notFull' = notFull /\ count' = count /\ ppc' = ppc
          /\ producersDone' = producersDone
      BY <2>1 DEF vars, threadVars, ringVars, parserVars
    <3>2. TypeOK'
      BY <1>1, <2>1 DEF TypeOK, vars, threadVars, ringVars, parserVars
    <3>3. WaitInv' /\ NoWakeupLost'
      BY <1>1, <3>1 DEF WaitInv, NoWakeupLost, Threads
    <3> QED BY <3>2, <3>3
  <2>2. CASE \E t \in Threads : ReaderThread(t)
    BY <1>1, <2>2, ThreadTypes, ThreadWakes
  <2>3. CASE ProducersDone \/ ParserThread
    BY <1>1, <2>3, ParserTypes, ParserWakes
  <2> QED BY <2>1, <2>2, <2>3 DEF Next, Exited
<1> QED BY <1>2, <1>3 DEF ReaderInv

\* The inductive invariant of a reader process, for any number of threads and
\* levels, any capacity of the private buffer and any file.
THEOREM ReaderCorrect == Spec => []ReaderInv
<1>1. Init => ReaderInv
  BY ReaderInit
<1>2. ReaderInv /\ [Next]_vars => ReaderInv'
  BY ReaderStep
<1> QED BY <1>1, <1>2, PTL DEF Spec

\* Type correctness of the reader process; head and tail stay inside the ring.
THEOREM ReaderTypes == Spec => []TypeOK
<1>1. ReaderInv => TypeOK
  BY DEF ReaderInv
<1> QED BY <1>1, ReaderCorrect, PTL

\* No wake-up of the private buffer is lost: not_empty and not_full are signalled
\* once per push and pop, and that is enough (private_buffer_push, private_buffer_pop).
THEOREM NoWakeupIsLost == Spec => []NoWakeupLost
<1>1. ReaderInv => NoWakeupLost
  BY DEF ReaderInv
<1> QED BY <1>1, ReaderCorrect, PTL

\* In an end state the counters of the threads count the lines of their ranges,
\* and these add up to the lines of the file.
LEMMA RangesAddUp ==
    ASSUME ReaderInv, \A t \in Threads : tpc[t] = "ended"
    PROVE  /\ Total(linesRead, Threads) = Cardinality(LineStarts(file))
           /\ Total(malformed, Threads) = Cardinality(LineStarts(file) \ wellFormed)
<1>1. TypeOK /\ FileInv /\ ThreadsInv
  BY DEF ReaderInv
<1>2. IsFiniteSet(Threads)
  BY ReaderAssumption, FS_Interval DEF Threads
<1>3. PICK F : F = [t \in Threads |-> LinesOf(t)]
  OBVIOUS
<1>4. PICK G : G = [t \in Threads |-> LinesOf(t) \ wellFormed]
  OBVIOUS
<1>5. PICK f : f = linesRead
  OBVIOUS
<1>6. PICK g : g = malformed
  OBVIOUS
<1>7. \A t \in Threads : Consumed(t) = LinesOf(t) /\ Held(t) = {}
  <2> SUFFICES ASSUME NEW t \in Threads PROVE Consumed(t) = LinesOf(t) /\ Held(t) = {}
    OBVIOUS
  <2>1. tpc[t] = "ended" /\ RangeExhausted(t) /\ pos[t] \in Nat
    BY <1>1 DEF ThreadsInv, ThreadInv, TypeOK
  <2>2. \A i \in LinesOf(t) : i < pos[t]
    BY <1>1, <2>1, RangePassed
  <2> QED BY <2>1, <2>2 DEF Consumed, Held
<1>8. \A t \in Threads : IsFiniteSet(F[t]) /\ f[t] = Cardinality(F[t])
  <2> SUFFICES ASSUME NEW t \in Threads
               PROVE  IsFiniteSet(LinesOf(t)) /\ linesRead[t] = Cardinality(LinesOf(t))
    BY <1>3, <1>5
  <2>1. Consumed(t) \ Held(t) = LinesOf(t)
    BY <1>7
  <2> QED BY <1>1, <2>1, ConsumedIsFinite DEF ThreadsInv, ThreadInv
<1>9. \A t \in Threads : IsFiniteSet(G[t]) /\ g[t] = Cardinality(G[t])
  <2> SUFFICES ASSUME NEW t \in Threads
               PROVE  /\ IsFiniteSet(LinesOf(t) \ wellFormed)
                      /\ malformed[t] = Cardinality(LinesOf(t) \ wellFormed)
    BY <1>4, <1>6
  <2>1. Consumed(t) \ wellFormed = LinesOf(t) \ wellFormed
    BY <1>7
  <2> QED BY <1>1, <2>1, ConsumedIsFinite DEF ThreadsInv, ThreadInv
<1>10. \A t, u \in Threads : t # u => F[t] \cap F[u] = {}
  BY <1>1, <1>3, RangesDisjoint
<1>11. \A t, u \in Threads : t # u => G[t] \cap G[u] = {}
  BY <1>1, <1>4, RangesDisjoint
<1>12. \A i : i \in LineStarts(file) <=> \E t \in Threads : i \in LinesOf(t)
  BY <1>1, RangesCover DEF LinesOf
<1>13. PICK U : U = LineStarts(file)
  OBVIOUS
<1>14. Total(f, Threads) = Cardinality(U)
  <2>1. \A i : i \in U <=> \E t \in Threads : i \in F[t]
    BY <1>3, <1>12, <1>13
  <2> QED BY <1>2, <1>8, <1>10, <2>1, TotalOfSizes
<1>15. PICK V : V = LineStarts(file) \ wellFormed
  OBVIOUS
<1>16. Total(g, Threads) = Cardinality(V)
  <2>1. \A i : i \in V <=> \E t \in Threads : i \in G[t]
    BY <1>4, <1>12, <1>15
  <2> QED BY <1>2, <1>9, <1>11, <2>1, TotalOfSizes
<1> QED BY <1>5, <1>6, <1>13, <1>14, <1>15, <1>16

\* Every line of the file is read by exactly one thread, for any file and any
\* number of threads: lines longer than a range, ranges behind the end of the
\* file and a missing final newline included (reader_thread_main).
THEOREM EveryLineIsReadOnce == Spec => []EveryLineReadOnce
<1>1. ReaderInv => EveryLineReadOnce
  BY RangesAddUp DEF EveryLineReadOnce
<1> QED BY <1>1, ReaderCorrect, PTL

-----------------------------------------------------------------------------
(* The refinement of LineStream                                            *)

\* What was handed over, in the words of LineStream.
LEMMA SentIsSent ==
    ASSUME NEW n
    PROVE  Stream!LineItem(n) \in Stream!Sent <=> IsSent(n)
BY DEF Stream!LineItem, Stream!Sent, IsSent

\* When nothing is left anywhere, every well-formed line was handed over.
LEMMA AllSentAtEnd ==
    ASSUME ReaderInv, ppc = "eof"
    PROVE  \A n \in wellFormed : IsSent(n)
<1>1. /\ TypeOK /\ FileInv /\ ThreadsInv /\ PlacesInv /\ ParserInv
  BY DEF ReaderInv
<1>2. count = 0 /\ \A t \in Threads : tpc[t] = "ended"
  BY <1>1 DEF ParserInv, Drained
<1> SUFFICES ASSUME NEW n \in wellFormed PROVE IsSent(n)
  OBVIOUS
<1>3. Fetched(n)
  <2>1. PICK t \in Threads : n \in LinesOf(t)
    BY <1>1, RangesCover DEF FileInv
  <2>2. RangeExhausted(t) /\ pos[t] \in Nat
    BY <1>1, <1>2 DEF ThreadsInv, ThreadInv, TypeOK
  <2>3. n < pos[t]
    BY <1>1, <2>1, <2>2, RangePassed
  <2>4. n \in Consumed(t)
    BY <1>2, <2>1, <2>3 DEF Consumed
  <2> QED BY <2>4 DEF Fetched
<1>4. ~InHand(n)
  BY <1>2 DEF InHand
<1>5. ~InRing(n)
  BY <1>1, <1>2, EmptyRing DEF InRing, Occupied, TypeOK
<1>6. ~AtParser(n)
  BY DEF AtParser
<1> QED BY <1>1, <1>3, <1>4, <1>5, <1>6 DEF PlacesInv, OnePlace

\* Forward is SendLine.
LEMMA ForwardIsSendLine ==
    ASSUME ReaderInv, Forward
    PROVE  Stream!SendLine
<1>1. current \in wellFormed /\ ~IsSent(current)
  BY ForwardPlaces DEF ReaderInv, ParserInv
<1>2. wellFormed' = wellFormed /\ output' = Append(output, Stream!LineItem(current))
  BY DEF Forward, fileVars, Stream!LineItem
<1>3. Stream!LineItem(current) \in Stream!Pending
  BY <1>1, SentIsSent DEF Stream!Pending
<1> QED BY <1>2, <1>3 DEF Stream!SendLine

\* ForwardEof is SendEof.
LEMMA ForwardEofIsSendEof ==
    ASSUME ReaderInv, ForwardEof
    PROVE  Stream!SendEof
<1>1. /\ ppc = "eof" /\ wellFormed' = wellFormed
      /\ output' = Append(output, Stream!EofItem(eofLevel))
  BY DEF ForwardEof, fileVars, Stream!EofItem
<1>2. \A n \in wellFormed : IsSent(n)
  BY <1>1, AllSentAtEnd
<1>3. Stream!Pending = {}
  BY <1>2, SentIsSent DEF Stream!Pending
<1>4. SentLines = wellFormed
  BY <1>2 DEF SentLines
<1>5. Len(output) = Cardinality(wellFormed) + eofLevel
  BY <1>4 DEF ReaderInv, ParserInv
<1>6. Cardinality(wellFormed) \in Nat /\ eofLevel \in Nat
  BY LinesAreFinite, FS_CardinalityType DEF ReaderInv, TypeOK
<1>7. Stream!EofsSent = eofLevel
  <2>1. PICK c \in Nat : c = Cardinality(wellFormed)
    BY <1>6
  <2>2. (c + eofLevel) - c = eofLevel
    BY <1>6
  <2>3. Stream!EofsSent = Len(output) - Cardinality(wellFormed)
    BY DEF Stream!EofsSent, Stream!Cardinality, Cardinality, Stream!IsFiniteSet, IsFiniteSet
  <2> QED BY <1>5, <2>1, <2>2, <2>3
<1>8. eofLevel \in 0..(NumLevels - 1)
  BY <1>1, <1>6, ReaderAssumption DEF ReaderInv, ParserInv
<1> QED BY <1>1, <1>3, <1>7, <1>8 DEF Stream!SendEof

\* Every step is a step of LineStream or changes nothing it speaks of.
LEMMA StepRefines ==
    ASSUME ReaderInv, [Next]_vars
    PROVE  [Stream!Next]_<<wellFormed, output>>
<1>1. CASE Forward
  BY <1>1, ForwardIsSendLine DEF Stream!Next
<1>2. CASE ForwardEof
  BY <1>2, ForwardEofIsSendEof DEF Stream!Next
<1>3. CASE ~Forward /\ ~ForwardEof
  <2>1. output' = output
    BY <1>3 DEF Next, vars, ReaderThread, OpenAndSeek, ReadLine, ThreadEnds, PushPrivate,
                PushPrivateWaits, ProducersDone, ParserThread, PopPrivate, PopPrivateWaits,
                PopPrivateEnds, Exited, parserVars
  <2> QED BY <2>1, InputsFixed
<1> QED BY <1>1, <1>2, <1>3

\* A reader process implements the stream the dispatcher is promised: every
\* well-formed line once, then one EOF marker per level in level order, whatever
\* the interleaving of its threads (run_reader_process).
THEOREM ReaderImplementsStream == Spec => ImplementsLineStream
<1>1. Init => Stream!Init
  BY DEF Init, Stream!Init
<1>2. ReaderInv /\ [Next]_vars => [Stream!Next]_<<wellFormed, output>>
  BY StepRefines
<1> QED BY <1>1, <1>2, ReaderCorrect, PTL DEF Spec, ImplementsLineStream, Stream!Spec

=============================================================================
