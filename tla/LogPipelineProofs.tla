-------------------------- MODULE LogPipelineProofs --------------------------
(***************************************************************************)
(* Proofs about LogPipeline for any files, lines, levels, workers and      *)
(* capacities: a closed level receives nothing more, no entry is stranded, *)
(* a ready result is final, a report on disk counts every line and every   *)
(* high-priority line exactly once, and its top-3 lists are exact.         *)
(***************************************************************************)
EXTENDS LogPipeline, CountingLemmas

-----------------------------------------------------------------------------
(* The inductive invariant                                                 *)

ResultsOver(T) ==
    [entries : Nat, score : Nat, ready : BOOLEAN, perThread : [Workers -> Nat], top : T]

\* A worker has a line in its hands exactly while it scores it.
TasksInv == \A l \in Levels, w \in Workers : wpc[l][w] = "score" <=> task[l][w] # NoLine

\* Types, with those of Region C and of the aggregator's totals.  What a list of
\* top sources looks like does not matter here.
PipelineTypes ==
    /\ TypeOK
    /\ \E T : results \in [Levels -> ResultsOver(T)]
    /\ highPriority \in [entries : Nat, score : Nat]
    /\ gpc \in {"popD", "waitD", "collect", "waitC", "sem"} => gLevel < NumLevels
    /\ TasksInv

\* The items of a queue, and a queue in which none is twice.
Items(s)    == {s[i] : i \in 1..Len(s)}
NoRepeat(s) == \A i, j \in 1..Len(s) : s[i] = s[j] => i = j

\* The dispatcher has popped the item and not yet counted or routed it.
AtDispatcher(item) == dpc \in {"eof", "pushB", "waitB"} /\ held = item

\* The readers whose EOF marker of the level the dispatcher has counted.
CountedReaders(l) ==
    {r \in Readers : /\ l < eofNext[r]
                     /\ EofMarker(r, l) \notin Items(regionA)
                     /\ ~AtDispatcher(EofMarker(r, l))}

\* A reader owns the lines of its file and has none left at its first marker.
ReadersInv ==
    \A r \in Readers : /\ unread[r] \subseteq {n \in Lines : ReaderOf[n] = r}
                       /\ eofNext[r] > 0 => unread[r] = {}

\* An EOF marker is in one place, and only if it was pushed.
MarkersInv ==
    /\ NoRepeat(regionA)
    /\ \A r \in Readers, l \in Levels :
         /\ EofMarker(r, l) \in Items(regionA) => l < eofNext[r] /\ ~AtDispatcher(EofMarker(r, l))
         /\ AtDispatcher(EofMarker(r, l)) => l < eofNext[r]

\* The markers of a reader are behind its lines: in Region A, and once one of
\* them has left it, all lines have.
OrderInv ==
    /\ \A i, j \in 1..Len(regionA) :
         i < j /\ regionA[i].is_eof /\ ~regionA[j].is_eof => regionA[i].reader_id # regionA[j].reader_id
    /\ \A r \in Readers, l \in Levels, n \in Lines :
         l < eofNext[r] /\ EofMarker(r, l) \notin Items(regionA) /\ ReaderOf[n] = r =>
            Entry(n) \notin Items(regionA) /\ ~AtDispatcher(Entry(n))

\* eof_seen counts the markers, and a closed level has all of them.
CountInv ==
    \A l \in Levels : /\ eofSeen[l] = Cardinality(CountedReaders(l))
                      /\ eofPosted[l] => CountedReaders(l) = Readers

\* A worker past the loop left it at a drained level; one that sleeps is in it.
WorkersInv ==
    \A l \in Levels :
        /\ \A w \in Workers : wpc[l][w] \in {"barrier", "exiting", "exited"} => LevelDrained(l)
        /\ \A w \in notEmptyB[l] : wpc[l][w] = "pop"

\* A line upstream of Region B is in one place.
UpstreamInv ==
    \A n \in Lines :
        /\ Entry(n) \in Items(regionA) => n \notin unread[ReaderOf[n]] /\ ~AtDispatcher(Entry(n))
        /\ AtDispatcher(Entry(n)) => n \notin unread[ReaderOf[n]]

\* What is upstream of Region B.
EofInv == ReadersInv /\ MarkersInv /\ OrderInv /\ CountInv /\ UpstreamInv

-----------------------------------------------------------------------------
(* Queues                                                                  *)

\* What Append does to a queue.
LEMMA AppendFacts ==
    ASSUME NEW S, NEW s \in Seq(S), NEW e \in S
    PROVE  /\ Append(s, e) \in Seq(S) /\ Len(Append(s, e)) = Len(s) + 1 /\ Len(s) \in Nat
           /\ \A i \in 1..Len(s) : Append(s, e)[i] = s[i]
           /\ Append(s, e)[Len(s) + 1] = e
           /\ Items(Append(s, e)) = Items(s) \cup {e}
           /\ NoRepeat(s) /\ e \notin Items(s) => NoRepeat(Append(s, e))
<1> DEFINE q == Append(s, e)
           n == Len(s)
<1>1. n \in Nat /\ q \in Seq(S) /\ Len(q) = n + 1 /\ q[n + 1] = e /\ \A i \in 1..n : q[i] = s[i]
  OBVIOUS
<1> HIDE DEF q
<1>2. \A i \in 1..(n + 1) : i \in 1..n \/ i = n + 1
  BY <1>1
<1>3. Items(q) = Items(s) \cup {e}
  <2>1. ASSUME NEW x \in Items(q) PROVE x \in Items(s) \cup {e}
    BY <1>1, <1>2 DEF Items
  <2>2. ASSUME NEW x \in Items(s) PROVE x \in Items(q)
    BY <1>1 DEF Items
  <2>3. e \in Items(q)
    BY <1>1 DEF Items
  <2> QED BY <2>1, <2>2, <2>3
<1>4. ASSUME NoRepeat(s), e \notin Items(s) PROVE NoRepeat(q)
  <2>1. \A i \in 1..n : q[i] # e
    BY <1>1, <1>4 DEF Items
  <2> QED BY <1>1, <1>2, <1>4, <2>1 DEF NoRepeat
<1> QED BY <1>1, <1>3, <1>4 DEF q

\* What Head and Tail do to a queue.
LEMMA TailFacts ==
    ASSUME NEW S, NEW s \in Seq(S), s # <<>>
    PROVE  /\ Head(s) \in S /\ Head(s) = s[1] /\ Tail(s) \in Seq(S)
           /\ Len(s) \in Nat \ {0} /\ Len(Tail(s)) = Len(s) - 1
           /\ \A i \in 1..Len(Tail(s)) : i + 1 \in 1..Len(s) /\ Tail(s)[i] = s[i + 1]
           /\ Items(s) = Items(Tail(s)) \cup {Head(s)}
           /\ NoRepeat(s) => NoRepeat(Tail(s)) /\ Head(s) \notin Items(Tail(s))
<1> DEFINE q == Tail(s)
           n == Len(s)
<1>1. n \in Nat \ {0} /\ Head(s) = s[1] /\ Head(s) \in S /\ q \in Seq(S) /\ Len(q) = n - 1
  OBVIOUS
<1>2. \A i \in 1..(n - 1) : i + 1 \in 1..n /\ q[i] = s[i + 1] /\ i + 1 # 1
  BY <1>1
<1>3. \A i \in 1..n : i = 1 \/ (i - 1 \in 1..(n - 1) /\ q[i - 1] = s[i])
  <2> TAKE i \in 1..n
  <2>1. i # 1 => i - 1 \in 1..(n - 1) /\ (i - 1) + 1 = i
    BY <1>1
  <2> QED BY <1>2, <2>1
<1> HIDE DEF q
<1>4. Items(s) = Items(q) \cup {s[1]}
  <2>1. ASSUME NEW x \in Items(s) PROVE x \in Items(q) \cup {s[1]}
    BY <1>1, <1>3 DEF Items
  <2>2. ASSUME NEW x \in Items(q) PROVE x \in Items(s)
    BY <1>1, <1>2 DEF Items
  <2>3. s[1] \in Items(s)
    BY <1>1 DEF Items
  <2> QED BY <2>1, <2>2, <2>3
<1>5. ASSUME NoRepeat(s) PROVE NoRepeat(q) /\ s[1] \notin Items(q)
  <2>1. ASSUME NEW i \in 1..(n - 1), NEW j \in 1..(n - 1), q[i] = q[j] PROVE i = j
    <3>1. i + 1 = j + 1
      BY <1>2, <1>5, <2>1 DEF NoRepeat
    <3> QED BY <3>1
  <2>2. ASSUME NEW i \in 1..(n - 1) PROVE q[i] # s[1]
    <3>1. 1 \in 1..n
      BY <1>1
    <3> QED BY <1>2, <1>5, <3>1 DEF NoRepeat
  <2> QED BY <1>1, <2>1, <2>2 DEF NoRepeat, Items
<1> QED BY <1>1, <1>2, <1>4, <1>5 DEF q

-----------------------------------------------------------------------------
(* Lines, entries and markers                                              *)

\* The entry of a line has the line's fields.
LEMMA EntryFacts ==
    /\ \A n \in Lines : /\ Entry(n) \in Entries /\ ~Entry(n).is_eof /\ Entry(n).line = n
                        /\ Entry(n).level_index = LevelOf[n] /\ Entry(n).reader_id = ReaderOf[n]
    /\ \A e \in Entries : /\ e.line \in Lines /\ e = Entry(e.line) /\ ~e.is_eof
                           /\ e.level_index = LevelOf[e.line] /\ e.level_index \in Levels
    /\ \A n \in Lines : LevelOf[n] \in Levels /\ ReaderOf[n] \in Readers
<1>1. \A n \in Lines : /\ Entry(n) \in Entries /\ ~Entry(n).is_eof /\ Entry(n).line = n
                       /\ Entry(n).level_index = LevelOf[n] /\ Entry(n).reader_id = ReaderOf[n]
  BY DEF Entry, Entries
<1>2. \A e \in Entries : \E n \in Lines : e = Entry(n)
  BY DEF Entries
<1>3. \A n \in Lines : LevelOf[n] \in Levels /\ ReaderOf[n] \in Readers
  BY ConstantsAssumption
<1> QED BY <1>1, <1>2, <1>3

\* A marker has a reader and a level, and no line.
LEMMA MarkerFacts ==
    /\ \A r \in Readers, l \in Levels :
          /\ EofMarker(r, l) \in EofMarkers /\ EofMarker(r, l).is_eof
          /\ EofMarker(r, l).reader_id = r /\ EofMarker(r, l).level_index = l
          /\ EofMarker(r, l).line = NoLine
    /\ \A m \in EofMarkers : /\ m.is_eof /\ m.reader_id \in Readers /\ m.level_index \in Levels
                              /\ m = EofMarker(m.reader_id, m.level_index)
<1>1. \A r \in Readers, l \in Levels :
          /\ EofMarker(r, l) \in EofMarkers /\ EofMarker(r, l).is_eof
          /\ EofMarker(r, l).reader_id = r /\ EofMarker(r, l).level_index = l
          /\ EofMarker(r, l).line = NoLine
  <2> TAKE r \in Readers, l \in Levels
  <2>1. EofMarker(r, l) \in EofMarkers
    BY DEF EofMarkers
  <2> QED BY <2>1 DEF EofMarker
<1>2. \A m \in EofMarkers : \E r \in Readers, l \in Levels : m = EofMarker(r, l)
  BY DEF EofMarkers
<1>3. ASSUME NEW m \in EofMarkers
      PROVE  /\ m.is_eof /\ m.reader_id \in Readers /\ m.level_index \in Levels
             /\ m = EofMarker(m.reader_id, m.level_index)
  <2>1. PICK r \in Readers, l \in Levels : m = EofMarker(r, l)
    BY <1>2
  <2> QED BY <1>1, <2>1
<1> QED BY <1>1, <1>3

\* Every line has a weight.
LEMMA WeightedType ==
    \A n \in Lines : Weighted(n) \in Nat
<1> SUFFICES ASSUME NEW n \in Lines PROVE Weighted(n) \in Nat
  OBVIOUS
<1>1. Matches[n] \in Nat
  BY ConstantsAssumption
<1>2. LevelWeight(LevelOf[n]) \in Nat
  BY ConstantsAssumption DEF LevelWeight, Levels
<1>3. \A i, j \in Nat : i * j \in Nat
  OBVIOUS
<1> QED BY <1>1, <1>2, <1>3 DEF Weighted

\* There are levels, and they are numbered from 0.
LEMMA LevelFacts ==
    /\ NumLevels \in Nat \ {0} /\ IsFiniteSet(Levels)
    /\ \A l \in Levels : l \in Nat /\ l < NumLevels
    /\ \A k \in Nat : k < NumLevels => k \in Levels
BY ConstantsAssumption, FS_Interval DEF Levels

-----------------------------------------------------------------------------
(* Types                                                                   *)

\* The types hold initially.
LEMMA TypesInit == Init => PipelineTypes
<1> SUFFICES ASSUME Init PROVE PipelineTypes
  OBVIOUS
<1>1. TypeOK
  <2>1. /\ unread \in [Readers -> SUBSET Lines] /\ eofNext \in [Readers -> 0..NumLevels] /\ dead \subseteq Readers
        /\ regionA \in Seq(Entries \cup EofMarkers) /\ Len(regionA) <= CapA
        /\ eofCount \in [Levels -> Nat] /\ notFullA \subseteq Readers
    BY LevelFacts, ConstantsAssumption DEF Init
  <2>2. /\ regionB \in [Levels -> Seq(Entries)] /\ \A l \in Levels : Len(regionB[l]) <= CapB
        /\ eofPosted \in [Levels -> BOOLEAN] /\ notEmptyB \in [Levels -> SUBSET Workers]
        /\ regionD \in Seq(Entries) /\ Len(regionD) <= CapD
    BY ConstantsAssumption DEF Init
  <2>3. /\ wpc \in [Levels -> [Workers -> WorkerPoints]]
        /\ task \in [Levels -> [Workers -> Lines \cup {NoLine}]]
    BY DEF Init, WorkerPoints
  <2>4. tls \in [Levels -> [Workers -> [entries : Nat, score : Nat]]]
    <3>1. [entries |-> 0, score |-> 0] \in [entries : Nat, score : Nat]
      OBVIOUS
    <3>2. tls = [l \in Levels |-> [w \in Workers |-> [entries |-> 0, score |-> 0]]]
      BY DEF Init
    <3> QED BY <3>1, <3>2
  <2>5. /\ analyzer \in [Levels -> {"join", "publish", "post", "exited"}]
        /\ levelReady \in [Levels -> Nat] /\ gLevel \in 0..NumLevels
        /\ eofSeen \in [Levels -> Nat] /\ finishedLevels \in Nat
    BY LevelFacts DEF Init
  <2> QED BY <2>1, <2>2, <2>3, <2>4, <2>5 DEF Init, TypeOK
<1>2. results \in [Levels -> ResultsOver({EmptyTop3})]
  BY DEF Init, ResultsOver
<1>3. highPriority \in [entries : Nat, score : Nat] /\ gLevel < NumLevels
  BY LevelFacts DEF Init
<1>4. TasksInv
  BY DEF Init, TasksInv
<1> QED BY <1>1, <1>2, <1>3, <1>4 DEF PipelineTypes

\* The readers keep the types.
LEMMA ReaderTypes ==
    ASSUME PipelineTypes, NEW r \in Readers, Reader(r) \/ ReaderDies(r)
    PROVE  PipelineTypes'
<1> USE DEF readerVars, regionAVars, dispatcherVars, regionBVars, regionDVars,
            workerVars, resultVars, aggregatorVars
<1>0. TypeOK /\ (UNCHANGED <<results, highPriority, gpc, gLevel, wpc, task>> /\ TypeOK' => PipelineTypes')
  BY DEF PipelineTypes, TasksInv
<1>1. CASE PushABlocks(r)
  BY <1>0, <1>1 DEF PushABlocks, TypeOK
<1>2. CASE PushA(r)
  <2>1. PICK item \in NextItems(r) :
         /\ regionA' = Append(regionA, item)
         /\ unread' = [unread EXCEPT ![r] = @ \ {item.line}]
         /\ eofNext' = IF item.is_eof THEN [eofNext EXCEPT ![r] = @ + 1] ELSE eofNext
         /\ eofCount' = IF item.is_eof
                        THEN [eofCount EXCEPT ![item.level_index] = @ + 1]
                        ELSE eofCount
    BY <1>2 DEF PushA
  <2>2. eofNext[r] \in 0..NumLevels /\ eofNext[r] # NumLevels /\ eofNext[r] \in Levels
    BY <1>0, <1>2, LevelFacts DEF PushA, ReaderReady, ReaderFinished, TypeOK
  <2>3. unread[r] \subseteq Lines
    BY <1>0 DEF TypeOK
  <2>4. item \in Entries \cup EofMarkers
    BY <2>1, <2>2, <2>3, EntryFacts, MarkerFacts DEF NextItems
  <2>5. item.is_eof => item.level_index \in Levels
    BY <2>4, EntryFacts, MarkerFacts
  <2>6. regionA' \in Seq(Entries \cup EofMarkers) /\ Len(regionA') <= CapA
    <3>1. Len(regionA) < CapA /\ regionA \in Seq(Entries \cup EofMarkers)
      BY <1>0, <1>2 DEF PushA, TypeOK
    <3>2. regionA' \in Seq(Entries \cup EofMarkers) /\ Len(regionA') = Len(regionA) + 1 /\ Len(regionA) \in Nat
      BY <2>1, <2>4, <3>1, AppendFacts
    <3> QED BY <3>1, <3>2, ConstantsAssumption
  <2>7. unread' \in [Readers -> SUBSET Lines] /\ eofNext' \in [Readers -> 0..NumLevels]
    <3>1. eofNext[r] + 1 \in 0..NumLevels
      BY <2>2, LevelFacts
    <3>2. unread[r] \ {item.line} \in SUBSET Lines
      BY <2>3
    <3>3. unread \in [Readers -> SUBSET Lines] /\ eofNext \in [Readers -> 0..NumLevels]
      BY <1>0 DEF TypeOK
    <3>4. eofNext' \in [Readers -> 0..NumLevels]
      BY <2>1, <3>1, <3>3
    <3>5. unread' \in [Readers -> SUBSET Lines]
      BY <2>1, <3>2, <3>3
    <3> QED BY <3>4, <3>5
  <2>8. eofCount' \in [Levels -> Nat]
    <3>1. eofCount \in [Levels -> Nat]
      BY <1>0 DEF TypeOK
    <3>2. CASE item.is_eof
      <4>1. PICK l \in Levels : l = item.level_index
        BY <2>5, <3>2
      <4>2. eofCount' = [eofCount EXCEPT ![l] = eofCount[l] + 1] /\ eofCount[l] + 1 \in Nat
        BY <2>1, <3>1, <3>2, <4>1
      <4> QED BY <3>1, <4>2
    <3>3. CASE ~item.is_eof
      BY <2>1, <3>1, <3>3
    <3> QED BY <3>2, <3>3
  <2>9. /\ dpc' \in {"pop", "waitA", "check", "eof", "pushB", "waitB", "pushD", "waitD", "finish", "exited"}
        /\ dpc' = "eof" => held' \in EofMarkers
        /\ dpc' \in {"pushB", "waitB", "pushD", "waitD"} => held' \in Entries
    BY <1>0, <1>2 DEF PushA, TypeOK
  <2>10. TypeOK'
    BY <1>0, <1>2, <2>6, <2>7, <2>8, <2>9 DEF PushA, TypeOK
  <2> QED BY <1>0, <1>2, <2>10 DEF PushA
<1>3. CASE ReaderDies(r)
  BY <1>0, <1>3 DEF ReaderDies, TypeOK
<1> QED BY <1>1, <1>2, <1>3 DEF Reader

\* The dispatcher keeps the types.
LEMMA DispatcherTypes ==
    ASSUME PipelineTypes, Dispatcher
    PROVE  PipelineTypes'
<1> USE DEF readerVars, regionAVars, dispatcherVars, regionBVars, regionDVars,
            workerVars, resultVars, aggregatorVars
<1>0. TypeOK
  BY DEF PipelineTypes
<1>a. ASSUME TypeOK', UNCHANGED <<results, highPriority, gpc, gLevel, wpc, task>> PROVE PipelineTypes'
  BY <1>a DEF PipelineTypes, TasksInv
<1>1. CASE PopA
  <2>1. regionA \in Seq(Entries \cup EofMarkers) /\ regionA # <<>> /\ Len(regionA) <= CapA /\ CapA \in Nat
    BY <1>0, <1>1, ConstantsAssumption DEF PopA, TypeOK
  <2>2. /\ regionA' \in Seq(Entries \cup EofMarkers) /\ Len(regionA) \in Nat /\ Len(regionA') = Len(regionA) - 1
        /\ Head(regionA) \in Entries \cup EofMarkers
    BY <1>1, <2>1, TailFacts DEF PopA
  <2>3. Len(regionA') <= CapA
    BY <2>1, <2>2
  <2>4. notFullA' \subseteq Readers
    BY <1>0, <1>1 DEF PopA, TypeOK
  <2>5. (dpc' = "eof" /\ held' \in EofMarkers) \/ (dpc' = "pushB" /\ held' \in Entries)
    <3>1. PICK item \in Entries \cup EofMarkers : item = Head(regionA)
      BY <2>2
    <3>2. (item \in EofMarkers /\ item.is_eof) \/ (item \in Entries /\ ~item.is_eof)
      <4>1. CASE item \in Entries
        BY <4>1, EntryFacts, Zenon
      <4>2. CASE item \in EofMarkers
        <5>1. item.is_eof
          BY <4>2, MarkerFacts
        <5> QED BY <4>2, <5>1
      <4> QED BY <4>1, <4>2
    <3>3. held' = item /\ dpc' = IF item.is_eof THEN "eof" ELSE "pushB"
      BY <1>1, <3>1 DEF PopA
    <3> QED BY <3>2, <3>3
  <2>6. TypeOK'
    BY <1>0, <1>1, <2>2, <2>3, <2>4, <2>5 DEF PopA, TypeOK
  <2> QED BY <1>a, <1>1, <2>6 DEF PopA
<1>2. CASE PopAWaits \/ PopATimesOut \/ CheckAllDone \/ PushBWaits \/ PushDWaits
  <2>1. /\ dpc' \in {"waitA", "check", "finish", "pop"} \/ (dpc' \in {"waitB", "waitD"} /\ dpc \in {"pushB", "pushD"})
        /\ UNCHANGED <<readerVars, regionAVars, held, eofSeen, finishedLevels,
                       regionBVars, regionDVars, workerVars, resultVars, aggregatorVars>>
    BY <1>2 DEF PopAWaits, PopATimesOut, CheckAllDone, PushBWaits, PushDWaits
  <2>2. TypeOK'
    BY <1>0, <2>1 DEF TypeOK
  <2> QED BY <1>a, <2>1, <2>2
<1>3. CASE HandleEof
  <2>0. PICK l \in Levels : l = held.level_index
    <3>1. held \in EofMarkers
      BY <1>0, <1>3 DEF HandleEof, TypeOK
    <3> QED BY <3>1, MarkerFacts
  <2>1. /\ eofSeen' = [eofSeen EXCEPT ![l] = eofSeen[l] + 1] /\ eofSeen[l] + 1 \in Nat
        /\ eofSeen \in [Levels -> Nat]
    BY <1>0, <1>3, <2>0 DEF HandleEof, TypeOK
  <2>2. eofPosted' \in [Levels -> BOOLEAN]
    <3>1. PICK b \in BOOLEAN : eofPosted' = [eofPosted EXCEPT ![l] = b]
      BY <1>3, <2>0 DEF HandleEof
    <3> QED BY <1>0, <3>1 DEF TypeOK
  <2>3. notEmptyB' \in [Levels -> SUBSET Workers]
    <3>1. PICK S \in SUBSET Workers : notEmptyB' = [notEmptyB EXCEPT ![l] = S]
      <4>1. notEmptyB[l] \in SUBSET Workers
        BY <1>0 DEF TypeOK
      <4> QED BY <1>3, <2>0, <4>1 DEF HandleEof, AfterBroadcast
    <3> QED BY <1>0, <3>1 DEF TypeOK
  <2>4. finishedLevels' \in Nat /\ dpc' \in {"pop", "finish"}
    BY <1>0, <1>3 DEF HandleEof, TypeOK
  <2>5. /\ UNCHANGED <<readerVars, regionAVars, regionB, regionDVars, workerVars, resultVars, aggregatorVars>>
    BY <1>3 DEF HandleEof
  <2>6. TypeOK'
    BY <1>0, <2>1, <2>2, <2>3, <2>4, <2>5 DEF TypeOK
  <2> QED BY <1>a, <2>5, <2>6
<1>4. CASE PushB
  <2>0. held \in Entries
    BY <1>0, <1>4 DEF PushB, TypeOK
  <2>1. PICK l \in Levels : l = held.level_index
    BY <2>0, EntryFacts
  <2>2. /\ Len(regionB[l]) # CapB /\ regionB' = [regionB EXCEPT ![l] = Append(regionB[l], held)]
    BY <1>4, <2>1 DEF PushB, FullB
  <2>3. regionB[l] \in Seq(Entries) /\ Len(regionB[l]) <= CapB /\ CapB \in Nat /\ Len(regionB[l]) \in Nat
    BY <1>0, ConstantsAssumption DEF TypeOK
  <2>4. Append(regionB[l], held) \in Seq(Entries) /\ Len(Append(regionB[l], held)) = Len(regionB[l]) + 1
    BY <2>0, <2>3, AppendFacts
  <2>5. Len(Append(regionB[l], held)) <= CapB
    BY <2>2, <2>3, <2>4
  <2>6. regionB' \in [Levels -> Seq(Entries)] /\ \A m \in Levels : Len(regionB'[m]) <= CapB
    BY <1>0, <2>2, <2>4, <2>5 DEF TypeOK
  <2>7. notEmptyB' \in [Levels -> SUBSET Workers]
    <3>1. PICK S : notEmptyB' = [notEmptyB EXCEPT ![l] = notEmptyB[l] \ S]
      BY <1>4, <2>1 DEF PushB
    <3> QED BY <1>0, <3>1 DEF TypeOK
  <2>8. dpc' \in {"pop", "pushD"} /\ (dpc' = "pushD" => held' = held)
    BY <1>4 DEF PushB, AfterPushB
  <2>9. UNCHANGED <<readerVars, regionAVars, eofSeen, finishedLevels, eofPosted,
                    regionDVars, workerVars, resultVars, aggregatorVars>>
    BY <1>4 DEF PushB
  <2>10. TypeOK'
    BY <1>0, <2>0, <2>6, <2>7, <2>8, <2>9 DEF TypeOK
  <2> QED BY <1>a, <2>9, <2>10
<1>5. CASE PushD
  <2>0. held \in Entries /\ regionD \in Seq(Entries) /\ Len(regionD) < CapD /\ CapD \in Nat
    BY <1>0, <1>5, ConstantsAssumption DEF PushD, TypeOK
  <2>1. regionD' \in Seq(Entries) /\ Len(regionD') = Len(regionD) + 1 /\ Len(regionD) \in Nat
    BY <1>5, <2>0, AppendFacts DEF PushD
  <2>2. Len(regionD') <= CapD
    BY <2>0, <2>1
  <2>3. TypeOK'
    BY <1>0, <1>5, <2>1, <2>2 DEF PushD, TypeOK
  <2>4. gpc' \in {"popD", "waitD", "collect", "waitC", "sem"} => gpc \in {"popD", "waitD", "collect", "waitC", "sem"}
    BY <1>5 DEF PushD
  <2> QED BY <1>5, <2>3, <2>4 DEF PushD, PipelineTypes, TasksInv
<1>6. CASE DispatcherFinishes
  <2>1. TypeOK'
    BY <1>0, <1>6 DEF DispatcherFinishes, TypeOK
  <2>4. gpc' \in {"popD", "waitD", "collect", "waitC", "sem"} => gpc \in {"popD", "waitD", "collect", "waitC", "sem"}
    BY <1>6 DEF DispatcherFinishes
  <2> QED BY <1>6, <2>1, <2>4 DEF DispatcherFinishes, PipelineTypes, TasksInv
<1> QED BY <1>1, <1>2, <1>3, <1>4, <1>5, <1>6 DEF Dispatcher

\* The analyzers and their workers keep the types.
LEMMA AnalyzerTypes ==
    ASSUME PipelineTypes, NEW l \in Levels,
           (\E w \in Workers : Worker(l, w)) \/ Analyzer(l)
    PROVE  PipelineTypes'
<1> USE DEF readerVars, regionAVars, dispatcherVars, regionBVars, regionDVars,
            workerVars, resultVars, aggregatorVars
<1>0. TypeOK
  BY DEF PipelineTypes
<1>a. ASSUME TypeOK', TasksInv', UNCHANGED <<results, highPriority, gpc, gLevel>> PROVE PipelineTypes'
  BY <1>a DEF PipelineTypes
<1>b. ASSUME NEW w \in Workers PROVE (wpc[l][w] = "score") <=> (task[l][w] # NoLine)
  BY DEF PipelineTypes, TasksInv
<1>c. /\ wpc \in [Levels -> [Workers -> WorkerPoints]] /\ task \in [Levels -> [Workers -> Lines \cup {NoLine}]]
      /\ TasksInv
  BY <1>0 DEF TypeOK, PipelineTypes
<1>t. PICK T : results \in [Levels -> ResultsOver(T)]
  BY DEF PipelineTypes
<1>1. ASSUME NEW w \in Workers, PopB(l, w) PROVE PipelineTypes'
  <2>1. regionB[l] \in Seq(Entries) /\ regionB[l] # <<>> /\ Len(regionB[l]) <= CapB /\ CapB \in Nat
    BY <1>0, <1>1, ConstantsAssumption DEF PopB, TypeOK
  <2>2. /\ Head(regionB[l]) \in Entries /\ Tail(regionB[l]) \in Seq(Entries)
        /\ Len(regionB[l]) \in Nat /\ Len(Tail(regionB[l])) = Len(regionB[l]) - 1
    BY <2>1, TailFacts
  <2>3. Len(Tail(regionB[l])) <= CapB
    BY <2>1, <2>2
  <2>4. regionB' \in [Levels -> Seq(Entries)] /\ \A m \in Levels : Len(regionB'[m]) <= CapB
    <3>1. regionB' = [regionB EXCEPT ![l] = Tail(regionB[l])]
      BY <1>1 DEF PopB
    <3> QED BY <1>0, <2>2, <2>3, <3>1 DEF TypeOK
  <2>5. task' \in [Levels -> [Workers -> Lines \cup {NoLine}]] /\ TasksInv'
    <3>1. PICK n \in Lines : n = Head(regionB[l]).line
      BY <2>2, EntryFacts
    <3>2. task' = [task EXCEPT ![l][w] = n]
      BY <1>1, <3>1 DEF PopB
    <3>3. task' \in [Levels -> [Workers -> Lines \cup {NoLine}]]
      BY <1>c, <3>2
    <3>4. wpc' = [wpc EXCEPT ![l][w] = "score"] /\ n # NoLine
      BY <1>1, ConstantsAssumption DEF PopB
    <3>5. TasksInv'
      BY <1>c, <3>2, <3>4 DEF TasksInv
    <3> QED BY <3>3, <3>5
  <2>6. wpc' \in [Levels -> [Workers -> WorkerPoints]]
    BY <1>0, <1>1 DEF PopB, TypeOK, WorkerPoints
  <2>7. TypeOK'
    BY <1>0, <1>1, <2>4, <2>5, <2>6 DEF PopB, TypeOK
  <2> QED BY <1>a, <1>1, <2>5, <2>7 DEF PopB
<1>2. ASSUME NEW w \in Workers, PopBWaits(l, w) PROVE PipelineTypes'
  <2>1. notEmptyB' \in [Levels -> SUBSET Workers]
    BY <1>0, <1>2 DEF PopBWaits, TypeOK
  <2>2. TypeOK'
    BY <1>0, <1>2, <2>1 DEF PopBWaits, TypeOK
  <2>3. TasksInv'
    BY <1>c, <1>2 DEF PopBWaits, TasksInv
  <2> QED BY <1>a, <1>2, <2>2, <2>3 DEF PopBWaits
<1>3. ASSUME NEW w \in Workers, Score(l, w) PROVE PipelineTypes'
  <2>0. task[l][w] \in Lines
    BY <1>b, <1>c, <1>3 DEF Score
  <2>1. PICK k \in Nat : k = Weighted(task[l][w])
    BY <2>0, WeightedType
  <2>2. PICK e \in Nat, s \in Nat : e = tls[l][w].entries + 1 /\ s = tls[l][w].score + k
    <3>1. tls[l][w] \in [entries : Nat, score : Nat]
      BY <1>0 DEF TypeOK
    <3>2. tls[l][w].entries \in Nat /\ tls[l][w].score \in Nat
      BY <3>1
    <3>3. tls[l][w].entries + 1 \in Nat /\ tls[l][w].score + k \in Nat
      BY <3>2
    <3> QED BY <3>3
  <2>3. tls' = [tls EXCEPT ![l][w] = [entries |-> e, score |-> s]]
    BY <1>3, <2>1, <2>2 DEF Score
  <2>4. tls' \in [Levels -> [Workers -> [entries : Nat, score : Nat]]]
    BY <1>0, <2>3 DEF TypeOK
  <2>5. task' \in [Levels -> [Workers -> Lines \cup {NoLine}]] /\ wpc' \in [Levels -> [Workers -> WorkerPoints]]
    BY <1>0, <1>3 DEF Score, TypeOK, WorkerPoints
  <2>6. UNCHANGED <<readerVars, regionAVars, dispatcherVars, regionBVars, regionDVars, resultVars, aggregatorVars>>
    BY <1>3 DEF Score
  <2>7. TypeOK'
    BY <1>0, <2>4, <2>5, <2>6 DEF TypeOK
  <2>8. TasksInv'
    <3>1. wpc' = [wpc EXCEPT ![l][w] = "pop"] /\ task' = [task EXCEPT ![l][w] = NoLine]
      BY <1>3 DEF Score
    <3> QED BY <1>c, <3>1 DEF TasksInv
  <2> QED BY <1>a, <2>6, <2>7, <2>8
<1>4. ASSUME NEW w \in Workers, ReachBarrier(l, w) PROVE PipelineTypes'
  <2>1. wpc' \in [Levels -> [Workers -> WorkerPoints]]
    <3>1. wpc[l] \in [Workers -> WorkerPoints]
      BY <1>0 DEF TypeOK
    <3>2. [v \in Workers |-> "exiting"] \in [Workers -> WorkerPoints]
      BY DEF WorkerPoints
    <3>3. [wpc[l] EXCEPT ![w] = "barrier"] \in [Workers -> WorkerPoints]
      BY <3>1 DEF WorkerPoints
    <3>4. PICK f \in [Workers -> WorkerPoints] : wpc' = [wpc EXCEPT ![l] = f]
      BY <1>4, <3>2, <3>3 DEF ReachBarrier
    <3> QED BY <1>0, <3>4 DEF TypeOK
  <2>2. TypeOK'
    BY <1>0, <1>4, <2>1 DEF ReachBarrier, TypeOK
  <2>3. \A v \in Workers : (wpc[l][v] # "score" /\ wpc'[l][v] # "score") \/ wpc'[l][v] = wpc[l][v]
    <3>1. CASE wpc' = [wpc EXCEPT ![l] = [v \in Workers |-> "exiting"]] /\ {v \in Workers \ {w} : wpc[l][v] # "barrier"} = {}
      BY <1>c, <1>4, <3>1 DEF ReachBarrier
    <3>2. CASE wpc' = [wpc EXCEPT ![l] = [wpc[l] EXCEPT ![w] = "barrier"]]
      BY <1>c, <1>4, <3>2 DEF ReachBarrier
    <3> QED BY <1>4, <3>1, <3>2 DEF ReachBarrier
  <2>4. \A m \in Levels : m # l => wpc'[m] = wpc[m]
    BY <1>c, <1>4 DEF ReachBarrier
  <2>5. TasksInv'
    BY <1>c, <1>4, <2>3, <2>4 DEF ReachBarrier, TasksInv
  <2> QED BY <1>a, <1>4, <2>2, <2>5 DEF ReachBarrier
<1>5. ASSUME NEW w \in Workers, MergeTls(l, w) PROVE PipelineTypes'
  <2>1. wpc' \in [Levels -> [Workers -> WorkerPoints]]
    BY <1>0, <1>5 DEF MergeTls, TypeOK, WorkerPoints
  <2>2. TypeOK'
    BY <1>0, <1>5, <2>1 DEF MergeTls, TypeOK
  <2>3. tls[l][w] \in [entries : Nat, score : Nat] /\ results[l] \in ResultsOver(T)
    BY <1>0, <1>t DEF TypeOK
  <2>4. PICK e \in Nat, s \in Nat, p \in Nat : e = results[l].entries + tls[l][w].entries
               /\ s = results[l].score + tls[l][w].score /\ p = tls[l][w].score
    <3>1. /\ tls[l][w].entries \in Nat /\ tls[l][w].score \in Nat
          /\ results[l].entries \in Nat /\ results[l].score \in Nat
      BY <2>3 DEF ResultsOver
    <3>2. results[l].entries + tls[l][w].entries \in Nat /\ results[l].score + tls[l][w].score \in Nat
      BY <3>1
    <3> QED BY <3>1, <3>2
  <2>5. results' = [results EXCEPT ![l].entries = e, ![l].score = s, ![l].perThread[w] = p]
    BY <1>5, <1>t, <2>4 DEF MergeTls
  <2>6. results' \in [Levels -> ResultsOver(T)]
    BY <1>t, <2>3, <2>5 DEF ResultsOver
  <2>7. TasksInv'
    BY <1>c, <1>5 DEF MergeTls, TasksInv
  <2> QED BY <1>5, <2>2, <2>6, <2>7 DEF MergeTls, PipelineTypes
<1>6. CASE JoinAndRank(l)
  <2>1. TypeOK' /\ TasksInv'
    BY <1>0, <1>c, <1>6 DEF JoinAndRank, TypeOK, TasksInv
  <2>2. results' \in [Levels -> ResultsOver(T \cup {ComputeTop3(sources[l])})]
    <3> DEFINE top == ComputeTop3(sources[l])
               T2 == T \cup {top}
    <3>1. results' = [results EXCEPT ![l].top = top]
      BY <1>6 DEF JoinAndRank
    <3> HIDE DEF top
    <3>2. results \in [Levels -> ResultsOver(T2)] /\ top \in T2
      BY <1>t DEF ResultsOver
    <3> HIDE DEF T2
    <3>3. results' \in [Levels -> ResultsOver(T2)]
      BY <3>1, <3>2 DEF ResultsOver
    <3> QED BY <3>3 DEF T2, top
  <2> QED BY <1>6, <2>1, <2>2 DEF JoinAndRank, PipelineTypes
<1>7. CASE PublishResult(l)
  <2>1. TypeOK' /\ TasksInv'
    BY <1>0, <1>c, <1>7 DEF PublishResult, TypeOK, TasksInv
  <2>2. results' \in [Levels -> ResultsOver(T)]
    BY <1>t, <1>7 DEF PublishResult, ResultsOver
  <2>3. gpc' \in {"popD", "waitD", "collect", "waitC", "sem"} => gpc \in {"popD", "waitD", "collect", "waitC", "sem"}
    BY <1>7 DEF PublishResult
  <2> QED BY <1>7, <2>1, <2>2, <2>3 DEF PublishResult, PipelineTypes
<1>8. CASE PostLevelReady(l)
  <2>1. TypeOK' /\ TasksInv'
    BY <1>0, <1>c, <1>8 DEF PostLevelReady, TypeOK, TasksInv
  <2> QED BY <1>a, <1>8, <2>1 DEF PostLevelReady
<1> QED BY <1>1, <1>2, <1>3, <1>4, <1>5, <1>6, <1>7, <1>8 DEF Worker, Analyzer

\* The aggregator keeps the types.
LEMMA AggregatorTypes ==
    ASSUME PipelineTypes, Aggregator
    PROVE  PipelineTypes'
<1> USE DEF readerVars, regionAVars, dispatcherVars, regionBVars, regionDVars,
            workerVars, resultVars, aggregatorVars
<1>0. TypeOK /\ TasksInv /\ highPriority \in [entries : Nat, score : Nat]
  BY DEF PipelineTypes
<1>1. CASE PopD
  <2>1. regionD \in Seq(Entries) /\ regionD # <<>> /\ Len(regionD) <= CapD /\ CapD \in Nat
    BY <1>0, <1>1, ConstantsAssumption DEF PopD, TypeOK
  <2>2. /\ regionD' \in Seq(Entries) /\ Len(regionD') = Len(regionD) - 1 /\ Len(regionD) \in Nat
        /\ Head(regionD) \in Entries
    BY <1>1, <2>1, TailFacts DEF PopD
  <2>3. Len(regionD') <= CapD
    BY <2>1, <2>2
  <2>4. TypeOK' /\ TasksInv'
    BY <1>0, <1>1, <2>2, <2>3 DEF PopD, TypeOK, TasksInv
  <2>5. PICK k \in Nat : k = Weighted(Head(regionD).line)
    BY <2>2, EntryFacts, WeightedType
  <2>6. highPriority.entries + 1 \in Nat /\ highPriority.score + k \in Nat
    BY <1>0
  <2>7. highPriority' \in [entries : Nat, score : Nat]
    BY <1>1, <2>5, <2>6 DEF PopD
  <2> QED BY <1>1, <2>4, <2>7 DEF PopD, PipelineTypes
<1>2. CASE PopDWaits \/ HighPriorityDone \/ AggregatorTimesOut \/ CollectWaits \/ SeesReady
           \/ WriteText \/ WriteBinary
  <2>1. /\ gpc' \in {"popD", "waitD", "collect", "waitC", "sem", "binary", "exited"}
        /\ gpc' \notin {"binary", "exited"} => gpc \in {"popD", "waitD", "collect", "waitC", "sem"}
        /\ UNCHANGED <<readerVars, regionAVars, dispatcherVars, regionBVars, regionDVars, workerVars,
                       resultVars, gLevel, highPriority>>
    BY <1>2 DEF PopDWaits, HighPriorityDone, AggregatorTimesOut, CollectWaits, SeesReady, WriteText, WriteBinary
  <2>2. TypeOK' /\ TasksInv'
    BY <1>0, <2>1 DEF TypeOK, TasksInv
  <2> QED BY <2>1, <2>2 DEF PipelineTypes
<1>3. CASE TakeLevelReady
  <2>1. gLevel \in Levels /\ gLevel + 1 \in 0..NumLevels /\ gLevel \in Nat
    BY <1>0, <1>3, LevelFacts DEF TakeLevelReady, PipelineTypes, TypeOK
  <2>2. levelReady' \in [Levels -> Nat]
    <3>1. levelReady \in [Levels -> Nat] /\ levelReady[gLevel] \in Nat
      BY <1>0, <2>1 DEF TypeOK
    <3>2. levelReady[gLevel] - 1 \in Nat
      BY <1>3, <3>1 DEF TakeLevelReady
    <3> QED BY <1>3, <2>1, <3>1, <3>2 DEF TakeLevelReady
  <2>3. gpc' \in {"collect", "text"} /\ (gpc' = "collect" => gLevel' < NumLevels) /\ gLevel' \in 0..NumLevels
    BY <1>3, <2>1 DEF TakeLevelReady
  <2>4. TypeOK' /\ TasksInv'
    BY <1>0, <1>3, <2>2, <2>3 DEF TakeLevelReady, TypeOK, TasksInv
  <2> QED BY <1>3, <2>3, <2>4 DEF TakeLevelReady, PipelineTypes
<1> QED BY <1>1, <1>2, <1>3 DEF Aggregator

\* Every step keeps the types.
LEMMA TypesStep == PipelineTypes /\ [Next]_vars => PipelineTypes'
<1> SUFFICES ASSUME PipelineTypes, [Next]_vars PROVE PipelineTypes'
  OBVIOUS
<1>1. CASE UNCHANGED vars
  BY <1>1 DEF vars, readerVars, regionAVars, dispatcherVars, regionBVars, regionDVars,
              workerVars, resultVars, aggregatorVars, PipelineTypes, TypeOK, TasksInv
<1> QED BY <1>1, ReaderTypes, DispatcherTypes, AnalyzerTypes, AggregatorTypes DEF Next, Terminated

-----------------------------------------------------------------------------
(* Upstream of Region B                                                    *)

\* A step that moves nothing upstream of Region B.
UpstreamKept ==
    /\ UNCHANGED <<unread, eofNext, regionA, eofSeen, eofPosted>>
    /\ \A item : AtDispatcher(item)' <=> AtDispatcher(item)

\* Most steps move nothing upstream of Region B.
LEMMA UpstreamFrame ==
    ASSUME EofInv, UpstreamKept
    PROVE  EofInv'
<1>1. \A l \in Levels : CountedReaders(l)' = CountedReaders(l)
  BY DEF UpstreamKept, CountedReaders
<1>2. ReadersInv' /\ CountInv'
  BY <1>1 DEF EofInv, UpstreamKept, ReadersInv, CountInv
<1>3. MarkersInv' /\ OrderInv' /\ UpstreamInv'
  BY DEF EofInv, UpstreamKept, MarkersInv, OrderInv, UpstreamInv
<1> QED BY <1>2, <1>3 DEF EofInv

\* The invariant holds initially: nothing was pushed.
LEMMA EofInit == Init => EofInv
<1> SUFFICES ASSUME Init PROVE EofInv
  OBVIOUS
<1>1. /\ regionA = <<>> /\ dpc = "pop" /\ eofNext = [r \in Readers |-> 0]
      /\ unread = [r \in Readers |-> {n \in Lines : ReaderOf[n] = r}]
      /\ eofSeen = [l \in Levels |-> 0] /\ eofPosted = [l \in Levels |-> FALSE]
  BY DEF Init
<1>2. Len(regionA) = 0 /\ Items(regionA) = {} /\ \A item : ~AtDispatcher(item)
  BY <1>1 DEF Items, AtDispatcher
<1>3. \A l \in Levels : CountedReaders(l) = {}
  BY <1>1, LevelFacts DEF CountedReaders
<1>4. ReadersInv
  BY <1>1 DEF ReadersInv
<1>6. CountInv
  <2>1. Cardinality({}) = 0
    BY FS_EmptySet
  <2> QED BY <1>1, <1>3, <2>1 DEF CountInv
<1>5. MarkersInv /\ OrderInv /\ UpstreamInv
  BY <1>1, <1>2 DEF MarkersInv, OrderInv, UpstreamInv, NoRepeat
<1> QED BY <1>4, <1>5, <1>6 DEF EofInv

\* An entry is not a marker, and both are determined by their fields.
LEMMA ItemsDiffer ==
    /\ \A n \in Lines, r \in Readers, l \in Levels : Entry(n) # EofMarker(r, l)
    /\ \A n, m \in Lines : Entry(n) = Entry(m) => n = m
    /\ \A r, t \in Readers, l, k \in Levels : EofMarker(r, l) = EofMarker(t, k) => r = t /\ l = k
<1>1. \A n \in Lines, r \in Readers, l \in Levels : Entry(n) # EofMarker(r, l)
  BY EntryFacts, MarkerFacts
<1>2. \A n, m \in Lines : Entry(n) = Entry(m) => n = m
  BY EntryFacts
<1>3. \A r, t \in Readers, l, k \in Levels : EofMarker(r, l) = EofMarker(t, k) => r = t /\ l = k
  <2> TAKE r, t \in Readers, l, k \in Levels
  <2> HAVE EofMarker(r, l) = EofMarker(t, k)
  <2> QED BY MarkerFacts
<1> QED BY <1>1, <1>2, <1>3

\* A reader pushes one of its lines.
LEMMA PushEntryStep ==
    ASSUME PipelineTypes, EofInv, NEW r \in Readers, NEW n \in unread[r],
           regionA' = Append(regionA, Entry(n)),
           unread' = [unread EXCEPT ![r] = @ \ {n}], eofNext' = eofNext,
           UNCHANGED <<eofSeen, eofPosted>>,
           \A item : AtDispatcher(item)' <=> AtDispatcher(item)
    PROVE  EofInv'
<1>1. /\ regionA \in Seq(Entries \cup EofMarkers) /\ unread \in [Readers -> SUBSET Lines]
      /\ eofNext \in [Readers -> 0..NumLevels]
  BY DEF PipelineTypes, TypeOK
<1>2. n \in Lines /\ ReaderOf[n] = r /\ eofNext[r] = 0
  BY <1>1, LevelFacts DEF EofInv, ReadersInv
<1>3. Entry(n) \in Entries /\ Entry(n) \notin Items(regionA) /\ ~AtDispatcher(Entry(n))
  BY <1>2, EntryFacts DEF EofInv, UpstreamInv
<1>4. /\ Len(regionA) \in Nat /\ Len(regionA') = Len(regionA) + 1
      /\ \A i \in 1..Len(regionA) : regionA'[i] = regionA[i]
      /\ regionA'[Len(regionA) + 1] = Entry(n)
      /\ Items(regionA') = Items(regionA) \cup {Entry(n)}
      /\ NoRepeat(regionA')
  BY <1>1, <1>3, AppendFacts DEF EofInv, MarkersInv
<1>5. \A t \in Readers, l \in Levels : EofMarker(t, l) \in Items(regionA') <=> EofMarker(t, l) \in Items(regionA)
  BY <1>2, <1>4, ItemsDiffer
<1>6. \A m \in Lines : Entry(m) \in Items(regionA') <=> Entry(m) \in Items(regionA) \/ m = n
  BY <1>2, <1>4, ItemsDiffer
<1>7. ReadersInv'
  BY <1>1, <1>2 DEF EofInv, ReadersInv
<1>8. MarkersInv'
  BY <1>4, <1>5 DEF EofInv, MarkersInv
<1>9. \A l \in Levels : CountedReaders(l)' = CountedReaders(l)
  BY <1>5 DEF CountedReaders
<1>10. CountInv'
  BY <1>9 DEF EofInv, CountInv
<1>11. UpstreamInv'
  <2>1. \A m \in Lines : m # n => (m \in unread'[ReaderOf[m]] <=> m \in unread[ReaderOf[m]])
    BY <1>1, EntryFacts
  <2>2. n \notin unread'[ReaderOf[n]]
    BY <1>1, <1>2
  <2> QED BY <1>3, <1>6, <2>1, <2>2 DEF EofInv, UpstreamInv
<1>12. OrderInv'
  <2>1. ASSUME NEW i \in 1..Len(regionA'), NEW j \in 1..Len(regionA'), i < j,
               regionA'[i].is_eof, ~regionA'[j].is_eof
        PROVE  regionA'[i].reader_id # regionA'[j].reader_id
    <3>1. i \in 1..Len(regionA) /\ regionA'[i] = regionA[i]
      BY <1>4, <2>1
    <3>2. CASE j \in 1..Len(regionA)
      BY <1>4, <2>1, <3>1, <3>2 DEF EofInv, OrderInv
    <3>3. CASE j = Len(regionA) + 1
      <4>1. regionA[i] \in Entries \cup EofMarkers
        BY <1>1, <3>1
      <4>2. regionA[i] \in EofMarkers
        BY <2>1, <3>1, <4>1, EntryFacts
      <4>3. PICK t \in Readers, l \in Levels : regionA[i] = EofMarker(t, l) /\ regionA[i].reader_id = t
        BY <4>2, MarkerFacts
      <4>4. EofMarker(t, l) \in Items(regionA)
        BY <3>1, <4>3 DEF Items
      <4>5. l < eofNext[t]
        BY <4>4 DEF EofInv, MarkersInv
      <4>6. t # r
        BY <1>2, <4>5, LevelFacts
      <4> QED BY <1>2, <1>4, <3>1, <3>3, <4>3, <4>6, EntryFacts
    <3> QED BY <1>4, <3>2, <3>3
  <2>2. ASSUME NEW t \in Readers, NEW l \in Levels, NEW m \in Lines,
               l < eofNext[t], EofMarker(t, l) \notin Items(regionA'), ReaderOf[m] = t
        PROVE  Entry(m) \notin Items(regionA') /\ ~AtDispatcher(Entry(m))
    <3>1. t # r
      BY <1>2, <2>2, LevelFacts
    <3>2. Entry(m) \notin Items(regionA) /\ ~AtDispatcher(Entry(m))
      BY <1>5, <2>2 DEF EofInv, OrderInv
    <3> QED BY <1>2, <1>6, <2>2, <3>1, <3>2
  <2> QED BY <2>1, <2>2 DEF OrderInv
<1> QED BY <1>7, <1>8, <1>10, <1>11, <1>12 DEF EofInv

\* A reader without lines pushes its next EOF marker.
LEMMA PushMarkerStep ==
    ASSUME PipelineTypes, EofInv, NEW r \in Readers, NEW k \in Levels, k = eofNext[r],
           unread[r] = {}, regionA' = Append(regionA, EofMarker(r, k)),
           unread' = unread, eofNext' = [eofNext EXCEPT ![r] = k + 1],
           UNCHANGED <<eofSeen, eofPosted>>,
           \A item : AtDispatcher(item)' <=> AtDispatcher(item)
    PROVE  EofInv'
<1>1. /\ regionA \in Seq(Entries \cup EofMarkers) /\ eofNext \in [Readers -> 0..NumLevels] /\ k \in Nat
  BY LevelFacts DEF PipelineTypes, TypeOK
<1>2. /\ EofMarker(r, k) \in EofMarkers /\ EofMarker(r, k) \notin Items(regionA)
      /\ ~AtDispatcher(EofMarker(r, k))
  BY <1>1, MarkerFacts DEF EofInv, MarkersInv
<1>3. /\ Len(regionA) \in Nat /\ Len(regionA') = Len(regionA) + 1
      /\ \A i \in 1..Len(regionA) : regionA'[i] = regionA[i]
      /\ regionA'[Len(regionA) + 1] = EofMarker(r, k)
      /\ Items(regionA') = Items(regionA) \cup {EofMarker(r, k)}
      /\ NoRepeat(regionA')
  BY <1>1, <1>2, AppendFacts DEF EofInv, MarkersInv
<1>4. \A t \in Readers, l \in Levels :
         EofMarker(t, l) \in Items(regionA') <=> EofMarker(t, l) \in Items(regionA) \/ (t = r /\ l = k)
  BY <1>3, ItemsDiffer
<1>5. \A m \in Lines : Entry(m) \in Items(regionA') <=> Entry(m) \in Items(regionA)
  BY <1>3, ItemsDiffer
<1>6. /\ \A t \in Readers, l \in Levels : l < eofNext'[t] <=> l < eofNext[t] \/ (t = r /\ l = k)
      /\ eofNext'[r] = k + 1 /\ \A t \in Readers : t # r => eofNext'[t] = eofNext[t]
  <2>1. eofNext'[r] = k + 1 /\ \A t \in Readers : t # r => eofNext'[t] = eofNext[t]
    BY <1>1
  <2>2. \A l \in Levels : l < k + 1 <=> l < k \/ l = k
    BY <1>1, LevelFacts
  <2> QED BY <2>1, <2>2
<1>7. ReadersInv'
  BY <1>6 DEF EofInv, ReadersInv
<1>8. MarkersInv'
  BY <1>2, <1>3, <1>4, <1>6 DEF EofInv, MarkersInv
<1>9. \A l \in Levels : CountedReaders(l)' = CountedReaders(l)
  BY <1>1, <1>4, <1>6 DEF CountedReaders
<1>10. CountInv'
  BY <1>9 DEF EofInv, CountInv
<1>11. UpstreamInv'
  BY <1>5 DEF EofInv, UpstreamInv
<1>12. OrderInv'
  <2>1. ASSUME NEW i \in 1..Len(regionA'), NEW j \in 1..Len(regionA'), i < j,
               regionA'[i].is_eof, ~regionA'[j].is_eof
        PROVE  regionA'[i].reader_id # regionA'[j].reader_id
    <3>1. j # Len(regionA) + 1
      BY <1>3, <2>1, MarkerFacts
    <3>2. i \in 1..Len(regionA) /\ j \in 1..Len(regionA)
      BY <1>3, <2>1, <3>1
    <3> QED BY <1>3, <2>1, <3>2 DEF EofInv, OrderInv
  <2>2. ASSUME NEW t \in Readers, NEW l \in Levels, NEW m \in Lines,
               l < eofNext'[t], EofMarker(t, l) \notin Items(regionA'), ReaderOf[m] = t
        PROVE  Entry(m) \notin Items(regionA') /\ ~AtDispatcher(Entry(m))
    <3>1. l < eofNext[t] /\ EofMarker(t, l) \notin Items(regionA)
      BY <1>4, <1>6, <2>2
    <3> QED BY <1>5, <2>2, <3>1 DEF EofInv, OrderInv
  <2> QED BY <2>1, <2>2 DEF OrderInv
<1> QED BY <1>7, <1>8, <1>10, <1>11, <1>12 DEF EofInv

\* push_region_a.
LEMMA PushAStep ==
    ASSUME PipelineTypes, EofInv, NEW r \in Readers, PushA(r)
    PROVE  EofInv'
<1>1. PICK item \in NextItems(r) :
         /\ regionA' = Append(regionA, item)
         /\ unread' = [unread EXCEPT ![r] = @ \ {item.line}]
         /\ eofNext' = IF item.is_eof THEN [eofNext EXCEPT ![r] = @ + 1] ELSE eofNext
  BY DEF PushA
<1>2. UNCHANGED <<eofSeen, eofPosted>> /\ \A i : AtDispatcher(i)' <=> AtDispatcher(i)
  BY DEF PushA, AtDispatcher, regionBVars
<1>3. /\ eofNext \in [Readers -> 0..NumLevels] /\ unread \in [Readers -> SUBSET Lines]
      /\ eofNext[r] # NumLevels
  BY DEF PipelineTypes, TypeOK, PushA, ReaderReady, ReaderFinished
<1>4. CASE unread[r] # {}
  <2>1. PICK n \in unread[r] : item = Entry(n)
    BY <1>1, <1>4 DEF NextItems
  <2>2. item.line = n /\ ~item.is_eof
    BY <1>3, <2>1, EntryFacts
  <2>3. regionA' = Append(regionA, Entry(n)) /\ unread' = [unread EXCEPT ![r] = @ \ {n}] /\ eofNext' = eofNext
    BY <1>1, <2>1, <2>2
  <2> QED BY <1>2, <2>3, PushEntryStep
<1>5. CASE unread[r] = {}
  <2>1. PICK k \in Levels : k = eofNext[r]
    BY <1>3, LevelFacts
  <2>2. item = EofMarker(r, k) /\ item.is_eof
    BY <1>1, <1>5, <2>1, MarkerFacts DEF NextItems
  <2>3. unread' = unread
    BY <1>1, <1>3, <1>5
  <2>4. eofNext' = [eofNext EXCEPT ![r] = k + 1] /\ regionA' = Append(regionA, EofMarker(r, k))
    BY <1>1, <2>1, <2>2
  <2> QED BY <1>2, <1>5, <2>1, <2>3, <2>4, PushMarkerStep
<1> QED BY <1>4, <1>5

\* pop_region_a.
LEMMA PopAStep ==
    ASSUME PipelineTypes, EofInv, PopA
    PROVE  EofInv'
<1>1. /\ regionA \in Seq(Entries \cup EofMarkers) /\ regionA # <<>>
      /\ UNCHANGED <<unread, eofNext, eofSeen, eofPosted>>
  BY DEF PipelineTypes, TypeOK, PopA, readerVars, regionBVars
<1>2. PICK item \in Entries \cup EofMarkers : item = Head(regionA)
  BY <1>1, TailFacts
<1>3. \A i : ~AtDispatcher(i) /\ (AtDispatcher(i)' <=> i = item)
  BY <1>2 DEF PopA, AtDispatcher
<1>4. /\ item = regionA[1] /\ Len(regionA) \in Nat \ {0} /\ Len(regionA') = Len(regionA) - 1
      /\ \A i \in 1..Len(regionA') : i + 1 \in 1..Len(regionA) /\ regionA'[i] = regionA[i + 1]
      /\ Items(regionA) = Items(regionA') \cup {item}
      /\ NoRepeat(regionA') /\ item \notin Items(regionA')
  BY <1>1, <1>2, TailFacts DEF PopA, EofInv, MarkersInv
<1>5. ReadersInv'
  BY <1>1 DEF EofInv, ReadersInv
<1>6. MarkersInv'
  <2>1. ASSUME NEW r \in Readers, NEW l \in Levels
        PROVE  /\ EofMarker(r, l) \in Items(regionA') => l < eofNext[r] /\ EofMarker(r, l) # item
               /\ EofMarker(r, l) = item => l < eofNext[r]
    BY <1>4 DEF EofInv, MarkersInv
  <2> QED BY <1>1, <1>3, <1>4, <2>1 DEF MarkersInv
<1>7. \A l \in Levels : CountedReaders(l)' = CountedReaders(l)
  BY <1>1, <1>3, <1>4 DEF CountedReaders
<1>8. CountInv'
  BY <1>1, <1>7 DEF EofInv, CountInv
<1>9. UpstreamInv'
  BY <1>1, <1>3, <1>4 DEF EofInv, UpstreamInv
<1>10. OrderInv'
  <2>1. ASSUME NEW i \in 1..Len(regionA'), NEW j \in 1..Len(regionA'), i < j,
               regionA'[i].is_eof, ~regionA'[j].is_eof
        PROVE  regionA'[i].reader_id # regionA'[j].reader_id
    <3>1. i + 1 \in 1..Len(regionA) /\ j + 1 \in 1..Len(regionA) /\ i + 1 < j + 1
      BY <1>4, <2>1
    <3> QED BY <1>4, <2>1, <3>1 DEF EofInv, OrderInv
  <2>2. ASSUME NEW r \in Readers, NEW l \in Levels, NEW n \in Lines,
               l < eofNext[r], EofMarker(r, l) \notin Items(regionA'), ReaderOf[n] = r
        PROVE  Entry(n) \notin Items(regionA') /\ Entry(n) # item
    <3>1. CASE EofMarker(r, l) \notin Items(regionA)
      BY <1>4, <2>2, <3>1 DEF EofInv, OrderInv
    <3>2. CASE EofMarker(r, l) = item
      <4>1. Entry(n) # item
        BY <3>2, ItemsDiffer
      <4>2. ASSUME NEW j \in 1..Len(regionA'), regionA'[j] = Entry(n) PROVE FALSE
        <5>1. j + 1 \in 1..Len(regionA) /\ 1 \in 1..Len(regionA) /\ 1 < j + 1 /\ regionA[j + 1] = Entry(n)
          BY <1>4, <4>2
        <5>2. regionA[1].is_eof /\ regionA[1].reader_id = r /\ ~regionA[j + 1].is_eof /\ regionA[j + 1].reader_id = r
          BY <1>4, <2>2, <3>2, <5>1, MarkerFacts, EntryFacts
        <5> QED BY <5>1, <5>2 DEF EofInv, OrderInv
      <4> QED BY <4>1, <4>2 DEF Items
    <3> QED BY <1>4, <2>2, <3>1, <3>2
  <2> QED BY <1>1, <1>3, <2>1, <2>2 DEF OrderInv
<1> QED BY <1>5, <1>6, <1>8, <1>9, <1>10 DEF EofInv

\* The dispatcher counts an EOF marker.
LEMMA HandleEofStep ==
    ASSUME PipelineTypes, EofInv, HandleEof
    PROVE  EofInv'
<1>0. held \in EofMarkers /\ dpc = "eof"
  BY DEF PipelineTypes, TypeOK, HandleEof
<1>1. PICK r \in Readers, l \in Levels : held = EofMarker(r, l) /\ held.level_index = l
  BY <1>0, MarkerFacts
<1>2. /\ \A i : AtDispatcher(i) <=> i = EofMarker(r, l)
      /\ \A i : ~AtDispatcher(i)'
  BY <1>0, <1>1 DEF HandleEof, AtDispatcher
<1>3. UNCHANGED <<unread, eofNext, regionA>>
  BY DEF HandleEof, readerVars, regionAVars
<1>4. /\ eofSeen' = [eofSeen EXCEPT ![l] = eofSeen[l] + 1]
      /\ \A m \in Levels : m # l => eofPosted'[m] = eofPosted[m]
      /\ eofPosted'[l] => eofPosted[l] \/ eofSeen[l] + 1 = Cardinality(Readers)
  BY <1>1 DEF HandleEof, LastEofOfLevel, PipelineTypes, TypeOK
<1>5. l < eofNext[r] /\ EofMarker(r, l) \notin Items(regionA)
  BY <1>2 DEF EofInv, MarkersInv
<1>6. /\ CountedReaders(l)' = CountedReaders(l) \cup {r} /\ r \notin CountedReaders(l)
      /\ \A m \in Levels : m # l => CountedReaders(m)' = CountedReaders(m)
  BY <1>2, <1>3, <1>5, ItemsDiffer DEF CountedReaders
<1>7. ReadersInv' /\ MarkersInv' /\ UpstreamInv' /\ OrderInv'
  BY <1>2, <1>3 DEF EofInv, ReadersInv, MarkersInv, UpstreamInv, OrderInv
<1>8. CountInv'
  <2> DEFINE C == CountedReaders(l)
             D == CountedReaders(l)'
  <2>1. C \subseteq Readers /\ D \subseteq Readers /\ IsFiniteSet(Readers)
    BY <1>6, ConstantsAssumption DEF CountedReaders
  <2>2. IsFiniteSet(C) /\ IsFiniteSet(D)
    BY <2>1, FS_Subset
  <2>3. D = C \cup {r} /\ r \notin C
    BY <1>6
  <2> HIDE DEF C, D
  <2>4. Cardinality(D) = Cardinality(C) + 1
    BY <2>2, <2>3, FS_AddElement
  <2>5. eofSeen[l] = Cardinality(C) /\ eofSeen[l] \in Nat /\ (eofPosted[l] => C = Readers)
    BY DEF C, EofInv, CountInv, PipelineTypes, TypeOK
  <2>6. eofSeen'[l] = Cardinality(D) /\ \A m \in Levels : m # l => eofSeen'[m] = eofSeen[m]
    BY <1>4, <2>4, <2>5 DEF PipelineTypes, TypeOK
  <2>7. ASSUME eofPosted'[l] PROVE D = Readers
    <3>1. CASE eofPosted[l]
      BY <2>3, <2>5, <3>1
    <3>2. CASE eofSeen[l] + 1 = Cardinality(Readers)
      <4>1. Cardinality(D) = Cardinality(Readers)
        BY <2>4, <2>5, <3>2
      <4> QED BY <2>1, <4>1, FS_Subset
    <3> QED BY <1>4, <2>7, <3>1, <3>2
  <2>8. \A m \in Levels : m # l =>
            eofSeen'[m] = Cardinality(CountedReaders(m)') /\ (eofPosted'[m] => CountedReaders(m)' = Readers)
    BY <1>4, <1>6, <2>6 DEF EofInv, CountInv
  <2> QED BY <2>6, <2>7, <2>8 DEF CountInv, D
<1> QED BY <1>7, <1>8 DEF EofInv

\* push_region_b takes an entry out of the dispatcher's hands.
LEMMA PushBStep ==
    ASSUME PipelineTypes, EofInv, PushB
    PROVE  EofInv'
<1>0. held \in Entries /\ dpc = "pushB"
  BY DEF PipelineTypes, TypeOK, PushB
<1>1. UNCHANGED <<unread, eofNext, regionA, eofSeen, eofPosted>> /\ \A i : ~AtDispatcher(i)'
  BY DEF PushB, AtDispatcher, AfterPushB, readerVars, regionAVars
<1>2. \A r \in Readers, l \in Levels : ~AtDispatcher(EofMarker(r, l))
  BY <1>0, EntryFacts, MarkerFacts DEF AtDispatcher
<1>3. \A l \in Levels : CountedReaders(l)' = CountedReaders(l)
  BY <1>1, <1>2 DEF CountedReaders
<1>4. ReadersInv' /\ CountInv'
  BY <1>1, <1>3 DEF EofInv, ReadersInv, CountInv
<1>5. MarkersInv' /\ OrderInv' /\ UpstreamInv'
  BY <1>1 DEF EofInv, MarkersInv, OrderInv, UpstreamInv
<1> QED BY <1>4, <1>5 DEF EofInv

\* What is upstream of Region B stays in order.
LEMMA EofStep ==
    ASSUME PipelineTypes, EofInv, [Next]_vars
    PROVE  EofInv'
<1> USE DEF readerVars, regionAVars, dispatcherVars, regionBVars, regionDVars,
            workerVars, resultVars, aggregatorVars
<1>1. CASE UNCHANGED vars
  <2>1. UpstreamKept
    BY <1>1 DEF vars, UpstreamKept, AtDispatcher
  <2> QED BY <2>1, UpstreamFrame
<1>2. ASSUME NEW r \in Readers, Reader(r) \/ ReaderDies(r) PROVE EofInv'
  <2>1. CASE PushA(r)
    BY <2>1, PushAStep
  <2>2. CASE PushABlocks(r) \/ ReaderDies(r)
    <3>1. UpstreamKept
      BY <2>2 DEF PushABlocks, ReaderDies, UpstreamKept, AtDispatcher
    <3> QED BY <3>1, UpstreamFrame
  <2> QED BY <1>2, <2>1, <2>2 DEF Reader
<1>3. CASE Dispatcher
  <2>1. CASE PopAWaits \/ PopATimesOut \/ CheckAllDone \/ PushBWaits \/ PushD \/ PushDWaits \/ DispatcherFinishes
    <3>1. UpstreamKept
      BY <2>1 DEF PopAWaits, PopATimesOut, CheckAllDone, PushBWaits, PushD, PushDWaits, DispatcherFinishes,
                  UpstreamKept, AtDispatcher
    <3> QED BY <3>1, UpstreamFrame
  <2> QED BY <1>3, <2>1, PopAStep, HandleEofStep, PushBStep DEF Dispatcher
<1>4. ASSUME NEW l \in Levels, (\E w \in Workers : Worker(l, w)) \/ Analyzer(l) PROVE EofInv'
  <2>1. UpstreamKept
    BY <1>4 DEF Worker, Analyzer, PopB, PopBWaits, Score, ReachBarrier, MergeTls, JoinAndRank, PublishResult,
                PostLevelReady, UpstreamKept, AtDispatcher
  <2> QED BY <2>1, UpstreamFrame
<1>5. CASE Aggregator
  <2>1. UpstreamKept
    BY <1>5 DEF Aggregator, PopD, PopDWaits, HighPriorityDone, AggregatorTimesOut, CollectWaits, SeesReady,
                TakeLevelReady, WriteText, WriteBinary, UpstreamKept, AtDispatcher
  <2> QED BY <2>1, UpstreamFrame
<1> QED BY <1>1, <1>2, <1>3, <1>4, <1>5 DEF Next, Terminated

\* Where a line upstream of Region B is.
LEMMA UpstreamLines ==
    ASSUME PipelineTypes, ReadersInv
    PROVE  \A n \in Lines : n \in Upstream <=> \/ n \in unread[ReaderOf[n]]
                                               \/ Entry(n) \in Items(regionA)
                                               \/ AtDispatcher(Entry(n))
<1> SUFFICES ASSUME NEW n \in Lines
             PROVE  n \in Upstream <=> \/ n \in unread[ReaderOf[n]]
                                       \/ Entry(n) \in Items(regionA)
                                       \/ AtDispatcher(Entry(n))
  OBVIOUS
<1>1. n \in UNION {unread[r] : r \in Readers} <=> n \in unread[ReaderOf[n]]
  BY EntryFacts DEF ReadersInv
<1>2. n \in InRegionA <=> Entry(n) \in Items(regionA)
  <2>1. ASSUME NEW i \in 1..Len(regionA), regionA[i].line = n PROVE regionA[i] = Entry(n)
    <3>1. regionA[i] \in Entries \cup EofMarkers
      BY DEF PipelineTypes, TypeOK
    <3>2. CASE regionA[i] \in Entries
      BY <2>1, <3>2, EntryFacts
    <3>3. CASE regionA[i] \in EofMarkers
      <4>1. regionA[i].line = NoLine
        BY <3>3, MarkerFacts
      <4> QED BY <2>1, <4>1, ConstantsAssumption
    <3> QED BY <3>1, <3>2, <3>3
  <2>2. Entry(n).line = n
    BY EntryFacts
  <2> QED BY <2>1, <2>2 DEF InRegionA, Items
<1>3. n \in Dispatching <=> AtDispatcher(Entry(n))
  <2>1. CASE dpc \in {"pushB", "waitB"}
    <3>1. held \in Entries
      BY <2>1 DEF PipelineTypes, TypeOK
    <3>2. held.line = n <=> held = Entry(n)
      BY <3>1, EntryFacts
    <3> QED BY <2>1, <3>2 DEF Dispatching, AtDispatcher
  <2>2. CASE dpc = "eof"
    <3>1. held \in EofMarkers
      BY <2>2 DEF PipelineTypes, TypeOK
    <3>2. held # Entry(n)
      BY <3>1, EntryFacts, MarkerFacts
    <3> QED BY <2>2, <3>2 DEF Dispatching, AtDispatcher
  <2>3. CASE dpc \notin {"eof", "pushB", "waitB"}
    BY <2>3 DEF Dispatching, AtDispatcher
  <2> QED BY <2>1, <2>2, <2>3
<1> DEFINE U == UNION {unread[r] : r \in Readers}
<1>4. Upstream = U \cup InRegionA \cup Dispatching
  BY DEF Upstream
<1> HIDE DEF U
<1>5. (n \in Upstream) <=> (n \in U \/ n \in InRegionA \/ n \in Dispatching)
  BY <1>4
<1> QED BY <1>1, <1>2, <1>3, <1>5 DEF U

\* A closed level has no line upstream.
LEMMA ClosedLevels ==
    ASSUME PipelineTypes, EofInv
    PROVE  EofClosesLevel
<1> SUFFICES ASSUME NEW l \in Levels, eofPosted[l], NEW n \in Lines, LevelOf[n] = l
             PROVE  n \notin Upstream
  BY DEF EofClosesLevel, LinesOfLevel
<1>1. ReaderOf[n] \in Readers /\ ReaderOf[n] \in CountedReaders(l)
  BY EntryFacts DEF EofInv, CountInv
<1>2. l < eofNext[ReaderOf[n]] /\ EofMarker(ReaderOf[n], l) \notin Items(regionA)
  BY <1>1 DEF CountedReaders
<1>3. unread[ReaderOf[n]] = {}
  <2>1. eofNext[ReaderOf[n]] > 0
    BY <1>1, <1>2, LevelFacts DEF PipelineTypes, TypeOK
  <2> QED BY <1>1, <2>1 DEF EofInv, ReadersInv
<1>4. Entry(n) \notin Items(regionA) /\ ~AtDispatcher(Entry(n))
  BY <1>1, <1>2 DEF EofInv, OrderInv
<1> QED BY <1>3, <1>4, UpstreamLines DEF EofInv

-----------------------------------------------------------------------------
(* Region B and its workers                                                *)

\* What workers do with Region B: nobody sleeps past EOF or while all who could
\* take an entry sleep.
QueueInv == WorkersInv /\ NoStrandedEntries

\* A step that changes neither Region B nor where workers are.
QueuesKept == UNCHANGED <<regionB, eofPosted, notEmptyB, wpc>>

\* The invariant is about Region B and its workers.
LEMMA QueueFrame ==
    ASSUME QueueInv, QueuesKept
    PROVE  QueueInv'
BY DEF QueueInv, QueuesKept, WorkersInv, NoStrandedEntries, LevelDrained

\* Empty queues and idle workers.
LEMMA QueueInit == Init => QueueInv
<1> SUFFICES ASSUME Init PROVE QueueInv
  OBVIOUS
<1>1. /\ regionB = [l \in Levels |-> <<>>] /\ eofPosted = [l \in Levels |-> FALSE]
      /\ notEmptyB = [l \in Levels |-> {}] /\ wpc = [l \in Levels |-> [w \in Workers |-> "pop"]]
  BY DEF Init
<1> QED BY <1>1 DEF QueueInv, WorkersInv, NoStrandedEntries

\* The broadcast that closes a level leaves nobody asleep.
LEMMA HandleEofQueue ==
    ASSUME PipelineTypes, QueueInv, HandleEof
    PROVE  QueueInv'
<1>1. PICK k \in Levels : k = held.level_index
  <2>1. held \in EofMarkers
    BY DEF PipelineTypes, TypeOK, HandleEof
  <2> QED BY <2>1, MarkerFacts
<1>2. regionB' = regionB /\ wpc' = wpc
  BY DEF HandleEof, workerVars
<1>3. eofPosted \in [Levels -> BOOLEAN] /\ notEmptyB \in [Levels -> SUBSET Workers]
  BY DEF PipelineTypes, TypeOK
<1>4. PICK closes \in BOOLEAN : /\ eofPosted' = [eofPosted EXCEPT ![k] = @ \/ closes]
                                /\ notEmptyB' = [notEmptyB EXCEPT ![k] = IF closes THEN {} ELSE @]
  BY <1>1 DEF HandleEof, AfterBroadcast
<1>5. ASSUME NEW l \in Levels
      PROVE  /\ eofPosted[l] => eofPosted'[l]
             /\ notEmptyB'[l] \subseteq notEmptyB[l]
             /\ eofPosted'[l] => eofPosted[l] \/ notEmptyB'[l] = {}
  BY <1>3, <1>4
<1>6. WorkersInv'
  BY <1>2, <1>5 DEF QueueInv, WorkersInv, LevelDrained
<1>7. NoStrandedEntries'
  <2> SUFFICES ASSUME NEW l \in Levels
               PROVE  /\ regionB[l] # <<>> => \E w \in Workers : /\ w \notin notEmptyB'[l]
                                                                  /\ wpc[l][w] \in {"pop", "score"}
                      /\ eofPosted'[l] => notEmptyB'[l] = {}
    BY <1>2 DEF NoStrandedEntries
  <2>1. /\ regionB[l] # <<>> => \E w \in Workers : /\ w \notin notEmptyB[l]
                                                    /\ wpc[l][w] \in {"pop", "score"}
        /\ eofPosted[l] => notEmptyB[l] = {}
    BY DEF QueueInv, NoStrandedEntries
  <2> QED BY <1>5, <2>1
<1> QED BY <1>6, <1>7 DEF QueueInv

\* An entry only goes to a level that is open, whose workers are all in their
\* loop: somebody is awake, or the signal wakes one.
LEMMA PushBQueue ==
    ASSUME PipelineTypes, EofInv, QueueInv, PushB
    PROVE  QueueInv'
<1>0. held \in Entries /\ dpc = "pushB"
  BY DEF PipelineTypes, TypeOK, PushB
<1>1. PICK k \in Levels : k = held.level_index /\ LevelOf[held.line] = k /\ held.line \in Lines
  BY <1>0, EntryFacts
<1>2. ~eofPosted[k]
  <2>1. AtDispatcher(Entry(held.line))
    BY <1>0, EntryFacts DEF AtDispatcher
  <2>2. held.line \in Upstream
    BY <1>1, <2>1, UpstreamLines DEF EofInv
  <2> QED BY <1>1, <2>2, ClosedLevels DEF EofClosesLevel, LinesOfLevel
<1>3. wpc' = wpc /\ eofPosted' = eofPosted
  BY DEF PushB, workerVars
<1>4. /\ wpc \in [Levels -> [Workers -> WorkerPoints]] /\ notEmptyB \in [Levels -> SUBSET Workers]
      /\ regionB \in [Levels -> Seq(Entries)]
  BY DEF PipelineTypes, TypeOK
<1>5. \A l \in Levels : l # k => regionB'[l] = regionB[l]
  BY <1>1, <1>4 DEF PushB
<1>6. PICK woken \in Signalled(notEmptyB[k]) : notEmptyB' = [notEmptyB EXCEPT ![k] = @ \ woken]
  BY <1>1 DEF PushB
<1>7. \A w \in Workers : wpc[k][w] \in {"pop", "score"}
  BY <1>2, <1>4 DEF QueueInv, WorkersInv, LevelDrained, WorkerPoints
<1>8. \E w \in Workers : w \notin notEmptyB'[k]
  <2>1. CASE notEmptyB[k] = {}
    BY <1>4, <1>6, <2>1, ConstantsAssumption
  <2>2. CASE notEmptyB[k] # {}
    <3>1. PICK x \in notEmptyB[k] : woken = {x}
      BY <1>6, <2>2 DEF Signalled
    <3> QED BY <1>4, <1>6, <3>1
  <2> QED BY <2>1, <2>2
<1>9. \A l \in Levels : l # k => notEmptyB'[l] = notEmptyB[l]
  BY <1>4, <1>6
<1>10. notEmptyB'[k] \subseteq notEmptyB[k]
  BY <1>4, <1>6
<1>11. WorkersInv'
  <2>1. ASSUME NEW l \in Levels
        PROVE  /\ \A w \in Workers : wpc[l][w] \in {"barrier", "exiting", "exited"} => regionB'[l] = <<>> /\ eofPosted[l]
               /\ \A w \in notEmptyB'[l] : wpc[l][w] = "pop"
    <3>1. /\ \A w \in Workers : wpc[l][w] \in {"barrier", "exiting", "exited"} => regionB[l] = <<>> /\ eofPosted[l]
          /\ \A w \in notEmptyB[l] : wpc[l][w] = "pop"
      BY DEF QueueInv, WorkersInv, LevelDrained
    <3> QED BY <1>2, <1>5, <1>9, <1>10, <3>1
  <2> QED BY <1>3, <2>1 DEF WorkersInv, LevelDrained
<1>12. NoStrandedEntries'
  <2> SUFFICES ASSUME NEW l \in Levels
               PROVE  /\ regionB'[l] # <<>> => \E w \in Workers : /\ w \notin notEmptyB'[l]
                                                                   /\ wpc[l][w] \in {"pop", "score"}
                      /\ eofPosted[l] => notEmptyB'[l] = {}
    BY <1>3 DEF NoStrandedEntries
  <2>1. CASE l = k
    BY <1>2, <1>7, <1>8, <2>1
  <2>2. CASE l # k
    BY <1>5, <1>9, <2>2 DEF QueueInv, NoStrandedEntries
  <2> QED BY <2>1, <2>2
<1> QED BY <1>11, <1>12 DEF QueueInv

\* A worker takes an entry and stays awake.
LEMMA PopBQueue ==
    ASSUME PipelineTypes, QueueInv, NEW k \in Levels, NEW v \in Workers, PopB(k, v)
    PROVE  QueueInv'
<1>1. /\ wpc \in [Levels -> [Workers -> WorkerPoints]] /\ regionB \in [Levels -> Seq(Entries)]
  BY DEF PipelineTypes, TypeOK
<1>2. /\ eofPosted' = eofPosted /\ notEmptyB' = notEmptyB /\ v \notin notEmptyB[k] /\ regionB[k] # <<>>
      /\ wpc' = [wpc EXCEPT ![k][v] = "score"] /\ \A l \in Levels : l # k => regionB'[l] = regionB[l]
  BY <1>1 DEF PopB
<1>3. /\ wpc'[k][v] = "score" /\ \A w \in Workers : w # v => wpc'[k][w] = wpc[k][w]
      /\ \A l \in Levels : l # k => wpc'[l] = wpc[l]
  BY <1>1, <1>2
<1>4. \A w \in Workers : wpc[k][w] \notin {"barrier", "exiting", "exited"}
  BY <1>2 DEF QueueInv, WorkersInv, LevelDrained
<1>5. WorkersInv'
  BY <1>2, <1>3, <1>4 DEF QueueInv, WorkersInv, LevelDrained
<1>6. NoStrandedEntries'
  <2> SUFFICES ASSUME NEW l \in Levels
               PROVE  /\ regionB'[l] # <<>> => \E w \in Workers : /\ w \notin notEmptyB[l]
                                                                   /\ wpc'[l][w] \in {"pop", "score"}
                      /\ eofPosted[l] => notEmptyB[l] = {}
    BY <1>2 DEF NoStrandedEntries
  <2>1. CASE l = k
    BY <1>2, <1>3, <2>1 DEF QueueInv, NoStrandedEntries
  <2>2. CASE l # k
    BY <1>2, <1>3, <2>2 DEF QueueInv, NoStrandedEntries
  <2> QED BY <2>1, <2>2
<1> QED BY <1>5, <1>6 DEF QueueInv

\* A worker goes to sleep only at an empty, open queue.
LEMMA PopBWaitsQueue ==
    ASSUME PipelineTypes, QueueInv, NEW k \in Levels, NEW v \in Workers, PopBWaits(k, v)
    PROVE  QueueInv'
<1>1. notEmptyB \in [Levels -> SUBSET Workers]
  BY DEF PipelineTypes, TypeOK
<1>2. /\ eofPosted' = eofPosted /\ regionB' = regionB /\ wpc' = wpc /\ wpc[k][v] = "pop"
      /\ regionB[k] = <<>> /\ ~eofPosted[k] /\ notEmptyB' = [notEmptyB EXCEPT ![k] = @ \cup {v}]
  BY DEF PopBWaits, workerVars
<1>3. notEmptyB'[k] = notEmptyB[k] \cup {v} /\ \A l \in Levels : l # k => notEmptyB'[l] = notEmptyB[l]
  BY <1>1, <1>2
<1>4. WorkersInv'
  BY <1>2, <1>3 DEF QueueInv, WorkersInv, LevelDrained
<1>5. NoStrandedEntries'
  <2> SUFFICES ASSUME NEW l \in Levels
               PROVE  /\ regionB[l] # <<>> => \E w \in Workers : /\ w \notin notEmptyB'[l]
                                                                  /\ wpc[l][w] \in {"pop", "score"}
                      /\ eofPosted[l] => notEmptyB'[l] = {}
    BY <1>2 DEF NoStrandedEntries
  <2>1. CASE l = k
    BY <1>2, <2>1
  <2>2. CASE l # k
    BY <1>3, <2>2 DEF QueueInv, NoStrandedEntries
  <2> QED BY <2>1, <2>2
<1> QED BY <1>4, <1>5 DEF QueueInv

\* A worker that changes its place without touching the queue.
WorkerMoves(k) ==
    /\ UNCHANGED <<regionB, eofPosted, notEmptyB>>
    /\ \A l \in Levels : l # k => wpc'[l] = wpc[l]
    /\ \A w \in Workers :
         \/ wpc'[k][w] = wpc[k][w]
         \/ wpc[k][w] = "score" /\ wpc'[k][w] = "pop"
         \/ LevelDrained(k) /\ w \notin notEmptyB[k]

\* Scoring, the barrier and the merge keep the invariant.
LEMMA WorkerMovesQueue ==
    ASSUME PipelineTypes, QueueInv, NEW k \in Levels, WorkerMoves(k)
    PROVE  QueueInv'
<1>1. /\ UNCHANGED <<regionB, eofPosted, notEmptyB>>
      /\ \A l \in Levels : l # k => wpc'[l] = wpc[l]
      /\ \A w \in Workers : \/ wpc'[k][w] = wpc[k][w]
                            \/ wpc[k][w] = "score" /\ wpc'[k][w] = "pop"
                            \/ LevelDrained(k) /\ w \notin notEmptyB[k]
  BY DEF WorkerMoves
<1>2. ASSUME NEW l \in Levels
      PROVE  /\ \A w \in Workers : wpc'[l][w] \in {"barrier", "exiting", "exited"} => LevelDrained(l)
             /\ \A w \in notEmptyB[l] : wpc'[l][w] = "pop"
  <2>1. /\ \A w \in Workers : wpc[l][w] \in {"barrier", "exiting", "exited"} => LevelDrained(l)
        /\ \A w \in notEmptyB[l] : wpc[l][w] = "pop" /\ w \in Workers
    BY DEF QueueInv, WorkersInv, PipelineTypes, TypeOK
  <2>2. CASE l # k
    BY <1>1, <2>1, <2>2
  <2>3. CASE l = k
    BY <1>1, <2>1, <2>3
  <2> QED BY <2>2, <2>3
<1>3. WorkersInv'
  BY <1>1, <1>2 DEF WorkersInv, LevelDrained
<1>4. NoStrandedEntries'
  <2> SUFFICES ASSUME NEW l \in Levels
               PROVE  /\ regionB[l] # <<>> => \E w \in Workers : /\ w \notin notEmptyB[l]
                                                                  /\ wpc'[l][w] \in {"pop", "score"}
                      /\ eofPosted[l] => notEmptyB[l] = {}
    BY <1>1 DEF NoStrandedEntries
  <2>1. CASE l = k
    <3>1. regionB[k] # <<>> => ~LevelDrained(k)
      BY DEF LevelDrained
    <3> QED BY <1>1, <2>1, <3>1 DEF QueueInv, NoStrandedEntries
  <2>2. CASE l # k
    BY <1>1, <2>2 DEF QueueInv, NoStrandedEntries
  <2> QED BY <2>1, <2>2
<1> QED BY <1>3, <1>4 DEF QueueInv

\* The invariant of Region B is kept by every step.
LEMMA QueueStep ==
    ASSUME PipelineTypes, EofInv, QueueInv, [Next]_vars
    PROVE  QueueInv'
<1> USE DEF readerVars, regionAVars, dispatcherVars, regionBVars, regionDVars,
            workerVars, resultVars, aggregatorVars
<1>1. CASE UNCHANGED vars
  <2>1. QueuesKept
    BY <1>1 DEF vars, QueuesKept
  <2> QED BY <2>1, QueueFrame
<1>2. ASSUME NEW r \in Readers, Reader(r) \/ ReaderDies(r) PROVE QueueInv'
  <2>1. QueuesKept
    BY <1>2 DEF Reader, PushA, PushABlocks, ReaderDies, QueuesKept
  <2> QED BY <2>1, QueueFrame
<1>3. CASE Dispatcher
  <2>1. CASE PopA \/ PopAWaits \/ PopATimesOut \/ CheckAllDone \/ PushBWaits \/ PushD \/ PushDWaits \/ DispatcherFinishes
    <3>1. QueuesKept
      BY <2>1 DEF PopA, PopAWaits, PopATimesOut, CheckAllDone, PushBWaits, PushD, PushDWaits, DispatcherFinishes,
                  QueuesKept
    <3> QED BY <3>1, QueueFrame
  <2> QED BY <1>3, <2>1, HandleEofQueue, PushBQueue DEF Dispatcher
<1>4. ASSUME NEW k \in Levels, NEW v \in Workers, Worker(k, v) PROVE QueueInv'
  <2>0. wpc \in [Levels -> [Workers -> WorkerPoints]]
    BY DEF PipelineTypes, TypeOK
  <2>1. CASE Score(k, v)
    <3>1. wpc[k][v] = "score" /\ wpc' = [wpc EXCEPT ![k][v] = "pop"] /\ UNCHANGED <<regionB, eofPosted, notEmptyB>>
      BY <2>1 DEF Score
    <3>2. WorkerMoves(k)
      BY <2>0, <3>1 DEF WorkerMoves
    <3> QED BY <3>2, WorkerMovesQueue
  <2>2. CASE MergeTls(k, v)
    <3>1. wpc[k][v] = "exiting" /\ wpc' = [wpc EXCEPT ![k][v] = "exited"] /\ UNCHANGED <<regionB, eofPosted, notEmptyB>>
      BY <2>2 DEF MergeTls
    <3>2. LevelDrained(k) /\ v \notin notEmptyB[k]
      BY <3>1 DEF QueueInv, WorkersInv
    <3>3. WorkerMoves(k)
      BY <2>0, <3>1, <3>2 DEF WorkerMoves
    <3> QED BY <3>3, WorkerMovesQueue
  <2>3. CASE ReachBarrier(k, v)
    <3>1. LevelDrained(k) /\ UNCHANGED <<regionB, eofPosted, notEmptyB>> /\ \A l \in Levels : l # k => wpc'[l] = wpc[l]
      BY <2>0, <2>3 DEF ReachBarrier
    <3>2. notEmptyB[k] = {}
      BY <3>1 DEF QueueInv, NoStrandedEntries, LevelDrained
    <3>3. WorkerMoves(k)
      BY <3>1, <3>2 DEF WorkerMoves
    <3> QED BY <3>3, WorkerMovesQueue
  <2> QED BY <1>4, <2>1, <2>2, <2>3, PopBQueue, PopBWaitsQueue DEF Worker
<1>5. ASSUME NEW k \in Levels, Analyzer(k) PROVE QueueInv'
  <2>1. QueuesKept
    BY <1>5 DEF Analyzer, JoinAndRank, PublishResult, PostLevelReady, QueuesKept
  <2> QED BY <2>1, QueueFrame
<1>6. CASE Aggregator
  <2>1. QueuesKept
    BY <1>6 DEF Aggregator, PopD, PopDWaits, HighPriorityDone, AggregatorTimesOut, CollectWaits, SeesReady,
                TakeLevelReady, WriteText, WriteBinary, QueuesKept
  <2> QED BY <2>1, QueueFrame
<1> QED BY <1>1, <1>2, <1>3, <1>4, <1>5, <1>6 DEF Next, Terminated

-----------------------------------------------------------------------------
(* Region C                                                                *)

\* An analyzer goes on after all its workers have exited, and raises ready
\* after that.
AnalyzerInv ==
    \A l \in Levels : /\ analyzer[l] # "join" => WorkersJoined(l)
                      /\ results[l].ready <=> analyzer[l] \in {"post", "exited"}

\* The workers of a level that have merged their totals.
Merged(l) == {w \in Workers : wpc[l][w] = "exited"}

EntriesOf(l) == [w \in Workers |-> tls[l][w].entries]
ScoresOf(l)  == [w \in Workers |-> tls[l][w].score]

\* A level's result is the sum of the totals merged so far.
MergeInv ==
    \A l \in Levels :
        /\ results[l].entries = Total(EntriesOf(l), Merged(l))
        /\ results[l].score = Total(ScoresOf(l), Merged(l))
        /\ \A w \in Workers : results[l].perThread[w] = IF w \in Merged(l) THEN tls[l][w].score ELSE 0

\* What the last worker to merge and its analyzer change in Region C.
LEMMA MergeTlsEffect ==
    ASSUME PipelineTypes, NEW k \in Levels, NEW v \in Workers, MergeTls(k, v)
    PROVE  /\ results'[k].entries = results[k].entries + tls[k][v].entries
           /\ results'[k].score = results[k].score + tls[k][v].score
           /\ results'[k].perThread[v] = tls[k][v].score
           /\ \A w \in Workers : w # v => results'[k].perThread[w] = results[k].perThread[w]
           /\ results'[k].ready = results[k].ready
           /\ \A l \in Levels : l # k => results'[l] = results[l]
<1>1. PICK T : results \in [Levels -> ResultsOver(T)]
  BY DEF PipelineTypes
<1>2. results[k] \in ResultsOver(T)
  BY <1>1
<1>3. results' = [results EXCEPT ![k].entries = @ + tls[k][v].entries,
                                 ![k].score = @ + tls[k][v].score,
                                 ![k].perThread[v] = tls[k][v].score]
  BY DEF MergeTls
<1>4. PICK e, s, p : e = results[k].entries + tls[k][v].entries /\ s = results[k].score + tls[k][v].score
                     /\ p = tls[k][v].score
  OBVIOUS
<1>5. results' = [results EXCEPT ![k].entries = e, ![k].score = s, ![k].perThread[v] = p]
  BY <1>1, <1>2, <1>3, <1>4 DEF ResultsOver
<1> QED BY <1>1, <1>2, <1>4, <1>5 DEF ResultsOver

\* A step that leaves Region C and its writers alone.
ResultsKept == UNCHANGED <<results, analyzer, wpc, tls>>

\* The invariants are about Region C and its writers.
LEMMA ResultsFrame ==
    ASSUME AnalyzerInv, MergeInv, ResultsKept
    PROVE  AnalyzerInv' /\ MergeInv'
<1>1. \A l \in Levels : /\ Merged(l)' = Merged(l) /\ EntriesOf(l)' = EntriesOf(l) /\ ScoresOf(l)' = ScoresOf(l)
                        /\ WorkersJoined(l)' = WorkersJoined(l)
  BY DEF ResultsKept, WorkersJoined, Merged, EntriesOf, ScoresOf
<1>2. AnalyzerInv'
  BY <1>1 DEF ResultsKept, AnalyzerInv
<1>3. MergeInv'
  BY <1>1 DEF ResultsKept, MergeInv
<1> QED BY <1>2, <1>3

\* Nothing merged, nothing published.
LEMMA ResultsInit == Init => AnalyzerInv /\ MergeInv
<1> SUFFICES ASSUME Init PROVE AnalyzerInv /\ MergeInv
  OBVIOUS
<1>1. /\ analyzer = [l \in Levels |-> "join"] /\ wpc = [l \in Levels |-> [w \in Workers |-> "pop"]]
      /\ \A l \in Levels : /\ results[l].entries = 0 /\ results[l].score = 0 /\ results[l].ready = FALSE
                           /\ results[l].perThread = [w \in Workers |-> 0]
  BY DEF Init
<1>2. \A l \in Levels : Merged(l) = {}
  BY <1>1 DEF Merged
<1> QED BY <1>1, <1>2, TotalOfNone DEF AnalyzerInv, MergeInv

\* A worker that has not merged yet moves or scores.
LEMMA UnmergedStep ==
    ASSUME PipelineTypes, AnalyzerInv, MergeInv, NEW k \in Levels, UNCHANGED <<results, analyzer>>,
           \A l \in Levels, w \in Workers : l # k => wpc'[l] = wpc[l] /\ tls'[l] = tls[l],
           \A w \in Workers : wpc'[k][w] = wpc[k][w] \/ (wpc[k][w] # "exited" /\ wpc'[k][w] # "exited"),
           \A w \in Workers : tls'[k][w] = tls[k][w] \/ wpc[k][w] # "exited",
           \E w \in Workers : wpc[k][w] # "exited"
    PROVE  AnalyzerInv' /\ MergeInv'
<1>1. \A l \in Levels : Merged(l)' = Merged(l)
  BY DEF Merged
<1>2. \A l \in Levels : WorkersJoined(l) => WorkersJoined(l)'
  BY DEF WorkersJoined
<1>3. AnalyzerInv'
  BY <1>2 DEF AnalyzerInv
<1>4. ASSUME NEW l \in Levels
      PROVE  /\ results'[l].entries = Total(EntriesOf(l)', Merged(l)')
             /\ results'[l].score = Total(ScoresOf(l)', Merged(l)')
             /\ \A w \in Workers : results'[l].perThread[w] = IF w \in Merged(l)' THEN tls'[l][w].score ELSE 0
  <2>1. \A w \in Merged(l) : w \in Workers /\ tls'[l][w] = tls[l][w]
    BY DEF Merged
  <2>2. \A w \in Merged(l) : EntriesOf(l)'[w] = EntriesOf(l)[w] /\ ScoresOf(l)'[w] = ScoresOf(l)[w]
    BY <2>1 DEF EntriesOf, ScoresOf
  <2>3. PICK e, e2, s, s2 : e = EntriesOf(l) /\ e2 = EntriesOf(l)' /\ s = ScoresOf(l) /\ s2 = ScoresOf(l)'
    OBVIOUS
  <2>4. PICK M : M = Merged(l)
    OBVIOUS
  <2>5. Total(e2, M) = Total(e, M) /\ Total(s2, M) = Total(s, M)
    BY <2>2, <2>3, <2>4, TotalOfEqual
  <2>6. /\ results[l].entries = Total(e, M) /\ results[l].score = Total(s, M)
        /\ \A w \in Workers : results[l].perThread[w] = IF w \in M THEN tls[l][w].score ELSE 0
    BY <2>3, <2>4 DEF MergeInv
  <2> QED BY <1>1, <2>1, <2>3, <2>4, <2>5, <2>6
<1>5. MergeInv'
  BY <1>4 DEF MergeInv
<1> QED BY <1>3, <1>5

\* tls_destructor adds one worker's totals.
LEMMA MergeTlsStep ==
    ASSUME PipelineTypes, AnalyzerInv, MergeInv, NEW k \in Levels, NEW v \in Workers, MergeTls(k, v)
    PROVE  AnalyzerInv' /\ MergeInv'
<1>1. /\ wpc \in [Levels -> [Workers -> WorkerPoints]]
      /\ tls \in [Levels -> [Workers -> [entries : Nat, score : Nat]]]
  BY DEF PipelineTypes, TypeOK
<1>2. /\ wpc[k][v] = "exiting" /\ wpc' = [wpc EXCEPT ![k][v] = "exited"]
      /\ UNCHANGED <<tls, analyzer>>
  BY DEF MergeTls
<1>3. /\ Merged(k)' = Merged(k) \cup {v} /\ v \notin Merged(k) /\ Merged(k) \subseteq Workers
      /\ \A l \in Levels : l # k => Merged(l)' = Merged(l) /\ (WorkersJoined(l) => WorkersJoined(l)')
  BY <1>1, <1>2 DEF Merged, WorkersJoined
<1>4. analyzer[k] = "join" /\ ~WorkersJoined(k)
  BY <1>2 DEF AnalyzerInv, WorkersJoined
<1>5. AnalyzerInv'
  <2>1. \A l \in Levels : results'[l].ready = results[l].ready
    BY MergeTlsEffect
  <2> QED BY <1>2, <1>3, <1>4, <2>1 DEF AnalyzerInv
<1>6. /\ results'[k].entries = Total(EntriesOf(k)', Merged(k)')
      /\ results'[k].score = Total(ScoresOf(k)', Merged(k)')
  <2> DEFINE e == EntriesOf(k)
             s == ScoresOf(k)
             M == Merged(k)
  <2>1. /\ e = EntriesOf(k)' /\ s = ScoresOf(k)'
        /\ \A w \in Workers : e[w] \in Nat /\ s[w] \in Nat
        /\ e[v] = tls[k][v].entries /\ s[v] = tls[k][v].score
    BY <1>1, <1>2 DEF EntriesOf, ScoresOf
  <2>2. results[k].entries = Total(e, M) /\ results[k].score = Total(s, M)
    BY DEF MergeInv
  <2>3. IsFiniteSet(M) /\ v \notin M /\ M \subseteq Workers /\ Merged(k)' = M \cup {v}
    BY <1>3, ConstantsAssumption, FS_Subset
  <2> HIDE DEF e, s, M
  <2>4. /\ \A y \in M \cup {v} : e[y] \in Nat
        /\ \A y \in M \cup {v} : s[y] \in Nat
    BY <2>1, <2>3
  <2>5. Total(e, M \cup {v}) = Total(e, M) + e[v] /\ Total(s, M \cup {v}) = Total(s, M) + s[v]
    BY <2>3, <2>4, TotalAdds
  <2>6. /\ results'[k].entries = results[k].entries + tls[k][v].entries
        /\ results'[k].score = results[k].score + tls[k][v].score
    BY MergeTlsEffect
  <2> QED BY <2>1, <2>2, <2>3, <2>5, <2>6
<1>7. \A w \in Workers : results'[k].perThread[w] = IF w \in Merged(k)' THEN tls'[k][w].score ELSE 0
  BY <1>2, <1>3, MergeTlsEffect DEF MergeInv
<1>8. ASSUME NEW l \in Levels, l # k
      PROVE  /\ results'[l].entries = Total(EntriesOf(l)', Merged(l)')
             /\ results'[l].score = Total(ScoresOf(l)', Merged(l)')
             /\ \A w \in Workers : results'[l].perThread[w] = IF w \in Merged(l)' THEN tls'[l][w].score ELSE 0
  <2>1. results'[l] = results[l]
    BY <1>8, MergeTlsEffect
  <2>2. EntriesOf(l)' = EntriesOf(l) /\ ScoresOf(l)' = ScoresOf(l)
    BY <1>2 DEF EntriesOf, ScoresOf
  <2> QED BY <1>2, <1>3, <1>8, <2>1, <2>2 DEF MergeInv
<1>9. MergeInv'
  BY <1>6, <1>7, <1>8 DEF MergeInv
<1> QED BY <1>5, <1>9

\* compute_top3 and the ready flag leave the totals alone.
LEMMA AnalyzerStep ==
    ASSUME PipelineTypes, AnalyzerInv, MergeInv, NEW k \in Levels, Analyzer(k)
    PROVE  AnalyzerInv' /\ MergeInv'
<1>1. PICK T : results \in [Levels -> ResultsOver(T)]
  BY DEF PipelineTypes
<1>2. analyzer \in [Levels -> {"join", "publish", "post", "exited"}] /\ results[k] \in ResultsOver(T)
  BY <1>1 DEF PipelineTypes, TypeOK
<1>3. UNCHANGED <<wpc, tls>>
  BY DEF Analyzer, JoinAndRank, PublishResult, PostLevelReady, workerVars
<1>4. /\ analyzer[k] # "join" \/ WorkersJoined(k)
      /\ \A l \in Levels : l # k => analyzer'[l] = analyzer[l] /\ results'[l] = results[l]
      /\ results'[k].entries = results[k].entries /\ results'[k].score = results[k].score
      /\ results'[k].perThread = results[k].perThread
      /\ results'[k].ready <=> analyzer'[k] \in {"post", "exited"}
  <2>1. CASE JoinAndRank(k)
    <3>1. PICK top : results' = [results EXCEPT ![k].top = top]
      BY <2>1 DEF JoinAndRank
    <3>2. analyzer[k] = "join" /\ analyzer' = [analyzer EXCEPT ![k] = "publish"] /\ WorkersJoined(k)
      BY <2>1 DEF JoinAndRank
    <3>3. /\ results'[k].entries = results[k].entries /\ results'[k].score = results[k].score
          /\ results'[k].perThread = results[k].perThread /\ results'[k].ready = results[k].ready
          /\ \A l \in Levels : l # k => results'[l] = results[l]
      BY <1>1, <1>2, <3>1 DEF ResultsOver
    <3>4. ~results[k].ready
      BY <3>2 DEF AnalyzerInv
    <3> QED BY <1>2, <3>2, <3>3, <3>4
  <2>2. CASE PublishResult(k)
    <3>1. /\ results' = [results EXCEPT ![k].ready = TRUE]
          /\ analyzer[k] = "publish" /\ analyzer' = [analyzer EXCEPT ![k] = "post"]
      BY <2>2 DEF PublishResult
    <3>2. /\ results'[k].entries = results[k].entries /\ results'[k].score = results[k].score
          /\ results'[k].perThread = results[k].perThread /\ results'[k].ready
          /\ \A l \in Levels : l # k => results'[l] = results[l]
      BY <1>1, <1>2, <3>1 DEF ResultsOver
    <3> QED BY <1>2, <3>1, <3>2
  <2>3. CASE PostLevelReady(k)
    <3>1. results' = results /\ analyzer[k] = "post" /\ analyzer' = [analyzer EXCEPT ![k] = "exited"]
      BY <2>3 DEF PostLevelReady
    <3>2. results[k].ready
      BY <3>1 DEF AnalyzerInv
    <3> QED BY <1>2, <3>1, <3>2
  <2> QED BY <2>1, <2>2, <2>3 DEF Analyzer
<1>5. \A l \in Levels : /\ Merged(l)' = Merged(l) /\ EntriesOf(l)' = EntriesOf(l) /\ ScoresOf(l)' = ScoresOf(l)
                        /\ WorkersJoined(l)' = WorkersJoined(l)
  BY <1>3 DEF WorkersJoined, Merged, EntriesOf, ScoresOf
<1>6. AnalyzerInv'
  <2>1. WorkersJoined(k)
    BY <1>4 DEF AnalyzerInv
  <2> QED BY <1>4, <1>5, <2>1 DEF AnalyzerInv
<1>7. MergeInv'
  <2>1. \A l \in Levels : /\ results'[l].entries = results[l].entries /\ results'[l].score = results[l].score
                          /\ results'[l].perThread = results[l].perThread
    BY <1>4
  <2> QED BY <1>3, <1>5, <2>1 DEF MergeInv
<1> QED BY <1>6, <1>7

\* Every step keeps Region C consistent.
LEMMA ResultsStep ==
    ASSUME PipelineTypes, AnalyzerInv, MergeInv, [Next]_vars
    PROVE  AnalyzerInv' /\ MergeInv'
<1> USE DEF readerVars, regionAVars, dispatcherVars, regionBVars, regionDVars,
            workerVars, resultVars, aggregatorVars
<1>1. CASE UNCHANGED vars
  <2>1. ResultsKept
    BY <1>1 DEF vars, ResultsKept
  <2> QED BY <2>1, ResultsFrame
<1>2. ASSUME NEW r \in Readers, Reader(r) \/ ReaderDies(r) PROVE AnalyzerInv' /\ MergeInv'
  <2>1. ResultsKept
    BY <1>2 DEF Reader, PushA, PushABlocks, ReaderDies, ResultsKept
  <2> QED BY <2>1, ResultsFrame
<1>3. CASE Dispatcher
  <2>1. ResultsKept
    BY <1>3 DEF Dispatcher, PopA, PopAWaits, PopATimesOut, CheckAllDone, PushBWaits, PushD, PushDWaits,
                DispatcherFinishes, HandleEof, PushB, ResultsKept
  <2> QED BY <2>1, ResultsFrame
<1>4. ASSUME NEW k \in Levels, NEW v \in Workers, Worker(k, v) PROVE AnalyzerInv' /\ MergeInv'
  <2>0. /\ wpc \in [Levels -> [Workers -> WorkerPoints]]
        /\ tls \in [Levels -> [Workers -> [entries : Nat, score : Nat]]]
    BY DEF PipelineTypes, TypeOK
  <2>1. CASE PopB(k, v) \/ Score(k, v)
    <3>1. PICK p \in {"pop", "score"} : wpc' = [wpc EXCEPT ![k][v] = p]
      BY <2>1 DEF PopB, Score
    <3>2. UNCHANGED <<results, analyzer>> /\ wpc[k][v] \in {"pop", "score"}
      BY <2>1 DEF PopB, Score
    <3>3. tls' = tls \/ \E t : tls' = [tls EXCEPT ![k][v] = t]
      BY <2>1 DEF PopB, Score
    <3>4. /\ \A l \in Levels, w \in Workers : l # k => wpc'[l] = wpc[l] /\ tls'[l] = tls[l]
          /\ \A w \in Workers : w # v => wpc'[k][w] = wpc[k][w] /\ tls'[k][w] = tls[k][w]
          /\ wpc'[k][v] # "exited"
      BY <2>0, <3>1, <3>3
    <3> QED BY <3>2, <3>4, UnmergedStep
  <2>2. CASE PopBWaits(k, v)
    <3>1. ResultsKept
      BY <2>2 DEF PopBWaits, ResultsKept
    <3> QED BY <3>1, ResultsFrame
  <2>3. CASE ReachBarrier(k, v)
    <3>1. UNCHANGED <<results, analyzer, tls>> /\ wpc[k][v] = "pop"
      BY <2>3 DEF ReachBarrier
    <3>2. \A l \in Levels, w \in Workers : l # k => wpc'[l] = wpc[l] /\ tls'[l] = tls[l]
      BY <2>0, <2>3 DEF ReachBarrier
    <3>3. \A w \in Workers : wpc'[k][w] = wpc[k][w] \/ (wpc[k][w] # "exited" /\ wpc'[k][w] # "exited")
      <4>1. CASE {w \in Workers \ {v} : wpc[k][w] # "barrier"} = {}
        <5>1. wpc' = [wpc EXCEPT ![k] = [w \in Workers |-> "exiting"]]
          BY <2>3, <4>1 DEF ReachBarrier
        <5> QED BY <2>0, <3>1, <4>1, <5>1
      <4>2. CASE {w \in Workers \ {v} : wpc[k][w] # "barrier"} # {}
        <5>1. wpc' = [wpc EXCEPT ![k] = [wpc[k] EXCEPT ![v] = "barrier"]]
          BY <2>3, <4>2 DEF ReachBarrier
        <5> QED BY <2>0, <3>1, <5>1
      <4> QED BY <4>1, <4>2
    <3> QED BY <3>1, <3>2, <3>3, UnmergedStep
  <2> QED BY <1>4, <2>1, <2>2, <2>3, MergeTlsStep DEF Worker
<1>5. CASE Aggregator
  <2>1. ResultsKept
    BY <1>5 DEF Aggregator, PopD, PopDWaits, HighPriorityDone, AggregatorTimesOut, CollectWaits, SeesReady,
                TakeLevelReady, WriteText, WriteBinary, ResultsKept
  <2> QED BY <2>1, ResultsFrame
<1> QED BY <1>1, <1>2, <1>3, <1>4, <1>5, AnalyzerStep DEF Next, Terminated

\* A step does not change a result that is ready.
LEMMA ReadyKept ==
    ASSUME PipelineTypes, AnalyzerInv, Next, NEW m \in Levels, results[m].ready
    PROVE  results'[m] = results[m]
<1> USE DEF readerVars, regionAVars, dispatcherVars, regionBVars, regionDVars,
            workerVars, resultVars, aggregatorVars
<1>0. analyzer[m] \in {"post", "exited"} /\ \A w \in Workers : wpc[m][w] = "exited"
  BY DEF AnalyzerInv, WorkersJoined
<1>1. CASE UNCHANGED results
  BY <1>1
<1>2. ASSUME NEW k \in Levels, NEW v \in Workers, MergeTls(k, v) PROVE results'[m] = results[m]
  <2>1. k # m
    BY <1>0, <1>2 DEF MergeTls
  <2> QED BY <1>2, <2>1, MergeTlsEffect
<1>3. ASSUME NEW k \in Levels, JoinAndRank(k) \/ PublishResult(k) PROVE results'[m] = results[m]
  <2>1. k # m
    BY <1>0, <1>3 DEF JoinAndRank, PublishResult
  <2>2. PICK T : results \in [Levels -> ResultsOver(T)]
    BY DEF PipelineTypes
  <2> QED BY <1>3, <2>1, <2>2 DEF JoinAndRank, PublishResult
<1>4. UNCHANGED results \/ (\E k \in Levels, v \in Workers : MergeTls(k, v))
      \/ (\E k \in Levels : JoinAndRank(k) \/ PublishResult(k))
  <2>1. ASSUME NEW r \in Readers, Reader(r) \/ ReaderDies(r) PROVE UNCHANGED results
    BY <2>1 DEF Reader, PushA, PushABlocks, ReaderDies
  <2>2. Dispatcher => UNCHANGED results
    BY DEF Dispatcher, PopA, PopAWaits, PopATimesOut, CheckAllDone, PushBWaits, PushD, PushDWaits,
                DispatcherFinishes, HandleEof, PushB
  <2>3. ASSUME NEW k \in Levels, NEW v \in Workers, Worker(k, v) PROVE UNCHANGED results \/ MergeTls(k, v)
    BY <2>3 DEF Worker, PopB, PopBWaits, Score, ReachBarrier
  <2>4. ASSUME NEW k \in Levels, Analyzer(k) PROVE UNCHANGED results \/ JoinAndRank(k) \/ PublishResult(k)
    BY <2>4 DEF Analyzer, PostLevelReady
  <2>5. Aggregator => UNCHANGED results
    BY DEF Aggregator, PopD, PopDWaits, HighPriorityDone, AggregatorTimesOut, CollectWaits, SeesReady,
                TakeLevelReady, WriteText, WriteBinary
  <2>6. Terminated => UNCHANGED results
    BY DEF Terminated, vars
  <2> QED BY <2>1, <2>2, <2>3, <2>4, <2>5, <2>6 DEF Next
<1> QED BY <1>1, <1>2, <1>3, <1>4

-----------------------------------------------------------------------------
(* Where lines are                                                         *)

\* The lines upstream of Region B.
Up == {n \in Lines : \/ n \in unread[ReaderOf[n]]
                     \/ Entry(n) \in Items(regionA)
                     \/ AtDispatcher(Entry(n))}

\* A line goes down from there exactly when push_region_b takes it.
LEMMA UpStep ==
    ASSUME PipelineTypes, EofInv, [Next]_vars
    PROVE  \/ PushB /\ held.line \in Up /\ Up' = Up \ {held.line}
           \/ ~PushB /\ Up' = Up
<1> USE DEF readerVars, regionAVars, dispatcherVars, regionBVars, regionDVars,
            workerVars, resultVars, aggregatorVars
<1>1. CASE PushB
  <2>1. held \in Entries /\ held.line \in Lines /\ held = Entry(held.line) /\ dpc = "pushB"
    BY <1>1, EntryFacts DEF PushB, PipelineTypes, TypeOK
  <2>2. \A n \in Lines : AtDispatcher(Entry(n)) <=> n = held.line
    BY <2>1, ItemsDiffer DEF AtDispatcher
  <2>3. UNCHANGED <<unread, regionA>> /\ \A i : ~AtDispatcher(i)'
    BY <1>1 DEF PushB, AtDispatcher, AfterPushB
  <2>4. held.line \notin unread[ReaderOf[held.line]] /\ Entry(held.line) \notin Items(regionA)
    BY <2>1, <2>2 DEF EofInv, UpstreamInv
  <2>5. Up' = Up \ {held.line} /\ held.line \in Up
    BY <2>1, <2>2, <2>3, <2>4 DEF Up
  <2> QED BY <1>1, <2>5
<1>2. ASSUME UpstreamKept PROVE Up' = Up
  BY <1>2 DEF UpstreamKept, Up
<1>3. ASSUME NEW r \in Readers, PushA(r) PROVE Up' = Up
  <2>1. PICK item \in NextItems(r) :
         /\ regionA' = Append(regionA, item)
         /\ unread' = [unread EXCEPT ![r] = @ \ {item.line}]
    BY <1>3 DEF PushA
  <2>2. \A i : AtDispatcher(i)' <=> AtDispatcher(i)
    BY <1>3 DEF PushA, AtDispatcher
  <2>3. /\ eofNext \in [Readers -> 0..NumLevels] /\ unread \in [Readers -> SUBSET Lines]
        /\ eofNext[r] # NumLevels /\ regionA \in Seq(Entries \cup EofMarkers)
    BY <1>3 DEF PipelineTypes, TypeOK, PushA, ReaderReady, ReaderFinished
  <2>4. CASE unread[r] # {}
    <3>1. PICK n \in unread[r] : item = Entry(n)
      BY <2>1, <2>4 DEF NextItems
    <3>2. n \in Lines /\ ReaderOf[n] = r /\ item.line = n /\ item \in Entries
      BY <2>3, <3>1, EntryFacts DEF EofInv, ReadersInv
    <3>3. Items(regionA') = Items(regionA) \cup {Entry(n)}
      BY <2>1, <2>3, <3>1, <3>2, AppendFacts
    <3>4. \A m \in Lines : m # n => (m \in unread'[ReaderOf[m]] <=> m \in unread[ReaderOf[m]])
      BY <2>1, <2>3, <3>2, EntryFacts
    <3>5. \A m \in Lines : m # n => (Entry(m) \in Items(regionA') <=> Entry(m) \in Items(regionA))
      BY <3>2, <3>3, ItemsDiffer
    <3>6. \A m \in Lines : m \in Up' <=> m \in Up
      BY <2>2, <3>2, <3>3, <3>4, <3>5 DEF Up
    <3> QED BY <3>6 DEF Up
  <2>5. CASE unread[r] = {}
    <3>1. PICK k \in Levels : item = EofMarker(r, k)
      BY <2>1, <2>3, <2>5, LevelFacts DEF NextItems
    <3>2. item \in EofMarkers /\ unread' = unread
      BY <2>1, <2>3, <2>5, <3>1, MarkerFacts
    <3>3. Items(regionA') = Items(regionA) \cup {EofMarker(r, k)}
      BY <2>1, <2>3, <3>1, <3>2, AppendFacts
    <3>4. \A m \in Lines : Entry(m) \in Items(regionA') <=> Entry(m) \in Items(regionA)
      BY <3>3, ItemsDiffer
    <3> QED BY <2>2, <3>2, <3>4 DEF Up
  <2> QED BY <2>4, <2>5
<1>4. ASSUME PopA PROVE Up' = Up
  <2>1. regionA \in Seq(Entries \cup EofMarkers) /\ regionA # <<>> /\ unread' = unread
    BY <1>4 DEF PipelineTypes, TypeOK, PopA
  <2>2. \A i : ~AtDispatcher(i) /\ (AtDispatcher(i)' <=> i = Head(regionA))
    BY <1>4 DEF PopA, AtDispatcher
  <2>3. Items(regionA) = Items(regionA') \cup {Head(regionA)}
    BY <1>4, <2>1, TailFacts DEF PopA
  <2> QED BY <2>1, <2>2, <2>3 DEF Up
<1>5. ASSUME HandleEof PROVE Up' = Up
  <2>1. held \in EofMarkers /\ UNCHANGED <<unread, regionA>> /\ \A i : ~AtDispatcher(i)'
    BY <1>5 DEF HandleEof, PipelineTypes, TypeOK, AtDispatcher
  <2>2. \A n \in Lines : ~AtDispatcher(Entry(n))
    BY <2>1, EntryFacts, MarkerFacts DEF AtDispatcher
  <2> QED BY <2>1, <2>2 DEF Up
<1>6. UpstreamKept \/ PushB \/ PopA \/ HandleEof \/ \E r \in Readers : PushA(r)
  <2>1. UNCHANGED vars => UpstreamKept
    BY DEF vars, UpstreamKept, AtDispatcher
  <2>2. ASSUME NEW r \in Readers, Reader(r) \/ ReaderDies(r) PROVE UpstreamKept \/ PushA(r)
    BY <2>2 DEF Reader, PushABlocks, ReaderDies, UpstreamKept, AtDispatcher
  <2>3. Dispatcher => UpstreamKept \/ PushB \/ PopA \/ HandleEof
    BY DEF Dispatcher, PopAWaits, PopATimesOut, CheckAllDone, PushBWaits, PushD, PushDWaits, DispatcherFinishes,
           UpstreamKept, AtDispatcher
  <2>4. ASSUME NEW l \in Levels, (\E w \in Workers : Worker(l, w)) \/ Analyzer(l) PROVE UpstreamKept
    BY <2>4 DEF Worker, Analyzer, PopB, PopBWaits, Score, ReachBarrier, MergeTls, JoinAndRank, PublishResult,
                PostLevelReady, UpstreamKept, AtDispatcher
  <2>5. Aggregator => UpstreamKept
    BY DEF Aggregator, PopD, PopDWaits, HighPriorityDone, AggregatorTimesOut, CollectWaits, SeesReady,
           TakeLevelReady, WriteText, WriteBinary, UpstreamKept, AtDispatcher
  <2> QED BY <2>1, <2>2, <2>3, <2>4, <2>5 DEF Next, Terminated
<1>7. CASE ~PushB
  BY <1>2, <1>3, <1>4, <1>5, <1>6, <1>7
<1> QED BY <1>1, <1>7

\* A line downstream is in one place: in Region B of its level or in the hands
\* of one of its workers.
DownstreamInv ==
    \A l \in Levels :
        /\ NoRepeat(regionB[l])
        /\ \A n \in Lines : Entry(n) \in Items(regionB[l]) => LevelOf[n] = l /\ n \notin Up
        /\ \A w \in Workers : task[l][w] # NoLine =>
              LevelOf[task[l][w]] = l /\ task[l][w] \notin Up /\ Entry(task[l][w]) \notin Items(regionB[l])
        /\ \A w, v \in Workers : task[l][w] # NoLine /\ task[l][w] = task[l][v] => w = v

\* The lines of a level that were scored: they are nowhere else.
Scored(l) ==
    {n \in Lines : /\ LevelOf[n] = l /\ n \notin Up
                   /\ Entry(n) \notin Items(regionB[l])
                   /\ \A w \in Workers : task[l][w] # n}

\* The workers' totals are those of the lines scored.
SumsInv ==
    \A l \in Levels : /\ Total(EntriesOf(l), Workers) = Cardinality(Scored(l))
                      /\ Total(ScoresOf(l), Workers) = TotalWeight(Scored(l))

\* A step that moves no line between Region B and the totals.
LinesKept == UNCHANGED <<regionB, task, tls>> /\ Up' = Up

\* The invariants are about where lines are and the totals.
LEMMA LinesFrame ==
    ASSUME DownstreamInv, SumsInv, LinesKept
    PROVE  DownstreamInv' /\ SumsInv' /\ \A l \in Levels : Scored(l)' = Scored(l)
<1>1. \A l \in Levels : /\ Scored(l)' = Scored(l) /\ EntriesOf(l)' = EntriesOf(l) /\ ScoresOf(l)' = ScoresOf(l)
  BY DEF LinesKept, Scored, EntriesOf, ScoresOf
<1>2. DownstreamInv'
  BY DEF LinesKept, DownstreamInv
<1>3. SumsInv'
  BY <1>1 DEF SumsInv, TotalWeight
<1> QED BY <1>1, <1>2, <1>3

\* No line was scored and every line is in its reader.
LEMMA LinesInit == Init => DownstreamInv /\ SumsInv
<1> SUFFICES ASSUME Init PROVE DownstreamInv /\ SumsInv
  OBVIOUS
<1>1. /\ regionB = [l \in Levels |-> <<>>] /\ task = [l \in Levels |-> [w \in Workers |-> NoLine]]
      /\ unread = [r \in Readers |-> {n \in Lines : ReaderOf[n] = r}]
      /\ tls = [l \in Levels |-> [w \in Workers |-> [entries |-> 0, score |-> 0]]]
  BY DEF Init
<1>2. DownstreamInv
  <2>1. \A l \in Levels : Len(regionB[l]) = 0 /\ Items(regionB[l]) = {} /\ NoRepeat(regionB[l])
    BY <1>1 DEF Items, NoRepeat
  <2> QED BY <1>1, <2>1 DEF DownstreamInv
<1>3. Up = Lines
  BY <1>1, EntryFacts DEF Up
<1>4. \A l \in Levels : Scored(l) = {}
  BY <1>3 DEF Scored
<1>5. ASSUME NEW l \in Levels PROVE Total(EntriesOf(l), Workers) = 0 /\ Total(ScoresOf(l), Workers) = 0
  <2>1. \A w \in Workers : EntriesOf(l)[w] = 0 /\ ScoresOf(l)[w] = 0
    BY <1>1 DEF EntriesOf, ScoresOf
  <2>2. Units(EntriesOf(l), Workers) = {} /\ Units(ScoresOf(l), Workers) = {}
    BY <2>1 DEF Units
  <2> QED BY <2>2, FS_EmptySet DEF Total
<1>6. SumsInv
  BY <1>4, <1>5, TotalOfNone, FS_EmptySet DEF SumsInv, TotalWeight
<1> QED BY <1>2, <1>6

\* push_region_b: a line goes from the dispatcher to Region B of its level.
LEMMA PushBLines ==
    ASSUME PipelineTypes, DownstreamInv, SumsInv, PushB, held.line \in Up, Up' = Up \ {held.line}
    PROVE  DownstreamInv' /\ SumsInv' /\ \A l \in Levels : Scored(l)' = Scored(l)
<1>1. PICK n \in Lines : n = held.line /\ held = Entry(n) /\ held.level_index = LevelOf[n]
  <2>1. held \in Entries
    BY DEF PushB, PipelineTypes, TypeOK
  <2> QED BY <2>1, EntryFacts
<1>2. PICK k \in Levels : k = LevelOf[n]
  BY EntryFacts
<1>3. /\ regionB \in [Levels -> Seq(Entries)] /\ regionB' = [regionB EXCEPT ![k] = Append(regionB[k], Entry(n))]
      /\ UNCHANGED <<task, tls>> /\ Up' = Up \ {n} /\ n \in Up
      /\ task \in [Levels -> [Workers -> Lines \cup {NoLine}]]
  BY <1>1, <1>2 DEF PushB, workerVars, PipelineTypes, TypeOK
<1>4. /\ \A l \in Levels : Entry(n) \notin Items(regionB[l])
      /\ \A l \in Levels, w \in Workers : task[l][w] # n
  BY <1>3, ConstantsAssumption DEF DownstreamInv
<1>5. /\ Items(regionB'[k]) = Items(regionB[k]) \cup {Entry(n)} /\ NoRepeat(regionB'[k])
      /\ \A l \in Levels : l # k => regionB'[l] = regionB[l]
  <2>1. regionB[k] \in Seq(Entries) /\ regionB'[k] = Append(regionB[k], Entry(n)) /\ Entry(n) \in Entries
        /\ NoRepeat(regionB[k])
    BY <1>3, EntryFacts DEF DownstreamInv
  <2>2. Items(regionB'[k]) = Items(regionB[k]) \cup {Entry(n)} /\ NoRepeat(regionB'[k])
    BY <1>4, <2>1, AppendFacts
  <2> QED BY <1>3, <2>2
<1>6. \A l \in Levels, m \in Lines :
         Entry(m) \in Items(regionB'[l]) <=> Entry(m) \in Items(regionB[l]) \/ (l = k /\ m = n)
  BY <1>5, ItemsDiffer
<1>7. DownstreamInv'
  <2> SUFFICES ASSUME NEW l \in Levels
               PROVE  /\ NoRepeat(regionB'[l])
                      /\ \A m \in Lines : Entry(m) \in Items(regionB'[l]) => LevelOf[m] = l /\ m \notin Up'
                      /\ \A w \in Workers : task[l][w] # NoLine =>
                            /\ LevelOf[task[l][w]] = l /\ task[l][w] \notin Up'
                            /\ Entry(task[l][w]) \notin Items(regionB'[l])
                      /\ \A w, v \in Workers : task[l][w] # NoLine /\ task[l][w] = task[l][v] => w = v
    BY <1>3 DEF DownstreamInv
  <2>1. NoRepeat(regionB'[l])
    BY <1>5 DEF DownstreamInv
  <2>2. \A m \in Lines : Entry(m) \in Items(regionB'[l]) => LevelOf[m] = l /\ m \notin Up'
    BY <1>2, <1>3, <1>6 DEF DownstreamInv
  <2>3. ASSUME NEW w \in Workers, task[l][w] # NoLine
        PROVE  LevelOf[task[l][w]] = l /\ task[l][w] \notin Up' /\ Entry(task[l][w]) \notin Items(regionB'[l])
    BY <1>3, <1>4, <1>6, <2>3 DEF DownstreamInv
  <2>4. \A w, v \in Workers : task[l][w] # NoLine /\ task[l][w] = task[l][v] => w = v
    BY DEF DownstreamInv
  <2> QED BY <2>1, <2>2, <2>3, <2>4
<1>8. \A l \in Levels : /\ Scored(l)' = Scored(l) /\ EntriesOf(l)' = EntriesOf(l) /\ ScoresOf(l)' = ScoresOf(l)
  <2> TAKE l \in Levels
  <2>1. \A m \in Lines : m \in Scored(l)' <=> m \in Scored(l)
    BY <1>2, <1>3, <1>4, <1>6 DEF Scored
  <2>2. Scored(l)' = Scored(l)
    BY <2>1 DEF Scored
  <2> QED BY <1>3, <2>2 DEF EntriesOf, ScoresOf
<1>9. SumsInv'
  BY <1>8 DEF SumsInv, TotalWeight
<1> QED BY <1>7, <1>8, <1>9

\* pop_level_entry: a line goes from Region B to a worker.
LEMMA PopBLines ==
    ASSUME PipelineTypes, DownstreamInv, SumsInv, NEW k \in Levels, NEW v \in Workers, PopB(k, v), Up' = Up
    PROVE  DownstreamInv' /\ SumsInv' /\ \A l \in Levels : Scored(l)' = Scored(l)
<1>1. /\ regionB \in [Levels -> Seq(Entries)] /\ regionB[k] # <<>> /\ tls' = tls
      /\ task \in [Levels -> [Workers -> Lines \cup {NoLine}]]
      /\ regionB' = [regionB EXCEPT ![k] = Tail(regionB[k])]
  BY DEF PopB, PipelineTypes, TypeOK
<1>2. PICK n \in Lines : Head(regionB[k]) = Entry(n) /\ Head(regionB[k]).line = n
  BY <1>1, TailFacts, EntryFacts
<1>3. /\ Items(regionB[k]) = Items(regionB'[k]) \cup {Entry(n)}
      /\ NoRepeat(regionB'[k]) /\ Entry(n) \notin Items(regionB'[k])
  <2>1. regionB[k] \in Seq(Entries) /\ regionB'[k] = Tail(regionB[k]) /\ NoRepeat(regionB[k])
    BY <1>1 DEF DownstreamInv
  <2> QED BY <1>1, <1>2, <2>1, TailFacts
<1>4. \A l \in Levels : l # k => regionB'[l] = regionB[l]
  BY <1>1
<1>5. /\ task[k][v] = NoLine /\ task' = [task EXCEPT ![k][v] = n]
  BY <1>2 DEF PopB, PipelineTypes, TasksInv
<1>6. /\ task'[k][v] = n /\ \A w \in Workers : w # v => task'[k][w] = task[k][w]
      /\ \A l \in Levels : l # k => task'[l] = task[l]
  BY <1>1, <1>5
<1>7. LevelOf[n] = k /\ n \notin Up /\ n # NoLine /\ \A w \in Workers : task[k][w] # n
  BY <1>2, <1>3, ConstantsAssumption DEF DownstreamInv
<1>8. \A m \in Lines : m # n => (Entry(m) \in Items(regionB'[k]) <=> Entry(m) \in Items(regionB[k]))
  BY <1>3, ItemsDiffer
<1>9. DownstreamInv'
  <2> SUFFICES ASSUME NEW l \in Levels
               PROVE  /\ NoRepeat(regionB'[l])
                      /\ \A m \in Lines : Entry(m) \in Items(regionB'[l]) => LevelOf[m] = l /\ m \notin Up
                      /\ \A w \in Workers : task'[l][w] # NoLine =>
                            /\ LevelOf[task'[l][w]] = l /\ task'[l][w] \notin Up
                            /\ Entry(task'[l][w]) \notin Items(regionB'[l])
                      /\ \A w, u \in Workers : task'[l][w] # NoLine /\ task'[l][w] = task'[l][u] => w = u
    BY DEF DownstreamInv
  <2>1. CASE l # k
    BY <1>4, <1>6, <2>1 DEF DownstreamInv
  <2>2. CASE l = k
    <3>1. \A m \in Lines : Entry(m) \in Items(regionB'[k]) => LevelOf[m] = k /\ m \notin Up
      BY <1>3 DEF DownstreamInv
    <3>2. ASSUME NEW w \in Workers, task'[k][w] # NoLine
          PROVE  /\ LevelOf[task'[k][w]] = k /\ task'[k][w] \notin Up
                 /\ Entry(task'[k][w]) \notin Items(regionB'[k])
      <4>1. CASE w = v
        BY <1>3, <1>6, <1>7, <4>1
      <4>2. CASE w # v
        BY <1>3, <1>6, <3>2, <4>2 DEF DownstreamInv
      <4> QED BY <4>1, <4>2
    <3>3. \A w, u \in Workers : task'[k][w] # NoLine /\ task'[k][w] = task'[k][u] => w = u
      BY <1>6, <1>7 DEF DownstreamInv
    <3> QED BY <1>3, <2>2, <3>1, <3>2, <3>3
  <2> QED BY <2>1, <2>2
<1>10. \A l \in Levels : /\ Scored(l)' = Scored(l) /\ EntriesOf(l)' = EntriesOf(l) /\ ScoresOf(l)' = ScoresOf(l)
  <2> TAKE l \in Levels
  <2>1. \A m \in Lines : m \in Scored(l)' <=> m \in Scored(l)
    <3>1. CASE l # k
      BY <1>4, <1>6, <3>1 DEF Scored
    <3>2. CASE l = k
      <4>1. n \notin Scored(k)' /\ n \notin Scored(k)
        BY <1>3, <1>6 DEF Scored
      <4>2. ASSUME NEW m \in Lines, m # n PROVE m \in Scored(k)' <=> m \in Scored(k)
        <5>1. (\A w \in Workers : task'[k][w] # m) <=> (\A w \in Workers : task[k][w] # m)
          BY <1>5, <1>6, <4>2, ConstantsAssumption
        <5> QED BY <1>8, <4>2, <5>1 DEF Scored
      <4> QED BY <3>2, <4>1, <4>2
    <3> QED BY <3>1, <3>2
  <2>2. Scored(l)' = Scored(l)
    BY <2>1 DEF Scored
  <2> QED BY <1>1, <2>2 DEF EntriesOf, ScoresOf
<1>11. SumsInv'
  BY <1>10 DEF SumsInv, TotalWeight
<1> QED BY <1>9, <1>10, <1>11

\* worker_main: a line goes from a worker into its totals.
LEMMA ScoreLines ==
    ASSUME PipelineTypes, DownstreamInv, SumsInv, NEW k \in Levels, NEW v \in Workers, Score(k, v), Up' = Up
    PROVE  /\ DownstreamInv' /\ SumsInv'
           /\ task[k][v] \in Lines /\ task[k][v] \notin Scored(k) /\ Scored(k)' = Scored(k) \cup {task[k][v]}
           /\ \A l \in Levels : l # k => Scored(l)' = Scored(l)
<1>1. /\ regionB' = regionB /\ wpc[k][v] = "score" /\ task' = [task EXCEPT ![k][v] = NoLine]
      /\ task \in [Levels -> [Workers -> Lines \cup {NoLine}]]
      /\ tls \in [Levels -> [Workers -> [entries : Nat, score : Nat]]]
  BY DEF Score, regionBVars, PipelineTypes, TypeOK
<1>2. PICK n \in Lines : n = task[k][v]
  BY <1>1 DEF PipelineTypes, TasksInv
<1>3. PICK d \in Nat : d = Weighted(n)
  BY WeightedType
<1>4. /\ tls'[k][v].entries = tls[k][v].entries + 1 /\ tls'[k][v].score = tls[k][v].score + d
      /\ \A w \in Workers : w # v => tls'[k][w] = tls[k][w]
      /\ \A l \in Levels : l # k => tls'[l] = tls[l]
  <2>1. PICK e, s : e = tls[k][v].entries + 1 /\ s = tls[k][v].score + d
    OBVIOUS
  <2>2. tls' = [tls EXCEPT ![k][v] = [entries |-> e, score |-> s]]
    BY <1>2, <1>3, <2>1 DEF Score
  <2>3. /\ tls'[k][v] = [entries |-> e, score |-> s]
        /\ \A w \in Workers : w # v => tls'[k][w] = tls[k][w]
        /\ \A l \in Levels : l # k => tls'[l] = tls[l]
    BY <1>1, <2>2
  <2> QED BY <2>1, <2>3
<1>5. /\ task'[k][v] = NoLine /\ \A w \in Workers : w # v => task'[k][w] = task[k][w]
      /\ \A l \in Levels : l # k => task'[l] = task[l]
  BY <1>1
<1>6. /\ LevelOf[n] = k /\ n \notin Up /\ n # NoLine /\ Entry(n) \notin Items(regionB[k])
      /\ \A w \in Workers : w # v => task[k][w] # n
  BY <1>2, ConstantsAssumption DEF DownstreamInv
<1>7. DownstreamInv'
  <2> SUFFICES ASSUME NEW l \in Levels
               PROVE  /\ NoRepeat(regionB[l])
                      /\ \A m \in Lines : Entry(m) \in Items(regionB[l]) => LevelOf[m] = l /\ m \notin Up
                      /\ \A w \in Workers : task'[l][w] # NoLine =>
                            /\ LevelOf[task'[l][w]] = l /\ task'[l][w] \notin Up
                            /\ Entry(task'[l][w]) \notin Items(regionB[l])
                      /\ \A w, u \in Workers : task'[l][w] # NoLine /\ task'[l][w] = task'[l][u] => w = u
    BY <1>1 DEF DownstreamInv
  <2>1. \A w \in Workers : task'[l][w] # NoLine => task'[l][w] = task[l][w]
    BY <1>5
  <2> QED BY <2>1 DEF DownstreamInv
<1>8. Scored(k)' = Scored(k) \cup {n} /\ n \notin Scored(k)
  <2>1. n \in Scored(k)' /\ n \notin Scored(k)
    BY <1>1, <1>2, <1>5, <1>6 DEF Scored
  <2>2. ASSUME NEW m \in Lines, m # n PROVE m \in Scored(k)' <=> m \in Scored(k)
    <3>1. (\A w \in Workers : task'[k][w] # m) <=> (\A w \in Workers : task[k][w] # m)
      BY <1>2, <1>5, <2>2, ConstantsAssumption
    <3> QED BY <1>1, <2>2, <3>1 DEF Scored
  <2>3. Scored(k) \subseteq Lines /\ Scored(k)' \subseteq Lines
    BY DEF Scored
  <2> QED BY <2>1, <2>2, <2>3
<1>9. \A l \in Levels : l # k => /\ Scored(l)' = Scored(l) /\ EntriesOf(l)' = EntriesOf(l) /\ ScoresOf(l)' = ScoresOf(l)
  BY <1>1, <1>4, <1>5 DEF Scored, EntriesOf, ScoresOf
<1>10. /\ Total(EntriesOf(k)', Workers) = Cardinality(Scored(k)')
       /\ Total(ScoresOf(k)', Workers) = TotalWeight(Scored(k)')
  <2> DEFINE e == EntriesOf(k)
             s == ScoresOf(k)
             e2 == EntriesOf(k)'
             s2 == ScoresOf(k)'
             S == Scored(k)
             f == [m \in Lines |-> Weighted(m)]
  <2>1. /\ \A w \in Workers : e[w] \in Nat
        /\ \A w \in Workers : s[w] \in Nat
    BY <1>1 DEF EntriesOf, ScoresOf
  <2>2. /\ \A w \in Workers : w # v => e2[w] = e[w]
        /\ \A w \in Workers : w # v => s2[w] = s[w]
        /\ e2[v] = e[v] + 1 /\ s2[v] = s[v] + d
    BY <1>4 DEF EntriesOf, ScoresOf
  <2>3. Total(e, Workers) = Cardinality(S) /\ Total(s, Workers) = Total(f, S)
    BY DEF SumsInv, TotalWeight
  <2>4. Scored(k)' = S \cup {n} /\ n \notin S /\ IsFiniteSet(S) /\ S \subseteq Lines
    <3>1. S \subseteq Lines
      BY DEF Scored
    <3> QED BY <1>8, <3>1, ConstantsAssumption, FS_Subset
  <2>5. \A m \in Lines : f[m] \in Nat
    BY WeightedType
  <2>6. f[n] = d
    BY <1>3
  <2> HIDE DEF e, s, e2, s2, S, f
  <2>7. IsFiniteSet(Workers)
    BY ConstantsAssumption
  <2>8. PICK one \in Nat : one = 1
    OBVIOUS
  <2>9. Total(e2, Workers) = Total(e, Workers) + one
    <3>1. e2[v] = e[v] + one
      BY <2>2, <2>8
    <3> QED BY <2>1, <2>2, <2>7, <3>1, TotalGrows
  <2>10. Total(s2, Workers) = Total(s, Workers) + d
    BY <2>1, <2>2, <2>7, TotalGrows
  <2>11. Cardinality(S \cup {n}) = Cardinality(S) + 1
    BY <2>4, FS_AddElement
  <2>12. Total(f, S \cup {n}) = Total(f, S) + f[n]
    <3>1. \A y \in S \cup {n} : f[y] \in Nat
      BY <2>4, <2>5
    <3> QED BY <2>4, <3>1, TotalAdds
  <2>13. Total(e2, Workers) = Cardinality(Scored(k)')
    BY <2>3, <2>4, <2>8, <2>9, <2>11
  <2>14. Total(s2, Workers) = Total(f, Scored(k)')
    BY <2>3, <2>4, <2>6, <2>10, <2>12
  <2> QED BY <2>13, <2>14 DEF e2, s2, f, TotalWeight
<1>11. SumsInv'
  BY <1>9, <1>10 DEF SumsInv, TotalWeight
<1> QED BY <1>2, <1>7, <1>8, <1>9, <1>11

\* Every step keeps track of every line.
LEMMA LinesStep ==
    ASSUME PipelineTypes, EofInv, DownstreamInv, SumsInv, [Next]_vars
    PROVE  /\ DownstreamInv' /\ SumsInv'
           /\ \/ \A l \in Levels : Scored(l)' = Scored(l)
              \/ \E k \in Levels, v \in Workers : Score(k, v) /\ Up' = Up
<1> USE DEF readerVars, regionAVars, dispatcherVars, regionBVars, regionDVars,
            workerVars, resultVars, aggregatorVars
<1>1. CASE PushB
  BY <1>1, UpStep, PushBLines
<1>2. CASE ~PushB
  <2>0. Up' = Up
    BY <1>2, UpStep
  <2>1. ASSUME NEW k \in Levels, NEW v \in Workers, PopB(k, v)
        PROVE  DownstreamInv' /\ SumsInv' /\ \A l \in Levels : Scored(l)' = Scored(l)
    BY <2>0, <2>1, PopBLines
  <2>2. ASSUME NEW k \in Levels, NEW v \in Workers, Score(k, v) PROVE DownstreamInv' /\ SumsInv'
    BY <2>0, <2>2, ScoreLines
  <2>3. \/ UNCHANGED <<regionB, task, tls>>
        \/ \E k \in Levels, v \in Workers : PopB(k, v) \/ Score(k, v)
    <3>1. UNCHANGED vars => UNCHANGED <<regionB, task, tls>>
      BY DEF vars
    <3>2. ASSUME NEW r \in Readers, Reader(r) \/ ReaderDies(r) PROVE UNCHANGED <<regionB, task, tls>>
      BY <3>2 DEF Reader, PushA, PushABlocks, ReaderDies
    <3>3. Dispatcher => UNCHANGED <<regionB, task, tls>>
      BY <1>2 DEF Dispatcher, PopA, PopAWaits, PopATimesOut, CheckAllDone, PushBWaits, PushD, PushDWaits,
                  DispatcherFinishes, HandleEof
    <3>4. ASSUME NEW k \in Levels, NEW v \in Workers, Worker(k, v)
          PROVE  UNCHANGED <<regionB, task, tls>> \/ PopB(k, v) \/ Score(k, v)
      BY <3>4 DEF Worker, PopBWaits, ReachBarrier, MergeTls
    <3>5. ASSUME NEW k \in Levels, Analyzer(k) PROVE UNCHANGED <<regionB, task, tls>>
      BY <3>5 DEF Analyzer, JoinAndRank, PublishResult, PostLevelReady
    <3>6. Aggregator => UNCHANGED <<regionB, task, tls>>
      BY DEF Aggregator, PopD, PopDWaits, HighPriorityDone, AggregatorTimesOut, CollectWaits, SeesReady,
             TakeLevelReady, WriteText, WriteBinary
    <3> QED BY <3>1, <3>2, <3>3, <3>4, <3>5, <3>6 DEF Next, Terminated
  <2>4. CASE UNCHANGED <<regionB, task, tls>>
    BY <2>0, <2>4, LinesFrame DEF LinesKept
  <2> QED BY <2>0, <2>1, <2>2, <2>3, <2>4
<1> QED BY <1>1, <1>2

-----------------------------------------------------------------------------
(* Region D and the aggregator                                             *)

\* The dispatcher holds the line's high-priority copy.
Copying(n) == dpc \in {"pushD", "waitD"} /\ held = Entry(n)

\* The high-priority lines the aggregator has scored: they are nowhere else.
Copied == {n \in PriorityLines : n \notin Up /\ ~Copying(n) /\ Entry(n) \notin Items(regionD)}

\* A copy is in one place and of a high-priority line that has left Region A,
\* and the aggregator's totals are those of the lines it scored.
CopiesInv ==
    /\ NoRepeat(regionD)
    /\ \A n \in Lines : /\ Entry(n) \in Items(regionD) => n \in PriorityLines /\ n \notin Up /\ ~Copying(n)
                        /\ Copying(n) => n \in PriorityLines /\ n \notin Up
    /\ highPriority.entries = Cardinality(Copied)
    /\ highPriority.score = TotalWeight(Copied)

\* A step that moves no copy.
CopiesKept ==
    /\ UNCHANGED <<regionD, highPriority>> /\ Up' = Up
    /\ \A n \in Lines : Copying(n)' <=> Copying(n)

\* The invariant is about where copies are and the aggregator's totals.
LEMMA CopiesFrame ==
    ASSUME CopiesInv, CopiesKept
    PROVE  CopiesInv'
<1>1. Copied' = Copied
  BY DEF CopiesKept, Copied, PriorityLines
<1>2. TotalWeight(Copied)' = TotalWeight(Copied)
  BY <1>1 DEF TotalWeight
<1> QED BY <1>1, <1>2 DEF CopiesInv, CopiesKept

\* Nothing was copied and every line is in its reader.
LEMMA CopiesInit == Init => CopiesInv
<1> SUFFICES ASSUME Init PROVE CopiesInv
  OBVIOUS
<1>1. /\ regionD = <<>> /\ dpc = "pop" /\ unread = [r \in Readers |-> {n \in Lines : ReaderOf[n] = r}]
      /\ highPriority = [entries |-> 0, score |-> 0]
  BY DEF Init
<1>2. Up = Lines /\ Len(regionD) = 0 /\ Items(regionD) = {} /\ NoRepeat(regionD) /\ \A n \in Lines : ~Copying(n)
  BY <1>1, EntryFacts DEF Up, Items, NoRepeat, Copying
<1>3. Copied = {}
  BY <1>2 DEF Copied, PriorityLines
<1>4. Cardinality(Copied) = 0 /\ TotalWeight(Copied) = 0
  BY <1>3, FS_EmptySet, TotalOfNone DEF TotalWeight
<1> QED BY <1>1, <1>2, <1>4 DEF CopiesInv

\* push_region_b: a high-priority line stays in the dispatcher's hands.
LEMMA PushBCopies ==
    ASSUME PipelineTypes, CopiesInv, PushB, held.line \in Up, Up' = Up \ {held.line}
    PROVE  CopiesInv'
<1>1. PICK n \in Lines : n = held.line /\ held = Entry(n)
  <2>1. held \in Entries
    BY DEF PushB, PipelineTypes, TypeOK
  <2> QED BY <2>1, EntryFacts
<1>2. /\ UNCHANGED <<regionD, highPriority>> /\ n \in Up /\ Up' = Up \ {n} /\ dpc = "pushB"
  BY <1>1 DEF PushB, regionDVars, aggregatorVars
<1>3. \A m \in Lines : ~Copying(m)
  BY <1>2 DEF Copying
<1>4. \A m \in Lines : Copying(m)' <=> m = n /\ n \in PriorityLines
  <2>1. CASE n \in PriorityLines
    <3>1. dpc' = "pushD" /\ held' = held
      BY <1>1, <2>1 DEF PushB, AfterPushB, PriorityLines
    <3> QED BY <1>1, <2>1, <3>1, ItemsDiffer DEF Copying
  <2>2. CASE n \notin PriorityLines
    <3>1. dpc' = "pop"
      BY <1>1, <2>2 DEF PushB, AfterPushB, PriorityLines
    <3> QED BY <2>2, <3>1 DEF Copying
  <2> QED BY <2>1, <2>2
<1>5. Entry(n) \notin Items(regionD)
  BY <1>2 DEF CopiesInv
<1>6. Copied' = Copied
  <2>1. \A m \in Lines : m \in Copied' <=> m \in Copied
    BY <1>2, <1>3, <1>4, <1>5 DEF Copied, PriorityLines
  <2> QED BY <2>1 DEF Copied, PriorityLines
<1>7. \A m \in Lines : /\ Entry(m) \in Items(regionD) => m \in PriorityLines /\ m \notin Up' /\ ~Copying(m)'
                       /\ Copying(m)' => m \in PriorityLines /\ m \notin Up'
  BY <1>2, <1>4, <1>5 DEF CopiesInv
<1>8. TotalWeight(Copied)' = TotalWeight(Copied)
  BY <1>6 DEF TotalWeight
<1> QED BY <1>2, <1>6, <1>7, <1>8 DEF CopiesInv, PriorityLines

\* push_region_d: the copy goes to Region D.
LEMMA PushDCopies ==
    ASSUME PipelineTypes, CopiesInv, PushD, Up' = Up
    PROVE  CopiesInv'
<1>1. PICK n \in Lines : n = held.line /\ held = Entry(n)
  <2>1. held \in Entries
    BY DEF PushD, PipelineTypes, TypeOK
  <2> QED BY <2>1, EntryFacts
<1>2. /\ regionD \in Seq(Entries) /\ regionD' = Append(regionD, Entry(n)) /\ highPriority' = highPriority
      /\ dpc = "pushD" /\ dpc' = "pop" /\ Entry(n) \in Entries
  BY <1>1, EntryFacts DEF PushD, PipelineTypes, TypeOK
<1>3. /\ \A m \in Lines : Copying(m) <=> m = n
      /\ \A m \in Lines : ~Copying(m)'
  BY <1>1, <1>2, ItemsDiffer DEF Copying
<1>4. n \in PriorityLines /\ n \notin Up /\ Entry(n) \notin Items(regionD)
  BY <1>3 DEF CopiesInv
<1>5. Items(regionD') = Items(regionD) \cup {Entry(n)} /\ NoRepeat(regionD')
  BY <1>2, <1>4, AppendFacts DEF CopiesInv
<1>6. \A m \in Lines : Entry(m) \in Items(regionD') <=> Entry(m) \in Items(regionD) \/ m = n
  BY <1>5, ItemsDiffer
<1>7. Copied' = Copied
  <2>1. \A m \in Lines : m \in Copied' <=> m \in Copied
    BY <1>3, <1>6 DEF Copied, PriorityLines
  <2> QED BY <2>1 DEF Copied, PriorityLines
<1>8. \A m \in Lines : Entry(m) \in Items(regionD') => m \in PriorityLines /\ m \notin Up
  BY <1>4, <1>6 DEF CopiesInv
<1>9. TotalWeight(Copied)' = TotalWeight(Copied)
  BY <1>7 DEF TotalWeight
<1> QED BY <1>2, <1>3, <1>5, <1>7, <1>8, <1>9 DEF CopiesInv, PriorityLines

\* aggregate_high_priority: the copy is scored.
LEMMA PopDCopies ==
    ASSUME PipelineTypes, CopiesInv, PopD, Up' = Up
    PROVE  CopiesInv'
<1>1. /\ regionD \in Seq(Entries) /\ regionD # <<>> /\ regionD' = Tail(regionD)
      /\ highPriority \in [entries : Nat, score : Nat]
  BY DEF PopD, PipelineTypes, TypeOK
<1>2. PICK n \in Lines : Head(regionD) = Entry(n) /\ Head(regionD).line = n
  BY <1>1, TailFacts, EntryFacts
<1>3. /\ Items(regionD) = Items(regionD') \cup {Entry(n)}
      /\ NoRepeat(regionD') /\ Entry(n) \notin Items(regionD')
  BY <1>1, <1>2, TailFacts DEF CopiesInv
<1>4. \A m \in Lines : Copying(m)' <=> Copying(m)
  BY DEF PopD, Copying
<1>5. n \in PriorityLines /\ n \notin Up /\ ~Copying(n)
  BY <1>3 DEF CopiesInv
<1>6. \A m \in Lines : m # n => (Entry(m) \in Items(regionD') <=> Entry(m) \in Items(regionD))
  BY <1>3, ItemsDiffer
<1>7. Copied' = Copied \cup {n} /\ n \notin Copied
  <2>1. n \in Copied' /\ n \notin Copied
    BY <1>3, <1>4, <1>5 DEF Copied, PriorityLines
  <2>2. \A m \in Lines : m # n => (m \in Copied' <=> m \in Copied)
    BY <1>4, <1>6 DEF Copied, PriorityLines
  <2>3. Copied \subseteq Lines /\ Copied' \subseteq Lines
    BY DEF Copied, PriorityLines
  <2> QED BY <2>1, <2>2, <2>3
<1>8. PICK d \in Nat : d = Weighted(n)
  BY WeightedType
<1>9. highPriority'.entries = highPriority.entries + 1 /\ highPriority'.score = highPriority.score + d
  <2>1. PICK e, s : e = highPriority.entries + 1 /\ s = highPriority.score + d
    OBVIOUS
  <2>2. highPriority' = [entries |-> e, score |-> s]
    BY <1>2, <1>8, <2>1 DEF PopD
  <2> QED BY <2>1, <2>2
<1>10. highPriority'.entries = Cardinality(Copied') /\ highPriority'.score = TotalWeight(Copied')
  <2> DEFINE S == Copied
             f == [m \in Lines |-> Weighted(m)]
  <2>1. highPriority.entries = Cardinality(S) /\ highPriority.score = Total(f, S)
    BY DEF CopiesInv, TotalWeight
  <2>2. IsFiniteSet(S) /\ S \subseteq Lines /\ n \notin S /\ Copied' = S \cup {n}
    <3>1. S \subseteq Lines
      BY DEF Copied, PriorityLines
    <3> QED BY <1>7, <3>1, ConstantsAssumption, FS_Subset
  <2>3. (\A m \in Lines : f[m] \in Nat) /\ f[n] = d
    BY <1>8, WeightedType
  <2> HIDE DEF S, f
  <2>4. Cardinality(S \cup {n}) = Cardinality(S) + 1
    BY <2>2, FS_AddElement
  <2>5. Total(f, S \cup {n}) = Total(f, S) + f[n]
    <3>1. \A y \in S \cup {n} : f[y] \in Nat
      BY <2>2, <2>3
    <3> QED BY <2>2, <3>1, TotalAdds
  <2>6. highPriority'.entries = Cardinality(Copied') /\ highPriority'.score = Total(f, Copied')
    BY <1>9, <2>1, <2>2, <2>3, <2>4, <2>5
  <2> QED BY <2>6 DEF f, TotalWeight
<1>11. \A m \in Lines : Entry(m) \in Items(regionD') => m \in PriorityLines /\ m \notin Up /\ ~Copying(m)
  BY <1>3 DEF CopiesInv
<1>12. TotalWeight(Copied)' = TotalWeight(Copied')
  BY DEF TotalWeight
<1> QED BY <1>3, <1>4, <1>10, <1>11, <1>12 DEF CopiesInv, PriorityLines

\* Every step keeps track of every copy.
LEMMA CopiesStep ==
    ASSUME PipelineTypes, EofInv, CopiesInv, [Next]_vars
    PROVE  CopiesInv'
<1> USE DEF readerVars, regionAVars, dispatcherVars, regionBVars, regionDVars,
            workerVars, resultVars, aggregatorVars
<1>1. CASE PushB
  BY <1>1, UpStep, PushBCopies
<1>2. CASE ~PushB
  <2>0. Up' = Up
    BY <1>2, UpStep
  <2>1. CASE PushD
    BY <2>0, <2>1, PushDCopies
  <2>2. CASE PopD
    BY <2>0, <2>2, PopDCopies
  <2> DEFINE Kept == UNCHANGED <<regionD, highPriority>> /\ \A n \in Lines : Copying(n)' <=> Copying(n)
  <2>3. CASE ~PushD /\ ~PopD
    <3>1. UNCHANGED vars => Kept
      BY DEF vars, Copying
    <3>2. ASSUME NEW r \in Readers, Reader(r) \/ ReaderDies(r) PROVE Kept
      BY <3>2 DEF Reader, PushA, PushABlocks, ReaderDies, Copying
    <3>3. Dispatcher => Kept
      BY <1>2, <2>3 DEF Dispatcher, PopA, PopAWaits, PopATimesOut, CheckAllDone, PushBWaits, PushDWaits,
                  DispatcherFinishes, HandleEof, Copying
    <3>4. ASSUME NEW k \in Levels, NEW v \in Workers, Worker(k, v) PROVE Kept
      BY <3>4 DEF Worker, PopB, PopBWaits, Score, ReachBarrier, MergeTls, Copying
    <3>5. ASSUME NEW k \in Levels, Analyzer(k) PROVE Kept
      BY <3>5 DEF Analyzer, JoinAndRank, PublishResult, PostLevelReady, Copying
    <3>6. Aggregator => Kept
      BY <2>3 DEF Aggregator, PopDWaits, HighPriorityDone, AggregatorTimesOut, CollectWaits, SeesReady,
             TakeLevelReady, WriteText, WriteBinary, Copying
    <3>7. Kept
      BY <3>1, <3>2, <3>3, <3>4, <3>5, <3>6 DEF Next, Terminated
    <3> QED BY <2>0, <3>7, CopiesFrame DEF CopiesKept
  <2> QED BY <2>1, <2>2, <2>3
<1> QED BY <1>1, <1>2


-----------------------------------------------------------------------------
(* The report                                                              *)

\* The aggregator is past Region D only when it is drained for good, and past a
\* level only when its result is ready.
AggregatorInv ==
    /\ gpc \notin {"popD", "waitD"} => DrainedD
    /\ dispatcherDone => dpc = "exited"
    /\ \A l \in Levels : l < gLevel => results[l].ready
    /\ gpc = "sem" => results[gLevel].ready
    /\ gpc \in {"text", "binary", "exited"} => gLevel = NumLevels

\* The aggregator starts at Region D.
LEMMA AggregatorInit == Init => AggregatorInv
<1> SUFFICES ASSUME Init PROVE AggregatorInv
  OBVIOUS
<1>1. gpc = "popD" /\ gLevel = 0 /\ dispatcherDone = FALSE
  BY DEF Init
<1>2. \A l \in Levels : ~(l < 0)
  BY LevelFacts
<1> QED BY <1>1, <1>2 DEF AggregatorInv

\* A step of another process leaves the aggregator where it is or wakes it.
LEMMA AggregatorFrame ==
    ASSUME AggregatorInv,
           \A l \in Levels : results[l].ready => results'[l].ready,
           UNCHANGED <<gLevel, dispatcherDone>>, gLevel \in Levels \/ gpc # "sem",
           gpc' = gpc \/ (gpc = "waitD" /\ gpc' = "popD") \/ (gpc = "waitC" /\ gpc' = "collect"),
           regionD' = regionD \/ ~dispatcherDone,
           dpc = "exited" => dpc' = "exited"
    PROVE  AggregatorInv'
<1>1. (gpc \notin {"popD", "waitD"} => DrainedD)'
  BY DEF AggregatorInv, DrainedD
<1>2. (\A l \in Levels : l < gLevel => results[l].ready)'
  BY DEF AggregatorInv
<1>3. (gpc = "sem" => results[gLevel].ready)'
  BY DEF AggregatorInv
<1> QED BY <1>1, <1>2, <1>3 DEF AggregatorInv

\* Every step keeps the aggregator behind the other processes.
LEMMA AggregatorStep ==
    ASSUME PipelineTypes, AnalyzerInv, AggregatorInv, [Next]_vars
    PROVE  AggregatorInv'
<1> USE DEF readerVars, regionAVars, dispatcherVars, regionBVars, regionDVars,
            workerVars, resultVars, aggregatorVars
<1>0. \A l \in Levels : results[l].ready => results'[l].ready
  <2>1. CASE UNCHANGED vars
    BY <2>1 DEF vars
  <2>2. CASE Next
    BY <2>2, ReadyKept
  <2> QED BY <2>1, <2>2
<1>00. /\ gLevel \in 0..NumLevels /\ NumLevels \in Nat
       /\ gpc = "sem" => gLevel < NumLevels
       /\ gLevel \in Levels \/ gpc # "sem"
  BY ConstantsAssumption DEF PipelineTypes, TypeOK, Levels
<1> DEFINE Woken == gpc' = gpc \/ (gpc = "waitD" /\ gpc' = "popD") \/ (gpc = "waitC" /\ gpc' = "collect")
           Other == /\ UNCHANGED <<gLevel, dispatcherDone>> /\ Woken
                    /\ regionD' = regionD \/ ~dispatcherDone
                    /\ dpc = "exited" => dpc' = "exited"
<1>1. ASSUME Other PROVE AggregatorInv'
  BY <1>0, <1>00, <1>1, AggregatorFrame
<1>2. UNCHANGED vars => Other
  BY DEF vars
<1>3. ASSUME NEW r \in Readers, Reader(r) \/ ReaderDies(r) PROVE Other
  BY <1>3 DEF Reader, PushA, PushABlocks, ReaderDies
<1>4. ASSUME Dispatcher, ~DispatcherFinishes PROVE Other
  <2>1. CASE PushD
    BY <2>1 DEF PushD, AggregatorInv
  <2>2. CASE ~PushD
    BY <1>4, <2>2 DEF Dispatcher, PopA, PopAWaits, PopATimesOut, CheckAllDone, HandleEof, PushB, PushBWaits,
                      PushDWaits
  <2> QED BY <2>1, <2>2
<1>5. ASSUME DispatcherFinishes PROVE AggregatorInv'
  <2>1. /\ UNCHANGED <<gLevel, results>> /\ dpc' = "exited" /\ dpc = "finish"
        /\ gpc' = IF gpc = "waitD" THEN "popD" ELSE gpc
    BY <1>5 DEF DispatcherFinishes
  <2>2. gpc \in {"popD", "waitD"} /\ gpc' = "popD"
    BY <2>1 DEF AggregatorInv, DrainedD, PipelineTypes, TypeOK
  <2> QED BY <2>1, <2>2 DEF AggregatorInv
<1>6. ASSUME NEW k \in Levels, (\E v \in Workers : Worker(k, v)) \/ Analyzer(k) PROVE Other
  <2>1. ASSUME NEW v \in Workers, Worker(k, v) PROVE Other
    <3>1. UNCHANGED <<gLevel, dispatcherDone, gpc, regionD>>
      BY <2>1 DEF Worker, PopB, PopBWaits, Score, ReachBarrier, MergeTls
    <3>2. dpc = "exited" => dpc' = "exited"
      BY <2>1 DEF Worker, PopB, PopBWaits, Score, ReachBarrier, MergeTls
    <3> QED BY <3>1, <3>2
  <2>2. CASE Analyzer(k)
    BY <2>2 DEF Analyzer, JoinAndRank, PublishResult, PostLevelReady
  <2> QED BY <1>6, <2>1, <2>2
<1>7. ASSUME Aggregator PROVE AggregatorInv'
  <2>1. CASE PopD
    <3>1. /\ gpc = "popD" /\ gpc' = gpc /\ UNCHANGED <<gLevel, dispatcherDone, results>>
          /\ dpc = "exited" => dpc' = "exited"
      BY <2>1 DEF PopD
    <3> QED BY <3>1 DEF AggregatorInv
  <2>2. CASE PopDWaits \/ HighPriorityDone \/ AggregatorTimesOut \/ CollectWaits \/ SeesReady
    BY <2>2 DEF PopDWaits, HighPriorityDone, AggregatorTimesOut, CollectWaits, SeesReady, AggregatorInv, DrainedD
  <2>3. CASE TakeLevelReady
    <3>1. /\ UNCHANGED <<results, regionD, dispatcherDone, dpc>> /\ gpc = "sem" /\ gLevel' = gLevel + 1
          /\ gpc' = IF gLevel + 1 < NumLevels THEN "collect" ELSE "text"
      BY <2>3 DEF TakeLevelReady
    <3>2. \A l \in Levels : l < gLevel' => results[l].ready
      <4>1. results[gLevel].ready /\ \A l \in Levels : l < gLevel => results[l].ready
        BY <3>1 DEF AggregatorInv
      <4>2. \A l \in Levels : l < gLevel + 1 => l < gLevel \/ l = gLevel
        BY <1>00 DEF Levels
      <4> QED BY <3>1, <4>1, <4>2
    <3>3. gpc' = "text" => gLevel' = NumLevels
      BY <1>00, <3>1
    <3>4. DrainedD' /\ gpc' \in {"collect", "text"}
      BY <3>1 DEF AggregatorInv, DrainedD
    <3> QED BY <3>1, <3>2, <3>3, <3>4 DEF AggregatorInv
  <2>4. CASE WriteText \/ WriteBinary
    BY <2>4 DEF WriteText, WriteBinary, AggregatorInv, DrainedD
  <2> QED BY <1>7, <2>1, <2>2, <2>3, <2>4 DEF Aggregator
<1> HIDE DEF Other
<1> QED BY <1>1, <1>2, <1>3, <1>4, <1>5, <1>6, <1>7 DEF Next, Terminated


\* When the aggregator writes, all lines were scored.
LEMMA AllScored ==
    ASSUME PipelineTypes, EofInv, QueueInv, AnalyzerInv, AggregatorInv, gpc \in {"text", "binary"}
    PROVE  /\ \A l \in Levels : /\ results[l].ready /\ \A w \in Workers : wpc[l][w] = "exited"
                                /\ Scored(l) = LinesOfLevel(l)
           /\ \A n \in Lines : n \notin Up
<1>1. \A l \in Levels : results[l].ready
  <2>1. gLevel = NumLevels
    BY DEF AggregatorInv
  <2>2. \A l \in Levels : l < NumLevels
    BY ConstantsAssumption DEF Levels
  <2> QED BY <2>1, <2>2 DEF AggregatorInv
<1>2. \A l \in Levels : \A w \in Workers : wpc[l][w] = "exited"
  BY <1>1 DEF AnalyzerInv, WorkersJoined
<1>3. \A l \in Levels : regionB[l] = <<>> /\ eofPosted[l]
  BY <1>2, ConstantsAssumption DEF QueueInv, WorkersInv, LevelDrained
<1>4. \A n \in Lines : n \notin Up
  <2>1. \A n \in Lines : n \notin Upstream
    BY <1>3, ClosedLevels, EntryFacts, ConstantsAssumption DEF EofClosesLevel, LinesOfLevel
  <2> QED BY <2>1, UpstreamLines DEF EofInv, Up
<1>5. ASSUME NEW l \in Levels PROVE Scored(l) = LinesOfLevel(l)
  <2>1. Items(regionB[l]) = {}
    <3>1. Len(regionB[l]) = 0
      BY <1>3
    <3> QED BY <3>1 DEF Items
  <2>2. \A w \in Workers : task[l][w] = NoLine
    BY <1>2 DEF PipelineTypes, TasksInv
  <2>3. \A n \in Lines : (n \in Scored(l)) <=> (n \in LinesOfLevel(l))
    BY <1>4, <2>1, <2>2, ConstantsAssumption DEF Scored, LinesOfLevel
  <2> QED BY <2>3 DEF Scored, LinesOfLevel
<1> QED BY <1>1, <1>2, <1>4, <1>5

\* When the aggregator writes, the results it reads are those of all lines.
LEMMA ResultsExact ==
    ASSUME PipelineTypes, EofInv, QueueInv, AnalyzerInv, MergeInv, DownstreamInv, SumsInv, CopiesInv,
           AggregatorInv, gpc \in {"text", "binary"}
    PROVE  /\ \A l \in Levels :
                /\ results[l].entries = Cardinality(LinesOfLevel(l))
                /\ results[l].score = TotalWeight(LinesOfLevel(l))
                /\ Total(results[l].perThread, Workers) = results[l].score
           /\ highPriority = [entries |-> Cardinality(PriorityLines), score |-> TotalWeight(PriorityLines)]
<1>1. \A l \in Levels : \A w \in Workers : wpc[l][w] = "exited"
  BY AllScored
<1>2. \A n \in Lines : n \notin Up
  BY AllScored
<1>3. ASSUME NEW l \in Levels
      PROVE  /\ results[l].entries = Cardinality(LinesOfLevel(l))
             /\ results[l].score = TotalWeight(LinesOfLevel(l))
             /\ Total(results[l].perThread, Workers) = results[l].score
  <2>1. Merged(l) = Workers
    BY <1>1 DEF Merged
  <2>2. Scored(l) = LinesOfLevel(l)
    BY AllScored
  <2>3. /\ results[l].entries = Total(EntriesOf(l), Workers)
        /\ results[l].score = Total(ScoresOf(l), Workers)
        /\ \A w \in Workers : results[l].perThread[w] = tls[l][w].score
    BY <2>1 DEF MergeInv
  <2>4. /\ Total(EntriesOf(l), Workers) = Cardinality(LinesOfLevel(l))
        /\ Total(ScoresOf(l), Workers) = TotalWeight(LinesOfLevel(l))
    BY <2>2 DEF SumsInv
  <2>5. Total(results[l].perThread, Workers) = Total(ScoresOf(l), Workers)
    <3> DEFINE f == results[l].perThread
               g == ScoresOf(l)
    <3>1. \A w \in Workers : f[w] = g[w]
      BY <2>3 DEF ScoresOf
    <3> HIDE DEF f, g
    <3>2. Total(f, Workers) = Total(g, Workers)
      BY <3>1, TotalOfEqual
    <3> QED BY <3>2 DEF f, g
  <2> QED BY <2>3, <2>4, <2>5
<1>4. Copied = PriorityLines
  <2>1. regionD = <<>> /\ dpc = "exited"
    BY DEF AggregatorInv, DrainedD
  <2>2. Items(regionD) = {}
    <3>1. Len(regionD) = 0
      BY <2>1
    <3> QED BY <3>1 DEF Items
  <2>3. \A n \in Lines : (n \in Copied) <=> (n \in PriorityLines)
    BY <1>2, <2>1, <2>2 DEF Copied, Copying, PriorityLines
  <2> QED BY <2>3 DEF Copied, PriorityLines
<1>5. highPriority = [entries |-> Cardinality(PriorityLines), score |-> TotalWeight(PriorityLines)]
  <2>1. /\ highPriority.entries = Cardinality(PriorityLines) /\ highPriority.score = TotalWeight(PriorityLines)
    BY <1>4 DEF CopiesInv
  <2>2. highPriority \in [entries : Nat, score : Nat]
    BY DEF PipelineTypes
  <2>3. PICK e, s : e = Cardinality(PriorityLines) /\ s = TotalWeight(PriorityLines)
    OBVIOUS
  <2> QED BY <2>1, <2>2, <2>3
<1> QED BY <1>3, <1>5

\* Both properties of what is on disk.
FilesInv == ReportExact /\ HighPriorityExact

\* What a file must say, whichever of the two it is.
ExactFile(file) ==
    file.written =>
        /\ \A l \in Levels :
            /\ file.results[l].entries = Cardinality(LinesOfLevel(l))
            /\ file.results[l].score = TotalWeight(LinesOfLevel(l))
            /\ Total(file.results[l].perThread, Workers) = file.results[l].score
        /\ file.high = [entries |-> Cardinality(PriorityLines), score |-> TotalWeight(PriorityLines)]

\* The properties are about each file on its own.
LEMMA FilesApart == FilesInv <=> ExactFile(textFile) /\ ExactFile(binaryFile)
BY DEF FilesInv, ReportExact, HighPriorityExact, ExactFile

\* No file was written.
LEMMA FilesInit == Init => FilesInv
<1> SUFFICES ASSUME Init PROVE FilesInv
  OBVIOUS
<1>1. textFile = NoReport /\ binaryFile = NoReport
  BY DEF Init
<1>2. ~textFile.written /\ ~binaryFile.written
  BY <1>1 DEF NoReport
<1>3. ExactFile(textFile) /\ ExactFile(binaryFile)
  BY <1>2 DEF ExactFile
<1> QED BY <1>3, FilesApart

\* Only the aggregator writes the files.
LEMMA FileWriters ==
    ASSUME [Next]_vars
    PROVE  UNCHANGED <<textFile, binaryFile>> \/ WriteText \/ WriteBinary
<1> USE DEF readerVars, regionAVars, dispatcherVars, regionBVars, regionDVars,
            workerVars, resultVars, aggregatorVars
<1>1. UNCHANGED vars => UNCHANGED <<textFile, binaryFile>>
  BY DEF vars
<1>2. ASSUME NEW r \in Readers, Reader(r) \/ ReaderDies(r) PROVE UNCHANGED <<textFile, binaryFile>>
  BY <1>2 DEF Reader, PushA, PushABlocks, ReaderDies
<1>3. Dispatcher => UNCHANGED <<textFile, binaryFile>>
  BY DEF Dispatcher, PopA, PopAWaits, PopATimesOut, CheckAllDone, HandleEof, PushB, PushBWaits, PushD,
         PushDWaits, DispatcherFinishes
<1>4. ASSUME NEW k \in Levels, NEW v \in Workers, Worker(k, v) PROVE UNCHANGED <<textFile, binaryFile>>
  BY <1>4 DEF Worker, PopB, PopBWaits, Score, ReachBarrier, MergeTls
<1>5. ASSUME NEW k \in Levels, Analyzer(k) PROVE UNCHANGED <<textFile, binaryFile>>
  BY <1>5 DEF Analyzer, JoinAndRank, PublishResult, PostLevelReady
<1>6. Aggregator => UNCHANGED <<textFile, binaryFile>> \/ WriteText \/ WriteBinary
  BY DEF Aggregator, PopD, PopDWaits, HighPriorityDone, AggregatorTimesOut, CollectWaits, SeesReady,
         TakeLevelReady
<1> QED BY <1>1, <1>2, <1>3, <1>4, <1>5, <1>6 DEF Next, Terminated

\* A file is written once, with the results of all lines.
LEMMA FilesStep ==
    ASSUME PipelineTypes, EofInv, QueueInv, AnalyzerInv, MergeInv, DownstreamInv, SumsInv, CopiesInv,
           AggregatorInv, FilesInv, [Next]_vars
    PROVE  FilesInv'
<1> USE DEF readerVars, regionAVars, dispatcherVars, regionBVars, regionDVars,
            workerVars, resultVars, aggregatorVars
<1>0. ExactFile(textFile) /\ ExactFile(binaryFile)
  BY FilesApart
<1>1. ASSUME UNCHANGED <<textFile, binaryFile>> PROVE FilesInv'
  BY <1>1 DEF FilesInv, ReportExact, HighPriorityExact, LinesOfLevel, PriorityLines, TotalWeight
<1>2. ASSUME gpc \in {"text", "binary"} PROVE ExactFile(Report)
  <2>1. Report.results = results /\ Report.high = highPriority
    BY DEF Report
  <2>2. /\ \A l \in Levels :
                /\ results[l].entries = Cardinality(LinesOfLevel(l))
                /\ results[l].score = TotalWeight(LinesOfLevel(l))
                /\ Total(results[l].perThread, Workers) = results[l].score
        /\ highPriority = [entries |-> Cardinality(PriorityLines), score |-> TotalWeight(PriorityLines)]
    BY <1>2, ResultsExact
  <2> QED BY <2>1, <2>2 DEF ExactFile
<1>3. ASSUME WriteText \/ WriteBinary PROVE FilesInv'
  <2>1. /\ gpc \in {"text", "binary"}
        /\ textFile' = Report \/ textFile' = textFile
        /\ binaryFile' = Report \/ binaryFile' = binaryFile
    BY <1>3 DEF WriteText, WriteBinary
  <2>2. ExactFile(textFile') /\ ExactFile(binaryFile')
    BY <1>0, <1>2, <2>1
  <2>3. FilesInv' <=> ExactFile(textFile') /\ ExactFile(binaryFile')
    BY DEF FilesInv, ReportExact, HighPriorityExact, ExactFile
  <2> QED BY <2>2, <2>3
<1> QED BY <1>1, <1>3, FileWriters

-----------------------------------------------------------------------------
(* Theorems                                                                *)

\* The inductive invariant: types, then what holds upstream of Region B, at its
\* queues, at Region C, of the lines' and the copies' whereabouts, of the
\* aggregator and of the files.
PipelineInv ==
    /\ PipelineTypes /\ EofInv /\ QueueInv /\ AnalyzerInv /\ MergeInv
    /\ DownstreamInv /\ SumsInv /\ CopiesInv /\ AggregatorInv /\ FilesInv

\* The pipeline keeps its invariant for any readers, lines, levels, workers and
\* capacities, with readers that die and timed waits that expire at any time.
THEOREM PipelineCorrect == Spec => []PipelineInv
<1>1. Init => PipelineInv
  BY TypesInit, EofInit, QueueInit, ResultsInit, LinesInit, CopiesInit, AggregatorInit, FilesInit
     DEF PipelineInv
<1>2. PipelineInv /\ [Next]_vars => PipelineInv'
  <2> SUFFICES ASSUME PipelineInv, [Next]_vars PROVE PipelineInv'
    OBVIOUS
  <2>1. /\ PipelineTypes /\ EofInv /\ QueueInv /\ AnalyzerInv /\ MergeInv
        /\ DownstreamInv /\ SumsInv /\ CopiesInv /\ AggregatorInv /\ FilesInv
    BY DEF PipelineInv
  <2>2. PipelineTypes'
    BY <2>1, TypesStep
  <2>3. EofInv'
    BY <2>1, EofStep
  <2>4. QueueInv'
    BY <2>1, QueueStep
  <2>5. AnalyzerInv' /\ MergeInv'
    BY <2>1, ResultsStep
  <2>6. DownstreamInv' /\ SumsInv'
    BY <2>1, LinesStep
  <2>7. CopiesInv'
    BY <2>1, CopiesStep
  <2>8. AggregatorInv'
    BY <2>1, AggregatorStep
  <2>9. FilesInv'
    BY <2>1, FilesStep
  <2> QED BY <2>2, <2>3, <2>4, <2>5, <2>6, <2>7, <2>8, <2>9 DEF PipelineInv
<1> QED BY <1>1, <1>2, PTL DEF Spec

\* Type correctness of all regions, with the capacities of the queues.
THEOREM PipelineTyped == Spec => []TypeOK
<1>1. PipelineInv => TypeOK
  BY DEF PipelineInv, PipelineTypes
<1> QED BY <1>1, PipelineCorrect, PTL

\* eof_posted keeps its promise: a closed level has no line upstream of its
\* Region B, whichever order readers, lines and markers came in.
THEOREM EofIsFinal == Spec => []EofClosesLevel
<1>1. PipelineInv => EofClosesLevel
  BY ClosedLevels DEF PipelineInv
<1> QED BY <1>1, PipelineCorrect, PTL

\* No wake-up on not_empty_b is lost: signals wake one worker per entry and the
\* broadcast at EOF wakes the rest.
THEOREM NoEntryIsStranded == Spec => []NoStrandedEntries
<1>1. PipelineInv => NoStrandedEntries
  BY DEF PipelineInv, QueueInv
<1> QED BY <1>1, PipelineCorrect, PTL

\* The aggregator never reads a partial sum: no step changes a ready result.
THEOREM ReadyResultsAreFinal == Spec => ReadyIsFinal
<1> DEFINE Final == \A l \in Levels : results[l].ready => results'[l] = results[l]
<1>1. PipelineInv /\ [Next]_vars => [Final]_vars
  <2> SUFFICES ASSUME PipelineInv, Next PROVE Final
    OBVIOUS
  <2>1. PipelineTypes /\ AnalyzerInv
    BY DEF PipelineInv
  <2> QED BY <2>1, ReadyKept
<1>2. ReadyIsFinal <=> [][Final]_vars
  BY DEF ReadyIsFinal
<1> HIDE DEF Final
<1> QED BY <1>1, <1>2, PipelineCorrect, PTL DEF Spec

\* A report on disk counts every line of every file exactly once, and its
\* per-thread contributions add up.
THEOREM ReportsAreExact == Spec => []ReportExact
<1>1. PipelineInv => ReportExact
  BY DEF PipelineInv, FilesInv
<1> QED BY <1>1, PipelineCorrect, PTL

\* A report on disk has the exact high-priority count and score.
THEOREM HighPriorityIsExact == Spec => []HighPriorityExact
<1>1. PipelineInv => HighPriorityExact
  BY DEF PipelineInv, FilesInv
<1> QED BY <1>1, PipelineCorrect, PTL

-----------------------------------------------------------------------------
(* The source table and the top-3 list                                     *)

Names == {SourceOf[n] : n \in Lines}

\* A slot of the source table, and one of the three of a list.
TableSlot == [source : Names, hits : Nat \ {0}]
ListSlot  == [source : Names \cup {NoSource}, hits : Nat]

\* A table has a slot for each of its sources.
GoodTable(t) ==
    /\ t \in Seq(TableSlot)
    /\ \A i, j \in 1..Len(t) : t[i].source = t[j].source => i = j

\* The list b ranks the first i slots of the table.
Ranks(b, t, i) ==
    /\ b \in [1..3 -> ListSlot]
    /\ \A j \in 1..3 : b[j].source = NoSource => b[j].hits = 0
    /\ \A j \in 1..3 : b[j].source # NoSource => \E m \in 1..i : b[j] = t[m]
    /\ \A j, k \in 1..3 : b[j].source # NoSource /\ b[j].source = b[k].source => j = k
    /\ b[1].hits >= b[2].hits /\ b[2].hits >= b[3].hits
    /\ \A m \in 1..i : t[m].hits <= b[3].hits \/ \E j \in 1..3 : b[j] = t[m]

\* Where a slot goes in a list.
LEMMA InsertTop3Effect ==
    ASSUME NEW b \in [1..3 -> ListSlot], NEW s \in ListSlot,
           b[1].hits >= b[2].hits, b[2].hits >= b[3].hits
    PROVE  LET c == InsertTop3(b, s)
           IN  /\ c \in [1..3 -> ListSlot]
               /\ \/ s.hits <= b[3].hits /\ c = b
                  \/ s.hits > b[1].hits /\ c[1] = s /\ c[2] = b[1] /\ c[3] = b[2]
                  \/ s.hits <= b[1].hits /\ s.hits > b[2].hits /\ c[1] = b[1] /\ c[2] = s /\ c[3] = b[2]
                  \/ s.hits <= b[2].hits /\ s.hits > b[3].hits /\ c[1] = b[1] /\ c[2] = b[2] /\ c[3] = s
<1> DEFINE beaten == {j \in 1..3 : s.hits > b[j].hits}
           first == CHOOSE k \in beaten : \A m \in beaten : k <= m
           c == InsertTop3(b, s)
<1>1. s.hits \in Nat /\ b[1].hits \in Nat /\ b[2].hits \in Nat /\ b[3].hits \in Nat
  BY DEF ListSlot
<1>2. CASE beaten = {}
  <2>1. c = b
    BY <1>2 DEF InsertTop3
  <2>2. s.hits <= b[3].hits
    BY <1>1, <1>2
  <2> QED BY <2>1, <2>2
<1>3. CASE beaten # {}
  <2>1. c = [i \in 1..3 |-> IF i < first THEN b[i] ELSE IF i = first THEN s ELSE b[i - 1]]
    BY <1>3 DEF InsertTop3
  <2>2. first \in 1..3 /\ first \in beaten /\ \A m \in beaten : first <= m
    <3>1. beaten \in SUBSET Nat /\ beaten \subseteq 1..3
      OBVIOUS
    <3> HIDE DEF beaten
    <3>2. \E k \in beaten : \A m \in beaten : k <= m
      BY <1>3, <3>1, LeastNatural
    <3>3. first \in beaten /\ \A m \in beaten : first <= m
      BY <3>2
    <3> HIDE DEF first
    <3> QED BY <3>1, <3>3
  <2> HIDE DEF c, first
  <2>3. CASE s.hits > b[1].hits
    <3>1. 1 \in beaten /\ \A m \in beaten : 1 <= m
      BY <2>3
    <3>2. first = 1
      BY <2>2, <3>1
    <3>3. c = [i \in 1..3 |-> IF i < 1 THEN b[i] ELSE IF i = 1 THEN s ELSE b[i - 1]]
      BY <2>1, <3>2
    <3>4. c[1] = s /\ c[2] = b[1] /\ c[3] = b[2]
      BY <3>3
    <3>5. c \in [1..3 -> ListSlot]
      BY <3>3
    <3> QED BY <2>3, <3>4, <3>5 DEF c
  <2>4. CASE s.hits <= b[1].hits /\ s.hits > b[2].hits
    <3>1. 2 \in beaten /\ \A m \in beaten : 2 <= m
      BY <1>1, <2>4
    <3>2. first = 2
      BY <2>2, <3>1
    <3>3. c = [i \in 1..3 |-> IF i < 2 THEN b[i] ELSE IF i = 2 THEN s ELSE b[i - 1]]
      BY <2>1, <3>2
    <3>4. c[1] = b[1] /\ c[2] = s /\ c[3] = b[2]
      BY <3>3
    <3>5. c \in [1..3 -> ListSlot]
      BY <3>3
    <3> QED BY <2>4, <3>4, <3>5 DEF c
  <2>5. CASE s.hits <= b[2].hits
    <3>1. 3 \in beaten /\ \A m \in beaten : 3 <= m
      BY <1>1, <1>3, <2>5
    <3>2. first = 3
      BY <2>2, <3>1
    <3>3. c = [i \in 1..3 |-> IF i < 3 THEN b[i] ELSE IF i = 3 THEN s ELSE b[i - 1]]
      BY <2>1, <3>2
    <3>4. c[1] = b[1] /\ c[2] = b[2] /\ c[3] = s
      BY <3>3
    <3>5. c \in [1..3 -> ListSlot]
      BY <3>3
    <3>6. s.hits > b[3].hits
      BY <3>1
    <3> QED BY <2>5, <3>4, <3>5, <3>6 DEF c
  <2> QED BY <1>1, <2>3, <2>4, <2>5
<1> QED BY <1>2, <1>3

\* No source of a line has the empty name.
LEMMA NamesFacts ==
    /\ NoSource \notin Names
    /\ TableSlot \subseteq ListSlot
    /\ \A n \in Lines : SourceOf[n] \in Names
<1>1. NoSource \notin Names
  BY ConstantsAssumption DEF Names
<1>2. TableSlot \subseteq ListSlot
  BY DEF TableSlot, ListSlot
<1>3. \A n \in Lines : SourceOf[n] \in Names
  BY DEF Names
<1> QED BY <1>1, <1>2, <1>3

\* One iteration of compute_top3's outer loop: the list ranks one more slot.
LEMMA InsertRanks ==
    ASSUME NEW t, GoodTable(t), NEW i \in 1..Len(t), NEW b, Ranks(b, t, i - 1)
    PROVE  Ranks(InsertTop3(b, t[i]), t, i)
<1>1. PICK s \in TableSlot : s = t[i]
  BY DEF GoodTable
<1>2. PICK c : c = InsertTop3(b, s)
  OBVIOUS
<1>3. /\ s \in ListSlot /\ s.source \in Names /\ s.source # NoSource /\ s.hits \in Nat /\ s.hits > 0
      /\ i \in Nat /\ Len(t) \in Nat
  BY <1>1, NamesFacts DEF TableSlot, GoodTable
<1>4. /\ b \in [1..3 -> ListSlot]
      /\ b[1].hits \in Nat /\ b[2].hits \in Nat /\ b[3].hits \in Nat
      /\ b[1].hits >= b[2].hits /\ b[2].hits >= b[3].hits
  BY DEF Ranks, ListSlot
<1>5. /\ \A j \in 1..3 : b[j].source = NoSource => b[j].hits = 0
      /\ \A j \in 1..3 : b[j].source # NoSource => \E m \in 1..(i - 1) : b[j] = t[m]
      /\ \A j, k \in 1..3 : b[j].source # NoSource /\ b[j].source = b[k].source => j = k
      /\ \A m \in 1..(i - 1) : t[m].hits <= b[3].hits \/ \E j \in 1..3 : b[j] = t[m]
  BY DEF Ranks
<1>6. /\ c \in [1..3 -> ListSlot]
      /\ \/ s.hits <= b[3].hits /\ c = b
         \/ s.hits > b[1].hits /\ c[1] = s /\ c[2] = b[1] /\ c[3] = b[2]
         \/ s.hits <= b[1].hits /\ s.hits > b[2].hits /\ c[1] = b[1] /\ c[2] = s /\ c[3] = b[2]
         \/ s.hits <= b[2].hits /\ s.hits > b[3].hits /\ c[1] = b[1] /\ c[2] = b[2] /\ c[3] = s
  BY <1>2, <1>3, <1>4, InsertTop3Effect
<1>7. \A j \in 1..3 : j = 1 \/ j = 2 \/ j = 3
  OBVIOUS
<1>8. /\ 1 \in 1..3 /\ 2 \in 1..3 /\ 3 \in 1..3
      /\ \A m \in 1..(i - 1) : m \in 1..i /\ m \in 1..Len(t) /\ m # i
      /\ i \in 1..i
      /\ \A m \in 1..i : m \in 1..(i - 1) \/ m = i
  BY <1>3
\* the source of the new slot is not in the list yet
<1>9. \A j \in 1..3 : b[j].source # s.source
  <2> SUFFICES ASSUME NEW j \in 1..3, b[j].source = s.source PROVE FALSE
    OBVIOUS
  <2>1. PICK m \in 1..(i - 1) : b[j] = t[m]
    BY <1>3, <1>5
  <2>2. t[m].source = t[i].source
    BY <1>1, <2>1
  <2> QED BY <1>8, <2>2 DEF GoodTable
\* every slot of the new list is the new slot or one of the old list
<1>10. \A j \in 1..3 : c[j] = s \/ \E k \in 1..3 : c[j] = b[k]
  BY <1>6, <1>7, <1>8
<1>11. \A j \in 1..3 : c[j].source = NoSource => c[j].hits = 0
  BY <1>3, <1>5, <1>10
<1>12. \A j \in 1..3 : c[j].source # NoSource => \E m \in 1..i : c[j] = t[m]
  <2> SUFFICES ASSUME NEW j \in 1..3, c[j].source # NoSource PROVE \E m \in 1..i : c[j] = t[m]
    OBVIOUS
  <2>1. CASE c[j] = s
    BY <1>1, <1>8, <2>1
  <2>2. ASSUME NEW k \in 1..3, c[j] = b[k] PROVE \E m \in 1..i : c[j] = t[m]
    BY <1>5, <1>8, <2>2
  <2> QED BY <1>10, <2>1, <2>2
<1>13. \A j, k \in 1..3 : c[j].source # NoSource /\ c[j].source = c[k].source => j = k
  <2>1. /\ b[1].source # NoSource => b[1].source # b[2].source /\ b[1].source # b[3].source
        /\ b[2].source # NoSource => b[2].source # b[3].source /\ b[2].source # b[1].source
        /\ b[3].source # NoSource => b[3].source # b[1].source /\ b[3].source # b[2].source
        /\ b[1].source # s.source /\ b[2].source # s.source /\ b[3].source # s.source
    BY <1>5, <1>8, <1>9
  <2>2. /\ c[1].source # NoSource => c[1].source # c[2].source /\ c[1].source # c[3].source
        /\ c[2].source # NoSource => c[2].source # c[3].source
    BY <1>6, <2>1
  <2> QED BY <1>7, <2>2
<1>14. c[1].hits >= c[2].hits /\ c[2].hits >= c[3].hits /\ c[3].hits >= b[3].hits /\ c[3].hits \in Nat
  <2>1. CASE s.hits <= b[3].hits /\ c = b
    BY <1>4, <2>1
  <2>2. CASE s.hits > b[1].hits /\ c[1] = s /\ c[2] = b[1] /\ c[3] = b[2]
    BY <1>3, <1>4, <2>2
  <2>3. CASE s.hits <= b[1].hits /\ s.hits > b[2].hits /\ c[1] = b[1] /\ c[2] = s /\ c[3] = b[2]
    BY <1>3, <1>4, <2>3
  <2>4. CASE s.hits <= b[2].hits /\ s.hits > b[3].hits /\ c[1] = b[1] /\ c[2] = b[2] /\ c[3] = s
    BY <1>3, <1>4, <2>4
  <2> QED BY <1>6, <2>1, <2>2, <2>3, <2>4
\* a slot that leaves the list is the old third
<1>15. \A j \in 1..3 : (\E k \in 1..3 : c[k] = b[j]) \/ b[j].hits <= c[3].hits
  <2>1. c[1] = b[1] \/ c[2] = b[1]
    BY <1>6
  <2>2. c[2] = b[2] \/ c[3] = b[2]
    BY <1>6
  <2>3. c[3] = b[3] \/ b[3].hits <= c[3].hits
    BY <1>14
  <2> QED BY <1>7, <1>8, <2>1, <2>2, <2>3
<1>16. ASSUME NEW m \in 1..i
       PROVE  t[m].hits <= c[3].hits \/ \E j \in 1..3 : c[j] = t[m]
  <2>1. CASE m = i
    <3>1. s.hits <= c[3].hits \/ c[1] = s \/ c[2] = s \/ c[3] = s
      BY <1>6
    <3> QED BY <1>1, <1>8, <2>1, <3>1
  <2>2. CASE m # i
    <3>1. m \in 1..(i - 1) /\ t[m] \in TableSlot
      BY <1>8, <2>2 DEF GoodTable
    <3>2. t[m].hits \in Nat
      BY <3>1 DEF TableSlot
    <3>3. CASE t[m].hits <= b[3].hits
      <4>1. \A x, y, z \in Nat : x <= y /\ z >= y => x <= z
        OBVIOUS
      <4> QED BY <1>4, <1>14, <3>2, <3>3, <4>1
    <3>4. ASSUME NEW j \in 1..3, b[j] = t[m] PROVE t[m].hits <= c[3].hits \/ \E k \in 1..3 : c[k] = t[m]
      BY <1>15, <3>4
    <3> QED BY <1>5, <3>1, <3>3, <3>4
  <2> QED BY <2>1, <2>2
<1>17. Ranks(c, t, i)
  BY <1>6, <1>11, <1>12, <1>13, <1>14, <1>16 DEF Ranks
<1> QED BY <1>1, <1>2, <1>17

\* The empty list ranks nothing.
LEMMA EmptyRanks == ASSUME NEW t PROVE Ranks(EmptyTop3, t, 0)
<1>1. NoSource \in Names \cup {NoSource} /\ 0 \in Nat
  OBVIOUS
<1>2. Slot(NoSource, 0) \in ListSlot /\ Slot(NoSource, 0).source = NoSource /\ Slot(NoSource, 0).hits = 0
  BY <1>1 DEF Slot, ListSlot
<1>3. PICK e : e = Slot(NoSource, 0)
  OBVIOUS
<1>4. EmptyTop3 = <<e, e, e>>
  BY <1>3 DEF EmptyTop3
<1>5. <<e, e, e>> \in [1..3 -> ListSlot] /\ \A j \in 1..3 : <<e, e, e>>[j] = e
  BY <1>2, <1>3
<1>6. 1..0 = {}
  OBVIOUS
<1> QED BY <1>2, <1>3, <1>4, <1>5, <1>6 DEF Ranks

\* The lists after each slot exist: the recursion in ComputeTop3 defines a
\* function, and each list ranks the slots so far.
LEMMA BestDefined ==
    ASSUME NEW t, GoodTable(t)
    PROVE  \E g : g = [i \in 0..Len(t) |-> IF i = 0 THEN EmptyTop3 ELSE InsertTop3(g[i - 1], t[i])]
<1> DEFINE Step(g, i) == IF i = 0 THEN EmptyTop3 ELSE InsertTop3(g[i - 1], t[i])
           Upto(n) == \E g : DOMAIN g = 0..n /\ g = [i \in 0..n |-> g[i]] /\ \A i \in 0..n : g[i] = Step(g, i)
           Bad == {n \in 0..Len(t) : ~Upto(n)}
<1>1. Len(t) \in Nat
  BY DEF GoodTable
<1>2. Upto(0)
  <2> DEFINE g == [i \in 0..0 |-> EmptyTop3]
  <2>1. \A i \in 0..0 : i = 0 /\ g[i] = EmptyTop3
    OBVIOUS
  <2> QED BY <2>1
<1>3. ASSUME NEW n \in 0..Len(t), n # 0, Upto(n - 1)
      PROVE  Upto(n)
  <2>1. PICK g : \A i \in 0..(n - 1) : g[i] = Step(g, i)
    BY <1>3
  <2> DEFINE h == [i \in 0..n |-> IF i = n THEN InsertTop3(g[n - 1], t[n]) ELSE g[i]]
  <2>2. n \in Nat /\ n - 1 \in 0..n /\ n - 1 # n
    BY <1>1, <1>3
  <2>3. ASSUME NEW i \in 0..n
        PROVE  h[i] = Step(h, i)
    <3>1. CASE i = n
      <4>1. h[i - 1] = g[n - 1]
        BY <2>2, <3>1
      <4> QED BY <1>3, <3>1, <4>1
    <3>2. CASE i # n
      <4>1. i \in 0..(n - 1) /\ (i # 0 => i - 1 \in 0..n /\ i - 1 # n)
        BY <2>2, <3>2
      <4>2. h[i] = g[i] /\ (i # 0 => h[i - 1] = g[i - 1])
        BY <2>2, <3>2, <4>1
      <4> QED BY <2>1, <4>1, <4>2
    <3> QED BY <3>1, <3>2
  <2>4. DOMAIN h = 0..n /\ h = [i \in 0..n |-> h[i]]
    OBVIOUS
  <2> HIDE DEF h, Step
  <2> QED BY <2>3, <2>4
<1>4. Bad = {}
  <2> SUFFICES ASSUME Bad # {} PROVE FALSE
    OBVIOUS
  <2>1. Bad \in SUBSET Nat
    BY <1>1
  <2>2. PICK n \in Bad : \A j \in Bad : n <= j
    <3> HIDE DEF Bad
    <3> QED BY <2>1, LeastNatural
  <2> HIDE DEF Upto
  <2>3. n # 0 /\ n \in 0..Len(t) /\ ~Upto(n)
    BY <1>2, <2>2
  <2>4. n - 1 \in 0..Len(t) /\ n - 1 \notin Bad
    BY <1>1, <2>1, <2>2, <2>3
  <2> QED BY <1>3, <2>3, <2>4
<1>5. Upto(Len(t))
  <2>1. Len(t) \in 0..Len(t)
    BY <1>1
  <2> HIDE DEF Upto
  <2> QED BY <1>4, <2>1
<1>6. PICK g : g = [i \in 0..Len(t) |-> g[i]] /\ \A i \in 0..Len(t) : g[i] = Step(g, i)
  BY <1>5
<1>7. g = [i \in 0..Len(t) |-> Step(g, i)]
  BY <1>6
<1> QED BY <1>7

\* compute_top3 ranks the whole table.
LEMMA ComputeTop3Ranks ==
    ASSUME NEW t, GoodTable(t)
    PROVE  Ranks(ComputeTop3(t), t, Len(t))
<1> DEFINE best == CHOOSE g : g = [i \in 0..Len(t) |-> IF i = 0 THEN EmptyTop3 ELSE InsertTop3(g[i - 1], t[i])]
           Bad == {i \in 0..Len(t) : ~Ranks(best[i], t, i)}
<1>1. Len(t) \in Nat
  BY DEF GoodTable
<1>2. ComputeTop3(t) = best[Len(t)]
  BY DEF ComputeTop3
<1>3. best = [i \in 0..Len(t) |-> IF i = 0 THEN EmptyTop3 ELSE InsertTop3(best[i - 1], t[i])]
  BY BestDefined
<1> HIDE DEF best
<1>4. Ranks(best[0], t, 0)
  <2>1. best[0] = EmptyTop3
    BY <1>1, <1>3
  <2> QED BY <2>1, EmptyRanks
<1>5. ASSUME NEW i \in 1..Len(t), Ranks(best[i - 1], t, i - 1)
      PROVE  Ranks(best[i], t, i)
  <2>1. best[i] = InsertTop3(best[i - 1], t[i])
    BY <1>1, <1>3
  <2> QED BY <1>5, <2>1, InsertRanks
<1>6. Bad = {}
  <2> SUFFICES ASSUME Bad # {} PROVE FALSE
    OBVIOUS
  <2>1. Bad \in SUBSET Nat
    BY <1>1
  <2>2. PICK n \in Bad : \A j \in Bad : n <= j
    <3> HIDE DEF Bad
    <3> QED BY <2>1, LeastNatural
  <2>3. n \in 1..Len(t) /\ ~Ranks(best[n], t, n)
    BY <1>1, <1>4, <2>2
  <2>4. n - 1 \in 0..Len(t) /\ n - 1 \notin Bad
    BY <1>1, <2>1, <2>2, <2>3
  <2> QED BY <1>5, <2>3, <2>4
<1>7. Len(t) \in 0..Len(t)
  BY <1>1
<1> QED BY <1>2, <1>6, <1>7

\* What a table says a source has earned: earned[s] for every source in it, and
\* while it has room every source that has earned anything is in it.
Tells(t, earned) ==
    /\ GoodTable(t) /\ Len(t) <= MaxSources
    /\ \A i \in 1..Len(t) : t[i].hits = earned[t[i].source]
    /\ Len(t) < MaxSources => \A s \in Names : earned[s] > 0 => \E i \in 1..Len(t) : t[i].source = s

\* update_source_hits keeps the table right when the source's score grows.
LEMMA UpdateSourceHitsTells ==
    ASSUME NEW t, NEW earned \in [Names -> Nat], NEW after \in [Names -> Nat], Tells(t, earned),
           NEW src \in Names, NEW h \in Nat \ {0},
           after[src] = earned[src] + h, \A s \in Names : s # src => after[s] = earned[s]
    PROVE  Tells(UpdateSourceHits(t, src, h), after)
<1> DEFINE slots == {i \in 1..Len(t) : t[i].source = src}
           u == UpdateSourceHits(t, src, h)
<1>1. /\ t \in Seq(TableSlot) /\ Len(t) \in Nat /\ Len(t) <= MaxSources /\ MaxSources \in Nat
      /\ \A i \in 1..Len(t) : t[i].source \in Names /\ t[i].hits \in Nat \ {0} /\ t[i].hits = earned[t[i].source]
      /\ \A i, j \in 1..Len(t) : t[i].source = t[j].source => i = j
      /\ Len(t) < MaxSources => \A s \in Names : earned[s] > 0 => \E i \in 1..Len(t) : t[i].source = s
  <2>1. t \in Seq(TableSlot) /\ Len(t) \in Nat /\ \A i \in 1..Len(t) : t[i] \in TableSlot
    BY DEF Tells, GoodTable
  <2>2. \A x \in TableSlot : x.source \in Names /\ x.hits \in Nat \ {0}
    BY DEF TableSlot
  <2>3. MaxSources \in Nat
    BY MaxSourcesAssumption
  <2> QED BY <2>1, <2>2, <2>3 DEF Tells, GoodTable
<1>2. CASE slots # {}
  <2> DEFINE c == CHOOSE j \in slots : \A k \in slots : j <= k
  <2>1. slots \in SUBSET Nat /\ slots \subseteq 1..Len(t) /\ \A i \in slots : t[i].source = src
    OBVIOUS
  <2>2. c \in slots
    <3> HIDE DEF slots
    <3>1. \E j \in slots : \A k \in slots : j <= k
      BY <1>2, <2>1, LeastNatural
    <3> QED BY <3>1
  <2>3. u = [t EXCEPT ![c].hits = @ + h]
    BY <1>2 DEF UpdateSourceHits
  <2>4. PICK i \in 1..Len(t) : t[i].source = src /\ u = [t EXCEPT ![i].hits = @ + h]
    BY <2>1, <2>2, <2>3
  <2>5. PICK e \in Nat \ {0} : e = t[i].hits + h
    BY <1>1
  <2>6. u = [t EXCEPT ![i] = [source |-> src, hits |-> e]]
    <3>1. t[i] \in TableSlot
      BY <1>1
    <3>2. [t[i] EXCEPT !.hits = e] = [source |-> src, hits |-> e]
      <4>1. ASSUME NEW x \in TableSlot, x.source = src PROVE [x EXCEPT !.hits = e] = [source |-> src, hits |-> e]
        BY <4>1 DEF TableSlot
      <4> QED BY <2>4, <3>1, <4>1
    <3>3. u = [t EXCEPT ![i] = [t[i] EXCEPT !.hits = t[i].hits + h]]
      BY <2>4
    <3> QED BY <2>5, <3>2, <3>3
  <2> HIDE DEF u
  <2>7. [source |-> src, hits |-> e] \in TableSlot
    BY DEF TableSlot
  <2>8. /\ u \in Seq(TableSlot) /\ Len(u) = Len(t)
        /\ u[i] = [source |-> src, hits |-> e] /\ \A j \in 1..Len(t) : j # i => u[j] = t[j]
    BY <1>1, <2>6, <2>7
  <2>9. /\ \A j \in 1..Len(t) : u[j].source = t[j].source
        /\ u[i].hits = after[src] /\ u[i].source = src
    <3>1. u[i].source = src /\ u[i].hits = e
      BY <2>8
    <3>2. e = after[src]
      BY <1>1, <2>4, <2>5
    <3>3. \A j \in 1..Len(t) : j # i => u[j].source = t[j].source
      BY <2>8
    <3> QED BY <2>4, <3>1, <3>2, <3>3
  <2>10. \A j \in 1..Len(t) : j # i => u[j].hits = after[u[j].source]
    BY <1>1, <2>4, <2>8, <2>9
  <2>11. \A j \in 1..Len(u) : u[j].hits = after[u[j].source]
    BY <2>8, <2>9, <2>10
  <2>12. ASSUME Len(u) < MaxSources, NEW s \in Names, after[s] > 0
         PROVE  \E j \in 1..Len(u) : u[j].source = s
    <3>1. CASE s = src
      BY <2>8, <2>9, <3>1
    <3>2. CASE s # src
      BY <1>1, <2>8, <2>9, <2>12, <3>2
    <3> QED BY <3>1, <3>2
  <2>13. GoodTable(u)
    BY <1>1, <2>8, <2>9 DEF GoodTable
  <2>14. Tells(u, after)
    BY <1>1, <2>8, <2>11, <2>12, <2>13 DEF Tells
  <2> QED BY <2>14 DEF u
<1>3. CASE slots = {} /\ Len(t) < MaxSources
  <2>0. PICK k \in Nat : k = Len(t)
    BY <1>1
  <2>1. PICK x : x = Slot(src, h)
    OBVIOUS
  <2>2. u = Append(t, x)
    BY <1>3, <2>1 DEF UpdateSourceHits
  <2> HIDE DEF u
  <2>3. x \in TableSlot /\ x.source = src /\ x.hits = h
    BY <2>1 DEF Slot, TableSlot
  <2>4. u \in Seq(TableSlot) /\ Len(u) = k + 1 /\ u[k + 1] = x /\ \A j \in 1..k : u[j] = t[j]
    BY <1>1, <2>0, <2>2, <2>3
  <2>5. \A j \in 1..(k + 1) : j \in 1..k \/ j = k + 1
    BY <2>0
  <2>6. \A j \in 1..k : t[j].source # src
    BY <1>3, <2>0
  <2>7. earned[src] = 0
    BY <1>1, <1>3, <2>0, <2>6
  <2>8. \A j \in 1..Len(u) : u[j].hits = after[u[j].source]
    BY <1>1, <2>0, <2>3, <2>4, <2>5, <2>6, <2>7
  <2>9. GoodTable(u)
    <3>1. \A i, j \in 1..(k + 1) : u[i].source = u[j].source => i = j
      BY <1>1, <2>0, <2>3, <2>4, <2>5, <2>6
    <3> QED BY <2>4, <3>1 DEF GoodTable
  <2>10. ASSUME NEW s \in Names, after[s] > 0 PROVE \E j \in 1..Len(u) : u[j].source = s
    <3>1. CASE s = src
      BY <2>0, <2>3, <2>4, <3>1
    <3>2. CASE s # src
      <4>1. PICK j \in 1..k : t[j].source = s
        BY <1>1, <1>3, <2>0, <2>10, <3>2
      <4>2. j \in 1..(k + 1)
        BY <2>0
      <4> QED BY <2>4, <4>1, <4>2
    <3> QED BY <3>1, <3>2
  <2>11. Len(u) <= MaxSources
    BY <1>1, <1>3, <2>0, <2>4
  <2>12. Tells(u, after)
    BY <2>8, <2>9, <2>10, <2>11 DEF Tells
  <2> QED BY <2>12 DEF u
<1>4. CASE slots = {} /\ ~(Len(t) < MaxSources)
  <2>1. u = t
    BY <1>4 DEF UpdateSourceHits
  <2>2. \A j \in 1..Len(t) : t[j].source # src
    BY <1>4
  <2>3. \A j \in 1..Len(t) : t[j].hits = after[t[j].source]
    BY <1>1, <2>2
  <2>4. Tells(t, after)
    BY <1>4, <2>3 DEF Tells
  <2> QED BY <2>1, <2>4
<1> QED BY <1>2, <1>3, <1>4

\* What each source has earned from the lines of S.
EarnedFrom(S) == [s \in Names |-> TotalWeight({n \in S : SourceOf[n] = s})]

\* Scores are natural numbers, and a positive one comes from a line.
LEMMA EarnedType ==
    ASSUME NEW S \in SUBSET Lines
    PROVE  /\ EarnedFrom(S) \in [Names -> Nat]
           /\ \A s \in Names : EarnedFrom(S)[s] > 0 => \E n \in S : SourceOf[n] = s
<1> DEFINE f == [n \in Lines |-> Weighted(n)]
           Of(s) == {n \in S : SourceOf[n] = s}
<1>1. ASSUME NEW s \in Names PROVE Total(f, Of(s)) \in Nat /\ (Of(s) = {} => Total(f, Of(s)) = 0)
  <2>1. PICK T \in SUBSET Lines : T = Of(s)
    OBVIOUS
  <2>2. IsFiniteSet(T)
    BY ConstantsAssumption, FS_Subset
  <2>3. \A x \in T : f[x] \in Nat
    BY WeightedType
  <2> HIDE DEF f
  <2>4. Total(f, T) \in Nat
    BY <2>2, <2>3, UnitsAreFinite
  <2>5. T = {} => Total(f, T) = 0
    BY TotalOfNone
  <2> QED BY <2>1, <2>4, <2>5
<1>2. EarnedFrom(S) = [s \in Names |-> Total(f, Of(s))]
  BY DEF EarnedFrom, TotalWeight
<1>3. \A s \in Names : (\E n \in S : SourceOf[n] = s) \/ Of(s) = {}
  OBVIOUS
<1> HIDE DEF f, Of
<1>4. EarnedFrom(S) \in [Names -> Nat]
  BY <1>1, <1>2
<1>5. ASSUME NEW s \in Names, EarnedFrom(S)[s] > 0 PROVE \E n \in S : SourceOf[n] = s
  <2>1. Total(f, Of(s)) > 0
    BY <1>2, <1>5
  <2> QED BY <1>1, <1>3, <2>1
<1> QED BY <1>4, <1>5

\* One more line adds its weight to the score of its source.
LEMMA EarnedGrows ==
    ASSUME NEW S \in SUBSET Lines, NEW n \in Lines, n \notin S
    PROVE  /\ EarnedFrom(S \cup {n})[SourceOf[n]] = EarnedFrom(S)[SourceOf[n]] + Weighted(n)
           /\ \A s \in Names : s # SourceOf[n] => EarnedFrom(S \cup {n})[s] = EarnedFrom(S)[s]
<1> DEFINE f == [m \in Lines |-> Weighted(m)]
           Of(U, s) == {m \in U : SourceOf[m] = s}
<1>1. PICK src \in Names : src = SourceOf[n]
  BY NamesFacts
<1>2. \A U \in SUBSET Lines, s \in Names : EarnedFrom(U)[s] = Total(f, Of(U, s))
  BY DEF EarnedFrom, TotalWeight
<1>3. S \cup {n} \in SUBSET Lines
  OBVIOUS
<1>4. Of(S \cup {n}, src) = Of(S, src) \cup {n} /\ n \notin Of(S, src) /\ Of(S, src) \in SUBSET Lines
  BY <1>1
<1>5. \A s \in Names : s # src => Of(S \cup {n}, s) = Of(S, s)
  BY <1>1
<1>6. \A x \in Lines : f[x] \in Nat
  BY WeightedType
<1>7. f[n] = Weighted(n)
  OBVIOUS
<1> HIDE DEF f, Of
<1>8. PICK T \in SUBSET Lines : T = Of(S, src)
  BY <1>4
<1>9. Total(f, T \cup {n}) = Total(f, T) + f[n]
  <2>1. IsFiniteSet(T) /\ n \notin T
    BY <1>4, <1>8, ConstantsAssumption, FS_Subset
  <2>2. \A y \in T \cup {n} : f[y] \in Nat
    BY <1>6
  <2> QED BY <2>1, <2>2, TotalAdds
<1>10. EarnedFrom(S \cup {n})[src] = EarnedFrom(S)[src] + Weighted(n)
  <2>1. EarnedFrom(S \cup {n})[src] = Total(f, T \cup {n}) /\ EarnedFrom(S)[src] = Total(f, T)
    BY <1>2, <1>3, <1>4, <1>8
  <2> QED BY <1>7, <1>9, <2>1
<1>11. \A s \in Names : s # src => EarnedFrom(S \cup {n})[s] = EarnedFrom(S)[s]
  BY <1>2, <1>3, <1>5
<1> QED BY <1>1, <1>10, <1>11

\* The list of a table that tells the scores of all lines is what
\* TopSourcesExact asks for.
LEMMA TopOfTable ==
    ASSUME NEW l \in Levels, NEW t, Tells(t, EarnedFrom(LinesOfLevel(l))), NEW top, top = ComputeTop3(t)
    PROVE  TopListExact(l, top)
<1> DEFINE S == LinesOfLevel(l)
           shown == {i \in 1..3 : top[i].source # NoSource}
           listed == {top[i].source : i \in shown}
           scoring == {s \in {SourceOf[n] : n \in S} : SourceScore(l, s) > 0}
           earned == EarnedFrom(S)
<1>1. Ranks(top, t, Len(t)) /\ Len(t) \in Nat
  BY ComputeTop3Ranks DEF Tells, GoodTable
<1>2. /\ \A i \in 1..Len(t) : t[i].source \in Names /\ t[i].hits \in Nat \ {0} /\ t[i].hits = earned[t[i].source]
      /\ \A i, j \in 1..Len(t) : t[i].source = t[j].source => i = j
  <2>1. \A i \in 1..Len(t) : t[i] \in TableSlot
    BY DEF Tells, GoodTable
  <2>2. \A x \in TableSlot : x.source \in Names /\ x.hits \in Nat \ {0}
    BY DEF TableSlot
  <2> QED BY <2>1, <2>2 DEF Tells, GoodTable
<1>3. S \in SUBSET Lines
  BY DEF LinesOfLevel
<1>4. \A s \in Names : earned[s] = SourceScore(l, s)
  BY DEF EarnedFrom, SourceScore
<1>5. earned \in [Names -> Nat] /\ \A s \in Names : earned[s] > 0 => \E n \in S : SourceOf[n] = s
  BY <1>3, EarnedType
<1>6. scoring \subseteq Names
  BY <1>3 DEF Names
<1>7. \A s \in Names : s \in scoring <=> earned[s] > 0
  BY <1>4, <1>5
<1>8. IsFiniteSet(scoring)
  <2>1. IsFiniteSet(S)
    BY <1>3, ConstantsAssumption, FS_Subset
  <2>2. IsFiniteSet({SourceOf[n] : n \in S})
    <3> HIDE DEF S
    <3> QED BY <2>1, FiniteImage
  <2>3. scoring \subseteq {SourceOf[n] : n \in S}
    OBVIOUS
  <2> HIDE DEF scoring, S
  <2> QED BY <2>2, <2>3, FS_Subset
<1> HIDE DEF S, scoring, earned
<1>9. \A i \in 1..Len(t) : t[i].source \in scoring /\ t[i].hits = SourceScore(l, t[i].source)
  BY <1>2, <1>4, <1>5, <1>7
<1>10. \A i \in shown : /\ top[i].source \in scoring
                        /\ top[i].hits = SourceScore(l, top[i].source)
  <2> SUFFICES ASSUME NEW i \in shown
               PROVE  top[i].source \in scoring /\ top[i].hits = SourceScore(l, top[i].source)
    OBVIOUS
  <2>1. PICK m \in 1..Len(t) : top[i] = t[m]
    BY <1>1 DEF Ranks
  <2> QED BY <1>9, <2>1
<1>11. \A i, j \in shown : top[i].source = top[j].source => i = j
  BY <1>1 DEF Ranks
<1>12. \A i \in 1..2 : top[i].hits >= top[i + 1].hits
  <2>1. \A i \in 1..2 : i = 1 \/ i = 2
    OBVIOUS
  <2>2. top[1].hits >= top[1 + 1].hits /\ top[2].hits >= top[2 + 1].hits
    BY <1>1 DEF Ranks
  <2> QED BY <2>1, <2>2
\* all scoring sources are in the table unless it overflowed
<1>13. ASSUME Cardinality(scoring) <= MaxSources, NEW s \in scoring PROVE \E m \in 1..Len(t) : t[m].source = s
  <2>1. CASE Len(t) < MaxSources
    BY <1>6, <1>7, <2>1 DEF Tells, earned, S
  <2>2. CASE ~(Len(t) < MaxSources)
    <3> DEFINE I == 1..Len(t)
               f == [i \in I |-> t[i].source]
               A == {f[i] : i \in I}
    <3>1. IsFiniteSet(I) /\ Cardinality(I) = Len(t)
      <4>1. \A k \in Nat : IsFiniteSet(1..k) /\ Cardinality(1..k) = k
        BY FS_Interval
      <4> QED BY <1>1, <4>1
    <3>2. \A x, y \in I : f[x] = f[y] => x = y
      BY <1>2
    <3>3. A \subseteq scoring
      BY <1>9
    <3>4. \A i \in I : f[i] = t[i].source
      OBVIOUS
    <3> HIDE DEF f, I
    <3>5. IsFiniteSet(A) /\ Cardinality(A) = Len(t)
      BY <3>1, <3>2, InjectiveImage
    <3> HIDE DEF A
    <3>6. MaxSources \in Nat /\ Cardinality(scoring) \in Nat /\ Cardinality(A) \in Nat
      BY <1>8, <3>5, MaxSourcesAssumption, FS_CardinalityType
    <3>7. Cardinality(A) <= Cardinality(scoring)
      BY <1>8, <3>3, FS_Subset
    <3>8. Cardinality(A) = Cardinality(scoring)
      BY <1>1, <1>13, <2>2, <3>5, <3>6, <3>7
    <3>9. A = scoring
      BY <1>8, <3>3, <3>8, FS_Subset
    <3> QED BY <3>4, <3>9 DEF A, I
  <2> QED BY <2>1, <2>2
<1>14. ASSUME Cardinality(scoring) <= MaxSources, NEW s \in scoring \ listed PROVE SourceScore(l, s) <= top[3].hits
  <2>1. PICK m \in 1..Len(t) : t[m].source = s
    BY <1>13, <1>14
  <2>2. \A j \in 1..3 : top[j] # t[m]
    <3>1. s # NoSource
      BY <1>6, NamesFacts
    <3> QED BY <1>14, <2>1, <3>1
  <2>3. t[m].hits <= top[3].hits
    BY <1>1, <2>2 DEF Ranks
  <2> QED BY <1>9, <2>1, <2>3
<1> QED BY <1>10, <1>11, <1>12, <1>14 DEF scoring, S, TopListExact

-----------------------------------------------------------------------------
(* The top-3 lists of the reports                                          *)

\* Every table tells what its sources have earned from the lines scored so far.
TablesInv ==
    /\ sources \in [Levels -> Seq(TableSlot)]
    /\ \A l \in Levels : Tells(sources[l], EarnedFrom(Scored(l)))

\* An analyzer past compute_top3 has published the list of its table.
ListsInv ==
    \A l \in Levels : analyzer[l] # "join" => results[l].top = ComputeTop3(sources[l])

TopInv == TablesInv /\ ListsInv /\ TopSourcesExact

\* The tables are empty and nothing is on disk.
LEMMA TopInit == Init => TopInv
<1> SUFFICES ASSUME Init PROVE TopInv
  OBVIOUS
<1>1. /\ sources = [l \in Levels |-> <<>>] /\ analyzer = [l \in Levels |-> "join"]
      /\ unread = [r \in Readers |-> {n \in Lines : ReaderOf[n] = r}]
      /\ textFile = NoReport /\ binaryFile = NoReport
  BY DEF Init
<1>2. ASSUME NEW l \in Levels PROVE Tells(<<>>, EarnedFrom(Scored(l)))
  <2>1. Up = Lines
    BY <1>1, EntryFacts DEF Up
  <2>2. Scored(l) = {}
    BY <2>1 DEF Scored
  <2>3. \A s \in Names : ~(EarnedFrom({})[s] > 0)
    <3>1. {} \in SUBSET Lines
      OBVIOUS
    <3> QED BY <3>1, EarnedType
  <2>4. GoodTable(<<>>) /\ Len(<<>>) = 0
    BY DEF GoodTable
  <2>5. 0 <= MaxSources
    BY MaxSourcesAssumption
  <2>6. \A i \in 1..Len(<<>>) : FALSE
    BY <2>4
  <2> QED BY <2>2, <2>3, <2>4, <2>5, <2>6 DEF Tells
<1>3. TablesInv
  BY <1>1, <1>2 DEF TablesInv
<1>4. ListsInv
  BY <1>1 DEF ListsInv
<1>5. TopSourcesExact
  <2>1. ~textFile.written /\ ~binaryFile.written
    BY <1>1 DEF NoReport
  <2> QED BY <2>1 DEF TopSourcesExact
<1> QED BY <1>3, <1>4, <1>5 DEF TopInv

\* worker_main's update_source_hits, when the line scores.
LEMMA ScoreTables ==
    ASSUME PipelineTypes, TablesInv, NEW k \in Levels, NEW v \in Workers, Score(k, v),
           task[k][v] \in Lines, task[k][v] \notin Scored(k), Scored(k)' = Scored(k) \cup {task[k][v]},
           \A l \in Levels : l # k => Scored(l)' = Scored(l)
    PROVE  TablesInv'
<1>1. PICK n \in Lines : n = task[k][v]
  OBVIOUS
<1>2. PICK t : t = sources[k]
  OBVIOUS
<1>3. PICK S \in SUBSET Lines : S = Scored(k)
  BY DEF Scored
<1>4. PICK src \in Names : src = SourceOf[n]
  BY NamesFacts
<1>5. PICK h \in Nat : h = Weighted(n)
  BY WeightedType
<1>6. n \notin S /\ S \cup {n} \in SUBSET Lines /\ Scored(k)' = S \cup {n}
  BY <1>1, <1>3
<1>7. PICK earned, after : earned = EarnedFrom(S) /\ after = EarnedFrom(S \cup {n})
  OBVIOUS
<1>8. earned \in [Names -> Nat] /\ after \in [Names -> Nat]
  BY <1>6, <1>7, EarnedType
<1>9. after[src] = earned[src] + h /\ \A s \in Names : s # src => after[s] = earned[s]
  BY <1>4, <1>5, <1>6, <1>7, EarnedGrows
<1>10. Tells(t, earned) /\ sources \in [Levels -> Seq(TableSlot)] /\ t \in Seq(TableSlot)
  BY <1>2, <1>3, <1>7 DEF TablesInv
<1>11. PICK u : /\ u \in Seq(TableSlot) /\ Tells(u, after)
                /\ sources' = [sources EXCEPT ![k] = u]
  <2>1. CASE h > 0
    <3>1. h \in Nat \ {0}
      BY <2>1
    <3>2. Tells(UpdateSourceHits(t, src, h), after)
      BY <1>8, <1>9, <1>10, <3>1, UpdateSourceHitsTells
    <3>3. sources' = [sources EXCEPT ![k] = UpdateSourceHits(t, src, h)]
      BY <1>1, <1>2, <1>4, <1>5, <2>1 DEF Score
    <3> QED BY <3>2, <3>3 DEF Tells, GoodTable
  <2>2. CASE h = 0
    <3>1. after = earned
      BY <1>8, <1>9, <2>2
    <3>2. sources' = sources
      BY <1>1, <1>5, <2>2 DEF Score
    <3>3. sources' = [sources EXCEPT ![k] = t]
      BY <1>2, <1>10, <3>2
    <3> QED BY <1>10, <3>1, <3>3
  <2> QED BY <2>1, <2>2
<1>12. /\ sources' \in [Levels -> Seq(TableSlot)] /\ sources'[k] = u
       /\ \A l \in Levels : l # k => sources'[l] = sources[l]
  BY <1>10, <1>11
<1>13. ASSUME NEW l \in Levels PROVE Tells(sources'[l], EarnedFrom(Scored(l)'))
  <2>1. CASE l = k
    BY <1>6, <1>7, <1>11, <1>12, <2>1
  <2>2. CASE l # k
    BY <1>12, <2>2 DEF TablesInv
  <2> QED BY <2>1, <2>2
<1> QED BY <1>12, <1>13 DEF TablesInv

\* Only worker_main changes a table, and only compute_top3 a list.
LEMMA TableWriters ==
    ASSUME [Next]_vars
    PROVE  /\ sources' = sources \/ \E k \in Levels, v \in Workers : Score(k, v)
           /\ \/ UNCHANGED <<results, analyzer>>
              \/ \E k \in Levels : \/ Analyzer(k)
                                   \/ \E v \in Workers : MergeTls(k, v)
<1> USE DEF readerVars, regionAVars, dispatcherVars, regionBVars, regionDVars,
            workerVars, resultVars, aggregatorVars
<1> DEFINE Quiet == UNCHANGED <<sources, results, analyzer>>
<1>1. UNCHANGED vars => Quiet
  BY DEF vars
<1>2. ASSUME NEW r \in Readers, Reader(r) \/ ReaderDies(r) PROVE Quiet
  BY <1>2 DEF Reader, PushA, PushABlocks, ReaderDies
<1>3. Dispatcher => Quiet
  BY DEF Dispatcher, PopA, PopAWaits, PopATimesOut, CheckAllDone, HandleEof, PushB, PushBWaits, PushD,
         PushDWaits, DispatcherFinishes
<1>4. ASSUME NEW k \in Levels, NEW v \in Workers, Worker(k, v)
      PROVE  /\ sources' = sources \/ Score(k, v)
             /\ UNCHANGED <<results, analyzer>> \/ MergeTls(k, v)
  BY <1>4 DEF Worker, PopB, PopBWaits, Score, ReachBarrier, MergeTls
<1>5. ASSUME NEW k \in Levels, Analyzer(k) PROVE sources' = sources
  BY <1>5 DEF Analyzer, JoinAndRank, PublishResult, PostLevelReady
<1>6. Aggregator => Quiet
  BY DEF Aggregator, PopD, PopDWaits, HighPriorityDone, AggregatorTimesOut, CollectWaits, SeesReady,
         TakeLevelReady, WriteText, WriteBinary
<1> QED BY <1>1, <1>2, <1>3, <1>4, <1>5, <1>6 DEF Next, Terminated

\* A list stays that of its table.
LEMMA ListsStep ==
    ASSUME PipelineTypes, AnalyzerInv, TablesInv, ListsInv, [Next]_vars
    PROVE  ListsInv'
<1>0. /\ analyzer \in [Levels -> {"join", "publish", "post", "exited"}]
      /\ sources \in [Levels -> Seq(TableSlot)]
  BY DEF PipelineTypes, TypeOK, TablesInv
<1>1. PICK T : results \in [Levels -> ResultsOver(T)]
  BY DEF PipelineTypes
<1>2. ASSUME NEW l \in Levels, analyzer[l] # "join" PROVE sources'[l] = sources[l]
  <2>1. ASSUME NEW k \in Levels, NEW v \in Workers, Score(k, v) PROVE sources'[l] = sources[l]
    <3>1. wpc[k][v] = "score" /\ (sources' = sources \/ \E u : sources' = [sources EXCEPT ![k] = u])
      BY <2>1 DEF Score
    <3>2. k # l
      BY <1>2, <3>1 DEF AnalyzerInv, WorkersJoined
    <3> QED BY <1>0, <3>1, <3>2
  <2> QED BY <2>1, TableWriters
<1>3. CASE UNCHANGED <<results, analyzer>>
  BY <1>2, <1>3 DEF ListsInv
<1>4. ASSUME NEW k \in Levels, NEW v \in Workers, MergeTls(k, v) PROVE ListsInv'
  <2>1. /\ analyzer' = analyzer /\ wpc[k][v] = "exiting"
        /\ \A l \in Levels : l # k => results'[l] = results[l]
    <3>1. \A l \in Levels : l # k => results'[l] = results[l]
      BY <1>4, MergeTlsEffect
    <3> QED BY <1>4, <3>1 DEF MergeTls
  <2>2. analyzer[k] = "join"
    BY <2>1 DEF AnalyzerInv, WorkersJoined
  <2> QED BY <1>2, <2>1, <2>2 DEF ListsInv
<1>5. ASSUME NEW k \in Levels, Analyzer(k) PROVE ListsInv'
  <2>0. results[k] \in ResultsOver(T)
    BY <1>1
  <2>1. sources' = sources
    BY <1>5 DEF Analyzer, JoinAndRank, PublishResult, PostLevelReady, workerVars
  <2>2. CASE JoinAndRank(k)
    <3>1. PICK top : top = ComputeTop3(sources[k])
      OBVIOUS
    <3>2. results' = [results EXCEPT ![k].top = top] /\ analyzer' = [analyzer EXCEPT ![k] = "publish"]
      BY <2>2, <3>1 DEF JoinAndRank
    <3>3. results'[k].top = top /\ \A l \in Levels : l # k => results'[l] = results[l] /\ analyzer'[l] = analyzer[l]
      BY <1>0, <1>1, <2>0, <3>2 DEF ResultsOver
    <3> QED BY <2>1, <3>1, <3>3 DEF ListsInv
  <2>3. CASE PublishResult(k)
    <3>1. /\ results' = [results EXCEPT ![k].ready = TRUE] /\ analyzer' = [analyzer EXCEPT ![k] = "post"]
          /\ analyzer[k] # "join"
      BY <2>3 DEF PublishResult
    <3>2. /\ results'[k].top = results[k].top
          /\ \A l \in Levels : l # k => results'[l] = results[l] /\ analyzer'[l] = analyzer[l]
      BY <1>0, <1>1, <2>0, <3>1 DEF ResultsOver
    <3> QED BY <2>1, <3>1, <3>2 DEF ListsInv
  <2>4. CASE PostLevelReady(k)
    <3>1. results' = results /\ analyzer' = [analyzer EXCEPT ![k] = "exited"] /\ analyzer[k] # "join"
      BY <2>4 DEF PostLevelReady
    <3>2. \A l \in Levels : l # k => analyzer'[l] = analyzer[l]
      BY <1>0, <3>1
    <3> QED BY <2>1, <3>1, <3>2 DEF ListsInv
  <2> QED BY <1>5, <2>2, <2>3, <2>4 DEF Analyzer
<1> QED BY <1>3, <1>4, <1>5, TableWriters

\* A file is written with the lists of tables that have seen all lines.
LEMMA TopFilesStep ==
    ASSUME PipelineInv, TopInv, [Next]_vars
    PROVE  TopSourcesExact'
<1> USE DEF readerVars, regionAVars, dispatcherVars, regionBVars, regionDVars,
            workerVars, resultVars, aggregatorVars
<1> DEFINE Right(file) == file.written => \A l \in Levels : TopListExact(l, file.results[l].top)
<1>1. Right(textFile) /\ Right(binaryFile)
  BY DEF TopInv, TopSourcesExact
<1>2. ASSUME gpc \in {"text", "binary"} PROVE Right(Report)
  <2>1. Report.results = results
    BY DEF Report
  <2>2. PipelineTypes /\ EofInv /\ QueueInv /\ AnalyzerInv /\ AggregatorInv
    BY DEF PipelineInv
  <2>3. ASSUME NEW l \in Levels PROVE TopListExact(l, results[l].top)
    <3>1. results[l].ready /\ Scored(l) = LinesOfLevel(l)
      BY <1>2, <2>2, AllScored
    <3>2. analyzer[l] # "join"
      BY <2>2, <3>1 DEF AnalyzerInv
    <3>3. PICK t, top : t = sources[l] /\ top = results[l].top
      OBVIOUS
    <3>4. top = ComputeTop3(t)
      BY <3>2, <3>3 DEF TopInv, ListsInv
    <3>5. Tells(t, EarnedFrom(LinesOfLevel(l)))
      BY <3>1, <3>3 DEF TopInv, TablesInv
    <3>6. TopListExact(l, top)
      BY <3>4, <3>5, TopOfTable
    <3> QED BY <3>3, <3>6
  <2> QED BY <2>1, <2>3
<1>3. TopSourcesExact' <=> Right(textFile') /\ Right(binaryFile')
  <2>1. \A top : \A l \in Levels : TopListExact(l, top)' <=> TopListExact(l, top)
    BY DEF TopListExact, LinesOfLevel, SourceScore, TotalWeight
  <2> QED BY <2>1 DEF TopSourcesExact
<1> HIDE DEF Right
<1>4. CASE WriteText \/ WriteBinary
  <2>1. /\ gpc \in {"text", "binary"}
        /\ textFile' = Report \/ textFile' = textFile
        /\ binaryFile' = Report \/ binaryFile' = binaryFile
    BY <1>4 DEF WriteText, WriteBinary
  <2> QED BY <1>1, <1>2, <1>3, <2>1
<1>5. CASE UNCHANGED <<textFile, binaryFile>>
  BY <1>1, <1>3, <1>5
<1> QED BY <1>4, <1>5, FileWriters

\* The tables, the lists and the reports stay right, for any lines, levels,
\* workers and table size.
THEOREM TopCorrect == Spec => []TopInv
<1>1. PipelineInv /\ TopInv /\ [Next]_vars => TopInv'
  <2> SUFFICES ASSUME PipelineInv, TopInv, [Next]_vars PROVE TopInv'
    OBVIOUS
  <2>1. PipelineTypes /\ EofInv /\ AnalyzerInv /\ DownstreamInv /\ SumsInv
    BY DEF PipelineInv
  <2>2. TablesInv /\ ListsInv
    BY DEF TopInv
  <2>3. TablesInv'
    <3>1. ASSUME NEW k \in Levels, NEW v \in Workers, Score(k, v), Up' = Up PROVE TablesInv'
      <4>1. /\ task[k][v] \in Lines /\ task[k][v] \notin Scored(k) /\ Scored(k)' = Scored(k) \cup {task[k][v]}
            /\ \A l \in Levels : l # k => Scored(l)' = Scored(l)
        BY <2>1, <3>1, ScoreLines
      <4> QED BY <2>1, <2>2, <3>1, <4>1, ScoreTables
    <3>2. CASE \A l \in Levels : Scored(l)' = Scored(l)
      <4>1. CASE sources' = sources
        BY <2>2, <3>2, <4>1 DEF TablesInv
      <4>2. ASSUME NEW k \in Levels, NEW v \in Workers, Score(k, v) PROVE TablesInv'
        <5>1. ~PushB
          BY <4>2 DEF Score, dispatcherVars, PushB, AfterPushB
        <5>2. Up' = Up
          BY <2>1, <5>1, UpStep
        <5> QED BY <3>1, <4>2, <5>2
      <4> QED BY <4>1, <4>2, TableWriters
    <3> QED BY <2>1, <3>1, <3>2, LinesStep
  <2>4. ListsInv'
    BY <2>1, <2>2, ListsStep
  <2>5. TopSourcesExact'
    BY TopFilesStep
  <2> QED BY <2>3, <2>4, <2>5 DEF TopInv
<1> QED BY <1>1, TopInit, PipelineCorrect, PTL DEF Spec

\* The top-3 lists of a report on disk are exact: worker threads that update
\* the table of their level in any order miss no line and list no source twice,
\* and compute_top3 leaves out no better source while the table has room.
THEOREM TopListsAreExact == Spec => []TopSourcesExact
<1>1. TopInv => TopSourcesExact
  BY DEF TopInv
<1> QED BY <1>1, TopCorrect, PTL

=============================================================================
