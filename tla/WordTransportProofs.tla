------------------------ MODULE WordTransportProofs ------------------------
(***************************************************************************)
(* Proofs about WordTransport for any number of floors, words, letters,    *)
(* processes and carrier slots, and any capacities.                        *)
(***************************************************************************)
EXTENDS WordTransport, SequenceTheorems, CountingLemmas

-----------------------------------------------------------------------------
(* Types                                                                   *)

SharedWord(w) ==
    [claimed : BOOLEAN, admitted : BOOLEAN, completed : BOOLEAN, reserved : BOOLEAN,
     arrival : Floors,
     letter : [Letters(w) -> {"home", "transit", "placed"}],
     meta : [Letters(w) -> 0..Length[w]],
     fixed : SUBSET Letters(w)]

Request(e) ==
    IF e = "delivery"
    THEN {r \in [carrier : Carriers, from : Floors, to : Floors, word : Words, letter : Nat] :
             r.letter \in Letters(r.word)}
    ELSE [carrier : Carriers, from : Floors, to : Floors]

CarrierState ==
    [at : {"none", "scan", "hold", "wait"}, floor : Floors, word : Words \cup {NoWord}, letter : Nat]

SorterState ==
    [at : {"none", "scan", "count", "add", "release"}, word : Words \cup {NoWord}, read : Nat]

ElevatorState(e) ==
    [at : {"none", "idle", "gone", "deliver", "leave", "arrive", "signal"},
     requests : SUBSET Request(e), batch : Seq(Request(e)), emptied : Floors \cup {NoFloor}]

ParentState ==
    [at : {"start", "elevators", "loop", "spawn", "failed", "report", "reap", "ended", "aborted"},
     floor : Floors, left : Nat]

WordTypes ==
    /\ words = [w \in Words |-> words[w]]
    /\ \A w \in Words : words[w] \in SharedWord(w)

ElevatorTypes ==
    /\ elev = [e \in Elevators |-> elev[e]]
    /\ \A e \in Elevators : /\ elev[e] \in ElevatorState(e)
                            /\ IsFiniteSet(elev[e].requests)

\* A carrier that holds a letter knows which.
CarrierTypes ==
    /\ carrier \in [Carriers -> CarrierState]
    /\ \A c \in Carriers : carrier[c].at = "hold" =>
           carrier[c].word \in Words /\ carrier[c].letter \in Letters(carrier[c].word)

CounterTypes ==
    /\ active \in [Floors -> Int] /\ present \in [Floors -> Int]
    /\ respawn \in [Floors -> BOOLEAN] /\ cursor \in 1..NumWords
    /\ wproc \in [WProcs -> Words \cup {NoWord, NotStarted}]
    /\ completed \in Nat

EndTypes ==
    /\ shutdown \in BOOLEAN /\ stopped \in BOOLEAN /\ output \in BOOLEAN
    /\ parent \in ParentState

\* An elevator has a batch while it is under way; only the delivery elevator
\* delivers.
BatchTypes ==
    /\ \A e \in Elevators : elev[e].at \in {"none", "idle", "gone"} <=> elev[e].batch = <<>>
    /\ elev["reposition"].at # "deliver"

TransportTypes ==
    /\ WordTypes /\ ElevatorTypes /\ BatchTypes /\ CarrierTypes /\ CounterTypes /\ EndTypes
    /\ sorter \in [Sorters -> SorterState]

-----------------------------------------------------------------------------
(* The inductive invariant                                                 *)

Busy(s) == sorter[s].at \in {"count", "add", "release"}

\* A word is claimed by one word carrier until it is admitted, with its places
\* on the floors; it keeps them at least until it is completed.
Admission ==
    /\ \A p \in WProcs : wproc[p] \in Words =>
           words[wproc[p]].claimed /\ ~words[wproc[p]].admitted
    /\ \A p, q \in WProcs : wproc[p] \in Words /\ wproc[p] = wproc[q] => p = q
    /\ \A w \in Words : /\ words[w].reserved \/ words[w].completed => words[w].admitted
                        /\ words[w].admitted => words[w].reserved \/ words[w].completed

\* A sorter inside try_complete_word has its word, completed and not yet given
\* back, for itself.
Completion ==
    /\ \A s \in Sorters : Busy(s) =>
           /\ sorter[s].word \in Words
           /\ words[sorter[s].word].completed /\ words[sorter[s].word].reserved
    /\ \A s, t \in Sorters : Busy(s) /\ Busy(t) /\ sorter[s].word = sorter[t].word => s = t

\* The words whose sorter has written completed_words.
Written ==
    {w \in Words : /\ words[w].completed
                   /\ \A s \in Sorters : sorter[s].at \in {"count", "add"} => sorter[s].word # w}

\* completed_words, and what a sorter has read of it, never exceed their number.
Counting ==
    /\ completed <= Cardinality(Written)
    /\ \A s \in Sorters : sorter[s].at = "add" => sorter[s].read <= Cardinality(Written)
    /\ output => \A w \in Words : words[w].completed

\* The sorting area: fixed slots hold their own letter, no letter is in two
\* slots, the letters in it are those marked delivered, and a completed word is
\* fixed throughout.
Areas ==
    \A w \in Words :
        /\ \A k \in words[w].fixed : words[w].meta[k] = k
        /\ \A j, k \in Letters(w) : words[w].meta[j] = words[w].meta[k] /\ words[w].meta[j] # 0 => j = k
        /\ \A i \in Letters(w) :
               words[w].letter[i] = "placed" <=> \E k \in Letters(w) : words[w].meta[k] = i
        /\ words[w].completed => words[w].fixed = Letters(w)

Holds(c, w, i) == carrier[c].at = "hold" /\ carrier[c].word = w /\ carrier[c].letter = i

\* The requests whose letter has not been handed over.
Load == elev["delivery"].requests \cup Riding

IsFor(r, w, i) == r.word = w /\ r.letter = i

\* A letter in transit is in one hand or in one request.
Transit ==
    /\ \A c \in Carriers : carrier[c].at = "hold" =>
           words[carrier[c].word].letter[carrier[c].letter] = "transit"
    /\ \A r \in Load : words[r.word].letter[r.letter] = "transit"
    /\ \A c, d \in Carriers : Holds(d, carrier[c].word, carrier[c].letter) /\ carrier[c].at = "hold" => c = d
    /\ \A r, q \in Load : IsFor(q, r.word, r.letter) => r = q
    /\ \A c \in Carriers : \A r \in Load : ~Holds(c, r.word, r.letter)
    /\ \A w \in Words : \A i \in Letters(w) : words[w].letter[i] = "transit" =>
           (\E c \in Carriers : Holds(c, w, i)) \/ (\E r \in Load : IsFor(r, w, i))

Finishing == parent.at \in {"report", "reap", "ended", "aborted"}

\* Carrier c waits for a ride, or was got out of the wait by wake_all.
Waits(c) == carrier[c].at = "wait" \/ (Finishing /\ carrier[c].at = "scan")

Queued(e, c) == \E r \in elev[e].requests : r.carrier = c
Rides1(e, c) == \E k \in DOMAIN elev[e].batch : elev[e].batch[k].carrier = c

\* No carrier has two requests or rides.
OneRide ==
    /\ \A e, x \in Elevators : \A r \in elev[e].requests, q \in elev[x].requests :
           r.carrier = q.carrier => e = x /\ r = q
    /\ \A e, x \in Elevators : \A k \in DOMAIN elev[e].batch, j \in DOMAIN elev[x].batch :
           elev[e].batch[k].carrier = elev[x].batch[j].carrier => e = x /\ k = j
    /\ \A e, x \in Elevators : \A c \in Carriers : ~(Queued(e, c) /\ Rides1(x, c))

\* Who has one waits, and who waits has one.
Waiting ==
    /\ \A e \in Elevators : \A c \in Carriers : Queued(e, c) \/ Rides1(e, c) => Waits(c)
    /\ \A c \in Carriers : carrier[c].at = "wait" =>
           ~Finishing /\ \E e \in Elevators : Queued(e, c) \/ Rides1(e, c)
    /\ Finishing => shutdown
    /\ parent.at = "ended" => \A c \in Carriers : carrier[c].at # "hold"

\* The carriers carrier_count counts: those not between two floor locks.
Standing(f) ==
    {c \in Carriers \ Unborn :
        /\ carrier[c].floor = f
        /\ \A e \in Elevators : elev[e].at = "arrive" => Head(elev[e].batch).carrier # c}

\* The requests say where their carriers are.
Whereabouts ==
    /\ \A e \in Elevators : \A r \in elev[e].requests : carrier[r.carrier].floor = r.from
    /\ \A e \in Elevators : \A k \in DOMAIN elev[e].batch :
           k > 1 \/ elev[e].at # "signal" => carrier[elev[e].batch[k].carrier].floor = elev[e].batch[k].from
    /\ \A e \in Elevators : elev[e].at = "arrive" => Head(elev[e].batch).from # Head(elev[e].batch).to

\* carrier_count is exact, and an empty floor is asked for or will be.
Population ==
    /\ \A f \in Floors : present[f] = Cardinality(Standing(f))
    /\ \A f \in Floors : parent.at # "start" /\ present[f] = 0 =>
           respawn[f] \/ \E e \in Elevators : elev[e].emptied = f
    /\ \A e \in Elevators : elev[e].emptied # NoFloor => elev[e].at \in {"arrive", "signal"}
    /\ parent.at \in {"start", "elevators"} => \A e \in Elevators : elev[e].at = "none"
    /\ parent.at = "start" => \A f \in Floors : f < parent.floor => present[f] > 0

TransportInv ==
    /\ TransportTypes /\ Admission /\ Completion /\ Counting /\ Areas /\ Transit
    /\ OneRide /\ Waiting /\ Whereabouts /\ Population

-----------------------------------------------------------------------------
(* Operators of the model                                                  *)

\* Words, floors and elevators.
LEMMA ConstantTypes ==
    /\ NumWords \in Nat \ {0} /\ NumFloors \in Nat \ {0}
    /\ 0 \in Floors /\ Floors \subseteq Nat /\ NoFloor \notin Floors
    /\ NoWord \notin Words /\ NotStarted \notin Words /\ Words \subseteq Nat
    /\ \A w \in Words : Length[w] \in Nat \ {0} /\ SortingFloor[w] \in Floors
    /\ IsFiniteSet(Words) /\ Cardinality(Words) = NumWords
    /\ LetterCarriers \in Nat \ {0}
<1>1. NumWords \in Nat \ {0} /\ NumFloors \in Nat \ {0} /\ LetterCarriers \in Nat \ {0}
  BY TransportAssumption
<1>2. \A w \in Words : Length[w] \in Nat \ {0} /\ SortingFloor[w] \in Floors
  BY TransportAssumption
<1>3. IsFiniteSet(Words) /\ Cardinality(Words) = NumWords
  BY <1>1, FS_Interval DEF Words
<1> QED BY <1>1, <1>2, <1>3 DEF Floors, Words, NoFloor, NoWord, NotStarted

\* A ride consists of queued requests, at least one, none of them twice.
LEMMA RideProperty ==
    ASSUME NEW e \in Elevators, IsFiniteSet(elev[e].requests), NEW b \in Rides(e)
    PROVE  /\ b \in Seq(elev[e].requests)
           /\ b # <<>>
           /\ \A j, k \in 1..Len(b) : b[j] = b[k] => j = k
<1>1. PICK B \in Batches(e) : b \in SetToSeqs(B)
  BY DEF Rides
<1>2. B \subseteq elev[e].requests /\ B # {}
  <2> DEFINE joins(first) ==
               {r \in elev[e].requests \ {first} :
                   r.from = first.from /\ (e = "delivery" => Trip(r) = Trip(first))}
             size(first) == Min({Capacity[e], Cardinality(joins(first)) + 1})
  <2>1. PICK first \in elev[e].requests :
               B \in {{first} \cup S : S \in kSubset(size(first) - 1, joins(first))}
    BY <1>1 DEF Batches
  <2>2. PICK S \in SUBSET joins(first) : B = {first} \cup S
    BY <2>1 DEF kSubset
  <2> QED BY <2>1, <2>2
<1>3. IsFiniteSet(B)
  BY <1>2, FS_Subset
<1>4. Cardinality(B) \in Nat \ {0}
  BY <1>2, <1>3, FS_CardinalityType, FS_EmptySet
<1>5. /\ b \in [1..Cardinality(B) -> B]
      /\ \A j, k \in 1..Cardinality(B) : j # k => b[j] # b[k]
  BY <1>1 DEF SetToSeqs
<1>6. b \in Seq(B) /\ Len(b) = Cardinality(B)
  BY <1>4, <1>5
<1>7. b \in Seq(elev[e].requests)
  BY <1>2, <1>6
<1> QED BY <1>4, <1>5, <1>6, <1>7

\* The scan from rr_cursor finds an unclaimed word if there is one.
LEMMA NextWordUnclaimed ==
    ASSUME CounterTypes, Unclaimed # {}
    PROVE  NextWord \in Unclaimed
<1> DEFINE Distance(w) == (w - cursor) % NumWords
           S == {Distance(w) : w \in Unclaimed}
<1>1. \A w \in Unclaimed : Distance(w) \in Nat
  BY ConstantTypes DEF CounterTypes, Unclaimed
<1>2. S \in SUBSET Nat /\ S # {}
  BY <1>1
<1>3. PICK m \in S : \A j \in S : m <= j
  <2> HIDE DEF S
  <2> QED BY <1>2, LeastNatural
<1>4. PICK w \in Unclaimed : m = Distance(w)
  BY <1>3
<1>5. \A v \in Unclaimed : Distance(w) <= Distance(v)
  BY <1>3, <1>4
<1> QED BY <1>4, <1>5 DEF NextWord

\* Delivering letter i of word w puts it in a free slot or back on its floor,
\* and touches nothing else.
LEMMA DeliveredProperty ==
    ASSUME WordTypes, NEW w \in Words, NEW i \in Letters(w)
    PROVE  \/ \E k \in Letters(w) :
                 /\ k \notin words[w].fixed /\ words[w].meta[k] = 0
                 /\ Delivered(w, i) = [words EXCEPT ![w].letter[i] = "placed", ![w].meta[k] = i]
           \/ Delivered(w, i) = [words EXCEPT ![w].letter[i] = "home"]
<1>1. CASE FreeSlots(w) # {}
  <2>1. FreeSlots(w) \in SUBSET Nat
    BY DEF FreeSlots, Letters
  <2>2. Min(FreeSlots(w)) \in FreeSlots(w)
    BY <1>1, <2>1, MinNatural
  <2> QED BY <1>1, <2>2 DEF FreeSlots, Delivered
<1>2. CASE FreeSlots(w) = {}
  BY <1>2 DEF Delivered
<1> QED BY <1>1, <1>2

-----------------------------------------------------------------------------
(* A pass of the sorter                                                    *)

AreaType(w) == [meta : [Letters(w) -> 0..Length[w]], fixed : SUBSET Letters(w)]

\* What a pass keeps: fixed slots hold their letter, no letter is there twice.
GoodArea(w, a) ==
    /\ a \in AreaType(w)
    /\ \A k \in a.fixed : a.meta[k] = k
    /\ \A j, k \in Letters(w) : a.meta[j] = a.meta[k] /\ a.meta[j] # 0 => j = k

\* Areas a and b hold the same letters.
SameLetters(w, a, b) ==
    \A i \in Letters(w) : (\E k \in Letters(w) : a.meta[k] = i) <=> (\E k \in Letters(w) : b.meta[k] = i)

\* A slot keeps the type of the area.
LEMMA SortSlotType ==
    ASSUME NEW w \in Words, NEW i \in Letters(w), NEW a \in AreaType(w)
    PROVE  SortSlot(a, i) \in AreaType(w)
<1>1. Length[w] \in Nat
  BY ConstantTypes
<1>2. a.meta \in [Letters(w) -> 0..Length[w]] /\ a.fixed \in SUBSET Letters(w)
  BY DEF AreaType
<1>3. a.meta[i] \in 0..Length[w] /\ (a.meta[i] # 0 => a.meta[i] \in Letters(w))
  BY <1>1, <1>2 DEF Letters
<1> DEFINE t == a.meta[i]
<1>4. CASE t = 0 \/ i \in a.fixed \/ (t # i /\ t \in a.fixed)
  BY <1>4 DEF SortSlot
<1>5. CASE t = i /\ t # 0 /\ i \notin a.fixed
  BY <1>5, <1>2 DEF SortSlot, AreaType
<1>6. CASE t # i /\ t # 0 /\ i \notin a.fixed /\ t \notin a.fixed
  <2>1. SortSlot(a, i) = [meta  |-> [a.meta EXCEPT ![t] = t, ![i] = a.meta[t]],
                          fixed |-> a.fixed \cup {t} \cup (IF a.meta[t] = i THEN {i} ELSE {})]
    BY <1>6 DEF SortSlot
  <2>2. [a.meta EXCEPT ![t] = t, ![i] = a.meta[t]] \in [Letters(w) -> 0..Length[w]]
    BY <1>2, <1>3, <1>6
  <2> QED BY <1>2, <1>3, <1>6, <2>1, <2>2 DEF AreaType
<1> QED BY <1>4, <1>5, <1>6

\* A slot exchanges letters: none is lost or doubled, and what becomes fixed is
\* in place.
LEMMA SortSlotProperty ==
    ASSUME NEW w \in Words, NEW i \in Letters(w), NEW a, GoodArea(w, a)
    PROVE  GoodArea(w, SortSlot(a, i)) /\ SameLetters(w, a, SortSlot(a, i))
<1>1. Length[w] \in Nat
  BY ConstantTypes
<1>2. a.meta \in [Letters(w) -> 0..Length[w]] /\ a.fixed \in SUBSET Letters(w)
  BY DEF GoodArea, AreaType
<1>3. a.meta[i] \in 0..Length[w] /\ (a.meta[i] # 0 => a.meta[i] \in Letters(w))
  BY <1>1, <1>2 DEF Letters
<1>4. SortSlot(a, i) \in AreaType(w)
  BY SortSlotType DEF GoodArea
<1> DEFINE t == a.meta[i]
<1>5. CASE t = 0 \/ i \in a.fixed \/ (t # i /\ t \in a.fixed)
  BY <1>5 DEF SortSlot, SameLetters
<1>6. CASE t = i /\ t # 0 /\ i \notin a.fixed
  <2>1. SortSlot(a, i) = [a EXCEPT !.fixed = @ \cup {i}]
    BY <1>6 DEF SortSlot
  <2>2. SortSlot(a, i).meta = a.meta /\ SortSlot(a, i).fixed = a.fixed \cup {i}
    BY <2>1 DEF GoodArea, AreaType
  <2> QED BY <1>4, <1>6, <2>2 DEF GoodArea, SameLetters
<1>7. CASE t # i /\ t # 0 /\ i \notin a.fixed /\ t \notin a.fixed
  <2> DEFINE m == [a.meta EXCEPT ![t] = t, ![i] = a.meta[t]]
  <2>1. SortSlot(a, i) = [meta  |-> m,
                          fixed |-> a.fixed \cup {t} \cup (IF a.meta[t] = i THEN {i} ELSE {})]
    BY <1>7 DEF SortSlot
  <2>2. /\ SortSlot(a, i).meta = m
        /\ SortSlot(a, i).fixed = a.fixed \cup {t} \cup (IF a.meta[t] = i THEN {i} ELSE {})
    BY <2>1
  <2>3. t \in Letters(w) /\ m[t] = t /\ m[i] = a.meta[t]
        /\ \A k \in Letters(w) : k # t /\ k # i => m[k] = a.meta[k]
    BY <1>2, <1>3, <1>7
  <2> HIDE DEF m
  <2>4. \A k \in SortSlot(a, i).fixed : m[k] = k
    BY <1>2, <1>7, <2>2, <2>3 DEF GoodArea
  <2>5. \A j, k \in Letters(w) : m[j] = m[k] /\ m[j] # 0 => j = k
    BY <1>7, <2>3 DEF GoodArea
  <2>6. SameLetters(w, a, SortSlot(a, i))
    <3> SUFFICES ASSUME NEW l \in Letters(w)
                 PROVE  (\E k \in Letters(w) : a.meta[k] = l) <=> (\E k \in Letters(w) : m[k] = l)
      BY <2>2 DEF SameLetters
    <3>1. ASSUME NEW k \in Letters(w), a.meta[k] = l
          PROVE  \E j \in Letters(w) : m[j] = l
      <4>1. CASE k = i
        BY <2>3, <3>1, <4>1
      <4>2. CASE k = t
        BY <2>3, <3>1, <4>2
      <4>3. CASE k # i /\ k # t
        BY <2>3, <3>1, <4>3
      <4> QED BY <4>1, <4>2, <4>3
    <3>2. ASSUME NEW k \in Letters(w), m[k] = l
          PROVE  \E j \in Letters(w) : a.meta[j] = l
      <4>1. CASE k = i
        BY <2>3, <3>2, <4>1
      <4>2. CASE k = t
        BY <2>3, <3>2, <4>2
      <4>3. CASE k # i /\ k # t
        BY <2>3, <3>2, <4>3
      <4> QED BY <4>1, <4>2, <4>3
    <3> QED BY <3>1, <3>2
  <2> QED BY <1>4, <2>2, <2>4, <2>5, <2>6 DEF GoodArea
<1> QED BY <1>5, <1>6, <1>7

\* The areas after each slot of a pass exist: the recursion in SortPass defines
\* a function.
LEMMA PassDefined ==
    ASSUME NEW w \in Words, NEW start \in AreaType(w)
    PROVE  \E g : g = [i \in 0..Length[w] |-> IF i = 0 THEN start ELSE SortSlot(g[i - 1], i)]
<1> DEFINE Step(g, i) == IF i = 0 THEN start ELSE SortSlot(g[i - 1], i)
           Upto(n) == \E g \in [0..n -> AreaType(w)] : \A i \in 0..n : g[i] = Step(g, i)
           Bad == {n \in 0..Length[w] : ~Upto(n)}
<1>1. Length[w] \in Nat
  BY ConstantTypes
<1>2. Upto(0)
  <2> DEFINE g == [i \in 0..0 |-> start]
  <2>1. g \in [0..0 -> AreaType(w)]
    OBVIOUS
  <2>2. \A i \in 0..0 : g[i] = Step(g, i)
    OBVIOUS
  <2> QED BY <2>1, <2>2
<1>3. ASSUME NEW n \in 0..Length[w], n # 0, Upto(n - 1)
      PROVE  Upto(n)
  <2>1. PICK g \in [0..(n - 1) -> AreaType(w)] : \A i \in 0..(n - 1) : g[i] = Step(g, i)
    BY <1>3
  <2> DEFINE h == [i \in 0..n |-> IF i = n THEN SortSlot(g[n - 1], n) ELSE g[i]]
  <2>2. n \in Letters(w) /\ n - 1 \in 0..(n - 1) /\ n \in Nat
    BY <1>1, <1>3 DEF Letters
  <2>3. SortSlot(g[n - 1], n) \in AreaType(w)
    BY <2>2, SortSlotType
  <2>4. h \in [0..n -> AreaType(w)]
    BY <2>2, <2>3
  <2>5. ASSUME NEW i \in 0..n
        PROVE  h[i] = Step(h, i)
    <3>1. CASE i = n
      <4>1. h[i - 1] = g[n - 1]
        BY <2>2, <3>1
      <4> QED BY <1>3, <3>1, <4>1
    <3>2. CASE i # n
      <4>1. i \in 0..(n - 1) /\ (i # 0 => i - 1 \in 0..(n - 1) /\ i - 1 # n)
        BY <2>2, <3>2
      <4>2. h[i] = g[i] /\ (i # 0 => h[i - 1] = g[i - 1])
        BY <2>2, <3>2, <4>1
      <4> QED BY <2>1, <4>1, <4>2
    <3> QED BY <3>1, <3>2
  <2> HIDE DEF h, Step
  <2> QED BY <2>4, <2>5
<1>4. Bad = {}
  <2> SUFFICES ASSUME Bad # {} PROVE FALSE
    OBVIOUS
  <2>1. Bad \in SUBSET Nat
    BY <1>1
  <2>2. PICK n \in Bad : \A j \in Bad : n <= j
    <3> HIDE DEF Bad
    <3> QED BY <2>1, LeastNatural
  <2>3. n # 0 /\ n \in 0..Length[w] /\ ~Upto(n)
    <3> HIDE DEF Upto
    <3> QED BY <1>2, <2>2
  <2>4. n - 1 \in 0..Length[w] /\ n - 1 \notin Bad
    <3> HIDE DEF Upto
    <3> QED BY <1>1, <2>1, <2>2, <2>3
  <2> HIDE DEF Upto
  <2> QED BY <1>3, <2>3, <2>4
<1>5. Upto(Length[w])
  <2>1. Length[w] \in 0..Length[w]
    BY <1>1
  <2> HIDE DEF Upto
  <2> QED BY <1>4, <2>1
<1>6. PICK g \in [0..Length[w] -> AreaType(w)] : \A i \in 0..Length[w] : g[i] = Step(g, i)
  BY <1>5
<1>7. g = [i \in 0..Length[w] |-> Step(g, i)]
  BY <1>6
<1> QED BY <1>7

\* A whole pass loses and doubles no letter, and leaves fixed slots in order.
LEMMA SortPassProperty ==
    ASSUME NEW w \in Words, NEW start, start = [meta |-> words[w].meta, fixed |-> words[w].fixed],
           GoodArea(w, start)
    PROVE  GoodArea(w, SortPass(w)) /\ SameLetters(w, start, SortPass(w))
<1> DEFINE pass == CHOOSE g : g = [i \in 0..Length[w] |-> IF i = 0 THEN start ELSE SortSlot(g[i - 1], i)]
           Good(a) == GoodArea(w, a) /\ SameLetters(w, start, a)
           Bad == {i \in 0..Length[w] : ~Good(pass[i])}
<1>1. Length[w] \in Nat
  BY ConstantTypes
<1>2. SortPass(w) = pass[Length[w]]
  BY DEF SortPass
<1>3. pass = [i \in 0..Length[w] |-> IF i = 0 THEN start ELSE SortSlot(pass[i - 1], i)]
  BY PassDefined DEF GoodArea
<1> HIDE DEF pass
<1>4. Good(pass[0])
  BY <1>1, <1>3 DEF SameLetters
<1>5. ASSUME NEW i \in 1..Length[w], Good(pass[i - 1])
      PROVE  Good(pass[i])
  <2>1. pass[i] = SortSlot(pass[i - 1], i) /\ i \in Letters(w)
    BY <1>1, <1>3 DEF Letters
  <2>2. GoodArea(w, pass[i]) /\ SameLetters(w, pass[i - 1], pass[i])
    BY <1>5, <2>1, SortSlotProperty
  <2> QED BY <1>5, <2>2 DEF SameLetters
<1> HIDE DEF Good
<1>6. Bad = {}
  <2> SUFFICES ASSUME Bad # {} PROVE FALSE
    OBVIOUS
  <2>1. Bad \in SUBSET Nat
    BY <1>1
  <2>2. PICK n \in Bad : \A j \in Bad : n <= j
    <3> HIDE DEF Bad
    <3> QED BY <2>1, LeastNatural
  <2>3. n \in 1..Length[w] /\ ~Good(pass[n])
    BY <1>1, <1>4, <2>2
  <2>4. n - 1 \in 0..Length[w] /\ n - 1 \notin Bad
    BY <1>1, <2>1, <2>2, <2>3
  <2> QED BY <1>5, <2>3, <2>4
<1>7. Length[w] \in 0..Length[w]
  BY <1>1
<1> QED BY <1>2, <1>6, <1>7 DEF Good

-----------------------------------------------------------------------------
(* Type correctness                                                        *)

\* The initial state has the types.
LEMMA TypesInit == Init => TransportTypes
<1> SUFFICES ASSUME Init PROVE TransportTypes
  OBVIOUS
<1> USE ConstantTypes
<1>1. WordTypes
  <2> SUFFICES ASSUME NEW w \in Words PROVE NewWord(w) \in SharedWord(w)
    BY DEF Init, WordTypes
  <2>1. [i \in Letters(w) |-> 0] \in [Letters(w) -> 0..Length[w]]
    OBVIOUS
  <2>2. [i \in Letters(w) |-> "home"] \in [Letters(w) -> {"home", "transit", "placed"}]
    OBVIOUS
  <2> QED BY <2>1, <2>2 DEF NewWord, SharedWord
<1>2. ElevatorTypes
  <2>1. ASSUME NEW e \in Elevators
        PROVE  elev[e] \in ElevatorState(e) /\ IsFiniteSet(elev[e].requests)
    <3>1. elev[e] = [at |-> "none", requests |-> {}, batch |-> <<>>, emptied |-> NoFloor]
      BY <2>1 DEF Init
    <3>2. <<>> \in Seq(Request(e))
      OBVIOUS
    <3> QED BY <3>1, <3>2, FS_EmptySet DEF ElevatorState
  <2>2. elev = [e \in Elevators |-> elev[e]]
    BY DEF Init
  <2> QED BY <2>1, <2>2 DEF ElevatorTypes
<1>3. CarrierTypes
  BY DEF Init, CarrierTypes, CarrierState
<1>4. CounterTypes
  BY DEF Init, CounterTypes
<1>5. EndTypes
  BY DEF Init, EndTypes, ParentState
<1>6. sorter \in [Sorters -> SorterState]
  BY DEF Init, SorterState
<1>7. BatchTypes
  BY DEF Init, BatchTypes, Elevators
<1> QED BY <1>1, <1>2, <1>3, <1>4, <1>5, <1>6, <1>7 DEF TransportTypes

\* A record of the right type in place of a word keeps the types of the words.
LEMMA WordReplaced ==
    ASSUME WordTypes, NEW w \in Words, NEW new \in SharedWord(w),
           words' = [words EXCEPT ![w] = new]
    PROVE  WordTypes'
BY DEF WordTypes

\* The same for an elevator.
LEMMA ElevatorReplaced ==
    ASSUME ElevatorTypes, NEW e \in Elevators, NEW new \in ElevatorState(e),
           IsFiniteSet(new.requests), elev' = [elev EXCEPT ![e] = new]
    PROVE  ElevatorTypes'
BY DEF ElevatorTypes

\* What has happened to the words after a delivery.
LEMMA DeliveredType ==
    ASSUME WordTypes, NEW w \in Words, NEW i \in Letters(w), words' = Delivered(w, i)
    PROVE  WordTypes'
<1>1. words[w] \in SharedWord(w) /\ i \in 0..Length[w]
  BY ConstantTypes DEF WordTypes, Letters
<1>2. CASE words' = [words EXCEPT ![w].letter[i] = "home"]
  <2> DEFINE new == [words[w] EXCEPT !.letter[i] = "home"]
  <2>1. new \in SharedWord(w)
    BY <1>1 DEF SharedWord
  <2>2. words' = [words EXCEPT ![w] = new]
    BY <1>2
  <2> HIDE DEF new
  <2> QED BY <2>1, <2>2, WordReplaced
<1>3. ASSUME NEW k \in Letters(w),
             words' = [words EXCEPT ![w].letter[i] = "placed", ![w].meta[k] = i]
      PROVE  WordTypes'
  <2> DEFINE new == [words[w] EXCEPT !.letter[i] = "placed", !.meta[k] = i]
  <2>1. new \in SharedWord(w)
    BY <1>1 DEF SharedWord
  <2>2. words' = [words EXCEPT ![w] = new]
    BY <1>3 DEF WordTypes
  <2> HIDE DEF new
  <2> QED BY <2>1, <2>2, WordReplaced
<1> QED BY <1>2, <1>3, DeliveredProperty

\* Adding a request of the right type to an elevator's queue keeps the types.
LEMMA EnqueuedType ==
    ASSUME ElevatorTypes, NEW e \in Elevators, NEW r \in Request(e), elev' = Enqueued(e, r)
    PROVE  /\ ElevatorTypes'
           /\ \A x \in Elevators : elev'[x].at = elev[x].at /\ elev'[x].batch = elev[x].batch
                                   /\ elev'[x].emptied = elev[x].emptied
           /\ elev'[e].requests = elev[e].requests \cup {r}
           /\ \A x \in Elevators \ {e} : elev'[x] = elev[x]
<1>1. elev[e] \in ElevatorState(e) /\ IsFiniteSet(elev[e].requests)
  BY DEF ElevatorTypes
<1> DEFINE new == [elev[e] EXCEPT !.requests = @ \cup {r}]
<1>2. new \in ElevatorState(e) /\ new.requests = elev[e].requests \cup {r} /\ new.at = elev[e].at
      /\ new.batch = elev[e].batch /\ new.emptied = elev[e].emptied
  BY <1>1 DEF ElevatorState
<1>3. IsFiniteSet(new.requests)
  BY <1>1, <1>2, FS_AddElement
<1>4. elev' = [elev EXCEPT ![e] = new]
  BY DEF Enqueued
<1> HIDE DEF new
<1>5. ElevatorTypes'
  BY <1>2, <1>3, <1>4, ElevatorReplaced
<1>6. elev'[e] = new /\ \A x \in Elevators \ {e} : elev'[x] = elev[x]
  BY <1>4 DEF ElevatorTypes
<1> QED BY <1>2, <1>5, <1>6

-----------------------------------------------------------------------------
(* What the elevators' steps do                                            *)

\* The rider an elevator is serving.
Rider(e) == Head(elev[e].batch)

\* An elevator that is not at the head of its loop serves a rider.
LEMMA RiderType ==
    ASSUME TransportTypes, NEW e \in Elevators, elev[e].at \in {"deliver", "leave", "arrive", "signal"}
    PROVE  /\ elev[e].batch \in Seq(Request(e)) /\ elev[e].batch # <<>>
           /\ 1 \in DOMAIN elev[e].batch /\ Rider(e) = elev[e].batch[1]
           /\ Rider(e) \in Request(e)
           /\ Rider(e).carrier \in Carriers /\ Rider(e).from \in Floors /\ Rider(e).to \in Floors
           /\ e = "delivery" => Rider(e).word \in Words /\ Rider(e).letter \in Letters(Rider(e).word)
<1>1. elev[e].batch \in Seq(Request(e)) /\ elev[e].batch # <<>>
  BY DEF TransportTypes, BatchTypes, ElevatorTypes, ElevatorState
<1>2. Rider(e) = elev[e].batch[1] /\ 1 \in DOMAIN elev[e].batch /\ Rider(e) \in Request(e)
  BY <1>1 DEF Rider
<1> QED BY <1>1, <1>2 DEF Request

\* Collect moves requests from the queue into a batch.
LEMMA CollectEffect ==
    ASSUME TransportTypes, NEW e \in Elevators, Collect(e)
    PROVE  /\ TransportTypes' /\ elev[e].batch = <<>>
           /\ \A x \in Elevators \ {e} : elev'[x] = elev[x]
           /\ elev'[e].at = FirstStage(e) /\ elev'[e].emptied = elev[e].emptied
           /\ elev'[e].batch \in Seq(elev[e].requests) /\ elev'[e].batch # <<>>
           /\ \A j, k \in DOMAIN elev'[e].batch : elev'[e].batch[j] = elev'[e].batch[k] => j = k
           /\ elev'[e].requests = elev[e].requests \ Range(elev'[e].batch)
<1>1. PICK b \in Rides(e) :
          elev' = [elev EXCEPT ![e].at = FirstStage(e), ![e].batch = b, ![e].requests = QueueWithout(e, b)]
  BY DEF Collect
<1>2. elev[e] \in ElevatorState(e) /\ IsFiniteSet(elev[e].requests) /\ elev[e].batch = <<>>
  BY DEF TransportTypes, BatchTypes, ElevatorTypes, Collect
<1>3. /\ b \in Seq(elev[e].requests) /\ b # <<>>
      /\ \A j, k \in 1..Len(b) : b[j] = b[k] => j = k
  BY <1>2, RideProperty
<1>4. b \in Seq(Request(e)) /\ DOMAIN b = 1..Len(b)
  BY <1>2, <1>3 DEF ElevatorState
<1> DEFINE new == [elev[e] EXCEPT !.at = FirstStage(e), !.batch = b, !.requests = QueueWithout(e, b)]
<1>5. /\ new \in ElevatorState(e) /\ new.at = FirstStage(e) /\ new.batch = b
      /\ new.requests = elev[e].requests \ Range(b) /\ new.emptied = elev[e].emptied
  BY <1>2, <1>4 DEF ElevatorState, FirstStage, QueueWithout
<1>6. IsFiniteSet(elev[e].requests \ Range(b))
  BY <1>2, FS_Difference
<1>7. elev' = [elev EXCEPT ![e] = new]
  BY <1>1
<1> HIDE DEF new
<1>8. ElevatorTypes'
  BY <1>5, <1>6, <1>7, ElevatorReplaced DEF TransportTypes
<1>9. elev'[e] = new /\ \A x \in Elevators \ {e} : elev'[x] = elev[x]
  BY <1>7 DEF ElevatorTypes, TransportTypes
<1>10. BatchTypes'
  BY <1>3, <1>5, <1>9 DEF TransportTypes, BatchTypes, Elevators, FirstStage
<1>11. TransportTypes'
  BY <1>8, <1>10 DEF Collect, TransportTypes, WordTypes, CarrierTypes, CounterTypes, EndTypes,
     floorVars, endVars
<1> QED BY <1>2, <1>3, <1>4, <1>5, <1>9, <1>11

\* Deliver hands over the rider's letter.
LEMMA DeliverEffect ==
    ASSUME TransportTypes, NEW e \in Elevators, Deliver(e)
    PROVE  /\ e = "delivery" /\ TransportTypes'
           /\ \A x \in Elevators \ {e} : elev'[x] = elev[x]
           /\ elev'[e].at = "leave" /\ elev'[e].emptied = elev[e].emptied
           /\ elev'[e].batch = elev[e].batch /\ elev'[e].requests = elev[e].requests
<1>0. e = "delivery"
  BY DEF Deliver, TransportTypes, BatchTypes, Elevators
<1>1. Rider(e).word \in Words /\ Rider(e).letter \in Letters(Rider(e).word) /\ elev[e].batch # <<>>
  BY <1>0, RiderType DEF Deliver
<1>2. elev[e] \in ElevatorState(e) /\ IsFiniteSet(elev[e].requests)
  BY DEF TransportTypes, ElevatorTypes
<1> DEFINE new == [elev[e] EXCEPT !.at = "leave"]
<1>3. /\ new \in ElevatorState(e) /\ new.at = "leave" /\ new.batch = elev[e].batch
      /\ new.requests = elev[e].requests /\ new.emptied = elev[e].emptied
  BY <1>2 DEF ElevatorState
<1>4. elev' = [elev EXCEPT ![e] = new]
  BY DEF Deliver
<1> HIDE DEF new
<1>5. ElevatorTypes'
  BY <1>2, <1>3, <1>4, ElevatorReplaced DEF TransportTypes
<1>6. elev'[e] = new /\ \A x \in Elevators \ {e} : elev'[x] = elev[x]
  BY <1>4 DEF ElevatorTypes, TransportTypes
<1>7. BatchTypes'
  BY <1>1, <1>3, <1>6 DEF TransportTypes, BatchTypes, Elevators
<1>8. WordTypes'
  BY <1>1, DeliveredType DEF Deliver, TransportTypes, Rider
<1>9. TransportTypes'
  BY <1>5, <1>7, <1>8 DEF Deliver, TransportTypes, CarrierTypes, CounterTypes, EndTypes,
     floorVars, endVars
<1> QED BY <1>0, <1>3, <1>6, <1>9

\* LeaveFloor takes the rider off the count of the floor it leaves.
LEMMA LeaveEffect ==
    ASSUME TransportTypes, NEW e \in Elevators, LeaveFloor(e)
    PROVE  /\ TransportTypes'
           /\ \A x \in Elevators \ {e} : elev'[x] = elev[x]
           /\ elev'[e].batch = elev[e].batch /\ elev'[e].requests = elev[e].requests
           /\ LET old == carrier[Rider(e).carrier].floor
              IN  IF old = Rider(e).to
                  THEN elev'[e].at = "signal" /\ elev'[e].emptied = elev[e].emptied /\ present' = present
                  ELSE /\ elev'[e].at = "arrive" 
                       /\ elev'[e].emptied = IF present[old] = 1 THEN old ELSE NoFloor
                       /\ present' = [present EXCEPT ![old] = @ - 1]
<1> DEFINE old == carrier[Rider(e).carrier].floor
           new == IF old = Rider(e).to THEN [elev[e] EXCEPT !.at = "signal"]
                  ELSE [elev[e] EXCEPT !.at = "arrive", !.emptied = IF present[old] = 1 THEN old ELSE NoFloor]
<1>1. Rider(e).carrier \in Carriers /\ elev[e].batch # <<>>
  BY RiderType DEF LeaveFloor
<1>2. elev[e] \in ElevatorState(e) /\ IsFiniteSet(elev[e].requests)
  BY DEF TransportTypes, ElevatorTypes
<1>3. old \in Floors
  BY <1>1 DEF TransportTypes, CarrierTypes, CarrierState
<1>4. /\ new \in ElevatorState(e) /\ new.batch = elev[e].batch /\ new.requests = elev[e].requests
      /\ IF old = Rider(e).to
         THEN new.at = "signal" /\ new.emptied = elev[e].emptied
         ELSE new.at = "arrive" /\ new.emptied = IF present[old] = 1 THEN old ELSE NoFloor
  BY <1>2, <1>3 DEF ElevatorState
<1>5. /\ elev' = [elev EXCEPT ![e] = new]
      /\ present' = IF old = Rider(e).to THEN present ELSE [present EXCEPT ![old] = @ - 1]
  BY DEF LeaveFloor, Rider
<1> HIDE DEF new, old
<1>6. ElevatorTypes'
  BY <1>2, <1>4, <1>5, ElevatorReplaced DEF TransportTypes
<1>7. elev'[e] = new /\ \A x \in Elevators \ {e} : elev'[x] = elev[x]
  BY <1>5 DEF ElevatorTypes, TransportTypes
<1>8. BatchTypes'
  BY <1>1, <1>4, <1>7 DEF TransportTypes, BatchTypes, Elevators
<1>9. present' \in [Floors -> Int]
  BY <1>3, <1>5 DEF TransportTypes, CounterTypes
<1>10. TransportTypes'
  BY <1>6, <1>8, <1>9 DEF LeaveFloor, TransportTypes, WordTypes, CarrierTypes, CounterTypes, EndTypes,
     endVars
<1> QED BY <1>4, <1>5, <1>7, <1>10 DEF old

\* Waking carriers changes nothing but where they are.
LEMMA WokenProperty ==
    ASSUME CarrierTypes, NEW cs, carrier' = Woken(cs)
    PROVE  /\ CarrierTypes'
           /\ \A c \in Carriers :
                 /\ carrier'[c].floor = carrier[c].floor /\ carrier'[c].word = carrier[c].word
                 /\ carrier'[c].letter = carrier[c].letter
                 /\ carrier'[c].at = IF c \in cs /\ carrier[c].at = "wait" THEN "scan" ELSE carrier[c].at
<1>1. \A c \in Carriers : carrier[c] \in CarrierState
  BY DEF CarrierTypes
<1>2. \A c \in Carriers : /\ carrier'[c] \in CarrierState
                          /\ carrier'[c].floor = carrier[c].floor /\ carrier'[c].word = carrier[c].word
                          /\ carrier'[c].letter = carrier[c].letter
                          /\ carrier'[c].at = IF c \in cs /\ carrier[c].at = "wait" THEN "scan" ELSE carrier[c].at
  BY <1>1 DEF Woken, CarrierState
<1>3. carrier' \in [Carriers -> CarrierState]
  BY <1>2 DEF Woken
<1> QED BY <1>2, <1>3 DEF CarrierTypes

\* ArriveAtFloor moves the rider to its floor.
LEMMA ArriveEffect ==
    ASSUME TransportTypes, NEW e \in Elevators, ArriveAtFloor(e)
    PROVE  /\ TransportTypes'
           /\ \A x \in Elevators \ {e} : elev'[x] = elev[x]
           /\ elev'[e].at = "signal" /\ elev'[e].emptied = elev[e].emptied
           /\ elev'[e].batch = elev[e].batch /\ elev'[e].requests = elev[e].requests
           /\ carrier'[Rider(e).carrier] = [carrier[Rider(e).carrier] EXCEPT !.floor = Rider(e).to]
           /\ \A c \in Carriers \ {Rider(e).carrier} : carrier'[c] = carrier[c]
           /\ \A c \in Carriers : /\ carrier'[c].at = carrier[c].at /\ carrier'[c].word = carrier[c].word
                                  /\ carrier'[c].letter = carrier[c].letter
<1>1. Rider(e).carrier \in Carriers /\ elev[e].batch # <<>> /\ Rider(e).to \in Floors
  BY RiderType DEF ArriveAtFloor
<1>2. elev[e] \in ElevatorState(e) /\ IsFiniteSet(elev[e].requests)
  BY DEF TransportTypes, ElevatorTypes
<1> DEFINE new == [elev[e] EXCEPT !.at = "signal"]
<1>3. /\ new \in ElevatorState(e) /\ new.at = "signal" /\ new.batch = elev[e].batch
      /\ new.requests = elev[e].requests /\ new.emptied = elev[e].emptied
  BY <1>2 DEF ElevatorState
<1>4. elev' = [elev EXCEPT ![e] = new]
  BY DEF ArriveAtFloor
<1> HIDE DEF new
<1>5. ElevatorTypes'
  BY <1>2, <1>3, <1>4, ElevatorReplaced DEF TransportTypes
<1>6. elev'[e] = new /\ \A x \in Elevators \ {e} : elev'[x] = elev[x]
  BY <1>4 DEF ElevatorTypes, TransportTypes
<1>7. BatchTypes'
  BY <1>1, <1>3, <1>6 DEF TransportTypes, BatchTypes, Elevators
<1>8. \A c \in Carriers : carrier[c] \in CarrierState
  BY DEF TransportTypes, CarrierTypes
<1>9. carrier' = [carrier EXCEPT ![Rider(e).carrier] = [carrier[Rider(e).carrier] EXCEPT !.floor = Rider(e).to]]
  BY DEF ArriveAtFloor, Rider
<1>10. /\ carrier'[Rider(e).carrier] = [carrier[Rider(e).carrier] EXCEPT !.floor = Rider(e).to]
       /\ \A c \in Carriers \ {Rider(e).carrier} : carrier'[c] = carrier[c]
  BY <1>1, <1>9 DEF TransportTypes, CarrierTypes
<1>11. \A c \in Carriers : /\ carrier'[c] \in CarrierState
                           /\ carrier'[c].at = carrier[c].at /\ carrier'[c].word = carrier[c].word
                           /\ carrier'[c].letter = carrier[c].letter
  BY <1>1, <1>8, <1>10 DEF CarrierState
<1>12. carrier' \in [Carriers -> CarrierState]
  BY <1>9, <1>11 DEF TransportTypes, CarrierTypes
<1>13. CarrierTypes'
  BY <1>11, <1>12 DEF TransportTypes, CarrierTypes
<1>14. CounterTypes'
  BY <1>1 DEF ArriveAtFloor, Rider, TransportTypes, CounterTypes
<1>15. TransportTypes'
  BY <1>5, <1>7, <1>13, <1>14 DEF ArriveAtFloor, TransportTypes, WordTypes, EndTypes, endVars
<1> QED BY <1>3, <1>6, <1>10, <1>11, <1>15

\* SignalCarrier lets the rider go and turns to the next one.
LEMMA SignalEffect ==
    ASSUME TransportTypes, NEW e \in Elevators, SignalCarrier(e)
    PROVE  /\ TransportTypes'
           /\ \A x \in Elevators \ {e} : elev'[x] = elev[x]
           /\ elev'[e].at = (IF Len(elev[e].batch) > 1 THEN FirstStage(e) ELSE LoopHead)
           /\ elev'[e].emptied = NoFloor
           /\ elev'[e].batch = Tail(elev[e].batch) /\ elev'[e].requests = elev[e].requests
<1>1. Rider(e).carrier \in Carriers /\ elev[e].batch # <<>> /\ elev[e].batch \in Seq(Request(e))
  BY RiderType DEF SignalCarrier
<1>2. elev[e] \in ElevatorState(e) /\ IsFiniteSet(elev[e].requests)
  BY DEF TransportTypes, ElevatorTypes
<1>3. /\ Tail(elev[e].batch) \in Seq(Request(e))
      /\ Len(elev[e].batch) > 1 <=> Tail(elev[e].batch) # <<>>
  <2> DEFINE t == Tail(elev[e].batch)
  <2>1. t \in Seq(Request(e)) /\ Len(t) = Len(elev[e].batch) - 1
    BY <1>1, HeadTailProperties
  <2>2. Len(elev[e].batch) \in Nat \ {0}
    BY <1>1, EmptySeq
  <2> HIDE DEF t
  <2>3. t # <<>> => Len(t) \in Nat \ {0}
    BY <2>1, EmptySeq
  <2>4. t = <<>> => Len(t) = 0
    OBVIOUS
  <2>5. Len(elev[e].batch) > 1 <=> t # <<>>
    BY <2>1, <2>2, <2>3, <2>4
  <2> QED BY <2>1, <2>5 DEF t
<1> DEFINE new == [elev[e] EXCEPT !.batch = Tail(@), !.emptied = NoFloor,
                                  !.at = IF Len(elev[e].batch) > 1 THEN FirstStage(e) ELSE LoopHead]
<1>4. /\ new \in ElevatorState(e) /\ new.batch = Tail(elev[e].batch)
      /\ new.at = (IF Len(elev[e].batch) > 1 THEN FirstStage(e) ELSE LoopHead)
      /\ new.requests = elev[e].requests /\ new.emptied = NoFloor
  BY <1>2, <1>3 DEF ElevatorState, FirstStage, LoopHead
<1>5. elev' = [elev EXCEPT ![e] = new]
  BY DEF SignalCarrier
<1> HIDE DEF new
<1>6. ElevatorTypes'
  BY <1>2, <1>4, <1>5, ElevatorReplaced DEF TransportTypes
<1>7. elev'[e] = new /\ \A x \in Elevators \ {e} : elev'[x] = elev[x]
  BY <1>5 DEF ElevatorTypes, TransportTypes
<1>8. BatchTypes'
  BY <1>3, <1>4, <1>7 DEF TransportTypes, BatchTypes, Elevators, FirstStage, LoopHead
<1>9. CarrierTypes'
  BY WokenProperty DEF SignalCarrier, TransportTypes
<1>10. CounterTypes'
  <2>1. elev[e].emptied \in Floors \cup {NoFloor}
    BY <1>2 DEF ElevatorState
  <2> QED BY <2>1 DEF SignalCarrier, StillEmpty, TransportTypes, CounterTypes
<1>11. TransportTypes'
  BY <1>6, <1>8, <1>9, <1>10 DEF SignalCarrier, TransportTypes, WordTypes, EndTypes, endVars
<1> QED BY <1>4, <1>7, <1>11

-----------------------------------------------------------------------------
(* What the other steps do                                                 *)

\* The fields of a word that say how far it has come.
Progress(w) == <<words[w].claimed, words[w].admitted, words[w].completed, words[w].reserved,
                 words[w].arrival>>

\* What a letter carrier claims is in its hand.
LEMMA ClaimLetterEffect ==
    ASSUME TransportTypes, NEW c \in Carriers, ClaimLetter(c)
    PROVE  /\ TransportTypes'
           /\ \E w \in Words : \E i \in Letters(w) :
                 /\ words[w].letter[i] = "home" /\ ~words[w].completed
                 /\ words'[w] = [words[w] EXCEPT !.letter[i] = "transit"]
                 /\ \A v \in Words \ {w} : words'[v] = words[v]
                 /\ carrier'[c].word = w /\ carrier'[c].letter = i
           /\ carrier[c].at = "scan" /\ carrier'[c].at = "hold" /\ carrier'[c].floor = carrier[c].floor
           /\ \A d \in Carriers \ {c} : carrier'[d] = carrier[d]
<1>0. PICK w \in Words : \E i \in Letters(w) :
        /\ words[w].letter[i] = "home" /\ ~words[w].completed
        /\ words' = [words EXCEPT ![w].letter[i] = "transit"]
        /\ carrier' = [carrier EXCEPT ![c].at = "hold", ![c].word = w, ![c].letter = i]
  BY DEF ClaimLetter, Open, Claimable
<1>1. PICK i \in Letters(w) :
        /\ words[w].letter[i] = "home" /\ ~words[w].completed
        /\ words' = [words EXCEPT ![w].letter[i] = "transit"]
        /\ carrier' = [carrier EXCEPT ![c].at = "hold", ![c].word = w, ![c].letter = i]
  BY <1>0
<1>2. words[w] \in SharedWord(w) /\ carrier[c] \in CarrierState /\ i \in Nat
  BY DEF TransportTypes, WordTypes, CarrierTypes, Letters
<1> DEFINE new == [words[w] EXCEPT !.letter[i] = "transit"]
<1>3. new \in SharedWord(w)
  BY <1>2 DEF SharedWord
<1>4. words' = [words EXCEPT ![w] = new]
  BY <1>1
<1>5. WordTypes'
  <2> HIDE DEF new
  <2> QED BY <1>3, <1>4, WordReplaced DEF TransportTypes
<1>6. words'[w] = new /\ \A v \in Words \ {w} : words'[v] = words[v]
  <2> HIDE DEF new
  <2> QED BY <1>4 DEF TransportTypes, WordTypes
<1>7. /\ carrier'[c].word = w /\ carrier'[c].letter = i
      /\ carrier'[c].at = "hold" /\ carrier'[c].floor = carrier[c].floor
      /\ \A d \in Carriers \ {c} : carrier'[d] = carrier[d]
      /\ carrier' \in [Carriers -> CarrierState]
  BY <1>1, <1>2 DEF TransportTypes, CarrierTypes, CarrierState
<1>8. CarrierTypes'
  BY <1>7 DEF TransportTypes, CarrierTypes
<1>9. TransportTypes'
  BY <1>5, <1>8 DEF ClaimLetter, TransportTypes, ElevatorTypes, BatchTypes, CounterTypes, EndTypes,
     floorVars, endVars
<1> QED BY <1>1, <1>6, <1>7, <1>9 DEF ClaimLetter

\* Emptying a hand.
LEMMA HandEmptied ==
    ASSUME TransportTypes, NEW c \in Carriers, NEW at \in {"scan", "wait"},
           carrier' = [carrier EXCEPT ![c].at = at, ![c].word = NoWord, ![c].letter = 0]
    PROVE  /\ CarrierTypes'
           /\ carrier'[c].at = at /\ carrier'[c].floor = carrier[c].floor
           /\ \A d \in Carriers \ {c} : carrier'[d] = carrier[d]
<1>1. carrier[c] \in CarrierState
  BY DEF TransportTypes, CarrierTypes
<1>2. /\ carrier'[c].at = at /\ carrier'[c].floor = carrier[c].floor
      /\ \A d \in Carriers \ {c} : carrier'[d] = carrier[d]
      /\ carrier' \in [Carriers -> CarrierState]
  BY <1>1 DEF TransportTypes, CarrierTypes, CarrierState
<1> QED BY <1>2 DEF TransportTypes, CarrierTypes

\* Direct placement: a delivery from the hand.
LEMMA PlaceHereEffect ==
    ASSUME TransportTypes, NEW c \in Carriers, PlaceHere(c)
    PROVE  /\ TransportTypes'
           /\ carrier[c].at = "hold" /\ carrier'[c].at = "scan" /\ carrier'[c].floor = carrier[c].floor
           /\ \A d \in Carriers \ {c} : carrier'[d] = carrier[d]
<1>1. carrier[c].word \in Words /\ carrier[c].letter \in Letters(carrier[c].word)
  BY DEF PlaceHere, TransportTypes, CarrierTypes
<1>2. WordTypes'
  BY <1>1, DeliveredType DEF PlaceHere, TransportTypes
<1>3. /\ CarrierTypes'
      /\ carrier'[c].at = "scan" /\ carrier'[c].floor = carrier[c].floor
      /\ \A d \in Carriers \ {c} : carrier'[d] = carrier[d]
  BY HandEmptied DEF PlaceHere
<1>4. TransportTypes'
  BY <1>2, <1>3 DEF PlaceHere, TransportTypes, ElevatorTypes, BatchTypes, CounterTypes, EndTypes,
     floorVars, endVars
<1> QED BY <1>3, <1>4 DEF PlaceHere

\* The request that hands a letter over to the delivery elevator.
DeliveryRequest(c) ==
    [carrier |-> c, from |-> carrier[c].floor, to |-> SortingFloor[carrier[c].word],
     word |-> carrier[c].word, letter |-> carrier[c].letter]

\* A carrier puts its letter in a request and waits.
LEMMA RequestDeliveryEffect ==
    ASSUME TransportTypes, NEW c \in Carriers, RequestDelivery(c)
    PROVE  /\ TransportTypes'
           /\ carrier[c].at = "hold" /\ carrier'[c].at = AwaitRide /\ carrier'[c].floor = carrier[c].floor
           /\ \A d \in Carriers \ {c} : carrier'[d] = carrier[d]
           /\ elev'["delivery"].requests = elev["delivery"].requests \cup {DeliveryRequest(c)}
           /\ elev'["reposition"] = elev["reposition"]
           /\ \A x \in Elevators : elev'[x].at = elev[x].at /\ elev'[x].batch = elev[x].batch
                                   /\ elev'[x].emptied = elev[x].emptied
<1>1. carrier[c].word \in Words /\ carrier[c].letter \in Letters(carrier[c].word)
      /\ carrier[c].floor \in Floors
  BY DEF RequestDelivery, TransportTypes, CarrierTypes, CarrierState
<1>2. DeliveryRequest(c) \in Request("delivery")
  <2>1. carrier[c].letter \in Nat /\ SortingFloor[carrier[c].word] \in Floors
    BY <1>1, ConstantTypes DEF Letters
  <2> QED BY <1>1, <2>1 DEF DeliveryRequest, Request
<1>3. elev' = Enqueued("delivery", DeliveryRequest(c))
  BY DEF RequestDelivery, DeliveryRequest
<1>4. /\ ElevatorTypes'
      /\ \A x \in Elevators : elev'[x].at = elev[x].at /\ elev'[x].batch = elev[x].batch
                              /\ elev'[x].emptied = elev[x].emptied
      /\ elev'["delivery"].requests = elev["delivery"].requests \cup {DeliveryRequest(c)}
      /\ elev'["reposition"] = elev["reposition"]
  <2>1. "delivery" \in Elevators /\ "reposition" \in Elevators \ {"delivery"}
    BY DEF Elevators
  <2> QED BY <1>2, <1>3, <2>1, EnqueuedType DEF TransportTypes
<1>5. /\ CarrierTypes'
      /\ carrier'[c].at = AwaitRide /\ carrier'[c].floor = carrier[c].floor
      /\ \A d \in Carriers \ {c} : carrier'[d] = carrier[d]
  <2>1. AwaitRide \in {"scan", "wait"}
    BY DEF AwaitRide
  <2> QED BY <2>1, HandEmptied DEF RequestDelivery
<1>6. BatchTypes'
  BY <1>4 DEF TransportTypes, BatchTypes, Elevators
<1>7. TransportTypes'
  BY <1>4, <1>5, <1>6 DEF RequestDelivery, TransportTypes, WordTypes, CounterTypes, EndTypes,
     floorVars, endVars
<1> QED BY <1>4, <1>5, <1>7 DEF RequestDelivery

\* An idle carrier asks for a ride to floor f.
LEMMA RequestRepositionEffect ==
    ASSUME TransportTypes, NEW c \in Carriers, NEW f \in Floors, RequestReposition(c, f)
    PROVE  /\ TransportTypes'
           /\ carrier[c].at = "scan" /\ carrier'[c] = [carrier[c] EXCEPT !.at = AwaitRide]
           /\ carrier'[c].at = AwaitRide /\ carrier'[c].floor = carrier[c].floor
           /\ \A d \in Carriers \ {c} : carrier'[d] = carrier[d]
           /\ elev'["reposition"].requests =
                  elev["reposition"].requests \cup {[carrier |-> c, from |-> carrier[c].floor, to |-> f]}
           /\ elev'["delivery"] = elev["delivery"]
           /\ \A x \in Elevators : elev'[x].at = elev[x].at /\ elev'[x].batch = elev[x].batch
                                   /\ elev'[x].emptied = elev[x].emptied
<1> DEFINE r == [carrier |-> c, from |-> carrier[c].floor, to |-> f]
<1>1. carrier[c] \in CarrierState /\ carrier[c].floor \in Floors
  BY DEF TransportTypes, CarrierTypes, CarrierState
<1>2. r \in Request("reposition")
  BY <1>1 DEF Request
<1>3. elev' = Enqueued("reposition", r)
  BY DEF RequestReposition
<1> HIDE DEF r
<1>4. /\ ElevatorTypes'
      /\ \A x \in Elevators : elev'[x].at = elev[x].at /\ elev'[x].batch = elev[x].batch
                              /\ elev'[x].emptied = elev[x].emptied
      /\ elev'["reposition"].requests = elev["reposition"].requests \cup {r}
      /\ elev'["delivery"] = elev["delivery"]
  <2>1. "reposition" \in Elevators /\ "delivery" \in Elevators \ {"reposition"}
    BY DEF Elevators
  <2> QED BY <1>2, <1>3, <2>1, EnqueuedType DEF TransportTypes
<1>5. AwaitRide \in {"scan", "wait"}
  BY DEF AwaitRide
<1>6. /\ carrier'[c] = [carrier[c] EXCEPT !.at = AwaitRide]
      /\ carrier'[c].at = AwaitRide /\ carrier'[c].floor = carrier[c].floor
      /\ \A d \in Carriers \ {c} : carrier'[d] = carrier[d]
      /\ carrier' \in [Carriers -> CarrierState]
  BY <1>1, <1>5 DEF RequestReposition, TransportTypes, CarrierTypes, CarrierState
<1>7. CarrierTypes'
  BY <1>5, <1>6 DEF TransportTypes, CarrierTypes
<1>8. BatchTypes'
  BY <1>4 DEF TransportTypes, BatchTypes, Elevators
<1>9. TransportTypes'
  BY <1>4, <1>7, <1>8 DEF RequestReposition, TransportTypes, WordTypes, CounterTypes, EndTypes,
     floorVars, endVars
<1> QED BY <1>4, <1>6, <1>9 DEF RequestReposition, r

\* A word carrier claims a word nobody has claimed.
LEMMA ClaimWordEffect ==
    ASSUME TransportTypes, NEW p \in WProcs, ClaimWord(p)
    PROVE  /\ TransportTypes'
           /\ wproc'[p] \in Words
           /\ ~words[wproc'[p]].claimed /\ ~words[wproc'[p]].admitted
           /\ words'[wproc'[p]] = [words[wproc'[p]] EXCEPT !.claimed = TRUE]
           /\ \A v \in Words \ {wproc'[p]} : words'[v] = words[v]
           /\ \A q \in WProcs \ {p} : wproc'[q] = wproc[q]
<1>1. NextWord \in Words /\ ~words[NextWord].claimed /\ ~words[NextWord].admitted
  BY NextWordUnclaimed DEF ClaimWord, TransportTypes, Unclaimed
<1> DEFINE w == NextWord
           new == [words[w] EXCEPT !.claimed = TRUE]
<1>2. words' = [words EXCEPT ![w] = new] /\ wproc' = [wproc EXCEPT ![p] = w]
      /\ cursor' = (w % NumWords) + 1
  BY DEF ClaimWord
<1> HIDE DEF w
<1>3. new \in SharedWord(w)
  BY <1>1 DEF TransportTypes, WordTypes, SharedWord, w
<1>4. WordTypes' /\ words'[w] = new /\ \A v \in Words \ {w} : words'[v] = words[v]
  <2>1. w \in Words
    BY <1>1 DEF w
  <2> HIDE DEF new
  <2> QED BY <1>2, <1>3, <2>1, WordReplaced DEF TransportTypes, WordTypes
<1>5. cursor' \in 1..NumWords
  BY <1>1, <1>2, ConstantTypes DEF w
<1>6. wproc'[p] = w /\ \A q \in WProcs \ {p} : wproc'[q] = wproc[q]
  BY <1>2 DEF TransportTypes, CounterTypes
<1>7. wproc' \in [WProcs -> Words \cup {NoWord, NotStarted}]
  BY <1>1, <1>2 DEF TransportTypes, CounterTypes, w
<1>8. CounterTypes'
  BY <1>5, <1>7 DEF ClaimWord, TransportTypes, CounterTypes, floorVars
<1>9. TransportTypes'
  BY <1>4, <1>8 DEF ClaimWord, TransportTypes, ElevatorTypes, BatchTypes, CarrierTypes, EndTypes, endVars
<1> QED BY <1>1, <1>4, <1>6, <1>9 DEF w

\* Admission takes both places or none.
LEMMA AdmitWordEffect ==
    ASSUME TransportTypes, NEW p \in WProcs, AdmitWord(p)
    PROVE  /\ TransportTypes'
           /\ wproc[p] \in Words /\ wproc'[p] = NoWord
           /\ \A q \in WProcs \ {p} : wproc'[q] = wproc[q]
           /\ \A v \in Words \ {wproc[p]} : words'[v] = words[v]
           /\ \/ /\ \A f \in Occupies(wproc[p], p[1]) : active[f] < MaxWordsPerFloor
                 /\ active' = [f \in Floors |-> active[f] + IF f \in Occupies(wproc[p], p[1]) THEN 1 ELSE 0]
                 /\ words'[wproc[p]] = [words[wproc[p]] EXCEPT !.admitted = TRUE, !.arrival = p[1],
                                                               !.reserved = TRUE]
              \/ /\ active' = active
                 /\ words'[wproc[p]] = [words[wproc[p]] EXCEPT !.claimed = FALSE]
<1> DEFINE w   == wproc[p]
           ok  == \A f \in Occupies(w, p[1]) : HasRoom(f)
           new == IF ok THEN [words[w] EXCEPT !.admitted = TRUE, !.arrival = p[1], !.reserved = TRUE]
                        ELSE [words[w] EXCEPT !.claimed = FALSE]
<1>1. w \in Words /\ words' = [words EXCEPT ![w] = new] /\ wproc' = [wproc EXCEPT ![p] = NoWord]
      /\ active' = IF ok THEN [f \in Floors |-> active[f] + IF f \in Occupies(w, p[1]) THEN 1 ELSE 0]
                         ELSE active
  BY DEF AdmitWord, ClaimReleased
<1>2. p[1] \in Floors
  BY DEF WProcs
<1>3. new \in SharedWord(w)
  <2> HIDE DEF ok
  <2> QED BY <1>1, <1>2 DEF TransportTypes, WordTypes, SharedWord
<1>4. WordTypes' /\ words'[w] = new /\ \A v \in Words \ {w} : words'[v] = words[v]
  <2> HIDE DEF new, w
  <2> QED BY <1>1, <1>3, WordReplaced DEF TransportTypes, WordTypes
<1>5. wproc'[p] = NoWord /\ (\A q \in WProcs \ {p} : wproc'[q] = wproc[q])
      /\ wproc' \in [WProcs -> Words \cup {NoWord, NotStarted}]
  BY <1>1 DEF TransportTypes, CounterTypes
<1>6. active' \in [Floors -> Int]
  <2> HIDE DEF ok
  <2> QED BY <1>1 DEF TransportTypes, CounterTypes
<1>7. CounterTypes'
  BY <1>5, <1>6 DEF AdmitWord, TransportTypes, CounterTypes
<1>8. TransportTypes'
  BY <1>4, <1>7 DEF AdmitWord, TransportTypes, ElevatorTypes, BatchTypes, CarrierTypes, EndTypes, endVars
<1>9. CASE ok
  <2>1. \A f \in Occupies(w, p[1]) : active[f] < MaxWordsPerFloor
    BY <1>9 DEF HasRoom
  <2> HIDE DEF ok
  <2> QED BY <1>1, <1>4, <1>5, <1>8, <1>9, <2>1
<1>10. CASE ~ok
  <2> HIDE DEF ok
  <2> QED BY <1>1, <1>4, <1>5, <1>8, <1>10
<1> QED BY <1>9, <1>10

\* A sorter's pass, and the word it may complete with it.
LEMMA SortWordEffect ==
    ASSUME TransportTypes, Areas, NEW s \in Sorters, SortWord(s)
    PROVE  /\ TransportTypes'
           /\ sorter[s].at = "scan"
           /\ \E w \in Words :
                 LET a == [meta |-> words[w].meta, fixed |-> words[w].fixed]
                     b == [meta |-> words'[w].meta, fixed |-> words'[w].fixed]
                 IN  /\ words[w].admitted /\ ~words[w].completed
                     /\ \A v \in Words \ {w} : words'[v] = words[v]
                     /\ words'[w] = [words[w] EXCEPT !.meta = b.meta, !.fixed = b.fixed,
                                                     !.completed = words'[w].completed]
                     /\ words'[w].completed <=> words'[w].fixed = Letters(w)
                     /\ GoodArea(w, b) /\ SameLetters(w, a, b)
                     /\ IF words'[w].completed
                        THEN sorter' = [sorter EXCEPT ![s].at = "count", ![s].word = w]
                        ELSE sorter' = sorter
<1>1. PICK w \in Words :
        LET area == SortPass(w)
            done == area.fixed = Letters(w)
        IN  /\ words[w].admitted /\ ~words[w].completed
            /\ words' = [words EXCEPT ![w].meta = area.meta, ![w].fixed = area.fixed,
                                      ![w].completed = done]
            /\ sorter' = IF done THEN [sorter EXCEPT ![s].at = "count", ![s].word = w] ELSE sorter
  BY DEF SortWord
<1> DEFINE a    == [meta |-> words[w].meta, fixed |-> words[w].fixed]
           area == SortPass(w)
           done == area.fixed = Letters(w)
           new  == [words[w] EXCEPT !.meta = area.meta, !.fixed = area.fixed, !.completed = done]
<1>2. words[w] \in SharedWord(w) /\ sorter[s].at = "scan"
  BY DEF TransportTypes, WordTypes, SortWord
<1>3. GoodArea(w, a)
  BY <1>2 DEF Areas, GoodArea, AreaType, SharedWord
<1>4. GoodArea(w, area) /\ SameLetters(w, a, area)
  BY <1>3, SortPassProperty
<1> HIDE DEF area
<1>5. area \in AreaType(w) /\ area.meta \in [Letters(w) -> 0..Length[w]]
      /\ area.fixed \in SUBSET Letters(w) /\ area = [meta |-> area.meta, fixed |-> area.fixed]
  BY <1>4 DEF GoodArea, AreaType
<1>6. done \in BOOLEAN
  OBVIOUS
<1>7. words' = [words EXCEPT ![w] = new]
  BY <1>1 DEF area
<1> HIDE DEF done
<1>8. /\ new \in SharedWord(w) /\ new.meta = area.meta /\ new.fixed = area.fixed
      /\ new.completed = done
  BY <1>2, <1>5, <1>6 DEF SharedWord
<1>9. WordTypes' /\ words'[w] = new /\ \A v \in Words \ {w} : words'[v] = words[v]
  <2> HIDE DEF new
  <2> QED BY <1>7, <1>8, WordReplaced DEF TransportTypes, WordTypes
<1>10. words'[w].meta = area.meta /\ words'[w].fixed = area.fixed /\ words'[w].completed = done
  BY <1>8, <1>9
<1>11. done <=> area.fixed = Letters(w)
  BY DEF done
<1>12. sorter' = IF done THEN [sorter EXCEPT ![s].at = "count", ![s].word = w] ELSE sorter
  BY <1>1 DEF done, area
<1>13. sorter' \in [Sorters -> SorterState]
  BY <1>12 DEF TransportTypes, SorterState
<1>14. TransportTypes'
  BY <1>9, <1>13 DEF SortWord, TransportTypes, ElevatorTypes, BatchTypes, CarrierTypes, CounterTypes,
     EndTypes, floorVars, endVars
<1>15. words'[w] = [words[w] EXCEPT !.meta = words'[w].meta, !.fixed = words'[w].fixed,
                                    !.completed = words'[w].completed]
  BY <1>9, <1>10
<1>16. area = [meta |-> words'[w].meta, fixed |-> words'[w].fixed]
  BY <1>5, <1>10
<1>17. /\ words[w].admitted /\ ~words[w].completed
       /\ words'[w].completed <=> words'[w].fixed = Letters(w)
       /\ IF words'[w].completed
          THEN sorter' = [sorter EXCEPT ![s].at = "count", ![s].word = w]
          ELSE sorter' = sorter
  BY <1>1, <1>10, <1>11, <1>12
<1> QED BY <1>2, <1>4, <1>9, <1>14, <1>15, <1>16, <1>17

\* completed_words++ is read ...
LEMMA ReadEffect ==
    ASSUME TransportTypes, NEW s \in Sorters, ReadCompleted(s)
    PROVE  /\ TransportTypes'
           /\ sorter[s].at = "count" /\ sorter'[s] = [sorter[s] EXCEPT !.at = "add", !.read = completed]
           /\ sorter'[s].at = "add" /\ sorter'[s].word = sorter[s].word /\ sorter'[s].read = completed
           /\ \A t \in Sorters \ {s} : sorter'[t] = sorter[t]
<1>1. sorter[s] \in SorterState /\ completed \in Nat
  BY DEF TransportTypes, CounterTypes
<1>2. /\ sorter'[s] = [sorter[s] EXCEPT !.at = "add", !.read = completed]
      /\ sorter'[s].at = "add" /\ sorter'[s].word = sorter[s].word /\ sorter'[s].read = completed
      /\ \A t \in Sorters \ {s} : sorter'[t] = sorter[t]
      /\ sorter' \in [Sorters -> SorterState]
  BY <1>1 DEF ReadCompleted, TransportTypes, SorterState
<1>3. TransportTypes'
  BY <1>2 DEF ReadCompleted, TransportTypes, WordTypes, ElevatorTypes, BatchTypes, CarrierTypes,
     CounterTypes, EndTypes, floorVars, endVars
<1> QED BY <1>2, <1>3 DEF ReadCompleted

\* ... and written.
LEMMA WriteEffect ==
    ASSUME TransportTypes, NEW s \in Sorters, WriteCompleted(s)
    PROVE  /\ TransportTypes'
           /\ sorter[s].at = "add" /\ completed' = sorter[s].read + 1
           /\ sorter'[s].at = "release" /\ sorter'[s].word = sorter[s].word
           /\ \A t \in Sorters \ {s} : sorter'[t] = sorter[t]
<1>1. sorter[s] \in SorterState
  BY DEF TransportTypes
<1>2. /\ sorter'[s].at = "release" /\ sorter'[s].word = sorter[s].word
      /\ \A t \in Sorters \ {s} : sorter'[t] = sorter[t]
      /\ sorter' \in [Sorters -> SorterState]
  BY <1>1 DEF WriteCompleted, TransportTypes, SorterState
<1>3. CounterTypes'
  BY <1>1 DEF WriteCompleted, TransportTypes, CounterTypes, SorterState, floorVars
<1>4. TransportTypes'
  BY <1>2, <1>3 DEF WriteCompleted, TransportTypes, WordTypes, ElevatorTypes, BatchTypes, CarrierTypes,
     EndTypes, endVars
<1> QED BY <1>2, <1>4 DEF WriteCompleted

\* The places of a completed word are given back.
LEMMA ReleaseEffect ==
    ASSUME TransportTypes, Completion, NEW s \in Sorters, ReleaseFloors(s)
    PROVE  /\ TransportTypes'
           /\ sorter[s].at = "release" /\ sorter[s].word \in Words
           /\ active' = [f \in Floors |->
                  active[f] - IF f \in Occupies(sorter[s].word, words[sorter[s].word].arrival) THEN 1 ELSE 0]
           /\ words'[sorter[s].word] = [words[sorter[s].word] EXCEPT !.reserved = FALSE]
           /\ \A v \in Words \ {sorter[s].word} : words'[v] = words[v]
           /\ sorter'[s].at = "scan"
           /\ \A t \in Sorters \ {s} : sorter'[t] = sorter[t]
<1> DEFINE w   == sorter[s].word
           new == [words[w] EXCEPT !.reserved = FALSE]
<1>1. sorter[s].at = "release" /\ w \in Words
  BY DEF ReleaseFloors, Completion, Busy
<1>2. words' = [words EXCEPT ![w] = new]
  BY DEF ReleaseFloors
<1>3. new \in SharedWord(w)
  BY <1>1 DEF TransportTypes, WordTypes, SharedWord
<1>4. WordTypes' /\ words'[w] = new /\ \A v \in Words \ {w} : words'[v] = words[v]
  <2> HIDE DEF new, w
  <2> QED BY <1>1, <1>2, <1>3, WordReplaced DEF TransportTypes, WordTypes
<1>5. active' = [f \in Floors |-> active[f] - IF f \in Occupies(w, words[w].arrival) THEN 1 ELSE 0]
  BY DEF ReleaseFloors
<1>6. CounterTypes'
  BY <1>5 DEF ReleaseFloors, TransportTypes, CounterTypes
<1>7. /\ sorter'[s].at = "scan"
      /\ \A t \in Sorters \ {s} : sorter'[t] = sorter[t]
      /\ sorter' \in [Sorters -> SorterState]
  BY DEF ReleaseFloors, TransportTypes, SorterState
<1>8. TransportTypes'
  BY <1>4, <1>6, <1>7 DEF ReleaseFloors, TransportTypes, ElevatorTypes, BatchTypes, CarrierTypes,
     EndTypes, endVars
<1> QED BY <1>1, <1>4, <1>5, <1>7, <1>8

\* New letter carriers start on floor f.
LEMMA BornProperty ==
    ASSUME CarrierTypes, NEW new \in SUBSET Unborn, NEW f \in Floors, carrier' = Born(new, f)
    PROVE  /\ CarrierTypes'
           /\ \A c \in new : carrier[c].at = "none" /\ carrier'[c].at = "scan" /\ carrier'[c].floor = f
           /\ \A c \in Carriers \ new : carrier'[c] = carrier[c]
<1>1. new \subseteq Carriers /\ \A c \in new : carrier[c].at = "none"
  BY DEF Unborn
<1>2. \A c \in Carriers : carrier[c] \in CarrierState
  BY DEF CarrierTypes
<1>3. /\ \A c \in new : carrier'[c] \in CarrierState /\ carrier'[c].at = "scan" /\ carrier'[c].floor = f
      /\ \A c \in Carriers \ new : carrier'[c] = carrier[c]
  BY <1>1, <1>2 DEF Born, CarrierState
<1>4. carrier' \in [Carriers -> CarrierState]
  BY <1>1, <1>2, <1>3 DEF Born
<1> QED BY <1>1, <1>3, <1>4 DEF CarrierTypes

\* The processes of a floor are started.
LEMMA SpawnFloorEffect ==
    ASSUME TransportTypes, SpawnFloor
    PROVE  /\ TransportTypes'
           /\ \E new \in SUBSET Unborn :
                 /\ Cardinality(new) = LetterCarriers
                 /\ \A c \in new : carrier[c].at = "none" /\ carrier'[c].at = "scan"
                                   /\ carrier'[c].floor = parent.floor
                 /\ \A c \in Carriers \ new : carrier'[c] = carrier[c]
           /\ parent.floor \in Floors
           /\ present' = [present EXCEPT ![parent.floor] = @ + LetterCarriers]
           /\ \/ parent'.at = "start" /\ parent'.floor = parent.floor + 1
              \/ parent'.at = "elevators" /\ parent.floor + 1 = NumFloors
           /\ \A s \in Sorters : sorter'[s].word = sorter[s].word
                                 /\ (sorter'[s].at = sorter[s].at \/ (s[1] = parent.floor /\ sorter'[s].at = "scan"))
           /\ \A p \in WProcs : wproc'[p] = wproc[p] \/ (p[1] = parent.floor /\ wproc'[p] = NoWord)
<1> DEFINE f == parent.floor
<1>1. parent \in ParentState /\ f \in Floors
  BY DEF TransportTypes, EndTypes, ParentState
<1>2. PICK new \in kSubset(LetterCarriers, Unborn) : carrier' = Born(new, f)
  BY DEF SpawnFloor
<1>3. new \in SUBSET Unborn /\ Cardinality(new) = LetterCarriers
  BY <1>2 DEF kSubset
<1>4. /\ CarrierTypes'
      /\ \A c \in new : carrier[c].at = "none" /\ carrier'[c].at = "scan" /\ carrier'[c].floor = f
      /\ \A c \in Carriers \ new : carrier'[c] = carrier[c]
  <2> HIDE DEF f
  <2> QED BY <1>1, <1>2, <1>3, BornProperty DEF TransportTypes
<1>5. present' = [present EXCEPT ![f] = @ + LetterCarriers] /\ respawn' = [respawn EXCEPT ![f] = FALSE]
      /\ wproc' = [p \in WProcs |-> IF p[1] = f THEN NoWord ELSE wproc[p]]
      /\ sorter' = [s \in Sorters |-> IF s[1] = f THEN [sorter[s] EXCEPT !.at = "scan"] ELSE sorter[s]]
  BY DEF SpawnFloor
<1>6. CounterTypes'
  <2> HIDE DEF f
  <2> QED BY <1>1, <1>5, ConstantTypes DEF SpawnFloor, TransportTypes, CounterTypes
<1>7. /\ sorter' \in [Sorters -> SorterState]
      /\ \A s \in Sorters : sorter'[s].word = sorter[s].word
                            /\ (sorter'[s].at = sorter[s].at \/ (s[1] = f /\ sorter'[s].at = "scan"))
  <2> HIDE DEF f
  <2>1. \A s \in Sorters : sorter[s] \in SorterState
    BY DEF TransportTypes
  <2> QED BY <1>5, <2>1 DEF SorterState
<1>8. /\ parent' \in ParentState
      /\ \/ parent'.at = "start" /\ parent'.floor = parent.floor + 1
         \/ parent'.at = "elevators" /\ parent.floor + 1 = NumFloors
  <2>1. parent.floor + 1 < NumFloors => parent.floor + 1 \in Floors
    BY <1>1, ConstantTypes DEF Floors
  <2>2. ~(parent.floor + 1 < NumFloors) => parent.floor + 1 = NumFloors
    BY <1>1, ConstantTypes DEF Floors
  <2>3. CASE parent.floor + 1 < NumFloors
    <3>1. parent' = [parent EXCEPT !.floor = @ + 1]
      BY <2>3 DEF SpawnFloor
    <3>2. parent.at = "start"
      BY DEF SpawnFloor
    <3> QED BY <1>1, <2>1, <2>3, <3>1, <3>2 DEF ParentState
  <2>4. CASE ~(parent.floor + 1 < NumFloors)
    <3>1. parent' = [parent EXCEPT !.at = "elevators", !.floor = 0]
      BY <2>4 DEF SpawnFloor
    <3> QED BY <1>1, <2>2, <2>4, <3>1, ConstantTypes DEF ParentState
  <2> QED BY <2>3, <2>4
<1>9. TransportTypes'
  BY <1>4, <1>6, <1>7, <1>8 DEF SpawnFloor, TransportTypes, WordTypes, ElevatorTypes, BatchTypes, EndTypes
<1>10. \A p \in WProcs : wproc'[p] = wproc[p] \/ (p[1] = f /\ wproc'[p] = NoWord)
  BY <1>5
<1> QED BY <1>1, <1>3, <1>4, <1>5, <1>7, <1>8, <1>9, <1>10

\* The elevators start.
LEMMA StartElevatorsEffect ==
    ASSUME TransportTypes, \A e \in Elevators : elev[e].at = "none", StartElevators
    PROVE  /\ TransportTypes'
           /\ \A e \in Elevators : /\ elev'[e].at = LoopHead /\ elev'[e].requests = elev[e].requests
                                   /\ elev'[e].batch = elev[e].batch /\ elev'[e].emptied = elev[e].emptied
           /\ parent'.at = "loop"
<1>1. \A e \in Elevators : elev[e] \in ElevatorState(e) /\ IsFiniteSet(elev[e].requests)
  BY DEF TransportTypes, ElevatorTypes
<1>2. elev' = [e \in Elevators |-> [elev[e] EXCEPT !.at = LoopHead]]
  BY DEF StartElevators
<1>3. \A e \in Elevators : /\ elev'[e] \in ElevatorState(e) /\ elev'[e].at = LoopHead
                           /\ elev'[e].requests = elev[e].requests
                           /\ elev'[e].batch = elev[e].batch /\ elev'[e].emptied = elev[e].emptied
  BY <1>1, <1>2 DEF ElevatorState, LoopHead
<1>4. ElevatorTypes'
  BY <1>1, <1>2, <1>3 DEF ElevatorTypes
<1>5. BatchTypes'
  BY <1>3 DEF TransportTypes, BatchTypes, LoopHead, Elevators
<1>6. parent' \in ParentState /\ parent'.at = "loop"
  BY DEF StartElevators, TransportTypes, EndTypes, ParentState
<1>7. TransportTypes'
  BY <1>4, <1>5, <1>6 DEF StartElevators, TransportTypes, WordTypes, CarrierTypes, CounterTypes, EndTypes,
     floorVars
<1> QED BY <1>3, <1>6, <1>7

\* A letter carrier is spawned for a floor that had none.
LEMMA SpawnCarrierEffect ==
    ASSUME TransportTypes, SpawnCarrier
    PROVE  /\ TransportTypes'
           /\ \E c \in Unborn : /\ carrier[c].at = "none" /\ carrier'[c].at = "scan"
                                /\ carrier'[c].floor = parent.floor
                                /\ \A d \in Carriers \ {c} : carrier'[d] = carrier[d]
           /\ parent.floor \in Floors
           /\ present' = [present EXCEPT ![parent.floor] = @ + 1]
           /\ parent.at = "spawn" /\ parent'.at \in {"spawn", "loop"}
<1> DEFINE f == parent.floor
<1>1. parent \in ParentState /\ f \in Floors
  BY DEF TransportTypes, EndTypes, ParentState
<1>2. PICK c \in Unborn : carrier' = Born({c}, f)
  BY DEF SpawnCarrier
<1>3. /\ CarrierTypes'
      /\ carrier[c].at = "none" /\ carrier'[c].at = "scan" /\ carrier'[c].floor = f
      /\ \A d \in Carriers \ {c} : carrier'[d] = carrier[d]
  <2>1. {c} \in SUBSET Unborn
    BY <1>2
  <2> HIDE DEF f
  <2>2. /\ CarrierTypes'
        /\ \A d \in {c} : carrier[d].at = "none" /\ carrier'[d].at = "scan" /\ carrier'[d].floor = f
        /\ \A d \in Carriers \ {c} : carrier'[d] = carrier[d]
    BY <1>1, <1>2, <2>1, BornProperty DEF TransportTypes
  <2> QED BY <2>2
<1>4. CounterTypes'
  BY <1>1 DEF SpawnCarrier, TransportTypes, CounterTypes
<1>5. parent' \in ParentState /\ parent.at = "spawn" /\ parent'.at \in {"spawn", "loop"}
  <2>1. CASE parent.left > 1
    <3>1. parent' = [parent EXCEPT !.left = @ - 1] /\ parent.left \in Nat
      BY <1>1, <2>1 DEF SpawnCarrier, ParentState
    <3> QED BY <1>1, <2>1, <3>1 DEF SpawnCarrier, ParentState
  <2>2. CASE ~(parent.left > 1)
    BY <2>2, ConstantTypes DEF SpawnCarrier, ParentState
  <2> QED BY <2>1, <2>2
<1>6. TransportTypes'
  BY <1>3, <1>4, <1>5 DEF SpawnCarrier, TransportTypes, WordTypes, ElevatorTypes, BatchTypes, EndTypes
<1> QED BY <1>1, <1>2, <1>3, <1>5, <1>6 DEF SpawnCarrier

\* The steps of the parent that move nothing but itself and the end flags.
ParentOnly ==
    \/ \E f \in Floors : LookAtFloor(f)
    \/ TooManyCarriers \/ ReportRun \/ ParentExits \/ Interrupt \/ ReapInterrupted

\* They keep the types.
LEMMA ParentOnlyEffect ==
    ASSUME TransportTypes, ParentOnly
    PROVE  /\ TransportTypes'
           /\ UNCHANGED <<words, active, present, respawn, cursor, wproc, carrier, sorter, elev, completed>>
           /\ shutdown => shutdown'
           /\ parent'.at = "start" <=> parent.at = "start"
           /\ parent'.at = "elevators" <=> parent.at = "elevators"
           /\ parent'.at \in {"report", "reap", "ended", "aborted"}
              <=> parent.at \in {"report", "reap", "ended", "aborted"}
           /\ parent.at = "start" => parent' = parent
<1>1. UNCHANGED <<words, active, present, respawn, cursor, wproc, carrier, sorter, elev, completed>>
  BY DEF ParentOnly, LookAtFloor, TooManyCarriers, ReportRun, ParentExits, Interrupt, ReapInterrupted, floorVars
<1>2. parent \in ParentState
  BY DEF TransportTypes, EndTypes
<1>3. /\ EndTypes' /\ (shutdown => shutdown')
      /\ parent'.at = "start" <=> parent.at = "start"
      /\ parent'.at = "elevators" <=> parent.at = "elevators"
      /\ parent'.at \in {"report", "reap", "ended", "aborted"}
              <=> parent.at \in {"report", "reap", "ended", "aborted"}
      /\ parent.at = "start" => parent' = parent
  <2>1. ASSUME NEW f \in Floors, LookAtFloor(f)
        PROVE  parent' \in ParentState /\ parent'.at = "spawn" /\ parent.at = "loop"
               /\ UNCHANGED <<shutdown, stopped, output>>
    BY <2>1, ConstantTypes DEF LookAtFloor, ParentState
  <2>2. CASE TooManyCarriers
    BY <1>2, <2>2 DEF TooManyCarriers, ParentState, TransportTypes, EndTypes
  <2>3. CASE ReportRun
    BY <1>2, <2>3 DEF ReportRun, ParentState, TransportTypes, EndTypes
  <2>4. CASE ParentExits
    BY <1>2, <2>4 DEF ParentExits, ParentState, TransportTypes, EndTypes
  <2>5. CASE Interrupt
    BY <2>5 DEF Interrupt, TransportTypes, EndTypes
  <2>6. CASE ReapInterrupted
    BY <1>2, <2>6 DEF ReapInterrupted, ParentState, TransportTypes, EndTypes
  <2>7. ASSUME NEW f \in Floors, LookAtFloor(f)
        PROVE  EndTypes'
    BY <2>1, <2>7 DEF TransportTypes, EndTypes
  <2> QED BY <2>1, <2>2, <2>3, <2>4, <2>5, <2>6, <2>7 DEF ParentOnly
<1>4. TransportTypes'
  BY <1>1, <1>3 DEF TransportTypes, WordTypes, ElevatorTypes, BatchTypes, CarrierTypes, CounterTypes
<1> QED BY <1>1, <1>3, <1>4

\* The parent leaves its loop and wakes everybody.
LEMMA EndLoopEffect ==
    ASSUME TransportTypes, EndLoop
    PROVE  /\ TransportTypes'
           /\ parent.at = "loop" /\ parent'.at = "report" /\ shutdown'
           /\ \A c \in Carriers :
                 /\ carrier'[c].floor = carrier[c].floor /\ carrier'[c].word = carrier[c].word
                 /\ carrier'[c].letter = carrier[c].letter
                 /\ carrier'[c].at = IF carrier[c].at = "wait" THEN "scan" ELSE carrier[c].at
<1>1. /\ CarrierTypes'
      /\ \A c \in Carriers :
            /\ carrier'[c].floor = carrier[c].floor /\ carrier'[c].word = carrier[c].word
            /\ carrier'[c].letter = carrier[c].letter
            /\ carrier'[c].at = IF carrier[c].at = "wait" THEN "scan" ELSE carrier[c].at
  BY WokenProperty DEF EndLoop, TransportTypes
<1>2. parent \in ParentState
  BY DEF TransportTypes, EndTypes
<1>3. EndTypes' /\ parent.at = "loop" /\ parent'.at = "report" /\ shutdown'
  BY <1>2 DEF EndLoop, TransportTypes, EndTypes, ParentState
<1>4. TransportTypes'
  BY <1>1, <1>3 DEF EndLoop, TransportTypes, WordTypes, ElevatorTypes, BatchTypes, CounterTypes, floorVars
<1> QED BY <1>1, <1>3, <1>4

\* A delivery touches one letter and at most one free slot.
LEMMA DeliveredEffect ==
    ASSUME WordTypes, NEW w \in Words, NEW i \in Letters(w), words' = Delivered(w, i)
    PROVE  /\ \A v \in Words \ {w} : words'[v] = words[v]
           /\ \A v \in Words : Progress(v)' = Progress(v) /\ words'[v].fixed = words[v].fixed
           /\ \A j \in Letters(w) \ {i} : words'[w].letter[j] = words[w].letter[j]
           /\ \/ words'[w].letter[i] = "home" /\ words'[w].meta = words[w].meta
              \/ /\ words'[w].letter[i] = "placed"
                 /\ \E k \in Letters(w) : /\ k \notin words[w].fixed /\ words[w].meta[k] = 0
                                          /\ words'[w].meta = [words[w].meta EXCEPT ![k] = i]
<1>1. words[w] \in SharedWord(w)
  BY DEF WordTypes
<1>2. CASE words' = [words EXCEPT ![w].letter[i] = "home"]
  <2>1. words'[w] = [words[w] EXCEPT !.letter[i] = "home"] /\ \A v \in Words \ {w} : words'[v] = words[v]
    BY <1>2 DEF WordTypes
  <2> QED BY <1>1, <2>1 DEF SharedWord, Progress
<1>3. ASSUME NEW k \in Letters(w), k \notin words[w].fixed, words[w].meta[k] = 0,
             words' = [words EXCEPT ![w].letter[i] = "placed", ![w].meta[k] = i]
      PROVE  /\ \A v \in Words \ {w} : words'[v] = words[v]
             /\ \A v \in Words : Progress(v)' = Progress(v) /\ words'[v].fixed = words[v].fixed
             /\ \A j \in Letters(w) \ {i} : words'[w].letter[j] = words[w].letter[j]
             /\ words'[w].letter[i] = "placed"
             /\ words'[w].meta = [words[w].meta EXCEPT ![k] = i]
  <2>1. words'[w] = [words[w] EXCEPT !.letter[i] = "placed", !.meta[k] = i]
        /\ \A v \in Words \ {w} : words'[v] = words[v]
    BY <1>3 DEF WordTypes
  <2>2. /\ words'[w].claimed = words[w].claimed /\ words'[w].admitted = words[w].admitted
        /\ words'[w].completed = words[w].completed /\ words'[w].reserved = words[w].reserved
        /\ words'[w].arrival = words[w].arrival /\ words'[w].fixed = words[w].fixed
        /\ words'[w].meta = [words[w].meta EXCEPT ![k] = i]
        /\ words'[w].letter = [words[w].letter EXCEPT ![i] = "placed"]
    BY <1>1, <2>1 DEF SharedWord
  <2>3. words[w].letter \in [Letters(w) -> {"home", "transit", "placed"}]
    BY <1>1 DEF SharedWord
  <2> QED BY <2>1, <2>2, <2>3 DEF Progress
<1> QED BY <1>2, <1>3, DeliveredProperty

\* The steps that have no part in admitting and completing words.
Quiet ==
    \/ \E c \in Carriers : LetterCarrierStep(c)
    \/ \E e \in Elevators : ElevatorStep(e)
    \/ StartElevators \/ SpawnCarrier \/ EndLoop \/ ParentOnly
    \/ UNCHANGED vars

\* They leave the words' progress alone.
LEMMA QuietEffect ==
    ASSUME TransportTypes, Quiet
    PROVE  /\ UNCHANGED <<wproc, sorter, active, completed>>
           /\ \A w \in Words : Progress(w)' = Progress(w) /\ words'[w].fixed = words[w].fixed
<1>1. UNCHANGED <<wproc, sorter, active, completed>>
  BY DEF Quiet, LetterCarrierStep, ClaimLetter, PlaceHere, RequestDelivery, RequestReposition, ElevatorStep,
     Collect, Deliver, LeaveFloor, ArriveAtFloor, SignalCarrier, StartElevators, SpawnCarrier, EndLoop,
     ParentOnly, LookAtFloor, TooManyCarriers, ReportRun, ParentExits, Interrupt, ReapInterrupted, vars, floorVars
<1>2. ASSUME NEW c \in Carriers, ClaimLetter(c)
      PROVE  \A w \in Words : Progress(w)' = Progress(w) /\ words'[w].fixed = words[w].fixed
  <2>1. PICK w \in Words : \E i \in Letters(w) :
               /\ words'[w] = [words[w] EXCEPT !.letter[i] = "transit"]
               /\ \A v \in Words \ {w} : words'[v] = words[v]
    BY <1>2, ClaimLetterEffect
  <2>2. words[w] \in SharedWord(w)
    BY DEF TransportTypes, WordTypes
  <2> QED BY <2>1, <2>2 DEF Progress, SharedWord
<1>3. ASSUME NEW c \in Carriers, PlaceHere(c)
      PROVE  \A w \in Words : Progress(w)' = Progress(w) /\ words'[w].fixed = words[w].fixed
  <2>1. carrier[c].word \in Words /\ carrier[c].letter \in Letters(carrier[c].word)
    BY <1>3 DEF PlaceHere, TransportTypes, CarrierTypes
  <2> QED BY <1>3, <2>1, DeliveredEffect DEF PlaceHere, TransportTypes
<1>4. ASSUME NEW e \in Elevators, Deliver(e)
      PROVE  \A w \in Words : Progress(w)' = Progress(w) /\ words'[w].fixed = words[w].fixed
  <2>1. Rider(e).word \in Words /\ Rider(e).letter \in Letters(Rider(e).word)
    BY <1>4, DeliverEffect, RiderType DEF Deliver
  <2> QED BY <1>4, <2>1, DeliveredEffect DEF Deliver, TransportTypes, Rider
<1>5. CASE words' = words
  BY <1>1, <1>5 DEF Progress
<1>6. \/ \E c \in Carriers : ClaimLetter(c) \/ PlaceHere(c)
      \/ \E e \in Elevators : Deliver(e)
      \/ words' = words
  BY DEF Quiet, LetterCarrierStep, RequestDelivery, RequestReposition, ElevatorStep,
     Collect, LeaveFloor, ArriveAtFloor, SignalCarrier, StartElevators, SpawnCarrier, EndLoop,
     ParentOnly, LookAtFloor, TooManyCarriers, ReportRun, ParentExits, Interrupt, ReapInterrupted, vars
<1> QED BY <1>1, <1>2, <1>3, <1>4, <1>5, <1>6

\* Every step is of one of these kinds.
LEMMA StepKinds ==
    ASSUME [Next]_vars
    PROVE  \/ \E p \in WProcs : ClaimWord(p) \/ AdmitWord(p)
           \/ \E s \in Sorters : SortWord(s) \/ ReadCompleted(s) \/ WriteCompleted(s) \/ ReleaseFloors(s)
           \/ SpawnFloor
           \/ Quiet
BY DEF Next, WordCarrierStep, SorterStep, ParentStep, ParentOnly, Quiet

-----------------------------------------------------------------------------
(* Admission and completion of words                                       *)

\* Claims, admissions and completions keep to their order.
LEMMA AdmissionStep ==
    ASSUME TransportTypes, Admission, Completion, Areas, [Next]_vars
    PROVE  Admission' /\ Completion'
<1> USE DEF Busy
<1>1. \A w \in Words : words[w] \in SharedWord(w)
  BY DEF TransportTypes, WordTypes
<1>2. ASSUME NEW p \in WProcs, ClaimWord(p)
      PROVE  Admission' /\ Completion'
  <2>1. PICK w \in Words : /\ w = wproc'[p] /\ ~words[w].claimed /\ ~words[w].admitted
                           /\ words'[w] = [words[w] EXCEPT !.claimed = TRUE]
                           /\ \A v \in Words \ {w} : words'[v] = words[v]
                           /\ \A q \in WProcs \ {p} : wproc'[q] = wproc[q]
    BY <1>2, ClaimWordEffect
  <2>2. /\ words'[w].claimed /\ words'[w].admitted = words[w].admitted
        /\ words'[w].reserved = words[w].reserved /\ words'[w].completed = words[w].completed
    BY <1>1, <2>1 DEF SharedWord
  <2>3. sorter' = sorter
    BY <1>2 DEF ClaimWord
  <2>6. \A v \in Words : /\ words'[v].admitted = words[v].admitted /\ words'[v].reserved = words[v].reserved
                         /\ words'[v].completed = words[v].completed
    BY <2>1, <2>2
  <2>4. Admission'
    <3>1. \A q \in WProcs \ {p} : wproc'[q] = wproc[q] /\ wproc[q] # w
      BY <2>1 DEF Admission
    <3>2. \A q \in WProcs : wproc'[q] \in Words =>
              words'[wproc'[q]].claimed /\ ~words'[wproc'[q]].admitted
      <4> SUFFICES ASSUME NEW q \in WProcs, wproc'[q] \in Words
                   PROVE  words'[wproc'[q]].claimed /\ ~words'[wproc'[q]].admitted
        OBVIOUS
      <4>1. CASE q = p
        BY <2>1, <2>2, <4>1
      <4>2. CASE q # p
        <5>1. wproc'[q] = wproc[q] /\ wproc[q] # w
          BY <3>1, <4>2
        <5> QED BY <2>1, <5>1 DEF Admission
      <4> QED BY <4>1, <4>2
    <3>3. \A q, r \in WProcs : wproc'[q] \in Words /\ wproc'[q] = wproc'[r] => q = r
      BY <2>1, <3>1 DEF Admission
    <3>4. \A v \in Words : /\ words'[v].reserved \/ words'[v].completed => words'[v].admitted
                           /\ words'[v].admitted => words'[v].reserved \/ words'[v].completed
      BY <2>6 DEF Admission
    <3> QED BY <3>2, <3>3, <3>4 DEF Admission
  <2>5. Completion'
    BY <2>3, <2>6 DEF Completion, Busy
  <2> QED BY <2>4, <2>5
<1>3. ASSUME NEW p \in WProcs, AdmitWord(p)
      PROVE  Admission' /\ Completion'
  <2> DEFINE w == wproc[p]
  <2>1. /\ w \in Words /\ wproc'[p] = NoWord
        /\ \A v \in Words \ {w} : words'[v] = words[v]
        /\ \A q \in WProcs \ {p} : wproc'[q] = wproc[q]
        /\ \/ words'[w] = [words[w] EXCEPT !.admitted = TRUE, !.arrival = p[1], !.reserved = TRUE]
           \/ words'[w] = [words[w] EXCEPT !.claimed = FALSE]
    BY <1>3, AdmitWordEffect
  <2>2. /\ words'[w].completed = words[w].completed
        /\ \/ words'[w].admitted /\ words'[w].reserved
           \/ words'[w].admitted = words[w].admitted /\ words'[w].reserved = words[w].reserved
    BY <1>1, <2>1 DEF SharedWord
  <2>3. sorter' = sorter
    BY <1>3 DEF AdmitWord
  <2>4. ~words[w].admitted /\ ~words[w].completed
    BY <2>1 DEF Admission
  <2>5. \A q \in WProcs \ {p} : wproc[q] # w
    BY <2>1 DEF Admission
  <2> HIDE DEF w
  <2>6. Admission'
    BY <2>1, <2>2, <2>4, <2>5, ConstantTypes DEF Admission
  <2>7. Completion'
    BY <2>1, <2>2, <2>3, <2>4 DEF Completion
  <2> QED BY <2>6, <2>7
<1>4. ASSUME NEW s \in Sorters, SortWord(s)
      PROVE  Admission' /\ Completion'
  <2>1. PICK w \in Words :
               /\ words[w].admitted /\ ~words[w].completed
               /\ \A v \in Words \ {w} : words'[v] = words[v]
               /\ words'[w] = [words[w] EXCEPT !.meta = words'[w].meta, !.fixed = words'[w].fixed,
                                               !.completed = words'[w].completed]
               /\ IF words'[w].completed
                  THEN sorter' = [sorter EXCEPT ![s].at = "count", ![s].word = w]
                  ELSE sorter' = sorter
    BY <1>4, SortWordEffect
  <2>2. /\ words'[w].admitted = words[w].admitted /\ words'[w].reserved = words[w].reserved
        /\ words'[w].claimed = words[w].claimed
    BY <1>1, <2>1 DEF SharedWord
  <2>3. wproc' = wproc
    BY <1>4 DEF SortWord
  <2>4. words[w].reserved
    BY <2>1 DEF Admission
  <2>5. \A t \in Sorters : Busy(t) => sorter[t].word # w
    BY <2>1 DEF Completion
  <2>6. Admission'
    BY <2>1, <2>2, <2>3, <2>4 DEF Admission
  <2>7. Completion'
    <3>1. CASE words'[w].completed
      <4>1. /\ sorter'[s].at = "count" /\ sorter'[s].word = w
            /\ \A t \in Sorters \ {s} : sorter'[t] = sorter[t]
        BY <2>1, <3>1 DEF TransportTypes, SorterState
      <4>2. \A t \in Sorters : Busy(t)' =>
               /\ sorter'[t].word \in Words
               /\ words'[sorter'[t].word].completed /\ words'[sorter'[t].word].reserved
        <5> SUFFICES ASSUME NEW t \in Sorters, Busy(t)'
                     PROVE  /\ sorter'[t].word \in Words
                            /\ words'[sorter'[t].word].completed /\ words'[sorter'[t].word].reserved
          OBVIOUS
        <5>1. CASE t = s
          BY <2>2, <2>4, <3>1, <4>1, <5>1
        <5>2. CASE t # s
          <6>1. sorter'[t] = sorter[t] /\ Busy(t)
            BY <4>1, <5>2
          <6>2. sorter[t].word \in Words \ {w}
            BY <2>5, <6>1 DEF Completion
          <6> QED BY <2>1, <6>1, <6>2 DEF Completion
        <5> QED BY <5>1, <5>2
      <4>3. \A t, u \in Sorters : Busy(t)' /\ Busy(u)' /\ sorter'[t].word = sorter'[u].word => t = u
        BY <2>5, <4>1 DEF Completion
      <4> QED BY <4>2, <4>3 DEF Completion
    <3>2. CASE ~words'[w].completed
      <4>1. sorter' = sorter
        BY <2>1, <3>2
      <4> QED BY <2>1, <2>2, <2>5, <4>1 DEF Completion
    <3> QED BY <3>1, <3>2
  <2> QED BY <2>6, <2>7
<1>5. ASSUME NEW s \in Sorters, ReadCompleted(s) \/ WriteCompleted(s)
      PROVE  Admission' /\ Completion'
  <2>1. /\ Busy(s) /\ sorter'[s].word = sorter[s].word
        /\ \A t \in Sorters \ {s} : sorter'[t] = sorter[t]
    BY <1>5, ReadEffect, WriteEffect
  <2>2. UNCHANGED <<words, wproc>>
    BY <1>5 DEF ReadCompleted, WriteCompleted
  <2> QED BY <2>1, <2>2 DEF Admission, Completion
<1>6. ASSUME NEW s \in Sorters, ReleaseFloors(s)
      PROVE  Admission' /\ Completion'
  <2> DEFINE w == sorter[s].word
  <2>1. /\ w \in Words /\ Busy(s)
        /\ words'[w] = [words[w] EXCEPT !.reserved = FALSE]
        /\ \A v \in Words \ {w} : words'[v] = words[v]
        /\ sorter'[s].at = "scan"
        /\ \A t \in Sorters \ {s} : sorter'[t] = sorter[t]
    BY <1>6, ReleaseEffect
  <2>2. /\ words'[w].admitted = words[w].admitted /\ words'[w].completed = words[w].completed
        /\ words'[w].claimed = words[w].claimed /\ ~words'[w].reserved
    BY <1>1, <2>1 DEF SharedWord
  <2>3. words[w].completed /\ \A t \in Sorters \ {s} : Busy(t) => sorter[t].word # w
    BY <2>1 DEF Completion
  <2>4. wproc' = wproc
    BY <1>6 DEF ReleaseFloors
  <2> HIDE DEF w
  <2>5. Admission'
    BY <2>1, <2>2, <2>3, <2>4 DEF Admission
  <2>6. Completion'
    BY <2>1, <2>2, <2>3 DEF Completion
  <2> QED BY <2>5, <2>6
<1>7. CASE SpawnFloor
  <2>1. /\ \A s \in Sorters : /\ sorter'[s].word = sorter[s].word
                              /\ sorter'[s].at = sorter[s].at \/ sorter'[s].at = "scan"
        /\ \A p \in WProcs : wproc'[p] = wproc[p] \/ wproc'[p] = NoWord
    BY <1>7, SpawnFloorEffect
  <2>2. words' = words
    BY <1>7 DEF SpawnFloor
  <2>3. Admission'
    BY <2>1, <2>2, ConstantTypes DEF Admission
  <2>4. Completion'
    BY <2>1, <2>2 DEF Completion
  <2> QED BY <2>3, <2>4
<1>8. CASE Quiet
  BY <1>8, QuietEffect DEF Admission, Completion, Progress
<1> QED BY <1>2, <1>3, <1>4, <1>5, <1>6, <1>7, <1>8, StepKinds

\* The words that hold a place on floor f.
Places(f) == {w \in Words : words[w].reserved /\ f \in Occupies(w, words[w].arrival)}

\* Places are taken and given back one by one, and counted.
LEMMA CapacityStep ==
    ASSUME TransportTypes, Admission, Completion, Areas, CapacityRespected, [Next]_vars
    PROVE  CapacityRespected'
<1>1. \A w \in Words : words[w] \in SharedWord(w)
  BY DEF TransportTypes, WordTypes
<1>2. \A f \in Floors : active[f] \in Int /\ IsFiniteSet(Places(f)) /\ Cardinality(Places(f)) \in Nat
  <2>1. \A f \in Floors : Places(f) \in SUBSET Words
    BY DEF Places
  <2>2. \A f \in Floors : IsFiniteSet(Places(f))
    BY <2>1, ConstantTypes, FS_Subset
  <2> QED BY <2>2, FS_CardinalityType DEF TransportTypes, CounterTypes
<1>3. \A f \in Floors : active[f] = Cardinality(Places(f)) /\ active[f] <= MaxWordsPerFloor
  BY DEF CapacityRespected, Places
<1>4. ASSUME active' = active,
             \A w \in Words : words'[w].reserved = words[w].reserved /\ words'[w].arrival = words[w].arrival
      PROVE  CapacityRespected'
  <2>1. \A f \in Floors : Places(f)' = Places(f)
    BY <1>4 DEF Places, Occupies
  <2> QED BY <1>3, <1>4, <2>1 DEF CapacityRespected, Places
<1>5. ASSUME NEW p \in WProcs, ClaimWord(p)
      PROVE  CapacityRespected'
  <2>1. PICK w \in Words : /\ words'[w] = [words[w] EXCEPT !.claimed = TRUE]
                           /\ \A v \in Words \ {w} : words'[v] = words[v]
    BY <1>5, ClaimWordEffect
  <2>2. words'[w].reserved = words[w].reserved /\ words'[w].arrival = words[w].arrival
    BY <1>1, <2>1 DEF SharedWord
  <2>3. active' = active
    BY <1>5 DEF ClaimWord, floorVars
  <2> QED BY <1>4, <2>1, <2>2, <2>3
<1>6. ASSUME NEW p \in WProcs, AdmitWord(p)
      PROVE  CapacityRespected'
  <2> DEFINE w == wproc[p]
  <2>1. w \in Words /\ \A v \in Words \ {w} : words'[v] = words[v]
    BY <1>6, AdmitWordEffect
  <2>2. ~words[w].reserved
    BY <2>1 DEF Admission
  <2>3. CASE active' = active /\ words'[w] = [words[w] EXCEPT !.claimed = FALSE]
    <3>1. words'[w].reserved = words[w].reserved /\ words'[w].arrival = words[w].arrival
      BY <1>1, <2>1, <2>3 DEF SharedWord
    <3> QED BY <1>4, <2>1, <2>3, <3>1
  <2>4. CASE /\ \A f \in Occupies(w, p[1]) : active[f] < MaxWordsPerFloor
             /\ active' = [f \in Floors |-> active[f] + IF f \in Occupies(w, p[1]) THEN 1 ELSE 0]
             /\ words'[w] = [words[w] EXCEPT !.admitted = TRUE, !.arrival = p[1], !.reserved = TRUE]
    <3>1. words'[w].reserved /\ words'[w].arrival = p[1]
      BY <1>1, <2>1, <2>4 DEF SharedWord
    <3> HIDE DEF w
    <3> SUFFICES ASSUME NEW f \in Floors
                 PROVE  active'[f] = Cardinality(Places(f)') /\ active'[f] <= MaxWordsPerFloor
      BY DEF CapacityRespected, Places
    <3>2. CASE f \in Occupies(w, p[1])
      <4>1. Places(f)' = Places(f) \cup {w} /\ w \notin Places(f)
        BY <2>1, <2>2, <3>1, <3>2 DEF Places, Occupies
      <4>2. Cardinality(Places(f)') = Cardinality(Places(f)) + 1
        BY <1>2, <4>1, FS_AddElement
      <4>3. active'[f] = active[f] + 1 /\ active[f] < MaxWordsPerFloor
        BY <2>4, <3>2
      <4>4. MaxWordsPerFloor \in Nat
        BY TransportAssumption
      <4> QED BY <1>2, <1>3, <4>2, <4>3, <4>4
    <3>3. CASE f \notin Occupies(w, p[1])
      <4>1. Places(f)' = Places(f)
        BY <2>1, <2>2, <3>1, <3>3 DEF Places, Occupies
      <4>2. active'[f] = active[f]
        BY <1>2, <2>4, <3>3
      <4> QED BY <1>3, <4>1, <4>2
    <3> QED BY <3>2, <3>3
  <2> QED BY <1>6, <2>3, <2>4, AdmitWordEffect
<1>7. ASSUME NEW s \in Sorters, SortWord(s)
      PROVE  CapacityRespected'
  <2>1. PICK w \in Words :
               /\ \A v \in Words \ {w} : words'[v] = words[v]
               /\ words'[w] = [words[w] EXCEPT !.meta = words'[w].meta, !.fixed = words'[w].fixed,
                                               !.completed = words'[w].completed]
    BY <1>7, SortWordEffect
  <2>2. words'[w].reserved = words[w].reserved /\ words'[w].arrival = words[w].arrival
    BY <1>1, <2>1 DEF SharedWord
  <2>3. active' = active
    BY <1>7 DEF SortWord, floorVars
  <2> QED BY <1>4, <2>1, <2>2, <2>3
<1>8. ASSUME NEW s \in Sorters, ReleaseFloors(s)
      PROVE  CapacityRespected'
  <2> DEFINE w == sorter[s].word
  <2>1. /\ w \in Words /\ Busy(s)
        /\ active' = [f \in Floors |-> active[f] - IF f \in Occupies(w, words[w].arrival) THEN 1 ELSE 0]
        /\ words'[w] = [words[w] EXCEPT !.reserved = FALSE]
        /\ \A v \in Words \ {w} : words'[v] = words[v]
    BY <1>8, ReleaseEffect DEF Busy
  <2>2. words[w].reserved /\ ~words'[w].reserved
    BY <1>1, <2>1 DEF Completion, SharedWord
  <2> HIDE DEF w
  <2> SUFFICES ASSUME NEW f \in Floors
               PROVE  active'[f] = Cardinality(Places(f)') /\ active'[f] <= MaxWordsPerFloor
    BY DEF CapacityRespected, Places
  <2>3. MaxWordsPerFloor \in Nat
    BY TransportAssumption
  <2>4. CASE f \in Occupies(w, words[w].arrival)
    <3>1. Places(f)' = Places(f) \ {w} /\ w \in Places(f)
      BY <2>1, <2>2, <2>4 DEF Places, Occupies
    <3>2. Cardinality(Places(f)') = Cardinality(Places(f)) - 1
      BY <1>2, <3>1, FS_RemoveElement
    <3>3. active'[f] = active[f] - 1
      BY <2>1, <2>4
    <3> QED BY <1>2, <1>3, <2>3, <3>2, <3>3
  <2>5. CASE f \notin Occupies(w, words[w].arrival)
    <3>1. Places(f)' = Places(f)
      BY <2>1, <2>2, <2>5 DEF Places, Occupies
    <3>2. active'[f] = active[f]
      BY <1>2, <2>1, <2>5
    <3> QED BY <1>3, <3>1, <3>2
  <2> QED BY <2>4, <2>5
<1>9. CASE SpawnFloor \/ \E s \in Sorters : ReadCompleted(s) \/ WriteCompleted(s)
  <2>1. active' = active /\ words' = words
    BY <1>9 DEF SpawnFloor, ReadCompleted, WriteCompleted, floorVars
  <2> QED BY <1>4, <2>1
<1>10. CASE Quiet
  BY <1>4, <1>10, QuietEffect DEF Progress
<1> QED BY <1>5, <1>6, <1>7, <1>8, <1>9, <1>10, StepKinds

-----------------------------------------------------------------------------
(* The count of completed words                                            *)

\* The counter stays behind the words, whatever increments are lost.
LEMMA CountingStep ==
    ASSUME TransportTypes, Admission, Completion, Areas, Counting, [Next]_vars
    PROVE  Counting'
<1>1. \A w \in Words : words[w] \in SharedWord(w)
  BY DEF TransportTypes, WordTypes
<1>2. /\ IsFiniteSet(Written) /\ Cardinality(Written) \in Nat
      /\ IsFiniteSet(Written') /\ Cardinality(Written') \in Nat
      /\ Written \subseteq Words
  <2>1. Written \in SUBSET Words /\ Written' \in SUBSET Words
    BY DEF Written
  <2>2. IsFiniteSet(Written) /\ IsFiniteSet(Written')
    BY <2>1, ConstantTypes, FS_Subset
  <2> QED BY <2>1, <2>2, FS_CardinalityType
<1>3. Written \subseteq Written' => Cardinality(Written) <= Cardinality(Written')
  BY <1>2, FS_Subset
<1>4. completed \in Nat /\ \A s \in Sorters : sorter[s].read \in Nat
  BY DEF TransportTypes, CounterTypes, SorterState
<1>5. ASSUME Written \subseteq Written', completed' = completed, output' = output,
             \A s \in Sorters : sorter'[s].at = "add" => sorter[s].at = "add" /\ sorter'[s].read = sorter[s].read,
             \A w \in Words : words[w].completed => words'[w].completed
      PROVE  Counting'
  <2>1. completed' <= Cardinality(Written')
    BY <1>2, <1>3, <1>4, <1>5 DEF Counting
  <2>2. \A s \in Sorters : sorter'[s].at = "add" => sorter'[s].read <= Cardinality(Written')
    BY <1>2, <1>3, <1>4, <1>5 DEF Counting
  <2> QED BY <1>5, <2>1, <2>2 DEF Counting
<1>6. ASSUME NEW p \in WProcs, ClaimWord(p) \/ AdmitWord(p)
      PROVE  Counting'
  <2>1. PICK w \in Words : /\ \A v \in Words \ {w} : words'[v] = words[v]
                           /\ \/ words'[w] = [words[w] EXCEPT !.claimed = TRUE]
                              \/ words'[w] = [words[w] EXCEPT !.admitted = TRUE, !.arrival = p[1],
                                                              !.reserved = TRUE]
                              \/ words'[w] = [words[w] EXCEPT !.claimed = FALSE]
    BY <1>6, ClaimWordEffect, AdmitWordEffect
  <2>2. words'[w].completed = words[w].completed
    BY <1>1, <2>1 DEF SharedWord
  <2>3. UNCHANGED <<sorter, completed, output>>
    BY <1>6 DEF ClaimWord, AdmitWord, endVars
  <2>4. Written' = Written
    BY <2>1, <2>2, <2>3 DEF Written
  <2> QED BY <1>5, <2>1, <2>2, <2>3, <2>4
<1>7. ASSUME NEW s \in Sorters, SortWord(s)
      PROVE  Counting'
  <2>1. PICK w \in Words :
               /\ ~words[w].completed
               /\ \A v \in Words \ {w} : words'[v] = words[v]
               /\ IF words'[w].completed
                  THEN sorter' = [sorter EXCEPT ![s].at = "count", ![s].word = w]
                  ELSE sorter' = sorter
    BY <1>7, SortWordEffect
  <2>2. UNCHANGED <<completed, output>>
    BY <1>7 DEF SortWord, endVars
  <2>3. /\ \A t \in Sorters \ {s} : sorter'[t] = sorter[t]
        /\ sorter'[s] = sorter[s] \/ (sorter'[s].at = "count" /\ sorter'[s].word = w)
    BY <2>1 DEF TransportTypes, SorterState
  <2>4. Written \subseteq Written'
    <3> SUFFICES ASSUME NEW v \in Written PROVE v \in Written'
      OBVIOUS
    <3>1. v \in Words /\ v # w /\ words'[v].completed
      BY <2>1 DEF Written
    <3>2. \A t \in Sorters : sorter'[t].at \in {"count", "add"} => sorter'[t].word # v
      BY <2>3, <3>1 DEF Written
    <3> QED BY <3>1, <3>2 DEF Written
  <2>5. \A t \in Sorters : sorter'[t].at = "add" => sorter[t].at = "add" /\ sorter'[t].read = sorter[t].read
    BY <2>3
  <2>6. \A v \in Words : words[v].completed => words'[v].completed
    BY <2>1
  <2> QED BY <1>5, <2>2, <2>4, <2>5, <2>6
<1>8. ASSUME NEW s \in Sorters, ReadCompleted(s)
      PROVE  Counting'
  <2>1. /\ sorter[s].at = "count" /\ sorter'[s].at = "add"
        /\ sorter'[s].word = sorter[s].word /\ sorter'[s].read = completed
        /\ \A t \in Sorters \ {s} : sorter'[t] = sorter[t]
    BY <1>8, ReadEffect
  <2>2. UNCHANGED <<words, completed, output>>
    BY <1>8 DEF ReadCompleted, endVars
  <2>3. Written' = Written
    BY <2>1, <2>2 DEF Written
  <2> QED BY <2>1, <2>2, <2>3 DEF Counting
<1>9. ASSUME NEW s \in Sorters, WriteCompleted(s)
      PROVE  Counting'
  <2> DEFINE w == sorter[s].word
  <2>1. /\ sorter[s].at = "add" /\ completed' = sorter[s].read + 1
        /\ sorter'[s].at = "release" /\ sorter'[s].word = w
        /\ \A t \in Sorters \ {s} : sorter'[t] = sorter[t]
    BY <1>9, WriteEffect
  <2>2. UNCHANGED <<words, output>>
    BY <1>9 DEF WriteCompleted, endVars
  <2>3. w \in Words /\ words[w].completed
        /\ \A t \in Sorters \ {s} : sorter[t].at \in {"count", "add"} => sorter[t].word # w
    BY <2>1 DEF Completion, Busy
  <2> HIDE DEF w
  <2>4. Written' = Written \cup {w}
    <3>1. ASSUME NEW v \in Words, v # w
          PROVE  v \in Written' <=> v \in Written
      BY <2>1, <2>2, <3>1 DEF Written, w
    <3>2. w \in Written'
      BY <2>1, <2>2, <2>3 DEF Written
    <3>3. Written \subseteq Words /\ Written' \subseteq Words
      BY DEF Written
    <3> QED BY <3>1, <3>2, <3>3
  <2>5. w \notin Written
    BY <2>1 DEF Written, w
  <2>6. Cardinality(Written') = Cardinality(Written) + 1
    BY <1>2, <2>4, <2>5, FS_AddElement
  <2>7. completed' <= Cardinality(Written')
    BY <1>2, <1>4, <2>1, <2>6 DEF Counting
  <2>8. \A t \in Sorters : sorter'[t].at = "add" => sorter'[t].read <= Cardinality(Written')
    BY <1>2, <1>4, <2>1, <2>6 DEF Counting
  <2> QED BY <2>2, <2>7, <2>8 DEF Counting
<1>10. ASSUME NEW s \in Sorters, ReleaseFloors(s)
       PROVE  Counting'
  <2>1. /\ sorter[s].at = "release" /\ sorter[s].word \in Words
        /\ words'[sorter[s].word] = [words[sorter[s].word] EXCEPT !.reserved = FALSE]
        /\ \A v \in Words \ {sorter[s].word} : words'[v] = words[v]
        /\ sorter'[s].at = "scan"
        /\ \A t \in Sorters \ {s} : sorter'[t] = sorter[t]
    BY <1>10, ReleaseEffect
  <2>2. \A v \in Words : words'[v].completed = words[v].completed
    BY <1>1, <2>1 DEF SharedWord
  <2>3. UNCHANGED <<completed, output>>
    BY <1>10 DEF ReleaseFloors, endVars
  <2>4. Written' = Written
    BY <2>1, <2>2 DEF Written
  <2>5. \A t \in Sorters : sorter'[t].at = "add" => sorter[t].at = "add" /\ sorter'[t].read = sorter[t].read
    BY <2>1
  <2> QED BY <1>5, <2>2, <2>3, <2>4, <2>5
<1>11. CASE SpawnFloor
  <2>1. \A s \in Sorters : sorter'[s].word = sorter[s].word
                           /\ (sorter'[s].at = sorter[s].at \/ sorter'[s].at = "scan")
    BY <1>11, SpawnFloorEffect
  <2>2. \A s \in Sorters : sorter'[s].read = sorter[s].read
    BY <1>11 DEF SpawnFloor, TransportTypes, SorterState
  <2>3. UNCHANGED <<words, completed, output>>
    BY <1>11 DEF SpawnFloor
  <2>4. Written \subseteq Written'
    BY <2>1, <2>3 DEF Written
  <2> QED BY <1>5, <2>1, <2>2, <2>3, <2>4
<1>12. CASE Quiet
  <2>1. UNCHANGED <<sorter, completed>> /\ \A w \in Words : words'[w].completed = words[w].completed
    BY <1>12, QuietEffect DEF Progress
  <2>2. Written' = Written
    BY <2>1 DEF Written
  <2>3. CASE output' = output
    BY <1>5, <2>1, <2>2, <2>3
  <2>4. CASE ReportRun
    <3>1. completed = NumWords => \A w \in Words : words[w].completed
      <4> SUFFICES ASSUME completed = NumWords PROVE Written = Words
        BY DEF Written
      <4>1. Cardinality(Written) <= Cardinality(Words)
        BY <1>2, ConstantTypes, FS_Subset
      <4>2. Cardinality(Written) = Cardinality(Words)
        BY <1>2, <4>1, ConstantTypes DEF Counting
      <4> QED BY <1>2, <4>2, ConstantTypes, FS_Subset
    <3>2. output' => completed = NumWords
      BY <2>4 DEF ReportRun
    <3> QED BY <2>1, <2>2, <3>1, <3>2 DEF Counting
  <2>5. output' = output \/ ReportRun
    BY <1>12 DEF Quiet, LetterCarrierStep, ClaimLetter, PlaceHere, RequestDelivery, RequestReposition,
       ElevatorStep, Collect, Deliver, LeaveFloor, ArriveAtFloor, SignalCarrier, StartElevators,
       SpawnCarrier, EndLoop, ParentOnly, LookAtFloor, TooManyCarriers, ParentExits, Interrupt, ReapInterrupted, vars, endVars
  <2> QED BY <2>3, <2>4, <2>5
<1> QED BY <1>6, <1>7, <1>8, <1>9, <1>10, <1>11, <1>12, StepKinds

-----------------------------------------------------------------------------
(* Letters                                                                 *)

\* The elements of a sequence: its head and those of its tail.
LEMMA RangeHeadTail ==
    ASSUME NEW S, NEW b \in Seq(S), b # <<>>
    PROVE  /\ Range(b) = {Head(b)} \cup Range(Tail(b))
           /\ Tail(b) \in Seq(S) /\ DOMAIN b = 1..Len(b) /\ Len(b) \in Nat \ {0}
           /\ DOMAIN Tail(b) = 1..(Len(b) - 1) /\ \A k \in 1..(Len(b) - 1) : Tail(b)[k] = b[k + 1]
           /\ Head(b) = b[1]
<1>1. Len(b) \in Nat \ {0} /\ DOMAIN b = 1..Len(b)
  BY EmptySeq, LenProperties
<1>2. /\ Tail(b) \in Seq(S) /\ Len(Tail(b)) = Len(b) - 1 /\ Head(b) = b[1]
      /\ \A k \in 1..(Len(b) - 1) : Tail(b)[k] = b[k + 1]
  BY <1>1
<1>3. DOMAIN Tail(b) = 1..(Len(b) - 1)
  BY <1>2, LenProperties
<1>4. Range(b) = {Head(b)} \cup Range(Tail(b))
  <2>1. \A k \in 1..Len(b) : k = 1 \/ (k - 1 \in 1..(Len(b) - 1) /\ b[k] = Tail(b)[k - 1])
    BY <1>1, <1>2
  <2>2. \A k \in 1..(Len(b) - 1) : k + 1 \in 1..Len(b) /\ Tail(b)[k] = b[k + 1]
    BY <1>1, <1>2
  <2>3. 1 \in 1..Len(b)
    BY <1>1
  <2> DEFINE t == Tail(b)
             n == Len(b)
  <2>4. Range(b) = {b[k] : k \in 1..n} /\ Range(t) = {t[k] : k \in 1..(n - 1)}
    BY <1>1, <1>3 DEF Range
  <2>5. /\ \A k \in 1..n : k = 1 \/ (k - 1 \in 1..(n - 1) /\ b[k] = t[k - 1])
        /\ \A k \in 1..(n - 1) : k + 1 \in 1..n /\ t[k] = b[k + 1]
    BY <2>1, <2>2
  <2> HIDE DEF t, n
  <2>6. {b[k] : k \in 1..n} = {b[1]} \cup {t[k] : k \in 1..(n - 1)}
    BY <2>3, <2>5 DEF n
  <2> QED BY <1>2, <2>4, <2>6 DEF t
<1> QED BY <1>1, <1>2, <1>3, <1>4

\* A sequence of one element has nothing behind its head.
LEMMA NothingBehind ==
    ASSUME NEW S, NEW b \in Seq(S), b # <<>>, Len(b) = 1
    PROVE  Tail(b) = <<>> /\ Range(Tail(b)) = {}
<1>1. Tail(b) \in Seq(S) /\ Len(Tail(b)) = 0
  BY HeadTailProperties
<1>2. Tail(b) = <<>>
  BY <1>1, EmptySeq
<1>3. DOMAIN Tail(b) = 1..Len(Tail(b))
  BY <1>1, LenProperties
<1>4. \A m : m = 0 => 1..m = {}
  OBVIOUS
<1>5. DOMAIN Tail(b) = {}
  BY <1>1, <1>3, <1>4
<1> QED BY <1>2, <1>5 DEF Range

\* Only RequestDelivery and Deliver change what the delivery elevator carries.
LEMMA LoadKept ==
    ASSUME TransportTypes, NEW e \in Elevators,
           Collect(e) \/ LeaveFloor(e) \/ ArriveAtFloor(e) \/ SignalCarrier(e)
    PROVE  Load' = Load
<1> DEFINE d == elev["delivery"]
<1>1. d.batch \in Seq(Request("delivery"))
  BY DEF TransportTypes, ElevatorTypes, ElevatorState, Elevators
<1>2. CASE e # "delivery"
  <2>1. elev'["delivery"] = elev["delivery"]
    BY <1>2, CollectEffect, LeaveEffect, ArriveEffect, SignalEffect DEF Elevators
  <2> QED BY <2>1 DEF Load, Riding
<1>3. CASE e = "delivery"
  <2>1. CASE Collect(e)
    <3>1. /\ d.batch = <<>> /\ d.at = "idle" /\ elev'["delivery"].at = "deliver"
          /\ elev'["delivery"].batch \in Seq(d.requests)
          /\ elev'["delivery"].requests = d.requests \ Range(elev'["delivery"].batch)
      BY <1>3, <2>1, CollectEffect DEF Collect, FirstStage
    <3>2. Range(elev'["delivery"].batch) \subseteq d.requests
      BY <3>1 DEF Range
    <3>3. Riding = {} /\ Riding' = Range(elev'["delivery"].batch)
      BY <3>1 DEF Riding
    <3> QED BY <3>1, <3>2, <3>3 DEF Load
  <2>2. CASE LeaveFloor(e) \/ ArriveAtFloor(e)
    <3>1. /\ d.at \in {"leave", "arrive"} /\ elev'["delivery"].at \in {"arrive", "signal"}
          /\ elev'["delivery"].batch = d.batch /\ elev'["delivery"].requests = d.requests
      BY <1>3, <2>2, LeaveEffect, ArriveEffect DEF LeaveFloor, ArriveAtFloor
    <3>2. Riding' = Riding
      BY <3>1 DEF Riding
    <3> QED BY <3>1, <3>2 DEF Load
  <2>3. CASE SignalCarrier(e)
    <3>1. /\ d.at = "signal" /\ d.batch # <<>>
          /\ elev'["delivery"].at = (IF Len(d.batch) > 1 THEN "deliver" ELSE LoopHead)
          /\ elev'["delivery"].batch = Tail(d.batch) /\ elev'["delivery"].requests = d.requests
      BY <1>3, <2>3, SignalEffect, RiderType DEF SignalCarrier, FirstStage
    <3>2. Riding = Range(Tail(d.batch))
      BY <3>1 DEF Riding
    <3>3. Riding' = Range(Tail(d.batch))
      <4>1. CASE Len(d.batch) > 1
        BY <3>1, <4>1 DEF Riding
      <4>2. CASE ~(Len(d.batch) > 1)
        <5>0. Len(d.batch) \in Nat \ {0}
          BY <1>1, <3>1, EmptySeq
        <5>1. Len(d.batch) = 1
          <6> DEFINE n == Len(d.batch)
          <6>1. n \in Nat \ {0} /\ ~(n > 1)
            BY <4>2, <5>0
          <6> HIDE DEF n
          <6>2. n = 1
            BY <6>1
          <6> QED BY <6>2 DEF n
        <5>2. Tail(d.batch) = <<>> /\ Range(Tail(d.batch)) = {}
          BY <1>1, <3>1, <5>1, NothingBehind
        <5> QED BY <3>1, <4>2, <5>2 DEF Riding, LoopHead
      <4> QED BY <4>1, <4>2
    <3> QED BY <3>1, <3>2, <3>3 DEF Load
  <2> QED BY <2>1, <2>2, <2>3
<1> QED BY <1>2, <1>3

\* Deliver takes the rider's request off the load.
LEMMA LoadDelivered ==
    ASSUME TransportTypes, OneRide, NEW e \in Elevators, Deliver(e)
    PROVE  /\ Rider(e) \in Load /\ Load' = Load \ {Rider(e)}
           /\ Rider(e).word \in Words /\ Rider(e).letter \in Letters(Rider(e).word)
<1> DEFINE d == elev[e]
<1>1. /\ e = "delivery" /\ d.at = "deliver"
      /\ elev'[e].at = "leave" /\ elev'[e].batch = d.batch /\ elev'[e].requests = d.requests
  BY DeliverEffect DEF Deliver
<1>2. /\ d.batch \in Seq(Request(e)) /\ d.batch # <<>> /\ 1 \in DOMAIN d.batch
      /\ Rider(e) = d.batch[1] /\ Rider(e).carrier \in Carriers
      /\ Rider(e).word \in Words /\ Rider(e).letter \in Letters(Rider(e).word)
  BY <1>1, RiderType
<1>3. /\ Range(d.batch) = {Rider(e)} \cup Range(Tail(d.batch))
      /\ DOMAIN d.batch = 1..Len(d.batch) /\ Len(d.batch) \in Nat \ {0}
      /\ DOMAIN Tail(d.batch) = 1..(Len(d.batch) - 1)
      /\ \A k \in 1..(Len(d.batch) - 1) : Tail(d.batch)[k] = d.batch[k + 1]
  BY <1>2, RangeHeadTail DEF Rider
<1>4. Riding = Range(d.batch) /\ Riding' = Range(Tail(d.batch))
  BY <1>1, <1>2 DEF Riding
<1>5. Rider(e) \notin Range(Tail(d.batch))
  <2> SUFFICES ASSUME NEW k \in 1..(Len(d.batch) - 1), d.batch[k + 1] = Rider(e) PROVE FALSE
    BY <1>3 DEF Range
  <2>1. k + 1 \in DOMAIN d.batch /\ k + 1 # 1
    BY <1>3
  <2> QED BY <1>2, <2>1 DEF OneRide
<1>6. Rider(e) \notin d.requests
  BY <1>2 DEF OneRide, Queued, Rides1
<1> QED BY <1>1, <1>2, <1>3, <1>4, <1>5, <1>6 DEF Load

\* What of a word the letters and the sorters change.
Contents(w) == <<words[w].letter, words[w].meta, words[w].fixed, words[w].completed>>

\* Steps that leave the letters of all words alone.
Silent ==
    \/ \E p \in WProcs : ClaimWord(p) \/ AdmitWord(p)
    \/ \E s \in Sorters : ReadCompleted(s) \/ WriteCompleted(s) \/ ReleaseFloors(s)
    \/ SpawnFloor \/ StartElevators \/ SpawnCarrier \/ EndLoop \/ ParentOnly
    \/ \E c \in Carriers : RequestDelivery(c) \/ \E f \in Floors : RequestReposition(c, f)
    \/ \E e \in Elevators : Collect(e) \/ LeaveFloor(e) \/ ArriveAtFloor(e) \/ SignalCarrier(e)
    \/ UNCHANGED vars

\* They do.
LEMMA SilentEffect ==
    ASSUME TransportTypes, Completion, Silent
    PROVE  \A w \in Words : Contents(w)' = Contents(w)
<1>1. \A w \in Words : words[w] \in SharedWord(w)
  BY DEF TransportTypes, WordTypes
<1>2. ASSUME NEW p \in WProcs, ClaimWord(p) \/ AdmitWord(p)
      PROVE  \A w \in Words : Contents(w)' = Contents(w)
  <2>1. PICK w \in Words : /\ \A v \in Words \ {w} : words'[v] = words[v]
                           /\ \/ words'[w] = [words[w] EXCEPT !.claimed = TRUE]
                              \/ words'[w] = [words[w] EXCEPT !.admitted = TRUE, !.arrival = p[1],
                                                              !.reserved = TRUE]
                              \/ words'[w] = [words[w] EXCEPT !.claimed = FALSE]
    BY <1>2, ClaimWordEffect, AdmitWordEffect
  <2>2. /\ words'[w].letter = words[w].letter /\ words'[w].meta = words[w].meta
        /\ words'[w].fixed = words[w].fixed /\ words'[w].completed = words[w].completed
    BY <1>1, <2>1 DEF SharedWord
  <2> QED BY <2>1, <2>2 DEF Contents
<1>3. ASSUME NEW s \in Sorters, ReleaseFloors(s)
      PROVE  \A w \in Words : Contents(w)' = Contents(w)
  <2>1. PICK w \in Words : /\ words'[w] = [words[w] EXCEPT !.reserved = FALSE]
                           /\ \A v \in Words \ {w} : words'[v] = words[v]
    BY <1>3, ReleaseEffect
  <2> QED BY <1>1, <2>1 DEF Contents, SharedWord
<1>4. CASE words' = words
  BY <1>4 DEF Contents
<1>5. \/ \E p \in WProcs : ClaimWord(p) \/ AdmitWord(p)
      \/ \E s \in Sorters : ReleaseFloors(s)
      \/ words' = words
  BY DEF Silent, ReadCompleted, WriteCompleted, SpawnFloor, StartElevators, SpawnCarrier, EndLoop,
     ParentOnly, LookAtFloor, TooManyCarriers, ReportRun, ParentExits, Interrupt, ReapInterrupted, RequestDelivery,
     RequestReposition, Collect, LeaveFloor, ArriveAtFloor, SignalCarrier, vars
<1> QED BY <1>2, <1>3, <1>4, <1>5

\* The other steps are these four.
LEMMA LetterSteps ==
    ASSUME [Next]_vars
    PROVE  \/ Silent
           \/ \E c \in Carriers : ClaimLetter(c) \/ PlaceHere(c)
           \/ \E e \in Elevators : Deliver(e)
           \/ \E s \in Sorters : SortWord(s)
BY DEF Next, WordCarrierStep, SorterStep, ParentStep, ParentOnly, LetterCarrierStep, ElevatorStep, Silent

\* A delivery of a letter in transit keeps the sorting areas in order.
LEMMA AreasDelivered ==
    ASSUME TransportTypes, Areas, NEW w \in Words, NEW i \in Letters(w),
           words[w].letter[i] = "transit", words' = Delivered(w, i)
    PROVE  Areas'
<1>1. /\ \A v \in Words \ {w} : words'[v] = words[v]
      /\ words'[w].fixed = words[w].fixed /\ words'[w].completed = words[w].completed
      /\ \A j \in Letters(w) \ {i} : words'[w].letter[j] = words[w].letter[j]
      /\ \/ words'[w].letter[i] = "home" /\ words'[w].meta = words[w].meta
         \/ /\ words'[w].letter[i] = "placed"
            /\ \E k \in Letters(w) : /\ k \notin words[w].fixed /\ words[w].meta[k] = 0
                                     /\ words'[w].meta = [words[w].meta EXCEPT ![k] = i]
  BY DeliveredEffect DEF TransportTypes, Progress
<1>2. /\ words[w].meta \in [Letters(w) -> 0..Length[w]] /\ words[w].fixed \subseteq Letters(w)
      /\ i # 0
  BY DEF TransportTypes, WordTypes, SharedWord, Letters
<1>3. \A k \in Letters(w) : words[w].meta[k] # i
  BY DEF Areas
<1>4. CASE words'[w].letter[i] = "home" /\ words'[w].meta = words[w].meta
  BY <1>1, <1>3, <1>4 DEF Areas
<1>5. ASSUME NEW k \in Letters(w), k \notin words[w].fixed, words[w].meta[k] = 0,
             words'[w].letter[i] = "placed", words'[w].meta = [words[w].meta EXCEPT ![k] = i]
      PROVE  Areas'
  <2>1. words'[w].meta[k] = i /\ \A j \in Letters(w) \ {k} : words'[w].meta[j] = words[w].meta[j]
    BY <1>2, <1>5
  <2>2. \A j \in words'[w].fixed : words'[w].meta[j] = j
    BY <1>1, <1>2, <1>5, <2>1 DEF Areas
  <2>3. \A j, l \in Letters(w) : words'[w].meta[j] = words'[w].meta[l] /\ words'[w].meta[j] # 0 => j = l
    BY <1>3, <2>1 DEF Areas
  <2>4. \A j \in Letters(w) :
          words'[w].letter[j] = "placed" <=> \E l \in Letters(w) : words'[w].meta[l] = j
    <3> SUFFICES ASSUME NEW j \in Letters(w)
                 PROVE  words'[w].letter[j] = "placed" <=> \E l \in Letters(w) : words'[w].meta[l] = j
      OBVIOUS
    <3>1. CASE j = i
      BY <1>5, <2>1, <3>1
    <3>2. CASE j # i
      <4>1. words'[w].letter[j] = words[w].letter[j]
        BY <1>1, <3>2
      <4>2. \A l \in Letters(w) : words'[w].meta[l] = j <=> words[w].meta[l] = j
        <5>1. j # 0
          BY DEF Letters
        <5> QED BY <1>5, <2>1, <3>2, <5>1
      <4> QED BY <4>1, <4>2 DEF Areas
    <3> QED BY <3>1, <3>2
  <2>5. words'[w].completed => words'[w].fixed = Letters(w)
    BY <1>1 DEF Areas
  <2>6. ASSUME NEW v \in Words, v # w
        PROVE  words'[v] = words[v]
    BY <1>1, <2>6
  <2> QED BY <2>2, <2>3, <2>4, <2>5, <2>6 DEF Areas
<1> QED BY <1>1, <1>4, <1>5

\* Every step keeps the sorting areas in order.
LEMMA AreasStep ==
    ASSUME TransportTypes, Completion, Areas, Transit, OneRide, [Next]_vars
    PROVE  Areas'
<1>1. \A w \in Words : words[w] \in SharedWord(w)
  BY DEF TransportTypes, WordTypes
<1>2. CASE Silent
  BY <1>2, SilentEffect DEF Areas, Contents
<1>3. ASSUME NEW c \in Carriers, ClaimLetter(c)
      PROVE  Areas'
  <2>1. PICK w \in Words : \E i \in Letters(w) :
               /\ words[w].letter[i] = "home"
               /\ words'[w] = [words[w] EXCEPT !.letter[i] = "transit"]
               /\ \A v \in Words \ {w} : words'[v] = words[v]
    BY <1>3, ClaimLetterEffect
  <2>2. PICK i \in Letters(w) :
               /\ words[w].letter[i] = "home"
               /\ words'[w] = [words[w] EXCEPT !.letter[i] = "transit"]
    BY <2>1
  <2>3. /\ words'[w].meta = words[w].meta /\ words'[w].fixed = words[w].fixed
        /\ words'[w].completed = words[w].completed
        /\ \A j \in Letters(w) : words'[w].letter[j] = "placed" <=> words[w].letter[j] = "placed"
    BY <1>1, <2>2 DEF SharedWord
  <2>4. \A v \in Words : v = w \/ words'[v] = words[v]
    BY <2>1
  <2> SUFFICES ASSUME NEW v \in Words
               PROVE  /\ \A k \in words'[v].fixed : words'[v].meta[k] = k
                      /\ \A j, k \in Letters(v) :
                            words'[v].meta[j] = words'[v].meta[k] /\ words'[v].meta[j] # 0 => j = k
                      /\ \A j \in Letters(v) :
                            words'[v].letter[j] = "placed" <=> \E k \in Letters(v) : words'[v].meta[k] = j
                      /\ words'[v].completed => words'[v].fixed = Letters(v)
    BY DEF Areas
  <2>5. CASE v = w
    BY <2>3, <2>5 DEF Areas
  <2>6. CASE words'[v] = words[v]
    BY <2>6 DEF Areas
  <2> QED BY <2>4, <2>5, <2>6
<1>4. ASSUME NEW c \in Carriers, PlaceHere(c)
      PROVE  Areas'
  <2>1. /\ carrier[c].word \in Words /\ carrier[c].letter \in Letters(carrier[c].word)
        /\ words[carrier[c].word].letter[carrier[c].letter] = "transit"
        /\ words' = Delivered(carrier[c].word, carrier[c].letter)
    BY <1>4 DEF PlaceHere, TransportTypes, CarrierTypes, Transit
  <2> QED BY <2>1, AreasDelivered
<1>5. ASSUME NEW e \in Elevators, Deliver(e)
      PROVE  Areas'
  <2>1. Rider(e) \in Load /\ Rider(e).word \in Words /\ Rider(e).letter \in Letters(Rider(e).word)
    BY <1>5, LoadDelivered
  <2>2. /\ words[Rider(e).word].letter[Rider(e).letter] = "transit"
        /\ words' = Delivered(Rider(e).word, Rider(e).letter)
    BY <1>5, <2>1 DEF Transit, Deliver, Rider
  <2> QED BY <2>1, <2>2, AreasDelivered
<1>6. ASSUME NEW s \in Sorters, SortWord(s)
      PROVE  Areas'
  <2>1. PICK w \in Words :
               LET a == [meta |-> words[w].meta, fixed |-> words[w].fixed]
                   b == [meta |-> words'[w].meta, fixed |-> words'[w].fixed]
               IN  /\ \A v \in Words \ {w} : words'[v] = words[v]
                   /\ words'[w] = [words[w] EXCEPT !.meta = b.meta, !.fixed = b.fixed,
                                                   !.completed = words'[w].completed]
                   /\ words'[w].completed <=> words'[w].fixed = Letters(w)
                   /\ GoodArea(w, b) /\ SameLetters(w, a, b)
    BY <1>6, SortWordEffect
  <2>2. words'[w].letter = words[w].letter
    BY <1>1, <2>1 DEF SharedWord
  <2>3. /\ \A k \in words'[w].fixed : words'[w].meta[k] = k
        /\ \A j, k \in Letters(w) : words'[w].meta[j] = words'[w].meta[k] /\ words'[w].meta[j] # 0 => j = k
    BY <2>1 DEF GoodArea
  <2>4. \A i \in Letters(w) :
          (\E k \in Letters(w) : words[w].meta[k] = i) <=> (\E k \in Letters(w) : words'[w].meta[k] = i)
    BY <2>1 DEF SameLetters
  <2>5. \A i \in Letters(w) :
          words'[w].letter[i] = "placed" <=> \E k \in Letters(w) : words'[w].meta[k] = i
    BY <2>2, <2>4 DEF Areas
  <2> QED BY <2>1, <2>3, <2>5 DEF Areas
<1> QED BY <1>2, <1>3, <1>4, <1>5, <1>6, LetterSteps

\* What the delivery elevator carries are letters of words.
LEMMA LoadType ==
    ASSUME TransportTypes
    PROVE  \A r \in Load : r.word \in Words /\ r.letter \in Letters(r.word) /\ r \in Request("delivery")
<1>1. elev["delivery"] \in ElevatorState("delivery")
  BY DEF TransportTypes, ElevatorTypes, Elevators
<1>2. elev["delivery"].batch \in Seq(Request("delivery")) /\ elev["delivery"].requests \subseteq Request("delivery")
  BY <1>1 DEF ElevatorState
<1>3. Range(elev["delivery"].batch) \subseteq Request("delivery")
  BY <1>2 DEF Range
<1>4. elev["delivery"].batch # <<>> => Range(Tail(elev["delivery"].batch)) \subseteq Range(elev["delivery"].batch)
  BY <1>2, RangeHeadTail
<1>5. Load \subseteq Request("delivery")
  BY <1>2, <1>3, <1>4 DEF Load, Riding
<1> QED BY <1>5 DEF Request

\* Nothing about hands, loads and letters changes.
LEMMA TransitKept ==
    ASSUME TransportTypes, Transit, Load' = Load,
           \A w \in Words : words'[w].letter = words[w].letter,
           \A c \in Carriers : \/ carrier'[c] = carrier[c]
                               \/ carrier'[c].at # "hold" /\ carrier[c].at # "hold"
                               \/ /\ carrier'[c].at = carrier[c].at /\ carrier'[c].word = carrier[c].word
                                  /\ carrier'[c].letter = carrier[c].letter
    PROVE  Transit'
<1>1. \A c \in Carriers : \A w, i : Holds(c, w, i)' <=> Holds(c, w, i)
  BY DEF Holds
<1>2. \A c \in Carriers : carrier'[c].at = "hold" =>
        carrier[c].at = "hold" /\ carrier'[c].word = carrier[c].word /\ carrier'[c].letter = carrier[c].letter
  OBVIOUS
<1>3. \A c \in Carriers : carrier[c].at = "hold" => carrier[c].word \in Words
  BY DEF TransportTypes, CarrierTypes
<1>4. \A r \in Load : r.word \in Words
  BY LoadType
<1>5. \A c \in Carriers : carrier'[c].at = "hold" =>
        words'[carrier'[c].word].letter[carrier'[c].letter] = "transit"
  BY <1>2, <1>3 DEF Transit
<1>6. \A r \in Load' : words'[r.word].letter[r.letter] = "transit"
  BY <1>4 DEF Transit
<1>7. \A c, d \in Carriers : Holds(d, carrier[c].word, carrier[c].letter)' /\ carrier'[c].at = "hold" => c = d
  BY <1>1, <1>2 DEF Transit, Holds
<1>8. \A r, q \in Load' : IsFor(q, r.word, r.letter) => r = q
  BY DEF Transit
<1>9. \A c \in Carriers : \A r \in Load' : ~Holds(c, r.word, r.letter)'
  BY <1>1 DEF Transit
<1>10. \A w \in Words : \A i \in Letters(w) : words'[w].letter[i] = "transit" =>
         (\E c \in Carriers : Holds(c, w, i)') \/ (\E r \in Load' : IsFor(r, w, i))
  BY <1>1 DEF Transit
<1> QED BY <1>5, <1>6, <1>7, <1>8, <1>9, <1>10 DEF Transit, IsFor

\* Letter i of word w leaves transit with a delivery; the others stay.
LEMMA LettersDelivered ==
    ASSUME TransportTypes, NEW w \in Words, NEW i \in Letters(w), words' = Delivered(w, i)
    PROVE  /\ words'[w].letter[i] # "transit"
           /\ \A v \in Words : \A j \in Letters(v) :
                 v # w \/ j # i => words'[v].letter[j] = words[v].letter[j]
BY DeliveredEffect DEF TransportTypes

\* Every step keeps each letter in transit in one hand or request.
LEMMA TransitStep ==
    ASSUME TransportTypes, Completion, Areas, Transit, OneRide, Population, [Next]_vars
    PROVE  Transit'
<1>1. \A c \in Carriers : carrier[c].at = "hold" =>
        carrier[c].word \in Words /\ carrier[c].letter \in Letters(carrier[c].word)
  BY DEF TransportTypes, CarrierTypes
<1>2. \A r \in Load : r.word \in Words /\ r.letter \in Letters(r.word)
  BY LoadType
<1>3. ASSUME NEW c \in Carriers, ClaimLetter(c)
      PROVE  Transit'
  <2>1. PICK w \in Words : \E i \in Letters(w) :
               /\ words[w].letter[i] = "home" /\ ~words[w].completed
               /\ words'[w] = [words[w] EXCEPT !.letter[i] = "transit"]
               /\ \A v \in Words \ {w} : words'[v] = words[v]
               /\ carrier'[c].word = w /\ carrier'[c].letter = i
    BY <1>3, ClaimLetterEffect
  <2>2. PICK i \in Letters(w) :
               /\ words[w].letter[i] = "home"
               /\ words'[w] = [words[w] EXCEPT !.letter[i] = "transit"]
               /\ carrier'[c].word = w /\ carrier'[c].letter = i
    BY <2>1
  <2>3. /\ carrier[c].at = "scan" /\ carrier'[c].at = "hold"
        /\ \A d \in Carriers \ {c} : carrier'[d] = carrier[d]
    BY <1>3, ClaimLetterEffect
  <2>4. /\ words'[w].letter[i] = "transit"
        /\ \A v \in Words : \A j \in Letters(v) :
              v # w \/ j # i => words'[v].letter[j] = words[v].letter[j]
    BY <2>1, <2>2 DEF TransportTypes, WordTypes, SharedWord
  <2>5. Load' = Load
    BY <1>3 DEF ClaimLetter, Load, Riding
  <2>6. \A d \in Carriers : ~Holds(d, w, i)
    BY <2>2 DEF Holds, Transit
  <2>7. \A r \in Load : ~IsFor(r, w, i)
    BY <2>2 DEF IsFor, Transit
  <2>8. \A d \in Carriers \ {c} : \A v, j : Holds(d, v, j)' <=> Holds(d, v, j)
    BY <2>3 DEF Holds
  <2>9. \A v, j : Holds(c, v, j)' <=> v = w /\ j = i
    BY <2>2, <2>3 DEF Holds
  <2>10. \A v, j : ~Holds(c, v, j)
    BY <2>3 DEF Holds
  <2>11. \A d \in Carriers : carrier'[d].at = "hold" =>
           words'[carrier'[d].word].letter[carrier'[d].letter] = "transit"
    <3> SUFFICES ASSUME NEW d \in Carriers, carrier'[d].at = "hold"
                 PROVE  words'[carrier'[d].word].letter[carrier'[d].letter] = "transit"
      OBVIOUS
    <3>1. CASE d = c
      BY <2>2, <2>4, <3>1
    <3>2. CASE d # c
      <4>1. carrier'[d] = carrier[d] /\ carrier[d].at = "hold" /\ ~Holds(d, w, i)
        BY <2>3, <2>6, <3>2
      <4>2. carrier[d].word # w \/ carrier[d].letter # i
        BY <4>1 DEF Holds
      <4> QED BY <1>1, <2>4, <4>1, <4>2 DEF Transit
    <3> QED BY <3>1, <3>2
  <2>12. \A r \in Load' : words'[r.word].letter[r.letter] = "transit"
    BY <1>2, <2>4, <2>5, <2>7 DEF Transit, IsFor
  <2>13. \A d, x \in Carriers : Holds(x, carrier[d].word, carrier[d].letter)' /\ carrier'[d].at = "hold" => d = x
    <3> SUFFICES ASSUME NEW d \in Carriers, NEW x \in Carriers, carrier'[d].at = "hold",
                        Holds(x, carrier[d].word, carrier[d].letter)'
                 PROVE  d = x
      OBVIOUS
    <3>1. Holds(d, carrier[d].word, carrier[d].letter)'
      BY DEF Holds
    <3>2. CASE d = c
      BY <2>2, <2>6, <2>8, <3>2
    <3>3. CASE x = c /\ d # c
      BY <2>2, <2>6, <2>8, <2>9, <3>1, <3>3
    <3>4. CASE d # c /\ x # c
      <4>1. carrier'[d] = carrier[d] /\ Holds(x, carrier[d].word, carrier[d].letter)
        BY <2>3, <2>8, <3>4
      <4> QED BY <4>1 DEF Transit
    <3> QED BY <3>2, <3>3, <3>4
  <2>14. \A r, q \in Load' : IsFor(q, r.word, r.letter) => r = q
    BY <2>5 DEF Transit
  <2>15. \A d \in Carriers : \A r \in Load' : ~Holds(d, r.word, r.letter)'
    BY <2>5, <2>7, <2>8, <2>9 DEF Transit, IsFor
  <2>16. \A v \in Words : \A j \in Letters(v) : words'[v].letter[j] = "transit" =>
           (\E d \in Carriers : Holds(d, v, j)') \/ (\E r \in Load' : IsFor(r, v, j))
    <3> SUFFICES ASSUME NEW v \in Words, NEW j \in Letters(v), words'[v].letter[j] = "transit"
                 PROVE  (\E d \in Carriers : Holds(d, v, j)') \/ (\E r \in Load' : IsFor(r, v, j))
      OBVIOUS
    <3>1. CASE v = w /\ j = i
      BY <2>9, <3>1
    <3>2. CASE v # w \/ j # i
      <4>1. (\E d \in Carriers : Holds(d, v, j)) \/ (\E r \in Load : IsFor(r, v, j))
        BY <2>4, <3>2 DEF Transit
      <4> QED BY <2>5, <2>8, <2>10, <4>1
    <3> QED BY <3>1, <3>2
  <2> QED BY <2>11, <2>12, <2>13, <2>14, <2>15, <2>16 DEF Transit, IsFor
<1>4. ASSUME NEW c \in Carriers, PlaceHere(c)
      PROVE  Transit'
  <2> DEFINE w == carrier[c].word
             i == carrier[c].letter
  <2>1. w \in Words /\ i \in Letters(w) /\ carrier[c].at = "hold" /\ Holds(c, w, i)
    BY <1>1, <1>4 DEF PlaceHere, Holds
  <2>2. /\ carrier'[c].at = "scan"
        /\ \A d \in Carriers \ {c} : carrier'[d] = carrier[d]
    BY <1>4, PlaceHereEffect
  <2>3. /\ words'[w].letter[i] # "transit"
        /\ \A v \in Words : \A j \in Letters(v) :
              v # w \/ j # i => words'[v].letter[j] = words[v].letter[j]
    BY <1>4, <2>1, LettersDelivered DEF PlaceHere
  <2>4. Load' = Load
    BY <1>4 DEF PlaceHere, Load, Riding
  <2>5. \A d \in Carriers \ {c} : ~Holds(d, w, i)
    BY <2>1 DEF Transit
  <2>6. \A r \in Load : ~IsFor(r, w, i)
    BY <2>1 DEF Transit, IsFor
  <2> HIDE DEF w, i
  <2>7. \A d \in Carriers \ {c} : \A v, j : Holds(d, v, j)' <=> Holds(d, v, j)
    BY <2>2 DEF Holds
  <2>8. \A v, j : ~Holds(c, v, j)'
    BY <2>2 DEF Holds
  <2>9. \A d \in Carriers : carrier'[d].at = "hold" =>
          words'[carrier'[d].word].letter[carrier'[d].letter] = "transit"
    <3> SUFFICES ASSUME NEW d \in Carriers, carrier'[d].at = "hold"
                 PROVE  words'[carrier'[d].word].letter[carrier'[d].letter] = "transit"
      OBVIOUS
    <3>1. carrier'[d] = carrier[d] /\ carrier[d].at = "hold" /\ ~Holds(d, w, i)
      BY <2>2, <2>5
    <3>2. carrier[d].word # w \/ carrier[d].letter # i
      BY <3>1 DEF Holds
    <3> QED BY <1>1, <2>3, <3>1, <3>2 DEF Transit
  <2>10. \A r \in Load' : words'[r.word].letter[r.letter] = "transit"
    BY <1>2, <2>3, <2>4, <2>6 DEF Transit, IsFor
  <2>11. \A d, x \in Carriers : Holds(x, carrier[d].word, carrier[d].letter)' /\ carrier'[d].at = "hold" => d = x
    <3> SUFFICES ASSUME NEW d \in Carriers, NEW x \in Carriers, carrier'[d].at = "hold",
                        Holds(x, carrier[d].word, carrier[d].letter)'
                 PROVE  d = x
      OBVIOUS
    <3>1. d # c /\ x # c
      BY <2>2, <2>8
    <3>2. carrier'[d] = carrier[d] /\ Holds(x, carrier[d].word, carrier[d].letter)
      BY <2>2, <2>7, <3>1
    <3> QED BY <3>2 DEF Transit
  <2>12. \A r, q \in Load' : IsFor(q, r.word, r.letter) => r = q
    BY <2>4 DEF Transit
  <2>13. \A d \in Carriers : \A r \in Load' : ~Holds(d, r.word, r.letter)'
    BY <2>4, <2>7, <2>8 DEF Transit
  <2>14. \A v \in Words : \A j \in Letters(v) : words'[v].letter[j] = "transit" =>
           (\E d \in Carriers : Holds(d, v, j)') \/ (\E r \in Load' : IsFor(r, v, j))
    <3> SUFFICES ASSUME NEW v \in Words, NEW j \in Letters(v), words'[v].letter[j] = "transit"
                 PROVE  (\E d \in Carriers : Holds(d, v, j)') \/ (\E r \in Load' : IsFor(r, v, j))
      OBVIOUS
    <3>1. (v # w \/ j # i) /\ words[v].letter[j] = "transit"
      BY <2>3
    <3>2. (\E d \in Carriers : Holds(d, v, j)) \/ (\E r \in Load : IsFor(r, v, j))
      BY <3>1 DEF Transit
    <3>3. ~Holds(c, v, j)
      BY <3>1 DEF Holds, w, i
    <3> QED BY <2>4, <2>7, <3>2, <3>3
  <2> QED BY <2>9, <2>10, <2>11, <2>12, <2>13, <2>14 DEF Transit, IsFor
<1>5. ASSUME NEW e \in Elevators, Deliver(e)
      PROVE  Transit'
  <2> DEFINE m == Rider(e)
  <2>1. m \in Load /\ Load' = Load \ {m} /\ m.word \in Words /\ m.letter \in Letters(m.word)
    BY <1>5, LoadDelivered
  <2>2. /\ words'[m.word].letter[m.letter] # "transit"
        /\ \A v \in Words : \A j \in Letters(v) :
              v # m.word \/ j # m.letter => words'[v].letter[j] = words[v].letter[j]
    BY <1>5, <2>1, LettersDelivered DEF Deliver, Rider
  <2>3. carrier' = carrier
    BY <1>5 DEF Deliver
  <2>4. \A c \in Carriers : ~Holds(c, m.word, m.letter)
    BY <2>1 DEF Transit
  <2>5. \A r \in Load' : ~IsFor(r, m.word, m.letter)
    BY <2>1 DEF Transit
  <2> HIDE DEF m
  <2>6. \A c \in Carriers : carrier'[c].at = "hold" =>
          words'[carrier'[c].word].letter[carrier'[c].letter] = "transit"
    BY <1>1, <2>2, <2>3, <2>4 DEF Transit, Holds
  <2>7. \A r \in Load' : words'[r.word].letter[r.letter] = "transit"
    BY <1>2, <2>1, <2>2, <2>5 DEF Transit, IsFor
  <2>8. \A v \in Words : \A j \in Letters(v) : words'[v].letter[j] = "transit" =>
           (\E d \in Carriers : Holds(d, v, j)') \/ (\E r \in Load' : IsFor(r, v, j))
    <3> SUFFICES ASSUME NEW v \in Words, NEW j \in Letters(v), words'[v].letter[j] = "transit"
                 PROVE  (\E d \in Carriers : Holds(d, v, j)') \/ (\E r \in Load' : IsFor(r, v, j))
      OBVIOUS
    <3>1. (v # m.word \/ j # m.letter) /\ words[v].letter[j] = "transit"
      BY <2>2
    <3>2. (\E d \in Carriers : Holds(d, v, j)) \/ (\E r \in Load : IsFor(r, v, j))
      BY <3>1 DEF Transit
    <3>3. ~IsFor(m, v, j)
      BY <3>1 DEF IsFor
    <3> QED BY <2>1, <2>3, <3>2, <3>3 DEF Holds
  <2>9. \A c, d \in Carriers : Holds(d, carrier[c].word, carrier[c].letter)' /\ carrier'[c].at = "hold" => c = d
    BY <2>3 DEF Transit, Holds
  <2>10. \A r, q \in Load' : IsFor(q, r.word, r.letter) => r = q
    BY <2>1 DEF Transit
  <2>11. \A c \in Carriers : \A r \in Load' : ~Holds(c, r.word, r.letter)'
    BY <2>1, <2>3 DEF Transit, Holds
  <2> QED BY <2>6, <2>7, <2>8, <2>9, <2>10, <2>11 DEF Transit, IsFor
<1>6. ASSUME NEW c \in Carriers, RequestDelivery(c)
      PROVE  Transit'
  <2> DEFINE m == DeliveryRequest(c)
  <2>1. /\ carrier[c].at = "hold" /\ carrier'[c].at # "hold"
        /\ \A d \in Carriers \ {c} : carrier'[d] = carrier[d]
        /\ elev'["delivery"].requests = elev["delivery"].requests \cup {m}
        /\ elev'["delivery"].at = elev["delivery"].at /\ elev'["delivery"].batch = elev["delivery"].batch
    BY <1>6, RequestDeliveryEffect DEF AwaitRide, Elevators
  <2>2. words' = words
    BY <1>6 DEF RequestDelivery
  <2>3. Load' = Load \cup {m}
    BY <2>1 DEF Load, Riding
  <2>4. m.word = carrier[c].word /\ m.letter = carrier[c].letter
    BY DEF DeliveryRequest
  <2> HIDE DEF m
  <2>5. Holds(c, m.word, m.letter)
    BY <2>1, <2>4 DEF Holds
  <2>6. \A d \in Carriers \ {c} : ~Holds(d, m.word, m.letter)
    BY <2>1, <2>4 DEF Transit
  <2>7. \A r \in Load : ~IsFor(r, m.word, m.letter)
    BY <2>5 DEF Transit, IsFor
  <2>8. \A d \in Carriers \ {c} : \A v, j : Holds(d, v, j)' <=> Holds(d, v, j)
    BY <2>1 DEF Holds
  <2>9. \A v, j : ~Holds(c, v, j)'
    BY <2>1 DEF Holds
  <2>10. \A d \in Carriers : carrier'[d].at = "hold" =>
           words'[carrier'[d].word].letter[carrier'[d].letter] = "transit"
    BY <2>1, <2>2 DEF Transit
  <2>11. \A r \in Load' : words'[r.word].letter[r.letter] = "transit"
    BY <2>1, <2>2, <2>3, <2>4 DEF Transit
  <2>12. \A d, x \in Carriers : Holds(x, carrier[d].word, carrier[d].letter)' /\ carrier'[d].at = "hold" => d = x
    <3> SUFFICES ASSUME NEW d \in Carriers, NEW x \in Carriers, carrier'[d].at = "hold",
                        Holds(x, carrier[d].word, carrier[d].letter)'
                 PROVE  d = x
      OBVIOUS
    <3>1. d # c /\ x # c
      BY <2>1, <2>9
    <3>2. carrier'[d] = carrier[d] /\ Holds(x, carrier[d].word, carrier[d].letter)
      BY <2>1, <2>8, <3>1
    <3> QED BY <3>2 DEF Transit
  <2>13. \A r, q \in Load' : IsFor(q, r.word, r.letter) => r = q
    BY <2>3, <2>7 DEF Transit, IsFor
  <2>14. \A d \in Carriers : \A r \in Load' : ~Holds(d, r.word, r.letter)'
    BY <2>3, <2>6, <2>8, <2>9 DEF Transit
  <2>15. \A v \in Words : \A j \in Letters(v) : words'[v].letter[j] = "transit" =>
           (\E d \in Carriers : Holds(d, v, j)') \/ (\E r \in Load' : IsFor(r, v, j))
    <3> SUFFICES ASSUME NEW v \in Words, NEW j \in Letters(v), words'[v].letter[j] = "transit"
                 PROVE  (\E d \in Carriers : Holds(d, v, j)') \/ (\E r \in Load' : IsFor(r, v, j))
      OBVIOUS
    <3>1. (\E d \in Carriers : Holds(d, v, j)) \/ (\E r \in Load : IsFor(r, v, j))
      BY <2>2 DEF Transit
    <3>2. CASE Holds(c, v, j)
      BY <2>3, <2>4, <3>2 DEF Holds, IsFor
    <3>3. CASE ~Holds(c, v, j)
      BY <2>3, <2>8, <3>1, <3>3
    <3> QED BY <3>2, <3>3
  <2> QED BY <2>10, <2>11, <2>12, <2>13, <2>14, <2>15 DEF Transit, IsFor
<1>7. CASE Load' = Load /\ (\A w \in Words : words'[w].letter = words[w].letter) /\ carrier' = carrier
  BY <1>7, TransitKept
<1>8. ASSUME NEW s \in Sorters, SortWord(s)
      PROVE  Transit'
  <2>1. PICK w \in Words :
               LET b == [meta |-> words'[w].meta, fixed |-> words'[w].fixed]
               IN  /\ \A v \in Words \ {w} : words'[v] = words[v]
                   /\ words'[w] = [words[w] EXCEPT !.meta = b.meta, !.fixed = b.fixed,
                                                   !.completed = words'[w].completed]
    BY <1>8, SortWordEffect
  <2>2. words'[w].letter = words[w].letter
    BY <2>1 DEF TransportTypes, WordTypes, SharedWord
  <2>3. Load' = Load /\ carrier' = carrier
    BY <1>8 DEF SortWord, Load, Riding
  <2> QED BY <1>7, <2>1, <2>2, <2>3
<1>9. CASE Silent
  <2>1. \A w \in Words : words'[w].letter = words[w].letter
    BY <1>9, SilentEffect DEF Contents
  <2>2. CASE carrier' = carrier /\ elev' = elev
    BY <1>7, <2>1, <2>2 DEF Load, Riding
  <2>3. ASSUME NEW e \in Elevators, Collect(e) \/ LeaveFloor(e)
        PROVE  Transit'
    <3>1. Load' = Load
      BY <2>3, LoadKept
    <3>2. carrier' = carrier
      BY <2>3 DEF Collect, LeaveFloor
    <3> QED BY <1>7, <2>1, <3>1, <3>2
  <2>4. ASSUME NEW e \in Elevators, ArriveAtFloor(e) \/ SignalCarrier(e)
        PROVE  Transit'
    <3>1. Load' = Load
      BY <2>4, LoadKept
    <3>2. ArriveAtFloor(e) =>
             \A c \in Carriers : /\ carrier'[c].at = carrier[c].at /\ carrier'[c].word = carrier[c].word
                                 /\ carrier'[c].letter = carrier[c].letter
      BY ArriveEffect
    <3>3. SignalCarrier(e) =>
             \A c \in Carriers : /\ carrier'[c].word = carrier[c].word /\ carrier'[c].letter = carrier[c].letter
                                 /\ \/ carrier'[c].at = carrier[c].at
                                    \/ carrier[c].at = "wait" /\ carrier'[c].at = "scan"
      <4> HAVE SignalCarrier(e)
      <4>1. carrier' = Woken({Rider(e).carrier})
        BY DEF SignalCarrier, Rider
      <4> QED BY <4>1, WokenProperty DEF TransportTypes
    <3>4. \A c \in Carriers : \/ carrier'[c].at # "hold" /\ carrier[c].at # "hold"
                              \/ /\ carrier'[c].at = carrier[c].at /\ carrier'[c].word = carrier[c].word
                                 /\ carrier'[c].letter = carrier[c].letter
      BY <2>4, <3>2, <3>3
    <3> QED BY <2>1, <3>1, <3>4, TransitKept
  <2>5. ASSUME NEW c \in Carriers, NEW f \in Floors, RequestReposition(c, f)
        PROVE  Transit'
    <3>1. /\ carrier[c].at # "hold" /\ carrier'[c].at # "hold" /\ elev'["delivery"] = elev["delivery"]
          /\ \A d \in Carriers \ {c} : carrier'[d] = carrier[d]
      BY <2>5, RequestRepositionEffect DEF AwaitRide
    <3>2. Load' = Load
      BY <3>1 DEF Load, Riding
    <3> QED BY <2>1, <3>1, <3>2, TransitKept
  <2>6. CASE SpawnFloor \/ SpawnCarrier
    <3>1. Load' = Load
      BY <2>6 DEF SpawnFloor, SpawnCarrier, Load, Riding
    <3>2. \A c \in Carriers : \/ carrier'[c] = carrier[c]
                              \/ carrier'[c].at # "hold" /\ carrier[c].at # "hold"
      <4>1. CASE SpawnFloor
        BY <4>1, SpawnFloorEffect
      <4>2. CASE SpawnCarrier
        BY <4>2, SpawnCarrierEffect
      <4> QED BY <2>6, <4>1, <4>2
    <3> QED BY <2>1, <3>1, <3>2, TransitKept
  <2>7. CASE EndLoop
    <3>1. Load' = Load
      BY <2>7 DEF EndLoop, Load, Riding
    <3>2. \A c \in Carriers : \/ carrier'[c].at # "hold" /\ carrier[c].at # "hold"
                              \/ /\ carrier'[c].at = carrier[c].at /\ carrier'[c].word = carrier[c].word
                                 /\ carrier'[c].letter = carrier[c].letter
      BY <2>7, EndLoopEffect
    <3> QED BY <2>1, <3>1, <3>2, TransitKept
  <2>8. CASE StartElevators
    <3>1. /\ elev["delivery"].at = "none" /\ elev["delivery"].batch = <<>>
          /\ elev'["delivery"].requests = elev["delivery"].requests
          /\ elev'["delivery"].batch = elev["delivery"].batch /\ elev'["delivery"].at # "deliver"
      BY <2>8, StartElevatorsEffect DEF Population, StartElevators, LoopHead, TransportTypes, BatchTypes, Elevators
    <3>2. Load' = Load
      BY <3>1 DEF Load, Riding
    <3>3. carrier' = carrier
      BY <2>8 DEF StartElevators
    <3> QED BY <1>7, <2>1, <3>2, <3>3
  <2>9. \/ carrier' = carrier /\ elev' = elev
        \/ \E e \in Elevators : Collect(e) \/ LeaveFloor(e) \/ ArriveAtFloor(e) \/ SignalCarrier(e)
        \/ \E c \in Carriers : RequestDelivery(c) \/ \E f \in Floors : RequestReposition(c, f)
        \/ SpawnFloor \/ SpawnCarrier \/ EndLoop \/ StartElevators
    BY <1>9 DEF Silent, ClaimWord, AdmitWord, ReadCompleted, WriteCompleted, ReleaseFloors, ParentOnly,
       LookAtFloor, TooManyCarriers, ReportRun, ParentExits, Interrupt, ReapInterrupted, vars
  <2> QED BY <1>6, <2>2, <2>3, <2>4, <2>5, <2>6, <2>7, <2>8, <2>9
<1> QED BY <1>3, <1>4, <1>5, <1>8, <1>9, LetterSteps

-----------------------------------------------------------------------------
(* Requests, rides and waits                                               *)

\* No request is made or served and nobody is woken.
StandStill ==
    /\ \A e \in Elevators : elev'[e].requests = elev[e].requests /\ elev'[e].batch = elev[e].batch
    /\ \A c \in Carriers : \/ carrier'[c].at = carrier[c].at
                           \/ carrier[c].at = "none" /\ carrier'[c].at = "scan"
                           \/ carrier[c].at = "scan" /\ carrier'[c].at = "hold" /\ ~Finishing
                           \/ carrier[c].at = "hold" /\ carrier'[c].at = "scan"
    /\ Finishing' <=> Finishing
    /\ shutdown => shutdown'
    /\ parent'.at = "ended" => \A c \in Carriers : carrier'[c].at # "hold"

\* What the claim of a letter leaves alone.
LEMMA ClaimLetterFrame ==
    ASSUME NEW c \in Carriers, ClaimLetter(c)
    PROVE  UNCHANGED <<elev, parent, shutdown, present, respawn>> /\ ~shutdown
BY DEF ClaimLetter, endVars, floorVars

\* The same for a letter put down,
LEMMA PlaceHereFrame ==
    ASSUME NEW c \in Carriers, PlaceHere(c)
    PROVE  UNCHANGED <<elev, parent, shutdown, present, respawn>>
BY DEF PlaceHere, endVars, floorVars

\* ... handed over by the elevator,
LEMMA DeliverFrame ==
    ASSUME NEW e \in Elevators, Deliver(e)
    PROVE  UNCHANGED <<carrier, parent, shutdown, present, respawn>> /\ elev[e].at = "deliver"
BY DEF Deliver, endVars, floorVars

\* ... for a batch collected,
LEMMA CollectFrame ==
    ASSUME NEW e \in Elevators, Collect(e)
    PROVE  UNCHANGED <<carrier, parent, shutdown, present, respawn>> /\ elev[e].at = "idle"
BY DEF Collect, endVars, floorVars

\* ... and for a floor left.
LEMMA LeaveFrame ==
    ASSUME NEW e \in Elevators, LeaveFloor(e)
    PROVE  UNCHANGED <<carrier, parent, shutdown>>
BY DEF LeaveFloor, endVars

\* Letter carriers that pick up or put down a letter stand still.
LEMMA HandsStandStill ==
    ASSUME TransportTypes, Waiting, NEW c \in Carriers, ClaimLetter(c) \/ PlaceHere(c)
    PROVE  StandStill
<1>1. \/ carrier[c].at = "scan" /\ carrier'[c].at = "hold" /\ ~shutdown
      \/ carrier[c].at = "hold" /\ carrier'[c].at = "scan"
  <2>2. CASE ClaimLetter(c)
    BY <2>2, ClaimLetterEffect, ClaimLetterFrame
  <2>3. CASE PlaceHere(c)
    BY <2>3, PlaceHereEffect
  <2> QED BY <2>2, <2>3
<1>2. \A d \in Carriers \ {c} : carrier'[d] = carrier[d]
  BY ClaimLetterEffect, PlaceHereEffect
<1>3. elev' = elev /\ parent' = parent /\ shutdown' = shutdown
  BY ClaimLetterFrame, PlaceHereFrame
<1>4. parent.at = "ended" => shutdown /\ \A d \in Carriers : carrier[d].at # "hold"
  BY DEF Waiting, Finishing
<1>5. ~shutdown => ~Finishing
  BY DEF Waiting
<1> QED BY <1>1, <1>2, <1>3, <1>4, <1>5 DEF StandStill, Finishing

\* The elevators' steps between two requests stand still.
LEMMA ElevatorsStandStill ==
    ASSUME TransportTypes, Waiting, NEW e \in Elevators, Deliver(e) \/ LeaveFloor(e) \/ ArriveAtFloor(e)
    PROVE  StandStill
<1>1. \A x \in Elevators : elev'[x].requests = elev[x].requests /\ elev'[x].batch = elev[x].batch
  <2>1. CASE ArriveAtFloor(e)
    BY <2>1, ArriveEffect
  <2>2. CASE Deliver(e)
    BY <2>2, DeliverEffect
  <2>3. CASE LeaveFloor(e)
    BY <2>3, LeaveEffect
  <2> QED BY <2>1, <2>2, <2>3
<1>2. \A c \in Carriers : carrier'[c].at = carrier[c].at
  <2>1. CASE ArriveAtFloor(e)
    BY <2>1, ArriveEffect
  <2>2. CASE Deliver(e) \/ LeaveFloor(e)
    BY <2>2, DeliverFrame, LeaveFrame
  <2> QED BY <2>1, <2>2
<1>3. parent' = parent /\ shutdown' = shutdown
  <2>1. CASE ArriveAtFloor(e)
    BY <2>1 DEF ArriveAtFloor, endVars
  <2>2. CASE Deliver(e) \/ LeaveFloor(e)
    BY <2>2, DeliverFrame, LeaveFrame
  <2> QED BY <2>1, <2>2
<1> QED BY <1>1, <1>2, <1>3 DEF StandStill, Waiting, Finishing

\* The parent stands still but for wake_all.
LEMMA ParentStandsStill ==
    ASSUME TransportTypes, Waiting, Population,
           SpawnFloor \/ StartElevators \/ SpawnCarrier \/ ParentOnly
    PROVE  StandStill
<1>1. CASE SpawnFloor
  <2>1. /\ \A c \in Carriers : \/ carrier'[c] = carrier[c]
                               \/ carrier[c].at = "none" /\ carrier'[c].at = "scan"
        /\ parent'.at \in {"start", "elevators"}
    BY <1>1, SpawnFloorEffect
  <2>2. elev' = elev /\ parent.at = "start" /\ shutdown' = shutdown
    BY <1>1 DEF SpawnFloor
  <2> QED BY <2>1, <2>2 DEF StandStill, Finishing
<1>2. CASE StartElevators
  <2>1. parent.at = "elevators" /\ carrier' = carrier /\ shutdown' = shutdown
    BY <1>2 DEF StartElevators
  <2>2. /\ \A x \in Elevators : elev'[x].requests = elev[x].requests /\ elev'[x].batch = elev[x].batch
        /\ parent'.at = "loop"
    BY <1>2, <2>1, StartElevatorsEffect DEF Population
  <2> QED BY <2>1, <2>2 DEF StandStill, Finishing
<1>3. CASE SpawnCarrier
  <2>1. /\ \A c \in Carriers : \/ carrier'[c] = carrier[c]
                               \/ carrier[c].at = "none" /\ carrier'[c].at = "scan"
        /\ parent.at = "spawn" /\ parent'.at \in {"spawn", "loop"}
    BY <1>3, SpawnCarrierEffect
  <2>2. elev' = elev /\ shutdown' = shutdown
    BY <1>3 DEF SpawnCarrier
  <2> QED BY <2>1, <2>2 DEF StandStill, Finishing
<1>4. CASE ParentOnly
  <2>1. /\ carrier' = carrier /\ elev' = elev /\ shutdown => shutdown'
        /\ Finishing' <=> Finishing
    BY <1>4, ParentOnlyEffect DEF Finishing
  <2>2. carrier' = carrier /\ elev' = elev /\ (shutdown => shutdown')
    BY <1>4, ParentOnlyEffect
  <2>3. parent'.at = "ended" => \A c \in Carriers : carrier[c].at # "hold"
    <3>1. CASE parent.at = "ended"
      BY <3>1 DEF Waiting
    <3>2. CASE ParentExits
      BY <3>2 DEF ParentExits, AllGone, Unborn
    <3>3. parent'.at = "ended" => parent.at = "ended" \/ ParentExits
      BY <1>4 DEF ParentOnly, LookAtFloor, TooManyCarriers, ReportRun, Interrupt, ReapInterrupted, TransportTypes,
         EndTypes, ParentState
    <3> QED BY <3>1, <3>2, <3>3
  <2> QED BY <2>1, <2>2, <2>3 DEF StandStill
<1> QED BY <1>1, <1>2, <1>3, <1>4

\* The steps that make or serve requests or wake carriers, and the others.
LEMMA RideSteps ==
    ASSUME TransportTypes, Waiting, Population, [Next]_vars
    PROVE  \/ \E c \in Carriers : RequestDelivery(c) \/ \E f \in Floors : RequestReposition(c, f)
           \/ \E e \in Elevators : Collect(e) \/ SignalCarrier(e)
           \/ EndLoop
           \/ StandStill
<1>1. ASSUME UNCHANGED <<carrier, elev, parent, shutdown>>
      PROVE  StandStill
  BY <1>1 DEF StandStill, Waiting, Finishing
<1>2. CASE \E p \in WProcs : WordCarrierStep(p)
  BY <1>1, <1>2 DEF WordCarrierStep, ClaimWord, AdmitWord, endVars
<1>3. ASSUME NEW s \in Sorters, SorterStep(s)
      PROVE  StandStill
  <2>1. CASE SortWord(s)
    BY <1>1, <2>1 DEF SortWord, endVars
  <2>2. CASE ReadCompleted(s) \/ WriteCompleted(s)
    BY <1>1, <2>2 DEF ReadCompleted, WriteCompleted, endVars
  <2>3. CASE ReleaseFloors(s)
    BY <1>1, <2>3 DEF ReleaseFloors, endVars
  <2> QED BY <1>3, <2>1, <2>2, <2>3 DEF SorterStep
<1>4. CASE \E c \in Carriers : LetterCarrierStep(c)
  BY <1>4, HandsStandStill DEF LetterCarrierStep
<1>5. CASE \E e \in Elevators : ElevatorStep(e)
  BY <1>5, ElevatorsStandStill DEF ElevatorStep
<1>6. CASE ParentStep \/ Interrupt \/ ReapInterrupted
  BY <1>6, ParentStandsStill DEF ParentStep, ParentOnly
<1>7. CASE UNCHANGED vars
  BY <1>1, <1>7 DEF vars, endVars
<1> QED BY <1>2, <1>3, <1>4, <1>5, <1>6, <1>7 DEF Next

\* A carrier without a request makes one.
LEMMA RideRequested ==
    ASSUME TransportTypes, OneRide, Waiting, NEW c \in Carriers, NEW e \in Elevators, NEW r \in Request(e),
           r.carrier = c, ~Waits(c), parent.at # "ended",
           elev'[e].requests = elev[e].requests \cup {r},
           \A x \in Elevators \ {e} : elev'[x].requests = elev[x].requests,
           \A x \in Elevators : elev'[x].batch = elev[x].batch,
           carrier'[c].at = AwaitRide,
           \A d \in Carriers \ {c} : carrier'[d] = carrier[d],
           parent' = parent, shutdown' = shutdown
    PROVE  OneRide' /\ Waiting'
<1>1. \A x \in Elevators : ~Queued(x, c) /\ ~Rides1(x, c)
  BY DEF Waiting
<1>2. \A x \in Elevators : \A q \in elev'[x].requests : q \in elev[x].requests \/ (x = e /\ q = r)
  OBVIOUS
<1>3. \A x \in Elevators : \A q \in elev[x].requests : q.carrier # c
  BY <1>1 DEF Queued
<1>4. \A x, y \in Elevators : \A q \in elev'[x].requests, s \in elev'[y].requests :
        q.carrier = s.carrier => x = y /\ q = s
  BY <1>2, <1>3 DEF OneRide
<1>5. \A x, y \in Elevators : \A k \in DOMAIN elev'[x].batch, j \in DOMAIN elev'[y].batch :
        elev'[x].batch[k].carrier = elev'[y].batch[j].carrier => x = y /\ k = j
  BY DEF OneRide
<1>6. \A x \in Elevators : \A d \in Carriers : Rides1(x, d)' <=> Rides1(x, d)
  BY DEF Rides1
<1>7. \A x \in Elevators : \A d \in Carriers \ {c} : Queued(x, d)' <=> Queued(x, d)
  BY <1>2 DEF Queued
<1>8. \A x, y \in Elevators : \A d \in Carriers : ~(Queued(x, d)' /\ Rides1(y, d)')
  BY <1>1, <1>6, <1>7 DEF OneRide
<1>9. OneRide'
  BY <1>4, <1>5, <1>8 DEF OneRide
<1>10. Queued(e, c)'
  BY DEF Queued
<1>11. Waits(c)' /\ (carrier'[c].at = "wait" => ~Finishing') /\ carrier'[c].at # "hold"
  BY DEF Waits, AwaitRide, Finishing
<1>12. \A d \in Carriers \ {c} : Waits(d)' <=> Waits(d)
  BY DEF Waits, Finishing
<1>13. \A x \in Elevators : \A d \in Carriers : Queued(x, d)' \/ Rides1(x, d)' => Waits(d)'
  BY <1>6, <1>7, <1>11, <1>12 DEF Waiting
<1>14. \A d \in Carriers : carrier'[d].at = "wait" =>
         ~Finishing' /\ \E x \in Elevators : Queued(x, d)' \/ Rides1(x, d)'
  <2> SUFFICES ASSUME NEW d \in Carriers, carrier'[d].at = "wait"
               PROVE  ~Finishing' /\ \E x \in Elevators : Queued(x, d)' \/ Rides1(x, d)'
    OBVIOUS
  <2>1. CASE d = c
    BY <1>10, <1>11, <2>1
  <2>2. CASE d # c
    <3>1. carrier[d].at = "wait"
      BY <2>2
    <3>2. PICK x \in Elevators : Queued(x, d) \/ Rides1(x, d)
      BY <3>1 DEF Waiting
    <3>3. ~Finishing'
      BY <3>1 DEF Waiting, Finishing
    <3> QED BY <1>6, <1>7, <2>2, <3>2, <3>3
  <2> QED BY <2>1, <2>2
<1>15. Finishing' => shutdown'
  BY DEF Waiting, Finishing
<1> QED BY <1>9, <1>13, <1>14, <1>15 DEF Waiting

\* An elevator takes requests from the queue into its batch.
LEMMA RideCollected ==
    ASSUME TransportTypes, OneRide, Waiting, NEW e \in Elevators, Collect(e)
    PROVE  OneRide' /\ Waiting'
<1> DEFINE b == elev'[e].batch
<1>1. /\ \A x \in Elevators \ {e} : elev'[x] = elev[x]
      /\ elev[e].batch = <<>>
      /\ b \in Seq(elev[e].requests)
      /\ \A j, k \in DOMAIN b : b[j] = b[k] => j = k
      /\ elev'[e].requests = elev[e].requests \ Range(b)
  BY CollectEffect
<1>2. \A k \in DOMAIN b : b[k] \in elev[e].requests
  BY <1>1
<1>3. Range(b) = {b[k] : k \in DOMAIN b}
  BY DEF Range
<1>4. carrier' = carrier /\ parent' = parent /\ shutdown' = shutdown
  BY DEF Collect, endVars
<1> HIDE DEF b
<1>5. \A k \in DOMAIN b : b[k] \notin elev'[e].requests
  BY <1>1, <1>3
<1>6. \A x \in Elevators : \A r \in elev'[x].requests : r \in elev[x].requests
  BY <1>1
<1>7. \A x, y \in Elevators : \A q \in elev'[x].requests, s \in elev'[y].requests :
        q.carrier = s.carrier => x = y /\ q = s
  BY <1>6 DEF OneRide
<1>8. \A k, j \in DOMAIN b : b[k].carrier = b[j].carrier => k = j
  BY <1>1, <1>2 DEF OneRide
<1>9. \A k \in DOMAIN b : \A x \in Elevators : ~Rides1(x, b[k].carrier) /\ b[k].carrier \in Carriers
  <2> SUFFICES ASSUME NEW k \in DOMAIN b, NEW x \in Elevators
               PROVE  ~Rides1(x, b[k].carrier) /\ b[k].carrier \in Carriers
    OBVIOUS
  <2>1. b[k].carrier \in Carriers
    BY <1>2 DEF TransportTypes, ElevatorTypes, ElevatorState, Request
  <2>2. Queued(e, b[k].carrier)
    BY <1>2 DEF Queued
  <2> QED BY <2>1, <2>2 DEF OneRide
<1>10. \A x, y \in Elevators : \A k \in DOMAIN elev'[x].batch, j \in DOMAIN elev'[y].batch :
         elev'[x].batch[k].carrier = elev'[y].batch[j].carrier => x = y /\ k = j
  <2> SUFFICES ASSUME NEW x \in Elevators, NEW y \in Elevators,
                      NEW k \in DOMAIN elev'[x].batch, NEW j \in DOMAIN elev'[y].batch,
                      elev'[x].batch[k].carrier = elev'[y].batch[j].carrier
               PROVE  x = y /\ k = j
    OBVIOUS
  <2>1. CASE x = e /\ y = e
    BY <1>8, <2>1 DEF b
  <2>2. CASE x = e /\ y # e
    <3>1. elev'[y] = elev[y]
      BY <1>1, <2>2
    <3>2. Rides1(y, elev'[x].batch[k].carrier)
      BY <3>1 DEF Rides1
    <3> QED BY <1>9, <2>2, <3>2 DEF b
  <2>3. CASE x # e /\ y = e
    <3>1. elev'[x] = elev[x]
      BY <1>1, <2>3
    <3>2. Rides1(x, elev'[y].batch[j].carrier)
      BY <3>1 DEF Rides1
    <3> QED BY <1>9, <2>3, <3>2 DEF b
  <2>4. CASE x # e /\ y # e
    <3>1. elev'[x] = elev[x] /\ elev'[y] = elev[y]
      BY <1>1, <2>4
    <3> QED BY <3>1 DEF OneRide
  <2> QED BY <2>1, <2>2, <2>3, <2>4
<1>11. \A c \in Carriers : Rides1(e, c)' => Queued(e, c) /\ \A x \in Elevators : ~Queued(x, c)'
  <2> SUFFICES ASSUME NEW c \in Carriers, NEW k \in DOMAIN b, b[k].carrier = c
               PROVE  Queued(e, c) /\ \A x \in Elevators : ~Queued(x, c)'
    BY DEF Rides1, b
  <2>1. Queued(e, c)
    BY <1>2 DEF Queued
  <2>2. ASSUME NEW x \in Elevators, NEW r \in elev'[x].requests, r.carrier = c
        PROVE  FALSE
    <3>1. x = e /\ r = b[k]
      BY <1>2, <1>6, <2>2 DEF OneRide
    <3> QED BY <1>5, <2>2, <3>1
  <2> QED BY <2>1, <2>2 DEF Queued
<1>12. \A x \in Elevators : \A c \in Carriers : Queued(x, c)' => Queued(x, c)
  BY <1>6 DEF Queued
<1>13. \A x \in Elevators \ {e} : \A c \in Carriers : Rides1(x, c)' <=> Rides1(x, c)
  BY <1>1 DEF Rides1
<1>14. \A x, y \in Elevators : \A c \in Carriers : ~(Queued(x, c)' /\ Rides1(y, c)')
  BY <1>11, <1>12, <1>13 DEF OneRide
<1>15. OneRide'
  BY <1>7, <1>10, <1>14 DEF OneRide
<1>16. \A c \in Carriers : Queued(e, c) => Queued(e, c)' \/ Rides1(e, c)'
  <2> SUFFICES ASSUME NEW c \in Carriers, NEW r \in elev[e].requests, r.carrier = c
               PROVE  Queued(e, c)' \/ Rides1(e, c)'
    BY DEF Queued
  <2>1. CASE r \in Range(b)
    BY <1>3, <2>1 DEF Rides1, b
  <2>2. CASE r \notin Range(b)
    BY <1>1, <2>2 DEF Queued
  <2> QED BY <2>1, <2>2
<1>17. \A x \in Elevators \ {e} : \A c \in Carriers : Queued(x, c) <=> Queued(x, c)'
  BY <1>1 DEF Queued
<1>18. \A c \in Carriers : ~Rides1(e, c)
  BY <1>1 DEF Rides1
<1>19. (\A c \in Carriers : Waits(c)' <=> Waits(c)) /\ (Finishing' <=> Finishing)
  BY <1>4 DEF Waits, Finishing
<1>20. \A x \in Elevators : \A c \in Carriers : Queued(x, c)' \/ Rides1(x, c)' => Waits(c)'
  BY <1>11, <1>12, <1>13, <1>19 DEF Waiting
<1>21. \A c \in Carriers : carrier'[c].at = "wait" =>
         ~Finishing' /\ \E x \in Elevators : Queued(x, c)' \/ Rides1(x, c)'
  <2> SUFFICES ASSUME NEW c \in Carriers, carrier[c].at = "wait"
               PROVE  ~Finishing /\ \E x \in Elevators : Queued(x, c)' \/ Rides1(x, c)'
    BY <1>4, <1>19
  <2>1. PICK x \in Elevators : Queued(x, c) \/ Rides1(x, c)
    BY DEF Waiting
  <2>2. ~Finishing
    BY DEF Waiting
  <2> QED BY <1>13, <1>16, <1>17, <1>18, <2>1, <2>2
<1> QED BY <1>4, <1>15, <1>19, <1>20, <1>21 DEF Waiting

\* An elevator lets its first rider go on.
LEMMA RideEnded ==
    ASSUME TransportTypes, OneRide, Waiting, NEW e \in Elevators, SignalCarrier(e)
    PROVE  OneRide' /\ Waiting'
<1> DEFINE b == elev[e].batch
<1>1. /\ \A x \in Elevators \ {e} : elev'[x] = elev[x]
      /\ elev'[e].batch = Tail(b) /\ elev'[e].requests = elev[e].requests
  BY SignalEffect
<1>a. elev[e].at = "signal"
  BY DEF SignalCarrier
<1>b. PICK c \in Carriers : c = Rider(e).carrier
  BY <1>a, RiderType
<1>2. carrier' = Woken({c}) /\ parent' = parent /\ shutdown' = shutdown
  BY <1>b DEF SignalCarrier, Rider, endVars
<1>3. b \in Seq(Request(e)) /\ b # <<>> /\ Rider(e) = b[1]
  BY <1>a, RiderType
<1>4. \A d \in Carriers : carrier'[d].at = IF d = c /\ carrier[d].at = "wait" THEN "scan" ELSE carrier[d].at
  BY <1>2, WokenProperty DEF TransportTypes
<1>5. /\ DOMAIN b = 1..Len(b) /\ Len(b) \in Nat \ {0}
      /\ DOMAIN Tail(b) = 1..(Len(b) - 1) /\ \A k \in 1..(Len(b) - 1) : Tail(b)[k] = b[k + 1]
  <2> HIDE DEF b
  <2> QED BY <1>3, RangeHeadTail
<1>6. c = b[1].carrier
  BY <1>3, <1>b
<1> HIDE DEF b
<1>7. \A k \in DOMAIN Tail(b) : k + 1 \in DOMAIN b /\ k + 1 # 1 /\ Tail(b)[k] = b[k + 1]
  BY <1>5
<1>8. \A k \in DOMAIN b : k # 1 => k - 1 \in DOMAIN Tail(b) /\ Tail(b)[k - 1] = b[k]
  BY <1>5
<1>9. 1 \in DOMAIN b
  BY <1>5
<1>10. \A k, j \in DOMAIN Tail(b) : k + 1 = j + 1 => k = j
  BY <1>5
<1>11. \A x \in Elevators : \A k \in DOMAIN elev'[x].batch :
         \E j \in DOMAIN elev[x].batch : /\ elev'[x].batch[k] = elev[x].batch[j]
                                         /\ IF x = e THEN j = k + 1 /\ j # 1 ELSE j = k
  BY <1>1, <1>7 DEF b
<1>12. \A x \in Elevators : elev'[x].requests = elev[x].requests
  BY <1>1
<1>13. \A x, y \in Elevators : \A k \in DOMAIN elev'[x].batch, j \in DOMAIN elev'[y].batch :
         elev'[x].batch[k].carrier = elev'[y].batch[j].carrier => x = y /\ k = j
  <2> SUFFICES ASSUME NEW x \in Elevators, NEW y \in Elevators,
                      NEW k \in DOMAIN elev'[x].batch, NEW j \in DOMAIN elev'[y].batch,
                      elev'[x].batch[k].carrier = elev'[y].batch[j].carrier
               PROVE  x = y /\ k = j
    OBVIOUS
  <2>1. PICK l \in DOMAIN elev[x].batch : /\ elev'[x].batch[k] = elev[x].batch[l]
                                          /\ IF x = e THEN l = k + 1 /\ l # 1 ELSE l = k
    BY <1>11
  <2>2. PICK m \in DOMAIN elev[y].batch : /\ elev'[y].batch[j] = elev[y].batch[m]
                                          /\ IF y = e THEN m = j + 1 /\ m # 1 ELSE m = j
    BY <1>11
  <2>3. x = y /\ l = m
    BY <2>1, <2>2 DEF OneRide
  <2>4. CASE x = e
    BY <1>1, <1>10, <2>1, <2>2, <2>3, <2>4
  <2>5. CASE x # e
    BY <2>1, <2>2, <2>3, <2>5
  <2> QED BY <2>3, <2>4, <2>5
<1>14. \A x \in Elevators : \A d \in Carriers :
         /\ Queued(x, d)' <=> Queued(x, d)
         /\ Rides1(x, d)' => Rides1(x, d) /\ d # c
  <2> SUFFICES ASSUME NEW x \in Elevators, NEW d \in Carriers
               PROVE  /\ Queued(x, d)' <=> Queued(x, d)
                      /\ Rides1(x, d)' => Rides1(x, d) /\ d # c
    OBVIOUS
  <2>1. Queued(x, d)' <=> Queued(x, d)
    BY <1>12 DEF Queued
  <2>2. ASSUME NEW k \in DOMAIN elev'[x].batch, elev'[x].batch[k].carrier = d
        PROVE  Rides1(x, d) /\ d # c
    <3>1. PICK l \in DOMAIN elev[x].batch : /\ elev'[x].batch[k] = elev[x].batch[l]
                                            /\ IF x = e THEN l = k + 1 /\ l # 1 ELSE l = k
      BY <1>11
    <3>2. Rides1(x, d)
      BY <2>2, <3>1 DEF Rides1
    <3>3. d = c => x = e /\ l = 1
      BY <1>6, <1>9, <2>2, <3>1 DEF OneRide, b
    <3> QED BY <3>1, <3>2, <3>3
  <2> QED BY <2>1, <2>2 DEF Rides1
<1>15. \A x \in Elevators : \A d \in Carriers \ {c} : Rides1(x, d) => Rides1(x, d)'
  <2> SUFFICES ASSUME NEW x \in Elevators, NEW d \in Carriers \ {c}, NEW k \in DOMAIN elev[x].batch,
                      elev[x].batch[k].carrier = d
               PROVE  \E j \in DOMAIN elev'[x].batch : elev'[x].batch[j].carrier = d
    BY DEF Rides1
  <2>1. CASE x = e
    <3>1. k # 1
      BY <1>6, <2>1 DEF b
    <3>2. k - 1 \in DOMAIN Tail(b) /\ Tail(b)[k - 1] = b[k] /\ b[k].carrier = d
      BY <1>8, <2>1, <3>1 DEF b
    <3> QED BY <1>1, <2>1, <3>2
  <2>2. CASE x # e
    BY <1>1, <2>2
  <2> QED BY <2>1, <2>2
<1>16. \A x \in Elevators : ~Queued(x, c)'
  <2>1. Rides1(e, c)
    BY <1>6, <1>9 DEF Rides1, b
  <2>2. \A x \in Elevators : ~Queued(x, c)
    BY <2>1 DEF OneRide
  <2> QED BY <1>14, <2>2
<1>17. OneRide'
  <2>1. \A x, y \in Elevators : \A d \in Carriers : ~(Queued(x, d)' /\ Rides1(y, d)')
    BY <1>14 DEF OneRide
  <2>2. \A x, y \in Elevators : \A q \in elev'[x].requests, s \in elev'[y].requests :
          q.carrier = s.carrier => x = y /\ q = s
    BY <1>12 DEF OneRide
  <2> QED BY <1>13, <2>1, <2>2 DEF OneRide
<1>18. (Finishing' <=> Finishing) /\ \A d \in Carriers \ {c} : Waits(d)' <=> Waits(d)
  BY <1>2, <1>4 DEF Waits, Finishing
<1>19. \A x \in Elevators : \A d \in Carriers : Queued(x, d)' \/ Rides1(x, d)' => Waits(d)'
  BY <1>14, <1>16, <1>18 DEF Waiting
<1>20. \A d \in Carriers : carrier'[d].at = "wait" =>
         ~Finishing' /\ \E x \in Elevators : Queued(x, d)' \/ Rides1(x, d)'
  <2> SUFFICES ASSUME NEW d \in Carriers, carrier'[d].at = "wait"
               PROVE  ~Finishing' /\ \E x \in Elevators : Queued(x, d)' \/ Rides1(x, d)'
    OBVIOUS
  <2>1. d # c /\ carrier[d].at = "wait"
    BY <1>4
  <2>2. PICK x \in Elevators : Queued(x, d) \/ Rides1(x, d)
    BY <2>1 DEF Waiting
  <2>3. ~Finishing'
    BY <1>18, <2>1 DEF Waiting
  <2> QED BY <1>14, <1>15, <2>1, <2>2, <2>3
<1>21. parent'.at = "ended" => \A d \in Carriers : carrier'[d].at # "hold"
  BY <1>2, <1>4 DEF Waiting
<1> QED BY <1>2, <1>17, <1>18, <1>19, <1>20, <1>21 DEF Waiting

\* wake_all gets every carrier out of its wait.
LEMMA AllWoken ==
    ASSUME TransportTypes, OneRide, Waiting, EndLoop
    PROVE  OneRide' /\ Waiting'
<1>1. elev' = elev
  BY DEF EndLoop
<1>2. /\ parent.at = "loop" /\ parent'.at = "report" /\ shutdown'
      /\ \A c \in Carriers : carrier'[c].at = IF carrier[c].at = "wait" THEN "scan" ELSE carrier[c].at
  BY EndLoopEffect
<1>3. ~Finishing /\ Finishing'
  BY <1>2 DEF Finishing
<1>4. \A c \in Carriers : Waits(c) => Waits(c)'
  BY <1>2, <1>3 DEF Waits
<1>5. \A x \in Elevators : \A c \in Carriers : (Queued(x, c)' <=> Queued(x, c)) /\ (Rides1(x, c)' <=> Rides1(x, c))
  BY <1>1 DEF Queued, Rides1
<1>6. OneRide'
  BY <1>1, <1>5 DEF OneRide
<1> QED BY <1>2, <1>3, <1>4, <1>5, <1>6 DEF Waiting

\* Every step keeps one request or ride for every carrier that waits, and none
\* for the others.
LEMMA RidesStep ==
    ASSUME TransportTypes, OneRide, Waiting, Population, [Next]_vars
    PROVE  OneRide' /\ Waiting'
<1>1. ASSUME NEW c \in Carriers, RequestDelivery(c)
      PROVE  OneRide' /\ Waiting'
  <2>1. /\ carrier[c].at = "hold" /\ carrier'[c].at = AwaitRide
        /\ \A d \in Carriers \ {c} : carrier'[d] = carrier[d]
        /\ elev'["delivery"].requests = elev["delivery"].requests \cup {DeliveryRequest(c)}
        /\ elev'["reposition"] = elev["reposition"]
        /\ \A x \in Elevators : elev'[x].batch = elev[x].batch
        /\ TransportTypes'
    BY <1>1, RequestDeliveryEffect
  <2>2. parent' = parent /\ shutdown' = shutdown
    BY <1>1 DEF RequestDelivery, endVars
  <2>3. ~Waits(c) /\ parent.at # "ended"
    BY <2>1 DEF Waits, Waiting
  <2>4. DeliveryRequest(c) \in Request("delivery") /\ DeliveryRequest(c).carrier = c
    <3>1. elev'["delivery"].requests \subseteq Request("delivery")
      BY <2>1 DEF TransportTypes, ElevatorTypes, ElevatorState, Elevators
    <3> QED BY <2>1, <3>1 DEF DeliveryRequest
  <2>5. Elevators \ {"delivery"} = {"reposition"} /\ "delivery" \in Elevators
    BY DEF Elevators
  <2> QED BY <2>1, <2>2, <2>3, <2>4, <2>5, RideRequested
<1>2. ASSUME NEW c \in Carriers, NEW f \in Floors, RequestReposition(c, f)
      PROVE  OneRide' /\ Waiting'
  <2> DEFINE r == [carrier |-> c, from |-> carrier[c].floor, to |-> f]
  <2>1. /\ carrier[c].at = "scan" /\ carrier'[c].at = AwaitRide
        /\ \A d \in Carriers \ {c} : carrier'[d] = carrier[d]
        /\ elev'["reposition"].requests = elev["reposition"].requests \cup {r}
        /\ elev'["delivery"] = elev["delivery"]
        /\ \A x \in Elevators : elev'[x].batch = elev[x].batch
        /\ TransportTypes'
    BY <1>2, RequestRepositionEffect
  <2>2. parent' = parent /\ shutdown' = shutdown /\ ~shutdown
    BY <1>2 DEF RequestReposition, endVars
  <2>3. ~Waits(c) /\ parent.at # "ended"
    BY <2>1, <2>2 DEF Waits, Waiting, Finishing
  <2>4. r \in Request("reposition") /\ r.carrier = c
    <3>1. elev'["reposition"].requests \subseteq Request("reposition")
      BY <2>1 DEF TransportTypes, ElevatorTypes, ElevatorState, Elevators
    <3> QED BY <2>1, <3>1
  <2>5. Elevators \ {"reposition"} = {"delivery"} /\ "reposition" \in Elevators
    BY DEF Elevators
  <2> HIDE DEF r
  <2> QED BY <2>1, <2>2, <2>3, <2>4, <2>5, RideRequested
<1>3. CASE StandStill
  <2>1. \A x \in Elevators : \A c \in Carriers : (Queued(x, c)' <=> Queued(x, c)) /\ (Rides1(x, c)' <=> Rides1(x, c))
    BY <1>3 DEF StandStill, Queued, Rides1
  <2>2. OneRide'
    BY <1>3, <2>1 DEF OneRide, StandStill
  <2>3. \A c \in Carriers : Waits(c) => Waits(c)'
    BY <1>3 DEF StandStill, Waits
  <2>4. \A c \in Carriers : carrier'[c].at = "wait" => carrier[c].at = "wait"
    BY <1>3 DEF StandStill
  <2> QED BY <1>3, <2>1, <2>2, <2>3, <2>4 DEF StandStill, Waiting
<1> QED BY <1>1, <1>2, <1>3, RideSteps, RideCollected, RideEnded, AllWoken

-----------------------------------------------------------------------------
(* Where the carriers are                                                  *)

\* The carriers of requests and rides are processes that exist.
LEMMA RidersExist ==
    ASSUME TransportTypes, Waiting, NEW e \in Elevators
    PROVE  /\ \A r \in elev[e].requests : r.carrier \in Carriers /\ carrier[r.carrier].at # "none"
           /\ \A k \in DOMAIN elev[e].batch :
                 elev[e].batch[k].carrier \in Carriers /\ carrier[elev[e].batch[k].carrier].at # "none"
<1>1. elev[e] \in ElevatorState(e)
  BY DEF TransportTypes, ElevatorTypes
<1>2. elev[e].requests \subseteq Request(e) /\ \A k \in DOMAIN elev[e].batch : elev[e].batch[k] \in Request(e)
  BY <1>1 DEF ElevatorState
<1>3. \A r \in Request(e) : r.carrier \in Carriers
  BY DEF Request
<1>4. \A r \in elev[e].requests : r.carrier \in Carriers /\ Queued(e, r.carrier)
  BY <1>2, <1>3 DEF Queued
<1>5. \A k \in DOMAIN elev[e].batch : elev[e].batch[k].carrier \in Carriers /\ Rides1(e, elev[e].batch[k].carrier)
  BY <1>2, <1>3 DEF Rides1
<1>6. \A c \in Carriers : Waits(c) => carrier[c].at # "none"
  BY DEF Waits
<1> QED BY <1>4, <1>5, <1>6 DEF Waiting

\* No carrier moves and no request or ride changes.
Unmoved ==
    /\ \A c \in Carriers : carrier[c].at # "none" => carrier'[c].floor = carrier[c].floor
    /\ \A e \in Elevators : /\ elev'[e].requests = elev[e].requests /\ elev'[e].batch = elev[e].batch
                            /\ \/ elev'[e].at = elev[e].at
                               \/ elev'[e].at # "arrive" /\ elev[e].at # "signal"

\* The steps that change where carriers or requests are, and the others.
LEMMA MoveSteps ==
    ASSUME TransportTypes, Population, [Next]_vars
    PROVE  \/ \E c \in Carriers : RequestDelivery(c) \/ \E f \in Floors : RequestReposition(c, f)
           \/ \E e \in Elevators : Collect(e) \/ LeaveFloor(e) \/ ArriveAtFloor(e) \/ SignalCarrier(e)
           \/ Unmoved
<1>1. ASSUME UNCHANGED <<carrier, elev>>
      PROVE  Unmoved
  BY <1>1 DEF Unmoved
<1>2. CASE \E p \in WProcs : WordCarrierStep(p)
  BY <1>1, <1>2 DEF WordCarrierStep, ClaimWord, AdmitWord
<1>3. ASSUME NEW s \in Sorters, SorterStep(s)
      PROVE  Unmoved
  <2>1. CASE SortWord(s)
    BY <1>1, <2>1 DEF SortWord
  <2>2. CASE ReadCompleted(s) \/ WriteCompleted(s)
    BY <1>1, <2>2 DEF ReadCompleted, WriteCompleted
  <2>3. CASE ReleaseFloors(s)
    BY <1>1, <2>3 DEF ReleaseFloors
  <2> QED BY <1>3, <2>1, <2>2, <2>3 DEF SorterStep
<1>4. ASSUME NEW c \in Carriers, ClaimLetter(c) \/ PlaceHere(c)
      PROVE  Unmoved
  <2>1. carrier'[c].floor = carrier[c].floor /\ \A d \in Carriers \ {c} : carrier'[d] = carrier[d]
    BY <1>4, ClaimLetterEffect, PlaceHereEffect
  <2>2. elev' = elev
    BY <1>4, ClaimLetterFrame, PlaceHereFrame
  <2> QED BY <2>1, <2>2 DEF Unmoved
<1>5. ASSUME NEW e \in Elevators, Deliver(e)
      PROVE  Unmoved
  <2>1. carrier' = carrier
    BY <1>5, DeliverFrame
  <2>2. elev[e].at = "deliver"
    BY <1>5 DEF Deliver
  <2>3. /\ \A x \in Elevators \ {e} : elev'[x] = elev[x]
        /\ elev'[e].at = "leave"
        /\ elev'[e].batch = elev[e].batch /\ elev'[e].requests = elev[e].requests
    BY <1>5, DeliverEffect
  <2> QED BY <2>1, <2>2, <2>3 DEF Unmoved
<1>6. CASE SpawnFloor
  <2>1. \A c \in Carriers : carrier[c].at # "none" => carrier'[c] = carrier[c]
    BY <1>6, SpawnFloorEffect
  <2>2. elev' = elev
    BY <1>6 DEF SpawnFloor
  <2> QED BY <2>1, <2>2 DEF Unmoved
<1>7. CASE SpawnCarrier
  <2>1. \A c \in Carriers : carrier[c].at # "none" => carrier'[c] = carrier[c]
    BY <1>7, SpawnCarrierEffect
  <2>2. elev' = elev
    BY <1>7 DEF SpawnCarrier
  <2> QED BY <2>1, <2>2 DEF Unmoved
<1>8. CASE StartElevators
  <2>1. carrier' = carrier /\ parent.at = "elevators"
    BY <1>8 DEF StartElevators
  <2>2. \A e \in Elevators : elev[e].at = "none"
    BY <2>1 DEF Population
  <2>3. \A e \in Elevators : /\ elev'[e].at # "arrive" /\ elev'[e].requests = elev[e].requests
                             /\ elev'[e].batch = elev[e].batch
    BY <1>8, <2>2, StartElevatorsEffect DEF LoopHead
  <2> QED BY <2>1, <2>2, <2>3 DEF Unmoved
<1>9. CASE EndLoop
  <2>1. \A c \in Carriers : carrier'[c].floor = carrier[c].floor
    BY <1>9, EndLoopEffect
  <2>2. elev' = elev
    BY <1>9 DEF EndLoop
  <2> QED BY <2>1, <2>2 DEF Unmoved
<1>10. CASE ParentOnly
  BY <1>1, <1>10, ParentOnlyEffect
<1>11. CASE UNCHANGED vars
  BY <1>1, <1>11 DEF vars
<1> QED BY <1>2, <1>3, <1>4, <1>5, <1>6, <1>7, <1>8, <1>9, <1>10, <1>11
        DEF Next, LetterCarrierStep, ElevatorStep, ParentStep, ParentOnly

\* A new request says where its carrier is.
LEMMA WhereRequested ==
    ASSUME TransportTypes, Waiting, Whereabouts, NEW e \in Elevators, NEW r \in Request(e),
           r.from = carrier[r.carrier].floor,
           elev'[e].requests = elev[e].requests \cup {r},
           \A x \in Elevators \ {e} : elev'[x].requests = elev[x].requests,
           \A x \in Elevators : elev'[x].batch = elev[x].batch /\ elev'[x].at = elev[x].at,
           \A c \in Carriers : carrier'[c].floor = carrier[c].floor
    PROVE  Whereabouts'
<1>1. r.carrier \in Carriers
  BY DEF Request
<1>2. \A x \in Elevators : \A q \in elev'[x].requests : carrier'[q.carrier].floor = q.from
  BY <1>1, RidersExist DEF Whereabouts
<1>3. \A x \in Elevators : \A k \in DOMAIN elev'[x].batch :
        k > 1 \/ elev'[x].at # "signal" => carrier'[elev'[x].batch[k].carrier].floor = elev'[x].batch[k].from
  BY RidersExist DEF Whereabouts
<1> QED BY <1>2, <1>3 DEF Whereabouts

\* Every step keeps the requests true about where their carriers are.
LEMMA WhereaboutsStep ==
    ASSUME TransportTypes, OneRide, Waiting, Whereabouts, Population, [Next]_vars
    PROVE  Whereabouts'
<1>1. \A e \in Elevators : \A r \in elev[e].requests : r.carrier \in Carriers /\ carrier[r.carrier].at # "none"
  BY RidersExist
<1>2. \A e \in Elevators : \A k \in DOMAIN elev[e].batch :
        elev[e].batch[k].carrier \in Carriers /\ carrier[elev[e].batch[k].carrier].at # "none"
  BY RidersExist
<1>3. ASSUME NEW c \in Carriers, RequestDelivery(c)
      PROVE  Whereabouts'
  <2>1. /\ carrier'[c].floor = carrier[c].floor
        /\ \A d \in Carriers \ {c} : carrier'[d] = carrier[d]
        /\ elev'["delivery"].requests = elev["delivery"].requests \cup {DeliveryRequest(c)}
        /\ elev'["reposition"] = elev["reposition"]
        /\ \A x \in Elevators : elev'[x].at = elev[x].at /\ elev'[x].batch = elev[x].batch
        /\ TransportTypes'
    BY <1>3, RequestDeliveryEffect
  <2>2. DeliveryRequest(c) \in Request("delivery")
    BY <2>1 DEF TransportTypes, ElevatorTypes, ElevatorState, Elevators
  <2>3. DeliveryRequest(c).carrier = c /\ DeliveryRequest(c).from = carrier[c].floor
    BY DEF DeliveryRequest
  <2>4. Elevators \ {"delivery"} = {"reposition"} /\ "delivery" \in Elevators
    BY DEF Elevators
  <2>5. \A d \in Carriers : carrier'[d].floor = carrier[d].floor
    BY <2>1
  <2> QED BY <2>1, <2>2, <2>3, <2>4, <2>5, WhereRequested
<1>4. ASSUME NEW c \in Carriers, NEW f \in Floors, RequestReposition(c, f)
      PROVE  Whereabouts'
  <2> DEFINE r == [carrier |-> c, from |-> carrier[c].floor, to |-> f]
  <2>1. /\ carrier'[c].floor = carrier[c].floor
        /\ \A d \in Carriers \ {c} : carrier'[d] = carrier[d]
        /\ elev'["reposition"].requests = elev["reposition"].requests \cup {r}
        /\ elev'["delivery"] = elev["delivery"]
        /\ \A x \in Elevators : elev'[x].at = elev[x].at /\ elev'[x].batch = elev[x].batch
        /\ TransportTypes'
    BY <1>4, RequestRepositionEffect
  <2>2. r \in Request("reposition")
    BY <2>1 DEF TransportTypes, ElevatorTypes, ElevatorState, Elevators
  <2>3. r.carrier = c /\ r.from = carrier[c].floor
    OBVIOUS
  <2>4. Elevators \ {"reposition"} = {"delivery"} /\ "reposition" \in Elevators
    BY DEF Elevators
  <2>5. \A d \in Carriers : carrier'[d].floor = carrier[d].floor
    BY <2>1
  <2> HIDE DEF r
  <2> QED BY <2>1, <2>2, <2>3, <2>4, <2>5, WhereRequested
<1>5. ASSUME NEW e \in Elevators, Collect(e)
      PROVE  Whereabouts'
  <2>1. /\ \A x \in Elevators \ {e} : elev'[x] = elev[x]
        /\ elev'[e].at = FirstStage(e)
        /\ elev'[e].batch \in Seq(elev[e].requests)
        /\ elev'[e].requests = elev[e].requests \ Range(elev'[e].batch)
    BY <1>5, CollectEffect
  <2>2. carrier' = carrier
    BY <1>5 DEF Collect
  <2>3. \A k \in DOMAIN elev'[e].batch : elev'[e].batch[k] \in elev[e].requests
    BY <2>1
  <2>4. elev'[e].at # "arrive" /\ elev'[e].at # "signal"
    BY <2>1 DEF FirstStage
  <2>5. \A x \in Elevators : \A r \in elev'[x].requests : carrier'[r.carrier].floor = r.from
    BY <2>1, <2>2 DEF Whereabouts
  <2>6. \A x \in Elevators : \A k \in DOMAIN elev'[x].batch :
          k > 1 \/ elev'[x].at # "signal" => carrier'[elev'[x].batch[k].carrier].floor = elev'[x].batch[k].from
    <3> SUFFICES ASSUME NEW x \in Elevators, NEW k \in DOMAIN elev'[x].batch, k > 1 \/ elev'[x].at # "signal"
                 PROVE  carrier'[elev'[x].batch[k].carrier].floor = elev'[x].batch[k].from
      OBVIOUS
    <3>1. CASE x = e
      BY <2>2, <2>3, <3>1 DEF Whereabouts
    <3>2. CASE x # e
      BY <2>1, <2>2, <3>2 DEF Whereabouts
    <3> QED BY <3>1, <3>2
  <2>7. \A x \in Elevators : elev'[x].at = "arrive" => Head(elev'[x].batch).from # Head(elev'[x].batch).to
    BY <2>1, <2>4 DEF Whereabouts
  <2> QED BY <2>5, <2>6, <2>7 DEF Whereabouts
<1>6. ASSUME NEW e \in Elevators, LeaveFloor(e)
      PROVE  Whereabouts'
  <2>1. /\ \A x \in Elevators \ {e} : elev'[x] = elev[x]
        /\ elev'[e].batch = elev[e].batch /\ elev'[e].requests = elev[e].requests
        /\ elev'[e].at = "arrive" => carrier[Rider(e).carrier].floor # Rider(e).to
    BY <1>6, LeaveEffect
  <2>2. carrier' = carrier
    BY <1>6, LeaveFrame
  <2>3. elev[e].at = "leave"
    BY <1>6 DEF LeaveFloor
  <2>4. carrier[Rider(e).carrier].floor = Rider(e).from
    BY <2>3, RiderType DEF Whereabouts
  <2>5. \A x \in Elevators : \A k \in DOMAIN elev'[x].batch :
          k > 1 \/ elev'[x].at # "signal" => carrier'[elev'[x].batch[k].carrier].floor = elev'[x].batch[k].from
    BY <2>1, <2>2, <2>3 DEF Whereabouts
  <2>6. \A x \in Elevators : elev'[x].at = "arrive" => Head(elev'[x].batch).from # Head(elev'[x].batch).to
    BY <2>1, <2>4 DEF Whereabouts, Rider
  <2>7. \A x \in Elevators : \A r \in elev'[x].requests : carrier'[r.carrier].floor = r.from
    BY <2>1, <2>2 DEF Whereabouts
  <2> QED BY <2>5, <2>6, <2>7 DEF Whereabouts
<1>7. ASSUME NEW e \in Elevators, ArriveAtFloor(e)
      PROVE  Whereabouts'
  <2>1. /\ \A x \in Elevators \ {e} : elev'[x] = elev[x]
        /\ elev'[e].at = "signal"
        /\ elev'[e].batch = elev[e].batch /\ elev'[e].requests = elev[e].requests
        /\ \A c \in Carriers \ {Rider(e).carrier} : carrier'[c] = carrier[c]
    BY <1>7, ArriveEffect
  <2>2. elev[e].at = "arrive"
    BY <1>7 DEF ArriveAtFloor
  <2>3. 1 \in DOMAIN elev[e].batch /\ Rider(e) = elev[e].batch[1] /\ Rider(e).carrier \in Carriers
    BY <2>2, RiderType
  <2>4. Rides1(e, Rider(e).carrier)
    BY <2>3 DEF Rides1
  <2>5. \A x \in Elevators : \A r \in elev[x].requests : r.carrier # Rider(e).carrier
    BY <2>3, <2>4 DEF OneRide, Queued
  <2>6. \A x \in Elevators : \A k \in DOMAIN elev[x].batch :
          x # e \/ k # 1 => elev[x].batch[k].carrier # Rider(e).carrier
    BY <2>3 DEF OneRide
  <2>7. \A x \in Elevators : \A k \in DOMAIN elev'[x].batch :
          k > 1 \/ elev'[x].at # "signal" => carrier'[elev'[x].batch[k].carrier].floor = elev'[x].batch[k].from
    <3> SUFFICES ASSUME NEW x \in Elevators, NEW k \in DOMAIN elev[x].batch, k > 1 \/ elev'[x].at # "signal"
                 PROVE  carrier'[elev[x].batch[k].carrier].floor = elev[x].batch[k].from
      BY <2>1
    <3>1. (x # e \/ k # 1) /\ (k > 1 \/ elev[x].at # "signal")
      BY <2>1, <2>2
    <3>2. carrier'[elev[x].batch[k].carrier] = carrier[elev[x].batch[k].carrier]
      BY <1>2, <2>1, <2>6, <3>1
    <3> QED BY <3>1, <3>2 DEF Whereabouts
  <2>8. \A x \in Elevators : \A r \in elev'[x].requests : carrier'[r.carrier].floor = r.from
    BY <1>1, <2>1, <2>5 DEF Whereabouts
  <2>9. \A x \in Elevators : elev'[x].at = "arrive" => Head(elev'[x].batch).from # Head(elev'[x].batch).to
    BY <2>1 DEF Whereabouts
  <2> QED BY <2>7, <2>8, <2>9 DEF Whereabouts
<1>8. ASSUME NEW e \in Elevators, SignalCarrier(e)
      PROVE  Whereabouts'
  <2> DEFINE b == elev[e].batch
  <2>1. /\ \A x \in Elevators \ {e} : elev'[x] = elev[x]
        /\ elev'[e].at = (IF Len(elev[e].batch) > 1 THEN FirstStage(e) ELSE LoopHead)
        /\ elev'[e].batch = Tail(b) /\ elev'[e].requests = elev[e].requests
    BY <1>8, SignalEffect
  <2>2. elev[e].at = "signal" /\ carrier' = Woken({Rider(e).carrier})
    BY <1>8 DEF SignalCarrier, Rider
  <2>3. \A c \in Carriers : carrier'[c].floor = carrier[c].floor
    BY <2>2, WokenProperty DEF TransportTypes
  <2>4. elev'[e].at # "arrive"
    BY <2>1 DEF FirstStage, LoopHead
  <2>5. b \in Seq(Request(e)) /\ b # <<>>
    BY <2>2, RiderType
  <2>6. \A k \in DOMAIN Tail(b) : k + 1 \in DOMAIN b /\ k + 1 > 1 /\ Tail(b)[k] = b[k + 1]
    <3> HIDE DEF b
    <3>1. /\ DOMAIN b = 1..Len(b) /\ Len(b) \in Nat \ {0} /\ DOMAIN Tail(b) = 1..(Len(b) - 1)
          /\ \A k \in 1..(Len(b) - 1) : Tail(b)[k] = b[k + 1]
      BY <2>5, RangeHeadTail
    <3> QED BY <3>1
  <2>7. \A x \in Elevators : \A k \in DOMAIN elev'[x].batch :
          k > 1 \/ elev'[x].at # "signal" => carrier'[elev'[x].batch[k].carrier].floor = elev'[x].batch[k].from
    <3> SUFFICES ASSUME NEW x \in Elevators, NEW k \in DOMAIN elev'[x].batch, k > 1 \/ elev'[x].at # "signal"
                 PROVE  carrier'[elev'[x].batch[k].carrier].floor = elev'[x].batch[k].from
      OBVIOUS
    <3>1. CASE x = e
      <4>1. k + 1 \in DOMAIN b /\ k + 1 > 1 /\ elev'[x].batch[k] = b[k + 1]
        BY <2>1, <2>6, <3>1
      <4>2. b[k + 1].carrier \in Carriers /\ carrier[b[k + 1].carrier].floor = b[k + 1].from
        BY <1>2, <4>1 DEF Whereabouts
      <4> QED BY <2>3, <4>1, <4>2
    <3>2. CASE x # e
      <4>1. elev'[x] = elev[x]
        BY <2>1, <3>2
      <4> QED BY <1>2, <2>3, <4>1 DEF Whereabouts
    <3> QED BY <3>1, <3>2
  <2>8. \A x \in Elevators : \A r \in elev'[x].requests : carrier'[r.carrier].floor = r.from
    BY <1>1, <2>1, <2>3 DEF Whereabouts
  <2>9. \A x \in Elevators : elev'[x].at = "arrive" => Head(elev'[x].batch).from # Head(elev'[x].batch).to
    BY <2>1, <2>4 DEF Whereabouts
  <2> QED BY <2>7, <2>8, <2>9 DEF Whereabouts
<1>9. CASE Unmoved
  <2>1. \A x \in Elevators : \A k \in DOMAIN elev'[x].batch :
          k > 1 \/ elev'[x].at # "signal" => carrier'[elev'[x].batch[k].carrier].floor = elev'[x].batch[k].from
    BY <1>2, <1>9 DEF Whereabouts, Unmoved
  <2>2. \A x \in Elevators : \A r \in elev'[x].requests : carrier'[r.carrier].floor = r.from
    BY <1>1, <1>9 DEF Whereabouts, Unmoved
  <2>3. \A x \in Elevators : elev'[x].at = "arrive" => Head(elev'[x].batch).from # Head(elev'[x].batch).to
    BY <1>9 DEF Whereabouts, Unmoved
  <2> QED BY <2>1, <2>2, <2>3 DEF Whereabouts
<1> QED BY <1>3, <1>4, <1>5, <1>6, <1>7, <1>8, <1>9, MoveSteps

-----------------------------------------------------------------------------
(* The carriers counted on each floor                                      *)

\* Carriers have been numbered finitely.
LEMMA StandingFinite ==
    \A f : Standing(f) \subseteq Carriers /\ IsFiniteSet(Standing(f)) /\ Cardinality(Standing(f)) \in Nat
<1> SUFFICES ASSUME NEW f
             PROVE  Standing(f) \subseteq Carriers /\ IsFiniteSet(Standing(f)) /\ Cardinality(Standing(f)) \in Nat
  OBVIOUS
<1>1. Standing(f) \subseteq Carriers
  BY DEF Standing
<1> QED BY <1>1, TransportAssumption, FS_Subset, FS_CardinalityType

\* Nobody is born, moves or changes floors.
LEMMA StandingKept ==
    ASSUME \A c \in Carriers : /\ carrier'[c].floor = carrier[c].floor
                               /\ carrier'[c].at = "none" <=> carrier[c].at = "none",
           \A e \in Elevators : /\ elev'[e].at = "arrive" <=> elev[e].at = "arrive"
                                /\ elev[e].at = "arrive" => elev'[e].batch = elev[e].batch
    PROVE  \A f \in Floors : Standing(f)' = Standing(f)
<1>1. \A c \in Carriers : (c \in Unborn)' <=> c \in Unborn
  BY DEF Unborn
<1>2. \A c \in Carriers :
        (\A e \in Elevators : elev'[e].at = "arrive" => Head(elev'[e].batch).carrier # c)
        <=> (\A e \in Elevators : elev[e].at = "arrive" => Head(elev[e].batch).carrier # c)
  OBVIOUS
<1>3. \A f \in Floors : \A c : c \in Standing(f)' <=> c \in Standing(f)
  BY <1>1, <1>2 DEF Standing
<1> QED BY <1>3

\* The counts, the respawn flags and what they depend on stay.
StayPut ==
    /\ present' = present /\ respawn' = respawn
    /\ \A c \in Carriers : /\ carrier'[c].floor = carrier[c].floor
                           /\ carrier'[c].at = "none" <=> carrier[c].at = "none"
    /\ \A e \in Elevators : /\ elev'[e].at = "arrive" <=> elev[e].at = "arrive"
                            /\ elev[e].at = "arrive" => elev'[e].batch = elev[e].batch
                            /\ elev'[e].emptied = elev[e].emptied
                            /\ elev[e].at = "signal" => elev'[e].at = "signal"
    /\ parent'.at = "start" <=> parent.at = "start"
    /\ parent'.at = "start" => parent'.floor = parent.floor
    /\ parent'.at \in {"start", "elevators"} =>
           parent.at \in {"start", "elevators"} /\ \A e \in Elevators : elev'[e].at = elev[e].at

\* A step that does none of it keeps the population.
LEMMA PopulationKept ==
    ASSUME Population, StayPut
    PROVE  Population'
<1>1. \A f \in Floors : Standing(f)' = Standing(f)
  BY StandingKept DEF StayPut
<1>2. \A f \in Floors : present'[f] = Cardinality(Standing(f)')
  BY <1>1 DEF Population, StayPut
<1>3. \A f \in Floors : parent'.at # "start" /\ present'[f] = 0 =>
        respawn'[f] \/ \E e \in Elevators : elev'[e].emptied = f
  BY DEF Population, StayPut
<1>4. \A e \in Elevators : elev'[e].emptied # NoFloor => elev'[e].at \in {"arrive", "signal"}
  BY DEF Population, StayPut
<1>5. parent'.at \in {"start", "elevators"} => \A e \in Elevators : elev'[e].at = "none"
  BY DEF Population, StayPut
<1>6. parent'.at = "start" => \A f \in Floors : f < parent'.floor => present'[f] > 0
  BY DEF Population, StayPut
<1> QED BY <1>2, <1>3, <1>4, <1>5, <1>6 DEF Population

\* New carriers stand on their floor and are counted there.
LEMMA PopulationBorn ==
    ASSUME TransportTypes, Waiting, Population, NEW f \in Floors, NEW new \in SUBSET Unborn,
           \A c \in new : carrier'[c].at = "scan" /\ carrier'[c].floor = f,
           \A c \in Carriers \ new : carrier'[c] = carrier[c],
           elev' = elev, present' = [present EXCEPT ![f] = @ + Cardinality(new)]
    PROVE  \A g \in Floors : /\ present'[g] = Cardinality(Standing(g)')
                             /\ present'[g] = present[g] + IF g = f THEN Cardinality(new) ELSE 0
<1>1. new \subseteq Carriers /\ IsFiniteSet(new) /\ Cardinality(new) \in Nat
  <2>1. new \subseteq Carriers
    BY DEF Unborn
  <2> QED BY <2>1, TransportAssumption, FS_Subset, FS_CardinalityType
<1>2. \A c \in new : c \in Carriers /\ c \in Unborn /\ ~(c \in Unborn)'
  BY <1>1 DEF Unborn
<1>3. \A c \in Carriers \ new : (c \in Unborn)' <=> c \in Unborn
  BY DEF Unborn
<1>4. \A c \in new : \A e \in Elevators : elev[e].at = "arrive" => Head(elev[e].batch).carrier # c
  <2> SUFFICES ASSUME NEW e \in Elevators, elev[e].at = "arrive"
               PROVE  carrier[Head(elev[e].batch).carrier].at # "none"
    BY DEF Unborn
  <2>1. 1 \in DOMAIN elev[e].batch /\ Rider(e) = elev[e].batch[1]
    BY RiderType
  <2> QED BY <2>1, RidersExist DEF Rider
<1>5. Standing(f)' = Standing(f) \cup new
  <2>1. \A c \in Carriers : c \in Standing(f)' <=> c \in Standing(f) \/ c \in new
    <3> SUFFICES ASSUME NEW c \in Carriers
                 PROVE  c \in Standing(f)' <=> c \in Standing(f) \/ c \in new
      OBVIOUS
    <3>1. CASE c \in new
      BY <1>2, <1>4, <3>1 DEF Standing
    <3>2. CASE c \notin new
      BY <1>3, <3>2 DEF Standing
    <3> QED BY <3>1, <3>2
  <2> QED BY <1>1, <2>1 DEF Standing
<1>6. Standing(f) \cap new = {}
  BY <1>2 DEF Standing
<1>7. \A g \in Floors : g # f => Standing(g)' = Standing(g)
  <2> SUFFICES ASSUME NEW g \in Floors, g # f
               PROVE  \A c \in Carriers : c \in Standing(g)' <=> c \in Standing(g)
    BY DEF Standing
  <2> SUFFICES ASSUME NEW c \in Carriers
               PROVE  c \in Standing(g)' <=> c \in Standing(g)
    OBVIOUS
  <2>1. CASE c \in new
    BY <1>2, <2>1 DEF Standing
  <2>2. CASE c \notin new
    BY <1>3, <2>2 DEF Standing
  <2> QED BY <2>1, <2>2
<1>8. Cardinality(Standing(f)') = Cardinality(Standing(f)) + Cardinality(new)
  BY <1>1, <1>5, <1>6, StandingFinite, DisjointUnion
<1>9. \A g \in Floors : present[g] \in Int /\ present[g] = Cardinality(Standing(g))
  BY DEF TransportTypes, CounterTypes, Population
<1>10. present \in [Floors -> Int]
  BY DEF TransportTypes, CounterTypes
<1>11. \A g \in Floors : present'[g] = present[g] + IF g = f THEN Cardinality(new) ELSE 0
  BY <1>1, <1>10
<1>12. present'[f] = Cardinality(Standing(f)')
  BY <1>8, <1>9, <1>11
<1>13. \A g \in Floors : g # f => present'[g] = Cardinality(Standing(g)')
  BY <1>1, <1>7, <1>9, <1>11
<1> QED BY <1>11, <1>12, <1>13

\* The parent starts the processes of a floor.
LEMMA PopulationSpawnFloor ==
    ASSUME TransportTypes, Waiting, Population, SpawnFloor
    PROVE  Population'
<1>1. PICK new \in SUBSET Unborn :
         /\ Cardinality(new) = LetterCarriers
         /\ \A c \in new : carrier[c].at = "none" /\ carrier'[c].at = "scan" /\ carrier'[c].floor = parent.floor
         /\ \A c \in Carriers \ new : carrier'[c] = carrier[c]
  BY SpawnFloorEffect
<1>2. PICK f \in Floors : f = parent.floor
  BY SpawnFloorEffect
<1>3. /\ present' = [present EXCEPT ![f] = @ + LetterCarriers]
      /\ \/ parent'.at = "start" /\ parent'.floor = f + 1
         \/ parent'.at = "elevators" /\ f + 1 = NumFloors
  BY <1>2, SpawnFloorEffect
<1>4. parent.at = "start" /\ elev' = elev /\ respawn' = [respawn EXCEPT ![f] = FALSE]
  BY <1>2 DEF SpawnFloor
<1>5. \A g \in Floors : /\ present'[g] = Cardinality(Standing(g)')
                        /\ present'[g] = present[g] + IF g = f THEN LetterCarriers ELSE 0
  <2>1. \A c \in new : carrier'[c].at = "scan" /\ carrier'[c].floor = f
    BY <1>1, <1>2
  <2>2. \A c \in Carriers \ new : carrier'[c] = carrier[c]
    BY <1>1
  <2>3. present' = [present EXCEPT ![f] = @ + Cardinality(new)]
    BY <1>1, <1>3
  <2>4. \A g \in Floors : /\ present'[g] = Cardinality(Standing(g)')
                          /\ present'[g] = present[g] + IF g = f THEN Cardinality(new) ELSE 0
    BY <1>4, <2>1, <2>2, <2>3, PopulationBorn
  <2> QED BY <1>1, <2>4
<1>6. \A g \in Floors : present[g] \in Nat /\ g \in Nat
  BY StandingFinite, ConstantTypes DEF Population
<1>7. \A g \in Floors : g < f + 1 => present'[g] > 0
  <2> SUFFICES ASSUME NEW g \in Floors, g < f + 1
               PROVE  present'[g] > 0
    OBVIOUS
  <2>1. CASE g = f
    BY <1>5, <1>6, <2>1, ConstantTypes
  <2>2. CASE g # f
    <3>1. g < f
      BY <1>6, <2>2
    <3>2. present[g] > 0
      BY <1>2, <1>4, <3>1 DEF Population
    <3> QED BY <1>5, <1>6, <2>2, <3>2
  <2> QED BY <2>1, <2>2
<1>8. parent'.at # "start" => \A g \in Floors : present'[g] > 0
  BY <1>3, <1>7 DEF Floors
<1>9. \A e \in Elevators : elev'[e].at = "none" /\ elev'[e].emptied = NoFloor
  BY <1>4 DEF Population
<1> QED BY <1>3, <1>5, <1>7, <1>8, <1>9 DEF Population

\* The parent starts a carrier on a floor that lost all of them.
LEMMA PopulationSpawnCarrier ==
    ASSUME TransportTypes, Waiting, Population, SpawnCarrier
    PROVE  Population'
<1>1. PICK c \in Unborn : /\ carrier'[c].at = "scan" /\ carrier'[c].floor = parent.floor
                          /\ \A d \in Carriers \ {c} : carrier'[d] = carrier[d]
  BY SpawnCarrierEffect
<1>2. PICK f \in Floors : f = parent.floor
  BY SpawnCarrierEffect
<1>3. /\ present' = [present EXCEPT ![f] = @ + 1]
      /\ parent.at = "spawn" /\ parent'.at \in {"spawn", "loop"}
  BY <1>2, SpawnCarrierEffect
<1>4. elev' = elev /\ respawn' = [respawn EXCEPT ![f] = FALSE]
  BY <1>2 DEF SpawnCarrier
<1>5. {c} \in SUBSET Unborn /\ Cardinality({c}) = 1
  BY FS_Singleton
<1>6. \A g \in Floors : /\ present'[g] = Cardinality(Standing(g)')
                        /\ present'[g] = present[g] + IF g = f THEN Cardinality({c}) ELSE 0
  <2>1. \A d \in {c} : carrier'[d].at = "scan" /\ carrier'[d].floor = f
    BY <1>1, <1>2
  <2>2. \A d \in Carriers \ {c} : carrier'[d] = carrier[d]
    BY <1>1
  <2>3. present' = [present EXCEPT ![f] = @ + Cardinality({c})]
    BY <1>3, <1>5
  <2> QED BY <1>4, <1>5, <2>1, <2>2, <2>3, PopulationBorn
<1>7. \A g \in Floors : present[g] \in Nat
  BY StandingFinite DEF Population
<1>8. \A g \in Floors : present'[g] = 0 => present[g] = 0 /\ g # f
  BY <1>5, <1>6, <1>7
<1>9. \A g \in Floors : g # f => respawn'[g] = respawn[g]
  BY <1>4 DEF TransportTypes, CounterTypes
<1>10. \A g \in Floors : present'[g] = 0 => respawn'[g] \/ \E e \in Elevators : elev'[e].emptied = g
  BY <1>3, <1>4, <1>8, <1>9 DEF Population
<1> QED BY <1>3, <1>4, <1>6, <1>10 DEF Population

\* An elevator under way was started.
LEMMA ElevatorStarted ==
    ASSUME Population, NEW e \in Elevators, elev[e].at # "none"
    PROVE  parent.at \notin {"start", "elevators"}
BY DEF Population

\* The rider's old floor loses it; who empties the floor will look again.
LEMMA PopulationLeave ==
    ASSUME TransportTypes, OneRide, Waiting, Whereabouts, Population, NEW e \in Elevators, LeaveFloor(e)
    PROVE  Population'
<1>1. elev[e].at = "leave" /\ respawn' = respawn
  BY DEF LeaveFloor
<1>2. carrier' = carrier /\ parent' = parent
  BY LeaveFrame
<1>3. 1 \in DOMAIN elev[e].batch /\ Rider(e) = elev[e].batch[1] /\ Rider(e).carrier \in Carriers
  BY <1>1, RiderType
<1>4. PICK c \in Carriers : c = Rider(e).carrier
  BY <1>3
<1>5. PICK f \in Floors : f = carrier[c].floor
  BY DEF TransportTypes, CarrierTypes, CarrierState
<1>6. /\ \A x \in Elevators \ {e} : elev'[x] = elev[x]
      /\ elev'[e].batch = elev[e].batch
      /\ IF f = Rider(e).to
         THEN elev'[e].at = "signal" /\ elev'[e].emptied = elev[e].emptied /\ present' = present
         ELSE /\ elev'[e].at = "arrive"
              /\ elev'[e].emptied = IF present[f] = 1 THEN f ELSE NoFloor
              /\ present' = [present EXCEPT ![f] = @ - 1]
  BY <1>4, <1>5, LeaveEffect
<1>7. parent.at \notin {"start", "elevators"}
  BY <1>1, ElevatorStarted
<1>8. elev[e].emptied = NoFloor
  BY <1>1 DEF Population
<1>9. CASE f = Rider(e).to
  <2>1. StayPut
    BY <1>1, <1>2, <1>6, <1>7, <1>9 DEF StayPut
  <2> QED BY <2>1, PopulationKept
<1>10. CASE f # Rider(e).to
  <2>1. /\ elev'[e].at = "arrive" /\ elev'[e].emptied = IF present[f] = 1 THEN f ELSE NoFloor
        /\ present' = [present EXCEPT ![f] = @ - 1]
    BY <1>6, <1>10
  <2>2. carrier[c].at # "none"
    BY <1>3, <1>4, RidersExist
  <2>3. \A x \in Elevators \ {e} : elev[x].at = "arrive" => Head(elev[x].batch).carrier # c
    <3> SUFFICES ASSUME NEW x \in Elevators, x # e, elev[x].at = "arrive"
                 PROVE  Head(elev[x].batch).carrier # c
      OBVIOUS
    <3>1. 1 \in DOMAIN elev[x].batch /\ Rider(x) = elev[x].batch[1]
      BY RiderType
    <3> QED BY <1>3, <1>4, <3>1 DEF OneRide, Rider
  <2>4. c \in Standing(f)
    BY <1>1, <1>5, <2>2, <2>3 DEF Standing, Unborn
  <2>5. \A d \in Carriers : d # c =>
          ((\A x \in Elevators : elev'[x].at = "arrive" => Head(elev'[x].batch).carrier # d)
           <=> (\A x \in Elevators : elev[x].at = "arrive" => Head(elev[x].batch).carrier # d))
    BY <1>1, <1>4, <1>6, <2>1 DEF Rider
  <2>6. ~ \A x \in Elevators : elev'[x].at = "arrive" => Head(elev'[x].batch).carrier # c
    BY <1>4, <1>6, <2>1 DEF Rider
  <2>7. \A g \in Floors : \A d \in Carriers : d \in Standing(g)' <=> d \in Standing(g) /\ d # c
    <3> SUFFICES ASSUME NEW g \in Floors, NEW d \in Carriers
                 PROVE  d \in Standing(g)' <=> d \in Standing(g) /\ d # c
      OBVIOUS
    <3>1. CASE d = c
      BY <2>6, <3>1 DEF Standing
    <3>2. CASE d # c
      BY <1>2, <2>5, <3>2 DEF Standing, Unborn
    <3> QED BY <3>1, <3>2
  <2>8. Standing(f)' = Standing(f) \ {c}
    BY <2>7 DEF Standing
  <2>9. \A g \in Floors : g # f => Standing(g)' = Standing(g)
    <3> SUFFICES ASSUME NEW g \in Floors, g # f
                 PROVE  \A d \in Carriers : d \in Standing(g)' <=> d \in Standing(g)
      BY DEF Standing
    <3>1. c \notin Standing(g)
      BY <1>5 DEF Standing
    <3> QED BY <2>7, <3>1
  <2>10. Cardinality(Standing(f) \ {c}) = Cardinality(Standing(f)) - 1
    BY <2>4, StandingFinite, FS_RemoveElement
  <2>11. \A g \in Floors : present[g] = Cardinality(Standing(g)) /\ present[g] \in Nat
    BY StandingFinite DEF Population
  <2>12. present'[f] = present[f] - 1 /\ \A g \in Floors : g # f => present'[g] = present[g]
    BY <2>1 DEF TransportTypes, CounterTypes
  <2>13. \A g \in Floors : present'[g] = Cardinality(Standing(g)')
    BY <2>8, <2>9, <2>10, <2>11, <2>12
  <2>14. \A g \in Floors : parent'.at # "start" /\ present'[g] = 0 =>
           respawn'[g] \/ \E x \in Elevators : elev'[x].emptied = g
    <3> SUFFICES ASSUME NEW g \in Floors, present'[g] = 0
                 PROVE  respawn'[g] \/ \E x \in Elevators : elev'[x].emptied = g
      OBVIOUS
    <3>1. CASE g = f
      <4>1. present[f] = 1
        BY <2>11, <2>12, <3>1
      <4> QED BY <2>1, <3>1, <4>1
    <3>2. CASE g # f
      <4>1. respawn[g] \/ \E x \in Elevators : elev[x].emptied = g
        BY <1>7, <2>12, <3>2 DEF Population
      <4>2. g # NoFloor
        BY ConstantTypes
      <4> QED BY <1>1, <1>6, <1>8, <4>1, <4>2
    <3> QED BY <3>1, <3>2
  <2>15. \A x \in Elevators : elev'[x].emptied # NoFloor => elev'[x].at \in {"arrive", "signal"}
    BY <1>6, <2>1 DEF Population
  <2> QED BY <1>2, <1>7, <2>13, <2>14, <2>15 DEF Population
<1> QED BY <1>9, <1>10

\* The rider is counted on its new floor.
LEMMA PopulationArrive ==
    ASSUME TransportTypes, OneRide, Waiting, Whereabouts, Population, NEW e \in Elevators, ArriveAtFloor(e)
    PROVE  Population'
<1>1. elev[e].at = "arrive"
  BY DEF ArriveAtFloor
<1>2. /\ 1 \in DOMAIN elev[e].batch /\ Rider(e) = elev[e].batch[1]
      /\ Rider(e).carrier \in Carriers /\ Rider(e).to \in Floors
  BY <1>1, RiderType
<1>3. PICK c \in Carriers : c = Rider(e).carrier
  BY <1>2
<1>4. PICK f \in Floors : f = Rider(e).to
  BY <1>2
<1>5. /\ present' = [present EXCEPT ![f] = @ + 1] /\ respawn' = [respawn EXCEPT ![f] = FALSE]
      /\ parent' = parent
  BY <1>4 DEF ArriveAtFloor, Rider, endVars
<1>6. /\ \A x \in Elevators \ {e} : elev'[x] = elev[x]
      /\ elev'[e].at = "signal" /\ elev'[e].emptied = elev[e].emptied
      /\ carrier'[c] = [carrier[c] EXCEPT !.floor = f]
      /\ \A d \in Carriers \ {c} : carrier'[d] = carrier[d]
      /\ \A d \in Carriers : carrier'[d].at = carrier[d].at
  BY <1>3, <1>4, ArriveEffect
<1>7. parent.at \notin {"start", "elevators"}
  BY <1>1, ElevatorStarted
<1>8. carrier[c].at # "none" /\ carrier'[c].floor = f
  <2>1. carrier[c].at # "none"
    BY <1>2, <1>3, RidersExist
  <2> QED BY <1>6, <2>1 DEF TransportTypes, CarrierTypes, CarrierState
<1>9. \A x \in Elevators \ {e} : elev[x].at = "arrive" => Head(elev[x].batch).carrier # c
  <2> SUFFICES ASSUME NEW x \in Elevators, x # e, elev[x].at = "arrive"
               PROVE  Head(elev[x].batch).carrier # c
    OBVIOUS
  <2>1. 1 \in DOMAIN elev[x].batch /\ Rider(x) = elev[x].batch[1]
    BY RiderType
  <2> QED BY <1>2, <1>3, <2>1 DEF OneRide, Rider
<1>10. \A g \in Floors : c \notin Standing(g)
  BY <1>1, <1>3 DEF Standing, Rider
<1>11. \A x \in Elevators : elev'[x].at = "arrive" => Head(elev'[x].batch).carrier # c
  BY <1>6, <1>9
<1>12. \A d \in Carriers : d # c =>
         ((\A x \in Elevators : elev'[x].at = "arrive" => Head(elev'[x].batch).carrier # d)
          <=> (\A x \in Elevators : elev[x].at = "arrive" => Head(elev[x].batch).carrier # d))
  BY <1>3, <1>6 DEF Rider
<1>13. \A g \in Floors : \A d \in Carriers : d # c => (d \in Standing(g)' <=> d \in Standing(g))
  BY <1>6, <1>12 DEF Standing, Unborn
<1>14. Standing(f)' = Standing(f) \cup {c}
  <2>1. c \in Standing(f)'
    BY <1>6, <1>8, <1>11 DEF Standing, Unborn
  <2>2. \A d \in Standing(f)' : d \in Carriers
    BY DEF Standing
  <2>3. \A d \in Standing(f) : d \in Carriers
    BY DEF Standing
  <2> QED BY <1>13, <2>1, <2>2, <2>3
<1>15. \A g \in Floors : g # f => Standing(g)' = Standing(g)
  <2> SUFFICES ASSUME NEW g \in Floors, g # f
               PROVE  \A d \in Carriers : d \in Standing(g)' <=> d \in Standing(g)
    BY DEF Standing
  <2>1. c \notin Standing(g)'
    BY <1>8 DEF Standing
  <2> QED BY <1>10, <1>13, <2>1
<1>16. Cardinality(Standing(f) \cup {c}) = Cardinality(Standing(f)) + 1
  BY <1>10, StandingFinite, FS_AddElement
<1>17. \A g \in Floors : present[g] = Cardinality(Standing(g)) /\ present[g] \in Nat
  BY StandingFinite DEF Population
<1>18. present'[f] = present[f] + 1 /\ \A g \in Floors : g # f => present'[g] = present[g] /\ respawn'[g] = respawn[g]
  BY <1>5 DEF TransportTypes, CounterTypes
<1>19. \A g \in Floors : present'[g] = Cardinality(Standing(g)')
  BY <1>14, <1>15, <1>16, <1>17, <1>18
<1>20. \A g \in Floors : present'[g] = 0 => g # f
  BY <1>17, <1>18
<1>21. \A x \in Elevators : elev'[x].emptied = elev[x].emptied
  BY <1>6
<1>22. \A g \in Floors : parent'.at # "start" /\ present'[g] = 0 =>
         respawn'[g] \/ \E x \in Elevators : elev'[x].emptied = g
  BY <1>5, <1>18, <1>20, <1>21 DEF Population
<1>23. \A x \in Elevators : elev'[x].emptied # NoFloor => elev'[x].at \in {"arrive", "signal"}
  BY <1>6 DEF Population
<1> QED BY <1>5, <1>7, <1>19, <1>22, <1>23 DEF Population

\* The second look at the old floor asks for carriers if there are still none.
LEMMA PopulationSignal ==
    ASSUME TransportTypes, Population, NEW e \in Elevators, SignalCarrier(e)
    PROVE  Population'
<1>1. /\ elev[e].at = "signal" /\ carrier' = Woken({Rider(e).carrier})
      /\ respawn' = (IF StillEmpty(e) THEN [respawn EXCEPT ![elev[e].emptied] = TRUE] ELSE respawn)
      /\ present' = present /\ parent' = parent
  BY DEF SignalCarrier, Rider, endVars
<1>2. /\ \A x \in Elevators \ {e} : elev'[x] = elev[x]
      /\ elev'[e].at = (IF Len(elev[e].batch) > 1 THEN FirstStage(e) ELSE LoopHead)
      /\ elev'[e].emptied = NoFloor
  BY SignalEffect
<1>3. elev'[e].at \notin {"arrive", "signal"}
  BY <1>2 DEF FirstStage, LoopHead
<1>4. \A c \in Carriers : /\ carrier'[c].floor = carrier[c].floor
                          /\ carrier'[c].at = "none" <=> carrier[c].at = "none"
  BY <1>1, WokenProperty DEF TransportTypes
<1>5. \A f \in Floors : Standing(f)' = Standing(f)
  BY <1>1, <1>2, <1>3, <1>4, StandingKept
<1>6. parent.at \notin {"start", "elevators"}
  BY <1>1, ElevatorStarted
<1>7. \A f \in Floors : /\ respawn[f] => respawn'[f]
                        /\ elev[e].emptied = f /\ present[f] = 0 => respawn'[f]
  BY <1>1, ConstantTypes DEF StillEmpty, TransportTypes, CounterTypes
<1>8. \A f \in Floors : present[f] = 0 => respawn'[f] \/ \E x \in Elevators : elev'[x].emptied = f
  <2> SUFFICES ASSUME NEW f \in Floors, present[f] = 0
               PROVE  respawn'[f] \/ \E x \in Elevators : elev'[x].emptied = f
    OBVIOUS
  <2>1. respawn[f] \/ \E x \in Elevators : elev[x].emptied = f
    BY <1>6 DEF Population
  <2> QED BY <1>2, <1>7, <2>1
<1>9. \A x \in Elevators : elev'[x].emptied # NoFloor => elev'[x].at \in {"arrive", "signal"}
  BY <1>2 DEF Population
<1> QED BY <1>1, <1>5, <1>6, <1>8, <1>9 DEF Population

\* Picking a letter up or putting it down moves nobody.
LEMMA HandsStayPut ==
    ASSUME TransportTypes, NEW c \in Carriers, ClaimLetter(c) \/ PlaceHere(c)
    PROVE  StayPut
<1>1. /\ carrier[c].at # "none" /\ carrier'[c].at # "none" /\ carrier'[c].floor = carrier[c].floor
      /\ \A d \in Carriers \ {c} : carrier'[d] = carrier[d]
  BY ClaimLetterEffect, PlaceHereEffect
<1>2. elev' = elev /\ parent' = parent /\ present' = present /\ respawn' = respawn
  BY ClaimLetterFrame, PlaceHereFrame
<1> QED BY <1>1, <1>2 DEF StayPut

\* A request moves nobody.
LEMMA RequestsStayPut ==
    ASSUME TransportTypes, NEW c \in Carriers, RequestDelivery(c) \/ \E f \in Floors : RequestReposition(c, f)
    PROVE  StayPut
<1>1. /\ carrier[c].at # "none" /\ carrier'[c].at # "none" /\ carrier'[c].floor = carrier[c].floor
      /\ \A d \in Carriers \ {c} : carrier'[d] = carrier[d]
      /\ \A x \in Elevators : elev'[x].at = elev[x].at /\ elev'[x].batch = elev[x].batch
                              /\ elev'[x].emptied = elev[x].emptied
  BY RequestDeliveryEffect, RequestRepositionEffect DEF AwaitRide
<1>2. present' = present /\ respawn' = respawn /\ parent' = parent
  BY DEF RequestDelivery, RequestReposition, floorVars, endVars
<1> QED BY <1>1, <1>2 DEF StayPut

\* Collecting and handing over moves nobody.
LEMMA ElevatorsStayPut ==
    ASSUME TransportTypes, Population, NEW e \in Elevators, Collect(e) \/ Deliver(e)
    PROVE  StayPut
<1>1. elev[e].at \in {"idle", "deliver"}
  BY CollectFrame, DeliverFrame
<1>2. /\ \A x \in Elevators \ {e} : elev'[x] = elev[x]
      /\ elev'[e].at \in {"deliver", "leave"} /\ elev'[e].emptied = elev[e].emptied
  BY CollectEffect, DeliverEffect DEF FirstStage
<1>3. UNCHANGED <<carrier, parent, present, respawn>>
  BY CollectFrame, DeliverFrame
<1>4. parent.at \notin {"start", "elevators"}
  BY <1>1, ElevatorStarted
<1> QED BY <1>1, <1>2, <1>3, <1>4 DEF StayPut

\* The parent moves nobody.
LEMMA ParentStaysPut ==
    ASSUME TransportTypes, Population, StartElevators \/ EndLoop \/ ParentOnly
    PROVE  StayPut
<1>1. CASE StartElevators
  <2>1. parent.at = "elevators" /\ UNCHANGED <<carrier, present, respawn>>
    BY <1>1 DEF StartElevators, floorVars
  <2>2. \A e \in Elevators : elev[e].at = "none"
    BY <2>1 DEF Population
  <2>3. /\ \A e \in Elevators : elev'[e].at \notin {"arrive", "signal"} /\ elev'[e].emptied = elev[e].emptied
        /\ parent'.at = "loop"
    BY <1>1, <2>2, StartElevatorsEffect DEF LoopHead
  <2> QED BY <2>1, <2>2, <2>3 DEF StayPut
<1>2. CASE EndLoop
  <2>1. UNCHANGED <<elev, present, respawn>>
    BY <1>2 DEF EndLoop, floorVars
  <2>2. /\ parent.at = "loop" /\ parent'.at = "report"
        /\ \A c \in Carriers : /\ carrier'[c].floor = carrier[c].floor
                               /\ carrier'[c].at = IF carrier[c].at = "wait" THEN "scan" ELSE carrier[c].at
    BY <1>2, EndLoopEffect
  <2> QED BY <2>1, <2>2 DEF StayPut
<1>3. CASE ParentOnly
  BY <1>3, ParentOnlyEffect DEF StayPut
<1> QED BY <1>1, <1>2, <1>3

\* Every step keeps the counts exact and no floor forgotten.
LEMMA PopulationStep ==
    ASSUME TransportTypes, OneRide, Waiting, Whereabouts, Population, [Next]_vars
    PROVE  Population'
<1>1. ASSUME UNCHANGED <<carrier, elev, parent, present, respawn>>
      PROVE  Population'
  <2>1. StayPut
    BY <1>1 DEF StayPut
  <2> QED BY <2>1, PopulationKept
<1>2. CASE \E p \in WProcs : WordCarrierStep(p)
  BY <1>1, <1>2 DEF WordCarrierStep, ClaimWord, AdmitWord, floorVars, endVars
<1>3. ASSUME NEW s \in Sorters, SorterStep(s)
      PROVE  Population'
  <2>1. CASE SortWord(s)
    BY <1>1, <2>1 DEF SortWord, floorVars, endVars
  <2>2. CASE ReadCompleted(s) \/ WriteCompleted(s)
    BY <1>1, <2>2 DEF ReadCompleted, WriteCompleted, floorVars, endVars
  <2>3. CASE ReleaseFloors(s)
    BY <1>1, <2>3 DEF ReleaseFloors, endVars
  <2> QED BY <1>3, <2>1, <2>2, <2>3 DEF SorterStep
<1>4. CASE \E c \in Carriers : LetterCarrierStep(c)
  BY <1>4, HandsStayPut, RequestsStayPut, PopulationKept DEF LetterCarrierStep
<1>5. CASE \E e \in Elevators : ElevatorStep(e)
  BY <1>5, ElevatorsStayPut, PopulationKept, PopulationLeave, PopulationArrive, PopulationSignal DEF ElevatorStep
<1>6. CASE ParentStep \/ Interrupt \/ ReapInterrupted
  BY <1>6, ParentStaysPut, PopulationKept, PopulationSpawnFloor, PopulationSpawnCarrier DEF ParentStep, ParentOnly
<1>7. CASE UNCHANGED vars
  BY <1>1, <1>7 DEF vars, floorVars, endVars
<1> QED BY <1>2, <1>3, <1>4, <1>5, <1>6, <1>7 DEF Next

-----------------------------------------------------------------------------
(* The theorems                                                            *)

\* Every step keeps the types.
LEMMA TypesStep ==
    ASSUME TransportTypes, Completion, Areas, Population, [Next]_vars
    PROVE  TransportTypes'
<1>1. CASE \E p \in WProcs : WordCarrierStep(p)
  BY <1>1, ClaimWordEffect, AdmitWordEffect, Zenon DEF WordCarrierStep
<1>2. ASSUME NEW c \in Carriers, LetterCarrierStep(c)
      PROVE  TransportTypes'
  <2>1. CASE ClaimLetter(c)
    BY <2>1, ClaimLetterEffect
  <2>2. CASE PlaceHere(c)
    BY <2>2, PlaceHereEffect
  <2>3. CASE RequestDelivery(c)
    BY <2>3, RequestDeliveryEffect
  <2>4. CASE \E f \in Floors : RequestReposition(c, f)
    BY <2>4, RequestRepositionEffect
  <2> QED BY <1>2, <2>1, <2>2, <2>3, <2>4 DEF LetterCarrierStep
<1>3. CASE \E e \in Elevators : ElevatorStep(e)
  BY <1>3, CollectEffect, DeliverEffect, LeaveEffect, ArriveEffect, SignalEffect DEF ElevatorStep
<1>4. ASSUME NEW s \in Sorters, SorterStep(s)
      PROVE  TransportTypes'
  <2>1. CASE SortWord(s)
    BY <2>1, SortWordEffect, Zenon
  <2>2. CASE ReadCompleted(s)
    BY <2>2, ReadEffect, Zenon
  <2>3. CASE WriteCompleted(s)
    BY <2>3, WriteEffect
  <2>4. CASE ReleaseFloors(s)
    BY <2>4, ReleaseEffect
  <2> QED BY <1>4, <2>1, <2>2, <2>3, <2>4 DEF SorterStep
<1>5. CASE StartElevators
  <2>1. \A e \in Elevators : elev[e].at = "none"
    BY <1>5 DEF StartElevators, Population
  <2> QED BY <1>5, <2>1, StartElevatorsEffect
<1>6. CASE SpawnFloor \/ SpawnCarrier \/ EndLoop \/ ParentOnly
  BY <1>6, SpawnFloorEffect, SpawnCarrierEffect, EndLoopEffect, ParentOnlyEffect
<1>7. CASE UNCHANGED vars
  BY <1>7 DEF vars, floorVars, endVars, TransportTypes, WordTypes, ElevatorTypes, BatchTypes, CarrierTypes,
     CounterTypes, EndTypes
<1> QED BY <1>1, <1>2, <1>3, <1>4, <1>5, <1>6, <1>7 DEF Next, ParentStep, ParentOnly

\* At the start nothing is claimed, carried or asked for.
LEMMA TransportInit == Init => TransportInv /\ CapacityRespected
<1> HAVE Init
<1>1. TransportTypes
  BY TypesInit
<1>2. /\ \A w \in Words : words[w] = NewWord(w)
      /\ \A p \in WProcs : wproc[p] = NotStarted
      /\ \A c \in Carriers : carrier[c].at = "none"
      /\ \A s \in Sorters : sorter[s].at = "none"
      /\ \A e \in Elevators : elev[e].at = "none" /\ elev[e].requests = {} /\ elev[e].batch = <<>>
                              /\ elev[e].emptied = NoFloor
      /\ \A f \in Floors : active[f] = 0 /\ present[f] = 0
      /\ completed = 0 /\ ~output /\ parent.at = "start" /\ parent.floor = 0
  BY DEF Init
<1>3. \A w \in Words : /\ ~words[w].claimed /\ ~words[w].admitted /\ ~words[w].completed /\ ~words[w].reserved
                       /\ words[w].fixed = {}
                       /\ \A i \in Letters(w) : words[w].letter[i] = "home" /\ words[w].meta[i] = 0
  <2> SUFFICES ASSUME NEW w \in Words
               PROVE  /\ ~words[w].claimed /\ ~words[w].admitted /\ ~words[w].completed /\ ~words[w].reserved
                      /\ words[w].fixed = {}
                      /\ \A i \in Letters(w) : words[w].letter[i] = "home" /\ words[w].meta[i] = 0
    OBVIOUS
  <2>1. words[w] = NewWord(w)
    BY <1>2
  <2>2. words[w].letter = [i \in Letters(w) |-> "home"] /\ words[w].meta = [i \in Letters(w) |-> 0]
    BY <2>1 DEF NewWord
  <2> QED BY <2>1, <2>2 DEF NewWord
<1>4. Admission
  BY <1>2, <1>3, ConstantTypes DEF Admission
<1>5. Completion
  BY <1>2 DEF Completion, Busy
<1>6. Counting
  <2>1. Written = {}
    BY <1>3 DEF Written
  <2> QED BY <1>2, <2>1, FS_EmptySet DEF Counting
<1>7. Areas
  BY <1>3 DEF Areas, Letters
<1>8. \A e \in Elevators : DOMAIN elev[e].batch = {}
  BY <1>2
<1>9. Load = {}
  BY <1>2 DEF Load, Riding, Elevators
<1>10. Transit
  BY <1>2, <1>3, <1>9 DEF Transit
<1>11. OneRide
  BY <1>2, <1>8 DEF OneRide, Queued, Rides1
<1>12. Waiting
  BY <1>2, <1>8 DEF Waiting, Queued, Rides1, Finishing
<1>13. Whereabouts
  BY <1>2, <1>8 DEF Whereabouts
<1>14. Population
  <2>1. \A f \in Floors : Standing(f) = {}
    BY <1>2 DEF Standing, Unborn
  <2>2. \A f \in Floors : ~(f < 0)
    BY ConstantTypes
  <2> QED BY <1>2, <2>1, <2>2, FS_EmptySet DEF Population
<1>15. CapacityRespected
  <2>1. \A f \in Floors : {w \in Words : words[w].reserved /\ f \in Occupies(w, words[w].arrival)} = {}
    BY <1>3
  <2>2. MaxWordsPerFloor \in Nat
    BY TransportAssumption
  <2>3. Cardinality({}) = 0
    BY FS_EmptySet
  <2>4. \A f \in Floors :
          Cardinality({w \in Words : words[w].reserved /\ f \in Occupies(w, words[w].arrival)}) = 0
    BY <2>1, <2>3
  <2> QED BY <1>2, <2>2, <2>4 DEF CapacityRespected
<1> QED BY <1>1, <1>4, <1>5, <1>6, <1>7, <1>10, <1>11, <1>12, <1>13, <1>14, <1>15 DEF TransportInv

\* Every step keeps the invariant.
LEMMA TransportStep ==
    ASSUME TransportInv, CapacityRespected, [Next]_vars
    PROVE  TransportInv' /\ CapacityRespected'
<1> USE DEF TransportInv
<1>1. TransportTypes'
  BY TypesStep
<1>2. Admission' /\ Completion'
  BY AdmissionStep
<1>3. Counting' /\ CapacityRespected'
  BY CountingStep, CapacityStep
<1>4. Areas' /\ Transit'
  BY AreasStep, TransitStep
<1>5. OneRide' /\ Waiting'
  BY RidesStep
<1>6. Whereabouts' /\ Population'
  BY WhereaboutsStep, PopulationStep
<1> QED BY <1>1, <1>2, <1>3, <1>4, <1>5, <1>6

\* The inductive invariant of the shared region holds in every reachable state,
\* whatever the number of floors, words, letters and processes.
THEOREM TransportCorrect == Spec => [](TransportInv /\ CapacityRespected)
<1>1. TransportInv /\ CapacityRespected /\ [Next]_vars => (TransportInv /\ CapacityRespected)'
  BY TransportStep
<1> QED BY <1>1, TransportInit, PTL DEF Spec

\* Admission is all or nothing: a floor never holds more words than its
\* capacity, and active_words counts exactly the words with a place there
\* (word_carrier.c, shared_memory.c).
THEOREM CapacityIsRespected == Spec => []CapacityRespected
BY TransportCorrect, PTL

\* The letters in transit are in exactly one hand, request or ride.
LEMMA OneHand ==
    ASSUME TransportInv, NEW w \in Words, NEW i \in Letters(w)
    PROVE  Cardinality(Hands(w, i)) = IF words[w].letter[i] = "transit" THEN 1 ELSE 0
<1> DEFINE held == {c \in Carriers : Holds(c, w, i)}
           carried == {r \in Load : IsFor(r, w, i)}
<1>1. \A x : x \in Hands(w, i) <=> x \in held \/ \E r \in carried : x = r.carrier
  BY DEF Hands, Load, Holds, IsFor
<1>2. Transit
  BY DEF TransportInv
<1>3. \A c \in held : words[w].letter[i] = "transit"
  BY <1>2 DEF Transit, Holds
<1>4. \A r \in carried : words[w].letter[i] = "transit"
  BY <1>2 DEF Transit, IsFor
<1>5. CASE words[w].letter[i] # "transit"
  <2>1. Hands(w, i) = {}
    BY <1>1, <1>3, <1>4, <1>5
  <2> QED BY <1>5, <2>1, FS_EmptySet
<1>6. CASE words[w].letter[i] = "transit"
  <2>1. \A c, d \in held : c = d
    BY <1>2 DEF Transit, Holds
  <2>2. \A r, q \in carried : r = q
    BY <1>2 DEF Transit, IsFor
  <2>3. held = {} \/ carried = {}
    BY <1>2 DEF Transit, Holds, IsFor
  <2>4. (\E c \in Carriers : Holds(c, w, i)) \/ (\E r \in Load : IsFor(r, w, i))
    BY <1>2, <1>6 DEF Transit
  <2>5. held # {} \/ carried # {}
    BY <2>4
  <2> HIDE DEF held, carried
  <2>6. PICK x : x \in Hands(w, i)
    BY <1>1, <2>5
  <2>7. \A y \in Hands(w, i) : y = x
    BY <1>1, <2>1, <2>2, <2>3, <2>6
  <2> QED BY <1>6, <2>6, <2>7, ExactlyOne
<1> QED BY <1>5, <1>6

\* A delivered letter is in exactly one slot of the sorting area.
LEMMA OneSlot ==
    ASSUME TransportInv, NEW w \in Words, NEW i \in Letters(w)
    PROVE  Cardinality({k \in Letters(w) : words[w].meta[k] = i}) =
               IF words[w].letter[i] = "placed" THEN 1 ELSE 0
<1> DEFINE slots == {k \in Letters(w) : words[w].meta[k] = i}
<1>1. /\ words[w].letter[i] = "placed" <=> \E k \in Letters(w) : words[w].meta[k] = i
      /\ \A j, k \in Letters(w) : words[w].meta[j] = words[w].meta[k] /\ words[w].meta[j] # 0 => j = k
  BY DEF TransportInv, Areas
<1>2. i # 0
  BY DEF Letters
<1>3. \A j, k \in slots : j = k
  BY <1>1, <1>2
<1>4. CASE words[w].letter[i] = "placed"
  <2>1. PICK k : k \in slots
    BY <1>1, <1>4
  <2>2. \A j \in slots : j = k
    BY <1>3, <2>1
  <2> HIDE DEF slots
  <2>3. Cardinality(slots) = 1
    BY <2>1, <2>2, ExactlyOne
  <2> QED BY <1>4, <2>3 DEF slots
<1>5. CASE words[w].letter[i] # "placed"
  <2>1. slots = {}
    BY <1>1, <1>5
  <2> QED BY <1>5, <2>1, FS_EmptySet
<1> QED BY <1>4, <1>5

\* No letter is lost or doubled: it is on its floor, in one hand, request or
\* ride, or in one slot, whatever elevators and sorters do meanwhile
\* (letter_carrier.c, elevator.c, sorting.c).
THEOREM LettersAreConserved == Spec => []LettersConserved
<1>1. TransportInv => LettersConserved
  BY OneHand, OneSlot DEF LettersConserved
<1> QED BY <1>1, TransportCorrect, PTL

\* The output file is written only when every word is complete and in order,
\* although completed_words is incremented without a lock (shared_memory.c, hw3.c).
THEOREM OutputOnlyComplete == Spec => []OutputIsComplete
<1>1. TransportInv => OutputIsComplete
  <2> SUFFICES ASSUME TransportInv, output, NEW w \in Words
               PROVE  /\ words[w].completed
                      /\ \A i \in Letters(w) : words[w].meta[i] = i /\ Hands(w, i) = {}
    BY DEF OutputIsComplete
  <2>1. words[w].completed
    BY DEF TransportInv, Counting
  <2>2. words[w].fixed = Letters(w) /\ \A k \in Letters(w) : words[w].meta[k] = k
    BY <2>1 DEF TransportInv, Areas
  <2>3. \A i \in Letters(w) : words[w].letter[i] = "placed"
    BY <2>2 DEF TransportInv, Areas
  <2>4. \A i \in Letters(w) : Hands(w, i) = {}
    <3> SUFFICES ASSUME NEW i \in Letters(w), NEW x \in Hands(w, i)
                 PROVE  FALSE
      OBVIOUS
    <3>1. (\E c \in Carriers : Holds(c, w, i)) \/ (\E r \in Load : IsFor(r, w, i))
      BY DEF Hands, Load, Holds, IsFor
    <3>2. words[w].letter[i] = "transit"
      BY <3>1 DEF TransportInv, Transit, Holds, IsFor
    <3> QED BY <2>3, <3>2
  <2> QED BY <2>1, <2>2, <2>4
<1> QED BY <1>1, TransportCorrect, PTL

\* A carrier that waits has exactly one request or ride that will wake it, and
\* nobody else has one; after wake_all nobody waits (letter_carrier.c,
\* elevator.c, hw3.c).
THEOREM WaitersWillBeServed == Spec => []WaitersAreServed
<1>1. TransportInv => WaitersAreServed
  <2> SUFFICES ASSUME TransportInv
               PROVE  WaitersAreServed
    OBVIOUS
  <2>1. OneRide /\ Waiting
    BY DEF TransportInv
  <2>2. CASE parent.at \in {"report", "reap", "ended", "aborted"}
    BY <2>1, <2>2 DEF Waiting, Finishing, WaitersAreServed
  <2>3. CASE parent.at \notin {"report", "reap", "ended", "aborted"}
    <3> SUFFICES ASSUME NEW c \in Carriers
                 PROVE  Cardinality(Wakers(c)) = IF carrier[c].at = "wait" THEN 1 ELSE 0
      BY <2>3 DEF WaitersAreServed
    <3>1. \A x : x \in Wakers(c) <=> \/ \E e \in Elevators : Queued(e, c) /\ x = <<"queue", e>>
                                     \/ \E e \in Elevators : Rides1(e, c) /\ x = <<"ride", e>>
      BY DEF Wakers, Queued, Rides1
    <3>2. \A e, d \in Elevators : Queued(e, c) /\ Queued(d, c) => e = d
      BY <2>1 DEF OneRide, Queued
    <3>3. \A e, d \in Elevators : Rides1(e, c) /\ Rides1(d, c) => e = d
      BY <2>1 DEF OneRide, Rides1
    <3>4. \A e, d \in Elevators : ~(Queued(e, c) /\ Rides1(d, c))
      BY <2>1 DEF OneRide
    <3>5. \A e \in Elevators : Queued(e, c) \/ Rides1(e, c) => carrier[c].at = "wait"
      BY <2>1, <2>3 DEF Waiting, Waits, Finishing
    <3>6. CASE carrier[c].at # "wait"
      <4>1. Wakers(c) = {}
        BY <3>1, <3>5, <3>6
      <4> QED BY <3>6, <4>1, FS_EmptySet
    <3>7. CASE carrier[c].at = "wait"
      <4>1. \E e \in Elevators : Queued(e, c) \/ Rides1(e, c)
        BY <2>1, <3>7 DEF Waiting
      <4>2. PICK x : x \in Wakers(c)
        BY <3>1, <4>1
      <4>3. \A y \in Wakers(c) : y = x
        BY <3>1, <3>2, <3>3, <3>4, <4>2
      <4> QED BY <3>7, <4>2, <4>3, ExactlyOne
    <3> QED BY <3>6, <3>7
  <2> QED BY <2>2, <2>3
<1> QED BY <1>1, TransportCorrect, PTL

\* The carriers of a floor are those that stand there and those on their way
\* from it, one for every elevator between its two floor locks.
LEMMA FloorCount ==
    ASSUME TransportInv, NEW f \in Floors
    PROVE  present[f] = Cardinality({c \in Carriers \ Unborn : carrier[c].floor = f})
                        - Cardinality({e \in Elevators : elev[e].at = "arrive" /\ Head(elev[e].batch).from = f})
<1> DEFINE here    == {c \in Carriers \ Unborn : carrier[c].floor = f}
           leaving == {e \in Elevators : elev[e].at = "arrive" /\ Head(elev[e].batch).from = f}
           rider   == [e \in leaving |-> Rider(e).carrier]
           gone    == {rider[e] : e \in leaving}
<1>1. TransportTypes /\ OneRide /\ Waiting /\ Whereabouts /\ Population
  BY DEF TransportInv
<1>2. \A e \in Elevators : elev[e].at = "arrive" =>
        /\ 1 \in DOMAIN elev[e].batch /\ Rider(e) = elev[e].batch[1] /\ Rider(e).carrier \in Carriers
        /\ carrier[Rider(e).carrier].at # "none" /\ carrier[Rider(e).carrier].floor = Rider(e).from
  <2> SUFFICES ASSUME NEW e \in Elevators, elev[e].at = "arrive"
               PROVE  /\ 1 \in DOMAIN elev[e].batch /\ Rider(e) = elev[e].batch[1] /\ Rider(e).carrier \in Carriers
                      /\ carrier[Rider(e).carrier].at # "none" /\ carrier[Rider(e).carrier].floor = Rider(e).from
    OBVIOUS
  <2>1. 1 \in DOMAIN elev[e].batch /\ Rider(e) = elev[e].batch[1] /\ Rider(e).carrier \in Carriers
    BY <1>1, RiderType
  <2> QED BY <1>1, <2>1, RidersExist DEF Whereabouts
<1>3. \A e, d \in Elevators :
        elev[e].at = "arrive" /\ elev[d].at = "arrive" /\ Rider(e).carrier = Rider(d).carrier => e = d
  BY <1>1, <1>2 DEF OneRide
<1>4. IsFiniteSet(leaving) /\ Cardinality(leaving) \in Nat
  <2>1. IsFiniteSet(Elevators)
    <3>1. IsFiniteSet({"delivery"}) /\ Elevators = {"delivery"} \cup {"reposition"}
      BY FS_Singleton DEF Elevators
    <3> QED BY <3>1, FS_AddElement
  <2> QED BY <2>1, FS_Subset, FS_CardinalityType
<1>5. \A e \in leaving : rider[e] = Rider(e).carrier /\ e \in Elevators /\ elev[e].at = "arrive"
  OBVIOUS
<1>6. IsFiniteSet(gone) /\ Cardinality(gone) = Cardinality(leaving)
  <2>1. \A e, d \in leaving : rider[e] = rider[d] => e = d
    BY <1>3, <1>5
  <2> HIDE DEF leaving, rider
  <2> QED BY <1>4, <2>1, InjectiveImage
<1>7. here = Standing(f) \cup gone
  <2>1. \A c \in Carriers \ Unborn : carrier[c].floor = f => c \in Standing(f) \/ c \in gone
    <3> SUFFICES ASSUME NEW c \in Carriers \ Unborn, carrier[c].floor = f, c \notin Standing(f)
                 PROVE  c \in gone
      OBVIOUS
    <3>1. PICK e \in Elevators : elev[e].at = "arrive" /\ Rider(e).carrier = c
      BY DEF Standing, Rider
    <3>2. e \in leaving
      BY <1>2, <3>1 DEF Rider
    <3> QED BY <3>1, <3>2
  <2>2. Standing(f) \subseteq here
    BY DEF Standing
  <2>3. gone \subseteq here
    <3>1. ASSUME NEW e \in leaving PROVE rider[e] \in here
      <4>1. e \in Elevators /\ elev[e].at = "arrive" /\ rider[e] = Rider(e).carrier /\ Rider(e).from = f
        BY <1>5 DEF Rider
      <4>2. Rider(e).carrier \in Carriers \ Unborn /\ carrier[Rider(e).carrier].floor = f
        BY <1>2, <4>1 DEF Unborn
      <4> QED BY <4>1, <4>2
    <3> QED BY <3>1
  <2> QED BY <2>1, <2>2, <2>3
<1>8. Standing(f) \cap gone = {}
  BY <1>5 DEF Standing, Rider
<1>9. present[f] = Cardinality(Standing(f)) /\ Cardinality(Standing(f)) \in Nat
  BY <1>1, StandingFinite DEF Population
<1> HIDE DEF here, leaving, gone
<1>10. Cardinality(here) = Cardinality(Standing(f)) + Cardinality(gone)
  BY <1>6, <1>7, <1>8, StandingFinite, DisjointUnion
<1>11. present[f] = Cardinality(here) - Cardinality(leaving)
  BY <1>4, <1>6, <1>9, <1>10
<1> QED BY <1>11 DEF here, leaving

\* carrier_count is exact but for a carrier between two floor locks, and a
\* floor without carriers has a respawn request or will get one
\* (move_carrier_between_floors, maybe_spawn_more_carriers).
THEOREM NoFloorIsForgotten == Spec => []NoFloorForgotten
<1>1. TransportInv => NoFloorForgotten
  <2> SUFFICES ASSUME TransportInv
               PROVE  NoFloorForgotten
    OBVIOUS
  <2>1. \A f \in Floors : parent.at # "start" /\ present[f] = 0 =>
          respawn[f] \/ \E e \in Elevators : elev[e].emptied = f
    BY DEF TransportInv, Population
  <2> QED BY <2>1, FloorCount DEF NoFloorForgotten
<1> QED BY <1>1, TransportCorrect, PTL

=============================================================================
