--------------------------- MODULE HogwartsProofs ---------------------------
(***************************************************************************)
(* Proofs about Hogwarts for any clients, names, table size and timeout:   *)
(* names stay unique, no connection leaks, recv() never blocks and every   *)
(* line with a word in it is answered exactly once.                        *)
(***************************************************************************)
EXTENDS Hogwarts, CountingLemmas

-----------------------------------------------------------------------------
(* The inductive invariant                                                 *)

Commands == Lines \cup {EnrollLine(c, n) : c \in Clients, n \in Names} \cup {ApparateLine}
Replies  == LastLines \cup {"OK", "ERR"}
Ends     == {"exited", "killed"}

Sessions == [conn : Clients \cup {NoClient}, name : Names \cup {NoName},
             type : {"", "WIZARD", "PROFESSOR"}, book : [Ingredients -> Int], age : 0..Timeout]
Processes == [pc : {"new", "connected", "running", "leaving", "gone"}, stdin : BOOLEAN, pending : Int]

\* Types, those of the lines in flight included.
HogwartsTypes ==
    /\ stock \in [Ingredients -> Int] /\ slots \in [Slots -> Sessions]
    /\ spc \in {"loop", "timeout", "select", "accept", "serve"} \cup Ends
    /\ wait \in 0..Timeout /\ failures \in 0..MaxFailures /\ typed \in 0..MaxTyped
    /\ ready \subseteq Clients /\ serving \in Slots \cup {0}
    /\ batch \in Seq(Commands) /\ backlog \in Seq(Clients)
    /\ toServer \in [Clients -> Seq(Commands)] /\ toClient \in [Clients -> Seq(Replies)]
    /\ dropped \in [Clients -> BOOLEAN] /\ client \in [Clients -> Processes]

Holds(s, c) == slots[s].conn = c
Waits(i, c) == backlog[i] = c

\* A connection waits in the backlog once or is held by one slot, is open, and
\* its client has connected.
OpenOnce ==
    /\ \A i, j \in DOMAIN backlog : backlog[i] = backlog[j] => i = j
    /\ \A i \in DOMAIN backlog : /\ client[backlog[i]].pc # "new" /\ ~dropped[backlog[i]]
                                 /\ \A s \in Slots : ~Holds(s, backlog[i])
    /\ \A s \in Slots : slots[s].conn # NoClient =>
                           client[slots[s].conn].pc # "new" /\ ~dropped[slots[s].conn]

\* An open connection is in one of these places, unless its client found that
\* nobody listens any more; one not yet made has not been closed.
OpenIsHeld ==
    \A c \in Clients :
        /\ client[c].pc # "new" /\ ~dropped[c] /\ ~(client[c].pc = "gone" /\ spc \in Ends) =>
              (\E i \in DOMAIN backlog : Waits(i, c)) \/ (\E s \in Slots : Holds(s, c))
        /\ client[c].pc = "new" => ~dropped[c]

\* A server that has ended holds no connection.
EndedHoldsNothing ==
    spc \in Ends => backlog = <<>> /\ \A s \in Slots : slots[s].conn = NoClient

\* accept() is called when somebody waits; lines are handled for a session that
\* is still there and that this round does not serve again.
ServesTheConnected ==
    /\ spc = "accept" => backlog # <<>>
    /\ batch # <<>> => /\ spc = "serve" /\ serving \in Slots
                       /\ slots[serving].conn \in Clients \ ready

\* AnsweredOnce for clients that have sent nothing too: they are owed nothing.
Balance(c) == client[c].pending =
    Owed(toServer[c]) + Len(toClient[c]) + (IF batch # <<>> /\ Session.conn = c THEN Owed(batch) ELSE 0)

EveryLineOwed ==
    \A c \in Clients :
        /\ client[c].pc # "gone" /\ ~dropped[c] => Balance(c)
        /\ client[c].pc \in {"new", "connected"} => client[c].pending = 0

ConnectionInv == OpenOnce /\ OpenIsHeld /\ EndedHoldsNothing

HogwartsInv ==
    /\ HogwartsTypes /\ ConnectionInv /\ NamesAreUnique
    /\ ServesTheConnected /\ RecvNeverBlocks /\ EveryLineOwed

-----------------------------------------------------------------------------
(* Values                                                                  *)

\* The server's slots are naturals, and so is a free slot's place in the table.
LEMMA SlotsAreNaturals == Slots \subseteq Nat /\ 0 \notin Slots
BY HogwartsAssumption DEF Slots

\* An empty slot is a session.
LEMMA FreeSlotType == FreeSlot \in Sessions /\ FreeSlot.conn = NoClient /\ FreeSlot.name = NoName
BY HogwartsAssumption DEF FreeSlot, EmptyBook, Sessions

\* A client that has not started, and one that has ended.
LEMMA ClientValues ==
    /\ NewClient \in Processes /\ NewClient.pc = "new" /\ NewClient.pending = 0
    /\ GoneClient \in Processes /\ GoneClient.pc = "gone"
<1>1. NewClient \in Processes /\ NewClient.pc = "new" /\ NewClient.pending = 0
  BY DEF NewClient, Processes
<1>2. GoneClient = [NewClient EXCEPT !.pc = "gone"]
  BY DEF GoneClient
<1>3. GoneClient \in Processes /\ GoneClient.pc = "gone"
  BY <1>1, <1>2 DEF Processes
<1> QED BY <1>1, <1>3

\* What a client can send is a command.
LEMMA CommandFacts ==
    ASSUME NEW cmd \in Commands
    PROVE  /\ cmd.op = "ENROLL" => cmd.name \in Names /\ cmd.type \in {"WIZARD", "PROFESSOR"}
           /\ cmd.op \in {"BREW", "CONSUME"} => cmd.qty \in Nat \ {0}
<1>1. CASE cmd \in Lines
  BY <1>1, LinesAssumption
<1>2. ASSUME NEW c \in Clients, NEW n \in Names, cmd = EnrollLine(c, n)
      PROVE  cmd.op = "ENROLL" /\ cmd.name \in Names /\ cmd.type \in {"WIZARD", "PROFESSOR"}
  BY <1>2, HogwartsAssumption DEF EnrollLine
<1>3. CASE cmd = ApparateLine
  BY <1>3 DEF ApparateLine
<1> QED BY <1>1, <1>2, <1>3 DEF Commands

\* send_line to a client: one line more on its way, unless nobody is there.
LEMMA SentToEffect ==
    ASSUME NEW q \in [Clients -> Seq(Replies)], NEW c \in Clients, NEW m \in Replies
    PROVE  /\ SentTo(q, c, m) \in [Clients -> Seq(Replies)]
           /\ \A d \in Clients : d # c => SentTo(q, c, m)[d] = q[d]
           /\ client[c].pc # "gone" => Len(SentTo(q, c, m)[c]) = Len(q[c]) + 1
<1>1. CASE client[c].pc = "gone"
  BY <1>1 DEF SentTo
<1>2. CASE client[c].pc # "gone"
  <2> DEFINE new == Append(q[c], m)
  <2>1. SentTo(q, c, m) = [q EXCEPT ![c] = new]
    BY <1>2 DEF SentTo
  <2>2. new \in Seq(Replies) /\ Len(new) = Len(q[c]) + 1
    OBVIOUS
  <2> HIDE DEF new
  <2> QED BY <2>1, <2>2
<1> QED BY <1>1, <1>2

\* The tail and the head of a nonempty sequence.
LEMMA TailFacts ==
    ASSUME NEW S, NEW q \in Seq(S), q # <<>>
    PROVE  /\ Head(q) \in S /\ Head(q) = q[1] /\ 1 \in DOMAIN q
           /\ Tail(q) \in Seq(S) /\ Len(Tail(q)) = Len(q) - 1 /\ Len(q) \in Nat \ {0}
           /\ \A i \in DOMAIN Tail(q) : i \in Nat /\ i + 1 \in DOMAIN q /\ Tail(q)[i] = q[i + 1] /\ i + 1 # 1
           /\ \A i \in DOMAIN q : i # 1 => \E j \in DOMAIN Tail(q) : Tail(q)[j] = q[i]
<1>1. Len(q) \in Nat \ {0} /\ DOMAIN q = 1..Len(q)
  OBVIOUS
<1>2. Head(q) = q[1] /\ 1 \in DOMAIN q /\ Head(q) \in S
  BY <1>1
<1>3. Tail(q) \in Seq(S) /\ Len(Tail(q)) = Len(q) - 1 /\ DOMAIN Tail(q) = 1..(Len(q) - 1)
  BY <1>1
<1>4. \A i \in 1..(Len(q) - 1) : Tail(q)[i] = q[i + 1]
  BY <1>1
<1>5. \A i \in DOMAIN q : i # 1 => i - 1 \in DOMAIN Tail(q) /\ Tail(q)[i - 1] = q[i]
  <2> TAKE i \in DOMAIN q
  <2> HAVE i # 1
  <2>1. i - 1 \in 1..(Len(q) - 1) /\ (i - 1) + 1 = i
    BY <1>1
  <2> QED BY <1>3, <1>4, <2>1
<1>6. \A i \in DOMAIN Tail(q) : i \in Nat /\ i + 1 \in DOMAIN q /\ Tail(q)[i] = q[i + 1] /\ i + 1 # 1
  BY <1>1, <1>3, <1>4
<1>7. \A i \in DOMAIN q : i # 1 => \E j \in DOMAIN Tail(q) : Tail(q)[j] = q[i]
  BY <1>5, Zenon
<1> QED BY <1>1, <1>2, <1>3, <1>6, <1>7

\* What is owed for a queue is a number, nothing for an empty one.
LEMMA OwedType ==
    ASSUME NEW S, NEW q \in Seq(S)
    PROVE  /\ Owed(q) \in Nat /\ (q = <<>> => Owed(q) = 0)
           /\ IsFiniteSet({i \in DOMAIN q : HasWord(q[i])})
<1> DEFINE D == {i \in DOMAIN q : HasWord(q[i])}
<1>1. PICK n \in Nat : n = Len(q)
  OBVIOUS
<1>2. DOMAIN q = 1..n
  BY <1>1
<1>3. IsFiniteSet(1..n)
  BY FS_Interval
<1>4. D \subseteq 1..n
  BY <1>2
<1>5. IsFiniteSet(D)
  BY <1>3, <1>4, FS_Subset
<1>6. q = <<>> => D = {}
  BY <1>1, <1>2
<1> HIDE DEF D
<1>7. Cardinality(D) \in Nat /\ (D = {} => Cardinality(D) = 0)
  BY <1>5, FS_CardinalityType, FS_EmptySet
<1>8. Owed(q) = Cardinality(D)
  BY DEF Owed, D
<1>9. IsFiniteSet({i \in DOMAIN q : HasWord(q[i])})
  BY <1>5 DEF D
<1> QED BY <1>6, <1>7, <1>8, <1>9

\* Places moved by the same distance are as many.
LEMMA ShiftedSet ==
    ASSUME NEW Q \in SUBSET Nat, IsFiniteSet(Q), NEW m \in Nat
    PROVE  IsFiniteSet({m + i : i \in Q}) /\ Cardinality({m + i : i \in Q}) = Cardinality(Q)
<1> DEFINE f == [i \in Nat |-> m + i]
<1>1. \A x, y \in Q : f[x] = f[y] => x = y
  OBVIOUS
<1>2. {m + i : i \in Q} = {f[x] : x \in Q}
  OBVIOUS
<1>3. IsFiniteSet({f[x] : x \in Q}) /\ Cardinality({f[x] : x \in Q}) = Cardinality(Q)
  <2> HIDE DEF f
  <2> QED BY <1>1, InjectiveImage
<1> QED BY <1>2, <1>3

\* What is owed for a queue is owed for its first lines or for the rest.
LEMMA OwedJoins ==
    ASSUME NEW S, NEW p \in Seq(S), NEW q \in Seq(S), NEW r \in Seq(S),
           Len(r) = Len(p) + Len(q),
           \A i \in 1..Len(p) : r[i] = p[i],
           \A i \in 1..Len(q) : r[Len(p) + i] = q[i]
    PROVE  Owed(r) = Owed(p) + Owed(q)
<1>1. PICK m \in Nat, n \in Nat : m = Len(p) /\ n = Len(q)
  OBVIOUS
<1>2. DOMAIN p = 1..m /\ DOMAIN q = 1..n /\ DOMAIN r = 1..(m + n)
  BY <1>1
<1> DEFINE P == {i \in DOMAIN p : HasWord(p[i])}
           Q == {i \in DOMAIN q : HasWord(q[i])}
           R == {i \in DOMAIN r : HasWord(r[i])}
           T == {m + i : i \in Q}
<1>3. IsFiniteSet(P) /\ IsFiniteSet(Q)
  BY OwedType
<1>4. Q \in SUBSET Nat
  BY <1>1, <1>2
<1>5. IsFiniteSet(T) /\ Cardinality(T) = Cardinality(Q)
  <2> HIDE DEF Q
  <2> QED BY <1>1, <1>3, <1>4, ShiftedSet
<1>6. P \cap T = {}
  BY <1>1, <1>2
<1>7. ASSUME NEW i \in R PROVE i \in P \cup T
  <2>1. i \in 1..(m + n) /\ HasWord(r[i])
    BY <1>2
  <2>2. CASE i <= m
    <3>1. i \in 1..m /\ r[i] = p[i]
      BY <1>1, <2>1, <2>2
    <3> QED BY <1>2, <2>1, <3>1
  <2>3. CASE i > m
    <3>1. i - m \in 1..n /\ m + (i - m) = i
      BY <1>1, <2>1, <2>3
    <3>2. r[m + (i - m)] = q[i - m]
      BY <1>1, <3>1
    <3>3. r[i] = q[i - m]
      BY <3>1, <3>2
    <3>4. i - m \in Q
      BY <1>2, <2>1, <3>1, <3>3
    <3> QED BY <3>1, <3>4
  <2> QED BY <1>1, <2>1, <2>2, <2>3
<1>8. ASSUME NEW i \in P PROVE i \in R
  <2>1. i \in 1..m /\ HasWord(p[i])
    BY <1>2
  <2>2. r[i] = p[i] /\ i \in 1..(m + n)
    BY <1>1, <2>1
  <2> QED BY <1>2, <2>1, <2>2
<1>9. ASSUME NEW i \in Q PROVE m + i \in R
  <2>1. i \in 1..n /\ HasWord(q[i])
    BY <1>2
  <2>2. r[m + i] = q[i] /\ m + i \in 1..(m + n)
    BY <1>1, <2>1
  <2> QED BY <1>2, <2>1, <2>2
<1>10. R = P \cup T
  <2> HIDE DEF P, Q, R
  <2> QED BY <1>7, <1>8, <1>9
<1>11. Owed(p) = Cardinality(P) /\ Owed(q) = Cardinality(Q) /\ Owed(r) = Cardinality(R)
  BY DEF Owed
<1>12. PICK A, B : A = P /\ B = T
  OBVIOUS
<1>13. IsFiniteSet(A) /\ IsFiniteSet(B) /\ A \cap B = {}
  BY <1>3, <1>5, <1>6, <1>12
<1>14. Cardinality(A \cup B) = Cardinality(A) + Cardinality(B)
  BY <1>13, DisjointUnion
<1> HIDE DEF P, Q, R, T
<1> QED BY <1>5, <1>10, <1>11, <1>12, <1>14

\* A line more at the end of the queue.
LEMMA OwedAppend ==
    ASSUME NEW S, NEW q \in Seq(S), NEW x \in S
    PROVE  Owed(Append(q, x)) = Owed(q) + Owed(<<x>>)
<1>0. Append(q, x) \in Seq(S) /\ <<x>> \in Seq(S)
  OBVIOUS
<1>1. PICK r \in Seq(S) : r = Append(q, x)
  BY <1>0, Zenon
<1>2. PICK y \in Seq(S) : y = <<x>>
  BY <1>0, Zenon
<1>3. Len(y) = 1 /\ y[1] = x
  BY <1>2
<1>4. Len(r) = Len(q) + Len(y)
  BY <1>1, <1>3
<1>5. \A i \in 1..Len(q) : r[i] = q[i]
  BY <1>1
<1>6. \A i \in 1..Len(y) : r[Len(q) + i] = y[i]
  BY <1>1, <1>3
<1>7. Owed(r) = Owed(q) + Owed(y)
  BY <1>4, <1>5, <1>6, OwedJoins
<1> QED BY <1>1, <1>2, <1>7

\* A line less at its head.
LEMMA OwedTail ==
    ASSUME NEW S, NEW q \in Seq(S), q # <<>>
    PROVE  Owed(q) = Owed(<<Head(q)>>) + Owed(Tail(q))
<1>1. Head(q) \in S /\ Head(q) = q[1] /\ Tail(q) \in Seq(S) /\ Len(Tail(q)) = Len(q) - 1 /\ Len(q) \in Nat
  BY TailFacts
<1>2. PICK t \in Seq(S) : t = Tail(q)
  BY <1>1
<1>3. PICK y \in Seq(S) : y = <<Head(q)>>
  <2>1. PICK h \in S : h = Head(q)
    BY <1>1
  <2>2. <<h>> \in Seq(S)
    OBVIOUS
  <2> QED BY <2>1, <2>2, Zenon
<1>4. Len(y) = 1 /\ y[1] = q[1]
  BY <1>1, <1>3
<1>5. Len(q) = Len(y) + Len(t)
  BY <1>1, <1>2, <1>4
<1>6. \A i \in 1..Len(y) : q[i] = y[i]
  BY <1>4
<1>7. \A i \in 1..Len(t) : q[Len(y) + i] = t[i]
  BY <1>1, <1>2, <1>4
<1>8. Owed(q) = Owed(y) + Owed(t)
  BY <1>5, <1>6, <1>7, OwedJoins, Zenon
<1> QED BY <1>2, <1>3, <1>8

\* One reply is owed for a line with a word, none for a line of blanks.
LEMMA OwedForOne ==
    ASSUME NEW x
    PROVE  Owed(<<x>>) = IF HasWord(x) THEN 1 ELSE 0
<1>1. PICK y : y = <<x>>
  OBVIOUS
<1>2. DOMAIN y = {1} /\ y[1] = x
  BY <1>1
<1>3. HasWord(x) => {i \in DOMAIN y : HasWord(y[i])} = {1}
  BY <1>2
<1>4. ~HasWord(x) => {i \in DOMAIN y : HasWord(y[i])} = {}
  BY <1>2
<1>5. Cardinality({1}) = 1 /\ Cardinality({}) = 0
  BY FS_Singleton, FS_EmptySet
<1>6. Owed(y) = Cardinality({i \in DOMAIN y : HasWord(y[i])})
  BY DEF Owed
<1> QED BY <1>1, <1>3, <1>4, <1>5, <1>6

\* The queues of lines and replies have sizes.
LEMMA QueueSizes ==
    ASSUME NEW queues \in [Clients -> Seq(Commands)], NEW replies \in [Clients -> Seq(Replies)]
    PROVE  \A c \in Clients : Owed(queues[c]) \in Nat /\ Len(replies[c]) \in Nat
<1> TAKE c \in Clients
<1>1. PICK q \in Seq(Commands) : q = queues[c]
  OBVIOUS
<1>2. Owed(q) \in Nat
  BY OwedType
<1>3. replies[c] \in Seq(Replies)
  OBVIOUS
<1> QED BY <1>1, <1>2, <1>3

\* The session being served is one of the table.
LEMMA SessionFacts ==
    ASSUME HogwartsTypes, serving \in Slots
    PROVE  /\ Session \in Sessions /\ Active \in Sessions
           /\ Active.conn = Session.conn /\ Active.name = Session.name /\ Session = slots[serving]
<1>1. Session \in Sessions /\ Session = slots[serving]
  BY DEF HogwartsTypes, Session
<1>2. 0 \in 0..Timeout
  BY HogwartsAssumption
<1> QED BY <1>1, <1>2 DEF Active, Sessions

-----------------------------------------------------------------------------
(* Initial states                                                          *)

\* An empty server and clients not yet started satisfy the invariant.
LEMMA HogwartsInit == Init => HogwartsInv
<1> SUFFICES ASSUME Init PROVE HogwartsInv
  OBVIOUS
<1>1. slots \in [Slots -> Sessions] /\ \A s \in Slots : slots[s].conn = NoClient
  BY FreeSlotType DEF Init
<1>2. client \in [Clients -> Processes] /\ \A c \in Clients : client[c].pc = "new" /\ client[c].pending = 0
  BY ClientValues DEF Init
<1>3. stock \in [Ingredients -> Int]
  BY HogwartsAssumption DEF Init, Ingredients
<1>4. /\ toServer \in [Clients -> Seq(Commands)] /\ toClient \in [Clients -> Seq(Replies)]
      /\ \A c \in Clients : toServer[c] = <<>> /\ toClient[c] = <<>>
      /\ dropped \in [Clients -> BOOLEAN] /\ \A c \in Clients : dropped[c] = FALSE
  BY DEF Init
<1>5. /\ spc = "loop" /\ wait = 0 /\ ready = {} /\ serving = 0 /\ batch = <<>>
      /\ failures = 0 /\ backlog = <<>> /\ typed = 0
  BY DEF Init
<1>6. HogwartsTypes
  BY <1>1, <1>2, <1>3, <1>4, <1>5, HogwartsAssumption DEF HogwartsTypes
<1>7. ConnectionInv
  BY <1>1, <1>2, <1>4, <1>5 DEF ConnectionInv, OpenOnce, OpenIsHeld, EndedHoldsNothing, Ends
<1>8. NamesAreUnique
  BY <1>1 DEF NamesAreUnique, Used
<1>9. ServesTheConnected /\ RecvNeverBlocks
  BY <1>5 DEF ServesTheConnected, RecvNeverBlocks
<1>10. EveryLineOwed
  <2>1. <<>> \in Seq(Commands)
    OBVIOUS
  <2>2. Owed(<<>>) = 0 /\ Len(<<>>) = 0
    BY <2>1, OwedType
  <2> QED BY <1>2, <1>4, <1>5, <2>2 DEF EveryLineOwed, Balance
<1> QED BY <1>6, <1>7, <1>8, <1>9, <1>10 DEF HogwartsInv

-----------------------------------------------------------------------------
(* What each action of the server does                                     *)

\* compute_select_timeout never waits longer than the limit.
LEMMA SelectTimeoutType ==
    ASSUME HogwartsTypes
    PROVE  SelectTimeout \in 0..Timeout
<1> DEFINE left == {IF slots[s].age > Timeout THEN 0 ELSE Timeout - slots[s].age : s \in Used}
<1>1. Timeout \in Nat
  BY HogwartsAssumption
<1>2. \A s \in Used : slots[s].age \in 0..Timeout
  BY DEF HogwartsTypes, Sessions, Used
<1>3. left \in SUBSET (0..Timeout)
  BY <1>1, <1>2
<1>4. CASE Used = {}
  BY <1>1, <1>4 DEF SelectTimeout
<1>5. CASE Used # {}
  <2>1. left # {}
    BY <1>5
  <2>2. left \in SUBSET Nat
    BY <1>1, <1>3
  <2>3. SelectTimeout = Min(left)
    BY <1>5 DEF SelectTimeout
  <2> HIDE DEF left
  <2>4. Min(left) \in left
    BY <2>1, <2>2, MinNatural
  <2> QED BY <1>3, <2>3, <2>4
<1> QED BY <1>4, <1>5

\* One second more for every session, and for a select() that waits.
LEMMA TickEffect ==
    ASSUME HogwartsTypes, Tick
    PROVE  /\ slots' \in [Slots -> Sessions] /\ wait' \in 0..Timeout
           /\ \A s \in Slots : slots'[s].conn = slots[s].conn /\ slots'[s].name = slots[s].name
           /\ spc \notin Ends
           /\ UNCHANGED <<stock, shutdown, spc, ready, serving, batch, failures, netVars, userVars>>
<1>1. Timeout \in Nat
  BY HogwartsAssumption
<1>2. \A s \in Slots : slots[s] \in Sessions
  BY DEF HogwartsTypes
<1>3. slots' = [s \in Slots |-> IF s \in Used /\ slots[s].age < Timeout
                                THEN [slots[s] EXCEPT !.age = @ + 1] ELSE slots[s]]
  BY DEF Tick
<1>4. ASSUME NEW s \in Slots
      PROVE  slots'[s] \in Sessions /\ slots'[s].conn = slots[s].conn /\ slots'[s].name = slots[s].name
  <2>1. CASE s \in Used /\ slots[s].age < Timeout
    <3>1. slots'[s] = [slots[s] EXCEPT !.age = @ + 1]
      BY <1>3, <2>1
    <3>2. slots[s].age + 1 \in 0..Timeout
      <4>1. slots[s].age \in 0..Timeout
        BY <1>2 DEF Sessions
      <4> QED BY <1>1, <2>1, <4>1
    <3> QED BY <1>2, <3>1, <3>2 DEF Sessions
  <2>2. CASE ~(s \in Used /\ slots[s].age < Timeout)
    BY <1>2, <1>3, <2>2
  <2> QED BY <2>1, <2>2
<1>5. slots' \in [Slots -> Sessions]
  BY <1>3, <1>4
<1>6. wait' \in 0..Timeout
  BY <1>1 DEF Tick, HogwartsTypes
<1>7. /\ spc \notin Ends
      /\ UNCHANGED <<stock, shutdown, spc, ready, serving, batch, failures, netVars, userVars>>
  BY DEF Tick, Ends
<1> QED BY <1>4, <1>5, <1>6, <1>7

\* The moves of the server loop that touch neither sessions nor lines.
Moves == \/ ComputeSelectTimeout \/ SelectReady \/ SelectTimesOut \/ AcceptFails
         \/ RoundEnds \/ Sigint

\* What the server's steps that touch no connection may change.
LEMMA MovesEffect ==
    ASSUME HogwartsTypes, Moves
    PROVE  /\ wait' \in 0..Timeout /\ failures' \in 0..MaxFailures
           /\ ready' \subseteq Clients /\ serving' \in Slots \cup {0}
           /\ spc \notin Ends /\ spc' \in {"loop", "timeout", "select", "accept", "serve"}
           /\ UNCHANGED <<dataVars, batch, netVars, userVars>>
<1>0. Timeout \in Nat /\ MaxFailures \in Nat
  BY HogwartsAssumption
<1>1. CASE ComputeSelectTimeout
  BY <1>1, SelectTimeoutType DEF ComputeSelectTimeout, HogwartsTypes, Ends
<1>2. CASE SelectReady
  <2>1. ReadySet \subseteq Clients
    <3>1. \A s \in Used : slots[s].conn \in Clients
      BY DEF Used, HogwartsTypes, Sessions
    <3> QED BY <3>1 DEF ReadySet
  <2> QED BY <1>0, <1>2, <2>1 DEF SelectReady, HogwartsTypes, Ends
<1>3. CASE SelectTimesOut
  BY <1>3 DEF SelectTimesOut, HogwartsTypes, Ends
<1>4. CASE AcceptFails
  BY <1>0, <1>4 DEF AcceptFails, HogwartsTypes, Ends
<1>5. CASE RoundEnds
  BY <1>5 DEF RoundEnds, HogwartsTypes, Ends
<1>6. CASE Sigint
  BY <1>0, <1>6 DEF Sigint, HogwartsTypes, Ends
<1> QED BY <1>1, <1>2, <1>3, <1>4, <1>5, <1>6 DEF Moves

\* recv(): some lines of the first reported client that is left to serve.
LEMMA RecvEffect ==
    ASSUME HogwartsTypes, RecvNeverBlocks, Recv
    PROVE  \E k \in Slots, c \in ready, n \in Nat :
             /\ slots[k].conn = c /\ serving' = k /\ ready' = ready \ {c}
             /\ batch' \in Seq(Commands) /\ batch' # <<>> /\ batch = <<>>
             /\ toServer' \in [Clients -> Seq(Commands)]
             /\ Owed(batch') = n /\ Owed(toServer'[c]) = Owed(toServer[c]) - n
             /\ \A d \in Clients : d # c => toServer'[d] = toServer[d]
             /\ spc = "serve"
             /\ UNCHANGED <<dataVars, shutdown, spc, wait, failures, backlog, toClient, dropped, userVars>>
<1> DEFINE S == {s \in Used : slots[s].conn \in ready}
           c == slots[NextSlot].conn
<1>1. spc = "serve" /\ batch = <<>> /\ ready # {}
  BY DEF Recv
<1>2. S # {}
  BY <1>1 DEF RecvNeverBlocks
<1>3. S \in SUBSET Nat
  BY SlotsAreNaturals DEF Used
<1>4. NextSlot \in S
  <2>1. Min(S) \in S
    <3> HIDE DEF S
    <3> QED BY <1>2, <1>3, MinNatural
  <2> QED BY <2>1 DEF NextSlot
<1>5. NextSlot \in Slots /\ c \in ready /\ c \in Clients
  BY <1>4 DEF Used, HogwartsTypes
<1>6. PICK n \in 1..Len(toServer[c]) :
         /\ batch' = SubSeq(toServer[c], 1, n)
         /\ toServer' = [toServer EXCEPT ![c] = SubSeq(@, n + 1, Len(@))]
  BY DEF Recv
<1>7. ready' = ready \ {c} /\ serving' = NextSlot
      /\ UNCHANGED <<dataVars, shutdown, spc, wait, failures, backlog, toClient, dropped, userVars>>
  BY DEF Recv
<1>8. toServer[c] \in Seq(Commands) /\ toServer \in [Clients -> Seq(Commands)]
  BY <1>5 DEF HogwartsTypes
<1>9. slots[NextSlot].conn = c
  OBVIOUS
<1> HIDE DEF c
<1>10. Len(toServer[c]) \in Nat /\ n \in Nat /\ n >= 1 /\ n <= Len(toServer[c])
  BY <1>6, <1>8
<1>11. batch' \in Seq(Commands) /\ Len(batch') = n
  BY <1>6, <1>8, <1>10
<1> DEFINE rest == SubSeq(toServer[c], n + 1, Len(toServer[c]))
<1>12. rest \in Seq(Commands) /\ Len(rest) = Len(toServer[c]) - n
  BY <1>8, <1>10
<1>13. toServer' = [toServer EXCEPT ![c] = rest]
  BY <1>6
<1> HIDE DEF rest
<1>14. /\ toServer' \in [Clients -> Seq(Commands)] /\ toServer'[c] = rest
       /\ \A d \in Clients : d # c => toServer'[d] = toServer[d]
  BY <1>5, <1>8, <1>12, <1>13
<1>15. PICK first \in Seq(Commands) : first = batch'
  BY <1>11
<1>16. Owed(toServer[c]) = Owed(first) + Owed(rest)
  <2>1. \A i \in 1..Len(first) : toServer[c][i] = first[i]
    BY <1>6, <1>8, <1>10, <1>15
  <2>2. \A i \in 1..Len(rest) : toServer[c][Len(first) + i] = rest[i]
    BY <1>8, <1>10, <1>11, <1>15 DEF rest
  <2>3. Len(toServer[c]) = Len(first) + Len(rest)
    BY <1>10, <1>11, <1>12, <1>15
  <2> QED BY <1>8, <1>12, <2>1, <2>2, <2>3, OwedJoins
<1>17. Owed(first) \in Nat /\ Owed(rest) \in Nat
  BY <1>12, OwedType
<1>18. PICK m \in Nat : m = Owed(first)
  BY <1>17
<1>19. batch' # <<>> /\ Owed(batch') = m /\ Owed(toServer'[c]) = Owed(toServer[c]) - m
  BY <1>10, <1>11, <1>14, <1>15, <1>16, <1>17, <1>18
<1>20. /\ slots[NextSlot].conn = c /\ serving' = NextSlot /\ ready' = ready \ {c}
       /\ batch' \in Seq(Commands) /\ batch' # <<>> /\ batch = <<>>
       /\ toServer' \in [Clients -> Seq(Commands)]
       /\ Owed(batch') = m /\ Owed(toServer'[c]) = Owed(toServer[c]) - m
       /\ \A d \in Clients : d # c => toServer'[d] = toServer[d]
       /\ spc = "serve"
       /\ UNCHANGED <<dataVars, shutdown, spc, wait, failures, backlog, toClient, dropped, userVars>>
  BY <1>1, <1>7, <1>9, <1>11, <1>14, <1>19
<1> QED BY <1>5, <1>20

\* One line handled with one reply; the connection stays where it was.
LEMMA HandledEffect ==
    ASSUME HogwartsTypes, ServesTheConnected, batch # <<>>, HasWord(Head(batch)),
           NEW new \in Sessions, new.conn = Session.conn, NEW reply \in Replies,
           Handled(new, reply)
    PROVE  /\ serving \in Slots /\ slots[serving].conn \in Clients \ ready /\ spc = "serve"
           /\ slots' \in [Slots -> Sessions] /\ slots'[serving] = new
           /\ \A s \in Slots : s # serving => slots'[s] = slots[s]
           /\ \A s \in Slots : slots'[s].conn = slots[s].conn
           /\ toClient' \in [Clients -> Seq(Replies)]
           /\ \A d \in Clients : d # slots[serving].conn => toClient'[d] = toClient[d]
           /\ client[slots[serving].conn].pc # "gone" =>
                 Len(toClient'[slots[serving].conn]) = Len(toClient[slots[serving].conn]) + 1
           /\ batch' \in Seq(Commands) /\ Owed(batch') = Owed(batch) - 1
           /\ UNCHANGED <<shutdown, spc, wait, ready, serving, failures, backlog, toServer, dropped, userVars>>
<1>1. serving \in Slots /\ slots[serving].conn \in Clients \ ready /\ spc = "serve"
  BY DEF ServesTheConnected
<1>2. slots' = [slots EXCEPT ![serving] = new] /\ Session = slots[serving]
      /\ toClient' = SentTo(toClient, slots[serving].conn, reply) /\ batch' = Tail(batch)
      /\ UNCHANGED <<shutdown, spc, wait, ready, serving, failures, backlog, toServer, dropped, userVars>>
  BY DEF Handled, Session
<1>3. slots \in [Slots -> Sessions] /\ toClient \in [Clients -> Seq(Replies)] /\ batch \in Seq(Commands)
  BY DEF HogwartsTypes
<1>4. /\ slots' \in [Slots -> Sessions] /\ slots'[serving] = new
      /\ \A s \in Slots : s # serving => slots'[s] = slots[s]
  BY <1>1, <1>2, <1>3
<1>5. \A s \in Slots : slots'[s].conn = slots[s].conn
  BY <1>2, <1>4
<1>6. slots[serving].conn \in Clients
  BY <1>1
<1>7. /\ toClient' \in [Clients -> Seq(Replies)]
      /\ \A d \in Clients : d # slots[serving].conn => toClient'[d] = toClient[d]
      /\ client[slots[serving].conn].pc # "gone" =>
            Len(toClient'[slots[serving].conn]) = Len(toClient[slots[serving].conn]) + 1
  BY <1>2, <1>3, <1>6, SentToEffect
<1>8. batch' \in Seq(Commands) /\ Owed(batch') = Owed(batch) - 1
  <2>1. Tail(batch) \in Seq(Commands)
    BY <1>3, TailFacts
  <2>2. Owed(batch) = Owed(<<Head(batch)>>) + Owed(Tail(batch))
    BY <1>3, OwedTail
  <2>3. Owed(<<Head(batch)>>) = 1
    BY OwedForOne
  <2>4. Owed(Tail(batch)) \in Nat
    BY <2>1, OwedType
  <2> QED BY <1>2, <2>1, <2>2, <2>3, <2>4
<1> QED BY <1>1, <1>2, <1>4, <1>5, <1>7, <1>8

\* The commands that are answered and keep the connection.
Answers == HandleEnroll \/ NotEnrolled \/ HandleBrew \/ HandleConsume \/ HandleReport

\* A session after a line: its connection is the same, and its name too unless
\* it had none and takes one that no other session has.
Renames(new) ==
    new.name # Session.name => Session.name = NoName /\ ~UsernameExists(new.name)

\* A command handler answers one line and replaces the served session, which
\* keeps its connection.
LEMMA AnswersEffect ==
    ASSUME HogwartsTypes, ServesTheConnected, Answers
    PROVE  /\ batch # <<>> /\ HasWord(Head(batch)) /\ stock' \in [Ingredients -> Int]
           /\ \E new \in Sessions, reply \in Replies :
                Handled(new, reply) /\ new.conn = Session.conn /\ Renames(new)
<1>1. batch # <<>> /\ serving \in Slots /\ HasWord(Head(batch))
  BY DEF Answers, HandleEnroll, NotEnrolled, HandleBrew, HandleConsume, HandleReport, Handling,
         ServesTheConnected, HasWord
<1> DEFINE cmd == Head(batch)
<1>2. cmd \in Commands
  BY <1>1, TailFacts DEF HogwartsTypes
<1>3. /\ cmd.op = "ENROLL" => cmd.name \in Names /\ cmd.type \in {"WIZARD", "PROFESSOR"}
      /\ cmd.op \in {"BREW", "CONSUME"} => cmd.qty \in Nat \ {0}
  <2> HIDE DEF cmd
  <2> QED BY <1>2, CommandFacts
<1>4. Session \in Sessions /\ Active \in Sessions
      /\ Active.conn = Session.conn /\ Active.name = Session.name
  BY <1>1, SessionFacts
<1>5. "OK" \in Replies /\ "ERR" \in Replies
  BY DEF Replies
<1>6. Renames(Active)
  BY <1>4 DEF Renames
<1>7. stock \in [Ingredients -> Int]
  BY DEF HogwartsTypes
<1>8. ASSUME Handled(Active, "OK") \/ Handled(Active, "ERR")
      PROVE  \E new \in Sessions, reply \in Replies :
                Handled(new, reply) /\ new.conn = Session.conn /\ Renames(new)
  BY <1>4, <1>5, <1>6, <1>8
<1>9. CASE HandleEnroll
  <2>1. cmd.op = "ENROLL" /\ stock' = stock
    BY <1>9 DEF HandleEnroll, Handling
  <2>2. CASE Session.name # NoName \/ UsernameExists(cmd.name)
    BY <1>1, <1>7, <1>8, <1>9, <2>1, <2>2 DEF HandleEnroll
  <2>3. CASE ~(Session.name # NoName \/ UsernameExists(cmd.name))
    <3> DEFINE new == [Active EXCEPT !.name = cmd.name, !.type = cmd.type]
    <3>1. Handled(new, "OK")
      BY <1>9, <2>3 DEF HandleEnroll
    <3>2. cmd.name \in Names /\ cmd.type \in {"WIZARD", "PROFESSOR"}
      BY <1>3, <2>1
    <3>3. new \in Sessions /\ new.conn = Session.conn /\ new.name = cmd.name
      <4> HIDE DEF cmd
      <4> QED BY <1>4, <3>2 DEF Sessions
    <3>4. Renames(new)
      BY <2>3, <3>3 DEF Renames
    <3> HIDE DEF new
    <3> QED BY <1>1, <1>5, <1>7, <2>1, <3>1, <3>3, <3>4
  <2> QED BY <2>2, <2>3
<1>10. CASE NotEnrolled
  BY <1>1, <1>7, <1>8, <1>10 DEF NotEnrolled
<1>11. CASE HandleReport
  BY <1>1, <1>7, <1>8, <1>11 DEF HandleReport
<1>12. ASSUME NEW n \in Int, cmd.item \in Ingredients,
              Handled([Active EXCEPT !.book[cmd.item] = n], "OK")
       PROVE  \E new \in Sessions, reply \in Replies :
                Handled(new, reply) /\ new.conn = Session.conn /\ Renames(new)
  <2> DEFINE new == [Active EXCEPT !.book[cmd.item] = n]
  <2>1. new \in Sessions /\ new.conn = Session.conn /\ new.name = Session.name
    <3> HIDE DEF cmd
    <3> QED BY <1>4, <1>12 DEF Sessions
  <2>2. Renames(new)
    BY <2>1 DEF Renames
  <2>3. Handled(new, "OK")
    BY <1>12
  <2> HIDE DEF new
  <2> QED BY <1>5, <2>1, <2>2, <2>3
<1>13. CASE HandleBrew
  <2>1. CASE Session.type = "WIZARD" /\ cmd.item \in Ingredients
    <3>1. stock' = [stock EXCEPT ![cmd.item] = @ + cmd.qty]
          /\ Handled([Active EXCEPT !.book[cmd.item] = @ + cmd.qty], "OK") /\ cmd.op = "BREW"
      BY <1>13, <2>1 DEF HandleBrew, Handling
    <3>2. cmd.qty \in Int /\ Active.book[cmd.item] \in Int /\ stock[cmd.item] \in Int
      <4>1. Active.book \in [Ingredients -> Int]
        BY <1>4 DEF Sessions
      <4>2. cmd.qty \in Int
        BY <1>3, <3>1
      <4> HIDE DEF cmd
      <4> QED BY <1>7, <2>1, <4>1, <4>2
    <3> DEFINE n == Active.book[cmd.item] + cmd.qty
               m == stock[cmd.item] + cmd.qty
    <3>3. n \in Int /\ m \in Int
      <4> HIDE DEF cmd
      <4> QED BY <3>2
    <3>4. Handled([Active EXCEPT !.book[cmd.item] = n], "OK") /\ stock' = [stock EXCEPT ![cmd.item] = m]
      BY <3>1
    <3> HIDE DEF n, m, cmd
    <3>5. stock' \in [Ingredients -> Int]
      BY <1>7, <3>3, <3>4
    <3> QED BY <1>1, <1>12, <2>1, <3>3, <3>4, <3>5
  <2>2. CASE ~(Session.type = "WIZARD" /\ cmd.item \in Ingredients)
    BY <1>1, <1>7, <1>8, <1>13, <2>2 DEF HandleBrew
  <2> QED BY <2>1, <2>2
<1>14. CASE HandleConsume
  <2>1. CASE Session.type = "WIZARD" /\ cmd.item \in Ingredients /\ Sufficient(cmd)
    <3>1. stock' = [stock EXCEPT ![cmd.item] = @ - cmd.qty]
          /\ Handled([Active EXCEPT !.book[cmd.item] = @ - cmd.qty], "OK") /\ cmd.op = "CONSUME"
      BY <1>14, <2>1 DEF HandleConsume, Handling
    <3>2. cmd.qty \in Int /\ Active.book[cmd.item] \in Int /\ stock[cmd.item] \in Int
      <4>1. Active.book \in [Ingredients -> Int]
        BY <1>4 DEF Sessions
      <4>2. cmd.qty \in Int
        BY <1>3, <3>1
      <4> HIDE DEF cmd
      <4> QED BY <1>7, <2>1, <4>1, <4>2
    <3> DEFINE n == Active.book[cmd.item] - cmd.qty
               m == stock[cmd.item] - cmd.qty
    <3>3. n \in Int /\ m \in Int
      <4> HIDE DEF cmd
      <4> QED BY <3>2
    <3>4. Handled([Active EXCEPT !.book[cmd.item] = n], "OK") /\ stock' = [stock EXCEPT ![cmd.item] = m]
      BY <3>1
    <3> HIDE DEF n, m, cmd
    <3>5. stock' \in [Ingredients -> Int]
      BY <1>7, <3>3, <3>4
    <3> QED BY <1>1, <1>12, <2>1, <3>3, <3>4, <3>5
  <2>2. CASE ~(Session.type = "WIZARD" /\ cmd.item \in Ingredients /\ Sufficient(cmd))
    BY <1>1, <1>7, <1>8, <1>14, <2>2 DEF HandleConsume
  <2> QED BY <2>1, <2>2
<1> QED BY <1>9, <1>10, <1>11, <1>13, <1>14 DEF Answers

\* The connections in D are closed and their slots freed; what was received of
\* them and not handled is forgotten.
Closing(D) ==
    /\ \A c \in D : c \in Clients /\ \E s \in Slots : slots[s].conn = c
    /\ slots' \in [Slots -> Sessions]
    /\ \A s \in Slots : IF slots[s].conn \in D THEN slots'[s].conn = NoClient ELSE slots'[s] = slots[s]
    /\ dropped' \in [Clients -> BOOLEAN] /\ \A c \in Clients : dropped'[c] <=> (dropped[c] \/ c \in D)
    /\ toServer' \in [Clients -> Seq(Commands)] /\ toClient' \in [Clients -> Seq(Replies)]
    /\ \A c \in Clients \ D : toServer'[c] = toServer[c] /\ toClient'[c] = toClient[c]
    /\ spc \notin Ends /\ spc' \in {"timeout", "serve"}
    /\ batch' = <<>> /\ (batch = <<>> \/ Session.conn \in D)
    /\ ready' \subseteq ready /\ (spc' = "serve" => spc = "serve" /\ ready' \cap D = {})
    /\ UNCHANGED <<stock, shutdown, wait, serving, failures, backlog, userVars>>

\* Two sessions never have the same connection.
LEMMA OneSlotEach ==
    ASSUME HogwartsTypes, NamesAreUnique, NEW s \in Slots, NEW t \in Slots,
           slots[s].conn = slots[t].conn, slots[s].conn \in Clients
    PROVE  s = t
<1>1. s \in Used /\ t \in Used
  BY HogwartsAssumption DEF Used
<1> QED BY <1>1 DEF NamesAreUnique

\* APPARATE closes exactly the served connection.
LEMMA ApparateEffect ==
    ASSUME HogwartsTypes, NamesAreUnique, ServesTheConnected, HandleApparate
    PROVE  Closing({Session.conn})
<1> DEFINE c == Session.conn
<1>1. batch # <<>> /\ spc = "serve" /\ serving \in Slots /\ c \in Clients \ ready /\ c = slots[serving].conn
  BY DEF HandleApparate, Handling, ServesTheConnected, Session
<1>2. /\ toClient' = SentTo(toClient, c, "APPARATE")
      /\ toServer' = [toServer EXCEPT ![c] = <<>>]
      /\ dropped' = [dropped EXCEPT ![c] = TRUE]
      /\ slots' = [slots EXCEPT ![serving] = FreeSlot] /\ batch' = <<>>
      /\ UNCHANGED <<stock, shutdown, spc, wait, ready, serving, failures, backlog, userVars>>
  BY DEF HandleApparate, Close
<1>c. c = Session.conn
  OBVIOUS
<1> HIDE DEF c
<1>3. /\ slots \in [Slots -> Sessions] /\ dropped \in [Clients -> BOOLEAN]
      /\ toServer \in [Clients -> Seq(Commands)] /\ toClient \in [Clients -> Seq(Replies)]
  BY DEF HogwartsTypes
<1>4. "APPARATE" \in Replies
  BY DEF Replies, LastLines
<1>5. /\ toClient' \in [Clients -> Seq(Replies)]
      /\ \A d \in Clients : d # c => toClient'[d] = toClient[d]
  <2>1. c \in Clients
    BY <1>1
  <2> QED BY <1>2, <1>3, <1>4, <2>1, SentToEffect
<1>6. /\ toServer' \in [Clients -> Seq(Commands)]
      /\ \A d \in Clients : d # c => toServer'[d] = toServer[d]
  BY <1>1, <1>2, <1>3
<1>7. dropped' \in [Clients -> BOOLEAN] /\ \A d \in Clients : dropped'[d] <=> (dropped[d] \/ d = c)
  BY <1>1, <1>2, <1>3
<1>8. slots' \in [Slots -> Sessions]
  BY <1>1, <1>2, <1>3, FreeSlotType
<1>9. \A s \in Slots : IF slots[s].conn = c THEN slots'[s].conn = NoClient ELSE slots'[s] = slots[s]
  <2> TAKE s \in Slots
  <2>1. slots[s].conn = c => s = serving
    BY <1>1, OneSlotEach
  <2> QED BY <1>1, <1>2, <1>3, <2>1, FreeSlotType
<1>10. /\ c \in Clients /\ slots[serving].conn = c /\ serving \in Slots /\ Session.conn = c
       /\ spc = "serve" /\ spc' = "serve" /\ ready' = ready /\ ready \cap {c} = {} /\ batch' = <<>>
       /\ UNCHANGED <<stock, shutdown, wait, serving, failures, backlog, userVars>>
  BY <1>1, <1>2, <1>c
<1>11. Closing({c})
  BY <1>5, <1>6, <1>7, <1>8, <1>9, <1>10 DEF Closing, Ends
<1> QED BY <1>11, <1>c

\* A recv of 0 or an error closes exactly the connection of the slot.
LEMMA HangupEffect ==
    ASSUME HogwartsTypes, NamesAreUnique, RecvNeverBlocks, Hangup
    PROVE  \E D : Closing(D)
<1> DEFINE S == {s \in Used : slots[s].conn \in ready}
           c == slots[NextSlot].conn
<1>1. spc = "serve" /\ batch = <<>> /\ ready # {}
  BY DEF Hangup
<1>2. S # {}
  BY <1>1 DEF RecvNeverBlocks
<1>3. S \in SUBSET Nat
  BY SlotsAreNaturals DEF Used
<1>4. NextSlot \in S
  <2>1. Min(S) \in S
    <3> HIDE DEF S
    <3> QED BY <1>2, <1>3, MinNatural
  <2> QED BY <2>1 DEF NextSlot
<1>5. NextSlot \in Slots /\ c \in ready /\ c \in Clients
  BY <1>4 DEF Used, HogwartsTypes
<1>6. /\ dropped' = [dropped EXCEPT ![c] = TRUE] /\ ready' = ready \ {c}
      /\ slots' = [slots EXCEPT ![NextSlot] = FreeSlot]
      /\ UNCHANGED <<stock, shutdown, spc, wait, serving, batch, failures, backlog, toServer, toClient, userVars>>
  BY DEF Hangup
<1>c. c = slots[NextSlot].conn
  OBVIOUS
<1> HIDE DEF c
<1>7. /\ slots \in [Slots -> Sessions] /\ dropped \in [Clients -> BOOLEAN]
      /\ toServer \in [Clients -> Seq(Commands)] /\ toClient \in [Clients -> Seq(Replies)]
  BY DEF HogwartsTypes
<1>8. dropped' \in [Clients -> BOOLEAN] /\ \A d \in Clients : dropped'[d] <=> (dropped[d] \/ d = c)
  BY <1>5, <1>6, <1>7
<1>9. slots' \in [Slots -> Sessions]
  BY <1>5, <1>6, <1>7, FreeSlotType
<1>10. \A s \in Slots : IF slots[s].conn = c THEN slots'[s].conn = NoClient ELSE slots'[s] = slots[s]
  <2> TAKE s \in Slots
  <2>1. slots[s].conn = c => s = NextSlot
    BY <1>5, <1>c, OneSlotEach
  <2> QED BY <1>5, <1>6, <1>7, <1>c, <2>1, FreeSlotType
<1>11. Closing({c})
  BY <1>1, <1>5, <1>6, <1>7, <1>8, <1>9, <1>10, <1>c DEF Closing, Ends
<1> QED BY <1>11

\* disconnect_expired_clients closes the connections of the expired slots.
LEMMA DisconnectExpiredEffect ==
    ASSUME HogwartsTypes, NamesAreUnique, ServesTheConnected, DisconnectExpired
    PROVE  \E D : Closing(D)
<1> DEFINE D == {slots[s].conn : s \in Expired}
<1>1. spc = "loop" /\ spc' = "timeout" /\ batch = <<>> /\ batch' = <<>>
  BY DEF DisconnectExpired, ServesTheConnected
<1>2. /\ toClient' = [c \in Clients |-> IF c \in D THEN SentTo(toClient, c, "TIMEOUT")[c] ELSE toClient[c]]
      /\ dropped' = [c \in Clients |-> dropped[c] \/ c \in D]
      /\ toServer' = [c \in Clients |-> IF c \in D THEN <<>> ELSE toServer[c]]
      /\ slots' = [s \in Slots |-> IF s \in Expired THEN FreeSlot ELSE slots[s]]
      /\ UNCHANGED <<stock, shutdown, wait, ready, serving, batch, failures, backlog, userVars>>
  BY DEF DisconnectExpired
<1>3. \A c \in D : c \in Clients /\ \E s \in Slots : slots[s].conn = c
  BY DEF Expired, Used, HogwartsTypes, Sessions
<1>4. \A s \in Slots : s \in Expired <=> slots[s].conn \in D
  <2> TAKE s \in Slots
  <2>1. ASSUME slots[s].conn \in D PROVE s \in Expired
    <3>1. PICK t \in Expired : slots[s].conn = slots[t].conn
      BY <2>1
    <3>2. t \in Slots /\ slots[s].conn \in Clients
      BY <2>1, <1>3 DEF Expired, Used
    <3> QED BY <3>1, <3>2, OneSlotEach
  <2> QED BY <2>1
<1> HIDE DEF D
<1>5. /\ slots \in [Slots -> Sessions] /\ dropped \in [Clients -> BOOLEAN]
      /\ toServer \in [Clients -> Seq(Commands)] /\ toClient \in [Clients -> Seq(Replies)]
  BY DEF HogwartsTypes
<1>6. "TIMEOUT" \in Replies
  BY DEF Replies, LastLines
<1>7. \A c \in Clients : SentTo(toClient, c, "TIMEOUT")[c] \in Seq(Replies)
  BY <1>5, <1>6, SentToEffect
<1>8. toClient' \in [Clients -> Seq(Replies)] /\ \A c \in Clients \ D : toClient'[c] = toClient[c]
  BY <1>2, <1>5, <1>7
<1>9. toServer' \in [Clients -> Seq(Commands)] /\ \A c \in Clients \ D : toServer'[c] = toServer[c]
  BY <1>2, <1>5
<1>10. dropped' \in [Clients -> BOOLEAN] /\ \A c \in Clients : dropped'[c] <=> (dropped[c] \/ c \in D)
  BY <1>2, <1>5
<1>11. slots' \in [Slots -> Sessions]
       /\ \A s \in Slots : IF slots[s].conn \in D THEN slots'[s].conn = NoClient ELSE slots'[s] = slots[s]
  BY <1>2, <1>4, <1>5, FreeSlotType
<1>12. Closing(D)
  BY <1>1, <1>2, <1>3, <1>8, <1>9, <1>10, <1>11 DEF Closing, Ends
<1> QED BY <1>12

\* accept(): the first of the backlog moves to a free slot.
LEMMA AcceptEffect ==
    ASSUME HogwartsTypes, ServesTheConnected, Accept
    PROVE  \E k \in Slots :
             /\ slots[k].conn = NoClient /\ backlog # <<>>
             /\ slots' \in [Slots -> Sessions] /\ slots'[k].conn = backlog[1] /\ slots'[k].name = NoName
             /\ \A s \in Slots : s # k => slots'[s] = slots[s]
             /\ backlog' = Tail(backlog) /\ batch = <<>>
             /\ spc = "accept" /\ spc' = "serve"
             /\ UNCHANGED <<stock, shutdown, wait, ready, serving, batch, failures,
                            toServer, toClient, dropped, userVars>>
<1> DEFINE k == Min(Unused)
           new == [FreeSlot EXCEPT !.conn = Head(backlog)]
<1>1. spc = "accept" /\ Unused # {} /\ backlog # <<>> /\ batch = <<>>
  BY DEF Accept, ServesTheConnected
<1>2. Unused \in SUBSET Nat
  BY SlotsAreNaturals DEF Unused
<1>3. k \in Unused
  BY <1>1, <1>2, MinNatural
<1>4. slots' = [slots EXCEPT ![k] = new] /\ backlog' = Tail(backlog) /\ spc' = "serve"
      /\ UNCHANGED <<stock, shutdown, wait, ready, serving, batch, failures,
                     toServer, toClient, dropped, userVars>>
  BY DEF Accept
<1> HIDE DEF k
<1>5. k \in Slots /\ slots[k].conn = NoClient
  BY <1>3 DEF Unused, Used
<1>6. Head(backlog) \in Clients /\ Head(backlog) = backlog[1]
  BY <1>1, TailFacts DEF HogwartsTypes
<1>7. new \in Sessions /\ new.conn = backlog[1] /\ new.name = NoName
  BY <1>6, FreeSlotType DEF Sessions
<1> HIDE DEF new
<1>8. slots \in [Slots -> Sessions]
  BY DEF HogwartsTypes
<1>9. /\ slots' \in [Slots -> Sessions] /\ slots'[k] = new
      /\ \A s \in Slots : s # k => slots'[s] = slots[s]
  BY <1>4, <1>5, <1>7, <1>8
<1> QED BY <1>1, <1>4, <1>5, <1>7, <1>9

\* No slot or no memory: the first of the backlog is told so and closed.
LEMMA RejectEffect ==
    ASSUME HogwartsTypes, ServesTheConnected, Reject
    PROVE  /\ backlog # <<>> /\ backlog[1] \in Clients /\ backlog' = Tail(backlog) /\ batch = <<>>
           /\ failures' \in 0..MaxFailures
           /\ dropped' \in [Clients -> BOOLEAN]
           /\ \A c \in Clients : dropped'[c] <=> (dropped[c] \/ c = backlog[1])
           /\ toServer' \in [Clients -> Seq(Commands)] /\ toClient' \in [Clients -> Seq(Replies)]
           /\ \A c \in Clients : c # backlog[1] => toServer'[c] = toServer[c] /\ toClient'[c] = toClient[c]
           /\ spc = "accept" /\ spc' = "serve"
           /\ UNCHANGED <<dataVars, shutdown, wait, ready, serving, batch, userVars>>
<1> DEFINE c == Head(backlog)
<1>1. spc = "accept" /\ backlog # <<>> /\ batch = <<>>
  BY DEF Reject, ServesTheConnected
<1>2. c \in Clients /\ c = backlog[1]
  BY <1>1, TailFacts DEF HogwartsTypes
<1>3. /\ toClient' = SentTo(toClient, c, "ERR") /\ toServer' = [toServer EXCEPT ![c] = <<>>]
      /\ dropped' = [dropped EXCEPT ![c] = TRUE] /\ backlog' = Tail(backlog) /\ spc' = "serve"
      /\ UNCHANGED <<dataVars, shutdown, wait, ready, serving, batch, userVars>>
  BY DEF Reject, Close
<1> HIDE DEF c
<1>4. MaxFailures \in Nat /\ failures \in 0..MaxFailures
  BY HogwartsAssumption DEF HogwartsTypes
<1>5. failures' \in 0..MaxFailures
  BY <1>4 DEF Reject
<1>6. /\ dropped \in [Clients -> BOOLEAN]
      /\ toServer \in [Clients -> Seq(Commands)] /\ toClient \in [Clients -> Seq(Replies)]
  BY DEF HogwartsTypes
<1>7. "ERR" \in Replies
  BY DEF Replies
<1>8. toClient' \in [Clients -> Seq(Replies)] /\ \A d \in Clients : d # c => toClient'[d] = toClient[d]
  BY <1>2, <1>3, <1>6, <1>7, SentToEffect
<1>9. toServer' \in [Clients -> Seq(Commands)] /\ \A d \in Clients : d # c => toServer'[d] = toServer[d]
  BY <1>2, <1>3, <1>6
<1>10. dropped' \in [Clients -> BOOLEAN] /\ \A d \in Clients : dropped'[d] <=> (dropped[d] \/ d = c)
  BY <1>2, <1>3, <1>6
<1> QED BY <1>1, <1>2, <1>3, <1>5, <1>8, <1>9, <1>10

Held(c) == (\E i \in DOMAIN backlog : Waits(i, c)) \/ (\E s \in Slots : Holds(s, c))

\* The process ends: every connection it holds is closed.
Ending ==
    /\ slots' \in [Slots -> Sessions] /\ \A s \in Slots : slots'[s].conn = NoClient
    /\ backlog' = <<>> /\ batch' = <<>> /\ ready' \subseteq ready
    /\ dropped' \in [Clients -> BOOLEAN] /\ \A c \in Clients : dropped'[c] <=> (dropped[c] \/ Held(c))
    /\ toServer' \in [Clients -> Seq(Commands)] /\ toClient' \in [Clients -> Seq(Replies)]
    /\ \A c \in Clients : ~Held(c) => toServer'[c] = toServer[c] /\ toClient'[c] = toClient[c]
    /\ spc \notin Ends /\ spc' \in Ends
    /\ UNCHANGED <<stock, shutdown, wait, serving, failures, userVars>>

\* Both ends of the server, shutdown and SIGPIPE, close every connection.
LEMMA EndingEffect ==
    ASSUME HogwartsTypes, ServesTheConnected, ShutdownAllClients \/ SigpipeKills
    PROVE  Ending
<1> DEFINE open == {slots[s].conn : s \in Used}
           shut == open \cup Range(backlog)
<1>1. \A c \in Clients : c \in open <=> \E s \in Slots : slots[s].conn = c
  BY HogwartsAssumption DEF Used
<1>2. \A c \in Clients : c \in Range(backlog) <=> \E i \in DOMAIN backlog : backlog[i] = c
  BY DEF Range
<1>3. \A c \in Clients : (c \in open \/ c \in Range(backlog)) <=> Held(c)
  BY <1>1, <1>2 DEF Held, Waits, Holds
<1>4. dropped' = [c \in Clients |-> dropped[c] \/ c \in open \/ c \in Range(backlog)]
      /\ toServer' = [c \in Clients |-> IF c \in open \/ c \in Range(backlog) THEN <<>> ELSE toServer[c]]
      /\ backlog' = <<>> /\ slots' = [s \in Slots |-> FreeSlot]
      /\ UNCHANGED <<stock, shutdown, wait, serving, failures, userVars>>
  BY DEF ShutdownAllClients, ProcessEnds, SigpipeKills
<1>5. \/ toClient' = toClient
      \/ toClient' = [c \in Clients |-> IF c \in open THEN SentTo(toClient, c, "SHUTDOWN")[c] ELSE toClient[c]]
  BY DEF ShutdownAllClients, ProcessEnds, SigpipeKills
<1>6. spc \in {"loop", "serve", "accept"} /\ spc' \in {"exited", "killed"}
  BY DEF ShutdownAllClients, SigpipeKills, SendsToGone
<1>7. batch' = <<>> /\ ready' \subseteq ready
  BY DEF ShutdownAllClients, SigpipeKills, ServesTheConnected
<1>8. /\ slots \in [Slots -> Sessions] /\ dropped \in [Clients -> BOOLEAN]
      /\ toServer \in [Clients -> Seq(Commands)] /\ toClient \in [Clients -> Seq(Replies)]
  BY DEF HogwartsTypes
<1>9. \A c \in Clients : SentTo(toClient, c, "SHUTDOWN")[c] \in Seq(Replies)
  <2>1. "SHUTDOWN" \in Replies
    BY DEF Replies, LastLines
  <2> QED BY <1>8, <2>1, SentToEffect
<1> HIDE DEF open, shut
<1>10. toClient' \in [Clients -> Seq(Replies)] /\ \A c \in Clients : ~Held(c) => toClient'[c] = toClient[c]
  BY <1>3, <1>5, <1>8, <1>9
<1>11. toServer' \in [Clients -> Seq(Commands)] /\ \A c \in Clients : ~Held(c) => toServer'[c] = toServer[c]
  BY <1>3, <1>4, <1>8
<1>12. dropped' \in [Clients -> BOOLEAN] /\ \A c \in Clients : dropped'[c] <=> (dropped[c] \/ Held(c))
  BY <1>3, <1>4, <1>8
<1>13. slots' \in [Slots -> Sessions] /\ \A s \in Slots : slots'[s].conn = NoClient
  BY <1>4, FreeSlotType
<1>14. spc \notin Ends /\ spc' \in Ends
  BY <1>6 DEF Ends
<1> QED BY <1>4, <1>7, <1>10, <1>11, <1>12, <1>13, <1>14 DEF Ending

-----------------------------------------------------------------------------
(* What each action of a client does                                       *)

\* A connected client becomes r: a line more is on its way or a reply less, or
\* the client is gone.
ClientMove(c, r) ==
    /\ client[c].pc \in {"connected", "running", "leaving"}
    /\ r \in Processes /\ r.pc \in {"running", "leaving", "gone"}
    /\ client' = [client EXCEPT ![c] = r]
    /\ toServer' \in [Clients -> Seq(Commands)] /\ toClient' \in [Clients -> Seq(Replies)]
    /\ \A d \in Clients : d # c => toServer'[d] = toServer[d] /\ toClient'[d] = toClient[d]
    /\ toServer[c] # <<>> => toServer'[c] # <<>>
    /\ r.pc # "gone" /\ ~dropped[c] =>
         r.pending - client[c].pending =
            (Owed(toServer'[c]) - Owed(toServer[c])) + (Len(toClient'[c]) - Len(toClient[c]))
    /\ typed' \in 0..MaxTyped
    /\ UNCHANGED <<dataVars, loopVars, backlog, dropped>>

\* A client that leaves.
LEMMA LeaveEffect ==
    ASSUME HogwartsTypes, NEW c \in Clients,
           client[c].pc \in {"connected", "running", "leaving"},
           Leave(c), toServer' = toServer, typed' \in 0..MaxTyped,
           UNCHANGED <<dataVars, loopVars, backlog, dropped>>
    PROVE  ClientMove(c, GoneClient)
<1>1. /\ toServer \in [Clients -> Seq(Commands)] /\ toClient \in [Clients -> Seq(Replies)]
  BY DEF HogwartsTypes
<1>2. client' = [client EXCEPT ![c] = GoneClient] /\ toClient' = [toClient EXCEPT ![c] = <<>>]
  BY DEF Leave
<1>3. toClient' \in [Clients -> Seq(Replies)] /\ \A d \in Clients : d # c => toClient'[d] = toClient[d]
  BY <1>1, <1>2
<1> QED BY <1>1, <1>2, <1>3, ClientValues DEF ClientMove

\* A client that sends a line, or fails to.
LEMMA SendLineEffect ==
    ASSUME HogwartsTypes, NEW c \in Clients,
           client[c].pc \in {"connected", "running", "leaving"},
           NEW line \in Commands, NEW after \in Processes,
           after.pc \in {"running", "leaving"}, after.pending = client[c].pending,
           SendLine(c, line, after), typed' \in 0..MaxTyped,
           UNCHANGED <<dataVars, loopVars, backlog, dropped>>
    PROVE  \E r : ClientMove(c, r)
<1>1. /\ toServer \in [Clients -> Seq(Commands)] /\ toClient \in [Clients -> Seq(Replies)]
      /\ client[c] \in Processes
  BY DEF HogwartsTypes
<1>2. CASE dropped[c] /\ Leave(c) /\ UNCHANGED toServer
  BY <1>2, LeaveEffect
<1>3. CASE /\ client' = [client EXCEPT ![c] = [after EXCEPT !.pending = @ + Owed(<<line>>)]]
           /\ toServer' = IF dropped[c] THEN toServer ELSE [toServer EXCEPT ![c] = Append(@, line)]
           /\ UNCHANGED toClient
  <2>0. PICK k \in Nat : k = Owed(<<line>>)
    BY OwedForOne
  <2> DEFINE r == [after EXCEPT !.pending = @ + k]
             q == Append(toServer[c], line)
  <2>1. r \in Processes /\ r.pc \in {"running", "leaving"} /\ r.pending = client[c].pending + k
    <3>1. PICK p \in Int : p = after.pending + k
      BY <2>0 DEF Processes
    <3>2. r = [after EXCEPT !.pending = p]
      BY <3>1
    <3> HIDE DEF r
    <3>3. r \in Processes /\ r.pc = after.pc /\ r.pending = p
      BY <3>2 DEF Processes
    <3> QED BY <3>1, <3>3
  <2>2. q \in Seq(Commands) /\ q # <<>> /\ Owed(q) = Owed(toServer[c]) + k
    <3>1. PICK old \in Seq(Commands) : old = toServer[c]
      BY <1>1
    <3>2. Append(old, line) \in Seq(Commands) /\ Len(Append(old, line)) = Len(old) + 1
      OBVIOUS
    <3>3. Owed(Append(old, line)) = Owed(old) + Owed(<<line>>)
      BY OwedAppend
    <3>4. Append(old, line) # <<>>
      <4>1. Len(old) \in Nat /\ Len(<<>>) = 0
        OBVIOUS
      <4>2. Len(Append(old, line)) # Len(<<>>)
        BY <3>2, <4>1
      <4> QED BY <4>2, Zenon
    <3> QED BY <2>0, <3>1, <3>2, <3>3, <3>4
  <2>3. client' = [client EXCEPT ![c] = r] /\ toClient' = toClient
    BY <1>3, <2>0
  <2>4. toServer' = IF dropped[c] THEN toServer ELSE [toServer EXCEPT ![c] = q]
    BY <1>3
  <2> HIDE DEF r, q
  <2>5. /\ toServer' \in [Clients -> Seq(Commands)]
        /\ \A d \in Clients : d # c => toServer'[d] = toServer[d]
        /\ toServer[c] # <<>> => toServer'[c] # <<>>
        /\ ~dropped[c] => Owed(toServer'[c]) = Owed(toServer[c]) + k
    BY <1>1, <2>2, <2>4
  <2>6. client[c].pending \in Int /\ Owed(toServer[c]) \in Int /\ Len(toClient[c]) \in Int
    <3>1. Owed(toServer[c]) \in Nat /\ Len(toClient[c]) \in Nat
      BY <1>1, QueueSizes
    <3> QED BY <1>1, <3>1 DEF Processes
  <2>7. ~dropped[c] => r.pending - client[c].pending =
            (Owed(toServer'[c]) - Owed(toServer[c])) + (Len(toClient'[c]) - Len(toClient[c]))
    BY <2>1, <2>3, <2>5, <2>6
  <2>8. ClientMove(c, r)
    BY <1>1, <2>1, <2>3, <2>5, <2>7 DEF ClientMove
  <2> QED BY <2>8
<1> QED BY <1>2, <1>3 DEF SendLine

\* Everything a client does after connecting.
LEMMA ClientEffect ==
    ASSUME HogwartsTypes, NEW c \in Clients, User(c) \/ Client(c)
    PROVE  \E r : ClientMove(c, r)
<1>1. client[c] \in Processes /\ typed \in 0..MaxTyped /\ MaxTyped \in Nat
  BY HogwartsAssumption DEF HogwartsTypes
<1>2. \A n \in Names : EnrollLine(c, n) \in Commands
  BY DEF Commands
<1>3. ApparateLine \in Commands /\ \A l \in Lines : l \in Commands
  BY DEF Commands
<1>4. CASE Enroll(c)
  <2>1. PICK n \in Names : SendLine(c, EnrollLine(c, n), [client[c] EXCEPT !.pc = "running"])
    BY <1>4 DEF Enroll
  <2> DEFINE after == [client[c] EXCEPT !.pc = "running"]
  <2>2. after \in Processes /\ after.pc = "running" /\ after.pending = client[c].pending
    BY <1>1 DEF Processes
  <2>3. client[c].pc = "connected" /\ UNCHANGED <<dataVars, loopVars, backlog, dropped, typed>>
    BY <1>4 DEF Enroll
  <2>4. SendLine(c, EnrollLine(c, n), after)
    BY <2>1
  <2> HIDE DEF after
  <2> QED BY <1>1, <1>2, <2>2, <2>3, <2>4, SendLineEffect
<1>5. CASE ReadInput(c)
  <2>1. client[c].pc = "running" /\ UNCHANGED <<dataVars, loopVars, backlog, dropped>>
    BY <1>5 DEF ReadInput
  <2>2. CASE typed < MaxTyped /\ typed' = typed + 1 /\ \E line \in Lines : SendLine(c, line, client[c])
    <3>1. typed' \in 0..MaxTyped
      BY <1>1, <2>2
    <3> QED BY <1>1, <1>3, <2>1, <2>2, <3>1, SendLineEffect
  <2>3. CASE SendLine(c, ApparateLine, [client[c] EXCEPT !.stdin = FALSE]) /\ UNCHANGED typed
    <3> DEFINE after == [client[c] EXCEPT !.stdin = FALSE]
    <3>1. after \in Processes /\ after.pc = "running" /\ after.pending = client[c].pending
      BY <1>1, <2>1 DEF Processes
    <3>2. SendLine(c, ApparateLine, after)
      BY <2>3
    <3> HIDE DEF after
    <3> QED BY <1>1, <1>3, <2>1, <2>3, <3>1, <3>2, SendLineEffect
  <2> QED BY <1>5, <2>2, <2>3 DEF ReadInput
<1>6. CASE SeeExit(c)
  <2>1. client[c].pc = "running" /\ UNCHANGED <<dataVars, loopVars, backlog, dropped, typed>>
    BY <1>6 DEF SeeExit
  <2>2. CASE client[c].stdin
    <3> DEFINE after == [client[c] EXCEPT !.pc = "leaving"]
    <3>1. after \in Processes /\ after.pc = "leaving" /\ after.pending = client[c].pending
      BY <1>1 DEF Processes
    <3>2. SendLine(c, ApparateLine, after)
      BY <1>6, <2>2 DEF SeeExit
    <3> HIDE DEF after
    <3> QED BY <1>1, <1>3, <2>1, <3>1, <3>2, SendLineEffect
  <2>3. CASE ~client[c].stdin
    BY <1>1, <1>6, <2>1, <2>3, LeaveEffect DEF SeeExit
  <2> QED BY <2>2, <2>3
<1>7. CASE ReceiveEnd(c)
  BY <1>1, <1>7, LeaveEffect DEF ReceiveEnd
<1>8. CASE StopWaiting(c)
  BY <1>1, <1>8, LeaveEffect DEF StopWaiting
<1>9. CASE ReceiveLine(c)
  <2>1. client[c].pc \in {"running", "leaving"} /\ toClient[c] # <<>>
        /\ UNCHANGED <<dataVars, loopVars, backlog, toServer, dropped, typed>>
    BY <1>9 DEF ReceiveLine
  <2>2. CASE Head(toClient[c]) \in LastLines
    BY <1>1, <1>9, <2>1, <2>2, LeaveEffect DEF ReceiveLine
  <2>3. CASE Head(toClient[c]) \notin LastLines
    <3> DEFINE r == [client[c] EXCEPT !.pending = @ - 1]
               q == Tail(toClient[c])
    <3>1. client' = [client EXCEPT ![c] = r]
      BY <1>9, <2>3 DEF ReceiveLine, HogwartsTypes
    <3>2. toClient' = [toClient EXCEPT ![c] = q]
      BY <1>9, <2>3 DEF ReceiveLine
    <3>3. r \in Processes /\ r.pc = client[c].pc /\ r.pending = client[c].pending - 1
      BY <1>1 DEF Processes
    <3>4. toServer \in [Clients -> Seq(Commands)] /\ toClient \in [Clients -> Seq(Replies)]
      BY DEF HogwartsTypes
    <3>5. q \in Seq(Replies) /\ Len(q) = Len(toClient[c]) - 1
      BY <2>1, <3>4, TailFacts
    <3> HIDE DEF r, q
    <3>6. /\ toClient' \in [Clients -> Seq(Replies)] /\ Len(toClient'[c]) = Len(toClient[c]) - 1
          /\ \A d \in Clients : d # c => toClient'[d] = toClient[d]
      BY <3>2, <3>4, <3>5
    <3>7. client[c].pending \in Int /\ Owed(toServer[c]) \in Int /\ Len(toClient[c]) \in Int
      <4>1. Owed(toServer[c]) \in Nat /\ Len(toClient[c]) \in Nat
        BY <3>4, QueueSizes
      <4> QED BY <1>1, <4>1 DEF Processes
    <3>8. r.pending - client[c].pending =
            (Owed(toServer'[c]) - Owed(toServer[c])) + (Len(toClient'[c]) - Len(toClient[c]))
      BY <2>1, <3>3, <3>6, <3>7
    <3>9. ClientMove(c, r)
      BY <1>1, <2>1, <3>1, <3>3, <3>4, <3>6, <3>8 DEF ClientMove
    <3> QED BY <3>9
  <2> QED BY <2>2, <2>3
<1> QED BY <1>4, <1>5, <1>6, <1>7, <1>8, <1>9 DEF User, Client

-----------------------------------------------------------------------------
(* The invariant after each kind of step                                   *)

\* A step that keeps connections, backlog and clients, and does not end the
\* server, keeps what is said about connections.
LEMMA ConnectionFrame ==
    ASSUME ConnectionInv, UNCHANGED <<backlog, dropped, client>>,
           \A s \in Slots : slots'[s].conn = slots[s].conn,
           spc' \in Ends <=> spc \in Ends
    PROVE  ConnectionInv'
<1>1. OpenOnce'
  BY DEF ConnectionInv, OpenOnce, Holds
<1>2. OpenIsHeld'
  BY DEF ConnectionInv, OpenIsHeld, Holds, Waits
<1>3. EndedHoldsNothing'
  BY DEF ConnectionInv, EndedHoldsNothing
<1> QED BY <1>1, <1>2, <1>3 DEF ConnectionInv

\* Names and connections that do not change stay unique.
LEMMA NamesFrame ==
    ASSUME NamesAreUnique,
           \A s \in Slots : slots'[s].conn = slots[s].conn /\ slots'[s].name = slots[s].name
    PROVE  NamesAreUnique'
BY DEF NamesAreUnique, Used

\* What select() reports can be received from.
LEMMA ReadySetIsReadable ==
    ASSUME NEW c \in ReadySet
    PROVE  Readable(c) /\ \E s \in Used : slots[s].conn = c
BY DEF ReadySet

\* The server's steps that touch no connection keep the invariant.
LEMMA MovesStep ==
    ASSUME HogwartsInv, Moves
    PROVE  HogwartsInv'
<1> USE DEF HogwartsInv
<1>1. /\ wait' \in 0..Timeout /\ failures' \in 0..MaxFailures
      /\ ready' \subseteq Clients /\ serving' \in Slots \cup {0}
      /\ spc \notin Ends /\ spc' \in {"loop", "timeout", "select", "accept", "serve"}
      /\ UNCHANGED <<dataVars, batch, netVars, userVars>>
  BY MovesEffect
<1>2. /\ slots' = slots /\ stock' = stock /\ batch' = batch /\ backlog' = backlog
      /\ toServer' = toServer /\ toClient' = toClient /\ dropped' = dropped
      /\ client' = client /\ typed' = typed
  BY <1>1 DEF dataVars, netVars, userVars
<1>3. HogwartsTypes'
  BY <1>1, <1>2 DEF HogwartsTypes
<1>4. ConnectionInv'
  <2>1. spc' \in Ends <=> spc \in Ends
    BY <1>1 DEF Ends
  <2> QED BY <1>2, <2>1, ConnectionFrame
<1>5. NamesAreUnique'
  BY <1>2, NamesFrame
<1>6. \/ serving' = serving /\ (batch # <<>> => ready' = ready /\ spc' = spc)
      \/ batch = <<>>
  BY DEF Moves, ComputeSelectTimeout, SelectReady, SelectTimesOut, AcceptFails, RoundEnds, Sigint,
         ServesTheConnected
<1>7. spc' = "accept" => backlog # <<>>
  BY DEF Moves, ComputeSelectTimeout, SelectReady, SelectTimesOut, AcceptFails, RoundEnds, Sigint,
         ServesTheConnected
<1>8. ServesTheConnected'
  BY <1>2, <1>6, <1>7 DEF ServesTheConnected
<1>9. RecvNeverBlocks'
  <2> SUFFICES ASSUME spc' \in {"accept", "serve"}, NEW c \in ready'
               PROVE  Readable(c)' /\ \E s \in Used' : slots'[s].conn = c
    BY DEF RecvNeverBlocks
  <2>1. c \in ReadySet \/ (spc \in {"accept", "serve"} /\ c \in ready)
    BY DEF Moves, ComputeSelectTimeout, SelectReady, SelectTimesOut, AcceptFails, RoundEnds, Sigint
  <2>2. Readable(c) /\ \E s \in Used : slots[s].conn = c
    BY <2>1, ReadySetIsReadable DEF RecvNeverBlocks
  <2> QED BY <1>2, <2>2 DEF Readable, Used
<1>10. EveryLineOwed'
  <2>1. batch # <<>> => Session' = Session
    BY <1>2, <1>6 DEF Session
  <2> QED BY <1>2, <2>1 DEF EveryLineOwed, Balance
<1> QED BY <1>3, <1>4, <1>5, <1>8, <1>9, <1>10

\* The passing of time keeps the invariant.
LEMMA TickStep ==
    ASSUME HogwartsInv, Tick
    PROVE  HogwartsInv'
<1> USE DEF HogwartsInv
<1>1. /\ slots' \in [Slots -> Sessions] /\ wait' \in 0..Timeout
      /\ \A s \in Slots : slots'[s].conn = slots[s].conn /\ slots'[s].name = slots[s].name
      /\ UNCHANGED <<stock, shutdown, spc, ready, serving, batch, failures, netVars, userVars>>
  BY TickEffect
<1>2. /\ stock' = stock /\ batch' = batch /\ backlog' = backlog /\ spc' = spc /\ ready' = ready
      /\ serving' = serving /\ failures' = failures
      /\ toServer' = toServer /\ toClient' = toClient /\ dropped' = dropped
      /\ client' = client /\ typed' = typed
  BY <1>1 DEF netVars, userVars
<1>3. HogwartsTypes'
  BY <1>1, <1>2 DEF HogwartsTypes
<1>4. ConnectionInv'
  BY <1>1, <1>2, ConnectionFrame
<1>5. NamesAreUnique'
  BY <1>1, NamesFrame
<1>6. ServesTheConnected'
  BY <1>1, <1>2 DEF ServesTheConnected
<1>7. RecvNeverBlocks'
  BY <1>1, <1>2 DEF RecvNeverBlocks, Readable, Used
<1>8. EveryLineOwed'
  <2>1. batch # <<>> => (Session.conn)' = Session.conn
    BY <1>1, <1>2 DEF Session, ServesTheConnected
  <2> QED BY <1>2, <2>1 DEF EveryLineOwed, Balance
<1> QED BY <1>3, <1>4, <1>5, <1>6, <1>7, <1>8

\* recv_line reading what a client sent keeps the invariant.
LEMMA RecvStep ==
    ASSUME HogwartsInv, Recv
    PROVE  HogwartsInv'
<1> USE DEF HogwartsInv
<1>1. PICK k \in Slots, c \in ready, n \in Nat :
             /\ slots[k].conn = c /\ serving' = k /\ ready' = ready \ {c}
             /\ batch' \in Seq(Commands) /\ batch' # <<>> /\ batch = <<>>
             /\ toServer' \in [Clients -> Seq(Commands)]
             /\ Owed(batch') = n /\ Owed(toServer'[c]) = Owed(toServer[c]) - n
             /\ \A d \in Clients : d # c => toServer'[d] = toServer[d]
             /\ spc = "serve"
             /\ UNCHANGED <<dataVars, shutdown, spc, wait, failures, backlog, toClient, dropped, userVars>>
  BY RecvEffect
<1>2. /\ slots' = slots /\ stock' = stock /\ spc' = spc /\ wait' = wait /\ failures' = failures
      /\ backlog' = backlog /\ toClient' = toClient /\ dropped' = dropped
      /\ client' = client /\ typed' = typed
  BY <1>1 DEF dataVars, userVars
<1>3. c \in Clients
  BY DEF HogwartsTypes
<1>4. HogwartsTypes'
  BY <1>1, <1>2 DEF HogwartsTypes
<1>5. ConnectionInv' /\ NamesAreUnique'
  BY <1>2, ConnectionFrame, NamesFrame
<1>6. ServesTheConnected'
  BY <1>1, <1>2, <1>3 DEF ServesTheConnected
<1>7. RecvNeverBlocks'
  <2> SUFFICES ASSUME NEW d \in ready' PROVE Readable(d)' /\ \E s \in Used' : slots'[s].conn = d
    BY DEF RecvNeverBlocks
  <2>1. d \in ready /\ d # c /\ d \in Clients
    BY <1>1 DEF HogwartsTypes
  <2>2. Readable(d) /\ \E s \in Used : slots[s].conn = d
    BY <1>1, <2>1 DEF RecvNeverBlocks
  <2> QED BY <1>1, <1>2, <2>1, <2>2 DEF Readable, Used
<1>8. EveryLineOwed'
  <2> SUFFICES ASSUME NEW d \in Clients
               PROVE  /\ client[d].pc # "gone" /\ ~dropped[d] => Balance(d)'
                      /\ client[d].pc \in {"new", "connected"} => client[d].pending = 0
    BY <1>2 DEF EveryLineOwed
  <2>1. client[d].pc \in {"new", "connected"} => client[d].pending = 0
    BY DEF EveryLineOwed
  <2>2. ASSUME client[d].pc # "gone", ~dropped[d] PROVE Balance(d)'
    <3>1. client[d].pending = Owed(toServer[d]) + Len(toClient[d]) + 0
      BY <1>1, <2>2 DEF EveryLineOwed, Balance
    <3>2. (Session.conn)' = c /\ batch' # <<>>
      BY <1>1, <1>2 DEF Session
    <3>3. Owed(toServer[d]) \in Nat /\ Len(toClient[d]) \in Nat
      BY QueueSizes DEF HogwartsTypes
    <3>4. CASE d = c
      <4>1. Owed(toServer'[d]) = Owed(toServer[d]) - n /\ Owed(batch') = n
        BY <1>1, <3>4
      <4>2. Balance(d)' <=> client'[d].pending = Owed(toServer'[d]) + Len(toClient'[d]) + Owed(batch')
        BY <3>2, <3>4 DEF Balance
      <4> QED BY <1>2, <3>1, <3>3, <4>1, <4>2
    <3>5. CASE d # c
      <4>1. Balance(d)' <=> client'[d].pending = Owed(toServer'[d]) + Len(toClient'[d]) + 0
        BY <3>2, <3>5 DEF Balance
      <4> QED BY <1>1, <1>2, <3>1, <3>5, <4>1
    <3> QED BY <3>4, <3>5
  <2> QED BY <2>1, <2>2
<1> QED BY <1>4, <1>5, <1>6, <1>7, <1>8

\* Nothing is owed to somebody who has sent nothing.
LEMMA NothingOwed ==
    ASSUME NEW a \in Nat, NEW b \in Nat, NEW n \in Nat, 0 = a + b + n
    PROVE  a = 0 /\ b = 0 /\ 0 = a + b + 0
OBVIOUS

\* What is owed grows by what is sent and shrinks by what is received.
LEMMA OwedShifts ==
    ASSUME NEW p \in Int, NEW q \in Int, NEW a \in Nat, NEW b \in Nat,
           NEW a2 \in Nat, NEW b2 \in Nat, NEW n \in Nat,
           p = a + b + n, q - p = (a2 - a) + (b2 - b)
    PROVE  q = a2 + b2 + n
OBVIOUS

\* A line less to handle and a reply more on its way.
LEMMA LineBecomesReply ==
    ASSUME NEW a \in Nat, NEW b \in Nat, NEW n \in Nat
    PROVE  a + b + n = a + (b + 1) + (n - 1)
OBVIOUS

\* The handlers of ENROLL, BREW, CONSUME and the reports keep the invariant.
LEMMA AnswersStep ==
    ASSUME HogwartsInv, Answers
    PROVE  HogwartsInv'
<1> USE DEF HogwartsInv
<1>1. batch # <<>> /\ HasWord(Head(batch)) /\ stock' \in [Ingredients -> Int]
  BY AnswersEffect
<1>2. PICK new \in Sessions, reply \in Replies :
         Handled(new, reply) /\ new.conn = Session.conn /\ Renames(new)
  BY AnswersEffect
<1>3. /\ serving \in Slots /\ slots[serving].conn \in Clients \ ready /\ spc = "serve"
      /\ slots' \in [Slots -> Sessions] /\ slots'[serving] = new
      /\ \A s \in Slots : s # serving => slots'[s] = slots[s]
      /\ \A s \in Slots : slots'[s].conn = slots[s].conn
      /\ toClient' \in [Clients -> Seq(Replies)]
      /\ \A d \in Clients : d # slots[serving].conn => toClient'[d] = toClient[d]
      /\ client[slots[serving].conn].pc # "gone" =>
            Len(toClient'[slots[serving].conn]) = Len(toClient[slots[serving].conn]) + 1
      /\ batch' \in Seq(Commands) /\ Owed(batch') = Owed(batch) - 1
      /\ UNCHANGED <<shutdown, spc, wait, ready, serving, failures, backlog, toServer, dropped, userVars>>
  BY <1>1, <1>2, HandledEffect
<1>4. /\ spc' = spc /\ wait' = wait /\ ready' = ready /\ serving' = serving /\ failures' = failures
      /\ backlog' = backlog /\ toServer' = toServer /\ dropped' = dropped
      /\ client' = client /\ typed' = typed
  BY <1>3 DEF userVars
<1>5. HogwartsTypes'
  BY <1>1, <1>3, <1>4 DEF HogwartsTypes
<1>6. ConnectionInv'
  BY <1>3, <1>4, ConnectionFrame
<1>7. NamesAreUnique'
  <2> SUFFICES ASSUME NEW s \in Slots, NEW t \in Slots, s # t,
                      slots[s].conn # NoClient, slots[t].conn # NoClient
               PROVE  /\ slots'[s].conn # slots'[t].conn
                      /\ slots'[s].name # NoName => slots'[s].name # slots'[t].name
    BY <1>3 DEF NamesAreUnique, Used
  <2>1. s \in Used /\ t \in Used
    BY DEF Used
  <2>2. slots[s].conn # slots[t].conn /\ (slots[s].name # NoName => slots[s].name # slots[t].name)
        /\ (slots[t].name # NoName => slots[t].name # slots[s].name)
    BY <2>1 DEF NamesAreUnique
  <2>3. new.name = slots[serving].name
        \/ (slots[serving].name = NoName /\ \A u \in Used : slots[u].name # new.name)
    BY <1>2 DEF Renames, UsernameExists, Session
  <2> QED BY <1>3, <2>1, <2>2, <2>3
<1>8. ServesTheConnected'
  BY <1>3, <1>4 DEF ServesTheConnected
<1>9. RecvNeverBlocks'
  BY <1>3, <1>4 DEF RecvNeverBlocks, Readable, Used
<1>10. EveryLineOwed'
  <2> DEFINE c == slots[serving].conn
  <2> SUFFICES ASSUME NEW d \in Clients
               PROVE  /\ client[d].pc # "gone" /\ ~dropped[d] => Balance(d)'
                      /\ client[d].pc \in {"new", "connected"} => client[d].pending = 0
    BY <1>4 DEF EveryLineOwed
  <2>1. client[d].pc \in {"new", "connected"} => client[d].pending = 0
    BY DEF EveryLineOwed
  <2>2. ASSUME client[d].pc # "gone", ~dropped[d] PROVE Balance(d)'
    <3>1. Balance(d)
      BY <2>2 DEF EveryLineOwed
    <3>2. (Session.conn)' = c /\ Session.conn = c
      BY <1>3, <1>4 DEF Session
    <3>3. Owed(toServer[d]) \in Nat /\ Len(toClient[d]) \in Nat /\ Owed(batch) \in Nat
      <4>1. Owed(toServer[d]) \in Nat /\ Len(toClient[d]) \in Nat
        BY QueueSizes DEF HogwartsTypes
      <4>2. batch \in Seq(Commands)
        BY DEF HogwartsTypes
      <4> QED BY <4>1, <4>2, OwedType
    <3>4. CASE d = c
      <4>1. client[d].pending = Owed(toServer[d]) + Len(toClient[d]) + Owed(batch)
        BY <1>1, <3>1, <3>2, <3>4 DEF Balance
      <4>2. Len(toClient'[d]) = Len(toClient[d]) + 1 /\ Owed(batch') = Owed(batch) - 1
        BY <1>3, <2>2, <3>4
      <4>3. (batch' = <<>> => Owed(batch') = 0) /\ Owed(batch') \in Int
        <5>1. PICK b \in Seq(Commands) : b = batch'
          BY <1>3
        <5>2. Owed(b) \in Nat /\ (b = <<>> => Owed(b) = 0)
          BY OwedType
        <5> QED BY <5>1, <5>2
      <4>4. Balance(d)' <=> client'[d].pending = Owed(toServer'[d]) + Len(toClient'[d])
                                  + (IF batch' # <<>> THEN Owed(batch') ELSE 0)
        BY <3>2, <3>4 DEF Balance
      <4>5. (IF batch' # <<>> THEN Owed(batch') ELSE 0) = Owed(batch) - 1
        BY <4>2, <4>3
      <4>6. client'[d].pending = client[d].pending /\ Owed(toServer'[d]) = Owed(toServer[d])
        BY <1>4
      <4>7. Owed(toServer[d]) + Len(toClient[d]) + Owed(batch)
               = Owed(toServer[d]) + (Len(toClient[d]) + 1) + (Owed(batch) - 1)
        BY <3>3, LineBecomesReply
      <4> QED BY <4>1, <4>2, <4>4, <4>5, <4>6, <4>7
    <3>5. CASE d # c
      <4>1. client[d].pending = Owed(toServer[d]) + Len(toClient[d]) + 0
        BY <3>1, <3>2, <3>5 DEF Balance
      <4>2. Balance(d)' <=> client'[d].pending = Owed(toServer'[d]) + Len(toClient'[d]) + 0
        BY <3>2, <3>5 DEF Balance
      <4>3. toClient'[d] = toClient[d]
        BY <1>3, <3>5
      <4> QED BY <1>4, <4>1, <4>2, <4>3
    <3> QED BY <3>4, <3>5
  <2> QED BY <2>1, <2>2
<1> QED BY <1>5, <1>6, <1>7, <1>8, <1>9, <1>10

\* A line of blanks is taken from the batch; nobody is told and nothing is owed.
LEMMA BlankStep ==
    ASSUME HogwartsInv, HandleBlank
    PROVE  HogwartsInv'
<1> USE DEF HogwartsInv
<1>1. batch # <<>> /\ ~HasWord(Head(batch)) /\ spc = "serve"
  BY DEF HandleBlank, Handling, HasWord
<1>2. serving \in Slots /\ slots[serving].conn \in Clients \ ready
  BY <1>1 DEF ServesTheConnected
<1>3. /\ slots' = [slots EXCEPT ![serving] = Active] /\ batch' = Tail(batch)
      /\ stock' = stock /\ spc' = spc /\ wait' = wait /\ ready' = ready /\ serving' = serving
      /\ failures' = failures /\ backlog' = backlog /\ toServer' = toServer /\ toClient' = toClient
      /\ dropped' = dropped /\ client' = client /\ typed' = typed
  BY DEF HandleBlank, netVars, userVars
<1>4. slots \in [Slots -> Sessions] /\ batch \in Seq(Commands)
  BY DEF HogwartsTypes
<1>5. Active \in Sessions /\ Active.conn = slots[serving].conn /\ Active.name = slots[serving].name
  BY <1>2, SessionFacts
<1>6. /\ slots' \in [Slots -> Sessions]
      /\ \A s \in Slots : slots'[s].conn = slots[s].conn /\ slots'[s].name = slots[s].name
  BY <1>2, <1>3, <1>4, <1>5
<1>7. batch' \in Seq(Commands) /\ Owed(batch') = Owed(batch) /\ (batch' = <<>> => Owed(batch') = 0)
  <2>1. Tail(batch) \in Seq(Commands)
    BY <1>1, <1>4, TailFacts
  <2>2. Owed(batch) = Owed(<<Head(batch)>>) + Owed(Tail(batch))
    BY <1>1, <1>4, OwedTail
  <2>3. Owed(<<Head(batch)>>) = 0
    BY <1>1, OwedForOne
  <2>4. Owed(Tail(batch)) \in Nat /\ (Tail(batch) = <<>> => Owed(Tail(batch)) = 0)
    BY <2>1, OwedType
  <2> QED BY <1>3, <2>1, <2>2, <2>3, <2>4
<1>8. HogwartsTypes'
  BY <1>3, <1>6, <1>7 DEF HogwartsTypes
<1>9. ConnectionInv'
  BY <1>1, <1>3, <1>6, ConnectionFrame
<1>10. NamesAreUnique'
  BY <1>6 DEF NamesAreUnique, Used
<1>11. ServesTheConnected'
  BY <1>1, <1>2, <1>3, <1>6 DEF ServesTheConnected
<1>12. RecvNeverBlocks'
  BY <1>3, <1>6 DEF RecvNeverBlocks, Readable, Used
<1>13. EveryLineOwed'
  <2> SUFFICES ASSUME NEW d \in Clients
               PROVE  /\ client[d].pc # "gone" /\ ~dropped[d] => Balance(d)'
                      /\ client[d].pc \in {"new", "connected"} => client[d].pending = 0
    BY <1>3 DEF EveryLineOwed
  <2>1. client[d].pc \in {"new", "connected"} => client[d].pending = 0
    BY DEF EveryLineOwed
  <2>2. ASSUME client[d].pc # "gone", ~dropped[d] PROVE Balance(d)'
    <3>1. Balance(d)
      BY <2>2 DEF EveryLineOwed
    <3>2. (Session.conn)' = Session.conn
      BY <1>2, <1>3, <1>6 DEF Session
    <3> DEFINE n  == IF batch # <<>> /\ Session.conn = d THEN Owed(batch) ELSE 0
               n2 == IF batch' # <<>> /\ Session.conn = d THEN Owed(batch') ELSE 0
    <3>3. n = n2
      BY <1>1, <1>7
    <3>4. client[d].pending = Owed(toServer[d]) + Len(toClient[d]) + n
      BY <3>1 DEF Balance
    <3>5. Balance(d)' <=> client'[d].pending = Owed(toServer'[d]) + Len(toClient'[d]) + n2
      BY <3>2 DEF Balance
    <3> HIDE DEF n, n2
    <3> QED BY <1>3, <3>3, <3>4, <3>5
  <2> QED BY <2>1, <2>2
<1> QED BY <1>8, <1>9, <1>10, <1>11, <1>12, <1>13

\* Connections of the table are closed.
LEMMA ClosingStep ==
    ASSUME HogwartsInv, NEW D, Closing(D)
    PROVE  HogwartsInv'
<1> USE DEF HogwartsInv
<1>1. /\ \A c \in D : c \in Clients /\ \E s \in Slots : slots[s].conn = c
      /\ slots' \in [Slots -> Sessions]
      /\ \A s \in Slots : IF slots[s].conn \in D THEN slots'[s].conn = NoClient ELSE slots'[s] = slots[s]
      /\ dropped' \in [Clients -> BOOLEAN] /\ \A c \in Clients : dropped'[c] <=> (dropped[c] \/ c \in D)
  BY DEF Closing
<1>2. /\ toServer' \in [Clients -> Seq(Commands)] /\ toClient' \in [Clients -> Seq(Replies)]
      /\ \A c \in Clients \ D : toServer'[c] = toServer[c] /\ toClient'[c] = toClient[c]
      /\ batch' = <<>> /\ (batch = <<>> \/ Session.conn \in D)
  BY DEF Closing
<1>3. /\ spc \notin Ends /\ spc' \in {"timeout", "serve"}
      /\ ready' \subseteq ready /\ (spc' = "serve" => spc = "serve" /\ ready' \cap D = {})
  BY DEF Closing
<1>4. /\ stock' = stock /\ wait' = wait /\ serving' = serving /\ failures' = failures
      /\ backlog' = backlog /\ client' = client /\ typed' = typed
  BY DEF Closing, userVars
<1>5. HogwartsTypes'
  <2>1. batch' \in Seq(Commands) /\ ready' \subseteq Clients
    BY <1>2, <1>3 DEF HogwartsTypes
  <2> QED BY <1>1, <1>2, <1>3, <1>4, <2>1 DEF HogwartsTypes
<1>6. ConnectionInv'
  <2>1. \A i \in DOMAIN backlog : backlog[i] \in Clients
    BY DEF HogwartsTypes
  <2>2. \A i \in DOMAIN backlog : backlog[i] \notin D
    BY <1>1 DEF ConnectionInv, OpenOnce, Holds
  <2>3. NoClient \notin D
    BY <1>1, HogwartsAssumption
  <2>4. \A s \in Slots : slots[s].conn \in Clients \cup {NoClient}
    BY DEF HogwartsTypes, Sessions
  <2>5. OpenOnce'
    <3>1. \A i, j \in DOMAIN backlog' : backlog'[i] = backlog'[j] => i = j
      BY <1>4 DEF ConnectionInv, OpenOnce
    <3>2. ASSUME NEW i \in DOMAIN backlog
          PROVE  /\ client'[backlog'[i]].pc # "new" /\ ~dropped'[backlog'[i]]
                 /\ \A s \in Slots : ~Holds(s, backlog[i])'
      <4>1. backlog[i] \in Clients /\ backlog[i] \notin D
        BY <2>1, <2>2
      <4>2. client[backlog[i]].pc # "new" /\ ~dropped[backlog[i]] /\ \A s \in Slots : slots[s].conn # backlog[i]
        BY DEF ConnectionInv, OpenOnce, Holds
      <4>3. \A s \in Slots : slots'[s].conn # backlog[i]
        BY <1>1, <4>1, <4>2, HogwartsAssumption
      <4> QED BY <1>1, <1>4, <4>1, <4>2, <4>3 DEF Holds
    <3>3. ASSUME NEW s \in Slots, slots'[s].conn # NoClient
          PROVE  client'[slots'[s].conn].pc # "new" /\ ~dropped'[slots'[s].conn]
      <4>1. slots[s].conn \notin D /\ slots'[s] = slots[s]
        BY <1>1, <3>3
      <4>2. slots[s].conn \in Clients
        BY <2>4, <3>3, <4>1
      <4>3. client[slots[s].conn].pc # "new" /\ ~dropped[slots[s].conn]
        BY <3>3, <4>1 DEF ConnectionInv, OpenOnce
      <4> QED BY <1>1, <1>4, <4>1, <4>2, <4>3
    <3> QED BY <1>4, <3>1, <3>2, <3>3 DEF OpenOnce
  <2>6. OpenIsHeld'
    <3> SUFFICES ASSUME NEW c \in Clients
                 PROVE  /\ client[c].pc # "new" /\ ~dropped'[c] /\ ~(client[c].pc = "gone" /\ spc' \in Ends) =>
                              (\E i \in DOMAIN backlog : backlog[i] = c) \/ (\E s \in Slots : slots'[s].conn = c)
                        /\ client[c].pc = "new" => ~dropped'[c]
      BY <1>4 DEF OpenIsHeld, Waits, Holds
    <3>1. ASSUME client[c].pc # "new", ~dropped'[c]
          PROVE  (\E i \in DOMAIN backlog : backlog[i] = c) \/ (\E s \in Slots : slots'[s].conn = c)
      <4>1. ~dropped[c] /\ c \notin D
        BY <1>1, <3>1
      <4>2. (\E i \in DOMAIN backlog : backlog[i] = c) \/ (\E s \in Slots : slots[s].conn = c)
        BY <1>3, <3>1, <4>1 DEF ConnectionInv, OpenIsHeld, Waits, Holds
      <4> QED BY <1>1, <4>1, <4>2
    <3>2. ASSUME client[c].pc = "new" PROVE ~dropped'[c]
      <4>1. ~dropped[c]
        BY <3>2 DEF ConnectionInv, OpenIsHeld
      <4>2. c \notin D
        BY <1>1, <3>2, HogwartsAssumption DEF ConnectionInv, OpenOnce
      <4> QED BY <1>1, <4>1, <4>2
    <3> QED BY <3>1, <3>2
  <2>7. EndedHoldsNothing'
    BY <1>3 DEF EndedHoldsNothing, Ends
  <2> QED BY <2>5, <2>6, <2>7 DEF ConnectionInv
<1>7. NamesAreUnique'
  <2>1. \A s \in Slots : slots'[s].conn # NoClient => slots'[s] = slots[s]
    BY <1>1
  <2> QED BY <2>1 DEF NamesAreUnique, Used
<1>8. ServesTheConnected'
  BY <1>2, <1>3 DEF ServesTheConnected
<1>9. RecvNeverBlocks'
  <2> SUFFICES ASSUME spc' \in {"accept", "serve"}, NEW c \in ready'
               PROVE  Readable(c)' /\ \E s \in Used' : slots'[s].conn = c
    BY DEF RecvNeverBlocks
  <2>1. c \in ready /\ c \notin D /\ c \in Clients /\ spc = "serve"
    BY <1>3 DEF HogwartsTypes
  <2>2. Readable(c) /\ \E s \in Used : slots[s].conn = c
    BY <2>1 DEF RecvNeverBlocks
  <2>3. PICK s \in Used : slots[s].conn = c
    BY <2>2
  <2>4. s \in Slots /\ slots'[s] = slots[s] /\ s \in Used'
    BY <1>1, <2>1, <2>3 DEF Used
  <2>5. Readable(c)'
    BY <1>2, <1>4, <2>1, <2>2 DEF Readable
  <2> QED BY <2>3, <2>4, <2>5
<1>10. EveryLineOwed'
  <2> SUFFICES ASSUME NEW d \in Clients
               PROVE  /\ client[d].pc # "gone" /\ ~dropped'[d] => Balance(d)'
                      /\ client[d].pc \in {"new", "connected"} => client[d].pending = 0
    BY <1>4 DEF EveryLineOwed
  <2>1. client[d].pc \in {"new", "connected"} => client[d].pending = 0
    BY DEF EveryLineOwed
  <2>2. ASSUME client[d].pc # "gone", ~dropped'[d] PROVE Balance(d)'
    <3>1. ~dropped[d] /\ d \notin D
      BY <1>1, <2>2
    <3>2. Balance(d) /\ (batch = <<>> \/ Session.conn # d)
      BY <1>2, <2>2, <3>1 DEF EveryLineOwed
    <3>3. client[d].pending = Owed(toServer[d]) + Len(toClient[d]) + 0
      BY <3>2 DEF Balance
    <3>4. Balance(d)' <=> client'[d].pending = Owed(toServer'[d]) + Len(toClient'[d]) + 0
      BY <1>2 DEF Balance
    <3>5. toServer'[d] = toServer[d] /\ toClient'[d] = toClient[d]
      BY <1>2, <3>1
    <3> QED BY <1>4, <3>3, <3>4, <3>5
  <2> QED BY <2>1, <2>2
<1> QED BY <1>5, <1>6, <1>7, <1>8, <1>9, <1>10

\* Accepting a connection into a free slot keeps the invariant.
LEMMA AcceptStep ==
    ASSUME HogwartsInv, Accept
    PROVE  HogwartsInv'
<1> USE DEF HogwartsInv
<1>1. PICK k \in Slots :
             /\ slots[k].conn = NoClient /\ backlog # <<>>
             /\ slots' \in [Slots -> Sessions] /\ slots'[k].conn = backlog[1] /\ slots'[k].name = NoName
             /\ \A s \in Slots : s # k => slots'[s] = slots[s]
             /\ backlog' = Tail(backlog) /\ batch = <<>>
             /\ spc = "accept" /\ spc' = "serve"
             /\ UNCHANGED <<stock, shutdown, wait, ready, serving, batch, failures,
                            toServer, toClient, dropped, userVars>>
  BY AcceptEffect
<1>2. /\ stock' = stock /\ wait' = wait /\ ready' = ready /\ serving' = serving /\ batch' = batch
      /\ failures' = failures /\ toServer' = toServer /\ toClient' = toClient /\ dropped' = dropped
      /\ client' = client /\ typed' = typed
  BY <1>1 DEF userVars
<1>3. backlog \in Seq(Clients)
  BY DEF HogwartsTypes
<1>4. /\ 1 \in DOMAIN backlog /\ backlog' \in Seq(Clients)
      /\ \A i \in DOMAIN backlog' : i \in Nat /\ i + 1 \in DOMAIN backlog /\ backlog'[i] = backlog[i + 1] /\ i + 1 # 1
      /\ \A i \in DOMAIN backlog : i # 1 => \E j \in DOMAIN backlog' : backlog'[j] = backlog[i]
  BY <1>1, <1>3, TailFacts
<1>5. /\ \A i, j \in DOMAIN backlog : backlog[i] = backlog[j] => i = j
      /\ \A i \in DOMAIN backlog : /\ client[backlog[i]].pc # "new" /\ ~dropped[backlog[i]]
                                   /\ \A s \in Slots : slots[s].conn # backlog[i]
      /\ \A s \in Slots : slots[s].conn # NoClient =>
                             client[slots[s].conn].pc # "new" /\ ~dropped[slots[s].conn]
  BY DEF ConnectionInv, OpenOnce, Holds
<1>6. backlog[1] \in Clients /\ backlog[1] # NoClient
  BY <1>3, <1>4, HogwartsAssumption
<1>7. HogwartsTypes'
  BY <1>1, <1>2, <1>4 DEF HogwartsTypes
<1>8. ConnectionInv'
  <2>1. ASSUME NEW i \in DOMAIN backlog', NEW j \in DOMAIN backlog', backlog'[i] = backlog'[j] PROVE i = j
    <3>1. i + 1 = j + 1
      BY <1>4, <1>5, <2>1
    <3> QED BY <1>4, <3>1
  <2>2. ASSUME NEW i \in DOMAIN backlog'
        PROVE  /\ client'[backlog'[i]].pc # "new" /\ ~dropped'[backlog'[i]]
               /\ \A s \in Slots : slots'[s].conn # backlog'[i]
    <3>1. i + 1 \in DOMAIN backlog /\ backlog'[i] = backlog[i + 1] /\ i + 1 # 1
      BY <1>4
    <3>2. backlog[i + 1] # backlog[1]
      BY <1>4, <1>5, <3>1
    <3> QED BY <1>1, <1>2, <1>5, <3>1, <3>2
  <2>3. \A s \in Slots : slots'[s].conn # NoClient =>
                             client'[slots'[s].conn].pc # "new" /\ ~dropped'[slots'[s].conn]
    BY <1>1, <1>2, <1>4, <1>5
  <2>4. OpenOnce'
    BY <2>1, <2>2, <2>3 DEF OpenOnce, Holds
  <2>5. OpenIsHeld'
    <3> SUFFICES ASSUME NEW c \in Clients
                 PROVE  /\ client[c].pc # "new" /\ ~dropped[c] =>
                              (\E i \in DOMAIN backlog' : backlog'[i] = c) \/ (\E s \in Slots : slots'[s].conn = c)
                        /\ client[c].pc = "new" => ~dropped[c]
      BY <1>2 DEF OpenIsHeld, Waits, Holds
    <3>1. ASSUME client[c].pc # "new", ~dropped[c]
          PROVE  (\E i \in DOMAIN backlog' : backlog'[i] = c) \/ (\E s \in Slots : slots'[s].conn = c)
      <4>1. (\E i \in DOMAIN backlog : backlog[i] = c) \/ (\E s \in Slots : slots[s].conn = c)
        BY <1>1, <3>1 DEF ConnectionInv, OpenIsHeld, Waits, Holds, Ends
      <4>2. ASSUME NEW i \in DOMAIN backlog, backlog[i] = c
            PROVE  (\E j \in DOMAIN backlog' : backlog'[j] = c) \/ (\E s \in Slots : slots'[s].conn = c)
        <5>1. CASE i = 1
          BY <1>1, <4>2, <5>1
        <5>2. CASE i # 1
          BY <1>4, <4>2, <5>2
        <5> QED BY <5>1, <5>2
      <4>3. ASSUME NEW s \in Slots, slots[s].conn = c PROVE slots'[s].conn = c
        <5>1. s # k
          BY <1>1, <4>3, HogwartsAssumption
        <5> QED BY <1>1, <4>3, <5>1
      <4> QED BY <4>1, <4>2, <4>3
    <3>2. client[c].pc = "new" => ~dropped[c]
      BY DEF ConnectionInv, OpenIsHeld
    <3> QED BY <3>1, <3>2
  <2>6. EndedHoldsNothing'
    BY <1>1 DEF EndedHoldsNothing, Ends
  <2> QED BY <2>4, <2>5, <2>6 DEF ConnectionInv
<1>9. NamesAreUnique'
  <2> SUFFICES ASSUME NEW s \in Slots, NEW t \in Slots, s # t,
                      slots'[s].conn # NoClient, slots'[t].conn # NoClient
               PROVE  /\ slots'[s].conn # slots'[t].conn
                      /\ slots'[s].name # NoName => slots'[s].name # slots'[t].name
    BY DEF NamesAreUnique, Used
  <2>1. CASE s = k
    <3>1. slots'[t] = slots[t] /\ slots[t].conn # backlog[1]
      BY <1>1, <1>4, <1>5, <2>1
    <3> QED BY <1>1, <2>1, <3>1
  <2>2. CASE t = k
    <3>1. slots'[s] = slots[s] /\ slots[s].conn # backlog[1]
      BY <1>1, <1>4, <1>5, <2>2
    <3> QED BY <1>1, <2>2, <3>1
  <2>3. CASE s # k /\ t # k
    BY <1>1, <2>3 DEF NamesAreUnique, Used
  <2> QED BY <2>1, <2>2, <2>3
<1>10. ServesTheConnected'
  BY <1>1, <1>2 DEF ServesTheConnected
<1>11. RecvNeverBlocks'
  <2> SUFFICES ASSUME NEW c \in ready PROVE Readable(c)' /\ \E s \in Used' : slots'[s].conn = c
    BY <1>2 DEF RecvNeverBlocks
  <2>1. Readable(c) /\ \E s \in Used : slots[s].conn = c
    BY <1>1 DEF RecvNeverBlocks
  <2>2. PICK s \in Used : slots[s].conn = c
    BY <2>1
  <2>3. s \in Slots /\ s # k /\ slots'[s] = slots[s] /\ s \in Used'
    BY <1>1, <2>2 DEF Used
  <2> QED BY <1>2, <2>1, <2>2, <2>3 DEF Readable
<1>12. EveryLineOwed'
  BY <1>1, <1>2 DEF EveryLineOwed, Balance
<1> QED BY <1>7, <1>8, <1>9, <1>10, <1>11, <1>12

\* Refusing a connection when every slot is taken keeps the invariant.
LEMMA RejectStep ==
    ASSUME HogwartsInv, Reject
    PROVE  HogwartsInv'
<1> USE DEF HogwartsInv
<1>1. /\ backlog # <<>> /\ backlog[1] \in Clients /\ backlog' = Tail(backlog) /\ batch = <<>>
      /\ failures' \in 0..MaxFailures
      /\ dropped' \in [Clients -> BOOLEAN]
      /\ \A c \in Clients : dropped'[c] <=> (dropped[c] \/ c = backlog[1])
      /\ toServer' \in [Clients -> Seq(Commands)] /\ toClient' \in [Clients -> Seq(Replies)]
      /\ \A c \in Clients : c # backlog[1] => toServer'[c] = toServer[c] /\ toClient'[c] = toClient[c]
      /\ spc = "accept" /\ spc' = "serve"
      /\ UNCHANGED <<dataVars, shutdown, wait, ready, serving, batch, userVars>>
  BY RejectEffect
<1>2. /\ stock' = stock /\ slots' = slots /\ wait' = wait /\ ready' = ready /\ serving' = serving
      /\ batch' = batch /\ client' = client /\ typed' = typed
  BY <1>1 DEF dataVars, userVars
<1>3. backlog \in Seq(Clients)
  BY DEF HogwartsTypes
<1>4. /\ 1 \in DOMAIN backlog /\ backlog' \in Seq(Clients)
      /\ \A i \in DOMAIN backlog' : i \in Nat /\ i + 1 \in DOMAIN backlog /\ backlog'[i] = backlog[i + 1] /\ i + 1 # 1
      /\ \A i \in DOMAIN backlog : i # 1 => \E j \in DOMAIN backlog' : backlog'[j] = backlog[i]
  BY <1>1, <1>3, TailFacts
<1>5. /\ \A i, j \in DOMAIN backlog : backlog[i] = backlog[j] => i = j
      /\ \A i \in DOMAIN backlog : /\ client[backlog[i]].pc # "new" /\ ~dropped[backlog[i]]
                                   /\ \A s \in Slots : slots[s].conn # backlog[i]
      /\ \A s \in Slots : slots[s].conn # NoClient =>
                             client[slots[s].conn].pc # "new" /\ ~dropped[slots[s].conn]
  BY DEF ConnectionInv, OpenOnce, Holds
<1>6. \A i \in DOMAIN backlog : backlog[i] \in Clients
  BY <1>3
<1>7. HogwartsTypes'
  BY <1>1, <1>2, <1>4 DEF HogwartsTypes
<1>8. ConnectionInv'
  <2>1. ASSUME NEW i \in DOMAIN backlog', NEW j \in DOMAIN backlog', backlog'[i] = backlog'[j] PROVE i = j
    <3>1. i + 1 = j + 1
      BY <1>4, <1>5, <2>1
    <3> QED BY <1>4, <3>1
  <2>2. ASSUME NEW i \in DOMAIN backlog'
        PROVE  /\ client'[backlog'[i]].pc # "new" /\ ~dropped'[backlog'[i]]
               /\ \A s \in Slots : slots'[s].conn # backlog'[i]
    <3>1. i + 1 \in DOMAIN backlog /\ backlog'[i] = backlog[i + 1] /\ i + 1 # 1
      BY <1>4
    <3>2. backlog[i + 1] # backlog[1] /\ backlog[i + 1] \in Clients
      BY <1>4, <1>5, <1>6, <3>1
    <3>3. client[backlog[i + 1]].pc # "new" /\ ~dropped[backlog[i + 1]]
          /\ \A s \in Slots : slots[s].conn # backlog[i + 1]
      BY <1>5, <3>1
    <3>4. ~dropped'[backlog[i + 1]]
      BY <1>1, <3>2, <3>3
    <3> QED BY <1>2, <3>1, <3>3, <3>4
  <2>3. ASSUME NEW s \in Slots, slots'[s].conn # NoClient
        PROVE  client'[slots'[s].conn].pc # "new" /\ ~dropped'[slots'[s].conn]
    <3>1. slots[s].conn \in Clients
      BY <1>2, <2>3 DEF HogwartsTypes, Sessions
    <3>2. client[slots[s].conn].pc # "new" /\ ~dropped[slots[s].conn] /\ slots[s].conn # backlog[1]
      BY <1>2, <1>4, <1>5, <2>3
    <3>3. ~dropped'[slots[s].conn]
      BY <1>1, <3>1, <3>2
    <3> QED BY <1>2, <3>2, <3>3
  <2>4. OpenOnce'
    BY <2>1, <2>2, <2>3 DEF OpenOnce, Holds
  <2>5. OpenIsHeld'
    <3> SUFFICES ASSUME NEW c \in Clients
                 PROVE  /\ client[c].pc # "new" /\ ~dropped'[c] =>
                              (\E i \in DOMAIN backlog' : backlog'[i] = c) \/ (\E s \in Slots : slots[s].conn = c)
                        /\ client[c].pc = "new" => ~dropped'[c]
      BY <1>2 DEF OpenIsHeld, Waits, Holds
    <3>1. ASSUME client[c].pc # "new", ~dropped'[c]
          PROVE  (\E i \in DOMAIN backlog' : backlog'[i] = c) \/ (\E s \in Slots : slots[s].conn = c)
      <4>1. ~dropped[c] /\ c # backlog[1]
        BY <1>1, <3>1
      <4>2. (\E i \in DOMAIN backlog : backlog[i] = c) \/ (\E s \in Slots : slots[s].conn = c)
        BY <1>1, <3>1, <4>1 DEF ConnectionInv, OpenIsHeld, Waits, Holds, Ends
      <4>3. ASSUME NEW i \in DOMAIN backlog, backlog[i] = c
            PROVE  \E j \in DOMAIN backlog' : backlog'[j] = c
        BY <1>4, <4>1, <4>3
      <4> QED BY <4>2, <4>3
    <3>2. ASSUME client[c].pc = "new" PROVE ~dropped'[c]
      <4>1. c # backlog[1]
        BY <1>4, <1>5, <3>2
      <4> QED BY <1>1, <3>2, <4>1 DEF ConnectionInv, OpenIsHeld
    <3> QED BY <3>1, <3>2
  <2>6. EndedHoldsNothing'
    BY <1>1 DEF EndedHoldsNothing, Ends
  <2> QED BY <2>4, <2>5, <2>6 DEF ConnectionInv
<1>9. NamesAreUnique'
  BY <1>2, NamesFrame
<1>10. ServesTheConnected'
  BY <1>1, <1>2 DEF ServesTheConnected
<1>11. RecvNeverBlocks'
  <2> SUFFICES ASSUME NEW c \in ready PROVE Readable(c)' /\ \E s \in Used' : slots'[s].conn = c
    BY <1>2 DEF RecvNeverBlocks
  <2>1. Readable(c) /\ (\E s \in Used : slots[s].conn = c) /\ c \in Clients
    BY <1>1 DEF RecvNeverBlocks, HogwartsTypes
  <2>2. c # backlog[1]
    BY <1>4, <1>5, <2>1 DEF Used
  <2> QED BY <1>1, <1>2, <2>1, <2>2 DEF Readable, Used
<1>12. EveryLineOwed'
  <2> SUFFICES ASSUME NEW d \in Clients
               PROVE  /\ client[d].pc # "gone" /\ ~dropped'[d] => Balance(d)'
                      /\ client[d].pc \in {"new", "connected"} => client[d].pending = 0
    BY <1>2 DEF EveryLineOwed
  <2>1. client[d].pc \in {"new", "connected"} => client[d].pending = 0
    BY DEF EveryLineOwed
  <2>2. ASSUME client[d].pc # "gone", ~dropped'[d] PROVE Balance(d)'
    <3>1. ~dropped[d] /\ d # backlog[1]
      BY <1>1, <2>2
    <3>2. Balance(d)
      BY <2>2, <3>1 DEF EveryLineOwed
    <3> QED BY <1>1, <1>2, <3>1, <3>2 DEF Balance
  <2> QED BY <2>1, <2>2
<1> QED BY <1>7, <1>8, <1>9, <1>10, <1>11, <1>12

\* The server process ends.
LEMMA EndingStep ==
    ASSUME HogwartsInv, Ending
    PROVE  HogwartsInv'
<1> USE DEF HogwartsInv
<1>1. /\ slots' \in [Slots -> Sessions] /\ \A s \in Slots : slots'[s].conn = NoClient
      /\ backlog' = <<>> /\ batch' = <<>> /\ ready' \subseteq ready
      /\ dropped' \in [Clients -> BOOLEAN] /\ \A c \in Clients : dropped'[c] <=> (dropped[c] \/ Held(c))
      /\ toServer' \in [Clients -> Seq(Commands)] /\ toClient' \in [Clients -> Seq(Replies)]
      /\ \A c \in Clients : ~Held(c) => toServer'[c] = toServer[c] /\ toClient'[c] = toClient[c]
      /\ spc \notin Ends /\ spc' \in Ends
  BY DEF Ending
<1>2. /\ stock' = stock /\ wait' = wait /\ serving' = serving /\ failures' = failures
      /\ client' = client /\ typed' = typed
  BY DEF Ending, userVars
<1>3. HogwartsTypes'
  <2>1. batch' \in Seq(Commands) /\ backlog' \in Seq(Clients) /\ ready' \subseteq Clients
    BY <1>1 DEF HogwartsTypes
  <2> QED BY <1>1, <1>2, <2>1 DEF HogwartsTypes
<1>4. \A c \in Clients : client[c].pc # "new" /\ ~dropped[c] => Held(c)
  BY <1>1 DEF ConnectionInv, OpenIsHeld, Held
<1>5. ASSUME NEW c \in Clients, client[c].pc = "new" PROVE ~dropped[c] /\ ~Held(c)
  <2>1. ~dropped[c]
    BY <1>5 DEF ConnectionInv, OpenIsHeld
  <2>2. \A i \in DOMAIN backlog : backlog[i] # c
    BY <1>5 DEF ConnectionInv, OpenOnce
  <2>3. \A s \in Slots : slots[s].conn # c
    BY <1>5, HogwartsAssumption DEF ConnectionInv, OpenOnce
  <2> QED BY <2>1, <2>2, <2>3 DEF Held, Waits, Holds
<1>6. ConnectionInv'
  <2>1. OpenOnce' /\ EndedHoldsNothing'
    BY <1>1 DEF OpenOnce, EndedHoldsNothing
  <2>2. \A c \in Clients : /\ client'[c].pc # "new" => dropped'[c]
                           /\ client'[c].pc = "new" => ~dropped'[c]
    BY <1>1, <1>2, <1>4, <1>5
  <2>3. OpenIsHeld'
    BY <2>2 DEF OpenIsHeld
  <2> QED BY <2>1, <2>3 DEF ConnectionInv
<1>7. NamesAreUnique'
  BY <1>1 DEF NamesAreUnique, Used
<1>8. ServesTheConnected' /\ RecvNeverBlocks'
  BY <1>1 DEF ServesTheConnected, RecvNeverBlocks, Ends
<1>9. EveryLineOwed'
  <2> SUFFICES ASSUME NEW d \in Clients
               PROVE  /\ client[d].pc # "gone" /\ ~dropped'[d] => Balance(d)'
                      /\ client[d].pc \in {"new", "connected"} => client[d].pending = 0
    BY <1>2 DEF EveryLineOwed
  <2>1. client[d].pc \in {"new", "connected"} => client[d].pending = 0
    BY DEF EveryLineOwed
  <2>2. ASSUME client[d].pc # "gone", ~dropped'[d] PROVE Balance(d)'
    <3>1. ~dropped[d] /\ ~Held(d) /\ client[d].pc = "new"
      BY <1>1, <1>4, <2>2
    <3>2. Balance(d) /\ client[d].pending = 0
      BY <3>1, <2>1, <2>2 DEF EveryLineOwed
    <3>3. Owed(toServer[d]) \in Nat /\ Len(toClient[d]) \in Nat /\ Owed(batch) \in Nat
      <4>1. Owed(toServer[d]) \in Nat /\ Len(toClient[d]) \in Nat
        BY QueueSizes DEF HogwartsTypes
      <4>2. batch \in Seq(Commands)
        BY DEF HogwartsTypes
      <4> QED BY <4>1, <4>2, OwedType
    <3>4. 0 = Owed(toServer[d]) + Len(toClient[d]) + 0
      <4> DEFINE n == IF batch # <<>> /\ Session.conn = d THEN Owed(batch) ELSE 0
      <4>1. n \in Nat
        BY <3>3
      <4>2. 0 = Owed(toServer[d]) + Len(toClient[d]) + n
        BY <3>2 DEF Balance
      <4> HIDE DEF n
      <4> QED BY <3>3, <4>1, <4>2, NothingOwed
    <3>5. Balance(d)' <=> client'[d].pending = Owed(toServer'[d]) + Len(toClient'[d]) + 0
      BY <1>1 DEF Balance
    <3>6. toServer'[d] = toServer[d] /\ toClient'[d] = toClient[d]
      BY <1>1, <3>1
    <3> QED BY <1>2, <3>2, <3>4, <3>5, <3>6
  <2> QED BY <2>1, <2>2
<1> QED BY <1>3, <1>6, <1>7, <1>8, <1>9

\* A client sends, receives or leaves.
LEMMA ClientStep ==
    ASSUME HogwartsInv, NEW c \in Clients, NEW r, ClientMove(c, r)
    PROVE  HogwartsInv'
<1> USE DEF HogwartsInv
<1>1. /\ client[c].pc \in {"connected", "running", "leaving"}
      /\ r \in Processes /\ r.pc \in {"running", "leaving", "gone"}
      /\ client' = [client EXCEPT ![c] = r]
  BY DEF ClientMove
<1>2. /\ toServer' \in [Clients -> Seq(Commands)] /\ toClient' \in [Clients -> Seq(Replies)]
      /\ \A d \in Clients : d # c => toServer'[d] = toServer[d] /\ toClient'[d] = toClient[d]
      /\ toServer[c] # <<>> => toServer'[c] # <<>>
      /\ r.pc # "gone" /\ ~dropped[c] =>
           r.pending - client[c].pending =
              (Owed(toServer'[c]) - Owed(toServer[c])) + (Len(toClient'[c]) - Len(toClient[c]))
  BY DEF ClientMove
<1>3. /\ stock' = stock /\ slots' = slots /\ spc' = spc /\ wait' = wait /\ ready' = ready
      /\ serving' = serving /\ batch' = batch /\ failures' = failures
      /\ backlog' = backlog /\ dropped' = dropped /\ typed' \in 0..MaxTyped
  BY DEF ClientMove, dataVars, loopVars
<1>4. client \in [Clients -> Processes]
  BY DEF HogwartsTypes
<1>5. /\ client' \in [Clients -> Processes] /\ client'[c] = r
      /\ \A d \in Clients : d # c => client'[d] = client[d]
      /\ \A d \in Clients : client'[d].pc = "new" <=> client[d].pc = "new"
      /\ \A d \in Clients : client[d].pc = "gone" => client'[d].pc = "gone"
  BY <1>1, <1>4
<1>6. HogwartsTypes'
  BY <1>2, <1>3, <1>5 DEF HogwartsTypes
<1>7. ConnectionInv'
  <2>1. \A i \in DOMAIN backlog : backlog[i] \in Clients
    BY DEF HogwartsTypes
  <2>2. \A s \in Slots : slots[s].conn # NoClient => slots[s].conn \in Clients
    BY DEF HogwartsTypes, Sessions
  <2>3. OpenOnce'
    BY <1>3, <1>5, <2>1, <2>2 DEF ConnectionInv, OpenOnce, Holds
  <2>4. OpenIsHeld'
    <3> SUFFICES ASSUME NEW d \in Clients
                 PROVE  /\ client'[d].pc # "new" /\ ~dropped[d] /\ ~(client'[d].pc = "gone" /\ spc \in Ends) =>
                             (\E i \in DOMAIN backlog : backlog[i] = d) \/ (\E s \in Slots : slots[s].conn = d)
                        /\ client'[d].pc = "new" => ~dropped[d]
      BY <1>3 DEF OpenIsHeld, Waits, Holds
    <3>1. client'[d].pc = "new" => ~dropped[d]
      BY <1>5 DEF ConnectionInv, OpenIsHeld
    <3>2. ASSUME client'[d].pc # "new", ~dropped[d], ~(client'[d].pc = "gone" /\ spc \in Ends)
          PROVE  (\E i \in DOMAIN backlog : backlog[i] = d) \/ (\E s \in Slots : slots[s].conn = d)
      <4>1. client[d].pc # "new" /\ ~(client[d].pc = "gone" /\ spc \in Ends)
        BY <1>5, <3>2
      <4> QED BY <3>2, <4>1 DEF ConnectionInv, OpenIsHeld, Waits, Holds
    <3> QED BY <3>1, <3>2
  <2>5. EndedHoldsNothing'
    BY <1>3 DEF ConnectionInv, EndedHoldsNothing
  <2> QED BY <2>3, <2>4, <2>5 DEF ConnectionInv
<1>8. NamesAreUnique'
  BY <1>3, NamesFrame
<1>9. ServesTheConnected'
  BY <1>3 DEF ServesTheConnected
<1>10. RecvNeverBlocks'
  <2> SUFFICES ASSUME spc \in {"accept", "serve"}, NEW d \in ready
               PROVE  Readable(d)' /\ \E s \in Used' : slots'[s].conn = d
    BY <1>3 DEF RecvNeverBlocks
  <2>1. Readable(d) /\ (\E s \in Used : slots[s].conn = d) /\ d \in Clients
    BY DEF RecvNeverBlocks, HogwartsTypes
  <2>2. Readable(d)'
    BY <1>2, <1>5, <2>1 DEF Readable
  <2> QED BY <1>3, <2>1, <2>2 DEF Used
<1>11. EveryLineOwed'
  <2> SUFFICES ASSUME NEW d \in Clients
               PROVE  /\ client'[d].pc # "gone" /\ ~dropped[d] => Balance(d)'
                      /\ client'[d].pc \in {"new", "connected"} => client'[d].pending = 0
    BY <1>3 DEF EveryLineOwed
  <2>1. CASE d # c
    <3>1. client'[d] = client[d] /\ toServer'[d] = toServer[d] /\ toClient'[d] = toClient[d]
      BY <1>2, <1>5, <2>1
    <3>2. Session' = Session
      BY <1>3 DEF Session
    <3> QED BY <1>3, <3>1, <3>2 DEF EveryLineOwed, Balance
  <2>2. CASE d = c
    <3>1. client'[d] = r /\ r.pc \notin {"new", "connected"}
      BY <1>1, <1>5, <2>2
    <3>2. ASSUME r.pc # "gone", ~dropped[d] PROVE Balance(d)'
      <4> DEFINE n == IF batch # <<>> /\ Session.conn = d THEN Owed(batch) ELSE 0
      <4>1. Owed(batch) \in Nat /\ n \in Nat
        <5>1. batch \in Seq(Commands)
          BY DEF HogwartsTypes
        <5>2. Owed(batch) \in Nat
          BY <5>1, OwedType
        <5> QED BY <5>2
      <4>2. client[d].pc # "gone"
        BY <1>1, <2>2
      <4>3. client[d].pending = Owed(toServer[d]) + Len(toClient[d]) + n
        BY <3>2, <4>2 DEF EveryLineOwed, Balance
      <4>4. Balance(d)' <=> client'[d].pending = Owed(toServer'[d]) + Len(toClient'[d]) + n
        BY <1>3 DEF Balance, Session
      <4>5. r.pending - client[d].pending =
              (Owed(toServer'[d]) - Owed(toServer[d])) + (Len(toClient'[d]) - Len(toClient[d]))
        BY <1>2, <2>2, <3>2
      <4>6. r.pending \in Int /\ client[d].pending \in Int
        BY <1>1, <1>4 DEF Processes
      <4>7. /\ Owed(toServer[d]) \in Nat /\ Len(toClient[d]) \in Nat
            /\ Owed(toServer'[d]) \in Nat /\ Len(toClient'[d]) \in Nat
        <5>1. /\ toServer \in [Clients -> Seq(Commands)] /\ toClient \in [Clients -> Seq(Replies)]
              /\ toServer' \in [Clients -> Seq(Commands)] /\ toClient' \in [Clients -> Seq(Replies)]
          BY <1>2 DEF HogwartsTypes
        <5>2. PICK f, g : f = toServer' /\ g = toClient'
          OBVIOUS
        <5>3. Owed(f[d]) \in Nat /\ Len(g[d]) \in Nat
          BY <5>1, <5>2, QueueSizes
        <5>4. Owed(toServer[d]) \in Nat /\ Len(toClient[d]) \in Nat
          BY <5>1, QueueSizes
        <5> QED BY <5>2, <5>3, <5>4
      <4> HIDE DEF n
      <4>8. r.pending = Owed(toServer'[d]) + Len(toClient'[d]) + n
        <5> DEFINE p == client[d].pending
                   q == r.pending
                   a == Owed(toServer[d])
                   b == Len(toClient[d])
                   a2 == Owed(toServer'[d])
                   b2 == Len(toClient'[d])
        <5>1. /\ p \in Int /\ q \in Int /\ a \in Nat /\ b \in Nat /\ a2 \in Nat /\ b2 \in Nat
              /\ p = a + b + n /\ q - p = (a2 - a) + (b2 - b)
          BY <4>3, <4>5, <4>6, <4>7
        <5> HIDE DEF p, q, a, b, a2, b2
        <5>2. q = a2 + b2 + n
          BY <4>1, <5>1, OwedShifts
        <5> QED BY <5>2 DEF q, a2, b2
      <4> QED BY <3>1, <4>4, <4>8
    <3> QED BY <3>1, <3>2
  <2> QED BY <2>1, <2>2
<1> QED BY <1>6, <1>7, <1>8, <1>9, <1>10, <1>11

\* What Append does to a sequence.
LEMMA AppendFacts ==
    ASSUME NEW S, NEW q \in Seq(S), NEW x \in S
    PROVE  /\ Append(q, x) \in Seq(S)
           /\ Len(q) \in Nat /\ DOMAIN q = 1..Len(q) /\ DOMAIN Append(q, x) = 1..(Len(q) + 1)
           /\ Append(q, x)[Len(q) + 1] = x /\ \A i \in 1..Len(q) : Append(q, x)[i] = q[i]
<1>1. Len(q) \in Nat /\ DOMAIN q = 1..Len(q)
  OBVIOUS
<1>2. /\ Append(q, x) \in Seq(S) /\ DOMAIN Append(q, x) = 1..(Len(q) + 1)
      /\ Append(q, x)[Len(q) + 1] = x /\ \A i \in 1..Len(q) : Append(q, x)[i] = q[i]
  BY <1>1
<1> QED BY <1>1, <1>2

\* A client's connect keeps the invariant.
LEMMA ConnectStep ==
    ASSUME HogwartsInv, NEW c \in Clients, Connect(c)
    PROVE  HogwartsInv'
<1> USE DEF HogwartsInv
<1>1. client[c].pc = "new" /\ client \in [Clients -> Processes] /\ client[c] \in Processes
  BY DEF Connect, HogwartsTypes
<1>2. /\ stock' = stock /\ slots' = slots /\ spc' = spc /\ wait' = wait /\ ready' = ready
      /\ serving' = serving /\ batch' = batch /\ failures' = failures
      /\ toServer' = toServer /\ toClient' = toClient /\ dropped' = dropped /\ typed' = typed
  BY DEF Connect, dataVars, loopVars
<1>3. backlog \in Seq(Clients)
  BY DEF HogwartsTypes
<1>4. PICK r \in Processes :
        /\ client' = [client EXCEPT ![c] = r]
        /\ \/ spc \in Ends /\ r.pc = "gone" /\ backlog' = backlog
           \/ spc \notin Ends /\ r.pc = "connected" /\ r.pending = client[c].pending
              /\ backlog' = Append(backlog, c)
  <2>1. CASE spc \in Ends
    BY <2>1, ClientValues DEF Connect, Ends
  <2>2. CASE spc \notin Ends
    <3> DEFINE r == [client[c] EXCEPT !.pc = "connected"]
    <3>1. r \in Processes /\ r.pc = "connected" /\ r.pending = client[c].pending
      BY <1>1 DEF Processes
    <3>2. client' = [client EXCEPT ![c] = r] /\ backlog' = Append(backlog, c)
      BY <1>1, <2>2 DEF Connect, Ends
    <3> HIDE DEF r
    <3> QED BY <2>2, <3>1, <3>2
  <2> QED BY <2>1, <2>2
<1>5. /\ client' \in [Clients -> Processes] /\ client'[c] = r
      /\ \A d \in Clients : d # c => client'[d] = client[d]
  BY <1>1, <1>4
<1>6. r.pc # "new"
  BY <1>4
<1>7. ~dropped[c]
  BY <1>1 DEF ConnectionInv, OpenIsHeld
<1>8. /\ \A i, j \in DOMAIN backlog : backlog[i] = backlog[j] => i = j
      /\ \A i \in DOMAIN backlog : /\ backlog[i] \in Clients /\ backlog[i] # c
                                   /\ client[backlog[i]].pc # "new" /\ ~dropped[backlog[i]]
                                   /\ \A s \in Slots : slots[s].conn # backlog[i]
      /\ \A s \in Slots : slots[s].conn # NoClient =>
                             /\ slots[s].conn \in Clients /\ slots[s].conn # c
                             /\ client[slots[s].conn].pc # "new" /\ ~dropped[slots[s].conn]
  <2>1. \A i \in DOMAIN backlog : backlog[i] \in Clients
    BY <1>3
  <2>2. \A s \in Slots : slots[s].conn # NoClient => slots[s].conn \in Clients
    BY DEF HogwartsTypes, Sessions
  <2> QED BY <1>1, <2>1, <2>2 DEF ConnectionInv, OpenOnce, Holds
<1>9. \A s \in Slots : slots[s].conn # c
  BY <1>8, HogwartsAssumption
<1>10. backlog' \in Seq(Clients)
  BY <1>3, <1>4, AppendFacts
<1>11. HogwartsTypes'
  BY <1>2, <1>5, <1>10 DEF HogwartsTypes
<1>12. /\ \A i, j \in DOMAIN backlog' : backlog'[i] = backlog'[j] => i = j
       /\ \A i \in DOMAIN backlog' : backlog'[i] = c \/ \E j \in DOMAIN backlog : backlog'[i] = backlog[j]
       /\ \A i \in DOMAIN backlog : \E j \in DOMAIN backlog' : backlog'[j] = backlog[i]
       /\ spc \notin Ends => \E j \in DOMAIN backlog' : backlog'[j] = c
  <2>1. CASE spc \in Ends
    BY <1>4, <1>8, <2>1
  <2>2. CASE spc \notin Ends
    <3>1. backlog' = Append(backlog, c)
      BY <1>4, <2>2
    <3> DEFINE l == Len(backlog)
    <3>2. /\ l \in Nat /\ DOMAIN backlog = 1..l /\ DOMAIN backlog' = 1..(l + 1)
          /\ backlog'[l + 1] = c /\ \A i \in 1..l : backlog'[i] = backlog[i]
      BY <1>3, <3>1, AppendFacts
    <3> HIDE DEF l
    <3>3. \A i \in 1..(l + 1) : i \in 1..l \/ i = l + 1
      BY <3>2
    <3>4. \A i \in 1..l : i \in 1..(l + 1)
      BY <3>2
    <3>5. l + 1 \in 1..(l + 1)
      BY <3>2
    <3>6. \A i, j \in DOMAIN backlog' : backlog'[i] = backlog'[j] => i = j
      BY <1>8, <3>2, <3>3
    <3>7. \A i \in DOMAIN backlog' : backlog'[i] = c \/ \E j \in DOMAIN backlog : backlog'[i] = backlog[j]
      BY <3>2, <3>3
    <3>8. \A i \in DOMAIN backlog : \E j \in DOMAIN backlog' : backlog'[j] = backlog[i]
      BY <3>2, <3>4
    <3>9. \E j \in DOMAIN backlog' : backlog'[j] = c
      BY <3>2, <3>5
    <3> QED BY <3>6, <3>7, <3>8, <3>9
  <2> QED BY <2>1, <2>2
<1>13. ConnectionInv'
  <2>1. ASSUME NEW i \in DOMAIN backlog'
        PROVE  /\ client'[backlog'[i]].pc # "new" /\ ~dropped[backlog'[i]]
               /\ \A s \in Slots : slots[s].conn # backlog'[i]
    <3>1. CASE backlog'[i] = c
      BY <1>5, <1>6, <1>7, <1>9, <3>1
    <3>2. CASE \E j \in DOMAIN backlog : backlog'[i] = backlog[j]
      BY <1>5, <1>8, <3>2
    <3> QED BY <1>12, <3>1, <3>2
  <2>2. \A s \in Slots : slots[s].conn # NoClient =>
                             client'[slots[s].conn].pc # "new" /\ ~dropped[slots[s].conn]
    BY <1>5, <1>8
  <2>3. OpenOnce'
    BY <1>2, <1>12, <2>1, <2>2 DEF OpenOnce, Holds
  <2>4. OpenIsHeld'
    <3> SUFFICES ASSUME NEW d \in Clients
                 PROVE  /\ client'[d].pc # "new" /\ ~dropped[d] /\ ~(client'[d].pc = "gone" /\ spc \in Ends) =>
                             (\E i \in DOMAIN backlog' : backlog'[i] = d) \/ (\E s \in Slots : slots[s].conn = d)
                        /\ client'[d].pc = "new" => ~dropped[d]
      BY <1>2 DEF OpenIsHeld, Waits, Holds
    <3>1. CASE d = c
      BY <1>4, <1>5, <1>6, <1>12, <3>1
    <3>2. CASE d # c
      <4>1. client'[d] = client[d]
        BY <1>5, <3>2
      <4>2. /\ client[d].pc # "new" /\ ~dropped[d] /\ ~(client[d].pc = "gone" /\ spc \in Ends) =>
                 (\E i \in DOMAIN backlog : backlog[i] = d) \/ (\E s \in Slots : slots[s].conn = d)
            /\ client[d].pc = "new" => ~dropped[d]
        BY DEF ConnectionInv, OpenIsHeld, Waits, Holds
      <4>3. (\E i \in DOMAIN backlog : backlog[i] = d) => \E i \in DOMAIN backlog' : backlog'[i] = d
        BY <1>12
      <4> QED BY <4>1, <4>2, <4>3
    <3> QED BY <3>1, <3>2
  <2>5. EndedHoldsNothing'
    BY <1>2, <1>4 DEF ConnectionInv, EndedHoldsNothing
  <2> QED BY <2>3, <2>4, <2>5 DEF ConnectionInv
<1>14. NamesAreUnique'
  BY <1>2, NamesFrame
<1>15. ServesTheConnected'
  <2>1. spc = "accept" => backlog' # <<>>
    BY <1>12 DEF Ends
  <2> QED BY <1>2, <2>1 DEF ServesTheConnected
<1>16. RecvNeverBlocks'
  <2> SUFFICES ASSUME spc \in {"accept", "serve"}, NEW d \in ready
               PROVE  Readable(d)' /\ \E s \in Used' : slots'[s].conn = d
    BY <1>2 DEF RecvNeverBlocks
  <2>1. Readable(d) /\ (\E s \in Used : slots[s].conn = d) /\ d \in Clients
    BY DEF RecvNeverBlocks, HogwartsTypes
  <2>2. d # c
    BY <1>9, <2>1 DEF Used
  <2> QED BY <1>2, <1>5, <2>1, <2>2 DEF Readable, Used
<1>17. EveryLineOwed'
  <2> SUFFICES ASSUME NEW d \in Clients
               PROVE  /\ client'[d].pc # "gone" /\ ~dropped[d] => Balance(d)'
                      /\ client'[d].pc \in {"new", "connected"} => client'[d].pending = 0
    BY <1>2 DEF EveryLineOwed
  <2>1. Session' = Session
    BY <1>2 DEF Session
  <2>2. CASE d # c
    <3>1. client'[d] = client[d]
      BY <1>5, <2>2
    <3> QED BY <1>2, <2>1, <3>1 DEF EveryLineOwed, Balance
  <2>3. CASE d = c
    <3>1. Balance(d) /\ client[d].pending = 0
      BY <1>1, <1>7, <2>3 DEF EveryLineOwed
    <3>2. client'[d].pc = "gone" \/ (client'[d].pc = "connected" /\ client'[d].pending = client[d].pending)
      BY <1>4, <1>5, <2>3
    <3> QED BY <1>2, <2>1, <3>1, <3>2 DEF Balance
  <2> QED BY <2>2, <2>3
<1> QED BY <1>11, <1>13, <1>14, <1>15, <1>16, <1>17

-----------------------------------------------------------------------------
(* The theorems                                                            *)

\* A step that changes nothing.
LEMMA HogwartsStutter ==
    ASSUME HogwartsInv, UNCHANGED vars
    PROVE  HogwartsInv'
<1>1. /\ stock' = stock /\ slots' = slots /\ spc' = spc /\ wait' = wait /\ ready' = ready
      /\ serving' = serving /\ batch' = batch /\ failures' = failures /\ backlog' = backlog
      /\ toServer' = toServer /\ toClient' = toClient /\ dropped' = dropped
      /\ client' = client /\ typed' = typed
  BY DEF vars, dataVars, loopVars, netVars, userVars
<1>2. HogwartsTypes' /\ ConnectionInv' /\ NamesAreUnique'
  BY <1>1, ConnectionFrame, NamesFrame DEF HogwartsInv, HogwartsTypes
<1>3. ServesTheConnected' /\ RecvNeverBlocks'
  BY <1>1 DEF HogwartsInv, ServesTheConnected, RecvNeverBlocks, Readable, Used
<1>4. EveryLineOwed'
  BY <1>1 DEF HogwartsInv, EveryLineOwed, Balance, Session
<1> QED BY <1>2, <1>3, <1>4 DEF HogwartsInv

\* Every step of the server and of the clients keeps the invariant.
LEMMA HogwartsStep == HogwartsInv /\ [Next]_vars => HogwartsInv'
<1> SUFFICES ASSUME HogwartsInv, [Next]_vars PROVE HogwartsInv'
  OBVIOUS
<1>0. HogwartsTypes /\ NamesAreUnique /\ ServesTheConnected /\ RecvNeverBlocks
  BY DEF HogwartsInv
<1>1. CASE Moves
  BY <1>1, MovesStep
<1>2. CASE Tick
  BY <1>2, TickStep
<1>3. CASE Recv
  BY <1>3, RecvStep
<1>4. CASE Answers
  BY <1>4, AnswersStep
<1>5. CASE DisconnectExpired \/ Hangup \/ HandleApparate
  BY <1>0, <1>5, ApparateEffect, HangupEffect, DisconnectExpiredEffect, ClosingStep
<1>6. CASE Accept
  BY <1>6, AcceptStep
<1>7. CASE Reject
  BY <1>7, RejectStep
<1>8. CASE ShutdownAllClients \/ SigpipeKills
  BY <1>0, <1>8, EndingEffect, EndingStep
<1>9. ASSUME NEW c \in Clients, Connect(c) PROVE HogwartsInv'
  BY <1>9, ConnectStep
<1>10. ASSUME NEW c \in Clients, User(c) \/ Client(c) PROVE HogwartsInv'
  BY <1>0, <1>10, ClientEffect, ClientStep
<1>11. CASE Ended \/ UNCHANGED vars
  BY <1>11, HogwartsStutter DEF Ended
<1>12. CASE HandleBlank
  BY <1>12, BlankStep
<1> QED BY <1>1, <1>2, <1>3, <1>4, <1>5, <1>6, <1>7, <1>8, <1>9, <1>10, <1>11, <1>12
        DEF Next, Server, Handle, Moves, Answers

\* The server's table, its backlog and the lines in flight are consistent in
\* every reachable state, for any number of clients and slots (hogwarts.c).
THEOREM HogwartsCorrect == Spec => []HogwartsInv
BY HogwartsInit, HogwartsStep, PTL DEF Spec

\* The size of the client table is what it was when the server started
\* (max_clients is assigned while the arguments are read).
LEMMA TableStays == ASSUME [Next]_vars PROVE tableSize' = tableSize
<1>1. CASE UNCHANGED vars
  BY <1>1 DEF vars, loopVars
<1>2. CASE DisconnectExpired \/ ComputeSelectTimeout \/ SelectReady \/ SelectTimesOut
  BY <1>2 DEF DisconnectExpired, ComputeSelectTimeout, SelectReady, SelectTimesOut
<1>3. CASE Accept \/ Reject \/ AcceptFails \/ Recv \/ Hangup \/ RoundEnds
  BY <1>3 DEF Accept, Reject, AcceptFails, Recv, Hangup, RoundEnds
<1>4. CASE Handle
  BY <1>4 DEF Handle, HandleBlank, HandleEnroll, NotEnrolled, HandleApparate, HandleBrew,
              HandleConsume, HandleReport, Handled, Handling
<1>5. CASE ShutdownAllClients \/ SigpipeKills \/ Sigint \/ Tick \/ Ended
  BY <1>5 DEF ShutdownAllClients, SigpipeKills, ProcessEnds, Sigint, Tick, Ended, vars, loopVars
<1>6. CASE \E c \in Clients : Connect(c) \/ User(c) \/ Client(c)
  BY <1>6 DEF Connect, User, Client, ReadInput, SeeExit, Enroll, ReceiveLine, ReceiveEnd,
              StopWaiting, loopVars
<1> QED BY <1>1, <1>2, <1>3, <1>4, <1>5, <1>6 DEF Next, Server

\* The types of the server's and the clients' state.
THEOREM HogwartsTypesHold == Spec => []TypeOK
<1>1. HogwartsInv /\ tableSize \in Slots => TypeOK
  <2> SUFFICES ASSUME HogwartsTypes, tableSize \in Slots PROVE TypeOK
    BY DEF HogwartsInv
  <2>1. \A s \in Slots : /\ slots[s].conn \in Clients \cup {NoClient}
                         /\ slots[s].type \in {"", "WIZARD", "PROFESSOR"}
                         /\ slots[s].book \in [Ingredients -> Int]
                         /\ slots[s].age \in 0..Timeout
    BY DEF HogwartsTypes, Sessions
  <2> QED BY <2>1 DEF TypeOK, HogwartsTypes, Processes, Ends
<1>2. Init => tableSize \in Slots
  BY DEF Init
<1>3. tableSize \in Slots /\ [Next]_vars => (tableSize \in Slots)'
  BY TableStays DEF Slots
<1>4. Spec => [](tableSize \in Slots)
  BY <1>2, <1>3, PTL DEF Spec
<1> QED BY HogwartsCorrect, <1>1, <1>4, PTL

\* No two sessions have the same name or the same connection, whatever order
\* enrolments, rejections, timeouts and departures come in (username_exists).
THEOREM NamesStayUnique == Spec => []NamesAreUnique
<1>1. HogwartsInv => NamesAreUnique
  BY DEF HogwartsInv
<1> QED BY HogwartsCorrect, <1>1, PTL

\* No connection leaks: what the server has not closed is in the backlog or in
\* a slot, and what it has closed is in neither (disconnect_client).
THEOREM NoConnectionLeaks == Spec => []ConnectionsTracked
<1>1. HogwartsInv => ConnectionsTracked
  <2> SUFFICES ASSUME HogwartsInv, NEW c \in Clients, client[c].pc # "new",
                      ~(client[c].pc = "gone" /\ spc \in {"exited", "killed"})
               PROVE  ~dropped[c] <=> c \in Range(backlog) \/ \E s \in Used : slots[s].conn = c
    BY DEF ConnectionsTracked
  <2>1. c \in Range(backlog) <=> \E i \in DOMAIN backlog : backlog[i] = c
    BY DEF Range
  <2>2. (\E s \in Used : slots[s].conn = c) <=> \E s \in Slots : slots[s].conn = c
    BY HogwartsAssumption DEF Used
  <2>3. ~dropped[c] => (\E i \in DOMAIN backlog : backlog[i] = c) \/ \E s \in Slots : slots[s].conn = c
    BY DEF HogwartsInv, ConnectionInv, OpenIsHeld, Waits, Holds, Ends
  <2>4. (\E i \in DOMAIN backlog : backlog[i] = c) => ~dropped[c]
    BY DEF HogwartsInv, ConnectionInv, OpenOnce
  <2>5. (\E s \in Slots : slots[s].conn = c) => ~dropped[c]
    BY HogwartsAssumption DEF HogwartsInv, ConnectionInv, OpenOnce
  <2> QED BY <2>1, <2>2, <2>3, <2>4, <2>5
<1> QED BY HogwartsCorrect, <1>1, PTL

\* recv() is never called on a socket with nothing to deliver, although closing
\* and accepting happen between select() and recv() (main).
THEOREM RecvIsNeverBlocked == Spec => []RecvNeverBlocks
<1>1. HogwartsInv => RecvNeverBlocks
  BY DEF HogwartsInv
<1> QED BY HogwartsCorrect, <1>1, PTL

\* Every line with a word in it is answered exactly once, and a line of blanks
\* not at all, however receives cut the stream into batches (feed_client_data,
\* process_command).
THEOREM EveryLineIsAnsweredOnce == Spec => []AnsweredOnce
<1>1. HogwartsInv => AnsweredOnce
  BY DEF HogwartsInv, EveryLineOwed, Balance, AnsweredOnce
<1> QED BY HogwartsCorrect, <1>1, PTL

-----------------------------------------------------------------------------
(* The stock and the spellbooks                                            *)

\* Spellbooks hold no negative quantity, and the stock covers them.
StockInv ==
    /\ \A s \in Slots : slots[s].book \in [Ingredients -> Nat]
    /\ \A i \in Ingredients : IsFiniteSet(Brewed(i)) /\ stock[i] >= Initial[i] + Cardinality(Brewed(i))

\* Membership in the units of an ingredient.
LEMMA BrewedElements ==
    ASSUME NEW i
    PROVE  \A u : u \in Brewed(i) <=> \E s \in Used : \E n \in 1..slots[s].book[i] : u = <<s, n>>
BY DEF Brewed

\* One session has as many of some units as there are numbers of them.
LEMMA UnitCount ==
    ASSUME NEW s, NEW I, IsFiniteSet(I)
    PROVE  IsFiniteSet({s} \X I) /\ Cardinality({s} \X I) = Cardinality(I)
<1> DEFINE f == [n \in I |-> <<s, n>>]
<1>1. \A x, y \in I : f[x] = f[y] => x = y
  OBVIOUS
<1>2. {f[x] : x \in I} = {s} \X I
  OBVIOUS
<1>3. IsFiniteSet({f[x] : x \in I}) /\ Cardinality({f[x] : x \in I}) = Cardinality(I)
  <2> HIDE DEF f
  <2> QED BY <1>1, InjectiveImage
<1> QED BY <1>2, <1>3

\* Sessions keep their spellbooks or lose them: the stock still covers them.
LEMMA BooksKept ==
    ASSUME HogwartsTypes, StockInv, stock' = stock,
           \A s \in Slots : \/ slots'[s].book = slots[s].book /\ slots'[s].conn = slots[s].conn
                            \/ slots'[s].book = EmptyBook
    PROVE  StockInv'
<1>1. EmptyBook \in [Ingredients -> Nat] /\ \A i \in Ingredients : EmptyBook[i] = 0
  BY DEF EmptyBook
<1>2. \A s \in Slots : slots'[s].book \in [Ingredients -> Nat]
  BY <1>1 DEF StockInv
<1>3. ASSUME NEW i \in Ingredients
      PROVE  IsFiniteSet(Brewed(i)') /\ stock'[i] >= Initial[i] + Cardinality(Brewed(i)')
  <2>1. \A s \in Slots : slots'[s].conn # NoClient =>
           (slots'[s].book[i] = slots[s].book[i] /\ slots[s].conn # NoClient) \/ slots'[s].book[i] = 0
    BY <1>1
  <2>2. Brewed(i)' \subseteq Brewed(i)
    <3> SUFFICES ASSUME NEW s \in Used', NEW n \in 1..slots'[s].book[i]
                 PROVE  <<s, n>> \in Brewed(i)
      BY DEF Brewed
    <3>1. s \in Slots /\ slots'[s].conn # NoClient
      BY DEF Used
    <3>2. slots'[s].book[i] = slots[s].book[i] /\ slots[s].conn # NoClient
      BY <2>1, <3>1
    <3>3. s \in Used /\ n \in 1..slots[s].book[i]
      BY <3>1, <3>2 DEF Used
    <3> QED BY <3>3, BrewedElements
  <2>3. IsFiniteSet(Brewed(i)) /\ stock[i] >= Initial[i] + Cardinality(Brewed(i))
    BY DEF StockInv
  <2>4. IsFiniteSet(Brewed(i)') /\ Cardinality(Brewed(i)') <= Cardinality(Brewed(i))
    BY <2>2, <2>3, FS_Subset
  <2>5. Cardinality(Brewed(i)') \in Nat /\ Cardinality(Brewed(i)) \in Nat
    BY <2>3, <2>4, FS_CardinalityType
  <2>6. stock[i] \in Int /\ Initial[i] \in Int
    BY HogwartsAssumption DEF HogwartsTypes, Ingredients
  <2> DEFINE m == Cardinality(Brewed(i)')
             k == Cardinality(Brewed(i))
  <2> HIDE DEF m, k
  <2>7. m \in Nat /\ k \in Nat /\ m <= k /\ stock[i] >= Initial[i] + k
    BY <2>3, <2>4, <2>5 DEF m, k
  <2>8. stock[i] >= Initial[i] + m
    BY <2>6, <2>7
  <2> QED BY <2>4, <2>8 DEF m
<1> QED BY <1>2, <1>3 DEF StockInv

\* One slot's spellbook and the stock change by the same amount.
BookChange(k, item, b2) ==
    /\ slots[k].conn # NoClient
    /\ slots'[k].conn = slots[k].conn
    /\ slots'[k].book = [slots[k].book EXCEPT ![item] = b2]
    /\ \A s \in Slots : s # k => slots'[s] = slots[s]
    /\ stock' = [stock EXCEPT ![item] = stock[item] + (b2 - slots[k].book[item])]

\* One session's quantity of one ingredient changes from b to b2, the stock's
\* by the same amount.
LEMMA BookChanges ==
    ASSUME HogwartsTypes, StockInv, NEW k \in Slots, NEW item \in Ingredients, NEW b2 \in Nat,
           BookChange(k, item, b2)
    PROVE  StockInv'
<1>0. /\ slots[k].conn # NoClient
      /\ slots'[k].conn = slots[k].conn
      /\ slots'[k].book = [slots[k].book EXCEPT ![item] = b2]
      /\ \A s \in Slots : s # k => slots'[s] = slots[s]
      /\ stock' = [stock EXCEPT ![item] = stock[item] + (b2 - slots[k].book[item])]
  BY DEF BookChange
<1> USE <1>0
<1> DEFINE b == slots[k].book[item]
<1>1. slots[k].book \in [Ingredients -> Nat] /\ b \in Nat
  BY DEF StockInv
<1>2. /\ slots'[k].book \in [Ingredients -> Nat] /\ slots'[k].book[item] = b2
      /\ \A i \in Ingredients : i # item => slots'[k].book[i] = slots[k].book[i]
  BY <1>1
<1>3. \A s \in Slots : slots'[s].book \in [Ingredients -> Nat]
  BY <1>2 DEF StockInv
<1>4. Used' = Used /\ k \in Used
  BY DEF Used
<1>5. stock \in [Ingredients -> Int] /\ \A i \in Ingredients : Initial[i] \in Int
  BY HogwartsAssumption DEF HogwartsTypes, Ingredients
<1>6. \A i \in Ingredients : IsFiniteSet(Brewed(i)) /\ stock[i] >= Initial[i] + Cardinality(Brewed(i))
  BY DEF StockInv
<1>7. ASSUME NEW i \in Ingredients, i # item
      PROVE  IsFiniteSet(Brewed(i)') /\ stock'[i] >= Initial[i] + Cardinality(Brewed(i)')
  <2>1. \A s \in Slots : slots'[s].book[i] = slots[s].book[i]
    BY <1>2, <1>7
  <2>2. Brewed(i)' = Brewed(i)
    <3>1. \A s \in Used : s \in Slots
      BY DEF Used
    <3> QED BY <1>4, <2>1, <3>1 DEF Brewed
  <2>3. stock'[i] = stock[i]
    BY <1>5, <1>7
  <2> QED BY <1>6, <2>2, <2>3
<1>8. IsFiniteSet(Brewed(item)') /\ stock'[item] >= Initial[item] + Cardinality(Brewed(item)')
  <2>1. stock'[item] = stock[item] + (b2 - b)
    BY <1>5
  <2>2. \A u : u \in Brewed(item)' <=> \E s \in Used : \E n \in 1..slots'[s].book[item] : u = <<s, n>>
    BY <1>4 DEF Brewed
  <2>3. \A u : u \in Brewed(item) <=> \E s \in Used : \E n \in 1..slots[s].book[item] : u = <<s, n>>
    BY BrewedElements
  <2>4. \A s \in Used : s # k => slots'[s].book[item] = slots[s].book[item]
    BY DEF Used
  <2>5. slots[k].book[item] = b
    OBVIOUS
  <2>6. stock[item] \in Int /\ Initial[item] \in Int
    BY <1>5
  <2> HIDE DEF b
  <2> DEFINE B == Brewed(item)
             B2 == Brewed(item)'
  <2>7. CASE b2 >= b
    <3> DEFINE U == {k} \X ((b + 1)..(b + (b2 - b)))
    <3>1. b2 - b \in Nat /\ b + (b2 - b) = b2
      BY <1>1, <2>7
    <3>2. IsFiniteSet(U) /\ Cardinality(U) = b2 - b
      <4> DEFINE I == (b + 1)..(b + (b2 - b))
      <4>1. IsFiniteSet(I) /\ Cardinality(I) = b2 - b
        <5>1. PICK lo \in Int, hi \in Int : lo = b + 1 /\ hi = b + (b2 - b)
          BY <1>1, <3>1
        <5>2. IsFiniteSet(lo..hi) /\ Cardinality(lo..hi) = IF lo > hi THEN 0 ELSE hi - lo + 1
          BY FS_Interval
        <5>3. (IF lo > hi THEN 0 ELSE hi - lo + 1) = b2 - b
          BY <1>1, <3>1, <5>1
        <5>4. I = lo..hi
          BY <5>1
        <5> QED BY <5>2, <5>3, <5>4
      <4>2. U = {k} \X I
        OBVIOUS
      <4> HIDE DEF I, U
      <4> QED BY <4>1, <4>2, UnitCount
    <3>3. \A n : n \in 1..b2 <=> n \in 1..b \/ n \in (b + 1)..(b + (b2 - b))
      BY <1>1, <2>7, <3>1
    <3>4. B \cap U = {}
      <4> SUFFICES ASSUME NEW u \in B, u \in U PROVE FALSE
        OBVIOUS
      <4>0. PICK s \in Used : \E n \in 1..slots[s].book[item] : u = <<s, n>>
        BY <2>3
      <4>1. PICK n \in 1..slots[s].book[item] : u = <<s, n>>
        BY <4>0
      <4>2. s = k /\ n \in (b + 1)..(b + (b2 - b))
        BY <4>1
      <4> QED BY <1>1, <2>5, <4>1, <4>2
    <3>5. B2 = B \cup U
      <4>1. ASSUME NEW u \in B2 PROVE u \in B \cup U
        <5>0. PICK s \in Used : \E n \in 1..slots'[s].book[item] : u = <<s, n>>
          BY <2>2
        <5>1. PICK n \in 1..slots'[s].book[item] : u = <<s, n>>
          BY <5>0
        <5>2. CASE s = k
          BY <1>2, <1>4, <2>3, <2>5, <3>3, <5>1, <5>2
        <5>3. CASE s # k
          BY <2>3, <2>4, <5>1, <5>3
        <5> QED BY <5>2, <5>3
      <4>2. ASSUME NEW u \in B PROVE u \in B2
        <5>0. PICK s \in Used : \E n \in 1..slots[s].book[item] : u = <<s, n>>
          BY <2>3
        <5>1. PICK n \in 1..slots[s].book[item] : u = <<s, n>>
          BY <5>0
        <5>2. CASE s = k
          BY <1>2, <1>4, <2>2, <2>5, <3>3, <5>1, <5>2
        <5>3. CASE s # k
          BY <2>2, <2>4, <5>1, <5>3
        <5> QED BY <5>2, <5>3
      <4>3. ASSUME NEW u \in U PROVE u \in B2
        <5>1. PICK n \in (b + 1)..(b + (b2 - b)) : u = <<k, n>>
          OBVIOUS
        <5>2. n \in 1..slots'[k].book[item]
          BY <1>2, <3>3
        <5> QED BY <1>4, <2>2, <5>1, <5>2
      <4> QED BY <4>1, <4>2, <4>3
    <3>6. IsFiniteSet(B) /\ stock[item] >= Initial[item] + Cardinality(B)
      BY <1>6
    <3> HIDE DEF B, B2, U
    <3>7. IsFiniteSet(B2) /\ Cardinality(B2) = Cardinality(B) + Cardinality(U)
      BY <3>2, <3>4, <3>5, <3>6, DisjointUnion
    <3>8. Cardinality(B) \in Nat
      BY <3>6, FS_CardinalityType
    <3> DEFINE c == Cardinality(B)
    <3>9. c \in Nat /\ Cardinality(B2) = c + (b2 - b) /\ stock[item] >= Initial[item] + c
      BY <3>2, <3>6, <3>7, <3>8
    <3> HIDE DEF c
    <3>10. stock[item] + (b2 - b) >= Initial[item] + (c + (b2 - b))
      BY <1>1, <2>6, <3>9
    <3>11. IsFiniteSet(B2) /\ stock'[item] >= Initial[item] + Cardinality(B2)
      BY <2>1, <3>7, <3>9, <3>10
    <3> QED BY <3>11 DEF B2
  <2>8. CASE b2 < b
    <3> DEFINE U == {k} \X ((b2 + 1)..(b2 + (b - b2)))
    <3>1. b - b2 \in Nat /\ b2 + (b - b2) = b
      BY <1>1, <2>8
    <3>2. IsFiniteSet(U) /\ Cardinality(U) = b - b2
      <4> DEFINE I == (b2 + 1)..(b2 + (b - b2))
      <4>1. IsFiniteSet(I) /\ Cardinality(I) = b - b2
        <5>1. PICK lo \in Int, hi \in Int : lo = b2 + 1 /\ hi = b2 + (b - b2)
          BY <1>1, <3>1
        <5>2. IsFiniteSet(lo..hi) /\ Cardinality(lo..hi) = IF lo > hi THEN 0 ELSE hi - lo + 1
          BY FS_Interval
        <5>3. (IF lo > hi THEN 0 ELSE hi - lo + 1) = b - b2
          BY <1>1, <3>1, <5>1
        <5>4. I = lo..hi
          BY <5>1
        <5> QED BY <5>2, <5>3, <5>4
      <4>2. U = {k} \X I
        OBVIOUS
      <4> HIDE DEF I, U
      <4> QED BY <4>1, <4>2, UnitCount
    <3>3. \A n : n \in 1..b <=> n \in 1..b2 \/ n \in (b2 + 1)..(b2 + (b - b2))
      BY <1>1, <2>8, <3>1
    <3>4. B2 \cap U = {}
      <4> SUFFICES ASSUME NEW u \in B2, u \in U PROVE FALSE
        OBVIOUS
      <4>0. PICK s \in Used : \E n \in 1..slots'[s].book[item] : u = <<s, n>>
        BY <2>2
      <4>1. PICK n \in 1..slots'[s].book[item] : u = <<s, n>>
        BY <4>0
      <4>2. s = k /\ n \in (b2 + 1)..(b2 + (b - b2))
        BY <4>1
      <4> QED BY <1>2, <4>1, <4>2
    <3>5. B = B2 \cup U
      <4>1. ASSUME NEW u \in B PROVE u \in B2 \cup U
        <5>0. PICK s \in Used : \E n \in 1..slots[s].book[item] : u = <<s, n>>
          BY <2>3
        <5>1. PICK n \in 1..slots[s].book[item] : u = <<s, n>>
          BY <5>0
        <5>2. CASE s = k
          BY <1>2, <1>4, <2>2, <2>5, <3>3, <5>1, <5>2
        <5>3. CASE s # k
          BY <2>2, <2>4, <5>1, <5>3
        <5> QED BY <5>2, <5>3
      <4>2. ASSUME NEW u \in B2 PROVE u \in B
        <5>0. PICK s \in Used : \E n \in 1..slots'[s].book[item] : u = <<s, n>>
          BY <2>2
        <5>1. PICK n \in 1..slots'[s].book[item] : u = <<s, n>>
          BY <5>0
        <5>2. CASE s = k
          BY <1>2, <1>4, <2>3, <2>5, <3>3, <5>1, <5>2
        <5>3. CASE s # k
          BY <2>3, <2>4, <5>1, <5>3
        <5> QED BY <5>2, <5>3
      <4>3. ASSUME NEW u \in U PROVE u \in B
        <5>1. PICK n \in (b2 + 1)..(b2 + (b - b2)) : u = <<k, n>>
          OBVIOUS
        <5>2. n \in 1..slots[k].book[item]
          BY <2>5, <3>3
        <5> QED BY <1>4, <2>3, <5>1, <5>2
      <4> QED BY <4>1, <4>2, <4>3
    <3>6. IsFiniteSet(B) /\ stock[item] >= Initial[item] + Cardinality(B)
      BY <1>6
    <3> HIDE DEF B, B2, U
    <3>7. B2 \subseteq B
      BY <3>5
    <3>8. IsFiniteSet(B2)
      BY <3>6, <3>7, FS_Subset
    <3>9. Cardinality(B) = Cardinality(B2) + Cardinality(U)
      BY <3>2, <3>4, <3>5, <3>8, DisjointUnion
    <3>10. Cardinality(B2) \in Nat
      BY <3>8, FS_CardinalityType
    <3> DEFINE c == Cardinality(B2)
    <3>11. c \in Nat /\ stock[item] >= Initial[item] + (c + (b - b2))
      BY <3>2, <3>6, <3>9, <3>10
    <3> HIDE DEF c
    <3>12. stock[item] + (b2 - b) >= Initial[item] + c
      BY <1>1, <2>6, <3>11
    <3>13. stock'[item] >= Initial[item] + Cardinality(B2)
      BY <2>1, <3>12 DEF c
    <3> QED BY <3>8, <3>13 DEF B2
  <2> QED BY <1>1, <2>7, <2>8
<1> QED BY <1>3, <1>7, <1>8 DEF StockInv

\* A free slot, and one just given to a connection, has an empty spellbook.
LEMMA EmptyBooks ==
    FreeSlot.book = EmptyBook /\ \A c : [FreeSlot EXCEPT !.conn = c].book = EmptyBook
BY DEF FreeSlot

\* The commands that do not touch the spellbook keep it.
LEMMA OtherAnswers ==
    ASSUME HogwartsInv, StockInv, NEW new, NEW reply, Handled(new, reply), stock' = stock,
           serving \in Slots, new.book = Session.book, new.conn = Session.conn
    PROVE  StockInv'
<1>1. HogwartsTypes /\ slots \in [Slots -> Sessions]
  BY DEF HogwartsInv, HogwartsTypes
<1>2. slots' = [slots EXCEPT ![serving] = new] /\ Session = slots[serving]
  BY DEF Handled, Session
<1>3. \A s \in Slots : slots'[s].book = slots[s].book /\ slots'[s].conn = slots[s].conn
  BY <1>1, <1>2
<1> QED BY <1>1, <1>3, BooksKept

\* BREW and CONSUME change spellbook and stock alike.
LEMMA PotionAnswers ==
    ASSUME HogwartsInv, StockInv, batch # <<>>,
           NEW item \in Ingredients, NEW b2 \in Nat,
           Handled([Active EXCEPT !.book[item] = b2], "OK"),
           stock' = [stock EXCEPT ![item] = stock[item] + (b2 - Session.book[item])]
    PROVE  StockInv'
<1>1. HogwartsTypes /\ ServesTheConnected /\ slots \in [Slots -> Sessions]
  BY DEF HogwartsInv, HogwartsTypes
<1>2. serving \in Slots /\ slots[serving].conn # NoClient
  BY <1>1, HogwartsAssumption DEF ServesTheConnected
<1> DEFINE new == [Active EXCEPT !.book[item] = b2]
<1>3. slots' = [slots EXCEPT ![serving] = new] /\ Session = slots[serving]
  BY DEF Handled, Session
<1>4. Session \in Sessions /\ Active = [Session EXCEPT !.age = 0]
  BY <1>1, <1>2, <1>3 DEF Active
<1>5. new.conn = Session.conn /\ new.book = [Session.book EXCEPT ![item] = b2]
  BY <1>4 DEF Sessions
<1> HIDE DEF new
<1>6. /\ slots'[serving].conn = slots[serving].conn
      /\ slots'[serving].book = [slots[serving].book EXCEPT ![item] = b2]
      /\ \A s \in Slots : s # serving => slots'[s] = slots[s]
  BY <1>1, <1>2, <1>3, <1>5
<1>7. stock' = [stock EXCEPT ![item] = stock[item] + (b2 - slots[serving].book[item])]
  BY <1>3
<1>8. PICK k \in Slots : k = serving
  BY <1>2
<1>9. BookChange(k, item, b2)
  BY <1>2, <1>6, <1>7, <1>8 DEF BookChange
<1> QED BY <1>1, <1>9, BookChanges

\* The commands.
LEMMA StockAnswers ==
    ASSUME HogwartsInv, StockInv, Answers
    PROVE  StockInv'
<1>1. HogwartsTypes /\ ServesTheConnected
  BY DEF HogwartsInv
<1>2. batch # <<>> /\ serving \in Slots
  BY <1>1 DEF Answers, HandleEnroll, NotEnrolled, HandleBrew, HandleConsume, HandleReport, Handling, ServesTheConnected
<1> DEFINE cmd == Head(batch)
<1>3. cmd \in Commands
  BY <1>1, <1>2, TailFacts DEF HogwartsTypes
<1>4. cmd.op \in {"BREW", "CONSUME"} => cmd.qty \in Nat \ {0}
  <2> HIDE DEF cmd
  <2> QED BY <1>3, CommandFacts
<1>5. /\ Session \in Sessions /\ Active \in Sessions /\ Session = slots[serving]
      /\ Active.conn = Session.conn /\ Active.book = Session.book
  BY <1>1, <1>2, SessionFacts DEF Active, Sessions
<1>6. ASSUME stock' = stock, Handled(Active, "OK") \/ Handled(Active, "ERR") PROVE StockInv'
  BY <1>2, <1>5, <1>6, OtherAnswers
<1>7. Session.book \in [Ingredients -> Nat]
  BY <1>2, <1>5 DEF StockInv
<1>8. CASE HandleEnroll
  <2>1. CASE Session.name # NoName \/ UsernameExists(cmd.name)
    BY <1>6, <1>8, <2>1 DEF HandleEnroll
  <2>2. CASE ~(Session.name # NoName \/ UsernameExists(cmd.name))
    <3> DEFINE new == [Active EXCEPT !.name = cmd.name, !.type = cmd.type]
    <3>1. Handled(new, "OK") /\ stock' = stock
      BY <1>8, <2>2 DEF HandleEnroll
    <3>2. new.conn = Session.conn /\ new.book = Session.book
      <4> HIDE DEF cmd
      <4> QED BY <1>5 DEF Sessions
    <3> HIDE DEF new
    <3> QED BY <1>2, <3>1, <3>2, OtherAnswers
  <2> QED BY <2>1, <2>2
<1>9. CASE NotEnrolled
  BY <1>6, <1>9 DEF NotEnrolled
<1>10. CASE HandleReport
  BY <1>6, <1>10 DEF HandleReport
<1>11. CASE HandleBrew
  <2>1. CASE Session.type = "WIZARD" /\ cmd.item \in Ingredients
    <3>1. stock' = [stock EXCEPT ![cmd.item] = @ + cmd.qty]
          /\ Handled([Active EXCEPT !.book[cmd.item] = @ + cmd.qty], "OK") /\ cmd.op = "BREW"
      BY <1>11, <2>1 DEF HandleBrew, Handling
    <3> DEFINE b2 == Session.book[cmd.item] + cmd.qty
    <3>2. cmd.qty \in Nat /\ Session.book[cmd.item] \in Nat /\ stock[cmd.item] \in Int
      <4>1. cmd.qty \in Nat
        BY <1>4, <3>1
      <4> HIDE DEF cmd
      <4> QED BY <1>1, <1>7, <2>1, <4>1 DEF HogwartsTypes
    <3>3. b2 \in Nat /\ stock[cmd.item] + cmd.qty = stock[cmd.item] + (b2 - Session.book[cmd.item])
      <4> HIDE DEF cmd
      <4> QED BY <3>2
    <3>4. Handled([Active EXCEPT !.book[cmd.item] = b2], "OK")
      BY <1>5, <3>1
    <3>5. stock' = [stock EXCEPT ![cmd.item] = stock[cmd.item] + (b2 - Session.book[cmd.item])]
      BY <3>1, <3>3
    <3> HIDE DEF b2, cmd
    <3> QED BY <1>2, <2>1, <3>3, <3>4, <3>5, PotionAnswers
  <2>2. CASE ~(Session.type = "WIZARD" /\ cmd.item \in Ingredients)
    BY <1>6, <1>11, <2>2 DEF HandleBrew
  <2> QED BY <2>1, <2>2
<1>12. CASE HandleConsume
  <2>1. CASE Session.type = "WIZARD" /\ cmd.item \in Ingredients /\ Sufficient(cmd)
    <3>1. stock' = [stock EXCEPT ![cmd.item] = @ - cmd.qty]
          /\ Handled([Active EXCEPT !.book[cmd.item] = @ - cmd.qty], "OK") /\ cmd.op = "CONSUME"
      BY <1>12, <2>1 DEF HandleConsume, Handling
    <3> DEFINE b2 == Session.book[cmd.item] - cmd.qty
    <3>2. cmd.qty \in Nat /\ Session.book[cmd.item] \in Nat /\ stock[cmd.item] \in Int
          /\ Session.book[cmd.item] >= cmd.qty
      <4>1. cmd.qty \in Nat
        BY <1>4, <3>1
      <4>2. Session.book[cmd.item] >= cmd.qty
        BY <2>1 DEF Sufficient
      <4> HIDE DEF cmd
      <4> QED BY <1>1, <1>7, <2>1, <4>1, <4>2 DEF HogwartsTypes
    <3>3. b2 \in Nat /\ stock[cmd.item] - cmd.qty = stock[cmd.item] + (b2 - Session.book[cmd.item])
      <4> HIDE DEF cmd
      <4> QED BY <3>2
    <3>4. Handled([Active EXCEPT !.book[cmd.item] = b2], "OK")
      BY <1>5, <3>1
    <3>5. stock' = [stock EXCEPT ![cmd.item] = stock[cmd.item] + (b2 - Session.book[cmd.item])]
      BY <3>1, <3>3
    <3> HIDE DEF b2, cmd
    <3> QED BY <1>2, <2>1, <3>3, <3>4, <3>5, PotionAnswers
  <2>2. CASE ~(Session.type = "WIZARD" /\ cmd.item \in Ingredients /\ Sufficient(cmd))
    BY <1>6, <1>12, <2>2 DEF HandleConsume
  <2> QED BY <2>1, <2>2
<1> QED BY <1>8, <1>9, <1>10, <1>11, <1>12 DEF Answers

\* No other step changes a spellbook, except that it empties it with the slot.
LEMMA StockStep == HogwartsInv /\ StockInv /\ [Next]_vars => StockInv'
<1> SUFFICES ASSUME HogwartsInv, StockInv, [Next]_vars PROVE StockInv'
  OBVIOUS
<1>0. HogwartsTypes /\ slots \in [Slots -> Sessions] /\ \A s \in Slots : slots[s] \in Sessions
  BY DEF HogwartsInv, HogwartsTypes
<1>1. ASSUME stock' = stock, slots' = slots PROVE StockInv'
  BY <1>0, <1>1, BooksKept
<1>2. ASSUME stock' = stock,
             \A s \in Slots : slots'[s] = slots[s] \/ slots'[s] = FreeSlot
      PROVE  StockInv'
  BY <1>0, <1>2, BooksKept, EmptyBooks
<1>3. CASE Moves \/ Recv \/ Reject
  <2>1. stock' = stock /\ slots' = slots
    BY <1>3 DEF Moves, ComputeSelectTimeout, SelectReady, SelectTimesOut, AcceptFails, RoundEnds,
                Sigint, Recv, Reject, dataVars
  <2> QED BY <1>1, <2>1
<1>4. CASE Tick
  <2>1. slots' = [s \in Slots |-> IF s \in Used /\ slots[s].age < Timeout
                                  THEN [slots[s] EXCEPT !.age = @ + 1] ELSE slots[s]]
        /\ stock' = stock
    BY <1>4 DEF Tick
  <2>2. ASSUME NEW s \in Slots PROVE slots'[s].book = slots[s].book /\ slots'[s].conn = slots[s].conn
    <3>1. slots'[s] = [slots[s] EXCEPT !.age = @ + 1] \/ slots'[s] = slots[s]
      BY <2>1
    <3> QED BY <1>0, <3>1 DEF Sessions
  <2> QED BY <1>0, <2>1, <2>2, BooksKept
<1>5. CASE Answers
  BY <1>5, StockAnswers
<1>6. CASE DisconnectExpired
  BY <1>2, <1>6 DEF DisconnectExpired
<1>7. CASE Hangup
  BY <1>0, <1>2, <1>7 DEF Hangup
<1>8. CASE HandleApparate
  BY <1>0, <1>2, <1>8 DEF HandleApparate
<1>9. CASE ShutdownAllClients \/ SigpipeKills
  BY <1>2, <1>9 DEF ShutdownAllClients, ProcessEnds, SigpipeKills
<1>10. CASE Accept
  <2>1. stock' = stock /\ slots' = [slots EXCEPT ![Min(Unused)] = [FreeSlot EXCEPT !.conn = Head(backlog)]]
    BY <1>10 DEF Accept
  <2>2. \A s \in Slots : slots'[s] = slots[s] \/ slots'[s] = [FreeSlot EXCEPT !.conn = Head(backlog)]
    BY <1>0, <2>1
  <2> QED BY <1>0, <2>1, <2>2, BooksKept, EmptyBooks
<1>11. ASSUME NEW c \in Clients, Connect(c) PROVE StockInv'
  BY <1>1, <1>11 DEF Connect, dataVars
<1>12. ASSUME NEW c \in Clients, User(c) \/ Client(c) PROVE StockInv'
  <2>1. PICK r : ClientMove(c, r)
    BY <1>0, <1>12, ClientEffect
  <2> QED BY <1>1, <2>1 DEF ClientMove, dataVars
<1>13. CASE Ended \/ UNCHANGED vars
  BY <1>1, <1>13 DEF Ended, vars, dataVars
<1>14. CASE HandleBlank
  <2>1. serving \in Slots /\ slots' = [slots EXCEPT ![serving] = Active] /\ stock' = stock
    BY <1>14 DEF HandleBlank, Handling, HogwartsInv, ServesTheConnected
  <2>2. Active = [slots[serving] EXCEPT !.age = 0]
    BY DEF Active, Session
  <2>3. Active.book = slots[serving].book /\ Active.conn = slots[serving].conn
    BY <1>0, <2>1, <2>2 DEF Sessions
  <2>4. \A s \in Slots : slots'[s].book = slots[s].book /\ slots'[s].conn = slots[s].conn
    BY <1>0, <2>1, <2>3
  <2> QED BY <1>0, <2>1, <2>4, BooksKept
<1> QED BY <1>3, <1>4, <1>5, <1>6, <1>7, <1>8, <1>9, <1>10, <1>11, <1>12, <1>13, <1>14
        DEF Next, Server, Handle, Moves, Answers

\* At the start all spellbooks are empty.
LEMMA StockInit == Init => StockInv
<1> SUFFICES ASSUME Init PROVE StockInv
  OBVIOUS
<1>1. \A s \in Slots : slots[s] = FreeSlot /\ slots[s].conn = NoClient
  BY FreeSlotType DEF Init
<1>2. \A s \in Slots : slots[s].book \in [Ingredients -> Nat]
  BY <1>1, EmptyBooks DEF EmptyBook
<1>3. Used = {}
  BY <1>1 DEF Used
<1>4. \A i \in Ingredients : Brewed(i) = {}
  BY <1>3 DEF Brewed
<1>5. IsFiniteSet({}) /\ Cardinality({}) = 0
  BY FS_EmptySet
<1>6. \A i \in Ingredients : stock[i] = Initial[i] /\ Initial[i] \in Nat
  BY HogwartsAssumption DEF Init, Ingredients
<1>7. \A i \in Ingredients : IsFiniteSet(Brewed(i)) /\ stock[i] >= Initial[i] + Cardinality(Brewed(i))
  BY <1>4, <1>5, <1>6
<1> QED BY <1>2, <1>7 DEF StockInv

\* The stock always covers what the connected wizards brewed and have not yet
\* consumed, on top of the ingredients file (handle_brew, handle_consume).
THEOREM StockIsCovered == Spec => []StockCoversSpellbooks
<1>1. StockInv => StockCoversSpellbooks
  BY DEF StockInv, StockCoversSpellbooks
<1>2. Init /\ [][Next]_vars /\ []HogwartsInv => []StockInv
  BY StockInit, StockStep, PTL
<1> QED BY HogwartsCorrect, <1>1, <1>2, PTL DEF Spec

=============================================================================
