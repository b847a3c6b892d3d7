--------------------------- MODULE WordTransport ---------------------------
(***************************************************************************)
(* The HW3 word transport: processes that share one mmap region.  Word     *)
(* carriers admit words to their floor, letter carriers claim letters and  *)
(* ride the delivery elevator to the word's sorting floor or the           *)
(* reposition elevator to look for work elsewhere, sorters put the letters *)
(* of a word in order, and the parent refills floors that have lost all    *)
(* letter carriers and ends the run when the completed words add up.       *)
(*                                                                         *)
(* A critical section is one step.  The exception is try_complete_word,    *)
(* which increments completed_words while it holds only the lock of its    *)
(* own word: the read and the write are steps of their own, and the word   *)
(* stays locked from one to the other.  word_available_sem,                *)
(* floor_delivery_sem and parent_event are only ever waited for with a     *)
(* timeout after which the waiter looks again, so they shorten waits and   *)
(* change nothing else; they are left out, like the statistics that no     *)
(* process reads back.                                                     *)
(***************************************************************************)
EXTENDS Integers, FiniteSets, Sequences, SequencesExt, FiniteSetsExt, Functions

CONSTANTS
    NumFloors,          \* cfg.num_floors
    NumWords,           \* total_words
    Length,             \* [Words -> Nat \ {0}]
    SortingFloor,       \* [Words -> Floors]
    WordCarriers,       \* cfg.word_carriers_per_floor
    LetterCarriers,     \* cfg.letter_carriers_per_floor
    SortersPerFloor,    \* cfg.sorting_processes_per_floor
    MaxWordsPerFloor,   \* cfg.max_words_per_floor
    Capacity,           \* cfg.delivery_capacity and cfg.reposition_capacity, by elevator
    Carriers,           \* the MAX_CARRIERS slots for letter carriers
    Interruptible       \* whether SIGINT may come

Floors    == 0..(NumFloors - 1)
Words     == 1..NumWords
Letters(w) == 1..Length[w]
Elevators == {"delivery", "reposition"}

ASSUME TransportAssumption ==
    /\ NumFloors \in Nat \ {0} /\ NumWords \in Nat \ {0}
    /\ Length \in [Words -> Nat \ {0}]
    /\ SortingFloor \in [Words -> Floors]
    /\ {WordCarriers, LetterCarriers, SortersPerFloor, MaxWordsPerFloor} \subseteq Nat \ {0}
    /\ Capacity \in [Elevators -> Nat \ {0}]
    /\ IsFiniteSet(Carriers) /\ Cardinality(Carriers) >= NumFloors * LetterCarriers
    /\ Interruptible \in BOOLEAN

WProcs    == Floors \X (1..WordCarriers)
Sorters   == Floors \X (1..SortersPerFloor)
NoWord    == 0
NotStarted == -1
NoFloor   == -1

VARIABLES
    words,      \* [Words -> SharedWord]
    active,     \* active_words, by floor
    present,    \* carrier_count, by floor
    respawn,    \* respawn_pending, by floor
    cursor,     \* rr_cursor
    wproc,      \* the word carriers: the word each has claimed
    carrier,    \* the letter carriers: CarrierState and where the process is
    sorter,     \* the sorters
    elev,       \* the elevators: request queue, items semaphore, batch, stage
    completed,  \* completed_words
    shutdown,   \* shutdown
    stopped,    \* g_stop of the parent
    parent,     \* where the parent is
    output      \* output_generated

floorVars  == <<active, present, respawn>>
endVars    == <<shutdown, stopped, parent, output>>
vars == <<words, floorVars, cursor, wproc, carrier, sorter, elev, completed, endVars>>

\* load_input and init_shared_state: nothing claimed, empty sorting areas.
NewWord(w) ==
    [claimed |-> FALSE, admitted |-> FALSE, completed |-> FALSE, reserved |-> FALSE,
     arrival |-> 0,
     letter |-> [i \in Letters(w) |-> "home"],
     meta   |-> [i \in Letters(w) |-> 0],
     fixed  |-> {}]

Init ==
    /\ words = [w \in Words |-> NewWord(w)]
    /\ active = [f \in Floors |-> 0]
    /\ present = [f \in Floors |-> 0]
    /\ respawn = [f \in Floors |-> FALSE]
    /\ cursor = 1
    /\ wproc = [p \in WProcs |-> NotStarted]
    /\ carrier = [c \in Carriers |->
                    [at |-> "none", floor |-> 0, word |-> NoWord, letter |-> 0]]
    /\ sorter = [s \in Sorters |-> [at |-> "none", word |-> NoWord, read |-> 0]]
    /\ elev = [e \in Elevators |->
                [at |-> "none", requests |-> {}, batch |-> <<>>, emptied |-> NoFloor]]
    /\ completed = 0
    /\ shutdown = FALSE /\ stopped = FALSE /\ output = FALSE
    /\ parent = [at |-> "start", floor |-> 0, left |-> 0]

-----------------------------------------------------------------------------
(* Locks and letters                                                       *)

\* w->mutex and w->sorter_lock, held across the steps of try_complete_word.
Locked(w) == \E s \in Sorters : sorter[s].at \in {"count", "add", "release"} /\ sorter[s].word = w

Claimable(w, i) == words[w].letter[i] = "home"

\* Admitted, not completed and waiting on floor f.
Open(w, f) == words[w].admitted /\ ~words[w].completed /\ words[w].arrival = f

\* place_char_in_sorting_area: the first slot that is neither fixed nor occupied.
FreeSlots(w) == {i \in Letters(w) : i \notin words[w].fixed /\ words[w].meta[i] = 0}

\* Mutant: char_claimed and char_delivered are cleared with char_in_transit.
DeliveredUnmarked(w, i) ==
    IF FreeSlots(w) # {}
    THEN [words EXCEPT ![w].letter[i] = "home", ![w].meta[Min(FreeSlots(w))] = i]
    ELSE [words EXCEPT ![w].letter[i] = "home"]

\* deliver_char: with no free slot the letter goes back to its floor.
Delivered(w, i) ==
    IF FreeSlots(w) # {}
    THEN [words EXCEPT ![w].letter[i] = "placed", ![w].meta[Min(FreeSlots(w))] = i]
    ELSE [words EXCEPT ![w].letter[i] = "home"]

-----------------------------------------------------------------------------
(* Word carriers (word_carrier_loop)                                       *)

Unclaimed == {w \in Words : ~words[w].claimed /\ ~words[w].admitted /\ ~words[w].completed}

\* The unclaimed word that the scan from rr_cursor meets first.
NextWord == CHOOSE w \in Unclaimed :
                \A v \in Unclaimed : (w - cursor) % NumWords <= (v - cursor) % NumWords

\* Under global_mutex.
ClaimWord(p) ==
    /\ wproc[p] = NoWord /\ ~shutdown /\ Unclaimed # {}
    /\ words' = [words EXCEPT ![NextWord].claimed = TRUE]
    /\ cursor' = (NextWord % NumWords) + 1
    /\ wproc' = [wproc EXCEPT ![p] = NextWord]
    /\ UNCHANGED <<floorVars, carrier, sorter, elev, completed, endVars>>

\* The floors a word occupies: where it arrived and where it is sorted.
Occupies(w, arrival) == {arrival, SortingFloor[w]}

\* Mutant: off by one.
RoomForOneMore(f) == active[f] <= MaxWordsPerFloor

HasRoom(f) == active[f] < MaxWordsPerFloor

\* Mutant: the claim of a word that found no room is kept.
ClaimKept(w) == words

\* No room: the claim is given back for a retry.
ClaimReleased(w) == [words EXCEPT ![w].claimed = FALSE]

\* Capacity of both floors, checked and taken under both floor locks; then the
\* word is admitted or its claim released, under w->mutex.  The two sections
\* are one step: the second only touches a word that is claimed and not yet
\* admitted, which no other process looks into.
AdmitWord(p) ==
    LET w  == wproc[p]
        ok == \A f \in Occupies(w, p[1]) : HasRoom(f)
    IN  /\ w \in Words
        /\ active' = IF ok THEN [f \in Floors |-> active[f] + IF f \in Occupies(w, p[1]) THEN 1 ELSE 0]
                           ELSE active
        /\ words' = IF ok
                    THEN [words EXCEPT ![w].admitted = TRUE, ![w].arrival = p[1], ![w].reserved = TRUE]
                    ELSE ClaimReleased(w)
        /\ wproc' = [wproc EXCEPT ![p] = NoWord]
        /\ UNCHANGED <<present, respawn, cursor, carrier, sorter, elev, completed, endVars>>

-----------------------------------------------------------------------------
(* Letter carriers (letter_carrier_loop)                                   *)

\* Under w->mutex, a letter of a word that waits on the carrier's floor.
ClaimLetter(c) ==
    /\ carrier[c].at = "scan" /\ ~shutdown
    /\ \E w \in Words : \E i \in Letters(w) :
        /\ Open(w, carrier[c].floor) /\ ~Locked(w) /\ Claimable(w, i)
        /\ words' = [words EXCEPT ![w].letter[i] = "transit"]
        /\ carrier' = [carrier EXCEPT ![c].at = "hold", ![c].word = w, ![c].letter = i]
    /\ UNCHANGED <<floorVars, cursor, wproc, sorter, elev, completed, endVars>>

\* The word is sorted on this floor: direct placement, under w->mutex.
PlaceHere(c) ==
    LET w == carrier[c].word
    IN  /\ carrier[c].at = "hold" /\ SortingFloor[w] = carrier[c].floor /\ ~Locked(w)
        /\ words' = Delivered(w, carrier[c].letter)
        /\ carrier' = [carrier EXCEPT ![c].at = "scan", ![c].word = NoWord, ![c].letter = 0]
        /\ UNCHANGED <<floorVars, cursor, wproc, sorter, elev, completed, endVars>>

\* enqueue_delivery and enqueue_reposition: a request slot, then a post of the
\* items semaphore.  A carrier waits for its request, and there are more slots
\* (MAX_REQUESTS) than carriers: the queue has room.  Every request comes with
\* a post and a batch uses up one post, so the semaphore is positive while
\* requests are queued; posts beyond them only cause empty wake-ups, and it is
\* not kept as a variable.
Enqueued(e, r) == [elev EXCEPT ![e].requests = @ \cup {r}]

\* wait_event on the carrier's own semaphore: it blocks, unless the post that
\* wake_all made is still there.
AwaitRide == IF parent.at \in {"report", "reap", "aborted"} THEN "scan" ELSE "wait"

RequestDelivery(c) ==
    LET k == carrier[c]
    IN  /\ k.at = "hold" /\ SortingFloor[k.word] # k.floor
        /\ elev' = Enqueued("delivery", [carrier |-> c, from |-> k.floor, to |-> SortingFloor[k.word],
                                         word |-> k.word, letter |-> k.letter])
        /\ carrier' = [carrier EXCEPT ![c].at = AwaitRide, ![c].word = NoWord, ![c].letter = 0]
        /\ UNCHANGED <<words, floorVars, cursor, wproc, sorter, completed, endVars>>

\* The scan draws words and letters at random and may draw one that is of no
\* use every time; it cannot miss when everything it may draw is claimable.
MayFindNothing(c) ==
    \E w \in Words : \/ ~Open(w, carrier[c].floor)
                     \/ \E i \in Letters(w) : ~Claimable(w, i)

\* The floors an idle carrier may draw.
Elsewhere(f) == IF NumFloors = 1 THEN {f} ELSE Floors \ {f}

RequestReposition(c, f) ==
    /\ carrier[c].at = "scan" /\ ~shutdown /\ completed < NumWords
    /\ MayFindNothing(c) /\ f \in Elsewhere(carrier[c].floor)
    /\ elev' = Enqueued("reposition", [carrier |-> c, from |-> carrier[c].floor, to |-> f])
    /\ carrier' = [carrier EXCEPT ![c].at = AwaitRide]
    /\ UNCHANGED <<words, floorVars, cursor, wproc, sorter, completed, endVars>>

-----------------------------------------------------------------------------
(* The elevators                                                           *)

LoopHead == IF shutdown THEN "gone" ELSE "idle"

Trip(r) == IF r.to >= r.from THEN 1 ELSE -1

\* The batches the elevator may collect: a first request, then requests from
\* the same floor, and for deliveries in the same direction, up to the
\* capacity.  first_delivery_idx and first_reposition_idx pick the first one by
\* the elevator's position and direction and by slot number; here it may be
\* any, so that what follows holds for every policy of service.
Batches(e) ==
    LET joins(first) ==
            {r \in elev[e].requests \ {first} :
                r.from = first.from /\ (e = "delivery" => Trip(r) = Trip(first))}
        size(first) == Min({Capacity[e], Cardinality(joins(first)) + 1})
    IN  UNION {{{first} \cup S : S \in kSubset(size(first) - 1, joins(first))} : first \in elev[e].requests}

\* The orders in which a batch may be served: deliveries by destination in the
\* direction of travel, with equal ones in any order.
Rides(e) ==
    {b \in UNION {SetToSeqs(B) : B \in Batches(e)} :
        e = "delivery" => \A k \in 1..(Len(b) - 1) : b[k].to * Trip(b[1]) <= b[k + 1].to * Trip(b[1])}

FirstStage(e) == IF e = "delivery" THEN "deliver" ELSE "leave"

\* Mutant: only the first request of a batch is marked unused.
QueueWithoutFirst(e, b) == elev[e].requests \ {Head(b)}

\* The requests that stay queued when batch b is collected.
QueueWithout(e, b) == elev[e].requests \ Range(b)

\* The items semaphore lets the elevator collect a batch.
Collect(e) ==
    /\ elev[e].at = "idle"
    /\ \E b \in Rides(e) :
          elev' = [elev EXCEPT ![e].at = FirstStage(e), ![e].batch = b, ![e].requests = QueueWithout(e, b)]
    /\ UNCHANGED <<words, floorVars, cursor, wproc, carrier, sorter, completed, endVars>>

\* deliver_char for the next rider, under w->mutex.
Deliver(e) ==
    LET r == Head(elev[e].batch)
    IN  /\ elev[e].at = "deliver" /\ ~Locked(r.word)
        /\ words' = Delivered(r.word, r.letter)
        /\ elev' = [elev EXCEPT ![e].at = "leave"]
        /\ UNCHANGED <<floorVars, cursor, wproc, carrier, sorter, completed, endVars>>

\* move_carrier_between_floors, lock of the old floor.
LeaveFloor(e) ==
    LET r   == Head(elev[e].batch)
        old == carrier[r.carrier].floor
    IN  /\ elev[e].at = "leave"
        /\ IF old = r.to
           THEN /\ elev' = [elev EXCEPT ![e].at = "signal"]
                /\ UNCHANGED present
           ELSE /\ present' = [present EXCEPT ![old] = @ - 1]
                /\ elev' = [elev EXCEPT ![e].at = "arrive",
                                        ![e].emptied = IF present[old] = 1 THEN old ELSE NoFloor]
        /\ UNCHANGED <<words, active, respawn, cursor, wproc, carrier, sorter, completed, endVars>>

\* Lock of the new floor.
ArriveAtFloor(e) ==
    LET r == Head(elev[e].batch)
    IN  /\ elev[e].at = "arrive"
        /\ present' = [present EXCEPT ![r.to] = @ + 1]
        /\ respawn' = [respawn EXCEPT ![r.to] = FALSE]
        /\ carrier' = [carrier EXCEPT ![r.carrier].floor = r.to]
        /\ elev' = [elev EXCEPT ![e].at = "signal"]
        /\ UNCHANGED <<words, active, cursor, wproc, sorter, completed, endVars>>

\* Mutant: the second look goes to the new floor.
NewFloorEmpty(e) == elev[e].emptied # NoFloor /\ present[Head(elev[e].batch).to] = 0

\* The second look at the old floor, under its lock.
StillEmpty(e) == elev[e].emptied # NoFloor /\ present[elev[e].emptied] = 0

\* Mutant: no post.
WokenNobody(cs) == carrier

\* A post of the event semaphores of carriers cs: those that wait go on.  Only
\* wake_all posts to carriers that do not wait (AwaitRide).
Woken(cs) == [c \in Carriers |-> IF c \in cs /\ carrier[c].at = "wait"
                                 THEN [carrier[c] EXCEPT !.at = "scan"] ELSE carrier[c]]

\* Ask the parent for carriers if the old floor is still empty; wake the rider.
SignalCarrier(e) ==
    LET r == Head(elev[e].batch)
    IN  /\ elev[e].at = "signal"
        /\ respawn' = IF StillEmpty(e) THEN [respawn EXCEPT ![elev[e].emptied] = TRUE] ELSE respawn
        /\ carrier' = Woken({r.carrier})
        /\ elev' = [elev EXCEPT ![e].batch = Tail(@), ![e].emptied = NoFloor,
                                ![e].at = IF Len(elev[e].batch) > 1 THEN FirstStage(e) ELSE LoopHead]
        /\ UNCHANGED <<words, active, present, cursor, wproc, sorter, completed, endVars>>

-----------------------------------------------------------------------------
(* Sorters (sorter_loop)                                                   *)

\* Mutant: after an exchange both slots count as fixed.
SortSlotFixesBoth(area, i) ==
    LET t == area.meta[i]
    IN  IF t = 0 \/ i \in area.fixed THEN area
        ELSE IF t = i THEN [area EXCEPT !.fixed = @ \cup {i}]
        ELSE IF t \in area.fixed THEN area
        ELSE [meta  |-> [area.meta EXCEPT ![t] = t, ![i] = area.meta[t]],
              fixed |-> area.fixed \cup {t, i}]

\* One slot: fix a letter that is in place, or bring it to its slot, which is
\* empty or gives its letter in exchange; a letter whose slot is fixed stays.
SortSlot(area, i) ==
    LET t == area.meta[i]
    IN  IF t = 0 \/ i \in area.fixed THEN area
        ELSE IF t = i THEN [area EXCEPT !.fixed = @ \cup {i}]
        ELSE IF t \in area.fixed THEN area
        ELSE [meta  |-> [area.meta EXCEPT ![t] = t, ![i] = area.meta[t]],
              fixed |-> area.fixed \cup {t} \cup (IF area.meta[t] = i THEN {i} ELSE {})]

\* One pass over the slots in order.
SortPass(w) ==
    LET pass[i \in 0..Length[w]] ==
            IF i = 0 THEN [meta |-> words[w].meta, fixed |-> words[w].fixed]
            ELSE SortSlot(pass[i - 1], i)
    IN  pass[Length[w]]

\* Under sorter_lock and w->mutex: a pass, then the first half of
\* try_complete_word, which keeps both locks if the word is finished.
SortWord(s) ==
    /\ sorter[s].at = "scan" /\ ~shutdown
    /\ \E w \in Words :
        LET area == SortPass(w)
            done == area.fixed = Letters(w)
        IN  /\ words[w].admitted /\ ~words[w].completed /\ SortingFloor[w] = s[1] /\ ~Locked(w)
            /\ words' = [words EXCEPT ![w].meta = area.meta, ![w].fixed = area.fixed,
                                      ![w].completed = done]
            /\ sorter' = IF done THEN [sorter EXCEPT ![s].at = "count", ![s].word = w] ELSE sorter
    /\ UNCHANGED <<floorVars, cursor, wproc, carrier, elev, completed, endVars>>

\* completed_words++ reads ...
ReadCompleted(s) ==
    /\ sorter[s].at = "count"
    /\ sorter' = [sorter EXCEPT ![s].at = "add", ![s].read = completed]
    /\ UNCHANGED <<words, floorVars, cursor, wproc, carrier, elev, completed, endVars>>

\* ... and writes.
WriteCompleted(s) ==
    /\ sorter[s].at = "add"
    /\ completed' = sorter[s].read + 1
    /\ sorter' = [sorter EXCEPT ![s].at = "release", ![s].read = 0]
    /\ UNCHANGED <<words, floorVars, cursor, wproc, carrier, elev, endVars>>

\* Both floor locks: the word's places are given back.
ReleaseFloors(s) ==
    LET w == sorter[s].word
    IN  /\ sorter[s].at = "release"
        /\ active' = [f \in Floors |-> active[f] - IF f \in Occupies(w, words[w].arrival) THEN 1 ELSE 0]
        /\ words' = [words EXCEPT ![w].reserved = FALSE]
        /\ sorter' = [sorter EXCEPT ![s].at = "scan", ![s].word = NoWord]
        /\ UNCHANGED <<present, respawn, cursor, wproc, carrier, elev, completed, endVars>>

-----------------------------------------------------------------------------
(* The parent (main)                                                       *)

Unborn == {c \in Carriers : carrier[c].at = "none"}

\* reserve_carrier_slot and fork: new letter carriers on floor f.  Slots are
\* handed out in order; the names in Carriers have none, any unused one will do.
Born(new, f) == [c \in Carriers |-> IF c \in new THEN [carrier[c] EXCEPT !.at = "scan", !.floor = f]
                                                 ELSE carrier[c]]

\* The processes of one floor.
SpawnFloor ==
    LET f == parent.floor
    IN  /\ parent.at = "start"
        /\ wproc' = [p \in WProcs |-> IF p[1] = f THEN NoWord ELSE wproc[p]]
        /\ sorter' = [s \in Sorters |-> IF s[1] = f THEN [sorter[s] EXCEPT !.at = "scan"] ELSE sorter[s]]
        /\ \E new \in kSubset(LetterCarriers, Unborn) : carrier' = Born(new, f)
        /\ present' = [present EXCEPT ![f] = @ + LetterCarriers]
        /\ respawn' = [respawn EXCEPT ![f] = FALSE]
        /\ parent' = IF f + 1 < NumFloors THEN [parent EXCEPT !.floor = @ + 1]
                                          ELSE [parent EXCEPT !.at = "elevators", !.floor = 0]
        /\ UNCHANGED <<words, active, cursor, elev, completed, shutdown, stopped, output>>

StartElevators ==
    /\ parent.at = "elevators"
    /\ elev' = [e \in Elevators |-> [elev[e] EXCEPT !.at = LoopHead]]
    /\ parent' = [parent EXCEPT !.at = "loop"]
    /\ UNCHANGED <<words, floorVars, cursor, wproc, carrier, sorter, completed, shutdown, stopped, output>>

MoreToDo == ~shutdown /\ ~stopped /\ completed < NumWords

\* The parent's loop is left, at the latest when parent_event's timeout expires:
\* shutdown and wake_all.
EndLoop ==
    /\ parent.at = "loop" /\ ~MoreToDo
    /\ parent' = [parent EXCEPT !.at = "report"]
    /\ shutdown' = TRUE
    /\ carrier' = Woken(Carriers)
    /\ UNCHANGED <<words, floorVars, cursor, wproc, sorter, elev, completed, stopped, output>>

\* maybe_spawn_more_carriers looks at the floors, one after the other under
\* their locks, again and again; a look that finds nothing to do is no step ...
LookAtFloor(f) ==
    /\ parent.at = "loop" /\ present[f] = 0 /\ respawn[f] /\ ~shutdown /\ completed < NumWords
    /\ parent' = [at |-> "spawn", floor |-> f, left |-> LetterCarriers]
    /\ UNCHANGED <<words, floorVars, cursor, wproc, carrier, sorter, elev, completed, shutdown, stopped, output>>

\* ... and spawns without it.
SpawnCarrier ==
    /\ parent.at = "spawn"
    /\ \E c \in Unborn : carrier' = Born({c}, parent.floor)
    /\ present' = [present EXCEPT ![parent.floor] = @ + 1]
    /\ respawn' = [respawn EXCEPT ![parent.floor] = FALSE]
    /\ parent' = IF parent.left > 1 THEN [parent EXCEPT !.left = @ - 1]
                                   ELSE [at |-> "loop", floor |-> 0, left |-> 0]
    /\ UNCHANGED <<words, active, cursor, wproc, sorter, elev, completed, shutdown, stopped, output>>

\* fail("Too many letter carriers"): the parent exits, its children go on.
TooManyCarriers ==
    /\ parent.at = "spawn" /\ Unborn = {}
    /\ parent' = [parent EXCEPT !.at = "failed"]
    /\ UNCHANGED <<words, floorVars, cursor, wproc, carrier, sorter, elev, completed, shutdown, stopped, output>>

\* The output file, unless interrupted.
ReportRun ==
    /\ parent.at = "report"
    /\ output' = (completed = NumWords /\ ~stopped)
    /\ parent' = [parent EXCEPT !.at = "reap"]
    /\ UNCHANGED <<words, floorVars, cursor, wproc, carrier, sorter, elev, completed, shutdown, stopped>>

\* Processes that have left their loop.  A process that finds shutdown set (or,
\* for a letter carrier without work, every word counted) at the head of its
\* loop exits and takes no further step: it needs no state of its own.
AllGone == /\ \A p \in WProcs : wproc[p] = NoWord
           /\ \A c \in Carriers \ Unborn : carrier[c].at = "scan"
           /\ \A s \in Sorters : sorter[s].at = "scan"
           /\ \A e \in Elevators : elev[e].at = "gone" \/ (elev[e].at = "idle" /\ elev[e].requests = {})

\* terminate_children has waited for every child.
ParentExits ==
    /\ parent.at = "reap" /\ AllGone
    /\ parent' = [parent EXCEPT !.at = "ended"]
    /\ UNCHANGED <<words, floorVars, cursor, wproc, carrier, sorter, elev, completed, shutdown, stopped, output>>

\* A signal interrupts the waitpid of terminate_children (no SA_RESTART), also
\* when an earlier one was handled: fail(), and the children that are still on
\* their way out are left to themselves.
ReapInterrupted ==
    /\ Interruptible /\ parent.at = "reap" /\ ~AllGone
    /\ stopped' = TRUE /\ shutdown' = TRUE
    /\ parent' = [parent EXCEPT !.at = "aborted"]
    /\ UNCHANGED <<words, floorVars, cursor, wproc, carrier, sorter, elev, completed, output>>

\* SIGINT or SIGTERM to the parent (signal_handler), outside such a waitpid.
Interrupt ==
    /\ Interruptible /\ ~stopped /\ parent.at \notin {"failed", "ended", "aborted"}
    /\ stopped' = TRUE /\ shutdown' = TRUE
    /\ UNCHANGED <<words, floorVars, cursor, wproc, carrier, sorter, elev, completed, parent, output>>

-----------------------------------------------------------------------------

WordCarrierStep(p)   == ClaimWord(p) \/ AdmitWord(p)
LetterCarrierStep(c) == \/ ClaimLetter(c) \/ PlaceHere(c) \/ RequestDelivery(c)
                        \/ (\E f \in Floors : RequestReposition(c, f))
ElevatorStep(e)      == Collect(e) \/ Deliver(e) \/ LeaveFloor(e) \/ ArriveAtFloor(e) \/ SignalCarrier(e)
SorterStep(s)        == \/ SortWord(s) \/ ReadCompleted(s) \/ WriteCompleted(s) \/ ReleaseFloors(s)
ParentStep           == \/ SpawnFloor \/ StartElevators \/ (\E f \in Floors : LookAtFloor(f)) \/ SpawnCarrier
                        \/ EndLoop \/ TooManyCarriers \/ ReportRun \/ ParentExits

Next ==
    \/ \E p \in WProcs : WordCarrierStep(p)
    \/ \E c \in Carriers : LetterCarrierStep(c)
    \/ \E e \in Elevators : ElevatorStep(e)
    \/ \E s \in Sorters : SorterStep(s)
    \/ ParentStep
    \/ Interrupt \/ ReapInterrupted

Spec == Init /\ [][Next]_vars

\* Every process is scheduled, and a letter carrier that could draw a letter
\* from rand_r again and again some day does.  With more than two floors the
\* same would have to be said of the floors an idle carrier draws.
Fairness ==
    /\ \A p \in WProcs : WF_vars(WordCarrierStep(p))
    /\ \A c \in Carriers : WF_vars(LetterCarrierStep(c)) /\ SF_vars(ClaimLetter(c))
    /\ \A e \in Elevators : WF_vars(ElevatorStep(e))
    /\ \A s \in Sorters : WF_vars(SorterStep(s))
    /\ WF_vars(ParentStep)

FairSpec == Spec /\ Fairness

-----------------------------------------------------------------------------
(* Properties                                                              *)

\* Riders whose letter the delivery elevator has not handed over yet.
Riding == LET d == elev["delivery"]
          IN  IF d.at = "deliver" THEN Range(d.batch)
              ELSE IF d.batch = <<>> THEN {} ELSE Range(Tail(d.batch))

\* Where letter i of word w is while it is in transit.
Hands(w, i) ==
    {c \in Carriers : carrier[c].at = "hold" /\ carrier[c].word = w /\ carrier[c].letter = i}
    \cup {r.carrier : r \in {q \in elev["delivery"].requests \cup Riding :
                                q.word = w /\ q.letter = i}}

\* A letter is in exactly one place: on its arrival floor, in one carrier's
\* hand, queue entry or ride (letter_carrier.c, elevator.c), or in one slot of
\* the sorting area, whatever the sorters swap meanwhile (sorting.c).
LettersConserved ==
    \A w \in Words : \A i \in Letters(w) :
        LET state == words[w].letter[i]
            slots == {k \in Letters(w) : words[w].meta[k] = i}
        IN  /\ Cardinality(Hands(w, i)) = IF state = "transit" THEN 1 ELSE 0
            /\ Cardinality(slots) = IF state = "placed" THEN 1 ELSE 0

\* "Atomic all-or-nothing" admission (word_carrier.c): a floor never holds more
\* words than its capacity, and active_words counts exactly the words that
\* hold a place there, which they give back once, when they are sorted.
CapacityRespected ==
    \A f \in Floors :
        /\ active[f] = Cardinality({w \in Words : words[w].reserved /\ f \in Occupies(w, words[w].arrival)})
        /\ active[f] <= MaxWordsPerFloor

\* carrier_count is exact but for a carrier between two floor locks, and a
\* floor without carriers has a respawn request, or the elevator that emptied
\* it has yet to take its second look (move_carrier_between_floors).
NoFloorForgotten ==
    \A f \in Floors :
        LET here    == {c \in Carriers \ Unborn : carrier[c].floor = f}
            leaving == {e \in Elevators : elev[e].at = "arrive" /\ Head(elev[e].batch).from = f}
        IN  /\ present[f] = Cardinality(here) - Cardinality(leaving)
            /\ parent.at # "start" /\ present[f] = 0 =>
                   respawn[f] \/ \E e \in Elevators : elev[e].emptied = f

\* What will wake carrier c: a queued request or a ride.
Wakers(c) ==
    {<<"queue", e>> : e \in {x \in Elevators : \E r \in elev[x].requests : r.carrier = c}}
    \cup {<<"ride", e>> : e \in {x \in Elevators : \E k \in DOMAIN elev[x].batch : elev[x].batch[k].carrier = c}}

\* A carrier that waits on its event semaphore has exactly one request or ride
\* whose end will post it, and no other carrier has one that would end a later
\* wait early: nobody is forgotten in a batch, nobody is served twice.  After
\* wake_all nobody waits any more (letter_carrier.c, elevator.c, hw3.c).
WaitersAreServed ==
    IF parent.at \in {"report", "reap", "ended", "aborted"}
    THEN \A c \in Carriers : carrier[c].at # "wait"
    ELSE \A c \in Carriers : Cardinality(Wakers(c)) = IF carrier[c].at = "wait" THEN 1 ELSE 0

\* The output file is written only when every word is complete, with every
\* letter in its own slot, and nothing is left in transit: completed_words
\* may lag behind the words, it never runs ahead of them (shared_memory.c).
OutputIsComplete ==
    output => \A w \in Words : /\ words[w].completed
                               /\ \A i \in Letters(w) : words[w].meta[i] = i /\ Hands(w, i) = {}

\* Every word is admitted, carried letter by letter and sorted, unless the
\* run is interrupted: no claim, capacity check or idle carrier stalls it.
EveryWordCompletes == <>(stopped \/ \A w \in Words : words[w].completed)

\* Once the counter is complete or a signal came, wake_all gets every blocked
\* process out of its wait: all of them leave, and the parent reaps them, or a
\* further signal made it give up on that and they leave unreaped (hw3.c).
\* Only a parent that has died of too many carriers wakes nobody.
CountedRunEnds ==
    (completed = NumWords \/ stopped) ~>
        (parent.at = "failed" \/ (parent.at \in {"ended", "aborted"} /\ AllGone))

\* HW3_report.tex: "Once all words are complete, the parent: sets the global
\* shutdown flag".
CompletionEndsRun == (\A w \in Words : words[w].completed) ~> (shutdown \/ parent.at = "failed")

=============================================================================
