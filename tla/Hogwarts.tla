------------------------------ MODULE Hogwarts ------------------------------
(***************************************************************************)
(* HW6: the Hogwarts server (hogwarts.c), a single select() loop over a    *)
(* fixed table of client slots, and the wizard and professor clients       *)
(* (client_common.c) that talk to it over TCP.                             *)
(*                                                                         *)
(* A line is one message: a receive delivers whole lines, as many as have  *)
(* arrived (at least one).  Replies are abstracted to what a client tells  *)
(* apart.  Time is the age of a session, in seconds since last_active,     *)
(* capped at Timeout.                                                      *)
(***************************************************************************)
EXTENDS Integers, Sequences, FiniteSets, FiniteSetsExt, SequencesExt

CONSTANTS
    Clients,      \* client processes; each connects at most once
    Names,        \* the user names a client may be started with
    RoleOf,       \* [Clients -> {"WIZARD", "PROFESSOR"}]
    MaxClients,   \* bound: the largest client table considered
    Timeout,      \* -t, timeout_seconds
    Initial,      \* [ingredient -> quantity]: the ingredients file
    Lines,        \* what a user may type; [op |-> "BLANK"] is a line of blanks
    MaxTyped,     \* bound: lines typed by all users together
    MaxPending,   \* bound: unanswered lines a user lets pile up
    MaxFailures,  \* bound: failing accept() or calloc() calls
    NoClient, NoName

ASSUME HogwartsAssumption ==
    /\ RoleOf \in [Clients -> {"WIZARD", "PROFESSOR"}]
    /\ MaxClients \in Nat \ {0} /\ Timeout \in Nat \ {0}
    /\ Initial \in [DOMAIN Initial -> Nat \ {0}]
    /\ MaxTyped \in Nat /\ MaxPending \in Nat /\ MaxFailures \in Nat
    /\ NoClient \notin Clients /\ NoName \notin Names

\* Names are not empty and quantities pass parse_positive_int; a line that
\* would not is one of the unknown commands (REPORT).
ASSUME LinesAssumption ==
    \A line \in Lines :
        /\ line.op = "ENROLL" => line.name \in Names /\ line.type \in {"WIZARD", "PROFESSOR"}
        /\ line.op \in {"BREW", "CONSUME"} => line.qty \in Nat \ {0}

Slots       == 1..MaxClients
Ingredients == DOMAIN Initial

VARIABLES
    stock,      \* the qty fields of ingredients[]
    slots,      \* clients[]: [conn, name, type, book, age]
    shutdown,   \* shutdown_requested
    spc,        \* where the server is in its loop
    wait,       \* seconds left of the select timeout
    ready,      \* connections select() reported and not yet served
    serving,    \* the slot whose received lines are being handled
    batch,      \* those lines
    failures,   \* failed accept() and calloc() calls so far
    tableSize,  \* -n, max_clients: the slots beyond it do not exist
    backlog,    \* connections waiting for accept()
    toServer, toClient, \* [Clients -> Seq]: lines in flight
    dropped,    \* [Clients -> BOOLEAN]: the server closed this connection
    client,     \* [Clients -> ...]: the client processes: pc, ~stdin_closed, and
                \* pending (history: lines with a word sent less replies received)
    typed       \* lines typed so far

dataVars   == <<stock, slots>>
loopVars   == <<shutdown, spc, wait, ready, serving, batch, failures, tableSize>>
netVars    == <<backlog, toServer, toClient, dropped>>
userVars   == <<client, typed>>
vars == <<dataVars, loopVars, netVars, userVars>>

EmptyBook == [i \in Ingredients |-> 0]
FreeSlot  == [conn |-> NoClient, name |-> NoName, type |-> "", book |-> EmptyBook, age |-> 0]

NewClient  == [pc |-> "new", stdin |-> TRUE, pending |-> 0]
GoneClient == [NewClient EXCEPT !.pc = "gone"]

Init ==
    /\ stock = Initial
    /\ slots = [s \in Slots |-> FreeSlot]
    /\ shutdown = FALSE /\ spc = "loop" /\ wait = 0
    /\ ready = {} /\ serving = 0 /\ batch = <<>> /\ failures = 0
    /\ tableSize \in Slots
    /\ backlog = <<>>
    /\ toServer = [c \in Clients |-> <<>>] /\ toClient = [c \in Clients |-> <<>>]
    /\ dropped = [c \in Clients |-> FALSE]
    /\ client = [c \in Clients |-> NewClient] /\ typed = 0

-----------------------------------------------------------------------------
(* Helpers                                                                 *)

Used == {s \in Slots : slots[s].conn # NoClient}

\* A socket the server can receive from without blocking.
Readable(c) == toServer[c] # <<>> \/ client[c].pc = "gone"

\* A line of blanks has no token; the client sends it all the same.
HasWord(line) == line.op # "BLANK"

\* The lines of a queue that a reply is owed for.
Owed(queue) == Cardinality({i \in DOMAIN queue : HasWord(queue[i])})

\* A line sent to a client whose process is gone is lost.
SentTo(queues, c, msg) ==
    IF client[c].pc = "gone" THEN queues ELSE [queues EXCEPT ![c] = Append(@, msg)]

\* Mutant: looks only at the slots in front of the one being served.
UsernameExistsBefore(name) == \E s \in Used : s < serving /\ slots[s].name = name

UsernameExists(name) == \E s \in Used : slots[s].name = name

-----------------------------------------------------------------------------
(* Server: the top of the loop                                             *)

\* Mutant: a session that never enrolled is not looked at.
ExpiredWizards == {s \in Used : slots[s].age >= Timeout /\ slots[s].name # NoName}

Expired == {s \in Used : slots[s].age >= Timeout}

\* Mutant: while (1).
AlwaysRunning == TRUE

\* The test of the server loop.
KeepRunning == ~shutdown

\* disconnect_expired_clients.
DisconnectExpired ==
    /\ spc = "loop" /\ KeepRunning
    /\ LET out == {slots[s].conn : s \in Expired}
       IN  /\ toClient' = [c \in Clients |->
                             IF c \in out THEN SentTo(toClient, c, "TIMEOUT")[c]
                             ELSE toClient[c]]
           /\ dropped' = [c \in Clients |-> dropped[c] \/ c \in out]
           /\ toServer' = [c \in Clients |-> IF c \in out THEN <<>> ELSE toServer[c]]
    /\ slots' = [s \in Slots |-> IF s \in Expired THEN FreeSlot ELSE slots[s]]
    /\ spc' = "timeout"
    /\ UNCHANGED <<stock, shutdown, wait, ready, serving, batch, failures, tableSize, backlog,
                   userVars>>

\* compute_select_timeout: until the next session expires.
SelectTimeout ==
    IF Used = {} THEN Timeout
    ELSE Min({IF slots[s].age > Timeout THEN 0 ELSE Timeout - slots[s].age : s \in Used})

ComputeSelectTimeout ==
    /\ spc = "timeout"
    /\ wait' = SelectTimeout
    /\ spc' = "select"
    /\ UNCHANGED <<dataVars, shutdown, ready, serving, batch, failures, tableSize, netVars, userVars>>

\* Mutant: the result of select() is not consulted.
AllConnected == {slots[s].conn : s \in Used}

ReadySet == {c \in {slots[s].conn : s \in Used} : Readable(c)}

\* select() reports every readable client, and the listener with a backlog.
SelectReady ==
    /\ spc = "select"
    /\ ReadySet # {} \/ backlog # <<>>
    /\ ready' = ReadySet
    /\ spc' = IF backlog # <<>> THEN "accept" ELSE "serve"
    /\ wait' = 0
    /\ UNCHANGED <<dataVars, shutdown, serving, batch, failures, tableSize, netVars, userVars>>

SelectTimesOut ==
    /\ spc = "select" /\ wait = 0
    /\ ReadySet = {} /\ backlog = <<>>
    /\ spc' = "loop"
    /\ UNCHANGED <<dataVars, shutdown, wait, ready, serving, batch, failures, tableSize, netVars,
                   userVars>>

-----------------------------------------------------------------------------
(* Server: accept_new_client                                               *)

Unused == {s \in Slots \ Used : s <= tableSize}

\* Mutant: the close() is missing.
CloseForgotten(c, msg) ==
    /\ toClient' = SentTo(toClient, c, msg)
    /\ UNCHANGED <<toServer, dropped>>

\* The server closes a connection: what it has not received is discarded.
Close(c, msg) ==
    /\ toClient' = SentTo(toClient, c, msg)
    /\ toServer' = [toServer EXCEPT ![c] = <<>>]
    /\ dropped' = [dropped EXCEPT ![c] = TRUE]

Accept ==
    /\ spc = "accept" /\ Unused # {}
    /\ slots' = [slots EXCEPT ![Min(Unused)] = [FreeSlot EXCEPT !.conn = Head(backlog)]]
    /\ backlog' = Tail(backlog)
    /\ spc' = "serve"
    /\ UNCHANGED <<stock, shutdown, wait, ready, serving, batch, failures, tableSize,
                   toServer, toClient, dropped, userVars>>

\* No free slot: ERR HOGWARTS_FULL; or no memory for the spellbook: ERR SERVER.
Reject ==
    /\ spc = "accept"
    /\ \/ Unused = {} /\ failures' = failures
       \/ Unused # {} /\ failures < MaxFailures /\ failures' = failures + 1
    /\ Close(Head(backlog), "ERR")
    /\ backlog' = Tail(backlog)
    /\ spc' = "serve"
    /\ UNCHANGED <<dataVars, shutdown, wait, ready, serving, batch, tableSize, userVars>>

\* accept() fails; the connection stays in the backlog.
AcceptFails ==
    /\ spc = "accept"
    /\ failures < MaxFailures /\ failures' = failures + 1
    /\ spc' = "serve"
    /\ UNCHANGED <<dataVars, shutdown, wait, ready, serving, batch, tableSize, netVars, userVars>>

-----------------------------------------------------------------------------
(* Server: the client loop                                                 *)

\* Slots are served in the order of the table.
NextSlot == Min({s \in Used : slots[s].conn \in ready})

\* recv() returns lines: hand them to feed_client_data.
Recv ==
    /\ spc = "serve" /\ batch = <<>> /\ ready # {}
    /\ LET c == slots[NextSlot].conn
       IN  /\ toServer[c] # <<>>
           /\ \E n \in 1..Len(toServer[c]) :
                /\ batch' = SubSeq(toServer[c], 1, n)
                /\ toServer' = [toServer EXCEPT ![c] = SubSeq(@, n + 1, Len(@))]
           /\ ready' = ready \ {c}
    /\ serving' = NextSlot
    /\ UNCHANGED <<dataVars, shutdown, spc, wait, failures, tableSize, backlog, toClient, dropped,
                   userVars>>

\* recv() returns 0, or an error: disconnect_client(i, "hangup").
Hangup ==
    /\ spc = "serve" /\ batch = <<>> /\ ready # {}
    /\ LET c == slots[NextSlot].conn
       IN  /\ toServer[c] = <<>>
           /\ dropped' = [dropped EXCEPT ![c] = TRUE]
           /\ ready' = ready \ {c}
    /\ slots' = [slots EXCEPT ![NextSlot] = FreeSlot]
    /\ UNCHANGED <<stock, shutdown, spc, wait, serving, batch, failures, tableSize,
                   backlog, toServer, toClient, userVars>>

RoundEnds ==
    /\ spc = "serve" /\ batch = <<>> /\ ready = {}
    /\ spc' = "loop" /\ serving' = 0
    /\ UNCHANGED <<dataVars, shutdown, wait, ready, batch, failures, tableSize, netVars, userVars>>

\* The session being served; every command makes it active again.
Session == slots[serving]
Active  == [Session EXCEPT !.age = 0]

\* One line of the batch is handled with one reply; the session becomes new.
Handled(new, reply) ==
    /\ slots' = [slots EXCEPT ![serving] = new]
    /\ toClient' = SentTo(toClient, Session.conn, reply)
    /\ batch' = Tail(batch)
    /\ UNCHANGED <<shutdown, spc, wait, ready, serving, failures, tableSize,
                   backlog, toServer, dropped, userVars>>

Handling(op) == spc = "serve" /\ batch # <<>> /\ Head(batch).op = op

HandleEnroll ==
    /\ Handling("ENROLL")
    /\ LET cmd == Head(batch)
       IN  IF Session.name # NoName \/ UsernameExists(cmd.name)
           THEN Handled(Active, "ERR")
           ELSE Handled([Active EXCEPT !.name = cmd.name, !.type = cmd.type], "OK")
    /\ UNCHANGED stock

\* No token: the session is active again, and that is all.
HandleBlank ==
    /\ Handling("BLANK")
    /\ slots' = [slots EXCEPT ![serving] = Active]
    /\ batch' = Tail(batch)
    /\ UNCHANGED <<stock, shutdown, spc, wait, ready, serving, failures, tableSize, netVars, userVars>>

\* Mutant: the reply is missing.
NotEnrolledSilent ==
    /\ spc = "serve" /\ batch # <<>>
    /\ Head(batch).op \notin {"ENROLL", "BLANK"} /\ Session.name = NoName
    /\ batch' = Tail(batch)
    /\ slots' = [slots EXCEPT ![serving] = Active]
    /\ UNCHANGED <<stock, shutdown, spc, wait, ready, serving, failures, tableSize, netVars, userVars>>

\* Any other command before ENROLL succeeded: ERR NOT_ENROLLED.
NotEnrolled ==
    /\ spc = "serve" /\ batch # <<>>
    /\ Head(batch).op \notin {"ENROLL", "BLANK"} /\ Session.name = NoName
    /\ Handled(Active, "ERR")
    /\ UNCHANGED stock

\* OK APPARATE, disconnect; the rest of what was received is dropped.
HandleApparate ==
    /\ Handling("APPARATE") /\ Session.name # NoName
    /\ Close(Session.conn, "APPARATE")
    /\ slots' = [slots EXCEPT ![serving] = FreeSlot]
    /\ batch' = <<>>
    /\ UNCHANGED <<stock, shutdown, spc, wait, ready, serving, failures, tableSize, backlog, userVars>>

HandleBrew ==
    /\ Handling("BREW") /\ Session.name # NoName
    /\ LET cmd == Head(batch)
       IN  IF Session.type = "WIZARD" /\ cmd.item \in Ingredients
           THEN /\ stock' = [stock EXCEPT ![cmd.item] = @ + cmd.qty]
                /\ Handled([Active EXCEPT !.book[cmd.item] = @ + cmd.qty], "OK")
           ELSE Handled(Active, "ERR") /\ UNCHANGED stock

\* Mutant: the spellbook is not looked at.
StockSufficient(cmd) == stock[cmd.item] >= cmd.qty

Sufficient(cmd) == stock[cmd.item] >= cmd.qty /\ Session.book[cmd.item] >= cmd.qty

HandleConsume ==
    /\ Handling("CONSUME") /\ Session.name # NoName
    /\ LET cmd == Head(batch)
       IN  IF Session.type = "WIZARD" /\ cmd.item \in Ingredients /\ Sufficient(cmd)
           THEN /\ stock' = [stock EXCEPT ![cmd.item] = @ - cmd.qty]
                /\ Handled([Active EXCEPT !.book[cmd.item] = @ - cmd.qty], "OK")
           ELSE Handled(Active, "ERR") /\ UNCHANGED stock

\* SPELLBOOK for wizards; INSPECT, SCROLL and ROSTER for professors; any other
\* word, or a wrong number of arguments, is ERR UNKNOWN.
HandleReport ==
    /\ Handling("REPORT") /\ Session.name # NoName
    /\ Handled(Active, IF Session.type = Head(batch).type THEN "OK" ELSE "ERR")
    /\ UNCHANGED stock

-----------------------------------------------------------------------------
(* Server: the end                                                         *)

\* SIGINT.  It interrupts select(); elsewhere only the flag is set.
Sigint ==
    /\ spc \notin {"exited", "killed"} /\ ~shutdown
    /\ shutdown' = TRUE
    /\ spc' = IF spc = "select" THEN "loop" ELSE spc
    /\ wait' = 0
    /\ UNCHANGED <<dataVars, ready, serving, batch, failures, tableSize, netVars, userVars>>

\* Every connection the process holds is closed when it ends; connections still
\* in the backlog are reset with the listening socket.
ProcessEnds(msg) ==
    LET open == {slots[s].conn : s \in Used}
    IN  /\ toClient' = [c \in Clients |->
                          IF c \in open THEN SentTo(toClient, c, msg)[c] ELSE toClient[c]]
        /\ dropped' = [c \in Clients |-> dropped[c] \/ c \in open \/ c \in Range(backlog)]
        /\ toServer' = [c \in Clients |-> IF c \in open \/ c \in Range(backlog)
                                          THEN <<>> ELSE toServer[c]]
        /\ backlog' = <<>>
        /\ slots' = [s \in Slots |-> FreeSlot]

\* shutdown_all_clients and cleanup.
ShutdownAllClients ==
    /\ spc = "loop" /\ shutdown
    /\ ProcessEnds("SHUTDOWN")
    /\ spc' = "exited"
    /\ UNCHANGED <<stock, shutdown, wait, ready, serving, batch, failures, tableSize, userVars>>

\* The server is about to send to a client that is gone.
SendsToGone ==
    \/ spc = "loop" /\ \E s \in Used : /\ client[slots[s].conn].pc = "gone"
                                       /\ shutdown \/ s \in Expired
    \/ spc = "serve" /\ batch # <<>> /\ HasWord(Head(batch)) /\ client[Session.conn].pc = "gone"
    \/ spc = "accept" /\ Unused = {} /\ client[Head(backlog)].pc = "gone"

\* send() without MSG_NOSIGNAL on a connection the peer has reset: SIGPIPE, not
\* handled, ends the process.
SigpipeKills ==
    /\ SendsToGone
    /\ LET open == {slots[s].conn : s \in Used}
       IN  /\ dropped' = [c \in Clients |-> dropped[c] \/ c \in open \/ c \in Range(backlog)]
           /\ toServer' = [c \in Clients |-> IF c \in open \/ c \in Range(backlog)
                                             THEN <<>> ELSE toServer[c]]
    /\ backlog' = <<>> /\ batch' = <<>> /\ ready' = {}
    /\ slots' = [s \in Slots |-> FreeSlot]
    /\ spc' = "killed"
    /\ UNCHANGED <<stock, shutdown, wait, serving, failures, tableSize, toClient, userVars>>

-----------------------------------------------------------------------------
(* Time                                                                    *)

\* One second passes; select() returns before its timeout is exceeded.
Tick ==
    /\ spc \notin {"exited", "killed"}
    /\ spc = "select" => wait > 0
    /\ \/ \E s \in Used : slots[s].age < Timeout
       \/ spc = "select"
    /\ slots' = [s \in Slots |->
                   IF s \in Used /\ slots[s].age < Timeout
                   THEN [slots[s] EXCEPT !.age = @ + 1] ELSE slots[s]]
    /\ wait' = IF spc = "select" THEN wait - 1 ELSE wait
    /\ UNCHANGED <<stock, shutdown, spc, ready, serving, batch, failures, tableSize, netVars, userVars>>

-----------------------------------------------------------------------------
(* Clients                                                                 *)

EnrollLine(c, name) == [op |-> "ENROLL", type |-> RoleOf[c], name |-> name]
ApparateLine  == [op |-> "APPARATE"]

\* connect() is refused when nobody listens.
Connect(c) ==
    /\ client[c].pc = "new"
    /\ IF spc \in {"exited", "killed"}
       THEN /\ client' = [client EXCEPT ![c] = GoneClient]
            /\ UNCHANGED backlog
       ELSE /\ client' = [client EXCEPT ![c].pc = "connected"]
            /\ backlog' = Append(backlog, c)
    /\ UNCHANGED <<dataVars, loopVars, toServer, toClient, dropped, typed>>

\* The process ends; what was sent to it is lost.
Leave(c) ==
    /\ client' = [client EXCEPT ![c] = GoneClient]
    /\ toClient' = [toClient EXCEPT ![c] = <<>>]

\* send_line; when the server has closed the connection the line is lost, or
\* the failing send (an error or SIGPIPE) ends the client.
SendLine(c, line, after) ==
    \/ /\ client' = [client EXCEPT ![c] = [after EXCEPT !.pending = @ + Owed(<<line>>)]]
       /\ toServer' = IF dropped[c] THEN toServer ELSE [toServer EXCEPT ![c] = Append(@, line)]
       /\ UNCHANGED toClient
    \/ /\ dropped[c]
       /\ Leave(c)
       /\ UNCHANGED toServer

\* The first line a client sends, with the name it was started with.
Enroll(c) ==
    /\ client[c].pc = "connected"
    /\ \E name \in Names :
         SendLine(c, EnrollLine(c, name), [client[c] EXCEPT !.pc = "running"])
    /\ UNCHANGED <<dataVars, loopVars, backlog, dropped, typed>>

\* A line typed by the user; APPARATE, or the end of stdin, is the last one.
ReadInput(c) ==
    /\ client[c].pc = "running" /\ client[c].stdin
    /\ client[c].pending < MaxPending
    /\ \/ /\ typed < MaxTyped /\ typed' = typed + 1
          /\ \E line \in Lines : SendLine(c, line, client[c])
       \/ /\ SendLine(c, ApparateLine, [client[c] EXCEPT !.stdin = FALSE])
          /\ UNCHANGED typed
    /\ UNCHANGED <<dataVars, loopVars, backlog, dropped>>

LastLines == {"TIMEOUT", "SHUTDOWN", "APPARATE"}

\* consume_socket_lines: three replies end the client, the others are printed.
ReceiveLine(c) ==
    /\ client[c].pc \in {"running", "leaving"} /\ toClient[c] # <<>>
    /\ IF Head(toClient[c]) \in LastLines
       THEN Leave(c)
       ELSE /\ client' = [client EXCEPT ![c].pending = @ - 1]
            /\ toClient' = [toClient EXCEPT ![c] = Tail(@)]
    /\ UNCHANGED <<dataVars, loopVars, backlog, toServer, dropped, typed>>

\* recv() returns 0 or an error after the server closed.
ReceiveEnd(c) ==
    /\ client[c].pc \in {"running", "leaving"} /\ dropped[c] /\ toClient[c] = <<>>
    /\ Leave(c)
    /\ UNCHANGED <<dataVars, loopVars, backlog, toServer, dropped, typed>>

\* The loop sees exit_requested after SIGINT: send APPARATE unless it was sent,
\* and wait up to two seconds for an answer; else leave at once.  A signal that
\* comes between the test and a select() that nothing ends is not seen.
SeeExit(c) ==
    /\ client[c].pc = "running"
    /\ IF client[c].stdin
       THEN SendLine(c, ApparateLine, [client[c] EXCEPT !.pc = "leaving"])
       ELSE Leave(c) /\ UNCHANGED toServer
    /\ UNCHANGED <<dataVars, loopVars, backlog, dropped, typed>>

\* send_apparate_and_wait returns: the two seconds are over, or something else
\* was received first.
StopWaiting(c) ==
    /\ client[c].pc = "leaving"
    /\ Leave(c)
    /\ UNCHANGED <<dataVars, loopVars, backlog, toServer, dropped, typed>>

-----------------------------------------------------------------------------

Handle == \/ HandleBlank \/ HandleEnroll \/ NotEnrolled \/ HandleApparate
          \/ HandleBrew \/ HandleConsume \/ HandleReport

Server == \/ DisconnectExpired \/ ComputeSelectTimeout \/ SelectReady \/ SelectTimesOut
          \/ Accept \/ Reject \/ AcceptFails \/ Recv \/ Hangup \/ Handle \/ RoundEnds
          \/ ShutdownAllClients \/ SigpipeKills

User(c) == ReadInput(c) \/ SeeExit(c)

Client(c) == Enroll(c) \/ ReceiveLine(c) \/ ReceiveEnd(c) \/ StopWaiting(c)

Ended == /\ spc \in {"exited", "killed"}
         /\ \A c \in Clients : client[c].pc = "gone"
         /\ UNCHANGED vars

Next == \/ Server \/ Sigint \/ Tick \/ Ended
        \/ \E c \in Clients : Connect(c) \/ User(c) \/ Client(c)

Spec == Init /\ [][Next]_vars

\* The server, the clock and every client process run; nobody has to type
\* anything, start a client or send a signal.  A client that was interrupted
\* between its test of exit_requested and select() need not see the flag.
FairSpec == /\ Spec
            /\ WF_vars(Server) /\ WF_vars(Tick)
            /\ \A c \in Clients : WF_vars(Client(c))

-----------------------------------------------------------------------------
(* Properties                                                              *)

\* Type correctness.
TypeOK ==
    /\ stock \in [Ingredients -> Int]
    /\ \A s \in Slots :
         /\ slots[s].conn \in Clients \cup {NoClient}
         /\ slots[s].type \in {"", "WIZARD", "PROFESSOR"}
         /\ slots[s].book \in [Ingredients -> Int]
         /\ slots[s].age \in 0..Timeout
    /\ spc \in {"loop", "timeout", "select", "accept", "serve", "exited", "killed"}
    /\ wait \in 0..Timeout /\ failures \in 0..MaxFailures
    /\ tableSize \in Slots
    /\ ready \subseteq Clients /\ serving \in Slots \cup {0}
    /\ client \in [Clients -> [pc : {"new", "connected", "running", "leaving", "gone"},
                               stdin : BOOLEAN, pending : Int]]
    /\ typed \in 0..MaxTyped
    /\ dropped \in [Clients -> BOOLEAN]

\* The units of ingredient i in the spellbooks of connected wizards.
Brewed(i) == UNION {{s} \X (1..slots[s].book[i]) : s \in Used}

\* What the connected wizards have in their spellbooks is in the stock, on top
\* of what the school started with: nobody consumes what others brewed.
StockCoversSpellbooks ==
    \A i \in Ingredients : stock[i] >= Initial[i] + Cardinality(Brewed(i))

\* A user name belongs to one connected client at a time, and a session is the
\* only holder of its connection.
NamesAreUnique ==
    \A s, t \in Used : s # t =>
        /\ slots[s].conn # slots[t].conn
        /\ slots[s].name # NoName => slots[s].name # slots[t].name

\* No connection leaks: a client the server has not closed is in the backlog or
\* in exactly one slot, and a closed one is in neither.
ConnectionsTracked ==
    \A c \in Clients :
        client[c].pc # "new" /\ ~(client[c].pc = "gone" /\ spc \in {"exited", "killed"}) =>
            (~dropped[c] <=> c \in Range(backlog) \/ \E s \in Used : slots[s].conn = c)

\* recv() is only called on a socket that has something to deliver, so one idle
\* client never blocks the server for all the others.
RecvNeverBlocks ==
    spc \in {"accept", "serve"} =>
        \A c \in ready : Readable(c) /\ \E s \in Used : slots[s].conn = c

\* Every line with a word in it that a connected client sent is answered
\* exactly once: it is on its way, being handled, or its reply is on its way.
\* A line of blanks is never answered, and costs no other line its reply
\* (process_command).
AnsweredOnce ==
    \A c \in Clients : client[c].pc \in {"running", "leaving"} /\ ~dropped[c] =>
        client[c].pending = Owed(toServer[c]) + Len(toClient[c])
                     + (IF batch # <<>> /\ Session.conn = c THEN Owed(batch) ELSE 0)

\* A client in the backlog or connected always ends, whatever it was doing:
\* turned away, refused the name that another client has and left with nothing
\* but ERR NOT_ENROLLED for its APPARATE, idle, or asked to leave.
EveryClientEnds == \A c \in Clients : client[c].pc # "new" ~> client[c].pc = "gone"

\* SIGINT ends the server even when it arrives outside select(), because no
\* select() waits longer than timeout_seconds.
ShutdownEnds == shutdown ~> spc \in {"exited", "killed"}

=============================================================================
