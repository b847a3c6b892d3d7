---------------------------- MODULE LineAssembly ----------------------------
(***************************************************************************)
(* How the HW6 server (feed_client_data) and its clients                   *)
(* (consume_socket_lines) make lines of the bytes that recv() delivers in  *)
(* pieces of any size.  A byte is a newline, a carriage return, or another *)
(* character; the line LastLine stands for the one that ends the           *)
(* connection: APPARATE of an enrolled user for the server, the replies    *)
(* after which a client leaves.                                            *)
(***************************************************************************)
EXTENDS Integers, Sequences, SequencesExt, FiniteSets, FiniteSetsExt

CONSTANTS
    MaxLine,        \* MAX_LINE, 512 in the code
    LastLine,       \* the line after which no more is read
    BytesTried,     \* the bytes of the streams tried
    MaxStream       \* bound: bytes of a stream

NL == "nl"
CR == "cr"

ASSUME LineAssumption == MaxLine \in Nat \ {0} /\ MaxStream \in Nat /\ NL \in BytesTried

\* A receiver: line_buf, discard_long_line, whether the connection has ended,
\* and what it handed on so far.
Fresh == [buf |-> <<>>, discard |-> FALSE, ended |-> FALSE, out |-> <<>>]

TooLong == [line |-> <<>>, toolong |-> TRUE]
Line(l) == [line |-> l, toolong |-> FALSE]

\* Hand on a line; the last one ends the connection.
Emit(r, l, last) == [r EXCEPT !.buf = <<>>, !.out = Append(@, Line(l)), !.ended = last]

-----------------------------------------------------------------------------
(* The server                                                              *)

\* process_command splits at carriage returns, too: the only word is LastLine.
OnlyWordIsLast(l) ==
    LET ink == {i \in DOMAIN l : l[i] # CR}
    IN  ink # {} /\ SubSeq(l, Min(ink), Max(ink)) = LastLine

\* Mutant: the line after a long one is swallowed with it.
KeepDiscarding(r) == [r EXCEPT !.buf = <<>>]

\* The newline that ends a discarded line.
EndDiscard(r) == [r EXCEPT !.buf = <<>>, !.discard = FALSE]

\* One byte of feed_client_data.
ServerByte(r, ch) ==
    IF r.ended THEN r
    ELSE IF r.discard THEN (IF ch = NL THEN EndDiscard(r) ELSE r)
    ELSE IF ch = NL THEN Emit(r, r.buf, OnlyWordIsLast(r.buf))
    ELSE IF Len(r.buf) >= MaxLine
    THEN [r EXCEPT !.out = Append(@, TooLong), !.discard = TRUE, !.buf = <<>>]
    ELSE [r EXCEPT !.buf = Append(@, ch)]

-----------------------------------------------------------------------------
(* The clients                                                             *)

\* A carriage return in front of the newline is dropped.
Chomp(l) == IF l # <<>> /\ Last(l) = CR THEN Front(l) ELSE l

\* One byte of consume_socket_lines; a line that does not fit is begun anew.
ClientByte(r, ch) ==
    IF r.ended THEN r
    ELSE IF ch = NL THEN Emit(r, Chomp(r.buf), Chomp(r.buf) = LastLine)
    ELSE IF Len(r.buf) < MaxLine THEN [r EXCEPT !.buf = Append(@, ch)]
    ELSE [r EXCEPT !.buf = <<>>]

-----------------------------------------------------------------------------
(* What a stream of bytes means                                            *)

\* recv() delivers the stream in chunks, byte(r, ch) is applied to each byte.
Received(byte(_, _), chunks) == FoldLeft(LAMBDA r, chunk : FoldLeft(byte, r, chunk), Fresh, chunks)

\* The ways to cut a stream in up to three chunks.
Chunkings(bytes) ==
    {<<SubSeq(bytes, 1, i), SubSeq(bytes, i + 1, j), SubSeq(bytes, j + 1, Len(bytes))>> :
        <<i, j>> \in {<<a, b>> \in (0..Len(bytes)) \X (0..Len(bytes)) : a <= b}}

\* The lines of a stream, and what stands behind its last newline.
Split(bytes) ==
    LET ends  == {i \in DOMAIN bytes : bytes[i] = NL}
        order == SetToSortSeq(ends, <)
        start(k) == IF k = 1 THEN 1 ELSE order[k - 1] + 1
    IN  [lines |-> [k \in DOMAIN order |-> SubSeq(bytes, start(k), order[k] - 1)],
         rest  |-> SubSeq(bytes, start(Len(order) + 1), Len(bytes))]

\* Nothing counts after the last line.
UpToLast(out, isLast(_)) ==
    LET lasts == {k \in DOMAIN out : isLast(out[k].line)}
    IN  IF lasts = {} THEN out ELSE SubSeq(out, 1, Min(lasts))

\* The server takes lines of up to MAX_LINE bytes as they are and answers a
\* longer one with ERR TOOLONG, once, as soon as it is too long.
ServerMeaning(bytes) ==
    LET take(l) == IF Len(l) > MaxLine THEN TooLong ELSE Line(l)
        s       == Split(bytes)
        tail    == IF Len(s.rest) > MaxLine THEN <<TooLong>> ELSE <<>>
    IN  UpToLast([k \in DOMAIN s.lines |-> take(s.lines[k])] \o tail, OnlyWordIsLast)

\* A client takes the lines the server can send, of up to MAX_LINE bytes.
ClientMeaning(bytes) ==
    LET s == Split(bytes)
    IN  UpToLast([k \in DOMAIN s.lines |-> Line(Chomp(s.lines[k]))], LAMBDA l : l = LastLine)

Streams == BoundedSeq(BytesTried, MaxStream)

AssemblyExact ==
    \A bytes \in Streams :
        /\ \A chunks \in Chunkings(bytes) :
              Received(ServerByte, chunks).out = ServerMeaning(bytes)
        /\ (\A k \in DOMAIN Split(bytes).lines : Len(Split(bytes).lines[k]) <= MaxLine) =>
              \A chunks \in Chunkings(bytes) : Received(ClientByte, chunks).out = ClientMeaning(bytes)

=============================================================================
