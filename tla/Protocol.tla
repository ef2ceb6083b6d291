------------------------------ MODULE Protocol ------------------------------
(***************************************************************************)
(* The requests of a client: networking.c reads them in pieces of any size *)
(* into the query buffer, parses inline and multi bulk requests with the   *)
(* state kept between two reads, and stops and resumes while clients are   *)
(* paused, the client is blocked or a script runs too long.  The stream of *)
(* a master is also passed on to the replicas of this server.  A byte is a *)
(* one character string, "CR" or "LF".                                     *)
(***************************************************************************)
EXTENDS Integers, Sequences

CONSTANTS InlineMax,  \* PROTO_INLINE_MAX_SIZE
          BigArg,     \* PROTO_MBULK_BIG_ARG
          IoLen,      \* PROTO_IOBUF_LEN
          MaxBulk,    \* proto_max_bulk_len
          MaxQuery,   \* client_max_querybuf_len
          MaxCount,   \* the largest multi bulk count
          Scenarios   \* [reqs, tail, master, may]

VARIABLE s

From(q, i) == SubSeq(q, i, Len(q))
Digit == [d \in {"0", "1", "2", "3", "4", "5", "6", "7", "8", "9"} |->
            CASE d = "0" -> 0 [] d = "1" -> 1 [] d = "2" -> 2 [] d = "3" -> 3 [] d = "4" -> 4
              [] d = "5" -> 5 [] d = "6" -> 6 [] d = "7" -> 7 [] d = "8" -> 8 [] d = "9" -> 9]
Space == {" ", "CR", "LF", "TAB"}

\* string2ll; -1 is a failure
RECURSIVE Number(_)
Number(t) == IF t = <<>> \/ t[Len(t)] \notin DOMAIN Digit \/ (Len(t) > 1 /\ t[1] = "0") THEN -1
             ELSE IF Len(t) = 1 THEN Digit[t[1]]
             ELSE IF Number(SubSeq(t, 1, Len(t) - 1)) = -1 THEN -1
             ELSE (10 * Number(SubSeq(t, 1, Len(t) - 1))) + Digit[t[Len(t)]]

Negative(t) == Len(t) > 1 /\ t[1] = "-" /\ Number(Tail(t)) > 0

\* strchr from a position (counted from 0); the length if there is none
RECURSIVE Find(_, _, _)
Find(q, pos, ch) == IF pos >= Len(q) \/ q[pos + 1] = ch THEN pos ELSE Find(q, pos + 1, ch)

-----------------------------------------------------------------------------
(* sds.c: the arguments of a line and the quoted form of a string.          *)

At(q, i) == IF i > Len(q) THEN "" ELSE q[i]
Hex == {"0", "1", "a", "f"}
Unescaped(ch) == CASE ch = "n" -> "LF" [] ch = "r" -> "CR" [] ch = "t" -> "TAB" [] OTHER -> ch
HexByte(a, b) == CASE a = "0" /\ b = "0" -> "NUL" [] OTHER -> "x" \o a \o b

\* sdssplitargs from position p on, in one of its modes: between arguments,
\* inside one, inside double or single quotes
RECURSIVE Split(_, _, _, _, _)
Split(q, p, mode, cur, argv) ==
  LET c == At(q, p)
      ends == At(q, p + 1) = "" \/ At(q, p + 1) \in Space
  IN CASE mode = "between" ->
            IF c = "" THEN [ok |-> TRUE, argv |-> argv]
            ELSE IF c \in Space THEN Split(q, p + 1, mode, cur, argv) ELSE Split(q, p, "in", <<>>, argv)
       [] mode = "in" ->
            IF c = "" \/ c \in Space THEN Split(q, IF c = "" THEN p ELSE p + 1, "between", <<>>, Append(argv, cur))
            ELSE IF c = "\"" THEN Split(q, p + 1, "dq", cur, argv)
            ELSE IF c = "'" THEN Split(q, p + 1, "sq", cur, argv)
            ELSE Split(q, p + 1, mode, Append(cur, c), argv)
       [] mode = "dq" ->
            IF c = "\\" /\ At(q, p + 1) = "x" /\ At(q, p + 2) \in Hex /\ At(q, p + 3) \in Hex
            THEN Split(q, p + 4, mode, Append(cur, HexByte(At(q, p + 2), At(q, p + 3))), argv)
            ELSE IF c = "\\" /\ At(q, p + 1) # "" THEN Split(q, p + 2, mode, Append(cur, Unescaped(At(q, p + 1))), argv)
            ELSE IF c = "\"" /\ ends THEN Split(q, p + 1, "between", <<>>, Append(argv, cur))
            ELSE IF c = "\"" \/ c = "" THEN [ok |-> FALSE, argv |-> <<>>]
            ELSE Split(q, p + 1, mode, Append(cur, c), argv)
       [] mode = "sq" ->
            IF c = "\\" /\ At(q, p + 1) = "'" THEN Split(q, p + 2, mode, Append(cur, "'"), argv)
            ELSE IF c = "'" /\ ends THEN Split(q, p + 1, "between", <<>>, Append(argv, cur))
            ELSE IF c = "'" \/ c = "" THEN [ok |-> FALSE, argv |-> <<>>]
            ELSE Split(q, p + 1, mode, Append(cur, c), argv)

SplitArgs(line) == Split(line, 1, "between", <<>>, <<>>)

\* Mutated: a backslash is not escaped
EscapedBare(ch) ==
  CASE ch = "\"" -> <<"\\", ch>> [] ch = "LF" -> <<"\\", "n">> [] ch = "CR" -> <<"\\", "r">>
    [] ch = "TAB" -> <<"\\", "t">> [] ch = "NUL" -> <<"\\", "x", "0", "0">> [] OTHER -> <<ch>>

\* sdscatrepr
Escaped(ch) ==
  CASE ch \in {"\\", "\""} -> <<"\\", ch>> [] ch = "LF" -> <<"\\", "n">> [] ch = "CR" -> <<"\\", "r">>
    [] ch = "TAB" -> <<"\\", "t">> [] ch = "NUL" -> <<"\\", "x", "0", "0">> [] OTHER -> <<ch>>

RECURSIVE Escapes(_)
Escapes(t) == IF t = <<>> THEN <<>> ELSE Escaped(t[1]) \o Escapes(Tail(t))
Repr(t) == <<"\"">> \o Escapes(t) \o <<"\"">>

-----------------------------------------------------------------------------
(* Parsing.  c is the client; a parser answers C_OK, C_ERR or a protocol    *)
(* error, after which the connection is closed once the error is sent.      *)

Ok(c) == [c |-> c, ok |-> TRUE]
More(c) == [c |-> c, ok |-> FALSE]
Fails(c) == [c |-> [c EXCEPT !.closing = TRUE], ok |-> FALSE]
Unread(c) == Len(c.qb) - c.pos

\* processInlineBuffer: empty arguments are dropped
InlineLine(c, end, split) ==
  IF ~split.ok THEN Fails(c)
  ELSE Ok([c EXCEPT !.pos = end + 1, !.argv = SelectSeq(split.argv, LAMBDA a : a # <<>>)])

InlineAt(c, end) ==
  IF end = Len(c.qb) THEN IF Unread(c) > InlineMax THEN Fails(c) ELSE More(c)
  ELSE InlineLine(c, end, SplitArgs(SubSeq(c.qb, c.pos + 1, IF end > c.pos /\ c.qb[end] = "CR" THEN end - 1 ELSE end)))

Inline(c) == InlineAt(c, Find(c.qb, c.pos, "LF"))

\* Mutated: the line feed after a carriage return is taken for granted
LineHereBare(c, cr) == cr < Len(c.qb)

\* A line of the protocol is complete when its CR and the LF after it are here
LineHere(c, cr) == cr < Len(c.qb) /\ cr - c.pos <= Unread(c) - 2

NoLine(c, cr) == IF cr = Len(c.qb) /\ Unread(c) > InlineMax THEN Fails(c) ELSE More(c)

Taken(c) == [c EXCEPT !.argv = Append(@, SubSeq(c.qb, c.pos + 1, c.pos + c.bulk)),
                      !.pos = @ + c.bulk + 2, !.bulk = -1, !.mbl = @ - 1]

\* A big argument that is the whole buffer becomes the argument itself
TakenWhole(c) == [c EXCEPT !.argv = Append(@, SubSeq(c.qb, 1, Len(c.qb) - 2)),
                           !.qb = <<>>, !.bulk = -1, !.mbl = @ - 1]

WholeBuffer(c) == c.pos = 0 /\ c.bulk >= BigArg /\ Len(c.qb) = c.bulk + 2

\* For a big argument the buffer is made to start with it
BulkLength(c, n, cr) ==
  IF n >= BigArg /\ Len(c.qb) - (cr + 2) <= n + 2
  THEN [c EXCEPT !.qb = From(@, cr + 3), !.pos = 0, !.bulk = n]
  ELSE [c EXCEPT !.pos = cr + 2, !.bulk = n]

\* processMultibulkBuffer: one argument after the other
RECURSIVE Bulks(_), BulkHeader(_, _)
Bulks(c) ==
  IF c.mbl = 0 THEN Ok(c)
  ELSE IF c.bulk = -1 THEN BulkHeader(c, Find(c.qb, c.pos, "CR"))
  ELSE IF Unread(c) < c.bulk + 2 THEN More(c)
  ELSE Bulks(IF WholeBuffer(c) THEN TakenWhole(c) ELSE Taken(c))

BulkHeader(c, cr) ==
  LET n == Number(SubSeq(c.qb, c.pos + 2, cr))
  IN IF ~LineHere(c, cr) THEN NoLine(c, cr)
     ELSE IF c.qb[c.pos + 1] # "$" \/ n = -1 \/ n > MaxBulk THEN Fails(c)
     ELSE Bulks(BulkLength(c, n, cr))

CountHeader(c, cr) ==
  LET n == Number(SubSeq(c.qb, c.pos + 2, cr))
  IN IF ~LineHere(c, cr) THEN NoLine(c, cr)
     ELSE IF n = 0 \/ Negative(SubSeq(c.qb, c.pos + 2, cr)) THEN Ok([c EXCEPT !.pos = cr + 2])
     ELSE IF n = -1 \/ n > MaxCount THEN Fails(c)
     ELSE Bulks([c EXCEPT !.pos = cr + 2, !.mbl = n])

Multibulk(c) == IF c.mbl = 0 THEN CountHeader(c, Find(c.qb, c.pos, "CR")) ELSE Bulks(c)

-----------------------------------------------------------------------------
(* Execution.  What a command does to its client is told by its name.       *)

\* resetClient
Reset(c) == [c EXCEPT !.argv = <<>>, !.type = "", !.mbl = 0, !.bulk = -1]

Name(c) == c.argv[1]

\* Mutated: the offset moves inside a transaction as well
OffsetEvery(c) == [c EXCEPT !.reploff = c.read - Len(c.qb) + c.pos]

\* The offset of what was applied: not inside a transaction
Offset(c) == IF s.sc.master /\ ~c.multi THEN [c EXCEPT !.reploff = c.read - Len(c.qb) + c.pos] ELSE c

\* processCommand, then what processInputBuffer does after it
Ran(c) ==
  LET d == [c EXCEPT !.done = Append(@, c.argv),
                     !.multi = IF Name(c) = <<"m">> THEN TRUE ELSE IF Name(c) = <<"e">> THEN FALSE ELSE @,
                     !.blocked = Name(c) = <<"b">> /\ ~s.sc.master]
  IN IF Name(c) = <<"q">> THEN [c EXCEPT !.done = Append(@, c.argv), !.closing = TRUE]
     ELSE IF Name(c) = <<"k">> THEN [d EXCEPT !.alive = FALSE]
     ELSE Reset(Offset(d))

Held(c) == s.paused \/ c.blocked \/ (s.slow /\ s.sc.master) \/ c.closing

\* processInputBuffer
RECURSIVE Process(_), Parsed(_)
Process(c) ==
  IF c.pos >= Len(c.qb) \/ ~c.alive \/ Held(c) THEN c
  ELSE IF c.type = "" THEN Process([c EXCEPT !.type = IF c.qb[c.pos + 1] = "*" THEN "multi" ELSE "inline"])
  ELSE Parsed(IF c.type = "inline" THEN Inline(c) ELSE Multibulk(c))
Parsed(r) == IF ~r.ok THEN r.c
             ELSE IF r.c.argv = <<>> THEN Process(Reset(r.c)) ELSE Process(Ran(r.c))

Trimmed(c) == IF c.alive /\ c.pos > 0 THEN [c EXCEPT !.qb = From(@, c.pos + 1), !.pos = 0] ELSE c

\* processInputBufferAndReplicate: what was applied goes to the replicas
Fed(c, applied) == [c EXCEPT !.fed = @ \o SubSeq(c.pending, 1, applied), !.pending = From(@, applied + 1)]
AndReplicate(before, c) == IF s.sc.master THEN Fed(c, c.reploff - before) ELSE c
Run(c) == AndReplicate(c.reploff, Trimmed(Process(c)))

\* readQueryFromClient: for a big argument not beyond its end
ReadLen(c) == IF c.type = "multi" /\ c.mbl > 0 /\ c.bulk >= BigArg /\ c.bulk + 2 - Len(c.qb) \in 1..IoLen - 1
              THEN c.bulk + 2 - Len(c.qb) ELSE IoLen

Got(c, bytes) == [c EXCEPT !.qb = @ \o bytes, !.read = @ + Len(bytes), !.pending = IF s.sc.master THEN @ \o bytes ELSE @]
Received(c) == IF Len(c.qb) > MaxQuery THEN [c EXCEPT !.alive = FALSE] ELSE Run(c)

Read == s.c.alive /\ \E n \in 1..ReadLen(s.c) :
  /\ n <= Len(s.net)
  /\ s' = [s EXCEPT !.net = From(@, n + 1), !.c = Received(Got(s.c, SubSeq(s.net, 1, n)))]

\* The other side is gone: freeClient
Hangup == "hangup" \in s.sc.may /\ s.c.alive /\ s' = [s EXCEPT !.c.alive = FALSE]

\* unblockClient and queueClientForReprocessing
Unblock == s.c.blocked /\ s' = [s EXCEPT !.c.blocked = FALSE, !.queued = TRUE]

\* processUnblockedClients
Reprocess == s.queued /\ s.c.alive
  /\ s' = [s EXCEPT !.queued = FALSE, !.c = IF ~s.c.blocked /\ s.c.qb # <<>> THEN Run(s.c) ELSE @]

\* pauseClients; clientsArePaused once the time is over
Pause == "pause" \in s.sc.may /\ ~s.paused /\ s' = [s EXCEPT !.paused = TRUE]
Unpause == s.paused /\ s' = [s EXCEPT !.paused = FALSE, !.queued = @ \/ ~s.c.blocked]

\* luaMaskCountHook; evalGenericCommand when the script is over
Slow == "slow" \in s.sc.may /\ ~s.slow /\ s' = [s EXCEPT !.slow = TRUE]
Over == s.slow /\ s' = [s EXCEPT !.slow = FALSE, !.queued = TRUE]

-----------------------------------------------------------------------------
(* What the other side sends: requests, then bytes that are no request.     *)

RECURSIVE Text(_), Joined(_), Bulked(_), Stream(_)
Text(n) == IF n < 10 THEN <<CHOOSE d \in DOMAIN Digit : Digit[d] = n>>
           ELSE Text(n \div 10) \o Text(n % 10)
Joined(argv) == IF argv = <<>> THEN <<>> ELSE Repr(argv[1]) \o <<" ">> \o Joined(Tail(argv))
Bulked(argv) == IF argv = <<>> THEN <<>>
                ELSE <<"$">> \o Text(Len(argv[1])) \o <<"CR", "LF">> \o argv[1] \o <<"CR", "LF">> \o Bulked(Tail(argv))
Encoded(r) == IF r.form = "multi" THEN <<"*">> \o Text(Len(r.argv)) \o <<"CR", "LF">> \o Bulked(r.argv)
              ELSE IF r.form = "quoted" THEN Joined(r.argv) \o <<"LF">>
              ELSE IF r.argv = <<>> THEN <<"CR", "LF">> ELSE r.argv[1] \o <<"CR", "LF">>
Stream(reqs) == IF reqs = <<>> THEN <<>> ELSE Encoded(reqs[1]) \o Stream(Tail(reqs))

Client == [qb |-> <<>>, pos |-> 0, type |-> "", mbl |-> 0, bulk |-> -1, argv |-> <<>>, done |-> <<>>,
           multi |-> FALSE, blocked |-> FALSE, closing |-> FALSE, alive |-> TRUE,
           read |-> 0, reploff |-> 0, pending |-> <<>>, fed |-> <<>>]

Init == \E sc \in Scenarios :
  s = [sc |-> sc, net |-> Stream(sc.reqs) \o sc.tail, c |-> Client, queued |-> FALSE, paused |-> FALSE, slow |-> FALSE]

Next == Read \/ Hangup \/ Unblock \/ Reprocess \/ Pause \/ Unpause \/ Slow \/ Over

Spec == Init /\ [][Next]_s

-----------------------------------------------------------------------------
\* What a request asks for.  An inline request cannot carry an empty argument:
\* processInlineBuffer drops those that sdssplitargs finds.
Asked(r) == IF r.form = "multi" THEN r.argv ELSE SelectSeq(r.argv, LAMBDA a : a # <<>>)

\* The requests, empty ones left out
Want == SelectSeq([i \in DOMAIN s.sc.reqs |-> Asked(s.sc.reqs[i])], LAMBDA argv : argv # <<>>)
Idle == s.net = <<>> /\ s.c.alive /\ ~s.queued /\ ~Held(s.c)

\* However the bytes are cut into pieces, and whenever the client is held back,
\* exactly the requests that were sent are executed, in their order, inline ones
\* without their empty arguments, and none waits in the buffer of a client that
\* nothing holds back (networking.c, processInputBuffer, processInlineBuffer,
\* processMultibulkBuffer, clientsArePaused).
RequestsExact ==
  /\ Len(s.c.done) <= Len(Want) /\ \A i \in DOMAIN s.c.done : s.c.done[i] = Want[i]
  /\ Idle => s.c.done = Want

\* Bytes that are no request close the connection, and only they do
\* (setProtocolError).
ErrorsExact ==
  /\ s.c.closing => \/ s.sc.tail # <<>> /\ Len(s.c.done) = Len(Want)
                    \/ s.c.done # <<>> /\ s.c.done[Len(s.c.done)][1] = <<"q">>
  /\ s.sc.tail # <<>> => ~Idle

\* Where a request of the stream ends
EndOf(n) == Len(Stream(SubSeq(s.sc.reqs, 1, n)))
Open(n) == LET marks == {i \in 1..n : s.sc.reqs[i].argv # <<>> /\ s.sc.reqs[i].argv[1] \in {<<"m">>, <<"e">>}}
           IN marks # {} /\ s.sc.reqs[CHOOSE i \in marks : \A j \in marks : j <= i].argv[1] = <<"m">>

\* The offset of a master's stream is the end of a request that is no part of an
\* open transaction, and exactly the stream up to there went to the replicas of
\* this server (processInputBufferAndReplicate).
OffsetsExact ==
  s.sc.master =>
    /\ s.c.fed = SubSeq(Stream(s.sc.reqs), 1, s.c.reploff)
    /\ \E n \in 0..Len(s.sc.reqs) : EndOf(n) = s.c.reploff /\ ~Open(n)
    /\ Idle /\ ~s.c.multi => s.c.reploff + Len(s.c.pending) = s.c.read

\* A string that is quoted is split into itself (sdscatrepr, sdssplitargs).
QuotesExact == s.sc.quotes # {} =>
  \A t \in s.sc.quotes : SplitArgs(Repr(t)) = [ok |-> TRUE, argv |-> <<t>>]
=============================================================================
