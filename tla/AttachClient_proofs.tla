------------------------ MODULE AttachClient_proofs ------------------------
(***************************************************************************)
(* Proofs about the attach command for any number of sessions, keys and    *)
(* interrupts and for any sizes of the buffers.                            *)
(***************************************************************************)
EXTENDS AttachClient, SequenceTheorems, TLAPS

USE ConstantsAssumption

\* What the reader read last.
LastRead(ss) == SubSeq(ss.buf, 1, ss.n)

\* While the reader waits for more, what it read last is on its way: with the writer,
\* with the copy, on the wire, or in the end with the shell.
Follows(ss) ==
    ss.reader = "read" /\ ss.n # 0 =>
        /\ ss.writer # "cr"
        /\ ss.writer = "write" => ss.len = ss.n
        /\ ss.writer = "receive" /\ ss.to = "write" => ss.taken = LastRead(ss)
        /\ ss.writer = "receive" /\ ss.to = "read" /\ ss.from = "read" =>
             IF ss.wire = <<>>
             THEN SubSeq(ss.shell, Len(ss.shell) - ss.n + 1, Len(ss.shell)) = LastRead(ss)
             ELSE ss.wire[1] = LastRead(ss)

\* The buffer holds what its counts say; a stream has ended for a reason, and because
\* one of its copies has.
SessionInv(ss) ==
    /\ ss \in Session
    /\ Len(ss.buf) <= TermBuf /\ ss.n <= Len(ss.buf) /\ ss.len <= Len(ss.buf)
    /\ Len(ss.taken) <= TermBuf
    /\ Len(ss.wire) <= 1 /\ (ss.wire # <<>> => Len(ss.wire[1]) <= TermBuf)
    /\ ss.stream = "result" => ss.copyErr # "none"
    /\ ss.done \/ ss.copyErr # "none" => ss.to = "gone" \/ ss.from = "gone"
    /\ ss.reader = "none" => ss.n = 0
    /\ Follows(ss)

\* Nothing has happened in a session but its round trip.
Fresh(s) == session[s] = [NoSession EXCEPT !.trip = session[s].trip]

\* A session is fresh until Attach has answered with it, and while Attach is at work the
\* command waits for it.
MainInv ==
    /\ attach.pc # "none" => main.pc \in {"connecting", "crashed"}
    /\ attach.pc = "offer" \/ (attach.pc = "report" /\ attach.result = "nil")
       => made # 0 /\ (made # 0 => Fresh(made))
    /\ \A s \in Sessions : s > made => Fresh(s)
    /\ main.pc \in {"terminal", "session"} => Current \in 1..made
    /\ main.pc = "terminal" => session[Current].reader = "none"

AttachInv == TypeOK /\ (\A s \in Sessions : SessionInv(session[s])) /\ MainInv

-----------------------------------------------------------------------------
(* Sequences *)

\* What is written over a buffer does not make it shorter or longer than either.
LEMMA OverlaidFits ==
    ASSUME NEW buf \in Seq(Items), NEW chunk \in Seq(Items)
    PROVE  /\ Overlaid(buf, chunk) \in Seq(Items)
           /\ Len(Overlaid(buf, chunk)) = IF Len(chunk) < Len(buf) THEN Len(buf) ELSE Len(chunk)
<1> DEFINE rest == SubSeq(buf, Len(chunk) + 1, Len(buf))
<1>1. Len(chunk) \in Nat /\ Len(buf) \in Nat
  OBVIOUS
<1>2. \A i \in (Len(chunk) + 1)..Len(buf) : buf[i] \in Items
  BY <1>1
<1>3. rest \in Seq(Items)
      /\ Len(rest) = IF Len(chunk) + 1 <= Len(buf) THEN Len(buf) - (Len(chunk) + 1) + 1 ELSE 0
  BY <1>1, <1>2, SubSeqProperties
<1> HIDE DEF rest
<1>4. chunk \o rest \in Seq(Items) /\ Len(chunk \o rest) = Len(chunk) + Len(rest)
  BY <1>3, ConcatProperties
<1>5. QED BY <1>1, <1>3, <1>4 DEF Overlaid, rest

\* The beginning of a sequence has the length that is asked for.
LEMMA PrefixOf ==
    ASSUME NEW S, NEW s \in Seq(S), NEW n \in Nat, n <= Len(s)
    PROVE  SubSeq(s, 1, n) \in Seq(S) /\ Len(SubSeq(s, 1, n)) = n
<1>1. Len(s) \in Nat /\ \A i \in 1..n : s[i] \in S
  OBVIOUS
<1>2. QED BY <1>1, SubSeqProperties

\* A message that fits the buffer is passed on whole.
LEMMA ReceivedWhole ==
    ASSUME NEW message \in Seq(Items), Len(message) <= TermBuf
    PROVE  Received(message) = message
<1>1. Len(message) \in Nat /\ Min2(Len(message), CopyBuf) = Len(message)
  BY DEF Min2, ConstantsAssumption
<1>2. QED BY <1>1, SubSeqFull DEF Received

\* A sequence ends with what was added to it.
LEMMA EndsWith ==
    ASSUME NEW s \in Seq(Items), NEW t \in Seq(Items), t # <<>>
    PROVE  LET u == s \o t IN SubSeq(u, Len(u) - Len(t) + 1, Len(u)) = t
<1>1. Len(s \o t) = Len(s) + Len(t) /\ Len(s) \in Nat /\ Len(t) \in Nat /\ Len(t) # 0
  BY ConcatProperties, EmptySeq
<1>2. /\ Len(s) + 1 \in Len(s) + 1 .. Len(s) + Len(t)
      /\ Len(s) + Len(t) \in Len(s) + 1 .. Len(s) + Len(t)
  BY <1>1
<1>3. SubSeq(s \o t, Len(s) + 1, Len(s) + Len(t))
        = SubSeq(t, Len(s) + 1 - Len(s), Len(s) + Len(t) - Len(s))
  BY <1>2, SubSeqOfConcat2
<1>4. SubSeq(t, 1, Len(t)) = t
  BY SubSeqFull
<1>5. /\ Len(s \o t) - Len(t) + 1 = Len(s) + 1
      /\ Len(s) + 1 - Len(s) = 1 /\ Len(s) + Len(t) - Len(s) = Len(t)
  BY <1>1
<1>6. QED BY <1>1, <1>3, <1>4, <1>5

\* What is taken off the terminal, and what is left.
LEMMA ChunkFits ==
    ASSUME tty \in Seq(Items), tty # <<>>
    PROVE  /\ Chunk \in Seq(Items) /\ Len(Chunk) \in 1..TermBuf
           /\ SubSeq(tty, Len(Chunk) + 1, Len(tty)) \in Seq(Items)
<1>1. Len(tty) \in Nat /\ Len(tty) # 0 /\ TermBuf \in Nat /\ TermBuf # 0
  BY EmptySeq DEF ConstantsAssumption
<1> DEFINE n == Min2(Len(tty), TermBuf)
<1>2. n \in 1..TermBuf /\ n <= Len(tty)
  BY <1>1 DEF Min2
<1> HIDE DEF n
<1>3. Chunk \in Seq(Items) /\ Len(Chunk) = n
  BY <1>2, PrefixOf DEF Chunk, n
<1>4. \A i \in Len(Chunk) + 1..Len(tty) : tty[i] \in Items
  BY <1>1, <1>2, <1>3
<1>5. QED BY <1>1, <1>2, <1>3, <1>4, SubSeqProperties

-----------------------------------------------------------------------------
(* The goroutines of a session *)

\* A copy that ends leaves a result, and nothing of what it held.
LEMMA EndedKeeps ==
    ASSUME NEW ss, SessionInv(ss), NEW result \in {"nil", "goingAway", "other"}
    PROVE  LET from == [Ended(ss, result) EXCEPT !.from = "gone", !.wire = <<>>, !.shell = <<>>]
               to == [Ended(ss, result) EXCEPT !.to = "gone", !.taken = <<>>] IN
           SessionInv(from) /\ from.reader = ss.reader /\ SessionInv(to) /\ to.reader = ss.reader
<1> DEFINE e == Ended(ss, result)
           from == [e EXCEPT !.from = "gone", !.wire = <<>>, !.shell = <<>>]
           to == [e EXCEPT !.to = "gone", !.taken = <<>>]
<1>1. ss \in Session
  BY DEF SessionInv
<1>2. <<>> \in Seq(Items) /\ <<>> \in Seq(Seq(Items)) /\ Len(<<>>) = 0
  BY EmptySeq
<1>3. /\ e \in Session /\ e.reader = ss.reader /\ e.stream = ss.stream /\ e.n = ss.n
      /\ e.buf = ss.buf /\ e.len = ss.len /\ e.taken = ss.taken /\ e.wire = ss.wire
      /\ e.writer = ss.writer /\ e.to = ss.to /\ (ss.copyErr # "none" => e.copyErr # "none")
  <2> DEFINE x == [ss EXCEPT !.copyErr = result]
  <2>1. /\ x \in Session /\ x.reader = ss.reader /\ x.stream = ss.stream /\ x.n = ss.n
        /\ x.buf = ss.buf /\ x.len = ss.len /\ x.taken = ss.taken /\ x.wire = ss.wire
        /\ x.writer = ss.writer /\ x.to = ss.to /\ x.copyErr # "none"
    BY <1>1 DEF Session
  <2>2. e \in {x, ss}
    BY DEF Ended
  <2> HIDE DEF x, e
  <2>3. QED BY <1>1, <2>1, <2>2
<1> HIDE DEF e
<1>4. /\ from \in Session /\ from.reader = ss.reader /\ from.stream = ss.stream /\ from.n = ss.n
      /\ from.buf = ss.buf /\ from.len = ss.len /\ from.taken = ss.taken /\ from.wire = <<>>
      /\ from.from = "gone" /\ from.copyErr = e.copyErr /\ from.writer = ss.writer
  BY <1>2, <1>3 DEF Session
<1>5. /\ to \in Session /\ to.reader = ss.reader /\ to.stream = ss.stream /\ to.n = ss.n
      /\ to.buf = ss.buf /\ to.len = ss.len /\ to.taken = <<>> /\ to.wire = ss.wire
      /\ to.to = "gone" /\ to.copyErr = e.copyErr /\ to.writer = ss.writer
  BY <1>2, <1>3 DEF Session
<1>6. from.to = ss.to
  BY <1>3 DEF Session
<1> HIDE DEF from, to
<1>7. Follows(from) /\ Follows(to)
  BY <1>4, <1>5, <1>6 DEF Follows, LastRead, SessionInv
<1>8. TermBuf \in Nat
  BY ConstantsAssumption
<1>9. SessionInv(from) /\ SessionInv(to)
  BY <1>2, <1>3, <1>4, <1>5, <1>7, <1>8 DEF SessionInv
<1>10. QED BY <1>4, <1>5, <1>9 DEF from, to, e

\* How the copies and the round trip of a session move.
LEMMA CopiesKeep ==
    ASSUME NEW s \in Sessions, SessionInv(session[s]), session \in [Sessions -> Session],
           \/ CloseConnection(s) \/ EndStream(s) \/ CopyFromEnds(s) \/ CopyToWrites(s) \/ ShellReads(s)
    PROVE  /\ \E new : SessionInv(new) /\ Set(s, new) /\ new.reader = session[s].reader
           /\ ~Fresh(s) /\ UNCHANGED tty /\ Others
<1> DEFINE ss == session[s]
           fromGone(e) == [e EXCEPT !.from = "gone", !.wire = <<>>, !.shell = <<>>]
           toGone(e) == [e EXCEPT !.to = "gone", !.taken = <<>>]
<1>0. \A result \in {"nil", "goingAway", "other"} :
        LET e == Ended(ss, result) IN
        /\ SessionInv(fromGone(e)) /\ fromGone(e).reader = ss.reader
        /\ SessionInv(toGone(e)) /\ toGone(e).reader = ss.reader
  BY EndedKeeps
<1> USE DEF SessionInv
<1>1. ss \in Session /\ (Fresh(s) => ss.stream = "none" /\ ~ss.done /\ ss.from = "none" /\ ss.to = "none"
                                     /\ ss.wire = <<>>)
  BY DEF Fresh, NoSession
<1>2. <<>> \in Seq(Items) /\ <<>> \in Seq(Seq(Items)) /\ Len(<<>>) = 0
  BY EmptySeq
<1>3. CASE CloseConnection(s)
  <2> DEFINE new == [ss EXCEPT !.trip = "gone", !.wire = <<>>, !.shell = <<>>]
  <2>1. Set(s, new) /\ UNCHANGED tty /\ Others /\ ss.done
    BY <1>3 DEF CloseConnection
  <2>2. /\ new \in Session /\ new.reader = ss.reader
        /\ new.buf = ss.buf /\ new.n = ss.n /\ new.len = ss.len /\ new.wire = <<>>
        /\ new.taken = ss.taken /\ new.stream = ss.stream /\ new.copyErr = ss.copyErr
        /\ new.done = ss.done /\ new.to = ss.to /\ new.from = ss.from /\ new.writer = ss.writer
    BY <1>1, <1>2 DEF Session
  <2> HIDE DEF new
  <2>3. Follows(new)
    BY <2>1, <2>2 DEF Follows, LastRead
  <2>4. SessionInv(new)
    BY <1>2, <2>2, <2>3
  <2>5. QED BY <1>1, <2>1, <2>2, <2>4
<1>4. CASE EndStream(s)
  <2> DEFINE new == [ss EXCEPT !.stream = "result", !.done = TRUE]
  <2>1. Set(s, new) /\ UNCHANGED tty /\ Others /\ ss.copyErr # "none" /\ ss.stream = "copying"
    BY <1>4 DEF EndStream
  <2>2. SessionInv(new) /\ new.reader = ss.reader
    BY <1>1, <2>1 DEF Session, Follows, LastRead
  <2>3. QED BY <1>1, <2>1, <2>2
<1>5. CASE CopyFromEnds(s)
  <2>1. PICK result \in {"nil", "goingAway", "other"} :
          /\ Set(s, [Ended(ss, result) EXCEPT !.from = "gone", !.wire = <<>>, !.shell = <<>>])
          /\ UNCHANGED tty /\ Others /\ ss.from = "read"
    BY <1>5 DEF CopyFromEnds
  <2> DEFINE new == [Ended(ss, result) EXCEPT !.from = "gone", !.wire = <<>>, !.shell = <<>>]
  <2>2. SessionInv(new) /\ new.reader = ss.reader
    BY <1>0, <2>1
  <2>3. QED BY <1>1, <2>1, <2>2
<1>6. CASE CopyToWrites(s)
  <2> DEFINE sent == [ss EXCEPT !.to = "read", !.taken = <<>>, !.wire = <<ss.taken>>]
             new == [Ended(ss, "other") EXCEPT !.to = "gone", !.taken = <<>>]
  <2>1. (ss.wire = <<>> /\ Set(s, sent)) \/ Set(s, new)
    BY <1>6 DEF CopyToWrites
  <2>2. UNCHANGED tty /\ Others /\ ss.to = "write"
    BY <1>6 DEF CopyToWrites
  <2>3. SessionInv(new) /\ new.reader = ss.reader
    BY <1>0
  <2>4. SessionInv(sent) /\ sent.reader = ss.reader
    <3>1. <<ss.taken>> \in Seq(Seq(Items)) /\ Len(<<ss.taken>>) = 1 /\ <<ss.taken>>[1] = ss.taken
          /\ <<ss.taken>> # <<>>
      BY <1>1 DEF Session
    <3>2. sent \in Session
      BY <1>1, <1>2, <3>1 DEF Session
    <3>3. /\ sent.buf = ss.buf /\ sent.n = ss.n /\ sent.len = ss.len /\ sent.wire = <<ss.taken>>
          /\ sent.taken = <<>> /\ sent.stream = ss.stream /\ sent.copyErr = ss.copyErr
          /\ sent.done = ss.done /\ sent.to = "read" /\ sent.from = ss.from
          /\ sent.reader = ss.reader /\ sent.writer = ss.writer
      BY <1>1 DEF Session
    <3> HIDE DEF sent
    <3>4. Follows(sent)
      BY <2>2, <3>1, <3>3 DEF Follows, LastRead
    <3>5. TermBuf \in Nat /\ Len(ss.taken) <= TermBuf
      BY ConstantsAssumption
    <3>6. QED BY <1>2, <2>2, <3>1, <3>2, <3>3, <3>4, <3>5
  <2>5. QED BY <1>1, <2>1, <2>2, <2>3, <2>4
<1>7. CASE ShellReads(s)
  <2> DEFINE message == ss.wire[1]
             new == [ss EXCEPT !.wire = <<>>, !.shell = ss.shell \o Received(message)]
  <2>1. Set(s, new) /\ UNCHANGED tty /\ Others /\ ss.wire # <<>>
    BY <1>7 DEF ShellReads
  <2>2. message \in Seq(Items) /\ Received(message) = message
    <3>1. ss.wire \in Seq(Seq(Items)) /\ Len(ss.wire) # 0
      BY <1>1, <2>1, EmptySeq DEF Session
    <3>2. message \in Seq(Items)
      BY <3>1
    <3>3. QED BY <2>1, <3>2, ReceivedWhole
  <2>3. ss.shell \in Seq(Items) /\ ss.shell \o message \in Seq(Items)
    BY <1>1, <2>2, ConcatProperties DEF Session
  <2> HIDE DEF message
  <2>4. new = [ss EXCEPT !.wire = <<>>, !.shell = ss.shell \o message] /\ new \in Session
    BY <1>1, <1>2, <2>2, <2>3 DEF Session
  <2>5. /\ new.buf = ss.buf /\ new.n = ss.n /\ new.len = ss.len /\ new.wire = <<>>
        /\ new.shell = ss.shell \o message
        /\ new.taken = ss.taken /\ new.stream = ss.stream /\ new.copyErr = ss.copyErr
        /\ new.done = ss.done /\ new.to = ss.to /\ new.from = ss.from
        /\ new.reader = ss.reader /\ new.writer = ss.writer
    BY <1>1, <2>4 DEF Session
  <2> HIDE DEF new
  <2>6. ss.n \in Nat /\ ss.n <= Len(ss.buf) /\ ss.buf \in Seq(Items)
    BY <1>1 DEF Session, ConstantsAssumption
  <2>7. Len(LastRead(ss)) = ss.n
    BY <2>6, PrefixOf DEF LastRead
  <2>8. ASSUME message = LastRead(ss), ss.n # 0
        PROVE  SubSeq(new.shell, Len(new.shell) - ss.n + 1, Len(new.shell)) = LastRead(ss)
    <3>1. message # <<>>
      BY <1>2, <2>7, <2>8
    <3>2. QED BY <2>2, <2>3, <2>5, <2>7, <2>8, <3>1, EndsWith
  <2>9. Follows(new)
    BY <2>1, <2>5, <2>8 DEF Follows, LastRead, message
  <2>10. SessionInv(new) /\ new.reader = ss.reader
    BY <1>2, <2>4, <2>5, <2>9
  <2>11. QED BY <1>1, <2>1, <2>10
<1>8. QED BY <1>3, <1>4, <1>5, <1>6, <1>7

\* How what is typed moves.
LEMMA InputKeeps ==
    ASSUME NEW s \in Sessions, SessionInv(session[s]), session \in [Sessions -> Session],
           tty \in Seq(Items),
           \/ ReadTerminal(s) \/ PassChunk(s) \/ StopWriter(s) \/ CopyToReads(s) \/ EndOfInput(s)
    PROVE  /\ \E new : /\ SessionInv(new) /\ Set(s, new)
                       /\ session[s].reader = "none" => new.reader = "none"
           /\ ~Fresh(s) /\ tty' \in Seq(Items) /\ Others
<1> DEFINE ss == session[s]
<1> USE DEF SessionInv
<1>1. ss \in Session /\ (Fresh(s) => ss.reader = "none" /\ ss.to = "none")
  BY DEF Fresh, NoSession
<1>2. ss.buf \in Seq(Items) /\ Len(ss.buf) \in Nat /\ TermBuf \in Nat /\ ss.n \in Nat /\ ss.len \in Nat
  BY <1>1 DEF Session, ConstantsAssumption
<1>3. CASE ReadTerminal(s)
  <2> DEFINE reader == IF Chunk[1].esc THEN "gone" ELSE "send"
             buf == Overlaid(ss.buf, Chunk)
             n == Len(Chunk)
             new == [ss EXCEPT !.buf = buf, !.n = n, !.reader = reader]
  <2>1. /\ Set(s, new) /\ tty' = SubSeq(tty, Len(Chunk) + 1, Len(tty)) /\ Others
        /\ ss.reader = "read" /\ tty # <<>>
    BY <1>3 DEF ReadTerminal
  <2>2. n \in 1..TermBuf /\ tty' \in Seq(Items) /\ Chunk \in Seq(Items)
    BY <2>1, ChunkFits
  <2>3. buf \in Seq(Items) /\ Len(buf) = IF n < Len(ss.buf) THEN Len(ss.buf) ELSE n
    BY <1>2, <2>2, OverlaidFits
  <2>4. reader \in {"gone", "send"}
    OBVIOUS
  <2> HIDE DEF reader, buf, n
  <2>5. n \in 0..TermBuf
    BY <1>2, <2>2
  <2>6. /\ new \in Session /\ new.reader = reader /\ new.buf = buf /\ new.n = n /\ new.len = ss.len
        /\ new.wire = ss.wire /\ new.taken = ss.taken /\ new.stream = ss.stream
        /\ new.copyErr = ss.copyErr /\ new.done = ss.done /\ new.to = ss.to /\ new.from = ss.from
    BY <1>1, <2>3, <2>4, <2>5 DEF Session
  <2> HIDE DEF new
  <2>7. Follows(new)
    BY <2>4, <2>6 DEF Follows
  <2>8. Len(buf) <= TermBuf /\ n <= Len(buf) /\ ss.len <= Len(buf)
    BY <1>2, <2>2, <2>3
  <2>9. SessionInv(new)
    BY <2>4, <2>6, <2>7, <2>8
  <2>10. QED BY <1>1, <2>1, <2>2, <2>9 DEF new, reader, buf, n
<1>4. CASE PassChunk(s)
  <2> DEFINE new == [ss EXCEPT !.reader = "read", !.writer = "write", !.len = ss.n]
  <2>1. Set(s, new) /\ tty' = tty /\ Others /\ ss.reader = "send"
    BY <1>4 DEF PassChunk
  <2>2. /\ new \in Session /\ new.reader = "read" /\ new.writer = "write" /\ new.len = ss.n
        /\ new.buf = ss.buf /\ new.n = ss.n
        /\ new.wire = ss.wire /\ new.taken = ss.taken /\ new.stream = ss.stream
        /\ new.copyErr = ss.copyErr /\ new.done = ss.done /\ new.to = ss.to /\ new.from = ss.from
    BY <1>1 DEF Session
  <2> HIDE DEF new
  <2>3. Follows(new)
    BY <2>2 DEF Follows
  <2>4. SessionInv(new)
    BY <2>2, <2>3
  <2>5. QED BY <1>1, <2>1, <2>4
<1>5. CASE StopWriter(s)
  <2> DEFINE new == [ss EXCEPT !.writer = "gone"]
  <2>1. Set(s, new) /\ tty' = tty /\ Others /\ ss.reader = "gone"
    BY <1>5 DEF StopWriter
  <2>2. /\ new \in Session /\ new.reader = "gone" /\ new.len = ss.len /\ new.buf = ss.buf
        /\ new.n = ss.n /\ new.wire = ss.wire /\ new.taken = ss.taken /\ new.stream = ss.stream
        /\ new.copyErr = ss.copyErr /\ new.done = ss.done /\ new.to = ss.to /\ new.from = ss.from
    BY <1>1, <2>1 DEF Session
  <2> HIDE DEF new
  <2>3. SessionInv(new)
    BY <2>2 DEF Follows
  <2>4. QED BY <1>1, <2>1, <2>3
<1>6. CASE EndOfInput(s)
  <2> DEFINE new == [ss EXCEPT !.reader = "gone"]
  <2>1. Set(s, new) /\ tty' = tty /\ Others /\ ss.reader = "read"
    BY <1>6 DEF EndOfInput
  <2>2. /\ new \in Session /\ new.reader = "gone" /\ new.len = ss.len /\ new.buf = ss.buf
        /\ new.n = ss.n /\ new.wire = ss.wire /\ new.taken = ss.taken /\ new.stream = ss.stream
        /\ new.copyErr = ss.copyErr /\ new.done = ss.done /\ new.to = ss.to /\ new.from = ss.from
    BY <1>1, <2>1 DEF Session
  <2> HIDE DEF new
  <2>3. SessionInv(new)
    BY <2>2 DEF Follows
  <2>4. QED BY <1>1, <2>1, <2>3
<1>7. CASE CopyToReads(s)
  <2> DEFINE taken == IF ss.writer = "cr" THEN <<CR>> ELSE SubSeq(ss.buf, 1, ss.len)
             new == [ss EXCEPT !.to = "write", !.writer = "receive", !.taken = taken]
  <2>1. Set(s, new) /\ tty' = tty /\ Others /\ ss.to = "read" /\ ss.writer \in {"cr", "write"}
    BY <1>7 DEF CopyToReads
  <2>2. taken \in Seq(Items) /\ Len(taken) <= TermBuf
    <3>1. CR \in Items /\ 1 <= TermBuf
      BY ConstantsAssumption DEF CR, Items
    <3>2. <<CR>> \in Seq(Items) /\ Len(<<CR>>) = 1
      BY <3>1
    <3>3. SubSeq(ss.buf, 1, ss.len) \in Seq(Items) /\ Len(SubSeq(ss.buf, 1, ss.len)) = ss.len
      BY <1>2, PrefixOf
    <3>4. QED BY <1>2, <3>1, <3>2, <3>3
  <2>3. ss.writer = "write" => taken = SubSeq(ss.buf, 1, ss.len)
    OBVIOUS
  <2> HIDE DEF taken
  <2>4. /\ new \in Session /\ new.reader = ss.reader /\ new.writer = "receive" /\ new.len = ss.len
        /\ new.buf = ss.buf /\ new.n = ss.n
        /\ new.wire = ss.wire /\ new.taken = taken /\ new.stream = ss.stream
        /\ new.copyErr = ss.copyErr /\ new.done = ss.done /\ new.to = "write" /\ new.from = ss.from
    BY <1>1, <2>2 DEF Session
  <2> HIDE DEF new
  <2>5. Follows(new)
    BY <2>1, <2>3, <2>4 DEF Follows, LastRead
  <2>6. SessionInv(new)
    BY <2>1, <2>2, <2>4, <2>5
  <2>7. QED
    <3>1. SessionInv(new) /\ Set(s, new) /\ (ss.reader = "none" => new.reader = "none")
      BY <2>1, <2>4, <2>6
    <3> HIDE DEF SessionInv
    <3>2. QED BY <1>1, <2>1, <3>1
<1>8. QED BY <1>3, <1>4, <1>5, <1>6, <1>7

\* A step of a session leaves the others alone, and needs one that has begun.
LEMMA SessionSteps ==
    ASSUME AttachInv,
           NEW s \in Sessions,
           Trip(s) \/ Input(s) \/ CopyToWrites(s) \/ CopyFromEnds(s) \/ EndOfInput(s)
    PROVE  AttachInv'
<1>1. /\ session \in [Sessions -> Session] /\ SessionInv(session[s]) /\ tty \in Seq(Items)
      /\ \A t \in Sessions : SessionInv(session[t])
  BY DEF AttachInv, TypeOK
<1>2. ~Fresh(s) /\ tty' \in Seq(Items) /\ Others
      /\ \E new : /\ SessionInv(new) /\ Set(s, new)
                  /\ session[s].reader = "none" => new.reader = "none"
  BY <1>1, CopiesKeep, InputKeeps DEF Trip, Input
<1>3. PICK new : /\ SessionInv(new) /\ session' = [session EXCEPT ![s] = new]
                 /\ session[s].reader = "none" => new.reader = "none"
  BY <1>2 DEF Set
<1>4. new \in Session /\ session' \in [Sessions -> Session]
  BY <1>1, <1>3 DEF SessionInv
<1>5. \A t \in Sessions : SessionInv(session'[t])
  BY <1>1, <1>3
<1>6. TypeOK'
  BY <1>2, <1>4, <1>5 DEF AttachInv, TypeOK, Others, SessionInv
<1>7. \A t \in Sessions : Fresh(t) => Fresh(t)'
  BY <1>1, <1>2, <1>3 DEF Fresh, NoSession
<1>8. MainInv'
  <2>1. MainInv /\ UNCHANGED <<main, attach, made>> /\ made \in 0..MaxSessions
    BY <1>2 DEF AttachInv, Others, TypeOK
  <2>2. made # 0 => made \in Sessions
    BY <2>1 DEF Sessions, ConstantsAssumption
  <2>3. main.pc = "terminal" => session'[Current].reader = "none"
    BY <1>1, <1>3, <2>1 DEF MainInv
  <2>4. QED BY <1>7, <2>1, <2>2, <2>3 DEF MainInv, Current, Fresh
<1>9. QED BY <1>5, <1>6, <1>8 DEF AttachInv, SessionInv, Follows, LastRead, Session, Items

-----------------------------------------------------------------------------
(* The command *)

\* Sessions that keep their invariant and their freshness, while the command goes on.
LEMMA FreshSession ==
    /\ NoSession \in Session /\ SessionInv(NoSession)
    /\ \A trip \in {"none", "offer", "open", "gone"} :
         LET ss == [NoSession EXCEPT !.trip = trip] IN
         /\ ss.stream = "none" /\ ss.reader = "none" /\ ss.n = 0 /\ ~ss.done /\ ss.copyErr = "none"
         /\ SessionInv(ss)
<1>1. <<>> \in Seq(Items) /\ <<>> \in Seq(Seq(Items)) /\ Len(<<>>) = 0 /\ TermBuf \in Nat /\ 0 <= TermBuf
      /\ 0 \in 0..TermBuf
  BY EmptySeq, ConstantsAssumption
<1>2. NoSession \in Session
  BY <1>1 DEF NoSession, Session
<1>3. \A trip \in {"none", "offer", "open", "gone"} :
        LET ss == [NoSession EXCEPT !.trip = trip] IN
        /\ ss \in Session /\ ss.stream = "none" /\ ss.reader = "none" /\ ss.n = 0 /\ ~ss.done
        /\ ss.copyErr = "none" /\ ss.buf = <<>> /\ ss.wire = <<>> /\ ss.taken = <<>> /\ ss.len = 0
  BY <1>2 DEF NoSession, Session
<1>4. NoSession = [NoSession EXCEPT !.trip = "none"]
  BY DEF NoSession
<1>5. QED BY <1>1, <1>2, <1>3, <1>4 DEF SessionInv, Follows

\* Run and what the user and the signals do to it.
LEMMA RunKeeps ==
    ASSUME AttachInv, Run \/ Interrupt \/ ReadStop
    PROVE  AttachInv'
<1>1. /\ session \in [Sessions -> Session] /\ made \in 0..MaxSessions
      /\ main \in [pc : {"loop", "connecting", "terminal", "session", "judge", "sleeping",
                         "returned", "crashed"}, session : 0..MaxSessions, result : Results]
      /\ attach \in [pc : {"none", "select", "dial", "offer", "retry", "report"},
                     ticked : BOOLEAN, result : Results]
      /\ signal \in [pc : {"wait", "close", "gone"}, sent : 0..MaxSignals, buffered : BOOLEAN,
                     closed : BOOLEAN]
      /\ (\A s \in Sessions : SessionInv(session[s])) /\ MainInv /\ TypeOK
  BY DEF AttachInv, TypeOK
<1>2. NoAttach \in [pc : {"none", "select", "dial", "offer", "retry", "report"},
                    ticked : BOOLEAN, result : Results] /\ NoAttach.pc = "none"
  BY DEF NoAttach, Results
<1>3. \A s \in 1..made : s \in Sessions
  BY <1>1 DEF Sessions, ConstantsAssumption
\* What is left to show of a step that touches no session.
<1>4. ASSUME UNCHANGED <<session, made, tty, typed>>,
             main' \in [pc : {"loop", "connecting", "terminal", "session", "judge", "sleeping",
                              "returned", "crashed"}, session : 0..MaxSessions, result : Results],
             attach' \in [pc : {"none", "select", "dial", "offer", "retry", "report"},
                          ticked : BOOLEAN, result : Results],
             signal' \in [pc : {"wait", "close", "gone"}, sent : 0..MaxSignals, buffered : BOOLEAN,
                          closed : BOOLEAN],
             MainInv'
      PROVE  AttachInv'
  <2>1. TypeOK'
    BY <1>1, <1>4 DEF TypeOK
  <2>2. \A s \in Sessions : SessionInv(session'[s])
    BY <1>1, <1>4
  <2>3. QED BY <1>4, <2>1, <2>2 DEF AttachInv, SessionInv, Follows, LastRead, Session, Items
<1>5. CASE Connect
  <2>1. main' = [main EXCEPT !.pc = "connecting"] /\ attach' = [NoAttach EXCEPT !.pc = "select"]
        /\ UNCHANGED <<signal, made, session, tty, typed>>
    BY <1>5 DEF Connect
  <2>2. MainInv'
    BY <1>1, <1>2, <2>1 DEF MainInv, Current, Fresh
  <2>3. QED BY <1>1, <1>2, <1>4, <2>1, <2>2
<1>6. CASE Judge \/ Wake \/ WriteStop \/ ReadStop \/ Interrupt
  <2>1. /\ UNCHANGED <<session, made, tty, typed, attach>>
        /\ signal' = signal \/ signal' = [signal EXCEPT !.sent = signal.sent + 1, !.buffered = ~signal.closed]
        /\ \/ main' = main
           \/ main' = [main EXCEPT !.pc = "crashed"]
           \/ attach.pc \in {"none"} /\ main' = [main EXCEPT !.pc = "judge", !.result = "interrupt"]
           \/ attach.pc \in {"none"} /\ main' = [main EXCEPT !.pc = "loop"]
           \/ attach.pc \in {"none"} /\ main' = [main EXCEPT !.result = "nil", !.pc = "returned"]
           \/ attach.pc \in {"none"} /\ main' = [main EXCEPT !.result = "nil", !.pc = "sleeping"]
        /\ Interrupt => signal.sent < MaxSignals
        /\ ~Interrupt => signal' = signal
    BY <1>1, <1>6 DEF Judge, Wake, WriteStop, ReadStop, Interrupted, Interrupt, MainInv
  <2>2. signal' \in [pc : {"wait", "close", "gone"}, sent : 0..MaxSignals, buffered : BOOLEAN,
                     closed : BOOLEAN]
    <3>1. CASE Interrupt
      <4>1. signal.sent + 1 \in 0..MaxSignals
        BY <1>1, <2>1, <3>1 DEF ConstantsAssumption
      <4>2. QED BY <1>1, <2>1, <4>1
    <3>2. QED BY <1>1, <2>1, <3>1
  <2>3. MainInv'
    BY <1>1, <2>1 DEF MainInv, Current, Fresh
  <2>4. QED BY <1>1, <1>4, <2>1, <2>2, <2>3 DEF Results
<1>7. CASE EnterTerminal
  <2> DEFINE new == [session[Current] EXCEPT !.reader = "read", !.writer = "cr"]
  <2>1. /\ main.pc = "terminal" /\ UNCHANGED <<signal, attach, made, tty, typed>>
        /\ \/ main' = [main EXCEPT !.pc = "session"] /\ session' = [session EXCEPT ![Current] = new]
           \/ main' = [main EXCEPT !.pc = "judge", !.result = "other"] /\ UNCHANGED session
    BY <1>7 DEF EnterTerminal
  <2>2. Current \in 1..made /\ Current \in Sessions /\ session[Current].reader = "none"
        /\ attach.pc = "none" /\ SessionInv(session[Current])
    BY <1>1, <1>3, <2>1 DEF MainInv
  <2>3. CASE UNCHANGED session
    <3>1. main' = [main EXCEPT !.pc = "judge", !.result = "other"] \/ main' = [main EXCEPT !.pc = "session"]
      BY <2>1
    <3>2. MainInv'
      BY <1>1, <2>1, <2>2, <2>3, <3>1 DEF MainInv, Current, Fresh
    <3>3. QED BY <1>1, <1>4, <2>1, <2>3, <3>1, <3>2 DEF Results
  <2>4. CASE main' = [main EXCEPT !.pc = "session"] /\ session' = [session EXCEPT ![Current] = new]
    <3>1. session[Current].n = 0 /\ session[Current] \in Session
      BY <2>2 DEF SessionInv
    <3>2. /\ new \in Session /\ new.reader = "read" /\ new.n = 0
          /\ LET ss == session[Current] IN
             /\ new.len = ss.len /\ new.buf = ss.buf /\ new.wire = ss.wire
             /\ new.taken = ss.taken /\ new.stream = ss.stream
             /\ new.copyErr = ss.copyErr /\ new.done = ss.done /\ new.to = ss.to /\ new.from = ss.from
      BY <3>1 DEF Session
    <3> HIDE DEF new
    <3>3. SessionInv(new)
      <4>1. 0 <= Len(new.buf)
        BY <3>2 DEF Session
      <4>2. QED BY <2>2, <3>2, <4>1 DEF SessionInv, Follows
    <3>4. \A s \in Sessions : SessionInv(session'[s])
      BY <1>1, <2>4, <3>3
    <3>5. session' \in [Sessions -> Session] /\ main'.pc = "session" /\ main'.session = Current
      BY <1>1, <2>4, <3>2 DEF Current
    <3>6. TypeOK'
      <4>1. main' \in [pc : {"loop", "connecting", "terminal", "session", "judge", "sleeping",
                             "returned", "crashed"}, session : 0..MaxSessions, result : Results]
        BY <1>1, <2>4
      <4>2. QED BY <1>1, <2>1, <3>4, <3>5, <4>1 DEF TypeOK, SessionInv
    <3>7. MainInv'
      <4>1. \A s \in Sessions : s > made => session'[s] = session[s]
        BY <1>1, <2>2, <2>4 DEF Sessions
      <4>2. QED BY <1>1, <2>1, <2>2, <3>5, <4>1 DEF MainInv, Fresh, Current
    <3>8. QED BY <3>4, <3>6, <3>7 DEF AttachInv, SessionInv, Follows, LastRead, Session, Items
  <2>5. QED BY <2>1, <2>3, <2>4
<1>8. CASE Connected
  <2>1. main.pc = "connecting" /\ attach.pc = "report" /\ attach' = NoAttach
        /\ UNCHANGED <<signal, made, tty, typed>>
    BY <1>8 DEF Connected
  <2>2. CASE attach.result = "nil"
    <3> DEFINE new == [session[made] EXCEPT !.stream = "copying", !.to = "read", !.from = "read"]
    <3>1. main' = [main EXCEPT !.pc = "terminal", !.session = made]
          /\ session' = [session EXCEPT ![made] = new]
      BY <1>8, <2>2 DEF Connected
    <3>2. Fresh(made) /\ made \in Sessions /\ made \in 1..made
      BY <1>1, <1>3, <2>1, <2>2 DEF MainInv
    <3>3. session[made] \in Session /\ SessionInv(session[made]) /\ session[made].reader = "none"
          /\ session[made].done = FALSE /\ session[made].copyErr = "none" /\ session[made].n = 0
      <4>1. session[made] \in Session /\ SessionInv(session[made])
        BY <1>1, <3>2
      <4> DEFINE trip == session[made].trip
      <4>2. trip \in {"none", "offer", "open", "gone"}
        BY <4>1 DEF Session
      <4>3. session[made] = [NoSession EXCEPT !.trip = trip]
        BY <3>2 DEF Fresh
      <4> HIDE DEF trip
      <4>4. QED BY <4>1, <4>2, <4>3, FreshSession
    <3>4. /\ new \in Session /\ new.reader = "none" /\ new.n = 0 /\ new.stream = "copying"
          /\ new.copyErr = "none" /\ new.done = FALSE
          /\ LET ss == session[made] IN
             new.len = ss.len /\ new.buf = ss.buf /\ new.wire = ss.wire /\ new.taken = ss.taken
      BY <3>3 DEF Session
    <3> HIDE DEF new
    <3>5. SessionInv(new)
      <4>1. 0 <= Len(new.buf)
        BY <3>4 DEF Session
      <4>2. QED BY <3>3, <3>4, <4>1 DEF SessionInv, Follows
    <3>6. (\A s \in Sessions : SessionInv(session'[s])) /\ session' \in [Sessions -> Session]
          /\ session'[made].reader = "none"
      BY <1>1, <3>1, <3>2, <3>4, <3>5
    <3>7. main'.pc = "terminal" /\ main'.session = made
          /\ main' \in [pc : {"loop", "connecting", "terminal", "session", "judge", "sleeping",
                              "returned", "crashed"}, session : 0..MaxSessions, result : Results]
      BY <1>1, <3>1
    <3>8. TypeOK'
      BY <1>1, <1>2, <2>1, <3>6, <3>7 DEF TypeOK, SessionInv
    <3>9. MainInv'
      <4>1. \A s \in Sessions : s > made => session'[s] = session[s]
        BY <1>1, <3>1, <3>2 DEF Sessions
      <4>2. QED BY <1>1, <1>2, <2>1, <3>2, <3>6, <3>7, <4>1 DEF MainInv, Fresh, Current
    <3>10. QED BY <3>6, <3>8, <3>9 DEF AttachInv, SessionInv, Follows, LastRead, Session, Items
  <2>3. CASE attach.result # "nil"
    <3>1. main' = [main EXCEPT !.pc = "judge", !.result = attach.result] /\ UNCHANGED session
      BY <1>8, <2>3 DEF Connected
    <3>2. MainInv'
      BY <1>1, <1>2, <2>1, <3>1 DEF MainInv, Fresh, Current
    <3>3. QED BY <1>1, <1>2, <1>4, <2>1, <3>1, <3>2
  <2>4. QED BY <2>2, <2>3
<1>9. CASE StreamResult
  <2> DEFINE ss == session[Current]
             new == [ss EXCEPT !.stream = "gone", !.copyErr = "none"]
  <2>1. /\ main.pc = "session" /\ ss.stream = "result" /\ UNCHANGED <<signal, attach, made, tty, typed>>
        /\ session' = [session EXCEPT ![Current] = new]
        /\ \E pc \in {"loop", "judge"} : main' = [main EXCEPT !.pc = pc, !.result = ss.copyErr]
    BY <1>9 DEF StreamResult
  <2>2. Current \in Sessions /\ attach.pc = "none" /\ Current \in 1..made /\ SessionInv(ss)
    BY <1>1, <1>3, <2>1 DEF MainInv
  <2>3. ss.copyErr \in Results /\ ss \in Session
    BY <2>1, <2>2 DEF SessionInv, Session, Results
  <2>4. /\ new \in Session /\ new.reader = ss.reader /\ new.n = ss.n /\ new.stream = "gone"
        /\ new.copyErr = "none" /\ new.done = ss.done /\ new.to = ss.to /\ new.from = ss.from
        /\ new.len = ss.len /\ new.buf = ss.buf /\ new.wire = ss.wire /\ new.taken = ss.taken
        /\ new.writer = ss.writer /\ new.shell = ss.shell
    BY <2>3 DEF Session
  <2> HIDE DEF new
  <2>5. SessionInv(new)
    BY <2>2, <2>4 DEF SessionInv, Follows, LastRead
  <2>6. (\A s \in Sessions : SessionInv(session'[s])) /\ session' \in [Sessions -> Session]
    BY <1>1, <2>1, <2>2, <2>4, <2>5
  <2>7. main'.pc \in {"loop", "judge"}
        /\ main' \in [pc : {"loop", "connecting", "terminal", "session", "judge", "sleeping",
                            "returned", "crashed"}, session : 0..MaxSessions, result : Results]
    BY <1>1, <2>1, <2>3
  <2>8. TypeOK'
    BY <1>1, <2>1, <2>6, <2>7 DEF TypeOK, SessionInv
  <2>9. MainInv'
    <3>1. \A s \in Sessions : s > made => session'[s] = session[s]
      BY <1>1, <2>1, <2>2 DEF Sessions
    <3>2. QED BY <1>1, <2>1, <2>2, <2>7, <3>1 DEF MainInv, Fresh, Current
  <2>10. QED BY <2>6, <2>8, <2>9 DEF AttachInv, SessionInv, Follows, LastRead, Session, Items
<1>10. QED BY <1>5, <1>6, <1>7, <1>8, <1>9 DEF Run

\* The interrupt channel, the attempts and the keyboard.
LEMMA AttemptsKeep ==
    ASSUME AttachInv, Signals \/ Attach \/ Dial \/ Tick \/ (\E esc \in BOOLEAN : Type(esc))
    PROVE  AttachInv'
<1>1. /\ session \in [Sessions -> Session] /\ made \in 0..MaxSessions /\ MaxSessions \in Nat
      /\ attach \in [pc : {"none", "select", "dial", "offer", "retry", "report"},
                     ticked : BOOLEAN, result : Results]
      /\ signal \in [pc : {"wait", "close", "gone"}, sent : 0..MaxSignals, buffered : BOOLEAN,
                     closed : BOOLEAN]
      /\ (\A s \in Sessions : SessionInv(session[s])) /\ MainInv /\ TypeOK
  BY ConstantsAssumption DEF AttachInv, TypeOK
<1> DEFINE Attaches == [pc : {"none", "select", "dial", "offer", "retry", "report"},
                        ticked : BOOLEAN, result : Results]
           Signs == [pc : {"wait", "close", "gone"}, sent : 0..MaxSignals, buffered : BOOLEAN,
                     closed : BOOLEAN]
\* A step that touches no session but, at most, a round trip.
<1>2. ASSUME UNCHANGED <<main, tty, typed>>, attach' \in Attaches, signal' \in Signs,
             made' \in 0..MaxSessions, session' \in [Sessions -> Session],
             \A s \in Sessions : SessionInv(session'[s]), MainInv'
      PROVE  AttachInv'
  <2>1. TypeOK'
    BY <1>1, <1>2 DEF TypeOK, SessionInv
  <2>2. QED BY <1>2, <2>1 DEF AttachInv, SessionInv, Follows, LastRead, Session, Items
<1>3. CASE Signals
  <2>1. UNCHANGED <<main, attach, made, session, tty, typed>>
        /\ \/ signal' = [signal EXCEPT !.pc = "close", !.buffered = FALSE]
           \/ signal' = [signal EXCEPT !.pc = "gone", !.closed = TRUE]
    BY <1>3 DEF Signals, CollectSignal, CloseSignal
  <2>2. signal' \in Signs
    BY <1>1, <2>1
  <2>3. MainInv'
    BY <1>1, <2>1 DEF MainInv, Fresh, Current
  <2>4. QED BY <1>1, <1>2, <2>1, <2>2, <2>3
<1>4. CASE Attempt \/ Retry \/ Tick \/ (Dial /\ made' = made)
  <2>1. UNCHANGED <<main, signal, made, session, tty, typed>> /\ attach.pc # "none"
    BY <1>1, <1>4 DEF Attempt, Retry, Tick, Dial
  <2>2. attach' \in Attaches
        /\ ~(attach'.pc = "offer" \/ (attach'.pc = "report" /\ attach'.result = "nil"))
    <3>0. ASSUME NEW pc \in {"select", "dial", "retry", "report"}, NEW result \in Results,
                 Attaching(pc, result)
          PROVE  attach' \in Attaches /\ attach'.pc = pc /\ attach'.result = result
      <4> DEFINE ticked == attach.ticked /\ pc # "report"
      <4>1. ticked \in BOOLEAN
        OBVIOUS
      <4>2. attach' = [pc |-> pc, result |-> result, ticked |-> ticked]
        BY <3>0 DEF Attaching
      <4> HIDE DEF ticked
      <4>3. QED BY <4>1, <4>2
    <3>1. CASE Tick
      BY <1>1, <3>1 DEF Tick
    <3>2. CASE Attempt \/ Retry
      <4>1. Attaching("dial", "nil") \/ Attaching("report", "other") \/ Attaching("select", "nil")
        BY <3>2 DEF Attempt, Retry
      <4>2. QED BY <3>0, <4>1 DEF Results
    <3>3. CASE Dial /\ made' = made
      <4>1. made + 1 # made
        BY <1>1
      <4>2. PICK status \in {"badRequest", "notFound", "other"} : Refused(status)
        BY <3>3, <4>1 DEF Dial
      <4>3. Attaching("retry", "nil") \/ Attaching("report", "notFound") \/ Attaching("report", "other")
        BY <4>2 DEF Refused
      <4>4. QED BY <3>0, <4>3 DEF Results
    <3>4. QED BY <1>4, <3>1, <3>2, <3>3
  <2>3. MainInv'
    BY <1>1, <2>1, <2>2 DEF MainInv, Fresh, Current
  <2>4. QED BY <1>1, <1>2, <2>1, <2>2, <2>3
<1>5. CASE Dial /\ made' # made
  <2> DEFINE s == made + 1
             new == [session[s] EXCEPT !.trip = "offer"]
  <2>1. /\ UNCHANGED <<main, signal, tty, typed>> /\ attach.pc = "dial"
        /\ made < MaxSessions /\ made' = s /\ session' = [session EXCEPT ![s] = new]
        /\ attach'.pc = "offer" /\ attach' \in Attaches
    BY <1>1, <1>5 DEF Dial, Attaching, Results
  <2>2. s \in Sessions /\ s > made /\ s # 0 /\ s \in 0..MaxSessions
    BY <1>1, <2>1 DEF Sessions
  <2>3. Fresh(s)
    BY <1>1, <2>2 DEF MainInv
  <2>4. new = [NoSession EXCEPT !.trip = "offer"] /\ new \in Session /\ SessionInv(new)
    <3>1. new = [NoSession EXCEPT !.trip = "offer"]
      BY <2>3 DEF Fresh, NoSession
    <3> HIDE DEF new
    <3>2. SessionInv(new)
      BY <3>1, FreshSession
    <3>3. QED BY <3>1, <3>2 DEF SessionInv
  <2> HIDE DEF new
  <2>5. (\A t \in Sessions : SessionInv(session'[t])) /\ session' \in [Sessions -> Session]
        /\ Fresh(made)'
    <3>1. session'[s] = new /\ new = [NoSession EXCEPT !.trip = new.trip]
      BY <1>1, <2>1, <2>2, <2>4 DEF NoSession
    <3>2. Fresh(made)'
      BY <2>1, <3>1 DEF Fresh
    <3>3. QED BY <1>1, <2>1, <2>2, <2>4, <3>2
  <2>6. MainInv'
    <3>1. \A t \in Sessions : t > made' => t > made /\ session'[t] = session[t]
      BY <1>1, <2>1, <2>2 DEF Sessions
    <3>2. \A i : i \in 1..made => i \in 1..made' /\ (i \in Sessions => session'[i] = session[i])
      BY <1>1, <2>1, <2>2 DEF Sessions
    <3>3. main.pc = "terminal" => FALSE
      BY <1>1, <2>1 DEF MainInv
    <3>4. QED BY <1>1, <2>1, <2>2, <2>5, <3>1, <3>2, <3>3 DEF MainInv, Fresh, Current
  <2>7. QED BY <1>1, <1>2, <2>1, <2>2, <2>5, <2>6
<1>6. CASE HandOver
  <2> DEFINE new == [session[made] EXCEPT !.trip = "open"]
  <2>1. /\ UNCHANGED <<main, signal, made, tty, typed>> /\ attach.pc = "offer"
        /\ session' = [session EXCEPT ![made] = new]
        /\ attach'.pc = "report" /\ attach' \in Attaches
    BY <1>1, <1>6 DEF HandOver, Attaching, Results
  <2>2. made \in Sessions /\ made # 0 /\ Fresh(made)
    BY <1>1, <2>1 DEF MainInv, Sessions
  <2>3. new = [NoSession EXCEPT !.trip = "open"] /\ new \in Session /\ SessionInv(new)
    <3>1. new = [NoSession EXCEPT !.trip = "open"]
      BY <2>2 DEF Fresh, NoSession
    <3> HIDE DEF new
    <3>2. SessionInv(new)
      BY <3>1, FreshSession
    <3>3. QED BY <3>1, <3>2 DEF SessionInv
  <2> HIDE DEF new
  <2>4. (\A t \in Sessions : SessionInv(session'[t])) /\ session' \in [Sessions -> Session]
        /\ Fresh(made)'
    <3>1. session'[made] = new /\ new = [NoSession EXCEPT !.trip = new.trip]
      BY <1>1, <2>1, <2>2, <2>3 DEF NoSession
    <3>2. Fresh(made)'
      BY <2>1, <3>1 DEF Fresh
    <3>3. QED BY <1>1, <2>1, <2>2, <2>3, <3>2
  <2>5. MainInv'
    <3>1. \A t \in Sessions : t > made => session'[t] = session[t]
      BY <1>1, <2>1, <2>2 DEF Sessions
    <3>2. main.pc \notin {"terminal", "session"}
      BY <1>1, <2>1 DEF MainInv
    <3>3. QED BY <1>1, <2>1, <2>2, <2>4, <3>1, <3>2 DEF MainInv, Fresh, Current
  <2>6. QED BY <1>1, <1>2, <2>1, <2>4, <2>5
<1>7. ASSUME NEW esc \in BOOLEAN, Type(esc) PROVE AttachInv'
  <2>1. /\ UNCHANGED <<main, signal, attach, made, session>> /\ typed < MaxTyped /\ typed' = typed + 1
        /\ tty' = Append(tty, [n |-> typed + 1, esc |-> esc])
    BY <1>7 DEF Type
  <2>2. typed + 1 \in 0..MaxTyped /\ tty \in Seq(Items)
    BY <1>1, <2>1, ConstantsAssumption DEF TypeOK
  <2>3. tty' \in Seq(Items)
    <3>1. [n |-> typed + 1, esc |-> esc] \in Items
      BY <2>2 DEF Items
    <3>2. QED BY <2>1, <2>2, <3>1, AppendProperties
  <2>4. TypeOK' /\ MainInv'
    BY <1>1, <2>1, <2>2, <2>3 DEF TypeOK, MainInv, Fresh, Current
  <2>5. \A s \in Sessions : SessionInv(session'[s])
    BY <1>1, <2>1
  <2>6. QED BY <2>4, <2>5 DEF AttachInv, SessionInv, Follows, LastRead, Session, Items
<1>8. QED BY <1>3, <1>4, <1>5, <1>6, <1>7 DEF Attach

-----------------------------------------------------------------------------
(* The theorems *)

LEMMA AttachInvInductive == Spec => []AttachInv
<1>1. Init => AttachInv
  <2> SUFFICES ASSUME Init PROVE AttachInv
    OBVIOUS
  <2>1. <<>> \in Seq(Items) /\ 0 \in 0..MaxSessions /\ 0 \in 0..MaxSignals /\ 0 \in 0..MaxTyped
    BY EmptySeq, ConstantsAssumption
  <2>2. \A s \in Sessions : SessionInv(session[s]) /\ Fresh(s)
    BY FreshSession DEF Init, Fresh, NoSession
  <2>3. TypeOK
    <3>1. session \in [Sessions -> Session]
      BY FreshSession DEF Init
    <3>2. main \in [pc : {"loop", "connecting", "terminal", "session", "judge", "sleeping",
                          "returned", "crashed"}, session : 0..MaxSessions, result : Results]
      BY <2>1 DEF Init, Results
    <3>3. signal \in [pc : {"wait", "close", "gone"}, sent : 0..MaxSignals, buffered : BOOLEAN,
                      closed : BOOLEAN]
      BY <2>1 DEF Init
    <3>4. attach \in [pc : {"none", "select", "dial", "offer", "retry", "report"},
                      ticked : BOOLEAN, result : Results]
      BY DEF Init, NoAttach, Results
    <3>5. \A s \in Sessions : Len(session[s].buf) <= TermBuf /\ Len(session[s].wire) <= 1
      BY <2>2 DEF SessionInv
    <3>6. QED BY <2>1, <3>1, <3>2, <3>3, <3>4, <3>5 DEF TypeOK, Init
  <2>4. MainInv
    BY <2>2 DEF Init, MainInv, NoAttach
  <2>5. QED BY <2>2, <2>3, <2>4 DEF AttachInv
<1>2. AttachInv /\ [Next]_vars => AttachInv'
  <2> SUFFICES ASSUME AttachInv, [Next]_vars PROVE AttachInv'
    OBVIOUS
  <2>1. CASE Next
    BY <2>1, SessionSteps, RunKeeps, AttemptsKeep DEF Next, User
  <2>2. CASE UNCHANGED vars
    <3>1. TypeOK' /\ MainInv'
      BY <2>2 DEF vars, AttachInv, TypeOK, MainInv, Fresh, Current
    <3>2. \A s \in Sessions : SessionInv(session'[s])
      BY <2>2 DEF vars, AttachInv
    <3>3. QED BY <3>1, <3>2 DEF AttachInv, SessionInv, Follows, LastRead, Session, Items
  <2>3. QED BY <2>1, <2>2
<1>3. QED BY <1>1, <1>2, PTL DEF Spec

\* Every variable keeps its type, and no buffer holds more than its size.
THEOREM TypeCorrect == Spec => []TypeOK
<1>1. AttachInv => TypeOK
  BY DEF AttachInv
<1>2. QED BY <1>1, AttachInvInductive, PTL

\* Whatever the sizes of the buffers, as long as the terminal's is not the larger one,
\* no message is cut off on its way to the shell (wsStreamReader.Read).
THEOREM Whole == Spec => []NothingTruncated
<1>1. AttachInv => NothingTruncated
  <2> SUFFICES ASSUME AttachInv, NEW s \in Sessions, NEW i \in DOMAIN session[s].wire
               PROVE  Received(session[s].wire[i]) = session[s].wire[i]
    BY DEF NothingTruncated
  <2>1. SessionInv(session[s]) /\ session[s].wire \in Seq(Seq(Items))
    BY DEF AttachInv, SessionInv, Session
  <2>2. i = 1 /\ session[s].wire # <<>> /\ session[s].wire[i] \in Seq(Items)
    BY <2>1 DEF SessionInv
  <2>3. QED BY <2>1, <2>2, ReceivedWhole DEF SessionInv
<1>2. QED BY <1>1, AttachInvInductive, PTL

\* However many sessions there have been and however slow each goroutine is: when all
\* wait for the next key, what was read last has come to the shell unchanged.
THEOREM LastArrives == Spec => []LastInputArrives
<1>1. AttachInv => LastInputArrives
  <2> SUFFICES ASSUME AttachInv, NEW s \in Sessions, LET ss == session[s] IN
                      /\ ss.reader = "read" /\ ss.writer = "receive" /\ ss.to = "read"
                      /\ ss.wire = <<>> /\ ss.from = "read"
               PROVE  LET ss == session[s] IN
                      SubSeq(ss.shell, Len(ss.shell) - ss.n + 1, Len(ss.shell)) = SubSeq(ss.buf, 1, ss.n)
    BY DEF LastInputArrives
  <2> DEFINE ss == session[s]
  <2>1. SessionInv(ss)
    BY DEF AttachInv
  <2>2. CASE ss.n # 0
    BY <2>1, <2>2 DEF SessionInv, Follows, LastRead
  <2>3. CASE ss.n = 0
    <3>1. Len(ss.shell) \in Nat
      BY <2>1 DEF SessionInv, Session
    <3>2. SubSeq(ss.shell, Len(ss.shell) + 1, Len(ss.shell)) = <<>> /\ SubSeq(ss.buf, 1, 0) = <<>>
      BY <3>1, SubSeqEmpty
    <3>3. Len(ss.shell) - 0 + 1 = Len(ss.shell) + 1
      BY <3>1
    <3>4. QED BY <2>3, <3>2, <3>3
  <2>4. QED BY <2>2, <2>3
<1>2. QED BY <1>1, AttachInvInductive, PTL
=============================================================================
