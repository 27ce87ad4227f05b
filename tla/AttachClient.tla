---------------------------- MODULE AttachClient ----------------------------
(***************************************************************************)
(* The attach command and the client library under it, up to the shell at  *)
(* the other end: the loop that connects again and again, the handshake    *)
(* with a round tripper whose callback has to keep the connection open,    *)
(* and, for every session, the goroutines between the terminal and the     *)
(* connection:                                                             *)
(*                                                                         *)
(*   terminal -> reader -> writer -> (pipe) -> CopyTo -> wire -> shell     *)
(*                                                                         *)
(* The goroutines of a session that is over are still there when the next  *)
(* one begins.  Output is left out: it moves no state of the command.      *)
(***************************************************************************)
EXTENDS Naturals, Sequences

CONSTANTS
    MaxSessions,   \* bound: connections the server accepts
    MaxTyped,      \* bound: what the user types
    MaxSignals,    \* bound: interrupts sent to the command
    TermBuf,       \* the size of the reader's buffer
    CopyBuf        \* the size of the buffer of the copy from connection to shell

ASSUME ConstantsAssumption ==
    /\ MaxSessions \in Nat \ {0} /\ MaxTyped \in Nat /\ MaxSignals \in Nat
    /\ TermBuf \in Nat \ {0} /\ CopyBuf \in Nat /\ TermBuf <= CopyBuf

VARIABLES
    main,       \* Run, connect and attachTerm
    signal,     \* the interrupt channel and the goroutine that waits on it
    attach,     \* Attach and the helper of its attempt
    made,       \* connections so far
    session,    \* the goroutines of each of them
    tty,        \* what is typed and not read yet
    typed

vars == <<main, signal, attach, made, session, tty, typed>>

Sessions == 1..MaxSessions
Results == {"nil", "interrupt", "goingAway", "notFound", "other"}

\* An item is a key, numbered in the order of typing, or the escape character.
Items == [n : 0..MaxTyped, esc : BOOLEAN]
CR == [n |-> 0, esc |-> FALSE]

NoAttach == [pc |-> "none", ticked |-> FALSE, result |-> "nil"]
NoSession ==
    [trip |-> "none",                       \* the round tripper
     stream |-> "none", done |-> FALSE, copyErr |-> "none",
     to |-> "none", taken |-> <<>>,         \* CopyTo
     from |-> "none",                       \* CopyFrom
     reader |-> "none", buf |-> <<>>, n |-> 0,
     writer |-> "none", len |-> 0,
     wire |-> <<>>, shell |-> <<>>]

Min2(a, b) == IF a < b THEN a ELSE b
\* The goroutines end with the process.
Running == main.pc \notin {"returned", "crashed"}
Current == main.session

-----------------------------------------------------------------------------
(* The loop of the command *)

\* connect: Attach runs in a goroutine, with a timeout of a minute.
Connect ==
    /\ main.pc = "loop"
    /\ main' = [main EXCEPT !.pc = "connecting"]
    /\ attach' = [NoAttach EXCEPT !.pc = "select"]
    /\ UNCHANGED <<signal, made, session, tty, typed>>

\* Attach has answered: runningChan passes the result, and Stream starts its copies.
Connected ==
    /\ main.pc = "connecting" /\ attach.pc = "report"
    /\ attach' = NoAttach
    /\ IF attach.result = "nil"
       THEN /\ main' = [main EXCEPT !.pc = "terminal", !.session = made]
            /\ session' = [session EXCEPT ![made] =
                 [@ EXCEPT !.stream = "copying", !.to = "read", !.from = "read"]]
       ELSE /\ main' = [main EXCEPT !.pc = "judge", !.result = attach.result]
            /\ UNCHANGED session
    /\ UNCHANGED <<signal, made, tty, typed>>

\* attachTerm: the terminal is made raw and the goroutines are started, or it fails
\* and leaves the stream to itself.
EnterTerminal ==
    /\ main.pc = "terminal"
    /\ \/ /\ main' = [main EXCEPT !.pc = "session"]
          /\ session' = [session EXCEPT ![Current] = [@ EXCEPT !.reader = "read", !.writer = "cr"]]
       \/ /\ main' = [main EXCEPT !.pc = "judge", !.result = "other"]
          /\ UNCHANGED session
    /\ UNCHANGED <<signal, attach, made, tty, typed>>

\* The writer has stopped, which the reader makes it do on the escape or at the end
\* of the input, or the terminal takes no more output.
Interrupted ==
    /\ main.pc = "session"
    /\ main' = [main EXCEPT !.pc = "judge", !.result = "interrupt"]
    /\ UNCHANGED <<signal, attach, made, session, tty, typed>>

WriteStop == main.pc = "session" /\ session[Current].writer = "gone" /\ Interrupted
ReadStop  == Interrupted

\* The result of the stream; without an error the loop starts over at once.
StreamResult ==
    LET result == session[Current].copyErr IN
    /\ main.pc = "session" /\ session[Current].stream = "result"
    /\ session' = [session EXCEPT ![Current] = [@ EXCEPT !.stream = "gone", !.copyErr = "none"]]
    /\ main' = [main EXCEPT !.pc = IF result = "nil" THEN "loop" ELSE "judge", !.result = result]
    /\ UNCHANGED <<signal, attach, made, tty, typed>>

\* Run on an error: return, or look for an interrupt and try again.
Judge ==
    /\ main.pc = "judge"
    /\ main' = [main EXCEPT !.result = "nil",
                  !.pc = IF \/ main.result \in {"interrupt", "notFound", "goingAway"}
                            \/ signal.buffered \/ signal.closed
                         THEN "returned" ELSE "sleeping"]
    /\ UNCHANGED <<signal, attach, made, session, tty, typed>>

Wake ==
    /\ main.pc = "sleeping"
    /\ main' = [main EXCEPT !.pc = "loop"]
    /\ UNCHANGED <<signal, attach, made, session, tty, typed>>

-----------------------------------------------------------------------------
(* The interrupt channel *)

\* signal.Notify sends without blocking; a send on a closed channel panics.
Interrupt ==
    /\ Running /\ signal.sent < MaxSignals
    /\ signal' = [signal EXCEPT !.sent = @ + 1, !.buffered = ~signal.closed]
    /\ main' = IF signal.closed THEN [main EXCEPT !.pc = "crashed"] ELSE main
    /\ UNCHANGED <<attach, made, session, tty, typed>>

CollectSignal ==
    /\ Running /\ signal.pc = "wait" /\ signal.buffered
    /\ signal' = [signal EXCEPT !.pc = "close", !.buffered = FALSE]
    /\ UNCHANGED <<main, attach, made, session, tty, typed>>

\* Mutant: the goroutine takes the interrupt and tells nobody.
DropSignal ==
    /\ Running /\ signal.pc = "close"
    /\ signal' = [signal EXCEPT !.pc = "gone"]
    /\ UNCHANGED <<main, attach, made, session, tty, typed>>

CloseSignal ==
    /\ Running /\ signal.pc = "close"
    /\ signal' = [signal EXCEPT !.pc = "gone", !.closed = TRUE]
    /\ UNCHANGED <<main, attach, made, session, tty, typed>>

-----------------------------------------------------------------------------
(* Attach, one attempt after the other *)

Attaching(pc, result) ==
    attach' = [pc |-> pc, result |-> result, ticked |-> attach.ticked /\ pc # "report"]

\* The ticker runs as long as somebody may still look at it.
Tick ==
    /\ Running /\ attach.pc \in {"select", "dial", "retry"} /\ ~attach.ticked
    /\ attach' = [attach EXCEPT !.ticked = TRUE]
    /\ UNCHANGED <<main, signal, made, session, tty, typed>>

\* Mutant: nobody looks at the ticker.
AttemptAnyway ==
    /\ Running /\ attach.pc = "select"
    /\ Attaching("dial", "nil")
    /\ UNCHANGED <<main, signal, made, session, tty, typed>>

\* The timeout is looked at only between two attempts.
Attempt ==
    /\ Running /\ attach.pc = "select"
    /\ IF attach.ticked THEN Attaching("report", "other") ELSE Attaching("dial", "nil")
    /\ UNCHANGED <<main, signal, made, session, tty, typed>>

\* A failure goes into errChan, which the helper reads; only a bad request is tried
\* again.
Refused(status) ==
    IF status = "badRequest" THEN Attaching("retry", "nil") ELSE Attaching("report", status)

\* The round tripper dials, and waits as long as it takes.
Dial ==
    /\ Running /\ attach.pc = "dial"
    /\ \/ made < MaxSessions /\ made' = made + 1 /\ Attaching("offer", "nil")
          /\ session' = [session EXCEPT ![made + 1].trip = "offer"]
       \/ \E status \in {"badRequest", "notFound", "other"} : Refused(status)
          /\ UNCHANGED <<made, session>>
    /\ UNCHANGED <<main, signal, tty, typed>>

\* WebsocketCallback gives the connection to the helper and stays until done.
HandOver ==
    /\ Running /\ attach.pc = "offer" /\ session[made].trip = "offer"
    /\ session' = [session EXCEPT ![made].trip = "open"]
    /\ Attaching("report", "nil")
    /\ UNCHANGED <<main, signal, made, tty, typed>>

Retry ==
    /\ Running /\ attach.pc = "retry"
    /\ Attaching("select", "nil")
    /\ UNCHANGED <<main, signal, made, session, tty, typed>>

-----------------------------------------------------------------------------
(* The goroutines of session s *)

Others == UNCHANGED <<main, signal, attach, made, typed>>
Set(s, new) == session' = [session EXCEPT ![s] = new]

\* Done is closed: the callback returns, the connection is closed, with it goes the
\* shell, and the last error goes into errChan, which has room for it.
CloseConnection(s) ==
    /\ Running /\ session[s].trip = "open" /\ session[s].done
    /\ Set(s, [session[s] EXCEPT !.trip = "gone", !.wire = <<>>, !.shell = <<>>])
    /\ UNCHANGED tty /\ Others

\* Mutant: done is never closed.
EndStreamOnly(s) ==
    /\ Running /\ session[s].stream = "copying" /\ session[s].copyErr # "none"
    /\ Set(s, [session[s] EXCEPT !.stream = "result"])
    /\ UNCHANGED tty /\ Others

\* Mutant: the stream ends without waiting for a copy.
EndStreamEarly(s) ==
    /\ Running /\ session[s].stream = "copying"
    /\ Set(s, [session[s] EXCEPT !.stream = "result", !.done = TRUE])
    /\ UNCHANGED tty /\ Others

\* Stream: the first copy that ends decides, and done is closed.  The result waits
\* for attachTerm, for ever if that has ended for another reason.
EndStream(s) ==
    /\ Running /\ session[s].stream = "copying" /\ session[s].copyErr # "none"
    /\ Set(s, [session[s] EXCEPT !.stream = "result", !.done = TRUE])
    /\ UNCHANGED tty /\ Others

\* The channel of the two copies has room for one result; the one in it counts.
Ended(ss, result) == IF ss.copyErr = "none" /\ ~ss.done THEN [ss EXCEPT !.copyErr = result] ELSE ss

Broken(ss) == ss.trip # "open" \/ ss.from = "gone"

\* CopyFrom ends: the shell is gone and the server closes, or the client has.
CopyFromEnds(s) ==
    /\ Running /\ session[s].from = "read"
    /\ \E result \in {"nil", "goingAway", "other"} :
         /\ session[s].trip # "open" => result = "other"
         /\ Set(s, [Ended(session[s], result) EXCEPT !.from = "gone", !.wire = <<>>, !.shell = <<>>])
    /\ UNCHANGED tty /\ Others

\* CopyTo writes what it has read as one message; on a broken connection it ends.
CopyToWrites(s) ==
    LET ss == session[s] IN
    /\ Running /\ ss.to = "write"
    /\ \/ ~Broken(ss) /\ ss.wire = <<>>
          /\ Set(s, [ss EXCEPT !.to = "read", !.taken = <<>>, !.wire = <<ss.taken>>])
       \/ Set(s, [Ended(ss, "other") EXCEPT !.to = "gone", !.taken = <<>>])
    /\ UNCHANGED tty /\ Others

\* CopyTo reads from the pipe what the writer writes: the carriage return, or so many
\* items of the reader's buffer, as it is now.
CopyToReads(s) ==
    LET ss == session[s] IN
    /\ Running /\ ss.to = "read" /\ ss.writer \in {"cr", "write"}
    /\ Set(s, [ss EXCEPT !.to = "write", !.writer = "receive",
                 !.taken = IF ss.writer = "cr" THEN <<CR>> ELSE SubSeq(ss.buf, 1, ss.len)])
    /\ UNCHANGED tty /\ Others

\* Bytes read into a buffer leave what lies behind them.
Overlaid(buf, chunk) == chunk \o SubSeq(buf, Len(chunk) + 1, Len(buf))
Chunk == SubSeq(tty, 1, Min2(Len(tty), TermBuf))

\* Mutant: the escape is looked for at the end of what was read.
ReadTerminalToEnd(s) ==
    LET ss == session[s] IN
    /\ Running /\ ss.reader = "read" /\ tty # <<>>
    /\ Set(s, [ss EXCEPT !.buf = Overlaid(@, Chunk), !.n = Len(Chunk),
                         !.reader = IF Chunk[Len(Chunk)].esc THEN "gone" ELSE "send"])
    /\ tty' = SubSeq(tty, Len(Chunk) + 1, Len(tty))
    /\ Others

\* The reader takes what is there, up to its buffer, and ends on an escape in front.
ReadTerminal(s) ==
    LET ss == session[s] IN
    /\ Running /\ ss.reader = "read" /\ tty # <<>>
    /\ Set(s, [ss EXCEPT !.buf = Overlaid(@, Chunk), !.n = Len(Chunk),
                         !.reader = IF Chunk[1].esc THEN "gone" ELSE "send"])
    /\ tty' = SubSeq(tty, Len(Chunk) + 1, Len(tty))
    /\ Others

EndOfInput(s) ==
    /\ Running /\ session[s].reader = "read"
    /\ Set(s, [session[s] EXCEPT !.reader = "gone"])
    /\ UNCHANGED tty /\ Others

\* Mutant: the last item of what was read is left out.
PassShort(s) ==
    /\ Running /\ session[s].reader = "send" /\ session[s].writer = "receive"
    /\ Set(s, [session[s] EXCEPT !.reader = "read", !.writer = "write", !.len = session[s].n - 1])
    /\ UNCHANGED tty /\ Others

\* stdinCh passes a slice of the buffer, and the reader goes on with the same buffer.
PassChunk(s) ==
    /\ Running /\ session[s].reader = "send" /\ session[s].writer = "receive"
    /\ Set(s, [session[s] EXCEPT !.reader = "read", !.writer = "write", !.len = session[s].n])
    /\ UNCHANGED tty /\ Others

StopWriter(s) ==
    /\ Running /\ session[s].reader = "gone" /\ session[s].writer = "receive"
    /\ Set(s, [session[s] EXCEPT !.writer = "gone"])
    /\ UNCHANGED tty /\ Others

\* Mutant: the reader is given a buffer one item too small.
ReceivedShort(message) == SubSeq(message, 1, Min2(Len(message), TermBuf - 1))
\* wsStreamReader.Read: of a message, as much as the buffer takes.
Received(message) == SubSeq(message, 1, Min2(Len(message), CopyBuf))

ShellReads(s) ==
    LET ss == session[s] IN
    /\ Running /\ ss.wire # <<>>
    /\ Set(s, [ss EXCEPT !.wire = <<>>, !.shell = @ \o Received(ss.wire[1])])
    /\ UNCHANGED tty /\ Others

Type(esc) ==
    /\ Running /\ typed < MaxTyped
    /\ typed' = typed + 1
    /\ tty' = Append(tty, [n |-> typed + 1, esc |-> esc])
    /\ UNCHANGED <<main, signal, attach, made, session>>

-----------------------------------------------------------------------------
Init ==
    /\ main = [pc |-> "loop", session |-> 0, result |-> "nil"]
    /\ signal = [pc |-> "wait", sent |-> 0, buffered |-> FALSE, closed |-> FALSE]
    /\ attach = NoAttach /\ made = 0
    /\ session = [s \in Sessions |-> NoSession]
    /\ tty = <<>> /\ typed = 0

Run == Connect \/ Connected \/ EnterTerminal \/ WriteStop \/ StreamResult \/ Judge \/ Wake
Signals == CollectSignal \/ CloseSignal
Attach == Attempt \/ HandOver \/ Retry
Trip(s) == CloseConnection(s) \/ EndStream(s)
Input(s) == ReadTerminal(s) \/ PassChunk(s) \/ StopWriter(s) \/ CopyToReads(s) \/ ShellReads(s)
User == Interrupt \/ ReadStop \/ (\E esc \in BOOLEAN : Type(esc))

Next ==
    \/ Run \/ Signals \/ Attach \/ Dial \/ Tick \/ User
    \/ \E s \in Sessions :
         Trip(s) \/ Input(s) \/ CopyToWrites(s) \/ CopyFromEnds(s) \/ EndOfInput(s)

Spec == Init /\ [][Next]_vars

\* Every goroutine goes on, and messages are delivered.  A dial may never be answered:
\* the dialer has no timeout, and that of Attach is not looked at meanwhile.
Fairness ==
    /\ WF_vars(Run) /\ WF_vars(Signals) /\ WF_vars(Attach) /\ WF_vars(Tick)
    /\ \A s \in Sessions :
         /\ WF_vars(Trip(s)) /\ WF_vars(CopyToWrites(s)) /\ WF_vars(CopyToReads(s))
         /\ WF_vars(ShellReads(s)) /\ WF_vars(ReadTerminal(s))
         /\ WF_vars(PassChunk(s) \/ StopWriter(s))

FairSpec == Spec /\ Fairness

-----------------------------------------------------------------------------
Session ==
    [trip : {"none", "offer", "open", "gone"},
     stream : {"none", "copying", "result", "gone"}, done : BOOLEAN,
     copyErr : {"none", "nil", "goingAway", "other"},
     to : {"none", "read", "write", "gone"}, taken : Seq(Items), from : {"none", "read", "gone"},
     reader : {"none", "read", "send", "gone"}, buf : Seq(Items), n : 0..TermBuf,
     writer : {"none", "cr", "receive", "write", "gone"}, len : 0..TermBuf,
     wire : Seq(Seq(Items)), shell : Seq(Items)]

\* Every variable keeps its type, and nothing is held that is larger than its buffer.
TypeOK ==
    /\ main \in [pc : {"loop", "connecting", "terminal", "session", "judge", "sleeping",
                       "returned", "crashed"}, session : 0..MaxSessions, result : Results]
    /\ signal \in [pc : {"wait", "close", "gone"}, sent : 0..MaxSignals, buffered : BOOLEAN,
                   closed : BOOLEAN]
    /\ attach \in [pc : {"none", "select", "dial", "offer", "retry", "report"},
                   ticked : BOOLEAN, result : Results]
    /\ made \in 0..MaxSessions /\ session \in [Sessions -> Session]
    /\ \A s \in Sessions : Len(session[s].buf) <= TermBuf /\ Len(session[s].wire) <= 1
    /\ tty \in Seq(Items) /\ typed \in 0..MaxTyped

\* Whatever the terminal delivers at once, the server passes a message on whole: no
\* message is larger than the buffer its reader is given (wsStreamReader.Read).
NothingTruncated ==
    \A s \in Sessions : \A i \in DOMAIN session[s].wire :
        Received(session[s].wire[i]) = session[s].wire[i]

\* The reader fills its buffer again while the writer may not have passed on what it
\* held; still, when all are waiting, what was read last has reached the shell whole.
LastInputArrives ==
    \A s \in Sessions : LET ss == session[s] IN
        /\ main.pc = "session" /\ Current = s
        /\ ss.reader = "read" /\ ss.writer = "receive" /\ ss.to = "read" /\ ss.wire = <<>>
           /\ ss.from = "read"
        => SubSeq(ss.shell, Len(ss.shell) - ss.n + 1, Len(ss.shell)) = SubSeq(ss.buf, 1, ss.n)

-----------------------------------------------------------------------------
(* Under Fairness *)

EscapeWaits == main.pc = "session" /\ tty # <<>> /\ tty[1].esc

\* In the first session of a command, an escape that comes in front ends the session,
\* however slow the connection is (attachTerm).
FirstEscapeObeyed == EscapeWaits /\ Current = 1 ~> main.pc # "session"

\* In any session ("The escape sequence is ^]").
EscapeObeyed == EscapeWaits ~> main.pc # "session"

\* No dial hangs for ever.
DialsAnswered == []<>(attach.pc # "dial")

\* An interrupt among the attempts is not lost, whoever receives it, Run or the
\* goroutine that waits on the same channel: unless a dial hangs, the command ends, or
\* gets a session.
InterruptEndsRetries ==
    DialsAnswered => (signal.sent > 0 ~> main.pc = "session" \/ ~Running)

\* Once a stream has ended, the callback is released, its connection closed and its
\* goroutine gone, although nobody reads errChan any more (asyncSubresourceHelper).
ConnectionGoes ==
    \A s \in Sessions : session[s].stream = "result" ~> session[s].trip = "gone" \/ ~Running

\* Unless a dial hangs, Attach comes to an end although the server may refuse every
\* attempt as a bad request: the ticker is seen between two attempts (Attach).
RefusedAttemptsEnd ==
    DialsAnswered => (attach.pc \notin {"none", "report"} ~> attach.pc \in {"none", "report"} \/ ~Running)
=============================================================================
