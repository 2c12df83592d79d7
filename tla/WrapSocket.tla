----------------------------- MODULE WrapSocket -----------------------------
(***************************************************************************)
(* wrapSocket (etc/wallyd.d/modules/wrap-socket.js), the queue between a   *)
(* libuv stream with a decoder and the callers of read and write.          *)
(*                                                                         *)
(* JavaScript runs one handler at a time, but a handler calls back, and    *)
(* the callback may read and write again.  stack holds what is running,    *)
(* the innermost last: a step is the code between two callbacks.  An       *)
(* application is free to read and write whenever its code runs.           *)
(***************************************************************************)
EXTENDS Naturals, SequencesExt

CONSTANTS
  Items,        \* the values the peer sends
  Units,        \* an encoded value is that many units, of which chunks are made
  MaxReads,     \* bound on the calls of read
  MaxWrites,    \* bound on the calls of write and on the ends of the output
  Eof, Err, Nothing

ASSUME StreamAssumption ==
  /\ Items \in Nat /\ Units \in Nat \ {0}
  /\ MaxReads \in Nat /\ MaxWrites \in Nat
  /\ {Eof, Err} \cap 1..Items = {} /\ Nothing \notin 1..Items \cup {Eof, Err}

VARIABLES
  reader, writer, \* the reads asked for and the values given
  queue,          \* queue[k]: value k while no read has taken it
  paused,         \* the wrapper's flag
  reading,        \* whether the stream is started
  bad,            \* the value decode throws an error for, if there is one
  arrived,        \* units received; those not decoded are readBuffer
  decoded,        \* values decode has returned
  inEnd, outEnd, closed,
  closes,         \* calls of socket.close
  writes,         \* calls of socket.write
  shutdowns,      \* calls of socket.shutdown, and those answered
  answered,
  got,            \* the callbacks of read, in the order they ran
  failed,         \* an error has been thrown or given to a read
  stack

fifo == <<reader, writer, queue>>
flow == <<paused, reading>>
stream == <<bad, arrived, decoded>>
ends == <<inEnd, outEnd, closed, closes>>
output == <<writes, shutdowns, answered>>
vars == <<fifo, flow, stream, ends, output, got, failed, stack>>

Frames == {"onRead", "unpause", "start", "callback", "ended"}
Values == 1..Items \cup {Eof, Err}

\* Type invariant.
TypeOK ==
  /\ reader \in 0..MaxReads
  /\ writer \in Nat
  /\ queue \in [0..(MaxReads + Items + 1) -> Values \cup {Nothing}]
  /\ {paused, reading, inEnd, outEnd, closed, failed} \subseteq BOOLEAN
  /\ bad \in 1..(Items + 1)
  /\ arrived \in 0..(Units * Items) /\ decoded \in 0..Items
  /\ closes \in Nat /\ writes \in 0..MaxWrites
  /\ shutdowns \in 0..MaxWrites /\ answered \in 0..shutdowns
  /\ got \in Seq([read : 0..MaxReads, value : Values])
  /\ stack \in Seq(Frames)

Init ==
  /\ reader = 0 /\ writer = 0
  /\ queue = [k \in 0..(MaxReads + Items + 1) |-> Nothing]
  /\ paused = TRUE /\ reading = FALSE
  /\ bad \in 1..(Items + 1) /\ arrived = 0 /\ decoded = 0
  /\ inEnd = FALSE /\ outEnd = FALSE /\ closed = FALSE /\ closes = 0
  /\ writes = 0 /\ shutdowns = 0 /\ answered = 0
  /\ got = <<>> /\ failed = FALSE
  /\ stack = <<>>

Running(frame) == stack # <<>> /\ Last(stack) = frame
Idle == stack = <<>>
AppRuns == Idle \/ Running("callback")
WholeItem == arrived - Units * decoded >= Units
-----------------------------------------------------------------------------
\* Faulty variant: the stream is not stopped.
Pause_KeepsReading(on) ==
  IF closed' \/ paused THEN UNCHANGED paused /\ reading' = on
                       ELSE paused' = TRUE /\ reading' = on

\* on: whether libuv goes on reading as long as the wrapper does not stop it.
Pause(on) ==
  IF closed' \/ paused THEN UNCHANGED paused /\ reading' = on
                       ELSE paused' = TRUE /\ reading' = FALSE

\* Faulty variant: the flag is cleared and nothing else.
Unpause_Only ==
  IF closed \/ ~paused
    THEN UNCHANGED <<flow, stack>>
    ELSE paused' = FALSE /\ UNCHANGED <<reading, stack>>

\* Up to the call of process.
Unpause ==
  IF closed \/ ~paused
    THEN UNCHANGED <<flow, stack>>
    ELSE paused' = FALSE /\ stack' = Append(stack, "unpause") /\ UNCHANGED reading

Answer(k, value) == got' = Append(got, [read |-> k, value |-> value])

\* Faulty variant: the newest read is answered first.
OnData_Newest(value, rest, stopped, on) ==
  /\ writer' = writer + 1
  /\ IF reader > writer
       THEN /\ Answer(reader - 1, value)
            /\ stack' = Append(rest, "callback")
            /\ reading' = on /\ UNCHANGED <<queue, paused>>
       ELSE /\ queue' = [queue EXCEPT ![writer] = value]
            /\ Pause(on)
            /\ stack' = stopped
            /\ UNCHANGED got

\* onData without an error: the oldest waiting read is called back on top of
\* rest, or the value is queued, the input pauses, and stopped is what runs.
OnData(value, rest, stopped, on) ==
  /\ writer' = writer + 1
  /\ IF reader > writer
       THEN /\ Answer(writer, value)
            /\ stack' = Append(rest, "callback")
            /\ reading' = on /\ UNCHANGED <<queue, paused>>
       ELSE /\ queue' = [queue EXCEPT ![writer] = value]
            /\ Pause(on)
            /\ stack' = stopped
            /\ UNCHANGED got

\* onData with an error, which is thrown through all that runs if no read waits.
OnDataError(rest) ==
  /\ failed' = TRUE
  /\ IF reader > writer
       THEN /\ writer' = writer + 1
            /\ Answer(writer, Err)
            /\ stack' = Append(rest, "callback")
       ELSE stack' = <<>> /\ UNCHANGED <<writer, got>>
  /\ UNCHANGED queue

\* Faulty variant: one side is enough.
CheckClose_Either(in, out) ==
  IF in \/ out
    THEN closed' = TRUE /\ closes' = closes + 1
    ELSE UNCHANGED <<closed, closes>>

CheckClose(in, out) ==
  IF in /\ out
    THEN closed' = TRUE /\ closes' = closes + 1
    ELSE UNCHANGED <<closed, closes>>
-----------------------------------------------------------------------------
Read ==
  /\ AppRuns /\ reader < MaxReads
  /\ reader' = reader + 1
  /\ IF writer > reader
       THEN /\ Answer(reader, queue[reader])
            /\ stack' = Append(stack, "callback")
            /\ UNCHANGED flow
       ELSE Unpause /\ UNCHANGED got
  /\ UNCHANGED <<writer, queue, stream, ends, output, failed>>

CallbackReturns ==
  /\ Running("callback")
  /\ stack' = Front(stack)
  /\ UNCHANGED <<fifo, flow, stream, ends, output, got, failed>>

\* What runs when process returns: unpause goes on to start the stream.
Processed == IF Running("unpause") THEN Append(Front(stack), "start") ELSE Front(stack)

InProcess == Running("onRead") \/ Running("unpause")

ProcessWantsMore ==
  /\ InProcess /\ ~WholeItem
  /\ stack' = Processed
  /\ UNCHANGED <<fifo, flow, stream, ends, output, got, failed>>

ProcessItem ==
  /\ InProcess /\ WholeItem /\ decoded + 1 # bad
  /\ decoded' = decoded + 1
  /\ UNCHANGED <<reader, bad, arrived, ends, output, failed>>
  /\ OnData(decoded + 1, stack, Processed, reading)

\* readBuffer keeps what decode threw at.
ProcessBadItem ==
  /\ InProcess /\ WholeItem /\ decoded + 1 = bad
  /\ OnDataError(Processed)
  /\ UNCHANGED <<reader, flow, stream, ends, output>>

StartReading ==
  /\ Running("start")
  /\ reading' = (reading \/ ~paused)
  /\ stack' = Front(stack)
  /\ UNCHANGED <<fifo, paused, stream, ends, output, got, failed>>
-----------------------------------------------------------------------------
\* A chunk of any length arrives.
OnChunk ==
  /\ Idle /\ reading
  /\ \E n \in 1..(Units * Items - arrived) : arrived' = arrived + n
  /\ stack' = <<"onRead">>
  /\ UNCHANGED <<fifo, flow, bad, decoded, ends, output, got, failed>>

\* libuv stops a stream that has ended or failed.
Ended ==
  /\ inEnd' = TRUE
  /\ CheckClose(TRUE, outEnd)
  /\ UNCHANGED outEnd

\* Once for every time the stream is started behind the last unit: a read that
\* follows a queued end starts it again.
OnEof ==
  /\ Idle /\ reading /\ ~closed /\ arrived = Units * Items
  /\ Ended
  /\ OnData(Eof, <<>>, <<>>, FALSE)
  /\ UNCHANGED <<reader, stream, output, failed>>

OnError ==
  /\ Idle /\ reading /\ ~closed
  /\ Ended
  /\ OnDataError(<<>>)
  /\ reading' = FALSE
  /\ UNCHANGED <<reader, paused, stream, output>>

\* write throws on a closed socket; done is never set.
Write ==
  /\ AppRuns /\ ~closed /\ writes < MaxWrites
  /\ writes' = writes + 1
  /\ UNCHANGED <<fifo, flow, stream, ends, shutdowns, answered, got, failed, stack>>

WriteEnd ==
  /\ AppRuns /\ ~closed /\ shutdowns < MaxWrites
  /\ shutdowns' = shutdowns + 1
  /\ UNCHANGED <<fifo, flow, stream, ends, writes, answered, got, failed, stack>>

\* The callback given to write runs first.
ShutdownAnswered ==
  /\ Idle /\ answered < shutdowns
  /\ answered' = answered + 1
  /\ stack' = <<"ended", "callback">>
  /\ UNCHANGED <<fifo, flow, stream, ends, writes, shutdowns, got, failed>>

OutputEnded ==
  /\ Running("ended")
  /\ outEnd' = TRUE
  /\ CheckClose(inEnd, TRUE)
  /\ stack' = Front(stack)
  /\ UNCHANGED <<fifo, flow, stream, inEnd, output, got, failed>>
-----------------------------------------------------------------------------
HandlerStep ==
  \/ CallbackReturns
  \/ ProcessWantsMore \/ ProcessItem \/ ProcessBadItem \/ StartReading
  \/ OutputEnded

PeerStep == OnChunk \/ OnEof

Next == Read \/ Write \/ WriteEnd \/ HandlerStep \/ PeerStep \/ OnError \/ ShutdownAnswered

Spec == Init /\ [][Next]_vars

\* A handler runs to its end, the peer sends what it has, and libuv answers.
Fairness ==
  WF_vars(HandlerStep) /\ WF_vars(PeerStep) /\ WF_vars(ShutdownAnswered)
-----------------------------------------------------------------------------
\* Whatever the chunks, and however far reads are ahead of the data or behind
\* it, with reads made inside callbacks: the k-th read is the k-th to be called
\* back and gets the k-th value, and the end comes behind the last value, for the
\* first read there and for those that follow.
ReadsInOrder ==
  \A i \in 1..Len(got) :
    /\ got[i].read = i - 1
    /\ got[i].value \notin {Eof, Err} => got[i].value = i
    /\ got[i].value = Eof /\ ~failed => i > Items

\* Back-pressure ("Atomic pausing and unpausing", "proper back-pressure to the
\* socket"): at most one decoded value waits for a read; the handlers nest, but
\* readBuffer is never decoded by two at a time; and when none runs the stream
\* is stopped exactly while the wrapper is paused.  An error thrown out of
\* unpause leaves the stream stopped for good, and is excluded.
BackPressure ==
  /\ writer <= reader + 1
  /\ \A i, j \in 1..Len(stack) :
       stack[i] \in {"onRead", "unpause"} /\ stack[j] \in {"onRead", "unpause"} => i = j
  /\ Idle /\ ~inEnd /\ ~failed => reading = ~paused

\* The socket is closed once, after the ends of both directions, when the
\* application ends its output once.
ClosedOnce ==
  /\ closes <= shutdowns
  /\ closes > 0 => inEnd /\ outEnd

\* A read is called back, for as many as there are values and an end, unless
\* the stream has failed.
ReadsAnswered ==
  \A k \in 0..Items : reader > k ~> Len(got) > k \/ failed
=============================================================================
