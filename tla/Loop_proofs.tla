----------------------------- MODULE Loop_proofs ----------------------------
(***************************************************************************)
(* The proofs about the event loop of JavaScript: the queue of a socket,   *)
(* the decoder of HTTP, the playlist and the callbacks of curl handles,    *)
(* each for every value of its constants, and all of them in MCLoop.       *)
(***************************************************************************)
EXTENDS MCLoop, DataLemmas

-----------------------------------------------------------------------------
\* The queue of wrap-socket.js: the stack of calls, the buffers, and the answers.

Decodes == {"onRead", "unpause"}
Flowing == {"onRead", "unpause", "start"}

\* What the running frames say of the two flags.  The input is decoded or about
\* to be started by one of them at most, and by none while it is paused.
FramesInv ==
  /\ \A i, j \in 1..Len(stack) : stack[i] \in Flowing /\ stack[j] \in Flowing => i = j
  /\ \A i \in 1..Len(stack) :
       /\ stack[i] \in Decodes => ~paused
       /\ stack[i] = "start" => i = Len(stack) \/ ~paused
       /\ stack[i] = "onRead" => reading
       /\ stack[i] \in {"unpause", "start"} => ~reading
       /\ stack[i] = "ended" => i = 1
  /\ reading => ~paused
  /\ (\A i \in 1..Len(stack) : stack[i] \notin Flowing) /\ ~inEnd /\ ~failed
       => reading = ~paused

\* Nothing that can be decoded is left behind by an input that goes on.
BufferInv ==
  /\ Units * decoded <= arrived
  /\ ~paused /\ ~failed /\ (\A i \in 1..Len(stack) : stack[i] \notin Decodes) => ~WholeItem

\* After an error nothing is decoded any more: what decode throws at stays in
\* front, and a stream that has failed is not started again.
Stuck ==
  /\ ~paused /\ ~reading /\ inEnd
  /\ \A i \in 1..Len(stack) : stack[i] \notin Flowing

CountsInv ==
  /\ failed => decoded + 1 = bad \/ Stuck
  /\ ~failed /\ ~inEnd => writer = decoded
  /\ ~failed /\ inEnd => decoded = Items /\ writer > Items
  /\ writer <= reader + 1
  /\ ~paused /\ ~closed => writer <= reader

\* What a value says of its place, if there has been an error or not.
Fits(value, place, broken) ==
  /\ value \in Values
  /\ value \notin {Eof, Err} => value = place
  /\ value = Eof /\ ~broken => place > Items

AnswersInv ==
  /\ Len(got) = IF reader <= writer THEN reader ELSE writer
  /\ \A i \in 1..Len(got) : got[i].read = i - 1 /\ Fits(got[i].value, i, failed)
  /\ writer = reader + 1 => Fits(queue[reader], reader + 1, failed)

\* Each answer to a shutdown closes at most once, and so does the end of the
\* input after it.
Handled == answered - (IF \E i \in 1..Len(stack) : stack[i] = "ended" THEN 1 ELSE 0)

ClosesInv ==
  /\ closes <= Handled
  /\ outEnd => Handled >= 1
  /\ closes > 0 => inEnd /\ outEnd
  /\ closed <=> inEnd /\ outEnd

SocketInv ==
  TypeOK /\ FramesInv /\ BufferInv /\ CountsInv /\ AnswersInv /\ ClosesInv

-----------------------------------------------------------------------------
\* StackElements of a sequence, and of one with an element pushed or popped.
LEMMA StackElements ==
  ASSUME NEW S, NEW s \in Seq(S)
  PROVE  Len(s) \in Nat /\ \A i \in 1..Len(s) : s[i] \in S
OBVIOUS

LEMMA Pushed ==
  ASSUME NEW S, NEW s \in Seq(S), NEW x \in S
  PROVE  /\ Append(s, x) \in Seq(S)
         /\ Len(Append(s, x)) = Len(s) + 1
         /\ \A i \in 1..Len(s) : Append(s, x)[i] = s[i]
         /\ Append(s, x)[Len(s) + 1] = x
OBVIOUS

LEMMA Popped ==
  ASSUME NEW S, NEW s \in Seq(S), s # <<>>
  PROVE  /\ Len(s) \in Nat \ {0} /\ Last(s) = s[Len(s)] /\ Last(s) \in S
         /\ Front(s) \in Seq(S)
         /\ Len(Front(s)) = Len(s) - 1
         /\ \A i \in 1..(Len(s) - 1) : Front(s)[i] = s[i]
<1>1. Len(s) \in Nat \ {0} /\ \A i \in 1..(Len(s) - 1) : s[i] \in S
  OBVIOUS
<1>2. /\ SubSeq(s, 1, Len(s) - 1) \in Seq(S)
      /\ Len(SubSeq(s, 1, Len(s) - 1)) = Len(s) - 1
      /\ \A i \in 1..(Len(s) - 1) : SubSeq(s, 1, Len(s) - 1)[i] = s[i]
  <2> DEFINE n == Len(s) - 1
  <2>1. n \in Int /\ n >= 0 /\ \A i \in 1..n : s[i] \in S
    BY <1>1
  <2> HIDE DEF n
  <2>2. /\ SubSeq(s, 1, n) \in Seq(S)
        /\ Len(SubSeq(s, 1, n)) = IF 1 <= n THEN n - 1 + 1 ELSE 0
        /\ \A i \in 1..(n - 1 + 1) : SubSeq(s, 1, n)[i] = s[1 + i - 1]
    BY <2>1, SubSeqProperties
  <2>3. Len(SubSeq(s, 1, n)) = n
    BY <2>1, <2>2
  <2>4. \A i \in 1..n : i \in 1..(n - 1 + 1) /\ 1 + i - 1 = i
    BY <2>1
  <2> QED
    BY <2>2, <2>3, <2>4 DEF n
<1> QED
  BY <1>1, <1>2 DEF Front, Last

\* The stack with a frame pushed, popped or replaced.
LEMMA StackFacts ==
  ASSUME TypeOK, NEW x \in Frames
  PROVE  LET n == Len(stack) IN
    /\ n \in Nat /\ \A i \in 1..n : stack[i] \in Frames
    /\ Append(stack, x) \in Seq(Frames)
    /\ Len(Append(stack, x)) = n + 1 /\ Append(stack, x)[n + 1] = x
    /\ \A i \in 1..n : Append(stack, x)[i] = stack[i]
    /\ stack # <<>> =>
         /\ n > 0 /\ Last(stack) = stack[n]
         /\ Front(stack) \in Seq(Frames) /\ Len(Front(stack)) = n - 1
         /\ \A i \in 1..(n - 1) : Front(stack)[i] = stack[i]
         /\ Append(Front(stack), x) \in Seq(Frames)
         /\ Len(Append(Front(stack), x)) = n /\ Append(Front(stack), x)[n] = x
         /\ \A i \in 1..(n - 1) : Append(Front(stack), x)[i] = stack[i]
<1>1. stack \in Seq(Frames)
  BY DEF TypeOK
<1>2. stack # <<>> => Front(stack) \in Seq(Frames)
  BY <1>1, Popped
<1>3. /\ Append(stack, x) \in Seq(Frames)
      /\ Len(Append(stack, x)) = Len(stack) + 1 /\ Append(stack, x)[Len(stack) + 1] = x
      /\ \A i \in 1..Len(stack) : Append(stack, x)[i] = stack[i]
  BY <1>1, Pushed
<1>4. stack # <<>> =>
         /\ Len(stack) > 0 /\ Last(stack) = stack[Len(stack)]
         /\ Len(Front(stack)) = Len(stack) - 1
         /\ \A i \in 1..(Len(stack) - 1) : Front(stack)[i] = stack[i]
  BY <1>1, Popped
<1>5. stack # <<>> =>
         /\ Append(Front(stack), x) \in Seq(Frames)
         /\ Len(Append(Front(stack), x)) = Len(Front(stack)) + 1
         /\ Append(Front(stack), x)[Len(Front(stack)) + 1] = x
         /\ \A i \in 1..Len(Front(stack)) : Append(Front(stack), x)[i] = Front(stack)[i]
  BY <1>2, Pushed
<1>6. Len(stack) \in Nat /\ \A i \in 1..Len(stack) : stack[i] \in Frames
  BY <1>1, StackElements
<1>7. stack # <<>> =>
         /\ Len(Append(Front(stack), x)) = Len(stack)
         /\ Append(Front(stack), x)[Len(stack)] = x
         /\ \A i \in 1..(Len(stack) - 1) : Append(Front(stack), x)[i] = stack[i]
  <2>1. (Len(stack) - 1) + 1 = Len(stack)
    BY <1>6
  <2> QED
    BY <1>4, <1>5, <2>1
<1> QED
  BY <1>2, <1>3, <1>4, <1>5, <1>6, <1>7

\* The stack after process, and after a callback that follows it.
LEMMA ProcessedFacts ==
  ASSUME TypeOK, InProcess
  PROVE  LET n == Len(stack) IN
    /\ n \in Nat /\ n > 0 /\ stack[n] \in Decodes
    /\ Processed \in Seq(Frames) /\ Append(Processed, "callback") \in Seq(Frames)
    /\ \A i \in 1..(n - 1) : /\ Processed[i] = stack[i]
                             /\ Append(Processed, "callback")[i] = stack[i]
    /\ stack[n] = "unpause" =>
         /\ Len(Processed) = n /\ Processed[n] = "start"
         /\ Len(Append(Processed, "callback")) = n + 1
         /\ Append(Processed, "callback")[n] = "start"
         /\ Append(Processed, "callback")[n + 1] = "callback"
    /\ stack[n] = "onRead" =>
         /\ Len(Processed) = n - 1
         /\ Len(Append(Processed, "callback")) = n
         /\ Append(Processed, "callback")[n] = "callback"
<1>1. /\ stack # <<>> /\ Len(stack) \in Nat /\ Len(stack) > 0
      /\ Last(stack) = stack[Len(stack)] /\ stack[Len(stack)] \in Decodes
  BY StackFacts DEF InProcess, Running, Decodes, Frames
<1>2. CASE stack[Len(stack)] = "unpause"
  <2>1. Processed = Append(Front(stack), "start")
    BY <1>1, <1>2 DEF Processed, Running
  <2>2. /\ Processed \in Seq(Frames) /\ Len(Processed) = Len(stack)
        /\ Processed[Len(stack)] = "start"
        /\ \A i \in 1..(Len(stack) - 1) : Processed[i] = stack[i]
    BY <1>1, <2>1, StackFacts DEF Frames
  <2>3. /\ Append(Processed, "callback") \in Seq(Frames)
        /\ Len(Append(Processed, "callback")) = Len(stack) + 1
        /\ Append(Processed, "callback")[Len(stack) + 1] = "callback"
        /\ \A i \in 1..Len(stack) : Append(Processed, "callback")[i] = Processed[i]
    BY <2>2, Pushed DEF Frames
  <2> QED
    BY <1>1, <1>2, <2>2, <2>3
<1>3. CASE stack[Len(stack)] = "onRead"
  <2>1. Processed = Front(stack)
    BY <1>1, <1>3 DEF Processed, Running
  <2>2. Processed \in Seq(Frames) /\ Len(Processed) = Len(stack) - 1
    BY <1>1, <2>1, StackFacts DEF Frames
  <2>3. \A i \in 1..(Len(stack) - 1) : Processed[i] = stack[i]
    BY <1>1, <2>1, StackFacts DEF Frames
  <2>4. /\ Append(Processed, "callback") \in Seq(Frames)
        /\ Len(Append(Processed, "callback")) = (Len(stack) - 1) + 1
        /\ Append(Processed, "callback")[(Len(stack) - 1) + 1] = "callback"
        /\ \A i \in 1..(Len(stack) - 1) : Append(Processed, "callback")[i] = Processed[i]
    BY <2>2, Pushed DEF Frames
  <2>5. (Len(stack) - 1) + 1 = Len(stack)
    BY <1>1
  <2> QED
    BY <1>1, <1>3, <2>2, <2>3, <2>4, <2>5
<1> QED
  BY <1>1, <1>2, <1>3 DEF Decodes

\* What is left of the units holds a value exactly while values are left.
LEMMA Whole ==
  ASSUME TypeOK
  PROVE  /\ WholeItem => decoded < Items /\ Units * (decoded + 1) <= arrived
         /\ arrived = Units * Items /\ ~WholeItem => decoded = Items
<1>1. /\ Units \in Nat \ {0} /\ Items \in Nat /\ decoded \in 0..Items
      /\ arrived \in 0..(Units * Items)
  BY StreamAssumption DEF TypeOK
<1>2. /\ Units * decoded \in Nat /\ Units * Items \in Nat
      /\ Units * (decoded + 1) = Units * decoded + Units
  BY <1>1
<1>3. ASSUME decoded < Items PROVE Units * Items >= Units * decoded + Units
  <2>1. PICK k \in Nat : Items = decoded + 1 + k
    <3>1. Items - decoded - 1 \in Nat /\ Items = decoded + 1 + (Items - decoded - 1)
      BY <1>1, <1>3
    <3> QED
      BY <3>1
  <2>2. Units * Items = Units * decoded + Units + Units * k /\ Units * k \in Nat
    BY <1>1, <2>1
  <2> QED
    BY <1>1, <1>2, <2>2
<1>4. WholeItem => decoded < Items
  <2>1. decoded = Items => Units * Items - Units * decoded = 0
    BY <1>1, <1>2
  <2> QED
    BY <1>1, <1>2, <2>1 DEF WholeItem
<1> QED
  BY <1>1, <1>2, <1>3, <1>4 DEF WholeItem

\* A value is only ever decoded before the end and before any error, when all
\* that has been decoded has been read or is asked for.
LEMMA ItemFacts ==
  ASSUME SocketInv, ProcessItem
  PROVE  /\ ~failed /\ ~inEnd /\ ~closed /\ ~paused
         /\ writer = decoded /\ writer <= reader /\ decoded + 1 \in 1..Items
<1> USE DEF SocketInv
<1>1. InProcess /\ WholeItem /\ decoded + 1 # bad
  BY DEF ProcessItem
<1>2. Len(stack) \in 1..Len(stack) /\ stack[Len(stack)] \in Decodes
  BY <1>1, ProcessedFacts
<1>3. ~paused
  BY <1>2 DEF FramesInv
<1>4. ~failed
  BY <1>1, <1>2 DEF CountsInv, Stuck, Decodes, Flowing
<1>5. decoded < Items
  BY <1>1, Whole
<1>6. ~inEnd
  BY <1>4, <1>5, StreamAssumption DEF CountsInv, TypeOK
<1> QED
  BY <1>3, <1>4, <1>5, <1>6, StreamAssumption DEF CountsInv, ClosesInv, TypeOK
-----------------------------------------------------------------------------
\* What the running frames say of the flags, kept by each step.
LEMMA FramesStep ==
  ASSUME SocketInv, [Next]_vars
  PROVE  FramesInv'
<1> DEFINE n == Len(stack)
<1>t. TypeOK /\ FramesInv /\ n \in Nat /\ \A i \in 1..n : stack[i] \in Frames
  BY StackFacts DEF SocketInv, Frames
<1>b. paused \in BOOLEAN /\ reading \in BOOLEAN
  BY <1>t DEF TypeOK
<1>p. InProcess =>
        /\ n \in Nat \ {0}
        /\ \A i \in 1..(n - 1) : /\ Processed[i] = stack[i]
                                 /\ Append(Processed, "callback")[i] = stack[i]
        /\ \/ /\ stack[n] = "unpause"
              /\ Len(Processed) = n /\ Processed[n] = "start"
              /\ Len(Append(Processed, "callback")) = n + 1
              /\ Append(Processed, "callback")[n] = "start"
              /\ Append(Processed, "callback")[n + 1] = "callback"
           \/ /\ stack[n] = "onRead"
              /\ Len(Processed) = n - 1
              /\ Len(Append(Processed, "callback")) = n
              /\ Append(Processed, "callback")[n] = "callback"
  BY <1>t, ProcessedFacts DEF Decodes
<1> USE DEF fifo, flow, stream, ends, output, vars, Decodes, Flowing
<1>1. CASE Read
  <2>1. CASE writer > reader
    <3>1. stack' = Append(stack, "callback") /\ UNCHANGED <<flow, inEnd, failed>>
      BY <1>1, <2>1 DEF Read
    <3>2. /\ Len(stack') = n + 1 /\ stack'[n + 1] = "callback"
          /\ \A i \in 1..n : stack'[i] = stack[i]
      BY <1>t, <3>1, StackFacts DEF Frames
    <3>3. stack # <<>> => stack[n] = "callback"
      BY <1>1 DEF Read, AppRuns, Idle, Running, Last
    <3> QED
      BY <1>t, <3>1, <3>2, <3>3 DEF FramesInv
  <2>2. CASE ~(writer > reader) /\ (closed \/ ~paused)
    BY <1>t, <1>1, <2>2 DEF Read, Unpause, FramesInv
  <2>3. CASE ~(writer > reader) /\ ~closed /\ paused
    <3>1. /\ stack' = Append(stack, "unpause") /\ paused' = FALSE
          /\ UNCHANGED <<reading, inEnd, failed>>
      BY <1>1, <2>3 DEF Read, Unpause
    <3>2. /\ Len(stack') = n + 1 /\ stack'[n + 1] = "unpause"
          /\ \A i \in 1..n : stack'[i] = stack[i]
      BY <1>t, <3>1, StackFacts DEF Frames
    <3>3. stack # <<>> => stack[n] = "callback"
      BY <1>1 DEF Read, AppRuns, Idle, Running, Last
    <3>4. \A i \in 1..n : stack[i] \notin Flowing
      BY <1>t, <2>3, <3>3 DEF FramesInv
    <3>5. reading = FALSE
      BY <1>t, <2>3 DEF FramesInv, TypeOK
    <3> QED
      BY <1>t, <3>1, <3>2, <3>4, <3>5 DEF FramesInv
  <2> QED
    BY <2>1, <2>2, <2>3
<1>2. CASE Write \/ WriteEnd \/ UNCHANGED vars
  BY <1>t, <1>2 DEF Write, WriteEnd, FramesInv
<1>3. CASE CallbackReturns
  <2>1. /\ stack' = Front(stack) /\ UNCHANGED <<flow, inEnd, failed>>
        /\ stack # <<>> /\ stack[n] = "callback"
    BY <1>3 DEF CallbackReturns, Running, Last
  <2>2. Len(stack') = n - 1 /\ \A i \in 1..(n - 1) : stack'[i] = stack[i]
    BY <1>t, <2>1, StackFacts DEF Frames
  <2> QED
    BY <1>t, <2>1, <2>2 DEF FramesInv
<1>4. CASE ProcessWantsMore
  <2>1. InProcess /\ ~WholeItem /\ stack' = Processed /\ UNCHANGED <<flow, inEnd, failed>>
    BY <1>4 DEF ProcessWantsMore
  <2> HIDE DEF Processed
  <2>2. Len(stack') \in {n, n - 1} /\ \A i \in 1..(n - 1) : stack'[i] = stack[i]
    BY <1>p, <2>1
  <2> QED
    BY <1>t, <1>b, <1>p, <2>1 DEF FramesInv
<1>5. CASE ProcessItem
  <2>1. InProcess /\ UNCHANGED <<inEnd, failed, closed>>
    BY <1>5 DEF ProcessItem
  <2>2. CASE reader > writer
    <3>1. stack' = Append(stack, "callback") /\ UNCHANGED <<paused, reading>>
      BY <1>5, <2>2 DEF ProcessItem, OnData
    <3>2. /\ Len(stack') = n + 1 /\ stack'[n + 1] = "callback"
          /\ \A i \in 1..n : stack'[i] = stack[i]
      BY <1>t, <3>1, StackFacts DEF Frames
    <3>3. stack[n] # "start" /\ n > 0
      BY <1>p, <2>1
    <3> QED
      BY <1>t, <2>1, <3>1, <3>2, <3>3 DEF FramesInv
  <2>3. CASE ~(reader > writer)
    <3>1. stack' = Processed /\ paused' = TRUE /\ reading' = FALSE
      <4>1. ~closed' /\ ~paused
        BY <1>5, <2>1, ItemFacts
      <4> QED
        BY <1>5, <2>3, <4>1 DEF ProcessItem, OnData, Pause
    <3>2. \A i \in 1..(n - 1) : stack[i] \notin Flowing
      BY <1>t, <1>p, <2>1 DEF FramesInv
    <3>3. \A i \in 1..Len(stack') :
            \/ i \in 1..(n - 1) /\ stack'[i] = stack[i]
            \/ i = n /\ i = Len(stack') /\ stack'[i] = "start"
      BY <1>p, <2>1, <3>1
    <3>4. \A i \in 1..Len(stack') :
            stack'[i] \notin Decodes /\ (stack'[i] = "ended" => i = 1)
      BY <1>t, <3>2, <3>3 DEF FramesInv
    <3>5. \A i, j \in 1..Len(stack') :
            stack'[i] \in Flowing /\ stack'[j] \in Flowing => i = j
      BY <3>2, <3>3
    <3>6. \A i \in 1..Len(stack') : stack'[i] = "start" => i = Len(stack')
      BY <3>2, <3>3
    <3> QED
      BY <3>1, <3>4, <3>5, <3>6 DEF FramesInv
  <2> QED
    BY <2>2, <2>3
<1>6. CASE ProcessBadItem
  <2>1. InProcess /\ UNCHANGED <<flow, inEnd>> /\ failed' = TRUE
    BY <1>6 DEF ProcessBadItem, OnDataError
  <2>2. CASE reader > writer
    <3>1. stack' = Append(Processed, "callback")
      BY <1>6, <2>2 DEF ProcessBadItem, OnDataError
    <3>2. /\ \A i \in 1..(n - 1) : stack[i] \notin Flowing
          /\ ~paused /\ (stack[n] = "unpause" => ~reading)
      BY <1>t, <1>p, <2>1 DEF FramesInv
    <3>3. \A i \in 1..Len(stack') :
            \/ i \in 1..(n - 1) /\ stack'[i] = stack[i]
            \/ i = n /\ stack'[i] = "start" /\ stack[n] = "unpause"
            \/ stack'[i] = "callback"
      BY <1>p, <2>1, <3>1
    <3>4. \A i \in 1..Len(stack') :
            /\ stack'[i] \notin Decodes /\ (stack'[i] = "ended" => i = 1)
            /\ stack'[i] = "start" => ~reading
      BY <1>t, <3>2, <3>3 DEF FramesInv
    <3>5. \A i, j \in 1..Len(stack') :
            stack'[i] \in Flowing /\ stack'[j] \in Flowing => i = j
      BY <3>2, <3>3
    <3>6. reading => ~paused
      BY <3>2
    <3> QED
      BY <2>1, <3>2, <3>4, <3>5, <3>6 DEF FramesInv
  <2>3. CASE ~(reader > writer)
    <3>1. stack' = <<>>
      BY <1>6, <2>3 DEF ProcessBadItem, OnDataError
    <3> QED
      BY <1>t, <2>1, <3>1 DEF FramesInv
  <2> QED
    BY <2>2, <2>3
<1>7. CASE StartReading
  <2>1. /\ stack' = Front(stack) /\ UNCHANGED <<paused, inEnd, failed>>
        /\ stack # <<>> /\ stack[n] = "start" /\ reading' = (reading \/ ~paused)
    BY <1>7 DEF StartReading, Running, Last
  <2>2. n > 0 /\ Len(stack') = n - 1 /\ \A i \in 1..(n - 1) : stack'[i] = stack[i]
    BY <1>t, <2>1, StackFacts DEF Frames
  <2>3. \A i \in 1..(n - 1) : stack[i] \notin Flowing
    BY <1>t, <2>1, <2>2 DEF FramesInv
  <2>4. reading' = ~paused'
    BY <1>t, <2>1, <2>2 DEF FramesInv, TypeOK
  <2>5. reading' => ~paused'
    BY <2>4
  <2>6. \A i \in 1..Len(stack') : stack'[i] \notin Flowing /\ (stack'[i] = "ended" => i = 1)
    BY <1>t, <2>2, <2>3 DEF FramesInv
  <2> QED
    BY <2>4, <2>5, <2>6 DEF FramesInv
<1>8. CASE OutputEnded
  <2>1. /\ stack' = Front(stack) /\ UNCHANGED <<flow, inEnd, failed>>
        /\ stack # <<>> /\ stack[n] = "ended"
    BY <1>8 DEF OutputEnded, Running, Last
  <2>2. Len(stack') = n - 1 /\ \A i \in 1..(n - 1) : stack'[i] = stack[i]
    BY <1>t, <2>1, StackFacts DEF Frames
  <2> QED
    BY <1>t, <2>1, <2>2 DEF FramesInv
<1>9. CASE OnChunk
  <2>1. stack' = <<"onRead">> /\ UNCHANGED <<flow, inEnd, failed>> /\ reading = TRUE
    BY <1>t, <1>9 DEF OnChunk, TypeOK
  <2>2. Len(stack') = 1 /\ stack'[1] = "onRead"
    BY <2>1
  <2>3. paused' = FALSE /\ reading' = TRUE
    BY <1>t, <1>b, <2>1 DEF FramesInv
  <2>4. \A i \in 1..Len(stack') : i = 1 /\ stack'[i] = "onRead"
    BY <2>2
  <2>5. \E i \in 1..Len(stack') : stack'[i] = "onRead"
    BY <2>2
  <2> QED
    BY <2>3, <2>4, <2>5 DEF FramesInv
<1>10. CASE OnEof
  <2>1. inEnd' = TRUE /\ failed' = failed
    BY <1>10 DEF OnEof, Ended
  <2>3. stack' = <<>> \/ stack' = Append(<<>>, "callback")
    BY <1>10 DEF OnEof, OnData
  <2>4. \A i \in 1..Len(stack') : stack'[i] = "callback"
    BY <2>3
  <2>2. reading' = FALSE /\ (paused' = paused \/ paused' = TRUE)
    BY <1>10 DEF OnEof, OnData, Pause
  <2> QED
    BY <1>t, <2>1, <2>2, <2>4 DEF FramesInv
<1>11. CASE OnError
  <2>1. /\ inEnd' = TRUE /\ failed' = TRUE /\ reading' = FALSE /\ paused' = paused
        /\ stack' = <<>> \/ stack' = <<"callback">>
    BY <1>11 DEF OnError, Ended, OnDataError, Idle
  <2> QED
    BY <1>t, <2>1 DEF FramesInv
<1>12. CASE ShutdownAnswered
  <2>1. /\ stack = <<>> /\ stack' = <<"ended", "callback">>
        /\ UNCHANGED <<flow, inEnd, failed>>
    BY <1>12 DEF ShutdownAnswered, Idle
  <2> QED
    BY <1>t, <2>1 DEF FramesInv
<1> QED
  BY <1>1, <1>2, <1>3, <1>4, <1>5, <1>6, <1>7, <1>8, <1>9, <1>10, <1>11, <1>12
     DEF Next, HandlerStep, PeerStep

-----------------------------------------------------------------------------
\* The frames of stack' are frames of stack, but for those a step has pushed.
LEMMA FramesMove ==
  ASSUME TypeOK, NEW f \in Frames
  PROVE  /\ Read /\ f # "callback" /\ (f = "unpause" => ~paused) =>
              ((\E i \in 1..Len(stack') : stack'[i] = f)
                 <=> \E i \in 1..Len(stack) : stack[i] = f)
         /\ \/ CallbackReturns /\ f # "callback"
            \/ StartReading /\ f # "start"
            \/ OutputEnded /\ f # "ended"
            \/ Write \/ WriteEnd \/ UNCHANGED vars
            => ((\E i \in 1..Len(stack') : stack'[i] = f)
                  <=> \E i \in 1..Len(stack) : stack[i] = f)
         /\ ProcessWantsMore \/ ProcessItem \/ ProcessBadItem =>
              ((\E i \in 1..Len(stack') : stack'[i] = f) /\ f \notin {"callback", "start"}
                 => \E i \in 1..Len(stack) : stack[i] = f)
         /\ OnEof \/ OnError =>
              stack = <<>> /\ (f # "callback" => \A i \in 1..Len(stack') : stack'[i] # f)
<1> DEFINE n == Len(stack)
<1>1. n \in Nat /\ \A i \in 1..n : stack[i] \in Frames
  BY StackFacts DEF Frames
<1>2. ASSUME Read, f # "callback", f = "unpause" => ~paused
      PROVE  (\E i \in 1..Len(stack') : stack'[i] = f) <=> \E i \in 1..n : stack[i] = f
  <2>1. CASE stack' = stack
    BY <2>1
  <2>2. ASSUME NEW x \in Frames \ {f}, stack' = Append(stack, x)
        PROVE  (\E i \in 1..Len(stack') : stack'[i] = f) <=> \E i \in 1..n : stack[i] = f
    <3>1. Len(stack') = n + 1 /\ stack'[n + 1] = x /\ \A i \in 1..n : stack'[i] = stack[i]
      BY <2>2, StackFacts
    <3> QED
      BY <1>1, <2>2, <3>1
  <2>3. \/ stack' = stack \/ stack' = Append(stack, "callback")
        \/ paused /\ stack' = Append(stack, "unpause")
    BY <1>2 DEF Read, Unpause
  <2> QED
    BY <1>2, <2>1, <2>2, <2>3 DEF Frames
<1>3. ASSUME \/ CallbackReturns /\ f # "callback"
             \/ StartReading /\ f # "start"
             \/ OutputEnded /\ f # "ended"
      PROVE  (\E i \in 1..Len(stack') : stack'[i] = f) <=> \E i \in 1..n : stack[i] = f
  <2>1. stack # <<>> /\ stack' = Front(stack) /\ stack[n] # f
    BY <1>3 DEF CallbackReturns, StartReading, OutputEnded, Running, Last
  <2>2. n > 0 /\ Len(stack') = n - 1 /\ \A i \in 1..(n - 1) : stack'[i] = stack[i]
    BY <2>1, StackFacts DEF Frames
  <2> QED
    BY <1>1, <2>1, <2>2
<1>4. ASSUME Write \/ WriteEnd \/ UNCHANGED vars PROVE stack' = stack
  BY <1>4 DEF Write, WriteEnd, vars
<1>5. ASSUME ProcessWantsMore \/ ProcessItem \/ ProcessBadItem,
             NEW i \in 1..Len(stack'), stack'[i] = f, f \notin {"callback", "start"}
      PROVE  \E j \in 1..n : stack[j] = f
  <2>1. InProcess
    BY <1>5 DEF ProcessWantsMore, ProcessItem, ProcessBadItem
  <2>2. \/ stack' = Processed \/ stack' = Append(stack, "callback")
        \/ stack' = Append(Processed, "callback") \/ stack' = <<>>
    BY <1>5 DEF ProcessWantsMore, ProcessItem, ProcessBadItem, OnData, OnDataError
  <2>3. n > 0 /\ stack[n] \in Decodes
    BY <2>1, ProcessedFacts
  <2>4. CASE stack' = Append(stack, "callback")
    <3>1. Len(stack') = n + 1 /\ stack'[n + 1] = "callback"
          /\ \A j \in 1..n : stack'[j] = stack[j]
      BY <2>4, StackFacts DEF Frames
    <3> QED
      BY <1>1, <1>5, <3>1
  <2>5. CASE stack' = Processed
    <3>1. /\ \A j \in 1..(n - 1) : stack'[j] = stack[j]
          /\ stack[n] = "unpause" => Len(stack') = n /\ stack'[n] = "start"
          /\ stack[n] = "onRead" => Len(stack') = n - 1
      BY <2>1, <2>5, ProcessedFacts
    <3> QED
      BY <1>1, <1>5, <2>3, <3>1 DEF Decodes
  <2>6. CASE stack' = Append(Processed, "callback")
    <3>1. /\ \A j \in 1..(n - 1) : stack'[j] = stack[j]
          /\ stack[n] = "unpause" =>
               Len(stack') = n + 1 /\ stack'[n] = "start" /\ stack'[n + 1] = "callback"
          /\ stack[n] = "onRead" => Len(stack') = n /\ stack'[n] = "callback"
      BY <2>1, <2>6, ProcessedFacts
    <3> QED
      BY <1>1, <1>5, <2>3, <3>1 DEF Decodes
  <2>7. CASE stack' = <<>>
    BY <1>5, <2>7
  <2> QED
    BY <2>2, <2>4, <2>5, <2>6, <2>7
<1>6. ASSUME OnEof \/ OnError
      PROVE  stack = <<>> /\ \A i \in 1..Len(stack') : stack'[i] = "callback"
  <2>1. stack = <<>> /\ (stack' = <<>> \/ stack' = Append(<<>>, "callback"))
    BY <1>6 DEF OnEof, OnError, Idle, OnData, OnDataError
  <2> QED
    BY <2>1
<1> QED
  BY <1>2, <1>3, <1>4, <1>5, <1>6

-----------------------------------------------------------------------------
NoneDecodes == \A i \in 1..Len(stack) : stack[i] \notin Decodes

\* What is left in the buffer is what has been received and not decoded.
LEMMA BufferStep ==
  ASSUME SocketInv, [Next]_vars
  PROVE  BufferInv'
<1>t. TypeOK /\ FramesInv /\ BufferInv /\ Len(stack) \in Nat
  BY StackFacts DEF SocketInv, Frames
<1>n. NoneDecodes <=> /\ ~\E i \in 1..Len(stack) : stack[i] = "onRead"
                     /\ ~\E i \in 1..Len(stack) : stack[i] = "unpause"
  BY DEF NoneDecodes, Decodes
<1>m. NoneDecodes' <=> /\ ~\E i \in 1..Len(stack') : stack'[i] = "onRead"
                      /\ ~\E i \in 1..Len(stack') : stack'[i] = "unpause"
  BY DEF NoneDecodes, Decodes
<1>k. ASSUME UNCHANGED <<arrived, decoded, paused, failed>>, NoneDecodes' => NoneDecodes
      PROVE  BufferInv'
  BY <1>t, <1>k DEF BufferInv, WholeItem, NoneDecodes
<1>u. ASSUME UNCHANGED <<arrived, decoded>>, paused' \/ failed' \/ ~WholeItem
      PROVE  BufferInv'
  BY <1>t, <1>u DEF BufferInv, WholeItem
<1> USE DEF fifo, flow, stream, ends, output
<1>1. CASE Read
  <2>1. UNCHANGED <<arrived, decoded, failed>>
    BY <1>1 DEF Read
  <2>2. CASE paused' = paused
    <3>1. \A f \in Decodes : (\E i \in 1..Len(stack) : stack[i] = f)
                                => \E i \in 1..Len(stack') : stack'[i] = f
      <4>1. CASE stack' = stack
        BY <4>1
      <4>2. CASE stack' = Append(stack, "callback") \/ stack' = Append(stack, "unpause")
        <5>1. Len(stack') = Len(stack) + 1 /\ \A i \in 1..Len(stack) : stack'[i] = stack[i]
          BY <1>t, <4>2, StackFacts DEF Frames
        <5> QED
          BY <1>t, <5>1
      <4> QED
        BY <1>1, <4>1, <4>2 DEF Read, Unpause
    <3> QED
      BY <1>k, <1>m, <1>n, <2>1, <2>2, <3>1 DEF Decodes
  <2>3. CASE paused' # paused
    <3>1. stack' = Append(stack, "unpause")
      BY <1>1, <2>3 DEF Read, Unpause
    <3>2. Len(stack') = Len(stack) + 1 /\ stack'[Len(stack) + 1] = "unpause"
      BY <1>t, <3>1, StackFacts DEF Frames
    <3>3. \E i \in 1..Len(stack') : stack'[i] = "unpause"
      BY <1>t, <3>2
    <3> QED
      BY <1>t, <2>1, <3>3 DEF BufferInv, Decodes
  <2> QED
    BY <2>2, <2>3
<1>2. CASE CallbackReturns \/ OutputEnded
  <2>1. UNCHANGED <<arrived, decoded, paused, failed>>
    BY <1>2 DEF CallbackReturns, OutputEnded
  <2>2. NoneDecodes' => NoneDecodes
    BY <1>t, <1>2, <1>m, <1>n, FramesMove DEF Frames
  <2> QED
    BY <1>k, <2>1, <2>2
<1>3. CASE StartReading
  <2>1. UNCHANGED <<arrived, decoded, paused, failed>>
    BY <1>3 DEF StartReading
  <2>2. NoneDecodes' => NoneDecodes
    BY <1>t, <1>3, <1>m, <1>n, FramesMove DEF Frames
  <2> QED
    BY <1>k, <2>1, <2>2
<1>4. CASE ProcessWantsMore
  BY <1>4, <1>u DEF ProcessWantsMore
<1>5. CASE ProcessItem
  <2>1. WholeItem /\ arrived' = arrived /\ decoded' = decoded + 1
    BY <1>5 DEF ProcessItem
  <2>2. Units * decoded' <= arrived'
    BY <1>t, <2>1, Whole
  <2>3. CASE reader > writer
    <3>1. InProcess /\ stack' = Append(stack, "callback")
      BY <1>5, <2>3 DEF ProcessItem, OnData
    <3>2. /\ Len(stack) > 0 /\ stack[Len(stack)] \in Decodes
          /\ Len(stack') = Len(stack) + 1
          /\ \A i \in 1..Len(stack) : stack'[i] = stack[i]
      BY <1>t, <3>1, StackFacts, ProcessedFacts DEF Frames
    <3>3. Len(stack) \in 1..Len(stack') /\ stack'[Len(stack)] \in Decodes
      BY <1>t, <3>2
    <3> QED
      BY <2>2, <3>3 DEF BufferInv
  <2>4. CASE ~(reader > writer)
    <3>1. paused' = TRUE
      <4>1. ~closed' /\ ~paused
        BY <1>5, ItemFacts DEF ProcessItem
      <4> QED
        BY <1>5, <2>4, <4>1 DEF ProcessItem, OnData, Pause
    <3> QED
      BY <2>2, <3>1 DEF BufferInv
  <2> QED
    BY <2>3, <2>4
<1>6. CASE ProcessBadItem
  BY <1>6, <1>u DEF ProcessBadItem, OnDataError
<1>7. CASE OnError
  BY <1>7, <1>u DEF OnError, OnDataError
<1>8. CASE OnChunk
  <2>1. /\ stack' = <<"onRead">> /\ decoded' = decoded
        /\ \E n \in 1..(Units * Items - arrived) : arrived' = arrived + n
    BY <1>8 DEF OnChunk
  <2>2. 1 \in 1..Len(stack') /\ stack'[1] \in Decodes
    BY <2>1 DEF Decodes
  <2>3. Units * decoded' <= arrived'
    <3>1. /\ arrived \in Int /\ Units * decoded \in Int /\ Units * Items \in Int
          /\ Units * decoded <= arrived
      BY <1>t, StreamAssumption DEF TypeOK, BufferInv
    <3> QED
      BY <2>1, <3>1
  <2> QED
    BY <2>2, <2>3 DEF BufferInv
<1>9. CASE OnEof
  <2>1. ~paused /\ NoneDecodes /\ UNCHANGED <<arrived, decoded, failed>>
    BY <1>9, <1>t DEF OnEof, FramesInv, NoneDecodes, Idle
  <2> QED
    BY <1>t, <2>1 DEF BufferInv, WholeItem, NoneDecodes
<1>10. CASE ShutdownAnswered
  <2>1. NoneDecodes /\ UNCHANGED <<arrived, decoded, paused, failed>>
    BY <1>10 DEF ShutdownAnswered, NoneDecodes, Idle
  <2> QED
    BY <1>k, <2>1
<1>11. CASE Write \/ WriteEnd \/ UNCHANGED vars
  BY <1>11, <1>k DEF Write, WriteEnd, vars, NoneDecodes
<1> QED
  BY <1>1, <1>2, <1>3, <1>4, <1>5, <1>6, <1>7, <1>8, <1>9, <1>10, <1>11
     DEF Next, HandlerStep, PeerStep

-----------------------------------------------------------------------------
\* A stream that has failed starts nothing.
LEMMA StuckStays ==
  ASSUME SocketInv, Stuck, [Next]_vars
  PROVE  /\ Stuck' /\ UNCHANGED <<decoded, bad, writer, inEnd, failed>>
         /\ reader' = reader \/ reader' = reader + 1
<1> USE DEF fifo, flow, stream, ends, output
<1>t. TypeOK /\ reader \in Nat
  BY DEF SocketInv, TypeOK
<1>f. \A f \in Flowing : ~\E i \in 1..Len(stack) : stack[i] = f
  BY DEF Stuck
<1>g. ASSUME UNCHANGED <<paused, reading, inEnd>>,
             \A f \in Flowing : ~\E i \in 1..Len(stack') : stack'[i] = f
      PROVE  Stuck'
  BY <1>g DEF Stuck
<1>1. CASE Read
  <2>1. UNCHANGED <<paused, reading, inEnd, decoded, bad, writer, failed>>
    BY <1>1 DEF Read, Unpause, Stuck
  <2>2. \A f \in Flowing : ~\E i \in 1..Len(stack') : stack'[i] = f
    BY <1>1, <1>f, <1>t, FramesMove DEF Flowing, Frames, Stuck
  <2> QED
    BY <1>1, <1>g, <1>t, <2>1, <2>2 DEF Read
<1>2. CASE CallbackReturns \/ OutputEnded \/ Write \/ WriteEnd \/ UNCHANGED vars
  <2>1. UNCHANGED <<paused, reading, inEnd, decoded, bad, reader, writer, failed>>
    BY <1>2 DEF CallbackReturns, OutputEnded, Write, WriteEnd, vars
  <2>2. \A f \in Flowing : ~\E i \in 1..Len(stack') : stack'[i] = f
    BY <1>2, <1>f, <1>t, FramesMove DEF Flowing, Frames
  <2> QED
    BY <1>g, <1>t, <2>1, <2>2
<1>3. CASE ShutdownAnswered
  <2>1. /\ UNCHANGED <<paused, reading, inEnd, decoded, bad, reader, writer, failed>>
        /\ stack' = <<"ended", "callback">>
    BY <1>3 DEF ShutdownAnswered
  <2>2. \A f \in Flowing : ~\E i \in 1..Len(stack') : stack'[i] = f
    BY <2>1 DEF Flowing
  <2> QED
    BY <1>g, <1>t, <2>1, <2>2
<1>4. ~InProcess
  <2>1. InProcess => Len(stack) \in 1..Len(stack) /\ stack[Len(stack)] \in Decodes
    BY <1>t, ProcessedFacts
  <2> QED
    BY <2>1 DEF Stuck, Decodes, Flowing
<1>5. ~Running("start")
  <2>1. Running("start") => Len(stack) \in 1..Len(stack) /\ stack[Len(stack)] = "start"
    BY <1>t, StackFacts DEF Running, Frames
  <2> QED
    BY <2>1 DEF Stuck, Flowing
<1>6. ~ProcessWantsMore /\ ~ProcessItem /\ ~ProcessBadItem /\ ~StartReading
  BY <1>4, <1>5 DEF ProcessWantsMore, ProcessItem, ProcessBadItem, StartReading
<1>7. ~OnChunk /\ ~OnEof /\ ~OnError
  BY DEF OnChunk, OnEof, OnError, Stuck
<1> QED
  BY <1>1, <1>2, <1>3, <1>6, <1>7 DEF Next, HandlerStep, PeerStep

\* A socket that is closed stays so.
LEMMA ClosedStays ==
  ASSUME [Next]_vars, closed
  PROVE  closed'
BY DEF Next, HandlerStep, PeerStep, vars, ends, Read, Write, WriteEnd, CallbackReturns,
       ProcessWantsMore, ProcessItem, ProcessBadItem, StartReading, OutputEnded, OnChunk,
       OnEof, OnError, Ended, CheckClose, ShutdownAnswered

\* The counts of the values decoded, queued and read.
LEMMA CountsStep ==
  ASSUME SocketInv, [Next]_vars
  PROVE  CountsInv'
<1>t. /\ TypeOK /\ FramesInv /\ CountsInv
      /\ reader \in Nat /\ writer \in Nat /\ decoded \in Nat /\ Items \in Nat
  BY StreamAssumption DEF SocketInv, TypeOK
<1>c. ~closed' => ~closed
  BY ClosedStays
<1> USE DEF fifo, flow, stream, ends, output
<1>s. CASE Stuck
  <2>1. /\ Stuck' /\ UNCHANGED <<decoded, bad, writer, inEnd, failed>>
        /\ reader' = reader \/ reader' = reader + 1
    BY <1>s, StuckStays
  <2>2. inEnd /\ inEnd' /\ (failed' = failed) /\ writer' <= reader' + 1
    BY <1>s, <1>t, <2>1 DEF Stuck, CountsInv
  <2>3. ~closed' => writer' <= reader'
    BY <1>c, <1>s, <1>t, <2>1 DEF Stuck, CountsInv
  <2>4. ~failed => decoded = Items /\ writer > Items
    BY <1>t, <2>2 DEF CountsInv
  <2> QED
    BY <1>t, <2>1, <2>2, <2>3, <2>4 DEF CountsInv
<1>k. ASSUME ~Stuck, UNCHANGED <<reader, writer, decoded, bad, inEnd, failed>>,
             paused => paused'
      PROVE  CountsInv'
  BY <1>c, <1>k, <1>t DEF CountsInv
<1>1. CASE ~Stuck /\ Read
  <2>1. /\ reader' = reader + 1 /\ UNCHANGED <<writer, decoded, bad, inEnd, failed>>
        /\ writer > reader => paused' = paused
    BY <1>1 DEF Read
  <2> QED
    BY <1>1, <1>c, <1>t, <2>1 DEF CountsInv
<1>2. CASE ~Stuck /\ ProcessItem
  <2>1. /\ ~failed' /\ ~inEnd' /\ decoded' = decoded + 1 /\ writer' = writer + 1
        /\ reader' = reader /\ writer = decoded /\ writer <= reader
    BY <1>2, ItemFacts DEF ProcessItem, OnData
  <2>2. reader > writer \/ paused'
    <3>1. ~closed' /\ ~paused
      BY <1>2, ItemFacts DEF ProcessItem
    <3> QED
      BY <1>2, <3>1 DEF ProcessItem, OnData, Pause
  <2> QED
    BY <1>t, <2>1, <2>2 DEF CountsInv
<1>3. CASE ~Stuck /\ ProcessBadItem
  <2>1. /\ failed' /\ decoded' + 1 = bad' /\ UNCHANGED <<reader, paused, inEnd>>
        /\ IF reader > writer THEN writer' = writer + 1 ELSE writer' = writer
    BY <1>3 DEF ProcessBadItem, OnDataError
  <2> QED
    BY <1>3, <1>c, <1>t, <2>1 DEF CountsInv
<1>4. CASE ~Stuck /\ OnEof
  <2>1. /\ inEnd' /\ writer' = writer + 1 /\ stack = <<>>
        /\ arrived = Units * Items /\ ~paused /\ ~closed
        /\ UNCHANGED <<reader, decoded, bad, failed>>
    BY <1>4, <1>t DEF OnEof, Ended, OnData, Idle, FramesInv
  <2>2. ~failed => decoded = Items
    BY <1>t, <2>1, Whole DEF SocketInv, BufferInv
  <2>3. (~failed => writer >= Items) /\ writer <= reader
    BY <1>t, <2>1, <2>2 DEF CountsInv
  <2>4. reader > writer \/ paused' \/ closed'
    BY <1>4 DEF OnEof, OnData, Pause
  <2>5. failed => decoded + 1 = bad
    BY <1>4, <1>t DEF CountsInv
  <2> QED
    BY <1>t, <2>1, <2>2, <2>3, <2>4, <2>5 DEF CountsInv
<1>5. CASE ~Stuck /\ OnError
  <2>1. /\ ~closed /\ inEnd' /\ failed' /\ reading' = FALSE /\ ~paused
        /\ UNCHANGED <<reader, decoded, bad, paused>>
        /\ IF reader > writer THEN writer' = writer + 1 ELSE writer' = writer
    BY <1>5, <1>t DEF OnError, Ended, OnDataError, FramesInv
  <2>2. \A f \in Flowing : \A i \in 1..Len(stack') : stack'[i] # f
    BY <1>5, <1>t, FramesMove DEF Flowing, Frames
  <2>3. Stuck'
    BY <2>1, <2>2 DEF Stuck
  <2> QED
    BY <1>t, <2>1, <2>3 DEF CountsInv
<1>6. CASE ~Stuck /\ (CallbackReturns \/ ProcessWantsMore \/ StartReading \/ OutputEnded)
  <2>1. UNCHANGED <<reader, writer, decoded, bad, inEnd, failed, paused>>
    BY <1>6 DEF CallbackReturns, ProcessWantsMore, StartReading, OutputEnded
  <2> QED
    BY <1>6, <1>k, <2>1
<1>7. CASE ~Stuck /\ (OnChunk \/ ShutdownAnswered \/ Write \/ WriteEnd \/ UNCHANGED vars)
  BY <1>7, <1>k DEF OnChunk, ShutdownAnswered, Write, WriteEnd, vars
<1> QED
  BY <1>s, <1>1, <1>2, <1>3, <1>4, <1>5, <1>6, <1>7 DEF Next, HandlerStep, PeerStep

-----------------------------------------------------------------------------
\* The answers are the values in their order, then the end.
LEMMA AnswersStep ==
  ASSUME SocketInv, [Next]_vars
  PROVE  AnswersInv'
<1>t. /\ TypeOK /\ CountsInv /\ AnswersInv
      /\ reader \in 0..MaxReads /\ writer \in Nat /\ decoded \in Nat
      /\ MaxReads \in Nat /\ Items \in Nat
      /\ got \in Seq([read : 0..MaxReads, value : Values])
  BY StreamAssumption DEF SocketInv, TypeOK
<1>f. ASSUME NEW value, NEW place, Fits(value, place, failed), failed => failed'
      PROVE  Fits(value, place, failed')
  BY <1>f DEF Fits, Values
<1>a. ASSUME NEW k \in 0..MaxReads, NEW value, Answer(k, value), k = Len(got),
             value \in Values, Fits(value, k + 1, failed'), failed => failed'
      PROVE  /\ Len(got') = k + 1
             /\ \A i \in 1..Len(got') : got'[i].read = i - 1 /\ Fits(got'[i].value, i, failed')
  <2>1. [read |-> k, value |-> value] \in [read : 0..MaxReads, value : Values]
    BY <1>a
  <2>2. /\ Len(got') = Len(got) + 1
        /\ got'[Len(got) + 1] = [read |-> k, value |-> value]
        /\ \A i \in 1..Len(got) : got'[i] = got[i]
    BY <1>a, <1>t, <2>1, Pushed DEF Answer
  <2>3. \A i \in 1..Len(got) : got[i].read = i - 1 /\ Fits(got[i].value, i, failed')
    BY <1>a, <1>f, <1>t DEF AnswersInv
  <2>4. got'[k + 1].read = (k + 1) - 1 /\ Fits(got'[k + 1].value, k + 1, failed')
    BY <1>a, <2>2
  <2>5. \A i \in 1..Len(got') : i \in 1..Len(got) \/ i = k + 1
    BY <1>a, <2>2
  <2> QED
    BY <1>a, <2>2, <2>3, <2>4, <2>5
<1>k. ASSUME UNCHANGED <<got, reader, writer, queue, failed>>
      PROVE  AnswersInv'
  BY <1>k, <1>t DEF AnswersInv, Fits
<1> USE DEF fifo, flow, stream, ends, output
<1>v. Len(got) = IF reader <= writer THEN reader ELSE writer
  BY <1>t DEF AnswersInv
<1>1. CASE Read
  <2>1. reader' = reader + 1 /\ UNCHANGED <<writer, queue, failed>>
    BY <1>1 DEF Read
  <2>2. CASE writer > reader
    <3>1. Answer(reader, queue[reader]) /\ writer = reader + 1 /\ Len(got) = reader
      BY <1>1, <1>t, <1>v, <2>2 DEF Read, CountsInv
    <3>2. Fits(queue[reader], reader + 1, failed')
      BY <1>t, <2>1, <3>1 DEF AnswersInv
    <3>3. queue[reader] \in Values
      BY <3>2 DEF Fits
    <3>4. /\ Len(got') = reader + 1
          /\ \A i \in 1..Len(got') :
               got'[i].read = i - 1 /\ Fits(got'[i].value, i, failed')
      BY <1>a, <1>t, <2>1, <3>1, <3>2, <3>3
    <3> QED
      BY <1>t, <2>1, <3>1, <3>4 DEF AnswersInv
  <2>3. CASE ~(writer > reader)
    <3>1. got' = got /\ Len(got) = writer
      BY <1>1, <1>t, <1>v, <2>3 DEF Read
    <3> QED
      BY <1>t, <2>1, <2>3, <3>1 DEF AnswersInv, Fits
  <2> QED
    BY <2>2, <2>3
<1>g. ASSUME NEW value, value \in Values, reader > writer,
             Answer(writer, value), Fits(value, writer + 1, failed'), failed => failed',
             writer' = writer + 1, reader' = reader
      PROVE  AnswersInv'
  <2>1. writer \in 0..MaxReads /\ Len(got) = writer
    BY <1>g, <1>t, <1>v
  <2>2. /\ Len(got') = writer + 1
        /\ \A i \in 1..Len(got') : got'[i].read = i - 1 /\ Fits(got'[i].value, i, failed')
    BY <1>a, <1>g, <2>1
  <2>3. reader' >= writer' /\ ~(writer' = reader' + 1)
    BY <1>g, <1>t
  <2> QED
    BY <1>g, <1>t, <2>2, <2>3 DEF AnswersInv
<1>h. ASSUME NEW value, writer = reader, writer' = writer + 1, reader' = reader,
             got' = got, queue' = [queue EXCEPT ![writer] = value],
             Fits(value, writer + 1, failed'), failed' = failed
      PROVE  AnswersInv'
  <2>1. queue'[reader'] = value
    BY <1>h, <1>t, StreamAssumption DEF TypeOK
  <2>2. Len(got') = reader'
    BY <1>h, <1>v, <1>t
  <2>3. \A i \in 1..Len(got') : got'[i].read = i - 1 /\ Fits(got'[i].value, i, failed')
    BY <1>h, <1>t DEF AnswersInv
  <2> QED
    BY <1>h, <1>t, <2>1, <2>2, <2>3 DEF AnswersInv
<1>2. CASE ProcessItem
  <2>1. /\ ~failed /\ ~failed' /\ failed' = failed /\ reader' = reader /\ writer' = writer + 1
        /\ writer = decoded /\ writer <= reader /\ decoded + 1 \in 1..Items
    BY <1>2, ItemFacts DEF ProcessItem, OnData
  <2>2. decoded + 1 \in Values /\ Fits(decoded + 1, writer + 1, failed')
    BY <2>1, StreamAssumption DEF Fits, Values
  <2>3. CASE reader > writer
    <3>1. Answer(writer, decoded + 1)
      BY <1>2, <2>3 DEF ProcessItem, OnData
    <3> QED
      BY <1>g, <2>1, <2>2, <2>3, <3>1
  <2>4. CASE ~(reader > writer)
    <3>1. got' = got /\ queue' = [queue EXCEPT ![writer] = decoded + 1]
      BY <1>2, <2>4 DEF ProcessItem, OnData
    <3>2. writer = reader
      BY <1>t, <2>1, <2>4
    <3> QED
      BY <1>h, <2>1, <2>2, <3>1, <3>2
  <2> QED
    BY <2>3, <2>4
<1>3. CASE OnEof
  <2>1. /\ failed' = failed /\ reader' = reader /\ writer' = writer + 1
        /\ ~closed /\ reading /\ arrived = Units * Items /\ stack = <<>>
    BY <1>3 DEF OnEof, OnData, Idle
  <2>2. ~paused
    BY <2>1 DEF SocketInv, FramesInv
  <2>3. ~failed => writer >= Items
    <3>1. ~failed => decoded = Items
      BY <1>t, <2>1, <2>2, Whole DEF SocketInv, BufferInv
    <3> QED
      BY <1>t, <3>1 DEF CountsInv
  <2>4. Eof \in Values /\ Fits(Eof, writer + 1, failed')
    <3>1. Eof \in Values
      BY DEF Values
    <3>2. ~failed' => writer + 1 > Items
      BY <1>t, <2>1, <2>3
    <3> QED
      BY <3>1, <3>2 DEF Fits
  <2>5. CASE reader > writer
    <3>1. Answer(writer, Eof)
      BY <1>3, <2>5 DEF OnEof, OnData
    <3> QED
      BY <1>g, <2>1, <2>4, <2>5, <3>1
  <2>6. CASE ~(reader > writer)
    <3>1. got' = got /\ queue' = [queue EXCEPT ![writer] = Eof]
      BY <1>3, <2>6 DEF OnEof, OnData
    <3>2. writer = reader
      BY <1>t, <2>1, <2>2, <2>6 DEF CountsInv
    <3> QED
      BY <1>h, <2>1, <2>4, <3>1, <3>2
  <2> QED
    BY <2>5, <2>6
<1>4. CASE ProcessBadItem \/ OnError
  <2>1. failed' /\ reader' = reader /\ queue' = queue
    BY <1>4 DEF ProcessBadItem, OnError, OnDataError
  <2>2. Err \in Values /\ Fits(Err, writer + 1, failed')
    BY <2>1 DEF Fits, Values
  <2>3. CASE reader > writer
    <3>1. Answer(writer, Err) /\ writer' = writer + 1
      BY <1>4, <2>3 DEF ProcessBadItem, OnError, OnDataError
    <3> QED
      BY <1>g, <2>1, <2>2, <2>3, <3>1
  <2>4. CASE ~(reader > writer)
    <3>1. got' = got /\ writer' = writer
      BY <1>4, <2>4 DEF ProcessBadItem, OnError, OnDataError
    <3> QED
      BY <1>t, <2>1, <3>1 DEF AnswersInv, Fits
  <2> QED
    BY <2>3, <2>4
<1>5. CASE CallbackReturns \/ ProcessWantsMore \/ StartReading \/ OutputEnded
  <2>1. UNCHANGED <<got, reader, writer, queue, failed>>
    BY <1>5 DEF CallbackReturns, ProcessWantsMore, StartReading, OutputEnded
  <2> QED
    BY <1>k, <2>1
<1>6. CASE OnChunk \/ ShutdownAnswered \/ Write \/ WriteEnd \/ UNCHANGED vars
  <2>1. UNCHANGED <<got, reader, writer, queue, failed>>
    BY <1>6 DEF OnChunk, ShutdownAnswered, Write, WriteEnd, vars
  <2> QED
    BY <1>k, <2>1
<1> QED
  BY <1>1, <1>2, <1>3, <1>4, <1>5, <1>6 DEF Next, HandlerStep, PeerStep

-----------------------------------------------------------------------------
\* A close has both ends behind it and its own shutdown.
LEMMA ClosesStep ==
  ASSUME SocketInv, [Next]_vars
  PROVE  ClosesInv'
<1> DEFINE EndedRuns == \E i \in 1..Len(stack) : stack[i] = "ended"
<1>t. /\ TypeOK /\ ClosesInv /\ closes \in Nat /\ answered \in Nat /\ shutdowns \in Nat
      /\ Handled \in Int /\ Handled = answered - (IF EndedRuns THEN 1 ELSE 0)
  BY DEF SocketInv, TypeOK, Handled
<1>h. Handled' = answered' - (IF EndedRuns' THEN 1 ELSE 0)
  BY DEF Handled
<1>k. ASSUME UNCHANGED <<ends, answered>>, EndedRuns' => EndedRuns
      PROVE  ClosesInv'
  BY <1>h, <1>k, <1>t DEF ClosesInv, ends
<1> HIDE DEF EndedRuns
<1> USE DEF fifo, flow, stream, ends, output
<1>1. CASE Read
  <2>1. UNCHANGED <<ends, answered>>
    BY <1>1 DEF Read
  <2>2. EndedRuns' => EndedRuns
    BY <1>1, <1>t, FramesMove DEF EndedRuns, Frames
  <2> QED
    BY <1>k, <2>1, <2>2
<1>2. CASE CallbackReturns \/ StartReading \/ Write \/ WriteEnd \/ UNCHANGED vars
  <2>1. UNCHANGED <<ends, answered>>
    BY <1>2 DEF CallbackReturns, StartReading, Write, WriteEnd, vars
  <2>2. EndedRuns' => EndedRuns
    BY <1>2, <1>t, FramesMove DEF EndedRuns, Frames
  <2> QED
    BY <1>k, <2>1, <2>2
<1>3. CASE ProcessWantsMore \/ ProcessItem \/ ProcessBadItem
  <2>1. UNCHANGED <<ends, answered>>
    BY <1>3 DEF ProcessWantsMore, ProcessItem, ProcessBadItem
  <2>2. EndedRuns' => EndedRuns
    BY <1>3, <1>t, FramesMove DEF EndedRuns, Frames
  <2> QED
    BY <1>k, <2>1, <2>2
<1>4. CASE OnChunk
  <2>1. UNCHANGED <<ends, answered>> /\ stack' = <<"onRead">>
    BY <1>4 DEF OnChunk
  <2>2. ~EndedRuns'
    BY <2>1 DEF EndedRuns
  <2> QED
    BY <1>k, <2>1, <2>2
<1>5. CASE OnEof \/ OnError
  <2>1. /\ ~closed /\ inEnd' /\ UNCHANGED <<outEnd, answered>>
        /\ IF outEnd THEN closed' = TRUE /\ closes' = closes + 1
                     ELSE UNCHANGED <<closed, closes>>
    BY <1>5 DEF OnEof, OnError, Ended, CheckClose
  <2>2. ~EndedRuns' /\ ~EndedRuns
    BY <1>5, <1>t, FramesMove DEF EndedRuns, Frames
  <2>3. closes = 0 /\ Handled' = Handled
    BY <1>h, <1>t, <2>1, <2>2 DEF ClosesInv
  <2> QED
    BY <1>t, <2>1, <2>3 DEF ClosesInv
<1>6. CASE ShutdownAnswered
  <2>1. /\ stack = <<>> /\ stack' = <<"ended", "callback">> /\ answered' = answered + 1
        /\ UNCHANGED ends
    BY <1>6 DEF ShutdownAnswered, Idle
  <2>2. EndedRuns' /\ ~EndedRuns
    BY <2>1 DEF EndedRuns
  <2>3. Handled' = Handled
    BY <1>h, <1>t, <2>1, <2>2
  <2> QED
    BY <1>t, <2>1, <2>3 DEF ClosesInv
<1>7. CASE OutputEnded
  <2>1. /\ stack # <<>> /\ stack[Len(stack)] = "ended" /\ stack' = Front(stack)
        /\ UNCHANGED <<inEnd, answered>> /\ outEnd'
        /\ IF inEnd THEN closed' = TRUE /\ closes' = closes + 1
                    ELSE UNCHANGED <<closed, closes>>
    BY <1>7 DEF OutputEnded, Running, Last, CheckClose
  <2>2. Len(stack) \in 1..Len(stack) /\ Len(stack') = Len(stack) - 1
    BY <1>t, <2>1, StackFacts DEF Frames
  <2>3. Len(stack) = 1
    BY <2>1, <2>2 DEF SocketInv, FramesInv
  <2>4. EndedRuns /\ ~EndedRuns'
    BY <2>1, <2>2, <2>3 DEF EndedRuns
  <2>5. Handled' = Handled + 1
    BY <1>h, <1>t, <2>1, <2>4
  <2> QED
    BY <1>t, <2>1, <2>4, <2>5 DEF ClosesInv
<1> QED
  BY <1>1, <1>2, <1>3, <1>4, <1>5, <1>6, <1>7 DEF Next, HandlerStep, PeerStep

-----------------------------------------------------------------------------
\* The types, but for the stack and what has been answered.
PlainTypes ==
  /\ reader \in 0..MaxReads /\ writer \in Nat
  /\ queue \in [0..(MaxReads + Items + 1) -> Values \cup {Nothing}]
  /\ paused \in BOOLEAN /\ reading \in BOOLEAN /\ inEnd \in BOOLEAN
  /\ outEnd \in BOOLEAN /\ closed \in BOOLEAN /\ failed \in BOOLEAN
  /\ bad \in 1..(Items + 1)
  /\ arrived \in 0..(Units * Items) /\ decoded \in 0..Items
  /\ closes \in Nat /\ writes \in 0..MaxWrites
  /\ shutdowns \in 0..MaxWrites /\ answered \in 0..shutdowns

\* The type invariant, for the variables but the stack and the answers.
LEMMA PlainStep ==
  ASSUME SocketInv, [Next]_vars
  PROVE  PlainTypes'
<1>t. PlainTypes
  BY DEF SocketInv, TypeOK, PlainTypes
<1>v. /\ MaxReads \in Nat /\ MaxWrites \in Nat /\ Items \in Nat /\ Units * Items \in Nat
      /\ Eof \in Values /\ \A k \in 1..Items : k \in Values
  BY StreamAssumption DEF Values
<1>p. ASSUME NEW on \in BOOLEAN, Pause(on) PROVE paused' \in BOOLEAN /\ reading' \in BOOLEAN
  BY <1>p, <1>t DEF Pause, PlainTypes
<1>d. ASSUME NEW value \in Values, NEW rest, NEW stopped, NEW on \in BOOLEAN,
             OnData(value, rest, stopped, on)
      PROVE  /\ writer' \in Nat /\ paused' \in BOOLEAN /\ reading' \in BOOLEAN
             /\ queue' \in [0..(MaxReads + Items + 1) -> Values \cup {Nothing}]
  <2>1. writer' \in Nat /\ ((paused' = paused /\ reading' = on) \/ Pause(on))
    BY <1>d, <1>t DEF OnData, PlainTypes
  <2>2. queue' = queue \/ queue' = [queue EXCEPT ![writer] = value]
    BY <1>d DEF OnData
  <2>3. queue' \in [0..(MaxReads + Items + 1) -> Values \cup {Nothing}]
    BY <1>t, <2>2 DEF PlainTypes
  <2>4. paused' \in BOOLEAN /\ reading' \in BOOLEAN
    BY <1>p, <1>t, <2>1 DEF PlainTypes
  <2> QED
    BY <2>1, <2>3, <2>4
<1>e. ASSUME NEW rest, OnDataError(rest)
      PROVE  writer' \in Nat /\ failed' = TRUE /\ queue' = queue
  BY <1>e, <1>t DEF OnDataError, PlainTypes
<1>c. ASSUME NEW in, NEW out, CheckClose(in, out) PROVE closed' \in BOOLEAN /\ closes' \in Nat
  <2>1. (closed' = TRUE \/ closed' = closed) /\ (closes' = closes + 1 \/ closes' = closes)
    BY <1>c DEF CheckClose
  <2>2. closed \in BOOLEAN /\ closes \in Nat
    BY <1>t DEF PlainTypes
  <2>3. closed' \in BOOLEAN
    BY <2>1, <2>2
  <2>4. closes' \in Nat
    BY <2>1, <2>2
  <2> QED
    BY <2>3, <2>4
<1> USE DEF fifo, flow, stream, ends, output
<1>1. CASE Read
  <2>1. /\ reader' \in 0..MaxReads
        /\ UNCHANGED <<writer, queue, stream, ends, output, failed>>
    BY <1>1, <1>t, <1>v DEF Read, PlainTypes
  <2>2. paused' \in BOOLEAN /\ reading' \in BOOLEAN
    BY <1>1, <1>t DEF Read, Unpause, PlainTypes
  <2> QED
    BY <1>t, <2>1, <2>2 DEF PlainTypes
<1>2. CASE CallbackReturns \/ ProcessWantsMore \/ UNCHANGED vars
  <2>1. UNCHANGED <<fifo, flow, stream, ends, output, failed>>
    BY <1>2 DEF CallbackReturns, ProcessWantsMore, vars
  <2> QED
    BY <1>t, <2>1 DEF PlainTypes
<1>3. CASE StartReading
  <2>1. UNCHANGED <<fifo, paused, stream, ends, output, failed>> /\ reading' \in BOOLEAN
    BY <1>3, <1>t DEF StartReading, PlainTypes
  <2> QED
    BY <1>t, <2>1 DEF PlainTypes
<1>4. CASE OutputEnded
  <2>1. /\ UNCHANGED <<fifo, flow, stream, inEnd, output, failed>> /\ outEnd' \in BOOLEAN
        /\ CheckClose(inEnd, TRUE)
    BY <1>4 DEF OutputEnded
  <2>2. closed' \in BOOLEAN /\ closes' \in Nat
    BY <1>c, <2>1
  <2> QED
    BY <1>t, <2>1, <2>2 DEF PlainTypes
<1>5. CASE ProcessItem
  <2>1. decoded' \in 0..Items /\ decoded + 1 \in Values
    BY <1>5, <1>v, ItemFacts DEF ProcessItem
  <2>2. OnData(decoded + 1, stack, Processed, reading) /\ reading \in BOOLEAN
    BY <1>5, <1>t DEF ProcessItem, PlainTypes
  <2>3. /\ writer' \in Nat /\ paused' \in BOOLEAN /\ reading' \in BOOLEAN
        /\ queue' \in [0..(MaxReads + Items + 1) -> Values \cup {Nothing}]
    BY <1>d, <2>1, <2>2
  <2>4. UNCHANGED <<reader, bad, arrived, ends, output, failed>>
    BY <1>5 DEF ProcessItem
  <2> QED
    BY <1>t, <2>1, <2>3, <2>4 DEF PlainTypes
<1>6. CASE ProcessBadItem
  <2>1. OnDataError(Processed) /\ UNCHANGED <<reader, flow, stream, ends, output>>
    BY <1>6 DEF ProcessBadItem
  <2>2. writer' \in Nat /\ failed' = TRUE /\ queue' = queue
    BY <1>e, <2>1
  <2> QED
    BY <1>t, <2>1, <2>2 DEF PlainTypes
<1>7. CASE OnChunk
  <2>1. /\ UNCHANGED <<fifo, flow, bad, decoded, ends, output, failed>>
        /\ \E n \in 1..(Units * Items - arrived) : arrived' = arrived + n
    BY <1>7 DEF OnChunk
  <2>2. arrived' \in 0..(Units * Items)
    BY <1>t, <1>v, <2>1 DEF PlainTypes
  <2> QED
    BY <1>t, <2>1, <2>2 DEF PlainTypes
<1>8. CASE OnEof
  <2>1. /\ OnData(Eof, <<>>, <<>>, FALSE) /\ CheckClose(TRUE, outEnd) /\ inEnd' = TRUE
        /\ UNCHANGED <<reader, stream, output, failed, outEnd>>
    BY <1>8 DEF OnEof, Ended
  <2>2. closed' \in BOOLEAN /\ closes' \in Nat
    BY <1>c, <2>1
  <2>3. /\ writer' \in Nat /\ paused' \in BOOLEAN /\ reading' \in BOOLEAN
        /\ queue' \in [0..(MaxReads + Items + 1) -> Values \cup {Nothing}]
    BY <1>d, <1>v, <2>1
  <2> QED
    BY <1>t, <2>1, <2>2, <2>3 DEF PlainTypes
<1>9. CASE OnError
  <2>1. /\ OnDataError(<<>>) /\ CheckClose(TRUE, outEnd) /\ inEnd' = TRUE
        /\ reading' = FALSE /\ UNCHANGED <<reader, paused, stream, output, outEnd>>
    BY <1>9 DEF OnError, Ended
  <2>2. closed' \in BOOLEAN /\ closes' \in Nat
    BY <1>c, <2>1
  <2>3. writer' \in Nat /\ failed' = TRUE /\ queue' = queue
    BY <1>e, <2>1
  <2> QED
    BY <1>t, <2>1, <2>2, <2>3 DEF PlainTypes
<1>10. CASE ShutdownAnswered
  <2>1. /\ UNCHANGED <<fifo, flow, stream, ends, writes, shutdowns, failed>>
        /\ answered < shutdowns /\ answered' = answered + 1
    BY <1>10 DEF ShutdownAnswered
  <2> QED
    BY <1>t, <1>v, <2>1 DEF PlainTypes
<1>11. CASE Write
  <2>1. /\ UNCHANGED <<fifo, flow, stream, ends, shutdowns, answered, failed>>
        /\ writes' \in 0..MaxWrites
    BY <1>11, <1>t, <1>v DEF Write, PlainTypes
  <2> QED
    BY <1>t, <2>1 DEF PlainTypes
<1>12. CASE WriteEnd
  <2>1. /\ UNCHANGED <<fifo, flow, stream, ends, writes, answered, failed>>
        /\ shutdowns' \in 0..MaxWrites /\ shutdowns' = shutdowns + 1
    BY <1>12, <1>t, <1>v DEF WriteEnd, PlainTypes
  <2> QED
    BY <1>t, <1>v, <2>1 DEF PlainTypes
<1> QED
  BY <1>1, <1>2, <1>3, <1>4, <1>5, <1>6, <1>7, <1>8, <1>9, <1>10, <1>11, <1>12
     DEF Next, HandlerStep, PeerStep

\* The type of the stack.
LEMMA StackStep ==
  ASSUME SocketInv, [Next]_vars
  PROVE  stack' \in Seq(Frames)
<1>t. TypeOK /\ stack \in Seq(Frames)
  BY DEF SocketInv, TypeOK
<1>f. {"onRead", "unpause", "start", "callback", "ended"} = Frames
  BY DEF Frames
<1>1. CASE stack' = stack \/ stack' = <<>>
  <2>1. <<>> \in Seq(Frames)
    OBVIOUS
  <2> QED
    BY <1>1, <1>t, <2>1
<1>2. ASSUME NEW x \in Frames, stack' = Append(stack, x) \/ stack' = <<x>>
      PROVE  stack' \in Seq(Frames)
  <2>1. <<x>> \in Seq(Frames) /\ Append(stack, x) \in Seq(Frames)
    BY <1>t
  <2> QED
    BY <1>2, <2>1
<1>3. CASE stack # <<>> /\ stack' = Front(stack)
  BY <1>3, <1>t, StackFacts DEF Frames
<1>4. CASE InProcess /\ (stack' = Processed \/ stack' = Append(Processed, "callback"))
  BY <1>4, <1>t, ProcessedFacts
<1>5. CASE stack' = <<"ended", "callback">>
  BY <1>5, <1>f
<1>6. CASE stack' = Append(<<>>, "callback")
  BY <1>6, <1>f
<1>7. CASE Read
  BY <1>1, <1>2, <1>7, <1>f DEF Read, Unpause
<1>8. CASE CallbackReturns \/ StartReading \/ OutputEnded
  BY <1>3, <1>8 DEF CallbackReturns, StartReading, OutputEnded, Running
<1>9. CASE ProcessWantsMore \/ ProcessItem \/ ProcessBadItem
  BY <1>1, <1>2, <1>4, <1>9, <1>f
     DEF ProcessWantsMore, ProcessItem, ProcessBadItem, OnData, OnDataError
<1>10. CASE OnChunk \/ ShutdownAnswered
  BY <1>2, <1>5, <1>10, <1>f DEF OnChunk, ShutdownAnswered
<1>11. CASE OnEof \/ OnError
  BY <1>1, <1>6, <1>11 DEF OnEof, OnError, OnData, OnDataError
<1>12. CASE Write \/ WriteEnd \/ UNCHANGED vars
  BY <1>1, <1>12 DEF Write, WriteEnd, vars
<1> QED
  BY <1>7, <1>8, <1>9, <1>10, <1>11, <1>12 DEF Next, HandlerStep, PeerStep

\* The type of the answers.
LEMMA GotStep ==
  ASSUME SocketInv, [Next]_vars
  PROVE  got' \in Seq([read : 0..MaxReads, value : Values])
<1>t. /\ got \in Seq([read : 0..MaxReads, value : Values])
      /\ reader \in 0..MaxReads /\ writer \in Nat /\ MaxReads \in Nat
  BY StreamAssumption DEF SocketInv, TypeOK
<1>1. ASSUME NEW k \in 0..MaxReads, NEW value \in Values, Answer(k, value)
      PROVE  got' \in Seq([read : 0..MaxReads, value : Values])
  BY <1>1, <1>t DEF Answer
<1>w. /\ reader > writer => writer \in 0..MaxReads
      /\ Eof \in Values /\ Err \in Values
  BY <1>t DEF Values
<1>2. CASE Read
  <2>1. CASE writer > reader
    <3>1. writer = reader + 1 /\ Answer(reader, queue[reader])
      BY <1>2, <1>t, <2>1 DEF Read, SocketInv, CountsInv
    <3>2. queue[reader] \in Values
      BY <3>1 DEF SocketInv, AnswersInv, Fits
    <3> QED
      BY <1>1, <1>t, <3>1, <3>2
  <2>2. CASE ~(writer > reader)
    BY <1>2, <1>t, <2>2 DEF Read
  <2> QED
    BY <2>1, <2>2
<1>3. CASE ProcessItem
  <2>1. decoded + 1 \in Values
    BY <1>3, ItemFacts DEF Values
  <2>2. (reader > writer /\ Answer(writer, decoded + 1)) \/ got' = got
    BY <1>3 DEF ProcessItem, OnData
  <2> QED
    BY <1>1, <1>t, <1>w, <2>1, <2>2
<1>4. CASE ProcessBadItem \/ OnError
  <2>1. (reader > writer /\ Answer(writer, Err)) \/ got' = got
    BY <1>4 DEF ProcessBadItem, OnError, OnDataError
  <2> QED
    BY <1>1, <1>t, <1>w, <2>1
<1>5. CASE OnEof
  <2>1. (reader > writer /\ Answer(writer, Eof)) \/ got' = got
    BY <1>5 DEF OnEof, OnData
  <2> QED
    BY <1>1, <1>t, <1>w, <2>1
<1>6. CASE CallbackReturns \/ ProcessWantsMore \/ StartReading \/ OutputEnded
  BY <1>6, <1>t DEF CallbackReturns, ProcessWantsMore, StartReading, OutputEnded
<1>7. CASE OnChunk \/ ShutdownAnswered \/ Write \/ WriteEnd \/ UNCHANGED vars
  BY <1>7, <1>t DEF OnChunk, ShutdownAnswered, Write, WriteEnd, vars
<1> QED
  BY <1>2, <1>3, <1>4, <1>5, <1>6, <1>7 DEF Next, HandlerStep, PeerStep

-----------------------------------------------------------------------------
\* The invariant at the start, for each step, and throughout.
LEMMA SocketInit == Init => SocketInv
<1> SUFFICES ASSUME Init PROVE SocketInv
  OBVIOUS
<1>1. TypeOK
  <2>1. stack \in Seq(Frames) /\ got \in Seq([read : 0..MaxReads, value : Values])
    BY DEF Init
  <2>2. queue \in [0..(MaxReads + Items + 1) -> Values \cup {Nothing}]
    BY DEF Init
  <2>3. /\ paused \in BOOLEAN /\ reading \in BOOLEAN /\ inEnd \in BOOLEAN
        /\ outEnd \in BOOLEAN /\ closed \in BOOLEAN /\ failed \in BOOLEAN
    BY DEF Init
  <2>4. Units * Items \in Nat
    BY StreamAssumption
  <2>5. /\ reader \in 0..MaxReads /\ writer \in Nat /\ bad \in 1..(Items + 1)
        /\ arrived \in 0..(Units * Items) /\ decoded \in 0..Items
        /\ closes \in Nat /\ writes \in 0..MaxWrites
        /\ shutdowns \in 0..MaxWrites /\ answered \in 0..shutdowns
    BY <2>4, StreamAssumption DEF Init
  <2> QED
    <3>1. PlainTypes
      BY <2>2, <2>3, <2>5 DEF PlainTypes
    <3> QED
      BY <2>1, <3>1 DEF PlainTypes, TypeOK
<1>2. FramesInv
  <2>1. stack = <<>> /\ paused = TRUE /\ reading = FALSE
    BY DEF Init
  <2>2. \A i \in 1..Len(stack) : FALSE
    BY <2>1
  <2> QED
    BY <2>1, <2>2 DEF FramesInv
<1>3. BufferInv
  BY StreamAssumption DEF Init, BufferInv
<1>4. CountsInv
  BY DEF Init, CountsInv
<1>5. AnswersInv
  BY DEF Init, AnswersInv
<1>6. ClosesInv
  BY DEF Init, ClosesInv, Handled
<1> QED
  BY <1>1, <1>2, <1>3, <1>4, <1>5, <1>6 DEF SocketInv

LEMMA SocketStep == SocketInv /\ [Next]_vars => SocketInv'
<1> SUFFICES ASSUME SocketInv, [Next]_vars PROVE SocketInv'
  OBVIOUS
<1>1. TypeOK'
  BY PlainStep, StackStep, GotStep DEF TypeOK, PlainTypes
<1> QED
  BY <1>1, FramesStep, BufferStep, CountsStep, AnswersStep, ClosesStep DEF SocketInv

LEMMA SocketInvariant == Spec => []SocketInv
BY SocketInit, SocketStep, PTL DEF Spec

-----------------------------------------------------------------------------
\* Reads are called back in their order with the values in theirs, the end after
\* the last (onData and read of wrap-socket.js), for any chunks and any nesting.
THEOREM ReadInOrder == Spec => []ReadsInOrder
<1>1. SocketInv => ReadsInOrder
  BY DEF SocketInv, AnswersInv, Fits, ReadsInOrder
<1> QED
  BY <1>1, SocketInvariant, PTL

\* One decoded value at most waits for a read, one handler at a time decodes, and
\* the stream runs exactly while the wrapper is not paused: the check of paused
\* before socket.readStart (wrap-socket.js) is what keeps the two flags together.
THEOREM BackPressureHolds == Spec => []BackPressure
<1>1. SocketInv => BackPressure
  <2> SUFFICES ASSUME SocketInv PROVE BackPressure
    OBVIOUS
  <2>1. \A i, j \in 1..Len(stack) :
          stack[i] \in {"onRead", "unpause"} /\ stack[j] \in {"onRead", "unpause"} => i = j
    BY DEF SocketInv, FramesInv, Flowing
  <2>2. Idle /\ ~inEnd /\ ~failed => reading = ~paused
    BY DEF SocketInv, FramesInv, Idle
  <2> QED
    BY <2>1, <2>2 DEF SocketInv, CountsInv, BackPressure
<1> QED
  BY <1>1, SocketInvariant, PTL

\* As many closes as shutdowns at most, and none before both ends.
THEOREM ClosedAfterEnds == Spec => []ClosedOnce
<1>1. SocketInv => ClosedOnce
  BY DEF SocketInv, TypeOK, ClosesInv, Handled, ClosedOnce
<1> QED
  BY <1>1, SocketInvariant, PTL

-----------------------------------------------------------------------------
\* The decoder of http-codec.js: what a peer sends, and where the decoder stands in it.

\* The units of the stream.
UnitSet == [kind : {"start", "head", "byte", "size", "line", "break"}, message : Nat, n : Nat]
\* The units of the body of message m.
BodyUnits(m) == {x \in UnitSet : x.message = m /\ x.kind \in {"byte", "size", "line", "break"}}

\* Message m starts at unit p, or p is behind a stream of k messages and m behind
\* the last of them.
StartsAt(w, p, m, k) ==
  \/ p = Len(w) + 1 /\ m = k + 1
  \/ p \in 1..Len(w) /\ w[p] = Unit("start", m, 1)

\* The n units from p on are bytes.
BytesFrom(w, p, n) == \A u \in p..(p + n - 1) : u <= Len(w) /\ w[u].kind = "byte"

\* What follows the head at unit u is the body it announces, and after it the next
\* message, or the end of the stream of messages up to k.
BodyAfter(w, ms, u, k) ==
  LET m == w[u].message
      message == ms[m]
  IN /\ ModeAfter(message) = "empty" => StartsAt(w, u + 1, m + 1, k)
     /\ ModeAfter(message) = "counted" =>
          /\ message.length \in Nat
          /\ BytesFrom(w, u + 1, message.length)
          /\ StartsAt(w, u + 1 + message.length, m + 1, k)
     /\ ModeAfter(message) = "raw" => \A v \in (u + 1)..Len(w) : w[v].kind = "byte"
     /\ ModeAfter(message) = "chunked" =>
          /\ u + 1 <= Len(w)
          /\ w[u + 1].n = 0 => /\ u + 3 <= Len(w) /\ w[u + 2].kind = "line"
                               /\ w[u + 3].kind = "break"
                               /\ StartsAt(w, u + 4, m + 1, k)

\* The units w are those of the messages j..k, in order, each with its head behind
\* its start and its body behind its head.  This is all the proofs about the decoder
\* use of what a peer sends.
Grammar(w, ms, j, k) ==
  /\ w \in Seq(UnitSet)
  /\ StartsAt(w, 1, j, k)
  /\ \A u \in 1..Len(w) :
       /\ w[u].message \in j..k
       /\ \A v \in 1..Len(w) : u <= v => w[u].message <= w[v].message
       /\ w[u].kind = "start" => /\ u < Len(w)
                                 /\ w[u + 1].kind \in {"start", "head"}
                                 /\ w[u + 1].message = w[u].message
       /\ w[u].kind = "head" => BodyAfter(w, ms, u, k)

\* Every head sets one of four modes, and raw is the mode of a body that the end of
\* the connection ends.
LEMMA ModesAre ==
  ASSUME NEW message
  PROVE  /\ ModeAfter(message) \in {"empty", "chunked", "counted", "raw"}
         /\ Raw(message) <=> ModeAfter(message) = "raw"
         /\ ModeAfter(message) = "chunked" => message.chunked
         /\ ModeAfter(message) \in {"counted", "raw"} => ~message.chunked
BY DEF ModeAfter, Raw

\* One message more behind a stream of messages none of which is raw.
LEMMA Joined ==
  ASSUME NEW ms, NEW j \in Nat, NEW k \in Nat, 1 <= j, j <= k,
         \A m \in j..k : ModeAfter(ms[m]) # "raw",
         NEW w, Grammar(w, ms, j, k), NEW p, Grammar(p, ms, k + 1, k + 1)
  PROVE  Grammar(w \o p, ms, j, k + 1)
<1> DEFINE r == w \o p
           N == Len(w)
           P == Len(p)
<1>1. w \in Seq(UnitSet) /\ p \in Seq(UnitSet) /\ N \in Nat /\ P \in Nat
  BY DEF Grammar
<1>2. /\ r \in Seq(UnitSet) /\ Len(r) = N + P
      /\ \A u \in 1..N : r[u] = w[u]
      /\ \A u \in 1..P : r[u + N] = p[u]
  BY <1>1, ConcatFacts
<1> HIDE DEF r, N, P
<1>3. P >= 1 /\ p[1] = Unit("start", k + 1, 1)
  <2>1. StartsAt(p, 1, k + 1, k + 1)
    BY DEF Grammar
  <2>2. k + 1 # k + 1 + 1
    OBVIOUS
  <2> QED
    BY <1>1, <2>1, <2>2 DEF StartsAt, P
<1>4. ASSUME NEW u \in 1..(N + P) PROVE u \in 1..N \/ (u - N \in 1..P /\ u = (u - N) + N)
  BY <1>1
<1>5. \A u \in 1..P : u + N \in 1..(N + P) /\ u + N > N
  BY <1>1
<1>6. \A u \in 1..N : u \in 1..(N + P)
  BY <1>1
<1>7. ASSUME NEW x \in Nat, NEW m \in Nat, StartsAt(w, x, m, k)
      PROVE  StartsAt(r, x, m, k + 1)
  <2>1. CASE x = N + 1 /\ m = k + 1
    <3>1. r[1 + N] = p[1] /\ 1 + N = x /\ x \in 1..(N + P)
      BY <1>1, <1>2, <1>3, <2>1
    <3> QED
      BY <1>2, <1>3, <2>1, <3>1 DEF StartsAt
  <2>2. CASE x \in 1..N /\ w[x] = Unit("start", m, 1)
    BY <1>2, <1>6, <2>2 DEF StartsAt
  <2> QED
    BY <1>7, <2>1, <2>2 DEF StartsAt, N
<1>8. ASSUME NEW x \in Nat, NEW m \in Nat, StartsAt(p, x, m, k + 1)
      PROVE  StartsAt(r, x + N, m, k + 1)
  <2>1. CASE x = P + 1 /\ m = k + 1 + 1
    <3>1. x + N = N + P + 1
      BY <1>1, <2>1
    <3> QED
      BY <1>2, <2>1, <3>1 DEF StartsAt
  <2>2. CASE x \in 1..P /\ p[x] = Unit("start", m, 1)
    BY <1>2, <1>5, <2>2 DEF StartsAt
  <2> QED
    BY <1>8, <2>1, <2>2 DEF StartsAt, P
<1>9. StartsAt(r, 1, j, k + 1)
  <2>1. StartsAt(w, 1, j, k)
    BY DEF Grammar
  <2> QED
    BY <1>7, <2>1
<1>10. \A u \in 1..N : /\ w[u] \in UnitSet /\ w[u].message \in j..k
                       /\ w[u].message \in Nat /\ w[u].message <= k
  <2>1. \A u \in 1..N : w[u] \in UnitSet /\ w[u].message \in j..k
    BY <1>1 DEF Grammar, N
  <2> QED
    BY <2>1
<1>11. \A u \in 1..P : p[u] \in UnitSet /\ p[u].message = k + 1
  <2>1. \A u \in 1..P : p[u] \in UnitSet /\ p[u].message \in (k + 1)..(k + 1)
    BY <1>1 DEF Grammar, P
  <2> QED
    BY <2>1
<1>12. ASSUME NEW u \in 1..(N + P) PROVE r[u].message \in j..(k + 1)
  <2>1. CASE u \in 1..N
    <3>1. r[u].message \in j..k
      BY <1>2, <1>10, <2>1
    <3> QED
      BY <3>1
  <2>2. CASE u - N \in 1..P /\ u = (u - N) + N
    <3>1. r[u].message = k + 1
      BY <1>2, <1>11, <2>2
    <3> QED
      BY <3>1
  <2> QED
    BY <1>4, <2>1, <2>2
<1>13. ASSUME NEW u \in 1..(N + P), NEW v \in 1..(N + P), u <= v
       PROVE  r[u].message <= r[v].message
  <2>1. CASE v \in 1..N
    <3>1. u \in 1..N
      BY <1>1, <1>13, <2>1
    <3> QED
      BY <1>2, <1>13, <2>1, <3>1 DEF Grammar, N
  <2>2. CASE v - N \in 1..P /\ v = (v - N) + N
    <3>1. r[v].message = k + 1
      BY <1>2, <1>11, <2>2
    <3>2. r[u].message \in j..(k + 1)
      BY <1>12
    <3> QED
      BY <3>1, <3>2
  <2> QED
    BY <1>4, <2>1, <2>2
<1>14. ASSUME NEW u \in 1..(N + P), r[u].kind = "start"
       PROVE  /\ u < N + P
              /\ r[u + 1].kind \in {"start", "head"}
              /\ r[u + 1].message = r[u].message
  <2>1. CASE u \in 1..N
    <3>1. u < N /\ w[u + 1].kind \in {"start", "head"} /\ w[u + 1].message = w[u].message
      BY <1>2, <1>14, <2>1 DEF Grammar, N
    <3>2. u + 1 \in 1..N /\ u < N + P
      BY <1>1, <2>1, <3>1
    <3> QED
      BY <1>2, <2>1, <3>1, <3>2
  <2>2. CASE u - N \in 1..P /\ u = (u - N) + N
    <3> DEFINE x == u - N
    <3>0. x \in 1..P /\ u = x + N /\ r[u] = p[x]
      BY <1>2, <2>2
    <3> HIDE DEF x
    <3>1. x < P /\ p[x + 1].kind \in {"start", "head"} /\ p[x + 1].message = p[x].message
      BY <1>14, <3>0 DEF Grammar, P
    <3>2. x + 1 \in 1..P /\ u < N + P /\ u + 1 = (x + 1) + N
      BY <1>1, <3>0, <3>1
    <3>3. r[u + 1] = p[x + 1]
      BY <1>2, <3>2
    <3> QED
      BY <3>0, <3>1, <3>2, <3>3
  <2> QED
    BY <1>4, <2>1, <2>2
<1>15. ASSUME NEW u \in 1..(N + P), r[u].kind = "head"
       PROVE  BodyAfter(r, ms, u, k + 1)
  <2>1. CASE u \in 1..N
    <3> DEFINE m == w[u].message
               c == ms[m].length
    <3>1. BodyAfter(w, ms, u, k) /\ r[u].message = m /\ m \in Nat /\ ModeAfter(ms[m]) # "raw"
      BY <1>2, <1>10, <1>15, <2>1 DEF Grammar, N
    <3>2. u \in Nat /\ u + 1 \in Nat /\ u + 4 \in Nat /\ m + 1 \in Nat
      BY <2>1, <3>1
    <3>3. ASSUME ModeAfter(ms[m]) = "empty" PROVE StartsAt(r, u + 1, m + 1, k + 1)
      BY <1>7, <3>1, <3>2, <3>3 DEF BodyAfter
    <3>4. ASSUME ModeAfter(ms[m]) = "counted"
          PROVE  /\ c \in Nat /\ BytesFrom(r, u + 1, c)
                 /\ StartsAt(r, u + 1 + c, m + 1, k + 1)
      <4>1. c \in Nat /\ BytesFrom(w, u + 1, c) /\ StartsAt(w, u + 1 + c, m + 1, k)
        BY <3>1, <3>4 DEF BodyAfter
      <4>2. StartsAt(r, u + 1 + c, m + 1, k + 1)
        <5>1. u + 1 + c \in Nat
          BY <4>1, <3>2
        <5> QED
          BY <1>7, <3>2, <4>1, <5>1
      <4>3. ASSUME NEW v \in (u + 1)..(u + 1 + c - 1) PROVE v <= Len(r) /\ r[v].kind = "byte"
        <5>1. v <= N /\ w[v].kind = "byte"
          BY <4>1 DEF BytesFrom, N
        <5>2. v \in 1..N /\ v <= N + P
          BY <1>1, <3>2, <5>1
        <5> QED
          BY <1>2, <5>1, <5>2
      <4> QED
        BY <4>1, <4>2, <4>3 DEF BytesFrom
    <3>5. ASSUME ModeAfter(ms[m]) = "chunked"
          PROVE  /\ u + 1 <= N + P
                 /\ r[u + 1].n = 0 => /\ u + 3 <= N + P /\ r[u + 2].kind = "line"
                                      /\ r[u + 3].kind = "break"
                                      /\ StartsAt(r, u + 4, m + 1, k + 1)
      <4>1. /\ u + 1 <= N
            /\ w[u + 1].n = 0 => /\ u + 3 <= N /\ w[u + 2].kind = "line"
                                 /\ w[u + 3].kind = "break"
                                 /\ StartsAt(w, u + 4, m + 1, k)
        BY <3>1, <3>5 DEF BodyAfter, N
      <4>2. u + 1 \in 1..N /\ u + 1 <= N + P
        BY <1>1, <3>2, <4>1
      <4>3. ASSUME r[u + 1].n = 0
            PROVE  /\ u + 3 <= N + P /\ r[u + 2].kind = "line" /\ r[u + 3].kind = "break"
                   /\ StartsAt(r, u + 4, m + 1, k + 1)
        <5>1. /\ u + 3 <= N /\ w[u + 2].kind = "line" /\ w[u + 3].kind = "break"
              /\ StartsAt(w, u + 4, m + 1, k)
          BY <1>2, <4>1, <4>2, <4>3
        <5>2. u + 2 \in 1..N /\ u + 3 \in 1..N /\ u + 3 <= N + P
          BY <1>1, <3>2, <5>1
        <5> QED
          BY <1>2, <1>7, <3>2, <5>1, <5>2
      <4> QED
        BY <4>2, <4>3
    <3> HIDE DEF m, c
    <3> QED
      BY <1>2, <3>1, <3>3, <3>4, <3>5 DEF BodyAfter, c
  <2>2. CASE u - N \in 1..P /\ u = (u - N) + N
    <3> DEFINE x == u - N
               m == k + 1
               c == ms[m].length
    <3>0. x \in 1..P /\ x \in Nat /\ u = x + N /\ r[u] = p[x] /\ p[x].message = m /\ m \in Nat
      BY <1>2, <1>11, <2>2
    <3> HIDE DEF x
    <3>1. BodyAfter(p, ms, x, m)
      BY <1>15, <3>0 DEF Grammar, P
    <3>2. /\ x + 1 \in Nat /\ x + 4 \in Nat /\ m + 1 \in Nat
          /\ x + 1 + N = u + 1 /\ x + 2 + N = u + 2 /\ x + 3 + N = u + 3 /\ x + 4 + N = u + 4
      BY <1>1, <3>0
    <3>3. ASSUME ModeAfter(ms[m]) = "empty" PROVE StartsAt(r, u + 1, m + 1, m)
      <4>1. StartsAt(p, x + 1, m + 1, m)
        BY <3>0, <3>1, <3>3 DEF BodyAfter
      <4> QED
        BY <1>8, <3>2, <4>1
    <3>4. ASSUME ModeAfter(ms[m]) = "counted"
          PROVE  /\ c \in Nat /\ BytesFrom(r, u + 1, c)
                 /\ StartsAt(r, u + 1 + c, m + 1, m)
      <4>1. c \in Nat /\ BytesFrom(p, x + 1, c) /\ StartsAt(p, x + 1 + c, m + 1, m)
        BY <3>0, <3>1, <3>4 DEF BodyAfter
      <4>2. x + 1 + c \in Nat
        BY <3>0, <4>1
      <4>3. StartsAt(r, u + 1 + c, m + 1, m)
        <5>1. (x + 1 + c) + N = u + 1 + c
          <6>1. \A y \in Nat : (x + 1 + y) + N = u + 1 + y
            BY <1>1, <3>0
          <6> QED
            BY <4>1, <6>1
        <5> QED
          BY <1>8, <3>2, <4>1, <4>2, <5>1
      <4>4. ASSUME NEW v \in (u + 1)..(u + 1 + c - 1) PROVE v <= Len(r) /\ r[v].kind = "byte"
        <5>1. v - N \in (x + 1)..(x + 1 + c - 1) /\ v = (v - N) + N
          <6>1. \A y \in Nat : \A z \in (x + N + 1)..(x + N + 1 + y - 1) :
                  z - N \in (x + 1)..(x + 1 + y - 1) /\ z = (z - N) + N
            <7>1. x \in Nat /\ N \in Nat
              BY <1>1, <3>0
            <7> QED
              BY <7>1
          <6> QED
            BY <3>0, <4>1, <6>1
        <5>2. v - N <= P /\ p[v - N].kind = "byte"
          BY <4>1, <5>1 DEF BytesFrom, P
        <5>3. v - N \in 1..P /\ v <= N + P
          BY <1>1, <3>0, <5>1, <5>2
        <5>4. r[v] = p[v - N]
          BY <1>2, <5>1, <5>3
        <5> QED
          BY <1>2, <5>2, <5>3, <5>4
      <4> QED
        BY <4>1, <4>3, <4>4 DEF BytesFrom
    <3>5. ASSUME ModeAfter(ms[m]) = "chunked"
          PROVE  /\ u + 1 <= N + P
                 /\ r[u + 1].n = 0 => /\ u + 3 <= N + P /\ r[u + 2].kind = "line"
                                      /\ r[u + 3].kind = "break"
                                      /\ StartsAt(r, u + 4, m + 1, m)
      <4>1. /\ x + 1 <= P
            /\ p[x + 1].n = 0 => /\ x + 3 <= P /\ p[x + 2].kind = "line"
                                 /\ p[x + 3].kind = "break"
                                 /\ StartsAt(p, x + 4, m + 1, m)
        BY <3>0, <3>1, <3>5 DEF BodyAfter, P
      <4>2. x + 1 \in 1..P /\ u + 1 <= N + P
        BY <1>1, <3>0, <4>1
      <4>3. r[u + 1] = p[x + 1]
        BY <1>2, <3>2, <4>2
      <4>4. ASSUME r[u + 1].n = 0
            PROVE  /\ u + 3 <= N + P /\ r[u + 2].kind = "line" /\ r[u + 3].kind = "break"
                   /\ StartsAt(r, u + 4, m + 1, m)
        <5>1. /\ x + 3 <= P /\ p[x + 2].kind = "line" /\ p[x + 3].kind = "break"
              /\ StartsAt(p, x + 4, m + 1, m)
          BY <4>1, <4>3, <4>4
        <5>2. x + 2 \in 1..P /\ x + 3 \in 1..P /\ u + 3 <= N + P
          <6>1. x + 3 <= P /\ u = x + N /\ x \in Nat
            BY <3>0, <5>1
          <6> QED
            BY <1>1, <6>1
        <5>3. r[u + 2] = p[x + 2] /\ r[u + 3] = p[x + 3]
          <6>1. r[(x + 2) + N] = p[x + 2] /\ r[(x + 3) + N] = p[x + 3]
            BY <1>2, <5>2
          <6> QED
            BY <3>2, <6>1
        <5>4. StartsAt(r, u + 4, m + 1, m)
          BY <1>8, <3>2, <5>1
        <5> QED
          BY <5>1, <5>2, <5>3, <5>4
      <4> QED
        BY <4>2, <4>4
    <3>6. ASSUME ModeAfter(ms[m]) = "raw", NEW v \in (u + 1)..(N + P) PROVE r[v].kind = "byte"
      <4>1. v - N \in (x + 1)..P /\ v - N \in 1..P /\ v = (v - N) + N
        BY <1>1, <3>0
      <4>2. p[v - N].kind = "byte"
        BY <3>0, <3>1, <3>6, <4>1 DEF BodyAfter, P
      <4>3. r[v] = p[v - N]
        BY <1>2, <4>1
      <4> QED
        BY <4>2, <4>3
    <3>7. r[u].message = m
      BY <3>0
    <3> HIDE DEF m, c
    <3>8. BodyAfter(r, ms, u, m)
      BY <1>2, <3>3, <3>4, <3>5, <3>6, <3>7 DEF BodyAfter, c
    <3> QED
      BY <3>8 DEF m
  <2> QED
    BY <1>4, <2>1, <2>2
<1>16. \A u \in 1..Len(r) :
         /\ r[u].message \in j..(k + 1)
         /\ \A v \in 1..Len(r) : u <= v => r[u].message <= r[v].message
         /\ r[u].kind = "start" => /\ u < Len(r)
                                   /\ r[u + 1].kind \in {"start", "head"}
                                   /\ r[u + 1].message = r[u].message
         /\ r[u].kind = "head" => BodyAfter(r, ms, u, k + 1)
  BY <1>2, <1>12, <1>13, <1>14, <1>15
<1> QED
  BY <1>2, <1>9, <1>16 DEF Grammar, r

\* A chunk of n bytes.
ChunkUnits(n, m) ==
  <<Unit("size", m, n), Unit("line", m, 0)>> \o [i \in 1..n |-> Unit("byte", m, i)]
    \o <<Unit("break", m, 0)>>

\* A chunk has the line of its size, its bytes and a line break.
LEMMA ChunkWorks ==
  ASSUME NEW m \in Nat, NEW n \in Nat
  PROVE  LET s == ChunkUnits(n, m)
         IN /\ s \in Seq(BodyUnits(m)) /\ Len(s) = n + 3
            /\ s[1] = Unit("size", m, n) /\ s[2].kind = "line"
            /\ n = 0 => s[3].kind = "break"
<1> DEFINE S == BodyUnits(m)
           a == <<Unit("size", m, n), Unit("line", m, 0)>>
           b == [i \in 1..n |-> Unit("byte", m, i)]
           c == <<Unit("break", m, 0)>>
           ab == a \o b
           s == ab \o c
<1>1. /\ Unit("size", m, n) \in S /\ Unit("line", m, 0) \in S /\ Unit("break", m, 0) \in S
      /\ \A i \in 1..n : Unit("byte", m, i) \in S
      /\ Unit("line", m, 0).kind = "line" /\ Unit("break", m, 0).kind = "break"
  BY DEF BodyUnits, UnitSet, Unit
<1>2. /\ a \in Seq(S) /\ Len(a) = 2 /\ a[1] = Unit("size", m, n) /\ a[2] = Unit("line", m, 0)
      /\ c \in Seq(S) /\ Len(c) = 1 /\ c[1] = Unit("break", m, 0)
  <2> HIDE DEF S
  <2> QED
    BY <1>1
<1>3. b \in Seq(S) /\ Len(b) = n
  <2>1. b \in [1..n -> S]
    BY <1>1
  <2> HIDE DEF S
  <2> QED
    BY <2>1, SeqDef
<1> HIDE DEF a, b, c, S
<1> HIDE DEF ab, s
<1>4. /\ ab \in Seq(S) /\ Len(ab) = n + 2
      /\ ab[1] = Unit("size", m, n) /\ ab[2] = Unit("line", m, 0)
  <2>1. /\ ab \in Seq(S) /\ Len(ab) = Len(a) + Len(b)
        /\ \A j \in 1..Len(a) : ab[j] = a[j]
    <3>1. a \in Seq(S) /\ b \in Seq(S) /\ ab = a \o b
      BY <1>2, <1>3 DEF ab
    <3> QED
      BY <3>1, ConcatFacts
  <2> QED
    BY <1>2, <1>3, <2>1
<1>5. /\ s \in Seq(S) /\ Len(s) = n + 3 /\ s[1] = Unit("size", m, n)
      /\ s[2] = Unit("line", m, 0) /\ s[1 + (n + 2)] = Unit("break", m, 0)
  <2>1. /\ s \in Seq(S) /\ Len(s) = Len(ab) + Len(c)
        /\ \A j \in 1..Len(ab) : s[j] = ab[j]
        /\ \A j \in 1..Len(c) : s[j + Len(ab)] = c[j]
    <3>1. ab \in Seq(S) /\ c \in Seq(S) /\ s = ab \o c
      BY <1>2, <1>4 DEF s
    <3> QED
      BY <3>1, ConcatFacts
  <2>2. 1 \in 1..Len(ab) /\ 2 \in 1..Len(ab) /\ 1 \in 1..Len(c)
    BY <1>2, <1>4
  <2> QED
    BY <1>2, <1>4, <2>1, <2>2
<1>6. s[2].kind = "line" /\ (n = 0 => s[3].kind = "break")
  BY <1>1, <1>5
<1>7. s = ChunkUnits(n, m)
  BY DEF ChunkUnits, s, ab, a, b, c
<1> QED
  BY <1>5, <1>6, <1>7 DEF S

\* A body in chunks begins with a size, and is over after a size of 0 and a break.
LEMMA ChunksWork ==
  ASSUME NEW m \in Nat, NEW body \in Seq(Nat), Len(body) > 0,
         \A c \in 1..Len(body) : body[c] = 0 <=> c = Len(body)
  PROVE  LET b == FlattenSeq([c \in 1..Len(body) |-> ChunkUnits(body[c], m)])
         IN /\ b \in Seq(BodyUnits(m)) /\ Len(b) >= 1
            /\ b[1].n = 0 => Len(b) = 3 /\ b[2].kind = "line" /\ b[3].kind = "break"
<1> DEFINE C == Len(body)
           s == [c \in 1..C |-> ChunkUnits(body[c], m)]
           S == BodyUnits(m)
           OK(q) == /\ q \in Seq(S) /\ Len(q) >= 3 /\ q[1] = Unit("size", m, body[1])
                    /\ C = 1 => Len(q) = 3 /\ q[2].kind = "line" /\ q[3].kind = "break"
<1>1. C \in Nat \ {0} /\ \A c \in 1..C : body[c] \in Nat
  OBVIOUS
<1>2. Len(s) = C
  <2> HIDE DEF C
  <2> QED
    BY <1>1
<1>3. PICK f : FlattenSeq(s) = f[C] /\ f[1] = s[1] /\ \A i \in 2..C : f[i] = f[i - 1] \o s[i]
  <2> HIDE DEF s, C
  <2> QED
    BY <1>1, <1>2, FlattenRounds
<1>4. ASSUME NEW c \in 1..C
      PROVE  /\ s[c] \in Seq(S) /\ Len(s[c]) = body[c] + 3 /\ s[c][1] = Unit("size", m, body[c])
             /\ s[c][2].kind = "line" /\ (body[c] = 0 => s[c][3].kind = "break")
  <2>1. s[c] = ChunkUnits(body[c], m)
    OBVIOUS
  <2>2. body[c] \in Nat
    BY <1>1
  <2> DEFINE n == body[c]
             x == s[c]
  <2>3. x = ChunkUnits(n, m) /\ n \in Nat
    BY <2>1, <2>2
  <2> HIDE DEF s, S, n, x
  <2>4. /\ x \in Seq(S) /\ Len(x) = n + 3 /\ x[1] = Unit("size", m, n)
        /\ x[2].kind = "line" /\ (n = 0 => x[3].kind = "break")
    BY <2>3, ChunkWorks DEF S
  <2> QED
    BY <2>4 DEF n, x
<1> HIDE DEF s, S
<1>5. OK(f[1])
  <2>1. 1 \in 1..C /\ (C = 1 => body[1] = 0) /\ body[1] \in Nat
    BY <1>1
  <2>2. /\ s[1] \in Seq(S) /\ Len(s[1]) = body[1] + 3 /\ s[1][1] = Unit("size", m, body[1])
        /\ s[1][2].kind = "line" /\ (body[1] = 0 => s[1][3].kind = "break")
    BY <1>4, <2>1
  <2> HIDE DEF C
  <2>3. Len(s[1]) >= 3 /\ (body[1] = 0 => Len(s[1]) = 3)
    BY <2>1, <2>2
  <2> QED
    BY <1>3, <2>1, <2>2, <2>3
<1>6. ASSUME NEW i \in 2..C, OK(f[i - 1]) PROVE OK(f[i])
  <2>1. i \in 1..C /\ C # 1 /\ body[i] \in Nat
    BY <1>1
  <2>2. s[i] \in Seq(S) /\ Len(s[i]) = body[i] + 3
    BY <1>4, <2>1
  <2>3. f[i - 1] \in Seq(S) /\ Len(f[i - 1]) >= 3 /\ f[i - 1][1] = Unit("size", m, body[1])
    BY <1>6
  <2>4. f[i] = f[i - 1] \o s[i]
    BY <1>3
  <2> DEFINE p == f[i - 1]
             q == s[i]
             r == f[i]
  <2> HIDE DEF p, q, r, C
  <2>5. /\ r \in Seq(S) /\ Len(r) = Len(p) + Len(q)
        /\ \A j \in 1..Len(p) : r[j] = p[j]
    <3>1. p \in Seq(S) /\ q \in Seq(S) /\ r = p \o q
      BY <2>2, <2>3, <2>4 DEF p, q, r
    <3> QED
      BY <3>1, ConcatFacts
  <2>6. Len(p) \in Nat /\ Len(p) >= 3 /\ Len(q) \in Nat
    BY <2>2, <2>3 DEF p, q
  <2>7. 1 \in 1..Len(p) /\ Len(r) >= 3
    BY <2>5, <2>6
  <2> QED
    BY <2>1, <2>3, <2>5, <2>7 DEF p, r
<1>7. \A i \in 1..C : OK(f[i])
  <2> DEFINE T == {i \in Nat : i + 1 \in 1..C => OK(f[i + 1])}
  <2> HIDE DEF OK, C
  <2>1. 0 \in T
    BY <1>5
  <2>2. ASSUME NEW i \in Nat, i \in T PROVE i + 1 \in T
    <3>1. ASSUME i + 1 + 1 \in 1..C PROVE OK(f[i + 1 + 1])
      <4>1. i + 1 \in 1..C /\ i + 1 + 1 \in 2..C /\ (i + 1 + 1) - 1 = i + 1
        BY <1>1, <3>1
      <4>2. OK(f[(i + 1 + 1) - 1])
        BY <2>2, <4>1
      <4> QED
        BY <1>6, <4>1, <4>2
    <3> QED
      BY <3>1
  <2>3. Nat \subseteq T
    <3> HIDE DEF T
    <3> QED
      BY <2>1, <2>2, SetInduction
  <2>4. ASSUME NEW i \in 1..C PROVE OK(f[i])
    <3>1. i - 1 \in Nat /\ (i - 1) + 1 = i
      BY <1>1
    <3>2. i - 1 \in T
      BY <2>3, <3>1
    <3> QED
      BY <3>1, <3>2
  <2> QED
    BY <2>4
<1>8. OK(FlattenSeq(s))
  <2>1. C \in 1..C
    BY <1>1
  <2> HIDE DEF OK, C
  <2> QED
    BY <1>3, <1>7, <2>1
<1>9. C # 1 => body[1] # 0
  <2>1. 1 \in 1..C
    BY <1>1
  <2> QED
    BY <2>1
<1>10. LET b == FlattenSeq(s)
       IN /\ b \in Seq(S) /\ Len(b) >= 1
          /\ b[1].n = 0 => Len(b) = 3 /\ b[2].kind = "line" /\ b[3].kind = "break"
  <2> DEFINE b == FlattenSeq(s)
  <2>1. b \in Seq(S) /\ Len(b) >= 3 /\ b[1] = Unit("size", m, body[1])
        /\ (C = 1 => Len(b) = 3 /\ b[2].kind = "line" /\ b[3].kind = "break")
    BY <1>8
  <2>2. b[1].n = body[1]
    BY <2>1 DEF Unit
  <2> HIDE DEF b, C
  <2> QED
    BY <1>9, <2>1, <2>2 DEF b
<1> QED
  BY <1>10 DEF s, S

\* Nothing but bytes.
BytesOnly(b) == \A i \in 1..Len(b) : b[i].kind = "byte"

\* What the mode of a message says of its body.
BodyOf(b, message, m) ==
  /\ b \in Seq(BodyUnits(m))
  /\ ModeAfter(message) = "empty" => Len(b) = 0
  /\ ModeAfter(message) = "counted" =>
       message.length \in Nat /\ Len(b) = message.length /\ BytesOnly(b)
  /\ ModeAfter(message) = "raw" => BytesOnly(b)
  /\ ModeAfter(message) = "chunked" =>
       /\ Len(b) >= 1
       /\ b[1].n = 0 => Len(b) = 3 /\ b[2].kind = "line" /\ b[3].kind = "break"

\* A body that is not in chunks is n bytes.
LEMMA BytesWork ==
  ASSUME NEW m \in Nat, NEW n \in Nat
  PROVE  LET b == [i \in 1..n |-> Unit("byte", m, i)]
         IN b \in Seq(BodyUnits(m)) /\ Len(b) = n /\ BytesOnly(b)
<1> DEFINE b == [i \in 1..n |-> Unit("byte", m, i)]
           S == BodyUnits(m)
<1>1. \A i \in 1..n : Unit("byte", m, i) \in S /\ Unit("byte", m, i).kind = "byte"
  BY DEF BodyUnits, UnitSet, Unit
<1>2. b \in [1..n -> S]
  BY <1>1
<1>3. b \in Seq(S) /\ Len(b) = n
  <2> HIDE DEF S, b
  <2>1. b \in Seq(S)
    BY <1>2, SeqDef
  <2>2. Len(b) = n
    BY <1>2
  <2> QED
    BY <2>1, <2>2
<1>4. BytesOnly(b)
  <2>1. \A i \in 1..n : b[i].kind = "byte"
    BY <1>1
  <2> HIDE DEF b
  <2> QED
    BY <1>3, <2>1 DEF BytesOnly
<1> QED
  BY <1>3, <1>4

\* A well-written message has the body its head announces.
LEMMA BodyWorks ==
  ASSUME NEW ms, WellWritten(ms), NEW m \in 1..Len(ms)
  PROVE  BodyOf(Body(ms[m], m), ms[m], m)
<1> DEFINE message == ms[m]
           body == message.body
           b == Body(message, m)
<1>1. m \in Nat
  BY DEF WellWritten
<1>2. /\ ModeAfter(message) = "empty" => ~message.chunked /\ body = 0
      /\ ModeAfter(message) = "chunked" =>
           /\ message.chunked
           /\ body \in Seq(Nat) /\ Len(body) > 0
           /\ \A c \in 1..Len(body) : body[c] = 0 <=> c = Len(body)
      /\ ModeAfter(message) = "counted" =>
           ~message.chunked /\ body \in Nat /\ body = message.length
      /\ ModeAfter(message) = "raw" => ~message.chunked /\ body \in Nat
  <2>1. /\ ModeAfter(message) = "empty" => ~message.chunked /\ body = 0
        /\ ModeAfter(message) = "chunked" =>
             /\ body \in Seq(Nat) /\ Len(body) > 0
             /\ \A c \in 1..Len(body) : body[c] = 0 <=> c = Len(body)
        /\ ModeAfter(message) = "counted" => body \in Nat /\ body = message.length
        /\ ModeAfter(message) = "raw" => body \in Nat
    BY DEF WellWritten
  <2> QED
    BY <2>1, ModesAre
<1>3. ModeAfter(message) \in {"empty", "chunked", "counted", "raw"}
  BY ModesAre
<1>4. ASSUME ~message.chunked, body \in Nat
      PROVE  b \in Seq(BodyUnits(m)) /\ Len(b) = body /\ BytesOnly(b)
  <2>1. b = [i \in 1..body |-> Unit("byte", m, i)]
    BY <1>4 DEF Body
  <2> HIDE DEF b, body
  <2> QED
    BY <1>1, <1>4, <2>1, BytesWork
<1>5. ASSUME ModeAfter(message) = "chunked"
      PROVE  /\ b \in Seq(BodyUnits(m))
             /\ Len(b) >= 1
             /\ b[1].n = 0 => Len(b) = 3 /\ b[2].kind = "line" /\ b[3].kind = "break"
  <2>1. b = FlattenSeq([c \in 1..Len(body) |-> ChunkUnits(body[c], m)])
    BY <1>2, <1>5 DEF Body, ChunkUnits
  <2>2. /\ body \in Seq(Nat) /\ Len(body) > 0
        /\ \A c \in 1..Len(body) : body[c] = 0 <=> c = Len(body)
    BY <1>2, <1>5
  <2> HIDE DEF b, body
  <2> QED
    BY <1>1, <2>1, <2>2, ChunksWork
<1>6. CASE ModeAfter(message) = "chunked"
  BY <1>5, <1>6 DEF BodyOf
<1>7. CASE ModeAfter(message) # "chunked"
  <2>1. ~message.chunked /\ body \in Nat
    BY <1>2, <1>3, <1>7
  <2> HIDE DEF b
  <2> QED
    BY <1>2, <1>3, <1>4, <1>7, <2>1 DEF BodyOf, b
<1> QED
  BY <1>6, <1>7

\* The length of a head before its end.
HeadUnits(message) == IF message.long THEN HeadLimit ELSE 1

\* The units of one message.
Part(message, m) ==
  [i \in 1..HeadUnits(message) |-> Unit("start", m, i)]
    \o <<Unit("head", m, 0)>> \o Body(message, m)

\* They are a stream of one message.
LEMMA PartWorks ==
  ASSUME NEW ms, WellWritten(ms), NEW m \in 1..Len(ms)
  PROVE  Grammar(Part(ms[m], m), ms, m, m)
<1> DEFINE message == ms[m]
           K == HeadUnits(message)
           a == [i \in 1..K |-> Unit("start", m, i)]
           h == <<Unit("head", m, 0)>>
           ah == a \o h
           b == Body(message, m)
           p == ah \o b
           B == Len(b)
           N == K + 1 + B
<1>1. m \in Nat /\ m + 1 \in Nat /\ m # m + 1
  BY DEF WellWritten
<1>2. K \in Nat /\ K >= 1
  BY CodecAssumption DEF HeadUnits
<1>3. BodyOf(b, message, m)
  BY BodyWorks
<1> HIDE DEF message, K, b
<1>4. a \in Seq(UnitSet) /\ Len(a) = K /\ \A i \in 1..K : a[i] = Unit("start", m, i)
  <2>1. \A i \in 1..K : Unit("start", m, i) \in UnitSet
    BY <1>1, <1>2 DEF UnitSet, Unit
  <2>2. a \in [1..K -> UnitSet]
    BY <2>1
  <2>3. \A i \in 1..K : a[i] = Unit("start", m, i)
    OBVIOUS
  <2> HIDE DEF a
  <2>4. a \in Seq(UnitSet)
    BY <1>2, <2>2, SeqDef
  <2>5. Len(a) = K
    BY <1>2, <2>2
  <2> QED
    BY <2>3, <2>4, <2>5
<1>5. h \in Seq(UnitSet) /\ Len(h) = 1 /\ h[1] = Unit("head", m, 0)
  <2>1. Unit("head", m, 0) \in UnitSet
    BY <1>1 DEF UnitSet, Unit
  <2> QED
    BY <2>1
<1>6. /\ b \in Seq(UnitSet) /\ B \in Nat
      /\ \A i \in 1..B : b[i] \in BodyUnits(m)
  <2>1. b \in Seq(BodyUnits(m))
    BY <1>3 DEF BodyOf
  <2>2. B \in Nat /\ \A i \in 1..B : b[i] \in BodyUnits(m)
    BY <2>1
  <2>3. b \in Seq(UnitSet)
    <3>1. BodyUnits(m) \subseteq UnitSet
      BY DEF BodyUnits
    <3> DEFINE S == BodyUnits(m)
    <3> HIDE DEF S
    <3>2. b \in Seq(S) /\ S \subseteq UnitSet
      BY <2>1, <3>1 DEF S
    <3> QED
      BY <3>2
  <2> QED
    BY <2>2, <2>3
<1> HIDE DEF a, h, ah, p, B, N
<1>7. /\ ah \in Seq(UnitSet) /\ Len(ah) = K + 1
      /\ \A i \in 1..K : ah[i] = Unit("start", m, i)
      /\ ah[K + 1] = Unit("head", m, 0)
  <2>1. a \in Seq(UnitSet) /\ h \in Seq(UnitSet) /\ ah = a \o h
    BY <1>4, <1>5 DEF ah
  <2>2. /\ ah \in Seq(UnitSet) /\ Len(ah) = Len(a) + Len(h)
        /\ \A j \in 1..Len(a) : ah[j] = a[j]
        /\ \A j \in 1..Len(h) : ah[j + Len(a)] = h[j]
    BY <2>1, ConcatFacts
  <2>3. 1 \in 1..Len(h) /\ 1 + K = K + 1
    BY <1>2, <1>5
  <2> QED
    BY <1>4, <1>5, <2>2, <2>3
<1>8. /\ p \in Seq(UnitSet) /\ Len(p) = N
      /\ \A i \in 1..K : p[i] = Unit("start", m, i)
      /\ p[K + 1] = Unit("head", m, 0)
      /\ \A i \in 1..B : p[i + (K + 1)] = b[i]
  <2>1. ah \in Seq(UnitSet) /\ b \in Seq(UnitSet) /\ p = ah \o b
    BY <1>6, <1>7 DEF p
  <2>2. /\ p \in Seq(UnitSet) /\ Len(p) = Len(ah) + Len(b)
        /\ \A j \in 1..Len(ah) : p[j] = ah[j]
        /\ \A j \in 1..Len(b) : p[j + Len(ah)] = b[j]
    BY <2>1, ConcatFacts
  <2>3. K + 1 \in 1..(K + 1) /\ \A i \in 1..K : i \in 1..(K + 1)
    BY <1>2
  <2> QED
    BY <1>7, <2>2, <2>3 DEF B, N
<1>9. /\ N \in Nat /\ 1 \in 1..K /\ 1 \in 1..N
      /\ \A i \in 1..K : i < N /\ (i + 1 \in 1..K \/ i + 1 = K + 1)
      /\ \A u \in 1..N : \/ u \in 1..K \/ u = K + 1
                       \/ (u - (K + 1) \in 1..B /\ u = (u - (K + 1)) + (K + 1))
  <2>1. K \in Nat /\ K >= 1 /\ B \in Nat /\ N = K + 1 + B
    BY <1>2, <1>6 DEF N
  <2>2. N \in Nat /\ 1 \in 1..K /\ 1 \in 1..N
    BY <2>1
  <2>3. \A i \in 1..K : i < N /\ (i + 1 \in 1..K \/ i + 1 = K + 1)
    BY <2>1
  <2>4. \A u \in 1..N : \/ u \in 1..K \/ u = K + 1
                       \/ (u - (K + 1) \in 1..B /\ u = (u - (K + 1)) + (K + 1))
    BY <2>1
  <2> QED
    BY <2>2, <2>3, <2>4
<1>10. \A k, n, j : Unit(k, j, n).kind = k /\ Unit(k, j, n).message = j /\ Unit(k, j, n).n = n
  BY DEF Unit
<1>11. \A i \in 1..B : /\ b[i].message = m /\ b[i].kind \in {"byte", "size", "line", "break"}
                       /\ b[i].kind # "start" /\ b[i].kind # "head"
  BY <1>6 DEF BodyUnits
<1>12. \A u \in 1..N : p[u].message = m
  <2>1. \A i \in 1..K : p[i].message = m
    BY <1>8, <1>10
  <2>2. p[K + 1].message = m
    BY <1>8, <1>10
  <2>3. \A i \in 1..B : p[i + (K + 1)].message = m
    BY <1>8, <1>11
  <2> QED
    BY <1>9, <2>1, <2>2, <2>3
<1>13. ASSUME NEW u \in 1..N, p[u].kind = "start"
       PROVE  u < N /\ p[u + 1].kind \in {"start", "head"} /\ p[u + 1].message = p[u].message
  <2>1. u \in 1..K
    <3>1. p[K + 1].kind = "head"
      BY <1>8, <1>10
    <3>2. \A i \in 1..B : p[i + (K + 1)].kind # "start"
      BY <1>8, <1>11
    <3> QED
      BY <1>9, <1>13, <3>1, <3>2
  <2>2. u < N /\ (u + 1 \in 1..K \/ u + 1 = K + 1)
    BY <1>9, <2>1
  <2>3. p[u + 1].kind \in {"start", "head"} /\ p[u + 1].message = m
    BY <1>8, <1>10, <2>2
  <2> QED
    BY <1>12, <2>2, <2>3
<1>14. ASSUME NEW u \in 1..N, p[u].kind = "head" PROVE u = K + 1
  <2>1. \A i \in 1..K : p[i].kind = "start"
    BY <1>8, <1>10
  <2>2. \A i \in 1..B : p[i + (K + 1)].kind # "head"
    BY <1>8, <1>11
  <2> QED
    BY <1>9, <1>14, <2>1, <2>2
<1>15. BodyAfter(p, ms, K + 1, m)
  <2>1. p[K + 1].message = m
    BY <1>8, <1>10
  <2>2. StartsAt(p, N + 1, m + 1, m)
    BY <1>8 DEF StartsAt
  <2>3. ASSUME ModeAfter(message) = "empty" PROVE StartsAt(p, K + 1 + 1, m + 1, m)
    <3>1. B = 0
      BY <1>3, <2>3 DEF BodyOf, B
    <3>2. N + 1 = K + 1 + 1
      BY <1>2, <3>1 DEF N
    <3> QED
      BY <2>2, <3>2
  <2>4. ASSUME ModeAfter(message) = "counted"
        PROVE  /\ message.length \in Nat /\ BytesFrom(p, K + 1 + 1, message.length)
               /\ StartsAt(p, K + 1 + 1 + message.length, m + 1, m)
    <3>1. message.length \in Nat /\ B = message.length /\ BytesOnly(b)
      BY <1>3, <2>4 DEF BodyOf, B
    <3>2. N + 1 = K + 1 + 1 + B
      BY <1>2, <1>6 DEF N
    <3>3. ASSUME NEW v \in (K + 1 + 1)..(K + 1 + 1 + B - 1)
          PROVE  v <= Len(p) /\ p[v].kind = "byte"
      <4>1. v <= N /\ v - (K + 1) \in 1..B /\ v = (v - (K + 1)) + (K + 1)
        BY <1>2, <1>6 DEF N
      <4>2. p[v] = b[v - (K + 1)]
        BY <1>8, <4>1
      <4> QED
        BY <1>8, <3>1, <4>1, <4>2 DEF BytesOnly, B
    <3>4. BytesFrom(p, K + 1 + 1, B)
      BY <3>3 DEF BytesFrom
    <3> QED
      BY <2>2, <3>1, <3>2, <3>4
  <2>5. ASSUME ModeAfter(message) = "raw", NEW v \in (K + 1 + 1)..Len(p)
        PROVE  p[v].kind = "byte"
    <3>1. BytesOnly(b)
      BY <1>3, <2>5 DEF BodyOf
    <3>2. v \in (K + 1 + 1)..(K + 1 + B)
      BY <1>8 DEF N
    <3>3. v - (K + 1) \in 1..B /\ v = (v - (K + 1)) + (K + 1)
      BY <1>2, <1>6, <3>2
    <3>4. p[v] = b[v - (K + 1)]
      BY <1>8, <3>3
    <3> QED
      BY <3>1, <3>3, <3>4 DEF BytesOnly, B
  <2>6. ASSUME ModeAfter(message) = "chunked"
        PROVE  /\ K + 1 + 1 <= Len(p)
               /\ p[K + 1 + 1].n = 0 => /\ K + 1 + 3 <= Len(p) /\ p[K + 1 + 2].kind = "line"
                                        /\ p[K + 1 + 3].kind = "break"
                                        /\ StartsAt(p, K + 1 + 4, m + 1, m)
    <3>1. B >= 1 /\ (b[1].n = 0 => B = 3 /\ b[2].kind = "line" /\ b[3].kind = "break")
      BY <1>3, <2>6 DEF BodyOf, B
    <3>2. 1 \in 1..B /\ 1 + (K + 1) = K + 1 + 1 /\ K + 1 + 1 <= N
      BY <1>2, <1>6, <3>1 DEF N
    <3>3. p[K + 1 + 1] = b[1]
      BY <1>8, <3>2
    <3>4. ASSUME B = 3
          PROVE  /\ K + 1 + 3 <= N /\ 2 \in 1..B /\ 3 \in 1..B
                 /\ 2 + (K + 1) = K + 1 + 2 /\ 3 + (K + 1) = K + 1 + 3 /\ N + 1 = K + 1 + 4
      BY <1>2, <3>4 DEF N
    <3>5. ASSUME b[1].n = 0
          PROVE  /\ K + 1 + 3 <= Len(p) /\ p[K + 1 + 2].kind = "line"
                 /\ p[K + 1 + 3].kind = "break" /\ StartsAt(p, K + 1 + 4, m + 1, m)
      <4>1. B = 3 /\ b[2].kind = "line" /\ b[3].kind = "break"
        BY <3>1, <3>5
      <4>2. /\ K + 1 + 3 <= N /\ 2 \in 1..B /\ 3 \in 1..B
            /\ 2 + (K + 1) = K + 1 + 2 /\ 3 + (K + 1) = K + 1 + 3 /\ N + 1 = K + 1 + 4
        BY <3>4, <4>1
      <4>3. p[K + 1 + 2] = b[2] /\ p[K + 1 + 3] = b[3]
        BY <1>8, <4>2
      <4> QED
        BY <1>8, <2>2, <4>1, <4>2, <4>3
    <3> QED
      BY <1>8, <3>2, <3>3, <3>5
  <2> QED
    BY <2>1, <2>3, <2>4, <2>5, <2>6 DEF BodyAfter, message
<1>16. StartsAt(p, 1, m, m)
  <2>1. p[1] = Unit("start", m, 1)
    BY <1>8, <1>9
  <2> QED
    BY <1>8, <1>9, <2>1 DEF StartsAt
<1>17. m \in m..m /\ m <= m
  BY <1>1
<1>18. Grammar(p, ms, m, m)
  BY <1>8, <1>12, <1>13, <1>14, <1>15, <1>16, <1>17 DEF Grammar
<1>19. p = Part(ms[m], m)
  BY DEF p, ah, a, h, b, K, message, Part
<1> QED
  BY <1>18, <1>19

\* What a peer writes well has the grammar, for any number of messages, chunks and
\* bytes.
LEMMA WireWorks ==
  ASSUME NEW ms, WellWritten(ms)
  PROVE  Grammar(Wire(ms), ms, 1, Len(ms))
<1> DEFINE M == Len(ms)
           s == [m \in 1..M |-> Part(ms[m], m)]
<1>1. M \in Nat
  BY DEF WellWritten
<1>2. Wire(ms) = FlattenSeq(s)
  BY DEF Wire, Part, HeadUnits
<1>3. Len(s) = M
  <2> HIDE DEF M
  <2> QED
    BY <1>1
<1>4. ASSUME NEW m \in 1..M PROVE Grammar(s[m], ms, m, m)
  <2>1. s[m] = Part(ms[m], m)
    OBVIOUS
  <2> HIDE DEF s
  <2> QED
    BY <2>1, PartWorks
<1>5. \A m \in 1..M : ModeAfter(ms[m]) = "raw" => m = M
  BY DEF WellWritten
<1> HIDE DEF s
<1>6. CASE M = 0
  <2>1. FlattenSeq(s) = s
    BY <1>3, <1>6 DEF FlattenSeq
  <2>2. s = [m \in {} |-> Part(ms[m], m)]
    BY <1>6 DEF s
  <2>3. s = << >>
    BY <2>2
  <2>4. Grammar(<< >>, ms, 1, 0)
    <3>1. << >> \in Seq(UnitSet) /\ Len(<< >>) = 0 /\ 1..0 = {}
      OBVIOUS
    <3>2. StartsAt(<< >>, 1, 1, 0)
      BY <3>1 DEF StartsAt
    <3> QED
      BY <3>1, <3>2 DEF Grammar
  <2> QED
    BY <1>2, <1>6, <2>1, <2>3, <2>4
<1>7. CASE M # 0
  <2>1. PICK f : FlattenSeq(s) = f[M] /\ f[1] = s[1] /\ \A i \in 2..M : f[i] = f[i - 1] \o s[i]
    <3> HIDE DEF M
    <3> QED
      BY <1>1, <1>3, <1>7, FlattenRounds
  <2> HIDE DEF M
  <2> DEFINE T == {i \in Nat : i + 1 \in 1..M => Grammar(f[i + 1], ms, 1, i + 1)}
  <2>2. 0 \in T
    <3>1. 1 \in 1..M /\ 0 + 1 = 1
      BY <1>1, <1>7
    <3> QED
      BY <1>4, <2>1, <3>1
  <2>3. ASSUME NEW i \in Nat, i \in T PROVE i + 1 \in T
    <3> DEFINE k == i + 1
    <3>1. SUFFICES ASSUME k + 1 \in 1..M PROVE Grammar(f[k + 1], ms, 1, k + 1)
      OBVIOUS
    <3>2. k \in Nat /\ 1 <= k /\ k \in 1..M /\ k + 1 \in 2..M /\ (k + 1) - 1 = k
      BY <1>1, <3>1
    <3>3. Grammar(f[k], ms, 1, k)
      BY <2>3, <3>2
    <3>4. Grammar(s[k + 1], ms, k + 1, k + 1)
      BY <1>4, <3>1
    <3>5. f[k + 1] = f[k] \o s[k + 1]
      BY <2>1, <3>2
    <3>6. \A m \in 1..k : ModeAfter(ms[m]) # "raw"
      <4>1. \A m \in 1..k : m \in 1..M /\ m # M
        BY <1>1, <3>1, <3>2
      <4> QED
        BY <1>5, <4>1
    <3> HIDE DEF k
    <3>7. Grammar(f[k] \o s[k + 1], ms, 1, k + 1)
      BY <3>2, <3>3, <3>4, <3>6, Joined
    <3> QED
      BY <3>5, <3>7
  <2>4. Nat \subseteq T
    <3> HIDE DEF T
    <3> QED
      BY <2>2, <2>3, SetInduction
  <2>5. M - 1 \in Nat /\ (M - 1) + 1 = M /\ M \in 1..M
    BY <1>1, <1>7
  <2>6. M - 1 \in T
    BY <2>4, <2>5
  <2>7. Grammar(f[M], ms, 1, M)
    BY <2>5, <2>6
  <2> QED
    BY <1>2, <2>1, <2>7 DEF M
<1> QED
  BY <1>6, <1>7

\* The values a decoder gives.
Value == [kind : {"head", "data", "end"}, first : Int, last : Int]

\* The ranges of the variables: what has been received and not yet decoded is a part
\* of what was sent.
CodecTypes ==
  /\ messages \in Transmissions /\ sent = Wire(messages)
  /\ received \in Nat /\ received <= Len(sent) /\ from \in 1..(received + 1)
  /\ mode \in {"head", "empty", "chunked", "counted", "raw"}
  /\ bytesLeft \in Nat /\ torn \in BOOLEAN
  /\ values \in Seq(Value)

\* The heads given.
Count == Heads(Len(values))
\* The kind of the last value given.
Latest == values[Len(values)].kind
\* Message m starts at unit p of what is sent.
Starts(p, m) == StartsAt(sent, p, m, Len(messages))

\* Where the decoder stands, in each mode: readBuffer begins with the next message,
\* with the rest of a counted body, with the first chunk, or holds bytes only.  The
\* body of the last head has not been ended, but before the next head it has.
Place ==
  /\ Len(values) = 0 => mode = "head"
  /\ Len(values) > 0 => values[1].kind = "head"
  /\ mode = "head" => Starts(from, Count + 1) /\ (Len(values) = 0 \/ Latest = "end")
  /\ mode = "empty" => Starts(from, Count + 1) /\ Latest # "end"
  /\ mode = "counted" =>
       /\ BytesFrom(sent, from, bytesLeft)
       /\ Starts(from + bytesLeft, Count + 1) /\ Latest # "end"
  /\ mode = "chunked" =>
       /\ from - 1 \in 1..Len(sent) /\ sent[from - 1].kind = "head"
       /\ sent[from - 1].message = Count /\ ModeAfter(messages[Count]) = "chunked"
       /\ Latest = "head"
  /\ mode = "raw" =>
       /\ Raw(messages[Count])
       /\ \A u \in from..Len(sent) : sent[u].kind = "byte"

\* What BytesInOrder says of a decoder that has torn no body.
InOrder ==
  /\ \A i \in Data : 1 <= values[i].first /\ values[i].first <= values[i].last
                     /\ values[i].last < from
  /\ \A i, j \in Data : i < j => values[i].last < values[j].first
  /\ \A u \in 1..(from - 1) :
       sent[u].kind = "byte" <=>
         \E i \in Data : u \in values[i].first..values[i].last

\* What EndsOnce says of value i.
EndOK(i) ==
  /\ values[i].kind = "head" /\ i > 1 => values[i - 1].kind = "end"
  /\ values[i].kind = "end" /\ ~Raw(messages[Heads(i)]) =>
       /\ values[i - 1].kind # "end"
       /\ \A u \in values[i].first..Len(sent) :
            sent[u].kind = "byte" => sent[u].message > Heads(i)

\* The inductive invariant of the codec.  Nothing is known of where a decoder stands
\* that has cut a body off from what came with it.
CodecInv ==
  /\ CodecTypes
  /\ ~torn => Place /\ InOrder /\ \A i \in 1..Len(values) : EndOK(i)

\* What the peer sends has the grammar.
LEMMA Sent ==
  ASSUME CodecTypes
  PROVE  Grammar(sent, messages, 1, Len(messages))
BY TransmissionsAssumption, WireWorks DEF CodecTypes

\* From the start of message m on there are no units of earlier messages.
LEMMA AfterStart ==
  ASSUME CodecTypes, NEW p \in Nat, p >= 1, NEW m, Starts(p, m), NEW u \in p..Len(sent)
  PROVE  sent[u].message \in Nat /\ m <= sent[u].message
<1>1. Grammar(sent, messages, 1, Len(messages))
  BY Sent
<1>2. sent \in Seq(UnitSet)
  BY <1>1 DEF Grammar
<1>3. Len(sent) \in Nat /\ u \in 1..Len(sent) /\ p # Len(sent) + 1 /\ p <= u
  BY <1>2
<1>4. p \in 1..Len(sent) /\ sent[p].message = m
  BY <1>3 DEF StartsAt, Starts, Unit
<1>5. sent[p].message <= sent[u].message
  BY <1>1, <1>3, <1>4 DEF Grammar
<1>6. sent[u] \in UnitSet
  BY <1>2, <1>3
<1> QED
  BY <1>4, <1>5, <1>6 DEF UnitSet

\* A number of heads is a number.
LEMMA HeadsFacts ==
  ASSUME NEW n \in Nat
  PROVE  Heads(n) \in Nat
<1> DEFINE X == {i \in 1..n : values[i].kind = "head"}
<1>1. IsFiniteSet(1..n)
  BY FS_Interval
<1>2. X \subseteq 1..n
  OBVIOUS
<1>3. IsFiniteSet(X)
  BY <1>1, <1>2, FS_Subset
<1> HIDE DEF X
<1>4. Cardinality(X) \in Nat
  BY <1>3, FS_CardinalityType
<1> QED
  BY <1>4 DEF Heads, X

\* One value more: the others, and the heads among them, stay.
LEMMA Appended ==
  ASSUME CodecTypes, NEW v \in Value, values' = Append(values, v),
         NEW n, n = Len(values)
  PROVE  /\ values' \in Seq(Value) /\ n \in Nat /\ Len(values)' = n + 1
         /\ \A i \in 1..n : values'[i] = values[i]
         /\ values'[n + 1] = v /\ Latest' = v.kind
         /\ \A i \in 1..n : Heads(i)' = Heads(i)
         /\ Count \in Nat
         /\ Heads(n + 1)' = Count'
         /\ Count' = IF v.kind = "head" THEN Count + 1 ELSE Count
<1> DEFINE X(i) == {j \in 1..i : values[j].kind = "head"}
           Y(i) == {j \in 1..i : values'[j].kind = "head"}
<1>1. /\ values \in Seq(Value) /\ values' \in Seq(Value) /\ n \in Nat /\ Len(values') = n + 1
      /\ \A i \in 1..n : values'[i] = values[i]
      /\ values'[n + 1] = v
  BY DEF CodecTypes
<1>2. \A i \in 1..n : 1..i \subseteq 1..n
  BY <1>1
<1>3. ASSUME NEW i \in 1..n PROVE Heads(i)' = Heads(i)
  <2>1. X(i) = Y(i)
    BY <1>1, <1>2
  <2> QED
    BY <2>1 DEF Heads
<1>4. Count \in Nat
  BY <1>1, HeadsFacts DEF Count
<1>5. Y(n + 1) = IF v.kind = "head" THEN X(n) \cup {n + 1} ELSE X(n)
  <2>1. \A j : j \in 1..(n + 1) <=> j \in 1..n \/ j = n + 1
    BY <1>1
  <2> QED
    BY <1>1, <2>1
<1>6. n + 1 \notin X(n) /\ IsFiniteSet(X(n))
  <2>1. IsFiniteSet(1..n)
    BY <1>1, FS_Interval
  <2>2. X(n) \subseteq 1..n
    OBVIOUS
  <2>3. IsFiniteSet(X(n))
    BY <2>1, <2>2, FS_Subset
  <2>4. n + 1 \notin 1..n
    BY <1>1
  <2> QED
    BY <2>2, <2>3, <2>4
<1>7. Cardinality(X(n) \cup {n + 1}) = Cardinality(X(n)) + 1
  <2> DEFINE Z == X(n)
             e == n + 1
  <2>1. e \notin Z /\ IsFiniteSet(Z)
    BY <1>6
  <2> HIDE DEF Z, e
  <2>2. Cardinality(Z \cup {e}) = Cardinality(Z) + 1
    BY <2>1, FS_AddElement
  <2> QED
    BY <2>2 DEF Z, e
<1>8. Count = Cardinality(X(n)) /\ Count' = Cardinality(Y(n + 1))
  BY <1>1 DEF Count, Heads
<1>9. Heads(n + 1)' = Count'
  BY <1>1 DEF Count, Heads
<1> HIDE DEF X, Y
<1>10. Count' = IF v.kind = "head" THEN Count + 1 ELSE Count
  BY <1>5, <1>7, <1>8
<1> QED
  BY <1>1, <1>3, <1>4, <1>9, <1>10 DEF Latest

\* A value keeps InOrder if it is data with all bytes it goes past, or goes past none.
LEMMA PieceKeeps ==
  ASSUME CodecTypes, InOrder, NEW v \in Value, values' = Append(values, v),
         sent' = sent, v.first = from, from' \in Nat, from <= from',
         v.kind = "data" => v.first <= v.last /\ v.last < from',
         \A u \in from..(from' - 1) :
           sent[u].kind = "byte" <=> v.kind = "data" /\ u <= v.last
  PROVE  InOrder'
<1> SUFFICES ASSUME NEW n, n = Len(values) PROVE InOrder'
  OBVIOUS
<1>1. /\ n \in Nat /\ Len(values)' = n + 1
      /\ \A i \in 1..n : values'[i] = values[i]
      /\ values'[n + 1] = v
  BY Appended
<1>2. \A i \in 1..n : values[i].first \in Int /\ values[i].last \in Int
  <2> TAKE i \in 1..n
  <2>1. values[i] \in Value
    BY DEF CodecTypes
  <2> QED
    BY <2>1 DEF Value
<1>3. v.first \in Int /\ v.last \in Int /\ from \in Nat /\ from >= 1
  BY DEF CodecTypes, Value
<1>4. Data \subseteq 1..n
  BY DEF Data
<1>5. \A i : i \in Data' <=> i \in Data \/ (i = n + 1 /\ v.kind = "data")
  <2>1. \A j : j \in 1..(n + 1) <=> j \in 1..n \/ j = n + 1
    BY <1>1
  <2>2. n + 1 \notin 1..n
    BY <1>1
  <2>3. Data' = {i \in 1..(n + 1) : values'[i].kind = "data"}
    BY <1>1 DEF Data
  <2>4. Data = {i \in 1..n : values[i].kind = "data"}
    BY DEF Data
  <2> QED
    BY <1>1, <2>1, <2>2, <2>3, <2>4
<1>6. ASSUME NEW i \in Data
      PROVE  /\ values'[i] = values[i] /\ i \in 1..n
             /\ 1 <= values[i].first /\ values[i].first <= values[i].last
             /\ values[i].last < from
  BY <1>1, <1>4 DEF InOrder
<1>7. ASSUME NEW i \in Data'
      PROVE  /\ 1 <= values'[i].first /\ values'[i].first <= values'[i].last
             /\ values'[i].last < from'
  <2>1. CASE i \in Data
    <3>1. values[i].last \in Int /\ values[i].last < from
      BY <1>2, <1>6, <2>1
    <3>2. values[i].last < from'
      BY <1>3, <3>1
    <3> QED
      BY <1>6, <2>1, <3>2
  <2>2. CASE i = n + 1 /\ v.kind = "data"
    BY <1>1, <1>3, <2>2
  <2> QED
    BY <1>5, <2>1, <2>2
<1>8. ASSUME NEW i \in Data', NEW j \in Data', i < j
      PROVE  values'[i].last < values'[j].first
  <2>1. CASE j \in Data
    <3>1. i # n + 1
      <4>1. j \in 1..n
        BY <1>6, <2>1
      <4> QED
        BY <1>1, <1>8, <4>1
    <3>2. i \in Data
      BY <1>5, <3>1
    <3> QED
      BY <1>6, <1>8, <2>1, <3>2 DEF InOrder
  <2>2. CASE j = n + 1
    <3>1. i \in Data
      BY <1>1, <1>5, <1>8, <2>2
    <3> QED
      BY <1>1, <1>6, <2>2, <3>1
  <2> QED
    BY <1>5, <2>1, <2>2
<1>9. ASSUME NEW u \in 1..(from' - 1)
      PROVE  sent'[u].kind = "byte" <=>
               \E i \in Data' : u \in values'[i].first..values'[i].last
  <2>1. CASE u \in 1..(from - 1)
    <3>1. sent[u].kind = "byte" <=> \E i \in Data : u \in values[i].first..values[i].last
      BY <2>1 DEF InOrder
    <3>2. u \notin v.first..v.last
      BY <1>3, <2>1
    <3>3. (\E i \in Data' : u \in values'[i].first..values'[i].last)
            <=> \E i \in Data : u \in values[i].first..values[i].last
      BY <1>1, <1>5, <1>6, <3>2
    <3> QED
      BY <3>1, <3>3
  <2>2. CASE u \in from..(from' - 1)
    <3>1. sent[u].kind = "byte" <=> v.kind = "data" /\ u <= v.last
      BY <2>2
    <3>2. u \in v.first..v.last <=> u <= v.last
      BY <1>3, <2>2
    <3>3. \A i \in Data : u \notin values[i].first..values[i].last
      <4> TAKE i \in Data
      <4>1. values[i].last \in Int /\ values[i].last < from /\ values[i].first \in Int
        BY <1>2, <1>6
      <4>2. \A y \in Int : y < from => ~(u <= y)
        BY <1>3, <2>2
      <4>3. ~(u <= values[i].last)
        BY <4>1, <4>2
      <4> QED
        BY <4>3
    <3>4. (\E i \in Data' : u \in values'[i].first..values'[i].last)
            <=> v.kind = "data" /\ u \in v.first..v.last
      BY <1>1, <1>5, <1>6, <3>3
    <3> QED
      BY <3>1, <3>2, <3>4
  <2>3. u \in 1..(from - 1) \/ u \in from..(from' - 1)
    <3>1. \A a, b \in Nat : \A w \in 1..(b - 1) : w \in 1..(a - 1) \/ w \in a..(b - 1)
      OBVIOUS
    <3> QED
      BY <1>3, <3>1
  <2> QED
    BY <2>1, <2>2, <2>3
<1> QED
  BY <1>7, <1>8, <1>9 DEF InOrder

\* A value keeps EndsOnce if it is a head after an end, or the end of a body no byte
\* of which is left.
LEMMA EndKeeps ==
  ASSUME CodecTypes, Place, \A i \in 1..Len(values) : EndOK(i),
         NEW v \in Value, values' = Append(values, v), sent' = sent, messages' = messages,
         v.kind = "head" => Len(values) = 0 \/ Latest = "end",
         v.kind = "end" => Len(values) > 0,
         v.kind = "end" /\ ~Raw(messages[Count]) =>
           /\ Latest # "end"
           /\ \A u \in v.first..Len(sent) : sent[u].kind = "byte" => sent[u].message > Count
  PROVE  \A i \in 1..Len(values)' : EndOK(i)'
<1> SUFFICES ASSUME NEW n, n = Len(values)
             PROVE  \A i \in 1..Len(values)' : EndOK(i)'
  OBVIOUS
<1>1. /\ n \in Nat /\ Len(values)' = n + 1
      /\ \A i \in 1..n : values'[i] = values[i]
      /\ values'[n + 1] = v
      /\ \A i \in 1..n : Heads(i)' = Heads(i)
      /\ Heads(n + 1)' = Count' 
      /\ Count' = IF v.kind = "head" THEN Count + 1 ELSE Count
  BY Appended
<1>2. n > 0 => values[1].kind = "head"
  BY DEF Place
<1>3. Latest = values[n].kind
  BY DEF Latest
<1>4. ASSUME NEW i \in 1..n PROVE EndOK(i)'
  <2>1. EndOK(i) /\ values'[i] = values[i] /\ Heads(i)' = Heads(i)
    BY <1>1
  <2>2. CASE i = 1
    <3>1. values[i].kind = "head" /\ ~(i > 1)
      BY <1>1, <1>2, <2>2
    <3> QED
      BY <2>1, <3>1 DEF EndOK
  <2>3. CASE i # 1
    <3>1. i - 1 \in 1..n
      BY <1>1, <2>3
    <3>2. values'[i - 1] = values[i - 1]
      BY <1>1, <3>1
    <3> QED
      BY <2>1, <3>2 DEF EndOK
  <2> QED
    BY <2>2, <2>3
<1>5. EndOK(n + 1)'
  <2>1. (n + 1) - 1 = n
    BY <1>1
  <2>2. n > 0 => values'[n] = values[n]
    BY <1>1
  <2>3. v.kind = "head" /\ n + 1 > 1 => values'[(n + 1) - 1].kind = "end"
    BY <1>1, <1>3, <2>1, <2>2
  <2>4. ASSUME v.kind = "end", ~Raw(messages[Count])
        PROVE  /\ values'[(n + 1) - 1].kind # "end"
               /\ \A u \in v.first..Len(sent) : sent[u].kind = "byte" => sent[u].message > Count
    BY <1>1, <1>3, <2>1, <2>2, <2>4
  <2>5. v.kind = "end" => Heads(n + 1)' = Count
    BY <1>1
  <2> QED
    BY <1>1, <2>3, <2>4, <2>5 DEF EndOK
<1>6. \A i \in 1..(n + 1) : i \in 1..n \/ i = n + 1
  BY <1>1
<1> QED
  BY <1>1, <1>4, <1>5, <1>6

\* The modes.
Modes == {"head", "empty", "chunked", "counted", "raw"}
\* The value Give appends.
Gives(kind, n) == [kind |-> kind, first |-> from, last |-> from + n - 1]

\* A decoder that takes no more than it has keeps the ranges.
LEMMA GiveTyped ==
  ASSUME CodecTypes, NEW kind \in {"head", "data", "end"}, NEW n \in Nat, NEW skip \in Nat,
         NEW rest, Give(kind, n, skip, rest), from + n + skip <= received + 1,
         mode' \in Modes, bytesLeft' \in Nat, torn' \in BOOLEAN
  PROVE  /\ CodecTypes'
         /\ Gives(kind, n) \in Value /\ Gives(kind, n).kind = kind
         /\ Gives(kind, n).first = from /\ Gives(kind, n).last = from + n - 1
         /\ values' = Append(values, Gives(kind, n))
         /\ from' = from + n + skip /\ from' \in Nat /\ from <= from'
         /\ from \in Nat /\ from >= 1
         /\ sent' = sent /\ messages' = messages /\ received' = received
<1>1. /\ from \in Nat /\ from >= 1 /\ received \in Nat /\ from <= received + 1
  BY DEF CodecTypes
<1>2. /\ from' = from + n + skip /\ values' = Append(values, Gives(kind, n))
      /\ UNCHANGED <<messages, sent, received, error>>
  BY DEF Give, Gives
<1>3. Gives(kind, n) \in Value
  BY <1>1 DEF Gives, Value
<1>4. from + n + skip \in 1..(received + 1) /\ from <= from + n + skip
  BY <1>1
<1>5. values' \in Seq(Value)
  BY <1>2, <1>3 DEF CodecTypes
<1>6. CodecTypes'
  BY <1>1, <1>2, <1>4, <1>5 DEF CodecTypes, Modes
<1> QED
  BY <1>1, <1>2, <1>3, <1>4, <1>6 DEF Gives

\* The head ends at the first unit that ends one.
LEMMA HeadFound ==
  ASSUME CodecTypes, HeadEnds # {}
  PROVE  LET at == Min(HeadEnds)
         IN /\ at \in Nat /\ from <= at /\ at <= received /\ at \in 1..Len(sent)
            /\ sent[at].kind = "head"
            /\ \A u \in from..(at - 1) : sent[u].kind # "head"
<1> DEFINE at == Min(HeadEnds)
<1>1. HeadEnds \subseteq Nat
  BY DEF HeadEnds, CodecTypes
<1>2. at \in HeadEnds /\ \A y \in HeadEnds : at <= y
  BY <1>1, LeastIs
<1> HIDE DEF at
<1>3. /\ from \in Nat /\ from >= 1 /\ received \in Nat /\ received <= Len(sent)
      /\ Len(sent) \in Nat
  <2>1. sent \in Seq(UnitSet)
    BY Sent DEF Grammar
  <2> QED
    BY <2>1 DEF CodecTypes
<1>4. at \in from..received /\ sent[at].kind = "head"
  BY <1>2 DEF HeadEnds
<1>5. at \in Nat /\ from <= at /\ at <= received /\ at \in 1..Len(sent)
  BY <1>3, <1>4
<1>6. ASSUME NEW u \in from..(at - 1) PROVE sent[u].kind # "head"
  <2>1. u \in from..received /\ ~(at <= u)
    BY <1>3, <1>5
  <2> QED
    BY <1>2, <2>1 DEF HeadEnds
<1> QED
  BY <1>4, <1>5, <1>6 DEF at

\* All units up to there are those of one head: after the start of a head comes
\* more of it or its end.
LEMMA HeadUnitsAre ==
  ASSUME CodecTypes, HeadEnds # {}, NEW m \in Nat, Starts(from, m)
  PROVE  LET at == Min(HeadEnds)
         IN \A u \in from..at : sent[u].kind \in {"start", "head"} /\ sent[u].message = m
<1> DEFINE at == Min(HeadEnds)
<1>1. /\ at \in Nat /\ from <= at /\ at <= received /\ at \in 1..Len(sent)
      /\ \A u \in from..(at - 1) : sent[u].kind # "head"
  BY HeadFound
<1> HIDE DEF at
<1>2. from \in Nat /\ from >= 1 /\ Len(sent) \in Nat /\ from # Len(sent) + 1
  <2>1. sent \in Seq(UnitSet)
    BY Sent DEF Grammar
  <2> QED
    BY <1>1, <2>1 DEF CodecTypes
<1>3. sent[from].kind = "start" /\ sent[from].message = m
  BY <1>2 DEF Starts, StartsAt, Unit
<1> DEFINE OK(u) == sent[u].kind \in {"start", "head"} /\ sent[u].message = m
           T == {i \in Nat : from + i <= at => OK(from + i)}
<1>4. 0 \in T
  BY <1>2, <1>3
<1>5. ASSUME NEW i \in Nat, i \in T PROVE i + 1 \in T
  <2> SUFFICES ASSUME from + (i + 1) <= at PROVE OK(from + (i + 1))
    BY DEF T
  <2> DEFINE u == from + i
  <2>1. u \in from..(at - 1) /\ u \in 1..Len(sent) /\ u + 1 = from + (i + 1) /\ from + i <= at
    BY <1>1, <1>2
  <2>2. OK(u)
    BY <1>5, <2>1
  <2>3. sent[u].kind = "start"
    BY <1>1, <2>1, <2>2
  <2> HIDE DEF u
  <2>4. sent[u + 1].kind \in {"start", "head"} /\ sent[u + 1].message = sent[u].message
    BY <2>1, <2>3, Sent DEF Grammar
  <2> QED
    BY <2>1, <2>2, <2>4
<1>6. Nat \subseteq T
  <2> HIDE DEF T
  <2> QED
    BY <1>4, <1>5, SetInduction
<1>7. ASSUME NEW u \in from..at PROVE OK(u)
  <2>1. u - from \in Nat /\ from + (u - from) = u /\ u <= at
    BY <1>1, <1>2
  <2>2. u - from \in T
    BY <1>6, <2>1
  <2> QED
    BY <2>1, <2>2
<1> QED
  BY <1>7 DEF at

\* decodeHead keeps the invariant: it stops where the body of the message begins.
LEMMA HeadStep ==
  ASSUME CodecInv, DecodeHead
  PROVE  CodecInv'
<1> DEFINE at == Min(HeadEnds)
           m == sent[at].message
           message == messages[m]
           v == Gives("head", at - from + 1)
<1>1. /\ CodecTypes /\ mode = "head" /\ HeadEnds # {} /\ AtHead
      /\ mode' = ModeAfter(message)
      /\ bytesLeft' = IF mode' = "counted" THEN message.length ELSE bytesLeft
      /\ Give("head", at - from + 1, 0, "buffer")
      /\ torn' = torn
  BY DEF CodecInv, DecodeHead, Decoding
<1>2. /\ at \in Nat /\ from <= at /\ at <= received /\ at \in 1..Len(sent)
      /\ sent[at].kind = "head"
  BY <1>1, HeadFound
<1>3. from \in Nat /\ from >= 1 /\ received \in Nat
  BY <1>1 DEF CodecTypes
<1> HIDE DEF at
<1>4. BodyAfter(sent, messages, at, Len(messages))
  BY <1>1, <1>2, Sent DEF Grammar
<1>5. mode' \in Modes /\ mode' # "head"
  BY <1>1, ModesAre DEF Modes
<1>6. bytesLeft' \in Nat /\ torn' \in BOOLEAN
  BY <1>1, <1>4 DEF BodyAfter, CodecTypes
<1>7. /\ at - from + 1 \in Nat /\ from + (at - from + 1) + 0 <= received + 1
      /\ from + (at - from + 1) + 0 = at + 1 /\ from + (at - from + 1) - 1 = at
  BY <1>2, <1>3
<1>8. /\ CodecTypes' /\ v \in Value /\ v.kind = "head" /\ v.first = from /\ v.last = at
      /\ values' = Append(values, v) /\ from' = at + 1 /\ from' \in Nat /\ from <= from'
      /\ sent' = sent /\ messages' = messages /\ received' = received
  <2> DEFINE n == at - from + 1
  <2>1. n \in Nat /\ from + n + 0 <= received + 1 /\ Give("head", n, 0, "buffer")
    BY <1>1, <1>7
  <2>2. /\ CodecTypes' /\ Gives("head", n) \in Value /\ Gives("head", n).kind = "head"
        /\ Gives("head", n).first = from /\ Gives("head", n).last = from + n - 1
        /\ values' = Append(values, Gives("head", n))
        /\ from' = from + n + 0 /\ from' \in Nat /\ from <= from'
        /\ sent' = sent /\ messages' = messages /\ received' = received
    <3> HIDE DEF n
    <3> QED
      BY <1>1, <1>5, <1>6, <2>1, GiveTyped
  <2> QED
    BY <1>7, <2>2
<1> HIDE DEF v
<1>9. SUFFICES ASSUME ~torn PROVE (Place /\ InOrder /\ \A i \in 1..Len(values) : EndOK(i))'
  BY <1>1, <1>8 DEF CodecInv
<1>10. Place /\ InOrder /\ \A i \in 1..Len(values) : EndOK(i)
  BY <1>9 DEF CodecInv
<1>11. Starts(from, Count + 1) /\ (Len(values) = 0 \/ Latest = "end")
  BY <1>1, <1>10 DEF Place
<1> SUFFICES ASSUME NEW n, n = Len(values)
             PROVE  (Place /\ InOrder /\ \A i \in 1..Len(values) : EndOK(i))'
  OBVIOUS
<1>12. /\ n \in Nat /\ Len(values)' = n + 1
       /\ \A i \in 1..n : values'[i] = values[i]
       /\ values'[n + 1] = v /\ Latest' = "head"
       /\ Count \in Nat /\ Count' = Count + 1
  BY <1>1, <1>8, Appended
<1>13. m = Count + 1 /\ \A u \in from..at : sent[u].kind \in {"start", "head"}
  <2>1. \A u \in from..at : sent[u].kind \in {"start", "head"} /\ sent[u].message = Count + 1
    <3>1. Count + 1 \in Nat
      BY <1>12
    <3> QED
      BY <1>1, <1>11, <3>1, HeadUnitsAre DEF at
  <2>2. at \in from..at
    BY <1>2, <1>3
  <2> QED
    BY <2>1, <2>2
<1>14. InOrder'
  <2>1. \A u \in from..(from' - 1) : sent[u].kind # "byte"
    <3>1. (at + 1) - 1 = at
      BY <1>2
    <3> QED
      BY <1>8, <1>13, <3>1
  <2> QED
    BY <1>1, <1>8, <1>10, <2>1, PieceKeeps
<1>15. \A i \in 1..Len(values)' : EndOK(i)'
  BY <1>1, <1>8, <1>10, <1>11, EndKeeps
<1>16. m = Count'
  BY <1>12, <1>13
<1>17. Place'
  <2>1. Len(values)' # 0 /\ Len(values)' > 0
    BY <1>12
  <2>2. values'[1].kind = "head"
    <3>1. n = 0 \/ (n > 0 /\ 1 \in 1..n)
      BY <1>12
    <3>2. n > 0 => values[1].kind = "head"
      BY <1>10 DEF Place
    <3> QED
      BY <1>8, <1>12, <3>1, <3>2
  <2>3. mode' = "empty" => StartsAt(sent, at + 1, m + 1, Len(messages))
    BY <1>1, <1>4 DEF BodyAfter
  <2>4. mode' = "counted" =>
          /\ bytesLeft' = message.length /\ BytesFrom(sent, at + 1, message.length)
          /\ StartsAt(sent, at + 1 + message.length, m + 1, Len(messages))
    BY <1>1, <1>4 DEF BodyAfter
  <2>5. mode' = "raw" => Raw(message) /\ \A u \in (at + 1)..Len(sent) : sent[u].kind = "byte"
    BY <1>1, <1>4, ModesAre DEF BodyAfter
  <2>6. (at + 1) - 1 = at
    BY <1>2
  <2> HIDE DEF m
  <2>7. mode' = "chunked" =>
          /\ (at + 1) - 1 \in 1..Len(sent) /\ sent[(at + 1) - 1].kind = "head"
          /\ sent[(at + 1) - 1].message = m /\ ModeAfter(messages[m]) = "chunked"
    BY <1>1, <1>2, <2>6 DEF m
  <2> QED
    BY <1>5, <1>8, <1>12, <1>16, <2>1, <2>2, <2>3, <2>4, <2>5, <2>7 DEF Place, Starts
<1> QED
  BY <1>14, <1>15, <1>17

\* A value that is no head keeps the invariant, if it goes past its own bytes only
\* and leaves the decoder where the mode says.
LEMMA ValueKeeps ==
  ASSUME CodecInv, ~torn, CodecTypes', NEW v \in Value, values' = Append(values, v),
         sent' = sent, messages' = messages, v.kind # "head", v.first = from,
         Len(values) > 0, from' \in Nat, from <= from',
         v.kind = "data" => v.first <= v.last /\ v.last < from',
         \A u \in from..(from' - 1) :
           sent[u].kind = "byte" <=> v.kind = "data" /\ u <= v.last,
         v.kind = "end" /\ ~Raw(messages[Count]) =>
           /\ Latest # "end"
           /\ \A u \in from..Len(sent) : sent[u].kind = "byte" => sent[u].message > Count,
         mode' # "chunked",
         mode' = "head" => Starts(from', Count + 1) /\ v.kind = "end",
         mode' = "empty" => Starts(from', Count + 1) /\ v.kind # "end",
         mode' = "counted" => /\ BytesFrom(sent, from', bytesLeft')
                              /\ Starts(from' + bytesLeft', Count + 1) /\ v.kind # "end",
         mode' = "raw" => /\ Raw(messages[Count])
                          /\ \A u \in from'..Len(sent) : sent[u].kind = "byte"
  PROVE  CodecInv'
<1>1. CodecTypes /\ Place /\ InOrder /\ \A i \in 1..Len(values) : EndOK(i)
  BY DEF CodecInv
<1>2. InOrder'
  BY <1>1, PieceKeeps
<1>3. \A i \in 1..Len(values)' : EndOK(i)'
  BY <1>1, EndKeeps
<1> SUFFICES ASSUME NEW n, n = Len(values) PROVE CodecInv'
  OBVIOUS
<1>4. /\ n \in Nat /\ Len(values)' = n + 1
      /\ \A i \in 1..n : values'[i] = values[i]
      /\ Latest' = v.kind /\ Count' = Count
  BY <1>1, Appended
<1>5. Len(values)' # 0 /\ Len(values)' > 0 /\ values'[1] = values[1]
  BY <1>4
<1>6. values[1].kind = "head"
  BY <1>1 DEF Place
<1>7. Place'
  BY <1>4, <1>5, <1>6 DEF Place, Starts
<1> QED
  BY <1>2, <1>3, <1>7 DEF CodecInv

\* The ranges, taken apart.
LEMMA CodecFacts ==
  ASSUME CodecTypes
  PROVE  /\ from \in Nat /\ from >= 1 /\ received \in Nat /\ from <= received + 1
         /\ Len(sent) \in Nat /\ received <= Len(sent) /\ bytesLeft \in Nat
         /\ Length \in Nat /\ Count \in Nat /\ Length = received - from + 1
<1>1. sent \in Seq(UnitSet)
  BY Sent DEF Grammar
<1>2. Count \in Nat
  BY HeadsFacts DEF Count, CodecTypes
<1> QED
  BY <1>1, <1>2 DEF CodecTypes, Length

\* A body is complete where the next message starts.
LEMMA NoneAfter ==
  ASSUME CodecTypes, Starts(from, Count + 1)
  PROVE  \A u \in from..Len(sent) : sent[u].kind = "byte" => sent[u].message > Count
<1> TAKE u \in from..Len(sent)
<1>1. sent[u].message \in Nat /\ Count + 1 <= sent[u].message
  BY CodecFacts, AfterStart
<1> QED
  BY <1>1, CodecFacts

\* decodeEmpty keeps the invariant,
LEMMA EmptyStep ==
  ASSUME CodecInv, DecodeEmpty
  PROVE  CodecInv'
<1> DEFINE v == Gives("end", 0)
<1>1. /\ CodecTypes /\ (mode = "empty" \/ (mode = "counted" /\ bytesLeft = 0))
      /\ mode' = "head" /\ Give("end", 0, 0, form)
      /\ bytesLeft' = bytesLeft /\ torn' = torn
  BY DEF CodecInv, DecodeEmpty, Decoding
<1>2. /\ from + 0 + 0 = from /\ from + 0 + 0 <= received + 1
      /\ bytesLeft \in Nat /\ torn \in BOOLEAN
  BY <1>1, CodecFacts DEF CodecTypes
<1>3. /\ CodecTypes' /\ v \in Value /\ v.kind = "end" /\ v.first = from
      /\ values' = Append(values, v) /\ from' = from /\ from \in Nat /\ from <= from'
      /\ sent' = sent /\ messages' = messages
  BY <1>1, <1>2, GiveTyped DEF Modes
<1> HIDE DEF v
<1>4. CASE torn
  BY <1>1, <1>3, <1>4 DEF CodecInv
<1>5. CASE ~torn
  <2>1. Place
    BY <1>5 DEF CodecInv
  <2>2. Starts(from, Count + 1) /\ Latest # "end"
    <3>1. from + 0 = from
      BY <1>3
    <3> QED
      BY <1>1, <2>1, <3>1 DEF Place
  <2>3. Len(values) > 0
    <3>1. Len(values) \in Nat /\ Len(values) # 0
      BY <1>1, <2>1 DEF Place, CodecTypes
    <3> QED
      BY <3>1
  <2>4. from..(from' - 1) = {}
    BY <1>3
  <2> QED
    BY <1>1, <1>3, <1>5, <2>2, <2>3, <2>4, NoneAfter, ValueKeeps
<1> QED
  BY <1>4, <1>5

\* and so does decodeRaw,
LEMMA RawStep ==
  ASSUME CodecInv, DecodeRaw
  PROVE  CodecInv'
<1>1. /\ CodecTypes /\ mode = "raw" /\ mode' = "raw" /\ bytesLeft' = bytesLeft /\ torn' = torn
      /\ bytesLeft \in Nat /\ torn \in BOOLEAN
  BY DEF CodecInv, DecodeRaw, Decoding, CodecTypes
<1>2. ASSUME ~torn
      PROVE  /\ Raw(messages[Count]) /\ \A u \in from..Len(sent) : sent[u].kind = "byte"
             /\ Len(values) > 0
  <2>1. Place
    BY <1>2 DEF CodecInv
  <2>2. Len(values) \in Nat /\ Len(values) # 0
    BY <1>1, <2>1 DEF Place, CodecTypes
  <2> QED
    BY <1>1, <2>1, <2>2 DEF Place
<1>3. CASE Give("end", 0, 0, "undefined")
  <2> DEFINE v == Gives("end", 0)
  <2>1. from + 0 + 0 = from /\ from + 0 + 0 <= received + 1
    BY <1>1, CodecFacts
  <2>2. /\ CodecTypes' /\ v \in Value /\ v.kind = "end" /\ v.first = from
        /\ values' = Append(values, v) /\ from' = from /\ from \in Nat /\ from <= from'
        /\ sent' = sent /\ messages' = messages
    BY <1>1, <1>3, <2>1, GiveTyped DEF Modes
  <2> HIDE DEF v
  <2>3. from..(from' - 1) = {}
    BY <2>2
  <2>4. CASE torn
    BY <1>1, <2>2, <2>4 DEF CodecInv
  <2>5. CASE ~torn
    BY <1>1, <1>2, <2>2, <2>3, <2>5, ValueKeeps
  <2> QED
    BY <2>4, <2>5
<1>4. CASE Length > 0 /\ Give("data", Length, 0, "string")
  <2> DEFINE n == Length
             v == Gives("data", n)
  <2>1. /\ n \in Nat /\ n > 0 /\ from + n + 0 <= received + 1
        /\ from + n + 0 = received + 1 /\ from + n - 1 = received
    BY <1>1, <1>4, CodecFacts
  <2>2. Give("data", n, 0, "string")
    BY <1>4
  <2> HIDE DEF n
  <2>3. /\ CodecTypes' /\ v \in Value /\ v.kind = "data" /\ v.first = from /\ v.last = received
        /\ values' = Append(values, v) /\ from' = received + 1 /\ from' \in Nat /\ from <= from'
        /\ sent' = sent /\ messages' = messages
    BY <1>1, <2>1, <2>2, GiveTyped DEF Modes
  <2> HIDE DEF v
  <2>4. /\ from <= received /\ received < received + 1
        /\ \A u \in from..((received + 1) - 1) : u \in from..Len(sent) /\ u <= received
        /\ \A u \in (received + 1)..Len(sent) : u \in from..Len(sent)
    BY <1>1, <2>1, CodecFacts
  <2>5. CASE torn
    BY <1>1, <2>3, <2>5 DEF CodecInv
  <2>6. CASE ~torn
    <3>1. \A u \in from..(from' - 1) : sent[u].kind = "byte" /\ u <= v.last
      <4>1. \A u \in from..((received + 1) - 1) : sent[u].kind = "byte" /\ u <= received
        BY <1>2, <2>4, <2>6
      <4>2. from' = received + 1 /\ v.last = received
        BY <2>3
      <4>3. from' - 1 = (received + 1) - 1
        BY <4>2
      <4> QED
        BY <4>1, <4>2, <4>3, Zenon
    <3>2. \A u \in from'..Len(sent) : sent[u].kind = "byte"
      BY <1>2, <2>3, <2>4, <2>6
    <3>3. v.first <= v.last /\ v.last < from' /\ v.kind # "head" /\ v.kind # "end"
      BY <2>3, <2>4
    <3> QED
      BY <1>1, <1>2, <2>3, <2>6, <3>1, <3>2, <3>3, ValueKeeps
  <2> QED
    BY <2>5, <2>6
<1> QED
  BY <1>3, <1>4 DEF DecodeRaw

\* and decodeCounted, if it does not tear the body,
LEMMA CountedStep ==
  ASSUME CodecInv, DecodeCounted
  PROVE  CodecInv'
<1> DEFINE L == Length
<1>1. /\ CodecTypes /\ mode = "counted" /\ bytesLeft > 0 /\ L > 0
      /\ mode' = IF L >= bytesLeft THEN "empty" ELSE mode
      /\ mode' \in Modes
  BY DEF CodecInv, DecodeCounted, Decoding, Modes
<1>2. /\ from \in Nat /\ from >= 1 /\ received \in Nat /\ L \in Nat /\ bytesLeft \in Nat
      /\ from + L = received + 1 /\ Len(sent) \in Nat /\ received <= Len(sent)
  BY <1>1, CodecFacts
<1>3. torn \in BOOLEAN
  BY <1>1 DEF CodecTypes
<1>4. CASE L <= bytesLeft
  <2>1. Give("data", L, 0, "string") /\ bytesLeft' = bytesLeft - L /\ torn' = torn
    BY <1>4 DEF DecodeCounted
  <2> DEFINE v == Gives("data", L)
  <2> HIDE DEF L
  <2>2. from + L + 0 <= received + 1 /\ from + L + 0 = from + L /\ bytesLeft - L \in Nat
    BY <1>2, <1>4
  <2>3. /\ CodecTypes' /\ v \in Value /\ v.kind = "data"
        /\ v.first = from /\ v.last = from + L - 1
        /\ values' = Append(values, v) /\ from' = from + L /\ from' \in Nat /\ from <= from'
        /\ sent' = sent /\ messages' = messages
    BY <1>1, <1>2, <1>3, <2>1, <2>2, GiveTyped
  <2> HIDE DEF v
  <2>4. CASE torn
    BY <2>1, <2>3, <2>4 DEF CodecInv
  <2>5. CASE ~torn
    <3>1. Place
      BY <2>5 DEF CodecInv
    <3>2. /\ BytesFrom(sent, from, bytesLeft) /\ Starts(from + bytesLeft, Count + 1)
      BY <1>1, <3>1 DEF Place
    <3>3. Len(values) > 0
      <4>1. Len(values) \in Nat /\ Len(values) # 0
        BY <1>1, <3>1 DEF Place, CodecTypes
      <4> QED
        BY <4>1
    <3>4. /\ from <= from + L - 1 /\ from + L - 1 < from + L
          /\ \A u \in from..((from + L) - 1) :
               u \in from..(from + bytesLeft - 1) /\ u <= from + L - 1
          /\ \A u \in (from + L)..(from + L + (bytesLeft - L) - 1) :
               u \in from..(from + bytesLeft - 1)
          /\ (from + L) + (bytesLeft - L) = from + bytesLeft
          /\ L >= bytesLeft => from + L = from + bytesLeft
      <4>1. from <= from + L - 1 /\ from + L - 1 < from + L
        BY <1>1, <1>2
      <4>2. \A u \in from..((from + L) - 1) :
              u \in from..(from + bytesLeft - 1) /\ u <= from + L - 1
        BY <1>2, <1>4
      <4>3. \A u \in (from + L)..(from + L + (bytesLeft - L) - 1) :
              u \in from..(from + bytesLeft - 1)
        BY <1>2, <1>4
      <4>4. /\ (from + L) + (bytesLeft - L) = from + bytesLeft
            /\ L >= bytesLeft => from + L = from + bytesLeft
        BY <1>2, <1>4
      <4> QED
        BY <4>1, <4>2, <4>3, <4>4
    <3>5. \A u \in from..(from' - 1) : sent[u].kind = "byte" /\ u <= v.last
      <4>1. \A u \in from..((from + L) - 1) : sent[u].kind = "byte" /\ u <= from + L - 1
        BY <3>2, <3>4 DEF BytesFrom
      <4>2. from' = from + L /\ v.last = from + L - 1
        BY <2>3
      <4>3. from' - 1 = (from + L) - 1
        BY <4>2
      <4> QED
        BY <4>1, <4>2, <4>3, Zenon
    <3>6. BytesFrom(sent, from', bytesLeft')
      BY <2>1, <2>3, <3>2, <3>4 DEF BytesFrom
    <3>7. Starts(from' + bytesLeft', Count + 1)
      BY <2>1, <2>3, <3>2, <3>4
    <3>8. mode' = "empty" => Starts(from', Count + 1)
      BY <1>1, <2>3, <3>2, <3>4
    <3>9. mode' \in {"empty", "counted"}
      BY <1>1
    <3>10. v.first <= v.last /\ v.last < from' /\ v.kind # "head" /\ v.kind # "end"
      BY <2>3, <3>4
    <3> QED
      BY <2>3, <2>5, <3>3, <3>5, <3>6, <3>7, <3>8, <3>9, <3>10, ValueKeeps
  <2> QED
    BY <1>3, <2>4, <2>5
<1>5. CASE ~(L <= bytesLeft)
  <2>1. Give("data", bytesLeft, 1, "buffer") /\ bytesLeft' = bytesLeft /\ torn' = TRUE
    BY <1>5 DEF DecodeCounted
  <2> HIDE DEF L
  <2>2. from + bytesLeft + 1 <= received + 1
    BY <1>2, <1>5
  <2>3. CodecTypes'
    BY <1>1, <1>2, <2>1, <2>2, GiveTyped
  <2> QED
    BY <2>1, <2>3 DEF CodecInv
<1> QED
  BY <1>4, <1>5

\* and decodeChunked with the last chunk.
LEMMA LastChunkStep ==
  ASSUME CodecInv, DecodeLastChunk
  PROVE  CodecInv'
<1> DEFINE v == Gives("end", 0)
<1>1. /\ CodecTypes /\ mode = "chunked" /\ WholeChunk /\ sent[from].n = 0
      /\ mode' = "head" /\ Give("end", 0, 3, "buffer")
      /\ bytesLeft' = bytesLeft /\ torn' = torn /\ bytesLeft \in Nat /\ torn \in BOOLEAN
  BY DEF CodecInv, DecodeLastChunk, Decoding, CodecTypes
<1>2. /\ from \in Nat /\ from >= 1 /\ received \in Nat /\ Len(sent) \in Nat
      /\ received <= Len(sent) /\ Count \in Nat /\ Length = received - from + 1
  BY <1>1, CodecFacts
<1>3. Length >= 3 /\ sent[from].kind = "size"
  BY <1>1, <1>2 DEF WholeChunk, AtChunk
<1>4. from + 0 + 3 = from + 3 /\ from + 0 + 3 <= received + 1
  BY <1>2, <1>3
<1>5. /\ CodecTypes' /\ v \in Value /\ v.kind = "end" /\ v.first = from
      /\ values' = Append(values, v) /\ from' = from + 3 /\ from' \in Nat /\ from <= from'
      /\ sent' = sent /\ messages' = messages
  BY <1>1, <1>4, GiveTyped DEF Modes
<1> HIDE DEF v
<1>6. CASE torn
  BY <1>1, <1>5, <1>6 DEF CodecInv
<1>7. CASE ~torn
  <2>1. Place
    BY <1>7 DEF CodecInv
  <2>2. /\ from - 1 \in 1..Len(sent) /\ sent[from - 1].kind = "head"
        /\ sent[from - 1].message = Count /\ ModeAfter(messages[Count]) = "chunked"
        /\ Latest = "head"
    BY <1>1, <2>1 DEF Place
  <2>3. Len(values) > 0
    <3>1. Len(values) \in Nat /\ Len(values) # 0
      BY <1>1, <2>1 DEF Place, CodecTypes
    <3> QED
      BY <3>1
  <2>4. BodyAfter(sent, messages, from - 1, Len(messages))
    BY <1>1, <2>2, Sent DEF Grammar
  <2>5. /\ (from - 1) + 1 = from /\ (from - 1) + 2 = from + 1
        /\ (from - 1) + 3 = from + 2 /\ (from - 1) + 4 = from + 3
    BY <1>2
  <2>6. /\ sent[from + 1].kind = "line" /\ sent[from + 2].kind = "break"
        /\ StartsAt(sent, from + 3, Count + 1, Len(messages))
    <3> DEFINE p == from - 1
    <3>1. /\ sent[p].message = Count /\ ModeAfter(messages[Count]) = "chunked"
          /\ p + 1 = from /\ p + 2 = from + 1 /\ p + 3 = from + 2 /\ p + 4 = from + 3
          /\ BodyAfter(sent, messages, p, Len(messages))
      BY <2>2, <2>4, <2>5
    <3> HIDE DEF p
    <3> QED
      BY <1>1, <3>1 DEF BodyAfter
  <2>7. Starts(from', Count + 1)
    BY <1>5, <2>6 DEF Starts
  <2>8. ASSUME NEW u \in from..(from' - 1) PROVE sent[u].kind # "byte"
    <3>1. u = from \/ u = from + 1 \/ u = from + 2
      BY <1>2, <1>5
    <3> QED
      BY <1>3, <2>6, <3>1
  <2>9. ASSUME NEW u \in from..Len(sent), sent[u].kind = "byte" PROVE sent[u].message > Count
    <3>1. u \in from..(from + 3 - 1) \/ u \in (from + 3)..Len(sent)
      BY <1>2
    <3>2. u \in (from + 3)..Len(sent)
      BY <1>5, <2>8, <2>9, <3>1
    <3>3. sent[u].message \in Nat /\ Count + 1 <= sent[u].message
      <4>1. from + 3 \in Nat /\ from + 3 >= 1
        BY <1>2
      <4>2. Starts(from + 3, Count + 1)
        BY <2>6 DEF Starts
      <4> QED
        BY <1>1, <3>2, <4>1, <4>2, AfterStart
    <3> QED
      BY <1>2, <3>3
  <2> QED
    BY <1>1, <1>5, <1>7, <2>2, <2>3, <2>7, <2>8, <2>9, ValueKeeps
<1> QED
  BY <1>1, <1>6, <1>7

\* More units received change nothing in it.
LEMMA CodecKeeps ==
  ASSUME CodecInv, received' \in Nat, received <= received', received' <= Len(sent),
         UNCHANGED <<messages, sent, from, mode, bytesLeft, values, torn>>
  PROVE  CodecInv'
<1>1. CodecTypes
  BY DEF CodecInv
<1>2. from \in 1..(received' + 1)
  <2>1. \A a, b \in Nat : a <= b => \A x \in 1..(a + 1) : x \in 1..(b + 1)
    OBVIOUS
  <2> QED
    BY <1>1, <2>1 DEF CodecTypes
<1>3. CodecTypes'
  BY <1>1, <1>2 DEF CodecTypes
<1>4. Count' = Count /\ \A i \in Nat : Heads(i)' = Heads(i)
  BY DEF Count, Heads
<1>5. Place => Place'
  BY <1>4 DEF Place, Starts, Latest
<1>6. InOrder => InOrder'
  BY DEF InOrder, Data
<1>7. \A i \in 1..Len(values) : i \in Nat
  BY <1>1 DEF CodecTypes
<1>8. \A i \in 1..Len(values) : EndOK(i) => EndOK(i)'
  BY <1>4, <1>7 DEF EndOK
<1>9. Len(values)' = Len(values)
  OBVIOUS
<1> QED
  BY <1>3, <1>5, <1>6, <1>8, <1>9 DEF CodecInv

\* Every step of the codec keeps the invariant.
LEMMA CodecStep == CodecInv /\ [NextCodec]_codecVars => CodecInv'
<1> SUFFICES ASSUME CodecInv, [NextCodec]_codecVars PROVE CodecInv'
  OBVIOUS
<1>1. received \in Nat /\ received <= Len(sent) /\ Len(sent) \in Nat
  BY CodecFacts DEF CodecInv
<1>2. CASE DecodeHead
  BY <1>2, HeadStep
<1>3. CASE HeadThrows
  <2>1. UNCHANGED <<messages, sent, received, from, mode, bytesLeft, values, torn>>
    BY <1>3 DEF HeadThrows, Throw
  <2> QED
    BY <1>1, <2>1, CodecKeeps
<1>4. CASE DecodeEmpty
  BY <1>4, EmptyStep
<1>5. CASE DecodeRaw
  BY <1>5, RawStep
<1>6. CASE DecodeCounted
  BY <1>6, CountedStep
<1>7. CASE DecodeLastChunk
  BY <1>7, LastChunkStep
<1>8. CASE ChunkThrows
  <2>1. UNCHANGED <<messages, sent, received, from, mode, bytesLeft, values, torn>>
    BY <1>8 DEF ChunkThrows, Throw
  <2> QED
    BY <1>1, <2>1, CodecKeeps
<1>9. CASE OnUnits
  <2>1. PICK n \in 1..(Len(sent) - received) : received' = received + n
    BY <1>9 DEF OnUnits
  <2>2. received' \in Nat /\ received <= received' /\ received' <= Len(sent)
    <3>1. \A a, b \in Nat : \A x \in 1..(b - a) : a + x \in Nat /\ a <= a + x /\ a + x <= b
      OBVIOUS
    <3> QED
      BY <1>1, <2>1, <3>1
  <2>3. UNCHANGED <<messages, sent, from, mode, bytesLeft, values, torn>>
    BY <1>9 DEF OnUnits
  <2> QED
    BY <2>2, <2>3, CodecKeeps
<1>10. CASE CutSizeThrows
  <2>1. UNCHANGED <<messages, sent, received, from, mode, bytesLeft, values, torn>>
    BY <1>10 DEF CutSizeThrows, Throw
  <2> QED
    BY <1>1, <2>1, CodecKeeps
<1>11. CASE ConcatThrows
  <2>1. UNCHANGED <<messages, sent, received, from, mode, bytesLeft, values, torn>>
    BY <1>11 DEF ConcatThrows, Throw
  <2> QED
    BY <1>1, <2>1, CodecKeeps
<1>12. CASE UNCHANGED codecVars
  <2>1. UNCHANGED <<messages, sent, received, from, mode, bytesLeft, values, torn>>
    BY <1>12 DEF codecVars
  <2> QED
    BY <1>1, <2>1, CodecKeeps
<1> QED
  BY <1>2, <1>3, <1>4, <1>5, <1>6, <1>7, <1>8, <1>9, <1>10, <1>11, <1>12
  DEF NextCodec, Decode

\* A decoder that has received nothing stands before the first message.
LEMMA CodecInit == InitCodec => CodecInv
<1> SUFFICES ASSUME InitCodec PROVE CodecInv
  OBVIOUS
<1>1. /\ messages \in Transmissions /\ sent = Wire(messages)
      /\ received = 0 /\ from = 1 /\ mode = "head" /\ bytesLeft = 0
      /\ values = <<>> /\ torn = FALSE
  BY DEF InitCodec
<1>2. Grammar(sent, messages, 1, Len(messages))
  BY <1>1, TransmissionsAssumption, WireWorks
<1>3. sent \in Seq(UnitSet) /\ Starts(1, 1)
  BY <1>2 DEF Grammar, Starts
<1>4. Len(sent) \in Nat /\ 0 <= Len(sent)
  BY <1>3
<1>5. values \in Seq(Value) /\ Len(values) = 0
  BY <1>1
<1>6. CodecTypes
  <2>1. 1 \in 1..(0 + 1) /\ 0 \in Nat
    OBVIOUS
  <2>2. received \in Nat /\ received <= Len(sent) /\ from \in 1..(received + 1)
    BY <1>1, <1>4, <2>1
  <2>3. mode \in {"head", "empty", "chunked", "counted", "raw"} /\ torn \in BOOLEAN
        /\ bytesLeft \in Nat
    BY <1>1, <2>1
  <2> QED
    BY <1>1, <1>5, <2>2, <2>3 DEF CodecTypes
<1>7. Count = 0
  <2>1. {i \in 1..0 : values[i].kind = "head"} = {}
    OBVIOUS
  <2> QED
    BY <1>5, <2>1, FS_EmptySet DEF Count, Heads
<1>8. Place
  BY <1>1, <1>3, <1>5, <1>7 DEF Place
<1>9. InOrder
  <2>1. Data = {} /\ 1..(from - 1) = {}
    BY <1>1, <1>5 DEF Data
  <2> QED
    BY <2>1 DEF InOrder
<1> QED
  BY <1>5, <1>6, <1>8, <1>9 DEF CodecInv

\* The invariant holds in every behaviour of the codec.
LEMMA CodecInvariant == SpecCodec => []CodecInv
BY CodecInit, CodecStep, PTL DEF SpecCodec

\* BytesInOrder: for any well-written messages and any chunks they come in, the
\* bytes of the bodies are given on as data, each once and in order.
THEOREM BytesKept == SpecCodec => []BytesInOrder
<1>1. CodecInv => BytesInOrder
  BY DEF CodecInv, InOrder, BytesInOrder
<1> QED
  BY <1>1, CodecInvariant, PTL

\* EndsOnce: a body ends with one empty value, when it is complete and before the
\* next head.
THEOREM BodiesEndOnce == SpecCodec => []EndsOnce
<1>1. CodecInv => EndsOnce
  BY DEF CodecInv, EndOK, EndsOnce
<1> QED
  BY <1>1, CodecInvariant, PTL

-----------------------------------------------------------------------------
\* The search for a server and the playlist.

\* The timer of ssdp.js is closed by the step that registers, and the call that it
\* makes comes back before the playlist begins; the loop of the playlist is in one
\* place: its timer, exec, a request, or an error.
SingleInv ==
  /\ registrations = IF ssdpTimer = "waiting" THEN 0 ELSE 1
  /\ registering \in 0..registrations
  /\ registering = 1 \/ registrations = 0 => connection = "undefined"
  /\ connection = "undefined" => playlistTimer = "waiting" /\ executed = <<>>
  /\ next \in Nat /\ requested \in Nat /\ commands \in Seq(Nat) /\ given \in Nat
  /\ playlistTimer = "waiting" => next = 0 /\ ~gone
  /\ requested + (IF next > 0 \/ playlistTimer = "waiting" \/ gone THEN 1 ELSE 0) = 1

\* A list of the first commands.
LEMMA FirstCommands ==
  ASSUME NEW k \in Nat, NEW s, s = [i \in 1..k |-> i]
  PROVE  s \in Seq(Nat) /\ Len(s) = k /\ \A i \in 1..k : s[i] = i
<1>1. s \in [1..k -> Nat]
  OBVIOUS
<1>2. s \in Seq(Nat)
  BY <1>1, SeqDef
<1>3. Len(s) = k
  BY <1>1
<1> QED
  BY <1>2, <1>3

\* The invariant at the start and for each step.
LEMMA SingleInit == InitPlaylist => SingleInv
BY DEF InitPlaylist, SingleInv

LEMMA SingleStep == SingleInv /\ [NextPlaylist]_playlistVars => SingleInv'
<1> SUFFICES ASSUME SingleInv, [NextPlaylist]_playlistVars PROVE SingleInv'
  OBVIOUS
<1> USE DEF SingleInv, searching, registered, playing, playlistVars
<1>1. CASE SearchStep \/ FirstStep
  BY <1>1 DEF SearchStep, SsdpTick, SsdpRegisters, FirstStep, FirstSent, FirstSendFails
<1>2. CASE AnswerLost \/ AnswerArrives
  BY <1>2 DEF AnswerLost, AnswerArrives
<1>3. CASE Registered
  <2>1. registering = 1 /\ registrations = 1 /\ registering' = 0
    BY <1>3 DEF Registered
  <2>2. connection = "undefined" /\ connection' # "undefined"
    BY <1>3, <2>1 DEF Registered
  <2>3. PICK k \in 0..Commands : given' = k /\ commands' = [i \in 1..k |-> i]
    BY <1>3 DEF Registered
  <2>4. k \in Nat /\ commands' \in Seq(Nat)
    <3>1. k \in Nat
      BY PlaylistAssumption
    <3> QED
      BY <2>3, <3>1, FirstCommands
  <2> QED
    BY <1>3, <2>1, <2>2, <2>3, <2>4 DEF Registered
<1>4. CASE RegistrationFails
  BY <1>4 DEF RegistrationFails
<1>5. CASE PlaylistBegins
  BY <1>5 DEF PlaylistBegins
<1>6. CASE Exec
  <2>1. playlistTimer # "waiting" /\ connection # "undefined"
    BY <1>6 DEF Exec
  <2> QED
    BY <1>6, <2>1 DEF Exec
<1>7. CASE ExecThrows
  BY <1>7 DEF ExecThrows
<1>8. CASE RequestCommand
  <2>1. next > 0 /\ commands' \in Seq(Nat)
    BY <1>8 DEF RequestCommand
  <2>2. playlistTimer # "waiting" /\ ~gone
    BY <1>8, <2>1 DEF RequestCommand
  <2> QED
    BY <1>8, <2>1, <2>2 DEF RequestCommand
<1>9. CASE CommandGiven
  <2>1. commands' \in Seq(Nat)
    BY <1>9 DEF CommandGiven
  <2> QED
    BY <1>9, <2>1 DEF CommandGiven
<1>10. CASE CommandFails \/ CommandUnanswered
  BY <1>10 DEF CommandFails, CommandUnanswered
<1>11. CASE UNCHANGED playlistVars
  BY <1>11
<1> QED
  BY <1>1, <1>2, <1>3, <1>4, <1>5, <1>6, <1>7, <1>8, <1>9, <1>10, <1>11
     DEF NextPlaylist, PlaylistStep, RegisterStep

\* However many answers there are, the device registers once (ssdp.js closes its
\* timer before it calls registerClient), and restartLoop, exec and the requests
\* of playlist.js never make a second loop.
THEOREM SingleLoop == SpecPlaylist => []OneOfEach
<1>1. SingleInv => OneOfEach
  BY DEF SingleInv, OneOfEach
<1> QED
  BY <1>1, SingleInit, SingleStep, PTL DEF SpecPlaylist
-----------------------------------------------------------------------------
\* The list is the last part of what has been given, and it is empty while the
\* next command is requested.
ListInv ==
  /\ Len(commands) <= given
  /\ \A i \in 1..Len(commands) : commands[i] = given - Len(commands) + i
  /\ next \in 0..(Len(commands) + 1)
  /\ next = 0 /\ playlistTimer # "waiting" => commands = <<>>
  /\ executed \in Seq(Nat)

\* The commands exec has come past: the first ones, as many as these.
Past == given - Len(commands) + (IF next = 0 THEN 0 ELSE next - 1)

\* CommandsOnce, with what exec has come past.
OnceInv ==
  /\ {executed[i] : i \in DOMAIN executed} = Active \cap 1..Past
  /\ \A i, j \in DOMAIN executed : i < j => executed[i] < executed[j]

PlayInv == SingleInv /\ ListInv /\ OnceInv

\* What CommandsOnce takes from the list is what exec has not come past.
LEMMA WaitingIsList ==
  ASSUME SingleInv, ListInv
  PROVE  LET waiting == {commands[i] : i \in (IF next = 0 THEN 1 ELSE next)..Len(commands)}
         IN {c \in Active \cap 1..given : c \notin waiting} = Active \cap 1..Past
<1> DEFINE n == Len(commands)
           b == IF next = 0 THEN 1 ELSE next
           waiting == {commands[i] : i \in b..n}
<1>1. n \in Nat /\ given \in Nat /\ n <= given /\ b \in 1..(n + 1) /\ Past = given - n + b - 1
  BY DEF SingleInv, ListInv, Past
<1>2. \A i \in b..n : commands[i] = given - n + i
  <2>1. \A i \in b..n : i \in 1..n
    BY <1>1
  <2> QED
    BY <2>1 DEF ListInv
<1> HIDE DEF n, b
<1>3. ASSUME NEW c \in 1..given PROVE c \notin waiting <=> c \in 1..Past
  <2>1. CASE c \in 1..Past
    <3>1. \A i \in b..n : given - n + i # c
      BY <1>1, <2>1
    <3> QED
      BY <1>2, <2>1, <3>1
  <2>2. CASE c \notin 1..Past
    <3>1. n - given + c \in b..n /\ given - n + (n - given + c) = c
      BY <1>1, <2>2
    <3> QED
      BY <1>2, <2>2, <3>1
  <2> QED
    BY <2>1, <2>2
<1>4. \A c \in 1..Past : c \in 1..given
  BY <1>1
<1>5. {c \in Active \cap 1..given : c \notin waiting} = Active \cap 1..Past
  BY <1>3, <1>4
<1> QED
  BY <1>5 DEF waiting, n, b

\* A command comes into the list when it is given, and leaves it executed.
LEMMA PlayStep == PlayInv /\ [NextPlaylist]_playlistVars => PlayInv'
<1> SUFFICES ASSUME PlayInv, [NextPlaylist]_playlistVars PROVE PlayInv'
  OBVIOUS
<1>1. SingleInv' /\ SingleInv /\ ListInv /\ OnceInv
  BY SingleStep DEF PlayInv
<1>2. Len(commands) \in Nat /\ given \in Nat /\ next \in Nat /\ commands \in Seq(Nat)
  BY <1>1 DEF SingleInv
<1>3. ASSUME ListInv', Past' = Past, executed' = executed
      PROVE  PlayInv'
  BY <1>1, <1>3 DEF PlayInv, OnceInv
<1>4. ASSUME UNCHANGED <<commands, next, given, executed, playlistTimer>>
      PROVE  PlayInv'
  BY <1>1, <1>3, <1>4 DEF ListInv, Past
<1>5. CASE SearchStep \/ FirstStep \/ AnswerLost \/ AnswerArrives \/ RegistrationFails
           \/ ExecThrows \/ CommandFails \/ CommandUnanswered \/ UNCHANGED playlistVars
  BY <1>4, <1>5
     DEF SearchStep, SsdpTick, SsdpRegisters, FirstStep, FirstSent, FirstSendFails,
         AnswerLost, AnswerArrives, RegistrationFails, ExecThrows, CommandFails,
         CommandUnanswered, playing, playlistVars
<1>6. CASE Registered
  <2>1. next = 0 /\ executed = <<>> /\ playlistTimer = "waiting"
    BY <1>1, <1>6 DEF Registered, SingleInv
  <2>2. PICK k \in 0..Commands : given' = k /\ commands' = [i \in 1..k |-> i]
    BY <1>6 DEF Registered
  <2>3. k \in Nat
    BY PlaylistAssumption
  <2>4. commands' \in Seq(Nat) /\ Len(commands') = k /\ \A i \in 1..k : commands'[i] = i
    BY <2>2, <2>3, FirstCommands
  <2>5. next' = 0 /\ executed' = <<>> /\ playlistTimer' = "waiting"
    BY <1>6, <2>1 DEF Registered
  <2>6. ListInv'
    BY <2>2, <2>3, <2>4, <2>5 DEF ListInv
  <2>7. Past' = 0
    BY <2>2, <2>3, <2>4, <2>5 DEF Past
  <2>8. OnceInv'
    BY <2>5, <2>7 DEF OnceInv
  <2> QED
    BY <1>1, <2>6, <2>8 DEF PlayInv
<1>7. CASE PlaylistBegins
  <2>1. next = 0 /\ next' = 1 /\ UNCHANGED <<commands, given, executed>>
    BY <1>1, <1>7 DEF PlaylistBegins, SingleInv
  <2>2. ListInv' /\ Past' = Past
    BY <1>1, <1>2, <2>1 DEF ListInv, Past
  <2> QED
    BY <1>3, <2>1, <2>2
<1>8. CASE Exec
  <2> DEFINE cmd == commands[next]
  <2>1. /\ next \in 1..Len(commands) /\ next' = next + 1
        /\ UNCHANGED <<commands, given, playlistTimer>>
        /\ executed' = IF cmd \in Active THEN Append(executed, cmd) ELSE executed
    BY <1>8 DEF Exec
  <2>2. cmd = given - Len(commands) + next
    BY <1>1, <2>1 DEF ListInv
  <2>3. /\ Past' = Past + 1 /\ cmd = Past + 1 /\ Past \in Nat /\ cmd \in Nat
        /\ Past' = cmd
    BY <1>1, <1>2, <2>1, <2>2 DEF ListInv, Past
  <2>4. 1..Past' = 1..Past \cup {cmd} /\ cmd \notin 1..Past
    BY <2>3
  <2> HIDE DEF cmd
  <2>5. executed \in Seq(Nat) /\ executed' \in Seq(Nat)
    BY <1>1, <2>1, <2>3 DEF ListInv
  <2>6. ListInv'
    BY <1>1, <1>2, <2>1, <2>5 DEF ListInv
  <2>7. CASE cmd \in Active
    <3>1. /\ Len(executed') = Len(executed) + 1 /\ executed'[Len(executed) + 1] = cmd
          /\ \A i \in 1..Len(executed) : executed'[i] = executed[i]
          /\ DOMAIN executed = 1..Len(executed)
          /\ DOMAIN executed' = 1..Len(executed) \cup {Len(executed) + 1}
      BY <2>1, <2>3, <2>5, <2>7
    <3>2. \A i \in DOMAIN executed : executed[i] \in Nat /\ executed[i] < cmd
      <4>1. \A i \in DOMAIN executed : executed[i] \in 1..Past
        BY <1>1 DEF OnceInv
      <4> QED
        BY <2>3, <4>1
    <3>3. {executed'[i] : i \in DOMAIN executed'}
            = {executed[i] : i \in DOMAIN executed} \cup {cmd}
      BY <3>1
    <3>4. Active \cap 1..Past' = (Active \cap 1..Past) \cup {cmd}
      BY <2>4, <2>7
    <3>5. \A i, j \in DOMAIN executed' : i < j => executed'[i] < executed'[j]
      BY <1>1, <3>1, <3>2 DEF OnceInv
    <3>6. OnceInv'
      BY <1>1, <3>3, <3>4, <3>5 DEF OnceInv
    <3> QED
      BY <1>1, <2>6, <3>6 DEF PlayInv
  <2>8. CASE cmd \notin Active
    <3>1. executed' = executed /\ Active \cap 1..Past' = Active \cap 1..Past
      BY <2>1, <2>4, <2>8
    <3>2. OnceInv'
      BY <1>1, <3>1 DEF OnceInv
    <3> QED
      BY <1>1, <2>6, <3>2 DEF PlayInv
  <2> QED
    BY <2>7, <2>8
<1>9. CASE RequestCommand
  <2>1. /\ next = Len(commands) + 1 /\ commands' = <<>> /\ next' = 0
        /\ given' = given /\ executed' = executed
    BY <1>9 DEF RequestCommand
  <2>2. Len(commands') = 0
    BY <2>1
  <2>3. ListInv' /\ Past' = Past
    BY <1>1, <1>2, <2>1, <2>2 DEF ListInv, Past
  <2> QED
    BY <1>3, <2>1, <2>3
<1>10. CASE CommandGiven
  <2>1. next = 0 /\ playlistTimer # "waiting"
    BY <1>1, <1>10 DEF CommandGiven, SingleInv
  <2>2. commands = <<>>
    BY <1>1, <2>1 DEF ListInv
  <2>3. /\ given' = given + 1 /\ commands' = <<given'>> /\ next' = 1
        /\ executed' = executed
    BY <1>10, <2>2 DEF CommandGiven
  <2>4. Len(commands) = 0 /\ Len(commands') = 1 /\ commands'[1] = given'
    BY <2>2, <2>3
  <2>5. ListInv' /\ Past' = Past
    BY <1>1, <1>2, <2>1, <2>3, <2>4 DEF ListInv, Past
  <2> QED
    BY <1>3, <2>3, <2>5
<1> QED
  BY <1>5, <1>6, <1>7, <1>8, <1>9, <1>10 DEF NextPlaylist, PlaylistStep, RegisterStep

\* exec and the requests of playlist.js leave no command out and repeat none.
THEOREM ExecutedOnce == SpecPlaylist => []CommandsOnce
<1>1. InitPlaylist => PlayInv
  <2> SUFFICES ASSUME InitPlaylist PROVE PlayInv
    OBVIOUS
  <2>1. executed = <<>> /\ given = 0 /\ commands = <<>> /\ next = 0
        /\ playlistTimer = "waiting"
    BY DEF InitPlaylist
  <2>2. ListInv
    BY <2>1 DEF ListInv
  <2>3. DOMAIN executed = {} /\ Past = 0
    <3>1. Len(commands) = 0 /\ Len(executed) = 0
      BY <2>1
    <3>2. DOMAIN executed = {}
      BY <2>1, <3>1
    <3>3. given = 0 /\ next = 0
      BY <2>1
    <3>4. Past = 0
      BY <3>1, <3>3 DEF Past
    <3> QED
      BY <3>2, <3>4
  <2>4. OnceInv
    BY <2>3 DEF OnceInv
  <2> QED
    BY <2>2, <2>4, SingleInit DEF PlayInv
<1>2. PlayInv => CommandsOnce
  BY WaitingIsList DEF PlayInv, OnceInv, CommandsOnce
<1> QED
  BY <1>1, <1>2, PlayStep, PTL DEF SpecPlaylist

-----------------------------------------------------------------------------
\* The references of the curl binding.

Slots(r) == 0..(Len(r) - 1)

\* A slot that is no function points to such a slot, and no two to the same but
\* at the end of the list.
PointsOn(r) ==
  \A s \in Slots(r) : At(r, s) \in Nat =>
    /\ At(r, s) \in Slots(r) /\ At(r, At(r, s)) \in Nat
    /\ \A t \in Slots(r) : At(r, t) = At(r, s) /\ At(r, s) # 0 => s = t

ListOK(r) ==
  /\ r \in Seq(Functions \cup Nat) /\ Len(r) > 0 /\ At(r, 0) \in Nat
  /\ PointsOn(r)

Slot(h, e) == container[h][e]

TypeInv ==
  /\ ListOK(refs)
  /\ container \in [Handles -> [Events -> Nat]]
  /\ set \in [Handles -> [Events -> Functions \cup {0}]]

\* A slot that is held has the function of its callback, and one holder.
HeldInv ==
  \A h \in Handles, e \in Events : Slot(h, e) # 0 =>
    /\ Slot(h, e) < Len(refs)
    /\ At(refs, Slot(h, e)) = set[h][e]
    /\ set[h][e] \in Functions
    /\ \A g \in Handles, d \in Events : Slot(g, d) = Slot(h, e) => g = h /\ d = e

\* Every slot is free, held or lost, and only one of these.
Accounts ==
  /\ Free \cup Held \cup overwritten = 1..(Len(refs) - 1)
  /\ Free \cap Held = {} /\ Free \cap overwritten = {} /\ Held \cap overwritten = {}
  /\ \A s \in overwritten : At(refs, s) \in Functions

CurlInv == TypeInv /\ HeldInv /\ Accounts

-----------------------------------------------------------------------------
\* legacy_duv_unref puts a slot with a function at the head of the list.
LEMMA UnrefList ==
  ASSUME NEW r, ListOK(r), NEW s \in Slots(r), s # 0, At(r, s) \in Functions
  PROVE  /\ ListOK(Unref(r, s)) /\ Len(Unref(r, s)) = Len(r)
         /\ \A t \in Slots(r) \ {0, s} : At(Unref(r, s), t) = At(r, t)
         /\ FreeOf(Unref(r, s)) = FreeOf(r) \cup {s}
<1> DEFINE q == Unref(r, s)
<1>1. /\ q \in Seq(Functions \cup Nat) /\ Len(q) = Len(r) /\ Slots(q) = Slots(r)
      /\ At(q, 0) = s /\ At(q, s) = At(r, 0)
      /\ \A t \in Slots(r) \ {0, s} : At(q, t) = At(r, t)
      /\ At(r, s) \notin Nat /\ At(r, 0) \in Nat /\ 0 \in Slots(r) /\ s \in Nat
      /\ Slots(r) \ {0} = 1..(Len(r) - 1)
  <2>1. /\ r \in Seq(Functions \cup Nat) /\ Len(r) \in Nat /\ Len(r) > 0 /\ r[1] \in Nat
        /\ At(r, 0) = r[1]
    BY DEF ListOK, At
  <2>2. /\ s \in Nat /\ s + 1 \in 1..Len(r) /\ 1 \in 1..Len(r) /\ s + 1 # 1 /\ 0 \in Slots(r)
        /\ Slots(r) \ {0} = 1..(Len(r) - 1)
    BY <2>1 DEF Slots
  <2>3. At(r, s) \notin Nat
    BY CurlAssumption
  <2>4. q = [r EXCEPT ![s + 1] = r[1], ![1] = s]
    BY DEF Unref
  <2> HIDE DEF q
  <2>5. q \in Seq(Functions \cup Nat) /\ Len(q) = Len(r)
    BY <2>1, <2>2, <2>4
  <2>6. q[1] = s /\ q[s + 1] = r[1] /\ \A i \in 1..Len(r) : i # 1 /\ i # s + 1 => q[i] = r[i]
    BY <2>1, <2>2, <2>4
  <2>7. ASSUME NEW t \in Slots(r) \ {0, s} PROVE At(q, t) = At(r, t)
    <3>1. t + 1 \in 1..Len(r) /\ t + 1 # 1 /\ t + 1 # s + 1
      BY <2>1, <2>2 DEF Slots
    <3> QED
      BY <2>6, <3>1 DEF At
  <2>8. At(q, 0) = s /\ At(q, s) = At(r, 0)
    BY <2>1, <2>6 DEF At
  <2>9. Slots(q) = Slots(r)
    BY <2>5 DEF Slots
  <2> QED
    BY <2>1, <2>2, <2>3, <2>5, <2>7, <2>8, <2>9
<1> HIDE DEF q
<1>2. PointsOn(r)
  BY DEF ListOK
<1>3. \A t \in Slots(r) : At(r, t) # s
  BY <1>1, <1>2 DEF PointsOn
<1>4. PointsOn(q)
  <2>1. ASSUME NEW t \in Slots(r), At(q, t) \in Nat
        PROVE  /\ At(q, t) \in Slots(r) /\ At(q, At(q, t)) \in Nat
               /\ \A u \in Slots(r) : At(q, u) = At(q, t) /\ At(q, t) # 0 => t = u
    <3>1. CASE t = 0
      BY <1>1, <1>3, <3>1
    <3>2. CASE t = s
      BY <1>1, <1>2, <1>3, <3>2 DEF PointsOn
    <3>3. CASE t \notin {0, s}
      BY <1>1, <1>2, <1>3, <2>1, <3>3 DEF PointsOn
    <3> QED
      BY <3>1, <3>2, <3>3
  <2> QED
    BY <1>1, <2>1 DEF PointsOn
<1>5. ListOK(q)
  BY <1>1, <1>4 DEF ListOK
<1>6. ASSUME NEW t \in FreeOf(q), t # s PROVE t \in FreeOf(r)
  <2>1. ASSUME NEW C \in SUBSET Slots(r), 0 \in C, Follows(C, r)
        PROVE  t \in C
    <3>1. Follows(C \cup {s}, q)
      BY <1>1, <2>1 DEF Follows
    <3>2. C \cup {s} \in SUBSET Slots(q)
      BY <1>1
    <3> QED
      BY <1>6, <2>1, <3>1, <3>2 DEF FreeOf, Slots
  <2> QED
    BY <1>1, <2>1 DEF FreeOf, Slots
<1>7. ASSUME NEW t \in FreeOf(r) \cup {s} PROVE t \in FreeOf(q)
  <2>1. ASSUME NEW C \in SUBSET Slots(r), 0 \in C, Follows(C, q)
        PROVE  t \in C
    <3>1. s \in C /\ At(r, 0) \in C
      BY <1>1, <2>1 DEF Follows
    <3>2. Follows(C, r)
      BY <1>1, <2>1, <3>1 DEF Follows
    <3> QED
      BY <2>1, <3>1, <3>2 DEF FreeOf, Slots
  <2>2. t \in 1..(Len(q) - 1)
    BY <1>1 DEF FreeOf
  <2> QED
    BY <1>1, <2>1, <2>2 DEF FreeOf, Slots
<1>8. FreeOf(q) = FreeOf(r) \cup {s}
  BY <1>6, <1>7
<1> QED
  BY <1>1, <1>5, <1>8 DEF q

\* legacy_duv_ref takes the head of the list, or a new slot.
LEMMA RefList ==
  ASSUME TypeInv, NEW f \in Functions
  PROVE  /\ ListOK(Ref(f)) /\ RefSlot \in Slots(Ref(f)) \ {0}
         /\ At(Ref(f), RefSlot) = f
         /\ \A t \in Slots(refs) \ {0, RefSlot} : At(Ref(f), t) = At(refs, t)
         /\ FreeOf(Ref(f)) = Free \ {RefSlot}
         /\ Slots(Ref(f)) = Slots(refs) \cup {RefSlot}
         /\ RefSlot \in Free \/ RefSlot = Len(refs)
<1> DEFINE q == Ref(f)
<1> DEFINE s == refs[1]
<1>1. /\ s = At(refs, 0) /\ s \in Nat /\ 0 \in Slots(refs) /\ PointsOn(refs)
      /\ f \notin Nat
  BY CurlAssumption DEF TypeInv, ListOK, Slots, At
<1>2. CASE s = 0
  <2>1. /\ q \in Seq(Functions \cup Nat) /\ RefSlot = Len(refs)
        /\ Slots(q) = Slots(refs) \cup {RefSlot} /\ RefSlot \notin Slots(refs)
        /\ At(q, RefSlot) = f /\ Len(q) > 0 /\ RefSlot \in Slots(q) \ {0}
        /\ \A t \in Slots(refs) : At(q, t) = At(refs, t)
    BY <1>2 DEF TypeInv, ListOK, Ref, RefSlot, Slots, At
  <2> HIDE DEF q
  <2>2. ListOK(q)
    BY <1>1, <2>1 DEF ListOK, PointsOn
  <2>3. Follows({0}, refs) /\ Follows({0}, q)
    BY <1>1, <1>2, <2>1 DEF Follows
  <2>4. {0} \in SUBSET Slots(refs) /\ {0} \in SUBSET Slots(q)
    BY <1>1, <2>1
  <2>5. FreeOf(refs) = {} /\ FreeOf(q) = {}
    BY <2>3, <2>4 DEF FreeOf, Slots
  <2> QED
    BY <2>1, <2>2, <2>5 DEF Free, q
<1>3. CASE s # 0
  <2>1. s \in Slots(refs) /\ At(refs, s) \in Nat
    BY <1>1 DEF PointsOn
  <2>2. /\ q \in Seq(Functions \cup Nat) /\ Len(q) > 0 /\ RefSlot = s
        /\ Slots(q) = Slots(refs)
        /\ At(q, s) = f /\ At(q, 0) = At(refs, s)
        /\ \A t \in Slots(refs) \ {0, s} : At(q, t) = At(refs, t)
    BY <1>3, <2>1 DEF TypeInv, ListOK, Ref, RefSlot, Slots, At
  <2> HIDE DEF q, s
  <2>3. \A t \in Slots(refs) : At(refs, t) = s => t = 0
    BY <1>1, <1>3 DEF PointsOn
  <2>4. ASSUME NEW t \in Slots(q), At(q, t) \in Nat
        PROVE  /\ At(q, t) \in Slots(q) /\ At(q, At(q, t)) \in Nat /\ At(q, t) # s
               /\ \A u \in Slots(q) : At(q, u) = At(q, t) /\ At(q, t) # 0 => t = u
    <3>1. CASE t = 0
      BY <1>1, <1>3, <2>1, <2>2, <2>3, <3>1 DEF PointsOn
    <3>2. CASE t \notin {0, s}
      <4>1. /\ At(q, t) = At(refs, t) /\ At(refs, t) \in Slots(refs)
            /\ At(refs, At(refs, t)) \in Nat /\ At(q, t) # s
            /\ \A u \in Slots(refs) : At(refs, u) = At(refs, t) /\ At(refs, t) # 0 => t = u
        BY <1>1, <2>2, <2>3, <2>4, <3>2 DEF PointsOn
      <4>2. At(q, At(q, t)) \in Nat
        BY <2>1, <2>2, <4>1
      <4>3. ASSUME NEW u \in Slots(q), At(q, u) = At(q, t), At(q, t) # 0 PROVE t = u
        BY <1>1, <2>1, <2>2, <2>4, <3>2, <4>1, <4>3
      <4> QED
        BY <2>2, <4>1, <4>2, <4>3
    <3> QED
      BY <1>1, <2>2, <2>4, <3>1, <3>2
  <2>5. ListOK(q)
    BY <1>1, <2>1, <2>2, <2>4 DEF ListOK, PointsOn
  <2>6. ASSUME NEW t \in FreeOf(q) PROVE t \in FreeOf(refs) \ {s}
    <3>1. t # s
      <4>1. Follows(Slots(q) \ {s}, q)
        BY <2>4 DEF Follows
      <4>2. 0 \in Slots(q) \ {s} /\ Slots(q) \ {s} \in SUBSET Slots(q)
        BY <1>1, <1>3, <2>2
      <4> QED
        BY <4>1, <4>2 DEF FreeOf, Slots
    <3>2. ASSUME NEW C \in SUBSET Slots(refs), 0 \in C, Follows(C, refs)
          PROVE  t \in C
      <4>1. s \in C /\ Follows(C, q)
        BY <1>1, <2>1, <2>2, <3>2 DEF Follows
      <4> QED
        BY <2>2, <3>2, <4>1 DEF FreeOf, Slots
    <3>3. t \in 1..(Len(refs) - 1)
      <4>1. t \in Slots(refs) /\ t \in Nat /\ t # 0
        BY <2>2 DEF FreeOf, Slots
      <4> QED
        BY <4>1 DEF Slots
    <3> QED
      BY <3>1, <3>2, <3>3 DEF FreeOf, Slots
  <2>7. ASSUME NEW t \in FreeOf(refs), t # s PROVE t \in FreeOf(q)
    <3>1. ASSUME NEW C \in SUBSET Slots(q), 0 \in C, Follows(C, q)
          PROVE  t \in C
      <4>1. Follows(C \cup {s}, refs)
        BY <1>1, <2>1, <2>2, <3>1 DEF Follows
      <4>2. C \cup {s} \in SUBSET Slots(refs)
        BY <2>1, <2>2
      <4> QED
        BY <2>7, <3>1, <4>1, <4>2 DEF FreeOf, Slots
    <3>2. t \in 1..(Len(q) - 1)
      <4>1. t \in Slots(q) /\ t \in Nat /\ t # 0
        BY <2>2 DEF FreeOf, Slots
      <4> QED
        BY <4>1 DEF Slots
    <3> QED
      BY <3>1, <3>2 DEF FreeOf, Slots
  <2>8. s \in FreeOf(refs)
    <3>1. \A C \in SUBSET Slots(refs) : 0 \in C /\ Follows(C, refs) => s \in C
      BY <1>1 DEF Follows
    <3>2. s \in 1..(Len(refs) - 1)
      BY <1>3, <2>1 DEF Slots
    <3> QED
      BY <3>1, <3>2 DEF FreeOf, Slots
  <2>9. FreeOf(q) = FreeOf(refs) \ {s}
    BY <2>6, <2>7
  <2> QED
    BY <1>3, <2>1, <2>2, <2>5, <2>8, <2>9 DEF Free, q
<1> QED
  BY <1>2, <1>3

\* The same with the slot 0 of no callback, for which nothing is done.
LEMMA UnrefAny ==
  ASSUME NEW r, ListOK(r), NEW s \in Slots(r), s = 0 \/ At(r, s) \in Functions
  PROVE  /\ ListOK(Unref(r, s)) /\ Len(Unref(r, s)) = Len(r)
         /\ \A t \in Slots(r) \ {0, s} : At(Unref(r, s), t) = At(r, t)
         /\ FreeOf(Unref(r, s)) = FreeOf(r) \cup ({s} \ {0})
<1>1. CASE s = 0
  BY <1>1 DEF Unref, FreeOf
<1>2. CASE s # 0
  <2>1. FreeOf(Unref(r, s)) = FreeOf(r) \cup {s}
    BY <1>2, UnrefList
  <2> QED
    BY <1>2, <2>1, UnrefList
<1> QED
  BY <1>1, <1>2
-----------------------------------------------------------------------------
\* The array begins with the end of the list in slot 0.
LEMMA CurlInit == InitCurl => CurlInv
<1> SUFFICES ASSUME InitCurl PROVE CurlInv
  OBVIOUS
<1>1. /\ refs = <<0>> /\ Slots(refs) = {0} /\ At(refs, 0) = 0
      /\ 1..(Len(refs) - 1) = {}
  BY DEF InitCurl, Slots, At
<1>2. TypeInv
  BY <1>1 DEF InitCurl, NoSlots, TypeInv, ListOK, PointsOn
<1>3. HeldInv
  BY DEF InitCurl, NoSlots, HeldInv, Slot
<1>4. Held = {} /\ Free = {} /\ overwritten = {}
  BY <1>1 DEF InitCurl, NoSlots, Held, Free, FreeOf
<1> QED
  BY <1>1, <1>2, <1>3, <1>4 DEF CurlInv, Accounts

\* A slot that is given has been held by nobody.
LEMMA SetKeeps ==
  ASSUME CurlInv, NEW h \in Handles, NEW e \in Events, NEW f \in Functions,
         SetCallback(h, e, f)
  PROVE  CurlInv'
<1> DEFINE s == RefSlot
           old == container[h][e]
<1>1. /\ ListOK(refs') /\ s \in Slots(refs') \ {0} /\ At(refs', s) = f
      /\ \A t \in Slots(refs) \ {0, s} : At(refs', t) = At(refs, t)
      /\ Free' = Free \ {s} /\ Slots(refs') = Slots(refs) \cup {s}
      /\ s \in Free \/ s = Len(refs)
  BY RefList DEF CurlInv, SetCallback, Free
<1>2. /\ s \in Nat /\ Len(refs) \in Nat /\ Len(refs) > 0 /\ Len(refs') \in Nat
      /\ Slots(refs) = 0..(Len(refs) - 1) /\ Slots(refs') = 0..(Len(refs') - 1)
  BY <1>1 DEF CurlInv, TypeInv, ListOK, Slots
<1> HIDE DEF s
<1>3. /\ container' \in [Handles -> [Events -> Nat]]
      /\ set' \in [Handles -> [Events -> Functions \cup {0}]]
      /\ \A g \in Handles, d \in Events :
           /\ Slot(g, d) \in Nat
           /\ Slot(g, d)' = IF g = h /\ d = e THEN s ELSE Slot(g, d)
           /\ set'[g][d] = IF g = h /\ d = e THEN f ELSE set[g][d]
  BY <1>2 DEF CurlInv, TypeInv, SetCallback, Slot, s
<1>4. \A g \in Handles, d \in Events : Slot(g, d) # 0 => Slot(g, d) # s
  <2> SUFFICES ASSUME NEW g \in Handles, NEW d \in Events, Slot(g, d) # 0
               PROVE  Slot(g, d) # s
    OBVIOUS
  <2>1. Slot(g, d) \in Held /\ Slot(g, d) < Len(refs)
    BY DEF CurlInv, HeldInv, Held, Slot
  <2> QED
    BY <1>1, <1>2, <1>3, <2>1 DEF CurlInv, Accounts
<1>5. TypeInv'
  BY <1>1, <1>3 DEF TypeInv
<1>6. HeldInv'
  <2> SUFFICES ASSUME NEW g \in Handles, NEW d \in Events, Slot(g, d)' # 0
               PROVE  /\ Slot(g, d)' < Len(refs')
                      /\ At(refs', Slot(g, d)') = set'[g][d]
                      /\ set'[g][d] \in Functions
                      /\ \A k \in Handles, c \in Events :
                           Slot(k, c)' = Slot(g, d)' => k = g /\ c = d
    BY DEF HeldInv
  <2>1. CASE g = h /\ d = e
    <3>1. Slot(g, d)' = s /\ set'[g][d] = f
      BY <1>3, <2>1
    <3>2. s < Len(refs')
      BY <1>1, <1>2
    <3>3. s # 0
      BY <1>1
    <3> QED
      BY <1>1, <1>3, <1>4, <2>1, <3>1, <3>2, <3>3
  <2>2. CASE ~(g = h /\ d = e)
    <3>1. Slot(g, d)' = Slot(g, d) /\ set'[g][d] = set[g][d] /\ Slot(g, d) # s
      BY <1>3, <1>4, <2>2
    <3>2. /\ Slot(g, d) < Len(refs) /\ At(refs, Slot(g, d)) = set[g][d]
          /\ set[g][d] \in Functions
          /\ \A k \in Handles, c \in Events :
               Slot(k, c) = Slot(g, d) => k = g /\ c = d
      BY <3>1 DEF CurlInv, HeldInv
    <3>3. Slot(g, d) \in Slots(refs) \ {0, s} /\ Slot(g, d) < Len(refs')
      BY <1>1, <1>2, <1>3, <3>1, <3>2
    <3> QED
      BY <1>1, <1>3, <2>2, <3>1, <3>2, <3>3
  <2> QED
    BY <2>1, <2>2
<1>7. Accounts'
  <2>1. old = Slot(h, e) /\ overwritten' = overwritten \cup ({old} \ {0})
    BY DEF SetCallback, Slot
  <2>2. old # 0 => At(refs, old) \in Functions /\ old < Len(refs) /\ old \in Held
    BY <2>1 DEF CurlInv, HeldInv, Held, Slot
  <2>3. Held' = (Held \ {old}) \cup {s}
    <3>1. ASSUME NEW t \in Held' PROVE t \in (Held \ {old}) \cup {s}
      <4>1. PICK g \in Handles, d \in Events : t = Slot(g, d)' /\ t # 0
        BY <3>1 DEF Held, Slot
      <4>2. CASE g = h /\ d = e
        BY <1>3, <4>1, <4>2
      <4>3. CASE ~(g = h /\ d = e)
        <5>1. t = Slot(g, d) /\ t # 0 /\ t # old
          BY <1>3, <2>1, <4>1, <4>3 DEF CurlInv, HeldInv
        <5> QED
          BY <5>1 DEF Held, Slot
      <4> QED
        BY <4>2, <4>3
    <3>2. ASSUME NEW t \in (Held \ {old}) \cup {s} PROVE t \in Held'
      <4>1. CASE t = s
        <5>1. t = Slot(h, e)' /\ t # 0
          BY <1>1, <1>3, <4>1
        <5> QED
          BY <5>1 DEF Held, Slot
      <4>2. CASE t # s
        <5>1. PICK g \in Handles, d \in Events : t = Slot(g, d) /\ t # 0
          BY <3>2, <4>2 DEF Held, Slot
        <5>2. t = Slot(g, d)'
          BY <1>3, <2>1, <3>2, <4>2, <5>1
        <5> QED
          BY <5>1, <5>2 DEF Held, Slot
      <4> QED
        BY <4>1, <4>2
    <3> QED
      BY <3>1, <3>2
  <2>4. s \notin Held /\ s \notin overwritten /\ s # 0
    BY <1>1, <1>2 DEF CurlInv, Accounts
  <2>5. 1..(Len(refs') - 1) = 1..(Len(refs) - 1) \cup {s}
    <3>1. 1..(Len(refs') - 1) = Slots(refs') \ {0} /\ 1..(Len(refs) - 1) = Slots(refs) \ {0}
      BY <1>2
    <3> QED
      BY <1>1, <2>4, <3>1
  <2>6. \A t \in overwritten' : At(refs', t) \in Functions
    <3>1. \A t \in overwritten' : t \in Slots(refs) \ {0, s} /\ At(refs, t) \in Functions
      <4>1. overwritten \subseteq Slots(refs) \ {0}
        BY <1>2 DEF CurlInv, Accounts
      <4>2. old # 0 => old \in Slots(refs) \ {0} /\ old # s
        BY <1>2, <1>3, <1>4, <2>1, <2>2
      <4> QED
        BY <2>1, <2>2, <2>4, <4>1, <4>2 DEF CurlInv, Accounts
    <3> QED
      BY <1>1, <3>1
  <2>7. /\ Free' \cup Held' \cup overwritten' = 1..(Len(refs') - 1)
        /\ Free' \cap Held' = {} /\ Free' \cap overwritten' = {}
        /\ Held' \cap overwritten' = {}
    <3>1. 0 \notin Held /\ old \in Held \cup {0} /\ old # s
      BY <2>2, <2>4 DEF Held
    <3>2. /\ Free \cup Held \cup overwritten = 1..(Len(refs) - 1)
          /\ Free \cap Held = {} /\ Free \cap overwritten = {}
          /\ Held \cap overwritten = {}
      BY DEF CurlInv, Accounts
    <3> HIDE DEF old
    <3> QED
      BY <1>1, <2>1, <2>3, <2>4, <2>5, <3>1, <3>2
  <2> QED
    BY <2>6, <2>7 DEF Accounts
<1> QED
  BY <1>5, <1>6, <1>7 DEF CurlInv

\* The finaliser gives the slots of its handle back, each once.
LEMMA CleanupKeeps ==
  ASSUME CurlInv, NEW h \in Handles, Cleanup(h)
  PROVE  CurlInv'
<1> DEFINE a == Slot(h, "write")
           b == Slot(h, "header")
           c == Slot(h, "read")
           r == Unref(refs, a)
           q == Unref(r, b)
           mine == {a, b, c} \ {0}
<1>1. \A e \in Events : Slot(h, e) \in Slots(refs) /\ Slot(h, e) \in Nat
      /\ (Slot(h, e) = 0 \/ At(refs, Slot(h, e)) \in Functions)
  BY DEF CurlInv, TypeInv, HeldInv, ListOK, Slots, Slot
<1>2. \A e, d \in Events : Slot(h, e) = Slot(h, d) /\ Slot(h, e) # 0 => e = d
  BY DEF CurlInv, HeldInv
<1>3. /\ ListOK(r) /\ Len(r) = Len(refs) /\ Slots(r) = Slots(refs)
      /\ \A t \in Slots(refs) \ {0, a} : At(r, t) = At(refs, t)
      /\ FreeOf(r) = Free \cup ({a} \ {0})
  BY <1>1, UnrefAny, CurlAssumption DEF CurlInv, TypeInv, Slots, Free
<1>4. /\ ListOK(q) /\ Len(q) = Len(refs) /\ Slots(q) = Slots(refs)
      /\ \A t \in Slots(refs) \ {0, a, b} : At(q, t) = At(refs, t)
      /\ FreeOf(q) = Free \cup ({a, b} \ {0})
  <2>1. b \in Slots(r) /\ (b = 0 \/ At(r, b) \in Functions)
    BY <1>1, <1>2, <1>3, CurlAssumption
  <2> HIDE DEF r, a, b
  <2>2. /\ ListOK(q) /\ Len(q) = Len(r)
        /\ \A t \in Slots(r) \ {0, b} : At(q, t) = At(r, t)
        /\ FreeOf(q) = FreeOf(r) \cup ({b} \ {0})
    BY <1>3, <2>1, UnrefAny
  <2> HIDE DEF q
  <2> QED
    BY <1>3, <2>2 DEF Slots
<1>5. /\ ListOK(refs') /\ Len(refs') = Len(refs) /\ Slots(refs') = Slots(refs)
      /\ \A t \in Slots(refs) \ {0, a, b, c} : At(refs', t) = At(refs, t)
      /\ Free' = Free \cup mine
  <2>1. c \in Slots(q) /\ (c = 0 \/ At(q, c) \in Functions)
    BY <1>1, <1>2, <1>4, CurlAssumption
  <2>2. refs' = Unref(q, c)
    BY DEF Cleanup, Slot
  <2> HIDE DEF q, a, b, c
  <2>3. /\ ListOK(refs') /\ Len(refs') = Len(q)
        /\ \A t \in Slots(q) \ {0, c} : At(refs', t) = At(q, t)
        /\ FreeOf(refs') = FreeOf(q) \cup ({c} \ {0})
    BY <1>4, <2>1, <2>2, UnrefAny
  <2> QED
    BY <1>4, <2>3 DEF Slots, Free
<1>6. /\ container' \in [Handles -> [Events -> Nat]]
      /\ set' \in [Handles -> [Events -> Functions \cup {0}]]
      /\ \A g \in Handles, d \in Events :
           /\ Slot(g, d)' = IF g = h THEN 0 ELSE Slot(g, d)
           /\ set'[g][d] = IF g = h THEN 0 ELSE set[g][d]
  BY DEF CurlInv, TypeInv, Cleanup, NoSlots, Slot
<1>7. TypeInv'
  BY <1>5, <1>6 DEF TypeInv
<1>8. \A g \in Handles \ {h}, d \in Events : Slot(g, d) # 0 => Slot(g, d) \notin {a, b, c}
  BY CurlAssumption DEF CurlInv, HeldInv
<1>9. HeldInv'
  <2> SUFFICES ASSUME NEW g \in Handles, NEW d \in Events, Slot(g, d)' # 0
               PROVE  /\ Slot(g, d)' < Len(refs')
                      /\ At(refs', Slot(g, d)') = set'[g][d]
                      /\ set'[g][d] \in Functions
                      /\ \A k \in Handles, e \in Events :
                           Slot(k, e)' = Slot(g, d)' => k = g /\ e = d
    BY DEF HeldInv
  <2>1. g # h /\ Slot(g, d)' = Slot(g, d) /\ set'[g][d] = set[g][d] /\ Slot(g, d) # 0
    BY <1>6
  <2>2. /\ Slot(g, d) < Len(refs) /\ At(refs, Slot(g, d)) = set[g][d]
        /\ set[g][d] \in Functions
        /\ \A k \in Handles, e \in Events : Slot(k, e) = Slot(g, d) => k = g /\ e = d
    BY <2>1 DEF CurlInv, HeldInv
  <2>3. Slot(g, d) \in Slots(refs) \ {0, a, b, c}
    <3>1. Slot(g, d) \in Slots(refs)
      BY <2>2 DEF CurlInv, TypeInv, ListOK, Slots, Slot
    <3> QED
      BY <1>8, <2>1, <3>1
  <2> QED
    BY <1>5, <1>6, <2>1, <2>2, <2>3
<1>10. Accounts'
  <2>1. Held' = Held \ mine
    <3>1. ASSUME NEW t \in Held' PROVE t \in Held \ mine
      <4>1. PICK g \in Handles, d \in Events : t = Slot(g, d)' /\ t # 0
        BY <3>1 DEF Held, Slot
      <4>2. g # h /\ t = Slot(g, d)
        BY <1>6, <4>1
      <4> QED
        BY <1>8, <4>1, <4>2 DEF Held, Slot
    <3>2. ASSUME NEW t \in Held \ mine PROVE t \in Held'
      <4>1. PICK g \in Handles, d \in Events : t = Slot(g, d) /\ t # 0
        BY <3>2 DEF Held, Slot
      <4>2. g # h
        BY <3>2, <4>1, CurlAssumption
      <4>3. t = Slot(g, d)'
        BY <1>6, <4>1, <4>2
      <4> QED
        BY <4>1, <4>3 DEF Held, Slot
    <3> QED
      BY <3>1, <3>2
  <2>2. mine \subseteq Held
    BY CurlAssumption DEF Held, Slot
  <2>3. overwritten' = overwritten
    BY DEF Cleanup
  <2>4. /\ Free' \cup Held' \cup overwritten' = 1..(Len(refs') - 1)
        /\ Free' \cap Held' = {} /\ Free' \cap overwritten' = {}
        /\ Held' \cap overwritten' = {}
    <3> HIDE DEF mine
    <3> QED
      BY <1>5, <2>1, <2>2, <2>3 DEF CurlInv, Accounts
  <2>5. \A t \in overwritten' : At(refs', t) \in Functions
    <3>1. overwritten \cap mine = {} /\ overwritten \subseteq Slots(refs) \ {0}
      <4>1. overwritten \subseteq Slots(refs) \ {0}
        BY DEF CurlInv, TypeInv, Accounts, ListOK, Slots
      <4> HIDE DEF mine
      <4> QED
        BY <2>2, <4>1 DEF CurlInv, Accounts
    <3>2. overwritten \subseteq Slots(refs) \ {0, a, b, c}
      BY <3>1
    <3> QED
      BY <1>5, <2>3, <3>2 DEF CurlInv, Accounts
  <2> QED
    BY <2>4, <2>5 DEF Accounts
<1> QED
  BY <1>7, <1>9, <1>10 DEF CurlInv

\* Every step of a script keeps the invariant.
LEMMA CurlStep == CurlInv /\ [NextCurl]_curlVars => CurlInv'
<1> SUFFICES ASSUME CurlInv, [NextCurl]_curlVars PROVE CurlInv'
  OBVIOUS
<1>1. ASSUME NEW h \in Handles, NEW e \in Events, NEW f \in Functions,
             SetCallback(h, e, f)
      PROVE  CurlInv'
  BY <1>1, SetKeeps
<1>2. ASSUME NEW h \in Handles, Cleanup(h) PROVE CurlInv'
  BY <1>2, CleanupKeeps
<1>3. CASE UNCHANGED curlVars
  BY <1>3 DEF curlVars, CurlInv, TypeInv, HeldInv, Accounts, Slot, Free, Held
<1> QED
  BY <1>1, <1>2, <1>3 DEF NextCurl

\* Whatever handles set, set again and collect, legacy_duv_ref gives no slot that
\* another callback holds, and the function in a slot is the one set last.
THEOREM RightCallback == SpecCurl => []CallsWhatIsSet
<1>1. CurlInv => CallsWhatIsSet
  BY DEF CurlInv, HeldInv, Accounts, CallsWhatIsSet, Slot
<1> QED
  BY <1>1, CurlInit, CurlStep, PTL DEF SpecCurl

-----------------------------------------------------------------------------
\* The four parts in one behaviour.

\* Every behaviour of the loop is one of each part: the other parts stutter.
LEMMA LoopIsParts ==
  LoopSpec => Spec /\ SpecCodec /\ SpecPlaylist /\ SpecCurl
<1>1. LoopInit => Init /\ InitCodec /\ InitPlaylist /\ InitCurl
  BY DEF LoopInit
<1>2. [LoopNext]_loopVars =>
        /\ [Next]_vars /\ [NextCodec]_codecVars
        /\ [NextPlaylist]_playlistVars /\ [NextCurl]_curlVars
  BY DEF LoopNext, loopVars
<1> QED
  BY <1>1, <1>2, PTL DEF LoopSpec, Spec, SpecCodec, SpecPlaylist, SpecCurl

\* The invariants of the run, in the behaviours it checks.
THEOREM LoopIsSafe ==
  LoopSpec => [](/\ ReadsInOrder /\ BackPressure /\ ClosedOnce
                 /\ BytesInOrder /\ EndsOnce
                 /\ OneOfEach /\ CommandsOnce /\ CallsWhatIsSet)
BY LoopIsParts, ReadInOrder, BackPressureHolds, ClosedAfterEnds, BytesKept,
   BodiesEndOnce, SingleLoop, ExecutedOnce, RightCallback, PTL
=============================================================================
