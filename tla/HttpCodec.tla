----------------------------- MODULE HttpCodec -----------------------------
(***************************************************************************)
(* The decoder of etc/wallyd.d/modules/http-codec.js, driven as the loop   *)
(* process of wrap-socket.js drives it, with a reader for every value.     *)
(*                                                                         *)
(* What the peer sends is a sequence of units: the start and the end of a  *)
(* head, a byte of a body, the size of a chunk, the rest of the size line, *)
(* and the line break after the chunk.  A value is known by the units it   *)
(* was made of.  Bodies do not begin with a line break.                    *)
(***************************************************************************)
EXTENDS Integers, SequencesExt

CONSTANTS
  Transmissions,  \* what peers may send: sequences of messages
  None,           \* no Content-Length
  HeadLimit       \* 8K

ASSUME CodecAssumption == HeadLimit \in Nat \ {0}

VARIABLES
  joins,      \* Buffer.concat takes two buffers, and not a list of buffers
  messages,   \* what the peer sends
  sent,       \* the units of it
  received,   \* units received
  from,       \* the first unit of readBuffer, which ends at received
  form,       \* "undefined", "string" (an empty one) or "buffer"
  mode, bytesLeft,
  values,     \* the values decoded: [kind, first, last]
  torn,       \* a body has been cut off from what came with it
  error

codecVars == <<joins, messages, sent, received, from, form, mode, bytesLeft,
               values, torn, error>>

Unit(kind, m, n) == [kind |-> kind, message |-> m, n |-> n]

Body(message, m) ==
  IF message.chunked
    THEN FlattenSeq([c \in 1..Len(message.body) |->
           <<Unit("size", m, message.body[c]), Unit("line", m, 0)>>
             \o [i \in 1..message.body[c] |-> Unit("byte", m, i)]
             \o <<Unit("break", m, 0)>>])
    ELSE [i \in 1..message.body |-> Unit("byte", m, i)]

Wire(ms) == FlattenSeq([m \in 1..Len(ms) |->
  [i \in 1..(IF ms[m].long THEN HeadLimit ELSE 1) |-> Unit("start", m, i)]
    \o <<Unit("head", m, 0)>> \o Body(ms[m], m)])

\* A body without a length ends with the connection.
Raw(message) ==
  ~message.keepAlive /\ ~message.get /\ ~message.chunked /\ message.length = None

ModeAfter(message) ==
  IF IF message.keepAlive
       THEN ~message.chunked /\ message.length \in {None, 0}
       ELSE message.get
    THEN "empty"
  ELSE IF message.chunked THEN "chunked"
  ELSE IF message.length # None THEN "counted"
  ELSE "raw"

\* A peer writes what the head announces, ends its chunks with an empty one and
\* sends nothing after a message that the end of the connection ends.
WellWritten(ms) ==
  /\ Len(ms) \in Nat /\ DOMAIN ms = 1..Len(ms)
  /\ \A m \in 1..Len(ms) :
       LET message == ms[m]
           body == message.body
       IN CASE ModeAfter(message) = "empty" -> ~message.chunked /\ body = 0
            [] ModeAfter(message) = "chunked" ->
                 /\ body \in Seq(Nat) /\ Len(body) > 0
                 /\ \A c \in 1..Len(body) : body[c] = 0 <=> c = Len(body)
            [] ModeAfter(message) = "counted" -> body \in Nat /\ body = message.length
            [] ModeAfter(message) = "raw" -> body \in Nat /\ m = Len(ms)

ASSUME TransmissionsAssumption == \A ms \in Transmissions : WellWritten(ms)

\* The runtime is not part of this repository: joins is what its Buffer.concat
\* makes of the call concat(buffer, chunk).
InitCodec ==
  /\ joins \in BOOLEAN
  /\ messages \in Transmissions /\ sent = Wire(messages)
  /\ received = 0 /\ from = 1 /\ form = "undefined"
  /\ mode = "head" /\ bytesLeft = 0
  /\ values = <<>> /\ torn = FALSE /\ error = "none"

Length == received - from + 1
-----------------------------------------------------------------------------
\* What a decoder returns: a value of the first n units, the rest after skip
\* more, and whether the rest is a string or a buffer.
Give(kind, n, skip, rest) ==
  /\ values' = Append(values, [kind |-> kind, first |-> from, last |-> from + n - 1])
  /\ from' = from + n + skip
  /\ form' = rest
  /\ UNCHANGED <<joins, messages, sent, received, error>>

Throw(what) ==
  /\ error' = what
  /\ UNCHANGED <<joins, messages, sent, received, from, form, mode, bytesLeft,
                 values, torn>>

Decoding(m) == mode = m /\ error = "none" /\ form # "undefined"

AtHead == sent[from].kind = "start" /\ sent[from].n = 1

HeadEnds == {i \in from..received : sent[i].kind = "head"}

DecodeHead ==
  /\ Decoding("head") /\ HeadEnds # {} /\ AtHead
  /\ LET at == Min(HeadEnds)
         message == messages[sent[at].message]
     IN /\ mode' = ModeAfter(message)
        /\ bytesLeft' = IF mode' = "counted" THEN message.length ELSE bytesLeft
        /\ Give("head", at - from + 1, 0, "buffer")
  /\ UNCHANGED torn

HeadThrows ==
  /\ Decoding("head")
  /\ \/ /\ HeadEnds # {} /\ ~AtHead
        /\ Throw("expected HTTP data")
     \/ /\ HeadEnds = {} /\ Length >= HeadLimit
        /\ Throw("entity too large")

\* Faulty variant: the next value is taken for the end of the same body.
DecodeEmpty_Stays ==
  /\ Decoding("empty") \/ (Decoding("counted") /\ bytesLeft = 0)
  /\ Give("end", 0, 0, form)
  /\ UNCHANGED <<mode, bytesLeft, torn>>

\* A string that is given an empty string instead of nothing stays one.
DecodeEmpty ==
  /\ Decoding("empty") \/ (Decoding("counted") /\ bytesLeft = 0)
  /\ mode' = "head"
  /\ Give("end", 0, 0, form)
  /\ UNCHANGED <<bytesLeft, torn>>

\* The empty string left by the last call is falsy, an empty buffer is not.
DecodeRaw ==
  /\ Decoding("raw")
  /\ \/ /\ form = "string"
        /\ Give("end", 0, 0, "undefined")
     \/ /\ form = "buffer" /\ Length > 0
        /\ Give("data", Length, 0, "string")
  /\ UNCHANGED <<mode, bytesLeft, torn>>

\* Faulty variant: the whole of the buffer, to the end of the body and beyond.
DecodeCounted_Greedy ==
  /\ Decoding("counted") /\ bytesLeft > 0 /\ Length > 0
  /\ mode' = IF Length >= bytesLeft THEN "empty" ELSE mode
  /\ Give("data", Length, 0, "string")
  /\ bytesLeft' = bytesLeft - Length
  /\ UNCHANGED torn

\* What follows the body in the same buffer is cut one byte too late.
DecodeCounted ==
  /\ Decoding("counted") /\ bytesLeft > 0 /\ Length > 0
  /\ mode' = IF Length >= bytesLeft THEN "empty" ELSE mode
  /\ IF Length <= bytesLeft
       THEN /\ Give("data", Length, 0, "string")
            /\ bytesLeft' = bytesLeft - Length
            /\ UNCHANGED torn
       ELSE /\ Give("data", bytesLeft, 1, "buffer")
            /\ torn' = TRUE
            /\ UNCHANGED bytesLeft

AtChunk == Length > 0 /\ sent[from].kind = "size"

WholeChunk == AtChunk /\ Length >= sent[from].n + 3

\* Faulty variant: the last chunk does not end the body.
DecodeLastChunk_Stays ==
  /\ Decoding("chunked") /\ WholeChunk /\ sent[from].n = 0
  /\ Give("end", 0, 3, "buffer")
  /\ UNCHANGED <<mode, bytesLeft, torn>>

DecodeLastChunk ==
  /\ Decoding("chunked") /\ WholeChunk /\ sent[from].n = 0
  /\ mode' = "head"
  /\ Give("end", 0, 3, "buffer")
  /\ UNCHANGED <<bytesLeft, torn>>

\* The line break is looked for in front of the data, where it is only if there
\* is none.
ChunkThrows ==
  /\ Decoding("chunked") /\ WholeChunk /\ sent[from].n > 0
  /\ Throw("Invalid chunk tail")

Decode ==
  \/ DecodeHead \/ HeadThrows \/ DecodeEmpty \/ DecodeRaw \/ DecodeCounted
  \/ DecodeLastChunk \/ ChunkThrows

\* The expression for the size line takes any two characters behind a digit: of
\* a size of several digits that is cut before its line break it takes the last
\* ones.  A size of one digit waits, and so does a longer one that is cut early.
CutSizeThrows ==
  /\ Decoding("chunked") /\ AtChunk /\ Length = 1 /\ sent[from].n > 0
  /\ Throw("Invalid chunk encoding header")

\* A chunk comes when the decoder wants more.  Only a first chunk needs no
\* Buffer.concat, and one that finds the buffer undefined again.
WantsMore == error = "none" /\ ~ENABLED Decode

OnUnits ==
  /\ WantsMore
  /\ form = "undefined" \/ joins
  /\ \E n \in 1..(Len(sent) - received) : received' = received + n
  /\ form' = "buffer"
  /\ UNCHANGED <<joins, messages, sent, from, mode, bytesLeft, values, torn, error>>

\* concat is called outside of the try of process: what it throws leaves onRead,
\* and what has been received stays as it was, for the next chunk too.
ConcatThrows ==
  /\ WantsMore /\ received < Len(sent)
  /\ form # "undefined" /\ ~joins
  /\ Throw("Buffer.concat")

NextCodec == Decode \/ CutSizeThrows \/ OnUnits \/ ConcatThrows

SpecCodec == InitCodec /\ [][NextCodec]_codecVars
-----------------------------------------------------------------------------
Data == {i \in 1..Len(values) : values[i].kind = "data"}

\* Whatever the chunks the stream is cut into, the bytes of the bodies are given
\* on as data, each once and in order, and nothing else is; no piece is empty,
\* as a value that ends a body is.  But for a chunk that has brought the end of
\* a counted body and the beginning of what follows it.
BytesInOrder ==
  ~torn =>
    /\ \A i \in Data : 1 <= values[i].first /\ values[i].first <= values[i].last
                       /\ values[i].last < from
    /\ \A i, j \in Data : i < j => values[i].last < values[j].first
    /\ \A u \in 1..(from - 1) :
         sent[u].kind = "byte" <=>
           \E i \in Data : u \in values[i].first..values[i].last

Heads(n) == Cardinality({i \in 1..n : values[i].kind = "head"})

\* A body ends with one empty value, which comes when the body is complete and
\* before the next head: without it a reader of two bodies mixes them up.  A
\* body that the connection ends has one after every piece.
EndsOnce ==
  ~torn =>
    \A i \in 1..Len(values) :
      /\ values[i].kind = "head" /\ i > 1 => values[i - 1].kind = "end"
      /\ values[i].kind = "end" /\ ~Raw(messages[Heads(i)]) =>
           /\ values[i - 1].kind # "end"
           /\ \A u \in values[i].first..Len(sent) :
                sent[u].kind = "byte" => sent[u].message > Heads(i)

\* With a Buffer.concat that joins two buffers all that is sent is decoded, but
\* for a head that is too long, a body in chunks that are not empty, a size that is
\* cut and what follows a torn body.  With another one the first call of it ends the
\* decoding.
AllDecoded ==
  <>(\/ from > Len(sent)
     \/ torn
     \/ error \in {"Invalid chunk tail", "Invalid chunk encoding header",
                   "entity too large"}
     \/ ~joins /\ error = "Buffer.concat")

\* The assertion of decodeChunked, "Invalid chunk tail": the chunks of a peer
\* that writes them well have a valid tail.
ChunkTailsValid == error # "Invalid chunk tail"
=============================================================================
