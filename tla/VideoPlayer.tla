---------------------------- MODULE VideoPlayer ----------------------------
(***************************************************************************)
(* A video of the plugin sdlffvideo (plugins/ffplay/ffplay.c built with    *)
(* WALLY_PLUGIN): the threads that read packets, decode them and ask for   *)
(* refreshes, and the UI thread, which allocates and shows the pictures.   *)
(*                                                                         *)
(* A step is the code between two accesses to what the threads share, or a *)
(* section under a mutex.  "xWait" is a place x on its condition variable. *)
(* Time (clocks, delays) is left to choice; seeking, pausing and subtitles *)
(* are left out: nothing in the plugin seeks or pauses.                    *)
(***************************************************************************)
EXTENDS Integers, Sequences

CONSTANTS
  Packets, AudioPackets,  \* what the file has of each stream
  MinFrames,              \* MIN_FRAMES, 5
  MaxQueue,               \* MAX_QUEUE_SIZE, in packets
  Slots,                  \* VIDEO_PICTURE_QUEUE_SIZE, 4
  Flush, Data, Empty,     \* packets: flush_pkt, one of the file, one of no data
  MaxCalls                \* bound on the calls the UI loop has not come to

ASSUME VideoAssumption ==
  /\ Packets \in Nat /\ AudioPackets \in Nat
  /\ MinFrames \in Nat /\ MaxQueue \in Nat /\ MaxCalls \in Nat
  /\ Slots \in Nat /\ Slots > 2
  /\ Flush # Data /\ Data # Empty /\ Flush # Empty

VARIABLES
  readPc,
  left,          \* packets of the video not read yet
  audio,         \* whether there is an audio stream
  audioLeft, audioq,          \* its packets not read, and those waiting
  videoq, videoAbort,         \* videoq and its abort_request
  videoPc,
  fed, out,      \* packets given to the decoder, pictures it has given back
  frame, allocated,           \* of each slot of pictq
  rindex, windex, size,       \* pictq_rindex, pictq_windex, pictq_size
  refreshPc, refresh, abort,  \* refresh thread, is->refresh, abort_request
  calls,         \* the events pushed by callWithData
  uiPc, shown,   \* the UI thread, and the last picture it has begun to show
  lost,          \* whether uiLoop has dropped an event: it popped nothing
  crashed

reader == <<readPc, left, audio, audioLeft, audioq>>
packets == <<videoq, videoAbort>>
decoder == <<fed, out>>
slot == <<frame, allocated>>
refreshing == <<refreshPc, refresh, abort>>
ui == <<uiPc, shown, lost, crashed>>
vars == <<reader, packets, videoPc, decoder, slot, rindex, windex, size,
          refreshing, calls, ui>>

ReadPcs == {"read", "failed", "eofWait", "abortVideo", "signalPictures", "joinVideo",
            "closeAudio", "streamClose", "joinRefresh", "freed"}
VideoPcs == {"get", "getWait", "space", "spaceWait", "prepare", "alloc",
             "allocWait", "copy", "count", "gone"}
UiPcs == {"idle", "refresh", "show", "nextRetry", "nextDone"}
SlotIds == 0..(Slots - 1)

\* Type invariant of a video, its queues and the places of its threads.
TypeOK ==
  /\ readPc \in ReadPcs /\ videoPc \in VideoPcs /\ uiPc \in UiPcs
  /\ refreshPc \in {"loop", "gone"}
  /\ left \in 0..Packets /\ audioLeft \in 0..AudioPackets /\ audioq \in Nat
  /\ {audio, videoAbort, refresh, abort, lost, crashed} \subseteq BOOLEAN
  /\ videoq \in Seq({Flush, Data, Empty})
  /\ fed \in Nat /\ out \in Nat /\ shown \in Nat
  /\ frame \in [SlotIds -> Nat] /\ allocated \in [SlotIds -> BOOLEAN]
  /\ rindex \in SlotIds /\ windex \in SlotIds /\ size \in Int
  /\ calls \in Seq({"alloc", "refresh"})

\* read_thread at its loop, with the streams open and the threads created.
Init ==
  /\ readPc = "read"
  /\ left = Packets /\ audio \in BOOLEAN
  /\ audioLeft = IF audio THEN AudioPackets ELSE 0
  /\ audioq = IF audio THEN 1 ELSE 0
  /\ videoq = <<Flush>> /\ videoAbort = FALSE
  /\ videoPc = "get" /\ fed = 0 /\ out = 0
  /\ frame = [s \in SlotIds |-> 0] /\ allocated = [s \in SlotIds |-> FALSE]
  /\ rindex = 0 /\ windex = 0 /\ size = 0
  /\ refreshPc = "loop" /\ refresh = FALSE /\ abort = FALSE
  /\ calls = <<>> /\ uiPc = "idle" /\ shown = 0
  /\ lost = FALSE /\ crashed = FALSE

\* What the threads do with the memory of a video after av_free is undefined.
Alive == readPc # "freed" /\ ~crashed

\* Faulty variant: the end is passed by one.
After_Beyond(s) == IF s = Slots THEN 0 ELSE s + 1

After(s) == IF s + 1 = Slots THEN 0 ELSE s + 1
-----------------------------------------------------------------------------
(***************************************************************************)
(* read_thread.                                                            *)
(***************************************************************************)
ReadAt(from, to) == Alive /\ readPc = from /\ readPc' = to

QueuesFull ==
  \/ audioq + Len(videoq) > MaxQueue
  \/ (~audio \/ audioq > MinFrames) /\ Len(videoq) > MinFrames

\* packet_queue_put, which wakes a decoder that waits for a packet.
PutVideo(p) ==
  /\ videoq' = Append(videoq, p)
  /\ videoPc' = IF videoPc = "getWait" THEN "get" ELSE videoPc

ReadVideoPacket ==
  /\ ReadAt("read", "read") /\ ~QueuesFull
  /\ left > 0 /\ left' = left - 1
  /\ PutVideo(Data)
  /\ UNCHANGED <<audio, audioLeft, audioq, videoAbort, decoder, slot,
                 rindex, windex, size, refreshing, calls, ui>>

ReadAudioPacket ==
  /\ ReadAt("read", "read") /\ ~QueuesFull
  /\ audioLeft > 0 /\ audioLeft' = audioLeft - 1
  /\ audioq' = audioq + 1
  /\ UNCHANGED <<left, audio, packets, videoPc, decoder, slot, rindex,
                 windex, size, refreshing, calls, ui>>

\* av_read_frame fails and the file has an I/O error: the thread waits for
\* abort_request, which no other thread sets.  After any other failure it reads
\* again, which is no step.
ReadFails ==
  /\ ReadAt("read", "failed") /\ ~QueuesFull
  /\ UNCHANGED <<left, audio, audioLeft, audioq, packets, videoPc, decoder,
                 slot, rindex, windex, size, refreshing, calls, ui>>

\* At the end of the file: a packet of no data, until the queues are empty, and
\* one for an audio codec that has CODEC_CAP_DELAY.
PutEmptyPacket ==
  /\ ReadAt("read", "eofWait") /\ ~QueuesFull
  /\ left = 0 /\ audioLeft = 0
  /\ PutVideo(Empty)
  /\ audioq' \in IF audio THEN {audioq, audioq + 1} ELSE {audioq}
  /\ UNCHANGED <<left, audio, audioLeft, videoAbort, decoder, slot,
                 rindex, windex, size, refreshing, calls, ui>>

\* Ten milliseconds later; the sizes are read without the mutexes.
CheckDrained ==
  /\ Alive /\ readPc = "eofWait"
  /\ readPc' = IF audioq > 0 \/ videoq # <<>> THEN "read"
               ELSE IF audio THEN "closeAudio" ELSE "abortVideo"
  /\ UNCHANGED <<left, audio, audioLeft, audioq, packets, videoPc, decoder,
                 slot, rindex, windex, size, refreshing, calls, ui>>

\* stream_component_close ends in stream_close, whatever stream it closes.
CloseAudio ==
  /\ ReadAt("closeAudio", "streamClose")
  /\ audioq' = 0
  /\ UNCHANGED <<left, audio, audioLeft, packets, videoPc, decoder, slot,
                 rindex, windex, size, refreshing, calls, ui>>

AbortVideo ==
  /\ ReadAt("abortVideo", "signalPictures")
  /\ videoAbort' = TRUE
  /\ videoPc' = IF videoPc = "getWait" THEN "get" ELSE videoPc
  /\ UNCHANGED <<left, audio, audioLeft, audioq, videoq, decoder, slot,
                 rindex, windex, size, refreshing, calls, ui>>

\* What a signal of pictq_cond does to the decoder, its only waiter.
PicturesSignalled ==
  videoPc' = IF videoPc = "spaceWait" THEN "space"
             ELSE IF videoPc = "allocWait" THEN "alloc" ELSE videoPc

\* Faulty variant: the decoder is not signalled.
SignalPictures_Forgets ==
  /\ ReadAt("signalPictures", "joinVideo")
  /\ UNCHANGED <<left, audio, audioLeft, audioq, packets, videoPc,
                 decoder, slot, rindex, windex, size, refreshing, calls, ui>>

SignalPictures ==
  /\ ReadAt("signalPictures", "joinVideo")
  /\ PicturesSignalled
  /\ UNCHANGED <<left, audio, audioLeft, audioq, packets, decoder, slot,
                 rindex, windex, size, refreshing, calls, ui>>

\* Faulty variant: nothing is waited for.
JoinVideo_NoWait ==
  /\ ReadAt("joinVideo", "streamClose")
  /\ videoq' = <<>>
  /\ UNCHANGED <<left, audio, audioLeft, audioq, videoAbort, videoPc,
                 decoder, slot, rindex, windex, size, refreshing, calls, ui>>

JoinVideo ==
  /\ ReadAt("joinVideo", "streamClose")
  /\ videoPc = "gone"
  /\ videoq' = <<>>
  /\ UNCHANGED <<left, audio, audioLeft, audioq, videoAbort, videoPc,
                 decoder, slot, rindex, windex, size, refreshing, calls, ui>>

\* SDL_WaitThread of the thread that runs it returns at once.
StreamClose ==
  /\ ReadAt("streamClose", "joinRefresh")
  /\ abort' = TRUE
  /\ UNCHANGED <<left, audio, audioLeft, audioq, packets, videoPc,
                 decoder, slot, rindex, windex, size, refreshPc, refresh,
                 calls, ui>>

FreeVideo ==
  /\ ReadAt("joinRefresh", "freed")
  /\ refreshPc = "gone"
  /\ UNCHANGED <<left, audio, audioLeft, audioq, packets, videoPc,
                 decoder, slot, rindex, windex, size, refreshing, calls, ui>>

\* The audio callback takes a packet; it has no other effect on the video.
AudioCallback ==
  /\ Alive /\ audioq > 0
  /\ audioq' = audioq - 1
  /\ UNCHANGED <<readPc, left, audio, audioLeft, packets, videoPc,
                 decoder, slot, rindex, windex, size, refreshing, calls, ui>>
-----------------------------------------------------------------------------
(***************************************************************************)
(* video_thread: get_video_frame and queue_picture.                        *)
(***************************************************************************)
VideoAt(from, to) == Alive /\ videoPc = from /\ videoPc' = to

GetAborted ==
  /\ VideoAt("get", "gone") /\ videoAbort
  /\ UNCHANGED <<reader, packets, decoder, slot, rindex, windex, size,
                 refreshing, calls, ui>>

GetWaits ==
  /\ VideoAt("get", "getWait") /\ ~videoAbort /\ videoq = <<>>
  /\ UNCHANGED <<reader, packets, decoder, slot, rindex, windex, size,
                 refreshing, calls, ui>>

\* The flush packet is the first, when no picture is there to wait for.  The
\* decoder holds pictures back; with audio the clocks may tell to drop one.
GetPacket ==
  /\ Alive /\ videoPc = "get" /\ ~videoAbort /\ videoq # <<>>
  /\ videoq' = Tail(videoq)
  /\ fed' = IF Head(videoq) = Data THEN fed + 1 ELSE fed
  /\ \/ UNCHANGED <<out, videoPc>>
     \/ /\ Head(videoq) # Flush
        /\ out < fed' /\ out' = out + 1
        /\ IF audio THEN videoPc' \in {"get", "space"} ELSE videoPc' = "space"
  /\ UNCHANGED <<reader, videoAbort, slot, rindex, windex, size, refreshing,
                 calls, ui>>

\* Faulty variant: one picture too many.
NoSpace_OneMore == size > Slots - 2 /\ ~videoAbort

NoSpace == size >= Slots - 2 /\ ~videoAbort

WaitForSpace ==
  /\ VideoAt("space", IF NoSpace THEN "spaceWait" ELSE "prepare")
  /\ UNCHANGED <<reader, packets, decoder, slot, rindex, windex, size,
                 refreshing, calls, ui>>

PrepareAborted ==
  /\ VideoAt("prepare", "gone") /\ videoAbort
  /\ UNCHANGED <<reader, packets, decoder, slot, rindex, windex, size,
                 refreshing, calls, ui>>

\* A slot is allocated when it is first used: the pictures are of one size.
PrepareSlot ==
  /\ VideoAt("prepare", IF allocated[windex] THEN "copy" ELSE "alloc")
  /\ ~videoAbort
  /\ calls' = IF allocated[windex] THEN calls ELSE Append(calls, "alloc")
  /\ UNCHANGED <<reader, packets, decoder, slot, rindex, windex, size,
                 refreshing, ui>>

\* callWithData may return before alloc_picture has run.  After an abort too
\* the thread waits on: no event has the type SDL_PeepEvents looks for.
WaitForAlloc ==
  /\ VideoAt("alloc", IF ~allocated[windex] THEN "allocWait"
                      ELSE IF videoAbort THEN "gone" ELSE "copy")
  /\ UNCHANGED <<reader, packets, decoder, slot, rindex, windex, size,
                 refreshing, calls, ui>>

CopyPicture ==
  /\ VideoAt("copy", "count")
  /\ frame' = [frame EXCEPT ![windex] = out]
  /\ windex' = After(windex)
  /\ UNCHANGED <<reader, packets, decoder, allocated, rindex, size,
                 refreshing, calls, ui>>

CountPicture ==
  /\ VideoAt("count", "get")
  /\ size' = size + 1
  /\ UNCHANGED <<reader, packets, decoder, slot, rindex, windex, refreshing,
                 calls, ui>>
-----------------------------------------------------------------------------
(***************************************************************************)
(* refresh_thread; the bound on calls is the model's.                      *)
(***************************************************************************)
RefreshEnds ==
  /\ Alive /\ refreshPc = "loop" /\ abort
  /\ refreshPc' = "gone"
  /\ UNCHANGED <<reader, packets, videoPc, decoder, slot, rindex, windex, size,
                 refresh, abort, calls, ui>>

\* The flag is set before the call and cleared by the function called.
RefreshDue ==
  /\ Alive /\ refreshPc = "loop" /\ ~abort /\ ~refresh /\ Len(calls) < MaxCalls
  /\ refresh' = TRUE
  /\ calls' = Append(calls, "refresh")
  /\ UNCHANGED <<reader, packets, videoPc, decoder, slot, rindex, windex, size,
                 refreshPc, abort, ui>>
-----------------------------------------------------------------------------
(***************************************************************************)
(* The UI thread: the calls of the video among all others.                 *)
(***************************************************************************)
UiTakes(call) ==
  /\ Alive /\ uiPc = "idle"
  /\ calls # <<>> /\ Head(calls) = call
  /\ calls' = Tail(calls)

\* "Nothing popped." (ui.c): the event of a PTR call brings no node with it.
UiDropsCall ==
  /\ \E call \in {"alloc", "refresh"} : UiTakes(call)
  /\ lost' = TRUE
  /\ UNCHANGED <<reader, packets, videoPc, decoder, slot, rindex, windex, size,
                 refreshing, uiPc, shown, crashed>>

\* alloc_picture, with video_open, which clears the flag of the refresh.
AllocPicture ==
  /\ UiTakes("alloc")
  /\ allocated' = [allocated EXCEPT ![windex] = TRUE]
  /\ refresh' = FALSE
  /\ PicturesSignalled
  /\ UNCHANGED <<reader, packets, decoder, frame, rindex, windex, size,
                 refreshPc, abort, ui>>

RefreshBegins ==
  /\ UiTakes("refresh")
  /\ uiPc' = "refresh"
  /\ UNCHANGED <<reader, packets, videoPc, decoder, slot, rindex, windex, size,
                 refreshing, shown, lost, crashed>>

UiAt(from, to) == Alive /\ uiPc = from /\ uiPc' = to

\* No picture, or the time of the next has not come.
NothingToShow ==
  /\ UiAt("refresh", "idle")
  /\ refresh' = FALSE
  /\ UNCHANGED <<reader, packets, videoPc, decoder, slot, rindex, windex, size,
                 refreshPc, abort, calls, shown, lost, crashed>>

DropLatePicture ==
  /\ UiAt("refresh", "nextRetry") /\ size > 1 /\ audio
  /\ rindex' = After(rindex)
  /\ UNCHANGED <<reader, packets, videoPc, decoder, slot, windex, size,
                 refreshing, calls, shown, lost, crashed>>

\* Faulty variant: the newest picture is shown.
BeginShow_Newest ==
  /\ UiAt("refresh", "show") /\ size > 0
  /\ shown' = frame[(rindex + size - 1) % Slots]
  /\ refresh' = FALSE
  /\ crashed' \in BOOLEAN
  /\ UNCHANGED <<reader, packets, videoPc, decoder, slot, rindex, windex, size,
                 refreshPc, abort, calls, lost>>

\* video_display opens the video again, as sdl_window is never set.  The
\* texture is made through is->TI, which the plugin reads where its header
\* has it and not where ffplay.c has it: what that does is undefined.
BeginShow ==
  /\ UiAt("refresh", "show") /\ size > 0
  /\ shown' = frame[rindex]
  /\ refresh' = FALSE
  /\ crashed' \in BOOLEAN
  /\ UNCHANGED <<reader, packets, videoPc, decoder, slot, rindex, windex, size,
                 refreshPc, abort, calls, lost>>

EndShow ==
  /\ UiAt("show", "nextDone")
  /\ rindex' = After(rindex)
  /\ UNCHANGED <<reader, packets, videoPc, decoder, slot, windex, size,
                 refreshing, calls, shown, lost, crashed>>

\* Faulty variant: no signal.
NextPicture_Silent ==
  /\ Alive /\ uiPc \in {"nextRetry", "nextDone"}
  /\ uiPc' = IF uiPc = "nextRetry" THEN "refresh" ELSE "idle"
  /\ refresh' = (refresh /\ uiPc = "nextRetry")
  /\ size' = size - 1
  /\ UNCHANGED <<reader, packets, videoPc, decoder, slot, rindex, windex,
                 refreshPc, abort, calls, shown, lost, crashed>>

\* The second half of pictq_next_picture, and the end of the refresh.
NextPicture ==
  /\ Alive /\ uiPc \in {"nextRetry", "nextDone"}
  /\ uiPc' = IF uiPc = "nextRetry" THEN "refresh" ELSE "idle"
  /\ refresh' = (refresh /\ uiPc = "nextRetry")
  /\ size' = size - 1
  /\ PicturesSignalled
  /\ UNCHANGED <<reader, packets, decoder, slot, rindex, windex, refreshPc,
                 abort, calls, shown, lost, crashed>>
-----------------------------------------------------------------------------
ReadStep ==
  \/ ReadVideoPacket \/ ReadAudioPacket \/ ReadFails \/ PutEmptyPacket
  \/ CheckDrained \/ CloseAudio \/ AbortVideo \/ SignalPictures \/ JoinVideo
  \/ StreamClose \/ FreeVideo

VideoStep ==
  \/ GetAborted \/ GetWaits \/ GetPacket \/ WaitForSpace \/ PrepareAborted
  \/ PrepareSlot \/ WaitForAlloc \/ CopyPicture \/ CountPicture

RefreshStep == RefreshEnds \/ RefreshDue

UiStep ==
  \/ UiDropsCall \/ AllocPicture \/ RefreshBegins \/ NothingToShow
  \/ DropLatePicture \/ BeginShow \/ EndShow \/ NextPicture

Next == ReadStep \/ AudioCallback \/ VideoStep \/ RefreshStep \/ UiStep

Spec == Init /\ [][Next]_vars

\* The threads run, the device asks for audio, the time of a picture that waits
\* comes, and ten milliseconds are at last enough for the packets that wait; a
\* read that fails without an I/O error does not fail for ever.
FairSpec ==
  /\ Spec
  /\ WF_vars(ReadStep) /\ WF_vars(VideoStep) /\ WF_vars(RefreshStep)
  /\ WF_vars(UiStep) /\ WF_vars(AudioCallback)
  /\ SF_vars(BeginShow)
  /\ \A n \in 1..(MaxQueue + 2) :
       SF_vars(/\ GetPacket \/ AudioCallback
               /\ readPc = "eofWait" /\ audioq + Len(videoq) = n)
-----------------------------------------------------------------------------
\* Pictures between the two indexes: a picture is written before it is counted,
\* and passed before it is discounted, with no lock over both.
Between ==
  size + (IF videoPc = "count" THEN 1 ELSE 0)
       - (IF uiPc \in {"nextRetry", "nextDone"} THEN 1 ELSE 0)

\* The indexes of the picture queue, moved by two threads outside the mutex,
\* stay as far apart as the pictures counted, so that the slot that is shown
\* is not the one the decoder writes or has allocated, and what is written has
\* memory of its own.
SlotsApart ==
  /\ Between \in 0..(Slots - 2)
  /\ windex \in {rindex + Between, rindex + Between - Slots}
  /\ uiPc = "show" => windex # rindex
  /\ videoPc = "copy" => allocated[windex]

\* Pictures are shown in the order of the film, and none twice.
ShownInOrder ==
  [][uiPc' = "show" /\ uiPc # "show" => shown' > shown]_<<uiPc, shown>>

\* What stream_close frees is not used by the thread that asks for refreshes,
\* nor, in a film without audio, by the decoder.
FreedAfterThreads ==
  readPc = "freed" => refreshPc = "gone" /\ (~audio => videoPc = "gone")

\* A film that can be read to its end is freed, whatever the flag of the refresh
\* and the waits of the decoder have gone through, unless a call has been lost.
FilmEnds == <>(readPc = "freed" \/ readPc = "failed" \/ lost \/ crashed)

\* A decoder that is told to stop does, wherever it waits: "in all cases" but
\* one, that of a picture whose allocation has been lost.
DecoderStops ==
  readPc = "joinVideo"
    ~> videoPc = "gone" \/ crashed \/ (lost /\ videoPc \in {"alloc", "allocWait"})

\* "close each stream" (ffplay.c): when the video is gone its decoder has
\* been closed.
EachStreamClosed == readPc = "freed" => videoPc = "gone"
=============================================================================
