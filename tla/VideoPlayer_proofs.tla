------------------------- MODULE VideoPlayer_proofs -------------------------
(***************************************************************************)
(* Proofs about VideoPlayer, for films, queues and pictq of any length.    *)
(***************************************************************************)
EXTENDS VideoPlayer, TLAPS

\* The slot i pictures after the one to be shown.
Ahead(i) == IF rindex + i < Slots THEN rindex + i ELSE rindex + i - Slots

\* The decoder has room for a picture from its look at the size on, as only the
\* UI thread changes the size then, and makes it smaller.
HasRoom ==
  /\ size <= Slots - 2
  /\ videoPc \in {"alloc", "allocWait", "copy", "count"} => size <= Slots - 3
  /\ videoPc = "prepare" => size <= Slots - 3 \/ videoAbort

\* The UI thread has a picture as long as it shows or passes it.
HasPicture ==
  /\ size >= 0
  /\ uiPc \in {"show", "nextRetry", "nextDone"} => size >= 1

Apart ==
  /\ windex = Ahead(Between)
  /\ videoPc = "copy" => allocated[windex]

\* The pictures that wait come in the order of the film, after what has been
\* shown and before what the decoder holds.
Pending == {"space", "spaceWait", "prepare", "alloc", "allocWait", "copy"}

Film ==
  /\ \A i, j \in 0..(Between - 1) : i < j => frame[Ahead(i)] < frame[Ahead(j)]
  /\ \A i \in 0..(Between - 1) :
       /\ frame[Ahead(i)] <= out
       /\ videoPc \in Pending => frame[Ahead(i)] < out
       /\ IF uiPc = "show" /\ i = 0 THEN frame[Ahead(i)] = shown
                                    ELSE frame[Ahead(i)] > shown
  /\ shown <= out
  /\ videoPc \in Pending => shown < out

\* A video without audio closes itself after its decoder.
Closing ==
  /\ readPc = "freed" => refreshPc = "gone"
  /\ readPc \in {"streamClose", "joinRefresh", "freed"} /\ ~audio => videoPc = "gone"
  /\ readPc = "closeAudio" => audio

\* Of the pictures nothing changes, but for the decoder that gets one less.
Still ==
  /\ UNCHANGED <<frame, rindex, windex, size, out, shown>>
  /\ videoPc' = "count" <=> videoPc = "count"
  /\ videoPc' \in Pending => videoPc \in Pending
  /\ videoPc' = "copy" => allocated'[windex]
  /\ uiPc' = "show" <=> uiPc = "show"
  /\ uiPc' \in {"nextRetry", "nextDone"} <=> uiPc \in {"nextRetry", "nextDone"}

Moves ==
  GetPacket \/ CopyPicture \/ CountPicture \/ DropLatePicture \/ BeginShow
    \/ EndShow \/ NextPicture

VideoInv == TypeOK /\ HasRoom /\ HasPicture /\ Apart /\ Film /\ Closing

-----------------------------------------------------------------------------
\* The slots ahead are slots, and as many as there are are all different.
LEMMA SlotsAhead ==
  ASSUME TypeOK
  PROVE  /\ After(rindex) \in SlotIds /\ After(windex) \in SlotIds
         /\ \A i \in 0..(Slots - 1) : Ahead(i) \in SlotIds
         /\ \A i, j \in 0..(Slots - 1) : Ahead(i) = Ahead(j) => i = j
         /\ Ahead(0) = rindex
BY VideoAssumption DEF TypeOK, SlotIds, After, Ahead

-----------------------------------------------------------------------------
\* The guards of queue_picture and of the refresh keep the size in its range.
LEMMA RoomStep ==
  ASSUME TypeOK, HasRoom, HasPicture, [Next]_vars
  PROVE  HasRoom' /\ HasPicture'
<1> USE VideoAssumption DEF TypeOK, HasRoom, HasPicture, NoSpace, reader, packets,
        decoder, slot, refreshing, ui, vars
<1>1. CASE ReadVideoPacket
  BY <1>1 DEF ReadVideoPacket, ReadAt, PutVideo
<1>2. CASE ReadAudioPacket
  BY <1>2 DEF ReadAudioPacket, ReadAt
<1>3. CASE PutEmptyPacket
  BY <1>3 DEF PutEmptyPacket, ReadAt, PutVideo
<1>4. CASE CheckDrained
  BY <1>4 DEF CheckDrained
<1>5. CASE ReadFails \/ CloseAudio
  BY <1>5 DEF ReadFails, CloseAudio, ReadAt
<1>6. CASE AbortVideo
  BY <1>6 DEF AbortVideo, ReadAt
<1>7. CASE SignalPictures
  BY <1>7 DEF SignalPictures, ReadAt, PicturesSignalled
<1>8. CASE JoinVideo
  BY <1>8 DEF JoinVideo, ReadAt
<1>9. CASE StreamClose
  BY <1>9 DEF StreamClose, ReadAt
<1>10. CASE FreeVideo
  BY <1>10 DEF FreeVideo, ReadAt
<1>11. CASE AudioCallback
  BY <1>11 DEF AudioCallback
<1>12. CASE GetAborted
  BY <1>12 DEF GetAborted, VideoAt
<1>13. CASE GetWaits
  BY <1>13 DEF GetWaits, VideoAt
<1>14. CASE GetPacket
  BY <1>14 DEF GetPacket
<1>15. CASE WaitForSpace
  BY <1>15 DEF WaitForSpace, VideoAt
<1>16. CASE PrepareAborted
  BY <1>16 DEF PrepareAborted, VideoAt
<1>17. CASE PrepareSlot
  BY <1>17 DEF PrepareSlot, VideoAt
<1>18. CASE WaitForAlloc
  BY <1>18 DEF WaitForAlloc, VideoAt
<1>19. CASE CopyPicture
  BY <1>19 DEF CopyPicture, VideoAt
<1>20. CASE CountPicture
  BY <1>20 DEF CountPicture, VideoAt
<1>21. CASE RefreshEnds
  BY <1>21 DEF RefreshEnds
<1>22. CASE RefreshDue
  BY <1>22 DEF RefreshDue
<1>23. CASE UiDropsCall
  BY <1>23 DEF UiDropsCall, UiTakes
<1>24. CASE AllocPicture
  BY <1>24 DEF AllocPicture, UiTakes, PicturesSignalled
<1>25. CASE RefreshBegins
  BY <1>25 DEF RefreshBegins, UiTakes
<1>26. CASE NothingToShow
  BY <1>26 DEF NothingToShow, UiAt
<1>27. CASE DropLatePicture
  BY <1>27 DEF DropLatePicture, UiAt
<1>28. CASE BeginShow
  BY <1>28 DEF BeginShow, UiAt
<1>29. CASE EndShow
  BY <1>29 DEF EndShow, UiAt
<1>30. CASE NextPicture
  BY <1>30 DEF NextPicture, PicturesSignalled
<1>31. CASE UNCHANGED vars
  BY <1>31
<1> QED
  BY <1>1, <1>2, <1>3, <1>4, <1>5, <1>6, <1>7, <1>8, <1>9, <1>10, <1>11, <1>12, <1>13,
       <1>14, <1>15, <1>16, <1>17, <1>18, <1>19, <1>20, <1>21, <1>22, <1>23, <1>24,
       <1>25, <1>26, <1>27, <1>28, <1>29, <1>30, <1>31
     DEF Next, ReadStep, VideoStep, RefreshStep, UiStep

\* Seven actions move the pictures; a slot is copied to when it is allocated.
LEMMA StillStep ==
  ASSUME TypeOK, Apart, [Next]_vars
  PROVE  Still \/ Moves
<1> USE DEF TypeOK, Apart, Still, Pending, reader, packets, decoder, slot, refreshing,
        ui, vars
<1>1. CASE ReadVideoPacket
  BY <1>1 DEF ReadVideoPacket, ReadAt, PutVideo
<1>2. CASE ReadAudioPacket
  BY <1>2 DEF ReadAudioPacket, ReadAt
<1>3. CASE PutEmptyPacket
  BY <1>3 DEF PutEmptyPacket, ReadAt, PutVideo
<1>4. CASE CheckDrained
  BY <1>4 DEF CheckDrained
<1>5. CASE ReadFails \/ CloseAudio
  BY <1>5 DEF ReadFails, CloseAudio, ReadAt
<1>6. CASE AbortVideo
  BY <1>6 DEF AbortVideo, ReadAt
<1>7. CASE SignalPictures
  BY <1>7 DEF SignalPictures, ReadAt, PicturesSignalled
<1>8. CASE JoinVideo
  BY <1>8 DEF JoinVideo, ReadAt
<1>9. CASE StreamClose
  BY <1>9 DEF StreamClose, ReadAt
<1>10. CASE FreeVideo
  BY <1>10 DEF FreeVideo, ReadAt
<1>11. CASE AudioCallback
  BY <1>11 DEF AudioCallback
<1>12. CASE GetAborted
  BY <1>12 DEF GetAborted, VideoAt
<1>13. CASE GetWaits
  BY <1>13 DEF GetWaits, VideoAt
<1>14. CASE WaitForSpace
  BY <1>14 DEF WaitForSpace, VideoAt
<1>15. CASE PrepareAborted
  BY <1>15 DEF PrepareAborted, VideoAt
<1>16. CASE PrepareSlot
  BY <1>16 DEF PrepareSlot, VideoAt
<1>17. CASE WaitForAlloc
  BY <1>17 DEF WaitForAlloc, VideoAt
<1>18. CASE RefreshEnds
  BY <1>18 DEF RefreshEnds
<1>19. CASE RefreshDue
  BY <1>19 DEF RefreshDue
<1>20. CASE UiDropsCall
  BY <1>20 DEF UiDropsCall, UiTakes
<1>21. CASE AllocPicture
  BY <1>21 DEF AllocPicture, UiTakes, PicturesSignalled
<1>22. CASE RefreshBegins
  BY <1>22 DEF RefreshBegins, UiTakes
<1>23. CASE NothingToShow
  BY <1>23 DEF NothingToShow, UiAt
<1>24. CASE UNCHANGED vars
  BY <1>24
<1> QED
  BY <1>1, <1>2, <1>3, <1>4, <1>5, <1>6, <1>7, <1>8, <1>9, <1>10, <1>11, <1>12, <1>13,
       <1>14, <1>15, <1>16, <1>17, <1>18, <1>19, <1>20, <1>21, <1>22, <1>23, <1>24
     DEF Moves, Next, ReadStep, VideoStep, RefreshStep, UiStep

\* The order in which read_thread closes what it has opened.
LEMMA ClosingStep ==
  ASSUME TypeOK, Closing, [Next]_vars
  PROVE  Closing'
<1> USE DEF TypeOK, Closing, Alive, reader, packets, decoder, slot, refreshing, ui, vars
<1>1. CASE ReadVideoPacket
  BY <1>1 DEF ReadVideoPacket, ReadAt, PutVideo
<1>2. CASE ReadAudioPacket
  BY <1>2 DEF ReadAudioPacket, ReadAt
<1>3. CASE PutEmptyPacket
  BY <1>3 DEF PutEmptyPacket, ReadAt, PutVideo
<1>4. CASE CheckDrained
  BY <1>4 DEF CheckDrained
<1>5. CASE ReadFails \/ CloseAudio
  BY <1>5 DEF ReadFails, CloseAudio, ReadAt
<1>6. CASE AbortVideo
  BY <1>6 DEF AbortVideo, ReadAt
<1>7. CASE SignalPictures
  BY <1>7 DEF SignalPictures, ReadAt, PicturesSignalled
<1>8. CASE JoinVideo
  BY <1>8 DEF JoinVideo, ReadAt
<1>9. CASE StreamClose
  BY <1>9 DEF StreamClose, ReadAt
<1>10. CASE FreeVideo
  BY <1>10 DEF FreeVideo, ReadAt
<1>11. CASE AudioCallback
  BY <1>11 DEF AudioCallback
<1>12. CASE GetAborted
  BY <1>12 DEF GetAborted, VideoAt
<1>13. CASE GetWaits
  BY <1>13 DEF GetWaits, VideoAt
<1>14. CASE GetPacket
  BY <1>14 DEF GetPacket
<1>15. CASE WaitForSpace
  BY <1>15 DEF WaitForSpace, VideoAt
<1>16. CASE PrepareAborted
  BY <1>16 DEF PrepareAborted, VideoAt
<1>17. CASE PrepareSlot
  BY <1>17 DEF PrepareSlot, VideoAt
<1>18. CASE WaitForAlloc
  BY <1>18 DEF WaitForAlloc, VideoAt
<1>19. CASE CopyPicture
  BY <1>19 DEF CopyPicture, VideoAt
<1>20. CASE CountPicture
  BY <1>20 DEF CountPicture, VideoAt
<1>21. CASE RefreshEnds
  BY <1>21 DEF RefreshEnds
<1>22. CASE RefreshDue
  BY <1>22 DEF RefreshDue
<1>23. CASE UiDropsCall
  BY <1>23 DEF UiDropsCall, UiTakes
<1>24. CASE AllocPicture
  BY <1>24 DEF AllocPicture, UiTakes, PicturesSignalled
<1>25. CASE RefreshBegins
  BY <1>25 DEF RefreshBegins, UiTakes
<1>26. CASE NothingToShow
  BY <1>26 DEF NothingToShow, UiAt
<1>27. CASE DropLatePicture
  BY <1>27 DEF DropLatePicture, UiAt
<1>28. CASE BeginShow
  BY <1>28 DEF BeginShow, UiAt
<1>29. CASE EndShow
  BY <1>29 DEF EndShow, UiAt
<1>30. CASE NextPicture
  BY <1>30 DEF NextPicture, PicturesSignalled
<1>31. CASE UNCHANGED vars
  BY <1>31
<1> QED
  BY <1>1, <1>2, <1>3, <1>4, <1>5, <1>6, <1>7, <1>8, <1>9, <1>10, <1>11, <1>12, <1>13,
       <1>14, <1>15, <1>16, <1>17, <1>18, <1>19, <1>20, <1>21, <1>22, <1>23, <1>24,
       <1>25, <1>26, <1>27, <1>28, <1>29, <1>30, <1>31
     DEF Next, ReadStep, VideoStep, RefreshStep, UiStep

\* Types; the indexes stay slots because After wraps at VIDEO_PICTURE_QUEUE_SIZE.
LEMMA TypesStep ==
  ASSUME TypeOK, [Next]_vars
  PROVE  TypeOK'
<1> USE VideoAssumption, SlotsAhead DEF TypeOK, ReadPcs, VideoPcs, UiPcs, reader,
        packets, decoder, slot, refreshing, ui, vars
<1>1. CASE ReadVideoPacket
  <2>1. videoq' = Append(videoq, Data) /\ videoPc' \in VideoPcs
    BY <1>1 DEF ReadVideoPacket, PutVideo
  <2>2. videoq' \in Seq({Flush, Data, Empty})
    BY <2>1
  <2>3. left' \in 0..Packets /\ readPc' \in ReadPcs
    BY <1>1 DEF ReadVideoPacket, ReadAt
  <2> QED
    BY <1>1, <2>1, <2>2, <2>3 DEF ReadVideoPacket
<1>2. CASE ReadAudioPacket
  BY <1>2 DEF ReadAudioPacket, ReadAt
<1>3. CASE PutEmptyPacket
  BY <1>3 DEF PutEmptyPacket, ReadAt, PutVideo
<1>4. CASE CheckDrained
  BY <1>4 DEF CheckDrained
<1>5. CASE CloseAudio
  BY <1>5 DEF CloseAudio, ReadAt
<1>6. CASE AbortVideo
  BY <1>6 DEF AbortVideo, ReadAt
<1>7. CASE SignalPictures
  BY <1>7 DEF SignalPictures, ReadAt, PicturesSignalled
<1>8. CASE JoinVideo
  BY <1>8 DEF JoinVideo, ReadAt
<1>9. CASE StreamClose
  BY <1>9 DEF StreamClose, ReadAt
<1>10. CASE FreeVideo
  BY <1>10 DEF FreeVideo, ReadAt
<1>11. CASE AudioCallback
  BY <1>11 DEF AudioCallback
<1>12. CASE GetAborted
  BY <1>12 DEF GetAborted, VideoAt
<1>13. CASE GetWaits
  BY <1>13 DEF GetWaits, VideoAt
<1>14. CASE GetPacket
  BY <1>14 DEF GetPacket
<1>15. CASE WaitForSpace
  BY <1>15 DEF WaitForSpace, VideoAt
<1>16. CASE PrepareAborted
  BY <1>16 DEF PrepareAborted, VideoAt
<1>17. CASE PrepareSlot
  BY <1>17 DEF PrepareSlot, VideoAt
<1>18. CASE WaitForAlloc
  BY <1>18 DEF WaitForAlloc, VideoAt
<1>19. CASE CopyPicture
  BY <1>19 DEF CopyPicture, VideoAt
<1>20. CASE CountPicture
  BY <1>20 DEF CountPicture, VideoAt
<1>21. CASE RefreshEnds
  BY <1>21 DEF RefreshEnds
<1>22. CASE RefreshDue
  BY <1>22 DEF RefreshDue
<1>23. CASE UiDropsCall
  BY <1>23 DEF UiDropsCall, UiTakes
<1>24. CASE AllocPicture
  <2>1. allocated' \in [SlotIds -> BOOLEAN] /\ calls' \in Seq({"alloc", "refresh"})
    BY <1>24 DEF AllocPicture, UiTakes
  <2>2. videoPc' \in VideoPcs
    BY <1>24 DEF AllocPicture, PicturesSignalled
  <2>3. {audio', videoAbort', refresh', abort', lost', crashed'} \subseteq BOOLEAN
    BY <1>24 DEF AllocPicture
  <2> QED
    BY <1>24, <2>1, <2>2, <2>3 DEF AllocPicture
<1>25. CASE RefreshBegins
  BY <1>25 DEF RefreshBegins, UiTakes
<1>26. CASE NothingToShow
  BY <1>26 DEF NothingToShow, UiAt
<1>27. CASE DropLatePicture
  BY <1>27 DEF DropLatePicture, UiAt
<1>28. CASE BeginShow
  BY <1>28 DEF BeginShow, UiAt
<1>29. CASE EndShow
  BY <1>29 DEF EndShow, UiAt
<1>30. CASE NextPicture
  BY <1>30 DEF NextPicture, PicturesSignalled
<1>31. CASE ReadFails
  BY <1>31 DEF ReadFails, ReadAt
<1>32. CASE UNCHANGED vars
  BY <1>32
<1> QED
  BY <1>1, <1>2, <1>3, <1>4, <1>5, <1>6, <1>7, <1>8, <1>9, <1>10, <1>11, <1>12, <1>13,
       <1>14, <1>15, <1>16, <1>17, <1>18, <1>19, <1>20, <1>21, <1>22, <1>23, <1>24,
       <1>25, <1>26, <1>27, <1>28, <1>29, <1>30, <1>31, <1>32
     DEF Next, ReadStep, VideoStep, RefreshStep, UiStep

-----------------------------------------------------------------------------
\* Where a picture is ahead, before and after a step of rindex.
LEMMA AheadAgain ==
  ASSUME TypeOK, rindex' = rindex \/ rindex' = After(rindex)
  PROVE  /\ rindex' = rindex => \A i \in 0..(Slots - 1) : Ahead(i)' = Ahead(i)
         /\ rindex' = After(rindex) => \A i \in 0..(Slots - 2) : Ahead(i)' = Ahead(i + 1)
<1>1. Slots \in Nat /\ Slots > 2 /\ rindex \in 0..(Slots - 1)
  BY VideoAssumption DEF TypeOK, SlotIds
<1>2. ASSUME rindex' = rindex, NEW i \in 0..(Slots - 1) PROVE Ahead(i)' = Ahead(i)
  BY <1>2 DEF Ahead
<1>3. ASSUME rindex' = After(rindex), NEW i \in 0..(Slots - 2)
      PROVE  Ahead(i)' = Ahead(i + 1)
  <2>1. CASE rindex + 1 = Slots
    BY <1>1, <1>3, <2>1 DEF After, Ahead
  <2>2. CASE rindex + 1 # Slots
    <3>1. rindex' = rindex + 1 /\ rindex' + i = rindex + (i + 1)
      BY <1>1, <1>3, <2>2 DEF After
    <3>2. Ahead(i)' = IF rindex' + i < Slots THEN rindex' + i ELSE rindex' + i - Slots
      BY DEF Ahead
    <3>3. Ahead(i)' = IF rindex + (i + 1) < Slots THEN rindex + (i + 1)
                                                  ELSE rindex + (i + 1) - Slots
      BY <1>1, <3>1, <3>2
    <3> QED
      BY <3>3 DEF Ahead
  <2> QED
    BY <2>1, <2>2
<1> QED
  BY <1>2, <1>3

\* With room for what waits the slots of it, and the next, are different.
LEMMA BetweenRange ==
  ASSUME TypeOK, HasRoom, HasPicture
  PROVE  /\ Between \in 0..(Slots - 2)
         /\ videoPc = "copy" => Between \in 0..(Slots - 3)
         /\ uiPc \in {"refresh", "show"} /\ size > 0 => Between > 0
<1>1. Slots \in Nat /\ Slots > 2 /\ size \in Int /\ uiPc \in UiPcs
  BY VideoAssumption DEF TypeOK
<1>2. Between \in Int /\ Between <= Slots - 2
  BY <1>1 DEF HasRoom, Between
<1>3. Between >= 0
  BY <1>1 DEF HasPicture, Between
<1>4. videoPc = "copy" => Between <= Slots - 3
  BY <1>1 DEF HasRoom, Between
<1>5. uiPc \in {"refresh", "show"} /\ size > 0 => Between > 0
  BY <1>1 DEF Between
<1> QED
  BY <1>1, <1>2, <1>3, <1>4, <1>5

\* The same, before and after a step that moves an index.
LEMMA MovesBetween ==
  ASSUME TypeOK, HasRoom, HasPicture, Apart
  PROVE  /\ GetPacket \/ CountPicture \/ BeginShow \/ NextPicture =>
              Between' = Between /\ UNCHANGED <<rindex, windex, slot>>
         /\ CopyPicture => /\ Between' = Between + 1 /\ windex = Ahead(Between)
                           /\ windex' = After(windex) /\ UNCHANGED rindex
         /\ DropLatePicture \/ EndShow =>
              /\ Between' = Between - 1 /\ Between > 0
              /\ rindex' = After(rindex) /\ UNCHANGED <<windex, slot>>
<1> USE DEF TypeOK, HasRoom, HasPicture, Apart, Between, reader, packets, decoder, slot,
            refreshing, ui
<1>1. GetPacket => Between' = Between /\ UNCHANGED <<rindex, windex, slot>>
  BY DEF GetPacket
<1>2. CountPicture => Between' = Between /\ UNCHANGED <<rindex, windex, slot>>
  BY DEF CountPicture, VideoAt
<1>3. BeginShow => Between' = Between /\ UNCHANGED <<rindex, windex, slot>>
  BY DEF BeginShow, UiAt
<1>4. NextPicture => Between' = Between /\ UNCHANGED <<rindex, windex, slot>>
  BY DEF NextPicture, PicturesSignalled
<1>5. CopyPicture => /\ Between' = Between + 1 /\ windex = Ahead(Between)
                     /\ windex' = After(windex) /\ UNCHANGED rindex
  BY DEF CopyPicture, VideoAt
<1>6. ASSUME DropLatePicture \/ EndShow
      PROVE  /\ Between' = Between - 1 /\ Between > 0
             /\ rindex' = After(rindex) /\ UNCHANGED <<windex, slot>>
  <2>1. /\ uiPc \in {"refresh", "show"} /\ size > 0
        /\ uiPc' \in {"nextRetry", "nextDone"}
        /\ rindex' = After(rindex) /\ UNCHANGED <<windex, slot, size, videoPc>>
    BY <1>6 DEF DropLatePicture, EndShow, UiAt
  <2>2. Between' = Between - 1 /\ Between > 0
    BY <2>1
  <2> QED
    BY <2>1, <2>2
<1> QED
  BY <1>1, <1>2, <1>3, <1>4, <1>5, <1>6

\* The slot of a picture that is written is none of those that wait or are shown.
LEMMA ApartStep ==
  ASSUME TypeOK, HasRoom, HasPicture, Apart, [Next]_vars
  PROVE  Apart'
<1>0. Still \/ Moves
  BY StillStep
<1>b. Between \in 0..(Slots - 2)
  BY BetweenRange
<1>1. CASE Still
  BY <1>1, <1>b, AheadAgain DEF Still, Apart, Between, Ahead
<1>2. CASE GetPacket \/ CountPicture \/ BeginShow \/ NextPicture
  <2>1. Between' = Between /\ UNCHANGED <<rindex, windex, slot>>
    BY <1>2, MovesBetween
  <2>2. videoPc' = "copy" => videoPc = "copy"
    BY <1>2 DEF GetPacket, CountPicture, VideoAt, BeginShow, NextPicture,
                PicturesSignalled
  <2> QED
    BY <2>1, <2>2 DEF Apart, Ahead, slot
<1>3. CASE CopyPicture
  <2>1. /\ Between' = Between + 1 /\ windex = Ahead(Between)
        /\ windex' = After(windex) /\ rindex' = rindex /\ videoPc' = "count"
    BY <1>3, MovesBetween DEF CopyPicture, VideoAt
  <2>2. Between \in 0..(Slots - 3)
    BY <1>3, BetweenRange DEF CopyPicture, VideoAt
  <2>3. After(Ahead(Between)) = Ahead(Between + 1)
    BY <2>2, VideoAssumption DEF TypeOK, SlotIds, After, Ahead
  <2> QED
    BY <2>1, <2>3 DEF Apart, Ahead
<1>4. CASE DropLatePicture \/ EndShow
  <2>1. /\ Between' = Between - 1 /\ Between > 0
        /\ rindex' = After(rindex) /\ UNCHANGED <<windex, allocated>>
    BY <1>4, MovesBetween DEF slot
  <2>2. videoPc' = videoPc
    BY <1>4 DEF DropLatePicture, EndShow
  <2>5. windex' = Ahead(Between)
    BY <2>1 DEF Apart
  <2>6. windex' = IF rindex' + (Between - 1) < Slots
                    THEN rindex' + (Between - 1) ELSE rindex' + (Between - 1) - Slots
    BY <1>b, <2>1, <2>5, VideoAssumption DEF TypeOK, SlotIds, After, Ahead
  <2> QED
    BY <2>1, <2>2, <2>6 DEF Apart, Ahead
<1> QED
  BY <1>0, <1>1, <1>2, <1>3, <1>4 DEF Moves

-----------------------------------------------------------------------------
\* The pictures ahead are in the order of the film, and later than the one shown.
LEMMA FilmStep ==
  ASSUME TypeOK, HasRoom, HasPicture, Apart, Film, [Next]_vars
  PROVE  Film'
<1>0. Still \/ Moves
  BY StillStep
<1>s. /\ Slots \in Nat /\ Slots > 2 /\ out \in Nat /\ shown \in Nat
      /\ \A i \in 0..(Slots - 1) : frame[Ahead(i)] \in Nat
  BY SlotsAhead, VideoAssumption DEF TypeOK
<1>b. Between \in 0..(Slots - 2)
  BY BetweenRange
<1>1. CASE Still
  <2>1. Between' = Between
    BY <1>1 DEF Still, Between
  <2>2. \A i \in 0..(Between - 1) : frame'[Ahead(i)'] = frame[Ahead(i)]
    BY <1>1 DEF Still, Ahead
  <2> QED
    BY <1>1, <2>1, <2>2 DEF Still, Film
<1>2. CASE GetPacket \/ CountPicture \/ NextPicture
  <2>1. Between' = Between /\ UNCHANGED <<rindex, windex, slot>>
    BY <1>2, MovesBetween
  <2>2. \A i \in 0..(Between - 1) : frame'[Ahead(i)'] = frame[Ahead(i)]
    BY <2>1 DEF Ahead, slot
  <2>3. /\ shown' = shown
        /\ uiPc' = "show" <=> uiPc = "show"
        /\ \/ out' = out /\ (videoPc' \in Pending => videoPc \in Pending)
           \/ out' = out + 1
    BY <1>2, <1>s DEF GetPacket, CountPicture, VideoAt, NextPicture, PicturesSignalled,
                      decoder, ui, Pending
  <2>4. \A i \in 0..(Between - 1) : frame[Ahead(i)] \in Nat
    BY <1>s, <1>b
  <2>5. \A i, j \in 0..(Between' - 1) : i < j => frame'[Ahead(i)'] < frame'[Ahead(j)']
    BY <2>1, <2>2 DEF Film
  <2>6. shown' <= out' /\ (videoPc' \in Pending => shown' < out')
    BY <1>s, <2>3 DEF Film
  <2>7. ASSUME NEW i \in 0..(Between' - 1)
        PROVE  /\ frame'[Ahead(i)'] <= out'
               /\ videoPc' \in Pending => frame'[Ahead(i)'] < out'
               /\ IF uiPc' = "show" /\ i = 0 THEN frame'[Ahead(i)'] = shown'
                                             ELSE frame'[Ahead(i)'] > shown'
    <3>1. /\ frame'[Ahead(i)'] = frame[Ahead(i)] /\ frame[Ahead(i)] \in Nat
          /\ frame[Ahead(i)] <= out
          /\ videoPc \in Pending => frame[Ahead(i)] < out
      BY <2>1, <2>2, <2>4 DEF Film
    <3>2. IF uiPc = "show" /\ i = 0 THEN frame[Ahead(i)] = shown
                                    ELSE frame[Ahead(i)] > shown
      BY <2>1 DEF Film
    <3> QED
      BY <1>s, <2>3, <3>1, <3>2
  <2> QED
    BY <2>5, <2>6, <2>7 DEF Film
<1>3. CASE BeginShow
  <2>1. /\ Between' = Between /\ UNCHANGED <<rindex, frame, out, videoPc>>
        /\ shown' = frame[rindex] /\ uiPc = "refresh" /\ uiPc' = "show"
    BY <1>3, MovesBetween DEF BeginShow, UiAt, slot, decoder
  <2>2. Between > 0 /\ Ahead(0) = rindex
    BY <1>3, BetweenRange, SlotsAhead DEF BeginShow, UiAt
  <2>3. \A i \in 0..(Between - 1) : frame'[Ahead(i)'] = frame[Ahead(i)]
    BY <2>1 DEF Ahead
  <2> QED
    BY <1>s, <1>b, <2>1, <2>2, <2>3 DEF Film
<1>4. CASE CopyPicture
  <2>1. /\ Between' = Between + 1 /\ windex = Ahead(Between)
        /\ UNCHANGED <<rindex, out, shown, uiPc>>
        /\ frame' = [frame EXCEPT ![windex] = out]
        /\ videoPc = "copy" /\ videoPc' = "count"
    BY <1>4, MovesBetween DEF CopyPicture, VideoAt, decoder, ui
  <2>2. Between \in 0..(Slots - 3)
    BY <2>1, BetweenRange
  <2>3. PICK b \in 0..(Slots - 3) : b = Between
    BY <2>2
  <2>4. \A i \in 0..b : Ahead(i)' = Ahead(i) /\ Ahead(i) \in SlotIds
    <3>1. \A i \in 0..b : i \in 0..(Slots - 1)
      BY <1>s
    <3> QED
      BY <2>1, <3>1, SlotsAhead DEF Ahead
  <2>5. \A i \in 0..(b - 1) : frame'[Ahead(i)'] = frame[Ahead(i)]
    <3>1. \A i \in 0..(b - 1) : i \in 0..(Slots - 1) /\ b \in 0..(Slots - 1) /\ i # b
      BY <1>s
    <3>2. \A i \in 0..(b - 1) : Ahead(i) # Ahead(b) /\ i \in 0..b
      BY <3>1, SlotsAhead
    <3> QED
      BY <2>1, <2>3, <2>4, <3>2 DEF TypeOK
  <2>6. frame'[Ahead(b)'] = out
    <3>1. b \in 0..b
      OBVIOUS
    <3> QED
      BY <2>1, <2>3, <2>4, <3>1 DEF TypeOK
  <2>7. \A i \in 0..(b - 1) : frame[Ahead(i)] \in Nat
    BY <1>s
  <2>8. uiPc = "show" => b > 0
    BY <2>3, BetweenRange DEF HasPicture, TypeOK
  <2>9. Between' = b + 1 /\ \A i \in 0..b : i \in 0..(b - 1) \/ i = b
    BY <2>1, <2>3
  <2>10. \A i \in 0..(b - 1) : /\ frame[Ahead(i)] < out
                               /\ IF uiPc = "show" /\ i = 0 THEN frame[Ahead(i)] = shown
                                                            ELSE frame[Ahead(i)] > shown
    BY <2>1, <2>3 DEF Film, Pending
  <2>11. \A i, j \in 0..b : i < j => frame'[Ahead(i)'] < frame'[Ahead(j)']
    <3> SUFFICES ASSUME NEW i \in 0..b, NEW j \in 0..b, i < j
                 PROVE  frame'[Ahead(i)'] < frame'[Ahead(j)']
      OBVIOUS
    <3>1. i \in 0..(b - 1)
      OBVIOUS
    <3>2. CASE j = b
      BY <2>5, <2>6, <2>10, <3>1, <3>2
    <3>3. CASE j \in 0..(b - 1)
      BY <2>3, <2>5, <3>1, <3>3 DEF Film
    <3> QED
      BY <2>9, <3>2, <3>3
  <2>12. \A i \in 0..b :
           /\ frame'[Ahead(i)'] <= out
           /\ IF uiPc = "show" /\ i = 0 THEN frame'[Ahead(i)'] = shown
                                        ELSE frame'[Ahead(i)'] > shown
    <3>1. shown < out
      BY <2>1 DEF Film, Pending
    <3>2. \A i \in 0..(b - 1) :
           /\ frame'[Ahead(i)'] <= out
           /\ IF uiPc = "show" /\ i = 0 THEN frame'[Ahead(i)'] = shown
                                        ELSE frame'[Ahead(i)'] > shown
      BY <1>s, <2>5, <2>7, <2>10
    <3>3. frame'[Ahead(b)'] <= out /\ frame'[Ahead(b)'] > shown
      BY <1>s, <2>6, <3>1
    <3> QED
      BY <2>8, <2>9, <3>2, <3>3
  <2>13. (0..(Between' - 1)) = 0..b
    BY <2>9
  <2> QED
    BY <2>1, <2>11, <2>12, <2>13 DEF Film, Pending
<1>5. CASE DropLatePicture \/ EndShow
  <2>1. /\ Between' = Between - 1 /\ Between > 0
        /\ rindex' = After(rindex) /\ UNCHANGED <<frame, out, shown, videoPc>>
        /\ uiPc' \in {"nextRetry", "nextDone"}
    BY <1>5, MovesBetween DEF slot, DropLatePicture, EndShow, UiAt, decoder
  <2>2. \A i \in 0..(Between' - 1) : /\ i + 1 \in 0..(Between - 1)
                                     /\ frame'[Ahead(i)'] = frame[Ahead(i + 1)]
    BY <1>b, <1>s, <2>1, AheadAgain
  <2>3. \A i \in 0..(Between' - 1) : frame[Ahead(i + 1)] > shown
    BY <2>2 DEF Film
  <2> QED
    BY <1>s, <1>b, <2>1, <2>2, <2>3 DEF Film
<1> QED
  BY <1>0, <1>1, <1>2, <1>3, <1>4, <1>5 DEF Moves

-----------------------------------------------------------------------------
\* The invariant at the start, for each step, and throughout.
LEMMA VideoInit == Init => VideoInv
<1> SUFFICES ASSUME Init PROVE VideoInv
  OBVIOUS
<1>1. TypeOK
  <2>1. videoq \in Seq({Flush, Data, Empty}) /\ calls \in Seq({"alloc", "refresh"})
    BY DEF Init
  <2>2. frame \in [SlotIds -> Nat] /\ allocated \in [SlotIds -> BOOLEAN]
    BY DEF Init
  <2>3. {audio, videoAbort, refresh, abort, lost, crashed} \subseteq BOOLEAN
    BY DEF Init
  <2> QED
    BY <2>1, <2>2, <2>3, VideoAssumption
       DEF Init, TypeOK, ReadPcs, VideoPcs, UiPcs, SlotIds
<1>2. Between = 0
  <2>1. /\ size = 0
        /\ (IF videoPc = "count" THEN 1 ELSE 0) = 0
        /\ (IF uiPc \in {"nextRetry", "nextDone"} THEN 1 ELSE 0) = 0
    BY DEF Init
  <2>2. 0 + 0 - 0 = 0
    OBVIOUS
  <2> QED
    BY <2>1, <2>2 DEF Between
<1>3. HasRoom /\ HasPicture /\ Closing
  BY VideoAssumption DEF Init, HasRoom, HasPicture, Closing
<1>4. Apart
  BY <1>2, VideoAssumption DEF Init, Apart, Ahead
<1>5. Film
  BY <1>2 DEF Init, Film, Pending
<1> QED
  BY <1>1, <1>3, <1>4, <1>5 DEF VideoInv

LEMMA VideoStepKeeps == VideoInv /\ [Next]_vars => VideoInv'
BY TypesStep, RoomStep, ApartStep, FilmStep, ClosingStep DEF VideoInv

LEMMA VideoInvariant == Spec => []VideoInv
BY VideoInit, VideoStepKeeps, PTL DEF Spec

-----------------------------------------------------------------------------
\* The queues, the picture queue and the places of the threads keep their types.
THEOREM VideoTypes == Spec => []TypeOK
<1>1. VideoInv => TypeOK
  BY DEF VideoInv
<1> QED
  BY <1>1, VideoInvariant, PTL

\* The decoder never writes the slot that is shown, nor one without memory of
\* its own, for a picture queue of any length above two: the two slots kept
\* free (ffplay.c, "size >= VIDEO_PICTURE_QUEUE_SIZE - 2") are enough for the
\* one that is written and not counted and the one shown.
THEOREM PicturesApart == Spec => []SlotsApart
<1>1. VideoInv => SlotsApart
  <2> SUFFICES ASSUME VideoInv PROVE SlotsApart
    OBVIOUS
  <2>1. /\ TypeOK /\ Apart /\ Between \in 0..(Slots - 2)
        /\ uiPc = "show" => Between > 0
    <3>1. TypeOK /\ Apart /\ HasRoom /\ HasPicture
      BY DEF VideoInv
    <3>2. uiPc = "show" => size > 0
      BY <3>1 DEF HasPicture, TypeOK
    <3> QED
      BY <3>1, <3>2, BetweenRange
  <2>2. Slots \in Nat /\ rindex \in 0..(Slots - 1)
    BY <2>1, VideoAssumption DEF TypeOK, SlotIds
  <2> QED
    BY <2>1, <2>2 DEF Apart, Ahead, SlotsApart
<1> QED
  BY <1>1, VideoInvariant, PTL

\* What stream_close frees, the thread of the refreshes has left, and the
\* decoder of a film without audio.
THEOREM FreedLast == Spec => []FreedAfterThreads
<1>1. VideoInv => FreedAfterThreads
  BY DEF VideoInv, Closing, FreedAfterThreads
<1> QED
  BY <1>1, VideoInvariant, PTL

\* Each picture shown is a later one than the last.
THEOREM FilmInOrder == Spec => ShownInOrder
<1>1. VideoInv /\ [Next]_vars =>
        [uiPc' = "show" /\ uiPc # "show" => shown' > shown]_<<uiPc, shown>>
  <2> SUFFICES ASSUME VideoInv, [Next]_vars, uiPc' = "show", uiPc # "show"
               PROVE  shown' > shown
    OBVIOUS
  <2>1. BeginShow
    BY StillStep DEF VideoInv, Still, Moves, GetPacket, CopyPicture, CountPicture,
                     DropLatePicture, EndShow, NextPicture, UiAt, VideoAt, ui
  <2>2. size > 0 /\ uiPc = "refresh" /\ shown' = frame[rindex]
    BY <2>1 DEF BeginShow, UiAt
  <2>3. Between \in Nat /\ Between > 0 /\ Ahead(0) = rindex
    BY <2>2, BetweenRange, SlotsAhead DEF VideoInv
  <2>4. frame[Ahead(0)] > shown
    BY <2>2, <2>3 DEF VideoInv, Film
  <2> QED
    BY <2>2, <2>3, <2>4
<1> QED
  BY <1>1, VideoInvariant, PTL DEF Spec, ShownInOrder
=============================================================================
