------------------------------- MODULE MCLoop -------------------------------
(* The parts of the event loop of JavaScript, one of them in a behaviour:  *)
(* the queue of a socket, the decoder of HTTP, the search for a server     *)
(* with the playlist, and the callbacks of curl handles.                   *)
EXTENDS WrapSocket, HttpCodec, Playlist, CurlRefs

VARIABLE part

loopVars == <<vars, codecVars, playlistVars, curlVars, part>>

Message(alive, get, chunked, length, body) ==
  [keepAlive |-> alive, get |-> get, chunked |-> chunked, length |-> length,
   body |-> body, long |-> FALSE]

\* What a peer may send, with the connection kept or closed after it.
Kept ==
  {Message(TRUE, FALSE, TRUE, None, b) : b \in {<<0>>, <<1, 0>>}}
    \cup {Message(TRUE, FALSE, FALSE, n, n) : n \in 0..3}
    \cup {Message(TRUE, TRUE, FALSE, None, 0)}
    \cup {[Message(TRUE, FALSE, FALSE, None, 0) EXCEPT !.long = l] : l \in BOOLEAN}

Closing ==
  {Message(FALSE, TRUE, FALSE, None, 0), Message(FALSE, FALSE, TRUE, None, <<0>>)}
    \cup {Message(FALSE, FALSE, FALSE, n, n) : n \in 0..1}
    \cup {Message(FALSE, FALSE, FALSE, None, n) : n \in 0..3}

MCTransmissions ==
  {<<>>} \cup {<<m>> : m \in Kept \cup Closing}
    \cup {<<m, n>> : m \in Kept, n \in Kept \cup Closing}

LoopInit ==
  /\ part \in {"socket", "codec", "playlist", "curl"}
  /\ Init /\ (part = "socket" \/ bad = 1)
  /\ InitCodec /\ (part = "codec" <=> messages # <<>>) /\ (part = "codec" \/ joins)
  /\ InitPlaylist /\ (part = "playlist" \/ ssdpTimer = "waiting") /\ InitCurl

LoopNext ==
  /\ UNCHANGED part
  /\ \/ /\ part = "socket" /\ Next
        /\ UNCHANGED <<codecVars, playlistVars, curlVars>>
     \/ /\ part = "codec" /\ NextCodec
        /\ UNCHANGED <<vars, playlistVars, curlVars>>
     \/ /\ part = "playlist" /\ NextPlaylist
        /\ UNCHANGED <<vars, codecVars, curlVars>>
     \/ /\ part = "curl" /\ NextCurl
        /\ UNCHANGED <<vars, codecVars, playlistVars>>

\* A socket that has not started and a codec without messages have no step that
\* fairness asks for.
LoopSpec ==
  /\ LoopInit /\ [][LoopNext]_loopVars
  /\ Fairness /\ WF_codecVars(NextCodec)
  /\ part = "playlist" => FairPlaylist

\* AllExecuted, in the behaviours of the playlist.
AllExecutedByPlaylist == part = "playlist" => AllExecuted
=============================================================================
