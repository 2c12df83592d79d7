--------------------------- MODULE MCVideoPlayer ---------------------------
(* A film of a few pictures, with and without audio.                       *)
EXTENDS VideoPlayer
=============================================================================
