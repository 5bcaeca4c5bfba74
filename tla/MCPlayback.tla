----------------------------- MODULE MCPlayback -----------------------------
(***************************************************************************)
(* Small instances of Playback: a session with picture and sound, set up   *)
(* in this order, so that the sound track keeps its frequency; one with    *)
(* sound only; ranges that are bounded, open, and without a begin.         *)
(***************************************************************************)
EXTENDS Playback

CONSTANTS h1, h2

VideoAndAudio == <<"video", "audio">>
Audio == <<"audio">>

\* "0-1", "0:00:02-" and "-2"
MCRanges == {<<<<0>>, <<1>>>>, <<<<0, 0, 2>>, <<>>>>, <<<<>>, <<2>>>>}
=============================================================================
