----------------------------- MODULE MCPlayback -----------------------------
(* A small instance of Playback for TLC.                                   *)
EXTENDS Playback

CONSTANTS old

LegacyRequests == {old}

(* Three generations after a change of account or a new page; two after    *)
(* both.                                                                   *)
NotAllAtOnce == session + page.nr + page.serial <= 6
=============================================================================
