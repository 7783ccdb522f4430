--------------------------- MODULE PlaybackIntent ---------------------------
(***************************************************************************)
(* What choosing an episode promises the listener: the player plays what   *)
(* was last asked for, or nothing.                                         *)
(***************************************************************************)
CONSTANTS Request, None

VARIABLES
  wanted,   \* the selection the listener is waiting for or listening to
  playing   \* the selection whose audio plays

Init == wanted = None /\ playing = None

Want == wanted' \in Request /\ playing' = None

Stop == wanted' = None /\ playing' = None

Play == wanted # None /\ playing' = wanted /\ UNCHANGED wanted

Spec == Init /\ [][Want \/ Stop \/ Play]_<<wanted, playing>>
=============================================================================
