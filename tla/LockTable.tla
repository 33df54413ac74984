----------------------------- MODULE LockTable ------------------------------
(* What a mutex promises to the channels that have it open: each holds it  *)
(* in a mode, and a channel is given a mode only if it is compatible with  *)
(* the modes of all the others.  MutexDev implements this.                 *)
EXTENDS LockModes

CONSTANT Chans       \* the i/o channels that have the mutex open

VARIABLE curmode     \* the mode each channel has the mutex at

Init == curmode = [c \in Chans |-> "NL"]

(* A channel's mode is set, at once or after some waiting. *)
SetMode(c, m) ==
  /\ \A d \in Chans \ {c} : curmode[d] \in Compat(m)
  /\ curmode' = [curmode EXCEPT ![c] = m]

Next == \E c \in Chans, m \in Modes : SetMode(c, m)

Spec == Init /\ [][Next]_curmode
=============================================================================
