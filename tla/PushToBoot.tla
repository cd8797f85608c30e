----------------------------- MODULE PushToBoot ----------------------------
(***************************************************************************)
(* What the network-loader promises whoever pushes to it: a push is armed  *)
(* as one whole image, a later push may replace it, and the machine then   *)
(* starts the image armed last.  It resets only when nothing is armed, and *)
(* once something is armed it does start.                                  *)
(***************************************************************************)
CONSTANTS
    Images,   \* whole pushes, each as pushed or stamped
    Reset,    \* the machine was reset
    None

VARIABLES
    armed,    \* the image that will start, or None
    started   \* what the machine has started: None, Reset or an image

vars == <<armed, started>>

Init == armed = None /\ started = None

Arm(image) ==
    /\ started = None
    /\ armed' = image
    /\ UNCHANGED started

Start ==
    /\ started = None /\ armed # None
    /\ started' = armed
    /\ UNCHANGED armed

GiveUp ==
    /\ started = None /\ armed = None
    /\ started' = Reset
    /\ UNCHANGED armed

Next == (\E image \in Images : Arm(image)) \/ Start \/ GiveUp

Spec == Init /\ [][Next]_vars /\ WF_vars(Start)
=============================================================================
