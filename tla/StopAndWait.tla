---------------------------- MODULE StopAndWait ----------------------------
(***************************************************************************)
(* What the serial download promises: a row of frames of which the device  *)
(* is never more than one ahead of what the host knows of.  The device may *)
(* take a frame the host has no answer for back, to have it again.         *)
(***************************************************************************)
EXTENDS Naturals

CONSTANT Frames       \* the number of frames
VARIABLES sent,       \* frames the host has an answer for
          got         \* frames the device has

vars == <<sent, got>>
Init == sent = 0 /\ got = 0
Accept == got = sent /\ got < Frames /\ got' = got + 1 /\ UNCHANGED sent
TakeBack == got = sent + 1 /\ got' = sent /\ UNCHANGED sent
Confirm == got = sent + 1 /\ sent' = got /\ UNCHANGED got
Next == Accept \/ TakeBack \/ Confirm
=============================================================================
