-------------------------- MODULE MCHIDAdvertising --------------------------
(* HIDAdvertising for TLC: calls are interchangeable. *)
EXTENDS HIDAdvertising, TLC

CallSymmetry == Permutations(Call)
=============================================================================
