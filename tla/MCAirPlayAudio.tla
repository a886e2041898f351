-------------------------- MODULE MCAirPlayAudio --------------------------
(* AirPlayAudio with FairPlaySession for TLC.  Phones are interchangeable, *)
(* and as the two parts share nothing, a step of one is taken only where   *)
(* the other rests: the bound that keeps their states from multiplying.    *)
EXTENDS AirPlayAudio, TLC

PhoneSymmetry == Permutations(Phone)

OneAtATimeNext ==
  \/ AudioInit /\ Next /\ UNCHANGED audio
  \/ Init /\ AudioNext /\ UNCHANGED vars

OneAtATime == PhoneInit /\ [][OneAtATimeNext]_<<vars, audio>>

MCAhead == {1, 32767}
MCBehind == {0, 1}
=============================================================================
