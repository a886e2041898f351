-------------------------- MODULE MCMirrorSessions --------------------------
(* MirrorSessions on small sets of devices and calls, for TLC.             *)
EXTENDS MirrorSessions, TLC

DeviceSymmetry == Permutations(Device) \cup Permutations(UsbTask)
=============================================================================
