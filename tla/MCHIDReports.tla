---------------------------- MODULE MCHIDReports ----------------------------
(* HIDReports for TLC: windows are interchangeable, and so are shortcuts.   *)
EXTENDS HIDReports, TLC

ReportSymmetry == Permutations(Window) \cup Permutations(Shortcut)
=============================================================================
