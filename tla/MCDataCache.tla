---------------------------- MODULE MCDataCache -----------------------------
(* Instances of DataCache for TLC. *)
EXTENDS DataCache

\* Lines 0 and 2 compete for slot 0, line 1 has slot 1 to itself.
MCTouched == {0, 1, 2}
MCLowPower == {"DOZE", "NAP"}
=============================================================================
