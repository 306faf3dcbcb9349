----------------------------- MODULE MCRunLoop ------------------------------
(* Small instances of RunLoop. *)
EXTENDS RunLoop

\* MSR values: interrupts and power management in every combination, with
\* translation where a fetch may fail.
MCMsr == {[EE |-> e, POW |-> p, IR |-> FALSE] : e, p \in BOOLEAN}
         \cup {[EE |-> TRUE, POW |-> FALSE, IR |-> TRUE]}
MCHid0 == {{"DOZE"}, {"NAP"}, {"SLEEP"}, {"DOZE", "NAP"}}
MCTimes == {2}
=============================================================================
