-------------------------- MODULE MCInstructionFetch ------------------------
(***************************************************************************)
(* A small instance of InstructionFetch: page 1 of memory is the code, and *)
(* is page 1 in real mode and page 0 through the page table; the            *)
(* instruction cache has one line.                                         *)
(***************************************************************************)
EXTENDS InstructionFetch

MCGroups == {0}
MCPteg == [x \in {0} \X (0 .. 1) \X {0} \X (0 .. 1) |-> 0]

MCSr  == [t |-> FALSE, vsid |-> 0, ks |-> FALSE, kp |-> TRUE]
MCSrs == {MCSr}

\* Entries: none; page 0 mapped to page 1, for the supervisor.
MCPte(valid) ==
  [v |-> valid, h |-> FALSE, vsid |-> 0, page |-> 0, rpn |-> 1, pp |-> "na",
   r |-> FALSE, c |-> FALSE, ci |-> FALSE]
MCPtes == {MCPte(FALSE), MCPte(TRUE)}

MCBatU  == [vs |-> FALSE, vp |-> FALSE, bepi |-> 0, len |-> 1]
MCBatUs == {MCBatU}
MCBatL  == [brpn |-> 0, pp |-> "ro", ci |-> FALSE]
MCBatLs == {MCBatL}

MCHids == {[ice |-> ice, dce |-> FALSE, sbe |-> FALSE] : ice \in BOOLEAN}
MCMsrs == {[pr |-> FALSE, ir |-> FALSE, dr |-> FALSE],
           [pr |-> FALSE, ir |-> TRUE, dr |-> TRUE],
           [pr |-> TRUE, ir |-> TRUE, dr |-> TRUE]}
MCCode == {1}
=============================================================================
