----------------------------- MODULE MCMicroTlb -----------------------------
(***************************************************************************)
(* Small instances of MicroTlb.  The page table has two groups of one      *)
(* slot, each primary for one page or virtual segment and secondary for    *)
(* the other; pages collide in a TLB of one way.                           *)
(***************************************************************************)
EXTENDS MicroTlb

MCGroups == 0 .. 1
MCPteg == [x \in (0 .. 1) \X (0 .. 1) \X (0 .. 1) \X (0 .. 1) |->
             (x[1] + x[2] + x[3] + x[4]) % 2]
MCOneTable  == {0}
MCTwoTables == {0, 1}

\* Segments: one; two virtual segments, shared or not; a direct-store segment.
MCSr(vsid, t) == [t |-> t, vsid |-> vsid, ks |-> FALSE, kp |-> TRUE]
MCReset    == MCSr(0, FALSE)
MCOneSr    == {MCReset}
MCTwoSrs   == {MCReset, MCSr(1, FALSE)}
MCDirectSr == {MCReset, MCSr(0, TRUE)}

\* Entries: none; a page to read and write; one that users may only read,
\* uncached, in its secondary group.
MCPte(valid, h, vsid, rpn, pp) ==
  [v |-> valid, h |-> h, vsid |-> vsid, page |-> 0, rpn |-> rpn, pp |-> pp,
   r |-> FALSE, c |-> FALSE, ci |-> vsid = 1]
MCNoPte   == MCPte(FALSE, FALSE, 0, 0, "rw")
MCOnePte  == {MCNoPte, MCPte(TRUE, FALSE, 0, 5, "rw")}
MCTwoPtes == MCOnePte \cup {MCPte(TRUE, TRUE, 1, 6, "ro_key")}

\* BATs: none; one page, for the supervisor.
MCBatU(vs, len) == [vs |-> vs, vp |-> FALSE, bepi |-> 0, len |-> len]
MCNoBatU  == MCBatU(FALSE, 1)
MCNoBatUs == {MCNoBatU}
MCBatUs   == {MCNoBatU, MCBatU(TRUE, 1)}
MCBatL    == [brpn |-> 6, pp |-> "rw", ci |-> FALSE]
MCBatLs   == {MCBatL}

MCHid(sbe) == [ice |-> TRUE, dce |-> TRUE, sbe |-> sbe]
MCHids == {MCHid(FALSE), MCHid(TRUE)}
MCUpper == {MCHid(TRUE)}

MCMsr(pr, on) == [pr |-> pr, ir |-> on, dr |-> on]
MCBoth == {MCMsr(FALSE, TRUE), MCMsr(TRUE, TRUE)}
MCOn   == {MCMsr(FALSE, TRUE)}
=============================================================================
