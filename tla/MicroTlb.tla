------------------------------ MODULE MicroTlb ------------------------------
(***************************************************************************)
(* The micro-TLB in front of the walk of module Mmu: two direct-mapped     *)
(* arrays, one for instructions and one for data, that remember what a     *)
(* walk has found (tlb.h, mem.c 175-221 and the fast paths of mem.h).      *)
(*                                                                         *)
(* The history variable stale holds the pages whose registers or entry     *)
(* changed without the flush that the change calls for: tlbie after a page *)
(* table entry, a write of SDR1 or a BAT after HID0, HID4 and whatever the *)
(* embedder changed with ppcemu_set_spr or ppcemu_set_cache_mode.          *)
(***************************************************************************)
EXTENDS Mmu

CONSTANTS
  TlbSize,  \* MICRO_TLB_ENTRIES, 64
  Careful,  \* the program makes no access to a stale page
  Setters   \* the embedder writes registers between two steps

ASSUME TlbAssumption ==
  /\ TlbSize \in Nat \ {0}
  /\ Careful \in BOOLEAN /\ Setters \in BOOLEAN

Ways   == 0 .. TlbSize - 1
Way(v) == v % TlbSize
Entry  == [valid : BOOLEAN, vpn : Vpns, pr : BOOLEAN, ppn : Nat,
           writable : BOOLEAN, pending : BOOLEAN, cached : BOOLEAN]

VARIABLES
  tlb,   \* state->itlb and state->dtlb
  stale

vars == <<mmuVars, tlb, stale>>

TypeOK ==
  /\ MmuTypeOK
  /\ tlb \in [Sides -> [Ways -> Entry]]
  /\ stale \in SUBSET Vpns

NoEntry == [valid |-> FALSE, vpn |-> 0, pr |-> FALSE, ppn |-> 0,
            writable |-> FALSE, pending |-> FALSE, cached |-> FALSE]
Empty == [side \in Sides |-> [w \in Ways |-> NoEntry]]

Init == MmuInit /\ tlb = Empty /\ stale = {}

-----------------------------------------------------------------------------
\* tlb_lookup
Hit(b, pr, side, write, v) ==
  LET e == b[side][Way(v)] IN
  /\ e.valid /\ e.vpn = v /\ e.pr = pr
  /\ write => e.writable /\ ~ e.pending

Cached(b, side, v) ==
  LET e == b[side][Way(v)] IN Path(e.ppn, e.cached, e.writable, e.pending)

\* tlb_insert
Insert(b, side, v, r) ==
  [b EXCEPT ![side][Way(v)] =
     [valid |-> TRUE, vpn |-> v, pr |-> msr.pr, ppn |-> r.ppn,
      writable |-> r.writable, pending |-> r.pending, cached |-> r.cached]]

(* ppcemu_virt2phys: m holds the page table and the micro-TLB. *)
Uses(m, side, write, v) == On(side) /\ Hit(m.b, msr.pr, side, write, v)

Resolve(m, side, write, v) ==
  IF Uses(m, side, write, v) THEN Cached(m.b, side, v)
  ELSE Translate(m.t, side, write, v)

After(m, side, write, v) ==
  LET r == Translate(m.t, side, write, v) IN
  IF Uses(m, side, write, v) THEN m
  ELSE [t |-> TableAfter(m.t, side, write, v),
        b |-> IF On(side) /\ r.err = "ok" THEN Insert(m.b, side, v, r) ELSE m.b]

Now == [t |-> htab, b |-> tlb]
Become(m) == htab' = m.t /\ tlb' = m.b /\ UNCHANGED <<regs, stale>>

Access(kind, v) ==
  LET write == kind = "store" IN
  /\ Careful => v \notin stale
  /\ Finish(write, v, Resolve(Now, Side(kind), write, v))
  /\ Become(After(Now, Side(kind), write, v))

AccessAcross(kind, v) ==
  LET write == kind = "store"
      a  == Resolve(Now, "d", write, v)
      m1 == After(Now, "d", write, v)
  IN
  /\ Careful => v \notin stale /\ NextPage(v) \notin stale
  /\ FinishTwo(write, v, a, Resolve(m1, "d", write, NextPage(v)))
  /\ Become(IF a.err = "ok" THEN After(m1, "d", write, NextPage(v)) ELSE m1)

-----------------------------------------------------------------------------
(* Flushes.  What an invalid entry holds is never read; it is emptied. *)

Without(S) ==
  [side \in Sides |-> [w \in Ways |->
     IF tlb[side][w].valid /\ tlb[side][w].vpn \in S
     THEN NoEntry ELSE tlb[side][w]]]

\* ppcemu_tlb_flush_all
FlushAll == tlb' = Without(Vpns) /\ stale' = {}

\* ppcemu_tlb_flush_segment
FlushSegment(s) ==
  LET S == {v \in Vpns : Seg(v) = s} IN tlb' = Without(S) /\ stale' = stale \ S

\* Mutant of FlushPage: the other page of the way goes instead.
FlushWay(v) ==
  /\ tlb' = Without({w \in Vpns : Way(w) = Way(v) /\ w # v})
  /\ stale' = stale \ {v}

\* ppcemu_tlb_flush_page
FlushPage(v) == tlb' = Without({v}) /\ stale' = stale \ {v}

Forget(S) == tlb' = tlb /\ stale' = stale \cup S

-----------------------------------------------------------------------------
\* do_mtsr and the writes of do_mtspr
Mtsr(s, x)         == SetSr(s, x) /\ FlushSegment(s)
MtsprBat(side, n)  == SetBatHalf(side, n) /\ FlushAll
MtsprSdr1(x)       == SetSdr1(x) /\ FlushAll
\* HID0 and HID4 flush the fetch shortcut and not the micro-TLB.
MtsprHid(x)        == SetHid(x) /\ Forget(Vpns)

\* mtmsr, rfi, ppcemu_set_msr and every exception: nothing is flushed.
ChangeMsr(x) == SetMsr(x) /\ Forget({})

Tlbie(v) == FlushPage(v) /\ UNCHANGED mmuVars

\* A page table entry is written by the program or by another bus master;
\* the pages it stood for are to be flushed by tlbie.
ChangePte(g, k, p) ==
  /\ WritePte(g, k, p)
  /\ Forget({v \in Vpns : \E n \in Found(htab, v) : Where(v, n) = <<g, k>>})

\* ppcemu_set_spr and ppcemu_set_cache_mode
ApiSetBat(side, n)  == Setters /\ SetBatHalf(side, n) /\ Forget(Vpns)
ApiSetSdr1(x)       == Setters /\ SetSdr1(x) /\ Forget(Vpns)
ApiSetCacheMode(b)  == Setters /\ SetCacheMode(b) /\ Forget(Vpns)

Reset == ResetRegs /\ tlb' = Empty /\ stale' = {}

Next ==
  \/ \E kind \in Kinds, v \in Vpns : Access(kind, v)
  \/ \E kind \in Kinds \ {"fetch"}, v \in Vpns : AccessAcross(kind, v)
  \/ \E s \in Segments, x \in Srs : Mtsr(s, x)
  \/ \E side \in Sides, n \in Bats : MtsprBat(side, n) \/ ApiSetBat(side, n)
  \/ \E x \in Sdr1s : MtsprSdr1(x) \/ ApiSetSdr1(x)
  \/ \E x \in Hids : MtsprHid(x)
  \/ \E x \in Msrs : ChangeMsr(x)
  \/ \E v \in Vpns : Tlbie(v)
  \/ \E g \in Groups, k \in Slots, p \in Ptes : ChangePte(g, k, p)
  \/ \E b \in BOOLEAN : ApiSetCacheMode(b)
  \/ Reset

Spec == Init /\ [][Next]_vars

-----------------------------------------------------------------------------
(***************************************************************************)
(* The micro-TLB agrees with the tables on every page that is not stale,   *)
(* at both privileges: what hits is what a walk would find, and the walk   *)
(* would have no R or C bit left to set.                                   *)
(***************************************************************************)
Agree(t, b, S) ==
  \A v \in S, side \in Sides, pr, write \in BOOLEAN :
    Hit(b, pr, side, write, v) =>
      /\ Walk(t, pr, side, write, v).err = "ok"
      /\ ToPage(Walk(t, pr, side, write, v)) = ToPage(Cached(b, side, v))
      /\ Marked(t, pr, side, write, v) = t

HitsAgree == Agree(htab, tlb, Vpns \ stale)

\* A program that flushes as it must never notices the micro-TLB.
ImplementsMmu == MmuSpec

(***************************************************************************)
(* types.h:31: with the caches disabled every access goes to the bus.      *)
(***************************************************************************)
DisabledMeansDisabled ==
  ~ cacheOn => \A v \in Vpns, side \in Sides, write \in BOOLEAN :
                 ~ Resolve(Now, side, write, v).cached
=============================================================================
