-------------------------------- MODULE Mmu ---------------------------------
(***************************************************************************)
(* Address translation as src/mem.c computes it from the registers and the *)
(* page table, without the micro-TLB: every access walks the tables.  This *)
(* is what the micro-TLB of module MicroTlb has to be invisible against.   *)
(*                                                                         *)
(* An address is a page number: a segment and a page of it.  The page      *)
(* table is what the processor reads of it, through the data cache or not. *)
(***************************************************************************)
EXTENDS Integers, Sequences

CONSTANTS
  NSegs,      \* 16 segments
  SegPages,   \* 2^16 pages each
  NBats,      \* 4 BATs for instructions and for data, twice that with SBE
  UpperBats,  \* the model has CAPS_UPPER_BATS and CAPS_HID4
  NSlots,     \* 8 entries of a group
  Groups,     \* the groups of all page tables
  Pteg,       \* the group that SDR1, primary or secondary, a virtual segment
              \* and a page hash to
  \* What the program and the embedder write:
  Sdr1s, Srs, BatUs, BatLs, Ptes, Hids, Msrs,
  Kinds,      \* the accesses made
  ResetSdr1, ResetSr, ResetBatU, ResetBatL \* zero

Segments == 0 .. NSegs - 1
Vpns     == 0 .. NSegs * SegPages - 1
Sides    == {"i", "d"}
Seg(v)   == v \div SegPages
Page(v)  == v % SegPages
BatPps   == {"none", "ro", "rw"}
PtePps   == {"na", "ro_key", "rw", "ro"}

Sr   == [t : BOOLEAN, vsid : Nat, ks : BOOLEAN, kp : BOOLEAN]
BatU == [vs : BOOLEAN, vp : BOOLEAN, bepi : Nat, len : Nat]
BatL == [brpn : Nat, pp : BatPps, ci : BOOLEAN]
Pte  == [v : BOOLEAN, h : BOOLEAN, vsid : Nat, page : Nat, rpn : Nat,
         pp : PtePps, r : BOOLEAN, c : BOOLEAN, ci : BOOLEAN]
Hid  == [ice : BOOLEAN, dce : BOOLEAN, sbe : BOOLEAN]
Msr  == [pr : BOOLEAN, ir : BOOLEAN, dr : BOOLEAN]

ASSUME SizesAssumption ==
  /\ NSegs \in Nat \ {0} /\ SegPages \in Nat \ {0}
  /\ NBats \in Nat \ {0} /\ NSlots \in Nat \ {0}
  /\ UpperBats \in BOOLEAN

ASSUME ValuesAssumption ==
  /\ Srs \subseteq Sr /\ BatUs \subseteq BatU /\ BatLs \subseteq BatL
  /\ Ptes \subseteq Pte /\ Hids \subseteq Hid /\ Msrs \subseteq Msr
  /\ Kinds \subseteq {"fetch", "load", "store"}
  /\ ResetSdr1 \in Sdr1s /\ ResetSr \in Srs
  /\ ResetBatU \in BatUs /\ ResetBatL \in BatLs
  /\ \A d \in Sdr1s, h \in 0 .. 1, s \in {x.vsid : x \in Srs}, p \in 0 .. SegPages - 1 :
       Pteg[<<d, h, s, p>>] \in Groups

Bats  == 0 .. 2 * NBats - 1
Slots == 0 .. NSlots - 1
Errs  == {"not_mapped", "no_perms", "direct_store"}

VARIABLES
  sr,       \* segment registers
  bat,      \* bat[side][n]: the two registers of a BAT
  sdr1,
  hid,      \* HID0[ICE, DCE] and HID4[SBE]
  cacheOn,  \* cache_mode is not DISABLED
  msr,      \* MSR[PR, IR, DR]
  htab,     \* the page table in memory
  last      \* the last access: whether it stores, what failed, or its pages

regs  == <<sr, bat, sdr1, hid, cacheOn>>
mmuVars == <<regs, msr, htab, last>>

NoAccess == [write |-> FALSE, err |-> "none", at |-> 0, pages |-> <<>>]
Pages == [ppn : Nat, cached : BOOLEAN]

MmuTypeOK ==
  /\ sr \in [Segments -> Srs]
  /\ bat \in [Sides -> [Bats -> [u : BatU, l : BatL]]]
  /\ sdr1 \in Sdr1s
  /\ hid \in Hid
  /\ cacheOn \in BOOLEAN
  /\ msr \in Msr
  /\ htab \in [Groups -> [Slots -> Pte]]
  /\ last \in [write : BOOLEAN, err : Errs \cup {"none", "ok"},
             at : Vpns, pages : Seq(Pages)]

MmuInit ==
  /\ sr = [s \in Segments |-> ResetSr]
  /\ bat = [side \in Sides |-> [n \in Bats |-> [u |-> ResetBatU, l |-> ResetBatL]]]
  /\ sdr1 = ResetSdr1
  /\ hid = [ice |-> FALSE, dce |-> FALSE, sbe |-> FALSE]
  /\ cacheOn \in BOOLEAN
  /\ msr = [pr |-> FALSE, ir |-> FALSE, dr |-> FALSE]
  /\ htab \in [Groups -> [Slots -> {p \in Ptes : ~ p.v}]]
  /\ last = NoAccess

-----------------------------------------------------------------------------
(* The walk.  A result is a path to a physical page or an error. *)

Failed(e) ==
  [err |-> e, ppn |-> -1, cached |-> FALSE, writable |-> FALSE, pending |-> FALSE]

Path(ppn, cached, writable, pending) ==
  [err |-> "ok", ppn |-> ppn, cached |-> cached, writable |-> writable,
   pending |-> pending]

On(side) == IF side = "i" THEN msr.ir ELSE msr.dr

\* real_mode_cacheable: the cache exists, is emulated and is enabled
Enabled(side) == cacheOn /\ (IF side = "i" THEN hid.ice ELSE hid.dce)

Least(S) == CHOOSE n \in S : \A m \in S : n <= m

BatCount == IF UpperBats /\ hid.sbe THEN 2 * NBats ELSE NBats

BatHits(pr, side, v) ==
  {n \in 0 .. BatCount - 1 :
     LET u == bat[side][n].u IN
       /\ IF pr THEN u.vp ELSE u.vs
       /\ v >= u.bepi /\ v - u.bepi < u.len}

ThroughBat(pr, side, write, v) ==
  LET b == bat[side][Least(BatHits(pr, side, v))] IN
  IF IF write THEN b.l.pp # "rw" ELSE b.l.pp = "none" THEN Failed("no_perms")
  ELSE Path(b.l.brpn - (b.l.brpn % b.u.len) + (v - b.u.bepi),
            ~ b.l.ci /\ Enabled(side), b.l.pp = "rw", FALSE)

\* The places a page table entry for v can be in, in the order of the search:
\* the slots of the primary group, then those of the secondary one.
Places == 0 .. 2 * NSlots - 1
Where(v, n) ==
  <<Pteg[<<sdr1, n \div NSlots, sr[Seg(v)].vsid, Page(v)>>], n % NSlots>>
At(t, v, n) == t[Where(v, n)[1]][Where(v, n)[2]]

Matches(t, v, n) ==
  LET p == At(t, v, n) IN
  p.v /\ p.h = (n >= NSlots) /\ p.vsid = sr[Seg(v)].vsid /\ p.page = Page(v)

Found(t, v) == {n \in Places : Matches(t, v, n)}
PteOf(t, v) == At(t, v, Least(Found(t, v)))

Key(pr, v) == IF pr THEN sr[Seg(v)].kp ELSE sr[Seg(v)].ks

\* pte_access_allowed
Allowed(key, pp, write) ==
  IF write THEN pp = "rw" \/ (~ key /\ pp # "ro")
  ELSE pp # "na" \/ ~ key

ThroughHtab(t, pr, side, write, v) ==
  LET p == PteOf(t, v) IN
  IF Found(t, v) = {} THEN Failed("not_mapped")
  ELSE IF ~ Allowed(Key(pr, v), p.pp, write) THEN Failed("no_perms")
  ELSE Path(p.rpn, ~ p.ci /\ Enabled(side), Allowed(Key(pr, v), p.pp, TRUE),
            ~ write /\ ~ p.c)

\* ppcemu_virt2phys_slow with translation on, without the micro-TLB
Walk(t, pr, side, write, v) ==
  IF BatHits(pr, side, v) # {} THEN ThroughBat(pr, side, write, v)
  ELSE IF sr[Seg(v)].t THEN Failed("direct_store")
  ELSE ThroughHtab(t, pr, side, write, v)

\* The R and C bits that the walk sets
Bits(p, write) == [p EXCEPT !.r = TRUE, !.c = @ \/ write]
Mark(t, v, write) ==
  LET w == Where(v, Least(Found(t, v))) IN
  [t EXCEPT ![w[1]][w[2]] = Bits(@, write)]

Marked(t, pr, side, write, v) ==
  IF /\ BatHits(pr, side, v) = {} /\ ~ sr[Seg(v)].t
     /\ ThroughHtab(t, pr, side, write, v).err = "ok"
  THEN Mark(t, v, write) ELSE t

Real(side, v) == Path(v, Enabled(side), TRUE, FALSE)

Translate(t, side, write, v) ==
  IF On(side) THEN Walk(t, msr.pr, side, write, v) ELSE Real(side, v)

TableAfter(t, side, write, v) ==
  IF On(side) THEN Marked(t, msr.pr, side, write, v) ELSE t

-----------------------------------------------------------------------------
(* Accesses.  One that fails raises DSI or ISI, which turn translation off. *)

Side(kind) == IF kind = "fetch" THEN "i" ELSE "d"
NextPage(v) == (v + 1) % (NSegs * SegPages)
ToPage(r) == [ppn |-> r.ppn, cached |-> r.cached]

Raise(write, v, r) ==
  /\ last' = [write |-> write, err |-> r.err, at |-> v, pages |-> <<>>]
  /\ msr' = [pr |-> FALSE, ir |-> FALSE, dr |-> FALSE]

Done(write, v, rs) ==
  /\ last' = [write |-> write, err |-> "ok", at |-> v, pages |-> rs]
  /\ UNCHANGED msr

\* What the two translations a and b of an access to one or two pages lead to
Finish(write, v, a) ==
  IF a.err # "ok" THEN Raise(write, v, a) ELSE Done(write, v, <<ToPage(a)>>)

FinishTwo(write, v, a, b) ==
  IF a.err # "ok" THEN Raise(write, v, a)
  ELSE IF b.err # "ok" THEN Raise(write, NextPage(v), b)
  ELSE Done(write, v, <<ToPage(a), ToPage(b)>>)

WalkedAccess(kind, v) ==
  LET write == kind = "store" IN
  /\ UNCHANGED regs
  /\ Finish(write, v, Translate(htab, Side(kind), write, v))
  /\ htab' = TableAfter(htab, Side(kind), write, v)

\* An access that goes on into the next page translates both before it
\* touches data.
WalkedAcross(kind, v) ==
  LET write == kind = "store"
      a  == Translate(htab, "d", write, v)
      t1 == TableAfter(htab, "d", write, v)
  IN
  /\ UNCHANGED regs
  /\ FinishTwo(write, v, a, Translate(t1, "d", write, NextPage(v)))
  /\ htab' = IF a.err = "ok" THEN TableAfter(t1, "d", write, NextPage(v)) ELSE t1

-----------------------------------------------------------------------------
(* What the program, another bus master or the embedder writes. *)

SetSr(s, x) ==
  /\ sr' = [sr EXCEPT ![s] = x]
  /\ UNCHANGED <<bat, sdr1, hid, cacheOn, msr, htab, last>>

SetBat(side, n, b) ==
  /\ n < NBats \/ UpperBats
  /\ bat' = [bat EXCEPT ![side][n] = b]
  /\ UNCHANGED <<sr, sdr1, hid, cacheOn, msr, htab, last>>

\* One of the two registers of a BAT changes at a time.
SetBatHalf(side, n) ==
  \/ \E u \in BatUs : SetBat(side, n, [bat[side][n] EXCEPT !.u = u])
  \/ \E l \in BatLs : SetBat(side, n, [bat[side][n] EXCEPT !.l = l])

SetSdr1(x) == sdr1' = x /\ UNCHANGED <<sr, bat, hid, cacheOn, msr, htab, last>>
SetHid(x)  == hid' = x /\ UNCHANGED <<sr, bat, sdr1, cacheOn, msr, htab, last>>
SetMsr(x)  == msr' = x /\ UNCHANGED <<regs, htab, last>>
SetCacheMode(b) ==
  cacheOn' = b /\ UNCHANGED <<sr, bat, sdr1, hid, msr, htab, last>>

\* A page has one valid entry; the architecture leaves duplicates undefined.
WritePte(g, k, p) ==
  /\ htab' = [htab EXCEPT ![g][k] = p]
  /\ \A v \in Vpns : \A n, m \in Found(htab', v) : n = m
  /\ UNCHANGED <<regs, msr, last>>

ResetRegs ==
  /\ sr' = [s \in Segments |-> ResetSr]
  /\ bat' = [side \in Sides |-> [n \in Bats |-> [u |-> ResetBatU, l |-> ResetBatL]]]
  /\ sdr1' = ResetSdr1
  /\ hid' = [ice |-> FALSE, dce |-> FALSE, sbe |-> FALSE]
  /\ msr' = [pr |-> FALSE, ir |-> FALSE, dr |-> FALSE]
  /\ UNCHANGED <<cacheOn, htab, last>>

MmuNext ==
  \/ \E s \in Segments, x \in Srs : SetSr(s, x)
  \/ \E side \in Sides, n \in Bats : SetBatHalf(side, n)
  \/ \E x \in Sdr1s : SetSdr1(x)
  \/ \E x \in Hids : SetHid(x)
  \/ \E x \in Msrs : SetMsr(x)
  \/ \E b \in BOOLEAN : SetCacheMode(b)
  \/ \E g \in Groups, k \in Slots, p \in Ptes : WritePte(g, k, p)
  \/ ResetRegs
  \/ \E kind \in Kinds, v \in Vpns : WalkedAccess(kind, v)
  \/ \E kind \in Kinds \ {"fetch"}, v \in Vpns : WalkedAcross(kind, v)

MmuSpec == MmuInit /\ [][MmuNext]_mmuVars
=============================================================================
