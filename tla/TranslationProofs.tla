------------------------- MODULE TranslationProofs --------------------------
(***************************************************************************)
(* Proofs about MicroTlb, for every geometry of the TLB, the segments and  *)
(* the page tables, and then about InstructionFetch, for every geometry of *)
(* the instruction cache as well.  The micro-TLB keeps its invariant under *)
(* fetches; to it come what the cache holds and what the shortcut stands   *)
(* for.                                                                    *)
(***************************************************************************)
EXTENDS InstructionFetch, FiniteSets, FiniteSetTheorems, WellFoundedInduction, TLAPS

\* The search ends at the first place that matches.  (The elements of S up
\* to n are the fewest for the least n; a finite set has no infinite chain of
\* smaller and smaller subsets.)
LEMMA LeastIn ==
  ASSUME NEW top \in Nat, NEW S \in SUBSET (0 .. top), S # {}
  PROVE  Least(S) \in S /\ \A y \in S : Least(S) <= y
<1> DEFINE UpTo(n) == {m \in S : m <= n}
           R == StrictSubsetOrdering(S)
           T == {UpTo(n) : n \in S}
<1>1. IsFiniteSet(S)
  <2>1. \A n \in S : n \in Nat /\ n <= top
    OBVIOUS
  <2>2. S \in SUBSET Nat
    BY <2>1
  <2> QED
    BY <2>1, <2>2, FS_BoundedSetOfNaturals
<1>2. IsWellFoundedOn(R, SUBSET S)
  BY <1>1, FS_StrictSubsetOrderingWellFounded, FS_FiniteSubsetsOfFinite
<1>3. T \subseteq SUBSET S /\ T # {}
  OBVIOUS
<1>4. PICK X \in T : \A Y \in T : ~ (<<Y, X>> \in R)
  <2> HIDE DEF T, R
  <2> QED
    BY <1>2, <1>3, WFMin
<1>5. PICK x \in S : X = UpTo(x)
  OBVIOUS
<1>6. \A y \in S : x <= y
  <2> SUFFICES ASSUME NEW y \in S, ~ (x <= y)
               PROVE  FALSE
    OBVIOUS
  <2>1. \A n \in S : n \in Nat
    OBVIOUS
  <2>2. y < x /\ y \in Nat /\ x \in Nat
    BY <2>1
  <2>3. UpTo(y) \subseteq UpTo(x) /\ x \in UpTo(x) /\ x \notin UpTo(y)
    <3>1. \A m \in S : m <= y => m <= x
      BY <2>1, <2>2
    <3>2. x <= x /\ ~ (x <= y)
      BY <2>2
    <3> QED
      BY <3>1, <3>2
  <2>4. UpTo(y) \in SUBSET S /\ UpTo(x) \in SUBSET S /\ UpTo(y) # UpTo(x)
    BY <2>3
  <2>5. UpTo(y) \in T
    OBVIOUS
  <2> HIDE DEF UpTo, T
  <2>6. <<UpTo(y), X>> \in R
    BY <2>3, <2>4, <1>5 DEF StrictSubsetOrdering
  <2> HIDE DEF R
  <2> QED
    BY <1>4, <2>5, <2>6
<1> QED
  BY <1>6 DEF Least

LEMMA PageBounds ==
  ASSUME NEW v \in Vpns
  PROVE  Seg(v) \in Segments /\ Page(v) \in 0 .. SegPages - 1
<1>1. NSegs \in Nat /\ SegPages \in Nat /\ SegPages > 0 /\ v \in Nat /\ v < NSegs * SegPages
  BY SizesAssumption DEF Vpns
<1>2. Page(v) \in 0 .. SegPages - 1
  BY <1>1 DEF Page
<1>3. Seg(v) \in Nat
  BY <1>1 DEF Seg
<1>4. SegPages * Seg(v) <= v
  BY <1>1 DEF Seg
<1>5. Seg(v) < NSegs
  BY <1>1, <1>3, <1>4
<1> QED
  BY <1>1, <1>2, <1>3, <1>5 DEF Segments

-----------------------------------------------------------------------------
(* The page table: what setting R and C bits leaves alone. *)

Tables == [Groups -> [Slots -> Pte]]

LEMMA PlaceType ==
  ASSUME MmuTypeOK, NEW v \in Vpns, NEW n \in Places
  PROVE  Where(v, n)[1] \in Groups /\ Where(v, n)[2] \in Slots
<1>1. NSlots \in Nat /\ NSlots > 0 /\ n \in Nat /\ n < 2 * NSlots
  BY SizesAssumption DEF Places
<1>2. n % NSlots \in Slots
  BY <1>1 DEF Slots
<1>3. n \div NSlots \in 0 .. 1
  BY <1>1
<1>4. sr[Seg(v)] \in Srs /\ Page(v) \in 0 .. SegPages - 1 /\ sdr1 \in Sdr1s
  BY PageBounds DEF MmuTypeOK
<1>5. sr[Seg(v)].vsid \in {x.vsid : x \in Srs}
  BY <1>4
<1>6. Pteg[<<sdr1, n \div NSlots, sr[Seg(v)].vsid, Page(v)>>] \in Groups
  BY <1>3, <1>4, <1>5, ValuesAssumption
<1> QED
  BY <1>2, <1>6 DEF Where

LEMMA AtType ==
  ASSUME MmuTypeOK, NEW t \in Tables, NEW v \in Vpns, NEW n \in Places
  PROVE  At(t, v, n) \in Pte
BY PlaceType DEF At, Tables

LEMMA FoundPlace ==
  ASSUME MmuTypeOK, NEW t \in Tables, NEW v \in Vpns, Found(t, v) # {}
  PROVE  /\ Least(Found(t, v)) \in Found(t, v)
         /\ Least(Found(t, v)) \in Places
         /\ PteOf(t, v) \in Pte
<1>1. 2 * NSlots - 1 \in Nat /\ Found(t, v) \in SUBSET (0 .. 2 * NSlots - 1)
  BY SizesAssumption DEF Found, Places
<1>2. Least(Found(t, v)) \in Found(t, v)
  BY <1>1, LeastIn
<1>3. Least(Found(t, v)) \in Places
  BY <1>2 DEF Found
<1> QED
  BY <1>2, <1>3, AtType DEF PteOf

Same(p, q) ==
  /\ p.v = q.v /\ p.h = q.h /\ p.vsid = q.vsid /\ p.page = q.page
  /\ p.rpn = q.rpn /\ p.pp = q.pp /\ p.ci = q.ci
  /\ p.r => q.r
  /\ p.c => q.c

Grows(t, u) ==
  u \in Tables /\ \A g \in Groups, k \in Slots : Same(t[g][k], u[g][k])

LEMMA MarkGrows ==
  ASSUME MmuTypeOK, NEW t \in Tables, NEW v \in Vpns, NEW write \in BOOLEAN,
         Found(t, v) # {}
  PROVE  LET w == Where(v, Least(Found(t, v))) IN
         /\ Grows(t, Mark(t, v, write))
         /\ Mark(t, v, write)[w[1]][w[2]].r
         /\ write => Mark(t, v, write)[w[1]][w[2]].c
<1> DEFINE w == Where(v, Least(Found(t, v)))
           p == t[w[1]][w[2]]
           q == Bits(p, write)
           u == Mark(t, v, write)
<1>1. w[1] \in Groups /\ w[2] \in Slots
  BY FoundPlace, PlaceType
<1> HIDE DEF w
<1>2. p \in Pte
  BY <1>1 DEF Tables
<1>3. q \in Pte /\ Same(p, q) /\ q.r /\ (write => q.c)
  <2> HIDE DEF p
  <2>1. (p.c \/ write) \in BOOLEAN
    OBVIOUS
  <2>2. q \in Pte
    BY <1>2, <2>1 DEF Pte, Bits
  <2>3. /\ q.v = p.v /\ q.h = p.h /\ q.vsid = p.vsid /\ q.page = p.page
        /\ q.rpn = p.rpn /\ q.pp = p.pp /\ q.ci = p.ci /\ q.r = TRUE
    BY <1>2 DEF Pte, Bits
  <2>4. q.c = (p.c \/ write)
    BY <1>2 DEF Pte, Bits
  <2>5. write => q.c
    BY <2>4
  <2>6. p.c => q.c
    BY <2>4
  <2> QED
    BY <2>2, <2>3, <2>5, <2>6 DEF Same
<1>4. u = [t EXCEPT ![w[1]][w[2]] = q]
  BY DEF Mark, w
<1>5. u \in [Groups -> [Slots -> Pte]] /\ u[w[1]][w[2]] = q
  <2> HIDE DEF q, u
  <2> QED
    BY <1>1, <1>3, <1>4 DEF Tables
<1>6. \A g \in Groups, k \in Slots :
        ~ (g = w[1] /\ k = w[2]) => u[g][k] = t[g][k]
  <2> HIDE DEF q, u
  <2> QED
    BY <1>1, <1>4 DEF Tables
<1>7. \A g \in Groups, k \in Slots : Same(t[g][k], u[g][k])
  <2> SUFFICES ASSUME NEW g \in Groups, NEW k \in Slots
               PROVE  Same(t[g][k], u[g][k])
    OBVIOUS
  <2> HIDE DEF q, u
  <2>1. CASE g = w[1] /\ k = w[2]
    BY <2>1, <1>3, <1>5
  <2>2. CASE ~ (g = w[1] /\ k = w[2])
    BY <2>2, <1>6 DEF Same
  <2> QED
    BY <2>1, <2>2
<1> QED
  BY <1>3, <1>5, <1>7 DEF Grows, Tables, w

LEMMA GrowsFound ==
  ASSUME MmuTypeOK, NEW t \in Tables, NEW u, Grows(t, u), NEW v \in Vpns
  PROVE  /\ Found(u, v) = Found(t, v)
         /\ Found(t, v) # {} => Same(PteOf(t, v), PteOf(u, v))
<1>1. \A n \in Places : Same(At(t, v, n), At(u, v, n))
  BY PlaceType DEF Grows, At
<1>2. \A n \in Places : Matches(u, v, n) <=> Matches(t, v, n)
  BY <1>1 DEF Matches, Same
<1>3. Found(u, v) = Found(t, v)
  BY <1>2 DEF Found
<1>4. Found(t, v) # {} => Least(Found(t, v)) \in Places
  BY FoundPlace
<1> QED
  BY <1>1, <1>3, <1>4 DEF PteOf

-----------------------------------------------------------------------------
(* The walk. *)

\* The R and C bits say already what a walk would record.
Settled(t, pr, side, write, v) ==
  /\ BatHits(pr, side, v) = {} /\ ~ sr[Seg(v)].t
  /\ ThroughHtab(t, pr, side, write, v).err = "ok"
  => PteOf(t, v).r /\ (write => PteOf(t, v).c)

LEMMA HtabOk ==
  ASSUME NEW t, NEW pr, NEW side, NEW write, NEW v
  PROVE  ThroughHtab(t, pr, side, write, v).err = "ok" <=>
           Found(t, v) # {} /\ Allowed(Key(pr, v), PteOf(t, v).pp, write)
BY DEF ThroughHtab, Failed, Path

LEMMA BatOk ==
  ASSUME NEW pr, NEW side, NEW write \in BOOLEAN, NEW v
  PROVE  LET pp == bat[side][Least(BatHits(pr, side, v))].l.pp IN
         ThroughBat(pr, side, write, v).err = "ok" <=>
           IF write THEN pp = "rw" ELSE pp # "none"
BY DEF ThroughBat, Failed, Path

LEMMA SettledMarked ==
  ASSUME MmuTypeOK, NEW t \in Tables, NEW pr \in BOOLEAN, NEW side \in Sides,
         NEW write \in BOOLEAN, NEW v \in Vpns
  PROVE  Marked(t, pr, side, write, v) = t <=> Settled(t, pr, side, write, v)
<1> DEFINE w == Where(v, Least(Found(t, v)))
           p == t[w[1]][w[2]]
<1>1. PteOf(t, v) = p
  BY DEF PteOf, At
<1>2. CASE BatHits(pr, side, v) = {} /\ ~ sr[Seg(v)].t
           /\ ThroughHtab(t, pr, side, write, v).err = "ok"
  <2>1. Found(t, v) # {} /\ Marked(t, pr, side, write, v) = Mark(t, v, write)
    BY <1>2, HtabOk DEF Marked
  <2>2. w[1] \in Groups /\ w[2] \in Slots /\ p \in Pte
    BY <2>1, FoundPlace, PlaceType DEF Tables
  <2>3. Mark(t, v, write)[w[1]][w[2]].r /\ (write => Mark(t, v, write)[w[1]][w[2]].c)
    BY <2>1, MarkGrows
  <2>4. Mark(t, v, write) = [t EXCEPT ![w[1]][w[2]] = Bits(p, write)]
    BY DEF Mark
  <2>5. ASSUME p.r, write => p.c PROVE Bits(p, write) = p
    <3> HIDE DEF p
    <3>1. p.r = TRUE /\ p.c = (p.c \/ write)
      BY <2>2, <2>5 DEF Pte
    <3>2. Bits(p, write) = [p EXCEPT !.r = p.r, !.c = p.c]
      BY <3>1 DEF Bits
    <3> QED
      BY <2>2, <3>2 DEF Pte
  <2>6. [t EXCEPT ![w[1]][w[2]] = p] = t
    <3> HIDE DEF w
    <3> QED
      BY <2>2 DEF Tables
  <2>7. Settled(t, pr, side, write, v) <=> p.r /\ (write => p.c)
    BY <1>1, <1>2 DEF Settled
  <2> HIDE DEF p, w
  <2>8. Mark(t, v, write) = t => p.r /\ (write => p.c)
    BY <2>3 DEF p
  <2>9. p.r /\ (write => p.c) => Mark(t, v, write) = t
    BY <2>4, <2>5, <2>6
  <2> QED
    BY <2>1, <2>7, <2>8, <2>9
<1>3. CASE ~ (BatHits(pr, side, v) = {} /\ ~ sr[Seg(v)].t
              /\ ThroughHtab(t, pr, side, write, v).err = "ok")
  BY <1>3 DEF Marked, Settled
<1> QED
  BY <1>2, <1>3

LEMMA MarkedGrows ==
  ASSUME MmuTypeOK, NEW t \in Tables, NEW pr \in BOOLEAN, NEW side \in Sides,
         NEW write \in BOOLEAN, NEW v \in Vpns
  PROVE  Grows(t, Marked(t, pr, side, write, v))
<1>1. CASE BatHits(pr, side, v) = {} /\ ~ sr[Seg(v)].t
           /\ ThroughHtab(t, pr, side, write, v).err = "ok"
  <2>1. Found(t, v) # {} /\ Marked(t, pr, side, write, v) = Mark(t, v, write)
    BY <1>1, HtabOk DEF Marked
  <2> QED
    BY <2>1, MarkGrows
<1>2. CASE ~ (BatHits(pr, side, v) = {} /\ ~ sr[Seg(v)].t
              /\ ThroughHtab(t, pr, side, write, v).err = "ok")
  <2>1. Marked(t, pr, side, write, v) = t
    BY <1>2 DEF Marked
  <2> QED
    BY <2>1 DEF Grows, Same
<1> QED
  BY <1>1, <1>2

\* More R and C bits change no translation.
LEMMA GrowsWalk ==
  ASSUME MmuTypeOK, NEW t \in Tables, NEW u, Grows(t, u), NEW pr \in BOOLEAN,
         NEW side \in Sides, NEW write \in BOOLEAN, NEW v \in Vpns
  PROVE  /\ Walk(u, pr, side, write, v).err = Walk(t, pr, side, write, v).err
         /\ ToPage(Walk(u, pr, side, write, v)) = ToPage(Walk(t, pr, side, write, v))
         /\ Settled(t, pr, side, write, v) => Settled(u, pr, side, write, v)
<1>1. Found(u, v) = Found(t, v) /\ (Found(t, v) # {} => Same(PteOf(t, v), PteOf(u, v)))
  BY GrowsFound
<1>2. /\ ThroughHtab(u, pr, side, write, v).err = ThroughHtab(t, pr, side, write, v).err
      /\ ToPage(ThroughHtab(u, pr, side, write, v)) = ToPage(ThroughHtab(t, pr, side, write, v))
  BY <1>1 DEF ThroughHtab, ToPage, Failed, Path, Same
<1>3. Settled(t, pr, side, write, v) => Settled(u, pr, side, write, v)
  BY <1>1, <1>2, HtabOk DEF Settled, Same
<1> QED
  BY <1>2, <1>3 DEF Walk

\* What one walk finds stands for every later access that it entitles to.
LEMMA WalkStands ==
  ASSUME MmuTypeOK, NEW t \in Tables, NEW pr \in BOOLEAN, NEW side \in Sides,
         NEW write \in BOOLEAN, NEW later \in BOOLEAN, NEW v \in Vpns,
         Walk(t, pr, side, write, v).err = "ok",
         later => /\ Walk(t, pr, side, write, v).writable
                  /\ ~ Walk(t, pr, side, write, v).pending
  PROVE  LET u == Marked(t, pr, side, write, v) IN
         /\ Walk(u, pr, side, later, v).err = "ok"
         /\ ToPage(Walk(u, pr, side, later, v)) = ToPage(Walk(t, pr, side, write, v))
         /\ Settled(u, pr, side, later, v)
<1> DEFINE u == Marked(t, pr, side, write, v)
<1>1. Grows(t, u)
  BY MarkedGrows
<1>2. CASE BatHits(pr, side, v) # {}
  <2> DEFINE pp == bat[side][Least(BatHits(pr, side, v))].l.pp
  <2>1. /\ Walk(t, pr, side, write, v) = ThroughBat(pr, side, write, v)
        /\ Walk(u, pr, side, later, v) = ThroughBat(pr, side, later, v)
    BY <1>2 DEF Walk
  <2>2. IF write THEN pp = "rw" ELSE pp # "none"
    BY <2>1, BatOk
  <2>3. ThroughBat(pr, side, write, v).writable <=> pp = "rw"
    BY <2>2 DEF ThroughBat, Path
  <2>4. IF later THEN pp = "rw" ELSE pp # "none"
    BY <2>1, <2>2, <2>3
  <2>5. ThroughBat(pr, side, later, v).err = "ok"
    BY <2>4, BatOk
  <2>6. ToPage(ThroughBat(pr, side, later, v)) = ToPage(ThroughBat(pr, side, write, v))
    BY <2>2, <2>4 DEF ThroughBat, ToPage, Path
  <2>7. Settled(u, pr, side, later, v)
    BY <1>2 DEF Settled
  <2> QED
    BY <2>1, <2>5, <2>6, <2>7
<1>3. CASE BatHits(pr, side, v) = {}
  <2>1. ~ sr[Seg(v)].t /\ Walk(t, pr, side, write, v) = ThroughHtab(t, pr, side, write, v)
    BY <1>3 DEF Walk, Failed
  <2>2. Walk(u, pr, side, later, v) = ThroughHtab(u, pr, side, later, v)
    BY <1>3, <2>1 DEF Walk
  <2>3. Found(t, v) # {} /\ Allowed(Key(pr, v), PteOf(t, v).pp, write)
    BY <2>1, HtabOk
  <2>4. /\ ThroughHtab(t, pr, side, write, v).writable
             <=> Allowed(Key(pr, v), PteOf(t, v).pp, TRUE)
        /\ ThroughHtab(t, pr, side, write, v).pending <=> ~ write /\ ~ PteOf(t, v).c
    BY <2>3 DEF ThroughHtab, Path
  <2>5. Found(u, v) = Found(t, v) /\ Same(PteOf(t, v), PteOf(u, v))
    BY <1>1, <2>3, GrowsFound
  <2>6. Allowed(Key(pr, v), PteOf(u, v).pp, later)
    <3>1. PteOf(u, v).pp = PteOf(t, v).pp
      BY <2>5 DEF Same
    <3>2. CASE later
      BY <2>1, <2>4, <3>1, <3>2
    <3>3. CASE ~ later
      BY <2>3, <3>1, <3>3 DEF Allowed
    <3> QED
      BY <3>2, <3>3
  <2>7. ThroughHtab(u, pr, side, later, v).err = "ok"
    BY <2>3, <2>5, <2>6, HtabOk
  <2>8. ToPage(ThroughHtab(u, pr, side, later, v)) = ToPage(ThroughHtab(t, pr, side, write, v))
    BY <2>3, <2>5, <2>6 DEF ThroughHtab, ToPage, Path, Same
  <2>9. Settled(u, pr, side, later, v)
    <3>1. u = Mark(t, v, write)
      BY <1>3, <2>1 DEF Marked
    <3>2. PteOf(u, v) = u[Where(v, Least(Found(t, v)))[1]][Where(v, Least(Found(t, v)))[2]]
      BY <2>5 DEF PteOf, At
    <3>3. PteOf(u, v).r /\ (write => PteOf(u, v).c)
      BY <2>3, <3>1, <3>2, MarkGrows
    <3>4. later => PteOf(u, v).c
      <4>1. CASE write
        BY <3>3, <4>1
      <4>2. CASE ~ write
        BY <2>1, <2>4, <2>5, <4>2 DEF Same
      <4> QED
        BY <4>1, <4>2
    <3> HIDE DEF u
    <3> QED
      BY <3>3, <3>4 DEF Settled
  <2> QED
    BY <2>1, <2>2, <2>7, <2>8, <2>9
<1> QED
  BY <1>2, <1>3

LEMMA EnabledType ==
  ASSUME MmuTypeOK, NEW side
  PROVE  Enabled(side) \in BOOLEAN
BY DEF MmuTypeOK, Hid, Enabled

LEMMA FailedType ==
  ASSUME NEW e \in Errs
  PROVE  Failed(e).err \in Errs \cup {"ok"} /\ Failed(e).err # "ok"
BY DEF Failed, Errs

LEMMA PathType ==
  ASSUME NEW ppn \in Nat, NEW cached \in BOOLEAN, NEW writable \in BOOLEAN,
         NEW pending \in BOOLEAN
  PROVE  LET r == Path(ppn, cached, writable, pending) IN
         /\ r.err = "ok" /\ r.ppn \in Nat /\ r.cached \in BOOLEAN
         /\ r.writable \in BOOLEAN /\ r.pending \in BOOLEAN
BY DEF Path

\* A translation ends with a page or says what failed.
LEMMA WalkType ==
  ASSUME MmuTypeOK, NEW t \in Tables, NEW pr \in BOOLEAN, NEW side \in Sides,
         NEW write \in BOOLEAN, NEW v \in Vpns
  PROVE  LET r == Walk(t, pr, side, write, v) IN
         /\ r.err \in Errs \cup {"ok"}
         /\ r.err = "ok" => /\ r.ppn \in Nat
                            /\ r.cached \in BOOLEAN
                            /\ r.writable \in BOOLEAN
                            /\ r.pending \in BOOLEAN
<1>1. CASE BatHits(pr, side, v) # {}
  <2> DEFINE n == Least(BatHits(pr, side, v))
             u == bat[side][n].u
             l == bat[side][n].l
  <2>1. BatCount \in Nat /\ BatCount - 1 \in Nat /\ BatCount <= 2 * NBats
    BY SizesAssumption DEF BatCount
  <2>2. BatHits(pr, side, v) \in SUBSET (0 .. BatCount - 1)
    BY DEF BatHits
  <2>3. n \in BatHits(pr, side, v)
    BY <1>1, <2>1, <2>2, LeastIn
  <2>4. n \in Bats
    BY <2>1, <2>2, <2>3, SizesAssumption DEF Bats
  <2>5. v >= u.bepi /\ v - u.bepi < u.len
    BY <2>3 DEF BatHits
  <2> HIDE DEF n
  <2>6. u \in BatU /\ l \in BatL
    BY <2>4 DEF MmuTypeOK
  <2>7. v \in Nat /\ u.bepi \in Nat /\ u.len \in Nat /\ l.brpn \in Nat /\ l.ci \in BOOLEAN
    BY <2>6 DEF BatU, BatL, Vpns
  <2> HIDE DEF u, l
  <2>8. l.brpn - (l.brpn % u.len) + (v - u.bepi) \in Nat
    <3>1. u.len > 0
      BY <2>5, <2>7
    <3>2. l.brpn % u.len \in 0 .. l.brpn
      BY <2>7, <3>1
    <3> QED
      BY <2>5, <2>7, <3>2
  <2>9. Walk(t, pr, side, write, v) = ThroughBat(pr, side, write, v)
    BY <1>1 DEF Walk
  <2>10. CASE IF write THEN l.pp # "rw" ELSE l.pp = "none"
    <3>1. Walk(t, pr, side, write, v) = Failed("no_perms")
      BY <2>9, <2>10 DEF ThroughBat, n, l
    <3> QED
      BY <3>1, FailedType DEF Errs
  <2>11. CASE ~ IF write THEN l.pp # "rw" ELSE l.pp = "none"
    <3>1. Walk(t, pr, side, write, v) =
            Path(l.brpn - (l.brpn % u.len) + (v - u.bepi),
                 ~ l.ci /\ Enabled(side), l.pp = "rw", FALSE)
      BY <2>9, <2>11 DEF ThroughBat, n, l, u
    <3>2. /\ (~ l.ci /\ Enabled(side)) \in BOOLEAN
          /\ (l.pp = "rw") \in BOOLEAN
      OBVIOUS
    <3> QED
      BY <2>8, <3>1, <3>2 DEF Path
  <2> QED
    BY <2>10, <2>11
<1>2. CASE BatHits(pr, side, v) = {}
  <2>1. CASE sr[Seg(v)].t
    <3>1. Walk(t, pr, side, write, v) = Failed("direct_store")
      BY <1>2, <2>1 DEF Walk
    <3> QED
      BY <3>1, FailedType DEF Errs
  <2>2. CASE ~ sr[Seg(v)].t
    <3> DEFINE p == PteOf(t, v)
    <3>1. Walk(t, pr, side, write, v) = ThroughHtab(t, pr, side, write, v)
      BY <1>2, <2>2 DEF Walk
    <3>2. CASE ~ (Found(t, v) # {} /\ Allowed(Key(pr, v), p.pp, write))
      <4>1. \/ Walk(t, pr, side, write, v) = Failed("not_mapped")
            \/ Walk(t, pr, side, write, v) = Failed("no_perms")
        BY <3>1, <3>2 DEF ThroughHtab
      <4> QED
        BY <4>1, FailedType DEF Errs
    <3>3. CASE Found(t, v) # {} /\ Allowed(Key(pr, v), p.pp, write)
      <4>1. p \in Pte
        BY <3>3, FoundPlace
      <4>2. Walk(t, pr, side, write, v) =
              Path(p.rpn, ~ p.ci /\ Enabled(side), Allowed(Key(pr, v), p.pp, TRUE),
                   ~ write /\ ~ p.c)
        BY <3>1, <3>3 DEF ThroughHtab
      <4>3. p.rpn \in Nat
        BY <4>1 DEF Pte
      <4>4. PICK c \in BOOLEAN : c = (~ p.ci /\ Enabled(side))
        OBVIOUS
      <4>5. PICK w \in BOOLEAN : w = Allowed(Key(pr, v), p.pp, TRUE)
        BY DEF Allowed
      <4>6. PICK d \in BOOLEAN : d = (~ write /\ ~ p.c)
        OBVIOUS
      <4> HIDE DEF p
      <4>7. Walk(t, pr, side, write, v) = Path(p.rpn, c, w, d)
        BY <4>2, <4>4, <4>5, <4>6
      <4>8. PICK k \in Nat : k = p.rpn
        BY <4>3
      <4>9. LET r == Path(k, c, w, d) IN
            /\ r.err = "ok" /\ r.ppn \in Nat /\ r.cached \in BOOLEAN
            /\ r.writable \in BOOLEAN /\ r.pending \in BOOLEAN
        BY <4>4, <4>5, <4>6, <4>8, PathType DEF Path
      <4> QED
        BY <4>7, <4>8, <4>9, Zenon
    <3> QED
      BY <3>2, <3>3
  <2> QED
    BY <2>1, <2>2
<1> QED
  BY <1>1, <1>2

LEMMA TranslateType ==
  ASSUME MmuTypeOK, NEW t \in Tables, NEW side \in Sides,
         NEW write \in BOOLEAN, NEW v \in Vpns
  PROVE  LET r == Translate(t, side, write, v) IN
         /\ r.err \in Errs \cup {"ok"}
         /\ r.err = "ok" => r.ppn \in Nat /\ r.cached \in BOOLEAN
         /\ Grows(t, TableAfter(t, side, write, v))
<1>1. msr.pr \in BOOLEAN
  BY DEF MmuTypeOK, Msr
<1>2. CASE On(side)
  BY <1>1, <1>2, WalkType, MarkedGrows DEF Translate, TableAfter
<1>3. CASE ~ On(side)
  <2>1. v \in Nat
    BY DEF Vpns
  <2>2. Translate(t, side, write, v) = Path(v, Enabled(side), TRUE, FALSE)
    BY <1>3 DEF Translate, Real
  <2>3. TableAfter(t, side, write, v) = t
    BY <1>3 DEF TableAfter
  <2> QED
    BY <2>1, <2>2, <2>3, EnabledType DEF Path, Grows, Same
<1> QED
  BY <1>2, <1>3

\* A walk depends on the registers and on the entry that it finds.
LEMMA SameFound ==
  ASSUME NEW t, NEW v, sr'[Seg(v)] = sr[Seg(v)], UNCHANGED sdr1
  PROVE  Found(t, v)' = Found(t, v) /\ PteOf(t, v)' = PteOf(t, v)
<1>1. \A n : At(t, v, n)' = At(t, v, n)
  BY DEF At, Where
<1>2. Found(t, v)' = Found(t, v)
  BY <1>1 DEF Found, Matches
<1> QED
  BY <1>1, <1>2 DEF PteOf

LEMMA SameWalk ==
  ASSUME NEW t, NEW u, NEW pr, NEW side, NEW write, NEW v,
         sr'[Seg(v)] = sr[Seg(v)], UNCHANGED <<bat, hid, cacheOn>>,
         \/ BatHits(pr, side, v) # {}
         \/ /\ Found(u, v)' = Found(t, v)
            /\ Found(t, v) # {} => PteOf(u, v)' = PteOf(t, v)
  PROVE  /\ Walk(u, pr, side, write, v)' = Walk(t, pr, side, write, v)
         /\ Settled(t, pr, side, write, v) => Settled(u, pr, side, write, v)'
<1>1. BatHits(pr, side, v)' = BatHits(pr, side, v)
  BY DEF BatHits, BatCount
<1>2. ThroughBat(pr, side, write, v)' = ThroughBat(pr, side, write, v)
  BY <1>1 DEF ThroughBat, Enabled
<1>3. CASE BatHits(pr, side, v) # {}
  BY <1>1, <1>2, <1>3 DEF Walk, Settled
<1>4. CASE /\ Found(u, v)' = Found(t, v)
           /\ Found(t, v) # {} => PteOf(u, v)' = PteOf(t, v)
  <2>1. ThroughHtab(u, pr, side, write, v)' = ThroughHtab(t, pr, side, write, v)
    BY <1>4 DEF ThroughHtab, Key, Enabled
  <2>2. Walk(u, pr, side, write, v)' = Walk(t, pr, side, write, v)
    BY <1>1, <1>2, <2>1 DEF Walk
  <2>3. ThroughHtab(t, pr, side, write, v).err = "ok" => Found(t, v) # {}
    BY HtabOk
  <2>4. Settled(t, pr, side, write, v) => Settled(u, pr, side, write, v)'
    BY <1>1, <1>4, <2>1, <2>3 DEF Settled
  <2> QED
    BY <2>2, <2>4
<1> QED
  BY <1>3, <1>4

-----------------------------------------------------------------------------
(* The micro-TLB. *)

Buffers == [Sides -> [Ways -> Entry]]

\* Agree, by what the walk reads of the entry that it finds.
Right(t, b, S) ==
  \A v \in S, side \in Sides, pr, write \in BOOLEAN :
    Hit(b, pr, side, write, v) =>
      /\ Walk(t, pr, side, write, v).err = "ok"
      /\ ToPage(Walk(t, pr, side, write, v)) = ToPage(Cached(b, side, v))
      /\ Settled(t, pr, side, write, v)

LEMMA RightAgrees ==
  ASSUME MmuTypeOK, NEW t \in Tables, NEW b, NEW S \in SUBSET Vpns
  PROVE  Agree(t, b, S) <=> Right(t, b, S)
BY SettledMarked DEF Agree, Right

LEMMA RightGrows ==
  ASSUME MmuTypeOK, NEW t \in Tables, NEW u, Grows(t, u), NEW b,
         NEW S \in SUBSET Vpns, Right(t, b, S)
  PROVE  Right(u, b, S)
BY GrowsWalk DEF Right

LEMMA WayType ==
  ASSUME NEW v \in Vpns
  PROVE  Way(v) \in Ways
<1>1. TlbSize \in Nat /\ TlbSize > 0 /\ v \in Nat
  BY TlbAssumption DEF Vpns
<1> QED
  BY <1>1 DEF Way, Ways

LEMMA InsertType ==
  ASSUME MmuTypeOK, NEW b \in Buffers, NEW side \in Sides, NEW v \in Vpns,
         NEW t \in Tables, NEW write \in BOOLEAN,
         Walk(t, msr.pr, side, write, v).err = "ok"
  PROVE  Insert(b, side, v, Walk(t, msr.pr, side, write, v)) \in Buffers
<1> DEFINE r == Walk(t, msr.pr, side, write, v)
           e == [valid |-> TRUE, vpn |-> v, pr |-> msr.pr, ppn |-> r.ppn,
                 writable |-> r.writable, pending |-> r.pending, cached |-> r.cached]
<1>1. msr.pr \in BOOLEAN
  BY DEF MmuTypeOK, Msr
<1>2. /\ r.ppn \in Nat /\ r.cached \in BOOLEAN
      /\ r.writable \in BOOLEAN /\ r.pending \in BOOLEAN
  BY <1>1, WalkType
<1>3. e \in Entry
  <2> HIDE DEF r
  <2> QED
    BY <1>1, <1>2 DEF Entry
<1>4. Insert(b, side, v, r) = [b EXCEPT ![side][Way(v)] = e]
  BY DEF Insert
<1> HIDE DEF e, r
<1>5. [b EXCEPT ![side][Way(v)] = e] \in Buffers
  BY <1>3, WayType DEF Buffers
<1> QED
  BY <1>4, <1>5 DEF r

LEMMA InsertRight ==
  ASSUME MmuTypeOK, NEW b \in Buffers, NEW side \in Sides, NEW v \in Vpns,
         NEW t \in Tables, NEW write \in BOOLEAN, NEW S \in SUBSET Vpns,
         Walk(t, msr.pr, side, write, v).err = "ok", Right(t, b, S)
  PROVE  Right(Marked(t, msr.pr, side, write, v),
               Insert(b, side, v, Walk(t, msr.pr, side, write, v)), S)
<1> DEFINE r == Walk(t, msr.pr, side, write, v)
           u == Marked(t, msr.pr, side, write, v)
           c == Insert(b, side, v, r)
           e == [valid |-> TRUE, vpn |-> v, pr |-> msr.pr, ppn |-> r.ppn,
                 writable |-> r.writable, pending |-> r.pending, cached |-> r.cached]
<1>1. msr.pr \in BOOLEAN
  BY DEF MmuTypeOK, Msr
<1>2. Right(u, b, S)
  BY <1>1, MarkedGrows, RightGrows
<1>3. c[side][Way(v)] = e
  <2>1. c = [b EXCEPT ![side][Way(v)] = e]
    BY DEF Insert
  <2> HIDE DEF c, e
  <2> QED
    BY <2>1, WayType DEF Buffers
<1>4. \A s \in Sides, w \in Ways : ~ (s = side /\ w = Way(v)) => c[s][w] = b[s][w]
  <2>1. c = [b EXCEPT ![side][Way(v)] = e]
    BY DEF Insert
  <2> HIDE DEF c, e
  <2> QED
    BY <2>1, WayType DEF Buffers
<1> SUFFICES ASSUME NEW x \in S, NEW s \in Sides, NEW pr \in BOOLEAN,
                    NEW later \in BOOLEAN, Hit(c, pr, s, later, x)
             PROVE  /\ Walk(u, pr, s, later, x).err = "ok"
                    /\ ToPage(Walk(u, pr, s, later, x)) = ToPage(Cached(c, s, x))
                    /\ Settled(u, pr, s, later, x)
  <2> HIDE DEF u, c
  <2> QED
    BY DEF Right, u, c
<1>5. CASE s = side /\ Way(x) = Way(v)
  <2>1. c[s][Way(x)] = e
    BY <1>3, <1>5
  <2>2. x = v /\ pr = msr.pr /\ (later => r.writable /\ ~ r.pending)
    <3> HIDE DEF c, r
    <3> QED
      BY <2>1 DEF Hit
  <2>3. ToPage(Cached(c, s, x)) = ToPage(r)
    <3> HIDE DEF c, r
    <3> QED
      BY <2>1 DEF ToPage, Cached, Path
  <2>4. /\ Walk(u, pr, side, later, v).err = "ok"
        /\ ToPage(Walk(u, pr, side, later, v)) = ToPage(r)
        /\ Settled(u, pr, side, later, v)
    BY <1>1, <2>2, WalkStands
  <2> QED
    BY <1>5, <2>2, <2>3, <2>4
<1>6. CASE ~ (s = side /\ Way(x) = Way(v))
  <2>1. c[s][Way(x)] = b[s][Way(x)]
    BY <1>4, <1>6, WayType
  <2> HIDE DEF c, u
  <2>2. Hit(b, pr, s, later, x) /\ Cached(c, s, x) = Cached(b, s, x)
    BY <2>1 DEF Hit, Cached
  <2> QED
    BY <1>2, <2>2 DEF Right
<1> QED
  BY <1>5, <1>6

\* An access through the micro-TLB goes where the walk goes, and leaves the
\* page table that the walk leaves.
LEMMA ResolveWalks ==
  ASSUME TypeOK, NEW t \in Tables, NEW b \in Buffers, NEW S \in SUBSET Vpns,
         Right(t, b, S), NEW side \in Sides, NEW write \in BOOLEAN, NEW v \in S
  PROVE  LET m == [t |-> t, b |-> b] IN
         /\ Resolve(m, side, write, v).err = Translate(t, side, write, v).err
         /\ ToPage(Resolve(m, side, write, v)) = ToPage(Translate(t, side, write, v))
         /\ After(m, side, write, v).t = TableAfter(t, side, write, v)
<1> DEFINE m == [t |-> t, b |-> b]
<1>1. msr.pr \in BOOLEAN /\ MmuTypeOK
  BY DEF TypeOK, MmuTypeOK, Msr
<1>2. CASE Uses(m, side, write, v)
  <2>1. On(side) /\ Hit(b, msr.pr, side, write, v)
    BY <1>2 DEF Uses
  <2>2. /\ Walk(t, msr.pr, side, write, v).err = "ok"
        /\ ToPage(Walk(t, msr.pr, side, write, v)) = ToPage(Cached(b, side, v))
        /\ Settled(t, msr.pr, side, write, v)
    BY <1>1, <2>1 DEF Right
  <2>3. Marked(t, msr.pr, side, write, v) = t
    BY <1>1, <2>2, SettledMarked
  <2>4. Cached(b, side, v).err = "ok"
    BY DEF Cached, Path
  <2> QED
    BY <1>2, <2>1, <2>2, <2>3, <2>4 DEF Resolve, After, Translate, TableAfter
<1>3. CASE ~ Uses(m, side, write, v)
  BY <1>3 DEF Resolve, After
<1> QED
  BY <1>2, <1>3

LEMMA AfterRight ==
  ASSUME TypeOK, NEW t \in Tables, NEW b \in Buffers, NEW S \in SUBSET Vpns,
         Right(t, b, S), NEW side \in Sides, NEW write \in BOOLEAN, NEW v \in Vpns
  PROVE  LET n == After([t |-> t, b |-> b], side, write, v) IN
         /\ n = [t |-> n.t, b |-> n.b]
         /\ n.t \in Tables /\ n.b \in Buffers
         /\ Right(n.t, n.b, S)
<1> DEFINE m == [t |-> t, b |-> b]
           n == After(m, side, write, v)
<1>1. msr.pr \in BOOLEAN /\ MmuTypeOK
  BY DEF TypeOK, MmuTypeOK, Msr
<1>2. CASE Uses(m, side, write, v)
  BY <1>2 DEF After
<1>3. CASE ~ Uses(m, side, write, v)
  <2>1. n.t = TableAfter(t, side, write, v) /\ n = [t |-> n.t, b |-> n.b]
    BY <1>3 DEF After
  <2>2. Grows(t, n.t)
    BY <1>1, <2>1, TranslateType
  <2>3. n.t \in Tables
    BY <2>2 DEF Grows
  <2>4. CASE On(side) /\ Translate(t, side, write, v).err = "ok"
    <3>1. Translate(t, side, write, v) = Walk(t, msr.pr, side, write, v)
      BY <2>4 DEF Translate
    <3>2. n.b = Insert(b, side, v, Walk(t, msr.pr, side, write, v))
      BY <1>3, <2>4, <3>1 DEF After
    <3>3. n.t = Marked(t, msr.pr, side, write, v)
      BY <2>1, <2>4 DEF TableAfter
    <3> QED
      BY <1>1, <2>1, <2>3, <2>4, <3>1, <3>2, <3>3, InsertType, InsertRight
  <2>5. CASE ~ (On(side) /\ Translate(t, side, write, v).err = "ok")
    <3>1. n.b = b
      BY <1>3, <2>5 DEF After
    <3> QED
      BY <1>1, <2>1, <2>2, <2>3, <3>1, RightGrows
  <2> QED
    BY <2>4, <2>5
<1> QED
  BY <1>2, <1>3

-----------------------------------------------------------------------------
(* Types. *)

Outcomes == [write : BOOLEAN, err : Errs \cup {"none", "ok"}, at : Vpns, pages : Seq(Pages)]

LEMMA ZeroPage == 0 \in Vpns
<1>1. NSegs \in Nat /\ NSegs > 0 /\ SegPages \in Nat /\ SegPages > 0
  BY SizesAssumption
<1>2. NSegs * SegPages > 0
  BY <1>1
<1> QED
  BY <1>1, <1>2 DEF Vpns

LEMMA NextPageType ==
  ASSUME NEW v \in Vpns
  PROVE  NextPage(v) \in Vpns
<1> DEFINE n == NSegs * SegPages
<1>1. n \in Nat /\ n > 0 /\ v \in Nat
  BY ZeroPage, SizesAssumption DEF Vpns
<1>2. Vpns = 0 .. n - 1 /\ NextPage(v) = (v + 1) % n
  BY DEF Vpns, NextPage
<1> HIDE DEF n
<1> QED
  BY <1>1, <1>2

LEMMA EmptyType ==
  /\ NoEntry \in Entry
  /\ Empty \in Buffers
BY ZeroPage DEF NoEntry, Entry, Empty, Buffers

LEMMA ResetType ==
  /\ [s \in Segments |-> ResetSr] \in [Segments -> Srs]
  /\ [side \in Sides |-> [n \in Bats |-> [u |-> ResetBatU, l |-> ResetBatL]]]
       \in [Sides -> [Bats -> [u : BatU, l : BatL]]]
  /\ [ice |-> FALSE, dce |-> FALSE, sbe |-> FALSE] \in Hid
  /\ [pr |-> FALSE, ir |-> FALSE, dr |-> FALSE] \in Msr
<1>1. ResetBatU \in BatU /\ ResetBatL \in BatL /\ ResetSr \in Srs
  BY ValuesAssumption
<1> QED
  BY <1>1 DEF Hid, Msr

LEMMA InitType == Init => TypeOK
<1> SUFFICES ASSUME Init PROVE TypeOK
  OBVIOUS
<1>1. htab \in [Groups -> [Slots -> Pte]]
  <2>1. {p \in Ptes : ~ p.v} \subseteq Pte
    BY ValuesAssumption
  <2>2. \A f \in [Slots -> {p \in Ptes : ~ p.v}] : f \in [Slots -> Pte]
    BY <2>1
  <2> QED
    BY <2>2 DEF Init, MmuInit
<1>2. last \in Outcomes
  <2>1. <<>> \in Seq(Pages)
    OBVIOUS
  <2> QED
    BY <2>1, ZeroPage DEF Init, MmuInit, NoAccess, Outcomes
<1>3. sdr1 \in Sdr1s /\ cacheOn \in BOOLEAN
  BY ValuesAssumption DEF Init, MmuInit
<1> QED
  BY <1>1, <1>2, <1>3, ResetType, EmptyType
  DEF Init, MmuInit, TypeOK, MmuTypeOK, Outcomes, Buffers

\* A translation that an access can end with.
Sound(r) == r.err \in Errs \cup {"ok"} /\ (r.err = "ok" => ToPage(r) \in Pages)

LEMMA ResolveType ==
  ASSUME MmuTypeOK, NEW t \in Tables, NEW b \in Buffers, NEW side \in Sides,
         NEW write \in BOOLEAN, NEW v \in Vpns
  PROVE  Sound(Resolve([t |-> t, b |-> b], side, write, v))
<1> DEFINE m == [t |-> t, b |-> b]
<1>1. CASE Uses(m, side, write, v)
  <2> DEFINE e == b[side][Way(v)]
  <2>1. e \in Entry
    BY WayType DEF Buffers
  <2>2. Resolve(m, side, write, v) = Path(e.ppn, e.cached, e.writable, e.pending)
    BY <1>1 DEF Resolve, Cached
  <2> HIDE DEF e
  <2> QED
    BY <2>1, <2>2 DEF Entry, Sound, Path, ToPage, Pages
<1>2. CASE ~ Uses(m, side, write, v)
  BY <1>2, TranslateType DEF Resolve, Sound, ToPage, Pages
<1> QED
  BY <1>1, <1>2

LEMMA RaiseType ==
  ASSUME NEW write \in BOOLEAN, NEW v \in Vpns, NEW r, Sound(r), Raise(write, v, r)
  PROVE  msr' \in Msr /\ last' \in Outcomes
<1>1. <<>> \in Seq(Pages) /\ r.err \in Errs \cup {"none", "ok"}
  BY DEF Sound
<1>2. [write |-> write, err |-> r.err, at |-> v, pages |-> <<>>] \in Outcomes
  BY <1>1 DEF Outcomes
<1> QED
  BY <1>2, ResetType DEF Raise

LEMMA DoneType ==
  ASSUME MmuTypeOK, NEW write \in BOOLEAN, NEW v \in Vpns,
         NEW rs \in Seq(Pages), Done(write, v, rs)
  PROVE  msr' \in Msr /\ last' \in Outcomes
<1>1. "ok" \in Errs \cup {"none", "ok"}
  OBVIOUS
<1>2. [write |-> write, err |-> "ok", at |-> v, pages |-> rs] \in Outcomes
  BY <1>1 DEF Outcomes
<1> QED
  BY <1>2 DEF Done, MmuTypeOK

LEMMA FinishType ==
  ASSUME MmuTypeOK, NEW write \in BOOLEAN, NEW v \in Vpns, NEW r, Sound(r),
         Finish(write, v, r)
  PROVE  msr' \in Msr /\ last' \in Outcomes
<1>1. CASE r.err # "ok"
  BY <1>1, RaiseType DEF Finish
<1>2. CASE r.err = "ok"
  <2>1. <<ToPage(r)>> \in Seq(Pages)
    BY <1>2 DEF Sound
  <2> QED
    BY <1>2, <2>1, DoneType DEF Finish
<1> QED
  BY <1>1, <1>2

LEMMA FinishTwoType ==
  ASSUME MmuTypeOK, NEW write \in BOOLEAN, NEW v \in Vpns, NEW r, NEW q, Sound(r),
         r.err = "ok" => Sound(q), FinishTwo(write, v, r, q)
  PROVE  msr' \in Msr /\ last' \in Outcomes
<1>1. CASE r.err # "ok"
  BY <1>1, RaiseType DEF FinishTwo
<1>2. CASE r.err = "ok" /\ q.err # "ok"
  BY <1>2, RaiseType, NextPageType DEF FinishTwo
<1>3. CASE r.err = "ok" /\ q.err = "ok"
  <2>1. <<ToPage(r), ToPage(q)>> \in Seq(Pages)
    BY <1>3 DEF Sound
  <2> QED
    BY <1>3, <2>1, DoneType DEF FinishTwo
<1> QED
  BY <1>1, <1>2, <1>3

LEMMA WithoutType ==
  ASSUME TypeOK, NEW S
  PROVE  /\ Without(S) \in Buffers
         /\ \A side \in Sides, pr \in BOOLEAN, write \in BOOLEAN, v \in Vpns :
              Hit(Without(S), pr, side, write, v) =>
                /\ v \notin S
                /\ Hit(tlb, pr, side, write, v)
                /\ Cached(Without(S), side, v) = Cached(tlb, side, v)
<1>1. Without(S) \in Buffers
  BY EmptyType DEF TypeOK, Without, Buffers
<1>2. SUFFICES ASSUME NEW side \in Sides, NEW pr \in BOOLEAN,
                      NEW write \in BOOLEAN, NEW v \in Vpns,
                      Hit(Without(S), pr, side, write, v)
               PROVE  /\ v \notin S
                      /\ Hit(tlb, pr, side, write, v)
                      /\ Cached(Without(S), side, v) = Cached(tlb, side, v)
  BY <1>1
<1>3. Way(v) \in Ways
  BY WayType
<1>4. Without(S)[side][Way(v)] =
        IF tlb[side][Way(v)].valid /\ tlb[side][Way(v)].vpn \in S
        THEN NoEntry ELSE tlb[side][Way(v)]
  BY <1>3 DEF Without
<1>5. ~ NoEntry.valid
  BY DEF NoEntry
<1>6. ~ (tlb[side][Way(v)].valid /\ tlb[side][Way(v)].vpn \in S)
  BY <1>2, <1>4, <1>5 DEF Hit
<1>7. Without(S)[side][Way(v)] = tlb[side][Way(v)]
  BY <1>4, <1>6
<1> QED
  BY <1>2, <1>6, <1>7 DEF Hit, Cached

-----------------------------------------------------------------------------
(* The inductive invariant. *)

IInv == TypeOK /\ Right(htab, tlb, Vpns \ stale)

\* Where the registers that a walk reads and the entries that it finds are
\* the same, what was right before a step is right after it.
LEMMA RightKept ==
  ASSUME NEW S, NEW T, Right(htab, tlb, S), UNCHANGED <<bat, hid, cacheOn>>,
         \A v \in T, side \in Sides, pr, write \in BOOLEAN :
           Hit(tlb', pr, side, write, v) =>
             /\ v \in S
             /\ Hit(tlb, pr, side, write, v)
             /\ Cached(tlb', side, v) = Cached(tlb, side, v)
             /\ sr'[Seg(v)] = sr[Seg(v)]
             /\ \/ BatHits(pr, side, v) # {}
                \/ /\ Found(htab, v)' = Found(htab, v)
                   /\ Found(htab, v) # {} => PteOf(htab, v)' = PteOf(htab, v)
  PROVE  Right(htab, tlb, T)'
<1> SUFFICES ASSUME NEW v \in T, NEW side \in Sides, NEW pr \in BOOLEAN,
                    NEW write \in BOOLEAN, Hit(tlb', pr, side, write, v)
             PROVE  /\ Walk(htab, pr, side, write, v)'.err = "ok"
                    /\ ToPage(Walk(htab, pr, side, write, v)') = ToPage(Cached(tlb', side, v))
                    /\ Settled(htab, pr, side, write, v)'
  BY DEF Right, Hit, Cached, ToPage
<1>1. /\ Walk(htab, pr, side, write, v)' = Walk(htab, pr, side, write, v)
      /\ Settled(htab, pr, side, write, v) => Settled(htab, pr, side, write, v)'
  BY SameWalk
<1> QED
  BY <1>1 DEF Right

\* Registers and tables that stay as they are.
LEMMA RightStays ==
  ASSUME NEW S, NEW u, NEW b, Right(u, b, S), UNCHANGED regs, htab' = u, tlb' = b
  PROVE  Right(htab, tlb, S)'
<1> SUFFICES ASSUME NEW v \in S, NEW side \in Sides, NEW pr \in BOOLEAN,
                    NEW write \in BOOLEAN, Hit(b, pr, side, write, v)
             PROVE  /\ Walk(htab, pr, side, write, v)'.err = "ok"
                    /\ ToPage(Walk(htab, pr, side, write, v)') = ToPage(Cached(b, side, v))
                    /\ Settled(htab, pr, side, write, v)'
  BY DEF Right, Hit, Cached, ToPage
<1>1. Found(htab, v)' = Found(u, v) /\ PteOf(htab, v)' = PteOf(u, v)
  BY SameFound DEF regs
<1>2. /\ Walk(htab, pr, side, write, v)' = Walk(u, pr, side, write, v)
      /\ Settled(u, pr, side, write, v) => Settled(htab, pr, side, write, v)'
  BY <1>1, SameWalk DEF regs
<1> QED
  BY <1>2 DEF Right

LEMMA InitInv == Init => IInv
<1> SUFFICES ASSUME Init PROVE Right(htab, tlb, Vpns \ stale)
  BY InitType DEF IInv
<1>1. \A v \in Vpns, side \in Sides : ~ tlb[side][Way(v)].valid
  BY WayType DEF Init, Empty, NoEntry
<1> QED
  BY <1>1 DEF Right, Hit

\* An access inserts what its walk finds, or uses what is there.
LEMMA AccessInv ==
  ASSUME IInv, NEW kind, NEW v \in Vpns,
         Finish(kind = "store", v, Resolve(Now, Side(kind), kind = "store", v)),
         Become(After(Now, Side(kind), kind = "store", v))
  PROVE  IInv'
<1> DEFINE write == kind = "store"
           side  == Side(kind)
           S     == Vpns \ stale
           n     == After(Now, side, write, v)
<1>1. side \in Sides /\ write \in BOOLEAN /\ S \in SUBSET Vpns
  BY DEF Side, Sides
<1>2. TypeOK /\ htab \in Tables /\ tlb \in Buffers /\ Right(htab, tlb, S)
  BY DEF IInv, TypeOK, MmuTypeOK, Tables, Buffers
<1> HIDE DEF write, side, S
<1>3. n.t \in Tables /\ n.b \in Buffers /\ Right(n.t, n.b, S)
  BY <1>1, <1>2, AfterRight DEF Now
<1>4. Sound(Resolve(Now, side, write, v))
  BY <1>1, <1>2, ResolveType DEF Now, TypeOK
<1>5. msr' \in Msr /\ last' \in Outcomes
  BY <1>2, <1>4, FinishType DEF side, write, TypeOK
<1>6. htab' = n.t /\ tlb' = n.b /\ UNCHANGED <<regs, stale>>
  BY DEF Become, side, write
<1> HIDE DEF n
<1>7. TypeOK'
  BY <1>2, <1>3, <1>5, <1>6 DEF TypeOK, MmuTypeOK, regs, Tables, Buffers, Outcomes
<1>8. Right(htab, tlb, S)'
  BY <1>3, <1>6, RightStays DEF regs, S
<1> QED
  BY <1>6, <1>7, <1>8 DEF IInv, S

LEMMA AcrossInv ==
  ASSUME IInv, NEW kind, NEW v \in Vpns, AccessAcross(kind, v)
  PROVE  IInv'
<1> DEFINE write == kind = "store"
           S  == Vpns \ stale
           a  == Resolve(Now, "d", write, v)
           m1 == After(Now, "d", write, v)
           w  == NextPage(v)
           m2 == After(m1, "d", write, w)
           n  == IF a.err = "ok" THEN m2 ELSE m1
<1>1. "d" \in Sides /\ write \in BOOLEAN /\ S \in SUBSET Vpns /\ w \in Vpns
  BY NextPageType DEF Sides
<1>2. TypeOK /\ htab \in Tables /\ tlb \in Buffers /\ Right(htab, tlb, S)
  BY DEF IInv, TypeOK, MmuTypeOK, Tables, Buffers
<1>3. /\ FinishTwo(write, v, a, Resolve(m1, "d", write, w))
      /\ Become(n)
  BY DEF AccessAcross
<1> HIDE DEF write, S, w
<1>4. /\ m1 = [t |-> m1.t, b |-> m1.b]
      /\ m1.t \in Tables /\ m1.b \in Buffers /\ Right(m1.t, m1.b, S)
  BY <1>1, <1>2, AfterRight DEF Now
<1>5. Sound(a)
  BY <1>1, <1>2, ResolveType DEF Now, TypeOK
<1> HIDE DEF m1, a
<1>6. m2.t \in Tables /\ m2.b \in Buffers /\ Right(m2.t, m2.b, S)
  BY <1>1, <1>2, <1>4, AfterRight
<1>7. Sound(Resolve(m1, "d", write, w))
  BY <1>1, <1>2, <1>4, ResolveType DEF TypeOK
<1>8. msr' \in Msr /\ last' \in Outcomes
  BY <1>1, <1>2, <1>3, <1>5, <1>7, FinishTwoType DEF TypeOK
<1>9. n.t \in Tables /\ n.b \in Buffers /\ Right(n.t, n.b, S)
  BY <1>4, <1>6
<1> HIDE DEF n
<1>10. htab' = n.t /\ tlb' = n.b /\ UNCHANGED <<regs, stale>>
  BY <1>3 DEF Become
<1>11. TypeOK'
  BY <1>2, <1>8, <1>9, <1>10 DEF TypeOK, MmuTypeOK, regs, Tables, Buffers, Outcomes
<1>12. Right(htab, tlb, S)'
  BY <1>9, <1>10, RightStays DEF regs, S
<1> QED
  BY <1>10, <1>11, <1>12 DEF IInv, S

\* A flush of the segment: the entries of the other ones stand.
LEMMA MtsrInv ==
  ASSUME IInv, NEW s \in Segments, NEW x \in Srs, Mtsr(s, x)
  PROVE  IInv'
<1> DEFINE P == {v \in Vpns : Seg(v) = s}
<1>1. sr' = [sr EXCEPT ![s] = x] /\ UNCHANGED <<bat, sdr1, hid, cacheOn, msr, htab, last>>
  BY DEF Mtsr, SetSr
<1>2. tlb' = Without(P) /\ stale' = stale \ P
  BY DEF Mtsr, FlushSegment
<1>3. TypeOK /\ Right(htab, tlb, Vpns \ stale)
  BY DEF IInv
<1>4. TypeOK'
  BY <1>1, <1>2, <1>3, WithoutType DEF TypeOK, MmuTypeOK, Buffers
<1>5. ASSUME NEW v \in Vpns, v \notin P
      PROVE  /\ sr'[Seg(v)] = sr[Seg(v)]
             /\ Found(htab, v)' = Found(htab, v)
             /\ PteOf(htab, v)' = PteOf(htab, v)
  <2>1. sr'[Seg(v)] = sr[Seg(v)]
    BY <1>1, <1>3, <1>5, PageBounds DEF TypeOK, MmuTypeOK
  <2>2. PICK t : t = htab
    OBVIOUS
  <2>3. Found(t, v)' = Found(t, v) /\ PteOf(t, v)' = PteOf(t, v)
    BY <1>1, <2>1, SameFound
  <2>4. Found(htab, v)' = Found(t, v)'
    BY <1>1, <2>2
  <2>5. PteOf(htab, v)' = PteOf(t, v)'
    BY <1>1, <2>2
  <2> QED
    BY <2>1, <2>2, <2>3, <2>4, <2>5
<1>6. PICK T : T = Vpns \ (stale \ P)
  OBVIOUS
<1>7. ASSUME NEW v \in T, NEW side \in Sides, NEW pr \in BOOLEAN,
             NEW write \in BOOLEAN, Hit(tlb', pr, side, write, v)
      PROVE  /\ v \in Vpns /\ v \in Vpns \ stale
             /\ v \notin P
             /\ Hit(tlb, pr, side, write, v)
             /\ Cached(tlb', side, v) = Cached(tlb, side, v)
  <2> HIDE DEF P
  <2> QED
    BY <1>2, <1>3, <1>6, <1>7, WithoutType
<1>8. Right(htab, tlb, T)'
  <2> HIDE DEF P
  <2> QED
    BY <1>1, <1>3, <1>5, <1>7, RightKept
<1> QED
  BY <1>2, <1>4, <1>6, <1>8 DEF IInv

\* Nothing hits, or nothing has to be right.
LEMMA NothingHits ==
  ASSUME \A v \in (Vpns \ stale)', side \in Sides, pr, write \in BOOLEAN :
           ~ Hit(tlb', pr, side, write, v)
  PROVE  Right(htab, tlb, Vpns \ stale)'
BY DEF Right, Hit

LEMMA FlushAllInv ==
  ASSUME IInv, MmuTypeOK', FlushAll
  PROVE  IInv'
<1>1. TypeOK /\ tlb' = Without(Vpns) /\ stale' = {}
  BY DEF IInv, FlushAll
<1>2. tlb' \in Buffers /\ TypeOK'
  BY <1>1, WithoutType DEF TypeOK, Buffers
<1>3. \A v \in Vpns, side \in Sides, pr, write \in BOOLEAN :
        ~ Hit(tlb', pr, side, write, v)
  BY <1>1, WithoutType
<1> QED
  BY <1>2, <1>3, NothingHits DEF IInv

LEMMA ForgetAllInv ==
  ASSUME IInv, MmuTypeOK', Forget(Vpns)
  PROVE  IInv'
<1>1. TypeOK /\ tlb' = tlb /\ stale' = stale \cup Vpns
  BY DEF IInv, Forget
<1>2. TypeOK'
  BY <1>1 DEF TypeOK
<1> QED
  BY <1>1, <1>2, NothingHits DEF IInv

LEMMA BatType ==
  ASSUME MmuTypeOK, NEW side \in Sides, NEW n \in Bats, SetBatHalf(side, n)
  PROVE  MmuTypeOK'
<1>1. bat[side][n] \in [u : BatU, l : BatL]
  BY DEF MmuTypeOK
<1>2. PICK b \in [u : BatU, l : BatL] : SetBat(side, n, b)
  <2>1. \A u \in BatUs : [bat[side][n] EXCEPT !.u = u] \in [u : BatU, l : BatL]
    BY <1>1, ValuesAssumption
  <2>2. \A l \in BatLs : [bat[side][n] EXCEPT !.l = l] \in [u : BatU, l : BatL]
    BY <1>1, ValuesAssumption
  <2> QED
    BY <2>1, <2>2 DEF SetBatHalf
<1>3. bat' = [bat EXCEPT ![side][n] = b]
  BY <1>2 DEF SetBat
<1>4. bat' \in [Sides -> [Bats -> [u : BatU, l : BatL]]]
  BY <1>3 DEF MmuTypeOK
<1> QED
  BY <1>2, <1>4 DEF SetBat, MmuTypeOK

LEMMA ResetInv ==
  ASSUME IInv, Reset
  PROVE  IInv'
<1>1. MmuTypeOK'
  BY ResetType, ValuesAssumption DEF IInv, TypeOK, MmuTypeOK, Reset, ResetRegs
<1>2. tlb' = Empty /\ stale' = {}
  BY DEF Reset
<1>3. TypeOK'
  BY <1>1, <1>2, EmptyType DEF TypeOK, Buffers
<1>4. \A v \in Vpns, side \in Sides : ~ tlb'[side][Way(v)].valid
  BY <1>2, WayType DEF Empty, NoEntry
<1>5. Right(htab, tlb, Vpns \ stale)'
  BY <1>4 DEF Right, Hit
<1> QED
  BY <1>3, <1>5 DEF IInv

\* The privilege is part of what an entry answers to, and no walk reads the
\* rest of the MSR.
LEMMA ChangeMsrInv ==
  ASSUME IInv, NEW x \in Msr, ChangeMsr(x)
  PROVE  IInv'
<1>1. msr' = x /\ UNCHANGED <<regs, htab, last, tlb>> /\ stale' = stale
  BY DEF ChangeMsr, SetMsr, Forget
<1>3. TypeOK'
  BY <1>1 DEF IInv, TypeOK, MmuTypeOK, regs
<1>4. PICK S : S = Vpns \ stale
  OBVIOUS
<1>5. Right(htab, tlb, S)'
  BY <1>1, <1>4, RightStays DEF IInv
<1> QED
  BY <1>1, <1>3, <1>4, <1>5 DEF IInv

LEMMA TlbieInv ==
  ASSUME IInv, NEW p \in Vpns, Tlbie(p)
  PROVE  IInv'
<1>1. UNCHANGED <<regs, msr, htab, last>> /\ tlb' = Without({p}) /\ stale' = stale \ {p}
  BY DEF Tlbie, FlushPage, mmuVars
<1>2. TypeOK /\ Right(htab, tlb, Vpns \ stale)
  BY DEF IInv
<1>3. TypeOK'
  BY <1>1, <1>2, WithoutType DEF TypeOK, MmuTypeOK, Buffers, regs
<1>4. PICK t, S, T : t = htab /\ S = Vpns \ stale /\ T = Vpns \ (stale \ {p})
  OBVIOUS
<1>5. Right(htab, tlb', S)
  BY <1>1, <1>2, <1>4, WithoutType DEF Right
<1>6. ASSUME NEW v \in T, NEW side \in Sides, NEW pr \in BOOLEAN,
             NEW write \in BOOLEAN, Hit(tlb', pr, side, write, v)
      PROVE  v \in S
  BY <1>1, <1>2, <1>4, <1>6, WithoutType
<1>7. Right(htab, tlb', T)
  BY <1>5, <1>6 DEF Right
<1>8. PICK b : b = tlb'
  OBVIOUS
<1>9. Right(htab, tlb, T)'
  BY <1>1, <1>4, <1>7, <1>8, RightStays
<1> QED
  BY <1>1, <1>3, <1>4, <1>9 DEF IInv

\* A page whose entry is not the one overwritten finds the entry that it
\* found before: a second one would be a duplicate.
LEMMA ChangePteWalks ==
  ASSUME IInv, NEW g \in Groups, NEW k \in Slots, NEW p \in Ptes, ChangePte(g, k, p),
         NEW v \in Vpns, v \notin stale', NEW pr, NEW side, NEW write,
         Walk(htab, pr, side, write, v).err = "ok", Settled(htab, pr, side, write, v)
  PROVE  /\ Walk(htab', pr, side, write, v) = Walk(htab, pr, side, write, v)
         /\ Settled(htab', pr, side, write, v)
<1>1. /\ htab' = [htab EXCEPT ![g][k] = p]
      /\ \A n, m \in Found(htab', v) : n = m
      /\ \A n \in Found(htab, v) : Where(v, n) # <<g, k>>
  BY DEF ChangePte, WritePte, Forget
<1>2. MmuTypeOK /\ htab \in Tables
  BY DEF IInv, TypeOK, MmuTypeOK, Tables
<1>3. ASSUME Found(htab, v) # {}
      PROVE  Found(htab', v) = Found(htab, v) /\ PteOf(htab', v) = PteOf(htab, v)
  <2>1. \A n \in Places : Where(v, n) # <<g, k>> => At(htab', v, n) = At(htab, v, n)
    <3> SUFFICES ASSUME NEW n \in Places, Where(v, n) # <<g, k>>
                 PROVE  At(htab', v, n) = At(htab, v, n)
      OBVIOUS
    <3>1. Where(v, n)[1] \in Groups /\ Where(v, n)[2] \in Slots
      BY <1>2, PlaceType
    <3>2. ~ (Where(v, n)[1] = g /\ Where(v, n)[2] = k)
      BY DEF Where
    <3> QED
      BY <1>1, <1>2, <3>1, <3>2 DEF At, Tables
  <2>2. \A n \in Places : Where(v, n) # <<g, k>> =>
          (n \in Found(htab', v) <=> n \in Found(htab, v))
    BY <2>1 DEF Found, Matches
  <2>3. \A n \in Found(htab, v) : n \in Places /\ Where(v, n) # <<g, k>>
    BY <1>1 DEF Found
  <2>4. PICK n \in Found(htab, v) : TRUE
    BY <1>3
  <2>5. n \in Found(htab', v)
    BY <2>2, <2>3
  <2>6. \A m \in Found(htab', v) : m = n
    BY <1>1, <2>5
  <2>7. Found(htab', v) = Found(htab, v)
    BY <2>2, <2>3, <2>5, <2>6
  <2>8. Least(Found(htab, v)) \in Found(htab, v)
    BY <1>2, <1>3, FoundPlace
  <2> QED
    BY <2>1, <2>3, <2>7, <2>8 DEF PteOf
<1>4. CASE BatHits(pr, side, v) # {}
  BY <1>4 DEF Walk, Settled
<1>5. CASE BatHits(pr, side, v) = {}
  <2>1. ~ sr[Seg(v)].t /\ ThroughHtab(htab, pr, side, write, v).err = "ok"
    BY <1>5 DEF Walk, Failed
  <2>2. Found(htab', v) = Found(htab, v) /\ PteOf(htab', v) = PteOf(htab, v)
    BY <1>3, <2>1, HtabOk
  <2>3. ThroughHtab(htab', pr, side, write, v) = ThroughHtab(htab, pr, side, write, v)
    BY <2>2 DEF ThroughHtab
  <2> QED
    BY <2>2, <2>3 DEF Walk, Settled
<1> QED
  BY <1>4, <1>5

LEMMA ChangePteInv ==
  ASSUME IInv, NEW g \in Groups, NEW k \in Slots, NEW p \in Ptes, ChangePte(g, k, p)
  PROVE  IInv'
<1>1. /\ htab' = [htab EXCEPT ![g][k] = p]
      /\ UNCHANGED <<regs, msr, last, tlb>> /\ stale \subseteq stale' /\ stale' \subseteq Vpns \cup stale
  BY DEF ChangePte, WritePte, Forget
<1>2. TypeOK /\ MmuTypeOK /\ htab \in Tables /\ Right(htab, tlb, Vpns \ stale)
  BY DEF IInv, TypeOK, MmuTypeOK, Tables
<1>3. p \in Pte
  BY ValuesAssumption
<1>4. htab' \in Tables
  BY <1>1, <1>2, <1>3 DEF Tables
<1>5. TypeOK'
  BY <1>1, <1>2, <1>4 DEF TypeOK, MmuTypeOK, regs, Tables
<1>6. PICK u, T : u = htab' /\ T = Vpns \ stale'
  OBVIOUS
<1>7. Right(u, tlb, T)
  <2> SUFFICES ASSUME NEW v \in T, NEW side \in Sides, NEW pr \in BOOLEAN,
                      NEW write \in BOOLEAN, Hit(tlb, pr, side, write, v)
               PROVE  /\ Walk(u, pr, side, write, v).err = "ok"
                      /\ ToPage(Walk(u, pr, side, write, v)) = ToPage(Cached(tlb, side, v))
                      /\ Settled(u, pr, side, write, v)
    BY DEF Right
  <2>1. v \in Vpns /\ v \in Vpns \ stale /\ v \notin stale'
    BY <1>1, <1>6
  <2>2. /\ Walk(htab, pr, side, write, v).err = "ok"
        /\ ToPage(Walk(htab, pr, side, write, v)) = ToPage(Cached(tlb, side, v))
        /\ Settled(htab, pr, side, write, v)
    BY <1>2, <2>1 DEF Right
  <2> QED
    BY <1>6, <2>1, <2>2, ChangePteWalks
<1>8. Right(htab, tlb, T)'
  BY <1>1, <1>6, <1>7, RightStays
<1> QED
  BY <1>5, <1>6, <1>8 DEF IInv

LEMMA NextInv ==
  ASSUME IInv, [Next]_vars
  PROVE  IInv'
<1>0. TypeOK /\ MmuTypeOK
  BY DEF IInv, TypeOK
<1>1. CASE \E kind \in Kinds, v \in Vpns : Access(kind, v)
  BY <1>1, AccessInv DEF Access
<1>2. CASE \E kind \in Kinds \ {"fetch"}, v \in Vpns : AccessAcross(kind, v)
  BY <1>2, AcrossInv
<1>3. CASE \E s \in Segments, x \in Srs : Mtsr(s, x)
  BY <1>3, MtsrInv
<1>4. CASE \E side \in Sides, n \in Bats : MtsprBat(side, n) \/ ApiSetBat(side, n)
  <2>1. PICK side \in Sides, n \in Bats : MtsprBat(side, n) \/ ApiSetBat(side, n)
    BY <1>4
  <2>2. MmuTypeOK'
    BY <1>0, <2>1, BatType DEF MtsprBat, ApiSetBat
  <2> QED
    BY <2>1, <2>2, FlushAllInv, ForgetAllInv DEF MtsprBat, ApiSetBat
<1>5. CASE \E x \in Sdr1s : MtsprSdr1(x) \/ ApiSetSdr1(x)
  <2>1. PICK x \in Sdr1s : MtsprSdr1(x) \/ ApiSetSdr1(x)
    BY <1>5
  <2>2. MmuTypeOK'
    BY <1>0, <2>1 DEF MmuTypeOK, MtsprSdr1, ApiSetSdr1, SetSdr1
  <2> QED
    BY <2>1, <2>2, FlushAllInv, ForgetAllInv DEF MtsprSdr1, ApiSetSdr1
<1>6. CASE \E x \in Hids : MtsprHid(x)
  <2>1. PICK x \in Hids : MtsprHid(x)
    BY <1>6
  <2>2. MmuTypeOK'
    BY <1>0, <2>1, ValuesAssumption DEF MmuTypeOK, MtsprHid, SetHid
  <2> QED
    BY <2>1, <2>2, ForgetAllInv DEF MtsprHid
<1>7. CASE \E x \in Msrs : ChangeMsr(x)
  BY <1>7, ChangeMsrInv, ValuesAssumption
<1>8. CASE \E v \in Vpns : Tlbie(v)
  BY <1>8, TlbieInv
<1>9. CASE \E g \in Groups, k \in Slots, p \in Ptes : ChangePte(g, k, p)
  BY <1>9, ChangePteInv
<1>10. CASE \E b \in BOOLEAN : ApiSetCacheMode(b)
  <2>1. PICK b \in BOOLEAN : ApiSetCacheMode(b)
    BY <1>10
  <2>2. MmuTypeOK'
    BY <1>0, <2>1 DEF MmuTypeOK, ApiSetCacheMode, SetCacheMode
  <2> QED
    BY <2>1, <2>2, ForgetAllInv DEF ApiSetCacheMode
<1>11. CASE Reset
  BY <1>11, ResetInv
<1>12. CASE UNCHANGED vars
  <2>1. TypeOK'
    BY <1>0, <1>12 DEF vars, mmuVars, regs, TypeOK, MmuTypeOK
  <2>2. PICK S : S = Vpns \ stale
    OBVIOUS
  <2>3. Right(htab, tlb, S)'
    BY <1>12, <2>2, RightStays DEF IInv, vars, mmuVars
  <2> QED
    BY <1>12, <2>1, <2>2, <2>3 DEF IInv, vars
<1> QED
  BY <1>1, <1>2, <1>3, <1>4, <1>5, <1>6, <1>7, <1>8, <1>9, <1>10, <1>11, <1>12 DEF Next

(***************************************************************************)
(* The inductive invariant: types, and on every page that is not stale an  *)
(* entry that gives what the walk would give, with nothing left to record. *)
(***************************************************************************)
THEOREM Invariance == Spec => []IInv
<1>1. Init => IInv
  BY InitInv
<1>2. IInv /\ [Next]_vars => IInv'
  BY NextInv
<1> QED
  BY <1>1, <1>2, PTL DEF Spec

(***************************************************************************)
(* Entries, tables, registers and the outcome of every access keep their   *)
(* types: a BAT or an entry leads to a page, and an entry stays in its     *)
(* array.                                                                  *)
(***************************************************************************)
THEOREM TypeCorrect == Spec => []TypeOK
BY Invariance, PTL DEF IInv

(***************************************************************************)
(* The micro-TLB agrees with the tables on every page that is not stale,   *)
(* whatever the size of the arrays, the segments and the tables.           *)
(***************************************************************************)
THEOREM HitsAlwaysAgree == Spec => []HitsAgree
<1>1. IInv => HitsAgree
  <2> SUFFICES ASSUME IInv PROVE HitsAgree
    OBVIOUS
  <2>1. MmuTypeOK /\ htab \in Tables
    BY DEF IInv, TypeOK, MmuTypeOK, Tables
  <2> QED
    BY <2>1, RightAgrees DEF IInv, HitsAgree
<1> QED
  BY <1>1, Invariance, PTL

-----------------------------------------------------------------------------
(* The micro-TLB implements the walk. *)

LEMMA AccessWalks ==
  ASSUME IInv, NEW kind, NEW v \in Vpns \ stale,
         Finish(kind = "store", v, Resolve(Now, Side(kind), kind = "store", v)),
         Become(After(Now, Side(kind), kind = "store", v))
  PROVE  WalkedAccess(kind, v)
<1> DEFINE write == kind = "store"
           side  == Side(kind)
           S     == Vpns \ stale
<1>1. side \in Sides /\ write \in BOOLEAN /\ v \in S /\ S \in SUBSET Vpns
  BY DEF Side, Sides
<1>2. TypeOK /\ htab \in Tables /\ tlb \in Buffers /\ Right(htab, tlb, S)
  BY DEF IInv, TypeOK, MmuTypeOK, Tables, Buffers
<1> HIDE DEF write, side, S
<1>3. /\ Resolve(Now, side, write, v).err = Translate(htab, side, write, v).err
      /\ ToPage(Resolve(Now, side, write, v)) = ToPage(Translate(htab, side, write, v))
      /\ After(Now, side, write, v).t = TableAfter(htab, side, write, v)
  BY <1>1, <1>2, ResolveWalks DEF Now
<1>4. Finish(write, v, Translate(htab, side, write, v))
  BY <1>3 DEF Finish, Raise, Done, write, side
<1>5. htab' = TableAfter(htab, side, write, v) /\ UNCHANGED regs
  BY <1>3 DEF Become, write, side
<1> QED
  BY <1>4, <1>5 DEF WalkedAccess, write, side

LEMMA AcrossWalks ==
  ASSUME IInv, Careful, NEW kind, NEW v \in Vpns, AccessAcross(kind, v)
  PROVE  WalkedAcross(kind, v)
<1> DEFINE write == kind = "store"
           S  == Vpns \ stale
           a  == Resolve(Now, "d", write, v)
           m1 == After(Now, "d", write, v)
           w  == NextPage(v)
           b  == Resolve(m1, "d", write, w)
           A  == Translate(htab, "d", write, v)
           t1 == TableAfter(htab, "d", write, v)
           B  == Translate(t1, "d", write, w)
<1>1. "d" \in Sides /\ write \in BOOLEAN /\ v \in S /\ w \in S /\ S \in SUBSET Vpns
  BY NextPageType DEF Sides, AccessAcross
<1>2. TypeOK /\ htab \in Tables /\ tlb \in Buffers /\ Right(htab, tlb, S)
  BY DEF IInv, TypeOK, MmuTypeOK, Tables, Buffers
<1>3. /\ FinishTwo(write, v, a, b)
      /\ Become(IF a.err = "ok" THEN After(m1, "d", write, w) ELSE m1)
  BY DEF AccessAcross
<1> HIDE DEF write, S, w
<1>4. a.err = A.err /\ ToPage(a) = ToPage(A) /\ m1.t = t1
  BY <1>1, <1>2, ResolveWalks DEF Now
<1>5. /\ m1 = [t |-> m1.t, b |-> m1.b]
      /\ m1.t \in Tables /\ m1.b \in Buffers /\ Right(m1.t, m1.b, S)
  BY <1>1, <1>2, AfterRight DEF Now
<1> HIDE DEF m1
<1>6. /\ b.err = Translate(m1.t, "d", write, w).err
      /\ ToPage(b) = ToPage(Translate(m1.t, "d", write, w))
      /\ After(m1, "d", write, w).t = TableAfter(m1.t, "d", write, w)
  BY <1>1, <1>2, <1>5, ResolveWalks
<1>7. b.err = B.err /\ ToPage(b) = ToPage(B)
  BY <1>4, <1>6
<1> HIDE DEF a, b, A, B
<1>8. FinishTwo(write, v, A, B)
  BY <1>3, <1>4, <1>7 DEF FinishTwo, Raise, Done
<1> HIDE DEF t1
<1>9. htab' = IF A.err = "ok" THEN TableAfter(t1, "d", write, w) ELSE t1
  BY <1>3, <1>4, <1>6 DEF Become
<1>10. UNCHANGED regs
  BY <1>3 DEF Become
<1> QED
  BY <1>8, <1>9, <1>10 DEF WalkedAcross, A, B, t1, w, write

(***************************************************************************)
(* Every access of a program that flushes as it must goes where a walk of  *)
(* the tables goes, fails as it fails, and leaves the same R and C bits.   *)
(***************************************************************************)
THEOREM Refines == Careful /\ Spec => ImplementsMmu
<1> SUFFICES ASSUME Careful PROVE Spec => ImplementsMmu
  OBVIOUS
<1>1. Init => MmuInit
  BY DEF Init
<1>2. IInv /\ [Next]_vars => [MmuNext]_mmuVars
  <2> SUFFICES ASSUME IInv, [Next]_vars PROVE [MmuNext]_mmuVars
    OBVIOUS
  <2>1. CASE \E kind \in Kinds, v \in Vpns : Access(kind, v)
    BY <2>1, AccessWalks DEF Access, MmuNext
  <2>2. CASE \E kind \in Kinds \ {"fetch"}, v \in Vpns : AccessAcross(kind, v)
    BY <2>2, AcrossWalks DEF MmuNext
  <2>3. CASE \E s \in Segments, x \in Srs : Mtsr(s, x)
    BY <2>3 DEF Mtsr, MmuNext
  <2>4. CASE \E side \in Sides, n \in Bats : MtsprBat(side, n) \/ ApiSetBat(side, n)
    BY <2>4 DEF MtsprBat, ApiSetBat, MmuNext
  <2>5. CASE \E x \in Sdr1s : MtsprSdr1(x) \/ ApiSetSdr1(x)
    BY <2>5 DEF MtsprSdr1, ApiSetSdr1, MmuNext
  <2>6. CASE \E x \in Hids : MtsprHid(x)
    BY <2>6 DEF MtsprHid, MmuNext
  <2>7. CASE \E x \in Msrs : ChangeMsr(x)
    BY <2>7 DEF ChangeMsr, MmuNext
  <2>8. CASE \E v \in Vpns : Tlbie(v)
    BY <2>8 DEF Tlbie
  <2>9. CASE \E g \in Groups, k \in Slots, p \in Ptes : ChangePte(g, k, p)
    BY <2>9 DEF ChangePte, MmuNext
  <2>10. CASE \E b \in BOOLEAN : ApiSetCacheMode(b)
    BY <2>10 DEF ApiSetCacheMode, MmuNext
  <2>11. CASE Reset
    BY <2>11 DEF Reset, MmuNext
  <2>12. CASE UNCHANGED vars
    BY <2>12 DEF vars
  <2> QED
    BY <2>1, <2>2, <2>3, <2>4, <2>5, <2>6, <2>7, <2>8, <2>9, <2>10, <2>11, <2>12 DEF Next
<1> QED
  BY <1>1, <1>2, Invariance, PTL DEF Spec, ImplementsMmu, MmuSpec

-----------------------------------------------------------------------------
(* InstructionFetch *)

LEMMA BlockType ==
  ASSUME NEW ppn \in Nat, NEW o \in Offsets
  PROVE  Block(ppn, o) \in Nat /\ SlotOf(Block(ppn, o)) \in LineSlots
<1>1. PageBlocks \in Nat /\ PageBlocks > 0 /\ Lines \in Nat /\ Lines > 0 /\ o \in Nat
  BY FetchAssumption DEF Offsets
<1>2. Block(ppn, o) \in Nat
  <2>1. ppn * PageBlocks \in Nat
    BY <1>1
  <2> QED
    BY <1>1, <2>1 DEF Block
<1>3. PICK b \in Nat : b = Block(ppn, o)
  BY <1>2
<1>4. b % Lines \in LineSlots
  BY <1>1 DEF LineSlots
<1> QED
  BY <1>3, <1>4 DEF SlotOf

LEMMA ZeroTypes ==
  /\ 0 \in Offsets /\ 0 \in LineSlots
  /\ NoLine \in Line /\ NoCode \in [LineSlots -> Line] /\ NoShortcut \in Shortcut
<1>1. 0 \in Offsets /\ 0 \in LineSlots
  BY FetchAssumption DEF Offsets, LineSlots
<1>2. NoLine \in Line
  BY DEF NoLine, Line, Contents
<1> QED
  BY <1>1, <1>2, ZeroPage DEF NoCode, NoShortcut, Shortcut

-----------------------------------------------------------------------------
(* The inductive invariant. *)

\* A valid line is in its own slot and holds its own block, as that block has
\* been since its last icbi.
LineRight(n) ==
  icache[n].valid =>
    /\ icache[n].data.block = icache[n].tag
    /\ SlotOf(icache[n].tag) = n
    /\ icache[n].tag \in Code => icache[n].data.new \in seen[icache[n].tag]

CacheInv ==
  /\ icache \in [LineSlots -> Line]
  /\ rewritten \subseteq Code
  /\ seen \in [Code -> SUBSET BOOLEAN]
  /\ \A n \in LineSlots : LineRight(n)
  /\ \A b \in Code : Bus(b).new \in seen[b]

\* What the shortcut f stands for on the pages of S: a walk that succeeds,
\* finds its block cacheable and has no R bit to set.
ShortRight(t, f, S) ==
  f.valid =>
    /\ ~ f.ir => f.block = Block(f.vpn, f.off) /\ Enabled("i")
    /\ f.ir /\ f.vpn \in S =>
         LET r == Walk(t, f.pr, "i", FALSE, f.vpn) IN
         /\ r.err = "ok" /\ r.cached
         /\ f.block = Block(r.ppn, f.off)
         /\ Settled(t, f.pr, "i", FALSE, f.vpn)

ShortInv == ifetch \in Shortcut /\ ShortRight(htab, ifetch, Vpns \ stale)

FInv == IInv /\ CacheInv /\ ShortInv

-----------------------------------------------------------------------------
(* What the cache and the shortcut keep. *)

LEMMA CacheKept ==
  ASSUME CacheInv, UNCHANGED <<icache, rewritten, seen>>
  PROVE  CacheInv'
BY DEF CacheInv, LineRight, Bus

LEMMA CacheEmptied ==
  ASSUME CacheInv, icache' = NoCode, seen' = [b \in Code |-> Fresh(b)],
         UNCHANGED rewritten
  PROVE  CacheInv'
<1>1. seen' \in [Code -> SUBSET BOOLEAN]
  BY DEF Fresh, Bus
<1>2. \A n \in LineSlots : ~ icache'[n].valid
  BY DEF NoCode, NoLine
<1>3. \A b \in Code : Bus(b)'.new \in seen'[b]
  BY DEF Fresh, Bus
<1> QED
  BY <1>1, <1>2, <1>3, ZeroTypes DEF CacheInv, LineRight

LEMMA EmptiedInv ==
  ASSUME CacheInv, NEW was, NEW is, Emptied(was, is), UNCHANGED rewritten
  PROVE  CacheInv'
BY CacheEmptied, CacheKept DEF Emptied

LEMMA ShortGrows ==
  ASSUME MmuTypeOK, NEW t \in Tables, NEW u, Grows(t, u), NEW f \in Shortcut,
         NEW S \in SUBSET Vpns, ShortRight(t, f, S)
  PROVE  ShortRight(u, f, S)
<1> SUFFICES ASSUME f.valid, f.ir, f.vpn \in S
             PROVE  LET r == Walk(u, f.pr, "i", FALSE, f.vpn) IN
                    /\ r.err = "ok" /\ r.cached
                    /\ f.block = Block(r.ppn, f.off)
                    /\ Settled(u, f.pr, "i", FALSE, f.vpn)
  BY DEF ShortRight
<1>1. f.pr \in BOOLEAN /\ f.vpn \in Vpns /\ "i" \in Sides
  BY DEF Shortcut, Sides
<1>2. /\ Walk(u, f.pr, "i", FALSE, f.vpn).err = Walk(t, f.pr, "i", FALSE, f.vpn).err
      /\ ToPage(Walk(u, f.pr, "i", FALSE, f.vpn)) = ToPage(Walk(t, f.pr, "i", FALSE, f.vpn))
      /\ Settled(t, f.pr, "i", FALSE, f.vpn) => Settled(u, f.pr, "i", FALSE, f.vpn)
  BY <1>1, GrowsWalk
<1>3. /\ Walk(u, f.pr, "i", FALSE, f.vpn).ppn = Walk(t, f.pr, "i", FALSE, f.vpn).ppn
      /\ Walk(u, f.pr, "i", FALSE, f.vpn).cached = Walk(t, f.pr, "i", FALSE, f.vpn).cached
  BY <1>2 DEF ToPage
<1> QED
  BY <1>2, <1>3 DEF ShortRight

\* Registers and tables that stay as they are.
LEMMA ShortStays ==
  ASSUME NEW u, NEW f, f \in Shortcut, NEW S, ShortRight(u, f, S),
         UNCHANGED regs, htab' = u, ifetch' = f, Vpns \ stale' = S
  PROVE  ShortInv'
<1>0. PICK v, pr, side, write :
        v = f.vpn /\ pr = f.pr /\ side = "i" /\ write = FALSE
  OBVIOUS
<1>1. Found(htab, v)' = Found(u, v) /\ PteOf(htab, v)' = PteOf(u, v)
  BY SameFound DEF regs
<1>2. /\ Walk(htab, pr, side, write, v)' = Walk(u, pr, side, write, v)
      /\ Settled(u, pr, side, write, v) => Settled(htab, pr, side, write, v)'
  BY <1>1, SameWalk DEF regs
<1>3. Enabled("i")' = Enabled("i")
  BY DEF Enabled, regs
<1>4. ShortRight(htab, ifetch, Vpns \ stale)'
  BY <1>0, <1>2, <1>3 DEF ShortRight
<1> QED
  BY <1>4 DEF ShortInv

LEMMA ShortDropped ==
  ASSUME ifetch' = NoShortcut
  PROVE  ShortInv'
BY ZeroTypes DEF ShortInv, ShortRight, NoShortcut

\* A translation only sets R and C bits.
LEMMA AfterGrows ==
  ASSUME TypeOK, NEW t \in Tables, NEW b, NEW side \in Sides,
         NEW write \in BOOLEAN, NEW v \in Vpns
  PROVE  Grows(t, After([t |-> t, b |-> b], side, write, v).t)
<1>1. Grows(t, TableAfter(t, side, write, v))
  BY TranslateType DEF TypeOK
<1>2. Grows(t, t)
  BY DEF Grows, Same
<1> QED
  BY <1>1, <1>2 DEF After

-----------------------------------------------------------------------------
(* The actions. *)

LEMMA FetchInitInv == FetchInit => FInv
<1> SUFFICES ASSUME FetchInit PROVE FInv
  OBVIOUS
<1>1. IInv
  BY InitInv DEF FetchInit
<1>2. CacheInv
  <2>1. \A n \in LineSlots : ~ icache[n].valid
    BY DEF FetchInit, NoCode, NoLine
  <2>2. rewritten = {} /\ seen = [b \in Code |-> {FALSE}] /\ icache = NoCode
    BY DEF FetchInit
  <2>3. ASSUME NEW b \in Code PROVE Bus(b).new = FALSE
    <3>1. (b \in rewritten) = FALSE
      BY <2>2
    <3>2. Bus(b) = [block |-> b, new |-> FALSE]
      BY <3>1 DEF Bus
    <3> QED
      BY <3>2
  <2>4. seen \in [Code -> SUBSET BOOLEAN] /\ (\A b \in Code : seen[b] = {FALSE})
    BY <2>2
  <2> QED
    BY <2>1, <2>2, <2>3, <2>4, ZeroTypes DEF CacheInv, LineRight
<1>3. ShortInv
  BY ZeroTypes DEF FetchInit, ShortInv, ShortRight, NoShortcut
<1> QED
  BY <1>1, <1>2, <1>3 DEF FInv

\* An access leaves the shortcut right: the table only grows.
LEMMA AccessShort ==
  ASSUME IInv, ShortInv, NEW side \in Sides, NEW write \in BOOLEAN, NEW v \in Vpns,
         Become(After(Now, side, write, v)), UNCHANGED ifetch
  PROVE  ShortInv'
<1>1. PICK f, S : f = ifetch /\ S = Vpns \ stale
  OBVIOUS
<1>2. TypeOK /\ MmuTypeOK /\ htab \in Tables
  BY DEF IInv, TypeOK, MmuTypeOK, Tables
<1>3. PICK u : u = After(Now, side, write, v).t
  OBVIOUS
<1>4. Grows(htab, u)
  BY <1>2, <1>3, AfterGrows DEF Now
<1>5. ShortRight(u, f, S)
  BY <1>1, <1>2, <1>4, ShortGrows DEF ShortInv
<1> QED
  BY <1>1, <1>3, <1>5, ShortStays DEF ShortInv, Become

LEMMA AcrossShort ==
  ASSUME IInv, ShortInv, NEW kind, NEW v \in Vpns, AccessAcross(kind, v),
         UNCHANGED ifetch
  PROVE  ShortInv'
<1> DEFINE write == kind = "store"
           a  == Resolve(Now, "d", write, v)
           m1 == After(Now, "d", write, v)
           w  == NextPage(v)
           m2 == After(m1, "d", write, w)
           n  == IF a.err = "ok" THEN m2 ELSE m1
<1>1. PICK f, S : f = ifetch /\ S = Vpns \ stale
  OBVIOUS
<1>2. /\ TypeOK /\ MmuTypeOK /\ htab \in Tables /\ tlb \in Buffers
      /\ Right(htab, tlb, Vpns \ stale)
  BY DEF IInv, TypeOK, MmuTypeOK, Tables, Buffers
<1>3. "d" \in Sides /\ write \in BOOLEAN /\ w \in Vpns
  BY NextPageType DEF Sides
<1>4. Become(n)
  BY DEF AccessAcross
<1> HIDE DEF write, w
<1>5. m1 = [t |-> m1.t, b |-> m1.b] /\ m1.t \in Tables /\ Grows(htab, m1.t)
  BY <1>2, <1>3, AfterRight, AfterGrows DEF Now
<1>6. ShortRight(m1.t, f, S)
  BY <1>1, <1>2, <1>5, ShortGrows DEF ShortInv
<1> HIDE DEF m1, a
<1>7. Grows(m1.t, m2.t)
  BY <1>2, <1>3, <1>5, AfterGrows
<1>8. ShortRight(m2.t, f, S)
  BY <1>1, <1>2, <1>5, <1>6, <1>7, ShortGrows DEF ShortInv
<1> HIDE DEF m2
<1>9. PICK u : u = n.t
  OBVIOUS
<1>10. ShortRight(u, f, S)
  BY <1>6, <1>8, <1>9
<1> HIDE DEF n
<1> QED
  BY <1>1, <1>4, <1>9, <1>10, ShortStays DEF ShortInv, Become

\* The shortcut and its line give what they gave.
LEMMA FetchShortInv ==
  ASSUME FInv, NEW v \in Vpns, NEW o \in Offsets, FetchShort(v, o)
  PROVE  FInv'
<1>1. IInv /\ TypeOK /\ MmuTypeOK
  BY DEF FInv, IInv, TypeOK
<1>2. /\ Done(FALSE, v, <<[ppn |-> ifetch.block \div PageBlocks, cached |-> TRUE]>>)
      /\ htab' = htab /\ tlb' = tlb /\ UNCHANGED <<regs, stale>>
      /\ UNCHANGED fetchVars
  BY DEF FetchShort, Become, Now
<1>3. <<[ppn |-> ifetch.block \div PageBlocks, cached |-> TRUE]>> \in Seq(Pages)
  <2>1. ifetch.block \in Nat /\ PageBlocks \in Nat \ {0}
    BY FetchAssumption DEF FInv, ShortInv, Shortcut
  <2>2. PICK b \in Nat : b = ifetch.block
    BY <2>1
  <2>3. b \div PageBlocks \in Nat
    BY <2>1
  <2> QED
    BY <2>2, <2>3 DEF Pages
<1>4. msr' \in Msr /\ last' \in Outcomes
  BY <1>1, <1>2, <1>3, DoneType
<1>5. TypeOK'
  BY <1>1, <1>2, <1>4 DEF TypeOK, MmuTypeOK, regs, Outcomes
<1>6. PICK t, b, f, S : t = htab /\ b = tlb /\ f = ifetch /\ S = Vpns \ stale
  OBVIOUS
<1>7. Right(htab, tlb, S)'
  BY <1>1, <1>2, <1>6, RightStays DEF IInv
<1>8. IInv'
  BY <1>2, <1>5, <1>6, <1>7 DEF IInv
<1>9. CacheInv'
  BY <1>2, CacheKept DEF FInv, fetchVars
<1>10. ShortInv'
  BY <1>2, <1>6, ShortStays DEF FInv, ShortInv, fetchVars
<1> QED
  BY <1>8, <1>9, <1>10 DEF FInv

\* A line that the cache takes is that of its block, as the bus has it.
LEMMA LineForRight ==
  ASSUME CacheInv, NEW b \in Nat, SlotOf(b) \in LineSlots
  PROVE  /\ LineFor(b) \in Line
         /\ LineFor(b).valid /\ LineFor(b).tag = b /\ LineFor(b).data.block = b
         /\ b \in Code => LineFor(b).data.new \in seen[b]
<1>1. CASE CacheHit(b)
  <2>1. LineFor(b) = icache[SlotOf(b)] /\ LineRight(SlotOf(b)) /\ icache[SlotOf(b)] \in Line
    BY <1>1 DEF LineFor, CacheInv
  <2> QED
    BY <1>1, <2>1 DEF CacheHit, LineRight
<1>2. CASE ~ CacheHit(b)
  <2>1. LineFor(b) = [valid |-> TRUE, tag |-> b, data |-> Bus(b)]
    BY <1>2 DEF LineFor
  <2>2. Bus(b) \in Contents /\ Bus(b).block = b
    BY DEF Bus, Contents
  <2> QED
    BY <2>1, <2>2 DEF Line, CacheInv
<1> QED
  BY <1>1, <1>2

LEMMA LineTaken ==
  ASSUME CacheInv, NEW b \in Nat, SlotOf(b) \in LineSlots,
         icache' = [icache EXCEPT ![SlotOf(b)] = LineFor(b)],
         UNCHANGED <<rewritten, seen>>
  PROVE  CacheInv'
<1> DEFINE l == LineFor(b)
<1>1. l \in Line /\ l.valid /\ l.tag = b /\ l.data.block = b
      /\ (b \in Code => l.data.new \in seen[b])
  BY LineForRight
<1> HIDE DEF l
<1>2. icache' \in [LineSlots -> Line]
  BY <1>1 DEF CacheInv, l
<1>3. \A n \in LineSlots : icache'[n] = IF n = SlotOf(b) THEN l ELSE icache[n]
  BY DEF CacheInv, l
<1>4. \A n \in LineSlots : LineRight(n)'
  BY <1>1, <1>3 DEF CacheInv, LineRight
<1>5. \A c \in Code : Bus(c)'.new \in seen'[c]
  BY DEF CacheInv, Bus
<1> QED
  BY <1>2, <1>4, <1>5 DEF CacheInv

\* A fetch the long way takes a line and the shortcut to it.
LEMMA FetchLongInv ==
  ASSUME FInv, NEW v \in Vpns, NEW o \in Offsets, FetchLong(v, o)
  PROVE  FInv'
<1> DEFINE r == Resolve(Now, "i", FALSE, v)
           n == After(Now, "i", FALSE, v)
           b == Block(r.ppn, o)
           f == [valid |-> TRUE, vpn |-> v, off |-> o, block |-> b,
                 ir |-> msr.ir, pr |-> msr.pr, slot |-> SlotOf(b)]
<1>1. IInv /\ TypeOK /\ MmuTypeOK /\ CacheInv /\ ShortInv
  BY DEF FInv, IInv, TypeOK
<1>2. /\ htab \in Tables /\ tlb \in Buffers /\ Right(htab, tlb, Vpns \ stale)
      /\ msr.pr \in BOOLEAN /\ msr.ir \in BOOLEAN /\ "i" \in Sides
  BY <1>1 DEF IInv, TypeOK, MmuTypeOK, Tables, Buffers, Msr, Sides
<1>3. Finish(FALSE, v, r) /\ Become(n)
  BY DEF FetchLong
<1>4. IInv'
  <2>1. Side("fetch") = "i" /\ ("fetch" = "store") = FALSE
    BY DEF Side
  <2>2. PICK kind : kind = "fetch"
    OBVIOUS
  <2>3. /\ Finish(kind = "store", v, Resolve(Now, Side(kind), kind = "store", v))
        /\ Become(After(Now, Side(kind), kind = "store", v))
    BY <1>3, <2>1, <2>2
  <2> QED
    BY <1>1, <2>3, AccessInv
<1>5. CASE r.err # "ok" /\ Entered
  <2>1. CacheInv'
    BY <1>1, <1>5, EmptiedInv DEF Entered
  <2>2. ShortInv'
    BY <1>1, <1>2, <1>3, <1>5, AccessShort DEF Entered
  <2> QED
    BY <1>4, <2>1, <2>2 DEF FInv
<1>6. CASE UNCHANGED fetchVars
  <2>1. CacheInv'
    BY <1>1, <1>6, CacheKept DEF fetchVars
  <2>2. ShortInv'
    BY <1>1, <1>2, <1>3, <1>6, AccessShort DEF fetchVars
  <2> QED
    BY <1>4, <2>1, <2>2 DEF FInv
<1>7. CASE /\ r.err = "ok" /\ r.cached
           /\ icache' = [icache EXCEPT ![SlotOf(b)] = LineFor(b)]
           /\ ifetch' = f
           /\ UNCHANGED <<rewritten, seen>>
  <2>1. Sound(r)
    BY <1>1, <1>2, ResolveType DEF Now
  <2>2. r.ppn \in Nat
    <3>1. ToPage(r) \in Pages
      BY <1>7, <2>1 DEF Sound
    <3> QED
      BY <3>1 DEF ToPage, Pages
  <2>3. b \in Nat /\ SlotOf(b) \in LineSlots
    BY <2>2, BlockType
  <2>4. CacheInv'
    <3> HIDE DEF b
    <3> QED
      BY <1>1, <1>7, <2>3, LineTaken
  <2>5. f \in Shortcut
    <3> HIDE DEF b
    <3> QED
      BY <1>2, <2>3 DEF Shortcut
  <2>6. PICK S : S = Vpns \ stale
    OBVIOUS
  <2>7. PICK u : u = n.t
    OBVIOUS
  <2>8. ASSUME ~ msr.ir PROVE b = Block(v, o) /\ Enabled("i")
    <3>1. r = Real("i", v)
      BY <2>8 DEF Resolve, Uses, Translate, On
    <3>2. PICK c : c = Enabled("i")
      OBVIOUS
    <3> HIDE DEF r
    <3>3. r = Path(v, c, TRUE, FALSE)
      BY <3>1, <3>2 DEF Real
    <3>4. r.ppn = v /\ r.cached = c
      BY <3>3 DEF Path
    <3> QED
      BY <1>7, <3>2, <3>4
  <2>9. ASSUME msr.ir, v \in S
        PROVE  /\ Walk(u, msr.pr, "i", FALSE, v).err = "ok"
               /\ Walk(u, msr.pr, "i", FALSE, v).cached
               /\ b = Block(Walk(u, msr.pr, "i", FALSE, v).ppn, o)
               /\ Settled(u, msr.pr, "i", FALSE, v)
    <3> DEFINE w == Walk(htab, msr.pr, "i", FALSE, v)
    <3>1. Translate(htab, "i", FALSE, v) = w
      BY <2>9 DEF Translate, On
    <3>0. /\ S \in SUBSET Vpns /\ v \in S /\ FALSE \in BOOLEAN
          /\ Right(htab, tlb, S)
      BY <1>2, <2>6, <2>9
    <3>2. /\ r.err = Translate(htab, "i", FALSE, v).err
          /\ ToPage(r) = ToPage(Translate(htab, "i", FALSE, v))
          /\ n.t = TableAfter(htab, "i", FALSE, v)
      BY <1>1, <1>2, <3>0, ResolveWalks DEF Now
    <3>3. u = Marked(htab, msr.pr, "i", FALSE, v)
      BY <2>7, <2>9, <3>2 DEF TableAfter, On
    <3>4. w.err = "ok"
      BY <1>7, <3>1, <3>2
    <3>5. /\ Walk(u, msr.pr, "i", FALSE, v).err = "ok"
          /\ ToPage(Walk(u, msr.pr, "i", FALSE, v)) = ToPage(w)
          /\ Settled(u, msr.pr, "i", FALSE, v)
      <4>1. /\ MmuTypeOK /\ htab \in Tables /\ msr.pr \in BOOLEAN
            /\ "i" \in Sides /\ FALSE \in BOOLEAN
        BY <1>1, <1>2, <3>0
      <4>2. Walk(htab, msr.pr, "i", FALSE, v).err = "ok"
        BY <3>4
      <4> QED
        BY <3>3, <4>1, <4>2, WalkStands, Zenon
    <3>6. ToPage(Walk(u, msr.pr, "i", FALSE, v)) = ToPage(r)
      BY <3>1, <3>2, <3>5
    <3>7. /\ Walk(u, msr.pr, "i", FALSE, v).ppn = r.ppn
          /\ Walk(u, msr.pr, "i", FALSE, v).cached = r.cached
      BY <3>6 DEF ToPage
    <3> QED
      BY <1>7, <3>5, <3>7
  <2>10. PICK g \in Shortcut : g = f
    BY <2>5
  <2>11. g.vpn = v /\ g.off = o /\ g.block = b /\ g.ir = msr.ir /\ g.pr = msr.pr
    <3> HIDE DEF b
    <3> QED
      BY <2>10
  <2>12. ShortRight(u, g, S)
    <3> HIDE DEF f, b
    <3> QED
      BY <2>8, <2>9, <2>11 DEF ShortRight
  <2>13. ifetch' = g
    BY <1>7, <2>10
  <2>14. htab' = u /\ UNCHANGED <<regs, stale>>
    BY <1>3, <2>7 DEF Become
  <2>15. ShortInv'
    <3> HIDE DEF f, b
    <3> QED
      BY <2>6, <2>12, <2>13, <2>14, ShortStays
  <2> QED
    BY <1>4, <2>4, <2>15 DEF FInv
<1> QED
  BY <1>5, <1>6, <1>7 DEF FetchLong

\* A load or a store, and the exception of one that fails.
LEMMA DataInv ==
  ASSUME FInv, NEW kind, NEW v \in Vpns, Data(kind, v)
  PROVE  FInv'
<1>1. IInv /\ CacheInv /\ ShortInv
  BY DEF FInv
<1>2. /\ Finish(kind = "store", v, Resolve(Now, Side(kind), kind = "store", v))
      /\ Become(After(Now, Side(kind), kind = "store", v))
      /\ UNCHANGED <<ifetch, rewritten>>
  BY DEF Data, Access, Entered, fetchVars
<1>3. UNCHANGED fetchVars \/ Entered
  BY DEF Data
<1>4. CacheInv'
  BY <1>1, <1>2, <1>3, CacheKept, EmptiedInv DEF Entered, fetchVars
<1>5. Side(kind) \in Sides /\ (kind = "store") \in BOOLEAN
  BY DEF Side, Sides
<1>6. ShortInv'
  BY <1>1, <1>2, <1>5, AccessShort
<1> QED
  BY <1>1, <1>2, <1>4, <1>6, AccessInv DEF FInv

LEMMA DataAcrossInv ==
  ASSUME FInv, NEW kind, NEW v \in Vpns, DataAcross(kind, v)
  PROVE  FInv'
<1>1. IInv /\ CacheInv /\ ShortInv
  BY DEF FInv
<1>2. AccessAcross(kind, v) /\ UNCHANGED <<ifetch, rewritten>>
  BY DEF DataAcross, Entered, fetchVars
<1>3. UNCHANGED fetchVars \/ Entered
  BY DEF DataAcross
<1>4. CacheInv'
  BY <1>1, <1>2, <1>3, CacheKept, EmptiedInv DEF Entered, fetchVars
<1> QED
  BY <1>1, <1>2, <1>4, AcrossInv, AcrossShort DEF FInv

\* After icbi the cache has no line of the block: a line is in its own slot.
LEMMA IcbiInv ==
  ASSUME FInv, NEW v \in Vpns, NEW o \in Offsets, Icbi(v, o)
  PROVE  FInv'
<1>1. IInv /\ CacheInv /\ ShortInv
  BY DEF FInv
<1>2. PICK kind : kind = "load"
  OBVIOUS
<1>3. /\ Finish(kind = "store", v, Resolve(Now, Side(kind), kind = "store", v))
      /\ Become(After(Now, Side(kind), kind = "store", v))
  BY <1>2 DEF Icbi, Access
<1>4. UNCHANGED <<ifetch, rewritten>>
  BY DEF Icbi, Entered
<1>5. Side(kind) \in Sides /\ (kind = "store") \in BOOLEAN
  BY DEF Side, Sides
<1>6. IInv' /\ ShortInv'
  BY <1>1, <1>3, <1>4, <1>5, AccessInv, AccessShort
<1>7. CASE Entered
  BY <1>1, <1>6, <1>7, EmptiedInv DEF FInv, Entered
<1>8. CASE ~ Entered
  <2> DEFINE b == Block(last'.pages[1].ppn, o)
  <2>1. /\ icache' = IF CacheHit(b) THEN [icache EXCEPT ![SlotOf(b)].valid = FALSE]
                     ELSE icache
        /\ seen' = [c \in Code |-> IF c = b THEN Fresh(c) ELSE seen[c]]
    BY <1>8 DEF Icbi
  <2> HIDE DEF b
  <2>2. icache' \in [LineSlots -> Line]
    <3>1. \A l \in Line : [l EXCEPT !.valid = FALSE] \in Line
      BY DEF Line
    <3> QED
      BY <1>1, <2>1, <3>1 DEF CacheInv
  <2>3. seen' \in [Code -> SUBSET BOOLEAN]
    BY <1>1, <2>1 DEF CacheInv, Fresh, Bus
  <2>4. \A n \in LineSlots : icache'[n].valid =>
          icache'[n] = icache[n] /\ ~ (icache[n].tag = b)
    <3> SUFFICES ASSUME NEW n \in LineSlots, icache'[n].valid
                 PROVE  icache'[n] = icache[n] /\ ~ (icache[n].tag = b)
      OBVIOUS
    <3>1. icache \in [LineSlots -> Line] /\ LineRight(n)
      BY <1>1 DEF CacheInv
    <3>2. CASE n = SlotOf(b) /\ CacheHit(b)
      <4>1. icache'[n] = [icache[n] EXCEPT !.valid = FALSE]
        BY <2>1, <3>1, <3>2
      <4>2. ~ icache'[n].valid
        BY <3>1, <4>1 DEF Line
      <4> QED
        BY <4>2
    <3>3. CASE ~ (n = SlotOf(b) /\ CacheHit(b))
      <4>1. icache'[n] = icache[n]
        BY <2>1, <3>1, <3>3
      <4>2. icache[n].tag = b => CacheHit(b)
        BY <3>1, <4>1 DEF LineRight, CacheHit
      <4> QED
        BY <3>1, <3>3, <4>1, <4>2 DEF LineRight
    <3> QED
      BY <3>2, <3>3
  <2>5. \A n \in LineSlots : LineRight(n)'
    <3> SUFFICES ASSUME NEW n \in LineSlots, icache'[n].valid
                 PROVE  /\ icache'[n].data.block = icache'[n].tag
                        /\ SlotOf(icache'[n].tag) = n
                        /\ icache'[n].tag \in Code =>
                             icache'[n].data.new \in seen'[icache'[n].tag]
      BY DEF LineRight
    <3>1. icache'[n] = icache[n] /\ icache[n].tag # b /\ LineRight(n)
      BY <1>1, <2>4 DEF CacheInv
    <3>2. icache[n].tag \in Code => seen'[icache[n].tag] = seen[icache[n].tag]
      BY <2>1, <3>1
    <3> QED
      BY <3>1, <3>2 DEF LineRight
  <2>6. \A c \in Code : Bus(c)'.new \in seen'[c]
    <3>1. \A c \in Code : Bus(c)' = Bus(c)
      BY <1>4 DEF Bus
    <3>2. \A c \in Code : seen'[c] = IF c = b THEN Fresh(c) ELSE seen[c]
      BY <2>1
    <3> QED
      BY <1>1, <3>1, <3>2 DEF CacheInv, Fresh
  <2>7. CacheInv'
    BY <1>1, <1>4, <2>2, <2>3, <2>5, <2>6 DEF CacheInv
  <2> QED
    BY <1>6, <2>7 DEF FInv
<1> QED
  BY <1>7, <1>8

LEMMA RewriteInv ==
  ASSUME FInv, NEW b \in Code, Rewrite(b)
  PROVE  FInv'
<1>1. IInv /\ CacheInv /\ ShortInv
  BY DEF FInv
<1>2. UNCHANGED <<vars, icache, ifetch>>
  BY DEF Rewrite
<1>3. IInv'
  BY <1>1, <1>2, NextInv
<1>4. PICK t, f, S : t = htab /\ f = ifetch /\ S = Vpns \ stale
  OBVIOUS
<1>5. ShortInv'
  BY <1>1, <1>2, <1>4, ShortStays DEF ShortInv, vars, mmuVars
<1>6. CacheInv'
  <2>1. seen' = [seen EXCEPT ![b] = BOOLEAN] /\ rewritten' \subseteq Code
    BY <1>1 DEF Rewrite, CacheInv
  <2>2. seen' \in [Code -> SUBSET BOOLEAN] /\ (\A c \in Code : seen'[c] = IF c = b THEN BOOLEAN ELSE seen[c])
    BY <1>1, <2>1 DEF CacheInv
  <2>3. \A n \in LineSlots : LineRight(n)'
    <3> SUFFICES ASSUME NEW n \in LineSlots PROVE LineRight(n)'
      OBVIOUS
    <3>1. LineRight(n) /\ icache[n] \in Line
      BY <1>1 DEF CacheInv
    <3>2. icache[n].data.new \in BOOLEAN
      BY <3>1 DEF Line, Contents
    <3> QED
      BY <1>2, <2>2, <3>1, <3>2 DEF LineRight
  <2>4. \A c \in Code : Bus(c)'.new \in seen'[c]
    <3> SUFFICES ASSUME NEW c \in Code PROVE Bus(c)'.new \in seen'[c]
      OBVIOUS
    <3>1. Bus(c).new \in seen[c]
      BY <1>1 DEF CacheInv
    <3>2. CASE c = b
      <4>1. Bus(c)'.new \in BOOLEAN
        BY DEF Bus
      <4> QED
        BY <2>2, <3>2, <4>1
    <3>3. CASE c # b
      <4>1. (c \in rewritten') = (c \in rewritten)
        BY <3>3 DEF Rewrite
      <4>2. Bus(c)' = Bus(c)
        BY <4>1 DEF Bus
      <4> QED
        BY <2>2, <3>1, <3>3, <4>2
    <3> QED
      BY <3>2, <3>3
  <2> QED
    BY <1>1, <1>2, <2>1, <2>2, <2>3, <2>4 DEF CacheInv
<1> QED
  BY <1>3, <1>5, <1>6 DEF FInv

LEMMA RegistersInv ==
  ASSUME FInv, Registers
  PROVE  FInv'
<1>1. IInv /\ MmuTypeOK /\ CacheInv
  BY DEF FInv, IInv, TypeOK
<1>2. Dropped
  BY DEF Registers
<1>3. CacheInv' /\ ShortInv'
  BY <1>1, <1>2, CacheKept, ShortDropped DEF Dropped
<1>4. CASE Next
  BY <1>1, <1>3, <1>4, NextInv DEF FInv
<1> QED
  BY <1>4 DEF Registers, Next

\* MSR: the shortcut answers to the MSR[IR, PR] that it was made under, and
\* what it stands for does not depend on MSR.
LEMMA MsrShort ==
  ASSUME ShortInv, NEW x, ChangeMsr(x), UNCHANGED ifetch
  PROVE  ShortInv'
<1>1. UNCHANGED <<regs, htab, tlb>> /\ stale' = stale
  BY DEF ChangeMsr, SetMsr, Forget
<1>2. PICK t, f, S : t = htab /\ f = ifetch /\ S = Vpns \ stale
  OBVIOUS
<1> QED
  BY <1>1, <1>2, ShortStays DEF ShortInv

LEMMA MtmsrInv ==
  ASSUME FInv, NEW x \in Msrs, Mtmsr(x)
  PROVE  FInv'
<1>1. ChangeMsr(x) /\ UNCHANGED fetchVars /\ x \in Msr
  BY ValuesAssumption DEF Mtmsr
<1> QED
  BY <1>1, ChangeMsrInv, MsrShort, CacheKept DEF FInv, fetchVars

LEMMA RfiInv ==
  ASSUME FInv, NEW x \in Msrs, Rfi(x)
  PROVE  FInv'
<1>1. /\ ChangeMsr(x) /\ Emptied(Translating(msr), Translating(x))
      /\ UNCHANGED <<ifetch, rewritten>> /\ x \in Msr
  BY ValuesAssumption DEF Rfi
<1> QED
  BY <1>1, ChangeMsrInv, MsrShort, EmptiedInv DEF FInv

LEMMA ExceptionInv ==
  ASSUME FInv, Exception
  PROVE  FInv'
<1>1. PICK x \in Msr : ChangeMsr(x)
  BY ResetType DEF Exception
<1>2. Emptied(Translating(msr), FALSE) /\ UNCHANGED <<ifetch, rewritten>>
  BY DEF Exception, Entered
<1> QED
  BY <1>1, <1>2, ChangeMsrInv, MsrShort, EmptiedInv DEF FInv

\* The pages of an overwritten entry become stale; the others are walked as
\* they were.
LEMMA PteInv ==
  ASSUME FInv, NEW g \in Groups, NEW k \in Slots, NEW p \in Ptes,
         ChangePte(g, k, p), UNCHANGED fetchVars
  PROVE  FInv'
<1>1. IInv /\ CacheInv /\ ShortInv
  BY DEF FInv
<1>2. IInv' /\ CacheInv'
  BY <1>1, ChangePteInv, CacheKept DEF fetchVars
<1>3. PICK u, f, T : u = htab' /\ f = ifetch /\ T = Vpns \ stale'
  OBVIOUS
<1>4. UNCHANGED <<regs, ifetch>> /\ stale \subseteq stale'
  BY DEF ChangePte, WritePte, Forget, fetchVars
<1>5. f \in Shortcut /\ ShortRight(htab, f, Vpns \ stale)
  BY <1>1, <1>3 DEF ShortInv
<1>6. ASSUME f.valid, f.ir, f.vpn \in T
      PROVE  LET r == Walk(u, f.pr, "i", FALSE, f.vpn) IN
             /\ r.err = "ok" /\ r.cached
             /\ f.block = Block(r.ppn, f.off)
             /\ Settled(u, f.pr, "i", FALSE, f.vpn)
  <2>1. f.vpn \in Vpns /\ f.vpn \in Vpns \ stale /\ f.vpn \notin stale'
    BY <1>3, <1>4, <1>6
  <2>2. /\ Walk(htab, f.pr, "i", FALSE, f.vpn).err = "ok"
        /\ Walk(htab, f.pr, "i", FALSE, f.vpn).cached
        /\ f.block = Block(Walk(htab, f.pr, "i", FALSE, f.vpn).ppn, f.off)
        /\ Settled(htab, f.pr, "i", FALSE, f.vpn)
    BY <1>5, <1>6, <2>1 DEF ShortRight
  <2>3. /\ Walk(u, f.pr, "i", FALSE, f.vpn) = Walk(htab, f.pr, "i", FALSE, f.vpn)
        /\ Settled(u, f.pr, "i", FALSE, f.vpn)
    <3>1. f.vpn \in Vpns /\ f.vpn \notin stale'
      BY <2>1
    <3>2. /\ Walk(htab, f.pr, "i", FALSE, f.vpn).err = "ok"
          /\ Settled(htab, f.pr, "i", FALSE, f.vpn)
      BY <2>2
    <3>3. IInv /\ u = htab'
      BY <1>1, <1>3
    <3> QED
      BY <3>1, <3>2, <3>3, ChangePteWalks, Zenon
  <2> QED
    BY <2>2, <2>3
<1>7. ShortRight(u, f, T)
  BY <1>5, <1>6 DEF ShortRight
<1>8. ShortInv'
  BY <1>3, <1>4, <1>5, <1>7, ShortStays
<1> QED
  BY <1>2, <1>8 DEF FInv

LEMMA FetchResetInv ==
  ASSUME FInv, FetchReset
  PROVE  FInv'
<1>1. IInv /\ CacheInv
  BY DEF FInv
<1> QED
  BY <1>1, ResetInv, CacheEmptied, ShortDropped DEF FetchReset, FInv

LEMMA FetchNextInv ==
  ASSUME FInv, [FetchNext]_allVars
  PROVE  FInv'
<1>1. CASE \E v \in Vpns, o \in Offsets : Fetch(v, o) \/ Icbi(v, o)
  BY <1>1, FetchShortInv, FetchLongInv, IcbiInv DEF Fetch
<1>2. CASE \E kind \in Kinds \ {"fetch"}, v \in Vpns : Data(kind, v) \/ DataAcross(kind, v)
  BY <1>2, DataInv, DataAcrossInv
<1>3. CASE Registers
  BY <1>3, RegistersInv
<1>4. CASE \E x \in Msrs : Mtmsr(x) \/ Rfi(x)
  BY <1>4, MtmsrInv, RfiInv
<1>5. CASE Exception
  BY <1>5, ExceptionInv
<1>6. CASE \E g \in Groups, k \in Slots, p \in Ptes : ChangePte(g, k, p) /\ UNCHANGED fetchVars
  BY <1>6, PteInv
<1>7. CASE \E b \in Code : Rewrite(b)
  BY <1>7, RewriteInv
<1>8. CASE FetchReset
  BY <1>8, FetchResetInv
<1>9. CASE UNCHANGED allVars
  <2>1. UNCHANGED vars /\ UNCHANGED fetchVars
    BY <1>9 DEF allVars
  <2>2. IInv'
    BY <2>1, NextInv DEF FInv
  <2>3. PICK t, f, S : t = htab /\ f = ifetch /\ S = Vpns \ stale
    OBVIOUS
  <2>4. ShortInv'
    BY <2>1, <2>3, ShortStays DEF FInv, ShortInv, vars, mmuVars, fetchVars
  <2> QED
    BY <2>1, <2>2, <2>4, CacheKept DEF FInv, fetchVars
<1> QED
  BY <1>1, <1>2, <1>3, <1>4, <1>5, <1>6, <1>7, <1>8, <1>9 DEF FetchNext

(***************************************************************************)
(* The inductive invariant: that of the micro-TLB; lines in their slots    *)
(* with contents that their block has had since its last icbi; a shortcut  *)
(* that stands, on a page that is not stale, for a walk that succeeds.     *)
(***************************************************************************)
THEOREM FetchInvariance == FetchSpec => []FInv
<1>1. FetchInit => FInv
  BY FetchInitInv
<1>2. FInv /\ [FetchNext]_allVars => FInv'
  BY FetchNextInv
<1> QED
  BY <1>1, <1>2, PTL DEF FetchSpec

(***************************************************************************)
(* Registers, tables, micro-TLB, instruction cache and shortcut keep their *)
(* types: the shortcut points into the cache.                              *)
(***************************************************************************)
THEOREM FetchTypeCorrect == FetchSpec => []FetchTypeOK
<1>1. FInv => FetchTypeOK
  BY DEF FInv, IInv, CacheInv, ShortInv, FetchTypeOK
<1> QED
  BY <1>1, FetchInvariance, PTL

(***************************************************************************)
(* With the fetches, the instruction cache and the shortcut beside it, the *)
(* micro-TLB still agrees with the tables.                                 *)
(***************************************************************************)
THEOREM FetchHitsAgree == FetchSpec => []HitsAgree
<1>1. IInv => HitsAgree
  <2> SUFFICES ASSUME IInv PROVE HitsAgree
    OBVIOUS
  <2>1. MmuTypeOK /\ htab \in Tables
    BY DEF IInv, TypeOK, MmuTypeOK, Tables
  <2> QED
    BY <2>1, RightAgrees DEF IInv, HitsAgree
<1> QED
  BY <1>1, FetchInvariance, PTL DEF FInv

-----------------------------------------------------------------------------
(* What the invariant gives. *)

\* Where the shortcut hits, it is what a walk would find.
LEMMA ShortStandsForWalk ==
  ASSUME FInv, NEW v \in Vpns, NEW o \in Offsets, ShortHit(v, o),
         msr.ir => v \notin stale
  PROVE  /\ Translate(htab, "i", FALSE, v).err = "ok"
         /\ Translate(htab, "i", FALSE, v).cached
         /\ ifetch.block = Wanted(v, o)
         /\ TableAfter(htab, "i", FALSE, v) = htab
<1>1. /\ MmuTypeOK /\ htab \in Tables /\ ShortRight(htab, ifetch, Vpns \ stale)
      /\ msr.pr \in BOOLEAN /\ "i" \in Sides
  BY DEF FInv, IInv, TypeOK, MmuTypeOK, Tables, ShortInv, Msr, Sides
<1>2. /\ ifetch.valid /\ ifetch.vpn = v /\ ifetch.off = o
      /\ ifetch.ir = msr.ir /\ ifetch.pr = msr.pr
  BY DEF ShortHit
<1>3. CASE msr.ir
  <2>1. LET r == Walk(htab, msr.pr, "i", FALSE, v) IN
        /\ r.err = "ok" /\ r.cached
        /\ ifetch.block = Block(r.ppn, o)
        /\ Settled(htab, msr.pr, "i", FALSE, v)
    BY <1>1, <1>2, <1>3 DEF ShortRight
  <2>2. Translate(htab, "i", FALSE, v) = Walk(htab, msr.pr, "i", FALSE, v)
    BY <1>3 DEF Translate, On
  <2>3. Marked(htab, msr.pr, "i", FALSE, v) = htab
    <3>1. FALSE \in BOOLEAN /\ Settled(htab, msr.pr, "i", FALSE, v)
      BY <2>1
    <3> QED
      BY <1>1, <3>1, SettledMarked, Zenon
  <2>4. TableAfter(htab, "i", FALSE, v) = htab
    BY <1>3, <2>3 DEF TableAfter, On
  <2> QED
    BY <2>1, <2>2, <2>4 DEF Wanted
<1>4. CASE ~ msr.ir
  <2>1. ifetch.block = Block(v, o) /\ Enabled("i")
    BY <1>1, <1>2, <1>4 DEF ShortRight
  <2>2. PICK c : c = Enabled("i")
    OBVIOUS
  <2>3. Translate(htab, "i", FALSE, v) = Path(v, c, TRUE, FALSE)
    BY <1>4, <2>2 DEF Translate, On, Real
  <2> DEFINE t == Translate(htab, "i", FALSE, v)
  <2>4. t.err = "ok" /\ t.ppn = v /\ t.cached = c
    <3>1. t = Path(v, c, TRUE, FALSE)
      BY <2>3
    <3> HIDE DEF t
    <3> QED
      BY <3>1 DEF Path
  <2>5. TableAfter(htab, "i", FALSE, v) = htab
    BY <1>4 DEF TableAfter, On
  <2> QED
    BY <2>1, <2>2, <2>4, <2>5 DEF Wanted
<1> QED
  BY <1>3, <1>4

(***************************************************************************)
(* On a page that is not stale the shortcut hits only where the walk       *)
(* succeeds, finds a cacheable page and has no R bit to set, for every     *)
(* geometry of tables, micro-TLB and cache.                                *)
(***************************************************************************)
THEOREM ShortcutNeverOversteps == FetchSpec => []ShortcutEntitled
<1>1. FInv => ShortcutEntitled
  BY ShortStandsForWalk DEF ShortcutEntitled
<1> QED
  BY <1>1, FetchInvariance, PTL

LEMMA SupplyRight ==
  ASSUME FInv, NEW v \in Vpns, NEW o \in Offsets, Fetchable(v)
  PROVE  /\ Supply(v, o).block = Wanted(v, o)
         /\ Supply(v, o).block \in Code =>
              Supply(v, o).new \in seen[Supply(v, o).block]
<1> DEFINE r == Resolve(Now, "i", FALSE, v)
           b == Block(r.ppn, o)
<1>1. TypeOK /\ MmuTypeOK /\ CacheInv /\ (msr.ir => v \notin stale)
  BY DEF FInv, IInv, TypeOK, Fetchable
<1>2. CASE ShortHit(v, o)
  <2>1. ifetch.slot \in LineSlots
    BY DEF FInv, ShortInv, Shortcut
  <2>2. LineRight(ifetch.slot)
    BY <1>1, <2>1 DEF CacheInv
  <2>3. ifetch.block = Wanted(v, o)
    BY <1>1, <1>2, ShortStandsForWalk
  <2>4. Supply(v, o) = icache[ifetch.slot].data
    BY <1>2 DEF Supply
  <2> QED
    BY <1>2, <2>2, <2>3, <2>4 DEF ShortHit, LineRight
<1>3. CASE ~ ShortHit(v, o)
  <2>1. /\ htab \in Tables /\ tlb \in Buffers /\ Right(htab, tlb, Vpns \ stale)
        /\ "i" \in Sides
    BY DEF FInv, IInv, TypeOK, MmuTypeOK, Tables, Buffers, Sides
  <2>2. r.err = "ok" /\ r.ppn = Translate(htab, "i", FALSE, v).ppn
    <3>1. CASE msr.ir
      <4>1. PICK S : S = Vpns \ stale
        OBVIOUS
      <4>2. S \in SUBSET Vpns /\ v \in S /\ FALSE \in BOOLEAN /\ Right(htab, tlb, S)
        BY <1>1, <2>1, <3>1, <4>1
      <4>3. /\ r.err = Translate(htab, "i", FALSE, v).err
            /\ ToPage(r) = ToPage(Translate(htab, "i", FALSE, v))
        BY <1>1, <2>1, <4>2, ResolveWalks DEF Now
      <4> QED
        BY <4>3 DEF Fetchable, ToPage
    <3>2. CASE ~ msr.ir
      <4>1. r = Translate(htab, "i", FALSE, v)
        BY <3>2 DEF Resolve, Uses, On, Now
      <4> QED
        BY <4>1 DEF Fetchable
    <3> QED
      BY <3>1, <3>2
  <2>3. b = Wanted(v, o)
    BY <2>2 DEF Wanted
  <2>4. Sound(r)
    BY <1>1, <2>1, ResolveType DEF Now
  <2>5. r.ppn \in Nat
    BY <2>2, <2>4 DEF Sound, ToPage, Pages
  <2>6. b \in Nat /\ SlotOf(b) \in LineSlots
    BY <2>5, BlockType
  <2>7. Supply(v, o) = IF r.cached THEN LineFor(b).data ELSE Bus(b)
    BY <1>3 DEF Supply
  <2> HIDE DEF b, r
  <2>8. LineFor(b).data.block = b /\ (b \in Code => LineFor(b).data.new \in seen[b])
    BY <1>1, <2>6, LineForRight
  <2>9. Bus(b).block = b /\ (b \in Code => Bus(b).new \in seen[b])
    BY <1>1 DEF CacheInv, Bus
  <2> QED
    BY <2>3, <2>7, <2>8, <2>9
<1> QED
  BY <1>2, <1>3

(***************************************************************************)
(* Whatever was remapped, switched, refilled or invalidated, a fetch from  *)
(* a page that is not stale gives an instruction of the block that the     *)
(* tables name now, as that block has been since its last icbi.            *)
(***************************************************************************)
THEOREM FetchesCorrect == FetchSpec => []FetchesRight
<1>1. FInv => FetchesRight
  BY SupplyRight DEF FetchesRight
<1> QED
  BY <1>1, FetchInvariance, PTL

-----------------------------------------------------------------------------
(* Fetches through the shortcut, and all other accesses, implement the walk. *)

LEMMA FetchWalks ==
  ASSUME FInv, Careful, NEW v \in Vpns, NEW o \in Offsets, Fetch(v, o)
  PROVE  WalkedAccess("fetch", v)
<1>1. IInv /\ TypeOK /\ MmuTypeOK /\ (msr.ir => v \notin stale)
  BY DEF FInv, IInv, TypeOK, Fetch
<1>2. Side("fetch") = "i" /\ ("fetch" = "store") = FALSE
  BY DEF Side
<1>3. CASE FetchShort(v, o)
  <2> DEFINE r == Translate(htab, "i", FALSE, v)
  <2>1. ShortHit(v, o)
    BY <1>3 DEF FetchShort
  <2>2. /\ r.err = "ok" /\ r.cached /\ ifetch.block = Block(r.ppn, o)
        /\ TableAfter(htab, "i", FALSE, v) = htab
    BY <1>1, <2>1, ShortStandsForWalk DEF Wanted
  <2>3. "i" \in Sides /\ htab \in Tables
    BY <1>1 DEF Sides, MmuTypeOK, Tables
  <2>4. r.ppn \in Nat /\ r.cached \in BOOLEAN
    BY <1>1, <2>2, <2>3, TranslateType
  <2> HIDE DEF r
  <2>5. ifetch.block \div PageBlocks = r.ppn
    <3>1. PageBlocks \in Nat /\ PageBlocks > 0 /\ o \in Nat /\ o < PageBlocks
      BY FetchAssumption DEF Offsets
    <3>2. PICK p \in Nat : p = r.ppn
      BY <2>4
    <3>3. (p * PageBlocks + o) \div PageBlocks = p
      BY <3>1
    <3> QED
      BY <2>2, <3>2, <3>3 DEF Block
  <2>6. [ppn |-> ifetch.block \div PageBlocks, cached |-> TRUE] = ToPage(r)
    BY <2>2, <2>4, <2>5 DEF ToPage
  <2>7. Finish(FALSE, v, r)
    BY <1>3, <2>2, <2>6 DEF FetchShort, Finish
  <2>8. UNCHANGED regs /\ htab' = htab
    BY <1>3 DEF FetchShort, Become, Now
  <2> QED
    BY <1>2, <2>2, <2>7, <2>8 DEF WalkedAccess, r
<1>4. CASE FetchLong(v, o) /\ v \notin stale
  <2>1. PICK kind : kind = "fetch"
    OBVIOUS
  <2>2. /\ Finish(kind = "store", v, Resolve(Now, Side(kind), kind = "store", v))
        /\ Become(After(Now, Side(kind), kind = "store", v))
    BY <1>2, <1>4, <2>1 DEF FetchLong
  <2> QED
    BY <1>1, <1>4, <2>1, <2>2, AccessWalks
<1>5. CASE FetchLong(v, o) /\ ~ msr.ir
  <2>1. Resolve(Now, "i", FALSE, v) = Translate(htab, "i", FALSE, v)
    BY <1>5 DEF Resolve, Uses, On, Now
  <2>2. After(Now, "i", FALSE, v).t = TableAfter(htab, "i", FALSE, v)
    BY <1>5 DEF After, Uses, On, Now
  <2> QED
    BY <1>2, <1>5, <2>1, <2>2 DEF FetchLong, WalkedAccess, Become
<1> QED
  BY <1>1, <1>3, <1>4, <1>5 DEF Fetch

(***************************************************************************)
(* For a program that flushes as it must, with the kinds of access and the *)
(* MSR of exceptions among those of Mmu, the shortcut and the micro-TLB    *)
(* together implement walking the tables on every fetch, load, store and   *)
(* icbi: the same pages, the same faults, the same R and C bits.           *)
(***************************************************************************)
THEOREM FetchRefines ==
  ASSUME Careful, {"fetch", "load"} \subseteq Kinds,
         [pr |-> FALSE, ir |-> FALSE, dr |-> FALSE] \in Msrs
  PROVE  FetchSpec => ImplementsMmu
<1>1. FetchInit => MmuInit
  BY DEF FetchInit, Init
<1>2. FInv /\ [FetchNext]_allVars => [MmuNext]_mmuVars
  <2> SUFFICES ASSUME FInv, [FetchNext]_allVars PROVE [MmuNext]_mmuVars
    OBVIOUS
  <2>0. IInv
    BY DEF FInv
  <2>1. CASE \E v \in Vpns, o \in Offsets : Fetch(v, o)
    BY <2>1, FetchWalks DEF MmuNext
  <2>2. CASE \E v \in Vpns, o \in Offsets : Icbi(v, o)
    BY <2>0, <2>2, AccessWalks DEF Icbi, Access, MmuNext
  <2>3. CASE \E kind \in Kinds \ {"fetch"}, v \in Vpns : Data(kind, v)
    BY <2>0, <2>3, AccessWalks DEF Data, Access, MmuNext
  <2>4. CASE \E kind \in Kinds \ {"fetch"}, v \in Vpns : DataAcross(kind, v)
    BY <2>0, <2>4, AcrossWalks DEF DataAcross, MmuNext
  <2>5. CASE Registers
    <3>1. CASE \E s \in Segments, x \in Srs : Mtsr(s, x)
      BY <3>1 DEF Mtsr, MmuNext
    <3>2. CASE \E side \in Sides, n \in Bats : MtsprBat(side, n) \/ ApiSetBat(side, n)
      BY <3>2 DEF MtsprBat, ApiSetBat, MmuNext
    <3>3. CASE \E x \in Sdr1s : MtsprSdr1(x) \/ ApiSetSdr1(x)
      BY <3>3 DEF MtsprSdr1, ApiSetSdr1, MmuNext
    <3>4. CASE \E x \in Hids : MtsprHid(x)
      BY <3>4 DEF MtsprHid, MmuNext
    <3>5. CASE \E v \in Vpns : Tlbie(v)
      BY <3>5 DEF Tlbie
    <3>6. CASE \E b \in BOOLEAN : ApiSetCacheMode(b)
      BY <3>6 DEF ApiSetCacheMode, MmuNext
    <3>7. CASE \E x \in Msrs : ChangeMsr(x)
      BY <3>7 DEF ChangeMsr, MmuNext
    <3> QED
      BY <2>5, <3>1, <3>2, <3>3, <3>4, <3>5, <3>6, <3>7 DEF Registers
  <2>6. CASE \E x \in Msrs : Mtmsr(x) \/ Rfi(x)
    BY <2>6 DEF Mtmsr, Rfi, ChangeMsr, MmuNext
  <2>7. CASE Exception
    BY <2>7 DEF Exception, ChangeMsr, MmuNext
  <2>8. CASE \E g \in Groups, k \in Slots, p \in Ptes : ChangePte(g, k, p)
    BY <2>8 DEF ChangePte, MmuNext
  <2>9. CASE \E b \in Code : Rewrite(b)
    BY <2>9 DEF Rewrite, vars
  <2>10. CASE FetchReset
    BY <2>10 DEF FetchReset, Reset, MmuNext
  <2>11. CASE UNCHANGED allVars
    BY <2>11 DEF allVars, vars
  <2> QED
    BY <2>1, <2>2, <2>3, <2>4, <2>5, <2>6, <2>7, <2>8, <2>9, <2>10, <2>11
    DEF FetchNext
<1> QED
  BY <1>1, <1>2, FetchInvariance, PTL DEF FetchSpec, ImplementsMmu, MmuSpec
=============================================================================
