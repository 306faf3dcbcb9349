-------------------------- MODULE DataCacheProofs ---------------------------
(***************************************************************************)
(* Proofs about DataCache, for every geometry and every set of values.     *)
(*                                                                         *)
(* The operators of DataCache act on a cache c and the memory m behind it; *)
(* each gets a lemma that says which lines it changes and how, and the     *)
(* theorems about the specification compose them.                          *)
(***************************************************************************)
EXTENDS DataCache, TLAPS

-----------------------------------------------------------------------------
(* Line placement.                                                         *)

LEMMA IndexInSlots == ASSUME NEW l \in Lines PROVE Index(l) \in Slots
  BY GeometryAssumption DEF Index, Slots, Lines

LEMMA NextInLines == ASSUME NEW l \in Lines PROVE NextLine(l) \in Lines
  BY GeometryAssumption DEF NextLine, Lines

LEMMA ZeroIsLine == 0 \in Lines
  BY GeometryAssumption DEF Lines

LEMMA ZeroLineIsData == ZeroLine \in Data
  BY DataAssumption DEF ZeroLine, Data

LEMMA LastWordIsWord == 0 \in Words /\ NWords - 1 \in Words
  BY GeometryAssumption DEF Words

-----------------------------------------------------------------------------
(* What the lemmas are about.                                              *)

WellPlaced(c) ==
  \A i \in Slots : /\ c[i].valid => Index(c[i].tag) = i
                   /\ c[i].dirty => c[i].valid
                   /\ c[i].locked => c[i].valid

CacheOK(c) == c \in [Slots -> CacheLine] /\ WellPlaced(c)
MemOK(m) == m \in [Lines -> Data]

\* From <<c, m>> to <<d, n>>, nobody asked for anything to happen to line k.
Kept(c, m, d, n, k) ==
  /\ Holds(d, k) <=> Holds(c, k)
  /\ Modified(d, k) <=> Modified(c, k)
  /\ Locked(d, k) <=> Locked(c, k)
  /\ View(d, n, k) = View(c, m, k)
  /\ n[k] = m[k]

Evicted(c, m, d, n, k) ==
  /\ Holds(c, k) /\ ~Locked(c, k) /\ ~Holds(d, k)
  /\ n[k] = IF Modified(c, k) THEN View(c, m, k) ELSE m[k]

Filled(c, m, d, n, k) ==
  /\ ~Holds(c, k) /\ Holds(d, k) /\ ~Modified(d, k) /\ ~Locked(d, k)
  /\ n[k] = m[k] /\ View(d, n, k) = m[k]

Quiet(c, m, d, n, k) ==
  Kept(c, m, d, n, k) \/ Evicted(c, m, d, n, k) \/ Filled(c, m, d, n, k)

-----------------------------------------------------------------------------
(* cache_get_line.                                                         *)

\* Pushing the victim of slot i out of a well-formed cache.
LEMMA PushedOK ==
  ASSUME NEW c, CacheOK(c), NEW m, MemOK(m), NEW i \in Slots
  PROVE  /\ MemOK(Pushed(c, m, i))
         /\ \A k \in Lines : Pushed(c, m, i)[k] =
              IF c[i].valid /\ c[i].dirty /\ c[i].tag = k THEN c[i].data ELSE m[k]
  BY DEF CacheOK, MemOK, Pushed, CacheLine

\* Taking slot Index(l) over for line l: the old line there is evicted.
LEMMA TakeOver ==
  ASSUME NEW c, CacheOK(c), NEW m, MemOK(m), NEW l \in Lines,
         ~Holds(c, l), ~Pinned(c, l),
         NEW d \in [Slots -> CacheLine],
         d[Index(l)].tag = l, d[Index(l)].valid,
         \A i \in Slots \ {Index(l)} : d[i] = c[i],
         NEW n, n = Pushed(c, m, Index(l))
  PROVE  /\ CacheOK(d) /\ MemOK(n)
         /\ \A k \in Lines \ {l} : Quiet(c, m, d, n, k)
         /\ Holds(d, l) /\ n[l] = m[l]
  <1>1. Index(l) \in Slots
    BY IndexInSlots
  <1>2. CacheOK(d)
    BY <1>1 DEF CacheOK, WellPlaced
  <1>3. MemOK(n)
    BY <1>1, PushedOK
  <1>4. Holds(d, l)
    BY <1>1 DEF Holds, CacheOK
  <1>5. n[l] = m[l]
    BY <1>1, PushedOK DEF Holds
  <1>6. ASSUME NEW k \in Lines \ {l} PROVE Quiet(c, m, d, n, k)
    <2>1. Index(k) \in Slots
      BY IndexInSlots
    <2>2. n[k] = IF c[Index(l)].valid /\ c[Index(l)].dirty /\ c[Index(l)].tag = k
                 THEN c[Index(l)].data ELSE m[k]
      BY <1>1, PushedOK
    <2>3. CASE Index(k) # Index(l)
      <3>1. d[Index(k)] = c[Index(k)]
        BY <1>1, <2>1, <2>3 DEF CacheOK
      <3>2. n[k] = m[k]
        BY <1>1, <2>2, <2>3 DEF CacheOK, WellPlaced
      <3>3. QED
        BY <3>1, <3>2 DEF Quiet, Kept, Holds, Modified, Locked, View
    <2>4. CASE Index(k) = Index(l) /\ ~Holds(c, k)
      <3>1. ~Holds(d, k)
        BY <1>1, <2>4 DEF Holds, CacheOK
      <3>2. n[k] = m[k]
        BY <2>2, <2>4 DEF Holds
      <3>3. QED
        BY <2>4, <3>1, <3>2 DEF Quiet, Kept, Modified, Locked, View
    <2>5. CASE Index(k) = Index(l) /\ Holds(c, k)
      <3>1. ~Holds(d, k)
        BY <1>1, <2>5 DEF Holds, CacheOK
      <3>2. ~Locked(c, k)
        BY <2>5 DEF Holds, Pinned, Locked
      <3>3. n[k] = IF Modified(c, k) THEN View(c, m, k) ELSE m[k]
        BY <2>2, <2>5 DEF Holds, Modified, View
      <3>4. QED
        BY <2>5, <3>1, <3>2, <3>3 DEF Quiet, Evicted
    <2>6. QED
      BY <2>3, <2>4, <2>5
  <1>7. QED
    BY <1>2, <1>3, <1>4, <1>5, <1>6

\* cache_get_line: no line is lost, and the line asked for is there unless
\* its slot is pinned.
LEMMA FillOK ==
  ASSUME NEW c, CacheOK(c), NEW m, MemOK(m), NEW l \in Lines
  PROVE  LET s == Fill(c, m, l)
         IN /\ CacheOK(s.lines) /\ MemOK(s.mem)
            /\ \A k \in Lines : Quiet(c, m, s.lines, s.mem, k)
            /\ View(s.lines, s.mem, l) = View(c, m, l)
  <1>1. CASE Holds(c, l) \/ Pinned(c, l)
    <2>1. Fill(c, m, l) = [lines |-> c, mem |-> m]
      BY <1>1 DEF Fill
    <2>2. \A k \in Lines : Kept(c, m, c, m, k)
      BY DEF Kept
    <2>3. QED
      BY <2>1, <2>2 DEF Quiet
  <1>2. CASE ~(Holds(c, l) \/ Pinned(c, l))
    <2> DEFINE n == Pushed(c, m, Index(l))
               x == [tag |-> l, valid |-> TRUE, dirty |-> FALSE,
                     locked |-> FALSE, data |-> n[l]]
               d == [c EXCEPT ![Index(l)] = x]
    <2>1. Fill(c, m, l) = [lines |-> d, mem |-> n]
      BY <1>2 DEF Fill
    <2>2. Index(l) \in Slots
      BY IndexInSlots
    <2>3. n[l] \in Data /\ MemOK(n)
      BY <2>2, PushedOK DEF MemOK
    <2>4. /\ d \in [Slots -> CacheLine] /\ d[Index(l)] = x
          /\ \A i \in Slots \ {Index(l)} : d[i] = c[i]
      BY <2>2, <2>3 DEF CacheOK, CacheLine
    <2>5. /\ CacheOK(d)
          /\ \A k \in Lines \ {l} : Quiet(c, m, d, n, k)
          /\ Holds(d, l) /\ n[l] = m[l]
      <3>1. d[Index(l)].tag = l /\ d[Index(l)].valid
        BY <2>4
      <3> HIDE DEF n, d
      <3>2. n = Pushed(c, m, Index(l))
        BY DEF n
      <3>3. QED
        BY <1>2, <2>4, <3>1, <3>2, TakeOver
    <2>6. Filled(c, m, d, n, l) /\ View(d, n, l) = View(c, m, l)
      <3>1. /\ d[Index(l)].valid /\ d[Index(l)].tag = l /\ ~d[Index(l)].dirty
            /\ ~d[Index(l)].locked /\ d[Index(l)].data = n[l]
        BY <2>4
      <3> HIDE DEF n, d
      <3>2. QED
        BY <1>2, <2>5, <3>1 DEF Filled, Holds, Modified, Locked, View
    <2>7. \A k \in Lines : Quiet(c, m, d, n, k)
      <3> HIDE DEF n, d
      <3>1. QED
        BY <2>5, <2>6 DEF Quiet
    <2>8. QED
      <3> HIDE DEF n, d
      <3>1. QED
        BY <2>1, <2>3, <2>5, <2>6, <2>7
  <1>3. QED
    BY <1>1, <1>2

LEMMA ViewIsData ==
  ASSUME NEW c, CacheOK(c), NEW m, MemOK(m), NEW l \in Lines
  PROVE  View(c, m, l) \in Data
  BY IndexInSlots DEF CacheOK, MemOK, View, CacheLine

-----------------------------------------------------------------------------
(* What the processor reads from line k is x, and memory agrees with it    *)
(* unless the line is modified.                                            *)

Good(c, m, k, x) ==
  /\ View(c, m, k) = x
  /\ Holds(c, k) /\ ~Modified(c, k) => View(c, m, k) = m[k]

\* The line holds x, and it is modified if the cache has it.
Wrote(c, m, k, x) ==
  /\ View(c, m, k) = x
  /\ Holds(c, k) => Modified(c, k)

LEMMA QuietGood ==
  ASSUME NEW c, NEW m, NEW d, NEW n, NEW k, Quiet(c, m, d, n, k)
  PROVE  /\ \A x : Good(c, m, k, x) => Good(d, n, k, x)
         /\ Modified(d, k) => Modified(c, k)
  BY DEF Quiet, Kept, Evicted, Filled, Good, View, Modified

LEMMA WroteGood ==
  ASSUME NEW c, NEW m, NEW k, NEW x, Wrote(c, m, k, x)
  PROVE  Good(c, m, k, x)
  BY DEF Wrote, Good

\* The copy into a line, or past it when the slot is pinned.
LEMMA PutOK ==
  ASSUME NEW c, CacheOK(c), NEW m, MemOK(m), NEW l \in Lines,
         NEW w \in Words, NEW v \in Values
  PROVE  LET s == Put(c, m, l, w, v)
         IN /\ CacheOK(s.lines) /\ MemOK(s.mem)
            /\ \A k \in Lines \ {l} : Kept(c, m, s.lines, s.mem, k)
            /\ Wrote(s.lines, s.mem, l, [View(c, m, l) EXCEPT ![w] = v])
            /\ Holds(s.lines, l) <=> Holds(c, l)
            /\ Locked(s.lines, l) <=> Locked(c, l)
            /\ s.mem[l] = IF Holds(c, l) THEN m[l] ELSE View(s.lines, s.mem, l)
  <1> DEFINE s == Put(c, m, l, w, v)
             i == Index(l)
  <1>1. i \in Slots
    BY IndexInSlots
  <1>2. CASE Holds(c, l)
    <2> DEFINE d == [c EXCEPT ![i].data[w] = v, ![i].dirty = TRUE]
    <2>1. s = [lines |-> d, mem |-> m]
      BY <1>2 DEF Put
    <2>2. /\ d \in [Slots -> CacheLine]
          /\ d[i].tag = c[i].tag /\ d[i].valid = c[i].valid
          /\ d[i].locked = c[i].locked /\ d[i].dirty
          /\ d[i].data = [c[i].data EXCEPT ![w] = v]
          /\ \A j \in Slots \ {i} : d[j] = c[j]
      BY <1>1 DEF CacheOK, CacheLine, Data
    <2> HIDE DEF d, s, i
    <2>3. CacheOK(d)
      BY <1>1, <1>2, <2>2 DEF CacheOK, WellPlaced, Holds, i
    <2>4. ASSUME NEW k \in Lines \ {l} PROVE Kept(c, m, d, m, k)
      <3>1. Index(k) \in Slots
        BY IndexInSlots
      <3>2. CASE Index(k) = i
        BY <1>2, <2>2, <3>2 DEF Kept, Holds, Modified, Locked, View, i
      <3>3. CASE Index(k) # i
        BY <2>2, <3>1, <3>3 DEF Kept, Holds, Modified, Locked, View
      <3>4. QED
        BY <3>2, <3>3
    <2>5. /\ Wrote(d, m, l, [View(c, m, l) EXCEPT ![w] = v])
          /\ Holds(d, l) /\ (Locked(d, l) <=> Locked(c, l))
      BY <1>2, <2>2 DEF Wrote, Holds, Modified, Locked, View, i
    <2>6. QED
      BY <1>2, <2>1, <2>3, <2>4, <2>5 DEF s
  <1>3. CASE ~Holds(c, l)
    <2> DEFINE n == [m EXCEPT ![l][w] = v]
    <2>1. s = [lines |-> c, mem |-> n]
      BY <1>3 DEF Put
    <2>2. /\ MemOK(n) /\ n[l] = [m[l] EXCEPT ![w] = v]
          /\ \A k \in Lines \ {l} : n[k] = m[k]
      BY DEF MemOK, Data
    <2> HIDE DEF n, s
    <2>3. \A k \in Lines \ {l} : Kept(c, m, c, n, k)
      BY <2>2 DEF Kept, View
    <2>4. /\ Wrote(c, n, l, [View(c, m, l) EXCEPT ![w] = v])
          /\ n[l] = View(c, n, l)
      BY <1>3, <2>2 DEF Wrote, View
    <2>5. QED
      BY <1>3, <2>1, <2>2, <2>3, <2>4 DEF s
  <1>4. QED
    BY <1>2, <1>3

\* ppcemu_dcache_zero_line
LEMMA ZeroFillOK ==
  ASSUME NEW c, CacheOK(c), NEW m, MemOK(m), NEW l \in Lines
  PROVE  LET s == ZeroFill(c, m, l)
         IN /\ CacheOK(s.lines) /\ MemOK(s.mem)
            /\ \A k \in Lines \ {l} : Quiet(c, m, s.lines, s.mem, k)
            /\ Wrote(s.lines, s.mem, l, ZeroLine)
            /\ Locked(s.lines, l) <=> Locked(c, l)
            /\ ~Pinned(c, l) => Holds(s.lines, l) /\ s.mem[l] = m[l]
            /\ Pinned(c, l) => ~Holds(s.lines, l) /\ s.mem[l] = ZeroLine
  <1> DEFINE s == ZeroFill(c, m, l)
             i == Index(l)
  <1>1. i \in Slots
    BY IndexInSlots
  <1>2. CASE Pinned(c, l)
    <2> DEFINE n == [m EXCEPT ![l] = ZeroLine]
    <2>1. s = [lines |-> c, mem |-> n] /\ ~Holds(c, l)
      BY <1>2 DEF ZeroFill, Pinned, Holds
    <2>2. MemOK(n) /\ n[l] = ZeroLine /\ \A k \in Lines \ {l} : n[k] = m[k]
      BY ZeroLineIsData DEF MemOK
    <2> HIDE DEF n, s
    <2>3. \A k \in Lines \ {l} : Quiet(c, m, c, n, k)
      BY <2>2 DEF Quiet, Kept, View
    <2>4. Wrote(c, n, l, ZeroLine)
      BY <2>1, <2>2 DEF Wrote, View
    <2>5. QED
      BY <1>2, <2>1, <2>2, <2>3, <2>4 DEF s
  <1>3. CASE ~Pinned(c, l)
    <2> DEFINE n == IF Holds(c, l) THEN m ELSE Pushed(c, m, i)
               x == [tag |-> l, valid |-> TRUE, dirty |-> TRUE,
                     locked |-> c[i].locked, data |-> ZeroLine]
               d == [c EXCEPT ![i] = x]
    <2>1. s = [lines |-> d, mem |-> n]
      BY <1>3 DEF ZeroFill
    <2>2. /\ d \in [Slots -> CacheLine]
          /\ d[i].tag = l /\ d[i].valid /\ d[i].dirty
          /\ d[i].locked = c[i].locked /\ d[i].data = ZeroLine
          /\ \A j \in Slots \ {i} : d[j] = c[j]
      BY <1>1, ZeroLineIsData DEF CacheOK, CacheLine
    <2>3. /\ CacheOK(d) /\ MemOK(n) /\ n[l] = m[l]
          /\ \A k \in Lines \ {l} : Quiet(c, m, d, n, k)
      <3>1. CASE Holds(c, l)
        <4> HIDE DEF d
        <4>1. CacheOK(d)
          BY <1>1, <2>2, <3>1 DEF CacheOK, WellPlaced
        <4>2. ASSUME NEW k \in Lines \ {l} PROVE Kept(c, m, d, m, k)
          <5>1. Index(k) \in Slots
            BY IndexInSlots
          <5>2. QED
            BY <2>2, <3>1, <5>1 DEF Kept, Holds, Modified, Locked, View
        <4>3. QED
          BY <3>1, <4>1, <4>2 DEF Quiet
      <3>2. CASE ~Holds(c, l)
        <4>1. n = Pushed(c, m, Index(l))
          BY <3>2
        <4> HIDE DEF d, n
        <4>2. QED
          BY <1>3, <2>2, <3>2, <4>1, TakeOver
      <3>3. QED
        BY <3>1, <3>2
    <2> HIDE DEF d, n, s
    <2>4. Wrote(d, n, l, ZeroLine) /\ Holds(d, l)
      BY <2>2 DEF Wrote, Holds, Modified, View
    <2>5. Locked(d, l) <=> Locked(c, l)
      BY <1>1, <1>3, <2>2 DEF Holds, Locked, Pinned, CacheOK, WellPlaced
    <2>6. QED
      BY <1>3, <2>1, <2>3, <2>4, <2>5 DEF s
  <1>4. QED
    BY <1>2, <1>3

\* ppcemu_dcache_zero_line_locked, when the slot is not pinned.
LEMMA ZeroLockOK ==
  ASSUME NEW c, CacheOK(c), NEW m, MemOK(m), NEW l \in Lines, ~Pinned(c, l)
  PROVE  LET s == ZeroLock(c, m, l)
         IN /\ CacheOK(s.lines) /\ MemOK(s.mem)
            /\ \A k \in Lines \ {l} : Quiet(c, m, s.lines, s.mem, k)
            /\ Wrote(s.lines, s.mem, l, ZeroLine)
            /\ Locked(s.lines, l) /\ Holds(s.lines, l) /\ s.mem[l] = m[l]
  <1> DEFINE z == ZeroFill(c, m, l)
             i == Index(l)
             d == [z.lines EXCEPT ![i].locked = TRUE]
             n == z.mem
  <1>1. i \in Slots
    BY IndexInSlots
  <1>2. /\ CacheOK(z.lines) /\ MemOK(n)
        /\ \A k \in Lines \ {l} : Quiet(c, m, z.lines, n, k)
        /\ Wrote(z.lines, n, l, ZeroLine)
        /\ Holds(z.lines, l) /\ n[l] = m[l]
    BY ZeroFillOK
  <1>3. ZeroLock(c, m, l) = [lines |-> d, mem |-> n]
    BY DEF ZeroLock
  <1> HIDE DEF z
  <1>4. /\ d \in [Slots -> CacheLine]
        /\ d[i].tag = z.lines[i].tag /\ d[i].valid = z.lines[i].valid
        /\ d[i].dirty = z.lines[i].dirty /\ d[i].locked
        /\ d[i].data = z.lines[i].data
        /\ \A j \in Slots \ {i} : d[j] = z.lines[j]
    BY <1>1, <1>2 DEF CacheOK, CacheLine
  <1> HIDE DEF d, n
  <1>5. CacheOK(d)
    <2>1. d \in [Slots -> CacheLine]
      BY <1>4
    <2>2. ASSUME NEW j \in Slots
          PROVE  /\ d[j].valid => Index(d[j].tag) = j
                 /\ d[j].dirty => d[j].valid
                 /\ d[j].locked => d[j].valid
      <3>1. /\ z.lines[j].valid => Index(z.lines[j].tag) = j
            /\ z.lines[j].dirty => z.lines[j].valid
            /\ z.lines[j].locked => z.lines[j].valid
        BY <1>2 DEF CacheOK, WellPlaced
      <3>2. CASE j = i
        <4>1. z.lines[i].valid
          BY <1>2 DEF Holds
        <4> QED
          BY <1>4, <3>1, <3>2, <4>1
      <3>3. CASE j # i
        BY <1>4, <3>1, <3>3
      <3> QED
        BY <3>2, <3>3
    <2> QED
      BY <2>1, <2>2 DEF CacheOK, WellPlaced
  <1>6. ASSUME NEW k \in Lines \ {l} PROVE Quiet(c, m, d, n, k)
    <2>1. Index(k) \in Slots /\ Quiet(c, m, z.lines, n, k)
      BY <1>2, IndexInSlots
    <2>2. Kept(z.lines, n, d, n, k)
      <3>1. CASE Index(k) = i
        BY <1>2, <1>4, <3>1 DEF Kept, Holds, Modified, Locked, View
      <3>2. CASE Index(k) # i
        BY <1>4, <2>1, <3>2 DEF Kept, Holds, Modified, Locked, View
      <3>3. QED
        BY <3>1, <3>2
    <2>3. QED
      BY <2>1, <2>2 DEF Quiet, Kept, Evicted, Filled
  <1>7. Wrote(d, n, l, ZeroLine) /\ Locked(d, l) /\ Holds(d, l)
    BY <1>2, <1>4 DEF Wrote, Holds, Modified, Locked, View
  <1>8. QED
    BY <1>2, <1>3, <1>5, <1>6, <1>7

\* ppcemu_dcache_writeback_line
LEMMA CleanOK ==
  ASSUME NEW c, CacheOK(c), NEW m, MemOK(m), NEW l \in Lines
  PROVE  LET s == Clean(c, m, l)
         IN /\ CacheOK(s.lines) /\ MemOK(s.mem)
            /\ \A k \in Lines \ {l} : Kept(c, m, s.lines, s.mem, k)
            /\ Holds(s.lines, l) <=> Holds(c, l)
            /\ Locked(s.lines, l) <=> Locked(c, l)
            /\ ~Modified(s.lines, l)
            /\ View(s.lines, s.mem, l) = View(c, m, l)
            /\ s.mem[l] = IF Modified(c, l) THEN View(c, m, l) ELSE m[l]
  <1> DEFINE s == Clean(c, m, l)
             i == Index(l)
  <1>1. i \in Slots
    BY IndexInSlots
  <1>2. CASE ~Modified(c, l)
    BY <1>2 DEF Clean, Kept
  <1>3. CASE Modified(c, l)
    <2> DEFINE d == [c EXCEPT ![i].dirty = FALSE]
               n == [m EXCEPT ![l] = c[i].data]
    <2>1. s = [lines |-> d, mem |-> n]
      BY <1>3 DEF Clean
    <2>2. /\ d \in [Slots -> CacheLine]
          /\ d[i].tag = c[i].tag /\ d[i].valid = c[i].valid
          /\ ~d[i].dirty /\ d[i].locked = c[i].locked /\ d[i].data = c[i].data
          /\ \A j \in Slots \ {i} : d[j] = c[j]
      BY <1>1 DEF CacheOK, CacheLine
    <2>3. MemOK(n) /\ n[l] = c[i].data /\ \A k \in Lines \ {l} : n[k] = m[k]
      BY <1>1 DEF CacheOK, MemOK, CacheLine
    <2> HIDE DEF d, n, s
    <2>4. CacheOK(d)
      BY <1>1, <2>2 DEF CacheOK, WellPlaced
    <2>5. ASSUME NEW k \in Lines \ {l} PROVE Kept(c, m, d, n, k)
      <3>1. Index(k) \in Slots
        BY IndexInSlots
      <3>2. CASE Index(k) = i
        BY <1>3, <2>2, <2>3, <3>2 DEF Kept, Holds, Modified, Locked, View
      <3>3. CASE Index(k) # i
        BY <2>2, <2>3, <3>1, <3>3 DEF Kept, Holds, Modified, Locked, View
      <3>4. QED
        BY <3>2, <3>3
    <2>6. /\ Holds(d, l) /\ Holds(c, l) /\ ~Modified(d, l)
          /\ Locked(d, l) <=> Locked(c, l)
          /\ View(d, n, l) = View(c, m, l) /\ n[l] = View(c, m, l)
      BY <1>3, <2>2, <2>3 DEF Holds, Modified, Locked, View
    <2>7. QED
      BY <1>3, <2>1, <2>3, <2>4, <2>5, <2>6 DEF s
  <1>4. QED
    BY <1>2, <1>3

\* ppcemu_dcache_invalidate_line, whatever happens to line l of memory.
LEMMA DropOK ==
  ASSUME NEW c, CacheOK(c), NEW m, NEW n, NEW l \in Lines,
         \A k \in Lines \ {l} : n[k] = m[k]
  PROVE  LET d == Drop(c, l)
         IN /\ CacheOK(d) /\ ~Holds(d, l)
            /\ \A k \in Lines \ {l} : Kept(c, m, d, n, k)
  <1> DEFINE d == Drop(c, l)
             i == Index(l)
  <1>1. i \in Slots
    BY IndexInSlots
  <1>2. CASE ~Holds(c, l)
    BY <1>2 DEF Drop, Kept, View
  <1>3. CASE Holds(c, l)
    <2>1. /\ d \in [Slots -> CacheLine]
          /\ d[i].tag = c[i].tag /\ ~d[i].valid /\ ~d[i].dirty /\ ~d[i].locked
          /\ \A j \in Slots \ {i} : d[j] = c[j]
      BY <1>1, <1>3 DEF Drop, CacheOK, CacheLine
    <2> HIDE DEF d
    <2>2. CacheOK(d)
      BY <1>1, <2>1 DEF CacheOK, WellPlaced
    <2>3. ~Holds(d, l)
      BY <2>1 DEF Holds
    <2>4. ASSUME NEW k \in Lines \ {l} PROVE Kept(c, m, d, n, k)
      <3>1. Index(k) \in Slots
        BY IndexInSlots
      <3>2. CASE Index(k) = i
        BY <1>3, <2>1, <3>2 DEF Kept, Holds, Modified, Locked, View
      <3>3. CASE Index(k) # i
        BY <2>1, <3>1, <3>3 DEF Kept, Holds, Modified, Locked, View
      <3>4. QED
        BY <3>2, <3>3
    <2>5. QED
      BY <2>2, <2>3, <2>4 DEF d
  <1>4. QED
    BY <1>2, <1>3

\* writeback_all and invalidate_all
LEMMA FlushAllOK ==
  ASSUME NEW c, CacheOK(c), NEW m, MemOK(m)
  PROVE  /\ CacheOK(DroppedAll(c)) /\ MemOK(PushedAll(c, m))
         /\ \A k \in Lines :
              /\ ~Holds(DroppedAll(c), k)
              /\ PushedAll(c, m)[k] = IF Modified(c, k) THEN View(c, m, k) ELSE m[k]
  <1>1. \A k \in Lines : Index(k) \in Slots
    BY IndexInSlots
  <1>2. CacheOK(DroppedAll(c))
    BY DEF CacheOK, WellPlaced, DroppedAll, CacheLine
  <1>3. MemOK(PushedAll(c, m))
    BY <1>1 DEF CacheOK, MemOK, PushedAll, CacheLine
  <1>4. ASSUME NEW k \in Lines PROVE ~Holds(DroppedAll(c), k)
    BY <1>1 DEF Holds, DroppedAll, CacheOK, CacheLine
  <1>5. ASSUME NEW k \in Lines
        PROVE  PushedAll(c, m)[k] = IF Modified(c, k) THEN View(c, m, k) ELSE m[k]
    BY <1>1 DEF PushedAll, Modified, Holds, View, CacheOK, WellPlaced
  <1>6. QED
    BY <1>2, <1>3, <1>4, <1>5

\* ppcemu_dcache_snoop over the lines S
LEMMA SnoopOK ==
  ASSUME NEW c, CacheOK(c), NEW m, MemOK(m), NEW op, NEW S
  PROVE  LET d == SnoopedLines(c, S)
             n == SnoopedMem(c, m, op, S)
         IN /\ CacheOK(d) /\ MemOK(n)
            /\ \A k \in Lines : ~SnoopHits(c, S, k) => Kept(c, m, d, n, k)
            /\ \A k \in Lines : SnoopHits(c, S, k) =>
                 /\ Holds(c, k) /\ ~Locked(c, k) /\ ~Holds(d, k)
                 /\ n[k] = IF Modified(c, k) /\ op # "KILL" THEN View(c, m, k) ELSE m[k]
  <1> DEFINE d == SnoopedLines(c, S)
             n == SnoopedMem(c, m, op, S)
  <1>1. \A k \in Lines : Index(k) \in Slots
    BY IndexInSlots
  <1>2. CacheOK(d)
    BY DEF CacheOK, WellPlaced, SnoopedLines, CacheLine
  <1>3. MemOK(n)
    BY <1>1 DEF CacheOK, MemOK, SnoopedMem, CacheLine
  <1>4. ASSUME NEW k \in Lines
        PROVE  n[k] = IF op # "KILL" /\ SnoopHits(c, S, k) /\ c[Index(k)].dirty
                      THEN c[Index(k)].data ELSE m[k]
    BY DEF SnoopedMem
  <1>5. ASSUME NEW k \in Lines
        PROVE  d[Index(k)] = IF /\ c[Index(k)].valid /\ c[Index(k)].tag \in S
                                /\ ~c[Index(k)].locked
                             THEN [c[Index(k)] EXCEPT !.valid = FALSE, !.dirty = FALSE]
                             ELSE c[Index(k)]
    BY <1>1 DEF SnoopedLines
  <1>6. ASSUME NEW k \in Lines, ~SnoopHits(c, S, k) PROVE Kept(c, m, d, n, k)
    <2>1. c[Index(k)] \in CacheLine
      BY <1>1 DEF CacheOK
    <2>2. n[k] = m[k]
      BY <1>4, <1>6
    <2>3. CASE Holds(c, k)
      <3>1. d[Index(k)] = c[Index(k)]
        BY <1>5, <1>6, <2>3 DEF SnoopHits, Holds
      <3> HIDE DEF d, n
      <3>2. QED
        BY <2>2, <3>1 DEF Kept, Holds, Modified, Locked, View
    <2>4. CASE ~Holds(c, k)
      <3>1. ~Holds(d, k)
        BY <1>5, <2>1, <2>4 DEF Holds, CacheLine
      <3> HIDE DEF d, n
      <3>2. QED
        BY <2>2, <2>4, <3>1 DEF Kept, Modified, Locked, View
    <2>5. QED
      BY <2>3, <2>4
  <1>7. ASSUME NEW k \in Lines, SnoopHits(c, S, k)
        PROVE  /\ Holds(c, k) /\ ~Locked(c, k) /\ ~Holds(d, k)
               /\ n[k] = IF Modified(c, k) /\ op # "KILL" THEN View(c, m, k) ELSE m[k]
    <2>1. c[Index(k)] \in CacheLine
      BY <1>1 DEF CacheOK
    <2>2. Holds(c, k) /\ ~Locked(c, k)
      BY <1>7 DEF SnoopHits, Locked
    <2>3. ~Holds(d, k)
      BY <1>5, <1>7, <2>1 DEF SnoopHits, Holds, CacheLine
    <2>4. QED
      BY <1>4, <1>7, <2>2, <2>3 DEF SnoopHits, Modified, View
  <1>8. QED
    BY <1>2, <1>3, <1>6, <1>7

-----------------------------------------------------------------------------
(* The inductive invariant.  That the processor reads what the program     *)
(* expects is not inductive: an eviction keeps it only if clean lines      *)
(* match memory, and a write-back all only if dirty implies valid.         *)

IInv ==
  /\ TypeOK
  /\ WellFormed
  /\ \A k \in Lines \ missed : Good(lines, mem, k, expected[k])
  /\ \A k \in Lines : Modified(lines, k) => k \in pending

LEMMA IInvGivesOK == IInv => CacheOK(lines) /\ MemOK(mem)
  BY DEF IInv, TypeOK, WellFormed, HomeSlot, DirtyValid, LockedValid, CacheOK,
         MemOK, WellPlaced

(***************************************************************************)
(* A step keeps the invariant if what it leaves in every line is what the  *)
(* program expects there (e), and nothing outside p is modified.           *)
(***************************************************************************)
LEMMA RecordKeepsIInv ==
  ASSUME IInv, CacheOK(lines'), MemOK(mem'),
         reg' \in Values \X Values, power' \in PowerStates,
         NEW e \in [Lines -> Data], NEW p \in SUBSET Lines, Record(e, p),
         \A k \in Lines \ missed : Good(lines', mem', k, e[k]),
         \A k \in Lines : Modified(lines', k) => k \in p
  PROVE  IInv'
  <1>1. missed' \subseteq Lines /\ pending' \subseteq Lines
    BY DEF IInv, TypeOK, Record
  <1>2. expected' \in [Lines -> Data]
    BY DEF Record, MemOK
  <1>3. TypeOK'
    BY <1>1, <1>2 DEF TypeOK, CacheOK, MemOK
  <1>4. WellFormed'
    BY DEF WellFormed, HomeSlot, DirtyValid, LockedValid, CacheOK, WellPlaced
  <1>5. ASSUME NEW k \in Lines \ missed' PROVE Good(lines', mem', k, expected'[k])
    <2>1. CASE k \notin missed
      BY <2>1 DEF Record
    <2>2. CASE k \in missed
      <3>1. expected'[k] = mem'[k] /\ ~Holds(lines', k)
        BY <2>2 DEF Record
      <3>2. QED
        BY <3>1 DEF Good, View
    <2>3. QED
      BY <2>1, <2>2
  <1>6. \A k \in Lines : Modified(lines', k) => k \in pending'
    BY DEF Record
  <1>7. QED
    BY <1>3, <1>4, <1>5, <1>6 DEF IInv

\* A step that asks nothing of any line.
LEMMA QuietKeepsIInv ==
  ASSUME IInv, CacheOK(lines'), MemOK(mem'),
         reg' \in Values \X Values, power' \in PowerStates,
         Record(expected, pending),
         \A k \in Lines : Quiet(lines, mem, lines', mem', k)
  PROVE  IInv'
  <1>1. expected \in [Lines -> Data] /\ pending \in SUBSET Lines
    BY DEF IInv, TypeOK
  <1>2. \A k \in Lines \ missed : Good(lines', mem', k, expected[k])
    BY QuietGood DEF IInv
  <1>3. \A k \in Lines : Modified(lines', k) => k \in pending
    BY QuietGood DEF IInv
  <1>4. QED
    BY <1>1, <1>2, <1>3, RecordKeepsIInv

\* The processor writes block x to line l.
LEMMA WriteKeepsIInv ==
  ASSUME IInv, CacheOK(lines'), MemOK(mem'),
         reg' \in Values \X Values, power' \in PowerStates,
         NEW l \in Lines, NEW x \in Data,
         Record([expected EXCEPT ![l] = x], pending \cup {l}),
         \A k \in Lines \ {l} : Quiet(lines, mem, lines', mem', k),
         l \notin missed => Good(lines', mem', l, x)
  PROVE  IInv'
  <1> DEFINE e == [expected EXCEPT ![l] = x]
  <1>1. /\ e \in [Lines -> Data] /\ pending \cup {l} \in SUBSET Lines
        /\ e[l] = x /\ \A k \in Lines \ {l} : e[k] = expected[k]
    BY DEF IInv, TypeOK
  <1> HIDE DEF e
  <1>2. ASSUME NEW k \in Lines \ missed PROVE Good(lines', mem', k, e[k])
    BY <1>1, QuietGood DEF IInv
  <1>3. \A k \in Lines : Modified(lines', k) => k \in pending \cup {l}
    BY QuietGood DEF IInv
  <1>4. Record(e, pending \cup {l})
    BY DEF e
  <1>5. QED
    BY <1>1, <1>2, <1>3, <1>4, RecordKeepsIInv

-----------------------------------------------------------------------------
(* One lemma per group of actions.                                         *)

LEMMA InitIInv == Init => IInv
  <1> SUFFICES ASSUME Init PROVE IInv
    OBVIOUS
  <1>1. EmptySlot \in CacheLine /\ ~EmptySlot.valid /\ ~EmptySlot.dirty /\ ~EmptySlot.locked
    BY ZeroIsLine, ZeroLineIsData DEF EmptySlot, CacheLine
  <1>2. \A i \in Slots : lines[i] = EmptySlot
    BY DEF Init
  <1>3. TypeOK
    BY <1>1, ZeroLineIsData, DataAssumption DEF Init, TypeOK, PowerStates
  <1>4. WellFormed
    BY <1>1, <1>2 DEF WellFormed, HomeSlot, DirtyValid, LockedValid
  <1>5. \A k \in Lines : ~Holds(lines, k)
    BY <1>1, <1>2, IndexInSlots DEF Holds
  <1>6. QED
    BY <1>3, <1>4, <1>5 DEF IInv, Good, View, Modified, Init

LEMMA LoadKeepsIInv ==
  ASSUME IInv, NEW l \in Lines, NEW w \in Words, Load(l, w) \/ Dcbt(l)
  PROVE  IInv'
  <1> DEFINE s == Fill(lines, mem, l)
  <1>1. /\ CacheOK(s.lines) /\ MemOK(s.mem)
        /\ \A k \in Lines : Quiet(lines, mem, s.lines, s.mem, k)
    BY IInvGivesOK, FillOK
  <1>2. View(s.lines, s.mem, l)[w] \in Values
    BY <1>1, ViewIsData DEF Data
  <1>3. /\ lines' = s.lines /\ mem' = s.mem
        /\ power' \in PowerStates /\ reg' \in Values \X Values
        /\ Record(expected, pending)
    BY <1>2, DataAssumption DEF Load, Dcbt, Does, PowerStates, IInv, TypeOK
  <1> HIDE DEF s
  <1>4. QED
    BY <1>1, <1>3, QuietKeepsIInv

\* Both halves of a split access are looked up, one after the other.
LEMMA FillTwiceOK ==
  ASSUME IInv, NEW l \in Lines
  PROVE  LET s1 == Fill(lines, mem, l)
             s2 == Fill(s1.lines, s1.mem, NextLine(l))
         IN /\ CacheOK(s2.lines) /\ MemOK(s2.mem)
            /\ \A k \in Lines \ missed : Good(s2.lines, s2.mem, k, expected[k])
            /\ \A k \in Lines : Modified(s2.lines, k) => k \in pending
  <1> DEFINE s1 == Fill(lines, mem, l)
             s2 == Fill(s1.lines, s1.mem, NextLine(l))
  <1>1. /\ CacheOK(s1.lines) /\ MemOK(s1.mem)
        /\ \A k \in Lines : Quiet(lines, mem, s1.lines, s1.mem, k)
    BY IInvGivesOK, FillOK
  <1>2. /\ \A k \in Lines \ missed : Good(s1.lines, s1.mem, k, expected[k])
        /\ \A k \in Lines : Modified(s1.lines, k) => k \in pending
    <2> HIDE DEF s1
    <2>1. QED
      BY <1>1, QuietGood DEF IInv
  <1> HIDE DEF s1
  <1>3. /\ CacheOK(s2.lines) /\ MemOK(s2.mem)
        /\ \A k \in Lines : Quiet(s1.lines, s1.mem, s2.lines, s2.mem, k)
    BY <1>1, NextInLines, FillOK
  <1> HIDE DEF s2
  <1>4. /\ \A k \in Lines \ missed : Good(s2.lines, s2.mem, k, expected[k])
        /\ \A k \in Lines : Modified(s2.lines, k) => k \in pending
    BY <1>2, <1>3, QuietGood
  <1>5. QED
    BY <1>3, <1>4 DEF s1, s2

LEMMA LoadSplitKeepsIInv ==
  ASSUME IInv, NEW l \in Lines, LoadSplit(l)
  PROVE  IInv'
  <1> DEFINE n == NextLine(l)
             s1 == Fill(lines, mem, l)
             s2 == Fill(s1.lines, s1.mem, n)
  <1>1. /\ CacheOK(s2.lines) /\ MemOK(s2.mem)
        /\ \A k \in Lines \ missed : Good(s2.lines, s2.mem, k, expected[k])
        /\ \A k \in Lines : Modified(s2.lines, k) => k \in pending
    BY FillTwiceOK
  <1>2. n \in Lines
    BY NextInLines
  <1>3. /\ View(s2.lines, s2.mem, l)[NWords - 1] \in Values
        /\ View(s2.lines, s2.mem, n)[0] \in Values
    <2> HIDE DEF s2, n
    <2>1. QED
      BY <1>1, <1>2, ViewIsData, LastWordIsWord DEF Data
  <1>4. /\ lines' = s2.lines /\ mem' = s2.mem /\ power' \in PowerStates
        /\ reg' = <<View(s2.lines, s2.mem, l)[NWords - 1], View(s2.lines, s2.mem, n)[0]>>
        /\ Record(expected, pending)
    BY DEF LoadSplit, Does, PowerStates
  <1> HIDE DEF s2, n
  <1>5. reg' \in Values \X Values
    BY <1>3, <1>4
  <1>6. expected \in [Lines -> Data] /\ pending \in SUBSET Lines
    BY DEF IInv, TypeOK
  <1>7. QED
    BY <1>1, <1>4, <1>5, <1>6, RecordKeepsIInv

LEMMA StoreKeepsIInv ==
  ASSUME IInv, NEW l \in Lines, NEW w \in Words, NEW v \in Values, Store(l, w, v)
  PROVE  IInv'
  <1> DEFINE s == Fill(lines, mem, l)
             t == Put(s.lines, s.mem, l, w, v)
             x == [expected[l] EXCEPT ![w] = v]
             e == [expected EXCEPT ![l] = x]
  <1>1. /\ CacheOK(s.lines) /\ MemOK(s.mem)
        /\ \A k \in Lines : Quiet(lines, mem, s.lines, s.mem, k)
        /\ View(s.lines, s.mem, l) = View(lines, mem, l)
    BY IInvGivesOK, FillOK
  <1>2. /\ lines' = t.lines /\ mem' = t.mem /\ power' \in PowerStates
        /\ reg' \in Values \X Values /\ Record(e, pending \cup {l})
    BY DEF Store, Does, PowerStates, IInv, TypeOK
  <1> HIDE DEF s
  <1>3. /\ CacheOK(t.lines) /\ MemOK(t.mem)
        /\ \A k \in Lines \ {l} : Kept(s.lines, s.mem, t.lines, t.mem, k)
        /\ Wrote(t.lines, t.mem, l, [View(s.lines, s.mem, l) EXCEPT ![w] = v])
    BY <1>1, PutOK
  <1> HIDE DEF t
  <1>4. \A k \in Lines \ {l} : Quiet(lines, mem, t.lines, t.mem, k)
    BY <1>1, <1>3 DEF Quiet, Kept, Evicted, Filled
  <1>5. x \in Data
    BY DEF IInv, TypeOK, Data
  <1>6. l \notin missed => Good(t.lines, t.mem, l, x)
    BY <1>1, <1>3, WroteGood DEF IInv, Good
  <1> HIDE DEF x
  <1>7. QED
    BY <1>2, <1>3, <1>4, <1>5, <1>6, WriteKeepsIInv

LEMMA StoreSplitKeepsIInv ==
  ASSUME IInv, NEW l \in Lines, NEW v1 \in Values, NEW v2 \in Values,
         StoreSplit(l, v1, v2)
  PROVE  IInv'
  <1> DEFINE n == NextLine(l)
             s1 == Fill(lines, mem, l)
             s2 == Fill(s1.lines, s1.mem, n)
             s3 == Put(s2.lines, s2.mem, l, NWords - 1, v1)
             s4 == Put(s3.lines, s3.mem, n, 0, v2)
             e1 == [expected EXCEPT ![l][NWords - 1] = v1]
             e2 == [expected EXCEPT ![l][NWords - 1] = v1, ![n][0] = v2]
  <1>1. n \in Lines /\ 0 \in Words /\ NWords - 1 \in Words
    BY NextInLines, LastWordIsWord
  <1>2. /\ lines' = s4.lines /\ mem' = s4.mem /\ power' \in PowerStates
        /\ reg' \in Values \X Values /\ Record(e2, pending \cup {l, n})
    BY DEF StoreSplit, Does, PowerStates, IInv, TypeOK
  <1>3. /\ CacheOK(s2.lines) /\ MemOK(s2.mem)
        /\ \A k \in Lines \ missed : Good(s2.lines, s2.mem, k, expected[k])
        /\ \A k \in Lines : Modified(s2.lines, k) => k \in pending
    BY FillTwiceOK
  <1> HIDE DEF s2
  <1>4. /\ CacheOK(s3.lines) /\ MemOK(s3.mem)
        /\ \A k \in Lines \ {l} : Kept(s2.lines, s2.mem, s3.lines, s3.mem, k)
        /\ Wrote(s3.lines, s3.mem, l, [View(s2.lines, s2.mem, l) EXCEPT ![NWords - 1] = v1])
    BY <1>1, <1>3, PutOK
  <1> HIDE DEF s3
  <1>5. /\ CacheOK(s4.lines) /\ MemOK(s4.mem)
        /\ \A k \in Lines \ {n} : Kept(s3.lines, s3.mem, s4.lines, s4.mem, k)
        /\ Wrote(s4.lines, s4.mem, n, [View(s3.lines, s3.mem, n) EXCEPT ![0] = v2])
    BY <1>1, <1>4, PutOK
  <1> HIDE DEF s4
  <1>6. expected \in [Lines -> Data] /\ pending \subseteq Lines
    BY DEF IInv, TypeOK
  <1>7. /\ e1 \in [Lines -> Data] /\ e1[l] = [expected[l] EXCEPT ![NWords - 1] = v1]
        /\ \A k \in Lines \ {l} : e1[k] = expected[k]
    BY <1>1, <1>6 DEF Data
  <1>8. e2 = [e1 EXCEPT ![n][0] = v2]
    OBVIOUS
  <1> HIDE DEF e1, e2
  <1>9. /\ e2 \in [Lines -> Data] /\ e2[n] = [e1[n] EXCEPT ![0] = v2]
        /\ \A k \in Lines \ {n} : e2[k] = e1[k]
    BY <1>1, <1>7, <1>8 DEF Data
  <1> HIDE DEF n
  <1>10. /\ \A k \in Lines \ missed : Good(s3.lines, s3.mem, k, e1[k])
         /\ \A k \in Lines : Modified(s3.lines, k) => k \in pending \cup {l}
    <2>1. ASSUME NEW k \in Lines \ missed, k # l PROVE Good(s3.lines, s3.mem, k, e1[k])
      BY <1>3, <1>4, <1>7, <2>1, QuietGood DEF Quiet
    <2>2. l \notin missed => Good(s3.lines, s3.mem, l, e1[l])
      BY <1>3, <1>4, <1>7, WroteGood DEF Good
    <2>3. QED
      BY <1>3, <1>4, <2>1, <2>2 DEF Kept
  <1>11. /\ \A k \in Lines \ missed : Good(s4.lines, s4.mem, k, e2[k])
         /\ \A k \in Lines : Modified(s4.lines, k) => k \in pending \cup {l, n}
    <2>1. ASSUME NEW k \in Lines \ missed, k # n PROVE Good(s4.lines, s4.mem, k, e2[k])
      BY <1>5, <1>9, <1>10, <2>1, QuietGood DEF Quiet
    <2>2. n \notin missed => Good(s4.lines, s4.mem, n, e2[n])
      BY <1>1, <1>5, <1>9, <1>10, WroteGood DEF Good
    <2>3. QED
      BY <1>5, <1>10, <2>1, <2>2 DEF Kept
  <1>12. pending \cup {l, n} \in SUBSET Lines
    BY <1>1, <1>6
  <1>13. QED
    BY <1>2, <1>5, <1>9, <1>11, <1>12, RecordKeepsIInv

LEMMA ZeroKeepsIInv ==
  ASSUME IInv, NEW l \in Lines, Dcbz(l) \/ DcbzL(l)
  PROVE  IInv'
  <1>1. CacheOK(lines) /\ MemOK(mem)
    BY IInvGivesOK
  <1>2. /\ power' \in PowerStates /\ reg' \in Values \X Values
        /\ expected \in [Lines -> Data] /\ pending \in SUBSET Lines
    BY DEF Dcbz, DcbzL, Does, PowerStates, IInv, TypeOK
  <1>3. CASE Dcbz(l)
    <2> DEFINE s == ZeroFill(lines, mem, l)
    <2>1. /\ CacheOK(s.lines) /\ MemOK(s.mem)
          /\ \A k \in Lines \ {l} : Quiet(lines, mem, s.lines, s.mem, k)
          /\ Wrote(s.lines, s.mem, l, ZeroLine)
      BY <1>1, ZeroFillOK
    <2>2. /\ lines' = s.lines /\ mem' = s.mem
          /\ Record([expected EXCEPT ![l] = ZeroLine], pending \cup {l})
      BY <1>3 DEF Dcbz, Does
    <2> HIDE DEF s
    <2>3. QED
      BY <1>2, <2>1, <2>2, ZeroLineIsData, WroteGood, WriteKeepsIInv
  <1>4. CASE DcbzL(l) /\ ~Pinned(lines, l)
    <2> DEFINE s == ZeroLock(lines, mem, l)
    <2>1. /\ CacheOK(s.lines) /\ MemOK(s.mem)
          /\ \A k \in Lines \ {l} : Quiet(lines, mem, s.lines, s.mem, k)
          /\ Wrote(s.lines, s.mem, l, ZeroLine)
      BY <1>1, <1>4, ZeroLockOK
    <2>2. /\ lines' = s.lines /\ mem' = s.mem
          /\ Record([expected EXCEPT ![l] = ZeroLine], pending \cup {l})
      BY <1>4 DEF DcbzL, Does
    <2> HIDE DEF s
    <2>3. QED
      BY <1>2, <2>1, <2>2, ZeroLineIsData, WroteGood, WriteKeepsIInv
  <1>5. CASE DcbzL(l) /\ Pinned(lines, l)
    <2>1. lines' = lines /\ mem' = mem /\ Record(expected, pending \cup {l})
      BY <1>5 DEF DcbzL, Does, ZeroLock
    <2>2. /\ \A k \in Lines \ missed : Good(lines', mem', k, expected[k])
          /\ \A k \in Lines : Modified(lines', k) => k \in pending \cup {l}
      BY <2>1 DEF IInv
    <2>3. CacheOK(lines') /\ MemOK(mem') /\ pending \cup {l} \in SUBSET Lines
      BY <1>1, <1>2, <2>1
    <2>4. QED
      BY <1>2, <2>1, <2>2, <2>3, RecordKeepsIInv
  <1>6. QED
    BY <1>3, <1>4, <1>5

LEMMA SyncKeepsIInv ==
  ASSUME IInv, NEW l \in Lines, Dcbst(l) \/ Dcbf(l) \/ Dcbi(l)
  PROVE  IInv'
  <1>1. CacheOK(lines) /\ MemOK(mem)
    BY IInvGivesOK
  <1>2. /\ power' \in PowerStates /\ reg' \in Values \X Values
        /\ expected \in [Lines -> Data] /\ pending \ {l} \in SUBSET Lines
    BY DEF Dcbst, Dcbf, Dcbi, Does, PowerStates, IInv, TypeOK
  <1> DEFINE s == Clean(lines, mem, l)
  <1>3. /\ CacheOK(s.lines) /\ MemOK(s.mem)
        /\ \A k \in Lines \ {l} : Kept(lines, mem, s.lines, s.mem, k)
        /\ ~Modified(s.lines, l)
        /\ View(s.lines, s.mem, l) = View(lines, mem, l)
        /\ s.mem[l] = IF Modified(lines, l) THEN View(lines, mem, l) ELSE mem[l]
    BY <1>1, CleanOK
  <1>4. CASE Dcbst(l)
    <2>1. lines' = s.lines /\ mem' = s.mem /\ Record(expected, pending \ {l})
      BY <1>4 DEF Dcbst, Does
    <2> HIDE DEF s
    <2>2. ASSUME NEW k \in Lines \ missed PROVE Good(lines', mem', k, expected[k])
      <3>1. CASE k # l
        BY <1>3, <2>1, <3>1, QuietGood DEF Quiet, IInv
      <3>2. CASE k = l
        BY <1>3, <2>1, <3>2 DEF IInv, Good, View
      <3>3. QED
        BY <3>1, <3>2
    <2>3. \A k \in Lines : Modified(lines', k) => k \in pending \ {l}
      BY <1>3, <2>1 DEF Kept, IInv
    <2>4. QED
      BY <1>2, <1>3, <2>1, <2>2, <2>3, RecordKeepsIInv
  <1>5. CASE Dcbf(l)
    <2> DEFINE d == Drop(lines, l)
               n == s.mem
    <2>1. lines' = d /\ mem' = n /\ Record(expected, pending \ {l})
      BY <1>5 DEF Dcbf, Does
    <2>2. \A k \in Lines \ {l} : n[k] = mem[k]
      BY <1>3 DEF Kept
    <2> HIDE DEF s
    <2>3. CacheOK(d) /\ ~Holds(d, l) /\ \A k \in Lines \ {l} : Kept(lines, mem, d, n, k)
      <3> HIDE DEF n
      <3>1. QED
        BY <1>1, <2>2, DropOK
    <2> HIDE DEF d
    <2>4. ASSUME NEW k \in Lines \ missed PROVE Good(d, n, k, expected[k])
      <3>1. CASE k # l
        BY <2>3, <3>1, QuietGood DEF Quiet, IInv
      <3>2. CASE k = l
        BY <1>3, <2>3, <3>2 DEF IInv, Good, View
      <3>3. QED
        BY <3>1, <3>2
    <2>5. \A k \in Lines : Modified(d, k) => k \in pending \ {l}
      BY <2>3 DEF Kept, Modified, IInv
    <2>6. QED
      BY <1>2, <1>3, <2>1, <2>3, <2>4, <2>5, RecordKeepsIInv
  <1>6. CASE Dcbi(l)
    <2> DEFINE d == Drop(lines, l)
               e == [expected EXCEPT ![l] = mem[l]]
    <2>1. lines' = d /\ mem' = mem /\ Record(e, pending \ {l})
      BY <1>6 DEF Dcbi, Does
    <2>2. CacheOK(d) /\ ~Holds(d, l) /\ \A k \in Lines \ {l} : Kept(lines, mem, d, mem, k)
      BY <1>1, DropOK
    <2>3. /\ e \in [Lines -> Data] /\ e[l] = mem[l]
          /\ \A k \in Lines \ {l} : e[k] = expected[k]
      BY <1>1, <1>2 DEF MemOK
    <2> HIDE DEF d, e
    <2>4. ASSUME NEW k \in Lines \ missed PROVE Good(d, mem, k, e[k])
      <3>1. CASE k # l
        BY <2>2, <2>3, <3>1, QuietGood DEF Quiet, IInv
      <3>2. CASE k = l
        BY <2>2, <2>3, <3>2 DEF Good, View
      <3>3. QED
        BY <3>1, <3>2
    <2>5. \A k \in Lines : Modified(d, k) => k \in pending \ {l}
      BY <2>2 DEF Kept, Modified, IInv
    <2>6. QED
      BY <1>1, <1>2, <2>1, <2>2, <2>3, <2>4, <2>5, RecordKeepsIInv
  <1>7. QED
    BY <1>4, <1>5, <1>6

LEMMA FlushAllKeepsIInv == ASSUME IInv, FlushAll PROVE IInv'
  <1> DEFINE d == DroppedAll(lines)
             n == PushedAll(lines, mem)
  <1>1. /\ CacheOK(d) /\ MemOK(n)
        /\ \A k \in Lines :
             /\ ~Holds(d, k)
             /\ n[k] = IF Modified(lines, k) THEN View(lines, mem, k) ELSE mem[k]
    BY IInvGivesOK, FlushAllOK
  <1>2. /\ lines' = d /\ mem' = n /\ Record(expected, {})
        /\ power' \in PowerStates /\ reg' \in Values \X Values
        /\ expected \in [Lines -> Data]
    BY DEF FlushAll, PowerStates, IInv, TypeOK
  <1> HIDE DEF d, n
  <1>3. \A k \in Lines \ missed : Good(d, n, k, expected[k])
    BY <1>1 DEF IInv, Good, View
  <1>4. \A k \in Lines : ~Modified(d, k)
    BY <1>1 DEF Modified
  <1>5. QED
    BY <1>1, <1>2, <1>3, <1>4, RecordKeepsIInv

LEMMA ResetKeepsIInv == ASSUME IInv, Reset PROVE IInv'
  <1>1. /\ EmptySlot \in CacheLine /\ ~EmptySlot.valid /\ ~EmptySlot.dirty
        /\ ~EmptySlot.locked
    BY ZeroIsLine, ZeroLineIsData DEF EmptySlot, CacheLine
  <1>2. /\ lines' = [i \in Slots |-> EmptySlot] /\ mem' = mem /\ Record(mem, {})
        /\ power' \in PowerStates /\ reg' \in Values \X Values
        /\ mem \in [Lines -> Data]
    BY DataAssumption DEF Reset, PowerStates, IInv, TypeOK
  <1>3. CacheOK(lines') /\ MemOK(mem')
    BY <1>1, <1>2 DEF CacheOK, WellPlaced, MemOK
  <1>4. \A k \in Lines : ~Holds(lines', k)
    BY <1>1, <1>2, IndexInSlots DEF Holds
  <1>5. \A k \in Lines : Good(lines', mem', k, mem[k]) /\ ~Modified(lines', k)
    BY <1>2, <1>4 DEF Good, View, Modified
  <1>6. QED
    BY <1>2, <1>3, <1>5, RecordKeepsIInv

LEMMA SnoopKeepsIInv ==
  ASSUME IInv, NEW op, NEW a, NEW n, Snoop(op, a, n)
  PROVE  IInv'
  <1> DEFINE S == IF power \in {"NAP", "SLEEP"} \/ n = 0 THEN {} ELSE SnoopWalk(a, n)
             hit == {l \in S : SnoopHits(lines, S, l)}
             e == [l \in Lines |-> IF op = "KILL" /\ l \in hit THEN mem[l] ELSE expected[l]]
  <1>1. /\ lines' = SnoopedLines(lines, S) /\ mem' = SnoopedMem(lines, mem, op, S)
        /\ Record(e, pending \ hit)
        /\ power' \in PowerStates /\ reg' \in Values \X Values
    BY DEF Snoop, IInv, TypeOK
  <1>2. \A l \in Lines : l \in hit <=> SnoopHits(lines, S, l)
    BY DEF SnoopHits
  <1>3. /\ e \in [Lines -> Data] /\ pending \ hit \in SUBSET Lines
        /\ \A l \in Lines : e[l] = IF op = "KILL" /\ l \in hit THEN mem[l] ELSE expected[l]
    BY DEF IInv, TypeOK
  <1> HIDE DEF S, hit, e
  <1>4. /\ CacheOK(lines') /\ MemOK(mem')
        /\ \A k \in Lines : ~SnoopHits(lines, S, k) => Kept(lines, mem, lines', mem', k)
        /\ \A k \in Lines : SnoopHits(lines, S, k) =>
             /\ Holds(lines, k) /\ ~Locked(lines, k) /\ ~Holds(lines', k)
             /\ mem'[k] = IF Modified(lines, k) /\ op # "KILL"
                          THEN View(lines, mem, k) ELSE mem[k]
    BY <1>1, IInvGivesOK, SnoopOK
  <1>5. ASSUME NEW k \in Lines \ missed PROVE Good(lines', mem', k, e[k])
    <2>1. CASE SnoopHits(lines, S, k)
      BY <1>2, <1>3, <1>4, <2>1 DEF IInv, Good, View
    <2>2. CASE ~SnoopHits(lines, S, k)
      BY <1>2, <1>3, <1>4, <2>2, QuietGood DEF IInv, Quiet
    <2>3. QED
      BY <2>1, <2>2
  <1>6. \A k \in Lines : Modified(lines', k) => k \in pending \ hit
    BY <1>2, <1>4 DEF Modified, Kept, IInv
  <1>7. QED
    BY <1>1, <1>3, <1>4, <1>5, <1>6, RecordKeepsIInv

LEMMA BusWriteKeepsIInv ==
  ASSUME IInv, NEW l \in Lines, NEW w \in Words, NEW v \in Values, BusWrite(l, w, v)
  PROVE  IInv'
  <1>1. lines' = lines /\ pending' = pending /\ reg' = reg /\ power' = power
    BY DEF BusWrite
  <1>2. /\ mem' \in [Lines -> Data] /\ mem'[l] = [mem[l] EXCEPT ![w] = v]
        /\ \A k \in Lines \ {l} : mem'[k] = mem[k]
    BY DEF BusWrite, IInv, TypeOK, Data
  <1>3. CASE Holds(lines, l)
    <2>1. missed' = missed \cup {l} /\ expected' = expected
      BY <1>3 DEF BusWrite
    <2>2. TypeOK'
      BY <1>1, <1>2, <2>1 DEF IInv, TypeOK
    <2>3. \A k \in Lines \ missed' : Good(lines', mem', k, expected'[k])
      BY <1>1, <1>2, <2>1 DEF IInv, Good, View
    <2>4. QED
      BY <1>1, <2>2, <2>3 DEF IInv, WellFormed, HomeSlot, DirtyValid, LockedValid
  <1>4. CASE ~Holds(lines, l)
    <2>1. missed' = missed /\ expected' = [expected EXCEPT ![l][w] = v]
      BY <1>4 DEF BusWrite
    <2>2. /\ expected' \in [Lines -> Data]
          /\ expected'[l] = [expected[l] EXCEPT ![w] = v]
          /\ \A k \in Lines \ {l} : expected'[k] = expected[k]
      BY <2>1 DEF IInv, TypeOK, Data
    <2>3. TypeOK'
      BY <1>1, <1>2, <2>1, <2>2 DEF IInv, TypeOK
    <2>4. \A k \in Lines \ missed' : Good(lines', mem', k, expected'[k])
      BY <1>1, <1>2, <1>4, <2>1, <2>2 DEF IInv, Good, View
    <2>5. QED
      BY <1>1, <2>3, <2>4 DEF IInv, WellFormed, HomeSlot, DirtyValid, LockedValid
  <1>5. QED
    BY <1>3, <1>4

\* Steps that leave the cache, the memory and the history alone.
LEMMA AloneKeepsIInv ==
  ASSUME IInv, UNCHANGED <<lines, mem, history>>,
         reg' \in Values \X Values, power' \in PowerStates
  PROVE  IInv'
  BY DEF IInv, TypeOK, history, WellFormed, HomeSlot, DirtyValid, LockedValid

LEMMA NextIInv == IInv /\ [Next]_vars => IInv'
  <1> SUFFICES ASSUME IInv, [Next]_vars PROVE IInv'
    OBVIOUS
  <1>1. \A l \in Touched : l \in Lines
    BY DataAssumption DEF Lines
  <1>2. TypeOK
    BY DEF IInv
  <1>3. ASSUME NEW l \in Touched, NEW w \in Words, Load(l, w) PROVE IInv'
    BY <1>1, <1>3, LoadKeepsIInv
  <1>4. ASSUME NEW l \in Touched, LoadSplit(l) PROVE IInv'
    BY <1>1, <1>4, LoadSplitKeepsIInv
  <1>5. ASSUME NEW l \in Touched, Dcbt(l) PROVE IInv'
    BY <1>1, <1>5, LastWordIsWord, LoadKeepsIInv
  <1>6. ASSUME NEW l \in Touched, NEW w \in Words, NEW v \in Values, Store(l, w, v)
        PROVE  IInv'
    BY <1>1, <1>6, StoreKeepsIInv
  <1>7. ASSUME NEW l \in Touched, NEW v1 \in Values, NEW v2 \in Values,
               StoreSplit(l, v1, v2)
        PROVE  IInv'
    BY <1>1, <1>7, StoreSplitKeepsIInv
  <1>8. ASSUME NEW l \in Touched, Dcbz(l) \/ DcbzL(l) PROVE IInv'
    BY <1>1, <1>8, ZeroKeepsIInv
  <1>9. ASSUME NEW l \in Touched, Dcbst(l) \/ Dcbf(l) \/ Dcbi(l) PROVE IInv'
    BY <1>1, <1>9, SyncKeepsIInv
  <1>10. CASE FlushAll
    BY <1>10, FlushAllKeepsIInv
  <1>11. CASE Reset
    BY <1>11, ResetKeepsIInv
  <1>12. ASSUME NEW l \in Touched, NEW w \in Words, UncachedLoad(l, w) PROVE IInv'
    <2>1. mem[l][w] \in Values
      BY <1>1, <1>2 DEF TypeOK, Data
    <2>2. QED
      BY <1>2, <1>12, <2>1, DataAssumption, AloneKeepsIInv DEF UncachedLoad, TypeOK
  <1>13. ASSUME NEW l \in Touched, NEW w \in Words, NEW v \in Values, BusWrite(l, w, v)
         PROVE  IInv'
    BY <1>1, <1>13, BusWriteKeepsIInv
  <1>14. ASSUME NEW op, NEW a, NEW n, Snoop(op, a, n) PROVE IInv'
    BY <1>14, SnoopKeepsIInv
  <1>15. CASE Sleep \/ Wake
    BY <1>2, <1>15, DataAssumption, AloneKeepsIInv DEF Sleep, Wake, TypeOK, PowerStates
  <1>16. CASE UNCHANGED vars
    BY <1>2, <1>16, AloneKeepsIInv DEF vars, TypeOK
  <1>17. QED
    BY <1>3, <1>4, <1>5, <1>6, <1>7, <1>8, <1>9, <1>10, <1>11, <1>12, <1>13,
       <1>14, <1>15, <1>16 DEF Next

-----------------------------------------------------------------------------
(* The theorems.                                                           *)

THEOREM Invariance == Spec => []IInv
  BY InitIInv, NextIInv, PTL DEF Spec

(***************************************************************************)
(* Every variable keeps its type, for every geometry.                      *)
(***************************************************************************)
THEOREM TypeCorrect == Spec => []TypeOK
  <1>1. IInv => TypeOK
    BY DEF IInv
  <1>2. QED
    BY <1>1, Invariance, PTL

(***************************************************************************)
(* A valid line is in its own slot; dirty and locked imply valid, on which *)
(* writeback_all and zero_line rely.                                       *)
(***************************************************************************)
THEOREM CacheWellFormed == Spec => []WellFormed
  <1>1. IInv => WellFormed
    BY DEF IInv
  <1>2. QED
    BY <1>1, Invariance, PTL

(***************************************************************************)
(* The processor reads what the program last wrote, through any sequence   *)
(* of evictions, bypasses, write-backs, snoops and flushes.                *)
(***************************************************************************)
THEOREM ProgramOrder == Spec => []ProgramView
  <1>1. IInv => ProgramView
    BY DEF IInv, ProgramView, Good
  <1>2. QED
    BY <1>1, Invariance, PTL

(***************************************************************************)
(* Memory is up to date wherever the program does not have writes that it  *)
(* has not asked to be pushed.                                             *)
(***************************************************************************)
THEOREM MemoryUpToDate == Spec => []MemoryView
  <1>1. IInv => MemoryView
    BY DEF IInv, MemoryView, Good, View, Modified
  <1>2. QED
    BY <1>1, Invariance, PTL

(***************************************************************************)
(* A clean line equals memory, so that evicting it unwritten is safe.      *)
(***************************************************************************)
THEOREM CleanLines == Spec => []CleanMatchesMemory
  <1>1. IInv => CleanMatchesMemory
    BY DEF IInv, CleanMatchesMemory, Good
  <1>2. QED
    BY <1>1, Invariance, PTL

-----------------------------------------------------------------------------
(* Granules and the lines they are in.                                     *)

LEMMA Rising ==
  ASSUME NEW w \in Nat, NEW p \in Nat, NEW q \in Nat, p < q
  PROVE  p * w + w <= q * w
<1>1. PICK d \in Nat : q = p + 1 + d
  <2>1. q - p - 1 \in Nat /\ q = p + 1 + (q - p - 1)
    OBVIOUS
  <2> QED
    BY <2>1
<1>2. q * w = p * w + w + d * w
  BY <1>1
<1>3. d * w \in Nat /\ p * w \in Nat
  OBVIOUS
<1> QED
  BY <1>2, <1>3

LEMMA LineOf ==
  ASSUME NEW w \in Nat \ {0}, NEW x \in Nat
  PROVE  x \div w \in Nat /\ (x \div w) * w <= x /\ x < (x \div w) * w + w
  OBVIOUS

LEMMA OnlyLine ==
  ASSUME NEW w \in Nat \ {0}, NEW x \in Nat, NEW q \in Nat,
         q * w <= x, x < q * w + w
  PROVE  x \div w = q
<1> DEFINE r == x \div w
<1>1. r \in Nat /\ r * w <= x /\ x < r * w + w
  BY LineOf
<1> HIDE DEF r
<1>2. r * w \in Nat /\ q * w \in Nat
  BY <1>1
<1>3. ~ (r < q)
  BY <1>1, <1>2, Rising
<1>4. ~ (q < r)
  BY <1>1, <1>2, Rising
<1>5. r = q
  BY <1>1, <1>3, <1>4
<1> QED
  BY <1>5 DEF r

LEMMA WalkIsOverlap ==
  ASSUME NEW a \in 0 .. SpaceSize - 1, NEW n \in 1 .. SpaceSize, SnoopRange(a, n)
  PROVE  SnoopWalk(a, n) = Overlap(a, n)
<1> DEFINE z == a + n - 1
           first == a \div NWords
           last  == z \div NWords
<1>1. /\ NWords \in Nat \ {0} /\ NLines \in Nat /\ NLines > 0
      /\ SpaceSize = NLines * NWords /\ SpaceSize \in Nat
  <2>1. NWords \in Nat \ {0} /\ NLines \in Nat /\ NLines > 0
    BY GeometryAssumption
  <2>2. NLines * NWords \in Nat
    BY <2>1
  <2> QED
    BY <2>1, <2>2 DEF SpaceSize
<1>2. a \in Nat /\ n \in Nat /\ n > 0 /\ z \in Nat /\ a <= z /\ z < SpaceSize
  BY <1>1 DEF SnoopRange
<1>3. first \in Nat /\ first * NWords <= a /\ a < first * NWords + NWords
  BY <1>1, <1>2, LineOf
<1>4. last \in Nat /\ last * NWords <= z /\ z < last * NWords + NWords
  <2> HIDE DEF z
  <2> QED
    BY <1>1, <1>2, LineOf
<1>5. SnoopWalk(a, n) = {(first + i) % NLines : i \in 0 .. (last - first) % NLines}
  <2>1. z % SpaceSize = z
    BY <1>1, <1>2
  <2> QED
    BY <2>1 DEF SnoopWalk
<1>6. Overlap(a, n) = {(a + i) \div NWords : i \in 0 .. n - 1}
  <2>1. \A i \in 0 .. n - 1 : (a + i) % SpaceSize = a + i
    BY <1>1, <1>2
  <2> QED
    BY <2>1 DEF Overlap
<1>7. first <= last
  <2> HIDE DEF first, last, z
  <2>1. ASSUME last < first PROVE FALSE
    <3>1. last * NWords + NWords <= first * NWords
      BY <1>1, <1>3, <1>4, <2>1, Rising
    <3>2. last * NWords \in Nat /\ first * NWords \in Nat
      BY <1>1, <1>3, <1>4
    <3> QED
      BY <1>1, <1>2, <1>3, <1>4, <3>1, <3>2
  <2> QED
    BY <1>3, <1>4, <2>1
<1>8. last < NLines
  <2> HIDE DEF first, last, z
  <2>1. ASSUME NLines <= last PROVE FALSE
    <3>1. NLines * NWords <= last * NWords
      <4>1. CASE NLines = last
        BY <4>1, <1>1
      <4>2. CASE NLines < last
        <5>1. NLines * NWords + NWords <= last * NWords
          BY <1>1, <1>4, <4>2, Rising
        <5>2. last * NWords \in Nat
          BY <1>1, <1>4
        <5> QED
          BY <1>1, <5>1, <5>2
      <4> QED
        BY <1>1, <1>4, <2>1, <4>1, <4>2
    <3>2. last * NWords \in Nat
      BY <1>1, <1>4
    <3> QED
      BY <1>1, <1>2, <1>4, <3>1, <3>2
  <2> QED
    BY <1>1, <1>4, <2>1
<1>9. SnoopWalk(a, n) = first .. last
  <2> HIDE DEF first, last, z
  <2>1. (last - first) % NLines = last - first
    BY <1>1, <1>3, <1>4, <1>7, <1>8
  <2>2. \A i \in 0 .. last - first : (first + i) % NLines = first + i
    BY <1>1, <1>3, <1>4, <1>7, <1>8
  <2>3. \A k \in first .. last : k - first \in 0 .. last - first /\ k = first + (k - first)
    BY <1>3, <1>4
  <2>4. SnoopWalk(a, n) = {first + i : i \in 0 .. last - first}
    BY <1>5, <2>1, <2>2
  <2>5. \A i \in 0 .. last - first : first + i \in first .. last
    BY <1>3, <1>4
  <2> QED
    BY <2>3, <2>4, <2>5
<1>10. \A i \in 0 .. n - 1 : (a + i) \div NWords \in first .. last
  <2> SUFFICES ASSUME NEW i \in 0 .. n - 1
               PROVE  (a + i) \div NWords \in first .. last
    OBVIOUS
  <2> DEFINE k == (a + i) \div NWords
  <2>1. a + i \in Nat /\ a <= a + i /\ a + i <= z
    BY <1>2
  <2>2. k \in Nat /\ k * NWords <= a + i /\ a + i < k * NWords + NWords
    BY <1>1, <2>1, LineOf
  <2> HIDE DEF first, last, z, k
  <2>3. k * NWords \in Nat /\ first * NWords \in Nat /\ last * NWords \in Nat
    BY <1>1, <1>3, <1>4, <2>2
  <2>4. ~ (k < first)
    BY <1>1, <1>2, <1>3, <2>1, <2>2, <2>3, Rising
  <2>5. ~ (last < k)
    BY <1>1, <1>2, <1>4, <2>1, <2>2, <2>3, Rising
  <2>6. k \in first .. last
    BY <1>3, <1>4, <2>2, <2>4, <2>5
  <2> QED
    BY <2>6 DEF k
<1>11. \A k \in first .. last : \E i \in 0 .. n - 1 : (a + i) \div NWords = k
  <2> SUFFICES ASSUME NEW k \in first .. last
               PROVE  \E i \in 0 .. n - 1 : (a + i) \div NWords = k
    OBVIOUS
  <2>1. CASE k = first
    <3>1. 0 \in 0 .. n - 1 /\ (a + 0) \div NWords = k
      BY <1>2, <2>1
    <3> QED
      BY <3>1
  <2>2. CASE k # first
    <3> HIDE DEF first, last, z
    <3>1. k \in Nat /\ first < k /\ k <= last
      BY <1>3, <1>4, <2>2
    <3>2. first * NWords + NWords <= k * NWords
      BY <1>1, <1>3, <3>1, Rising
    <3>3. k * NWords <= last * NWords
      <4>1. k < last => k * NWords + NWords <= last * NWords
        BY <1>1, <1>4, <3>1, Rising
      <4>2. last * NWords \in Nat /\ k * NWords \in Nat
        BY <1>1, <1>4, <3>1
      <4> QED
        BY <1>1, <1>4, <3>1, <4>1, <4>2
    <3>4. k * NWords \in Nat /\ first * NWords \in Nat /\ last * NWords \in Nat
      BY <1>1, <1>3, <1>4, <3>1
    <3>5. PICK x \in Nat : x = k * NWords
      BY <3>4
    <3>6. a < x /\ x <= z
      BY <1>1, <1>2, <1>3, <1>4, <3>2, <3>3, <3>4, <3>5
    <3>7. x - a \in 0 .. n - 1 /\ a + (x - a) = x
      BY <1>2, <3>6 DEF z
    <3>8. x \div NWords = k
      BY <1>1, <3>1, <3>5, OnlyLine
    <3> QED
      BY <3>7, <3>8
  <2> QED
    BY <2>1, <2>2
<1>12. Overlap(a, n) = first .. last
  <2> HIDE DEF first, last, z
  <2> QED
    BY <1>6, <1>10, <1>11
<1> QED
  BY <1>9, <1>12

(***************************************************************************)
(* A snoop of any range takes exactly the lines that the range overlaps,   *)
(* whatever its alignment and the size of a line, and leaves locked ones.  *)
(***************************************************************************)
THEOREM SnoopTakesOverlap == Spec => []SnoopExact
<1>1. IInv => SnoopExact
  <2> SUFFICES ASSUME IInv,
                      NEW a \in 0 .. SpaceSize - 1, NEW n \in 1 .. SpaceSize,
                      SnoopRange(a, n), NEW l \in Lines
               PROVE  Holds(SnoopedLines(lines, SnoopWalk(a, n)), l) <=>
                        Holds(lines, l) /\ (l \in Overlap(a, n) => Locked(lines, l))
    BY DEF SnoopExact
  <2>1. Index(l) \in Slots /\ lines \in [Slots -> CacheLine]
    BY IndexInSlots DEF IInv, TypeOK
  <2>2. PICK S : S = Overlap(a, n) /\ S = SnoopWalk(a, n)
    BY WalkIsOverlap
  <2>3. Holds(SnoopedLines(lines, S), l) <=> Holds(lines, l) /\ (l \in S => Locked(lines, l))
    BY <2>1 DEF Holds, Locked, SnoopedLines, CacheLine
  <2> QED
    BY <2>2, <2>3
<1> QED
  BY <1>1, Invariance, PTL

-----------------------------------------------------------------------------
(***************************************************************************)
(* The cache implements the memory of CpuMemory: every step of it is an    *)
(* operation of that memory, or a stutter, and what it does to the other   *)
(* lines is in the background.                                             *)
(***************************************************************************)
(* From the line relations of DataCacheProofs to those of CpuMemory.       *)

LEMMA MemoryLines == Memory!Lines = Lines /\ Memory!Words = Words
  BY DEF Memory!Lines, Lines, Memory!Words, Words

LEMMA KeptIsSame ==
  ASSUME NEW k \in Lines, Kept(lines, mem, lines', mem', k)
  PROVE  Memory!Same(k)
  BY DEF Memory!Same, Kept

LEMMA QuietIsBackground ==
  ASSUME NEW k \in Lines, Quiet(lines, mem, lines', mem', k)
  PROVE  Memory!Background(k)
  <1>1. CASE Kept(lines, mem, lines', mem', k)
    BY <1>1, KeptIsSame DEF Memory!Background
  <1>2. CASE Evicted(lines, mem, lines', mem', k)
    BY <1>2 DEF Evicted, Memory!Background, Memory!WriteBack, Memory!Reload,
                View, Modified, Locked
  <1>3. CASE Filled(lines, mem, lines', mem', k)
    BY <1>3 DEF Filled, Memory!Background, Memory!Reload, View, Modified, Locked
  <1>4. QED
    BY <1>1, <1>2, <1>3 DEF Quiet

-----------------------------------------------------------------------------
(* cache_get_line touches one slot, and the line asked for stays put.      *)

Seen(c, m, d, n, k) == Kept(c, m, d, n, k) \/ Filled(c, m, d, n, k)

LEMMA SeenFacts ==
  ASSUME NEW c, NEW m, NEW d, NEW n, NEW k, Seen(c, m, d, n, k)
  PROVE  /\ n[k] = m[k] /\ View(d, n, k) = View(c, m, k)
         /\ Locked(d, k) <=> Locked(c, k)
         /\ Modified(d, k) <=> Modified(c, k)
         /\ Holds(c, k) => Holds(d, k)
         /\ Quiet(c, m, d, n, k)
  BY DEF Seen, Kept, Filled, Quiet, View, Modified, Locked

LEMMA FillLocal ==
  ASSUME NEW c, CacheOK(c), NEW m, MemOK(m), NEW l \in Lines
  PROVE  LET s == Fill(c, m, l)
         IN /\ Seen(c, m, s.lines, s.mem, l)
            /\ \A k \in Lines : Index(k) # Index(l) => Kept(c, m, s.lines, s.mem, k)
  <1> DEFINE s == Fill(c, m, l)
  <1>1. Index(l) \in Slots /\ \A k \in Lines : Index(k) \in Slots
    BY IndexInSlots
  <1>2. CASE Holds(c, l) \/ Pinned(c, l)
    BY <1>2 DEF Fill, Seen, Kept
  <1>3. CASE ~(Holds(c, l) \/ Pinned(c, l))
    <2> DEFINE n == Pushed(c, m, Index(l))
               x == [tag |-> l, valid |-> TRUE, dirty |-> FALSE,
                     locked |-> FALSE, data |-> n[l]]
               d == [c EXCEPT ![Index(l)] = x]
    <2>1. s = [lines |-> d, mem |-> n]
      BY <1>3 DEF Fill
    <2>2. \A k \in Lines : n[k] = IF /\ c[Index(l)].valid /\ c[Index(l)].dirty
                                     /\ c[Index(l)].tag = k
                                  THEN c[Index(l)].data ELSE m[k]
      BY <1>1, PushedOK
    <2>3. /\ d[Index(l)] = x
          /\ \A i \in Slots \ {Index(l)} : d[i] = c[i]
      BY <1>1 DEF CacheOK
    <2>4. /\ d[Index(l)].valid /\ d[Index(l)].tag = l /\ ~d[Index(l)].dirty
          /\ ~d[Index(l)].locked /\ d[Index(l)].data = n[l]
      BY <2>3
    <2> HIDE DEF n, d, s
    <2>5. Filled(c, m, d, n, l)
      BY <1>3, <2>2, <2>4 DEF Filled, Holds, Modified, Locked, View
    <2>6. ASSUME NEW k \in Lines, Index(k) # Index(l) PROVE Kept(c, m, d, n, k)
      <3>1. d[Index(k)] = c[Index(k)]
        BY <1>1, <2>3, <2>6
      <3>2. n[k] = m[k]
        BY <1>1, <2>2, <2>6 DEF CacheOK, WellPlaced
      <3>3. QED
        BY <3>1, <3>2 DEF Kept, Holds, Modified, Locked, View
    <2>7. /\ Seen(c, m, d, n, l)
          /\ \A k \in Lines : Index(k) # Index(l) => Kept(c, m, d, n, k)
      BY <2>5, <2>6 DEF Seen
    <2>8. s.lines = d /\ s.mem = n
      BY <2>1
    <2>9. QED
      BY <2>7, <2>8 DEF s
  <1>4. QED
    BY <1>2, <1>3

\* The two lines of a split access never compete for a slot.
LEMMA SplitSlots == ASSUME NEW l \in Lines PROVE Index(NextLine(l)) # Index(l)
  <1>1. /\ NSlots \in Nat /\ NSlots >= 2 /\ NLines \in Nat /\ NLines >= NSlots
        /\ NLines % NSlots = 0 /\ l \in 0 .. NLines - 1
    BY GeometryAssumption DEF Lines
  <1>2. ASSUME NEW a \in Nat PROVE (a + 1) % NSlots # a % NSlots
    <2> DEFINE q == a \div NSlots
               p == (a + 1) \div NSlots
    <2>1. /\ q \in Int /\ p \in Int
          /\ a = (NSlots * q) + (a % NSlots)
          /\ a + 1 = (NSlots * p) + ((a + 1) % NSlots)
      BY <1>1
    <2>2. SUFFICES ASSUME (a + 1) % NSlots = a % NSlots PROVE FALSE
      OBVIOUS
    <2> HIDE DEF p, q
    <2>3. a % NSlots \in Int
      BY <1>1
    <2>4. NSlots * p - NSlots * q = 1
      BY <1>1, <2>1, <2>2, <2>3
    <2>5. NSlots * (p - q) = 1
      BY <1>1, <2>1, <2>4
    <2>6. CASE p - q >= 1
      <3>1. NSlots * (p - q) >= NSlots
        BY <1>1, <2>1, <2>6
      <3>2. QED
        BY <1>1, <2>5, <3>1
    <2>7. CASE p - q <= 0
      <3>1. NSlots * (p - q) <= 0
        BY <1>1, <2>1, <2>7
      <3>2. QED
        BY <2>5, <3>1
    <2>8. QED
      BY <2>1, <2>6, <2>7
  <1>3. CASE l + 1 < NLines
    <2>1. (l + 1) % NLines = l + 1
      BY <1>1, <1>3
    <2>2. QED
      BY <1>1, <1>2, <2>1 DEF Index, NextLine
  <1>4. CASE l + 1 = NLines
    <2>1. (l + 1) % NLines = 0 /\ 0 % NSlots = 0
      BY <1>1, <1>4
    <2>2. (l + 1) % NSlots = 0
      BY <1>1, <1>4
    <2>3. l % NSlots # 0
      BY <1>1, <1>2, <2>2
    <2>4. QED
      BY <2>1, <2>3 DEF Index, NextLine
  <1>5. QED
    BY <1>1, <1>3, <1>4

-----------------------------------------------------------------------------
(* One lemma per action.                                                   *)

LEMMA LoadImplements ==
  ASSUME IInv, NEW l \in Lines, NEW w \in Words, Load(l, w)
  PROVE  Memory!Load(l, w)
  <1> DEFINE s == Fill(lines, mem, l)
  <1>1. CacheOK(lines) /\ MemOK(mem)
    BY IInvGivesOK
  <1>2. /\ \A k \in Lines : Quiet(lines, mem, s.lines, s.mem, k)
        /\ View(s.lines, s.mem, l) = View(lines, mem, l)
    BY <1>1, FillOK
  <1>3. lines' = s.lines /\ mem' = s.mem /\ reg' = <<View(s.lines, s.mem, l)[w], Zero>>
    BY DEF Load, Does
  <1> HIDE DEF s
  <1>4. \A k \in Lines : Memory!Background(k)
    BY <1>2, <1>3, QuietIsBackground
  <1>5. reg' = <<View(lines, mem, l)[w], Zero>> /\ View(lines', mem', l) = View(lines, mem, l)
    BY <1>2, <1>3
  <1>6. QED
    BY <1>4, <1>5, MemoryLines DEF Memory!Load, Memory!Others

\* dcbt shows as the background work it causes: a load without a register.
LEMMA DcbtImplements ==
  ASSUME IInv, NEW l \in Lines, Dcbt(l)
  PROVE  Memory!Prefetch
  <1> DEFINE s == Fill(lines, mem, l)
  <1>1. CacheOK(lines) /\ MemOK(mem)
    BY IInvGivesOK
  <1>2. \A k \in Lines : Quiet(lines, mem, s.lines, s.mem, k)
    BY <1>1, FillOK
  <1>3. lines' = s.lines /\ mem' = s.mem /\ reg' = reg
    BY DEF Dcbt, Does
  <1> HIDE DEF s
  <1>4. \A k \in Lines : Memory!Background(k)
    BY <1>2, <1>3, QuietIsBackground
  <1>5. QED
    BY <1>3, <1>4, MemoryLines DEF Memory!Prefetch, Memory!Others

\* Looking both lines of a split access up disturbs neither of them.
LEMMA FillTwiceLocal ==
  ASSUME NEW c, CacheOK(c), NEW m, MemOK(m), NEW l \in Lines
  PROVE  LET n == NextLine(l)
             s1 == Fill(c, m, l)
             s2 == Fill(s1.lines, s1.mem, n)
         IN /\ CacheOK(s2.lines) /\ MemOK(s2.mem)
            /\ \A k \in Lines : Quiet(c, m, s2.lines, s2.mem, k)
            /\ Seen(c, m, s2.lines, s2.mem, l)
            /\ Seen(c, m, s2.lines, s2.mem, n)
  <1> DEFINE n == NextLine(l)
             s1 == Fill(c, m, l)
             s2 == Fill(s1.lines, s1.mem, n)
  <1>1. n \in Lines /\ Index(n) # Index(l)
    BY NextInLines, SplitSlots
  <1>2. /\ CacheOK(s1.lines) /\ MemOK(s1.mem)
        /\ \A k \in Lines : Quiet(c, m, s1.lines, s1.mem, k)
        /\ Seen(c, m, s1.lines, s1.mem, l)
        /\ \A k \in Lines : Index(k) # Index(l) => Kept(c, m, s1.lines, s1.mem, k)
    BY FillOK, FillLocal
  <1> HIDE DEF s1, n
  <1>3. /\ CacheOK(s2.lines) /\ MemOK(s2.mem)
        /\ \A k \in Lines : Quiet(s1.lines, s1.mem, s2.lines, s2.mem, k)
        /\ Seen(s1.lines, s1.mem, s2.lines, s2.mem, n)
        /\ \A k \in Lines : Index(k) # Index(n) => Kept(s1.lines, s1.mem, s2.lines, s2.mem, k)
    BY <1>1, <1>2, FillOK, FillLocal
  <1> HIDE DEF s2
  <1>4. Seen(c, m, s2.lines, s2.mem, l)
    BY <1>1, <1>2, <1>3 DEF Seen, Kept, Filled
  <1>5. Seen(c, m, s2.lines, s2.mem, n)
    BY <1>1, <1>2, <1>3 DEF Seen, Kept, Filled
  <1>6. ASSUME NEW k \in Lines PROVE Quiet(c, m, s2.lines, s2.mem, k)
    <2>1. CASE Index(k) # Index(n)
      <3>1. Kept(s1.lines, s1.mem, s2.lines, s2.mem, k)
        BY <1>3, <2>1
      <3>2. Quiet(c, m, s1.lines, s1.mem, k)
        BY <1>2
      <3>3. QED
        BY <3>1, <3>2 DEF Quiet, Kept, Evicted, Filled
    <2>2. CASE Index(k) = Index(n)
      <3>1. Kept(c, m, s1.lines, s1.mem, k)
        BY <1>1, <1>2, <2>2
      <3>2. Quiet(s1.lines, s1.mem, s2.lines, s2.mem, k)
        BY <1>3
      <3>3. QED
        BY <3>1, <3>2 DEF Quiet, Kept, Evicted, Filled
    <2>3. QED
      BY <2>1, <2>2
  <1>7. QED
    BY <1>3, <1>4, <1>5, <1>6 DEF s1, s2, n

LEMMA LoadSplitImplements ==
  ASSUME IInv, NEW l \in Lines, LoadSplit(l)
  PROVE  Memory!LoadSplit(l)
  <1> DEFINE n == NextLine(l)
             s1 == Fill(lines, mem, l)
             s2 == Fill(s1.lines, s1.mem, n)
  <1>1. /\ \A k \in Lines : Quiet(lines, mem, s2.lines, s2.mem, k)
        /\ Seen(lines, mem, s2.lines, s2.mem, l)
        /\ Seen(lines, mem, s2.lines, s2.mem, n)
    BY IInvGivesOK, FillTwiceLocal
  <1>2. /\ lines' = s2.lines /\ mem' = s2.mem
        /\ reg' = <<View(s2.lines, s2.mem, l)[NWords - 1], View(s2.lines, s2.mem, n)[0]>>
    BY DEF LoadSplit, Does
  <1>3. n \in Lines /\ n = Memory!NextLine(l)
    BY NextInLines DEF NextLine, Memory!NextLine
  <1> HIDE DEF s2, n
  <1>4. \A k \in Lines : Memory!Background(k)
    BY <1>1, <1>2, QuietIsBackground
  <1>5. /\ View(lines', mem', l) = View(lines, mem, l)
        /\ View(lines', mem', n) = View(lines, mem, n)
    BY <1>1, <1>2, SeenFacts
  <1>6. reg' = <<View(lines, mem, l)[NWords - 1], View(lines, mem, n)[0]>>
    BY <1>2, <1>5
  <1>7. QED
    BY <1>3, <1>4, <1>5, <1>6, MemoryLines DEF Memory!LoadSplit, Memory!Others

\* A copy into line l that the cache has looked up writes line l.
LEMMA PutIsWritten ==
  ASSUME NEW c, CacheOK(c), NEW m, MemOK(m), NEW l \in Lines,
         NEW w \in Words, NEW v \in Values,
         Seen(lines, mem, c, m, l),
         Kept(Put(c, m, l, w, v).lines, Put(c, m, l, w, v).mem, lines', mem', l)
  PROVE  Memory!Written(l, [View(lines, mem, l) EXCEPT ![w] = v])
  <1> DEFINE s == Put(c, m, l, w, v)
             x == [View(lines, mem, l) EXCEPT ![w] = v]
  <1>1. /\ Wrote(s.lines, s.mem, l, [View(c, m, l) EXCEPT ![w] = v])
        /\ Holds(s.lines, l) <=> Holds(c, l)
        /\ Locked(s.lines, l) <=> Locked(c, l)
        /\ s.mem[l] = IF Holds(c, l) THEN m[l] ELSE View(s.lines, s.mem, l)
    BY PutOK
  <1>2. /\ m[l] = mem[l] /\ View(c, m, l) = View(lines, mem, l)
        /\ Locked(c, l) <=> Locked(lines, l)
        /\ Modified(c, l) <=> Modified(lines, l)
    BY SeenFacts
  <1>3. Kept(s.lines, s.mem, lines', mem', l)
    OBVIOUS
  <1> HIDE DEF s
  <1>4. View(lines', mem', l) = x
    BY <1>1, <1>2, <1>3 DEF Wrote, Kept
  <1>5. Locked(lines', l) <=> Locked(lines, l)
    BY <1>1, <1>2, <1>3 DEF Kept
  <1>6. CASE Holds(c, l)
    <2>1. Modified(lines', l) /\ mem'[l] = mem[l]
      BY <1>1, <1>2, <1>3, <1>6 DEF Wrote, Kept
    <2>2. QED
      BY <1>4, <1>5, <2>1 DEF Memory!Written
  <1>7. CASE ~Holds(c, l)
    <2>1. ~Modified(lines, l) /\ ~Modified(lines', l) /\ mem'[l] = x
      BY <1>1, <1>2, <1>3, <1>4, <1>7 DEF Wrote, Kept, Modified
    <2>2. QED
      BY <1>4, <1>5, <2>1 DEF Memory!Written
  <1>8. QED
    BY <1>6, <1>7

LEMMA StoreImplements ==
  ASSUME IInv, NEW l \in Lines, NEW w \in Words, NEW v \in Values, Store(l, w, v)
  PROVE  Memory!Store(l, w, v)
  <1> DEFINE s == Fill(lines, mem, l)
             t == Put(s.lines, s.mem, l, w, v)
  <1>1. /\ CacheOK(s.lines) /\ MemOK(s.mem)
        /\ \A k \in Lines : Quiet(lines, mem, s.lines, s.mem, k)
        /\ Seen(lines, mem, s.lines, s.mem, l)
    BY IInvGivesOK, FillOK, FillLocal
  <1>2. lines' = t.lines /\ mem' = t.mem /\ reg' = reg
    BY DEF Store, Does
  <1> HIDE DEF s
  <1>3. \A k \in Lines \ {l} : Kept(s.lines, s.mem, t.lines, t.mem, k)
    BY <1>1, PutOK
  <1>4. Kept(t.lines, t.mem, lines', mem', l)
    BY <1>2 DEF Kept
  <1>5. Memory!Written(l, [View(lines, mem, l) EXCEPT ![w] = v])
    BY <1>1, <1>4, PutIsWritten
  <1> HIDE DEF t
  <1>6. ASSUME NEW k \in Lines \ {l} PROVE Memory!Background(k)
    <2>1. Quiet(lines, mem, lines', mem', k)
      BY <1>1, <1>2, <1>3 DEF Quiet, Kept, Evicted, Filled
    <2>2. QED
      BY <2>1, QuietIsBackground
  <1>7. QED
    BY <1>2, <1>5, <1>6, MemoryLines DEF Memory!Store, Memory!Others

LEMMA StoreSplitImplements ==
  ASSUME IInv, NEW l \in Lines, NEW v1 \in Values, NEW v2 \in Values,
         StoreSplit(l, v1, v2)
  PROVE  Memory!StoreSplit(l, v1, v2)
  <1> DEFINE n == NextLine(l)
             s1 == Fill(lines, mem, l)
             s2 == Fill(s1.lines, s1.mem, n)
             s3 == Put(s2.lines, s2.mem, l, NWords - 1, v1)
             s4 == Put(s3.lines, s3.mem, n, 0, v2)
  <1>1. /\ n \in Lines /\ n # l /\ n = Memory!NextLine(l)
        /\ 0 \in Words /\ NWords - 1 \in Words
    BY NextInLines, SplitSlots, LastWordIsWord DEF NextLine, Memory!NextLine
  <1>2. /\ CacheOK(s2.lines) /\ MemOK(s2.mem)
        /\ \A k \in Lines : Quiet(lines, mem, s2.lines, s2.mem, k)
        /\ Seen(lines, mem, s2.lines, s2.mem, l)
        /\ Seen(lines, mem, s2.lines, s2.mem, n)
    BY IInvGivesOK, FillTwiceLocal
  <1>3. lines' = s4.lines /\ mem' = s4.mem /\ reg' = reg
    BY DEF StoreSplit, Does
  <1> HIDE DEF s2, n
  <1>4. /\ CacheOK(s3.lines) /\ MemOK(s3.mem)
        /\ \A k \in Lines \ {l} : Kept(s2.lines, s2.mem, s3.lines, s3.mem, k)
    BY <1>1, <1>2, PutOK
  <1>5. \A k \in Lines \ {n} : Kept(s3.lines, s3.mem, s4.lines, s4.mem, k)
    BY <1>1, <1>4, PutOK
  <1>6. Memory!Written(l, [View(lines, mem, l) EXCEPT ![NWords - 1] = v1])
    <2>1. Kept(s3.lines, s3.mem, lines', mem', l)
      BY <1>1, <1>3, <1>5
    <2>2. QED
      BY <1>1, <1>2, <2>1, PutIsWritten
  <1>7. Memory!Written(n, [View(lines, mem, n) EXCEPT ![0] = v2])
    <2>1. Kept(s4.lines, s4.mem, lines', mem', n)
      BY <1>3 DEF Kept
    <2>2. Seen(lines, mem, s3.lines, s3.mem, n)
      <3> HIDE DEF s3
      <3>1. QED
        BY <1>1, <1>2, <1>4 DEF Seen, Kept, Filled
    <2> HIDE DEF s3
    <2>3. QED
      BY <1>1, <1>4, <2>1, <2>2, PutIsWritten
  <1> HIDE DEF s3, s4
  <1>8. ASSUME NEW k \in Lines \ {l, n} PROVE Memory!Background(k)
    <2>1. Quiet(lines, mem, lines', mem', k)
      BY <1>2, <1>3, <1>4, <1>5 DEF Quiet, Kept, Evicted, Filled
    <2>2. QED
      BY <2>1, QuietIsBackground
  <1>9. QED
    BY <1>1, <1>3, <1>6, <1>7, <1>8, MemoryLines DEF Memory!StoreSplit, Memory!Others

LEMMA ZeroImplements ==
  ASSUME IInv, NEW l \in Lines, Dcbz(l)
  PROVE  Memory!ZeroLine(l)
  <1> DEFINE s == ZeroFill(lines, mem, l)
  <1>1. /\ \A k \in Lines \ {l} : Quiet(lines, mem, s.lines, s.mem, k)
        /\ Wrote(s.lines, s.mem, l, ZeroLine)
        /\ Locked(s.lines, l) <=> Locked(lines, l)
        /\ ~Pinned(lines, l) => Holds(s.lines, l) /\ s.mem[l] = mem[l]
        /\ Pinned(lines, l) => ~Holds(s.lines, l) /\ s.mem[l] = ZeroLine
    BY IInvGivesOK, ZeroFillOK
  <1>2. lines' = s.lines /\ mem' = s.mem /\ reg' = reg
    BY DEF Dcbz, Does
  <1>3. ZeroLine = Memory!ZeroBlock
    BY MemoryLines DEF ZeroLine, Memory!ZeroBlock
  <1> HIDE DEF s
  <1>4. \A k \in Lines \ {l} : Memory!Background(k)
    BY <1>1, <1>2, QuietIsBackground
  <1>5. Memory!Written(l, ZeroLine)
    <2>1. CASE Pinned(lines, l)
      <3>1. ~Modified(lines, l) /\ ~Modified(lines', l)
        BY <1>1, <1>2, <2>1 DEF Modified, Pinned, Holds
      <3>2. QED
        BY <1>1, <1>2, <2>1, <3>1 DEF Memory!Written, Wrote
    <2>2. CASE ~Pinned(lines, l)
      BY <1>1, <1>2, <2>2 DEF Memory!Written, Wrote
    <2>3. QED
      BY <2>1, <2>2
  <1>6. QED
    BY <1>2, <1>3, <1>4, <1>5, MemoryLines DEF Memory!ZeroLine, Memory!Others

\* dcbz_l of a line whose slot is pinned by another line is a stutter.
LEMMA ZeroLockImplements ==
  ASSUME IInv, NEW l \in Lines, DcbzL(l)
  PROVE  Memory!ZeroAndPin(l) \/ UNCHANGED Memory!cpuVars
  <1>1. CASE Pinned(lines, l)
    BY <1>1 DEF DcbzL, Does, ZeroLock, Memory!cpuVars
  <1>2. CASE ~Pinned(lines, l)
    <2> DEFINE s == ZeroLock(lines, mem, l)
    <2>1. /\ \A k \in Lines \ {l} : Quiet(lines, mem, s.lines, s.mem, k)
          /\ Wrote(s.lines, s.mem, l, ZeroLine)
          /\ Locked(s.lines, l) /\ Holds(s.lines, l) /\ s.mem[l] = mem[l]
      BY <1>2, IInvGivesOK, ZeroLockOK
    <2>2. lines' = s.lines /\ mem' = s.mem /\ reg' = reg
      BY DEF DcbzL, Does
    <2>3. ZeroLine = Memory!ZeroBlock
      BY MemoryLines DEF ZeroLine, Memory!ZeroBlock
    <2> HIDE DEF s
    <2>4. \A k \in Lines \ {l} : Memory!Background(k)
      BY <2>1, <2>2, QuietIsBackground
    <2>5. QED
      BY <2>1, <2>2, <2>3, <2>4, MemoryLines DEF Memory!ZeroAndPin, Memory!Others, Wrote
  <1>3. QED
    BY <1>1, <1>2

\* dcbst of a line that is not modified is a stutter.
LEMMA CleanImplements ==
  ASSUME IInv, NEW l \in Lines, Dcbst(l)
  PROVE  Memory!CleanLine(l) \/ UNCHANGED Memory!cpuVars
  <1>1. CASE ~Modified(lines, l)
    BY <1>1 DEF Dcbst, Does, Clean, Memory!cpuVars
  <1>2. CASE Modified(lines, l)
    <2> DEFINE s == Clean(lines, mem, l)
    <2>1. /\ \A k \in Lines \ {l} : Kept(lines, mem, s.lines, s.mem, k)
          /\ Locked(s.lines, l) <=> Locked(lines, l)
          /\ ~Modified(s.lines, l)
          /\ View(s.lines, s.mem, l) = View(lines, mem, l)
          /\ s.mem[l] = View(lines, mem, l)
      BY <1>2, IInvGivesOK, CleanOK
    <2>2. lines' = s.lines /\ mem' = s.mem /\ reg' = reg
      BY DEF Dcbst, Does
    <2> HIDE DEF s
    <2>3. \A k \in Lines \ {l} : Memory!Same(k)
      BY <2>1, <2>2, KeptIsSame
    <2>4. QED
      BY <1>2, <2>1, <2>2, <2>3, MemoryLines DEF Memory!CleanLine, Memory!WriteBack
  <1>3. QED
    BY <1>1, <1>2

LEMMA FlushImplements ==
  ASSUME IInv, NEW l \in Lines, Dcbf(l)
  PROVE  Memory!FlushLine(l)
  <1> DEFINE d == Drop(lines, l)
             s == Clean(lines, mem, l)
  <1>1. /\ \A k \in Lines \ {l} : s.mem[k] = mem[k]
        /\ s.mem[l] = IF Modified(lines, l) THEN View(lines, mem, l) ELSE mem[l]
    BY IInvGivesOK, CleanOK DEF Kept
  <1>2. lines' = d /\ mem' = s.mem /\ reg' = reg
    BY DEF Dcbf, Does
  <1> HIDE DEF s
  <1>3. ~Holds(d, l) /\ \A k \in Lines \ {l} : Kept(lines, mem, d, s.mem, k)
    BY <1>1, IInvGivesOK, DropOK
  <1> HIDE DEF d
  <1>4. \A k \in Lines \ {l} : Memory!Same(k)
    BY <1>2, <1>3, KeptIsSame
  <1>5. Memory!Synced(l)
    BY <1>1, <1>2, <1>3 DEF Memory!Synced, View, Modified, Locked
  <1>6. QED
    BY <1>2, <1>4, <1>5, MemoryLines DEF Memory!FlushLine

LEMMA DiscardImplements ==
  ASSUME IInv, NEW l \in Lines, Dcbi(l)
  PROVE  Memory!DiscardLine(l)
  <1> DEFINE d == Drop(lines, l)
  <1>1. lines' = d /\ mem' = mem /\ reg' = reg
    BY DEF Dcbi, Does
  <1>2. ~Holds(d, l) /\ \A k \in Lines \ {l} : Kept(lines, mem, d, mem, k)
    BY IInvGivesOK, DropOK
  <1> HIDE DEF d
  <1>3. \A k \in Lines \ {l} : Memory!Same(k)
    BY <1>1, <1>2, KeptIsSame
  <1>4. Memory!Lost(l)
    BY <1>1, <1>2 DEF Memory!Lost, View, Modified, Locked
  <1>5. QED
    BY <1>1, <1>3, <1>4, MemoryLines DEF Memory!DiscardLine

LEMMA FlushAllImplements == ASSUME IInv, FlushAll PROVE Memory!FlushAll
  <1> DEFINE d == DroppedAll(lines)
             n == PushedAll(lines, mem)
  <1>1. \A k \in Lines :
          /\ ~Holds(d, k)
          /\ n[k] = IF Modified(lines, k) THEN View(lines, mem, k) ELSE mem[k]
    BY IInvGivesOK, FlushAllOK
  <1>2. lines' = d /\ mem' = n /\ reg' = reg
    BY DEF FlushAll
  <1> HIDE DEF d, n
  <1>3. \A k \in Lines : Memory!Synced(k)
    BY <1>1, <1>2 DEF Memory!Synced, View, Modified, Locked
  <1>4. QED
    BY <1>2, <1>3, MemoryLines DEF Memory!FlushAll

LEMMA ResetImplements == ASSUME IInv, Reset PROVE Memory!Reset
  <1>1. lines' = [i \in Slots |-> EmptySlot] /\ mem' = mem /\ reg' = <<Zero, Zero>>
    BY DEF Reset
  <1>2. \A k \in Lines : ~Holds(lines', k)
    BY <1>1, IndexInSlots DEF Holds, EmptySlot
  <1>3. \A k \in Lines : Memory!Lost(k)
    BY <1>1, <1>2 DEF Memory!Lost, View, Modified, Locked
  <1>4. QED
    BY <1>1, <1>3, MemoryLines DEF Memory!Reset

LEMMA BusWriteImplements ==
  ASSUME IInv, NEW l \in Lines, NEW w \in Words, NEW v \in Values, BusWrite(l, w, v)
  PROVE  Memory!BusWrite(l, w, v)
  <1>1. lines' = lines /\ mem' = [mem EXCEPT ![l][w] = v] /\ reg' = reg
    BY DEF BusWrite
  <1>2. mem \in [Lines -> Data]
    BY DEF IInv, TypeOK
  <1> DEFINE view == [k \in Lines |-> View(lines, mem, k)]
             view1 == [k \in Lines |-> View(lines', mem', k)]
  <1>3. \A k \in Lines \ {l} : mem'[k] = mem[k]
    BY <1>1, <1>2
  <1>4. CASE Holds(lines, l)
    <2>1. view1 = view
      BY <1>1, <1>3, <1>4 DEF View
    <2>2. QED
      BY <1>1, <2>1 DEF Memory!BusWrite
  <1>5. CASE ~Holds(lines, l)
    <2>1. view1 = [view EXCEPT ![l] = mem'[l]]
      <3>1. View(lines', mem', l) = mem'[l]
        BY <1>1, <1>5 DEF View
      <3>2. \A k \in Lines \ {l} : View(lines', mem', k) = View(lines, mem, k)
        BY <1>1, <1>3 DEF View
      <3>3. QED
        BY <3>1, <3>2
    <2>2. ~Modified(lines, l) /\ view[l] = mem[l]
      BY <1>5 DEF Modified, View
    <2>3. QED
      BY <1>1, <2>1, <2>2 DEF Memory!BusWrite
  <1>6. QED
    BY <1>4, <1>5

LEMMA SnoopImplements ==
  ASSUME IInv, NEW op, NEW a, NEW n, Snoop(op, a, n)
  PROVE  \E kill \in BOOLEAN, T \in SUBSET Lines : Memory!Snoop(kill, T)
  <1> DEFINE S == IF power \in {"NAP", "SLEEP"} \/ n = 0 THEN {} ELSE SnoopWalk(a, n)
             T == {k \in Lines : SnoopHits(lines, S, k)}
             kill == op = "KILL"
  <1>1. /\ lines' = SnoopedLines(lines, S) /\ mem' = SnoopedMem(lines, mem, op, S)
        /\ reg' = reg
    BY DEF Snoop
  <1> HIDE DEF S
  <1>2. /\ \A k \in Lines : ~SnoopHits(lines, S, k) => Kept(lines, mem, lines', mem', k)
        /\ \A k \in Lines : SnoopHits(lines, S, k) =>
             /\ Holds(lines, k) /\ ~Locked(lines, k) /\ ~Holds(lines', k)
             /\ mem'[k] = IF Modified(lines, k) /\ op # "KILL"
                          THEN View(lines, mem, k) ELSE mem[k]
    BY <1>1, IInvGivesOK, SnoopOK
  <1>3. ASSUME NEW k \in Lines
        PROVE  IF k \in T /\ ~Locked(lines, k)
               THEN IF kill THEN Memory!Lost(k) ELSE Memory!Synced(k)
               ELSE Memory!Same(k)
    <2>1. CASE SnoopHits(lines, S, k)
      BY <1>2, <2>1 DEF Memory!Lost, Memory!Synced, View, Modified, Locked
    <2>2. CASE ~SnoopHits(lines, S, k)
      BY <1>2, <2>2, KeptIsSame
    <2>3. QED
      BY <2>1, <2>2
  <1>4. T \in SUBSET Lines /\ kill \in BOOLEAN
    OBVIOUS
  <1> HIDE DEF T, kill
  <1>5. Memory!Snoop(kill, T)
    BY <1>1, <1>3, MemoryLines DEF Memory!Snoop
  <1>6. QED
    BY <1>4, <1>5

-----------------------------------------------------------------------------
LEMMA NextImplements == IInv /\ [Next]_vars => [Memory!Next]_(Memory!cpuVars)
  <1> SUFFICES ASSUME IInv, [Next]_vars PROVE Memory!Next \/ UNCHANGED Memory!cpuVars
    OBVIOUS
  <1>1. \A l \in Touched : l \in Lines
    BY DataAssumption DEF Lines
  <1>2. Memory!Lines = Lines /\ Memory!Words = Words
    BY MemoryLines
  <1>3. ASSUME NEW l \in Touched, NEW w \in Words, Load(l, w) PROVE Memory!Next
    BY <1>1, <1>2, <1>3, LoadImplements DEF Memory!Next
  <1>4. ASSUME NEW l \in Touched, LoadSplit(l) PROVE Memory!Next
    BY <1>1, <1>2, <1>4, LoadSplitImplements DEF Memory!Next
  <1>5. ASSUME NEW l \in Touched, Dcbt(l) PROVE Memory!Next
    BY <1>1, <1>5, DcbtImplements DEF Memory!Next
  <1>6. ASSUME NEW l \in Touched, NEW w \in Words, NEW v \in Values, Store(l, w, v)
        PROVE  Memory!Next
    BY <1>1, <1>2, <1>6, StoreImplements DEF Memory!Next
  <1>7. ASSUME NEW l \in Touched, NEW v1 \in Values, NEW v2 \in Values,
               StoreSplit(l, v1, v2)
        PROVE  Memory!Next
    BY <1>1, <1>2, <1>7, StoreSplitImplements DEF Memory!Next
  <1>8. ASSUME NEW l \in Touched, Dcbz(l) PROVE Memory!Next
    BY <1>1, <1>2, <1>8, ZeroImplements DEF Memory!Next
  <1>9. ASSUME NEW l \in Touched, DcbzL(l)
        PROVE  Memory!Next \/ UNCHANGED Memory!cpuVars
    BY <1>1, <1>2, <1>9, ZeroLockImplements DEF Memory!Next
  <1>10. ASSUME NEW l \in Touched, Dcbst(l)
         PROVE  Memory!Next \/ UNCHANGED Memory!cpuVars
    BY <1>1, <1>2, <1>10, CleanImplements DEF Memory!Next
  <1>11. ASSUME NEW l \in Touched, Dcbf(l) PROVE Memory!Next
    BY <1>1, <1>2, <1>11, FlushImplements DEF Memory!Next
  <1>12. ASSUME NEW l \in Touched, Dcbi(l) PROVE Memory!Next
    BY <1>1, <1>2, <1>12, DiscardImplements DEF Memory!Next
  <1>13. CASE FlushAll
    BY <1>13, FlushAllImplements DEF Memory!Next
  <1>14. CASE Reset
    BY <1>14, ResetImplements DEF Memory!Next
  <1>15. ASSUME NEW l \in Touched, NEW w \in Words, UncachedLoad(l, w) PROVE Memory!Next
    <2>1. Memory!UncachedLoad(l, w)
      BY <1>15 DEF UncachedLoad, Memory!UncachedLoad
    <2>2. QED
      BY <1>1, <1>2, <2>1 DEF Memory!Next
  <1>16. ASSUME NEW l \in Touched, NEW w \in Words, NEW v \in Values, BusWrite(l, w, v)
         PROVE  Memory!Next
    BY <1>1, <1>2, <1>16, BusWriteImplements DEF Memory!Next
  <1>17. ASSUME NEW op, NEW a, NEW n, Snoop(op, a, n) PROVE Memory!Next
    BY <1>2, <1>17, SnoopImplements DEF Memory!Next
  <1>18. CASE Sleep \/ Wake \/ UNCHANGED vars
    BY <1>18 DEF Sleep, Wake, vars, Memory!cpuVars
  <1>19. QED
    BY <1>3, <1>4, <1>5, <1>6, <1>7, <1>8, <1>9, <1>10, <1>11, <1>12, <1>13,
       <1>14, <1>15, <1>16, <1>17, <1>18 DEF Next

(***************************************************************************)
(* The cache implements the memory of CpuMemory: slots and tags are        *)
(* invisible, lines only leave it by being written back, reloaded, or      *)
(* given up on request, and a locked line only on request.                 *)
(***************************************************************************)
THEOREM Implements == Spec => ImplementsCpuMemory
  <1>1. Init => Memory!Init
    <2> SUFFICES ASSUME Init PROVE Memory!Init
      OBVIOUS
    <2>1. \A k \in Lines : ~Holds(lines, k)
      BY IndexInSlots DEF Init, EmptySlot, Holds
    <2>2. /\ \A k \in Lines : View(lines, mem, k) = mem[k] /\ ~Modified(lines, k)
          /\ \A k \in Lines : ~Locked(lines, k)
      BY <2>1 DEF View, Modified, Locked
    <2>3. ZeroLine = Memory!ZeroBlock
      BY MemoryLines DEF ZeroLine, Memory!ZeroBlock
    <2>4. QED
      BY <2>2, <2>3, MemoryLines DEF Init, Memory!Init
  <1>2. IInv /\ [Next]_vars => [Memory!Next]_(Memory!cpuVars)
    BY NextImplements
  <1>3. QED
    BY <1>1, <1>2, Invariance, PTL DEF Spec, ImplementsCpuMemory, Memory!Spec
=============================================================================
