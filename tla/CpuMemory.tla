----------------------------- MODULE CpuMemory ------------------------------
(***************************************************************************)
(* What src/cache.c promises its user, with no slots and no tags.  The     *)
(* processor sees one memory, "view"; the other masters see another,       *)
(* "mem".  A line the processor has changed since memory last saw it is    *)
(* "modified".  A line in "pin" was locked by dcbz_l.                      *)
(*                                                                         *)
(* At any step the cache may, of its own accord, write a modified line to  *)
(* memory or reload one that is not modified, but not one that is pinned.  *)
(* Everything else happens to a line because somebody asked for it.        *)
(***************************************************************************)
EXTENDS Integers

CONSTANTS NLines, NWords, Values, Zero

VARIABLES view, mem, modified, pin, reg

cpuVars == <<view, mem, modified, pin, reg>>

Lines == 0 .. NLines - 1
Words == 0 .. NWords - 1
NextLine(l) == (l + 1) % NLines
ZeroBlock == [w \in Words |-> Zero]

Init ==
  /\ view = [l \in Lines |-> ZeroBlock]
  /\ mem = view
  /\ modified = {}
  /\ pin = {}
  /\ reg = <<Zero, Zero>>

-----------------------------------------------------------------------------
(* What one step may do to one line.                                       *)

Same(l) ==
  /\ view'[l] = view[l] /\ mem'[l] = mem[l]
  /\ l \in modified' <=> l \in modified
  /\ l \in pin' <=> l \in pin

WriteBack(l) ==             \* memory receives what the processor wrote
  /\ l \in modified /\ l \notin modified'
  /\ mem'[l] = view[l] /\ view'[l] = view[l]

Reload(l) ==                \* the processor catches up with memory
  /\ l \notin modified /\ l \notin modified'
  /\ view'[l] = mem[l] /\ mem'[l] = mem[l]

\* Of its own accord.
Background(l) ==
  \/ Same(l)
  \/ l \notin pin /\ l \notin pin' /\ (WriteBack(l) \/ Reload(l))

\* The processor writes block d: it stays with the processor, or, when the
\* line is not modified, it goes to memory at once.
Written(l, d) ==
  /\ view'[l] = d
  /\ \/ l \in modified' /\ mem'[l] = mem[l]
     \/ l \notin modified /\ l \notin modified' /\ mem'[l] = d
  /\ l \in pin' <=> l \in pin

\* Memory and processor agree on l afterwards, nothing written is lost.
Synced(l) ==
  /\ l \notin modified' /\ l \notin pin'
  /\ mem'[l] = IF l \in modified THEN view[l] ELSE mem[l]
  /\ view'[l] = mem'[l]

\* What the processor wrote to l and memory has not seen is lost.
Lost(l) ==
  /\ l \notin modified' /\ l \notin pin'
  /\ mem'[l] = mem[l] /\ view'[l] = mem[l]

Others(L) == \A k \in Lines \ L : Background(k)
-----------------------------------------------------------------------------
Load(l, w) ==
  /\ reg' = <<view[l][w], Zero>>
  /\ Others({l}) /\ Background(l) /\ view'[l] = view[l]

Prefetch == Others({}) /\ UNCHANGED reg

LoadSplit(l) ==
  /\ reg' = <<view[l][NWords - 1], view[NextLine(l)][0]>>
  /\ Others({l, NextLine(l)})
  /\ \A k \in {l, NextLine(l)} : Background(k) /\ view'[k] = view[k]

Store(l, w, v) ==
  /\ Written(l, [view[l] EXCEPT ![w] = v])
  /\ Others({l}) /\ UNCHANGED reg

StoreSplit(l, v1, v2) ==
  /\ Written(l, [view[l] EXCEPT ![NWords - 1] = v1])
  /\ Written(NextLine(l), [view[NextLine(l)] EXCEPT ![0] = v2])
  /\ Others({l, NextLine(l)}) /\ UNCHANGED reg

ZeroLine(l) == Written(l, ZeroBlock) /\ Others({l}) /\ UNCHANGED reg

\* Zero and pin a line.
ZeroAndPin(l) ==
  /\ view'[l] = ZeroBlock /\ mem'[l] = mem[l]
  /\ l \in modified' /\ l \in pin'
  /\ Others({l}) /\ UNCHANGED reg

CleanLine(l) ==
  /\ WriteBack(l) /\ (l \in pin' <=> l \in pin)
  /\ \A k \in Lines \ {l} : Same(k)
  /\ UNCHANGED reg

FlushLine(l) ==
  Synced(l) /\ (\A k \in Lines \ {l} : Same(k)) /\ UNCHANGED reg

DiscardLine(l) ==
  Lost(l) /\ (\A k \in Lines \ {l} : Same(k)) /\ UNCHANGED reg

FlushAll == (\A k \in Lines : Synced(k)) /\ UNCHANGED reg

Reset == (\A k \in Lines : Lost(k)) /\ reg' = <<Zero, Zero>>

UncachedLoad(l, w) == reg' = <<mem[l][w], Zero>> /\ UNCHANGED <<view, mem, modified, pin>>

\* A write that goes past the processor: it sees it at once, or keeps its own.
BusWrite(l, w, v) ==
  /\ mem' = [mem EXCEPT ![l][w] = v]
  /\ \/ view' = view
     \/ l \notin modified /\ view[l] = mem[l] /\ view' = [view EXCEPT ![l] = mem'[l]]
  /\ UNCHANGED <<modified, pin, reg>>

\* Another master announces that it reads (or writes, or kills) the lines S.
Snoop(kill, S) ==
  /\ \A k \in Lines :
       IF k \in S /\ k \notin pin
       THEN IF kill THEN Lost(k) ELSE Synced(k)
       ELSE Same(k)
  /\ UNCHANGED reg

Next ==
  \/ \E l \in Lines, w \in Words :
       Load(l, w) \/ UncachedLoad(l, w) \/ \E v \in Values : Store(l, w, v) \/ BusWrite(l, w, v)
  \/ \E l \in Lines :
       \/ LoadSplit(l) \/ (\E v1, v2 \in Values : StoreSplit(l, v1, v2))
       \/ ZeroLine(l) \/ ZeroAndPin(l)
       \/ CleanLine(l) \/ FlushLine(l) \/ DiscardLine(l)
  \/ \E kill \in BOOLEAN, S \in SUBSET Lines : Snoop(kill, S)
  \/ Prefetch \/ FlushAll \/ Reset

Spec == Init /\ [][Next]_cpuVars
=============================================================================
