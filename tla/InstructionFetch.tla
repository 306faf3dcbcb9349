-------------------------- MODULE InstructionFetch --------------------------
(***************************************************************************)
(* The way from the program counter to an instruction (_ppcemu_fetch in    *)
(* run.c): the fetch shortcut, which remembers the translation and the     *)
(* instruction-cache slot of the 32-byte block fetched last, before the    *)
(* micro-TLB, the instruction cache and the bus.                           *)
(*                                                                         *)
(* A program counter is a page and a block of it; the words of a block     *)
(* share their line.  What the bus gives for a block is one of two         *)
(* contents, tagged with the block.  The history variable seen holds the   *)
(* contents that the block has had since it was last invalidated: what the *)
(* architecture allows a fetch to give until the next icbi.                *)
(***************************************************************************)
EXTENDS MicroTlb

CONSTANTS
  PageBlocks, \* 4096 / 32
  Lines,      \* lines of the instruction cache, 1024
  Code,       \* the physical blocks that programs or devices rewrite
  Permissive  \* cache_mode, unless it is DISABLED, is PERMISSIVE

ASSUME FetchAssumption ==
  /\ PageBlocks \in Nat \ {0} /\ Lines \in Nat \ {0}
  /\ Code \subseteq Nat /\ Permissive \in BOOLEAN

Offsets == 0 .. PageBlocks - 1
LineSlots == 0 .. Lines - 1
Block(ppn, o) == ppn * PageBlocks + o
SlotOf(b)     == b % Lines

VARIABLES
  icache,    \* state->icache: per slot nothing or a block and its contents
  ifetch,    \* the shortcut: ifetch_valid, _vbase, _pbase, _msr and _line
  rewritten, \* of the blocks of Code, those that hold their other contents
  seen

fetchVars == <<icache, ifetch, rewritten, seen>>
allVars   == <<vars, fetchVars>>

Contents == [block : Nat, new : BOOLEAN]
Line     == [valid : BOOLEAN, tag : Nat, data : Contents]
Shortcut == [valid : BOOLEAN, vpn : Vpns, off : Offsets, block : Nat,
             ir : BOOLEAN, pr : BOOLEAN, slot : LineSlots]

\* Types of the registers, the micro-TLB, the cache and the shortcut
FetchTypeOK ==
  /\ TypeOK
  /\ icache \in [LineSlots -> Line]
  /\ ifetch \in Shortcut
  /\ rewritten \subseteq Code
  /\ seen \in [Code -> SUBSET BOOLEAN]

NoLine == [valid |-> FALSE, tag |-> 0, data |-> [block |-> 0, new |-> FALSE]]
NoCode == [n \in LineSlots |-> NoLine]
NoShortcut == [valid |-> FALSE, vpn |-> 0, off |-> 0, block |-> 0,
               ir |-> FALSE, pr |-> FALSE, slot |-> 0]

Bus(b) == [block |-> b, new |-> b \in rewritten]
Fresh(b) == {Bus(b).new}

FetchInit ==
  /\ Init
  /\ icache = NoCode /\ ifetch = NoShortcut
  /\ rewritten = {} /\ seen = [b \in Code |-> {FALSE}]

-----------------------------------------------------------------------------
\* Mutants of ShortHit: the privilege is not part of the key; the slot is not
\* looked at again.
ShortHitAnyone(v, o) ==
  LET line == icache[ifetch.slot] IN
  /\ ifetch.valid /\ ifetch.vpn = v /\ ifetch.off = o /\ ifetch.ir = msr.ir
  /\ line.valid /\ line.tag = ifetch.block

ShortHitBlind(v, o) ==
  /\ ifetch.valid /\ ifetch.vpn = v /\ ifetch.off = o
  /\ ifetch.ir = msr.ir /\ ifetch.pr = msr.pr

\* The same 32-byte block as last time, and its line is still there.
ShortHit(v, o) ==
  LET line == icache[ifetch.slot] IN
  /\ ifetch.valid /\ ifetch.vpn = v /\ ifetch.off = o
  /\ ifetch.ir = msr.ir /\ ifetch.pr = msr.pr
  /\ line.valid /\ line.tag = ifetch.block

\* cache_get_line: lines of this cache are neither dirty nor locked.
CacheHit(b) == icache[SlotOf(b)].valid /\ icache[SlotOf(b)].tag = b
LineFor(b) ==
  IF CacheHit(b) THEN icache[SlotOf(b)]
  ELSE [valid |-> TRUE, tag |-> b, data |-> Bus(b)]

\* What a fetch at block o of page v gives
Supply(v, o) ==
  LET r == Resolve(Now, "i", FALSE, v) IN
  IF ShortHit(v, o) THEN icache[ifetch.slot].data
  ELSE IF r.cached THEN LineFor(Block(r.ppn, o)).data ELSE Bus(Block(r.ppn, o))

FetchShort(v, o) ==
  /\ ShortHit(v, o)
  /\ Done(FALSE, v, <<[ppn |-> ifetch.block \div PageBlocks, cached |-> TRUE]>>)
  /\ Become(Now)
  /\ UNCHANGED fetchVars

\* What an exception does to the instruction cache
Emptied(was, is) ==
  IF Permissive /\ cacheOn /\ was # is
  THEN icache' = NoCode /\ seen' = [b \in Code |-> Fresh(b)]
  ELSE UNCHANGED <<icache, seen>>
Translating(m) == m.ir \/ m.dr
Entered == Emptied(Translating(msr), FALSE) /\ UNCHANGED <<ifetch, rewritten>>

FetchLong(v, o) ==
  LET r == Resolve(Now, "i", FALSE, v)
      b == Block(r.ppn, o)
  IN
  /\ ~ ShortHit(v, o)
  /\ Finish(FALSE, v, r)
  /\ Become(After(Now, "i", FALSE, v))
  /\ \/ r.err # "ok" /\ Entered
     \/ r.err = "ok" /\ ~ r.cached /\ UNCHANGED fetchVars
     \/ /\ r.err = "ok" /\ r.cached
        /\ icache' = [icache EXCEPT ![SlotOf(b)] = LineFor(b)]
        /\ ifetch' = [valid |-> TRUE, vpn |-> v, off |-> o, block |-> b,
                      ir |-> msr.ir, pr |-> msr.pr, slot |-> SlotOf(b)]
        /\ UNCHANGED <<rewritten, seen>>

\* A program that is Careful fetches from no stale page; in real mode there
\* is no page to be stale.
Fetch(v, o) ==
  /\ Careful /\ msr.ir => v \notin stale
  /\ FetchShort(v, o) \/ FetchLong(v, o)

-----------------------------------------------------------------------------
(* What else reads or writes this state. *)

\* Loads and stores; one that fails raises DSI.
Data(kind, v) ==
  /\ Access(kind, v)
  /\ IF last'.err = "ok" THEN UNCHANGED fetchVars ELSE Entered

DataAcross(kind, v) ==
  /\ AccessAcross(kind, v)
  /\ IF last'.err = "ok" THEN UNCHANGED fetchVars ELSE Entered

\* icbi, translated as a data load: ppcemu_icache_invalidate_line
Icbi(v, o) ==
  /\ Access("load", v)
  /\ IF last'.err # "ok" THEN Entered
     ELSE LET b == Block(last'.pages[1].ppn, o) IN
          /\ icache' = IF CacheHit(b) THEN [icache EXCEPT ![SlotOf(b)].valid = FALSE]
                       ELSE icache
          /\ seen' = [c \in Code |-> IF c = b THEN Fresh(c) ELSE seen[c]]
          /\ UNCHANGED <<ifetch, rewritten>>

\* The bus comes to give something else for a block of code: a device wrote
\* it, or the data cache wrote it back.
Rewrite(b) ==
  /\ rewritten' = IF b \in rewritten THEN rewritten \ {b} ELSE rewritten \cup {b}
  /\ seen' = [seen EXCEPT ![b] = BOOLEAN]
  /\ UNCHANGED <<vars, icache, ifetch>>

\* Mutant of Dropped: the shortcut stays.
Kept == UNCHANGED fetchVars

\* ppcemu_ifetch_invalidate
Dropped == ifetch' = NoShortcut /\ UNCHANGED <<icache, rewritten, seen>>

\* mtspr, mtsr, tlbie and the functions of the embedder drop the shortcut.
Registers ==
  /\ \/ \E s \in Segments, x \in Srs : Mtsr(s, x)
     \/ \E side \in Sides, n \in Bats : MtsprBat(side, n) \/ ApiSetBat(side, n)
     \/ \E x \in Sdr1s : MtsprSdr1(x) \/ ApiSetSdr1(x)
     \/ \E x \in Hids : MtsprHid(x)
     \/ \E v \in Vpns : Tlbie(v)
     \/ \E b \in BOOLEAN : ApiSetCacheMode(b)
     \/ \E x \in Msrs : Setters /\ ChangeMsr(x)
  /\ Dropped

\* mtmsr leaves the cache and the shortcut, whose key has MSR[IR, PR].
Mtmsr(x) == ChangeMsr(x) /\ UNCHANGED fetchVars

Rfi(x) ==
  /\ ChangeMsr(x)
  /\ Emptied(Translating(msr), Translating(x)) /\ UNCHANGED <<ifetch, rewritten>>

\* sc, an interrupt and every other exception that no access raises
Exception == ChangeMsr([pr |-> FALSE, ir |-> FALSE, dr |-> FALSE]) /\ Entered

FetchReset ==
  /\ Reset
  /\ icache' = NoCode /\ ifetch' = NoShortcut
  /\ seen' = [b \in Code |-> Fresh(b)] /\ UNCHANGED rewritten

FetchNext ==
  \/ \E v \in Vpns, o \in Offsets : Fetch(v, o) \/ Icbi(v, o)
  \/ \E kind \in Kinds \ {"fetch"}, v \in Vpns : Data(kind, v) \/ DataAcross(kind, v)
  \/ Registers
  \/ \E x \in Msrs : Mtmsr(x) \/ Rfi(x)
  \/ Exception
  \/ \E g \in Groups, k \in Slots, p \in Ptes : ChangePte(g, k, p) /\ UNCHANGED fetchVars
  \/ \E b \in Code : Rewrite(b)
  \/ FetchReset

FetchSpec == FetchInit /\ [][FetchNext]_allVars

-----------------------------------------------------------------------------
(* Which pages a fetch may be made from, and what it must then be given. *)

Fetchable(v) ==
  /\ msr.ir => v \notin stale
  /\ Translate(htab, "i", FALSE, v).err = "ok"

Wanted(v, o) == Block(Translate(htab, "i", FALSE, v).ppn, o)

(***************************************************************************)
(* Whatever was remapped, switched, refilled or invalidated since the      *)
(* shortcut was taken, a fetch gives an instruction of the block that the  *)
(* tables name now, as that block has been since its last icbi (run.c      *)
(* 39-46 against every ppcemu_ifetch_invalidate and cache operation).      *)
(***************************************************************************)
FetchesRight ==
  \A v \in Vpns, o \in Offsets : Fetchable(v) =>
    LET got == Supply(v, o) IN
    /\ got.block = Wanted(v, o)
    /\ got.block \in Code => got.new \in seen[got.block]

(***************************************************************************)
(* The shortcut never lets a program run on a page that it may no longer   *)
(* fetch from: on a page that is not stale it hits only where the walk     *)
(* succeeds, finds a cacheable page and has no R bit to set.               *)
(***************************************************************************)
ShortcutEntitled ==
  \A v \in Vpns, o \in Offsets :
    ShortHit(v, o) /\ (msr.ir => v \notin stale) =>
      /\ Translate(htab, "i", FALSE, v).err = "ok"
      /\ Translate(htab, "i", FALSE, v).cached
      /\ TableAfter(htab, "i", FALSE, v) = htab
=============================================================================
