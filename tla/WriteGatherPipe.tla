-------------------------- MODULE WriteGatherPipe ---------------------------
(***************************************************************************)
(* The write-gather pipe of src/mem.c: uncached stores to the line named   *)
(* by WPAR collect in a buffer of 32 bytes, which goes to the bus in one   *)
(* burst when it is full.                                                  *)
(*                                                                         *)
(* A byte remembers the line it was stored to, so that it can be followed  *)
(* to the bus.                                                             *)
(***************************************************************************)
EXTENDS Integers, Sequences

CONSTANTS
  Size,      \* 32, the bytes of wgp_buf
  MaxLen,    \* 8, the longest store
  Lines,     \* the lines of memory the program stores to
  Values,    \* what a byte can hold
  ResetLine, \* the line WPAR names after a reset, zero
  Careful    \* the program rewrites WPAR as hardware wants it: with the low
             \* bits clear, and only after it has read BNE as clear

ASSUME SizeAssumption ==
  /\ Size \in Nat \ {0} /\ MaxLen \in 1 .. Size
  /\ ResetLine \in Lines
  /\ Values # {}
  /\ Careful \in BOOLEAN

Bytes  == [line : Lines, value : Values]
Cells  == 0 .. Size - 1
Stores == UNION {[1 .. n -> Values] : n \in 1 .. MaxLen}
Wpar   == [line : Lines, bit0 : BOOLEAN]
Writes == [addr : Lines, data : Seq(Bytes)]

VARIABLES
  buf,   \* state->wgp_buf
  idx,   \* state->cur_wgp_idx
  wpar,  \* WPAR: the line, and bit 0, which reads as BNE
  wpe,   \* HID2[WPE]
  stored, \* the bytes of the last store (history)
  out    \* the bus writes of the last operation that made any

vars == <<buf, idx, wpar, wpe, stored, out>>

TypeOK ==
  /\ buf \in [Cells -> Bytes]
  /\ idx \in Cells
  /\ wpar \in Wpar
  /\ wpe \in BOOLEAN
  /\ stored \in Seq(Bytes)
  /\ out \in Seq(Writes)

ZeroByte == [line |-> ResetLine, value |-> CHOOSE v \in Values : TRUE]

Init ==
  /\ buf = [k \in Cells |-> ZeroByte]
  /\ idx = 0
  /\ wpar = [line |-> ResetLine, bit0 |-> FALSE]
  /\ wpe = FALSE
  /\ stored = <<>>
  /\ out = <<>>

-----------------------------------------------------------------------------
\* memcpy(&wgp_buf[at], s, Len(s))
Copy(b, at, s) ==
  [k \in Cells |-> IF k >= at /\ k < at + Len(s) THEN s[k - at + 1] ELSE b[k]]

\* do_wgp_flush
Burst(b) == <<[addr |-> wpar.line, data |-> [k \in 1 .. Size |-> b[k - 1]]]>>

Filling(s) ==
  /\ idx + Len(s) < Size
  /\ buf' = Copy(buf, idx, s)
  /\ idx' = idx + Len(s)
  /\ UNCHANGED out

Filled(s) ==
  /\ idx + Len(s) = Size
  /\ buf' = Copy(buf, idx, s)
  /\ out' = Burst(buf')
  /\ idx' = 0

\* Mutant of Wrapping: the rest is taken from the start of the value.
WrappingFromStart(s) ==
  LET over  == idx + Len(s) - Size
      first == SubSeq(s, 1, Len(s) - over)
      rest  == SubSeq(s, 1, over)
      full  == Copy(buf, idx, first)
  IN /\ over > 0
     /\ out' = Burst(full)
     /\ buf' = Copy(full, 0, rest)
     /\ idx' = over

Wrapping(s) ==
  LET over  == idx + Len(s) - Size
      first == SubSeq(s, 1, Len(s) - over)
      rest  == SubSeq(s, Len(s) - over + 1, Len(s))
      full  == Copy(buf, idx, first)
  IN /\ over > 0
     /\ out' = Burst(full)
     /\ buf' = Copy(full, 0, rest)
     /\ idx' = over

\* do_wgp_store
WgpStore(s) == Filling(s) \/ Filled(s) \/ Wrapping(s)

\* The test in _do_basic_store_nohook; a WPAR with low bits set never matches.
Gathers(l) == wpe /\ wpar = [line |-> l, bit0 |-> FALSE]

ToLine(l, v) == [k \in DOMAIN v |-> [line |-> l, value |-> v[k]]]

\* An uncached store of the values v to line l, within one page
Store(l, v) ==
  LET s == ToLine(l, v) IN
  /\ stored' = s
  /\ IF Gathers(l) THEN WgpStore(s)
     ELSE out' = <<[addr |-> l, data |-> s]>> /\ UNCHANGED <<buf, idx>>
  /\ UNCHANGED <<wpar, wpe>>

(***************************************************************************)
(* access_page_tail: a store whose bytes after the first ones are in the   *)
(* next page, uncached as well, goes out byte by byte and never gathers.   *)
(***************************************************************************)
StoreAcross(l, next, v, first) ==
  LET line(k) == IF k <= first THEN l ELSE next
      s == [k \in DOMAIN v |-> [line |-> line(k), value |-> v[k]]]
  IN
  /\ stored' = s
  /\ out' = [k \in DOMAIN v |-> [addr |-> line(k), data |-> <<s[k]>>]]
  /\ UNCHANGED <<buf, idx, wpar, wpe>>

\* Mutant of ReadWpar: BNE is what was written.
ReadWparRaw == wpar

\* do_mfspr of WPAR: what the program reads
ReadWpar == [wpar EXCEPT !.bit0 = @ \/ idx # 0]

\* do_mtspr of WPAR: bytes that are pending stay
MtsprWpar(w) ==
  /\ Careful => ~ ReadWpar.bit0 /\ ~ w.bit0
  /\ wpar' = w
  /\ UNCHANGED <<buf, idx, wpe, stored, out>>

\* do_mtspr of HID2
MtsprHid2(b) == wpe' = b /\ UNCHANGED <<buf, idx, wpar, stored, out>>

\* ppcemu_reset
Reset ==
  /\ buf' = [k \in Cells |-> ZeroByte]
  /\ idx' = 0
  /\ wpar' = [line |-> ResetLine, bit0 |-> FALSE]
  /\ wpe' = FALSE
  /\ UNCHANGED <<stored, out>>

Next ==
  \/ \E l \in Lines, v \in Stores : Store(l, v)
  \/ \E l, next \in Lines, v \in Stores : \E first \in 1 .. Len(v) - 1 :
       StoreAcross(l, next, v, first)
  \/ \E w \in Wpar : MtsprWpar(w)
  \/ MtsprWpar(ReadWpar)
  \/ \E b \in BOOLEAN : MtsprHid2(b)
  \/ Reset

Spec == Init /\ [][Next]_vars

-----------------------------------------------------------------------------
(***************************************************************************)
(* The comment at instr/spr.c:338: BNE is set when the buffer has pending, *)
(* unflushed data.  A program that waits for BNE to clear would wait for   *)
(* ever if it were set with nothing pending.                               *)
(***************************************************************************)
BneExact == ReadWpar.bit0 <=> idx # 0

(***************************************************************************)
(* Every byte reaches the line it was stored to, whether it was gathered   *)
(* or not and whatever the pipe held before, provided that the program     *)
(* moves the pipe only after it has read BNE as clear: all that it sees of *)
(* the pipe, so the store that goes astray is the one that BNE hid.        *)
(***************************************************************************)
PendingHere == \A k \in Cells : k < idx => buf[k].line = wpar.line
SentThere   == \A i \in DOMAIN out : \A k \in DOMAIN out[i].data :
                 out[i].data[k].line = out[i].addr
Delivered   == Careful => PendingHere /\ SentThere

\* The pipe implements a stream of bytes: in order, each once, in full bursts.
Stream == INSTANCE GatherStream WITH
  pending <- [k \in 1 .. idx |-> buf[k - 1]],
  dest    <- wpar.line

ImplementsStream == Stream!Spec
=============================================================================
