---------------------------- MODULE ProgramOrder ----------------------------
(***************************************************************************)
(* What an instruction does to the context of the code it belongs to, if   *)
(* that code were alone: where it goes on, and what becomes of LR, CTR,    *)
(* the CR bits and MSR.  The bits of CR are a set of numbers, 0 for the    *)
(* most significant.                                                       *)
(***************************************************************************)
EXTENDS Integers

CONSTANTS
  Unit,       \* bytes of an instruction, 4
  Top,        \* addresses, 2 ^ 32
  Fields,     \* fields of CR, 8
  FieldWidth, \* bits of a field, 4
  Prefix,     \* what MSR[IP] adds to a vector, 0xfff00000
  Vector      \* the offset of each exception

MsrBits == {"EE", "PR", "IR", "IP", "ILE", "LE"}
Causes  == {"reset", "dsi", "isi", "ext", "program", "dec", "syscall"}

Addresses == 0 .. Top - 1
CrBits    == 0 .. Fields * FieldWidth - 1
BitsOf(f) == f * FieldWidth .. f * FieldWidth + FieldWidth - 1

ASSUME ProgramAssumption ==
  /\ Unit \in Nat \ {0} /\ Top \in Nat /\ Top > 1 /\ Top % Unit = 0
  /\ Fields \in Nat \ {0} /\ FieldWidth \in Nat \ {0}
  /\ Prefix \in Nat /\ Vector \in [Causes -> Addresses]
  /\ \A cause \in Causes : Prefix + Vector[cause] < Top

Contexts == [pc : Addresses, lr : Addresses, ctr : Addresses,
             cr : SUBSET CrBits, msr : SUBSET MsrBits]

Align(x)  == x - (x % Unit)
On(c)     == [c EXCEPT !.pc = (@ + Unit) % Top]
To(c, x)  == [c EXCEPT !.pc = x]
Linked(c, lk) == IF lk THEN [c EXCEPT !.lr = (c.pc + Unit) % Top] ELSE c

\* A branch that is not taken links nothing.
Branches(c, taken, x, lk) == IF taken THEN To(Linked(c, lk), x) ELSE On(c)

\* The two conditions of BO, a set of the values of its bits
Counted(bo, c) == IF 4 \in bo THEN c ELSE [c EXCEPT !.ctr = (@ - 1) % Top]
Taken(bo, bi, c) ==
  /\ 4 \in bo \/ (c.ctr = 1 <=> 2 \in bo)
  /\ 16 \in bo \/ (bi \in c.cr <=> 8 \in bo)

WithBit(c, d, b) == [c EXCEPT !.cr = IF b THEN @ \cup {d} ELSE @ \ {d}]

Logic(op, a, b) ==
  CASE op = "crand"  -> a /\ b
    [] op = "crandc" -> a /\ ~ b
    [] op = "creqv"  -> a <=> b
    [] op = "crnand" -> ~ (a /\ b)
    [] op = "crnor"  -> ~ (a \/ b)
    [] op = "cror"   -> a \/ b
    [] op = "crorc"  -> a \/ ~ b
    [] op = "crxor"  -> ~ (a <=> b)

\* Field d of CR comes to be the field s of the word S.
WithField(c, d, S, s) ==
  [c EXCEPT !.cr = (@ \ BitsOf(d))
                     \cup {b \in BitsOf(d) : b + (s - d) * FieldWidth \in S}]

\* The fields of F come from the word S.
WithFields(c, F, S) ==
  LET B == UNION {BitsOf(f) : f \in F} IN [c EXCEPT !.cr = (@ \ B) \cup (S \cap B)]

\* A handler starts at its vector, privileged, without translation and
\* interrupts, in the byte order of MSR[ILE].
EntryMsr(msr) ==
  (msr \cap {"IP", "ILE"}) \cup (IF "ILE" \in msr THEN {"LE"} ELSE {})
Entry(c, cause) ==
  [c EXCEPT !.pc = Vector[cause] + (IF "IP" \in c.msr THEN Prefix ELSE 0),
            !.msr = EntryMsr(@)]
=============================================================================
