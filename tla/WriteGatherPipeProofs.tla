------------------------ MODULE WriteGatherPipeProofs -----------------------
(***************************************************************************)
(* Proofs about WriteGatherPipe, for every size of the buffer and every    *)
(* set of lines and values.                                                *)
(***************************************************************************)
EXTENDS WriteGatherPipe, SequenceTheorems, TLAPS

\* What the four kinds of stored sequences have in common.
ByteSeq(s) == \E n \in 1 .. MaxLen : s \in [1 .. n -> Bytes]

\* A store is a short sequence, and so are the bytes it turns into.
LEMMA StoreShape ==
  ASSUME NEW v \in Stores
  PROVE  /\ Len(v) \in 1 .. MaxLen
         /\ v \in [1 .. Len(v) -> Values]
         /\ Len(v) <= Size
<1>1. PICK n \in 1 .. MaxLen : v \in [1 .. n -> Values]
  BY DEF Stores
<1>2. n \in Nat /\ DOMAIN v = 1 .. n /\ v \in Seq(Values)
  BY <1>1, SizeAssumption
<1>3. Len(v) = n
  BY <1>2
<1> QED
  BY <1>1, <1>2, <1>3, SizeAssumption

LEMMA ToLineShape ==
  ASSUME NEW v \in Stores, NEW l \in Lines
  PROVE  /\ ToLine(l, v) \in [1 .. Len(v) -> Bytes]
         /\ Len(ToLine(l, v)) = Len(v)
         /\ \A k \in 1 .. Len(v) : ToLine(l, v)[k].line = l
<1>1. v \in [1 .. Len(v) -> Values] /\ Len(v) \in Nat
  BY StoreShape, SizeAssumption
<1>2. ToLine(l, v) \in [1 .. Len(v) -> Bytes]
  BY <1>1 DEF ToLine, Bytes
<1>3. Len(ToLine(l, v)) = Len(v)
  BY <1>1, <1>2
<1>4. \A k \in 1 .. Len(v) : ToLine(l, v)[k].line = l
  BY <1>1 DEF ToLine
<1> QED
  BY <1>2, <1>3, <1>4

\* memcpy into the buffer keeps its type.
LEMMA CopyType ==
  ASSUME NEW b \in [Cells -> Bytes], NEW at \in Nat, NEW n \in Nat,
         NEW s \in [1 .. n -> Bytes]
  PROVE  /\ Copy(b, at, s) \in [Cells -> Bytes]
         /\ \A k \in Cells : Copy(b, at, s)[k] =
              IF k >= at /\ k < at + n THEN s[k - at + 1] ELSE b[k]
<1>1. Len(s) = n
  OBVIOUS
<1>2. \A k \in Cells : k \in Int
  BY SizeAssumption DEF Cells
<1>3. ASSUME NEW k \in Cells, k >= at, k < at + n
      PROVE  s[k - at + 1] \in Bytes
  <2>1. k - at + 1 \in 1 .. n
    BY <1>2, <1>3
  <2> QED
    BY <2>1
<1> QED
  BY <1>1, <1>3 DEF Copy

\* A part of a sequence of bytes.
LEMMA PartOf ==
  ASSUME NEW n \in Nat, NEW s \in [1 .. n -> Bytes], NEW i \in 1 .. n + 1,
         NEW j \in 0 .. n, j - i + 1 >= 0
  PROVE  /\ SubSeq(s, i, j) \in [1 .. j - i + 1 -> Bytes]
         /\ \A k \in 1 .. j - i + 1 : SubSeq(s, i, j)[k] = s[i + k - 1]
<1>1. \A k \in i .. j : s[k] \in Bytes
  <2>1. i .. j \subseteq 1 .. n
    OBVIOUS
  <2> QED
    BY <2>1
<1>2. i \in Int /\ j \in Int
  OBVIOUS
<1>3. /\ SubSeq(s, i, j) \in Seq(Bytes)
      /\ Len(SubSeq(s, i, j)) = IF i <= j THEN j - i + 1 ELSE 0
      /\ \A k \in 1 .. j - i + 1 : SubSeq(s, i, j)[k] = s[i + k - 1]
  BY <1>1, <1>2, SubSeqProperties
<1>4. Len(SubSeq(s, i, j)) = j - i + 1
  BY <1>2, <1>3
<1>5. \A t \in Seq(Bytes) : t \in [1 .. Len(t) -> Bytes]
  OBVIOUS
<1> QED
  <2> DEFINE t == SubSeq(s, i, j)
  <2>1. t \in Seq(Bytes) /\ Len(t) = j - i + 1
    BY <1>3, <1>4
  <2>2. t \in [1 .. j - i + 1 -> Bytes]
    <3> HIDE DEF t
    <3> QED
      BY <1>5, <2>1
  <2> QED
    BY <1>3, <2>2

-----------------------------------------------------------------------------
(***************************************************************************)
(* One operation of do_wgp_store, as its caller sees it: the writes it     *)
(* makes and what it leaves behind.                                        *)
(***************************************************************************)
LEMMA GatherStep ==
  ASSUME TypeOK, NEW n \in 1 .. MaxLen, NEW s \in [1 .. n -> Bytes],
         WgpStore(s)
  PROVE  /\ buf' \in [Cells -> Bytes]
         /\ idx' \in Cells
         /\ \/ /\ idx + n < Size /\ idx' = idx + n /\ out' = out
               /\ \A k \in Cells : k < idx' => buf'[k] =
                    IF k < idx THEN buf[k] ELSE s[k - idx + 1]
            \/ /\ idx + n >= Size /\ idx' = idx + n - Size
               /\ out' = <<[addr |-> wpar.line, data |->
                    [k \in 1 .. Size |-> IF k <= idx THEN buf[k - 1] ELSE s[k - idx]]]>>
               /\ \A k \in Cells : k < idx' => buf'[k] = s[Size - idx + k + 1]
<1>1. /\ buf \in [Cells -> Bytes] /\ idx \in Cells /\ idx \in Nat
      /\ n \in Nat /\ Size \in Nat /\ Size > 0 /\ n <= Size /\ n > 0 /\ Len(s) = n
      /\ idx < Size
  BY SizeAssumption DEF TypeOK, Cells
<1>2. \A k \in Cells : k \in Nat /\ k < Size
  BY <1>1 DEF Cells
<1>3. \A k \in 1 .. Size : k - 1 \in Cells
  BY <1>1 DEF Cells
<1>4. CASE Filling(s)
  <2>1. idx + n < Size /\ buf' = Copy(buf, idx, s) /\ idx' = idx + n /\ out' = out
    BY <1>1, <1>4 DEF Filling
  <2>2. /\ buf' \in [Cells -> Bytes]
        /\ \A k \in Cells : buf'[k] =
             IF k >= idx /\ k < idx + n THEN s[k - idx + 1] ELSE buf[k]
    BY <1>1, <2>1, CopyType
  <2>3. idx' \in Cells
    BY <1>1, <2>1 DEF Cells
  <2>4. \A k \in Cells : k < idx' => buf'[k] =
          IF k < idx THEN buf[k] ELSE s[k - idx + 1]
    BY <1>1, <1>2, <2>1, <2>2
  <2> QED
    BY <2>1, <2>2, <2>3, <2>4
<1>5. CASE Filled(s)
  <2>1. idx + n = Size /\ buf' = Copy(buf, idx, s) /\ idx' = 0
    BY <1>1, <1>5 DEF Filled
  <2>2. /\ buf' \in [Cells -> Bytes]
        /\ \A k \in Cells : buf'[k] =
             IF k >= idx /\ k < idx + n THEN s[k - idx + 1] ELSE buf[k]
    BY <1>1, <2>1, CopyType
  <2>3. idx' \in Cells /\ idx' = idx + n - Size
    BY <1>1, <2>1 DEF Cells
  <2>4. \A k \in 1 .. Size : buf'[k - 1] =
          IF k <= idx THEN buf[k - 1] ELSE s[k - idx]
    BY <1>1, <1>3, <2>1, <2>2
  <2>5. out' = <<[addr |-> wpar.line, data |->
          [k \in 1 .. Size |-> IF k <= idx THEN buf[k - 1] ELSE s[k - idx]]]>>
    BY <1>5, <2>4 DEF Filled, Burst
  <2>6. \A k \in Cells : ~ (k < idx')
    BY <1>2, <2>1
  <2> QED
    BY <1>1, <2>1, <2>2, <2>3, <2>5, <2>6
<1>6. CASE Wrapping(s)
  <2> DEFINE over  == idx + n - Size
             first == SubSeq(s, 1, n - over)
             rest  == SubSeq(s, n - over + 1, n)
             full  == Copy(buf, idx, first)
  <2>1. /\ over > 0 /\ out' = Burst(full) /\ buf' = Copy(full, 0, rest)
        /\ idx' = over
    BY <1>1, <1>6 DEF Wrapping
  <2>2. over \in Nat /\ n - over \in Nat /\ over < n /\ over < Size
    BY <1>1, <2>1
  <2>3. /\ first \in [1 .. n - over -> Bytes]
        /\ \A k \in 1 .. n - over : first[k] = s[k]
    BY <1>1, <2>2, PartOf
  <2>4. /\ rest \in [1 .. over -> Bytes]
        /\ \A k \in 1 .. over : rest[k] = s[n - over + k]
    <3>1. PICK i \in 1 .. n + 1 : i = n - over + 1
      BY <1>1, <2>2
    <3>2. n - i + 1 = over /\ n \in 0 .. n /\ n - i + 1 >= 0
      BY <1>1, <2>2, <3>1
    <3>3. /\ SubSeq(s, i, n) \in [1 .. over -> Bytes]
          /\ \A k \in 1 .. over : SubSeq(s, i, n)[k] = s[i + k - 1]
      BY <1>1, <3>2, PartOf
    <3>4. \A k \in 1 .. over : i + k - 1 = n - over + k
      BY <1>1, <2>2, <3>1
    <3>5. rest = SubSeq(s, i, n)
      BY <3>1
    <3> HIDE DEF rest
    <3>6. \A k \in 1 .. over : rest[k] = s[n - over + k]
      BY <3>3, <3>4, <3>5
    <3> QED
      BY <3>3, <3>5, <3>6
  <2>5. /\ full \in [Cells -> Bytes]
        /\ \A k \in Cells : full[k] =
             IF k >= idx /\ k < idx + (n - over) THEN first[k - idx + 1] ELSE buf[k]
    <3> HIDE DEF first, rest
    <3> QED
      BY <1>1, <2>2, <2>3, CopyType
  <2>6. /\ buf' \in [Cells -> Bytes]
        /\ \A k \in Cells : buf'[k] =
             IF k >= 0 /\ k < 0 + over THEN rest[k - 0 + 1] ELSE full[k]
    <3> HIDE DEF first, rest, full
    <3> QED
      BY <1>1, <2>1, <2>2, <2>4, <2>5, CopyType
  <2> HIDE DEF first, rest, full
  <2>7. \A k \in 1 .. Size : full[k - 1] =
          IF k <= idx THEN buf[k - 1] ELSE s[k - idx]
    <3> SUFFICES ASSUME NEW k \in 1 .. Size
                 PROVE  full[k - 1] = IF k <= idx THEN buf[k - 1] ELSE s[k - idx]
      OBVIOUS
    <3>1. k - 1 \in Cells /\ k \in Nat
      BY <1>1, <1>3
    <3>2. CASE k <= idx
      BY <1>1, <3>1, <3>2, <2>5
    <3>3. CASE k > idx
      <4>1. k - 1 < idx + (n - over) /\ k - 1 >= idx /\ (k - 1) - idx + 1 = k - idx
        BY <1>1, <3>1, <3>3
      <4>2. k - idx \in 1 .. n - over
        BY <1>1, <3>1, <3>3
      <4> QED
        BY <1>1, <3>1, <3>3, <4>1, <4>2, <2>3, <2>5
    <3> QED
      BY <1>1, <3>1, <3>2, <3>3
  <2>8. out' = <<[addr |-> wpar.line, data |->
          [k \in 1 .. Size |-> IF k <= idx THEN buf[k - 1] ELSE s[k - idx]]]>>
    BY <2>1, <2>7 DEF Burst
  <2>9. \A k \in Cells : k < idx' => buf'[k] = s[Size - idx + k + 1]
    <3> SUFFICES ASSUME NEW k \in Cells, k < over
                 PROVE  buf'[k] = s[Size - idx + k + 1]
      BY <2>1
    <3>1. k \in Nat /\ k + 1 \in 1 .. over /\ k - 0 + 1 = k + 1
      BY <1>2, <2>2
    <3>2. n - over + (k + 1) = Size - idx + k + 1
      BY <1>1, <3>1
    <3> QED
      BY <3>1, <3>2, <2>2, <2>4, <2>6
  <2> QED
    BY <1>1, <2>1, <2>2, <2>6, <2>8, <2>9 DEF Cells
<1> QED
  BY <1>4, <1>5, <1>6 DEF WgpStore

-----------------------------------------------------------------------------
\* Only a byte of the line WPAR names is ever pending, and every write that
\* went out is of its line.
IInv == TypeOK /\ Delivered

LEMMA ZeroByteType == ZeroByte \in Bytes
<1>1. (CHOOSE v \in Values : TRUE) \in Values
  BY SizeAssumption
<1> QED
  BY <1>1, SizeAssumption DEF ZeroByte, Bytes

THEOREM InitInv == Init => IInv
<1> SUFFICES ASSUME Init PROVE IInv
  OBVIOUS
<1>1. ZeroByte \in Bytes
  BY ZeroByteType
<1>2. /\ buf \in [Cells -> Bytes] /\ idx \in Cells /\ wpe \in BOOLEAN
      /\ wpar \in Wpar /\ stored \in Seq(Bytes) /\ out \in Seq(Writes)
  <2>1. buf \in [Cells -> Bytes]
    BY <1>1 DEF Init
  <2>2. idx \in Cells
    BY SizeAssumption DEF Init, Cells
  <2>3. wpar \in Wpar
    BY SizeAssumption DEF Init, Wpar
  <2>4. stored \in Seq(Bytes) /\ out \in Seq(Writes)
    BY DEF Init
  <2> QED
    BY <2>1, <2>2, <2>3, <2>4 DEF Init
<1>3. Delivered
  BY SizeAssumption DEF Init, Delivered, PendingHere, SentThere, Cells
<1> QED
  BY <1>2, <1>3 DEF IInv, TypeOK

\* A store in one page, gathered or not.
LEMMA StoreInv ==
  ASSUME IInv, NEW l \in Lines, NEW v \in Stores, Store(l, v)
  PROVE  IInv'
<1> DEFINE s == ToLine(l, v)
           n == Len(v)
<1>1. /\ n \in 1 .. MaxLen /\ n \in Nat /\ n > 0 /\ n <= Size /\ Size \in Nat
      /\ s \in [1 .. n -> Bytes] /\ \A k \in 1 .. n : s[k].line = l
  BY StoreShape, ToLineShape, SizeAssumption
<1> HIDE DEF s, n
<1>2. TypeOK /\ Delivered /\ wpar' = wpar /\ wpe' = wpe /\ stored' \in Seq(Bytes)
  <2>1. stored' = s
    BY DEF Store, s
  <2> QED
    BY <1>1, <2>1 DEF IInv, Store
<1>3. idx \in Nat /\ idx < Size /\ idx \in Cells /\ wpar.line \in Lines
  BY <1>2, SizeAssumption DEF TypeOK, Cells, Wpar
<1>4. CASE Gathers(l)
  <2>1. WgpStore(s) /\ wpar.line = l
    BY <1>4 DEF Store, Gathers, s
  <2> DEFINE sent == [k \in 1 .. Size |-> IF k <= idx THEN buf[k - 1] ELSE s[k - idx]]
             full == <<[addr |-> wpar.line, data |-> sent]>>
  <2>2. /\ buf' \in [Cells -> Bytes]
        /\ idx' \in Cells
        /\ \/ /\ idx + n < Size /\ idx' = idx + n /\ out' = out
              /\ \A k \in Cells : k < idx' => buf'[k] =
                   IF k < idx THEN buf[k] ELSE s[k - idx + 1]
           \/ /\ idx + n >= Size /\ idx' = idx + n - Size
              /\ out' = full
              /\ \A k \in Cells : k < idx' => buf'[k] = s[Size - idx + k + 1]
    BY <1>1, <1>2, <2>1, GatherStep
  <2>3. \A k \in 1 .. Size :
          /\ k <= idx => k - 1 \in Cells /\ k - 1 < idx
          /\ ~ (k <= idx) /\ idx + n >= Size => k - idx \in 1 .. n
    BY <1>1, <1>3 DEF Cells
  <2>4. CASE idx + n < Size
    <3>1. /\ out' = out /\ idx' = idx + n
          /\ \A k \in Cells : k < idx' => buf'[k] =
               IF k < idx THEN buf[k] ELSE s[k - idx + 1]
      BY <1>1, <1>3, <2>2, <2>4
    <3>2. TypeOK'
      BY <1>2, <2>2, <3>1 DEF TypeOK
    <3>3. Careful => PendingHere'
      <4> SUFFICES ASSUME Careful, NEW k \in Cells, k < idx'
                   PROVE  buf'[k].line = wpar'.line
        BY DEF PendingHere
      <4>1. k \in Nat
        BY <1>1 DEF Cells
      <4>2. CASE k < idx
        BY <1>2, <3>1, <4>2 DEF Delivered, PendingHere
      <4>3. CASE ~ (k < idx)
        <5>1. k - idx + 1 \in 1 .. n
          BY <1>1, <1>3, <3>1, <4>1, <4>3
        <5> QED
          BY <1>1, <1>2, <2>1, <3>1, <4>3, <5>1
      <4> QED
        BY <4>2, <4>3
    <3>4. Careful => SentThere'
      BY <1>2, <3>1 DEF Delivered, SentThere
    <3> QED
      BY <3>2, <3>3, <3>4 DEF IInv, Delivered
  <2>5. CASE idx + n >= Size
    <3>1. /\ out' = full /\ idx' = idx + n - Size
          /\ \A k \in Cells : k < idx' => buf'[k] = s[Size - idx + k + 1]
      BY <1>1, <1>3, <2>2, <2>5
    <3>2. sent \in [1 .. Size -> Bytes]
      BY <1>1, <1>2, <2>3, <2>5 DEF TypeOK
    <3>3. sent \in Seq(Bytes) /\ DOMAIN sent = 1 .. Size
      <4> HIDE DEF sent
      <4> QED
        BY <1>1, <3>2
    <3>4. full \in Seq(Writes)
      <4> HIDE DEF sent
      <4> QED
        BY <1>3, <3>3 DEF Writes
    <3>5. TypeOK'
      <4> HIDE DEF full
      <4> QED
        BY <1>2, <2>2, <3>1, <3>4 DEF TypeOK
    <3>6. Careful => PendingHere'
      <4> SUFFICES ASSUME NEW k \in Cells, k < idx'
                   PROVE  buf'[k].line = wpar'.line
        BY DEF PendingHere
      <4>1. k \in Nat
        BY <1>1 DEF Cells
      <4>2. Size - idx + k + 1 \in 1 .. n
        BY <1>1, <1>3, <3>1, <4>1
      <4> QED
        BY <1>1, <1>2, <2>1, <3>1, <4>2
    <3>7. ASSUME Careful PROVE SentThere'
      <4>1. \A k \in 1 .. Size : sent[k].line = wpar.line
        BY <1>1, <1>2, <2>1, <2>3, <2>5, <3>7 DEF Delivered, PendingHere
      <4> HIDE DEF sent
      <4>2. \A i \in DOMAIN full : full[i].addr = wpar.line /\ full[i].data = sent
        OBVIOUS
      <4> HIDE DEF full
      <4> QED
        BY <3>1, <3>3, <4>1, <4>2 DEF SentThere
    <3> QED
      BY <3>5, <3>6, <3>7 DEF IInv, Delivered
  <2> QED
    BY <1>1, <1>3, <2>4, <2>5
<1>5. CASE ~ Gathers(l)
  <2>1. out' = <<[addr |-> l, data |-> s]>> /\ buf' = buf /\ idx' = idx
    BY <1>5 DEF Store, s
  <2>2. s \in Seq(Bytes) /\ DOMAIN s = 1 .. n
    BY <1>1
  <2>3. <<[addr |-> l, data |-> s]>> \in Seq(Writes)
    BY <2>2 DEF Writes
  <2>4. TypeOK'
    BY <1>2, <2>1, <2>3 DEF TypeOK
  <2>5. Careful => PendingHere'
    BY <1>2, <2>1 DEF Delivered, PendingHere
  <2>6. SentThere'
    BY <1>1, <2>1, <2>2 DEF SentThere
  <2> QED
    BY <2>4, <2>5, <2>6 DEF IInv, Delivered
<1> QED
  BY <1>4, <1>5

\* A store into two pages, byte by byte.
LEMMA AcrossInv ==
  ASSUME IInv, NEW l \in Lines, NEW next \in Lines, NEW v \in Stores, NEW first \in Nat,
         StoreAcross(l, next, v, first)
  PROVE  IInv'
<1> DEFINE n == Len(v)
           line(k) == IF k <= first THEN l ELSE next
           st == [k \in 1 .. n |-> [line |-> line(k), value |-> v[k]]]
           byte(k) == [addr |-> line(k), data |-> <<st[k]>>]
           o == [k \in 1 .. n |-> byte(k)]
<1>1. n \in Nat /\ v \in [1 .. n -> Values]
  BY StoreShape, SizeAssumption
<1> HIDE DEF n
<1>2. stored' = st /\ out' = o /\ UNCHANGED <<buf, idx, wpar, wpe>>
  BY <1>1 DEF StoreAcross
<1>3. st \in Seq(Bytes) /\ \A k \in 1 .. n : byte(k) \in Writes
  <2>1. st \in [1 .. n -> Bytes]
    BY <1>1 DEF Bytes
  <2> HIDE DEF st
  <2>2. \A k \in 1 .. n : st[k] \in Bytes /\ line(k) \in Lines
    BY <2>1
  <2> QED
    BY <1>1, <2>1, <2>2 DEF Writes
<1>4. o \in Seq(Writes) /\ DOMAIN o = 1 .. n
  <2> HIDE DEF byte
  <2> QED
    BY <1>1, <1>3
<1>5. SentThere'
  BY <1>2 DEF SentThere
<1>6. TypeOK' /\ (Careful => PendingHere')
  <2> HIDE DEF o, st
  <2> QED
    BY <1>2, <1>3, <1>4 DEF IInv, TypeOK, Delivered, PendingHere
<1> QED
  BY <1>5, <1>6 DEF IInv, Delivered

\* What a program may write to WPAR; the pending bytes keep their line.
LEMMA MtsprInv ==
  ASSUME IInv, NEW w \in Wpar, MtsprWpar(w)
  PROVE  IInv'
<1>1. TypeOK'
  BY DEF IInv, TypeOK, MtsprWpar
<1>2. Careful => PendingHere'
  <2> SUFFICES ASSUME Careful, NEW k \in Cells, k < idx'
               PROVE  FALSE
    BY DEF PendingHere
  <2>1. ~ ReadWpar.bit0 /\ idx' = idx
    BY DEF MtsprWpar
  <2>2. idx = 0
    BY <2>1 DEF ReadWpar, IInv, TypeOK, Wpar
  <2> QED
    BY <2>1, <2>2, SizeAssumption DEF Cells
<1>3. Careful => SentThere'
  BY DEF IInv, Delivered, MtsprWpar, SentThere
<1> QED
  BY <1>1, <1>2, <1>3 DEF IInv, Delivered

LEMMA ReadWparType ==
  ASSUME TypeOK
  PROVE  ReadWpar \in Wpar
<1>1. wpar \in Wpar /\ (idx # 0) \in BOOLEAN
  BY DEF TypeOK
<1>2. (wpar.bit0 \/ idx # 0) \in BOOLEAN
  OBVIOUS
<1> QED
  BY <1>1, <1>2 DEF ReadWpar, Wpar

THEOREM StepInv == IInv /\ [Next]_vars => IInv'
<1> SUFFICES ASSUME IInv, [Next]_vars PROVE IInv'
  OBVIOUS
<1>1. ASSUME NEW l \in Lines, NEW v \in Stores, Store(l, v) PROVE IInv'
  BY <1>1, StoreInv
<1>2. ASSUME NEW l \in Lines, NEW next \in Lines, NEW v \in Stores,
             NEW first \in 1 .. Len(v) - 1, StoreAcross(l, next, v, first)
      PROVE  IInv'
  <2>1. first \in Nat
    BY StoreShape, SizeAssumption
  <2> QED
    BY <1>2, <2>1, AcrossInv
<1>3. ASSUME NEW w \in Wpar, MtsprWpar(w) PROVE IInv'
  BY <1>3, MtsprInv
<1>4. CASE MtsprWpar(ReadWpar)
  <2>1. ReadWpar \in Wpar
    BY ReadWparType DEF IInv
  <2> QED
    BY <1>4, <2>1, MtsprInv
<1>5. ASSUME NEW b \in BOOLEAN, MtsprHid2(b) PROVE IInv'
  BY <1>5 DEF IInv, TypeOK, Delivered, PendingHere, SentThere, MtsprHid2
<1>6. CASE Reset
  <2>1. ZeroByte \in Bytes
    BY ZeroByteType
  <2>2. TypeOK'
    <3>1. buf' \in [Cells -> Bytes]
      BY <1>6, <2>1 DEF Reset
    <3>2. idx' \in Cells /\ wpar' \in Wpar
      BY <1>6, SizeAssumption DEF Reset, Cells, Wpar
    <3>3. wpe' \in BOOLEAN /\ stored' \in Seq(Bytes) /\ out' \in Seq(Writes)
      BY <1>6 DEF IInv, TypeOK, Reset
    <3> QED
      BY <3>1, <3>2, <3>3 DEF TypeOK
  <2>3. PendingHere'
    BY <1>6, SizeAssumption DEF Reset, PendingHere, Cells
  <2>4. Careful => SentThere'
    BY <1>6 DEF IInv, Delivered, SentThere, Reset
  <2> QED
    BY <2>2, <2>3, <2>4 DEF IInv, Delivered
<1>7. CASE UNCHANGED vars
  BY <1>7 DEF IInv, TypeOK, Delivered, PendingHere, SentThere, vars
<1> QED
  BY <1>1, <1>2, <1>3, <1>4, <1>5, <1>6, <1>7 DEF Next

THEOREM Invariance == Spec => []IInv
BY InitInv, StepInv, PTL DEF Spec

\* Every variable keeps its type: the index stays inside the buffer.
THEOREM TypeCorrect == Spec => []TypeOK
<1>1. IInv => TypeOK
  BY DEF IInv
<1> QED
  BY <1>1, Invariance, PTL

\* Every byte reaches the line it was stored to.
THEOREM BytesDelivered == Spec => []Delivered
<1>1. IInv => Delivered
  BY DEF IInv
<1> QED
  BY <1>1, Invariance, PTL

-----------------------------------------------------------------------------
(***************************************************************************)
(* The pipe implements the stream: bytes leave in the order of the stores, *)
(* in full bursts, each once, even of a program that moves the pipe while  *)
(* bytes are pending.                                                      *)
(***************************************************************************)
Pending == [k \in 1 .. idx |-> buf[k - 1]]

LEMMA PendingShape ==
  ASSUME TypeOK
  PROVE  Pending \in [1 .. idx -> Bytes] /\ Len(Pending) = idx /\ idx \in Nat
<1>1. idx \in Nat /\ idx < Size /\ Size \in Nat /\ \A k \in 1 .. idx : k - 1 \in Cells
  BY SizeAssumption DEF TypeOK, Cells
<1>2. Pending \in [1 .. idx -> Bytes]
  BY <1>1 DEF TypeOK, Pending
<1> QED
  BY <1>1, <1>2

LEMMA StreamStores ==
  ASSUME NEW n \in 1 .. MaxLen, NEW s \in [1 .. n -> Bytes]
  PROVE  s \in Stream!Stores
BY DEF Stream!Stores

\* The stream with what is stored at its end.
LEMMA Joined ==
  ASSUME TypeOK, NEW n \in Nat, NEW s \in [1 .. n -> Bytes]
  PROVE  /\ Pending \o s \in [1 .. idx + n -> Bytes]
         /\ \A k \in 1 .. idx + n :
              (Pending \o s)[k] = IF k <= idx THEN buf[k - 1] ELSE s[k - idx]
<1>1. Pending \in [1 .. idx -> Bytes] /\ Len(Pending) = idx /\ idx \in Nat
  BY PendingShape
<1>2. \A k \in 1 .. idx : Pending[k] = buf[k - 1]
  BY DEF Pending
<1> HIDE DEF Pending
<1>3. Pending \in Seq(Bytes) /\ s \in Seq(Bytes) /\ Len(s) = n
  BY <1>1
<1>4. Pending \o s \in Seq(Bytes) /\ Len(Pending \o s) = idx + n
  BY <1>1, <1>3
<1>5. \A k \in 1 .. idx + n :
        (Pending \o s)[k] = IF k <= idx THEN Pending[k] ELSE s[k - idx]
  BY <1>1, <1>3
<1>6. \A t \in Seq(Bytes) : t \in [1 .. Len(t) -> Bytes]
  OBVIOUS
<1>7. Pending \o s \in [1 .. idx + n -> Bytes]
  <2> DEFINE t == Pending \o s
  <2>1. t \in Seq(Bytes) /\ Len(t) = idx + n
    BY <1>4
  <2> HIDE DEF t
  <2>2. t \in [1 .. idx + n -> Bytes]
    BY <1>6, <2>1
  <2> QED
    BY <2>2 DEF t
<1>8. \A k \in 1 .. idx + n : k <= idx => k \in 1 .. idx
  BY <1>1
<1> QED
  BY <1>2, <1>5, <1>7, <1>8

LEMMA GatherRefines ==
  ASSUME TypeOK, NEW n \in 1 .. MaxLen, NEW s \in [1 .. n -> Bytes], WgpStore(s),
         wpar' = wpar, stored' = s
  PROVE  Stream!Gather(s)
<1> DEFINE joined == Pending \o s
           sent == [k \in 1 .. Size |-> IF k <= idx THEN buf[k - 1] ELSE s[k - idx]]
<1>1. /\ buf' \in [Cells -> Bytes]
      /\ idx' \in Cells
      /\ \/ /\ idx + n < Size /\ idx' = idx + n /\ out' = out
            /\ \A k \in Cells : k < idx' => buf'[k] =
                 IF k < idx THEN buf[k] ELSE s[k - idx + 1]
         \/ /\ idx + n >= Size /\ idx' = idx + n - Size
            /\ out' = <<[addr |-> wpar.line, data |-> sent]>>
            /\ \A k \in Cells : k < idx' => buf'[k] = s[Size - idx + k + 1]
  BY GatherStep
<1>2. /\ n \in Nat /\ n > 0 /\ Len(s) = n /\ Size \in Nat /\ n <= Size
      /\ idx \in Nat /\ idx < Size /\ Len(Pending) = idx
  BY PendingShape, SizeAssumption DEF TypeOK, Cells
<1>3. /\ joined \in [1 .. idx + n -> Bytes]
      /\ \A k \in 1 .. idx + n :
           joined[k] = IF k <= idx THEN buf[k - 1] ELSE s[k - idx]
  BY <1>2, Joined
<1> HIDE DEF joined
<1>4. \A k \in Cells : k \in Nat
  BY <1>2 DEF Cells
<1>5. idx' \in Nat /\ idx' < Size
  BY <1>1, <1>2 DEF Cells
<1>6. \A k \in 1 .. idx' : k - 1 \in Cells /\ k - 1 < idx' /\ k \in Nat /\ k > 0
  BY <1>2, <1>5 DEF Cells
<1>7. CASE idx + n < Size
  <2>1. /\ idx' = idx + n /\ out' = out
        /\ \A k \in Cells : k < idx' => buf'[k] =
             IF k < idx THEN buf[k] ELSE s[k - idx + 1]
    BY <1>1, <1>2, <1>7
  <2>2. \A k \in 1 .. idx' : buf'[k - 1] = joined[k]
    <3> SUFFICES ASSUME NEW k \in 1 .. idx' PROVE buf'[k - 1] = joined[k]
      OBVIOUS
    <3>1. k - 1 - idx + 1 = k - idx /\ (k - 1 < idx <=> k <= idx)
      BY <1>2, <1>6
    <3>2. buf'[k - 1] = IF k - 1 < idx THEN buf[k - 1] ELSE s[k - 1 - idx + 1]
      BY <1>6, <2>1
    <3>3. joined[k] = IF k <= idx THEN buf[k - 1] ELSE s[k - idx]
      BY <1>3, <2>1
    <3> QED
      BY <3>1, <3>2, <3>3
  <2>3. Pending' = joined
    BY <1>3, <2>1, <2>2 DEF Pending
  <2> QED
    BY <1>2, <1>7, <2>1, <2>3 DEF Stream!Gather, Pending, joined
<1>8. CASE idx + n >= Size
  <2>1. /\ idx' = idx + n - Size /\ out' = <<[addr |-> wpar.line, data |-> sent]>>
        /\ \A k \in Cells : k < idx' => buf'[k] = s[Size - idx + k + 1]
    BY <1>1, <1>2, <1>8
  <2>2. sent = [k \in 1 .. Size |-> joined[k]]
    <3>1. \A k \in 1 .. Size : k \in 1 .. idx + n
      BY <1>2, <1>8
    <3> QED
      BY <1>3, <3>1
  <2>3. \A k \in 1 .. idx' : buf'[k - 1] = joined[k + Size]
    <3> SUFFICES ASSUME NEW k \in 1 .. idx' PROVE buf'[k - 1] = joined[k + Size]
      OBVIOUS
    <3>1. /\ k + Size \in 1 .. idx + n /\ ~ (k + Size <= idx)
          /\ Size - idx + (k - 1) + 1 = k + Size - idx
      BY <1>2, <1>6, <2>1
    <3>2. buf'[k - 1] = s[Size - idx + (k - 1) + 1]
      BY <1>6, <2>1
    <3>3. joined[k + Size] = s[k + Size - idx]
      <4>1. PICK j \in 1 .. idx + n : j = k + Size
        BY <3>1
      <4>2. joined[j] = s[j - idx]
        BY <1>3, <3>1, <4>1
      <4>3. k \in Nat /\ j \in Nat /\ idx \in Nat /\ Size \in Nat
        BY <1>2, <1>6
      <4> QED
        BY <4>1, <4>2, <4>3
    <3> QED
      BY <3>1, <3>2, <3>3
  <2>4. Pending' = [k \in 1 .. idx + n - Size |-> joined[k + Size]]
    BY <2>1, <2>3 DEF Pending
  <2>5. ~ (Len(Pending) + Len(s) < Size)
    BY <1>2, <1>8
  <2> QED
    BY <1>2, <2>1, <2>2, <2>4, <2>5
       DEF Stream!Gather, Stream!Sent, Stream!Stays, Pending, joined
<1> QED
  BY <1>2, <1>7, <1>8

THEOREM RefinesInit == Init => Stream!Init
<1> SUFFICES ASSUME Init PROVE Stream!Init
  OBVIOUS
<1>1. Pending = <<>>
  BY DEF Init, Pending
<1>2. stored = <<>> /\ out = <<>> /\ wpar.line \in Lines
  BY SizeAssumption DEF Init
<1> QED
  BY <1>1, <1>2 DEF Stream!Init, Pending

THEOREM RefinesStep == TypeOK /\ [Next]_vars => [Stream!Next]_(Stream!vars)
<1> SUFFICES ASSUME TypeOK, [Next]_vars PROVE [Stream!Next]_(Stream!vars)
  OBVIOUS
<1>1. ASSUME NEW l \in Lines, NEW v \in Stores, Store(l, v)
      PROVE  Stream!Next
  <2> DEFINE s == ToLine(l, v)
             n == Len(v)
  <2>1. n \in 1 .. MaxLen /\ s \in [1 .. n -> Bytes]
    BY StoreShape, ToLineShape
  <2>2. s \in Stream!Stores
    BY <2>1, StreamStores
  <2>3. CASE Gathers(l)
    <3>1. WgpStore(s) /\ wpar' = wpar /\ stored' = s
      BY <1>1, <2>3 DEF Store
    <3> HIDE DEF s, n
    <3>2. Stream!Gather(s)
      BY <2>1, <3>1, GatherRefines
    <3> QED
      BY <2>2, <3>2 DEF Stream!Next
  <2>4. CASE ~ Gathers(l)
    <3>1. Stream!Direct(l, s)
      BY <1>1, <2>4 DEF Store, Stream!Direct
    <3> QED
      BY <2>2, <3>1 DEF Stream!Next
  <2> QED
    BY <2>3, <2>4
<1>2. ASSUME NEW l \in Lines, NEW next \in Lines, NEW v \in Stores,
             NEW first \in 1 .. Len(v) - 1, StoreAcross(l, next, v, first)
      PROVE  Stream!Next
  <2> DEFINE n == Len(v)
             line(k) == IF k <= first THEN l ELSE next
             ls == [k \in 1 .. n |-> line(k)]
             s == [k \in 1 .. n |-> [line |-> line(k), value |-> v[k]]]
  <2>1. n \in 1 .. MaxLen /\ v \in [1 .. n -> Values]
    BY StoreShape
  <2> HIDE DEF n
  <2>2. s \in [1 .. n -> Bytes] /\ ls \in [1 .. n -> Lines]
    BY <2>1 DEF Bytes
  <2>3. s \in Stream!Stores
    <3> HIDE DEF s
    <3> QED
      BY <2>1, <2>2, StreamStores
  <2>4. stored' = s /\ out' = [k \in 1 .. n |-> [addr |-> ls[k], data |-> <<s[k]>>]]
    BY <1>2, <2>1 DEF StoreAcross
  <2>5. Stream!DirectBytes(ls, s)
    <3> HIDE DEF ls, s
    <3> QED
      BY <1>2, <2>2, <2>4 DEF StoreAcross, Stream!DirectBytes
  <2> HIDE DEF ls, s
  <2>6. ls \in [DOMAIN s -> Lines]
    BY <2>2
  <2> QED
    BY <2>3, <2>5, <2>6 DEF Stream!Next
<1>3. ASSUME NEW w \in Wpar, MtsprWpar(w) PROVE Stream!Next
  <2>1. w.line \in Lines
    BY DEF Wpar
  <2>2. Stream!Redirect(w.line)
    BY <1>3 DEF MtsprWpar, Stream!Redirect
  <2> QED
    BY <2>1, <2>2 DEF Stream!Next
<1>4. CASE MtsprWpar(ReadWpar)
  <2>1. ReadWpar \in Wpar
    BY ReadWparType
  <2> QED
    BY <1>3, <1>4, <2>1
<1>5. ASSUME NEW b \in BOOLEAN, MtsprHid2(b) PROVE UNCHANGED Stream!vars
  BY <1>5 DEF MtsprHid2, Stream!vars
<1>6. CASE Reset
  <2>1. Pending' = <<>>
    BY <1>6 DEF Reset, Pending
  <2>2. stored' = stored /\ out' = out /\ wpar'.line = ResetLine /\ ResetLine \in Lines
    BY <1>6, SizeAssumption DEF Reset
  <2>3. Stream!Drop(ResetLine)
    BY <2>1, <2>2 DEF Stream!Drop, Pending
  <2> QED
    BY <2>2, <2>3 DEF Stream!Next
<1>7. CASE UNCHANGED vars
  BY <1>7 DEF vars, Stream!vars
<1> QED
  BY <1>1, <1>2, <1>3, <1>4, <1>5, <1>6, <1>7 DEF Next

\* The pipe is a stream: in order, each byte once, in full bursts.
THEOREM Refines == Spec => ImplementsStream
<1> QED
  BY RefinesInit, RefinesStep, TypeCorrect, PTL DEF Spec, ImplementsStream, Stream!Spec
=============================================================================
