---------------------------- MODULE GatherStream ----------------------------
(***************************************************************************)
(* What the write-gather pipe promises: a stream of bytes that leaves in   *)
(* the order of the stores, in bursts of Size bytes, each byte once.       *)
(***************************************************************************)
EXTENDS Integers, Sequences

CONSTANTS Size, Lines, Bytes, MaxLen

VARIABLES
  stored,   \* the bytes of the last store
  pending,  \* bytes stored and not yet sent
  dest,     \* where the next burst goes
  out       \* the bus writes of the last operation that made any

vars == <<stored, pending, dest, out>>

Stores == UNION {[1 .. n -> Bytes] : n \in 1 .. MaxLen}

\* The burst and what stays behind when s follows the pending bytes.
Sent(s)  == [k \in 1 .. Size |-> (pending \o s)[k]]
Stays(s) == [k \in 1 .. Len(pending) + Len(s) - Size |-> (pending \o s)[k + Size]]

Init ==
  /\ stored = <<>>
  /\ pending = <<>>
  /\ dest \in Lines
  /\ out = <<>>

Gather(s) ==
  /\ stored' = s
  /\ IF Len(pending) + Len(s) < Size
     THEN pending' = pending \o s /\ UNCHANGED <<dest, out>>
     ELSE /\ out' = <<[addr |-> dest, data |-> Sent(s)]>>
          /\ pending' = Stays(s)
          /\ UNCHANGED dest

\* A store that is not gathered overtakes the pending bytes, in one write
Direct(l, s) ==
  /\ stored' = s
  /\ out' = <<[addr |-> l, data |-> s]>>
  /\ UNCHANGED <<pending, dest>>

\* or in one for each byte when it goes on into another page.
DirectBytes(ls, s) ==
  /\ stored' = s
  /\ out' = [k \in DOMAIN s |-> [addr |-> ls[k], data |-> <<s[k]>>]]
  /\ UNCHANGED <<pending, dest>>

Redirect(l) == dest' = l /\ UNCHANGED <<stored, pending, out>>

\* A reset drops what is pending.
Drop(l) == pending' = <<>> /\ dest' = l /\ UNCHANGED <<stored, out>>

Next ==
  \/ \E s \in Stores : Gather(s)
  \/ \E l \in Lines, s \in Stores : Direct(l, s)
  \/ \E s \in Stores : \E ls \in [DOMAIN s -> Lines] : DirectBytes(ls, s)
  \/ \E l \in Lines : Redirect(l) \/ Drop(l)

Spec == Init /\ [][Next]_vars
=============================================================================
