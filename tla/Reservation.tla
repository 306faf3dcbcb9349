---------------------------- MODULE Reservation ----------------------------
(***************************************************************************)
(* lwarx and stwcx. of instr.h, as tasks on one processor use them: each    *)
(* adds one to shared words in the usual loop, while its page comes and     *)
(* goes, other tasks are switched to, and other bus masters write.  The     *)
(* code keeps one flag; it remembers the reserved address and never looks   *)
(* at it again.                                                            *)
(***************************************************************************)
EXTENDS Integers

CONSTANTS
  Tasks,          \* tasks of the guest
  Locations,      \* the words they share
  Modulus,        \* values of a word: 2^32 in the code
  Increments,     \* increments that each task makes
  Interruptions   \* bound on what the system and the devices do unasked

ReservationAssumption ==
  /\ Tasks # {}
  /\ Modulus \in Nat /\ Modulus >= 2
  /\ Increments \in Nat /\ Interruptions \in Nat
ASSUME ReservationAssumption

Value == 0 .. Modulus - 1

Plus1(v) == (v + 1) % Modulus

VARIABLES
  mem,       \* the shared words
  reserve,   \* the processor holds a reservation
  current,   \* the task that runs
  grant,     \* what translation grants on the page of the words
  pc,        \* where each task is in its loop
  addr,      \* the word it adds to
  gpr,       \* the register that lwarx loaded
  eq,        \* CR0[EQ]: what stwcx. told it
  todo,      \* increments it still has to make
  stored,    \* history: stwcx. has written since the lwarx of this round
  overrun,   \* history: a device wrote the word since then
  budget     \* interruptions left

taskVars ==
  <<mem, reserve, current, grant, pc, addr, gpr, eq, todo, stored, overrun, budget>>

TasksTypeOK ==
  /\ mem \in [Locations -> Value]
  /\ reserve \in BOOLEAN
  /\ current \in Tasks
  /\ grant \in {"none", "ro", "rw"}
  /\ pc \in [Tasks -> {"lwarx", "stwcx", "branch"}]
  /\ addr \in [Tasks -> Locations]
  /\ gpr \in [Tasks -> Value]
  /\ eq \in [Tasks -> BOOLEAN]
  /\ todo \in [Tasks -> Nat]
  /\ stored \in [Tasks -> BOOLEAN]
  /\ overrun \in [Tasks -> BOOLEAN]
  /\ budget \in Nat

TasksInit ==
  /\ mem = [w \in Locations |-> 0]
  /\ reserve = FALSE
  /\ current \in Tasks
  /\ grant = "none"
  /\ pc = [t \in Tasks |-> "lwarx"]
  /\ addr \in [Tasks -> Locations]
  /\ gpr = [t \in Tasks |-> 0]
  /\ eq = [t \in Tasks |-> FALSE]
  /\ todo = [t \in Tasks |-> Increments]
  /\ stored = [t \in Tasks |-> FALSE]
  /\ overrun = [t \in Tasks |-> FALSE]
  /\ budget = Interruptions

----------------------------------------------------------------------------
(* The program.  An access that faults leaves the task where it is: the     *)
(* handler returns to the instruction.                                      *)

Loads(t, w) ==
  /\ gpr' = [gpr EXCEPT ![t] = mem[w]]
  /\ addr' = [addr EXCEPT ![t] = w]
  /\ pc' = [pc EXCEPT ![t] = "stwcx"]
  /\ stored' = [stored EXCEPT ![t] = FALSE]
  /\ overrun' = [overrun EXCEPT ![t] = FALSE]

\* Mutant of do_indexed_load_conditional: a load that succeeds sets no flag.
do_indexed_load_conditionalOnlyClears(t, w) ==
  /\ reserve' = (reserve /\ grant # "none")
  /\ IF grant = "none" THEN UNCHANGED <<gpr, addr, pc, stored, overrun>> ELSE Loads(t, w)

do_indexed_load_conditional(t, w) ==
  /\ reserve' = (grant # "none")
  /\ IF grant = "none" THEN UNCHANGED <<gpr, addr, pc, stored, overrun>> ELSE Loads(t, w)

Lwarx(t) ==
  /\ current = t /\ pc[t] = "lwarx" /\ todo[t] > 0
  /\ \E w \in Locations : do_indexed_load_conditional(t, w)
  /\ UNCHANGED <<mem, current, grant, eq, todo, budget>>

\* What an attempt to store leaves: the word, written if the page lets it, and
\* the task, which goes on unless it faulted.
Stores(t) ==
  IF grant = "rw"
  THEN /\ mem' = [mem EXCEPT ![addr[t]] = Plus1(gpr[t])]
       /\ stored' = [stored EXCEPT ![t] = TRUE]
       /\ pc' = [pc EXCEPT ![t] = "branch"]
  ELSE UNCHANGED <<mem, stored, pc>>

\* Mutant of do_indexed_store_conditional: CR0 is written only when it may store.
do_indexed_store_conditionalSilent(t) ==
  /\ reserve' = FALSE
  /\ IF reserve THEN eq' = [eq EXCEPT ![t] = TRUE] /\ Stores(t)
     ELSE pc' = [pc EXCEPT ![t] = "branch"] /\ UNCHANGED <<mem, stored, eq>>

\* Mutant of do_indexed_store_conditional: it stores whether or not it may.
do_indexed_store_conditionalAlways(t) ==
  /\ reserve' = FALSE
  /\ eq' = [eq EXCEPT ![t] = reserve]
  /\ Stores(t)

\* The attempt consumes the reservation and sets CR0 before it stores.
do_indexed_store_conditional(t) ==
  /\ reserve' = FALSE
  /\ eq' = [eq EXCEPT ![t] = reserve]
  /\ IF reserve THEN Stores(t)
     ELSE pc' = [pc EXCEPT ![t] = "branch"] /\ UNCHANGED <<mem, stored>>

Stwcx(t) ==
  /\ current = t /\ pc[t] = "stwcx"
  /\ do_indexed_store_conditional(t)
  /\ UNCHANGED <<current, grant, addr, gpr, todo, overrun, budget>>

\* bne- back to lwarx, or on to the next increment.
Branch(t) ==
  /\ current = t /\ pc[t] = "branch"
  /\ pc' = [pc EXCEPT ![t] = "lwarx"]
  /\ todo' = IF eq[t] THEN [todo EXCEPT ![t] = @ - 1] ELSE todo
  /\ UNCHANGED <<mem, reserve, current, grant, addr, gpr, eq, stored, overrun, budget>>

----------------------------------------------------------------------------
(* The system and the devices *)

\* The handler of a fault maps the page.
GrantPage ==
  /\ grant # "rw" /\ \E r \in {"ro", "rw"} : r # grant /\ grant' = r
  /\ UNCHANGED <<mem, reserve, current, pc, addr, gpr, eq, todo, stored, overrun, budget>>

RevokePage ==
  /\ budget > 0 /\ budget' = budget - 1
  /\ grant # "none" /\ grant' \in {"none", "ro"}
  /\ UNCHANGED <<mem, reserve, current, pc, addr, gpr, eq, todo, stored, overrun>>

\* A switch to another task, in which the system gives up the reservation with
\* a stwcx. of its own, as software for this architecture has to.
Switch(t) ==
  /\ t # current /\ current' = t
  /\ IF todo[current] = 0 THEN todo[t] > 0 /\ budget' = budget
     ELSE budget > 0 /\ budget' = budget - 1
  /\ reserve' = FALSE
  /\ UNCHANGED <<mem, grant, pc, addr, gpr, eq, todo, stored, overrun>>

\* Another bus master writes a word: ppcemu_snoop leaves the reservation alone.
DeviceWrites(w, v) ==
  /\ budget > 0 /\ budget' = budget - 1
  /\ mem' = [mem EXCEPT ![w] = v]
  /\ overrun' = [t \in Tasks |-> overrun[t] \/ addr[t] = w]
  /\ UNCHANGED <<reserve, current, grant, pc, addr, gpr, eq, todo, stored>>

Run == \E t \in Tasks : Lwarx(t) \/ Stwcx(t) \/ Branch(t)

TasksNext ==
  \/ Run
  \/ GrantPage
  \/ RevokePage
  \/ \E t \in Tasks : Switch(t)
  \/ \E w \in Locations, v \in Value : DeviceWrites(w, v)

TasksSpec == TasksInit /\ [][TasksNext]_taskVars
TasksFairSpec ==
  /\ TasksSpec
  /\ WF_taskVars(Run) /\ WF_taskVars(GrantPage)
  /\ WF_taskVars(\E t \in Tasks : Switch(t))

----------------------------------------------------------------------------
(* Properties *)

\* What stwcx. tells a task that goes on is the truth: EQ is set exactly when
\* its store was made, even if an earlier attempt at the same stwcx. had set it
\* and faulted (instr.h 186-194: CR0 is written before the store).
EqHonest == \A t \in Tasks : pc[t] = "branch" => (eq[t] <=> stored[t])

\* A store-conditional adds to what is in memory, not to something older: no
\* increment of another task is lost (instr.h 180-196, 262-278).  The code
\* cannot see the writes of devices, so they are excepted.
NoLostUpdate ==
  [][\A t \in Tasks :
       Stwcx(t) /\ stored'[t] /\ ~overrun[t] =>
         mem' = [mem EXCEPT ![addr[t]] = Plus1(mem[addr[t]])]]_taskVars

\* Every increment is made in the end: when nothing interrupts any more, the
\* loop of each task ends, although a fault consumes the reservation.
AllMade == <>(\A t \in Tasks : todo[t] = 0)
=============================================================================
