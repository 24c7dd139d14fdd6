---------------------------- MODULE TObjectPool -----------------------------
(***************************************************************************)
(* TObjectPool<T, PoolSize, bUseSpinLock>: a ring of memory blocks.        *)
(* Allocate takes what it finds in the slot under HeadPosition, Deallocate *)
(* leaves its block in the slot under TailPosition.  A slot that turns out *)
(* empty costs an allocation from the operating system, one that turns out *)
(* taken costs a free of the block found there: neither counter ever looks *)
(* at the other.                                                           *)
(*                                                                         *)
(* With the spin lock the counter and the slot are plain memory and only   *)
(* the lock keeps other threads out; without it each is one interlocked    *)
(* instruction, with a window between the two.                             *)
(***************************************************************************)
EXTENDS Integers, FiniteSets

CONSTANTS
  Threads,
  Blocks,           (* addresses GAllocate may return                      *)
  NULL,             (* nullptr                                             *)
  PoolSize,
  MaxAllocate       (* bound: calls of Allocate in a behaviour             *)

ASSUME PoolSizeAssumption ==
  PoolSize \in Nat \ {0} /\ \E n \in 0 .. PoolSize : PoolSize = 2 ^ n
ASSUME NullAssumption == NULL \notin Blocks \union Threads
ASSUME BlocksAssumption == IsFiniteSet(Blocks) /\ IsFiniteSet(Threads)

Slots == 0 .. PoolSize - 1

VARIABLES
  bUseSpinLock,     (* template argument: it never changes                 *)
  Pool,             (* the ring                                            *)
  HeadPosition,     (* Allocate calls that claimed a slot                  *)
  TailPosition,     (* Deallocate calls that claimed a slot                *)
  lock,             (* the thread inside SpinLock, NULL if there is none   *)
  pc, op,           (* where the thread is, in Allocate or in Deallocate   *)
  slot,             (* the slot it claimed                                 *)
  found,            (* Allocated or PrevVal: what was in that slot         *)
  obj,              (* the argument of Deallocate                          *)
  inUse,            (* blocks handed out and not given back                *)
  os,               (* blocks of the operating system                      *)
  TotalAllocations, TotalDeallocations, TotalOSAllocations, TotalOSDeallocations,
  preallocated,     (* history: slots Preallocate filled                   *)
  overdrawn         (* history: more objects were out than slots exist     *)

ring    == <<Pool, HeadPosition, TailPosition>>
calls   == <<pc, op, slot, found, obj>>
memory  == <<inUse, os>>
totals  == <<TotalAllocations, TotalDeallocations, TotalOSAllocations, TotalOSDeallocations>>
given   == <<bUseSpinLock, preallocated>>
history == <<given, overdrawn>>
vars    == <<ring, lock, calls, memory, totals, history>>

(* Preallocate fills the slots from the first on and stops at the first    *)
(* failure of GAllocate; it may also never be called.                      *)
Preallocated(p, n) ==
  /\ \A i \in Slots : IF i < n THEN p[i] \in Blocks ELSE p[i] = NULL
  /\ \A i, j \in Slots : p[i] = p[j] /\ p[i] # NULL => i = j

Init ==
  /\ bUseSpinLock \in BOOLEAN
  /\ preallocated \in 0 .. PoolSize
  /\ Pool \in [Slots -> Blocks \union {NULL}]
  /\ Preallocated(Pool, preallocated)
  /\ HeadPosition = 0
  /\ TailPosition = 0
  /\ lock = NULL
  /\ pc = [t \in Threads |-> "idle"]
  /\ op = [t \in Threads |-> "Allocate"]
  /\ slot = [t \in Threads |-> 0]
  /\ found = [t \in Threads |-> NULL]
  /\ obj = [t \in Threads |-> NULL]
  /\ inUse = {}
  /\ os = {b \in Blocks : \A i \in Slots : Pool[i] # b}
  /\ TotalAllocations = 0
  /\ TotalDeallocations = 0
  /\ TotalOSAllocations = 0
  /\ TotalOSDeallocations = 0
  /\ overdrawn = FALSE

-----------------------------------------------------------------------------
(***************************************************************************)
(* Claiming a slot and swapping its content.                               *)
(***************************************************************************)

Enter(t, operation) ==
  /\ pc' = [pc EXCEPT ![t] = IF bUseSpinLock THEN "lock" ELSE "claim"]
  /\ op' = [op EXCEPT ![t] = operation]

Allocate(t) ==
  /\ pc[t] = "idle"
  /\ HeadPosition < MaxAllocate
  /\ Enter(t, "Allocate")
  /\ UNCHANGED <<ring, lock, slot, found, obj, memory, totals, history>>

(* The destructor of the object runs first. *)
Deallocate(t, b) ==
  /\ pc[t] = "idle"
  /\ b \in inUse
  /\ inUse' = inUse \ {b}
  /\ obj' = [obj EXCEPT ![t] = b]
  /\ Enter(t, "Deallocate")
  /\ UNCHANGED <<ring, lock, slot, found, os, totals, history>>

(* Mutant: test and set are two steps, and nobody tests. *)
Lock_NoTest(t) ==
  /\ pc[t] = "lock"
  /\ lock' = t
  /\ pc' = [pc EXCEPT ![t] = "claim"]
  /\ UNCHANGED <<ring, op, slot, found, obj, memory, totals, history>>

(* SpinLock::Lock; the thread spins while another holds it. *)
Lock(t) ==
  /\ pc[t] = "lock"
  /\ lock = NULL
  /\ lock' = t
  /\ pc' = [pc EXCEPT ![t] = "claim"]
  /\ UNCHANGED <<ring, op, slot, found, obj, memory, totals, history>>

ClaimHead(t) ==
  /\ op[t] = "Allocate"
  /\ slot' = [slot EXCEPT ![t] = HeadPosition % PoolSize]
  /\ HeadPosition' = HeadPosition + 1
  /\ UNCHANGED TailPosition

(* Mutant: the slot after the one the counter stood for. *)
ClaimTail_PreIncrement(t) ==
  /\ op[t] = "Deallocate"
  /\ slot' = [slot EXCEPT ![t] = (TailPosition + 1) % PoolSize]
  /\ TailPosition' = TailPosition + 1
  /\ UNCHANGED HeadPosition

ClaimTail(t) ==
  /\ op[t] = "Deallocate"
  /\ slot' = [slot EXCEPT ![t] = TailPosition % PoolSize]
  /\ TailPosition' = TailPosition + 1
  /\ UNCHANGED HeadPosition

Claim(t) ==
  /\ pc[t] = "claim"
  /\ ClaimHead(t) \/ ClaimTail(t)
  /\ pc' = [pc EXCEPT ![t] = IF bUseSpinLock THEN "read" ELSE "swap"]
  /\ overdrawn' = (overdrawn \/ HeadPosition' - TailPosition' > PoolSize)
  /\ UNCHANGED <<Pool, lock, op, found, obj, memory, totals, given>>

(* What the call leaves in its slot. *)
Left(t) == IF op[t] = "Allocate" THEN NULL ELSE obj[t]

(* InterlockedExchangePointer *)
Swap(t) ==
  /\ pc[t] = "swap"
  /\ found' = [found EXCEPT ![t] = Pool[slot[t]]]
  /\ Pool' = [Pool EXCEPT ![slot[t]] = Left(t)]
  /\ pc' = [pc EXCEPT ![t] = "swapped"]
  /\ UNCHANGED <<HeadPosition, TailPosition, lock, op, slot, obj, memory, totals, history>>

ReadSlot(t) ==
  /\ pc[t] = "read"
  /\ found' = [found EXCEPT ![t] = Pool[slot[t]]]
  /\ pc' = [pc EXCEPT ![t] = "write"]
  /\ UNCHANGED <<ring, lock, op, slot, obj, memory, totals, history>>

(* The slot is written and the guard goes out of scope: Unlock. *)
WriteSlot(t) ==
  /\ pc[t] = "write"
  /\ Pool' = [Pool EXCEPT ![slot[t]] = Left(t)]
  /\ lock' = NULL
  /\ pc' = [pc EXCEPT ![t] = "swapped"]
  /\ UNCHANGED <<HeadPosition, TailPosition, op, slot, found, obj, memory, totals, history>>

-----------------------------------------------------------------------------
(***************************************************************************)
(* What the call makes of the content it found.                            *)
(***************************************************************************)
Swapped(t, operation) ==
  /\ pc[t] = "swapped"
  /\ op[t] = operation
  /\ pc' = [pc EXCEPT ![t] = "idle"]
  /\ found' = [found EXCEPT ![t] = NULL]
  /\ obj' = [obj EXCEPT ![t] = NULL]
  /\ UNCHANGED <<ring, lock, op, slot, history>>

AllocatedFromPool(t) ==
  /\ found[t] # NULL
  /\ inUse' = inUse \union {found[t]}
  /\ TotalAllocations' = TotalAllocations + 1
  /\ Swapped(t, "Allocate")
  /\ UNCHANGED <<os, TotalDeallocations, TotalOSAllocations, TotalOSDeallocations>>

AllocatedFromOS(t) ==
  /\ found[t] = NULL
  /\ \E b \in os :
       /\ os' = os \ {b}
       /\ inUse' = inUse \union {b}
  /\ TotalOSAllocations' = TotalOSAllocations + 1
  /\ TotalAllocations' = TotalAllocations + 1
  /\ Swapped(t, "Allocate")
  /\ UNCHANGED <<TotalDeallocations, TotalOSDeallocations>>

(* GAllocate fails: nullptr, with the slot claimed for nothing. *)
AllocateFails(t) ==
  /\ found[t] = NULL
  /\ Swapped(t, "Allocate")
  /\ UNCHANGED <<memory, totals>>

DeallocatedToPool(t) ==
  /\ found[t] = NULL
  /\ TotalDeallocations' = TotalDeallocations + 1
  /\ Swapped(t, "Deallocate")
  /\ UNCHANGED <<memory, TotalAllocations, TotalOSAllocations, TotalOSDeallocations>>

(* Mutant: the early return is gone, the call is counted twice. *)
DeallocatedToOS_CountsBoth(t) ==
  /\ found[t] # NULL
  /\ os' = os \union {found[t]}
  /\ TotalOSDeallocations' = TotalOSDeallocations + 1
  /\ TotalDeallocations' = TotalDeallocations + 1
  /\ Swapped(t, "Deallocate")
  /\ UNCHANGED <<inUse, TotalAllocations, TotalOSAllocations>>

(* GFree(PrevVal), and return before TotalDeallocations is counted. *)
DeallocatedToOS(t) ==
  /\ found[t] # NULL
  /\ os' = os \union {found[t]}
  /\ TotalOSDeallocations' = TotalOSDeallocations + 1
  /\ Swapped(t, "Deallocate")
  /\ UNCHANGED <<inUse, TotalAllocations, TotalDeallocations, TotalOSAllocations>>

-----------------------------------------------------------------------------
Exchange(t) == Lock(t) \/ Claim(t) \/ Swap(t) \/ ReadSlot(t) \/ WriteSlot(t)

Finish(t) ==
  \/ AllocatedFromPool(t) \/ AllocatedFromOS(t) \/ AllocateFails(t)
  \/ DeallocatedToPool(t) \/ DeallocatedToOS(t)

Next ==
  \E t \in Threads :
    \/ Allocate(t)
    \/ \E b \in Blocks : Deallocate(t, b)
    \/ Exchange(t)
    \/ Finish(t)

Spec == Init /\ [][Next]_vars

-----------------------------------------------------------------------------
Pcs == {"idle", "lock", "claim", "swap", "read", "write", "swapped"}

TypeOK ==
  /\ bUseSpinLock \in BOOLEAN
  /\ Pool \in [Slots -> Blocks \union {NULL}]
  /\ HeadPosition \in Nat
  /\ TailPosition \in Nat
  /\ lock \in Threads \union {NULL}
  /\ pc \in [Threads -> Pcs]
  /\ op \in [Threads -> {"Allocate", "Deallocate"}]
  /\ slot \in [Threads -> Slots]
  /\ found \in [Threads -> Blocks \union {NULL}]
  /\ obj \in [Threads -> Blocks \union {NULL}]
  /\ inUse \in SUBSET Blocks
  /\ os \in SUBSET Blocks
  /\ TotalAllocations \in Nat
  /\ TotalDeallocations \in Nat
  /\ TotalOSAllocations \in Nat
  /\ TotalOSDeallocations \in Nat
  /\ preallocated \in 0 .. PoolSize
  /\ overdrawn \in BOOLEAN

(* The block a thread took out of a slot, and the block it has yet to put  *)
(* into one: no other thread can reach either.                             *)
TakenOut(t) == IF pc[t] = "swapped" THEN found[t] ELSE NULL

ToPutIn(t) ==
  IF op[t] = "Deallocate" /\ pc[t] \in Pcs \ {"idle", "swapped"} THEN obj[t] ELSE NULL

Places ==
  ({"slot"} \X Slots) \union ({"out", "in"} \X Threads)
    \union {<<"program", NULL>>, <<"system", NULL>>}

Content(place) ==
  LET block(b) == {b} \ {NULL} IN
  CASE place[1] = "slot"    -> block(Pool[place[2]])
    [] place[1] = "out"     -> block(TakenOut(place[2]))
    [] place[1] = "in"      -> block(ToPutIn(place[2]))
    [] place[1] = "program" -> inUse
    [] place[1] = "system"  -> os

(* Every block is in exactly one place: in one slot, in the hands of one   *)
(* thread, handed out, or given back to the system.  So no block is handed *)
(* out twice, freed while it is in the ring, or lost.                      *)
OneOwner ==
  /\ \A b \in Blocks : \E p \in Places : b \in Content(p)
  /\ \A p, q \in Places : p # q => Content(p) \intersect Content(q) = {}

(* The four totals account for every block: for those taken from the       *)
(* system, and for those in the program.  A Deallocate that frees to the   *)
(* system is in the third and the fourth only.                             *)
TotalsAddUp ==
  /\ preallocated + TotalOSAllocations - TotalOSDeallocations = Cardinality(Blocks \ os)
  /\ TotalAllocations - TotalDeallocations - TotalOSDeallocations =
       Cardinality(inUse)
         + Cardinality({t \in Threads : op[t] = "Deallocate" /\ pc[t] # "idle"})

(* A ring that Preallocate filled serves a program that never has more     *)
(* than PoolSize objects out without going to the system: under the lock   *)
(* the slot of HeadPosition is full and the slot of TailPosition is empty. *)
PoolAbsorbs ==
  bUseSpinLock /\ preallocated = PoolSize /\ ~ overdrawn =>
    TotalOSAllocations = 0 /\ TotalOSDeallocations = 0

-----------------------------------------------------------------------------
(***************************************************************************)
(* The inductive invariant of OneOwner and TotalsAddUp.                    *)
(***************************************************************************)

(* With the spin lock only the thread that holds it is at a slot; without, *)
(* nobody goes through the steps it protects.                              *)
LockIsHeld ==
  \A t \in Threads :
    IF bUseSpinLock
    THEN pc[t] # "swap" /\ (pc[t] \in {"claim", "read", "write"} => lock = t)
    ELSE pc[t] \notin {"lock", "read", "write"}

(* What a thread has read is in the slot until the thread itself writes. *)
ReadIsCurrent ==
  \A t \in Threads : pc[t] = "write" => found[t] = Pool[slot[t]]

IInv == TypeOK /\ LockIsHeld /\ ReadIsCurrent /\ OneOwner /\ TotalsAddUp

-----------------------------------------------------------------------------
(***************************************************************************)
(* What PoolAbsorbs needs in addition: TailPosition is never ahead of      *)
(* HeadPosition, and as long as the ring is enough, the slots from         *)
(* TailPosition to HeadPosition are the empty ones, except for the one     *)
(* that the holder of the lock has claimed and not written yet.            *)
(***************************************************************************)
Claimed(operation) ==
  {t \in Threads : op[t] = operation /\ pc[t] \in {"swap", "read", "write", "swapped"}}

(* Every return counts in a total, but not the failure of an allocation. *)
CallsAreCounted ==
  /\ TotalAllocations + Cardinality(Claimed("Allocate")) <= HeadPosition
  /\ TotalDeallocations + TotalOSDeallocations + Cardinality(Claimed("Deallocate")) = TailPosition

ObjectIsGiven == \A t \in Threads : op[t] = "Deallocate" /\ pc[t] # "idle" => obj[t] # NULL

IsEnough == bUseSpinLock /\ preallocated = PoolSize /\ ~ overdrawn

Writes(t, operation) == op[t] = operation /\ pc[t] \in {"read", "write"}

RingIsWindow ==
  /\ HeadPosition <= TailPosition + PoolSize
  /\ \A i \in TailPosition .. HeadPosition - 1 :
       \/ Pool[i % PoolSize] = NULL
       \/ i = HeadPosition - 1 /\ \E t \in Threads : Writes(t, "Allocate")
  /\ \A i \in HeadPosition .. TailPosition + PoolSize - 1 :
       \/ Pool[i % PoolSize] # NULL
       \/ i = TailPosition + PoolSize - 1 /\ \E t \in Threads : Writes(t, "Deallocate")

(* The claimed slot is full for an Allocate and empty for a Deallocate. *)
ClaimIsServed ==
  \A t \in Threads :
    /\ Writes(t, "Allocate") =>
         /\ TailPosition < HeadPosition
         /\ slot[t] = (HeadPosition - 1) % PoolSize
         /\ Pool[slot[t]] # NULL
    /\ Writes(t, "Deallocate") =>
         /\ HeadPosition < TailPosition + PoolSize
         /\ slot[t] = (TailPosition + PoolSize - 1) % PoolSize
         /\ Pool[slot[t]] = NULL
    /\ pc[t] = "swapped" => (found[t] = NULL <=> op[t] = "Deallocate")

RInv ==
  /\ CallsAreCounted
  /\ ObjectIsGiven
  /\ IsEnough => RingIsWindow /\ ClaimIsServed
  /\ PoolAbsorbs
=============================================================================
