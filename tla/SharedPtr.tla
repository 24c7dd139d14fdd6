----------------------------- MODULE SharedPtr ------------------------------
(***************************************************************************)
(* MSharedPtr and MemoryResource<true>: shared pointers to the reference   *)
(* counted blocks of the memory manager, used by several threads.  A       *)
(* pointer is "not thread safe, sync before copying or moving": a thread   *)
(* has the pointers its operation works on for itself.  The count of a     *)
(* block is shared by all pointers to it, and changed without a lock.      *)
(***************************************************************************)
EXTENDS Naturals, FiniteSets

CONSTANTS
  Threads,
  Pointers,               (* the variables of type MSharedPtr              *)
  Blocks,                 (* what the memory manager hands out, and reuses *)
  null,
  MaxDrops                (* bound: references of a block lost by Drop     *)

ASSUME NullAssumption == null \notin Blocks \union Pointers
ASSUME PointersAssumption == IsFiniteSet(Pointers)
ASSUME ThreadsAssumption == IsFiniteSet(Threads)
ASSUME MaxDropsAssumption == MaxDrops \in Nat

VARIABLES
  ptr,                    (* BlockObject of each pointer                   *)
  RefCount,
  allocated,              (* the blocks that are not in their pool         *)
  op,                     (* what each thread does: it releases the        *)
                          (* pointer "source", or copies it to "target";   *)
                          (* "seen" is the count AddReference has read     *)
  dropped                 (* history: references lost by Drop              *)

vars == <<ptr, RefCount, allocated, op, dropped>>

Idle == [at |-> "idle", source |-> null, target |-> null, seen |-> 0]

Init ==
  /\ ptr = [p \in Pointers |-> null]
  /\ RefCount = [b \in Blocks |-> 0]
  /\ allocated = {}
  /\ op = [t \in Threads |-> Idle]
  /\ dropped = [b \in Blocks |-> 0]

(* No other operation has p, whose lock the caller would have to take.     *)
Free(p) == \A t \in Threads : p \notin {op[t].source, op[t].target}

(* The block that the operation of t is about. *)
Block(t) == ptr[op[t].source]

ThreadAt(t, from, to) ==
  /\ op[t].at = from
  /\ op' = [op EXCEPT ![t].at = to]

Begin(t, to, p, q) ==
  /\ op[t] = Idle
  /\ Free(p) /\ Free(q)
  /\ ptr[p] # null
  /\ op' = [op EXCEPT ![t] = [at |-> to, source |-> p, target |-> q, seen |-> 0]]
  /\ UNCHANGED <<ptr, RefCount, allocated, dropped>>

(* To assign to a pointer does not release what it points to. *)
Drop(p) ==
  /\ ptr[p] # null => dropped[ptr[p]] < MaxDrops
  /\ dropped' = [b \in Blocks |-> IF b = ptr[p] THEN dropped[b] + 1 ELSE dropped[b]]

-----------------------------------------------------------------------------
(* MakeSharedManaged: a block that nobody has, with a count of one. *)
MakeSharedManaged(p, b) ==
  /\ Free(p)
  /\ ptr[p] = null
  /\ b \notin allocated
  /\ allocated' = allocated \union {b}
  /\ RefCount' = [RefCount EXCEPT ![b] = 1]
  /\ ptr' = [ptr EXCEPT ![p] = b]
  /\ UNCHANGED <<op, dropped>>

(* Mutant: the source keeps what it points to. *)
Move_KeepsSource(p, q) ==
  /\ p # q
  /\ Free(p) /\ Free(q)
  /\ Drop(q)
  /\ ptr' = [ptr EXCEPT ![q] = ptr[p]]
  /\ UNCHANGED <<RefCount, allocated, op>>

(* Move construction and move assignment. *)
Move(p, q) ==
  /\ p # q
  /\ Free(p) /\ Free(q)
  /\ Drop(q)
  /\ ptr' = [ptr EXCEPT ![q] = ptr[p], ![p] = null]
  /\ UNCHANGED <<RefCount, allocated, op>>

(* Copy construction and copy assignment, of a pointer that is not null: a *)
(* null one is dereferenced.                                               *)
Copy(t, p, q) == p # q /\ Begin(t, "load", p, q)

(* AddReference: the first read of the count ... *)
LoadCount(t) ==
  /\ op[t].at = "load"
  /\ op' = [op EXCEPT ![t].at = "exchange", ![t].seen = RefCount[Block(t)]]
  /\ UNCHANGED <<ptr, RefCount, allocated, dropped>>

(* Mutant: the new count is stored without the comparison. *)
CompareExchange_Blind(t) ==
  /\ ThreadAt(t, "exchange", "assign")
  /\ RefCount' = [RefCount EXCEPT ![Block(t)] = op[t].seen + 1]
  /\ UNCHANGED <<ptr, allocated, dropped>>

(* Mutant: a thread that lost a race assigns the pointer all the same. *)
CompareExchange_Once(t) ==
  /\ ThreadAt(t, "exchange", "assign")
  /\ RefCount' = IF RefCount[Block(t)] # op[t].seen THEN RefCount
                 ELSE [RefCount EXCEPT ![Block(t)] = @ + 1]
  /\ UNCHANGED <<ptr, allocated, dropped>>

(* ... and the loop that increments it once it is what was read last, and  *)
(* gives up when that is zero.                                             *)
CompareExchange(t) ==
  LET count == RefCount[Block(t)]
      seen == op[t].seen
      done == seen \in {0, count}
  IN /\ op[t].at = "exchange"
     /\ op' = [op EXCEPT ![t].at = IF done THEN "assign" ELSE "exchange",
                         ![t].seen = count]
     /\ RefCount' = IF done /\ seen # 0 THEN [RefCount EXCEPT ![Block(t)] = count + 1]
                    ELSE RefCount
     /\ UNCHANGED <<ptr, allocated, dropped>>

Assign(t) ==
  /\ op[t].at = "assign"
  /\ Drop(op[t].target)
  /\ ptr' = [ptr EXCEPT ![op[t].target] = Block(t)]
  /\ op' = [op EXCEPT ![t] = Idle]
  /\ UNCHANGED <<RefCount, allocated>>

(* Reset and the destructor. *)
Reset(t, p) == Begin(t, "release", p, p)

(* Mutant: the count is read again to see whether it has come to zero. *)
ReleaseReference_ReadsAgain(t) ==
  \/ /\ ThreadAt(t, "release", "readAgain")
     /\ RefCount' = [RefCount EXCEPT ![Block(t)] = @ - 1]
     /\ UNCHANGED <<ptr, allocated, dropped>>
  \/ /\ ThreadAt(t, "readAgain", IF RefCount[Block(t)] = 0 THEN "destroy" ELSE "clear")
     /\ UNCHANGED <<ptr, RefCount, allocated, dropped>>

(* ReleaseReference: true for the last reference. *)
ReleaseReference(t) ==
  /\ ThreadAt(t, "release", IF RefCount[Block(t)] = 1 THEN "destroy" ELSE "clear")
  /\ RefCount' = [RefCount EXCEPT ![Block(t)] = @ - 1]
  /\ UNCHANGED <<ptr, allocated, dropped>>

(* Then ~T, and Destroy(false): the block goes back to its pool. *)
Destroy(t) ==
  /\ ThreadAt(t, "destroy", "clear")
  /\ allocated' = allocated \ {Block(t)}
  /\ UNCHANGED <<ptr, RefCount, dropped>>

Clear(t) ==
  /\ op[t].at = "clear"
  /\ ptr' = [ptr EXCEPT ![op[t].source] = null]
  /\ op' = [op EXCEPT ![t] = Idle]
  /\ UNCHANGED <<RefCount, allocated, dropped>>

Next ==
  \/ \E p \in Pointers, b \in Blocks : MakeSharedManaged(p, b)
  \/ \E p, q \in Pointers : Move(p, q)
  \/ \E t \in Threads :
       \/ \E p, q \in Pointers : Copy(t, p, q)
       \/ \E p \in Pointers : Reset(t, p)
       \/ LoadCount(t) \/ CompareExchange(t) \/ Assign(t)
       \/ ReleaseReference(t) \/ Destroy(t) \/ Clear(t)

Spec == Init /\ [][Next]_vars

-----------------------------------------------------------------------------
(***************************************************************************)
(* Properties.                                                             *)
(***************************************************************************)

(* The references to b: pointers to it that do not have given theirs up,   *)
(* and copies of them that were counted and not assigned yet.              *)
Holders(b) ==
  {p \in Pointers : ptr[p] = b
     /\ ~ \E t \in Threads : op[t].source = p /\ op[t].at \in {"destroy", "clear"}}

Copies(b) == {t \in Threads : op[t].at = "assign" /\ Block(t) = b}

(* The count is the number of references, and of those that assignments    *)
(* have lost, however AddReference and ReleaseReference interleave: a      *)
(* block nobody dropped a reference of is given back by its last pointer.  *)
ReferencesAreExact ==
  \A b \in Blocks :
    RefCount[b] = Cardinality(Holders(b)) + Cardinality(Copies(b)) + dropped[b]

(* No pointer leads to a block that is back in its pool, except the one    *)
(* whose owner has just given up its reference.                            *)
NoDanglingPointer ==
  \A p \in Pointers : ptr[p] \notin allocated \union {null} =>
    \E t \in Threads : op[t].source = p /\ op[t].at = "clear"

(* A block is destroyed by one thread, with no pointer left that leads to  *)
(* it but those that have given up their references.                       *)
DestroyedByTheLast ==
  \A t \in Threads : op[t].at = "destroy" =>
    /\ Block(t) \in allocated
    /\ Holders(Block(t)) = {}
    /\ \A u \in Threads \ {t} : op[u].at = "destroy" => Block(u) # Block(t)

(* A thread that adds a reference never finds the count at zero: to give   *)
(* up there, and assign the pointer all the same, never happens.           *)
NoReferenceFromZero ==
  \A t \in Threads : op[t].at = "exchange" => op[t].seen > 0

-----------------------------------------------------------------------------
(***************************************************************************)
(* The inductive invariant.                                                *)
(***************************************************************************)
Copying   == {"load", "exchange", "assign"}
Releasing == {"release", "destroy", "clear"}

TypeOK ==
  /\ ptr \in [Pointers -> Blocks \union {null}]
  /\ RefCount \in [Blocks -> Nat]
  /\ allocated \in SUBSET Blocks
  /\ op \in [Threads -> [at : {"idle"} \union Copying \union Releasing,
                       source : Pointers \union {null},
                       target : Pointers \union {null}, seen : Nat]]
  /\ dropped \in [Blocks -> Nat]

(* A thread inside an operation has its pointers, and its source is no     *)
(* null pointer, until it is done.                                         *)
Engaged ==
  \A t \in Threads :
    \/ op[t] = Idle
    \/ /\ {op[t].source, op[t].target} \subseteq Pointers
       /\ Block(t) \in Blocks
       /\ \/ op[t].at \in Copying /\ op[t].source # op[t].target
          \/ op[t].at \in Releasing /\ op[t].source = op[t].target

(* No two threads have the same pointer. *)
Exclusive ==
  \A t, u \in Threads : t # u =>
    {op[t].source, op[t].target} \intersect {op[u].source, op[u].target} \subseteq {null}

(* A block in its pool has no references. *)
PooledUnreferenced == \A b \in Blocks \ allocated : RefCount[b] = 0

(* Nor has one that is being destroyed. *)
DestroyedUnreferenced ==
  \A t \in Threads : op[t].at = "destroy" => RefCount[Block(t)] = 0

IInv ==
  /\ TypeOK
  /\ Engaged
  /\ Exclusive
  /\ ReferencesAreExact
  /\ PooledUnreferenced
  /\ DestroyedUnreferenced
  /\ NoDanglingPointer
  /\ DestroyedByTheLast
  /\ NoReferenceFromZero
=============================================================================
