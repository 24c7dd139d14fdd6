------------------------ MODULE ServerControllerProofs ------------------------
(***************************************************************************)
(* Part 1, the group of workers, for any number of workers and starts: the *)
(* loops of Stop and JoinGroup stay inside of the array, RunningWorkers is *)
(* exact outside of Start, the shutdown of the group is not forgotten, no  *)
(* thread joins itself, and the destructor finds no joinable thread.       *)
(*                                                                         *)
(* Part 2, the controller that uses the group: the accept thread has ended *)
(* when StopTask runs, StopTask runs once for each StartTask, the          *)
(* destruction of a controller is quiet, and leaves nobody behind.  The    *)
(* group is used through its own invariant, which part 1 shows to survive  *)
(* every step of the group.                                                *)
(***************************************************************************)
EXTENDS ServerController, FiniteSetTheorems, TLAPS

-----------------------------------------------------------------------------
(* Part 1: WorkerGroup.  Workers and the sets that are counted. *)

LEMMA ThreadCountIs ==
  ASSUME TypeOK
  PROVE  /\ ThreadCount \in Nat /\ ThreadCount <= TotalWorkers
         /\ bIncludeMainThread => ThreadCount = TotalWorkers - 1
         /\ ~ bIncludeMainThread => ThreadCount = TotalWorkers
  BY TotalWorkersAssumption DEF ThreadCount, TypeOK

LEMMA FiniteWorkers ==
  /\ IsFiniteSet(Workers)
  /\ \A S \in SUBSET Workers : IsFiniteSet(S) /\ Cardinality(S) \in Nat
<1>1. IsFiniteSet(Workers)
  BY TotalWorkersAssumption, FS_Interval DEF Workers
<1> QED
  BY <1>1, FS_Subset, FS_CardinalityType

LEMMA OneMore ==
  ASSUME NEW S \in SUBSET Workers, NEW w \in Workers, w \notin S
  PROVE  Cardinality(S \union {w}) = Cardinality(S) + 1
  BY FiniteWorkers, FS_AddElement

LEMMA OneLess ==
  ASSUME NEW S \in SUBSET Workers, NEW w \in S
  PROVE  Cardinality(S \ {w}) = Cardinality(S) - 1
  BY FiniteWorkers, FS_RemoveElement

LEMMA OnlyOne ==
  ASSUME NEW S \in SUBSET Workers, NEW w \in S, S \ {w} = {}
  PROVE  Cardinality(S) = 1
<1>1. S = {w}
  OBVIOUS
<1> QED
  BY <1>1, FS_Singleton

LEMMA WorkersAre ==
  /\ \A w \in Workers : w \in Nat /\ w < TotalWorkers
  /\ \A w \in Nat : w < TotalWorkers => w \in Workers
  /\ Main \notin Workers /\ 0 \in Workers
  BY TotalWorkersAssumption, MainAssumption DEF Workers

LEMMA IndexIsWorker ==
  ASSUME TypeOK, index < ThreadCount
  PROVE  index \in Workers /\ index \in Nat
<1>1. index \in Nat
  BY TotalWorkersAssumption DEF TypeOK
<1>2. index < TotalWorkers
  BY <1>1, ThreadCountIs, TotalWorkersAssumption
<1> QED
  BY <1>1, <1>2, WorkersAre

-----------------------------------------------------------------------------
(* What a step that does not count preserves. *)

LEMMA CountsKept ==
  ASSUME IInv, UNCHANGED <<RunningWorkers, step, index, given>>,
         step \in InLoop => joinable' = joinable,
         ~ failed' => ~ failed /\ Active' = Active /\ Reported' = Reported,
         ShutdownComes => ShutdownComes'
  PROVE  CountedInLoop' /\ CountedOutside' /\ LastIsKnown'
<1> USE DEF given
<1>1. Reached' = Reached /\ ThreadCount' = ThreadCount
  BY DEF Reached, ThreadCount
<1>2. ~ failed' /\ step \in InLoop => (Doomed' <=> Doomed)
  BY <1>1 DEF Doomed
<1>3. CountedInLoop'
  BY <1>1, <1>2 DEF IInv, CountedInLoop
<1>4. CountedOutside'
  BY DEF IInv, CountedOutside
<1>5. LastIsKnown'
  BY <1>1, <1>2 DEF IInv, LastIsKnown
<1> QED
  BY <1>3, <1>4, <1>5

(* RunImpl: a worker goes on. *)
LEMMA WorkerGoesOn ==
  ASSUME IInv, NEW w \in Workers, NEW from \in Runs \ {"none", "ended"}, NEW to \in Runs,
         RunAt(w, from, to), to # "none",
         stop[w] # "none" => to = "task",
         UNCHANGED <<joinable, call, startVars, stopVars, given, terminated, starts>>,
         RunningWorkers' \in Int, RunningWorkers' <= RunningWorkers,
         groupRunning' \in BOOLEAN, running' \in [Workers -> BOOLEAN],
         Status' \in [Workers -> BOOLEAN], failed' \in BOOLEAN, shutdowns' \in Nat
  PROVE  /\ TypeOK' /\ MainIsSomewhere' /\ ThreadsAreOwned' /\ CounterIsBounded'
         /\ IndexInBounds' /\ JoinedForDestruction'
         /\ run'[w] = to /\ \A v \in Workers : v # w => run'[v] = run[v]
<1> USE DEF startVars, stopVars, given
<1>1. /\ run \in [Workers -> Runs] /\ run' = [run EXCEPT ![w] = to] /\ run[w] = from
  BY DEF RunAt, IInv, TypeOK
<1>2. /\ run' \in [Workers -> Runs] /\ run'[w] = to
      /\ \A v \in Workers : v # w => run'[v] = run[v]
  BY <1>1
<1>3. TypeOK'
  BY <1>2 DEF IInv, TypeOK, Workers, Callers
<1>4. ThreadCount' = ThreadCount
  BY DEF ThreadCount
<1>5. ThreadsAreOwned'
  <2>1. \A v \in Workers : v < ThreadCount /\ ~ joinable[v] => v # w
    BY <1>1 DEF IInv, ThreadsAreOwned
  <2>2. \A v \in Workers : v >= ThreadCount => step = "runMain" \/ v # w
    BY <1>1 DEF IInv, ThreadsAreOwned
  <2> QED
    BY <1>2, <1>4, <2>1, <2>2 DEF IInv, ThreadsAreOwned
<1>6. MainIsSomewhere'
  BY <1>4 DEF IInv, MainIsSomewhere
<1>7. CounterIsBounded'
  BY TotalWorkersAssumption DEF IInv, CounterIsBounded, TypeOK
<1>8. IndexInBounds' /\ JoinedForDestruction'
  BY DEF IInv, IndexInBounds, JoinedForDestruction
<1> QED
  BY <1>2, <1>3, <1>5, <1>6, <1>7, <1>8

LEMMA InitializeWorkerStep ==
  ASSUME IInv, NEW w \in Workers, InitializeWorker(w)
  PROVE  IInv'
<1>1. PICK s \in BOOLEAN : /\ Status' = [Status EXCEPT ![w] = s]
                           /\ failed' = (failed \/ ~ s)
  BY DEF InitializeWorker
<1>2. /\ RunAt(w, "initialize", "announce") /\ run[w] = "initialize"
      /\ UNCHANGED <<flags, joinable, call, startVars, stopVars, starts, shutdowns, given, terminated>>
  BY DEF InitializeWorker, RunAt
<1>3. /\ Status' \in [Workers -> BOOLEAN] /\ Status'[w] = s
      /\ \A v \in Workers : v # w => Status'[v] = Status[v]
      /\ failed' \in BOOLEAN /\ (~ failed' => ~ failed /\ s)
  BY <1>1 DEF IInv, TypeOK
<1>4. stop[w] = "none"
  BY <1>2 DEF IInv, ThreadsAreOwned
<1>5. /\ RunningWorkers' \in Int /\ RunningWorkers' <= RunningWorkers /\ shutdowns' \in Nat
      /\ groupRunning' \in BOOLEAN /\ running' \in [Workers -> BOOLEAN]
  BY <1>2 DEF flags, IInv, TypeOK
<1>6. /\ TypeOK' /\ MainIsSomewhere' /\ ThreadsAreOwned' /\ CounterIsBounded'
      /\ IndexInBounds' /\ JoinedForDestruction'
      /\ run'[w] = "announce" /\ \A v \in Workers : v # w => run'[v] = run[v]
  BY <1>2, <1>3, <1>4, <1>5, WorkerGoesOn DEF Runs
<1>7. FlagsAreFresh'
  BY <1>2, <1>3, <1>6 DEF IInv, FlagsAreFresh, flags
<1>8. Active' = Active /\ Reported' = Reported /\ (ShutdownComes => ShutdownComes')
  BY <1>2, <1>6 DEF Active, Reported, ShutdownComes
<1>9. CountedInLoop' /\ CountedOutside' /\ LastIsKnown'
  BY <1>2, <1>3, <1>8, CountsKept DEF flags, startVars
<1> QED
  BY <1>6, <1>7, <1>9 DEF IInv

LEMMA AnnounceStep ==
  ASSUME IInv, NEW w \in Workers, Announce(w)
  PROVE  IInv'
<1>1. PICK to \in {"task", "ended"} : to = IF Status[w] THEN "task" ELSE "ended"
  OBVIOUS
<1>2. /\ RunAt(w, "announce", to) /\ run[w] = "announce"
      /\ running' = [running EXCEPT ![w] = TRUE]
      /\ UNCHANGED <<RunningWorkers, groupRunning, Status, joinable, call, startVars,
                     stopVars, history, given, terminated>>
  BY <1>1 DEF Announce, RunAt
<1>3. /\ running' \in [Workers -> BOOLEAN]
      /\ \A v \in Workers : v # w => running'[v] = running[v]
  BY <1>2 DEF IInv, TypeOK
<1>4. stop[w] = "none"
  BY <1>2 DEF IInv, ThreadsAreOwned
<1>5. /\ RunningWorkers' \in Int /\ RunningWorkers' <= RunningWorkers /\ shutdowns' \in Nat
      /\ groupRunning' \in BOOLEAN /\ Status' \in [Workers -> BOOLEAN] /\ failed' \in BOOLEAN
      /\ failed' = failed
  BY <1>2 DEF history, IInv, TypeOK
<1>6. /\ TypeOK' /\ MainIsSomewhere' /\ ThreadsAreOwned' /\ CounterIsBounded'
      /\ IndexInBounds' /\ JoinedForDestruction'
      /\ run'[w] = to /\ \A v \in Workers : v # w => run'[v] = run[v]
  BY <1>2, <1>3, <1>4, <1>5, WorkerGoesOn DEF Runs, history
<1>7. ~ failed => to = "task"
  BY <1>1 DEF IInv, FlagsAreFresh
<1>8. FlagsAreFresh'
  BY <1>2, <1>3, <1>5, <1>6, <1>7 DEF IInv, FlagsAreFresh
<1>9. /\ ~ failed => Active' = Active /\ Reported' = Reported
      /\ ShutdownComes => ShutdownComes'
  BY <1>2, <1>6, <1>7 DEF Active, Reported, ShutdownComes, history
<1>10. CountedInLoop' /\ CountedOutside' /\ LastIsKnown'
  BY <1>2, <1>5, <1>9, CountsKept DEF startVars
<1> QED
  BY <1>6, <1>8, <1>10 DEF IInv

LEMMA TaskReturnsStep ==
  ASSUME IInv, NEW w \in Workers, TaskReturns(w)
  PROVE  IInv'
<1>1. /\ RunAt(w, "task", "clear") /\ run[w] = "task" /\ stop[w] = "none"
      /\ UNCHANGED <<flags, Status, joinable, call, startVars, stopVars, history, given, terminated>>
  BY DEF TaskReturns, RunAt
<1>2. /\ RunningWorkers' \in Int /\ RunningWorkers' <= RunningWorkers /\ shutdowns' \in Nat
      /\ groupRunning' \in BOOLEAN /\ Status' \in [Workers -> BOOLEAN] /\ failed' \in BOOLEAN
      /\ running' \in [Workers -> BOOLEAN] /\ failed' = failed
  BY <1>1 DEF flags, history, IInv, TypeOK
<1>3. /\ TypeOK' /\ MainIsSomewhere' /\ ThreadsAreOwned' /\ CounterIsBounded'
      /\ IndexInBounds' /\ JoinedForDestruction'
      /\ run'[w] = "clear" /\ \A v \in Workers : v # w => run'[v] = run[v]
  BY <1>1, <1>2, WorkerGoesOn DEF Runs, history
<1>4. FlagsAreFresh'
  BY <1>1, <1>2, <1>3 DEF IInv, FlagsAreFresh, flags
<1>5. Active' = Active /\ Reported' = Reported /\ (ShutdownComes => ShutdownComes')
  BY <1>1, <1>3 DEF Active, Reported, ShutdownComes, history
<1>6. CountedInLoop' /\ CountedOutside' /\ LastIsKnown'
  BY <1>1, <1>2, <1>5, CountsKept DEF flags, startVars
<1> QED
  BY <1>3, <1>4, <1>6 DEF IInv

LEMMA ClearRunningStep ==
  ASSUME IInv, NEW w \in Workers, ClearRunning(w)
  PROVE  IInv'
<1>1. /\ RunAt(w, "clear", "report") /\ run[w] = "clear"
      /\ running' = [running EXCEPT ![w] = FALSE]
      /\ UNCHANGED <<RunningWorkers, groupRunning, Status, joinable, call, startVars,
                     stopVars, history, given, terminated>>
  BY DEF ClearRunning, RunAt
<1>2. /\ running' \in [Workers -> BOOLEAN] /\ ~ running'[w]
      /\ \A v \in Workers : v # w => running'[v] = running[v]
  BY <1>1 DEF IInv, TypeOK
<1>3. /\ RunningWorkers' \in Int /\ RunningWorkers' <= RunningWorkers /\ shutdowns' \in Nat
      /\ groupRunning' \in BOOLEAN /\ Status' \in [Workers -> BOOLEAN] /\ failed' \in BOOLEAN
      /\ failed' = failed
  BY <1>1 DEF history, IInv, TypeOK
<1>4. stop[w] = "none"
  BY <1>1 DEF IInv, ThreadsAreOwned
<1>5. /\ TypeOK' /\ MainIsSomewhere' /\ ThreadsAreOwned' /\ CounterIsBounded'
      /\ IndexInBounds' /\ JoinedForDestruction'
      /\ run'[w] = "report" /\ \A v \in Workers : v # w => run'[v] = run[v]
  BY <1>1, <1>2, <1>3, <1>4, WorkerGoesOn DEF Runs, history
<1>6. FlagsAreFresh'
  BY <1>1, <1>2, <1>3, <1>5 DEF IInv, FlagsAreFresh
<1>7. Active' = Active /\ Reported' = Reported /\ (ShutdownComes => ShutdownComes')
  BY <1>1, <1>5 DEF Active, Reported, ShutdownComes, history
<1>8. CountedInLoop' /\ CountedOutside' /\ LastIsKnown'
  BY <1>1, <1>3, <1>7, CountsKept DEF startVars
<1> QED
  BY <1>5, <1>6, <1>8 DEF IInv

LEMMA OnWorkerShutdownStep ==
  ASSUME IInv, NEW w \in Workers, OnWorkerShutdown(w)
  PROVE  IInv'
<1>1. PICK to \in {"ended", "groupShutdown"} :
        to = IF RunningWorkers > 1 THEN "ended" ELSE "groupShutdown"
  OBVIOUS
<1>2. /\ RunAt(w, "report", to) /\ run[w] = "report" /\ RunningWorkers' = RunningWorkers - 1
      /\ UNCHANGED <<groupRunning, running, Status, joinable, call, startVars,
                     stopVars, history, given, terminated>>
  BY <1>1 DEF OnWorkerShutdown, RunAt
<1>3. RunningWorkers \in Int /\ RunningWorkers' \in Int /\ RunningWorkers' <= RunningWorkers
  BY <1>2 DEF IInv, TypeOK
<1>4. /\ groupRunning' \in BOOLEAN /\ Status' \in [Workers -> BOOLEAN] /\ failed' \in BOOLEAN
      /\ running' \in [Workers -> BOOLEAN] /\ failed' = failed
      /\ shutdowns' \in Nat /\ shutdowns' = shutdowns
  BY <1>2 DEF history, IInv, TypeOK
<1>5. stop[w] = "none"
  BY <1>2 DEF IInv, ThreadsAreOwned
<1>6. /\ TypeOK' /\ MainIsSomewhere' /\ ThreadsAreOwned' /\ CounterIsBounded'
      /\ IndexInBounds' /\ JoinedForDestruction'
      /\ run'[w] = to /\ \A v \in Workers : v # w => run'[v] = run[v]
  BY <1>2, <1>3, <1>4, <1>5, WorkerGoesOn DEF Runs, history
<1>7. FlagsAreFresh'
  BY <1>2, <1>4, <1>6 DEF IInv, FlagsAreFresh
<1>8. Active' = Active \ {w} /\ w \in Active /\ Reported' = Reported \union {w}
  BY <1>2, <1>6 DEF Active, Reported
<1>9. Active \in SUBSET Workers /\ {v \in Active : v < Reached} \in SUBSET Workers
  BY DEF Active
<1>10. Reached' = Reached /\ ThreadCount' = ThreadCount /\ step' = step /\ index' = index
       /\ index \in Int /\ Reached \in Int
  BY <1>2 DEF Reached, ThreadCount, startVars, given, IInv, TypeOK
<1>11. ASSUME ~ failed, step \in InLoop, ~ Doomed'
       PROVE  /\ ~ Doomed /\ w < Reached
              /\ RunningWorkers + (Reached - index) = Cardinality({v \in Active : v < Reached})
  <2>1. ~ Doomed
    BY <1>2, <1>8, <1>10, <1>11 DEF Doomed
  <2>2. w < ThreadCount /\ joinable[w]
    <3>1. w < ThreadCount
      <4>1. ~ (w >= ThreadCount)
        BY <1>2, <1>11 DEF IInv, ThreadsAreOwned, InLoop
      <4> QED
        BY <4>1, ThreadCountIs, WorkersAre DEF IInv
    <3> QED
      BY <1>2, <3>1 DEF IInv, ThreadsAreOwned
  <2>3. ~ (w >= Reached)
    BY <1>2, <1>8, <1>10, <1>11, <2>2 DEF Doomed
  <2>4. w < Reached
    BY <1>10, <2>3, WorkersAre
  <2> QED
    BY <1>11, <2>1, <2>4 DEF IInv, CountedInLoop
<1>12. CountedInLoop'
  <2>1. SUFFICES ASSUME ~ failed, step \in InLoop, ~ Doomed'
                 PROVE  RunningWorkers' + (Reached - index) = Cardinality({v \in Active' : v < Reached})
    BY <1>4, <1>10 DEF CountedInLoop
  <2>2. {v \in Active' : v < Reached} = {v \in Active : v < Reached} \ {w}
    BY <1>8
  <2>3. w \in {v \in Active : v < Reached}
    BY <1>8, <1>11, <2>1
  <2>4. Cardinality({v \in Active' : v < Reached}) = Cardinality({v \in Active : v < Reached}) - 1
    BY <1>9, <2>2, <2>3, OneLess
  <2> QED
    BY <1>2, <1>3, <1>10, <1>11, <2>1, <2>4
<1>13. CountedOutside'
  <2>1. Cardinality(Active') = Cardinality(Active) - 1
    BY <1>8, <1>9, OneLess
  <2> QED
    BY <1>2, <1>4, <1>10, <2>1 DEF IInv, CountedOutside
<1>14. LastIsKnown'
  <2>1. to = "groupShutdown" => ShutdownComes'
    BY <1>6 DEF ShutdownComes
  <2>2. ASSUME ~ failed, step \in InLoop, ~ Doomed', Reached > 0,
               \A v \in Workers : v < Reached => v \in Reported'
        PROVE  ShutdownComes'
    <3>1. {v \in Active : v < Reached} \ {w} = {}
      BY <1>8, <2>2, <1>2 DEF Active, Reported
    <3>2. w \in {v \in Active : v < Reached}
      BY <1>8, <1>11, <2>2
    <3>3. Cardinality({v \in Active : v < Reached}) = 1
      BY <1>9, <3>1, <3>2, OnlyOne
    <3>4. RunningWorkers + (Reached - index) = 1 /\ Reached >= index
      BY <1>10, <1>11, <2>2, <3>3 DEF Reached
    <3>5. ~ (RunningWorkers > 1)
      BY <1>3, <1>10, <3>4
    <3> QED
      BY <1>1, <2>1, <3>5
  <2>3. ASSUME ~ failed, step \in {"none", "runMain"}, \A v \in Workers : v \in Reported'
        PROVE  ShutdownComes'
    <3>1. Active \ {w} = {}
      BY <1>8, <2>3 DEF Active, Reported
    <3>2. Cardinality(Active) = 1
      BY <1>8, <1>9, <3>1, OnlyOne
    <3>3. ~ (RunningWorkers > 1)
      BY <2>3, <3>2 DEF IInv, CountedOutside
    <3> QED
      BY <1>1, <2>1, <3>3
  <2> QED
    BY <1>4, <1>10, <2>2, <2>3 DEF LastIsKnown
<1> QED
  BY <1>6, <1>7, <1>12, <1>13, <1>14 DEF IInv

LEMMA OnGroupShutdownStep ==
  ASSUME IInv, NEW w \in Workers, OnGroupShutdown(w)
  PROVE  IInv'
<1>1. /\ RunAt(w, "groupShutdown", "clearGroup") /\ run[w] = "groupShutdown"
      /\ shutdowns' = shutdowns + 1
      /\ UNCHANGED <<flags, Status, joinable, call, startVars, stopVars, starts, failed,
                     given, terminated>>
  BY DEF OnGroupShutdown, RunAt
<1>2. /\ RunningWorkers' \in Int /\ RunningWorkers' <= RunningWorkers
      /\ groupRunning' \in BOOLEAN /\ Status' \in [Workers -> BOOLEAN] /\ failed' \in BOOLEAN
      /\ running' \in [Workers -> BOOLEAN] /\ failed' = failed
      /\ shutdowns' \in Nat /\ shutdowns' > 0
  BY <1>1 DEF flags, IInv, TypeOK
<1>3. stop[w] = "none"
  BY <1>1 DEF IInv, ThreadsAreOwned
<1>4. /\ TypeOK' /\ MainIsSomewhere' /\ ThreadsAreOwned' /\ CounterIsBounded'
      /\ IndexInBounds' /\ JoinedForDestruction'
      /\ run'[w] = "clearGroup" /\ \A v \in Workers : v # w => run'[v] = run[v]
  BY <1>1, <1>2, <1>3, WorkerGoesOn DEF Runs
<1>5. FlagsAreFresh'
  BY <1>1, <1>2, <1>4 DEF IInv, FlagsAreFresh, flags
<1>6. Active' = Active /\ Reported' = Reported /\ ShutdownComes'
  BY <1>1, <1>2, <1>4 DEF Active, Reported, ShutdownComes
<1>7. CountedInLoop' /\ CountedOutside' /\ LastIsKnown'
  BY <1>1, <1>2, <1>6, CountsKept DEF flags, startVars
<1> QED
  BY <1>4, <1>5, <1>7 DEF IInv

LEMMA ClearGroupRunningStep ==
  ASSUME IInv, NEW w \in Workers, ClearGroupRunning(w)
  PROVE  IInv'
<1>1. /\ RunAt(w, "clearGroup", "ended") /\ run[w] = "clearGroup" /\ groupRunning' = FALSE
      /\ UNCHANGED <<RunningWorkers, running, Status, joinable, call, startVars,
                     stopVars, history, given, terminated>>
  BY DEF ClearGroupRunning, RunAt
<1>2. /\ RunningWorkers' \in Int /\ RunningWorkers' <= RunningWorkers
      /\ groupRunning' \in BOOLEAN /\ Status' \in [Workers -> BOOLEAN] /\ failed' \in BOOLEAN
      /\ running' \in [Workers -> BOOLEAN] /\ failed' = failed
      /\ shutdowns' \in Nat /\ shutdowns' = shutdowns
  <2>1. groupRunning' \in BOOLEAN
    BY <1>1
  <2>2. /\ UNCHANGED <<RunningWorkers, running, Status, history>>
    BY <1>1
  <2> QED
    BY <2>1, <2>2 DEF history, IInv, TypeOK
<1>3. stop[w] = "none"
  BY <1>1 DEF IInv, ThreadsAreOwned
<1>4. /\ TypeOK' /\ MainIsSomewhere' /\ ThreadsAreOwned' /\ CounterIsBounded'
      /\ IndexInBounds' /\ JoinedForDestruction'
      /\ run'[w] = "ended" /\ \A v \in Workers : v # w => run'[v] = run[v]
  BY <1>1, <1>2, <1>3, WorkerGoesOn DEF Runs, history
<1>5. FlagsAreFresh'
  BY <1>1, <1>2, <1>4 DEF IInv, FlagsAreFresh
<1>6. Active' = Active /\ Reported' = Reported /\ (ShutdownComes => ShutdownComes')
  BY <1>1, <1>2, <1>4 DEF Active, Reported, ShutdownComes
<1>7. CountedInLoop' /\ CountedOutside' /\ LastIsKnown'
  BY <1>1, <1>2, <1>6, CountsKept DEF startVars
<1> QED
  BY <1>4, <1>5, <1>7 DEF IInv

-----------------------------------------------------------------------------
(* Start. *)

(* In the loop, when the count and what is reached change together. *)
LEMMA LoopKept ==
  ASSUME IInv, UNCHANGED <<joinable, run, failed, shutdowns, given>>,
         step \in InLoop, step' \in InLoop, Reached' = Reached,
         RunningWorkers' + (Reached' - index') = RunningWorkers + (Reached - index)
  PROVE  CountedInLoop' /\ CountedOutside' /\ LastIsKnown'
<1>1. ThreadCount' = ThreadCount /\ Active' = Active /\ Reported' = Reported
      /\ (ShutdownComes => ShutdownComes')
  BY DEF ThreadCount, given, Active, Reported, ShutdownComes
<1>2. Doomed' <=> Doomed
  BY <1>1 DEF Doomed
<1>3. step' \notin {"none", "countMain", "runMain"}
  BY DEF InLoop
<1>4. CountedInLoop'
  BY <1>1, <1>2 DEF IInv, CountedInLoop
<1>5. CountedOutside'
  BY <1>3 DEF CountedOutside
<1>6. LastIsKnown'
  BY <1>1, <1>2, <1>3 DEF IInv, LastIsKnown
<1> QED
  BY <1>4, <1>5, <1>6

(* The loop reaches a worker that is in RunImpl, and is to be counted. *)
LEMMA LoopReaches ==
  ASSUME IInv, step = "worker", step' \in {"wait", "count"}, UNCHANGED <<index, RunningWorkers, given>>,
         index < ThreadCount, index \in Active',
         failed' = failed,
         \A v \in Workers : v # index => run'[v] = run[v] /\ joinable'[v] = joinable[v],
         ~ failed => ~ (index \in Reported /\ joinable[index])
  PROVE  CountedInLoop' /\ CountedOutside' /\ LastIsKnown'
<1>1. /\ Reached = index /\ Reached' = index + 1 /\ index \in Workers /\ index \in Nat
      /\ ThreadCount' = ThreadCount /\ RunningWorkers \in Int
  BY WorkersAre DEF Reached, ThreadCount, given, Active, IInv, TypeOK
<1>2. step \in InLoop /\ step' \notin {"none", "countMain", "runMain"}
  BY DEF InLoop
<1>3. CountedInLoop'
  <2>1. SUFFICES ASSUME ~ failed, ~ Doomed'
                 PROVE  RunningWorkers + 1 = Cardinality({v \in Active' : v < index + 1})
    BY <1>1 DEF CountedInLoop
  <2>2. ~ Doomed
    <3>1. SUFFICES ASSUME NEW v \in Reported, v >= index, v < ThreadCount, joinable[v]
                   PROVE  FALSE
      BY <1>1 DEF Doomed
    <3>2. v # index /\ v \in Workers
      BY <2>1, <3>1 DEF Reported
    <3>3. v \in Reported' /\ joinable'[v]
      BY <3>1, <3>2 DEF Reported
    <3>4. v >= index + 1
      BY <1>1, <3>1, <3>2, WorkersAre
    <3> QED
      BY <1>1, <2>1, <3>1, <3>3, <3>4 DEF Doomed
  <2>3. RunningWorkers = Cardinality({v \in Active : v < index})
    BY <1>1, <1>2, <2>1, <2>2 DEF IInv, CountedInLoop
  <2>4. {v \in Active' : v < index + 1} = {v \in Active : v < index} \union {index}
    <3>1. \A v \in Workers : v < index + 1 <=> v < index \/ v = index
      BY <1>1, WorkersAre
    <3>2. \A v \in Workers : v < index => v # index
      BY <1>1, WorkersAre
    <3>3. \A v \in Workers : v < index => (v \in Active' <=> v \in Active)
      BY <3>2 DEF Active
    <3>4. \A v : v \in Active' \/ v \in Active => v \in Workers
      BY DEF Active
    <3> QED
      BY <3>1, <3>3, <3>4
  <2>5. {v \in Active : v < index} \in SUBSET Workers /\ index \notin {v \in Active : v < index}
    BY <1>1 DEF Active
  <2> QED
    BY <1>1, <2>3, <2>4, <2>5, OneMore
<1>4. CountedOutside'
  BY <1>2 DEF CountedOutside
<1>5. LastIsKnown'
  <2>1. index \notin Reported' /\ index < Reached'
    BY <1>1 DEF Active, Reported
  <2> QED
    BY <1>1, <1>2, <2>1 DEF LastIsKnown
<1> QED
  BY <1>3, <1>4, <1>5

LEMMA StartStepOne ==
  ASSUME IInv, Start
  PROVE  IInv'
<1> USE DEF stopVars, threads, given
<1>1. /\ call = "none" /\ starts < MaxStarts /\ call' = "start" /\ step' = "worker"
      /\ index' = 0 /\ RunningWorkers' = 0 /\ starts' = starts + 1 /\ shutdowns' = 0
      /\ UNCHANGED <<groupRunning, running, threads, stopVars, failed, given, terminated>>
  BY DEF Start
<1>2. step = "none" /\ stop[Main] = "none"
  BY <1>1 DEF IInv, MainIsSomewhere
<1>3. TypeOK'
  <2>1. starts' \in 0 .. MaxStarts /\ index' \in 0 .. TotalWorkers
    BY <1>1, MaxStartsAssumption, TotalWorkersAssumption DEF IInv, TypeOK
  <2> QED
    BY <1>1, <2>1 DEF IInv, TypeOK
<1>4. ThreadCount' = ThreadCount /\ ThreadCount >= 0
  BY <1>1, ThreadCountIs DEF ThreadCount, IInv
<1>5. MainIsSomewhere'
  BY <1>1, <1>2, <1>4 DEF MainIsSomewhere, InLoop
<1>6. ThreadsAreOwned'
  BY <1>1, <1>2, <1>4 DEF IInv, ThreadsAreOwned
<1>7. FlagsAreFresh'
  BY <1>1 DEF IInv, FlagsAreFresh
<1>8. CounterIsBounded'
  BY <1>1, TotalWorkersAssumption DEF CounterIsBounded
<1>9. IndexInBounds'
  BY <1>1 DEF IInv, IndexInBounds
<1>10. Reached' = 0
  BY <1>1 DEF Reached
<1>11. CountedInLoop'
  <2>1. {w \in Active' : w < Reached'} = {}
    BY <1>10, WorkersAre DEF Active
  <2> QED
    BY <1>1, <1>10, <2>1, FS_EmptySet DEF CountedInLoop
<1>12. CountedOutside' /\ LastIsKnown'
  BY <1>1, <1>10 DEF CountedOutside, LastIsKnown
<1>13. JoinedForDestruction'
  BY <1>1, <1>2 DEF IInv, JoinedForDestruction
<1> QED
  BY <1>3, <1>5, <1>6, <1>7, <1>8, <1>9, <1>11, <1>12, <1>13 DEF IInv

LEMMA StartRunningStep ==
  ASSUME IInv, StartRunning
  PROVE  IInv'
<1> USE DEF stopVars, threads, given, flags, history
<1>1. /\ index < ThreadCount /\ running[index] /\ call = "start" /\ step = "worker" /\ step' = "count"
      /\ UNCHANGED <<flags, threads, call, index, stopVars, history, given, terminated>>
  BY DEF StartRunning, StartStep
<1>2. TypeOK'
  BY <1>1 DEF IInv, TypeOK
<1>3. ThreadCount' = ThreadCount
  BY <1>1 DEF ThreadCount
<1>4. MainIsSomewhere' /\ ThreadsAreOwned'
  BY <1>1, <1>3 DEF IInv, MainIsSomewhere, ThreadsAreOwned, InLoop
<1>5. FlagsAreFresh' /\ CounterIsBounded' /\ IndexInBounds' /\ JoinedForDestruction'
  BY <1>1 DEF IInv, FlagsAreFresh, CounterIsBounded, IndexInBounds, JoinedForDestruction
<1>6. index \in Workers
  BY <1>1, IndexIsWorker DEF IInv
<1>7. CountedInLoop' /\ CountedOutside' /\ LastIsKnown'
  <2>1. CASE failed
    BY <1>1, <2>1 DEF CountedInLoop, CountedOutside, LastIsKnown
  <2>2. CASE ~ failed
    <3>1. run[index] \in {"task", "clear"}
      BY <1>1, <1>6, <2>2 DEF IInv, FlagsAreFresh
    <3>2. index \in Active' /\ index \notin Reported
      BY <1>1, <1>6, <3>1 DEF Active, Reported
    <3> QED
      BY <1>1, <3>2, LoopReaches
  <2> QED
    BY <2>1, <2>2
<1> QED
  BY <1>2, <1>4, <1>5, <1>7 DEF IInv

LEMMA StartThreadStep ==
  ASSUME IInv, StartThread
  PROVE  IInv'
<1> USE DEF stopVars, given, flags, history
<1>1. /\ index < ThreadCount /\ ~ running[index] /\ call = "start" /\ step = "worker"
      /\ UNCHANGED <<flags, Status, call, index, stopVars, history, given>>
  BY DEF StartThread, StartStep
<1>2. ThreadCount' = ThreadCount /\ index \in Workers /\ index \in Nat
  BY <1>1, IndexIsWorker DEF ThreadCount, IInv
<1>3. IndexInBounds' /\ CounterIsBounded'
  <2>1. step' \in {"dead", "wait"}
    BY <1>1 DEF StartThread, StartStep
  <2> QED
    BY <1>1, <2>1 DEF IInv, IndexInBounds, CounterIsBounded
<1>4. CASE joinable[index]
  <2>1. step' = "dead" /\ terminated' = TRUE /\ UNCHANGED <<joinable, run>>
    BY <1>4 DEF StartThread, StartStep
  <2>2. TypeOK'
    BY <1>1, <2>1 DEF IInv, TypeOK
  <2>3. MainIsSomewhere' /\ ThreadsAreOwned' /\ FlagsAreFresh'
    BY <1>1, <1>2, <2>1 DEF IInv, MainIsSomewhere, ThreadsAreOwned, FlagsAreFresh, InLoop
  <2>4. CountedInLoop' /\ CountedOutside' /\ LastIsKnown'
    BY <2>1 DEF CountedInLoop, CountedOutside, LastIsKnown, InLoop
  <2>5. JoinedForDestruction'
    BY <1>1, <2>1 DEF IInv, JoinedForDestruction
  <2> QED
    BY <1>3, <2>2, <2>3, <2>4, <2>5 DEF IInv
<1>5. CASE ~ joinable[index]
  <2>1. /\ step' = "wait" /\ terminated' = terminated
        /\ joinable' = [joinable EXCEPT ![index] = TRUE]
        /\ run' = [run EXCEPT ![index] = "initialize"]
    BY <1>5 DEF StartThread, StartStep
  <2>2. /\ joinable' \in [Workers -> BOOLEAN] /\ run' \in [Workers -> Runs]
        /\ joinable'[index] /\ run'[index] = "initialize"
        /\ \A v \in Workers : v # index => run'[v] = run[v] /\ joinable'[v] = joinable[v]
    BY <1>2, <2>1 DEF IInv, TypeOK, Runs
  <2>3. TypeOK'
    BY <1>1, <2>1, <2>2 DEF IInv, TypeOK
  <2>4. run[index] \in {"none", "ended"} /\ stop[index] = "none"
    BY <1>1, <1>2, <1>5 DEF IInv, ThreadsAreOwned
  <2>5. ~ (index >= ThreadCount)
    BY <1>1, <1>2, ThreadCountIs DEF IInv
  <2>6. MainIsSomewhere'
    BY <1>1, <1>2, <2>1 DEF IInv, MainIsSomewhere, InLoop
  <2>7. ThreadsAreOwned'
    BY <1>1, <1>2, <2>1, <2>2, <2>4, <2>5 DEF IInv, ThreadsAreOwned
  <2>8. FlagsAreFresh'
    BY <1>1, <2>2 DEF IInv, FlagsAreFresh
  <2>9. JoinedForDestruction'
    BY <1>1, <2>1 DEF IInv, JoinedForDestruction
  <2>10. CountedInLoop' /\ CountedOutside' /\ LastIsKnown'
    <3>1. index \in Active'
      BY <1>2, <2>2 DEF Active
    <3> QED
      BY <1>1, <1>5, <2>1, <2>2, <3>1, LoopReaches
  <2> QED
    BY <1>3, <2>3, <2>6, <2>7, <2>8, <2>9, <2>10 DEF IInv
<1> QED
  BY <1>4, <1>5

LEMMA WaitForIsRunningStep ==
  ASSUME IInv, WaitForIsRunning
  PROVE  IInv'
<1> USE DEF stopVars, threads, given, flags, history
<1>1. /\ call = "start" /\ step = "wait" /\ step' = "status"
      /\ UNCHANGED <<flags, threads, call, index, stopVars, history, given, terminated>>
  BY DEF WaitForIsRunning, StartStep
<1>2. TypeOK'
  BY <1>1 DEF IInv, TypeOK
<1>3. ThreadCount' = ThreadCount
  BY <1>1 DEF ThreadCount
<1>4. MainIsSomewhere' /\ ThreadsAreOwned'
  BY <1>1, <1>3 DEF IInv, MainIsSomewhere, ThreadsAreOwned, InLoop
<1>5. FlagsAreFresh' /\ CounterIsBounded' /\ IndexInBounds' /\ JoinedForDestruction'
  BY <1>1 DEF IInv, FlagsAreFresh, CounterIsBounded, IndexInBounds, JoinedForDestruction
<1>6. CountedInLoop' /\ CountedOutside' /\ LastIsKnown'
  BY <1>1, LoopKept DEF Reached, InLoop
<1> QED
  BY <1>2, <1>4, <1>5, <1>6 DEF IInv

LEMMA CheckStatusStep ==
  ASSUME IInv, CheckStatus
  PROVE  IInv'
<1> USE DEF stopVars, threads, given, history
<1>1. /\ call = "start" /\ step = "status"
      /\ UNCHANGED <<RunningWorkers, groupRunning, threads, index, stopVars, history, given,
                     terminated>>
  BY DEF CheckStatus
<1>2. ThreadCount' = ThreadCount /\ index < ThreadCount
  BY <1>1 DEF ThreadCount, IInv, MainIsSomewhere
<1>3. index \in Workers
  BY <1>2, IndexIsWorker DEF IInv
<1>4. CASE Status[index] /\ step' = "count" /\ UNCHANGED <<call, running>>
  <2>1. TypeOK'
    BY <1>1, <1>4 DEF IInv, TypeOK
  <2>2. MainIsSomewhere' /\ ThreadsAreOwned'
    BY <1>1, <1>2, <1>4 DEF IInv, MainIsSomewhere, ThreadsAreOwned, InLoop
  <2>3. FlagsAreFresh' /\ CounterIsBounded' /\ IndexInBounds' /\ JoinedForDestruction'
    BY <1>1, <1>4 DEF IInv, FlagsAreFresh, CounterIsBounded, IndexInBounds, JoinedForDestruction
  <2>4. CountedInLoop' /\ CountedOutside' /\ LastIsKnown'
    BY <1>1, <1>4, LoopKept DEF Reached, InLoop
  <2> QED
    BY <2>1, <2>2, <2>3, <2>4 DEF IInv
<1>5. CASE /\ ~ Status[index] /\ running' = [running EXCEPT ![index] = FALSE]
           /\ step' = "none" /\ call' = "none"
  <2>1. failed /\ failed'
    BY <1>1, <1>3, <1>5 DEF IInv, FlagsAreFresh
  <2>2. TypeOK'
    BY <1>1, <1>5 DEF IInv, TypeOK
  <2>3. MainIsSomewhere' /\ ThreadsAreOwned'
    BY <1>1, <1>2, <1>5 DEF IInv, MainIsSomewhere, ThreadsAreOwned, InLoop
  <2>4. CounterIsBounded' /\ IndexInBounds' /\ JoinedForDestruction'
    BY <1>1, <1>5 DEF IInv, CounterIsBounded, IndexInBounds, JoinedForDestruction
  <2>5. FlagsAreFresh' /\ CountedInLoop' /\ CountedOutside' /\ LastIsKnown'
    BY <2>1 DEF FlagsAreFresh, CountedInLoop, CountedOutside, LastIsKnown
  <2> QED
    BY <2>2, <2>3, <2>4, <2>5 DEF IInv
<1> QED
  BY <1>4, <1>5 DEF CheckStatus

LEMMA CountWorkerStep ==
  ASSUME IInv, CountWorker
  PROVE  IInv'
<1> USE DEF stopVars, threads, given, history
<1>1. /\ call = "start" /\ step = "count" /\ step' = "worker"
      /\ RunningWorkers' = RunningWorkers + 1 /\ index' = index + 1
      /\ UNCHANGED <<groupRunning, running, threads, call, stopVars, history, given, terminated>>
  BY DEF CountWorker, StartStep
<1>2. ThreadCount' = ThreadCount /\ index < ThreadCount
  BY <1>1 DEF ThreadCount, IInv, MainIsSomewhere
<1>3. /\ index \in Nat /\ index + 1 <= ThreadCount /\ index + 1 \in 0 .. TotalWorkers
      /\ RunningWorkers \in Int /\ RunningWorkers <= index /\ RunningWorkers + 1 <= TotalWorkers
  <2>1. index \in Nat /\ RunningWorkers \in Int /\ RunningWorkers <= index
    BY <1>1, <1>2, IndexIsWorker DEF IInv, TypeOK, CounterIsBounded
  <2>2. ThreadCount \in Nat /\ ThreadCount <= TotalWorkers
    BY ThreadCountIs DEF IInv
  <2> QED
    BY <1>2, <2>1, <2>2, TotalWorkersAssumption
<1>4. TypeOK'
  BY <1>1, <1>3 DEF IInv, TypeOK
<1>5. MainIsSomewhere' /\ ThreadsAreOwned'
  BY <1>1, <1>2, <1>3 DEF IInv, MainIsSomewhere, ThreadsAreOwned, InLoop
<1>6. CounterIsBounded'
  BY <1>1, <1>3 DEF CounterIsBounded
<1>7. FlagsAreFresh' /\ IndexInBounds' /\ JoinedForDestruction'
  BY <1>1 DEF IInv, FlagsAreFresh, IndexInBounds, JoinedForDestruction
<1>8. CountedInLoop' /\ CountedOutside' /\ LastIsKnown'
  <2>1. Reached = index + 1 /\ Reached' = index + 1 /\ step \in InLoop /\ step' \in InLoop
    BY <1>1 DEF Reached, InLoop
  <2>2. RunningWorkers' + (Reached' - index') = RunningWorkers + (Reached - index)
    BY <1>1, <1>3, <2>1
  <2> QED
    BY <1>1, <2>1, <2>2, LoopKept
<1> QED
  BY <1>4, <1>5, <1>6, <1>7, <1>8 DEF IInv

(* At the end of the loop everything is counted. *)
LEMMA LoopEnds ==
  ASSUME IInv, call = "start", step = "worker", index = ThreadCount
  PROVE  /\ ~ failed => RunningWorkers = Cardinality(Active)
         /\ ~ failed /\ ~ bIncludeMainThread /\ (\A w \in Workers : w \in Reported) => ShutdownComes
<1>1. ThreadCount \in Nat /\ index \in Nat /\ RunningWorkers \in Int /\ Reached = index
      /\ step \in InLoop
  BY ThreadCountIs DEF IInv, TypeOK, Reached, InLoop
<1>2. ~ Doomed
  <2>1. \A w \in Workers : ~ (w >= ThreadCount /\ w < ThreadCount)
    BY <1>1, WorkersAre
  <2> QED
    BY <1>1, <2>1 DEF Doomed, Reported
<1>3. \A w \in Active : w < ThreadCount
  <2>1. \A w \in Active : ~ (w >= ThreadCount)
    BY DEF IInv, ThreadsAreOwned, Active
  <2> QED
    BY <1>1, <2>1, WorkersAre DEF Active
<1>4. {w \in Active : w < Reached} = Active
  BY <1>1, <1>3
<1>5. ~ failed => RunningWorkers = Cardinality(Active)
  BY <1>1, <1>2, <1>4 DEF IInv, CountedInLoop
<1>6. ~ failed /\ ~ bIncludeMainThread /\ (\A w \in Workers : w \in Reported) => ShutdownComes
  <2>1. ~ bIncludeMainThread => Reached > 0
    BY <1>1, ThreadCountIs, TotalWorkersAssumption DEF IInv
  <2> QED
    BY <1>1, <1>2, <2>1 DEF IInv, LastIsKnown
<1> QED
  BY <1>5, <1>6

LEMMA AllStartedStep ==
  ASSUME IInv, AllStarted
  PROVE  IInv'
<1> USE DEF stopVars, threads, given, history
<1>1. /\ call = "start" /\ step = "worker" /\ index = ThreadCount /\ groupRunning' = TRUE
      /\ step' = IF bIncludeMainThread THEN "countMain" ELSE "none"
      /\ call' = IF bIncludeMainThread THEN "start" ELSE "none"
      /\ UNCHANGED <<RunningWorkers, running, threads, index, stopVars, history, given, terminated>>
  BY DEF AllStarted
<1>2. ThreadCount' = ThreadCount /\ Active' = Active /\ Reported' = Reported
      /\ (ShutdownComes => ShutdownComes')
  BY <1>1 DEF ThreadCount, Active, Reported, ShutdownComes
<1>3. TypeOK'
  <2>1. /\ call' \in {"none", "start"} /\ step' \in {"none", "countMain"} /\ groupRunning' \in BOOLEAN
    BY <1>1
  <2> QED
    BY <1>1, <2>1 DEF IInv, TypeOK
<1>4. MainIsSomewhere' /\ ThreadsAreOwned'
  BY <1>1, <1>2 DEF IInv, MainIsSomewhere, ThreadsAreOwned, InLoop
<1>5. FlagsAreFresh' /\ CounterIsBounded' /\ IndexInBounds' /\ JoinedForDestruction'
  BY <1>1 DEF IInv, FlagsAreFresh, CounterIsBounded, IndexInBounds, JoinedForDestruction
<1>6. step' \notin InLoop /\ step' # "runMain" /\ (step' = "none" => ~ bIncludeMainThread)
  BY <1>1 DEF InLoop
<1>7. CountedInLoop' /\ CountedOutside' /\ LastIsKnown'
  BY <1>1, <1>2, <1>6, LoopEnds DEF CountedInLoop, CountedOutside, LastIsKnown
<1> QED
  BY <1>3, <1>4, <1>5, <1>7 DEF IInv

LEMMA CountMainStep ==
  ASSUME IInv, CountMain
  PROVE  IInv'
<1> USE DEF stopVars, given, history
<1>1. /\ call = "start" /\ step = "countMain" /\ step' = "runMain"
      /\ RunningWorkers' = RunningWorkers + 1
      /\ run' = [run EXCEPT ![index] = "initialize"]
      /\ UNCHANGED <<groupRunning, running, Status, joinable, call, index, stopVars,
                     history, given, terminated>>
  BY DEF CountMain, StartStep
<1>2. /\ ThreadCount' = ThreadCount /\ bIncludeMainThread /\ index = ThreadCount
      /\ ThreadCount = TotalWorkers - 1 /\ index \in Workers /\ index \in Nat
  <2>1. ThreadCount' = ThreadCount /\ bIncludeMainThread /\ index = ThreadCount
    BY <1>1 DEF ThreadCount, IInv, MainIsSomewhere
  <2>2. ThreadCount \in Nat /\ ThreadCount = TotalWorkers - 1
    BY <2>1, ThreadCountIs DEF IInv
  <2> QED
    BY <2>1, <2>2, WorkersAre, TotalWorkersAssumption
<1>3. ~ running[index] \/ failed
  BY <1>1, <1>2 DEF IInv, ThreadsAreOwned, FlagsAreFresh
<1>4. run[index] \in {"none", "ended"} /\ stop[index] = "none"
  BY <1>1, <1>2 DEF IInv, ThreadsAreOwned
<1>5. /\ run' \in [Workers -> Runs] /\ run'[index] = "initialize"
      /\ \A v \in Workers : v # index => run'[v] = run[v]
  BY <1>1, <1>2 DEF IInv, TypeOK, Runs
<1>6. RunningWorkers \in Int /\ RunningWorkers <= index
  BY <1>1 DEF IInv, TypeOK, CounterIsBounded
<1>7. TypeOK'
  BY <1>1, <1>5, <1>6 DEF IInv, TypeOK
<1>8. MainIsSomewhere'
  BY <1>1, <1>2 DEF IInv, MainIsSomewhere, InLoop
<1>9. ThreadsAreOwned'
  BY <1>1, <1>2, <1>4, <1>5 DEF IInv, ThreadsAreOwned
<1>10. FlagsAreFresh'
  BY <1>1, <1>3, <1>5 DEF IInv, FlagsAreFresh
<1>11. CounterIsBounded'
  BY <1>1, <1>2, <1>6, TotalWorkersAssumption DEF CounterIsBounded
<1>12. IndexInBounds' /\ JoinedForDestruction'
  BY <1>1 DEF IInv, IndexInBounds, JoinedForDestruction
<1>13. Active' = Active \union {index} /\ index \notin Active /\ Active \in SUBSET Workers
       /\ index \notin Reported'
  BY <1>2, <1>4, <1>5 DEF Active, Reported
<1>14. CountedInLoop' /\ CountedOutside' /\ LastIsKnown'
  <2>1. Cardinality(Active') = Cardinality(Active) + 1
    BY <1>2, <1>13, OneMore
  <2>2. step' \notin InLoop
    BY <1>1 DEF InLoop
  <2>3. CountedOutside'
    BY <1>1, <2>1 DEF IInv, CountedOutside
  <2>4. CountedInLoop' /\ LastIsKnown'
    BY <1>2, <1>13, <2>2 DEF CountedInLoop, LastIsKnown
  <2> QED
    BY <2>3, <2>4
<1> QED
  BY <1>7, <1>8, <1>9, <1>10, <1>11, <1>12, <1>14 DEF IInv

LEMMA MainReturnsStep ==
  ASSUME IInv, MainReturns
  PROVE  IInv'
<1> USE DEF stopVars, threads, given, flags, history
<1>1. /\ call = "start" /\ step = "runMain" /\ step' = "none" /\ call' = "none"
      /\ run[index] = "ended"
      /\ UNCHANGED <<flags, threads, index, stopVars, history, given, terminated>>
  BY DEF MainReturns, StartStep
<1>2. ThreadCount' = ThreadCount /\ Active' = Active /\ Reported' = Reported
      /\ (ShutdownComes => ShutdownComes')
  BY <1>1 DEF ThreadCount, Active, Reported, ShutdownComes
<1>3. TypeOK'
  BY <1>1 DEF IInv, TypeOK
<1>4. MainIsSomewhere'
  BY <1>1, <1>2 DEF IInv, MainIsSomewhere, InLoop
<1>5. ThreadsAreOwned'
  <2>1. bIncludeMainThread /\ index = ThreadCount /\ ThreadCount = TotalWorkers - 1
        /\ ThreadCount \in Nat
    BY <1>1, ThreadCountIs DEF IInv, MainIsSomewhere
  <2>2. \A w \in Workers : w >= ThreadCount => w = index
    BY <2>1, WorkersAre, TotalWorkersAssumption
  <2> QED
    BY <1>1, <1>2, <2>2 DEF IInv, ThreadsAreOwned
<1>6. FlagsAreFresh' /\ CounterIsBounded' /\ IndexInBounds' /\ JoinedForDestruction'
  BY <1>1 DEF IInv, FlagsAreFresh, CounterIsBounded, IndexInBounds, JoinedForDestruction
<1>7. step' \notin InLoop
  BY <1>1 DEF InLoop
<1>8. CountedInLoop' /\ CountedOutside' /\ LastIsKnown'
  BY <1>1, <1>2, <1>7 DEF IInv, CountedInLoop, CountedOutside, LastIsKnown
<1> QED
  BY <1>3, <1>4, <1>5, <1>6, <1>8 DEF IInv

-----------------------------------------------------------------------------
(* Stop and JoinGroup. *)

(* Main is in no call that uses the group, or in one of Stop and JoinGroup;*)
(* the main thread's worker joins only while Main is in runMain.           *)
LEMMA JoinsOutsideOfTheLoop ==
  ASSUME IInv, NEW c \in Callers, stop[c] = "join"
  PROVE  step \notin InLoop /\ (c # Main => c \in Workers /\ c >= ThreadCount)
<1>1. CASE c = Main
  BY <1>1 DEF IInv, MainIsSomewhere, InLoop
<1>2. CASE c # Main
  <2>1. c \in Workers
    BY <1>2 DEF Callers
  <2>2. c >= ThreadCount /\ run[c] = "task"
    BY <2>1 DEF IInv, ThreadsAreOwned
  <2>3. step = "runMain"
    BY <2>1, <2>2 DEF IInv, ThreadsAreOwned
  <2> QED
    BY <2>1, <2>2, <2>3 DEF InLoop
<1> QED
  BY <1>1, <1>2

LEMMA StopGoesOn ==
  ASSUME IInv, NEW c \in Callers,
         NEW from \in {"test", "clear", "count", "workers"},
         NEW to \in {"clear", "count", "workers", "join", "stopped"},
         StopAt(c, from, to),
         to = "join" /\ c \in Workers => c >= ThreadCount,
         UNCHANGED <<RunningWorkers, threads, call, startVars, history, given, terminated>>,
         groupRunning' \in BOOLEAN, running' \in [Workers -> BOOLEAN],
         \A w \in Workers : running'[w] => running[w],
         next' \in [Callers -> Nat], limit' \in [Callers -> Int],
         \A d \in Callers : d # c => next'[d] = next[d] /\ limit'[d] = limit[d],
         limit'[c] <= TotalWorkers
  PROVE  IInv'
<1> USE DEF threads, startVars, history, given
<1>1. /\ stop[c] = from /\ stop' \in [Callers -> {"none", "test", "clear", "count", "workers", "join", "stopped"}]
      /\ stop'[c] = to /\ \A d \in Callers : d # c => stop'[d] = stop[d]
  BY DEF StopAt, IInv, TypeOK
<1>2. Main \in Callers /\ Workers \subseteq Callers /\ Main \notin Workers
  BY WorkersAre DEF Callers
<1>3. TypeOK'
  BY <1>1 DEF IInv, TypeOK
<1>4. ThreadCount' = ThreadCount /\ Active' = Active /\ Reported' = Reported
      /\ (ShutdownComes => ShutdownComes')
  BY DEF ThreadCount, Active, Reported, ShutdownComes
<1>5. c = Main => stop[Main] \notin {"none", "join", "stopped"}
  BY <1>1
<1>6. MainIsSomewhere'
  BY <1>1, <1>2, <1>4, <1>5 DEF IInv, MainIsSomewhere
<1>7. ThreadsAreOwned'
  BY <1>1, <1>2, <1>4 DEF IInv, ThreadsAreOwned
<1>8. FlagsAreFresh' /\ CounterIsBounded'
  BY DEF IInv, FlagsAreFresh, CounterIsBounded
<1>9. IndexInBounds'
  BY DEF IInv, IndexInBounds
<1>10. JoinedForDestruction'
  BY <1>1, <1>2, <1>5 DEF IInv, JoinedForDestruction
<1>11. CountedInLoop' /\ CountedOutside' /\ LastIsKnown'
  BY <1>4, CountsKept
<1> QED
  BY <1>3, <1>6, <1>7, <1>8, <1>9, <1>10, <1>11 DEF IInv

LEMMA StopTestStep ==
  ASSUME IInv, NEW c \in Callers, StopTest(c)
  PROVE  IInv'
<1>1. PICK to \in {"clear", "stopped"} : to = IF groupRunning THEN "clear" ELSE "stopped"
  OBVIOUS
<1>2. /\ StopAt(c, "test", to)
      /\ UNCHANGED <<flags, threads, call, startVars, next, limit, history, given, terminated>>
  BY <1>1 DEF StopTest
<1> QED
  BY <1>2, StopGoesOn DEF flags, IInv, TypeOK, IndexInBounds

LEMMA StopClearStep ==
  ASSUME IInv, NEW c \in Callers, StopClear(c)
  PROVE  IInv'
<1>1. /\ StopAt(c, "clear", "count") /\ groupRunning' = FALSE
      /\ UNCHANGED <<RunningWorkers, running, threads, call, startVars, next, limit,
                     history, given, terminated>>
  BY DEF StopClear
<1>2. groupRunning' \in BOOLEAN
  BY <1>1
<1> QED
  BY <1>1, <1>2, StopGoesOn DEF IInv, TypeOK, IndexInBounds

LEMMA StopCountStep ==
  ASSUME IInv, NEW c \in Callers, StopCount(c)
  PROVE  IInv'
<1>1. /\ StopAt(c, "count", "workers")
      /\ limit' = [limit EXCEPT ![c] = RunningWorkers] /\ next' = [next EXCEPT ![c] = 0]
      /\ UNCHANGED <<flags, threads, call, startVars, history, given, terminated>>
  BY DEF StopCount
<1>2. /\ next' \in [Callers -> Nat] /\ limit' \in [Callers -> Int]
      /\ \A d \in Callers : d # c => next'[d] = next[d] /\ limit'[d] = limit[d]
      /\ limit'[c] <= TotalWorkers
  BY <1>1 DEF IInv, TypeOK, CounterIsBounded
<1> QED
  BY <1>1, <1>2, StopGoesOn DEF flags, IInv, TypeOK

LEMMA NextIsWorker ==
  ASSUME IInv, NEW c \in Callers, next[c] < limit[c]
  PROVE  next[c] \in Workers /\ next[c] \in Nat
<1>1. next[c] \in Nat /\ limit[c] \in Int /\ limit[c] <= TotalWorkers
  BY DEF IInv, TypeOK, IndexInBounds
<1> QED
  BY <1>1, WorkersAre, TotalWorkersAssumption

LEMMA StopWorkerStep ==
  ASSUME IInv, NEW c \in Callers, StopWorker(c)
  PROVE  IInv'
<1>1. /\ next[c] < limit[c] /\ StopAt(c, "workers", "workers")
      /\ running' = [running EXCEPT ![next[c]] = FALSE] /\ next' = [next EXCEPT ![c] = @ + 1]
      /\ UNCHANGED <<RunningWorkers, groupRunning, threads, call, startVars, limit,
                     history, given, terminated>>
  BY DEF StopWorker
<1>2. next[c] \in Workers
  BY <1>1, NextIsWorker
<1>3. /\ running' \in [Workers -> BOOLEAN] /\ \A w \in Workers : running'[w] => running[w]
  BY <1>1, <1>2 DEF IInv, TypeOK
<1>4. /\ next' \in [Callers -> Nat] /\ \A d \in Callers : d # c => next'[d] = next[d]
  BY <1>1 DEF IInv, TypeOK
<1> QED
  BY <1>1, <1>3, <1>4, StopGoesOn DEF IInv, TypeOK, IndexInBounds

LEMMA StopWorkersDoneStep ==
  ASSUME IInv, NEW c \in Callers, StopWorkersDone(c)
  PROVE  IInv'
<1>1. PICK to \in {"stopped", "join"} :
        to = IF IsCalledFromWithin(c) \/ (c = Main /\ call # "stop") THEN "stopped" ELSE "join"
  OBVIOUS
<1>2. /\ StopAt(c, "workers", to)
      /\ limit' = [limit EXCEPT ![c] = RunningWorkers] /\ next' = [next EXCEPT ![c] = 0]
      /\ UNCHANGED <<flags, threads, call, startVars, history, given, terminated>>
  BY <1>1 DEF StopWorkersDone
<1>3. /\ next' \in [Callers -> Nat] /\ limit' \in [Callers -> Int]
      /\ \A d \in Callers : d # c => next'[d] = next[d] /\ limit'[d] = limit[d]
      /\ limit'[c] <= TotalWorkers
  BY <1>2 DEF IInv, TypeOK, CounterIsBounded
<1>4. to = "join" /\ c \in Workers => c >= ThreadCount
  <2>1. SUFFICES ASSUME to = "join", c \in Workers
                 PROVE  c >= ThreadCount
    OBVIOUS
  <2>2. c \notin 0 .. ThreadCount - 1
    BY <1>1, <2>1 DEF IsCalledFromWithin
  <2>3. c \in Nat /\ ThreadCount \in Nat
    BY <2>1, WorkersAre, ThreadCountIs DEF IInv
  <2> QED
    BY <2>2, <2>3
<1> QED
  BY <1>2, <1>3, <1>4, StopGoesOn DEF flags, IInv, TypeOK

LEMMA JoinWorkerStep ==
  ASSUME IInv, NEW c \in Callers, JoinWorker(c)
  PROVE  IInv'
<1> USE DEF startVars, history, given, flags
<1>1. /\ next[c] < limit[c] /\ stop[c] = "join" /\ stop' = [stop EXCEPT ![c] = "join"]
      /\ joinable[next[c]] => run[next[c]] = "ended"
      /\ joinable' = [joinable EXCEPT ![next[c]] = FALSE]
      /\ next' = [next EXCEPT ![c] = @ + 1]
      /\ UNCHANGED <<flags, Status, run, call, startVars, limit, history, given, terminated>>
  BY DEF JoinWorker, StopAt
<1>2. next[c] \in Workers /\ next[c] \in Nat
  BY <1>1, NextIsWorker
<1>3. /\ joinable' \in [Workers -> BOOLEAN] /\ ~ joinable'[next[c]]
      /\ \A w \in Workers : w # next[c] => joinable'[w] = joinable[w]
  BY <1>1, <1>2 DEF IInv, TypeOK
<1>4. /\ next' \in [Callers -> Nat] /\ next'[c] = next[c] + 1
      /\ \A d \in Callers : d # c => next'[d] = next[d]
  BY <1>1, <1>2 DEF IInv, TypeOK
<1>5. stop' = stop
  BY <1>1 DEF IInv, TypeOK
<1>6. TypeOK'
  BY <1>1, <1>3, <1>4, <1>5 DEF IInv, TypeOK
<1>7. ThreadCount' = ThreadCount /\ Active' = Active /\ Reported' = Reported
      /\ (ShutdownComes => ShutdownComes')
  BY <1>1 DEF ThreadCount, Active, Reported, ShutdownComes
<1>8. MainIsSomewhere'
  BY <1>1, <1>5, <1>7 DEF IInv, MainIsSomewhere
<1>9. ThreadsAreOwned'
  <2>1. ASSUME NEW w \in Workers, w < ThreadCount, ~ joinable'[w]
        PROVE  run[w] \in {"none", "ended"}
    <3>1. CASE joinable[w]
      <4>1. w = next[c]
        BY <1>3, <2>1, <3>1
      <4> QED
        BY <1>1, <3>1, <4>1
    <3>2. CASE ~ joinable[w]
      BY <2>1, <3>2 DEF IInv, ThreadsAreOwned
    <3> QED
      BY <3>1, <3>2
  <2>2. \A w \in Workers : joinable'[w] => joinable[w]
    BY <1>3
  <2> QED
    BY <1>1, <1>5, <1>7, <2>1, <2>2 DEF IInv, ThreadsAreOwned
<1>10. FlagsAreFresh' /\ CounterIsBounded' /\ IndexInBounds'
  BY <1>1 DEF IInv, FlagsAreFresh, CounterIsBounded, IndexInBounds
<1>11. JoinedForDestruction'
  <2>1. \A w \in Workers : joinable'[w] => joinable[w]
    BY <1>3
  <2>2. \A w \in Workers : w < next'[Main] => w < next[Main] \/ ~ joinable'[w]
    <3>1. SUFFICES ASSUME NEW w \in Workers, w < next'[Main], ~ (w < next[Main])
                   PROVE  ~ joinable'[w]
      OBVIOUS
    <3>2. Main \in Callers
      BY DEF Callers
    <3>3. c = Main
      BY <1>4, <3>1, <3>2
    <3>4. w = next[c]
      BY <1>2, <1>4, <3>1, <3>3, WorkersAre
    <3> QED
      BY <1>3, <3>4
  <2> QED
    BY <1>1, <1>5, <2>1, <2>2 DEF IInv, JoinedForDestruction
<1>12. CountedInLoop' /\ CountedOutside' /\ LastIsKnown'
  <2>1. step \notin InLoop
    BY <1>1, JoinsOutsideOfTheLoop
  <2> QED
    BY <1>1, <1>7, <2>1, CountsKept
<1> QED
  BY <1>6, <1>8, <1>9, <1>10, <1>11, <1>12 DEF IInv

LEMMA JoinDoneStep ==
  ASSUME IInv, NEW c \in Callers, JoinDone(c)
  PROVE  IInv'
<1> USE DEF startVars, history, given, flags, threads
<1>1. /\ next[c] >= limit[c] /\ stop[c] = "join" /\ stop' = [stop EXCEPT ![c] = "stopped"]
      /\ UNCHANGED <<flags, threads, call, startVars, next, limit, history, given, terminated>>
  BY DEF JoinDone, StopAt
<1>2. /\ stop' \in [Callers -> {"none", "test", "clear", "count", "workers", "join", "stopped"}]
      /\ stop'[c] = "stopped" /\ \A d \in Callers : d # c => stop'[d] = stop[d]
  BY <1>1 DEF IInv, TypeOK
<1>3. Main \in Callers /\ Workers \subseteq Callers
  BY DEF Callers
<1>4. TypeOK'
  BY <1>1, <1>2 DEF IInv, TypeOK
<1>5. ThreadCount' = ThreadCount /\ Active' = Active /\ Reported' = Reported
      /\ (ShutdownComes => ShutdownComes')
  BY <1>1 DEF ThreadCount, Active, Reported, ShutdownComes
<1>6. MainIsSomewhere' /\ ThreadsAreOwned'
  BY <1>1, <1>2, <1>3, <1>5 DEF IInv, MainIsSomewhere, ThreadsAreOwned
<1>7. FlagsAreFresh' /\ CounterIsBounded' /\ IndexInBounds'
  BY <1>1 DEF IInv, FlagsAreFresh, CounterIsBounded, IndexInBounds
<1>8. JoinedForDestruction'
  <2>1. c = Main /\ call = "destroy" => \A w \in Workers : ~ joinable[w]
    <3>1. SUFFICES ASSUME c = Main, call = "destroy", NEW w \in Workers
                   PROVE  ~ joinable[w]
      OBVIOUS
    <3>2. next[Main] >= TotalWorkers /\ next[Main] \in Nat
      BY <1>1, <1>3, <3>1 DEF IInv, TypeOK, JoinedForDestruction
    <3>3. w < next[Main]
      BY <3>2, WorkersAre, TotalWorkersAssumption
    <3> QED
      BY <3>1, <3>3 DEF IInv, JoinedForDestruction
  <2> QED
    BY <1>1, <1>2, <1>3, <2>1 DEF IInv, JoinedForDestruction
<1>9. CountedInLoop' /\ CountedOutside' /\ LastIsKnown'
  BY <1>1, <1>5, CountsKept
<1> QED
  BY <1>4, <1>6, <1>7, <1>8, <1>9 DEF IInv

(* A worker's task enters and leaves Stop. *)
LEMMA WorkerStops ==
  ASSUME IInv, NEW w \in Workers, NEW from, NEW to \in {"none", "test"}, StopAt(w, from, to),
         to # "none" => run[w] = "task",
         UNCHANGED <<flags, threads, call, startVars, next, limit, history, given, terminated>>
  PROVE  IInv'
<1> USE DEF startVars, history, given, flags, threads
<1>1. Main \in Callers /\ w \in Callers /\ Main # w /\ Workers \subseteq Callers
  BY WorkersAre DEF Callers
<1>2. /\ stop' \in [Callers -> {"none", "test", "clear", "count", "workers", "join", "stopped"}]
      /\ stop'[w] = to /\ \A d \in Callers : d # w => stop'[d] = stop[d]
  BY <1>1 DEF StopAt, IInv, TypeOK
<1>3. TypeOK'
  BY <1>2 DEF IInv, TypeOK
<1>4. ThreadCount' = ThreadCount /\ Active' = Active /\ Reported' = Reported
      /\ (ShutdownComes => ShutdownComes')
  BY DEF ThreadCount, Active, Reported, ShutdownComes
<1>5. MainIsSomewhere' /\ ThreadsAreOwned'
  BY <1>1, <1>2, <1>4 DEF IInv, MainIsSomewhere, ThreadsAreOwned
<1>6. FlagsAreFresh' /\ CounterIsBounded' /\ IndexInBounds'
  BY DEF IInv, FlagsAreFresh, CounterIsBounded, IndexInBounds
<1>7. JoinedForDestruction'
  BY <1>1, <1>2 DEF IInv, JoinedForDestruction
<1>8. CountedInLoop' /\ CountedOutside' /\ LastIsKnown'
  BY <1>4, CountsKept
<1> QED
  BY <1>3, <1>5, <1>6, <1>7, <1>8 DEF IInv

-----------------------------------------------------------------------------
(* The other calls of Main. *)

LEMMA MainCallsStep ==
  ASSUME IInv, NEW from \in {"none", "reset", "destroy", "destroyReset"},
         NEW to \in {"stop", "join", "reset", "resetJoin", "destroy", "destroyReset", "destroyJoin"},
         NEW entry \in {"test", "join"}, NEW bound \in Int,
         MainCalls(from, to, entry, bound), bound <= TotalWorkers,
         to = "destroy" => entry = "join" /\ bound = TotalWorkers,
         to \in {"destroyReset", "destroyJoin"} => \A w \in Workers : ~ joinable[w]
  PROVE  IInv'
<1> USE DEF startVars, history, given, flags, threads
<1>1. /\ call = from /\ call' = to
      /\ stop' = [stop EXCEPT ![Main] = entry] /\ next' = [next EXCEPT ![Main] = 0]
      /\ limit' = [limit EXCEPT ![Main] = bound]
      /\ UNCHANGED <<flags, threads, startVars, history, given, terminated>>
  BY DEF MainCalls
<1>2. Main \in Callers /\ Workers \subseteq Callers /\ Main \notin Workers
  BY WorkersAre DEF Callers
<1>3. /\ stop' \in [Callers -> {"none", "test", "clear", "count", "workers", "join", "stopped"}]
      /\ next' \in [Callers -> Nat] /\ limit' \in [Callers -> Int]
      /\ stop'[Main] = entry /\ next'[Main] = 0 /\ limit'[Main] = bound
      /\ \A d \in Callers : d # Main =>
           stop'[d] = stop[d] /\ next'[d] = next[d] /\ limit'[d] = limit[d]
  BY <1>1, <1>2 DEF IInv, TypeOK
<1>4. TypeOK'
  BY <1>1, <1>3 DEF IInv, TypeOK
<1>5. ThreadCount' = ThreadCount /\ Active' = Active /\ Reported' = Reported
      /\ (ShutdownComes => ShutdownComes')
  BY <1>1 DEF ThreadCount, Active, Reported, ShutdownComes
<1>6. step = "none" /\ step' = "none" /\ call' # "start"
  BY <1>1 DEF IInv, MainIsSomewhere
<1>7. MainIsSomewhere'
  BY <1>1, <1>3, <1>5, <1>6 DEF IInv, MainIsSomewhere, InLoop
<1>8. ThreadsAreOwned'
  BY <1>1, <1>2, <1>3, <1>5 DEF IInv, ThreadsAreOwned
<1>9. FlagsAreFresh' /\ CounterIsBounded'
  BY <1>1, <1>6 DEF IInv, FlagsAreFresh, CounterIsBounded
<1>10. IndexInBounds'
  BY <1>3 DEF IInv, IndexInBounds
<1>11. JoinedForDestruction'
  <2>1. ~ terminated'
    BY <1>1, <1>6 DEF IInv, JoinedForDestruction
  <2>2. \A w \in Workers : ~ (w < 0)
    BY WorkersAre
  <2> QED
    BY <1>1, <1>3, <2>1, <2>2 DEF JoinedForDestruction
<1>12. CountedInLoop' /\ CountedOutside' /\ LastIsKnown'
  BY <1>1, <1>5, CountsKept
<1> QED
  BY <1>4, <1>7, <1>8, <1>9, <1>10, <1>11, <1>12 DEF IInv

LEMMA CallsStep ==
  ASSUME IInv, Stop \/ JoinGroup \/ Reset \/ Destructor \/ ResetJoins \/ DestructorResets
  PROVE  IInv'
<1>1. /\ RunningWorkers \in Int /\ RunningWorkers <= TotalWorkers
      /\ TotalWorkers \in Int /\ TotalWorkers <= TotalWorkers /\ 0 \in Int /\ 0 <= TotalWorkers
  BY TotalWorkersAssumption DEF IInv, TypeOK, CounterIsBounded
<1>2. CASE Stop
  BY <1>1, <1>2, MainCallsStep DEF Stop
<1>3. CASE JoinGroup
  BY <1>1, <1>3, MainCallsStep DEF JoinGroup
<1>4. CASE Reset
  BY <1>1, <1>4, MainCallsStep DEF Reset
<1>5. CASE Destructor
  BY <1>1, <1>5, MainCallsStep DEF Destructor
<1>6. CASE ResetJoins
  <2>1. CASE MainCalls("reset", "resetJoin", "join", RunningWorkers)
    BY <1>1, <2>1, MainCallsStep
  <2>2. CASE MainCalls("destroyReset", "destroyJoin", "join", RunningWorkers)
    <3>1. \A w \in Workers : ~ joinable[w]
      BY <2>2 DEF MainCalls, IInv, JoinedForDestruction
    <3> QED
      BY <1>1, <2>2, <3>1, MainCallsStep
  <2> QED
    BY <1>6, <2>1, <2>2 DEF ResetJoins
<1>7. CASE DestructorResets
  <2>1. \A w \in Workers : ~ joinable[w]
    BY <1>7 DEF DestructorResets, MainCalls, IInv, JoinedForDestruction
  <2> QED
    BY <1>1, <1>7, <2>1, MainCallsStep DEF DestructorResets
<1> QED
  BY <1>2, <1>3, <1>4, <1>5, <1>6, <1>7

(* Main leaves a call of Stop, or ends. *)
LEMMA MainLeaves ==
  ASSUME IInv, UNCHANGED <<flags, threads, startVars, next, limit, history, given>>,
         stop' = [stop EXCEPT ![Main] = "none"], step = "none",
         call' \in {"none", "resetJoin", "deleted", "cleared", "crashed"},
         call' = "deleted" => \A w \in Workers : ~ joinable[w],
         terminated' \in BOOLEAN, terminated' => call' \in {"resetJoin", "crashed"}
  PROVE  IInv'
<1> USE DEF startVars, history, given, flags, threads
<1>1. Main \in Callers /\ Workers \subseteq Callers /\ Main \notin Workers
  BY WorkersAre DEF Callers
<1>2. /\ stop' \in [Callers -> {"none", "test", "clear", "count", "workers", "join", "stopped"}]
      /\ stop'[Main] = "none" /\ \A d \in Callers : d # Main => stop'[d] = stop[d]
  BY <1>1 DEF IInv, TypeOK
<1>3. TypeOK'
  BY <1>2 DEF IInv, TypeOK
<1>4. ThreadCount' = ThreadCount /\ Active' = Active /\ Reported' = Reported
      /\ (ShutdownComes => ShutdownComes')
  BY DEF ThreadCount, Active, Reported, ShutdownComes
<1>5. MainIsSomewhere' /\ ThreadsAreOwned'
  BY <1>1, <1>2, <1>4 DEF IInv, MainIsSomewhere, ThreadsAreOwned, InLoop
<1>6. FlagsAreFresh' /\ CounterIsBounded' /\ IndexInBounds'
  BY DEF IInv, FlagsAreFresh, CounterIsBounded, IndexInBounds
<1>7. JoinedForDestruction'
  BY <1>2 DEF JoinedForDestruction
<1>8. CountedInLoop' /\ CountedOutside' /\ LastIsKnown'
  BY <1>4, CountsKept
<1> QED
  BY <1>3, <1>5, <1>6, <1>7, <1>8 DEF IInv

LEMMA MainReturnsFromStopStep ==
  ASSUME IInv, MainReturnsFromStop
  PROVE  IInv'
<1>1. /\ call \in {"stop", "join"} /\ call' = "none" /\ stop' = [stop EXCEPT ![Main] = "none"]
      /\ UNCHANGED <<flags, threads, startVars, next, limit, history, given, terminated>>
  BY DEF MainReturnsFromStop, StopAt
<1>2. step = "none" /\ terminated' \in BOOLEAN /\ ~ terminated'
  BY <1>1 DEF IInv, MainIsSomewhere, JoinedForDestruction, TypeOK
<1> QED
  BY <1>1, <1>2, MainLeaves

LEMMA DeleteWorkersStep ==
  ASSUME IInv, DeleteWorkers
  PROVE  IInv'
<1>1. /\ call \in {"resetJoin", "destroyJoin"} /\ stop[Main] = "stopped"
      /\ stop' = [stop EXCEPT ![Main] = "none"]
      /\ UNCHANGED <<flags, threads, startVars, next, limit, history, given>>
  BY DEF DeleteWorkers, StopAt
<1>2. step = "none" /\ terminated \in BOOLEAN /\ ~ terminated
  BY <1>1 DEF IInv, MainIsSomewhere, JoinedForDestruction, TypeOK
<1>3. CASE \E w \in Workers : joinable[w]
  <2>1. call = "resetJoin"
    BY <1>1, <1>3 DEF IInv, JoinedForDestruction
  <2>2. call' = "resetJoin" /\ terminated' = TRUE
    BY <1>3, <2>1 DEF DeleteWorkers
  <2> QED
    BY <1>1, <1>2, <2>2, MainLeaves
<1>4. CASE \A w \in Workers : ~ joinable[w]
  <2>1. call' \in {"cleared", "deleted"} /\ terminated' = terminated
    BY <1>4 DEF DeleteWorkers
  <2> QED
    BY <1>1, <1>2, <1>4, <2>1, MainLeaves
<1> QED
  BY <1>3, <1>4

LEMMA DestructorAfterResetStep ==
  ASSUME IInv, DestructorAfterReset
  PROVE  IInv'
<1>1. /\ call = "cleared" /\ call' = "crashed"
      /\ UNCHANGED <<flags, threads, startVars, stopVars, history, given, terminated>>
  BY DEF DestructorAfterReset
<1>2. step = "none" /\ stop[Main] = "none" /\ terminated' \in BOOLEAN
      /\ stop' = [stop EXCEPT ![Main] = "none"] /\ UNCHANGED <<next, limit>>
  BY <1>1 DEF IInv, MainIsSomewhere, TypeOK, stopVars
<1> QED
  BY <1>1, <1>2, MainLeaves

LEMMA InitializeStep ==
  ASSUME IInv, Initialize
  PROVE  IInv'
<1>1. /\ call \in {"none", "cleared"}
      /\ UNCHANGED <<RunningWorkers, groupRunning, startVars, stopVars, history>>
  BY DEF Initialize
<1>2. step = "none" /\ stop[Main] = "none" /\ ~ terminated /\ Main \in Callers
  BY <1>1 DEF IInv, MainIsSomewhere, JoinedForDestruction, Callers
<1>3. CASE /\ terminated' = TRUE
           /\ call' = "crashed"
           /\ UNCHANGED <<given, running, threads>>
  <2>1. stop' = [stop EXCEPT ![Main] = "none"] /\ terminated' \in BOOLEAN
    BY <1>1, <1>2, <1>3 DEF stopVars, IInv, TypeOK
  <2> QED
    BY <1>1, <1>2, <1>3, <2>1, MainLeaves DEF stopVars, flags
<1>4. CASE /\ \A w \in Workers : ~ joinable[w]
           /\ call' = "none"
           /\ bHasTLSInitTask' \in BOOLEAN
           /\ running' = [w \in Workers |-> FALSE]
           /\ Status' = [w \in Workers |-> TRUE]
           /\ run' = [w \in Workers |-> "none"]
           /\ UNCHANGED <<bIncludeMainThread, joinable, terminated>>
  <2> USE DEF startVars, stopVars, history
  <2>1. /\ running' \in [Workers -> BOOLEAN] /\ Status' \in [Workers -> BOOLEAN]
        /\ run' \in [Workers -> Runs]
        /\ \A w \in Workers : ~ running'[w] /\ Status'[w] /\ run'[w] = "none"
    BY <1>4 DEF Runs
  <2>2. TypeOK'
    BY <1>1, <1>4, <2>1 DEF IInv, TypeOK
  <2>3. \A w \in Workers : run[w] \in {"none", "ended"}
    <3>1. ThreadCount \in Nat
      BY ThreadCountIs DEF IInv
    <3>2. \A w \in Workers : w < ThreadCount \/ w >= ThreadCount
      BY <3>1, WorkersAre
    <3> QED
      BY <1>2, <1>4, <3>2 DEF IInv, ThreadsAreOwned
  <2>4. \A w \in Workers : stop[w] = "none"
    BY <2>3 DEF IInv, ThreadsAreOwned
  <2>5. ThreadCount' = ThreadCount
    BY <1>4 DEF ThreadCount
  <2>6. MainIsSomewhere' /\ ThreadsAreOwned'
    BY <1>1, <1>2, <1>4, <2>1, <2>4, <2>5 DEF MainIsSomewhere, ThreadsAreOwned, InLoop
  <2>7. FlagsAreFresh'
    BY <2>1 DEF FlagsAreFresh
  <2>8. CounterIsBounded' /\ IndexInBounds'
    BY <1>1, <1>2, <1>4 DEF IInv, CounterIsBounded, IndexInBounds
  <2>9. JoinedForDestruction'
    BY <1>2, <1>4 DEF JoinedForDestruction
  <2>10. CountedInLoop' /\ CountedOutside' /\ LastIsKnown'
    <3>1. Active = {} /\ Active' = {}
      BY <2>1, <2>3 DEF Active
    <3>2. 0 \in Workers /\ 0 \notin Reported'
      BY <2>1, WorkersAre DEF Reported
    <3> QED
      BY <1>1, <1>2, <3>1, <3>2 DEF IInv, CountedInLoop, CountedOutside, LastIsKnown, InLoop
  <2> QED
    BY <2>2, <2>6, <2>7, <2>8, <2>9, <2>10 DEF IInv
<1> QED
  BY <1>3, <1>4 DEF Initialize

-----------------------------------------------------------------------------
LEMMA Initially ==
  ASSUME Init
  PROVE  IInv
<1>1. Main \in Callers
  BY DEF Callers
<1>2. TypeOK
  <2>1. /\ bIncludeMainThread \in BOOLEAN /\ bHasTLSInitTask \in BOOLEAN
        /\ groupRunning \in BOOLEAN /\ failed \in BOOLEAN /\ terminated \in BOOLEAN
    BY Zenon DEF Init
  <2>2. /\ running \in [Workers -> BOOLEAN] /\ Status \in [Workers -> BOOLEAN]
        /\ joinable \in [Workers -> BOOLEAN]
    BY DEF Init
  <2>3. RunningWorkers \in Int /\ index \in 0 .. TotalWorkers /\ starts \in 0 .. MaxStarts
        /\ shutdowns \in Nat
    BY MaxStartsAssumption, TotalWorkersAssumption DEF Init
  <2> QED
    BY <2>1, <2>2, <2>3 DEF Init, TypeOK, Runs
<1>3. MainIsSomewhere /\ ThreadsAreOwned /\ FlagsAreFresh /\ IndexInBounds
  BY <1>1, TotalWorkersAssumption, WorkersAre
     DEF Init, MainIsSomewhere, ThreadsAreOwned, FlagsAreFresh, IndexInBounds, InLoop, Callers
<1>4. CounterIsBounded
  BY TotalWorkersAssumption DEF Init, CounterIsBounded
<1>5. Active = {} /\ 0 \in Workers /\ 0 \notin Reported
  BY WorkersAre DEF Init, Active, Reported
<1>6. CountedInLoop /\ CountedOutside /\ LastIsKnown
  BY <1>5, FS_EmptySet DEF Init, CountedInLoop, CountedOutside, LastIsKnown, InLoop
<1>7. JoinedForDestruction
  BY DEF Init, JoinedForDestruction
<1> QED
  BY <1>2, <1>3, <1>4, <1>6, <1>7 DEF IInv

LEMMA StutteringStep ==
  ASSUME IInv, UNCHANGED vars
  PROVE  IInv'
<1> USE DEF vars, given, flags, threads, startVars, stopVars, history
<1>1. ThreadCount' = ThreadCount /\ Active' = Active /\ Reported' = Reported
      /\ (ShutdownComes => ShutdownComes')
  BY DEF ThreadCount, Active, Reported, ShutdownComes
<1>2. TypeOK' /\ MainIsSomewhere' /\ ThreadsAreOwned'
  BY <1>1 DEF IInv, TypeOK, MainIsSomewhere, ThreadsAreOwned
<1>3. FlagsAreFresh' /\ CounterIsBounded' /\ IndexInBounds' /\ JoinedForDestruction'
  BY DEF IInv, FlagsAreFresh, CounterIsBounded, IndexInBounds, JoinedForDestruction
<1>4. CountedInLoop' /\ CountedOutside' /\ LastIsKnown'
  BY <1>1, CountsKept
<1> QED
  BY <1>2, <1>3, <1>4 DEF IInv

LEMMA StopStepsStep ==
  ASSUME IInv, NEW c \in Callers, StopSteps(c)
  PROVE  IInv'
  BY StopTestStep, StopClearStep, StopCountStep, StopWorkerStep, StopWorkersDoneStep,
     JoinWorkerStep, JoinDoneStep DEF StopSteps

LEMMA RunImplStep ==
  ASSUME IInv, NEW w \in Workers, RunImpl(w)
  PROVE  IInv'
  BY InitializeWorkerStep, AnnounceStep, TaskReturnsStep, ClearRunningStep,
     OnWorkerShutdownStep, OnGroupShutdownStep, ClearGroupRunningStep DEF RunImpl

LEMMA NextStep ==
  ASSUME IInv, [Next]_vars
  PROVE  IInv'
<1>1. CASE Start \/ StartSteps
  BY <1>1, StartStepOne, StartRunningStep, StartThreadStep, WaitForIsRunningStep, CheckStatusStep,
     CountWorkerStep, AllStartedStep, CountMainStep, MainReturnsStep DEF StartSteps
<1>2. CASE Stop \/ JoinGroup \/ Reset \/ Destructor \/ ResetJoins \/ DestructorResets
  BY <1>2, CallsStep
<1>3. CASE Initialize \/ DestructorAfterReset \/ MainReturnsFromStop \/ DeleteWorkers
  BY <1>3, InitializeStep, DestructorAfterResetStep, MainReturnsFromStopStep, DeleteWorkersStep
<1>4. CASE StopSteps(Main)
  <2>1. Main \in Callers
    BY DEF Callers
  <2> QED
    BY <1>4, <2>1, StopStepsStep
<1>5. ASSUME NEW w \in Workers, RunImpl(w) \/ TaskStops(w) \/ StopSteps(w) \/ StopReturns(w)
      PROVE  IInv'
  <2>1. w \in Callers
    BY DEF Callers
  <2>2. CASE TaskStops(w)
    <3>1. /\ StopAt(w, "none", "test") /\ run[w] = "task"
          /\ UNCHANGED <<flags, threads, call, startVars, next, limit, history, given, terminated>>
      BY <2>2 DEF TaskStops
    <3> QED
      BY <3>1, WorkerStops
  <2>3. CASE StopReturns(w)
    <3>1. /\ StopAt(w, "stopped", "none")
          /\ UNCHANGED <<flags, threads, call, startVars, next, limit, history, given, terminated>>
      BY <2>3 DEF StopReturns
    <3> QED
      BY <3>1, WorkerStops
  <2> QED
    BY <1>5, <2>1, <2>2, <2>3, RunImplStep, StopStepsStep
<1>6. CASE UNCHANGED vars
  BY <1>6, StutteringStep
<1> QED
  BY <1>1, <1>2, <1>3, <1>4, <1>5, <1>6 DEF Next, MainSteps

-----------------------------------------------------------------------------
(* The inductive invariant: whom a thread belongs to, where Main is, and   *)
(* what RunningWorkers counts while Start increments it and the workers    *)
(* decrement it.                                                           *)
THEOREM Invariance == Spec => []IInv
<1>1. Init => IInv
  BY Initially
<1>2. IInv /\ [Next]_vars => IInv'
  BY NextStep
<1> QED
  BY <1>1, <1>2, PTL DEF Spec

(* Outside of Start, RunningWorkers is the number of workers that have not *)
(* reported to OnWorkerShutdown, though Start resets it while workers of an*)
(* earlier one may be on their way out.                                    *)
THEOREM RunningWorkersIsExact == Spec => []CounterIsExact
<1>1. IInv => CounterIsExact
  BY DEF IInv, MainIsSomewhere, CountedOutside, CounterIsExact, Active
<1> QED
  BY <1>1, Invariance, PTL

(* Stop and JoinGroup index Workers with at most RunningWorkers, which is  *)
(* never more than there are.                                              *)
THEOREM LoopsStayInTheArray == Spec => []IndexInBounds
<1>1. IInv => IndexInBounds
  BY DEF IInv
<1> QED
  BY <1>1, Invariance, PTL

(* A worker that calls Stop from its task does not join its own thread.    *)
THEOREM NobodyJoinsItself == Spec => []NoSelfJoin
<1>1. IInv => NoSelfJoin
  <2>1. SUFFICES ASSUME IInv, NEW w \in Workers, stop[w] = "join", joinable[w]
                 PROVE  FALSE
    BY DEF NoSelfJoin
  <2>2. w >= ThreadCount /\ w < ThreadCount
    BY <2>1 DEF IInv, ThreadsAreOwned
  <2> QED
    BY <2>2, WorkersAre, ThreadCountIs, <2>1 DEF IInv
<1> QED
  BY <1>1, Invariance, PTL

(* The last worker to report finds at most one in RunningWorkers and calls *)
(* OnGroupShutdown, also when it reports while Start still counts.         *)
THEOREM GroupShutdownIsReported == Spec => []ShutdownNotForgotten
<1>1. IInv => ShutdownNotForgotten
  <2>1. SUFFICES ASSUME IInv, call # "start", ~ failed, \A w \in Workers : run[w] = "ended"
                 PROVE  shutdowns > 0
    BY DEF ShutdownNotForgotten
  <2>2. step = "none" /\ \A w \in Workers : w \in Reported
    BY <2>1 DEF IInv, MainIsSomewhere, Reported
  <2>3. ShutdownComes
    BY <2>1, <2>2 DEF IInv, LastIsKnown
  <2> QED
    BY <2>1, <2>3 DEF ShutdownComes
<1> QED
  BY <1>1, Invariance, PTL

(* ~_WorkerGroup joins every thread before it deletes the workers, so the  *)
(* destructor of std::thread does not end the program.                     *)
THEOREM DestructorJoinsAll == Spec => []DestructorIsQuiet
<1>1. IInv => DestructorIsQuiet
  BY DEF IInv, MainIsSomewhere, JoinedForDestruction, DestructorIsQuiet
<1> QED
  BY <1>1, Invariance, PTL

-----------------------------------------------------------------------------
(* Part 2: ServerController. *)

LEMMA CallersAre == Main \in Callers /\ Workers \subseteq Callers /\ Main \notin Workers
  BY WorkersAre DEF Callers

(* A step of the group, or none, keeps what the group knows of itself; a   *)
(* worker in the controller's Stop stays in its task, and the program ends *)
(* in Start only.                                                          *)
LEMMA StartStepsKeep ==
  ASSUME IInv, StartSteps
  PROVE  /\ \A w \in Workers : run[w] = "task" => run'[w] = "task"
         /\ call = "start" /\ call' \in {"start", "none"}
         /\ terminated' = terminated \/ step' = "dead"
         /\ bIncludeMainThread' = bIncludeMainThread
<1> USE DEF flags, threads, given, StartStep
<1>1. CASE StartThread
  <2>1. index \in Workers /\ (~ joinable[index] => run[index] \in {"none", "ended"})
    BY <1>1, IndexIsWorker DEF StartThread, IInv, ThreadsAreOwned
  <2>2. run' = run \/ (~ joinable[index] /\ run' = [run EXCEPT ![index] = "initialize"])
    BY <1>1 DEF StartThread
  <2>3. call' = call /\ call = "start" /\ bIncludeMainThread' = bIncludeMainThread
    BY <1>1 DEF StartThread
  <2>4. terminated' = terminated \/ step' = "dead"
    BY <1>1 DEF StartThread
  <2>5. \A w \in Workers : run[w] = "task" => run'[w] = "task"
    BY <2>1, <2>2 DEF IInv, TypeOK
  <2> QED
    BY <2>3, <2>4, <2>5
<1>2. CASE CountMain
  <2>1. index = ThreadCount /\ step = "countMain" /\ run' = [run EXCEPT ![index] = "initialize"]
    BY <1>2 DEF CountMain, IInv, MainIsSomewhere
  <2>2. ThreadCount \in Nat
    BY ThreadCountIs DEF IInv
  <2>3. \A w \in Workers : w = index => run[w] \in {"none", "ended"}
    BY <2>1, <2>2, WorkersAre DEF IInv, ThreadsAreOwned
  <2>4. \A w \in Workers : run[w] = "task" => run'[w] = "task"
    BY <2>1, <2>3 DEF IInv, TypeOK
  <2> QED
    BY <1>2, <2>4 DEF CountMain
<1>3. CASE StartRunning \/ WaitForIsRunning \/ MainReturns
  BY <1>3 DEF StartRunning, WaitForIsRunning, MainReturns
<1>4. CASE CheckStatus \/ CountWorker \/ AllStarted
  BY <1>4 DEF CheckStatus, CountWorker, AllStarted
<1> QED
  BY <1>1, <1>2, <1>3, <1>4 DEF StartSteps

LEMMA RunImplKeeps ==
  ASSUME IInv, NEW v \in Workers, RunImpl(v)
  PROVE  /\ \A w \in Workers \ {v} : run'[w] = run[w]
         /\ UNCHANGED <<call, terminated, bIncludeMainThread>>
<1> USE DEF given
<1>1. \E to : run' = [run EXCEPT ![v] = to]
  BY DEF RunImpl, RunAt, InitializeWorker, Announce, TaskReturns, ClearRunning, OnWorkerShutdown,
         OnGroupShutdown, ClearGroupRunning
<1>2. UNCHANGED <<call, terminated, bIncludeMainThread>>
  BY DEF RunImpl, RunAt, InitializeWorker, Announce, TaskReturns, ClearRunning, OnWorkerShutdown,
         OnGroupShutdown, ClearGroupRunning
<1> QED
  BY <1>1, <1>2 DEF IInv, TypeOK

LEMMA StopStepsKeep ==
  ASSUME NEW c \in Callers, StopSteps(c)
  PROVE  UNCHANGED <<run, call, terminated, bIncludeMainThread>>
  BY DEF StopSteps, StopTest, StopClear, StopCount, StopWorker, StopWorkersDone, JoinWorker, JoinDone,
         threads, given

LEMMA CallsKeep ==
  ASSUME IInv, GroupIsUsed, ResetJoins \/ DestructorResets \/ DeleteWorkers
  PROVE  /\ UNCHANGED <<run, terminated, bIncludeMainThread>>
         /\ call # "deleted" /\ call' \in {"destroyReset", "destroyJoin", "deleted"}
<1> USE DEF threads, given
<1>1. CASE ResetJoins \/ DestructorResets
  BY <1>1 DEF ResetJoins, DestructorResets, MainCalls, GroupIsUsed
<1>2. CASE DeleteWorkers
  <2>1. call = "destroyJoin" /\ \A w \in Workers : ~ joinable[w]
    BY <1>2 DEF DeleteWorkers, GroupIsUsed, IInv, JoinedForDestruction
  <2> QED
    BY <1>2, <2>1 DEF DeleteWorkers
<1> QED
  BY <1>1, <1>2

LEMMA GroupStepsKeep ==
  ASSUME IInv, GroupIsUsed, GroupSteps
  PROVE  /\ IInv'
         /\ \A w \in Workers : control[w] # "none" /\ run[w] = "task" => run'[w] = "task"
         /\ terminated' = terminated \/ step' = "dead"
         /\ bIncludeMainThread' = bIncludeMainThread
         /\ call' \in {call, "start", "none", "destroyReset", "destroyJoin", "deleted"}
         /\ call = "deleted" => call' = "deleted"
<1>1. CASE StartSteps
  BY <1>1, NextStep, StartStepsKeep DEF Next, MainSteps
<1>2. CASE StopSteps(Main)
  <2>1. IInv'
    BY <1>2, StopStepsStep, CallersAre
  <2>2. UNCHANGED <<run, call, terminated, bIncludeMainThread>>
    BY <1>2, StopStepsKeep, CallersAre
  <2> QED
    BY <2>1, <2>2
<1>3. CASE ResetJoins \/ DestructorResets \/ DeleteWorkers
  <2>1. IInv'
    BY <1>3, CallsStep, DeleteWorkersStep
  <2> QED
    BY <1>3, <2>1, CallsKeep
<1>4. ASSUME NEW v \in Workers, StopSteps(v)
      PROVE  IInv' /\ UNCHANGED <<run, call, terminated, bIncludeMainThread>>
  BY <1>4, StopStepsStep, StopStepsKeep, CallersAre
<1>5. ASSUME NEW v \in Workers, control[v] = "none", RunImpl(v)
      PROVE  /\ IInv' /\ UNCHANGED <<call, terminated, bIncludeMainThread>>
             /\ \A w \in Workers : control[w] # "none" => run'[w] = run[w]
  BY <1>5, RunImplStep, RunImplKeeps
<1> QED
  BY <1>1, <1>2, <1>3, <1>4, <1>5 DEF GroupSteps

-----------------------------------------------------------------------------
(* The parts of the invariant that speak of the group, after a step of it. *)
LEMMA GroupMoves ==
  ASSUME CInv, IInv', StopsAreNested',
         ~ terminated, terminated' => step' = "dead",
         call' \notin {"reset", "resetJoin", "cleared", "crashed"},
         main' \in {"destroyThread", "gone"} => call' = "deleted",
         \A w \in Workers : closing'[w] # "none" => control'[w] # "none"
  PROVE  GroupIsUsed' /\ DestructionIsQuiet' /\ NobodyLeftBehind'
<1>1. GroupIsUsed' /\ DestructionIsQuiet'
  BY DEF GroupIsUsed, DestructionIsQuiet
<1>2. NobodyLeftBehind'
  <2> SUFFICES ASSUME call' = "deleted", NEW w \in Workers
               PROVE  /\ run'[w] \in {"none", "ended"} /\ control'[w] = "none"
                      /\ stop'[w] = "none" /\ closing'[w] = "none"
    BY DEF NobodyLeftBehind
  <2>1. ~ joinable'[w] /\ step' # "runMain"
    BY DEF IInv, JoinedForDestruction, MainIsSomewhere
  <2>2. ThreadCount' \in Nat /\ w \in Nat
    <3>1. bIncludeMainThread' \in BOOLEAN
      BY DEF IInv, TypeOK
    <3> QED
      BY <3>1, TotalWorkersAssumption DEF ThreadCount, Workers
  <2>3. run'[w] \in {"none", "ended"}
    BY <2>1, <2>2 DEF IInv, ThreadsAreOwned
  <2> QED
    BY <2>3 DEF IInv, ThreadsAreOwned, StopsAreNested
<1> QED
  BY <1>1, <1>2

LEMMA GroupStepsStep ==
  ASSUME CInv, ~ terminated, GroupSteps
  PROVE  CInv'
<1>1. IInv /\ GroupIsUsed
  BY DEF CInv
<1>2. /\ UNCHANGED <<Run, socketOpen, acceptor, acceptJoinable, closing, bIsStarted, main, control,
                     startTasks, stopTasks, opened, overlapped>>
      /\ UNCHANGED bIncludeMainThread
  BY <1>1, GroupStepsKeep DEF GroupSteps, listenerVars, recorded
<1>3. IInv' /\ terminated' \in BOOLEAN
  BY <1>1, GroupStepsKeep DEF IInv, TypeOK
<1>4. ControllerTypeOK' /\ OpenedFirst' /\ OneStopper' /\ StartedInTime'
  BY <1>2, <1>3 DEF CInv, ControllerTypeOK, OpenedFirst, OneStopper, StartedInTime
<1>5. StopTasksAreCounted'
  BY <1>2 DEF CInv, StopTasksAreCounted, StopTasksAhead
<1>6. AcceptorIsJoined'
  BY <1>2 DEF CInv, AcceptorIsJoined, Joining
<1>7. StopsAreNested'
  BY <1>1, <1>2, GroupStepsKeep DEF CInv, StopsAreNested
<1>8. \A w \in Workers : closing'[w] # "none" => control'[w] # "none"
  BY <1>2, CallersAre DEF CInv, StopsAreNested
<1>9. GroupIsUsed' /\ DestructionIsQuiet' /\ NobodyLeftBehind'
  <2>1. main' \in {"destroyThread", "gone"} => call' = "deleted"
    BY <1>1, <1>2, GroupStepsKeep DEF GroupIsUsed
  <2>2. call' \notin {"reset", "resetJoin", "cleared", "crashed"}
    BY <1>1, GroupStepsKeep DEF GroupIsUsed
  <2>3. terminated' => step' = "dead"
    BY <1>1, GroupStepsKeep
  <2> QED
    BY <1>3, <1>7, <1>8, <2>1, <2>2, <2>3, GroupMoves
<1> QED
  BY <1>3, <1>4, <1>5, <1>6, <1>7, <1>9 DEF CInv

(* The parts that speak of the controller, while Main goes on and Stop and *)
(* the listener are left alone.                                            *)
Inside == {"startWorkers", "starting"}

LEMMA MainMoves ==
  ASSUME CInv,
         UNCHANGED <<Run, socketOpen, acceptor, acceptJoinable, closing, bIsStarted, control,
                     startTasks, stopTasks, opened, overlapped, run, terminated, bIncludeMainThread>>,
         NEW to \in {"none", "startWorkers", "starting", "stop", "stopped", "waiting",
                     "destroy", "destroyWorkers", "destroyListener"},
         main' = to, main # "destroyThread", main \in Inside <=> to \in Inside,
         to = "destroyListener" => control[Main] = "none"
  PROVE  /\ ControllerTypeOK' /\ OpenedFirst' /\ OneStopper' /\ StartedInTime'
         /\ StopTasksAreCounted' /\ AcceptorIsJoined' /\ StopsAreNested'
         /\ \A w \in Workers : closing'[w] # "none" => control'[w] # "none"
<1>1. ControllerTypeOK'
  BY DEF CInv, ControllerTypeOK
<1>2. OpenedFirst' /\ OneStopper' /\ StartedInTime'
  BY DEF CInv, OpenedFirst, OneStopper, StartedInTime, Inside
<1>3. StopTasksAreCounted'
  BY DEF CInv, StopTasksAreCounted, StopTasksAhead, Inside
<1>4. AcceptorIsJoined'
  BY DEF CInv, AcceptorIsJoined, Joining
<1>5. StopsAreNested' /\ \A w \in Workers : closing'[w] # "none" => control'[w] # "none"
  BY CallersAre DEF CInv, StopsAreNested
<1> QED
  BY <1>1, <1>2, <1>3, <1>4, <1>5

(* Main calls the group. *)
LEMMA MainUsesGroup ==
  ASSUME CInv, ~ terminated,
         StartWorkers \/ WaitAfterStop \/ WaitForController \/ WaitForControllerReturns \/ DestroyWorkers
  PROVE  CInv'
<1> DEFINE OfGroup == Start \/ JoinGroup \/ MainReturnsFromStop \/ Destructor
<1> USE DEF StartWorkers, WaitAfterStop, WaitForController, WaitForControllerReturns, DestroyWorkers,
        listenerVars, recorded, Idle
<1>1. OfGroup
  OBVIOUS
<1>2. UNCHANGED <<run, terminated, bIncludeMainThread>> /\ call' \in {"start", "join", "none", "destroy"}
  BY <1>1 DEF Start, JoinGroup, MainReturnsFromStop, Destructor, MainCalls, threads, given
<1>3. IInv'
  <2>1. Next
    BY <1>1 DEF Next, MainSteps
  <2> QED
    BY <2>1, NextStep DEF CInv
<1>4. PICK to \in {"starting", "waiting", "none", "destroyListener"} :
        /\ main' = to /\ main # "destroyThread" /\ (main \in Inside <=> to \in Inside)
        /\ to = "destroyListener" => control[Main] = "none"
  BY DEF Inside
<1>5. UNCHANGED <<Run, socketOpen, acceptor, acceptJoinable, closing, bIsStarted, control,
                  startTasks, stopTasks, opened, overlapped>>
  OBVIOUS
<1>6. /\ ControllerTypeOK' /\ OpenedFirst' /\ OneStopper' /\ StartedInTime'
      /\ StopTasksAreCounted' /\ AcceptorIsJoined' /\ StopsAreNested'
      /\ \A w \in Workers : closing'[w] # "none" => control'[w] # "none"
  <2> HIDE DEF StartWorkers, WaitAfterStop, WaitForController, WaitForControllerReturns, DestroyWorkers
  <2> QED
    BY <1>2, <1>4, <1>5, MainMoves
<1>7. GroupIsUsed' /\ DestructionIsQuiet' /\ NobodyLeftBehind'
  BY <1>2, <1>3, <1>4, <1>6, GroupMoves
<1> QED
  BY <1>3, <1>6, <1>7 DEF CInv

-----------------------------------------------------------------------------
(* Steps that leave the group alone. *)
LEMMA GroupRests ==
  ASSUME CInv, ~ terminated, UNCHANGED groupVars
  PROVE  /\ IInv'
         /\ UNCHANGED <<run, call, stop, step, terminated, bIncludeMainThread>>
<1>1. UNCHANGED vars
  BY DEF groupVars
<1>2. IInv'
  BY <1>1, StutteringStep DEF CInv
<1> QED
  BY <1>1, <1>2 DEF vars, threads, given, startVars, stopVars

(* It is enough to look at the controller then. *)
LEMMA ControllerMoves ==
  ASSUME CInv, ~ terminated, UNCHANGED groupVars,
         ControllerTypeOK', OpenedFirst', OneStopper', StartedInTime',
         StopTasksAreCounted', AcceptorIsJoined', StopsAreNested',
         main' \in {"destroyThread", "gone"} => call = "deleted",
         \A w \in Workers : closing'[w] # "none" => control'[w] # "none"
  PROVE  CInv'
<1>1. IInv' /\ UNCHANGED <<call, step, terminated>>
  BY GroupRests
<1>2. call' \notin {"reset", "resetJoin", "cleared", "crashed"}
  BY <1>1 DEF CInv, GroupIsUsed
<1>3. GroupIsUsed' /\ DestructionIsQuiet' /\ NobodyLeftBehind'
  BY <1>1, <1>2, GroupMoves
<1> QED
  BY <1>1, <1>3 DEF CInv

LEMMA MainGoesOn ==
  ASSUME CInv, ~ terminated, StartTaskFails \/ Destroy \/ \E c \in Callers : StopNotStarted(c)
  PROVE  CInv'
<1> USE DEF StartTaskFails, Destroy, StopNotStarted, listenerVars, recorded, Idle
<1>1. UNCHANGED groupVars
  OBVIOUS
<1>2. UNCHANGED <<Run, socketOpen, acceptor, acceptJoinable, closing, bIsStarted, control,
                  startTasks, stopTasks, opened, overlapped>>
  OBVIOUS
<1>3. UNCHANGED <<run, terminated, bIncludeMainThread>>
  BY <1>1, GroupRests
<1>4. CASE main' = main
  BY <1>1, <1>2, <1>3, <1>4, ControllerMoves, CallersAre
     DEF CInv, GroupIsUsed, ControllerTypeOK, OpenedFirst, OneStopper, StartedInTime,
         StopTasksAreCounted, StopTasksAhead, AcceptorIsJoined, Joining, StopsAreNested
<1>5. CASE main' # main
  <2>1. PICK to \in {"none", "destroy", "stopped", "destroyWorkers"} :
          /\ main' = to /\ main # "destroyThread" /\ (main \in Inside <=> to \in Inside)
    BY <1>5 DEF MayStop, MainAfterStop, Inside
  <2>2. /\ ControllerTypeOK' /\ OpenedFirst' /\ OneStopper' /\ StartedInTime'
        /\ StopTasksAreCounted' /\ AcceptorIsJoined' /\ StopsAreNested'
        /\ \A w \in Workers : closing'[w] # "none" => control'[w] # "none"
    <3> HIDE DEF StartTaskFails, Destroy, StopNotStarted
    <3> QED
      BY <1>2, <1>3, <2>1, MainMoves
  <2> QED
    BY <1>1, <2>1, <2>2, ControllerMoves
<1> QED
  BY <1>4, <1>5

LEMMA StartControllerStep ==
  ASSUME CInv, ~ terminated, StartController
  PROVE  CInv'
<1>1. /\ main = "none" /\ main' = "startTask" /\ ~ bIsStarted /\ Run' = TRUE /\ opened' = TRUE
      /\ UNCHANGED groupVars
      /\ UNCHANGED <<socketOpen, acceptor, acceptJoinable, closing, bIsStarted, control,
                     startTasks, stopTasks, overlapped>>
  BY DEF StartController, Idle, Listener!Start, Listener!callers
<1>2. UNCHANGED <<run, terminated, bIncludeMainThread>>
  BY <1>1, GroupRests
<1>3. ControllerTypeOK'
  BY <1>1, <1>2 DEF CInv, ControllerTypeOK
<1>4. OpenedFirst' /\ OneStopper' /\ StartedInTime'
  BY <1>1 DEF CInv, OpenedFirst, OneStopper, StartedInTime
<1>5. StopTasksAreCounted'
  BY <1>1, <1>2 DEF CInv, StopTasksAreCounted, StopTasksAhead
<1>6. AcceptorIsJoined'
  BY <1>1 DEF CInv, AcceptorIsJoined, Joining
<1>7. StopsAreNested' /\ \A w \in Workers : closing'[w] # "none" => control'[w] # "none"
  BY <1>1, <1>2, CallersAre DEF CInv, StopsAreNested
<1> QED
  BY <1>1, <1>3, <1>4, <1>5, <1>6, <1>7, ControllerMoves

LEMMA StartTaskStep ==
  ASSUME CInv, ~ terminated, StartTask
  PROVE  CInv'
<1>1. /\ main = "startTask" /\ main' = "startWorkers" /\ startTasks' = startTasks + 1
      /\ bIsStarted' = bIncludeMainThread
      /\ UNCHANGED groupVars
      /\ UNCHANGED <<Run, socketOpen, acceptor, acceptJoinable, closing, control,
                     stopTasks, opened, overlapped>>
  BY DEF StartTask, listenerVars
<1>2. UNCHANGED <<run, terminated, bIncludeMainThread>> /\ bIncludeMainThread \in BOOLEAN
  BY <1>1, GroupRests DEF CInv, IInv, TypeOK
<1>3. ControllerTypeOK'
  BY <1>1, <1>2 DEF CInv, ControllerTypeOK
<1>4. ~ bIsStarted /\ opened
  BY <1>1 DEF CInv, StartedInTime, OpenedFirst
<1>5. ~ overlapped => \A c \in Callers : control[c] = "none"
  BY <1>4 DEF CInv, OneStopper
<1>6. OpenedFirst' /\ OneStopper' /\ StartedInTime'
  BY <1>1, <1>2, <1>4, <1>5 DEF CInv, OpenedFirst, OneStopper, StartedInTime
<1>7. StopTasksAreCounted'
  <2>1. StopTasksAhead' \in {0, 1} /\ (~ overlapped => StopTasksAhead = 0)
    BY <1>1, <1>4, <1>5 DEF StopTasksAhead
  <2>2. ~ overlapped => stopTasks <= startTasks /\ stopTasks \in Nat /\ startTasks \in Nat
    BY <2>1 DEF CInv, StopTasksAreCounted, ControllerTypeOK
  <2>3. ~ overlapped => stopTasks' + StopTasksAhead' <= startTasks'
    BY <1>1, <2>1, <2>2
  <2> QED
    BY <1>1, <2>3 DEF StopTasksAreCounted
<1>8. AcceptorIsJoined'
  BY <1>1 DEF CInv, AcceptorIsJoined, Joining
<1>9. StopsAreNested' /\ \A w \in Workers : closing'[w] # "none" => control'[w] # "none"
  BY <1>1, <1>2, CallersAre DEF CInv, StopsAreNested
<1> QED
  BY <1>1, <1>3, <1>6, <1>7, <1>8, <1>9, ControllerMoves

LEMMA StartWorkersEnds ==
  ASSUME CInv, ~ terminated, StartWorkersRunning \/ StartWorkersReturns
  PROVE  CInv'
<1>1. PICK ok \in BOOLEAN : bIsStarted' = (bIsStarted \/ (ok /\ ~ bIncludeMainThread))
  BY DEF StartWorkersRunning, StartWorkersReturns
<1>2. /\ main \in {"startWorkers", "starting"} /\ main' \in {"none", "stop"}
      /\ UNCHANGED groupVars
      /\ UNCHANGED <<Run, socketOpen, acceptor, acceptJoinable, closing, control,
                     startTasks, stopTasks, opened, overlapped>>
  BY DEF StartWorkersRunning, StartWorkersReturns, listenerVars, recorded
<1>3. UNCHANGED <<run, terminated, bIncludeMainThread>> /\ bIncludeMainThread \in BOOLEAN
  BY <1>2, GroupRests DEF CInv, IInv, TypeOK
<1>4. ControllerTypeOK'
  <2>1. bIsStarted' \in BOOLEAN
    BY <1>1
  <2> QED
    BY <1>2, <1>3, <2>1 DEF CInv, ControllerTypeOK
<1>5. opened /\ (bIsStarted => bIsStarted') /\ (~ bIncludeMainThread => ~ bIsStarted)
  BY <1>1, <1>2 DEF CInv, StartedInTime, OpenedFirst
<1>6. OpenedFirst' /\ OneStopper' /\ StartedInTime'
  BY <1>2, <1>5 DEF CInv, OpenedFirst, OneStopper, StartedInTime
<1>7. StopTasksAreCounted'
  <2>1. ~ overlapped /\ ~ bIncludeMainThread => \A c \in Callers : control[c] = "none"
    BY <1>5 DEF CInv, OneStopper
  <2>2. CASE overlapped
    BY <1>2, <2>2 DEF StopTasksAreCounted
  <2>3. CASE ~ overlapped /\ bIncludeMainThread
    <3>1. bIsStarted' = bIsStarted
      BY <1>1, <2>3 DEF CInv, ControllerTypeOK
    <3>2. StopTasksAhead' = StopTasksAhead
      BY <1>2, <1>3, <2>3, <3>1 DEF StopTasksAhead
    <3> QED
      BY <1>2, <3>2 DEF CInv, StopTasksAreCounted
  <2>4. CASE ~ overlapped /\ ~ bIncludeMainThread
    <3>1. StopTasksAhead = 1 /\ StopTasksAhead' \in {0, 1}
      BY <1>2, <1>5, <2>1, <2>4 DEF StopTasksAhead
    <3> QED
      BY <1>2, <2>4, <3>1 DEF CInv, StopTasksAreCounted, ControllerTypeOK
  <2> QED
    BY <2>2, <2>3, <2>4
<1>8. AcceptorIsJoined'
  BY <1>2 DEF CInv, AcceptorIsJoined, Joining
<1>9. StopsAreNested' /\ \A w \in Workers : closing'[w] # "none" => control'[w] # "none"
  BY <1>2, <1>3, CallersAre DEF CInv, StopsAreNested
<1> QED
  BY <1>2, <1>4, <1>6, <1>7, <1>8, <1>9, ControllerMoves

-----------------------------------------------------------------------------
(* The steps of Stop. *)
LEMMA StopControllerStep ==
  ASSUME CInv, ~ terminated, NEW c \in Callers, StopController(c)
  PROVE  CInv'
<1>1. /\ bIsStarted /\ control[c] = "none" /\ closing[c] = "none"
      /\ control' = [control EXCEPT ![c] = "listener"]
      /\ closing' = [closing EXCEPT ![c] = "test"]
      /\ overlapped' = (overlapped \/ \E d \in Callers : control[d] # "none")
      /\ UNCHANGED groupVars
      /\ UNCHANGED <<Run, socketOpen, acceptor, acceptJoinable, bIsStarted,
                     startTasks, stopTasks, opened>>
  BY DEF StopController, ControlAt, Listener!Stop, Listener!ClosingAt
<1>2. /\ main' = main \/ main' \in {"stopped", "destroyWorkers"}
      /\ c = Main => main \in {"none", "stop", "destroy"}
      /\ c # Main => main' = main /\ run[c] = "task"
      /\ main' \in Inside <=> main \in Inside
      /\ main' = "startTask" <=> main = "startTask"
      /\ main' = "destroyListener" <=> main = "destroyListener"
      /\ main' = "destroyThread" <=> main = "destroyThread"
      /\ main' = "gone" <=> main = "gone"
  BY DEF StopController, MayStop, MainAfterStop, Inside
<1>3. UNCHANGED <<run, terminated, bIncludeMainThread>>
  BY <1>1, GroupRests
<1>4. /\ \A d \in Callers : d # c => control'[d] = control[d] /\ closing'[d] = closing[d]
      /\ control'[c] = "listener" /\ closing'[c] = "test"
  BY <1>1 DEF CInv, ControllerTypeOK
<1>5. ~ overlapped' => ~ overlapped /\ \A d \in Callers : control[d] = "none"
  BY <1>1
<1>6. ControllerTypeOK'
  <2>1. overlapped' \in BOOLEAN
    BY <1>1
  <2>2. /\ control' \in [Callers -> {"none", "listener", "stopTask", "workers"}]
        /\ closing' \in [Callers -> {"none", "test", "clear", "close", "joinable", "join"}]
    BY <1>1 DEF CInv, ControllerTypeOK
  <2> QED
    BY <1>1, <1>2, <1>3, <2>1, <2>2 DEF CInv, ControllerTypeOK
<1>7. OpenedFirst' /\ StartedInTime'
  BY <1>1, <1>2, <1>3 DEF CInv, OpenedFirst, StartedInTime, Inside
<1>8. OneStopper'
  BY <1>1, <1>4, <1>5 DEF CInv, OneStopper
<1>9. StopTasksAreCounted'
  <2> SUFFICES ASSUME ~ overlapped' PROVE stopTasks' + StopTasksAhead' <= startTasks'
    BY DEF StopTasksAreCounted
  <2>1. StopTasksAhead = 1
    BY <1>1, <1>5 DEF StopTasksAhead
  <2>2. StopTasksAhead' = 1
    BY <1>4 DEF StopTasksAhead
  <2> QED
    BY <1>1, <1>5, <2>1, <2>2 DEF CInv, StopTasksAreCounted
<1>10. AcceptorIsJoined'
  BY <1>1, <1>2, <1>4, CallersAre DEF CInv, AcceptorIsJoined, Joining
<1>11. StopsAreNested' /\ \A w \in Workers : closing'[w] # "none" => control'[w] # "none"
  <2>1. main' \in {"destroyListener", "destroyThread"} => control'[Main] = "none"
    BY <1>2, <1>4, CallersAre DEF CInv, StopsAreNested
  <2> QED
    BY <1>1, <1>2, <1>3, <1>4, <2>1, CallersAre DEF CInv, StopsAreNested
<1>12. main' \in {"destroyThread", "gone"} => call = "deleted"
  BY <1>2 DEF CInv, GroupIsUsed
<1> QED
  BY <1>1, <1>6, <1>7, <1>8, <1>9, <1>10, <1>11, <1>12, ControllerMoves

(* c goes on in Stop. *)
LEMMA ControlGoesOn ==
  ASSUME CInv, NEW c \in Callers, NEW from \in {"listener", "stopTask", "workers"},
         NEW to \in {"none", "stopTask", "workers"}, ControlAt(c, from, to)
  PROVE  /\ control' \in [Callers -> {"none", "listener", "stopTask", "workers"}]
         /\ control[c] = from /\ control'[c] = to
         /\ \A d \in Callers : d # c => control'[d] = control[d]
         /\ ~ overlapped => /\ \A d \in Callers : d # c => control[d] = "none"
                            /\ bIsStarted
                            /\ main \in Inside => bIncludeMainThread
  BY DEF CInv, ControllerTypeOK, OneStopper, StartedInTime, ControlAt, Inside

LEMMA StopTaskStep ==
  ASSUME CInv, ~ terminated, NEW c \in Callers, StopTask(c)
  PROVE  CInv'
<1>1. /\ ControlAt(c, "listener", "stopTask") /\ closing[c] = "none" /\ stopTasks' = stopTasks + 1
      /\ UNCHANGED groupVars
      /\ UNCHANGED <<Run, socketOpen, acceptor, acceptJoinable, closing, bIsStarted, main,
                     startTasks, opened, overlapped>>
  BY DEF StopTask, listenerVars
<1>2. UNCHANGED <<run, terminated, bIncludeMainThread>>
  BY <1>1, GroupRests
<1>3. /\ control' \in [Callers -> {"none", "listener", "stopTask", "workers"}]
      /\ control[c] = "listener" /\ control'[c] = "stopTask"
      /\ \A d \in Callers : d # c => control'[d] = control[d]
      /\ ~ overlapped => /\ \A d \in Callers : d # c => control[d] = "none"
                         /\ bIsStarted
                         /\ main \in Inside => bIncludeMainThread
  BY <1>1, ControlGoesOn
<1>4. ControllerTypeOK' /\ OpenedFirst' /\ OneStopper' /\ StartedInTime'
  <2>1. ControllerTypeOK'
    BY <1>1, <1>2, <1>3 DEF CInv, ControllerTypeOK
  <2> QED
    BY <1>1, <1>2, <1>3, <2>1 DEF CInv, OpenedFirst, OneStopper, StartedInTime
<1>5. StopTasksAreCounted'
  <2> SUFFICES ASSUME ~ overlapped PROVE stopTasks' + StopTasksAhead' <= startTasks'
    BY <1>1 DEF StopTasksAreCounted
  <2>1. StopTasksAhead = 1
    BY <1>3 DEF StopTasksAhead
  <2>2. StopTasksAhead' = 0
    BY <1>1, <1>2, <1>3 DEF StopTasksAhead, Inside
  <2> QED
    BY <1>1, <2>1, <2>2 DEF CInv, StopTasksAreCounted, ControllerTypeOK
<1>6. AcceptorIsJoined'
  BY <1>1, <1>3 DEF CInv, AcceptorIsJoined, Joining
<1>7. StopsAreNested' /\ \A w \in Workers : closing'[w] # "none" => control'[w] # "none"
  BY <1>1, <1>2, <1>3, CallersAre DEF CInv, StopsAreNested
<1>8. main' \in {"destroyThread", "gone"} => call = "deleted"
  BY <1>1 DEF CInv, GroupIsUsed
<1> QED
  BY <1>1, <1>4, <1>5, <1>6, <1>7, <1>8, ControllerMoves

LEMMA StopUsesGroup ==
  ASSUME CInv, ~ terminated, NEW c \in Callers, StopWorkers(c) \/ StopControllerReturns(c)
  PROVE  CInv'
<1>1. /\ \/ c = Main /\ (Stop \/ MainReturnsFromStop)
         \/ c \in Workers /\ (TaskStops(c) \/ StopReturns(c))
      /\ UNCHANGED <<Run, socketOpen, acceptor, acceptJoinable, closing, main,
                     startTasks, stopTasks, opened, overlapped>>
  BY DEF StopWorkers, StopControllerReturns, listenerVars, recorded, Callers
<1>2. PICK from \in {"stopTask", "workers"}, to \in {"workers", "none"} :
        /\ ControlAt(c, from, to) /\ bIsStarted' = (bIsStarted /\ to = "workers")
  BY DEF StopWorkers, StopControllerReturns, CInv, ControllerTypeOK
<1>3. /\ UNCHANGED <<run, terminated, bIncludeMainThread>>
      /\ call' \in {call, "stop", "none"} /\ (call = "deleted" => call' = "deleted")
  BY <1>1 DEF Stop, MainCalls, MainReturnsFromStop, TaskStops, StopReturns, threads, given
<1>4. IInv'
  <2>1. Next
    BY <1>1 DEF Next, MainSteps
  <2> QED
    BY <2>1, NextStep DEF CInv
<1>5. /\ control' \in [Callers -> {"none", "listener", "stopTask", "workers"}]
      /\ control[c] = from /\ control'[c] = to
      /\ \A d \in Callers : d # c => control'[d] = control[d]
      /\ ~ overlapped => /\ \A d \in Callers : d # c => control[d] = "none"
                         /\ bIsStarted
                         /\ main \in Inside => bIncludeMainThread
  BY <1>2, ControlGoesOn
<1>6. /\ bIsStarted' => bIsStarted /\ to = "workers"
      /\ to = "workers" => bIsStarted' = bIsStarted
      /\ bIsStarted' \in BOOLEAN
  BY <1>2 DEF CInv, ControllerTypeOK
<1>7. ControllerTypeOK' /\ OpenedFirst' /\ StartedInTime'
  <2>1. ControllerTypeOK'
    BY <1>1, <1>3, <1>5, <1>6 DEF CInv, ControllerTypeOK
  <2> QED
    BY <1>1, <1>3, <1>5, <1>6, <2>1 DEF CInv, OpenedFirst, StartedInTime
<1>8. OneStopper'
  BY <1>1, <1>5, <1>6 DEF CInv, OneStopper
<1>9. StopTasksAreCounted'
  <2> SUFFICES ASSUME ~ overlapped PROVE stopTasks' + StopTasksAhead' <= startTasks'
    BY <1>1 DEF StopTasksAreCounted
  <2>1. StopTasksAhead' = 0
    <3>1. ~ \E d \in Callers : control'[d] = "listener"
      BY <1>5
    <3>2. ~ (bIsStarted' /\ \A d \in Callers : control'[d] = "none")
      BY <1>5, <1>6
    <3>3. ~ (main' \in {"startWorkers", "starting"} /\ ~ bIncludeMainThread')
      BY <1>1, <1>3, <1>5 DEF Inside
    <3> QED
      BY <3>1, <3>2, <3>3 DEF StopTasksAhead
  <2>2. StopTasksAhead \in {0, 1}
    BY DEF StopTasksAhead
  <2> QED
    BY <1>1, <2>1, <2>2 DEF CInv, StopTasksAreCounted, ControllerTypeOK
<1>10. AcceptorIsJoined'
  BY <1>1, <1>5 DEF CInv, AcceptorIsJoined, Joining
<1>11. StopsAreNested' /\ \A w \in Workers : closing'[w] # "none" => control'[w] # "none"
  BY <1>1, <1>3, <1>5, CallersAre DEF CInv, StopsAreNested
<1>12. GroupIsUsed' /\ DestructionIsQuiet' /\ NobodyLeftBehind'
  <2>1. call' \notin {"reset", "resetJoin", "cleared", "crashed"}
    BY <1>3 DEF CInv, GroupIsUsed
  <2>2. main' \in {"destroyThread", "gone"} => call' = "deleted"
    BY <1>1, <1>3 DEF CInv, GroupIsUsed
  <2> QED
    BY <1>3, <1>4, <1>11, <2>1, <2>2, GroupMoves
<1> QED
  BY <1>4, <1>7, <1>8, <1>9, <1>10, <1>11, <1>12 DEF CInv

-----------------------------------------------------------------------------
(* The listener, and its destruction. *)
LEMMA AcceptRoutineStep ==
  ASSUME CInv, ~ terminated, AcceptRoutine
  PROVE  CInv'
<1>1. /\ acceptor # "ended" /\ acceptor' \in {"test", "event", "handler", "ended"}
      /\ UNCHANGED <<Run, socketOpen, acceptJoinable, closing, terminated>>
  BY DEF AcceptRoutine, Listener!AcceptRoutine, Listener!WaitForRun, Listener!TestRun,
         Listener!NoEvent, Listener!OnAccept, Listener!OnAcceptReturns, Listener!AcceptorAt,
         Listener!callers
<1>2. /\ UNCHANGED groupVars
      /\ UNCHANGED <<bIsStarted, main, control, startTasks, stopTasks, opened, overlapped>>
  BY <1>1 DEF AcceptRoutine, notInListener, groupVars, vars, recorded
<1>3. UNCHANGED <<run, bIncludeMainThread>>
  BY <1>2, GroupRests
<1>4. ControllerTypeOK' /\ OpenedFirst' /\ OneStopper' /\ StartedInTime'
  BY <1>1, <1>2, <1>3 DEF CInv, ControllerTypeOK, OpenedFirst, OneStopper, StartedInTime
<1>5. StopTasksAreCounted'
  BY <1>2, <1>3 DEF CInv, StopTasksAreCounted, StopTasksAhead
<1>6. AcceptorIsJoined'
  BY <1>1, <1>2 DEF CInv, AcceptorIsJoined, Joining
<1>7. StopsAreNested' /\ \A w \in Workers : closing'[w] # "none" => control'[w] # "none"
  BY <1>1, <1>2, <1>3, CallersAre DEF CInv, StopsAreNested
<1>8. main' \in {"destroyThread", "gone"} => call = "deleted"
  BY <1>2 DEF CInv, GroupIsUsed
<1> QED
  BY <1>2, <1>4, <1>5, <1>6, <1>7, <1>8, ControllerMoves

(* While the listener's thread is destroyed, Main alone may be closing it. *)
LEMMA OneCloser ==
  ASSUME CInv, NEW c \in Callers, NEW d \in Callers, closing[c] # "none", closing[d] # "none", c # d
  PROVE  overlapped /\ main # "destroyThread"
<1>1. main # "destroyThread"
  BY DEF CInv, NobodyLeftBehind, Callers
<1> QED
  BY <1>1 DEF CInv, StopsAreNested, OneStopper

LEMMA ClosingGoesOn ==
  ASSUME CInv, NEW c \in Callers, NEW from \in {"test", "clear", "close", "joinable", "join"},
         NEW to \in {"none", "clear", "close", "joinable", "join"}, Listener!ClosingAt(c, from, to)
  PROVE  /\ closing' \in [Callers -> {"none", "test", "clear", "close", "joinable", "join"}]
         /\ closing[c] = from /\ closing'[c] = to
         /\ \A d \in Callers : d # c => closing'[d] = closing[d]
  BY DEF CInv, ControllerTypeOK, Listener!ClosingAt

(* What a step of the listener's Stop has to keep, when it terminates      *)
(* nothing.                                                                *)
LEMMA ClosingStep ==
  ASSUME CInv, ~ terminated, NEW c \in Callers, ListenerStop(c), terminated' = terminated,
         NEW from \in {"test", "clear", "close", "joinable", "join"},
         NEW to \in {"none", "clear", "close", "joinable", "join"}, Listener!ClosingAt(c, from, to),
         {Run', socketOpen', acceptJoinable'} \subseteq BOOLEAN, acceptor' = acceptor,
         AcceptorIsJoined',
         ~ overlapped => \A d \in Callers : closing'[d] = "join" => acceptJoinable'
  PROVE  CInv'
<1>1. /\ UNCHANGED groupVars
      /\ UNCHANGED <<bIsStarted, main, control, startTasks, stopTasks, opened, overlapped>>
  BY DEF ListenerStop, notInListener, groupVars, vars, recorded
<1>2. UNCHANGED <<run, bIncludeMainThread>>
  BY <1>1, GroupRests
<1>3. /\ closing' \in [Callers -> {"none", "test", "clear", "close", "joinable", "join"}]
      /\ closing[c] = from /\ closing'[c] = to
      /\ \A d \in Callers : d # c => closing'[d] = closing[d]
  BY ClosingGoesOn
<1>4. ControllerTypeOK'
  BY <1>1, <1>3 DEF CInv, ControllerTypeOK
<1>5. OpenedFirst' /\ StartedInTime' /\ OneStopper'
  BY <1>1, <1>2 DEF CInv, OpenedFirst, StartedInTime, OneStopper
<1>6. StopTasksAreCounted'
  BY <1>1, <1>2 DEF CInv, StopTasksAreCounted, StopTasksAhead
<1>7. StopsAreNested' /\ \A w \in Workers : closing'[w] # "none" => control'[w] # "none"
  BY <1>1, <1>2, <1>3, CallersAre DEF CInv, StopsAreNested
<1>8. main' \in {"destroyThread", "gone"} => call = "deleted"
  BY <1>1 DEF CInv, GroupIsUsed
<1> QED
  BY <1>1, <1>4, <1>5, <1>6, <1>7, <1>8, ControllerMoves

LEMMA StopTestsRunStep ==
  ASSUME CInv, ~ terminated, NEW c \in Callers, ListenerStop(c), Listener!StopTestsRun(c)
  PROVE  CInv'
<1>1. PICK to \in {"none", "clear"} : to = IF Run THEN "clear" ELSE "none"
  OBVIOUS
<1>2. /\ Listener!ClosingAt(c, "test", to)
      /\ UNCHANGED <<Run, socketOpen, acceptor, acceptJoinable, terminated>>
  BY <1>1 DEF Listener!StopTestsRun
<1>3. /\ closing[c] = "test" /\ closing'[c] = to
      /\ \A d \in Callers : d # c => closing'[d] = closing[d]
  BY <1>2, ClosingGoesOn
<1>4. UNCHANGED <<main, control, opened, overlapped>>
  BY DEF ListenerStop, notInListener, recorded
<1>5. to = "none" /\ opened => ~ acceptJoinable \/ \E d \in Callers \ {c} : Joining(d)
  BY <1>1, <1>3 DEF CInv, AcceptorIsJoined, Joining
<1>6. AcceptorIsJoined'
  <2>1. /\ ~ acceptJoinable' => acceptor' = "ended"
        /\ opened' /\ ~ Run' => ~ acceptJoinable' \/ \E d \in Callers : Joining(d)'
    BY <1>2, <1>3, <1>4 DEF CInv, AcceptorIsJoined, Joining
  <2>2. ASSUME NEW d \in Callers, control'[d] \in {"listener", "stopTask"}, closing'[d] = "none"
        PROVE  acceptor' = "ended" \/ \E e \in Callers \ {d} : closing'[e] # "none"
    <3>1. CASE to = "clear"
      BY <1>3, <2>2, <3>1
    <3>2. CASE to = "none"
      <4>1. opened
        BY <1>4, <2>2 DEF CInv, OpenedFirst
      <4>2. CASE ~ acceptJoinable
        BY <1>2, <4>2 DEF CInv, AcceptorIsJoined
      <4>3. CASE \E e \in Callers \ {c} : Joining(e)
        BY <1>3, <2>2, <4>3 DEF Joining
      <4> QED
        BY <1>5, <3>2, <4>1, <4>2, <4>3
    <3> QED
      BY <3>1, <3>2
  <2>3. ASSUME main' = "destroyThread", closing'[Main] = "none", opened'
        PROVE  ~ acceptJoinable'
    <3>1. CASE closing[Main] = "none"
      BY <1>2, <1>4, <2>3, <3>1 DEF CInv, AcceptorIsJoined
    <3>2. CASE closing[Main] # "none"
      <4>1. c = Main /\ to = "none" /\ opened
        BY <1>3, <1>4, <2>3, <3>2, CallersAre
      <4>2. \A d \in Callers \ {c} : ~ Joining(d)
        BY <1>3, <1>4, <2>3, OneCloser DEF Joining
      <4> QED
        BY <1>2, <1>5, <4>1, <4>2
    <3> QED
      BY <3>1, <3>2
  <2> QED
    BY <2>1, <2>2, <2>3 DEF AcceptorIsJoined
<1>7. ~ overlapped => \A d \in Callers : closing'[d] = "join" => acceptJoinable'
  BY <1>2, <1>3 DEF CInv, OneStopper
<1>8. {Run', socketOpen', acceptJoinable'} \subseteq BOOLEAN
  BY <1>2 DEF CInv, ControllerTypeOK
<1> QED
  BY <1>2, <1>6, <1>7, <1>8, ClosingStep

LEMMA StopClosesStep ==
  ASSUME CInv, ~ terminated, NEW c \in Callers, ListenerStop(c),
         Listener!StopClearsRun(c) \/ Listener!StopCloses(c)
  PROVE  CInv'
<1>1. PICK from \in {"clear", "close"}, to \in {"close", "joinable"} : Listener!ClosingAt(c, from, to)
  BY DEF Listener!StopClearsRun, Listener!StopCloses
<1>2. /\ Run' \in {Run, FALSE} /\ socketOpen' \in {socketOpen, FALSE}
      /\ UNCHANGED <<acceptor, acceptJoinable, terminated>>
  BY DEF Listener!StopClearsRun, Listener!StopCloses
<1>3. /\ closing[c] = from /\ closing'[c] = to
      /\ \A d \in Callers : d # c => closing'[d] = closing[d]
  BY <1>1, ClosingGoesOn
<1>4. UNCHANGED <<main, control, opened, overlapped>>
  BY DEF ListenerStop, notInListener, recorded
<1>5. AcceptorIsJoined'
  <2>1. \E d \in Callers : Joining(d)'
    BY <1>3 DEF Joining
  <2>2. \A d \in Callers : closing'[d] = "none" <=> closing[d] = "none"
    BY <1>3
  <2> QED
    BY <1>2, <1>4, <2>1, <2>2, CallersAre DEF CInv, AcceptorIsJoined
<1>6. ~ overlapped => \A d \in Callers : closing'[d] = "join" => acceptJoinable'
  BY <1>2, <1>3 DEF CInv, OneStopper
<1>7. {Run', socketOpen', acceptJoinable'} \subseteq BOOLEAN
  BY <1>2 DEF CInv, ControllerTypeOK
<1> QED
  BY <1>1, <1>2, <1>5, <1>6, <1>7, ClosingStep

LEMMA StopTestsJoinableStep ==
  ASSUME CInv, ~ terminated, NEW c \in Callers, ListenerStop(c), Listener!StopTestsJoinable(c)
  PROVE  CInv'
<1>1. PICK to \in {"none", "join"} : to = IF acceptJoinable THEN "join" ELSE "none"
  OBVIOUS
<1>2. /\ Listener!ClosingAt(c, "joinable", to)
      /\ UNCHANGED <<Run, socketOpen, acceptor, acceptJoinable, terminated>>
  BY <1>1 DEF Listener!StopTestsJoinable
<1>3. /\ closing[c] = "joinable" /\ closing'[c] = to
      /\ \A d \in Callers : d # c => closing'[d] = closing[d]
  BY <1>2, ClosingGoesOn
<1>4. UNCHANGED <<main, control, opened, overlapped>>
  BY DEF ListenerStop, notInListener, recorded
<1>5. AcceptorIsJoined'
  <2>1. CASE to = "join"
    <3>1. \A d \in Callers : /\ closing'[d] = "none" <=> closing[d] = "none"
                             /\ Joining(d)' <=> Joining(d)
      BY <1>3, <2>1 DEF Joining
    <3> QED
      BY <1>2, <1>4, <3>1, CallersAre DEF CInv, AcceptorIsJoined
  <2>2. CASE ~ acceptJoinable
    <3>1. ~ acceptJoinable' /\ acceptor' = "ended"
      BY <1>2, <2>2 DEF CInv, AcceptorIsJoined
    <3> QED
      BY <3>1 DEF AcceptorIsJoined
  <2> QED
    BY <1>1, <2>1, <2>2
<1>6. ~ overlapped => \A d \in Callers : closing'[d] = "join" => acceptJoinable'
  BY <1>1, <1>2, <1>3 DEF CInv, OneStopper
<1>7. {Run', socketOpen', acceptJoinable'} \subseteq BOOLEAN
  BY <1>2 DEF CInv, ControllerTypeOK
<1> QED
  BY <1>2, <1>5, <1>6, <1>7, ClosingStep

(* The join may end the program: two callers of Stop are there then. *)
LEMMA StopJoinsStep ==
  ASSUME CInv, ~ terminated, NEW c \in Callers, ListenerStop(c), Listener!StopJoins(c)
  PROVE  CInv'
<1>1. /\ Listener!ClosingAt(c, "join", "none") /\ acceptor = "ended" /\ acceptJoinable' = FALSE
      /\ UNCHANGED <<Run, socketOpen, acceptor>>
  BY DEF Listener!StopJoins
<1>2. /\ closing' \in [Callers -> {"none", "test", "clear", "close", "joinable", "join"}]
      /\ closing[c] = "join" /\ closing'[c] = "none"
      /\ \A d \in Callers : d # c => closing'[d] = closing[d]
  BY <1>1, ClosingGoesOn
<1>3. /\ UNCHANGED <<given, flags, threads, call, startVars, stopVars, history>>
      /\ UNCHANGED <<bIsStarted, main, control, startTasks, stopTasks, opened, overlapped>>
  BY DEF ListenerStop, notInListener, recorded
<1>4. AcceptorIsJoined'
  BY <1>1 DEF AcceptorIsJoined
<1>5. ~ overlapped => \A d \in Callers : closing'[d] # "join"
  BY <1>2, OneCloser
<1>6. CASE terminated' = terminated
  <2>1. {Run', socketOpen', acceptJoinable'} \subseteq BOOLEAN
    BY <1>1 DEF CInv, ControllerTypeOK
  <2> QED
    BY <1>1, <1>4, <1>5, <1>6, <2>1, ClosingStep
<1>7. CASE terminated' # terminated
  <2>1. terminated' = TRUE /\ ~ acceptJoinable
    <3>1. terminated' \in IF acceptJoinable THEN {terminated} ELSE BOOLEAN
      BY DEF Listener!StopJoins
    <3>2. ~ acceptJoinable /\ terminated' \in BOOLEAN /\ terminated = FALSE
      BY <1>7, <3>1 DEF CInv, ControllerTypeOK
    <3> QED
      BY <1>7, <3>2
  <2>2. overlapped
    BY <1>2, <2>1 DEF CInv, OneStopper
  <2>3. UNCHANGED <<run, stop, call, bIncludeMainThread>>
    BY <1>3 DEF threads, stopVars, given
  <2>4. ControllerTypeOK'
    BY <1>1, <1>2, <1>3, <2>1 DEF CInv, ControllerTypeOK
  <2>5. GroupIsUsed' /\ OpenedFirst' /\ StartedInTime' /\ StopsAreNested'
    BY <1>2, <1>3, <2>3 DEF CInv, GroupIsUsed, OpenedFirst, StartedInTime, StopsAreNested
  <2>6. OneStopper' /\ StopTasksAreCounted' /\ DestructionIsQuiet'
    BY <1>3, <2>2 DEF OneStopper, StopTasksAreCounted, DestructionIsQuiet
  <2>7. NobodyLeftBehind'
    BY <1>2, <1>3, <2>3, CallersAre DEF CInv, NobodyLeftBehind
  <2> QED
    BY <1>4, <2>1, <2>4, <2>5, <2>6, <2>7 DEF CInv
<1> QED
  BY <1>6, <1>7

LEMMA DestroyListenerStep ==
  ASSUME CInv, ~ terminated, DestroyListener
  PROVE  CInv'
<1>1. /\ main = "destroyListener" /\ main' = "destroyThread" /\ call = "deleted"
      /\ closing[Main] = "none" /\ closing' = [closing EXCEPT ![Main] = "test"]
      /\ UNCHANGED <<Run, socketOpen, acceptor, acceptJoinable, terminated>>
      /\ UNCHANGED groupVars
      /\ UNCHANGED <<bIsStarted, control, startTasks, stopTasks, opened, overlapped>>
  BY DEF DestroyListener, Listener!Stop, Listener!ClosingAt, recorded
<1>2. UNCHANGED <<run, bIncludeMainThread>>
  BY <1>1, GroupRests
<1>3. /\ closing' \in [Callers -> {"none", "test", "clear", "close", "joinable", "join"}]
      /\ closing'[Main] = "test"
      /\ \A d \in Callers : d # Main => closing'[d] = closing[d]
  BY <1>1, CallersAre DEF CInv, ControllerTypeOK
<1>4. ControllerTypeOK'
  BY <1>1, <1>3 DEF CInv, ControllerTypeOK
<1>5. OpenedFirst' /\ StartedInTime' /\ OneStopper'
  BY <1>1, <1>2, <1>3 DEF CInv, OpenedFirst, StartedInTime, OneStopper
<1>6. StopTasksAreCounted'
  BY <1>1, <1>2 DEF CInv, StopTasksAreCounted, StopTasksAhead
<1>7. AcceptorIsJoined'
  BY <1>1, <1>3, CallersAre DEF CInv, AcceptorIsJoined, Joining
<1>8. StopsAreNested' /\ \A w \in Workers : closing'[w] # "none" => control'[w] # "none"
  BY <1>1, <1>2, <1>3, CallersAre DEF CInv, StopsAreNested
<1> QED
  BY <1>1, <1>4, <1>5, <1>6, <1>7, <1>8, ControllerMoves

LEMMA DestroyThreadStep ==
  ASSUME CInv, ~ terminated, DestroyThread
  PROVE  CInv'
<1>1. /\ main = "destroyThread" /\ main' = "gone" /\ closing[Main] = "none"
      /\ terminated' = acceptJoinable
      /\ UNCHANGED <<given, flags, threads, call, startVars, stopVars, history>>
      /\ UNCHANGED <<Run, socketOpen, acceptor, acceptJoinable, closing, bIsStarted, control,
                     startTasks, stopTasks, opened, overlapped>>
  BY DEF DestroyThread, listenerVars, recorded
<1>2. UNCHANGED <<run, stop, call, step, bIncludeMainThread>>
  BY <1>1 DEF threads, stopVars, startVars, given
<1>3. ControllerTypeOK'
  BY <1>1 DEF CInv, ControllerTypeOK
<1>4. ~ terminated' => IInv'
  <2>1. CASE ~ terminated'
    <3>1. terminated' = terminated
      BY <1>1, <2>1 DEF CInv, ControllerTypeOK
    <3> QED
      BY <1>1, <3>1, StutteringStep DEF CInv, vars
  <2> QED
    BY <2>1
<1>5. GroupIsUsed' /\ OpenedFirst' /\ StartedInTime' /\ OneStopper'
  BY <1>1, <1>2 DEF CInv, GroupIsUsed, OpenedFirst, StartedInTime, OneStopper
<1>6. StopTasksAreCounted'
  BY <1>1, <1>2 DEF CInv, StopTasksAreCounted, StopTasksAhead
<1>7. StopsAreNested' /\ AcceptorIsJoined'
  BY <1>1, <1>2, CallersAre DEF CInv, StopsAreNested, AcceptorIsJoined, Joining
<1>8. DestructionIsQuiet'
  BY <1>1 DEF CInv, AcceptorIsJoined, DestructionIsQuiet
<1>9. NobodyLeftBehind'
  BY <1>1, <1>2 DEF CInv, NobodyLeftBehind
<1> QED
  BY <1>3, <1>4, <1>5, <1>6, <1>7, <1>8, <1>9 DEF CInv

-----------------------------------------------------------------------------
LEMMA ControllerInitially ==
  ASSUME ControllerInit
  PROVE  CInv
<1> USE DEF ControllerInit, Listener!Init
<1>1. IInv /\ call = "none" /\ terminated = FALSE
  <2>1. Init
    OBVIOUS
  <2> QED
    BY <2>1, Initially DEF Init
<1>2. ControllerTypeOK
  <2>1. {Run, socketOpen, acceptJoinable, bIsStarted, opened, overlapped, terminated} \subseteq BOOLEAN
    BY <1>1
  <2>2. /\ control \in [Callers -> {"none", "listener", "stopTask", "workers"}]
        /\ closing \in [Callers -> {"none", "test", "clear", "close", "joinable", "join"}]
    OBVIOUS
  <2> QED
    BY <2>1, <2>2 DEF ControllerTypeOK
<1>3. GroupIsUsed /\ OpenedFirst /\ StopsAreNested /\ OneStopper /\ StartedInTime
  BY <1>1, CallersAre DEF GroupIsUsed, OpenedFirst, StopsAreNested, OneStopper, StartedInTime
<1>4. StopTasksAreCounted
  BY DEF StopTasksAreCounted, StopTasksAhead
<1>5. AcceptorIsJoined
  BY DEF AcceptorIsJoined
<1>6. DestructionIsQuiet /\ NobodyLeftBehind
  BY <1>1 DEF DestructionIsQuiet, NobodyLeftBehind
<1> QED
  BY <1>1, <1>2, <1>3, <1>4, <1>5, <1>6 DEF CInv

LEMMA ControllerStutters ==
  ASSUME CInv, UNCHANGED controllerVars
  PROVE  CInv'
<1>1. /\ UNCHANGED <<Run, socketOpen, acceptor, acceptJoinable, closing, bIsStarted, main, control,
                     startTasks, stopTasks, opened, overlapped>>
      /\ UNCHANGED <<run, stop, step, call, terminated, bIncludeMainThread>>
  BY DEF controllerVars, groupVars, vars, listenerVars, recorded, threads, stopVars, startVars, given
<1>2. ~ terminated' => IInv'
  BY <1>1, StutteringStep DEF CInv, controllerVars, groupVars
<1>3. ControllerTypeOK' /\ GroupIsUsed' /\ OpenedFirst' /\ StartedInTime' /\ OneStopper'
  BY <1>1 DEF CInv, ControllerTypeOK, GroupIsUsed, OpenedFirst, StartedInTime, OneStopper
<1>4. StopTasksAreCounted'
  BY <1>1 DEF CInv, StopTasksAreCounted, StopTasksAhead
<1>5. StopsAreNested' /\ AcceptorIsJoined'
  BY <1>1 DEF CInv, StopsAreNested, AcceptorIsJoined, Joining
<1>6. DestructionIsQuiet' /\ NobodyLeftBehind'
  BY <1>1 DEF CInv, DestructionIsQuiet, NobodyLeftBehind
<1> QED
  BY <1>2, <1>3, <1>4, <1>5, <1>6 DEF CInv

(* The inductive invariant: the group's own, who is in which Stop, what    *)
(* bIsStarted owes to StopTask, and who has joined the accept thread.      *)
THEOREM ControllerInvariance == ControllerSpec => []CInv
<1>1. ControllerInit => CInv
  BY ControllerInitially
<1>2. ASSUME CInv, [ControllerNext]_controllerVars PROVE CInv'
  <2>1. CASE UNCHANGED controllerVars
    BY <1>2, <2>1, ControllerStutters
  <2>2. CASE ControllerNext
    <3>1. ~ terminated
      BY <2>2 DEF ControllerNext
    <3>2. CASE GroupSteps \/ AcceptRoutine
      BY <1>2, <3>1, <3>2, GroupStepsStep, AcceptRoutineStep
    <3>3. ASSUME NEW c \in Callers, ListenerStop(c) PROVE CInv'
      <4>1. \/ Listener!StopTestsRun(c) \/ Listener!StopClearsRun(c) \/ Listener!StopCloses(c)
            \/ Listener!StopTestsJoinable(c) \/ Listener!StopJoins(c)
        BY <3>3 DEF ListenerStop, Listener!StopSteps
      <4> QED
        BY <1>2, <3>1, <3>3, <4>1, StopTestsRunStep, StopClosesStep, StopTestsJoinableStep, StopJoinsStep
    <3>4. CASE StartController \/ StartTask \/ StartWorkersRunning \/ StartWorkersReturns
      BY <1>2, <3>1, <3>4, StartControllerStep, StartTaskStep, StartWorkersEnds
    <3>5. CASE StartTaskFails \/ Destroy \/ \E c \in Callers : StopNotStarted(c)
      BY <1>2, <3>1, <3>5, MainGoesOn
    <3>6. CASE StartWorkers \/ WaitAfterStop \/ WaitForController \/ WaitForControllerReturns
               \/ DestroyWorkers
      BY <1>2, <3>1, <3>6, MainUsesGroup
    <3>7. CASE DestroyListener \/ DestroyThread
      BY <1>2, <3>1, <3>7, DestroyListenerStep, DestroyThreadStep
    <3>8. ASSUME NEW c \in Callers, StopController(c) \/ ControllerStopSteps(c) PROVE CInv'
      BY <1>2, <3>1, <3>8, StopControllerStep, StopTaskStep, StopUsesGroup DEF ControllerStopSteps
    <3> QED
      BY <2>2, <3>2, <3>3, <3>4, <3>5, <3>6, <3>7, <3>8 DEF ControllerNext
  <2> QED
    BY <1>2, <2>1, <2>2
<1> QED
  BY <1>1, <1>2, PTL DEF ControllerSpec

(* When StopTask has been called, the accept thread has ended, or another  *)
(* thread is still in the listener's Stop.                                 *)
THEOREM StopTaskComesLast == ControllerSpec => []StopTaskAfterAccept
<1>1. CInv => StopTaskAfterAccept
  BY DEF CInv, StopsAreNested, AcceptorIsJoined, StopTaskAfterAccept
<1> QED
  BY <1>1, ControllerInvariance, PTL

(* StopTask is not called twice for one StartTask, unless two calls of     *)
(* Stop overlap.                                                           *)
THEOREM StopTaskIsCalledOnce == ControllerSpec => []StopTaskOnce
<1>1. CInv => StopTaskOnce
  <2> SUFFICES ASSUME CInv, ~ overlapped PROVE ~ stopTasks > startTasks
    BY DEF StopTaskOnce
  <2>1. StopTasksAhead \in {0, 1} /\ stopTasks + StopTasksAhead <= startTasks
    BY DEF CInv, StopTasksAreCounted, StopTasksAhead
  <2> QED
    BY <2>1 DEF CInv, ControllerTypeOK
<1> QED
  BY <1>1, ControllerInvariance, PTL

(* The destructor ends the program only when the listener was never        *)
(* started or two calls of Stop overlapped.                                *)
THEOREM ControllerIsDestroyedQuietly == ControllerSpec => []DestructionIsQuiet
<1>1. CInv => DestructionIsQuiet
  BY DEF CInv
<1> QED
  BY <1>1, ControllerInvariance, PTL

(* When the listener is destroyed, no worker is in the group, in the       *)
(* controller or in the listener.                                          *)
THEOREM NobodyIsLeftBehind == ControllerSpec => []NobodyLeftBehind
<1>1. CInv => NobodyLeftBehind
  BY DEF CInv
<1> QED
  BY <1>1, ControllerInvariance, PTL
=============================================================================
