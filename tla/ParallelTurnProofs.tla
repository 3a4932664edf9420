-------------------------- MODULE ParallelTurnProofs --------------------------
(***************************************************************************)
(* The turn barrier is safe for every number of workers; the parallel      *)
(* evaluation is an implementation of it and plays the Game of Life, for   *)
(* every number of threads, every grid with two cells per block in each    *)
(* direction, every image and every number of turns.                       *)
(*                                                                         *)
(* None of the invariants of TurnBarrier is inductive: each of them says   *)
(* nothing of the phases before the one it speaks about.  PhaseInv says    *)
(* where every worker may stand in each phase of the distributor; with the *)
(* ownership of the mutex it is inductive and implies all of them.         *)
(*                                                                         *)
(* What is proved of the barrier holds of the evaluation with its data,    *)
(* and from it follows that the N + 1 pairs of matrices, each swapped by   *)
(* its own goroutine, always name the same two matrices.                   *)
(*                                                                         *)
(* CountsExact only speaks of the moments between two turns.  DataInv says *)
(* what the next matrix holds at every moment of a turn: the pixels of     *)
(* the regions that were checked are those of the next world, and the      *)
(* counts of a block that was cleaned up are the numbers of neighbours     *)
(* that live once the flips applied so far have happened: those of the     *)
(* safe regions that were checked, by their workers, and those of the      *)
(* boundaries that were merged, by the distributor.  At the end of the     *)
(* turn these are all flips there are.                                     *)
(*                                                                         *)
(* NoDeadlock states as guards that one of the goroutines can always go on; *)
(* it needs that a distributor that waits for results is owed one (Owed).  *)
(***************************************************************************)
EXTENDS ParallelTurn, GridProofs

\* The blocks are two by two cells or more and tile the grid.
LEMMA BlocksTile ==
  /\ Blocks \in [Thread -> Block]
  /\ \A i \in Thread : /\ Blocks[i].start[1] + 2 <= Blocks[i].end[1]
                       /\ Blocks[i].start[2] + 2 <= Blocks[i].end[2]
  /\ \A c \in Cell : \E i \in Thread : c \in CellsOf(Blocks[i])
  /\ \A i, j \in Thread : i # j => CellsOf(Blocks[i]) \cap CellsOf(Blocks[j]) = {}
<1>1. Tiled(Blocks, N)
  BY BlocksAssumption, DivisionServes DEF Blocks
<1> QED BY <1>1 DEF Tiled, Thread

------------------------------------------------------------------------------
(* The barrier                                                               *)

\* Where worker i may stand while the distributor is in phase dist.
Standing(i) ==
  IF dist \in {"spawning", "awaiting"}
  THEN CASE i <= spawned     -> Parked
         [] i = spawned + 1  -> IF dist = "awaiting" THEN {"created", "greeting"} ELSE {"none"}
         [] i > spawned + 1  -> {"none"}
  ELSE IF dist = "collecting"
  THEN IF i \in got THEN Parked ELSE Active
  ELSE IF dist = "exclusive" THEN Parked ELSE {"woken", "checking", "exited"}

PhaseInv ==
  /\ dist \in {"spawning", "awaiting"} => spawned < N
  /\ running <=> dist # "stopped"
  /\ \A i \in Thread : worker[i] \in Standing(i)

BarrierInv == BarrierTypeOK /\ PhaseInv /\ MutexMatchesHolder

------------------------------------------------------------------------------
\* The program starts in the invariant: no worker exists and cond.L is free.
LEMMA InitInv == BarrierInit => BarrierInv
BY NAssumption DEF BarrierInit, BarrierInv, BarrierTypeOK, PhaseInv, Standing,
   MutexMatchesHolder, DistState, WorkerState, Thread, Free, InCritical

\* Every step of the distributor and of the workers keeps the invariant.
LEMMA StepInv == BarrierInv /\ [BarrierNext]_barrierVars => BarrierInv'
<1> SUFFICES ASSUME BarrierInv, [BarrierNext]_barrierVars PROVE BarrierInv'
  OBVIOUS
<1> USE NAssumption DEF BarrierInv, BarrierTypeOK, PhaseInv, Standing,
        MutexMatchesHolder, DistState, WorkerState, Thread, Free,
        InCritical, Parked, Active, Move, WakeAll
<1>1. CASE Spawn
  BY <1>1 DEF Spawn
<1>2. CASE Broadcast
  BY <1>2 DEF Broadcast
<1>3. CASE Stop
  \* cond.L is free, so no worker stands between Lock and Wait: all of them sleep
  <2>1. /\ dist = "exclusive" /\ holder = Free /\ dist' = "stopped"
        /\ running' = FALSE /\ UNCHANGED <<spawned, holder, got>>
        /\ worker' = [i \in Thread |-> IF worker[i] = "asleep" THEN "woken" ELSE worker[i]]
    BY <1>3 DEF Stop
  <2>2. \A i \in Thread : worker[i] = "asleep"
    BY <2>1
  <2>3. \A i \in Thread : worker'[i] = "woken"
    BY <2>1, <2>2
  <2>4. BarrierTypeOK'
    BY <2>1, <2>3
  <2>5. (running <=> dist # "stopped")'
    BY <2>1
  <2>6. PhaseInv'
    BY <2>1, <2>3, <2>5
  <2>7. MutexMatchesHolder'
    BY <2>1, <2>3
  <2>8. QED
    BY <2>4, <2>6, <2>7
<1>4. ASSUME NEW i \in Thread, AcquireLock(i) PROVE BarrierInv'
  BY <1>4 DEF AcquireLock
<1>5. ASSUME NEW i \in Thread, Park(i) PROVE BarrierInv'
  BY <1>5 DEF Park
<1>6. ASSUME NEW i \in Thread, Resume(i) PROVE BarrierInv'
  BY <1>6 DEF Resume
<1>7. ASSUME NEW i \in Thread, CheckRunning(i) PROVE BarrierInv'
  BY <1>7 DEF CheckRunning
<1>8. ASSUME NEW i \in Thread, FinishWork(i) PROVE BarrierInv'
  BY <1>8 DEF FinishWork
<1>9. ASSUME NEW i \in Thread, Greet(i) PROVE BarrierInv'
  BY <1>9 DEF Greet
<1>10. ASSUME NEW i \in Thread, Report(i) PROVE BarrierInv'
  BY <1>10 DEF Report
<1>11. CASE UNCHANGED barrierVars
  BY <1>11 DEF barrierVars
<1>12. QED
  BY <1>1, <1>2, <1>3, <1>4, <1>5, <1>6, <1>7, <1>8, <1>9, <1>10, <1>11
     DEF BarrierNext

\* The invariant implies the three properties that TLC checks.
LEMMA InvImplies ==
  BarrierInv => /\ DistributorAlone /\ NobodyLeftBehind
                /\ ExitOnlyWhenStopped
BY NAssumption DEF BarrierInv, BarrierTypeOK, PhaseInv, Standing, Thread, DistState,
   WorkerState, Parked, Active, DistributorAlone, NobodyLeftBehind, ExitOnlyWhenStopped

\* The invariant holds in every state of every execution.
THEOREM InvHolds == BarrierSafety => []BarrierInv
BY InitInv, StepInv, PTL DEF BarrierSafety

\* The variables keep their types, for every number of workers.
THEOREM TypeCorrect == BarrierSafety => []BarrierTypeOK
<1>1. BarrierInv => BarrierTypeOK
  BY DEF BarrierInv
<1>2. QED
  BY <1>1, InvHolds, PTL

\* While the distributor merges, swaps, handles a key or writes a file, no
\* worker runs (distributor.go:121-163), for every number of workers.
THEOREM DistributorIsAlone == BarrierSafety => []DistributorAlone
BY InvImplies, InvHolds, PTL

\* No wakeup of a turn is lost and no worker runs a turn twice
\* (distributor.go:113-119, 242-252), for every number of workers.
THEOREM NoLostWakeup == BarrierSafety => []NobodyLeftBehind
BY InvImplies, InvHolds, PTL

\* No worker leaves before label quit and none starts a turn after it
\* (distributor.go:165-171, 203), for every number of workers.
THEOREM ExitsOnlyAtQuit == BarrierSafety => []ExitOnlyWhenStopped
BY InvImplies, InvHolds, PTL

\* cond.L is held by exactly the worker between Lock and Wait
\* (distributor.go:198-200, 242-251), for every number of workers.
THEOREM MutualExclusion == BarrierSafety => []MutexMatchesHolder
<1>1. BarrierInv => MutexMatchesHolder
  BY DEF BarrierInv
<1>2. QED
  BY <1>1, InvHolds, PTL

\* Somebody can take a step, or the program has ended: the guards of BarrierNext.
SomebodyMoves ==
  \/ dist = "spawning" /\ worker[spawned + 1] = "none"
  \/ dist = "exclusive" /\ holder = Free
  \/ \E i \in Thread : \/ worker[i] \in {"parking", "checking", "working"}
                       \/ worker[i] \in {"created", "worked", "woken"} /\ holder = Free
                       \/ worker[i] = "greeting" /\ dist = "awaiting"
                       \/ worker[i] = "reporting" /\ dist = "collecting"
  \/ dist = "stopped" /\ \A i \in Thread : worker[i] = "exited"

\* A distributor that waits for results is owed one.
Owed == dist = "collecting" => got # Thread

\* It stops to wait with the last result.
LEMMA OwedStep == BarrierInv /\ Owed /\ [BarrierNext]_barrierVars => Owed'
<1> SUFFICES ASSUME BarrierInv, Owed, [BarrierNext]_barrierVars PROVE Owed'
  OBVIOUS
<1>1. 1 \in Thread
  BY NAssumption DEF Thread
<1>2. CASE Spawn \/ Broadcast \/ Stop
  BY <1>1, <1>2 DEF Spawn, Broadcast, Stop, Owed
<1>3. ASSUME NEW i \in Thread,
             \/ AcquireLock(i) \/ Park(i) \/ Resume(i) \/ CheckRunning(i)
             \/ FinishWork(i) \/ Greet(i) \/ Report(i)
      PROVE  Owed'
  BY <1>3 DEF AcquireLock, Park, Resume, CheckRunning, FinishWork, Greet, Report, Owed
<1>4. CASE UNCHANGED barrierVars
  BY <1>4 DEF barrierVars, Owed
<1> QED BY <1>2, <1>3, <1>4 DEF BarrierNext

\* Whoever holds the mutex is about to wait, or sends.
LEMMA HolderMoves ==
  BarrierInv => \/ holder = Free
                \/ \E j \in Thread : worker[j] \in InCritical
BY DEF BarrierInv, BarrierTypeOK, MutexMatchesHolder

\* In every phase of the distributor somebody can go on.
LEMMA InvMoves == BarrierInv /\ Owed => SomebodyMoves
<1> SUFFICES ASSUME BarrierInv, Owed PROVE SomebodyMoves
  OBVIOUS
<1>1. /\ \A i \in Thread : worker[i] \in Standing(i)
      /\ spawned \in Nat /\ N \in Nat \ {0} /\ got \subseteq Thread
  BY NAssumption DEF BarrierInv, BarrierTypeOK, PhaseInv
<1>2. \/ holder = Free
      \/ \E j \in Thread : worker[j] \in InCritical
  BY HolderMoves
<1>3. CASE dist \in {"spawning", "awaiting"}
  <2>1. spawned + 1 \in Thread
    BY <1>1, <1>3 DEF BarrierInv, PhaseInv, Thread
  <2>2. worker[spawned + 1] \in IF dist = "awaiting" THEN {"created", "greeting"} ELSE {"none"}
    BY <1>1, <1>3, <2>1 DEF Standing
  <2>3. \A j \in Thread : worker[j] \in InCritical => worker[j] \in {"parking", "greeting"}
    BY <1>1, <1>3 DEF Standing, InCritical, Parked, Thread
  <2> QED BY <1>2, <1>3, <2>1, <2>2, <2>3 DEF SomebodyMoves
<1>4. CASE dist = "exclusive"
  BY <1>1, <1>2, <1>4 DEF Standing, InCritical, Parked, SomebodyMoves
<1>5. CASE dist = "collecting"
  <2>1. PICK i \in Thread : i \notin got
    BY <1>1, <1>5 DEF Owed
  <2>2. worker[i] \in Active
    BY <1>1, <1>5, <2>1 DEF Standing
  <2>3. \A j \in Thread : worker[j] \in InCritical => worker[j] \in {"parking", "reporting"}
    BY <1>1, <1>5 DEF Standing, InCritical, Parked, Active
  <2> QED BY <1>2, <1>5, <2>1, <2>2, <2>3 DEF Active, SomebodyMoves
<1>6. CASE dist = "stopped"
  <2>1. \A j \in Thread : worker[j] \in {"woken", "checking", "exited"}
    BY <1>1, <1>6 DEF Standing
  <2> QED BY <1>2, <1>6, <2>1 DEF InCritical, SomebodyMoves
<1> QED BY <1>3, <1>4, <1>5, <1>6 DEF BarrierInv, BarrierTypeOK, DistState

\* The barrier cannot deadlock: until all workers have returned at label quit,
\* somebody can go on, although workers send with cond.L in their hands and the
\* distributor takes it for its broadcast (distributor.go:111-121, 165-171, 242-251).
THEOREM NoDeadlock == BarrierSafety => []SomebodyMoves
<1>1. BarrierInit => Owed
  BY DEF BarrierInit, Owed
<1> QED BY <1>1, InitInv, OwedStep, StepInv, InvMoves, PTL DEF BarrierSafety
------------------------------------------------------------------------------
(* The evaluation is a barrier                                               *)

\* Every step of the evaluation is a step of the barrier or leaves it alone.
LEMMA TurnStep == [TurnNext]_turnVars => [BarrierNext]_barrierVars
<1> SUFFICES ASSUME [TurnNext]_turnVars PROVE [BarrierNext]_barrierVars
  OBVIOUS
<1>1. CASE SpawnWorker
  BY <1>1 DEF SpawnWorker, BarrierNext
<1>2. CASE StartTurn
  BY <1>2 DEF StartTurn, BarrierNext
<1>3. CASE EndTurn
  BY <1>3 DEF EndTurn
<1>4. CASE Quit
  BY <1>4 DEF Quit, BarrierNext
<1>5. ASSUME NEW i \in Thread, MergeResult(i) PROVE UNCHANGED barrierVars
  BY <1>5 DEF MergeResult
<1>6. ASSUME NEW i \in Thread, EnterLoop(i) PROVE BarrierNext
  BY <1>6 DEF EnterLoop, BarrierNext
<1>7. ASSUME NEW i \in Thread, CleanUp(i) \/ EvaluateSafe(i) \/ EvaluateEdge(i)
      PROVE UNCHANGED barrierVars
  BY <1>7 DEF CleanUp, EvaluateSafe, EvaluateEdge, WriteNext
<1>8. ASSUME NEW i \in Thread, Swap(i) PROVE BarrierNext
  BY <1>8 DEF Swap, BarrierNext
<1>9. ASSUME NEW i \in Thread, Handshake(i) PROVE BarrierNext
  BY <1>9 DEF Handshake, BarrierNext
<1>10. CASE UNCHANGED turnVars
  BY <1>10 DEF turnVars
<1>11. QED
  BY <1>1, <1>2, <1>3, <1>4, <1>5, <1>6, <1>7, <1>8, <1>9, <1>10
     DEF TurnNext, Distribute, WorkerStep

\* The evaluation with all its data implements the turn barrier
\* (distributor.go:78-178, 190-257).
THEOREM ImplementsBarrier == TurnSpec => BarrierSafety
<1>1. TurnInit => BarrierInit
  BY DEF TurnInit
<1>2. QED
  BY <1>1, TurnStep, PTL DEF TurnSpec, BarrierSafety

\* Every step of the evaluation keeps the invariant of the barrier.
THEOREM BarrierHolds == TurnSpec => []BarrierInv
BY ImplementsBarrier, InvHolds, PTL

\* Between two turns every worker is parked, whatever the workers computed
\* (distributor.go:121-163).
THEOREM MergesAlone == TurnSpec => []DistributorAlone
BY ImplementsBarrier, DistributorIsAlone, PTL

------------------------------------------------------------------------------
(* The pairs of matrices                                                     *)

\* Worker i has swapped its pair in this turn, the distributor has not.
Swapped(i) ==
  turning /\ (dist = "exclusive" \/ i \in got \/ worker[i] \in {"worked", "reporting"})

\* A turn is under way while results are awaited or merged; every worker names
\* the matrices like the distributor, or the other way round once it swapped.
PairInv ==
  /\ front \in 0..1
  /\ wfront \in [Thread -> 0..1]
  /\ stage \in [Thread -> CleanUpStage..DoneStage]
  /\ turning \in BOOLEAN
  /\ dist = "collecting" => turning
  /\ turning => dist \in {"collecting", "exclusive"}
  /\ \A i \in Thread : wfront[i] = IF Swapped(i) THEN 1 - front ELSE front

\* All pairs start alike, outside of a turn.
LEMMA PairInit == TurnInit => PairInv
<1> SUFFICES ASSUME TurnInit PROVE PairInv
  OBVIOUS
<1>1. /\ dist = "spawning" /\ front = 0 /\ turning = FALSE
      /\ wfront = [i \in Thread |-> 0] /\ stage = [i \in Thread |-> DoneStage]
  BY DEF TurnInit, BarrierInit, DataInit
<1>2. \A i \in Thread : ~Swapped(i)
  BY <1>1 DEF Swapped
<1>3. turning \in BOOLEAN /\ (turning => dist \in {"collecting", "exclusive"})
  BY <1>1
<1>4. front \in 0..1 /\ wfront \in [Thread -> 0..1] /\ stage \in [Thread -> CleanUpStage..DoneStage]
  BY <1>1 DEF CleanUpStage, DoneStage
<1>5. \A i \in Thread : wfront[i] = IF Swapped(i) THEN 1 - front ELSE front
  BY <1>1, <1>2
<1>6. QED
  BY <1>1, <1>3, <1>4, <1>5 DEF PairInv

\* Every step of the evaluation keeps the pairs in order.
LEMMA PairStep == BarrierInv /\ PairInv /\ [TurnNext]_turnVars => PairInv'
<1> SUFFICES ASSUME BarrierInv, PairInv, [TurnNext]_turnVars PROVE PairInv'
  OBVIOUS
<1> USE DEF PairInv, Swapped, CleanUpStage, DoneStage
<1>0. /\ worker \in [Thread -> WorkerState] /\ got \subseteq Thread
      /\ \A i \in Thread : worker[i] \in Standing(i)
      /\ dist \in DistState
  BY DEF BarrierInv, BarrierTypeOK, PhaseInv
<1>1. CASE SpawnWorker
  BY <1>0, <1>1 DEF SpawnWorker, Spawn, Move, dataVars
<1>2. CASE StartTurn
  <2>1. \A i \in Thread : worker[i] \in Parked
    BY <1>0, <1>2 DEF StartTurn, Broadcast, Standing
  <2>2. \A i \in Thread : worker'[i] \notin {"worked", "reporting"}
    BY <2>1, <1>2 DEF StartTurn, Broadcast, WakeAll, Parked
  <2>3. QED
    BY <1>2, <2>2 DEF StartTurn, Broadcast
<1>3. CASE EndTurn
  <2>1. /\ dist = "exclusive" /\ turning /\ turning' = FALSE
        /\ front' = 1 - front
        /\ UNCHANGED <<dist, wfront, stage>>
    BY <1>3 DEF EndTurn, barrierVars
  <2>2. \A i \in Thread : Swapped(i) /\ ~Swapped(i)'
    BY <2>1
  <2>3. \A i \in Thread : wfront'[i] = front'
    BY <2>1, <2>2
  <2>4. front' \in 0..1
    BY <2>1
  <2>5. QED
    BY <2>1, <2>2, <2>3, <2>4
<1>4. CASE Quit
  BY <1>0, <1>4 DEF Quit, Stop, dataVars
<1>5. ASSUME NEW i \in Thread, MergeResult(i) PROVE PairInv'
  BY <1>5 DEF MergeResult, barrierVars
<1>6. ASSUME NEW i \in Thread, EnterLoop(i) PROVE PairInv'
  <2>1. /\ UNCHANGED <<dist, got, front, wfront, turning>>
        /\ worker[i] = "checking"
        /\ \E to \in {"working", "exited"} : worker' = [worker EXCEPT ![i] = to]
    BY <1>6 DEF EnterLoop, CheckRunning, Move
  <2>2. \A j \in Thread : Swapped(j)' <=> Swapped(j)
    BY <1>0, <2>1
  <2>3. stage' \in [Thread -> CleanUpStage..DoneStage]
    BY <1>6 DEF EnterLoop
  <2>4. QED
    BY <2>1, <2>2, <2>3
<1>7. ASSUME NEW i \in Thread, CleanUp(i) \/ EvaluateSafe(i) \/ EvaluateEdge(i) PROVE PairInv'
  <2>1. UNCHANGED <<barrierVars, front, wfront, turning>>
    BY <1>7 DEF CleanUp, EvaluateSafe, EvaluateEdge, WriteNext
  <2>2. stage[i] \in CleanUpStage..LastEdge /\ stage' = [stage EXCEPT ![i] = @ + 1]
    BY <1>7 DEF CleanUp, EvaluateSafe, EvaluateEdge, WriteNext, InStage, SafeStage,
       FirstEdge, LastEdge
  <2>3. QED
    BY <2>1, <2>2 DEF barrierVars, LastEdge
<1>8. ASSUME NEW i \in Thread, Swap(i) PROVE PairInv'
  <2>1. dist = "collecting" /\ i \notin got /\ worker[i] = "working"
    <3>1. worker[i] = "working"
      BY <1>8 DEF Swap, FinishWork, Move
    <3>2. worker[i] \in Standing(i)
      BY <1>0
    <3>3. dist \notin {"spawning", "awaiting"}
      BY <1>0, <3>1, <3>2, NAssumption DEF BarrierInv, BarrierTypeOK, Standing, Parked, Thread
    <3>4. QED
      BY <1>0, <3>1, <3>2, <3>3 DEF Standing, Parked, DistState
  <2>2. QED
    BY <1>0, <1>8, <2>1 DEF Swap, FinishWork, Move
<1>9. ASSUME NEW i \in Thread, Handshake(i) PROVE PairInv'
  <2> USE <1>0, <1>9 DEF Handshake, dataVars, Move
  <2>1. CASE AcquireLock(i)
    BY <2>1 DEF AcquireLock
  <2>2. CASE Park(i)
    BY <2>2 DEF Park
  <2>3. CASE Resume(i)
    BY <2>3 DEF Resume
  <2>4. CASE Greet(i)
    BY <2>4 DEF Greet
  <2>5. CASE Report(i)
    BY <2>5 DEF Report
  <2>6. QED
    BY <2>1, <2>2, <2>3, <2>4, <2>5
<1>10. CASE UNCHANGED turnVars
  BY <1>10 DEF turnVars, barrierVars, dataVars
<1>11. QED
  BY <1>1, <1>2, <1>3, <1>4, <1>5, <1>6, <1>7, <1>8, <1>9, <1>10
     DEF TurnNext, Distribute, WorkerStep

\* The pairs are in order in every state of every execution.
LEMMA PairsAgree == TurnSpec => []PairInv
BY BarrierHolds, PairInit, PairStep, PTL DEF TurnSpec

------------------------------------------------------------------------------
(* Blocks                                                                    *)

\* The region of every stage lies in the block of the worker.
LEMMA RegionInBlock ==
  ASSUME NEW i \in Thread, NEW s \in CleanUpStage..LastEdge
  PROVE  Region(i, s) \subseteq CellsOf(Blocks[i])
<1> DEFINE b == Blocks[i]
<1>1. /\ b.start[1] \in Int /\ b.end[1] \in Int /\ b.start[2] \in Int /\ b.end[2] \in Int
      /\ b.start[1] + 2 <= b.end[1] /\ b.start[2] + 2 <= b.end[2]
  BY BlocksTile, SizeAssumption DEF Block, Cell
<1>2. SafeRegion(b) \subseteq CellsOf(b)
  BY <1>1 DEF SafeRegion, CellsOf, Rect, Cell
<1>3. \A k \in 1..4 : Boundary(b)[k] \subseteq CellsOf(b)
  <2>1. Boundary(b)[1] \subseteq CellsOf(b)
    BY <1>1, SizeAssumption DEF Boundary, CellsOf, Rect, Cell
  <2>2. Boundary(b)[2] \subseteq CellsOf(b)
    BY <1>1, SizeAssumption DEF Boundary, CellsOf, Rect, Cell
  <2>3. Boundary(b)[3] \subseteq CellsOf(b)
    BY <1>1, SizeAssumption DEF Boundary, CellsOf, Rect, Cell
  <2>4. Boundary(b)[4] \subseteq CellsOf(b)
    BY <1>1, SizeAssumption DEF Boundary, CellsOf, Rect, Cell
  <2>5. \A k \in 1..4 : k = 1 \/ k = 2 \/ k = 3 \/ k = 4
    OBVIOUS
  <2>6. QED
    BY <2>1, <2>2, <2>3, <2>4, <2>5
<1>4. CASE s = CleanUpStage
  BY <1>4 DEF Region, CleanUpStage, SafeStage, FirstEdge, LastEdge
<1>5. CASE s = SafeStage
  BY <1>2, <1>5 DEF Region, CleanUpStage, SafeStage, FirstEdge, LastEdge
<1>6. CASE s \in FirstEdge..LastEdge
  <2>1. s - SafeStage \in 1..4
    BY <1>6 DEF FirstEdge, LastEdge, SafeStage
  <2>2. Region(i, s) = Boundary(b)[s - SafeStage]
    BY <1>6 DEF Region, CleanUpStage, SafeStage, FirstEdge, LastEdge
  <2>3. QED
    BY <1>3, <2>1, <2>2
<1>7. QED
  BY <1>4, <1>5, <1>6 DEF CleanUpStage, SafeStage, FirstEdge, LastEdge

\* A coordinate that stays inside the grid is not wrapped.
LEMMA NoWrap ==
  ASSUME NEW n \in Nat \ {0}, NEW x \in 0..n - 1
  PROVE  (x + n) % n = x
BY SMT

\* The flips of a safe region reach no cell outside of the block.
LEMMA SafeNeighbours ==
  ASSUME NEW i \in Thread, NEW c \in SafeRegion(Blocks[i]), NEW o \in Offset
  PROVE  getSurrounding[c][o] \in CellsOf(Blocks[i])
<1> DEFINE b == Blocks[i]
           x == c[1] + o[1]
           y == c[2] + o[2]
<1>1. /\ b.start \in Cell /\ b.end \in (1..Width) \X (1..Height)
      /\ c \in Cell
      /\ c[1] \in b.start[1] + 1 .. b.end[1] - 2
      /\ c[2] \in b.start[2] + 1 .. b.end[2] - 2
  BY BlocksTile DEF Block, SafeRegion, Rect
<1>2. o[1] \in -1..1 /\ o[2] \in -1..1
  BY DEF Offset
<1>3. x \in 0..Width - 1 /\ y \in 0..Height - 1
  BY <1>1, <1>2, SizeAssumption DEF Cell
<1>4. x \in b.start[1]..b.end[1] - 1 /\ y \in b.start[2]..b.end[2] - 1
  BY <1>1, <1>2, SizeAssumption DEF Cell
<1>5. (x + Width) % Width = x /\ (y + Height) % Height = y
  BY <1>3, NoWrap, SizeAssumption
<1>6. getSurrounding[c][o] = <<x, y>>
  BY <1>1, <1>5 DEF getSurrounding
<1>7. QED
  BY <1>3, <1>4, <1>6 DEF CellsOf, Rect, Cell

------------------------------------------------------------------------------
(* No data race                                                              *)

\* Whatever worker i is about to write lies in its block, in its next matrix.
LEMMA WritesInBlock ==
  ASSUME PairInv, NEW i \in Thread, NEW t \in Writes(i)
  PROVE  t[1] = 1 - wfront[i] /\ t[3] \in CellsOf(Blocks[i])
<1> DEFINE k == 1 - wfront[i]
           pixels == IF stage[i] \in SafeStage..LastEdge THEN Region(i, stage[i]) ELSE {}
           reached == {getSurrounding[f][o] :
                         f \in Flips(current(i), Region(i, SafeStage)), o \in Offset}
           counts == CASE stage[i] = CleanUpStage -> Region(i, CleanUpStage)
                       [] stage[i] = SafeStage -> reached
                       [] OTHER -> {}
<1>1. pixels \subseteq CellsOf(Blocks[i])
  BY RegionInBlock DEF CleanUpStage, SafeStage, LastEdge
<1>2. Region(i, SafeStage) = SafeRegion(Blocks[i])
  BY DEF Region, CleanUpStage, SafeStage, FirstEdge, LastEdge
<1>3. Flips(current(i), Region(i, SafeStage)) \subseteq SafeRegion(Blocks[i])
  BY <1>2 DEF Flips
<1>4. reached \subseteq CellsOf(Blocks[i])
  BY <1>3, SafeNeighbours
<1>5. Region(i, CleanUpStage) \subseteq CellsOf(Blocks[i])
  BY RegionInBlock DEF CleanUpStage, LastEdge
<1>6. counts \subseteq CellsOf(Blocks[i])
  BY <1>4, <1>5 DEF CleanUpStage, SafeStage
<1>7. t \in ({k} \X {"pixels"} \X pixels) \cup ({k} \X {"counts"} \X counts)
  BY DEF Writes
<1>8. QED
  BY <1>1, <1>6, <1>7

\* Whatever worker i is about to read lies in its current matrix.
LEMMA ReadsInFront ==
  ASSUME NEW i \in Thread, NEW t \in Reads(i)
  PROVE  t[1] = wfront[i]
BY DEF Reads

\* While a worker evaluates, its pair names the matrices like the distributor's.
LEMMA EvaluatesFront ==
  ASSUME BarrierInv, PairInv, NEW i \in Thread, Evaluating(i)
  PROVE  wfront[i] = front
<1>1. worker[i] = "working" /\ worker[i] \in Standing(i) /\ dist \in DistState
  BY DEF Evaluating, BarrierInv, PhaseInv, BarrierTypeOK
<1>2. dist \notin {"spawning", "awaiting"}
  BY <1>1, NAssumption DEF BarrierInv, BarrierTypeOK, Standing, Parked, Thread
<1>3. dist = "collecting" /\ i \notin got
  BY <1>1, <1>2 DEF Standing, Parked, DistState
<1>4. ~Swapped(i)
  BY <1>1, <1>3 DEF Swapped
<1>5. QED
  BY <1>4 DEF PairInv

\* In no state two workers are about to touch the same cell of the same array
\* with one of them writing it (distributor.go:205-241), for every number of
\* workers, every grid and every division of it into disjoint blocks.
THEOREM RaceFree == TurnSpec => []NoDataRace
<1>1. BarrierInv /\ PairInv => NoDataRace
  <2> SUFFICES ASSUME BarrierInv, PairInv,
                      NEW i \in Thread, NEW j \in Thread, i # j,
                      Evaluating(i), Evaluating(j),
                      NEW t \in Writes(i), t \in Reads(j) \cup Writes(j)
               PROVE  FALSE
    BY DEF NoDataRace
  <2>1. wfront[i] = front /\ wfront[j] = front /\ front \in 0..1
    BY EvaluatesFront DEF PairInv
  <2>2. t[1] = 1 - front /\ t[3] \in CellsOf(Blocks[i])
    BY <2>1, WritesInBlock
  <2>3. t \notin Reads(j)
    BY <2>1, <2>2, ReadsInFront
  <2>4. t[3] \in CellsOf(Blocks[j])
    BY <2>3, WritesInBlock
  <2>5. QED
    BY <2>2, <2>4, BlocksTile
<1>2. QED
  BY <1>1, BarrierHolds, PairsAgree, PTL

------------------------------------------------------------------------------
(* The data                                                                  *)

P == matrix.pixels
nextMatrix == buf[1 - front]

\* How far worker i is in this turn: the stage it is in, 0 before the first.
Progress(i) ==
  IF Swapped(i) THEN DoneStage ELSE IF worker[i] = "working" THEN stage[i] ELSE 0

\* The cells of block i that are checked, and those of its boundary, when
\* worker i has come to stage s.
Checked(i, s) == {c \in Cell : \E q \in SafeStage..LastEdge : q < s /\ c \in Region(i, q)}
Edges(i, s)   == {c \in Cell : \E q \in FirstEdge..LastEdge : q < s /\ c \in Region(i, q)}

\* The cells whose flips the next matrix counts already, and those whose
\* flips the distributor has added to count.
Applied ==
  {c \in Cell : \E i \in Thread : \/ Progress(i) > SafeStage /\ c \in Region(i, SafeStage)
                                  \/ i \notin todo /\ c \in Edges(i, DoneStage)}
Merged  == {c \in Cell : \E i \in Thread : i \notin todo /\ c \in CellsOf(Blocks[i])}

\* What worker i has left in its buffers and in the next matrix, at stage s.
Buffers(i, s) ==
  /\ flipping[i] = Flips(matrix, Checked(i, s))
  /\ unsafe[i] = Flips(matrix, Edges(i, s))
  /\ diff[i] = Net(P, flipping[i])

Pixels(i, s) ==
  \A c \in Checked(i, s) : c \in nextMatrix.pixels <=> c \in Flipped(P, Flips(matrix, Cell))

Counts(i) ==
  \A c \in CellsOf(Blocks[i]) :
    nextMatrix.counts[c] = AliveAround(Flipped(P, Flips(matrix, Applied)), c)

TurnInv ==
  /\ turn < Turns
  /\ dist = "collecting" => todo = Thread
  /\ count = Cardinality(Flipped(P, Flips(matrix, Merged)))
  /\ \A i \in Thread : /\ Progress(i) > 0 => Buffers(i, Progress(i))
                       /\ Pixels(i, Progress(i))
                       /\ Progress(i) > CleanUpStage => Counts(i)

DataInv ==
  /\ DataTypeOK
  /\ Exact(matrix)
  /\ \A i \in Thread : worker[i] # "working" => stage[i] = DoneStage
  /\ ~turning => count = Cardinality(P)
  /\ turning => TurnInv

------------------------------------------------------------------------------
(* Regions                                                                   *)

\* The numbers of the stages.
LEMMA Stages ==
  /\ CleanUpStage = 1 /\ SafeStage = 2 /\ FirstEdge = 3 /\ LastEdge = 6 /\ DoneStage = 7
  /\ FirstEdge..LastEdge = {3, 4, 5, 6} /\ SafeStage..LastEdge = {2, 3, 4, 5, 6}
BY DEF CleanUpStage, SafeStage, FirstEdge, LastEdge, DoneStage

\* The safe region and the four boundaries of a block are disjoint and cover it.
LEMMA RegionsDivideBlock ==
  ASSUME NEW i \in Thread
  PROVE  /\ \A c \in CellsOf(Blocks[i]) : \E q \in SafeStage..LastEdge : c \in Region(i, q)
         /\ \A q, r \in SafeStage..LastEdge : q # r => Region(i, q) \cap Region(i, r) = {}
<1> DEFINE b == Blocks[i]
<1>1. /\ b.start[1] \in Int /\ b.end[1] \in Int /\ b.start[2] \in Int /\ b.end[2] \in Int
      /\ b.start[1] + 2 <= b.end[1] /\ b.start[2] + 2 <= b.end[2]
  BY BlocksTile, SizeAssumption DEF Block, Cell
<1>2. /\ Region(i, 2) = Rect(b.start[1] + 1, b.end[1] - 2, b.start[2] + 1, b.end[2] - 2)
      /\ Region(i, 3) = Rect(b.start[1], b.end[1] - 2, b.start[2], b.start[2])
      /\ Region(i, 4) = Rect(b.end[1] - 1, b.end[1] - 1, b.start[2], b.end[2] - 2)
      /\ Region(i, 5) = Rect(b.start[1] + 1, b.end[1] - 1, b.end[2] - 1, b.end[2] - 1)
      /\ Region(i, 6) = Rect(b.start[1], b.start[1], b.start[2] + 1, b.end[2] - 1)
  BY DEF Region, Boundary, SafeRegion, CleanUpStage, SafeStage, FirstEdge, LastEdge
<1> HIDE DEF b
<1>3. \A c \in Cell : c[1] \in Int /\ c[2] \in Int
  BY SizeAssumption DEF Cell
<1>4. \A c \in CellsOf(Blocks[i]) : \E q \in {2, 3, 4, 5, 6} : c \in Region(i, q)
  <2> TAKE c \in CellsOf(Blocks[i])
  <2>1. /\ c \in Cell /\ c[1] \in Int /\ c[2] \in Int
        /\ b.start[1] <= c[1] /\ c[1] <= b.end[1] - 1
        /\ b.start[2] <= c[2] /\ c[2] <= b.end[2] - 1
    BY <1>1, <1>3 DEF CellsOf, Rect, b
  <2> QED BY <1>1, <1>2, <2>1 DEF Rect
<1>5. \A q, r \in {2, 3, 4, 5, 6} : q < r => Region(i, q) \cap Region(i, r) = {}
  <2>1. Region(i, 2) \cap (Region(i, 3) \cup Region(i, 4) \cup Region(i, 5) \cup Region(i, 6)) = {}
    BY <1>1, <1>2, <1>3 DEF Rect
  <2>2. Region(i, 3) \cap (Region(i, 4) \cup Region(i, 5) \cup Region(i, 6)) = {}
    BY <1>1, <1>2, <1>3 DEF Rect
  <2>3. Region(i, 4) \cap (Region(i, 5) \cup Region(i, 6)) = {}
    BY <1>1, <1>2, <1>3 DEF Rect
  <2>4. Region(i, 5) \cap Region(i, 6) = {}
    BY <1>1, <1>2, <1>3 DEF Rect
  <2> QED BY <2>1, <2>2, <2>3, <2>4
<1> QED BY <1>4, <1>5, Stages

\* What is checked before and after a stage.
LEMMA CheckedGrows ==
  ASSUME NEW i \in Thread
  PROVE  /\ \A s \in {1, 2} : Checked(i, s) = {} /\ Edges(i, s) = {} /\ Edges(i, 3) = {}
         /\ \A s \in SafeStage..LastEdge :
              /\ Checked(i, s + 1) = Checked(i, s) \cup Region(i, s)
              /\ Checked(i, s) \cap Region(i, s) = {}
         /\ \A s \in FirstEdge..LastEdge : Edges(i, s + 1) = Edges(i, s) \cup Region(i, s)
         /\ \A s \in 0..7 : Edges(i, s) \subseteq Checked(i, s)
                            /\ Checked(i, s) \subseteq CellsOf(Blocks[i])
         /\ Checked(i, DoneStage) = CellsOf(Blocks[i])
         /\ Checked(i, DoneStage) = Region(i, SafeStage) \cup Edges(i, DoneStage)
         /\ Region(i, SafeStage) \cap Edges(i, DoneStage) = {}
<1>1. \A q \in {1, 2, 3, 4, 5, 6} : Region(i, q) \subseteq CellsOf(Blocks[i])
  BY RegionInBlock, Stages
<1>2. CellsOf(Blocks[i]) \subseteq Cell
  BY DEF CellsOf, Rect
<1> USE Stages DEF Checked, Edges
<1>3. \A s \in {1, 2} : Checked(i, s) = {} /\ Edges(i, s) = {} /\ Edges(i, 3) = {}
  OBVIOUS
<1>4. \A s \in {2, 3, 4, 5, 6} : /\ Checked(i, s + 1) = Checked(i, s) \cup Region(i, s)
                                 /\ Checked(i, s) \cap Region(i, s) = {}
  <2> TAKE s \in {2, 3, 4, 5, 6}
  <2>1. \A q \in {2, 3, 4, 5, 6} : q < s + 1 <=> q < s \/ q = s
    OBVIOUS
  <2>2. Checked(i, s + 1) = Checked(i, s) \cup Region(i, s)
    BY <1>1, <1>2, <2>1
  <2>3. Checked(i, s) \cap Region(i, s) = {}
    BY RegionsDivideBlock
  <2> QED BY <2>2, <2>3
<1>5. \A s \in {3, 4, 5, 6} : Edges(i, s + 1) = Edges(i, s) \cup Region(i, s)
  <2> TAKE s \in {3, 4, 5, 6}
  <2>1. \A q \in {3, 4, 5, 6} : q < s + 1 <=> q < s \/ q = s
    OBVIOUS
  <2> QED BY <1>1, <1>2, <2>1
<1>6. \A s \in 0..7 : Edges(i, s) \subseteq Checked(i, s) /\ Checked(i, s) \subseteq CellsOf(Blocks[i])
  BY <1>1
<1>7. \A q \in {2, 3, 4, 5, 6} : q < 7
  OBVIOUS
<1>8. Checked(i, 7) = CellsOf(Blocks[i])
  BY <1>1, <1>2, <1>7, RegionsDivideBlock
<1>9. Checked(i, 7) = Region(i, 2) \cup Edges(i, 7)
  BY <1>1, <1>2, <1>7
<1>10. Region(i, 2) \cap Edges(i, 7) = {}
  BY RegionsDivideBlock
<1> QED BY <1>3, <1>4, <1>5, <1>6, <1>8, <1>9, <1>10

\* Two regions decide on their flips apart from each other.
LEMMA FlipsSplit ==
  ASSUME NEW m, NEW R, NEW S
  PROVE  /\ Flips(m, R \cup S) = Flips(m, R) \cup Flips(m, S)
         /\ R \cap S = {} => Flips(m, R) \cap Flips(m, S) = {}
         /\ Flips(m, R) \subseteq R
         /\ Flips(m, {}) = {}
BY DEF Flips

\* What disjoint flips add to the number of living cells adds up.
LEMMA NetAdds ==
  ASSUME NEW S \in SUBSET Cell, NEW A \in SUBSET Cell, NEW F \in SUBSET Cell, A \cap F = {}
  PROVE  Net(S, A \cup F) = Net(S, A) + Net(S, F)
<1>1. /\ IsFiniteSet(A \ S) /\ IsFiniteSet(F \ S) /\ IsFiniteSet(A \cap S) /\ IsFiniteSet(F \cap S)
  BY FiniteGrid, FS_Subset
<1>2. /\ (A \ S) \cap (F \ S) = {} /\ (A \cap S) \cap (F \cap S) = {}
      /\ (A \cup F) \ S = (A \ S) \cup (F \ S) /\ (A \cup F) \cap S = (A \cap S) \cup (F \cap S)
  OBVIOUS
<1>3. /\ Cardinality((A \cup F) \ S) = Cardinality(A \ S) + Cardinality(F \ S)
      /\ Cardinality(A \ S) \in Nat /\ Cardinality(F \ S) \in Nat
  BY <1>1, <1>2, Parts
<1>4. /\ Cardinality((A \cup F) \cap S) = Cardinality(A \cap S) + Cardinality(F \cap S)
      /\ Cardinality(A \cap S) \in Nat /\ Cardinality(F \cap S) \in Nat
  BY <1>1, <1>2, Parts
<1> QED BY <1>3, <1>4 DEF Net

------------------------------------------------------------------------------
(* The moments of a turn                                                     *)

\* A worker that evaluates does so in a turn, before the distributor merges.
LEMMA WorkingInTurn ==
  ASSUME BarrierInv, PairInv, DataInv, NEW i \in Thread, worker[i] = "working"
  PROVE  /\ dist = "collecting" /\ turning /\ TurnInv /\ todo = Thread
         /\ wfront[i] = front /\ ~Swapped(i) /\ Progress(i) = stage[i]
         /\ current(i) = matrix /\ next(i) = nextMatrix
<1>1. worker[i] \in Standing(i) /\ dist \in DistState
  BY DEF BarrierInv, PhaseInv, BarrierTypeOK
<1>2. dist \notin {"spawning", "awaiting"}
  BY <1>1, NAssumption DEF BarrierInv, BarrierTypeOK, Standing, Parked, Thread
<1>3. dist = "collecting" /\ i \notin got
  BY <1>1, <1>2 DEF Standing, Parked, DistState
<1>4. wfront[i] = front /\ ~Swapped(i)
  BY <1>3, EvaluatesFront DEF Evaluating, Swapped
<1> QED BY <1>3, <1>4 DEF PairInv, DataInv, TurnInv, Progress, current, next, matrix, nextMatrix

\* The types the proofs below use of the matrices and blocks.
LEMMA DataTypes ==
  ASSUME PairInv, DataInv
  PROVE  /\ front \in 0..1 /\ 1 - front \in 0..1 /\ 1 - front # front
         /\ matrix \in Matrix /\ nextMatrix \in Matrix
         /\ P \in SUBSET Cell /\ Exact(matrix)
         /\ matrix.counts \in [Cell -> Int] /\ nextMatrix.counts \in [Cell -> Int]
         /\ \A R : R \subseteq Cell => Flips(matrix, R) \in SUBSET Cell
<1>1. front \in 0..1 /\ 1 - front \in 0..1 /\ 1 - front # front
  BY DEF PairInv
<1>2. matrix \in Matrix /\ nextMatrix \in Matrix /\ Exact(matrix)
  BY <1>1 DEF DataInv, DataTypeOK, matrix, nextMatrix
<1> QED BY <1>1, <1>2 DEF Matrix, P, Flips

\* Steps that leave the data of the turn where it is.
LEMMA DataStays ==
  ASSUME DataInv, PairInv',
         UNCHANGED <<buf, front, flipping, unsafe, diff, turning, todo, count, turn>>,
         \A i \in Thread : worker'[i] # "working" => stage'[i] = DoneStage,
         turning => \A i \in Thread : Progress(i)' = Progress(i),
         turning => dist' = dist \/ dist' = "exclusive"
  PROVE  DataInv'
<1>1. matrix' = matrix /\ nextMatrix' = nextMatrix /\ P' = P
  BY DEF matrix, nextMatrix, P
<1>2. \A i, s : Checked(i, s)' = Checked(i, s) /\ Edges(i, s)' = Edges(i, s)
  BY DEF Checked, Edges, Region
<1>3. turning => Applied' = Applied /\ Merged' = Merged
  BY <1>2 DEF Applied, Merged, Region
<1>4. DataTypeOK'
  BY DEF DataInv, DataTypeOK, PairInv
<1>5. turning => TurnInv'
  <2> SUFFICES ASSUME turning PROVE TurnInv'
    OBVIOUS
  <2>1. TurnInv
    BY DEF DataInv
  <2>2. Applied' = Applied /\ Merged' = Merged
    BY <1>3
  <2>3. \A i \in Thread : /\ Progress(i)' > 0 => Buffers(i, Progress(i))'
                          /\ Pixels(i, Progress(i))'
                          /\ Progress(i)' > CleanUpStage => Counts(i)'
    <3> TAKE i \in Thread
    <3>1. Progress(i)' = Progress(i)
      OBVIOUS
    <3>2. /\ Buffers(i, Progress(i))' <=> Buffers(i, Progress(i))
          /\ Pixels(i, Progress(i))' <=> Pixels(i, Progress(i))
      BY <1>1, <1>2, <3>1 DEF Buffers, Pixels
    <3>3. Counts(i)' <=> Counts(i)
      BY <1>1, <2>2 DEF Counts
    <3> QED BY <2>1, <3>1, <3>2, <3>3 DEF TurnInv
  <2>4. dist' = "collecting" => todo' = Thread
    BY <2>1 DEF TurnInv
  <2> QED BY <1>1, <2>1, <2>2, <2>3, <2>4 DEF TurnInv
<1> QED BY <1>1, <1>4, <1>5 DEF DataInv

\* Progress counts the stages.
LEMMA ProgressType ==
  ASSUME PairInv, NEW i \in Thread
  PROVE  Progress(i) \in 0..7
BY Stages DEF PairInv, Progress

\* A step of one worker within a turn: it has to account for its own buffers
\* and pixels, and for the counts of every block.
LEMMA WorkerMoves ==
  ASSUME PairInv, DataInv, PairInv', turning, TurnInv, todo = Thread,
         NEW i \in Thread, NEW s \in 1..7,
         UNCHANGED <<dist, front, turning, todo, count, turn>>, matrix' = matrix,
         DataTypeOK', Progress(i)' = s, Buffers(i, s)', Pixels(i, s)',
         \A j \in Thread : worker'[j] # "working" => stage'[j] = DoneStage,
         \A j \in Thread : j # i =>
           /\ Progress(j)' = Progress(j)
           /\ flipping'[j] = flipping[j] /\ unsafe'[j] = unsafe[j] /\ diff'[j] = diff[j]
           /\ \A c \in CellsOf(Blocks[j]) : c \in nextMatrix.pixels' <=> c \in nextMatrix.pixels,
         \A j \in Thread : Progress(j)' > CleanUpStage => Counts(j)'
  PROVE  DataInv'
<1>1. P' = P /\ Merged' = Merged
  BY DEF P, Merged
<1>2. \A j, r : Checked(j, r)' = Checked(j, r) /\ Edges(j, r)' = Edges(j, r)
  BY DEF Checked, Edges, Region
<1>3. ASSUME NEW j \in Thread, j # i
      PROVE  /\ Progress(j)' > 0 => Buffers(j, Progress(j))'
             /\ Pixels(j, Progress(j))'
  <2>1. Progress(j)' = Progress(j) /\ Progress(j) \in 0..7
    BY <1>3, ProgressType
  <2>2. Progress(j) > 0 => Buffers(j, Progress(j))
    BY DEF TurnInv
  <2>3. Pixels(j, Progress(j)) /\ Checked(j, Progress(j)) \subseteq CellsOf(Blocks[j])
    BY <2>1, CheckedGrows DEF TurnInv
  <2>4. Progress(j)' > 0 => Buffers(j, Progress(j))'
    BY <1>1, <1>2, <1>3, <2>1, <2>2 DEF Buffers
  <2>5. Pixels(j, Progress(j))'
    BY <1>1, <1>2, <1>3, <2>1, <2>3 DEF Pixels
  <2> QED BY <2>4, <2>5
<1>4. \A j \in Thread : /\ Progress(j)' > 0 => Buffers(j, Progress(j))'
                        /\ Pixels(j, Progress(j))'
                        /\ Progress(j)' > CleanUpStage => Counts(j)'
  BY <1>3
<1>5. TurnInv'
  BY <1>1, <1>4 DEF TurnInv
<1> QED BY <1>1, <1>5 DEF DataInv

------------------------------------------------------------------------------
(* The workers' steps                                                        *)

\* The buffers of the last turn are forgotten when the next one starts.
LEMMA EnterLoopStep ==
  ASSUME BarrierInv, PairInv, DataInv, PairInv', NEW i \in Thread, EnterLoop(i)
  PROVE  DataInv'
<1>1. /\ worker[i] = "checking" /\ worker[i] \in Standing(i) /\ dist \in DistState
      /\ worker \in [Thread -> WorkerState] /\ (running <=> dist # "stopped")
      /\ stage \in [Thread -> CleanUpStage..DoneStage]
  BY DEF EnterLoop, CheckRunning, Move, BarrierInv, BarrierTypeOK, PhaseInv, PairInv
<1>2. dist \notin {"spawning", "awaiting", "exclusive"}
  BY <1>1, NAssumption DEF BarrierInv, BarrierTypeOK, Standing, Parked, Thread
<1>3. UNCHANGED <<dist, got, buf, front, turning, todo, count, turn, wfront>>
  BY DEF EnterLoop, CheckRunning
<1>4. CASE ~running
  <2>1. ~turning
    BY <1>1, <1>4 DEF PairInv
  <2>2. UNCHANGED <<stage, flipping, unsafe, diff>> /\ worker' = [worker EXCEPT ![i] = "exited"]
    BY <1>4 DEF EnterLoop, CheckRunning, Move
  <2>3. \A j \in Thread : worker'[j] # "working" => stage'[j] = DoneStage
    BY <1>1, <2>2 DEF DataInv
  <2> QED BY <1>3, <2>1, <2>2, <2>3, DataStays
<1>5. CASE running
  <2>1. dist = "collecting" /\ i \notin got
    BY <1>1, <1>2, <1>5 DEF DistState, Standing, Parked
  <2>2. turning /\ TurnInv /\ todo = Thread
    BY <2>1 DEF PairInv, DataInv, TurnInv
  <2>3. /\ stage' = [stage EXCEPT ![i] = 1] /\ flipping' = [flipping EXCEPT ![i] = {}]
        /\ unsafe' = [unsafe EXCEPT ![i] = {}] /\ diff' = [diff EXCEPT ![i] = 0]
        /\ worker' = [worker EXCEPT ![i] = "working"]
    BY <1>5 DEF EnterLoop, CheckRunning, Move, CleanUpStage
  <2>4. ~Swapped(i) /\ \A j \in Thread : Swapped(j)' <=> Swapped(j)
    BY <1>1, <1>3, <2>1, <2>3 DEF Swapped
  <2>5. Progress(i) = 0 /\ Progress(i)' = 1 /\ \A j \in Thread : j # i => Progress(j)' = Progress(j)
    BY <1>1, <2>3, <2>4 DEF Progress
  <2>6. matrix' = matrix /\ nextMatrix' = nextMatrix /\ P' = P
    BY <1>3 DEF matrix, nextMatrix, P
  <2>7. DataTypeOK'
    BY <1>3, <2>3 DEF DataInv, DataTypeOK, CleanUpStage, DoneStage
  <2>8. Checked(i, 1)' = {} /\ Edges(i, 1)' = {}
    <3>1. Checked(i, 1)' = Checked(i, 1) /\ Edges(i, 1)' = Edges(i, 1)
      BY DEF Checked, Edges, Region
    <3> QED BY <3>1, CheckedGrows
  <2>9. Buffers(i, 1)'
    <3>1. flipping'[i] = {} /\ unsafe'[i] = {} /\ diff'[i] = 0
      BY <2>3 DEF DataInv, DataTypeOK
    <3>2. Net(P, {}) = 0
      <4>1. Cardinality({} \ P) = 0 /\ Cardinality({} \cap P) = 0
        BY FS_EmptySet
      <4> QED BY <4>1 DEF Net
    <3> QED BY <2>6, <2>8, <3>1, <3>2, FlipsSplit DEF Buffers
  <2>10. Pixels(i, 1)'
    BY <2>8 DEF Pixels
  <2>11. \A j \in Thread : worker'[j] # "working" => stage'[j] = DoneStage
    BY <1>1, <2>3 DEF DataInv
  <2>12. Applied' = Applied
    <3>1. \A j \in Thread : Progress(j)' > SafeStage <=> Progress(j) > SafeStage
      BY <2>5, Stages
    <3> QED BY <1>3, <3>1 DEF Applied, Region, Edges
  <2>13. \A j \in Thread : Progress(j)' > CleanUpStage => Counts(j)'
    <3> TAKE j \in Thread
    <3>1. Progress(j)' > CleanUpStage => Progress(j) > CleanUpStage
      BY <2>5, Stages
    <3>2. Progress(j) > CleanUpStage => Counts(j)
      BY <2>2 DEF TurnInv
    <3>3. Counts(j) => Counts(j)'
      BY <2>6, <2>12 DEF Counts
    <3> QED BY <3>1, <3>2, <3>3
  <2>14. \A j \in Thread : j # i =>
           /\ Progress(j)' = Progress(j)
           /\ flipping'[j] = flipping[j] /\ unsafe'[j] = unsafe[j] /\ diff'[j] = diff[j]
           /\ \A c \in CellsOf(Blocks[j]) : c \in nextMatrix.pixels' <=> c \in nextMatrix.pixels
    BY <2>3, <2>5, <2>6
  <2>15. 1 \in 1..7
    OBVIOUS
  <2> QED BY <1>3, <2>2, <2>5, <2>6, <2>7, <2>9, <2>10, <2>11, <2>13, <2>14, <2>15, WorkerMoves
<1> QED BY <1>4, <1>5

\* The facts the three kinds of loops over a region share.
LEMMA LoopFacts ==
  ASSUME BarrierInv, PairInv, DataInv, NEW i \in Thread, worker[i] = "working",
         NEW m \in Matrix, WriteNext(i, m), stage[i] # DoneStage
  PROVE  /\ UNCHANGED <<barrierVars, front, wfront, turning, todo, count, turn>>
         /\ matrix' = matrix /\ P' = P /\ nextMatrix' = m
         /\ buf' \in [0..1 -> Matrix]
         /\ stage[i] \in 1..6 /\ Progress(i) = stage[i] /\ Progress(i)' = stage[i] + 1
         /\ stage' \in [Thread -> CleanUpStage..DoneStage]
         /\ \A j \in Thread : j # i => Progress(j)' = Progress(j)
         /\ \A j \in Thread : worker'[j] # "working" => stage'[j] = DoneStage
<1>1. UNCHANGED <<barrierVars, front, wfront, turning, todo, count, turn>>
  BY DEF WriteNext
<1>2. wfront[i] = front /\ ~Swapped(i) /\ Progress(i) = stage[i]
  BY WorkingInTurn
<1>3. buf' = [buf EXCEPT ![1 - front] = m] /\ buf \in [0..1 -> Matrix]
  BY <1>2 DEF WriteNext, DataInv, DataTypeOK
<1>4. matrix' = matrix /\ P' = P /\ nextMatrix' = m /\ buf' \in [0..1 -> Matrix]
  BY <1>1, <1>3, DataTypes DEF matrix, nextMatrix, P
<1>5. stage \in [Thread -> 1..7] /\ stage' = [stage EXCEPT ![i] = stage[i] + 1]
  BY Stages DEF WriteNext, PairInv
<1>6. stage[i] \in 1..6 /\ stage' \in [Thread -> 1..7] /\ stage'[i] = stage[i] + 1
      /\ \A j \in Thread : j # i => stage'[j] = stage[j]
  BY <1>5, Stages
<1>7. \A j \in Thread : Swapped(j)' <=> Swapped(j)
  BY <1>1 DEF Swapped, barrierVars
<1>8. Progress(i)' = stage[i] + 1 /\ \A j \in Thread : j # i => Progress(j)' = Progress(j)
  BY <1>1, <1>2, <1>6, <1>7 DEF Progress, barrierVars
<1>9. \A j \in Thread : worker'[j] # "working" => stage'[j] = DoneStage
  BY <1>1, <1>6 DEF DataInv, barrierVars
<1> QED BY <1>1, <1>2, <1>4, <1>6, <1>8, <1>9, Stages

\* While workers evaluate, no flip was applied next to a block whose safe
\* region was not checked: other workers' safe flips end inside their blocks.
LEMMA NothingAppliedNearby ==
  ASSUME TurnInv, todo = Thread, NEW i \in Thread, ~(Progress(i) > SafeStage),
         NEW c \in CellsOf(Blocks[i])
  PROVE  \A o \in Offset : getSurrounding[c][o] \notin Flips(matrix, Applied)
<1> SUFFICES ASSUME NEW o \in Offset, getSurrounding[c][o] \in Applied PROVE FALSE
  BY FlipsSplit
<1> DEFINE g == getSurrounding[c][o]
<1>1. c \in Cell /\ g \in Cell
  BY SurroundingIsCell DEF CellsOf, Rect
<1>2. PICK j \in Thread : Progress(j) > SafeStage /\ g \in Region(j, SafeStage)
  BY DEF Applied
<1>3. g \in SafeRegion(Blocks[j])
  BY <1>2, Stages DEF Region
<1>4. getSurrounding[g][Opposite(o)] \in CellsOf(Blocks[j])
  BY <1>3, SafeNeighbours, OppositeIsOffset
<1>5. getSurrounding[g][Opposite(o)] = c
  BY <1>1, WayBack
<1> QED BY <1>2, <1>4, <1>5, BlocksTile

\* The counts a worker copies from the current matrix are those of its block.
LEMMA CleanUpStep ==
  ASSUME BarrierInv, PairInv, DataInv, PairInv', NEW i \in Thread, CleanUp(i)
  PROVE  DataInv'
<1> DEFINE m == CopyCounts(matrix, nextMatrix, CellsOf(Blocks[i]))
<1>1. worker[i] = "working" /\ stage[i] = 1 /\ UNCHANGED <<flipping, unsafe, diff>>
  BY DEF CleanUp, InStage, CleanUpStage
<1>2. turning /\ TurnInv /\ todo = Thread /\ current(i) = matrix /\ next(i) = nextMatrix
  BY <1>1, WorkingInTurn
<1>3. m \in Matrix /\ m.pixels = nextMatrix.pixels
      /\ \A c \in Cell : m.counts[c] = IF c \in CellsOf(Blocks[i]) THEN matrix.counts[c]
                                       ELSE nextMatrix.counts[c]
  BY DataTypes DEF CopyCounts, Matrix
<1>4. WriteNext(i, m)
  BY <1>2, Stages DEF CleanUp, Region
<1> HIDE DEF m
<1>5. /\ UNCHANGED <<barrierVars, front, wfront, turning, todo, count, turn>>
      /\ matrix' = matrix /\ P' = P /\ nextMatrix' = m
      /\ buf' \in [0..1 -> Matrix]
      /\ Progress(i) = 1 /\ Progress(i)' = 2
      /\ stage' \in [Thread -> CleanUpStage..DoneStage]
      /\ \A j \in Thread : j # i => Progress(j)' = Progress(j)
      /\ \A j \in Thread : worker'[j] # "working" => stage'[j] = DoneStage
  BY <1>1, <1>3, <1>4, LoopFacts, Stages
<1>6. DataTypeOK'
  BY <1>1, <1>5 DEF DataInv, DataTypeOK
<1>7. \A s \in {1, 2} : Checked(i, s)' = {} /\ Checked(i, s) = {} /\ Edges(i, s)' = {} /\ Edges(i, s) = {}
  <2>1. \A s : Checked(i, s)' = Checked(i, s) /\ Edges(i, s)' = Edges(i, s)
    BY DEF Checked, Edges, Region
  <2> QED BY <2>1, CheckedGrows
<1>8. Buffers(i, 2)'
  <2>1. Buffers(i, 1)
    BY <1>2, <1>5 DEF TurnInv
  <2> QED BY <1>1, <1>5, <1>7, <2>1 DEF Buffers
<1>9. Pixels(i, 2)'
  BY <1>7 DEF Pixels
<1>10. Applied' = Applied
  <2>1. \A j \in Thread : Progress(j)' > SafeStage <=> Progress(j) > SafeStage
    BY <1>5, Stages
  <2> QED BY <1>5, <2>1 DEF Applied, Region, Edges
<1>11. \A j \in Thread : Progress(j)' > CleanUpStage => Counts(j)'
  <2> SUFFICES ASSUME NEW j \in Thread, Progress(j)' > CleanUpStage, NEW c \in CellsOf(Blocks[j])
               PROVE  m.counts[c] = AliveAround(Flipped(P, Flips(matrix, Applied)), c)
    BY <1>5, <1>10 DEF Counts
  <2>1. c \in Cell
    BY DEF CellsOf, Rect
  <2>2. CASE j = i
    <3>1. AliveAround(Flipped(P, Flips(matrix, Applied)), c) = AliveAround(P, c)
      BY <1>2, <1>5, <2>1, <2>2, Stages, NothingAppliedNearby, FarAway
    <3> QED BY <1>3, <2>1, <2>2, <3>1, DataTypes DEF Exact, P
  <2>3. CASE j # i
    <3>1. Counts(j)
      BY <1>2, <1>5, <2>3 DEF TurnInv
    <3> QED BY <1>3, <2>1, <2>3, <3>1, BlocksTile DEF Counts
  <2> QED BY <2>2, <2>3
<1>12. \A j \in Thread : j # i =>
         /\ Progress(j)' = Progress(j)
         /\ flipping'[j] = flipping[j] /\ unsafe'[j] = unsafe[j] /\ diff'[j] = diff[j]
         /\ \A c \in CellsOf(Blocks[j]) : c \in nextMatrix.pixels' <=> c \in nextMatrix.pixels
  BY <1>1, <1>3, <1>5
<1> QED BY <1>2, <1>5, <1>6, <1>8, <1>9, <1>11, <1>12, WorkerMoves DEF barrierVars

\* What a worker's buffers and pixels hold when one more region was checked.
LEMMA RegionChecked ==
  ASSUME PairInv, DataInv, NEW i \in Thread, NEW s \in SafeStage..LastEdge,
         Buffers(i, s), Pixels(i, s), matrix' = matrix, P' = P,
         nextMatrix.pixels' = WrittenPixels(matrix, nextMatrix, Region(i, s)),
         Record(i, Region(i, s)), current(i) = matrix,
         unsafe'[i] = IF s = SafeStage THEN unsafe[i]
                      ELSE unsafe[i] \cup Flips(matrix, Region(i, s))
  PROVE  /\ Buffers(i, s + 1)' /\ Pixels(i, s + 1)'
         /\ flipping' \in [Thread -> SUBSET Cell] /\ diff' \in [Thread -> Int]
         /\ \A j \in Thread : j # i =>
              /\ flipping'[j] = flipping[j] /\ diff'[j] = diff[j]
              /\ \A c \in CellsOf(Blocks[j]) : c \in nextMatrix.pixels' <=> c \in nextMatrix.pixels
<1> DEFINE region == Region(i, s)
           F == Flips(matrix, region)
           A == Flips(matrix, Checked(i, s))
<1>1. /\ region \subseteq CellsOf(Blocks[i]) /\ region \in SUBSET Cell
      /\ Checked(i, s) \in SUBSET Cell
  BY RegionInBlock, Stages DEF CellsOf, Rect, Checked
<1>2. /\ Checked(i, s + 1)' = Checked(i, s) \cup region
      /\ Checked(i, s) \cap region = {}
      /\ Edges(i, s + 1)' = IF s = SafeStage THEN Edges(i, s) ELSE Edges(i, s) \cup region
  <2>1. Checked(i, s + 1)' = Checked(i, s + 1) /\ Edges(i, s + 1)' = Edges(i, s + 1)
    BY DEF Checked, Edges, Region
  <2>2. s = SafeStage => Edges(i, s + 1) = Edges(i, s)
    <3>1. Edges(i, 2) = {} /\ Edges(i, 3) = {}
      BY CheckedGrows
    <3> QED BY <3>1, Stages
  <2>3. s # SafeStage => s \in FirstEdge..LastEdge
    BY Stages
  <2>4. s \in FirstEdge..LastEdge => Edges(i, s + 1) = Edges(i, s) \cup region
    BY CheckedGrows
  <2>5. Checked(i, s + 1) = Checked(i, s) \cup region /\ Checked(i, s) \cap region = {}
    BY CheckedGrows
  <2> QED BY <2>1, <2>2, <2>3, <2>4, <2>5
<1>3. F \in SUBSET Cell /\ A \in SUBSET Cell /\ A \cap F = {} /\ P \in SUBSET Cell
      /\ Flips(matrix, Checked(i, s) \cup region) = A \cup F
      /\ Flips(matrix, Edges(i, s) \cup region) = Flips(matrix, Edges(i, s)) \cup F
  BY <1>1, <1>2, FlipsSplit, DataTypes
<1>4. flipping' = [flipping EXCEPT ![i] = @ \cup F]
      /\ diff' = [diff EXCEPT ![i] = @ + Net(P, F)]
  BY DEF Record, CountDiff, Net, P
<1>5. flipping \in [Thread -> SUBSET Cell] /\ diff \in [Thread -> Int] /\ Net(P, F) \in Int
  BY <1>3, NetCounts DEF DataInv, DataTypeOK
<1>6. flipping[i] = A /\ unsafe[i] = Flips(matrix, Edges(i, s)) /\ diff[i] = Net(P, A)
  BY DEF Buffers
<1> HIDE DEF F, A, region
<1>7. flipping'[i] = A \cup F /\ diff'[i] = Net(P, A) + Net(P, F)
  BY <1>4, <1>5, <1>6
<1>8. Net(P, A \cup F) = Net(P, A) + Net(P, F)
  BY <1>3, NetAdds
<1>9. unsafe'[i] = Flips(matrix, Edges(i, s + 1)')
  BY <1>2, <1>3, <1>6 DEF F, region
<1>10. Buffers(i, s + 1)'
  BY <1>2, <1>3, <1>7, <1>8, <1>9 DEF Buffers
<1>11. \A c \in Cell : c \in nextMatrix.pixels'
         <=> IF c \in region THEN c \in Flipped(P, Flips(matrix, Cell)) ELSE c \in nextMatrix.pixels
  BY <1>1, WrittenIsNext DEF region, P
<1>12. Pixels(i, s + 1)'
  BY <1>1, <1>2, <1>11 DEF Pixels
<1>13. \A j \in Thread : j # i =>
         \A c \in CellsOf(Blocks[j]) : c \in nextMatrix.pixels' <=> c \in nextMatrix.pixels
  <2> TAKE j \in Thread
  <2> HAVE j # i
  <2> TAKE c \in CellsOf(Blocks[j])
  <2>1. c \in Cell /\ c \notin region
    BY <1>1, BlocksTile DEF CellsOf, Rect
  <2> QED BY <1>11, <2>1
<1>14. flipping' \in [Thread -> SUBSET Cell] /\ diff' \in [Thread -> Int]
  BY <1>3, <1>4, <1>5
<1>15. \A j \in Thread : j # i => flipping'[j] = flipping[j] /\ diff'[j] = diff[j]
  BY <1>4, <1>5
<1> QED BY <1>10, <1>12, <1>13, <1>14, <1>15

\* The flips of the safe region are applied by the worker, to counts that no
\* other worker's flips reach.
LEMMA EvaluateSafeStep ==
  ASSUME BarrierInv, PairInv, DataInv, PairInv', NEW i \in Thread, EvaluateSafe(i)
  PROVE  DataInv'
<1> DEFINE region == Region(i, SafeStage)
           F == Flips(matrix, region)
           m == checkAndFlip(matrix, nextMatrix, region)
<1>1. worker[i] = "working" /\ stage[i] = SafeStage /\ unsafe' = unsafe
  BY DEF EvaluateSafe, InStage
<1>2. /\ turning /\ TurnInv /\ todo = Thread /\ current(i) = matrix /\ next(i) = nextMatrix
      /\ Progress(i) = SafeStage /\ Buffers(i, SafeStage) /\ Pixels(i, SafeStage)
  <2>1. /\ turning /\ TurnInv /\ todo = Thread /\ current(i) = matrix /\ next(i) = nextMatrix
        /\ Progress(i) = SafeStage
    BY <1>1, WorkingInTurn
  <2> QED BY <2>1, Stages DEF TurnInv
<1>3. WriteNext(i, m) /\ Record(i, region)
  BY <1>2 DEF EvaluateSafe
<1>4. /\ region \subseteq CellsOf(Blocks[i]) /\ region \in SUBSET Cell /\ F \in SUBSET Cell
      /\ P \in SUBSET Cell /\ Flips(matrix, Applied) \in SUBSET Cell
  BY RegionInBlock, Stages, FlipsSplit DEF CellsOf, Rect, DataInv, DataTypeOK, P, matrix,
     PairInv, Matrix, Applied, Flips
<1>5. m \in Matrix /\ m.pixels = WrittenPixels(matrix, nextMatrix, region)
      /\ m.counts = Bump(nextMatrix.counts, P, F)
  <2>1. Bump(nextMatrix.counts, P, F) \in [Cell -> Int]
    BY <1>4, DataTypes, BumpType
  <2>2. WrittenPixels(matrix, nextMatrix, region) \subseteq Cell
    BY <1>4, DataTypes DEF WrittenPixels, Matrix, Flips
  <2> QED BY <2>1, <2>2 DEF checkAndFlip, Matrix, P
<1> HIDE DEF m
<1>6. /\ UNCHANGED <<barrierVars, front, wfront, turning, todo, count, turn>>
      /\ matrix' = matrix /\ P' = P /\ nextMatrix' = m
      /\ buf' \in [0..1 -> Matrix]
      /\ Progress(i)' = 3
      /\ stage' \in [Thread -> CleanUpStage..DoneStage]
      /\ \A j \in Thread : j # i => Progress(j)' = Progress(j)
      /\ \A j \in Thread : worker'[j] # "working" => stage'[j] = DoneStage
  BY <1>1, <1>3, <1>5, LoopFacts, Stages
<1>7. nextMatrix.pixels' = WrittenPixels(matrix, nextMatrix, region)
  BY <1>5, <1>6
<1> HIDE DEF region, F
<1>8. /\ Buffers(i, 3)' /\ Pixels(i, 3)'
      /\ flipping' \in [Thread -> SUBSET Cell] /\ diff' \in [Thread -> Int]
      /\ \A j \in Thread : j # i =>
           /\ flipping'[j] = flipping[j] /\ diff'[j] = diff[j]
           /\ \A c \in CellsOf(Blocks[j]) : c \in nextMatrix.pixels' <=> c \in nextMatrix.pixels
  <2>1. SafeStage \in SafeStage..LastEdge /\ SafeStage + 1 = 3
    BY Stages
  <2> QED BY <1>1, <1>2, <1>3, <1>6, <1>7, <2>1, RegionChecked DEF region
<1>9. DataTypeOK'
  BY <1>1, <1>6, <1>8 DEF DataInv, DataTypeOK
<1>10. Applied' = Applied \cup region /\ Applied \cap region = {}
  <2>1. \A j \in Thread : Progress(j)' > SafeStage <=> Progress(j) > SafeStage \/ j = i
    BY <1>2, <1>6, Stages
  <2>2. \A c \in Cell : c \in Applied <=> \E j \in Thread : Progress(j) > SafeStage /\ c \in Region(j, SafeStage)
    BY <1>2 DEF Applied
  <2>3. \A c \in Cell : c \in Applied' <=> \E j \in Thread : Progress(j)' > SafeStage /\ c \in Region(j, SafeStage)
    BY <1>2, <1>6 DEF Applied, Region
  <2>4. Applied \subseteq Cell /\ Applied' \subseteq Cell
    BY DEF Applied
  <2>5. \A j \in Thread : Region(j, SafeStage) \subseteq CellsOf(Blocks[j])
    BY RegionInBlock, Stages
  <2>6. Applied \cap region = {}
    <3> SUFFICES ASSUME NEW c \in Cell, c \in Applied, c \in region PROVE FALSE
      BY <2>4
    <3>1. PICK j \in Thread : Progress(j) > SafeStage /\ c \in Region(j, SafeStage)
      BY <2>2
    <3>2. j # i
      BY <1>2, <3>1, Stages
    <3>3. c \in CellsOf(Blocks[i]) /\ c \in CellsOf(Blocks[j])
      BY <1>4, <2>5, <3>1
    <3> QED BY <3>2, <3>3, BlocksTile
  <2>7. Applied' = Applied \cup region
    BY <1>4, <2>1, <2>2, <2>3, <2>4 DEF region
  <2> QED BY <2>6, <2>7
<1>11. \A j \in Thread : Progress(j)' > CleanUpStage => Counts(j)'
  <2> SUFFICES ASSUME NEW j \in Thread, Progress(j)' > CleanUpStage, NEW c \in CellsOf(Blocks[j])
               PROVE  m.counts[c] = AliveAround(Flipped(P, Flips(matrix, Applied')), c)
    BY <1>6 DEF Counts
  <2>1. c \in Cell
    BY DEF CellsOf, Rect
  <2>2. Counts(j)
    BY <1>2, <1>6, Stages DEF TurnInv
  <2>3. nextMatrix.counts[c] = AliveAround(Flipped(P, Flips(matrix, Applied)), c)
    BY <2>2 DEF Counts
  <2>4. /\ Flips(matrix, Applied') = Flips(matrix, Applied) \cup F
        /\ Flips(matrix, Applied) \cap F = {}
    BY <1>10, FlipsSplit DEF F
  <2> QED BY <1>4, <1>5, <2>1, <2>3, <2>4, BumpMore
<1>12. \A j \in Thread : j # i => unsafe'[j] = unsafe[j]
  BY <1>1
<1>13. 3 \in 1..7
  OBVIOUS
<1> QED BY <1>2, <1>6, <1>8, <1>9, <1>11, <1>12, <1>13, WorkerMoves DEF barrierVars

\* The flips of a boundary are recorded for the distributor; no counts change.
LEMMA EvaluateEdgeStep ==
  ASSUME BarrierInv, PairInv, DataInv, PairInv', NEW i \in Thread, EvaluateEdge(i)
  PROVE  DataInv'
<1>0. PICK s \in {3, 4, 5, 6} : stage[i] = s
  BY Stages DEF EvaluateEdge, InStage
<1> DEFINE region == Region(i, s)
           m == checkAndFlipUnsafe(matrix, nextMatrix, region)
<1>1. worker[i] = "working" /\ stage[i] = s /\ s \in {3, 4, 5, 6}
  BY <1>0 DEF EvaluateEdge, InStage
<1>2. /\ turning /\ TurnInv /\ todo = Thread /\ current(i) = matrix /\ next(i) = nextMatrix
      /\ Progress(i) = s /\ Buffers(i, s) /\ Pixels(i, s)
  <2>1. /\ turning /\ TurnInv /\ todo = Thread /\ current(i) = matrix /\ next(i) = nextMatrix
        /\ Progress(i) = s
    BY <1>1, WorkingInTurn
  <2> QED BY <1>1, <2>1 DEF TurnInv
<1>3. /\ WriteNext(i, m) /\ Record(i, region)
      /\ unsafe' = [unsafe EXCEPT ![i] = @ \cup Flips(matrix, region)]
  BY <1>1, <1>2 DEF EvaluateEdge
<1>4. region \subseteq CellsOf(Blocks[i]) /\ region \in SUBSET Cell
      /\ Flips(matrix, region) \in SUBSET Cell
  BY <1>1, RegionInBlock, Stages, FlipsSplit DEF CellsOf, Rect
<1>5. m \in Matrix /\ m.pixels = WrittenPixels(matrix, nextMatrix, region)
      /\ m.counts = nextMatrix.counts
  <2>1. WrittenPixels(matrix, nextMatrix, region) \subseteq Cell
    BY <1>4, DataTypes DEF WrittenPixels, Matrix, Flips
  <2> QED BY <2>1, DataTypes DEF checkAndFlipUnsafe, Matrix
<1> HIDE DEF m
<1>6. /\ UNCHANGED <<barrierVars, front, wfront, turning, todo, count, turn>>
      /\ matrix' = matrix /\ P' = P /\ nextMatrix' = m
      /\ buf' \in [0..1 -> Matrix]
      /\ Progress(i)' = s + 1
      /\ stage' \in [Thread -> CleanUpStage..DoneStage]
      /\ \A j \in Thread : j # i => Progress(j)' = Progress(j)
      /\ \A j \in Thread : worker'[j] # "working" => stage'[j] = DoneStage
  BY <1>1, <1>3, <1>5, LoopFacts, Stages
<1>7. nextMatrix.pixels' = WrittenPixels(matrix, nextMatrix, region)
  BY <1>5, <1>6
<1>8. unsafe' \in [Thread -> SUBSET Cell] /\ unsafe'[i] = unsafe[i] \cup Flips(matrix, region)
      /\ \A j \in Thread : j # i => unsafe'[j] = unsafe[j]
  BY <1>3, <1>4 DEF DataInv, DataTypeOK
<1>9. s \in SafeStage..LastEdge /\ s # SafeStage /\ s + 1 \in 1..7
  BY <1>1, Stages
<1>10. /\ Buffers(i, s + 1)' /\ Pixels(i, s + 1)'
       /\ flipping' \in [Thread -> SUBSET Cell] /\ diff' \in [Thread -> Int]
       /\ \A j \in Thread : j # i =>
            /\ flipping'[j] = flipping[j] /\ diff'[j] = diff[j]
            /\ \A c \in CellsOf(Blocks[j]) : c \in nextMatrix.pixels' <=> c \in nextMatrix.pixels
  <2>1. unsafe'[i] = IF s = SafeStage THEN unsafe[i] ELSE unsafe[i] \cup Flips(matrix, Region(i, s))
    BY <1>8, <1>9
  <2>2. current(i) = matrix /\ Buffers(i, s) /\ Pixels(i, s) /\ Record(i, Region(i, s))
        /\ nextMatrix.pixels' = WrittenPixels(matrix, nextMatrix, Region(i, s))
    BY <1>2, <1>3, <1>7
  <2>3. matrix' = matrix /\ P' = P /\ s \in SafeStage..LastEdge
    BY <1>6, <1>9
  <2> QED BY <2>1, <2>2, <2>3, RegionChecked
<1>11. DataTypeOK'
  BY <1>6, <1>8, <1>10 DEF DataInv, DataTypeOK
<1>12. Applied' = Applied
  <2>1. \A j \in Thread : Progress(j)' > SafeStage <=> Progress(j) > SafeStage
    BY <1>1, <1>2, <1>6, Stages
  <2> QED BY <1>6, <2>1 DEF Applied, Region, Edges
<1>13. \A j \in Thread : Progress(j)' > CleanUpStage => Counts(j)'
  <2> TAKE j \in Thread
  <2>1. Progress(j)' > CleanUpStage => Counts(j)
    BY <1>1, <1>2, <1>6, Stages DEF TurnInv
  <2> QED BY <1>5, <1>6, <1>12, <2>1 DEF Counts
<1>14. /\ UNCHANGED <<dist, front, turning, todo, count, turn>>
       /\ turning /\ TurnInv /\ todo = Thread /\ s + 1 \in 1..7
       /\ matrix' = matrix /\ Progress(i)' = s + 1
       /\ \A j \in Thread : worker'[j] # "working" => stage'[j] = DoneStage
  BY <1>2, <1>6, <1>9 DEF barrierVars
<1>15. \A j \in Thread : j # i =>
         /\ Progress(j)' = Progress(j)
         /\ flipping'[j] = flipping[j] /\ unsafe'[j] = unsafe[j] /\ diff'[j] = diff[j]
         /\ \A c \in CellsOf(Blocks[j]) : c \in nextMatrix.pixels' <=> c \in nextMatrix.pixels
  BY <1>6, <1>8, <1>10
<1> QED BY <1>10, <1>11, <1>13, <1>14, <1>15, WorkerMoves

\* A worker that swaps has come to the end of its loop, and stays there.
LEMMA SwapStep ==
  ASSUME BarrierInv, PairInv, DataInv, PairInv', NEW i \in Thread, Swap(i)
  PROVE  DataInv'
<1>1. /\ worker[i] = "working" /\ stage[i] = DoneStage /\ worker' = [worker EXCEPT ![i] = "worked"]
      /\ UNCHANGED <<buf, front, stage, flipping, unsafe, diff, turning, todo, count, turn, dist, got>>
  BY DEF Swap, InStage, FinishWork, Move
<1>2. worker \in [Thread -> WorkerState]
  BY DEF BarrierInv, BarrierTypeOK
<1>3. ~Swapped(i) /\ turning
  BY <1>1, WorkingInTurn
<1>4. \A j \in Thread : Progress(j)' = Progress(j)
  BY <1>1, <1>2, <1>3 DEF Progress, Swapped
<1>5. \A j \in Thread : worker'[j] # "working" => stage'[j] = DoneStage
  BY <1>1, <1>2 DEF DataInv
<1> QED BY <1>1, <1>4, <1>5, DataStays

\* The barrier's own steps leave everybody's progress as it is.
LEMMA HandshakeStep ==
  ASSUME BarrierInv, PairInv, DataInv, PairInv', NEW i \in Thread, Handshake(i)
  PROVE  DataInv'
<1>1. UNCHANGED <<buf, front, stage, flipping, unsafe, diff, turning, todo, count, turn>>
  BY DEF Handshake, dataVars
<1>2. worker \in [Thread -> WorkerState] /\ got \subseteq Thread /\ worker[i] \in Standing(i)
      /\ dist \in DistState
  BY DEF BarrierInv, BarrierTypeOK, PhaseInv
<1>3. \E from, to \in WorkerState \ {"working"} :
        worker[i] = from /\ worker' = [worker EXCEPT ![i] = to]
  BY DEF Handshake, AcquireLock, Park, Resume, Greet, Report, Move, WorkerState
<1>4. \A j \in Thread : worker'[j] = "working" <=> worker[j] = "working"
  BY <1>2, <1>3
<1>5. turning => /\ dist' = dist \/ dist' = "exclusive"
                 /\ \A j \in Thread : Swapped(j)' <=> Swapped(j)
  <2> SUFFICES ASSUME turning PROVE /\ dist' = dist \/ dist' = "exclusive"
                                    /\ \A j \in Thread : Swapped(j)' <=> Swapped(j)
    OBVIOUS
  <2>1. dist \in {"collecting", "exclusive"}
    BY DEF PairInv
  <2>2. CASE AcquireLock(i)
    BY <1>1, <1>2, <2>1, <2>2 DEF AcquireLock, Move, Swapped
  <2>3. CASE Park(i)
    BY <1>1, <1>2, <2>1, <2>3 DEF Park, Move, Swapped
  <2>4. CASE Resume(i)
    BY <1>1, <1>2, <2>1, <2>4 DEF Resume, Move, Swapped
  <2>5. CASE Greet(i)
    BY <2>1, <2>5 DEF Greet
  <2>6. CASE Report(i)
    <3>1. /\ dist = "collecting" /\ worker[i] = "reporting"
          /\ worker' = [worker EXCEPT ![i] = "parking"] /\ got' = got \cup {i}
          /\ dist' = IF got' = Thread THEN "exclusive" ELSE "collecting"
      BY <2>6 DEF Report, Move
    <3>2. \A j \in Thread : j \in got' <=> j \in got \/ j = i
      BY <3>1
    <3>3. \A j \in Thread : worker'[j] \in {"worked", "reporting"}
                              <=> worker[j] \in {"worked", "reporting"} /\ j # i
      BY <1>2, <3>1
    <3>4. CASE got' = Thread
      BY <1>1, <3>1, <3>2, <3>3, <3>4 DEF Swapped
    <3>5. CASE got' # Thread
      BY <1>1, <3>1, <3>2, <3>3, <3>5 DEF Swapped
    <3> QED BY <3>4, <3>5
  <2> QED BY <2>2, <2>3, <2>4, <2>5, <2>6 DEF Handshake
<1>6. turning => \A j \in Thread : Progress(j)' = Progress(j)
  BY <1>1, <1>4, <1>5 DEF Progress
<1>7. \A j \in Thread : worker'[j] # "working" => stage'[j] = DoneStage
  BY <1>1, <1>4 DEF DataInv
<1> QED BY <1>1, <1>5, <1>6, <1>7, DataStays

------------------------------------------------------------------------------
(* The distributor's steps                                                   *)

\* While results are merged, every worker has come through its loop.
LEMMA AllDone ==
  ASSUME PairInv, DataInv, turning, dist = "exclusive", NEW j \in Thread
  PROVE  /\ TurnInv /\ Progress(j) = DoneStage
         /\ Buffers(j, DoneStage) /\ Pixels(j, DoneStage) /\ Counts(j)
<1>1. TurnInv
  BY DEF DataInv
<1>2. Progress(j) = DoneStage
  BY DEF Progress, Swapped
<1>3. DoneStage > 0 /\ DoneStage > CleanUpStage
  BY Stages
<1> QED BY <1>1, <1>2, <1>3 DEF TurnInv

\* Merging a result applies the flips of one boundary and counts one block.
LEMMA MergeResultStep ==
  ASSUME PairInv, DataInv, NEW i \in Thread, MergeResult(i)
  PROVE  DataInv'
<1> DEFINE E == Edges(i, DoneStage)
           B == CellsOf(Blocks[i])
           F == Flips(matrix, E)
           G == Flips(matrix, B)
<1>1. /\ dist = "exclusive" /\ turning /\ i \in todo /\ todo' = todo \ {i}
      /\ count' = count + diff[i]
      /\ buf' = [buf EXCEPT ![1 - front].counts = Bump(@, matrix.pixels, unsafe[i])]
      /\ UNCHANGED <<barrierVars, front, wfront, stage, flipping, unsafe, diff, turning, turn>>
  BY DEF MergeResult
<1>2. /\ TurnInv
      /\ \A j \in Thread : Progress(j) = DoneStage /\ Buffers(j, DoneStage)
                           /\ Pixels(j, DoneStage) /\ Counts(j)
  BY <1>1, AllDone
<1>3. \A j \in Thread : Progress(j)' = DoneStage
  BY <1>1 DEF Progress, Swapped, barrierVars
<1>4. Checked(i, DoneStage) = B /\ E \subseteq B /\ B \in SUBSET Cell /\ E \in SUBSET Cell
      /\ Region(i, SafeStage) \cap E = {}
  BY CheckedGrows, Stages DEF CellsOf, Rect
<1>5. unsafe[i] = F /\ diff[i] = Net(P, G)
  BY <1>2, <1>4 DEF Buffers
<1>6. /\ P \in SUBSET Cell /\ F \in SUBSET Cell /\ G \in SUBSET Cell
      /\ Flips(matrix, Applied) \in SUBSET Cell /\ Flips(matrix, Merged) \in SUBSET Cell
  BY <1>4, DataTypes DEF Applied, Merged
<1> HIDE DEF F, G
<1>7. Bump(nextMatrix.counts, P, F) \in [Cell -> Int]
  BY <1>6, DataTypes, BumpType
<1>8. /\ matrix' = matrix /\ P' = P /\ buf' \in [0..1 -> Matrix]
      /\ nextMatrix' = [nextMatrix EXCEPT !.counts = Bump(nextMatrix.counts, P, F)]
  <2>1. buf \in [0..1 -> Matrix]
    BY DEF DataInv, DataTypeOK
  <2>2. buf' = [buf EXCEPT ![1 - front] = [nextMatrix EXCEPT !.counts = Bump(nextMatrix.counts, P, F)]]
    BY <1>1, <1>5 DEF nextMatrix, P
  <2>3. [nextMatrix EXCEPT !.counts = Bump(nextMatrix.counts, P, F)] \in Matrix
    BY <1>7, DataTypes DEF Matrix
  <2> QED BY <1>1, <2>1, <2>2, <2>3, DataTypes DEF matrix, nextMatrix, P
<1>9. nextMatrix.pixels' = nextMatrix.pixels /\ nextMatrix.counts' = Bump(nextMatrix.counts, P, F)
  BY <1>8, DataTypes DEF Matrix
<1>10. \A j, r : Checked(j, r)' = Checked(j, r) /\ Edges(j, r)' = Edges(j, r)
  BY DEF Checked, Edges, Region
<1>11. DataTypeOK'
  BY <1>1, <1>5, <1>6, <1>8, NetCounts DEF DataInv, DataTypeOK
<1>12. Applied' = Applied \cup E /\ Applied \cap E = {}
  <2>1. \A j \in Thread : Progress(j) > SafeStage /\ Progress(j)' > SafeStage
    BY <1>2, <1>3, Stages
  <2>2. Applied' = Applied \cup E
    BY <1>1, <1>4, <1>10, <2>1 DEF Applied, Region
  <2>3. Applied \cap E = {}
    <3> SUFFICES ASSUME NEW c \in Cell, c \in Applied, c \in E PROVE FALSE
      BY <1>4
    <3>1. PICK j \in Thread : c \in Region(j, SafeStage) \/ (j \notin todo /\ c \in Edges(j, DoneStage))
      BY DEF Applied
    <3>2. c \in CellsOf(Blocks[j]) /\ c \in B
      <4>1. Region(j, SafeStage) \subseteq CellsOf(Blocks[j])
        BY RegionInBlock, Stages
      <4>2. Edges(j, DoneStage) \subseteq CellsOf(Blocks[j])
        BY CheckedGrows, Stages
      <4> QED BY <1>4, <3>1, <4>1, <4>2
    <3>3. j = i
      BY <3>2, BlocksTile
    <3> QED BY <1>1, <1>4, <3>1, <3>3
  <2> QED BY <2>2, <2>3
<1>13. Merged' = Merged \cup B /\ Merged \cap B = {}
  BY <1>1, <1>4, BlocksTile DEF Merged
<1>14. Flips(matrix, Applied') = Flips(matrix, Applied) \cup F /\ Flips(matrix, Applied) \cap F = {}
  BY <1>12, FlipsSplit DEF F
<1>15. Flips(matrix, Merged') = Flips(matrix, Merged) \cup G /\ Flips(matrix, Merged) \cap G = {}
  BY <1>13, FlipsSplit DEF G
<1>16. \A j \in Thread : Counts(j)'
  <2> SUFFICES ASSUME NEW j \in Thread, NEW c \in CellsOf(Blocks[j])
               PROVE  nextMatrix.counts'[c] = AliveAround(Flipped(P, Flips(matrix, Applied')), c)
    BY <1>8 DEF Counts
  <2>1. c \in Cell
    BY DEF CellsOf, Rect
  <2>2. nextMatrix.counts[c] = AliveAround(Flipped(P, Flips(matrix, Applied)), c)
    BY <1>2 DEF Counts
  <2> QED BY <1>6, <1>9, <1>14, <2>1, <2>2, BumpMore
<1>17. count' = Cardinality(Flipped(P, Flips(matrix, Merged')))
  <2>1. count = Cardinality(Flipped(P, Flips(matrix, Merged)))
    BY <1>2 DEF TurnInv
  <2>2. Net(P, Flips(matrix, Merged) \cup G) = Net(P, Flips(matrix, Merged)) + Net(P, G)
    BY <1>6, <1>15, NetAdds
  <2>3. /\ Cardinality(Flipped(P, Flips(matrix, Merged))) = Cardinality(P) + Net(P, Flips(matrix, Merged))
        /\ Cardinality(P) \in Nat /\ Net(P, Flips(matrix, Merged)) \in Int /\ Net(P, G) \in Int
    BY <1>6, NetCounts
  <2>4. Cardinality(Flipped(P, Flips(matrix, Merged) \cup G))
          = Cardinality(P) + Net(P, Flips(matrix, Merged) \cup G)
    BY <1>6, NetCounts
  <2> QED BY <1>1, <1>5, <1>15, <2>1, <2>2, <2>3, <2>4
<1>18. \A j \in Thread : Buffers(j, DoneStage)' /\ Pixels(j, DoneStage)'
  BY <1>1, <1>2, <1>8, <1>9, <1>10 DEF Buffers, Pixels
<1>19. TurnInv'
  BY <1>1, <1>2, <1>3, <1>8, <1>16, <1>17, <1>18 DEF TurnInv, barrierVars
<1> QED BY <1>1, <1>8, <1>11, <1>19 DEF DataInv, barrierVars

\* When all results are merged, the next matrix holds the next generation.
LEMMA TurnDone ==
  ASSUME PairInv, DataInv, turning, dist = "exclusive", todo = {}
  PROVE  /\ nextMatrix.pixels = Generation(P) /\ Exact(nextMatrix)
         /\ count = Cardinality(nextMatrix.pixels) /\ turn < Turns
<1>1. /\ TurnInv
      /\ \A j \in Thread : Progress(j) = DoneStage /\ Pixels(j, DoneStage) /\ Counts(j)
  BY AllDone, NAssumption DEF DataInv
<1>2. \A c \in Cell : \E j \in Thread : c \in CellsOf(Blocks[j])
  BY BlocksTile
<1>3. \A j \in Thread : /\ Checked(j, DoneStage) = CellsOf(Blocks[j])
                        /\ Checked(j, DoneStage) = Region(j, SafeStage) \cup Edges(j, DoneStage)
  BY CheckedGrows
<1>4. \A j \in Thread : Progress(j) > SafeStage
  BY <1>1, Stages
<1>5. Applied = Cell
  BY <1>2, <1>3, <1>4 DEF Applied
<1>6. Merged = Cell
  BY <1>2 DEF Merged
<1>7. nextMatrix.pixels \subseteq Cell /\ Flipped(P, Flips(matrix, Cell)) \subseteq Cell
  BY DataTypes DEF Matrix, Flipped
<1>8. nextMatrix.pixels = Flipped(P, Flips(matrix, Cell))
  <2> SUFFICES ASSUME NEW c \in Cell
               PROVE  c \in nextMatrix.pixels <=> c \in Flipped(P, Flips(matrix, Cell))
    BY <1>7
  <2>1. PICK j \in Thread : c \in CellsOf(Blocks[j])
    BY <1>2
  <2> QED BY <1>1, <1>3, <2>1 DEF Pixels
<1>9. \A c \in Cell : nextMatrix.counts[c] = AliveAround(nextMatrix.pixels, c)
  BY <1>1, <1>2, <1>5, <1>8 DEF Counts
<1>10. Flipped(P, Flips(matrix, Cell)) = Generation(P)
  BY DataTypes, FlipsAreGeneration DEF P
<1> QED BY <1>1, <1>6, <1>8, <1>9, <1>10 DEF Exact, TurnInv

\* The swap makes the next matrix the matrix.
LEMMA EndTurnStep ==
  ASSUME PairInv, DataInv, EndTurn
  PROVE  /\ DataInv'
         /\ P' = Generation(P) /\ turn' = turn + 1 /\ turn < Turns /\ dist' = dist /\ dist = "exclusive"
<1>1. /\ dist = "exclusive" /\ turning /\ todo = {} /\ front' = 1 - front /\ turn' = turn + 1
      /\ turning' = FALSE
      /\ UNCHANGED <<barrierVars, buf, wfront, stage, flipping, unsafe, diff, todo, count>>
  BY DEF EndTurn
<1>2. matrix' = nextMatrix
  BY <1>1 DEF matrix, nextMatrix
<1>3. /\ nextMatrix.pixels = Generation(P) /\ Exact(nextMatrix)
      /\ count = Cardinality(nextMatrix.pixels) /\ turn < Turns
  BY <1>1, TurnDone
<1>4. DataTypeOK'
  <2>1. front' \in 0..1
    BY <1>1, DataTypes
  <2>2. turn' \in 0..Turns
    BY <1>1, <1>3, TurnsAssumption DEF DataInv, DataTypeOK
  <2> QED BY <1>1, <2>1, <2>2 DEF DataInv, DataTypeOK
<1>5. Exact(matrix)'
  BY <1>2, <1>3 DEF Exact
<1>6. DataInv'
  BY <1>1, <1>2, <1>3, <1>4, <1>5 DEF DataInv, P, barrierVars
<1> QED BY <1>1, <1>2, <1>3, <1>6 DEF P, barrierVars

\* A turn starts with all workers before their loop and no result merged.
LEMMA StartTurnStep ==
  ASSUME BarrierInv, PairInv, DataInv, StartTurn
  PROVE  DataInv'
<1>1. /\ ~turning /\ turn # Turns /\ turning' = TRUE /\ todo' = Thread
      /\ dist = "exclusive" /\ dist' = "collecting" /\ got' = {} /\ WakeAll
      /\ UNCHANGED <<buf, front, wfront, stage, flipping, unsafe, diff, count, turn>>
  BY DEF StartTurn, Broadcast
<1>2. \A j \in Thread : worker[j] \in Parked
  BY <1>1 DEF BarrierInv, PhaseInv, Standing
<1>3. \A j \in Thread : worker'[j] \in {"parking", "woken"}
  BY <1>1, <1>2 DEF WakeAll, Parked
<1>4. \A j \in Thread : Progress(j)' = 0
  BY <1>1, <1>3 DEF Progress, Swapped
<1>5. \A j \in Thread : stage[j] = DoneStage
  BY <1>2 DEF DataInv, Parked
<1>6. matrix' = matrix /\ P' = P
  BY <1>1 DEF matrix, P
<1>7. DataTypeOK'
  BY <1>1 DEF DataInv, DataTypeOK
<1>8. Merged' = {}
  BY <1>1 DEF Merged
<1>9. Flips(matrix, {}) = {} /\ Flipped(P, {}) = P
  BY DEF Flips, Flipped
<1>10. \A j \in Thread : Pixels(j, 0)'
  BY Stages DEF Pixels, Checked
<1>11. turn' < Turns
  BY <1>1, TurnsAssumption DEF DataInv, DataTypeOK
<1>12. count' = Cardinality(P)
  BY <1>1 DEF DataInv
<1>13. TurnInv'
  BY <1>1, <1>4, <1>6, <1>8, <1>9, <1>10, <1>11, <1>12, Stages DEF TurnInv
<1>14. Exact(matrix)'
  BY <1>6 DEF DataInv, Exact
<1> QED BY <1>1, <1>5, <1>7, <1>13, <1>14 DEF DataInv

\* Creating and dismissing workers happens outside of the turns.
LEMMA SpawnQuitStep ==
  ASSUME BarrierInv, PairInv, DataInv, PairInv', SpawnWorker \/ Quit
  PROVE  DataInv'
<1>1. UNCHANGED dataVars
  BY DEF SpawnWorker, Quit
<1>2. ~turning
  BY DEF SpawnWorker, Spawn, Quit, PairInv
<1>3. \A j \in Thread : worker'[j] = "working" <=> worker[j] = "working"
  BY DEF SpawnWorker, Spawn, Quit, Stop, WakeAll, Move, BarrierInv, BarrierTypeOK
<1>4. \A j \in Thread : worker'[j] # "working" => stage'[j] = DoneStage
  BY <1>1, <1>3 DEF DataInv, dataVars
<1> QED BY <1>1, <1>2, <1>4, DataStays DEF dataVars

------------------------------------------------------------------------------
(* The invariant and what follows from it                                    *)

\* A loaded image has exact counts and the number of living cells.
LEMMA DataInitInv == TurnInit => DataInv
<1> SUFFICES ASSUME TurnInit PROVE DataInv
  OBVIOUS
<1>1. PICK image \in Images :
        /\ buf = [k \in 0..1 |-> IF k = 0 THEN Loaded(image) ELSE MakeMatrix]
        /\ count = Cardinality(image)
  BY DEF TurnInit, DataInit
<1>2. /\ front = 0 /\ wfront = [i \in Thread |-> 0] /\ stage = [i \in Thread |-> DoneStage]
      /\ flipping = [i \in Thread |-> {}] /\ unsafe = [i \in Thread |-> {}]
      /\ diff = [i \in Thread |-> 0] /\ turning = FALSE /\ todo = {} /\ turn = 0
  BY DEF TurnInit, DataInit
<1>3. image \in SUBSET Cell
  BY ImagesAssumption
<1>4. Loaded(image) \in Matrix /\ Exact(Loaded(image)) /\ Loaded(image).pixels = image
  BY <1>3, LoadedExact
<1>5. MakeMatrix \in Matrix
  BY DEF MakeMatrix, Matrix, NoCounts
<1>6. matrix = Loaded(image) /\ buf \in [0..1 -> Matrix]
  BY <1>1, <1>2, <1>4, <1>5 DEF matrix
<1>7. count = Cardinality(P) /\ count \in Int
  BY <1>1, <1>3, <1>4, <1>6, NetCounts DEF P
<1>8. DataTypeOK
  <2>1. turn \in 0..Turns /\ front \in 0..1 /\ wfront \in [Thread -> 0..1]
    BY <1>2, TurnsAssumption
  <2>2. stage \in [Thread -> CleanUpStage..DoneStage]
    BY <1>2, Stages
  <2>3. flipping \in [Thread -> SUBSET Cell] /\ unsafe \in [Thread -> SUBSET Cell]
    BY <1>2
  <2>4. diff \in [Thread -> Int]
    BY <1>2
  <2>5. todo \subseteq Thread /\ turning \in BOOLEAN
    BY <1>2
  <2> QED BY <1>6, <1>7, <2>1, <2>2, <2>3, <2>4, <2>5 DEF DataTypeOK
<1> QED BY <1>2, <1>4, <1>6, <1>7, <1>8 DEF DataInv

\* Every step of the evaluation keeps the data in order.
LEMMA DataStep ==
  BarrierInv /\ PairInv /\ DataInv /\ PairInv' /\ [TurnNext]_turnVars => DataInv'
<1> SUFFICES ASSUME BarrierInv, PairInv, DataInv, PairInv', [TurnNext]_turnVars PROVE DataInv'
  OBVIOUS
<1>1. CASE SpawnWorker \/ Quit
  BY <1>1, SpawnQuitStep
<1>2. CASE StartTurn
  BY <1>2, StartTurnStep
<1>3. CASE EndTurn
  BY <1>3, EndTurnStep
<1>4. ASSUME NEW i \in Thread, MergeResult(i) PROVE DataInv'
  BY <1>4, MergeResultStep
<1>5. ASSUME NEW i \in Thread, WorkerStep(i) PROVE DataInv'
  BY <1>5, EnterLoopStep, CleanUpStep, EvaluateSafeStep, EvaluateEdgeStep, SwapStep, HandshakeStep
     DEF WorkerStep
<1>6. CASE UNCHANGED turnVars
  <2>1. /\ UNCHANGED <<buf, front, flipping, unsafe, diff, turning, todo, count, turn>>
        /\ UNCHANGED <<worker, stage, dist, got>>
    BY <1>6 DEF turnVars, dataVars, barrierVars
  <2>2. \A i \in Thread : Progress(i)' = Progress(i)
    BY <2>1 DEF Progress, Swapped
  <2>3. \A i \in Thread : worker'[i] # "working" => stage'[i] = DoneStage
    BY <2>1 DEF DataInv
  <2> QED BY <2>1, <2>2, <2>3, DataStays
<1> QED BY <1>1, <1>2, <1>3, <1>4, <1>5, <1>6 DEF TurnNext, Distribute

\* The next matrix holds what was checked and applied, at every moment.
THEOREM DataInOrder == TurnSpec => []DataInv
BY BarrierHolds, PairsAgree, DataInitInv, DataStep, PTL DEF TurnSpec

\* Between two turns the cached counts are the numbers of living neighbours
\* and count is the number of living cells (distributor.go:120-136), for every
\* number of workers, every grid and every division of it.
THEOREM CountsAlwaysExact == TurnSpec => []CountsExact
<1>1. DataInv => CountsExact
  BY DEF DataInv, CountsExact, P
<1> QED BY <1>1, DataInOrder, PTL

\* The instance of Life counts neighbours on the same torus.
LEMMA SameRules == \A S : L!Generation(S) = Generation(S)
<1>1. L!Cell = Cell /\ L!getSurrounding = getSurrounding /\ L!Offset = Offset
  BY DEF L!Cell, Cell, L!getSurrounding, getSurrounding, L!Offset, Offset
<1>2. \A S, c : L!AliveAround(S, c) = AliveAround(S, c)
  <2> TAKE S, c
  <2>1. {o \in L!Offset : L!getSurrounding[c][o] \in S} = {o \in Offset : getSurrounding[c][o] \in S}
    BY <1>1
  <2>2. \A T : L!Cardinality(T) = Cardinality(T)
    BY DEF L!Cardinality, Cardinality
  <2> QED BY <2>1, <2>2 DEF L!AliveAround, AliveAround
<1> QED BY <1>1, <1>2 DEF L!Generation, Generation

\* The world only changes at the swap, and then to the next generation.
LEMMA LifeStep ==
  BarrierInv /\ PairInv /\ DataInv /\ DataInv' /\ [TurnNext]_turnVars => [L!LifeNext]_(L!lifeVars)
<1> SUFFICES ASSUME BarrierInv, PairInv, DataInv, [TurnNext]_turnVars
             PROVE  L!LifeNext \/ UNCHANGED <<matrix.pixels, turn, dist = "stopped">>
  BY DEF L!lifeVars
<1>1. CASE EndTurn
  BY <1>1, EndTurnStep, SameRules DEF L!LifeNext, L!Evolve, P
<1>2. CASE Quit
  BY <1>2 DEF Quit, Stop, dataVars, matrix, L!LifeNext, L!End
<1>3. CASE SpawnWorker \/ StartTurn
  BY <1>3 DEF SpawnWorker, Spawn, StartTurn, Broadcast, dataVars, matrix
<1>4. ASSUME NEW i \in Thread, MergeResult(i)
      PROVE  UNCHANGED <<matrix.pixels, turn, dist = "stopped">>
  <2>1. matrix.pixels' = matrix.pixels
    BY <1>4, DataTypes DEF MergeResult, matrix, DataInv, DataTypeOK
  <2> QED BY <1>4, <2>1 DEF MergeResult, barrierVars
<1>5. ASSUME NEW i \in Thread, WorkerStep(i)
      PROVE  UNCHANGED <<matrix.pixels, turn, dist = "stopped">>
  <2>1. CASE EnterLoop(i) \/ Swap(i) \/ Handshake(i)
    BY <2>1 DEF EnterLoop, CheckRunning, Swap, FinishWork, Handshake, AcquireLock, Park, Resume,
       Greet, Report, dataVars, matrix
  <2>2. CASE CleanUp(i) \/ EvaluateSafe(i) \/ EvaluateEdge(i)
    <3>1. worker[i] = "working"
      BY <2>2 DEF CleanUp, EvaluateSafe, EvaluateEdge, InStage
    <3>2. \E m : buf' = [buf EXCEPT ![1 - wfront[i]] = m]
      BY <2>2 DEF CleanUp, EvaluateSafe, EvaluateEdge, WriteNext
    <3>3. UNCHANGED <<front, dist, turn>>
      BY <2>2 DEF CleanUp, EvaluateSafe, EvaluateEdge, WriteNext, barrierVars
    <3>4. wfront[i] = front
      BY <3>1, WorkingInTurn
    <3> QED BY <3>2, <3>3, <3>4, DataTypes DEF matrix, DataInv, DataTypeOK
  <2> QED BY <1>5, <2>1, <2>2 DEF WorkerStep
<1>6. CASE UNCHANGED turnVars
  BY <1>6 DEF turnVars, dataVars, barrierVars, matrix
<1> QED BY <1>1, <1>2, <1>3, <1>4, <1>5, <1>6 DEF TurnNext, Distribute

\* The worlds of the distributor are the generations of its image, one after
\* the other (distributor.go:108-163, 190-257), for every number of workers,
\* every grid, every division of it and every number of turns.
THEOREM PlaysLife == TurnSpec => ImplementsLife
<1>1. TurnInit => L!LifeInit
  BY LoadedExact, ImagesAssumption DEF TurnInit, BarrierInit, DataInit, L!LifeInit, matrix
<1> QED BY <1>1, LifeStep, BarrierHolds, PairsAgree, DataInOrder, PTL
        DEF TurnSpec, ImplementsLife, L!LifeSpec
==============================================================================
