----------------------------- MODULE ParallelTurn -----------------------------
(***************************************************************************)
(* The parallel evaluation of parallel/gol/distributor.go: the turn        *)
(* barrier together with the data the goroutines share.                    *)
(*                                                                         *)
(* There are two matrices in memory.  The distributor and every worker     *)
(* keep a pair (matrix, next_matrix) of their own that names them, and     *)
(* each swaps its own pair once per turn.  A worker writes the next matrix *)
(* of its block; the flips on the boundary of its block, whose neighbours  *)
(* may belong to another worker, only go to a slice that the distributor   *)
(* merges after all results are in.  The slice a worker sends is the       *)
(* buffer it keeps using: its cells stay until the next turn overwrites it.*)
(***************************************************************************)
EXTENDS TurnBarrier, Torus, Partitioning

CONSTANTS Turns,                 \* p.Turns
          Images,                \* images a run may load
          Threads                \* p.Threads

ASSUME TurnsAssumption == Turns \in Nat

\* Only of a square image are all rows cut (MakeMatrix, MakeMatrixFromData).
ASSUME SquareAssumption == Width = Height

\* blocks[i]: the block of worker i
Blocks == divideToBlocks(Threads, Width, Height)

\* A worker for each block, and two cells for each block in both directions.
ASSUME BlocksAssumption ==
  /\ Threads \in Nat \ {0}
  /\ N = Len(Blocks)
  /\ Width >= 2 * Horizontal(N) /\ Height >= 2 * Vertical(N)

ASSUME ImagesAssumption == Images \subseteq SUBSET Cell

VARIABLES
  buf,        \* the two matrices
  front,      \* which of them the distributor calls matrix
  wfront,     \* which of them each worker calls matrix
  stage,      \* how far each worker is in the body of its loop
  flipping,   \* flipping_buffer of each worker
  unsafe,     \* unsafe_flipping_buffer, shared with the result it sends
  diff,       \* count_diff of each worker
  turning,    \* the distributor is between Broadcast and the swap
  todo,       \* results of this turn not merged yet
  count,      \* living cells, as the distributor counts them
  turn        \* completed turns

dataVars == <<buf, front, wfront, stage, flipping, unsafe, diff, turning, todo, count, turn>>
turnVars == <<barrierVars, dataVars>>

\* Stages of the loop body: clean-up, safe region, the four boundary loops.
CleanUpStage == 1
SafeStage    == 2
FirstEdge    == 3
LastEdge     == 6
DoneStage    == 7

current(i) == buf[wfront[i]]
next(i)    == buf[1 - wfront[i]]
matrix     == buf[front]

DataInit ==
  /\ \E image \in Images :
       /\ buf = [k \in 0..1 |-> IF k = 0 THEN Loaded(image) ELSE MakeMatrix]
       /\ count = Cardinality(image)
  /\ front = 0
  /\ wfront = [i \in Thread |-> 0]
  /\ stage = [i \in Thread |-> DoneStage]
  /\ flipping = [i \in Thread |-> {}]
  /\ unsafe = [i \in Thread |-> {}]
  /\ diff = [i \in Thread |-> 0]
  /\ turning = FALSE
  /\ todo = {}
  /\ turn = 0

------------------------------------------------------------------------------
(* A worker *)

\* Mutant: the boundary flips of the turn before are not cleared.
EnterLoopUncleared(i) ==
  /\ CheckRunning(i)
  /\ IF running
     THEN /\ stage' = [stage EXCEPT ![i] = CleanUpStage]
          /\ flipping' = [flipping EXCEPT ![i] = {}]
          /\ diff' = [diff EXCEPT ![i] = 0]
     ELSE UNCHANGED <<stage, flipping, diff>>
  /\ UNCHANGED <<buf, front, wfront, unsafe, turning, todo, count, turn>>

\* The test of the loop; a turn overwrites the buffers from their start.
EnterLoop(i) ==
  /\ CheckRunning(i)
  /\ IF running
     THEN /\ stage' = [stage EXCEPT ![i] = CleanUpStage]
          /\ flipping' = [flipping EXCEPT ![i] = {}]
          /\ unsafe' = [unsafe EXCEPT ![i] = {}]
          /\ diff' = [diff EXCEPT ![i] = 0]
     ELSE UNCHANGED <<stage, flipping, unsafe, diff>>
  /\ UNCHANGED <<buf, front, wfront, turning, todo, count, turn>>

InStage(i, s) == worker[i] = "working" /\ stage[i] = s

Region(i, s) ==
  CASE s = CleanUpStage       -> CellsOf(Blocks[i])
    [] s = SafeStage          -> SafeRegion(Blocks[i])
    [] s \in FirstEdge..LastEdge -> Boundary(Blocks[i])[s - SafeStage]

WriteNext(i, m) ==
  /\ buf' = [buf EXCEPT ![1 - wfront[i]] = m]
  /\ stage' = [stage EXCEPT ![i] = @ + 1]
  /\ UNCHANGED <<barrierVars, front, wfront, turning, todo, count, turn>>

CleanUp(i) ==
  /\ InStage(i, CleanUpStage)
  /\ WriteNext(i, CopyCounts(current(i), next(i), Region(i, CleanUpStage)))
  /\ UNCHANGED <<flipping, unsafe, diff>>

Record(i, region) ==
  /\ flipping' = [flipping EXCEPT ![i] = @ \cup Flips(current(i), region)]
  /\ diff' = [diff EXCEPT ![i] = @ + CountDiff(current(i), region)]

EvaluateSafe(i) ==
  LET region == Region(i, SafeStage)
  IN  /\ InStage(i, SafeStage)
      /\ WriteNext(i, checkAndFlip(current(i), next(i), region))
      /\ Record(i, region)
      /\ UNCHANGED unsafe

EvaluateEdge(i) ==
  LET region == Region(i, stage[i])
  IN  /\ \E s \in FirstEdge..LastEdge : InStage(i, s)
      /\ WriteNext(i, checkAndFlipUnsafe(current(i), next(i), region))
      /\ Record(i, region)
      /\ unsafe' = [unsafe EXCEPT ![i] = @ \cup Flips(current(i), region)]

\* The worker swaps its pair; its loop body ends.
Swap(i) ==
  /\ InStage(i, DoneStage)
  /\ FinishWork(i)
  /\ wfront' = [wfront EXCEPT ![i] = 1 - @]
  /\ UNCHANGED <<buf, front, stage, flipping, unsafe, diff, turning, todo, count, turn>>

\* The steps of the barrier that touch none of the data.
Handshake(i) ==
  /\ AcquireLock(i) \/ Park(i) \/ Resume(i) \/ Greet(i) \/ Report(i)
  /\ UNCHANGED dataVars

------------------------------------------------------------------------------
(* The distributor *)

SpawnWorker == Spawn /\ UNCHANGED dataVars

\* for turn != p.Turns
StartTurn ==
  /\ ~turning
  /\ turn # Turns
  /\ Broadcast
  /\ turning' = TRUE
  /\ todo' = Thread
  /\ UNCHANGED <<buf, front, wfront, stage, flipping, unsafe, diff, count, turn>>

\* One iteration of the loop over result_buffer.
MergeResult(i) ==
  /\ dist = "exclusive"
  /\ turning
  /\ i \in todo
  /\ count' = count + diff[i]
  /\ buf' = [buf EXCEPT ![1 - front].counts = Bump(@, matrix.pixels, unsafe[i])]
  /\ todo' = todo \ {i}
  /\ UNCHANGED <<barrierVars, front, wfront, stage, flipping, unsafe, diff, turning, turn>>

\* The swap and turn++.
EndTurn ==
  /\ dist = "exclusive"
  /\ turning
  /\ todo = {}
  /\ front' = 1 - front
  /\ turn' = turn + 1
  /\ turning' = FALSE
  /\ UNCHANGED <<barrierVars, buf, wfront, stage, flipping, unsafe, diff, todo, count>>

\* Label quit, reached after the last turn or by the key q.
Quit ==
  /\ ~turning
  /\ Stop
  /\ UNCHANGED dataVars

------------------------------------------------------------------------------
WorkerStep(i) ==
  EnterLoop(i) \/ CleanUp(i) \/ EvaluateSafe(i) \/ EvaluateEdge(i) \/ Swap(i) \/ Handshake(i)

Distribute ==
  SpawnWorker \/ StartTurn \/ EndTurn \/ Quit \/ \E i \in Thread : MergeResult(i)

TurnInit == BarrierInit /\ DataInit
TurnNext == Distribute \/ \E i \in Thread : WorkerStep(i)

TurnSpec == TurnInit /\ [][TurnNext]_turnVars

------------------------------------------------------------------------------
(* Properties *)

\* Type invariant of the shared data.
DataTypeOK ==
  /\ buf \in [0..1 -> Matrix]
  /\ front \in 0..1
  /\ wfront \in [Thread -> 0..1]
  /\ stage \in [Thread -> CleanUpStage..DoneStage]
  /\ flipping \in [Thread -> SUBSET Cell]
  /\ unsafe \in [Thread -> SUBSET Cell]
  /\ diff \in [Thread -> Int]
  /\ turning \in BOOLEAN
  /\ todo \subseteq Thread
  /\ count \in Int
  /\ turn \in 0..Turns

\* The memory a worker is about to read or write: <<matrix, array, cell>>.
Writes(i) ==
  LET k == 1 - wfront[i]
      pixels == IF stage[i] \in SafeStage..LastEdge THEN Region(i, stage[i]) ELSE {}
      counts == CASE stage[i] = CleanUpStage -> Region(i, CleanUpStage)
                  [] stage[i] = SafeStage ->
                       {getSurrounding[f][o] :
                          f \in Flips(current(i), Region(i, SafeStage)), o \in Offset}
                  [] OTHER -> {}
  IN  ({k} \X {"pixels"} \X pixels) \cup ({k} \X {"counts"} \X counts)

Reads(i) ==
  IF stage[i] = DoneStage THEN {}
  ELSE {wfront[i]} \X {"pixels", "counts"} \X Region(i, stage[i])

Evaluating(i) == worker[i] = "working"

\* matrix.go's safe region is "absolutely no data races" (distributor.go:211)
\* and the boundaries only write pixels (217-233): what a worker is about to
\* write, no other worker is about to read or write.
NoDataRace ==
  \A i, j \in Thread :
    i # j /\ Evaluating(i) /\ Evaluating(j) => Writes(i) \cap (Reads(j) \cup Writes(j)) = {}

\* Between two turns the cached surrounding counts are the numbers of living
\* neighbours and count is the number of living cells, although workers,
\* boundaries and the distributor each contributed a part (distributor.go:120-136).
CountsExact ==
  /\ DataTypeOK
  /\ ~turning => Exact(matrix) /\ count = Cardinality(matrix.pixels)

\* The evaluation implements the Game of Life: the distributor's matrix moves
\* from one generation to the next at the swap, and never in between.
L == INSTANCE Life WITH world <- matrix.pixels, over <- dist = "stopped"
ImplementsLife == L!LifeSpec
==============================================================================
