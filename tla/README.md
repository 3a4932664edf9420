# A verification development for the concurrent and distributed Game of Life

The repository holds two programs that play Conway's Game of Life on a closed
grid: `parallel/` (goroutines in one process) and `distributed/` (a controller
with the window, a broker, worker nodes). This directory models them in TLA+ and
checks the models with TLC. For every value of the constants TLAPS proves that the
turn barrier is safe; that the whole parallel program and the cluster of up to eight
nodes play the Game of Life; that whoever uses the parallel program sees whole
generations, in every frame, report and file; that the controller's counts and files
are those of the turn they name; that the broker repeats, skips and forgets nothing;
that a worker node keeps its handshakes between tasks; and that the blocks of a division
tile the image and are dealt once.

## 1. Inventory

### Parallel program (`parallel/`)

| part | state | operations | correct when |
|---|---|---|---|
| distributor (`gol/distributor.go:35-191`) | matrix, next_matrix, count, turn, pause_flag, result_buffer | load, spawn, broadcast a turn, collect, merge, swap, handle a tick or key, quit, save, close | reports, files and frames are those of whole generations; it ends; it serves q |
| workers (`gol/distributor.go:193-254`) | a pair of matrices of their own, flipping buffers, turn | greet, wait, clean up, safe region, four boundaries, swap, send flips, report | no data race, no lost wakeup, they exit |
| matrix (`gol/matrix.go`) | pixels and cached numbers of living neighbours | checkAndFlip, checkAndFlipUnsafe | the cache is exact between turns |
| io goroutine (`gol/io.go`) | one operation, one condition variable | read, write, quit | each request served once, with its data |
| window and headless loop (`sdl/loop.go`), signal (`main.go`) | pixels toggled by events | receive, send a key | what is shown is a generation |
| channels (`main.go:56-57`) | events (1000), keyPresses (10) | send, receive, close | nobody waits for ever |

### Distributed program (`distributed/`)

| part | state | operations | correct when |
|---|---|---|---|
| broker control (`broker/broker.go`) | cond.L, local_conn, event_chan, bp, turn | accept, Init, loop, Pause/Resume/Save/Quit/Kill, recover_evaluation | a session survives lost nodes, no turn is repeated or skipped, the next session is served |
| broker data (`broker/matrix.go`, `partitioning.go`) | matrix, exchange_graph, adjustment buffers | flip, updateMatrixAndGetAdjustments, getExchangeGraph | its matrix is the next generation after each turn |
| node list (`broker/networkio.go`), end of `main` | nodes, broker.flag | register, unlist, shut down | after a k the goodbye goes out before the nodes are stopped, and the process ends |
| worker node (`worker/worker.go`, `matrix.go`) | rows of its partition, counts of its partition, logic workers of this and earlier tasks, one mutex and one result_chan for all of them | Init, Next, Kill | agrees with the broker on its partition; calls return; a new task meets no worker of the last |
| controller (`gol/distributor.go`, `networkio.go`) | a copy of the matrix, count and uncomfirmed_count, turn, the stream's two channels | key calls, flips, events, files, end of the stream | counts and files are those of the turn they name; it ends |
| compression (`*/compression.go`) | none | pixel bits, cell lists | decompress undoes compress |
| block division (both programs) | none | divideToBlocks, partitioning | blocks tile the image, each dealt once |

The parts interact by shared memory behind a mutex with a condition variable
(distributor and workers, distributor and io), by channels (events, keyPresses,
result_chan, event_chan), by RPC (controller to broker, broker to nodes) and by
one TCP stream (broker to controller). What is hard: the barrier that is the only
order between parallel and sequential work; a condition variable without a
predicate; many senders into one bounded channel whose order is the meaning; keys
sent by the goroutine that also empties the other channel; a lock that is passed
from goroutine to goroutine like a baton; a recovery that starts from another
goroutine with saved state; counts cached on many nodes. `PROJECT.json` lists the
hazards, each at its line with the properties that would catch it.

## 2. Modules

| module | models | uses |
|---|---|---|
| `TurnBarrier` | mutex, condition variable, result_chan and flag between N workers and the distributor | |
| `ParallelTurnProofs` | the barrier's safety for every N; `ParallelTurn` implements it, is free of races, keeps its counts exact and implements `Life` | `ParallelTurn`, `GridProofs` |
| `Torus` | cells, surrounding counts, checkAndFlip(Unsafe), safe region, boundaries, the rules | |
| `GridProofs` | adding and subtracting one around every flip counts neighbours, on every torus; a division tiles it and is dealt once | `Torus`, `Partitioning`, TLAPS |
| `Life` | the abstract specification: worlds are consecutive generations | `Torus` |
| `ParallelTurn` | the barrier with the data: two matrices, everyone's pair, buffers, merge, swap | `TurnBarrier`, `Torus`, `Partitioning`; implements `Life` |
| `ParallelEngine` | the program around it: channels, ticker, keys, files, window, signal | `ParallelTurn` |
| `ParallelEngineProofs` | the program implements `ParallelTurn`; frames, flips, reports, files and pauses | `ParallelEngine`, `ParallelTurnProofs` |
| `IoThread` | the io goroutine's handshake | |
| `Controller` | the distributed controller: select loop, key calls, stream, files; the broker's loop as seen from it | `IoThread` |
| `ControllerProofs` | the handshake for every number of requests; `Controller` implements it; counts, files, final cells and pauses | `Controller`, TLAPS |
| `Partitioning` | divideToBlocks and partitioning as pure functions | |
| `Compression` | size of an integer, lists of cells, bits of an image, the broker's matrix | `Torus` |
| `SurveyProofs` | division and dealing for every number of threads and nodes and every size; every list and image is read as it was sent | `MCPartitioning`, `GridProofs` |
| `Exchange` | the distributed data: broker, nodes, exchange graph, failure and recovery | `Torus`, `Partitioning`; implements `Life` |
| `ExchangeProofs` | nodes and broker agree, and `Exchange` implements `Life`, with at most eight nodes | `Exchange`, `GridProofs` |
| `Broker` | the broker's control: sessions, lock, keys, nodes, recovery, shutdown | |
| `BrokerProofs` | turns in order, nobody forgotten, full runs, the goodbye before the nodes stop | `Broker`, TLAPS |
| `WorkerNode` | one worker node: RPC calls Init and Next, logic workers of successive tasks | |
| `WorkerNodeProofs` | its safety theorems for every number of tasks, blocks and turns | `WorkerNode`, TLAPS |

`MCx` modules give constants their values; `MCPartitioning` surveys the pure functions
of `Partitioning` and `Compression`, one question and its answer per behaviour.
An operator whose comment starts with "Mutant" is a faulty variant of the
definition after it; no specification uses it. It shows that a property of a run
can fail: with the variant in place of the definition TLC reports a violation.

### Correspondence

*Grain.* A step is a stretch of code whose middle no other goroutine can observe.
A worker's loop over a region is one step: it reads the current matrix and writes
the next, and `NoDataRace` checks, for every pair of loops that can run at the
same time, that their cells do not meet, so their steps commute. A rendezvous on
an unbuffered channel is one step of both sides. `sync.Cond.Wait` is two: join the
queue and unlock, then lock again after a wakeup.

*Pixels* are the set of living cells, a matrix is that set with the cached counts
(`Torus!Matrix`). Buffers of cells are sets, since no cell flips twice in a turn;
the 1024 zero cells in front of the first `CellsFlipped` are kept as their number.

*TurnBarrier.* `dist` is the distributor's statement, `worker[i]` the worker's;
`got` the results received. `AcquireLock`, `Greet`/`Report`, `Park` are one
critical section of a worker (lines 198-200 and 242-251); `Broadcast` and `Stop`
are those of the distributor.

*ParallelTurn.* `buf` holds both matrices, `front` and `wfront[i]` say which one
the distributor and worker i call `matrix`; `unsafe[i]` is the slice of boundary
flips a worker shares with the result it sent, until its next turn overwrites it.
`MergeResult` is one round of the loop at 121-134.

*ParallelEngine.* `loc` is the distributor's statement, `outbox` the event it
is sending (`Accept` delivers it when the channel has room); `view` is what the
consumer knows; `pressing` is a key the window's goroutine is sending, during
which it receives nothing.

*IoThread.* `notify` is the queue of the condition variable, `operation` is
io.operation, `files` the log of what was served, with the version of the matrix
io found and the version at the request.

*Controller.* `at` is the distributor's statement, `version` of `IoThread` the number
of flip messages applied to its matrix and `count` the version at the last complete
turn. `call` is the key call it waits in, `stream` the TCP connection (a sequence of
messages of bounded length), `eof` its end. `bat` is the broker's loop; a
recovery is seen from here as a channel that is closed, replaced, and a loop that
starts unpaused, or no loop at all when no node is listed (`bat = "stranded"`). A panic in
any goroutine ends the controller: an error of Broker.Init (`InitReturns`) or of a key call,
a connection that fails or ends inside a message (`ConnectionPanics`). The session is the
first of its broker, so that Broker.Init finds the lock free.
`boundary[t + 1]` is a history: the messages written when turn t was complete.

*WorkerNode.* A task is one call of Init with the logic workers it starts; `init[t]` and
`next[t]` are the statements of its calls, `logic[w]` that of worker w, `running[t]` the
flag the task allocated, `flagOf[w]` the task whose flag and matrices w was given.
`receivers` is the queue of calls at result_chan. An unbuffered send is one step with
its receive. `SendInit`, `SendNext` and `GiveUp` are the broker's. It waits for a call
before it sends the next, but it gives a call up (`GiveUp`) when another node failed first in
the same dispatch (`broker.go:131-139`, `333-341`), or when the connection of the node broke; the
call goes on, and `SendInit` does not wait for it. Every statement of Init that touches what
two calls share is a step of its own. `AtRest` says that no call runs and every logic worker
waits or is about to leave; the history `tangled` says that the last Init was sent to
a node that was not at rest.

*Compression.* A byte of a list is a number, a byte of bits the set of its ones. `Largest` stops at four
bytes: a side of 2^31 cells and more is left out. A loop over the pixels that picks some is `Chosen` from
`AllCells`.

*Exchange.* `nodes[i]` has node i's pair of matrices with the rows of its
partition; `adjust` the buffers of the loop, `sent` the arguments of the calls.
`Worker.Next` is one step: its goroutines are in `WorkerNode`.

*Broker.* `lock` is cond.L, `at` the statement of the goroutine that holds it.
`recovering` holds the goroutines waiting for it in `recover_evaluation`, each
with its saved connection. `late` and `orphaned` are replies of a failed dispatch
still to come, before and after their `call_chan` was closed. `chan` is the
current event_chan. A node is one connection: a machine that comes back is another.
A dispatch and the calls of a turn use as many nodes as are listed. `revenant` is a
history: a recovery has run for a controller that had ended. `main` is the end of
the main goroutine: it waits for the flag, takes and gives back the lock, locks the list
of nodes and calls Worker.Kill on each.

## 3. Runs

| run | shows | instance |
|---|---|---|
| `parallel_turn` | no lost wakeup, the distributor alone between turns, no data race, exact counts, the two next generations in every interleaving | 5 threads, so 4 workers with 3x3 blocks on 6x6, two images, 2 turns |
| `parallel_engine` | frames are generations; files, reports and final cells match the frame; a pause freezes | 2 workers on 4x4, 2 turns, events 1 place, keyPresses 3, 2 key presses, 1 tick, signal, both consumers |
| `engine_live` | the program ends, its workers exit, q is served | 1 turn, events 1 place, keyPresses 2, 1 key press and the signal |
| `key_standoff` | a violation, see below | keyPresses 1 place |
| `controller` | counts and files are those of their turn, the final cells fit, pauses agree, io serves each request once, the controller ends | 2 turns of up to 2 flip messages, a stream of 2 messages, 2 keys, 2 failures of nodes, a connection that may fail at any time |
| `partitioning` | blocks tile, are even, are dealt once; lists and images survive compression | all of 1-16 threads, 2-9 by 2-9 cells, 1-5 nodes; lists of corners and middles for sides around 127, 255, 32767 and 8388607; 7x5 images with up to two cells or all but one |
| `exchange` | nodes agree with the broker, only relevant flips are sent, the world is Life through a failure | 6 blocks on 6x6 for 1, 2 or 4 nodes, 2 turns, 1 failure |
| `nine_nodes` | a violation, see below | 9 nodes |
| `broker` | no turn is repeated or skipped, a run ends early only by a key, the connection is never lost in a recovery, nodes are stopped only after the goodbye, the session survives the losses, the next one is served, a k ends the broker though that one may be served first | 2 sessions, at once or one after the other, 2 nodes, 2 losses, 2 turns, 2 keys each of p, q, k, bounded by `Within` |
| `late_init` | a violation, see below | 3 nodes, 1 loss, no keys |
| `worker_node` | for a task whose Init came to a node at rest: Init returns with its team ready, Next merges its own results, at most one worker of all earlier tasks is left behind and leaves in the next turn, calls return | 3 tasks, of 1, 2 and 1 blocks, 1 turn each, one task given up, bounded by `Within` |
| `overlap` | a violation, see below | 2 tasks of 1 block |

A type invariant is the first conjunct of the property that needs it: `EngineTypeOK` of
`WholeFrames`, `DataTypeOK` of `CountsExact`, `ExchangeTypeOK` of `BrokerExact` and so on.
`DivisionCorrect` joins `Tiles`, `EvenBlocks` and `ThreadsUsed`, `DataSurvives` joins
`ListsSurvive` and `ImageSurvives`. `ExitOnlyWhenStopped` and `MutexMatchesHolder` are proved
for every N and not checked by a run besides.

*Why the bounds are enough.* 3x3 blocks are the smallest with a safe cell whose
neighbours are all boundary cells of its block, and in a 6x6 torus of four of them
every pair of blocks touches, across seams and around the edges. Two turns let
each worker swap twice, so that every matrix has been read and written by all. A
channel of one place makes every sender wait at every event; capacities above one
only remove waits. Two losses of two nodes give a failed turn, a failed dispatch,
a failed retry and the case that no node is left. A third session would meet the
same lock and connection as the second. One session of `broker` has two losses and two keys in every
order; `Within` of `MCBroker` allows two of these troubles in all from the moment when a second
session comes (one more makes the state space too large for a run of minutes), and calls the node
that is lost first n1, since the nodes are alike. An s, which the broker handles like a p without
effect on the pause, is left to `controller`. A stream of two messages makes the
broker wait inside the messages of one turn; four versions let both turns have two
flip messages. In `worker_node` the second task has more blocks than the first, as after a recovery
with fewer nodes, and the third comes to a node that has the workers of a team of two to
leave. `Within` of `MCWorkerNode`: the calls of one task are given up, and a node that is tangled
gets no Next before another Init came to it at rest, since nothing is claimed of it
(`overlap` shows what becomes of it). `engine_live` leaves out k, which the parallel program ignores.
Bounds that exist only in the model: MaxPresses, MaxTicks, MaxRequests,
MaxVersion, MaxKeys, MaxLosses, MaxFailures, MaxFlips, MaxRecoveries, StreamCap, and
Turns and Tasks of `WorkerNode`.

*Deadlock* is checked in the parallel runs, `controller` and `worker_node`, whose specifications stop
only in a named final state (`Terminated`; in `worker_node` also a tangled node may stop). It is off where the system really
stops: after the answer in `partitioning`, the end of the evaluation in `exchange`, no
controller left or a panicked process in the broker runs, the standoff itself in
`key_standoff`.

*Fairness.* Weak for a goroutine that is ready to run. Strong for taking a mutex
and for a send into a full channel: a Go mutex hands itself over to a waiter that
starves, and channels serve their waiters in order, so a chance that keeps coming
is taken. Nothing is assumed of users, ticks, signals or nodes, except that a call
to a node ends with a reply or an error and that a dead connection is noticed.
`Controller` and `WorkerNode` need less: some goroutine runs as long as one can (weak
fairness of all of them together), because between two inputs each of their
behaviours is finite. There is no timeout on RPC calls in the code, so a node that neither answers nor
drops its connection is outside this assumption and blocks the broker. The finding `overlap` is such
a node: what `Survives`, `NextServed` and `ControllerEnds` say holds as long as no retried
dispatch leaves a node hanging like that.

## 4. Where the code does not do what it says

* `key_standoff`: the distributor stops reading keyPresses at label quit; a window
  that sends a key into a full channel never sees the events channel closed.
* `nine_nodes`: the exchange graph has one byte of flags per cell; the ninth node
  gets no adjustments and the world goes wrong.
* `late_init`: when a node fails during a dispatch, replies of the other nodes meet
  a closed call_chan, which panics the broker.
* `overlap`: the broker retries a dispatch at the first failed reply and sends Worker.Init
  again to nodes whose first Init still runs. Both calls use the object, the condition variable
  and result_chan. The second Init returns on the greeting of the first one's worker, before its
  own worker has parked; the Next that follows wakes only the old worker, which leaves; the new
  worker's greeting goes to the first Init; and Next waits for ever, and the broker
  with it. It breaks what `worker_node` shows and `WorkerNodeProofs` proves, which is stated for a
  task whose Init came to a node at rest; `NodeTangledByOverlap` proves that nothing but such
  an overlap can find the node otherwise.

Behaviour met while modelling that no run states: the error return for "no worker
nodes available", of Broker.Init and of a recovery (`broker.go:91`, `295`), leaves cond.L
locked for ever, and after a recovery the connection open and no loop, so that the
controller waits for ever (`lock = "leaked"` in `Broker`, `bat = "stranded"` in `Controller`:
`Survives`, `NextServed` and `ControllerEnds` name them as escapes, `ControllerRests` as a
standstill); a paused session whose controller is gone keeps
the lock; a key call that waits on an event_chan that a second recovery replaces
never returns (`blocked[s] = "lost"`).

* A recovery that outlives its controller: a session vanishes (window closed, process
  killed) while its recovery waits for the lock; the next session gets the lock, starts, and
  leaves it to the recovery when a node fails. That one overwrites local_conn with
  its dead connection and evaluates the turns of a session that nobody reads. The broker
  never looks whether the connection it saved is still alive. `TurnsReportedOnce`, `FullRuns`
  and `NobodyForgotten` are stated up to that moment (`revenant`). Without that, the
  instance of `broker` violates `TurnsReportedOnce`.
* Two keys at once: a second key waits for room in event_chan, in a call during which the
  controller does not read the stream; the broker waits for room in the stream. It
  takes a full TCP buffer; `Standoff` names it as an exception of `ControllerEnds`.
* A recovery forgets a pause: the new loop starts with pause_flag false, the
  controller and its window still show Paused, and the next p sends Resume. A pause in
  event_chan when the recovery replaces it is lost as well (`PauseAgrees` is stated
  for evaluations without a recovery).
* After a crash of the broker the controller reads byte 0 from a closed channel,
  which is EVENT_TURN_COMPLETE: it counts the remaining turns without any
  evaluation and writes the final file under the last turn's name (`Crashed` in
  `CountsOfTurn` and `FilesOfTurns`).
* `broker/networkio.go:128` says that shutdownNodes sends "shutdown commands to all
  available nodes". Worker.Kill lets the node's process end, possibly before its reply
  is out; the call is then an error, the broker panics, and the nodes after it in
  the map stay up (`StopNode`). They register again with the next broker.
* main takes the lock after a k, but in competition with the next session: that one
  may be served first, and be killed only after it has ended (`KillEnds` allows it).

## 5. Proofs

`ParallelTurnProofs` proves first, for every number N of workers and from `NAssumption`
(N is a positive natural number) alone, that the barrier's specification keeps
`BarrierTypeOK`, `DistributorAlone`, `NobodyLeftBehind`, `ExitOnlyWhenStopped` and
`MutexMatchesHolder`.

None of them is inductive: each speaks of one phase of the distributor and says
nothing of the phase before. `PhaseInv` says where each worker may stand in every
phase (`Standing`), that the flag is cleared exactly at the stop, and that a worker
is still to be spawned while spawning. With the types and `MutexMatchesHolder` it
is `BarrierInv`, which is inductive. The step that matters is the broadcast: it
needs a free mutex, so no worker is between Lock and Wait, so all parked workers are
asleep and every one of them is woken. `InitInv`, `StepInv` (one step per action)
and `InvImplies` are the three facts; each theorem combines them.

Then it proves of the evaluation with all its data, from
`BlocksAssumption`: N is the number of blocks of `divideToBlocks`, and the image has two cells
per block in each direction, without which the loops over the boundary visit cells twice.
`SquareAssumption`, the images are square, states what `MakeMatrix` needs; no proof uses it.
The blocks themselves need no assumption (`BlocksTile`, from `DivisionServes`).

- `ImplementsBarrier`: its steps are steps of the barrier or leave it alone, so the
  theorems above hold of it (`MergesAlone` is one of them);
- `RaceFree`: `NoDataRace` for every number of workers. `PairInv` is the inductive
  part: a worker's pair names the matrices like the distributor's, or the other way
  round between its own swap and the distributor's. A worker that evaluates has
  not swapped, so all of them write one matrix and read the other
  (`EvaluatesFront`, `WritesInBlock`, `ReadsInFront`). Writes stay in the worker's
  own block: `RegionInBlock` for the pixels, and `SafeNeighbours` for the counts,
  because a safe cell is one step away from the edge of its block and `NoWrap`
  says that the torus arithmetic is the identity there.

`GridProofs` starts with arithmetic on sets of cells, for a torus of any size, also one so small
that a cell is its own neighbour. `TouchesIsAround` is the hinge: a cell is reached by
the flips of F as often as it sees a cell of F, because every offset has an opposite one
that leads back (`WayBack`). So adding and subtracting around the flips, in any portions
(`BumpMore`), gives the numbers of living neighbours of the flipped world.

Its second part is the division. What the decomposition into factors passes are divisors of
the number of blocks (`QuotientsDivide`), so rows times columns is that number; a composite number is
at most the square of its first quotient, so it gets more than one of each (`RowsAndColumns`).
`Share` is the exact part of a length, rounded (`ShareRounds`): it starts at 0, ends at the length,
never shrinks, and its steps differ by one at most and are no less than two where the length
has two cells for each (`ShareSteps`). Hence `DivisionServes`: the blocks are on the grid, two by two
cells or more, cover it and are disjoint. `Dealt` counts the blocks of the first nodes, and
putting the partitions together gives back the blocks (`DealtTogether`, `DealtToOne`). There is no
induction theorem the provers could use; `AllNumbers` takes its place, by the least
member of a set of numbers (`Least`). `SurveyProofs` applies this to the answers of the survey:
`DivisionCorrect` and `DealtOnce`.

`SurveyProofs` also proves `DataSurvives`, and beyond the images the survey asks about `ListRead`, for
every list of cells, and `ImageRead`, for every image on a grid of any width and height below 2^31
(`BoundsAssumption`). The size that `getSizeOfInt` finds holds both sides (`SizeFits`), and a
coordinate is the sum of its digits to the base of 256 (`Digits`, `NumberOfBytes`). A list is portions of
equal length, so the bytes of cell i are where `decompressFlipped` looks for them (`Uniform`,
`Slice`, `PairRead`). `Place` and `CellAt` are inverse to each other (`Places`), and a place is determined by
its byte and its bit (`BitsRead`). Either way the broker gets each cell of the image once
(`CellsChosen`), and counting along that list gives what counting along the image does (`CountedFromList`,
which is `WayBack` again). The recursive functions `Number` and `Chosen` are reached by `Iterates`: a
function that satisfies the recursion exists, so CHOOSE picks one, and `AllNumbers` says what it is.

`ParallelTurnProofs` goes on to prove `CountsAlwaysExact` (`CountsExact`) and `PlaysLife`
(`ImplementsLife`) from the same assumptions and that images lie on the grid. `CountsExact` speaks
of the moments between turns. `DataInv` says what the next matrix is at every moment of one:
`Progress(i)` is the stage worker i has come to; in the cells it has `Checked` the pixels are
those of the next world (`Pixels`); its buffers hold the flips of these cells, of all and
of its boundary (`Buffers`); and the counts of a block that was cleaned up are the
numbers of neighbours that live after the flips `Applied` so far (`Counts`): those of the
safe regions checked, and those of the boundaries merged. A clean-up is complete before
the flips of a neighbour can arrive, because flips of a safe region stay in its block
and boundaries wait for the merge (`NothingAppliedNearby`). When all results are merged,
`Applied` is the whole grid (`TurnDone`), and `FlipsAreGeneration` gives the next generation.

`ExchangeProofs` proves `NodesAgree`, `BrokerExact`, `RelevantOnly` and `ImplementsLife` of the
cluster, for every number of threads, turns and failures and every square grid that has two cells
per block (`DivisionAssumption`); that the partitions then tile the grid is `DealingTiles`. It
has the hypothesis `AtMostEight`: `nine_nodes` violates the same property with a ninth. `ClusterInv` says what a node holds while its call
runs: before, the broker's world on its partition once what it was sent is applied;
afterwards the next pixels with counts that know its own flips only (`Served`,
`NodeEvaluates`). Of the other flips it needs those that some cell of it sees. `GraphReaches`
shows that the exchange graph, which looks at boundary cells only, sends it all of these,
since flips of a safe region are seen only in their block; `AdjustmentsComplete` that
applying them one turn late gives the exact counts. A recovery needs no more than that
the broker's matrix is exact and untouched by a failed turn.

`ParallelEngineProofs` carries this over to the whole program and proves what its user sees,
for every number of threads, grid, number of turns, capacity of the channels
and choice of keys, ticks and signals, with either consumer. `EngineEvaluates`: the program is
an implementation of `ParallelTurn`, so `EngineRaceFree`, `EngineCountsExact` and `EnginePlaysLife`
follow. `WholeFrames`, `FlipsInTurn`, `ReportsMatchFrame`, `LastWorldSaved` and the action property
`PauseFreezes` are theorems too. None is inductive: they speak of what the consumer has on its
screen, and the flips of up to two turns are on their way between a worker and that
screen. `EngineInv` therefore speaks of the `queue`, the events channel and behind it the event
the distributor waits to send. Every step does one of four things to it (`EventStep`): the distributor
appends an event, a worker appends its flips, the consumer takes the first, or it stays.
The parts: the distributor's statement fits the barrier (`Control`), workers count turns as they swap
(`WorkerTurns`), its world is the one of its turn (`WorldNow`); the queue leads the receiver from
its turn to the distributor's (`Order`); every cell that changes in a turn is in it once, and behind
each event of that turn (`Delivery`); reports are true (`Reports`); the screen shows the receiver's
world with the flips it has had (`Screen`), which is a whole generation exactly when all flips of
its turn are received, and that is so at TurnComplete; nothing follows a Paused or the
goodbye (`States`, `Goodbye`). `World`, the sequence of generations, is recursive over the turns; that it
exists for every number of turns is `WorldUnfolds`, by `AllNumbers` again.

`ControllerProofs` proves `ServedOnce` and `FilesAsAsked` for every number of requests. The
invariant is the handshake: the queue of the condition variable never holds both
sides, a request is pending exactly from the signal of the distributor to that of io,
and in between the distributor waits. Every step of the controller is a step of `IoThread`
or leaves it alone (`ImplementsIo`), so both hold in it, whatever comes over the stream and however
nodes and broker fail. `CountsOfTurn`, `FilesOfTurns`, `CellsFit` and `PauseAgrees` are proved for
every number of turns, flip messages, keys and failures and every capacity of the stream, by the
invariant `CInv`. Its centre is `Sync`: there are two sequences, the turn and the version the
controller will have after each message of the stream; they start at what it has, end at
what the broker has written, and after each message that is not a flip the version is the one
recorded for that turn. So a message taken or written keeps them, and a count or a
file made between two messages is that of its turn. After a crash of the broker
`Invented` takes its place: the stream is empty and the controller's turns run ahead. `Pauses`
follows a key from the call through event_chan and the echo.

`BrokerProofs` proves `TurnsReportedOnce`, `NobodyForgotten`, `FullRuns` and `StopsAfterGoodbye` for
every number of sessions, nodes, turns, keys and losses. The lock goes from goroutine
to goroutine without being unlocked, so the invariant must say who works for whom.
`LockInv`: it is taken exactly while a dispatch or a loop runs. `SessionInv`, which holds until a
recovery outlives its controller: sessions are engaged one after the other (`InOrder`); a call that waits
for the lock waits for a connection of its own (`Arriving`); whoever has the lock works for the
connection of the one engaged session, and the connection of a recovery that waits is nobody
else's (`Connected`); a running controller's connection is in somebody's hands or closed (`Kept`);
what was reported is the saved turn, while a loop runs and while a recovery waits
(`Counted`); an event found by a loop was sent by its own session (`Pressed`). `KillInv`: the
session whose k reached main has been hung up before main passes the lock. Here TLC's
counterexample to the first attempt gave the behaviour of section 4: `SessionInv` is not
inductive without `revenant`.

`WorkerNodeProofs` proves `ReadyWhenInitReturns`, `MergesOwnResults` and `AtMostOneLeft` for every
number of tasks, blocks and turns and whatever calls were given up. The invariant has two
halves. `Always` holds however calls overlap: which call stands where in the queue
of receivers (`Queue`), that the mutex is held by who is between Lock and Wait (`Mutex`), which
workers were started (`Fresh`). `Orderly` holds of a node that is not tangled: where a logic worker
may stand in each statement of the calls (`Stand`), whose flag is up (`Flags`), who receives (`Waiting`),
whose results Next has (`Results`), and that at most one worker of an earlier task is parked
(`OneLeft`): it missed the broadcast because it held the mutex, and only one can. A tangled node
loses `Orderly`; `SendInit` gives it back from `AtRest` alone, so a node recovers with
the next Init that finds it at rest. `NodeTangledByOverlap` is the converse: an orderly node on which
no call runs is at rest, so only an Init that overlaps a call tangles it.

Liveness needs fairness and ENABLED and stays with TLC, but that the processes do not all wait
for each other is a safety property, and four theorems state it. Each lists the guards of the
next-state relation one by one, so that it says what moves and not just that something does.

- `NoDeadlock`: until all workers have exited, somebody in the barrier can go on, although a
  worker sends its result with `cond.L` locked and the distributor takes that mutex for the
  broadcast. `BarrierInv` does not imply it: a distributor that waits for results must be
  owed one (`Owed`).
- `NodeNoDeadlock`: the same of a worker node that is not tangled, while a call of Init or Next runs.
- `EngineNoDeadlock`: distributor, workers, consumer and their three channels, for all capacities,
  without counting on another key or tick. Its hypothesis is `MaxPresses < KeyCap`: no more keys than
  `keyPresses` holds beside the one of the signal (`KeysCounted`). It is needed: in `key_standoff`
  it is false, and the distributor and the window wait for each other.
- `ControllerRests`: the controller, the broker's loop and io have just these standstills: the controller
  has ended or panicked; the evaluation is paused and nothing is under way, so only a key helps; or a call
  of Broker.Pause and its kin waits for room in event_chan while the loop waits for room on the stream
  (`Standoff`) or on a channel that a recovery replaced; or a recovery that found no node has left
  the stream open and nobody to end it (`Stranded`). `Waits` is the part that `CInv` does not say.
  The model's own bounds on requests and versions are the remaining excuse (`Exhausted`).

Every safety invariant and action property of the passing runs is a theorem. Only model-checked:
liveness (`Finishes`, `QuitIsServed`, `WorkersExit`, `ControllerEnds`, `Survives`, `NextServed`, `KillEnds`,
`CallsReturn`, `RetiredLeave`), which is out of the prover's reach.

## 6. Not modelled, and the plan

Not modelled: parsing of PGM files and file errors; rendering, average turns and
the test's board printer; a broker's node that cannot be dialled back and listeners
that fail, which are panics at once; registration of a node beyond that it
appears in the list; images that are not square, on which the construction of the
matrices panics (`SquareAssumption` of `ParallelTurn` and `Exchange`; the theorems of
`GridProofs` and `Torus` need no square); integer width of the counts (at most 8). divideToBlocks is exact
where the code rounds a float64 product: a product half-way between two cells may come out
below (49 cells in 22 columns), and that border is then one cell further to the left. Both
blocks at a border compute it from the same product, so that they still meet. In `Controller` the window takes every
event at once (its standoffs are those of `ParallelEngine`), and the ticker is a reader
of turn and count in every state.

Plan, most important first:

1. `Exchange` with the control of `Broker`: a recovery of a session that is gone.
