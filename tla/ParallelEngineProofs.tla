------------------------- MODULE ParallelEngineProofs -------------------------
(***************************************************************************)
(* What the user of the parallel program sees, for every number of workers, *)
(* every grid and division, every number of turns, all capacities of the    *)
(* channels and all keys: the properties of ParallelEngine.                 *)
(*                                                                          *)
(* The argument is about the queue: the events channel and, behind it, the  *)
(* event the distributor waits to send.  A step of the program appends one  *)
(* event, takes the first, or leaves the queue as it is (EventStep).  The    *)
(* invariant says that the queue leads its receiver from the turn it is in   *)
(* to that of the distributor (Order), that the changing cells of each turn  *)
(* are in it once and behind every event of that turn (Delivery), that the   *)
(* reports in it are true (Reports), and what its receiver has on the screen *)
(* while the queue is on its way (Screen, States, Goodbye).                  *)
(*                                                                          *)
(* EngineNoDeadlock: distributor, workers and consumer do not all wait for  *)
(* each other, if the keys that arrive fit into keyPresses (KeysCounted).   *)
(***************************************************************************)
EXTENDS ParallelEngine, ParallelTurnProofs

\* The first n + 1 worlds of an image.
Worlds(f, n, w) == f = [t \in 0..n |-> IF t = 0 THEN w ELSE Generation(f[t - 1])]

\* It has as many worlds as one asks for.
LEMMA WorldsExist ==
  ASSUME NEW w
  PROVE  \A n \in Nat : \E f : Worlds(f, n, w)
<1> DEFINE S == {n \in Nat : \E f : Worlds(f, n, w)}
<1>1. 0 \in S
  <2>1. Worlds([t \in 0..0 |-> w], 0, w)
    BY DEF Worlds
  <2> QED BY <2>1
<1>2. ASSUME NEW n \in Nat, n \in S PROVE n + 1 \in S
  <2>1. PICK f : Worlds(f, n, w)
    BY <1>2
  <2> DEFINE g == [t \in 0..n + 1 |-> IF t = n + 1 THEN Generation(f[n]) ELSE f[t]]
  <2>2. f = [t \in 0..n |-> IF t = 0 THEN w ELSE Generation(f[t - 1])]
    BY <2>1 DEF Worlds
  <2>3. \A t \in 0..n + 1 : g[t] = IF t = 0 THEN w ELSE Generation(g[t - 1])
    <3> TAKE t \in 0..n + 1
    <3>1. CASE t = n + 1
      <4>1. g[t] = Generation(f[n]) /\ t # 0 /\ t - 1 = n /\ n \in 0..n + 1 /\ n # n + 1
        BY <3>1
      <4>2. g[n] = f[n]
        BY <4>1
      <4> QED BY <4>1, <4>2
    <3>2. CASE t # n + 1
      <4>1. t \in 0..n
        BY <3>2
      <4>2. g[t] = f[t]
        BY <3>2
      <4>3. f[t] = IF t = 0 THEN w ELSE Generation(f[t - 1])
        BY <2>2, <4>1
      <4>4. t # 0 => t - 1 \in 0..n /\ t - 1 \in 0..n + 1 /\ t - 1 # n + 1
        BY <4>1
      <4>5. t # 0 => g[t - 1] = f[t - 1]
        BY <4>4
      <4> QED BY <4>2, <4>3, <4>5
    <3> QED BY <3>1, <3>2
  <2>4. g = [t \in 0..n + 1 |-> g[t]]
    OBVIOUS
  <2> HIDE DEF g
  <2>5. Worlds(g, n + 1, w)
    BY <2>3, <2>4 DEF Worlds
  <2>6. n + 1 \in Nat
    OBVIOUS
  <2> QED BY <2>5, <2>6
<1> HIDE DEF S
<1>3. Nat \subseteq S
  BY <1>1, <1>2, AllNumbers
<1> QED BY <1>3 DEF S

\* World is defined: its first world is the image, and each is the next
\* generation of the one before.
LEMMA WorldUnfolds ==
  /\ DOMAIN World = 0..Turns
  /\ World[0] = image
  /\ \A t \in 0..Turns - 1 : World[t + 1] = Generation(World[t])
<1>1. \E f : Worlds(f, Turns, image)
  BY WorldsExist, TurnsAssumption
<1>2. World = CHOOSE f : Worlds(f, Turns, image)
  BY DEF World, Worlds
<1>3. Worlds(World, Turns, image)
  BY <1>1, <1>2
<1>4. World = [t \in 0..Turns |-> IF t = 0 THEN image ELSE Generation(World[t - 1])]
  BY <1>3 DEF Worlds
<1> HIDE DEF World
<1>5. \A t \in 0..Turns : World[t] = IF t = 0 THEN image ELSE Generation(World[t - 1])
  BY <1>4, Zenon
<1>6. 0 \in 0..Turns /\ \A t \in 0..Turns - 1 : t + 1 \in 0..Turns /\ t + 1 # 0 /\ (t + 1) - 1 = t
  BY TurnsAssumption
<1>7. DOMAIN World = 0..Turns
  BY <1>4, Zenon
<1> QED BY <1>5, <1>6, <1>7

\* They are the worlds of the image alone.
LEMMA WorldStays == UNCHANGED image => UNCHANGED World
<1>1. World = CHOOSE f : Worlds(f, Turns, image)
  BY DEF World, Worlds
<1>2. World' = CHOOSE f : Worlds(f, Turns, image')
  BY DEF World, Worlds
<1> QED BY <1>1, <1>2
------------------------------------------------------------------------------
(* The engine evaluates                                                      *)

\* What the distributor does to the evaluation: one of its steps there, or none.
LEMMA EngineStep == [EngineNext]_vars => [TurnNext]_turnVars
<1> SUFFICES ASSUME [EngineNext]_vars PROVE TurnNext \/ UNCHANGED turnVars
  OBVIOUS
<1>1. CASE Accept \/ Load \/ Announce \/ HandleTick \/ HandleKey \/ HandleNothing
           \/ SaveLast \/ Bye \/ Close
  BY <1>1 DEF Accept, Load, Announce, HandleTick, HandleKey, HandleNothing, SaveLast, Bye, Close
<1>2. CASE CreateWorker \/ Begin \/ Merge \/ Complete \/ Finish
  BY <1>2 DEF CreateWorker, Begin, Merge, Complete, Finish, TurnNext, Distribute
<1>3. CASE Consume \/ Press \/ Sigterm \/ Tick
  BY <1>3 DEF Consume, Receive, SeeClosed, SendKey, Press, Sigterm, Tick
<1>4. ASSUME NEW i \in Thread, Worker(i) PROVE TurnNext
  BY <1>4 DEF Worker, Publish, Compute, TurnNext, WorkerStep
<1>5. CASE UNCHANGED vars
  BY <1>5 DEF vars
<1> QED BY <1>1, <1>2, <1>3, <1>4, <1>5 DEF EngineNext, Distributor

\* The whole program, with its channels, keys, ticks, files and consumer, is an
\* implementation of the parallel evaluation (distributor.go:78-191).
THEOREM EngineEvaluates == EngineSpec => TurnSpec
<1>1. EngineInit => TurnInit
  BY DEF EngineInit
<1> QED BY <1>1, EngineStep, PTL DEF EngineSpec, TurnSpec

\* So its goroutines never race for a cell,
THEOREM EngineRaceFree == EngineSpec => []NoDataRace
BY EngineEvaluates, RaceFree, PTL

\* its counts are exact whenever it may report them (distributor.go:102, 144),
THEOREM EngineCountsExact == EngineSpec => []CountsExact
BY EngineEvaluates, CountsAlwaysExact, PTL

\* and its worlds are the generations of the loaded image.
THEOREM EnginePlaysLife == EngineSpec => ImplementsLife
BY EngineEvaluates, PlaysLife, PTL

------------------------------------------------------------------------------
(* The distributor and the workers between the turns                         *)

\* Where the distributor of the engine stands in the barrier.
Control ==
  /\ loc \in {"load", "spawn", "loop", "turn", "handle", "quit", "save", "bye", "close", "returned"}
  /\ loc = "load" => outbox = <<>> /\ dist = "spawning" /\ ~turning
  /\ loc = "spawn" => dist \in {"spawning", "awaiting", "exclusive"} /\ ~turning
  /\ loc \in {"loop", "handle", "quit"} => dist = "exclusive" /\ ~turning
  /\ loc = "turn" => outbox = <<>> /\ turning
  /\ loc \in {"save", "bye", "close", "returned"} => dist = "stopped" /\ ~turning
  /\ loc = "returned" => outbox = <<>>
  /\ closed => loc = "returned"
  /\ pause_flag \in BOOLEAN
  /\ pause_flag => loc \notin {"load", "spawn", "loop", "turn"}

\* The distributor starts in its place.
LEMMA ControlInit == EngineInit => Control
BY DEF EngineInit, TurnInit, BarrierInit, DataInit, Control

\* What the distributor does with a key: it writes a file, changes between
\* running and paused, or only goes on, to label quit or as before.
LEMMA KeyCases ==
  ASSUME HandleKey
  PROVE  \/ Write(AfterHandling(pause_flag)) /\ UNCHANGED pause_flag
         \/ /\ pause_flag' = ~pause_flag
            /\ Emit(StateChange(turn, IF pause_flag' THEN "Paused" ELSE "Executing"),
                    AfterHandling(pause_flag'))
            /\ UNCHANGED disk
         \/ loc' \in {"quit", AfterHandling(pause_flag)} /\ UNCHANGED <<outbox, pause_flag, disk>>
BY Zenon DEF HandleKey

\* Every step leaves the distributor in its place.
LEMMA ControlStep == Control /\ PairInv /\ [EngineNext]_vars => Control'
<1> SUFFICES ASSUME Control, PairInv, [EngineNext]_vars PROVE Control'
  OBVIOUS
<1> USE DEF Control, At, Emit
<1>1. CASE Accept
  BY <1>1 DEF Accept, turnVars, barrierVars, dataVars
<1>2. CASE Load
  BY <1>2 DEF Load, channels, turnVars, barrierVars, dataVars
<1>3. CASE CreateWorker
  BY <1>3 DEF CreateWorker, SpawnWorker, Spawn, engineVars, channels, dataVars
<1>4. CASE Announce
  BY <1>4 DEF Announce, channels, turnVars, barrierVars, dataVars
<1>5. CASE Begin
  BY <1>5 DEF Begin, StartTurn, Broadcast, channels
<1>6. CASE Merge
  BY <1>6 DEF Merge, MergeResult, engineVars, channels, barrierVars
<1>7. CASE Complete
  BY <1>7 DEF Complete, EndTurn, channels, barrierVars
<1>8. CASE HandleTick
  BY <1>8 DEF HandleTick, AfterHandling, channels, turnVars, barrierVars, dataVars
<1>9. CASE HandleKey
  <2>1. UNCHANGED <<dist, turning, closed>> /\ loc = "handle"
    BY <1>9 DEF HandleKey, turnVars, barrierVars, dataVars
  <2>2. CASE UNCHANGED pause_flag /\ loc' \in {"quit", AfterHandling(pause_flag)}
    BY <2>1, <2>2 DEF AfterHandling
  <2>3. CASE pause_flag' = ~pause_flag /\ loc' = AfterHandling(pause_flag')
    BY <2>1, <2>3 DEF AfterHandling
  <2> QED BY <1>9, <2>2, <2>3, KeyCases DEF Write
<1>10. CASE HandleNothing
  BY <1>10 DEF HandleNothing, AfterHandling, channels, turnVars, barrierVars, dataVars
<1>11. CASE Finish
  BY <1>11 DEF Finish, Quit, Stop, dataVars, channels
<1>12. CASE SaveLast
  BY <1>12 DEF SaveLast, Write, turnVars, barrierVars, dataVars, channels
<1>13. CASE Bye
  BY <1>13 DEF Bye, turnVars, barrierVars, dataVars, channels
<1>14. CASE Close
  BY <1>14 DEF Close, turnVars, barrierVars, dataVars
<1>15. CASE Consume \/ Press \/ Sigterm \/ Tick
  BY <1>15 DEF Consume, Receive, SeeClosed, SendKey, Press, Sigterm, Tick, turnVars, barrierVars,
     dataVars, engineVars, channels
<1>16. ASSUME NEW i \in Thread, Worker(i) PROVE Control'
  <2>1. UNCHANGED <<loc, outbox, pause_flag, closed, turning>>
    BY <1>16 DEF Worker, Publish, Compute, Swap, EnterLoop, CleanUp, EvaluateSafe, EvaluateEdge,
       WriteNext, Handshake, dataVars, engineVars, channels
  <2>2. \/ dist' = dist
        \/ dist = "awaiting" /\ dist' \in {"exclusive", "spawning"}
        \/ dist = "collecting"
    BY <1>16 DEF Worker, Publish, Compute, Swap, FinishWork, EnterLoop, CheckRunning, CleanUp,
       EvaluateSafe, EvaluateEdge, WriteNext, Handshake, AcquireLock, Park, Resume, Greet, Report,
       barrierVars
  <2> QED BY <2>1, <2>2
<1>17. CASE UNCHANGED vars
  BY <1>17 DEF vars, turnVars, barrierVars, dataVars, engineVars, channels
<1> QED
  BY <1>1, <1>2, <1>3, <1>4, <1>5, <1>6, <1>7, <1>8, <1>9, <1>10, <1>11, <1>12, <1>13, <1>14,
     <1>15, <1>16, <1>17 DEF EngineNext, Distributor

\* A worker has counted the turn it has swapped its matrices in.
WorkerTurns ==
  /\ wturn \in [Thread -> Nat]
  /\ \A i \in Thread : wturn[i] = IF wfront[i] = front THEN turn ELSE turn + 1

\* The distributor's world is that of its turn.
WorldNow == turn \in 0..Turns /\ matrix.pixels = World[turn] /\ image \subseteq Cell

\* The turns are counted alike at the start.
LEMMA TurnsInit == EngineInit => WorkerTurns /\ WorldNow
<1> SUFFICES ASSUME EngineInit PROVE WorkerTurns /\ WorldNow
  OBVIOUS
<1>1. /\ turn = 0 /\ front = 0 /\ wfront = [i \in Thread |-> 0] /\ wturn = [i \in Thread |-> 0]
      /\ image = matrix.pixels
  BY DEF EngineInit, TurnInit, DataInit
<1>2. image \subseteq Cell
  <2>1. PICK w \in Images : buf = [k \in 0..1 |-> IF k = 0 THEN Loaded(w) ELSE MakeMatrix]
    BY DEF EngineInit, TurnInit, DataInit
  <2>2. matrix = Loaded(w) /\ w \in Images
    BY <1>1, <2>1 DEF matrix
  <2> QED BY <1>1, <2>2, ImagesAssumption DEF Loaded
<1>3. 0 \in 0..Turns
  BY TurnsAssumption
<1> QED BY <1>1, <1>2, <1>3, WorldUnfolds DEF WorkerTurns, WorldNow

\* Outside of a turn all workers have counted the same turns.
LEMMA AlikeOutside ==
  ASSUME PairInv, WorkerTurns, ~turning
  PROVE  \A i \in Thread : wturn[i] = turn
BY DEF PairInv, WorkerTurns, Swapped

\* A step of the evaluation that changes a pair or the turn: the swap of a
\* worker, and that of the distributor.
LEMMA WhoSwaps ==
  ASSUME BarrierInv, PairInv, DataInv, [EngineNext]_vars
  PROVE  /\ UNCHANGED image
         /\ \/ /\ UNCHANGED <<wfront, front, turn, wturn, matrix.pixels>>
               /\ turning' \in BOOLEAN
            \/ \E i \in Thread : Publish(i) /\ UNCHANGED matrix.pixels
            \/ Complete
<1>1. CASE Accept \/ Load \/ Announce \/ HandleTick \/ HandleNothing \/ SaveLast \/ Bye \/ Close
           \/ HandleKey \/ Tick
  BY <1>1 DEF Accept, Load, Announce, HandleTick, HandleNothing, SaveLast, Bye, Close, HandleKey, Tick,
     turnVars, dataVars, PairInv, matrix
<1>2. CASE Consume \/ Press \/ Sigterm \/ UNCHANGED vars
  BY <1>2 DEF Consume, Receive, SeeClosed, SendKey, Press, Sigterm, vars,
     turnVars, dataVars, engineVars, PairInv, matrix
<1>3. CASE CreateWorker \/ Begin \/ Finish
  BY <1>3 DEF CreateWorker, SpawnWorker, Begin, StartTurn, Finish, Quit, engineVars, dataVars, PairInv,
     matrix
<1>4. CASE Merge
  <2>1. PICK i \in Thread : MergeResult(i)
    BY <1>4 DEF Merge
  <2>2. matrix.pixels' = matrix.pixels
    BY <2>1, DataTypes DEF MergeResult, matrix, DataInv, DataTypeOK
  <2> QED BY <1>4, <2>1, <2>2 DEF Merge, MergeResult, engineVars, PairInv
<1>5. CASE Complete
  BY <1>5 DEF Complete
<1>6. ASSUME NEW i \in Thread, Compute(i)
      PROVE  UNCHANGED <<image, wfront, front, turn, wturn, matrix.pixels, turning>>
  <2>1. UNCHANGED <<image, wturn>>
    BY <1>6 DEF Compute, engineVars
  <2>2. CASE EnterLoop(i) \/ Handshake(i)
    BY <2>1, <2>2 DEF EnterLoop, Handshake, dataVars, matrix
  <2>3. CASE CleanUp(i) \/ EvaluateSafe(i) \/ EvaluateEdge(i)
    <3>1. worker[i] = "working"
      BY <2>3 DEF CleanUp, EvaluateSafe, EvaluateEdge, InStage
    <3>2. \E m : buf' = [buf EXCEPT ![1 - wfront[i]] = m]
      BY <2>3 DEF CleanUp, EvaluateSafe, EvaluateEdge, WriteNext
    <3>3. UNCHANGED <<front, wfront, turn, turning>>
      BY <2>3 DEF CleanUp, EvaluateSafe, EvaluateEdge, WriteNext
    <3>4. wfront[i] = front
      BY <3>1, WorkingInTurn
    <3>5. matrix.pixels' = matrix.pixels
      BY <3>2, <3>3, <3>4, DataTypes DEF matrix, DataInv, DataTypeOK
    <3> QED BY <2>1, <3>3, <3>5
  <2> QED BY <1>6, <2>2, <2>3 DEF Compute
<1>7. ASSUME NEW i \in Thread, Publish(i) PROVE UNCHANGED <<image, matrix.pixels>>
  BY <1>7 DEF Publish, Swap, matrix
<1> QED
  BY <1>1, <1>2, <1>3, <1>4, <1>5, <1>6, <1>7 DEF EngineNext, Distributor, Worker, PairInv

\* The turns stay counted alike, and the world is that of the turn.
LEMMA TurnsStep ==
  BarrierInv /\ PairInv /\ DataInv /\ WorkerTurns /\ WorldNow /\ [EngineNext]_vars
    => WorkerTurns' /\ WorldNow'
<1> SUFFICES ASSUME BarrierInv, PairInv, DataInv, WorkerTurns, WorldNow, [EngineNext]_vars
             PROVE  WorkerTurns' /\ WorldNow'
  OBVIOUS
<1>1. UNCHANGED image /\ UNCHANGED World
  BY WhoSwaps, WorldStays
<1>2. turn \in Nat /\ front \in 0..1 /\ wfront \in [Thread -> 0..1]
  BY TurnsAssumption DEF WorldNow, PairInv
<1>3. CASE UNCHANGED <<wfront, front, turn, wturn, matrix.pixels>>
  <2>1. matrix.pixels' = matrix.pixels
    BY <1>3
  <2> QED BY <1>1, <1>3, <2>1 DEF WorkerTurns, WorldNow
<1>4. ASSUME NEW i \in Thread, Publish(i), UNCHANGED matrix.pixels PROVE WorkerTurns' /\ WorldNow'
  <2>1. worker[i] = "working" /\ UNCHANGED <<front, turn>>
        /\ wfront' = [wfront EXCEPT ![i] = 1 - @] /\ wturn' = [wturn EXCEPT ![i] = @ + 1]
    BY <1>4 DEF Publish, Swap, InStage
  <2>2. wfront[i] = front
    BY <2>1, WorkingInTurn
  <2>3. wturn[i] = turn /\ wfront'[i] # front /\ wturn'[i] = turn + 1
    BY <1>2, <2>1, <2>2 DEF WorkerTurns
  <2>4. WorkerTurns'
    BY <1>2, <2>1, <2>2, <2>3 DEF WorkerTurns
  <2>5. matrix.pixels' = matrix.pixels
    BY <1>4
  <2> QED BY <1>1, <2>1, <2>4, <2>5 DEF WorldNow
<1>5. CASE Complete
  <2>1. /\ EndTurn /\ dist = "exclusive" /\ turning /\ front' = 1 - front /\ turn' = turn + 1
        /\ UNCHANGED <<wfront, wturn>>
    BY <1>5 DEF Complete, EndTurn
  <2>2. \A i \in Thread : wfront[i] = 1 - front
    BY <2>1 DEF PairInv, Swapped
  <2>3. WorkerTurns'
    BY <1>2, <2>1, <2>2 DEF WorkerTurns
  <2>4. turn < Turns
    BY <2>1 DEF DataInv, TurnInv
  <2>5. matrix.pixels' = Generation(matrix.pixels)
    BY <2>1, EndTurnStep DEF P
  <2>6. World[turn + 1] = Generation(World[turn]) /\ turn + 1 \in 0..Turns
    BY <1>2, <2>4, WorldUnfolds, TurnsAssumption
  <2>7. World'[turn'] = World[turn + 1]
    BY <1>1, <2>1
  <2> QED BY <1>1, <2>1, <2>3, <2>5, <2>6, <2>7 DEF WorldNow
<1> QED BY <1>3, <1>4, <1>5, WhoSwaps
------------------------------------------------------------------------------
(* The queue of events                                                       *)

\* What was sent and not received: the events channel, and behind it the event
\* the distributor is sending.
queue == events \o outbox

Event ==
  [type : {"CellsFlipped"}, turn : Nat, cells : SUBSET Cell, zeros : {0, Padding}]
    \cup [type : {"TurnComplete", "ImageOutputComplete"}, turn : Nat]
    \cup [type : {"AliveCellsCount"}, turn : Nat, count : Int]
    \cup [type : {"StateChange"}, turn : Nat, state : {"Executing", "Paused", "Quitting"}]
    \cup [type : {"FinalTurnComplete"}, turn : Nat, cells : SUBSET Cell]

Flip(m)    == m.type = "CellsFlipped" /\ m.zeros = 0       \* of a worker
Initial(m) == m.type = "CellsFlipped" /\ m.zeros # 0       \* of the loaded image

\* r is q with e behind it; r is q without its first event.
Longer(r, q, e) ==
  /\ Len(q) \in Nat /\ Len(r) = Len(q) + 1
  /\ \A k \in 1..Len(q) : r[k] = q[k]
  /\ r[Len(q) + 1] = e
Shorter(r, q) ==
  /\ Len(q) \in Nat /\ Len(q) >= 1 /\ Len(r) = Len(q) - 1
  /\ \A k \in 1..Len(r) : r[k] = q[k + 1]

\* An event carries the number of the turn t before it, TurnComplete the next.
Carries(m, t) == m.turn = IF m.type = "TurnComplete" THEN t + 1 ELSE t

\* The turn a receiver has seen completed before event k of q.
TurnBefore(q, v, k) == IF k = 1 THEN v ELSE q[k - 1].turn

\* q leads a receiver that is in turn v to turn t.
Follows(q, v, t) ==
  /\ Len(q) \in Nat /\ v \in Nat /\ t \in Nat /\ v <= t
  /\ \A k \in 1..Len(q) : q[k].turn \in v..t /\ Carries(q[k], TurnBefore(q, v, k))
  /\ TurnBefore(q, v, Len(q) + 1) = t
  /\ \A j, k \in 1..Len(q) : j <= k => q[j].turn <= q[k].turn

\* The flips of turn t that are behind event k of q.
Behind(q, k, t) ==
  {c \in Cell : \E j \in k + 1..Len(q) : Flip(q[j]) /\ q[j].turn = t /\ c \in q[j].cells}

\* Workers sent each flip of a turn once, and behind every event of the
\* distributor that carries the number of this turn.
Sent(q, pub) ==
  /\ \A k \in 1..Len(q) : Flip(q[k]) => q[k].cells \subseteq pub[q[k].turn]
  /\ \A j, k \in 1..Len(q) :
       j # k /\ Flip(q[j]) /\ Flip(q[k]) /\ q[j].turn = q[k].turn => q[j].cells \cap q[k].cells = {}
  /\ \A k \in 1..Len(q) : ~Flip(q[k]) => pub[q[k].turn] \subseteq Behind(q, k, q[k].turn)

\* The picture of a receiver in turn v: its world w, and the flips it received.
Picture(q, v, w, pub, pixels) ==
  pixels = {c \in Cell : c \in w <=> ~(c \in pub[v] /\ c \notin Behind(q, 0, v))}

\* A queue grows and shrinks event by event.
LEMMA QueueSteps ==
  ASSUME NEW S, NEW q \in Seq(S), NEW e \in S
  PROVE  /\ Append(q, e) \in Seq(S) /\ Longer(Append(q, e), q, e)
         /\ q # <<>> => Tail(q) \in Seq(S) /\ Shorter(Tail(q), q) /\ Head(q) = q[1]
         /\ q = <<>> <=> Len(q) = 0
BY DEF Longer, Shorter

\* An event that carries the turn the queue has come to continues it.
LEMMA FollowsLonger ==
  ASSUME NEW q, NEW r, NEW e, Longer(r, q, e), NEW v, NEW t, Follows(q, v, t), Carries(e, t)
  PROVE  Follows(r, v, e.turn)
<1>1. e.turn \in Nat /\ t <= e.turn
  BY DEF Carries, Follows
<1>2. \A k \in 1..Len(q) : TurnBefore(r, v, k) = TurnBefore(q, v, k)
  BY DEF TurnBefore, Longer
<1>3. TurnBefore(r, v, Len(q) + 1) = t
  BY DEF TurnBefore, Longer, Follows
<1>4. TurnBefore(r, v, Len(r) + 1) = e.turn
  BY DEF TurnBefore, Longer
<1>5. \A k \in 1..Len(r) : r[k].turn \in v..e.turn /\ Carries(r[k], TurnBefore(r, v, k))
  <2> TAKE k \in 1..Len(r)
  <2>1. CASE k = Len(q) + 1
    BY <1>1, <1>3, <2>1 DEF Longer, Follows
  <2>2. CASE k \in 1..Len(q)
    BY <1>1, <1>2, <2>2 DEF Longer, Follows
  <2> QED BY <2>1, <2>2 DEF Longer
<1>6. \A j, k \in 1..Len(r) : j <= k => r[j].turn <= r[k].turn
  <2> TAKE j, k \in 1..Len(r)
  <2>1. CASE k = Len(q) + 1
    BY <1>5, <2>1 DEF Longer, Follows
  <2>2. CASE k \in 1..Len(q) /\ j <= k
    BY <2>2 DEF Longer, Follows
  <2> QED BY <2>1, <2>2 DEF Longer
<1> QED BY <1>1, <1>4, <1>5, <1>6 DEF Follows, Longer

\* A receiver that takes the first event is in the turn this carries.
LEMMA FollowsShorter ==
  ASSUME NEW q, NEW r, Shorter(r, q), NEW v, NEW t, Follows(q, v, t)
  PROVE  /\ Follows(r, q[1].turn, t)
         /\ Carries(q[1], v)
<1>1. 1 \in 1..Len(q) /\ TurnBefore(q, v, 1) = v
  BY DEF Shorter, TurnBefore
<1>2. q[1].turn \in Nat /\ q[1].turn <= t
  BY <1>1 DEF Follows
<1>3. \A k \in 1..Len(r) + 1 : TurnBefore(r, q[1].turn, k) = TurnBefore(q, v, k + 1)
  BY DEF TurnBefore, Shorter
<1>4. \A k \in 1..Len(r) : k + 1 \in 1..Len(q) /\ r[k] = q[k + 1]
  BY DEF Shorter
<1>5. \A k \in 1..Len(r) : r[k].turn \in q[1].turn..t /\ Carries(r[k], TurnBefore(r, q[1].turn, k))
  <2> TAKE k \in 1..Len(r)
  <2>1. q[1].turn <= q[k + 1].turn
    BY <1>1, <1>4 DEF Follows
  <2> QED BY <1>2, <1>3, <1>4, <2>1 DEF Follows, Shorter
<1>6. TurnBefore(r, q[1].turn, Len(r) + 1) = t
  BY <1>3 DEF Follows, Shorter
<1>7. ASSUME NEW j \in 1..Len(r), NEW k \in 1..Len(r), j <= k PROVE r[j].turn <= r[k].turn
  <2>1. j + 1 <= k + 1 /\ j + 1 \in 1..Len(q) /\ k + 1 \in 1..Len(q)
    BY <1>4, <1>7
  <2>2. q[j + 1].turn <= q[k + 1].turn
    BY <2>1 DEF Follows
  <2> QED BY <1>4, <2>2
<1> QED BY <1>1, <1>2, <1>5, <1>6, <1>7 DEF Follows, Shorter

\* What is behind an event of a queue that grows,
LEMMA BehindLonger ==
  ASSUME NEW q, NEW r, NEW e, Longer(r, q, e), NEW k \in 0..Len(q), NEW t
  PROVE  Behind(r, k, t) = IF Flip(e) /\ e.turn = t THEN Behind(q, k, t) \cup (e.cells \cap Cell)
                                                   ELSE Behind(q, k, t)
<1>1. Len(q) \in Nat /\ Len(r) = Len(q) + 1 /\ r[Len(q) + 1] = e
      /\ \A j \in k + 1..Len(q) : r[j] = q[j]
  BY DEF Longer
<1>2. \A j : j \in k + 1..Len(r) <=> j \in k + 1..Len(q) \/ j = Len(q) + 1
  BY <1>1
<1> QED BY <1>1, <1>2 DEF Behind

\* of one that shrinks,
LEMMA BehindShorter ==
  ASSUME NEW q, NEW r, Shorter(r, q), NEW k \in Nat, NEW t
  PROVE  Behind(r, k, t) = Behind(q, k + 1, t)
<1>1. \A j \in k + 1..Len(r) : j + 1 \in (k + 1) + 1..Len(q) /\ r[j] = q[j + 1]
  BY DEF Shorter
<1>2. \A j \in (k + 1) + 1..Len(q) : j - 1 \in k + 1..Len(r) /\ r[j - 1] = q[j]
  BY DEF Shorter
<1> QED BY <1>1, <1>2 DEF Behind

\* and in front of the first event.
LEMMA BehindFirst ==
  ASSUME NEW q, Len(q) \in Nat, Len(q) >= 1, NEW t
  PROVE  Behind(q, 0, t) = IF Flip(q[1]) /\ q[1].turn = t
                           THEN Behind(q, 1, t) \cup (q[1].cells \cap Cell) ELSE Behind(q, 1, t)
<1>1. \A j : j \in 0 + 1..Len(q) <=> j = 1 \/ j \in 1 + 1..Len(q)
  OBVIOUS
<1> QED BY <1>1 DEF Behind

\* The distributor sends when nothing of the turn it names was sent.
LEMMA SentMark ==
  ASSUME NEW q, NEW r, NEW e, Longer(r, q, e), NEW pub, Sent(q, pub), ~Flip(e), pub[e.turn] = {}
  PROVE  Sent(r, pub) /\ \A t : Behind(r, 0, t) = Behind(q, 0, t)
<1>1. /\ Len(q) \in Nat /\ Len(r) = Len(q) + 1 /\ r[Len(q) + 1] = e
      /\ \A k \in 1..Len(q) : r[k] = q[k]
  BY DEF Longer
<1>2. \A k \in 1..Len(r) : k \in 1..Len(q) \/ k = Len(q) + 1
  BY <1>1
<1>3. ASSUME NEW k \in 0..Len(q), NEW t PROVE Behind(r, k, t) = Behind(q, k, t)
  BY BehindLonger
<1>4. \A k \in 1..Len(r) : Flip(r[k]) => k \in 1..Len(q)
  BY <1>1, <1>2
<1>5. \A k \in 1..Len(r) : ~Flip(r[k]) => pub[r[k].turn] \subseteq Behind(r, k, r[k].turn)
  <2> TAKE k \in 1..Len(r)
  <2>1. CASE k \in 1..Len(q)
    BY <1>1, <1>3, <2>1 DEF Sent
  <2> QED BY <1>1, <1>2, <2>1
<1> QED BY <1>1, <1>3, <1>4, <1>5 DEF Sent

\* With the flips e, the sent cells pub of the turns in D become new.
Adds(new, pub, D, e) ==
  /\ e.cells \cap pub[e.turn] = {} /\ new[e.turn] = pub[e.turn] \cup e.cells
  /\ \A t \in D : t # e.turn => new[t] = pub[t]

\* A worker sends flips of turn t that were not sent before.
LEMMA SentFlip ==
  ASSUME NEW q, NEW r, NEW e, Longer(r, q, e), NEW pub, NEW new, Sent(q, pub),
         Flip(e), e.cells \subseteq Cell,
         NEW D, \A k \in 1..Len(q) : q[k].turn \in D, Adds(new, pub, D, e)
  PROVE  /\ Sent(r, new)
         /\ \A t : Behind(r, 0, t) = IF t = e.turn THEN Behind(q, 0, t) \cup e.cells ELSE Behind(q, 0, t)
<1>1. /\ Len(q) \in Nat /\ Len(r) = Len(q) + 1 /\ r[Len(q) + 1] = e
      /\ \A k \in 1..Len(q) : r[k] = q[k]
  BY DEF Longer
<1>2. \A k \in 1..Len(r) : k \in 1..Len(q) \/ k = Len(q) + 1
  BY <1>1
<1>3. ASSUME NEW k \in 0..Len(q), NEW t
      PROVE  Behind(r, k, t) = IF t = e.turn THEN Behind(q, k, t) \cup e.cells ELSE Behind(q, k, t)
  <2>1. e.cells \cap Cell = e.cells
    OBVIOUS
  <2> QED BY <2>1, BehindLonger
<1>4. \A t \in D : pub[t] \subseteq new[t]
  BY DEF Adds
<1>5. \A k \in 1..Len(r) : Flip(r[k]) => r[k].cells \subseteq new[r[k].turn]
  BY <1>1, <1>2, <1>4 DEF Sent, Adds
<1>6. \A j, k \in 1..Len(r) :
        j # k /\ Flip(r[j]) /\ Flip(r[k]) /\ r[j].turn = r[k].turn => r[j].cells \cap r[k].cells = {}
  <2> TAKE j, k \in 1..Len(r)
  <2> HAVE j # k /\ Flip(r[j]) /\ Flip(r[k]) /\ r[j].turn = r[k].turn
  <2>1. CASE j \in 1..Len(q) /\ k \in 1..Len(q)
    BY <1>1, <2>1 DEF Sent
  <2>2. CASE j \in 1..Len(q) /\ k = Len(q) + 1
    BY <1>1, <2>2 DEF Sent, Adds
  <2>3. CASE k \in 1..Len(q) /\ j = Len(q) + 1
    BY <1>1, <2>3 DEF Sent, Adds
  <2> QED BY <1>2, <2>1, <2>2, <2>3
<1>7. \A k \in 1..Len(r) : ~Flip(r[k]) => new[r[k].turn] \subseteq Behind(r, k, r[k].turn)
  <2> TAKE k \in 1..Len(r)
  <2> HAVE ~Flip(r[k])
  <2>1. k \in 1..Len(q) /\ r[k] = q[k]
    BY <1>1, <1>2
  <2>2. pub[r[k].turn] \subseteq Behind(q, k, r[k].turn)
    BY <2>1 DEF Sent
  <2>3. k \in 0..Len(q) /\ r[k].turn \in D
    BY <1>1, <2>1
  <2>4. CASE r[k].turn = e.turn
    BY <1>3, <2>2, <2>3, <2>4 DEF Adds
  <2>5. CASE r[k].turn # e.turn
    BY <1>3, <2>2, <2>3, <2>5 DEF Adds
  <2> QED BY <2>4, <2>5
<1>8. 0 \in 0..Len(q)
  BY <1>1
<1> QED BY <1>3, <1>5, <1>6, <1>7, <1>8 DEF Sent

\* A receiver takes the first event.
LEMMA SentShorter ==
  ASSUME NEW q, NEW r, Shorter(r, q), NEW pub, Sent(q, pub)
  PROVE  Sent(r, pub)
<1>1. \A k \in 1..Len(r) : k + 1 \in 1..Len(q) /\ r[k] = q[k + 1] /\ k \in Nat
  BY DEF Shorter
<1>2. \A k \in 1..Len(r) : \A t : Behind(r, k, t) = Behind(q, k + 1, t)
  BY <1>1, BehindShorter
<1>3. \A j, k \in 1..Len(r) : j # k => j + 1 # k + 1
  BY <1>1
<1>4. \A k \in 1..Len(r) : Flip(r[k]) => r[k].cells \subseteq pub[r[k].turn]
  BY <1>1 DEF Sent
<1>5. ASSUME NEW j \in 1..Len(r), NEW k \in 1..Len(r), j # k,
             Flip(r[j]), Flip(r[k]), r[j].turn = r[k].turn
      PROVE  r[j].cells \cap r[k].cells = {}
  <2>1. j + 1 # k + 1 /\ j + 1 \in 1..Len(q) /\ k + 1 \in 1..Len(q)
    BY <1>1, <1>3, <1>5
  <2> QED BY <1>1, <1>5, <2>1 DEF Sent
<1>6. ASSUME NEW k \in 1..Len(r), ~Flip(r[k])
      PROVE  pub[r[k].turn] \subseteq Behind(r, k, r[k].turn)
  <2>1. pub[r[k].turn] \subseteq Behind(q, k + 1, r[k].turn)
    BY <1>1, <1>6 DEF Sent
  <2> QED BY <1>2, <2>1
<1> QED BY <1>4, <1>5, <1>6 DEF Sent
------------------------------------------------------------------------------
(* The picture of a receiver                                                 *)

\* The cells that change in the turn after world w.
Changing(w) == {c \in Cell : c \in w <=> c \notin Generation(w)}

\* A picture stays when the distributor sends,
LEMMA PictureMark ==
  ASSUME NEW q, NEW r, NEW v, NEW w, NEW pub, NEW px, Picture(q, v, w, pub, px),
         \A t : Behind(r, 0, t) = Behind(q, 0, t)
  PROVE  Picture(r, v, w, pub, px)
BY DEF Picture

\* and when a worker sends flips: the receiver does not have them yet.
LEMMA PictureFlip ==
  ASSUME NEW q, NEW r, NEW e, NEW v, NEW w, NEW pub, NEW new, NEW px, Picture(q, v, w, pub, px),
         Behind(q, 0, e.turn) \subseteq pub[e.turn], NEW D, v \in D, Adds(new, pub, D, e),
         \A t : Behind(r, 0, t) = IF t = e.turn THEN Behind(q, 0, t) \cup e.cells ELSE Behind(q, 0, t)
  PROVE  Picture(r, v, w, new, px)
<1>1. \A c : c \in new[v] /\ c \notin Behind(r, 0, v) <=> c \in pub[v] /\ c \notin Behind(q, 0, v)
  <2>1. CASE v = e.turn
    BY <2>1, Zenon DEF Adds
  <2>2. CASE v # e.turn
    BY <2>2, Zenon DEF Adds
  <2> QED BY <2>1, <2>2
<1> QED BY <1>1 DEF Picture

\* The flips in front are shown for the first time, and change the picture.
LEMMA PictureTakesFlip ==
  ASSUME NEW q, NEW r, Shorter(r, q), NEW v, NEW w, NEW pub, NEW px, Sent(q, pub),
         Picture(q, v, w, pub, px), Flip(q[1]), q[1].turn = v, pub[v] \subseteq Cell
  PROVE  Picture(r, v, w, pub, (px \ q[1].cells) \cup (q[1].cells \ px))
<1> DEFINE F == q[1].cells
<1>1. Len(q) \in Nat /\ Len(q) >= 1 /\ 1 \in 1..Len(q)
  BY DEF Shorter
<1>2. F \subseteq pub[v] /\ F \subseteq Cell
  BY <1>1 DEF Sent
<1>3. Behind(q, 0, v) = Behind(q, 1, v) \cup F
  <2>1. F \cap Cell = F
    BY <1>2
  <2> QED BY <1>1, <2>1, BehindFirst
<1>4. F \cap Behind(q, 1, v) = {}
  <2> SUFFICES ASSUME NEW c \in F, c \in Behind(q, 1, v) PROVE FALSE
    OBVIOUS
  <2>1. PICK j \in 1 + 1..Len(q) : Flip(q[j]) /\ q[j].turn = v /\ c \in q[j].cells
    BY DEF Behind
  <2>2. j # 1 /\ j \in 1..Len(q)
    BY <1>1, <2>1
  <2>3. q[1].cells \cap q[j].cells = {}
    BY <1>1, <2>1, <2>2 DEF Sent
  <2> QED BY <2>1, <2>3
<1>5. Behind(r, 0, v) = Behind(q, 1, v)
  BY BehindShorter
<1> HIDE DEF F
<1>6. \A c \in Cell : (c \in pub[v] /\ c \notin Behind(r, 0, v)) <=>
                      ((c \in pub[v] /\ c \notin Behind(q, 0, v)) \/ c \in F)
  BY <1>2, <1>3, <1>4, <1>5
<1>7. \A c \in F : c \in Behind(q, 0, v)
  BY <1>3
<1>8. \A c \in Cell : c \in px <=> (c \in w <=> ~(c \in pub[v] /\ c \notin Behind(q, 0, v)))
  BY DEF Picture
<1>9. px \subseteq Cell
  BY DEF Picture
<1>10. \A c \in Cell : c \in (px \ F) \cup (F \ px) <=>
                       (c \in w <=> ~(c \in pub[v] /\ c \notin Behind(r, 0, v)))
  BY <1>6, <1>7, <1>8
<1>11. (px \ F) \cup (F \ px) \subseteq Cell
  BY <1>2, <1>9
<1> QED BY <1>10, <1>11 DEF Picture, F

\* An event of the distributor in front finds all that was sent of its turn
\* behind it: the picture is the world.
LEMMA PictureAtMark ==
  ASSUME NEW q, Len(q) \in Nat, Len(q) >= 1, NEW v, NEW w, NEW pub, NEW px, Sent(q, pub),
         Picture(q, v, w, pub, px), ~Flip(q[1]), q[1].turn = v, w \subseteq Cell
  PROVE  px = w
<1>1. pub[v] \subseteq Behind(q, 1, v)
  BY DEF Sent
<1>2. Behind(q, 0, v) = Behind(q, 1, v)
  BY BehindFirst
<1> QED BY <1>1, <1>2 DEF Picture

\* Taking it leaves the picture as it is.
LEMMA PictureTakesMark ==
  ASSUME NEW q, NEW r, Shorter(r, q), NEW v, NEW w, NEW pub, NEW px,
         Picture(q, v, w, pub, px), ~Flip(q[1])
  PROVE  Picture(r, v, w, pub, px)
<1>1. Behind(r, 0, v) = Behind(q, 1, v)
  BY BehindShorter
<1>2. Behind(q, 0, v) = Behind(q, 1, v)
  BY BehindFirst DEF Shorter
<1> QED BY <1>1, <1>2 DEF Picture

\* TurnComplete in front finds all flips of its turn received, and all that was
\* sent of the next behind it: the picture is the next generation.
LEMMA PictureTakesTurn ==
  ASSUME NEW q, NEW r, Shorter(r, q), NEW v, NEW t, NEW w, NEW pub, NEW px, Sent(q, pub),
         Follows(q, v, t), Picture(q, v, w, pub, px), q[1].type = "TurnComplete",
         pub[v] = Changing(w), w \subseteq Cell
  PROVE  px = Generation(w) /\ Picture(r, v + 1, px, pub, px)
<1>1. Len(q) \in Nat /\ Len(q) >= 1 /\ 1 \in 1..Len(q) /\ v \in Nat
  BY DEF Shorter, Follows
<1>2. q[1].turn = v + 1 /\ ~Flip(q[1])
  BY FollowsShorter DEF Carries, Flip
<1>3. \A j \in 1..Len(q) : q[j].turn # v
  <2> TAKE j \in 1..Len(q)
  <2>1. q[1].turn <= q[j].turn /\ q[j].turn \in v..t
    BY <1>1 DEF Follows
  <2> QED BY <1>1, <1>2, <2>1
<1>4. Behind(q, 0, v) = {}
  BY <1>3 DEF Behind
<1>5. Generation(w) \subseteq Cell
  BY DEF Generation
<1>6. px = Generation(w)
  BY <1>4, <1>5 DEF Picture, Changing
<1>7. pub[v + 1] \subseteq Behind(q, 1, v + 1)
  BY <1>1, <1>2 DEF Sent
<1>8. Behind(r, 0, v + 1) = Behind(q, 1, v + 1)
  BY BehindShorter
<1> QED BY <1>5, <1>6, <1>7, <1>8 DEF Picture

\* The loaded image in front: the picture begins with it.
LEMMA PictureStarts ==
  ASSUME NEW q, NEW r, Shorter(r, q), NEW v, NEW w, NEW pub, Sent(q, pub),
         ~Flip(q[1]), q[1].turn = v, w \subseteq Cell
  PROVE  Picture(r, v, w, pub, w)
<1>1. pub[v] \subseteq Behind(q, 1, v)
  BY DEF Sent, Shorter
<1>2. Behind(r, 0, v) = Behind(q, 1, v)
  BY BehindShorter
<1> QED BY <1>1, <1>2 DEF Picture

\* What an event of the distributor says of the world w of its turn is true.
TrueOf(m, w, files) ==
  /\ m.type = "AliveCellsCount" => m.count = Cardinality(w)
  /\ m.type = "ImageOutputComplete" => files = {w}
  /\ m.type = "FinalTurnComplete" => m.cells = w

Pausing(m)  == m.type = "StateChange" /\ m.state = "Paused"
Resuming(m) == m.type = "StateChange" /\ m.state # "Paused"

\* The last that a receiver in state s hears before event k of q is that the
\* evaluation is paused.
PausedBefore(q, s, k) ==
  \/ s = "Paused" /\ \A j \in 1..k - 1 : ~Resuming(q[j])
  \/ \E m \in 1..k - 1 : Pausing(q[m]) /\ \A j \in m + 1..k - 1 : ~Resuming(q[j])

\* A queue that grows,
LEMMA PausedLonger ==
  ASSUME NEW q, NEW r, NEW e, Longer(r, q, e), NEW s
  PROVE  /\ \A k \in 1..Len(q) + 1 : PausedBefore(r, s, k) <=> PausedBefore(q, s, k)
         /\ PausedBefore(r, s, Len(r) + 1) =>
              Pausing(e) \/ (~Resuming(e) /\ PausedBefore(q, s, Len(q) + 1))
<1>1. /\ Len(q) \in Nat /\ Len(r) = Len(q) + 1 /\ r[Len(q) + 1] = e
      /\ \A k \in 1..Len(q) : r[k] = q[k]
  BY DEF Longer
<1>2. ASSUME NEW k \in 1..Len(q) + 1 PROVE PausedBefore(r, s, k) <=> PausedBefore(q, s, k)
  <2>1. \A j \in 1..k - 1 : r[j] = q[j]
    BY <1>1
  <2>2. \A m \in 1..k - 1 : \A j \in m + 1..k - 1 : j \in 1..k - 1
    BY <1>1
  <2> QED BY <2>1, <2>2 DEF PausedBefore
<1>3. ASSUME PausedBefore(r, s, Len(r) + 1), ~Pausing(e)
      PROVE  ~Resuming(e) /\ PausedBefore(q, s, Len(q) + 1)
  <2>1. (Len(r) + 1) - 1 = Len(q) + 1 /\ (Len(q) + 1) - 1 = Len(q) /\ Len(q) + 1 \in 1..Len(q) + 1
    BY <1>1
  <2>2. CASE s = "Paused" /\ \A j \in 1..Len(q) + 1 : ~Resuming(r[j])
    <3>1. \A j \in 1..Len(q) : ~Resuming(q[j])
      BY <1>1, <2>2
    <3> QED BY <1>1, <2>1, <2>2, <3>1 DEF PausedBefore
  <2>3. ASSUME NEW m \in 1..Len(q) + 1, Pausing(r[m]), \A j \in m + 1..Len(q) + 1 : ~Resuming(r[j])
        PROVE  ~Resuming(e) /\ PausedBefore(q, s, Len(q) + 1)
    <3>1. m \in 1..Len(q)
      BY <1>1, <1>3, <2>3
    <3>2. Len(q) + 1 \in m + 1..Len(q) + 1 /\ \A j \in m + 1..Len(q) : j \in m + 1..Len(q) + 1 /\ r[j] = q[j]
      BY <1>1, <3>1
    <3>3. ~Resuming(e) /\ \A j \in m + 1..Len(q) : ~Resuming(q[j])
      BY <1>1, <2>3, <3>2
    <3>4. Pausing(q[m])
      BY <1>1, <2>3, <3>1
    <3> QED BY <2>1, <3>1, <3>3, <3>4 DEF PausedBefore
  <2> QED BY <1>3, <2>1, <2>2, <2>3 DEF PausedBefore
<1> QED BY <1>2, <1>3

\* and one that shrinks, by an event that leads the receiver to state u.
LEMMA PausedShorter ==
  ASSUME NEW q, NEW r, Shorter(r, q), NEW s, NEW u,
         u = "Paused" => Pausing(q[1]) \/ (s = "Paused" /\ ~Resuming(q[1])),
         NEW k \in 1..Len(r) + 1, PausedBefore(r, u, k)
  PROVE  PausedBefore(q, s, k + 1)
<1>1. /\ Len(q) \in Nat /\ Len(q) >= 1 /\ Len(r) = Len(q) - 1 /\ (k + 1) - 1 = k /\ k \in Nat /\ 1 \in 1..k
      /\ \A j \in 1..k - 1 : r[j] = q[j + 1]
      /\ \A j \in 2..k : j - 1 \in 1..k - 1 /\ r[j - 1] = q[j]
  BY DEF Shorter
<1>2. CASE u = "Paused" /\ \A j \in 1..k - 1 : ~Resuming(r[j])
  <2>1. \A j \in 2..k : ~Resuming(q[j])
    BY <1>1, <1>2
  <2>2. \A j \in 1..k : j = 1 \/ j \in 2..k
    BY <1>1
  <2>3. CASE Pausing(q[1])
    <3>1. 1 + 1 = 2
      OBVIOUS
    <3> QED BY <1>1, <2>1, <2>3, <3>1 DEF PausedBefore
  <2>4. CASE s = "Paused" /\ ~Resuming(q[1])
    BY <1>1, <2>1, <2>2, <2>4 DEF PausedBefore
  <2> QED BY <1>2, <2>3, <2>4
<1>3. ASSUME NEW m \in 1..k - 1, Pausing(r[m]), \A j \in m + 1..k - 1 : ~Resuming(r[j])
      PROVE  PausedBefore(q, s, k + 1)
  <2>1. m + 1 \in 1..k /\ Pausing(q[m + 1])
    BY <1>1, <1>3
  <2>2. \A j \in (m + 1) + 1..k : j - 1 \in m + 1..k - 1 /\ j \in 2..k
    BY <1>1
  <2>3. \A j \in (m + 1) + 1..k : ~Resuming(q[j])
    BY <1>1, <1>3, <2>2
  <2> QED BY <1>1, <2>1, <2>3 DEF PausedBefore
<1> QED BY <1>2, <1>3 DEF PausedBefore

\* The events and what they carry.
LEMMA Events ==
  ASSUME NEW t \in Nat
  PROVE  /\ \A F \in SUBSET Cell :
              /\ CellsFlipped(t, F) \in Event /\ CellsFlipped(t, F).type = "CellsFlipped"
              /\ CellsFlipped(t, F).turn = t /\ CellsFlipped(t, F).cells = F
              /\ CellsFlipped(t, F).zeros = 0
         /\ \A F \in SUBSET Cell :
              /\ InitialFlips(F) \in Event /\ InitialFlips(F).type = "CellsFlipped"
              /\ InitialFlips(F).turn = 0 /\ InitialFlips(F).cells = F
              /\ InitialFlips(F).zeros = Padding
         /\ /\ TurnComplete(t) \in Event /\ TurnComplete(t).type = "TurnComplete"
            /\ TurnComplete(t).turn = t
         /\ /\ ImageOutputComplete(t) \in Event /\ ImageOutputComplete(t).turn = t
            /\ ImageOutputComplete(t).type = "ImageOutputComplete"
         /\ \A n \in Int :
              /\ AliveCellsCount(t, n) \in Event /\ AliveCellsCount(t, n).type = "AliveCellsCount"
              /\ AliveCellsCount(t, n).turn = t /\ AliveCellsCount(t, n).count = n
         /\ \A s \in {"Executing", "Paused", "Quitting"} :
              /\ StateChange(t, s) \in Event /\ StateChange(t, s).type = "StateChange"
              /\ StateChange(t, s).turn = t /\ StateChange(t, s).state = s
         /\ \A F \in SUBSET Cell :
              /\ FinalTurnComplete(t, F) \in Event
              /\ FinalTurnComplete(t, F).type = "FinalTurnComplete"
              /\ FinalTurnComplete(t, F).turn = t /\ FinalTurnComplete(t, F).cells = F
<1>1. \A F \in SUBSET Cell :
        /\ CellsFlipped(t, F) \in Event /\ CellsFlipped(t, F).type = "CellsFlipped"
        /\ CellsFlipped(t, F).turn = t /\ CellsFlipped(t, F).cells = F
        /\ CellsFlipped(t, F).zeros = 0
  BY DEF CellsFlipped, Event
<1>2. \A F \in SUBSET Cell :
        /\ InitialFlips(F) \in Event /\ InitialFlips(F).type = "CellsFlipped"
        /\ InitialFlips(F).turn = 0 /\ InitialFlips(F).cells = F
        /\ InitialFlips(F).zeros = Padding
  BY DEF InitialFlips, CellsFlipped, Event, Padding
<1>3. /\ TurnComplete(t) \in Event /\ TurnComplete(t).type = "TurnComplete"
      /\ TurnComplete(t).turn = t
  BY DEF TurnComplete, Event
<1>4. /\ ImageOutputComplete(t) \in Event /\ ImageOutputComplete(t).turn = t
      /\ ImageOutputComplete(t).type = "ImageOutputComplete"
  BY DEF ImageOutputComplete, Event
<1>5. \A n \in Int :
        /\ AliveCellsCount(t, n) \in Event /\ AliveCellsCount(t, n).type = "AliveCellsCount"
        /\ AliveCellsCount(t, n).turn = t /\ AliveCellsCount(t, n).count = n
  BY DEF AliveCellsCount, Event
<1>6. \A s \in {"Executing", "Paused", "Quitting"} :
        /\ StateChange(t, s) \in Event /\ StateChange(t, s).type = "StateChange"
        /\ StateChange(t, s).turn = t /\ StateChange(t, s).state = s
  BY DEF StateChange, Event
<1>7. \A F \in SUBSET Cell :
        /\ FinalTurnComplete(t, F) \in Event
        /\ FinalTurnComplete(t, F).type = "FinalTurnComplete"
        /\ FinalTurnComplete(t, F).turn = t /\ FinalTurnComplete(t, F).cells = F
  BY DEF FinalTurnComplete, Event
<1> QED BY <1>1, <1>2, <1>3, <1>4, <1>5, <1>6, <1>7

\* Sending, accepting and receiving an event.
LEMMA QueueMoves ==
  ASSUME NEW S, NEW a \in Seq(S), NEW b \in Seq(S), NEW e \in S
  PROVE  /\ a \o <<>> = a /\ a \o <<e>> = Append(a, e) /\ <<e>> \in Seq(S) /\ Len(<<e>>) = 1
         /\ (a \o b) \o <<>> = a \o b
         /\ a \o b \in Seq(S) /\ Len(a \o b) = Len(a) + Len(b)
         /\ a # <<>> => /\ Tail(a) \o b = Tail(a \o b) /\ Head(a \o b) = Head(a) /\ a \o b # <<>>
                        /\ Tail(a) \in Seq(S) /\ Len(Tail(a)) = Len(a) - 1
<1>1. a \o <<e>> = Append(a, e)
  OBVIOUS
<1>2. a \o b \in Seq(S) /\ Len(a \o b) = Len(a) + Len(b) /\ <<e>> \in Seq(S) /\ Len(<<e>>) = 1
  OBVIOUS
<1>3. a \o <<>> = a /\ (a \o b) \o <<>> = a \o b
  BY <1>2
<1>4. ASSUME a # <<>>
      PROVE  /\ Tail(a) \o b = Tail(a \o b) /\ Head(a \o b) = Head(a) /\ a \o b # <<>>
             /\ Tail(a) \in Seq(S) /\ Len(Tail(a)) = Len(a) - 1
  BY <1>2, <1>4
<1> QED BY <1>1, <1>2, <1>3, <1>4

------------------------------------------------------------------------------
(* What the workers have sent                                                *)

\* The cells that change in turn t and whose workers have sent them.
published ==
  [t \in 0..Turns |->
     {c \in Changing(World[t]) : \E i \in Thread : wturn[i] > t /\ c \in CellsOf(Blocks[i])}]

\* Worlds and what was sent of them lie on the grid.
LEMMA WorldCells ==
  ASSUME WorldNow
  PROVE  /\ \A t \in 0..Turns : World[t] \subseteq Cell
         /\ \A t \in 0..Turns : published[t] \subseteq Cell
<1>1. ASSUME NEW t \in 0..Turns PROVE World[t] \subseteq Cell
  <2>1. CASE t = 0
    BY <2>1, WorldUnfolds DEF WorldNow
  <2>2. CASE t # 0
    <3>1. t - 1 \in 0..Turns - 1 /\ (t - 1) + 1 = t
      BY <2>2, TurnsAssumption
    <3>2. World[t] = Generation(World[t - 1])
      BY <3>1, WorldUnfolds
    <3> QED BY <3>2 DEF Generation
  <2> QED BY <2>1, <2>2
<1> QED BY <1>1 DEF published, Changing

\* Only workers send.
LEMMA PublishedStays ==
  ASSUME UNCHANGED <<image, wturn>>
  PROVE  UNCHANGED published
BY WorldStays DEF published

\* Of a turn that is complete everything was sent.
LEMMA PublishedAll ==
  ASSUME WorkerTurns, WorldNow, NEW t \in Nat, t < turn
  PROVE  published[t] = Changing(World[t])
<1>1. t \in 0..Turns /\ turn \in Nat
  BY TurnsAssumption DEF WorldNow
<1>2. \A i \in Thread : wturn[i] > t
  BY <1>1 DEF WorkerTurns
<1>3. \A c \in Changing(World[t]) : \E i \in Thread : c \in CellsOf(Blocks[i])
  BY BlocksTile DEF Changing
<1> QED BY <1>1, <1>2, <1>3 DEF published

\* A worker sends the changing cells of its block.
LEMMA PublishedMore ==
  ASSUME BarrierInv, PairInv, DataInv, WorkerTurns, WorldNow, NEW i \in Thread, Publish(i)
  PROVE  /\ flipping[i] \subseteq Cell /\ flipping[i] \cap published[turn] = {}
         /\ published'[turn] = published[turn] \cup flipping[i]
         /\ \A t \in 0..Turns : t # turn => published'[t] = published[t]
         /\ wturn[i] = turn /\ turning /\ turn \in Nat
<1>1. worker[i] = "working" /\ stage[i] = DoneStage /\ image' = image
      /\ wturn' = [wturn EXCEPT ![i] = @ + 1]
  BY DEF Publish, Swap, InStage
<1>2. turning /\ TurnInv /\ wfront[i] = front /\ Progress(i) = DoneStage
  BY <1>1, WorkingInTurn
<1>3. wturn[i] = turn /\ turn \in Nat /\ turn \in 0..Turns /\ wturn \in [Thread -> Nat]
      /\ wturn'[i] = turn + 1 /\ \A j \in Thread : j # i => wturn'[j] = wturn[j]
  BY <1>1, <1>2, TurnsAssumption DEF WorkerTurns, WorldNow
<1>4. flipping[i] = Flips(matrix, CellsOf(Blocks[i]))
  <2>1. Buffers(i, DoneStage)
    BY <1>2 DEF TurnInv, DoneStage
  <2> QED BY <2>1, CheckedGrows DEF Buffers
<1>5. CellsOf(Blocks[i]) \subseteq Cell
  BY DEF CellsOf, Rect
<1>6. flipping[i] = {c \in Changing(World[turn]) : c \in CellsOf(Blocks[i])}
  <2>1. P = World[turn] /\ P \subseteq Cell
    BY WorldCells, <1>3 DEF WorldNow, P
  <2>2. Flipped(P, Flips(matrix, Cell)) = Generation(P)
    BY DataTypes, FlipsAreGeneration DEF P
  <2>3. \A c \in Cell : c \in Flips(matrix, Cell) <=> (c \in P <=> c \notin Generation(P))
    BY <2>2 DEF Flipped
  <2>4. \A c \in Cell : c \in Flips(matrix, CellsOf(Blocks[i]))
                          <=> c \in CellsOf(Blocks[i]) /\ c \in Flips(matrix, Cell)
    BY <1>5 DEF Flips
  <2>5. flipping[i] \subseteq CellsOf(Blocks[i])
    BY <1>4 DEF Flips
  <2> QED BY <1>4, <1>5, <2>1, <2>3, <2>4, <2>5 DEF Changing
<1>7. \A j \in Thread : wturn[j] > turn => CellsOf(Blocks[j]) \cap CellsOf(Blocks[i]) = {}
  BY <1>3, BlocksTile
<1>8. published[turn] =
        {c \in Changing(World[turn]) : \E j \in Thread : wturn[j] > turn /\ c \in CellsOf(Blocks[j])}
  BY <1>3 DEF published
<1>9. \A t \in 0..Turns : published'[t] =
        {c \in Changing(World[t]) : \E j \in Thread : wturn'[j] > t /\ c \in CellsOf(Blocks[j])}
  BY <1>1, WorldStays DEF published, Changing
<1>10. \A j \in Thread : wturn'[j] > turn <=> (j = i \/ wturn[j] > turn)
  BY <1>3
<1>11. published'[turn] = published[turn] \cup flipping[i]
  <2>1. published'[turn] =
          {c \in Changing(World[turn]) : \E j \in Thread : wturn'[j] > turn /\ c \in CellsOf(Blocks[j])}
    BY <1>3, <1>9
  <2> QED BY <1>6, <1>8, <1>10, <2>1
<1>12. ASSUME NEW t \in 0..Turns, t # turn PROVE published'[t] = published[t]
  <2>1. \A j \in Thread : wturn'[j] > t <=> wturn[j] > t
    BY <1>3, <1>12
  <2>2. published[t] =
          {c \in Changing(World[t]) : \E j \in Thread : wturn[j] > t /\ c \in CellsOf(Blocks[j])}
    BY DEF published
  <2> QED BY <1>9, <2>1, <2>2
<1>13. flipping[i] \cap published[turn] = {}
  BY <1>6, <1>7, <1>8
<1> QED BY <1>2, <1>3, <1>6, <1>11, <1>12, <1>13 DEF Changing

------------------------------------------------------------------------------
(* What is on its way                                                        *)

\* The channels hold events and keys, no more than they have room for.
Channels ==
  /\ events \in Seq(Event) /\ outbox \in Seq(Event)
  /\ outbox = <<>> \/ Len(outbox) = 1
  /\ Len(events) <= EventCap
  /\ keyPresses \in Seq(Keys \cup {"q"}) /\ pressing \in Seq(Keys \cup {"q"})
  /\ pressing = <<>> \/ Len(pressing) = 1
  /\ Len(keyPresses) <= KeyCap
  /\ DOMAIN view = {"open", "pixels", "turn", "state"}

\* Every file holds the world of its turn.
Files ==
  /\ disk \in [0..Turns -> SUBSET SUBSET Cell]
  /\ \A t \in 0..Turns : disk[t] = {} \/ disk[t] = {World[t]}

\* A goroutine takes a key from the channel, or leaves it alone.
Consumed(keys, rest) == rest = keys \/ (keys # <<>> /\ rest = Tail(keys))

\* The distributor goes from its statement to the next.
Goes(e) ==
  /\ loc \notin {"close", "returned"} /\ loc' \notin {"load", "returned"}
  /\ (e.type = "StateChange" /\ e.state = "Quitting") <=> loc' = "close"
  /\ loc' = "bye" => disk'[turn'] = {matrix.pixels'}
  /\ loc' = "close" => loc = "bye" /\ UNCHANGED <<turn, disk>>
  /\ Pausing(e) \/ (pause_flag /\ ~Resuming(e)) => pause_flag'

\* The distributor sends e: an event that is true of its world, outside of a turn.
Marks(e) ==
  /\ outbox = <<>> /\ outbox' = <<e>>
  /\ UNCHANGED <<events, view, headless, wturn, image, pressing>> /\ Consumed(keyPresses, keyPresses')
  /\ ~Flip(e) /\ IF loc = "load" THEN e = InitialFlips(image) ELSE ~Initial(e)
  /\ Carries(e, turn) /\ e.turn = turn' /\ ~turning'
  /\ TrueOf(e, matrix.pixels', disk'[turn'])
  /\ disk' = disk \/ (turn' = turn /\ disk' = [disk EXCEPT ![turn] = {matrix.pixels}])
  /\ Goes(e)

\* The steps that send and receive nothing.
Quiet ==
  /\ queue' = queue
  /\ UNCHANGED <<wturn, turn, image, pause_flag, disk, headless>>
  /\ UNCHANGED <<view.pixels, view.turn, view.state>>
  /\ view.open' = view.open \/ (queue = <<>> /\ loc = "returned")
  /\ loc' = "load" <=> loc = "load"
  /\ loc' = "bye" <=> loc = "bye"
  /\ loc' \in {"close", "returned"} <=> loc \in {"close", "returned"}

\* What a receiver knows after event e.
Knows(e) ==
  /\ view'.pixels = IF e.type = "CellsFlipped" THEN Toggled(view.pixels, e) ELSE view.pixels
  /\ view'.turn = IF e.type = "TurnComplete" THEN e.turn ELSE view.turn
  /\ view'.state = IF e.type = "StateChange" THEN e.state ELSE view.state
  /\ e.type # "StateChange" => view'.open = view.open
  /\ e.type = "StateChange" => (view'.open <=> headless \/ e.state # "Quitting")
  /\ DOMAIN view' = DOMAIN view

\* The consumer takes the first event.
LEMMA ReceiveKnows ==
  ASSUME Channels, Receive
  PROVE  /\ events # <<>> /\ events' = Tail(events) /\ view.open /\ Knows(Head(events))
         /\ UNCHANGED <<outbox, loc, disk, wturn, turn, image, pause_flag, closed, keyPresses, pressing>>
<1> DEFINE e == Head(events)
<1>1. events # <<>> /\ events' = Tail(events) /\ view.open /\ view' = Shown(view, e)
  BY DEF Receive
<1>2. UNCHANGED <<outbox, loc, disk, wturn, turn, image, pause_flag, closed, keyPresses, pressing>>
  BY DEF Receive, turnVars, dataVars, engineVars
<1>3. DOMAIN view = {"open", "pixels", "turn", "state"}
  BY DEF Channels
<1> HIDE DEF e
<1>4. ASSUME e.type = "CellsFlipped" PROVE Knows(e)
  <2>1. view' = [view EXCEPT !.pixels = Toggled(@, e)]
    BY <1>1, <1>4 DEF Shown
  <2>2. /\ view'.pixels = Toggled(view.pixels, e) /\ view'.turn = view.turn
        /\ view'.state = view.state /\ view'.open = view.open /\ DOMAIN view' = DOMAIN view
    BY <1>3, <2>1
  <2>3. e.type # "TurnComplete" /\ e.type # "StateChange"
    BY <1>4
  <2> QED BY <1>4, <2>2, <2>3, Zenon DEF Knows
<1>5. ASSUME e.type = "TurnComplete" PROVE Knows(e)
  <2>1. view' = [view EXCEPT !.turn = e.turn]
    BY <1>1, <1>5 DEF Shown
  <2>2. /\ view'.pixels = view.pixels /\ view'.turn = e.turn
        /\ view'.state = view.state /\ view'.open = view.open /\ DOMAIN view' = DOMAIN view
    BY <1>3, <2>1
  <2>3. e.type # "CellsFlipped" /\ e.type # "StateChange"
    BY <1>5
  <2> QED BY <1>5, <2>2, <2>3, Zenon DEF Knows
<1>6. ASSUME e.type = "StateChange" PROVE Knows(e)
  <2>1. view' = [view EXCEPT !.state = e.state, !.open = headless \/ e.state # "Quitting"]
    BY <1>1, <1>6 DEF Shown
  <2>2. view'.open <=> headless \/ e.state # "Quitting"
    BY <1>3, <2>1
  <2>3. view'.pixels = view.pixels /\ view'.turn = view.turn /\ view'.state = e.state
        /\ DOMAIN view' = DOMAIN view
    BY <1>3, <2>1
  <2>4. e.type # "CellsFlipped" /\ e.type # "TurnComplete"
    BY <1>6
  <2> QED BY <1>6, <2>2, <2>3, <2>4, Zenon DEF Knows
<1>7. ASSUME e.type \notin {"CellsFlipped", "TurnComplete", "StateChange"} PROVE Knows(e)
  <2>1. view' = view
    BY <1>1, <1>7 DEF Shown
  <2>2. e.type # "CellsFlipped" /\ e.type # "TurnComplete" /\ e.type # "StateChange"
    BY <1>7
  <2> QED BY <2>1, <2>2, Zenon DEF Knows
<1> QED BY <1>1, <1>2, <1>4, <1>5, <1>6, <1>7 DEF e

\* What the distributor sends is true, and carries the number of its turn: a
\* TurnComplete,
LEMMA CompleteMarks ==
  ASSUME DataInv, Control, WorldNow, Complete
  PROVE  \E e \in Event : Marks(e)
<1>1. turn \in Nat /\ turn + 1 \in Nat
  BY TurnsAssumption DEF WorldNow
<1>2. /\ At("turn") /\ turn' = turn + 1 /\ turning' = FALSE
      /\ outbox' = <<TurnComplete(turn')>> /\ loc' = "handle"
      /\ UNCHANGED <<image, pause_flag, wturn, disk, events, keyPresses, view, headless, pressing>>
  BY DEF Complete, EndTurn, Emit, windowVars, channels
<1>3. PICK e \in Event : e = TurnComplete(turn + 1) /\ e.type = "TurnComplete" /\ e.turn = turn + 1
  BY <1>1, Events
<1>4. ~Flip(e) /\ ~Initial(e) /\ Carries(e, turn) /\ e.turn = turn' /\ ~Pausing(e) /\ ~Resuming(e)
  BY <1>2, <1>3 DEF Flip, Initial, Carries, Pausing, Resuming
<1>5. TrueOf(e, matrix.pixels', disk'[turn'])
  BY <1>3 DEF TrueOf
<1>6. Goes(e)
  BY <1>2, <1>3, <1>4 DEF Goes, At
<1>7. Marks(e)
  BY <1>2, <1>3, <1>4, <1>5, <1>6 DEF Marks, At, Consumed
<1> QED BY <1>3, <1>7

\* and what it sends of a world between two turns.
LEMMA BetweenMarks ==
  ASSUME DataInv, Control, WorldNow, Files,
         loc \in {"close", "returned", "bye"} => disk[turn] = {matrix.pixels},
         loc = "load" => turn = 0,
         Load \/ Announce \/ HandleTick \/ (HandleKey /\ ~UNCHANGED outbox) \/ Finish \/ SaveLast \/ Bye
  PROVE  \E e \in Event : Marks(e)
<1>1. turn \in Nat /\ turn \in 0..Turns /\ image \in SUBSET Cell
  BY TurnsAssumption DEF WorldNow
<1>2. matrix.pixels \in SUBSET Cell /\ count \in Int
  BY DataTypes DEF DataInv, DataTypeOK, matrix, Matrix
<1>3. disk' = [disk EXCEPT ![turn] = {matrix.pixels}] => disk'[turn] = {matrix.pixels}
  BY <1>1 DEF Files
<1>4. /\ loc \in {"load", "spawn", "loop", "handle", "quit", "save", "bye"} /\ outbox = <<>>
      /\ ~turning /\ count = Cardinality(matrix.pixels)
  <2>1. loc \in {"load", "spawn", "loop", "handle", "quit", "save", "bye"} /\ outbox = <<>>
    BY DEF Load, Announce, HandleTick, HandleKey, Finish, SaveLast, Bye, At
  <2>2. ~turning
    BY <2>1 DEF Control
  <2> QED BY <2>1, <2>2 DEF DataInv, P
<1>5. /\ UNCHANGED <<events, view, headless, wturn, image, pressing, turn, turning, matrix.pixels>>
      /\ Consumed(keyPresses, keyPresses')
  BY DEF Load, Announce, HandleTick, HandleKey, Finish, Quit, SaveLast, Bye, Consumed, turnVars,
     dataVars, windowVars, channels, matrix
<1> DEFINE Sends(e) == /\ outbox' = <<e>> /\ ~Flip(e)
                       /\ IF loc = "load" THEN e = InitialFlips(image) ELSE ~Initial(e)
                       /\ e.type # "TurnComplete" /\ e.turn = turn
                       /\ TrueOf(e, matrix.pixels, disk'[turn])
                       /\ (disk' = disk \/ disk' = [disk EXCEPT ![turn] = {matrix.pixels}])
<1>6. ASSUME NEW e \in Event, Sends(e), Goes(e) PROVE \E m \in Event : Marks(m)
  <2>1. TrueOf(e, matrix.pixels', disk'[turn'])
    BY <1>5, <1>6
  <2>2. Carries(e, turn)
    BY <1>6 DEF Carries
  <2>3. Marks(e)
    BY <1>4, <1>5, <1>6, <2>1, <2>2 DEF Marks
  <2> QED BY <1>6, <2>3
<1> USE DEF At, Emit
<1>7. CASE Load
  <2>1. loc = "load" /\ loc' = "spawn" /\ outbox' = <<InitialFlips(image)>> /\ UNCHANGED <<pause_flag, disk>>
    BY <1>7 DEF Load
  <2>2. PICK e \in Event : /\ e = InitialFlips(image) /\ e.type = "CellsFlipped"
                           /\ e.turn = 0 /\ e.zeros = Padding
    BY <1>1, Events
  <2>3. ~Flip(e) /\ ~Pausing(e) /\ ~Resuming(e)
    BY <2>2 DEF Flip, Pausing, Resuming, Padding
  <2>4. Sends(e)
    BY <2>1, <2>2, <2>3 DEF TrueOf
  <2>5. Goes(e)
    BY <2>1, <2>2, <2>3 DEF Goes
  <2> QED BY <1>6, <2>4, <2>5
<1>8. CASE Announce
  <2>1. /\ loc = "spawn" /\ loc' = "loop" /\ outbox' = <<StateChange(turn, "Executing")>>
        /\ UNCHANGED <<pause_flag, disk>>
    BY <1>8 DEF Announce
  <2>2. PICK e \in Event : /\ e = StateChange(turn, "Executing") /\ e.type = "StateChange"
                           /\ e.turn = turn /\ e.state = "Executing"
    BY <1>1, Events
  <2>3. ~Flip(e) /\ ~Initial(e) /\ ~Pausing(e) /\ Resuming(e)
    BY <2>2 DEF Flip, Initial, Pausing, Resuming
  <2>4. Sends(e)
    BY <2>1, <2>2, <2>3 DEF TrueOf
  <2>5. Goes(e)
    BY <2>1, <2>2, <2>3 DEF Goes
  <2> QED BY <1>6, <2>4, <2>5
<1>9. CASE HandleTick
  <2>1. /\ loc = "handle" /\ loc' \in {"handle", "loop"} /\ outbox' = <<AliveCellsCount(turn, count)>>
        /\ UNCHANGED <<pause_flag, disk>>
    BY <1>9 DEF HandleTick, AfterHandling
  <2>2. PICK e \in Event : /\ e = AliveCellsCount(turn, count) /\ e.type = "AliveCellsCount"
                           /\ e.turn = turn /\ e.count = count
    BY <1>1, <1>2, Events
  <2>3. ~Flip(e) /\ ~Initial(e) /\ ~Pausing(e) /\ ~Resuming(e)
    BY <2>2 DEF Flip, Initial, Pausing, Resuming
  <2>4. Sends(e)
    BY <1>4, <2>1, <2>2, <2>3 DEF TrueOf
  <2>5. Goes(e)
    BY <2>1, <2>2, <2>3 DEF Goes
  <2> QED BY <1>6, <2>4, <2>5
<1>10. ASSUME NEW l, Write(l), l \in {"handle", "loop", "bye"}, l = "bye" => loc = "save",
              UNCHANGED pause_flag,
              loc \in {"handle", "save"}
       PROVE  \E m \in Event : Marks(m)
  <2>1. /\ loc' = l /\ outbox' = <<ImageOutputComplete(turn)>>
        /\ disk' = [disk EXCEPT ![turn] = {matrix.pixels}] /\ disk'[turn] = {matrix.pixels}
    BY <1>3, <1>10 DEF Write
  <2>2. PICK e \in Event : /\ e = ImageOutputComplete(turn) /\ e.type = "ImageOutputComplete"
                           /\ e.turn = turn
    BY <1>1, Events
  <2>3. ~Flip(e) /\ ~Initial(e) /\ ~Pausing(e) /\ ~Resuming(e)
    BY <2>2 DEF Flip, Initial, Pausing, Resuming
  <2>4. Sends(e)
    BY <1>10, <2>1, <2>2, <2>3 DEF TrueOf
  <2>5. disk'[turn'] = {matrix.pixels'}
    BY <1>5, <2>1
  <2>6. Goes(e)
    BY <1>10, <2>1, <2>2, <2>3, <2>5 DEF Goes
  <2> QED BY <1>6, <2>4, <2>6
<1>11. CASE HandleKey /\ ~UNCHANGED outbox
  <2>1. loc = "handle"
    BY <1>11 DEF HandleKey
  <2>2. CASE Write(AfterHandling(pause_flag)) /\ UNCHANGED pause_flag
    BY <1>10, <2>1, <2>2 DEF AfterHandling
  <2>3. CASE /\ pause_flag' = ~pause_flag
             /\ Emit(StateChange(turn, IF pause_flag' THEN "Paused" ELSE "Executing"),
                     AfterHandling(pause_flag'))
             /\ UNCHANGED disk
    <3> DEFINE s == IF pause_flag' THEN "Paused" ELSE "Executing"
    <3>1. /\ loc' \in {"handle", "loop"} /\ outbox' = <<StateChange(turn, s)>> /\ disk' = disk
          /\ s \in {"Executing", "Paused"} /\ (s = "Paused" <=> pause_flag')
      BY <2>3 DEF AfterHandling
    <3> HIDE DEF s
    <3>2. PICK e \in Event : /\ e = StateChange(turn, s) /\ e.type = "StateChange"
                             /\ e.turn = turn /\ e.state = s
      BY <1>1, <3>1, Events
    <3>3. ~Flip(e) /\ ~Initial(e) /\ (Pausing(e) <=> pause_flag') /\ (Resuming(e) <=> ~pause_flag')
      BY <3>1, <3>2 DEF Flip, Initial, Pausing, Resuming
    <3>4. Sends(e)
      BY <2>1, <3>1, <3>2, <3>3 DEF TrueOf
    <3>5. e.state # "Quitting"
      BY <3>1, <3>2
    <3>6. Goes(e)
      BY <2>1, <3>1, <3>2, <3>3, <3>5 DEF Goes
    <3> QED BY <1>6, <3>4, <3>6
  <2> QED BY <1>11, <2>2, <2>3, KeyCases
<1>12. CASE Finish
  <2>1. /\ loc \in {"quit", "loop"} /\ loc' = "save" /\ UNCHANGED <<pause_flag, disk>>
        /\ outbox' = <<FinalTurnComplete(turn, matrix.pixels)>>
    BY <1>4, <1>12 DEF Finish
  <2>2. PICK e \in Event : /\ e = FinalTurnComplete(turn, matrix.pixels) /\ e.type = "FinalTurnComplete"
                           /\ e.turn = turn /\ e.cells = matrix.pixels
    BY <1>1, <1>2, Events
  <2>3. ~Flip(e) /\ ~Initial(e) /\ ~Pausing(e) /\ ~Resuming(e)
    BY <2>2 DEF Flip, Initial, Pausing, Resuming
  <2>4. Sends(e)
    BY <2>1, <2>2, <2>3 DEF TrueOf
  <2>5. Goes(e)
    BY <2>1, <2>2, <2>3 DEF Goes
  <2> QED BY <1>6, <2>4, <2>5
<1>13. CASE SaveLast
  <2>1. Write("bye") /\ loc = "save" /\ UNCHANGED pause_flag
    BY <1>13 DEF SaveLast
  <2> QED BY <1>10, <2>1
<1>14. CASE Bye
  <2>1. /\ loc = "bye" /\ loc' = "close" /\ outbox' = <<StateChange(turn, "Quitting")>>
        /\ UNCHANGED <<pause_flag, disk, turn>>
    BY <1>5, <1>14 DEF Bye
  <2>2. PICK e \in Event : /\ e = StateChange(turn, "Quitting") /\ e.type = "StateChange"
                           /\ e.turn = turn /\ e.state = "Quitting"
    BY <1>1, Events
  <2>3. ~Flip(e) /\ ~Initial(e) /\ ~Pausing(e) /\ Resuming(e)
    BY <2>2 DEF Flip, Initial, Pausing, Resuming
  <2>4. Sends(e)
    BY <2>1, <2>2, <2>3 DEF TrueOf
  <2>5. Goes(e)
    BY <2>1, <2>2, <2>3 DEF Goes
  <2> QED BY <1>6, <2>4, <2>5
<1> QED BY <1>7, <1>8, <1>9, <1>11, <1>12, <1>13, <1>14

\* The steps of the others, and those of the distributor that report nothing.
Silent ==
  \/ Accept \/ CreateWorker \/ Begin \/ Merge \/ HandleNothing \/ Close \/ Tick
  \/ (HandleKey /\ UNCHANGED <<outbox, pause_flag, disk>> /\ loc' \in {"quit", "handle", "loop"})
  \/ SeeClosed \/ Press \/ SendKey \/ Sigterm \/ UNCHANGED vars
  \/ \E i \in Thread : Compute(i)

\* They leave all that is on its way as it is.
LEMMA SilentSteps == Channels /\ Control /\ Silent => Quiet
<1> SUFFICES ASSUME Channels, Control, Silent PROVE Quiet
  OBVIOUS
<1> USE DEF At
<1>1. CASE Accept
  <2>1. (events \o outbox) \o <<>> = events \o outbox
    BY QueueMoves, Events DEF Channels
  <2>2. queue' = queue
    BY <1>1, <2>1 DEF Accept, queue
  <2>3. UNCHANGED <<wturn, turn, image, pause_flag, disk, headless, view, loc>>
    BY <1>1 DEF Accept, turnVars, dataVars, windowVars
  <2> QED BY <2>2, <2>3 DEF Quiet
<1>2. CASE CreateWorker \/ Begin \/ Merge \/ HandleNothing \/ Tick \/ Close
  <2>1. /\ UNCHANGED <<wturn, turn, image, pause_flag, disk, headless, view, events, outbox>>
        /\ \/ loc' = loc
           \/ /\ loc \notin {"load", "bye", "close", "returned"}
              /\ loc' \notin {"load", "bye", "close", "returned"}
           \/ loc = "close" /\ loc' = "returned"
    BY <1>2 DEF CreateWorker, SpawnWorker, Begin, StartTurn, Merge, MergeResult, HandleNothing,
       AfterHandling, Tick, Close, turnVars, dataVars, engineVars, windowVars, channels
  <2>2. queue' = queue
    BY <2>1 DEF queue
  <2> QED BY <2>1, <2>2 DEF Quiet
<1>3. CASE /\ HandleKey /\ UNCHANGED <<outbox, pause_flag, disk>>
           /\ loc' \in {"quit", "handle", "loop"}
  <2>1. /\ UNCHANGED <<wturn, turn, image, headless, view, events>>
        /\ loc = "handle"
    BY <1>3 DEF HandleKey, turnVars, dataVars, windowVars
  <2>2. queue' = queue
    BY <1>3, <2>1 DEF queue
  <2> QED BY <1>3, <2>1, <2>2 DEF Quiet
<1>4. CASE Press \/ SendKey \/ Sigterm \/ (\E i \in Thread : Compute(i)) \/ UNCHANGED vars
  <2>1. UNCHANGED <<wturn, turn, image, pause_flag, disk, headless, view, events, outbox, loc>>
    <3>1. CASE Press \/ SendKey \/ Sigterm \/ UNCHANGED vars
      BY <3>1 DEF Press, SendKey, Sigterm, vars, turnVars, dataVars, engineVars, windowVars, channels
    <3>2. ASSUME NEW i \in Thread, Compute(i)
          PROVE  UNCHANGED <<wturn, turn, image, pause_flag, disk, headless, view, events, outbox, loc>>
      BY <3>2 DEF Compute, EnterLoop, CleanUp, EvaluateSafe, EvaluateEdge, WriteNext, Handshake,
         dataVars, engineVars, windowVars, channels
    <3> QED BY <1>4, <3>1, <3>2
  <2>2. queue' = queue
    BY <2>1 DEF queue
  <2> QED BY <2>1, <2>2 DEF Quiet
<1>5. CASE SeeClosed
  <2>1. /\ UNCHANGED <<wturn, turn, image, pause_flag, disk, headless, outbox, loc, events>>
        /\ events = <<>> /\ closed /\ view' = [view EXCEPT !.open = FALSE]
    BY <1>5 DEF SeeClosed, turnVars, dataVars, engineVars, channels
  <2>2. loc = "returned" /\ outbox = <<>>
    BY <2>1 DEF Control
  <2>3. queue = <<>> /\ queue' = queue
    <3>1. <<>> \o <<>> = <<>>
      OBVIOUS
    <3> QED BY <2>1, <2>2, <3>1 DEF queue
  <2>4. UNCHANGED <<view.pixels, view.turn, view.state>>
    BY <2>1 DEF Channels
  <2> QED BY <2>1, <2>2, <2>3, <2>4 DEF Quiet
<1> QED BY <1>1, <1>2, <1>3, <1>4, <1>5 DEF Silent

\* Where it starts and ends: the image is loaded in turn 0, and the
\* distributor says goodbye with its last world on the disk.
Ends ==
  /\ loc = "load" => turn = 0 /\ Len(queue) = 0
  /\ loc \in {"bye", "close", "returned"} => disk[turn] = {World[turn]}

\* So a step of the program sends an event of the distributor, or the flips of a
\* worker, receives an event, or is silent.
LEMMA FourSteps ==
  ASSUME PairInv, DataInv, Control, WorldNow, Channels, Files, Ends, [EngineNext]_vars
  PROVE  \/ Silent
         \/ \E e \in Event : Marks(e)
         \/ \E i \in Thread : Publish(i)
         \/ Receive
<1>1. loc = "load" => turn = 0
  BY DEF Ends
<1>2. loc \in {"close", "returned", "bye"} => disk[turn] = {matrix.pixels}
  BY DEF Ends, WorldNow
<1>3. CASE Load \/ Announce \/ HandleTick \/ Finish \/ SaveLast \/ Bye
  BY <1>1, <1>2, <1>3, BetweenMarks
<1>4. CASE Complete
  BY <1>4, CompleteMarks
<1>5. CASE HandleKey
  <2>1. CASE ~UNCHANGED outbox
    BY <1>1, <1>2, <1>5, <2>1, BetweenMarks
  <2>2. CASE UNCHANGED outbox
    <3>1. outbox = <<>>
      BY <1>5 DEF HandleKey, At
    <3>2. \A e : <<e>> # <<>>
      OBVIOUS
    <3>3. UNCHANGED <<outbox, pause_flag, disk>> /\ loc' \in {"quit", "handle", "loop"}
      BY <1>5, <2>2, <3>1, <3>2, KeyCases DEF Write, Emit, AfterHandling
    <3> QED BY <1>5, <3>3 DEF Silent
  <2> QED BY <2>1, <2>2
<1>6. CASE \/ Accept \/ CreateWorker \/ Begin \/ Merge \/ HandleNothing \/ Close \/ Tick
           \/ SeeClosed \/ Press \/ SendKey \/ Sigterm \/ UNCHANGED vars
           \/ \E i \in Thread : Compute(i)
  BY <1>6 DEF Silent
<1> QED BY <1>3, <1>4, <1>5, <1>6 DEF EngineNext, Distributor, Consume, Worker

\* The channels keep their bounds.
LEMMA ChannelsStep ==
  ASSUME Channels, Control,
         \/ Silent
         \/ \E e \in Event : Marks(e)
         \/ \E i \in Thread : Publish(i) /\ wturn[i] \in Nat /\ flipping[i] \in SUBSET Cell
         \/ Receive
  PROVE  Channels'
<1> DEFINE K == Keys \cup {"q"}
<1>1. /\ events \in Seq(Event) /\ outbox \in Seq(Event) /\ (outbox = <<>> \/ Len(outbox) = 1)
      /\ Len(events) <= EventCap /\ Len(events) \in Nat /\ EventCap \in Nat /\ KeyCap \in Nat
      /\ keyPresses \in Seq(K) /\ pressing \in Seq(K) /\ (pressing = <<>> \/ Len(pressing) = 1)
      /\ Len(keyPresses) <= KeyCap /\ Len(keyPresses) \in Nat
      /\ DOMAIN view = {"open", "pixels", "turn", "state"}
  BY ChannelAssumption DEF Channels
<1> HIDE DEF K
<1>2. /\ <<>> \in Seq(Event) /\ <<>> \in Seq(K) /\ \A k \in K : <<k>> \in Seq(K) /\ Len(<<k>>) = 1
      /\ \A e \in Event : <<e>> \in Seq(Event) /\ Len(<<e>>) = 1
  OBVIOUS
<1>3. keyPresses # <<>> => Tail(keyPresses) \in Seq(K) /\ Len(Tail(keyPresses)) = Len(keyPresses) - 1
  BY <1>1
<1>4. events # <<>> => Tail(events) \in Seq(Event) /\ Len(Tail(events)) = Len(events) - 1
  BY <1>1
<1> DEFINE EventsFit == /\ events \in Seq(Event) /\ outbox \in Seq(Event)
                        /\ (outbox = <<>> \/ Len(outbox) = 1) /\ Len(events) <= EventCap
           KeysFit   == /\ keyPresses \in Seq(K) /\ pressing \in Seq(K)
                        /\ (pressing = <<>> \/ Len(pressing) = 1) /\ Len(keyPresses) <= KeyCap
           ViewFits  == DOMAIN view = {"open", "pixels", "turn", "state"}
<1>5. EventsFit /\ KeysFit /\ ViewFits
  BY <1>1
<1>6. ASSUME EventsFit', KeysFit', ViewFits' PROVE Channels'
  BY <1>6 DEF Channels, K
<1>7. UNCHANGED <<events, outbox>> => EventsFit'
  BY <1>5
<1>8. UNCHANGED <<keyPresses, pressing>> => KeysFit'
  BY <1>5
<1>9. UNCHANGED view => ViewFits'
  BY <1>5
<1>10. keyPresses # <<>> /\ keyPresses' = Tail(keyPresses) /\ UNCHANGED pressing => KeysFit'
  BY <1>1, <1>3
<1> HIDE DEF EventsFit, KeysFit, ViewFits
<1>11. ASSUME NEW e \in Event, Marks(e) PROVE Channels'
  <2>1. outbox' = <<e>> /\ UNCHANGED <<events, view, pressing>> /\ Consumed(keyPresses, keyPresses')
    BY <1>11 DEF Marks
  <2>2. EventsFit'
    BY <1>1, <1>2, <2>1 DEF EventsFit
  <2> QED BY <1>6, <1>8, <1>9, <1>10, <2>1, <2>2 DEF Consumed
<1>12. ASSUME NEW i \in Thread, Publish(i), wturn[i] \in Nat, flipping[i] \in SUBSET Cell PROVE Channels'
  <2>1. /\ events' = Append(events, CellsFlipped(wturn[i], flipping[i])) /\ Len(events) < EventCap
        /\ UNCHANGED <<outbox, keyPresses, view, pressing>>
    BY <1>12 DEF Publish, windowVars
  <2>2. CellsFlipped(wturn[i], flipping[i]) \in Event
    BY <1>12, Events
  <2>3. \A e \in Event : Append(events, e) \in Seq(Event) /\ Len(Append(events, e)) = Len(events) + 1
    BY <1>1
  <2>4. events' \in Seq(Event) /\ Len(events') = Len(events) + 1
    BY <2>1, <2>2, <2>3
  <2>5. EventsFit'
    BY <1>1, <2>1, <2>4 DEF EventsFit
  <2> QED BY <1>6, <1>8, <1>9, <2>1, <2>5
<1>13. CASE Receive
  <2>1. /\ events # <<>> /\ events' = Tail(events) /\ UNCHANGED <<outbox, keyPresses, pressing>>
        /\ DOMAIN view' = DOMAIN view
    BY <1>13, ReceiveKnows DEF Knows
  <2>2. EventsFit'
    BY <1>1, <1>4, <2>1 DEF EventsFit
  <2>3. ViewFits'
    BY <1>5, <2>1 DEF ViewFits
  <2> QED BY <1>6, <1>8, <2>1, <2>2, <2>3
<1>14. CASE Silent
  <2>1. CASE Accept
    <3>1. /\ outbox # <<>> /\ events' = events \o outbox /\ outbox' = <<>> /\ Len(events) < EventCap
          /\ UNCHANGED <<keyPresses, view, pressing>>
      BY <2>1 DEF Accept, windowVars
    <3>2. events \o outbox \in Seq(Event) /\ Len(events \o outbox) = Len(events) + Len(outbox)
      BY <1>1
    <3>3. events' \in Seq(Event) /\ Len(events') = Len(events) + 1
      BY <1>1, <3>1, <3>2
    <3>4. outbox' = <<>> /\ Len(events) < EventCap
      BY <3>1
    <3>5. EventsFit'
      BY <1>1, <1>2, <3>3, <3>4 DEF EventsFit
    <3> QED BY <1>6, <1>8, <1>9, <3>1, <3>5
  <2>2. CASE CreateWorker \/ Begin \/ Merge \/ HandleNothing \/ Close \/ Tick \/ UNCHANGED vars
             \/ \E i \in Thread : Compute(i)
    <3>1. UNCHANGED <<events, outbox, keyPresses, view, pressing>>
      BY <2>2 DEF CreateWorker, Begin, Merge, HandleNothing, Close, Tick, Compute, engineVars,
         windowVars, channels, vars
    <3> QED BY <1>6, <1>7, <1>8, <1>9, <3>1
  <2>3. CASE HandleKey /\ UNCHANGED <<outbox, pause_flag, disk>>
    <3>1. /\ keyPresses # <<>> /\ keyPresses' = Tail(keyPresses)
          /\ UNCHANGED <<events, outbox, view, pressing>>
      BY <2>3 DEF HandleKey, windowVars
    <3> QED BY <1>6, <1>7, <1>9, <1>10, <3>1
  <2>4. CASE SeeClosed
    <3>1. /\ UNCHANGED <<events, outbox, keyPresses, pressing>>
          /\ view' = [view EXCEPT !.open = FALSE]
      BY <2>4 DEF SeeClosed, engineVars, channels
    <3>2. ViewFits'
      BY <1>5, <3>1 DEF ViewFits
    <3> QED BY <1>6, <1>7, <1>8, <3>1, <3>2
  <2>5. CASE Press
    <3>1. UNCHANGED <<events, outbox, keyPresses, view>> /\ \E k \in K : pressing' = <<k>>
      BY <2>5 DEF Press, engineVars, channels, K
    <3>2. KeysFit'
      BY <1>1, <1>2, <3>1 DEF KeysFit
    <3> QED BY <1>6, <1>7, <1>9, <3>1, <3>2
  <2>6. CASE SendKey
    <3>1. /\ UNCHANGED <<events, outbox, view>> /\ keyPresses' = keyPresses \o pressing
          /\ pressing # <<>> /\ pressing' = <<>> /\ Len(keyPresses) < KeyCap
      BY <2>6 DEF SendKey, engineVars
    <3>2. keyPresses \o pressing \in Seq(K) /\ Len(keyPresses \o pressing) = Len(keyPresses) + Len(pressing)
      BY <1>1
    <3>3. keyPresses' \in Seq(K) /\ Len(keyPresses') = Len(keyPresses) + 1
      BY <1>1, <3>1, <3>2
    <3>4. pressing' = <<>> /\ Len(keyPresses) < KeyCap
      BY <3>1
    <3>5. KeysFit'
      BY <1>1, <1>2, <3>3, <3>4 DEF KeysFit
    <3> QED BY <1>6, <1>7, <1>9, <3>1, <3>5
  <2>7. CASE Sigterm
    <3>1. /\ UNCHANGED <<events, outbox, view, pressing>> /\ keyPresses' = Append(keyPresses, "q")
          /\ Len(keyPresses) < KeyCap /\ "q" \in K
      BY <2>7 DEF Sigterm, engineVars, K
    <3>2. Append(keyPresses, "q") \in Seq(K) /\ Len(Append(keyPresses, "q")) = Len(keyPresses) + 1
      BY <1>1, <3>1
    <3>3. KeysFit'
      BY <1>1, <3>1, <3>2 DEF KeysFit
    <3> QED BY <1>6, <1>7, <1>9, <3>1, <3>3
  <2> QED BY <1>14, <2>1, <2>2, <2>3, <2>4, <2>5, <2>6, <2>7 DEF Silent
<1> QED BY <1>11, <1>12, <1>13, <1>14

\* Files are only written for the turn of the distributor, with its world.
LEMMA FilesStep ==
  ASSUME Channels, Control, WorldNow, Files, UNCHANGED World,
         \/ Quiet
         \/ \E e \in Event : Marks(e)
         \/ \E i \in Thread : Publish(i)
         \/ Receive
  PROVE  Files' /\ \A t \in 0..Turns : disk[t] = {World[t]} => disk'[t] = {World[t]}
<1>1. \/ disk' = disk
      \/ disk' = [disk EXCEPT ![turn] = {matrix.pixels}]
  BY ReceiveKnows DEF Quiet, Marks, Publish
<1>2. matrix.pixels = World[turn] /\ turn \in 0..Turns /\ World[turn] \in SUBSET Cell
  BY WorldCells DEF WorldNow
<1>3. disk \in [0..Turns -> SUBSET SUBSET Cell] /\ \A t \in 0..Turns : disk[t] = {} \/ disk[t] = {World[t]}
  BY DEF Files
<1>4. ASSUME NEW t \in 0..Turns PROVE disk'[t] = disk[t] \/ disk'[t] = {World[t]}
  <2>1. CASE disk' = disk
    BY <2>1
  <2>2. CASE disk' = [disk EXCEPT ![turn] = {matrix.pixels}]
    <3>1. disk'[t] = IF t = turn THEN {matrix.pixels} ELSE disk[t]
      BY <1>3, <2>2
    <3> QED BY <1>2, <3>1
  <2> QED BY <1>1, <2>1, <2>2
<1>5. disk' \in [0..Turns -> SUBSET SUBSET Cell]
  BY <1>1, <1>2, <1>3
<1>6. Files'
  BY <1>3, <1>4, <1>5 DEF Files
<1> QED BY <1>3, <1>4, <1>6

------------------------------------------------------------------------------
(* The events that are on their way                                          *)

\* The distributor sent e.
MarkSent(e) == Marks(e) /\ Longer(queue', queue, e)

\* A worker sent its flips e.
FlipSent(e) ==
  /\ Longer(queue', queue, e)
  /\ Flip(e) /\ e.cells \subseteq Cell /\ e.turn = turn /\ turning
  /\ Adds(published', published, 0..Turns, e)
  /\ UNCHANGED <<image, turn, view, loc, pause_flag, disk, headless>>

\* The consumer took the first event.
Taken ==
  /\ Shorter(queue', queue) /\ queue[1] \in Event
  /\ Knows(queue[1]) /\ view.open
  /\ UNCHANGED <<image, wturn, turn, loc, pause_flag, disk, headless>>

\* The engine does one of these, or leaves all that is on its way as it is.
EventStep ==
  \/ Quiet
  \/ \E e \in Event : MarkSent(e)
  \/ \E e \in Event : FlipSent(e)
  \/ Taken

\* Every step is one of them; files that hold their world keep it.
LEMMA EventSteps ==
  ASSUME BarrierInv, PairInv, DataInv, Control, WorkerTurns, WorldNow, Channels, Files, Ends,
         [EngineNext]_vars
  PROVE  Channels' /\ Files' /\ EventStep
         /\ \A t \in 0..Turns : disk[t] = {World[t]} => disk'[t] = {World[t]}
<1>1. ASSUME NEW e \in Event, Marks(e) PROVE EventStep
  <2>1. queue \in Seq(Event) /\ queue' = Append(queue, e)
    <3>1. outbox = <<>> /\ outbox' = <<e>> /\ events' = events /\ events \in Seq(Event)
      BY <1>1 DEF Marks, Channels
    <3> QED BY <3>1, QueueMoves DEF queue
  <2>2. Longer(queue', queue, e)
    BY <2>1, QueueSteps
  <2> QED BY <1>1, <2>2 DEF EventStep, MarkSent
<1>2. ASSUME NEW i \in Thread, Publish(i)
      PROVE  EventStep /\ wturn[i] \in Nat /\ flipping[i] \in SUBSET Cell
  <2>1. /\ flipping[i] \in SUBSET Cell /\ flipping[i] \cap published[turn] = {}
        /\ published'[turn] = published[turn] \cup flipping[i]
        /\ \A t \in 0..Turns : t # turn => published'[t] = published[t]
        /\ wturn[i] = turn /\ turning /\ turn \in Nat
    BY <1>2, PublishedMore
  <2>2. /\ events' = Append(events, CellsFlipped(turn, flipping[i]))
        /\ UNCHANGED <<image, outbox, turn, view, loc, pause_flag, disk, headless>>
    BY <1>2, <2>1 DEF Publish, Swap, windowVars
  <2>3. PICK e \in Event : /\ e = CellsFlipped(turn, flipping[i]) /\ e.type = "CellsFlipped"
                           /\ e.turn = turn /\ e.cells = flipping[i] /\ e.zeros = 0
    BY <2>1, Events
  <2>4. queue \in Seq(Event) /\ queue' = Append(queue, e)
    <3>1. outbox = <<>> /\ events \in Seq(Event) /\ events' = Append(events, e)
      BY <2>1, <2>2, <2>3 DEF Control, Channels
    <3>2. events' \in Seq(Event)
      BY <3>1, QueueSteps
    <3>3. events \o <<>> = events /\ events' \o <<>> = events'
      BY <3>1, <3>2, QueueMoves, <2>3
    <3> QED BY <2>2, <3>1, <3>3 DEF queue
  <2>5. Longer(queue', queue, e)
    BY <2>3, <2>4, QueueSteps
  <2>6. FlipSent(e)
    BY <2>1, <2>2, <2>3, <2>5 DEF FlipSent, Flip, Adds
  <2> QED BY <2>1, <2>3, <2>6 DEF EventStep
<1>3. ASSUME Receive PROVE EventStep
  <2>1. /\ events # <<>> /\ events' = Tail(events) /\ view.open /\ Knows(Head(events))
        /\ UNCHANGED <<image, wturn, turn, loc, pause_flag, disk, outbox>>
    BY <1>3, ReceiveKnows
  <2>2. UNCHANGED headless
    BY <1>3 DEF Receive
  <2>3. events \in Seq(Event) /\ outbox \in Seq(Event) /\ Head(events) \in Event
    BY <2>1 DEF Channels
  <2>4. queue \in Seq(Event) /\ queue # <<>> /\ queue' = Tail(queue) /\ Head(queue) = Head(events)
    BY <2>1, <2>3, QueueMoves DEF queue
  <2>5. Shorter(queue', queue) /\ queue[1] = Head(events)
    BY <2>3, <2>4, QueueSteps
  <2>6. Taken
    BY <2>1, <2>2, <2>3, <2>5 DEF Taken
  <2> QED BY <2>6 DEF EventStep
<1>4. ASSUME Silent PROVE EventStep
  <2>1. Quiet
    BY <1>4, SilentSteps
  <2> QED BY <2>1 DEF EventStep
<1>5. \/ Silent
      \/ \E e \in Event : Marks(e)
      \/ \E i \in Thread : Publish(i) /\ wturn[i] \in Nat /\ flipping[i] \in SUBSET Cell
      \/ Receive
  BY <1>2, FourSteps
<1>6. Channels'
  BY <1>5, ChannelsStep
<1>7. UNCHANGED World
  BY WhoSwaps, WorldStays
<1>8. Files' /\ \A t \in 0..Turns : disk[t] = {World[t]} => disk'[t] = {World[t]}
  BY <1>5, <1>7, SilentSteps, FilesStep
<1> QED BY <1>1, <1>2, <1>3, <1>4, <1>5, <1>6, <1>8

\* The queue leads its receiver to the turn of the distributor,
Order == Follows(queue, view.turn, turn)

\* as every step leaves it;
LEMMA OrderStep == Order /\ EventStep => Order'
<1> SUFFICES ASSUME Order, EventStep PROVE Order'
  OBVIOUS
<1>1. CASE Quiet
  BY <1>1 DEF Quiet, Order
<1>2. ASSUME NEW e, MarkSent(e) PROVE Order'
  <2>1. Longer(queue', queue, e) /\ Carries(e, turn) /\ e.turn = turn' /\ view' = view
    BY <1>2 DEF MarkSent, Marks
  <2>2. Follows(queue', view.turn, e.turn)
    BY <2>1, FollowsLonger DEF Order
  <2> QED BY <2>1, <2>2 DEF Order
<1>3. ASSUME NEW e, FlipSent(e) PROVE Order'
  <2>1. Longer(queue', queue, e) /\ Carries(e, turn) /\ e.turn = turn' /\ view' = view
    BY <1>3 DEF FlipSent, Flip, Carries
  <2>2. Follows(queue', view.turn, e.turn)
    BY <2>1, FollowsLonger DEF Order
  <2> QED BY <2>1, <2>2 DEF Order
<1>4. CASE Taken
  <2>1. Follows(queue', queue[1].turn, turn) /\ Carries(queue[1], view.turn)
    BY <1>4, FollowsShorter DEF Taken, Order
  <2>2. view'.turn = queue[1].turn /\ turn' = turn
    BY <1>4, <2>1 DEF Taken, Knows, Carries
  <2> QED BY <2>1, <2>2 DEF Order
<1> QED BY <1>1, <1>2, <1>3, <1>4 DEF EventStep

\* in it every cell that changes is sent once, in its turn,
Delivery == Sent(queue, published)

\* After a step that ends outside of a turn nothing of the next one was sent.
LEMMA NothingSent ==
  ASSUME PairInv', WorkerTurns', WorldNow', ~turning'
  PROVE  published'[turn'] = {}
<1>1. \A i \in Thread : wturn'[i] = turn'
  BY DEF PairInv, WorkerTurns, Swapped
<1>2. \A i \in Thread : ~(wturn'[i] > turn')
  BY <1>1 DEF WorldNow
<1> QED BY <1>2 DEF published, WorldNow

\* The turns in the queue are turns of the program.
LEMMA TurnsInRange ==
  ASSUME Order, WorldNow
  PROVE  /\ view.turn \in 0..Turns
         /\ \A k \in 1..Len(queue) : queue[k].turn \in 0..turn /\ queue[k].turn \in 0..Turns
BY TurnsAssumption DEF Order, WorldNow, Follows

\* Every step keeps the delivery,
LEMMA DeliveryStep ==
  ASSUME Order, Delivery, WorldNow, EventStep, PairInv', WorkerTurns', WorldNow'
  PROVE  Delivery'
<1>1. CASE Quiet
  BY <1>1, PublishedStays DEF Quiet, Delivery
<1>2. ASSUME NEW e, MarkSent(e) PROVE Delivery'
  <2>1. Longer(queue', queue, e) /\ ~Flip(e) /\ e.turn = turn' /\ UNCHANGED published /\ ~turning'
    BY <1>2, PublishedStays DEF MarkSent, Marks
  <2>2. published'[turn'] = {}
    BY <2>1, NothingSent
  <2>3. Sent(queue', published)
    BY <2>1, <2>2, SentMark DEF Delivery
  <2> QED BY <2>1, <2>3 DEF Delivery
<1>3. ASSUME NEW e, FlipSent(e) PROVE Delivery'
  <2> DEFINE D == 0..Turns
  <2>1. /\ Longer(queue', queue, e) /\ Flip(e) /\ e.cells \subseteq Cell
        /\ Adds(published', published, D, e)
    BY <1>3 DEF FlipSent
  <2>2. \A k \in 1..Len(queue) : queue[k].turn \in D
    BY TurnsInRange
  <2> HIDE DEF D
  <2>3. Sent(queue', published')
    <3>1. Sent(queue, published)
      BY DEF Delivery
    <3> QED BY <2>1, <2>2, <3>1, SentFlip
  <2> QED BY <2>3 DEF Delivery
<1>4. CASE Taken
  <2>1. Shorter(queue', queue) /\ UNCHANGED published
    BY <1>4, PublishedStays DEF Taken
  <2> QED BY <2>1, SentShorter DEF Delivery
<1> QED BY <1>1, <1>2, <1>3, <1>4 DEF EventStep

\* and every report is true of its turn.
Reports ==
  \A k \in 1..Len(queue) : TrueOf(queue[k], World[queue[k].turn], disk[queue[k].turn])

\* also when a file is written for a turn that was reported.
LEMMA ReportsStep ==
  ASSUME Order, Reports, WorldNow, EventStep, WorldNow',
         \A t \in 0..Turns : disk[t] = {World[t]} => disk'[t] = {World[t]}
  PROVE  Reports'
<1>1. UNCHANGED World
  BY WorldStays DEF EventStep, Quiet, MarkSent, Marks, FlipSent, Taken
<1>2. ASSUME NEW k \in 1..Len(queue)
      PROVE  TrueOf(queue[k], World[queue[k].turn], disk'[queue[k].turn])
  <2>1. TrueOf(queue[k], World[queue[k].turn], disk[queue[k].turn])
    BY DEF Reports
  <2>2. queue[k].turn \in 0..Turns
    BY TurnsInRange
  <2> QED BY <2>1, <2>2 DEF TrueOf
<1>3. CASE Quiet
  BY <1>1, <1>3 DEF Quiet, Reports
<1>4. ASSUME NEW e, Longer(queue', queue, e), TrueOf(e, World'[e.turn], disk'[e.turn]) PROVE Reports'
  <2>1. ASSUME NEW k \in 1..Len(queue') PROVE TrueOf(queue'[k], World'[queue'[k].turn], disk'[queue'[k].turn])
    <3>1. CASE k = Len(queue) + 1
      <4>1. queue'[k] = e
        BY <1>4, <3>1 DEF Longer
      <4> QED BY <1>4, <4>1
    <3>2. CASE k # Len(queue) + 1
      <4>1. k \in 1..Len(queue) /\ queue'[k] = queue[k]
        BY <1>4, <3>2 DEF Longer
      <4> QED BY <1>1, <1>2, <4>1
    <3> QED BY <3>1, <3>2
  <2> QED BY <2>1 DEF Reports
<1>5. ASSUME NEW e, MarkSent(e) PROVE Reports'
  <2>1. Longer(queue', queue, e) /\ e.turn = turn' /\ TrueOf(e, matrix.pixels', disk'[turn'])
    BY <1>5 DEF MarkSent, Marks
  <2>2. matrix.pixels' = World'[turn']
    BY DEF WorldNow
  <2> QED BY <1>4, <2>1, <2>2
<1>6. ASSUME NEW e, FlipSent(e) PROVE Reports'
  <2>1. Longer(queue', queue, e) /\ TrueOf(e, World'[e.turn], disk'[e.turn])
    BY <1>6 DEF FlipSent, Flip, TrueOf
  <2> QED BY <1>4, <2>1
<1>7. CASE Taken
  <2>1. \A k \in 1..Len(queue') : k + 1 \in 1..Len(queue) /\ queue'[k] = queue[k + 1]
    BY <1>7 DEF Taken, Shorter
  <2>2. ASSUME NEW k \in 1..Len(queue') PROVE TrueOf(queue'[k], World'[queue'[k].turn], disk'[queue'[k].turn])
    BY <1>1, <1>2, <2>1
  <2> QED BY <2>2 DEF Reports
<1> QED BY <1>3, <1>5, <1>6, <1>7 DEF EventStep

\* The image is on its way.
Loading == loc = "load" \/ \E k \in 1..Len(queue) : Initial(queue[k])

\* The screen of the receiver is empty before the image, and then the world of
\* its turn with the flips it has received.
Screen ==
  /\ \A k \in 1..Len(queue) : Initial(queue[k]) => k = 1 /\ queue[k] = InitialFlips(image)
  /\ Loading => view.turn = 0 /\ view.pixels = {}
  /\ ~Loading => Picture(queue, view.turn, World[view.turn], published, view.pixels)

\* Toggling shows the cells that were not shown: the zero cells are even.
LEMMA Toggles ==
  ASSUME NEW e \in Event, e.type = "CellsFlipped", NEW px
  PROVE  Toggled(px, e) = (px \ e.cells) \cup (e.cells \ px) /\ e.cells \subseteq Cell
<1>1. e.zeros \in {0, Padding} /\ e.cells \subseteq Cell
  BY DEF Event
<1>2. e.zeros % 2 # 1
  BY <1>1 DEF Padding
<1>3. Toggled(px, e) = SymDiff(SymDiff(px, e.cells), {})
  BY <1>2 DEF Toggled
<1> QED BY <1>1, <1>3 DEF SymDiff

\* What the receiver does with the first event keeps the screen.
LEMMA ScreenTaken ==
  ASSUME Order, Delivery, Screen, Ends, WorkerTurns, WorldNow, Taken
  PROVE  Screen'
<1>1. /\ Shorter(queue', queue) /\ Len(queue) \in Nat /\ Len(queue) >= 1 /\ 1 \in 1..Len(queue)
      /\ queue[1] \in Event /\ Knows(queue[1]) /\ image' = image /\ loc' = loc /\ turn' = turn
      /\ \A k \in 1..Len(queue') : k + 1 \in 1..Len(queue) /\ k + 1 # 1 /\ queue'[k] = queue[k + 1]
  BY DEF Taken, Shorter
<1>2. UNCHANGED World /\ UNCHANGED published
  BY WorldStays, PublishedStays DEF Taken
<1>3. loc # "load"
  BY <1>1 DEF Ends
<1>4. \A k \in 1..Len(queue') : ~Initial(queue'[k])
  BY <1>1 DEF Screen
<1>5. ~Loading'
  BY <1>1, <1>3, <1>4 DEF Loading
<1>6. Carries(queue[1], view.turn) /\ view.turn \in 0..Turns /\ queue[1].turn \in 0..Turns
      /\ queue[1].turn <= turn
  BY <1>1, TurnsInRange, FollowsShorter DEF Order
<1> DEFINE v == view.turn
           w == World[v]
<1>7. w \subseteq Cell /\ published[v] \subseteq Cell /\ Sent(queue, published)
  BY <1>6, WorldCells DEF Delivery
<1> SUFFICES Picture(queue', view'.turn, World[view'.turn], published, view'.pixels)
  BY <1>2, <1>4, <1>5 DEF Screen
<1>8. CASE Initial(queue[1])
  <2>1. queue[1] = InitialFlips(image) /\ view.turn = 0 /\ view.pixels = {}
    BY <1>1, <1>8 DEF Screen, Loading
  <2>2. queue[1].type = "CellsFlipped" /\ ~Flip(queue[1]) /\ queue[1].cells = image /\ queue[1].turn = 0
    BY <1>8, <2>1, Events DEF Initial, Flip, WorldNow
  <2>3. view'.pixels = image /\ view'.turn = 0
    <3>1. view'.pixels = Toggled({}, queue[1]) /\ view'.turn = view.turn
      BY <1>1, <2>1, <2>2 DEF Knows
    <3>2. Toggled({}, queue[1]) = ({} \ image) \cup (image \ {})
      BY <1>1, <2>2, Toggles
    <3> QED BY <2>1, <3>1, <3>2
  <2>4. World[0] = image /\ image \subseteq Cell
    BY WorldUnfolds DEF WorldNow
  <2>5. Picture(queue', 0, image, published, image)
    BY <1>1, <1>7, <2>2, <2>4, PictureStarts
  <2> QED BY <2>3, <2>4, <2>5
<1>9. CASE ~Initial(queue[1])
  <2>1. ~Loading
    BY <1>3, <1>9 DEF Screen, Loading
  <2>2. Picture(queue, v, w, published, view.pixels)
    BY <2>1 DEF Screen
  <2>3. CASE Flip(queue[1])
    <3>1. queue[1].type = "CellsFlipped" /\ queue[1].turn = v
      BY <1>6, <2>3 DEF Flip, Carries
    <3>2. view'.pixels = Toggled(view.pixels, queue[1]) /\ view'.turn = v
      BY <1>1, <3>1 DEF Knows
    <3>3. view'.pixels = (view.pixels \ queue[1].cells) \cup (queue[1].cells \ view.pixels)
      BY <1>1, <3>1, <3>2, Toggles
    <3> HIDE DEF v, w
    <3>4. Picture(queue', v, w, published, (view.pixels \ queue[1].cells) \cup (queue[1].cells \ view.pixels))
      BY <1>1, <1>7, <2>2, <2>3, <3>1, PictureTakesFlip
    <3> QED BY <3>2, <3>3, <3>4 DEF v, w
  <2>4. CASE queue[1].type = "TurnComplete"
    <3>1. view'.turn = v + 1 /\ view'.pixels = view.pixels /\ queue[1].turn = v + 1
      BY <1>1, <1>6, <2>4 DEF Knows, Carries
    <3>2. v \in Nat /\ v < turn /\ v \in 0..Turns - 1
      BY <1>6, <3>1, TurnsAssumption DEF WorldNow
    <3>3. published[v] = Changing(w)
      BY <3>2, PublishedAll
    <3>4. World[v + 1] = Generation(w)
      BY <3>2, WorldUnfolds
    <3>5. Follows(queue, v, turn)
      BY DEF Order
    <3> HIDE DEF v, w
    <3>6. view.pixels = Generation(w) /\ Picture(queue', v + 1, view.pixels, published, view.pixels)
      BY <1>1, <1>7, <2>2, <2>4, <3>3, <3>5, PictureTakesTurn
    <3> QED BY <3>1, <3>4, <3>6
  <2>5. CASE ~Flip(queue[1]) /\ queue[1].type # "TurnComplete"
    <3>1. queue[1].type # "CellsFlipped"
      BY <1>9, <2>5 DEF Flip, Initial
    <3>2. view'.turn = v /\ view'.pixels = view.pixels
      BY <1>1, <2>5, <3>1 DEF Knows
    <3>3. Picture(queue', v, w, published, view.pixels)
      BY <1>1, <2>2, <2>5, PictureTakesMark
    <3> QED BY <3>2, <3>3
  <2> QED BY <2>3, <2>4, <2>5
<1> QED BY <1>8, <1>9

\* Every step keeps it.
LEMMA ScreenStep ==
  ASSUME Order, Delivery, Screen, Ends, WorkerTurns, WorldNow, EventStep, PairInv', WorkerTurns', WorldNow'
  PROVE  Screen'
<1>1. UNCHANGED World
  BY WorldStays DEF EventStep, Quiet, MarkSent, Marks, FlipSent, Taken
<1>2. CASE Quiet
  BY <1>1, <1>2, PublishedStays DEF Quiet, Screen, Loading
<1>3. ASSUME NEW e \in Event, MarkSent(e) PROVE Screen'
  <2>1. /\ Longer(queue', queue, e) /\ ~Flip(e) /\ e.turn = turn' /\ view' = view /\ image' = image
        /\ (IF loc = "load" THEN e = InitialFlips(image) ELSE ~Initial(e)) /\ loc' # "load" /\ ~turning'
        /\ UNCHANGED published
    BY <1>3, PublishedStays DEF MarkSent, Marks, Goes
  <2>2. /\ Len(queue) \in Nat /\ Len(queue') = Len(queue) + 1 /\ queue'[Len(queue) + 1] = e
        /\ \A k \in 1..Len(queue) : queue'[k] = queue[k]
        /\ \A k \in 1..Len(queue') : k \in 1..Len(queue) \/ k = Len(queue) + 1
        /\ \A k \in 1..Len(queue) : k \in 1..Len(queue') /\ Len(queue) + 1 \in 1..Len(queue')
    BY <2>1 DEF Longer
  <2>3. CASE loc = "load"
    <3>1. Len(queue) = 0
      BY <2>3 DEF Ends
    <3>2. Initial(e)
      <4>1. InitialFlips(image).type = "CellsFlipped" /\ InitialFlips(image).zeros = Padding
        BY Events DEF WorldNow
      <4> QED BY <2>1, <2>3, <4>1 DEF Initial, Padding
    <3>3. Loading /\ Loading' /\ queue'[1] = e /\ \A k \in 1..Len(queue') : k = 1
      BY <2>2, <2>3, <3>1, <3>2 DEF Loading
    <3> QED BY <2>1, <2>3, <3>3 DEF Screen
  <2>4. CASE loc # "load"
    <3>1. \A k \in 1..Len(queue') : Initial(queue'[k]) => k \in 1..Len(queue) /\ queue'[k] = queue[k]
      BY <2>1, <2>2, <2>4
    <3>2. Loading' <=> Loading
      BY <2>1, <2>2, <2>4, <3>1 DEF Loading
    <3>3. \A k \in 1..Len(queue') : Initial(queue'[k]) => k = 1 /\ queue'[k] = InitialFlips(image)
      BY <3>1 DEF Screen
    <3>4. Loading => view.turn = 0 /\ view.pixels = {}
      BY DEF Screen
    <3>5. published[e.turn] = {}
      BY <2>1, NothingSent
    <3>6. \A t : Behind(queue', 0, t) = Behind(queue, 0, t)
      BY <2>1, <3>5, SentMark DEF Delivery
    <3>7. ~Loading => Picture(queue', view.turn, World[view.turn], published, view.pixels)
      <4>1. SUFFICES ASSUME ~Loading
                     PROVE  Picture(queue', view.turn, World[view.turn], published, view.pixels)
        OBVIOUS
      <4>2. Picture(queue, view.turn, World[view.turn], published, view.pixels)
        BY <4>1 DEF Screen
      <4> QED BY <3>6, <4>2, PictureMark
    <3>8. view'.turn = view.turn /\ view'.pixels = view.pixels
      BY <2>1
    <3> QED BY <1>1, <2>1, <3>2, <3>3, <3>4, <3>7, <3>8 DEF Screen
  <2> QED BY <2>3, <2>4
<1>4. ASSUME NEW e, FlipSent(e) PROVE Screen'
  <2> DEFINE D == 0..Turns
  <2>1. /\ Longer(queue', queue, e) /\ Flip(e) /\ e.turn = turn /\ view' = view /\ image' = image
        /\ e.cells \subseteq Cell /\ loc' = loc /\ Adds(published', published, D, e)
    BY <1>4 DEF FlipSent
  <2>2. /\ Len(queue) \in Nat /\ Len(queue') = Len(queue) + 1 /\ queue'[Len(queue) + 1] = e
        /\ \A k \in 1..Len(queue) : queue'[k] = queue[k]
        /\ \A k \in 1..Len(queue') : k \in 1..Len(queue) \/ k = Len(queue) + 1
        /\ \A k \in 1..Len(queue) : k \in 1..Len(queue') /\ Len(queue) + 1 \in 1..Len(queue')
    BY <2>1 DEF Longer
  <2>3. \A k \in 1..Len(queue') : Initial(queue'[k]) => k \in 1..Len(queue) /\ queue'[k] = queue[k]
    BY <2>1, <2>2 DEF Flip, Initial
  <2>4. Loading' <=> Loading
    BY <2>1, <2>2, <2>3 DEF Loading
  <2>5. \A k \in 1..Len(queue') : Initial(queue'[k]) => k = 1 /\ queue'[k] = InitialFlips(image)
    BY <2>3 DEF Screen
  <2>6. \A k \in 1..Len(queue) : queue[k].turn \in D
    BY TurnsInRange
  <2>7. view.turn \in D /\ Sent(queue, published)
    BY TurnsInRange DEF Delivery
  <2> HIDE DEF D
  <2>8. \A t : Behind(queue', 0, t) = IF t = e.turn THEN Behind(queue, 0, t) \cup e.cells
                                                   ELSE Behind(queue, 0, t)
    <3>1. Longer(queue', queue, e) /\ Flip(e) /\ e.cells \subseteq Cell /\ Adds(published', published, D, e)
      BY <2>1
    <3>2. Sent(queue, published)
      BY <2>7
    <3>3. /\ Sent(queue', published')
          /\ \A t : Behind(queue', 0, t) = IF t = e.turn THEN Behind(queue, 0, t) \cup e.cells
                                                        ELSE Behind(queue, 0, t)
      BY <2>6, <3>1, <3>2, SentFlip
    <3> QED BY <3>3
  <2>9. Behind(queue, 0, e.turn) \subseteq published[e.turn]
    <3>1. \A j \in 0 + 1..Len(queue) : j \in 1..Len(queue)
      OBVIOUS
    <3> QED BY <2>7, <3>1 DEF Behind, Sent
  <2>10. ~Loading => Picture(queue', view.turn, World[view.turn], published', view.pixels)
    <3>1. SUFFICES ASSUME ~Loading PROVE Picture(queue', view.turn, World[view.turn], published', view.pixels)
      OBVIOUS
    <3>2. Picture(queue, view.turn, World[view.turn], published, view.pixels)
      BY <3>1 DEF Screen
    <3> QED BY <2>1, <2>7, <2>8, <2>9, <3>2, PictureFlip
  <2>11. Loading => view.turn = 0 /\ view.pixels = {}
    BY DEF Screen
  <2>12. view'.turn = view.turn /\ view'.pixels = view.pixels
    BY <2>1
  <2> QED BY <1>1, <2>1, <2>4, <2>5, <2>10, <2>11, <2>12 DEF Screen
<1>5. CASE Taken
  BY <1>5, ScreenTaken
<1> QED BY <1>2, <1>3, <1>4, <1>5 DEF EventStep

\* No flips are sent to a receiver that is told last that the evaluation is paused.
States ==
  /\ \A k \in 1..Len(queue) :
       queue[k].type = "CellsFlipped" => ~PausedBefore(queue, view.state, k)
  /\ ~pause_flag => ~PausedBefore(queue, view.state, Len(queue) + 1)

\* Every step keeps it.
LEMMA StatesStep == States /\ Control /\ EventStep => States'
<1> SUFFICES ASSUME States, Control, EventStep PROVE States'
  OBVIOUS
<1>1. CASE Quiet
  BY <1>1 DEF Quiet, States
<1>2. ASSUME NEW e, Longer(queue', queue, e), view' = view, pause_flag \in BOOLEAN,
             e.type = "CellsFlipped" => ~pause_flag,
             Pausing(e) \/ (pause_flag /\ ~Resuming(e)) => pause_flag'
      PROVE  States'
  <2>1. /\ Len(queue) \in Nat /\ Len(queue') = Len(queue) + 1 /\ queue'[Len(queue) + 1] = e
        /\ \A k \in 1..Len(queue) : queue'[k] = queue[k]
        /\ \A k \in 1..Len(queue') : k \in 1..Len(queue) + 1 /\ (k \in 1..Len(queue) \/ k = Len(queue) + 1)
    BY <1>2 DEF Longer
  <2>2. /\ \A k \in 1..Len(queue) + 1 :
             PausedBefore(queue', view.state, k) <=> PausedBefore(queue, view.state, k)
        /\ PausedBefore(queue', view.state, Len(queue') + 1) =>
             Pausing(e) \/ (~Resuming(e) /\ PausedBefore(queue, view.state, Len(queue) + 1))
    BY <1>2, PausedLonger
  <2>3. ASSUME NEW k \in 1..Len(queue'), queue'[k].type = "CellsFlipped"
        PROVE  ~PausedBefore(queue', view.state, k)
    <3>1. CASE k \in 1..Len(queue)
      BY <2>1, <2>2, <2>3, <3>1 DEF States
    <3>2. CASE k = Len(queue) + 1
      <4>1. ~pause_flag
        BY <1>2, <2>1, <2>3, <3>2
      <4> QED BY <2>1, <2>2, <3>2, <4>1 DEF States
    <3> QED BY <2>1, <3>1, <3>2
  <2>4. ~pause_flag' => ~PausedBefore(queue', view.state, Len(queue') + 1)
    BY <1>2, <2>2 DEF States
  <2>5. view'.state = view.state
    BY <1>2
  <2> QED BY <2>3, <2>4, <2>5 DEF States
<1>3. pause_flag \in BOOLEAN
  BY DEF Control
<1>4. ASSUME NEW e, MarkSent(e) PROVE States'
  <2>1. /\ Longer(queue', queue, e) /\ view' = view /\ ~Flip(e)
        /\ (Pausing(e) \/ (pause_flag /\ ~Resuming(e)) => pause_flag')
        /\ (loc # "load" => ~Initial(e))
    BY <1>4 DEF MarkSent, Marks, Goes
  <2>2. e.type = "CellsFlipped" => ~pause_flag
    BY <2>1 DEF Flip, Initial, Control
  <2> QED BY <1>2, <1>3, <2>1, <2>2
<1>5. ASSUME NEW e, FlipSent(e) PROVE States'
  <2>1. /\ Longer(queue', queue, e) /\ view' = view /\ Flip(e) /\ turning /\ pause_flag' = pause_flag
    BY <1>5 DEF FlipSent
  <2>2. ~pause_flag
    BY <2>1 DEF Control
  <2>3. ~Pausing(e)
    BY <2>1 DEF Flip, Pausing
  <2> QED BY <1>2, <1>3, <2>1, <2>2, <2>3
<1>6. CASE Taken
  <2>1. Shorter(queue', queue) /\ Knows(queue[1]) /\ pause_flag' = pause_flag
    BY <1>6 DEF Taken
  <2> DEFINE u == view'.state
  <2>2. u = "Paused" => Pausing(queue[1]) \/ (view.state = "Paused" /\ ~Resuming(queue[1]))
    BY <2>1 DEF Knows, Pausing, Resuming
  <2>3. /\ Len(queue) \in Nat /\ Len(queue') + 1 = Len(queue) /\ Len(queue') \in Nat
        /\ \A k \in 1..Len(queue') : /\ k + 1 \in 1..Len(queue) /\ queue'[k] = queue[k + 1]
                                     /\ k \in 1..Len(queue') + 1
        /\ Len(queue) \in 1..Len(queue') + 1
    BY <2>1 DEF Shorter
  <2> HIDE DEF u
  <2>4. \A k \in 1..Len(queue') + 1 : PausedBefore(queue', u, k) => PausedBefore(queue, view.state, k + 1)
    BY <2>1, <2>2, PausedShorter
  <2>5. ASSUME NEW k \in 1..Len(queue'), queue'[k].type = "CellsFlipped"
        PROVE  ~PausedBefore(queue', u, k)
    BY <2>3, <2>4, <2>5 DEF States
  <2>6. ~pause_flag' => ~PausedBefore(queue', u, Len(queue') + 1)
    <3>1. Len(queue') + 1 \in 1..Len(queue') + 1 /\ (Len(queue') + 1) + 1 = Len(queue) + 1
      BY <2>3
    <3> QED BY <2>1, <2>4, <3>1 DEF States
  <2> QED BY <2>5, <2>6 DEF States, u
<1> QED BY <1>1, <1>4, <1>5, <1>6 DEF EventStep

\* The image is loaded in turn 0 and the last world is written before goodbye.
LEMMA EndsStep ==
  ASSUME Ends, Control, WorldNow', EventStep
  PROVE  Ends'
<1>1. UNCHANGED World
  BY WorldStays DEF EventStep, Quiet, MarkSent, Marks, FlipSent, Taken
<1>2. CASE Quiet
  BY <1>1, <1>2 DEF Quiet, Ends
<1>3. ASSUME NEW e, MarkSent(e) PROVE Ends'
  <2>1. Goes(e)
    BY <1>3 DEF MarkSent, Marks
  <2> QED BY <1>1, <2>1 DEF Goes, Ends, WorldNow
<1>4. ASSUME NEW e, FlipSent(e) PROVE Ends'
  BY <1>1, <1>4 DEF FlipSent, Ends, Control
<1>5. CASE Taken
  <2>1. loc' = loc /\ turn' = turn /\ disk' = disk /\ Len(queue) # 0
    BY <1>5 DEF Taken, Shorter
  <2> QED BY <1>1, <2>1 DEF Ends
<1> QED BY <1>2, <1>3, <1>4, <1>5 DEF EventStep

\* The last event of the distributor.
Quits(m) == m.type = "StateChange" /\ m.state = "Quitting"

\* Goodbye is the last event, and a consumer that left has heard it.
Goodbye ==
  /\ loc \in {"close", "returned"} => IF Len(queue) = 0 THEN view.state = "Quitting"
                                                        ELSE Quits(queue[Len(queue)])
  /\ \A k \in 1..Len(queue) : Quits(queue[k]) => k = Len(queue) /\ loc \in {"close", "returned"}
  /\ ~view.open => Len(queue) = 0 /\ loc \in {"close", "returned"}

\* Every step keeps it.
LEMMA GoodbyeStep == Goodbye /\ Control /\ EventStep => Goodbye'
<1> SUFFICES ASSUME Goodbye, Control, EventStep PROVE Goodbye'
  OBVIOUS
<1>1. CASE Quiet
  <2>1. Len(<<>>) = 0
    OBVIOUS
  <2>2. ~view'.open => Len(queue) = 0 /\ loc \in {"close", "returned"}
    BY <1>1, <2>1 DEF Quiet, Goodbye
  <2> QED BY <1>1, <2>2 DEF Quiet, Goodbye
<1>2. ASSUME NEW e, Longer(queue', queue, e), view' = view, loc \notin {"close", "returned"},
             Quits(e) <=> loc' = "close", loc' # "returned"
      PROVE  Goodbye'
  <2>1. /\ Len(queue) \in Nat /\ Len(queue') = Len(queue) + 1 /\ queue'[Len(queue')] = e
        /\ \A k \in 1..Len(queue) : queue'[k] = queue[k]
        /\ \A k \in 1..Len(queue') : k \in 1..Len(queue) \/ k = Len(queue')
    BY <1>2 DEF Longer
  <2>2. \A k \in 1..Len(queue) : ~Quits(queue[k])
    BY <1>2 DEF Goodbye
  <2>3. view.open
    BY <1>2 DEF Goodbye
  <2>4. \A k \in 1..Len(queue') : Quits(queue'[k]) => k = Len(queue') /\ Quits(e)
    BY <2>1, <2>2
  <2> QED BY <1>2, <2>1, <2>3, <2>4 DEF Goodbye
<1>3. ASSUME NEW e, MarkSent(e) PROVE Goodbye'
  <2>1. Longer(queue', queue, e) /\ view' = view /\ Goes(e)
    BY <1>3 DEF MarkSent, Marks
  <2>2. loc \notin {"close", "returned"} /\ (Quits(e) <=> loc' = "close") /\ loc' # "returned"
    BY <2>1 DEF Goes, Quits
  <2> QED BY <1>2, <2>1, <2>2
<1>4. ASSUME NEW e, FlipSent(e) PROVE Goodbye'
  <2>1. Longer(queue', queue, e) /\ view' = view /\ loc = "turn" /\ loc' = loc /\ ~Quits(e)
    BY <1>4 DEF FlipSent, Control, Flip, Quits
  <2> QED BY <1>2, <2>1
<1>5. CASE Taken
  <2>1. /\ Knows(queue[1]) /\ view.open /\ loc' = loc
        /\ Len(queue) \in Nat /\ Len(queue) >= 1 /\ Len(queue') = Len(queue) - 1 /\ 1 \in 1..Len(queue)
        /\ \A k \in 1..Len(queue') : k + 1 \in 1..Len(queue) /\ queue'[k] = queue[k + 1]
    BY <1>5 DEF Taken, Shorter
  <2>2. Len(queue') = 0 <=> Len(queue) = 1
    BY <2>1
  <2>3. ASSUME loc \in {"close", "returned"}
        PROVE  IF Len(queue') = 0 THEN view'.state = "Quitting" ELSE Quits(queue'[Len(queue')])
    <3>1. Quits(queue[Len(queue)])
      BY <2>1, <2>3 DEF Goodbye
    <3>2. CASE Len(queue') = 0
      <4>1. Quits(queue[1])
        BY <2>2, <3>1, <3>2
      <4> QED BY <2>1, <3>2, <4>1 DEF Quits, Knows
    <3>3. CASE Len(queue') # 0
      <4>1. Len(queue') \in 1..Len(queue') /\ Len(queue') + 1 = Len(queue)
        BY <2>1, <3>3
      <4> QED BY <2>1, <3>1, <3>3, <4>1
    <3> QED BY <3>2, <3>3
  <2>4. \A k \in 1..Len(queue') : Quits(queue'[k]) => k = Len(queue') /\ loc \in {"close", "returned"}
    <3> TAKE k \in 1..Len(queue')
    <3> HAVE Quits(queue'[k])
    <3>1. k + 1 \in 1..Len(queue) /\ Quits(queue[k + 1])
      BY <2>1
    <3>2. k + 1 = Len(queue) /\ loc \in {"close", "returned"}
      BY <3>1 DEF Goodbye
    <3> QED BY <2>1, <3>2
  <2>5. ASSUME ~view'.open PROVE Len(queue') = 0 /\ loc \in {"close", "returned"}
    <3>1. Quits(queue[1])
      BY <2>1, <2>5 DEF Knows, Quits
    <3>2. 1 = Len(queue) /\ loc \in {"close", "returned"}
      BY <2>1, <3>1 DEF Goodbye
    <3> QED BY <2>2, <3>2
  <2> QED BY <2>1, <2>3, <2>4, <2>5 DEF Goodbye
<1> QED BY <1>1, <1>3, <1>4, <1>5 DEF EventStep

------------------------------------------------------------------------------
(* The invariant of the engine, and what the user sees                       *)

EngineInv ==
  /\ Control /\ WorkerTurns /\ WorldNow
  /\ Channels /\ Files
  /\ Order /\ Delivery /\ Reports
  /\ Screen /\ States /\ Ends /\ Goodbye

\* The program starts with empty channels and an empty screen.
LEMMA EngineInvInit == EngineInit => EngineInv
<1> SUFFICES ASSUME EngineInit PROVE EngineInv
  OBVIOUS
<1>1. /\ loc = "load" /\ outbox = <<>> /\ pause_flag = FALSE /\ disk = [t \in 0..Turns |-> {}]
      /\ events = <<>> /\ keyPresses = <<>> /\ pressing = <<>> /\ turn = 0
      /\ view = [open |-> TRUE, pixels |-> {}, turn |-> 0, state |-> "Loading"]
  BY DEF EngineInit, TurnInit, DataInit
<1>2. Control /\ WorkerTurns /\ WorldNow
  BY ControlInit, TurnsInit
<1>3. <<>> \in Seq(Event) /\ <<>> \in Seq(Keys \cup {"q"}) /\ <<>> \o <<>> = <<>> /\ Len(<<>>) = 0
  OBVIOUS
<1>4. Channels
  BY <1>1, <1>3, ChannelAssumption DEF Channels
<1>5. Files
  BY <1>1 DEF Files
<1>6. Len(queue) = 0 /\ view.turn = 0 /\ view.pixels = {} /\ view.open /\ view.state = "Loading"
  BY <1>1, <1>3 DEF queue
<1>7. Order
  BY <1>1, <1>6 DEF Order, Follows, TurnBefore
<1>8. Delivery /\ Reports
  BY <1>6 DEF Delivery, Sent, Reports
<1>9. Screen
  BY <1>1, <1>6 DEF Screen, Loading
<1>10. States /\ Ends /\ Goodbye
  BY <1>1, <1>6 DEF States, PausedBefore, Ends, Goodbye
<1> QED BY <1>2, <1>4, <1>5, <1>7, <1>8, <1>9, <1>10 DEF EngineInv

\* Every step keeps the invariant.
LEMMA EngineInvStep ==
  /\ BarrierInv /\ PairInv /\ DataInv /\ EngineInv /\ [EngineNext]_vars
  /\ PairInv'
  => EngineInv' /\ EventStep
<1> SUFFICES ASSUME BarrierInv, PairInv, DataInv, EngineInv, [EngineNext]_vars, PairInv'
             PROVE  EngineInv' /\ EventStep
  OBVIOUS
<1>1. /\ Control /\ WorkerTurns /\ WorldNow /\ Channels /\ Files /\ Order /\ Delivery /\ Reports
      /\ Screen /\ States /\ Ends /\ Goodbye
  BY DEF EngineInv
<1>2. Control' /\ WorkerTurns' /\ WorldNow'
  BY <1>1, ControlStep, TurnsStep
<1>3. /\ Channels' /\ Files' /\ EventStep
      /\ \A t \in 0..Turns : disk[t] = {World[t]} => disk'[t] = {World[t]}
  BY <1>1, EventSteps
<1>4. Order' /\ Delivery' /\ Reports'
  BY <1>1, <1>2, <1>3, OrderStep, DeliveryStep, ReportsStep
<1>5. Screen' /\ States' /\ Ends' /\ Goodbye'
  BY <1>1, <1>2, <1>3, ScreenStep, StatesStep, EndsStep, GoodbyeStep
<1> QED BY <1>2, <1>3, <1>4, <1>5 DEF EngineInv

\* The invariants of the barrier, of the matrices and of the engine hold together.
THEOREM EngineHolds == EngineSpec => [](BarrierInv /\ PairInv /\ DataInv /\ EngineInv)
<1>1. EngineSpec => []BarrierInv /\ []PairInv /\ []DataInv
  BY EngineEvaluates, BarrierHolds, PairsAgree, DataInOrder, PTL
<1> QED BY <1>1, EngineInvInit, EngineInvStep, PTL DEF EngineSpec

\* The first event in the channel is the first of the queue.
LEMMA FirstEvent ==
  ASSUME EngineInv, events # <<>>
  PROVE  /\ Head(events) = queue[1] /\ Len(queue) \in Nat /\ Len(queue) >= 1 /\ 1 \in 1..Len(queue)
         /\ Carries(queue[1], view.turn) /\ TrueOf(queue[1], World[queue[1].turn], disk[queue[1].turn])
         /\ \E r : Shorter(r, queue)
<1>1. events \in Seq(Event) /\ outbox \in Seq(Event) /\ Head(events) \in Event
  BY DEF EngineInv, Channels
<1>2. queue \in Seq(Event) /\ queue # <<>> /\ Head(queue) = Head(events)
  BY <1>1, QueueMoves DEF queue
<1>3. Shorter(Tail(queue), queue) /\ Head(queue) = queue[1]
  BY <1>1, <1>2, QueueSteps
<1>4. Len(queue) \in Nat /\ Len(queue) >= 1 /\ 1 \in 1..Len(queue)
  BY <1>3 DEF Shorter
<1>5. Carries(queue[1], view.turn)
  BY <1>3, FollowsShorter DEF EngineInv, Order
<1>6. TrueOf(queue[1], World[queue[1].turn], disk[queue[1].turn])
  BY <1>4 DEF EngineInv, Reports
<1> QED BY <1>2, <1>3, <1>4, <1>5, <1>6

\* When it is no flip, the screen is the world of the receiver's turn, and with
\* TurnComplete that of the next.
LEMMA FrameAtEvent ==
  ASSUME EngineInv, events # <<>>, queue[1].type # "CellsFlipped"
  PROVE  /\ queue[1].type # "TurnComplete" =>
              queue[1].turn = view.turn /\ view.pixels = World[view.turn]
         /\ queue[1].type = "TurnComplete" =>
              queue[1].turn = view.turn + 1 /\ view.pixels = World[view.turn + 1]
<1> DEFINE v == view.turn
           w == World[v]
<1>1. /\ Len(queue) \in Nat /\ Len(queue) >= 1 /\ 1 \in 1..Len(queue) /\ Carries(queue[1], v)
      /\ \E r : Shorter(r, queue)
  BY FirstEvent
<1>2. /\ Screen /\ Ends /\ Order /\ Delivery /\ WorldNow /\ WorkerTurns
  BY DEF EngineInv
<1>3. ~Flip(queue[1]) /\ ~Initial(queue[1])
  BY DEF Flip, Initial
<1>4. ~Loading
  BY <1>1, <1>2, <1>3 DEF Loading, Screen, Ends
<1>5. /\ Picture(queue, v, w, published, view.pixels) /\ Sent(queue, published) /\ Follows(queue, v, turn)
      /\ v \in 0..Turns /\ queue[1].turn \in 0..turn /\ turn \in 0..Turns
  BY <1>1, <1>2, <1>4, TurnsInRange DEF Screen, Delivery, Order, WorldNow
<1>6. w \subseteq Cell
  BY <1>2, <1>5, WorldCells
<1>7. CASE queue[1].type # "TurnComplete"
  <2>1. queue[1].turn = v
    BY <1>1, <1>7 DEF Carries
  <2> HIDE DEF v, w
  <2>2. view.pixels = w
    BY <1>1, <1>3, <1>5, <1>6, <2>1, PictureAtMark
  <2> QED BY <1>7, <2>1, <2>2 DEF v, w
<1>8. CASE queue[1].type = "TurnComplete"
  <2>1. queue[1].turn = v + 1 /\ v \in Nat /\ v < turn /\ v \in 0..Turns - 1
    BY <1>1, <1>5, <1>8, TurnsAssumption DEF Carries
  <2>2. published[v] = Changing(w) /\ World[v + 1] = Generation(w)
    BY <1>2, <2>1, PublishedAll, WorldUnfolds
  <2>3. PICK r : Shorter(r, queue)
    BY <1>1
  <2> HIDE DEF v, w
  <2>4. view.pixels = Generation(w)
    BY <1>5, <1>6, <1>8, <2>2, <2>3, PictureTakesTurn
  <2> QED BY <1>8, <2>1, <2>2, <2>4 DEF v, w
<1> QED BY <1>7, <1>8

\* The variables of the engine keep their types.
LEMMA EngineTypes == PairInv /\ DataInv /\ EngineInv => EngineTypeOK
<1> SUFFICES ASSUME PairInv, DataInv, EngineInv PROVE EngineTypeOK
  OBVIOUS
<1>1. Control /\ WorkerTurns /\ WorldNow /\ Channels /\ Files /\ Screen /\ Order
  BY DEF EngineInv
<1>2. wturn \in [Thread -> 0..Turns]
  <2>1. turn \in 0..Turns /\ wturn \in [Thread -> Nat] /\ Turns \in Nat
    BY <1>1, TurnsAssumption DEF WorldNow, WorkerTurns
  <2>2. ASSUME NEW i \in Thread PROVE wturn[i] \in 0..Turns
    <3>1. CASE turning
      <4>1. turn < Turns
        BY <3>1 DEF DataInv, TurnInv
      <4> QED BY <1>1, <2>1, <4>1 DEF WorkerTurns
    <3>2. CASE ~turning
      BY <1>1, <2>1, <3>2, AlikeOutside
    <3> QED BY <3>1, <3>2
  <2> QED BY <2>1, <2>2
<1>3. view.pixels \subseteq Cell
  BY <1>1 DEF Screen, Picture
<1>4. view.turn \in 0..Turns
  BY <1>1, TurnsInRange
<1>5. pause_flag \in BOOLEAN
  BY <1>1 DEF Control
<1>6. DOMAIN disk = 0..Turns /\ \A t \in 0..Turns : disk[t] \subseteq SUBSET Cell
  BY <1>1 DEF Files
<1> QED BY <1>1, <1>2, <1>3, <1>4, <1>5, <1>6 DEF EngineTypeOK, Channels

\* "All CellFlipped or CellsFlipped events must be sent *before* TurnComplete"
\* (event.go:66-68): a window that reads TurnComplete has exactly the next
\* generation on its screen, whatever the number of workers, the room in the
\* channel and the order in which the goroutines get hold of it.
THEOREM FramesWhole == EngineSpec => []WholeFrames
<1>1. PairInv /\ DataInv /\ EngineInv => WholeFrames
  BY FirstEvent, FrameAtEvent, EngineTypes DEF WholeFrames, NextEvent
<1> QED BY <1>1, EngineHolds, PTL

\* Flips reach the window in the turn their workers counted.
THEOREM FlipsInOrder == EngineSpec => []FlipsInTurn
<1>1. EngineInv => FlipsInTurn
  BY FirstEvent DEF FlipsInTurn, NextEvent, Carries
<1> QED BY <1>1, EngineHolds, PTL

\* The numbers of living cells, the files and the final cells that are reported
\* (distributor.go:102, 144, 182) are those of the frame on the screen.
THEOREM ReportsTrue == EngineSpec => []ReportsMatchFrame
<1>1. EngineInv => ReportsMatchFrame
  <2> SUFFICES ASSUME EngineInv PROVE ReportsMatchFrame
    OBVIOUS
  <2>1. ASSUME NEW type \in {"AliveCellsCount", "ImageOutputComplete", "FinalTurnComplete"}, NextEvent(type)
        PROVE  /\ Head(events) = queue[1] /\ queue[1].type = type
               /\ queue[1].turn = view.turn /\ view.pixels = World[view.turn]
               /\ TrueOf(queue[1], view.pixels, disk[view.turn])
    <3>1. /\ events # <<>> /\ Head(events) = queue[1] /\ queue[1].type = type
          /\ TrueOf(queue[1], World[queue[1].turn], disk[queue[1].turn])
      BY <2>1, FirstEvent DEF NextEvent
    <3>2. queue[1].type # "CellsFlipped" /\ queue[1].type # "TurnComplete"
      BY <3>1
    <3>3. queue[1].turn = view.turn /\ view.pixels = World[view.turn]
      BY <3>1, <3>2, FrameAtEvent
    <3> QED BY <3>1, <3>3
  <2> QED BY <2>1 DEF ReportsMatchFrame, TrueOf
<1> QED BY <1>1, EngineHolds, PTL

\* A consumer that left has the last world on its screen and on the disk.
THEOREM LastWorldIsSaved == EngineSpec => []LastWorldSaved
<1>1. PairInv /\ EngineInv => LastWorldSaved
  <2> SUFFICES ASSUME PairInv, EngineInv, ~view.open
               PROVE  /\ view.state = "Quitting" /\ view.pixels = World[view.turn]
                      /\ disk[view.turn] = {view.pixels}
    BY DEF LastWorldSaved
  <2>1. Control /\ WorkerTurns /\ WorldNow /\ Order /\ Screen /\ Ends /\ Goodbye
    BY DEF EngineInv
  <2>2. Len(queue) = 0 /\ loc \in {"close", "returned"} /\ view.state = "Quitting"
    BY <2>1 DEF Goodbye
  <2>3. view.turn = turn /\ turn \in 0..Turns
    BY <2>1, <2>2 DEF Order, Follows, TurnBefore, WorldNow
  <2>4. disk[turn] = {World[turn]}
    BY <2>1, <2>2 DEF Ends
  <2>5. published[turn] = {}
    <3>1. \A i \in Thread : ~(wturn[i] > turn)
      BY <2>1, <2>2, <2>3, AlikeOutside DEF Control
    <3> QED BY <2>3, <3>1 DEF published
  <2>6. ~Loading
    BY <2>2 DEF Loading
  <2>7. Picture(queue, turn, World[turn], published, view.pixels)
    BY <2>1, <2>3, <2>6 DEF Screen
  <2>8. World[turn] \subseteq Cell
    BY <2>1, <2>3, WorldCells
  <2>9. view.pixels = World[turn]
    BY <2>5, <2>7, <2>8 DEF Picture
  <2> QED BY <2>2, <2>3, <2>4, <2>9
<1> QED BY <1>1, EngineHolds, PTL

\* While the user reads Paused nothing moves (distributor.go:153-162).
THEOREM NothingMovesPaused == EngineSpec => PauseFreezes
<1>1. ASSUME EngineInv, EventStep, view.state = "Paused"
      PROVE  view'.pixels = view.pixels
  <2>1. CASE Quiet
    BY <2>1 DEF Quiet
  <2>2. ASSUME NEW e, MarkSent(e) \/ FlipSent(e) PROVE view'.pixels = view.pixels
    BY <2>2 DEF MarkSent, Marks, FlipSent
  <2>3. CASE Taken
    <3>1. Len(queue) \in Nat /\ 1 \in 1..Len(queue) /\ Knows(queue[1])
      BY <2>3 DEF Taken, Shorter
    <3>2. PausedBefore(queue, view.state, 1)
      BY <1>1 DEF PausedBefore
    <3>3. queue[1].type # "CellsFlipped"
      BY <1>1, <3>1, <3>2 DEF EngineInv, States
    <3> QED BY <3>1, <3>3 DEF Knows
  <2> QED BY <1>1, <2>1, <2>2, <2>3 DEF EventStep
<1>2. /\ BarrierInv /\ PairInv /\ DataInv /\ EngineInv /\ [EngineNext]_vars /\ PairInv'
      => [view.state = "Paused" /\ view'.state = "Paused" => view'.pixels = view.pixels]_vars
  BY <1>1, EngineInvStep
<1> QED BY <1>2, EngineHolds, PTL DEF EngineSpec, PauseFreezes

------------------------------------------------------------------------------
(* Nobody waits for ever                                                     *)

\* The distributor has sent its event, and can go on: the guards of Distributor.
DistributorReady ==
  \/ loc \in {"load", "handle", "save", "bye", "close"}
  \/ loc = "spawn" /\ (dist = "exclusive" \/ (dist = "spawning" /\ worker[spawned + 1] = "none"))
  \/ loc = "turn" /\ dist = "exclusive"
  \/ loc = "loop" /\ turn # Turns /\ holder = Free
  \/ /\ loc = "quit" \/ (loc = "loop" /\ turn = Turns)
     /\ holder = Free /\ count >= Cardinality(matrix.pixels)

\* Worker i can go on: the guards of Worker(i).
WorkerReady(i) ==
  \/ worker[i] \in {"parking", "checking"}
  \/ worker[i] \in {"created", "worked", "woken"} /\ holder = Free
  \/ worker[i] = "greeting" /\ dist = "awaiting"
  \/ worker[i] = "reporting" /\ dist = "collecting"
  \/ worker[i] = "working" /\ (stage[i] # DoneStage \/ Len(events) < EventCap)

\* Somebody can go on, without another key or tick.
SomebodyGoesOn ==
  \/ outbox # <<>> /\ Len(events) < EventCap
  \/ outbox = <<>> /\ DistributorReady
  \/ \E i \in Thread : WorkerReady(i)
  \/ pressing # <<>> /\ Len(keyPresses) < KeyCap
  \/ view.open /\ pressing = <<>> /\ (events # <<>> \/ closed)

NotStuck == view.open => SomebodyGoesOn

\* The keys on their way were pressed, but for the one that the signal sent; and
\* a distributor that returned has closed the events channel.
KeysCounted ==
  /\ presses \in Nat /\ presses <= MaxPresses /\ signalled \in BOOLEAN
  /\ Len(keyPresses) + Len(pressing) <= presses + (IF signalled THEN 1 ELSE 0)
  /\ loc = "returned" => closed

\* A key is pressed once, sent once and taken once.
LEMMA KeysStep ==
  ASSUME MaxPresses \in Nat, Channels, KeysCounted, [EngineNext]_vars
  PROVE  KeysCounted'
<1> DEFINE K == Keys \cup {"q"}
           sum == Len(keyPresses) + Len(pressing)
           known == presses + (IF signalled THEN 1 ELSE 0)
<1>1. /\ presses \in Nat /\ presses <= MaxPresses /\ signalled \in BOOLEAN
      /\ sum <= known /\ (loc = "returned" => closed)
      /\ keyPresses \in Seq(K) /\ pressing \in Seq(K)
      /\ Len(keyPresses) \in Nat /\ Len(pressing) \in Nat
  BY DEF KeysCounted, Channels
<1> HIDE DEF K
<1>2. Len(<<>>) = 0 /\ \A k : Len(<<k>>) = 1
  OBVIOUS
<1>3. CASE UNCHANGED <<presses, signalled, keyPresses, pressing, closed>> /\ loc' # "returned"
  BY <1>1, <1>3 DEF KeysCounted
<1>4. CASE UNCHANGED <<presses, signalled, keyPresses, pressing, closed, loc>>
  BY <1>1, <1>4 DEF KeysCounted
<1>5. CASE Accept \/ CreateWorker \/ Merge \/ Tick \/ Receive \/ SeeClosed \/ UNCHANGED vars
  BY <1>4, <1>5 DEF Accept, CreateWorker, Merge, Tick, Receive, SeeClosed, vars, engineVars,
     windowVars, channels
<1>6. CASE Load \/ Announce \/ Begin \/ Complete \/ HandleTick \/ HandleNothing \/ Finish
           \/ SaveLast \/ Bye
  BY <1>3, <1>6 DEF Load, Announce, Begin, Complete, HandleTick, HandleNothing, Finish, SaveLast,
     Bye, Emit, Write, AfterHandling, windowVars, channels
<1>7. CASE HandleKey
  <2>1. Len(Tail(keyPresses)) = Len(keyPresses) - 1
    BY <1>1, <1>7 DEF HandleKey
  <2>2. UNCHANGED <<presses, signalled, pressing, closed>> /\ keyPresses' = Tail(keyPresses)
    BY <1>7 DEF HandleKey, windowVars
  <2>3. loc' # "returned"
    BY <1>7, KeyCases DEF Write, Emit, AfterHandling
  <2> QED BY <1>1, <2>1, <2>2, <2>3 DEF KeysCounted
<1>8. CASE Close
  BY <1>1, <1>8 DEF Close, windowVars, KeysCounted
<1>9. CASE Press
  <2>1. /\ presses' = presses + 1 /\ presses < MaxPresses
        /\ UNCHANGED <<signalled, keyPresses, closed, loc>>
        /\ pressing = <<>> /\ \E k \in Keys : pressing' = <<k>>
    BY <1>9 DEF Press, engineVars, channels
  <2>2. Len(pressing) = 0 /\ Len(pressing') = 1
    BY <1>2, <2>1
  <2> QED BY <1>1, <2>1, <2>2 DEF KeysCounted
<1>10. CASE SendKey
  <2>1. /\ UNCHANGED <<presses, signalled, closed, loc>>
        /\ keyPresses' = keyPresses \o pressing /\ pressing' = <<>>
    BY <1>10 DEF SendKey, engineVars
  <2>2. Len(keyPresses') = Len(keyPresses) + Len(pressing)
    BY <1>1, <2>1
  <2> QED BY <1>1, <1>2, <2>1, <2>2 DEF KeysCounted
<1>11. CASE Sigterm
  <2>1. /\ UNCHANGED <<presses, pressing, closed, loc>> /\ ~signalled /\ signalled' = TRUE
        /\ keyPresses' = Append(keyPresses, "q")
    BY <1>11 DEF Sigterm, engineVars
  <2>2. Len(keyPresses') = Len(keyPresses) + 1
    BY <1>1, <2>1
  <2> QED BY <1>1, <2>1, <2>2 DEF KeysCounted
<1>12. ASSUME NEW i \in Thread, Worker(i) PROVE KeysCounted'
  BY <1>4, <1>12 DEF Worker, Publish, Compute, engineVars, windowVars, channels
<1> QED
  BY <1>5, <1>6, <1>7, <1>8, <1>9, <1>10, <1>11, <1>12 DEF EngineNext, Distributor, Consume

\* While the consumer waits for an event, the distributor has not returned and
\* there is room for one; what holds it up in the barrier, holds up nobody else.
LEMMA InvGoesOn ==
  ASSUME MaxPresses \in Nat, MaxPresses < KeyCap,
         BarrierInv, Owed, PairInv, DataInv, EngineInv, KeysCounted
  PROVE  NotStuck
<1> SUFFICES ASSUME view.open PROVE SomebodyGoesOn
  BY DEF NotStuck
<1>1. /\ Len(<<>>) = 0 /\ EventCap \in Nat \ {0} /\ KeyCap \in Nat
      /\ Len(keyPresses) \in Nat /\ Len(pressing) \in Nat
      /\ pressing = <<>> \/ Len(pressing) = 1
  BY ChannelAssumption DEF EngineInv, Channels
<1>2. CASE pressing # <<>>
  <2>1. Len(keyPresses) < KeyCap
    BY <1>1, <1>2 DEF KeysCounted
  <2> QED BY <1>2, <2>1 DEF SomebodyGoesOn
<1>3. CASE pressing = <<>> /\ (events # <<>> \/ closed)
  BY <1>3 DEF SomebodyGoesOn
<1>4. CASE events = <<>> /\ ~closed
  <2>1. Len(events) < EventCap /\ loc # "returned"
    BY <1>1, <1>4 DEF KeysCounted
  <2>2. CASE outbox # <<>>
    BY <2>1, <2>2 DEF SomebodyGoesOn
  <2>3. CASE outbox = <<>> /\ loc \in {"load", "handle", "save", "bye", "close"}
    BY <2>3 DEF SomebodyGoesOn, DistributorReady
  <2>4. CASE outbox = <<>> /\ loc \in {"spawn", "loop", "turn", "quit"}
    <3>1. /\ dist # "stopped"
          /\ loc \in {"loop", "quit"} => dist = "exclusive" /\ ~turning
          /\ loc = "turn" => dist \in {"collecting", "exclusive"}
          /\ loc = "spawn" => dist \in {"spawning", "awaiting", "exclusive"}
      BY <2>4 DEF EngineInv, Control, PairInv
    <3>2. ~turning => count >= Cardinality(matrix.pixels)
      BY DEF DataInv, DataTypeOK, P
    <3>3. CASE dist = "spawning" /\ worker[spawned + 1] = "none"
      BY <2>4, <3>1, <3>3 DEF SomebodyGoesOn, DistributorReady
    <3>4. CASE dist = "exclusive" /\ holder = Free
      BY <2>4, <3>1, <3>2, <3>4 DEF SomebodyGoesOn, DistributorReady
    <3>5. ASSUME NEW i \in Thread,
                 \/ worker[i] \in {"parking", "checking", "working"}
                 \/ worker[i] \in {"created", "worked", "woken"} /\ holder = Free
                 \/ worker[i] = "greeting" /\ dist = "awaiting"
                 \/ worker[i] = "reporting" /\ dist = "collecting"
          PROVE  SomebodyGoesOn
      BY <2>1, <3>5 DEF SomebodyGoesOn, WorkerReady
    <3> QED BY <3>1, <3>3, <3>4, <3>5, InvMoves DEF SomebodyMoves
  <2> QED BY <2>1, <2>2, <2>3, <2>4 DEF EngineInv, Control
<1> QED BY <1>2, <1>3, <1>4

\* Distributor, workers and consumer never all wait for each other, over the mutex,
\* the results, the events or the keys, for every number of workers and all
\* capacities, when no more keys arrive than keyPresses holds (loop.go:27-49,
\* distributor.go:111-171, 239; the signal of main.go sends one of them).
THEOREM EngineNoDeadlock ==
  MaxPresses \in Nat /\ MaxPresses < KeyCap /\ EngineSpec => []NotStuck
<1> SUFFICES ASSUME MaxPresses \in Nat, MaxPresses < KeyCap PROVE EngineSpec => []NotStuck
  OBVIOUS
<1>1. EngineInit => Owed /\ KeysCounted
  <2> SUFFICES ASSUME EngineInit PROVE Owed /\ KeysCounted
    OBVIOUS
  <2>1. /\ dist = "spawning" /\ loc = "load" /\ presses = 0 /\ signalled = FALSE
        /\ keyPresses = <<>> /\ pressing = <<>>
    BY DEF EngineInit, TurnInit, BarrierInit
  <2>2. Len(keyPresses) = 0 /\ Len(pressing) = 0
    BY <2>1
  <2>3. Owed
    BY <2>1 DEF Owed
  <2>4. Len(keyPresses) + Len(pressing) <= presses + (IF signalled THEN 1 ELSE 0)
    <3>1. presses + (IF signalled THEN 1 ELSE 0) = 0
      BY <2>1
    <3> QED BY <2>2, <3>1
  <2>5. presses \in Nat /\ presses <= MaxPresses
    <3>1. presses = 0
      BY <2>1
    <3> QED BY <3>1
  <2>6. signalled \in BOOLEAN /\ loc # "returned"
    BY <2>1
  <2> QED BY <2>3, <2>4, <2>5, <2>6 DEF KeysCounted
<1>2. BarrierInv /\ Owed /\ EngineInv /\ KeysCounted /\ [EngineNext]_vars => Owed' /\ KeysCounted'
  BY EngineStep, TurnStep, OwedStep, KeysStep DEF EngineInv
<1>3. BarrierInv /\ Owed /\ PairInv /\ DataInv /\ EngineInv /\ KeysCounted => NotStuck
  BY InvGoesOn
<1> QED BY <1>1, <1>2, <1>3, EngineHolds, PTL DEF EngineSpec
===============================================================================
