------------------------------- MODULE Exchange -------------------------------
(***************************************************************************)
(* The data of the distributed evaluation: the broker's matrix, the        *)
(* matrices of the worker nodes, and the exchange of boundary flips between*)
(* them (distributed/broker and distributed/worker).                       *)
(*                                                                         *)
(* A node only has the rows of its partition and keeps the surrounding     *)
(* counts of its partition alone.  Flips of other partitions next to it    *)
(* reach it one turn later: the broker looks them up in the exchange graph *)
(* and sends them with the next call of Worker.Next.  When a call fails,   *)
(* the nodes that are left are given the broker's matrix and the turn is   *)
(* evaluated again.                                                        *)
(*                                                                         *)
(* The goroutines within a node are those of ParallelTurn; here a call of  *)
(* Worker.Next is one step.  Locks, connections and events are in Broker.  *)
(***************************************************************************)
EXTENDS Torus, Partitioning

CONSTANTS
  Turns, Images,
  Threads,         \* bp.Threads
  NodeCounts,      \* how many nodes may be available
  MaxFailures      \* bound: nodes lost during one evaluation

ASSUME ExchangeAssumption ==
  /\ Turns \in Nat /\ Threads \in Nat \ {0} /\ MaxFailures \in Nat
  /\ NodeCounts \subseteq Nat \ {0}
  /\ Images \subseteq SUBSET Cell

\* Only of a square image does a node make all rows of its next matrix (MakeMatrix).
ASSUME SquareAssumption == Width = Height

\* Two cells for each block in both directions.
ASSUME DivisionAssumption ==
  LET blocks == Len(divideToBlocks(Threads, Width, Height))
  IN  Width >= 2 * Horizontal(blocks) /\ Height >= 2 * Vertical(blocks)

VARIABLES
  phase,           \* "dispatch", "loop", "calls" or "stopped"
  assignments,     \* the partition of each node in use
  exchange_graph,  \* for each cell, the nodes its flips are sent to
  broker,          \* broker.matrix
  adjust,          \* adjustment_buffers
  sent,            \* the arguments of the calls of Worker.Next
  nodes,           \* each node's matrix and next_matrix
  flipped,         \* the replies
  answered,        \* the calls that are over
  failed,          \* those of them that returned an error
  failures, turn

vars == <<phase, assignments, exchange_graph, broker, adjust, sent, nodes,
          flipped, answered, failed, failures, turn>>

Used == DOMAIN assignments

CellsOfPartition(p) == UNION {CellsOf(b) : b \in ToSet(p)}

Edges(b) == UNION {Boundary(b)[k] : k \in 1..4}

\* Node i is bit i - 1 of a byte: the flags of later nodes are shifted out.
ByteMask(targets) == {i \in targets : i - 1 < 8}

\* Mutant: the partition of the cell itself is not left out.
getExchangeGraphWithOwn(parts) ==
  [c \in Cell |->
     IF \E i \in DOMAIN parts : \E b \in ToSet(parts[i]) : c \in Edges(b)
     THEN ByteMask({i \in DOMAIN parts :
            \E o \in Offset : getSurrounding[c][o] \in CellsOfPartition(parts[i])})
     ELSE {}]

\* Only boundary cells are looked at; their own partition is left out.
getExchangeGraph(parts) ==
  [c \in Cell |->
     LET targets == {i \in DOMAIN parts :
           /\ c \notin CellsOfPartition(parts[i])
           /\ \E o \in Offset : getSurrounding[c][o] \in CellsOfPartition(parts[i])}
     IN  IF \E i \in DOMAIN parts : \E b \in ToSet(parts[i]) : c \in Edges(b)
         THEN ByteMask(targets) ELSE {}]

NoAdjustment == [Increment |-> {}, Decrement |-> {}]

\* The rows of a partition, and nothing of the other rows.
Rows(m, p) ==
  LET rows == {c \in Cell : \E d \in CellsOfPartition(p) : d[2] = c[2]}
  IN  [pixels |-> m.pixels \cap rows,
       counts |-> [c \in Cell |-> IF c \in rows THEN m.counts[c] ELSE 0]]

ExchangeInit ==
  /\ \E image \in Images : broker = Loaded(image)
  /\ phase = "dispatch"
  /\ assignments = <<>> /\ exchange_graph = <<>> /\ adjust = <<>> /\ sent = <<>>
  /\ nodes = <<>> /\ flipped = <<>>
  /\ answered = {} /\ failed = {} /\ failures = 0 /\ turn = 0

\* Init, and recover_evaluation after a failure: the nodes available now get
\* the rows of their partitions; the buffers of the new loop are empty.
Dispatch ==
  /\ phase = "dispatch"
  /\ \E n \in NodeCounts :
       assignments' = partitioning(n, divideToBlocks(Threads, Width, Height))
  /\ exchange_graph' = getExchangeGraph(assignments')
  /\ nodes' = [i \in DOMAIN assignments' |->
                 [matrix |-> Rows(broker, assignments'[i]), next |-> MakeMatrix]]
  /\ adjust' = [i \in DOMAIN assignments' |-> NoAdjustment]
  /\ phase' = "loop"
  /\ UNCHANGED <<broker, sent, flipped, answered, failed, failures, turn>>

\* The arguments are encoded by the call, before the buffers are cleared.
CallNext ==
  /\ phase = "loop"
  /\ turn # Turns
  /\ sent' = adjust
  /\ adjust' = [i \in Used |-> NoAdjustment]
  /\ flipped' = [i \in Used |-> {}]
  /\ answered' = {}
  /\ phase' = "calls"
  /\ UNCHANGED <<assignments, exchange_graph, broker, nodes, failed, failures, turn>>

------------------------------------------------------------------------------
(* A worker node *)

Within(region, new, old) == [c \in Cell |-> IF c \in region THEN new[c] ELSE old[c]]

applyAdjustment(m, a, region) ==
  [m EXCEPT !.counts = [c \in Cell |->
     IF c \in region THEN @[c] + Touches(a.Increment, c) - Touches(a.Decrement, c) ELSE @[c]]]

\* All blocks of a node: clean-up, safe regions, boundaries; then updateUnsafe
\* adds the boundary flips to the counts of the partition itself.
Evaluated(m, next, p) ==
  LET region  == CellsOfPartition(p)
      safe    == UNION {SafeRegion(b) : b \in ToSet(p)}
      inner   == checkAndFlip(m, CopyCounts(m, next, region), safe)
      all     == checkAndFlipUnsafe(m, inner, region \ safe)
  IN  [all EXCEPT !.counts = Within(region, Bump(@, m.pixels, Flips(m, region \ safe)), @)]

WorkerNext(i) ==
  /\ phase = "calls"
  /\ i \in Used \ answered
  /\ LET region == CellsOfPartition(assignments[i])
         m == applyAdjustment(nodes[i].matrix, sent[i], region)
     IN  /\ nodes' = [nodes EXCEPT ![i] = [matrix |-> Evaluated(m, @.next, assignments[i]),
                                           next   |-> m]]
         /\ flipped' = [flipped EXCEPT ![i] = Flips(m, region)]
  /\ answered' = answered \cup {i}
  /\ UNCHANGED <<phase, assignments, exchange_graph, broker, adjust, sent, failed, failures, turn>>

\* The node is lost before, during or after its evaluation.
CallFails(i) ==
  /\ phase = "calls"
  /\ i \in Used \ answered
  /\ failures < MaxFailures
  /\ failures' = failures + 1
  /\ answered' = answered \cup {i}
  /\ failed' = failed \cup {i}
  /\ UNCHANGED <<phase, assignments, exchange_graph, broker, adjust, sent, nodes, flipped, turn>>

------------------------------------------------------------------------------
(* The broker's loop *)

\* Mutant: increments and decrements are decided by the pixels before the flip.
AdjustmentsSwapped(i, F, pixels) ==
  LET toNode == {c \in F : i \in exchange_graph[c]}
  IN  [Increment |-> adjust[i].Increment \cup (toNode \ pixels),
       Decrement |-> adjust[i].Decrement \cup (toNode \cap pixels)]

\* After the flip a living cell is an increment, a dead one a decrement.
Adjustments(i, F, pixels) ==
  LET toNode == {c \in F : i \in exchange_graph[c]}
  IN  [Increment |-> adjust[i].Increment \cup (toNode \cap pixels),
       Decrement |-> adjust[i].Decrement \cup (toNode \ pixels)]

\* Mutant: the counts are changed for the cells that were alive.
updateMatrixReversed ==
  LET F == UNION {flipped[i] : i \in Used}
      pixels == (broker.pixels \ F) \cup (F \ broker.pixels)
  IN  /\ broker' = [pixels |-> pixels, counts |-> Bump(broker.counts, pixels, F)]
      /\ adjust' = [i \in Used |-> Adjustments(i, F, pixels)]

updateMatrixAndGetAdjustments ==
  LET F == UNION {flipped[i] : i \in Used}
      pixels == (broker.pixels \ F) \cup (F \ broker.pixels)
  IN  /\ broker' = [pixels |-> pixels, counts |-> Bump(broker.counts, broker.pixels, F)]
      /\ adjust' = [i \in Used |-> Adjustments(i, F, pixels)]

Gather ==
  /\ phase = "calls"
  /\ answered = Used
  /\ failed = {}
  /\ updateMatrixAndGetAdjustments
  /\ turn' = turn + 1
  /\ phase' = "loop"
  /\ UNCHANGED <<assignments, exchange_graph, sent, nodes, flipped, answered, failed, failures>>

\* Mutant: the replies that did arrive are applied before the recovery.
RecoverHalf ==
  /\ phase = "calls"
  /\ answered = Used
  /\ failed # {}
  /\ failed' = {}
  /\ answered' = {}
  /\ phase' = "dispatch"
  /\ updateMatrixAndGetAdjustments
  /\ UNCHANGED <<assignments, exchange_graph, sent, nodes, flipped, failures, turn>>

\* All replies are awaited, none is applied.
Recover ==
  /\ phase = "calls"
  /\ answered = Used
  /\ failed # {}
  /\ failed' = {}
  /\ answered' = {}
  /\ phase' = "dispatch"
  /\ UNCHANGED <<assignments, exchange_graph, broker, adjust, sent, nodes, flipped,
                 failures, turn>>

Finish ==
  /\ phase = "loop"
  /\ turn = Turns
  /\ phase' = "stopped"
  /\ UNCHANGED <<assignments, exchange_graph, broker, adjust, sent, nodes, flipped,
                 answered, failed, failures, turn>>

ExchangeNext ==
  \/ Dispatch \/ CallNext \/ Gather \/ Recover \/ Finish
  \/ \E i \in Used : WorkerNext(i) \/ CallFails(i)

ExchangeSpec == ExchangeInit /\ [][ExchangeNext]_vars

------------------------------------------------------------------------------
(* Properties *)

\* Type invariant.
ExchangeTypeOK ==
  /\ phase \in {"dispatch", "loop", "calls", "stopped"}
  /\ broker \in Matrix
  /\ answered \subseteq Used /\ failed \subseteq answered
  /\ failures \in 0..MaxFailures /\ turn \in 0..Turns
  /\ phase \in {"loop", "calls"} =>
       /\ DOMAIN nodes = Used /\ DOMAIN adjust = Used
       /\ \A i \in Used : nodes[i].matrix \in Matrix /\ nodes[i].next \in Matrix

\* Between two turns every node agrees with the broker on its partition, pixels
\* and counts, once the adjustments that wait for it are applied: the flips of
\* the others reach it exactly once, through the exchange graph, and its own
\* are not sent back (worker.go:113-149, broker/matrix.go:67-94).
NodesAgree ==
  phase = "loop" =>
    \A i \in Used :
      LET region == CellsOfPartition(assignments[i])
          m == applyAdjustment(nodes[i].matrix, adjust[i], region)
      IN  \A c \in region : /\ c \in m.pixels <=> c \in broker.pixels
                            /\ m.counts[c] = broker.counts[c]

\* The broker's own counts, which a recovery hands to the nodes, are exact.
BrokerExact == ExchangeTypeOK /\ Exact(broker)

\* README.md:21, cell updates go "strictly to relevant nodes": a node is sent
\* only flips outside its partition that touch its partition.
RelevantOnly ==
  \A i \in DOMAIN adjust : \A c \in adjust[i].Increment \cup adjust[i].Decrement :
    /\ c \notin CellsOfPartition(assignments[i])
    /\ \E o \in Offset : getSurrounding[c][o] \in CellsOfPartition(assignments[i])

\* The cluster plays the Game of Life: the broker's matrix moves one generation
\* per turn, also when nodes are lost and the turn is evaluated again by others.
L == INSTANCE Life WITH world <- broker.pixels, over <- phase = "stopped"
ImplementsLife == L!LifeSpec
==============================================================================
