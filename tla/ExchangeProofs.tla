---------------------------- MODULE ExchangeProofs ----------------------------
(***************************************************************************)
(* The cluster plays the Game of Life, for every grid, image, division     *)
(* into blocks of at least two by two cells, number of turns and number of *)
(* failures, as long as no more than eight nodes are used: with a ninth it *)
(* does not, for the exchange graph has eight bits for each cell.          *)
(*                                                                         *)
(* NodesAgree speaks of the moments between two turns.  ClusterInv says    *)
(* what a node holds while its call runs: before, once the adjustments it  *)
(* was sent are applied, the broker's world; afterwards the next world,    *)
(* with counts that know the flips of its own partition only.  Those of    *)
(* the others that it can see are what the broker's adjustments add.       *)
(***************************************************************************)
EXTENDS Exchange, GridProofs

Wide(b) == /\ b \in Block
           /\ b.start[1] + 2 <= b.end[1] /\ b.start[2] + 2 <= b.end[2]

------------------------------------------------------------------------------
(* Blocks and partitions                                                     *)

\* Every cell of a block is safe or on its boundary.
LEMMA SafeOrEdge ==
  ASSUME NEW b, Wide(b), NEW c \in CellsOf(b)
  PROVE  c \in SafeRegion(b) \/ c \in Edges(b)
<1>1. /\ b.start[1] \in Int /\ b.end[1] \in Int /\ b.start[2] \in Int /\ b.end[2] \in Int
      /\ b.start[1] + 2 <= b.end[1] /\ b.start[2] + 2 <= b.end[2]
  BY SizeAssumption DEF Wide, Block, Cell
<1>2. /\ c \in Cell /\ c[1] \in Int /\ c[2] \in Int
      /\ b.start[1] <= c[1] /\ c[1] <= b.end[1] - 1
      /\ b.start[2] <= c[2] /\ c[2] <= b.end[2] - 1
  BY <1>1, SizeAssumption DEF CellsOf, Rect, Cell
<1>3. c \in SafeRegion(b) \/ c \in Boundary(b)[1] \/ c \in Boundary(b)[2]
      \/ c \in Boundary(b)[3] \/ c \in Boundary(b)[4]
  BY <1>1, <1>2 DEF SafeRegion, Boundary, Rect
<1>4. 1 \in 1..4 /\ 2 \in 1..4 /\ 3 \in 1..4 /\ 4 \in 1..4
  OBVIOUS
<1> QED BY <1>3, <1>4 DEF Edges

\* The cells around a safe cell belong to its block.
LEMMA SafeStays ==
  ASSUME NEW b, Wide(b), NEW c \in SafeRegion(b), NEW o \in Offset
  PROVE  c \in CellsOf(b) /\ getSurrounding[c][o] \in CellsOf(b)
<1> DEFINE x == c[1] + o[1]
           y == c[2] + o[2]
<1>1. /\ b.start \in Cell /\ b.end \in (1..Width) \X (1..Height)
      /\ c \in Cell
      /\ c[1] \in b.start[1] + 1 .. b.end[1] - 2
      /\ c[2] \in b.start[2] + 1 .. b.end[2] - 2
  BY DEF Wide, Block, SafeRegion, Rect
<1>2. o[1] \in -1..1 /\ o[2] \in -1..1
  BY DEF Offset
<1>3. x \in 0..Width - 1 /\ y \in 0..Height - 1
  BY <1>1, <1>2, SizeAssumption DEF Cell
<1>4. x \in b.start[1]..b.end[1] - 1 /\ y \in b.start[2]..b.end[2] - 1
  BY <1>1, <1>2, SizeAssumption DEF Cell
<1>5. (c[1] + o[1] + Width) % Width = x /\ (c[2] + o[2] + Height) % Height = y
  <2>1. /\ Width \in Nat \ {0} /\ Height \in Nat \ {0}
        /\ c[1] \in 0..Width - 1 /\ c[2] \in 0..Height - 1
    BY <1>1, SizeAssumption DEF Cell
  <2>2. (c[1] + o[1] + Width) % Width
          = IF c[1] + o[1] = -1 THEN Width - 1 ELSE IF c[1] + o[1] = Width THEN 0 ELSE c[1] + o[1]
    BY <1>2, <2>1, Wrap, ZenonT(60)
  <2>3. (c[2] + o[2] + Height) % Height
          = IF c[2] + o[2] = -1 THEN Height - 1 ELSE IF c[2] + o[2] = Height THEN 0 ELSE c[2] + o[2]
    BY <1>2, <2>1, Wrap
  <2> QED BY <1>2, <1>3, <2>1, <2>2, <2>3
<1>6. getSurrounding[c][o] = <<x, y>>
  BY <1>1, <1>5 DEF getSurrounding
<1>7. c \in CellsOf(b)
  BY <1>1, SizeAssumption DEF CellsOf, Rect, Cell
<1> QED BY <1>3, <1>4, <1>6, <1>7 DEF CellsOf, Rect, Cell

\* What the partitions of n nodes are: at most n, of blocks of at least two by
\* two cells, which tile the grid.
Tiling(n, parts) ==
  /\ DOMAIN parts \subseteq 1..n
  /\ \A i \in DOMAIN parts : \A b \in ToSet(parts[i]) :
       /\ b \in Block
       /\ b.start[1] + 2 <= b.end[1] /\ b.start[2] + 2 <= b.end[2]
  /\ \A c \in Cell : \E i \in DOMAIN parts : \E b \in ToSet(parts[i]) : c \in CellsOf(b)
  /\ \A i, j \in DOMAIN parts : i # j =>
       \A a \in ToSet(parts[i]), b \in ToSet(parts[j]) : CellsOf(a) \cap CellsOf(b) = {}

\* What divideToBlocks and partitioning give to n nodes is a tiling.
LEMMA DealingTiles ==
  ASSUME NEW n \in Nat \ {0}
  PROVE  Tiling(n, partitioning(n, divideToBlocks(Threads, Width, Height)))
<1> DEFINE blocks == divideToBlocks(Threads, Width, Height)
           total  == Len(blocks)
           parts  == partitioning(n, blocks)
           m      == Takers(n, blocks)
           D(i)   == Dealt(i, n, blocks)
<1>1. Tiled(blocks, total)
  BY DivisionServes, DivisionAssumption, ExchangeAssumption
<1>2. total \in Nat \ {0}
  BY DivisionBlocks, SizeAssumption, ExchangeAssumption
<1> HIDE DEF blocks, total
<1>3. blocks \in Seq(Block) /\ Len(blocks) > 0
  <2>1. blocks \in [1..total -> Block] /\ Len(blocks) = total
    BY <1>1 DEF Tiled, total
  <2> QED BY <1>2, <2>1
<1>4. /\ m \in Nat \ {0} /\ m <= n /\ DOMAIN parts = 1..m
      /\ \A i \in 0..m : D(i) \in 0..Len(blocks)
  BY <1>3, PartsOf
<1>5. /\ \A i \in 1..m : \A b \in ToSet(parts[i]) :
           \E k \in 1..Len(blocks) : b = blocks[k] /\ D(i - 1) < k /\ k <= D(i)
      /\ \A k \in 1..Len(blocks) : \E i \in 1..m : blocks[k] \in ToSet(parts[i])
      /\ \A i, j \in 1..m : i < j => D(i) <= D(j - 1)
  BY <1>3, DealtToOne
<1>6. Len(blocks) = total
  BY DEF total
<1> HIDE DEF parts, m, D
<1>7. /\ \A k \in 1..total : /\ blocks[k] \in Block
                         /\ blocks[k].start[1] + 2 <= blocks[k].end[1]
                         /\ blocks[k].start[2] + 2 <= blocks[k].end[2]
      /\ \A c \in Cell : \E k \in 1..total : c \in CellsOf(blocks[k])
      /\ \A j, k \in 1..total : j # k => CellsOf(blocks[j]) \cap CellsOf(blocks[k]) = {}
  BY <1>1 DEF Tiled
<1>8. ASSUME NEW i \in DOMAIN parts, NEW b \in ToSet(parts[i])
      PROVE  b \in Block /\ b.start[1] + 2 <= b.end[1] /\ b.start[2] + 2 <= b.end[2]
  <2>1. PICK k \in 1..total : b = blocks[k]
    BY <1>4, <1>5, <1>6
  <2> QED BY <1>7, <2>1
<1>9. ASSUME NEW c \in Cell
      PROVE  \E i \in DOMAIN parts : \E b \in ToSet(parts[i]) : c \in CellsOf(b)
  <2>1. PICK k \in 1..total : c \in CellsOf(blocks[k])
    BY <1>7
  <2>2. PICK i \in 1..m : blocks[k] \in ToSet(parts[i])
    BY <1>5, <1>6
  <2> QED BY <1>4, <2>1, <2>2
<1>10. ASSUME NEW i \in 1..m, NEW j \in 1..m, i < j, NEW a \in ToSet(parts[i]), NEW b \in ToSet(parts[j])
       PROVE  CellsOf(a) \cap CellsOf(b) = {}
  <2>1. PICK k \in 1..total : a = blocks[k] /\ D(i - 1) < k /\ k <= D(i)
    BY <1>5, <1>6
  <2>2. PICK l \in 1..total : b = blocks[l] /\ D(j - 1) < l /\ l <= D(j)
    BY <1>5, <1>6
  <2>3. D(i) <= D(j - 1)
    BY <1>5, <1>10
  <2>4. i \in 0..m /\ j - 1 \in 0..m
    BY <1>4
  <2>5. D(i) \in 0..total /\ D(j - 1) \in 0..total
    BY <1>4, <1>6, <2>4
  <2>6. k # l
    BY <1>2, <2>1, <2>2, <2>3, <2>5
  <2> QED BY <1>7, <2>1, <2>2, <2>6
<1>11. ASSUME NEW i \in DOMAIN parts, NEW j \in DOMAIN parts, i # j,
              NEW a \in ToSet(parts[i]), NEW b \in ToSet(parts[j])
       PROVE  CellsOf(a) \cap CellsOf(b) = {}
  <2>1. i \in 1..m /\ j \in 1..m /\ (i < j \/ j < i)
    BY <1>4, <1>11
  <2>2. CellsOf(a) \cap CellsOf(b) = CellsOf(b) \cap CellsOf(a)
    OBVIOUS
  <2> QED BY <1>10, <2>1, <2>2
<1>12. DOMAIN parts \subseteq 1..n
  BY <1>4
<1>13. Tiling(n, parts)
  BY <1>8, <1>9, <1>11, <1>12 DEF Tiling
<1> QED BY <1>13 DEF parts, blocks

\* Partitions of a tiling cover the grid and do not meet.
LEMMA PartitionsTile ==
  ASSUME NEW n, NEW parts, Tiling(n, parts)
  PROVE  /\ \A i \in DOMAIN parts : \A b \in ToSet(parts[i]) : Wide(b)
         /\ \A i \in DOMAIN parts : CellsOfPartition(parts[i]) \in SUBSET Cell
         /\ \A c \in Cell : \E i \in DOMAIN parts : c \in CellsOfPartition(parts[i])
         /\ \A i, j \in DOMAIN parts :
              i # j => CellsOfPartition(parts[i]) \cap CellsOfPartition(parts[j]) = {}
<1>1. \A i \in DOMAIN parts : \A b \in ToSet(parts[i]) : Wide(b)
  BY DEF Tiling, Wide
<1>2. \A i \in DOMAIN parts : CellsOfPartition(parts[i]) \in SUBSET Cell
  BY DEF CellsOfPartition, CellsOf, Rect
<1>3. \A c \in Cell : \E i \in DOMAIN parts : c \in CellsOfPartition(parts[i])
  BY DEF Tiling, CellsOfPartition
<1>4. ASSUME NEW i \in DOMAIN parts, NEW j \in DOMAIN parts, i # j
      PROVE  CellsOfPartition(parts[i]) \cap CellsOfPartition(parts[j]) = {}
  <2> SUFFICES ASSUME NEW c, c \in CellsOfPartition(parts[i]), c \in CellsOfPartition(parts[j])
               PROVE  FALSE
    OBVIOUS
  <2>1. PICK a \in ToSet(parts[i]) : c \in CellsOf(a)
    BY DEF CellsOfPartition
  <2>2. PICK b \in ToSet(parts[j]) : c \in CellsOf(b)
    BY DEF CellsOfPartition
  <2> QED BY <1>4, <2>1, <2>2 DEF Tiling
<1> QED BY <1>1, <1>2, <1>3, <1>4

\* The flips of a partition are those of the grid that lie in it.
LEMMA FlipsOfRegion ==
  ASSUME NEW m, NEW R \in SUBSET Cell
  PROVE  Flips(m, R) = Flips(m, Cell) \cap R /\ Flips(m, R) \in SUBSET Cell
BY DEF Flips

\* Which nodes the flips of a cell go to, with at most eight of them: all that
\* can see it from another partition.
LEMMA GraphReaches ==
  ASSUME NEW parts, Tiling(8, parts), NEW z \in Cell, NEW i \in DOMAIN parts
  PROVE  /\ i \in getExchangeGraph(parts)[z] =>
              /\ z \notin CellsOfPartition(parts[i])
              /\ \E o \in Offset : getSurrounding[z][o] \in CellsOfPartition(parts[i])
         /\ z \notin CellsOfPartition(parts[i]) /\ i \notin getExchangeGraph(parts)[z] =>
              (\A c \in CellsOfPartition(parts[i]), o \in Offset : getSurrounding[c][o] # z)
<1> DEFINE R == CellsOfPartition(parts[i])
           graph == getExchangeGraph(parts)[z]
           targets == {j \in DOMAIN parts :
             /\ z \notin CellsOfPartition(parts[j])
             /\ \E o \in Offset : getSurrounding[z][o] \in CellsOfPartition(parts[j])}
<1>1. graph = IF \E j \in DOMAIN parts : \E b \in ToSet(parts[j]) : z \in Edges(b)
              THEN ByteMask(targets) ELSE {}
  BY DEF getExchangeGraph
<1>2. i \in 1..8 /\ i - 1 < 8
  BY DEF Tiling
<1>3. i \in ByteMask(targets) <=> i \in targets
  BY <1>2 DEF ByteMask
<1>4. i \in graph => i \in targets
  BY <1>1, <1>3
<1>5. ASSUME z \notin R, i \notin graph, NEW c \in R, NEW o \in Offset, getSurrounding[c][o] = z
      PROVE  FALSE
  <2>1. c \in Cell
    BY PartitionsTile
  <2>2. Opposite(o) \in Offset /\ getSurrounding[z][Opposite(o)] = c
    BY <1>5, <2>1, OppositeIsOffset, WayBack
  <2>3. i \in targets
    BY <1>5, <2>2
  <2>4. PICK j \in DOMAIN parts : z \in CellsOfPartition(parts[j])
    BY PartitionsTile
  <2>5. PICK b \in ToSet(parts[j]) : z \in CellsOf(b)
    BY <2>4 DEF CellsOfPartition
  <2>6. Wide(b)
    BY PartitionsTile
  <2>7. z \notin Edges(b)
    BY <1>1, <1>3, <1>5, <2>3
  <2>8. c \in CellsOf(b)
    BY <2>2, <2>5, <2>6, <2>7, SafeOrEdge, SafeStays
  <2>9. c \in CellsOfPartition(parts[j])
    BY <2>8 DEF CellsOfPartition
  <2>10. j # i
    BY <1>5, <2>4
  <2> QED BY <1>5, <2>9, <2>10, PartitionsTile
<1> QED BY <1>4, <1>5
------------------------------------------------------------------------------
(* What a call of Worker.Next does to a node                                 *)

Adjustment == [Increment : SUBSET Cell, Decrement : SUBSET Cell]

\* How often flips reach a cell is a number.
LEMMA TouchesType ==
  ASSUME NEW F \in SUBSET Cell, NEW c \in Cell
  PROVE  Touches(F, c) \in Nat
BY TouchesIsAround, SightsFinite

\* Nothing to adjust changes nothing; anything keeps the types and the pixels.
LEMMA Adjusting ==
  ASSUME NEW m \in Matrix, NEW a \in Adjustment, NEW R \in SUBSET Cell
  PROVE  /\ applyAdjustment(m, a, R) \in Matrix
         /\ applyAdjustment(m, a, R).pixels = m.pixels
         /\ \A c \in R : applyAdjustment(m, a, R).counts[c]
                           = m.counts[c] + Touches(a.Increment, c) - Touches(a.Decrement, c)
         /\ a = NoAdjustment => \A c \in R : applyAdjustment(m, a, R).counts[c] = m.counts[c]
<1> DEFINE counts == [c \in Cell |-> IF c \in R
                        THEN m.counts[c] + Touches(a.Increment, c) - Touches(a.Decrement, c)
                        ELSE m.counts[c]]
<1>1. /\ m.pixels \in SUBSET Cell /\ m.counts \in [Cell -> Int]
      /\ a.Increment \in SUBSET Cell /\ a.Decrement \in SUBSET Cell
  BY DEF Matrix, Adjustment
<1>2. applyAdjustment(m, a, R) = [m EXCEPT !.counts = counts]
  BY DEF applyAdjustment
<1>3. \A c \in Cell : counts[c] \in Int
  <2> TAKE c \in Cell
  <2>1. Touches(a.Increment, c) \in Nat /\ Touches(a.Decrement, c) \in Nat /\ m.counts[c] \in Int
    BY <1>1, TouchesType
  <2> QED BY <2>1
<1>4. counts \in [Cell -> Int]
  BY <1>3
<1>5. a = NoAdjustment => \A c \in R : counts[c] = m.counts[c]
  <2> SUFFICES ASSUME a = NoAdjustment, NEW c \in R PROVE counts[c] = m.counts[c]
    OBVIOUS
  <2>1. Touches(a.Increment, c) \in Nat /\ m.counts[c] \in Int /\ c \in Cell
    BY <1>1, TouchesType
  <2>2. a.Increment = {} /\ a.Decrement = {}
    BY DEF NoAdjustment
  <2> QED BY <2>1, <2>2
<1>6. \A c \in R : counts[c] = m.counts[c] + Touches(a.Increment, c) - Touches(a.Decrement, c)
  OBVIOUS
<1> HIDE DEF counts
<1>7. /\ applyAdjustment(m, a, R) \in Matrix /\ applyAdjustment(m, a, R).pixels = m.pixels
      /\ applyAdjustment(m, a, R).counts = counts
  BY <1>1, <1>2, <1>4 DEF Matrix
<1> QED BY <1>5, <1>6, <1>7

\* Two matrices agree on a region.
AgreeOn(R, m, b) ==
  \A c \in R : (c \in m.pixels <=> c \in b.pixels) /\ m.counts[c] = b.counts[c]

\* Matrices that agree on a region decide and count its flips alike.
LEMMA SameFlips ==
  ASSUME NEW b, NEW m, NEW R, AgreeOn(R, m, b), NEW S \in SUBSET R, NEW counts
  PROVE  /\ Flips(m, S) = Flips(b, S)
         /\ Bump(counts, m.pixels, Flips(m, S)) = Bump(counts, b.pixels, Flips(b, S))
<1>1. Flips(m, S) = Flips(b, S)
  BY DEF AgreeOn, Flips
<1>2. /\ Flips(b, S) \ m.pixels = Flips(b, S) \ b.pixels
      /\ Flips(b, S) \cap m.pixels = Flips(b, S) \cap b.pixels
  BY DEF AgreeOn, Flips
<1> QED BY <1>1, <1>2 DEF Bump

\* The types of what a node makes of its matrices.
LEMMA EvaluatedType ==
  ASSUME NEW m \in Matrix, NEW next \in Matrix, NEW p, CellsOfPartition(p) \in SUBSET Cell,
         UNION {SafeRegion(b) : b \in ToSet(p)} \subseteq CellsOfPartition(p)
  PROVE  Evaluated(m, next, p) \in Matrix
<1> DEFINE R    == CellsOfPartition(p)
           safe == UNION {SafeRegion(b) : b \in ToSet(p)}
           copy == CopyCounts(m, next, R)
           inner == checkAndFlip(m, copy, safe)
           all  == checkAndFlipUnsafe(m, inner, R \ safe)
           E    == Flips(m, R \ safe)
           bumped == Bump(all.counts, m.pixels, E)
<1>1. /\ m.pixels \in SUBSET Cell /\ m.counts \in [Cell -> Int]
      /\ next.pixels \in SUBSET Cell /\ next.counts \in [Cell -> Int]
      /\ Flips(m, safe) \in SUBSET Cell /\ E \in SUBSET Cell
  BY DEF Matrix, Flips
<1>2. copy \in Matrix
  BY <1>1 DEF CopyCounts, Matrix
<1>3. inner \in Matrix
  <2> HIDE DEF copy
  <2>1. Bump(copy.counts, m.pixels, Flips(m, safe)) \in [Cell -> Int]
    BY <1>1, <1>2, BumpType DEF Matrix
  <2>2. WrittenPixels(m, copy, safe) \in SUBSET Cell
    BY <1>1, <1>2 DEF WrittenPixels, Matrix
  <2> QED BY <2>1, <2>2 DEF checkAndFlip, Matrix
<1>4. all \in Matrix
  <2> HIDE DEF inner
  <2>1. WrittenPixels(m, inner, R \ safe) \in SUBSET Cell
    BY <1>1, <1>3 DEF WrittenPixels, Matrix
  <2> QED BY <1>3, <2>1 DEF checkAndFlipUnsafe, Matrix
<1>5. Evaluated(m, next, p) = [all EXCEPT !.counts = Within(R, bumped, all.counts)]
  BY DEF Evaluated
<1> HIDE DEF all, E
<1>6. bumped \in [Cell -> Int]
  BY <1>1, <1>4, BumpType DEF Matrix
<1> HIDE DEF bumped
<1>7. Within(R, bumped, all.counts) \in [Cell -> Int]
  BY <1>4, <1>6 DEF Within, Matrix
<1> QED BY <1>4, <1>5, <1>7 DEF Matrix

\* A node that agrees with the world of matrix b on its partition evaluates it:
\* its next matrix has the next pixels, and counts that know its own flips.
LEMMA NodeEvaluates ==
  ASSUME NEW b \in Matrix, Exact(b), NEW m \in Matrix, NEW next \in Matrix,
         NEW p, \A k \in ToSet(p) : Wide(k), AgreeOn(CellsOfPartition(p), m, b)
  PROVE  /\ Evaluated(m, next, p) \in Matrix
         /\ Flips(m, CellsOfPartition(p)) = Flips(b, CellsOfPartition(p))
         /\ \A c \in CellsOfPartition(p) :
              /\ c \in Evaluated(m, next, p).pixels <=> c \in Flipped(b.pixels, Flips(b, Cell))
              /\ Evaluated(m, next, p).counts[c]
                   = AliveAround(Flipped(b.pixels, Flips(b, CellsOfPartition(p))), c)
<1> DEFINE R    == CellsOfPartition(p)
           safe == UNION {SafeRegion(k) : k \in ToSet(p)}
           S    == Flips(b, safe)
           E    == Flips(b, R \ safe)
           copy == CopyCounts(m, next, R)
           inner == checkAndFlip(m, copy, safe)
           all  == checkAndFlipUnsafe(m, inner, R \ safe)
           bumped == Bump(all.counts, m.pixels, Flips(m, R \ safe))
<1>1. R \in SUBSET Cell /\ safe \subseteq R
  <2>1. \A k \in ToSet(p) : SafeRegion(k) \subseteq CellsOf(k)
    <3> TAKE k \in ToSet(p)
    <3>1. <<0, 1>> \in Offset
      BY DEF Offset
    <3> QED BY <3>1, SafeStays
  <2> QED BY <2>1 DEF CellsOfPartition, CellsOf, Rect
<1>2. Evaluated(m, next, p) \in Matrix
  BY <1>1, EvaluatedType
<1>3. /\ Flips(m, R) = Flips(b, R) /\ Flips(m, safe) = S /\ Flips(m, R \ safe) = E
      /\ b.pixels \in SUBSET Cell /\ S \in SUBSET Cell /\ E \in SUBSET Cell
      /\ S \cap E = {} /\ S \cup E = Flips(b, R)
  <2>1. Flips(m, R) = Flips(b, R) /\ Flips(m, safe) = S /\ Flips(m, R \ safe) = E
    BY <1>1, SameFlips
  <2> QED BY <1>1, <2>1 DEF Flips, Matrix
<1>4. /\ Evaluated(m, next, p).pixels = WrittenPixels(m, inner, R \ safe)
      /\ Evaluated(m, next, p).counts = Within(R, bumped, all.counts)
      /\ all.counts = Bump(copy.counts, m.pixels, Flips(m, safe))
      /\ inner.pixels = WrittenPixels(m, copy, safe)
      /\ copy.counts = [c \in Cell |-> IF c \in R THEN m.counts[c] ELSE next.counts[c]]
  <2>1. Evaluated(m, next, p) = [all EXCEPT !.counts = Within(R, bumped, all.counts)]
    BY DEF Evaluated
  <2>2. copy.counts = [c \in Cell |-> IF c \in R THEN m.counts[c] ELSE next.counts[c]]
    BY DEF CopyCounts, Matrix
  <2>3. /\ inner = [pixels |-> WrittenPixels(m, copy, safe),
                    counts |-> Bump(copy.counts, m.pixels, Flips(m, safe))]
    BY DEF checkAndFlip
  <2>4. all = [inner EXCEPT !.pixels = WrittenPixels(m, inner, R \ safe)]
    BY DEF checkAndFlipUnsafe
  <2> HIDE DEF copy, inner, all, bumped
  <2>5. all.pixels = WrittenPixels(m, inner, R \ safe) /\ all.counts = inner.counts
    BY <2>3, <2>4
  <2>6. DOMAIN all = {"pixels", "counts"}
    BY <2>3, <2>4
  <2>7. /\ Evaluated(m, next, p).pixels = all.pixels
        /\ Evaluated(m, next, p).counts = Within(R, bumped, all.counts)
    BY <2>1, <2>6
  <2> QED BY <2>2, <2>3, <2>5, <2>7
<1>5. bumped = Bump(all.counts, b.pixels, E) /\ all.counts = Bump(copy.counts, b.pixels, S)
  BY <1>1, <1>4, SameFlips
<1> HIDE DEF copy, inner, all, bumped, S, E
<1>6. ASSUME NEW c \in R
      PROVE  c \in Evaluated(m, next, p).pixels <=> c \in Flipped(b.pixels, Flips(b, Cell))
  <2>1. c \in Cell /\ R \ safe \in SUBSET Cell /\ safe \in SUBSET Cell
    BY <1>1, <1>6
  <2>2. c \in Evaluated(m, next, p).pixels <=> c \in Flipped(m.pixels, Flips(m, Cell))
    <3>1. c \in inner.pixels
            <=> IF c \in safe THEN c \in Flipped(m.pixels, Flips(m, Cell)) ELSE c \in copy.pixels
      BY <1>4, <2>1, WrittenIsNext
    <3>2. c \in WrittenPixels(m, inner, R \ safe)
            <=> IF c \in R \ safe THEN c \in Flipped(m.pixels, Flips(m, Cell)) ELSE c \in inner.pixels
      BY <2>1, WrittenIsNext
    <3> QED BY <1>4, <1>6, <3>1, <3>2
  <2>3. c \in Flips(m, Cell) <=> c \in Flips(b, Cell)
    BY <1>3, <1>6, <2>1, <1>1, FlipsOfRegion
  <2> QED BY <1>6, <2>2, <2>3 DEF Flipped, AgreeOn
<1>7. ASSUME NEW c \in R
      PROVE  Evaluated(m, next, p).counts[c] = AliveAround(Flipped(b.pixels, Flips(b, R)), c)
  <2>1. c \in Cell
    BY <1>1, <1>7
  <2>2. copy.counts[c] = AliveAround(b.pixels, c)
    BY <1>4, <1>7, <2>1 DEF AgreeOn, Exact
  <2>3. Flipped(b.pixels, {}) = b.pixels /\ {} \cap S = {} /\ {} \cup S = S /\ {} \in SUBSET Cell
    BY DEF Flipped
  <2>4. all.counts[c] = AliveAround(Flipped(b.pixels, S), c)
    BY <1>3, <1>5, <2>1, <2>2, <2>3, BumpMore
  <2>5. bumped[c] = AliveAround(Flipped(b.pixels, S \cup E), c)
    <3> DEFINE counts == all.counts
    <3> HIDE DEF counts
    <3>1. counts[c] = AliveAround(Flipped(b.pixels, S), c)
      BY <2>4 DEF counts
    <3>2. S \in SUBSET Cell /\ E \in SUBSET Cell /\ S \cap E = {} /\ b.pixels \in SUBSET Cell
      BY <1>3
    <3>3. Bump(counts, b.pixels, E)[c] = AliveAround(Flipped(b.pixels, S \cup E), c)
      BY <2>1, <3>1, <3>2, BumpMore
    <3> QED BY <1>5, <3>3 DEF counts
  <2>6. Evaluated(m, next, p).counts[c] = bumped[c]
    BY <1>4, <1>7, <2>1 DEF Within
  <2> QED BY <1>3, <2>5, <2>6
<1> QED BY <1>2, <1>3, <1>6, <1>7
\* The adjustments a are the flips of the cells T of the world S.
Tells(a, T, S) == a.Increment = T \ S /\ a.Decrement = T \cap S

\* Adjustments that are flips apply like flips of one's own.
LEMMA AdjustedLikeFlips ==
  ASSUME NEW m \in Matrix, NEW a \in Adjustment, NEW R \in SUBSET Cell,
         NEW S \in SUBSET Cell, NEW A \in SUBSET Cell, NEW T \in SUBSET Cell, A \cap T = {},
         Tells(a, T, S), NEW c \in R, m.counts[c] = AliveAround(Flipped(S, A), c)
  PROVE  applyAdjustment(m, a, R).counts[c] = AliveAround(Flipped(S, A \cup T), c)
<1>1. applyAdjustment(m, a, R).counts[c]
        = m.counts[c] + Touches(a.Increment, c) - Touches(a.Decrement, c)
  BY Adjusting
<1>2. Touches(a.Increment, c) = Touches(T \ S, c) /\ Touches(a.Decrement, c) = Touches(T \cap S, c)
  BY DEF Tells
<1>3. c \in Cell
  OBVIOUS
<1>4. Bump(m.counts, S, T)[c] = m.counts[c] + Touches(T \ S, c) - Touches(T \cap S, c)
  BY <1>3 DEF Bump
<1>5. Bump(m.counts, S, T)[c] = AliveAround(Flipped(S, A \cup T), c)
  BY <1>3, BumpMore
<1> QED BY <1>1, <1>2, <1>4, <1>5

\* Exact counts are exact again when all flips have been applied.
LEMMA StaysExact ==
  ASSUME NEW b \in Matrix, Exact(b), NEW F \in SUBSET Cell, NEW c \in Cell
  PROVE  Bump(b.counts, b.pixels, F)[c] = AliveAround(Flipped(b.pixels, F), c)
<1> DEFINE none == {}
           counts == b.counts
           S == b.pixels
<1>1. none \in SUBSET Cell /\ none \cap F = {} /\ Flipped(S, none) = S
  BY DEF Flipped
<1>2. counts[c] = AliveAround(Flipped(S, none), c) /\ S \in SUBSET Cell
  BY <1>1 DEF Exact, Matrix
<1> HIDE DEF none, counts, S
<1>3. Bump(counts, S, F)[c] = AliveAround(Flipped(S, none \cup F), c)
  <2>1. none \in SUBSET Cell /\ none \cap F = {}
    BY <1>1
  <2> QED BY <1>2, <2>1, BumpMore
<1> QED BY <1>3 DEF none, counts, S

\* The cells T are all flips of world b that the cells R see outside of R.
SeenFrom(R, T, b) ==
  /\ T \subseteq Flips(b, Cell) /\ T \cap R = {}
  /\ \A z \in Flips(b, Cell) : z \notin R /\ z \notin T =>
       (\A c \in R, o \in Offset : getSurrounding[c][o] # z)

\* The adjustments a are the cells T by what they are after the flips of b.
Informs(a, T, b) ==
  /\ a.Increment = T \cap Flipped(b.pixels, Flips(b, Cell))
  /\ a.Decrement = T \ Flipped(b.pixels, Flips(b, Cell))

\* The broker's adjustments give a node the flips it can see beyond its own.
LEMMA AdjustmentsComplete ==
  ASSUME NEW b \in Matrix, NEW R \in SUBSET Cell, NEW T \in SUBSET Cell, SeenFrom(R, T, b),
         NEW m \in Matrix, NEW a \in Adjustment, Informs(a, T, b), NEW c \in R,
         m.counts[c] = AliveAround(Flipped(b.pixels, Flips(b, R)), c)
  PROVE  applyAdjustment(m, a, R).counts[c]
           = AliveAround(Flipped(b.pixels, Flips(b, Cell)), c)
<1> DEFINE F == Flips(b, Cell)
           A == Flips(b, R)
<1>1. /\ c \in Cell /\ b.pixels \in SUBSET Cell /\ F \in SUBSET Cell
      /\ A = F \cap R /\ A \in SUBSET Cell /\ A \cap T = {}
  BY FlipsOfRegion DEF Matrix, Flips, SeenFrom
<1>2. Tells(a, T, b.pixels)
  BY <1>1 DEF Flipped, Tells, Informs, SeenFrom
<1>3. \A o \in Offset : getSurrounding[c][o] \in F <=> getSurrounding[c][o] \in A \cup T
  BY <1>1, SurroundingIsCell DEF SeenFrom
<1>4. m.counts[c] = AliveAround(Flipped(b.pixels, A), c)
  OBVIOUS
<1> HIDE DEF F, A
<1>5. applyAdjustment(m, a, R).counts[c] = AliveAround(Flipped(b.pixels, A \cup T), c)
  <2>1. b.pixels \in SUBSET Cell /\ A \in SUBSET Cell /\ A \cap T = {}
    BY <1>1
  <2> QED BY <1>2, <1>4, <2>1, AdjustedLikeFlips
<1>6. {o \in Offset : getSurrounding[c][o] \in Flipped(b.pixels, A \cup T)}
        = {o \in Offset : getSurrounding[c][o] \in Flipped(b.pixels, F)}
  BY <1>3 DEF Flipped
<1>7. AliveAround(Flipped(b.pixels, A \cup T), c) = AliveAround(Flipped(b.pixels, F), c)
  BY <1>6 DEF AliveAround
<1> QED BY <1>5, <1>7 DEF F

------------------------------------------------------------------------------
(* The inductive invariant                                                   *)

Region(i) == CellsOfPartition(assignments[i])

\* What node i evaluates once it was sent the adjustments a.
Adjusted(i, a) == applyAdjustment(nodes[i].matrix, a, Region(i))

Types ==
  /\ phase \in {"dispatch", "loop", "calls", "stopped"}
  /\ broker \in Matrix /\ Exact(broker)
  /\ answered \subseteq Used /\ failed \subseteq answered
  /\ failures \in 0..MaxFailures /\ turn \in 0..Turns
  /\ phase = "dispatch" => answered = {} /\ failed = {}

AtMostEight == NodeCounts \subseteq 1..8

\* The partitions, the graph and the nodes of the last dispatch fit together.
Team ==
  phase \in {"loop", "calls"} =>
    /\ Tiling(8, assignments)
    /\ exchange_graph = getExchangeGraph(assignments)
    /\ nodes \in [Used -> [matrix : Matrix, next : Matrix]]
    /\ adjust \in [Used -> Adjustment]

Between ==
  phase = "loop" =>
    failed = {} /\ \A i \in Used : AgreeOn(Region(i), Adjusted(i, adjust[i]), broker)

\* The reply of node i and the world it holds after its evaluation.
Served(i) ==
  /\ flipped[i] = Flips(broker, Region(i))
  /\ \A c \in Region(i) :
       /\ c \in nodes[i].matrix.pixels <=> c \in Flipped(broker.pixels, Flips(broker, Cell))
       /\ nodes[i].matrix.counts[c]
            = AliveAround(Flipped(broker.pixels, Flips(broker, Region(i))), c)

During ==
  phase = "calls" =>
    /\ turn < Turns
    /\ adjust = [i \in Used |-> NoAdjustment]
    /\ sent \in [Used -> Adjustment] /\ flipped \in [Used -> SUBSET Cell]
    /\ \A i \in Used :
         /\ i \notin answered => AgreeOn(Region(i), Adjusted(i, sent[i]), broker)
         /\ i \in answered \ failed => Served(i)

ClusterInv == Types /\ Team /\ Between /\ During /\ RelevantOnly
\* An image is loaded with exact counts, and no node is in use.
LEMMA ClusterInit == ExchangeInit => ClusterInv
<1> SUFFICES ASSUME ExchangeInit PROVE ClusterInv
  OBVIOUS
<1>1. PICK image \in Images : broker = Loaded(image)
  BY DEF ExchangeInit
<1>2. broker \in Matrix /\ Exact(broker)
  BY <1>1, LoadedExact, ExchangeAssumption
<1>3. /\ phase = "dispatch" /\ assignments = <<>> /\ adjust = <<>>
      /\ answered = {} /\ failed = {} /\ failures = 0 /\ turn = 0
  BY DEF ExchangeInit
<1>4. Types
  BY <1>2, <1>3, ExchangeAssumption DEF Types
<1>5. RelevantOnly
  BY <1>3 DEF RelevantOnly
<1> QED BY <1>3, <1>4, <1>5 DEF ClusterInv, Team, Between, During

\* The regions of the nodes in use.
LEMMA RegionsTile ==
  ASSUME Team, phase \in {"loop", "calls"}
  PROVE  /\ \A i \in Used : Region(i) \in SUBSET Cell
         /\ \A i \in Used : \A b \in ToSet(assignments[i]) : Wide(b)
         /\ \A c \in Cell : \E i \in Used : c \in Region(i)
         /\ \A i, j \in Used : i # j => Region(i) \cap Region(j) = {}
BY PartitionsTile DEF Team, Region, Used

\* The rows a node is given hold the broker's world on its partition.
LEMMA RowsAgree ==
  ASSUME NEW b \in Matrix, NEW p, CellsOfPartition(p) \in SUBSET Cell
  PROVE  Rows(b, p) \in Matrix /\ AgreeOn(CellsOfPartition(p), Rows(b, p), b)
<1> DEFINE rows == {c \in Cell : \E d \in CellsOfPartition(p) : d[2] = c[2]}
<1>1. CellsOfPartition(p) \subseteq rows
  OBVIOUS
<1>2. Rows(b, p) = [pixels |-> b.pixels \cap rows,
                    counts |-> [c \in Cell |-> IF c \in rows THEN b.counts[c] ELSE 0]]
  BY DEF Rows
<1> HIDE DEF rows
<1>3. Rows(b, p) \in Matrix
  BY <1>2 DEF Matrix
<1>4. AgreeOn(CellsOfPartition(p), Rows(b, p), b)
  BY <1>1, <1>2 DEF AgreeOn
<1> QED BY <1>3, <1>4

\* Nodes that were just given their rows agree with the broker.
LEMMA DispatchStep ==
  ASSUME AtMostEight, ClusterInv, Dispatch
  PROVE  ClusterInv'
<1>1. /\ phase = "dispatch" /\ phase' = "loop"
      /\ exchange_graph' = getExchangeGraph(assignments')
      /\ nodes' = [i \in DOMAIN assignments' |->
                     [matrix |-> Rows(broker, assignments'[i]), next |-> MakeMatrix]]
      /\ adjust' = [i \in DOMAIN assignments' |-> NoAdjustment]
      /\ UNCHANGED <<broker, sent, flipped, answered, failed, failures, turn>>
  BY DEF Dispatch
<1>2. PICK n \in NodeCounts : assignments' = partitioning(n, divideToBlocks(Threads, Width, Height))
  BY DEF Dispatch
<1>3. Tiling(8, assignments')
  <2>1. Tiling(n, assignments')
    <3>1. n \in Nat \ {0}
      BY ExchangeAssumption
    <3> QED BY <1>2, <3>1, DealingTiles
  <2>2. n \in 1..8
    BY DEF AtMostEight
  <2>3. 1..n \subseteq 1..8
    BY <2>2
  <2> QED BY <2>1, <2>3 DEF Tiling
<1>4. MakeMatrix \in Matrix /\ NoAdjustment \in Adjustment
  BY DEF MakeMatrix, Matrix, NoCounts, NoAdjustment, Adjustment
<1>5. ASSUME NEW i \in DOMAIN assignments'
      PROVE  /\ Region(i)' \in SUBSET Cell
             /\ nodes'[i].matrix \in Matrix /\ nodes'[i].next \in Matrix
             /\ nodes'[i] \in [matrix : Matrix, next : Matrix]
             /\ AgreeOn(Region(i)', applyAdjustment(nodes'[i].matrix, adjust'[i], Region(i)'), broker)
  <2>1. CellsOfPartition(assignments'[i]) \in SUBSET Cell
    BY <1>3, PartitionsTile
  <2>2. /\ Rows(broker, assignments'[i]) \in Matrix
        /\ AgreeOn(CellsOfPartition(assignments'[i]), Rows(broker, assignments'[i]), broker)
    BY <2>1, RowsAgree DEF ClusterInv, Types
  <2>3. /\ nodes'[i] = [matrix |-> Rows(broker, assignments'[i]), next |-> MakeMatrix]
        /\ adjust'[i] = NoAdjustment
    BY <1>1
  <2>4. nodes'[i].matrix \in Matrix /\ nodes'[i].next \in Matrix
        /\ nodes'[i] \in [matrix : Matrix, next : Matrix]
    BY <1>4, <2>2, <2>3
  <2>5. AgreeOn(CellsOfPartition(assignments'[i]),
                applyAdjustment(nodes'[i].matrix, adjust'[i], CellsOfPartition(assignments'[i])), broker)
    BY <1>4, <2>1, <2>2, <2>3, <2>4, Adjusting DEF AgreeOn
  <2> QED BY <2>1, <2>4, <2>5 DEF Region
<1>6. Types'
  BY <1>1, <1>3 DEF ClusterInv, Types, Used
<1>7. Team'
  <2>1. nodes' \in [DOMAIN assignments' -> [matrix : Matrix, next : Matrix]]
    BY <1>1, <1>5
  <2>2. adjust' \in [DOMAIN assignments' -> Adjustment]
    BY <1>1, <1>4
  <2> QED BY <1>1, <1>3, <2>1, <2>2 DEF Team, Used
<1>8. Between'
  BY <1>1, <1>5 DEF Between, Used, Adjusted, ClusterInv, Types
<1>9. RelevantOnly'
  BY <1>1 DEF RelevantOnly, NoAdjustment
<1> QED BY <1>1, <1>6, <1>7, <1>8, <1>9 DEF ClusterInv, During

\* The arguments of the calls are the adjustments that waited.
LEMMA CallNextStep ==
  ASSUME ClusterInv, CallNext
  PROVE  ClusterInv'
<1>1. /\ phase = "loop" /\ phase' = "calls" /\ turn # Turns /\ sent' = adjust /\ answered' = {}
      /\ adjust' = [i \in Used |-> NoAdjustment] /\ flipped' = [i \in Used |-> {}]
      /\ UNCHANGED <<assignments, exchange_graph, broker, nodes, failed, failures, turn>>
  BY DEF CallNext
<1>2. failed = {} /\ \A i \in Used : AgreeOn(Region(i), Adjusted(i, adjust[i]), broker)
  BY <1>1 DEF ClusterInv, Between
<1>3. Used' = Used /\ \A i : Region(i)' = Region(i)
  BY <1>1 DEF Used, Region
<1>4. turn < Turns
  BY <1>1, ExchangeAssumption DEF ClusterInv, Types
<1>5. NoAdjustment \in Adjustment
  BY DEF NoAdjustment, Adjustment
<1>6. adjust \in [Used -> Adjustment] /\ adjust' \in [Used -> Adjustment]
      /\ flipped' \in [Used -> SUBSET Cell]
  BY <1>1, <1>5 DEF ClusterInv, Team
<1>7. Types'
  BY <1>1, <1>2 DEF ClusterInv, Types, Used
<1>8. Team'
  BY <1>1, <1>3, <1>6 DEF ClusterInv, Team
<1>9. \A i \in Used : AgreeOn(Region(i)', Adjusted(i, sent[i])', broker')
  BY <1>1, <1>2, <1>3 DEF Adjusted
<1>10. During'
  BY <1>1, <1>3, <1>4, <1>6, <1>9 DEF During
<1>11. RelevantOnly'
  BY <1>1 DEF RelevantOnly, NoAdjustment
<1> QED BY <1>1, <1>7, <1>8, <1>10, <1>11 DEF ClusterInv, Between

\* A node that answers has the next world of its partition.
LEMMA WorkerNextStep ==
  ASSUME ClusterInv, NEW i \in Used, WorkerNext(i)
  PROVE  ClusterInv'
<1> DEFINE p == assignments[i]
           R == CellsOfPartition(p)
           m == applyAdjustment(nodes[i].matrix, sent[i], R)
           new == Evaluated(m, nodes[i].next, p)
<1>1. /\ phase = "calls" /\ i \in Used \ answered /\ answered' = answered \cup {i}
      /\ nodes' = [nodes EXCEPT ![i] = [matrix |-> new, next |-> m]]
      /\ flipped' = [flipped EXCEPT ![i] = Flips(m, R)]
      /\ UNCHANGED <<phase, assignments, exchange_graph, broker, adjust, sent, failed, failures, turn>>
  BY DEF WorkerNext
<1>2. /\ nodes \in [Used -> [matrix : Matrix, next : Matrix]]
      /\ sent \in [Used -> Adjustment] /\ flipped \in [Used -> SUBSET Cell]
      /\ AgreeOn(R, m, broker) /\ broker \in Matrix /\ Exact(broker)
      /\ R \in SUBSET Cell /\ \A k \in ToSet(p) : Wide(k)
  BY <1>1, RegionsTile DEF ClusterInv, Types, Team, During, Adjusted, Region
<1>3. nodes[i].matrix \in Matrix /\ nodes[i].next \in Matrix /\ sent[i] \in Adjustment
  BY <1>2
<1>4. m \in Matrix
  BY <1>2, <1>3, Adjusting
<1> HIDE DEF m
<1>5. /\ new \in Matrix /\ Flips(m, R) = Flips(broker, R)
      /\ \A c \in R :
           /\ c \in new.pixels <=> c \in Flipped(broker.pixels, Flips(broker, Cell))
           /\ new.counts[c] = AliveAround(Flipped(broker.pixels, Flips(broker, R)), c)
  BY <1>2, <1>3, <1>4, NodeEvaluates
<1> HIDE DEF new
<1>6. Used' = Used /\ \A j : Region(j)' = Region(j)
  BY <1>1 DEF Used, Region
<1>7. /\ nodes'[i] = [matrix |-> new, next |-> m] /\ flipped'[i] = Flips(broker, R)
      /\ \A j \in Used : j # i => nodes'[j] = nodes[j] /\ flipped'[j] = flipped[j]
  BY <1>1, <1>2, <1>5
<1>8. Served(i)'
  <2>1. Region(i)' = R /\ broker' = broker /\ nodes'[i].matrix = new
    BY <1>1, <1>6, <1>7 DEF Region
  <2> QED BY <1>5, <1>7, <2>1 DEF Served
<1>9. ASSUME NEW j \in Used, j # i
      PROVE  /\ j \notin answered' => AgreeOn(Region(j)', Adjusted(j, sent[j])', broker')
             /\ j \in answered' \ failed' => Served(j)'
  <2>1. nodes'[j] = nodes[j] /\ flipped'[j] = flipped[j] /\ Region(j)' = Region(j)
    BY <1>6, <1>7, <1>9
  <2>2. Adjusted(j, sent[j])' = Adjusted(j, sent[j]) /\ (Served(j)' <=> Served(j))
    BY <1>1, <2>1 DEF Adjusted, Served
  <2> QED BY <1>1, <1>9, <2>1, <2>2 DEF ClusterInv, During
<1>10. flipped' \in [Used -> SUBSET Cell]
  <2>1. Flips(m, R) \in SUBSET Cell
    BY <1>2, FlipsOfRegion
  <2> QED BY <1>1, <1>2, <2>1
<1>11. During'
  BY <1>1, <1>6, <1>8, <1>9, <1>10 DEF ClusterInv, During
<1>12. nodes' \in [Used -> [matrix : Matrix, next : Matrix]]
  BY <1>1, <1>2, <1>4, <1>5
<1>13. Team'
  BY <1>1, <1>6, <1>12 DEF ClusterInv, Team
<1>14. Types'
  BY <1>1 DEF ClusterInv, Types, Used
<1>15. RelevantOnly'
  BY <1>1 DEF ClusterInv, RelevantOnly
<1> QED BY <1>1, <1>11, <1>13, <1>14, <1>15 DEF ClusterInv, Between

\* A call that fails leaves the broker and the other nodes alone.
LEMMA CallFailsStep ==
  ASSUME ClusterInv, NEW i \in Used, CallFails(i)
  PROVE  ClusterInv'
<1>1. /\ phase = "calls" /\ i \in Used \ answered /\ failures < MaxFailures
      /\ failures' = failures + 1
      /\ answered' = answered \cup {i} /\ failed' = failed \cup {i}
      /\ UNCHANGED <<phase, assignments, exchange_graph, broker, adjust, sent, nodes, flipped, turn>>
  BY DEF CallFails
<1>2. Used' = Used /\ \A j : Region(j)' = Region(j)
  BY <1>1 DEF Used, Region
<1>3. Types'
  BY <1>1, ExchangeAssumption DEF ClusterInv, Types, Used
<1>4. Team'
  BY <1>1, <1>2 DEF ClusterInv, Team
<1>5. \A j \in Used : Adjusted(j, sent[j])' = Adjusted(j, sent[j]) /\ (Served(j)' <=> Served(j))
  BY <1>1, <1>2 DEF Adjusted, Served
<1>6. During'
  BY <1>1, <1>2, <1>5 DEF ClusterInv, During
<1>7. RelevantOnly'
  BY <1>1 DEF ClusterInv, RelevantOnly
<1> QED BY <1>1, <1>3, <1>4, <1>6, <1>7 DEF ClusterInv, Between
\* When all replies are in, together they are the flips of the generation.
LEMMA RepliesComplete ==
  ASSUME ClusterInv, phase = "calls", answered = Used, failed = {}
  PROVE  /\ UNION {flipped[i] : i \in Used} = Flips(broker, Cell)
         /\ \A i \in Used : Served(i)
<1>1. \A i \in Used : Served(i)
  BY DEF ClusterInv, During
<1>2. \A i \in Used : flipped[i] = Flips(broker, Region(i)) /\ Region(i) \in SUBSET Cell
  BY <1>1, RegionsTile DEF ClusterInv, Served
<1>3. \A c \in Cell : \E i \in Used : c \in Region(i)
  BY RegionsTile DEF ClusterInv
<1>4. \A c : c \in Flips(broker, Cell) <=> \E i \in Used : c \in Flips(broker, Region(i))
  BY <1>2, <1>3 DEF Flips
<1>5. \A c : c \in UNION {flipped[i] : i \in Used} <=> \E i \in Used : c \in flipped[i]
  OBVIOUS
<1> QED BY <1>1, <1>2, <1>4, <1>5

\* The broker applies all flips; what the nodes do not know yet waits for them.
LEMMA GatherStep ==
  ASSUME ClusterInv, Gather
  PROVE  ClusterInv' /\ broker'.pixels = Generation(broker.pixels) /\ turn < Turns
<1> DEFINE F == UNION {flipped[i] : i \in Used}
           pixels == (broker.pixels \ F) \cup (F \ broker.pixels)
           T(i) == {c \in F : i \in exchange_graph[c]}
<1>1. /\ phase = "calls" /\ answered = Used /\ failed = {} /\ phase' = "loop" /\ turn' = turn + 1
      /\ broker' = [pixels |-> pixels, counts |-> Bump(broker.counts, broker.pixels, F)]
      /\ adjust' = [i \in Used |-> Adjustments(i, F, pixels)]
      /\ UNCHANGED <<assignments, exchange_graph, sent, nodes, flipped, answered, failed, failures>>
  BY DEF Gather, updateMatrixAndGetAdjustments
<1>2. F = Flips(broker, Cell) /\ \A i \in Used : Served(i)
  BY <1>1, RepliesComplete
<1>3. /\ turn < Turns /\ adjust = [i \in Used |-> NoAdjustment]
      /\ broker \in Matrix /\ Exact(broker) /\ turn \in 0..Turns
      /\ Tiling(8, assignments) /\ exchange_graph = getExchangeGraph(assignments)
      /\ nodes \in [Used -> [matrix : Matrix, next : Matrix]]
  BY <1>1 DEF ClusterInv, Types, Team, During
<1>4. /\ F \in SUBSET Cell /\ broker.pixels \in SUBSET Cell /\ broker.counts \in [Cell -> Int]
      /\ pixels = Flipped(broker.pixels, F) /\ pixels \in SUBSET Cell
  BY <1>2, <1>3 DEF Flips, Matrix, Flipped
<1>5. /\ Used' = Used /\ \A i : Region(i)' = Region(i)
      /\ \A i \in Used : Region(i) \in SUBSET Cell /\ Region(i) = CellsOfPartition(assignments[i])
  BY <1>1, RegionsTile DEF ClusterInv, Used, Region
<1>6. \A i \in Used : /\ adjust'[i].Increment = T(i) \cap pixels /\ adjust'[i].Decrement = T(i) \ pixels
                      /\ adjust'[i] \in Adjustment
  <2> TAKE i \in Used
  <2>1. adjust'[i] = Adjustments(i, F, pixels) /\ adjust[i] = NoAdjustment
    BY <1>1, <1>3
  <2>2. adjust'[i] = [Increment |-> {} \cup (T(i) \cap pixels), Decrement |-> {} \cup (T(i) \ pixels)]
    BY <2>1 DEF Adjustments, NoAdjustment
  <2>3. T(i) \in SUBSET Cell
    BY <1>4
  <2> HIDE DEF T, F, pixels
  <2> QED BY <2>2, <2>3 DEF Adjustment
<1> HIDE DEF F, pixels
<1>7. broker' \in Matrix /\ Exact(broker')
  <2>1. Bump(broker.counts, broker.pixels, F) \in [Cell -> Int]
    BY <1>4, BumpType
  <2>2. broker' \in Matrix
    BY <1>1, <1>4, <2>1 DEF Matrix
  <2>3. ASSUME NEW c \in Cell PROVE broker'.counts[c] = AliveAround(broker'.pixels, c)
    <3>1. Bump(broker.counts, broker.pixels, F)[c] = AliveAround(Flipped(broker.pixels, F), c)
      BY <1>3, <1>4, StaysExact
    <3> QED BY <1>1, <1>4, <3>1
  <2> QED BY <2>2, <2>3 DEF Exact
<1>8. broker'.pixels = Generation(broker.pixels)
  BY <1>1, <1>2, <1>3, <1>4, FlipsAreGeneration
<1>9. \A i \in Used : \A z \in T(i) :
        /\ z \in Cell /\ z \notin Region(i)
        /\ \E o \in Offset : getSurrounding[z][o] \in Region(i)
  BY <1>3, <1>4, <1>5, GraphReaches DEF Used
<1>10. ASSUME NEW i \in Used
       PROVE  AgreeOn(Region(i), applyAdjustment(nodes[i].matrix, adjust'[i], Region(i)), broker')
  <2> DEFINE m == nodes[i].matrix
             R == Region(i)
             a == adjust'[i]
  <2>1. /\ m \in Matrix /\ R \in SUBSET Cell /\ a \in Adjustment /\ T(i) \in SUBSET Cell
        /\ T(i) \subseteq Flips(broker, Cell) /\ T(i) \cap R = {}
    BY <1>2, <1>3, <1>4, <1>5, <1>6, <1>9
  <2>2. \A z \in Flips(broker, Cell) : z \notin R /\ z \notin T(i) =>
          (\A c \in R, o \in Offset : getSurrounding[c][o] # z)
    <3> TAKE z \in Flips(broker, Cell)
    <3> HAVE z \notin R /\ z \notin T(i)
    <3>1. z \in Cell /\ i \notin getExchangeGraph(assignments)[z]
      BY <1>2, <1>3, <1>4
    <3> QED BY <1>3, <1>5, <3>1, GraphReaches DEF Used
  <2>3. /\ a.Increment = T(i) \cap Flipped(broker.pixels, Flips(broker, Cell))
        /\ a.Decrement = T(i) \ Flipped(broker.pixels, Flips(broker, Cell))
    BY <1>2, <1>4, <1>6
  <2>4. \A c \in R : m.counts[c] = AliveAround(Flipped(broker.pixels, Flips(broker, R)), c)
    BY <1>2 DEF Served
  <2> DEFINE U == T(i)
  <2> HIDE DEF T, U
  <2>5. U \in SUBSET Cell /\ SeenFrom(R, U, broker) /\ Informs(a, U, broker)
    BY <2>1, <2>2, <2>3 DEF U, SeenFrom, Informs
  <2>6. applyAdjustment(m, a, R).pixels = m.pixels
    BY <2>1, Adjusting
  <2> HIDE DEF m, R, a
  <2>7. ASSUME NEW c \in R
        PROVE  applyAdjustment(m, a, R).counts[c]
                 = AliveAround(Flipped(broker.pixels, Flips(broker, Cell)), c)
    BY <1>3, <2>1, <2>4, <2>5, AdjustmentsComplete
  <2>8. \A c \in R : c \in m.pixels <=> c \in Flipped(broker.pixels, Flips(broker, Cell))
    BY <1>2 DEF Served, m, R
  <2>9. \A c \in R : broker'.counts[c] = AliveAround(broker'.pixels, c)
    BY <1>7, <2>1 DEF Exact
  <2>10. broker'.pixels = Flipped(broker.pixels, Flips(broker, Cell))
    BY <1>1, <1>2, <1>4
  <2>11. AgreeOn(R, applyAdjustment(m, a, R), broker')
    BY <2>6, <2>7, <2>8, <2>9, <2>10 DEF AgreeOn
  <2> QED BY <2>11 DEF m, R, a
<1>11. Between'
  <2>1. \A i \in Used : Adjusted(i, adjust[i])' = applyAdjustment(nodes[i].matrix, adjust'[i], Region(i))
    BY <1>1, <1>5 DEF Adjusted
  <2> QED BY <1>1, <1>5, <1>10, <2>1 DEF Between
<1>12. RelevantOnly'
  <2>1. DOMAIN adjust' = Used
    BY <1>1
  <2>2. ASSUME NEW i \in Used, NEW c \in adjust'[i].Increment \cup adjust'[i].Decrement
        PROVE  /\ c \notin CellsOfPartition(assignments'[i])
               /\ \E o \in Offset : getSurrounding[c][o] \in CellsOfPartition(assignments'[i])
    <3>1. c \in T(i)
      BY <1>6, <2>2
    <3> QED BY <1>1, <1>5, <1>9, <3>1
  <2> QED BY <2>1, <2>2 DEF RelevantOnly
<1>13. Team'
  BY <1>1, <1>3, <1>5, <1>6 DEF Team
<1>14. Types'
  BY <1>1, <1>3, <1>5, <1>7, ExchangeAssumption DEF ClusterInv, Types
<1> QED BY <1>1, <1>3, <1>8, <1>11, <1>12, <1>13, <1>14 DEF ClusterInv, During

\* A recovery and the end change neither world nor adjustments.
LEMMA OtherSteps ==
  ASSUME ClusterInv, Recover \/ Finish \/ UNCHANGED vars
  PROVE  ClusterInv'
<1>1. /\ UNCHANGED <<assignments, exchange_graph, broker, adjust, sent, nodes, flipped, failures, turn>>
      /\ \/ phase' = "dispatch" /\ answered' = {} /\ failed' = {}
         \/ phase' = "stopped" /\ UNCHANGED <<answered, failed>>
         \/ UNCHANGED <<phase, answered, failed>>
  BY DEF Recover, Finish, vars
<1>2. Used' = Used /\ \A i, a : Region(i)' = Region(i) /\ (Served(i)' <=> Served(i))
  BY <1>1 DEF Used, Region, Served
<1>3. \A i : Adjusted(i, sent[i])' = Adjusted(i, sent[i]) /\ Adjusted(i, adjust[i])' = Adjusted(i, adjust[i])
  BY <1>1, <1>2 DEF Adjusted
<1>4. Types'
  BY <1>1, <1>2 DEF ClusterInv, Types
<1>5. Team' /\ RelevantOnly'
  BY <1>1, <1>2 DEF ClusterInv, Team, RelevantOnly
<1>6. Between' /\ During'
  BY <1>1, <1>2, <1>3 DEF ClusterInv, Between, During
<1> QED BY <1>4, <1>5, <1>6 DEF ClusterInv

\* Every step of the cluster keeps the invariant.
LEMMA ClusterStep == AtMostEight /\ ClusterInv /\ [ExchangeNext]_vars => ClusterInv'
BY DispatchStep, CallNextStep, WorkerNextStep, CallFailsStep, GatherStep, OtherSteps
   DEF ExchangeNext

\* The invariant holds with at most eight nodes.
LEMMA ClusterAlwaysInv == AtMostEight /\ ExchangeSpec => []ClusterInv
<1> SUFFICES ASSUME AtMostEight PROVE ExchangeSpec => []ClusterInv
  OBVIOUS
<1>1. ClusterInv /\ [ExchangeNext]_vars => ClusterInv'
  BY ClusterStep
<1> QED BY <1>1, ClusterInit, PTL DEF ExchangeSpec

\* Between two turns every node agrees with the broker on its partition
\* (worker.go:113-149, broker/matrix.go:67-94), for every grid, every division
\* of it, every number of failures and of turns, with at most eight nodes.
THEOREM ClusterAgrees == AtMostEight /\ ExchangeSpec => []NodesAgree
<1>1. ClusterInv => NodesAgree
  BY DEF ClusterInv, Between, NodesAgree, AgreeOn, Adjusted, Region
<1> QED BY <1>1, ClusterAlwaysInv, PTL

\* The counts a recovery hands to the nodes are exact (broker/matrix.go:67-94).
THEOREM ClusterExact == AtMostEight /\ ExchangeSpec => []BrokerExact
<1>1. ClusterInv => BrokerExact
  <2> SUFFICES ASSUME ClusterInv PROVE BrokerExact
    OBVIOUS
  <2>1. phase \in {"loop", "calls"} =>
          /\ DOMAIN nodes = Used /\ DOMAIN adjust = Used
          /\ \A i \in Used : nodes[i].matrix \in Matrix /\ nodes[i].next \in Matrix
    BY DEF ClusterInv, Team
  <2> QED BY <2>1 DEF ClusterInv, Types, BrokerExact, ExchangeTypeOK
<1> QED BY <1>1, ClusterAlwaysInv, PTL

\* A node is sent only flips outside its partition that touch it
\* (broker/partitioning.go:115, README.md:21).
THEOREM ClusterRelevant == AtMostEight /\ ExchangeSpec => []RelevantOnly
<1>1. ClusterInv => RelevantOnly
  BY DEF ClusterInv
<1> QED BY <1>1, ClusterAlwaysInv, PTL

\* The instance of Life counts neighbours on the same torus.
LEMMA SameRules == \A S : L!Generation(S) = Generation(S)
<1>1. L!Cell = Cell /\ L!getSurrounding = getSurrounding /\ L!Offset = Offset
  BY DEF L!Cell, Cell, L!getSurrounding, getSurrounding, L!Offset, Offset
<1>2. \A S, c : L!AliveAround(S, c) = AliveAround(S, c)
  <2> TAKE S, c
  <2>1. {o \in L!Offset : L!getSurrounding[c][o] \in S} = {o \in Offset : getSurrounding[c][o] \in S}
    BY <1>1
  <2>2. \A T : L!Cardinality(T) = Cardinality(T)
    BY DEF L!Cardinality, Cardinality
  <2> QED BY <2>1, <2>2 DEF L!AliveAround, AliveAround
<1> QED BY <1>1, <1>2 DEF L!Generation, Generation

\* The broker's world changes when all replies are in, to the next generation.
LEMMA LifeStep ==
  ASSUME ClusterInv, [ExchangeNext]_vars
  PROVE  L!LifeNext \/ UNCHANGED <<broker.pixels, turn, phase = "stopped">>
<1>1. CASE Gather
  <2>1. /\ broker'.pixels = L!Generation(broker.pixels) /\ turn < Turns /\ turn' = turn + 1
        /\ phase = "calls" /\ phase' = "loop"
    BY <1>1, GatherStep, SameRules DEF Gather
  <2> QED BY <2>1 DEF L!LifeNext, L!Evolve
<1>2. CASE Finish
  BY <1>2 DEF Finish, L!LifeNext, L!End
<1>3. CASE Dispatch \/ CallNext \/ Recover
  BY <1>3 DEF Dispatch, CallNext, Recover
<1>4. ASSUME NEW i \in Used, WorkerNext(i) \/ CallFails(i)
      PROVE  UNCHANGED <<broker.pixels, turn, phase = "stopped">>
  BY <1>4 DEF WorkerNext, CallFails
<1>5. CASE UNCHANGED vars
  BY <1>5 DEF vars
<1> QED BY <1>1, <1>2, <1>3, <1>4, <1>5 DEF ExchangeNext

\* The worlds of the broker are the generations of the image, one after the
\* other, though nodes are lost and turns evaluated again by others
\* (broker.go:183-347), with at most eight nodes.
THEOREM ClusterPlaysLife == AtMostEight /\ ExchangeSpec => ImplementsLife
<1> SUFFICES ASSUME AtMostEight PROVE ExchangeSpec => ImplementsLife
  OBVIOUS
<1>1. ExchangeInit => L!LifeInit
  BY LoadedExact, ExchangeAssumption DEF ExchangeInit, L!LifeInit
<1>2. ClusterInv /\ [ExchangeNext]_vars => [L!LifeNext]_(L!lifeVars)
  BY LifeStep DEF L!lifeVars
<1>3. ExchangeSpec => []ClusterInv
  BY ClusterAlwaysInv
<1> QED BY <1>1, <1>2, <1>3, PTL DEF ExchangeSpec, ImplementsLife, L!LifeSpec
==============================================================================
