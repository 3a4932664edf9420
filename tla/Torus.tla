-------------------------------- MODULE Torus --------------------------------
(***************************************************************************)
(* The closed grid of cells and the incremental evaluation of one turn, as *)
(* parallel/gol/matrix.go and distributed/worker/matrix.go do it.          *)
(*                                                                         *)
(* A matrix does not recount neighbours: it keeps, beside the pixels, the  *)
(* number of living neighbours of every cell (surrounding_counts), and a   *)
(* cell that flips adds or subtracts one at its eight surrounding cells.   *)
(* Pixels are the set of the cells that are alive; a loop over the cells   *)
(* of a region is one operator on that region, for its order is immaterial:*)
(* a flip is decided by the current matrix and written to the next one.    *)
(***************************************************************************)
EXTENDS Integers, FiniteSets

CONSTANTS Width, Height          \* ImageWidth, ImageHeight

ASSUME SizeAssumption == Width \in Nat \ {0} /\ Height \in Nat \ {0}

Cell   == (0..Width - 1) \X (0..Height - 1)          \* <<X, Y>>
Offset == ((-1..1) \X (-1..1)) \ {<<0, 0>>}

\* The eight surrounding cells, wrapped around the edges.
getSurrounding == [c \in Cell |-> [o \in Offset |->
                     <<(c[1] + o[1] + Width)  % Width,
                       (c[2] + o[2] + Height) % Height>>]]

\* How often the flips of the cells F reach cell c: in a torus less than three
\* cells wide one neighbour of a cell is met by several offsets.
Touches(F, c) == Cardinality({p \in F \X Offset : getSurrounding[p[1]][p[2]] = c})

\* Surrounding counts after the cells F, drawn from pixels, have flipped.
Bump(counts, pixels, F) ==
  [c \in Cell |-> counts[c] + Touches(F \ pixels, c) - Touches(F \cap pixels, c)]

Matrix   == [pixels : SUBSET Cell, counts : [Cell -> Int]]
NoCounts == [c \in Cell |-> 0]

\* An empty matrix.  Its rows are cut in a loop over the width (parallel/gol/matrix.go:25,
\* 43, distributed/worker/matrix.go:20): the modules that make matrices assume square
\* images (SquareAssumption), for others the program panics.
MakeMatrix == [pixels |-> {}, counts |-> NoCounts]

\* A loaded image: every living cell adds one at its surrounding cells.
Loaded(image) == [pixels |-> image, counts |-> Bump(NoCounts, {}, image)]

\* The cells of region that the current matrix m tells to flip.
Flips(m, region) ==
  {c \in region : IF c \in m.pixels THEN m.counts[c] \notin {2, 3}
                                    ELSE m.counts[c] = 3}

\* What the flips of region add to the number of living cells.
CountDiff(m, region) ==
  LET F == Flips(m, region)
  IN  Cardinality(F \ m.pixels) - Cardinality(F \cap m.pixels)

\* Mutant: a cell that does not flip is not copied.
WrittenFlipsOnly(m, next, region) ==
  LET F == Flips(m, region)
  IN  (next.pixels \ F) \cup (F \ m.pixels)

\* The next matrix after region was checked: every pixel of it is written,
\* flipped or copied; only the flips of a safe region touch the counts.
WrittenPixels(m, next, region) ==
  LET F == Flips(m, region)
  IN  (next.pixels \ region) \cup ((m.pixels \cap region) \ F) \cup (F \ m.pixels)

checkAndFlip(m, next, region) ==
  [pixels |-> WrittenPixels(m, next, region),
   counts |-> Bump(next.counts, m.pixels, Flips(m, region))]

checkAndFlipUnsafe(m, next, region) ==
  [next EXCEPT !.pixels = WrittenPixels(m, next, region)]

\* The clean-up at the start of a turn: the counts of the block are copied.
CopyCounts(m, next, region) ==
  [next EXCEPT !.counts = [c \in Cell |-> IF c \in region THEN m.counts[c] ELSE @[c]]]

------------------------------------------------------------------------------
(* Blocks: half-open rectangles, at least two cells wide and high            *)

Rect(x1, x2, y1, y2) == {c \in Cell : c[1] \in x1..x2 /\ c[2] \in y1..y2}

Block == [start : Cell, end : (1..Width) \X (1..Height)]

CellsOf(b) == Rect(b.start[1], b.end[1] - 1, b.start[2], b.end[2] - 1)

\* Mutant: the safe region reaches the last row of the block.
SafeRegionTooHigh(b) == Rect(b.start[1] + 1, b.end[1] - 2, b.start[2] + 1, b.end[2] - 1)

SafeRegion(b) == Rect(b.start[1] + 1, b.end[1] - 2, b.start[2] + 1, b.end[2] - 2)

\* The four boundary loops, in the order they run; each leaves out one corner.
Boundary(b) ==
  << Rect(b.start[1], b.end[1] - 2, b.start[2], b.start[2]),
     Rect(b.end[1] - 1, b.end[1] - 1, b.start[2], b.end[2] - 2),
     Rect(b.start[1] + 1, b.end[1] - 1, b.end[2] - 1, b.end[2] - 1),
     Rect(b.start[1], b.start[1], b.start[2] + 1, b.end[2] - 1) >>

------------------------------------------------------------------------------
(* The rules of the game, independent of the counts *)

AliveAround(world, c) == Cardinality({o \in Offset : getSurrounding[c][o] \in world})

Generation(world) ==
  {c \in Cell : LET n == AliveAround(world, c)
                IN  n = 3 \/ (n = 2 /\ c \in world)}

\* A matrix whose counts are the numbers of living neighbours of its pixels.
Exact(m) == \A c \in Cell : m.counts[c] = AliveAround(m.pixels, c)
==============================================================================
