------------------------------ MODULE GridProofs ------------------------------
(***************************************************************************)
(* The grid as a torus, and its division into blocks.                      *)
(*                                                                         *)
(* Keeping the numbers of living neighbours up to date by adding and       *)
(* subtracting one around every cell that flips gives the same as counting *)
(* them anew, on a torus of any size, in any order and in any portions.    *)
(* The hinge is TouchesIsAround: a cell is reached from the flips of F as  *)
(* often as it sees a cell of F, because every offset has an opposite one  *)
(* that leads back.  This also holds where the torus is so small that a    *)
(* cell meets another, or itself, more than once.                          *)
(*                                                                         *)
(* The blocks of a division tile the image and are dealt once, for every   *)
(* number of threads and nodes and every size: Vertical(n) divides n, and  *)
(* rounded shares lie side by side.  The induction over the numbers is     *)
(* that every set of them has a least member.                              *)
(***************************************************************************)
EXTENDS Torus, Partitioning, FiniteSetTheorems, SequenceTheorems, WellFoundedInduction, TLAPS

\* The cells that are alive after the cells F have flipped.
Flipped(pixels, F) == (pixels \ F) \cup (F \ pixels)

\* The sum of what a flip of each cell of F adds to the number of living cells.
Net(pixels, F) == Cardinality(F \ pixels) - Cardinality(F \cap pixels)

Opposite(o) == <<-o[1], -o[2]>>

\* Where cell c sees a cell of S.
Sights(S, c) == {o \in Offset : getSurrounding[c][o] \in S}

------------------------------------------------------------------------------
(* The torus *)

\* There are finitely many cells and offsets, so their sets can be counted.
LEMMA FiniteGrid == IsFiniteSet(Offset) /\ IsFiniteSet(Cell)
<1>1. IsFiniteSet(-1..1) /\ IsFiniteSet(0..Width - 1) /\ IsFiniteSet(0..Height - 1)
  <2>1. -1 \in Int /\ 1 \in Int /\ 0 \in Int /\ Width - 1 \in Int /\ Height - 1 \in Int
    BY SizeAssumption
  <2> QED BY <2>1, FS_Interval
<1>2. IsFiniteSet((-1..1) \X (-1..1)) /\ IsFiniteSet(Cell)
  BY <1>1, FS_Product DEF Cell
<1> QED BY <1>2, FS_Difference DEF Offset

\* A coordinate wraps around at most once.
LEMMA Wrap ==
  ASSUME NEW n \in Nat \ {0}, NEW x \in 0..n - 1, NEW d \in -1..1
  PROVE  (x + d + n) % n = IF x + d = -1 THEN n - 1 ELSE IF x + d = n THEN 0 ELSE x + d
<1>1. CASE x + d \in 0..n - 1
  <2>1. (x + d + n) % n = x + d
    BY <1>1, SMT
  <2> QED BY <1>1, <2>1
<1>2. CASE x + d = -1
  <2>1. (n - 1) % n = n - 1
    BY SMT
  <2> QED BY <1>2, <2>1
<1>3. CASE x + d = n
  <2>1. (n + n) % n = 0
    BY SMT
  <2> QED BY <1>3, <2>1
<1> QED BY <1>1, <1>2, <1>3

\* Wrapping by one step leads back by the opposite step.
LEMMA WrapBack ==
  ASSUME NEW n \in Nat \ {0}, NEW x \in 0..n - 1, NEW y \in 0..n - 1, NEW d \in -1..1
  PROVE  /\ (x + d + n) % n \in 0..n - 1
         /\ (x + d + n) % n = y <=> (y + (-d) + n) % n = x
<1>1. -d \in -1..1
  OBVIOUS
<1>2. (x + d + n) % n = IF x + d = -1 THEN n - 1 ELSE IF x + d = n THEN 0 ELSE x + d
  BY Wrap
<1>3. (y + (-d) + n) % n
        = IF y + (-d) = -1 THEN n - 1 ELSE IF y + (-d) = n THEN 0 ELSE y + (-d)
  BY <1>1, Wrap
<1> QED BY <1>2, <1>3

\* The eight cells around a cell are on the grid.
LEMMA SurroundingIsCell ==
  ASSUME NEW c \in Cell, NEW o \in Offset
  PROVE  getSurrounding[c][o] \in Cell
<1>1. c[1] \in 0..Width - 1 /\ c[2] \in 0..Height - 1 /\ o[1] \in -1..1 /\ o[2] \in -1..1
  BY DEF Cell, Offset
<1>2. (c[1] + o[1] + Width) % Width \in 0..Width - 1
  BY <1>1, WrapBack, SizeAssumption
<1>3. (c[2] + o[2] + Height) % Height \in 0..Height - 1
  BY <1>1, WrapBack, SizeAssumption
<1> QED BY <1>2, <1>3 DEF getSurrounding, Cell

\* Every offset has an opposite one, and is the opposite of that.
LEMMA OppositeIsOffset ==
  ASSUME NEW o \in Offset
  PROVE  Opposite(o) \in Offset /\ Opposite(Opposite(o)) = o
<1>1. o[1] \in -1..1 /\ o[2] \in -1..1 /\ o = <<o[1], o[2]>> /\ ~(o[1] = 0 /\ o[2] = 0)
  BY DEF Offset
<1>2. -o[1] \in -1..1 /\ -o[2] \in -1..1 /\ -(-o[1]) = o[1] /\ -(-o[2]) = o[2]
      /\ ~(-o[1] = 0 /\ -o[2] = 0)
  BY <1>1
<1> QED BY <1>1, <1>2 DEF Opposite, Offset

\* The opposite offset leads back.
LEMMA WayBack ==
  ASSUME NEW f \in Cell, NEW c \in Cell, NEW o \in Offset
  PROVE  getSurrounding[f][o] = c <=> getSurrounding[c][Opposite(o)] = f
<1>1. /\ f[1] \in 0..Width - 1 /\ f[2] \in 0..Height - 1 /\ f = <<f[1], f[2]>>
      /\ c[1] \in 0..Width - 1 /\ c[2] \in 0..Height - 1 /\ c = <<c[1], c[2]>>
      /\ o[1] \in -1..1 /\ o[2] \in -1..1
  BY DEF Cell, Offset
<1>2. (f[1] + o[1] + Width) % Width = c[1] <=> (c[1] + (-o[1]) + Width) % Width = f[1]
  BY <1>1, WrapBack, SizeAssumption
<1>3. (f[2] + o[2] + Height) % Height = c[2] <=> (c[2] + (-o[2]) + Height) % Height = f[2]
  BY <1>1, WrapBack, SizeAssumption
<1>4. getSurrounding[f][o]
        = <<(f[1] + o[1] + Width) % Width, (f[2] + o[2] + Height) % Height>>
  BY DEF getSurrounding
<1>5. getSurrounding[c][Opposite(o)]
        = <<(c[1] + (-o[1]) + Width) % Width, (c[2] + (-o[2]) + Height) % Height>>
  BY OppositeIsOffset DEF getSurrounding, Opposite
<1> QED BY <1>1, <1>2, <1>3, <1>4, <1>5

------------------------------------------------------------------------------
(* Counting *)

\* What a cell sees is finite, and counting it gives its living neighbours.
LEMMA SightsFinite ==
  ASSUME NEW S, NEW c
  PROVE  IsFiniteSet(Sights(S, c)) /\ AliveAround(S, c) = Cardinality(Sights(S, c))
         /\ AliveAround(S, c) \in Nat
BY FiniteGrid, FS_Subset, FS_CardinalityType DEF Sights, AliveAround

\* A cell is reached by the flips of F once for every sight of a cell of F.
LEMMA TouchesIsAround ==
  ASSUME NEW F \in SUBSET Cell, NEW c \in Cell
  PROVE  Touches(F, c) = AliveAround(F, c)
<1> DEFINE Met  == {p \in F \X Offset : getSurrounding[p[1]][p[2]] = c}
           meet == [o \in Sights(F, c) |-> <<getSurrounding[c][o], Opposite(o)>>]
<1>1. \A o \in Sights(F, c) : meet[o] \in Met
  <2> TAKE o \in Sights(F, c)
  <2>1. o \in Offset /\ getSurrounding[c][o] \in F
    BY DEF Sights
  <2>2. getSurrounding[getSurrounding[c][o]][Opposite(o)] = c
    BY <2>1, WayBack
  <2> QED BY <2>1, <2>2, OppositeIsOffset
<1>2. \A o, q \in Sights(F, c) : meet[o] = meet[q] => o = q
  <2> TAKE o, q \in Sights(F, c)
  <2>1. o \in Offset /\ q \in Offset
    BY DEF Sights
  <2>2. meet[o] = meet[q] => Opposite(o) = Opposite(q)
    OBVIOUS
  <2> QED BY <2>1, <2>2, OppositeIsOffset
<1>3. \A p \in Met : \E o \in Sights(F, c) : meet[o] = p
  <2> TAKE p \in Met
  <2>1. p[1] \in F /\ p[1] \in Cell /\ p[2] \in Offset /\ p = <<p[1], p[2]>>
        /\ getSurrounding[p[1]][p[2]] = c
    OBVIOUS
  <2>2. getSurrounding[c][Opposite(p[2])] = p[1]
    BY <2>1, WayBack
  <2>3. Opposite(p[2]) \in Sights(F, c)
    BY <2>1, <2>2, OppositeIsOffset DEF Sights
  <2>4. meet[Opposite(p[2])] = p
    BY <2>1, <2>2, <2>3, OppositeIsOffset
  <2> QED BY <2>3, <2>4
<1>4. meet \in Bijection(Sights(F, c), Met)
  BY <1>1, <1>2, <1>3 DEF Bijection, Injection, Surjection, IsInjective
<1>5. Cardinality(Met) = Cardinality(Sights(F, c))
  <2> HIDE DEF Met, meet
  <2> QED BY <1>4, SightsFinite, FS_Bijection DEF ExistsBijection
<1> QED BY <1>5, SightsFinite DEF Touches

\* Sizes of disjoint parts add up.
LEMMA Parts ==
  ASSUME NEW S, NEW T, IsFiniteSet(S), IsFiniteSet(T), S \cap T = {}
  PROVE  /\ IsFiniteSet(S \cup T)
         /\ Cardinality(S \cup T) = Cardinality(S) + Cardinality(T)
         /\ Cardinality(S) \in Nat /\ Cardinality(T) \in Nat
<1>1. Cardinality(S \cap T) = 0
  BY FS_EmptySet
<1>2. /\ IsFiniteSet(S \cup T)
      /\ Cardinality(S \cup T) = Cardinality(S) + Cardinality(T) - Cardinality(S \cap T)
  BY FS_Union
<1>3. Cardinality(S) \in Nat /\ Cardinality(T) \in Nat
  BY FS_CardinalityType
<1> QED BY <1>1, <1>2, <1>3

\* When F flips, the number of living cells changes by Net.
LEMMA NetCounts ==
  ASSUME NEW P \in SUBSET Cell, NEW F \in SUBSET Cell
  PROVE  /\ Cardinality(Flipped(P, F)) = Cardinality(P) + Net(P, F)
         /\ Cardinality(P) \in Nat /\ Net(P, F) \in Int
<1>1. IsFiniteSet(P \ F) /\ IsFiniteSet(F \ P) /\ IsFiniteSet(F \cap P) /\ IsFiniteSet(P)
  BY FiniteGrid, FS_Subset
<1>2. /\ Cardinality(Flipped(P, F)) = Cardinality(P \ F) + Cardinality(F \ P)
      /\ Cardinality(P \ F) \in Nat /\ Cardinality(F \ P) \in Nat
  <2>1. (P \ F) \cap (F \ P) = {}
    OBVIOUS
  <2> QED BY <1>1, <2>1, Parts DEF Flipped
<1>3. /\ Cardinality(P) = Cardinality(P \ F) + Cardinality(F \cap P)
      /\ Cardinality(F \cap P) \in Nat
  <2>1. (P \ F) \cap (F \cap P) = {} /\ P = (P \ F) \cup (F \cap P)
    OBVIOUS
  <2> QED BY <1>1, <2>1, Parts
<1> QED BY <1>2, <1>3 DEF Net

\* The same for what a cell sees.
LEMMA AroundFlipped ==
  ASSUME NEW P \in SUBSET Cell, NEW F \in SUBSET Cell, NEW c \in Cell
  PROVE  AliveAround(Flipped(P, F), c)
           = AliveAround(P, c) + Touches(F \ P, c) - Touches(F \cap P, c)
<1>1. \A S, T \in SUBSET Cell : S \cap T = {} =>
        AliveAround(S \cup T, c) = AliveAround(S, c) + AliveAround(T, c)
  <2> TAKE S, T \in SUBSET Cell
  <2> HAVE S \cap T = {}
  <2>1. Sights(S, c) \cap Sights(T, c) = {} /\ Sights(S \cup T, c) = Sights(S, c) \cup Sights(T, c)
    BY DEF Sights
  <2>2. /\ IsFiniteSet(Sights(S, c)) /\ AliveAround(S, c) = Cardinality(Sights(S, c))
        /\ IsFiniteSet(Sights(T, c)) /\ AliveAround(T, c) = Cardinality(Sights(T, c))
        /\ AliveAround(S \cup T, c) = Cardinality(Sights(S \cup T, c))
    BY SightsFinite
  <2>3. Cardinality(Sights(S, c) \cup Sights(T, c))
          = Cardinality(Sights(S, c)) + Cardinality(Sights(T, c))
    BY <2>1, <2>2, Parts
  <2> QED BY <2>1, <2>2, <2>3
<1>2. AliveAround(Flipped(P, F), c) = AliveAround(P \ F, c) + AliveAround(F \ P, c)
  <2>1. (P \ F) \cap (F \ P) = {}
    OBVIOUS
  <2> QED BY <1>1, <2>1 DEF Flipped
<1>3. AliveAround(P, c) = AliveAround(P \ F, c) + AliveAround(F \cap P, c)
  <2>1. (P \ F) \cap (F \cap P) = {} /\ P = (P \ F) \cup (F \cap P)
    OBVIOUS
  <2> QED BY <1>1, <2>1
<1>4. /\ Touches(F \ P, c) = AliveAround(F \ P, c)
      /\ Touches(F \cap P, c) = AliveAround(F \cap P, c)
  BY TouchesIsAround
<1>5. /\ AliveAround(P \ F, c) \in Nat /\ AliveAround(F \ P, c) \in Nat
      /\ AliveAround(F \cap P, c) \in Nat
  BY SightsFinite
<1> QED BY <1>2, <1>3, <1>4, <1>5

\* Flips may be applied in portions: the counts after A, bumped by F, are the
\* counts after both.
LEMMA BumpMore ==
  ASSUME NEW P \in SUBSET Cell, NEW A \in SUBSET Cell, NEW F \in SUBSET Cell, A \cap F = {},
         NEW counts, NEW c \in Cell, counts[c] = AliveAround(Flipped(P, A), c)
  PROVE  Bump(counts, P, F)[c] = AliveAround(Flipped(P, A \cup F), c)
<1> DEFINE Q == Flipped(P, A)
<1>1. Q \in SUBSET Cell /\ Flipped(Q, F) = Flipped(P, A \cup F) /\ F \ Q = F \ P /\ F \cap Q = F \cap P
  BY DEF Flipped
<1>2. AliveAround(Flipped(Q, F), c) = AliveAround(Q, c) + Touches(F \ Q, c) - Touches(F \cap Q, c)
  BY <1>1, AroundFlipped
<1>3. Bump(counts, P, F)[c] = counts[c] + Touches(F \ P, c) - Touches(F \cap P, c)
  BY DEF Bump
<1> QED BY <1>1, <1>2, <1>3

\* Flips that no neighbour of c takes part in do not matter to c.
LEMMA FarAway ==
  ASSUME NEW P, NEW A, NEW c \in Cell, \A o \in Offset : getSurrounding[c][o] \notin A
  PROVE  AliveAround(Flipped(P, A), c) = AliveAround(P, c)
<1>1. Sights(Flipped(P, A), c) = Sights(P, c)
  BY DEF Sights, Flipped
<1> QED BY <1>1, SightsFinite

\* Bumping keeps integers.
LEMMA BumpType ==
  ASSUME NEW counts \in [Cell -> Int], NEW P \in SUBSET Cell, NEW F \in SUBSET Cell
  PROVE  Bump(counts, P, F) \in [Cell -> Int]
<1>1. \A c \in Cell : Touches(F \ P, c) \in Int /\ Touches(F \cap P, c) \in Int
  BY TouchesIsAround, SightsFinite
<1>2. \A c \in Cell : counts[c] + Touches(F \ P, c) - Touches(F \cap P, c) \in Int
  <2> TAKE c \in Cell
  <2>1. \A x, y, z \in Int : x + y - z \in Int
    OBVIOUS
  <2>2. counts[c] \in Int /\ Touches(F \ P, c) \in Int /\ Touches(F \cap P, c) \in Int
    BY <1>1
  <2> QED BY <2>1, <2>2
<1> QED BY <1>2 DEF Bump

\* A loaded image has exact counts.
LEMMA LoadedExact ==
  ASSUME NEW image \in SUBSET Cell
  PROVE  Loaded(image) \in Matrix /\ Exact(Loaded(image)) /\ Loaded(image).pixels = image
<1>1. NoCounts \in [Cell -> Int]
  BY DEF NoCounts
<1>2. \A c \in Cell : Bump(NoCounts, {}, image)[c] = AliveAround(image, c)
  <2> TAKE c \in Cell
  <2>1. /\ Flipped({}, {}) = {} /\ Flipped({}, {} \cup image) = image
        /\ {} \in SUBSET Cell /\ {} \cap image = {}
    BY DEF Flipped
  <2>2. NoCounts[c] = AliveAround({}, c)
    <3>1. Sights({}, c) = {}
      BY DEF Sights
    <3> QED BY <3>1, SightsFinite, FS_EmptySet DEF NoCounts
  <2> QED BY <2>1, <2>2, BumpMore
<1>3. Bump(NoCounts, {}, image) \in [Cell -> Int]
  BY <1>1, BumpType
<1> QED BY <1>2, <1>3 DEF Loaded, Matrix, Exact

------------------------------------------------------------------------------
(* One turn *)

\* The decisions made cell by cell from exact counts are the next generation.
LEMMA FlipsAreGeneration ==
  ASSUME NEW m \in Matrix, Exact(m)
  PROVE  Flipped(m.pixels, Flips(m, Cell)) = Generation(m.pixels)
<1>1. \A c \in Cell : c \in Flipped(m.pixels, Flips(m, Cell)) <=> c \in Generation(m.pixels)
  <2> TAKE c \in Cell
  <2>1. m.counts[c] = AliveAround(m.pixels, c)
    BY DEF Exact
  <2> QED BY <2>1 DEF Flipped, Flips, Generation
<1>2. m.pixels \subseteq Cell
  BY DEF Matrix
<1>3. Flips(m, Cell) \subseteq Cell /\ Generation(m.pixels) \subseteq Cell
  BY DEF Flips, Generation
<1> QED BY <1>1, <1>2, <1>3 DEF Flipped

\* A region that was checked holds the pixels of the next world, the others
\* what they held.
LEMMA WrittenIsNext ==
  ASSUME NEW m, NEW next, NEW region \in SUBSET Cell, NEW c \in Cell
  PROVE  c \in WrittenPixels(m, next, region)
           <=> IF c \in region THEN c \in Flipped(m.pixels, Flips(m, Cell))
               ELSE c \in next.pixels
BY DEF WrittenPixels, Flips, Flipped

------------------------------------------------------------------------------
(* Numbers                                                                   *)

\* Every set of natural numbers has a least member.
LEMMA Least ==
  ASSUME NEW T \in SUBSET Nat, T # {}
  PROVE  \E n \in T : \A m \in T : n <= m
<1> DEFINE R == {ss \in Nat \X Nat : ss[1] < ss[2]}
<1>1. IsWellFoundedOn(R, Nat)
  BY NatLessThanWellFounded DEF OpToRel
<1> HIDE DEF R
<1>2. PICK n \in T : \A m \in T : ~(<<m, n>> \in R)
  BY <1>1, WFMin
<1>3. ASSUME NEW m \in T PROVE n <= m
  <2>1. m \in Nat /\ n \in Nat /\ <<m, n>> \in Nat \X Nat
    BY <1>2
  <2>2. <<m, n>>[1] = m /\ <<m, n>>[2] = n
    OBVIOUS
  <2>3. ~(m < n)
    BY <1>2, <2>1, <2>2, Zenon DEF R
  <2> QED BY <2>1, <2>3
<1> QED BY <1>2, <1>3

\* Induction, for a set of natural numbers.
LEMMA AllNumbers ==
  ASSUME NEW S, 0 \in S, \A n \in Nat : n \in S => n + 1 \in S
  PROVE  Nat \subseteq S
<1> SUFFICES ASSUME Nat \ S # {} PROVE FALSE
  OBVIOUS
<1>1. PICK n \in Nat \ S : \A m \in Nat \ S : n <= m
  BY Least
<1>2. n # 0 /\ n - 1 \in Nat
  BY <1>1
<1>3. n - 1 \in S
  BY <1>1, <1>2
<1>4. (n - 1) + 1 = n
  BY <1>2
<1> QED BY <1>1, <1>2, <1>3, <1>4

\* A step can be taken as often as one wants, from any start.
Iterated(f, n, S, base, G) ==
  f \in [0..n -> S] /\ f[0] = base /\ \A k \in 1..n : f[k] = G[<<k, f[k - 1]>>]

LEMMA Iterates ==
  ASSUME NEW S, NEW base \in S, NEW G \in [Nat \X S -> S]
  PROVE  \A n \in Nat : \E f : Iterated(f, n, S, base, G)
<1> USE DEF Iterated
<1> DEFINE P(n, f) == Iterated(f, n, S, base, G)
           N == {n \in Nat : \E f : P(n, f)}
<1>1. 0 \in N
  <2>1. P(0, [k \in 0..0 |-> base])
    OBVIOUS
  <2> QED BY <2>1
<1>2. ASSUME NEW n \in Nat, n \in N PROVE n + 1 \in N
  <2>1. PICK f : P(n, f)
    BY <1>2
  <2> DEFINE g == [k \in 0..n + 1 |-> IF k = n + 1 THEN G[<<k, f[n]>>] ELSE f[k]]
  <2>2. n \in 0..n /\ f[n] \in S /\ G[<<n + 1, f[n]>>] \in S
    BY <2>1
  <2>3. g \in [0..n + 1 -> S]
    BY <2>1, <2>2
  <2>4. g[0] = base
    BY <2>1
  <2>5. \A k \in 1..n + 1 : g[k] = G[<<k, g[k - 1]>>]
    <3> TAKE k \in 1..n + 1
    <3>1. CASE k = n + 1
      <4>1. k - 1 = n /\ n \in 0..n + 1 /\ n # n + 1 /\ k \in 0..n + 1
        BY <3>1
      <4>2. g[n] = f[n] /\ g[k] = G[<<k, f[n]>>]
        BY <3>1, <4>1
      <4> QED BY <4>1, <4>2
    <3>2. CASE k # n + 1
      <4>1. k \in 1..n /\ k \in 0..n + 1 /\ k - 1 \in 0..n + 1 /\ k - 1 # n + 1
        BY <3>2
      <4>2. g[k] = f[k] /\ g[k - 1] = f[k - 1]
        BY <3>2, <4>1
      <4>3. f[k] = G[<<k, f[k - 1]>>]
        BY <2>1, <4>1
      <4> QED BY <4>2, <4>3
    <3> QED BY <3>1, <3>2
  <2> HIDE DEF g
  <2>6. P(n + 1, g)
    BY <2>3, <2>4, <2>5
  <2>7. n + 1 \in Nat
    OBVIOUS
  <2> QED BY <2>6, <2>7
<1> HIDE DEF N
<1>3. Nat \subseteq N
  BY <1>1, <1>2, AllNumbers
<1> QED BY <1>3 DEF N

------------------------------------------------------------------------------
(* Quotients and shares                                                      *)

\* What division by a positive number means.
LEMMA Division ==
  ASSUME NEW a \in Nat, NEW d \in Nat \ {0}
  PROVE  a \div d \in Nat /\ d * (a \div d) <= a /\ a < d * (a \div d) + d
OBVIOUS

LEMMA DivisionUnique ==
  ASSUME NEW a \in Nat, NEW d \in Nat \ {0}, NEW q \in Nat, d * q <= a, a < d * q + d
  PROVE  a \div d = q
OBVIOUS

\* A number divides another.
LEMMA Multiple ==
  ASSUME NEW a \in Nat, NEW d \in Nat \ {0}
  PROVE  a % d = 0 <=> a = d * (a \div d)
OBVIOUS

LEMMA SmallestDivides ==
  ASSUME NEW n \in Nat, n > 1
  PROVE  /\ SmallestFactor(n) \in 2..n /\ n % SmallestFactor(n) = 0
         /\ \A g \in 2..SmallestFactor(n) - 1 : n % g # 0
<1> DEFINE T == {f \in 2..n : n % f = 0}
<1>1. n \in T /\ T \in SUBSET Nat
  OBVIOUS
<1>2. PICK p \in T : \A m \in T : p <= m
  BY <1>1, Least
<1>3. ASSUME NEW g \in 2..p - 1, n % g = 0 PROVE FALSE
  <2>1. p \in 2..n
    BY <1>2
  <2>2. g \in T /\ ~(p <= g)
    BY <1>3, <2>1
  <2> QED BY <1>2, <2>2
<1>4. \E f \in 2..n : n % f = 0 /\ \A g \in 2..f - 1 : n % g # 0
  BY <1>2, <1>3
<1> QED BY <1>4 DEF SmallestFactor

\* One step of the decomposition.
Reduced(m) == IF m = 1 THEN 1 ELSE m \div SmallestFactor(m)

LEMMA ReducedDivides ==
  ASSUME NEW m \in Nat \ {0}
  PROVE  Reduced(m) \in Nat \ {0} /\ \E p \in Nat \ {0} : m = p * Reduced(m)
<1>1. CASE m = 1
  <2>1. Reduced(m) = 1 /\ m = 1 * 1
    BY <1>1 DEF Reduced
  <2> QED BY <2>1
<1>2. CASE m # 1
  <2> DEFINE p == SmallestFactor(m)
  <2>1. p \in Nat \ {0} /\ m % p = 0
    BY <1>2, SmallestDivides
  <2> HIDE DEF p
  <2>2. m = p * (m \div p) /\ m \div p \in Nat
    BY <2>1, Multiple, Division
  <2>3. m \div p # 0
    BY <2>1, <2>2
  <2>4. Reduced(m) = m \div p
    BY <1>2 DEF Reduced, p
  <2> QED BY <2>1, <2>2, <2>3, <2>4
<1> QED BY <1>1, <1>2

\* The quotients are what one gets by reducing n over and over.
Reductions(f, n) == f = [k \in 0..n |-> IF k = 0 THEN n ELSE Reduced(f[k - 1])]

LEMMA QuotientsUnfold ==
  ASSUME NEW n \in Nat \ {0}
  PROVE  \E f \in [0..n -> Nat \ {0}] :
           /\ f[0] = n /\ \A k \in 1..n : f[k] = Reduced(f[k - 1])
           /\ Quotients(n) = {f[k] : k \in 0..n}
<1> DEFINE S == Nat \ {0}
           G == [a \in Nat \X S |-> Reduced(a[2])]
<1>1. G \in [Nat \X S -> S]
  BY ReducedDivides
<1>2. \A k \in Nat, m \in S : G[<<k, m>>] = Reduced(m)
  OBVIOUS
<1> HIDE DEF G
<1>3. PICK f \in [0..n -> S] : f[0] = n /\ \A k \in 1..n : f[k] = G[<<k, f[k - 1]>>]
  <2>1. n \in S /\ n \in Nat
    OBVIOUS
  <2> HIDE DEF S
  <2>2. PICK f : Iterated(f, n, S, n, G)
    BY <1>1, <2>1, Iterates
  <2> QED BY <2>2 DEF Iterated
<1>4. \A k \in 1..n : f[k] = Reduced(f[k - 1])
  <2> TAKE k \in 1..n
  <2>1. f[k - 1] \in S /\ k \in Nat
    OBVIOUS
  <2> QED BY <1>2, <1>3, <2>1
<1>5. \A k \in 0..n : f[k] = IF k = 0 THEN n ELSE Reduced(f[k - 1])
  BY <1>3, <1>4
<1>6. Reductions(f, n)
  BY <1>5 DEF Reductions
<1> DEFINE g == CHOOSE g : Reductions(g, n)
<1>7. Reductions(g, n)
  BY <1>6
<1>8. Quotients(n) = {g[k] : k \in 0..n}
  BY DEF Quotients, Reductions, Reduced
<1> HIDE DEF g
<1>9. \A k \in 0..n : g[k] = IF k = 0 THEN n ELSE Reduced(g[k - 1])
  <2>1. g = [k \in 0..n |-> IF k = 0 THEN n ELSE Reduced(g[k - 1])]
    BY <1>7 DEF Reductions
  <2> QED BY <2>1, Zenon
<1>10. \A k \in 0..n : g[k] = f[k]
  <2> DEFINE N == {k \in Nat : k <= n => g[k] = f[k]}
  <2>1. 0 \in N
    BY <1>3, <1>9
  <2>2. ASSUME NEW k \in Nat, k \in N PROVE k + 1 \in N
    <3>1. CASE k + 1 <= n
      <4>1. k + 1 \in 0..n /\ k + 1 \in 1..n /\ k + 1 # 0 /\ (k + 1) - 1 = k /\ g[k] = f[k]
        BY <2>2, <3>1
      <4>2. g[k + 1] = Reduced(g[k]) /\ f[k + 1] = Reduced(f[k])
        BY <1>4, <1>9, <4>1
      <4> QED BY <4>1, <4>2
    <3> QED BY <3>1
  <2> HIDE DEF N
  <2>3. Nat \subseteq N
    BY <2>1, <2>2, AllNumbers
  <2> QED BY <2>3 DEF N
<1>11. {g[k] : k \in 0..n} = {f[k] : k \in 0..n}
  BY <1>10
<1> QED BY <1>3, <1>4, <1>8, <1>11

\* They are divisors of n; n is one of them, and so is n without its smallest factor.
LEMMA QuotientsDivide ==
  ASSUME NEW n \in Nat \ {0}
  PROVE  /\ \A m \in Quotients(n) : m \in Nat \ {0} /\ \E q \in Nat \ {0} : n = q * m
         /\ n \in Quotients(n) /\ Reduced(n) \in Quotients(n)
<1>1. PICK f \in [0..n -> Nat \ {0}] :
        /\ f[0] = n /\ \A k \in 1..n : f[k] = Reduced(f[k - 1])
        /\ Quotients(n) = {f[k] : k \in 0..n}
  BY QuotientsUnfold
<1> DEFINE N == {k \in Nat : k <= n => \E q \in Nat \ {0} : n = q * f[k]}
<1>2. 0 \in N
  <2>1. n = 1 * f[0]
    BY <1>1
  <2> QED BY <2>1
<1>3. ASSUME NEW k \in Nat, k \in N PROVE k + 1 \in N
  <2>1. CASE k + 1 <= n
    <3>1. PICK q \in Nat \ {0} : n = q * f[k]
      BY <1>3, <2>1
    <3>2. k \in 0..n /\ k + 1 \in 1..n /\ k + 1 \in 0..n /\ (k + 1) - 1 = k
      BY <2>1
    <3>3. f[k] \in Nat \ {0} /\ f[k + 1] \in Nat \ {0} /\ f[k + 1] = Reduced(f[k])
      BY <1>1, <3>2
    <3>4. PICK p \in Nat \ {0} : f[k] = p * f[k + 1]
      BY <3>3, ReducedDivides
    <3>5. n = (q * p) * f[k + 1] /\ q * p \in Nat \ {0}
      BY <3>1, <3>3, <3>4
    <3>6. k + 1 \in Nat
      OBVIOUS
    <3> QED BY <3>5, <3>6
  <2> QED BY <2>1
<1> HIDE DEF N
<1>4. Nat \subseteq N
  BY <1>2, <1>3, AllNumbers
<1>5. \A m \in Quotients(n) : m \in Nat \ {0} /\ \E q \in Nat \ {0} : n = q * m
  BY <1>1, <1>4 DEF N
<1>6. 0 \in 0..n /\ 1 \in 0..n /\ 1 \in 1..n /\ 1 - 1 = 0
  OBVIOUS
<1>7. f[0] \in Quotients(n) /\ f[1] \in Quotients(n) /\ f[1] = Reduced(n)
  BY <1>1, <1>6
<1> QED BY <1>1, <1>5, <1>7

\* A composite number is at least the square of its smallest factor.
LEMMA CompositeReduced ==
  ASSUME NEW n \in Nat, n > 1, ~IsPrime(n)
  PROVE  Reduced(n) < n /\ Reduced(n) * Reduced(n) >= n
<1> DEFINE p == SmallestFactor(n)
           q == n \div p
<1>1. p \in 2..n /\ n % p = 0 /\ \A g \in 2..p - 1 : n % g # 0
  BY SmallestDivides
<1>2. p \in Nat \ {0} /\ n = p * q /\ q \in Nat
  BY <1>1, Multiple, Division
<1>3. Reduced(n) = q
  BY DEF Reduced
<1>4. p # n
  <2>1. PICK f \in 2..n - 1 : n % f = 0
    BY DEF IsPrime
  <2> QED BY <1>1, <2>1
<1> HIDE DEF p, q
<1>5. q # 0 /\ q # 1
  BY <1>2, <1>4
<1>6. q < n
  BY <1>1, <1>2, <1>5
<1>7. n % q = 0
  BY <1>2, <1>5
<1>8. p <= q
  BY <1>1, <1>2, <1>5, <1>7
<1>9. q * q >= p * q
  BY <1>2, <1>8
<1> QED BY <1>2, <1>3, <1>6, <1>9

\* The rows and columns of blocks: together as many as there are blocks, and
\* more than one of each when their number is not prime.
LEMMA RowsAndColumns ==
  ASSUME NEW n \in Nat \ {0}
  PROVE  /\ Vertical(n) \in Nat \ {0} /\ Horizontal(n) \in Nat \ {0}
         /\ n = Horizontal(n) * Vertical(n)
         /\ n > 1 /\ ~IsPrime(n) => Horizontal(n) > 1 /\ Vertical(n) > 1
<1> DEFINE T == {m \in Quotients(n) : m * m >= n}
           v == Vertical(n)
           h == Horizontal(n)
<1>1. T \in SUBSET Nat /\ n \in T
  BY QuotientsDivide
<1>2. PICK m \in T : \A k \in T : m <= k
  BY <1>1, Least
<1>3. v \in T /\ \A k \in T : v <= k
  BY <1>2 DEF Vertical, Min
<1>4. PICK q \in Nat \ {0} : n = q * v
  BY <1>3, QuotientsDivide
<1>5. v \in Nat \ {0} /\ v * v >= n
  BY <1>3, QuotientsDivide
<1>6. h = n \div v
  BY DEF Horizontal
<1> HIDE DEF v, h
<1>7. n = v * q /\ n < v * q + v
  BY <1>4, <1>5
<1>8. h = q
  BY <1>5, <1>6, <1>7, DivisionUnique
<1>9. ASSUME n > 1, ~IsPrime(n) PROVE h > 1 /\ v > 1
  <2>1. Reduced(n) \in T /\ Reduced(n) < n
    BY <1>9, CompositeReduced, QuotientsDivide
  <2>2. v < n
    BY <1>1, <1>3, <1>5, <2>1
  <2>3. v # 1
    BY <1>5, <1>9
  <2>4. q # 1
    BY <1>4, <1>5, <2>2
  <2> QED BY <1>5, <1>8, <2>3, <2>4
<1> QED BY <1>4, <1>5, <1>8, <1>9 DEF v, h

\* At most one thread is left out, and four blocks or more are no prime number.
LEMMA ThreadsFloored ==
  ASSUME NEW threads \in Nat \ {0}
  PROVE  /\ FlooredThreads(threads) \in Nat \ {0}
         /\ FlooredThreads(threads) \in {threads, threads - 1}
         /\ FlooredThreads(threads) > 3 => ~IsPrime(FlooredThreads(threads))
<1>1. ASSUME NEW m \in Nat, m > 3, m % 2 = 0 PROVE ~IsPrime(m)
  <2>1. 2 \in 2..m - 1
    BY <1>1
  <2> QED BY <1>1, <2>1 DEF IsPrime
<1>2. CASE threads < 4
  BY <1>2 DEF FlooredThreads
<1>3. CASE ~(threads < 4)
  <2> DEFINE Fits(n) == ~IsPrime(n) /\ \A m \in n + 1..threads : IsPrime(m)
  <2>1. threads % 2 = 0 \/ ((threads - 1) % 2 = 0 /\ threads - 1 > 3)
    <3>1. threads % 2 = 0 \/ (threads - 1) % 2 = 0
      OBVIOUS
    <3>2. 4 % 2 = 0 /\ (threads = 4 \/ threads - 1 > 3)
      BY <1>3
    <3> QED BY <3>1, <3>2
  <2>2. ~IsPrime(threads) \/ (~IsPrime(threads - 1) /\ threads - 1 > 3)
    BY <1>1, <1>3, <2>1
  <2>3. \E n \in 2..threads : Fits(n)
    <3>1. CASE ~IsPrime(threads)
      <4>1. threads \in 2..threads /\ threads + 1..threads = {}
        BY <1>3
      <4> QED BY <3>1, <4>1
    <3>2. CASE IsPrime(threads)
      <4>1. threads - 1 \in 2..threads /\ \A m \in (threads - 1) + 1..threads : m = threads
        BY <1>3
      <4> QED BY <2>2, <3>2, <4>1
    <3> QED BY <3>1, <3>2
  <2> DEFINE n == CHOOSE n \in 2..threads : Fits(n)
  <2>4. FlooredThreads(threads) = n
    BY <1>3 DEF FlooredThreads
  <2>5. n \in 2..threads /\ Fits(n)
    BY <2>3, Zenon
  <2> HIDE DEF n
  <2>6. n \in {threads, threads - 1}
    <3>1. SUFFICES ASSUME n < threads - 1 PROVE FALSE
      BY <2>5
    <3>2. threads \in n + 1..threads /\ threads - 1 \in n + 1..threads
      BY <1>3, <2>5, <3>1
    <3> QED BY <2>2, <2>5, <3>2
  <2> QED BY <2>4, <2>5, <2>6
<1> QED BY <1>2, <1>3

\* The shares of a length are counted from zero to the whole,
LEMMA ShareEnds ==
  ASSUME NEW length \in Nat, NEW parts \in Nat \ {0}
  PROVE  Share(0, length, parts) = 0 /\ Share(parts, length, parts) = length
<1> DEFINE d == 2 * parts
<1>1. 2 * 0 * length + parts = parts /\ d \in Nat \ {0}
  OBVIOUS
<1>2. Share(0, length, parts) = 0
  <2>1. d * 0 <= parts /\ parts < d * 0 + d
    OBVIOUS
  <2>2. parts \div d = 0
    BY <1>1, <2>1, DivisionUnique
  <2> QED BY <1>1, <2>2 DEF Share
<1>3. 2 * parts * length + parts = d * length + parts
  OBVIOUS
<1>4. d * length \in Nat
  BY <1>1
<1>5. (d * length + parts) \div d = length
  BY <1>1, <1>4, DivisionUnique
<1> QED BY <1>2, <1>3, <1>5 DEF Share

\* each is its exact part of the length, rounded,
LEMMA ShareRounds ==
  ASSUME NEW x \in Nat, NEW length \in Nat, NEW parts \in Nat \ {0}
  PROVE  /\ Share(x, length, parts) \in Nat
         /\ 2 * parts * Share(x, length, parts) <= 2 * (x * length) + parts
         /\ 2 * (x * length) + parts < 2 * parts * Share(x, length, parts) + 2 * parts
<1>1. 2 * x * length + parts = 2 * (x * length) + parts /\ 2 * x * length + parts \in Nat
  OBVIOUS
<1>2. 2 * parts \in Nat \ {0}
  OBVIOUS
<1> QED BY <1>1, <1>2, Division DEF Share

\* so that a share is as wide as another, or one wider, and never shrinks;
LEMMA ShareSteps ==
  ASSUME NEW x \in Nat, NEW y \in Nat, NEW length \in Nat, NEW parts \in Nat \ {0}
  PROVE  /\ Share(x + 1, length, parts) >= Share(x, length, parts)
         /\ (Share(x + 1, length, parts) - Share(x, length, parts))
            - (Share(y + 1, length, parts) - Share(y, length, parts)) <= 1
         /\ length >= parts => Share(x + 1, length, parts) >= Share(x, length, parts) + 1
         /\ length >= 2 * parts => Share(x + 1, length, parts) >= Share(x, length, parts) + 2
<1> DEFINE a == Share(x, length, parts)
           b == Share(x + 1, length, parts)
           c == Share(y, length, parts)
           d == Share(y + 1, length, parts)
           p == x * length
           q == y * length
<1>1. (x + 1) * length = p + length /\ (y + 1) * length = q + length /\ p \in Nat /\ q \in Nat
  OBVIOUS
<1>2. /\ a \in Nat /\ 2 * parts * a <= 2 * p + parts /\ 2 * p + parts < 2 * parts * a + 2 * parts
      /\ c \in Nat /\ 2 * parts * c <= 2 * q + parts /\ 2 * q + parts < 2 * parts * c + 2 * parts
  BY ShareRounds
<1>3. /\ b \in Nat /\ 2 * parts * b <= 2 * (p + length) + parts
      /\ 2 * (p + length) + parts < 2 * parts * b + 2 * parts
      /\ d \in Nat /\ 2 * parts * d <= 2 * (q + length) + parts
      /\ 2 * (q + length) + parts < 2 * parts * d + 2 * parts
  <2>1. x + 1 \in Nat /\ y + 1 \in Nat
    OBVIOUS
  <2> HIDE DEF p, q
  <2> QED BY <1>1, <2>1, ShareRounds
<1> HIDE DEF a, b, c, d, p, q
<1>4. /\ 2 * parts * (b - a) = 2 * parts * b - 2 * parts * a
      /\ 2 * parts * (d - c) = 2 * parts * d - 2 * parts * c
      /\ 2 * parts * b \in Int /\ 2 * parts * a \in Int /\ 2 * parts * c \in Int /\ 2 * parts * d \in Int
      /\ 2 * parts * (b - a) \in Int /\ 2 * parts * (d - c) \in Int /\ 2 * parts \in Nat
  BY <1>2, <1>3
<1>5. /\ 2 * length - 2 * parts < 2 * parts * (b - a) /\ 2 * parts * (b - a) < 2 * length + 2 * parts
      /\ 2 * length - 2 * parts < 2 * parts * (d - c)
  BY <1>1, <1>2, <1>3, <1>4
<1>6. b >= a
  <2>1. SUFFICES ASSUME b - a <= -1 PROVE FALSE
    BY <1>2, <1>3
  <2>2. 2 * parts * (b - a) <= - (2 * parts)
    BY <1>2, <1>3, <2>1
  <2> DEFINE w == 2 * parts * (b - a)
             u == 2 * parts
  <2>3. w \in Int /\ u \in Nat /\ w <= -u /\ 2 * length - u < w
    BY <1>4, <1>5, <2>2
  <2> HIDE DEF w, u
  <2> QED BY <2>3
<1>7. (b - a) - (d - c) <= 1
  <2>1. SUFFICES ASSUME (b - a) - (d - c) >= 2 PROVE FALSE
    BY <1>2, <1>3
  <2>2. 2 * parts * ((b - a) - (d - c)) >= 4 * parts
    BY <1>2, <1>3, <2>1
  <2>3. 2 * parts * ((b - a) - (d - c)) = 2 * parts * (b - a) - 2 * parts * (d - c)
    BY <1>2, <1>3
  <2> QED BY <1>2, <1>3, <1>5, <2>2, <2>3
<1>8. ASSUME length >= 2 * parts PROVE b >= a + 2
  <2>1. SUFFICES ASSUME b - a <= 1 PROVE FALSE
    BY <1>2, <1>3
  <2>2. 2 * parts * (b - a) <= 2 * parts
    BY <1>2, <1>3, <2>1
  <2> DEFINE w == 2 * parts * (b - a)
             u == 2 * parts
  <2>3. w \in Int /\ u \in Nat /\ w <= u /\ 2 * length - u < w /\ length >= u
    BY <1>4, <1>5, <1>8, <2>2
  <2> HIDE DEF w, u
  <2> QED BY <2>3
<1>9. ASSUME length >= parts PROVE b >= a + 1
  <2>1. SUFFICES ASSUME b - a <= 0 PROVE FALSE
    BY <1>2, <1>3
  <2>2. 2 * parts * (b - a) <= 0
    BY <1>2, <1>3, <2>1
  <2> DEFINE w == 2 * parts * (b - a)
             u == 2 * parts
  <2>3. w \in Int /\ u \in Nat /\ w <= 0 /\ 2 * length - u < w /\ 2 * length >= u
    BY <1>4, <1>5, <1>9, <2>2
  <2> HIDE DEF w, u
  <2> QED BY <2>3
<1> QED BY <1>6, <1>7, <1>8, <1>9 DEF a, b, c, d

\* more parts are no less,
LEMMA ShareMonotone ==
  ASSUME NEW x \in Nat, NEW y \in Nat, x <= y, NEW length \in Nat, NEW parts \in Nat \ {0}
  PROVE  Share(x, length, parts) <= Share(y, length, parts)
<1> DEFINE N == {k \in Nat : Share(x, length, parts) <= Share(x + k, length, parts)}
<1>1. \A k \in Nat : x + k \in Nat /\ (x + k) + 1 = x + (k + 1)
  OBVIOUS
<1>2. \A k \in Nat : Share(x + k, length, parts) \in Nat
  BY <1>1, ShareRounds
<1>3. 0 \in N
  <2>1. x + 0 = x
    OBVIOUS
  <2> QED BY <1>2, <2>1
<1>4. ASSUME NEW k \in Nat, k \in N PROVE k + 1 \in N
  <2>1. Share(x + (k + 1), length, parts) >= Share(x + k, length, parts)
    BY <1>1, ShareSteps
  <2>2. k + 1 \in Nat /\ Share(x, length, parts) \in Nat
    BY ShareRounds
  <2> QED BY <1>2, <1>4, <2>1, <2>2
<1> HIDE DEF N
<1>5. y - x \in N /\ x + (y - x) = y
  BY <1>3, <1>4, AllNumbers
<1> QED BY <1>5 DEF N

\* and every place of the length is in one share.
LEMMA ShareCovers ==
  ASSUME NEW length \in Nat, NEW parts \in Nat \ {0}, NEW z \in 0..length - 1
  PROVE  /\ \E i \in 0..parts - 1 : Share(i, length, parts) <= z /\ z < Share(i + 1, length, parts)
         /\ \A i, j \in Nat : /\ Share(i, length, parts) <= z /\ z < Share(i + 1, length, parts)
                              /\ Share(j, length, parts) <= z /\ z < Share(j + 1, length, parts)
                              => i = j
<1> DEFINE T == {k \in Nat : z < Share(k, length, parts)}
<1>1. T \in SUBSET Nat /\ parts \in T
  BY ShareEnds
<1>2. PICK k \in T : \A m \in T : k <= m
  BY <1>1, Least
<1>3. k # 0
  BY <1>2, ShareEnds
<1>4. k \in 1..parts /\ k - 1 \in 0..parts - 1 /\ (k - 1) + 1 = k /\ k - 1 \in Nat
  BY <1>1, <1>2, <1>3
<1>5. k - 1 \notin T
  BY <1>2, <1>4
<1>6. Share(k - 1, length, parts) <= z /\ z < Share(k, length, parts)
  <2>1. Share(k - 1, length, parts) \in Nat
    BY <1>4, ShareRounds
  <2> QED BY <1>2, <1>4, <1>5, <2>1
<1>7. ASSUME NEW i \in Nat, NEW j \in Nat, i < j,
             z < Share(i + 1, length, parts), Share(j, length, parts) <= z
      PROVE  FALSE
  <2>1. i + 1 \in Nat /\ i + 1 <= j
    BY <1>7
  <2>2. Share(i + 1, length, parts) <= Share(j, length, parts)
    BY <2>1, ShareMonotone
  <2>3. Share(i + 1, length, parts) \in Nat /\ Share(j, length, parts) \in Nat
    BY <2>1, ShareRounds
  <2> QED BY <1>7, <2>2, <2>3
<1> QED BY <1>4, <1>6, <1>7

------------------------------------------------------------------------------
(* Blocks *)

\* Block k of h in a row.
Column(k, h) == (k - 1) % h
Row(k, h)    == (k - 1) \div h

\* The blocks are numbered row by row.
LEMMA BlockNumbers ==
  ASSUME NEW h \in Nat \ {0}, NEW v \in Nat \ {0}
  PROVE  /\ \A k \in 1..h * v : /\ Column(k, h) \in 0..h - 1 /\ Row(k, h) \in 0..v - 1
                                /\ k = h * Row(k, h) + Column(k, h) + 1
         /\ \A x \in 0..h - 1, y \in 0..v - 1 :
              \E k \in 1..h * v : Column(k, h) = x /\ Row(k, h) = y
<1>1. ASSUME NEW k \in 1..h * v
      PROVE  /\ Column(k, h) \in 0..h - 1 /\ Row(k, h) \in 0..v - 1
             /\ k = h * Row(k, h) + Column(k, h) + 1
  <2>1. h * v \in Nat /\ k - 1 \in Nat /\ k - 1 < h * v
    OBVIOUS
  <2> DEFINE a == k - 1
             y == a \div h
             x == a % h
  <2>2. y \in Nat /\ x \in 0..h - 1 /\ a = h * y + x
    BY <2>1
  <2>3. Column(k, h) = x /\ Row(k, h) = y
    BY DEF Column, Row
  <2> HIDE DEF x, y
  <2>4. h * y < h * v
    BY <2>1, <2>2
  <2>5. y < v
    <3>1. SUFFICES ASSUME y >= v PROVE FALSE
      BY <2>2
    <3>2. h * y >= h * v
      BY <2>2, <3>1
    <3>3. h * y \in Nat
      BY <2>2
    <3> QED BY <2>1, <2>4, <3>2, <3>3
  <2>6. h * y \in Nat
    BY <2>2
  <2>7. k = h * y + x + 1
    BY <2>2, <2>6
  <2> QED BY <2>2, <2>3, <2>5, <2>7
<1>2. ASSUME NEW x \in 0..h - 1, NEW y \in 0..v - 1
      PROVE  \E k \in 1..h * v : Column(k, h) = x /\ Row(k, h) = y
  <2> DEFINE a == h * y + x
             k == a + 1
  <2>1. a \in Nat
    OBVIOUS
  <2>2. a \div h = y /\ a % h = x
    <3>1. h * y <= a /\ a < h * y + h
      OBVIOUS
    <3>2. a \div h = y
      BY <2>1, <3>1, DivisionUnique
    <3>3. a % h \in 0..h - 1 /\ a = h * (a \div h) + (a % h)
      BY <2>1
    <3>4. h * y \in Nat
      OBVIOUS
    <3> QED BY <2>1, <3>2, <3>3, <3>4
  <2>3. h * (y + 1) <= h * v /\ h * (y + 1) = h * y + h /\ h * v \in Nat /\ h * y \in Nat
    OBVIOUS
  <2>4. k \in 1..h * v /\ k - 1 = a
    BY <2>1, <2>3
  <2> QED BY <2>2, <2>4 DEF Column, Row
<1> QED BY <1>1, <1>2

\* The blocks of a division, with the ends of its columns and rows.
LEMMA DivisionBlocks ==
  ASSUME NEW threads \in Nat \ {0}, NEW width \in Nat, NEW height \in Nat
  PROVE  LET n      == FlooredThreads(threads)
             h      == Horizontal(n)
             v      == Vertical(n)
             blocks == divideToBlocks(threads, width, height)
         IN  /\ n \in Nat \ {0} /\ h \in Nat \ {0} /\ v \in Nat \ {0} /\ n = h * v
             /\ DOMAIN blocks = 1..n /\ Len(blocks) = n
             /\ \A k \in 1..n :
                  blocks[k] = [start |-> <<Share(Column(k, h), width, h), Share(Row(k, h), height, v)>>,
                               end   |-> <<Share(Column(k, h) + 1, width, h),
                                           Share(Row(k, h) + 1, height, v)>>]
<1> DEFINE n      == FlooredThreads(threads)
           h      == Horizontal(n)
           v      == Vertical(n)
           blocks == divideToBlocks(threads, width, height)
<1>1. n \in Nat \ {0}
  BY ThreadsFloored
<1>2. h \in Nat \ {0} /\ v \in Nat \ {0} /\ n = h * v
  BY <1>1, RowsAndColumns
<1>3. blocks = [k \in 1..n |-> [start |-> <<Share(Column(k, h), width, h), Share(Row(k, h), height, v)>>,
                                end   |-> <<Share(Column(k, h) + 1, width, h),
                                            Share(Row(k, h) + 1, height, v)>>]]
  BY DEF divideToBlocks, Column, Row
<1> HIDE DEF n, h, v, blocks
<1>4. DOMAIN blocks = 1..n
  BY <1>3, Zenon
<1>5. Len(blocks) = n
  BY <1>1, <1>4
<1> QED BY <1>1, <1>2, <1>3, <1>4, <1>5 DEF n, h, v, blocks

InBlock(b, x, y) == x \in b.start[1]..b.end[1] - 1 /\ y \in b.start[2]..b.end[2] - 1

\* Every cell of the image is in one block, and in one only.
LEMMA DivisionTiles ==
  ASSUME NEW threads \in Nat \ {0}, NEW width \in Nat, NEW height \in Nat,
         NEW x \in 0..width - 1, NEW y \in 0..height - 1
  PROVE  LET blocks == divideToBlocks(threads, width, height)
         IN  /\ \E k \in DOMAIN blocks : InBlock(blocks[k], x, y)
             /\ \A j, k \in DOMAIN blocks :
                  InBlock(blocks[j], x, y) /\ InBlock(blocks[k], x, y) => j = k
<1> DEFINE n      == FlooredThreads(threads)
           h      == Horizontal(n)
           v      == Vertical(n)
           blocks == divideToBlocks(threads, width, height)
           In(k)  == /\ Share(Column(k, h), width, h) <= x /\ x < Share(Column(k, h) + 1, width, h)
                     /\ Share(Row(k, h), height, v) <= y /\ y < Share(Row(k, h) + 1, height, v)
<1>1. /\ n \in Nat \ {0} /\ h \in Nat \ {0} /\ v \in Nat \ {0} /\ n = h * v
      /\ DOMAIN blocks = 1..n
      /\ \A k \in 1..n :
           blocks[k] = [start |-> <<Share(Column(k, h), width, h), Share(Row(k, h), height, v)>>,
                        end   |-> <<Share(Column(k, h) + 1, width, h),
                                    Share(Row(k, h) + 1, height, v)>>]
  BY DivisionBlocks
<1> HIDE DEF n, h, v, blocks
<1>2. \A k \in 1..n : /\ Column(k, h) \in 0..h - 1 /\ Row(k, h) \in 0..v - 1
                      /\ k = h * Row(k, h) + Column(k, h) + 1
  BY <1>1, BlockNumbers
<1>3. \A k \in 1..n : InBlock(blocks[k], x, y) <=> In(k)
  <2> TAKE k \in 1..n
  <2>0. Column(k, h) \in 0..h - 1 /\ Row(k, h) \in 0..v - 1
    BY <1>2
  <2>1. /\ Column(k, h) \in Nat /\ Row(k, h) \in Nat /\ Column(k, h) + 1 \in Nat /\ Row(k, h) + 1 \in Nat
    BY <2>0
  <2>2. /\ Share(Column(k, h), width, h) \in Nat /\ Share(Row(k, h), height, v) \in Nat
        /\ Share(Column(k, h) + 1, width, h) \in Nat /\ Share(Row(k, h) + 1, height, v) \in Nat
    BY <1>1, <2>1, ShareRounds
  <2>3. /\ blocks[k].start[1] = Share(Column(k, h), width, h)
        /\ blocks[k].start[2] = Share(Row(k, h), height, v)
        /\ blocks[k].end[1] = Share(Column(k, h) + 1, width, h)
        /\ blocks[k].end[2] = Share(Row(k, h) + 1, height, v)
    BY <1>1
  <2> QED BY <2>2, <2>3 DEF InBlock
<1>4. PICK i \in 0..h - 1 : Share(i, width, h) <= x /\ x < Share(i + 1, width, h)
  BY <1>1, ShareCovers
<1>5. PICK j \in 0..v - 1 : Share(j, height, v) <= y /\ y < Share(j + 1, height, v)
  BY <1>1, ShareCovers
<1>6. PICK k \in 1..h * v : Column(k, h) = i /\ Row(k, h) = j
  <2>1. \A a \in 0..h - 1, b \in 0..v - 1 : \E k \in 1..h * v : Column(k, h) = a /\ Row(k, h) = b
    BY <1>1, BlockNumbers
  <2> QED BY <2>1
<1>7. k \in 1..n /\ In(k)
  BY <1>1, <1>4, <1>5, <1>6
<1>8. ASSUME NEW a \in 1..n, NEW b \in 1..n, In(a), In(b) PROVE a = b
  <2>1. /\ Column(a, h) \in Nat /\ Row(a, h) \in Nat /\ Column(b, h) \in Nat /\ Row(b, h) \in Nat
    BY <1>1, <1>2
  <2>2. Column(a, h) = Column(b, h) /\ Row(a, h) = Row(b, h)
    BY <1>1, <1>8, <2>1, ShareCovers
  <2> QED BY <1>2, <2>2
<1>9. /\ \E m \in DOMAIN blocks : InBlock(blocks[m], x, y)
      /\ \A a, b \in DOMAIN blocks : InBlock(blocks[a], x, y) /\ InBlock(blocks[b], x, y) => a = b
  <2> HIDE DEF In
  <2> QED BY <1>1, <1>3, <1>7, <1>8
<1> QED BY <1>9 DEF blocks

\* Widths differ by one at most, and heights; on an image that has two cells per
\* block in each direction every block is two by two at least, and on the image.
LEMMA DivisionEven ==
  ASSUME NEW threads \in Nat \ {0}, NEW width \in Nat, NEW height \in Nat
  PROVE  LET blocks == divideToBlocks(threads, width, height)
             W(k)   == blocks[k].end[1] - blocks[k].start[1]
             H(k)   == blocks[k].end[2] - blocks[k].start[2]
         IN  /\ \A j, k \in DOMAIN blocks : /\ W(j) \in Int /\ H(j) \in Int
                                            /\ W(j) - W(k) <= 1 /\ H(j) - H(k) <= 1
             /\ \A k \in DOMAIN blocks :
                  /\ blocks[k].start \in Nat \X Nat
                  /\ blocks[k].end \in (0..width) \X (0..height)
                  /\ blocks[k] = [start |-> blocks[k].start, end |-> blocks[k].end]
             /\ /\ width >= 2 * Horizontal(Len(blocks)) /\ height >= 2 * Vertical(Len(blocks))
                => \A k \in DOMAIN blocks : W(k) >= 2 /\ H(k) >= 2
<1> DEFINE n      == FlooredThreads(threads)
           h      == Horizontal(n)
           v      == Vertical(n)
           blocks == divideToBlocks(threads, width, height)
           W(k)   == blocks[k].end[1] - blocks[k].start[1]
           H(k)   == blocks[k].end[2] - blocks[k].start[2]
<1>1. /\ n \in Nat \ {0} /\ h \in Nat \ {0} /\ v \in Nat \ {0} /\ n = h * v
      /\ DOMAIN blocks = 1..n /\ Len(blocks) = n
      /\ \A k \in 1..n :
           blocks[k] = [start |-> <<Share(Column(k, h), width, h), Share(Row(k, h), height, v)>>,
                        end   |-> <<Share(Column(k, h) + 1, width, h),
                                    Share(Row(k, h) + 1, height, v)>>]
  BY DivisionBlocks
<1>2. Horizontal(Len(blocks)) = h /\ Vertical(Len(blocks)) = v
  BY <1>1
<1> HIDE DEF n, h, v, blocks
<1>3. \A k \in 1..n : /\ Column(k, h) \in 0..h - 1 /\ Row(k, h) \in 0..v - 1
  BY <1>1, BlockNumbers
<1>4. \A k \in 1..n : /\ Column(k, h) \in Nat /\ Row(k, h) \in Nat
                      /\ Column(k, h) + 1 \in Nat /\ Row(k, h) + 1 \in Nat
                      /\ Column(k, h) + 1 <= h /\ Row(k, h) + 1 <= v
  <2>1. /\ \A z \in 0..h - 1 : z \in Nat /\ z + 1 \in Nat /\ z + 1 <= h
        /\ \A z \in 0..v - 1 : z \in Nat /\ z + 1 \in Nat /\ z + 1 <= v
    BY <1>1
  <2> QED BY <1>3, <2>1
<1>5. \A k \in 1..n :
        /\ Share(Column(k, h), width, h) \in Nat /\ Share(Row(k, h), height, v) \in Nat
        /\ Share(Column(k, h) + 1, width, h) \in Nat /\ Share(Row(k, h) + 1, height, v) \in Nat
  BY <1>1, <1>4, ShareRounds
<1>6. \A k \in 1..n : /\ blocks[k].start = <<Share(Column(k, h), width, h), Share(Row(k, h), height, v)>>
                      /\ blocks[k].end = <<Share(Column(k, h) + 1, width, h),
                                           Share(Row(k, h) + 1, height, v)>>
                      /\ blocks[k] = [start |-> blocks[k].start, end |-> blocks[k].end]
  BY <1>1
<1>7. \A k \in 1..n : /\ W(k) = Share(Column(k, h) + 1, width, h) - Share(Column(k, h), width, h)
                      /\ H(k) = Share(Row(k, h) + 1, height, v) - Share(Row(k, h), height, v)
                      /\ W(k) \in Int /\ H(k) \in Int
  <2> TAKE k \in 1..n
  <2>1. /\ blocks[k].start[1] = Share(Column(k, h), width, h)
        /\ blocks[k].start[2] = Share(Row(k, h), height, v)
        /\ blocks[k].end[1] = Share(Column(k, h) + 1, width, h)
        /\ blocks[k].end[2] = Share(Row(k, h) + 1, height, v)
    BY <1>1
  <2> QED BY <1>5, <2>1
<1>8. ASSUME NEW k \in 1..n
      PROVE  /\ Share(Column(k, h) + 1, width, h) <= width /\ Share(Row(k, h) + 1, height, v) <= height
  <2>1. /\ Column(k, h) + 1 \in Nat /\ Row(k, h) + 1 \in Nat /\ h \in Nat /\ v \in Nat
        /\ Column(k, h) + 1 <= h /\ Row(k, h) + 1 <= v
    BY <1>1, <1>4
  <2>2. /\ Share(Column(k, h) + 1, width, h) <= Share(h, width, h)
        /\ Share(Row(k, h) + 1, height, v) <= Share(v, height, v)
    BY <1>1, <2>1, ShareMonotone
  <2>3. Share(h, width, h) = width /\ Share(v, height, v) = height
    BY <1>1, ShareEnds
  <2> QED BY <2>2, <2>3
<1>9. ASSUME NEW j \in 1..n, NEW k \in 1..n PROVE W(j) - W(k) <= 1 /\ H(j) - H(k) <= 1
  <2>1. /\ (Share(Column(j, h) + 1, width, h) - Share(Column(j, h), width, h))
           - (Share(Column(k, h) + 1, width, h) - Share(Column(k, h), width, h)) <= 1
        /\ (Share(Row(j, h) + 1, height, v) - Share(Row(j, h), height, v))
           - (Share(Row(k, h) + 1, height, v) - Share(Row(k, h), height, v)) <= 1
    BY <1>1, <1>4, ShareSteps
  <2> HIDE DEF W, H
  <2> QED BY <1>7, <2>1
<1>10. ASSUME width >= 2 * h, height >= 2 * v, NEW k \in 1..n PROVE W(k) >= 2 /\ H(k) >= 2
  <2>1. /\ Share(Column(k, h) + 1, width, h) >= Share(Column(k, h), width, h) + 2
        /\ Share(Row(k, h) + 1, height, v) >= Share(Row(k, h), height, v) + 2
    BY <1>1, <1>4, <1>10, ShareSteps
  <2> HIDE DEF W, H
  <2> QED BY <1>5, <1>7, <2>1
<1>11. \A k \in 1..n : blocks[k].start \in Nat \X Nat /\ blocks[k].end \in (0..width) \X (0..height)
  <2> TAKE k \in 1..n
  <2>1. /\ Share(Column(k, h), width, h) \in Nat /\ Share(Row(k, h), height, v) \in Nat
        /\ Share(Column(k, h) + 1, width, h) \in 0..width /\ Share(Row(k, h) + 1, height, v) \in 0..height
    BY <1>5, <1>8
  <2> QED BY <1>1, <2>1
<1> HIDE DEF W, H
<1>12. /\ \A j, k \in DOMAIN blocks : /\ W(j) \in Int /\ H(j) \in Int
                                      /\ W(j) - W(k) <= 1 /\ H(j) - H(k) <= 1
       /\ \A k \in DOMAIN blocks :
            /\ blocks[k].start \in Nat \X Nat
            /\ blocks[k].end \in (0..width) \X (0..height)
            /\ blocks[k] = [start |-> blocks[k].start, end |-> blocks[k].end]
       /\ /\ width >= 2 * Horizontal(Len(blocks)) /\ height >= 2 * Vertical(Len(blocks))
          => \A k \in DOMAIN blocks : W(k) >= 2 /\ H(k) >= 2
  BY <1>1, <1>2, <1>6, <1>7, <1>9, <1>10, <1>11
<1> QED BY <1>12 DEF blocks, W, H

\* n blocks of two by two cells or more that tile the grid.
Tiled(blocks, n) ==
  /\ blocks \in [1..n -> Block]
  /\ \A i \in 1..n : /\ blocks[i].start[1] + 2 <= blocks[i].end[1]
                     /\ blocks[i].start[2] + 2 <= blocks[i].end[2]
  /\ \A c \in Cell : \E i \in 1..n : c \in CellsOf(blocks[i])
  /\ \A i, j \in 1..n : i # j => CellsOf(blocks[i]) \cap CellsOf(blocks[j]) = {}

\* The division of a grid that has two cells per block in each direction serves
\* the workers: it covers the grid, no cell is in two blocks, and every block has
\* the four edges that the loops of the workers go along (distributor.go:221-240).
THEOREM DivisionServes ==
  \A threads \in Nat \ {0} :
    LET blocks == divideToBlocks(threads, Width, Height)
        n      == Len(blocks)
    IN  Width >= 2 * Horizontal(n) /\ Height >= 2 * Vertical(n) => Tiled(blocks, n)
<1> SUFFICES ASSUME NEW threads \in Nat \ {0},
                    Width >= 2 * Horizontal(Len(divideToBlocks(threads, Width, Height))),
                    Height >= 2 * Vertical(Len(divideToBlocks(threads, Width, Height)))
             PROVE  Tiled(divideToBlocks(threads, Width, Height),
                          Len(divideToBlocks(threads, Width, Height)))
  OBVIOUS
<1> DEFINE blocks == divideToBlocks(threads, Width, Height)
           n      == Len(blocks)
<1>1. Width \in Nat \ {0} /\ Height \in Nat \ {0}
  BY SizeAssumption
<1>2. n \in Nat \ {0} /\ DOMAIN blocks = 1..n
  BY <1>1, DivisionBlocks
<1>3. \A k \in DOMAIN blocks : /\ blocks[k].start \in Nat \X Nat
                               /\ blocks[k].end \in (0..Width) \X (0..Height)
                               /\ blocks[k] = [start |-> blocks[k].start, end |-> blocks[k].end]
  BY <1>1, DivisionEven, ZenonT(60)
<1>4. \A k \in DOMAIN blocks : /\ blocks[k].end[1] - blocks[k].start[1] >= 2
                               /\ blocks[k].end[2] - blocks[k].start[2] >= 2
  BY <1>1, DivisionEven
<1>5. ASSUME NEW x \in 0..Width - 1, NEW y \in 0..Height - 1
      PROVE  /\ \E k \in DOMAIN blocks : InBlock(blocks[k], x, y)
             /\ \A j, k \in DOMAIN blocks :
                  InBlock(blocks[j], x, y) /\ InBlock(blocks[k], x, y) => j = k
  BY <1>1, DivisionTiles
<1> HIDE DEF blocks, n
<1>6. ASSUME NEW i \in 1..n
      PROVE  /\ blocks[i] \in Block
             /\ blocks[i].start[1] + 2 <= blocks[i].end[1] /\ blocks[i].start[2] + 2 <= blocks[i].end[2]
  <2> DEFINE s == blocks[i].start
             e == blocks[i].end
  <2>1. s \in Nat \X Nat /\ e \in (0..Width) \X (0..Height) /\ blocks[i] = [start |-> s, end |-> e]
    BY <1>2, <1>3
  <2>2. e[1] - s[1] >= 2 /\ e[2] - s[2] >= 2
    BY <1>2, <1>4
  <2> HIDE DEF s, e
  <2>3. s[1] + 2 <= e[1] /\ s[2] + 2 <= e[2] /\ s \in Cell /\ e \in (1..Width) \X (1..Height)
    BY <1>1, <2>1, <2>2, SMTT(30) DEF Cell
  <2>4. blocks[i].start = s /\ blocks[i].end = e
    BY <2>1
  <2> QED BY <2>1, <2>3, <2>4 DEF Block
<1>7. \A c \in Cell, i \in 1..n : c \in CellsOf(blocks[i]) <=> InBlock(blocks[i], c[1], c[2])
  BY DEF CellsOf, Rect, InBlock
<1>8. \A c \in Cell : c[1] \in 0..Width - 1 /\ c[2] \in 0..Height - 1
  BY DEF Cell
<1>9. \A c \in Cell : \E i \in 1..n : c \in CellsOf(blocks[i])
  BY <1>2, <1>5, <1>7, <1>8
<1>10. ASSUME NEW i \in 1..n, NEW j \in 1..n, i # j, NEW c \in CellsOf(blocks[i]) \cap CellsOf(blocks[j])
       PROVE  FALSE
  <2>1. c \in Cell
    BY DEF CellsOf, Rect
  <2> QED BY <1>2, <1>5, <1>7, <1>8, <1>10, <2>1, SMTT(30)
<1>11. blocks \in [1..n -> Block]
  <2>1. blocks = [k \in 1..n |-> blocks[k]]
    <3>1. blocks = [k \in DOMAIN blocks |-> blocks[k]]
      BY DEF blocks, divideToBlocks
    <3> QED BY <1>2, <3>1
  <2> QED BY <1>6, <2>1
<1>12. Tiled(blocks, n)
  BY <1>6, <1>9, <1>10, <1>11 DEF Tiled
<1> QED BY <1>12 DEF blocks, n

------------------------------------------------------------------------------
(* Dealing *)

\* A sequence that grows by the sequences of s, one after the other, is what they
\* are together.
Grown(f, s, n) == Len(s) = n /\ f[1] = s[1] /\ \A i \in 2..n : f[i] = f[i - 1] \o s[i]

LEMMA Flattened ==
  ASSUME NEW s, NEW n \in Nat \ {0}, NEW f, Grown(f, s, n)
  PROVE  FlattenSeq(s) = f[n]
<1> USE DEF Grown
<1> DEFINE Grows(g) == g = [i \in 1..n |-> IF i = 1 THEN s[i] ELSE g[i - 1] \o s[i]]
           e == [i \in 1..n |-> f[i]]
           g == CHOOSE g : Grows(g)
<1>1. FlattenSeq(s) = g[n]
  BY DEF FlattenSeq
<1>2. Grows(e)
  <2>1. ASSUME NEW i \in 1..n PROVE e[i] = IF i = 1 THEN s[i] ELSE e[i - 1] \o s[i]
    <3>1. CASE i = 1
      BY <3>1
    <3>2. CASE i # 1
      <4>1. i \in 2..n /\ i - 1 \in 1..n
        BY <3>2
      <4>2. e[i] = f[i] /\ e[i - 1] = f[i - 1]
        BY <4>1
      <4> QED BY <3>2, <4>1, <4>2
    <3> QED BY <3>1, <3>2
  <2>2. e = [i \in 1..n |-> e[i]]
    OBVIOUS
  <2> HIDE DEF e
  <2> QED BY <2>1, <2>2
<1>3. Grows(g)
  BY <1>2
<1> HIDE DEF e, g
<1>4. \A i \in 1..n : g[i] = IF i = 1 THEN s[i] ELSE g[i - 1] \o s[i]
  BY <1>3, Zenon
<1> DEFINE N == {i \in Nat : i + 1 <= n => g[i + 1] = f[i + 1]}
<1>5. 0 \in N
  <2>1. 0 + 1 = 1 /\ 1 \in 1..n
    OBVIOUS
  <2> QED BY <1>4, <2>1
<1>6. ASSUME NEW i \in Nat, i \in N PROVE i + 1 \in N
  <2>1. CASE (i + 1) + 1 <= n
    <3>1. /\ i + 1 <= n /\ (i + 1) + 1 \in 1..n /\ (i + 1) + 1 \in 2..n /\ (i + 1) + 1 # 1
          /\ ((i + 1) + 1) - 1 = i + 1 /\ i + 1 \in Nat
      BY <2>1
    <3>2. g[i + 1] = f[i + 1]
      BY <1>6, <3>1
    <3>3. g[(i + 1) + 1] = g[i + 1] \o s[(i + 1) + 1]
      BY <1>4, <3>1
    <3>4. f[(i + 1) + 1] = f[i + 1] \o s[(i + 1) + 1]
      BY <3>1
    <3> QED BY <3>1, <3>2, <3>3, <3>4
  <2>2. CASE ~((i + 1) + 1 <= n)
    <3>1. i + 1 \in Nat
      OBVIOUS
    <3> QED BY <2>2, <3>1
  <2> QED BY <2>1, <2>2
<1> HIDE DEF N
<1>7. n - 1 \in N /\ (n - 1) + 1 = n
  BY <1>5, <1>6, AllNumbers
<1>8. g[n] = f[n]
  BY <1>7 DEF N
<1> QED BY <1>1, <1>8

\* How many blocks the first i of all nodes were dealt.
Dealt(i, nodes, blocks) == IF Len(blocks) <= nodes THEN i ELSE Share(i, Len(blocks), nodes)

\* How many nodes are dealt any.
Takers(nodes, blocks) == IF Len(blocks) <= nodes THEN Len(blocks) ELSE nodes

\* Each node gets the blocks from where the one before it stopped.
LEMMA PartsOf ==
  ASSUME NEW T, NEW blocks \in Seq(T), Len(blocks) > 0, NEW nodes \in Nat \ {0}
  PROVE  LET parts == partitioning(nodes, blocks)
             m     == Takers(nodes, blocks)
             D(i)  == Dealt(i, nodes, blocks)
         IN  /\ m \in Nat \ {0} /\ m <= nodes /\ Len(parts) = m /\ DOMAIN parts = 1..m
             /\ D(0) = 0 /\ D(m) = Len(blocks) /\ \A i \in 0..m : D(i) \in 0..Len(blocks)
             /\ \A i \in 1..m : /\ parts[i] = SubSeq(blocks, D(i - 1) + 1, D(i))
                                /\ parts[i] \in Seq(T)
                                /\ Len(parts[i]) = D(i) - D(i - 1) /\ Len(parts[i]) > 0
             /\ \A i, j \in 1..m : Len(parts[i]) - Len(parts[j]) <= 1
<1> DEFINE parts == partitioning(nodes, blocks)
           m     == Takers(nodes, blocks)
           D(i)  == Dealt(i, nodes, blocks)
           L     == Len(blocks)
<1> USE DEF Takers
<1>1. L \in Nat \ {0} /\ m \in Nat \ {0} /\ m <= nodes
  OBVIOUS
<1>2. Len(parts) = m /\ DOMAIN parts = 1..m
  <2>1. CASE L <= nodes
    <3>1. parts = [i \in 1..m |-> <<blocks[i]>>]
      BY <2>1 DEF partitioning
    <3> HIDE DEF parts, m
    <3> QED BY <1>1, <3>1
  <2>2. CASE ~(L <= nodes)
    <3>1. parts = [i \in 1..m |-> SubSeq(blocks, Share(i - 1, L, nodes) + 1, Share(i, L, nodes))]
      BY <2>2 DEF partitioning
    <3> HIDE DEF parts, m
    <3> QED BY <1>1, <3>1
  <2> QED BY <2>1, <2>2
<1>3. D(0) = 0 /\ D(m) = L
  <2>1. CASE L <= nodes
    BY <2>1 DEF Dealt
  <2>2. CASE ~(L <= nodes)
    BY <1>1, <2>2, ShareEnds DEF Dealt
  <2> QED BY <2>1, <2>2
<1>4. \A i \in 0..m : D(i) \in 0..L
  <2>1. CASE L <= nodes
    BY <1>1, <2>1 DEF Dealt
  <2>2. CASE ~(L <= nodes)
    <3> TAKE i \in 0..m
    <3>1. i \in Nat /\ i <= nodes /\ L \in Nat
      BY <1>1, <2>2
    <3>2. Share(i, L, nodes) \in Nat /\ Share(i, L, nodes) <= Share(nodes, L, nodes)
      BY <3>1, ShareRounds, ShareMonotone
    <3>3. Share(nodes, L, nodes) = L
      BY <3>1, ShareEnds
    <3> QED BY <2>2, <3>2, <3>3 DEF Dealt
  <2> QED BY <2>1, <2>2
<1>5. ASSUME NEW i \in 1..m PROVE D(i) > D(i - 1) /\ i - 1 \in 0..m /\ i \in 0..m
  <2>1. i - 1 \in 0..m /\ i \in 0..m /\ i - 1 \in Nat /\ (i - 1) + 1 = i
    BY <1>1
  <2>2. CASE L <= nodes
    BY <2>1, <2>2 DEF Dealt
  <2>3. CASE ~(L <= nodes)
    <3>1. L >= nodes /\ L \in Nat
      BY <1>1, <2>3
    <3>2. Share((i - 1) + 1, L, nodes) >= Share(i - 1, L, nodes) + 1
      BY <2>1, <3>1, ShareSteps
    <3>3. D(i) \in 0..L /\ D(i - 1) \in 0..L
      BY <1>4, <2>1
    <3>4. D(i) = Share(i, L, nodes) /\ D(i - 1) = Share(i - 1, L, nodes)
      BY <2>3 DEF Dealt
    <3> QED BY <1>1, <2>1, <3>2, <3>3, <3>4
  <2> QED BY <2>1, <2>2, <2>3
<1>6. ASSUME NEW i \in 1..m PROVE parts[i] = SubSeq(blocks, D(i - 1) + 1, D(i))
  <2>1. CASE L <= nodes
    <3>1. parts[i] = <<blocks[i]>> /\ m = L
      BY <2>1 DEF partitioning
    <3>2. D(i - 1) + 1 = i /\ D(i) = i
      BY <1>1, <2>1 DEF Dealt
    <3>3. SubSeq(blocks, i, i) = <<blocks[i]>>
      <4>1. i \in 1..Len(blocks)
        BY <3>1
      <4>2. /\ SubSeq(blocks, i, i) \in Seq(T) /\ Len(SubSeq(blocks, i, i)) = 1
            /\ SubSeq(blocks, i, i)[1] = blocks[i]
        <5>1. i \in Int /\ \A k \in i..i : blocks[k] \in T
          BY <4>1
        <5>2. i - i + 1 = 1 /\ i + 1 - 1 = i /\ 1 \in 1..1 /\ i <= i
          BY <5>1
        <5> QED BY <5>1, <5>2, SubSeqProperties
      <4>3. <<blocks[i]>> \in Seq(T) /\ Len(<<blocks[i]>>) = 1 /\ <<blocks[i]>>[1] = blocks[i]
        BY <4>1
      <4>4. \A k \in 1..1 : SubSeq(blocks, i, i)[k] = <<blocks[i]>>[k]
        BY <4>2, <4>3
      <4> HIDE DEF L, D, m, parts
      <4> QED BY <4>2, <4>3, <4>4, SeqEqual
    <3> QED BY <3>1, <3>2, <3>3
  <2>2. CASE ~(L <= nodes)
    BY <2>2 DEF partitioning, Dealt
  <2> QED BY <2>1, <2>2
<1>7. ASSUME NEW i \in 1..m
      PROVE  /\ parts[i] \in Seq(T) /\ Len(parts[i]) = D(i) - D(i - 1) /\ Len(parts[i]) > 0
  <2>1. D(i) \in 0..L /\ D(i - 1) \in 0..L /\ D(i) > D(i - 1)
    BY <1>4, <1>5
  <2> DEFINE a == D(i - 1) + 1
             b == D(i)
  <2>2. a \in Int /\ b \in Int /\ a <= b /\ b - a + 1 = D(i) - D(i - 1) /\ a >= 1 /\ b <= L
    BY <1>1, <2>1
  <2> HIDE DEF a, b, D, parts
  <2>3. \A k \in a..b : blocks[k] \in T
    BY <2>2
  <2>4. SubSeq(blocks, a, b) \in Seq(T) /\ Len(SubSeq(blocks, a, b)) = b - a + 1
    BY <2>2, <2>3, SubSeqProperties
  <2>5. parts[i] = SubSeq(blocks, a, b)
    BY <1>6 DEF a, b
  <2> QED BY <2>1, <2>2, <2>4, <2>5
<1>8. ASSUME NEW i \in 1..m, NEW j \in 1..m PROVE Len(parts[i]) - Len(parts[j]) <= 1
  <2>1. /\ i - 1 \in Nat /\ (i - 1) + 1 = i /\ j - 1 \in Nat /\ (j - 1) + 1 = j
    BY <1>1
  <2>2. /\ Len(parts[i]) = D(i) - D(i - 1) /\ Len(parts[j]) = D(j) - D(j - 1)
    BY <1>7
  <2>3. (D(i) - D(i - 1)) - (D(j) - D(j - 1)) <= 1
    <3>1. CASE L <= nodes
      BY <3>1 DEF Dealt
    <3>2. CASE ~(L <= nodes)
      <4>1. (Share((i - 1) + 1, L, nodes) - Share(i - 1, L, nodes))
            - (Share((j - 1) + 1, L, nodes) - Share(j - 1, L, nodes)) <= 1
        BY <1>1, <2>1, ShareSteps
      <4> QED BY <2>1, <3>2, <4>1 DEF Dealt
    <3> QED BY <3>1, <3>2
  <2> QED BY <2>2, <2>3
<1> HIDE DEF D, parts, m
<1>9. /\ m \in Nat \ {0} /\ m <= nodes /\ Len(parts) = m /\ DOMAIN parts = 1..m
      /\ D(0) = 0 /\ D(m) = Len(blocks) /\ \A i \in 0..m : D(i) \in 0..Len(blocks)
      /\ \A i \in 1..m : /\ parts[i] = SubSeq(blocks, D(i - 1) + 1, D(i))
                         /\ parts[i] \in Seq(T)
                         /\ Len(parts[i]) = D(i) - D(i - 1) /\ Len(parts[i]) > 0
      /\ \A i, j \in 1..m : Len(parts[i]) - Len(parts[j]) <= 1
  BY <1>1, <1>2, <1>3, <1>4, <1>6, <1>7, <1>8
<1> QED BY <1>9 DEF D, parts, m

\* Every block is dealt to one node, and to one only.
LEMMA DealtToOne ==
  ASSUME NEW T, NEW blocks \in Seq(T), Len(blocks) > 0, NEW nodes \in Nat \ {0}
  PROVE  LET parts == partitioning(nodes, blocks)
             m     == Takers(nodes, blocks)
             D(i)  == Dealt(i, nodes, blocks)
         IN  /\ \A i \in 1..m : \A b \in ToSet(parts[i]) :
                  \E k \in 1..Len(blocks) : b = blocks[k] /\ D(i - 1) < k /\ k <= D(i)
             /\ \A k \in 1..Len(blocks) : \E i \in 1..m : blocks[k] \in ToSet(parts[i])
             /\ \A i, j \in 1..m : i < j => D(i) <= D(j - 1)
<1> DEFINE parts == partitioning(nodes, blocks)
           m     == Takers(nodes, blocks)
           D(i)  == Dealt(i, nodes, blocks)
           L     == Len(blocks)
<1>1. /\ m \in Nat \ {0} /\ m <= nodes /\ L \in Nat \ {0}
      /\ D(0) = 0 /\ D(m) = L /\ \A i \in 0..m : D(i) \in 0..L
      /\ \A i \in 1..m : /\ parts[i] = SubSeq(blocks, D(i - 1) + 1, D(i))
                         /\ parts[i] \in Seq(T)
                         /\ Len(parts[i]) = D(i) - D(i - 1) /\ Len(parts[i]) > 0
  BY PartsOf
<1>2. ASSUME NEW i \in 1..m, NEW j \in 1..m, i < j PROVE D(i) <= D(j - 1)
  <2>1. i \in Nat /\ j - 1 \in Nat /\ i <= j - 1
    BY <1>1, <1>2
  <2>2. CASE L <= nodes
    BY <2>1, <2>2 DEF Dealt
  <2>3. CASE ~(L <= nodes)
    <3>1. Share(i, L, nodes) <= Share(j - 1, L, nodes)
      BY <1>1, <2>1, ShareMonotone
    <3> QED BY <2>3, <3>1 DEF Dealt
  <2> QED BY <2>2, <2>3
<1> HIDE DEF parts, m, D, L
<1>3. ASSUME NEW i \in 1..m
      PROVE  /\ D(i) \in 0..L /\ D(i - 1) \in 0..L /\ D(i) - D(i - 1) > 0
             /\ DOMAIN parts[i] = 1..D(i) - D(i - 1)
             /\ \A n \in 1..D(i) - D(i - 1) : parts[i][n] = blocks[D(i - 1) + n]
  <2>1. i \in 0..m /\ i - 1 \in 0..m
    BY <1>1
  <2> DEFINE a == D(i - 1)
             b == D(i)
  <2>2. a \in 0..L /\ b \in 0..L /\ b - a > 0 /\ parts[i] = SubSeq(blocks, a + 1, b)
        /\ parts[i] \in Seq(T) /\ Len(parts[i]) = b - a
    BY <1>1, <2>1
  <2> HIDE DEF a, b
  <2>3. DOMAIN parts[i] = 1..b - a
    <3>1. \A s \in Seq(T) : DOMAIN s = 1..Len(s)
      OBVIOUS
    <3> QED BY <2>2, <3>1
  <2>4. \A n \in 1..b - a : parts[i][n] = blocks[a + n]
    <3>1. a + 1 \in Int /\ b \in Int /\ b - (a + 1) + 1 = b - a
      BY <1>1, <2>2
    <3>2. \A n \in a + 1..b : blocks[n] \in T
      <4>1. \A n \in a + 1..b : n \in 1..L
        BY <1>1, <2>2
      <4>2. \A n \in 1..L : blocks[n] \in T
        BY DEF L
      <4> QED BY <4>1, <4>2
    <3>3. \A n \in 1..b - a : parts[i][n] = blocks[(a + 1) + n - 1]
      BY <2>2, <3>1, <3>2, SubSeqProperties
    <3>4. \A n \in 1..b - a : (a + 1) + n - 1 = a + n
      BY <1>1, <2>2
    <3> QED BY <3>3, <3>4
  <2> QED BY <2>2, <2>3, <2>4 DEF a, b
<1>4. ASSUME NEW i \in 1..m, NEW e \in ToSet(parts[i])
      PROVE  \E k \in 1..L : e = blocks[k] /\ D(i - 1) < k /\ k <= D(i)
  <2>1. PICK n \in 1..D(i) - D(i - 1) : e = parts[i][n]
    BY <1>3 DEF ToSet
  <2>2. D(i) \in 0..L /\ D(i - 1) \in 0..L /\ D(i) - D(i - 1) > 0 /\ e = blocks[D(i - 1) + n]
    BY <1>3, <2>1
  <2>3. D(i - 1) + n \in 1..L /\ D(i - 1) < D(i - 1) + n /\ D(i - 1) + n <= D(i)
    <3>1. \A a, b, l, k \in Int : 0 <= a /\ b <= l /\ 1 <= k /\ k <= b - a
             => a + k \in 1..l /\ a < a + k /\ a + k <= b
      OBVIOUS
    <3>2. D(i - 1) \in Int /\ D(i) \in Int /\ L \in Int /\ n \in Int
      BY <1>1, <2>1, <2>2
    <3>3. 0 <= D(i - 1) /\ D(i) <= L /\ 1 <= n /\ n <= D(i) - D(i - 1)
      BY <1>1, <2>1, <2>2
    <3> QED BY <3>1, <3>2, <3>3
  <2> QED BY <2>2, <2>3
<1>5. ASSUME NEW k \in 1..L PROVE \E i \in 1..m : blocks[k] \in ToSet(parts[i])
  <2> DEFINE A == {i \in 0..m : k <= D(i)}
  <2>1. A \in SUBSET Nat /\ m \in A
    BY <1>1
  <2>2. PICK i \in A : \A j \in A : i <= j
    BY <2>1, Least
  <2>3. i \in 0..m /\ k <= D(i) /\ i # 0
    BY <1>1, <2>2
  <2>4. i \in 1..m /\ i - 1 \in 0..m /\ ~(i <= i - 1)
    BY <1>1, <2>3
  <2>5. ~(k <= D(i - 1))
    BY <2>2, <2>4
  <2>6. D(i) \in 0..L /\ D(i - 1) \in 0..L
    BY <1>3, <2>4
  <2> DEFINE n == k - D(i - 1)
  <2>7. n \in 1..D(i) - D(i - 1) /\ D(i - 1) + n = k
    <3>1. \A a, b, l \in Int : a < l /\ l <= b => l - a \in 1..b - a /\ a + (l - a) = l
      OBVIOUS
    <3>2. D(i - 1) \in Int /\ D(i) \in Int /\ k \in Int
      BY <1>1, <2>6
    <3>3. D(i - 1) < k /\ k <= D(i)
      BY <2>3, <2>5, <3>2
    <3> QED BY <3>1, <3>2, <3>3
  <2> HIDE DEF n, A
  <2>8. parts[i][n] = blocks[k] /\ n \in DOMAIN parts[i]
    BY <1>3, <2>4, <2>7
  <2> QED BY <2>4, <2>8 DEF ToSet
<1>6. /\ \A i \in 1..m : \A b \in ToSet(parts[i]) :
           \E k \in 1..Len(blocks) : b = blocks[k] /\ D(i - 1) < k /\ k <= D(i)
      /\ \A k \in 1..Len(blocks) : \E i \in 1..m : blocks[k] \in ToSet(parts[i])
      /\ \A i, j \in 1..m : i < j => D(i) <= D(j - 1)
  BY <1>2, <1>4, <1>5 DEF L
<1> QED BY <1>6 DEF parts, m, D

\* One after the other they are all the blocks.
LEMMA DealtTogether ==
  ASSUME NEW T, NEW blocks \in Seq(T), Len(blocks) > 0, NEW nodes \in Nat \ {0}
  PROVE  FlattenSeq(partitioning(nodes, blocks)) = blocks
<1> DEFINE parts == partitioning(nodes, blocks)
           m     == Takers(nodes, blocks)
           D(i)  == Dealt(i, nodes, blocks)
           f     == [i \in 1..m |-> SubSeq(blocks, 1, D(i))]
           L     == Len(blocks)
<1>1. /\ m \in Nat \ {0} /\ Len(parts) = m
      /\ D(0) = 0 /\ D(m) = L /\ \A i \in 0..m : D(i) \in 0..L
      /\ \A i \in 1..m : /\ parts[i] = SubSeq(blocks, D(i - 1) + 1, D(i))
                         /\ Len(parts[i]) = D(i) - D(i - 1) /\ Len(parts[i]) > 0
  BY PartsOf
<1> HIDE DEF parts, m, D
<1>2. f[1] = parts[1]
  <2>1. 1 \in 1..m /\ 1 - 1 = 0 /\ 0 + 1 = 1
    BY <1>1
  <2> QED BY <1>1, <2>1
<1>3. ASSUME NEW i \in 2..m PROVE f[i] = f[i - 1] \o parts[i]
  <2>1. i \in 1..m /\ i - 1 \in 1..m /\ i - 1 \in 0..m /\ i \in 0..m
    BY <1>1
  <2>2. D(i - 1) \in 0..L /\ D(i) \in 0..L /\ D(i) - D(i - 1) > 0
    BY <1>1, <2>1
  <2> DEFINE k == D(i - 1)
             n == D(i)
  <2>3. k \in 0..L /\ n \in k..L /\ L \in Nat
    BY <2>2
  <2> HIDE DEF k, n
  <2>4. 1 \in 1..L + 1 /\ k \in 1 - 1..L
    BY <2>3
  <2>5. SubSeq(blocks, 1, k) \o SubSeq(blocks, k + 1, n) = SubSeq(blocks, 1, n)
    BY <2>3, <2>4, ConcatAdjacentSubSeq
  <2>6. f[i - 1] = SubSeq(blocks, 1, k) /\ f[i] = SubSeq(blocks, 1, n)
    BY <2>1 DEF k, n
  <2>7. parts[i] = SubSeq(blocks, k + 1, n)
    BY <1>1, <2>1 DEF k, n
  <2> QED BY <2>5, <2>6, <2>7
<1>4. f[m] = blocks
  <2>1. m \in 1..m
    BY <1>1
  <2>2. SubSeq(blocks, 1, Len(blocks)) = blocks
    BY SubSeqFull
  <2> QED BY <1>1, <2>1, <2>2
<1> HIDE DEF f
<1>5. FlattenSeq(parts) = f[m]
  <2>1. Grown(f, parts, m)
    BY <1>1, <1>2, <1>3 DEF Grown
  <2> QED BY <1>1, <2>1, Flattened
<1> QED BY <1>4, <1>5 DEF parts
==============================================================================
