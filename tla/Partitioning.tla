----------------------------- MODULE Partitioning -----------------------------
(***************************************************************************)
(* How a grid is cut into blocks (divideToBlocks, the same in              *)
(* parallel/gol/distributor.go and distributed/broker/partitioning.go) and *)
(* how the blocks are dealt to the worker nodes (partitioning).            *)
(*                                                                         *)
(* The code divides in floating point and rounds; here the quotient is     *)
(* exact and halves round up, as math.Round does for positive numbers.     *)
(***************************************************************************)
EXTENDS Integers, Sequences, SequencesExt

IsPrime(n) == n > 1 /\ \A f \in 2..n - 1 : n % f # 0

\* "Floor to nearest composite number", for four threads and more.
FlooredThreads(threads) ==
  IF threads < 4 THEN threads
  ELSE CHOOSE n \in 2..threads : /\ ~IsPrime(n)
                                 /\ \A m \in n + 1..threads : IsPrime(m)

SmallestFactor(n) == CHOOSE f \in 2..n : n % f = 0 /\ \A g \in 2..f - 1 : n % g # 0

\* What the decomposition of n passes: n, and what is left after each factor.
Quotients(n) ==
  LET number[k \in 0..n] ==
        IF k = 0 THEN n
        ELSE LET m == number[k - 1] IN IF m = 1 THEN 1 ELSE m \div SmallestFactor(m)
  IN  {number[k] : k \in 0..n}

\* Rows of blocks: the product of the largest factors, one after the other, until
\* it reaches the square root of the number of blocks.  The products of the largest
\* factors are the quotients, for the decomposition finds the smallest ones first.
Vertical(n) == Min({m \in Quotients(n) : m * m >= n})

Horizontal(n) == n \div Vertical(n)

\* Mutant: the length is divided first, without its fraction.
ShareTruncated(x, length, parts) == x * (length \div parts)

\* math.Round(x * (length / parts))
Share(x, length, parts) == (2 * x * length + parts) \div (2 * parts)

divideToBlocks(threads, width, height) ==
  LET n == FlooredThreads(threads)
      v == Vertical(n)
      h == Horizontal(n)
  IN  [k \in 1..n |->
         LET x == (k - 1) % h
             y == (k - 1) \div h
         IN  [start |-> <<Share(x, width, h), Share(y, height, v)>>,
              end   |-> <<Share(x + 1, width, h), Share(y + 1, height, v)>>]]

\* Mutant: the shares overlap by one block.
partitioningTwice(nodes, blocks) ==
  IF Len(blocks) <= nodes
  THEN [i \in 1..Len(blocks) |-> <<blocks[i]>>]
  ELSE [i \in 1..nodes |-> SubSeq(blocks, IF i = 1 THEN 1 ELSE Share(i - 1, Len(blocks), nodes),
                                          Share(i, Len(blocks), nodes))]

\* Consecutive blocks for each node; a node too many gets nothing.  Which node
\* takes which share depends on the iteration order of a Go map and is left out.
partitioning(nodes, blocks) ==
  IF Len(blocks) <= nodes
  THEN [i \in 1..Len(blocks) |-> <<blocks[i]>>]
  ELSE [i \in 1..nodes |-> SubSeq(blocks, Share(i - 1, Len(blocks), nodes) + 1,
                                          Share(i, Len(blocks), nodes))]
==============================================================================
