------------------------------ MODULE SurveyProofs ------------------------------
(***************************************************************************)
(* Every question of the survey is answered rightly, whatever its bounds   *)
(* are.  For the division and the dealing these are the lemmas of          *)
(* GridProofs, applied to the answers.  For what travels between the       *)
(* programs the argument is in three parts:                                *)
(*   - the bytes of a coordinate are its digits to the base of 256, and    *)
(*     getSizeOfInt gives as many of them as it takes;                     *)
(*   - portions of equal length, laid one behind the other, are found      *)
(*     again by their places: so a list is read cell by cell;              *)
(*   - the places of the cells, row by row, are the numbers below Area,    *)
(*     and a place is its byte and its bit: so the bits are the image.     *)
(* What the broker makes of the cells, each once and in any order, is the  *)
(* loaded image, with the numbers of living neighbours.                    *)
(***************************************************************************)
EXTENDS MCPartitioning, GridProofs

\* What a question is about.
LEMMA AsksAbout ==
  /\ AskDivision => question.about = "division"
  /\ AskList => question.about = "list"
  /\ AskImage => question.about = "image"
BY DEF AskDivision, AskList, AskImage

------------------------------------------------------------------------------
(* The division and the dealing *)

Cut   == divideToBlocks(question.threads, question.width, question.height)
Deals == partitioning(question.nodes, Cut)

\* A question about a division has a thread and a node at least, and the answer is
\* what the two functions return.
DivisionInv ==
  question.about = "division" =>
    /\ question.threads \in Nat \ {0} /\ question.nodes \in Nat \ {0}
    /\ question.width \in Nat /\ question.height \in Nat
    /\ answer # Unanswered => answer = [blocks |-> Cut, assignments |-> Deals]

\* A division that is asked about is answered so.
LEMMA AnswersDivision == SurveySpec => []DivisionInv
<1>1. SurveyInit => DivisionInv
  <2> SUFFICES ASSUME SurveyInit, question.about = "division" PROVE DivisionInv
    BY DEF DivisionInv
  <2>1. answer = Unanswered
    BY DEF SurveyInit
  <2>2. AskDivision
    BY AsksAbout DEF SurveyInit
  <2>3. PICK threads \in 1..MaxThreads, width \in 2..MaxSize, height \in 2..MaxSize, nodes \in 1..MaxNodes :
          question = [about |-> "division", threads |-> threads, width |-> width,
                      height |-> height, nodes |-> nodes]
    BY <2>2 DEF AskDivision
  <2>4. threads \in Nat \ {0} /\ width \in Nat /\ height \in Nat /\ nodes \in Nat \ {0}
    BY BoundsAssumption
  <2> QED BY <2>1, <2>3, <2>4 DEF DivisionInv
<1>2. DivisionInv /\ [Answer]_surveyVars => DivisionInv'
  <2> SUFFICES ASSUME DivisionInv, [Answer]_surveyVars, question'.about = "division"
               PROVE  DivisionInv'
    BY DEF DivisionInv
  <2>1. question' = question
    BY DEF Answer, surveyVars
  <2>2. CASE UNCHANGED surveyVars
    BY <2>2 DEF DivisionInv, surveyVars, Cut, Deals, Unanswered
  <2>3. CASE Answer
    <3>1. AnswerDivision
      BY <2>1, <2>3 DEF Answer, AnswerList, AnswerImage
    <3>2. answer' = [blocks |-> Cut, assignments |-> Deals]
      BY <3>1 DEF AnswerDivision, Cut, Deals
    <3>3. Cut' = Cut /\ Deals' = Deals
      BY <2>1 DEF Cut, Deals
    <3> QED BY <2>1, <3>2, <3>3 DEF DivisionInv
  <2> QED BY <2>2, <2>3
<1> QED BY <1>1, <1>2, PTL DEF SurveySpec

\* The blocks of a division cover every cell once, their widths and their heights
\* differ by one at most, none is thinner than two cells where the image has two per
\* block, and they leave one thread out at most and form no strip: for every number
\* of threads and every size (divideToBlocks, partitioning.go:6-77).
THEOREM DivisionServesWorkers == SurveySpec => []DivisionCorrect
<1>1. DivisionInv => DivisionCorrect
  <2> SUFFICES ASSUME DivisionInv, Answered("division") PROVE DivisionCorrect
    BY DEF DivisionCorrect, Tiles, EvenBlocks, ThreadsUsed
  <2> DEFINE threads == question.threads
             width   == question.width
             height  == question.height
             n       == FlooredThreads(threads)
  <2>1. /\ threads \in Nat \ {0} /\ width \in Nat /\ height \in Nat
        /\ blocks = divideToBlocks(threads, width, height)
    BY DEF DivisionInv, Answered, blocks, Cut
  <2> HIDE DEF threads, width, height
  <2>2. n \in Nat \ {0} /\ DOMAIN blocks = 1..n /\ Len(blocks) = n
    BY <2>1, DivisionBlocks
  <2>3. ASSUME NEW x \in 0..width - 1, NEW y \in 0..height - 1
        PROVE  \E k \in DOMAIN blocks :
                 /\ Covers(blocks[k], x, y)
                 /\ \A j \in DOMAIN blocks \ {k} : ~Covers(blocks[j], x, y)
    <3>1. /\ \E k \in DOMAIN blocks : InBlock(blocks[k], x, y)
          /\ \A j, k \in DOMAIN blocks : InBlock(blocks[j], x, y) /\ InBlock(blocks[k], x, y) => j = k
      BY <2>1, DivisionTiles
    <3>2. \A k \in DOMAIN blocks : Covers(blocks[k], x, y) <=> InBlock(blocks[k], x, y)
      BY DEF Covers, InBlock
    <3> QED BY <3>1, <3>2
  <2>4. Tiles
    BY <2>3 DEF Tiles, width, height
  <2>5. /\ \A j, k \in DOMAIN blocks :
             /\ (blocks[j].end[1] - blocks[j].start[1]) - (blocks[k].end[1] - blocks[k].start[1]) <= 1
             /\ (blocks[j].end[2] - blocks[j].start[2]) - (blocks[k].end[2] - blocks[k].start[2]) <= 1
        /\ width >= 2 * Horizontal(Len(blocks)) /\ height >= 2 * Vertical(Len(blocks))
           => \A k \in DOMAIN blocks : /\ blocks[k].end[1] - blocks[k].start[1] >= 2
                                       /\ blocks[k].end[2] - blocks[k].start[2] >= 2
    <3> DEFINE cut == divideToBlocks(threads, width, height)
    <3>1. /\ \A j, k \in DOMAIN cut :
               /\ (cut[j].end[1] - cut[j].start[1]) - (cut[k].end[1] - cut[k].start[1]) <= 1
               /\ (cut[j].end[2] - cut[j].start[2]) - (cut[k].end[2] - cut[k].start[2]) <= 1
          /\ width >= 2 * Horizontal(Len(cut)) /\ height >= 2 * Vertical(Len(cut))
             => \A k \in DOMAIN cut : /\ cut[k].end[1] - cut[k].start[1] >= 2
                                      /\ cut[k].end[2] - cut[k].start[2] >= 2
      <4>1. threads \in Nat \ {0} /\ width \in Nat /\ height \in Nat
        BY <2>1
      <4> QED BY <4>1, DivisionEven
    <3>2. blocks = cut
      BY <2>1
    <3> HIDE DEF cut
    <3> QED BY <3>1, <3>2
  <2>6. /\ \A a \in Widths : \E k \in DOMAIN blocks : a = blocks[k].end[1] - blocks[k].start[1]
        /\ \A a \in Heights : \E k \in DOMAIN blocks : a = blocks[k].end[2] - blocks[k].start[2]
    BY DEF Widths, Heights, ToSet
  <2>7. EvenBlocks
    <3>1. \A a, b \in Widths : a - b <= 1
      BY <2>5, <2>6
    <3>2. \A a, b \in Heights : a - b <= 1
      BY <2>5, <2>6
    <3>3. width >= 2 * Horizontal(Len(blocks)) /\ height >= 2 * Vertical(Len(blocks))
          => \A a \in Widths \cup Heights : a >= 2
      BY <2>5, <2>6
    <3> QED BY <3>1, <3>2, <3>3 DEF EvenBlocks, width, height
  <2>8. ThreadsUsed
    <3>1. n \in {threads, threads - 1} /\ (n > 3 => ~IsPrime(n))
      BY <2>1, ThreadsFloored
    <3>2. n > 1 /\ ~IsPrime(n) => Horizontal(n) > 1 /\ Vertical(n) > 1
      BY <2>2, RowsAndColumns
    <3> HIDE DEF n
    <3>3. n > 3 => Horizontal(n) > 1 /\ Vertical(n) > 1
      BY <2>2, <3>1, <3>2
    <3> QED BY <2>2, <3>1, <3>3 DEF ThreadsUsed, threads
  <2> QED BY <2>4, <2>7, <2>8 DEF DivisionCorrect
<1> QED BY <1>1, AnswersDivision, PTL

\* Dealing loses no block and repeats none, leaves no node without one that is
\* called, and gives none two more than another, for every number of blocks and
\* nodes (partitioning, partitioning.go:80-112).
THEOREM BlocksDealtOnce == SurveySpec => []DealtOnce
<1>1. DivisionInv => DealtOnce
  <2> SUFFICES ASSUME DivisionInv, Answered("division") PROVE DealtOnce
    BY DEF DealtOnce
  <2> DEFINE threads == question.threads
             width   == question.width
             height  == question.height
             nodes   == question.nodes
             cut     == blocks
             deals   == answer.assignments
             m       == Takers(nodes, cut)
  <2>1. /\ threads \in Nat \ {0} /\ width \in Nat /\ height \in Nat /\ nodes \in Nat \ {0}
        /\ cut = divideToBlocks(threads, width, height)
        /\ deals = partitioning(nodes, cut)
    BY DEF DivisionInv, Answered, blocks, Cut, Deals
  <2> HIDE DEF threads, width, height, nodes, deals, cut
  <2>2. cut \in Seq(Range(cut)) /\ Len(cut) > 0
    <3>1. /\ FlooredThreads(threads) \in Nat \ {0}
          /\ DOMAIN cut = 1..FlooredThreads(threads)
          /\ Len(cut) = FlooredThreads(threads)
      BY <2>1, DivisionBlocks
    <3>2. cut = [k \in DOMAIN cut |-> cut[k]]
      BY <2>1 DEF divideToBlocks
    <3>3. \A k \in DOMAIN cut : cut[k] \in Range(cut)
      BY DEF Range
    <3> QED BY <3>1, <3>2, <3>3
  <2>3. FlattenSeq(deals) = cut
    BY <2>1, <2>2, DealtTogether
  <2>4. /\ m \in Nat \ {0} /\ m <= nodes /\ Len(deals) = m /\ DOMAIN deals = 1..m
        /\ \A i \in 1..m : Len(deals[i]) > 0
        /\ \A i, j \in 1..m : Len(deals[i]) - Len(deals[j]) <= 1
    <3> DEFINE parts == partitioning(nodes, cut)
    <3>1. /\ m \in Nat \ {0} /\ m <= nodes /\ Len(parts) = m /\ DOMAIN parts = 1..m
          /\ \A i \in 1..m : Len(parts[i]) > 0
          /\ \A i, j \in 1..m : Len(parts[i]) - Len(parts[j]) <= 1
      <4> DEFINE T == Range(cut)
      <4>1. nodes \in Nat \ {0}
        BY <2>1
      <4>2. cut \in Seq(T) /\ Len(cut) > 0
        BY <2>2
      <4> HIDE DEF T
      <4> QED BY <4>1, <4>2, PartsOf
    <3> HIDE DEF parts, m
    <3>2. deals = parts
      BY <2>1 DEF parts
    <3> QED BY <3>1, <3>2
  <2>5. \A p \in ToSet(deals) : \E i \in 1..m : p = deals[i]
    BY <2>4 DEF ToSet
  <2>6. \A p, q \in ToSet(deals) : Len(p) > 0 /\ Len(p) - Len(q) <= 1
    BY <2>4, <2>5
  <2> QED BY <2>3, <2>4, <2>6 DEF DealtOnce, nodes, deals, cut
<1> QED BY <1>1, AnswersDivision, PTL

------------------------------------------------------------------------------
(* The bytes of a coordinate *)

\* The fewest bytes that hold both sides, without their first bit.
LEMMA SizeFits ==
  ASSUME NEW width \in Nat, NEW height \in Nat, width <= Largest[4], height <= Largest[4]
  PROVE  /\ getSizeOfInt(width, height) \in 1..4
         /\ width <= Largest[getSizeOfInt(width, height)]
         /\ height <= Largest[getSizeOfInt(width, height)]
<1> DEFINE Fits(size) == /\ width <= Largest[size] /\ height <= Largest[size]
                         /\ \A s \in 1..size - 1 : Largest[s] < width \/ Largest[s] < height
<1>1. Largest[1] = 127 /\ Largest[2] = 32767 /\ Largest[3] = 8388607 /\ Largest[4] = 2147483647
  BY SMT DEF Largest
<1>2. \E size \in 1..4 : Fits(size)
  <2>1. CASE width <= 127 /\ height <= 127
    <3>1. Fits(1)
      BY <1>1, <2>1, SMT
    <3> QED BY <3>1, SMT
  <2>2. CASE ~(width <= 127 /\ height <= 127) /\ width <= 32767 /\ height <= 32767
    <3>1. \A s \in 1..2 - 1 : s = 1
      BY SMT
    <3>2. Fits(2)
      BY <1>1, <2>2, <3>1, SMT
    <3> QED BY <3>2, SMT
  <2>3. CASE ~(width <= 32767 /\ height <= 32767) /\ width <= 8388607 /\ height <= 8388607
    <3>1. \A s \in 1..3 - 1 : s = 1 \/ s = 2
      BY SMT
    <3>2. Fits(3)
      BY <1>1, <2>3, <3>1, SMT
    <3> QED BY <3>2, SMT
  <2>4. CASE ~(width <= 8388607 /\ height <= 8388607)
    <3>1. \A s \in 1..4 - 1 : s = 1 \/ s = 2 \/ s = 3
      BY SMT
    <3>2. Fits(4)
      BY <1>1, <2>4, <3>1, SMT
    <3> QED BY <3>2, SMT
  <2> QED BY <2>1, <2>2, <2>3, <2>4, SMT
<1>3. getSizeOfInt(width, height) = CHOOSE size \in 1..4 : Fits(size)
  BY SMT DEF getSizeOfInt
<1> HIDE DEF Fits
<1>4. getSizeOfInt(width, height) \in 1..4 /\ Fits(getSizeOfInt(width, height))
  BY <1>2, <1>3, SMT
<1> QED BY <1>4, SMT DEF Fits

\* The digits of a number to the base of 256.
LEMMA Digits ==
  ASSUME NEW n \in Nat
  PROVE  LET a == n \div 256
             b == n \div 65536
             c == n \div 16777216
         IN  /\ n <= 127 => n % 256 = n
             /\ n <= 32767 => (n % 256) + (a % 256) * 256 = n
             /\ n <= 8388607 => (n % 256) + (a % 256) * 256 + (b % 256) * 65536 = n
             /\ n <= 2147483647
                  => (n % 256) + (a % 256) * 256 + (b % 256) * 65536 + (c % 256) * 16777216 = n
<1> DEFINE a == n \div 256
           b == n \div 65536
           c == n \div 16777216
<1>1. a \in Nat /\ n = 256 * a + (n % 256) /\ n % 256 \in 0..255
  BY SMT
<1>2. b \in Nat /\ 65536 * b <= n /\ n < 65536 * b + 65536
  BY SMT
<1>3. c \in Nat /\ 16777216 * c <= n /\ n < 16777216 * c + 16777216
  BY SMT
<1>4. a \div 256 = b /\ a = 256 * b + (a % 256) /\ a % 256 \in 0..255
  BY SMT
<1>5. b \div 256 = c /\ b = 256 * c + (b % 256) /\ b % 256 \in 0..255
  BY SMT
<1>6. n <= 127 => n % 256 = n
  BY SMT
<1>7. n <= 32767 => a % 256 = a
  BY <1>1, SMT
<1>8. n <= 8388607 => b % 256 = b
  BY <1>2, SMT
<1>9. n <= 2147483647 => c % 256 = c
  BY <1>3, SMT
<1> HIDE DEF a, b, c
<1>10. n <= 32767 => (n % 256) + (a % 256) * 256 = n
  BY <1>1, <1>7, SMT
<1>11. n <= 8388607 => (n % 256) + (a % 256) * 256 + (b % 256) * 65536 = n
  BY <1>1, <1>4, <1>8, SMT
<1>12. n <= 2147483647
         => (n % 256) + (a % 256) * 256 + (b % 256) * 65536 + (c % 256) * 16777216 = n
  BY <1>1, <1>4, <1>5, <1>9, SMT
<1> QED BY <1>6, <1>10, <1>11, <1>12, SMT DEF a, b, c

\* f adds up the bytes b, one after the other.
Sums(f, b, n) == f = [j \in 0..n |-> IF j = 0 THEN 0 ELSE f[j - 1] + b[j] * Weight[j]]

\* The bytes of a number.
Written(b, n, size) == Len(b) = size /\ \A j \in 1..size : b[j] = Bytes(n, size)[j]

\* A coordinate is read as it was written.
LEMMA NumberOfBytes ==
  ASSUME NEW size \in 1..4, NEW n \in Nat, n <= Largest[size],
         NEW b, Written(b, n, size)
  PROVE  Number(b) = n
<1> DEFINE d(j) == (n \div Weight[j]) % 256
           f == [j \in 0..size |-> IF j = 0 THEN 0 ELSE
                                   IF j = 1 THEN d(1) * 1 ELSE
                                   IF j = 2 THEN d(1) * 1 + d(2) * 256 ELSE
                                   IF j = 3 THEN d(1) * 1 + d(2) * 256 + d(3) * 65536
                                   ELSE d(1) * 1 + d(2) * 256 + d(3) * 65536 + d(4) * 16777216]
           g == CHOOSE g : Sums(g, b, size)
<1>1. /\ Largest[1] = 127 /\ Largest[2] = 32767 /\ Largest[3] = 8388607 /\ Largest[4] = 2147483647
      /\ Weight[1] = 1 /\ Weight[2] = 256 /\ Weight[3] = 65536 /\ Weight[4] = 16777216
  BY SMT DEF Largest, Weight
<1>2. \A j \in 1..size : b[j] = d(j)
  <2>1. \A j \in 1..size : Bytes(n, size)[j] = d(j)
    BY SMT DEF Bytes
  <2>2. \A j \in 1..size : b[j] = Bytes(n, size)[j]
    BY DEF Written
  <2> QED BY <2>1, <2>2, SMT
<1>3. /\ d(1) = n % 256 /\ d(2) = (n \div 256) % 256
      /\ d(3) = (n \div 65536) % 256 /\ d(4) = (n \div 16777216) % 256
  <2>1. n \div 1 = n
    BY SMT
  <2> QED BY <1>1, <2>1
<1>4. d(1) \in Nat /\ d(2) \in Nat /\ d(3) \in Nat /\ d(4) \in Nat
  <2>1. /\ n % 256 \in Nat /\ (n \div 256) % 256 \in Nat
        /\ (n \div 65536) % 256 \in Nat /\ (n \div 16777216) % 256 \in Nat
    BY SMT
  <2> QED BY <1>3, <2>1
<1> HIDE DEF d
<1>5. \A j \in 0..size : f[j] = IF j = 0 THEN 0 ELSE f[j - 1] + b[j] * Weight[j]
  <2> TAKE j \in 0..size
  <2>1. CASE j = 0
    BY <2>1, SMT
  <2>2. CASE j = 1
    <3>1. f[1] = d(1) * 1 /\ f[0] = 0 /\ b[1] = d(1) /\ 1 - 1 = 0
      BY <1>2, <2>2, SMT
    <3> QED BY <1>1, <1>4, <2>2, <3>1, SMT
  <2>3. CASE j = 2
    <3>1. f[2] = d(1) * 1 + d(2) * 256 /\ f[1] = d(1) * 1 /\ b[2] = d(2) /\ 2 - 1 = 1
      BY <1>2, <2>3, SMT
    <3> QED BY <1>1, <1>4, <2>3, <3>1, SMT
  <2>4. CASE j = 3
    <3>1. /\ f[3] = d(1) * 1 + d(2) * 256 + d(3) * 65536 /\ f[2] = d(1) * 1 + d(2) * 256
          /\ b[3] = d(3) /\ 3 - 1 = 2
      BY <1>2, <2>4, SMT
    <3> QED BY <1>1, <1>4, <2>4, <3>1, SMT
  <2>5. CASE j = 4
    <3>1. /\ f[4] = d(1) * 1 + d(2) * 256 + d(3) * 65536 + d(4) * 16777216
          /\ f[3] = d(1) * 1 + d(2) * 256 + d(3) * 65536 /\ b[4] = d(4) /\ 4 - 1 = 3
      BY <1>2, <2>5, SMT
    <3> QED BY <1>1, <1>4, <2>5, <3>1, SMTT(30)
  <2> QED BY <2>1, <2>2, <2>3, <2>4, <2>5, SMT
<1>6. Sums(f, b, size)
  <2>1. f = [j \in 0..size |-> f[j]]
    OBVIOUS
  <2> HIDE DEF f
  <2> QED BY <1>5, <2>1 DEF Sums
<1>7. Sums(g, b, size)
  BY <1>6
<1>8. Number(b) = g[size]
  BY DEF Number, Sums, Written
<1> HIDE DEF f, g
<1>9. \A j \in 0..size : g[j] = IF j = 0 THEN 0 ELSE g[j - 1] + b[j] * Weight[j]
  <2>1. g = [j \in 0..size |-> IF j = 0 THEN 0 ELSE g[j - 1] + b[j] * Weight[j]]
    BY <1>7 DEF Sums
  <2> QED BY <2>1, Zenon
<1>10. /\ g[0] = 0
       /\ g[1] = d(1)
       /\ size >= 2 => g[2] = d(1) + d(2) * 256
       /\ size >= 3 => g[3] = d(1) + d(2) * 256 + d(3) * 65536
       /\ size >= 4 => g[4] = d(1) + d(2) * 256 + d(3) * 65536 + d(4) * 16777216
  <2>1. g[0] = 0
    BY <1>9
  <2>2. g[1] = d(1)
    <3>1. 1 \in 0..size /\ 1 \in 1..size /\ 1 - 1 = 0 /\ 1 # 0
      OBVIOUS
    <3>2. g[1] = g[0] + b[1] * Weight[1] /\ b[1] = d(1)
      BY <1>2, <1>9, <3>1
    <3> QED BY <1>1, <1>4, <2>1, <3>2, SMT
  <2>3. ASSUME size >= 2 PROVE g[2] = d(1) + d(2) * 256
    <3>1. 2 \in 0..size /\ 2 \in 1..size /\ 2 - 1 = 1 /\ 2 # 0
      BY <2>3
    <3>2. g[2] = g[1] + b[2] * Weight[2] /\ b[2] = d(2)
      BY <1>2, <1>9, <3>1
    <3> QED BY <1>1, <2>2, <3>2
  <2>4. ASSUME size >= 3 PROVE g[3] = d(1) + d(2) * 256 + d(3) * 65536
    <3>1. 3 \in 0..size /\ 3 \in 1..size /\ 3 - 1 = 2 /\ 3 # 0 /\ size >= 2
      BY <2>4
    <3>2. g[3] = g[2] + b[3] * Weight[3] /\ b[3] = d(3)
      BY <1>2, <1>9, <3>1
    <3> QED BY <1>1, <2>3, <3>1, <3>2
  <2>5. ASSUME size >= 4 PROVE g[4] = d(1) + d(2) * 256 + d(3) * 65536 + d(4) * 16777216
    <3>1. 4 \in 0..size /\ 4 \in 1..size /\ 4 - 1 = 3 /\ 4 # 0 /\ size >= 3
      BY <2>5
    <3>2. g[4] = g[3] + b[4] * Weight[4] /\ b[4] = d(4)
      BY <1>2, <1>9, <3>1
    <3> QED BY <1>1, <2>4, <3>1, <3>2
  <2> QED BY <2>1, <2>2, <2>3, <2>4, <2>5
<1>11. /\ n <= 127 => n = d(1)
       /\ n <= 32767 => n = d(1) + d(2) * 256
       /\ n <= 8388607 => n = d(1) + d(2) * 256 + d(3) * 65536
       /\ n <= 2147483647 => n = d(1) + d(2) * 256 + d(3) * 65536 + d(4) * 16777216
  <2> DEFINE p == n % 256
             q == (n \div 256) % 256
             r == (n \div 65536) % 256
             s == (n \div 16777216) % 256
  <2>1. /\ n <= 127 => p = n
        /\ n <= 32767 => p + q * 256 = n
        /\ n <= 8388607 => p + q * 256 + r * 65536 = n
        /\ n <= 2147483647 => p + q * 256 + r * 65536 + s * 16777216 = n
    BY Digits, SMT
  <2> HIDE DEF p, q, r, s
  <2>2. d(1) = p /\ d(2) = q /\ d(3) = r /\ d(4) = s
    BY <1>3, SMT DEF p, q, r, s
  <2> QED BY <2>1, <2>2, SMT
<1>12. CASE size = 1
  BY <1>1, <1>8, <1>10, <1>11, <1>12, SMT
<1>13. CASE size = 2
  BY <1>1, <1>8, <1>10, <1>11, <1>13, SMT
<1>14. CASE size = 3
  BY <1>1, <1>8, <1>10, <1>11, <1>14, SMT
<1>15. CASE size = 4
  BY <1>1, <1>8, <1>10, <1>11, <1>15, SMT
<1> QED BY <1>12, <1>13, <1>14, <1>15, SMT

------------------------------------------------------------------------------
(* Portions of equal length *)

\* Place j of the a-th portion of m.
LEMMA PlaceIn ==
  ASSUME NEW m \in Nat \ {0}, NEW a \in Nat, NEW j \in 0..m - 1
  PROVE  (m * a + j) \div m = a /\ (m * a + j) % m = j
<1> DEFINE p == m * a
           k == p + j
<1>1. p \in Nat /\ k \in Nat /\ p <= k /\ k < p + m
  OBVIOUS
<1>2. k \div m = a
  <2>1. m * a <= k /\ k < m * a + m
    BY <1>1
  <2> HIDE DEF p, k
  <2> QED BY <1>1, <2>1, DivisionUnique
<1>3. k = m * (k \div m) + (k % m) /\ k % m \in 0..m - 1
  <2> HIDE DEF p, k
  <2> QED BY <1>1
<1>4. k = p + (k % m)
  BY <1>2, <1>3
<1> HIDE DEF p
<1>5. k % m = j
  BY <1>1, <1>3, <1>4
<1> QED BY <1>2, <1>5 DEF p

\* Portions of equal length, one after the other.
Portions(s, n, m, T) ==
  Len(s) = n /\ DOMAIN s = 1..n /\ \A i \in 1..n : s[i] \in Seq(T) /\ Len(s[i]) = m

\* In t they are found at their places.
Laid(t, s, n, m, T) ==
  t \in Seq(T) /\ Len(t) = m * n /\ \A i \in 1..n : \A j \in 1..m : t[m * (i - 1) + j] = s[i][j]

\* Portions of equal length are found again in what they are together.
LEMMA Uniform ==
  ASSUME NEW n \in Nat \ {0}, NEW m \in Nat \ {0}, NEW T, NEW s, Portions(s, n, m, T)
  PROVE  Laid(FlattenSeq(s), s, n, m, T)
<1> DEFINE e(p) == s[(p - 1) \div m + 1][((p - 1) % m) + 1]
           f == [i \in 1..n |-> [p \in 1..m * i |-> e(p)]]
<1>1. \A i \in 1..n : /\ i \in Nat /\ i - 1 \in Nat /\ m * i \in Nat /\ m * (i - 1) \in Nat
                      /\ m * i = m * (i - 1) + m
  OBVIOUS
<1>2. ASSUME NEW i \in 1..n, NEW j \in 1..m PROVE e(m * (i - 1) + j) = s[i][j]
  <2> DEFINE q == m * (i - 1)
  <2>1. (q + (j - 1)) \div m = i - 1 /\ (q + (j - 1)) % m = j - 1
    <3>1. i - 1 \in Nat /\ j - 1 \in 0..m - 1
      OBVIOUS
    <3> QED BY <3>1, PlaceIn
  <2>2. q \in Nat
    BY <1>1
  <2> HIDE DEF q
  <2>3. (q + j) - 1 = q + (j - 1) /\ (i - 1) + 1 = i /\ (j - 1) + 1 = j
    BY <2>2
  <2>4. e(q + j) = s[i][j]
    BY <2>1, <2>3
  <2> QED BY <2>4 DEF q
<1>3. ASSUME NEW i \in 1..n, NEW p \in 1..m * i
      PROVE  \E k \in 1..i, j \in 1..m : p = m * (k - 1) + j
  <2> DEFINE k == (p - 1) \div m + 1
             j == ((p - 1) % m) + 1
  <2>1. Column(p, m) \in 0..m - 1 /\ Row(p, m) \in 0..i - 1 /\ p = m * Row(p, m) + Column(p, m) + 1
    <3>1. i \in Nat \ {0}
      OBVIOUS
    <3> QED BY <3>1, BlockNumbers
  <2>2. k \in 1..i /\ j \in 1..m /\ k - 1 = Row(p, m) /\ j = Column(p, m) + 1
    BY <2>1 DEF Column, Row
  <2>3. m * Row(p, m) \in Nat
    BY <2>1
  <2>4. p = m * Row(p, m) + j
    BY <2>1, <2>2, <2>3
  <2> HIDE DEF k, j
  <2> QED BY <2>2, <2>4
<1>4. ASSUME NEW i \in 1..n PROVE \A p \in 1..m * i : e(p) \in T
  <2> TAKE p \in 1..m * i
  <2>1. PICK k \in 1..i, j \in 1..m : p = m * (k - 1) + j
    BY <1>3
  <2>2. k \in 1..n
    BY <2>1
  <2>3. s[k] \in Seq(T) /\ Len(s[k]) = m
    BY <2>2 DEF Portions
  <2>4. s[k][j] \in T
    BY <2>3, ElementOfSeq
  <2> HIDE DEF e
  <2> QED BY <1>2, <2>1, <2>2, <2>4
<1> HIDE DEF e
<1>5. ASSUME NEW i \in 1..n
      PROVE  f[i] \in Seq(T) /\ Len(f[i]) = m * i /\ \A p \in 1..m * i : f[i][p] = e(p)
  <2> DEFINE l == m * i
             h == [p \in 1..l |-> e(p)]
  <2>1. f[i] = h
    OBVIOUS
  <2>2. l \in Nat /\ \A p \in 1..l : e(p) \in T
    BY <1>1, <1>4
  <2> HIDE DEF l
  <2>3. h \in [1..l -> T] /\ \A p \in 1..l : h[p] = e(p)
    BY <2>2
  <2>4. h \in Seq(T) /\ Len(h) = l
    <3> HIDE DEF h
    <3> QED BY <2>2, <2>3
  <2> HIDE DEF h, f
  <2> QED BY <2>1, <2>3, <2>4 DEF l
<1> HIDE DEF f
<1>6. f[1] = s[1]
  <2>1. 1 \in 1..n /\ m * 1 = m /\ m * (1 - 1) = 0
    OBVIOUS
  <2>2. s[1] \in Seq(T) /\ Len(s[1]) = m
    BY <2>1 DEF Portions
  <2>3. f[1] \in Seq(T) /\ Len(f[1]) = m /\ \A p \in 1..m : f[1][p] = e(p)
    BY <1>5, <2>1
  <2>4. \A p \in 1..m : e(p) = s[1][p]
    <3> TAKE p \in 1..m
    <3>1. e(m * (1 - 1) + p) = s[1][p]
      BY <1>2, <2>1
    <3> QED BY <2>1, <3>1
  <2> QED BY <2>2, <2>3, <2>4, SeqEqual
<1>7. ASSUME NEW i \in 2..n PROVE f[i] = f[i - 1] \o s[i]
  <2> DEFINE a == m * (i - 1)
             g == f[i - 1]
             r == s[i]
  <2>1. i \in 1..n /\ i - 1 \in 1..n /\ a \in Nat /\ m * i = a + m
    BY <1>1
  <2>2. r \in Seq(T) /\ Len(r) = m
    BY <2>1 DEF Portions
  <2>3. f[i] \in Seq(T) /\ Len(f[i]) = a + m /\ \A p \in 1..a + m : f[i][p] = e(p)
    BY <1>5, <2>1
  <2>4. g \in Seq(T) /\ Len(g) = a /\ \A p \in 1..a : g[p] = e(p)
    BY <1>5, <2>1
  <2>5. \A j \in 1..m : e(a + j) = r[j]
    BY <1>2, <2>1
  <2> HIDE DEF g, r, a
  <2>6. /\ g \o r \in Seq(T) /\ Len(g \o r) = a + m
        /\ \A p \in 1..a + m : (g \o r)[p] = IF p <= a THEN g[p] ELSE r[p - a]
    BY <2>2, <2>4, ConcatProperties
  <2>7. ASSUME NEW p \in 1..a + m PROVE f[i][p] = (g \o r)[p]
    <3>1. CASE p <= a
      BY <2>1, <2>3, <2>4, <2>6, <3>1
    <3>2. CASE p > a
      <4>1. p - a \in 1..m /\ a + (p - a) = p
        BY <2>1, <3>2
      <4>2. e(p) = r[p - a]
        BY <2>5, <4>1
      <4> QED BY <2>1, <2>3, <2>6, <3>2, <4>2, SMTT(30)
    <3>3. p <= a \/ p > a
      <4>1. a \in Nat
        BY <2>1
      <4> QED BY <4>1
    <3> QED BY <3>1, <3>2, <3>3
  <2>8. f[i] = g \o r
    BY <2>3, <2>6, <2>7, SeqEqual
  <2> QED BY <2>8 DEF g, r
<1>8. FlattenSeq(s) = f[n]
  <2>1. Grown(f, s, n)
    BY <1>6, <1>7 DEF Grown, Portions
  <2> QED BY <2>1, Flattened
<1>9. n \in 1..n
  OBVIOUS
<1>10. ASSUME NEW i \in 1..n, NEW j \in 1..m PROVE f[n][m * (i - 1) + j] = s[i][j]
  <2>1. m * (i - 1) + j \in 1..m * n
    <3>1. m * i <= m * n
      OBVIOUS
    <3> DEFINE a == m * (i - 1)
               b == m * i
               c == m * n
    <3>2. a \in Nat /\ b \in Nat /\ c \in Nat /\ b = a + m /\ b <= c
      BY <1>1, <3>1
    <3> HIDE DEF a, b, c
    <3>3. a + j \in 1..c
      BY <3>2
    <3> QED BY <3>3 DEF a, c
  <2> QED BY <1>2, <1>5, <1>9, <2>1
<1>11. Laid(f[n], s, n, m, T)
  BY <1>5, <1>9, <1>10 DEF Laid
<1> QED BY <1>8, <1>11

------------------------------------------------------------------------------
(* Lists of cells *)

\* A coordinate takes as many bytes as the size says.
LEMMA BytesOf ==
  ASSUME NEW size \in 1..4, NEW n \in Nat
  PROVE  Bytes(n, size) \in Seq(Nat) /\ Len(Bytes(n, size)) = size
<1>1. \A j \in 1..4 : (n \div Weight[j]) % 256 \in Nat
  <2>1. Weight[1] = 1 /\ Weight[2] = 256 /\ Weight[3] = 65536 /\ Weight[4] = 16777216
    BY SMT DEF Weight
  <2>2. /\ (n \div 1) % 256 \in Nat /\ (n \div 256) % 256 \in Nat
        /\ (n \div 65536) % 256 \in Nat /\ (n \div 16777216) % 256 \in Nat
    BY SMT
  <2>3. \A j \in 1..4 : j = 1 \/ j = 2 \/ j = 3 \/ j = 4
    BY SMT
  <2> QED BY <2>1, <2>2, <2>3
<1> DEFINE e(j) == (n \div Weight[j]) % 256
<1>2. \A j \in 1..size : e(j) \in Nat
  BY <1>1
<1>3. Bytes(n, size) = [j \in 1..size |-> e(j)]
  BY Zenon DEF Bytes
<1> HIDE DEF e
<1>4. [j \in 1..size |-> e(j)] \in [1..size -> Nat]
  BY <1>2
<1> QED BY <1>3, <1>4

\* A part of a sequence.
LEMMA Slice ==
  ASSUME NEW T, NEW data, NEW a \in Nat, NEW k \in Nat \ {0}, \A j \in 1..k : data[a + j] \in T
  PROVE  /\ Len(SubSeq(data, a + 1, a + k)) = k
         /\ \A j \in 1..k : SubSeq(data, a + 1, a + k)[j] = data[a + j]
<1> DEFINE p == a + 1
           q == a + k
<1>1. p \in Int /\ q \in Int /\ p <= q /\ q - p + 1 = k
  OBVIOUS
<1>2. \A i \in p..q : data[i] \in T
  <2> TAKE i \in p..q
  <2>1. i - a \in 1..k /\ a + (i - a) = i
    OBVIOUS
  <2> QED BY <2>1
<1>3. \A j \in 1..k : p + j - 1 = a + j
  OBVIOUS
<1> HIDE DEF p, q
<1>4. Len(SubSeq(data, p, q)) = k /\ \A j \in 1..k : SubSeq(data, p, q)[j] = data[p + j - 1]
  BY <1>1, <1>2, SubSeqProperties
<1> QED BY <1>3, <1>4 DEF p, q

\* Behind place a of the data the cell <<x, y>> is written.
PairAt(data, a, x, y, size) ==
  \A j \in 1..2 * size : data[a + j] = (Bytes(x, size) \o Bytes(y, size))[j]

\* A cell is read as it was written.
LEMMA PairRead ==
  ASSUME NEW size \in 1..4, NEW x \in Nat, NEW y \in Nat, x <= Largest[size], y <= Largest[size],
         NEW data, NEW a \in Nat, PairAt(data, a, x, y, size)
  PROVE  /\ Number(SubSeq(data, a + 1, a + size)) = x
         /\ Number(SubSeq(data, a + size + 1, a + 2 * size)) = y
<1> DEFINE u == Bytes(x, size)
           v == Bytes(y, size)
           w == a + size
           b == SubSeq(data, a + 1, a + size)
           c == SubSeq(data, w + 1, w + size)
<1>1. u \in Seq(Nat) /\ Len(u) = size /\ v \in Seq(Nat) /\ Len(v) = size
  BY BytesOf
<1>2. \A j \in 1..2 * size : data[a + j] = (u \o v)[j]
  BY DEF PairAt
<1>3. size \in Nat \ {0} /\ w \in Nat /\ 2 * size = size + size
  OBVIOUS
<1>4. \A j \in 1..size : u[j] = Bytes(x, size)[j] /\ v[j] = Bytes(y, size)[j]
  OBVIOUS
<1> HIDE DEF u, v
<1>5. \A j \in 1..size + size : (u \o v)[j] = IF j <= size THEN u[j] ELSE v[j - size]
  <2>1. \A j \in 1..Len(u) + Len(v) : (u \o v)[j] = IF j <= Len(u) THEN u[j] ELSE v[j - Len(u)]
    BY <1>1, ConcatProperties
  <2> QED BY <1>1, <2>1
<1>6. \A j \in 1..size : u[j] \in Nat /\ v[j] \in Nat
  BY <1>1, ElementOfSeq
<1>7. \A j \in 1..size : data[a + j] = u[j] /\ data[w + j] = v[j]
  <2> TAKE j \in 1..size
  <2>1. /\ j \in 1..2 * size /\ j \in 1..size + size /\ j <= size
        /\ size + j \in 1..2 * size /\ size + j \in 1..size + size /\ ~(size + j <= size)
        /\ (size + j) - size = j /\ a + (size + j) = w + j
    BY <1>3
  <2> HIDE DEF w
  <2> QED BY <1>2, <1>5, <2>1
<1>8. w + 1 = a + size + 1 /\ w + size = a + 2 * size
  BY <1>3
<1> HIDE DEF w
<1>9. Len(b) = size /\ \A j \in 1..size : b[j] = u[j]
  BY <1>3, <1>6, <1>7, Slice
<1>10. Len(c) = size /\ \A j \in 1..size : c[j] = v[j]
  BY <1>3, <1>6, <1>7, Slice
<1>11. b = SubSeq(data, a + 1, a + size) /\ c = SubSeq(data, a + size + 1, a + 2 * size)
  BY <1>8
<1> HIDE DEF b, c
<1>12. Number(b) = x /\ Number(c) = y
  <2>1. Written(b, x, size) /\ Written(c, y, size)
    BY <1>4, <1>9, <1>10 DEF Written
  <2> QED BY <2>1, NumberOfBytes
<1> QED BY <1>11, <1>12

\* A list of n cells, each of whose coordinates is as short as the size says.
ShortList(cells, n, size) ==
  /\ n \in Nat /\ Len(cells) = n
  /\ cells = [i \in 1..n |-> <<cells[i][1], cells[i][2]>>]
  /\ \A i \in 1..n : /\ cells[i][1] \in Nat /\ cells[i][1] <= Largest[size]
                     /\ cells[i][2] \in Nat /\ cells[i][2] <= Largest[size]

\* A list of cells is read as it was written, whatever its length: decompressFlipped
\* undoes compressFlippedTo (worker/compression.go:4-16, gol/compression.go:43-56).
THEOREM ListRead ==
  ASSUME NEW size \in 1..4, NEW n, NEW cells, ShortList(cells, n, size)
  PROVE  decompressFlipped(compressFlippedTo(cells, size), size) = cells
<1> DEFINE m    == 2 * size
           e(i) == Bytes(cells[i][1], size) \o Bytes(cells[i][2], size)
           s    == [i \in DOMAIN cells |-> e(i)]
           data == FlattenSeq(s)
           A(i) == Number(SubSeq(data, m * (i - 1) + 1, m * (i - 1) + size))
           B(i) == Number(SubSeq(data, m * (i - 1) + size + 1, m * (i - 1) + m))
           read == [i \in 1..Len(data) \div m |-> <<A(i), B(i)>>]
<1>1. /\ n \in Nat /\ DOMAIN cells = 1..n /\ m \in Nat \ {0}
      /\ cells = [i \in 1..n |-> <<cells[i][1], cells[i][2]>>]
  BY DEF ShortList
<1>2. decompressFlipped(compressFlippedTo(cells, size), size) = read
  BY Zenon DEF decompressFlipped, compressFlippedTo
<1>3. ASSUME NEW i \in 1..n PROVE e(i) \in Seq(Nat) /\ Len(e(i)) = m
  <2> DEFINE u == Bytes(cells[i][1], size)
             v == Bytes(cells[i][2], size)
  <2>1. cells[i][1] \in Nat /\ cells[i][2] \in Nat
    BY DEF ShortList
  <2>2. u \in Seq(Nat) /\ Len(u) = size /\ v \in Seq(Nat) /\ Len(v) = size
    BY <2>1, BytesOf
  <2> HIDE DEF u, v
  <2>3. u \o v \in Seq(Nat) /\ Len(u \o v) = size + size
    BY <2>2, ConcatProperties
  <2> QED BY <2>3 DEF u, v
<1> HIDE DEF e
<1>4. Len(s) = n /\ DOMAIN s = 1..n /\ \A i \in 1..n : s[i] = e(i)
  BY <1>1
<1> HIDE DEF s
<1>5. Len(data) \div m = n
  <2>1. CASE n = 0
    <3>1. Len(data) = 0
      BY <1>4, <2>1 DEF FlattenSeq
    <3>2. 0 \div m = 0
      BY <1>1
    <3> QED BY <2>1, <3>1, <3>2
  <2>2. CASE n # 0
    <3>1. Len(data) = m * n
      <4>1. Portions(s, n, m, Nat) /\ n \in Nat \ {0}
        BY <1>1, <1>3, <1>4, <2>2 DEF Portions
      <4> HIDE DEF m
      <4>2. Laid(data, s, n, m, Nat)
        BY <1>1, <4>1, Uniform
      <4> QED BY <4>2 DEF Laid
    <3>2. (m * n + 0) \div m = n
      <4>1. 0 \in 0..m - 1
        BY <1>1
      <4> HIDE DEF m
      <4> QED BY <1>1, <4>1, PlaceIn
    <3>3. m * n + 0 = m * n
      BY <1>1
    <3> QED BY <3>1, <3>2, <3>3
  <2> QED BY <2>1, <2>2
<1>6. ASSUME NEW i \in 1..n PROVE A(i) = cells[i][1] /\ B(i) = cells[i][2]
  <2> DEFINE a == m * (i - 1)
  <2>1. a \in Nat
    BY <1>1
  <2>2. \A j \in 1..m : data[a + j] = e(i)[j]
    <3>1. Portions(s, n, m, Nat) /\ n \in Nat \ {0}
      BY <1>1, <1>3, <1>4 DEF Portions
    <3>2. \A j \in 1..m : data[a + j] = s[i][j]
      <4> HIDE DEF m
      <4>1. Laid(data, s, n, m, Nat)
        BY <1>1, <3>1, Uniform
      <4> HIDE DEF data
      <4> QED BY <4>1 DEF Laid
    <3> QED BY <1>4, <3>2
  <2> DEFINE x == cells[i][1]
             y == cells[i][2]
  <2>3. x \in Nat /\ y \in Nat /\ x <= Largest[size] /\ y <= Largest[size]
    BY DEF ShortList
  <2>4. PairAt(data, a, x, y, size)
    BY <2>2 DEF e, PairAt
  <2> HIDE DEF a, x, y, data
  <2>5. /\ Number(SubSeq(data, a + 1, a + size)) = x
        /\ Number(SubSeq(data, a + size + 1, a + 2 * size)) = y
    BY <2>1, <2>3, <2>4, PairRead
  <2> QED BY <2>5 DEF a, x, y
<1> HIDE DEF A, B, data
<1>7. read = [i \in 1..n |-> <<A(i), B(i)>>]
  BY <1>5
<1> HIDE DEF read
<1>8. read = [i \in 1..n |-> <<cells[i][1], cells[i][2]>>]
  BY <1>6, <1>7
<1> QED BY <1>1, <1>2, <1>8

------------------------------------------------------------------------------
(* The members of a list that are in a set *)

\* The first n of s do not repeat.
Distinct(s, n) == \A j, k \in 1..n : s[j] = s[k] => j = k

\* The members of S among the first n of s, once each.
Sifted(t, s, S, n, T) ==
  /\ t \in Seq(T) /\ Distinct(t, Len(t))
  /\ \A a \in T : (\E k \in 1..Len(t) : t[k] = a) <=> (a \in S /\ \E k \in 1..n : s[k] = a)

\* One more of s.
LEMMA SiftedMore ==
  ASSUME NEW T, NEW S, NEW n \in Nat, NEW s, \A k \in 1..n : s[k] \in T, Distinct(s, n),
         NEW i \in 0..n - 1, NEW t, Sifted(t, s, S, i, T)
  PROVE  Sifted(IF s[i + 1] \in S THEN Append(t, s[i + 1]) ELSE t, s, S, i + 1, T)
<1> DEFINE a == s[i + 1]
           l == Len(t)
           u == Append(t, a)
<1>1. i + 1 \in 1..n /\ a \in T /\ \A k \in 1..i : k \in 1..n /\ k # i + 1 /\ k \in 1..i + 1
  OBVIOUS
<1>2. \A k \in 1..i : s[k] # a
  BY <1>1 DEF Distinct
<1>3. \A k \in 1..i + 1 : k \in 1..i \/ k = i + 1
  OBVIOUS
<1>4. \A b \in T : (\E k \in 1..i + 1 : s[k] = b) <=> (b = a \/ \E k \in 1..i : s[k] = b)
  <2>1. i + 1 \in 1..i + 1
    OBVIOUS
  <2> HIDE DEF a
  <2>2. a = s[i + 1]
    BY DEF a
  <2> QED BY <1>1, <1>3, <2>1, <2>2
<1>5. /\ t \in Seq(T) /\ l \in Nat /\ Distinct(t, l)
      /\ \A b \in T : (\E k \in 1..l : t[k] = b) <=> (b \in S /\ \E k \in 1..i : s[k] = b)
  BY LenProperties DEF Sifted
<1>6. CASE a \notin S
  <2>1. \A b \in T : (\E k \in 1..l : t[k] = b) <=> (b \in S /\ \E k \in 1..i + 1 : s[k] = b)
    BY <1>4, <1>5, <1>6
  <2> QED BY <1>5, <1>6, <2>1 DEF Sifted
<1>7. CASE a \in S
  <2> HIDE DEF a
  <2>1. u \in Seq(T) /\ Len(u) = l + 1 /\ u[l + 1] = a /\ \A k \in 1..l : u[k] = t[k]
    BY <1>1, <1>5, AppendProperties
  <2> HIDE DEF u, l
  <2>2. \A k \in 1..l + 1 : k \in 1..l \/ k = l + 1
    BY <1>5
  <2>3. l + 1 \in 1..l + 1 /\ \A k \in 1..l : k \in 1..l + 1
    BY <1>5
  <2>4. \A b \in T : (\E k \in 1..l + 1 : u[k] = b) <=> (b = a \/ \E k \in 1..l : t[k] = b)
    BY <2>1, <2>2, <2>3
  <2>5. \A k \in 1..l : t[k] # a
    BY <1>1, <1>2, <1>5
  <2>6. Distinct(u, l + 1)
    <3> SUFFICES ASSUME NEW j \in 1..l + 1, NEW k \in 1..l + 1, u[j] = u[k] PROVE j = k
      BY DEF Distinct
    <3>1. CASE j \in 1..l /\ k \in 1..l
      BY <1>5, <2>1, <3>1 DEF Distinct
    <3>2. CASE j = l + 1 /\ k \in 1..l
      BY <2>1, <2>5, <3>2
    <3>3. CASE j \in 1..l /\ k = l + 1
      BY <2>1, <2>5, <3>3
    <3> QED BY <2>2, <3>1, <3>2, <3>3
  <2>7. \A b \in T : (\E k \in 1..l + 1 : u[k] = b) <=> (b \in S /\ \E k \in 1..i + 1 : s[k] = b)
    BY <1>4, <1>5, <1>7, <2>4
  <2>8. Sifted(u, s, S, i + 1, T)
    BY <2>1, <2>6, <2>7 DEF Sifted
  <2> QED BY <1>7, <2>8 DEF a, u
<1> QED BY <1>6, <1>7

\* f keeps the members of S of ever more of s.
Keeps(f, s, S, n) ==
  f = [i \in 0..n |-> IF i = 0 THEN <<>>
                      ELSE IF s[i] \in S THEN Append(f[i - 1], s[i]) ELSE f[i - 1]]

\* Such a function exists.
LEMMA KeepsExists ==
  ASSUME NEW T, NEW S, NEW n \in Nat, NEW s, \A k \in 1..n : s[k] \in T
  PROVE  \E f : Keeps(f, s, S, n)
<1> DEFINE next(k, t) == IF k \in 1..n /\ s[k] \in S THEN Append(t, s[k]) ELSE t
           Q == Seq(T)
           G == [p \in Nat \X Q |-> next(p[1], p[2])]
<1>1. <<>> \in Q
  OBVIOUS
<1>2. \A k \in Nat, t \in Q : next(k, t) \in Q
  BY AppendProperties
<1>3. \A k \in Nat, t \in Q : <<k, t>> \in Nat \X Q /\ <<k, t>>[1] = k /\ <<k, t>>[2] = t
  OBVIOUS
<1>4. \A k \in 1..n : \A t : next(k, t) = IF s[k] \in S THEN Append(t, s[k]) ELSE t
  OBVIOUS
<1> HIDE DEF next, Q
<1>5. \A p \in Nat \X Q : p[1] \in Nat /\ p[2] \in Q
  OBVIOUS
<1>6. G \in [Nat \X Q -> Q]
  BY <1>2, <1>5
<1>7. \A k \in Nat, t \in Q : G[<<k, t>>] = next(k, t)
  BY <1>3
<1> HIDE DEF G
<1>8. PICK f : Iterated(f, n, Q, <<>>, G)
  BY <1>1, <1>6, Iterates
<1>9. f \in [0..n -> Q] /\ f[0] = <<>> /\ \A k \in 1..n : f[k] = G[<<k, f[k - 1]>>]
  BY <1>8 DEF Iterated
<1>10. ASSUME NEW i \in 0..n
       PROVE  f[i] = IF i = 0 THEN <<>>
                     ELSE IF s[i] \in S THEN Append(f[i - 1], s[i]) ELSE f[i - 1]
  <2>1. CASE i = 0
    BY <1>9, <2>1
  <2>2. CASE i # 0
    <3>1. i \in 1..n /\ i \in Nat /\ i - 1 \in 0..n
      BY <2>2
    <3>2. f[i - 1] \in Q
      BY <1>9, <3>1
    <3>3. f[i] = next(i, f[i - 1])
      BY <1>7, <1>9, <3>1, <3>2
    <3> QED BY <1>4, <2>2, <3>1, <3>3
  <2> QED BY <2>1, <2>2
<1>11. f = [i \in 0..n |-> f[i]]
  BY <1>9
<1>12. Keeps(f, s, S, n)
  BY <1>10, <1>11, Zenon DEF Keeps
<1> QED BY <1>12

\* The chosen ones of a list without repetition.
LEMMA Choosing ==
  ASSUME NEW T, NEW S, NEW n \in Nat, NEW s, Len(s) = n, \A k \in 1..n : s[k] \in T, Distinct(s, n)
  PROVE  Sifted(Chosen(s, S), s, S, n, T)
<1> DEFINE g == CHOOSE g : Keeps(g, s, S, n)
           N == {i \in Nat : i <= n => Sifted(g[i], s, S, i, T)}
<1>1. Chosen(s, S) = g[n]
  BY Zenon DEF Chosen, Keeps
<1>2. Keeps(g, s, S, n)
  BY KeepsExists
<1> HIDE DEF g
<1>3. \A i \in 0..n : g[i] = IF i = 0 THEN <<>>
                             ELSE IF s[i] \in S THEN Append(g[i - 1], s[i]) ELSE g[i - 1]
  BY <1>2, Zenon DEF Keeps
<1>4. 0 \in N
  <2>1. g[0] = <<>>
    BY <1>3
  <2>2. <<>> \in Seq(T) /\ Len(<<>>) = 0
    OBVIOUS
  <2>3. Sifted(<<>>, s, S, 0, T)
    BY <2>2 DEF Sifted, Distinct
  <2> QED BY <2>1, <2>3
<1>5. ASSUME NEW i \in Nat, i \in N PROVE i + 1 \in N
  <2>1. CASE i + 1 <= n
    <3>1. i \in 0..n - 1 /\ i + 1 \in 0..n /\ i + 1 # 0 /\ (i + 1) - 1 = i /\ i <= n
      BY <2>1
    <3>2. Sifted(g[i], s, S, i, T)
      BY <1>5, <3>1
    <3>3. g[i + 1] = IF s[i + 1] \in S THEN Append(g[i], s[i + 1]) ELSE g[i]
      BY <1>3, <3>1
    <3>4. Sifted(g[i + 1], s, S, i + 1, T)
      <4> DEFINE t == g[i]
      <4>1. Sifted(t, s, S, i, T)
        BY <3>2
      <4>2. g[i + 1] = IF s[i + 1] \in S THEN Append(t, s[i + 1]) ELSE t
        BY <3>3
      <4> HIDE DEF t
      <4>3. Sifted(IF s[i + 1] \in S THEN Append(t, s[i + 1]) ELSE t, s, S, i + 1, T)
        BY <3>1, <4>1, SiftedMore
      <4> QED BY <4>2, <4>3
    <3> QED BY <3>4
  <2>2. CASE ~(i + 1 <= n)
    BY <2>2
  <2> QED BY <2>1, <2>2
<1> HIDE DEF N
<1>6. n \in N
  BY <1>4, <1>5, AllNumbers
<1> QED BY <1>1, <1>6 DEF N

------------------------------------------------------------------------------
(* Images *)

\* The places of the cells, row by row.
LEMMA Places ==
  /\ Area \in Nat
  /\ \A c \in Cell : Place(c) \in 0..Area - 1 /\ CellAt(Place(c)) = c
  /\ \A i \in 0..Area - 1 : CellAt(i) \in Cell /\ Place(CellAt(i)) = i
<1> USE SizeAssumption
<1>1. Area \in Nat
  BY DEF Area
<1>2. ASSUME NEW c \in Cell PROVE Place(c) \in 0..Area - 1 /\ CellAt(Place(c)) = c
  <2> DEFINE x == c[1]
             y == c[2]
             a == Width * y
  <2>1. c = <<x, y>> /\ x \in 0..Width - 1 /\ y \in 0..Height - 1
    BY DEF Cell
  <2> HIDE DEF x, y
  <2>2. a \in Nat /\ Width * (y + 1) <= Width * Height /\ Width * (y + 1) = a + Width
    BY <2>1
  <2>3. (a + x) \div Width = y /\ (a + x) % Width = x
    <3>1. y \in Nat
      BY <2>1
    <3> QED BY <2>1, <3>1, PlaceIn
  <2>4. Place(c) = a + x
    <3>1. y * Width = a
      BY <2>1
    <3> QED BY <3>1 DEF Place, x, y
  <2>5. Area = Width * Height
    BY DEF Area
  <2> DEFINE b == Width * Height
  <2>6. b \in Nat /\ a + Width <= b
    BY <2>2
  <2> HIDE DEF a, b
  <2>7. a + x \in 0..b - 1
    BY <2>1, <2>2, <2>6
  <2>8. Place(c) \in 0..Area - 1
    BY <2>4, <2>5, <2>7 DEF b
  <2> QED BY <2>1, <2>3, <2>4, <2>8 DEF CellAt
<1>3. ASSUME NEW i \in 0..Area - 1 PROVE CellAt(i) \in Cell /\ Place(CellAt(i)) = i
  <2> DEFINE k == i + 1
  <2>1. k \in 1..Width * Height /\ k - 1 = i
    BY <1>1 DEF Area
  <2>2. /\ Column(k, Width) \in 0..Width - 1 /\ Row(k, Width) \in 0..Height - 1
        /\ k = Width * Row(k, Width) + Column(k, Width) + 1
    BY <2>1, BlockNumbers
  <2>3. CellAt(i) = <<Column(k, Width), Row(k, Width)>>
    BY <2>1 DEF CellAt, Column, Row
  <2> DEFINE x == Column(k, Width)
             y == Row(k, Width)
  <2>4. Place(CellAt(i)) = y * Width + x
    BY <2>3 DEF Place
  <2> HIDE DEF x, y
  <2>5. y * Width + x = i
    <3>1. k = Width * y + x + 1 /\ x \in Nat /\ y \in Nat
      BY <2>2 DEF x, y
    <3>2. Width * y = y * Width /\ y * Width \in Nat
      BY <3>1
    <3> QED BY <2>1, <3>1, <3>2
  <2> QED BY <2>2, <2>3, <2>4, <2>5 DEF Cell
<1> QED BY <1>1, <1>2, <1>3

\* A list without repetition of the cells of a set.
Enumerates(t, S) ==
  /\ t \in Seq(Cell) /\ Distinct(t, Len(t))
  /\ \A c \in Cell : (\E k \in 1..Len(t) : t[k] = c) <=> c \in S

\* The cells of an image, row by row, are a list without repetition.
LEMMA CellsChosen ==
  ASSUME NEW S
  PROVE  Enumerates(Chosen(AllCells, S), S)
<1> DEFINE n == Area
           s == AllCells
<1>1. n \in Nat /\ Len(s) = n /\ \A k \in 1..n : s[k] = CellAt(k - 1) /\ k - 1 \in 0..n - 1
  BY Places DEF AllCells
<1>2. \A k \in 1..n : s[k] \in Cell /\ Place(s[k]) = k - 1
  BY <1>1, Places
<1>3. Distinct(s, n)
  <2> SUFFICES ASSUME NEW j \in 1..n, NEW k \in 1..n, s[j] = s[k] PROVE j = k
    BY DEF Distinct
  <2>1. j - 1 = k - 1
    BY <1>2
  <2> QED BY <1>1, <2>1
<1>4. \A c \in Cell : \E k \in 1..n : s[k] = c
  <2> TAKE c \in Cell
  <2> DEFINE k == Place(c) + 1
  <2>1. k \in 1..n /\ k - 1 = Place(c)
    BY <1>1, Places
  <2>2. s[k] = c
    BY <1>1, <2>1, Places
  <2> QED BY <2>1, <2>2
<1> HIDE DEF n, s
<1>5. Sifted(Chosen(s, S), s, S, n, Cell)
  BY <1>1, <1>2, <1>3, Choosing
<1>6. Enumerates(Chosen(s, S), S)
  BY <1>4, <1>5 DEF Sifted, Enumerates
<1> QED BY <1>6 DEF s

\* Counting from the list gives the numbers of living neighbours.
LEMMA CountedFromList ==
  ASSUME NEW image \in SUBSET Cell, NEW t, Enumerates(t, image), NEW c \in Cell
  PROVE  Cardinality({p \in (DOMAIN t) \X Offset : getSurrounding[t[p[1]]][p[2]] = c})
           = AliveAround(image, c)
<1> DEFINE l      == Len(t)
           Met    == {p \in (DOMAIN t) \X Offset : getSurrounding[t[p[1]]][p[2]] = c}
           pos(a) == CHOOSE k \in 1..l : t[k] = a
           meet   == [o \in Sights(image, c) |-> <<pos(getSurrounding[c][o]), Opposite(o)>>]
<1>1. DOMAIN t = 1..l /\ \A k \in 1..l : t[k] \in Cell
  BY LenProperties, ElementOfSeq DEF Enumerates
<1>2. \A a \in image : pos(a) \in 1..l /\ t[pos(a)] = a
  BY DEF Enumerates
<1>3. \A k \in 1..l : t[k] \in image /\ pos(t[k]) = k
  <2> TAKE k \in 1..l
  <2>1. t[k] \in image
    BY <1>1 DEF Enumerates
  <2>2. pos(t[k]) \in 1..l /\ t[pos(t[k])] = t[k]
    BY <1>2, <2>1
  <2> HIDE DEF pos
  <2> QED BY <2>1, <2>2 DEF Enumerates, Distinct
<1> HIDE DEF pos, l
<1>4. \A o \in Sights(image, c) : o \in Offset /\ getSurrounding[c][o] \in image
  BY DEF Sights
<1>5. \A o \in Sights(image, c) : meet[o] \in Met
  <2> TAKE o \in Sights(image, c)
  <2> DEFINE k == pos(getSurrounding[c][o])
  <2>1. k \in 1..l /\ t[k] = getSurrounding[c][o]
    BY <1>2, <1>4
  <2>2. getSurrounding[getSurrounding[c][o]][Opposite(o)] = c
    BY <1>4, WayBack
  <2>3. meet[o] = <<k, Opposite(o)>>
    OBVIOUS
  <2> HIDE DEF k, meet
  <2>4. getSurrounding[t[k]][Opposite(o)] = c /\ Opposite(o) \in Offset
    BY <1>4, <2>1, <2>2, OppositeIsOffset
  <2> QED BY <1>1, <2>1, <2>3, <2>4
<1>6. \A o, q \in Sights(image, c) : meet[o] = meet[q] => o = q
  <2> TAKE o, q \in Sights(image, c)
  <2>1. o \in Offset /\ q \in Offset
    BY <1>4
  <2>2. meet[o] = meet[q] => Opposite(o) = Opposite(q)
    OBVIOUS
  <2> QED BY <2>1, <2>2, OppositeIsOffset
<1>7. \A p \in Met : \E o \in Sights(image, c) : meet[o] = p
  <2> TAKE p \in Met
  <2>1. p[1] \in 1..l /\ p[2] \in Offset /\ p = <<p[1], p[2]>> /\ getSurrounding[t[p[1]]][p[2]] = c
    BY <1>1
  <2>2. t[p[1]] \in image /\ pos(t[p[1]]) = p[1]
    BY <1>3, <2>1
  <2>3. getSurrounding[c][Opposite(p[2])] = t[p[1]]
    BY <2>1, <2>2, WayBack
  <2>4. Opposite(p[2]) \in Sights(image, c) /\ Opposite(Opposite(p[2])) = p[2]
    BY <2>1, <2>2, <2>3, OppositeIsOffset DEF Sights
  <2>5. meet[Opposite(p[2])] = p
    BY <2>1, <2>2, <2>3, <2>4
  <2> QED BY <2>4, <2>5
<1>8. meet \in Bijection(Sights(image, c), Met)
  BY <1>5, <1>6, <1>7 DEF Bijection, Injection, Surjection, IsInjective
<1>9. Cardinality(Met) = Cardinality(Sights(image, c))
  <2> HIDE DEF Met, meet
  <2> QED BY <1>8, SightsFinite, FS_Bijection DEF ExistsBijection
<1> QED BY <1>9, SightsFinite

\* The bits of an image are set where its cells are.
LEMMA BitsRead ==
  ASSUME NEW image \in SUBSET Cell
  PROVE  /\ Bits(image) # Nil
         /\ {c \in Cell : Place(c) % 8 \in Bits(image)[Place(c) \div 8 + 1]} = image
<1> DEFINE n == Area \div 8 + 1
           byte(b) == {Place(c) % 8 : c \in {d \in image : Place(d) \div 8 = b - 1}}
           bits == [b \in 1..n |-> byte(b)]
<1>1. Bits(image) = bits
  BY Zenon DEF Bits
<1>2. n \in Nat /\ 1 \in 1..n
  BY Places
<1>3. bits # Nil
  <2> HIDE DEF n, byte
  <2>1. DOMAIN bits = 1..n /\ DOMAIN Nil = {}
    BY DEF Nil
  <2> QED BY <1>2, <2>1
<1>4. ASSUME NEW c \in Cell
      PROVE  /\ Place(c) \div 8 + 1 \in 1..n
             /\ (Place(c) \div 8 + 1) - 1 = Place(c) \div 8
             /\ Place(c) \in Nat
  <2>1. Place(c) \in 0..Area - 1 /\ Area \in Nat
    BY Places
  <2> QED BY <2>1
<1>5. ASSUME NEW c \in Cell
      PROVE  Place(c) % 8 \in bits[Place(c) \div 8 + 1] <=> c \in image
  <2> DEFINE b == Place(c) \div 8 + 1
  <2>1. bits[b] = byte(b) /\ b - 1 = Place(c) \div 8
    BY <1>4
  <2> HIDE DEF b, bits
  <2>2. c \in image => Place(c) % 8 \in byte(b)
    BY <2>1
  <2>3. ASSUME Place(c) % 8 \in byte(b) PROVE c \in image
    <3>1. PICK d \in image : Place(d) \div 8 = b - 1 /\ Place(d) % 8 = Place(c) % 8
      BY <2>3
    <3>2. Place(d) \in Nat /\ Place(c) \in Nat
      BY <1>4
    <3>3. \A i, j \in Nat : (i \div 8 = j \div 8 /\ i % 8 = j % 8) => i = j
      OBVIOUS
    <3>4. Place(d) = Place(c)
      BY <2>1, <3>1, <3>2, <3>3
    <3>5. CellAt(Place(d)) = d /\ CellAt(Place(c)) = c
      BY Places
    <3> QED BY <3>4, <3>5
  <2>4. Place(c) % 8 \in bits[b] <=> c \in image
    BY <2>1, <2>2, <2>3
  <2> QED BY <2>4 DEF b
<1>6. {c \in Cell : Place(c) % 8 \in bits[Place(c) \div 8 + 1]} = image
  <2> HIDE DEF bits
  <2> QED BY <1>5
<1> QED BY <1>1, <1>3, <1>6

\* What the broker makes of the cells of an image is the loaded image.
LEMMA ListLoads ==
  ASSUME NEW image \in SUBSET Cell, NEW t, Enumerates(t, image)
  PROVE  [pixels |-> ToSet(t),
          counts |-> [c \in Cell |-> Cardinality({p \in (DOMAIN t) \X Offset :
                                                 getSurrounding[t[p[1]]][p[2]] = c})]]
           = Loaded(image)
<1> DEFINE count(c) == Cardinality({p \in (DOMAIN t) \X Offset : getSurrounding[t[p[1]]][p[2]] = c})
           counts   == [c \in Cell |-> count(c)]
           m        == Loaded(image)
<1>1. ToSet(t) = image
  <2>1. DOMAIN t = 1..Len(t) /\ \A k \in 1..Len(t) : t[k] \in Cell
    BY LenProperties, ElementOfSeq DEF Enumerates
  <2> QED BY <2>1 DEF ToSet, Enumerates
<1>2. \A c \in Cell : count(c) = AliveAround(image, c)
  BY CountedFromList
<1>3. m \in Matrix /\ Exact(m) /\ m.pixels = image
  BY LoadedExact
<1>4. m = [pixels |-> m.pixels, counts |-> m.counts] /\ m.counts = [c \in Cell |-> m.counts[c]]
  <2> HIDE DEF m
  <2> QED BY <1>3 DEF Matrix
<1>5. \A c \in Cell : m.counts[c] = AliveAround(image, c)
  BY <1>3 DEF Exact
<1> HIDE DEF count, m
<1>6. counts = [c \in Cell |-> m.counts[c]]
  BY <1>2, <1>5
<1>7. [pixels |-> ToSet(t), counts |-> counts] = m
  <2> HIDE DEF counts
  <2> QED BY <1>1, <1>3, <1>4, <1>6
<1> QED BY <1>7 DEF count, m

\* Every image is loaded by the broker as the controller sent it, as bits or as a
\* list, whichever is shorter (gol/compression.go:15-40, broker/compression.go:31-74).
THEOREM ImageRead ==
  ASSUME Width <= Largest[4], Height <= Largest[4], NEW image \in SUBSET Cell
  PROVE  decompressMatrix(compressMatrix(image)) = Loaded(image)
<1> DEFINE size   == getSizeOfInt(Width, Height)
           short  == Area \div 8 + 1 <= 2 * size * Cardinality(image)
           cells  == Chosen(AllCells, image)
           list   == compressFlippedTo(cells, size)
           bp     == [SizeInt |-> size, Pixels |-> IF short THEN Bits(image) ELSE Nil,
                      Initials |-> IF short THEN Nil ELSE list]
           set    == {c \in Cell : Place(c) % 8 \in bp.Pixels[Place(c) \div 8 + 1]}
           read   == IF bp.Pixels # Nil THEN Chosen(AllCells, set)
                                        ELSE decompressFlipped(bp.Initials, bp.SizeInt)
<1>1. compressMatrix(image) = bp
  BY Zenon DEF compressMatrix
<1>2. decompressMatrix(bp) =
        [pixels |-> ToSet(read),
         counts |-> [c \in Cell |-> Cardinality({p \in (DOMAIN read) \X Offset :
                                                getSurrounding[read[p[1]]][p[2]] = c})]]
  BY Zenon DEF decompressMatrix
<1>3. Enumerates(cells, image)
  BY CellsChosen
<1>4. read = cells
  <2>1. bp.SizeInt = size /\ bp.Pixels = (IF short THEN Bits(image) ELSE Nil)
        /\ bp.Initials = (IF short THEN Nil ELSE list)
    OBVIOUS
  <2> HIDE DEF size, bp, short, list
  <2>2. CASE short
    <3>1. bp.Pixels = Bits(image)
      BY <2>1, <2>2
    <3>2. bp.Pixels # Nil /\ set = image
      BY <3>1, BitsRead
    <3> HIDE DEF set
    <3> QED BY <3>2
  <2>3. CASE ~short
    <3>1. read = decompressFlipped(list, size)
      <4> HIDE DEF set
      <4> QED BY <2>1, <2>3
    <3>2. size \in 1..4 /\ Width <= Largest[size] /\ Height <= Largest[size]
      <4>1. Width \in Nat /\ Height \in Nat
        BY SizeAssumption
      <4> QED BY <4>1, SizeFits DEF size
    <3> HIDE DEF read, cells
    <3>3. ShortList(cells, Len(cells), size)
      <4> DEFINE n == Len(cells)
      <4>1. n \in Nat /\ cells \in [1..n -> Cell]
        BY <1>3, LenProperties DEF Enumerates
      <4> HIDE DEF n
      <4>2. Largest[size] \in Nat
        <5>1. Largest[1] \in Nat /\ Largest[2] \in Nat /\ Largest[3] \in Nat /\ Largest[4] \in Nat
          BY SMT DEF Largest
        <5>2. size = 1 \/ size = 2 \/ size = 3 \/ size = 4
          BY <3>2
        <5> QED BY <5>1, <5>2
      <4>3. \A c \in Cell : /\ c = <<c[1], c[2]>> /\ c[1] \in Nat /\ c[2] \in Nat
                            /\ c[1] <= Largest[size] /\ c[2] <= Largest[size]
        BY <3>2, <4>2, SizeAssumption DEF Cell
      <4>4. \A i \in 1..n : cells[i] \in Cell
        BY <4>1
      <4>5. cells = [i \in 1..n |-> cells[i]]
        BY <4>1
      <4>6. cells = [i \in 1..n |-> <<cells[i][1], cells[i][2]>>]
        BY <4>3, <4>4, <4>5
      <4> QED BY <4>1, <4>3, <4>4, <4>6 DEF ShortList, n
    <3>4. decompressFlipped(list, size) = cells
      BY <3>2, <3>3, ListRead DEF list
    <3> QED BY <3>1, <3>4
  <2> QED BY <2>2, <2>3
<1> HIDE DEF read, cells, bp
<1>5. Enumerates(read, image)
  BY <1>3, <1>4
<1> QED BY <1>1, <1>2, <1>5, ListLoads

------------------------------------------------------------------------------
(* The answers about lists and images *)

Size      == getSizeOfInt(question.width, question.height)
ListBack  == decompressFlipped(compressFlippedTo(question.cells, Size), Size)
ImageBack == decompressMatrix(compressMatrix(question.image))

\* The cells of a question about a list fit into the bytes of its image, and the
\* answer is what the two functions return.
ListInv ==
  question.about = "list" =>
    /\ Size \in 1..4 /\ ShortList(question.cells, 2, Size)
    /\ answer # Unanswered => answer = [cells |-> ListBack]

\* The same for an image.
ImageInv ==
  question.about = "image" =>
    /\ question.image \in SUBSET Cell
    /\ answer # Unanswered => answer = [matrix |-> ImageBack]

\* A list of cells that is asked about fits, and is answered so.
LEMMA AnswersList == SurveySpec => []ListInv
<1>1. SurveyInit => ListInv
  <2> SUFFICES ASSUME SurveyInit, question.about = "list" PROVE ListInv
    BY DEF ListInv
  <2>1. answer = Unanswered /\ AskList
    BY AsksAbout DEF SurveyInit
  <2>2. PICK width \in Lengths, height \in Lengths :
          \E x \in {0, width \div 2, width - 1}, y \in {0, height \div 2, height - 1} :
            question = [about |-> "list", width |-> width, height |-> height,
                        cells |-> <<<<x, y>>, <<width - 1, height - 1>>>>]
    BY <2>1 DEF AskList
  <2>3. PICK x \in {0, width \div 2, width - 1}, y \in {0, height \div 2, height - 1} :
          question = [about |-> "list", width |-> width, height |-> height,
                      cells |-> <<<<x, y>>, <<width - 1, height - 1>>>>]
    BY <2>2
  <2>4. /\ width \in Nat \ {0} /\ width <= Largest[4]
        /\ height \in Nat \ {0} /\ height <= Largest[4]
    BY BoundsAssumption
  <2>5. x \in 0..width - 1 /\ y \in 0..height - 1
    <3>1. \A n \in Nat \ {0} : n \div 2 \in 0..n - 1 /\ 0 \in 0..n - 1 /\ n - 1 \in 0..n - 1
      OBVIOUS
    <3> QED BY <2>4, <3>1
  <2> DEFINE size  == getSizeOfInt(width, height)
             cells == <<<<x, y>>, <<width - 1, height - 1>>>>
  <2>6. size \in 1..4 /\ width <= Largest[size] /\ height <= Largest[size]
    BY <2>4, SizeFits
  <2>7. question.cells = cells /\ Size = size
    BY <2>3 DEF Size
  <2> HIDE DEF size
  <2>8. Largest[size] \in Nat
    <3>1. Largest[1] \in Nat /\ Largest[2] \in Nat /\ Largest[3] \in Nat /\ Largest[4] \in Nat
      BY SMT DEF Largest
    <3>2. size = 1 \/ size = 2 \/ size = 3 \/ size = 4
      BY <2>6
    <3> QED BY <3>1, <3>2
  <2>9. ShortList(cells, 2, size)
    <3>1. \A i \in 1..2 : /\ cells[i] = <<cells[i][1], cells[i][2]>>
                          /\ cells[i][1] \in Nat /\ cells[i][1] <= Largest[size]
                          /\ cells[i][2] \in Nat /\ cells[i][2] <= Largest[size]
      <4>1. cells[1] = <<x, y>> /\ cells[2] = <<width - 1, height - 1>>
        OBVIOUS
      <4>2. \A i \in 1..2 : i = 1 \/ i = 2
        OBVIOUS
      <4>3. /\ x \in Nat /\ x <= Largest[size] /\ y \in Nat /\ y <= Largest[size]
            /\ width - 1 \in Nat /\ width - 1 <= Largest[size]
            /\ height - 1 \in Nat /\ height - 1 <= Largest[size]
        BY <2>4, <2>5, <2>6, <2>8
      <4> HIDE DEF cells
      <4> QED BY <4>1, <4>2, <4>3
    <3>2. cells = [i \in 1..2 |-> cells[i]] /\ Len(cells) = 2
      OBVIOUS
    <3> HIDE DEF cells
    <3>3. cells = [i \in 1..2 |-> <<cells[i][1], cells[i][2]>>]
      BY <3>1, <3>2
    <3> QED BY <3>1, <3>2, <3>3 DEF ShortList
  <2> QED BY <2>1, <2>6, <2>7, <2>9 DEF ListInv
<1>2. ListInv /\ [Answer]_surveyVars => ListInv'
  <2> SUFFICES ASSUME ListInv, [Answer]_surveyVars, question'.about = "list"
               PROVE  ListInv'
    BY DEF ListInv
  <2>1. question' = question
    BY DEF Answer, surveyVars
  <2>2. Size' = Size /\ ListBack' = ListBack
    BY <2>1 DEF Size, ListBack
  <2>3. answer' = answer \/ answer' = [cells |-> ListBack]
    <3>1. CASE UNCHANGED surveyVars
      BY <3>1 DEF surveyVars
    <3>2. CASE Answer
      <4>1. AnswerList
        BY <2>1, <3>2 DEF Answer, AnswerDivision, AnswerImage
      <4> QED BY <4>1 DEF AnswerList, ListBack, Size
    <3> QED BY <3>1, <3>2
  <2>4. /\ Size \in 1..4 /\ ShortList(question.cells, 2, Size)
        /\ answer # Unanswered => answer = [cells |-> ListBack]
    BY <2>1 DEF ListInv
  <2>5. /\ Size' \in 1..4 /\ ShortList(question'.cells, 2, Size')
        /\ answer' # Unanswered' => answer' = [cells |-> ListBack']
    BY <2>1, <2>2, <2>3, <2>4 DEF Unanswered
  <2> QED BY <2>5 DEF ListInv, ShortList
<1> QED BY <1>1, <1>2, PTL DEF SurveySpec

\* An image that is asked about is one, and is answered so.
LEMMA AnswersImage == SurveySpec => []ImageInv
<1>1. SurveyInit => ImageInv
  <2> SUFFICES ASSUME SurveyInit, question.about = "image" PROVE ImageInv
    BY DEF ImageInv
  <2>1. answer = Unanswered /\ AskImage
    BY AsksAbout DEF SurveyInit
  <2>2. question.image \in SUBSET Cell
    BY <2>1 DEF AskImage
  <2> QED BY <2>1, <2>2 DEF ImageInv
<1>2. ImageInv /\ [Answer]_surveyVars => ImageInv'
  <2> SUFFICES ASSUME ImageInv, [Answer]_surveyVars, question'.about = "image"
               PROVE  ImageInv'
    BY DEF ImageInv
  <2>1. question' = question
    BY DEF Answer, surveyVars
  <2>2. ImageBack' = ImageBack
    BY <2>1 DEF ImageBack
  <2>3. answer' = answer \/ answer' = [matrix |-> ImageBack]
    <3>1. CASE UNCHANGED surveyVars
      BY <3>1 DEF surveyVars
    <3>2. CASE Answer
      <4>1. AnswerImage
        BY <2>1, <3>2 DEF Answer, AnswerDivision, AnswerList
      <4> QED BY <4>1 DEF AnswerImage, ImageBack
    <3> QED BY <3>1, <3>2
  <2> QED BY <2>1, <2>2, <2>3 DEF ImageInv, Unanswered
<1> QED BY <1>1, <1>2, PTL DEF SurveySpec

\* What the three programs send each other is read as it was written: lists of
\* cells, whatever the sides of their image, and the image that the broker makes
\* its matrix of, as bits or as a list (compression.go of gol, broker and worker).
THEOREM DataSurvivesTravel == SurveySpec => []DataSurvives
<1>1. ListInv => ListsSurvive
  <2> SUFFICES ASSUME ListInv, Answered("list") PROVE answer.cells = question.cells
    BY DEF ListsSurvive
  <2>1. Size \in 1..4 /\ ShortList(question.cells, 2, Size) /\ answer.cells = ListBack
    BY DEF ListInv, Answered
  <2>2. ListBack = question.cells
    BY <2>1, ListRead DEF ListBack
  <2> QED BY <2>1, <2>2
<1>2. ImageInv => ImageSurvives
  <2> SUFFICES ASSUME ImageInv, Answered("image") PROVE answer.matrix = Loaded(question.image)
    BY DEF ImageSurvives
  <2>1. question.image \in SUBSET Cell /\ answer.matrix = ImageBack
    BY DEF ImageInv, Answered
  <2>2. Width <= Largest[4] /\ Height <= Largest[4]
    BY BoundsAssumption
  <2>3. ImageBack = Loaded(question.image)
    BY <2>1, <2>2, ImageRead DEF ImageBack
  <2> QED BY <2>1, <2>3
<1> QED BY <1>1, <1>2, AnswersList, AnswersImage, PTL DEF DataSurvives
==============================================================================
