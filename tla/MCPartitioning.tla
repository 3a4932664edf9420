----------------------------- MODULE MCPartitioning -----------------------------
(* The functions that several programs must agree on, asked once for every     *)
(* input within the bounds: how an image is divided and dealt, and what the    *)
(* other side reads of an image or a list of cells that was sent.              *)
EXTENDS Partitioning, Compression

CONSTANTS MaxThreads, MaxSize, MaxNodes,    \* bounds of the divisions
          Lengths                           \* widths and heights for the lists

\* Four bytes are enough for every side.
ASSUME BoundsAssumption ==
  /\ MaxThreads \in Nat /\ MaxSize \in Nat /\ MaxNodes \in Nat
  /\ \A n \in Lengths \cup {Width, Height} : n \in Nat \ {0} /\ n <= Largest[4]

VARIABLES question, answer

surveyVars == <<question, answer>>

Unanswered == [blocks |-> <<>>]

AskDivision ==
  \E threads \in 1..MaxThreads, width \in 2..MaxSize, height \in 2..MaxSize, nodes \in 1..MaxNodes :
    question = [about |-> "division", threads |-> threads, width |-> width,
                height |-> height, nodes |-> nodes]

\* Two cells of the image, the last one among them, and the corners in between.
AskList ==
  \E width \in Lengths, height \in Lengths :
    \E x \in {0, width \div 2, width - 1}, y \in {0, height \div 2, height - 1} :
      question = [about |-> "list", width |-> width, height |-> height,
                  cells |-> <<<<x, y>>, <<width - 1, height - 1>>>>]

\* Up to two cells alive, or all but one.
AskImage ==
  \E c \in Cell, d \in Cell : \E image \in {{}, {c, d}, Cell \ {c}} :
    question = [about |-> "image", image |-> image]

SurveyInit == (AskDivision \/ AskList \/ AskImage) /\ answer = Unanswered

AnswerDivision ==
  /\ question.about = "division"
  /\ LET cut == divideToBlocks(question.threads, question.width, question.height)
     IN  answer' = [blocks |-> cut, assignments |-> partitioning(question.nodes, cut)]

AnswerList ==
  /\ question.about = "list"
  /\ LET size == getSizeOfInt(question.width, question.height)
     IN  answer' = [cells |-> decompressFlipped(compressFlippedTo(question.cells, size), size)]

AnswerImage ==
  /\ question.about = "image"
  /\ answer' = [matrix |-> decompressMatrix(compressMatrix(question.image))]

Answer ==
  /\ answer = Unanswered
  /\ AnswerDivision \/ AnswerList \/ AnswerImage
  /\ UNCHANGED question

SurveySpec == SurveyInit /\ [][Answer]_surveyVars

------------------------------------------------------------------------------
(* Properties *)

Answered(about) == question.about = about /\ answer # Unanswered

blocks  == answer.blocks
Widths  == {b.end[1] - b.start[1] : b \in ToSet(blocks)}
Heights == {b.end[2] - b.start[2] : b \in ToSet(blocks)}

Covers(b, x, y) == x \in b.start[1]..b.end[1] - 1 /\ y \in b.start[2]..b.end[2] - 1

\* Every cell of the image is in exactly one block, whatever the number of
\* threads and the rounding: otherwise cells freeze or are evaluated twice.
Tiles ==
  Answered("division") =>
    \A x \in 0..question.width - 1, y \in 0..question.height - 1 :
      \E k \in DOMAIN blocks :
        /\ Covers(blocks[k], x, y)
        /\ \A j \in DOMAIN blocks \ {k} : ~Covers(blocks[j], x, y)

\* README.md:27, "evenly sized rectangular blocks": widths and heights differ
\* by at most one; and when the image has two cells per block in each direction
\* every block is at least 2x2, which the loops of the workers rely on.
EvenBlocks ==
  Answered("division") =>
    /\ \A a, b \in Widths : a - b <= 1
    /\ \A a, b \in Heights : a - b <= 1
    /\ question.width >= 2 * Horizontal(Len(blocks)) /\ question.height >= 2 * Vertical(Len(blocks))
         => \A a \in Widths \cup Heights : a >= 2

\* There are never more blocks than threads, at most one thread of four and
\* more is left without a block, and the blocks form no strip of a composite.
ThreadsUsed ==
  Answered("division") =>
    /\ Len(blocks) \in {question.threads, question.threads - 1}
    /\ Len(blocks) > 3 => Horizontal(Len(blocks)) > 1 /\ Vertical(Len(blocks)) > 1

\* What every worker relies on in its block, for every division.
DivisionCorrect == Tiles /\ EvenBlocks /\ ThreadsUsed

\* Dealing loses no block and repeats none, no node gets an empty partition,
\* and the shares differ by at most one block.
DealtOnce ==
  Answered("division") =>
    /\ FlattenSeq(answer.assignments) = blocks
    /\ Len(answer.assignments) <= question.nodes
    /\ \A p, q \in ToSet(answer.assignments) : Len(p) > 0 /\ Len(p) - Len(q) <= 1

\* A list of cells is read as it was written, by every program and for images
\* on both sides of 127 and 32767 cells, where a coordinate takes one byte more
\* (worker/compression.go:4-16, gol/compression.go:43-56).
ListsSurvive == Answered("list") => answer.cells = question.cells

\* The broker's matrix is the image the controller loaded, with exact counts,
\* whether it was sent as bits or as a list (gol/compression.go:15-40,
\* broker/compression.go:31-74).
ImageSurvives == Answered("image") => answer.matrix = Loaded(question.image)

\* The three programs read what the others wrote.
DataSurvives == ListsSurvive /\ ImageSurvives
==============================================================================
