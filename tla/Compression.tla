------------------------------ MODULE Compression ------------------------------
(***************************************************************************)
(* What travels between controller, broker and worker nodes: an image as   *)
(* bits or as a list of its living cells, and flips as lists of cells      *)
(* (compression.go of gol, broker and worker).                             *)
(*                                                                         *)
(* A byte of a list is a number; a byte of bits is the set of its ones.    *)
(* The three programs agree on SizeInt, the bytes of one coordinate.       *)
(***************************************************************************)
EXTENDS Torus, Sequences, SequencesExt

\* One byte, two, three and four; sides of 2^31 cells and more are left out.
Largest == <<127, 32767, 8388607, 2147483647>>   \* 0x7F, 0x7FFF, 0x7FFFFF, 0x7FFFFFFF

\* Mutant: the height is not looked at.
getSizeOfIntByWidth(width, height) ==
  CHOOSE size \in 1..4 : width <= Largest[size] /\ \A s \in 1..size - 1 : Largest[s] < width

getSizeOfInt(width, height) ==
  CHOOSE size \in 1..4 : /\ width <= Largest[size] /\ height <= Largest[size]
                         /\ \A s \in 1..size - 1 : Largest[s] < width \/ Largest[s] < height

\* What a one in byte j counts: 1 << (8 * (j - 1)).
Weight == <<1, 256, 65536, 16777216>>

\* Little-endian, without a sign.
Bytes(n, size) == [j \in 1..size |-> (n \div Weight[j]) % 256]

Number(bytes) ==
  LET sum[j \in 0..Len(bytes)] == IF j = 0 THEN 0 ELSE sum[j - 1] + bytes[j] * Weight[j]
  IN  sum[Len(bytes)]

compressFlippedTo(flipped, size) ==
  FlattenSeq([i \in DOMAIN flipped |-> Bytes(flipped[i][1], size) \o Bytes(flipped[i][2], size)])

decompressFlipped(data, size) ==
  [i \in 1..Len(data) \div (2 * size) |->
     LET first == 2 * size * (i - 1)
     IN  <<Number(SubSeq(data, first + 1, first + size)),
           Number(SubSeq(data, first + size + 1, first + 2 * size))>>]

\* The pixels of a file are its rows, one after the other.
Place(c)  == c[2] * Width + c[1]
Area      == Width * Height

CellAt(i) == <<i % Width, i \div Width>>

Bits(image) ==
  [b \in 1..Area \div 8 + 1 |->
     {Place(c) % 8 : c \in {d \in image : Place(d) \div 8 = b - 1}}]

\* The members of s that are in S, in their order.
Chosen(s, S) ==
  LET kept[i \in 0..Len(s)] ==
        IF i = 0 THEN <<>> ELSE IF s[i] \in S THEN Append(kept[i - 1], s[i]) ELSE kept[i - 1]
  IN  kept[Len(s)]

\* All cells, row by row.
AllCells == [i \in 1..Area |-> CellAt(i - 1)]

Nil == <<>>

\* The bits, when they are not longer than the list.
compressMatrix(image) ==
  LET size == getSizeOfInt(Width, Height)
      bits == Area \div 8 + 1 <= 2 * size * Cardinality(image)
  IN  [SizeInt  |-> size,
       Pixels   |-> IF bits THEN Bits(image) ELSE Nil,
       Initials |-> IF bits THEN Nil ELSE compressFlippedTo(Chosen(AllCells, image), size)]

\* The broker sets the pixels of the cells it was given, and each of them adds
\* one at its surrounding cells.
decompressMatrix(bp) ==
  LET set(c) == Place(c) % 8 \in bp.Pixels[Place(c) \div 8 + 1]
      cells  == IF bp.Pixels # Nil THEN Chosen(AllCells, {c \in Cell : set(c)})
                                   ELSE decompressFlipped(bp.Initials, bp.SizeInt)
  IN  [pixels |-> ToSet(cells),
       counts |-> [c \in Cell |-> Cardinality({p \in (DOMAIN cells) \X Offset :
                                              getSurrounding[cells[p[1]]][p[2]] = c})]]
==============================================================================
