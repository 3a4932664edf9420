---------------------------- MODULE MCParallelTurn ----------------------------
(* Four workers on a 6x6 grid cut into 3x3 blocks: every block has one safe    *)
(* cell, and boundary flips reach all three other blocks, across the seams and *)
(* around the edges of the torus.                                              *)
EXTENDS ParallelTurn

\* A glider over the seam of all four blocks and an image that keeps a safe
\* cell and a corner busy.
Glider == {<<2, 1>>, <<3, 2>>, <<1, 3>>, <<2, 3>>, <<3, 3>>}
Corner == {<<0, 0>>, <<5, 0>>, <<0, 5>>, <<4, 4>>, <<4, 5>>, <<1, 1>>}

MCImages == {Glider, Corner}

\* The program stops when every goroutine has returned.
Terminated ==
  /\ dist = "stopped"
  /\ \A i \in Thread : worker[i] = "exited"
  /\ UNCHANGED turnVars

MCSpec == TurnInit /\ [][TurnNext \/ Terminated]_turnVars
==============================================================================
