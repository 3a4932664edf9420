--------------------------- MODULE MCParallelEngine ---------------------------
(* Two workers on a 4x4 grid of two 4x2 blocks: every cell is on a boundary,   *)
(* and both blocks touch each other on both sides.                             *)
EXTENDS ParallelEngine

\* An image that keeps changing and has its corner <<0, 0>> alive.
MCImages == {{<<0, 0>>, <<1, 0>>, <<2, 1>>, <<1, 2>>, <<3, 3>>}}

\* main returned: the consumer left, or every goroutine ended.
Terminated ==
  /\ ~view.open
  /\ loc = "returned"
  /\ \A i \in Thread : worker[i] = "exited"
  /\ UNCHANGED vars

MCSpec == EngineInit /\ [][EngineNext \/ Terminated]_vars /\ EngineFairness
==============================================================================
