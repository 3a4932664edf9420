--------------------------------- MODULE Life ---------------------------------
(***************************************************************************)
(* What the program promises: the worlds it shows are the generations of   *)
(* the image it was given, one after the other, at most Turns of them, and *)
(* a stopped game never moves again.                                       *)
(***************************************************************************)
EXTENDS Torus

CONSTANTS Turns, Images          \* images: the worlds a game may start from

VARIABLES world, turn, over

lifeVars == <<world, turn, over>>

LifeInit == world \in Images /\ turn = 0 /\ over = FALSE

Evolve ==
  /\ ~over
  /\ turn < Turns
  /\ turn' = turn + 1
  /\ world' = Generation(world)
  /\ UNCHANGED over

End == ~over /\ over' = TRUE /\ UNCHANGED <<world, turn>>

LifeNext == Evolve \/ End

LifeSpec == LifeInit /\ [][LifeNext]_lifeVars
==============================================================================
