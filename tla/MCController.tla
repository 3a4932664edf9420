----------------------------- MODULE MCController -----------------------------
(* Two turns of up to two flip messages, a stream that holds two messages, two *)
(* keys and two failures of nodes.                                             *)
EXTENDS Controller

\* The controller's process ended, or nothing moves until another key.
Terminated ==
  /\ \/ at = "panicked"
     \/ at = "ended" /\ io = "exited"
     \/ paused \/ Standoff \/ call.at = "lost" \/ bat = "stranded"
  /\ UNCHANGED allVars

MCSpec == ControllerInit /\ [][ControllerNext \/ Terminated]_allVars /\ ControllerFairness
==============================================================================
