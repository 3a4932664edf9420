------------------------------- MODULE MCBroker -------------------------------
(* Two worker nodes and two runs of a controller, which may come together or   *)
(* one after the other.                                                        *)
EXTENDS Broker

CONSTANTS n1, n2, n3

\* Bound: when a second controller comes, two things may go wrong or be asked for
\* in all, nodes lost and keys pressed.
Trouble == losses + keys[1] + keys[2]

\* The nodes are alike: the first one that is lost is called n1.
Within ==
  /\ ctrl[2] # "new" => Trouble <= 2
  /\ losses > 0 => node[n1] \in {"down", "gone"}

MCSpec == BrokerInit /\ [][BrokerNext /\ Within']_vars /\ BrokerFairness
==============================================================================
