------------------------------ MODULE MCExchange ------------------------------
(* Six 3x2 blocks on a 6x6 grid, dealt to one to four nodes; nine 2x2 blocks   *)
(* when there are nine threads.                                                *)
EXTENDS Exchange

Glider == {<<2, 1>>, <<3, 2>>, <<1, 3>>, <<2, 3>>, <<3, 3>>}
Corner == {<<0, 0>>, <<5, 0>>, <<0, 5>>, <<4, 4>>, <<4, 5>>, <<1, 1>>}

\* A blinker beside the ninth 2x2 block, which it enters in the first turn.
Blinker == {<<3, 3>>, <<3, 4>>, <<3, 5>>}

MCImages == {Glider, Corner}
MCBlinker == {Blinker}
==============================================================================
