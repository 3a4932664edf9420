---------------------------- MODULE ParallelEngine ----------------------------
(***************************************************************************)
(* The whole parallel program: the evaluation of ParallelTurn, the two     *)
(* bounded channels that join it to the window (events, keyPresses), the   *)
(* ticker, the key handling of the distributor, the image files, and the   *)
(* consumer of parallel/sdl/loop.go.                                       *)
(*                                                                         *)
(* Everything the user sees is replayed from events: the window holds no   *)
(* world, it toggles the pixels of the CellsFlipped it receives, in the    *)
(* order in which N workers and the distributor got hold of one channel.   *)
(***************************************************************************)
EXTENDS ParallelTurn, Sequences, SequencesExt

CONSTANTS
  EventCap,        \* capacity of events (1000 in main.go)
  KeyCap,          \* capacity of keyPresses (10 in main.go)
  Keys,            \* keys a user presses
  MaxPresses,      \* bound: key presses of one run
  MaxTicks         \* bound: ticks of the 2 s ticker

ASSUME ChannelAssumption == EventCap \in Nat \ {0} /\ KeyCap \in Nat \ {0}

VARIABLES
  image,           \* the image that was loaded
  loc,             \* the statement the distributor is at
  outbox,          \* the event the distributor is sending, at most one
  pause_flag,
  wturn,           \* each worker's own turn counter
  tick,            \* a tick waits in the ticker's channel
  ticks,           \* ticks so far
  disk,            \* the images written for each turn, at most one
  events, closed,  \* the events channel
  keyPresses,      \* the key channel
  headless,        \* main's flag: RunHeadless instead of Run
  presses,         \* keys pressed so far
  signalled,       \* SIGTERM or SIGINT arrived
  pressing,        \* the key the window is sending, at most one
  view             \* what the consumer knows: its pixels, its turn, its state

engineVars == <<image, loc, outbox, pause_flag, wturn, tick, ticks, disk>>
windowVars == <<headless, presses, signalled, pressing, view>>
channels   == <<events, closed, keyPresses>>
vars       == <<turnVars, engineVars, windowVars, channels>>

\* Mutant: an odd number of zero cells.
OddPadding == 1023

Padding == 1024      \* zero cells in front of the first CellsFlipped

CellsFlipped(t, cells)    == [type |-> "CellsFlipped", turn |-> t, cells |-> cells, zeros |-> 0]
InitialFlips(cells)       == [CellsFlipped(0, cells) EXCEPT !.zeros = Padding]
TurnComplete(t)           == [type |-> "TurnComplete", turn |-> t]
AliveCellsCount(t, n)     == [type |-> "AliveCellsCount", turn |-> t, count |-> n]
StateChange(t, s)         == [type |-> "StateChange", turn |-> t, state |-> s]
ImageOutputComplete(t)    == [type |-> "ImageOutputComplete", turn |-> t]
FinalTurnComplete(t, c)   == [type |-> "FinalTurnComplete", turn |-> t, cells |-> c]

EngineInit ==
  /\ TurnInit
  /\ image = matrix.pixels
  /\ loc = "load"
  /\ outbox = <<>>
  /\ pause_flag = FALSE
  /\ wturn = [i \in Thread |-> 0]
  /\ tick = FALSE
  /\ ticks = 0
  /\ disk = [t \in 0..Turns |-> {}]
  /\ events = <<>>
  /\ closed = FALSE
  /\ keyPresses = <<>>
  /\ headless \in BOOLEAN
  /\ presses = 0
  /\ signalled = FALSE
  /\ pressing = <<>>
  /\ view = [open |-> TRUE, pixels |-> {}, turn |-> 0, state |-> "Loading"]

------------------------------------------------------------------------------
(* The distributor: it goes on only when its last event was accepted        *)

At(l) == loc = l /\ outbox = <<>>

\* c.events <- e, and then on to statement l
Emit(e, l) == outbox' = <<e>> /\ loc' = l

\* The channel takes the event as soon as it has room.
Accept ==
  /\ outbox # <<>>
  /\ Len(events) < EventCap
  /\ events' = events \o outbox
  /\ outbox' = <<>>
  /\ UNCHANGED <<turnVars, image, loc, pause_flag, wturn, tick, ticks, disk, windowVars, closed, keyPresses>>

Load ==
  /\ At("load")
  /\ Emit(InitialFlips(image), "spawn")
  /\ UNCHANGED <<turnVars, image, pause_flag, wturn, tick, ticks, disk, windowVars, channels>>

CreateWorker ==
  /\ At("spawn")
  /\ SpawnWorker
  /\ UNCHANGED <<engineVars, windowVars, channels>>

Announce ==
  /\ At("spawn")
  /\ dist = "exclusive"
  /\ Emit(StateChange(turn, "Executing"), "loop")
  /\ UNCHANGED <<turnVars, image, pause_flag, wturn, tick, ticks, disk, windowVars, channels>>

Begin ==
  /\ At("loop")
  /\ StartTurn
  /\ loc' = "turn"
  /\ UNCHANGED <<image, outbox, pause_flag, wturn, tick, ticks, disk, windowVars, channels>>

Merge ==
  /\ At("turn")
  /\ \E i \in Thread : MergeResult(i)
  /\ UNCHANGED <<engineVars, windowVars, channels>>

Complete ==
  /\ At("turn")
  /\ EndTurn
  /\ Emit(TurnComplete(turn'), "handle")
  /\ UNCHANGED <<image, pause_flag, wturn, tick, ticks, disk, windowVars, channels>>

\* Mutant: a paused distributor begins the next turn.
AfterHandlingUnpaused(paused) == "loop"

\* if pause_flag { goto handle }
AfterHandling(paused) == IF paused THEN "handle" ELSE "loop"

HandleTick ==
  /\ At("handle")
  /\ tick
  /\ tick' = FALSE
  /\ Emit(AliveCellsCount(turn, count), AfterHandling(pause_flag))
  /\ UNCHANGED <<turnVars, image, pause_flag, wturn, ticks, disk, windowVars, channels>>

\* Mutant: the next matrix is written.
WriteBack(l) ==
  /\ disk' = [disk EXCEPT ![turn] = {buf[1 - front].pixels}]
  /\ Emit(ImageOutputComplete(turn), l)

\* The file is on the disk before the event: waitIoRequest (see IoThread).
Write(l) ==
  /\ disk' = [disk EXCEPT ![turn] = {matrix.pixels}]
  /\ Emit(ImageOutputComplete(turn), l)

\* Mutant: q only breaks out of the select.
HandleKeyBreak ==
  /\ At("handle")
  /\ keyPresses # <<>>
  /\ keyPresses' = Tail(keyPresses)
  /\ LET char == Head(keyPresses)
     IN  \/ /\ char = "s"
            /\ Write(AfterHandling(pause_flag))
            /\ UNCHANGED pause_flag
         \/ /\ char = "p"
            /\ pause_flag' = ~pause_flag
            /\ Emit(StateChange(turn, IF pause_flag' THEN "Paused" ELSE "Executing"),
                    AfterHandling(pause_flag'))
            /\ UNCHANGED disk
         \/ /\ char \notin {"s", "p"}
            /\ loc' = AfterHandling(pause_flag)
            /\ UNCHANGED <<outbox, pause_flag, disk>>
  /\ UNCHANGED <<turnVars, image, wturn, tick, ticks, windowVars, events, closed>>

HandleKey ==
  /\ At("handle")
  /\ keyPresses # <<>>
  /\ keyPresses' = Tail(keyPresses)
  /\ LET char == Head(keyPresses)
     IN  \/ /\ char = "s"
            /\ Write(AfterHandling(pause_flag))
            /\ UNCHANGED pause_flag
         \/ /\ char = "p"
            /\ pause_flag' = ~pause_flag
            /\ Emit(StateChange(turn, IF pause_flag' THEN "Paused" ELSE "Executing"),
                    AfterHandling(pause_flag'))
            /\ UNCHANGED disk
         \/ /\ char = "q"
            /\ loc' = "quit"
            /\ UNCHANGED <<outbox, pause_flag, disk>>
         \/ /\ char \notin {"s", "p", "q"}
            /\ loc' = AfterHandling(pause_flag)
            /\ UNCHANGED <<outbox, pause_flag, disk>>
  /\ UNCHANGED <<turnVars, image, wturn, tick, ticks, windowVars, events, closed>>

\* The default of the select, taken only when no other case is ready.
HandleNothing ==
  /\ At("handle")
  /\ ~tick
  /\ keyPresses = <<>>
  /\ loc' = AfterHandling(pause_flag)
  /\ UNCHANGED <<turnVars, image, outbox, pause_flag, wturn, tick, ticks, disk, windowVars, channels>>

\* Label quit.  cells has count entries: with fewer than the living cells the
\* loop would index past its end, with more it would end in zero cells.
Finish ==
  /\ At("quit") \/ (At("loop") /\ turn = Turns)
  /\ Quit
  /\ count >= Cardinality(matrix.pixels)
  /\ Emit(FinalTurnComplete(turn, IF count = Cardinality(matrix.pixels)
                                  THEN matrix.pixels ELSE matrix.pixels \cup {<<0, 0>>}), "save")
  /\ UNCHANGED <<image, pause_flag, wturn, tick, ticks, disk, windowVars, channels>>

\* Mutant: the last world is announced, not written.
SaveLastUnwritten ==
  /\ At("save")
  /\ Emit(ImageOutputComplete(turn), "bye")
  /\ UNCHANGED <<turnVars, image, pause_flag, wturn, tick, ticks, disk, windowVars, channels>>

SaveLast ==
  /\ At("save")
  /\ Write("bye")
  /\ UNCHANGED <<turnVars, image, pause_flag, wturn, tick, ticks, windowVars, channels>>

Bye ==
  /\ At("bye")
  /\ Emit(StateChange(turn, "Quitting"), "close")
  /\ UNCHANGED <<turnVars, image, pause_flag, wturn, tick, ticks, disk, windowVars, channels>>

\* Mutant: the events channel is left open.
CloseNothing ==
  /\ At("close")
  /\ loc' = "returned"
  /\ UNCHANGED <<turnVars, image, outbox, pause_flag, wturn, tick, ticks, disk, windowVars, channels>>

Close ==
  /\ At("close")
  /\ closed' = TRUE
  /\ loc' = "returned"
  /\ UNCHANGED <<turnVars, image, outbox, pause_flag, wturn, tick, ticks, disk, windowVars, events, keyPresses>>

\* time.NewTicker: a tick is dropped while one is waiting.
Tick ==
  /\ loc \notin {"load", "spawn", "returned"}
  /\ ticks < MaxTicks
  /\ ticks' = ticks + 1
  /\ tick' = TRUE
  /\ UNCHANGED <<turnVars, image, loc, outbox, pause_flag, wturn, disk, windowVars, channels>>

------------------------------------------------------------------------------
(* The workers: a worker swaps, sends its flips and counts its turn          *)

\* Mutant: the worker counts its turn before it sends.
PublishAhead(i) ==
  /\ Swap(i)
  /\ Len(events) < EventCap
  /\ wturn' = [wturn EXCEPT ![i] = @ + 1]
  /\ events' = Append(events, CellsFlipped(wturn'[i], flipping[i]))
  /\ UNCHANGED <<image, loc, outbox, pause_flag, tick, ticks, disk, windowVars, closed, keyPresses>>

Publish(i) ==
  /\ Swap(i)
  /\ Len(events) < EventCap
  /\ events' = Append(events, CellsFlipped(wturn[i], flipping[i]))
  /\ wturn' = [wturn EXCEPT ![i] = @ + 1]
  /\ UNCHANGED <<image, loc, outbox, pause_flag, tick, ticks, disk, windowVars, closed, keyPresses>>

Compute(i) ==
  /\ EnterLoop(i) \/ CleanUp(i) \/ EvaluateSafe(i) \/ EvaluateEdge(i) \/ Handshake(i)
  /\ UNCHANGED <<engineVars, windowVars, channels>>

------------------------------------------------------------------------------
(* The consumer of the events: the window, or RunHeadless                    *)

\* FlipPixel toggles a pixel; an even number of zero cells leaves <<0, 0>> alone.
Toggled(pixels, e) ==
  SymDiff(SymDiff(pixels, e.cells), IF e.zeros % 2 = 1 THEN {<<0, 0>>} ELSE {})

Shown(v, e) ==
  CASE e.type = "CellsFlipped" -> [v EXCEPT !.pixels = Toggled(@, e)]
    [] e.type = "TurnComplete" -> [v EXCEPT !.turn = e.turn]
    [] e.type = "StateChange"  ->
         [v EXCEPT !.state = e.state, !.open = headless \/ e.state # "Quitting"]
    [] OTHER -> v

Receive ==
  /\ view.open
  /\ pressing = <<>>
  /\ events # <<>>
  /\ view' = Shown(view, Head(events))
  /\ events' = Tail(events)
  /\ UNCHANGED <<turnVars, engineVars, headless, presses, signalled, pressing, closed, keyPresses>>

SeeClosed ==
  /\ view.open
  /\ pressing = <<>>
  /\ events = <<>>
  /\ closed
  /\ view' = [view EXCEPT !.open = FALSE]
  /\ UNCHANGED <<turnVars, engineVars, headless, presses, signalled, pressing, channels>>

\* The window polls a key and, in the same branch, sends it: until keyPresses
\* has room the window receives nothing.
Press ==
  /\ view.open
  /\ ~headless
  /\ pressing = <<>>
  /\ presses < MaxPresses
  /\ presses' = presses + 1
  /\ \E k \in Keys : pressing' = <<k>>
  /\ UNCHANGED <<turnVars, engineVars, headless, signalled, view, channels>>

SendKey ==
  /\ pressing # <<>>
  /\ Len(keyPresses) < KeyCap
  /\ keyPresses' = keyPresses \o pressing
  /\ pressing' = <<>>
  /\ UNCHANGED <<turnVars, engineVars, headless, presses, signalled, view, events, closed>>

\* main.go's goroutine sigterm, which sends one q.
Sigterm ==
  /\ ~signalled
  /\ Len(keyPresses) < KeyCap
  /\ signalled' = TRUE
  /\ keyPresses' = Append(keyPresses, "q")
  /\ UNCHANGED <<turnVars, engineVars, headless, presses, pressing, view, events, closed>>

------------------------------------------------------------------------------
Distributor ==
  \/ Accept \/ Load \/ CreateWorker \/ Announce \/ Begin \/ Merge \/ Complete
  \/ HandleTick \/ HandleKey \/ HandleNothing \/ Finish \/ SaveLast \/ Bye \/ Close

Worker(i) == Publish(i) \/ Compute(i)
Consume   == Receive \/ SeeClosed \/ SendKey

EngineNext ==
  \/ Distributor \/ Consume
  \/ Press \/ Sigterm \/ Tick
  \/ \E i \in Thread : Worker(i)

\* Goroutines that can run do; a goroutine that waits for the mutex or for
\* room in a channel, which Go serves in order, gets it when it keeps coming.
EngineFairness ==
  /\ SF_vars(Distributor)
  /\ \A i \in Thread : SF_vars(Worker(i))
  /\ WF_vars(Consume)

EngineSpec == EngineInit /\ [][EngineNext]_vars /\ EngineFairness

------------------------------------------------------------------------------
(* Properties *)

\* The worlds of the loaded image, by the rules alone.
World[t \in 0..Turns] == IF t = 0 THEN image ELSE Generation(World[t - 1])

\* Type invariant of the engine's own variables.
EngineTypeOK ==
  /\ outbox = <<>> \/ Len(outbox) = 1
  /\ pause_flag \in BOOLEAN
  /\ wturn \in [Thread -> 0..Turns]
  /\ DOMAIN disk = 0..Turns /\ \A t \in 0..Turns : disk[t] \subseteq SUBSET Cell
  /\ Len(events) <= EventCap /\ Len(keyPresses) <= KeyCap
  /\ view.pixels \subseteq Cell /\ view.turn \in 0..Turns

NextEvent(type) == view.open /\ events # <<>> /\ Head(events).type = type

\* "All CellFlipped or CellsFlipped events must be sent *before* TurnComplete"
\* (event.go:66-68): when TurnComplete t reaches the window, the pixels it
\* toggled are exactly generation t: no flip of turn t is behind it, none of
\* turn t + 1 was ahead of it, and the zero cells of the first event cancel.
WholeFrames ==
  /\ EngineTypeOK
  /\ NextEvent("TurnComplete") =>
       /\ Head(events).turn = view.turn + 1
       /\ view.pixels = World[Head(events).turn]

\* The workers number their flips with counters of their own: every CellsFlipped
\* carries the number of the turns the receiver has seen completed.
FlipsInTurn ==
  NextEvent("CellsFlipped") => Head(events).turn = view.turn

\* What the distributor reports between two turns is true of the frame on the
\* screen when the report gets there: the number of living cells, the file on
\* the disk, the final cells (distributor.go:102, 144, 182).
ReportsMatchFrame ==
  /\ NextEvent("AliveCellsCount") =>
       /\ Head(events).turn = view.turn
       /\ Head(events).count = Cardinality(view.pixels)
  /\ NextEvent("ImageOutputComplete") =>
       /\ Head(events).turn = view.turn
       /\ disk[view.turn] = {view.pixels}
  /\ NextEvent("FinalTurnComplete") =>
       /\ Head(events).turn = view.turn
       /\ Head(events).cells = view.pixels

\* A consumer that left has the last world on its screen and on the disk.
LastWorldSaved ==
  ~view.open => /\ view.state = "Quitting"
                /\ view.pixels = World[view.turn]
                /\ disk[view.turn] = {view.pixels}

\* While the user reads Paused nothing moves (distributor.go:153-162).
PauseFreezes ==
  [][view.state = "Paused" /\ view'.state = "Paused" => view'.pixels = view.pixels]_vars

\* The program ends after its turns, whatever is pressed and however full the
\* channels are, unless it is left paused.
Finishes == <>(~view.open) \/ <>[]pause_flag

\* A q that was accepted into keyPresses ends the program, even when it is
\* paused, behind other keys or in front of a full event channel.
QuitIsServed == (\E k \in 1..Len(keyPresses) : keyPresses[k] = "q") ~> ~view.open
==============================================================================
