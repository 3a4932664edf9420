------------------------------ MODULE Controller ------------------------------
(***************************************************************************)
(* The controller of the distributed program: the select loop of           *)
(* distributed/gol/distributor.go, the stream of networkio.go and the io   *)
(* goroutine, against the broker as it looks from here.                    *)
(*                                                                         *)
(* Keys travel one way as RPC calls, each of which may wait for room in    *)
(* the broker's event_chan; flips, ends of turns and the echo of every key *)
(* event come back on one ordered stream of bounded capacity.  While a     *)
(* call waits the controller does not read the stream.  When the stream    *)
(* ends Monitor closes its channels, and a closed channel of bytes yields  *)
(* 0 for ever, which is EVENT_TURN_COMPLETE.                               *)
(*                                                                         *)
(* A panic in any goroutine ends the controller: an error of Broker.Init   *)
(* or of a key call, or of the connection.  The session is the first of    *)
(* the broker, whose lock nobody holds.                                    *)
(*                                                                         *)
(* The matrix is the number of flip messages applied to it (version of     *)
(* IoThread).  The window takes every event at once.                       *)
(***************************************************************************)
EXTENDS IoThread, FiniteSets

CONSTANTS
  Turns,
  StreamCap,         \* messages that fit into the connection's buffers
  MaxFlips,          \* bound: flip messages of one turn
  MaxKeys,           \* bound: keys pressed
  MaxRecoveries      \* bound: failures of worker nodes

ASSUME ControllerAssumption ==
  /\ Turns \in Nat /\ StreamCap \in Nat \ {0}
  /\ MaxFlips \in Nat /\ MaxKeys \in Nat /\ MaxRecoveries \in Nat

VARIABLES
  at,                \* where the distributor stands
  turn, count,       \* count is the version at the last complete turn
  pause_flag,
  named,             \* the turn in the name of each file, in order
  presses,
  call,              \* the key call: its event, and where it stands
  stream, eof,       \* the connection
  bat,               \* where the broker's loop stands, or what became of it
  bturn, paused,     \* broker.turn, pause_flag of the loop
  flips,             \* flip messages of this turn still to be written
  written,           \* flip messages written
  boundary,          \* boundary[t + 1]: written when turn t was complete
  event_chan,        \* the broker's: whether it is open, and its buffer
  echo,              \* the event that is being handled
  recoveries

distVars   == <<at, turn, count, pause_flag, named, presses>>
loopVars   == <<bat, bturn, paused, flips, written, boundary, echo, recoveries>>
brokerVars == <<loopVars, event_chan>>
ioVars     == vars
allVars    == <<ioVars, distVars, call, stream, eof, brokerVars>>

Events   == {"pause", "resume", "save", "quit", "kill"}
NoCall   == [event |-> "none", at |-> "idle"]

ControllerInit ==
  /\ IoInit
  /\ at = "start" /\ turn = 0 /\ count = 0 /\ pause_flag = FALSE
  /\ named = <<>> /\ presses = 0 /\ call = NoCall
  /\ stream = <<>> /\ eof = FALSE
  /\ bat = "unasked" /\ bturn = 0 /\ paused = FALSE
  /\ flips = 0 /\ written = 0 /\ boundary = <<0>>
  /\ event_chan = [open |-> FALSE, buf |-> <<>>] /\ echo = "none"
  /\ recoveries = 0

------------------------------------------------------------------------------
(* The distributor *)

\* The image is asked for, then the connection is made.
Load ==
  /\ at = "start"
  /\ Request
  /\ at' = "loading"
  /\ UNCHANGED <<turn, count, pause_flag, named, presses, call, stream, eof, brokerVars>>

\* Broker.Init starts the evaluation, or it returns an error, at once or after
\* recoveries of its own: log.Panic, and the broker is left with the lock held.
InitReturns ==
  /\ event_chan' = [open |-> TRUE, buf |-> <<>>]
  /\ \/ bat' = "calls" /\ at' = IF Turns = 0 THEN "quit" ELSE "select"
     \/ bat' = "stranded" /\ at' = "panicked"

\* waitIoRequest; after the image the distributor calls Broker.Init.
Waited ==
  /\ at \in {"loading", "saving", "finishing"}
  /\ AwaitIo
  /\ IF dist' # "idle" THEN UNCHANGED <<at, bat, event_chan>>
     ELSE IF at = "loading" THEN InitReturns
     ELSE /\ at' = IF at = "saving" THEN "select" ELSE "closing"
          /\ UNCHANGED <<bat, event_chan>>
  /\ UNCHANGED <<turn, count, pause_flag, named, presses, call, stream, eof, bturn, paused,
                 flips, written, boundary, echo, recoveries>>

\* A key of keyPresses; the distributor waits for the call.
PressKey ==
  /\ at = "select"
  /\ presses < MaxKeys
  /\ presses' = presses + 1
  /\ \/ /\ pause_flag' = ~pause_flag
        /\ call' = [event |-> IF pause_flag THEN "resume" ELSE "pause", at |-> "sent"]
     \/ /\ \E e \in {"save", "quit", "kill"} : call' = [event |-> e, at |-> "sent"]
        /\ UNCHANGED pause_flag
  /\ at' = "calling"
  /\ UNCHANGED <<ioVars, turn, count, named, stream, eof, brokerVars>>

Message(m) == at = "select" /\ stream # <<>> /\ Head(stream) = m /\ stream' = Tail(stream)

\* Mutant: the count goes with the flips.
ReadFlipsCounting ==
  /\ Message("flips")
  /\ Evolve
  /\ count' = version'
  /\ UNCHANGED <<at, turn, pause_flag, named, presses, call, eof, brokerVars>>

ReadFlips ==
  /\ Message("flips")
  /\ Evolve
  /\ UNCHANGED <<distVars, call, eof, brokerVars>>

\* EVENT_TURN_COMPLETE, or the 0 of a closed event_chan once the stream ended.
ReadTurn ==
  /\ \/ Message("turn")
     \/ at = "select" /\ stream = <<>> /\ eof /\ UNCHANGED stream
  /\ count' = version
  /\ turn' = turn + 1
  /\ at' = IF turn' = Turns THEN "quit" ELSE "select"
  /\ UNCHANGED <<ioVars, pause_flag, named, presses, call, eof, brokerVars>>

\* EVENT_PAUSE and EVENT_RESUME only tell the window.
ReadPause ==
  /\ Message("pause") \/ Message("resume")
  /\ UNCHANGED <<ioVars, distVars, call, eof, brokerVars>>

\* write(turn): the file is named after the turn, and waited for.
Write(t) ==
  /\ Request
  /\ named' = Append(named, t)

\* Mutant: the file is named after the turn that comes next.
ReadSaveAhead ==
  /\ Message("save")
  /\ Write(turn + 1)
  /\ at' = "saving"
  /\ UNCHANGED <<turn, count, pause_flag, presses, call, eof, brokerVars>>

\* Mutant: the distributor goes on while io writes.
ReadSaveUnawaited ==
  /\ Message("save")
  /\ RequestUnawaited
  /\ named' = Append(named, turn)
  /\ UNCHANGED <<at, turn, count, pause_flag, presses, call, eof, brokerVars>>

ReadSave ==
  /\ Message("save")
  /\ Write(turn)
  /\ at' = "saving"
  /\ UNCHANGED <<turn, count, pause_flag, presses, call, eof, brokerVars>>

ReadQuit ==
  /\ Message("quit") \/ Message("kill")
  /\ at' = "quit"
  /\ UNCHANGED <<ioVars, turn, count, pause_flag, named, presses, call, eof, brokerVars>>

\* FinalTurnComplete with the living cells, and the last file.
WriteFinal ==
  /\ at = "quit"
  /\ Write(turn)
  /\ at' = "finishing"
  /\ UNCHANGED <<turn, count, pause_flag, presses, call, stream, eof, brokerVars>>

\* The events channel is closed; the deferred io.quit ends the io goroutine.
Close ==
  /\ at = "closing"
  /\ Quit
  /\ at' = "ended"
  /\ UNCHANGED <<turn, count, pause_flag, named, presses, call, stream, eof, brokerVars>>

------------------------------------------------------------------------------
(* Broker.Pause, Resume, Save, Quit and Kill                                 *)

\* A send on a closed channel panics and ends the broker, and with it the stream.
BrokerPanics == bat' = "crashed" /\ eof' = TRUE

\* Mutant: an event for which there is no room is dropped.
CallRunsDropping ==
  /\ at = "calling" /\ call.at \in {"sent", "waiting"} /\ bat # "crashed"
  /\ IF event_chan.open
     THEN /\ event_chan' = [event_chan EXCEPT !.buf = IF @ = <<>> THEN <<call.event>> ELSE @]
          /\ at' = "select" /\ call' = NoCall
          /\ UNCHANGED <<bat, eof>>
     ELSE BrokerPanics /\ UNCHANGED <<at, call, event_chan>>
  /\ UNCHANGED <<ioVars, turn, count, pause_flag, named, presses, stream, bturn, paused, flips,
                 written, boundary, echo, recoveries>>

CallRuns ==
  /\ at = "calling" /\ call.at \in {"sent", "waiting"} /\ bat # "crashed"
  /\ \/ /\ event_chan.open /\ event_chan.buf = <<>>
        /\ event_chan' = [open |-> event_chan.open, buf |-> <<call.event>>]
        /\ at' = "select" /\ call' = NoCall
        /\ UNCHANGED <<bat, eof>>
     \/ /\ event_chan.open /\ event_chan.buf # <<>> /\ call.at = "sent"
        /\ call' = [call EXCEPT !.at = "waiting"]
        /\ UNCHANGED <<at, event_chan, bat, eof>>
     \/ /\ ~event_chan.open
        /\ BrokerPanics
        /\ UNCHANGED <<at, call, event_chan>>
  /\ UNCHANGED <<ioVars, turn, count, pause_flag, named, presses, stream, bturn, paused, flips,
                 written, boundary, echo, recoveries>>

\* The connection of the call is gone: log.Panic.
CallFails ==
  /\ at = "calling"
  /\ bat = "crashed"
  /\ at' = "panicked"
  /\ UNCHANGED <<ioVars, turn, count, pause_flag, named, presses, call, stream, eof, brokerVars>>

\* NewConnection cannot connect, or Monitor meets an error that is not the end of
\* the stream, or the end in the middle of a message: a panic in any goroutine
\* ends the process.  Monitor reads ahead of nobody: once it has met the end it
\* panics no more (after a crash, of which the model keeps no message that was
\* cut, it may).
ConnectionPanics ==
  /\ at # "start"
  /\ ~eof \/ stream # <<>> \/ bat = "crashed"
  /\ at' = "panicked"
  /\ UNCHANGED <<ioVars, turn, count, pause_flag, named, presses, call, stream, eof, brokerVars>>

------------------------------------------------------------------------------
(* The broker's loop, as far as it can be seen from the controller           *)

Room == Len(stream) < StreamCap

Evaluate ==
  /\ bat = "calls"
  /\ bturn # Turns
  /\ flips' \in 0..MaxFlips
  /\ bat' = "report"
  /\ UNCHANGED <<ioVars, distVars, call, stream, eof, bturn, paused, written, boundary,
                 event_chan, echo, recoveries>>

WriteFlips ==
  /\ bat = "report" /\ flips > 0
  /\ Room
  /\ stream' = Append(stream, "flips")
  /\ flips' = flips - 1 /\ written' = written + 1
  /\ UNCHANGED <<ioVars, distVars, call, eof, bat, bturn, paused, boundary, event_chan, echo,
                 recoveries>>

WriteTurn ==
  /\ bat = "report" /\ flips = 0
  /\ Room
  /\ stream' = Append(stream, "turn")
  /\ boundary' = Append(boundary, written)
  /\ bat' = "poll"
  /\ UNCHANGED <<ioVars, distVars, call, eof, bturn, paused, flips, written, event_chan, echo,
                 recoveries>>

\* Mutant: an event is taken between the flips of a turn and cuts it short.
TakeEventAnywhere ==
  /\ bat \in {"report", "poll"} /\ echo = "none"
  /\ event_chan.buf # <<>>
  /\ echo' = Head(event_chan.buf)
  /\ event_chan' = [open |-> event_chan.open, buf |-> <<>>]
  /\ bat' = "poll"
  /\ UNCHANGED <<ioVars, distVars, call, stream, eof, bturn, paused, flips, written, boundary,
                 recoveries>>

TakeEvent ==
  /\ bat = "poll" /\ echo = "none"
  /\ event_chan.buf # <<>>
  /\ echo' = Head(event_chan.buf)
  /\ event_chan' = [open |-> event_chan.open, buf |-> <<>>]
  /\ UNCHANGED <<ioVars, distVars, call, stream, eof, bat, bturn, paused, flips, written,
                 boundary, recoveries>>

\* A call that waits for room panics when the channel is closed.
CloseSession ==
  /\ event_chan' = [open |-> FALSE, buf |-> event_chan.buf]
  /\ eof' = TRUE
  /\ bat' = IF call.at = "waiting" THEN "crashed" ELSE "ended"

Continue(p) ==
  IF p THEN bat' = "poll" /\ UNCHANGED bturn ELSE bat' = "calls" /\ bturn' = bturn + 1

\* Every event is echoed, then obeyed.
Echo ==
  /\ bat = "poll" /\ echo # "none"
  /\ Room
  /\ stream' = Append(stream, echo)
  /\ paused' = (echo = "pause" \/ (paused /\ echo # "resume"))
  /\ IF echo \in {"quit", "kill"}
     THEN CloseSession /\ UNCHANGED bturn
     ELSE Continue(paused') /\ UNCHANGED <<event_chan, eof>>
  /\ echo' = "none"
  /\ UNCHANGED <<ioVars, distVars, call, flips, written, boundary, recoveries>>

NoEvent ==
  /\ bat = "poll" /\ echo = "none"
  /\ event_chan.buf = <<>>
  /\ ~paused
  /\ Continue(FALSE)
  /\ UNCHANGED <<ioVars, distVars, call, stream, eof, paused, flips, written, boundary,
                 event_chan, echo, recoveries>>

AllTurnsDone ==
  /\ bat = "calls"
  /\ bturn = Turns
  /\ CloseSession
  /\ UNCHANGED <<ioVars, distVars, call, stream, bturn, paused, flips, written, boundary, echo,
                 recoveries>>

\* A call to a node failed: the loop leaves the connection open and closes the
\* channel; a failed dispatch of the recovery closes nothing.
NodeFails ==
  /\ recoveries < MaxRecoveries
  /\ recoveries' = recoveries + 1
  /\ \/ /\ bat = "calls" /\ bturn # Turns
        /\ event_chan' = [open |-> FALSE, buf |-> event_chan.buf]
        /\ IF call.at = "waiting" THEN BrokerPanics
                                  ELSE bat' = "recovering" /\ UNCHANGED eof
     \/ /\ bat = "dispatch"
        /\ bat' = "recovering"
        /\ UNCHANGED <<event_chan, eof>>
  /\ UNCHANGED <<ioVars, distVars, call, stream, bturn, paused, flips, written, boundary, echo>>

\* recover_evaluation: a new channel; a call that waits on the old one is lost.
\* With no node listed it returns an error that nobody reads: the connection stays
\* open, the lock held, and there is no loop.
Recover ==
  /\ bat = "recovering"
  /\ event_chan' = [open |-> TRUE, buf |-> <<>>]
  /\ call' = IF call.at = "waiting" THEN [call EXCEPT !.at = "lost"] ELSE call
  /\ bat' \in {"dispatch", "stranded"}
  /\ UNCHANGED <<ioVars, distVars, stream, eof, bturn, paused, flips, written, boundary, echo,
                 recoveries>>

\* The new loop is not paused, whatever the one before was.
Restart ==
  /\ bat = "dispatch"
  /\ paused' = FALSE
  /\ bat' = "calls"
  /\ UNCHANGED <<ioVars, distVars, call, stream, eof, bturn, flips, written, boundary,
                 event_chan, echo, recoveries>>

------------------------------------------------------------------------------
(* The specification *)

Read    == ReadFlips \/ ReadTurn \/ ReadPause \/ ReadSave \/ ReadQuit
Distributor == Load \/ Waited \/ Read \/ WriteFinal \/ Close \/ CallRuns \/ CallFails
BrokerLoop  == \/ Evaluate \/ WriteFlips \/ WriteTurn \/ TakeEvent \/ Echo \/ NoEvent
               \/ AllTurnsDone \/ Recover \/ Restart
IoGoroutine == IoSide /\ UNCHANGED <<distVars, call, stream, eof, brokerVars>>

\* A panic of the controller ends its process.
ControllerNext ==
  /\ at # "panicked"
  /\ \/ Distributor \/ BrokerLoop \/ IoGoroutine
     \/ PressKey \/ NodeFails \/ ConnectionPanics

\* Some goroutine runs as long as one can: between two keys or failures all of
\* them come to rest.  Users and failures owe nothing.
ControllerFairness == WF_allVars(at # "panicked" /\ (Distributor \/ BrokerLoop \/ IoGoroutine))

ControllerSpec == ControllerInit /\ [][ControllerNext]_allVars /\ ControllerFairness

------------------------------------------------------------------------------
(* Properties *)

Crashed == bat = "crashed"

\* Type invariant.
ControllerTypeOK ==
  /\ IoTypeOK
  /\ at \in {"start", "loading", "select", "calling", "saving", "quit", "finishing",
             "closing", "ended", "panicked"}
  /\ turn \in 0..Turns /\ bturn \in 0..Turns
  /\ count \in 0..MaxVersion /\ pause_flag \in BOOLEAN /\ paused \in BOOLEAN
  /\ call.event \in Events \cup {"none"} /\ call.at \in {"idle", "sent", "waiting", "lost"}
  /\ Len(stream) <= StreamCap /\ eof \in BOOLEAN
  /\ bat \in {"unasked", "calls", "report", "poll", "recovering", "dispatch", "stranded",
             "ended", "crashed"}
  /\ Len(event_chan.buf) <= 1 /\ echo \in Events \cup {"none"}

\* What a tick reports (distributor.go:101) is the number of cells of the turn it
\* names, while flips of the next turn are already in the matrix; and the turns
\* are those the broker completed.  Only after a crash of the broker does the
\* closed channel, read as EVENT_TURN_COMPLETE, invent turns (networkio.go:54):
\* every other end of the stream is announced on it.
CountsOfTurn ==
  /\ ControllerTypeOK
  /\ turn + 1 \in DOMAIN boundary => count = boundary[turn + 1]
  /\ turn + 1 \in DOMAIN boundary \/ Crashed

\* A file holds the generation of the turn in its name, although the matrix goes
\* on to change: the echo of s comes between two turns, and the stream keeps
\* still while io writes.
FilesOfTurns ==
  \A k \in 2..Len(files) :
    \/ Crashed
    \/ named[k - 1] + 1 \in DOMAIN boundary /\ files[k].found = boundary[named[k - 1] + 1]

\* The slice of final cells is made for count cells and filled from the matrix
\* (distributor.go:168-177): at label quit both are of one turn, or the index
\* would run out of the slice.
CellsFit == at = "quit" => count = version

\* The controller and the broker agree whether the evaluation is paused, once no
\* key is on its way.  A recovery forgets the pause (broker.go:213, 291).
PauseAgrees ==
  recoveries = 0 /\ at = "select" /\ bat \in {"calls", "report", "poll"} /\ echo = "none"
    /\ event_chan.buf = <<>> => paused = pause_flag

\* A second key waits for room in event_chan, and the broker waits for room in
\* the stream, which the controller does not read meanwhile.
Standoff ==
  /\ call.at = "waiting" /\ event_chan.buf # <<>>
  /\ bat \in {"report", "poll"} /\ ~Room

\* The controller comes to an end, and its io goroutine with it (no request and
\* no quit misses the goroutine's Wait), unless it is left paused or waits for ever
\* in a key call, in the standoff or on a channel that a recovery replaced, or a
\* recovery found no node and left nobody to end the stream (broker.go:295-298).
ControllerEnds ==
  <>[](\/ at = "ended" /\ io = "exited"
       \/ at = "panicked" \/ paused \/ Standoff
       \/ call.at = "lost" \/ bat = "stranded")
==============================================================================
