-------------------------------- MODULE Broker --------------------------------
(***************************************************************************)
(* The control of distributed/broker/broker.go and networkio.go: sessions  *)
(* of controllers, the evaluation loop, key events, nodes that come and go,*)
(* and recovery.  What the nodes compute is in Exchange.                   *)
(*                                                                         *)
(* cond.L is a baton rather than a mutex: Init locks it and the loop it    *)
(* starts unlocks it when it ends, possibly much later; a recovery unlocks *)
(* it, lets anyone else in, and locks it again in a new goroutine.  Keys   *)
(* arrive as RPC calls that do not take it: they send into event_chan,     *)
(* which every loop closes and every Init and recovery replaces.  A send   *)
(* on a closed channel is a panic that ends the broker's process.  After a *)
(* k main waits for the lock and stops the nodes, then itself.             *)
(***************************************************************************)
EXTENDS Naturals, Sequences, FiniteSets

CONSTANTS
  Nodes,           \* worker nodes
  Sessions,        \* runs of a controller, 1..n, one after the other
  Turns,
  Keys,            \* the keys a user presses, of "p", "s", "q", "k"
  MaxKeys,         \* bound: keys of one session
  MaxLosses        \* bound: nodes lost

ASSUME BrokerAssumption ==
  /\ Turns \in Nat /\ MaxKeys \in Nat /\ MaxLosses \in Nat
  /\ IsFiniteSet(Sessions) /\ Sessions = 1..Cardinality(Sessions)
  /\ Keys \subseteq {"p", "s", "q", "k"}

Nobody == 0

VARIABLES
  lock,            \* cond.L: "free", "taken", or "leaked" by a goroutine that ended
  local_conn,      \* the session whose connection it is, or Nobody
  chan,            \* event_chan: whether it is open, and its buffer
  at,              \* where the goroutine with the lock stands
  used,            \* the nodes of assignments
  outstanding,     \* calls to nodes that are not answered
  failing,         \* some call of this round returned an error
  caller,          \* the session whose Broker.Init waits for this goroutine
  recovering,      \* recover_evaluation calls that wait for the lock
  late,            \* nodes that still owe a reply to an abandoned dispatch
  orphaned,        \* those of them whose call_chan was closed by its owner
  paused, turn,
  crashed,         \* the process ended in a panic
  node,            \* each node: "absent", "up", "down" (still listed) or "gone"
  losses,
  main,            \* where main stands: waiting for the flag or for the lock, ...
  killer,          \* the session whose k reached main
  toStop,          \* nodes that main has not stopped yet
  ctrl,            \* each session's controller
  backlog,         \* dialled connections that were not accepted yet
  blocked,         \* the event whose key call waits for room in event_chan, "none",
                   \* or "lost": the channel it waits on was replaced
  keys,            \* keys pressed in each session
  pause_flag,      \* each controller's own flag
  reported,        \* TURN_COMPLETE messages written to each session
  hungup,          \* sessions whose stream the broker closed
  revenant         \* history: a recovery ran for a controller that had ended

loopVars == <<lock, local_conn, at, used, outstanding, failing, caller,
              recovering, late, orphaned, paused, turn>>
mainVars == <<main, killer, toStop>>
nodeVars == <<node, losses, mainVars>>
userVars == <<ctrl, backlog, blocked, keys, pause_flag>>
vars == <<loopVars, chan, crashed, nodeVars, userVars, reported, hungup, revenant>>

Listed == {n \in Nodes : node[n] \in {"up", "down"}}    \* getAvailableNodes

Events == {"pause", "resume", "save", "quit", "kill"}

BrokerInit ==
  /\ lock = "free" /\ local_conn = Nobody
  /\ chan = [open |-> FALSE, buf |-> <<>>]
  /\ at = "idle" /\ used = {} /\ outstanding = {} /\ failing = FALSE
  /\ caller = Nobody /\ recovering = {} /\ late = {} /\ orphaned = {}
  /\ paused = FALSE /\ turn = 0 /\ crashed = FALSE
  /\ node = [n \in Nodes |-> "absent"] /\ losses = 0
  /\ main = "flag" /\ killer = Nobody /\ toStop = {}
  /\ ctrl = [s \in Sessions |-> "new"]
  /\ backlog = <<>>
  /\ blocked = [s \in Sessions |-> "none"]
  /\ keys = [s \in Sessions |-> 0] /\ pause_flag = [s \in Sessions |-> FALSE]
  /\ reported = [s \in Sessions |-> 0]
  /\ hungup = {}
  /\ revenant = FALSE

------------------------------------------------------------------------------
(* Connections *)

Ended(s) == ctrl[s] \in {"done", "dead"}
Gone(c)  == \E s \in Sessions : s = c /\ Ended(s)

\* A controller dials the stream, then calls Broker.Init; one run at a time.
Dial(s) ==
  /\ ctrl[s] = "new"
  /\ \A r \in 1..s - 1 : Ended(r)
  /\ ctrl' = [ctrl EXCEPT ![s] = "locking"]
  /\ backlog' = Append(backlog, s)
  /\ UNCHANGED <<loopVars, chan, crashed, nodeVars, blocked, keys, pause_flag, reported, hungup, revenant>>

\* cond.Signal, when an Init waits for a connection.
Woken(c) == [s \in Sessions |-> IF c[s] = "waiting" THEN "woken" ELSE c[s]]

\* Mutant: Init is not signalled.
AcceptSilently ==
  /\ backlog # <<>>
  /\ lock = "free"
  /\ local_conn' = Head(backlog)
  /\ backlog' = Tail(backlog)
  /\ UNCHANGED <<lock, at, used, outstanding, failing, caller, recovering, late, orphaned,
                 paused, turn, chan, crashed, nodeVars, ctrl, blocked, keys, pause_flag,
                 reported, hungup, revenant>>

\* The accept goroutine.
Accept ==
  /\ backlog # <<>>
  /\ lock = "free"
  /\ local_conn' = Head(backlog)
  /\ backlog' = Tail(backlog)
  /\ ctrl' = Woken(ctrl)
  /\ UNCHANGED <<lock, at, used, outstanding, failing, caller, recovering, late, orphaned,
                 paused, turn, chan, crashed, nodeVars, blocked, keys, pause_flag, reported, hungup, revenant>>

\* The window is closed or the controller's machine is gone.
Vanish(s) ==
  /\ ctrl[s] = "running"
  /\ ctrl' = [ctrl EXCEPT ![s] = "dead"]
  /\ UNCHANGED <<loopVars, chan, crashed, nodeVars, backlog, blocked, keys, pause_flag, reported, hungup, revenant>>

\* The stream ended: the controller leaves, unless it is inside a key call.
SeeEnd(s) ==
  /\ ctrl[s] = "running"
  /\ blocked[s] = "none"
  /\ s \in hungup
  /\ ctrl' = [ctrl EXCEPT ![s] = "done"]
  /\ UNCHANGED <<loopVars, chan, crashed, nodeVars, backlog, blocked, keys, pause_flag, reported, hungup, revenant>>

------------------------------------------------------------------------------
(* Worker nodes *)

\* A node is one connection: a machine that comes back is another node.
Join(n) ==
  /\ node[n] = "absent"
  /\ main # "stopping"
  /\ node' = [node EXCEPT ![n] = "up"]
  /\ UNCHANGED <<loopVars, chan, crashed, losses, mainVars, userVars, reported, hungup, revenant>>

Lose(n) ==
  /\ node[n] = "up"
  /\ losses < MaxLosses
  /\ losses' = losses + 1
  /\ node' = [node EXCEPT ![n] = "down"]
  /\ UNCHANGED <<loopVars, chan, crashed, mainVars, userVars, reported, hungup, revenant>>

\* The goroutine of monitorNodes sees the connection reset, sooner or later.
\* The list has a mutex of its own, which main keeps while it stops the nodes.
Unlist(n) ==
  /\ node[n] = "down"
  /\ main # "stopping"
  /\ node' = [node EXCEPT ![n] = "gone"]
  /\ UNCHANGED <<loopVars, chan, crashed, losses, mainVars, userVars, reported, hungup, revenant>>

------------------------------------------------------------------------------
(* Init and recover_evaluation *)

\* A call that waits on the channel before is never received.
NewChan ==
  /\ chan' = [open |-> TRUE, buf |-> <<>>]
  /\ blocked' = [s \in Sessions |-> IF blocked[s] = "none" THEN "none" ELSE "lost"]

InitWaits(s) ==
  /\ ctrl[s] = "locking"
  /\ lock = "free"
  /\ local_conn = Nobody
  /\ ctrl' = [ctrl EXCEPT ![s] = "waiting"]
  /\ UNCHANGED <<loopVars, chan, crashed, nodeVars, backlog, blocked, keys, pause_flag, reported, hungup, revenant>>

\* Partition and dispatch to the nodes of the list (as many threads as nodes).
\* With no node the function returns an error and leaves the lock locked; the
\* abandoned calls of the functions that called it lose their channel.
Assign(s) ==
  /\ main # "stopping"
  /\ NewChan
  /\ IF Listed = {}
     THEN /\ lock' = "leaked"
          /\ caller' = Nobody
          /\ orphaned' = orphaned \cup late /\ late' = {}
          /\ UNCHANGED <<at, used, outstanding>>
     ELSE /\ lock' = "taken"
          /\ at' = "dispatch"
          /\ used' = Listed /\ outstanding' = Listed
          /\ caller' = s
          /\ UNCHANGED <<late, orphaned>>

\* After Wait the connection is not tested again.
StartInit(s) ==
  /\ \/ ctrl[s] = "locking" /\ local_conn # Nobody
     \/ ctrl[s] = "woken"
  /\ lock = "free"
  /\ turn' = 0
  /\ Assign(s)
  /\ ctrl' = [ctrl EXCEPT ![s] = IF Listed = {} THEN "dead" ELSE "inside"]
  /\ UNCHANGED <<local_conn, failing, recovering, paused, crashed, nodeVars, backlog, keys,
                 pause_flag, reported, hungup, revenant>>

\* Mutant: the evaluation starts again at turn 0.
StartRecoveryAtZero ==
  /\ lock = "free"
  /\ \E r \in recovering :
       /\ recovering' = recovering \ {r}
       /\ revenant' = (revenant \/ Gone(r.conn))
       /\ local_conn' = r.conn
       /\ Assign(r.caller)
       /\ ctrl' = IF Listed = {} /\ r.caller # Nobody
                  THEN [ctrl EXCEPT ![r.caller] = "dead"] ELSE ctrl
  /\ turn' = 0
  /\ UNCHANGED <<failing, paused, crashed, nodeVars, backlog, keys, pause_flag,
                 reported, hungup>>

\* Mutant: the saved connection is not restored.
StartRecoveryUnconnected ==
  /\ lock = "free"
  /\ \E r \in recovering :
       /\ recovering' = recovering \ {r}
       /\ revenant' = (revenant \/ Gone(r.conn))
       /\ local_conn' = Nobody
       /\ Assign(r.caller)
       /\ ctrl' = IF Listed = {} /\ r.caller # Nobody
                  THEN [ctrl EXCEPT ![r.caller] = "dead"] ELSE ctrl
  /\ UNCHANGED <<failing, paused, turn, crashed, nodeVars, backlog, keys, pause_flag,
                 reported, hungup>>

StartRecovery ==
  /\ lock = "free"
  /\ \E r \in recovering :
       /\ recovering' = recovering \ {r}
       /\ revenant' = (revenant \/ Gone(r.conn))
       /\ local_conn' = r.conn
       /\ Assign(r.caller)
       /\ ctrl' = IF Listed = {} /\ r.caller # Nobody
                  THEN [ctrl EXCEPT ![r.caller] = "dead"] ELSE ctrl
  /\ UNCHANGED <<failing, paused, turn, crashed, nodeVars, backlog, keys, pause_flag,
                 reported, hungup>>

\* All calls of Worker.Init succeeded: the function returns, the loop has the
\* lock.  A channel that still waits for replies of an earlier try is closed.
DispatchSucceeds(n) ==
  /\ at = "dispatch"
  /\ n \in outstanding
  /\ node[n] = "up"
  /\ outstanding' = outstanding \ {n}
  /\ IF outstanding' = {}
     THEN /\ at' = "loop"
          /\ paused' = FALSE
          /\ orphaned' = orphaned \cup late /\ late' = {}
          /\ caller' = Nobody
          /\ ctrl' = IF caller = Nobody THEN ctrl ELSE [ctrl EXCEPT ![caller] = "running"]
     ELSE UNCHANGED <<at, paused, orphaned, late, caller, ctrl>>
  /\ UNCHANGED <<lock, local_conn, used, failing, recovering, turn, chan, crashed, nodeVars,
                 backlog, blocked, keys, pause_flag, reported, hungup, revenant>>

\* The first error ends the try at once; the other replies are not awaited.
DispatchFails(n) ==
  /\ at = "dispatch"
  /\ n \in outstanding
  /\ node[n] # "up"
  /\ late' = late \cup (outstanding \ {n})
  /\ outstanding' = {}
  /\ recovering' = recovering \cup {[conn |-> local_conn, caller |-> caller]}
  /\ caller' = Nobody
  /\ local_conn' = Nobody
  /\ lock' = "free"
  /\ at' = "idle"
  /\ UNCHANGED <<used, failing, orphaned, paused, turn, chan, crashed, nodeVars, userVars,
                 reported, hungup, revenant>>

\* net/rpc delivers a reply, or the error of a lost connection, into call_chan.
LateReply(n) ==
  /\ \/ n \in late /\ late' = late \ {n} /\ UNCHANGED <<orphaned, crashed>>
     \/ n \in orphaned /\ orphaned' = orphaned \ {n} /\ crashed' = TRUE /\ UNCHANGED late
  /\ UNCHANGED <<lock, local_conn, at, used, outstanding, failing, caller, recovering, paused,
                 turn, chan, nodeVars, userVars, reported, hungup, revenant>>

------------------------------------------------------------------------------
(* loop *)

\* close(event_chan): a key call that waits for room in it panics.
CloseChan ==
  /\ chan' = [open |-> FALSE, buf |-> chan.buf]
  /\ crashed' = \E s \in Sessions : blocked[s] \in Events

\* Mutant: the loop keeps the lock.
EndSessionLocked ==
  /\ CloseChan
  /\ hungup' = hungup \cup ({local_conn} \ {Nobody})
  /\ local_conn' = Nobody
  /\ at' = "idle"
  /\ UNCHANGED lock

\* The deferred calls of a loop that ends its session.
EndSession ==
  /\ CloseChan
  /\ hungup' = hungup \cup ({local_conn} \ {Nobody})
  /\ local_conn' = Nobody
  /\ lock' = "free"
  /\ at' = "idle"

NextTurn ==
  /\ at = "loop"
  /\ turn # Turns
  /\ at' = "calls"
  /\ outstanding' = used
  /\ failing' = FALSE
  /\ UNCHANGED <<lock, local_conn, used, caller, recovering, late, orphaned, paused, turn, chan,
                 crashed, nodeVars, userVars, reported, hungup, revenant>>

AllTurnsDone ==
  /\ at = "loop"
  /\ turn = Turns
  /\ EndSession
  /\ UNCHANGED <<used, outstanding, failing, caller, recovering, late, orphaned, paused, turn,
                 nodeVars, userVars, reported, revenant>>

CallReturns(n) ==
  /\ at = "calls"
  /\ n \in outstanding
  /\ outstanding' = outstanding \ {n}
  /\ failing' = (failing \/ node[n] # "up")
  /\ UNCHANGED <<lock, local_conn, at, used, caller, recovering, late, orphaned, paused, turn,
                 chan, crashed, nodeVars, userVars, reported, hungup, revenant>>

\* Mutant: local_conn is not cleared, and the deferred calls close it.
TurnFailsHangingUp ==
  /\ at = "calls"
  /\ outstanding = {}
  /\ failing
  /\ recovering' = recovering \cup {[conn |-> local_conn, caller |-> Nobody]}
  /\ EndSession
  /\ UNCHANGED <<used, outstanding, failing, caller, late, orphaned, paused, turn, nodeVars,
                 userVars, reported, revenant>>

\* Mutant: the loop returns with the lock.
TurnFailsLocked ==
  /\ at = "calls"
  /\ outstanding = {}
  /\ failing
  /\ CloseChan
  /\ recovering' = recovering \cup {[conn |-> local_conn, caller |-> Nobody]}
  /\ local_conn' = Nobody
  /\ at' = "idle"
  /\ UNCHANGED <<lock, used, outstanding, failing, caller, late, orphaned, paused, turn, nodeVars,
                 userVars, reported, hungup, revenant>>

\* The connection is kept for the recovery, the event channel is not.
TurnFails ==
  /\ at = "calls"
  /\ outstanding = {}
  /\ failing
  /\ CloseChan
  /\ recovering' = recovering \cup {[conn |-> local_conn, caller |-> Nobody]}
  /\ local_conn' = Nobody
  /\ lock' = "free"
  /\ at' = "idle"
  /\ UNCHANGED <<used, outstanding, failing, caller, late, orphaned, paused, turn, nodeVars,
                 userVars, reported, hungup, revenant>>

\* A write to a connection that is gone panics, now or later; loop recovers
\* from that and ends the session.
Writable == local_conn \in Sessions \ hungup
Broken   == \A s \in Sessions \ hungup : local_conn = s => ctrl[s] = "dead"

TurnSucceeds ==
  /\ at = "calls"
  /\ outstanding = {}
  /\ ~failing
  /\ \/ /\ Writable
        /\ reported' = [reported EXCEPT ![local_conn] = @ + 1]
        /\ at' = "poll"
        /\ UNCHANGED <<lock, local_conn, chan, crashed, hungup>>
     \/ Broken /\ EndSession /\ UNCHANGED reported
  /\ UNCHANGED <<used, outstanding, failing, caller, recovering, late, orphaned, paused, turn,
                 nodeVars, userVars, revenant>>

\* The end of an iteration of the polling loop.
Continue(p) ==
  IF p THEN UNCHANGED <<at, turn>> ELSE at' = "loop" /\ turn' = turn + 1

\* The flag is done in front of the deferred calls.  A second k finds it done:
\* that panic is recovered, the session ends all the same.
HandleEvent ==
  /\ at = "poll"
  /\ chan.buf # <<>>
  /\ \/ /\ Head(chan.buf) \notin {"quit", "kill"}
        /\ paused' = CASE Head(chan.buf) = "pause"  -> TRUE
                       [] Head(chan.buf) = "resume" -> FALSE
                       [] OTHER -> paused
        /\ chan' = [open |-> chan.open, buf |-> <<>>]
        /\ Continue(paused')
        /\ UNCHANGED <<lock, local_conn, crashed, hungup, mainVars>>
     \/ Head(chan.buf) = "quit" /\ EndSession /\ UNCHANGED <<paused, turn, mainVars>>
     \/ /\ Head(chan.buf) = "kill"
        /\ chan' = [open |-> chan.open, buf |-> <<>>]
        /\ at' = "ending"
        /\ IF main = "flag" THEN main' = "lock" /\ killer' = local_conn
                            ELSE UNCHANGED <<main, killer>>
        /\ UNCHANGED <<lock, local_conn, crashed, hungup, paused, turn, toStop>>
     \/ Broken /\ EndSession /\ UNCHANGED <<paused, turn, mainVars>>
  /\ UNCHANGED <<used, outstanding, failing, caller, recovering, late, orphaned,
                 node, losses, userVars, reported, revenant>>

\* The deferred calls after a k.
LeaveKilled ==
  /\ at = "ending"
  /\ EndSession
  /\ UNCHANGED <<used, outstanding, failing, caller, recovering, late, orphaned, paused, turn,
                 nodeVars, userVars, reported, revenant>>

NoEvent ==
  /\ at = "poll"
  /\ chan.buf = <<>>
  /\ Continue(paused)
  /\ UNCHANGED <<lock, local_conn, used, outstanding, failing, caller, recovering, late,
                 orphaned, paused, chan, crashed, nodeVars, userVars, reported, hungup, revenant>>

------------------------------------------------------------------------------
(* Pause, Resume, Save, Quit, Kill: a send into whatever event_chan is now   *)

Event(s, k) ==
  CASE k = "p" -> IF pause_flag[s] THEN "resume" ELSE "pause"
    [] k = "s" -> "save"
    [] k = "q" -> "quit"
    [] k = "k" -> "kill"

\* Resume also broadcasts to the Inits that wait for a connection.
AfterSend(e) == ctrl' = IF e = "resume" THEN Woken(ctrl) ELSE ctrl

PressKey(s, k) ==
  /\ ctrl[s] = "running"
  /\ blocked[s] = "none"
  /\ keys[s] < MaxKeys
  /\ keys' = [keys EXCEPT ![s] = @ + 1]
  /\ pause_flag' = [pause_flag EXCEPT ![s] = IF k = "p" THEN ~@ ELSE @]
  /\ \/ /\ ~chan.open
        /\ crashed' = TRUE
        /\ UNCHANGED <<chan, blocked, ctrl>>
     \/ /\ chan.open /\ chan.buf = <<>>
        /\ chan' = [open |-> chan.open, buf |-> <<Event(s, k)>>]
        /\ AfterSend(Event(s, k))
        /\ UNCHANGED <<crashed, blocked>>
     \/ /\ chan.open /\ chan.buf # <<>>
        /\ blocked' = [blocked EXCEPT ![s] = Event(s, k)]
        /\ UNCHANGED <<chan, crashed, ctrl>>
  /\ UNCHANGED <<loopVars, nodeVars, backlog, reported, hungup, revenant>>

KeyGetsRoom(s) ==
  /\ blocked[s] \in Events
  /\ chan.open
  /\ chan.buf = <<>>
  /\ chan' = [open |-> chan.open, buf |-> <<blocked[s]>>]
  /\ AfterSend(blocked[s])
  /\ blocked' = [blocked EXCEPT ![s] = "none"]
  /\ UNCHANGED <<loopVars, crashed, nodeVars, backlog, keys, pause_flag, reported, hungup, revenant>>

------------------------------------------------------------------------------
(* The end of main, and shutdownNodes                                        *)

\* Mutant: the nodes are stopped as soon as the flag is done.
MainPassesAtOnce ==
  /\ main = "lock"
  /\ main' = "list"
  /\ UNCHANGED <<loopVars, chan, crashed, node, losses, killer, toStop, userVars, reported, hungup, revenant>>

\* Lock and Unlock: the loop that obeyed the k has run its deferred calls.
MainPasses ==
  /\ main = "lock"
  /\ lock = "free"
  /\ main' = "list"
  /\ UNCHANGED <<loopVars, chan, crashed, node, losses, killer, toStop, userVars, reported, hungup, revenant>>

ShutdownBegins ==
  /\ main = "list"
  /\ main' = "stopping"
  /\ toStop' = Listed
  /\ UNCHANGED <<loopVars, chan, crashed, node, losses, killer, userVars, reported, hungup, revenant>>

\* A node that is gone, or ends before its reply is out, is an error and a panic.
StopNode(n) ==
  /\ main = "stopping"
  /\ n \in toStop
  /\ toStop' = toStop \ {n}
  /\ node' = [node EXCEPT ![n] = "down"]
  /\ crashed' \in (IF node[n] = "up" THEN BOOLEAN ELSE {TRUE})
  /\ UNCHANGED <<loopVars, chan, losses, main, killer, userVars, reported, hungup, revenant>>

\* Main returns: the process ends.
MainReturns ==
  /\ main = "stopping"
  /\ toStop = {}
  /\ main' = "returned"
  /\ UNCHANGED <<loopVars, chan, crashed, node, losses, killer, toStop, userVars, reported, hungup, revenant>>

------------------------------------------------------------------------------
InitSide(s)  == InitWaits(s) \/ StartInit(s)
NodeReply(n) == DispatchSucceeds(n) \/ DispatchFails(n) \/ CallReturns(n)
Loop == NextTurn \/ AllTurnsDone \/ TurnFails \/ TurnSucceeds \/ HandleEvent \/ NoEvent
        \/ LeaveKilled

Shutdown == MainPasses \/ ShutdownBegins \/ MainReturns \/ \E n \in Nodes : StopNode(n)

BrokerNext ==
  /\ ~crashed
  /\ main # "returned"
  /\ \/ Shutdown
     \/ Accept \/ StartRecovery \/ Loop
     \/ \E s \in Sessions : \/ Dial(s) \/ InitSide(s) \/ SeeEnd(s) \/ Vanish(s)
                            \/ KeyGetsRoom(s) \/ \E k \in Keys : PressKey(s, k)
     \/ \E n \in Nodes : NodeReply(n) \/ LateReply(n) \/ Join(n) \/ Lose(n) \/ Unlist(n)

\* The broker's goroutines run, a lock that keeps becoming free is obtained,
\* and every call to a node returns, with a reply or with the error of its
\* connection.  Users, nodes that join and nodes that fail owe nothing.
BrokerFairness ==
  /\ SF_vars(Accept) /\ SF_vars(StartRecovery) /\ WF_vars(Loop) /\ SF_vars(Shutdown)
  /\ \A s \in Sessions : SF_vars(InitSide(s)) /\ WF_vars(SeeEnd(s)) /\ WF_vars(KeyGetsRoom(s))
  /\ \A n \in Nodes : WF_vars(NodeReply(n)) /\ WF_vars(Unlist(n))

BrokerSpec == BrokerInit /\ [][BrokerNext]_vars /\ BrokerFairness

------------------------------------------------------------------------------
(* Properties *)

\* Type invariant.
BrokerTypeOK ==
  /\ lock \in {"free", "taken", "leaked"}
  /\ local_conn \in Sessions \cup {Nobody} /\ caller \in Sessions \cup {Nobody}
  /\ at \in {"idle", "dispatch", "loop", "calls", "poll", "ending"}
  /\ chan \in [open : BOOLEAN, buf : Seq(Events)] /\ Len(chan.buf) <= 1
  /\ recovering \subseteq [conn : Sessions \cup {Nobody}, caller : Sessions \cup {Nobody}]
  /\ ctrl \in [Sessions -> {"new", "locking", "waiting", "woken", "inside", "running", "done", "dead"}]
  /\ backlog \in Seq(Sessions) /\ hungup \subseteq Sessions
  /\ blocked \in [Sessions -> Events \cup {"none", "lost"}]
  /\ keys \in [Sessions -> 0..MaxKeys] /\ pause_flag \in [Sessions -> BOOLEAN]
  /\ used \subseteq Nodes /\ outstanding \subseteq Nodes
  /\ turn \in 0..Turns /\ reported \in [Sessions -> Nat]
  /\ node \in [Nodes -> {"absent", "up", "down", "gone"}]
  /\ main \in {"flag", "lock", "list", "stopping", "returned"}
  /\ killer \in Sessions \cup {Nobody} /\ toStop \subseteq Nodes

\* A controller that runs is never forgotten: a loop or a recovery that will
\* run has its connection, or its connection is closed.  The connection moves
\* between loop, failed dispatch and recovery, which each clear local_conn so
\* that the deferred calls of the others leave it open (broker.go:134, 186-192,
\* 241, 292, 336); it stays behind only when no node was left, or when a recovery
\* outlived its controller and took the place of the next session's connection.
NobodyForgotten ==
  \A s \in Sessions :
    ctrl[s] = "running" /\ ~crashed =>
      \/ lock = "taken" /\ local_conn = s
      \/ \E r \in recovering : r.conn = s
      \/ s \in hungup
      \/ lock = "leaked" \/ revenant

\* README.md:18: the broker "recovers the evaluation state": a loop goes on where
\* the controller of its connection is, with neither a turn repeated nor a turn
\* skipped; what was reported to the session is the number of the turn, counting
\* the one being reported (broker.go:203-277, 283-292).
StateRecovered ==
  \A s \in Sessions :
    at \in {"loop", "calls", "poll"} /\ local_conn = s /\ ctrl[s] = "running" =>
      reported[s] = turn + (IF at = "poll" THEN 1 ELSE 0)

\* So it is until a recovery outlives its controller: broker.turn and the matrix
\* are then those of the next session, whose turns it evaluates.
TurnsReportedOnce == BrokerTypeOK /\ (revenant \/ StateRecovered)

\* A session whose controller saw the stream end without a q was given every turn.
FullRuns ==
  revenant \/ \A s \in Sessions : ctrl[s] = "done" /\ keys[s] = 0 => reported[s] = Turns

\* README.md:18: the broker "recovers the evaluation state without crashing".
NoCrash == ~crashed

\* The controllers whose evaluation started get to its end, over every loss of a
\* node, unless they are paused, the process is gone, no node was left, or a key
\* call of theirs waits on a channel that a second recovery replaced: that call
\* never returns (broker.go:150, 291).
Survives ==
  (\E s \in Sessions : ctrl[s] = "running") ~>
    \/ \A s \in Sessions : ctrl[s] # "running" \/ pause_flag[s] \/ blocked[s] = "lost"
    \/ crashed \/ lock = "leaked" \/ paused \/ main = "returned" \/ revenant

\* The broker outlives a session: the next controller's Broker.Init is answered
\* however the session before it ended, unless that left it paused.
NextServed ==
  (\E s \in Sessions : ctrl[s] = "locking") ~>
    \/ \A s \in Sessions : ctrl[s] \in {"new", "running", "done", "dead"}
    \/ crashed \/ lock = "leaked" \/ paused \/ main = "returned" \/ revenant

\* No node is stopped while the loop that obeyed the k still holds the stream:
\* main takes the lock after flag.Wait, so that the controller has its last
\* echo and the end of the stream before the process ends (broker.go:54-56).
StopsAfterGoodbye ==
  main \in {"list", "stopping", "returned"} => killer \in hungup

\* A k that the loop obeyed ends the broker: main gets the lock sooner or later,
\* though a next session may be served first.
KillEnds ==
  main = "lock" ~> main = "returned" \/ crashed \/ lock = "leaked" \/ paused
==============================================================================
