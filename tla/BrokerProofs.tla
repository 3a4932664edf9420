------------------------------ MODULE BrokerProofs ------------------------------
(* What holds of the broker for every number of nodes, sessions, turns, keys   *)
(* and losses.  The lock, and the k that reached main, are invariants of their *)
(* own.  What a session gets rests on an invariant of the sessions (SessionInv)*)
(* that holds as long as no recovery has outlived its controller: at most one  *)
(* session is engaged, and the connection in the broker's hands is its.        *)
EXTENDS Broker, FiniteSetTheorems, TLAPS

\* Sessions are numbered from 1; Nobody is none of them.
LEMMA SessionNumbers == Sessions \subseteq Nat \ {0}
<1>1. Sessions = 1..Cardinality(Sessions)
  BY BrokerAssumption
<1>2. Cardinality(Sessions) \in Nat
  BY BrokerAssumption, FS_CardinalityType
<1> QED BY <1>1, <1>2

\* The lock is taken exactly while a dispatch or a loop runs; a turn is under way
\* only before the last; whoever polls for events has a connection.
LockInv ==
  /\ lock = "taken" <=> at # "idle"
  /\ at \in {"calls", "poll", "ending"} => turn # Turns
  /\ at = "poll" => local_conn \in Sessions

\* event_chan has one place.
Chan == {c \in [open : BOOLEAN, buf : Seq(Events)] : Len(c.buf) <= 1}

\* Making, emptying, filling and closing event_chan.
LEMMA ChanSteps ==
  ASSUME BrokerTypeOK
  PROVE  /\ chan \in Chan
         /\ [open |-> TRUE, buf |-> <<>>] \in Chan
         /\ [open |-> chan.open, buf |-> <<>>] \in Chan
         /\ \A e \in Events : [open |-> chan.open, buf |-> <<e>>] \in Chan
         /\ [open |-> FALSE, buf |-> chan.buf] \in Chan
<1>1. chan \in [open : BOOLEAN, buf : Seq(Events)] /\ Len(chan.buf) <= 1
  BY DEF BrokerTypeOK
<1>2. chan.buf \in Seq(Events) /\ chan.open \in BOOLEAN
  BY <1>1
<1>3. ASSUME NEW o \in BOOLEAN, NEW b \in Seq(Events), Len(b) <= 1
      PROVE  [open |-> o, buf |-> b] \in Chan
  BY <1>3 DEF Chan
<1>4. <<>> \in Seq(Events) /\ Len(<<>>) <= 1
  OBVIOUS
<1>5. \A e \in Events : <<e>> \in Seq(Events) /\ Len(<<e>>) <= 1
  OBVIOUS
<1>6. TRUE \in BOOLEAN /\ FALSE \in BOOLEAN
  OBVIOUS
<1>7. chan \in Chan
  BY <1>1 DEF Chan
<1> QED BY <1>1, <1>2, <1>3, <1>4, <1>5, <1>6, <1>7, Zenon

\* The types hold at the start.
LEMMA TypeInit == BrokerInit => BrokerTypeOK
BY BrokerAssumption DEF BrokerInit, BrokerTypeOK, Nobody

\* The steps that move sessions, nodes and keys keep the types.
LEMMA TypeStep == BrokerTypeOK /\ LockInv /\ [BrokerNext]_vars => BrokerTypeOK'
<1> SUFFICES ASSUME BrokerTypeOK, LockInv, [BrokerNext]_vars PROVE BrokerTypeOK'
  OBVIOUS
<1> USE BrokerAssumption DEF loopVars, mainVars, nodeVars, userVars
<1>1. CASE Accept
  <2>1. local_conn' \in Sessions /\ backlog' \in Seq(Sessions)
    BY <1>1 DEF Accept, BrokerTypeOK
  <2>2. QED
    BY <1>1, <2>1 DEF Accept, BrokerTypeOK, Woken
<1>2. CASE StartRecovery
  <2>1. PICK r \in recovering :
          /\ recovering' = recovering \ {r} /\ local_conn' = r.conn /\ Assign(r.caller)
          /\ ctrl' = IF Listed = {} /\ r.caller # Nobody
                     THEN [ctrl EXCEPT ![r.caller] = "dead"] ELSE ctrl
    BY <1>2 DEF StartRecovery
  <2>2. r.conn \in Sessions \cup {Nobody} /\ r.caller \in Sessions \cup {Nobody}
    BY <2>1 DEF BrokerTypeOK
  <2>3. chan' \in Chan
    BY <2>1, ChanSteps DEF Assign, NewChan
  <2>4. blocked' \in [Sessions -> Events \cup {"none", "lost"}]
    BY <2>1 DEF Assign, NewChan, BrokerTypeOK
  <2>5. ctrl' \in [Sessions -> {"new", "locking", "waiting", "woken", "inside", "running", "done", "dead"}]
    BY <2>1, <2>2 DEF BrokerTypeOK, Nobody
  <2>6. /\ lock' \in {"free", "taken", "leaked"} /\ caller' \in Sessions \cup {Nobody}
        /\ at' \in {"idle", "dispatch", "loop", "calls", "poll", "ending"}
        /\ used' \subseteq Nodes /\ outstanding' \subseteq Nodes
    BY <1>2, <2>1, <2>2 DEF StartRecovery, Assign, Listed, BrokerTypeOK
  <2>7. recovering' \subseteq [conn : Sessions \cup {Nobody}, caller : Sessions \cup {Nobody}]
    BY <2>1 DEF BrokerTypeOK
  <2>8. UNCHANGED <<turn, nodeVars, backlog, keys, pause_flag, reported, hungup, mainVars>>
    BY <1>2, <2>1 DEF StartRecovery, Assign
  <2> QED
    BY <2>1, <2>2, <2>3, <2>4, <2>5, <2>6, <2>7, <2>8 DEF Chan, BrokerTypeOK
<1>3. CASE Loop
  <2>1. CASE NextTurn
    BY <2>1 DEF NextTurn, BrokerTypeOK
  <2>2. CASE AllTurnsDone
    BY <2>2, ChanSteps DEF AllTurnsDone, EndSession, CloseChan, Chan, BrokerTypeOK
  <2>3. CASE TurnFails
    <3>1. recovering' \subseteq [conn : Sessions \cup {Nobody}, caller : Sessions \cup {Nobody}]
      BY <2>3 DEF TurnFails, BrokerTypeOK, Nobody
    <3> QED
      BY <2>3, <3>1, ChanSteps DEF TurnFails, CloseChan, Chan, BrokerTypeOK
  <2>4. CASE TurnSucceeds
    <3>1. CASE EndSession /\ UNCHANGED reported
      BY <2>4, <3>1, ChanSteps DEF TurnSucceeds, EndSession, CloseChan, Chan, BrokerTypeOK
    <3>2. CASE Writable /\ reported' = [reported EXCEPT ![local_conn] = @ + 1] /\ at' = "poll"
               /\ UNCHANGED <<lock, local_conn, chan, crashed, hungup>>
      BY <2>4, <3>2 DEF TurnSucceeds, Writable, BrokerTypeOK
    <3> QED BY <2>4, <3>1, <3>2 DEF TurnSucceeds
  <2>5. CASE HandleEvent
    <3>1. turn' \in 0..Turns
      <4>1. turn' = turn \/ turn' = turn + 1
        BY <2>5 DEF HandleEvent, Continue
      <4>2. turn \in 0..Turns /\ turn # Turns
        BY <2>5 DEF HandleEvent, BrokerTypeOK, LockInv
      <4> QED BY <4>1, <4>2
    <3>2. chan' \in Chan
      <4>1. \/ chan' = [open |-> chan.open, buf |-> <<>>]
            \/ chan' = [open |-> FALSE, buf |-> chan.buf]
        BY <2>5 DEF HandleEvent, EndSession, CloseChan
      <4> QED BY <4>1, ChanSteps
    <3>3. /\ lock' \in {"free", "taken", "leaked"} /\ local_conn' \in Sessions \cup {Nobody}
          /\ at' \in {"idle", "dispatch", "loop", "calls", "poll", "ending"}
          /\ hungup' \subseteq Sessions
      BY <2>5 DEF HandleEvent, Continue, EndSession, BrokerTypeOK
    <3>4. /\ main' \in {"flag", "lock", "list", "stopping", "returned"}
          /\ killer' \in Sessions \cup {Nobody} /\ toStop' \subseteq Nodes
      BY <2>5 DEF HandleEvent, BrokerTypeOK
    <3> QED
      BY <2>5, <3>1, <3>2, <3>3, <3>4 DEF HandleEvent, Chan, BrokerTypeOK
  <2>6. CASE NoEvent
    BY <2>6, SMTT(30) DEF NoEvent, Continue, BrokerTypeOK, LockInv
  <2>7. CASE LeaveKilled
    BY <2>7, ChanSteps DEF LeaveKilled, EndSession, CloseChan, Chan, BrokerTypeOK
  <2> QED BY <1>3, <2>1, <2>2, <2>3, <2>4, <2>5, <2>6, <2>7 DEF Loop
<1>4. CASE Shutdown
  <2>1. CASE MainPasses \/ ShutdownBegins \/ MainReturns
    BY <2>1 DEF MainPasses, ShutdownBegins, MainReturns, Listed, BrokerTypeOK
  <2>2. ASSUME NEW n \in Nodes, StopNode(n) PROVE BrokerTypeOK'
    BY <2>2 DEF StopNode, BrokerTypeOK
  <2> QED BY <1>4, <2>1, <2>2 DEF Shutdown
<1>5. ASSUME NEW s \in Sessions, Dial(s) \/ InitWaits(s) \/ SeeEnd(s) \/ Vanish(s)
      PROVE  BrokerTypeOK'
  <2>1. CASE Dial(s)
    BY <2>1, SMTT(30) DEF Dial, BrokerTypeOK
  <2>2. CASE InitWaits(s)
    BY <2>2 DEF InitWaits, BrokerTypeOK
  <2>3. CASE SeeEnd(s)
    BY <2>3 DEF SeeEnd, BrokerTypeOK
  <2>4. CASE Vanish(s)
    BY <2>4 DEF Vanish, BrokerTypeOK
  <2> QED BY <1>5, <2>1, <2>2, <2>3, <2>4
<1>6. ASSUME NEW s \in Sessions, StartInit(s) PROVE BrokerTypeOK'
  <2>1. chan' \in Chan
    BY <1>6, ChanSteps DEF StartInit, Assign, NewChan
  <2>2. blocked' \in [Sessions -> Events \cup {"none", "lost"}]
    BY <1>6 DEF StartInit, Assign, NewChan, BrokerTypeOK
  <2>3. /\ ctrl' = [ctrl EXCEPT ![s] = ctrl'[s]] /\ ctrl'[s] \in {"dead", "inside"}
    BY <1>6 DEF StartInit, BrokerTypeOK
  <2>4. /\ lock' \in {"free", "taken", "leaked"} /\ caller' \in Sessions \cup {Nobody}
        /\ at' \in {"idle", "dispatch", "loop", "calls", "poll", "ending"}
        /\ used' \subseteq Nodes /\ outstanding' \subseteq Nodes /\ turn' \in 0..Turns
    BY <1>6 DEF StartInit, Assign, Listed, BrokerTypeOK
  <2> QED
    BY <1>6, <2>1, <2>2, <2>3, <2>4 DEF StartInit, Chan, BrokerTypeOK
<1>7. ASSUME NEW s \in Sessions, KeyGetsRoom(s) PROVE BrokerTypeOK'
  <2>1. chan' \in Chan
    BY <1>7, ChanSteps DEF KeyGetsRoom
  <2> QED
    BY <1>7, <2>1 DEF KeyGetsRoom, AfterSend, Woken, Chan, BrokerTypeOK
<1>8. ASSUME NEW s \in Sessions, NEW k \in Keys, PressKey(s, k) PROVE BrokerTypeOK'
  <2>1. Event(s, k) \in Events
    BY DEF Event, Events
  <2>2. chan' \in Chan
    <3>1. \/ chan' = [open |-> chan.open, buf |-> <<Event(s, k)>>]
          \/ chan' = chan
      BY <1>8 DEF PressKey
    <3> QED BY <2>1, <3>1, ChanSteps
  <2>3. keys' \in [Sessions -> 0..MaxKeys]
    BY <1>8 DEF PressKey, BrokerTypeOK
  <2>4. pause_flag' \in [Sessions -> BOOLEAN]
    BY <1>8 DEF PressKey, BrokerTypeOK
  <2> QED
    BY <1>8, <2>1, <2>2, <2>3, <2>4 DEF PressKey, AfterSend, Woken, Chan, BrokerTypeOK
<1>9. ASSUME NEW n \in Nodes, NodeReply(n) PROVE BrokerTypeOK'
  <2>1. recovering' \subseteq [conn : Sessions \cup {Nobody}, caller : Sessions \cup {Nobody}]
    BY <1>9 DEF NodeReply, DispatchSucceeds, DispatchFails, CallReturns, BrokerTypeOK, Nobody
  <2>2. CASE DispatchSucceeds(n)
    BY <2>1, <2>2 DEF DispatchSucceeds, BrokerTypeOK
  <2>3. CASE DispatchFails(n)
    BY <2>1, <2>3 DEF DispatchFails, BrokerTypeOK
  <2>4. CASE CallReturns(n)
    BY <2>1, <2>4 DEF CallReturns, BrokerTypeOK
  <2> QED BY <1>9, <2>2, <2>3, <2>4 DEF NodeReply
<1>10. ASSUME NEW n \in Nodes, LateReply(n) \/ Join(n) \/ Lose(n) \/ Unlist(n)
       PROVE  BrokerTypeOK'
  <2>1. node' \in [Nodes -> {"absent", "up", "down", "gone"}]
    BY <1>10 DEF LateReply, Join, Lose, Unlist, BrokerTypeOK
  <2> QED
    BY <1>10, <2>1 DEF LateReply, Join, Lose, Unlist, BrokerTypeOK
<1>11. CASE UNCHANGED vars
  BY <1>11 DEF vars, BrokerTypeOK
<1> QED
  BY <1>1, <1>2, <1>3, <1>4, <1>5, <1>6, <1>7, <1>8, <1>9, <1>10, <1>11
     DEF BrokerNext, InitSide

------------------------------------------------------------------------------
\* The lock goes from one goroutine to the next.
LEMMA LockStep == BrokerTypeOK /\ LockInv /\ [BrokerNext]_vars => LockInv'
<1> SUFFICES ASSUME BrokerTypeOK, LockInv, [BrokerNext]_vars PROVE LockInv'
  OBVIOUS
<1> USE DEF LockInv, loopVars, mainVars, nodeVars, userVars
<1>1. CASE Accept
  BY <1>1 DEF Accept
<1>2. CASE StartRecovery
  BY <1>2 DEF StartRecovery, Assign
<1>3. CASE Loop
  <2>1. CASE NextTurn
    BY <2>1 DEF NextTurn
  <2>2. CASE AllTurnsDone \/ LeaveKilled \/ TurnFails
    BY <2>2 DEF AllTurnsDone, LeaveKilled, TurnFails, EndSession
  <2>4. CASE TurnSucceeds
    BY <2>4 DEF TurnSucceeds, Writable, EndSession
  <2>5. CASE HandleEvent
    BY <2>5 DEF HandleEvent, Continue, EndSession
  <2>6. CASE NoEvent
    BY <2>6 DEF NoEvent, Continue
  <2> QED BY <1>3, <2>1, <2>2, <2>4, <2>5, <2>6 DEF Loop
<1>4. CASE Shutdown
  BY <1>4 DEF Shutdown, MainPasses, ShutdownBegins, MainReturns, StopNode
<1>5. ASSUME NEW s \in Sessions, Dial(s) \/ InitWaits(s) \/ SeeEnd(s) \/ Vanish(s)
      PROVE  LockInv'
  BY <1>5 DEF Dial, InitWaits, SeeEnd, Vanish
<1>6. ASSUME NEW s \in Sessions, StartInit(s) PROVE LockInv'
  BY <1>6 DEF StartInit, Assign
<1>7. ASSUME NEW s \in Sessions, KeyGetsRoom(s) \/ \E k \in Keys : PressKey(s, k)
      PROVE  LockInv'
  BY <1>7 DEF KeyGetsRoom, PressKey
<1>9. ASSUME NEW n \in Nodes, NodeReply(n) PROVE LockInv'
  BY <1>9 DEF NodeReply, DispatchSucceeds, DispatchFails, CallReturns
<1>10. ASSUME NEW n \in Nodes, LateReply(n) \/ Join(n) \/ Lose(n) \/ Unlist(n)
       PROVE  LockInv'
  BY <1>10 DEF LateReply, Join, Lose, Unlist
<1>11. CASE UNCHANGED vars
  BY <1>11 DEF vars
<1> QED
  BY <1>1, <1>2, <1>3, <1>4, <1>5, <1>6, <1>7, <1>9, <1>10, <1>11 DEF BrokerNext, InitSide

------------------------------------------------------------------------------
\* The k that reached main was obeyed by a loop that says goodbye before it gives
\* up the lock; main does not get further without the lock.
KillInv ==
  /\ main # "flag" => \/ killer \in hungup
                      \/ at = "ending" /\ killer = local_conn /\ killer # Nobody
  /\ main \in {"list", "stopping", "returned"} => killer \in hungup

\* The loop that obeyed the k keeps its connection until it has closed it.
LEMMA KillStep == BrokerTypeOK /\ LockInv /\ KillInv /\ [BrokerNext]_vars => KillInv'
<1> SUFFICES ASSUME BrokerTypeOK, LockInv, KillInv, [BrokerNext]_vars PROVE KillInv'
  OBVIOUS
<1> USE DEF KillInv, loopVars, mainVars, nodeVars, userVars
<1>0. Nobody \notin Sessions
  BY SessionNumbers DEF Nobody
<1>1. CASE Accept
  BY <1>1 DEF Accept, LockInv
<1>2. CASE StartRecovery
  BY <1>2 DEF StartRecovery, LockInv
<1>3. CASE Loop
  <2>1. CASE NextTurn \/ NoEvent
    BY <2>1 DEF NextTurn, NoEvent
  <2>2. CASE AllTurnsDone \/ LeaveKilled
    BY <2>2 DEF AllTurnsDone, LeaveKilled, EndSession
  <2>3. CASE TurnFails
    BY <2>3 DEF TurnFails
  <2>4. CASE TurnSucceeds
    BY <2>4 DEF TurnSucceeds, EndSession
  <2>5. CASE HandleEvent
    <3>1. local_conn # Nobody /\ at # "ending"
      BY <2>5, <1>0 DEF HandleEvent, LockInv
    <3>2. CASE EndSession /\ UNCHANGED mainVars
      BY <3>1, <3>2 DEF EndSession
    <3>3. CASE UNCHANGED <<mainVars, hungup>>
      BY <3>1, <3>3
    <3>4. CASE /\ at' = "ending" /\ UNCHANGED <<local_conn, hungup, toStop>>
               /\ IF main = "flag" THEN main' = "lock" /\ killer' = local_conn
                                   ELSE UNCHANGED <<main, killer>>
      BY <3>1, <3>4
    <3> QED BY <2>5, <3>2, <3>3, <3>4 DEF HandleEvent
  <2> QED BY <1>3, <2>1, <2>2, <2>3, <2>4, <2>5 DEF Loop
<1>4. CASE Shutdown
  BY <1>4 DEF Shutdown, MainPasses, ShutdownBegins, MainReturns, StopNode, LockInv
<1>5. ASSUME NEW s \in Sessions, Dial(s) \/ InitWaits(s) \/ SeeEnd(s) \/ Vanish(s)
      PROVE  KillInv'
  BY <1>5 DEF Dial, InitWaits, SeeEnd, Vanish
<1>6. ASSUME NEW s \in Sessions, StartInit(s) PROVE KillInv'
  BY <1>6 DEF StartInit, Assign, LockInv
<1>7. ASSUME NEW s \in Sessions, KeyGetsRoom(s) \/ \E k \in Keys : PressKey(s, k)
      PROVE  KillInv'
  BY <1>7 DEF KeyGetsRoom, PressKey
<1>9. ASSUME NEW n \in Nodes, NodeReply(n) PROVE KillInv'
  BY <1>9 DEF NodeReply, DispatchSucceeds, DispatchFails, CallReturns
<1>10. ASSUME NEW n \in Nodes, LateReply(n) \/ Join(n) \/ Lose(n) \/ Unlist(n)
       PROVE  KillInv'
  BY <1>10 DEF LateReply, Join, Lose, Unlist
<1>11. CASE UNCHANGED vars
  BY <1>11 DEF vars
<1> QED
  BY <1>1, <1>2, <1>3, <1>4, <1>5, <1>6, <1>7, <1>9, <1>10, <1>11 DEF BrokerNext, InitSide

------------------------------------------------------------------------------
(* Sessions, as long as no recovery has outlived its controller *)

Early(s)   == ctrl[s] \in {"new", "locking", "waiting", "woken"}
Engaged(s) == ctrl[s] \in {"inside", "running"}
Active(s)  == ctrl[s] # "new" /\ ~Ended(s)

\* One session after the other.
InOrder == \A r, s \in Sessions : r < s /\ ctrl[s] # "new" => Ended(r)

\* What a session cannot have before its evaluation starts.
Unstarted ==
  /\ \A s \in Sessions : Early(s) => s \notin hungup
  /\ \A s \in Sessions : Early(s) \/ ctrl[s] = "inside" =>
       keys[s] = 0 /\ reported[s] = 0 /\ blocked[s] = "none"
  /\ \A s \in Sessions : ctrl[s] = "done" => s \in hungup

\* Broker.Init waits while nobody evaluates, and its connection is the one it
\* was woken for; a connection that was not claimed is that of the one session
\* that is on its way.
Arriving ==
  /\ \A s \in Sessions : ctrl[s] \in {"waiting", "woken"} => lock # "taken"
  /\ \A s \in Sessions : ctrl[s] = "woken" => local_conn = s
  /\ lock = "free" /\ local_conn # Nobody => ctrl[local_conn] \in {"locking", "woken"}
  /\ local_conn # Nobody => ctrl[local_conn] # "new"
  /\ backlog # <<>> => \E s \in Sessions : /\ backlog = <<s>> /\ local_conn # s
                                           /\ ctrl[s] \in {"locking", "waiting"}

\* The goroutine with the lock works for the connection of the one session that
\* is engaged; the connection of a recovery that waits is nobody else's.
Connected ==
  /\ lock = "taken" => /\ local_conn \in Sessions \ hungup
                       /\ ~Early(local_conn)
                       /\ \A s \in Sessions : Engaged(s) => s = local_conn
                       /\ \A r \in recovering : r.conn # local_conn
                       /\ ctrl[local_conn] = "inside" => caller = local_conn
  /\ caller # Nobody => at = "dispatch" /\ caller = local_conn /\ ctrl[caller] = "inside"
  /\ \A r \in recovering : /\ r.conn \in Sessions \ hungup
                           /\ ~Early(r.conn)
                           /\ r.caller # Nobody => r.caller = r.conn /\ ctrl[r.conn] = "inside"
                           /\ ctrl[r.conn] = "inside" => r.caller = r.conn
  /\ \A r, q \in recovering : r.conn = q.conn => r = q

Kept ==
  \A s \in Sessions : ctrl[s] = "running" =>
    \/ lock = "taken" /\ local_conn = s
    \/ \E r \in recovering : r.conn = s
    \/ s \in hungup
    \/ lock = "leaked"

\* The turns that were reported, while a loop runs and while a recovery waits.
Counted ==
  /\ lock = "taken" /\ Engaged(local_conn) =>
       reported[local_conn] = turn + (IF at \in {"poll", "ending"} THEN 1 ELSE 0)
  /\ \A r \in recovering : Engaged(r.conn) => reported[r.conn] = turn
  /\ \A s \in hungup : ctrl[s] \in {"running", "done"} /\ keys[s] = 0 => reported[s] = Turns

\* The loop finds only events of its own session; and a call that waits does so
\* because the place is taken.
Pressed ==
  /\ /\ lock = "taken" /\ Engaged(local_conn)
     /\ chan.buf # <<>> \/ at = "ending" \/ \E t \in Sessions : blocked[t] \in Events
     => keys[local_conn] > 0
  /\ \A t \in Sessions :
       blocked[t] \in Events /\ chan.open /\ at \in {"idle", "dispatch"} => chan.buf # <<>>

SessionInv == InOrder /\ Unstarted /\ Arriving /\ Connected /\ Kept /\ Counted /\ Pressed

\* At most one session is on its way or engaged.
LEMMA OneActive ==
  ASSUME BrokerTypeOK, InOrder, NEW s \in Sessions, NEW t \in Sessions, Active(s), Active(t)
  PROVE  s = t
<1>1. s \in Nat /\ t \in Nat
  BY SessionNumbers
<1>2. ~(s < t) /\ ~(t < s)
  BY DEF InOrder, Active
<1> QED BY <1>1, <1>2

\* A recovery that gets the lock is that of the engaged session.
LEMMA RecoveryOf ==
  ASSUME BrokerTypeOK, SessionInv, StartRecovery, ~revenant'
  PROVE  \E r \in recovering :
           /\ recovering' = recovering \ {r} /\ local_conn' = r.conn
           /\ Assign(r.caller)
           /\ ctrl' = IF Listed = {} /\ r.caller # Nobody
                      THEN [ctrl EXCEPT ![r.caller] = "dead"] ELSE ctrl
           /\ r.conn \in Sessions \ hungup
           /\ Engaged(r.conn)
           /\ r.caller # Nobody => r.caller = r.conn /\ ctrl[r.conn] = "inside"
           /\ ctrl[r.conn] = "inside" => r.caller = r.conn
<1>1. PICK r \in recovering :
        /\ recovering' = recovering \ {r} /\ local_conn' = r.conn
        /\ Assign(r.caller)
        /\ revenant' = (revenant \/ Gone(r.conn))
        /\ ctrl' = IF Listed = {} /\ r.caller # Nobody
                   THEN [ctrl EXCEPT ![r.caller] = "dead"] ELSE ctrl
  BY DEF StartRecovery
<1>2. /\ r.conn \in Sessions \ hungup /\ ~Early(r.conn)
      /\ r.caller # Nobody => r.caller = r.conn /\ ctrl[r.conn] = "inside"
      /\ ctrl[r.conn] = "inside" => r.caller = r.conn
  BY DEF SessionInv, Connected
<1>3. ~Ended(r.conn)
  BY <1>1, <1>2 DEF Gone
<1>4. Engaged(r.conn)
  BY <1>2, <1>3 DEF Engaged, Early, Ended, BrokerTypeOK
<1> QED BY <1>1, <1>2, <1>4

\* The variables that the sessions' invariant is about.
sessionVars == <<lock, local_conn, chan, at, caller, recovering, turn, ctrl, backlog, blocked,
                 keys, reported, hungup>>

\* Nodes that come and go, replies and the end of main leave the sessions alone.
LEMMA Elsewhere ==
  ASSUME Shutdown \/ (\E n \in Nodes : \/ CallReturns(n) \/ LateReply(n)
                                       \/ Join(n) \/ Lose(n) \/ Unlist(n))
  PROVE  UNCHANGED sessionVars
BY DEF sessionVars, Shutdown, MainPasses, ShutdownBegins, MainReturns, StopNode, CallReturns,
       LateReply, Join, Lose, Unlist, loopVars, mainVars, nodeVars, userVars

\* A controller dials when those before it have ended; nobody starts again.
LEMMA OrderStep ==
  ASSUME BrokerTypeOK, LockInv, SessionInv, BrokerNext, ~revenant'
  PROVE  InOrder'
<1> USE DEF InOrder, Ended, loopVars, mainVars, nodeVars, userVars
<1>0. InOrder
  BY DEF SessionInv
<1>1. CASE Accept
  BY <1>0, <1>1 DEF Accept, Woken
<1>2. CASE StartRecovery
  <2>1. PICK r \in recovering :
          /\ ctrl' = IF Listed = {} /\ r.caller # Nobody
                     THEN [ctrl EXCEPT ![r.caller] = "dead"] ELSE ctrl
          /\ r.conn \in Sessions
          /\ r.caller # Nobody => r.caller = r.conn /\ ctrl[r.conn] = "inside"
    BY <1>2, RecoveryOf
  <2> QED BY <1>0, <2>1 DEF BrokerTypeOK
<1>3. CASE Loop
  BY <1>0, <1>3 DEF Loop, NextTurn, AllTurnsDone, TurnFails, TurnSucceeds, HandleEvent, NoEvent,
     LeaveKilled
<1>4. ASSUME NEW s \in Sessions, Dial(s) PROVE InOrder'
  <2>1. /\ ctrl' = [ctrl EXCEPT ![s] = "locking"] /\ ctrl[s] = "new"
        /\ \A r \in 1..s - 1 : Ended(r)
    BY <1>4 DEF Dial
  <2>2. \A r \in Sessions : r < s => r \in 1..s - 1
    BY SessionNumbers
  <2>3. ASSUME NEW r \in Sessions, NEW t \in Sessions, r < t, ctrl'[t] # "new"
        PROVE  Ended(r)'
    <3>1. CASE t = s
      BY <2>1, <2>2, <2>3, <3>1, SessionNumbers DEF BrokerTypeOK
    <3>2. CASE t # s
      \* r ended before, and r is not s, which was new
      <4>1. Ended(r)
        BY <1>0, <2>1, <2>3, <3>2 DEF BrokerTypeOK
      <4> QED BY <2>1, <4>1 DEF BrokerTypeOK
    <3> QED BY <3>1, <3>2
  <2> QED BY <2>3
<1>5. ASSUME NEW s \in Sessions, InitWaits(s) \/ StartInit(s) \/ SeeEnd(s) \/ Vanish(s)
      PROVE  InOrder'
  BY <1>0, <1>5 DEF InitWaits, StartInit, SeeEnd, Vanish, BrokerTypeOK
<1>6. ASSUME NEW s \in Sessions, KeyGetsRoom(s) \/ \E k \in Keys : PressKey(s, k)
      PROVE  InOrder'
  BY <1>0, <1>6 DEF KeyGetsRoom, PressKey, AfterSend, Woken
<1>7. ASSUME NEW n \in Nodes, DispatchSucceeds(n) \/ DispatchFails(n) PROVE InOrder'
  <2>1. caller # Nobody => caller \in Sessions /\ ctrl[caller] = "inside"
    BY DEF SessionInv, Connected, BrokerTypeOK
  <2> QED
    BY <1>0, <1>7, <2>1 DEF DispatchSucceeds, DispatchFails, BrokerTypeOK
<1>8. CASE UNCHANGED sessionVars
  BY <1>0, <1>8 DEF sessionVars
<1> QED
  BY <1>1, <1>2, <1>3, <1>4, <1>5, <1>6, <1>7, <1>8, Elsewhere DEF BrokerNext, InitSide, NodeReply

\* Reports, keys and closed streams are those of sessions that were started.
LEMMA UnstartedStep ==
  ASSUME BrokerTypeOK, LockInv, SessionInv, BrokerNext, ~revenant'
  PROVE  Unstarted'
<1> USE DEF Unstarted, Early, loopVars, mainVars, nodeVars, userVars
<1>0. Unstarted
  BY DEF SessionInv
<1>1. CASE Accept
  BY <1>0, <1>1 DEF Accept, Woken, BrokerTypeOK
<1>2. CASE StartRecovery
  <2>1. PICK r \in recovering :
          /\ ctrl' = IF Listed = {} /\ r.caller # Nobody
                     THEN [ctrl EXCEPT ![r.caller] = "dead"] ELSE ctrl
          /\ r.conn \in Sessions
          /\ r.caller # Nobody => r.caller = r.conn /\ ctrl[r.conn] = "inside"
    BY <1>2, RecoveryOf
  <2>2. blocked' = [s \in Sessions |-> IF blocked[s] = "none" THEN "none" ELSE "lost"]
    BY <1>2 DEF StartRecovery, Assign, NewChan
  <2> QED BY <1>0, <1>2, <2>1, <2>2 DEF StartRecovery, BrokerTypeOK
<1>3. CASE Loop
  <2>1. lock = "taken" => local_conn \in Sessions \ hungup /\ ~Early(local_conn)
    BY DEF SessionInv, Connected
  <2>2. UNCHANGED <<ctrl, keys, blocked>>
    BY <1>3 DEF Loop, NextTurn, AllTurnsDone, TurnFails, TurnSucceeds, HandleEvent, NoEvent,
       LeaveKilled
  <2>3. lock = "taken"
    BY <1>3 DEF Loop, NextTurn, AllTurnsDone, TurnFails, TurnSucceeds, HandleEvent, NoEvent,
       LeaveKilled, LockInv
  <2>4. hungup' = hungup \/ hungup' = hungup \cup {local_conn}
    BY <1>3, <2>1, <2>3, SessionNumbers
       DEF Loop, NextTurn, AllTurnsDone, TurnFails, TurnSucceeds, HandleEvent, NoEvent,
           LeaveKilled, EndSession, Nobody
  <2>5. \/ reported' = reported
        \/ reported' = [reported EXCEPT ![local_conn] = @ + 1] /\ at = "calls"
    BY <1>3 DEF Loop, NextTurn, AllTurnsDone, TurnFails, TurnSucceeds, HandleEvent, NoEvent,
       LeaveKilled
  <2>6. at = "calls" => ctrl[local_conn] # "inside"
    BY <2>1, <2>3, SessionNumbers DEF SessionInv, Connected, Nobody
  <2>7. ASSUME NEW s \in Sessions, Early(s) \/ ctrl[s] = "inside" PROVE reported'[s] = reported[s]
    BY <2>1, <2>3, <2>5, <2>6, <2>7 DEF BrokerTypeOK
  <2>8. \A s \in Sessions : Early(s) => s \notin hungup'
    BY <1>0, <2>1, <2>3, <2>4
  <2>9. \A s \in Sessions : ctrl[s] = "done" => s \in hungup'
    BY <1>0, <2>4
  <2> QED
    BY <1>0, <2>2, <2>7, <2>8, <2>9
<1>5. ASSUME NEW s \in Sessions,
             Dial(s) \/ InitWaits(s) \/ StartInit(s) \/ SeeEnd(s) \/ Vanish(s)
      PROVE  Unstarted'
  BY <1>0, <1>5, SMTT(30) DEF Dial, InitWaits, StartInit, Assign, NewChan, SeeEnd, Vanish, BrokerTypeOK
<1>6. ASSUME NEW s \in Sessions, KeyGetsRoom(s) \/ \E k \in Keys : PressKey(s, k)
      PROVE  Unstarted'
  BY <1>0, <1>6 DEF KeyGetsRoom, PressKey, AfterSend, Woken, BrokerTypeOK, Events
<1>7. ASSUME NEW n \in Nodes, DispatchSucceeds(n) \/ DispatchFails(n) PROVE Unstarted'
  <2>1. caller # Nobody => caller \in Sessions /\ ctrl[caller] = "inside"
    BY DEF SessionInv, Connected, BrokerTypeOK
  <2> QED
    BY <1>0, <1>7, <2>1 DEF DispatchSucceeds, DispatchFails, BrokerTypeOK
<1>8. CASE UNCHANGED sessionVars
  BY <1>0, <1>8 DEF sessionVars
<1> QED
  BY <1>1, <1>2, <1>3, <1>5, <1>6, <1>7, <1>8, Elsewhere DEF BrokerNext, InitSide, NodeReply

\* What the loop does to sessions: it goes on, ends its session, or fails.
LEMMA LoopSteps ==
  ASSUME BrokerTypeOK, LockInv, SessionInv, Loop
  PROVE  /\ lock = "taken" /\ local_conn \in Sessions \ hungup /\ local_conn # Nobody
         /\ caller = Nobody /\ at \notin {"idle", "dispatch"}
         /\ ctrl[local_conn] \in {"running", "done", "dead"}
         /\ UNCHANGED <<ctrl, keys, blocked, backlog, caller>>
         /\ \/ UNCHANGED <<lock, local_conn, hungup, recovering>> /\ at' \notin {"idle", "dispatch"}
            \/ /\ EndSession /\ hungup' = hungup \cup {local_conn}
               /\ UNCHANGED <<recovering, turn, reported>>
            \/ TurnFails
<1> USE DEF loopVars, mainVars, nodeVars, userVars
<1>1. at \notin {"idle", "dispatch"} /\ UNCHANGED <<ctrl, keys, blocked, backlog, caller>>
  BY DEF Loop, NextTurn, AllTurnsDone, TurnFails, TurnSucceeds, HandleEvent, NoEvent, LeaveKilled
<1>2. lock = "taken" /\ caller = Nobody
  BY <1>1 DEF LockInv, SessionInv, Connected
<1>3. local_conn \in Sessions \ hungup /\ local_conn # Nobody /\ ~Early(local_conn)
  BY <1>2, SessionNumbers DEF SessionInv, Connected, Nobody
<1>4. ctrl[local_conn] \in {"running", "done", "dead"}
  BY <1>2, <1>3 DEF SessionInv, Connected, Early, BrokerTypeOK
<1>5. \/ UNCHANGED <<lock, local_conn, hungup, recovering>> /\ at' \notin {"idle", "dispatch"}
      \/ EndSession /\ UNCHANGED <<recovering, turn, reported>>
      \/ TurnFails
  <2>1. CASE NextTurn \/ NoEvent
    BY <1>1, <2>1 DEF NextTurn, NoEvent, Continue
  <2>2. CASE AllTurnsDone \/ LeaveKilled
    BY <2>2 DEF AllTurnsDone, LeaveKilled
  <2>3. CASE TurnSucceeds
    BY <2>3 DEF TurnSucceeds
  <2>4. CASE HandleEvent
    BY <1>1, <2>4 DEF HandleEvent, Continue
  <2> QED BY <2>1, <2>2, <2>3, <2>4 DEF Loop
<1>6. EndSession => hungup' = hungup \cup {local_conn}
  BY <1>3 DEF EndSession
<1> QED BY <1>1, <1>2, <1>3, <1>4, <1>5, <1>6

\* While a session has a loop or a key in hand, no Init waits to be woken.
LEMMA NobodyWoken ==
  ASSUME BrokerTypeOK, LockInv, SessionInv, NEW s \in Sessions,
         KeyGetsRoom(s) \/ \E k \in Keys : PressKey(s, k)
  PROVE  UNCHANGED ctrl
<1> USE DEF SessionInv, Arriving
<1>1. ASSUME NEW t \in Sessions, ctrl[t] = "waiting" PROVE FALSE
  <2>1. CASE KeyGetsRoom(s)
    <3>1. at \notin {"idle", "dispatch"}
      BY <2>1 DEF KeyGetsRoom, Pressed
    <3> QED BY <1>1, <3>1 DEF LockInv
  <2>2. CASE \E k \in Keys : PressKey(s, k)
    <3>1. ctrl[s] = "running"
      BY <2>2 DEF PressKey
    <3>2. Active(s) /\ Active(t)
      BY <1>1, <3>1 DEF Active, Ended
    <3> QED BY <1>1, <3>1, <3>2, OneActive
  <2> QED BY <2>1, <2>2
<1>2. Woken(ctrl) = ctrl
  BY <1>1 DEF Woken, BrokerTypeOK
<1> QED BY <1>2 DEF KeyGetsRoom, PressKey, AfterSend

\* A connection goes from the backlog to the Init that it wakes.
LEMMA ArrivingStep ==
  ASSUME BrokerTypeOK, LockInv, SessionInv, BrokerNext, ~revenant'
  PROVE  Arriving'
<1> USE DEF Arriving, loopVars, mainVars, nodeVars, userVars
<1>0. InOrder /\ Arriving /\ Connected /\ Nobody \notin Sessions
  BY SessionNumbers DEF SessionInv, Nobody
<1>1. ASSUME NEW s \in Sessions, NEW t \in Sessions,
             ctrl[s] \in {"locking", "waiting", "woken", "inside", "running"},
             ctrl[t] \in {"locking", "waiting", "woken", "inside", "running"}
      PROVE  s = t
  BY <1>0, <1>1, OneActive DEF Active, Ended
<1>2. CASE Accept
  <2>1. PICK s \in Sessions : /\ backlog = <<s>> /\ ctrl[s] \in {"locking", "waiting"}
    BY <1>0, <1>2 DEF Accept
  <2>2. local_conn' = s /\ backlog' = <<>> /\ ctrl' = Woken(ctrl) /\ lock' = "free"
    BY <1>2, <2>1 DEF Accept
  <2>3. ctrl'[s] \in {"locking", "woken"}
    BY <2>1, <2>2 DEF Woken
  <2>4. \A t \in Sessions : ctrl'[t] = "woken" => t = s
    BY <1>1, <2>1, <2>2 DEF Woken
  <2> QED BY <2>2, <2>3, <2>4
<1>3. CASE StartRecovery
  <2>1. PICK r \in recovering :
          /\ local_conn' = r.conn /\ Assign(r.caller)
          /\ ctrl' = IF Listed = {} /\ r.caller # Nobody
                     THEN [ctrl EXCEPT ![r.caller] = "dead"] ELSE ctrl
          /\ r.conn \in Sessions /\ Engaged(r.conn)
          /\ r.caller # Nobody => r.caller = r.conn /\ ctrl[r.conn] = "inside"
    BY <1>3, RecoveryOf
  <2>2. lock' # "free" /\ backlog' = backlog
    BY <1>3, <2>1 DEF StartRecovery, Assign
  <2>3. \A t \in Sessions : ctrl[t] \notin {"locking", "waiting", "woken"}
    BY <1>1, <2>1 DEF Engaged
  <2>4. \A t \in Sessions : ctrl'[t] \notin {"waiting", "woken"}
    BY <2>1, <2>3 DEF BrokerTypeOK
  <2>5. ctrl'[r.conn] # "new"
    BY <2>1 DEF BrokerTypeOK, Engaged
  <2>6. backlog' = <<>>
    BY <1>0, <2>2, <2>3
  <2> QED BY <2>1, <2>2, <2>4, <2>5, <2>6
<1>4. CASE Loop
  <2>1. /\ lock = "taken" /\ UNCHANGED <<ctrl, backlog>>
        /\ \/ UNCHANGED <<lock, local_conn>>
           \/ local_conn' = Nobody
    BY <1>4, LoopSteps DEF EndSession, TurnFails
  <2> QED BY <1>0, <2>1
<1>5. ASSUME NEW s \in Sessions, Dial(s) PROVE Arriving'
  <2>1. /\ ctrl[s] = "new" /\ ctrl' = [ctrl EXCEPT ![s] = "locking"]
        /\ backlog' = Append(backlog, s) /\ UNCHANGED <<lock, local_conn>>
        /\ \A r \in 1..s - 1 : Ended(r)
    BY <1>5 DEF Dial
  <2>2. \A t \in Sessions : ctrl[t] = "new" \/ Ended(t)
    <3>1. SUFFICES ASSUME NEW t \in Sessions, ctrl[t] # "new" PROVE Ended(t)
      OBVIOUS
    <3>2. t \in Nat \ {0} /\ s \in Nat \ {0}
      BY SessionNumbers
    <3>3. ~(s < t)
      BY <1>0, <2>1, <3>1 DEF InOrder, Ended
    <3> QED BY <2>1, <3>1, <3>2, <3>3
  <2>3. backlog = <<>>
    BY <1>0, <2>2 DEF Ended
  <2>4. backlog' = <<s>>
    BY <2>1, <2>3
  <2>5. local_conn # s
    BY <1>0, <2>1
  <2>6. ctrl'[s] = "locking"
    BY <2>1 DEF BrokerTypeOK
  <2>7. \A t \in Sessions : ctrl'[t] \notin {"waiting", "woken"}
    BY <2>1, <2>2 DEF Ended, BrokerTypeOK
  <2>8. lock = "free" => local_conn = Nobody
    BY <1>0, <2>2 DEF Ended, BrokerTypeOK
  <2>9. local_conn # Nobody => ctrl'[local_conn] # "new"
    BY <1>0, <2>1, <2>5 DEF BrokerTypeOK
  <2> QED BY <2>1, <2>4, <2>5, <2>6, <2>7, <2>8, <2>9
<1>6. ASSUME NEW s \in Sessions, InitWaits(s) PROVE Arriving'
  BY <1>0, <1>6 DEF InitWaits, BrokerTypeOK
<1>7. ASSUME NEW s \in Sessions, StartInit(s) PROVE Arriving'
  <2>1. /\ ctrl[s] \in {"locking", "woken"} /\ (ctrl[s] = "locking" => local_conn # Nobody)
        /\ lock = "free" /\ lock' # "free" /\ UNCHANGED <<local_conn, backlog>>
        /\ ctrl' = [ctrl EXCEPT ![s] = IF Listed = {} THEN "dead" ELSE "inside"]
    BY <1>7 DEF StartInit, Assign
  <2>2. local_conn = s
    BY <1>0, <1>1, <2>1 DEF BrokerTypeOK
  <2>3. backlog' = <<>>
    BY <1>0, <1>1, <2>1, <2>2
  <2>4. \A t \in Sessions : ctrl'[t] \notin {"waiting", "woken"}
    BY <1>1, <2>1 DEF BrokerTypeOK
  <2>5. ctrl'[s] # "new"
    BY <2>1 DEF BrokerTypeOK
  <2> QED BY <2>1, <2>2, <2>3, <2>4, <2>5
<1>8. ASSUME NEW s \in Sessions, SeeEnd(s) \/ Vanish(s) PROVE Arriving'
  BY <1>0, <1>8 DEF SeeEnd, Vanish, BrokerTypeOK
<1>9. ASSUME NEW s \in Sessions, KeyGetsRoom(s) \/ \E k \in Keys : PressKey(s, k)
      PROVE  Arriving'
  <2>1. UNCHANGED <<ctrl, lock, local_conn, backlog>>
    BY <1>9, NobodyWoken DEF KeyGetsRoom, PressKey
  <2> QED BY <1>0, <2>1
<1>10. ASSUME NEW n \in Nodes, DispatchSucceeds(n) PROVE Arriving'
  BY <1>0, <1>10 DEF DispatchSucceeds, Connected, BrokerTypeOK
<1>11. ASSUME NEW n \in Nodes, DispatchFails(n) PROVE Arriving'
  <2>1. lock = "taken" /\ local_conn' = Nobody /\ UNCHANGED <<ctrl, backlog>>
    BY <1>11 DEF DispatchFails, LockInv
  <2> QED BY <1>0, <2>1
<1>12. CASE UNCHANGED sessionVars
  BY <1>0, <1>12 DEF sessionVars
<1> QED
  BY <1>2, <1>3, <1>4, <1>5, <1>6, <1>7, <1>8, <1>9, <1>10, <1>11, <1>12, Elsewhere
     DEF BrokerNext, InitSide, NodeReply

\* The Init that gets the lock is that of the accepted connection, the one on its way.
LEMMA InitOf ==
  ASSUME BrokerTypeOK, SessionInv, NEW s \in Sessions, StartInit(s)
  PROVE  /\ local_conn = s /\ local_conn' = s /\ lock = "free" /\ Early(s) /\ Active(s)
         /\ ctrl' = [ctrl EXCEPT ![s] = IF Listed = {} THEN "dead" ELSE "inside"]
         /\ \A t \in Sessions : ~Engaged(t)
<1>1. /\ ctrl[s] \in {"locking", "woken"} /\ (ctrl[s] = "locking" => local_conn # Nobody)
      /\ lock = "free" /\ UNCHANGED local_conn
      /\ ctrl' = [ctrl EXCEPT ![s] = IF Listed = {} THEN "dead" ELSE "inside"]
  BY DEF StartInit
<1>2. ASSUME NEW t \in Sessions, ctrl[t] \in {"locking", "woken", "inside", "running"}
      PROVE  t = s
  BY <1>1, <1>2, OneActive DEF Active, Ended, SessionInv
<1>3. local_conn = s
  BY <1>1, <1>2 DEF SessionInv, Arriving, BrokerTypeOK
<1> QED BY <1>1, <1>2, <1>3 DEF Early, Engaged, Active, Ended

\* The connection moves between Init, loop, failed try and recovery, and is in one hand.
LEMMA ConnectedStep ==
  ASSUME BrokerTypeOK, LockInv, SessionInv, BrokerNext, ~revenant'
  PROVE  Connected'
<1> USE DEF Connected, loopVars, mainVars, nodeVars, userVars
<1>0. Connected /\ Nobody \notin Sessions
  BY SessionNumbers DEF SessionInv, Nobody
<1>1. CASE Accept
  <2>1. lock' = "free" /\ caller' = Nobody /\ UNCHANGED <<recovering, hungup>>
    BY <1>0, <1>1 DEF Accept, LockInv
  <2>2. \A s \in Sessions : (Early(s)' <=> Early(s)) /\ (ctrl'[s] = "inside" <=> ctrl[s] = "inside")
    BY <1>1 DEF Accept, Woken, Early
  <2> QED BY <1>0, <2>1, <2>2
<1>2. CASE StartRecovery
  <2>1. PICK r \in recovering :
          /\ recovering' = recovering \ {r} /\ local_conn' = r.conn /\ Assign(r.caller)
          /\ ctrl' = IF Listed = {} /\ r.caller # Nobody
                     THEN [ctrl EXCEPT ![r.caller] = "dead"] ELSE ctrl
          /\ r.conn \in Sessions \ hungup /\ Engaged(r.conn)
          /\ r.caller # Nobody => r.caller = r.conn /\ ctrl[r.conn] = "inside"
          /\ ctrl[r.conn] = "inside" => r.caller = r.conn
    BY <1>2, RecoveryOf
  <2>2. hungup' = hungup
    BY <1>2 DEF StartRecovery
  <2>3. \A q \in recovering' : q \in recovering /\ q.conn # r.conn
    BY <1>0, <2>1
  <2>4. \A q \in recovering' : ctrl'[q.conn] = ctrl[q.conn]
    BY <1>0, <2>1, <2>3 DEF BrokerTypeOK
  <2>5. \A s \in Sessions : Engaged(s)' => s = r.conn
    <3>1. \A s \in Sessions : Engaged(s)' => Engaged(s)
      BY <2>1 DEF Engaged, BrokerTypeOK
    <3>2. \A s \in Sessions : Engaged(s) => Active(s)
      BY DEF Engaged, Active, Ended
    <3> QED BY <2>1, <3>1, <3>2, OneActive DEF SessionInv
  <2>6. CASE Listed = {}
    <3>1. lock' = "leaked" /\ caller' = Nobody
      BY <2>1, <2>6 DEF Assign
    <3> QED BY <1>0, <2>2, <2>3, <2>4, <3>1 DEF Early
  <2>7. CASE Listed # {}
    <3>1. /\ lock' = "taken" /\ at' = "dispatch" /\ caller' = r.caller /\ ctrl' = ctrl
      BY <2>1, <2>7 DEF Assign
    <3>2. ~Early(r.conn)
      BY <2>1 DEF Early, Engaged
    <3> QED BY <1>0, <2>1, <2>2, <2>3, <2>5, <3>1, <3>2 DEF Early
  <2> QED BY <2>6, <2>7
<1>3. CASE Loop
  <2>1. /\ lock = "taken" /\ local_conn \in Sessions \ hungup
        /\ ctrl[local_conn] \in {"running", "done", "dead"}
        /\ caller' = Nobody /\ ctrl' = ctrl
        /\ \/ UNCHANGED <<lock, local_conn, hungup, recovering, caller>>
           \/ EndSession /\ hungup' = hungup \cup {local_conn} /\ recovering' = recovering
           \/ TurnFails
    BY <1>3, LoopSteps
  <2>2. CASE UNCHANGED <<lock, local_conn, hungup, recovering, caller>>
    BY <1>0, <2>1, <2>2 DEF Early, Engaged
  <2>3. CASE EndSession /\ hungup' = hungup \cup {local_conn} /\ recovering' = recovering
    BY <1>0, <2>1, <2>3 DEF EndSession, Early
  <2>4. CASE TurnFails
    <3>1. /\ lock' = "free" /\ hungup' = hungup
          /\ recovering' = recovering \cup {[conn |-> local_conn, caller |-> Nobody]}
      BY <2>4 DEF TurnFails
    <3>2. ~Early(local_conn)
      BY <1>0, <2>1
    <3>3. \A q \in recovering : q.conn # local_conn
      BY <1>0, <2>1
    <3>4. \A q \in recovering' : q \in recovering \/ (q.conn = local_conn /\ q.caller = Nobody)
      BY <3>1
    <3>5. \A q \in recovering' :
            /\ q.conn \in Sessions \ hungup'
            /\ ~Early(q.conn)'
            /\ q.caller # Nobody => q.caller = q.conn /\ ctrl'[q.conn] = "inside"
            /\ ctrl'[q.conn] = "inside" => q.caller = q.conn
      BY <1>0, <2>1, <3>1, <3>2, <3>4 DEF Early
    <3>6. \A p, q \in recovering' : p.conn = q.conn => p = q
      BY <1>0, <3>1, <3>3
    <3> QED BY <2>1, <3>1, <3>5, <3>6
  <2> QED BY <2>1, <2>2, <2>3, <2>4
<1>5. ASSUME NEW s \in Sessions, Dial(s) \/ InitWaits(s) PROVE Connected'
  <2>1. /\ Early(s) /\ UNCHANGED <<lock, local_conn, hungup, recovering, caller, at>>
        /\ \/ ctrl' = [ctrl EXCEPT ![s] = "locking"]
           \/ ctrl' = [ctrl EXCEPT ![s] = "waiting"]
    BY <1>5 DEF Dial, InitWaits, Early
  <2>2. \A t \in Sessions : (Early(t)' <=> Early(t)) /\ (~Early(t) => ctrl'[t] = ctrl[t])
    BY <2>1 DEF Early, BrokerTypeOK
  <2>3. \A t \in Sessions : Engaged(t)' <=> Engaged(t)
    BY <2>1, <2>2 DEF Early, Engaged, BrokerTypeOK
  <2>4. \A t \in Sessions : ctrl[t] = "inside" <=> ctrl'[t] = "inside"
    BY <2>1 DEF Early, BrokerTypeOK
  <2>5. caller # Nobody => caller \in Sessions
    BY DEF BrokerTypeOK
  <2>6. lock = "taken" => local_conn \in Sessions
    BY <1>0
  <2>7. \A q \in recovering : q.conn \in Sessions
    BY <1>0
  <2> QED BY <1>0, <2>1, <2>2, <2>3, <2>4, <2>5, <2>6, <2>7
<1>6. ASSUME NEW s \in Sessions, StartInit(s) PROVE Connected'
  <2>1. /\ local_conn' = s /\ lock = "free" /\ Early(s)
        /\ ctrl' = [ctrl EXCEPT ![s] = IF Listed = {} THEN "dead" ELSE "inside"]
        /\ \A t \in Sessions : ~Engaged(t)
    BY <1>6, InitOf
  <2>2. UNCHANGED <<recovering, hungup>> /\ s \notin hungup
    BY <1>6, <2>1 DEF StartInit, SessionInv, Unstarted
  <2>3. \A q \in recovering : q.conn # s /\ ctrl'[q.conn] = ctrl[q.conn]
    BY <1>0, <2>1 DEF BrokerTypeOK
  <2>4. CASE Listed = {}
    <3>1. lock' = "leaked" /\ caller' = Nobody
      BY <1>6, <2>4 DEF StartInit, Assign
    <3> QED BY <1>0, <2>2, <2>3, <3>1 DEF Early
  <2>5. CASE Listed # {}
    <3>1. /\ lock' = "taken" /\ at' = "dispatch" /\ caller' = s /\ ctrl'[s] = "inside"
      BY <1>6, <2>1, <2>5 DEF StartInit, Assign, BrokerTypeOK
    <3>2. \A t \in Sessions : Engaged(t)' => t = s
      BY <2>1 DEF Engaged, BrokerTypeOK
    <3> QED BY <1>0, <2>1, <2>2, <2>3, <3>1, <3>2 DEF Early
  <2> QED BY <2>4, <2>5
<1>7. ASSUME NEW s \in Sessions, SeeEnd(s) \/ Vanish(s) PROVE Connected'
  <2>1. /\ ctrl[s] = "running" /\ UNCHANGED <<lock, local_conn, hungup, recovering, caller, at>>
        /\ \/ ctrl' = [ctrl EXCEPT ![s] = "done"]
           \/ ctrl' = [ctrl EXCEPT ![s] = "dead"]
    BY <1>7 DEF SeeEnd, Vanish
  <2>2. \A t \in Sessions : /\ Early(t)' <=> Early(t)
                            /\ Engaged(t)' => Engaged(t)
                            /\ ctrl'[t] = "inside" <=> ctrl[t] = "inside"
    BY <2>1 DEF Early, Engaged, BrokerTypeOK
  <2>3. caller # Nobody => caller \in Sessions
    BY DEF BrokerTypeOK
  <2>4. lock = "taken" => local_conn \in Sessions
    BY <1>0
  <2>5. \A q \in recovering : q.conn \in Sessions
    BY <1>0
  <2> QED BY <1>0, <2>1, <2>2, <2>3, <2>4, <2>5
<1>8. ASSUME NEW s \in Sessions, KeyGetsRoom(s) \/ \E k \in Keys : PressKey(s, k)
      PROVE  Connected'
  <2>1. UNCHANGED <<ctrl, lock, local_conn, hungup, recovering, caller, at>>
    BY <1>8, NobodyWoken DEF KeyGetsRoom, PressKey
  <2> QED BY <1>0, <2>1 DEF Early, Engaged
<1>9. ASSUME NEW n \in Nodes, DispatchSucceeds(n) PROVE Connected'
  <2>1. /\ lock = "taken" /\ UNCHANGED <<lock, local_conn, hungup, recovering>>
        /\ at = "dispatch"
    BY <1>9 DEF DispatchSucceeds, LockInv
  <2>2. CASE UNCHANGED <<at, caller, ctrl>>
    BY <1>0, <2>1, <2>2 DEF Early, Engaged
  <2>3. CASE /\ caller' = Nobody
             /\ ctrl' = IF caller = Nobody THEN ctrl ELSE [ctrl EXCEPT ![caller] = "running"]
    <3>1. caller # Nobody => caller = local_conn /\ ctrl[local_conn] = "inside"
      BY <1>0
    <3>2. local_conn \in Sessions /\ ctrl'[local_conn] # "inside"
      BY <1>0, <2>1, <2>3, <3>1 DEF BrokerTypeOK
    <3>3. \A t \in Sessions : (Early(t)' <=> Early(t)) /\ (Engaged(t)' <=> Engaged(t))
      BY <2>3, <3>1 DEF Early, Engaged, BrokerTypeOK
    <3>4. \A t \in Sessions : t # local_conn => ctrl'[t] = ctrl[t]
      BY <2>3, <3>1 DEF BrokerTypeOK
    <3> QED BY <1>0, <2>1, <2>3, <3>2, <3>3, <3>4
  <2> QED BY <1>9, <2>2, <2>3 DEF DispatchSucceeds
<1>10. ASSUME NEW n \in Nodes, DispatchFails(n) PROVE Connected'
  <2>1. /\ lock = "taken" /\ lock' = "free" /\ caller' = Nobody /\ UNCHANGED <<hungup, ctrl>>
        /\ recovering' = recovering \cup {[conn |-> local_conn, caller |-> caller]}
    BY <1>10 DEF DispatchFails, LockInv
  <2>2. \A q \in recovering : q.conn # local_conn
    BY <1>0, <2>1
  <2>3. \A q \in recovering' : q \in recovering \/ (q.conn = local_conn /\ q.caller = caller)
    BY <2>1
  <2>4. /\ local_conn \in Sessions \ hungup /\ ~Early(local_conn)
        /\ caller # Nobody => caller = local_conn /\ ctrl[local_conn] = "inside"
        /\ ctrl[local_conn] = "inside" => caller = local_conn
    BY <1>0, <2>1
  <2>5. \A q \in recovering' :
          /\ q.conn \in Sessions \ hungup'
          /\ ~Early(q.conn)'
          /\ q.caller # Nobody => q.caller = q.conn /\ ctrl'[q.conn] = "inside"
          /\ ctrl'[q.conn] = "inside" => q.caller = q.conn
    BY <1>0, <2>1, <2>3, <2>4 DEF Early
  <2>6. \A p, q \in recovering' : p.conn = q.conn => p = q
    BY <1>0, <2>1, <2>2
  <2> QED BY <2>1, <2>5, <2>6
<1>11. CASE UNCHANGED sessionVars
  BY <1>0, <1>11 DEF sessionVars, Early, Engaged
<1> QED
  BY <1>1, <1>2, <1>3, <1>5, <1>6, <1>7, <1>8, <1>9, <1>10, <1>11, Elsewhere
     DEF BrokerNext, InitSide, NodeReply

\* Nobody lets go of the connection of a controller that runs.
LEMMA KeptStep ==
  ASSUME BrokerTypeOK, LockInv, SessionInv, BrokerNext, ~revenant'
  PROVE  Kept'
<1> USE DEF Kept, loopVars, mainVars, nodeVars, userVars
<1>0. Kept
  BY DEF SessionInv
<1>1. CASE Accept
  <2>1. \A s \in Sessions : ctrl'[s] = "running" => ctrl[s] = "running"
    BY <1>1 DEF Accept, Woken
  <2> QED BY <1>0, <1>1, <2>1 DEF Accept
<1>2. CASE StartRecovery
  <2>1. PICK r \in recovering :
          /\ local_conn' = r.conn /\ Assign(r.caller)
          /\ ctrl' = IF Listed = {} /\ r.caller # Nobody
                     THEN [ctrl EXCEPT ![r.caller] = "dead"] ELSE ctrl
          /\ r.conn \in Sessions /\ Engaged(r.conn)
    BY <1>2, RecoveryOf
  <2>2. lock' \in {"taken", "leaked"}
    BY <2>1 DEF Assign
  <2>3. \A s \in Sessions : ctrl'[s] = "running" => ctrl[s] = "running"
    BY <2>1 DEF BrokerTypeOK
  <2>4. \A s \in Sessions : ctrl[s] = "running" => s = r.conn
    <3>1. \A s \in Sessions : Engaged(s) => Active(s)
      BY DEF Engaged, Active, Ended
    <3> QED BY <2>1, <3>1, OneActive DEF SessionInv, Engaged
  <2> QED BY <2>1, <2>2, <2>3, <2>4
<1>3. CASE Loop
  <2>1. /\ lock = "taken" /\ ctrl' = ctrl
        /\ \/ UNCHANGED <<lock, local_conn, hungup, recovering>>
           \/ hungup' = hungup \cup {local_conn} /\ recovering' = recovering
           \/ TurnFails
    BY <1>3, LoopSteps
  <2>2. CASE TurnFails
    <3>1. /\ recovering' = recovering \cup {[conn |-> local_conn, caller |-> Nobody]}
          /\ hungup' = hungup
      BY <2>2 DEF TurnFails
    <3>2. \E r \in recovering' : r.conn = local_conn
      <4>1. [conn |-> local_conn, caller |-> Nobody].conn = local_conn
        OBVIOUS
      <4> QED BY <3>1, <4>1, Zenon
    <3> QED BY <1>0, <2>1, <3>1, <3>2
  <2> QED BY <1>0, <2>1, <2>2
<1>4. ASSUME NEW s \in Sessions, Dial(s) \/ InitWaits(s) \/ SeeEnd(s) \/ Vanish(s)
      PROVE  Kept'
  BY <1>0, <1>4 DEF Dial, InitWaits, SeeEnd, Vanish, BrokerTypeOK
<1>5. ASSUME NEW s \in Sessions, StartInit(s) PROVE Kept'
  <2>1. /\ ctrl' = [ctrl EXCEPT ![s] = IF Listed = {} THEN "dead" ELSE "inside"]
        /\ \A t \in Sessions : ~Engaged(t)
    BY <1>5, InitOf
  <2>2. \A t \in Sessions : ctrl'[t] # "running"
    BY <2>1 DEF Engaged, BrokerTypeOK
  <2> QED BY <2>2
<1>6. ASSUME NEW s \in Sessions, KeyGetsRoom(s) \/ \E k \in Keys : PressKey(s, k)
      PROVE  Kept'
  <2>1. UNCHANGED <<ctrl, lock, local_conn, hungup, recovering>>
    BY <1>6, NobodyWoken DEF KeyGetsRoom, PressKey
  <2> QED BY <1>0, <2>1
<1>7. ASSUME NEW n \in Nodes, DispatchSucceeds(n) PROVE Kept'
  <2>1. /\ lock = "taken" /\ UNCHANGED <<lock, local_conn, hungup, recovering>>
        /\ \/ ctrl' = ctrl
           \/ caller # Nobody /\ ctrl' = [ctrl EXCEPT ![caller] = "running"]
    BY <1>7 DEF DispatchSucceeds, LockInv
  <2>2. caller # Nobody => caller = local_conn
    BY DEF SessionInv, Connected
  <2> QED BY <1>0, <2>1, <2>2 DEF BrokerTypeOK
<1>8. ASSUME NEW n \in Nodes, DispatchFails(n) PROVE Kept'
  <2>1. /\ UNCHANGED <<hungup, ctrl>> /\ lock = "taken"
        /\ recovering' = recovering \cup {[conn |-> local_conn, caller |-> caller]}
    BY <1>8 DEF DispatchFails, LockInv
  <2>2. \E r \in recovering' : r.conn = local_conn
    <3>1. [conn |-> local_conn, caller |-> caller].conn = local_conn
      OBVIOUS
    <3> QED BY <2>1, <3>1, Zenon
  <2> QED BY <1>0, <2>1, <2>2
<1>9. CASE UNCHANGED sessionVars
  BY <1>0, <1>9 DEF sessionVars
<1> QED
  BY <1>1, <1>2, <1>3, <1>4, <1>5, <1>6, <1>7, <1>8, <1>9, Elsewhere
     DEF BrokerNext, InitSide, NodeReply

\* While a goroutine has the lock, no recovery waits for an engaged session; and a
\* session whose stream is open has not left.
LEMMA Engagement ==
  ASSUME BrokerTypeOK, SessionInv, lock = "taken"
  PROVE  /\ local_conn \in Sessions \ hungup
         /\ \A r \in recovering : r.conn \in Sessions /\ ~Engaged(r.conn)
         /\ Engaged(local_conn) \/ ctrl[local_conn] = "dead"
<1>1. local_conn \in Sessions \ hungup /\ ~Early(local_conn)
  BY DEF SessionInv, Connected
<1>2. ctrl[local_conn] # "done"
  BY <1>1 DEF SessionInv, Unstarted
<1>3. Engaged(local_conn) \/ ctrl[local_conn] = "dead"
  BY <1>1, <1>2 DEF Engaged, Early, BrokerTypeOK
<1>4. \A r \in recovering : r.conn \in Sessions /\ ~Engaged(r.conn)
  BY DEF SessionInv, Connected
<1> QED BY <1>1, <1>3, <1>4

\* A turn is counted when it is reported, and a recovery goes on from there.
LEMMA CountedStep ==
  ASSUME BrokerTypeOK, LockInv, SessionInv, BrokerNext, ~revenant'
  PROVE  Counted'
<1> USE DEF Counted, loopVars, mainVars, nodeVars, userVars
<1>0. Counted /\ turn \in Nat /\ \A s \in Sessions : reported[s] \in Nat
  BY BrokerAssumption DEF SessionInv, BrokerTypeOK
<1>1. CASE Accept
  <2>1. \A s \in Sessions : /\ Engaged(s)' <=> Engaged(s)
                            /\ ctrl'[s] \in {"running", "done"} <=> ctrl[s] \in {"running", "done"}
    BY <1>1 DEF Accept, Woken, Engaged
  <2>2. \A r \in recovering : r.conn \in Sessions
    BY DEF SessionInv, Connected
  <2>3. lock' = "free" /\ UNCHANGED <<reported, turn, recovering, hungup, keys>>
    BY <1>1 DEF Accept
  <2> QED BY <1>0, <2>1, <2>2, <2>3 DEF BrokerTypeOK
<1>2. CASE StartRecovery
  <2>1. PICK r \in recovering :
          /\ recovering' = recovering \ {r} /\ local_conn' = r.conn /\ Assign(r.caller)
          /\ ctrl' = IF Listed = {} /\ r.caller # Nobody
                     THEN [ctrl EXCEPT ![r.caller] = "dead"] ELSE ctrl
          /\ r.conn \in Sessions /\ Engaged(r.conn)
    BY <1>2, RecoveryOf
  <2>2. UNCHANGED <<reported, turn, hungup, keys>> /\ (lock' = "taken" => at' = "dispatch")
    BY <1>2, <2>1 DEF StartRecovery, Assign
  <2>3. \A s \in Sessions : ctrl'[s] = "dead" \/ ctrl'[s] = ctrl[s]
    BY <2>1 DEF BrokerTypeOK
  <2>4. \A q \in recovering : q.conn \in Sessions
    BY DEF SessionInv, Connected
  <2>5. hungup \subseteq Sessions
    BY DEF BrokerTypeOK
  <2> QED BY <1>0, <2>1, <2>2, <2>3, <2>4, <2>5 DEF Engaged
<1>3. CASE Loop
  <2>1. /\ lock = "taken" /\ local_conn \in Sessions \ hungup /\ UNCHANGED <<ctrl, keys>>
        /\ \A r \in recovering : r.conn \in Sessions /\ ~Engaged(r.conn)
        /\ Engaged(local_conn) \/ ctrl[local_conn] = "dead"
    BY <1>3, LoopSteps, Engagement
  <2>2. \A s \in Sessions : Engaged(s)' <=> Engaged(s)
    BY <2>1 DEF Engaged
  <2>3. /\ at \in {"poll", "ending"} /\ Engaged(local_conn) => reported[local_conn] = turn + 1
        /\ at \notin {"poll", "ending"} /\ Engaged(local_conn) => reported[local_conn] = turn
    BY <1>0, <2>1
  \* a session that ends has all its turns, or a key was pressed, or it is gone
  <2>4. ASSUME EndSession, UNCHANGED <<recovering, reported>>,
               Engaged(local_conn) => keys[local_conn] > 0 \/ reported[local_conn] = Turns
        PROVE  Counted'
    <3>1. lock' = "free" /\ hungup' = hungup \cup ({local_conn} \ {Nobody})
      BY <2>4 DEF EndSession
    <3>2. ctrl[local_conn] \in {"running", "done"} => Engaged(local_conn)
      BY <2>1 DEF Engaged
    <3>3. keys[local_conn] \in Nat
      BY <2>1, BrokerAssumption DEF BrokerTypeOK
    <3> QED BY <1>0, <2>1, <2>2, <2>4, <3>1, <3>2, <3>3
  <2>5. CASE NextTurn
    BY <1>0, <2>1, <2>2, <2>3, <2>5 DEF NextTurn
  <2>6. CASE AllTurnsDone
    BY <2>3, <2>4, <2>6 DEF AllTurnsDone
  <2>7. CASE TurnFails
    <3>1. /\ recovering' = recovering \cup {[conn |-> local_conn, caller |-> Nobody]}
          /\ lock' = "free" /\ UNCHANGED <<hungup, reported, turn>> /\ at = "calls"
      BY <2>7 DEF TurnFails
    <3>2. \A q \in recovering' : q \in recovering \/ q.conn = local_conn
      BY <3>1
    <3> QED BY <1>0, <2>1, <2>2, <2>3, <3>1, <3>2
  <2>8. CASE TurnSucceeds
    <3>1. CASE Broken /\ EndSession /\ UNCHANGED reported
      <4>1. ctrl[local_conn] = "dead"
        BY <2>1, <3>1 DEF Broken
      <4> QED BY <2>4, <2>8, <3>1, <4>1 DEF TurnSucceeds, Engaged
    <3>2. CASE /\ reported' = [reported EXCEPT ![local_conn] = @ + 1] /\ at' = "poll"
               /\ UNCHANGED <<lock, local_conn, hungup>>
      <4>1. at = "calls" /\ UNCHANGED <<turn, recovering>>
        BY <2>8 DEF TurnSucceeds
      <4>2. \A s \in hungup : reported'[s] = reported[s]
        BY <2>1, <3>2 DEF BrokerTypeOK
      <4>3. reported'[local_conn] = reported[local_conn] + 1
        BY <2>1, <3>2 DEF BrokerTypeOK
      <4> QED BY <1>0, <2>1, <2>2, <2>3, <3>2, <4>1, <4>2, <4>3
    <3> QED BY <2>8, <3>1, <3>2 DEF TurnSucceeds
  <2>9. CASE HandleEvent
    <3>1. UNCHANGED <<recovering, reported>> /\ at = "poll" /\ chan.buf # <<>>
      BY <2>9 DEF HandleEvent
    <3>2. CASE EndSession
      <4>1. Engaged(local_conn) => keys[local_conn] > 0
        BY <2>1, <3>1 DEF SessionInv, Pressed
      <4> QED BY <2>4, <3>1, <3>2, <4>1
    <3>3. CASE UNCHANGED <<lock, local_conn, hungup>> /\ Continue(paused')
      BY <1>0, <2>1, <2>2, <2>3, <3>1, <3>3 DEF Continue
    <3>4. CASE UNCHANGED <<lock, local_conn, hungup, turn>> /\ at' = "ending"
      BY <1>0, <2>1, <2>2, <2>3, <3>1, <3>4
    <3> QED BY <2>9, <3>2, <3>3, <3>4 DEF HandleEvent
  <2>10. CASE NoEvent
    BY <1>0, <2>1, <2>2, <2>3, <2>10 DEF NoEvent, Continue
  <2>11. CASE LeaveKilled
    <3>1. Engaged(local_conn) => keys[local_conn] > 0
      BY <2>1, <2>11 DEF LeaveKilled, SessionInv, Pressed
    <3> QED BY <2>4, <2>11, <3>1 DEF LeaveKilled
  <2> QED BY <1>3, <2>5, <2>6, <2>7, <2>8, <2>9, <2>10, <2>11 DEF Loop
<1>4. ASSUME NEW s \in Sessions, Dial(s) \/ InitWaits(s) \/ SeeEnd(s) \/ Vanish(s)
      PROVE  Counted'
  <2>1. UNCHANGED <<lock, local_conn, turn, at, recovering, reported, hungup, keys>>
    BY <1>4 DEF Dial, InitWaits, SeeEnd, Vanish
  <2>2. \A t \in Sessions :
          /\ Engaged(t)' => Engaged(t)
          /\ ctrl'[t] \in {"running", "done"} => ctrl[t] \in {"running", "done"}
    BY <1>4 DEF Dial, InitWaits, SeeEnd, Vanish, Engaged, BrokerTypeOK
  <2>3. /\ hungup \subseteq Sessions /\ \A q \in recovering : q.conn \in Sessions
        /\ lock = "taken" => local_conn \in Sessions
    BY DEF BrokerTypeOK, SessionInv, Connected
  <2> QED BY <1>0, <2>1, <2>2, <2>3
<1>5. ASSUME NEW s \in Sessions, StartInit(s) PROVE Counted'
  <2>1. /\ local_conn' = s /\ Early(s) /\ turn' = 0
        /\ ctrl' = [ctrl EXCEPT ![s] = IF Listed = {} THEN "dead" ELSE "inside"]
        /\ \A t \in Sessions : ~Engaged(t)
        /\ UNCHANGED <<recovering, reported, hungup, keys>>
        /\ lock' = "taken" => at' = "dispatch"
    BY <1>5, InitOf DEF StartInit, Assign
  <2>2. reported[s] = 0
    BY <2>1 DEF SessionInv, Unstarted
  <2>3. \A r \in recovering : r.conn \in Sessions /\ ~Early(r.conn)
    BY DEF SessionInv, Connected
  <2>4. \A r \in recovering : ~Engaged(r.conn)'
    BY <2>1, <2>3 DEF Engaged, BrokerTypeOK
  <2>5. \A t \in Sessions : ctrl'[t] \in {"running", "done"} => ctrl'[t] = ctrl[t]
    BY <2>1 DEF BrokerTypeOK
  <2>6. hungup \subseteq Sessions
    BY DEF BrokerTypeOK
  <2> QED BY <1>0, <2>1, <2>2, <2>4, <2>5, <2>6
<1>6. ASSUME NEW s \in Sessions, KeyGetsRoom(s) \/ \E k \in Keys : PressKey(s, k)
      PROVE  Counted'
  <2>1. UNCHANGED <<ctrl, lock, local_conn, hungup, recovering, reported, at, turn>>
    BY <1>6, NobodyWoken DEF KeyGetsRoom, PressKey
  <2>2. \A t \in Sessions : keys'[t] = 0 => keys[t] = 0
    BY <1>6, BrokerAssumption DEF KeyGetsRoom, PressKey, BrokerTypeOK
  <2>3. hungup \subseteq Sessions
    BY DEF BrokerTypeOK
  <2> QED BY <1>0, <2>1, <2>2, <2>3 DEF Engaged
<1>7. ASSUME NEW n \in Nodes, DispatchSucceeds(n) PROVE Counted'
  <2>1. /\ lock = "taken" /\ at = "dispatch" /\ at' \in {"dispatch", "loop"}
        /\ UNCHANGED <<lock, local_conn, hungup, recovering, reported, turn, keys>>
        /\ \/ ctrl' = ctrl
           \/ caller # Nobody /\ ctrl' = [ctrl EXCEPT ![caller] = "running"]
    BY <1>7 DEF DispatchSucceeds, LockInv
  <2>2. /\ local_conn \in Sessions \ hungup
        /\ caller # Nobody => caller = local_conn /\ ctrl[caller] = "inside"
        /\ \A q \in recovering : q.conn \in Sessions
    BY <2>1 DEF SessionInv, Connected
  <2>3. \A t \in Sessions : (Engaged(t)' <=> Engaged(t)) /\ (t # local_conn => ctrl'[t] = ctrl[t])
    BY <2>1, <2>2 DEF Engaged, BrokerTypeOK
  <2>4. hungup \subseteq Sessions
    BY DEF BrokerTypeOK
  <2> QED BY <1>0, <2>1, <2>2, <2>3, <2>4
<1>8. ASSUME NEW n \in Nodes, DispatchFails(n) PROVE Counted'
  <2>1. /\ lock = "taken" /\ lock' = "free" /\ at = "dispatch"
        /\ UNCHANGED <<hungup, ctrl, turn, reported, keys>>
        /\ recovering' = recovering \cup {[conn |-> local_conn, caller |-> caller]}
    BY <1>8 DEF DispatchFails, LockInv
  <2>2. \A q \in recovering' : q \in recovering \/ q.conn = local_conn
    BY <2>1
  <2> QED BY <1>0, <2>1, <2>2 DEF Engaged
<1>9. CASE UNCHANGED sessionVars
  BY <1>0, <1>9 DEF sessionVars, Engaged
<1> QED
  BY <1>1, <1>2, <1>3, <1>4, <1>5, <1>6, <1>7, <1>8, <1>9, Elsewhere
     DEF BrokerNext, InitSide, NodeReply

\* Events come from the keys of the session that the loop serves.
LEMMA PressedStep ==
  ASSUME BrokerTypeOK, LockInv, SessionInv, BrokerNext, ~revenant'
  PROVE  Pressed'
<1> USE DEF Pressed, loopVars, mainVars, nodeVars, userVars
<1>0. Pressed /\ (lock = "taken" => local_conn \in Sessions)
  BY DEF SessionInv, Connected
<1>1. CASE Accept
  BY <1>0, <1>1 DEF Accept, LockInv
<1>2. ASSUME NEW c \in Sessions \cup {Nobody}, Assign(c), at = "idle" PROVE Pressed'
  <2>1. chan' = [open |-> TRUE, buf |-> <<>>] /\ at' \in {"idle", "dispatch"}
    BY <1>2 DEF Assign, NewChan
  <2>2. \A t \in Sessions : blocked'[t] \notin Events
    BY <1>2 DEF Assign, NewChan, Events
  <2> QED BY <2>1, <2>2
<1>3. CASE Loop
  <2>1. /\ lock = "taken" /\ local_conn \in Sessions /\ UNCHANGED <<ctrl, keys, blocked>>
        /\ \/ UNCHANGED <<lock, local_conn>> /\ at' \notin {"idle", "dispatch"}
           \/ EndSession
           \/ TurnFails
    BY <1>3, LoopSteps
  <2>2. CASE EndSession \/ TurnFails
    <3>1. lock' = "free" /\ chan' = [open |-> FALSE, buf |-> chan.buf]
      BY <2>2 DEF EndSession, TurnFails, CloseChan
    <3> QED BY <3>1
  <2>3. CASE UNCHANGED <<lock, local_conn>> /\ at' \notin {"idle", "dispatch"}
    <3>1. \/ chan' = chan /\ at # "ending" /\ at' # "ending"
          \/ chan.buf # <<>> /\ chan' = [open |-> chan.open, buf |-> <<>>]
          \/ lock' = "free"
      BY <1>3, <2>1 DEF Loop, NextTurn, AllTurnsDone, TurnFails, TurnSucceeds, HandleEvent,
         NoEvent, LeaveKilled, Continue, EndSession
    <3>2. CASE chan' = chan /\ at # "ending" /\ at' # "ending"
      BY <1>0, <2>1, <2>3, <3>2 DEF Engaged
    <3>3. CASE chan.buf # <<>>
      BY <1>0, <2>1, <2>3, <3>3 DEF Engaged
    <3> QED BY <2>1, <2>3, <3>1, <3>2, <3>3
  <2> QED BY <2>1, <2>2, <2>3
<1>4. ASSUME NEW s \in Sessions, Dial(s) \/ InitWaits(s) \/ SeeEnd(s) \/ Vanish(s)
      PROVE  Pressed'
  <2>1. UNCHANGED <<lock, local_conn, at, chan, blocked, keys>>
    BY <1>4 DEF Dial, InitWaits, SeeEnd, Vanish
  <2>2. \A t \in Sessions : Engaged(t)' => Engaged(t)
    BY <1>4 DEF Dial, InitWaits, SeeEnd, Vanish, Engaged, BrokerTypeOK
  <2> QED BY <1>0, <2>1, <2>2
<1>5. ASSUME NEW s \in Sessions, StartInit(s) PROVE Pressed'
  BY <1>2, <1>5 DEF StartInit, LockInv
<1>6. CASE StartRecovery
  <2>1. PICK r \in recovering : Assign(r.caller)
    BY <1>6 DEF StartRecovery
  <2>2. r.caller \in Sessions \cup {Nobody} /\ at = "idle"
    BY <1>6 DEF BrokerTypeOK, StartRecovery, LockInv
  <2> QED BY <1>2, <2>1, <2>2
<1>7. ASSUME NEW s \in Sessions, NEW k \in Keys, PressKey(s, k) PROVE Pressed'
  <2>1. UNCHANGED <<ctrl, lock, local_conn, at>>
    BY <1>7, NobodyWoken DEF PressKey
  <2>2. ctrl[s] = "running" /\ keys' = [keys EXCEPT ![s] = @ + 1]
    BY <1>7 DEF PressKey
  <2>3. lock = "taken" /\ Engaged(local_conn) => keys'[local_conn] > 0
    <3>1. SUFFICES ASSUME lock = "taken" PROVE keys'[local_conn] > 0
      OBVIOUS
    <3>2. s = local_conn
      BY <2>2, <3>1 DEF SessionInv, Connected, Engaged
    <3>3. keys[s] \in Nat
      BY BrokerAssumption DEF BrokerTypeOK
    <3> QED BY <2>2, <3>2, <3>3 DEF BrokerTypeOK
  <2>4. \A t \in Sessions :
          blocked'[t] \in Events /\ chan'.open /\ at' \in {"idle", "dispatch"} => chan'.buf # <<>>
    <3>1. CASE UNCHANGED <<chan, blocked>>
      BY <1>0, <2>1, <3>1
    <3>2. CASE chan' = [open |-> chan.open, buf |-> <<Event(s, k)>>]
      BY <3>2
    <3>3. CASE chan.buf # <<>> /\ chan' = chan
      BY <3>3
    <3> QED BY <1>7, <3>1, <3>2, <3>3 DEF PressKey
  <2> QED BY <2>1, <2>3, <2>4 DEF Engaged
<1>8. ASSUME NEW s \in Sessions, KeyGetsRoom(s) PROVE Pressed'
  <2>1. /\ UNCHANGED <<ctrl, lock, local_conn, at, keys>> /\ blocked[s] \in Events
        /\ chan' = [open |-> chan.open, buf |-> <<blocked[s]>>]
    BY <1>8, NobodyWoken DEF KeyGetsRoom
  <2> QED BY <1>0, <2>1 DEF Engaged
<1>9. ASSUME NEW n \in Nodes, DispatchSucceeds(n) \/ DispatchFails(n) PROVE Pressed'
  <2>1. /\ lock = "taken" /\ UNCHANGED <<chan, blocked, keys>> /\ at = "dispatch"
        /\ \/ lock' = "free"
           \/ UNCHANGED <<lock, local_conn>> /\ at' # "ending"
    BY <1>9 DEF DispatchSucceeds, DispatchFails, LockInv
  <2>2. \A t \in Sessions : Engaged(t)' => Engaged(t)
    <3>1. caller # Nobody => caller \in Sessions /\ ctrl[caller] = "inside"
      BY DEF SessionInv, Connected, BrokerTypeOK
    <3> QED BY <1>9, <3>1 DEF DispatchSucceeds, DispatchFails, Engaged, BrokerTypeOK
  <2> QED BY <1>0, <2>1, <2>2
<1>10. CASE UNCHANGED sessionVars
  BY <1>0, <1>10 DEF sessionVars, Engaged
<1> QED
  BY <1>1, <1>3, <1>4, <1>5, <1>6, <1>7, <1>8, <1>9, <1>10, Elsewhere
     DEF BrokerNext, InitSide, NodeReply

------------------------------------------------------------------------------
(* The invariant of the broker, and the properties that follow from it *)

IInv == BrokerTypeOK /\ LockInv /\ KillInv /\ (revenant \/ SessionInv)

\* Nothing is connected, counted or pressed before the first controller dials.
LEMMA InvInit == BrokerInit => IInv
<1> SUFFICES ASSUME BrokerInit PROVE IInv
  OBVIOUS
<1> USE DEF BrokerInit
<1>1. BrokerTypeOK
  BY TypeInit
<1>2. LockInv /\ KillInv
  BY DEF LockInv, KillInv
<1>3. SessionInv
  BY DEF SessionInv, InOrder, Ended, Unstarted, Early, Arriving, Connected, Engaged, Kept, Counted,
     Pressed, Events
<1> QED BY <1>1, <1>2, <1>3 DEF IInv

\* A recovery that outlived its controller is remembered.
LEMMA RevenantStays == [BrokerNext]_vars /\ revenant => revenant'
<1> SUFFICES ASSUME [BrokerNext]_vars, revenant PROVE revenant'
  OBVIOUS
<1>1. CASE StartRecovery
  BY <1>1 DEF StartRecovery
<1>2. CASE Loop
  BY <1>2 DEF Loop, NextTurn, AllTurnsDone, TurnFails, TurnSucceeds, HandleEvent, NoEvent, LeaveKilled
<1>3. CASE Shutdown
  BY <1>3 DEF Shutdown, MainPasses, ShutdownBegins, MainReturns, StopNode
<1>4. ASSUME NEW s \in Sessions,
             \/ Dial(s) \/ InitSide(s) \/ SeeEnd(s) \/ Vanish(s)
             \/ KeyGetsRoom(s) \/ \E k \in Keys : PressKey(s, k)
      PROVE  revenant'
  BY <1>4 DEF Dial, InitSide, InitWaits, StartInit, SeeEnd, Vanish, KeyGetsRoom, PressKey
<1>5. ASSUME NEW n \in Nodes, NodeReply(n) \/ LateReply(n) \/ Join(n) \/ Lose(n) \/ Unlist(n)
      PROVE  revenant'
  BY <1>5 DEF NodeReply, DispatchSucceeds, DispatchFails, CallReturns, LateReply, Join, Lose, Unlist
<1>6. CASE Accept \/ UNCHANGED vars
  BY <1>6 DEF Accept, vars
<1> QED BY <1>1, <1>2, <1>3, <1>4, <1>5, <1>6 DEF BrokerNext

\* The invariant is inductive.
LEMMA InvStep == IInv /\ [BrokerNext]_vars => IInv'
<1> SUFFICES ASSUME IInv, [BrokerNext]_vars PROVE IInv'
  OBVIOUS
<1>1. BrokerTypeOK' /\ LockInv' /\ KillInv'
  BY TypeStep, LockStep, KillStep DEF IInv
<1>2. ASSUME ~revenant' PROVE SessionInv'
  <2>1. SessionInv
    BY <1>2, RevenantStays DEF IInv
  <2>2. CASE BrokerNext
    BY <1>2, <2>1, <2>2, OrderStep, UnstartedStep, ArrivingStep, ConnectedStep, KeptStep, CountedStep,
       PressedStep DEF IInv, SessionInv
  <2>3. CASE UNCHANGED vars
    BY <2>1, <2>3 DEF vars, loopVars, nodeVars, mainVars, userVars, SessionInv, InOrder, Ended,
       Unstarted, Early, Arriving, Connected, Engaged, Kept, Counted, Pressed
  <2> QED BY <2>2, <2>3
<1> QED BY <1>1, <1>2 DEF IInv

\* Every state of the broker satisfies it.
LEMMA Invariance == BrokerSpec => []IInv
BY InvInit, InvStep, PTL DEF BrokerSpec

\* What a session was told is what the loop has evaluated, for every number of
\* nodes, sessions, turns, keys and losses: no recovery repeats or skips a turn
\* (broker.go:203-277, 283-292).
THEOREM BrokerReportsOnce == BrokerSpec => []TurnsReportedOnce
<1>1. IInv => TurnsReportedOnce
  <2> SUFFICES ASSUME IInv, ~revenant, NEW s \in Sessions,
                      at \in {"loop", "calls", "poll"}, local_conn = s, ctrl[s] = "running"
               PROVE  reported[s] = turn + (IF at = "poll" THEN 1 ELSE 0)
    BY DEF TurnsReportedOnce, StateRecovered, IInv
  <2>1. lock = "taken"
    BY DEF IInv, LockInv
  <2> QED
    BY <2>1 DEF IInv, SessionInv, Counted, Engaged
<1> QED BY <1>1, Invariance, PTL

\* A controller that runs has its loop, its recovery or the end of its stream
\* (broker.go:134, 186-192, 241, 292, 336).
THEOREM BrokerForgetsNobody == BrokerSpec => []NobodyForgotten
<1>1. IInv => NobodyForgotten
  BY DEF IInv, SessionInv, Kept, NobodyForgotten
<1> QED BY <1>1, Invariance, PTL

\* A stream that ended by itself carried every turn.
THEOREM BrokerRunsFully == BrokerSpec => []FullRuns
<1>1. IInv => FullRuns
  <2> SUFFICES ASSUME IInv, ~revenant, NEW s \in Sessions, ctrl[s] = "done", keys[s] = 0
               PROVE  reported[s] = Turns
    BY DEF FullRuns
  <2>1. s \in hungup
    BY DEF IInv, SessionInv, Unstarted
  <2> QED
    BY <2>1 DEF IInv, SessionInv, Counted
<1> QED BY <1>1, Invariance, PTL

\* The nodes are stopped after the stream of the controller that pressed k was
\* closed (broker.go:54-56).
THEOREM BrokerStopsAfterGoodbye == BrokerSpec => []StopsAfterGoodbye
<1>1. IInv => StopsAfterGoodbye
  BY DEF IInv, KillInv, StopsAfterGoodbye
<1> QED BY <1>1, Invariance, PTL
==============================================================================
