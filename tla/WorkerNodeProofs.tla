--------------------------- MODULE WorkerNodeProofs ---------------------------
(***************************************************************************)
(* A worker node whose last Init came while it was at rest is ready when   *)
(* Init returns, merges the results of its own task, leaves at most one    *)
(* worker behind and never stands still in a call, for every number of     *)
(* tasks, blocks and turns; and only an Init that overlaps a call can find *)
(* it not at rest.                                                         *)
(*                                                                         *)
(* These properties speak of single moments of the two calls.  The first   *)
(* half of the invariant (Types to Fresh) holds however calls overlap.     *)
(* The second half is true of a node that is not tangled: Stand says where *)
(* every logic worker may be, Flags whose flag is up, Waiting who receives.*)
(* AtRest is what the second half has to be again at the next Init.        *)
(***************************************************************************)
EXTENDS WorkerNode, FiniteSetTheorems, FunctionTheorems, SequenceTheorems, TLAPS

Begun(t)      == init[t] # "unsent"
Superseded(t) == \E u \in Task : u > t /\ Begun(u)

Leaving == {"none", "parking", "asleep", "woken", "checking", "exited"}
Holding == {"greeting", "reporting", "parking"}
Turning == {"woken", "checking", "working", "worked", "reporting"}
Started == {"spawn", "await", "receiving", "returned"}

Types ==
  /\ alive \in BOOLEAN /\ tangled \in BOOLEAN
  /\ current \in Task \cup {NoTask} /\ loaded \in Task \cup {NoTask}
  /\ running \in [Task -> BOOLEAN]
  /\ logic \in [Logic -> LogicState] /\ flagOf \in [Logic -> Task \cup {NoTask}]
  /\ receivers \in Seq({"Init", "Next"} \X Task)
  /\ init \in [Task -> InitPlace] /\ next \in [Task -> NextPlace]
  /\ ready \in [Task -> Nat] /\ turns \in [Task -> Nat]
  /\ taken \in [Task -> Nat] /\ slots \in [Task -> Nat]
  /\ got \in [Task -> SUBSET Logic]
  /\ givenUp \subseteq Task

\* How far each call of Init and Next is.
Calls == \A t \in Task :
  /\ init[t] # "returned" => next[t] = "idle"
  /\ init[t] = "returned" => ready[t] = Size[t]
  /\ init[t] \in {"spawn", "await", "receiving"} => ready[t] < Size[t]
  /\ init[t] \notin Started => ready[t] = 0
  /\ init[t] \notin {"unsent", "cancel", "wake", "load"} => loaded # NoTask
  /\ init[t] \in Started \cup {"raise"} => current # NoTask
  /\ turns[t] <= Turns /\ (next[t] # "idle" => turns[t] < Turns)
  /\ next[t] \in {"idle", "broadcast"} => got[t] = {} /\ taken[t] = 0

\* Inits are sent in order, and a flag belongs to an Init that was sent.
Order ==
  /\ \A s, t \in Task : s < t /\ Begun(t) => Begun(s)
  /\ current # NoTask => Begun(current)
  /\ \A w \in Logic : flagOf[w] # NoTask => Begun(flagOf[w])

Waits(call) ==
  IF call[1] = "Init" THEN init[call[2]] = "receiving" ELSE next[call[2]] = "receiving"

\* A call stands in the queue of receivers once, while it waits.
Queue ==
  /\ \A i \in 1..Len(receivers) : Waits(receivers[i])
  /\ \A i, j \in 1..Len(receivers) : receivers[i] = receivers[j] => i = j

Mutex ==
  /\ holder \in Logic \cup {Nobody}
  /\ \A w \in Logic : logic[w] \in Holding <=> holder = w

\* Workers that were not started yet.
Fresh == \A w \in Logic :
  /\ flagOf[w] = NoTask <=> logic[w] = "none"
  /\ \/ w[2] <= ready[w[1]]
     \/ w[2] = ready[w[1]] + 1 /\ init[w[1]] \in {"await", "receiving"}
     \/ logic[w] = "none"

\* One call at a time: the calls of all tasks but the latest have returned.
Alone == \A s, t \in Task : s < t /\ Begun(t) => init[s] = "returned" /\ next[s] = "idle"

\* The latest task has a flag of its own; the flags of those before are down after
\* Cancel, and until then up only for workers that wait.
Flags ==
  /\ \A t \in Task : Latest(t) =>
       /\ init[t] \in Started \cup {"flag", "raise"} => loaded = t
       /\ init[t] \in Started \cup {"raise"} => current = t
       /\ init[t] \in Started => running[t]
       /\ \A w \in Logic : (w[1] = t => flagOf[w] \in {t, NoTask}) /\ (w[1] < t => flagOf[w] # t)
  /\ \A w \in Logic :
       Superseded(w[1]) /\ logic[w] \in Leaving \ {"none", "exited"} /\ running[flagOf[w]] =>
         flagOf[w] = current /\ logic[w] \in Parked /\ \E t \in Task : init[t] = "cancel"

\* Where a worker may stand while its task is initialised ...
InitStanding(w) ==
  LET t == w[1] IN
  IF w[2] <= ready[t] THEN Parked
  ELSE IF w[2] = ready[t] + 1 /\ init[t] \in {"await", "receiving"} THEN {"created", "greeting"}
  ELSE {"none"}

\* ... and afterwards.
Standing(w) ==
  LET t == w[1] IN
  IF Superseded(t) THEN Leaving
  ELSE IF init[t] # "returned" THEN InitStanding(w)
  ELSE IF next[t] \in {"counting", "receiving"} /\ w \notin got[t] THEN Turning
  ELSE Parked

Stand == \A w \in Logic : logic[w] \in Standing(w)

Waiting == \A t \in Task :
  /\ init[t] = "receiving" => receivers = <<<<"Init", t>>>>
  /\ next[t] = "receiving" => receivers = <<<<"Next", t>>>>
  /\ Latest(t) /\ init[t] # "receiving" /\ next[t] # "receiving" => receivers = <<>>

\* The broadcast of Init can miss only the worker that holds the mutex.
OneLeft == \A t \in Task : Latest(t) /\ init[t] \notin {"cancel", "wake"} =>
  \A v, w \in Logic : v[1] < t /\ w[1] < t /\ logic[v] \in Parked /\ logic[w] \in Parked
                      => v = w

\* A running Next has one result of each worker that has reported, and waits only
\* when one is missing.
Results == \A t \in Task :
  /\ got[t] \subseteq Team(t) /\ taken[t] = Cardinality(got[t])
  /\ next[t] \notin {"idle", "broadcast"} => slots[t] = Size[t]
  /\ next[t] = "receiving" => got[t] # Team(t)
  /\ next[t] = "merge" => got[t] = Team(t)

Always  == Types /\ Calls /\ Order /\ Queue /\ Mutex /\ Fresh
Orderly == Alone /\ Flags /\ Stand /\ Waiting /\ OneLeft /\ Results
NodeInv == Always /\ (~tangled => Orderly)

\* Some goroutine of the node can take a step: the guards of NodeSteps.
SomeoneMoves ==
  \/ \E t \in Task : \/ init[t] \in {"cancel", "wake", "load", "flag", "raise", "spawn", "await"}
                     \/ next[t] \in {"counting", "merge"}
                     \/ next[t] = "broadcast" /\ holder = Nobody
  \/ \E w \in Logic : \/ logic[w] \in {"parking", "checking", "working"}
                      \/ logic[w] \in {"created", "worked", "woken"} /\ holder = Nobody
                      \/ logic[w] \in Sending /\ receivers # <<>>

\* While a call of Init or Next runs, a node that is not tangled goes on.
BusyMoves == ~tangled /\ (\E t \in Task : Busy(t)) => SomeoneMoves

------------------------------------------------------------------------------
\* The workers are the pairs of a task and the number of one of its blocks.
LEMMA Workers ==
  /\ \A w \in Logic : w[1] \in Task /\ w[2] \in 1..Size[w[1]] /\ w = <<w[1], w[2]>>
  /\ \A t \in Task : \A k \in 1..Size[t] :
       <<t, k>> \in Logic /\ <<t, k>>[1] = t /\ <<t, k>>[2] = k
  /\ Nobody \notin Logic
<1>1. \A w \in Logic : w[1] \in Task /\ w[2] \in 1..Size[w[1]] /\ w = <<w[1], w[2]>>
  BY NodeAssumption DEF Logic, Task
<1>2. ASSUME NEW t \in Task, NEW k \in 1..Size[t]
      PROVE  <<t, k>> \in Logic /\ <<t, k>>[1] = t /\ <<t, k>>[2] = k
  BY <1>2, NodeAssumption DEF Logic
<1>3. Nobody \notin Logic
  BY NodeAssumption DEF Logic, Task, Nobody
<1> QED BY <1>1, <1>2, <1>3

\* A task has as many workers as its partition has blocks.
LEMMA TeamSize ==
  ASSUME NEW t \in Task
  PROVE  IsFiniteSet(Team(t)) /\ Cardinality(Team(t)) = Size[t]
<1> DEFINE f == [k \in 1..Size[t] |-> <<t, k>>]
<1>1. Size[t] \in Nat
  BY NodeAssumption DEF Task
<1>2. IsFiniteSet(1..Size[t]) /\ Cardinality(1..Size[t]) = Size[t]
  BY <1>1, FS_Interval, SMTT(30)
<1>3. f \in Bijection(1..Size[t], Team(t))
  <2>1. \A k \in 1..Size[t] : f[k] \in Team(t)
    BY Workers DEF Team
  <2>2. \A j, k \in 1..Size[t] : f[j] = f[k] => j = k
    OBVIOUS
  <2>3. \A w \in Team(t) : \E k \in 1..Size[t] : f[k] = w
    BY Workers DEF Team
  <2> QED BY <2>1, <2>2, <2>3, Fun_IsBij
<1>4. ExistsBijection(1..Size[t], Team(t))
  BY <1>3 DEF ExistsBijection
<1> QED BY <1>2, <1>4, FS_Bijection

\* Tasks are numbered.
LEMMA Numbers ==
  /\ \A t \in Task : t \in Nat /\ Size[t] \in Nat /\ Size[t] > 0 /\ t # NoTask
  /\ \A s, t \in Task : s < t \/ s = t \/ s > t
  /\ Turns \in Nat
BY NodeAssumption DEF Task, NoTask

\* A counter of the calls is set.
LEMMA NumberSet ==
  /\ \A f \in [Task -> Nat], t \in Task, n \in Nat : [f EXCEPT ![t] = n] \in [Task -> Nat]
  /\ 0 \in Nat
OBVIOUS

\* One more of fewer than all is all, or still fewer.
LEMMA OneMore == ASSUME NEW n \in Nat, NEW m \in Nat, n < m PROVE n + 1 # m => n + 1 < m
OBVIOUS

\* A step of a call that was begun begins none.
LEMMA BegunKept ==
  ASSUME \A u \in Task : init'[u] = "unsent" <=> init[u] = "unsent"
  PROVE  \A t \in Task : /\ Begun(t)' <=> Begun(t)
                         /\ Superseded(t)' <=> Superseded(t)
                         /\ Latest(t)' <=> Latest(t)
BY DEF Begun, Superseded, Latest

\* Before the first Init nothing runs.
LEMMA NodeInitInv == NodeInit => NodeInv
<1> SUFFICES ASSUME NodeInit PROVE NodeInv
  OBVIOUS
<1> USE DEF NodeInit
<1>1. \A t \in Task : ~Begun(t) /\ ~Superseded(t) /\ ~Latest(t)
  BY DEF Begun, Superseded, Latest
<1>2. Types
  <2>1. <<>> \in Seq({"Init", "Next"} \X Task)
    OBVIOUS
  <2> QED BY <2>1 DEF Types, LogicState, InitPlace, NextPlace
<1>3. Calls /\ Order
  BY <1>1, Numbers DEF Calls, Order, Started
<1>4. Queue
  BY DEF Queue
<1>5. Mutex /\ Fresh
  BY Workers DEF Mutex, Fresh, Holding
<1>6. Alone /\ Flags /\ OneLeft /\ Waiting
  BY <1>1 DEF Alone, Flags, OneLeft, Waiting
<1>7. Stand
  BY <1>1, Workers DEF Stand, Standing, InitStanding
<1>8. Results
  BY FS_EmptySet DEF Results
<1> QED BY <1>2, <1>3, <1>4, <1>5, <1>6, <1>7, <1>8 DEF NodeInv, Always, Orderly

------------------------------------------------------------------------------
(* The half of the invariant that holds however calls overlap *)

\* Every step keeps the types.
LEMMA TypesStep ==
  ASSUME Always, [NodeNext]_nodeVars
  PROVE  Types'
<1> USE DEF Always, Types, objectVars, logicVars, initVars, nextVars, brokerVars
<1>1. ASSUME NEW t \in Task, SendInit(t) \/ SendNext(t) \/ GiveUp(t) PROVE Types'
  BY <1>1 DEF SendInit, SendNext, GiveUp, AtRest, InitPlace, NextPlace
<1>2. ASSUME NEW t \in Task, Cancel(t) \/ Load(t) \/ NewFlag(t) \/ Raise(t) PROVE Types'
  BY <1>2 DEF Cancel, Load, NewFlag, Raise, InitTo, InitPlace
<1>3. ASSUME NEW t \in Task, Wake(t) \/ Spawn(t) PROVE Types'
  <2>1. Woken \in [Logic -> LogicState]
    BY DEF Woken, LogicState
  <2>2. CASE Wake(t)
    BY <2>1, <2>2 DEF Wake, InitTo, InitPlace
  <2>3. CASE Spawn(t)
    BY <2>3 DEF Spawn, InitTo, InitPlace, LogicState
  <2> QED BY <1>3, <2>2, <2>3
<1>4. ASSUME NEW t \in Task, Await(t) PROVE Types'
  <2>1. <<"Init", t>> \in {"Init", "Next"} \X Task
    OBVIOUS
  <2>2. Append(receivers, <<"Init", t>>) \in Seq({"Init", "Next"} \X Task)
    BY <2>1
  <2> QED BY <1>4, <2>2 DEF Await, InitTo, InitPlace
<1>5. ASSUME NEW t \in Task, Broadcast(t) PROVE Types'
  <2>1. Woken \in [Logic -> LogicState]
    BY DEF Woken, LogicState
  <2>2. Size[loaded] \in Nat
    BY <1>5, Numbers DEF Broadcast, Calls
  <2> QED BY <1>5, <2>1, <2>2 DEF Broadcast, NextTo, NextPlace
<1>6. ASSUME NEW t \in Task, Count(t) PROVE Types'
  <2>1. <<"Next", t>> \in {"Init", "Next"} \X Task
    OBVIOUS
  <2>2. Append(receivers, <<"Next", t>>) \in Seq({"Init", "Next"} \X Task)
    BY <2>1
  <2> QED BY <1>6, <2>2 DEF Count, NextTo, NextPlace
<1>7. ASSUME NEW t \in Task, Merge(t) PROVE Types'
  <2>1. (Size[loaded] <= slots[t]) \in BOOLEAN
    BY <1>7, Numbers DEF Merge, Calls
  <2>2. alive' \in BOOLEAN
    BY <1>7, <2>1 DEF Merge
  <2>3. next' \in [Task -> NextPlace] /\ got' \in [Task -> SUBSET Logic]
    BY <1>7 DEF Merge, NextTo, NextPlace
  <2>4. taken' \in [Task -> Nat] /\ slots' \in [Task -> Nat] /\ turns' \in [Task -> Nat]
    <3>1. /\ taken' = [taken EXCEPT ![t] = 0] /\ slots' = [slots EXCEPT ![t] = 0]
          /\ turns' = [turns EXCEPT ![t] = turns[t] + 1]
      BY <1>7 DEF Merge
    <3>2. taken' \in [Task -> Nat] /\ slots' \in [Task -> Nat]
      BY <3>1, NumberSet, Zenon
    <3>3. turns[t] + 1 \in Nat
      OBVIOUS
    <3> QED BY <3>1, <3>2, <3>3, NumberSet, Zenon
  <2>5. UNCHANGED <<current, loaded, running, logicVars, receivers, initVars, brokerVars>>
    BY <1>7 DEF Merge
  <2> QED BY <2>2, <2>3, <2>4, <2>5
<1>8. ASSUME NEW w \in Logic,
             Acquire(w) \/ Park(w) \/ Resume(w) \/ CheckRunning(w) \/ Evaluate(w)
      PROVE  Types'
  BY <1>8 DEF Acquire, Park, Resume, CheckRunning, Evaluate, LogicTo, LogicState
<1>9. ASSUME NEW w \in Logic, Send(w) PROVE Types'
  <2> DEFINE call == Head(receivers)
  <2>0. receivers \in Seq({"Init", "Next"} \X Task) /\ receivers # <<>>
    BY <1>9 DEF Send
  <2>1. call \in {"Init", "Next"} \X Task /\ Tail(receivers) \in Seq({"Init", "Next"} \X Task)
    BY <2>0, HeadTailProperties, Zenon
  <2>2. call[2] \in Task
    BY <2>1
  <2> HIDE DEF call
  <2>3. TakenByInit(call[2]) \/ TakenByNext(call[2], w)
    BY <1>9 DEF Send, call
  <2>4. logic' \in [Logic -> LogicState] /\ receivers' \in Seq({"Init", "Next"} \X Task)
        /\ UNCHANGED <<current, loaded, running, flagOf, brokerVars>>
    BY <1>9, <2>1 DEF Send, LogicTo, LogicState
  <2>5. CASE TakenByInit(call[2])
    <3>1. ready' \in [Task -> Nat] /\ UNCHANGED <<alive, nextVars>>
      BY <2>2, <2>5 DEF TakenByInit
    <3>2. init' \in [Task -> InitPlace]
      BY <2>2, <2>5 DEF TakenByInit, InitTo, InitPlace
    <3> QED BY <2>4, <3>1, <3>2
  <2>6. CASE TakenByNext(call[2], w)
    <3>1. (taken[call[2]] < slots[call[2]]) \in BOOLEAN
      BY <2>2
    <3>2. alive' \in BOOLEAN
      BY <2>6, <3>1 DEF TakenByNext
    <3>3. next' \in [Task -> NextPlace] /\ got' \in [Task -> SUBSET Logic]
      BY <2>2, <2>6 DEF TakenByNext, NextTo, NextPlace
    <3>4. taken' \in [Task -> Nat] /\ UNCHANGED <<initVars, slots, turns>>
      BY <2>2, <2>6 DEF TakenByNext
    <3> QED BY <2>4, <3>2, <3>3, <3>4
  <2> QED BY <2>3, <2>5, <2>6
<1>10. Kill \/ UNCHANGED nodeVars => Types'
  BY DEF Kill, nodeVars
<1> QED BY <1>1, <1>2, <1>3, <1>4, <1>5, <1>6, <1>7, <1>8, <1>9, <1>10
     DEF NodeNext, BrokerCalls, NodeSteps, InitSteps, NextSteps, LogicSteps

\* A result is taken by a call that waits: the first in the queue.
LEMMA SendTaken ==
  ASSUME Always, NEW w \in Logic, Send(w)
  PROVE  \E t \in Task :
           \/ Head(receivers) = <<"Init", t>> /\ init[t] = "receiving" /\ TakenByInit(t)
           \/ Head(receivers) = <<"Next", t>> /\ next[t] = "receiving" /\ TakenByNext(t, w)
<1> DEFINE call == Head(receivers)
<1>1. call \in {"Init", "Next"} \X Task /\ 1 \in 1..Len(receivers) /\ call = receivers[1]
  <2>1. receivers \in Seq({"Init", "Next"} \X Task) /\ receivers # <<>>
    BY DEF Send, Always, Types
  <2>2. Len(receivers) \in Nat \ {0}
    BY <2>1, EmptySeq
  <2> QED BY <2>1, <2>2, HeadTailProperties
<1>2. call = <<call[1], call[2]>> /\ call[2] \in Task /\ call[1] \in {"Init", "Next"}
  BY <1>1
<1>3. Waits(call)
  BY <1>1 DEF Always, Queue
<1>4. IF call[1] = "Init" THEN TakenByInit(call[2]) ELSE TakenByNext(call[2], w)
  BY DEF Send
<1> HIDE DEF call
<1>5. CASE call[1] = "Init"
  BY <1>2, <1>3, <1>4, <1>5 DEF Waits, call
<1>6. CASE call[1] = "Next"
  BY <1>2, <1>3, <1>4, <1>6 DEF Waits, call
<1> QED BY <1>2, <1>5, <1>6

\* A call moves from place to place, the others stay.
LEMMA Moved ==
  ASSUME Always, NEW t \in Task
  PROVE  /\ \A place : InitTo(t, place) =>
              init'[t] = place /\ \A s \in Task : s # t => init'[s] = init[s]
         /\ \A place : NextTo(t, place) =>
              next'[t] = place /\ \A s \in Task : s # t => next'[s] = next[s]
BY DEF Always, Types, InitTo, NextTo

\* An Init that goes from place to place before it receives.
LEMMA CallsKept ==
  ASSUME Always, NEW t \in Task, NEW place \in InitPlace \ {"unsent", "returned"},
         init[t] \notin {"unsent", "returned"}, InitTo(t, place),
         UNCHANGED <<ready, nextVars>>,
         init[t] \in Started <=> place \in Started \ {"spawn"},
         loaded # NoTask \/ place \notin {"cancel", "wake", "load"} => loaded' # NoTask,
         current # NoTask \/ place \in Started \cup {"raise"} => current' # NoTask
  PROVE  Calls'
<1>1. init'[t] = place /\ \A s \in Task : s # t => init'[s] = init[s]
  BY Moved
<1>2. UNCHANGED <<ready, next, got, taken, turns>>
  BY DEF nextVars
<1> SUFFICES ASSUME NEW s \in Task
    PROVE  /\ init'[s] # "returned" => next'[s] = "idle"
           /\ init'[s] = "returned" => ready'[s] = Size[s]
           /\ init'[s] \in {"spawn", "await", "receiving"} => ready'[s] < Size[s]
           /\ init'[s] \notin Started => ready'[s] = 0
           /\ init'[s] \notin {"unsent", "cancel", "wake", "load"} => loaded' # NoTask
           /\ init'[s] \in Started \cup {"raise"} => current' # NoTask
           /\ turns'[s] <= Turns /\ (next'[s] # "idle" => turns'[s] < Turns)
           /\ next'[s] \in {"idle", "broadcast"} => got'[s] = {} /\ taken'[s] = 0
  BY DEF Calls
<1>3. CASE s = t
  <2>1. place \in {"spawn", "await", "receiving"} => ready[t] < Size[t]
    BY Numbers DEF Always, Calls, Started, InitPlace
  <2>2. place \notin Started => ready[t] = 0
    BY DEF Always, Calls, Started
  <2> QED BY <1>1, <1>2, <1>3, <2>1, <2>2 DEF Always, Calls
<1>4. CASE s # t
  BY <1>1, <1>2, <1>4 DEF Always, Calls
<1> QED BY <1>3, <1>4

\* Every step keeps the order of the places of each call.
LEMMA CallsStep ==
  ASSUME Always, [NodeNext]_nodeVars
  PROVE  Calls'
<1>0. \A t \in Task : ready[t] \in Nat /\ Size[t] \in Nat
  BY Numbers DEF Always, Types
<1> USE DEF Always, Types, objectVars, initVars, nextVars
<1> USE Numbers
<1>1. ASSUME NEW t \in Task, SendInit(t) \/ GiveUp(t) PROVE Calls'
  <2>1. CASE SendInit(t)
    BY <2>1 DEF Calls, Started, SendInit
  <2>2. CASE GiveUp(t)
    BY <2>2 DEF Calls, GiveUp
  <2> QED BY <1>1, <2>1, <2>2
<1>2. ASSUME NEW t \in Task, SendNext(t) PROVE Calls'
  BY <1>2 DEF Calls, SendNext
<1>3. ASSUME NEW t \in Task, Cancel(t) \/ Wake(t) \/ Load(t) \/ NewFlag(t) PROVE Calls'
  <2>1. PICK place \in {"wake", "load", "flag", "raise"} :
          /\ InitTo(t, place) /\ init[t] \in {"cancel", "wake", "load", "flag"}
          /\ UNCHANGED <<ready, nextVars>>
          /\ loaded # NoTask \/ place \in {"flag", "raise"} => loaded' # NoTask
          /\ current # NoTask \/ place = "raise" => current' # NoTask
    BY <1>3 DEF Cancel, Wake, Load, NewFlag, Calls
  <2> QED BY <2>1, CallsKept DEF InitPlace, Started
<1>4. ASSUME NEW t \in Task, Raise(t) \/ Spawn(t) \/ Await(t) PROVE Calls'
  <2>1. PICK place \in {"spawn", "await", "receiving"} :
          /\ InitTo(t, place) /\ init[t] \in {"raise", "spawn", "await"}
          /\ init[t] = "raise" <=> place = "spawn"
          /\ UNCHANGED <<current, loaded, ready, nextVars>>
    BY <1>4 DEF Raise, Spawn, Await
  <2>2. loaded # NoTask /\ current # NoTask
    BY <2>1 DEF Calls, Started
  <2> QED BY <2>1, <2>2, CallsKept DEF InitPlace, Started
<1>5. ASSUME NEW t \in Task, Broadcast(t) PROVE Calls'
  BY <1>5 DEF Calls, Broadcast, NextTo
<1>6. ASSUME NEW t \in Task, Count(t) PROVE Calls'
  <2>1. next'[t] \in {"merge", "receiving"} /\ \A s \in Task : s # t => next'[s] = next[s]
    BY <1>6 DEF Count, NextTo
  <2> QED BY <1>6, <2>1 DEF Calls, Count
<1>7. ASSUME NEW t \in Task, Merge(t) PROVE Calls'
  <2>1. /\ next'[t] = "idle" /\ got'[t] = {} /\ taken'[t] = 0
        /\ turns'[t] = turns[t] + 1 /\ turns[t] < Turns /\ init[t] = "returned"
    BY <1>7 DEF Calls, Merge, NextTo
  <2>2. \A s \in Task : s # t => /\ next'[s] = next[s] /\ got'[s] = got[s]
                                 /\ taken'[s] = taken[s] /\ turns'[s] = turns[s]
    BY <1>7 DEF Merge, NextTo
  <2>3. UNCHANGED <<current, loaded, init, ready>>
    BY <1>7 DEF Merge
  <2> SUFFICES ASSUME NEW s \in Task
               PROVE  /\ init[s] # "returned" => next'[s] = "idle"
                      /\ turns'[s] <= Turns /\ (next'[s] # "idle" => turns'[s] < Turns)
                      /\ next'[s] \in {"idle", "broadcast"} => got'[s] = {} /\ taken'[s] = 0
    BY <2>3 DEF Calls
  <2>4. s # t => turns'[s] <= Turns /\ (next'[s] # "idle" => turns'[s] < Turns)
    BY <2>2 DEF Calls
  <2>5. turns'[t] <= Turns /\ turns[t] \in Nat
    BY <2>1
  <2> QED BY <2>1, <2>2, <2>4, <2>5 DEF Calls
<1>8. ASSUME NEW w \in Logic,
             Acquire(w) \/ Park(w) \/ Resume(w) \/ CheckRunning(w) \/ Evaluate(w)
      PROVE  Calls'
  BY <1>8 DEF Acquire, Park, Resume, CheckRunning, Evaluate, Calls
<1>9. ASSUME NEW w \in Logic, Send(w) PROVE Calls'
  <2>1. UNCHANGED <<current, loaded>>
    BY <1>9 DEF Send
  <2>2. ASSUME NEW t \in Task, init[t] = "receiving", TakenByInit(t) PROVE Calls'
    <3>1. /\ ready'[t] = ready[t] + 1 /\ \A s \in Task : s # t => ready'[s] = ready[s]
          /\ UNCHANGED nextVars
      BY <2>2 DEF TakenByInit
    <3>2. /\ init'[t] = IF ready'[t] = Size[t] THEN "returned" ELSE "spawn"
          /\ \A s \in Task : s # t => init'[s] = init[s]
      BY <2>2 DEF TakenByInit, InitTo
    <3>3. ready[t] < Size[t] /\ loaded # NoTask /\ current # NoTask /\ next[t] = "idle"
      BY <2>2 DEF Calls, Started
    <3>4. IF ready'[t] = Size[t] THEN init'[t] = "returned"
          ELSE init'[t] = "spawn" /\ ready'[t] < Size[t]
      <4>1. ready[t] \in Nat /\ Size[t] \in Nat
        BY <1>0
      <4>2. ready[t] + 1 # Size[t] => ready[t] + 1 < Size[t]
        BY <3>3, <4>1, OneMore, Zenon
      <4> QED BY <3>1, <3>2, <4>2
    <3> QED BY <2>1, <3>1, <3>2, <3>3, <3>4 DEF Calls, Started
  <2>3. ASSUME NEW t \in Task, next[t] = "receiving", TakenByNext(t, w) PROVE Calls'
    <3>1. /\ next'[t] = "counting" /\ UNCHANGED <<initVars, turns>>
          /\ \A s \in Task : s # t =>
               next'[s] = next[s] /\ got'[s] = got[s] /\ taken'[s] = taken[s]
      BY <2>3 DEF TakenByNext, NextTo
    <3> QED BY <2>1, <2>3, <3>1 DEF Calls
  <2> QED BY <1>9, <2>2, <2>3, SendTaken
<1>10. Kill \/ UNCHANGED nodeVars => Calls'
  BY DEF Kill, nodeVars, Calls
<1> QED BY <1>1, <1>2, <1>3, <1>4, <1>5, <1>6, <1>7, <1>8, <1>9, <1>10
     DEF NodeNext, BrokerCalls, NodeSteps, InitSteps, NextSteps, LogicSteps

\* A task once begun stays begun, and only SendInit begins one.
LEMMA BegunStep ==
  ASSUME Always, [NodeNext]_nodeVars
  PROVE  \/ \A u \in Task : init'[u] = "unsent" <=> init[u] = "unsent"
         \/ \E t \in Task : SendInit(t)
<1> USE DEF Always, Types, initVars, InitTo
<1>1. ASSUME NEW t \in Task, InitSteps(t)
      PROVE  \A u \in Task : init'[u] = "unsent" <=> init[u] = "unsent"
  BY <1>1 DEF InitSteps, Cancel, Wake, Load, NewFlag, Raise, Spawn, Await
<1>2. ASSUME NEW w \in Logic, Send(w)
      PROVE  \A u \in Task : init'[u] = "unsent" <=> init[u] = "unsent"
  <2>1. ASSUME NEW t \in Task, init[t] = "receiving", TakenByInit(t)
        PROVE  \A u \in Task : init'[u] = "unsent" <=> init[u] = "unsent"
    BY <2>1 DEF TakenByInit
  <2> QED BY <1>2, <2>1, SendTaken DEF TakenByNext
<1>3. ASSUME NEW t \in Task, SendNext(t) \/ GiveUp(t) \/ NextSteps(t) PROVE init' = init
  BY <1>3 DEF SendNext, GiveUp, NextSteps, Broadcast, Count, Merge
<1>4. ASSUME NEW w \in Logic,
             Acquire(w) \/ Park(w) \/ Resume(w) \/ CheckRunning(w) \/ Evaluate(w)
      PROVE  init' = init
  BY <1>4 DEF Acquire, Park, Resume, CheckRunning, Evaluate
<1>5. Kill \/ UNCHANGED nodeVars => init' = init
  BY DEF Kill, nodeVars
<1> QED BY <1>1, <1>2, <1>3, <1>4, <1>5 DEF NodeNext, BrokerCalls, NodeSteps, LogicSteps

\* Every step keeps the order of the Inits.
LEMMA OrderStep ==
  ASSUME Always, [NodeNext]_nodeVars
  PROVE  Order'
<1> USE DEF Always, Types, Order, objectVars, logicVars
<1>1. ASSUME NEW t \in Task, SendInit(t) PROVE Order'
  <2>1. \A s \in Task : s < t => s \in 1..t - 1
    BY NodeAssumption DEF Task
  <2>2. /\ \A s \in Task : Begun(s)' <=> Begun(s) \/ s = t
        /\ \A s \in Task : s < t => Begun(s)
        /\ UNCHANGED <<current, flagOf>>
    BY <1>1, <2>1 DEF SendInit, Begun
  <2> QED BY <2>2, Numbers
<1>2. ASSUME \A u \in Task : init'[u] = "unsent" <=> init[u] = "unsent",
             UNCHANGED <<current, flagOf>>
      PROVE  Order'
  BY <1>2, BegunKept
<1>3. ASSUME NEW t \in Task, NewFlag(t) PROVE Order'
  <2>1. \A u \in Task : init'[u] = "unsent" <=> init[u] = "unsent"
    BY <1>3 DEF NewFlag, InitTo
  <2>2. current' = t /\ Begun(t) /\ flagOf' = flagOf
    BY <1>3 DEF NewFlag, Begun
  <2> QED BY <2>1, <2>2, BegunKept
<1>4. ASSUME NEW t \in Task, Spawn(t) PROVE Order'
  <2>1. \A u \in Task : init'[u] = "unsent" <=> init[u] = "unsent"
    BY <1>4 DEF Spawn, InitTo
  <2>2. current' = current /\ \A w \in Logic : flagOf'[w] \in {current, flagOf[w]}
    BY <1>4 DEF Spawn
  <2> QED BY <2>1, <2>2, BegunKept
<1>5. \/ UNCHANGED <<current, flagOf>>
      \/ \E t \in Task : NewFlag(t) \/ Spawn(t)
  <2>1. ASSUME NEW w \in Logic, LogicSteps(w) PROVE UNCHANGED <<current, flagOf>>
    BY <2>1 DEF LogicSteps, Acquire, Send, Park, Resume, CheckRunning, Evaluate
  <2>2. ASSUME NEW t \in Task, Cancel(t) \/ Wake(t) \/ Load(t) \/ Raise(t) \/ Await(t) \/ NextSteps(t)
        PROVE  UNCHANGED <<current, flagOf>>
    BY <2>2 DEF Cancel, Wake, Load, Raise, Await, NextSteps, Broadcast, Count, Merge
  <2>3. BrokerCalls \/ Kill \/ UNCHANGED nodeVars => UNCHANGED <<current, flagOf>>
    BY DEF BrokerCalls, SendInit, SendNext, GiveUp, Kill, nodeVars
  <2> QED BY <2>1, <2>2, <2>3 DEF NodeNext, NodeSteps, InitSteps
<1> QED BY <1>1, <1>2, <1>3, <1>4, <1>5, BegunStep

\* Calls that wait go on to wait.
LEMMA QueueKept ==
  ASSUME Always, receivers' = receivers,
         \A t \in Task : /\ init[t] = "receiving" => init'[t] = "receiving"
                         /\ next[t] = "receiving" => next'[t] = "receiving"
  PROVE  Queue'
<1>1. \A i \in 1..Len(receivers) : receivers[i] \in {"Init", "Next"} \X Task
  BY ElementOfSeq DEF Always, Types
<1>2. \A i \in 1..Len(receivers) : receivers[i][2] \in Task
  BY <1>1
<1> QED BY <1>2 DEF Always, Queue, Waits

\* A call that begins to wait is the last in the queue.
LEMMA QueueJoined ==
  ASSUME Always, NEW t \in Task, NEW kind \in {"Init", "Next"},
         ~Waits(<<kind, t>>), Waits(<<kind, t>>)',
         receivers' = Append(receivers, <<kind, t>>),
         \A s \in Task : /\ init[s] = "receiving" => init'[s] = "receiving"
                         /\ next[s] = "receiving" => next'[s] = "receiving"
  PROVE  Queue'
<1> DEFINE call == <<kind, t>>
           n    == Len(receivers)
<1>1. receivers \in Seq({"Init", "Next"} \X Task) /\ n \in Nat /\ call \in {"Init", "Next"} \X Task
  BY LenProperties DEF Always, Types
<1>2. /\ Len(receivers') = n + 1 /\ receivers'[n + 1] = call
      /\ \A i \in 1..n : receivers'[i] = receivers[i]
  BY <1>1
<1>3. \A i \in 1..n : receivers[i][2] \in Task /\ Waits(receivers[i]) /\ receivers[i] # call
  <2> TAKE i \in 1..n
  <2>1. receivers[i] \in {"Init", "Next"} \X Task
    BY <1>1, ElementOfSeq
  <2> QED BY <2>1 DEF Always, Queue
<1>4. \A i \in 1..n : Waits(receivers[i])'
  <2> TAKE i \in 1..n
  <2>1. Waits(receivers[i]) /\ receivers[i][2] \in Task /\ receivers'[i] = receivers[i]
    BY <1>2, <1>3
  <2> QED BY <2>1 DEF Waits
<1>5. \A i \in 1..n + 1 : i \in 1..n \/ i = n + 1
  BY <1>1
<1>6. \A i \in 1..Len(receivers') : Waits(receivers[i])'
  BY <1>2, <1>4, <1>5
<1>7. \A i, j \in 1..Len(receivers') : receivers'[i] = receivers'[j] => i = j
  BY <1>2, <1>3, <1>5 DEF Always, Queue
<1> QED BY <1>6, <1>7 DEF Queue

\* The call that takes a result leaves the queue.
LEMMA QueueLeft ==
  ASSUME Always, NEW t \in Task, NEW kind \in {"Init", "Next"},
         receivers # <<>>, Head(receivers) = <<kind, t>>, receivers' = Tail(receivers),
         \A s \in Task : /\ s # t \/ kind = "Next" => init'[s] = init[s]
                         /\ s # t \/ kind = "Init" => next'[s] = next[s]
  PROVE  Queue'
<1> DEFINE n == Len(receivers)
<1>1. receivers \in Seq({"Init", "Next"} \X Task) /\ n \in Nat \ {0}
  BY EmptySeq DEF Always, Types
<1>2. /\ Len(receivers') = n - 1 /\ receivers[1] = <<kind, t>>
      /\ \A i \in 1..n - 1 : receivers'[i] = receivers[i + 1]
  BY <1>1, HeadTailProperties
<1>3. \A i \in 1..n - 1 : i + 1 \in 1..n /\ i + 1 # 1 /\ 1 \in 1..n
  BY <1>1
<1>4. ASSUME NEW i \in 1..n - 1 PROVE Waits(receivers[i])'
  <2> DEFINE call == receivers[i + 1]
  <2>1. call \in {"Init", "Next"} \X Task
    BY <1>1, <1>3, ElementOfSeq
  <2>2. Waits(call) /\ call # <<kind, t>>
    BY <1>2, <1>3 DEF Always, Queue
  <2>3. receivers'[i] = call
    BY <1>2
  <2> HIDE DEF call
  <2>4. call[2] \in Task /\ (call[2] # t \/ call[1] # kind) /\ call[1] \in {"Init", "Next"}
    BY <2>1, <2>2
  <2> QED BY <2>2, <2>3, <2>4 DEF Waits
<1>5. \A i \in 1..Len(receivers') : Waits(receivers[i])'
  BY <1>2, <1>4
<1>6. \A i, j \in 1..Len(receivers') : receivers'[i] = receivers'[j] => i = j
  <2> TAKE i, j \in 1..Len(receivers')
  <2>1. i + 1 \in 1..n /\ j + 1 \in 1..n /\ i \in Int /\ j \in Int
    BY <1>2, <1>3
  <2>2. receivers[i + 1] = receivers[j + 1] => i + 1 = j + 1
    BY <2>1 DEF Always, Queue
  <2> QED BY <1>2, <2>1, <2>2
<1> QED BY <1>5, <1>6 DEF Queue

\* Every step keeps the queue.
LEMMA QueueStep ==
  ASSUME Always, [NodeNext]_nodeVars
  PROVE  Queue'
<1>1. ASSUME NEW t \in Task, SendInit(t) PROVE Queue'
  <2>1. /\ init[t] = "unsent" /\ receivers' = receivers /\ next' = next
        /\ \A s \in Task : s # t => init'[s] = init[s]
    BY <1>1 DEF SendInit, nextVars, Always, Types
  <2> QED BY <2>1, QueueKept
<1>2. ASSUME NEW t \in Task, SendNext(t) PROVE Queue'
  <2>1. /\ next[t] = "idle" /\ UNCHANGED <<receivers, init>>
        /\ \A s \in Task : s # t => next'[s] = next[s]
    BY <1>2 DEF SendNext, initVars, Always, Types
  <2> QED BY <2>1, QueueKept
<1>3. ASSUME NEW t \in Task, Cancel(t) \/ Wake(t) \/ Load(t) \/ NewFlag(t) \/ Raise(t) \/ Spawn(t)
      PROVE  Queue'
  <2>1. PICK place : InitTo(t, place)
    BY <1>3 DEF Cancel, Wake, Load, NewFlag, Raise, Spawn
  <2>2. init[t] # "receiving" /\ UNCHANGED <<receivers, next>>
    BY <1>3 DEF Cancel, Wake, Load, NewFlag, Raise, Spawn, nextVars
  <2> QED BY <2>1, <2>2, Moved, QueueKept
<1>4. ASSUME NEW t \in Task, Await(t) PROVE Queue'
  <2>1. /\ init[t] = "await" /\ init'[t] = "receiving" /\ next' = next
        /\ \A s \in Task : s # t => init'[s] = init[s]
        /\ receivers' = Append(receivers, <<"Init", t>>)
    BY <1>4, Moved DEF Await, nextVars
  <2> QED BY <2>1, QueueJoined DEF Waits
<1>5. ASSUME NEW t \in Task, Broadcast(t) \/ Merge(t) PROVE Queue'
  <2>1. PICK place : NextTo(t, place)
    BY <1>5 DEF Broadcast, Merge
  <2>2. next[t] # "receiving" /\ UNCHANGED <<receivers, init>>
    BY <1>5 DEF Broadcast, Merge, initVars
  <2> QED BY <2>1, <2>2, Moved, QueueKept
<1>6. ASSUME NEW t \in Task, Count(t) PROVE Queue'
  <2>1. next[t] = "counting" /\ init' = init
    BY <1>6 DEF Count, initVars
  <2>2. CASE NextTo(t, "merge") /\ receivers' = receivers
    BY <2>1, <2>2, Moved, QueueKept
  <2>3. CASE NextTo(t, "receiving") /\ receivers' = Append(receivers, <<"Next", t>>)
    <3>1. next'[t] = "receiving" /\ \A s \in Task : s # t => next'[s] = next[s]
      BY <2>3, Moved
    <3> QED BY <2>1, <2>3, <3>1, QueueJoined DEF Waits
  <2> QED BY <1>6, <2>2, <2>3 DEF Count
<1>7. ASSUME NEW w \in Logic, Send(w) PROVE Queue'
  <2>1. receivers # <<>> /\ receivers' = Tail(receivers)
    BY <1>7 DEF Send
  <2>2. ASSUME NEW t \in Task, Head(receivers) = <<"Init", t>>, TakenByInit(t) PROVE Queue'
    <3>1. next' = next /\ \A s \in Task : s # t => init'[s] = init[s]
      BY <2>2, Moved DEF TakenByInit, nextVars
    <3> QED BY <2>1, <2>2, <3>1, QueueLeft
  <2>3. ASSUME NEW t \in Task, Head(receivers) = <<"Next", t>>, TakenByNext(t, w) PROVE Queue'
    <3>1. init' = init /\ \A s \in Task : s # t => next'[s] = next[s]
      BY <2>3, Moved DEF TakenByNext, initVars
    <3> QED BY <2>1, <2>3, <3>1, QueueLeft
  <2> QED BY <1>7, <2>2, <2>3, SendTaken
<1>8. ASSUME \/ Kill \/ UNCHANGED nodeVars \/ \E t \in Task : GiveUp(t)
             \/ \E w \in Logic :
                  Acquire(w) \/ Park(w) \/ Resume(w) \/ CheckRunning(w) \/ Evaluate(w)
      PROVE  Queue'
  <2>1. UNCHANGED <<receivers, init, next>>
    BY <1>8 DEF Kill, nodeVars, GiveUp, Acquire, Park, Resume, CheckRunning, Evaluate,
       initVars, nextVars
  <2> QED BY <2>1, QueueKept
<1> QED BY <1>1, <1>2, <1>3, <1>4, <1>5, <1>6, <1>7, <1>8
     DEF NodeNext, BrokerCalls, NodeSteps, InitSteps, NextSteps, LogicSteps

\* Workers that are woken hold nothing and none is new.
LEMMA WokenKeeps ==
  ASSUME Always, logic' = Woken, holder' = holder
  PROVE  /\ Mutex'
         /\ \A w \in Logic : /\ logic'[w] = IF logic[w] = "asleep" THEN "woken" ELSE logic[w]
                             /\ logic'[w] = "none" <=> logic[w] = "none"
BY DEF Always, Mutex, Holding, Woken

\* A step of one worker: its place, and the mutex if it holds it.
LEMMA WorkerSteps ==
  ASSUME Always, NEW w \in Logic, LogicSteps(w)
  PROVE  /\ logic[w] # "none" /\ logic'[w] \in LogicState \ {"none"}
         /\ \A v \in Logic : v # w => logic'[v] = logic[v]
         /\ holder' = IF logic'[w] \in Holding THEN w ELSE IF holder = w THEN Nobody ELSE holder
         /\ logic'[w] \in Holding => holder \in {w, Nobody}
         /\ UNCHANGED <<current, loaded, running, flagOf, brokerVars>>
<1>1. /\ logic \in [Logic -> LogicState] /\ holder \in Logic \cup {Nobody} /\ Nobody # w
      /\ \A v \in Logic : logic[v] \in Holding <=> holder = v
  <2>1. Nobody # w
    BY Workers, Zenon
  <2>2. logic \in [Logic -> LogicState]
    BY DEF Always, Types
  <2>3. holder \in Logic \cup {Nobody} /\ \A v \in Logic : logic[v] \in Holding <=> holder = v
    BY DEF Always, Mutex
  <2> QED BY <2>1, <2>2, <2>3
<1>2. ASSUME NEW s \in LogicState \ {"none"}, logic' = [logic EXCEPT ![w] = s], logic[w] # "none"
      PROVE  /\ logic'[w] = s /\ logic[w] # "none" /\ logic'[w] \in LogicState \ {"none"}
             /\ \A v \in Logic : v # w => logic'[v] = logic[v]
  BY <1>1, <1>2
<1>3. CASE Acquire(w)
  <2>1. \E s \in {"greeting", "reporting"} : logic' = [logic EXCEPT ![w] = s]
    BY <1>3 DEF Acquire, LogicTo
  <2>2. logic[w] # "none" /\ holder = Nobody /\ holder' = w
    BY <1>3 DEF Acquire
  <2> QED BY <1>2, <1>3, <2>1, <2>2 DEF Acquire, LogicState, Holding, objectVars
<1>4. CASE Send(w)
  <2>1. logic[w] \in {"greeting", "reporting"} /\ logic' = [logic EXCEPT ![w] = "parking"]
    BY <1>4 DEF Send, LogicTo, Sending
  <2>2. holder = w /\ holder' = holder
    BY <1>1, <1>4, <2>1 DEF Send, Holding
  <2> QED BY <1>2, <1>4, <2>1, <2>2 DEF Send, LogicState, Holding, objectVars
<1>5. CASE Park(w)
  <2>1. logic[w] = "parking" /\ logic' = [logic EXCEPT ![w] = "asleep"]
    BY <1>5 DEF Park, LogicTo
  <2>2. holder = w /\ holder' = Nobody
    BY <1>1, <1>5, <2>1 DEF Park, Holding
  <2>3. UNCHANGED <<current, loaded, running, flagOf, brokerVars>>
    BY <1>5 DEF Park, objectVars
  <2>4. logic'[w] = "asleep" /\ \A v \in Logic : v # w => logic'[v] = logic[v]
    BY <1>2, <2>1 DEF LogicState
  <2> QED BY <2>1, <2>2, <2>3, <2>4 DEF LogicState, Holding
<1>6. ASSUME Resume(w) \/ CheckRunning(w) \/ Evaluate(w)
      PROVE  /\ logic[w] \in {"woken", "checking", "working"} /\ holder' = holder
             /\ \E s \in {"checking", "working", "exited", "worked"} :
                  logic' = [logic EXCEPT ![w] = s]
             /\ UNCHANGED <<current, loaded, running, flagOf, brokerVars>>
  BY <1>6 DEF Resume, CheckRunning, Evaluate, LogicTo, objectVars
<1>7. CASE Resume(w) \/ CheckRunning(w) \/ Evaluate(w)
  <2>1. holder # w
    BY <1>1, <1>6, <1>7 DEF Holding
  <2> QED BY <1>2, <1>6, <1>7, <2>1 DEF LogicState, Holding
<1> QED BY <1>3, <1>4, <1>5, <1>7 DEF LogicSteps

\* The worker that Spawn starts.
LEMMA Spawned ==
  ASSUME Always, NEW t \in Task, Spawn(t)
  PROVE  LET w == <<t, ready[t] + 1>> IN
         /\ w \in Logic /\ w[1] = t /\ w[2] = ready[t] + 1
         /\ logic[w] = "none" /\ logic'[w] = "created"
         /\ flagOf'[w] = current /\ current # NoTask
         /\ \A v \in Logic : v # w => logic'[v] = logic[v] /\ flagOf'[v] = flagOf[v]
         /\ init[t] = "spawn" /\ InitTo(t, "await")
         /\ UNCHANGED <<objectVars, holder, receivers, ready, nextVars, brokerVars>>
<1> DEFINE w == <<t, ready[t] + 1>>
<1>1. ready[t] \in Nat /\ Size[t] \in Nat /\ ready[t] < Size[t] /\ current # NoTask
  BY Numbers DEF Spawn, Always, Types, Calls, Started
<1>2. ready[t] + 1 \in 1..Size[t]
  BY <1>1
<1>3. w \in Logic /\ w[1] = t /\ w[2] = ready[t] + 1
  BY <1>2, Workers
<1>4. /\ logic' = [logic EXCEPT ![w] = "created"] /\ flagOf' = [flagOf EXCEPT ![w] = current]
      /\ init[t] = "spawn" /\ InitTo(t, "await")
      /\ UNCHANGED <<objectVars, holder, receivers, ready, nextVars, brokerVars>>
  BY DEF Spawn
<1> HIDE DEF w
<1>5. logic[w] = "none"
  BY <1>1, <1>3, <1>4 DEF Always, Fresh
<1> QED BY <1>1, <1>3, <1>4, <1>5 DEF Always, Types, w

\* Every step keeps the mutex with the one worker that is between lock and unlock.
LEMMA MutexStep ==
  ASSUME Always, [NodeNext]_nodeVars
  PROVE  Mutex'
<1>1. ASSUME NEW t \in Task, Wake(t) \/ Broadcast(t) PROVE Mutex'
  BY <1>1, WokenKeeps DEF Wake, Broadcast
<1>2. ASSUME NEW t \in Task, Spawn(t) PROVE Mutex'
  <2> DEFINE w == <<t, ready[t] + 1>>
  <2>1. /\ w \in Logic /\ logic[w] = "none" /\ logic'[w] = "created" /\ holder' = holder
        /\ \A v \in Logic : v # w => logic'[v] = logic[v]
    BY <1>2, Spawned
  <2> HIDE DEF w
  <2> QED BY <2>1 DEF Always, Mutex, Holding
<1>3. ASSUME NEW w \in Logic, LogicSteps(w) PROVE Mutex'
  BY <1>3, WorkerSteps, Workers DEF Always, Mutex
<1>4. UNCHANGED <<logic, holder>> => Mutex'
  BY DEF Always, Mutex
<1>5. ASSUME NEW t \in Task,
             \/ SendInit(t) \/ SendNext(t) \/ GiveUp(t) \/ Cancel(t) \/ Load(t) \/ NewFlag(t)
             \/ Raise(t) \/ Await(t) \/ Count(t) \/ Merge(t)
      PROVE  UNCHANGED <<logic, holder>>
  BY <1>5 DEF SendInit, SendNext, GiveUp, Cancel, Load, NewFlag, Raise, Await, Count, Merge,
     logicVars
<1>6. Kill \/ UNCHANGED nodeVars => UNCHANGED <<logic, holder>>
  BY DEF Kill, nodeVars, logicVars
<1> QED BY <1>1, <1>2, <1>3, <1>4, <1>5, <1>6
     DEF NodeNext, BrokerCalls, NodeSteps, InitSteps, NextSteps

\* Every step keeps the workers that were not started.
LEMMA FreshStep ==
  ASSUME Always, [NodeNext]_nodeVars
  PROVE  Fresh'
<1>1. ASSUME flagOf' = flagOf,
             \A w \in Logic : logic'[w] = "none" <=> logic[w] = "none",
             \A t \in Task : ready'[t] = ready[t],
             \A t \in Task : init[t] \in {"await", "receiving"} => init'[t] \in {"await", "receiving"}
      PROVE  Fresh'
  BY <1>1, Workers DEF Always, Fresh
<1>2. ASSUME NEW t \in Task,
             \/ SendInit(t) \/ Cancel(t) \/ Wake(t) \/ Load(t) \/ NewFlag(t) \/ Raise(t)
             \/ Await(t)
      PROVE  Fresh'
  <2>1. UNCHANGED <<flagOf, ready>> /\ logic' \in {logic, Woken}
    BY <1>2 DEF SendInit, Cancel, Wake, Load, NewFlag, Raise, Await, logicVars
  <2>2. \A w \in Logic : logic'[w] = "none" <=> logic[w] = "none"
    BY <2>1 DEF Woken
  <2>3. \A s \in Task : init[s] \in {"await", "receiving"} => init'[s] \in {"await", "receiving"}
    BY <1>2 DEF SendInit, Cancel, Wake, Load, NewFlag, Raise, Await, InitTo, Always, Types
  <2> QED BY <1>1, <2>1, <2>2, <2>3
<1>3. ASSUME NEW t \in Task, SendNext(t) \/ GiveUp(t) \/ NextSteps(t) PROVE Fresh'
  <2>1. UNCHANGED <<flagOf, ready, init>> /\ logic' \in {logic, Woken}
    BY <1>3 DEF SendNext, GiveUp, NextSteps, Broadcast, Count, Merge, logicVars, initVars
  <2>2. \A w \in Logic : logic'[w] = "none" <=> logic[w] = "none"
    BY <2>1 DEF Woken
  <2> QED BY <1>1, <2>1, <2>2
<1>4. ASSUME NEW t \in Task, Spawn(t) PROVE Fresh'
  <2> DEFINE w == <<t, ready[t] + 1>>
  <2>1. /\ w \in Logic /\ w[1] = t /\ w[2] = ready[t] + 1 /\ logic'[w] = "created"
        /\ flagOf'[w] = current /\ current # NoTask /\ ready' = ready
        /\ \A v \in Logic : v # w => logic'[v] = logic[v] /\ flagOf'[v] = flagOf[v]
        /\ init[t] = "spawn" /\ InitTo(t, "await")
    BY <1>4, Spawned
  <2> HIDE DEF w
  <2>2. init'[t] = "await" /\ \A s \in Task : s # t => init'[s] = init[s]
    BY <2>1, Moved
  <2>3. ASSUME NEW v \in Logic, v # w
        PROVE  /\ flagOf'[v] = NoTask <=> logic'[v] = "none"
               /\ \/ v[2] <= ready'[v[1]]
                  \/ v[2] = ready'[v[1]] + 1 /\ init'[v[1]] \in {"await", "receiving"}
                  \/ logic'[v] = "none"
    BY <2>1, <2>2, <2>3, Workers DEF Always, Fresh
  <2> QED BY <2>1, <2>2, <2>3 DEF Fresh
<1>5. ASSUME NEW w \in Logic, Acquire(w) \/ Park(w) \/ Resume(w) \/ CheckRunning(w) \/ Evaluate(w)
      PROVE  Fresh'
  <2>1. /\ flagOf' = flagOf /\ logic[w] # "none" /\ logic'[w] # "none"
        /\ \A v \in Logic : v # w => logic'[v] = logic[v]
    BY <1>5, WorkerSteps DEF LogicSteps
  <2>2. UNCHANGED <<ready, init>>
    BY <1>5 DEF Acquire, Park, Resume, CheckRunning, Evaluate, initVars
  <2> QED BY <1>1, <2>1, <2>2
<1>6. ASSUME NEW w \in Logic, Send(w) PROVE Fresh'
  <2>1. /\ flagOf' = flagOf /\ logic[w] # "none" /\ logic'[w] # "none"
        /\ \A v \in Logic : v # w => logic'[v] = logic[v]
    BY <1>6, WorkerSteps DEF LogicSteps
  <2>2. ASSUME NEW t \in Task, init[t] = "receiving", TakenByInit(t) PROVE Fresh'
    <3>1. /\ ready'[t] = ready[t] + 1 /\ \A s \in Task : s # t => ready'[s] = ready[s]
      BY <2>2 DEF TakenByInit, Always, Types
    <3>2. \A s \in Task : s # t => init'[s] = init[s]
      BY <2>2, Moved DEF TakenByInit
    <3>3. ASSUME NEW v \in Logic
          PROVE  \/ v[2] <= ready'[v[1]]
                 \/ v[2] = ready'[v[1]] + 1 /\ init'[v[1]] \in {"await", "receiving"}
                 \/ logic'[v] = "none"
      <4>1. v[1] \in Task /\ v[2] \in 1..Size[v[1]] /\ Size[v[1]] \in Nat
        BY Workers, Numbers
      <4>2. v[2] \in Nat /\ ready[v[1]] \in Nat
        BY <4>1 DEF Always, Types
      <4>3. logic'[v] = "none" <=> logic[v] = "none"
        BY <2>1
      <4> QED BY <2>2, <3>1, <3>2, <4>1, <4>2, <4>3 DEF Always, Fresh
    <3> QED BY <2>1, <3>3 DEF Always, Fresh
  <2>3. ASSUME NEW t \in Task, TakenByNext(t, w) PROVE Fresh'
    <3>1. UNCHANGED <<ready, init>>
      BY <2>3 DEF TakenByNext, initVars
    <3> QED BY <1>1, <2>1, <3>1
  <2> QED BY <1>6, <2>2, <2>3, SendTaken
<1>7. Kill \/ UNCHANGED nodeVars => Fresh'
  BY <1>1 DEF Kill, nodeVars, logicVars, initVars
<1> QED BY <1>2, <1>3, <1>4, <1>5, <1>6, <1>7
     DEF NodeNext, BrokerCalls, NodeSteps, InitSteps, LogicSteps

\* Every step keeps this half.
LEMMA AlwaysStep ==
  ASSUME Always, [NodeNext]_nodeVars
  PROVE  Always'
BY TypesStep, CallsStep, OrderStep, QueueStep, MutexStep, FreshStep DEF Always

------------------------------------------------------------------------------
(* The half for a node that is not tangled: steps of the logic workers *)

\* What depends on the calls alone.
LEMMA CallsStand ==
  ASSUME UNCHANGED <<init, ready, next, got>>
  PROVE  /\ \A t \in Task : (Begun(t)' <=> Begun(t)) /\ (Latest(t)' <=> Latest(t))
         /\ \A t : Superseded(t)' <=> Superseded(t)
         /\ \A w \in Logic : Standing(w)' = Standing(w)
<1>1. /\ \A t \in Task : (Begun(t)' <=> Begun(t)) /\ (Latest(t)' <=> Latest(t))
      /\ \A t : Superseded(t)' <=> Superseded(t)
  BY DEF Begun, Latest, Superseded
<1>2. \A w \in Logic : InitStanding(w)' = InitStanding(w)
  BY DEF InitStanding
<1> QED BY <1>1, <1>2 DEF Standing

\* Nothing that the invariant speaks of changes.
LEMMA OrderlyStands ==
  ASSUME Orderly,
         UNCHANGED <<objectVars, logicVars, receivers, initVars, next, got, taken, slots>>
            \/ UNCHANGED <<current, loaded, running, logicVars, receivers, initVars, next, got,
                           taken, slots>>
  PROVE  Orderly'
<1>1. UNCHANGED <<current, loaded, running, logic, flagOf, receivers, init, ready, next, got,
                  taken, slots>>
  BY DEF objectVars, logicVars, initVars
<1>2. Alone' /\ Waiting' /\ Results'
  BY <1>1, CallsStand DEF Orderly, Alone, Waiting, Results
<1>3. Flags'
  BY <1>1, CallsStand DEF Orderly, Flags
<1>4. Stand' /\ OneLeft'
  BY <1>1, CallsStand DEF Orderly, Stand, OneLeft
<1> QED BY <1>2, <1>3, <1>4 DEF Orderly

\* The call that runs is that of the latest task.
LEMMA TheLatest ==
  ASSUME Always, Alone, NEW t \in Task, Begun(t), Busy(t) \/ Latest(t)
  PROVE  /\ Latest(t) /\ ~Superseded(t)
         /\ \A s \in Task : s < t => init[s] = "returned" /\ next[s] = "idle" /\ Superseded(s)
         /\ \A s \in Task : s > t => init[s] = "unsent" /\ next[s] = "idle"
         /\ \A s \in Task : Latest(s) <=> s = t
<1>1. \A s \in Task : s > t => ~Begun(s)
  BY DEF Alone, Busy, Initialising, Latest, Begun
<1>2. Latest(t) /\ ~Superseded(t)
  BY <1>1 DEF Latest, Superseded, Begun
<1>3. \A s \in Task : s < t => init[s] = "returned" /\ next[s] = "idle" /\ Superseded(s)
  BY Numbers DEF Alone, Superseded
<1>4. \A s \in Task : s > t => init[s] = "unsent" /\ next[s] = "idle"
  BY <1>1 DEF Begun, Always, Calls
<1>5. \A s \in Task : Latest(s) <=> s = t
  BY <1>1, <1>2, Numbers DEF Latest, Begun
<1> QED BY <1>2, <1>3, <1>4, <1>5

\* The places a worker may stand in are one of five sets.
LEMMA StandingCases ==
  ASSUME NEW w \in Logic
  PROVE  \/ Standing(w) \in {{"none"}, Parked, {"created", "greeting"}}
         \/ Standing(w) = Leaving /\ Superseded(w[1])
         \/ Standing(w) = Turning /\ ~Superseded(w[1]) /\ init[w[1]] = "returned"
BY DEF Standing, InitStanding

\* A step of one worker that touches nothing but its own place and the mutex.
LEMMA WorkerMoves ==
  ASSUME Always, Orderly, NEW w \in Logic, LogicSteps(w),
         UNCHANGED <<receivers, initVars, nextVars>>,
         logic'[w] \in Standing(w), logic[w] # "exited",
         logic'[w] \in Parked <=> logic[w] \in Parked
  PROVE  Orderly'
<1>1. /\ logic[w] # "none" /\ logic[w] \in Standing(w)
      /\ \A v \in Logic : v # w => logic'[v] = logic[v]
      /\ UNCHANGED <<current, loaded, running, flagOf>>
  BY WorkerSteps DEF Orderly, Stand
<1>2. UNCHANGED <<receivers, init, ready, next, got, taken, slots>>
  BY DEF initVars, nextVars
<1>3. Alone' /\ Waiting' /\ Results'
  BY <1>2, CallsStand DEF Orderly, Alone, Waiting, Results
<1>4. Stand'
  BY <1>1, <1>2, CallsStand DEF Orderly, Stand
<1>5. OneLeft'
  BY <1>1, <1>2, CallsStand DEF Orderly, OneLeft
<1>6. Flags'
  <2>1. ASSUME NEW v \in Logic, Superseded(v[1]), logic'[v] \in Leaving \ {"none", "exited"},
               running[flagOf[v]]
        PROVE  flagOf[v] = current /\ logic'[v] \in Parked /\ \E t \in Task : init[t] = "cancel"
    <3>1. v = w => logic[v] \in Leaving \ {"none", "exited"}
      BY <1>1, <2>1 DEF Standing
    <3> QED BY <1>1, <2>1, <3>1 DEF Orderly, Flags
  <2> QED BY <1>1, <1>2, <2>1, CallsStand DEF Orderly, Flags
<1> QED BY <1>3, <1>4, <1>5, <1>6 DEF Orderly

\* A new worker greets, one that has evaluated reports, both with the mutex.
LEMMA AcquireStep ==
  ASSUME Always, Orderly, NEW w \in Logic, Acquire(w)
  PROVE  Orderly'
<1>1. logic[w] \in Standing(w) /\ LogicSteps(w)
  BY DEF Orderly, Stand, LogicSteps
<1>2. \/ logic[w] = "created" /\ logic'[w] = "greeting"
      \/ logic[w] = "worked" /\ logic'[w] = "reporting"
  BY DEF Acquire, LogicTo, Always, Types
<1>3. logic'[w] \in Standing(w)
  BY <1>1, <1>2, StandingCases DEF Parked, Leaving, Turning
<1> QED BY <1>1, <1>2, <1>3, WorkerMoves DEF Acquire, Parked

\* Wait puts the worker into the queue before it gives the mutex back.
LEMMA ParkStep ==
  ASSUME Always, Orderly, NEW w \in Logic, Park(w)
  PROVE  Orderly'
<1>1. logic[w] \in Standing(w) /\ LogicSteps(w)
  BY DEF Orderly, Stand, LogicSteps
<1>2. logic[w] = "parking" /\ logic'[w] = "asleep"
  BY DEF Park, LogicTo, Always, Types
<1>3. logic'[w] \in Standing(w)
  BY <1>1, <1>2, StandingCases DEF Parked, Leaving, Turning
<1> QED BY <1>1, <1>2, <1>3, WorkerMoves DEF Park, Parked

\* A worker that was woken finds the mutex free; one of the latest task evaluates.
LEMMA ResumeEvaluateStep ==
  ASSUME Always, Orderly, NEW w \in Logic, Resume(w) \/ Evaluate(w)
  PROVE  Orderly'
<1>1. logic[w] \in Standing(w) /\ LogicSteps(w)
  BY DEF Orderly, Stand, LogicSteps
<1>2. \/ logic[w] = "woken" /\ logic'[w] = "checking"
      \/ logic[w] = "working" /\ logic'[w] = "worked"
  BY DEF Resume, Evaluate, LogicTo, Always, Types
<1>3. logic'[w] \in Standing(w)
  BY <1>1, <1>2, StandingCases DEF Parked, Leaving, Turning
<1> QED BY <1>1, <1>2, <1>3, WorkerMoves DEF Resume, Evaluate, Parked

\* The flag is up for the workers of the latest task, and down for all others.
LEMMA CheckRunningStep ==
  ASSUME Always, Orderly, NEW w \in Logic, CheckRunning(w)
  PROVE  Orderly'
<1>1. logic[w] \in Standing(w) /\ LogicSteps(w) /\ logic[w] = "checking" /\ w[1] \in Task
  BY Workers DEF Orderly, Stand, LogicSteps, CheckRunning
<1>2. logic'[w] = IF running[flagOf[w]] THEN "working" ELSE "exited"
  BY DEF CheckRunning, LogicTo, Always, Types
<1>3. CASE Superseded(w[1])
  <2>1. ~running[flagOf[w]]
    BY <1>1, <1>3 DEF Orderly, Flags, Leaving, Parked
  <2>2. logic'[w] = "exited" /\ Standing(w) = Leaving
    BY <1>2, <1>3, <2>1 DEF Standing
  <2> QED BY <1>1, <2>2, WorkerMoves DEF CheckRunning, Leaving, Parked
<1>4. CASE ~Superseded(w[1])
  <2>1. Standing(w) = Turning /\ init[w[1]] = "returned"
    BY <1>1, <1>4, StandingCases DEF Parked
  <2>2. Latest(w[1])
    BY <1>1, <1>4, <2>1 DEF Superseded, Latest, Begun
  <2>3. flagOf[w] = w[1] /\ running[w[1]]
    BY <1>1, <2>1, <2>2 DEF Orderly, Flags, Started, Always, Fresh
  <2>4. logic'[w] = "working"
    BY <1>2, <2>3
  <2> QED BY <1>1, <2>1, <2>4, WorkerMoves DEF CheckRunning, Turning, Parked
<1> QED BY <1>3, <1>4

------------------------------------------------------------------------------
(* Steps of Init *)

\* An Init goes on: it is the latest call, and the other calls stay.
LEMMA InitMoves ==
  ASSUME Always, Orderly, NEW t \in Task, NEW place \in InitPlace \ {"unsent"},
         init[t] \notin {"unsent", "returned"}, InitTo(t, place),
         UNCHANGED <<next, got, taken, slots>>
  PROVE  /\ init'[t] = place /\ \A s \in Task : s # t => init'[s] = init[s]
         /\ next[t] = "idle" /\ Begun(t) /\ Latest(t) /\ ~Superseded(t)
         /\ \A s \in Task : s # t => init[s] \in {"unsent", "returned"} /\ next[s] = "idle"
         /\ \A s \in Task : /\ Begun(s)' <=> Begun(s)
                            /\ Superseded(s)' <=> Superseded(s)
                            /\ Latest(s)' <=> Latest(s)
         /\ \A s \in Task : Latest(s) <=> s = t
         /\ Alone' /\ Results'
<1>1. init'[t] = place /\ \A s \in Task : s # t => init'[s] = init[s]
  BY Moved
<1>2. Begun(t) /\ Busy(t) /\ next[t] = "idle"
  BY DEF Begun, Busy, Initialising, Always, Calls
<1>3. \A s \in Task : /\ Begun(s)' <=> Begun(s)
                      /\ Superseded(s)' <=> Superseded(s)
                      /\ Latest(s)' <=> Latest(s)
  BY <1>1, BegunKept
<1>4. /\ Latest(t) /\ ~Superseded(t)
      /\ \A s \in Task : s < t => init[s] = "returned" /\ next[s] = "idle"
      /\ \A s \in Task : s > t => init[s] = "unsent" /\ next[s] = "idle"
      /\ \A s \in Task : Latest(s) <=> s = t
  BY <1>2, TheLatest DEF Orderly
<1>5. Alone'
  BY <1>1, <1>3, <1>4 DEF Orderly, Alone, Latest, Begun
<1>6. Results'
  BY DEF Orderly, Results
<1> QED BY <1>1, <1>2, <1>3, <1>4, <1>5, <1>6, Numbers

\* Before the first worker is started, the places of all workers stay allowed.
LEMMA PreparingStanding ==
  ASSUME Always, Orderly, NEW t \in Task, NEW place \in {"wake", "load", "flag", "raise", "spawn"},
         init[t] \in {"cancel", "wake", "load", "flag", "raise"}, InitTo(t, place),
         UNCHANGED <<receivers, ready, next, got, taken, slots>>
  PROVE  (\A w \in Logic : Standing(w)' = Standing(w)) /\ Waiting'
<1>1. /\ init'[t] = place /\ \A s \in Task : s # t => init'[s] = init[s]
      /\ \A s \in Task : /\ Superseded(s)' <=> Superseded(s)
                         /\ Latest(s)' <=> Latest(s)
  BY InitMoves DEF InitPlace
<1>2. \A w \in Logic : w[1] \in Task
  BY Workers
<1>3. \A w \in Logic : InitStanding(w)' = InitStanding(w)
  BY <1>1, <1>2 DEF InitStanding
<1>4. \A s \in Task : init'[s] = "returned" <=> init[s] = "returned"
  BY <1>1
<1>5. \A w \in Logic : Standing(w)' = Standing(w)
  BY <1>1, <1>2, <1>3, <1>4 DEF Standing
<1>6. Waiting'
  BY <1>1 DEF Orderly, Waiting
<1> QED BY <1>5, <1>6

\* Only workers that were left behind by Init had the flag that Cancel clears.
LEMMA CancelStep ==
  ASSUME Always, Orderly, NEW t \in Task, Cancel(t)
  PROVE  Orderly'
<1>1. /\ init[t] = "cancel" /\ InitTo(t, "wake") /\ running' = [s \in Task |-> running[s] /\ s # current]
      /\ UNCHANGED <<current, loaded, logic, flagOf, holder, receivers, ready, next, got, taken, slots>>
  BY DEF Cancel, logicVars, nextVars
<1>2. /\ init'[t] = "wake" /\ \A s \in Task : s # t => init'[s] = init[s]
      /\ \A s \in Task : Superseded(s)' <=> Superseded(s)
      /\ \A s \in Task : (Latest(s)' <=> Latest(s)) /\ (Latest(s) <=> s = t)
      /\ Alone' /\ Results'
  <2>1. "wake" \in InitPlace \ {"unsent"} /\ init[t] \notin {"unsent", "returned"}
    BY <1>1 DEF InitPlace
  <2>2. UNCHANGED <<next, got, taken, slots>>
    BY <1>1
  <2> QED BY <1>1, <2>1, <2>2, InitMoves
<1>3. (\A w \in Logic : Standing(w)' = Standing(w)) /\ Waiting'
  BY <1>1, PreparingStanding
<1>4. Stand'
  BY <1>1, <1>3 DEF Orderly, Stand
<1>5. OneLeft'
  BY <1>2 DEF OneLeft
<1>6. Flags'
  <2>1. \A w \in Logic : Superseded(w[1]) /\ logic[w] \in Leaving \ {"none", "exited"} =>
          ~running'[flagOf[w]]
    <3> TAKE w \in Logic
    <3>1. logic[w] # "none" => flagOf[w] \in Task
      BY DEF Always, Types, Fresh
    <3>2. flagOf[w] \in Task => (running'[flagOf[w]] <=> running[flagOf[w]] /\ flagOf[w] # current)
      BY <1>1
    <3> QED BY <3>1, <3>2 DEF Orderly, Flags, Leaving
  <2>2. \A w \in Logic : w[1] \in Task
    BY Workers
  <2> QED BY <1>1, <1>2, <2>1, <2>2 DEF Orderly, Flags, Started
<1> QED BY <1>2, <1>3, <1>4, <1>5, <1>6 DEF Orderly

\* Of the workers of the tasks before, only the one that holds the mutex is not woken.
LEMMA WakeStep ==
  ASSUME Always, Orderly, NEW t \in Task, Wake(t)
  PROVE  Orderly'
<1>1. /\ init[t] = "wake" /\ InitTo(t, "load") /\ logic' = Woken
      /\ UNCHANGED <<current, loaded, running, flagOf, holder, receivers, ready, next, got, taken, slots>>
  BY DEF Wake, objectVars, nextVars
<1>2. /\ init'[t] = "load" /\ \A s \in Task : s # t => init'[s] = init[s]
      /\ \A s \in Task : Superseded(s)' <=> Superseded(s)
      /\ \A s \in Task : (Latest(s)' <=> Latest(s)) /\ (Latest(s) <=> s = t)
      /\ Alone' /\ Results' /\ ~Superseded(t)
      /\ \A s \in Task : s # t => init[s] \in {"unsent", "returned"}
      /\ \A s \in Task : s < t => Superseded(s)
  BY <1>1, InitMoves, TheLatest DEF InitPlace, Orderly
<1>3. (\A w \in Logic : Standing(w)' = Standing(w)) /\ Waiting'
  BY <1>1, PreparingStanding
<1>4. /\ \A w \in Logic : w[1] \in Task
      /\ \A w \in Logic : logic'[w] = IF logic[w] = "asleep" THEN "woken" ELSE logic[w]
  BY <1>1, Workers, WokenKeeps
<1>5. ASSUME NEW w \in Logic PROVE logic'[w] \in Standing(w)
  <2>1. logic[w] \in Standing(w)
    BY DEF Orderly, Stand
  <2>2. CASE Superseded(w[1])
    BY <1>4, <2>1, <2>2 DEF Standing, Leaving
  <2>3. CASE ~Superseded(w[1])
    <3>1. w[1] = t \/ init[w[1]] = "unsent"
      BY <1>2, <1>4, <2>3, Numbers DEF Superseded, Begun, Latest
    <3>2. ready[w[1]] = 0 /\ init[w[1]] \in {"wake", "unsent"} /\ ~(w[2] <= 0)
      BY <1>1, <1>4, <3>1, Workers, Numbers DEF Always, Calls, Started
    <3>3. Standing(w) = {"none"}
      BY <2>3, <3>2 DEF Standing, InitStanding
    <3> QED BY <1>4, <2>1, <3>3
  <2> QED BY <2>2, <2>3
<1>6. Stand'
  BY <1>3, <1>5 DEF Stand
<1>7. OneLeft'
  <2>1. ASSUME NEW v \in Logic, logic'[v] \in Parked PROVE holder = v
    BY <1>4, <2>1 DEF Parked, Always, Mutex, Holding
  <2> QED BY <2>1 DEF OneLeft
<1>8. Flags'
  <2>1. ASSUME NEW w \in Logic, Superseded(w[1]), logic'[w] \in Leaving \ {"none", "exited"}
        PROVE  ~running[flagOf[w]]
    <3>1. logic[w] \in Leaving \ {"none", "exited"}
      BY <1>4, <2>1 DEF Leaving
    <3>2. ~\E s \in Task : init[s] = "cancel"
      BY <1>1, <1>2
    <3> QED BY <2>1, <3>1, <3>2 DEF Orderly, Flags
  <2> QED BY <1>1, <1>2, <1>4, <2>1 DEF Orderly, Flags, Started
<1> QED BY <1>2, <1>3, <1>6, <1>7, <1>8 DEF Orderly

\* The task, the matrices and the flag become those of the latest call.
LEMMA LoadFlagRaiseStep ==
  ASSUME Always, Orderly, NEW t \in Task, Load(t) \/ NewFlag(t) \/ Raise(t)
  PROVE  Orderly'
<1>1. PICK place \in {"flag", "raise", "spawn"} :
        /\ InitTo(t, place) /\ init[t] \in {"load", "flag", "raise"}
        /\ UNCHANGED <<logic, flagOf, holder, receivers, ready, next, got, taken, slots>>
        /\ \/ place = "flag" /\ init[t] = "load" /\ loaded' = t /\ UNCHANGED <<current, running>>
           \/ place = "raise" /\ init[t] = "flag" /\ current' = t /\ UNCHANGED <<loaded, running>>
           \/ /\ place = "spawn" /\ init[t] = "raise"
              /\ running' = [running EXCEPT ![current] = TRUE] /\ UNCHANGED <<loaded, current>>
  BY DEF Load, NewFlag, Raise, logicVars, nextVars
<1>2. /\ init'[t] = place /\ \A s \in Task : s # t => init'[s] = init[s]
      /\ \A s \in Task : Superseded(s)' <=> Superseded(s)
      /\ \A s \in Task : (Latest(s)' <=> Latest(s)) /\ (Latest(s) <=> s = t)
      /\ Alone' /\ Results'
      /\ \A s \in Task : s # t => init[s] \in {"unsent", "returned"}
  BY <1>1, InitMoves DEF InitPlace
<1>3. (\A w \in Logic : Standing(w)' = Standing(w)) /\ Waiting'
  BY <1>1, PreparingStanding
<1>4. Stand' /\ OneLeft'
  BY <1>1, <1>2, <1>3 DEF Orderly, Stand, OneLeft
<1>5. \A w \in Logic : w[1] \in Task
  BY Workers
<1>6. /\ place \in {"flag", "raise", "spawn"} => loaded' = t
      /\ place \in {"raise", "spawn"} => current' = t
      /\ place = "spawn" => running'[t]
  BY <1>1, <1>2 DEF Orderly, Flags, Started, Always, Types
<1>7. ASSUME NEW w \in Logic, Superseded(w[1]), logic[w] \in Leaving \ {"none", "exited"}
      PROVE  ~running'[flagOf[w]]
  <2>1. ~\E s \in Task : init[s] = "cancel"
    BY <1>1, <1>2
  <2>2. ~running[flagOf[w]]
    BY <1>7, <2>1 DEF Orderly, Flags
  <2>3. CASE running' = running
    BY <2>2, <2>3
  <2>4. CASE running' = [running EXCEPT ![current] = TRUE] /\ init[t] = "raise"
    <3>1. current = t /\ w[1] < t
      BY <1>2, <1>5, <1>7, <2>4, InitMoves, Numbers DEF Orderly, Flags, Started, Superseded,
         Latest, Begun
    <3>2. flagOf[w] # t
      BY <1>2, <3>1 DEF Orderly, Flags
    <3>3. flagOf[w] \in Task
      BY <1>7 DEF Always, Types, Fresh
    <3> QED BY <2>2, <2>4, <3>1, <3>2, <3>3 DEF Always, Types
  <2> QED BY <1>1, <2>3, <2>4
<1>8. Flags'
  BY <1>1, <1>2, <1>5, <1>6, <1>7 DEF Orderly, Flags, Started
<1> QED BY <1>2, <1>3, <1>4, <1>8 DEF Orderly

\* The worker that is started has the flag and the matrices of its task.
LEMMA SpawnStep ==
  ASSUME Always, Orderly, NEW t \in Task, Spawn(t)
  PROVE  Orderly'
<1> DEFINE n == <<t, ready[t] + 1>>
<1>1. /\ n \in Logic /\ n[1] = t /\ n[2] = ready[t] + 1
      /\ logic[n] = "none" /\ logic'[n] = "created" /\ flagOf'[n] = current
      /\ \A v \in Logic : v # n => logic'[v] = logic[v] /\ flagOf'[v] = flagOf[v]
      /\ init[t] = "spawn" /\ InitTo(t, "await")
  BY Spawned
<1>2. UNCHANGED <<current, loaded, running, receivers, ready, next, got, taken, slots>>
  BY DEF Spawn, objectVars, nextVars
<1> HIDE DEF n
<1>3. /\ init'[t] = "await" /\ \A s \in Task : s # t => init'[s] = init[s]
      /\ \A s \in Task : Superseded(s)' <=> Superseded(s)
      /\ \A s \in Task : (Latest(s)' <=> Latest(s)) /\ (Latest(s) <=> s = t)
      /\ Alone' /\ Results' /\ ~Superseded(t)
  <2>1. "await" \in InitPlace \ {"unsent"} /\ init[t] \notin {"unsent", "returned"}
    BY <1>1 DEF InitPlace
  <2> QED BY <1>1, <1>2, <2>1, InitMoves
<1>4. \A w \in Logic : w[1] \in Task /\ w = <<w[1], w[2]>>
  BY Workers
<1>5. ASSUME NEW w \in Logic PROVE logic'[w] \in Standing(w)'
  <2>1. logic[w] \in Standing(w)
    BY DEF Orderly, Stand
  <2>2. CASE w[1] # t
    <3>1. InitStanding(w)' = InitStanding(w)
      BY <1>2, <1>3, <1>4, <2>2 DEF InitStanding
    <3>2. Standing(w)' = Standing(w)
      BY <1>2, <1>3, <1>4, <2>2, <3>1 DEF Standing
    <3> QED BY <1>1, <2>1, <2>2, <3>2
  <2>3. CASE w[1] = t
    <3>1. /\ Standing(w) = IF w[2] <= ready[t] THEN Parked ELSE {"none"}
          /\ Standing(w)' = IF w[2] <= ready[t] THEN Parked
                            ELSE IF w[2] = ready[t] + 1 THEN {"created", "greeting"} ELSE {"none"}
      BY <1>1, <1>2, <1>3, <2>3 DEF Standing, InitStanding
    <3>2. CASE w = n
      <4>1. ~(w[2] <= ready[t])
        BY <1>1, <3>2, Numbers DEF Always, Types
      <4> QED BY <1>1, <3>1, <3>2, <4>1
    <3>3. CASE w # n
      <4>1. w[2] # ready[t] + 1
        BY <1>1, <1>4, <2>3, <3>3 DEF n
      <4> QED BY <1>1, <2>1, <3>1, <3>3, <4>1
    <3> QED BY <3>2, <3>3
  <2> QED BY <2>2, <2>3
<1>6. Stand'
  BY <1>5 DEF Stand
<1>7. Waiting'
  BY <1>1, <1>2, <1>3 DEF Orderly, Waiting
<1>8. OneLeft'
  BY <1>1, <1>3 DEF Orderly, OneLeft, Parked
<1>9. Flags'
  <2>1. current = t
    BY <1>1, <1>3 DEF Orderly, Flags, Started
  <2>2. ASSUME NEW w \in Logic, Superseded(w[1]), logic'[w] \in Leaving \ {"none", "exited"}
        PROVE  ~running[flagOf'[w]]
    <3>1. w # n /\ ~\E s \in Task : init[s] = "cancel"
      BY <1>1, <1>3, <2>2, InitMoves, Numbers DEF InitPlace, Orderly, Alone, Latest, Begun
    <3> QED BY <1>1, <2>2, <3>1 DEF Orderly, Flags
  <2>3. \A s \in Task : Latest(s) =>
          /\ init'[s] \in Started \cup {"flag", "raise"} => loaded = s
          /\ init'[s] \in Started \cup {"raise"} => current = s
          /\ init'[s] \in Started => running[s]
    BY <1>1, <1>3 DEF Orderly, Flags, Started
  <2>4. \A w \in Logic : (w[1] = t => flagOf'[w] \in {t, NoTask}) /\ (w[1] < t => flagOf'[w] # t)
    BY <1>1, <1>3, <2>1, Numbers DEF Orderly, Flags
  <2> QED BY <1>2, <1>3, <1>4, <2>2, <2>3, <2>4 DEF Flags
<1> QED BY <1>3, <1>6, <1>7, <1>8, <1>9 DEF Orderly

\* Init is the only receiver.
LEMMA AwaitStep ==
  ASSUME Always, Orderly, NEW t \in Task, Await(t)
  PROVE  Orderly'
<1>1. /\ init[t] = "await" /\ InitTo(t, "receiving") /\ receivers' = Append(receivers, <<"Init", t>>)
      /\ UNCHANGED <<current, loaded, running, logic, flagOf, ready, next, got, taken, slots>>
  BY DEF Await, objectVars, logicVars, nextVars
<1>2. /\ init'[t] = "receiving" /\ \A s \in Task : s # t => init'[s] = init[s]
      /\ \A s \in Task : s # t => init[s] \in {"unsent", "returned"}
      /\ \A s \in Task : next[s] = "idle"
      /\ \A s \in Task : Superseded(s)' <=> Superseded(s)
      /\ \A s \in Task : (Latest(s)' <=> Latest(s)) /\ (Latest(s) <=> s = t)
      /\ Alone' /\ Results'
  <2>1. "receiving" \in InitPlace \ {"unsent"} /\ init[t] \notin {"unsent", "returned"}
    BY <1>1 DEF InitPlace
  <2> QED BY <1>1, <2>1, InitMoves
<1>3. \A w \in Logic : w[1] \in Task
  BY Workers
<1>4. Stand'
  <2>1. \A w \in Logic : InitStanding(w)' = InitStanding(w)
    BY <1>1, <1>2, <1>3 DEF InitStanding
  <2>2. \A w \in Logic : Standing(w)' = Standing(w)
    BY <1>1, <1>2, <1>3, <2>1 DEF Standing
  <2> QED BY <1>1, <2>2 DEF Orderly, Stand
<1>5. Waiting'
  <2>1. receivers = <<>>
    BY <1>1, <1>2 DEF Orderly, Waiting
  <2>2. receivers' = <<<<"Init", t>>>>
    BY <1>1, <2>1
  <2>3. \A s \in Task : next'[s] = "idle"
    BY <1>1, <1>2
  <2> QED BY <1>2, <2>2, <2>3 DEF Waiting
<1>6. OneLeft'
  BY <1>1, <1>2 DEF Orderly, OneLeft
<1>7. Flags'
  BY <1>1, <1>2, <1>3 DEF Orderly, Flags, Started
<1> QED BY <1>2, <1>4, <1>5, <1>6, <1>7 DEF Orderly

------------------------------------------------------------------------------
(* Steps of Next *)

\* A Next goes on, or begins: it is that of the latest task, and the others stay.
LEMMA NextMoves ==
  ASSUME Always, Orderly, NEW t \in Task, NEW place \in NextPlace,
         next[t] # "idle" \/ (Latest(t) /\ init[t] = "returned"), NextTo(t, place),
         UNCHANGED <<init, ready>>
  PROVE  /\ next'[t] = place /\ \A s \in Task : s # t => next'[s] = next[s]
         /\ init[t] = "returned" /\ Begun(t) /\ Latest(t) /\ ~Superseded(t)
         /\ \A s \in Task : s # t => next[s] = "idle" /\ init[s] \in {"unsent", "returned"}
         /\ \A s \in Task : Superseded(s)' <=> Superseded(s)
         /\ \A s \in Task : (Latest(s)' <=> Latest(s)) /\ (Latest(s) <=> s = t)
         /\ loaded = t /\ current = t /\ running[t] /\ ready[t] = Size[t]
         /\ Alone'
         /\ \A w \in Logic : w[1] # t => Standing(w)' = Standing(w)
<1>1. next'[t] = place /\ \A s \in Task : s # t => next'[s] = next[s]
  BY Moved
<1>2. init[t] = "returned" /\ Begun(t) /\ (Busy(t) \/ Latest(t))
  BY DEF Begun, Busy, Always, Calls
<1>3. /\ Latest(t) /\ ~Superseded(t)
      /\ \A s \in Task : s < t => init[s] = "returned" /\ next[s] = "idle" /\ Superseded(s)
      /\ \A s \in Task : s > t => init[s] = "unsent" /\ next[s] = "idle"
      /\ \A s \in Task : Latest(s) <=> s = t
  BY <1>2, TheLatest DEF Orderly
<1>4. /\ \A s \in Task : Superseded(s)' <=> Superseded(s)
      /\ \A s \in Task : Latest(s)' <=> Latest(s)
      /\ \A s \in Task : Begun(s)' <=> Begun(s)
  BY DEF Superseded, Latest, Begun
<1>5. loaded = t /\ current = t /\ running[t] /\ ready[t] = Size[t]
  BY <1>2, <1>3 DEF Orderly, Flags, Started, Always, Calls
<1>6. Alone'
  BY <1>1, <1>3, <1>4 DEF Orderly, Alone, Latest, Begun
<1>7. ASSUME NEW w \in Logic, w[1] # t PROVE Standing(w)' = Standing(w)
  <2>1. w[1] \in Task
    BY Workers
  <2>2. w[1] < t => Superseded(w[1])
    BY <1>3, <2>1
  <2>3. w[1] > t => init[w[1]] = "unsent"
    BY <1>3, <2>1
  <2>4. InitStanding(w)' = InitStanding(w)
    BY DEF InitStanding
  <2> QED BY <1>4, <1>7, <2>1, <2>2, <2>3, <2>4, Numbers DEF Standing
<1> QED BY <1>1, <1>2, <1>3, <1>4, <1>5, <1>6, <1>7, Numbers

\* Where the workers of the latest task stand.
LEMMA TeamStands ==
  ASSUME Always, Orderly, NEW w \in Logic, ~Superseded(w[1]), init[w[1]] = "returned"
  PROVE  logic[w] \in IF next[w[1]] \in {"counting", "receiving"} /\ w \notin got[w[1]]
                      THEN Turning ELSE Parked
BY DEF Orderly, Stand, Standing

\* A Next that moves while the workers stay where they are.
LEMMA NextMovesOnly ==
  ASSUME Always, Orderly, NEW t \in Task, NEW place \in NextPlace,
         next[t] # "idle" \/ (Latest(t) /\ init[t] = "returned"), NextTo(t, place),
         UNCHANGED <<current, loaded, running, logic, flagOf, init, ready>>,
         \A w \in Team(t) : Standing(w)' = Standing(w),
         Waiting', Results'
  PROVE  Orderly'
<1>1. /\ \A s \in Task : Superseded(s)' <=> Superseded(s)
      /\ \A s \in Task : Latest(s)' <=> Latest(s)
      /\ Alone' /\ \A w \in Logic : w[1] # t => Standing(w)' = Standing(w)
  BY NextMoves
<1>2. Stand'
  BY <1>1 DEF Orderly, Stand, Team
<1>3. Flags'
  BY <1>1, Workers DEF Orderly, Flags
<1>4. OneLeft'
  BY <1>1 DEF Orderly, OneLeft
<1> QED BY <1>1, <1>2, <1>3, <1>4 DEF Orderly

\* Next begins when the workers wait.
LEMMA SendNextStep ==
  ASSUME Always, Orderly, NEW t \in Task, SendNext(t)
  PROVE  Orderly'
<1>1. /\ Latest(t) /\ init[t] = "returned" /\ next[t] = "idle" /\ NextTo(t, "broadcast")
      /\ UNCHANGED <<current, loaded, running, logic, flagOf, receivers, init, ready, got, taken, slots>>
  BY DEF SendNext, NextTo, objectVars, logicVars, initVars
<1>2. "broadcast" \in NextPlace
  BY DEF NextPlace
<1>3. /\ next'[t] = "broadcast" /\ \A s \in Task : s # t => next'[s] = next[s]
      /\ ~Superseded(t) /\ \A s \in Task : Superseded(s)' <=> Superseded(s)
      /\ \A s \in Task : Latest(s)' <=> Latest(s)
  BY <1>1, <1>2, NextMoves
<1>4. \A w \in Team(t) : Standing(w)' = Standing(w)
  BY <1>1, <1>3 DEF Team, Standing
<1>5. Waiting' /\ Results'
  BY <1>1, <1>3 DEF Orderly, Waiting, Results
<1> QED BY <1>1, <1>2, <1>4, <1>5, NextMovesOnly

\* With the mutex nobody is between its send and its wait: the whole team is woken.
LEMMA BroadcastStep ==
  ASSUME Always, Orderly, NEW t \in Task, Broadcast(t)
  PROVE  Orderly'
<1>1. /\ next[t] = "broadcast" /\ NextTo(t, "counting") /\ logic' = Woken /\ holder = Nobody
      /\ slots' = [slots EXCEPT ![t] = Size[loaded]] /\ holder' = holder
      /\ UNCHANGED <<current, loaded, running, flagOf, receivers, init, ready, got, taken>>
  BY DEF Broadcast, objectVars, initVars
<1>2. "counting" \in NextPlace
  BY DEF NextPlace
<1>3. /\ next'[t] = "counting" /\ \A s \in Task : s # t => next'[s] = next[s]
      /\ init[t] = "returned" /\ ~Superseded(t) /\ loaded = t
      /\ \A s \in Task : s # t => next[s] = "idle" /\ init[s] \in {"unsent", "returned"}
      /\ \A s \in Task : Superseded(s)' <=> Superseded(s)
      /\ \A s \in Task : Latest(s)' <=> Latest(s)
      /\ Alone' /\ \A w \in Logic : w[1] # t => Standing(w)' = Standing(w)
  BY <1>1, <1>2, NextMoves
<1>4. \A w \in Logic : logic'[w] = IF logic[w] = "asleep" THEN "woken" ELSE logic[w]
  BY <1>1, WokenKeeps
<1>5. \A w \in Logic : logic[w] # "parking" /\ w[1] \in Task
  BY <1>1, Workers DEF Always, Mutex, Holding
<1>6. ASSUME NEW w \in Logic PROVE logic'[w] \in Standing(w)'
  <2>1. CASE w[1] = t
    <3>1. logic[w] = "asleep" /\ got[t] = {}
      BY <1>1, <1>3, <1>5, <2>1, TeamStands DEF Parked, Always, Calls
    <3>2. Standing(w)' = Turning
      BY <1>1, <1>3, <2>1, <3>1 DEF Standing
    <3> QED BY <1>4, <3>1, <3>2 DEF Turning
  <2>2. CASE w[1] # t
    <3>1. logic[w] \in Standing(w) /\ Standing(w)' = Standing(w)
      BY <1>3, <2>2 DEF Orderly, Stand
    <3>2. Superseded(w[1]) \/ init[w[1]] = "unsent"
      BY <1>3, <1>5, <2>2, Numbers DEF Superseded, Begun, Latest
    <3>3. CASE Superseded(w[1])
      BY <1>4, <3>1, <3>3 DEF Standing, Leaving
    <3>4. CASE ~Superseded(w[1]) /\ init[w[1]] = "unsent"
      <4>1. ready[w[1]] = 0 /\ ~(w[2] <= 0)
        BY <1>5, <3>4, Workers, Numbers DEF Always, Calls, Started
      <4>2. Standing(w) = {"none"}
        BY <3>4, <4>1 DEF Standing, InitStanding
      <4> QED BY <1>4, <3>1, <4>2
    <3> QED BY <3>2, <3>3, <3>4
  <2> QED BY <2>1, <2>2
<1>7. Stand'
  BY <1>6 DEF Stand
<1>8. Waiting'
  BY <1>1, <1>3 DEF Orderly, Waiting
<1>9. Results'
  <2>1. slots'[t] = Size[t] /\ \A s \in Task : s # t => slots'[s] = slots[s]
    BY <1>1, <1>3 DEF Always, Types
  <2> QED BY <1>1, <1>3, <2>1 DEF Orderly, Results
<1>10. OneLeft'
  BY <1>4, <1>5 DEF OneLeft, Parked
<1>11. Flags'
  <2>1. ASSUME NEW w \in Logic, Superseded(w[1]), logic'[w] \in Leaving \ {"none", "exited"}
        PROVE  ~running[flagOf[w]]
    <3>1. logic[w] \in Leaving \ {"none", "exited"} /\ ~\E s \in Task : init[s] = "cancel"
      BY <1>3, <1>4, <2>1 DEF Leaving
    <3> QED BY <2>1, <3>1 DEF Orderly, Flags
  <2> QED BY <1>1, <1>3, <1>5, <2>1 DEF Orderly, Flags
<1> QED BY <1>3, <1>7, <1>8, <1>9, <1>10, <1>11 DEF Orderly

\* Next waits exactly when a result of its team is missing.
LEMMA CountStep ==
  ASSUME Always, Orderly, NEW t \in Task, Count(t)
  PROVE  Orderly'
<1> DEFINE place == IF taken[t] = Size[loaded] THEN "merge" ELSE "receiving"
<1>1. /\ next[t] = "counting" /\ NextTo(t, place)
      /\ receivers' = IF taken[t] = Size[loaded] THEN receivers ELSE Append(receivers, <<"Next", t>>)
      /\ UNCHANGED <<current, loaded, running, logic, flagOf, init, ready, got, taken, slots>>
  BY DEF Count, objectVars, logicVars, initVars
<1>2. place \in NextPlace
  BY DEF NextPlace
<1>3. /\ next'[t] = place /\ \A s \in Task : s # t => next'[s] = next[s]
      /\ init[t] = "returned" /\ ~Superseded(t) /\ loaded = t
      /\ \A s \in Task : s # t => next[s] = "idle" /\ init[s] \in {"unsent", "returned"}
      /\ \A s \in Task : Superseded(s)' <=> Superseded(s)
      /\ \A s \in Task : (Latest(s)' <=> Latest(s)) /\ (Latest(s) <=> s = t)
  BY <1>1, <1>2, NextMoves
<1>4. taken[t] = Size[t] <=> got[t] = Team(t)
  <2>1. got[t] \subseteq Team(t) /\ taken[t] = Cardinality(got[t])
    BY DEF Orderly, Results
  <2>2. IsFiniteSet(Team(t)) /\ Cardinality(Team(t)) = Size[t]
    BY TeamSize
  <2>3. Cardinality(Team(t)) = Cardinality(got[t]) => Team(t) = got[t]
    BY <2>1, <2>2, FS_Subset
  <2> QED BY <2>1, <2>2, <2>3
<1>5. \A w \in Team(t) : Standing(w)' = Standing(w)
  <2> TAKE w \in Team(t)
  <2>1. w[1] = t
    BY DEF Team
  <2>2. place = "merge" => w \in got[t]
    BY <1>3, <1>4
  <2>3. place \in {"merge", "receiving"}
    OBVIOUS
  <2> HIDE DEF place
  <2> QED BY <1>1, <1>3, <2>1, <2>2, <2>3 DEF Standing
<1>6. Results'
  <2>1. place = "merge" => got[t] = Team(t)
    BY <1>3, <1>4
  <2>2. place = "receiving" => got[t] # Team(t)
    BY <1>3, <1>4
  <2>3. slots[t] = Size[t] /\ place \in {"merge", "receiving"}
    BY <1>1 DEF Orderly, Results
  <2> HIDE DEF place
  <2> QED BY <1>1, <1>3, <2>1, <2>2, <2>3 DEF Orderly, Results
<1>7. Waiting'
  <2>1. receivers = <<>>
    BY <1>1, <1>3 DEF Orderly, Waiting
  <2>2. place = "receiving" => receivers' = <<<<"Next", t>>>>
    BY <1>1, <2>1
  <2>3. place # "receiving" => place = "merge" /\ receivers' = <<>>
    BY <1>1, <2>1
  <2> HIDE DEF place
  <2> QED BY <1>1, <1>3, <2>2, <2>3 DEF Waiting
<1> HIDE DEF place
<1> QED BY <1>1, <1>2, <1>5, <1>6, <1>7, NextMovesOnly

\* Next returns and leaves its workers as they are.
LEMMA MergeStep ==
  ASSUME Always, Orderly, NEW t \in Task, Merge(t)
  PROVE  Orderly'
<1>1. /\ next[t] = "merge" /\ NextTo(t, "idle")
      /\ got' = [got EXCEPT ![t] = {}] /\ taken' = [taken EXCEPT ![t] = 0]
      /\ slots' = [slots EXCEPT ![t] = 0]
      /\ UNCHANGED <<current, loaded, running, logic, flagOf, receivers, init, ready>>
  BY DEF Merge, logicVars, initVars
<1>2. "idle" \in NextPlace
  BY DEF NextPlace
<1>3. /\ next'[t] = "idle" /\ \A s \in Task : s # t => next'[s] = next[s]
      /\ init[t] = "returned" /\ ~Superseded(t)
      /\ \A s \in Task : Superseded(s)' <=> Superseded(s)
      /\ \A s \in Task : Latest(s)' <=> Latest(s)
  BY <1>1, <1>2, NextMoves
<1>4. \A w \in Team(t) : Standing(w)' = Standing(w)
  BY <1>1, <1>3 DEF Team, Standing
<1>5. Waiting'
  BY <1>1, <1>3 DEF Orderly, Waiting
<1>6. Results'
  <2>1. got'[t] = {} /\ taken'[t] = Cardinality({}) /\ {} \subseteq Team(t)
    BY <1>1, FS_EmptySet DEF Always, Types
  <2>2. \A s \in Task : s # t => got'[s] = got[s] /\ taken'[s] = taken[s] /\ slots'[s] = slots[s]
    BY <1>1 DEF Always, Types
  <2> QED BY <1>3, <2>1, <2>2 DEF Orderly, Results
<1> QED BY <1>1, <1>2, <1>4, <1>5, <1>6, NextMovesOnly

------------------------------------------------------------------------------
(* The result of a worker, and a new Init *)

\* The result of a worker goes to the one call that waits: its own task's.
LEMMA SendCases ==
  ASSUME Always, Orderly, NEW w \in Logic, Send(w)
  PROVE  LET t == w[1] IN
         /\ t \in Task /\ w \in Team(t) /\ ~Superseded(t) /\ Latest(t)
         /\ receivers' = <<>> /\ logic[w] # "parking" /\ logic'[w] = "parking"
         /\ \/ /\ w[2] = ready[t] + 1 /\ init[t] = "receiving" /\ TakenByInit(t)
            \/ /\ w \notin got[t] /\ init[t] = "returned" /\ next[t] = "receiving"
               /\ TakenByNext(t, w)
<1> DEFINE t == w[1]
<1>1. t \in Task /\ w \in Team(t) /\ t = w[1]
  BY Workers DEF Team
<1> HIDE DEF t
<1>2. /\ logic[w] \in {"greeting", "reporting"} /\ logic'[w] = "parking"
      /\ logic[w] \in Standing(w)
  BY DEF Send, Sending, LogicTo, Always, Types, Orderly, Stand
<1>3. ~Superseded(t) /\ Begun(t) /\ init[t] # "unsent"
  <2>1. ~Superseded(t) /\ Standing(w) # {"none"}
    BY <1>1, <1>2 DEF Standing, Leaving
  <2>2. init[t] = "unsent" => ready[t] = 0 /\ ~(w[2] <= 0)
    BY <1>1, Workers, Numbers DEF Always, Calls, Started
  <2>3. init[t] # "unsent"
    BY <1>1, <2>1, <2>2 DEF Standing, InitStanding
  <2> QED BY <2>1, <2>3 DEF Begun
<1>4. Latest(t)
  BY <1>3 DEF Latest, Superseded, Begun
<1>5. PICK s \in Task :
        \/ Head(receivers) = <<"Init", s>> /\ init[s] = "receiving" /\ TakenByInit(s)
        \/ Head(receivers) = <<"Next", s>> /\ next[s] = "receiving" /\ TakenByNext(s, w)
  BY SendTaken
<1>6. s = t
  <2>1. Begun(s) /\ Busy(s)
    BY <1>5 DEF Begun, Busy, Initialising, Always, Calls
  <2> QED BY <1>1, <1>4, <2>1, TheLatest DEF Orderly
<1>7. receivers = <<<<"Init", t>>>> \/ receivers = <<<<"Next", t>>>>
  BY <1>5, <1>6 DEF Orderly, Waiting
<1>8. receivers' = <<>>
  BY <1>7 DEF Send
<1>9. CASE init[t] = "receiving"
  <2>1. next[t] = "idle"
    BY <1>1, <1>9 DEF Always, Calls
  <2>2. w[2] = ready[t] + 1
    BY <1>1, <1>2, <1>3, <1>9 DEF Standing, InitStanding, Parked
  <2> QED BY <1>1, <1>2, <1>3, <1>4, <1>5, <1>6, <1>8, <1>9, <2>1, <2>2
<1>10. CASE init[t] # "receiving"
  <2>1. next[t] = "receiving" /\ TakenByNext(t, w) /\ init[t] = "returned"
    BY <1>1, <1>5, <1>6, <1>10 DEF Always, Calls
  <2>2. w \notin got[t]
    BY <1>1, <1>2, <1>3, <2>1, TeamStands DEF Orderly, Parked
  <2> QED BY <1>1, <1>2, <1>3, <1>4, <1>8, <2>1, <2>2
<1> QED BY <1>9, <1>10

\* Init takes the readiness of the worker it started: it starts the next, or returns.
LEMMA GreetingStep ==
  ASSUME Always, Orderly, NEW w \in Logic, Send(w), init[w[1]] = "receiving"
  PROVE  Orderly'
<1> DEFINE t     == w[1]
           place == IF ready'[t] = Size[t] THEN "returned" ELSE "spawn"
<1>1. /\ t \in Task /\ t = w[1] /\ w[2] = ready[t] + 1 /\ init[t] = "receiving" /\ TakenByInit(t)
      /\ receivers' = <<>> /\ logic'[w] = "parking" /\ logic[w] # "parking"
  BY SendCases
<1>2. /\ \A v \in Logic : v # w => logic'[v] = logic[v]
      /\ UNCHANGED <<current, loaded, running, flagOf>>
  BY WorkerSteps DEF LogicSteps
<1>3. InitTo(t, place) /\ place \in InitPlace \ {"unsent"} /\ place \in {"returned", "spawn"}
  BY <1>1 DEF TakenByInit, InitPlace
<1>4. UNCHANGED <<next, got, taken, slots>> /\ ready'[t] = ready[t] + 1
      /\ \A s \in Task : s # t => ready'[s] = ready[s]
  BY <1>1 DEF TakenByInit, nextVars, Always, Types
<1> HIDE DEF t
<1>5. /\ init'[t] = place /\ \A s \in Task : s # t => init'[s] = init[s]
      /\ next[t] = "idle" /\ \A s \in Task : s # t => init[s] \in {"unsent", "returned"} /\ next[s] = "idle"
      /\ \A s \in Task : Superseded(s)' <=> Superseded(s)
      /\ \A s \in Task : (Latest(s)' <=> Latest(s)) /\ (Latest(s) <=> s = t)
      /\ Alone' /\ Results' /\ ~Superseded(t)
  <2> HIDE DEF place
  <2> QED BY <1>1, <1>3, <1>4, InitMoves
<1>6. /\ ready[t] \in Nat /\ \A v \in Logic : v[1] \in Task /\ v[2] \in 1..Size[v[1]] /\ v = <<v[1], v[2]>>
      /\ Size[t] \in Nat
  BY <1>1, Workers, Numbers DEF Always, Types
<1>7. \A v \in Logic : v[1] = t /\ v # w => v[2] # ready[t] + 1
  BY <1>1, <1>6
<1>8. ready[t] < Size[t] /\ (place = "returned" => ready[t] + 1 = Size[t])
  BY <1>1, <1>4 DEF Always, Calls
<1> HIDE DEF place
<1>9. ASSUME NEW v \in Logic PROVE logic'[v] \in Standing(v)'
  <2>1. logic[v] \in Standing(v)
    BY DEF Orderly, Stand
  <2>2. CASE v[1] # t
    <3>1. InitStanding(v)' = InitStanding(v)
      BY <1>4, <1>5, <1>6, <2>2 DEF InitStanding
    <3>2. Standing(v)' = Standing(v)
      BY <1>4, <1>5, <1>6, <2>2, <3>1 DEF Standing
    <3> QED BY <1>1, <1>2, <2>1, <2>2, <3>2
  <2>3. CASE v[1] = t
    <3>1. v[2] \in Nat /\ (place = "returned" => v[2] <= ready[t] + 1)
      BY <1>6, <1>8, <2>3
    <3>2. Standing(v)' = IF v[2] <= ready[t] + 1 THEN Parked ELSE {"none"}
      <4>1. CASE place = "returned"
        BY <1>1, <1>4, <1>5, <2>3, <3>1, <4>1 DEF Standing
      <4>2. CASE place = "spawn"
        BY <1>1, <1>4, <1>5, <2>3, <3>1, <4>2 DEF Standing, InitStanding
      <4> QED BY <1>3, <4>1, <4>2
    <3>3. CASE v = w
      BY <1>1, <1>6, <3>2, <3>3 DEF Parked
    <3>4. CASE v # w
      <4>1. logic[v] \in IF v[2] <= ready[t] THEN Parked ELSE {"none"}
        BY <1>1, <1>5, <1>7, <2>1, <2>3, <3>4 DEF Standing, InitStanding
      <4> QED BY <1>2, <1>6, <1>7, <2>3, <3>1, <3>2, <3>4, <4>1
    <3> QED BY <3>3, <3>4
  <2> QED BY <2>2, <2>3
<1>10. Stand'
  BY <1>9 DEF Stand
<1>11. Waiting'
  <2>1. \A s \in Task : init'[s] # "receiving" /\ next'[s] # "receiving"
    BY <1>3, <1>4, <1>5
  <2> QED BY <1>1, <2>1 DEF Waiting
<1>12. OneLeft'
  BY <1>1, <1>2, <1>5, <1>6, Numbers DEF Orderly, OneLeft
<1>13. Flags'
  <2>1. /\ loaded = t /\ current = t /\ running[t] /\ init[t] # "cancel" /\ ~Superseded(w[1])
    BY <1>1, <1>5 DEF Orderly, Flags, Started
  <2> QED BY <1>1, <1>2, <1>5, <1>6, <2>1 DEF Orderly, Flags
<1> QED BY <1>5, <1>10, <1>11, <1>12, <1>13 DEF Orderly

\* Next takes the result of a worker of its own team that it has not had.
LEMMA ReportStep ==
  ASSUME Always, Orderly, NEW w \in Logic, Send(w), init[w[1]] # "receiving"
  PROVE  Orderly'
<1> DEFINE t == w[1]
<1>1. /\ t \in Task /\ t = w[1] /\ w \in Team(t) /\ w \notin got[t] /\ next[t] = "receiving"
      /\ init[t] = "returned" /\ TakenByNext(t, w) /\ Latest(t) /\ ~Superseded(t)
      /\ receivers' = <<>> /\ logic'[w] = "parking"
  BY SendCases
<1>2. /\ \A v \in Logic : v # w => logic'[v] = logic[v]
      /\ UNCHANGED <<current, loaded, running, flagOf>>
  BY WorkerSteps DEF LogicSteps
<1>3. /\ NextTo(t, "counting") /\ UNCHANGED <<init, ready, slots>> /\ "counting" \in NextPlace
      /\ got' = [got EXCEPT ![t] = @ \cup {w}] /\ taken' = [taken EXCEPT ![t] = @ + 1]
  BY <1>1 DEF TakenByNext, initVars, NextPlace
<1> HIDE DEF t
<1>4. /\ next'[t] = "counting" /\ \A s \in Task : s # t => next'[s] = next[s]
      /\ \A s \in Task : s # t => next[s] = "idle" /\ init[s] \in {"unsent", "returned"}
      /\ \A s \in Task : Superseded(s)' <=> Superseded(s)
      /\ \A s \in Task : (Latest(s)' <=> Latest(s)) /\ (Latest(s) <=> s = t)
      /\ Alone' /\ \A v \in Logic : v[1] # t => Standing(v)' = Standing(v)
  BY <1>1, <1>3, NextMoves
<1>5. /\ got'[t] = got[t] \cup {w} /\ taken'[t] = taken[t] + 1
      /\ \A s \in Task : s # t => got'[s] = got[s] /\ taken'[s] = taken[s]
  BY <1>1, <1>3 DEF Always, Types
<1>6. ASSUME NEW v \in Logic PROVE logic'[v] \in Standing(v)'
  <2>1. CASE v[1] # t
    BY <1>1, <1>2, <1>4, <2>1 DEF Orderly, Stand
  <2>2. CASE v[1] = t
    <3>1. Standing(v)' = IF v \notin got'[t] THEN Turning ELSE Parked
      BY <1>1, <1>3, <1>4, <2>2 DEF Standing
    <3>2. logic[v] \in IF v \notin got[t] THEN Turning ELSE Parked
      BY <1>1, <2>2, TeamStands
    <3>3. CASE v = w
      BY <1>1, <1>5, <3>1, <3>3 DEF Parked
    <3>4. CASE v # w
      BY <1>2, <1>5, <3>1, <3>2, <3>4
    <3> QED BY <3>3, <3>4
  <2> QED BY <2>1, <2>2
<1>7. Stand'
  BY <1>6 DEF Stand
<1>8. Results'
  <2>1. /\ got[t] \subseteq Team(t) /\ taken[t] = Cardinality(got[t]) /\ slots[t] = Size[t]
    BY <1>1 DEF Orderly, Results
  <2>2. IsFiniteSet(got[t])
    BY <1>1, <2>1, TeamSize, FS_Subset
  <2>3. Cardinality(got[t] \cup {w}) = Cardinality(got[t]) + 1
    BY <1>1, <2>2, FS_AddElement
  <2>4. got'[t] \subseteq Team(t) /\ taken'[t] = Cardinality(got'[t]) /\ slots'[t] = Size[t]
    BY <1>1, <1>3, <1>5, <2>1, <2>3
  <2> QED BY <1>3, <1>4, <1>5, <2>4 DEF Orderly, Results
<1>9. Waiting'
  <2>1. \A s \in Task : init'[s] # "receiving" /\ next'[s] # "receiving"
    BY <1>1, <1>3, <1>4
  <2> QED BY <1>1, <2>1 DEF Waiting
<1>10. \A v \in Logic : v[1] \in Task
  BY Workers
<1>11. OneLeft'
  BY <1>1, <1>2, <1>3, <1>4, <1>10, Numbers DEF Orderly, OneLeft
<1>12. Flags'
  BY <1>1, <1>2, <1>3, <1>4, <1>10 DEF Orderly, Flags
<1> QED BY <1>4, <1>7, <1>8, <1>9, <1>11, <1>12 DEF Orderly

\* An Init that comes to a node at rest finds the order again, whatever was before.
LEMMA SendInitStep ==
  ASSUME Always, NEW t \in Task, SendInit(t), AtRest
  PROVE  Orderly'
<1>1. /\ init[t] = "unsent" /\ init'[t] = "cancel" /\ \A s \in Task : s # t => init'[s] = init[s]
      /\ UNCHANGED <<current, loaded, running, logic, flagOf, receivers, ready, next, got, taken, slots>>
  BY DEF SendInit, objectVars, logicVars, nextVars, Always, Types
<1>2. /\ \A s \in Task : s < t => init[s] # "unsent"
      /\ \A s \in Task : init[s] \in {"unsent", "returned"} /\ next[s] = "idle"
  <2>1. \A s \in Task : s < t => s \in 1..t - 1
    BY NodeAssumption DEF Task
  <2> QED BY <2>1 DEF SendInit, AtRest, Busy, Initialising
<1>3. \A s \in Task : s > t => init[s] = "unsent"
  BY <1>1 DEF Always, Order, Begun
<1>4. /\ \A s \in Task : s < t => init'[s] = "returned" /\ Superseded(s)'
      /\ \A s \in Task : s > t => init'[s] = "unsent"
      /\ ~Superseded(t)' /\ \A s \in Task : (Latest(s)' <=> s = t)
  BY <1>1, <1>2, <1>3, Numbers DEF Superseded, Latest, Begun
<1>5. \A w \in Logic : w[1] \in Task /\ w[2] \in Nat /\ w[2] > 0
  BY Workers, Numbers
<1>6. \A w \in Logic : ~(w[1] < t) => logic[w] = "none" /\ Standing(w)' = {"none"}
  <2> TAKE w \in Logic
  <2> SUFFICES ASSUME ~(w[1] < t) PROVE logic[w] = "none" /\ Standing(w)' = {"none"}
    OBVIOUS
  <2>1. /\ init[w[1]] = "unsent" /\ ready[w[1]] = 0 /\ init'[w[1]] \in {"unsent", "cancel"}
        /\ ~(w[2] <= 0)
    BY <1>1, <1>3, <1>5, Numbers DEF Always, Calls, Started
  <2>2. ~Superseded(w[1])'
    BY <1>4, <1>5, Numbers DEF Superseded, Begun
  <2>3. logic[w] = "none"
    BY <2>1 DEF Always, Fresh
  <2>4. Standing(w)' = {"none"}
    BY <1>1, <2>1, <2>2 DEF Standing, InitStanding
  <2> QED BY <2>3, <2>4
<1>7. \A w \in Logic : w[1] < t => logic[w] \in Leaving /\ Standing(w)' = Leaving
  BY <1>4, <1>5 DEF AtRest, Leaving, Parked, Standing
<1>8. Alone'
  BY <1>1, <1>2, <1>4, Numbers DEF Alone, Begun
<1>9. Stand'
  BY <1>1, <1>6, <1>7 DEF Stand
<1>10. receivers = <<>>
  <2>1. Len(receivers) \in Nat /\ receivers \in Seq({"Init", "Next"} \X Task)
    BY LenProperties DEF Always, Types
  <2>2. ASSUME receivers # <<>> PROVE FALSE
    <3>1. 1 \in 1..Len(receivers)
      BY <2>1, <2>2, EmptySeq
    <3>2. receivers[1] \in {"Init", "Next"} \X Task
      BY <2>1, <3>1, ElementOfSeq
    <3> QED BY <1>2, <3>1, <3>2 DEF Always, Queue, Waits
  <2> QED BY <2>2
<1>11. Waiting'
  BY <1>1, <1>2, <1>10 DEF Waiting
<1>12. OneLeft'
  BY <1>1, <1>4 DEF OneLeft
<1>13. Results'
  BY <1>1, <1>2, FS_EmptySet DEF Results, Always, Calls
<1>14. Flags'
  <2>1. \A w \in Logic : flagOf[w] # t
    BY <1>1, Numbers DEF Always, Order, Begun
  <2>2. \A w \in Logic : w[1] = t => flagOf[w] = NoTask
    BY <1>6, Numbers DEF Always, Fresh
  <2>3. ASSUME NEW w \in Logic, logic[w] \in Leaving \ {"none", "exited"}, running[flagOf[w]]
        PROVE  flagOf[w] = current /\ logic[w] \in Parked /\ init'[t] = "cancel"
    BY <1>1, <2>3 DEF AtRest, Leaving, Parked
  <2> QED BY <1>1, <1>4, <2>1, <2>2, <2>3 DEF Flags, Started
<1> QED BY <1>8, <1>9, <1>11, <1>12, <1>13, <1>14 DEF Orderly

------------------------------------------------------------------------------
(* The theorems *)

\* Whether the node is tangled is decided when an Init is sent.
LEMMA TangledBySendInit ==
  ASSUME Always, [NodeNext]_nodeVars
  PROVE  (\E t \in Task : SendInit(t)) \/ tangled' = tangled
<1>1. ASSUME NEW w \in Logic, LogicSteps(w) PROVE tangled' = tangled
  BY <1>1, WorkerSteps DEF brokerVars
<1>2. ASSUME NEW t \in Task, InitSteps(t) PROVE tangled' = tangled
  BY <1>2 DEF InitSteps, Cancel, Wake, Load, NewFlag, Raise, Spawn, Await, brokerVars
<1>3. ASSUME NEW t \in Task, NextSteps(t) \/ SendNext(t) \/ GiveUp(t) PROVE tangled' = tangled
  BY <1>3 DEF NextSteps, Broadcast, Count, Merge, SendNext, GiveUp, brokerVars
<1>4. Kill \/ UNCHANGED nodeVars => tangled' = tangled
  BY DEF Kill, nodeVars, brokerVars
<1> QED BY <1>1, <1>2, <1>3, <1>4 DEF NodeNext, BrokerCalls, NodeSteps

\* Every step preserves the invariant.
LEMMA NodeStepInv ==
  ASSUME NodeInv, [NodeNext]_nodeVars
  PROVE  NodeInv'
<1>1. Always /\ Always'
  BY AlwaysStep DEF NodeInv
<1>2. ASSUME NEW t \in Task, SendInit(t), ~tangled' PROVE Orderly'
  <2>1. AtRest
    BY <1>2 DEF SendInit
  <2> QED BY <1>1, <1>2, <2>1, SendInitStep
<1>3. (\E t \in Task : SendInit(t)) \/ tangled' = tangled
  BY <1>1, TangledBySendInit
<1>4. ASSUME Orderly, ~\E t \in Task : SendInit(t) PROVE Orderly'
  <2>1. ASSUME NEW t \in Task, SendNext(t) \/ NextSteps(t) PROVE Orderly'
    BY <1>1, <1>4, <2>1, SendNextStep, BroadcastStep, CountStep, MergeStep DEF NextSteps
  <2>2. ASSUME NEW t \in Task, InitSteps(t) PROVE Orderly'
    BY <1>1, <1>4, <2>2, CancelStep, WakeStep, LoadFlagRaiseStep, SpawnStep, AwaitStep
       DEF InitSteps
  <2>3. ASSUME NEW w \in Logic, LogicSteps(w) PROVE Orderly'
    BY <1>1, <1>4, <2>3, AcquireStep, GreetingStep, ReportStep, ParkStep, ResumeEvaluateStep,
       CheckRunningStep DEF LogicSteps
  <2>4. ASSUME NEW t \in Task, GiveUp(t) PROVE Orderly'
    <3>1. UNCHANGED <<objectVars, logicVars, receivers, initVars, next, got, taken, slots>>
      BY <2>4 DEF GiveUp, nextVars
    <3> QED BY <1>4, <3>1, OrderlyStands
  <2>5. Kill \/ UNCHANGED nodeVars => Orderly'
    <3>1. Kill \/ UNCHANGED nodeVars =>
            UNCHANGED <<current, loaded, running, logicVars, receivers, initVars, next, got,
                        taken, slots>>
      BY DEF Kill, nodeVars, nextVars, objectVars
    <3> QED BY <1>4, <3>1, OrderlyStands
  <2> QED BY <1>4, <2>1, <2>2, <2>3, <2>4, <2>5 DEF NodeNext, BrokerCalls, NodeSteps
<1> QED BY <1>1, <1>2, <1>3, <1>4 DEF NodeInv

\* The invariant holds in every state, however calls overlap.
LEMMA NodeAlwaysInv == NodeSpec => []NodeInv
BY NodeInitInv, NodeStepInv, PTL DEF NodeSpec

\* The invariant implies the types.
LEMMA NodeTypes == NodeInv => NodeTypeOK
<1> SUFFICES ASSUME NodeInv PROVE NodeTypeOK
  OBVIOUS
<1>1. \A t \in Task : ready[t] \in 0..Size[t] /\ turns[t] \in 0..Turns
  <2> TAKE t \in Task
  <2>1. ready[t] \in Nat /\ Size[t] \in Nat /\ turns[t] \in Nat /\ Turns \in Nat
    BY Numbers DEF NodeInv, Always, Types
  <2>2. turns[t] <= Turns
    BY DEF NodeInv, Always, Calls
  <2>3. ready[t] <= Size[t]
    <3>1. \/ init[t] = "returned" \/ init[t] \in {"spawn", "await", "receiving"}
          \/ init[t] \notin Started
      BY DEF Started
    <3>2. ready[t] = Size[t] \/ ready[t] < Size[t] \/ ready[t] = 0
      BY <3>1 DEF NodeInv, Always, Calls
    <3> QED BY <2>1, <3>2, Numbers
  <2> QED BY <2>1, <2>2, <2>3
<1> QED BY <1>1 DEF NodeInv, Always, Types, Mutex, NodeTypeOK

\* worker.go:107: when Init has returned, and after every Next, all workers of the
\* task wait, with its flag and matrices, for any number of tasks, blocks and turns,
\* unless the Init came to a node not at rest.
THEOREM NodeReady == NodeSpec => []ReadyWhenInitReturns
<1>1. NodeInv => ReadyWhenInitReturns
  <2> SUFFICES ASSUME NodeInv, NEW t \in Task, ~tangled,
                      init[t] = "returned", Latest(t), next[t] \in {"idle", "broadcast"}
               PROVE  /\ running[t] /\ loaded = t
                      /\ {w \in Logic : flagOf[w] = t} = Team(t)
                      /\ \A w \in Team(t) : logic[w] \in Parked
    BY NodeTypes DEF ReadyWhenInitReturns
  <2>1. Always /\ Orderly /\ Begun(t)
    BY DEF NodeInv, Begun
  <2>2. ~Superseded(t) /\ \A s \in Task : s > t => init[s] = "unsent"
    BY <2>1, TheLatest DEF Orderly
  <2>3. \A w \in Team(t) : logic[w] \in Parked
    BY <2>1, <2>2, TeamStands DEF Team
  <2>4. \A w \in Logic : flagOf[w] = t <=> w[1] = t
    <3> TAKE w \in Logic
    <3>1. w[1] \in Task /\ t # NoTask
      BY Workers, Numbers
    <3>2. w[1] = t => flagOf[w] = t
      BY <2>1, <2>3 DEF Orderly, Flags, Team, Parked, Always, Fresh
    <3>3. w[1] < t => flagOf[w] # t
      BY <2>1 DEF Orderly, Flags
    <3>4. w[1] > t => flagOf[w] = NoTask
      <4> SUFFICES ASSUME w[1] > t PROVE flagOf[w] = NoTask
        OBVIOUS
      <4>1. init[w[1]] = "unsent" /\ ready[w[1]] = 0 /\ ~(w[2] <= 0)
        BY <2>1, <2>2, <3>1, Workers, Numbers DEF Always, Calls, Started
      <4> QED BY <2>1, <4>1 DEF Always, Fresh
    <3> QED BY <3>1, <3>2, <3>3, <3>4, Numbers
  <2> QED BY <2>1, <2>3, <2>4 DEF Orderly, Flags, Team, Started
<1> QED BY <1>1, NodeAlwaysInv, PTL

\* worker.go:118-150: Next merges one result of each worker of its own task, and
\* nobody evaluates while it changes the matrices, unless the Init came to a node
\* not at rest.
THEOREM NodeMerges == NodeSpec => []MergesOwnResults
<1>1. NodeInv => MergesOwnResults
  <2> SUFFICES ASSUME NodeInv, ~tangled, NEW t \in Task, next[t] \in {"broadcast", "merge"}
               PROVE  /\ next[t] = "merge" => got[t] = Team(t) /\ taken[t] = slots[t]
                      /\ \A w \in Logic : logic[w] \notin {"working", "worked", "reporting"}
    BY DEF MergesOwnResults
  <2>1. Always /\ Orderly /\ init[t] = "returned" /\ Begun(t) /\ Busy(t)
    BY DEF NodeInv, Always, Calls, Begun, Busy
  <2>2. next[t] = "merge" => got[t] = Team(t) /\ taken[t] = slots[t]
    BY <2>1, TeamSize DEF Orderly, Results
  <2>3. /\ ~Superseded(t) /\ \A s \in Task : s < t => Superseded(s)
        /\ \A s \in Task : s > t => init[s] = "unsent"
    BY <2>1, TheLatest DEF Orderly
  <2>4. ASSUME NEW w \in Logic PROVE logic[w] \notin {"working", "worked", "reporting"}
    <3>1. w[1] \in Task /\ logic[w] \in Standing(w)
      BY <2>1, Workers DEF Orderly, Stand
    <3>2. CASE w[1] < t
      BY <2>3, <3>1, <3>2 DEF Standing, Leaving
    <3>3. CASE w[1] = t
      BY <2>1, <2>3, <3>3, TeamStands DEF Parked
    <3>4. CASE w[1] > t
      BY <2>3, <3>1, <3>4 DEF Standing, InitStanding, Leaving, Parked
    <3> QED BY <3>1, <3>2, <3>3, <3>4, Numbers
  <2> QED BY <2>2, <2>4
<1> QED BY <1>1, NodeAlwaysInv, PTL

\* worker.go:84-88: the broadcast of Init, made without the mutex, leaves at most
\* one worker of all tasks before behind, unless the Init came to a node not at rest.
THEOREM NodeLeavesOne == NodeSpec => []AtMostOneLeft
<1>1. NodeInv => AtMostOneLeft
  <2> SUFFICES ASSUME NodeInv, ~tangled, NEW t \in Task, Latest(t), init[t] \notin {"cancel", "wake"}
               PROVE  Cardinality({w \in Logic : w[1] < t /\ logic[w] \in Parked}) <= 1
    BY DEF AtMostOneLeft
  <2> DEFINE Left == {w \in Logic : w[1] < t /\ logic[w] \in Parked}
  <2>1. \A v, w \in Left : v = w
    BY DEF NodeInv, Orderly, OneLeft
  <2>2. CASE Left = {}
    <3>1. Cardinality(Left) = 0
      BY <2>2, FS_EmptySet
    <3> QED BY <3>1
  <2>3. CASE Left # {}
    <3>1. PICK w \in Left : TRUE
      BY <2>3
    <3>2. Left = {w}
      BY <2>1, <3>1
    <3>3. Cardinality(Left) = 1
      BY <3>2, FS_Singleton, Zenon
    <3> QED BY <3>3
  <2> QED BY <2>2, <2>3
<1> QED BY <1>1, NodeAlwaysInv, PTL

\* broker.go:131-139, 333-340: only an Init that is sent while a call to the node
\* still runs, because the broker gave it up, can find the node not at rest.
THEOREM NodeTangledByOverlap ==
  NodeSpec => [][~tangled /\ tangled' => \E s \in Task : Busy(s)]_nodeVars
<1>1. ASSUME NodeInv, ~tangled, \A s \in Task : ~Busy(s) PROVE AtRest
  <2>1. Always /\ Orderly /\ \A s \in Task : init[s] \in {"unsent", "returned"} /\ next[s] = "idle"
    BY <1>1 DEF NodeInv, Busy, Initialising
  <2>2. ASSUME NEW w \in Logic
        PROVE  \/ logic[w] \in {"none", "exited"}
               \/ logic[w] \in {"woken", "checking"} /\ ~running[flagOf[w]]
               \/ logic[w] \in Parked /\ (running[flagOf[w]] => flagOf[w] = current)
    <3>1. w[1] \in Task /\ logic[w] \in Standing(w)
      BY <2>1, Workers DEF Orderly, Stand
    <3>2. CASE Superseded(w[1])
      BY <2>1, <3>1, <3>2 DEF Standing, Leaving, Orderly, Flags, Parked
    <3>3. CASE ~Superseded(w[1]) /\ init[w[1]] = "returned"
      <4>1. Latest(w[1])
        BY <3>1, <3>3 DEF Superseded, Latest, Begun
      <4>2. logic[w] \in Parked
        BY <2>1, <3>1, <3>3, TeamStands
      <4>3. flagOf[w] = w[1] /\ current = w[1]
        BY <2>1, <3>1, <3>3, <4>1, <4>2 DEF Orderly, Flags, Started, Always, Fresh, Parked
      <4> QED BY <4>2, <4>3
    <3>4. CASE ~Superseded(w[1]) /\ init[w[1]] = "unsent"
      <4>1. ready[w[1]] = 0 /\ ~(w[2] <= 0)
        BY <2>1, <3>1, <3>4, Workers, Numbers DEF Always, Calls, Started
      <4> QED BY <3>1, <3>4, <4>1 DEF Standing, InitStanding
    <3> QED BY <2>1, <3>1, <3>2, <3>3, <3>4
  <2> QED BY <1>1, <2>2 DEF AtRest
<1>2. ASSUME NodeInv, [NodeNext]_nodeVars, ~tangled, tangled'
      PROVE  \E s \in Task : Busy(s)
  <2>1. Always
    BY <1>2 DEF NodeInv
  <2>2. \E t \in Task : SendInit(t)
    BY <1>2, <2>1, TangledBySendInit
  <2> QED BY <1>1, <1>2, <2>2 DEF SendInit
<1>3. NodeInv /\ [NodeNext]_nodeVars => [~tangled /\ tangled' => \E s \in Task : Busy(s)]_nodeVars
  BY <1>2
<1> QED BY <1>3, NodeAlwaysInv, PTL DEF NodeSpec

\* The call that runs can go on, or a worker it waits for can, or the holder of
\* the mutex that one of them waits for.
LEMMA CallsMove == NodeInv => BusyMoves
<1> SUFFICES ASSUME NodeInv, ~tangled, NEW t \in Task, Busy(t) PROVE SomeoneMoves
  BY DEF BusyMoves
<1>1. Always /\ Orderly /\ Begun(t)
  BY DEF NodeInv, Begun, Busy, Initialising, Always, Calls
<1>2. holder = Nobody \/ \E v \in Logic : logic[v] \in Holding
  BY <1>1 DEF Always, Mutex
<1>3. /\ ~Superseded(t) /\ \A s \in Task : s < t => Superseded(s)
      /\ \A s \in Task : s > t => init[s] = "unsent"
  BY <1>1, TheLatest DEF Orderly
<1>4. \/ init[t] \in {"cancel", "wake", "load", "flag", "raise", "spawn", "await", "receiving"}
      \/ init[t] = "returned" /\ next[t] \in {"broadcast", "counting", "receiving", "merge"}
  BY <1>1 DEF Busy, Initialising, Always, Types, Calls, InitPlace, NextPlace
<1>5. CASE init[t] = "receiving" \/ next[t] = "receiving"
  <2>1. receivers # <<>>
    <3>1. \A call : <<call>> # <<>>
      OBVIOUS
    <3> QED BY <1>1, <1>5, <3>1 DEF Orderly, Waiting
  <2>2. \E w \in Logic : logic[w] \in {"created", "greeting"} \cup Turning
    <3>1. CASE init[t] = "receiving"
      <4> DEFINE w == <<t, ready[t] + 1>>
      <4>1. ready[t] \in Nat /\ Size[t] \in Nat /\ ready[t] < Size[t]
        BY <1>1, <3>1, Numbers DEF Always, Types, Calls
      <4>2. ready[t] + 1 \in 1..Size[t] /\ ~(ready[t] + 1 <= ready[t])
        BY <4>1
      <4>3. w \in Logic /\ w[1] = t /\ w[2] = ready[t] + 1
        BY <4>2, Workers
      <4> HIDE DEF w
      <4>4. logic[w] \in {"created", "greeting"}
        BY <1>1, <1>3, <3>1, <4>2, <4>3 DEF Orderly, Stand, Standing, InitStanding
      <4> QED BY <4>3, <4>4
    <3>2. CASE init[t] # "receiving"
      <4>1. next[t] = "receiving" /\ init[t] = "returned"
        BY <1>1, <1>5, <3>2 DEF Always, Calls
      <4>2. PICK w \in Team(t) : w \notin got[t]
        BY <1>1, <4>1 DEF Orderly, Results
      <4>3. logic[w] \in Turning /\ w \in Logic
        BY <1>1, <1>3, <4>1, <4>2, TeamStands DEF Team
      <4> QED BY <4>3
    <3> QED BY <3>1, <3>2
  <2> QED BY <1>2, <2>1, <2>2 DEF SomeoneMoves, Turning, Holding, Sending
<1>6. CASE init[t] = "returned" /\ next[t] = "broadcast"
  <2>1. \A v \in Logic : logic[v] \in Holding => logic[v] = "parking"
    <3> TAKE v \in Logic
    <3>1. v[1] \in Task /\ logic[v] \in Standing(v)
      BY <1>1, Workers DEF Orderly, Stand
    <3>2. CASE v[1] < t
      BY <1>3, <3>1, <3>2 DEF Standing, Leaving, Holding
    <3>3. CASE v[1] = t
      BY <1>1, <1>3, <1>6, <3>3, TeamStands DEF Parked, Holding
    <3>4. CASE v[1] > t
      <4>1. init[v[1]] = "unsent"
        BY <1>3, <3>1, <3>4
      <4> QED BY <3>1, <4>1 DEF Standing, InitStanding, Leaving, Parked, Holding
    <3> QED BY <3>1, <3>2, <3>3, <3>4, Numbers
  <2> QED BY <1>2, <1>6, <2>1 DEF SomeoneMoves
<1> QED BY <1>4, <1>5, <1>6 DEF SomeoneMoves

\* A node never deadlocks in Worker.Init or Worker.Next, although its logic workers
\* send with cond.L in their hands and the calls have no timeout: while one runs,
\* some goroutine can go on (worker.go:84-150, 196-246), unless the Init came to a
\* node not at rest.
THEOREM NodeNoDeadlock == NodeSpec => []BusyMoves
BY CallsMove, NodeAlwaysInv, PTL
==============================================================================
