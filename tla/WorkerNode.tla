------------------------------ MODULE WorkerNode ------------------------------
(***************************************************************************)
(* One worker node, distributed/worker/worker.go: the RPC calls Init and   *)
(* Next of a broker on one Worker object, and the logic workers they start *)
(* and wake.  What the logic workers compute is in Exchange.               *)
(*                                                                         *)
(* Every Init is a new task with logic workers of its own; those of the    *)
(* task before are asked to leave by clearing the flag they share, with a  *)
(* broadcast that does not take the mutex.  All tasks of a node share one  *)
(* mutex, one condition variable and one unbuffered result channel, whose  *)
(* receivers are served in the order in which they came.                   *)
(*                                                                         *)
(* net/rpc runs every call in a goroutine of its own.  The broker gives a  *)
(* call up when another node failed in the same dispatch, or when the      *)
(* connection was lost and the node registered again, and sends the next   *)
(* Init at once.  The call that was given up goes on: the two overlap.     *)
(***************************************************************************)
EXTENDS Naturals, Sequences, FiniteSets

CONSTANTS
  Tasks,           \* calls of Init, in order: tasks 1..Tasks
  Size,            \* Size[t]: blocks in the partition of task t
  Turns            \* bound: calls of Next for one task

ASSUME NodeAssumption ==
  /\ Tasks \in Nat \ {0} /\ Size \in [1..Tasks -> Nat \ {0}]
  /\ Turns \in Nat

Task   == 1..Tasks
NoTask == 0                              \* before the first Init

\* Logic worker k of task t; nobody, the holder of an unlocked mutex.
Logic  == UNION {{t} \X (1..Size[t]) : t \in Task}
Nobody == <<0, 0>>

Team(t) == {w \in Logic : w[1] = t}

VARIABLES
  alive,           \* the process runs
  current,         \* the task whose flag worker.running points to
  loaded,          \* the task of worker.wp and the matrices
  running,         \* the flag of each task
  logic,           \* where each logic worker stands
  flagOf,          \* the task whose flag it was given
  holder,          \* who holds cond.L
  receivers,       \* the calls that wait on result_chan, in order
  init, ready,     \* each task's Init, and the results it took as readiness
  next,            \* each task's Next,
  got, taken,      \* whose results it has, and how many it took,
  slots,           \* the length of its result_buffer,
  turns,           \* and how many calls of Next returned
  givenUp,         \* tasks the broker does not wait for any more
  tangled          \* history: the last Init was sent to a node not at rest

objectVars == <<alive, current, loaded, running>>
logicVars  == <<logic, flagOf, holder>>
initVars   == <<init, ready>>
nextVars   == <<next, got, taken, slots, turns>>
brokerVars == <<givenUp, tangled>>
nodeVars   == <<objectVars, logicVars, receivers, initVars, nextVars, brokerVars>>

LogicState == {"none", "created", "greeting", "parking", "asleep", "woken",
               "checking", "working", "worked", "reporting", "exited"}
InitPlace  == {"unsent", "cancel", "wake", "load", "flag", "raise", "spawn", "await",
               "receiving", "returned"}
NextPlace  == {"idle", "broadcast", "counting", "receiving", "merge"}
Parked     == {"parking", "asleep"}
Sending    == {"greeting", "reporting"}

NodeInit ==
  /\ alive = TRUE
  /\ current = NoTask /\ loaded = NoTask
  /\ running = [t \in Task |-> FALSE]
  /\ logic = [w \in Logic |-> "none"]
  /\ flagOf = [w \in Logic |-> NoTask]
  /\ holder = Nobody
  /\ receivers = <<>>
  /\ init = [t \in Task |-> "unsent"] /\ ready = [t \in Task |-> 0]
  /\ next = [t \in Task |-> "idle"] /\ got = [t \in Task |-> {}]
  /\ taken = [t \in Task |-> 0] /\ slots = [t \in Task |-> 0]
  /\ turns = [t \in Task |-> 0]
  /\ givenUp = {} /\ tangled = FALSE

------------------------------------------------------------------------------
(* The broker's side of the connection *)

Initialising(t) == init[t] \notin {"unsent", "returned"}
Busy(t)   == Initialising(t) \/ next[t] # "idle"
Latest(t) == init[t] # "unsent" /\ \A s \in Task : s > t => init[s] = "unsent"

\* The node is at rest: no call runs, and every logic worker waits, or is about
\* to leave, or will be seen by the next Init because its flag is the last one.
AtRest ==
  /\ \A t \in Task : ~Busy(t)
  /\ \A w \in Logic :
       \/ logic[w] \in {"none", "exited"}
       \/ logic[w] \in {"woken", "checking"} /\ ~running[flagOf[w]]
       \/ logic[w] \in Parked /\ (running[flagOf[w]] => flagOf[w] = current)

\* A new evaluation, or a recovery because a call to this or another node failed.
SendInit(t) ==
  /\ init[t] = "unsent"
  /\ \A s \in 1..t - 1 : init[s] # "unsent" /\ (Busy(s) => s \in givenUp)
  /\ init' = [init EXCEPT ![t] = "cancel"]
  /\ tangled' = ~AtRest
  /\ UNCHANGED <<objectVars, logicVars, receivers, ready, nextVars, givenUp>>

SendNext(t) ==
  /\ Latest(t)
  /\ init[t] = "returned" /\ next[t] = "idle"
  /\ t \notin givenUp
  /\ turns[t] < Turns
  /\ next' = [next EXCEPT ![t] = "broadcast"]
  /\ UNCHANGED <<objectVars, logicVars, receivers, initVars, got, taken, slots, turns, brokerVars>>

GiveUp(t) ==
  /\ Latest(t) /\ Busy(t)
  /\ t \notin givenUp
  /\ givenUp' = givenUp \cup {t}
  /\ UNCHANGED <<objectVars, logicVars, receivers, initVars, nextVars, tangled>>

------------------------------------------------------------------------------
(* Worker.Init *)

\* Everybody in the queue of the condition variable is woken.
Woken == [w \in Logic |-> IF logic[w] = "asleep" THEN "woken" ELSE logic[w]]

InitTo(t, place) == init' = [init EXCEPT ![t] = place]

\* Mutant: the last task is not cancelled, its workers are only woken.
CancelNobody(t) ==
  /\ init[t] = "cancel"
  /\ InitTo(t, "wake")
  /\ UNCHANGED <<objectVars, logicVars, receivers, ready, nextVars, brokerVars>>

\* The flag of the task before is cleared ...
Cancel(t) ==
  /\ init[t] = "cancel"
  /\ running' = [s \in Task |-> running[s] /\ s # current]
  /\ InitTo(t, "wake")
  /\ UNCHANGED <<alive, current, loaded, logicVars, receivers, ready, nextVars, brokerVars>>

\* Mutant: nobody is woken.
WakeNobody(t) ==
  /\ init[t] = "wake"
  /\ InitTo(t, "load")
  /\ UNCHANGED <<objectVars, logicVars, receivers, ready, nextVars, brokerVars>>

\* ... and its workers are woken, without the mutex: a worker that has sent but
\* does not wait yet is missed.
Wake(t) ==
  /\ init[t] = "wake"
  /\ logic' = Woken
  /\ InitTo(t, "load")
  /\ UNCHANGED <<objectVars, flagOf, holder, receivers, ready, nextVars, brokerVars>>

\* worker.wp and the two matrices.
Load(t) ==
  /\ init[t] = "load"
  /\ loaded' = t
  /\ InitTo(t, "flag")
  /\ UNCHANGED <<alive, current, running, logicVars, receivers, ready, nextVars, brokerVars>>

\* A flag of its own, which is down at first ...
NewFlag(t) ==
  /\ init[t] = "flag"
  /\ current' = t
  /\ InitTo(t, "raise")
  /\ UNCHANGED <<alive, loaded, running, logicVars, receivers, ready, nextVars, brokerVars>>

\* ... and is raised through the pointer.
Raise(t) ==
  /\ init[t] = "raise"
  /\ running' = [running EXCEPT ![current] = TRUE]
  /\ InitTo(t, "spawn")
  /\ UNCHANGED <<alive, current, loaded, logicVars, receivers, ready, nextVars, brokerVars>>

\* The new worker is given the flag and the matrices the object has now.
Spawn(t) ==
  LET w == <<t, ready[t] + 1>> IN
  /\ init[t] = "spawn"
  /\ logic' = [logic EXCEPT ![w] = "created"]
  /\ flagOf' = [flagOf EXCEPT ![w] = current]
  /\ InitTo(t, "await")
  /\ UNCHANGED <<objectVars, holder, receivers, ready, nextVars, brokerVars>>

\* Mutant: Init does not wait for the worker it started.
AwaitNobody(t) ==
  /\ init[t] = "await"
  /\ ready' = [ready EXCEPT ![t] = @ + 1]
  /\ InitTo(t, IF ready'[t] = Size[t] THEN "returned" ELSE "spawn")
  /\ UNCHANGED <<objectVars, logicVars, receivers, nextVars, brokerVars>>

Await(t) ==
  /\ init[t] = "await"
  /\ receivers' = Append(receivers, <<"Init", t>>)
  /\ InitTo(t, "receiving")
  /\ UNCHANGED <<objectVars, logicVars, ready, nextVars, brokerVars>>

\* Init counts any result: the next worker is started, or the call returns.
TakenByInit(t) ==
  /\ ready' = [ready EXCEPT ![t] = @ + 1]
  /\ InitTo(t, IF ready'[t] = Size[t] THEN "returned" ELSE "spawn")
  /\ UNCHANGED <<alive, nextVars>>

------------------------------------------------------------------------------
(* Worker.Next and Worker.Kill *)

NextTo(t, place) == next' = [next EXCEPT ![t] = place]

\* Mutant: without the mutex.
BroadcastUnlocked(t) ==
  /\ next[t] = "broadcast"
  /\ logic' = Woken
  /\ slots' = [slots EXCEPT ![t] = Size[loaded]]
  /\ NextTo(t, "counting")
  /\ UNCHANGED <<objectVars, flagOf, holder, receivers, initVars, got, taken, turns, brokerVars>>

\* Lock, Broadcast, Unlock: nobody is between its send and its wait.  Then the
\* buffer for the results is made.
Broadcast(t) ==
  /\ next[t] = "broadcast"
  /\ holder = Nobody
  /\ logic' = Woken
  /\ slots' = [slots EXCEPT ![t] = Size[loaded]]
  /\ NextTo(t, "counting")
  /\ UNCHANGED <<objectVars, flagOf, holder, receivers, initVars, got, taken, turns, brokerVars>>

\* Mutant: the call goes on when a result is missing.
CountShort(t) ==
  /\ next[t] = "counting"
  /\ IF taken[t] + 1 >= Size[loaded]
     THEN NextTo(t, "merge") /\ receivers' = receivers
     ELSE NextTo(t, "receiving") /\ receivers' = Append(receivers, <<"Next", t>>)
  /\ UNCHANGED <<objectVars, logicVars, initVars, got, taken, slots, turns, brokerVars>>

\* The loop asks the object again how many blocks there are.
Count(t) ==
  /\ next[t] = "counting"
  /\ IF taken[t] = Size[loaded]
     THEN NextTo(t, "merge") /\ receivers' = receivers
     ELSE NextTo(t, "receiving") /\ receivers' = Append(receivers, <<"Next", t>>)
  /\ UNCHANGED <<objectVars, logicVars, initVars, got, taken, slots, turns, brokerVars>>

\* A result beyond the end of the buffer is a panic, which ends the process.
TakenByNext(t, w) ==
  /\ got' = [got EXCEPT ![t] = @ \cup {w}]
  /\ taken' = [taken EXCEPT ![t] = @ + 1]
  /\ alive' = (taken[t] < slots[t])
  /\ NextTo(t, "counting")
  /\ UNCHANGED <<initVars, slots, turns>>

\* updateUnsafe for the boundary flips of as many results as there are blocks
\* now, then the swap; a panic when the buffer has fewer.
Merge(t) ==
  /\ next[t] = "merge"
  /\ alive' = (Size[loaded] <= slots[t])
  /\ NextTo(t, "idle")
  /\ got' = [got EXCEPT ![t] = {}]
  /\ taken' = [taken EXCEPT ![t] = 0] /\ slots' = [slots EXCEPT ![t] = 0]
  /\ turns' = [turns EXCEPT ![t] = @ + 1]
  /\ UNCHANGED <<current, loaded, running, logicVars, receivers, initVars, brokerVars>>

\* Main returns from flag.Wait and the process ends, whatever still runs.  The
\* broker stops its nodes when it waits for no call to them.
Kill ==
  /\ \A t \in Task : Busy(t) => t \in givenUp
  /\ alive' = FALSE
  /\ UNCHANGED <<current, loaded, running, logicVars, receivers, initVars, nextVars, brokerVars>>

------------------------------------------------------------------------------
(* logic_worker *)

LogicTo(w, place) == logic' = [logic EXCEPT ![w] = place]

Acquire(w) ==
  /\ logic[w] \in {"created", "worked"}
  /\ holder = Nobody
  /\ holder' = w
  /\ LogicTo(w, IF logic[w] = "created" THEN "greeting" ELSE "reporting")
  /\ UNCHANGED <<objectVars, flagOf, receivers, initVars, nextVars, brokerVars>>

\* The worker sends with the mutex in its hands; the first receiver takes it.
Send(w) ==
  /\ logic[w] \in Sending
  /\ receivers # <<>>
  /\ LET call == Head(receivers)
     IN  IF call[1] = "Init" THEN TakenByInit(call[2]) ELSE TakenByNext(call[2], w)
  /\ receivers' = Tail(receivers)
  /\ LogicTo(w, "parking")
  /\ UNCHANGED <<current, loaded, running, flagOf, holder, brokerVars>>

\* cond.Wait: into the queue, then unlock.
Park(w) ==
  /\ logic[w] = "parking"
  /\ LogicTo(w, "asleep")
  /\ holder' = Nobody
  /\ UNCHANGED <<objectVars, flagOf, receivers, initVars, nextVars, brokerVars>>

\* The lock taken by cond.Wait is given back at once.
Resume(w) ==
  /\ logic[w] = "woken"
  /\ holder = Nobody
  /\ LogicTo(w, "checking")
  /\ UNCHANGED <<objectVars, flagOf, holder, receivers, initVars, nextVars, brokerVars>>

CheckRunning(w) ==
  /\ logic[w] = "checking"
  /\ LogicTo(w, IF running[flagOf[w]] THEN "working" ELSE "exited")
  /\ UNCHANGED <<objectVars, flagOf, holder, receivers, initVars, nextVars, brokerVars>>

\* The regions of the block, and the swap of the worker's own pair.
Evaluate(w) ==
  /\ logic[w] = "working"
  /\ LogicTo(w, "worked")
  /\ UNCHANGED <<objectVars, flagOf, holder, receivers, initVars, nextVars, brokerVars>>

------------------------------------------------------------------------------
(* The specification *)

BrokerCalls == \E t \in Task : SendInit(t) \/ SendNext(t) \/ GiveUp(t)

InitSteps(t) ==
  Cancel(t) \/ Wake(t) \/ Load(t) \/ NewFlag(t) \/ Raise(t) \/ Spawn(t) \/ Await(t)

NextSteps(t) == Broadcast(t) \/ Count(t) \/ Merge(t)

LogicSteps(w) ==
  \/ Acquire(w) \/ Send(w) \/ Park(w) \/ Resume(w) \/ CheckRunning(w) \/ Evaluate(w)

NodeSteps ==
  \/ \E t \in Task : InitSteps(t) \/ NextSteps(t)
  \/ \E w \in Logic : LogicSteps(w)

NodeNext == alive /\ (BrokerCalls \/ Kill \/ NodeSteps)

\* Some goroutine runs as long as one can.  No more is needed: a call takes a
\* bounded number of steps, so a node that gets no call comes to rest.
NodeFairness == WF_nodeVars(alive /\ NodeSteps)

NodeSpec == NodeInit /\ [][NodeNext]_nodeVars /\ NodeFairness

------------------------------------------------------------------------------
(* Properties *)

\* Type invariant.
NodeTypeOK ==
  /\ alive \in BOOLEAN /\ tangled \in BOOLEAN
  /\ current \in Task \cup {NoTask} /\ loaded \in Task \cup {NoTask}
  /\ running \in [Task -> BOOLEAN]
  /\ logic \in [Logic -> LogicState] /\ flagOf \in [Logic -> Task \cup {NoTask}]
  /\ holder \in Logic \cup {Nobody}
  /\ receivers \in Seq({"Init", "Next"} \X Task)
  /\ init \in [Task -> InitPlace] /\ next \in [Task -> NextPlace]
  /\ \A t \in Task : ready[t] \in 0..Size[t] /\ turns[t] \in 0..Turns
  /\ got \in [Task -> SUBSET Logic]
  /\ taken \in [Task -> Nat] /\ slots \in [Task -> Nat]
  /\ givenUp \subseteq Task

\* worker.go:107, "Make sure logic worker is ready": when Init has returned, and
\* again after every Next, all workers of the task wait, with the flag and the
\* matrices of the task and with nobody else in its team; unless the Init was
\* sent to a node not at rest.
ReadyWhenInitReturns ==
  /\ NodeTypeOK
  /\ \A t \in Task :
       ~tangled /\ init[t] = "returned" /\ Latest(t) /\ next[t] \in {"idle", "broadcast"} =>
         /\ running[t] /\ loaded = t
         /\ {w \in Logic : flagOf[w] = t} = Team(t)
         /\ \A w \in Team(t) : logic[w] \in Parked

\* What Next merges are the results of this turn, one of each worker of its own
\* task; and while it changes the matrices (applyAdjustment, updateUnsafe, the
\* swap) no worker evaluates, of this task or of one before; unless the Init was
\* sent to a node not at rest.
MergesOwnResults ==
  ~tangled =>
    \A t \in Task :
      /\ next[t] = "merge" => got[t] = Team(t) /\ taken[t] = slots[t]
      /\ next[t] \in {"broadcast", "merge"} =>
           \A w \in Logic : logic[w] \notin {"working", "worked", "reporting"}

\* The broadcast of Init does not take the mutex and may miss a worker of a
\* task before; but of all tasks before it can miss only the one worker that
\* holds the mutex between its last result and its wait, so a node never gathers
\* idle goroutines; unless the Init was sent to a node not at rest.
AtMostOneLeft ==
  ~tangled =>
    \A t \in Task : Latest(t) /\ init[t] \notin {"cancel", "wake"} =>
      Cardinality({w \in Logic : w[1] < t /\ logic[w] \in Parked}) <= 1

\* Worker.Init and Worker.Next return, which the broker waits for without a
\* timeout, unless the process ends or an Init comes to a node not at rest.
CallsReturn == \A t \in Task : Busy(t) ~> ~Busy(t) \/ ~alive \/ tangled

\* A worker that the broadcast of Init missed is woken by the first turn of
\* the next task and leaves.
RetiredLeave ==
  \A t \in Task : next[t] = "merge" ~>
    ~alive \/ tangled \/ \A s \in 1..t - 1 : \A w \in Team(s) : logic[w] = "exited"

\* README.md:18, a node that fails mid-task does not stop the evaluation: a call
\* that the broker waits for returns, or the process ends.
NoCallHangs == \A t \in Task : Busy(t) ~> ~Busy(t) \/ t \in givenUp \/ ~alive
==============================================================================
