----------------------------- MODULE TurnBarrier -----------------------------
(***************************************************************************)
(* The turn barrier of parallel/gol/distributor.go: one distributor and N  *)
(* worker goroutines that share a mutex with its condition variable (cond),*)
(* an unbuffered result channel (result_chan) and the flag running.        *)
(*                                                                         *)
(* A worker reports its result and parks itself on the condition variable  *)
(* inside ONE critical section; the distributor broadcasts inside another. *)
(* Nothing else orders the distributor's sequential work between two turns *)
(* against the workers' parallel work within one.                          *)
(*                                                                         *)
(* A rendezvous on the unbuffered channel is a single step of both sides.  *)
(* sync.Cond.Wait joins the notify list before it unlocks the mutex, and   *)
(* takes the mutex again after it was notified.                            *)
(***************************************************************************)
EXTENDS Naturals

CONSTANT N                       \* number of worker goroutines (nthread)

ASSUME NAssumption == N \in Nat \ {0}

Thread == 1..N
Free   == 0                      \* holder of an unlocked mutex

VARIABLES
  dist,       \* where the distributor stands
  spawned,    \* workers created and known to be ready
  worker,     \* where each worker stands
  holder,     \* the worker that holds cond.L, or Free
  running,    \* the flag every worker reads through wp.running
  got         \* workers whose result of this turn has been received

barrierVars == <<dist, spawned, worker, holder, running, got>>

DistState   == {"spawning", "awaiting", "exclusive", "collecting", "stopped"}
WorkerState == {"none", "created", "greeting", "parking", "asleep", "woken",
                "checking", "working", "worked", "reporting", "exited"}

InCritical == {"greeting", "reporting", "parking"}   \* between Lock and Wait
Parked     == {"parking", "asleep"}
Active     == {"woken", "checking", "working", "worked", "reporting"}

BarrierInit ==
  /\ dist = "spawning"
  /\ spawned = 0
  /\ worker = [i \in Thread |-> "none"]
  /\ holder = Free
  /\ running = TRUE
  /\ got = {}

Move(i, from, to) ==
  /\ worker[i] = from
  /\ worker' = [worker EXCEPT ![i] = to]

------------------------------------------------------------------------------
(* The worker goroutine *)

\* wp.cond.L.Lock(), before the greeting and before every result
AcquireLock(i) ==
  /\ holder = Free
  /\ holder' = i
  /\ \/ Move(i, "created", "greeting")
     \/ Move(i, "worked", "reporting")
  /\ UNCHANGED <<dist, spawned, running, got>>

\* cond.Wait: on the notify list first, then the mutex is released
Park(i) ==
  /\ Move(i, "parking", "asleep")
  /\ holder' = Free
  /\ UNCHANGED <<dist, spawned, running, got>>

\* cond.Wait returns with the mutex, which the worker unlocks at once
Resume(i) ==
  /\ holder = Free
  /\ Move(i, "woken", "checking")
  /\ UNCHANGED <<dist, spawned, holder, running, got>>

\* for *wp.running
CheckRunning(i) ==
  /\ Move(i, "checking", IF running THEN "working" ELSE "exited")
  /\ UNCHANGED <<dist, spawned, holder, running, got>>

FinishWork(i) ==
  /\ Move(i, "working", "worked")
  /\ UNCHANGED <<dist, spawned, holder, running, got>>

------------------------------------------------------------------------------
(* Rendezvous on result_chan *)

\* wp.result_chan <- TurnResult{} with the distributor's <-result_chan
Greet(i) ==
  /\ dist = "awaiting"
  /\ Move(i, "greeting", "parking")
  /\ spawned' = spawned + 1
  /\ dist' = IF spawned + 1 = N THEN "exclusive" ELSE "spawning"
  /\ UNCHANGED <<holder, running, got>>

\* Mutant: the result is taken for a greeting.
ReportAsGreeting(i) ==
  /\ dist = "collecting"
  /\ Move(i, "reporting", "parking")
  /\ got' = got \cup {i}
  /\ dist' = IF got \cup {i} = Thread THEN "exclusive" ELSE "collecting"
  /\ spawned' = spawned + 1
  /\ UNCHANGED <<holder, running>>

\* Mutant: one result is not awaited.
ReportButOne(i) ==
  /\ dist = "collecting"
  /\ Move(i, "reporting", "parking")
  /\ got' = got \cup {i}
  /\ dist' = IF \E j \in Thread : got \cup {i, j} = Thread THEN "exclusive" ELSE "collecting"
  /\ UNCHANGED <<spawned, holder, running>>

\* Mutant: the worker unlocks after its send and only then waits.
ReportUnlocked(i) ==
  /\ dist = "collecting"
  /\ Move(i, "reporting", "parking")
  /\ got' = got \cup {i}
  /\ dist' = IF got \cup {i} = Thread THEN "exclusive" ELSE "collecting"
  /\ holder' = Free
  /\ UNCHANGED <<spawned, running>>

\* wp.result_chan <- TurnResult{...} with result_buffer[..] = <-result_chan
Report(i) ==
  /\ dist = "collecting"
  /\ Move(i, "reporting", "parking")
  /\ got' = got \cup {i}
  /\ dist' = IF got \cup {i} = Thread THEN "exclusive" ELSE "collecting"
  /\ UNCHANGED <<spawned, holder, running>>

------------------------------------------------------------------------------
(* The distributor *)

\* go worker(wp)
Spawn ==
  /\ dist = "spawning"
  /\ Move(spawned + 1, "none", "created")
  /\ dist' = "awaiting"
  /\ UNCHANGED <<spawned, holder, running, got>>

WakeAll ==
  worker' = [i \in Thread |-> IF worker[i] = "asleep" THEN "woken" ELSE worker[i]]

\* cond.L.Lock(); cond.Broadcast(); cond.L.Unlock(), at the start of a turn
Broadcast ==
  /\ dist = "exclusive"
  /\ holder = Free
  /\ WakeAll
  /\ got' = {}
  /\ dist' = "collecting"
  /\ UNCHANGED <<spawned, holder, running>>

\* Mutant: the flag is cleared, nobody is woken.
StopSilently ==
  /\ dist = "exclusive"
  /\ holder = Free
  /\ running' = FALSE
  /\ dist' = "stopped"
  /\ UNCHANGED <<spawned, worker, holder, got>>

\* the same critical section at label quit, with running_flag = false
Stop ==
  /\ dist = "exclusive"
  /\ holder = Free
  /\ running' = FALSE
  /\ WakeAll
  /\ dist' = "stopped"
  /\ UNCHANGED <<spawned, holder, got>>

------------------------------------------------------------------------------
BarrierNext ==
  \/ Spawn \/ Broadcast \/ Stop
  \/ \E i \in Thread : \/ AcquireLock(i) \/ Park(i) \/ Resume(i)
                       \/ CheckRunning(i) \/ FinishWork(i)
                       \/ Greet(i) \/ Report(i)

\* Every runnable goroutine runs eventually; a Go mutex hands itself to a
\* starving waiter, so an acquisition that keeps becoming possible happens.
BarrierFairness ==
  /\ WF_barrierVars(Spawn)
  /\ SF_barrierVars(Broadcast \/ Stop)
  /\ \A i \in Thread :
       /\ SF_barrierVars(AcquireLock(i))
       /\ SF_barrierVars(Resume(i))
       /\ WF_barrierVars(Park(i))
       /\ WF_barrierVars(CheckRunning(i))
       /\ WF_barrierVars(FinishWork(i))
       /\ WF_barrierVars(Greet(i))
       /\ WF_barrierVars(Report(i))

BarrierSafety == BarrierInit /\ [][BarrierNext]_barrierVars
BarrierSpec   == BarrierSafety /\ BarrierFairness

------------------------------------------------------------------------------
(* Properties *)

\* Type invariant of the six variables of the barrier.
BarrierTypeOK ==
  /\ dist \in DistState
  /\ spawned \in 0..N
  /\ worker \in [Thread -> WorkerState]
  /\ holder \in Thread \cup {Free}
  /\ running \in BOOLEAN
  /\ got \subseteq Thread

\* While the distributor merges results, swaps the matrices, handles a key or
\* writes a file (distributor.go:121-163), every worker is parked: the matrices
\* and the result slices it shares with them are its own.
DistributorAlone ==
  dist = "exclusive" => \A i \in Thread : worker[i] \in Parked

\* The wakeup of a turn is never lost: once the distributor waits for results
\* (distributor.go:117-119), no worker that still owes one sleeps on the
\* condition variable, and no worker that delivered one runs a second turn.
NobodyLeftBehind ==
  dist = "collecting" =>
    \A i \in Thread : worker[i] \in (IF i \in got THEN Parked ELSE Active)

\* No worker exits while a turn or a later turn can still ask it for a result;
\* after label quit (distributor.go:166) none of them starts another turn.
ExitOnlyWhenStopped ==
  \A i \in Thread :
    /\ worker[i] = "exited" => dist = "stopped"
    /\ dist = "stopped" => worker[i] \in {"woken", "checking", "exited"}

\* The mutex protects the section from Lock to Wait: exactly the worker inside
\* it holds cond.L.
MutexMatchesHolder ==
  \A i \in Thread : (worker[i] \in InCritical) <=> (holder = i)

\* After label quit every worker goroutine returns: none is leaked asleep.
WorkersExit == dist = "stopped" ~> \A i \in Thread : worker[i] = "exited"
==============================================================================
