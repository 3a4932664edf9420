------------------------------- MODULE IoThread -------------------------------
(***************************************************************************)
(* The io goroutine of gol/io.go (the parallel program and the controller  *)
(* of the distributed one share it) and the distributor that uses it.      *)
(*                                                                         *)
(* One mutex and one condition variable carry requests and answers both    *)
(* ways.  The condition has no predicate on the io side: startIo serves    *)
(* whatever io.operation holds when it is woken, so a signal sent while it *)
(* does not wait would be lost.  Run prevents that: it locks the mutex     *)
(* before it starts the goroutine, whose first Wait releases it.           *)
(*                                                                         *)
(* sync.Cond keeps its waiters in a queue; Signal wakes the first.         *)
(***************************************************************************)
EXTENDS Naturals, Sequences

CONSTANTS MaxRequests,       \* bound: reads and writes of one run
          MaxVersion         \* bound: times the distributor changes its matrix

ASSUME IoAssumption == MaxRequests \in Nat \ {0} /\ MaxVersion \in Nat

VARIABLES
  holder,       \* who holds io.cond.L: "io", "dist" or "nobody"
  notify,       \* the waiters of io.cond, in order
  io, dist,     \* where the two goroutines stand
  operation,    \* io.operation; asked is the version its data had then
  requested,    \* requests made so far
  version,      \* what the distributor's matrix holds
  files         \* the requests io completed, with the version it found

vars == <<holder, notify, io, dist, operation, requested, version, files>>

Nothing == [command |-> "none", id |-> 0, asked |-> 0, completed |-> FALSE]

\* Mutant: Run starts the goroutine without the mutex.
IoInitUnlocked ==
  /\ holder = "nobody"
  /\ notify = <<>>
  /\ io = "entering"
  /\ dist = "idle"
  /\ operation = Nothing
  /\ requested = 0
  /\ version = 0
  /\ files = <<>>

IoInit ==
  /\ holder = "io"          \* Run's Lock, handed to the goroutine
  /\ notify = <<>>
  /\ io = "entering"
  /\ dist = "idle"
  /\ operation = Nothing
  /\ requested = 0
  /\ version = 0
  /\ files = <<>>

\* Signal wakes the first waiter, if there is one.
Signalled(who) == notify # <<>> /\ Head(notify) = who
Remaining      == IF notify = <<>> THEN <<>> ELSE Tail(notify)

------------------------------------------------------------------------------
(* startIo *)

IoWait ==
  /\ io = "entering"
  /\ io' = "asleep"
  /\ notify' = Append(notify, "io")
  /\ holder' = "nobody"
  /\ UNCHANGED <<dist, operation, requested, version, files>>

IoResume ==
  /\ io = "woken"
  /\ holder = "nobody"
  /\ holder' = "io"
  /\ io' = "serving"
  /\ UNCHANGED <<notify, dist, operation, requested, version, files>>

\* A read or a write, then completed and Signal: the mutex is kept.
IoServe ==
  /\ io = "serving"
  /\ operation.command # "quit"
  /\ operation' = [operation EXCEPT !.completed = TRUE]
  /\ files' = Append(files, [id |-> operation.id, asked |-> operation.asked, found |-> version])
  /\ notify' = Remaining
  /\ dist' = IF Signalled("dist") THEN "waiting" ELSE dist
  /\ io' = "entering"
  /\ UNCHANGED <<holder, requested, version>>

IoQuit ==
  /\ io = "serving"
  /\ operation.command = "quit"
  /\ io' = "exited"
  /\ holder' = "nobody"
  /\ UNCHANGED <<notify, dist, operation, requested, version, files>>

------------------------------------------------------------------------------
(* The distributor; its critical sections that never wait are single steps   *)

\* Mutant: the distributor goes on without waitIoRequest.
RequestUnawaited ==
  /\ dist = "idle"
  /\ holder = "nobody"
  /\ requested < MaxRequests
  /\ requested' = requested + 1
  /\ operation' = [command |-> IF requested = 0 THEN "input" ELSE "output",
                   id |-> requested + 1, asked |-> version, completed |-> FALSE]
  /\ notify' = Remaining
  /\ io' = IF Signalled("io") THEN "woken" ELSE io
  /\ UNCHANGED <<holder, dist, version, files>>

\* sendIoRequest: the image first, then files of the turns
Request ==
  /\ dist = "idle"
  /\ holder = "nobody"
  /\ requested < MaxRequests
  /\ requested' = requested + 1
  /\ operation' = [command |-> IF requested = 0 THEN "input" ELSE "output",
                   id |-> requested + 1, asked |-> version, completed |-> FALSE]
  /\ notify' = Remaining
  /\ io' = IF Signalled("io") THEN "woken" ELSE io
  /\ dist' = "waiting"
  /\ UNCHANGED <<holder, version, files>>

\* Mutant: completed is not tested.
AwaitIoUntested ==
  /\ dist = "waiting"
  /\ holder = "nobody"
  /\ dist' = "idle"
  /\ UNCHANGED <<holder, notify, io, operation, requested, version, files>>

\* waitIoRequest: one test of the loop
AwaitIo ==
  /\ dist = "waiting"
  /\ holder = "nobody"
  /\ IF operation.completed
     THEN dist' = "idle" /\ UNCHANGED notify
     ELSE dist' = "asleep" /\ notify' = Append(notify, "dist")
  /\ UNCHANGED <<holder, io, operation, requested, version, files>>

\* Turns are evaluated between requests.
Evolve ==
  /\ dist = "idle"
  /\ requested > 0
  /\ version < MaxVersion
  /\ version' = version + 1
  /\ UNCHANGED <<holder, notify, io, dist, operation, requested, files>>

\* defer io.quit()
Quit ==
  /\ dist = "idle"
  /\ requested > 1
  /\ holder = "nobody"
  /\ operation' = [command |-> "quit", id |-> requested + 1, asked |-> version, completed |-> FALSE]
  /\ notify' = Remaining
  /\ io' = IF Signalled("io") THEN "woken" ELSE io
  /\ dist' = "returned"
  /\ UNCHANGED <<holder, requested, version, files>>

IoSide   == IoWait \/ IoResume \/ IoServe \/ IoQuit
DistSide == Request \/ AwaitIo \/ Evolve \/ Quit
IoNext   == IoSide \/ DistSide

IoSpec == IoInit /\ [][IoNext]_vars

------------------------------------------------------------------------------
(* Properties *)

\* Type invariant of the handshake.
IoTypeOK ==
  /\ holder \in {"io", "dist", "nobody"}
  /\ Len(notify) <= 2
  /\ io \in {"entering", "asleep", "woken", "serving", "exited"}
  /\ dist \in {"idle", "waiting", "asleep", "returned"}
  /\ operation.id \in 0..MaxRequests + 1
  /\ requested \in 0..MaxRequests
  /\ version \in 0..MaxVersion

\* Every request is served exactly once and in order, and waitIoRequest
\* returns only when its own request was (io.go:129-136): a wakeup for one
\* request never answers another, and none is served twice by a stray signal.
ServedOnce ==
  /\ \A k \in 1..Len(files) : files[k].id = k
  /\ dist = "idle" => Len(files) = requested

\* The slice of pixels that goes to the file is the matrix's own memory
\* (distributor.go:97): io finds in it what was there at the request.
FilesAsAsked == \A k \in 1..Len(files) : files[k].found = files[k].asked
==============================================================================
