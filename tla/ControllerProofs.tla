---------------------------- MODULE ControllerProofs ----------------------------
(***************************************************************************)
(* The controller of the distributed program and its handshake with the io *)
(* goroutine, for every number of turns, flips, keys, requests and         *)
(* failures and every capacity of the stream.                              *)
(*                                                                         *)
(* First the handshake by itself.  ServedOnce and FilesAsAsked speak of    *)
(* what was served and say nothing of the request under way; Handshake     *)
(* adds who waits where: the condition variable never has both sides in    *)
(* its queue, so each Signal wakes the one it is meant for, and the matrix *)
(* does not change between a request and its completion.  Every step of    *)
(* the controller is a step of the handshake or leaves it alone, so the    *)
(* same holds of the controller.                                           *)
(*                                                                         *)
(* Then the stream.  The controller is behind the broker by the messages   *)
(* on their way; Leads says that these messages, read one by one, take it  *)
(* from its turn and its matrix to those of the broker, and that it stands *)
(* at the end of a turn whenever the next message is not a flip.  From     *)
(* this follows what its counts, its files and its final cells hold.       *)
(*                                                                         *)
(* Last, when all of it comes to rest: ControllerRests lists the standstills *)
(* and shows that there is no other.                                       *)
(***************************************************************************)
EXTENDS Controller, TLAPS

File == [id : Nat, asked : Nat, found : Nat]

TypeInv ==
  /\ io \in {"entering", "asleep", "woken", "serving", "exited"}
  /\ dist \in {"idle", "waiting", "asleep", "returned"}
  /\ operation \in [command : {"none", "input", "output", "quit"}, id : Nat, asked : Nat,
                    completed : BOOLEAN]
  /\ operation.id <= MaxRequests + 1
  /\ requested \in 0..MaxRequests
  /\ version \in 0..MaxVersion
  /\ files \in Seq(File)

\* The request of the distributor is still to be served.
Pending ==
  /\ ~operation.completed
  /\ operation.command # "quit"
  /\ operation.id = requested
  /\ operation.asked = version
  /\ io \in {"woken", "serving"}
  /\ Len(files) + 1 = requested

\* All requests were served; io waits for the next, or is about to.
Quiet ==
  /\ io \in {"entering", "asleep"}
  /\ Len(files) = requested

Handshake ==
  /\ holder = IF io \in {"entering", "serving"} THEN "io" ELSE "nobody"
  /\ notify = IF io = "asleep" THEN <<"io">>
              ELSE IF dist = "asleep" THEN <<"dist">> ELSE <<>>
  /\ dist = "idle" => Quiet
  /\ dist = "waiting" => Pending \/ (Quiet /\ operation.completed)
  /\ dist = "asleep" => Pending
  /\ dist = "returned" => /\ operation.command = "quit" /\ io \in {"woken", "serving", "exited"}
                          /\ Len(files) = requested

IoInv == TypeInv /\ Handshake /\ ServedOnce /\ FilesAsAsked

------------------------------------------------------------------------------
\* Run starts in the invariant: it has locked the mutex for the goroutine.
LEMMA IoInitInv == IoInit => IoInv
BY IoAssumption DEF IoInit, IoInv, TypeInv, Handshake, Quiet, Pending, ServedOnce,
   FilesAsAsked, Nothing, File

\* Every step of both goroutines keeps the invariant.
LEMMA IoStepInv == IoInv /\ [IoNext]_vars => IoInv'
<1> SUFFICES ASSUME IoInv, [IoNext]_vars PROVE IoInv'
  OBVIOUS
<1> USE IoAssumption DEF IoInv, Handshake, Quiet, Pending
<1>1. CASE IoWait
  \* the distributor does not wait for an answer, so the queue is empty
  <2>1. notify = <<>> /\ dist # "asleep"
    BY <1>1 DEF IoWait
  <2>2. notify' = <<"io">>
    BY <1>1, <2>1 DEF IoWait
  <2> QED
    BY <1>1, <2>1, <2>2 DEF IoWait, TypeInv, ServedOnce, FilesAsAsked
<1>2. CASE IoResume
  BY <1>2 DEF IoResume, TypeInv, ServedOnce, FilesAsAsked
<1>3. CASE IoServe
  \* the one request under way becomes the last file
  <2> DEFINE file == [id |-> operation.id, asked |-> operation.asked, found |-> version]
  <2>1. Pending /\ dist \in {"waiting", "asleep"} /\ io = "serving"
    BY <1>3 DEF IoServe, TypeInv
  <2>2. file \in File /\ files' = Append(files, file)
    BY <1>3 DEF IoServe, TypeInv, File
  <2>3. /\ files' \in Seq(File) /\ Len(files') = Len(files) + 1
        /\ files'[Len(files) + 1] = file
        /\ \A k \in 1..Len(files) : files'[k] = files[k]
    BY <2>2 DEF TypeInv
  <2>4. TypeInv'
    BY <1>3, <2>1, <2>3 DEF IoServe, TypeInv
  <2>5. ServedOnce' /\ FilesAsAsked'
    BY <1>3, <2>1, <2>3 DEF IoServe, TypeInv, ServedOnce, FilesAsAsked
  <2>6. Handshake'
    BY <1>3, <2>1, <2>3 DEF IoServe, TypeInv, Signalled, Remaining
  <2> QED BY <2>4, <2>5, <2>6
<1>4. CASE IoQuit
  BY <1>4 DEF IoQuit, TypeInv, ServedOnce, FilesAsAsked
<1>5. CASE Request
  \* the mutex is free and the distributor idle: io sleeps and is the one woken
  <2>1. io = "asleep" /\ notify = <<"io">>
    BY <1>5 DEF Request
  <2>2. io' = "woken" /\ notify' = <<>>
    BY <1>5, <2>1 DEF Request, Signalled, Remaining
  <2> QED
    BY <1>5, <2>1, <2>2 DEF Request, TypeInv, ServedOnce, FilesAsAsked
<1>6. CASE AwaitIo
  BY <1>6 DEF AwaitIo, TypeInv, ServedOnce, FilesAsAsked
<1>7. CASE Evolve
  BY <1>7 DEF Evolve, TypeInv, ServedOnce, FilesAsAsked
<1>8. CASE Quit
  <2>1. io = "asleep" /\ notify = <<"io">>
    BY <1>8 DEF Quit
  <2>2. io' = "woken" /\ notify' = <<>>
    BY <1>8, <2>1 DEF Quit, Signalled, Remaining
  <2> QED
    BY <1>8, <2>1, <2>2 DEF Quit, TypeInv, ServedOnce, FilesAsAsked
<1>9. CASE UNCHANGED vars
  BY <1>9 DEF vars, TypeInv, ServedOnce, FilesAsAsked
<1> QED
  BY <1>1, <1>2, <1>3, <1>4, <1>5, <1>6, <1>7, <1>8, <1>9 DEF IoNext, IoSide, DistSide

\* The invariant holds of everything that starts like io and moves like it.
THEOREM IoAlwaysInv == IoInit /\ [][IoNext]_vars => []IoInv
<1>1. IoInit => IoInv
  BY IoInitInv
<1>2. IoInv /\ [IoNext]_vars => IoInv'
  BY IoStepInv
<1> QED BY <1>1, <1>2, PTL

\* IoTypeOK, and with it that the queue never holds both sides.
LEMMA IoInvTypes == IoInv => IoTypeOK
BY IoAssumption DEF IoInv, TypeInv, Handshake, IoTypeOK

\* The variables of the handshake keep their types, for every bound.
THEOREM IoTypeCorrect == IoSpec => []IoTypeOK
BY IoAlwaysInv, IoInvTypes, PTL DEF IoSpec

\* No request is lost, answered by another's completion, or served twice.
THEOREM ServesOnce == IoSpec => []ServedOnce
<1>1. IoInv => ServedOnce
  BY DEF IoInv
<1> QED BY IoAlwaysInv, <1>1, PTL DEF IoSpec

\* The file holds what the matrix held when it was asked for.
THEOREM WritesAsAsked == IoSpec => []FilesAsAsked
<1>1. IoInv => FilesAsAsked
  BY DEF IoInv
<1> QED BY IoAlwaysInv, <1>1, PTL DEF IoSpec
------------------------------------------------------------------------------
\* The steps of the distributor that read the stream.
LEMMA ReadSteps == Read => [IoNext]_vars
<1> SUFFICES ASSUME Read PROVE [IoNext]_vars
  OBVIOUS
<1> USE DEF ioVars, distVars, Message
<1>1. CASE ReadFlips
  BY <1>1 DEF ReadFlips, IoNext, DistSide
<1>2. CASE ReadTurn
  BY <1>2 DEF ReadTurn
<1>3. CASE ReadPause
  BY <1>3 DEF ReadPause
<1>4. CASE ReadSave
  BY <1>4 DEF ReadSave, Write, IoNext, DistSide
<1>5. CASE ReadQuit
  BY <1>5 DEF ReadQuit
<1> QED BY <1>1, <1>2, <1>3, <1>4, <1>5 DEF Read

\* All steps of the distributor.
LEMMA DistributorSteps == Distributor => [IoNext]_vars
<1> SUFFICES ASSUME Distributor PROVE [IoNext]_vars
  OBVIOUS
<1>1. CASE Load
  BY <1>1 DEF Load, IoNext, DistSide
<1>2. CASE Waited
  BY <1>2 DEF Waited, IoNext, DistSide
<1>3. CASE Read
  BY <1>3, ReadSteps
<1>4. CASE WriteFinal
  BY <1>4 DEF WriteFinal, Write, IoNext, DistSide
<1>5. CASE Close
  BY <1>5 DEF Close, IoNext, DistSide
<1>6. CASE CallRuns
  BY <1>6 DEF CallRuns, ioVars
<1>7. CASE CallFails
  BY <1>7 DEF CallFails, ioVars
<1> QED BY <1>1, <1>2, <1>3, <1>4, <1>5, <1>6, <1>7 DEF Distributor

\* The broker's steps leave the controller's memory alone.
LEMMA BrokerSteps == BrokerLoop \/ NodeFails => UNCHANGED vars
BY DEF BrokerLoop, NodeFails, Evaluate, WriteFlips, WriteTurn, TakeEvent, Echo, NoEvent,
   AllTurnsDone, Recover, Restart, ioVars

\* Every step of the system is a step of the handshake or leaves it alone.
LEMMA ControllerSteps == [ControllerNext]_allVars => [IoNext]_vars
<1> SUFFICES ASSUME [ControllerNext]_allVars PROVE [IoNext]_vars
  OBVIOUS
<1>1. CASE Distributor
  BY <1>1, DistributorSteps
<1>2. CASE BrokerLoop \/ NodeFails
  BY <1>2, BrokerSteps
<1>3. CASE IoGoroutine
  BY <1>3 DEF IoGoroutine, IoNext
<1>4. CASE PressKey \/ ConnectionPanics
  BY <1>4 DEF PressKey, ConnectionPanics, ioVars
<1>5. CASE UNCHANGED allVars
  BY <1>5 DEF allVars, ioVars
<1> QED BY <1>1, <1>2, <1>3, <1>4, <1>5 DEF ControllerNext

\* The controller implements the handshake.
THEOREM ImplementsIo == ControllerSpec => IoSpec
<1>1. ControllerInit => IoInit
  BY DEF ControllerInit
<1> QED BY <1>1, ControllerSteps, PTL DEF ControllerSpec, IoSpec

\* In the controller, too, no request is lost, served twice or answered by the
\* completion of another.
THEOREM ControllerServesOnce == ControllerSpec => []ServedOnce
BY ImplementsIo, ServesOnce, PTL

\* The file of a turn holds the matrix of the moment its s was echoed, although
\* flips of the next turns are already on the stream.
THEOREM ControllerWritesAsAsked == ControllerSpec => []FilesAsAsked
BY ImplementsIo, WritesAsAsked, PTL

------------------------------------------------------------------------------
(* The controller and the stream *)

Messages == Events \cup {"flips", "turn"}

Calls    == [event : Events \cup {"none"}, at : {"idle", "sent", "waiting", "lost"}]
Chan     == {c \in [open : BOOLEAN, buf : Seq(Events)] : Len(c.buf) <= 1}

Types ==
  /\ at \in {"start", "loading", "select", "calling", "saving", "quit", "finishing",
             "closing", "ended", "panicked"}
  /\ turn \in 0..Turns /\ bturn \in 0..Turns /\ count \in 0..MaxVersion
  /\ pause_flag \in BOOLEAN /\ paused \in BOOLEAN /\ eof \in BOOLEAN
  /\ call \in Calls
  /\ stream \in Seq(Messages) /\ Len(stream) <= StreamCap
  /\ bat \in {"unasked", "calls", "report", "poll", "recovering", "dispatch", "stranded",
              "ended", "crashed"}
  /\ event_chan \in Chan
  /\ echo \in Events \cup {"none"}
  /\ boundary \in Seq(Nat) /\ Len(boundary) > 0
  /\ named \in Seq(Nat) /\ written \in Nat /\ flips \in Nat /\ recoveries \in Nat

\* Where the distributor stands, it stands in the handshake with io; the broker
\* begins after the image.
Places ==
  /\ at # "panicked" =>
       /\ dist = "idle" <=> at \in {"start", "select", "calling", "quit", "closing"}
       /\ dist = "returned" <=> at = "ended"
       /\ at \in {"start", "loading"} <=> bat = "unasked"
  /\ at = "start" => requested = 0
  /\ at = "loading" => requested = 1
  /\ at \notin {"start", "loading"} => requested > 0
  /\ bat = "unasked" => /\ turn = 0 /\ count = 0 /\ version = 0 /\ written = 0
                        /\ stream = <<>> /\ boundary = <<0>> /\ event_chan.buf = <<>>
  /\ at = "calling" => call.event \in Events
  /\ at \notin {"calling", "panicked"} => call = NoCall

\* The broker's loop, its turn and the boundaries of the turns it reported.
Progress ==
  /\ bat \in {"unasked", "calls", "report", "recovering", "dispatch", "stranded"} =>
       Len(boundary) = bturn + 1
  /\ bat = "poll" => Len(boundary) = bturn + 2
  /\ bat \in {"calls", "recovering", "dispatch", "stranded", "poll"} =>
       written = boundary[Len(boundary)]
  /\ bat \in {"report", "poll"} => bturn # Turns
  /\ bat \in {"recovering", "dispatch"} => recoveries > 0
  /\ Len(boundary) <= Turns + 1
  /\ eof <=> bat \in {"ended", "crashed"}

\* A stream s of n messages leads from turn t and version v to the m boundaries b
\* and the w flips written: tn and vn say which turn and which version the
\* controller will have after each message.  What is not a flip comes between two
\* turns.
Leads(t, v, s, n, b, m, w) ==
  \E tn, vn \in [Nat -> Nat] :
    /\ tn[0] = t /\ vn[0] = v
    /\ \A i \in 1..n : /\ tn[i] = tn[i - 1] + (IF s[i] = "turn" THEN 1 ELSE 0)
                       /\ vn[i] = vn[i - 1] + (IF s[i] = "flips" THEN 1 ELSE 0)
                       /\ s[i] # "flips" => vn[i] = b[tn[i] + 1]
    /\ \A i \in 0..n : tn[i] < m
    /\ tn[n] = m - 1 /\ vn[n] = w

Sync == Leads(turn, version, stream, Len(stream), boundary, Len(boundary), written)

\* After a crash the closed channel invents turns, once the stream is empty.
Invented == Crashed /\ stream = <<>> /\ turn >= Len(boundary)

\* A stream that ended tells the controller to leave before it is empty.
Announced ==
  /\ at \in {"select", "calling", "saving"} => turn < Turns
  /\ eof /\ ~Crashed /\ at \in {"select", "calling", "saving"} =>
       \/ Len(boundary) = Turns + 1
       \/ \E i \in 1..Len(stream) : stream[i] \in {"quit", "kill"}

\* The count is that of the turn.
Counts ==
  /\ turn < Len(boundary) => count = boundary[turn + 1]
  /\ at = "quit" => count = version

\* Every file has a name, and holds or will hold the generation it names.
Names ==
  /\ Len(named) = IF requested = 0 THEN 0 ELSE requested - 1
  /\ \A k \in 2..requested :
       \/ Crashed
       \/ /\ named[k - 1] < Len(boundary)
          /\ IF k <= Len(files) THEN files[k].found = boundary[named[k - 1] + 1]
                                ELSE version = boundary[named[k - 1] + 1]

\* The keys that are on their way lead from the broker's pause to the controller's.
Applied(p, e) == IF e = "pause" THEN TRUE ELSE IF e = "resume" THEN FALSE ELSE p
Buffered      == IF event_chan.buf = <<>> THEN "none" ELSE event_chan.buf[1]

Pauses ==
  recoveries = 0 /\ bat \in {"unasked", "calls", "report", "poll"} =>
    pause_flag = Applied(Applied(Applied(paused, echo), Buffered), call.event)

CInv == /\ IoInv /\ Types /\ Places /\ Progress /\ (Sync \/ Invented)
        /\ Announced /\ Counts /\ Names /\ Pauses

\* The elements of a sequence without its first, and with one more at its end.
LEMMA TailOf ==
  ASSUME NEW S, NEW s \in Seq(S), s # <<>>
  PROVE  /\ Tail(s) \in Seq(S) /\ Len(s) \in Nat \ {0} /\ Len(Tail(s)) = Len(s) - 1
         /\ Head(s) = s[1] /\ \A i \in 1..Len(s) - 1 : Tail(s)[i] = s[i + 1]
OBVIOUS

\* What a message adds to a stream, a turn to the boundaries.
LEMMA AppendOf ==
  ASSUME NEW S, NEW s \in Seq(S), NEW e \in S
  PROVE  /\ Append(s, e) \in Seq(S) /\ Len(s) \in Nat /\ Len(Append(s, e)) = Len(s) + 1
         /\ Append(s, e)[Len(s) + 1] = e
         /\ \A i \in 1..Len(s) : Append(s, e)[i] = s[i]
OBVIOUS

\* A function on the natural numbers, read from the next argument on.
LEMMA Shifted ==
  ASSUME NEW f \in [Nat -> Nat]
  PROVE  \E g \in [Nat -> Nat] : \A i \in Nat : g[i] = f[i + 1]
<1>1. [i \in Nat |-> f[i + 1]] \in [Nat -> Nat]
  OBVIOUS
<1> QED BY <1>1

\* The first message is a turn within the boundaries, or is read at a boundary.
LEMMA FirstMessage ==
  ASSUME NEW t, NEW v, NEW s, NEW n \in Nat \ {0}, NEW b, NEW m, NEW w, NEW t1,
         Leads(t, v, s, n, b, m, w), t1 = t + (IF s[1] = "turn" THEN 1 ELSE 0)
  PROVE  t1 < m /\ (s[1] # "flips" => v = b[t1 + 1])
BY DEF Leads

\* The first message is read.
OneRead(t, v, s, n, t1, v1, s1, n1) ==
  /\ n \in Nat \ {0} /\ n1 = n - 1 /\ \A i \in 1..n1 : s1[i] = s[i + 1]
  /\ t1 = t + (IF s[1] = "turn" THEN 1 ELSE 0)
  /\ v1 = v + (IF s[1] = "flips" THEN 1 ELSE 0)

\* What is left of the stream leads on from there.
LEMMA LeadsOn ==
  ASSUME NEW t, NEW v, NEW s, NEW n, NEW b, NEW m, NEW w, NEW t1, NEW v1, NEW s1, NEW n1,
         Leads(t, v, s, n, b, m, w), OneRead(t, v, s, n, t1, v1, s1, n1)
  PROVE  Leads(t1, v1, s1, n1, b, m, w)
<1>0. /\ n \in Nat \ {0} /\ n1 = n - 1 /\ \A i \in 1..n1 : s1[i] = s[i + 1]
      /\ t1 = t + (IF s[1] = "turn" THEN 1 ELSE 0)
      /\ v1 = v + (IF s[1] = "flips" THEN 1 ELSE 0)
  BY DEF OneRead
<1>1. PICK tn \in [Nat -> Nat], vn \in [Nat -> Nat] :
        /\ tn[0] = t /\ vn[0] = v
        /\ \A i \in 1..n : /\ tn[i] = tn[i - 1] + (IF s[i] = "turn" THEN 1 ELSE 0)
                           /\ vn[i] = vn[i - 1] + (IF s[i] = "flips" THEN 1 ELSE 0)
                           /\ s[i] # "flips" => vn[i] = b[tn[i] + 1]
        /\ \A i \in 0..n : tn[i] < m
        /\ tn[n] = m - 1 /\ vn[n] = w
  BY DEF Leads
<1>2. PICK tp \in [Nat -> Nat] : \A i \in Nat : tp[i] = tn[i + 1]
  BY <1>1, Shifted
<1>3. PICK vp \in [Nat -> Nat] : \A i \in Nat : vp[i] = vn[i + 1]
  BY <1>1, Shifted
<1>4. tn[1] = t1 /\ vn[1] = v1
  BY <1>0, <1>1
<1>5. tp[0] = t1 /\ vp[0] = v1
  BY <1>2, <1>3, <1>4
<1>6. ASSUME NEW i \in 1..n1
      PROVE  /\ tp[i] = tp[i - 1] + (IF s1[i] = "turn" THEN 1 ELSE 0)
             /\ vp[i] = vp[i - 1] + (IF s1[i] = "flips" THEN 1 ELSE 0)
             /\ s1[i] # "flips" => vp[i] = b[tp[i] + 1]
  <2>1. /\ i \in Nat /\ i - 1 \in Nat /\ i + 1 \in 1..n /\ (i - 1) + 1 = i /\ (i + 1) - 1 = i
    BY <1>0
  <2>2. tp[i] = tn[i + 1] /\ tp[i - 1] = tn[i] /\ vp[i] = vn[i + 1] /\ vp[i - 1] = vn[i]
    BY <1>2, <1>3, <2>1
  <2>3. /\ tn[i + 1] = tn[i] + (IF s[i + 1] = "turn" THEN 1 ELSE 0)
        /\ vn[i + 1] = vn[i] + (IF s[i + 1] = "flips" THEN 1 ELSE 0)
        /\ s[i + 1] # "flips" => vn[i + 1] = b[tn[i + 1] + 1]
    BY <1>1, <2>1
  <2>4. s1[i] = s[i + 1]
    BY <1>0
  <2> QED BY <2>2, <2>3, <2>4
<1>7. \A i \in 0..n1 : tp[i] < m
  BY <1>0, <1>1, <1>2
<1>8. tp[n1] = m - 1 /\ vp[n1] = w
  BY <1>0, <1>1, <1>2, <1>3
<1> QED BY <1>0, <1>5, <1>6, <1>7, <1>8 DEF Leads

\* A message is written.
OneWritten(s, n, b, m, w, s1, n1, b1, m1, w1) ==
  /\ n \in Nat /\ m \in Nat \ {0} /\ w \in Nat
  /\ n1 = n + 1 /\ \A i \in 1..n : s1[i] = s[i]
  /\ \A j \in 1..m : b1[j] = b[j]
  /\ m1 = m + (IF s1[n1] = "turn" THEN 1 ELSE 0)
  /\ w1 = w + (IF s1[n1] = "flips" THEN 1 ELSE 0)
  /\ s1[n1] # "flips" => b1[m1] = w1

\* The longer stream leads to what the broker has now.
LEMMA LeadsFurther ==
  ASSUME NEW t, NEW v, NEW s, NEW n, NEW b, NEW m, NEW w,
         NEW s1, NEW n1, NEW b1, NEW m1, NEW w1,
         Leads(t, v, s, n, b, m, w), OneWritten(s, n, b, m, w, s1, n1, b1, m1, w1)
  PROVE  Leads(t, v, s1, n1, b1, m1, w1)
<1> USE DEF OneWritten
<1>1. PICK tn \in [Nat -> Nat], vn \in [Nat -> Nat] :
        /\ tn[0] = t /\ vn[0] = v
        /\ \A i \in 1..n : /\ tn[i] = tn[i - 1] + (IF s[i] = "turn" THEN 1 ELSE 0)
                           /\ vn[i] = vn[i - 1] + (IF s[i] = "flips" THEN 1 ELSE 0)
                           /\ s[i] # "flips" => vn[i] = b[tn[i] + 1]
        /\ \A i \in 0..n : tn[i] < m
        /\ tn[n] = m - 1 /\ vn[n] = w
  BY DEF Leads
<1>2. m1 - 1 \in Nat /\ n + 1 \in Nat
  OBVIOUS
<1>3. PICK tp \in [Nat -> Nat] : tp[n + 1] = m1 - 1 /\ \A i \in Nat : i # n + 1 => tp[i] = tn[i]
  <2>1. tn \in [Nat -> Nat]
    BY <1>1
  <2>2. [tn EXCEPT ![n + 1] = m1 - 1] \in [Nat -> Nat]
    BY <1>2, <2>1
  <2>3. /\ [tn EXCEPT ![n + 1] = m1 - 1][n + 1] = m1 - 1
        /\ \A i \in Nat : i # n + 1 => [tn EXCEPT ![n + 1] = m1 - 1][i] = tn[i]
    BY <1>2, <2>1
  <2> QED BY <2>2, <2>3, Zenon
<1>4. PICK vp \in [Nat -> Nat] : vp[n + 1] = w1 /\ \A i \in Nat : i # n + 1 => vp[i] = vn[i]
  <2>1. vn \in [Nat -> Nat]
    BY <1>1
  <2>2. [vn EXCEPT ![n + 1] = w1] \in [Nat -> Nat]
    BY <1>2, <2>1
  <2>3. /\ [vn EXCEPT ![n + 1] = w1][n + 1] = w1
        /\ \A i \in Nat : i # n + 1 => [vn EXCEPT ![n + 1] = w1][i] = vn[i]
    BY <1>2, <2>1
  <2> QED BY <2>2, <2>3, Zenon
<1>5. \A i \in 0..n : tp[i] = tn[i] /\ vp[i] = vn[i] /\ tn[i] \in Nat /\ tn[i] < m
  BY <1>1, <1>3, <1>4, SMTT(30)
<1>6. tp[0] = t /\ vp[0] = v
  BY <1>1, <1>5
<1>7. ASSUME NEW i \in 1..n + 1
      PROVE  /\ tp[i] = tp[i - 1] + (IF s1[i] = "turn" THEN 1 ELSE 0)
             /\ vp[i] = vp[i - 1] + (IF s1[i] = "flips" THEN 1 ELSE 0)
             /\ s1[i] # "flips" => vp[i] = b1[tp[i] + 1]
  <2>1. CASE i \in 1..n
    <3>1. i \in 0..n /\ i - 1 \in 0..n /\ s1[i] = s[i]
      BY <2>1
    <3>2. b1[tn[i] + 1] = b[tn[i] + 1]
      BY <1>5, <3>1
    <3> QED BY <1>1, <1>5, <2>1, <3>1, <3>2
  <2>2. CASE i = n + 1
    <3>1. i - 1 = n /\ n \in 0..n
      BY <2>2
    <3>2. tp[i - 1] = m - 1 /\ vp[i - 1] = w
      BY <1>1, <1>5, <3>1
    <3> QED BY <1>3, <1>4, <2>2, <3>2
  <2> QED BY <2>1, <2>2
<1>8. \A i \in 0..n + 1 : tp[i] < m1
  <2>1. m <= m1 /\ m1 - 1 < m1
    OBVIOUS
  <2>2. ASSUME NEW i \in 0..n PROVE tp[i] < m1
    BY <1>5, <2>1
  <2>3. tp[n + 1] < m1
    BY <1>3, <2>1
  <2>4. \A i \in 0..n + 1 : i \in 0..n \/ i = n + 1
    OBVIOUS
  <2> QED BY <2>2, <2>3, <2>4
<1> QED BY <1>3, <1>4, <1>6, <1>7, <1>8 DEF Leads

\* What the stream is after a message was read or written, and the boundaries after
\* a turn.
LEMMA StreamTypes ==
  ASSUME Types
  PROVE  /\ stream # <<>> =>
              /\ Tail(stream) \in Seq(Messages) /\ Len(stream) \in Nat \ {0}
              /\ Len(Tail(stream)) = Len(stream) - 1 /\ Head(stream) = stream[1]
              /\ \A i \in 1..Len(stream) - 1 : Tail(stream)[i] = stream[i + 1]
         /\ \A m \in Messages :
              /\ Append(stream, m) \in Seq(Messages) /\ Len(stream) \in Nat
              /\ Len(Append(stream, m)) = Len(stream) + 1
              /\ Append(stream, m)[Len(stream) + 1] = m
              /\ \A i \in 1..Len(stream) : Append(stream, m)[i] = stream[i]
         /\ Append(boundary, written) \in Seq(Nat) /\ Len(boundary) \in Nat \ {0}
         /\ Len(Append(boundary, written)) = Len(boundary) + 1
         /\ Append(boundary, written)[Len(boundary) + 1] = written
         /\ \A i \in 1..Len(boundary) : Append(boundary, written)[i] = boundary[i]
<1>1. stream \in Seq(Messages) /\ boundary \in Seq(Nat) /\ written \in Nat /\ Len(boundary) > 0
  BY DEF Types
<1>2. stream # <<>> =>
              /\ Tail(stream) \in Seq(Messages) /\ Len(stream) \in Nat \ {0}
              /\ Len(Tail(stream)) = Len(stream) - 1 /\ Head(stream) = stream[1]
              /\ \A i \in 1..Len(stream) - 1 : Tail(stream)[i] = stream[i + 1]
  BY <1>1, TailOf, Zenon
<1>3. ASSUME NEW m \in Messages
      PROVE  /\ Append(stream, m) \in Seq(Messages) /\ Len(stream) \in Nat
             /\ Len(Append(stream, m)) = Len(stream) + 1
             /\ Append(stream, m)[Len(stream) + 1] = m
             /\ \A i \in 1..Len(stream) : Append(stream, m)[i] = stream[i]
  BY <1>1, AppendOf
<1>4. /\ Append(boundary, written) \in Seq(Nat) /\ Len(boundary) \in Nat
      /\ Len(Append(boundary, written)) = Len(boundary) + 1
      /\ Append(boundary, written)[Len(boundary) + 1] = written
      /\ \A i \in 1..Len(boundary) : Append(boundary, written)[i] = boundary[i]
  BY <1>1, AppendOf
<1>5. Len(boundary) # 0
  BY <1>1, <1>4
<1> QED BY <1>2, <1>3, <1>4, <1>5

\* The calls and channels that the steps make of one.
LEMMA ChanSteps ==
  ASSUME event_chan \in Chan
  PROVE  /\ [open |-> TRUE, buf |-> <<>>] \in Chan
         /\ [open |-> event_chan.open, buf |-> <<>>] \in Chan
         /\ \A e \in Events : [open |-> event_chan.open, buf |-> <<e>>] \in Chan
         /\ \A o \in BOOLEAN : [open |-> o, buf |-> event_chan.buf] \in Chan
         /\ event_chan.buf # <<>> => Head(event_chan.buf) \in Events /\ event_chan.buf[1] \in Events
                                     /\ Head(event_chan.buf) = event_chan.buf[1]
<1>1. event_chan \in [open : BOOLEAN, buf : Seq(Events)] /\ Len(event_chan.buf) <= 1
  BY DEF Chan
<1>2. event_chan.buf \in Seq(Events) /\ event_chan.open \in BOOLEAN
  BY <1>1
<1>3. ASSUME NEW o \in BOOLEAN, NEW b \in Seq(Events), Len(b) <= 1
      PROVE  [open |-> o, buf |-> b] \in Chan
  BY <1>3 DEF Chan
<1>4. <<>> \in Seq(Events) /\ Len(<<>>) <= 1
  OBVIOUS
<1>5. \A e \in Events : <<e>> \in Seq(Events) /\ Len(<<e>>) <= 1
  OBVIOUS
<1>6. event_chan.buf # <<>> => Head(event_chan.buf) \in Events /\ event_chan.buf[1] \in Events
                               /\ Head(event_chan.buf) = event_chan.buf[1]
  BY <1>2
<1>7. TRUE \in BOOLEAN
  OBVIOUS
<1> QED BY <1>1, <1>2, <1>3, <1>4, <1>5, <1>6, <1>7, Zenon

\* The calls that are made, wait, are lost or return.
LEMMA CallSteps ==
  ASSUME call \in Calls
  PROVE  /\ [call EXCEPT !.at = "waiting"] \in Calls /\ [call EXCEPT !.at = "lost"] \in Calls
         /\ [call EXCEPT !.at = "waiting"].event = call.event
         /\ NoCall \in Calls
         /\ \A e \in Events : [event |-> e, at |-> "sent"] \in Calls
BY DEF Calls, NoCall

\* The types of the controller.
LEMMA TypesStep ==
  ASSUME IoInv, Types, Places, Progress, Announced, [ControllerNext]_allVars
  PROVE  Types'
<1> USE ControllerAssumption DEF ioVars, distVars, loopVars, brokerVars, vars
<1>0. version \in 0..MaxVersion
  BY DEF IoInv, TypeInv
<1>1. event_chan' \in Chan
  <2>1. event_chan \in Chan
    BY DEF Types
  <2>2. \/ event_chan' = event_chan
        \/ event_chan' = [open |-> TRUE, buf |-> <<>>]
        \/ event_chan' = [open |-> event_chan.open, buf |-> <<>>]
        \/ \E e \in Events : event_chan' = [open |-> event_chan.open, buf |-> <<e>>]
        \/ \E o \in BOOLEAN : event_chan' = [open |-> o, buf |-> event_chan.buf]
    <3>1. CASE CallRuns
      <4>1. call.event \in Events
        BY <3>1 DEF CallRuns, Places
      <4> QED BY <3>1, <4>1 DEF CallRuns
    <3>2. CASE Load \/ WriteFinal \/ Close \/ CallFails \/ PressKey \/ ConnectionPanics \/ Read
      BY <3>2 DEF Load, WriteFinal, Close, CallFails, PressKey, ConnectionPanics, Read, ReadFlips, ReadTurn, ReadPause,
         ReadSave, ReadQuit
    <3>3. CASE Waited
      BY <3>3 DEF Waited, InitReturns
    <3>4. CASE BrokerLoop
      BY <3>4 DEF BrokerLoop, Evaluate, WriteFlips, WriteTurn, TakeEvent, Echo, NoEvent,
         AllTurnsDone, Recover, Restart, CloseSession
    <3>5. CASE NodeFails
      BY <3>5 DEF NodeFails
    <3>6. CASE IoGoroutine \/ UNCHANGED allVars
      BY <3>6 DEF IoGoroutine, allVars
    <3> QED BY <3>1, <3>2, <3>3, <3>4, <3>5, <3>6 DEF ControllerNext, Distributor
  <2> QED BY <2>1, <2>2, ChanSteps, Zenon
<1>2. call' \in Calls
  <2>1. call \in Calls
    BY DEF Types
  <2>2. \/ call' = call
        \/ call' = [call EXCEPT !.at = "waiting"]
        \/ call' = [call EXCEPT !.at = "lost"]
        \/ call' = NoCall
        \/ \E e \in Events : call' = [event |-> e, at |-> "sent"]
    <3>1. CASE CallRuns
      BY <3>1 DEF CallRuns
    <3>2. CASE Load \/ WriteFinal \/ Close \/ CallFails \/ ConnectionPanics \/ Waited \/ Read
      BY <3>2 DEF Load, WriteFinal, Close, CallFails, ConnectionPanics, Waited, Read, ReadFlips, ReadTurn, ReadPause,
         ReadSave, ReadQuit
    <3>3. CASE PressKey
      BY <3>3 DEF PressKey, Events
    <3>4. CASE BrokerLoop \/ NodeFails
      BY <3>4 DEF BrokerLoop, Evaluate, WriteFlips, WriteTurn, TakeEvent, Echo, NoEvent,
         AllTurnsDone, Recover, Restart, NodeFails
    <3>5. CASE IoGoroutine \/ UNCHANGED allVars
      BY <3>5 DEF IoGoroutine, allVars
    <3> QED BY <3>1, <3>2, <3>3, <3>4, <3>5 DEF ControllerNext, Distributor
  <2> QED BY <2>1, <2>2, CallSteps, Zenon
<1>3. stream' \in Seq(Messages) /\ Len(stream') <= StreamCap
  <2>1. \/ stream' = stream
        \/ stream # <<>> /\ stream' = Tail(stream)
        \/ Room /\ \E m \in Messages : stream' = Append(stream, m)
    <3>1. CASE Read
      BY <3>1 DEF Read, ReadFlips, ReadTurn, ReadPause, ReadSave, ReadQuit, Message
    <3>2. CASE Load \/ WriteFinal \/ Close \/ CallFails \/ Waited \/ CallRuns \/ PressKey \/ ConnectionPanics \/ NodeFails
      BY <3>2 DEF Load, WriteFinal, Close, CallFails, Waited, CallRuns, PressKey, ConnectionPanics, NodeFails
    <3>3. CASE WriteFlips \/ WriteTurn
      BY <3>3 DEF WriteFlips, WriteTurn, Messages
    <3>4. CASE Echo
      BY <3>4 DEF Echo, Messages, Types
    <3>5. CASE Evaluate \/ TakeEvent \/ NoEvent \/ AllTurnsDone \/ Recover \/ Restart
      BY <3>5 DEF Evaluate, TakeEvent, NoEvent, AllTurnsDone, Recover, Restart
    <3>6. CASE IoGoroutine \/ UNCHANGED allVars
      BY <3>6 DEF IoGoroutine, allVars
    <3> QED BY <3>1, <3>2, <3>3, <3>4, <3>5, <3>6 DEF ControllerNext, Distributor, BrokerLoop
  <2>2. stream \in Seq(Messages) /\ Len(stream) <= StreamCap
    BY DEF Types
  <2>3. CASE stream # <<>> /\ stream' = Tail(stream)
    BY <2>2, <2>3, StreamTypes
  <2>4. ASSUME Room, NEW m \in Messages, stream' = Append(stream, m)
        PROVE  stream' \in Seq(Messages) /\ Len(stream') <= StreamCap
    BY <2>2, <2>4, StreamTypes DEF Room
  <2> QED BY <2>1, <2>2, <2>3, <2>4
<1>4. /\ boundary' \in Seq(Nat) /\ Len(boundary') > 0
  <2>1. boundary' = boundary \/ boundary' = Append(boundary, written)
    <3>1. CASE Distributor
      BY <3>1 DEF Distributor, Load, WriteFinal, Close, CallFails, Waited, CallRuns, Read, ReadFlips,
         ReadTurn, ReadPause, ReadSave, ReadQuit
    <3>2. CASE BrokerLoop
      BY <3>2 DEF BrokerLoop, Evaluate, WriteFlips, WriteTurn, TakeEvent, Echo, NoEvent, AllTurnsDone,
         Recover, Restart
    <3>3. CASE PressKey \/ ConnectionPanics \/ NodeFails \/ IoGoroutine \/ UNCHANGED allVars
      BY <3>3 DEF PressKey, ConnectionPanics, NodeFails, IoGoroutine, allVars
    <3> QED BY <3>1, <3>2, <3>3 DEF ControllerNext
  <2>2. boundary \in Seq(Nat) /\ Len(boundary) > 0
    BY DEF Types
  <2> QED BY <2>1, <2>2, StreamTypes
<1>5. named' \in Seq(Nat)
  <2>1. named' = named \/ named' = Append(named, turn)
    <3>1. CASE Distributor
      BY <3>1 DEF Distributor, Load, WriteFinal, Write, Close, CallFails, Waited, CallRuns, Read,
         ReadFlips, ReadTurn, ReadPause, ReadSave, ReadQuit
    <3>2. CASE BrokerLoop
      BY <3>2 DEF BrokerLoop, Evaluate, WriteFlips, WriteTurn, TakeEvent, Echo, NoEvent, AllTurnsDone,
         Recover, Restart
    <3>3. CASE PressKey \/ ConnectionPanics \/ NodeFails \/ IoGoroutine \/ UNCHANGED allVars
      BY <3>3 DEF PressKey, ConnectionPanics, NodeFails, IoGoroutine, allVars
    <3> QED BY <3>1, <3>2, <3>3 DEF ControllerNext
  <2>2. named \in Seq(Nat) /\ turn \in Nat
    BY DEF Types
  <2> QED BY <2>1, <2>2
<1>6. echo' \in Events \cup {"none"}
  <2>1. echo \in Events \cup {"none"} /\ event_chan \in Chan
    BY DEF Types
  <2>2. CASE TakeEvent
    BY <2>1, <2>2, ChanSteps DEF TakeEvent
  <2>3. CASE Distributor
    BY <2>1, <2>3 DEF Distributor, Load, WriteFinal, Close, CallFails, Waited, CallRuns, Read,
       ReadFlips, ReadTurn, ReadPause, ReadSave, ReadQuit
  <2>4. CASE Evaluate \/ WriteFlips \/ WriteTurn \/ Echo \/ NoEvent \/ AllTurnsDone \/ Recover \/ Restart
    BY <2>1, <2>4 DEF Evaluate, WriteFlips, WriteTurn, Echo, NoEvent, AllTurnsDone, Recover, Restart
  <2>5. CASE PressKey \/ ConnectionPanics \/ NodeFails \/ IoGoroutine \/ UNCHANGED allVars
    BY <2>1, <2>5 DEF PressKey, ConnectionPanics, NodeFails, IoGoroutine, allVars
  <2> QED BY <2>2, <2>3, <2>4, <2>5 DEF ControllerNext, BrokerLoop
<1>7. /\ at' \in {"start", "loading", "select", "calling", "saving", "quit", "finishing",
                  "closing", "ended", "panicked"}
      /\ turn' \in 0..Turns /\ bturn' \in 0..Turns /\ count' \in 0..MaxVersion
      /\ pause_flag' \in BOOLEAN /\ paused' \in BOOLEAN /\ eof' \in BOOLEAN
      /\ bat' \in {"unasked", "calls", "report", "poll", "recovering", "dispatch", "stranded",
                   "ended", "crashed"}
      /\ written' \in Nat /\ flips' \in Nat /\ recoveries' \in Nat
  <2>0. /\ at \in {"start", "loading", "select", "calling", "saving", "quit", "finishing",
                  "closing", "ended", "panicked"}
        /\ turn \in 0..Turns /\ bturn \in 0..Turns /\ count \in 0..MaxVersion
        /\ pause_flag \in BOOLEAN /\ paused \in BOOLEAN /\ eof \in BOOLEAN
        /\ bat \in {"unasked", "calls", "report", "poll", "recovering", "dispatch", "stranded",
                    "ended", "crashed"}
        /\ written \in Nat /\ flips \in Nat /\ recoveries \in Nat
    BY DEF Types
  <2>1. CASE Load \/ WriteFinal \/ Close \/ CallFails \/ Waited
    BY <2>0, <2>1 DEF Load, WriteFinal, Close, CallFails, Waited, InitReturns
  <2>2. CASE CallRuns \/ PressKey \/ ConnectionPanics
    BY <2>0, <2>2 DEF CallRuns, BrokerPanics, PressKey, ConnectionPanics
  <2>3. CASE ReadFlips \/ ReadPause \/ ReadSave \/ ReadQuit
    BY <2>0, <2>3 DEF ReadFlips, ReadPause, ReadSave, ReadQuit
  <2>4. CASE ReadTurn
    <3>1. at = "select" /\ turn < Turns
      BY <2>4 DEF ReadTurn, Message, Announced
    <3>2. turn' = turn + 1 /\ count' = version
      BY <2>4 DEF ReadTurn
    <3>3. turn' \in 0..Turns /\ count' \in 0..MaxVersion
      BY <1>0, <2>0, <3>1, <3>2
    <3> QED BY <2>0, <2>4, <3>3 DEF ReadTurn
  <2>5. CASE Evaluate \/ WriteFlips \/ WriteTurn \/ TakeEvent \/ AllTurnsDone \/ Recover \/ Restart
    <3>1. CASE Evaluate
      BY <2>0, <3>1 DEF Evaluate
    <3>2. CASE WriteFlips
      <4>1. flips' = flips - 1 /\ flips > 0 /\ written' = written + 1
        BY <3>2 DEF WriteFlips
      <4>2. flips' \in Nat /\ written' \in Nat
        BY <2>0, <4>1
      <4> QED BY <2>0, <3>2, <4>2 DEF WriteFlips
    <3>3. CASE WriteTurn \/ TakeEvent \/ Recover \/ Restart
      BY <2>0, <3>3 DEF WriteTurn, TakeEvent, Recover, Restart
    <3>4. CASE AllTurnsDone
      BY <2>0, <3>4 DEF AllTurnsDone, CloseSession
    <3> QED BY <2>5, <3>1, <3>2, <3>3, <3>4
  <2>6. CASE Echo \/ NoEvent
    <3>1. bturn # Turns /\ (bturn' = bturn \/ bturn' = bturn + 1)
      BY <2>6 DEF Echo, NoEvent, Continue, Progress
    <3>2. bturn' \in 0..Turns
      BY <2>0, <3>1
    <3> QED BY <2>0, <2>6, <3>2 DEF Echo, NoEvent, Continue, CloseSession
  <2>7. CASE NodeFails
    <3>1. recoveries' = recoveries + 1
      BY <2>7 DEF NodeFails
    <3>2. recoveries' \in Nat
      BY <2>0, <3>1
    <3>3. /\ bat' \in {"recovering", "crashed"} /\ (eof' = eof \/ eof' = TRUE)
          /\ UNCHANGED <<at, turn, bturn, count, pause_flag, paused, written, flips>>
      BY <2>7 DEF NodeFails, BrokerPanics
    <3> QED BY <2>0, <3>2, <3>3
  <2>8. CASE IoGoroutine \/ UNCHANGED allVars
    BY <2>0, <2>8 DEF IoGoroutine, allVars
  <2> QED BY <2>1, <2>2, <2>3, <2>4, <2>5, <2>6, <2>7, <2>8
          DEF ControllerNext, Distributor, Read, BrokerLoop
<1> QED BY <1>1, <1>2, <1>3, <1>4, <1>5, <1>6, <1>7 DEF Types

\* A broker that crashed does nothing more.
LEMMA CrashStays ==
  ASSUME Places, [ControllerNext]_allVars, Crashed
  PROVE  Crashed' /\ boundary' = boundary /\ written' = written
<1> USE DEF Crashed, ioVars, distVars, loopVars, brokerVars
<1>1. CASE Load \/ WriteFinal \/ Close \/ CallFails \/ CallRuns \/ PressKey \/ ConnectionPanics
  BY <1>1 DEF Load, WriteFinal, Close, CallFails, CallRuns, PressKey, ConnectionPanics
<1>2. CASE Waited
  BY <1>2 DEF Waited, Places
<1>3. CASE Read
  BY <1>3 DEF Read, ReadFlips, ReadTurn, ReadPause, ReadSave, ReadQuit
<1>4. CASE BrokerLoop \/ NodeFails
  BY <1>4 DEF BrokerLoop, Evaluate, WriteFlips, WriteTurn, TakeEvent, Echo, NoEvent, AllTurnsDone,
     Recover, Restart, NodeFails
<1>5. CASE IoGoroutine \/ UNCHANGED allVars
  BY <1>5 DEF IoGoroutine, allVars
<1> QED BY <1>1, <1>2, <1>3, <1>4, <1>5 DEF ControllerNext, Distributor

\* What the io goroutine leaves alone: all it does to the distributor is to wake it.
LEMMA IoSideKeeps ==
  ASSUME IoInv, IoSide
  PROVE  /\ UNCHANGED <<version, requested>>
         /\ dist' = dist \/ (dist = "asleep" /\ dist' = "waiting")
<1>1. CASE IoServe
  <2>1. io = "serving" /\ UNCHANGED <<version, requested>>
        /\ dist' = IF Signalled("dist") THEN "waiting" ELSE dist
    BY <1>1 DEF IoServe
  <2>2. dist # "asleep" => notify = <<>>
    BY <2>1 DEF IoInv, Handshake
  <2> QED BY <2>1, <2>2 DEF Signalled
<1>2. CASE IoWait \/ IoResume \/ IoQuit
  BY <1>2 DEF IoWait, IoResume, IoQuit
<1> QED BY <1>1, <1>2 DEF IoSide

\* The distributor waits exactly where it asked for something.
LEMMA PlacesStep ==
  ASSUME IoInv, Types, Places, Progress, [ControllerNext]_allVars
  PROVE  Places'
<1> USE DEF Places, ioVars, distVars, loopVars, brokerVars, vars
<1>0. requested \in Nat
  BY DEF IoInv, TypeInv
<1>1. CASE Load
  BY <1>0, <1>1 DEF Load, Request
<1>2. CASE Waited
  <2>1. dist' \in {"idle", "asleep"} /\ UNCHANGED <<requested, version>>
    BY <1>2 DEF Waited, InitReturns, AwaitIo
  <2>2. CASE dist' # "idle"
    BY <1>2, <2>1, <2>2 DEF Waited, InitReturns
  <2>3. CASE dist' = "idle"
    BY <1>0, <1>2, <2>1, <2>3 DEF Waited, InitReturns
  <2> QED BY <2>2, <2>3
<1>3. CASE PressKey
  <2>1. call'.event \in Events
    BY <1>3 DEF PressKey, Events
  <2> QED BY <1>3, <2>1 DEF PressKey
<1>4. CASE ReadFlips
  BY <1>4 DEF ReadFlips, Message, Evolve
<1>5. CASE ReadTurn \/ ReadPause \/ ReadQuit
  BY <1>5 DEF ReadTurn, ReadPause, ReadQuit, Message
<1>6. CASE ReadSave
  BY <1>0, <1>6 DEF ReadSave, Write, Request, Message
<1>7. CASE WriteFinal
  BY <1>0, <1>7 DEF WriteFinal, Write, Request
<1>8. CASE Close
  BY <1>8 DEF Close, Quit
<1>9. CASE CallRuns
  <2>1. /\ at = "calling"
        /\ \/ at' = "select" /\ call' = NoCall
           \/ at' = "calling" /\ call'.event = call.event
    <3>1. [call EXCEPT !.at = "waiting"].event = call.event
      BY CallSteps DEF Types
    <3>2. \/ at' = "select" /\ call' = NoCall
          \/ at' = at /\ call' = [call EXCEPT !.at = "waiting"]
          \/ at' = at /\ call' = call
      BY <1>9 DEF CallRuns
    <3>3. at = "calling"
      BY <1>9 DEF CallRuns
    <3>4. call' = [call EXCEPT !.at = "waiting"] => call'.event = call.event
      BY <3>1, Zenon
    <3>5. call' = call => call'.event = call.event
      BY Zenon
    <3> QED BY <3>2, <3>3, <3>4, <3>5, Zenon
  <2>2. /\ UNCHANGED <<dist, requested, version, turn, count, written, stream, boundary>>
        /\ bat' = bat \/ bat' = "crashed"
    BY <1>9 DEF CallRuns, BrokerPanics
  <2> QED BY <2>1, <2>2
<1>10. CASE CallFails \/ ConnectionPanics
  BY <1>10 DEF CallFails, ConnectionPanics
<1>11. CASE BrokerLoop \/ NodeFails
  <2>1. bat \notin {"unasked"} /\ bat' # "unasked"
    <3>1. CASE Evaluate \/ WriteFlips \/ WriteTurn \/ TakeEvent \/ Recover \/ Restart
      BY <3>1 DEF Evaluate, WriteFlips, WriteTurn, TakeEvent, Recover, Restart
    <3>2. CASE Echo \/ NoEvent \/ AllTurnsDone
      BY <3>2 DEF Echo, NoEvent, AllTurnsDone, Continue, CloseSession
    <3>3. CASE NodeFails
      BY <3>3 DEF NodeFails, BrokerPanics
    <3> QED BY <1>11, <3>1, <3>2, <3>3 DEF BrokerLoop
  <2>2. UNCHANGED <<dist, requested, at>>
    BY <1>11 DEF BrokerLoop, NodeFails, Evaluate, WriteFlips, WriteTurn, TakeEvent, Echo, NoEvent,
       AllTurnsDone, Recover, Restart
  <2>3. call' = call \/ (call.at = "waiting" /\ call' = [call EXCEPT !.at = "lost"])
    BY <1>11 DEF BrokerLoop, NodeFails, Evaluate, WriteFlips, WriteTurn, TakeEvent, Echo, NoEvent,
       AllTurnsDone, Recover, Restart
  <2>4. call' = call \/ (call # NoCall /\ call'.event = call.event)
    BY <2>3 DEF NoCall, Calls, Types
  <2> QED BY <2>1, <2>2, <2>4
<1>12. CASE IoGoroutine
  BY <1>12, IoSideKeeps DEF IoGoroutine
<1>13. CASE UNCHANGED allVars
  BY <1>13 DEF allVars
<1> QED
  BY <1>1, <1>2, <1>3, <1>4, <1>5, <1>6, <1>7, <1>8, <1>9, <1>10, <1>11, <1>12, <1>13
     DEF ControllerNext, Distributor, Read

\* The broker's turn goes on with the boundaries.
LEMMA ProgressStep ==
  ASSUME IoInv, Types, Places, Progress, [ControllerNext]_allVars
  PROVE  Progress'
<1> USE DEF Progress, ioVars, distVars, loopVars, brokerVars
<1>0. bturn \in 0..Turns /\ Turns \in Nat /\ Len(boundary) \in Nat \ {0} /\ recoveries \in Nat
      /\ bat \in {"unasked", "calls", "report", "poll", "recovering", "dispatch", "stranded",
                  "ended", "crashed"}
  BY ControllerAssumption, StreamTypes DEF Types
<1>1. CASE Load \/ WriteFinal \/ Close \/ CallFails \/ Read \/ PressKey \/ ConnectionPanics
  BY <1>1 DEF Load, WriteFinal, Close, CallFails, PressKey, ConnectionPanics, Read, ReadFlips, ReadTurn, ReadPause,
     ReadSave, ReadQuit
<1>2. CASE Waited
  <2>1. UNCHANGED <<bturn, written, boundary, recoveries, eof>>
        /\ (bat' = bat \/ (bat' \in {"calls", "stranded"} /\ bat = "unasked"))
    BY <1>2 DEF Waited, InitReturns, Places
  <2>2. CASE bat' = bat
    BY <2>1, <2>2
  <2>3. CASE bat' \in {"calls", "stranded"} /\ bat = "unasked"
    <3>1. boundary = <<0>> /\ written = 0
      BY <2>3 DEF Places
    <3>2. Len(boundary) = 1 /\ boundary[1] = 0
      BY <3>1
    <3>3. written = boundary[Len(boundary)]
      BY <3>1, <3>2
    <3> QED BY <2>1, <2>3, <3>3
  <2> QED BY <2>1, <2>2, <2>3
<1>3. CASE CallRuns
  BY <1>3 DEF CallRuns, BrokerPanics
<1>4. CASE Evaluate
  BY <1>4 DEF Evaluate
<1>5. CASE WriteFlips
  BY <1>5 DEF WriteFlips
<1>6. CASE WriteTurn
  <2>1. /\ Len(boundary') = Len(boundary) + 1 /\ boundary'[Len(boundary) + 1] = written
        /\ written' = written /\ bturn' = bturn /\ bat = "report" /\ bat' = "poll" /\ eof' = eof
    BY <1>6, StreamTypes DEF WriteTurn
  <2> QED BY <1>0, <2>1
<1>7. CASE TakeEvent
  BY <1>7 DEF TakeEvent
<1>8. CASE Echo
  BY <1>0, <1>8 DEF Echo, CloseSession, Continue
<1>9. CASE NoEvent
  BY <1>0, <1>9 DEF NoEvent, Continue
<1>10. CASE AllTurnsDone
  BY <1>10 DEF AllTurnsDone, CloseSession
<1>11. CASE Recover \/ Restart
  BY <1>11 DEF Recover, Restart
<1>12. CASE NodeFails
  BY <1>0, <1>12 DEF NodeFails, BrokerPanics
<1>13. CASE IoGoroutine \/ UNCHANGED allVars
  BY <1>13 DEF IoGoroutine, allVars
<1> QED
  BY <1>1, <1>2, <1>3, <1>4, <1>5, <1>6, <1>7, <1>8, <1>9, <1>10, <1>11, <1>12, <1>13
     DEF ControllerNext, Distributor, BrokerLoop

\* Where the controller is on the stream: within the turns that were reported, and at
\* the last of them when there is no message.
LEMMA SyncBounds ==
  ASSUME Types, Sync
  PROVE  turn < Len(boundary) /\ (stream = <<>> => turn = Len(boundary) - 1)
<1>1. Len(stream) \in Nat /\ (stream = <<>> => Len(stream) = 0)
  BY DEF Types
<1>2. ASSUME NEW n \in Nat, NEW s, NEW b, NEW m, NEW w, NEW t, NEW v, Leads(t, v, s, n, b, m, w)
      PROVE  t < m /\ (n = 0 => t = m - 1)
  BY <1>2 DEF Leads
<1> QED BY <1>1, <1>2 DEF Sync

\* A message is read: the controller is on its way as before, and what is not a flip
\* finds it at a boundary.
LEMMA ReadLeads ==
  ASSUME Types, Sync \/ Invented, NEW m, Message(m)
  PROVE  /\ Leads(turn + (IF m = "turn" THEN 1 ELSE 0), version + (IF m = "flips" THEN 1 ELSE 0),
                  stream', Len(stream'), boundary, Len(boundary), written)
         /\ turn + (IF m = "turn" THEN 1 ELSE 0) < Len(boundary)
         /\ m # "flips" => version = boundary[turn + (IF m = "turn" THEN 1 ELSE 0) + 1]
<1>1. stream # <<>> /\ m = Head(stream) /\ stream' = Tail(stream)
  BY DEF Message
<1>2. /\ Len(stream) \in Nat \ {0} /\ Len(stream') = Len(stream) - 1 /\ m = stream[1]
      /\ \A i \in 1..Len(stream) - 1 : stream'[i] = stream[i + 1]
  BY <1>1, StreamTypes
<1>3. Leads(turn, version, stream, Len(stream), boundary, Len(boundary), written)
  BY <1>1 DEF Sync, Invented
<1>4. /\ turn + (IF m = "turn" THEN 1 ELSE 0) < Len(boundary)
      /\ m # "flips" => version = boundary[turn + (IF m = "turn" THEN 1 ELSE 0) + 1]
  BY <1>2, <1>3, FirstMessage
<1>5. Leads(turn + (IF m = "turn" THEN 1 ELSE 0), version + (IF m = "flips" THEN 1 ELSE 0),
            stream', Len(stream'), boundary, Len(boundary), written)
  <2>1. OneRead(turn, version, stream, Len(stream), turn + (IF m = "turn" THEN 1 ELSE 0),
                version + (IF m = "flips" THEN 1 ELSE 0), stream', Len(stream'))
    BY <1>2 DEF OneRead
  <2> QED BY <1>3, <2>1, LeadsOn
<1> QED BY <1>4, <1>5

\* The stream ends before the controller was told to leave only when the broker
\* crashed.
LEMMA EofCrashed ==
  ASSUME Types, Sync \/ Invented, Announced, at = "select", stream = <<>>, eof
  PROVE  Crashed /\ turn >= Len(boundary) - 1
<1>1. /\ turn \in 0..Turns /\ Turns \in Nat /\ Len(boundary) \in Nat /\ ~ (\E i \in 1..0 : TRUE)
      /\ Len(stream) = 0
  BY ControllerAssumption, StreamTypes DEF Types
<1>2. turn < Turns /\ (~Crashed => Len(boundary) = Turns + 1)
  BY <1>1 DEF Announced
<1>3. CASE Sync
  BY <1>1, <1>2, <1>3, SyncBounds
<1>4. CASE Invented
  BY <1>1, <1>4 DEF Invented
<1> QED BY <1>3, <1>4

\* What the controller has read and what the broker has written.
Course == <<turn, version, stream, boundary, written>>

\* It changes only where a message is read or written.
LEMMA CourseKept ==
  ASSUME IoInv, ControllerNext,
         ~ReadFlips, ~ReadTurn, ~ReadPause, ~ReadSave, ~ReadQuit, ~WriteFlips, ~WriteTurn, ~Echo
  PROVE  UNCHANGED Course
<1> USE DEF Course, ioVars, distVars, loopVars, brokerVars, vars
<1>1. CASE Load \/ WriteFinal \/ Close \/ CallFails \/ CallRuns \/ PressKey \/ ConnectionPanics \/ NodeFails
  BY <1>1 DEF Load, WriteFinal, Write, Request, Close, Quit, CallFails, CallRuns, PressKey, ConnectionPanics, NodeFails
<1>2. CASE Waited
  BY <1>2 DEF Waited, AwaitIo
<1>3. CASE Evaluate \/ TakeEvent \/ NoEvent \/ AllTurnsDone \/ Recover \/ Restart
  BY <1>3 DEF Evaluate, TakeEvent, NoEvent, AllTurnsDone, Recover, Restart
<1>4. CASE IoGoroutine
  BY <1>4, IoSideKeeps DEF IoGoroutine
<1> QED BY <1>1, <1>2, <1>3, <1>4 DEF ControllerNext, Distributor, Read, BrokerLoop

\* The stream leads from the controller to the broker.
LEMMA SyncStep ==
  ASSUME IoInv, Types, Places, Progress, Sync \/ Invented, Announced, [ControllerNext]_allVars
  PROVE  (Sync \/ Invented)'
<1> USE DEF ioVars, distVars, loopVars, brokerVars, vars
<1>1. CASE ReadFlips
  <2>1. Message("flips") /\ turn' = turn /\ version' = version + 1 /\ UNCHANGED <<boundary, written>>
    BY <1>1 DEF ReadFlips, Evolve
  <2>2. Leads(turn + 0, version + 1, stream', Len(stream'), boundary, Len(boundary), written)
    BY <2>1, ReadLeads
  <2>3. turn + 0 = turn
    BY DEF Types
  <2> QED BY <2>1, <2>2, <2>3 DEF Sync
<1>2. ASSUME NEW m, Message(m), m # "flips", m # "turn",
             UNCHANGED <<turn, version, boundary, written>>
      PROVE  Sync'
  <2>1. Leads(turn + 0, version + 0, stream', Len(stream'), boundary, Len(boundary), written)
    BY <1>2, ReadLeads
  <2>2. turn + 0 = turn /\ version + 0 = version
    BY DEF Types, IoInv, TypeInv
  <2> QED BY <1>2, <2>1, <2>2 DEF Sync
<1>3. CASE ReadTurn /\ Message("turn")
  <2>1. turn' = turn + 1 /\ UNCHANGED <<version, boundary, written>>
    BY <1>3 DEF ReadTurn
  <2>2. Leads(turn + 1, version + 0, stream', Len(stream'), boundary, Len(boundary), written)
    BY <1>3, ReadLeads
  <2>3. version + 0 = version
    BY DEF IoInv, TypeInv
  <2> QED BY <2>1, <2>2, <2>3 DEF Sync
<1>4. CASE ReadTurn /\ ~Message("turn")
  <2>1. at = "select" /\ stream = <<>> /\ eof /\ stream' = stream /\ turn' = turn + 1
    BY <1>4 DEF ReadTurn
  <2>2. Crashed /\ turn >= Len(boundary) - 1
    BY <2>1, EofCrashed
  <2>3. Crashed' /\ boundary' = boundary
    BY <2>2, CrashStays
  <2>4. turn' >= Len(boundary')
    BY <2>1, <2>2, <2>3, StreamTypes DEF Types
  <2> QED BY <2>1, <2>3, <2>4 DEF Invented
<1>5. CASE ReadPause
  BY <1>2, <1>5 DEF ReadPause
<1>6. CASE ReadSave
  BY <1>2, <1>6 DEF ReadSave, Write, Request
<1>7. CASE ReadQuit
  BY <1>2, <1>7 DEF ReadQuit
<1>8. ASSUME bat \in {"report", "poll"}
      PROVE  /\ Leads(turn, version, stream, Len(stream), boundary, Len(boundary), written)
             /\ Len(stream) \in Nat /\ Len(boundary) \in Nat \ {0} /\ written \in Nat
  BY <1>8, StreamTypes DEF Sync, Invented, Crashed, Types, Messages
<1>9. CASE WriteFlips
  <2>1. /\ stream' = Append(stream, "flips") /\ written' = written + 1 /\ bat = "report"
        /\ UNCHANGED <<turn, version, boundary>>
    BY <1>9 DEF WriteFlips
  <2>2. /\ Len(stream') = Len(stream) + 1 /\ stream'[Len(stream')] = "flips"
        /\ \A i \in 1..Len(stream) : stream'[i] = stream[i]
    BY <2>1, StreamTypes DEF Messages
  <2>3. OneWritten(stream, Len(stream), boundary, Len(boundary), written,
                   stream', Len(stream'), boundary', Len(boundary'), written')
    BY <1>8, <2>1, <2>2 DEF OneWritten
  <2>4. Leads(turn, version, stream', Len(stream'), boundary', Len(boundary'), written')
    BY <1>8, <2>1, <2>3, LeadsFurther
  <2> QED BY <2>1, <2>2, <2>4 DEF Sync
<1>10. CASE WriteTurn
  <2>1. /\ stream' = Append(stream, "turn") /\ boundary' = Append(boundary, written) /\ bat = "report"
        /\ UNCHANGED <<turn, version, written>>
    BY <1>10 DEF WriteTurn
  <2>2. /\ Len(stream') = Len(stream) + 1 /\ stream'[Len(stream')] = "turn"
        /\ \A i \in 1..Len(stream) : stream'[i] = stream[i]
        /\ Len(boundary') = Len(boundary) + 1 /\ boundary'[Len(boundary')] = written
        /\ \A j \in 1..Len(boundary) : boundary'[j] = boundary[j]
    BY <2>1, StreamTypes DEF Messages
  <2>3. OneWritten(stream, Len(stream), boundary, Len(boundary), written,
                   stream', Len(stream'), boundary', Len(boundary'), written')
    BY <1>8, <2>1, <2>2 DEF OneWritten
  <2>4. Leads(turn, version, stream', Len(stream'), boundary', Len(boundary'), written')
    BY <1>8, <2>1, <2>3, LeadsFurther
  <2> QED BY <2>1, <2>2, <2>4 DEF Sync
<1>11. CASE Echo
  <2>1. /\ stream' = Append(stream, echo) /\ bat = "poll" /\ echo \in Events
        /\ UNCHANGED <<turn, version, boundary, written>>
    BY <1>11 DEF Echo, Types
  <2>2. /\ Len(stream') = Len(stream) + 1 /\ stream'[Len(stream')] = echo
        /\ \A i \in 1..Len(stream) : stream'[i] = stream[i]
    BY <2>1, StreamTypes DEF Messages
  <2>3. echo # "turn" /\ echo # "flips" /\ boundary[Len(boundary)] = written
    BY <2>1 DEF Events, Progress
  <2>4. OneWritten(stream, Len(stream), boundary, Len(boundary), written,
                   stream', Len(stream'), boundary', Len(boundary'), written')
    BY <1>8, <2>1, <2>2, <2>3 DEF OneWritten
  <2>5. Leads(turn, version, stream', Len(stream'), boundary', Len(boundary'), written')
    BY <1>8, <2>1, <2>4, LeadsFurther
  <2> QED BY <2>1, <2>2, <2>5 DEF Sync
<1>12. ASSUME UNCHANGED Course
       PROVE  (Sync \/ Invented)'
  <2>1. CASE Sync
    BY <1>12, <2>1 DEF Sync, Course
  <2>2. CASE Invented
    <3>1. Crashed'
      BY <2>2, CrashStays DEF Invented
    <3> QED BY <1>12, <2>2, <3>1 DEF Invented, Course
  <2> QED BY <2>1, <2>2
<1>13. CASE UNCHANGED allVars
  BY <1>12, <1>13 DEF allVars, Course
<1> QED
  BY <1>1, <1>3, <1>4, <1>5, <1>6, <1>7, <1>9, <1>10, <1>11, <1>12, <1>13, CourseKept

\* Whatever ends the stream, other than a crash, was announced on it.
LEMMA AnnouncedStep ==
  ASSUME IoInv, Types, Places, Progress, Announced, [ControllerNext]_allVars
  PROVE  Announced'
<1> USE DEF ioVars, distVars, loopVars, brokerVars, vars
<1> DEFINE Within(a) == a \in {"select", "calling", "saving"}
           Leaves(s, n) == \E i \in 1..n : s[i] \in {"quit", "kill"}
<1>0. turn \in 0..Turns /\ Turns \in Nat /\ Len(boundary) \in Nat
  BY ControllerAssumption, StreamTypes DEF Types
<1>1. Within(at') => turn' < Turns
  <2>1. CASE ReadTurn
    <3>1. turn < Turns /\ turn' = turn + 1 /\ at' = IF turn' = Turns THEN "quit" ELSE "select"
      BY <2>1 DEF ReadTurn, Message, Announced
    <3> QED BY <1>0, <3>1
  <2>2. CASE Waited
    <3>1. at = "loading" => turn = 0
      BY DEF Places
    <3> QED BY <1>0, <2>2, <3>1 DEF Waited, InitReturns, Announced
  <2>3. CASE Load \/ WriteFinal \/ Close \/ CallFails \/ CallRuns \/ PressKey \/ ConnectionPanics
    BY <2>3 DEF Load, WriteFinal, Close, CallFails, CallRuns, PressKey, ConnectionPanics, Announced
  <2>4. CASE ReadFlips \/ ReadPause \/ ReadSave \/ ReadQuit
    BY <2>4 DEF ReadFlips, ReadPause, ReadSave, ReadQuit, Message, Announced
  <2>5. CASE BrokerLoop \/ NodeFails \/ IoGoroutine \/ UNCHANGED allVars
    BY <2>5 DEF BrokerLoop, Evaluate, WriteFlips, WriteTurn, TakeEvent, Echo, NoEvent, AllTurnsDone,
       Recover, Restart, NodeFails, IoGoroutine, allVars, Announced
  <2> QED BY <2>1, <2>2, <2>3, <2>4, <2>5 DEF ControllerNext, Distributor, Read
<1>2. ASSUME ~eof, eof', ~Crashed'
      PROVE  Len(boundary') = Turns + 1 \/ Leaves(stream', Len(stream'))
  <2>1. CASE Echo
    <3>1. stream' = Append(stream, echo) /\ echo \in {"quit", "kill"} /\ echo \in Events
      BY <1>2, <2>1 DEF Echo, Types
    <3>2. /\ Len(stream') \in 1..Len(stream') /\ stream'[Len(stream')] = echo
      BY <3>1, StreamTypes DEF Messages
    <3> QED BY <3>1, <3>2
  <2>2. CASE AllTurnsDone
    BY <2>2 DEF AllTurnsDone, Progress
  <2>3. CASE Distributor \/ PressKey \/ ConnectionPanics
    BY <1>2, <2>3 DEF Distributor, Load, WriteFinal, Close, CallFails, CallRuns, BrokerPanics, Waited, InitReturns,
       Read, ReadFlips, ReadTurn, ReadPause, ReadSave, ReadQuit, PressKey, ConnectionPanics, Crashed
  <2>4. CASE NodeFails
    BY <1>2, <2>4 DEF NodeFails, BrokerPanics, Crashed
  <2>5. CASE Evaluate \/ WriteFlips \/ WriteTurn \/ TakeEvent \/ NoEvent \/ Recover \/ Restart
    BY <1>2, <2>5 DEF Evaluate, WriteFlips, WriteTurn, TakeEvent, NoEvent, Recover, Restart
  <2>6. CASE IoGoroutine \/ UNCHANGED allVars
    BY <1>2, <2>6 DEF IoGoroutine, allVars
  <2> QED BY <2>1, <2>2, <2>3, <2>4, <2>5, <2>6 DEF ControllerNext, BrokerLoop
<1>3. ASSUME eof, ~Crashed', Within(at')
      PROVE  Len(boundary') = Turns + 1 \/ Leaves(stream', Len(stream'))
  <2>1. bat = "ended" /\ ~Crashed /\ at # "loading"
    BY <1>3, CrashStays DEF Progress, Crashed, Places
  <2>2. ASSUME UNCHANGED <<stream, boundary>>, Within(at)
        PROVE  Len(boundary') = Turns + 1 \/ Leaves(stream', Len(stream'))
    BY <1>3, <2>1, <2>2 DEF Announced
  <2>3. ASSUME NEW m, Message(m), boundary' = boundary, m \notin {"quit", "kill"}
        PROVE  Len(boundary') = Turns + 1 \/ Leaves(stream', Len(stream'))
    <3>1. at = "select" /\ stream # <<>> /\ m = Head(stream) /\ stream' = Tail(stream)
      BY <2>3 DEF Message
    <3>2. /\ Len(stream) \in Nat \ {0} /\ Len(stream') = Len(stream) - 1 /\ m = stream[1]
          /\ \A i \in 1..Len(stream) - 1 : stream'[i] = stream[i + 1]
      BY <3>1, StreamTypes
    <3>3. Len(boundary) = Turns + 1 \/ \E i \in 1..Len(stream) : stream[i] \in {"quit", "kill"}
      BY <1>3, <2>1, <3>1 DEF Announced
    <3>4. ASSUME NEW i \in 1..Len(stream), stream[i] \in {"quit", "kill"}
          PROVE  Leaves(stream', Len(stream'))
      <4>1. i # 1
        BY <2>3, <3>2, <3>4
      <4>2. i - 1 \in 1..Len(stream') /\ i - 1 \in 1..Len(stream) - 1 /\ (i - 1) + 1 = i
        BY <3>2, <4>1
      <4>3. stream'[i - 1] = stream[i]
        BY <3>2, <4>2
      <4> QED BY <3>4, <4>2, <4>3
    <3> QED BY <2>3, <3>3, <3>4
  <2>4. CASE ReadFlips \/ ReadPause \/ ReadSave
    BY <2>3, <2>4 DEF ReadFlips, ReadPause, ReadSave
  <2>5. CASE ReadTurn
    BY <2>2, <2>3, <2>5 DEF ReadTurn
  <2>6. CASE ReadQuit
    BY <1>3, <2>6 DEF ReadQuit
  <2>7. CASE Load \/ WriteFinal \/ Close \/ CallFails \/ CallRuns \/ PressKey \/ ConnectionPanics
    BY <1>3, <2>2, <2>7 DEF Load, WriteFinal, Close, CallFails, CallRuns, PressKey, ConnectionPanics
  <2>8. CASE Waited
    BY <1>3, <2>1, <2>2, <2>8 DEF Waited, InitReturns
  <2>9. CASE BrokerLoop \/ NodeFails
    BY <2>1, <2>9 DEF BrokerLoop, Evaluate, WriteFlips, WriteTurn, TakeEvent, Echo, NoEvent,
       AllTurnsDone, Recover, Restart, NodeFails
  <2>10. CASE IoGoroutine \/ UNCHANGED allVars
    BY <1>3, <2>2, <2>10 DEF IoGoroutine, allVars
  <2> QED BY <2>4, <2>5, <2>6, <2>7, <2>8, <2>9, <2>10 DEF ControllerNext, Distributor, Read
<1> QED BY <1>1, <1>2, <1>3 DEF Announced

\* The count is that of the turn, whatever flips were read since.
LEMMA CountsStep ==
  ASSUME IoInv, Types, Places, Progress, Sync \/ Invented, Announced, Counts,
         [ControllerNext]_allVars
  PROVE  Counts'
<1> USE DEF ioVars, distVars, loopVars, brokerVars, vars
<1>0. /\ turn \in Nat /\ Len(boundary) \in Nat \ {0} /\ turn + 0 = turn
  BY StreamTypes DEF Types
<1>1. CASE ReadTurn
  <2>1. /\ turn' = turn + 1 /\ count' = version /\ version' = version /\ boundary' = boundary
    BY <1>1 DEF ReadTurn
  <2>2. CASE Message("turn")
    <3>1. turn + 1 < Len(boundary) /\ version = boundary[turn + 1 + 1]
      BY <2>2, ReadLeads
    <3> QED BY <2>1, <3>1 DEF Counts
  <2>3. CASE ~Message("turn")
    <3>1. turn >= Len(boundary) - 1
      BY <1>1, <2>3, EofCrashed DEF ReadTurn
    <3> QED BY <1>0, <2>1, <3>1 DEF Counts
  <2> QED BY <2>2, <2>3
<1>2. CASE ReadQuit
  <2>1. /\ turn' = turn /\ count' = count /\ version' = version /\ boundary' = boundary
        /\ Message("quit") \/ Message("kill")
    BY <1>2 DEF ReadQuit
  <2>2. turn + 0 < Len(boundary) /\ version = boundary[turn + 0 + 1]
    BY <2>1, ReadLeads
  <2> QED BY <1>0, <2>1, <2>2 DEF Counts
<1>3. CASE Waited
  <2>1. UNCHANGED <<turn, count, version, boundary>> /\ (at' = at \/ at = "loading" \/ at' # "quit")
    BY <1>3 DEF Waited, InitReturns, AwaitIo
  <2>2. at = "loading" => count = version
    BY DEF Places
  <2> QED BY <2>1, <2>2 DEF Counts
<1>4. CASE WriteTurn
  <2>1. /\ UNCHANGED <<turn, count, version, at>> /\ boundary' = Append(boundary, written)
        /\ bat = "report"
    BY <1>4 DEF WriteTurn
  <2>2. turn < Len(boundary)
    BY <2>1, SyncBounds DEF Invented, Crashed
  <2>3. /\ turn + 1 \in 1..Len(boundary)
        /\ \A i \in 1..Len(boundary) : boundary'[i] = boundary[i]
    BY <1>0, <2>1, <2>2, StreamTypes
  <2> QED BY <2>1, <2>2, <2>3 DEF Counts
<1>5. CASE ReadFlips \/ ReadPause \/ ReadSave
  BY <1>5 DEF ReadFlips, ReadPause, ReadSave, Write, Request, Message, Counts
<1>6. CASE Load \/ WriteFinal \/ Close \/ CallFails \/ CallRuns \/ PressKey \/ ConnectionPanics
  BY <1>6 DEF Load, WriteFinal, Write, Request, Close, Quit, CallFails, CallRuns, PressKey, ConnectionPanics, Counts
<1>7. CASE Evaluate \/ WriteFlips \/ TakeEvent \/ Echo \/ NoEvent \/ AllTurnsDone \/ Recover \/ Restart
           \/ NodeFails
  BY <1>7 DEF Evaluate, WriteFlips, TakeEvent, Echo, NoEvent, AllTurnsDone, Recover, Restart,
     NodeFails, Counts
<1>8. CASE IoGoroutine
  BY <1>8, IoSideKeeps DEF IoGoroutine, Counts
<1>9. CASE UNCHANGED allVars
  BY <1>9 DEF allVars, Counts
<1> QED
  BY <1>1, <1>2, <1>3, <1>4, <1>5, <1>6, <1>7, <1>8, <1>9
     DEF ControllerNext, Distributor, Read, BrokerLoop

\* A file and its name are of one turn.
LEMMA NamesStep ==
  ASSUME IoInv, Types, Places, Progress, Sync \/ Invented, Counts, Names,
         [ControllerNext]_allVars
  PROVE  Names'
<1> USE DEF ioVars, distVars, loopVars, brokerVars, vars
<1>0. /\ requested \in Nat /\ turn \in Nat /\ turn + 0 = turn /\ Len(boundary) \in Nat \ {0}
      /\ files \in Seq(File) /\ Len(files) \in Nat /\ named \in Seq(Nat)
  BY StreamTypes DEF Types, IoInv, TypeInv
<1>1. Crashed => Crashed'
  BY CrashStays
<1>2. ASSUME Write(turn), at # "start", at # "loading", UNCHANGED <<turn, boundary>>,
             Crashed \/ (turn < Len(boundary) /\ version = boundary[turn + 1])
      PROVE  Names'
  <2>1. /\ requested' = requested + 1 /\ named' = Append(named, turn) /\ UNCHANGED <<version, files>>
        /\ dist = "idle"
    BY <1>2 DEF Write, Request
  <2>2. requested > 0 /\ Len(files) = requested /\ Len(named) = requested - 1
    BY <1>0, <1>2, <2>1 DEF IoInv, Handshake, Quiet, Places, Names
  <2>3. /\ Len(named') = requested /\ named'[requested] = turn
        /\ \A j \in 1..requested - 1 : named'[j] = named[j]
    BY <1>0, <2>1, <2>2, AppendOf
  <2>4. ASSUME NEW k \in 2..requested', ~Crashed'
        PROVE  /\ named'[k - 1] < Len(boundary')
               /\ IF k <= Len(files') THEN files'[k].found = boundary'[named'[k - 1] + 1]
                                      ELSE version' = boundary'[named'[k - 1] + 1]
    <3>1. CASE k \in 2..requested
      <4>1. named'[k - 1] = named[k - 1] /\ k <= Len(files)
        BY <1>0, <2>2, <2>3, <3>1
      <4>2. named[k - 1] < Len(boundary) /\ files[k].found = boundary[named[k - 1] + 1]
        BY <1>1, <2>4, <3>1, <4>1 DEF Names
      <4> QED BY <1>2, <2>1, <4>1, <4>2
    <3>2. CASE k = requested + 1
      <4>1. k - 1 = requested /\ ~(k <= Len(files))
        BY <1>0, <2>2, <3>2
      <4> QED BY <1>1, <1>2, <2>1, <2>3, <2>4, <4>1
    <3>3. k \in 2..requested \/ k = requested + 1
      BY <1>0, <2>1
    <3> QED BY <3>1, <3>2, <3>3, Zenon
  <2>5. Len(named') = IF requested' = 0 THEN 0 ELSE requested' - 1
    BY <1>0, <2>1, <2>3
  <2> QED BY <2>4, <2>5 DEF Names
<1>3. ASSUME UNCHANGED <<named, requested, version, files>>,
             boundary' = boundary \/ boundary' = Append(boundary, written)
      PROVE  Names'
  <2>1. /\ Len(boundary') >= Len(boundary) /\ Len(boundary') \in Nat
        /\ \A j \in 1..Len(boundary) : boundary'[j] = boundary[j]
    <3>1. CASE boundary' = boundary
      BY <1>0, <3>1
    <3>2. CASE boundary' = Append(boundary, written)
      <4>1. /\ Len(boundary') = Len(boundary) + 1
            /\ \A j \in 1..Len(boundary) : boundary'[j] = boundary[j]
        BY <3>2, StreamTypes, Zenon
      <4> QED BY <1>0, <4>1
    <3> QED BY <1>3, <3>1, <3>2
  <2>2. ASSUME NEW k \in 2..requested, ~Crashed
        PROVE  named[k - 1] \in Nat /\ named[k - 1] + 1 \in 1..Len(boundary)
    <3>0. Len(named) = requested - 1
      <4>1. requested # 0
        BY <1>0, <2>2
      <4>2. Len(named) = IF requested = 0 THEN 0 ELSE requested - 1
        BY DEF Names
      <4> QED BY <4>1, <4>2
    <3>1. named[k - 1] < Len(boundary)
      <4>1. \/ Crashed
            \/ named[k - 1] < Len(boundary)
        BY <2>2, Zenon DEF Names
      <4> QED BY <2>2, <4>1
    <3>2. k - 1 \in 1..Len(named)
      BY <1>0, <2>2, <3>0
    <3>3. named[k - 1] \in Nat
      BY <1>0, <3>2
    <3> QED BY <1>0, <3>1, <3>3, SMTT(30)
  <2>3. ASSUME NEW k \in 2..requested, ~Crashed'
        PROVE  /\ named[k - 1] < Len(boundary')
               /\ IF k <= Len(files) THEN files[k].found = boundary'[named[k - 1] + 1]
                                     ELSE version = boundary'[named[k - 1] + 1]
    <3>1. /\ named[k - 1] < Len(boundary)
          /\ IF k <= Len(files) THEN files[k].found = boundary[named[k - 1] + 1]
                                ELSE version = boundary[named[k - 1] + 1]
      BY <1>1, <2>3 DEF Names
    <3>2. boundary'[named[k - 1] + 1] = boundary[named[k - 1] + 1]
      BY <1>1, <2>1, <2>2, <2>3
    <3>3. named[k - 1] \in Nat
      BY <1>1, <2>2, <2>3
    <3>4. named[k - 1] < Len(boundary')
      BY <1>0, <2>1, <3>1, <3>3
    <3> QED BY <3>1, <3>2, <3>4
  <2> QED BY <1>3, <2>3 DEF Names
<1>4. CASE Load
  <2>1. requested' = 1 /\ named' = named /\ requested = 0
    BY <1>4 DEF Load, Request, Places
  <2>2. Len(named) = 0
    BY <2>1 DEF Names
  <2> QED BY <2>1, <2>2 DEF Names
<1>5. CASE ReadSave
  <2>1. Message("save") /\ at = "select" /\ Write(turn) /\ UNCHANGED <<turn, boundary>>
    BY <1>5 DEF ReadSave, Message
  <2>2. turn + 0 < Len(boundary) /\ version = boundary[turn + 0 + 1]
    BY <2>1, ReadLeads
  <2> QED BY <1>0, <1>2, <2>1, <2>2
<1>6. CASE WriteFinal
  <2>1. at = "quit" /\ Write(turn) /\ UNCHANGED <<turn, boundary>>
    BY <1>6 DEF WriteFinal
  <2>2. CASE turn < Len(boundary)
    BY <1>2, <2>1, <2>2 DEF Counts
  <2>3. CASE ~(turn < Len(boundary))
    BY <1>2, <2>1, <2>3, SyncBounds DEF Invented
  <2> QED BY <2>2, <2>3
<1>7. CASE ReadFlips
  \* all files are written
  <2>1. dist = "idle" /\ UNCHANGED <<named, requested, files, boundary>>
    BY <1>7 DEF ReadFlips, Evolve
  <2>2. Len(files) = requested
    BY <2>1 DEF IoInv, Handshake, Quiet
  <2>3. \A k \in 2..requested : k <= Len(files)
    BY <1>0, <2>2
  <2> QED BY <1>1, <2>1, <2>3 DEF Names
<1>8. CASE IoGoroutine
  <2>1. UNCHANGED <<named, boundary, version, requested>>
    BY <1>8, IoSideKeeps DEF IoGoroutine
  <2>2. CASE IoServe
    <3>1. Pending
      BY <2>2 DEF IoServe, IoInv, Handshake, Quiet, TypeInv
    <3>2. Len(files) + 1 = requested
      BY <3>1 DEF Pending
    <3>3. files' = Append(files, [id |-> operation.id, asked |-> operation.asked, found |-> version])
      BY <2>2 DEF IoServe
    <3>4. [id |-> operation.id, asked |-> operation.asked, found |-> version] \in File
      BY DEF File, IoInv, TypeInv
    <3>5. /\ Len(files') = requested /\ files'[requested].found = version
          /\ \A j \in 1..Len(files) : files'[j] = files[j]
      BY <1>0, <3>2, <3>3, <3>4, AppendOf
    <3>6. ASSUME NEW k \in 2..requested, ~Crashed'
          PROVE  /\ named[k - 1] < Len(boundary)
                 /\ k <= Len(files') /\ files'[k].found = boundary[named[k - 1] + 1]
      <4>1. CASE k = requested
        BY <1>0, <1>1, <3>2, <3>5, <3>6, <4>1 DEF Names
      <4>2. CASE k # requested
        <5>1. k \in 1..Len(files) /\ k <= Len(files) /\ k <= requested
          BY <1>0, <3>2, <4>2
        <5> QED BY <1>1, <3>5, <3>6, <5>1 DEF Names
      <4> QED BY <4>1, <4>2
    <3> QED BY <2>1, <3>6 DEF Names
  <2>3. CASE ~IoServe
    <3>1. files' = files
      BY <1>8, <2>3 DEF IoGoroutine, IoSide, IoWait, IoResume, IoQuit
    <3> QED BY <1>3, <2>1, <3>1
  <2> QED BY <2>2, <2>3
<1>9. CASE ReadTurn \/ ReadPause \/ ReadQuit \/ CallFails \/ CallRuns \/ PressKey \/ ConnectionPanics
  BY <1>3, <1>9 DEF ReadTurn, ReadPause, ReadQuit, CallFails, CallRuns, PressKey, ConnectionPanics
<1>10. CASE Waited \/ Close
  BY <1>3, <1>10 DEF Waited, AwaitIo, Close, Quit
<1>11. CASE BrokerLoop \/ NodeFails
  BY <1>3, <1>11 DEF BrokerLoop, Evaluate, WriteFlips, WriteTurn, TakeEvent, Echo, NoEvent,
     AllTurnsDone, Recover, Restart, NodeFails
<1>12. CASE UNCHANGED allVars
  BY <1>3, <1>12 DEF allVars
<1> QED
  BY <1>4, <1>5, <1>6, <1>7, <1>8, <1>9, <1>10, <1>11, <1>12
     DEF ControllerNext, Distributor, Read

\* The buffer of the channel after an event was put in or taken out.
LEMMA BufferOf ==
  ASSUME NEW o, NEW e
  PROVE  /\ [open |-> o, buf |-> <<>>].buf = <<>>
         /\ [open |-> o, buf |-> <<e>>].buf # <<>> /\ [open |-> o, buf |-> <<e>>].buf[1] = e
OBVIOUS

\* Every key that is pressed reaches the broker's pause, in order.
LEMMA PausesStep ==
  ASSUME IoInv, Types, Places, Progress, Pauses, [ControllerNext]_allVars
  PROVE  Pauses'
<1> USE DEF ioVars, distVars, loopVars, brokerVars, vars
<1> DEFINE Going == recoveries = 0 /\ bat \in {"unasked", "calls", "report", "poll"}
           Agree == pause_flag = Applied(Applied(Applied(paused, echo), Buffered), call.event)
<1>0. /\ recoveries \in Nat /\ pause_flag \in BOOLEAN /\ paused \in BOOLEAN
      /\ event_chan \in Chan /\ call \in Calls
  BY DEF Types
<1>1. Going => Agree
  BY DEF Pauses
<1> SUFFICES ASSUME Going' PROVE Agree'
  BY DEF Pauses
<1>2. CASE PressKey
  <2>1. at = "select" /\ UNCHANGED <<bat, recoveries, paused, echo, event_chan>>
    BY <1>2 DEF PressKey
  <2>2. call.event = "none"
    BY <2>1 DEF Places, NoCall
  <2>3. Buffered' = Buffered
    BY <2>1 DEF Buffered
  <2>4. pause_flag = Applied(Applied(paused, echo), Buffered)
    BY <1>1, <2>1, <2>2 DEF Applied
  <2>5. \/ pause_flag' = ~pause_flag /\ call'.event = IF pause_flag THEN "resume" ELSE "pause"
        \/ pause_flag' = pause_flag /\ call'.event \in {"save", "quit", "kill"}
    BY <1>2 DEF PressKey
  <2>6. pause_flag' = Applied(pause_flag, call'.event)
    BY <1>0, <2>5 DEF Applied
  <2> QED BY <2>1, <2>3, <2>4, <2>6
<1>3. CASE CallRuns
  <2>1. UNCHANGED <<recoveries, paused, pause_flag, echo>> /\ bat' = bat
    BY <1>3 DEF CallRuns, BrokerPanics
  <2>2. CASE event_chan.buf = <<>> /\ event_chan' = [open |-> event_chan.open, buf |-> <<call.event>>]
             /\ call' = NoCall
    <3>1. Buffered = "none" /\ call'.event = "none"
      BY <2>2 DEF Buffered, NoCall
    <3>2. event_chan'.buf # <<>> /\ event_chan'.buf[1] = call.event
      BY <2>2, BufferOf
    <3>3. Buffered' = call.event
      BY <3>2 DEF Buffered
    <3> QED BY <1>1, <2>1, <3>1, <3>3 DEF Applied
  <2>3. CASE event_chan' = event_chan /\ call' = [call EXCEPT !.at = "waiting"]
    <3>1. call'.event = call.event
      BY <1>0, <2>3, CallSteps
    <3>2. Buffered' = Buffered
      BY <2>3 DEF Buffered
    <3> QED BY <1>1, <2>1, <3>1, <3>2
  <2> QED BY <1>3, <2>2, <2>3 DEF CallRuns, BrokerPanics
<1>4. CASE TakeEvent
  <2>1. /\ UNCHANGED <<recoveries, bat, paused, pause_flag, call>> /\ echo = "none"
        /\ event_chan.buf # <<>> /\ echo' = Head(event_chan.buf)
        /\ event_chan' = [open |-> event_chan.open, buf |-> <<>>]
    BY <1>4 DEF TakeEvent
  <2>2. echo' = Buffered
    BY <1>0, <2>1, ChanSteps DEF Buffered
  <2>3. Buffered' = "none"
    BY <2>1, BufferOf DEF Buffered
  <2> QED BY <1>1, <2>1, <2>2, <2>3 DEF Applied
<1>5. CASE Echo
  <2>1. /\ UNCHANGED <<recoveries, pause_flag, call>> /\ bat = "poll" /\ echo # "none" /\ echo' = "none"
        /\ paused' = (echo = "pause" \/ (paused /\ echo # "resume"))
    BY <1>5 DEF Echo
  <2>2. event_chan' = event_chan
    BY <1>5 DEF Echo, CloseSession
  <2>3. paused' = Applied(paused, echo) /\ Applied(paused', echo') = paused'
    BY <1>0, <2>1 DEF Applied
  <2>4. Buffered' = Buffered
    BY <2>2 DEF Buffered
  <2> QED BY <1>1, <2>1, <2>3, <2>4
<1>6. CASE Waited
  <2>1. /\ UNCHANGED <<recoveries, pause_flag, call, paused, echo>>
        /\ bat' = bat \/ at = "loading"
        /\ \/ event_chan' = event_chan
           \/ at = "loading" /\ event_chan' = [open |-> TRUE, buf |-> <<>>]
    BY <1>6 DEF Waited, InitReturns
  <2>2. Going /\ (at = "loading" => event_chan.buf = <<>>)
    BY <1>6, <2>1 DEF Waited, Places
  <2>3. event_chan'.buf = event_chan.buf
    BY <2>1, <2>2, BufferOf
  <2>4. Buffered' = Buffered
    BY <2>3 DEF Buffered
  <2> QED BY <1>1, <2>1, <2>2, <2>4
<1>7. ASSUME UNCHANGED <<pause_flag, paused, echo, event_chan, call>>, Going PROVE Agree'
  BY <1>1, <1>7 DEF Buffered
<1>8. CASE Load \/ WriteFinal \/ Close \/ CallFails \/ ConnectionPanics \/ Read
  BY <1>7, <1>8 DEF Load, WriteFinal, Close, CallFails, ConnectionPanics, Read, ReadFlips, ReadTurn, ReadPause,
     ReadSave, ReadQuit
<1>9. CASE Evaluate \/ WriteFlips \/ WriteTurn \/ NoEvent
  BY <1>7, <1>9 DEF Evaluate, WriteFlips, WriteTurn, NoEvent
<1>10. CASE AllTurnsDone \/ Recover \/ Restart
  BY <1>10 DEF AllTurnsDone, CloseSession, Recover, Restart, Progress
<1>11. CASE NodeFails
  <2>1. recoveries' = recoveries + 1
    BY <1>11 DEF NodeFails
  <2> QED BY <1>0, <2>1
<1>12. CASE IoGoroutine \/ UNCHANGED allVars
  BY <1>7, <1>12 DEF IoGoroutine, allVars
<1> QED
  BY <1>2, <1>3, <1>4, <1>5, <1>6, <1>8, <1>9, <1>10, <1>11, <1>12
     DEF ControllerNext, Distributor, BrokerLoop

\* Nothing is under way at the start.
LEMMA ControllerInitInv == ControllerInit => CInv
<1> SUFFICES ASSUME ControllerInit PROVE CInv
  OBVIOUS
<1> USE IoAssumption, ControllerAssumption DEF ControllerInit
<1>1. IoInv
  BY IoInitInv
<1>2. <<>> \in Seq(Messages) /\ <<>> \in Seq(Nat) /\ <<0>> \in Seq(Nat) /\ Len(<<0>>) = 1
      /\ Len(<<>>) = 0 /\ <<0>>[1] = 0
  OBVIOUS
<1>3. event_chan \in Chan
  BY DEF Chan
<1>4. call \in Calls
  BY DEF Calls, NoCall
<1>5. Types
  <2>1. stream \in Seq(Messages) /\ Len(stream) <= StreamCap
    BY <1>2
  <2>2. boundary \in Seq(Nat) /\ Len(boundary) > 0 /\ named \in Seq(Nat)
    BY <1>2
  <2>3. count \in 0..MaxVersion /\ turn \in 0..Turns /\ bturn \in 0..Turns
    OBVIOUS
  <2> QED BY <1>3, <1>4, <2>1, <2>2, <2>3 DEF Types
<1>6. Places /\ Progress
  BY <1>2 DEF Places, Progress, IoInit
<1>7. Leads(0, 0, <<>>, 0, <<0>>, 1, 0)
  <2> DEFINE f == [i \in Nat |-> 0]
  <2>1. f \in [Nat -> Nat] /\ f[0] = 0 /\ \A i \in 0..0 : f[i] < 1
    OBVIOUS
  <2>2. f[0] = 1 - 1 /\ ~ (\E i \in 1..0 : TRUE)
    BY <2>1
  <2> HIDE DEF f
  <2> QED BY <2>1, <2>2 DEF Leads
<1>8. Sync
  BY <1>2, <1>7 DEF Sync, IoInit
<1>9. Announced /\ Counts
  BY <1>2 DEF Announced, Counts, Crashed
<1>10. Names
  BY <1>2 DEF Names, IoInit
<1>11. Pauses
  BY DEF Pauses, Applied, Buffered, NoCall
<1> QED BY <1>1, <1>5, <1>6, <1>8, <1>9, <1>10, <1>11 DEF CInv

\* Every step of the controller, of the broker and of the io goroutine keeps all of it.
LEMMA ControllerStepInv == CInv /\ [ControllerNext]_allVars => CInv'
<1> SUFFICES ASSUME CInv, [ControllerNext]_allVars PROVE CInv'
  OBVIOUS
<1>0. /\ IoInv /\ Types /\ Places /\ Progress /\ (Sync \/ Invented)
      /\ Announced /\ Counts /\ Names /\ Pauses
  BY DEF CInv
<1>1. IoInv'
  BY <1>0, ControllerSteps, IoStepInv
<1>2. Types'
  BY <1>0, TypesStep
<1>3. Places'
  BY <1>0, PlacesStep
<1>4. Progress'
  BY <1>0, ProgressStep
<1>5. (Sync \/ Invented)'
  BY <1>0, SyncStep
<1>6. Announced'
  BY <1>0, AnnouncedStep
<1>7. Counts'
  BY <1>0, CountsStep
<1>8. Names'
  BY <1>0, NamesStep
<1>9. Pauses'
  BY <1>0, PausesStep
<1> QED BY <1>1, <1>2, <1>3, <1>4, <1>5, <1>6, <1>7, <1>8, <1>9 DEF CInv

\* The controller is where its stream says it is, in every state of every execution.
THEOREM ControllerAlwaysInv == ControllerSpec => []CInv
BY ControllerInitInv, ControllerStepInv, PTL DEF ControllerSpec

\* The count that a tick reports with its turn is the number of cells the broker had
\* when that turn was complete, for every number of turns, flips, keys and failures;
\* only a crash of the broker lets the controller invent turns.
THEOREM ControllerCounts == ControllerSpec => []CountsOfTurn
<1>1. CInv => CountsOfTurn
  <2> SUFFICES ASSUME CInv PROVE CountsOfTurn
    OBVIOUS
  <2>1. Types /\ IoTypeOK
    BY IoInvTypes DEF CInv
  <2>2. turn \in Nat /\ DOMAIN boundary = 1..Len(boundary) /\ Len(boundary) \in Nat
    BY <2>1, StreamTypes DEF Types
  <2>3. ControllerTypeOK
    BY <2>1 DEF Types, Calls, Chan, ControllerTypeOK
  <2>4. turn + 1 \in DOMAIN boundary <=> turn < Len(boundary)
    BY <2>2
  <2>5. turn < Len(boundary) \/ Crashed
    BY <2>1, SyncBounds DEF CInv, Invented
  <2> QED BY <2>3, <2>4, <2>5 DEF CountsOfTurn, CInv, Counts
<1> QED BY <1>1, ControllerAlwaysInv, PTL

\* A file holds the generation of the turn it is named after.
THEOREM ControllerFiles == ControllerSpec => []FilesOfTurns
<1>1. CInv => FilesOfTurns
  <2> SUFFICES ASSUME CInv, NEW k \in 2..Len(files), ~Crashed
               PROVE  /\ named[k - 1] + 1 \in DOMAIN boundary
                      /\ files[k].found = boundary[named[k - 1] + 1]
    BY DEF FilesOfTurns
  <2>1. Types /\ Names /\ IoInv
    BY DEF CInv
  <2>2. requested \in Nat /\ Len(files) \in Nat /\ Len(files) <= requested
    <3>1. requested \in Nat /\ Len(files) \in Nat /\ dist \in {"idle", "waiting", "asleep", "returned"}
      BY <2>1 DEF IoInv, TypeInv
    <3>2. Len(files) = requested \/ Len(files) + 1 = requested
      BY <2>1, <3>1 DEF IoInv, Handshake, Quiet, Pending
    <3> QED BY <3>1, <3>2
  <2>3. k \in 2..requested /\ k <= Len(files)
    BY <2>2
  <2>4. /\ named[k - 1] < Len(boundary) /\ Len(named) = requested - 1
        /\ files[k].found = boundary[named[k - 1] + 1]
    BY <2>1, <2>2, <2>3 DEF Names
  <2>5. k - 1 \in 1..Len(named)
    BY <2>2, <2>3, <2>4
  <2>6. named[k - 1] \in Nat /\ DOMAIN boundary = 1..Len(boundary) /\ Len(boundary) \in Nat
    BY <2>1, <2>5, SMTT(30) DEF Types
  <2> QED BY <2>4, <2>6
<1> QED BY <1>1, ControllerAlwaysInv, PTL

\* The final cells fit into the slice that is made for count cells.
THEOREM ControllerCellsFit == ControllerSpec => []CellsFit
<1>1. CInv => CellsFit
  BY DEF CInv, Counts, CellsFit
<1> QED BY <1>1, ControllerAlwaysInv, PTL

\* Once no key is on its way, and until a node fails, the controller and the broker
\* agree whether the evaluation is paused.
THEOREM ControllerPauses == ControllerSpec => []PauseAgrees
<1>1. CInv => PauseAgrees
  <2> SUFFICES ASSUME CInv, recoveries = 0, at = "select", bat \in {"calls", "report", "poll"},
                      echo = "none", event_chan.buf = <<>>
               PROVE  paused = pause_flag
    BY DEF PauseAgrees
  <2>1. call.event = "none"
    BY DEF CInv, Places, NoCall
  <2>2. Buffered = "none"
    BY DEF Buffered
  <2> QED BY <2>1, <2>2 DEF CInv, Pauses, Applied
<1> QED BY <1>1, ControllerAlwaysInv, PTL

------------------------------------------------------------------------------
(* Nobody waits for nobody: the guards of Distributor, BrokerLoop and IoGoroutine *)

IoMoves == io \in {"entering", "serving"} \/ (io = "woken" /\ holder = "nobody")

CanRequest == dist = "idle" /\ holder = "nobody" /\ requested < MaxRequests

DistributorMoves ==
  \/ at \in {"start", "quit"} /\ CanRequest
  \/ at \in {"loading", "saving", "finishing"} /\ dist = "waiting" /\ holder = "nobody"
  \/ at = "select" /\ stream = <<>> /\ eof
  \/ /\ at = "select" /\ stream # <<>>
     /\ Head(stream) = "flips" => dist = "idle" /\ requested > 0 /\ version < MaxVersion
     /\ Head(stream) = "save" => CanRequest
  \/ at = "closing" /\ dist = "idle" /\ requested > 1 /\ holder = "nobody"
  \/ /\ at = "calling"
     /\ \/ bat = "crashed" \/ call.at = "sent"
        \/ call.at = "waiting" /\ (event_chan.open => event_chan.buf = <<>>)

BrokerMoves ==
  \/ bat \in {"calls", "recovering", "dispatch"}
  \/ bat = "report" /\ Room
  \/ bat = "poll" /\ echo # "none" /\ Room
  \/ bat = "poll" /\ echo = "none" /\ (event_chan.buf # <<>> \/ ~paused)

SomebodyMoves == IoMoves \/ DistributorMoves \/ BrokerMoves

\* A paused evaluation moves with the next key only.
OnlyAKey ==
  /\ at = "select" /\ stream = <<>>
  /\ bat = "poll" /\ paused /\ echo = "none" /\ event_chan.buf = <<>>

\* A recovery found no node: there is no loop, and nobody ends the stream.  The
\* controller has read all of it, or its second key waits for room in event_chan.
Stranded ==
  /\ bat = "stranded" /\ ~eof
  /\ \/ at = "select" /\ stream = <<>>
     \/ at = "calling" /\ call.at = "waiting" /\ event_chan.buf # <<>>

\* The controller ended, its user is to press a key, or its call is the one that
\* the broker cannot answer, because of a full stream or of a recovery, or the
\* broker was left without a loop.
AtRest ==
  \/ at = "panicked" \/ (at = "ended" /\ io = "exited")
  \/ OnlyAKey
  \/ at = "calling" /\ (Standoff \/ call.at = "lost")
  \/ Stranded

\* A model that reached its bounds stops anyway.
Exhausted == requested = MaxRequests \/ version = MaxVersion

RestsOrMoves == SomebodyMoves \/ AtRest \/ Exhausted

\* What a call waits for, who closed the channel, and that a file was written.
Waits ==
  /\ at = "calling" => call.at \in {"sent", "waiting", "lost"}
  /\ bat = "ended" => ~event_chan.open
  /\ at \in {"finishing", "closing"} => requested > 1

LEMMA WaitsInit == ControllerInit => Waits
BY DEF ControllerInit, Waits

\* Each is set by the one step that makes it true.
LEMMA WaitsStep ==
  ASSUME Types, Places, IoInv, Waits, [ControllerNext]_allVars
  PROVE  Waits'
<1> USE DEF ioVars, distVars, loopVars, brokerVars, vars, Waits
<1>1. CASE PressKey
  <2>1. call'.at = "sent" /\ at' = "calling" /\ UNCHANGED <<bat, event_chan>>
    BY <1>1 DEF PressKey
  <2> QED BY <2>1
<1>2. CASE CallRuns
  <2>1. at = "calling" /\ (at' = "select" \/ (at' = "calling" /\ call' = call)
                           \/ (at' = "calling" /\ call' = [call EXCEPT !.at = "waiting"]))
    BY <1>2 DEF CallRuns
  <2>2. call \in Calls
    BY DEF Types
  <2>3. at' = "calling" => call'.at \in {"sent", "waiting", "lost"}
    BY <2>1, <2>2 DEF Calls
  <2>4. (bat' = bat /\ (event_chan' = event_chan \/ event_chan.open)) \/ bat' = "crashed"
    BY <1>2 DEF CallRuns, BrokerPanics
  <2>5. bat' = "ended" => ~event_chan'.open
    BY <2>4
  <2> QED BY <2>1, <2>3, <2>5
<1>3. CASE Waited
  <2>1. /\ UNCHANGED <<call, requested>>
        /\ at' = at \/ at' \in {"quit", "select", "panicked"} \/ (at = "finishing" /\ at' = "closing")
        /\ UNCHANGED <<bat, event_chan>> \/ bat' \in {"calls", "stranded"}
    BY <1>3 DEF Waited, InitReturns, AwaitIo
  <2> QED BY <2>1
<1>4. CASE WriteFinal
  <2>1. at = "quit" /\ requested' = requested + 1 /\ at' = "finishing" /\ UNCHANGED <<bat, event_chan>>
    BY <1>4 DEF WriteFinal, Write, Request
  <2>2. requested \in Nat /\ requested > 0
    BY <2>1 DEF IoInv, TypeInv, Places
  <2> QED BY <2>1, <2>2
<1>5. CASE Load \/ Close \/ CallFails \/ ConnectionPanics \/ Read
  <2>1. at' \notin {"calling", "finishing", "closing"} \/ UNCHANGED <<at, call, requested>>
    BY <1>5 DEF Load, Close, CallFails, ConnectionPanics, Read, ReadFlips, ReadTurn, ReadPause, ReadSave, ReadQuit, Message, Evolve
  <2>2. UNCHANGED <<bat, event_chan>>
    BY <1>5 DEF Load, Close, CallFails, ConnectionPanics, Read, ReadFlips, ReadTurn, ReadPause, ReadSave, ReadQuit
  <2> QED BY <2>1, <2>2
<1>6. CASE BrokerLoop \/ NodeFails
  <2>1. UNCHANGED <<at, requested>>
    BY <1>6 DEF BrokerLoop, NodeFails, Evaluate, WriteFlips, WriteTurn, TakeEvent, Echo, NoEvent,
       AllTurnsDone, Recover, Restart
  <2>2. call' = call \/ call'.at = "lost"
    <3>1. call \in Calls
      BY DEF Types
    <3> QED BY <1>6, <3>1 DEF Calls, BrokerLoop, NodeFails, Evaluate, WriteFlips, WriteTurn, TakeEvent, Echo,
       NoEvent, AllTurnsDone, Recover, Restart
  <2>3. bat' = "ended" => event_chan' = [open |-> FALSE, buf |-> event_chan.buf]
    BY <1>6 DEF BrokerLoop, NodeFails, Evaluate, WriteFlips, WriteTurn, TakeEvent, Echo, NoEvent,
       AllTurnsDone, Recover, Restart, CloseSession, Continue, BrokerPanics
  <2> QED BY <2>1, <2>2, <2>3
<1>7. CASE IoGoroutine \/ UNCHANGED allVars
  <2>1. UNCHANGED <<at, requested, call, bat, event_chan>>
    BY <1>7 DEF IoGoroutine, IoSide, IoWait, IoResume, IoServe, IoQuit, allVars
  <2> QED BY <2>1
<1> QED
  BY <1>1, <1>2, <1>3, <1>4, <1>5, <1>6, <1>7 DEF ControllerNext, Distributor

\* While the distributor makes no request, io has the mutex for a moment at most.
LEMMA MutexReleased ==
  ASSUME IoInv
  PROVE  IoMoves \/ (holder = "nobody" /\ io \in {"asleep", "exited"})
BY DEF IoInv, TypeInv, Handshake, IoMoves

\* Of all that a broker's loop can wait for, only room on the stream and a key need
\* anybody else.
LEMMA BrokerWaits ==
  ASSUME Types, ~BrokerMoves
  PROVE  \/ bat \in {"unasked", "stranded", "ended", "crashed"}
         \/ bat \in {"report", "poll"} /\ ~Room
         \/ bat = "poll" /\ paused /\ echo = "none" /\ event_chan.buf = <<>>
BY DEF Types, BrokerMoves

\* The distributor waits for io, which answers.
LEMMA IoAnswers ==
  ASSUME IoInv, dist \in {"waiting", "asleep"}
  PROVE  IoMoves \/ (dist = "waiting" /\ holder = "nobody")
BY DEF IoInv, TypeInv, Handshake, Pending, Quiet, IoMoves

LEMMA InvRests == CInv /\ Waits => RestsOrMoves
<1> SUFFICES ASSUME CInv, Waits, ~SomebodyMoves, ~AtRest, ~Exhausted PROVE FALSE
  BY DEF RestsOrMoves
<1>0. IoInv /\ Types /\ Places /\ Progress /\ ~IoMoves /\ ~DistributorMoves /\ ~BrokerMoves
  BY DEF CInv, SomebodyMoves
<1>1. holder = "nobody" /\ io \in {"asleep", "exited"}
  BY <1>0, MutexReleased
<1>2. requested < MaxRequests /\ version < MaxVersion /\ requested \in Nat
  BY <1>0, IoAssumption DEF IoInv, TypeInv, Exhausted
<1>3. CASE at \in {"start", "quit"}
  BY <1>0, <1>1, <1>2, <1>3 DEF Places, DistributorMoves, CanRequest
<1>4. CASE at \in {"loading", "saving", "finishing"}
  <2>1. dist \in {"waiting", "asleep"}
    BY <1>0, <1>4 DEF Places, IoInv, TypeInv
  <2> QED BY <1>0, <1>4, <2>1, IoAnswers DEF DistributorMoves
<1>5. CASE at = "closing"
  BY <1>0, <1>1, <1>5 DEF Places, Waits, DistributorMoves
<1>6. CASE at = "ended"
  <2>1. io \in {"woken", "serving", "exited"}
    BY <1>0, <1>6 DEF Places, IoInv, Handshake
  <2> QED BY <1>1, <1>6, <2>1 DEF AtRest
<1>7. CASE at = "panicked"
  BY <1>7 DEF AtRest
<1>8. CASE at = "select"
  <2>1. dist = "idle" /\ requested > 0 /\ bat # "unasked"
    BY <1>0, <1>8 DEF Places
  <2>2. stream = <<>>
    BY <1>0, <1>1, <1>2, <1>8, <2>1 DEF DistributorMoves, CanRequest
  <2>3. Room /\ ~eof
    BY <1>0, <1>8, <2>2, ControllerAssumption DEF DistributorMoves, Room
  <2>4. bat \notin {"ended", "crashed"}
    BY <1>0, <2>3 DEF Progress
  <2>5. bat # "stranded"
    BY <1>8, <2>2, <2>3 DEF AtRest, Stranded
  <2>6. bat = "poll" /\ paused /\ echo = "none" /\ event_chan.buf = <<>>
    BY <1>0, <2>1, <2>3, <2>4, <2>5, BrokerWaits
  <2> QED BY <1>8, <2>2, <2>6 DEF AtRest, OnlyAKey
<1>9. CASE at = "calling"
  <2>1. /\ bat \notin {"unasked", "crashed"} /\ call.at = "waiting"
        /\ event_chan.open /\ event_chan.buf # <<>>
    BY <1>0, <1>9 DEF Places, Waits, DistributorMoves, AtRest
  <2>2. bat # "ended"
    BY <2>1 DEF Waits
  <2>3. bat # "stranded"
    BY <1>0, <1>9, <2>1 DEF AtRest, Stranded, Progress
  <2>4. bat \in {"report", "poll"} /\ ~Room
    BY <1>0, <2>1, <2>2, <2>3, BrokerWaits
  <2> QED BY <1>9, <2>1, <2>4 DEF AtRest, Standoff
<1> QED
  BY <1>0, <1>3, <1>4, <1>5, <1>6, <1>7, <1>8, <1>9 DEF Types

\* The controller, its broker and io only come to rest where something is missing
\* that none of them can bring: a key of the user of a paused evaluation, or, in a
\* call of Broker.Pause and its kin, the room on the stream that only the caller
\* makes (distributor.go:102-132, broker.go:257-282), a receiver for the channel
\* that a recovery replaced (broker.go:291), or, once a recovery found no node
\* (broker.go:295-298), anybody at the broker.
THEOREM ControllerRests == ControllerSpec => []RestsOrMoves
<1>1. ControllerInit => CInv /\ Waits
  BY ControllerInitInv, WaitsInit
<1>2. CInv /\ Waits /\ [ControllerNext]_allVars => (CInv /\ Waits)'
  <2> SUFFICES ASSUME CInv, Waits, [ControllerNext]_allVars PROVE CInv' /\ Waits'
    OBVIOUS
  <2>1. Types /\ Places /\ IoInv
    BY DEF CInv
  <2> QED BY <2>1, ControllerStepInv, WaitsStep
<1>3. ControllerSpec => [](CInv /\ Waits)
  BY <1>1, <1>2, PTL DEF ControllerSpec
<1> QED BY <1>3, InvRests, PTL
==============================================================================
