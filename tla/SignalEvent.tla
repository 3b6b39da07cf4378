----------------------------- MODULE SignalEvent -----------------------------
(***************************************************************************)
(* SignalEvent: a thread that runs a callback whenever it finds the signal *)
(* set.  Any other thread may set the signal or stop the thread.  Each     *)
(* access to mSignal is under the mutex, but the thread reads it, runs the *)
(* callback and resets it in three steps, and the callback runs unlocked.  *)
(***************************************************************************)
EXTENDS Naturals

CONSTANT MaxSignals  \* bound: calls of setSignal

ASSUME SignalAssumption == MaxSignals \in Nat

Call == 1..MaxSignals

VARIABLES
  mSignal,
  callback, \* whether signalCallback holds a function
  run,      \* where the thread is
  asked,    \* history: the calls of setSignal so far
  heard,    \* history: those made before the thread last saw DONOW
  midway,   \* history: the calls made between that read and the reset
  stopped,  \* history: stop has been called
  tasks     \* history: how often the callback was called

vars == <<mSignal, callback, run, asked, heard, midway, stopped, tasks>>

Init ==
  /\ mSignal = "NONE" /\ callback = TRUE /\ run = "off"
  /\ asked = 0 /\ heard = 0 /\ midway = {} /\ stopped = FALSE /\ tasks = 0

InTask == run \in {"task", "reset"}

-----------------------------------------------------------------------------
(* Any thread.                                                             *)

\* Mutant of SetSignal: no signal is set while the thread sleeps.
SetSignalOnce ==
  /\ asked < MaxSignals
  /\ asked' = asked + 1
  /\ mSignal' = IF run = "sleep" THEN mSignal ELSE "DONOW"
  /\ midway' = IF InTask THEN midway \cup {asked + 1} ELSE midway
  /\ UNCHANGED <<callback, run, heard, stopped, tasks>>

\* Also after stop, which it undoes if the thread has not yet seen it.
SetSignal ==
  /\ asked < MaxSignals
  /\ asked' = asked + 1
  /\ mSignal' = "DONOW"
  /\ midway' = IF InTask THEN midway \cup {asked + 1} ELSE midway
  /\ UNCHANGED <<callback, run, heard, stopped, tasks>>

Stop ==
  /\ mSignal' = "STOP" /\ stopped' = TRUE
  /\ UNCHANGED <<callback, run, asked, heard, midway, tasks>>

\* The callback is set before the thread is started, as in
\* test/testSignalThread.cpp: the thread reads it without the mutex.
SetCallBack(isEmpty) ==
  /\ run = "off" /\ callback' = ~isEmpty
  /\ UNCHANGED <<mSignal, run, asked, heard, midway, stopped, tasks>>

Start ==
  /\ run = "off" /\ run' = "read"
  /\ UNCHANGED <<mSignal, callback, asked, heard, midway, stopped, tasks>>

-----------------------------------------------------------------------------
(* The thread of SignalEvent::run.                                         *)

\* Mutant of GetSignal: STOP is looked at like NONE.
GetSignalNoStop ==
  /\ run = "read"
  /\ \/ mSignal \in {"NONE", "STOP"} /\ run' = "sleep" /\ UNCHANGED heard
     \/ mSignal = "DONOW" /\ run' = "task" /\ heard' = asked
  /\ UNCHANGED <<mSignal, callback, asked, midway, stopped, tasks>>

GetSignal ==
  /\ run = "read"
  /\ \/ mSignal = "NONE" /\ run' = "sleep" /\ UNCHANGED heard
     \/ mSignal = "DONOW" /\ run' = "task" /\ heard' = asked
     \/ mSignal = "STOP" /\ run' = "ended" /\ UNCHANGED heard
  /\ UNCHANGED <<mSignal, callback, asked, midway, stopped, tasks>>

\* Mutant of HandleTask: the signal is not reset.
HandleTaskKeeps ==
  /\ run = "task"
  /\ run' = "sleep" /\ tasks' = tasks + 1
  /\ UNCHANGED <<mSignal, callback, asked, heard, midway, stopped>>

\* The callback, if there is one, is called and returns.
HandleTask ==
  /\ run = "task"
  /\ run' = "reset"
  /\ tasks' = IF callback THEN tasks + 1 ELSE tasks
  /\ UNCHANGED <<mSignal, callback, asked, heard, midway, stopped>>

\* The reset, whatever mSignal has become since it was read.
UnsetSignal ==
  /\ run = "reset"
  /\ mSignal' = "NONE" /\ run' = "sleep"
  /\ UNCHANGED <<callback, asked, heard, midway, stopped, tasks>>

\* Mutant of WakeUp: the signal is reset before it is looked at again.
WakeUpReset ==
  /\ run = "sleep"
  /\ run' = "read" /\ mSignal' = "NONE"
  /\ UNCHANGED <<callback, asked, heard, midway, stopped, tasks>>

WakeUp ==
  /\ run = "sleep" /\ run' = "read"
  /\ UNCHANGED <<mSignal, callback, asked, heard, midway, stopped, tasks>>

Thread == GetSignal \/ HandleTask \/ UnsetSignal \/ WakeUp

Next ==
  \/ SetSignal \/ Stop \/ Start \/ Thread
  \/ \E isEmpty \in BOOLEAN : SetCallBack(isEmpty)

Spec == Init /\ [][Next]_vars

\* The thread runs on, and callbacks return; nobody has to set a signal.
FairSpec == Spec /\ WF_vars(Thread)

-----------------------------------------------------------------------------
TypeOK ==
  /\ mSignal \in {"NONE", "DONOW", "STOP"} /\ callback \in BOOLEAN
  /\ run \in {"off", "read", "task", "reset", "sleep", "ended"}
  /\ asked \in 0..MaxSignals /\ heard \in 0..asked
  /\ midway \subseteq Call
  /\ stopped \in BOOLEAN
  /\ tasks \in Nat

\* A call of setSignal is seen by the thread, or still waiting to be seen,
\* unless it was made during a task, whose end overwrites it, or stop was called.
LostOnlyMidway ==
  \A k \in 1..asked :
    k <= heard \/ k \in midway \/ mSignal = "DONOW" \/ stopped

\* Signals are merged, never multiplied: however the calls fall, the callback is
\* called at most once for each, and none is left over from one already served.
TaskForSignal ==
  /\ tasks <= heard
  /\ mSignal = "DONOW" /\ ~InTask => heard < asked

\* A signal that is set while no task runs is followed by a task, or by a stop.
SignalLeadsToTask ==
  mSignal = "DONOW" /\ run \in {"read", "sleep"} ~> run = "task" \/ mSignal = "STOP"

\* A stop given while no task runs ends the thread, unless a setSignal undoes it.
StopLeadsToEnd ==
  mSignal = "STOP" /\ run \in {"read", "sleep"} ~> run = "ended" \/ mSignal = "DONOW"
=============================================================================
