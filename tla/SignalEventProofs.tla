-------------------------- MODULE SignalEventProofs --------------------------
(***************************************************************************)
(* Safety of SignalEvent for any number of signals.                        *)
(***************************************************************************)
EXTENDS SignalEvent, TLAPS

\* What LostOnlyMidway and TaskForSignal need to be inductive: until the reset, what
\* the thread has not heard was asked midway; the task it is about to call is
\* not counted yet; and only stop writes STOP.
MidwayKnown == InTask => \A k \in 1..asked : k <= heard \/ k \in midway
TaskPending == run = "task" => tasks < heard
StopKnown == mSignal = "STOP" => stopped

SInv == TypeOK /\ LostOnlyMidway /\ TaskForSignal /\ MidwayKnown /\ TaskPending /\ StopKnown

LEMMA InitSInv == Init => SInv
<1> SUFFICES ASSUME Init PROVE SInv
  OBVIOUS
<1>1. TypeOK
  <2>1. callback \in BOOLEAN /\ stopped \in BOOLEAN
    BY Zenon DEF Init
  <2> QED
    BY <2>1, SignalAssumption DEF Init, TypeOK, Call
<1>2. LostOnlyMidway /\ TaskForSignal
  BY DEF Init, LostOnlyMidway, TaskForSignal, InTask
<1>3. MidwayKnown /\ TaskPending /\ StopKnown
  BY DEF Init, MidwayKnown, TaskPending, StopKnown, InTask
<1> QED
  BY <1>1, <1>2, <1>3 DEF SInv

LEMMA StepSInv == SInv /\ [Next]_vars => SInv'
<1> SUFFICES ASSUME SInv, [Next]_vars PROVE SInv'
  OBVIOUS
<1> USE SignalAssumption
    DEF SInv, TypeOK, LostOnlyMidway, TaskForSignal, MidwayKnown, TaskPending, StopKnown,
        InTask, Call
<1>1. CASE SetSignal
  BY <1>1 DEF SetSignal
<1>2. CASE Stop
  BY <1>2 DEF Stop
<1>3. CASE Start
  BY <1>3 DEF Start
<1>4. ASSUME NEW isEmpty \in BOOLEAN, SetCallBack(isEmpty) PROVE SInv'
  BY <1>4 DEF SetCallBack
<1>5. CASE GetSignal
  BY <1>5 DEF GetSignal
<1>6. CASE HandleTask
  BY <1>6 DEF HandleTask
<1>7. CASE UnsetSignal
  BY <1>7 DEF UnsetSignal
<1>8. CASE WakeUp
  BY <1>8 DEF WakeUp
<1>9. CASE UNCHANGED vars
  BY <1>9 DEF vars
<1> QED
  BY <1>1, <1>2, <1>3, <1>4, <1>5, <1>6, <1>7, <1>8, <1>9 DEF Next, Thread

\* A signal is lost only while a task runs or after a stop, however many there are.
THEOREM SignalsKept == Spec => []LostOnlyMidway
BY InitSInv, StepSInv, PTL DEF Spec, SInv

\* The callback is called at most once for each signal.
THEOREM TasksAskedFor == Spec => []TaskForSignal
BY InitSInv, StepSInv, PTL DEF Spec, SInv
=============================================================================
