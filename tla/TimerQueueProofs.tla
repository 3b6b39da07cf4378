-------------------------- MODULE TimerQueueProofs --------------------------
(***************************************************************************)
(* Safety of the timer queue for any number of timers, any delays and any  *)
(* lateness of the thread.                                                 *)
(***************************************************************************)
EXTENDS TimerQueue, TLAPS

\* Ids that were not given out are nowhere.
Fresh ==
  \A i \in Id : i > lastTimerId =>
    i \notin timers /\ i \notin isRepeat /\ i \notin repeatTimers /\ i \notin removed

\* The two maps agree: a repeating timer leaves _repeatTimers only through
\* removeTimer, and its key is its _nextTimeout unless it was added with 0 ms.
MapsAgree ==
  /\ repeatTimers \subseteq isRepeat /\ isRepeat \subseteq timers
  /\ \A i \in isRepeat : i \notin repeatTimers => i \in removed
  /\ \A i \in isRepeat : delay[i] # 0 => key[i] = nextTimeout[i]

\* In a pass, the timer that fires is due and those that have fired are not.
PassOK ==
  /\ run = "callback" <=> firing # 0
  /\ run = "callback" => key[firing] <= timePoint
  /\ ~MutexFree => \A i \in passed : i \in timers => key[i] > timePoint

QInv == TypeOK /\ Fresh /\ MapsAgree /\ PassOK /\ RemovedIsSilent

LEMMA InitQInv == Init => QInv /\ SleepIsShort
BY TimerAssumption
   DEF Init, QInv, TypeOK, Fresh, MapsAgree, PassOK, RemovedIsSilent, SleepIsShort, MutexFree, Id

LEMMA StepQInv == QInv /\ [Next]_vars => QInv'
<1> SUFFICES ASSUME QInv, [Next]_vars PROVE QInv'
  OBVIOUS
<1>0. /\ TypeOK /\ Fresh /\ MapsAgree /\ PassOK /\ RemovedIsSilent
      /\ Id \subseteq Nat /\ 0 \notin Id
  BY TimerAssumption DEF QInv, Id
<1>1. ASSUME NEW ms \in Delay, NEW repeat \in BOOLEAN, AddTimer(ms, repeat) PROVE QInv'
  <2> DEFINE id == lastTimerId + 1
  <2>1. /\ id \in Id /\ id > lastTimerId /\ ms \in Nat
        /\ id \notin timers /\ id \notin isRepeat /\ id \notin repeatTimers /\ id \notin removed
        /\ firing = 0 /\ run # "callback" /\ MutexFree /\ Interval(ms) \in Int
        /\ ms # 0 => Interval(ms) = ms
    BY <1>0, <1>1, TimerAssumption
       DEF AddTimer, Fresh, MutexFree, PassOK, TypeOK, Interval
  <2>2. /\ lastTimerId' = id /\ timers' = timers \cup {id}
        /\ key' = [key EXCEPT ![id] = ms] /\ delay' = [delay EXCEPT ![id] = ms]
        /\ nextTimeout' = [nextTimeout EXCEPT ![id] = Interval(ms)]
        /\ isRepeat' = IF repeat THEN isRepeat \cup {id} ELSE isRepeat
        /\ repeatTimers' = IF repeat THEN repeatTimers \cup {id} ELSE repeatTimers
        /\ unseen' = unseen \cup {id}
        /\ UNCHANGED <<run, wake, timePoint, firing, passed, removed>>
    BY <1>1 DEF AddTimer, threadVars
  <2> HIDE DEF id
  <2>3. TypeOK'
    BY <1>0, <2>1, <2>2 DEF TypeOK
  <2>4. Fresh'
    BY <1>0, <2>1, <2>2 DEF Fresh, TypeOK, id
  <2>5. MapsAgree'
    BY <1>0, <2>1, <2>2 DEF MapsAgree, TypeOK
  <2>6. PassOK' /\ RemovedIsSilent'
    BY <1>0, <2>1, <2>2 DEF PassOK, RemovedIsSilent, MutexFree, TypeOK
  <2> QED
    BY <2>3, <2>4, <2>5, <2>6 DEF QInv
<1>2. ASSUME NEW id \in Id, RemoveTimer(id) PROVE QInv'
  <2>1. /\ repeatTimers' = repeatTimers \ {id}
        /\ timers' \subseteq timers /\ timers \subseteq timers' \cup {id}
        /\ isRepeat' = isRepeat \cap timers' /\ removed' = removed \cup {id}
        /\ UNCHANGED <<key, nextTimeout, delay, lastTimerId, run, wake, timePoint, firing,
                       passed, unseen>>
        /\ MutexFree /\ firing = 0 /\ run # "callback" /\ id <= lastTimerId
    BY <1>0, <1>2 DEF RemoveTimer, threadVars, MutexFree, PassOK, TypeOK
  <2>2. id \in timers' => id \in isRepeat /\ delay[id] = 0
    <3>1. CASE id \in repeatTimers
      BY <1>0, <1>2, <3>1 DEF RemoveTimer, MapsAgree
    <3>2. CASE id \notin repeatTimers
      BY <1>0, <1>2, <3>2 DEF RemoveTimer, MapsAgree, RemovedIsSilent
    <3> QED
      BY <3>1, <3>2
  <2>3. TypeOK'
    BY <1>0, <2>1 DEF TypeOK
  <2>4. Fresh'
    BY <1>0, <2>1 DEF Fresh, TypeOK
  <2>5. MapsAgree'
    BY <1>0, <2>1 DEF MapsAgree
  <2>6. PassOK'
    BY <1>0, <2>1 DEF PassOK, MutexFree
  <2>7. RemovedIsSilent'
    BY <1>0, <2>1, <2>2 DEF RemovedIsSilent
  <2> QED
    BY <2>3, <2>4, <2>5, <2>6, <2>7 DEF QInv
<1>3. CASE Start \/ GetTimeRemaining \/ WakeUp \/ Unlock
  <2>1. /\ UNCHANGED <<queueVars, lastTimerId, timePoint, firing, passed, removed>>
        /\ run' \in {"ask", "sleep", "lock", "exit"} /\ run # "callback"
        /\ wake' \in Nat /\ unseen' \in {unseen, {}}
    BY <1>0, <1>3 DEF Start, GetTimeRemaining, WakeUp, Unlock, TypeOK, IsFirst
  <2> QED
    BY <1>0, <2>1
       DEF QInv, TypeOK, Fresh, MapsAgree, PassOK, RemovedIsSilent, MutexFree, queueVars
<1>4. CASE Lock
  BY <1>0, <1>4
     DEF Lock, QInv, TypeOK, Fresh, MapsAgree, PassOK, RemovedIsSilent, MutexFree, queueVars
<1>5. CASE Fire
  <2>1. /\ firing' \in timers /\ key[firing'] <= timePoint /\ firing' # 0
        /\ run = "loop" /\ run' = "callback"
        /\ UNCHANGED <<queueVars, lastTimerId, wake, timePoint, passed, unseen, removed>>
    BY <1>0, <1>5 DEF Fire, IsFirst, TypeOK
  <2> QED
    BY <1>0, <2>1
       DEF QInv, TypeOK, Fresh, MapsAgree, PassOK, RemovedIsSilent, MutexFree, queueVars
<1>6. CASE CallbackReturns
  <2>1. /\ firing \in timers /\ firing \in Id /\ run = "callback" /\ run' = "loop"
        /\ firing' = 0 /\ passed' = passed \cup {firing}
        /\ UNCHANGED <<delay, isRepeat, repeatTimers, lastTimerId, wake, timePoint, unseen,
                       removed>>
        /\ Interval(delay[firing]) \in Nat \ {0}
    <3>1. firing \in timers /\ firing \in Id /\ run = "callback"
      <4>1. run = "callback"
        BY <1>6 DEF CallbackReturns
      <4>2. firing # 0
        BY <1>0, <4>1 DEF PassOK
      <4>3. firing \in timers /\ timers \subseteq Id
        BY <1>0, <4>2 DEF TypeOK
      <4> QED
        BY <4>1, <4>3
    <3>2. delay[firing] \in Nat
      <4>1. delay[firing] \in Delay \cup {0}
        <5>1. delay \in [Id -> Delay \cup {0}]
          BY <1>0 DEF TypeOK
        <5> QED
          BY <3>1, <5>1
      <4>2. \A ms \in Delay \cup {0} : ms \in Nat
        BY TimerAssumption
      <4> QED
        BY <4>1, <4>2
    <3>3. Interval(delay[firing]) \in Nat \ {0}
      BY <3>2 DEF Interval
    <3> QED
      BY <1>6, <3>1, <3>3 DEF CallbackReturns
  <2>2. CASE firing \in isRepeat
    <3> DEFINE t == timePoint + Interval(delay[firing])
    <3>1. /\ key' = [key EXCEPT ![firing] = t]
          /\ nextTimeout' = [nextTimeout EXCEPT ![firing] = t]
          /\ timers' = timers /\ t \in Int /\ t > timePoint
      BY <1>0, <1>6, <2>1, <2>2 DEF CallbackReturns, TypeOK
    <3> HIDE DEF t
    <3>2. TypeOK' /\ Fresh'
      BY <1>0, <2>1, <3>1 DEF TypeOK, Fresh
    <3>3. MapsAgree' /\ RemovedIsSilent'
      BY <1>0, <2>1, <3>1 DEF TypeOK, MapsAgree, RemovedIsSilent
    <3>4. PassOK'
      BY <1>0, <2>1, <3>1 DEF TypeOK, PassOK, MutexFree
    <3> QED
      BY <3>2, <3>3, <3>4 DEF QInv
  <2>3. CASE firing \notin isRepeat
    <3>1. timers' = timers \ {firing} /\ UNCHANGED <<key, nextTimeout>>
      BY <1>6, <2>3 DEF CallbackReturns
    <3>2. TypeOK' /\ Fresh'
      BY <1>0, <2>1, <3>1 DEF TypeOK, Fresh
    <3>3. MapsAgree' /\ RemovedIsSilent'
      BY <1>0, <2>1, <2>3, <3>1 DEF TypeOK, MapsAgree, RemovedIsSilent
    <3>4. PassOK'
      BY <1>0, <2>1, <3>1 DEF TypeOK, PassOK, MutexFree
    <3> QED
      BY <3>2, <3>3, <3>4 DEF QInv
  <2> QED
    BY <2>2, <2>3
<1>7. CASE Tick
  <2>1. /\ key' = [i \in Id |-> IF i \in timers THEN key[i] - 1 ELSE 0]
        /\ nextTimeout' = [i \in Id |-> IF i \in timers THEN nextTimeout[i] - 1 ELSE 0]
        /\ wake' = IF wake > 0 THEN wake - 1 ELSE 0
        /\ timePoint' = IF MutexFree THEN 0 ELSE timePoint - 1
        /\ UNCHANGED <<timers, delay, isRepeat, repeatTimers, lastTimerId, run, firing,
                       passed, unseen, removed>>
    BY <1>7 DEF Tick
  <2>2. TypeOK'
    BY <1>0, <2>1 DEF TypeOK
  <2>3. Fresh' /\ RemovedIsSilent'
    BY <1>0, <2>1 DEF Fresh, RemovedIsSilent
  <2>4. MapsAgree'
    BY <1>0, <2>1 DEF MapsAgree, TypeOK
  <2>5. PassOK'
    BY <1>0, <2>1 DEF PassOK, TypeOK, MutexFree
  <2> QED
    BY <2>2, <2>3, <2>4, <2>5 DEF QInv
<1>8. CASE UNCHANGED vars
  BY <1>0, <1>8
     DEF vars, threadVars, queueVars, QInv, TypeOK, Fresh, MapsAgree, PassOK, RemovedIsSilent,
         MutexFree
<1> QED
  BY <1>1, <1>2, <1>3, <1>4, <1>5, <1>6, <1>7, <1>8 DEF Next, Thread

\* Every variable holds a value of its type; in particular the timer whose
\* callback runs is in the queue until the callback has returned.
THEOREM TimerTypes == Spec => []TypeOK
<1>1. QInv => TypeOK
  BY DEF QInv
<1> QED
  BY InitQInv, StepQInv, <1>1, PTL DEF Spec

\* A timer that removeTimer was called for never fires again, unless it was a
\* repeating timer added with 0 ms.
THEOREM RemovedStaysSilent == Spec => []RemovedIsSilent
<1>1. QInv => RemovedIsSilent
  BY DEF QInv
<1> QED
  BY InitQInv, StepQInv, <1>1, PTL DEF Spec

\* A call of handleTimerEvent fires no timer twice, however long its callbacks
\* take: the interval of at least 1 puts a timer behind the time it has read.
THEOREM FiresOncePerPass == Spec => []OncePerPass
<1>1. QInv => OncePerPass
  BY DEF QInv, PassOK, OncePerPass, MutexFree, TypeOK
<1> QED
  BY InitQInv, StepQInv, <1>1, PTL DEF Spec

LEMMA StepSleep == QInv /\ SleepIsShort /\ [Next]_vars => SleepIsShort'
<1> SUFFICES ASSUME QInv, SleepIsShort, [Next]_vars PROVE SleepIsShort'
  OBVIOUS
<1>0. TypeOK /\ PassOK /\ Id \subseteq Nat
  BY TimerAssumption DEF QInv, Id
<1>1. ASSUME NEW ms \in Delay, NEW repeat \in BOOLEAN, AddTimer(ms, repeat)
      PROVE  SleepIsShort'
  <2>1. /\ timers' = timers \cup {lastTimerId + 1} /\ unseen' = unseen \cup {lastTimerId + 1}
        /\ UNCHANGED <<run, wake>>
        /\ \A i \in Id \ {lastTimerId + 1} : key'[i] = key[i]
    BY <1>0, <1>1 DEF AddTimer, threadVars, TypeOK
  <2> QED
    BY <1>0, <2>1 DEF SleepIsShort, TypeOK
<1>2. ASSUME NEW id \in Id, RemoveTimer(id) PROVE SleepIsShort'
  BY <1>2 DEF RemoveTimer, threadVars, SleepIsShort
<1>3. CASE GetTimeRemaining
  <2>1. ASSUME run' = "sleep", wake' > 0, NEW j \in timers' PROVE wake' <= key'[j]
    <3>1. PICK i \in timers : IsFirst(i) /\ wake' = IF key[i] <= 0 THEN 0 ELSE key[i]
      BY <1>3, <2>1 DEF GetTimeRemaining
    <3>2. key[i] \in Int /\ key[j] \in Int /\ j \in timers /\ key' = key
      BY <1>0, <1>3, <2>1 DEF GetTimeRemaining, queueVars, TypeOK
    <3> QED
      BY <2>1, <3>1, <3>2 DEF IsFirst
  <2> QED
    BY <2>1 DEF SleepIsShort
<1>4. CASE Tick
  <2>1. /\ key' = [i \in Id |-> IF i \in timers THEN key[i] - 1 ELSE 0]
        /\ wake' = IF wake > 0 THEN wake - 1 ELSE 0
        /\ UNCHANGED <<timers, run, unseen>>
    BY <1>4 DEF Tick
  <2> QED
    BY <1>0, <2>1 DEF SleepIsShort, TypeOK
<1>5. CASE Start \/ WakeUp \/ Lock \/ Fire \/ CallbackReturns \/ Unlock
  BY <1>5 DEF Start, WakeUp, Lock, Fire, CallbackReturns, Unlock, SleepIsShort
<1>6. CASE UNCHANGED vars
  BY <1>6 DEF vars, queueVars, threadVars, SleepIsShort
<1> QED
  BY <1>1, <1>2, <1>3, <1>4, <1>5, <1>6 DEF Next, Thread

\* The thread of Env::run sleeps past no timer that was in the queue when it
\* went to sleep.
THEOREM SleepsNoLonger == Spec => []SleepIsShort
BY InitQInv, StepQInv, StepSleep, PTL DEF Spec
=============================================================================
