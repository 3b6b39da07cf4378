----------------------------- MODULE TimerQueue -----------------------------
(***************************************************************************)
(* TimerEventQueue and the thread of Env::run that serves it.  Other       *)
(* threads add and remove timers under the queue's mutex; the serving      *)
(* thread holds the mutex from the moment it reads the clock until the     *)
(* last due callback has returned.  Every point in time is kept relative   *)
(* to the present, so that a Tick of the clock lowers all of them by one.  *)
(***************************************************************************)
EXTENDS Integers, FiniteSets

CONSTANTS
  Delay,      \* milliseconds a timer is added with
  MaxTimers,  \* bound: timers that are ever added
  MaxLate     \* bound: an awake thread is not delayed once a timer is so late

ASSUME TimerAssumption ==
  Delay \subseteq Nat /\ MaxTimers \in Nat /\ MaxLate \in Nat

Id == 1..MaxTimers

VARIABLES
  timers,        \* the ids in _timers
  key,           \* the time in a timer's key in _timers
  nextTimeout,   \* _nextTimeout of a timer
  delay,         \* the ms a timer was added with; its _interval is Interval(ms)
  isRepeat,      \* the ids in _timers whose _isRepeat is true
  repeatTimers,  \* the ids in _repeatTimers
  lastTimerId,
  run,           \* where the thread of Env::run is
  wake,          \* how long it still sleeps
  timePoint,     \* the time handleTimerEvent has read
  firing,        \* the timer whose callback runs, 0 for none
  passed,        \* history: the timers that fired since timePoint was read
  unseen,        \* history: the timers added since the thread last looked
  removed        \* history: the timers removeTimer was called for

queueVars == <<timers, key, nextTimeout, delay, isRepeat, repeatTimers>>
threadVars == <<run, wake, timePoint, firing, passed>>
vars == <<queueVars, lastTimerId, threadVars, unseen, removed>>

MutexFree == run \notin {"loop", "callback"}

Init ==
  /\ timers = {} /\ isRepeat = {} /\ repeatTimers = {}
  /\ key = [i \in Id |-> 0] /\ nextTimeout = [i \in Id |-> 0]
  /\ delay = [i \in Id |-> 0]
  /\ lastTimerId = 0
  /\ run = "off" /\ wake = 0 /\ timePoint = 0 /\ firing = 0
  /\ passed = {} /\ unseen = {} /\ removed = {}

-----------------------------------------------------------------------------
(* Any thread.                                                             *)

\* The constructor of TimeEventManager raises an interval of 0 to 1.
IntervalAsGiven(ms) == ms   \* mutant: it does not
Interval(ms) == IF ms = 0 THEN 1 ELSE ms

\* The key is computed from ms, the timer's _nextTimeout from its interval.
AddTimer(ms, repeat) ==
  LET id == lastTimerId + 1 IN
  /\ MutexFree /\ id \in Id
  /\ lastTimerId' = id
  /\ timers' = timers \cup {id}
  /\ key' = [key EXCEPT ![id] = ms]
  /\ delay' = [delay EXCEPT ![id] = ms]
  /\ nextTimeout' = [nextTimeout EXCEPT ![id] = Interval(ms)]
  /\ isRepeat' = IF repeat THEN isRepeat \cup {id} ELSE isRepeat
  /\ repeatTimers' = IF repeat THEN repeatTimers \cup {id} ELSE repeatTimers
  /\ unseen' = unseen \cup {id}
  /\ UNCHANGED <<threadVars, removed>>

\* Mutant of RemoveTimer: the mutex is not locked.
RemoveUnlocked(id) ==
  /\ id \in 1..lastTimerId
  /\ repeatTimers' = repeatTimers \ {id} /\ timers' = timers \ {id}
  /\ isRepeat' = isRepeat \ {id}
  /\ removed' = removed \cup {id}
  /\ UNCHANGED <<key, nextTimeout, delay, lastTimerId, threadVars, unseen>>

\* A timer of _repeatTimers is looked up in _timers under its _nextTimeout, any
\* other under the key addTimer returned, which a timer that never fired has.
RemoveTimer(id) ==
  /\ MutexFree /\ id \in 1..lastTimerId
  /\ repeatTimers' = repeatTimers \ {id}
  /\ LET found == IF id \in repeatTimers THEN key[id] = nextTimeout[id]
                  ELSE id \in isRepeat => key[id] # nextTimeout[id]
     IN timers' = IF found THEN timers \ {id} ELSE timers
  /\ isRepeat' = isRepeat \cap timers'
  /\ removed' = removed \cup {id}
  /\ UNCHANGED <<key, nextTimeout, delay, lastTimerId, threadVars, unseen>>

-----------------------------------------------------------------------------
(* The thread of Env::run.                                                 *)

\* _timers.begin(): ordered by time, then by id.
IsFirst(i) ==
  /\ i \in timers
  /\ \A j \in timers : key[i] < key[j] \/ (key[i] = key[j] /\ i <= j)

Start ==
  /\ run = "off" /\ run' = "ask"
  /\ UNCHANGED <<queueVars, lastTimerId, wake, timePoint, firing, passed, unseen, removed>>

\* Mutant of GetTimeRemaining: it looks at the last timer.
GetTimeOfLast ==
  /\ run = "ask"
  /\ IF timers = {} THEN run' = "exit" /\ UNCHANGED wake
     ELSE \E i \in timers :
            /\ \A j \in timers : key[j] <= key[i]
            /\ run' = "sleep"
            /\ wake' = IF key[i] <= 0 THEN 0 ELSE key[i]
  /\ unseen' = {}
  /\ UNCHANGED <<queueVars, lastTimerId, timePoint, firing, passed, removed>>

\* getTimeRemaining: the time to the first timer; with none the thread exits.  What
\* passes before the sleep begins makes the thread as late as a sleep that is too long.
GetTimeRemaining ==
  /\ run = "ask"
  /\ IF timers = {} THEN run' = "exit" /\ UNCHANGED wake
     ELSE \E i \in timers :
            /\ IsFirst(i)
            /\ run' = "sleep"
            /\ wake' = IF key[i] <= 0 THEN 0 ELSE key[i]
  /\ unseen' = {}
  /\ UNCHANGED <<queueVars, lastTimerId, timePoint, firing, passed, removed>>

\* mSleep returns, and handleTimerEvent looks for timers without the mutex.
WakeUp ==
  /\ run = "sleep" /\ wake = 0
  /\ run' = IF timers = {} /\ repeatTimers = {} THEN "ask" ELSE "lock"
  /\ UNCHANGED <<queueVars, lastTimerId, wake, timePoint, firing, passed, unseen, removed>>

\* It locks the mutex and reads the clock.
Lock ==
  /\ run = "lock"
  /\ run' = "loop" /\ timePoint' = 0 /\ passed' = {}
  /\ UNCHANGED <<queueVars, lastTimerId, wake, firing, unseen, removed>>

\* Mutant of Fire: the clock is read again for every timer.
FireRereads ==
  /\ run = "loop"
  /\ \E i \in timers : IsFirst(i) /\ key[i] <= 0 /\ firing' = i
  /\ run' = "callback" /\ timePoint' = 0
  /\ UNCHANGED <<queueVars, lastTimerId, wake, passed, unseen, removed>>

\* The first timer is due: its callback is called, with the mutex held.
Fire ==
  /\ run = "loop"
  /\ \E i \in timers : IsFirst(i) /\ key[i] <= timePoint /\ firing' = i
  /\ run' = "callback"
  /\ UNCHANGED <<queueVars, lastTimerId, wake, timePoint, passed, unseen, removed>>

\* Mutant of CallbackReturns: setNextTimeout is not called.
CallbackKeepsNext ==
  /\ run = "callback"
  /\ IF firing \in isRepeat
     THEN /\ key' = [key EXCEPT ![firing] = timePoint + Interval(delay[firing])]
          /\ UNCHANGED <<timers, nextTimeout>>
     ELSE timers' = timers \ {firing} /\ UNCHANGED <<key, nextTimeout>>
  /\ run' = "loop" /\ firing' = 0 /\ passed' = passed \cup {firing}
  /\ UNCHANGED <<delay, isRepeat, repeatTimers, lastTimerId, wake, timePoint,
                 unseen, removed>>

\* Mutant of CallbackReturns: a repeating timer is not put back.
CallbackErases ==
  /\ run = "callback"
  /\ timers' = timers \ {firing} /\ isRepeat' = isRepeat \ {firing}
  /\ run' = "loop" /\ firing' = 0 /\ passed' = passed \cup {firing}
  /\ UNCHANGED <<key, nextTimeout, delay, repeatTimers, lastTimerId, wake, timePoint,
                 unseen, removed>>

\* A repeating timer is put back one interval after timePoint, any other goes.
CallbackReturns ==
  /\ run = "callback"
  /\ IF firing \in isRepeat
     THEN /\ nextTimeout' = [nextTimeout EXCEPT ![firing] = timePoint + Interval(delay[firing])]
          /\ key' = [key EXCEPT ![firing] = timePoint + Interval(delay[firing])]
          /\ UNCHANGED timers
     ELSE timers' = timers \ {firing} /\ UNCHANGED <<key, nextTimeout>>
  /\ run' = "loop" /\ firing' = 0 /\ passed' = passed \cup {firing}
  /\ UNCHANGED <<delay, isRepeat, repeatTimers, lastTimerId, wake, timePoint,
                 unseen, removed>>

\* No timer is due any more: the mutex is unlocked.
Unlock ==
  /\ run = "loop" /\ \A i \in timers : key[i] > timePoint
  /\ run' = "ask"
  /\ UNCHANGED <<queueVars, lastTimerId, wake, timePoint, firing, passed, unseen, removed>>

-----------------------------------------------------------------------------
\* A millisecond passes.
Tick ==
  /\ \/ run = "sleep" /\ wake > 0
     \/ (\A i \in timers : key[i] > -MaxLate) /\ timePoint > -MaxLate
  /\ key' = [i \in Id |-> IF i \in timers THEN key[i] - 1 ELSE 0]
  /\ nextTimeout' = [i \in Id |-> IF i \in timers THEN nextTimeout[i] - 1 ELSE 0]
  /\ wake' = IF wake > 0 THEN wake - 1 ELSE 0
  /\ timePoint' = IF MutexFree THEN 0 ELSE timePoint - 1
  /\ UNCHANGED <<timers, delay, isRepeat, repeatTimers, lastTimerId, run, firing,
                 passed, unseen, removed>>

Thread == GetTimeRemaining \/ WakeUp \/ Lock \/ Fire \/ CallbackReturns \/ Unlock

Next ==
  \/ \E ms \in Delay, repeat \in BOOLEAN : AddTimer(ms, repeat)
  \/ \E id \in Id : RemoveTimer(id)
  \/ Start \/ Thread \/ Tick

Spec == Init /\ [][Next]_vars

\* Time passes, and the thread runs on: callbacks return.
FairSpec == Spec /\ WF_vars(Start) /\ WF_vars(Thread) /\ WF_vars(Tick)

-----------------------------------------------------------------------------
TypeOK ==
  /\ timers \subseteq Id /\ isRepeat \subseteq Id /\ repeatTimers \subseteq Id
  /\ key \in [Id -> Int] /\ nextTimeout \in [Id -> Int]
  /\ delay \in [Id -> Delay \cup {0}]
  /\ lastTimerId \in Id \cup {0}
  /\ run \in {"off", "ask", "sleep", "lock", "loop", "callback", "exit"}
  /\ wake \in Nat /\ timePoint \in Int /\ timePoint <= 0
  /\ firing \in timers \cup {0}
  /\ passed \subseteq Id /\ unseen \subseteq Id /\ removed \subseteq Id

\* After removeTimer a timer is no longer in the queue, so its callback is not
\* called any more, however often it was put back before.  The exception is a
\* repeating timer added with 0 ms: until it fires its key and its _nextTimeout
\* differ by the raise of the interval, and removeTimer does not find it.
RemovedIsSilent ==
  \A i \in removed : i \in timers => i \in isRepeat /\ delay[i] = 0

\* One call of handleTimerEvent fires a timer at most once.
OncePerPass == firing \notin passed \ {0}

\* The sleeping thread sleeps past no timer it could have known of: only one
\* added while it sleeps may have to wait for the end of the sleep.
SleepIsShort ==
  run = "sleep" /\ wake > 0 => \A i \in timers \ unseen : wake <= key[i]

\* The mutex is released: no addTimer or removeTimer waits for ever.
PassEnds == ~MutexFree ~> MutexFree

\* As long as the thread has not exited for want of timers, a timer that was
\* added fires and a repeating one fires again and again, until it is removed.
ArmedFires ==
  \A i \in Id :
    i \in timers \cup repeatTimers /\ run # "exit" ~> firing = i \/ i \in removed
=============================================================================
