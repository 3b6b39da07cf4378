---------------------------- MODULE InstanceList ----------------------------
(***************************************************************************)
(* What MediaSession needs of the RTP instance list of a track: IO threads *)
(* append to it, each append in one step, while the timer thread walks it  *)
(* from the first instance to the end, again and again.                    *)
(***************************************************************************)
EXTENDS Naturals, Sequences

CONSTANTS
  Node,  \* the instances that may be added
  End,   \* where a walk ends
  Idle   \* no walk in progress

VARIABLES
  items,  \* the instances added, in order
  cursor  \* where the walking thread stands

Init == items = <<>> /\ cursor = Idle

\* MediaSession::addRtpInstance
Add(n) ==
  /\ \A p \in 1..Len(items) : items[p] # n
  /\ items' = Append(items, n)
  /\ UNCHANGED cursor

\* MediaSession::sendPacket
At(p) == IF p \in 1..Len(items) THEN items[p] ELSE End
Begin == cursor = Idle /\ cursor' = At(1) /\ UNCHANGED items
Visit ==
  /\ \E p \in 1..Len(items) : items[p] = cursor /\ cursor' = At(p + 1)
  /\ UNCHANGED items
Finish == cursor = End /\ cursor' = Idle /\ UNCHANGED items

Next == (\E n \in Node : Add(n)) \/ Begin \/ Visit \/ Finish

Spec == Init /\ [][Next]_<<items, cursor>>
=============================================================================
