------------------------------ MODULE TrackList ------------------------------
(***************************************************************************)
(* The std::list mRtpInstances of one track, step by step.  The IO thread  *)
(* of each connection may push_back one instance; the timer thread walks   *)
(* the list in MediaSession::sendPacket.  There is no lock.                *)
(*                                                                         *)
(* push_back is libstdc++'s: it creates the node, reads the sentinel's     *)
(* _M_prev once, writes the node's own pointers, and then makes two stores *)
(* other threads can see.  Stores are seen in program order, as on x86.    *)
(***************************************************************************)
EXTENDS Naturals, Sequences, FiniteSets

CONSTANTS
  Node,    \* the nodes, one for each connection that may be added
  End,     \* the sentinel node, which is end()
  Idle,    \* the timer thread is not in sendPacket
  Unset,   \* a pointer that has not been written
  Overlap  \* whether several push_backs may be in progress at once

ASSUME TrackAssumption ==
  /\ IsFiniteSet(Node)
  /\ End \notin Node /\ {Idle, Unset} \cap (Node \cup {End}) = {} /\ Idle # Unset
  /\ Overlap \in BOOLEAN

VARIABLES
  next, prev,  \* _M_next and _M_prev of every node
  wpc,         \* how far the push_back of each node has come
  cursor,      \* the node sendPacket's iterator stands at
  published    \* history: the nodes in the order they were linked in

vars == <<next, prev, wpc, cursor, published>>

Pushing == {n \in Node : wpc[n] \in {"hooked", "linked"}}

Init ==
  /\ next = [x \in Node \cup {End} |-> IF x = End THEN End ELSE Unset]
  /\ prev = [x \in Node \cup {End} |-> IF x = End THEN End ELSE Unset]
  /\ wpc = [n \in Node |-> "new"]
  /\ cursor = Idle
  /\ published = <<>>

-----------------------------------------------------------------------------
(* addRtpInstance on an IO thread.                                         *)

\* Mutant of Hook: the node's two pointers are swapped.
HookSwapped(n) ==
  /\ wpc[n] = "new" /\ (Overlap \/ Pushing = {})
  /\ next' = [next EXCEPT ![n] = prev[End]]
  /\ prev' = [prev EXCEPT ![n] = prev[End]]
  /\ wpc' = [wpc EXCEPT ![n] = "hooked"]
  /\ UNCHANGED <<cursor, published>>

\* Mutant of Hook: the node's _M_next is left for later.
HookLate(n) ==
  /\ wpc[n] = "new" /\ (Overlap \/ Pushing = {})
  /\ prev' = [prev EXCEPT ![n] = prev[End]]
  /\ wpc' = [wpc EXCEPT ![n] = "hooked"]
  /\ UNCHANGED <<next, cursor, published>>

\* The new node gets its own pointers; no other thread knows it yet.
Hook(n) ==
  /\ wpc[n] = "new" /\ (Overlap \/ Pushing = {})
  /\ next' = [next EXCEPT ![n] = End]
  /\ prev' = [prev EXCEPT ![n] = prev[End]]
  /\ wpc' = [wpc EXCEPT ![n] = "hooked"]
  /\ UNCHANGED <<cursor, published>>

\* Mutant of Link: the node is linked in at the front.
LinkFirst(n) ==
  /\ wpc[n] = "hooked"
  /\ next' = [next EXCEPT ![End] = n, ![n] = next[End]]
  /\ wpc' = [wpc EXCEPT ![n] = "linked"]
  /\ published' = Append(published, n)
  /\ UNCHANGED <<prev, cursor>>

\* prev->_M_next = node: from here on the walk finds it.
Link(n) ==
  /\ wpc[n] = "hooked"
  /\ next' = [next EXCEPT ![prev[n]] = n]
  /\ wpc' = [wpc EXCEPT ![n] = "linked"]
  /\ published' = Append(published, n)
  /\ UNCHANGED <<prev, cursor>>

\* Mutant of Close: the sentinel's _M_prev is not updated.
CloseNothing(n) ==
  /\ wpc[n] = "linked"
  /\ wpc' = [wpc EXCEPT ![n] = "added"]
  /\ UNCHANGED <<next, prev, cursor, published>>

\* end()->_M_prev = node, and addRtpInstance returns.
Close(n) ==
  /\ wpc[n] = "linked"
  /\ prev' = [prev EXCEPT ![End] = n]
  /\ wpc' = [wpc EXCEPT ![n] = "added"]
  /\ UNCHANGED <<next, cursor, published>>

-----------------------------------------------------------------------------
(* sendPacket on the timer thread.                                         *)

\* Mutant of Begin: the walk starts behind the first instance.
BeginSecond ==
  /\ cursor = Idle /\ cursor' = next[next[End]]
  /\ UNCHANGED <<next, prev, wpc, published>>

Begin ==
  /\ cursor = Idle /\ cursor' = next[End]
  /\ UNCHANGED <<next, prev, wpc, published>>
Visit ==
  /\ cursor \in Node /\ cursor' = next[cursor]
  /\ UNCHANGED <<next, prev, wpc, published>>
Finish ==
  /\ cursor = End /\ cursor' = Idle
  /\ UNCHANGED <<next, prev, wpc, published>>

-----------------------------------------------------------------------------
PushBack(n) == Hook(n) \/ Link(n) \/ Close(n)
Walk == Begin \/ Visit \/ Finish

Next == Walk \/ \E n \in Node : PushBack(n)

Spec == Init /\ [][Next]_vars

\* The timer thread comes back with every packet, and a push_back runs on.
FairSpec ==
  Spec /\ WF_vars(Walk) /\ \A n \in Node : WF_vars(Link(n) \/ Close(n))

-----------------------------------------------------------------------------
TypeOK ==
  /\ next \in [Node \cup {End} -> Node \cup {End, Unset}]
  /\ prev \in [Node \cup {End} -> Node \cup {End, Unset}]
  /\ wpc \in [Node -> {"new", "hooked", "linked", "added"}]
  /\ cursor \in Node \cup {End, Idle}
  /\ published \in Seq(Node)

\* The nodes a walk meets from x on: next[x], next[next[x]], ... until End.
Follow(x) ==
  LET hop[i \in Nat] == IF i = 0 THEN x
                        ELSE IF i > 1 /\ hop[i - 1] = End THEN End
                        ELSE next[hop[i - 1]]
      count == Cardinality({i \in 1..Cardinality(Node) : hop[i] # End})
  IN [i \in 1..count |-> hop[i]]

\* A walk visits an instance whose push_back has returned.
AddedIsReachable ==
  \A n \in Node : wpc[n] = "added" =>
    \E i \in 1..Len(Follow(End)) : Follow(End)[i] = n

\* Whatever push_backs overlap, next pointers lead from a node to one that was
\* linked in later, and the iterator is at a node whose pointers are written:
\* sendPacket never follows an unset pointer and never goes round in a circle.
ForwardOnly ==
  /\ \A p \in 1..Len(published) :
       \/ next[published[p]] = End
       \/ \E q \in (p + 1)..Len(published) : next[published[p]] = published[q]
  /\ cursor \in {End, Idle} \cup {published[p] : p \in 1..Len(published)}

\* Whatever push_backs overlap, what can be reached from a node changes only by
\* losing what followed some node and gaining the one that is linked in: the
\* effect RtspServer gives AddRtpInstance on a torn list.
LossIsTruncation ==
  [][\A x \in {End} \cup {published[p] : p \in 1..Len(published)} :
       Follow(x)' # Follow(x) =>
         \E n \in Node, i \in 0..Len(Follow(x)) :
           /\ wpc'[n] = "linked" /\ wpc[n] = "hooked"
           /\ Follow(x)' = Append(SubSeq(Follow(x), 1, i), n)
    ]_vars

\* A walk that has begun ends, so the packet is done and the timers go on.
WalkEnds == cursor # Idle ~> cursor = Idle

\* A walk comes to every instance whose push_back has returned.
AddedIsVisited == \A n \in Node : wpc[n] = "added" ~> cursor = n

\* One push_back at a time, next to any walk, is an atomic append.
Abstract == INSTANCE InstanceList WITH items <- published
AtomicAppend == Abstract!Spec
=============================================================================
