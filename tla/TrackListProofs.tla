--------------------------- MODULE TrackListProofs ---------------------------
(***************************************************************************)
(* The list of a track for any number of connections: a walk only goes     *)
(* forward whatever push_backs overlap, and as long as none do, push_back  *)
(* is an atomic append.  What the walk meets is a path of next pointers to *)
(* the sentinel (IsPath): as long as no push_backs overlap it is the whole *)
(* list, and if they do, one of them can only cut the path short.          *)
(***************************************************************************)
EXTENDS TrackList, SequenceTheorems, FiniteSetTheorems, SequenceLemmas

Published == {published[p] : p \in 1..Len(published)}

\* What a push_back in progress holds on to.
PushOK ==
  /\ prev[End] \in Published \cup {End}
  /\ \A n \in Node :
       /\ wpc[n] \in {"new", "hooked"} => n \notin Published
       /\ wpc[n] \in {"linked", "added"} => n \in Published
       /\ wpc[n] = "hooked" => next[n] = End /\ prev[n] \in Published \cup {End}

PublishedOnce ==
  \A p, q \in 1..Len(published) : published[p] = published[q] => p = q

HeadOK == next[End] \in Published \cup {End}

IInv == TypeOK /\ PushOK /\ PublishedOnce /\ HeadOK /\ ForwardOnly

\* Linking a node in makes it the last of the published ones.
LEMMA LinkPublishes ==
  ASSUME TypeOK, NEW n \in Node, published' = Append(published, n)
  PROVE  /\ published' \in Seq(Node)
         /\ Len(published) \in Nat /\ Len(published') = Len(published) + 1
         /\ \A p \in 1..Len(published) : published'[p] = published[p]
         /\ published'[Len(published) + 1] = n
         /\ Published' = Published \cup {n}
<1>1. /\ published' \in Seq(Node)
      /\ Len(published) \in Nat /\ Len(published') = Len(published) + 1
      /\ \A p \in 1..Len(published) : published'[p] = published[p]
      /\ published'[Len(published) + 1] = n
  BY DEF TypeOK
<1>2. ASSUME NEW x \in Published' PROVE x \in Published \cup {n}
  <2>1. PICK p \in 1..(Len(published) + 1) : x = published'[p]
    BY <1>1, <1>2 DEF Published
  <2>2. p \in 1..Len(published) \/ p = Len(published) + 1
    BY <1>1
  <2> QED
    BY <1>1, <2>1, <2>2 DEF Published
<1>3. ASSUME NEW x \in Published \cup {n} PROVE x \in Published'
  <2>1. 1..Len(published) \subseteq 1..Len(published') /\ Len(published) + 1 \in 1..Len(published')
    BY <1>1
  <2> QED
    BY <1>1, <1>3, <2>1 DEF Published
<1> QED
  BY <1>1, <1>2, <1>3

LEMMA InitIInv == Init => IInv
BY TrackAssumption, EmptySeq
   DEF Init, IInv, TypeOK, PushOK, PublishedOnce, HeadOK, ForwardOnly, Published

LEMMA StepIInv == IInv /\ [Next]_vars => IInv'
<1> SUFFICES ASSUME IInv, [Next]_vars PROVE IInv'
  OBVIOUS
<1>0. /\ TypeOK /\ PushOK /\ PublishedOnce /\ HeadOK /\ ForwardOnly
      /\ Published \subseteq Node
      /\ Len(published) \in Nat
  BY ElementOfSeq DEF IInv, TypeOK, Published
<1>1. ASSUME NEW n \in Node, Hook(n) PROVE IInv'
  <2>1. /\ UNCHANGED <<cursor, published>> /\ Published' = Published
        /\ next' = [next EXCEPT ![n] = End] /\ prev' = [prev EXCEPT ![n] = prev[End]]
        /\ wpc' = [wpc EXCEPT ![n] = "hooked"]
        /\ n \notin Published /\ n # End
    BY <1>0, <1>1, TrackAssumption DEF Hook, PushOK, Published
  <2>2. TypeOK'
    BY <1>0, <2>1, TrackAssumption DEF TypeOK
  <2>3. PushOK'
    BY <1>0, <2>1, TrackAssumption DEF TypeOK, PushOK
  <2>4. PublishedOnce' /\ HeadOK'
    BY <1>0, <2>1, TrackAssumption DEF TypeOK, PublishedOnce, HeadOK
  <2>5. \A p \in 1..Len(published) : next'[published[p]] = next[published[p]]
    BY <1>0, <2>1 DEF TypeOK, Published
  <2>6. ForwardOnly'
    BY <1>0, <2>1, <2>5 DEF ForwardOnly
  <2> QED
    BY <2>2, <2>3, <2>4, <2>6 DEF IInv
<1>2. ASSUME NEW n \in Node, Link(n) PROVE IInv'
  <2>1. /\ UNCHANGED <<prev, cursor>> /\ published' = Append(published, n)
        /\ next' = [next EXCEPT ![prev[n]] = n]
        /\ wpc' = [wpc EXCEPT ![n] = "linked"] /\ wpc[n] = "hooked"
        /\ n \notin Published /\ next[n] = End
        /\ prev[n] \in Published \cup {End} /\ n # End
    BY <1>0, <1>2, TrackAssumption DEF Link, PushOK
  <2>2. /\ published' \in Seq(Node)
        /\ Len(published') = Len(published) + 1
        /\ \A p \in 1..Len(published) : published'[p] = published[p]
        /\ published'[Len(published) + 1] = n
        /\ Published' = Published \cup {n}
    BY <1>0, <2>1, LinkPublishes
  <2>3. /\ next'[n] = End /\ next'[prev[n]] = n
        /\ \A x \in (Node \cup {End}) \ {prev[n]} : next'[x] = next[x]
    BY <1>0, <2>1, TrackAssumption DEF TypeOK
  <2>4. TypeOK'
    BY <1>0, <2>1, <2>2, TrackAssumption DEF TypeOK
  <2>5. PushOK'
    <3>1. \A m \in Node : wpc'[m] = "hooked" => next'[m] = next[m]
      BY <1>0, <2>1, <2>3, TrackAssumption DEF PushOK, TypeOK
    <3> QED
      BY <1>0, <2>1, <2>2, <3>1 DEF PushOK, TypeOK
  <2>6. PublishedOnce'
    <3>1. \A p \in 1..Len(published) : published[p] # n
      BY <2>1 DEF Published
    <3>2. \A p \in 1..Len(published') : p \in 1..Len(published) \/ p = Len(published) + 1
      BY <1>0, <2>2
    <3> QED
      BY <1>0, <2>2, <3>1, <3>2 DEF PublishedOnce
  <2>7. HeadOK'
    BY <1>0, <2>1, <2>2, <2>3 DEF HeadOK
  <2>8. ForwardOnly'
    <3>1. \A p \in 1..Len(published') :
            \/ p = Len(published) + 1
            \/ p \in 1..Len(published) /\ published'[p] \in Node
      BY <1>0, <2>2 DEF Published
    <3>2. ASSUME NEW p \in 1..Len(published')
          PROVE  \/ next'[published'[p]] = End
                 \/ \E q \in (p + 1)..Len(published') : next'[published'[p]] = published'[q]
      <4>1. CASE p = Len(published) + 1
        BY <2>2, <2>3, <4>1
      <4>2. CASE p \in 1..Len(published) /\ published[p] = prev[n]
        <5>1. Len(published) + 1 \in (p + 1)..Len(published')
          BY <1>0, <2>2, <4>2
        <5> QED
          BY <2>2, <2>3, <4>2, <5>1
      <4>3. CASE p \in 1..Len(published) /\ published[p] # prev[n]
        <5>1. next'[published'[p]] = next[published[p]]
          BY <1>0, <2>2, <2>3, <4>3 DEF Published
        <5>2. \A q \in (p + 1)..Len(published) :
                q \in (p + 1)..Len(published') /\ published'[q] = published[q]
          BY <1>0, <2>2, <4>3
        <5> QED
          BY <1>0, <4>3, <5>1, <5>2 DEF ForwardOnly
      <4> QED
        BY <3>1, <4>1, <4>2, <4>3
    <3>3. cursor' \in {End, Idle} \cup Published'
      BY <1>0, <2>1, <2>2 DEF ForwardOnly, Published
    <3> QED
      BY <3>2, <3>3 DEF ForwardOnly, Published
  <2> QED
    BY <2>4, <2>5, <2>6, <2>7, <2>8 DEF IInv
<1>3. ASSUME NEW n \in Node, Close(n) PROVE IInv'
  <2>1. /\ UNCHANGED <<next, cursor, published>> /\ Published' = Published
        /\ prev' = [prev EXCEPT ![End] = n]
        /\ wpc' = [wpc EXCEPT ![n] = "added"] /\ n \in Published
    BY <1>0, <1>3 DEF Close, PushOK, Published
  <2>2. TypeOK'
    BY <1>0, <2>1 DEF TypeOK
  <2>3. PushOK'
    BY <1>0, <2>1, TrackAssumption DEF TypeOK, PushOK
  <2> QED
    BY <1>0, <2>1, <2>2, <2>3 DEF IInv, PublishedOnce, HeadOK, ForwardOnly
<1>4. CASE Begin \/ Visit \/ Finish
  <2>1. /\ UNCHANGED <<next, prev, wpc, published>> /\ Published' = Published
        /\ cursor' \in {next[End], Idle} \/ (cursor \in Node /\ cursor' = next[cursor])
    BY <1>4 DEF Begin, Visit, Finish, Published
  <2>2. cursor' \in Published \cup {End, Idle}
    <3>1. CASE cursor' \in {next[End], Idle}
      BY <1>0, <3>1 DEF HeadOK
    <3>2. CASE cursor \in Node /\ cursor' = next[cursor]
      <4>1. PICK p \in 1..Len(published) : cursor = published[p]
        BY <1>0, <3>2, TrackAssumption DEF ForwardOnly
      <4>2. \A q \in (p + 1)..Len(published) : q \in 1..Len(published)
        BY <1>0
      <4> QED
        BY <1>0, <3>2, <4>1, <4>2 DEF ForwardOnly, Published
    <3> QED
      BY <2>1, <3>1, <3>2
  <2> QED
    BY <1>0, <2>1, <2>2
       DEF IInv, TypeOK, PushOK, PublishedOnce, HeadOK, ForwardOnly, Published
<1>5. CASE UNCHANGED vars
  BY <1>0, <1>5 DEF vars, IInv, TypeOK, PushOK, PublishedOnce, HeadOK, ForwardOnly, Published
<1> QED
  BY <1>1, <1>2, <1>3, <1>4, <1>5 DEF Next, PushBack, Walk

\* Every pointer that is followed has been written.
THEOREM TrackTypes == Spec => []TypeOK
<1>1. IInv => TypeOK
  BY DEF IInv
<1> QED
  BY InitIInv, StepIInv, <1>1, PTL DEF Spec

\* However many push_backs overlap, next pointers lead forward in the order in
\* which the nodes were linked in, so no walk of the timer thread goes round in
\* a circle or reaches a node that is not set up.
THEOREM WalkGoesForward == Spec => []ForwardOnly
<1>1. IInv => ForwardOnly
  BY DEF IInv
<1> QED
  BY InitIInv, StepIInv, <1>1, PTL DEF Spec

-----------------------------------------------------------------------------
(* One push_back at a time.                                                 *)

Newest == IF Len(published) = 0 THEN End ELSE published[Len(published)]

\* The next pointers are the list of the published nodes, and the sentinel's
\* _M_prev is the last of them except between the two stores of a push_back.
Chained ==
  /\ \A m, n \in Pushing : m = n
  /\ next[End] = Abstract!At(1)
  /\ \A p \in 1..Len(published) : next[published[p]] = Abstract!At(p + 1)
  /\ \A n \in Node : wpc[n] = "hooked" => prev[n] = Newest
  /\ \A n \in Node : wpc[n] = "linked" => n = Newest
  /\ (\A n \in Node : wpc[n] # "linked") => prev[End] = Newest

LEMMA InitChained == Init => Chained
BY DEF Init, Chained, Pushing, Newest, Abstract!At

LEMMA StepChained ==
  ASSUME Overlap = FALSE, IInv, Chained, [Next]_vars
  PROVE  Chained'
<1>0. /\ TypeOK /\ PushOK /\ PublishedOnce
      /\ Published \subseteq Node
      /\ Len(published) \in Nat
  BY ElementOfSeq DEF IInv, TypeOK, Published
<1> USE DEF Abstract!At
<1>1. ASSUME NEW n \in Node, Hook(n) PROVE Chained'
  <2>1. /\ UNCHANGED <<cursor, published>> /\ Newest' = Newest
        /\ next' = [next EXCEPT ![n] = End] /\ prev' = [prev EXCEPT ![n] = prev[End]]
        /\ wpc' = [wpc EXCEPT ![n] = "hooked"] /\ Pushing = {}
        /\ n \notin Published /\ n # End
    BY <1>0, <1>1, TrackAssumption DEF Hook, PushOK, Newest
  <2>2. prev[End] = Newest
    BY <2>1 DEF Chained, Pushing
  <2>3. /\ \A p \in 1..Len(published) : next'[published[p]] = next[published[p]]
        /\ next'[End] = next[End]
    BY <1>0, <2>1, TrackAssumption DEF TypeOK, Published
  <2>4. \A m \in Node : m # n => wpc[m] \notin {"hooked", "linked"} /\ wpc'[m] = wpc[m]
    BY <1>0, <2>1 DEF Pushing, TypeOK
  <2>5. /\ wpc'[n] = "hooked" /\ prev'[n] = Newest
        /\ prev'[End] = prev[End]
    BY <1>0, <2>1, <2>2, TrackAssumption DEF TypeOK
  <2> QED
    BY <2>1, <2>2, <2>3, <2>4, <2>5 DEF Chained, Pushing
<1>2. ASSUME NEW n \in Node, Link(n) PROVE Chained'
  <2>1. /\ UNCHANGED prev /\ published' = Append(published, n)
        /\ next' = [next EXCEPT ![prev[n]] = n]
        /\ wpc' = [wpc EXCEPT ![n] = "linked"] /\ wpc[n] = "hooked"
        /\ n \notin Published /\ next[n] = End /\ n # End
    BY <1>0, <1>2, TrackAssumption DEF Link, PushOK
  <2>2. /\ Len(published') = Len(published) + 1
        /\ \A p \in 1..Len(published) : published'[p] = published[p]
        /\ published'[Len(published) + 1] = n
    BY <1>0, <2>1, LinkPublishes
  <2>3. Newest' = n
    BY <1>0, <2>2 DEF Newest
  <2>4. /\ prev[n] = Newest
        /\ \A m \in Node \ {n} : wpc[m] \notin {"hooked", "linked"} /\ wpc'[m] = wpc[m]
        /\ wpc'[n] = "linked"
    BY <1>0, <2>1 DEF Chained, Pushing, TypeOK
  <2>5. /\ Newest \in Node \cup {End} /\ Newest # n
        /\ next'[Newest] = n /\ next'[n] = End
        /\ \A x \in (Node \cup {End}) \ {Newest} : next'[x] = next[x]
    <3>1. Newest \in Published \cup {End}
      BY <1>0 DEF Newest, Published
    <3> QED
      BY <1>0, <2>1, <2>4, <3>1 DEF TypeOK
  <2>6. next'[End] = published'[1] /\ 1 \in 1..Len(published')
    <3>1. CASE Len(published) = 0
      BY <2>2, <2>5, <3>1 DEF Newest
    <3>2. CASE Len(published) # 0
      <4>1. 1 \in 1..Len(published) /\ Newest # End
        BY <1>0, <3>2, TrackAssumption DEF Newest, Published
      <4> QED
        BY <1>0, <2>2, <2>5, <4>1 DEF Chained
    <3> QED
      BY <3>1, <3>2
  <2>7. ASSUME NEW p \in 1..Len(published')
        PROVE  next'[published'[p]] = IF p + 1 \in 1..Len(published')
                                      THEN published'[p + 1] ELSE End
    <3>1. CASE p = Len(published) + 1
      BY <1>0, <2>2, <2>5, <3>1
    <3>2. CASE p = Len(published) /\ p # 0
      BY <1>0, <2>2, <2>5, <3>2 DEF Newest
    <3>3. CASE p \in 1..Len(published) /\ p # Len(published)
      <4>1. /\ Len(published) # 0 /\ Len(published) \in 1..Len(published)
            /\ p + 1 \in 1..Len(published) /\ p + 1 \in 1..Len(published')
        BY <1>0, <2>2, <3>3
      <4>2. published[p] # Newest /\ published[p] \in Node
        BY <1>0, <3>3, <4>1 DEF Newest, PublishedOnce, Published
      <4> QED
        BY <2>2, <2>5, <3>3, <4>1, <4>2 DEF Chained
    <3> QED
      BY <1>0, <2>2, <3>1, <3>2, <3>3
  <2> QED
    BY <2>3, <2>4, <2>6, <2>7 DEF Chained, Pushing
<1>3. ASSUME NEW n \in Node, Close(n) PROVE Chained'
  <2>1. /\ UNCHANGED <<next, published>> /\ Newest' = Newest
        /\ prev' = [prev EXCEPT ![End] = n] /\ wpc[n] = "linked"
        /\ wpc' = [wpc EXCEPT ![n] = "added"]
    BY <1>3 DEF Close, Newest
  <2>2. /\ n = Newest
        /\ \A m \in Node \ {n} : wpc[m] \notin {"hooked", "linked"} /\ wpc'[m] = wpc[m]
        /\ wpc'[n] = "added" /\ prev'[End] = n
    BY <1>0, <2>1 DEF Chained, Pushing, TypeOK
  <2> QED
    BY <2>1, <2>2 DEF Chained, Pushing
<1>4. CASE UNCHANGED <<next, prev, wpc, published>>
  BY <1>4 DEF Chained, Pushing, Newest
<1> QED
  BY <1>1, <1>2, <1>3, <1>4 DEF Next, PushBack, Walk, Begin, Visit, Finish, vars

LEMMA StepImplements ==
  IInv /\ Chained /\ [Next]_vars => [Abstract!Next]_<<published, cursor>>
<1> SUFFICES ASSUME IInv, Chained, [Next]_vars
             PROVE  [Abstract!Next]_<<published, cursor>>
  OBVIOUS
<1>1. ASSUME NEW n \in Node, PushBack(n) PROVE [Abstract!Next]_<<published, cursor>>
  <2>1. CASE Link(n)
    <3>1. n \notin Published
      BY <2>1 DEF IInv, PushOK, Link
    <3>2. Abstract!Add(n)
      BY <2>1, <3>1 DEF Link, Published, Abstract!Add
    <3> QED
      BY <3>2 DEF Abstract!Next
  <2> QED
    BY <1>1, <2>1 DEF PushBack, Hook, Close
<1>2. CASE Begin
  BY <1>2 DEF Begin, Chained, Abstract!Next, Abstract!Begin
<1>3. CASE Visit
  <2>1. PICK p \in 1..Len(published) : published[p] = cursor
    BY <1>3, TrackAssumption DEF Visit, IInv, ForwardOnly
  <2>2. cursor' = Abstract!At(p + 1)
    BY <1>3, <2>1 DEF Visit, Chained
  <2> QED
    BY <1>3, <2>1, <2>2 DEF Visit, Abstract!Next, Abstract!Visit
<1>4. CASE Finish
  BY <1>4 DEF Finish, Abstract!Next, Abstract!Finish
<1> QED
  BY <1>1, <1>2, <1>3, <1>4 DEF Next, Walk, vars

\* As long as no two push_backs overlap on a track, each is an atomic append
\* for the thread that walks: addRtpInstance and sendPacket need no lock then.
THEOREM PushBackIsAppend == ASSUME Overlap = FALSE PROVE Spec => AtomicAppend
<1>1. Init => Abstract!Init
  BY DEF Init, Abstract!Init
<1>2. IInv /\ Chained /\ [Next]_vars => Chained'
  BY StepChained
<1> QED
  BY InitIInv, StepIInv, InitChained, <1>1, <1>2, StepImplements, PTL
     DEF Spec, AtomicAppend, Abstract!Spec

-----------------------------------------------------------------------------
\* What a walk meets.

\* What a walk meets, by the next pointers it finds.
FollowIn(nxt, x) ==
  LET hop[i \in Nat] == IF i = 0 THEN x
                        ELSE IF i > 1 /\ hop[i - 1] = End THEN End
                        ELSE nxt[hop[i - 1]]
      count == Cardinality({i \in 1..Cardinality(Node) : hop[i] # End})
  IN [i \in 1..count |-> hop[i]]

LEMMA FollowIs == \A x : Follow(x) = FollowIn(next, x) /\ Follow(x)' = FollowIn(next', x)
BY DEF Follow, FollowIn

Hops(nxt, x, h) ==
  h = [i \in Nat |-> IF i = 0 THEN x
                     ELSE IF i > 1 /\ h[i - 1] = End THEN End
                     ELSE nxt[h[i - 1]]]

\* s is the way from x to End.
IsPath(nxt, x, s) ==
  /\ s \in Seq(Node) /\ Len(s) <= Cardinality(Node)
  /\ nxt[x] = IF Len(s) = 0 THEN End ELSE s[1]
  /\ \A i \in 1..Len(s) : nxt[s[i]] = IF i < Len(s) THEN s[i + 1] ELSE End

LEMMA PathHops ==
  ASSUME NEW nxt, NEW x, NEW s, IsPath(nxt, x, s)
  PROVE  Hops(nxt, x, [i \in Nat |-> IF i = 0 THEN x ELSE IF i <= Len(s) THEN s[i] ELSE End])
<1> DEFINE h == [i \in Nat |-> IF i = 0 THEN x ELSE IF i <= Len(s) THEN s[i] ELSE End]
           g == [i \in Nat |-> IF i = 0 THEN x
                               ELSE IF i > 1 /\ h[i - 1] = End THEN End
                               ELSE nxt[h[i - 1]]]
<1>1. PICK l \in Nat : l = Len(s) /\ s \in Seq(Node)
  BY DEF IsPath
<1>2. /\ nxt[x] = IF l = 0 THEN End ELSE s[1]
      /\ \A i \in 1..l : nxt[s[i]] = IF i < l THEN s[i + 1] ELSE End
  BY <1>1 DEF IsPath
<1>3. \A i \in 1..l : s[i] # End
  BY <1>1, TrackAssumption
<1>4. ASSUME NEW i \in Nat PROVE h[i] = g[i]
  <2>1. CASE i = 0
    BY <2>1
  <2>2. CASE i = 1
    BY <1>1, <1>2, <2>2
  <2>3. CASE i > 1
    <3>1. PICK j \in Nat \ {0} : j = i - 1 /\ i = j + 1
      BY <2>3
    <3>2. CASE j <= l
      <4>1. h[j] = s[j] /\ j \in 1..l
        BY <1>1, <3>1, <3>2
      <4>2. g[i] = nxt[s[j]]
        BY <1>3, <2>3, <3>1, <4>1
      <4>3. h[i] = IF j < l THEN s[j + 1] ELSE End
        BY <1>1, <3>1, <3>2
      <4> QED BY <1>2, <4>1, <4>2, <4>3
    <3>3. CASE j > l
      <4>1. h[j] = End /\ h[i] = End
        BY <1>1, <3>1, <3>3
      <4> QED BY <2>3, <3>1, <4>1
    <3> QED BY <1>1, <3>1, <3>2, <3>3
  <2> QED BY <2>1, <2>2, <2>3
<1>5. h = g
  BY <1>4
<1> QED BY <1>5 DEF Hops

LEMMA HopsAgree ==
  ASSUME NEW nxt, NEW x, NEW h, NEW g, Hops(nxt, x, h), Hops(nxt, x, g), NEW n \in Nat
  PROVE  h[n] = g[n]
<1> DEFINE T == {i \in Nat : h[i] = g[i]}
<1>1. ASSUME NEW i \in Nat
      PROVE  /\ h[i] = IF i = 0 THEN x ELSE IF i > 1 /\ h[i - 1] = End THEN End ELSE nxt[h[i - 1]]
             /\ g[i] = IF i = 0 THEN x ELSE IF i > 1 /\ g[i - 1] = End THEN End ELSE nxt[g[i - 1]]
  BY DEF Hops
<1>2. 0 \in T
  BY <1>1
<1>3. ASSUME NEW i \in 0..(n - 1), i \in T PROVE i + 1 \in T
  <2>1. i + 1 \in Nat /\ i + 1 # 0 /\ (i + 1) - 1 = i
    OBVIOUS
  <2>2. h[i + 1] = g[i + 1]
    BY <1>1, <1>3, <2>1
  <2> QED BY <2>1, <2>2
<1> HIDE DEF T
<1>4. \A i \in 0..n : i \in T
  BY <1>2, <1>3, Induction
<1>5. n \in T
  BY <1>4
<1> QED BY <1>5 DEF T

\* A walk meets the nodes of the way to End and no other.
LEMMA FollowPath ==
  ASSUME NEW nxt, NEW x, NEW s, IsPath(nxt, x, s)
  PROVE  FollowIn(nxt, x) = s
<1> DEFINE h == [i \in Nat |-> IF i = 0 THEN x ELSE IF i <= Len(s) THEN s[i] ELSE End]
           hop == CHOOSE g : Hops(nxt, x, g)
           count == Cardinality({i \in 1..Cardinality(Node) : hop[i] # End})
<1>1. Hops(nxt, x, h)
  BY PathHops
<1>2. Hops(nxt, x, hop)
  BY <1>1
<1>3. FollowIn(nxt, x) = [i \in 1..count |-> hop[i]]
  BY DEF FollowIn, Hops
<1>4. PICK l \in Nat : l = Len(s) /\ s \in Seq(Node)
  BY DEF IsPath
<1>5. PICK c \in Nat : c = Cardinality(Node) /\ l <= c
  BY <1>4, FS_CardinalityType, TrackAssumption DEF IsPath
<1> HIDE DEF hop
<1>6. ASSUME NEW i \in Nat \ {0} PROVE hop[i] = IF i <= l THEN s[i] ELSE End
  <2>1. hop[i] = h[i]
    <3> HIDE DEF h
    <3> QED BY <1>1, <1>2, HopsAgree
  <2> QED BY <1>4, <2>1
<1>7. \A i \in 1..l : s[i] # End
  BY <1>4, TrackAssumption
<1>8. {i \in 1..c : hop[i] # End} = 1..l
  <2>1. ASSUME NEW i \in 1..c PROVE hop[i] # End <=> i \in 1..l
    BY <1>6, <1>7
  <2> QED BY <1>5, <2>1
<1>9. Cardinality(1..l) = l
  BY FS_Interval
<1>10. count = l
  BY <1>5, <1>8, <1>9
<1> HIDE DEF count
<1>11. \A i \in 1..l : hop[i] = s[i]
  BY <1>6
<1>12. [i \in 1..l |-> hop[i]] = s
  BY <1>4, <1>11
<1> QED BY <1>3, <1>10, <1>12

-----------------------------------------------------------------------------
\* No more nodes are published than there are.
LEMMA FewNodes ==
  ASSUME NEW s \in Seq(Node), \A p, q \in 1..Len(s) : s[p] = s[q] => p = q
  PROVE  Len(s) <= Cardinality(Node) /\ Len(s) \in Nat /\ Cardinality(Node) \in Nat
<1>1. PICK l \in Nat : l = Len(s) /\ s \in [1..l -> Node]
  OBVIOUS
<1>2. s \in Injection(1..l, Node)
  BY <1>1 DEF Injection, IsInjective
<1>3. Cardinality(1..l) <= Cardinality(Node)
  BY <1>2, FS_Injection, TrackAssumption
<1>4. Cardinality(1..l) = l
  BY FS_Interval
<1>5. Cardinality(Node) \in Nat
  BY FS_CardinalityType, TrackAssumption
<1> QED BY <1>1, <1>3, <1>4, <1>5

\* As long as no two push_backs overlap, a walk meets the published nodes.
LEMMA WholeList ==
  ASSUME IInv, Chained
  PROVE  IsPath(next, End, published)
BY FewNodes DEF IInv, TypeOK, PublishedOnce, Chained, IsPath, Abstract!At

\* As long as no two push_backs overlap, an instance stays in the list that the
\* timer thread walks once its push_back has returned.
THEOREM AddedStays == ASSUME Overlap = FALSE PROVE Spec => []AddedIsReachable
<1>1. IInv /\ Chained /\ [Next]_vars => Chained'
  BY StepChained
<1>2. IInv /\ Chained => AddedIsReachable
  <2> SUFFICES ASSUME IInv, Chained, NEW n \in Node, wpc[n] = "added"
               PROVE  \E i \in 1..Len(Follow(End)) : Follow(End)[i] = n
    BY DEF AddedIsReachable
  <2>1. Follow(End) = published
    BY WholeList, FollowPath, FollowIs
  <2>2. n \in Published
    BY DEF IInv, PushOK
  <2> QED BY <2>1, <2>2 DEF Published
<1> QED
  BY InitIInv, StepIInv, InitChained, <1>1, <1>2, PTL DEF Spec

\* s is y followed by t.
Before(s, y, t) ==
  /\ Len(s) = 1 + Len(t) /\ s[1] = y
  /\ \A i \in 1..Len(s) : i = 1 \/ (i - 1 \in 1..Len(t) /\ s[i] = t[i - 1])

\* Before the first of a way, there is a longer way.
LEMMA Longer ==
  ASSUME NEW nxt, NEW x, NEW y \in Node, NEW t, IsPath(nxt, y, t), nxt[x] = y,
         Len(t) < Cardinality(Node)
  PROVE  IsPath(nxt, x, <<y>> \o t) /\ Before(<<y>> \o t, y, t)
<1> DEFINE a == <<y>>
           s == a \o t
<1>1. PICK l \in Nat : l = Len(t) /\ t \in Seq(Node)
  BY DEF IsPath
<1>2. PICK c \in Nat : c = Cardinality(Node) /\ l < c
  BY <1>1, FS_CardinalityType, TrackAssumption
<1>3. /\ nxt[y] = IF l = 0 THEN End ELSE t[1]
      /\ \A i \in 1..l : nxt[t[i]] = IF i < l THEN t[i + 1] ELSE End
  BY <1>1 DEF IsPath
<1>4. a \in Seq(Node) /\ Len(a) = 1 /\ a[1] = y
  OBVIOUS
<1> HIDE DEF a
<1>5. s \in Seq(Node) /\ Joined(s, a, t)
  BY <1>1, <1>4, ConcatAt
<1> HIDE DEF s
<1>6. Len(s) = 1 + l /\ s[1] = y /\ \A j \in 1..l : s[1 + j] = t[j]
  BY <1>1, <1>4, <1>5 DEF Joined
<1>7. ASSUME NEW i \in 1..(1 + l) PROVE nxt[s[i]] = IF i < 1 + l THEN s[i + 1] ELSE End
  <2>1. CASE i = 1
    <3>1. l # 0 => s[2] = t[1]
      <4>1. l # 0 => 1 \in 1..l /\ 1 + 1 = 2
        OBVIOUS
      <4> QED BY <1>6, <4>1
    <3> QED BY <1>3, <1>6, <2>1, <3>1
  <2>2. CASE i # 1
    <3>1. PICK j \in 1..l : i = 1 + j
      <4>1. i - 1 \in 1..l /\ i = 1 + (i - 1)
        BY <2>2
      <4> QED BY <4>1
    <3>2. s[i] = t[j]
      BY <1>6, <3>1
    <3>3. j < l => s[i + 1] = t[j + 1]
      <4>1. j < l => j + 1 \in 1..l /\ i + 1 = 1 + (j + 1)
        BY <3>1
      <4> QED BY <1>6, <4>1
    <3> QED BY <1>3, <3>1, <3>2, <3>3
  <2> QED BY <2>1, <2>2
<1>8. IsPath(nxt, x, s)
  <2>1. Len(s) <= Cardinality(Node) /\ Len(s) # 0
    BY <1>2, <1>6
  <2> QED BY <1>5, <1>6, <1>7, <2>1 DEF IsPath
<1>9. \A i \in 1..Len(s) : i = 1 \/ (i - 1 \in 1..l /\ s[i] = t[i - 1])
  <2>1. ASSUME NEW i \in 1..Len(s), i # 1 PROVE i - 1 \in 1..l /\ s[i] = t[i - 1]
    <3>1. i - 1 \in 1..l /\ i = 1 + (i - 1)
      BY <1>6, <2>1
    <3> QED BY <1>6, <3>1
  <2> QED BY <2>1
<1> QED BY <1>1, <1>6, <1>8, <1>9 DEF Before, s, a

\* s is the way from x to End and all of it is published.
Way(x, s) ==
  /\ IsPath(next, x, s) /\ Len(s) <= Len(published)
  /\ \A i \in 1..Len(s) : s[i] \in Published

LEMMA EmptyWay ==
  ASSUME IInv, NEW x, next[x] = End
  PROVE  Way(x, <<>>)
<1>1. Len(published) \in Nat /\ Len(published) <= Cardinality(Node) /\ Cardinality(Node) \in Nat
  BY FewNodes DEF IInv, TypeOK, PublishedOnce
<1>2. <<>> \in Seq(Node) /\ Len(<<>>) = 0
  OBVIOUS
<1>3. IsPath(next, x, <<>>)
  BY <1>1, <1>2 DEF IsPath
<1> QED BY <1>1, <1>2, <1>3 DEF Way

\* From every published node there is a way to End: it only goes forward.
LEMMA WayExists ==
  ASSUME IInv, NEW x \in {End} \cup Published
  PROVE  \E s : Way(x, s)
<1>1. PICK l \in Nat : l = Len(published) /\ l <= Cardinality(Node) /\ Cardinality(Node) \in Nat
  BY FewNodes DEF IInv, TypeOK, PublishedOnce
<1> DEFINE Short(p) == \E s : Way(published[p], s) /\ Len(s) <= l - p
           T == {d \in 0..l : \A p \in (l - d)..l : p = 0 \/ Short(p)}
<1>2. \A p \in 1..l : published[p] \in Node /\ published[p] \in Published
  BY <1>1 DEF IInv, TypeOK, Published
<1>3. ASSUME NEW p \in 1..l, \A q \in (p + 1)..l : Short(q) PROVE Short(p)
  <2>1. CASE next[published[p]] = End
    <3>1. Way(published[p], <<>>)
      BY <2>1, EmptyWay
    <3>2. Len(<<>>) <= l - p
      OBVIOUS
    <3> QED BY <3>1, <3>2
  <2>2. CASE next[published[p]] # End
    <3>1. PICK q \in (p + 1)..l : next[published[p]] = published[q]
      BY <1>1, <2>2 DEF IInv, ForwardOnly
    <3>2. PICK t : Way(published[q], t) /\ Len(t) <= l - q
      BY <1>3
    <3>3. q \in 1..l
      OBVIOUS
    <3> DEFINE y == published[q]
               s == <<y>> \o t
    <3>4. PICK m \in Nat : m = Len(t)
      BY <3>2 DEF Way, IsPath
    <3>5. IsPath(next, y, t) /\ y \in Node /\ y \in Published /\ \A i \in 1..m : t[i] \in Published
      BY <1>2, <3>2, <3>3, <3>4 DEF Way
    <3>6. m < Cardinality(Node) /\ m <= l - q
      BY <1>1, <3>2, <3>4
    <3> HIDE DEF y, s
    <3>7. /\ IsPath(next, published[p], s) /\ Len(s) = 1 + m
          /\ \A i \in 1..Len(s) : i = 1 \/ (i - 1 \in 1..m /\ s[i] = t[i - 1])
          /\ s[1] = y
      <4>1. next[published[p]] = y
        BY <3>1 DEF y
      <4>2. Len(t) < Cardinality(Node)
        BY <3>4, <3>6
      <4>3. IsPath(next, published[p], s) /\ Before(s, y, t)
        BY <3>5, <4>1, <4>2, Longer DEF s
      <4> QED BY <3>4, <4>3 DEF Before
    <3>8. \A i \in 1..Len(s) : s[i] \in Published
      BY <3>5, <3>7
    <3>9. Len(s) <= l /\ Len(s) <= l - p
      BY <3>6, <3>7
    <3> QED BY <1>1, <3>7, <3>8, <3>9 DEF Way
  <2> QED BY <2>1, <2>2
<1>4. 0 \in T
  <2>1. ASSUME NEW p \in (l - 0)..l, p # 0 PROVE Short(p)
    <3>1. p \in 1..l /\ (p + 1)..l = {}
      BY <2>1
    <3> HIDE DEF Short
    <3> QED BY <1>3, <3>1
  <2> QED BY <2>1
<1>5. ASSUME NEW d \in 0..(l - 1), d \in T PROVE d + 1 \in T
  <2> HIDE DEF Short
  <2>1. ASSUME NEW p \in (l - (d + 1))..l, p # 0 PROVE Short(p)
    <3>1. CASE p \in (l - d)..l
      BY <1>5, <2>1, <3>1
    <3>2. CASE p \notin (l - d)..l
      <4>1. p \in 1..l /\ \A q \in (p + 1)..l : q \in (l - d)..l /\ q # 0
        BY <2>1, <3>2
      <4>2. \A q \in (p + 1)..l : Short(q)
        BY <1>5, <4>1
      <4> QED BY <1>3, <4>1, <4>2
    <3> QED BY <3>1, <3>2
  <2> QED BY <2>1
<1>6. \A p \in 1..l : Short(p)
  <2>1. \A d \in 0..l : d \in T
    <3> HIDE DEF T
    <3> QED BY <1>4, <1>5, Induction
  <2>2. l \in T
    <3> HIDE DEF T
    <3> QED BY <2>1
  <2> HIDE DEF Short
  <2>3. \A p \in 1..l : p \in (l - l)..l /\ p # 0
    OBVIOUS
  <2> QED BY <2>2, <2>3
<1>7. CASE x # End
  <2>1. PICK p \in 1..l : x = published[p]
    BY <1>1, <1>7 DEF Published
  <2> QED BY <1>6, <2>1
<1>8. CASE x = End /\ next[End] = End
  BY <1>8, EmptyWay
<1>9. CASE x = End /\ next[End] # End
  <2>1. PICK q \in 1..l : next[End] = published[q]
    BY <1>1, <1>9 DEF IInv, HeadOK, Published
  <2>2. PICK t : Way(published[q], t) /\ Len(t) <= l - q
    BY <1>6
  <2> DEFINE y == published[q]
             s == <<y>> \o t
  <2>3. PICK m \in Nat : m = Len(t)
    BY <2>2 DEF Way, IsPath
  <2>4. IsPath(next, y, t) /\ y \in Node /\ y \in Published /\ \A i \in 1..m : t[i] \in Published
    BY <1>2, <2>2, <2>3 DEF Way
  <2>5. m < Cardinality(Node) /\ m + 1 <= l
    BY <1>1, <2>2, <2>3
  <2> HIDE DEF y, s
  <2>6. /\ IsPath(next, End, s) /\ Len(s) = 1 + m
        /\ \A i \in 1..Len(s) : i = 1 \/ (i - 1 \in 1..m /\ s[i] = t[i - 1])
        /\ s[1] = y
    <3>1. next[End] = y
      BY <2>1 DEF y
    <3>2. Len(t) < Cardinality(Node)
      BY <2>3, <2>5
    <3>3. IsPath(next, End, s) /\ Before(s, y, t)
      BY <2>4, <3>1, <3>2, Longer DEF s
    <3> QED BY <2>3, <3>3 DEF Before
  <2>7. \A i \in 1..Len(s) : s[i] \in Published
    BY <2>4, <2>6
  <2>8. Len(s) <= l
    BY <2>5, <2>6
  <2> QED BY <1>1, <1>9, <2>6, <2>7, <2>8 DEF Way
<1> QED BY <1>7, <1>8, <1>9

\* Where the pointers that make up a way are the same, so is the way.
LEMMA SameWay ==
  ASSUME NEW nxt, NEW new, NEW x, NEW s, IsPath(nxt, x, s), new[x] = nxt[x],
         \A i \in 1..Len(s) : new[s[i]] = nxt[s[i]]
  PROVE  IsPath(new, x, s)
BY DEF IsPath

\* new is nxt with n linked in behind m, which is x or on the way s from x.
LinksIn(nxt, new, x, s, n, m) ==
  /\ new[n] = End /\ new[m] = n /\ new[x] = IF x = m THEN n ELSE nxt[x]
  /\ \A i \in 1..Len(s) : s[i] # m => new[s[i]] = nxt[s[i]]
  /\ x = m \/ \E i \in 1..Len(s) : s[i] = m

\* A node that is linked in behind m ends the way that led past m.
LEMMA CutWay ==
  ASSUME NEW nxt, NEW new, NEW x, NEW s, IsPath(nxt, x, s), Len(s) < Cardinality(Node),
         NEW n \in Node, NEW m, LinksIn(nxt, new, x, s, n, m)
  PROVE  \E i \in 0..Len(s) : IsPath(new, x, Append(SubSeq(s, 1, i), n))
<1>0. /\ new[n] = End /\ new[m] = n /\ new[x] = IF x = m THEN n ELSE nxt[x]
      /\ \A i \in 1..Len(s) : s[i] # m => new[s[i]] = nxt[s[i]]
      /\ x = m \/ \E i \in 1..Len(s) : s[i] = m
  BY DEF LinksIn
<1>1. PICK l \in Nat : l = Len(s) /\ s \in Seq(Node)
  BY DEF IsPath
<1>2. PICK c \in Nat : c = Cardinality(Node) /\ l < c
  BY <1>1, FS_CardinalityType, TrackAssumption
<1>3. /\ nxt[x] = IF l = 0 THEN End ELSE s[1]
      /\ \A i \in 1..l : nxt[s[i]] = IF i < l THEN s[i + 1] ELSE End
  BY <1>1 DEF IsPath
<1>4. PICK i \in 0..l : /\ i = 0 <=> x = m
                        /\ i # 0 => s[i] = m
                        /\ \A j \in 1..l : j < i => s[j] # m
  <2>1. CASE x = m
    <3>1. 0 \in 0..l /\ \A j \in 1..l : ~(j < 0)
      OBVIOUS
    <3> QED BY <2>1, <3>1
  <2>2. CASE x # m
    <3> DEFINE T == {i \in 1..l : s[i] = m}
    <3>1. T # {} /\ T \in SUBSET Nat
      BY <1>0, <1>1, <2>2
    <3> HIDE DEF T
    <3>2. PICK i \in T : \A k \in T : i <= k
      BY <3>1, MinExists
    <3>3. i \in 1..l /\ s[i] = m
      BY DEF T
    <3>4. ASSUME NEW j \in 1..l, j < i PROVE s[j] # m
      <4>1. j \notin T
        BY <3>2, <3>3, <3>4
      <4> QED BY <4>1 DEF T
    <3>5. i \in 0..l /\ i # 0
      BY <3>3
    <3> QED BY <2>2, <3>3, <3>4, <3>5
  <2> QED BY <2>1, <2>2
<1> DEFINE a == SubSeq(s, 1, i)
           w == Append(a, n)
<1>5. a \in Seq(Node) /\ Len(a) = i /\ \A j \in 1..i : a[j] = s[j]
  BY <1>1
<1> HIDE DEF a
<1>6. /\ w \in Seq(Node) /\ Len(w) = i + 1 /\ w[i + 1] = n
      /\ \A j \in 1..i : w[j] = s[j]
  BY <1>5
<1> HIDE DEF w
<1>7. new[x] = w[1]
  <2>1. CASE i = 0
    BY <1>0, <1>4, <1>6, <2>1
  <2>2. CASE i # 0
    <3>1. l # 0 /\ 1 \in 1..i /\ x # m
      BY <1>4, <2>2
    <3> QED BY <1>0, <1>3, <1>6, <3>1
  <2> QED BY <2>1, <2>2
<1>8. ASSUME NEW j \in 1..(i + 1) PROVE new[w[j]] = IF j < i + 1 THEN w[j + 1] ELSE End
  <2>1. CASE j = i + 1
    BY <1>0, <1>6, <2>1
  <2>2. CASE j = i /\ i # 0
    <3>1. w[j] = m
      BY <1>4, <1>6, <2>2
    <3> QED BY <1>0, <1>6, <2>2, <3>1
  <2>3. CASE j < i
    <3>1. j \in 1..l /\ j < l /\ j \in 1..i /\ j + 1 \in 1..i
      BY <2>3
    <3>2. s[j] # m
      BY <1>4, <2>3, <3>1
    <3>3. new[s[j]] = nxt[s[j]] /\ nxt[s[j]] = s[j + 1]
      BY <1>0, <1>1, <1>3, <3>1, <3>2
    <3> QED BY <1>6, <2>3, <3>1, <3>3
  <2>4. j = i + 1 \/ (j = i /\ i # 0) \/ j < i
    OBVIOUS
  <2> QED BY <2>1, <2>2, <2>3, <2>4
<1>9. IsPath(new, x, w)
  <2>1. Len(w) <= Cardinality(Node) /\ Len(w) # 0
    BY <1>2, <1>6
  <2> QED BY <1>6, <1>7, <1>8, <2>1 DEF IsPath
<1> QED BY <1>1, <1>9 DEF w, a

LEMMA StepLoss ==
  ASSUME IInv, IInv', [Next]_vars, NEW x \in {End} \cup Published, Follow(x)' # Follow(x)
  PROVE  \E n \in Node, i \in 0..Len(Follow(x)) :
           /\ wpc'[n] = "linked" /\ wpc[n] = "hooked"
           /\ Follow(x)' = Append(SubSeq(Follow(x), 1, i), n)
<1>1. PICK s : Way(x, s)
  BY WayExists
<1>2. /\ IsPath(next, x, s) /\ Len(s) <= Len(published) /\ Len(s) \in Nat
      /\ \A i \in 1..Len(s) : s[i] \in Published
  BY <1>1 DEF Way, IsPath
<1>3. Follow(x) = s
  BY <1>2, FollowPath, FollowIs
<1>4. ASSUME NEW w, IsPath(next', x, w) PROVE Follow(x)' = w
  BY <1>4, FollowPath, FollowIs
<1>5. Published \subseteq Node /\ TypeOK /\ PushOK
  BY ElementOfSeq DEF IInv, TypeOK, Published
<1>6. ASSUME next'[x] = next[x], \A i \in 1..Len(s) : next'[s[i]] = next[s[i]] PROVE FALSE
  <2>1. IsPath(next', x, s)
    BY <1>2, <1>6, SameWay
  <2> QED BY <1>3, <1>4, <2>1
<1>7. ASSUME NEW n \in Node, Hook(n) PROVE FALSE
  <2>1. n \notin Published /\ n # End /\ next' = [next EXCEPT ![n] = End]
    BY <1>5, <1>7, TrackAssumption DEF Hook, PushOK
  <2>2. x # n /\ \A i \in 1..Len(s) : s[i] # n
    BY <1>2, <2>1
  <2> QED BY <1>2, <1>5, <1>6, <2>1, <2>2 DEF TypeOK
<1>8. ASSUME NEW n \in Node, Link(n)
      PROVE  \E i \in 0..Len(s) : Follow(x)' = Append(SubSeq(s, 1, i), n)
  <2> DEFINE m == prev[n]
  <2>1. /\ n \notin Published /\ n # End /\ next[n] = End /\ m \in Published \cup {End}
        /\ next' = [next EXCEPT ![m] = n] /\ published' = Append(published, n)
    BY <1>5, <1>8, TrackAssumption DEF Link, PushOK
  <2>2. /\ x \in Node \cup {End} /\ m \in Node \cup {End} /\ n # x /\ n # m
        /\ \A i \in 1..Len(s) : s[i] # n /\ s[i] \in Node \cup {End}
    BY <1>2, <1>5, <2>1
  <2> HIDE DEF m
  <2>3. \A y \in Node \cup {End} : next'[y] = IF y = m THEN n ELSE next[y]
    BY <1>5, <2>1, <2>2 DEF TypeOK
  <2>4. Len(s) < Cardinality(Node)
    <3>1. Len(published') = Len(published) + 1 /\ Len(published) \in Nat
      BY <1>5, <2>1 DEF TypeOK
    <3>2. Len(published') <= Cardinality(Node) /\ Cardinality(Node) \in Nat
      BY FewNodes DEF IInv, TypeOK, PublishedOnce
    <3> QED BY <1>2, <3>1, <3>2
  <2>5. x = m \/ \E i \in 1..Len(s) : s[i] = m
    <3>1. ASSUME x # m, \A i \in 1..Len(s) : s[i] # m PROVE FALSE
      <4>1. next'[x] = next[x] /\ \A i \in 1..Len(s) : next'[s[i]] = next[s[i]]
        BY <2>2, <2>3, <3>1
      <4> QED BY <1>6, <4>1
    <3> QED BY <3>1
  <2>6. LinksIn(next, next', x, s, n, m)
    BY <2>1, <2>2, <2>3, <2>5 DEF LinksIn
  <2>7. PICK i \in 0..Len(s) : IsPath(next', x, Append(SubSeq(s, 1, i), n))
    BY <1>2, <2>4, <2>6, CutWay
  <2> QED BY <1>4, <2>7
<1>9. ASSUME UNCHANGED next PROVE FALSE
  BY <1>6, <1>9
<1>10. PICK n \in Node : Link(n)
  BY <1>7, <1>9 DEF Next, PushBack, Close, Walk, Begin, Visit, Finish, vars
<1>11. wpc'[n] = "linked" /\ wpc[n] = "hooked"
  BY <1>5, <1>10 DEF Link, TypeOK
<1> QED BY <1>3, <1>8, <1>10, <1>11

\* Whatever push_backs overlap, the list after a node changes only in one way:
\* what followed some node of it is lost, and the node that is linked in follows.
THEOREM LossTruncates == Spec => LossIsTruncation
<1>1. IInv /\ IInv' /\ [Next]_vars =>
        [\A x \in {End} \cup {published[p] : p \in 1..Len(published)} :
           Follow(x)' # Follow(x) =>
             \E n \in Node, i \in 0..Len(Follow(x)) :
               /\ wpc'[n] = "linked" /\ wpc[n] = "hooked"
               /\ Follow(x)' = Append(SubSeq(Follow(x), 1, i), n)]_vars
  BY StepLoss DEF Published
<1> QED
  BY InitIInv, StepIInv, <1>1, PTL DEF Spec, LossIsTruncation
=============================================================================
