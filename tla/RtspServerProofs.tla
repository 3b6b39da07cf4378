-------------------------- MODULE RtspServerProofs --------------------------
(***************************************************************************)
(* Safety of RtspServer for any number of clients, sessions and tracks with *)
(* a sink, and any modulus of the sequence numbers.                         *)
(***************************************************************************)
EXTENDS RtspServer, SequenceTheorems, TLAPS

\* The list after a push_back that lost what followed its first n elements.
LEMMA AppendTruncated ==
  ASSUME NEW S, NEW s \in Seq(S), NEW n \in 0..Len(s), NEW x \in S
  PROVE  LET t == Append(SubSeq(s, 1, n), x) IN
         /\ t \in Seq(S)
         /\ Len(t) = n + 1
         /\ \A p \in 1..n : t[p] = s[p]
         /\ t[n + 1] = x
<1>1. /\ Len(s) \in Nat
      /\ \A p \in 1..Len(s) : s[p] \in S
  BY LenProperties, ElementOfSeq
<1>2. /\ SubSeq(s, 1, n) \in Seq(S)
      /\ Len(SubSeq(s, 1, n)) = n
      /\ \A p \in 1..n : SubSeq(s, 1, n)[p] = s[p]
  BY <1>1, SubSeqProperties
<1> QED
  BY <1>1, <1>2

\* t is the end of s.
EndOf(t, s) ==
  /\ Len(t) <= Len(s)
  /\ \A p \in 1..Len(t) : t[p] = s[Len(s) - Len(t) + p]

LEMMA EndOfAppend ==
  ASSUME NEW S, NEW s \in Seq(S), NEW t \in Seq(S), NEW x \in S, EndOf(t, s)
  PROVE  /\ EndOf(Append(t, x), Append(s, x))
         /\ Len(Append(s, x)) - Len(Append(t, x)) = Len(s) - Len(t)
<1> DEFINE s1 == Append(s, x)
           t1 == Append(t, x)
<1>1. /\ Len(s) \in Nat /\ Len(t) \in Nat
      /\ Len(s1) = Len(s) + 1 /\ Len(t1) = Len(t) + 1
  BY LenProperties, AppendProperties
<1>2. \A p \in 1..Len(s) + 1 : s1[p] = IF p = Len(s) + 1 THEN x ELSE s[p]
  BY <1>1, AppendProperties
<1>3. \A p \in 1..Len(t) + 1 : t1[p] = IF p = Len(t) + 1 THEN x ELSE t[p]
  BY <1>1, AppendProperties
<1>4. Len(s1) - Len(t1) = Len(s) - Len(t)
  BY <1>1
<1>5. ASSUME NEW p \in 1..Len(t) + 1 PROVE t1[p] = s1[Len(s) - Len(t) + p]
  <2>1. Len(s) - Len(t) + p \in 1..Len(s) + 1
    BY <1>1 DEF EndOf
  <2>2. Len(s) - Len(t) + p = Len(s) + 1 <=> p = Len(t) + 1
    BY <1>1
  <2>3. p # Len(t) + 1 => p \in 1..Len(t)
    BY <1>1
  <2> HIDE DEF s1, t1
  <2> QED
    BY <1>2, <1>3, <2>1, <2>2, <2>3 DEF EndOf
<1> HIDE DEF s1, t1
<1>6. EndOf(t1, s1)
  BY <1>1, <1>4, <1>5 DEF EndOf
<1> QED
  BY <1>4, <1>6 DEF s1, t1

LEMMA EndOfTail ==
  ASSUME NEW S, NEW s \in Seq(S), NEW t \in Seq(S), t # <<>>, EndOf(t, s)
  PROVE  /\ EndOf(Tail(t), s)
         /\ Len(s) - Len(t) + 1 \in 1..Len(s)
         /\ Head(t) = s[Len(s) - Len(t) + 1]
         /\ Len(s) - Len(Tail(t)) = Len(s) - Len(t) + 1
<1> DEFINE u == Tail(t)
<1>1. /\ Len(s) \in Nat /\ Len(t) \in Nat \ {0} /\ Len(u) = Len(t) - 1
      /\ \A p \in 1..Len(u) : u[p] = t[p + 1]
      /\ Head(t) = t[1]
  BY HeadTailProperties, LenProperties, EmptySeq
<1> HIDE DEF u
<1>2. \A p \in 1..Len(u) : p + 1 \in 1..Len(t)
  BY <1>1
<1>3. ASSUME NEW p \in 1..Len(u) PROVE u[p] = s[Len(s) - Len(u) + p]
  <2>1. Len(s) - Len(t) + (p + 1) = Len(s) - Len(u) + p
    BY <1>1
  <2> QED
    BY <1>1, <1>2, <2>1 DEF EndOf
<1>4. EndOf(u, s)
  BY <1>1, <1>3 DEF EndOf
<1>5. Len(s) - Len(t) + 1 \in 1..Len(s) /\ 1 \in 1..Len(t)
  BY <1>1 DEF EndOf
<1>6. Len(s) - Len(u) = Len(s) - Len(t) + 1
  BY <1>1
<1>7. Head(t) = s[Len(s) - Len(t) + 1]
  BY <1>1, <1>5 DEF EndOf
<1> QED
  BY <1>4, <1>5, <1>6, <1>7 DEF u

-----------------------------------------------------------------------------
(* Types.  A thread that works on a SETUP has a request to work on.         *)

RequestsOK ==
  \A c \in Conn :
    /\ pc[c] \in {"SETUP", "add", "reply"} =>
         req[c] \in SetupRequest /\ req[c].t \in Track
    /\ pc[c] \in {"add", "reply"} => req[c].s \in Session

Inv1 == TypeOK /\ RequestsOK

\* What addRtpInstance may do, with the loss of elements spelt out.
LEMMA AddCases ==
  ASSUME TypeOK, RequestsOK, NEW c \in Conn, AddRtpInstance(c)
  PROVE  LET k == <<req[c].s, req[c].t>>
             i == <<c, req[c].t>>
         IN /\ k \in Session \X Track /\ i \in Instance
            /\ \/ UNCHANGED <<list, torn>> /\ k \notin LiveTrack
               \/ torn' = torn \cup {k} /\ UNCHANGED list
               \/ list' = [list EXCEPT ![k] = Append(@, i)] /\ torn' = torn
               \/ \E n \in 0..Len(list[k]) :
                    /\ list' = [list EXCEPT ![k] = Append(SubSeq(@, 1, n), i)]
                    /\ torn' = torn \cup {k}
            /\ \/ ahead' = ahead
               \/ /\ cur = k
                  /\ \E n \in 0..Len(ahead) : ahead' = Append(SubSeq(ahead, 1, n), i)
<1> DEFINE k == <<req[c].s, req[c].t>>
           i == <<c, req[c].t>>
<1>1. k \in Session \X Track /\ i \in Instance
  BY DEF AddRtpInstance, RequestsOK, Instance
<1>2. [list EXCEPT ![k] = list[k]] = list
  BY DEF TypeOK
<1>3. ahead = SubSeq(ahead, 1, Len(ahead)) /\ Len(ahead) \in Nat
  BY SubSeqFull DEF TypeOK
<1>4. CASE k \notin LiveTrack
  BY <1>1, <1>4 DEF AddRtpInstance
<1>5. CASE /\ list' = [list EXCEPT ![k] = Append(@, i)] /\ UNCHANGED torn
           /\ ahead' = IF Walking(k) THEN Append(ahead, i) ELSE ahead
  <2>1. Len(ahead) \in 0..Len(ahead)
    BY <1>3
  <2>2. Walking(k) => cur = k /\ ahead' = Append(SubSeq(ahead, 1, Len(ahead)), i)
    BY <1>3, <1>5 DEF Walking
  <2> QED
    BY <1>1, <1>5, <2>1, <2>2
<1>6. CASE /\ torn' = torn \cup {k}
           /\ \E s \in LossyAppend(list[k], 0, i) : list' = [list EXCEPT ![k] = s]
           /\ IF Walking(k) THEN ahead' \in LossyAppend(ahead, 1, i)
              ELSE UNCHANGED ahead
  <2>1. \/ UNCHANGED list
        \/ \E n \in 0..Len(list[k]) : list' = [list EXCEPT ![k] = Append(SubSeq(@, 1, n), i)]
    BY <1>2, <1>6 DEF LossyAppend
  <2>2. \/ ahead' = ahead
        \/ /\ cur = k
           /\ \E n \in 0..Len(ahead) : ahead' = Append(SubSeq(ahead, 1, n), i)
    <3>1. \A n \in 1..Len(ahead) : n \in 0..Len(ahead)
      BY <1>3
    <3> QED
      BY <1>6, <3>1 DEF LossyAppend, Walking
  <2> QED
    BY <1>1, <1>6, <2>1, <2>2
<1> QED
  BY <1>4, <1>5, <1>6 DEF AddRtpInstance

LEMMA InitInv1 == Init => Inv1
<1> SUFFICES ASSUME Init PROVE Inv1
  OBVIOUS
<1> QED
  BY RtspAssumption, EmptySeq
     DEF Init, Inv1, TypeOK, RequestsOK, Location, Method, SeqNo

LEMMA StepInv1 == Inv1 /\ [Next]_vars => Inv1'
<1> SUFFICES ASSUME Inv1, [Next]_vars PROVE Inv1'
  OBVIOUS
<1> USE DEF Inv1, RequestsOK
<1>1. ASSUME NEW c \in Conn, HandleNewConnection(c) PROVE Inv1'
  BY <1>1 DEF HandleNewConnection, TypeOK, connVars, timerVars
<1>2. ASSUME NEW c \in Conn, ClientStalls(c) \/ ClientReads(c) \/ ClientClose(c)
      PROVE  Inv1'
  BY <1>2 DEF ClientStalls, ClientReads, ClientClose, TypeOK, connVars, timerVars
<1>3. ASSUME NEW c \in Conn, NEW m \in Command, Receive(c, m) PROVE Inv1'
  <2>1. m \in Method
    BY RtspAssumption
  <2> QED
    BY <1>3, <2>1 DEF Receive, Reading, Goto, TypeOK, Location, Method, connVars, timerVars
<1>4. ASSUME NEW c \in Conn, NEW r \in Asked[c], ReceiveSetup(c, r) PROVE Inv1'
  <2>1. r \in SetupRequest
    BY RtspAssumption
  <2>2. /\ r.tr.kind = "tcp" => r.tr.val \in Channel
        /\ r.tr.kind = "udp" => r.tr.val \in Port
    BY <2>1 DEF SetupRequest, Transport
  <2>3. TypeOK'
    BY <1>4, <2>1, <2>2
       DEF ReceiveSetup, Reading, Goto, TypeOK, Location, timerVars
  <2> QED
    BY <1>4, <2>1, <2>3
       DEF ReceiveSetup, Reading, Goto, TypeOK, Location, timerVars
<1>5. ASSUME NEW c \in Conn, AnswerOnly(c) PROVE Inv1'
  BY <1>5 DEF AnswerOnly, WriteOk, WriteFails, Done, Goto, TypeOK, Location, connVars, timerVars
<1>6. ASSUME NEW c \in Conn, NoAnswer(c) PROVE Inv1'
  BY <1>6 DEF NoAnswer, MissingReturn, Done, Goto, TypeOK, Location, connVars, timerVars
<1>7. ASSUME NEW c \in Conn, SetupRefused(c) PROVE Inv1'
  BY <1>7 DEF SetupRefused, Done, Goto, TypeOK, Location, connVars, timerVars
<1>8. ASSUME NEW c \in Conn, SetupMulticast(c) PROVE Inv1'
  BY <1>8 DEF SetupMulticast, SetupMayProceed, SetupRequest, Goto, TypeOK, Location,
              connVars, timerVars
<1>9. ASSUME NEW c \in Conn, SetupCreate(c) PROVE Inv1'
  <2>1. req[c] \in SetupRequest /\ req[c].s \in Session /\ req[c].t \in Track
    BY <1>9 DEF SetupCreate, SetupMayProceed, SetupRequest
  <2>2. <<c, req[c].t>> \in Instance
    BY <2>1 DEF Instance
  <2>3. CASE c \in mIsRtpOverTcp /\ NewInstance(c, "tcp", mRtpChannel[c])
    <3>1. [kind |-> "tcp", dest |-> mRtpChannel[c], sess |-> req[c].s] \in RtpRecord
      BY <2>1 DEF TypeOK, RtpRecord
    <3> QED
      BY <1>9, <2>1, <2>2, <2>3, <3>1
         DEF SetupCreate, NewInstance, Goto, TypeOK, Location, connVars, timerVars
  <2>4. CASE c \notin mIsRtpOverTcp /\ NewInstance(c, "udp", mPeerRtpPort[c])
    <3>1. [kind |-> "udp", dest |-> mPeerRtpPort[c], sess |-> req[c].s] \in RtpRecord
      BY <2>1 DEF TypeOK, RtpRecord
    <3> QED
      BY <1>9, <2>1, <2>2, <2>4, <3>1
         DEF SetupCreate, NewInstance, Goto, TypeOK, Location, connVars, timerVars
  <2>5. CASE c \notin mIsRtpOverTcp /\ Done(c) /\ UNCHANGED mRtpInstances
    BY <1>9, <2>5 DEF SetupCreate, Done, Goto, TypeOK, Location, connVars, timerVars
  <2> QED
    BY <1>9, <2>3, <2>4, <2>5 DEF SetupCreate
<1>10. ASSUME NEW c \in Conn, AddRtpInstance(c) PROVE Inv1'
  <2> DEFINE k == <<req[c].s, req[c].t>>
             i == <<c, req[c].t>>
  <2>1. pc[c] = "add" /\ k \in Session \X Track /\ i \in Instance
    BY <1>10 DEF AddRtpInstance, Instance
  <2>2. list[k] \in Seq(Instance)
    BY <2>1 DEF TypeOK
  <2>3. list' \in [Session \X Track -> Seq(Instance)]
    <3>1. Append(list[k], i) \in Seq(Instance)
      BY <2>1, <2>2
    <3>2. \A n \in 0..Len(list[k]) : Append(SubSeq(list[k], 1, n), i) \in Seq(Instance)
      BY <2>1, <2>2, AppendTruncated
    <3>3. \/ list' = list
          \/ list' = [list EXCEPT ![k] = Append(list[k], i)]
          \/ \E n \in 0..Len(list[k]) :
               list' = [list EXCEPT ![k] = Append(SubSeq(list[k], 1, n), i)]
      BY <1>10, AddCases
    <3>4. \A s \in Seq(Instance) :
            [list EXCEPT ![k] = s] \in [Session \X Track -> Seq(Instance)]
      BY <2>1 DEF TypeOK
    <3>5. list \in [Session \X Track -> Seq(Instance)]
      BY DEF TypeOK
    <3> QED
      BY <3>1, <3>2, <3>3, <3>4, <3>5
  <2>4. torn' \subseteq Session \X Track
    BY <1>10, <2>1 DEF AddRtpInstance, TypeOK
  <2>5. ahead' \in Seq(Instance)
    <3>1. ahead \in Seq(Instance)
      BY DEF TypeOK
    <3>2. \A n \in 0..Len(ahead) : Append(SubSeq(ahead, 1, n), i) \in Seq(Instance)
      BY <2>1, <3>1, AppendTruncated
    <3>3. ahead' = ahead \/ \E n \in 0..Len(ahead) : ahead' = Append(SubSeq(ahead, 1, n), i)
      BY <1>10, AddCases
    <3> QED
      BY <3>1, <3>2, <3>3
  <2> QED
    BY <1>10, <2>1, <2>3, <2>4, <2>5
       DEF AddRtpInstance, Goto, TypeOK, Location, connVars, timerVars
<1>11. ASSUME NEW c \in Conn, SetupReply(c) PROVE Inv1'
  <2>1. <<c, req[c].t>> \in Instance
    BY <1>11 DEF SetupReply, Instance
  <2> QED
    BY <1>11, <2>1 DEF SetupReply, TrackInUse, WriteOk, WriteFails, Done, Goto, TypeOK, Location,
                       connVars, timerVars
<1>12. ASSUME NEW c \in Conn, PlayReply(c) PROVE Inv1'
  <2>1. /\ up' \in BOOLEAN /\ peer' \in [Conn -> {"none", "open", "full", "fin", "rst"}]
        /\ played' \subseteq Conn
    BY <1>12 DEF PlayReply, WriteOk, WriteFails, TypeOK
  <2>2. \E l \in {"alive0", "idle"} : pc' = [pc EXCEPT ![c] = l]
    BY <1>12 DEF PlayReply, Goto
  <2>3. pc' \in [Conn -> Location]
    BY <2>2 DEF TypeOK, Location
  <2>4. UNCHANGED <<req, connVars, mRtpInstances, mIsAlive, list, torn, timerVars, granted>>
    BY <1>12 DEF PlayReply
  <2>5. TypeOK'
    BY <2>1, <2>3, <2>4 DEF TypeOK, connVars, timerVars
  <2>6. RequestsOK'
    BY <2>2, <2>4 DEF TypeOK, RequestsOK
  <2> QED
    BY <2>5, <2>6
<1>13. ASSUME NEW c \in Conn, NEW t \in Track, SetAlive(c, t) PROVE Inv1'
  <2>1. <<c, t>> \in Instance
    BY DEF Instance
  <2> QED
    BY <1>13, <2>1 DEF SetAlive, MissingReturn, TrackInUse, Goto, TypeOK, Location,
                       connVars, timerVars
<1>14. ASSUME NEW k \in LiveTrack, StartPacket(k) PROVE Inv1'
  <2>1. list[k] \in Seq(Instance)
    BY RtspAssumption DEF TypeOK
  <2> QED
    BY <1>14, <2>1 DEF StartPacket, TypeOK, connVars
<1>15. CASE SkipInstance
  <2>1. Tail(ahead) \in Seq(Instance)
    BY <1>15, HeadTailProperties DEF SkipInstance, AtInstance, TypeOK
  <2> QED
    BY <1>15, <2>1 DEF SkipInstance, Advance, TypeOK, connVars
<1>16. CASE SendToInstance
  <2>1. cur \in Session \X Track
    BY <1>16, RtspAssumption DEF SendToInstance, AtInstance, TypeOK
  <2>2. Tail(ahead) \in Seq(Instance)
    BY <1>16, HeadTailProperties DEF SendToInstance, AtInstance, TypeOK
  <2>3. Head(ahead) \in Instance
    BY <1>16, HeadTailProperties DEF SendToInstance, AtInstance, TypeOK
  <2>4. mSeq[cur] \in SeqNo
    BY <2>1 DEF TypeOK
  <2>5. /\ last' \in [Instance -> SeqNo \cup {None}]
        /\ ahead' \in Seq(Instance)
    BY <1>16, <2>1, <2>2, <2>3, <2>4 DEF SendToInstance, Advance, TypeOK
  <2>6. up' \in BOOLEAN /\ peer' \in [Conn -> {"none", "open", "full", "fin", "rst"}]
    BY <1>16, <2>3 DEF SendToInstance, WriteOk, WriteFails, TypeOK, Instance
  <2> QED
    BY <1>16, <2>5, <2>6 DEF SendToInstance, TypeOK, connVars
<1>17. CASE EndPacket
  <2>1. cur \in Session \X Track
    BY <1>17, RtspAssumption DEF EndPacket, TypeOK
  <2>2. mSeq[cur] \in SeqNo
    BY <2>1 DEF TypeOK
  <2>3. NextSeq(mSeq[cur]) \in SeqNo
    BY <2>2, RtspAssumption DEF NextSeq, SeqNo
  <2>4. mSeq' \in [Session \X Track -> SeqNo]
    BY <1>17, <2>1, <2>3 DEF EndPacket, TypeOK
  <2> QED
    BY <1>17, <2>4 DEF EndPacket, TypeOK, connVars
<1>18. CASE UNCHANGED vars
  BY <1>18 DEF vars, TypeOK, connVars, timerVars
<1> QED
  BY <1>1, <1>2, <1>3, <1>4, <1>5, <1>6, <1>7, <1>8, <1>9, <1>10, <1>11,
     <1>12, <1>13, <1>14, <1>15, <1>16, <1>17, <1>18
     DEF Next, Client, Handler, Walk

\* Every variable always holds a value of its type, whatever the clients ask
\* for and however the threads interleave; in particular mSeq wraps.
THEOREM TypeCorrect == Spec => []TypeOK
<1>1. Inv1 => TypeOK
  BY DEF Inv1
<1> QED
  BY InitInv1, StepInv1, <1>1, PTL DEF Spec

-----------------------------------------------------------------------------
(* Only a PLAY that was answered makes an instance alive, and only an alive *)
(* instance is sent packets.                                                *)

AliveOK ==
  /\ \A i \in mIsAlive : mRtpInstances[i] # None /\ i[1] \in played
  /\ \A i \in Instance : last[i] # None => i \in mIsAlive
  /\ \A c \in Conn : pc[c] \in {"alive0", "alive1"} => c \in played

LEMMA InitAlive == Init => AliveOK
BY DEF Init, AliveOK, Instance

LEMMA StepAlive == Inv1 /\ AliveOK /\ [Next]_vars => AliveOK'
<1> SUFFICES ASSUME Inv1, AliveOK, [Next]_vars PROVE AliveOK'
  OBVIOUS
<1>0. TypeOK /\ RequestsOK
  BY DEF Inv1
<1> USE <1>0 DEF AliveOK
<1>1. ASSUME NEW c \in Conn, Client(c) PROVE AliveOK'
  BY <1>1, RtspAssumption
     DEF Client, HandleNewConnection, ClientStalls, ClientReads, ClientClose, Receive,
         ReceiveSetup, Goto, Method, TypeOK, timerVars
<1>2. ASSUME NEW c \in Conn,
             AnswerOnly(c) \/ NoAnswer(c) \/ SetupRefused(c) \/ SetupMulticast(c)
               \/ AddRtpInstance(c) \/ SetupReply(c)
      PROVE  AliveOK'
  <2>1. /\ UNCHANGED <<mRtpInstances, mIsAlive, last, played>>
        /\ \E l \in {"idle", "reply"} : pc' = [pc EXCEPT ![c] = l]
    BY <1>2 DEF AnswerOnly, NoAnswer, SetupRefused, SetupMulticast, AddRtpInstance,
                SetupReply, Done, Goto, timerVars
  <2> QED
    BY <2>1 DEF TypeOK
<1>3. ASSUME NEW c \in Conn, SetupCreate(c) PROVE AliveOK'
  <2>1. /\ UNCHANGED <<mIsAlive, last, played>>
        /\ \E l \in {"idle", "add"} : pc' = [pc EXCEPT ![c] = l]
    BY <1>3 DEF SetupCreate, NewInstance, Done, Goto, timerVars
  <2>2. \A i \in mIsAlive : mRtpInstances'[i] = mRtpInstances[i]
    BY <1>3 DEF SetupCreate, SetupMayProceed, TrackInUse, NewInstance, TypeOK
  <2> QED
    BY <2>1, <2>2 DEF TypeOK
<1>4. ASSUME NEW c \in Conn, PlayReply(c) PROVE AliveOK'
  <2>1. UNCHANGED <<mRtpInstances, mIsAlive, last>>
    BY <1>4 DEF PlayReply, timerVars
  <2>2. \A d \in Conn : pc'[d] \in {"alive0", "alive1"} => d \in played'
    BY <1>4 DEF PlayReply, Goto, TypeOK
  <2>3. played \subseteq played'
    BY <1>4 DEF PlayReply
  <2> QED
    BY <2>1, <2>2, <2>3
<1>5. ASSUME NEW c \in Conn, NEW t \in Track, SetAlive(c, t) PROVE AliveOK'
  <2>1. /\ UNCHANGED <<mRtpInstances, last, played>> /\ c \in played
        /\ mIsAlive \subseteq mIsAlive'
        /\ \A i \in mIsAlive' : i \in mIsAlive \/ (i = <<c, t>> /\ mRtpInstances[i] # None)
    BY <1>5 DEF SetAlive, TrackInUse, timerVars
  <2>2. \A d \in Conn : pc'[d] \in {"alive0", "alive1"} => d \in played
    BY <1>5 DEF SetAlive, Goto, TypeOK
  <2> QED
    BY <2>1, <2>2
<1>6. ASSUME NEW k \in LiveTrack, StartPacket(k) PROVE AliveOK'
  BY <1>6 DEF StartPacket
<1>7. CASE SkipInstance \/ EndPacket
  BY <1>7 DEF SkipInstance, EndPacket
<1>8. CASE SendToInstance
  BY <1>8 DEF SendToInstance, TypeOK
<1>9. CASE UNCHANGED vars
  BY <1>9 DEF vars, timerVars
<1> QED
  BY <1>1, <1>2, <1>3, <1>4, <1>5, <1>6, <1>7, <1>8, <1>9 DEF Next, Handler, Walk

\* No RTP packet goes to a client whose PLAY has not been answered: the reply
\* of handleCmdPlay comes before setAlive, and sendPacket skips the instances
\* that are not alive.
THEOREM MediaAfterPlay == Spec => []MediaOnlyAfterPlay
<1>1. AliveOK => MediaOnlyAfterPlay
  BY DEF AliveOK, MediaOnlyAfterPlay
<1> QED
  BY InitInv1, StepInv1, InitAlive, StepAlive, <1>1, PTL DEF Spec

-----------------------------------------------------------------------------
(* The lists.  An instance is pending while the IO thread that has created  *)
(* it is on its way through addRtpInstance; before that it does not exist,  *)
(* after that it is listed, unless its list is torn.                        *)

Lists == Session \X Track
Pending(i) == pc[i[1]] = "add" /\ req[i[1]].t = i[2]
Unlisted(i) == \A k \in Lists : \A p \in 1..Len(list[k]) : list[k][p] # i
Listed(i) ==
  LET k == <<mRtpInstances[i].sess, i[2]>> IN
  k \in LiveTrack /\ k \notin torn => \E p \in 1..Len(list[k]) : list[k][p] = i

PendingOK ==
  \A i \in Instance : Pending(i) =>
    /\ mRtpInstances[i] # None /\ mRtpInstances[i].sess = req[i[1]].s
    /\ i \notin mIsAlive /\ i \notin granted
    /\ Unlisted(i)

CreatedIsListed ==
  \A i \in Instance : mRtpInstances[i] # None => Pending(i) \/ Listed(i)

GrantedExists == \A i \in granted : mRtpInstances[i] # None

ListInv == PendingOK /\ CreatedIsListed /\ GrantedExists /\ RegisteredOnce

LEMMA InitLists == Init => ListInv
BY DEF Init, ListInv, PendingOK, CreatedIsListed, GrantedExists, RegisteredOnce,
       Pending, Listed, Unlisted, Lists, Instance

\* What a step does to the lists.  All but four of the actions do nothing.
ListStep(c) == SetupCreate(c) \/ AddRtpInstance(c) \/ SetupReply(c)

LEMMA QuietSteps ==
  ASSUME Inv1, [Next]_vars, \A c \in Conn : ~ListStep(c)
  PROVE  /\ UNCHANGED <<mRtpInstances, list, torn, granted>>
         /\ \A i \in Instance : Pending(i)' => Pending(i) /\ req'[i[1]] = req[i[1]]
         /\ \A i \in Instance : Pending(i) => Pending(i)'
         /\ \/ UNCHANGED mIsAlive
            \/ \E i \in Instance : mIsAlive' = mIsAlive \cup {i} /\ ~Pending(i)
<1>0. TypeOK
  BY DEF Inv1
<1> USE <1>0 DEF Pending
<1> DEFINE Goal == /\ UNCHANGED <<mRtpInstances, list, torn, granted>>
                   /\ \A i \in Instance : Pending(i)' => Pending(i) /\ req'[i[1]] = req[i[1]]
                   /\ \A i \in Instance : Pending(i) => Pending(i)'
                   /\ \/ UNCHANGED mIsAlive
                      \/ \E i \in Instance : mIsAlive' = mIsAlive \cup {i} /\ ~Pending(i)
<1>1. ASSUME NEW c \in Conn,
             HandleNewConnection(c) \/ ClientStalls(c) \/ ClientReads(c) \/ ClientClose(c)
      PROVE  Goal
  BY <1>1 DEF HandleNewConnection, ClientStalls, ClientReads, ClientClose, timerVars
<1>2. ASSUME NEW c \in Conn, NEW m \in Command, Receive(c, m) PROVE Goal
  BY <1>2, RtspAssumption DEF Receive, Reading, Goto, Method, TypeOK, Instance
<1>3. ASSUME NEW c \in Conn, NEW r \in Asked[c], ReceiveSetup(c, r) PROVE Goal
  BY <1>3 DEF ReceiveSetup, Reading, Goto, TypeOK, Instance
<1>4. ASSUME NEW c \in Conn,
             AnswerOnly(c) \/ NoAnswer(c) \/ SetupRefused(c)
      PROVE  Goal
  BY <1>4 DEF AnswerOnly, NoAnswer, SetupRefused, Done, Goto, TypeOK, Instance
<1>5. ASSUME NEW c \in Conn, SetupMulticast(c) \/ PlayReply(c) PROVE Goal
  BY <1>5 DEF SetupMulticast, SetupMayProceed, PlayReply, Goto, TypeOK, Instance
<1>6. ASSUME NEW c \in Conn, NEW t \in Track, SetAlive(c, t) PROVE Goal
  <2>1. <<c, t>> \in Instance /\ ~Pending(<<c, t>>)
    BY <1>6 DEF SetAlive, Instance
  <2> QED
    BY <1>6, <2>1 DEF SetAlive, Goto, TypeOK, Instance
<1>7. ASSUME NEW k \in LiveTrack, StartPacket(k) PROVE Goal
  BY <1>7 DEF StartPacket
<1>8. CASE Walk
  BY <1>8 DEF Walk, SkipInstance, SendToInstance, EndPacket
<1>9. CASE UNCHANGED vars
  BY <1>9 DEF vars
<1> QED
  BY <1>1, <1>2, <1>3, <1>4, <1>5, <1>6, <1>7, <1>8, <1>9
     DEF Next, Client, Handler, ListStep

\* What addRtpInstance may do to the list it is called on.
LEMMA AddEffect ==
  ASSUME TypeOK, RequestsOK, NEW c \in Conn, AddRtpInstance(c)
  PROVE  LET k == <<req[c].s, req[c].t>>
             i == <<c, req[c].t>>
         IN /\ k \in Lists /\ i \in Instance
            /\ torn \subseteq torn' /\ torn' \subseteq torn \cup {k}
            /\ \A q \in Lists \ {k} : list'[q] = list[q]
            /\ \/ list'[k] = list[k] /\ (k \in LiveTrack => k \in torn')
               \/ \E n \in 0..Len(list[k]) :
                    /\ Len(list'[k]) = n + 1
                    /\ \A p \in 1..n : list'[k][p] = list[k][p]
                    /\ list'[k][n + 1] = i
                    /\ k \notin torn' => n = Len(list[k])
<1> DEFINE k == <<req[c].s, req[c].t>>
           i == <<c, req[c].t>>
<1>1. k \in Lists /\ i \in Instance
  BY DEF AddRtpInstance, RequestsOK, Lists, Instance
<1>2. list[k] \in Seq(Instance) /\ Len(list[k]) \in Nat
  BY <1>1 DEF TypeOK, Lists
<1>3. CASE UNCHANGED <<list, torn>> /\ k \notin LiveTrack
  BY <1>1, <1>3
<1>4. CASE torn' = torn \cup {k} /\ UNCHANGED list
  BY <1>1, <1>4
<1>5. ASSUME NEW n \in 0..Len(list[k]),
             list' = [list EXCEPT ![k] = Append(SubSeq(@, 1, n), i)],
             torn' = torn \cup {k} \/ (torn' = torn /\ n = Len(list[k]))
      PROVE  /\ torn \subseteq torn' /\ torn' \subseteq torn \cup {k}
             /\ \A q \in Lists \ {k} : list'[q] = list[q]
             /\ Len(list'[k]) = n + 1
             /\ \A p \in 1..n : list'[k][p] = list[k][p]
             /\ list'[k][n + 1] = i
             /\ k \notin torn' => n = Len(list[k])
  <2>1. list'[k] = Append(SubSeq(list[k], 1, n), i)
    BY <1>1, <1>5 DEF TypeOK, Lists
  <2>2. \A q \in Lists \ {k} : list'[q] = list[q]
    BY <1>5 DEF TypeOK, Lists
  <2>3. /\ Len(list'[k]) = n + 1
        /\ \A p \in 1..n : list'[k][p] = list[k][p]
        /\ list'[k][n + 1] = i
    BY <1>1, <1>2, <2>1, AppendTruncated
  <2> QED
    BY <1>5, <2>2, <2>3
<1>6. CASE list' = [list EXCEPT ![k] = Append(@, i)] /\ torn' = torn
  <2>1. SubSeq(list[k], 1, Len(list[k])) = list[k]
    BY <1>2, SubSeqFull
  <2>2. list' = [list EXCEPT ![k] = Append(SubSeq(@, 1, Len(list[k])), i)]
    BY <1>6, <2>1
  <2>3. Len(list[k]) \in 0..Len(list[k])
    BY <1>2
  <2>4. /\ Len(list'[k]) = Len(list[k]) + 1
        /\ \A p \in 1..Len(list[k]) : list'[k][p] = list[k][p]
        /\ list'[k][Len(list[k]) + 1] = i
        /\ \A q \in Lists \ {k} : list'[q] = list[q]
    BY <1>5, <1>6, <2>2, <2>3
  <2> QED
    BY <1>1, <1>6, <2>3, <2>4
<1>7. CASE \E n \in 0..Len(list[k]) :
             /\ list' = [list EXCEPT ![k] = Append(SubSeq(@, 1, n), i)]
             /\ torn' = torn \cup {k}
  BY <1>1, <1>5, <1>7
<1>8. \/ UNCHANGED <<list, torn>> /\ k \notin LiveTrack
      \/ torn' = torn \cup {k} /\ UNCHANGED list
      \/ list' = [list EXCEPT ![k] = Append(@, i)] /\ torn' = torn
      \/ \E n \in 0..Len(list[k]) :
           /\ list' = [list EXCEPT ![k] = Append(SubSeq(@, 1, n), i)]
           /\ torn' = torn \cup {k}
  BY AddCases
<1> QED
  BY <1>3, <1>4, <1>6, <1>7, <1>8

LEMMA StepLists == Inv1 /\ AliveOK /\ ListInv /\ [Next]_vars => ListInv'
<1> SUFFICES ASSUME Inv1, AliveOK, ListInv, [Next]_vars PROVE ListInv'
  OBVIOUS
<1>0. TypeOK /\ RequestsOK
  BY DEF Inv1
<1> USE <1>0
<1>1. CASE \A c \in Conn : ~ListStep(c)
  <2>1. /\ UNCHANGED <<mRtpInstances, list, torn, granted>>
        /\ \A i \in Instance : Pending(i)' => Pending(i) /\ req'[i[1]] = req[i[1]]
        /\ \A i \in Instance : Pending(i) => Pending(i)'
        /\ \/ UNCHANGED mIsAlive
           \/ \E i \in Instance : mIsAlive' = mIsAlive \cup {i} /\ ~Pending(i)
    BY <1>1, QuietSteps
  <2>2. PendingOK'
    BY <2>1 DEF ListInv, PendingOK, Unlisted
  <2>3. CreatedIsListed'
    BY <2>1 DEF ListInv, CreatedIsListed, Listed
  <2>4. GrantedExists' /\ RegisteredOnce'
    BY <2>1 DEF ListInv, GrantedExists, RegisteredOnce
  <2> QED
    BY <2>2, <2>3, <2>4 DEF ListInv
<1>2. ASSUME NEW c \in Conn, SetupReply(c) PROVE ListInv'
  <2> DEFINE i == <<c, req[c].t>>
  <2>1. /\ UNCHANGED <<mRtpInstances, list, torn, mIsAlive>>
        /\ pc[c] = "reply" /\ pc' = [pc EXCEPT ![c] = "idle"]
        /\ req' = [req EXCEPT ![c] = None]
        /\ granted' = granted \/ (granted' = granted \cup {i} /\ mRtpInstances[i] # None)
    BY <1>2 DEF SetupReply, TrackInUse, Done, Goto
  <2>2. \A j \in Instance : /\ Pending(j)' => Pending(j) /\ j # i /\ req'[j[1]] = req[j[1]]
                            /\ Pending(j) => Pending(j)'
    BY <2>1 DEF Pending, TypeOK, Instance
  <2>3. PendingOK'
    BY <2>1, <2>2 DEF ListInv, PendingOK, Unlisted
  <2>4. CreatedIsListed'
    BY <2>1, <2>2 DEF ListInv, CreatedIsListed, Listed
  <2>5. GrantedExists' /\ RegisteredOnce'
    BY <2>1 DEF ListInv, GrantedExists, RegisteredOnce
  <2> QED
    BY <2>3, <2>4, <2>5 DEF ListInv
<1>3. ASSUME NEW c \in Conn, SetupCreate(c) PROVE ListInv'
  <2> DEFINE i == <<c, req[c].t>>
  <2>1. /\ UNCHANGED <<list, torn, mIsAlive, granted>>
        /\ pc[c] = "SETUP" /\ mRtpInstances[i] = None
        /\ req[c].s \in Session /\ i \in Instance
    BY <1>3 DEF SetupCreate, SetupMayProceed, TrackInUse, RequestsOK, SetupRequest, Instance
  <2>2. CASE Done(c) /\ UNCHANGED mRtpInstances
    <3>1. \A j \in Instance : /\ Pending(j)' => Pending(j) /\ req'[j[1]] = req[j[1]]
                              /\ Pending(j) => Pending(j)'
      BY <2>1, <2>2 DEF Done, Goto, Pending, TypeOK, Instance
    <3>2. PendingOK'
      BY <2>1, <2>2, <3>1 DEF ListInv, PendingOK, Unlisted
    <3>3. CreatedIsListed'
      BY <2>1, <2>2, <3>1 DEF ListInv, CreatedIsListed, Listed
    <3>4. GrantedExists' /\ RegisteredOnce'
      BY <2>1, <2>2 DEF ListInv, GrantedExists, RegisteredOnce
    <3> QED
      BY <3>2, <3>3, <3>4 DEF ListInv
  <2>3. ASSUME NEW kind \in {"tcp", "udp"}, NEW d \in Channel \cup Port \cup {None},
               NewInstance(c, kind, d)
        PROVE  ListInv'
    <3> DEFINE new == [kind |-> kind, dest |-> d, sess |-> req[c].s]
    <3>1. /\ mRtpInstances' = [mRtpInstances EXCEPT ![i] = new]
          /\ pc' = [pc EXCEPT ![c] = "add"] /\ req' = req
      BY <2>3 DEF NewInstance, Goto
    <3>2. new \in RtpRecord /\ new # None
      BY <2>1, RtspAssumption DEF RtpRecord
    <3>3. /\ mRtpInstances'[i] = new
          /\ \A j \in Instance \ {i} : mRtpInstances'[j] = mRtpInstances[j]
      BY <2>1, <3>1 DEF TypeOK
    <3>4. \A j \in Instance : Pending(j)' <=> (j = i \/ Pending(j))
      BY <2>1, <3>1 DEF Pending, TypeOK, Instance
    <3>5. i \notin mIsAlive /\ i \notin granted /\ Unlisted(i)
      BY <2>1 DEF AliveOK, ListInv, GrantedExists, RegisteredOnce, Unlisted, Lists
    <3>6. PendingOK'
      <4>1. ASSUME NEW j \in Instance, Pending(j)'
            PROVE  /\ mRtpInstances'[j] # None /\ mRtpInstances'[j].sess = req'[j[1]].s
                   /\ j \notin mIsAlive' /\ j \notin granted' /\ Unlisted(j)'
        <5>1. CASE j = i
          BY <5>1, <2>1, <3>1, <3>2, <3>3, <3>5 DEF Unlisted
        <5>2. CASE j # i
          BY <5>2, <4>1, <2>1, <3>1, <3>3, <3>4 DEF ListInv, PendingOK, Unlisted
        <5> QED
          BY <5>1, <5>2
      <4> QED
        BY <4>1 DEF PendingOK
    <3>7. CreatedIsListed'
      BY <2>1, <3>3, <3>4 DEF ListInv, CreatedIsListed, Listed
    <3>8. GrantedExists'
      BY <2>1, <3>2, <3>3, <3>5 DEF ListInv, GrantedExists, TypeOK
    <3>9. RegisteredOnce'
      <4>1. \A k \in Lists : \A p \in 1..Len(list[k]) :
              list[k][p] \in Instance /\ list[k][p] # i
        BY <3>5, ElementOfSeq DEF Unlisted, Lists, TypeOK
      <4> QED
        BY <2>1, <3>3, <4>1 DEF ListInv, RegisteredOnce, Lists
    <3> QED
      BY <3>6, <3>7, <3>8, <3>9 DEF ListInv
  <2> QED
    BY <1>3, <2>2, <2>3 DEF SetupCreate, TypeOK
<1>4. ASSUME NEW c \in Conn, AddRtpInstance(c) PROVE ListInv'
  <2> DEFINE k == <<req[c].s, req[c].t>>
             i == <<c, req[c].t>>
  <2>1. /\ UNCHANGED <<mRtpInstances, mIsAlive, granted, req>>
        /\ pc[c] = "add" /\ pc' = [pc EXCEPT ![c] = "reply"]
    BY <1>4 DEF AddRtpInstance, Goto
  <2>2. /\ k \in Lists /\ i \in Instance
        /\ torn \subseteq torn' /\ torn' \subseteq torn \cup {k}
        /\ \A q \in Lists \ {k} : list'[q] = list[q]
    BY <1>4, AddEffect
  <2>3. \/ list'[k] = list[k] /\ (k \in LiveTrack => k \in torn')
        \/ \E n \in 0..Len(list[k]) :
             /\ Len(list'[k]) = n + 1
             /\ \A p \in 1..n : list'[k][p] = list[k][p]
             /\ list'[k][n + 1] = i
             /\ k \notin torn' => n = Len(list[k])
    BY <1>4, AddEffect
  <2>4. /\ Pending(i)
        /\ \A j \in Instance : Pending(j)' <=> Pending(j) /\ j # i
    BY <2>1, <2>2 DEF Pending, TypeOK, Instance
  <2>5. /\ mRtpInstances[i] # None /\ k = <<mRtpInstances[i].sess, i[2]>>
        /\ Unlisted(i)
    BY <2>2, <2>4 DEF ListInv, PendingOK
  <2>5a. i' = i
    BY <2>1
  <2> HIDE DEF k, i
  <2>6. \A q \in Lists : Len(list[q]) \in Nat
    BY DEF TypeOK, Lists
  <2>7. \A q \in Lists : \A p \in 1..Len(list'[q]) :
          \/ p \in 1..Len(list[q]) /\ list'[q][p] = list[q][p]
          \/ q = k /\ p = Len(list'[q]) /\ list'[q][p] = i
    <3>1. ASSUME NEW q \in Lists, q # k, NEW p \in 1..Len(list'[q])
          PROVE  p \in 1..Len(list[q]) /\ list'[q][p] = list[q][p]
      BY <2>2, <3>1
    <3>2. CASE list'[k] = list[k]
      BY <3>1, <3>2
    <3>3. ASSUME NEW n \in 0..Len(list[k]), Len(list'[k]) = n + 1,
                 \A p \in 1..n : list'[k][p] = list[k][p], list'[k][n + 1] = i,
                 NEW p \in 1..Len(list'[k])
          PROVE  \/ p \in 1..Len(list[k]) /\ list'[k][p] = list[k][p]
                 \/ p = Len(list'[k]) /\ list'[k][p] = i
      BY <2>2, <2>6, <3>3
    <3> QED
      BY <2>3, <3>1, <3>2, <3>3
  <2>8. PendingOK'
    <3>1. \A j \in Instance : Unlisted(j) /\ j # i => Unlisted(j)'
      BY <2>7 DEF Unlisted
    <3> QED
      BY <2>1, <2>4, <3>1 DEF ListInv, PendingOK
  <2>9. CreatedIsListed'
    <3>1. ASSUME NEW j \in Instance, j # i, Listed(j) PROVE Listed(j)'
      <4> DEFINE q == <<mRtpInstances[j].sess, j[2]>>
      <4>1. SUFFICES ASSUME q \in LiveTrack, q \notin torn'
                     PROVE  \E p \in 1..Len(list'[q]) : list'[q][p] = j
        BY <2>1 DEF Listed
      <4>2. PICK p \in 1..Len(list[q]) : list[q][p] = j
        BY <3>1, <4>1, <2>2 DEF Listed
      <4>3. q \in Lists
        BY <4>1, RtspAssumption DEF Lists
      <4>4. p \in 1..Len(list'[q]) /\ list'[q][p] = list[q][p]
        <5>1. CASE q # k
          BY <5>1, <4>3, <2>2
        <5>2. CASE q = k
          <6>1. list[k] = list'[k] \/ (/\ Len(list'[k]) = Len(list[k]) + 1
                                       /\ \A r \in 1..Len(list[k]) : list'[k][r] = list[k][r])
            BY <5>2, <4>1, <2>3
          <6>2. Len(list[k]) \in Nat
            BY <2>2, <2>6
          <6> QED
            BY <5>2, <6>1, <6>2
        <5> QED
          BY <5>1, <5>2
      <4> QED
        BY <4>2, <4>4
    <3>2. Listed(i)'
      <4>1. SUFFICES ASSUME k \in LiveTrack, k \notin torn'
                     PROVE  \E p \in 1..Len(list'[k]) : list'[k][p] = i
        <5>1. mRtpInstances' = mRtpInstances
          BY <2>1
        <5>2. k = <<mRtpInstances'[i].sess, i[2]>>
          BY <2>5, <5>1
        <5> QED
          BY <5>2, <2>5a DEF Listed
      <4>2. PICK n \in 0..Len(list[k]) :
              Len(list'[k]) = n + 1 /\ list'[k][n + 1] = i
        BY <2>3, <4>1
      <4>3. n + 1 \in 1..Len(list'[k])
        BY <4>2, <2>2, <2>6
      <4> QED
        BY <4>2, <4>3
    <3>3. ASSUME NEW j \in Instance, mRtpInstances[j] # None, ~Pending(j)'
          PROVE  Listed(j)'
      <4>1. j = i \/ Listed(j)
        BY <2>4, <3>3 DEF ListInv, CreatedIsListed
      <4> QED
        BY <4>1, <3>1, <3>2, <2>5a
    <3>4. mRtpInstances' = mRtpInstances
      BY <2>1
    <3> QED
      BY <3>3, <3>4 DEF CreatedIsListed
  <2>10. GrantedExists'
    BY <2>1 DEF ListInv, GrantedExists
  <2>11. RegisteredOnce'
    <3>1. ASSUME NEW q \in Lists, NEW p \in 1..Len(list'[q]), NEW r \in 1..Len(list'[q]),
                 list'[q][p] = list'[q][r]
          PROVE  p = r
      BY <2>5, <2>7, <3>1 DEF ListInv, RegisteredOnce, Unlisted, Lists
    <3>2. ASSUME NEW q \in Lists, NEW p \in 1..Len(list'[q])
          PROVE  /\ mRtpInstances[list'[q][p]] # None
                 /\ q = <<mRtpInstances[list'[q][p]].sess, list'[q][p][2]>>
      BY <2>5, <2>7, <3>2 DEF ListInv, RegisteredOnce, Lists
    <3> QED
      BY <2>1, <3>1, <3>2 DEF RegisteredOnce, Lists
  <2> QED
    BY <2>8, <2>9, <2>10, <2>11 DEF ListInv
<1> QED
  BY <1>1, <1>2, <1>3, <1>4 DEF ListStep

\* However SETUP requests interleave, an instance is in at most one list, once,
\* and only in the list of the track it was set up for: sendPacket never sends
\* a packet twice to a client.
THEOREM OneRegistration == Spec => []RegisteredOnce
<1>1. ListInv => RegisteredOnce
  BY DEF ListInv
<1> QED
  BY InitInv1, StepInv1, InitAlive, StepAlive, InitLists, StepLists, <1>1, PTL DEF Spec

\* A client whose unicast SETUP was answered with 200 is in the list that
\* sendPacket walks, as long as no two push_backs have overlapped on it.
THEOREM GrantedRegistered == Spec => []GrantedIsRegistered
<1>1. TypeOK /\ ListInv => GrantedIsRegistered
  <2> SUFFICES ASSUME TypeOK, ListInv, NEW i \in granted PROVE Listed(i)
    BY DEF GrantedIsRegistered, Listed, TypeOK
  <2>1. i \in Instance /\ mRtpInstances[i] # None /\ ~Pending(i)
    BY DEF TypeOK, ListInv, GrantedExists, PendingOK
  <2> QED
    BY <2>1 DEF ListInv, CreatedIsListed
<1>2. Inv1 => TypeOK
  BY DEF Inv1
<1> QED
  BY InitInv1, StepInv1, InitAlive, StepAlive, InitLists, StepLists, <1>1, <1>2, PTL DEF Spec

-----------------------------------------------------------------------------
(* The sequence numbers.                                                    *)

\* On an intact list the timer thread has the end of the list ahead of it.
OnList == cur # None /\ cur \notin torn => EndOf(ahead, list[cur])

\* Also on a torn list it meets instances of that track only.
OnTrack ==
  cur # None =>
    \A p \in 1..Len(ahead) :
      /\ mRtpInstances[ahead[p]] # None
      /\ cur = <<mRtpInstances[ahead[p]].sess, ahead[p][2]>>

SeqInv == OnList /\ OnTrack /\ NoGap

\* What a walking step does to what is ahead.
LEMMA AdvanceEffect ==
  ASSUME TypeOK, ahead # <<>>, Advance
  PROVE  /\ Len(ahead) \in Nat \ {0} /\ Len(ahead') = Len(ahead) - 1
         /\ \A p \in 1..Len(ahead') : ahead'[p] = ahead[p + 1]
         /\ Head(ahead) = ahead[1] /\ ahead[1] \in Instance
BY HeadTailProperties, ElementOfSeq DEF TypeOK, Advance

LEMMA StepOnList ==
  ASSUME Inv1, OnList, [Next]_vars
  PROVE  OnList'
<1>0. /\ TypeOK /\ RequestsOK
      /\ cur # None => cur \in Lists
      /\ \A k \in LiveTrack : k \in Lists /\ k # None
      /\ \A k \in Lists : list[k] \in Seq(Instance) /\ Len(list[k]) \in Nat
      /\ ahead \in Seq(Instance) /\ Len(ahead) \in Nat
  <2>1. TypeOK /\ RequestsOK
    BY DEF Inv1
  <2> QED
    BY <2>1, RtspAssumption DEF TypeOK, Lists
<1>1. CASE UNCHANGED <<list, torn, cur, ahead>>
  BY <1>1 DEF OnList
<1>2. ASSUME NEW c \in Conn, AddRtpInstance(c) PROVE OnList'
  <2> DEFINE k == <<req[c].s, req[c].t>>
             i == <<c, req[c].t>>
  <2>1. cur' = cur
    BY <1>2 DEF AddRtpInstance
  <2>2. /\ k \in Lists /\ i \in Instance /\ torn \subseteq torn'
        /\ \A q \in Lists \ {k} : list'[q] = list[q]
    BY <1>0, <1>2, AddEffect
  <2>3. CASE cur # k
    <3>1. ahead' = ahead
      BY <1>2, <2>3 DEF AddRtpInstance, Walking
    <3> QED
      BY <1>0, <2>1, <2>2, <2>3, <3>1 DEF OnList
  <2>4. CASE cur = k /\ k \notin torn' /\ k \notin LiveTrack
    BY <1>0, <2>2, <2>4, RtspAssumption DEF TypeOK, Lists
  <2>5. CASE cur = k /\ k \notin torn' /\ k \in LiveTrack
    <3>1. /\ list' = [list EXCEPT ![k] = Append(@, i)]
          /\ ahead' = IF ahead # <<>> THEN Append(ahead, i) ELSE ahead
          /\ k \notin torn
      BY <1>2, <2>5 DEF AddRtpInstance, Walking
    <3>2. list'[k] = Append(list[k], i)
      BY <2>2, <3>1, <1>0 DEF TypeOK, Lists
    <3>3. EndOf(ahead, list[k])
      BY <1>0, <2>2, <2>5, <3>1 DEF OnList
    <3>4. CASE ahead = <<>>
      <4>1. EndOf(<<>>, Append(list[k], i))
        BY <1>0, <2>2 DEF EndOf
      <4> QED
        BY <2>1, <2>5, <3>1, <3>2, <3>4, <4>1 DEF OnList
    <3>5. CASE ahead # <<>>
      <4>1. EndOf(Append(ahead, i), Append(list[k], i))
        BY <1>0, <2>2, <3>3, EndOfAppend
      <4> QED
        BY <2>1, <2>5, <3>1, <3>2, <3>5, <4>1 DEF OnList
    <3> QED
      BY <3>4, <3>5
  <2> QED
    BY <2>1, <2>3, <2>4, <2>5 DEF OnList
<1>3. ASSUME NEW k \in LiveTrack, StartPacket(k) PROVE OnList'
  BY <1>0, <1>3 DEF StartPacket, OnList, EndOf
<1>4. CASE SkipInstance \/ SendToInstance
  <2>1. UNCHANGED <<list, torn, cur>> /\ ahead' = Tail(ahead) /\ ahead # <<>>
    BY <1>4 DEF SkipInstance, SendToInstance, AtInstance, Advance
  <2>2. cur # None /\ cur \notin torn => EndOf(Tail(ahead), list[cur])
    BY <1>0, <2>1, EndOfTail DEF OnList
  <2> QED
    BY <2>1, <2>2 DEF OnList
<1>5. CASE EndPacket
  BY <1>5 DEF EndPacket, OnList
<1> QED
  <2>1. ASSUME NEW c \in Conn, Client(c) PROVE OnList'
    BY <1>1, <2>1 DEF Client, HandleNewConnection, ClientStalls, ClientReads, ClientClose,
                      Receive, ReceiveSetup, timerVars
  <2>2. ASSUME NEW c \in Conn, Handler(c) PROVE OnList'
    BY <1>1, <1>2, <2>2
       DEF Handler, AnswerOnly, NoAnswer, SetupRefused, SetupMulticast, SetupCreate,
           SetupReply, PlayReply, SetAlive, timerVars
  <2>3. CASE UNCHANGED vars
    BY <1>1, <2>3 DEF vars, timerVars
  <2> QED
    BY <1>3, <1>4, <1>5, <2>1, <2>2, <2>3 DEF Next, Walk

LEMMA StepOnTrack ==
  ASSUME Inv1, ListInv, OnTrack, [Next]_vars
  PROVE  OnTrack'
<1>0. /\ TypeOK /\ RequestsOK
      /\ cur # None => cur \in Lists
      /\ \A k \in LiveTrack : k \in Lists /\ k # None
      /\ ahead \in Seq(Instance) /\ Len(ahead) \in Nat
      /\ \A p \in 1..Len(ahead) : ahead[p] \in Instance
  <2>1. TypeOK /\ RequestsOK
    BY DEF Inv1
  <2> QED
    BY <2>1, RtspAssumption, ElementOfSeq DEF TypeOK, Lists
<1>1. CASE UNCHANGED <<mRtpInstances, cur, ahead>>
  BY <1>1 DEF OnTrack
<1>2. ASSUME NEW c \in Conn, AddRtpInstance(c) PROVE OnTrack'
  <2> DEFINE k == <<req[c].s, req[c].t>>
             i == <<c, req[c].t>>
  <2>1. UNCHANGED <<cur, mRtpInstances>> /\ pc[c] = "add"
    BY <1>2 DEF AddRtpInstance
  <2>2. k \in Lists /\ i \in Instance
    BY <1>0, <1>2, AddEffect
  <2>3. mRtpInstances[i] # None /\ k = <<mRtpInstances[i].sess, i[2]>>
    BY <2>1, <2>2 DEF ListInv, PendingOK, Pending, Instance
  <2>4. \/ ahead' = ahead
        \/ /\ cur = k
           /\ \E n \in 0..Len(ahead) : ahead' = Append(SubSeq(ahead, 1, n), i)
    BY <1>0, <1>2, AddCases
  <2>5. CASE ahead' = ahead
    BY <2>1, <2>5 DEF OnTrack
  <2>6. ASSUME NEW n \in 0..Len(ahead), cur = k, ahead' = Append(SubSeq(ahead, 1, n), i),
               NEW p \in 1..Len(ahead')
        PROVE  \/ p \in 1..Len(ahead) /\ ahead'[p] = ahead[p]
               \/ ahead'[p] = i
    <3>1. /\ Len(ahead') = n + 1 /\ ahead'[n + 1] = i
          /\ \A q \in 1..n : ahead'[q] = ahead[q]
      BY <1>0, <2>2, <2>6, AppendTruncated
    <3> QED
      BY <1>0, <3>1
  <2>7. CASE cur = k /\ \E n \in 0..Len(ahead) : ahead' = Append(SubSeq(ahead, 1, n), i)
    BY <1>0, <2>1, <2>2, <2>3, <2>6, <2>7 DEF OnTrack
  <2> QED
    BY <2>4, <2>5, <2>7
<1>3. ASSUME NEW c \in Conn, SetupCreate(c) PROVE OnTrack'
  <2>1. /\ UNCHANGED <<cur, ahead>>
        /\ \A j \in Instance : mRtpInstances[j] # None => mRtpInstances'[j] = mRtpInstances[j]
    BY <1>0, <1>3 DEF SetupCreate, SetupMayProceed, TrackInUse, NewInstance, TypeOK, timerVars
  <2> QED
    BY <1>0, <2>1 DEF OnTrack
<1>4. ASSUME NEW k \in LiveTrack, StartPacket(k) PROVE OnTrack'
  <2>1. UNCHANGED mRtpInstances /\ ahead' = list[k] /\ cur' = k /\ k \in Lists
    BY <1>0, <1>4 DEF StartPacket
  <2> QED
    BY <2>1 DEF OnTrack, ListInv, RegisteredOnce, Lists
<1>5. CASE SkipInstance \/ SendToInstance
  <2>1. UNCHANGED <<mRtpInstances, cur>> /\ Advance /\ ahead # <<>>
    BY <1>5 DEF SkipInstance, SendToInstance, AtInstance
  <2>2. /\ Len(ahead) \in Nat \ {0} /\ Len(ahead') = Len(ahead) - 1
        /\ \A p \in 1..Len(ahead') : ahead'[p] = ahead[p + 1]
    BY <1>0, <2>1, AdvanceEffect
  <2>3. \A p \in 1..Len(ahead') : p + 1 \in 1..Len(ahead)
    BY <2>2
  <2> QED
    BY <2>1, <2>2, <2>3 DEF OnTrack
<1>6. CASE EndPacket
  BY <1>6 DEF EndPacket, OnTrack
<1> QED
  <2>1. ASSUME NEW c \in Conn, Client(c) PROVE OnTrack'
    BY <1>1, <2>1 DEF Client, HandleNewConnection, ClientStalls, ClientReads, ClientClose,
                      Receive, ReceiveSetup, timerVars
  <2>2. ASSUME NEW c \in Conn, Handler(c) PROVE OnTrack'
    BY <1>1, <1>2, <1>3, <2>2
       DEF Handler, AnswerOnly, NoAnswer, SetupRefused, SetupMulticast,
           SetupReply, PlayReply, SetAlive, timerVars
  <2>3. CASE UNCHANGED vars
    BY <1>1, <2>3 DEF vars, timerVars
  <2> QED
    BY <1>4, <1>5, <1>6, <2>1, <2>2, <2>3 DEF Next, Walk

LEMMA StepNoGap ==
  Inv1 /\ AliveOK /\ ListInv /\ SeqInv /\ [Next]_vars => SeqInv'
<1> SUFFICES ASSUME Inv1, AliveOK, ListInv, OnList, OnTrack, NoGap, [Next]_vars
             PROVE  NoGap'
  BY StepOnList, StepOnTrack DEF SeqInv
<1>0. /\ TypeOK /\ RequestsOK
      /\ \A k \in LiveTrack : k \in Lists /\ k # None
      /\ \A k \in Lists : Len(list[k]) \in Nat
      /\ Len(ahead) \in Nat
      /\ \A k \in Lists : \A p \in 1..Len(list[k]) : list[k][p] \in Instance
  <2>1. TypeOK /\ RequestsOK
    BY DEF Inv1
  <2> QED
    BY <2>1, RtspAssumption, ElementOfSeq DEF TypeOK, Lists
<1>1. CASE UNCHANGED <<list, torn, timerVars>>
  BY <1>1 DEF NoGap, timerVars
<1>2. ASSUME NEW c \in Conn, AddRtpInstance(c) PROVE NoGap'
  <2> DEFINE k == <<req[c].s, req[c].t>>
             i == <<c, req[c].t>>
  <2>1. UNCHANGED <<cur, mSeq, last>> /\ pc[c] = "add"
    BY <1>2 DEF AddRtpInstance
  <2>2. /\ k \in Lists /\ i \in Instance /\ torn \subseteq torn'
        /\ \A q \in Lists \ {k} : list'[q] = list[q]
        /\ k \in LiveTrack /\ k \notin torn' =>
             /\ Len(list'[k]) = Len(list[k]) + 1
             /\ \A p \in 1..Len(list[k]) : list'[k][p] = list[k][p]
             /\ list'[k][Len(list[k]) + 1] = i
    BY <1>0, <1>2, AddEffect
  <2>3. last[i] = None
    BY <2>1, <2>2 DEF AliveOK, ListInv, PendingOK, Pending, Instance
  <2> HIDE DEF k, i
  <2> SUFFICES ASSUME NEW q \in LiveTrack, q \notin torn', NEW p \in 1..Len(list'[q]),
                      last[list'[q][p]] # None
               PROVE  mSeq[q] = IF cur = q /\ p <= Len(list'[q]) - Len(ahead')
                                THEN last[list'[q][p]] ELSE NextSeq(last[list'[q][p]])
    BY <2>1 DEF NoGap, NextSeq
  <2>4. q \notin torn
    BY <2>2
  <2>5. p \in 1..Len(list[q]) /\ list'[q][p] = list[q][p]
    <3>1. CASE q # k
      BY <3>1, <1>0, <2>2
    <3>2. CASE q = k
      <4>1. /\ Len(list'[k]) = Len(list[k]) + 1 /\ Len(list[k]) \in Nat
            /\ \A r \in 1..Len(list[k]) : list'[k][r] = list[k][r]
            /\ list'[k][Len(list[k]) + 1] = i
        BY <3>2, <1>0, <2>2
      <4>2. p \in 1..(Len(list[k]) + 1) /\ list'[k][p] # i
        BY <3>2, <4>1, <2>3
      <4>3. p # Len(list[k]) + 1
        BY <4>1, <4>2
      <4>4. p \in 1..Len(list[k])
        BY <4>1, <4>2, <4>3
      <4> QED
        BY <3>2, <4>1, <4>4
    <3> QED
      BY <3>1, <3>2
  <2>6. CASE cur # q
    BY <2>4, <2>5, <2>6 DEF NoGap
  <2>7. CASE cur = q
    <3>1. p <= Len(list'[q]) - Len(ahead') <=> p <= Len(list[q]) - Len(ahead)
      <4>1. CASE q # k
        <5>1. ahead' = ahead /\ list'[q] = list[q]
          BY <1>0, <1>2, <2>2, <2>7, <4>1, AddCases DEF k, i
        <5> QED
          BY <5>1
      <4>2. CASE q = k
        <5>1. /\ list'[k] = Append(list[k], i)
              /\ ahead' = IF ahead # <<>> THEN Append(ahead, i) ELSE ahead
              /\ EndOf(ahead, list[k])
          BY <1>0, <1>2, <2>2, <2>4, <2>7, <4>2
             DEF AddRtpInstance, Walking, OnList, TypeOK, Lists, k, i
        <5>2. CASE ahead = <<>>
          <6>1. Len(ahead) = 0 /\ Len(ahead') = 0
            BY <5>1, <5>2
          <6>2. p <= Len(list[q]) /\ p <= Len(list'[q])
            BY <1>0, <2>2, <2>5
          <6>3. Len(list[k]) \in Nat /\ Len(list'[k]) \in Nat
            <7>1. Len(list[k]) \in Nat
              BY <1>0, <2>2
            <7>2. Len(list'[k]) = Len(list[k]) + 1
              BY <2>2, <4>2
            <7> QED
              BY <7>1, <7>2
          <6> QED
            BY <4>2, <6>1, <6>2, <6>3
        <5>3. CASE ahead # <<>>
          <6>1. Len(Append(list[k], i)) - Len(Append(ahead, i)) = Len(list[k]) - Len(ahead)
            <7>1. list[k] \in Seq(Instance) /\ ahead \in Seq(Instance)
              BY <1>0, <2>2 DEF TypeOK, Lists
            <7>2. i \in Instance /\ EndOf(ahead, list[k])
              BY <2>2, <5>1
            <7> QED
              BY <7>1, <7>2, EndOfAppend
          <6> QED
            BY <4>2, <5>1, <5>3, <6>1
        <5> QED
          BY <5>2, <5>3
      <4> QED
        BY <4>1, <4>2
    <3> QED
      BY <2>4, <2>5, <2>7, <3>1 DEF NoGap
  <2> QED
    BY <2>6, <2>7
<1>3. ASSUME NEW k \in LiveTrack, StartPacket(k) PROVE NoGap'
  <2>1. /\ cur = None /\ cur' = k /\ ahead' = list[k]
        /\ UNCHANGED <<list, torn, mSeq, last>>
    BY <1>3 DEF StartPacket
  <2> SUFFICES ASSUME NEW q \in LiveTrack, q \notin torn, NEW p \in 1..Len(list[q]),
                      last[list[q][p]] # None
               PROVE  mSeq[q] = IF k = q /\ p <= Len(list[q]) - Len(list[k])
                                THEN last[list[q][p]] ELSE NextSeq(last[list[q][p]])
    BY <2>1 DEF NoGap, NextSeq
  <2>2. mSeq[q] = NextSeq(last[list[q][p]])
    <3>1. cur # q
      BY <1>0, <2>1
    <3> QED
      BY <3>1 DEF NoGap
  <2>3. ~(k = q /\ p <= Len(list[q]) - Len(list[k]))
    <3>1. Len(list[q]) \in Nat /\ p \in Nat \ {0}
      BY <1>0
    <3>2. Len(list[q]) - Len(list[q]) = 0
      BY <3>1
    <3>3. ~(p <= 0)
      BY <3>1
    <3> QED
      BY <3>2, <3>3
  <2> QED
    BY <2>2, <2>3
<1>4. CASE SkipInstance \/ SendToInstance
  <2> DEFINE i == Head(ahead)
  <2>1. /\ UNCHANGED <<list, torn, cur, mSeq>> /\ Advance
        /\ cur \in Lists /\ ahead # <<>>
        /\ \/ last' = last /\ i \notin mIsAlive
           \/ last' = [last EXCEPT ![i] = mSeq[cur]]
    BY <1>4, <1>0 DEF SkipInstance, SendToInstance, AtInstance, TypeOK
  <2>2. /\ Len(ahead) \in Nat \ {0} /\ Len(ahead') = Len(ahead) - 1
        /\ i = ahead[1] /\ i \in Instance
    BY <1>0, <2>1, AdvanceEffect
  <2>3. last'[i] = None \/ last'[i] = mSeq[cur]
    BY <1>0, <2>1, <2>2 DEF AliveOK, TypeOK
  <2>4. \A j \in Instance \ {i} : last'[j] = last[j]
    BY <1>0, <2>1, <2>2 DEF TypeOK
  <2> SUFFICES ASSUME NEW k \in LiveTrack, k \notin torn, NEW p \in 1..Len(list[k]),
                      last'[list[k][p]] # None
               PROVE  mSeq[k] = IF cur = k /\ p <= Len(list[k]) - Len(ahead')
                                THEN last'[list[k][p]] ELSE NextSeq(last'[list[k][p]])
    BY <2>1 DEF NoGap, NextSeq
  <2>5. cur = k => /\ i = list[k][Len(list[k]) - Len(ahead) + 1]
                   /\ Len(list[k]) - Len(ahead) + 1 \in 1..Len(list[k])
                   /\ Len(list[k]) - Len(ahead') = Len(list[k]) - Len(ahead) + 1
    BY <2>1, <1>0, EndOfTail DEF OnList, TypeOK, Lists, Advance
  <2>6. list[k][p] = i => k = cur /\ p = Len(list[k]) - Len(ahead) + 1
    <3>1. HAVE list[k][p] = i
    <3>2. k = cur
      <4>1. k = <<mRtpInstances[i].sess, i[2]>>
        BY <1>0, <3>1 DEF ListInv, RegisteredOnce, Lists
      <4>2. cur = <<mRtpInstances[i].sess, i[2]>>
        BY <1>0, <2>1, <2>2, RtspAssumption DEF OnTrack, Lists
      <4> QED
        BY <4>1, <4>2
    <3>3. /\ Len(list[k]) - Len(ahead) + 1 \in 1..Len(list[k])
          /\ list[k][p] = list[k][Len(list[k]) - Len(ahead) + 1]
      BY <2>5, <3>1, <3>2
    <3>4. k \in Lists /\ \A q, r \in 1..Len(list[k]) : list[k][q] = list[k][r] => q = r
      BY <1>0 DEF ListInv, RegisteredOnce, Lists
    <3> QED
      BY <3>2, <3>3, <3>4
  <2>7. CASE list[k][p] = i
    <3>1. p <= Len(list[k]) - Len(ahead')
      BY <2>5, <2>6, <2>7
    <3> QED
      BY <2>3, <2>6, <2>7, <3>1
  <2>8. CASE list[k][p] # i
    <3>1. last'[list[k][p]] = last[list[k][p]]
      BY <1>0, <2>4, <2>8
    <3>2. cur = k => p # Len(list[k]) - Len(ahead) + 1
      BY <2>5, <2>8
    <3>3. cur = k => (p <= Len(list[k]) - Len(ahead') <=> p <= Len(list[k]) - Len(ahead))
      <4>1. ASSUME NEW n \in Nat, NEW m \in Nat, p # n - m + 1
            PROVE  p <= n - m + 1 <=> p <= n - m
        BY <4>1
      <4> QED
        BY <1>0, <2>2, <2>5, <3>2, <4>1
    <3> QED
      BY <3>1, <3>3 DEF NoGap
  <2> QED
    BY <2>7, <2>8
<1>6. CASE EndPacket
  <2>1. /\ UNCHANGED <<list, torn, last>> /\ cur' = None
        /\ cur \in Lists /\ Len(ahead) = 0
        /\ mSeq' = [mSeq EXCEPT ![cur] = NextSeq(@)]
    BY <1>6, <1>0 DEF EndPacket, TypeOK
  <2>2. /\ mSeq'[cur] = NextSeq(mSeq[cur])
        /\ \A k \in Lists \ {cur} : mSeq'[k] = mSeq[k]
    BY <2>1, <1>0 DEF TypeOK, Lists
  <2> SUFFICES ASSUME NEW k \in LiveTrack, k \notin torn, NEW p \in 1..Len(list[k]),
                      last[list[k][p]] # None
               PROVE  NextSeq(last[list[k][p]]) = mSeq'[k]
    BY <1>0, <2>1 DEF NoGap, NextSeq
  <2>3. CASE k = cur
    BY <1>0, <2>1, <2>2, <2>3 DEF NoGap
  <2>4. CASE k # cur
    BY <1>0, <2>2, <2>4 DEF NoGap
  <2> QED
    BY <2>3, <2>4
<1> QED
  <2>1. ASSUME NEW c \in Conn, Client(c) PROVE NoGap'
    BY <1>1, <2>1 DEF Client, HandleNewConnection, ClientStalls, ClientReads, ClientClose,
                      Receive, ReceiveSetup
  <2>2. ASSUME NEW c \in Conn, Handler(c) PROVE NoGap'
    BY <1>1, <1>2, <2>2
       DEF Handler, AnswerOnly, NoAnswer, SetupRefused, SetupMulticast, SetupCreate,
           SetupReply, PlayReply, SetAlive
  <2>3. CASE UNCHANGED vars
    BY <1>1, <2>3 DEF vars
  <2> QED
    BY <1>3, <1>4, <1>6, <2>1, <2>2, <2>3 DEF Next, Walk

\* Once an instance of an intact list has been sent a packet, it is sent every
\* later packet of its sink exactly once, whatever the IO threads do while the
\* timer thread walks the list.
THEOREM NoSequenceGap == Spec => []NoGap
<1>1. Init => SeqInv
  BY RtspAssumption DEF Init, SeqInv, OnList, OnTrack, NoGap, Lists
<1>2. SeqInv => NoGap
  BY DEF SeqInv
<1> QED
  BY InitInv1, StepInv1, InitAlive, StepAlive, InitLists, StepLists, <1>1, <1>2,
     StepNoGap, PTL
     DEF Spec

-----------------------------------------------------------------------------
(* A SETUP request goes on only when its Transport header could be read, and *)
(* until it is handled the connection's fields are what it asked for.        *)

FieldsOK ==
  \A c \in Conn : pc[c] = "SETUP" =>
    /\ req[c].tr.kind \in {"tcp", "udp", "multicast"}
    /\ req[c].tr.kind = "tcp" => c \in mIsRtpOverTcp /\ mRtpChannel[c] = req[c].tr.val
    /\ req[c].tr.kind = "udp" => mPeerRtpPort[c] = req[c].tr.val

LEMMA InitFields == Init => FieldsOK
  BY DEF Init, FieldsOK

\* Only ReceiveSetup changes the fields, and it also is where a SETUP begins.
LEMMA StepFields == Inv1 /\ FieldsOK /\ [Next]_vars => FieldsOK'
<1> SUFFICES ASSUME Inv1, FieldsOK, [Next]_vars PROVE FieldsOK'
  OBVIOUS
<1>0. pc \in [Conn -> Location] /\ req \in [Conn -> SetupRequest \cup {None}]
      /\ mIsRtpOverTcp \subseteq Conn
      /\ mRtpChannel \in [Conn -> Channel \cup {None}]
      /\ mPeerRtpPort \in [Conn -> Port \cup {None}]
  BY DEF Inv1, TypeOK
<1>1. CASE UNCHANGED connVars /\ \A c \in Conn : pc'[c] = "SETUP" => pc[c] = "SETUP" /\ req'[c] = req[c]
  BY <1>1 DEF FieldsOK, connVars
<1>2. ASSUME NEW c \in Conn, NEW r \in Asked[c], ReceiveSetup(c, r) PROVE FieldsOK'
  <2>1. \A d \in Conn \ {c} : /\ pc'[d] = pc[d] /\ req'[d] = req[d]
                              /\ (d \in mIsRtpOverTcp)' <=> d \in mIsRtpOverTcp
                              /\ mRtpChannel'[d] = mRtpChannel[d]
                              /\ mPeerRtpPort'[d] = mPeerRtpPort[d]
    BY <1>0, <1>2 DEF ReceiveSetup, Goto
  <2>2. pc'[c] = "SETUP" =>
          /\ r.tr.kind \in {"tcp", "udp", "multicast"} /\ req'[c] = r
          /\ r.tr.kind = "tcp" => c \in mIsRtpOverTcp' /\ mRtpChannel'[c] = r.tr.val
          /\ r.tr.kind = "udp" => mPeerRtpPort'[c] = r.tr.val
    BY <1>0, <1>2 DEF ReceiveSetup, Reading, Goto
  <2> QED
    BY <2>1, <2>2 DEF FieldsOK
<1>3. ASSUME NEW c \in Conn, \/ HandleNewConnection(c) \/ ClientStalls(c)
                             \/ ClientReads(c) \/ ClientClose(c)
      PROVE  FieldsOK'
  BY <1>1, <1>3 DEF HandleNewConnection, ClientStalls, ClientReads, ClientClose
<1>4. ASSUME NEW c \in Conn, NEW m \in Command, Receive(c, m) PROVE FieldsOK'
  <2>1. m # "SETUP"
    BY RtspAssumption DEF Method
  <2> QED
    BY <1>0, <1>1, <1>4, <2>1 DEF Receive, Goto
<1>5. ASSUME NEW c \in Conn, AnswerOnly(c) \/ NoAnswer(c) \/ SetupRefused(c) PROVE FieldsOK'
  BY <1>0, <1>1, <1>5 DEF AnswerOnly, NoAnswer, SetupRefused, Done, Goto
<1>6. ASSUME NEW c \in Conn, SetupMulticast(c) \/ SetupCreate(c) PROVE FieldsOK'
  BY <1>0, <1>1, <1>6 DEF SetupMulticast, SetupCreate, NewInstance, Done, Goto
<1>7. ASSUME NEW c \in Conn, AddRtpInstance(c) \/ SetupReply(c) PROVE FieldsOK'
  BY <1>0, <1>1, <1>7 DEF AddRtpInstance, SetupReply, Done, Goto
<1>8. ASSUME NEW c \in Conn, PlayReply(c) PROVE FieldsOK'
  BY <1>0, <1>1, <1>8 DEF PlayReply, Goto
<1>9. ASSUME NEW c \in Conn, NEW t \in Track, SetAlive(c, t) PROVE FieldsOK'
  BY <1>0, <1>1, <1>9 DEF SetAlive, Goto
<1>10. ASSUME NEW k \in LiveTrack, StartPacket(k) PROVE FieldsOK'
  BY <1>1, <1>10 DEF StartPacket
<1>11. CASE SkipInstance \/ SendToInstance \/ EndPacket
  BY <1>1, <1>11 DEF SkipInstance, SendToInstance, EndPacket
<1>12. CASE UNCHANGED vars
  BY <1>1, <1>12 DEF vars
<1> QED
  BY <1>2, <1>3, <1>4, <1>5, <1>6, <1>7, <1>8, <1>9, <1>10, <1>11, <1>12
     DEF Next, Client, Handler, Walk

\* Only SetupCreate makes an instance, and it has the fields to go by.
LEMMA StepDestination ==
  ASSUME Inv1, FieldsOK, [Next]_vars, NEW i \in Instance,
         mRtpInstances[i] = None, mRtpInstances'[i] # None
  PROVE  LET want == req[i[1]].tr
             got  == mRtpInstances'[i]
         IN \/ want.kind = got.kind /\ want.val = got.dest
            \/ want.kind # "tcp" /\ got.kind = "tcp"
            \/ want.kind = "multicast" /\ got.kind = "udp"
<1>1. mRtpInstances' # mRtpInstances
  OBVIOUS
<1>2. PICK c \in Conn : SetupCreate(c)
  <2>1. ASSUME NEW c \in Conn, Client(c) PROVE FALSE
    BY <1>1, <2>1 DEF Client, HandleNewConnection, ClientStalls, ClientReads, ClientClose,
                      Receive, ReceiveSetup
  <2>2. ASSUME NEW c \in Conn, Handler(c) PROVE SetupCreate(c)
    <3>1. ~(AnswerOnly(c) \/ NoAnswer(c) \/ SetupRefused(c) \/ SetupMulticast(c))
      BY <1>1 DEF AnswerOnly, NoAnswer, SetupRefused, SetupMulticast
    <3>2. ~(AddRtpInstance(c) \/ SetupReply(c) \/ PlayReply(c))
      BY <1>1 DEF AddRtpInstance, SetupReply, PlayReply
    <3>3. \A t \in Track : ~SetAlive(c, t)
      BY <1>1 DEF SetAlive
    <3> QED
      BY <2>2, <3>1, <3>2, <3>3 DEF Handler
  <2>3. ASSUME NEW k \in LiveTrack, StartPacket(k) PROVE FALSE
    BY <1>1, <2>3 DEF StartPacket
  <2>4. ~Walk
    BY <1>1 DEF Walk, SkipInstance, SendToInstance, EndPacket
  <2>5. vars' # vars
    BY <1>1 DEF vars
  <2> QED
    BY <2>1, <2>2, <2>3, <2>4, <2>5 DEF Next
<1>3. /\ pc[c] = "SETUP" /\ mRtpInstances \in [Instance -> RtpRecord \cup {None}]
      /\ req[c].tr.kind \in {"tcp", "udp", "multicast"}
      /\ req[c].tr.kind = "tcp" => c \in mIsRtpOverTcp /\ mRtpChannel[c] = req[c].tr.val
      /\ req[c].tr.kind = "udp" => mPeerRtpPort[c] = req[c].tr.val
  BY <1>2 DEF SetupCreate, SetupMayProceed, FieldsOK, Inv1, TypeOK
<1>4. PICK k, d : /\ NewInstance(c, k, d)
                  /\ \/ c \in mIsRtpOverTcp /\ k = "tcp" /\ d = mRtpChannel[c]
                     \/ c \notin mIsRtpOverTcp /\ k = "udp" /\ d = mPeerRtpPort[c]
  BY <1>1, <1>2 DEF SetupCreate
<1>5. i = <<c, req[c].t>>
  BY <1>3, <1>4 DEF NewInstance
<1>6. mRtpInstances'[i].kind = k /\ mRtpInstances'[i].dest = d /\ i[1] = c
  BY <1>3, <1>4, <1>5 DEF NewInstance
<1> QED
  BY <1>3, <1>4, <1>6

\* Whatever a client sends and however often it changes its mind about the
\* transport, a new instance goes where the SETUP that created it asked; only
\* a request that is not for TCP can be given TCP, or UDP for multicast.
THEOREM DestinationAsked == Spec => DestinationFromRequest
<1>1. Inv1 /\ FieldsOK /\ [Next]_vars =>
        [\A i \in Instance :
           mRtpInstances[i] = None /\ mRtpInstances'[i] # None =>
             LET want == req[i[1]].tr
                 got  == mRtpInstances'[i]
             IN \/ want.kind = got.kind /\ want.val = got.dest
                \/ want.kind # "tcp" /\ got.kind = "tcp"
                \/ want.kind = "multicast" /\ got.kind = "udp"]_vars
  BY StepDestination
<1> QED
  BY InitInv1, StepInv1, InitFields, StepFields, <1>1, PTL
     DEF Spec, DestinationFromRequest
=============================================================================
