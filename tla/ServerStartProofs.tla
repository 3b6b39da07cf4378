-------------------------- MODULE ServerStartProofs --------------------------
(***************************************************************************)
(* Safety of ServerStart for any clients, descriptors, ports and attempts. *)
(***************************************************************************)
EXTENDS ServerStart, TLAPS

-----------------------------------------------------------------------------
(* Descriptors and their holders                                           *)

\* What DescriptorsAccounted says of any holders and any open descriptors.
Accounted(hd, op) ==
  /\ op = {hd[h] : h \in Holder} \ {None}
  /\ \A h \in Holder : hd[h] # None => \A k \in Holder : hd[k] = hd[h] => k = h

HD == [Holder -> Fd \cup {None}]

LEMMA GiveAccounted ==
  ASSUME NEW hd \in HD, NEW op, Accounted(hd, op), NEW h \in Holder, hd[h] = None,
         NEW f \in Fd, f \notin op
  PROVE  Accounted([hd EXCEPT ![h] = f], op \cup {f})
<1> DEFINE new == [hd EXCEPT ![h] = f]
<1>1. \A k \in Holder : new[k] = IF k = h THEN f ELSE hd[k]
  BY DEF HD
<1>2. f # None
  BY StartAssumption
<1>3. {new[k] : k \in Holder} \ {None} = op \cup {f}
  BY <1>1, <1>2 DEF Accounted
<1>4. \A k \in Holder : new[k] # None => \A l \in Holder : new[l] = new[k] => l = k
  BY <1>1, <1>2 DEF Accounted
<1> QED
  BY <1>3, <1>4 DEF Accounted

LEMMA CloseAccounted ==
  ASSUME NEW hd \in HD, NEW op, Accounted(hd, op), NEW hs \in SUBSET Holder
  PROVE  Accounted([h \in Holder |-> IF h \in hs THEN None ELSE hd[h]],
                   op \ {hd[h] : h \in hs})
<1> DEFINE new == [h \in Holder |-> IF h \in hs THEN None ELSE hd[h]]
<1>1. \A k \in Holder : new[k] = IF k \in hs THEN None ELSE hd[k]
  OBVIOUS
<1>2. {new[k] : k \in Holder} \ {None} = op \ {hd[h] : h \in hs}
  BY <1>1 DEF Accounted
<1>3. \A k \in Holder : new[k] # None => \A l \in Holder : new[l] = new[k] => l = k
  BY <1>1 DEF Accounted
<1> QED
  BY <1>2, <1>3 DEF Accounted

\* Handing a descriptor on to a holder that has none
Moved(hd, from, to) == [hd EXCEPT ![to] = hd[from], ![from] = None]

LEMMA MoveAccounted ==
  ASSUME NEW hd \in HD, NEW op, Accounted(hd, op),
         NEW from \in Holder, NEW to \in Holder, from # to, hd[to] = None
  PROVE  Accounted(Moved(hd, from, to), op)
<1> DEFINE new == Moved(hd, from, to)
<1>1. \A k \in Holder : new[k] = IF k = to THEN hd[from] ELSE IF k = from THEN None ELSE hd[k]
  BY DEF HD, Moved
<1>2. {new[k] : k \in Holder} \ {None} = op
  BY <1>1 DEF Accounted
<1>3. \A k \in Holder : new[k] # None => \A l \in Holder : new[l] = new[k] => l = k
  BY <1>1 DEF Accounted
<1> QED
  BY <1>2, <1>3 DEF Accounted

\* The holders of one connection
Socket == {"mSocket", "rtpInstance", "rtcpInstance", "lostRtp", "lostRtcp",
           "rtpSockfd", "rtcpSockfd", "localIp"}

LEMMA Slots == \A s \in {"mSocket", "rtpInstance", "rtcpInstance", "lostRtp", "lostRtcp",
                          "rtpSockfd", "rtcpSockfd", "localIp"} : s \in Socket
BY DEF Socket

LEMMA Holders ==
  /\ \A c \in Client, s \in Socket : <<s, c>> \in Holder
  /\ \A i \in MulticastSocket : <<"multicast", i>> \in Holder
BY DEF Holder, Socket

\* A unicast SETUP over UDP before its ports are announced, and all of one.
Setting(c) == io[c] \in {"rtpSocket", "rtcpSocket", "bindRtp", "bindRtcp"}
Granting(c) ==
  Setting(c) \/ io[c] \in {"storeRtp", "storeRtcp", "storeTcp", "setSessionId",
                           "addRtpInstance", "reply"}

\* When the holders of a connection hold something: what its two threads are at, and
\* what its arrays have.
HeldWhen(c) ==
  /\ held[<<"mSocket", c>>] # None => peer[c] = "in"
  /\ held[<<"lostRtp", c>>] # None => RtpCleared(c)
  /\ held[<<"lostRtcp", c>>] # None => RtcpCleared(c)
  /\ held[<<"localIp", c>>] # None => io[c] = "closeLocalIp"
  /\ held[<<"rtpSockfd", c>>] # None <=> io[c] \in {"rtcpSocket", "bindRtp", "bindRtcp",
                                                    "storeRtp"}
  /\ held[<<"rtcpSockfd", c>>] # None <=> io[c] \in {"bindRtp", "bindRtcp", "storeRtp",
                                                     "storeRtcp"}
  /\ held[<<"rtpInstance", c>>] # None <=> mRtpInstances[c] = "udp"
  /\ held[<<"rtcpInstance", c>>] # None <=> mRtcpInstances[c] = "udp"

EntriesWhen(c) ==
  /\ built[c] = "none" =>
       io[c] = "off" /\ mRtpInstances[c] = "null" /\ mRtcpInstances[c] = "null"
  /\ Setting(c) \/ io[c] \in {"storeRtp", "storeTcp"} =>
       mRtpInstances[c] = "null" /\ mRtcpInstances[c] = "null"
  /\ io[c] = "storeRtcp" => mRtcpInstances[c] = "null"

MulticastHeld == ~multicast => \A i \in MulticastSocket : held[<<"multicast", i>>] = None

\* Who waits is in the backlog once, and has no connection.
Waiting ==
  /\ \A i \in 1..Len(backlog) : peer[backlog[i]] = "waiting"
  /\ \A i, j \in 1..Len(backlog) : backlog[i] = backlog[j] => i = j

\* The inductive invariant about descriptors
KInv ==
  /\ TypeOK /\ DescriptorsAccounted /\ MulticastHeld /\ Waiting
  /\ \A c \in Client : HeldWhen(c) /\ EntriesWhen(c)

\* Instances are stored before the sockets they were made for can change ports, and
\* localPort is where these are bound.
Announced(c) ==
  /\ held[<<"rtpInstance", c>>] # None => port[held[<<"rtpInstance", c>>]] = localPort[c]
  /\ held[<<"rtcpInstance", c>>] # None => port[held[<<"rtcpInstance", c>>]] = localPort[c] + 1

Binding(c) ==
  /\ io[c] \in {"bindRtcp", "storeRtp"} => port[held[<<"rtpSockfd", c>>]] = localPort[c]
  /\ io[c] \in {"storeRtp", "storeRtcp"} => port[held[<<"rtcpSockfd", c>>]] = localPort[c] + 1

\* The inductive invariant about ports, beside KInv
Ports == \A c \in Client : Announced(c) /\ Binding(c)

\* Which branch a SETUP under way took.
Branch(c) ==
  /\ Setting(c) \/ io[c] \in {"storeRtp", "storeRtcp"} => c \notin overTcp
  /\ io[c] = "storeTcp" => c \in overTcp

\* An instance that was not stored early is there, and stays.
RtpThere(c) == RtpCleared(c) /\ mRtpInstances[c] \in {"udp", "tcp"}
BothThere(c) ==
  /\ RtpThere(c)
  /\ mRtpInstances[c] = "udp" => RtcpCleared(c) /\ mRtcpInstances[c] = "udp"

Storing(c) ==
  c \notin early =>
    /\ io[c] = "storeRtcp" => RtpThere(c)
    /\ io[c] \in {"setSessionId", "addRtpInstance", "reply"} => BothThere(c)
    /\ up /\ io[c] = "addRtpInstance" => c \notin trackLost
    /\ up /\ io[c] = "reply" => c \in listed
    /\ c \in granted => c \in listed /\ BothThere(c)

\* A SETUP that stores early began before the constructor was done.
BeginsBlind(c) ==
  /\ Granting(c) /\ ~Complete(c) => c \in blind
  /\ Granting(c) => c \notin granted
  /\ c \in early /\ (Granting(c) \/ c \in granted) => c \in blind

\* The inductive invariant about grants, beside KInv
Grants == \A c \in Client : Branch(c) /\ Storing(c) /\ BeginsBlind(c)

\* What a thread with a request is at
Copying(c) ==
  /\ io[c] \notin {"off", "read"} => sent[c] # "none"
  /\ io[c] \in {"fill", "copy"} => sent[c] = "DESCRIBE"
  /\ Granting(c) => sent[c] = "SETUP"
  /\ io[c] = "fill" => ip[c] # None
  /\ io[c] = "copy" => mSdp # None
  /\ answer[c] # None => mSdp # None

Alone(c) == \A d \in Client \ {c} : ~Generating(d)

\* A thread that met nobody is the only one that makes the description, or comes when
\* it is made.
Unraced(c) ==
  c \notin raced =>
    /\ Generating(c) => mSdp = None /\ Alone(c)
    /\ io[c] = "copy" \/ answer[c] # None => \A d \in Client : ~Generating(d)
    /\ answer[c] \in {None, mSdp}

\* The inductive invariant about the description, beside KInv
Sdp == \A c \in Client : Copying(c) /\ Unraced(c)

-----------------------------------------------------------------------------
(* Types                                                                   *)

LEMMA GiveKernel ==
  ASSUME KernelOK, NEW h \in Holder, NEW f \in Fd, Give(h, f)
  PROVE  KernelOK'
BY DEF KernelOK, Give

LEMMA CloseKernel ==
  ASSUME KernelOK, NEW hs, CloseAll(hs)
  PROVE  KernelOK'
BY DEF KernelOK, CloseAll

LEMMA MoveKernel ==
  ASSUME KernelOK, NEW c \in Client, NEW from \in Socket, NEW to \in Socket,
         Move(c, from, to), UNCHANGED <<open, port>>
  PROVE  KernelOK'
BY Holders DEF KernelOK, Move

LEMMA PortNat == \A p \in RtpPort \cup {0} : p \in Nat /\ p + 1 \in Nat
<1>1. \A p \in RtpPort : p \in Nat
  BY StartAssumption
<1> QED
  BY <1>1

\* What no IO thread changes
LEMMA IOLeaves ==
  ASSUME NEW c \in Client, IOThread(c)
  PROVE  UNCHANGED <<mainVars, peer, backlog, asked, acceptVars>>
BY ZenonT(60)
   DEF IOThread, ReadByBase, ReadByRaw, Describe, GetLocalIp, CloseLocalIp, Fill, CopySdp,
       SetupRefused, SetupMulticast, SetupUnicast, SetupOverTcp, Begin, SetsTrack, RtpSocket,
       RtcpSocket, BindRtp, BindRtcpFails, BindRtcp, StoreRtp, StoreRtcp, StoreTcp,
       SetSessionId, AddRtpInstance, SetupReply, ThreadOnly, Reads, Handles

LEMMA KernelType ==
  ASSUME TypeOK, NEW c \in Client, IOThread(c)
  PROVE  KernelOK'
<1> USE DEF TypeOK, kernelVars
<1>1. CASE GetLocalIp(c)
  BY <1>1, Holders, GiveKernel DEF GetLocalIp, IsLowest, Free, KernelOK, Socket
<1>2. CASE CloseLocalIp(c)
  BY <1>2, CloseKernel DEF CloseLocalIp
<1>3. CASE RtpSocket(c)
  BY <1>3, Holders, GiveKernel DEF RtpSocket, IsLowest, Free, KernelOK, Socket
<1>4. CASE RtcpSocket(c)
  BY <1>4, Holders, GiveKernel, CloseKernel DEF RtcpSocket, IsLowest, Free, Socket
<1>5. CASE BindRtp(c)
  <2>1. ASSUME NEW p \in RtpPort, UNCHANGED <<held, open>>,
               port' = [port EXCEPT ![held[<<"rtpSockfd", c>>]] = p]
        PROVE  KernelOK'
    BY <2>1, StartAssumption DEF KernelOK
  <2> QED
    BY <1>5, <2>1, CloseKernel DEF BindRtp, Retry
<1>6. CASE BindRtcpFails(c)
  BY <1>6, CloseKernel DEF BindRtcpFails, Retry
<1>7. CASE BindRtcp(c)
  <2>1. localPort[c] \in RtpPort \cup {0}
    BY DEF ThreadsOK
  <2>2. localPort[c] + 1 \in Nat
    BY <2>1, PortNat
  <2> QED
    BY <1>7, <2>2 DEF BindRtcp, KernelOK
<1>8. CASE StoreRtp(c) \/ StoreRtcp(c)
  BY <1>8, MoveKernel, Slots DEF StoreRtp, StoreRtcp
<1>9. CASE UNCHANGED kernelVars
  BY <1>9 DEF KernelOK
<1> QED
  BY <1>1, <1>2, <1>3, <1>4, <1>5, <1>6, <1>7, <1>8, <1>9
     DEF IOThread, ReadByBase, ReadByRaw, Describe, Fill, CopySdp, SetupRefused, SetupMulticast,
         SetupUnicast, SetupOverTcp, Begin, StoreTcp, SetSessionId, AddRtpInstance, SetupReply

LEMMA ThreadsType ==
  ASSUME TypeOK, NEW c \in Client, IOThread(c)
  PROVE  ThreadsOK'
<1> USE DEF TypeOK, ThreadsOK, Goto, Done, localVars, sdpVars
<1>1. CASE ReadByBase(c) \/ ReadByRaw(c)
  BY <1>1 DEF ReadByBase, ReadByRaw
<1>2. CASE Describe(c)
  BY <1>2 DEF Describe, Handles, Reads, Meet
<1>3. CASE GetLocalIp(c) \/ CloseLocalIp(c)
  BY <1>3 DEF GetLocalIp, CloseLocalIp, GotIp
<1>4. CASE Fill(c)
  BY <1>4 DEF Fill
<1>5. CASE CopySdp(c)
  BY <1>5 DEF CopySdp
<1>6. CASE SetupRefused(c) \/ SetupMulticast(c) \/ SetupUnicast(c) \/ SetupOverTcp(c)
  BY <1>6 DEF SetupRefused, SetupMulticast, SetupUnicast, SetupOverTcp, Begin
<1>7. CASE RtpSocket(c) \/ RtcpSocket(c)
  BY <1>7, StartAssumption DEF RtpSocket, RtcpSocket, SetupFails
<1>8. CASE BindRtp(c) \/ BindRtcpFails(c)
  BY <1>8, StartAssumption DEF BindRtp, BindRtcpFails, Retry, SetupFails
<1>9. CASE BindRtcp(c)
  BY <1>9, StartAssumption DEF BindRtcp
<1>10. CASE StoreRtp(c) \/ StoreRtcp(c) \/ StoreTcp(c)
  BY <1>10 DEF StoreRtp, StoreRtcp, StoreTcp
<1>11. CASE AddRtpInstance(c)
  BY <1>11 DEF AddRtpInstance
<1>12. CASE SetSessionId(c) \/ SetupReply(c)
  <2>1. up' \in BOOLEAN
    BY <1>12, Zenon DEF SetSessionId, SetupReply, Follows
  <2> QED
    BY <1>12, <2>1 DEF SetSessionId, SetupReply
<1> QED
  BY <1>1, <1>2, <1>3, <1>4, <1>5, <1>6, <1>7, <1>8, <1>9, <1>10, <1>11, <1>12 DEF IOThread

LEMMA EntriesType ==
  ASSUME TypeOK, NEW c \in Client, IOThread(c)
  PROVE  EntriesOK'
<1> USE DEF TypeOK, EntriesOK, entryVars, setupVars
<1>1. CASE SetupMulticast(c) \/ SetupUnicast(c) \/ SetupOverTcp(c)
  BY <1>1 DEF SetupMulticast, SetupUnicast, SetupOverTcp, Begin, SetsTrack
<1>2. CASE StoreRtp(c) \/ StoreRtcp(c) \/ StoreTcp(c)
  BY <1>2 DEF StoreRtp, StoreRtcp, StoreTcp, Store
<1>3. CASE AddRtpInstance(c)
  BY <1>3 DEF AddRtpInstance
<1>4. CASE SetupReply(c)
  BY <1>4 DEF SetupReply
<1>5. CASE UNCHANGED <<entryVars, setupVars>>
  BY <1>5
<1> QED
  BY <1>1, <1>2, <1>3, <1>4, <1>5
     DEF IOThread, NoSetup, ReadByBase, ReadByRaw, Describe, GetLocalIp, CloseLocalIp, Fill,
         CopySdp, SetupRefused, RtpSocket, RtcpSocket, BindRtp, BindRtcpFails, BindRtcp,
         SetSessionId

LEMMA TypeStep == TypeOK /\ [Next]_vars => TypeOK'
<1> SUFFICES ASSUME TypeOK, [Next]_vars PROVE TypeOK'
  OBVIOUS
<1> USE DEF TypeOK
<1> USE DEF kernelVars, mainVars, clientVars, acceptVars, localVars, sdpVars, entryVars, setupVars
<1>1. CASE StartMulticast
  <2>1. KernelOK'
    <3>1. PICK f \in [MulticastSocket -> Free] :
            /\ held' = [h \in Holder |-> IF h[1] = "multicast" THEN f[h[2]] ELSE held[h]]
            /\ open' = open \cup {f[i] : i \in MulticastSocket}
      BY <1>1 DEF StartMulticast
    <3>2. \A h \in Holder : h[1] = "multicast" => h[2] \in MulticastSocket
      BY DEF Holder
    <3>3. UNCHANGED port
      BY <1>1 DEF StartMulticast
    <3> QED
      BY <3>1, <3>2, <3>3 DEF KernelOK, Free
  <2>2. AcceptOK' /\ ThreadsOK' /\ EntriesOK'
    BY <1>1 DEF StartMulticast, AcceptOK, ThreadsOK, EntriesOK
  <2> QED
    BY <2>1, <2>2
<1>2. CASE Main
  BY <1>2 DEF Main, Listen, DoClient, KernelOK, AcceptOK, ThreadsOK, EntriesOK
<1>3. CASE AcceptClient
  <2>1. Head(backlog) \in Client /\ Tail(backlog) \in Seq(Client)
    BY <1>3 DEF AcceptClient, AcceptOK
  <2>2. KernelOK'
    BY <1>3, <2>1, Holders, GiveKernel DEF AcceptClient, IsLowest, Free, Socket
  <2>3. AcceptOK' /\ ThreadsOK' /\ EntriesOK'
    BY <1>3, <2>1 DEF AcceptClient, AcceptOK, ThreadsOK, EntriesOK
  <2> QED
    BY <2>2, <2>3
<1>4. ASSUME NEW from, NEW to \in {"base", "raw", "members", "half", "cleared", "ready", "known"},
             Build(from, to), UNCHANGED mConnections,
             UNCHANGED <<acc, fresh>> \/ (acc' = "accept" /\ fresh' = None)
      PROVE  AcceptOK' /\ fresh \in Client
  BY <1>4 DEF Build, AcceptOK
<1>5. CASE StartIO
  BY <1>4, <1>5 DEF StartIO, Build, KernelOK, ThreadsOK, EntriesOK
<1>6. CASE SetVirtualTable \/ InitMembers \/ GetSocketIp
  <2>1. UNCHANGED <<held, open, port, io, sent, localVars, sdpVars, setupVars, up>>
    BY <1>6 DEF SetVirtualTable, InitMembers, GetSocketIp, Build
  <2>2. EntriesOK'
    BY <1>4, <1>6 DEF SetVirtualTable, InitMembers, GetSocketIp, Build, EntriesOK
  <2>3. AcceptOK'
    BY <1>4, <1>6 DEF SetVirtualTable, InitMembers, GetSocketIp
  <2> QED
    BY <2>1, <2>2, <2>3 DEF KernelOK, ThreadsOK
<1>7. CASE ClearRtp \/ ClearRtcp
  <2>1. UNCHANGED <<open, port, io, sent, localVars, sdpVars, setupVars, up>>
    BY <1>7 DEF ClearRtp, ClearRtcp, Build
  <2>2. AcceptOK' /\ fresh \in Client
    BY <1>4, <1>7 DEF ClearRtp, ClearRtcp
  <2>3. KernelOK'
    BY <1>7, <2>1, <2>2, MoveKernel, Slots DEF ClearRtp, ClearRtcp
  <2>4. EntriesOK'
    BY <1>7, <2>1 DEF ClearRtp, ClearRtcp, EntriesOK
  <2> QED
    BY <2>1, <2>2, <2>3, <2>4 DEF ThreadsOK
<1>8. CASE Insert
  <2>1. mConnections' \in [Fd -> Client \cup {None}]
    BY <1>8 DEF Insert, Build, AcceptOK
  <2> QED
    BY <1>8, <2>1 DEF Insert, Build, KernelOK, AcceptOK, ThreadsOK, EntriesOK
<1>9. ASSUME NEW c \in Client, Connect(c) PROVE TypeOK'
  BY <1>9 DEF Connect, KernelOK, AcceptOK, ThreadsOK, EntriesOK
<1>10. ASSUME NEW c \in Client, NEW request \in {"DESCRIBE", "SETUP"}, Send(c, request)
       PROVE  TypeOK'
  BY <1>10, StartAssumption DEF Send, KernelOK, AcceptOK, ThreadsOK, EntriesOK
<1>11. ASSUME NEW c \in Client, IOThread(c) PROVE TypeOK'
  <2>1. AcceptOK'
    BY <1>11, IOLeaves DEF AcceptOK
  <2> QED
    BY <1>11, <2>1, KernelType, ThreadsType, EntriesType
<1>12. CASE WalkMeetsNull
  BY <1>12 DEF WalkMeetsNull, KernelOK, AcceptOK, ThreadsOK, EntriesOK
<1>13. CASE UNCHANGED vars
  BY <1>13 DEF vars, KernelOK, AcceptOK, ThreadsOK, EntriesOK
<1> QED
  BY <1>1, <1>2, <1>3, <1>5, <1>6, <1>7, <1>8, <1>9, <1>10, <1>11, <1>12, <1>13
     DEF Next, AcceptThread

-----------------------------------------------------------------------------
(* Descriptors                                                             *)

LEMMA AccountedIs == Accounted(held, open) <=> DescriptorsAccounted
BY DEF Accounted, DescriptorsAccounted

\* What the sockets that startMulticast opened and the other connections keep, and what
\* the holders of one connection have after a step.
MulticastSame ==
  \A i \in MulticastSocket : held'[<<"multicast", i>>] = held[<<"multicast", i>>]

LEMMA GiveSlots ==
  ASSUME KernelOK, NEW c \in Client, NEW s \in Socket, NEW f, Give(<<s, c>>, f)
  PROVE  /\ \A d \in Client, r \in Socket :
              held'[<<r, d>>] = IF r = s /\ d = c THEN f ELSE held[<<r, d>>]
         /\ MulticastSame
<1>1. \A h \in Holder : held'[h] = IF h = <<s, c>> THEN f ELSE held[h]
  BY DEF KernelOK, Give
<1>2. s # "multicast"
  BY DEF Socket
<1> QED
  BY <1>1, <1>2, Holders DEF MulticastSame

LEMMA CloseSlots ==
  ASSUME NEW c \in Client, NEW S \in SUBSET Socket, CloseAll({<<s, c>> : s \in S})
  PROVE  /\ \A d \in Client, r \in Socket :
              held'[<<r, d>>] = IF r \in S /\ d = c THEN None ELSE held[<<r, d>>]
         /\ MulticastSame
<1>1. \A h \in Holder : held'[h] = IF h \in {<<s, c>> : s \in S} THEN None ELSE held[h]
  BY DEF CloseAll
<1>2. "multicast" \notin S
  BY DEF Socket
<1> QED
  BY <1>1, <1>2, Holders DEF MulticastSame

LEMMA MoveSlots ==
  ASSUME KernelOK, NEW c \in Client, NEW from \in Socket, NEW to \in Socket, from # to,
         Move(c, from, to)
  PROVE  /\ \A d \in Client, r \in Socket : held'[<<r, d>>] =
              IF r = to /\ d = c THEN held[<<from, c>>]
              ELSE IF r = from /\ d = c THEN None ELSE held[<<r, d>>]
         /\ MulticastSame
<1>1. \A h \in Holder : held'[h] =
        IF h = <<from, c>> THEN None ELSE IF h = <<to, c>> THEN held[<<from, c>>] ELSE held[h]
  BY Holders DEF KernelOK, Move
<1>2. from # "multicast" /\ to # "multicast"
  BY DEF Socket
<1>3. \A d \in Client, r \in Socket : <<r, d>> \in Holder
  BY Holders
<1>4. MulticastSame
  BY <1>1, <1>2, Holders DEF MulticastSame
<1> QED
  BY <1>1, <1>3, <1>4

LEMMA GiveIsAccounted ==
  ASSUME TypeOK, DescriptorsAccounted, NEW c \in Client, NEW s \in Socket,
         held[<<s, c>>] = None, \E f \in Fd : IsLowest(f) /\ Give(<<s, c>>, f)
  PROVE  /\ DescriptorsAccounted' /\ held'[<<s, c>>] # None
         /\ \A d \in Client, r \in Socket :
              r # s \/ d # c => held'[<<r, d>>] = held[<<r, d>>]
         /\ MulticastSame
<1>1. PICK f \in Fd : IsLowest(f) /\ Give(<<s, c>>, f)
  OBVIOUS
<1>2. f \notin open /\ f # None
  BY <1>1, StartAssumption DEF IsLowest, Free
<1>3. held \in HD /\ <<s, c>> \in Holder
  BY Holders DEF TypeOK, KernelOK, HD
<1>4. Accounted([held EXCEPT ![<<s, c>>] = f], open \cup {f})
  BY <1>2, <1>3, AccountedIs, GiveAccounted
<1>5. DescriptorsAccounted'
  BY <1>1, <1>4 DEF Give, Accounted, DescriptorsAccounted
<1> QED
  BY <1>1, <1>2, <1>5, GiveSlots DEF TypeOK

LEMMA CloseIsAccounted ==
  ASSUME TypeOK, DescriptorsAccounted, NEW c \in Client, NEW S \in SUBSET Socket,
         CloseAll({<<s, c>> : s \in S})
  PROVE  /\ DescriptorsAccounted'
         /\ \A d \in Client, r \in Socket :
              held'[<<r, d>>] = IF r \in S /\ d = c THEN None ELSE held[<<r, d>>]
         /\ MulticastSame
<1>1. {<<s, c>> : s \in S} \in SUBSET Holder
  BY Holders
<1>2. held \in HD
  BY DEF TypeOK, KernelOK, HD
<1>3. Accounted(held', open')
  BY <1>1, <1>2, AccountedIs, CloseAccounted DEF CloseAll
<1>4. DescriptorsAccounted'
  BY <1>3 DEF Accounted, DescriptorsAccounted
<1> QED
  BY <1>4, CloseSlots

LEMMA MoveIsAccounted ==
  ASSUME TypeOK, DescriptorsAccounted, NEW c \in Client,
         NEW from \in Socket, NEW to \in Socket, from # to, held[<<to, c>>] = None,
         Move(c, from, to), UNCHANGED open
  PROVE  /\ DescriptorsAccounted'
         /\ \A d \in Client, r \in Socket : held'[<<r, d>>] =
              IF r = to /\ d = c THEN held[<<from, c>>]
              ELSE IF r = from /\ d = c THEN None ELSE held[<<r, d>>]
         /\ MulticastSame
<1>1. held \in HD /\ <<from, c>> \in Holder /\ <<to, c>> \in Holder /\ <<from, c>> # <<to, c>>
  BY Holders DEF TypeOK, KernelOK, HD
<1>2. held' = Moved(held, <<from, c>>, <<to, c>>)
  BY DEF Move, Moved
<1>3. Accounted(held', open)
  BY <1>1, <1>2, AccountedIs, MoveAccounted
<1>4. DescriptorsAccounted'
  BY <1>3 DEF Accounted, DescriptorsAccounted
<1> QED
  BY <1>4, MoveSlots DEF TypeOK

\* What the step of one thread leaves alone of another connection
SameIO(d) == io'[d] = io[d] /\ sent'[d] = sent[d]
SameLocals(d) == localPort'[d] = localPort[d] /\ ip'[d] = ip[d] /\ answer'[d] = answer[d]
SameEntries(d) ==
  /\ mRtpInstances'[d] = mRtpInstances[d] /\ mRtcpInstances'[d] = mRtcpInstances[d]
  /\ (d \in listed') = (d \in listed) /\ (d \in trackLost') = (d \in trackLost)
  /\ (d \in overTcp') = (d \in overTcp) /\ (d \in granted') = (d \in granted)
  /\ (d \in blind') = (d \in blind) /\ (d \in early') = (d \in early)
Same(d) == SameIO(d) /\ SameLocals(d) /\ SameEntries(d)

LEMMA IOFrame ==
  ASSUME TypeOK, NEW c \in Client, IOThread(c), NEW d \in Client, d # c
  PROVE  Same(d)
<1> USE DEF TypeOK, ThreadsOK, EntriesOK
<1>1. SameIO(d)
  <2>1. ASSUME NEW to, Goto(c, to) PROVE SameIO(d)
    BY <2>1 DEF Goto, SameIO
  <2>2. ASSUME Done(c) PROVE SameIO(d)
    BY <2>2 DEF Done, SameIO
  <2>3. (\E to : Goto(c, to)) \/ Done(c)
    BY ZenonT(60) DEF IOThread, ReadByBase, ReadByRaw, Describe, GetLocalIp, CloseLocalIp, GotIp,
         Fill, CopySdp, SetupRefused, SetupMulticast, SetupUnicast, SetupOverTcp, Begin,
         RtpSocket, RtcpSocket, BindRtp, BindRtcpFails, Retry, SetupFails, BindRtcp, StoreRtp,
         StoreRtcp, StoreTcp, SetSessionId, AddRtpInstance, SetupReply
  <2> QED
    BY <2>1, <2>2, <2>3
<1>2. SameLocals(d)
  <2> USE DEF localVars, sdpVars
  <2>1. CASE Describe(c) \/ CopySdp(c) \/ Fill(c)
    BY <2>1 DEF Describe, CopySdp, Fill, SameLocals
  <2>2. CASE GetLocalIp(c) \/ CloseLocalIp(c)
    BY <2>2 DEF GetLocalIp, CloseLocalIp, GotIp, SameLocals
  <2>3. CASE RtpSocket(c) \/ RtcpSocket(c)
    BY <2>3 DEF RtpSocket, RtcpSocket, SetupFails, SameLocals
  <2>4. CASE BindRtp(c) \/ BindRtcpFails(c)
    <3>1. UNCHANGED <<ip, answer>>
      BY <2>4 DEF BindRtp, BindRtcpFails
    <3>2. ASSUME NEW p, localPort' = [localPort EXCEPT ![c] = p]
          PROVE  localPort'[d] = localPort[d]
      BY <3>2
    <3>3. \E p : localPort' = [localPort EXCEPT ![c] = p]
      BY <2>4, Zenon DEF BindRtp, BindRtcpFails, Retry, SetupFails
    <3> QED
      BY <3>1, <3>2, <3>3 DEF SameLocals
  <2>5. CASE UNCHANGED <<localPort, ip, answer>>
    BY <2>5 DEF SameLocals
  <2> QED
    BY <2>1, <2>2, <2>3, <2>4, <2>5
       DEF IOThread, ReadByBase, ReadByRaw, SetupRefused, SetupMulticast, SetupUnicast,
           SetupOverTcp, Begin, BindRtcp, StoreRtp, StoreRtcp, StoreTcp, SetSessionId,
           AddRtpInstance, SetupReply
<1>3. SameEntries(d)
  <2> USE DEF entryVars, setupVars, SameEntries
  <2>1. CASE SetupMulticast(c) \/ SetupUnicast(c) \/ SetupOverTcp(c)
    BY <2>1 DEF SetupMulticast, SetupUnicast, SetupOverTcp, Begin, SetsTrack
  <2>2. CASE StoreRtp(c) \/ StoreRtcp(c) \/ StoreTcp(c)
    BY <2>2 DEF StoreRtp, StoreRtcp, StoreTcp, Store
  <2>3. CASE AddRtpInstance(c)
    BY <2>3, StartAssumption DEF AddRtpInstance
  <2>4. CASE SetupReply(c)
    BY <2>4 DEF SetupReply
  <2>5. CASE UNCHANGED <<entryVars, setupVars>>
    BY <2>5
  <2> QED
    BY <2>1, <2>2, <2>3, <2>4, <2>5
       DEF IOThread, NoSetup, ReadByBase, ReadByRaw, Describe, GetLocalIp, CloseLocalIp, Fill,
           CopySdp, SetupRefused, RtpSocket, RtcpSocket, BindRtp, BindRtcpFails, BindRtcp,
           SetSessionId
<1> QED
  BY <1>1, <1>2, <1>3 DEF Same

\* What keeps HeldWhen for a connection a step has nothing to do with
LEMMA HeldSame ==
  ASSUME NEW d \in Client, HeldWhen(d), EntriesWhen(d),
         \A r \in Socket : held'[<<r, d>>] = held[<<r, d>>],
         io'[d] = io[d], peer'[d] = peer[d], built'[d] = built[d],
         mRtpInstances'[d] = mRtpInstances[d], mRtcpInstances'[d] = mRtcpInstances[d]
  PROVE  HeldWhen(d)' /\ EntriesWhen(d)'
<1>1. /\ held'[<<"mSocket", d>>] = held[<<"mSocket", d>>]
      /\ held'[<<"lostRtp", d>>] = held[<<"lostRtp", d>>]
      /\ held'[<<"lostRtcp", d>>] = held[<<"lostRtcp", d>>]
      /\ held'[<<"rtpInstance", d>>] = held[<<"rtpInstance", d>>]
      /\ held'[<<"rtcpInstance", d>>] = held[<<"rtcpInstance", d>>]
  BY Slots
<1>2. /\ held'[<<"localIp", d>>] = held[<<"localIp", d>>]
      /\ held'[<<"rtpSockfd", d>>] = held[<<"rtpSockfd", d>>]
      /\ held'[<<"rtcpSockfd", d>>] = held[<<"rtcpSockfd", d>>]
  BY Slots
<1> QED
  BY <1>1, <1>2 DEF HeldWhen, EntriesWhen, Setting, RtpCleared, RtcpCleared

\* What a step of the IO thread of c has to show
OnlyOf(c) ==
  /\ DescriptorsAccounted' /\ HeldWhen(c)' /\ EntriesWhen(c)'
  /\ \A d \in Client \ {c}, r \in Socket : held'[<<r, d>>] = held[<<r, d>>]
  /\ MulticastSame

LEMMA KernelSame ==
  ASSUME KInv, NEW c \in Client, UNCHANGED <<held, open, peer, built>>,
         \/ UNCHANGED <<mRtpInstances, mRtcpInstances>>
         \/ io[c] = "storeTcp" /\ io'[c] = "setSessionId" /\ mRtpInstances'[c] = "tcp"
            /\ UNCHANGED mRtcpInstances,
         built[c] # "none" \/ io'[c] = io[c],
         \/ io'[c] = io[c]
         \/ io[c] = "bindRtp" /\ io'[c] = "bindRtcp"
         \/ io[c] = "bindRtcp" /\ io'[c] = "storeRtp"
         \/ /\ io[c] \in {"read", "getLocalIp", "fill", "copy", "rtpSocket", "setSessionId",
                          "addRtpInstance", "reply", "storeTcp"}
            /\ \/ io'[c] \in {"read", "getLocalIp", "fill", "copy", "setSessionId",
                              "addRtpInstance", "reply"}
               \/ io'[c] \in {"rtpSocket", "storeTcp"} /\ ~TrackInUse(c)
  PROVE  OnlyOf(c)
<1>1. HeldWhen(c) /\ EntriesWhen(c) /\ mRtpInstances[c] \in {"null", "garbage", "udp", "tcp"}
  BY DEF KInv, TypeOK, EntriesOK
<1>2. DescriptorsAccounted' /\ MulticastSame
  BY DEF KInv, DescriptorsAccounted, MulticastSame
<1>3. CASE UNCHANGED <<mRtpInstances, mRtcpInstances>>
  <2>1. HeldWhen(c)'
    BY <1>1, <1>3 DEF HeldWhen, RtpCleared, RtcpCleared
  <2>2. EntriesWhen(c)'
    BY <1>1, <1>3 DEF EntriesWhen, Setting, TrackInUse
  <2> QED
    BY <1>2, <2>1, <2>2 DEF OnlyOf
<1>4. CASE ~UNCHANGED <<mRtpInstances, mRtcpInstances>>
  <2>1. HeldWhen(c)'
    BY <1>1, <1>4 DEF HeldWhen, EntriesWhen, RtpCleared, RtcpCleared
  <2>2. EntriesWhen(c)'
    BY <1>1, <1>4 DEF EntriesWhen, Setting
  <2> QED
    BY <1>2, <2>1, <2>2 DEF OnlyOf
<1> QED
  BY <1>3, <1>4

LEMMA KernelGive ==
  ASSUME KInv, NEW c \in Client, UNCHANGED <<peer, built, mRtpInstances, mRtcpInstances>>,
         NEW s \in Socket, \E f \in Fd : IsLowest(f) /\ Give(<<s, c>>, f), built[c] # "none",
         \/ s = "localIp" /\ io[c] = "getLocalIp" /\ io'[c] = "closeLocalIp"
         \/ s = "rtpSockfd" /\ io[c] = "rtpSocket" /\ io'[c] = "rtcpSocket"
         \/ s = "rtcpSockfd" /\ io[c] = "rtcpSocket" /\ io'[c] = "bindRtp"
  PROVE  OnlyOf(c)
<1>1. HeldWhen(c) /\ EntriesWhen(c)
  BY DEF KInv
<1>2. held[<<s, c>>] = None
  BY <1>1 DEF HeldWhen
<1>3. /\ DescriptorsAccounted' /\ held'[<<s, c>>] # None
      /\ \A d \in Client, r \in Socket : r # s \/ d # c => held'[<<r, d>>] = held[<<r, d>>]
      /\ MulticastSame
  BY <1>2, GiveIsAccounted DEF KInv
<1>4. HeldWhen(c)'
  BY <1>1, <1>3, Slots DEF HeldWhen, RtpCleared, RtcpCleared
<1>5. EntriesWhen(c)'
  BY <1>1 DEF EntriesWhen, Setting
<1> QED
  BY <1>3, <1>4, <1>5 DEF OnlyOf

LEMMA KernelClose ==
  ASSUME KInv, NEW c \in Client, UNCHANGED <<peer, built, mRtpInstances, mRtcpInstances>>,
         NEW S \in SUBSET Socket, CloseAll({<<s, c>> : s \in S}), built[c] # "none",
         \/ S = {"localIp"} /\ io[c] = "closeLocalIp" /\ io'[c] \in {"fill", "read"}
         \/ S = {"rtpSockfd"} /\ io[c] = "rtcpSocket" /\ io'[c] = "read"
         \/ /\ S = {"rtpSockfd", "rtcpSockfd"} /\ io[c] \in {"bindRtp", "bindRtcp"}
            /\ io'[c] \in {"read", "rtpSocket"}
  PROVE  OnlyOf(c)
<1>1. HeldWhen(c) /\ EntriesWhen(c)
  BY DEF KInv
<1>2. /\ DescriptorsAccounted'
      /\ \A d \in Client, r \in Socket :
           held'[<<r, d>>] = IF r \in S /\ d = c THEN None ELSE held[<<r, d>>]
      /\ MulticastSame
  BY CloseIsAccounted DEF KInv
<1>3. \A r \in Socket : held'[<<r, c>>] = IF r \in S THEN None ELSE held[<<r, c>>]
  BY <1>2
<1>4. HeldWhen(c)'
  <2>1. CASE S = {"localIp"}
    BY <1>1, <1>3, <2>1, Slots DEF HeldWhen, RtpCleared, RtcpCleared
  <2>2. CASE S = {"rtpSockfd"}
    BY <1>1, <1>3, <2>2, Slots DEF HeldWhen, RtpCleared, RtcpCleared
  <2>3. CASE S = {"rtpSockfd", "rtcpSockfd"}
    BY <1>1, <1>3, <2>3, Slots DEF HeldWhen, RtpCleared, RtcpCleared
  <2> QED
    BY <2>1, <2>2, <2>3
<1>5. EntriesWhen(c)'
  BY <1>1 DEF EntriesWhen, Setting
<1> QED
  BY <1>2, <1>4, <1>5 DEF OnlyOf

LEMMA KernelIO ==
  ASSUME KInv, NEW c \in Client, IOThread(c)
  PROVE  OnlyOf(c)
<1> USE DEF kernelVars, entryVars
<1>1. UNCHANGED <<peer, built>>
  BY IOLeaves DEF acceptVars
<1>2. io \in [Client -> {"off", "read", "getLocalIp", "closeLocalIp", "fill", "copy",
                         "rtpSocket", "rtcpSocket", "bindRtp", "bindRtcp", "storeRtp",
                         "storeRtcp", "storeTcp", "setSessionId", "addRtpInstance", "reply"}]
  BY DEF KInv, TypeOK, ThreadsOK
<1>3. HeldWhen(c) /\ EntriesWhen(c)
  BY DEF KInv
<1>4. io[c] # "off" /\ built[c] # "none"
  <2>1. io[c] # "off"
    BY DEF IOThread, ReadByBase, ReadByRaw, Describe, GetLocalIp, CloseLocalIp, Fill, CopySdp,
       SetupRefused, SetupMulticast, SetupUnicast, SetupOverTcp, Begin, SetsTrack, RtpSocket,
       RtcpSocket, BindRtp, BindRtcpFails, BindRtcp, StoreRtp, StoreRtcp, StoreTcp,
       SetSessionId, AddRtpInstance, SetupReply, Handles, Reads
  <2> QED
    BY <1>3, <2>1 DEF EntriesWhen
<1>5. CASE GetLocalIp(c)
  <2>1. io[c] = "getLocalIp" /\ UNCHANGED <<mRtpInstances, mRtcpInstances>>
    BY <1>5 DEF GetLocalIp, NoSetup
  <2>2. CASE UNCHANGED kernelVars /\ \E address : GotIp(c, address)
    <3>1. io'[c] \in {"fill", "read"}
      BY <1>2, <2>2 DEF GotIp, Goto, Done
    <3> QED
      BY <1>1, <1>4, <2>1, <2>2, <3>1, KernelSame
  <2>3. CASE /\ \E f \in Fd : IsLowest(f) /\ Give(<<"localIp", c>>, f)
             /\ Goto(c, "closeLocalIp")
    <3>1. io'[c] = "closeLocalIp"
      BY <1>2, <2>3 DEF Goto
    <3> QED
      BY <1>1, <1>4, <2>1, <2>3, <3>1, KernelGive, Slots
  <2> QED
    BY <1>5, <2>2, <2>3 DEF GetLocalIp
<1>6. CASE CloseLocalIp(c)
  <2>1. io[c] = "closeLocalIp" /\ UNCHANGED <<mRtpInstances, mRtcpInstances>>
    BY <1>6 DEF CloseLocalIp, NoSetup
  <2>2. io'[c] \in {"fill", "read"}
    BY <1>2, <1>6 DEF CloseLocalIp, GotIp, Goto, Done
  <2> DEFINE S == {"localIp"}
  <2>3. S \subseteq Socket /\ {<<s, c>> : s \in S} = {<<"localIp", c>>}
    BY Slots
  <2>4. CloseAll({<<s, c>> : s \in S})
    BY <1>6, <2>3 DEF CloseLocalIp
  <2> QED
    BY <1>1, <1>4, <2>1, <2>2, <2>3, <2>4, KernelClose
<1>7. CASE RtpSocket(c)
  <2>1. io[c] = "rtpSocket" /\ UNCHANGED <<mRtpInstances, mRtcpInstances>>
    BY <1>7 DEF RtpSocket, NoSetup
  <2>2. CASE UNCHANGED kernelVars /\ SetupFails(c)
    <3>1. io'[c] = "read"
      BY <1>2, <2>2 DEF SetupFails, Done
    <3> QED
      BY <1>1, <1>4, <2>1, <2>2, <3>1, KernelSame
  <2>3. CASE /\ \E f \in Fd : IsLowest(f) /\ Give(<<"rtpSockfd", c>>, f)
             /\ Goto(c, "rtcpSocket")
    <3>1. io'[c] = "rtcpSocket"
      BY <1>2, <2>3 DEF Goto
    <3> QED
      BY <1>1, <1>4, <2>1, <2>3, <3>1, KernelGive, Slots
  <2> QED
    BY <1>7, <2>2, <2>3 DEF RtpSocket
<1>8. CASE RtcpSocket(c)
  <2>1. io[c] = "rtcpSocket" /\ UNCHANGED <<mRtpInstances, mRtcpInstances>>
    BY <1>8 DEF RtcpSocket, NoSetup
  <2>2. CASE CloseAll({<<"rtpSockfd", c>>}) /\ SetupFails(c)
    <3>1. io'[c] = "read"
      BY <1>2, <2>2 DEF SetupFails, Done
    <3> DEFINE S == {"rtpSockfd"}
    <3>2. S \subseteq Socket /\ {<<s, c>> : s \in S} = {<<"rtpSockfd", c>>}
      BY Slots
    <3>3. CloseAll({<<s, c>> : s \in S})
      BY <2>2, <3>2
    <3> QED
      BY <1>1, <1>4, <2>1, <3>1, <3>2, <3>3, KernelClose
  <2>3. CASE /\ \E f \in Fd : IsLowest(f) /\ Give(<<"rtcpSockfd", c>>, f)
             /\ Goto(c, "bindRtp")
    <3>1. io'[c] = "bindRtp"
      BY <1>2, <2>3 DEF Goto
    <3> QED
      BY <1>1, <1>4, <2>1, <2>3, <3>1, KernelGive, Slots
  <2> QED
    BY <1>8, <2>2, <2>3 DEF RtcpSocket
<1>9. CASE BindRtp(c) \/ BindRtcpFails(c)
  <2>1. io[c] \in {"bindRtp", "bindRtcp"} /\ UNCHANGED <<mRtpInstances, mRtcpInstances>>
    BY <1>9 DEF BindRtp, BindRtcpFails, NoSetup
  <2>2. CASE io[c] = "bindRtp" /\ UNCHANGED <<held, open>> /\ Goto(c, "bindRtcp")
    <3>1. io'[c] = "bindRtcp"
      BY <1>2, <2>2 DEF Goto
    <3> QED
      BY <1>1, <1>4, <2>1, <2>2, <3>1, KernelSame
  <2>3. CASE Retry(c)
    <3>1. io'[c] \in {"read", "rtpSocket"}
      BY <1>2, <2>3 DEF Retry, SetupFails, Done, Goto
    <3> DEFINE S == {"rtpSockfd", "rtcpSockfd"}
    <3>2. S \subseteq Socket /\ {<<s, c>> : s \in S} = {<<"rtpSockfd", c>>, <<"rtcpSockfd", c>>}
      BY Slots
    <3>3. CloseAll({<<s, c>> : s \in S})
      BY <2>3, <3>2 DEF Retry
    <3> QED
      BY <1>1, <1>4, <2>1, <3>1, <3>2, <3>3, KernelClose
  <2> QED
    BY <1>9, <2>2, <2>3, Zenon DEF BindRtp, BindRtcpFails
<1>10. CASE StoreRtp(c)
  <2>1. /\ io[c] = "storeRtp" /\ io'[c] = "storeRtcp"
        /\ mRtpInstances'[c] = "udp" /\ UNCHANGED <<mRtcpInstances, open>>
    BY <1>2, <1>10 DEF StoreRtp, Goto, KInv, TypeOK, EntriesOK
  <2>2. /\ held[<<"rtpInstance", c>>] = None
        /\ held[<<"rtpSockfd", c>>] # None /\ held[<<"rtcpSockfd", c>>] # None
    BY <1>3, <2>1 DEF HeldWhen, EntriesWhen
  <2>3. /\ DescriptorsAccounted'
        /\ \A d \in Client, r \in Socket : held'[<<r, d>>] =
             IF r = "rtpInstance" /\ d = c THEN held[<<"rtpSockfd", c>>]
             ELSE IF r = "rtpSockfd" /\ d = c THEN None ELSE held[<<r, d>>]
        /\ MulticastSame
    BY <1>10, <2>1, <2>2, MoveIsAccounted, Slots DEF StoreRtp, KInv
  <2>4. HeldWhen(c)'
    BY <1>1, <1>3, <2>1, <2>2, <2>3, Slots DEF HeldWhen, EntriesWhen, RtpCleared, RtcpCleared
  <2>5. EntriesWhen(c)'
    BY <1>1, <1>3, <1>4, <2>1 DEF EntriesWhen, Setting
  <2> QED
    BY <2>3, <2>4, <2>5 DEF OnlyOf
<1>11. CASE StoreRtcp(c)
  <2>1. /\ io[c] = "storeRtcp" /\ io'[c] = "setSessionId"
        /\ mRtcpInstances'[c] = "udp" /\ UNCHANGED <<mRtpInstances, open>>
    BY <1>2, <1>11 DEF StoreRtcp, Goto, KInv, TypeOK, EntriesOK
  <2>2. held[<<"rtcpInstance", c>>] = None /\ held[<<"rtcpSockfd", c>>] # None
    BY <1>3, <2>1 DEF HeldWhen, EntriesWhen
  <2>3. /\ DescriptorsAccounted'
        /\ \A d \in Client, r \in Socket : held'[<<r, d>>] =
             IF r = "rtcpInstance" /\ d = c THEN held[<<"rtcpSockfd", c>>]
             ELSE IF r = "rtcpSockfd" /\ d = c THEN None ELSE held[<<r, d>>]
        /\ MulticastSame
    BY <1>11, <2>1, <2>2, MoveIsAccounted, Slots DEF StoreRtcp, KInv
  <2>4. HeldWhen(c)'
    BY <1>1, <1>3, <2>1, <2>2, <2>3, Slots DEF HeldWhen, EntriesWhen, RtpCleared, RtcpCleared
  <2>5. EntriesWhen(c)'
    BY <1>1, <1>3, <1>4, <2>1 DEF EntriesWhen, Setting
  <2> QED
    BY <2>3, <2>4, <2>5 DEF OnlyOf
<1>12. CASE StoreTcp(c)
  <2>1. /\ io[c] = "storeTcp" /\ io'[c] = "setSessionId"
        /\ mRtpInstances'[c] = "tcp" /\ UNCHANGED <<mRtcpInstances, held, open>>
    BY <1>2, <1>12 DEF StoreTcp, Goto, KInv, TypeOK, EntriesOK
  <2> QED
    BY <1>1, <1>4, <2>1, KernelSame
<1>13. CASE BindRtcp(c)
  <2>1. /\ io[c] = "bindRtcp" /\ io'[c] = "storeRtp"
        /\ UNCHANGED <<mRtpInstances, mRtcpInstances, held, open>>
    BY <1>2, <1>13 DEF BindRtcp, Goto, NoSetup
  <2> QED
    BY <1>1, <1>4, <2>1, KernelSame
<1>14. CASE SetupUnicast(c) \/ SetupOverTcp(c)
  <2>1. /\ io[c] = "read" /\ io'[c] \in {"rtpSocket", "storeTcp"} /\ ~TrackInUse(c)
        /\ UNCHANGED <<mRtpInstances, mRtcpInstances, held, open>>
    BY <1>2, <1>14
       DEF SetupUnicast, SetupOverTcp, Begin, SetsTrack, Handles, Reads, Goto
  <2> QED
    BY <1>1, <1>4, <2>1, KernelSame
<1>15. CASE \/ ReadByBase(c) \/ ReadByRaw(c) \/ Describe(c) \/ Fill(c) \/ CopySdp(c)
            \/ SetupRefused(c) \/ SetupMulticast(c)
            \/ SetSessionId(c) \/ AddRtpInstance(c) \/ SetupReply(c)
  <2>1. UNCHANGED <<mRtpInstances, mRtcpInstances, held, open>>
    BY <1>15 DEF ReadByBase, ReadByRaw, Describe, Fill, CopySdp, SetupRefused, SetupMulticast,
       SetsTrack, SetSessionId, AddRtpInstance, SetupReply, NoSetup
  <2>2. io[c] \in {"read", "fill", "copy", "setSessionId", "addRtpInstance", "reply"}
    BY <1>15 DEF ReadByBase, ReadByRaw, Describe, Fill, CopySdp, SetupRefused, SetupMulticast,
       SetsTrack, SetSessionId, AddRtpInstance, SetupReply, Handles, Reads
  <2>3. io'[c] \in {"read", "getLocalIp", "copy", "addRtpInstance", "reply"}
    BY <1>2, <1>15 DEF ReadByBase, ReadByRaw, Describe, Fill, CopySdp, SetupRefused,
       SetupMulticast, SetSessionId, AddRtpInstance, SetupReply, Goto, Done
  <2> QED
    BY <1>1, <1>4, <2>1, <2>2, <2>3, KernelSame
<1> QED
  BY <1>5, <1>6, <1>7, <1>8, <1>9, <1>10, <1>11, <1>12, <1>13, <1>14, <1>15 DEF IOThread

\* The parts of the constructor that change no instance
LEMMA BuiltOnly ==
  ASSUME KInv, NEW d \in Client, HeldWhen(d), EntriesWhen(d),
         UNCHANGED <<held, io, peer, mRtpInstances, mRtcpInstances>>,
         \/ built'[d] = built[d]
         \/ built[d] # "none" /\ ~RtpCleared(d) /\ built'[d] # "none"
         \/ Complete(d)' /\ RtcpCleared(d)
  PROVE  HeldWhen(d)' /\ EntriesWhen(d)'
<1>1. HeldWhen(d)'
  BY DEF HeldWhen, RtpCleared, RtcpCleared, Complete
<1>2. EntriesWhen(d)'
  BY DEF EntriesWhen, Setting, Complete, RtpCleared, RtcpCleared
<1> QED
  BY <1>1, <1>2

LEMMA KernelStep == KInv /\ [Next]_vars => KInv'
<1> SUFFICES ASSUME KInv, [Next]_vars PROVE KInv'
  OBVIOUS
<1>0. TypeOK' /\ KernelOK
  BY TypeStep DEF KInv, TypeOK
<1> USE DEF kernelVars, mainVars, clientVars, acceptVars, localVars, sdpVars, entryVars, setupVars
<1>1. CASE StartMulticast
  <2>1. PICK f \in [MulticastSocket -> Free] :
          /\ \A i, j \in MulticastSocket : i < j => f[i] < f[j]
          /\ held' = [h \in Holder |-> IF h[1] = "multicast" THEN f[h[2]] ELSE held[h]]
          /\ open' = open \cup {f[i] : i \in MulticastSocket}
    BY <1>1 DEF StartMulticast
  <2>2. \A i, j \in MulticastSocket : f[i] = f[j] => i = j
    <3>1. \A i \in MulticastSocket : f[i] \in Nat /\ i \in Nat
      <4>1. \A i \in MulticastSocket : f[i] \in Nat
        BY StartAssumption DEF Free
      <4>2. \A i \in MulticastSocket : i \in Nat
        BY DEF MulticastSocket
      <4> QED
        BY <4>1, <4>2
    <3>2. SUFFICES ASSUME NEW i \in MulticastSocket, NEW j \in MulticastSocket, f[i] = f[j], i # j
                   PROVE  FALSE
      OBVIOUS
    <3>3. i < j \/ j < i
      BY <3>1, <3>2
    <3> QED
      BY <2>1, <3>1, <3>2, <3>3
  <2>3. \A h \in Holder : h[1] = "multicast" =>
          h[2] \in MulticastSocket /\ h = <<"multicast", h[2]>> /\ held[h] = None
    BY <1>1 DEF Holder, StartMulticast, KInv, MulticastHeld
  <2>4. \A i \in MulticastSocket : f[i] \notin open /\ f[i] # None
    BY StartAssumption DEF Free
  <2>5. \A h \in Holder : held'[h] = IF h[1] = "multicast" THEN f[h[2]] ELSE held[h]
    BY <2>1
  <2>6. open' = {held'[h] : h \in Holder} \ {None}
    <3>1. \A i \in MulticastSocket : held'[<<"multicast", i>>] = f[i]
      BY <2>5, Holders
    <3>2. \A h \in Holder : held[h] # None => held'[h] = held[h]
      BY <2>3, <2>5
    <3>3. ASSUME NEW x \in open' PROVE x \in {held'[h] : h \in Holder} \ {None}
      <4>1. CASE x \in open
        <5>1. PICK h \in Holder : held[h] = x /\ x # None
          BY <4>1 DEF KInv, DescriptorsAccounted
        <5> QED
          BY <5>1, <3>2
      <4>2. CASE x \notin open
        <5>1. PICK i \in MulticastSocket : x = f[i]
          BY <4>2, <2>1
        <5> QED
          BY <5>1, <2>4, <3>1, Holders
      <4> QED
        BY <4>1, <4>2
    <3>4. \A h \in Holder : held'[h] # None => held'[h] \in open'
      BY <2>1, <2>3, <2>5 DEF KInv, DescriptorsAccounted
    <3> QED
      BY <3>3, <3>4
  <2>7. ASSUME NEW h \in Holder, NEW k \in Holder, held'[h] # None, held'[h] = held'[k]
        PROVE  h = k
    <3>1. \A l \in Holder : held[l] # None => held[l] \in open
      BY DEF KInv, DescriptorsAccounted
    <3>2. CASE h[1] = "multicast" /\ k[1] = "multicast"
      BY <2>2, <2>3, <2>5, <2>7, <3>2
    <3>3. CASE h[1] # "multicast" /\ k[1] # "multicast"
      BY <2>5, <2>7, <3>3 DEF KInv, DescriptorsAccounted
    <3>4. CASE h[1] = "multicast" /\ k[1] # "multicast"
      BY <2>3, <2>4, <2>5, <2>7, <3>1, <3>4
    <3>5. CASE h[1] # "multicast" /\ k[1] = "multicast"
      BY <2>3, <2>4, <2>5, <2>7, <3>1, <3>5
    <3> QED
      BY <3>2, <3>3, <3>4, <3>5
  <2>8. ASSUME NEW c \in Client PROVE HeldWhen(c)' /\ EntriesWhen(c)'
    <3>1. \A s \in Socket : held'[<<s, c>>] = held[<<s, c>>]
      BY <2>5, Holders DEF Socket
    <3>2. UNCHANGED <<io, peer, built, mRtpInstances, mRtcpInstances>>
      BY <1>1 DEF StartMulticast
    <3> QED
      BY <3>1, <3>2, HeldSame DEF KInv
  <2>9. Waiting' /\ MulticastHeld'
    BY <1>1 DEF StartMulticast, KInv, Waiting, MulticastHeld
  <2> QED
    BY <1>0, <2>6, <2>7, <2>8, <2>9 DEF KInv, DescriptorsAccounted
<1>2. CASE AcceptClient
  <2> DEFINE c == Head(backlog)
  <2>1. /\ c \in Client /\ c = backlog[1] /\ backlog # <<>> /\ Len(backlog) \in Nat
        /\ Len(Tail(backlog)) = Len(backlog) - 1
        /\ \A i \in 1..Len(Tail(backlog)) : Tail(backlog)[i] = backlog[i + 1]
    BY <1>2 DEF AcceptClient, KInv, TypeOK, AcceptOK
  <2>2. peer[c] = "waiting"
    BY <2>1 DEF KInv, Waiting
  <2>3. held[<<"mSocket", c>>] = None
    BY <2>1, <2>2 DEF KInv, HeldWhen
  <2>4. /\ DescriptorsAccounted'
        /\ \A d \in Client, r \in Socket :
             r # "mSocket" \/ d # c => held'[<<r, d>>] = held[<<r, d>>]
        /\ MulticastSame
    <3>1. \E f \in Fd : IsLowest(f) /\ Give(<<"mSocket", c>>, f)
      BY <1>2 DEF AcceptClient
    <3> HIDE DEF c
    <3> QED
      BY <2>1, <2>3, <3>1, Slots, GiveIsAccounted DEF KInv
  <2>5. /\ peer' = [peer EXCEPT ![c] = "in"] /\ backlog' = Tail(backlog)
        /\ peer \in [Client -> {"away", "waiting", "in"}]
        /\ UNCHANGED <<multicast, io, built, mRtpInstances, mRtcpInstances>>
    BY <1>2 DEF AcceptClient, KInv, TypeOK, AcceptOK
  <2> HIDE DEF c
  <2>6. ASSUME NEW d \in Client PROVE HeldWhen(d)' /\ EntriesWhen(d)'
    <3>1. HeldWhen(d) /\ EntriesWhen(d)
      BY DEF KInv
    <3>2. CASE d # c
      BY <2>4, <2>5, <3>1, <3>2, HeldSame
    <3>3. CASE d = c
      <4>1. peer'[c] = "in"
        BY <2>1, <2>5
      <4> QED
        BY <2>4, <2>5, <3>1, <3>3, <4>1, Slots
           DEF HeldWhen, EntriesWhen, Setting, RtpCleared, RtcpCleared
    <3> QED
      BY <3>2, <3>3
  <2>7. MulticastHeld'
    BY <2>4, <2>5 DEF KInv, MulticastHeld, MulticastSame
  <2>8. Waiting'
    <3>1. \A i \in 1..Len(backlog') : i + 1 \in 1..Len(backlog) /\ backlog'[i] = backlog[i + 1]
      BY <2>1, <2>5
    <3>2. \A i \in 1..Len(backlog) : backlog[i] \in Client
      BY DEF KInv, TypeOK, AcceptOK
    <3>3. \A i \in 1..Len(backlog') : peer'[backlog'[i]] = "waiting"
      <4>1. SUFFICES ASSUME NEW i \in 1..Len(backlog') PROVE peer'[backlog'[i]] = "waiting"
        OBVIOUS
      <4>2. backlog[i + 1] # c
        BY <2>1, <3>1 DEF KInv, Waiting
      <4>3. peer[backlog[i + 1]] = "waiting"
        BY <3>1 DEF KInv, Waiting
      <4> QED
        BY <2>5, <3>1, <3>2, <4>2, <4>3
    <3>4. \A i, j \in 1..Len(backlog') : backlog'[i] = backlog'[j] => i = j
      BY <3>1 DEF KInv, Waiting
    <3> QED
      BY <3>3, <3>4 DEF Waiting
  <2> QED
    BY <1>0, <2>4, <2>6, <2>7, <2>8 DEF KInv
<1>3. CASE StartIO
  <2>1. /\ fresh \in Client /\ built[fresh] = "none" /\ built' = [built EXCEPT ![fresh] = "base"]
        /\ io' = [io EXCEPT ![fresh] = "read"]
        /\ UNCHANGED <<held, open, peer, backlog, multicast>>
    BY <1>3 DEF StartIO, Build, KInv, TypeOK, AcceptOK
  <2>2. PICK found \in {"null", "garbage"} :
          /\ mRtpInstances' = [mRtpInstances EXCEPT ![fresh] = found]
          /\ mRtcpInstances' = [mRtcpInstances EXCEPT ![fresh] = found]
    BY <1>3 DEF StartIO
  <2>3. ASSUME NEW d \in Client PROVE HeldWhen(d)' /\ EntriesWhen(d)'
    <3>1. HeldWhen(d) /\ EntriesWhen(d)
      BY DEF KInv
    <3>2. CASE d # fresh
      <4>1. /\ io'[d] = io[d] /\ built'[d] = built[d]
            /\ mRtpInstances'[d] = mRtpInstances[d] /\ mRtcpInstances'[d] = mRtcpInstances[d]
        BY <2>1, <2>2, <3>2 DEF KInv, TypeOK, AcceptOK, ThreadsOK, EntriesOK
      <4> QED
        BY <2>1, <3>1, <4>1, HeldSame
    <3>3. CASE d = fresh
      <4>1. /\ io'[d] = "read" /\ built'[d] = "base"
            /\ mRtpInstances'[d] = found /\ mRtcpInstances'[d] = found
        BY <2>1, <2>2, <3>3 DEF KInv, TypeOK, AcceptOK, ThreadsOK, EntriesOK
      <4>2. built[d] = "none"
        BY <2>1, <3>3
      <4>3. HeldWhen(d)'
        BY <2>1, <3>1, <4>1, <4>2 DEF HeldWhen, EntriesWhen, RtpCleared, RtcpCleared
      <4>4. EntriesWhen(d)'
        BY <4>1 DEF EntriesWhen, Setting
      <4> QED
        BY <4>3, <4>4
    <3> QED
      BY <3>2, <3>3
  <2> QED
    BY <1>0, <2>1, <2>3 DEF KInv, DescriptorsAccounted, MulticastHeld, Waiting
<1>4. CASE ClearRtp
  <2>1. /\ fresh \in Client /\ built[fresh] = "members"
        /\ built' = [built EXCEPT ![fresh] = "half"]
        /\ mRtpInstances' = [mRtpInstances EXCEPT ![fresh] = "null"]
        /\ Move(fresh, "rtpInstance", "lostRtp")
        /\ UNCHANGED <<mRtcpInstances, peer, backlog, io, multicast, open>>
    BY <1>4 DEF ClearRtp, Build, KInv, TypeOK, AcceptOK
  <2>2. held[<<"lostRtp", fresh>>] = None /\ held[<<"lostRtcp", fresh>>] = None
    BY <2>1 DEF KInv, HeldWhen, RtpCleared, RtcpCleared
  <2>3. /\ DescriptorsAccounted'
        /\ \A d \in Client, r \in Socket : held'[<<r, d>>] =
             IF r = "lostRtp" /\ d = fresh THEN held[<<"rtpInstance", fresh>>]
             ELSE IF r = "rtpInstance" /\ d = fresh THEN None ELSE held[<<r, d>>]
        /\ MulticastSame
    BY <2>1, <2>2, MoveIsAccounted, Slots DEF KInv
  <2>4. ASSUME NEW d \in Client PROVE HeldWhen(d)' /\ EntriesWhen(d)'
    <3>1. HeldWhen(d) /\ EntriesWhen(d)
      BY DEF KInv
    <3>2. CASE d # fresh
      <4>1. built'[d] = built[d] /\ mRtpInstances'[d] = mRtpInstances[d]
        BY <2>1, <3>2 DEF KInv, TypeOK, AcceptOK, EntriesOK
      <4> QED
        BY <2>1, <2>3, <3>1, <3>2, <4>1, HeldSame
    <3>3. CASE d = fresh
      <4>1. built'[d] = "half" /\ mRtpInstances'[d] = "null"
        BY <2>1, <3>3 DEF KInv, TypeOK, AcceptOK, EntriesOK
      <4>2. HeldWhen(d)'
        BY <2>1, <2>2, <2>3, <3>1, <3>3, <4>1, Slots DEF HeldWhen, RtpCleared, RtcpCleared
      <4>3. EntriesWhen(d)'
        BY <2>1, <3>1, <4>1 DEF EntriesWhen, Setting
      <4> QED
        BY <4>2, <4>3
    <3> QED
      BY <3>2, <3>3
  <2>5. MulticastHeld' /\ Waiting'
    BY <2>1, <2>3 DEF KInv, MulticastHeld, Waiting, MulticastSame
  <2> QED
    BY <1>0, <2>3, <2>4, <2>5 DEF KInv
<1>5. CASE ClearRtcp
  <2>1. /\ fresh \in Client /\ built[fresh] = "half"
        /\ built' = [built EXCEPT ![fresh] = "cleared"]
        /\ mRtcpInstances' = [mRtcpInstances EXCEPT ![fresh] = "null"]
        /\ Move(fresh, "rtcpInstance", "lostRtcp")
        /\ UNCHANGED <<mRtpInstances, peer, backlog, io, multicast, open>>
    BY <1>5 DEF ClearRtcp, Build, KInv, TypeOK, AcceptOK
  <2>2. held[<<"lostRtcp", fresh>>] = None
    BY <2>1 DEF KInv, HeldWhen, RtcpCleared
  <2>3. /\ DescriptorsAccounted'
        /\ \A d \in Client, r \in Socket : held'[<<r, d>>] =
             IF r = "lostRtcp" /\ d = fresh THEN held[<<"rtcpInstance", fresh>>]
             ELSE IF r = "rtcpInstance" /\ d = fresh THEN None ELSE held[<<r, d>>]
        /\ MulticastSame
    BY <2>1, <2>2, MoveIsAccounted, Slots DEF KInv
  <2>4. ASSUME NEW d \in Client PROVE HeldWhen(d)' /\ EntriesWhen(d)'
    <3>1. HeldWhen(d) /\ EntriesWhen(d)
      BY DEF KInv
    <3>2. CASE d # fresh
      <4>1. built'[d] = built[d] /\ mRtcpInstances'[d] = mRtcpInstances[d]
        BY <2>1, <3>2 DEF KInv, TypeOK, AcceptOK, EntriesOK
      <4> QED
        BY <2>1, <2>3, <3>1, <3>2, <4>1, HeldSame
    <3>3. CASE d = fresh
      <4>1. built'[d] = "cleared" /\ mRtcpInstances'[d] = "null"
        BY <2>1, <3>3 DEF KInv, TypeOK, AcceptOK, EntriesOK
      <4>2. HeldWhen(d)'
        BY <2>1, <2>2, <2>3, <3>1, <3>3, <4>1, Slots DEF HeldWhen, RtpCleared, RtcpCleared
      <4>3. EntriesWhen(d)'
        BY <2>1, <3>1, <4>1 DEF EntriesWhen, Setting
      <4> QED
        BY <4>2, <4>3
    <3> QED
      BY <3>2, <3>3
  <2>5. MulticastHeld' /\ Waiting'
    BY <2>1, <2>3 DEF KInv, MulticastHeld, Waiting, MulticastSame
  <2> QED
    BY <1>0, <2>3, <2>4, <2>5 DEF KInv
<1>6. CASE \/ Main \/ SetVirtualTable \/ InitMembers \/ GetSocketIp \/ Insert \/ WalkMeetsNull
           \/ UNCHANGED vars
           \/ \E c \in Client, request \in {"DESCRIBE", "SETUP"} : Send(c, request)
  <2>1. UNCHANGED <<held, open, io, peer, backlog, multicast, mRtpInstances, mRtcpInstances>>
    BY <1>6 DEF Main, Listen, DoClient, SetVirtualTable, InitMembers, GetSocketIp, Insert, Build,
                WalkMeetsNull, Send, vars
  <2>2. ASSUME NEW d \in Client
        PROVE  \/ built'[d] = built[d]
               \/ built[d] # "none" /\ ~RtpCleared(d) /\ built'[d] # "none"
               \/ Complete(d)' /\ RtcpCleared(d)
    <3>1. CASE UNCHANGED built
      BY <3>1
    <3>2. CASE ~UNCHANGED built
      BY <1>6, <3>2 DEF Main, Listen, DoClient, SetVirtualTable, InitMembers, GetSocketIp, Insert,
         Build, WalkMeetsNull, Send, vars, KInv, TypeOK, AcceptOK, RtpCleared, RtcpCleared, Complete
    <3> QED
      BY <3>1, <3>2
  <2>3. \A d \in Client : HeldWhen(d)' /\ EntriesWhen(d)'
    BY <2>1, <2>2, BuiltOnly DEF KInv
  <2> QED
    BY <1>0, <2>1, <2>3 DEF KInv, DescriptorsAccounted, MulticastHeld, Waiting
<1>7. ASSUME NEW c \in Client, Connect(c) PROVE KInv'
  <2>1. /\ peer[c] = "away" /\ peer' = [peer EXCEPT ![c] = "waiting"]
        /\ backlog' = Append(backlog, c)
        /\ UNCHANGED <<held, open, io, built, multicast, mRtpInstances, mRtcpInstances>>
    BY <1>7 DEF Connect
  <2>2. /\ backlog \in Seq(Client) /\ Len(backlog) \in Nat
        /\ peer \in [Client -> {"away", "waiting", "in"}]
    BY DEF KInv, TypeOK, AcceptOK
  <2>3. ASSUME NEW d \in Client PROVE HeldWhen(d)' /\ EntriesWhen(d)'
    BY <2>1, <2>2 DEF HeldWhen, EntriesWhen, Setting, RtpCleared, RtcpCleared, KInv
  <2>4. /\ Len(backlog') = Len(backlog) + 1 /\ backlog'[Len(backlog) + 1] = c
        /\ \A i \in 1..Len(backlog) : backlog'[i] = backlog[i] /\ backlog[i] \in Client
    BY <2>1, <2>2
  <2>5. \A i \in 1..Len(backlog) : backlog[i] # c
    BY <2>1 DEF KInv, Waiting
  <2>6. \A i \in 1..Len(backlog') : i \in 1..Len(backlog) \/ i = Len(backlog) + 1
    BY <2>2, <2>4
  <2>7. \A i \in 1..Len(backlog') : peer'[backlog'[i]] = "waiting"
    BY <2>1, <2>2, <2>4, <2>5, <2>6 DEF KInv, Waiting
  <2>8. \A i, j \in 1..Len(backlog') : backlog'[i] = backlog'[j] => i = j
    BY <2>4, <2>5, <2>6 DEF KInv, Waiting
  <2> QED
    BY <1>0, <2>1, <2>3, <2>7, <2>8 DEF KInv, DescriptorsAccounted, MulticastHeld, Waiting
<1>8. ASSUME NEW c \in Client, IOThread(c) PROVE KInv'
  <2>1. UNCHANGED <<peer, backlog, built, multicast>>
    BY <1>8, IOLeaves
  <2>2. OnlyOf(c)
    BY <1>8, KernelIO
  <2>3. ASSUME NEW d \in Client PROVE HeldWhen(d)' /\ EntriesWhen(d)'
    <3>1. CASE d = c
      BY <2>2, <3>1 DEF OnlyOf
    <3>2. CASE d # c
      <4>1. Same(d)
        BY <1>8, <3>2, IOFrame DEF KInv
      <4> QED
        BY <2>1, <2>2, <3>2, <4>1, HeldSame DEF KInv, OnlyOf, Same, SameIO, SameEntries
    <3> QED
      BY <3>1, <3>2
  <2> QED
    BY <1>0, <2>1, <2>2, <2>3 DEF KInv, OnlyOf, MulticastHeld, MulticastSame, Waiting
<1> QED
  BY <1>1, <1>2, <1>3, <1>4, <1>5, <1>6, <1>7, <1>8 DEF Next, AcceptThread

LEMMA InitKInv == Init => KInv
<1> SUFFICES ASSUME Init PROVE KInv
  OBVIOUS
<1>1. PICK rest \in Rest : \E f \in Fd \ rest :
        /\ open = rest \cup {f}
        /\ held = [h \in Holder |-> IF h = <<"listen", None>> THEN f
                                    ELSE IF h[1] = "rest" /\ h[2] \in rest THEN h[2] ELSE None]
  BY DEF Init
<1>2. PICK f \in Fd \ rest :
        /\ open = rest \cup {f}
        /\ held = [h \in Holder |-> IF h = <<"listen", None>> THEN f
                                    ELSE IF h[1] = "rest" /\ h[2] \in rest THEN h[2] ELSE None]
  BY <1>1
<1>3. rest \subseteq Fd /\ None \notin Fd
  BY StartAssumption
<1>4. KernelOK
  BY <1>2, <1>3 DEF Init, KernelOK
<1>5. AcceptOK
  <2>1. multicast \in BOOLEAN
    BY Zenon DEF Init
  <2> QED
    BY <2>1, StartAssumption DEF Init, AcceptOK
<1>6. ThreadsOK /\ EntriesOK
  <2>1. up \in BOOLEAN
    BY Zenon DEF Init
  <2>2. 0 \in 0..(MaxTries - 1)
    BY StartAssumption
  <2> QED
    BY <2>1, <2>2 DEF Init, ThreadsOK, EntriesOK
<1>7. /\ <<"listen", None>> \in Holder
      /\ \A g \in rest : <<"rest", g>> \in Holder
      /\ \A h \in Holder : h[1] = "rest" => h = <<"rest", h[2]>>
  BY DEF Holder
<1>8. /\ held[<<"listen", None>>] = f
      /\ \A h \in Holder : held[h] # None =>
           \/ h = <<"listen", None>> /\ held[h] = f
           \/ h = <<"rest", held[h]>> /\ held[h] \in rest
      /\ \A g \in rest : held[<<"rest", g>>] = g
  BY <1>2, <1>7
<1>9. DescriptorsAccounted
  <2>1. open = {held[h] : h \in Holder} \ {None}
    <3>1. ASSUME NEW x \in open PROVE x \in {held[h] : h \in Holder} \ {None}
      <4>1. x # None
        BY <1>2, <1>3
      <4>2. \E h \in Holder : held[h] = x
        <5>1. x = f \/ x \in rest
          BY <1>2
        <5> QED
          BY <5>1, <1>7, <1>8
      <4> QED
        BY <4>1, <4>2
    <3>2. \A h \in Holder : held[h] # None => held[h] \in open
      <4>1. \A g \in rest \cup {f} : g \in open
        BY <1>2
      <4> QED
        BY <1>8, <4>1
    <3> QED
      BY <3>1, <3>2
  <2>2. ASSUME NEW h \in Holder, held[h] # None, NEW k \in Holder, held[k] = held[h]
        PROVE  k = h
    BY <1>2, <1>8, <2>2
  <2> QED
    BY <2>1, <2>2 DEF DescriptorsAccounted
<1>10. \A c \in Client, s \in Socket : held[<<s, c>>] = None
  <2>1. \A c \in Client, s \in Socket : s # "listen" /\ s # "rest"
    BY DEF Socket
  <2> QED
    BY <1>2, <2>1, Holders
<1>11. \A c \in Client : HeldWhen(c) /\ EntriesWhen(c)
  BY <1>10, Slots DEF Init, HeldWhen, EntriesWhen, Setting
<1>12. MulticastHeld
  BY <1>2, Holders DEF MulticastHeld
<1>13. Waiting
  BY DEF Init, Waiting
<1> QED
  BY <1>4, <1>5, <1>6, <1>9, <1>11, <1>12, <1>13 DEF KInv, TypeOK

\* The kernel's descriptors and the program's variables agree, for any number of
\* clients, descriptors and attempts, and any multicast.
THEOREM NoDescriptorLost == Spec => []DescriptorsAccounted
BY InitKInv, KernelStep, PTL DEF Spec, KInv

-----------------------------------------------------------------------------
(* Instances and their ports                                               *)

\* A holder keeps its descriptor, and that its port.
Kept(r, d) ==
  /\ held'[<<r, d>>] = held[<<r, d>>]
  /\ held[<<r, d>>] # None => port'[held[<<r, d>>]] = port[held[<<r, d>>]]

LEMMA CloseKeeps ==
  ASSUME KInv, NEW c \in Client, NEW S \in SUBSET Socket, CloseAll({<<s, c>> : s \in S}),
         NEW d \in Client, NEW r \in Socket, d # c \/ r \notin S
  PROVE  Kept(r, d)
<1>1. held'[<<r, d>>] = held[<<r, d>>]
  <2>1. \A e \in Client, q \in Socket :
          held'[<<q, e>>] = IF q \in S /\ e = c THEN None ELSE held[<<q, e>>]
    BY CloseSlots, Zenon
  <2> QED
    BY <2>1
<1>2. ASSUME held[<<r, d>>] # None PROVE port'[held[<<r, d>>]] = port[held[<<r, d>>]]
  <2> DEFINE hs == {<<s, c>> : s \in S}
  <2>1. <<r, d>> \in Holder /\ hs \subseteq Holder /\ <<r, d>> \notin hs
    BY Holders
  <2>2. held[<<r, d>>] \notin {held[h] : h \in hs}
    BY <1>2, <2>1 DEF KInv, DescriptorsAccounted
  <2>3. held[<<r, d>>] \in Fd
    BY <1>2, <2>1 DEF KInv, TypeOK, KernelOK
  <2> QED
    BY <2>2, <2>3 DEF CloseAll
<1> QED
  BY <1>1, <1>2 DEF Kept

LEMMA GiveKeeps ==
  ASSUME KInv, NEW c \in Client, NEW s \in Socket, NEW f, Give(<<s, c>>, f),
         NEW d \in Client, NEW r \in Socket, d # c \/ r # s
  PROVE  Kept(r, d)
BY GiveSlots DEF KInv, TypeOK, Give, Kept

LEMMA MoveKeeps ==
  ASSUME KInv, NEW c \in Client, NEW from \in Socket, NEW to \in Socket, from # to,
         Move(c, from, to), UNCHANGED port,
         NEW d \in Client, NEW r \in Socket, d # c \/ r \notin {from, to}
  PROVE  Kept(r, d)
<1>1. KernelOK
  BY DEF KInv, TypeOK
<1>2. \A e \in Client, q \in Socket : held'[<<q, e>>] =
        IF q = to /\ e = c THEN held[<<from, c>>]
        ELSE IF q = from /\ e = c THEN None ELSE held[<<q, e>>]
  <2>1. /\ \A e \in Client, q \in Socket : held'[<<q, e>>] =
             IF q = to /\ e = c THEN held[<<from, c>>]
             ELSE IF q = from /\ e = c THEN None ELSE held[<<q, e>>]
        /\ MulticastSame
    BY <1>1, MoveSlots
  <2> QED
    BY <2>1, Zenon
<1>3. held'[<<r, d>>] = held[<<r, d>>]
  BY <1>2
<1> QED
  BY <1>3 DEF Kept

LEMMA BindKeeps ==
  ASSUME KInv, NEW c \in Client, NEW s \in Socket, NEW p, UNCHANGED held,
         port' = [port EXCEPT ![held[<<s, c>>]] = p],
         NEW d \in Client, NEW r \in Socket, d # c \/ r # s
  PROVE  Kept(r, d)
<1>1. <<r, d>> \in Holder /\ <<s, c>> \in Holder /\ <<r, d>> # <<s, c>>
  BY Holders
<1>2. held[<<r, d>>] # None => held[<<r, d>>] # held[<<s, c>>] /\ held[<<r, d>>] \in Fd
  BY <1>1 DEF KInv, TypeOK, KernelOK, DescriptorsAccounted
<1> QED
  BY <1>2 DEF Kept, KInv, TypeOK, KernelOK

LEMMA IOKeeps ==
  ASSUME KInv, NEW c \in Client, IOThread(c), NEW d \in Client, NEW r \in Socket,
         \/ d # c
         \/ r = "rtpInstance" /\ io[c] # "storeRtp"
         \/ r = "rtcpInstance" /\ io[c] # "storeRtcp"
  PROVE  Kept(r, d)
<1> USE DEF kernelVars
<1>1. ASSUME NEW s \in {"localIp", "rtpSockfd", "rtcpSockfd"}, NEW f, Give(<<s, c>>, f)
      PROVE  Kept(r, d)
  BY <1>1, GiveKeeps, Slots
<1>2. ASSUME CloseAll({<<"localIp", c>>}) PROVE Kept(r, d)
  <2> DEFINE S == {"localIp"}
  <2>1. {<<s, c>> : s \in S} = {<<"localIp", c>>}
    OBVIOUS
  <2>2. S \subseteq Socket /\ (d # c \/ r \notin S)
    BY Slots
  <2>3. CloseAll({<<s, c>> : s \in S})
    BY <1>2, <2>1
  <2> HIDE DEF S
  <2> QED
    BY <2>2, <2>3, CloseKeeps
<1>3. ASSUME CloseAll({<<"rtpSockfd", c>>}) PROVE Kept(r, d)
  <2> DEFINE S == {"rtpSockfd"}
  <2>1. {<<s, c>> : s \in S} = {<<"rtpSockfd", c>>}
    OBVIOUS
  <2>2. S \subseteq Socket /\ (d # c \/ r \notin S)
    BY Slots
  <2>3. CloseAll({<<s, c>> : s \in S})
    BY <1>3, <2>1
  <2> HIDE DEF S
  <2> QED
    BY <2>2, <2>3, CloseKeeps
<1>4. ASSUME Retry(c) PROVE Kept(r, d)
  <2> DEFINE S == {"rtpSockfd", "rtcpSockfd"}
  <2>1. {<<s, c>> : s \in S} = {<<"rtpSockfd", c>>, <<"rtcpSockfd", c>>}
    OBVIOUS
  <2>2. S \subseteq Socket /\ (d # c \/ r \notin S)
    BY Slots
  <2>3. CloseAll({<<s, c>> : s \in S})
    BY <1>4, <2>1 DEF Retry
  <2> HIDE DEF S
  <2> QED
    BY <2>2, <2>3, CloseKeeps
<1>5. ASSUME UNCHANGED kernelVars PROVE Kept(r, d)
  BY <1>5 DEF Kept
<1>6. ASSUME NEW s \in {"rtpSockfd", "rtcpSockfd"}, NEW p, UNCHANGED held,
             port' = [port EXCEPT ![held[<<s, c>>]] = p]
      PROVE  Kept(r, d)
  <2>1. s \in Socket /\ (d # c \/ r # s)
    BY Slots
  <2> QED
    BY <1>6, <2>1, BindKeeps
<1>7. CASE GetLocalIp(c)
  BY <1>1, <1>5, <1>7 DEF GetLocalIp
<1>8. CASE CloseLocalIp(c)
  BY <1>2, <1>8 DEF CloseLocalIp
<1>9. CASE RtpSocket(c) \/ RtcpSocket(c)
  BY <1>1, <1>3, <1>5, <1>9 DEF RtpSocket, RtcpSocket
<1>10. CASE BindRtcpFails(c)
  BY <1>4, <1>10 DEF BindRtcpFails
<1>11. CASE BindRtp(c)
  BY <1>4, <1>6, <1>11, Zenon DEF BindRtp
<1>12. CASE BindRtcp(c)
  BY <1>6, <1>12, Zenon DEF BindRtcp
<1>13. CASE StoreRtp(c)
  BY <1>13, MoveKeeps, Slots DEF StoreRtp
<1>14. CASE StoreRtcp(c)
  BY <1>14, MoveKeeps, Slots DEF StoreRtcp
<1> QED
  BY <1>5, <1>7, <1>8, <1>9, <1>10, <1>11, <1>12, <1>13, <1>14
     DEF IOThread, ReadByBase, ReadByRaw, Describe, Fill, CopySdp, SetupRefused, SetupMulticast,
         SetupUnicast, SetupOverTcp, Begin, StoreTcp, SetSessionId, AddRtpInstance, SetupReply

\* The steps of main, of the accept thread, of the clients and of the timer thread
Elsewhere == [Next]_vars /\ ~\E c \in Client : IOThread(c)

LEMMA ElsewhereSteps ==
  ASSUME Elsewhere
  PROVE  \/ StartMulticast \/ Main \/ AcceptClient \/ StartIO \/ SetVirtualTable \/ InitMembers
         \/ ClearRtp \/ ClearRtcp \/ GetSocketIp \/ Insert \/ WalkMeetsNull \/ UNCHANGED vars
         \/ \E c \in Client : Connect(c) \/ \E request \in {"DESCRIBE", "SETUP"} : Send(c, request)
BY DEF Elsewhere, Next, AcceptThread

LEMMA ElsewhereVars ==
  ASSUME Elsewhere
  PROVE  UNCHANGED <<localVars, sdpVars, setupVars, port>>
<1> USE DEF kernelVars, mainVars, clientVars, acceptVars, localVars, sdpVars, entryVars, setupVars
<1>1. CASE StartMulticast \/ Main \/ AcceptClient
  BY <1>1 DEF StartMulticast, Main, Listen, DoClient, AcceptClient, Give
<1>2. CASE \/ StartIO \/ SetVirtualTable \/ InitMembers \/ ClearRtp \/ ClearRtcp \/ GetSocketIp
           \/ Insert
  BY <1>2 DEF StartIO, SetVirtualTable, InitMembers, ClearRtp, ClearRtcp, GetSocketIp, Insert,
     Build
<1>3. CASE WalkMeetsNull \/ UNCHANGED vars
  BY <1>3 DEF WalkMeetsNull, vars
<1>4. CASE \E c \in Client : Connect(c) \/ \E request \in {"DESCRIBE", "SETUP"} : Send(c, request)
  BY <1>4 DEF Connect, Send
<1> QED
  BY <1>1, <1>2, <1>3, <1>4, ElsewhereSteps

LEMMA ElsewhereIO ==
  ASSUME KInv, Elsewhere, NEW d \in Client
  PROVE  io'[d] = io[d] \/ (io[d] = "off" /\ io'[d] = "read")
<1> USE DEF kernelVars, mainVars, clientVars, acceptVars, localVars, sdpVars, entryVars, setupVars
<1>1. CASE StartIO
  <2>1. EntriesWhen(d)
    BY DEF KInv
  <2> QED
    BY <1>1, <2>1 DEF StartIO, Build, EntriesWhen, KInv, TypeOK, ThreadsOK
<1>2. CASE ~StartIO
  BY <1>2, ElsewhereSteps DEF StartMulticast, Main, Listen, DoClient, AcceptClient,
     SetVirtualTable, InitMembers, ClearRtp, ClearRtcp, GetSocketIp, Insert, Build,
     WalkMeetsNull, vars, Connect, Send
<1> QED
  BY <1>1, <1>2

LEMMA ElsewhereKeeps ==
  ASSUME KInv, Elsewhere, NEW d \in Client
  PROVE  /\ Kept("rtpSockfd", d) /\ Kept("rtcpSockfd", d)
         /\ Kept("rtpInstance", d) \/ held'[<<"rtpInstance", d>>] = None
         /\ Kept("rtcpInstance", d) \/ held'[<<"rtcpInstance", d>>] = None
<1> USE DEF kernelVars, mainVars, clientVars, acceptVars, localVars, sdpVars, entryVars, setupVars
<1> DEFINE Gone(from) == /\ fresh \in Client /\ UNCHANGED port
                         /\ \A r \in Socket \ {from, "lostRtp", "lostRtcp"} : Kept(r, d)
                         /\ Kept(from, d) \/ held'[<<from, d>>] = None
<1>1. ASSUME NEW from \in {"rtpInstance", "rtcpInstance"}, NEW to \in {"lostRtp", "lostRtcp"},
             fresh \in Client, Move(fresh, from, to), UNCHANGED port
      PROVE  Gone(from)
  <2>1. from \in Socket /\ to \in Socket /\ from # to
    BY Slots
  <2>2. \A r \in Socket \ {from, to} : Kept(r, d)
    BY <1>1, <2>1, MoveKeeps
  <2>3. d # fresh => Kept(from, d)
    BY <1>1, <2>1, MoveKeeps
  <2>4. d = fresh => held'[<<from, d>>] = None
    BY <1>1, <2>1, MoveSlots DEF KInv, TypeOK
  <2> QED
    BY <1>1, <2>2, <2>3, <2>4
<1>2. CASE ClearRtp
  <2>1. Gone("rtpInstance")
    BY <1>1, <1>2 DEF ClearRtp, Build, KInv, TypeOK, AcceptOK
  <2> QED
    BY <2>1, Slots
<1>3. CASE ClearRtcp
  <2>1. Gone("rtcpInstance")
    BY <1>1, <1>3 DEF ClearRtcp, Build, KInv, TypeOK, AcceptOK
  <2> QED
    BY <2>1, Slots
<1>4. CASE AcceptClient
  <2>1. PICK f \in Fd : Give(<<"mSocket", Head(backlog)>>, f)
    BY <1>4 DEF AcceptClient
  <2>2. Head(backlog) \in Client
    BY <1>4 DEF AcceptClient, KInv, TypeOK, AcceptOK
  <2> QED
    BY <2>1, <2>2, GiveKeeps, Slots
<1>5. CASE StartMulticast
  <2>1. \A r \in Socket : held'[<<r, d>>] = held[<<r, d>>]
    BY <1>5, Holders DEF StartMulticast, Socket
  <2>2. UNCHANGED port
    BY <1>5 DEF StartMulticast
  <2> QED
    BY <2>1, <2>2, Slots DEF Kept
<1>6. CASE ~ClearRtp /\ ~ClearRtcp /\ ~AcceptClient /\ ~StartMulticast
  <2>1. UNCHANGED <<held, port>>
    BY <1>6, ElsewhereSteps DEF Main, Listen, DoClient, StartIO, SetVirtualTable, InitMembers,
       GetSocketIp, Insert, Build, WalkMeetsNull, vars, Connect, Send
  <2> QED
    BY <2>1 DEF Kept
<1> QED
  BY <1>2, <1>3, <1>4, <1>5, <1>6

\* localPort changes only while the sockets are looked for.
LEMMA LocalPorts ==
  ASSUME KInv, NEW c \in Client, IOThread(c), ~Setting(c)
  PROVE  localPort'[c] = localPort[c]
BY DEF localVars, Setting, IOThread, ReadByBase, ReadByRaw, Describe, GetLocalIp, CloseLocalIp,
   Fill, CopySdp, SetupRefused, SetupMulticast, SetupUnicast, SetupOverTcp, Begin, RtpSocket,
   RtcpSocket, BindRtp, BindRtcpFails, BindRtcp, StoreRtp, StoreRtcp, StoreTcp, SetSessionId,
   AddRtpInstance, SetupReply

LEMMA AnnouncedKept ==
  ASSUME NEW d \in Client, Announced(d), localPort'[d] = localPort[d],
         Kept("rtpInstance", d) \/ held'[<<"rtpInstance", d>>] = None,
         Kept("rtcpInstance", d) \/ held'[<<"rtcpInstance", d>>] = None
  PROVE  Announced(d)'
BY DEF Announced, Kept

LEMMA BindingKept ==
  ASSUME NEW d \in Client, HeldWhen(d), Binding(d), localPort'[d] = localPort[d],
         io'[d] = io[d], Kept("rtpSockfd", d), Kept("rtcpSockfd", d)
  PROVE  Binding(d)'
BY DEF Binding, Kept, HeldWhen

\* The SETUP that binds
LEMMA PortsOfSetup ==
  ASSUME KInv, KInv', NEW c \in Client, Announced(c), Binding(c), IOThread(c)
  PROVE  Announced(c)' /\ Binding(c)'
<1> USE DEF localVars, kernelVars
<1>1. /\ KernelOK /\ localPort \in [Client -> RtpPort \cup {0}]
      /\ io \in [Client -> {"off", "read", "getLocalIp", "closeLocalIp", "fill", "copy",
                            "rtpSocket", "rtcpSocket", "bindRtp", "bindRtcp", "storeRtp",
                            "storeRtcp", "storeTcp", "setSessionId", "addRtpInstance", "reply"}]
  BY DEF KInv, TypeOK, ThreadsOK
<1>2. HeldWhen(c) /\ EntriesWhen(c) /\ HeldWhen(c)'
  BY DEF KInv
<1>3. \A s \in Socket : held[<<s, c>>] # None => held[<<s, c>>] \in Fd
  BY <1>1, Holders DEF KernelOK
<1>4. ASSUME Setting(c) PROVE Announced(c)'
  <2>1. UNCHANGED <<mRtpInstances, mRtcpInstances>>
    BY <1>4 DEF Setting, IOThread, ReadByBase, ReadByRaw, Describe, GetLocalIp, CloseLocalIp,
       Fill, CopySdp, SetupRefused, SetupMulticast, SetupUnicast, SetupOverTcp, Begin, SetsTrack,
       RtpSocket, RtcpSocket, BindRtp, BindRtcpFails, BindRtcp, StoreRtp, StoreRtcp, StoreTcp,
       SetSessionId, AddRtpInstance, SetupReply, NoSetup, entryVars, Handles, Reads
  <2> QED
    BY <1>2, <1>4, <2>1 DEF EntriesWhen, HeldWhen, Announced
<1>5. CASE BindRtp(c)
  <2>1. io[c] = "bindRtp" /\ Setting(c)
    BY <1>5 DEF BindRtp, Setting
  <2>2. ASSUME NEW p \in RtpPort, io' = [io EXCEPT ![c] = "bindRtcp"],
               port' = [port EXCEPT ![held[<<"rtpSockfd", c>>]] = p],
               localPort' = [localPort EXCEPT ![c] = p], UNCHANGED held
        PROVE  Binding(c)'
    <3>1. held[<<"rtpSockfd", c>>] \in Fd
      BY <1>2, <1>3, <2>1, Slots DEF HeldWhen
    <3> QED
      BY <1>1, <2>2, <3>1 DEF Binding, KernelOK
  <2>3. ASSUME Retry(c) PROVE Binding(c)'
    BY <1>1, <2>3 DEF Retry, SetupFails, Goto, Done, Binding
  <2> QED
    BY <1>4, <1>5, <2>1, <2>2, <2>3, Zenon DEF BindRtp, Goto
<1>6. CASE BindRtcp(c)
  <2>1. io[c] = "bindRtcp" /\ io'[c] = "storeRtp" /\ Setting(c)
    BY <1>1, <1>6 DEF BindRtcp, Setting, Goto
  <2>2. /\ held[<<"rtpSockfd", c>>] # None
        /\ held[<<"rtcpSockfd", c>>] \in Fd /\ UNCHANGED <<held, localPort>>
        /\ port' = [port EXCEPT ![held[<<"rtcpSockfd", c>>]] = localPort[c] + 1]
    BY <1>2, <1>3, <1>6, <2>1, Slots DEF HeldWhen, BindRtcp
  <2>3. "rtpSockfd" \in Socket /\ "rtcpSockfd" \in Socket
    BY Slots
  <2>4. Kept("rtpSockfd", c)
    <3>1. <<"rtpSockfd", c>> \in Holder /\ <<"rtcpSockfd", c>> \in Holder
      BY <2>3, Holders
    <3>2. held[<<"rtpSockfd", c>>] # held[<<"rtcpSockfd", c>>]
      BY <2>2, <3>1 DEF KInv, DescriptorsAccounted
    <3>3. held[<<"rtpSockfd", c>>] \in Fd
      BY <1>3, <2>2, <2>3
    <3> QED
      BY <1>1, <2>2, <3>2, <3>3 DEF Kept, KernelOK
  <2> QED
    BY <1>1, <1>4, <2>1, <2>2, <2>4 DEF Binding, Kept, KernelOK
<1>7. CASE StoreRtp(c)
  <2>1. /\ io[c] = "storeRtp" /\ io'[c] = "storeRtcp" /\ UNCHANGED <<port, localPort>>
        /\ Move(c, "rtpSockfd", "rtpInstance")
    BY <1>1, <1>7 DEF StoreRtp, Goto
  <2>2. \A r \in Socket : held'[<<r, c>>] =
          IF r = "rtpInstance" THEN held[<<"rtpSockfd", c>>]
          ELSE IF r = "rtpSockfd" THEN None ELSE held[<<r, c>>]
    BY <1>1, <2>1, MoveSlots, Slots
  <2>3. /\ held'[<<"rtpInstance", c>>] = held[<<"rtpSockfd", c>>]
        /\ held'[<<"rtcpInstance", c>>] = held[<<"rtcpInstance", c>>]
        /\ held'[<<"rtcpSockfd", c>>] = held[<<"rtcpSockfd", c>>]
    BY <2>2, Slots
  <2> QED
    BY <2>1, <2>3 DEF Announced, Binding
<1>8. CASE StoreRtcp(c)
  <2>1. /\ io[c] = "storeRtcp" /\ io'[c] = "setSessionId" /\ UNCHANGED <<port, localPort>>
        /\ Move(c, "rtcpSockfd", "rtcpInstance")
    BY <1>1, <1>8 DEF StoreRtcp, Goto
  <2>2. \A r \in Socket : held'[<<r, c>>] =
          IF r = "rtcpInstance" THEN held[<<"rtcpSockfd", c>>]
          ELSE IF r = "rtcpSockfd" THEN None ELSE held[<<r, c>>]
    BY <1>1, <2>1, MoveSlots, Slots
  <2>3. /\ held'[<<"rtcpInstance", c>>] = held[<<"rtcpSockfd", c>>]
        /\ held'[<<"rtpInstance", c>>] = held[<<"rtpInstance", c>>]
    BY <2>2, Slots
  <2> QED
    BY <2>1, <2>3 DEF Announced, Binding
<1>9. CASE RtpSocket(c) \/ RtcpSocket(c) \/ BindRtcpFails(c)
  <2>1. Setting(c)
    BY <1>9 DEF RtpSocket, RtcpSocket, BindRtcpFails, Setting
  <2>2. io'[c] \in {"read", "rtpSocket", "rtcpSocket", "bindRtp"}
    BY <1>1, <1>9 DEF RtpSocket, RtcpSocket, BindRtcpFails, Retry, SetupFails, Goto, Done
  <2> QED
    BY <1>4, <2>1, <2>2 DEF Binding
<1>10. CASE ~\/ BindRtp(c) \/ BindRtcp(c) \/ StoreRtp(c) \/ StoreRtcp(c)
             \/ RtpSocket(c) \/ RtcpSocket(c) \/ BindRtcpFails(c)
  <2>1. /\ io[c] \notin {"rtpSocket", "rtcpSocket", "bindRtp", "bindRtcp", "storeRtp", "storeRtcp"}
        /\ io'[c] \notin {"bindRtcp", "storeRtp", "storeRtcp"}
    BY <1>1, <1>10 DEF IOThread, ReadByBase, ReadByRaw, Describe, GetLocalIp, CloseLocalIp,
       GotIp, Fill, CopySdp, SetupRefused, SetupMulticast, SetupUnicast, SetupOverTcp, Begin,
       SetsTrack, StoreTcp, SetSessionId, AddRtpInstance, SetupReply, Handles, Reads, Goto, Done
  <2>2. localPort'[c] = localPort[c]
    BY <2>1, LocalPorts DEF Setting
  <2>3. Kept("rtpInstance", c) /\ Kept("rtcpInstance", c)
    BY <2>1, IOKeeps, Slots
  <2> QED
    BY <2>1, <2>2, <2>3, AnnouncedKept DEF Binding
<1> QED
  BY <1>5, <1>6, <1>7, <1>8, <1>9, <1>10

LEMMA PortStep == KInv /\ Ports /\ [Next]_vars => Ports'
<1> SUFFICES ASSUME KInv, Ports, [Next]_vars, NEW d \in Client
             PROVE  Announced(d)' /\ Binding(d)'
  BY DEF Ports
<1>1. Announced(d) /\ Binding(d) /\ HeldWhen(d)
  BY DEF Ports, KInv
<1>2. KInv'
  BY KernelStep
<1>3. ASSUME NEW c \in Client, IOThread(c) PROVE Announced(d)' /\ Binding(d)'
  <2>1. CASE d = c
    BY <1>1, <1>2, <1>3, <2>1, PortsOfSetup
  <2>2. CASE d # c
    <3>1. io'[d] = io[d] /\ localPort'[d] = localPort[d]
      BY <1>3, <2>2, IOFrame DEF KInv, Same, SameIO, SameLocals
    <3>2. \A r \in Socket : Kept(r, d)
      BY <1>3, <2>2, IOKeeps
    <3> QED
      BY <1>1, <3>1, <3>2, Slots, AnnouncedKept, BindingKept
  <2> QED
    BY <2>1, <2>2
<1>4. CASE Elsewhere
  <2>1. localPort' = localPort
    BY <1>4, ElsewhereVars DEF localVars
  <2>2. Announced(d)'
    BY <1>1, <1>4, <2>1, ElsewhereKeeps, AnnouncedKept
  <2>3. io'[d] = io[d] \/ io'[d] = "read"
    BY <1>4, ElsewhereIO
  <2>4. Binding(d)'
    BY <1>1, <1>4, <2>1, <2>3, ElsewhereKeeps, BindingKept DEF Binding
  <2> QED
    BY <2>2, <2>4
<1> QED
  BY <1>3, <1>4 DEF Elsewhere

LEMMA InitPorts == Init => Ports
<1> SUFFICES ASSUME Init, NEW c \in Client PROVE Announced(c) /\ Binding(c)
  BY DEF Ports
<1>1. HeldWhen(c)
  BY InitKInv DEF KInv
<1> QED
  BY <1>1 DEF Init, HeldWhen, Announced, Binding

\* Every pair of ports announced to a client is the pair its sockets are bound to, for
\* any clients, ports, attempts and other programs.
THEOREM PortsHold == Spec => []AnnouncedPortsAreBound
<1>1. Ports => AnnouncedPortsAreBound
  BY DEF Ports, Announced, AnnouncedPortsAreBound
<1> QED
  BY <1>1, InitKInv, KernelStep, InitPorts, PortStep, PTL DEF Spec

-----------------------------------------------------------------------------
(* What a client was granted                                               *)

\* Of a connection that another thread works at, the entries that were cleared before
\* are not cleared again.
LEMMA EntriesStay ==
  ASSUME KInv, Elsewhere, NEW d \in Client
  PROVE  /\ Complete(d) => Complete(d)'
         /\ RtpThere(d) => RtpThere(d)'
         /\ BothThere(d) => BothThere(d)'
         /\ RtpThere(d) /\ d \in listed => d \in listed'
         /\ RtpThere(d) /\ d \notin trackLost => d \notin trackLost'
         /\ up' => up
<1> USE DEF mainVars, clientVars, acceptVars, localVars, sdpVars, entryVars, setupVars,
            RtpThere, BothThere, RtpCleared, RtcpCleared, Complete
<1>1. /\ built \in [Client -> {"none", "base", "raw", "members", "half", "cleared", "ready",
                               "known"}]
      /\ mRtpInstances \in [Client -> {"null", "garbage", "udp", "tcp"}]
      /\ mRtcpInstances \in [Client -> {"null", "garbage", "udp"}]
  BY DEF KInv, TypeOK, AcceptOK, EntriesOK
<1>2. CASE StartIO \/ SetVirtualTable \/ InitMembers
  BY <1>1, <1>2 DEF StartIO, SetVirtualTable, InitMembers, Build
<1>3. CASE ClearRtp \/ ClearRtcp
  BY <1>1, <1>3 DEF ClearRtp, ClearRtcp, Build
<1>4. CASE GetSocketIp \/ Insert
  BY <1>1, <1>4 DEF GetSocketIp, Insert, Build
<1>5. CASE WalkMeetsNull
  BY <1>5 DEF WalkMeetsNull
<1>6. CASE UNCHANGED <<built, entryVars, up>>
  BY <1>6
<1> QED
  BY <1>2, <1>3, <1>4, <1>5, <1>6, ElsewhereSteps
     DEF StartMulticast, Main, Listen, DoClient, AcceptClient, Connect, Send, vars

\* The SETUP itself
LEMMA GrantsOfSetup ==
  ASSUME KInv, NEW c \in Client, Branch(c), Storing(c), BeginsBlind(c), IOThread(c)
  PROVE  Branch(c)' /\ Storing(c)' /\ BeginsBlind(c)'
<1> USE DEF entryVars, setupVars, Branch, Storing, BeginsBlind, Granting, Setting,
            RtpThere, BothThere, RtpCleared, RtcpCleared, Complete
<1>1. /\ built' = built /\ up
      /\ io \in [Client -> {"off", "read", "getLocalIp", "closeLocalIp", "fill", "copy",
                            "rtpSocket", "rtcpSocket", "bindRtp", "bindRtcp", "storeRtp",
                            "storeRtcp", "storeTcp", "setSessionId", "addRtpInstance", "reply"}]
      /\ mRtpInstances \in [Client -> {"null", "garbage", "udp", "tcp"}]
      /\ mRtcpInstances \in [Client -> {"null", "garbage", "udp"}]
  <2>1. up
    BY DEF IOThread, ReadByBase, ReadByRaw, Describe, GetLocalIp, CloseLocalIp, Fill, CopySdp,
       SetupRefused, SetupMulticast, SetupUnicast, SetupOverTcp, Begin, SetsTrack, RtpSocket,
       RtcpSocket, BindRtp, BindRtcpFails, BindRtcp, StoreRtp, StoreRtcp, StoreTcp,
       SetSessionId, AddRtpInstance, SetupReply, Handles, Reads
  <2> QED
    BY <2>1, IOLeaves DEF acceptVars, KInv, TypeOK, ThreadsOK, EntriesOK
<1>2. CASE SetupUnicast(c) \/ SetupOverTcp(c)
  <2>1. io'[c] \in {"rtpSocket", "storeTcp"} /\ c \notin granted' /\ c \notin early'
    BY <1>1, <1>2 DEF SetupUnicast, SetupOverTcp, Begin, Goto
  <2>2. /\ io'[c] = "rtpSocket" => c \notin overTcp'
        /\ io'[c] = "storeTcp" => c \in overTcp'
        /\ ~Complete(c) => c \in blind'
    BY <1>1, <1>2 DEF SetupUnicast, SetupOverTcp, Begin, Goto
  <2> QED
    BY <1>1, <2>1, <2>2
<1>3. CASE RtpSocket(c) \/ RtcpSocket(c) \/ BindRtp(c) \/ BindRtcpFails(c) \/ BindRtcp(c)
  <2>1. Setting(c) /\ UNCHANGED <<entryVars, setupVars>>
    BY <1>3 DEF RtpSocket, RtcpSocket, BindRtp, BindRtcpFails, BindRtcp, NoSetup
  <2>2. io'[c] \in {"read", "rtpSocket", "rtcpSocket", "bindRtp", "bindRtcp", "storeRtp"}
    BY <1>1, <1>3 DEF RtpSocket, RtcpSocket, BindRtp, BindRtcpFails, BindRtcp, Retry, SetupFails,
       Goto, Done
  <2> QED
    BY <1>1, <2>1, <2>2
<1>4. CASE StoreRtp(c)
  <2>1. /\ io[c] = "storeRtp" /\ io'[c] = "storeRtcp" /\ mRtpInstances'[c] = "udp"
        /\ UNCHANGED <<overTcp, granted, blind>>
        /\ early' = IF RtpCleared(c) THEN early ELSE early \cup {c}
    BY <1>1, <1>4 DEF StoreRtp, Goto, Store
  <2> QED
    BY <1>1, <2>1
<1>5. CASE StoreRtcp(c)
  <2>1. /\ io[c] = "storeRtcp" /\ io'[c] = "setSessionId" /\ mRtcpInstances'[c] = "udp"
        /\ UNCHANGED <<overTcp, granted, blind, mRtpInstances>>
        /\ early' = IF RtcpCleared(c) THEN early ELSE early \cup {c}
    BY <1>1, <1>5 DEF StoreRtcp, Goto, Store
  <2> QED
    BY <1>1, <2>1
<1>6. CASE StoreTcp(c)
  <2>1. /\ io[c] = "storeTcp" /\ io'[c] = "setSessionId" /\ mRtpInstances'[c] = "tcp"
        /\ UNCHANGED <<overTcp, granted, blind>>
        /\ early' = IF RtpCleared(c) THEN early ELSE early \cup {c}
    BY <1>1, <1>6 DEF StoreTcp, Goto, Store
  <2> QED
    BY <1>1, <2>1
<1>7. CASE SetSessionId(c)
  <2>1. /\ io[c] = "setSessionId" /\ io'[c] = "addRtpInstance"
        /\ UNCHANGED <<entryVars, setupVars>> /\ (up' => c \notin trackLost)
    BY <1>1, <1>7, Zenon DEF SetSessionId, Goto, NoSetup, Follows, KInv, TypeOK, ThreadsOK
  <2> QED
    BY <1>1, <2>1
<1>8. CASE AddRtpInstance(c)
  <2>1. /\ io[c] = "addRtpInstance" /\ io'[c] = "reply" /\ up' = up
        /\ UNCHANGED <<mRtpInstances, mRtcpInstances, setupVars>>
    BY <1>1, <1>8 DEF AddRtpInstance, Goto
  <2>2. c \notin trackLost /\ mRtpInstances[c] # "null" => c \in listed'
    BY <1>8 DEF AddRtpInstance
  <2> QED
    BY <1>1, <2>1, <2>2
<1>9. CASE SetupReply(c)
  <2>1. /\ io[c] = "reply" /\ io'[c] = "read"
        /\ UNCHANGED <<entryVars, overTcp, blind, early>>
    BY <1>1, <1>9 DEF SetupReply, Done
  <2> QED
    BY <1>1, <2>1
<1>10. CASE \/ ReadByBase(c) \/ ReadByRaw(c) \/ Describe(c) \/ GetLocalIp(c)
            \/ CloseLocalIp(c) \/ Fill(c) \/ CopySdp(c) \/ SetupRefused(c) \/ SetupMulticast(c)
  <2>1. UNCHANGED <<mRtpInstances, mRtcpInstances, listed, setupVars>>
    BY <1>10 DEF ReadByBase, ReadByRaw, Describe, GetLocalIp, CloseLocalIp, Fill, CopySdp,
       SetupRefused, SetupMulticast, SetsTrack, NoSetup
  <2>2. io'[c] \in {"read", "getLocalIp", "closeLocalIp", "fill", "copy"}
    BY <1>1, <1>10 DEF ReadByBase, ReadByRaw, Describe, GetLocalIp, CloseLocalIp, GotIp, Fill,
       CopySdp, SetupRefused, SetupMulticast, Goto, Done
  <2> QED
    BY <1>1, <2>1, <2>2
<1> QED
  BY <1>2, <1>3, <1>4, <1>5, <1>6, <1>7, <1>8, <1>9, <1>10 DEF IOThread

LEMMA GrantStep == KInv /\ Grants /\ [Next]_vars => Grants'
<1> SUFFICES ASSUME KInv, Grants, [Next]_vars, NEW d \in Client
             PROVE  Branch(d)' /\ Storing(d)' /\ BeginsBlind(d)'
  BY DEF Grants
<1>1. Branch(d) /\ Storing(d) /\ BeginsBlind(d)
  BY DEF Grants
<1>2. ASSUME NEW c \in Client, IOThread(c) PROVE Branch(d)' /\ Storing(d)' /\ BeginsBlind(d)'
  <2>1. CASE d = c
    BY <1>1, <1>2, <2>1, GrantsOfSetup
  <2>2. CASE d # c
    <3>1. Same(d) /\ built' = built
      BY <1>2, <2>2, IOFrame, IOLeaves DEF KInv, acceptVars
    <3>2. up
      BY <1>2 DEF IOThread, ReadByBase, ReadByRaw, Describe, GetLocalIp, CloseLocalIp, Fill,
         CopySdp, SetupRefused, SetupMulticast, SetupUnicast, SetupOverTcp, Begin, SetsTrack,
         RtpSocket, RtcpSocket, BindRtp, BindRtcpFails, BindRtcp, StoreRtp, StoreRtcp, StoreTcp,
         SetSessionId, AddRtpInstance, SetupReply, Handles, Reads
    <3>3. Branch(d)' /\ BeginsBlind(d)'
      BY <1>1, <3>1 DEF Same, SameIO, SameEntries, Branch, BeginsBlind, Granting, Setting, Complete
    <3>4. Storing(d)'
      BY <1>1, <3>1, <3>2 DEF Same, SameIO, SameEntries, Storing, RtpThere, BothThere, RtpCleared,
         RtcpCleared
    <3> QED
      BY <3>3, <3>4
  <2> QED
    BY <2>1, <2>2
<1>3. CASE Elsewhere
  <2>1. io'[d] = io[d] \/ (io[d] = "off" /\ io'[d] = "read")
    BY <1>3, ElsewhereIO
  <2>2. UNCHANGED setupVars
    BY <1>3, ElsewhereVars
  <2>3. Branch(d)'
    BY <1>1, <2>1, <2>2 DEF Branch, Setting, setupVars
  <2>4. BeginsBlind(d)'
    BY <1>1, <1>3, <2>1, <2>2, EntriesStay DEF BeginsBlind, Granting, Setting, setupVars
  <2>5. Storing(d)'
    <3>1. BothThere(d) => RtpThere(d)
      BY DEF BothThere
    <3> QED
      BY <1>1, <1>3, <2>1, <2>2, <3>1, EntriesStay DEF Storing, setupVars
  <2> QED
    BY <2>3, <2>4, <2>5
<1> QED
  BY <1>2, <1>3 DEF Elsewhere

LEMMA InitGrants == Init => Grants
BY DEF Init, Grants, Branch, Storing, BeginsBlind, Granting, Setting

\* Whatever part of the constructor comes between two steps of a SETUP, and whatever the
\* other connections do, who was answered 200 has its instances, or stored them early.
THEOREM GrantsKept == Spec => []GrantedIsKept
<1>1. KInv /\ Grants => GrantedIsKept
  <2>1. KInv => granted \subseteq Client
    BY DEF KInv, TypeOK, EntriesOK
  <2> QED
    BY <2>1 DEF Grants, Storing, BeginsBlind, RtpThere, BothThere, GrantedIsKept
<1> QED
  BY <1>1, InitKInv, KernelStep, InitGrants, GrantStep, PTL DEF Spec

-----------------------------------------------------------------------------
(* The description                                                         *)

\* A step that makes no description and copies none
LEMMA Steady ==
  ASSUME Sdp, UNCHANGED sdpVars,
         \A d \in Client : Generating(d)' <=> Generating(d),
         \A d \in Client : io'[d] = "copy" => io[d] = "copy"
  PROVE  \A d \in Client : Unraced(d)'
<1> SUFFICES ASSUME NEW d \in Client PROVE Unraced(d)'
  OBVIOUS
<1>1. Unraced(d)
  BY DEF Sdp
<1>2. Alone(d) => Alone(d)'
  BY DEF Alone
<1>3. (\A e \in Client : ~Generating(e)) => \A e \in Client : ~Generating(e)'
  OBVIOUS
<1> QED
  BY <1>1, <1>2, <1>3 DEF Unraced, sdpVars

LEMMA SdpStays ==
  ASSUME KInv, NEW c \in Client, Copying(c), IOThread(c)
  PROVE  mSdp # None => mSdp' # None
<1>1. CASE Fill(c)
  BY <1>1, StartAssumption DEF Fill, Copying
<1>2. CASE ~Fill(c)
  BY <1>2 DEF sdpVars, IOThread, ReadByBase, ReadByRaw, Describe, GetLocalIp, CloseLocalIp,
     CopySdp, SetupRefused, SetupMulticast, SetupUnicast, SetupOverTcp, Begin, RtpSocket,
     RtcpSocket, BindRtp, BindRtcpFails, BindRtcp, StoreRtp, StoreRtcp, StoreTcp,
     SetSessionId, AddRtpInstance, SetupReply
<1> QED
  BY <1>1, <1>2

\* The thread that takes the step
LEMMA CopyingStep ==
  ASSUME KInv, NEW c \in Client, Copying(c), IOThread(c)
  PROVE  Copying(c)'
<1> USE DEF sdpVars, localVars, Granting, Setting
<1>1. /\ io \in [Client -> {"off", "read", "getLocalIp", "closeLocalIp", "fill", "copy",
                            "rtpSocket", "rtcpSocket", "bindRtp", "bindRtcp", "storeRtp",
                            "storeRtcp", "storeTcp", "setSessionId", "addRtpInstance", "reply"}]
      /\ sent \in [Client -> {"none", "DESCRIBE", "SETUP"}]
      /\ ip \in [Client -> {None, "0.0.0.0", "host"}]
      /\ answer \in [Client -> {None, "0.0.0.0", "host", Garbled}]
  BY DEF KInv, TypeOK, ThreadsOK
<1>2. CASE Describe(c)
  <2>1. /\ io'[c] = (IF mSdp = None THEN "getLocalIp" ELSE "copy")
        /\ sent'[c] = "DESCRIBE" /\ mSdp' = mSdp /\ answer'[c] = None
    BY <1>1, <1>2 DEF Describe, Handles, Reads, Goto
  <2> QED
    BY <2>1 DEF Copying
<1>3. CASE GetLocalIp(c) \/ CloseLocalIp(c)
  <2>1. /\ io[c] \in {"getLocalIp", "closeLocalIp"}
        /\ \/ /\ io'[c] = "closeLocalIp" /\ sent' = sent
           \/ \E address \in {"host", "0.0.0.0"} : GotIp(c, address)
        /\ UNCHANGED <<mSdp, answer>>
    BY <1>1, <1>3 DEF GetLocalIp, CloseLocalIp, Goto
  <2>2. ASSUME NEW address \in {"host", "0.0.0.0"}, GotIp(c, address)
        PROVE  \/ io'[c] = "read"
               \/ io'[c] = "fill" /\ sent'[c] = "DESCRIBE" /\ ip'[c] # None
    <3>1. CASE sent[c] = "DESCRIBE"
      <4>1. io'[c] = "fill" /\ sent' = sent /\ ip'[c] = address
        BY <1>1, <2>2, <3>1 DEF GotIp, Goto
      <4> QED
        BY <3>1, <4>1, StartAssumption
    <3>2. CASE sent[c] # "DESCRIBE"
      <4>1. io'[c] = "read"
        BY <1>1, <2>2, <3>2 DEF GotIp, Done
      <4> QED
        BY <4>1
    <3> QED
      BY <3>1, <3>2
  <2> QED
    BY <2>1, <2>2 DEF Copying
<1>4. CASE Fill(c)
  <2>1. /\ io[c] = "fill" /\ io'[c] = "copy" /\ sent' = sent /\ mSdp' \in {ip[c], Garbled}
        /\ UNCHANGED answer
    BY <1>1, <1>4 DEF Fill, Goto
  <2> QED
    BY <2>1, StartAssumption DEF Copying
<1>5. CASE CopySdp(c)
  <2>1. io[c] = "copy" /\ io'[c] = "read" /\ UNCHANGED mSdp
    BY <1>1, <1>5 DEF CopySdp, Done
  <2> QED
    BY <2>1 DEF Copying
<1>6. CASE SetupMulticast(c) \/ SetupUnicast(c) \/ SetupOverTcp(c)
  <2>1. /\ io'[c] \in {"getLocalIp", "rtpSocket", "storeTcp"} /\ sent'[c] = "SETUP"
        /\ UNCHANGED <<mSdp, answer>>
    BY <1>1, <1>6 DEF SetupMulticast, SetupUnicast, SetupOverTcp, Begin, SetsTrack, Handles,
       Reads, Goto
  <2> QED
    BY <2>1 DEF Copying
<1>7. CASE \/ RtpSocket(c) \/ RtcpSocket(c) \/ BindRtp(c) \/ BindRtcpFails(c) \/ BindRtcp(c)
           \/ StoreRtp(c) \/ StoreRtcp(c) \/ StoreTcp(c) \/ SetSessionId(c) \/ AddRtpInstance(c)
           \/ SetupReply(c)
  <2>1. Granting(c) /\ UNCHANGED <<mSdp, answer>>
    BY <1>7 DEF RtpSocket, RtcpSocket, BindRtp, BindRtcpFails, BindRtcp, StoreRtp, StoreRtcp,
       StoreTcp, SetSessionId, AddRtpInstance, SetupReply
  <2>2. \/ io'[c] = "read"
        \/ sent' = sent /\ io'[c] \notin {"fill", "copy"}
    BY <1>1, <1>7 DEF RtpSocket, RtcpSocket, BindRtp, BindRtcpFails, Retry, SetupFails, BindRtcp,
       StoreRtp, StoreRtcp, StoreTcp, SetSessionId, AddRtpInstance, SetupReply, Goto, Done
  <2> QED
    BY <2>1, <2>2 DEF Copying
<1>8. CASE ReadByBase(c) \/ ReadByRaw(c) \/ SetupRefused(c)
  <2>1. io'[c] = "read" /\ UNCHANGED <<mSdp, answer>>
    BY <1>1, <1>8 DEF ReadByBase, ReadByRaw, SetupRefused, Done
  <2> QED
    BY <2>1 DEF Copying
<1> QED
  BY <1>2, <1>3, <1>4, <1>5, <1>6, <1>7, <1>8 DEF IOThread

LEMMA UnracedStep ==
  ASSUME KInv, Sdp, NEW c \in Client, IOThread(c)
  PROVE  \A d \in Client : Unraced(d)'
<1> USE DEF sdpVars, localVars
<1>1. /\ io \in [Client -> {"off", "read", "getLocalIp", "closeLocalIp", "fill", "copy",
                            "rtpSocket", "rtcpSocket", "bindRtp", "bindRtcp", "storeRtp",
                            "storeRtcp", "storeTcp", "setSessionId", "addRtpInstance", "reply"}]
      /\ sent \in [Client -> {"none", "DESCRIBE", "SETUP"}]
      /\ answer \in [Client -> {None, "0.0.0.0", "host", Garbled}]
  BY DEF KInv, TypeOK, ThreadsOK
<1>2. /\ \A d \in Client : Copying(d) /\ Unraced(d)
      /\ \A d \in Client \ {c} : Same(d)
  BY IOFrame DEF Sdp, KInv
<1>3. \A d \in Client \ {c} :
        /\ io'[d] = io[d] /\ answer'[d] = answer[d] /\ (Generating(d)' <=> Generating(d))
  BY <1>2 DEF Same, SameIO, SameLocals, Generating
<1>4. CASE Describe(c)
  <2>1. /\ io'[c] = (IF mSdp = None THEN "getLocalIp" ELSE "copy")
        /\ sent[c] = "DESCRIBE" /\ sent' = sent /\ mSdp' = mSdp /\ answer'[c] = None /\ Meet(c)
    BY <1>1, <1>4 DEF Describe, Handles, Reads, Goto
  <2>2. Generating(c)' <=> mSdp = None
    BY <2>1 DEF Generating
  <2>3. Unraced(c)'
    <3>1. c \notin raced' => Alone(c)
      BY <2>1 DEF Meet, Alone
    <3>2. Alone(c) => Alone(c)'
      BY <1>3 DEF Alone
    <3> QED
      BY <2>1, <2>2, <3>1, <3>2 DEF Unraced, Alone
  <2>4. ASSUME NEW d \in Client \ {c}, d \notin raced' PROVE Unraced(d)'
    <3>1. d \notin raced /\ (mSdp = None => ~Generating(d))
      BY <2>1, <2>4 DEF Meet
    <3>2. ~Generating(d)
      BY <1>2, <3>1 DEF Unraced
    <3>3. CASE mSdp = None
      BY <1>2, <1>3, <2>1, <3>1, <3>2, <3>3 DEF Unraced, Copying
    <3>4. CASE mSdp # None
      BY <1>2, <1>3, <2>1, <2>2, <3>1, <3>2, <3>4 DEF Unraced
    <3> QED
      BY <3>3, <3>4
  <2> QED
    BY <2>3, <2>4 DEF Unraced
<1>5. CASE Fill(c)
  <2>1. /\ io[c] = "fill" /\ io'[c] = "copy" /\ UNCHANGED <<answer, raced>>
    BY <1>1, <1>5 DEF Fill, Goto
  <2>2. Generating(c) /\ ~Generating(c)'
    BY <1>2, <2>1 DEF Generating, Copying
  <2>3. Unraced(c)'
    BY <1>2, <1>3, <2>1, <2>2 DEF Unraced, Alone
  <2>4. ASSUME NEW d \in Client \ {c} PROVE Unraced(d)'
    BY <1>2, <1>3, <2>1, <2>2 DEF Unraced, Alone
  <2> QED
    BY <2>3, <2>4
<1>6. CASE CopySdp(c)
  <2>1. /\ io[c] = "copy" /\ io'[c] = "read" /\ UNCHANGED <<mSdp, raced>> /\ answer'[c] = mSdp
    BY <1>1, <1>6 DEF CopySdp, Done
  <2>2. ~Generating(c) /\ ~Generating(c)'
    BY <2>1 DEF Generating
  <2>3. Unraced(c)'
    BY <1>2, <1>3, <2>1, <2>2 DEF Unraced
  <2>4. ASSUME NEW d \in Client \ {c} PROVE Unraced(d)'
    BY <1>2, <1>3, <2>1, <2>2 DEF Unraced, Alone
  <2> QED
    BY <2>3, <2>4
<1>7. CASE GetLocalIp(c) \/ CloseLocalIp(c)
  <2>1. /\ io[c] \in {"getLocalIp", "closeLocalIp"} /\ UNCHANGED sdpVars
        /\ \/ io'[c] = "closeLocalIp" /\ sent' = sent
           \/ \E address : GotIp(c, address)
    BY <1>1, <1>7 DEF GetLocalIp, CloseLocalIp, Goto
  <2>2. /\ io'[c] # "copy"
        /\ \/ sent[c] = "DESCRIBE" /\ sent' = sent /\ io'[c] \in {"closeLocalIp", "fill"}
           \/ sent[c] # "DESCRIBE" /\ sent'[c] # "DESCRIBE"
    BY <1>1, <2>1 DEF GotIp, Goto, Done
  <2>3. Generating(c)' <=> Generating(c)
    BY <2>1, <2>2 DEF Generating
  <2> QED
    BY <1>3, <2>1, <2>2, <2>3, Steady
<1>8. CASE SetupMulticast(c) \/ SetupUnicast(c) \/ SetupOverTcp(c)
  <2>1. /\ io'[c] # "copy" /\ sent[c] = "SETUP" /\ sent' = sent /\ UNCHANGED sdpVars
    BY <1>1, <1>8 DEF SetupMulticast, SetupUnicast, SetupOverTcp, Begin, SetsTrack, Handles,
       Reads, Goto
  <2>2. ~Generating(c)' /\ ~Generating(c)
    BY <2>1 DEF Generating
  <2> QED
    BY <1>3, <2>1, <2>2, Steady
<1>9. CASE \/ RtpSocket(c) \/ RtcpSocket(c) \/ BindRtp(c) \/ BindRtcpFails(c) \/ BindRtcp(c)
           \/ StoreRtp(c) \/ StoreRtcp(c) \/ StoreTcp(c) \/ SetSessionId(c) \/ AddRtpInstance(c)
           \/ SetupReply(c) \/ ReadByBase(c) \/ ReadByRaw(c) \/ SetupRefused(c)
  <2>1. io[c] \notin {"getLocalIp", "closeLocalIp", "fill"} /\ UNCHANGED sdpVars
    BY <1>9 DEF RtpSocket, RtcpSocket, BindRtp, BindRtcpFails, BindRtcp, StoreRtp, StoreRtcp,
       StoreTcp, SetSessionId, AddRtpInstance, SetupReply, ReadByBase, ReadByRaw, SetupRefused,
       Handles, Reads
  <2>2. io'[c] \notin {"getLocalIp", "closeLocalIp", "fill", "copy"}
    BY <1>1, <1>9 DEF RtpSocket, RtcpSocket, BindRtp, BindRtcpFails, Retry, SetupFails, BindRtcp,
       StoreRtp, StoreRtcp, StoreTcp, SetSessionId, AddRtpInstance, SetupReply, ReadByBase,
       ReadByRaw, SetupRefused, Goto, Done
  <2>3. ~Generating(c)' /\ ~Generating(c)
    BY <2>1, <2>2 DEF Generating
  <2> QED
    BY <1>3, <2>1, <2>2, <2>3, Steady
<1> QED
  BY <1>4, <1>5, <1>6, <1>7, <1>8, <1>9 DEF IOThread

LEMMA SdpStep == KInv /\ Sdp /\ [Next]_vars => Sdp'
<1> SUFFICES ASSUME KInv, Sdp, [Next]_vars PROVE Sdp'
  OBVIOUS
<1>1. \A d \in Client : Copying(d)
  BY DEF Sdp
<1>2. ASSUME NEW c \in Client, IOThread(c) PROVE Sdp'
  <2>1. ASSUME NEW d \in Client PROVE Copying(d)'
    <3>1. CASE d = c
      BY <1>1, <1>2, <3>1, CopyingStep
    <3>2. CASE d # c
      <4>1. Same(d) /\ (mSdp # None => mSdp' # None)
        BY <1>1, <1>2, <3>2, IOFrame, SdpStays DEF KInv
      <4> QED
        BY <1>1, <4>1 DEF Same, SameIO, SameLocals, Copying, Granting, Setting
    <3> QED
      BY <3>1, <3>2
  <2> QED
    BY <1>2, <2>1, UnracedStep DEF Sdp
<1>3. CASE Elsewhere
  <2>1. UNCHANGED <<localVars, sdpVars>>
    BY <1>3, ElsewhereVars
  <2>2. ASSUME NEW d \in Client
        PROVE  /\ io'[d] = io[d] \/ (io[d] = "off" /\ io'[d] = "read")
               /\ sent'[d] = sent[d] \/ (sent[d] = "none" /\ sent'[d] # "none")
    <3>1. io'[d] = io[d] \/ (io[d] = "off" /\ io'[d] = "read")
      BY <1>3, ElsewhereIO
    <3>2. CASE \E c \in Client, request \in {"DESCRIBE", "SETUP"} : Send(c, request)
      BY <3>1, <3>2 DEF Send, KInv, TypeOK, ThreadsOK
    <3>3. CASE ~\E c \in Client, request \in {"DESCRIBE", "SETUP"} : Send(c, request)
      <4>1. sent' = sent
        BY <1>3, <3>3, ElsewhereSteps DEF StartMulticast, Main, Listen, DoClient, AcceptClient,
           StartIO, SetVirtualTable, InitMembers, ClearRtp, ClearRtcp, GetSocketIp, Insert, Build,
           WalkMeetsNull, vars, Connect, clientVars
      <4> QED
        BY <3>1, <4>1
    <3> QED
      BY <3>2, <3>3
  <2>3. ASSUME NEW d \in Client PROVE Copying(d)'
    BY <1>1, <2>1, <2>2 DEF Copying, Granting, Setting, localVars, sdpVars
  <2>4. \A d \in Client : Generating(d)' <=> Generating(d)
    BY <1>1, <2>2 DEF Copying, Generating
  <2>5. \A d \in Client : Unraced(d)'
    BY <2>1, <2>2, <2>4, Steady
  <2> QED
    BY <2>3, <2>5 DEF Sdp
<1> QED
  BY <1>2, <1>3 DEF Elsewhere

LEMMA InitSdp == Init => Sdp
BY DEF Init, Sdp, Copying, Unraced, Generating, Granting, Setting

\* All descriptions are the same, for any clients, whoever makes the first and from
\* whatever address; but for those made while another one was.
THEOREM OneDescription == Spec => []DescriptionsAgree
<1>1. Sdp => DescriptionsAgree
  BY DEF Sdp, Unraced, DescriptionsAgree
<1> QED
  BY <1>1, InitKInv, KernelStep, InitSdp, SdpStep, PTL DEF Spec
=============================================================================
