----------------------------- MODULE ServerStart -----------------------------
(***************************************************************************)
(* From the construction of the server to the first requests: main builds  *)
(* the session and starts the server, the accept thread builds an          *)
(* RtspConnection for each client, and the IO thread of the connection is  *)
(* started by its base class, before the rest of the object is there.      *)
(* Session, connections and sockets share the process's descriptors.       *)
(***************************************************************************)
EXTENDS Naturals, Sequences

CONSTANTS
  Client,
  Fd,       \* the descriptors the process may open
  Rest,     \* those the rest of the process may have, for as long as it runs
  RtpPort,  \* the even ports createRtpRtcpOverUdp may draw
  Foreign,  \* the ports other programs have bound
  MaxTrack, \* MEDIA_MAX_TRACK_NUM; 2 in the code
  MaxTries, \* how often it draws; 10 in the code
  MaxAsked, \* bound: the requests of all clients, a DESCRIBE counted 2 and a SETUP 3
  None, Garbled

\* One for RTP and one for RTCP of each track
MulticastSocket == 1..(2 * MaxTrack)

\* What holds a descriptor: the listening socket, the sockets of startMulticast; and
\* of each connection mSocket, the two instances in its arrays, the two that its
\* constructor has thrown out of them, which no variable of the program names any
\* more, and the locals of its IO thread.
Holder ==
  {<<"listen", None>>} \cup ({"rest"} \X UNION Rest) \cup
  ({"multicast"} \X MulticastSocket) \cup
  ({"mSocket", "rtpInstance", "rtcpInstance", "lostRtp", "lostRtcp",
    "rtpSockfd", "rtcpSockfd", "localIp"} \X Client)

ASSUME StartAssumption ==
  /\ Fd \subseteq Nat /\ Rest \subseteq SUBSET Fd /\ RtpPort \subseteq Nat \ {0} /\ MaxTries \in Nat \ {0}
  /\ MaxAsked \in Nat /\ MaxTrack \in Nat \ {0}
  /\ None \notin Fd /\ None \notin Client /\ None \notin {"host", "0.0.0.0"}
  /\ Garbled \notin {None, "host", "0.0.0.0"}

VARIABLES
  held,   \* the descriptor each holder has
  open,   \* the descriptors that are open
  port,   \* the UDP port a descriptor is bound to, 0 for none
  main,   \* how far main and TcpServer::start are
  multicast,  \* mIsStartMulticast
  peer, sent, backlog,  \* the clients, their requests, who waits for accept
  asked,                \* how much they have asked
  acc, fresh, built,    \* the accept thread, whom it serves, the parts of each connection
  mConnections,
  mRtpInstances, mRtcpInstances, \* of each connection the entry of the track
  listed,     \* whose instance the list of the track has; None for a NULL in it
  trackLost,  \* whose mTrackId was overwritten after its SETUP set it
  overTcp,    \* the SETUPs that took the branch of RTP over TCP
  io,         \* where each IO thread is
  tries, localPort, ip, \* its locals, and RtpInstance::mServerPort
  mSdp, answer,  \* the description, by its address, and what DESCRIBE was answered
  raced,         \* history: the DESCRIBEs that met another one filling mSdp
  granted,       \* history: the connections whose last unicast SETUP was answered 200,
  blind, early,  \* copied mPeerIp before it was set, stored before an entry was cleared
  up              \* the process runs

kernelVars == <<held, open, port>>
mainVars == <<main, multicast>>
clientVars == <<peer, sent, backlog, asked>>
acceptVars == <<acc, fresh, built, mConnections>>
localVars == <<tries, localPort, ip>>
sdpVars == <<mSdp, answer, raced>>
entryVars == <<mRtpInstances, mRtcpInstances, listed, trackLost>>
setupVars == <<overTcp, granted, blind, early>>
vars == <<kernelVars, mainVars, clientVars, acceptVars, io, localVars, sdpVars,
          entryVars, setupVars, up>>

-----------------------------------------------------------------------------
(* Descriptors: socket() and accept() give the lowest one that is free.    *)

Free == Fd \ open
IsLowest(f) == f \in Free /\ \A g \in Free : f <= g

Give(h, f) ==
  /\ held' = [held EXCEPT ![h] = f]
  /\ open' = open \cup {f} /\ UNCHANGED port

\* close() also frees the port.
CloseAll(hs) ==
  LET fs == {held[h] : h \in hs} IN
  /\ held' = [h \in Holder |-> IF h \in hs THEN None ELSE held[h]]
  /\ open' = open \ fs
  /\ port' = [f \in Fd |-> IF f \in fs THEN 0 ELSE port[f]]

\* bind() without SO_REUSEADDR
CanBind(p) == p \notin Foreign /\ \A f \in open : port[f] # p

\* The server is constructed: its listening socket is open.
Init ==
  /\ \E rest \in Rest : \E f \in Fd \ rest :
       /\ \A g \in Fd \ rest : f <= g
       /\ open = rest \cup {f}
       /\ held = [h \in Holder |-> IF h = <<"listen", None>> THEN f
                                  ELSE IF h[1] = "rest" /\ h[2] \in rest THEN h[2] ELSE None]
  /\ port = [f \in Fd |-> 0]
  /\ main = "build" /\ multicast = FALSE
  /\ peer = [c \in Client |-> "away"] /\ sent = [c \in Client |-> "none"]
  /\ backlog = <<>> /\ asked = 0
  /\ acc = "off" /\ fresh = None /\ built = [c \in Client |-> "none"]
  /\ mConnections = [f \in Fd |-> None]
  /\ io = [c \in Client |-> "off"]
  /\ tries = [c \in Client |-> 0] /\ localPort = [c \in Client |-> 0]
  /\ ip = [c \in Client |-> None]
  /\ mSdp = None /\ answer = [c \in Client |-> None] /\ raced = {}
  /\ mRtpInstances = [c \in Client |-> "null"] /\ mRtcpInstances = mRtpInstances
  /\ listed = {} /\ trackLost = {}
  /\ overTcp = {} /\ granted = {} /\ blind = {} /\ early = {}
  /\ up = TRUE

-----------------------------------------------------------------------------
(* main, which is done before anything can end the process.                  *)

\* Sockets that are never bound.  Nothing has used up the descriptors yet.
StartMulticast ==
  /\ main = "build" /\ ~multicast
  /\ \E f \in [MulticastSocket -> Free] :
       /\ \A i, j \in MulticastSocket : i < j => f[i] < f[j]
       /\ \A g \in Free, i \in MulticastSocket : g < f[i] => \E j \in MulticastSocket : g = f[j]
       /\ held' = [h \in Holder |-> IF h[1] = "multicast" THEN f[h[2]] ELSE held[h]]
       /\ open' = open \cup {f[i] : i \in MulticastSocket}
  /\ multicast' = TRUE
  /\ UNCHANGED <<port, main, clientVars, acceptVars, io, localVars, sdpVars,
                 entryVars, setupVars, up>>

Listen ==
  /\ main = "build" /\ main' = "listening"
  /\ UNCHANGED <<kernelVars, multicast, clientVars, acceptVars, io, localVars, sdpVars,
                 entryVars, setupVars, up>>

DoClient ==
  /\ main = "listening" /\ main' = "running" /\ acc' = "accept"
  /\ UNCHANGED <<kernelVars, multicast, clientVars, fresh, built, mConnections, io,
                 localVars, sdpVars,
                 entryVars, setupVars, up>>

-----------------------------------------------------------------------------
(* The clients.  One that leaves changes nothing here: disconnectionCallback *)
(* only logs it, and its socket stays open.                                *)

Connect(c) ==
  /\ up /\ main # "build" /\ peer[c] = "away"
  /\ peer' = [peer EXCEPT ![c] = "waiting"] /\ backlog' = Append(backlog, c)
  /\ UNCHANGED <<kernelVars, mainVars, sent, asked, acceptVars, io, localVars, sdpVars,
                 entryVars, setupVars, up>>

\* A client sends its next request when the last has been dealt with; what it
\* sends while it waits for accept is as good as sent right after.
Send(c, request) ==
  /\ up /\ peer[c] = "in" /\ sent[c] = "none"
  /\ sent' = [sent EXCEPT ![c] = request]
  /\ asked' = asked + (IF request = "SETUP" THEN 3 ELSE 2) /\ asked' <= MaxAsked
  /\ UNCHANGED <<kernelVars, mainVars, peer, backlog, acceptVars, io, localVars, sdpVars,
                 entryVars, setupVars, up>>

-----------------------------------------------------------------------------
(* The accept thread                                                       *)

\* accept() that fails, because nobody waits or no descriptor is free, changes
\* nothing: the thread sleeps and tries again.
AcceptClient ==
  /\ up /\ acc = "accept" /\ backlog # <<>>
  /\ \E f \in Fd : IsLowest(f) /\ Give(<<"mSocket", Head(backlog)>>, f)
  /\ acc' = "build" /\ fresh' = Head(backlog) /\ backlog' = Tail(backlog)
  /\ peer' = [peer EXCEPT ![Head(backlog)] = "in"]
  /\ UNCHANGED <<mainVars, sent, asked, built, mConnections, io, localVars, sdpVars,
                 entryVars, setupVars, up>>

\* A descriptor goes from one holder to another, that has none.
Move(c, from, to) ==
  held' = [held EXCEPT ![<<to, c>>] = held[<<from, c>>], ![<<from, c>>] = None]

\* The next part of the connection that handleNewConnection builds.
Build(from, to) ==
  /\ up /\ acc = "build" /\ built[fresh] = from
  /\ built' = [built EXCEPT ![fresh] = to]
  /\ UNCHANGED <<open, port, mainVars, clientVars, localVars, sdpVars, setupVars, up>>

\* The constructor of TcpConnect starts the IO thread, over memory new has found: a
\* SETUP that sees garbage in either entry is refused, so both have it or none.
StartIO ==
  /\ Build("none", "base")
  /\ io' = [io EXCEPT ![fresh] = "read"]
  /\ \E found \in {"null", "garbage"} :
       /\ mRtpInstances' = [mRtpInstances EXCEPT ![fresh] = found]
       /\ mRtcpInstances' = [mRtcpInstances EXCEPT ![fresh] = found]
  /\ UNCHANGED <<held, acc, fresh, mConnections, listed, trackLost>>

\* The constructor of RtspConnection: first the virtual table,
SetVirtualTable ==
  Build("base", "raw") /\ UNCHANGED <<held, acc, fresh, mConnections, io, entryVars>>

\* then mTrackId, which a SETUP under way has set, and the members after it.
InitMembers ==
  /\ Build("raw", "members")
  /\ trackLost' = IF sent[fresh] = "SETUP" /\ io[fresh] # "read"
                  THEN trackLost \cup {fresh} ELSE trackLost
  /\ UNCHANGED <<held, acc, fresh, mConnections, io, mRtpInstances, mRtcpInstances, listed>>

\* The loop: the entry of mRtpInstances, whatever it holds,
ClearRtp ==
  /\ Build("members", "half") /\ Move(fresh, "rtpInstance", "lostRtp")
  /\ mRtpInstances' = [mRtpInstances EXCEPT ![fresh] = "null"]
  /\ listed' = listed \ {fresh}
  /\ UNCHANGED <<acc, fresh, mConnections, io, mRtcpInstances, trackLost>>

\* and that of mRtcpInstances;
ClearRtcp ==
  /\ Build("half", "cleared") /\ Move(fresh, "rtcpInstance", "lostRtcp")
  /\ mRtcpInstances' = [mRtcpInstances EXCEPT ![fresh] = "null"]
  /\ UNCHANGED <<acc, fresh, mConnections, io, mRtpInstances, listed, trackLost>>

\* last mPeerIp.
GetSocketIp ==
  Build("cleared", "ready") /\ UNCHANGED <<held, acc, fresh, mConnections, io, entryVars>>

\* Mutant: the RTP instance is cleared when the connection is handed over.
InsertClears ==
  /\ Build("ready", "known") /\ Move(fresh, "rtpInstance", "lostRtp")
  /\ mRtpInstances' = [mRtpInstances EXCEPT ![fresh] = "null"]
  /\ listed' = listed \ {fresh}
  /\ acc' = "accept" /\ fresh' = None
  /\ UNCHANGED <<mConnections, io, mRtcpInstances, trackLost>>

\* map::insert keeps what is there.
Insert ==
  /\ Build("ready", "known")
  /\ LET f == held[<<"mSocket", fresh>>] IN
     mConnections' = [mConnections EXCEPT ![f] = IF @ = None THEN fresh ELSE @]
  /\ acc' = "accept" /\ fresh' = None
  /\ UNCHANGED <<held, io, entryVars>>

AcceptThread ==
  \/ AcceptClient \/ StartIO \/ SetVirtualTable \/ InitMembers
  \/ ClearRtp \/ ClearRtcp \/ GetSocketIp \/ Insert

RtpCleared(c) == built[c] \in {"half", "cleared", "ready", "known"}
RtcpCleared(c) == built[c] \in {"cleared", "ready", "known"}
Complete(c) == built[c] \in {"ready", "known"}

-----------------------------------------------------------------------------
(* The IO thread of connection c                                           *)

Goto(c, to) == io' = [io EXCEPT ![c] = to] /\ UNCHANGED sent

\* handleReadBytes returns, after a reply or without one.
Done(c) == io' = [io EXCEPT ![c] = "read"] /\ sent' = [sent EXCEPT ![c] = "none"]

\* What no step of an IO thread changes, and no step of it outside SETUP.
ThreadOnly == UNCHANGED <<mainVars, peer, backlog, asked, acceptVars>>
NoSetup == UNCHANGED <<entryVars, setupVars>>

Reads(c, request) == up /\ io[c] = "read" /\ sent[c] = request /\ ThreadOnly

\* RtspConnection::handleReadBytes goes through with the request.
Handles(c, request) == Reads(c, request) /\ built[c] \notin {"none", "base"}

\* TcpConnect::handleReadBytes throws the request away.
ReadByBase(c) ==
  /\ \E request \in {"DESCRIBE", "SETUP"} : Reads(c, request)
  /\ built[c] = "base" /\ Done(c)
  /\ UNCHANGED <<kernelVars, localVars, sdpVars, entryVars, setupVars, up>>

\* On members that are not initialised, or are while it reads them, the request may
\* also be refused; if they are strings or pointers, it may end the process.
ReadByRaw(c) ==
  /\ \E request \in {"DESCRIBE", "SETUP"} : Reads(c, request)
  /\ built[c] \in {"raw", "members"} /\ Done(c)
  /\ up' \in (IF built[c] = "raw" THEN BOOLEAN ELSE {TRUE})
  /\ UNCHANGED <<kernelVars, localVars, sdpVars, entryVars, setupVars>>

\* generateSDPDescription is making a description.
Generating(d) == sent[d] = "DESCRIBE" /\ io[d] \in {"getLocalIp", "closeLocalIp", "fill"}

\* c meets those who are, and if it is to make one itself they meet it.
Meet(c) ==
  LET others == {d \in Client \ {c} : Generating(d)} IN
  raced' = IF others = {} THEN raced \ {c}
           ELSE raced \cup {c} \cup IF mSdp = None THEN others ELSE {}

\* Mutant: the description is generated each time.
DescribeAgain(c) ==
  /\ Handles(c, "DESCRIBE") /\ Goto(c, "getLocalIp") /\ Meet(c)
  /\ answer' = [answer EXCEPT ![c] = None]
  /\ NoSetup /\ UNCHANGED <<kernelVars, localVars, mSdp, up>>

\* handleCmdDescribe and generateSDPDescription: is mSdp empty?
Describe(c) ==
  /\ Handles(c, "DESCRIBE") /\ Goto(c, IF mSdp = None THEN "getLocalIp" ELSE "copy")
  /\ Meet(c) /\ answer' = [answer EXCEPT ![c] = None]
  /\ NoSetup /\ UNCHANGED <<kernelVars, localVars, mSdp, up>>

\* getLocalIp returns, to the description or to the multicast reply, which looks for
\* the port of the track: without a mTrackId it reads beside the array.
GotIp(c, address) ==
  IF sent[c] = "DESCRIBE"
  THEN Goto(c, "fill") /\ ip' = [ip EXCEPT ![c] = address] /\ UNCHANGED up
  ELSE Done(c) /\ up' \in (IF c \in trackLost THEN BOOLEAN ELSE {TRUE}) /\ UNCHANGED ip

\* It asks a socket of its own; without one it returns 0.0.0.0.
GetLocalIp(c) ==
  /\ up /\ io[c] = "getLocalIp"
  /\ \/ Free = {} /\ GotIp(c, "0.0.0.0") /\ UNCHANGED kernelVars
     \/ /\ \E f \in Fd : IsLowest(f) /\ Give(<<"localIp", c>>, f)
        /\ Goto(c, "closeLocalIp") /\ UNCHANGED <<ip, up>>
  /\ ThreadOnly /\ NoSetup /\ UNCHANGED <<tries, localPort, sdpVars>>

\* Whether the ioctl failed, or found no interface but lo, it closes the socket.
CloseLocalIp(c) ==
  /\ up /\ io[c] = "closeLocalIp" /\ CloseAll({<<"localIp", c>>})
  /\ \E address \in {"host", "0.0.0.0"} : GotIp(c, address)
  /\ ThreadOnly /\ NoSetup /\ UNCHANGED <<tries, localPort, sdpVars>>

\* mSdp = buf.  An assignment next to another one, or to a copy, may leave a
\* string that is neither, or end the process.
Fill(c) ==
  LET racing == \E d \in Client \ {c} : io[d] \in {"fill", "copy"} IN
  /\ up /\ io[c] = "fill" /\ Goto(c, "copy")
  /\ mSdp' \in {ip[c]} \cup (IF racing THEN {Garbled} ELSE {})
  /\ ip' = [ip EXCEPT ![c] = None]
  /\ up' \in (IF racing THEN BOOLEAN ELSE {TRUE})
  /\ ThreadOnly /\ NoSetup /\ UNCHANGED <<kernelVars, tries, localPort, answer, raced>>

\* return mSdp, and the reply.
CopySdp(c) ==
  /\ up /\ io[c] = "copy" /\ Done(c)
  /\ answer' = [answer EXCEPT ![c] = mSdp]
  /\ ThreadOnly /\ NoSetup /\ UNCHANGED <<kernelVars, localVars, mSdp, raced, up>>

-----------------------------------------------------------------------------
(* SETUP over UDP, on one track.  That the arrays are read again at each   *)
(* step is what the constructor beside it can be seen by.                  *)

TrackInUse(c) == mRtpInstances[c] # "null" \/ mRtcpInstances[c] # "null"

SetupRefused(c) ==
  /\ Handles(c, "SETUP") /\ TrackInUse(c) /\ Done(c)
  /\ UNCHANGED <<kernelVars, localVars, sdpVars, entryVars, setupVars, up>>

\* parseMediaTrack sets mTrackId.
SetsTrack(c) ==
  /\ Handles(c, "SETUP") /\ ~TrackInUse(c) /\ trackLost' = trackLost \ {c}
  /\ UNCHANGED <<mRtpInstances, mRtcpInstances, listed>>

\* Next is the source address of the reply.
SetupMulticast(c) ==
  /\ SetsTrack(c) /\ multicast /\ Goto(c, "getLocalIp")
  /\ UNCHANGED <<kernelVars, localVars, sdpVars, setupVars, up>>

\* A unicast SETUP takes one of the two branches.
Begin(c, tcp) ==
  /\ SetsTrack(c) /\ ~multicast
  /\ Goto(c, IF tcp THEN "storeTcp" ELSE "rtpSocket")
  /\ overTcp' = IF tcp THEN overTcp \cup {c} ELSE overTcp \ {c}
  /\ granted' = granted \ {c} /\ early' = early \ {c}
  /\ blind' = IF Complete(c) THEN blind \ {c} ELSE blind \cup {c}
  /\ UNCHANGED <<kernelVars, localVars, sdpVars, up>>

SetupUnicast(c) == Begin(c, FALSE)

\* mIsRtpOverTcp, which comes after mTrackId, is true only because it is not set yet.
SetupOverTcp(c) == built[c] \in {"raw", "members"} /\ Begin(c, TRUE)

\* createRtpRtcpOverUdp returns false: its locals are gone.
SetupFails(c) ==
  /\ Done(c)
  /\ tries' = [tries EXCEPT ![c] = 0] /\ localPort' = [localPort EXCEPT ![c] = 0]

RtpSocket(c) ==
  /\ up /\ io[c] = "rtpSocket"
  /\ \/ Free = {} /\ SetupFails(c) /\ UNCHANGED kernelVars
     \/ /\ \E f \in Fd : IsLowest(f) /\ Give(<<"rtpSockfd", c>>, f)
        /\ Goto(c, "rtcpSocket") /\ UNCHANGED <<tries, localPort>>
  /\ ThreadOnly /\ NoSetup /\ UNCHANGED <<ip, sdpVars, up>>

\* Mutant: without a second socket the first is forgotten.
RtcpSocketLeaks(c) ==
  /\ up /\ io[c] = "rtcpSocket"
  /\ \/ /\ Free = {} /\ held' = [held EXCEPT ![<<"rtpSockfd", c>>] = None]
        /\ SetupFails(c) /\ UNCHANGED <<open, port>>
     \/ /\ \E f \in Fd : IsLowest(f) /\ Give(<<"rtcpSockfd", c>>, f)
        /\ Goto(c, "bindRtp") /\ UNCHANGED <<tries, localPort>>
  /\ ThreadOnly /\ NoSetup /\ UNCHANGED <<ip, sdpVars, up>>

\* Without a second socket the first is closed again.
RtcpSocket(c) ==
  /\ up /\ io[c] = "rtcpSocket"
  /\ \/ Free = {} /\ CloseAll({<<"rtpSockfd", c>>}) /\ SetupFails(c)
     \/ /\ \E f \in Fd : IsLowest(f) /\ Give(<<"rtcpSockfd", c>>, f)
        /\ Goto(c, "bindRtp") /\ UNCHANGED <<tries, localPort>>
  /\ ThreadOnly /\ NoSetup /\ UNCHANGED <<ip, sdpVars, up>>

\* Mutant: the attempts are not counted.
RetryUncounted(c) ==
  /\ CloseAll({<<"rtpSockfd", c>>, <<"rtcpSockfd", c>>})
  /\ Goto(c, "rtpSocket")
  /\ localPort' = [localPort EXCEPT ![c] = 0] /\ UNCHANGED tries

\* A port is taken: both sockets are closed and the next attempt begins, if any.
Retry(c) ==
  /\ CloseAll({<<"rtpSockfd", c>>, <<"rtcpSockfd", c>>})
  /\ IF tries[c] + 1 = MaxTries THEN SetupFails(c)
     ELSE /\ Goto(c, "rtpSocket")
          /\ tries' = [tries EXCEPT ![c] = @ + 1]
          /\ localPort' = [localPort EXCEPT ![c] = 0]

BindRtp(c) ==
  /\ up /\ io[c] = "bindRtp"
  /\ \E p \in RtpPort :
       \/ /\ CanBind(p) /\ Goto(c, "bindRtcp")
          /\ port' = [port EXCEPT ![held[<<"rtpSockfd", c>>]] = p]
          /\ localPort' = [localPort EXCEPT ![c] = p]
          /\ UNCHANGED <<held, open, tries>>
       \/ ~CanBind(p) /\ Retry(c)
  /\ ThreadOnly /\ NoSetup /\ UNCHANGED <<ip, sdpVars, up>>

BindRtcpFails(c) ==
  /\ up /\ io[c] = "bindRtcp" /\ ~CanBind(localPort[c] + 1) /\ Retry(c)
  /\ ThreadOnly /\ NoSetup /\ UNCHANGED <<ip, sdpVars, up>>

\* Mutant: the result of the second bind is not looked at.
BindRtcpUnchecked(c) ==
  /\ up /\ io[c] = "bindRtcp" /\ Goto(c, "storeRtp")
  /\ port' = IF CanBind(localPort[c] + 1)
              THEN [port EXCEPT ![held[<<"rtcpSockfd", c>>]] = localPort[c] + 1] ELSE port
  /\ tries' = [tries EXCEPT ![c] = 0]
  /\ ThreadOnly /\ NoSetup /\ UNCHANGED <<held, open, localPort, ip, sdpVars, up>>

BindRtcp(c) ==
  /\ up /\ io[c] = "bindRtcp" /\ CanBind(localPort[c] + 1) /\ Goto(c, "storeRtp")
  /\ port' = [port EXCEPT ![held[<<"rtcpSockfd", c>>]] = localPort[c] + 1]
  /\ tries' = [tries EXCEPT ![c] = 0]
  /\ ThreadOnly /\ NoSetup /\ UNCHANGED <<held, open, localPort, ip, sdpVars, up>>

\* The instances are stored where the constructor clears, then or later.
Store(c, cleared) == early' = IF cleared THEN early ELSE early \cup {c}

StoreRtp(c) ==
  /\ up /\ io[c] = "storeRtp" /\ Goto(c, "storeRtcp")
  /\ Move(c, "rtpSockfd", "rtpInstance")
  /\ mRtpInstances' = [mRtpInstances EXCEPT ![c] = "udp"] /\ Store(c, RtpCleared(c))
  /\ ThreadOnly
  /\ UNCHANGED <<open, port, localVars, sdpVars, mRtcpInstances, listed, trackLost, overTcp,
                 granted, blind, up>>

StoreRtcp(c) ==
  /\ up /\ io[c] = "storeRtcp" /\ Goto(c, "setSessionId")
  /\ Move(c, "rtcpSockfd", "rtcpInstance")
  /\ mRtcpInstances' = [mRtcpInstances EXCEPT ![c] = "udp"] /\ Store(c, RtcpCleared(c))
  /\ ThreadOnly
  /\ UNCHANGED <<open, port, localVars, sdpVars, mRtpInstances, listed, trackLost, overTcp,
                 granted, blind, up>>

\* createRtpOverTcp: the instance sends over mSocket.
StoreTcp(c) ==
  /\ up /\ io[c] = "storeTcp" /\ Goto(c, "setSessionId")
  /\ mRtpInstances' = [mRtpInstances EXCEPT ![c] = "tcp"] /\ Store(c, RtpCleared(c))
  /\ ThreadOnly
  /\ UNCHANGED <<kernelVars, localVars, sdpVars, mRtcpInstances, listed, trackLost, overTcp,
                 granted, blind, up>>

\* What the thread follows is there: mRtpInstances[mTrackId], over UDP both.
Follows(c) ==
  /\ c \notin trackLost /\ mRtpInstances[c] # "null"
  /\ c \in overTcp \/ mRtcpInstances[c] # "null"

\* It follows NULL, or what is in front of the arrays, otherwise.
SetSessionId(c) ==
  /\ up /\ io[c] = "setSessionId" /\ Goto(c, "addRtpInstance") /\ up' = Follows(c)
  /\ ThreadOnly /\ NoSetup /\ UNCHANGED <<kernelVars, localVars, sdpVars>>

\* It adds what the entry is by now; no track has the number of a lost mTrackId.
AddRtpInstance(c) ==
  /\ up /\ io[c] = "addRtpInstance" /\ Goto(c, "reply")
  /\ listed' = listed \cup (IF c \in trackLost THEN {}
                            ELSE IF mRtpInstances[c] = "null" THEN {None} ELSE {c})
  /\ ThreadOnly
  /\ UNCHANGED <<kernelVars, localVars, sdpVars, mRtpInstances, mRtcpInstances, trackLost,
                 setupVars, up>>

\* The reply over UDP asks both instances for their ports.  The one read of each is
\* the last, so the reply is part of the step.
SetupReply(c) ==
  /\ up /\ io[c] = "reply" /\ Done(c)
  /\ up' = (c \in overTcp \/ Follows(c))
  /\ granted' = IF up' THEN granted \cup {c} ELSE granted
  /\ ThreadOnly
  /\ UNCHANGED <<kernelVars, localVars, sdpVars, entryVars, overTcp, blind, early>>

\* The timer thread walks over the list and comes to a NULL: see sendPacket.
WalkMeetsNull ==
  /\ up /\ None \in listed /\ up' = FALSE
  /\ UNCHANGED <<kernelVars, mainVars, clientVars, acceptVars, io, localVars, sdpVars,
                 entryVars, setupVars>>

IOThread(c) ==
  \/ ReadByBase(c) \/ ReadByRaw(c)
  \/ Describe(c) \/ GetLocalIp(c) \/ CloseLocalIp(c) \/ Fill(c) \/ CopySdp(c)
  \/ SetupRefused(c) \/ SetupMulticast(c) \/ SetupUnicast(c) \/ SetupOverTcp(c)
  \/ RtpSocket(c) \/ RtcpSocket(c) \/ BindRtp(c) \/ BindRtcpFails(c) \/ BindRtcp(c)
  \/ StoreRtp(c) \/ StoreRtcp(c) \/ StoreTcp(c)
  \/ SetSessionId(c) \/ AddRtpInstance(c) \/ SetupReply(c)

Main == Listen \/ DoClient

Next ==
  \/ StartMulticast \/ Main \/ AcceptThread \/ WalkMeetsNull
  \/ \E c \in Client :
       \/ Connect(c) \/ IOThread(c)
       \/ \E request \in {"DESCRIBE", "SETUP"} : Send(c, request)

Spec == Init /\ [][Next]_vars

\* The threads run on; no client has to do anything.
FairSpec ==
  /\ Spec
  /\ WF_vars(AcceptThread)
  /\ \A c \in Client : WF_vars(IOThread(c))

-----------------------------------------------------------------------------
KernelOK ==
  /\ held \in [Holder -> Fd \cup {None}]
  /\ open \subseteq Fd /\ port \in [Fd -> Nat]

AcceptOK ==
  /\ main \in {"build", "listening", "running"} /\ multicast \in BOOLEAN
  /\ peer \in [Client -> {"away", "waiting", "in"}]
  /\ backlog \in Seq(Client) /\ asked \in 0..MaxAsked
  /\ acc \in {"off", "accept", "build"} /\ fresh \in Client \cup {None}
  /\ acc = "build" => fresh \in Client
  /\ built \in [Client -> {"none", "base", "raw", "members", "half", "cleared", "ready",
                           "known"}]
  /\ mConnections \in [Fd -> Client \cup {None}]

ThreadsOK ==
  /\ sent \in [Client -> {"none", "DESCRIBE", "SETUP"}]
  /\ io \in [Client -> {"off", "read", "getLocalIp", "closeLocalIp", "fill", "copy",
                        "rtpSocket", "rtcpSocket", "bindRtp", "bindRtcp", "storeRtp",
                        "storeRtcp", "storeTcp", "setSessionId", "addRtpInstance", "reply"}]
  /\ tries \in [Client -> 0..(MaxTries - 1)] /\ localPort \in [Client -> RtpPort \cup {0}]
  /\ ip \in [Client -> {None, "0.0.0.0", "host"}]
  /\ mSdp \in {None, "0.0.0.0", "host", Garbled}
  /\ answer \in [Client -> {None, "0.0.0.0", "host", Garbled}]
  /\ raced \subseteq Client /\ up \in BOOLEAN

EntriesOK ==
  /\ mRtpInstances \in [Client -> {"null", "garbage", "udp", "tcp"}]
  /\ mRtcpInstances \in [Client -> {"null", "garbage", "udp"}]
  /\ listed \subseteq Client \cup {None} /\ trackLost \subseteq Client
  /\ overTcp \subseteq Client /\ granted \subseteq Client
  /\ blind \subseteq Client /\ early \subseteq Client

TypeOK == KernelOK /\ AcceptOK /\ ThreadsOK /\ EntriesOK

\* Whoever opens, closes and accepts in between, what is open is held by one variable
\* or instance, and by one only: a descriptor leaks with an instance the
\* constructor throws away, and on no other path.
DescriptorsAccounted ==
  /\ open = {held[h] : h \in Holder} \ {None}
  /\ \A h \in Holder : held[h] # None => \A k \in Holder : held[k] = held[h] => k = h

\* The ports that the instances of a SETUP announce are those their sockets are bound
\* to, one next to the other, however many attempts failed and whoever drew the same.
AnnouncedPortsAreBound ==
  \A c \in Client :
    /\ held[<<"rtpInstance", c>>] # None =>
         port[held[<<"rtpInstance", c>>]] = localPort[c]
    /\ held[<<"rtcpInstance", c>>] # None =>
         port[held[<<"rtcpInstance", c>>]] = localPort[c] + 1

\* A client that was answered 200 has its instances, and the session's list the one
\* media is sent to, whatever part of the constructor came between two steps of its
\* SETUP: only an instance stored before its entry was cleared is lost, and that
\* SETUP began before the constructor was done.
GrantedIsKept ==
  \A c \in granted :
    IF c \in early THEN c \in blind
    ELSE /\ c \in listed /\ mRtpInstances[c] \in {"udp", "tcp"}
         /\ mRtpInstances[c] = "udp" => mRtcpInstances[c] = "udp"

\* All clients have the same description, even one made while no descriptor was free,
\* except those whose DESCRIBE met another one that was making it.
DescriptionsAgree ==
  \A c \in Client \ raced : answer[c] \in {None, mSdp}

\* Whatever the clients send is dealt with, if the process stays up: the accept thread
\* completes the connection, the attempts to find a pair of ports end, and no request
\* waits for a descriptor or for another client.  They ask only so much, so it is
\* enough that nobody waits in the end.
RequestEnds == <>[](~up \/ \A c \in Client : sent[c] = "none")
=============================================================================
