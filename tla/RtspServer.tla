----------------------------- MODULE RtspServer -----------------------------
(***************************************************************************)
(* The RTSP server at work: one IO thread per accepted connection answers  *)
(* requests (RtspConnection), SETUP registers RTP instances in the lists   *)
(* of the media sessions (MediaSession), and the timer thread walks those  *)
(* lists to send every RTP packet (RtpSink, MediaSession::sendPacket).     *)
(*                                                                         *)
(* Nothing locks the lists.  One push_back beside the walking timer thread *)
(* behaves as an atomic append (module TrackList shows it).  When two IO   *)
(* threads are inside addRtpInstance on the same track at once the list is *)
(* marked torn and may lose instances from then on, while the timer thread *)
(* may still be walking instances it has lost.                             *)
(***************************************************************************)
EXTENDS Naturals, Sequences

CONSTANTS
  Conn,       \* the connections, each with the IO thread that serves it
  Session,    \* the media sessions added to the server
  LiveTrack,  \* the <<session, track>> pairs an RtpSink was added to
  Multicast,  \* the sessions startMulticast was called on
  Channel,    \* interleaved channels a client may ask for
  Port,       \* RTP ports a client may ask for
  Asked,      \* the SETUP requests each client sends
  Command,    \* the other requests they send
  SeqMod,     \* RTP sequence numbers wrap at SeqMod (65536 in the code)
  None        \* the null pointer, an indeterminate value, no packet yet

Track == 0..1
Instance == Conn \X Track

VARIABLES
  up,             \* the process runs
  peer,           \* state of the client's end of each TCP connection
  pc,             \* what the IO thread of each connection is doing
  req,            \* the SETUP request an IO thread is working on
  mIsRtpOverTcp,  \* the connections whose mIsRtpOverTcp is true
  mRtpChannel, mPeerRtpPort,  \* fields of RtspConnection
  mRtpInstances,  \* the RTP instance of each connection and track
  mIsAlive,       \* the instances whose mIsAlive is true
  list,           \* the instances of each track of each session
  torn,           \* the lists on which two push_backs have overlapped
  cur, ahead,     \* the list the timer thread walks, and the instances from
                  \* the one it stands at to end()
  mSeq,           \* sequence number of each track's sink
  last,           \* history: last sequence number sent to an instance
  granted,        \* history: the instances whose SETUP was answered with 200
  played          \* history: the connections whose PLAY was answered with 200

connVars == <<mIsRtpOverTcp, mRtpChannel, mPeerRtpPort>>
timerVars == <<cur, ahead, mSeq, last>>
vars == <<up, peer, pc, req, connVars, mRtpInstances, mIsAlive, list, torn,
          timerVars, granted, played>>

SeqNo == 0..(SeqMod - 1)
NextSeqNoWrap(n) == n + 1    \* mutant: no 16-bit wrap
NextSeq(n) == IF n = SeqMod - 1 THEN 0 ELSE n + 1

\* Transport headers by what parseTransport makes of them.
Transport == [kind : {"tcp"}, val : Channel] \cup [kind : {"udp"}, val : Port]
             \cup [kind : {"multicast", "tcpNoChannel", "unusable"}, val : {None}]
SetupRequest == [s : Session \cup {None}, t : Track \cup {None}, tr : Transport]
RtpRecord == [kind : {"tcp", "udp"}, dest : Channel \cup Port \cup {None},
              sess : Session]
Method == {"OPTIONS", "DESCRIBE", "PLAY", "TEARDOWN", "GET_PARAMETER"}
Location == Method \cup {"idle", "SETUP", "add", "reply", "alive0", "alive1"}

ASSUME RtspAssumption ==
  /\ LiveTrack \subseteq Session \X Track
  /\ Multicast \subseteq Session
  /\ Asked \in [Conn -> SUBSET SetupRequest] /\ Command \subseteq Method
  /\ SeqMod \in Nat \ {0}
  /\ None \notin Session \cup SeqNo
  /\ None \notin (Session \X Track) \cup SetupRequest \cup RtpRecord

-----------------------------------------------------------------------------
Init ==
  /\ up = TRUE
  /\ peer = [c \in Conn |-> "none"]
  /\ pc = [c \in Conn |-> "idle"]
  /\ req = [c \in Conn |-> None]
  /\ mIsRtpOverTcp = {}
  /\ mRtpChannel = [c \in Conn |-> None]
  /\ mPeerRtpPort = [c \in Conn |-> None]
  /\ mRtpInstances = [i \in Instance |-> None]
  /\ mIsAlive = {}
  /\ list = [k \in Session \X Track |-> <<>>]
  /\ torn = {}
  /\ cur = None /\ ahead = <<>>
  /\ mSeq = [k \in Session \X Track |-> 0]
  /\ last = [i \in Instance |-> None]
  /\ granted = {}
  /\ played = {}

-----------------------------------------------------------------------------
(* The clients and the accept thread.                                      *)

\* Receiver::acceptthread hands the socket to RtspServer::handleNewConnection.
HandleNewConnection(c) ==
  /\ up /\ peer[c] = "none"
  /\ peer' = [peer EXCEPT ![c] = "open"]
  /\ UNCHANGED <<up, pc, req, connVars, mRtpInstances, mIsAlive, list, torn,
                 timerVars, granted, played>>

\* The client stops reading until its window is closed, and reads again.
ClientStalls(c) ==
  /\ up /\ peer[c] = "open"
  /\ peer' = [peer EXCEPT ![c] = "full"]
  /\ UNCHANGED <<up, pc, req, connVars, mRtpInstances, mIsAlive, list, torn,
                 timerVars, granted, played>>
ClientReads(c) ==
  /\ up /\ peer[c] = "full"
  /\ peer' = [peer EXCEPT ![c] = "open"]
  /\ UNCHANGED <<up, pc, req, connVars, mRtpInstances, mIsAlive, list, torn,
                 timerVars, granted, played>>

\* The client closes its socket, or resets the connection when it had unread
\* data.  handleRead then reports it to disconnectionCallback, which only
\* logs: the connection and its instances stay.
ClientClose(c) ==
  /\ up /\ peer[c] \in {"open", "full"}
  /\ \E p \in {"fin", "rst"} : peer' = [peer EXCEPT ![c] = p]
  /\ UNCHANGED <<up, pc, req, connVars, mRtpInstances, mIsAlive, list, torn,
                 timerVars, granted, played>>

\* write() on the connection's socket, which blocks while the window is closed:
\* acceptClient leaves the socket in blocking mode.  After the client's FIN the
\* first bytes draw an RST; from then on write fails, and SIGPIPE kills the
\* process unless an earlier pending error is what write reports.
WriteOk(c) ==
  /\ peer[c] \in {"open", "fin"}
  /\ \E p \in IF peer[c] = "open" THEN {"open"} ELSE {"fin", "rst"} :
        peer' = [peer EXCEPT ![c] = p]
  /\ UNCHANGED up
WriteFails(c) ==
  /\ peer[c] = "rst"
  /\ up' \in {TRUE, FALSE}
  /\ UNCHANGED peer

-----------------------------------------------------------------------------
(* The IO thread of a connection: parse a request, then handle it.         *)

Reading(c) == up /\ pc[c] = "idle" /\ peer[c] \in {"open", "full", "fin"}
Goto(c, l) == pc' = [pc EXCEPT ![c] = l]
Done(c) == Goto(c, "idle") /\ req' = [req EXCEPT ![c] = None]

\* The end of a function that is declared to return a value and does not.  Some
\* compilers let it return an indeterminate value, which the callers ignore or
\* turn into a line of the log; others end the function in the middle of
\* whatever code comes next, and the process is lost.
MissingReturn == up' \in BOOLEAN

\* A request other than SETUP that parseRequest accepts.
Receive(c, m) ==
  /\ Reading(c)
  /\ Goto(c, m)
  /\ UNCHANGED <<up, peer, req, connVars, mRtpInstances, mIsAlive, list, torn,
                 timerVars, granted, played>>

\* Mutant of ReceiveSetup: the client's ports are not stored.
ReceiveSetupNoPort(c, r) ==
  /\ Reading(c)
  /\ mIsRtpOverTcp' = IF r.tr.kind \in {"tcp", "tcpNoChannel"}
                      THEN mIsRtpOverTcp \cup {c} ELSE mIsRtpOverTcp
  /\ mRtpChannel' = [mRtpChannel EXCEPT
                         ![c] = IF r.tr.kind = "tcp" THEN r.tr.val ELSE @]
  /\ IF r.tr.kind \in {"tcp", "udp", "multicast"} /\ r.t \in Track
     THEN Goto(c, "SETUP") /\ req' = [req EXCEPT ![c] = r]
     ELSE UNCHANGED <<pc, req>>
  /\ UNCHANGED <<up, peer, mPeerRtpPort, mRtpInstances, mIsAlive, list, torn,
                 timerVars, granted, played>>

\* A SETUP request.  parseTransport has set the connection's fields even when
\* it fails on the channel numbers, or parseMediaTrack fails after it.
ReceiveSetup(c, r) ==
  /\ Reading(c)
  /\ mIsRtpOverTcp' = IF r.tr.kind \in {"tcp", "tcpNoChannel"}
                      THEN mIsRtpOverTcp \cup {c} ELSE mIsRtpOverTcp
  /\ mRtpChannel' = [mRtpChannel EXCEPT
                         ![c] = IF r.tr.kind = "tcp" THEN r.tr.val ELSE @]
  /\ mPeerRtpPort' = [mPeerRtpPort EXCEPT
                         ![c] = IF r.tr.kind = "udp" THEN r.tr.val ELSE @]
  /\ IF r.tr.kind \in {"tcp", "udp", "multicast"} /\ r.t \in Track
     THEN Goto(c, "SETUP") /\ req' = [req EXCEPT ![c] = r]
     ELSE UNCHANGED <<pc, req>>
  /\ UNCHANGED <<up, peer, mRtpInstances, mIsAlive, list, torn, timerVars,
                 granted, played>>

\* handleCmdOption, handleCmdTeardown, and handleCmdDescribe of a known
\* session: the reply is all there is to them.
AnswerOnly(c) ==
  /\ up /\ pc[c] \in {"OPTIONS", "DESCRIBE", "TEARDOWN"}
  /\ WriteOk(c) \/ WriteFails(c)
  /\ Done(c)
  /\ UNCHANGED <<connVars, mRtpInstances, mIsAlive, list, torn, timerVars,
                 granted, played>>

\* handleCmdGetParamter has no body, and handleCmdDescribe sends nothing when
\* it does not know the session.
NoAnswer(c) ==
  /\ up
  /\ \/ pc[c] = "GET_PARAMETER" /\ MissingReturn
     \/ pc[c] = "DESCRIBE" /\ UNCHANGED up
  /\ Done(c)
  /\ UNCHANGED <<peer, connVars, mRtpInstances, mIsAlive, list, torn,
                 timerVars, granted, played>>

\* handleCmdSetup finds the session unknown, or the track in use.
TrackNeverInUse(i) == FALSE  \* mutant: no test of mRtpInstances[mTrackId]
TrackInUse(i) == mRtpInstances[i] # None
SetupRefused(c) ==
  /\ up /\ pc[c] = "SETUP"
  /\ req[c].s = None \/ TrackInUse(<<c, req[c].t>>)
  /\ Done(c)
  /\ UNCHANGED <<up, peer, connVars, mRtpInstances, mIsAlive, list, torn,
                 timerVars, granted, played>>

SetupMayProceed(c) ==
  up /\ pc[c] = "SETUP" /\ req[c].s # None /\ ~TrackInUse(<<c, req[c].t>>)

\* handleCmdSetup on a multicast session: nothing to create.
SetupMulticast(c) ==
  /\ SetupMayProceed(c) /\ req[c].s \in Multicast
  /\ Goto(c, "reply")
  /\ UNCHANGED <<up, peer, req, connVars, mRtpInstances, mIsAlive, list, torn,
                 timerVars, granted, played>>

\* Mutant of NewInstance: addRtpInstance is not called.
NewInstanceOnly(c, k, d) ==
  /\ mRtpInstances' = [mRtpInstances EXCEPT ![<<c, req[c].t>>] =
                         [kind |-> k, dest |-> d, sess |-> req[c].s]]
  /\ Goto(c, "reply")
  /\ UNCHANGED req

NewInstance(c, k, d) ==
  /\ mRtpInstances' = [mRtpInstances EXCEPT ![<<c, req[c].t>>] =
                         [kind |-> k, dest |-> d, sess |-> req[c].s]]
  /\ Goto(c, "add")
  /\ UNCHANGED req

\* createRtpOverTcp, or createRtpRtcpOverUdp, which fails when it gets no
\* sockets or no free pair of ports.  mRtcpInstances follows the UDP instance.
SetupCreate(c) ==
  /\ SetupMayProceed(c) /\ req[c].s \notin Multicast
  /\ \/ c \in mIsRtpOverTcp /\ NewInstance(c, "tcp", mRtpChannel[c])
     \/ c \notin mIsRtpOverTcp /\ NewInstance(c, "udp", mPeerRtpPort[c])
     \/ c \notin mIsRtpOverTcp /\ Done(c) /\ UNCHANGED mRtpInstances
  /\ UNCHANGED <<up, peer, connVars, mIsAlive, list, torn, timerVars, granted,
                 played>>

\* What a push_back on a torn list may make of what can be reached from some
\* node: nothing, or i becomes the last, in place of what followed the n-th.
LossyAppend(s, from, i) ==
  {s} \cup {Append(SubSeq(s, 1, n), i) : n \in from..Len(s)}

\* MediaSession::addRtpInstance, called by handleCmdSetup, which ignores its
\* result.  A timer thread that has read end() does not meet the new instance.
Walking(k) == cur = k /\ ahead # <<>>
Clash(c, k) ==
  \E d \in Conn \ {c} : pc[d] = "add" /\ <<req[d].s, req[d].t>> = k
AddRtpInstance(c) ==
  LET k == <<req[c].s, req[c].t>>
      i == <<c, req[c].t>>
  IN
  /\ up /\ pc[c] = "add"
  /\ \/ k \notin LiveTrack /\ UNCHANGED <<list, torn, ahead>>
     \/ /\ k \in LiveTrack /\ ~Clash(c, k) /\ k \notin torn
        /\ list' = [list EXCEPT ![k] = Append(@, i)]
        /\ ahead' = IF Walking(k) THEN Append(ahead, i) ELSE ahead
        /\ UNCHANGED torn
     \/ /\ k \in LiveTrack /\ (Clash(c, k) \/ k \in torn)
        /\ torn' = torn \cup {k}
        /\ \E s \in LossyAppend(list[k], 0, i) : list' = [list EXCEPT ![k] = s]
        /\ IF Walking(k) THEN ahead' \in LossyAppend(ahead, 1, i)
           ELSE UNCHANGED ahead
  /\ Goto(c, "reply")
  /\ UNCHANGED <<up, peer, req, connVars, mRtpInstances, mIsAlive, cur, mSeq, last,
                 granted, played>>

\* The end of handleCmdSetup.  A reply that cannot be sent leaves the instance
\* in place.
SetupReply(c) ==
  LET i == <<c, req[c].t>> IN
  /\ up /\ pc[c] = "reply"
  /\ \/ /\ WriteOk(c)
        /\ granted' = IF TrackInUse(i) THEN granted \cup {i} ELSE granted
     \/ WriteFails(c) /\ UNCHANGED granted
  /\ Done(c)
  /\ UNCHANGED <<connVars, mRtpInstances, mIsAlive, list, torn, timerVars,
                 played>>

\* Mutant of PlayReply: the result of sendMessage is not looked at.
PlayReplyUnchecked(c) ==
  /\ up /\ pc[c] = "PLAY"
  /\ \/ WriteOk(c) /\ played' = played \cup {c}
     \/ WriteFails(c) /\ UNCHANGED played
  /\ Goto(c, "alive0")
  /\ UNCHANGED <<req, connVars, mRtpInstances, mIsAlive, list, torn, timerVars,
                 granted>>

\* handleCmdPlay sends the reply first ...
PlayReply(c) ==
  /\ up /\ pc[c] = "PLAY"
  /\ \/ WriteOk(c) /\ played' = played \cup {c} /\ Goto(c, "alive0")
     \/ WriteFails(c) /\ Goto(c, "idle") /\ UNCHANGED played
  /\ UNCHANGED <<req, connVars, mRtpInstances, mIsAlive, list, torn, timerVars,
                 granted>>

\* Mutant of SetAlive: the loop starts at track 1.
SetAliveFrom1(c, t) ==
  /\ up /\ pc[c] = IF t = 0 THEN "alive0" ELSE "alive1"
  /\ mIsAlive' = IF t = 1 /\ TrackInUse(<<c, t>>)
                 THEN mIsAlive \cup {<<c, t>>} ELSE mIsAlive
  /\ Goto(c, IF t = 0 THEN "alive1" ELSE "idle")
  /\ UNCHANGED <<up, peer, req, connVars, mRtpInstances, list, torn, timerVars,
                 granted, played>>

\* ... and then sets the instances of track 0 and of track 1 alive, with
\* RtpInstance::setAlive, which returns nothing.
SetAlive(c, t) ==
  /\ up /\ pc[c] = IF t = 0 THEN "alive0" ELSE "alive1"
  /\ mIsAlive' = IF TrackInUse(<<c, t>>) THEN mIsAlive \cup {<<c, t>>} ELSE mIsAlive
  /\ Goto(c, IF t = 0 THEN "alive1" ELSE "idle")
  /\ IF TrackInUse(<<c, t>>) THEN MissingReturn ELSE UNCHANGED up
  /\ UNCHANGED <<peer, req, connVars, mRtpInstances, list, torn, timerVars,
                 granted, played>>

-----------------------------------------------------------------------------
(* The timer thread: one RTP packet of one sink at a time.                 *)

\* RtpSink::sendRtpPacket enters MediaSession::sendPacket on its track.
StartPacket(k) ==
  /\ up /\ cur = None
  /\ cur' = k /\ ahead' = list[k]
  /\ UNCHANGED <<up, peer, pc, req, connVars, mRtpInstances, mIsAlive, list,
                 torn, mSeq, last, granted, played>>

AtInstance == up /\ cur # None /\ ahead # <<>>

Advance == ahead' = Tail(ahead)

\* One iteration of sendPacket's loop on an instance that is not alive.
SkipInstance ==
  /\ AtInstance /\ Head(ahead) \notin mIsAlive
  /\ Advance
  /\ UNCHANGED <<up, peer, pc, req, connVars, mRtpInstances, mIsAlive, list,
                 torn, cur, mSeq, last, granted, played>>

\* Mutant of SendToInstance: an error ends the loop.
SendUntilError ==
  /\ AtInstance /\ Head(ahead) \in mIsAlive
  /\ LET i == Head(ahead) IN
     /\ IF mRtpInstances[i].kind = "tcp"
        THEN \/ WriteOk(i[1]) /\ Advance
             \/ WriteFails(i[1]) /\ ahead' = <<>>
        ELSE UNCHANGED <<up, peer>> /\ Advance
     /\ last' = [last EXCEPT ![i] = mSeq[cur]]
  /\ UNCHANGED <<pc, req, connVars, mRtpInstances, mIsAlive, list, torn, cur,
                 mSeq, granted, played>>

\* One iteration on an alive instance: RtpInstance::send, whose result is
\* ignored.  An interleaved instance writes to its connection's TCP socket.
SendToInstance ==
  /\ AtInstance /\ Head(ahead) \in mIsAlive
  /\ LET i == Head(ahead) IN
     /\ IF mRtpInstances[i].kind = "tcp"
        THEN WriteOk(i[1]) \/ WriteFails(i[1])
        ELSE UNCHANGED <<up, peer>>
     /\ last' = [last EXCEPT ![i] = mSeq[cur]]
  /\ Advance
  /\ UNCHANGED <<pc, req, connVars, mRtpInstances, mIsAlive, list, torn, cur,
                 mSeq, granted, played>>

\* The loop has reached end(): H264RtpSink::handleFrame increments mSeq.
EndPacket ==
  /\ up /\ cur # None /\ ahead = <<>>
  /\ mSeq' = [mSeq EXCEPT ![cur] = NextSeq(@)]
  /\ cur' = None
  /\ UNCHANGED <<up, peer, pc, req, connVars, mRtpInstances, mIsAlive, list,
                 torn, ahead, last, granted, played>>

-----------------------------------------------------------------------------
Handler(c) ==
  \/ AnswerOnly(c) \/ NoAnswer(c)
  \/ SetupRefused(c) \/ SetupMulticast(c) \/ SetupCreate(c)
  \/ AddRtpInstance(c) \/ SetupReply(c)
  \/ PlayReply(c) \/ \E t \in Track : SetAlive(c, t)

Client(c) ==
  \/ HandleNewConnection(c)
  \/ ClientStalls(c) \/ ClientReads(c) \/ ClientClose(c)
  \/ \E m \in Command : Receive(c, m)
  \/ \E r \in Asked[c] : ReceiveSetup(c, r)

Walk == SkipInstance \/ SendToInstance \/ EndPacket

Next ==
  \/ \E c \in Conn : Client(c) \/ Handler(c)
  \/ \E k \in LiveTrack : StartPacket(k)
  \/ Walk

Spec == Init /\ [][Next]_vars

\* A handler that has begun runs on, the timer thread walks on, and every
\* sink's repeating timer fires again and again (module TimerQueue).
Fairness ==
  /\ \A c \in Conn : WF_vars(Handler(c))
  /\ WF_vars(Walk)
  /\ \A k \in LiveTrack : SF_vars(StartPacket(k))

FairSpec == Spec /\ Fairness

-----------------------------------------------------------------------------
TypeOK ==
  /\ up \in BOOLEAN
  /\ peer \in [Conn -> {"none", "open", "full", "fin", "rst"}]
  /\ pc \in [Conn -> Location]
  /\ req \in [Conn -> SetupRequest \cup {None}]
  /\ mIsRtpOverTcp \subseteq Conn
  /\ mRtpChannel \in [Conn -> Channel \cup {None}]
  /\ mPeerRtpPort \in [Conn -> Port \cup {None}]
  /\ mRtpInstances \in [Instance -> RtpRecord \cup {None}]
  /\ mIsAlive \subseteq Instance
  /\ list \in [Session \X Track -> Seq(Instance)]
  /\ torn \subseteq Session \X Track
  /\ cur \in LiveTrack \cup {None} /\ ahead \in Seq(Instance)
  /\ mSeq \in [Session \X Track -> SeqNo]
  /\ last \in [Instance -> SeqNo \cup {None}]
  /\ granted \subseteq Instance
  /\ played \subseteq Conn

\* Every list holds an instance at most once, only instances that were set up
\* on that session and track, so no instance is in two lists: sendPacket never
\* sends a packet twice to a client and never sends one of a session the
\* client did not set up.
RegisteredOnce ==
  \A k \in Session \X Track :
    /\ \A p, q \in 1..Len(list[k]) : list[k][p] = list[k][q] => p = q
    /\ \A p \in 1..Len(list[k]) :
         LET i == list[k][p] IN
         /\ mRtpInstances[i] # None
         /\ k = <<mRtpInstances[i].sess, i[2]>>

\* A client told 200 to a unicast SETUP of a track that has a sink is in that
\* track's list, unless push_backs have torn the list.
GrantedIsRegistered ==
  \A i \in Instance :
    i \in granted =>
      LET k == <<mRtpInstances[i].sess, i[2]>> IN
      k \in LiveTrack /\ k \notin torn =>
        \E p \in 1..Len(list[k]) : list[k][p] = i

\* Once an instance of an intact list has been sent a packet it is sent every
\* later packet of its sink exactly once, across the 16-bit wrap and whatever
\* SETUP and PLAY requests arrive while the timer thread walks the list.
NoGap ==
  \A k \in LiveTrack : k \notin torn =>
    \A p \in 1..Len(list[k]) :
      LET l == last[list[k][p]]
          passed == cur = k /\ p <= Len(list[k]) - Len(ahead)
      IN l # None => mSeq[k] = IF passed THEN l ELSE NextSeq(l)

\* No RTP packet goes to a client that has not been answered a PLAY: on an
\* interleaved connection the reply is always in the stream before it.
MediaOnlyAfterPlay ==
  \A i \in Instance : last[i] # None => i[1] \in played

\* A new instance goes where the SETUP that created it asked.  Only a request
\* that is not for TCP can be given TCP instead, on a connection that has
\* named TCP before.
DestinationFromRequest ==
  [][\A i \in Instance :
       mRtpInstances[i] = None /\ mRtpInstances'[i] # None =>
         LET want == req[i[1]].tr
             got  == mRtpInstances'[i]
         IN \/ want.kind = got.kind /\ want.val = got.dest
            \/ want.kind # "tcp" /\ got.kind = "tcp"
            \/ want.kind = "multicast" /\ got.kind = "udp"
    ]_vars

\* A PLAY that is received brings packets to every instance the client was
\* granted on a track with a sink.  What can prevent it is the client closing
\* or stalling, another interleaved client that stalls while the timer thread
\* writes to it, a torn list, and the end of the process.
PlayLeadsToMedia ==
  [](\A c \in Conn, k \in LiveTrack :
      LET i == <<c, k[2]>> IN
      pc[c] = "PLAY" /\ i \in granted /\ mRtpInstances[i].sess = k[1] =>
        <>(\/ last[i] # None
           \/ ~up \/ peer[c] # "open" \/ k \in torn
           \/ \E d \in Instance : peer[d[1]] = "full" /\ d \in mIsAlive
                                   /\ mRtpInstances[d].kind = "tcp"))

\* As long as every client stays and asks for what the server announces in its
\* replies, the server runs: test/rtspserver_test.cpp starts it and then sleeps
\* for ever, and handleReadBytes logs "handle PLAY cmd successful".
RunsWhileClientsStay == (\A c \in Conn : peer[c] \in {"none", "open", "full"}) => up
=============================================================================
