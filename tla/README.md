# A verification development for miniRtspServer

TLA+ modules, TLC runs and TLAPS proofs about miniRtspServer, a small RTSP
server in C++. Source paths below are relative to the repository; `Connection:459`
style references give a file of `src/rtsp` or `src/base` and a line.

## 1. The system

### Threads

| thread | code | runs |
|---|---|---|
| main | `test/rtspserver_test.cpp` | builds sources, sinks and sessions, calls `RtspServer::start`, then sleeps for ever |
| accept | `Receiver::acceptthread` | accepts a client, hands it to `RtspServer::handleNewConnection` |
| IO, one per connection | `IOEvent::doEventLoop` | `TcpConnect::handleRead`, `RtspConnection::handleReadBytes`: read, parse, handle one request |
| timer | `Env::run` | sleeps to the first timer, calls due callbacks: `MediaSource::readFrame` and `RtpSink::timeoutCallback` |

IO threads and the timer thread share, without any lock, the RTP instance lists
of the sessions, the `mIsAlive` flag of every instance, and the TCP sockets of
interleaved clients. The timer queue and the frame queues have a mutex.

### Components

| component | state | operations | hard part | what makes it correct |
|---|---|---|---|---|
| RtspConnection | `mIsRtpOverTcp`, `mRtpChannel`, `mPeerRtpPort`, `mTrackId`, `mRtpInstances` | one handler per RTSP method | any order of requests; fields outlive the request; replies can fail or block | an instance goes where its SETUP asked; media only after PLAY; PLAY brings media |
| MediaSession | per track: sink, `mRtpInstances` list; `mSdp`; multicast instances | `addRtpSink`, `addRtpInstance`, `removeRtpInstance`, `sendPacket`, `startMulticast`, `generateSDPDescription` | lists appended to and walked by several threads with no lock | an instance is in one list, once; an instance told 200 is in it; walks are safe and end; everybody gets the same description |
| RtpInstance, RtcpInstance | destination, `mIsAlive` | `send`, `setAlive` | shared socket; missing return value | the process survives PLAY |
| RtpSink, H264RtpSink | `mSeq`, `mTimestamp` | `handleFrame`, `sendRtpPacket` | 16-bit wrap, fragment arithmetic | no gap, no duplicate; fragments reassemble to the frame |
| TimerEventQueue, Env | `_timers`, `_repeatTimers`, `_lastTimerId` | `addTimer`, `removeTimer`, `getTimeRemaining`, `handleTimerEvent` | two maps keyed differently; late thread; stale sleep | removed timers are silent; armed ones fire; the mutex is released |
| RtspServer | sessions, connections | `addMeidaSession`, `handleNewConnection`, lookup | clients that go are only logged | sessions are found; nothing dangles |
| TcpServer, Receiver, TcpConnect, IOEvent | sockets, callbacks | accept, read, disconnect callback | IO thread starts inside the base constructor; descriptors run out | every request is dealt with; what a SETUP beside the constructor was granted is lost in the named case only |
| DataBuffer | bytes, two indices | `read`, `write`, `append`, `retrieve*`, CRLF searches | index arithmetic, growth | a byte queue; `write` only hands what is unread to the socket |
| MediaSource, H264FileMediaSource | four frames in two queues | `getFrame`, `putFrame`, `readFrame` | pool between two timers, end of file | frames conserved, file cut at start codes |
| SignalEvent | `mSignal` | `setSignal`, `stop`, `run` | a signal during the task | a signal outside the task and its reset is served, none twice |
| Sockets | the process's descriptors and ports | create, bind, accept, close, `getLocalIp` | each can fail part-way | no descriptor lost; announced ports are bound |
| Mutex, log | | wrappers of library calls | | |

Dead code: `handleDisconnectionList`, `triggerCallback`, the destructor of
`RtspConnection`, `removeRtpInstance` on a running server, `TimeEventManager::start`.

## 2. The modules

| module | models | checked by | proved in |
|---|---|---|---|
| `RtspServer` | connections, handlers, lists and the timer thread's walk | `MCRtspServer` | `RtspServerProofs` |
| `TrackList` | one track's `std::list`, pointer by pointer | `MCTrackList` | `TrackListProofs` |
| `InstanceList` | what `MediaSession` needs of that list (abstract) | refined by `TrackList` | `TrackListProofs` |
| `TimerQueue` | the timer queue and its thread, with time | `MCTimerQueue` | `TimerQueueProofs` |
| `MediaPath` | the file, the pool of frames, and the cutting into packets | `MCMediaPath` | `MediaPathProofs` |
| `DataBuffer` | the growing byte buffer (operators only) | `MCRtspInput` | `RtspInputProofs` |
| `RtspInput` | one connection's input: what each read makes of a byte stream | `MCRtspInput` | `RtspInputProofs` |
| `ServerStart` | main, the accept thread, the construction of connections, and the descriptors they share | `MCServerStart` | `ServerStartProofs` |
| `SignalEvent` | the polled worker thread | `MCSignalEvent` | `SignalEventProofs` |

`SequenceLemmas` models nothing: it holds the lemmas about sequences, and about `FlattenSeq`, that
the proofs about files and streams share.

They fit together as follows. `TrackList` looks inside two steps that
`RtspServer` takes as atomic: `AddRtpInstance` and one iteration of
`sendPacket`. It shows that a single push_back beside the walk *is* an atomic
append (`AtomicAppend`), and that overlapping push_backs can only cut off what
followed some node (`LossIsTruncation`); `RtspServer` uses exactly these two
effects. The append takes effect in `TrackList` at `Link`, in `RtspServer`
when `addRtpInstance` returns; the difference cannot be seen because an instance is
not alive before a later PLAY of the same thread, so a walk skips it. Two
push_backs overlap only if another IO thread stands at `"add"` for the same
track (`Clash`). `TimerQueue` justifies the fairness of
`StartPacket` in `RtspServer`: a repeating timer fires again and again
(`ArmedFires`); the same for the two timers of `MediaPath`, which looks inside what
`StartPacket` and `EndPacket` take for granted: that there is always another packet, with
the next number. `RtspInput` looks inside `Receive` and `ReceiveSetup`: which bytes become a
request at all. `ServerStart` looks inside two other steps of `RtspServer`: `HandleNewConnection`, which
there finds a finished connection, and `SetupCreate`, which there just may fail; and adds what comes before them.
`SignalEvent` stands alone: only `test/testSignalThread.cpp` uses the class.

### RtspServer

- `pc[c]` is where the IO thread of connection `c` is: `"idle"` (in `readv`),
  a method that was parsed, or a point inside a handler: before
  `addRtpInstance` (`"add"`), before the reply (`"reply"`), before the
  two iterations of PLAY's loop (`"alive0"`, `"alive1"`). A step runs up to the next access
  to something shared.
- `Receive`, `ReceiveSetup`: `parseRequest`. A SETUP stores into the connection
  even when parsing fails after that (`Connection:284`), as the action does.
- `SetupRefused`, `SetupMulticast`, `SetupCreate`, `AddRtpInstance`,
  `SetupReply`: `handleCmdSetup`. `createRtpRtcpOverUdp` may fail.
- `PlayReply`, `SetAlive`: `handleCmdPlay`. `AnswerOnly`, `NoAnswer`: the rest.
- `StartPacket`, `SkipInstance`, `SendToInstance`, `EndPacket`: one RTP packet.
  `cur` is the track, `ahead` what the iterator still has to meet, so that an
  iterator on a part of the list that was cut off goes on over that part.
- `peer[c]` is the client's end: `open`, `full` (window closed; `write` blocks since
  `acceptClient` leaves the socket blocking), `fin` (closed; the next write still
  succeeds and may draw a reset), `rst` (a write fails, and may kill the process
  since SIGPIPE is not ignored).
- `up` becomes FALSE when the process ends. `MissingReturn` is the outcome of
  running off the end of a value-returning function: the build may go on or die.
- Session ids, CSeq, the replies' text and the RTCP instances are left out; no
  property depends on them. So are the two instances `startMulticast` puts
  first in each list of a multicast session: they are alive from the start and
  never on a client's behalf. Interleaved data a client sends on its own
  connection changes nothing but the input buffer.

### TrackList and InstanceList

`Hook`, `Link`, `Close` are the visible stores of libstdc++'s push_back, in
program order, as x86 and the compiled code keep them; on a machine that
reorders stores `Hook` and `Link` could be seen swapped. The walk reads
`_M_next` only. `Overlap` says whether push_backs may overlap.
`InstanceList` has one variable for the list and one for the iterator.

### TimerQueue

Time is discrete and relative to now: `Tick` lowers every timer's key by one, so the
state space is finite without a bound on the clock. The mutex is held exactly in
`"loop"` and `"callback"`. `getTimeRemaining` and the beginning of the sleep are one step: a delay between them
(`Env.cpp:48-53`) makes the thread wake late, as an overlong sleep does, which `MaxLate` allows for. A timer added while the thread sleeps does not wake
it. A repeating timer added with 0 ms has a key and a `_nextTimeout` that differ until
its first firing, since the constructor raises the interval to 1 and the key is
computed from the argument: `removeTimer` misses it, and `RemovedIsSilent` says so.
No code in the repository calls `removeTimer`; its use is modelled for any thread.

### MediaPath

`readFrame` and `timeoutCallback` are callbacks of the one timer thread, so each is one
step (`ReadFails` or `ReadFrame`, `SendFrame` or `Overrun`); their order is left open, since a
late thread calls them in any proportion. The queues' mutex is never contended.
- `file` is the input: bytes in front of the first start code (`lead`) and NAL units, each with
  a start code of 3 or 4 bytes. `Contents` is the file as bytes, and the source sees no more
  than that: `Loaded` reads up to `FrameMax` bytes at `pos`, and `NextStartCodes`
  looks through them with the bounds of `findNextStartCode`, offset by offset.
- `buffer`, `skip` and `size` are `mBuffer`, `mFrame - mBuffer` and `mFrameSize`. A buffer keeps
  old bytes behind a short read; `HasStartCode` looks at them as the code does, before
  it looks at how much was read. `Junk` stands for memory that nothing was read into, and for what is behind a buffer.
- `Packets` builds what `handleFrame` sends for a frame. The NAL's first byte is a field
  (`nalu`). Of fragments it is what the FU indicator (`& 0x60`) and the FU header (`& 0x1F`) carry together, so bit 7 is dropped; a valid
  NAL has 0 there. `start` and `end` are S and E.
- `Overrun` is a `memcpy` of a negative size. Only a file that does not begin with a
  start code, and whose last read is short, leads there (`FileKeepsServerUp`).
- `Round(f)` says, from the NALs alone, what one round through the file should play:
  its NALs in order up to the first that does not fit a buffer together with the start code behind it,
  of which a round gets the beginning; such a read finds no next start code and rewinds (`Fits`, `Whole`, `Cut`).
  `nth` counts the frames that were sent against it, and `Due(k)` is the NAL the k-th frame from there on should hold.
- `AnnexB(f)` is what the H.264 standard says of such a file and what the source relies on: it begins with a start code,
  nothing inside a NAL passes for one, and no NAL is empty or ends in a zero, which would be read as part of the start code
  behind it. The properties about what is played assume it; those about the pool, the numbers and the process do not.
- `Brings(p, v)` says what is true of the packets `p` of a NAL `v`: one packet with its bytes, or fragments with S on the
  first, E on the last, and its bytes followed by at most one more.
- `mTimestamp` counts in frame times of `mClockRate/mFps`. The constant fields of the RTP header are left out.

### DataBuffer and RtspInput

A buffer is a record of the block (`mem`, whose length is `mBufferSize`) and the two indices.
Each method is an operator; the model keeps where the bytes lie, so that a
`makeSpace` that forgot to copy them is seen.

A stream of messages is flattened to pieces: a request's line, its `CSeq` field, the
field its method needs, each CR and LF; a frame's four leading bytes and payload. A piece carries the number of
the message it belongs to; `LineOf` is whose first line was taken. `handleRead(n)` is one return of `readv` with any n bytes that fit,
then one call of `handleReadBytes`:
- `handleRtpOverTcp` once a SETUP has set `mIsRtpOverTcp` and the first unread byte is `$`;
  an incomplete frame stays, a complete one is consumed, and only one per read;
- `HandleRequest` otherwise: the first line is up to the first CRLF, the headers are up to the *last*
  CRLF of everything that has arrived, so that requests behind the first are swallowed;
- `ParseFails`: everything unread is thrown away. A request cut by TCP is lost that way.

Two data abstractions: a line is one piece, so a cut falls between lines, `CSeq` fields, CR and LF but not inside a line (the code looks for CR LF
only, and discards a cut line as it discards a request cut behind one); and no byte of a payload is `$`, CR or LF, so after a
discard the rest of a payload is never taken for a frame's header or a line.

All SETUPs are for interleaved transport. Session, track and URL are left to
`RtspServer`; a request counts as handled (`answers`) when its handler is called.
`apart` and `framing` are history variables for two properties.

### ServerStart

- `Holder` is every variable of the program that holds a descriptor: `held` says which one it holds,
  `open` what the kernel has open and `port` what is bound. The kernel's part is external: `socket` and `accept` give the
  lowest free descriptor (`Free`, `IsLowest`, `Give`), `close` frees it together with its port (`CloseAll`). `Fd` is the limit of the
  process, `Rest` what its other parts may have of it. `lostRtp` and `lostRtcp` are history: the sockets of an instance that
  the constructor has thrown out of its array, which no variable of the program names any more.
- `StartMulticast`, `Listen`, `DoClient` are what `main` does; `multicast` is decided before clients can come.
- `AcceptClient`, then `StartIO`, `SetVirtualTable`, `InitMembers`, `ClearRtp`, `ClearRtcp`, `GetSocketIp`, `Insert`: one connection,
  on the accept thread. `built[c]` is how far it is: `base` (`TcpConnect` is there and the IO thread reads), `raw`
  (virtual table), `members` (`mTrackId`, `mIsRtpOverTcp`), `half` and `cleared` (the entry of the first and of the second array is NULL),
  `ready` (`mPeerIp`), `known` (in `mConnections`). Each step falls anywhere beside the IO thread.
- A request read in `base` goes to `TcpConnect::handleReadBytes`, which throws it away (`ReadByBase`). One read before the
  members are set may be refused or end the process (`ReadByRaw`), or go on: as any SETUP does, or by the branch for TCP that
  garbage in `mIsRtpOverTcp` leads to (`SetupOverTcp`). `StartIO` leaves the arrays as `new` found them, empty or not.
  A SETUP under way that has its `mTrackId` overwritten by `InitMembers` is in `trackLost`. One that began before
  `GetSocketIp` is in `blind`: the `mPeerIp` it copied may have been empty. One that stored an instance before `ClearRtp` or `ClearRtcp` is in `early`.
- `Describe`, `GetLocalIp`, `CloseLocalIp`, `Fill`, `CopySdp`: DESCRIBE. A description is told apart by the address in
  it, which is all that can differ: the track list and the multicast address are fixed by then. `getLocalIp` may answer `0.0.0.0` also when it has
  a socket: if the ioctl fails or no interface but `lo` is there. `Fill` is the assignment to
  `mSdp`; beside another assignment or a copy it may leave a string that is neither (`Garbled`), or end the process.
  The session time in the `o=` line differs too when two threads generate at once; both are in `raced` then.
- `SetupRefused`, `SetupMulticast`, `SetupUnicast`, then `RtpSocket`, `RtcpSocket`, `BindRtp`, `BindRtcpFails`, `BindRtcp`: SETUP
  up to its sockets. `tries` is `i`, `localPort` is `rtpPort` and then `RtpInstance::mServerPort`.
- `StoreRtp`, `StoreRtcp` (or `StoreTcp`), `SetSessionId`, `AddRtpInstance`, `SetupReply`: the rest of it. The handler reads
  `mRtpInstances[mTrackId]` and `mRtcpInstances[mTrackId]` again at lines 489, 490, 512, 513, 516, 527 and 528, so each of these is
  a step of its own: the constructor may have cleared an entry in between. `Follows` is that what is read is there; following a
  NULL ends the process. A NULL that is added to the list (`None` in `listed`) ends it at the next packet (`WalkMeetsNull`). Lines 512 and 513
  are one step, and so are 527, 528 and the reply: what is read before the second of two reads is only tested there, and an entry that is NULL
  stays NULL until this thread stores again. Whether the reply arrives is left to `RtspServer`.
- One session and one track: with more, a SETUP only meets a different entry of the same arrays. Releases of a client that goes are
  no step: `disconnectionCallback` only logs, and its descriptors stay open.
- The 500 ms between two calls of accept and the 2 ms between two reads are left out: any delay between two steps is allowed.
- `Fd` leaves out the standard descriptors and that of the input file, opened once and never closed. The sockets
  of `startMulticast`, whose asserts a build with `-DNDEBUG` leaves out, are opened while no client has used any up.

### SignalEvent

`run` is where the thread is: about to read the signal, in the callback, before the reset, asleep, ended.
Each access to `mSignal` is under the mutex and so one step; the callback is not. `heard` counts
the calls of `setSignal` that the thread's last read of `DONOW` stands for, `midway` holds the calls made between
such a read and the reset that follows. `setCallBack` is called before `start`, as in the test.

## 3. The runs

| run | config | what it shows |
|---|---|---|
| `one` | 1 client, unicast and multicast session, sink on track 0, channels 0 and 1, one port, every SETUP request, all methods, `SeqMod` 2 | every order of requests; `RegisteredOnce`, `MediaOnlyAfterPlay`, `DestinationFromRequest` |
| `two` | a UDP and an interleaved client on one track, SETUP and PLAY, `SeqMod` 2 | overlapping `addRtpInstance` under a walk, two instances in one list, a client that stalls or leaves; `GrantedIsRegistered`, `NoGap`, `PlayLeadsToMedia` |
| `runs` | 1 interleaved client | violation: the process ends though no client left |
| `single` | 4 nodes, one push_back at a time | refinement of `InstanceList`, reachability, every instance visited |
| `overlap` | 4 nodes, any overlap | `ForwardOnly`, `LossIsTruncation`, `WalkEnds` |
| `lost` | 3 nodes, any overlap | violation: an added instance is not in the list |
| `timers` | 3 timers, delays 0 and 2, one tick late | `RemovedIsSilent`, `OncePerPass`, `SleepIsShort`, `PassEnds`, `ArmedFires` |
| `frames` | 6 files, 4 frames of 12 bytes, packets of 2, numbers mod 5, times mod 3 | `OnePlace`, `InFileOrder`, `PacketsBringNal`, `NumbersGoOn`, `FileKeepsServerUp`, `EveryNalIsSent` |
| `fragments` | the same | violation: the fragments of a NAL hold a byte that is not its own |
| `input` | 3 streams, a block of 6 bytes, 20 spare | `UnreadIsRecent`, `AnswersMatch`, `ApartLosesNothing`, `FramesStayAligned` |
| `signal` | 4 calls of `setSignal`, any number of `stop` | `LostOnlyMidway`, `TaskForSignal`, `SignalLeadsToTask`, `StopLeadsToEnd` |
| `start` | 2 clients, 3 requests, 7 descriptors, 2 pairs of ports, one of them half taken by another program, 2 attempts | `DescriptorsAccounted`, `AnnouncedPortsAreBound`, `GrantedIsKept`, `DescriptionsAgree`, `RequestEnds` |

Bounds and why they suffice. Two clients are what it takes to tear a list and
to disturb another's packet; more only repeat the pattern, and the theorems
cover any number. `SeqMod` 2 wraps with every second packet and tells an instance that has had the packet from one that
is behind by one, as an instance that misses packets or gets one twice first is; in `two` there are two instances in the list, which joined at any
numbers, and one may fail, stall or be linked in while the other is sent to. Four nodes let a push_back that lost its place
cut off one that had itself cut off another. A delay of 0 takes the
raise to 1; a lateness (`MaxLate`) of one tick lets a repeating timer of 1 ms
miss a whole period. `MaxTimers` bounds the ids ever given out.
The files of `MCMediaPath` have NALs of one packet, of full fragments only and of fragments with a
rest, start codes of both lengths, one cut by the end of a read, a NAL larger than a buffer,
one that fills it to the last byte, one that ends in a zero and an empty one (which `AnnexB` excludes; the pool, the
numbers and the process must still be right), and two files that do not begin with a start code, one of which ends the
process. Packets of 2 bytes are the least in which a full fragment and a rest differ; times mod 3 tell
one step from none and from two. The streams of `MCRtspInput` have a method with no field of its own and two with
one, frames with and without payload between and behind requests; 6 bytes are less than any request and more than a
frame, so that reads go through the spare buffer, and the block is grown and moved.
Four signals fill every place of the thread's round and leave one over.
In `ServerStart` seven descriptors are the listening socket, two clients and two pairs of sockets; with the five that are left when the
rest of the process has two (`Rest`) there is one pair for two clients, or a half for each, and with the multicast sockets of a track (`MaxTrack` 1) none is left once
both clients are there: every call that opens a descriptor also finds none. Ports 10 and 12 with 13 taken make the second bind fail, and the two clients draw the
same pair. Two attempts (`MaxTries`, 10 in the code) have a first and a last one. Requests are counted by weight (`MaxAsked` 6: two
SETUPs, three DESCRIBEs, or one of each): two SETUPs meet on two connections or one after the other on one, where the second is the repetition of
one that failed; three DESCRIBEs are two that race and one that comes after. `C1First` leaves out the behaviours in which `c2` connects first:
nothing tells the clients apart but their names. (TLC's symmetry reduction is unsound for `RequestEnds`.)

Deadlock is not checked in the `RtspServer` and `MediaPath` runs, where the process may end, which
is a state without a next step, nor in `input` and `start`, where a stream or the clients' requests end. It is checked in the others: the walk of `TrackList`
and the clock of `TimerQueue` never stop, and a `SignalEvent` can always be stopped again.

Fairness.
- `RtspServer`: each handler runs on (`WF` of `Handler(c)`; a write to a
  stalled client is not enabled, so nothing is promised of it), so does the walk
  (`WF` of `Walk`), and every sink gets its packets again and again (`SF` of
  `StartPacket`, for its guard is off while another packet is sent). The last is
  what `ArmedFires` promises of repeating timers, with a file that always has a
  next frame (`getFrameFromH264File` goes back to its start). Nothing is assumed of clients.
- `TrackList`: `WF` of the walk and of `Link` or `Close` of a push_back that has begun.
- `TimerQueue`: `WF` of the thread (callbacks return) and of `Tick` (time passes).
- `MediaPath`: `WF` of `Source` and of `Sink`, both callbacks of repeating timers (`ArmedFires`).
- `ServerStart`: `WF` of the accept thread and of each IO thread, which loop for ever, while the process is up. Nothing of main or of clients.
  The requests are bounded, so "each is dealt with" is "in the end nobody waits": `RequestEnds` is `<>[]`. A request that the base class throws away is
  dealt with in this sense, as its client gets no answer; nothing in the repository promises it one.
- `SignalEvent`: `WF` of the thread (its sleeps end and its callback returns). Nobody has to set a signal.

Each property of a passing run has a mutant in `PROJECT.json`: a plausible wrong
version of a definition under which that run finds the property violated. The
mutants stand in the modules before the definitions they alter.

### Disagreements the runs show

1. `runs`: `RtpInstance::setAlive` (`RtpInstance.h:83`), `RtcpInstance::setAlive` and
   `handleCmdGetParamter` are declared to return a value and return none. An
   optimising compiler may let the caller run on into other code; g++ 12 with
   the `-O2` of `CMakeLists.txt` does so in `handleCmdPlay`. A PLAY, which the
   code then logs as "handle PLAY cmd successful" (`Connection:137`), can so
   end a server that is meant to run for ever (`test/rtspserver_test.cpp:47`).
2. `lost`: two SETUP requests on two connections may both `push_back`
   (`MediaSession:163`) with no lock. One instance is lost, although
   `handleCmdSetup` (`/* add to sesion */`, `Connection:515`) answers 200.
3. `fragments`: the fragments of a NAL leave out its first byte (`H264RtpSink:89`, `pos = 1`),
   but their number and the size of the last one, which comments at `:88` and `:125` call
   what remains, are computed from the size with it. The last fragment ends
   with one byte of whatever lies behind the NAL. `PacketsBringNal` says what holds all the same.

## 4. The proofs

All by TLAPS, for every value of the constants that satisfies the modules' `ASSUME`s
(`RtspAssumption`, `TrackAssumption`, `TimerAssumption`, `MediaAssumption`, `FilesAssumption`,
`BufferAssumption`, `StreamsAssumption`, `SignalAssumption`, `StartAssumption`),
which TLC evaluates on every run. They say no more than
that `None` and the other markers are not data, that sinks sit on tracks of sessions, that there are finitely many connections
(`TrackAssumption`: a walk is as long as the nodes allow), that the moduli are positive and that of `mTimestamp` more than one, that delays and
bounds are natural numbers, that a buffer holds a start code, that descriptors and ports are numbers, and that files and streams are made of bytes.

Some definitions are recursive functions: `FlattenSeq`, which makes a file of its NALs and a stream of its messages, and `Follow`.
The library's induction theorems cannot be used here, as they take an operator; `SequenceLemmas` has induction
in another form: a set of numbers has a least member (`MinExists`, from the well-foundedness of `<`), so a set that contains a first number, and with each
the next one, contains all (`Induction`). With it the equation of `FlattenSeq` is proved, and from that
where each part lies in the whole (`FlattenAt`, `FlattenFind`), which is all that the other modules use.

`RtspServerProofs`, in four layers and one beside them, each inductive given those below:
- `Inv1`: types, and that a thread inside SETUP has a request (`RequestsOK`).
- `AliveOK`: an alive instance belongs to a client that was answered PLAY and only
  alive ones have been sent anything. Gives `MediaAfterPlay`.
- `ListInv`: an instance that was created but not yet added (`Pending`) is in no
  list, dead and not granted; any other created one is in its list unless the
  list is torn; plus `RegisteredOnce`. `RegisteredOnce` alone is not inductive: adding keeps it only because a
  pending instance is in no list, and `TrackInUse` makes the pending one the
  first of its connection and track. Gives `OneRegistration`, `GrantedRegistered`.
- `SeqInv`: `ahead` is the end of an intact list (`OnList`), what is still
  ahead belongs to the current track (`OnTrack`), plus `NoGap`. The lemmas
  `EndOfAppend` and `EndOfTail` say how the end of a sequence follows an append
  and a step of the walk. Gives `NoSequenceGap`.

`DestinationAsked` is an action property. It needs that a SETUP that is about to be handled asks for a transport
that could be read, and that the connection's fields are what it asks for (`FieldsOK`): `mIsRtpOverTcp` stays set from an
earlier one, so without the second part a SETUP for TCP could get the channel of another.

`TrackListProofs`: `IInv` adds to the types what each stage of a push_back
knows of its node and of the sentinel, and that `published` holds every linked
node once. Gives `TrackTypes` and `WalkGoesForward` for any overlap. With
`Overlap = FALSE`, `Chained` says that `next` follows `published` exactly, from
which every step maps to a step or a stutter of `InstanceList`: `PushBackIsAppend`.
What a walk meets (`Follow`) is defined by a recursive function; `FollowPath` shows that it is any path of next pointers that ends at the sentinel (`IsPath`), of which
there is only one. With `Chained` that path is `published`: `AddedStays`. With any overlap there is a path from every
linked node, since pointers lead forward (`WayExists`), and linking a node in changes one pointer, so that it ends the path that led past
its place or leaves it alone (`CutWay`): `LossTruncates`.

`TimerQueueProofs`: `QInv` says that ids not yet given out are nowhere (`Fresh`), that
the two maps agree (`MapsAgree`), and that in a pass what fired is no longer
due while what fires is (`PassOK`). `OncePerPass` follows from `PassOK` because an
interval is never 0. Gives all four safety theorems.

`MediaPathProofs`:
- What a step does to the two queues is to move the first frame of one to the end of the other, or nothing. That is a
  rotation of `output \o input`, which keeps its length and its frames distinct: `FramesConserved`.
- `Typed` is `TypeOK` with closer bounds: the offset stays in the file and `nth` in the round. A read leaves a frame the
  distance to the next start code as its size, less the code's length; -4 is possible, so `TypeOK` allows it: `MediaTypes`.
- `UpInv`: in a file that begins with a start code the offset is always at a start code and no waiting frame has a negative size. It is
  inductive because a read steps to the next start code it saw or back to the beginning, and at a start code the
  read gets at least all of it (`CodeAt`, `ReadAtCode`), so that the bytes of an earlier read are never looked at: `ServerStaysUp`.
- `NumbersInv`: the latest packets are numbered without a gap, `mSeq` is the number after the last, and `mTimestamp` is their time or one on.
  The last is what makes the property, which compares two NALs, follow from one step; the modular arithmetic is in `ModAdd`, `ModBack`. A
  clock of one tick could not move on, so `MediaAssumption` wants two: `NumbersAreConsecutive`.
- `OrderInv`: in an annex B file the offset is the beginning of the NAL after all those that were read in this round (`AtNext`), and the
  frame that waits at place k holds `Due(k)` (`InOrder`). `ReadLayout` and `NoneInside` say that the first start code that
  `findNextStartCode` sees behind a NAL is the next one, also if the code has four bytes, of which the last three are a code themselves; `NalAt` and `CutAt`
  say which read finds one, so that a read returns entry `nth + Len(output)` of `Round`
  (`RoundRead`). `OnePlace` is needed because a read must not write into a frame that waits: `FileOrderKept`.
  `SendBrings` puts the fragments together (`Fragments`, for full fragments with or without a rest); the byte behind the
  NAL is cut off by the property, as `fragments` shows it must be: `NalsArrive`.

`RtspInputProofs`: `UnreadType` and `SameUnread` relate the unread bytes to the block and its
indices; from them each method is shown to be an operation on a queue of bytes: `PutAppends`, `EnsureKeeps` (which includes
the assertion at the end of `ensureWritableBytes`), `ReadAppends`, `RetrieveDrops`. Then the first and the last CRLF exist
where they are looked for (`MinExists`, `MaxExists`), every branch of `handleReadBytes` drops a
beginning of what is unread, and a sequence that is the end of what was received stays so
when the same bytes are added to both and when its beginning is dropped (`InputInv`): `InputIsRecent`.
On top of that, what the stream is made of:
- `MessageLayout` says what the bytes of one message are, `StreamAt` and `StreamFind` where each lies in the stream. The first line of
  what is unread may be the end of a line that was cut, but only a whole one has a piece `line`, and then the first
  `CSeq` behind it is its own (`LinesInOrder`, `RequestFound`).
- `AnswersInv`: `Taken` bytes are received and no longer unread; every answer has the number of a line in front of that place, its own `CSeq`, and the
  answers ascend. The place only grows, and a request that is handled begins behind it: `AnswersInOrder`. As there are
  no more lines than messages, there are no more answers either, which is a part of the types: `InputTypes`.
- `FramesInv`: while `framing`, `Taken` is a place between two messages and only frames lie behind it. A step takes the whole
  first one or nothing (`FrameTaken`): `FramesAligned`.
- `ApartInv`: while `apart`, nothing is unread and the lines answered are those of the requests received. One whole message in an empty
  buffer is a request that is parsed, or a frame that is taken or thrown away as a whole (`OneMessage`): `ApartIsEnough`.

`SignalEventProofs`: with the types, `LostOnlyMidway` needs that calls before the last read are counted in `heard` and those of a task in `midway`;
`TaskForSignal` needs that `heard` is ahead of `tasks` while the callback is due: `SignalsKept`, `TasksAskedFor`.

`ServerStartProofs`: `KInv` is types, `DescriptorsAccounted`, and which holders may hold a descriptor at
each place of a thread (`MulticastHeld`, `Waiting`, `HeldWhen`): without the last, a `Give` could overwrite a descriptor
that is held already. Three lemmas say what the kernel's operations do to the accounting, whichever action uses them: `GiveAccounted`
(the descriptor given was free, so nobody holds it), `CloseAccounted`, and `MoveAccounted` for descriptors handed from
locals to instances and from instances to the history of lost ones. `HeldWhen` and `EntriesWhen` say which holders have something at each place of the
two threads, so that one that takes a descriptor over has none. An IO thread changes nothing of another connection (`IOFrame`), and a step of any other thread
leaves what the IO threads are doing alone (`ElsewhereIO`). On top of `KInv`, each with its own inductive invariant:
- `Ports` adds the ports of a search under way (`Binding`) to what instances announce (`Announced`). A socket keeps its port
  because whoever binds or closes another one holds another descriptor (`BindKeeps`, `CloseKeeps`): that is what `DescriptorsAccounted` is needed for. Gives `PortsHold`.
- `Grants` follows a SETUP beside the constructor. If neither of its instances was stored early, then at each place of the handler those it has stored lie in
  entries that have been cleared already, so that no later step of the constructor touches them (`Storing`); a thread that is still up at the
  reply therefore has added its own instance and not a NULL. If one was stored early, the SETUP began before `mPeerIp` was set (`BeginsBlind`).
  `Branch` keeps the two transports apart: `storeTcp` needs one entry, UDP both. Gives `GrantsKept`.
- `Sdp`: a thread that met nobody is the only one between the test of `mSdp` and its assignment (`Unraced`), so what it and the others copied is
  what `mSdp` still is. Gives `OneDescription`.

So every safety invariant and every action property of the passing runs is a theorem, and `AtomicAppend` is one too. Only model-checked is
liveness, which is out of the prover's reach: `PlayLeadsToMedia`, `AddedIsVisited`, `WalkEnds`, `PassEnds`, `ArmedFires`,
`EveryNalIsSent`, `RequestEnds`, `SignalLeadsToTask`, `StopLeadsToEnd`. So are the three violations, which TLC shows by a behaviour.

## 5. Not modelled, and the plan

Next, in this order:
1. In `RtspInput`: DESCRIBE and TEARDOWN, and pipelined SETUPs with mixed transports, where `parseTransport`
   takes the transport of another request.
2. A write on an interleaved client's socket that sends only part of a packet while the IO thread replies.
3. Proofs: that the atomic steps of `RtspServer` which `TrackList` and `ServerStart` look inside are what these modules show them to be, beyond `AtomicAppend`.

Left out, and why:
- `addRtpSink`, `addMeidaSession` and the order in which `main` calls them: configuration by one thread
  before any other runs.
- `removeRtpInstance`, `handleDisconnectionList`, `triggerCallback`, the destructor of `RtspConnection`, enabling and disabling
  of events, `TimeEventManager::start`: no running code reaches them.
- `RtcpInstance::send`: nothing calls it.
- The log, the text of replies and SDP, socket options, address conversions: no
  property is about their wording, and the system calls they wrap change no state of the server.
