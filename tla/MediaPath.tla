------------------------------ MODULE MediaPath ------------------------------
(***************************************************************************)
(* From a H.264 file to RTP packets: a pool of frames goes round between    *)
(* the source's timer, which cuts the file at start codes                   *)
(* (H264FileMediaSource::readFrame), and the sink's timer, which cuts a     *)
(* frame into packets (RtpSink::timeoutCallback).  Both callbacks run on    *)
(* the thread of Env, so each is one step; which comes next is left open.   *)
(*                                                                         *)
(* A byte is a number; 0 and 1 make up start codes.  A file is a record     *)
(* with the bytes before its first start code, lead, and its NAL units,     *)
(* each with the length of its start code, 3 or 4, and its bytes.           *)
(***************************************************************************)
EXTENDS Integers, Sequences, SequencesExt

CONSTANTS Files,      \* the files the server may be started on
          NumFrames,  \* DEFAULT_FRAME_NUM
          FrameMax,   \* FRAME_MAX_SIZE
          MaxPkt,     \* RTP_MAX_PKT_SIZE
          SeqSize,    \* 2^16, the modulus of mSeq
          ClockSize,  \* the modulus of mTimestamp, in frame times
          Junk        \* a byte of memory nothing was read into

Frame == 1..NumFrames  \* mAVFrames

Nal == [code : {3, 4}, bytes : Seq(Nat)]

ASSUME MediaAssumption ==
    /\ NumFrames \in Nat /\ Junk \in Nat
    /\ FrameMax \in Nat /\ FrameMax >= 4
    /\ MaxPkt \in Nat \ {0} /\ SeqSize \in Nat \ {0} /\ ClockSize \in Nat \ {0, 1}

(* A file has at least one NAL unit.  TLC cannot evaluate Seq(Nat) as a set, *)
(* but it can tell whether a sequence is in it.                             *)
ASSUME FilesAssumption ==
    \A f \in Files : f.lead \in Seq(Nat) /\ f.nals \in Seq(Nal) /\ f.nals # <<>>

VARIABLES file,      \* the file, chosen once
          pos,       \* the offset of mFd
          buffer,    \* mBuffer of each frame
          skip,      \* mFrame - mBuffer
          size,      \* mFrameSize
          input,     \* mAVFrameInputQueue
          output,    \* mAVFrameOutputQueue
          seq,       \* mSeq
          clock,     \* mTimestamp, in frame times
          packets,   \* the packets of the latest frame that was sent
          nth,       \* how many frames were sent, in the current round of the file
          up         \* the process is running

pool == <<buffer, skip, size, input, output>>
vars == <<file, pos, pool, seq, clock, packets, nth, up>>

-----------------------------------------------------------------------------
(* The file *)

StartCode(n) == IF n.code = 3 THEN <<0, 0, 1>> ELSE <<0, 0, 0, 1>>
Piece(n) == StartCode(n) \o n.bytes

Contents(f) == f.lead \o FlattenSeq([i \in 1..Len(f.nals) |-> Piece(f.nals[i])])

(* One read sees NAL i and, unless it is the last, the start code after it. *)
Fits(f, i) ==
    Len(Piece(f.nals[i])) + (IF i < Len(f.nals) THEN f.nals[i + 1].code ELSE 0) <= FrameMax

(* How many NALs come before the first that does not fit. *)
Whole(f) == Max({n \in 0..Len(f.nals) : \A i \in 1..n : Fits(f, i)})

(* What one read gets of NAL n, which does not fit, and of what follows it. *)
Cut(f, n) ==
    SubSeq(FlattenSeq([i \in 1..(Len(f.nals) - n + 1) |-> Piece(f.nals[n - 1 + i])]),
           f.nals[n].code + 1, FrameMax)

(* What a round of the file consists of. *)
Round(f) ==
    [i \in 1..(Whole(f) + (IF Whole(f) < Len(f.nals) THEN 1 ELSE 0)) |->
        IF i <= Whole(f) THEN f.nals[i].bytes ELSE Cut(f, i)]

-----------------------------------------------------------------------------
(* The source: buffers and offsets are 0-based as in the code *)

StartCode3(b, p) == b[p + 1] = 0 /\ b[p + 2] = 0 /\ b[p + 3] = 1
StartCode4(b, p) == b[p + 1] = 0 /\ b[p + 2] = 0 /\ b[p + 3] = 0 /\ b[p + 4] = 1

(* Mutant of NextStartCodes: start codes of three bytes only. *)
NextShortCodes(b, n) == {p \in 3..(n - 3) : StartCode3(b, p)}

(* findNextStartCode(frame+3, n-3): the offsets at which a start code that *)
(* lies in the first n bytes begins, past the one in front.                *)
NextStartCodes(b, n) ==
    {p \in 3..(n - 3) : StartCode3(b, p) \/ (p < n - 3 /\ StartCode4(b, p))}

(* read(fd, frame, size): what is left of the file, up to a buffer; the rest *)
(* of the buffer keeps what it held.                                        *)
Bytes ==
    LET all == Contents(file)
    IN  SubSeq(all, pos + 1, IF pos + FrameMax < Len(all) THEN pos + FrameMax ELSE Len(all))
Loaded(f) ==
    LET read == Bytes
    IN  [k \in 1..FrameMax |-> IF k <= Len(read) THEN read[k] ELSE buffer[f][k]]

HasStartCode(b) == StartCode3(b, 0) \/ StartCode4(b, 0)

Init ==
    /\ file \in Files
    /\ pos = 0
    /\ buffer = [f \in Frame |-> [k \in 1..FrameMax |-> Junk]]
    /\ skip = [f \in Frame |-> 0]
    /\ size = [f \in Frame |-> 0]
    /\ input = [f \in Frame |-> f]
    /\ output = <<>>
    /\ seq = 0 /\ clock = 0
    /\ packets = <<>> /\ nth = 0
    /\ up = TRUE

(* Mutant of ReadFails: the frame is taken out of its queue. *)
ReadFailsPops ==
    /\ up /\ input # <<>>
    /\ ~HasStartCode(Loaded(Head(input)))
    /\ input' = Tail(input)
    /\ pos' = pos + Len(Bytes)
    /\ UNCHANGED <<file, buffer, skip, size, output, seq, clock, packets, nth, up>>

(* readFrame when getFrameFromH264File returns -1: what was read is dropped *)
(* and the offset stays behind it; the frame stays first in its queue.      *)
ReadFails ==
    /\ up /\ input # <<>>
    /\ LET f == Head(input)
       IN  /\ ~HasStartCode(Loaded(f))
           /\ buffer' = [buffer EXCEPT ![f] = Loaded(f)]
           /\ size' = [size EXCEPT ![f] = -1]
    /\ pos' = pos + Len(Bytes)
    /\ UNCHANGED <<file, skip, input, output, seq, clock, packets, nth, up>>

(* Mutant of Rewound: the end of the file does not rewind it. *)
NotRewound(next, total) == pos + total

(* lseek: back to the next start code or, when none was read, to the start. *)
Rewound(next, total) == IF next = {} THEN 0 ELSE pos + total

(* readFrame otherwise: the frame goes to the sink without its start code.  *)
ReadFrame ==
    /\ up /\ input # <<>>
    /\ LET f     == Head(input)
           b     == Loaded(f)
           next  == NextStartCodes(b, Len(Bytes))
           total == IF next = {} THEN Len(Bytes) ELSE Min(next)
           code  == IF StartCode3(b, 0) THEN 3 ELSE 4
       IN  /\ HasStartCode(b)
           /\ buffer' = [buffer EXCEPT ![f] = b]
           /\ pos' = Rewound(next, total)
           /\ skip' = [skip EXCEPT ![f] = code]
           /\ size' = [size EXCEPT ![f] = total - code]
           /\ output' = Append(output, f)
    /\ input' = Tail(input)
    /\ UNCHANGED <<file, seq, clock, packets, nth, up>>

-----------------------------------------------------------------------------
(* The sink *)

(* The n bytes from mFrame + from, past the end of the buffer as well. *)
Slice(f, from, n) ==
    [k \in 1..n |-> LET at == skip[f] + from + k
                    IN  IF at <= FrameMax THEN buffer[f][at] ELSE Junk]

(* Mutant of IsEnd: the last full fragment ends the NAL, whatever is left. *)
IsFull(i, full, rest) == i >= full

(* The fragment of what is left or, when nothing is, the last full one. *)
IsEnd(i, full, rest) == i > full \/ (rest = 0 /\ i = full)

(* A fragment carries the bits 0x60 of the first byte of the NAL in the FU  *)
(* indicator and the bits 0x1F in the FU header, and the flags S and E.     *)
Packets(f) ==
    LET full == size[f] \div MaxPkt
        rest == size[f] % MaxPkt
    IN  IF size[f] <= MaxPkt
        THEN << [fu |-> FALSE, nalu |-> Slice(f, 0, 1)[1], start |-> FALSE, end |-> FALSE,
                 data |-> Slice(f, 0, size[f]), seq |-> seq, clock |-> clock] >>
        ELSE [i \in 1..(full + (IF rest > 0 THEN 1 ELSE 0)) |->
                [fu |-> TRUE, nalu |-> Slice(f, 0, 1)[1] % 128,
                 start |-> i = 1,
                 end   |-> i > 1 /\ IsEnd(i, full, rest),
                 data  |-> Slice(f, 1 + (i - 1) * MaxPkt, IF i <= full THEN MaxPkt ELSE rest),
                 seq   |-> (seq + i - 1) % SeqSize, clock |-> clock]]

(* naluType & 0x1F is 7 or 8: a parameter set (SPS, PPS). *)
IsParameterSet(n) == n % 32 \in {7, 8}

(* Mutants of SendFrame: mSeq is not counted for what is left, and has no width; *)
(* the frame is not given back.                                                 *)
SendUncounted ==
    /\ up /\ output # <<>>
    /\ LET f == Head(output)
       IN  /\ size[f] >= 0
           /\ packets' = Packets(f)
           /\ seq' = seq + (IF size[f] <= MaxPkt THEN 1 ELSE size[f] \div MaxPkt)
           /\ clock' = (clock + 1) % ClockSize
           /\ input' = Append(input, f)
    /\ output' = Tail(output)
    /\ nth' = (nth + 1) % Len(Round(file))
    /\ UNCHANGED <<file, pos, buffer, skip, size, up>>

SendNoPut ==
    /\ up /\ output # <<>> /\ size[Head(output)] >= 0
    /\ packets' = Packets(Head(output))
    /\ seq' = (seq + Len(packets')) % SeqSize
    /\ output' = Tail(output)
    /\ nth' = (nth + 1) % Len(Round(file))
    /\ UNCHANGED <<file, pos, buffer, skip, size, input, clock, up>>

(* timeoutCallback: handleFrame sends the packets, putFrame gives the frame  *)
(* back.  The early return of handleFrame leaves mTimestamp alone.          *)
SendFrame ==
    /\ up /\ output # <<>>
    /\ LET f == Head(output)
       IN  /\ size[f] >= 0
           /\ packets' = Packets(f)
           /\ seq' = (seq + Len(packets')) % SeqSize
           /\ clock' = IF size[f] <= MaxPkt /\ IsParameterSet(Slice(f, 0, 1)[1])
                       THEN clock ELSE (clock + 1) % ClockSize
           /\ input' = Append(input, f)
    /\ output' = Tail(output)
    /\ nth' = (nth + 1) % Len(Round(file))
    /\ UNCHANGED <<file, pos, buffer, skip, size, up>>

(* A frame whose size is negative: memcpy of a huge length ends the process. *)
Overrun ==
    /\ up /\ output # <<>>
    /\ size[Head(output)] < 0
    /\ up' = FALSE
    /\ UNCHANGED <<file, pos, pool, seq, clock, packets, nth>>

Source == ReadFails \/ ReadFrame
Sink   == SendFrame \/ Overrun
Next   == Source \/ Sink

Spec == Init /\ [][Next]_vars

(* Both timers repeat. *)
Fairness == WF_vars(Source) /\ WF_vars(Sink)
FairSpec == Spec /\ Fairness

-----------------------------------------------------------------------------
(* Properties *)

Packet == [fu : BOOLEAN, nalu : Nat, start : BOOLEAN, end : BOOLEAN,
           data : Seq(Nat), seq : Nat, clock : Nat]

(* Types; a frame's size is what one read can leave it. *)
TypeOK ==
    /\ file \in Files
    /\ pos \in Nat
    /\ buffer \in [Frame -> [1..FrameMax -> Nat]]
    /\ skip \in [Frame -> {0, 3, 4}]
    /\ size \in [Frame -> -4..FrameMax]
    /\ input \in Seq(Frame) /\ output \in Seq(Frame)
    /\ seq \in 0..(SeqSize - 1) /\ clock \in 0..(ClockSize - 1)
    /\ packets \in Seq(Packet)
    /\ nth \in Nat
    /\ up \in BOOLEAN

WellFormed(f) == f.lead = <<>>

(* A byte stream of H.264, annex B: nothing in a NAL passes for a start code, *)
(* and a NAL does not end in a zero.                                         *)
AnnexB(f) ==
    /\ WellFormed(f)
    /\ \A i \in 1..Len(f.nals) :
         LET b == f.nals[i].bytes
         IN  /\ b # <<>> /\ b[Len(b)] # 0
             /\ \A p \in 0..(Len(b) - 3) : ~StartCode3(b, p)

(* What the frame holds for the sink. *)
Held(f) == Slice(f, 0, size[f])

(* The k-th frame after the ones that were sent, the latest being the 0-th. *)
Due(k) == LET round == Round(file) IN round[((nth + k - 1) % Len(round)) + 1]

(* mAVFrameInputQueue, mAVFrameOutputQueue: together they hold every frame   *)
(* once, whatever fails; none is lost and none is filled while it is queued  *)
(* to be sent.                                                              *)
OnePlace ==
    LET all == output \o input
    IN  /\ Len(all) = NumFrames
        /\ \A i, j \in 1..Len(all) : all[i] = all[j] => i = j

(* getFrameFromH264File: what waits to be sent is the next NAL units of the   *)
(* file, in its order and without their start codes, round after round; a    *)
(* round ends with the file or with a NAL that is larger than a buffer.      *)
InFileOrder ==
    AnnexB(file) => \A k \in 1..Len(output) : Held(output[k]) = Due(k)

(* The packets p bring the NAL v: one packet, or fragments of which the first has *)
(* S, the last E, and which hold its bytes followed by at most one more; of the   *)
(* first byte all but bit 7, which H.264 has zero.                                *)
Brings(p, v) ==
    LET all == FlattenSeq([i \in 1..Len(p) |-> p[i].data])
    IN  IF p[1].fu
        THEN /\ p[1].nalu = v[1] % 128 /\ SubSeq(<<v[1]>> \o all, 1, Len(v)) = v
             /\ Len(all) <= Len(v)
             /\ \A i \in 1..Len(p) :
                  /\ p[i].fu /\ p[i].nalu = p[1].nalu
                  /\ p[i].start <=> i = 1
                  /\ p[i].end <=> i = Len(p)
                  /\ Len(p[i].data) \in 1..MaxPkt
        ELSE Len(p) = 1 /\ all = v

(* handleFrame: the latest packets bring the NAL that was due. *)
PacketsBringNal == AnnexB(file) /\ packets # <<>> => Brings(packets, Due(0))

(* H264RtpSink.cpp:88, :125: the last fragment holds the data that remained,  *)
(* so that the fragments of a NAL are its bytes and nothing else.            *)
Reassembled ==
    AnnexB(file) /\ packets # <<>> /\ packets[1].fu =>
        <<packets[1].nalu>> \o FlattenSeq([i \in 1..Len(packets) |-> packets[i].data]) = Due(0)

(* sendRtpPacket: numbers go on from one NAL to the next without a gap, the   *)
(* packets of a NAL share a time, and the time moves on between two NALs      *)
(* unless the first is a parameter set in a packet of its own.                *)
NumbersGoOn ==
    [][packets # <<>> /\ Len(output') < Len(output) =>
        LET all == packets \o packets'
        IN  /\ \A i \in 1..(Len(all) - 1) : all[i + 1].seq = (all[i].seq + 1) % SeqSize
            /\ \A i \in 1..Len(packets') : packets'[i].clock = packets'[1].clock
            /\ (packets'[1].clock = packets[1].clock)
                  <=> (~packets[1].fu /\ IsParameterSet(packets[1].nalu))]_vars

(* getFrameFromH264File: a file that begins with a start code never ends the  *)
(* process: no read comes to the end of the file, where the stale bytes of   *)
(* the buffer would pass for what was read.                                  *)
FileKeepsServerUp == WellFormed(file) => up

(* The two timers: every NAL of a round is sent again and again.             *)
EveryNalIsSent ==
    \A i \in UNION {0..(Len(f.nals) - 1) : f \in Files} :
        []<>(AnnexB(file) /\ i < Len(Round(file)) => nth = i)

=============================================================================
