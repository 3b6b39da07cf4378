------------------------------ MODULE RtspInput ------------------------------
(***************************************************************************)
(* The input of one RTSP connection: a client's messages arrive over TCP    *)
(* cut anywhere, and each read that returns is followed by one call of      *)
(* RtspConnection::handleReadBytes, which takes one interleaved frame or    *)
(* one request out of mInputBuffer.                                         *)
(*                                                                         *)
(* Of a request the model keeps its first line, the header fields parsed,   *)
(* and each CR and LF; of an interleaved frame its four leading bytes and   *)
(* its payload.  What a piece belongs to is its number in the stream.       *)
(***************************************************************************)
EXTENDS DataBuffer, SequencesExt

CONSTANT Streams  \* the sequences of messages a client may send

(* A message is a request or a frame with so many bytes of payload. *)
Message == [method : {"OPTIONS", "SETUP", "PLAY", "frame"}, size : Nat]

VARIABLES stream,    \* the messages of this client
          received,  \* how many bytes of them were read
          buf,       \* mInputBuffer
          overTcp,   \* mIsRtpOverTcp
          answers,   \* the requests handled: whose line and whose CSeq
          apart,     \* every read so far brought one whole message
          framing    \* since the buffer was empty at the end of a message,
                     \* after mIsRtpOverTcp was set, only frames have come

vars == <<stream, received, buf, overTcp, answers, apart, framing>>

-----------------------------------------------------------------------------
(* The stream *)

Piece(kind, k) == [kind |-> kind, of |-> k]
CRLF(k)        == <<Piece("cr", k), Piece("lf", k)>>
Line(kind, k)  == <<Piece(kind, k), Piece("cr", k), Piece("lf", k)>>

(* The header field a method needs besides CSeq. *)
Field(method, k) ==
    CASE method = "SETUP" -> Line("transport", k)
      [] method = "PLAY"  -> Line("session", k)
      [] OTHER            -> <<>>

(* A line is one piece and its end two; no payload byte is a "$", CR or LF. *)
MessageBytes(m, k) ==
    IF m.method = "frame"
    THEN <<Piece("$", k), Piece("channel", k), Piece("high", k), Piece("low", k)>>
         \o [i \in 1..m.size |-> Piece("data", k)]
    ELSE Line("line", k) \o Line("cseq", k) \o Field(m.method, k) \o CRLF(k)

(* The bytes of the first n messages of s, and of all of them. *)
BytesUpTo(s, n) == FlattenSeq([k \in 1..n |-> MessageBytes(s[k], k)])
Bytes(s)        == BytesUpTo(s, Len(s))

ASSUME StreamsAssumption ==
    \A s \in Streams :
        s \in Seq(Message) /\ \A k \in 1..Len(s) : MessageBytes(s[k], k) \in Seq(Byte)

(* The places between two messages, and at the two ends. *)
Borders == {Len(BytesUpTo(stream, n)) : n \in 0..Len(stream)}

-----------------------------------------------------------------------------
(* handleReadBytes on the buffer b *)

(* lookupCRLF, findLastCrlf: where a CRLF begins in v. *)
CRLFs(v) == {i \in 1..(Len(v) - 1) : v[i].kind = "cr" /\ v[i + 1].kind = "lf"}
FirstCRLF(v) == CHOOSE i \in CRLFs(v) : \A j \in CRLFs(v) : i <= j
LastCRLF(v)  == CHOOSE i \in CRLFs(v) : \A j \in CRLFs(v) : i >= j

(* Where the first line has something other than white space. *)
FirstLine(v) == {i \in 1..(FirstCRLF(v) - 1) : v[i].kind \notin {"cr", "lf"}}
AfterLine(v) == SubSeq(v, FirstCRLF(v) + 2, Len(v))
Headers(v)   == LET rest == AfterLine(v) IN SubSeq(rest, 1, LastCRLF(rest) - 1)

Kinds(v) == {v[i].kind : i \in 1..Len(v)}

(* parseRequest1 skips white space, and wants a method, a URL and a version. *)
LineParsed(v) == CRLFs(v) # {} /\ \E i \in FirstLine(v) : FirstLine(v) = {i} /\ v[i].kind = "line"

(* Whose line it is, and the method it names. *)
LineOf(v) == v[CHOOSE i \in FirstLine(v) : TRUE].of
Method(v) == stream[LineOf(v)].method

(* parseRequest2: what is in front of the last CRLF, whichever request's. *)
HeadersParsed(v) ==
    /\ CRLFs(AfterLine(v)) # {}
    /\ "cseq" \in Kinds(Headers(v))
    /\ Method(v) = "SETUP" => "transport" \in Kinds(Headers(v))
    /\ Method(v) = "PLAY" => "session" \in Kinds(Headers(v))

(* Mutant of CSeq: message.rfind("CSeq"). *)
LastCSeq(v) == LET h == Headers(v)
                   i == CHOOSE n \in 1..Len(h) : h[n].kind = "cseq" /\ \A m \in (n + 1)..Len(h) : h[m].kind # "cseq"
               IN  h[i].of

(* message.find("CSeq") *)
CSeq(v) == LET h == Headers(v)
               i == CHOOSE n \in 1..Len(h) : h[n].kind = "cseq" /\ \A m \in 1..(n - 1) : h[m].kind # "cseq"
           IN  h[i].of

IsInterleaved(b) == overTcp /\ Unread(b)[1].kind = "$"

(* Mutant of FrameSize: the four leading bytes are not counted. *)
PayloadSize(v) == stream[v[4].of].size

(* (buf[2]<<8 | buf[3]) + 4 *)
FrameSize(v) == stream[v[4].of].size + 4

(* handleRtpOverTcp: a frame that is not complete stays. *)
handleRtpOverTcp(b) ==
    LET v == Unread(b)
    IN  /\ IsInterleaved(b)
        /\ buf' = IF readableDataSize(b) >= 4 /\ readableDataSize(b) >= FrameSize(v)
                  THEN retrieve(b, FrameSize(v)) ELSE b
        /\ UNCHANGED <<overTcp, answers>>

(* parseRequest fails: all that was read is thrown away. *)
ParseFails(b) ==
    /\ ~IsInterleaved(b)
    /\ ~(LineParsed(Unread(b)) /\ HeadersParsed(Unread(b)))
    /\ buf' = retrieveAll(b)
    /\ UNCHANGED <<overTcp, answers>>

(* Mutant of HandleRequest: the last CRLF is left in the buffer. *)
HandleLeavesCRLF(b) ==
    LET v    == Unread(b)
        rest == retrieve(b, FirstCRLF(v) + 1)
    IN  /\ ~IsInterleaved(b) /\ LineParsed(v) /\ HeadersParsed(v)
        /\ buf' = retrieve(rest, LastCRLF(AfterLine(v)) - 1)
        /\ overTcp' = (overTcp \/ Method(v) = "SETUP")
        /\ answers' = Append(answers, [line |-> LineOf(v), cseq |-> CSeq(v)])

(* parseRequest succeeds and the handler of the method is called; SETUP has  *)
(* set mIsRtpOverTcp by then.                                               *)
HandleRequest(b) ==
    LET v    == Unread(b)
        rest == retrieve(b, FirstCRLF(v) + 1)
    IN  /\ ~IsInterleaved(b) /\ LineParsed(v) /\ HeadersParsed(v)
        /\ buf' = retrieve(rest, LastCRLF(AfterLine(v)) + 1)
        /\ overTcp' = (overTcp \/ Method(v) = "SETUP")
        /\ answers' = Append(answers, [line |-> LineOf(v), cseq |-> CSeq(v)])

-----------------------------------------------------------------------------

Init ==
    /\ stream \in Streams
    /\ received = 0
    /\ buf = EmptyBuffer
    /\ overTcp = FALSE
    /\ answers = <<>>
    /\ apart = TRUE /\ framing = FALSE

(* What the history variables note of a read of n bytes. *)
Note(n) ==
    /\ apart' = (apart /\ received \in Borders /\ received + n \in Borders
                   /\ \A i \in (received + 1)..(received + n - 1) : i \notin Borders)
    /\ framing' = \/ overTcp' /\ Unread(buf') = <<>> /\ received + n \in Borders
                  \/ framing /\ \A i \in (received + 1)..(received + n) :
                                   stream[Bytes(stream)[i].of].method = "frame"

(* handleRead: TCP delivers any part of what was sent and not yet read. *)
handleRead(n) ==
    /\ received + n <= Len(Bytes(stream))
    /\ n <= Capacity(buf)
    /\ LET b == read(buf, SubSeq(Bytes(stream), received + 1, received + n))
       IN  handleRtpOverTcp(b) \/ ParseFails(b) \/ HandleRequest(b)
    /\ received' = received + n
    /\ Note(n)
    /\ UNCHANGED stream

Next == \E n \in 1..(Len(Bytes(stream)) - received) : handleRead(n)

Spec == Init /\ [][Next]_vars

-----------------------------------------------------------------------------
(* Properties *)

(* Types; the indices keep what the assertions of DataBuffer ask for. *)
TypeOK ==
    /\ stream \in Streams
    /\ received \in 0..Len(Bytes(stream))
    /\ buf.r <= buf.w /\ buf.w <= Len(buf.mem)
    /\ overTcp \in BOOLEAN
    /\ Len(answers) <= Len(stream)
    /\ apart \in BOOLEAN /\ framing \in BOOLEAN

(* DataBuffer: however the block was moved and grown, what is unread is the  *)
(* end of what was received, in its order.                                   *)
UnreadIsRecent ==
    LET v == Unread(buf) IN v = SubSeq(Bytes(stream), received - Len(v) + 1, received)

(* parseRequest: a request that is handled is one that was sent, with its own *)
(* CSeq, and requests are handled in the order they were sent, none twice,    *)
(* although headers are taken up to the last CRLF of whatever has arrived.    *)
AnswersMatch ==
    /\ \A i \in 1..Len(answers) : answers[i].line = answers[i].cseq
    /\ \A i, j \in 1..Len(answers) : i < j => answers[i].line < answers[j].line

(* handleReadBytes: as long as each read brings one whole message, every      *)
(* request is handled and nothing stays behind.                               *)
ApartLosesNothing ==
    apart => /\ Unread(buf) = <<>>
             /\ {answers[i].line : i \in 1..Len(answers)} =
                    {k \in 1..Len(stream) : /\ stream[k].method # "frame"
                                            /\ Len(BytesUpTo(stream, k)) <= received}

(* handleRtpOverTcp: interleaved frames may be cut and joined in any way;     *)
(* while nothing else comes, what is unread begins with the beginning of one. *)
FramesStayAligned ==
    framing => received - Len(Unread(buf)) \in Borders

=============================================================================
