--------------------------- MODULE MediaPathProofs ---------------------------
(***************************************************************************)
(* MediaPath for any files, and any sizes of buffers and packets.           *)
(*                                                                         *)
(* The frame pool: input and output together are a rotation of the frames.  *)
(* A read that succeeds moves the border between the two and changes        *)
(* nothing of output \o input; a frame that was sent goes from the front to *)
(* the end of it.                                                          *)
(*                                                                         *)
(* The file: the offset always stands at a start code if the file begins    *)
(* with one (UpInv), and in a file of annex B it is the one behind the NALs *)
(* that were read, of which the waiting frames hold what was not sent yet   *)
(* (OrderInv).  The packets: NumbersInv for their numbers and times, and    *)
(* SendBrings for what the fragments of a NAL hold.                         *)
(***************************************************************************)
EXTENDS MediaPath, SequenceLemmas

(* Moving the first of b behind a leaves a followed by b as it was. *)
LEMMA MoveHead ==
    ASSUME NEW S, NEW a \in Seq(S), NEW b \in Seq(S), b # <<>>
    PROVE  /\ Append(a, Head(b)) \in Seq(S) /\ Tail(b) \in Seq(S)
           /\ Append(a, Head(b)) \o Tail(b) = a \o b
<1>1. Head(b) \in S /\ Tail(b) \in Seq(S) /\ Append(a, Head(b)) \in Seq(S)
    OBVIOUS
<1> DEFINE l == Append(a, Head(b)) \o Tail(b)
           r == a \o b
<1>2. l \in Seq(S) /\ r \in Seq(S)
    BY <1>1
<1>3. Len(l) = Len(r)
    BY <1>1
<1>4. ASSUME NEW i \in 1..Len(r) PROVE l[i] = r[i]
    BY <1>1, <1>4
<1>5. l = r
    <2> HIDE DEF l, r
    <2> QED BY <1>2, <1>3, <1>4
<1> QED BY <1>1, <1>5

(* Moving the first of a behind b turns a followed by b by one place. *)
LEMMA Rotate ==
    ASSUME NEW S, NEW a \in Seq(S), NEW b \in Seq(S), a # <<>>
    PROVE  /\ Tail(a) \in Seq(S) /\ Append(b, Head(a)) \in Seq(S)
           /\ Len(Tail(a) \o Append(b, Head(a))) = Len(a \o b)
           /\ \A i \in 1..Len(a \o b) :
                (Tail(a) \o Append(b, Head(a)))[i] =
                    IF i = Len(a \o b) THEN (a \o b)[1] ELSE (a \o b)[i + 1]
<1>1. Head(a) \in S /\ Tail(a) \in Seq(S) /\ Append(b, Head(a)) \in Seq(S)
    OBVIOUS
<1>2. Len(Tail(a) \o Append(b, Head(a))) = Len(a \o b)
    BY <1>1
<1>3. ASSUME NEW i \in 1..Len(a \o b)
      PROVE  (Tail(a) \o Append(b, Head(a)))[i] =
                 IF i = Len(a \o b) THEN (a \o b)[1] ELSE (a \o b)[i + 1]
    BY <1>1, <1>3
<1> QED BY <1>1, <1>2, <1>3

-----------------------------------------------------------------------------

Once(s) == \A i, j \in 1..Len(s) : s[i] = s[j] => i = j

Pool == input \in Seq(Frame) /\ output \in Seq(Frame)

PoolInv == Pool /\ OnePlace

LEMMA InitPool == Init => PoolInv
<1> SUFFICES ASSUME Init PROVE PoolInv
    OBVIOUS
<1> USE MediaAssumption DEF MediaAssumption, Frame
<1>1. input \in Seq(Frame) /\ Len(input) = NumFrames /\ output = <<>>
    BY DEF Init
<1>2. output \o input = input
    BY <1>1
<1>3. \A i \in 1..NumFrames : input[i] = i
    BY DEF Init
<1> QED BY <1>1, <1>2, <1>3 DEF PoolInv, Pool, OnePlace

LEMMA NextPool == PoolInv /\ [Next]_vars => PoolInv'
<1> SUFFICES ASSUME PoolInv, [Next]_vars PROVE PoolInv'
    OBVIOUS
<1> USE DEF PoolInv, Pool, OnePlace
<1>1. CASE ReadFrame
    <2>1. /\ input # <<>>
          /\ output' = Append(output, Head(input)) /\ input' = Tail(input)
        BY <1>1 DEF ReadFrame
    <2>2. (output \o input)' = output \o input /\ Pool'
        BY <2>1, MoveHead
    <2> QED BY <2>2
<1>2. CASE SendFrame
    <2>1. /\ output # <<>>
          /\ output' = Tail(output) /\ input' = Append(input, Head(output))
        BY <1>2 DEF SendFrame
    <2> DEFINE all == output \o input
               new == Tail(output) \o Append(input, Head(output))
    <2>2. Pool'
        BY <2>1, Rotate
    <2>3. /\ Len(new) = Len(all)
          /\ \A i \in 1..Len(all) : new[i] = IF i = Len(all) THEN all[1] ELSE all[i + 1]
        BY <2>1, Rotate
    <2>4. Once(all) /\ Len(all) = NumFrames
        BY DEF Once
    <2>5. (output \o input)' = new
        BY <2>1
    <2>6. Len(all) \in Nat
        OBVIOUS
    <2>7. Once(new)
        <3> HIDE DEF all, new
        <3> SUFFICES ASSUME NEW i \in 1..Len(all), NEW j \in 1..Len(all), new[i] = new[j]
                     PROVE  i = j
            BY <2>3 DEF Once
        <3> DEFINE before(k) == IF k = Len(all) THEN 1 ELSE k + 1
        <3>1. before(i) \in 1..Len(all) /\ before(j) \in 1..Len(all)
            BY <2>6
        <3>2. all[before(i)] = all[before(j)]
            BY <2>3
        <3>3. before(i) = before(j)
            BY <3>1, <3>2, <2>4 DEF Once
        <3> QED BY <3>3, <2>6
    <2>8. Len(new) = NumFrames
        BY <2>3, <2>4
    <2>9. OnePlace'
        <3> HIDE DEF new
        <3> QED BY <2>5, <2>7, <2>8 DEF Once
    <2> QED BY <2>2, <2>9
<1>3. CASE ReadFails \/ Overrun \/ UNCHANGED vars
    BY <1>3 DEF ReadFails, Overrun, vars, pool
<1> QED BY <1>1, <1>2, <1>3 DEF Next, Source, Sink

(* mAVFrameInputQueue and mAVFrameOutputQueue hold every frame of the pool once, *)
(* for any number of frames, any files and any sizes: reads that fail, files     *)
(* that start anew and frames in any state lose none and queue none twice.       *)
THEOREM FramesConserved == Spec => []OnePlace
<1>1. PoolInv => OnePlace
    BY DEF PoolInv
<1> QED BY <1>1, InitPool, NextPool, PTL DEF Spec

-----------------------------------------------------------------------------
(* The file, as its start codes and NAL units and as its bytes. *)
Pieces(f) == [i \in 1..Len(f.nals) |-> Piece(f.nals[i])]

(* b begins with a start code of c bytes and goes on with the bytes d. *)
CodeAndBytes(b, c, d) ==
    /\ b \in Seq(Nat) /\ Len(b) = c + Len(d)
    /\ b[1] = 0 /\ b[2] = 0
    /\ IF c = 3 THEN b[3] = 1 ELSE b[3] = 0 /\ b[4] = 1
    /\ \A i \in 1..Len(d) : b[c + i] = d[i]

LEMMA PieceLayout ==
    ASSUME NEW n \in Nal
    PROVE  CodeAndBytes(Piece(n), n.code, n.bytes)
<1> DEFINE c == StartCode(n)
           d == n.bytes
           b == c \o d
<1>1. n.code \in {3, 4} /\ d \in Seq(Nat)
    BY DEF Nal
<1>2. CASE n.code = 3
    <2>1. c = <<0, 0, 1>>
        BY <1>2 DEF StartCode
    <2> HIDE DEF c, d
    <2>2. c \in Seq(Nat) /\ Len(c) = 3 /\ c[1] = 0 /\ c[2] = 0 /\ c[3] = 1
        BY <2>1
    <2>3. b \in Seq(Nat) /\ Joined(b, c, d)
        BY <1>1, <2>2, ConcatAt
    <2> HIDE DEF b
    <2>4. CodeAndBytes(b, n.code, d)
        BY <1>2, <2>2, <2>3 DEF Joined, CodeAndBytes
    <2> QED BY <2>4 DEF b, c, d, Piece
<1>3. CASE n.code = 4
    <2>1. c = <<0, 0, 0, 1>>
        BY <1>3 DEF StartCode
    <2> HIDE DEF c, d
    <2>2. c \in Seq(Nat) /\ Len(c) = 4 /\ c[1] = 0 /\ c[2] = 0 /\ c[3] = 0 /\ c[4] = 1
        BY <2>1
    <2>3. b \in Seq(Nat) /\ Joined(b, c, d)
        BY <1>1, <2>2, ConcatAt
    <2> HIDE DEF b
    <2>4. CodeAndBytes(b, n.code, d)
        BY <1>3, <2>2, <2>3 DEF Joined, CodeAndBytes
    <2> QED BY <2>4 DEF b, c, d, Piece
<1> QED BY <1>1, <1>2, <1>3

LEMMA ContentsType ==
    ASSUME NEW f \in Files
    PROVE  /\ Len(f.nals) \in Nat /\ Len(f.nals) > 0 /\ f.nals \in Seq(Nal)
           /\ Pieces(f) \in Seq(Seq(Nat)) /\ Len(Pieces(f)) = Len(f.nals)
           /\ \A i \in 1..Len(f.nals) : Pieces(f)[i] = Piece(f.nals[i]) /\ f.nals[i] \in Nal
           /\ FlattenSeq(Pieces(f)) \in Seq(Nat)
           /\ Contents(f) = f.lead \o FlattenSeq(Pieces(f)) /\ Contents(f) \in Seq(Nat)
<1>1. f.lead \in Seq(Nat) /\ f.nals \in Seq(Nal) /\ f.nals # <<>>
    BY FilesAssumption
<1>2. Len(f.nals) \in Nat /\ Len(f.nals) > 0 /\ \A i \in 1..Len(f.nals) : f.nals[i] \in Nal
    BY <1>1
<1>3. \A i \in 1..Len(f.nals) : Piece(f.nals[i]) \in Seq(Nat)
    BY <1>2, PieceLayout DEF CodeAndBytes
<1>4. Pieces(f) \in Seq(Seq(Nat)) /\ Len(Pieces(f)) = Len(f.nals)
      /\ \A i \in 1..Len(f.nals) : Pieces(f)[i] = Piece(f.nals[i])
    BY <1>2, <1>3 DEF Pieces
<1>5. FlattenSeq(Pieces(f)) \in Seq(Nat)
    BY <1>4, OffsetNext
<1>6. Contents(f) = f.lead \o FlattenSeq(Pieces(f))
    BY DEF Contents, Pieces
<1> QED BY <1>1, <1>2, <1>4, <1>5, <1>6

-----------------------------------------------------------------------------
(* Reading *)

All == Contents(file)

LEMMA BytesRead ==
    ASSUME file \in Files, pos \in 0..Len(All)
    PROVE  /\ Bytes \in Seq(Nat)
           /\ Len(Bytes) = IF pos + FrameMax < Len(All) THEN FrameMax ELSE Len(All) - pos
           /\ Len(Bytes) \in 0..FrameMax /\ pos + Len(Bytes) \in 0..Len(All)
           /\ \A k \in 1..Len(Bytes) : Bytes[k] = All[pos + k]
<1> DEFINE a == All
           m == IF pos + FrameMax < Len(a) THEN pos + FrameMax ELSE Len(a)
           b == SubSeq(a, pos + 1, m)
<1>1. a \in Seq(Nat) /\ Len(a) \in Nat /\ FrameMax \in Nat
    BY ContentsType, MediaAssumption DEF All
<1>2. pos \in Nat /\ pos <= Len(a)
    BY <1>1
<1>3. Bytes = b
    BY DEF Bytes, All
<1> HIDE DEF a
<1>4. m \in pos..Len(a) /\ m <= pos + FrameMax
      /\ m - pos = IF pos + FrameMax < Len(a) THEN FrameMax ELSE Len(a) - pos
    BY <1>1, <1>2
<1> HIDE DEF m
<1>5. b \in Seq(Nat) /\ Len(b) = m - pos
    BY <1>1, <1>2, <1>4
<1>6. \A k \in 1..(m - pos) : b[k] = a[pos + k]
    BY <1>1, <1>2, <1>4
<1> HIDE DEF b
<1>7. m - pos \in 0..FrameMax /\ pos + (m - pos) \in 0..Len(a)
    BY <1>1, <1>2, <1>4
<1> QED BY <1>3, <1>4, <1>5, <1>6, <1>7 DEF a

LEMMA LoadedType ==
    ASSUME file \in Files, pos \in 0..Len(All), NEW f \in Frame,
           buffer \in [Frame -> [1..FrameMax -> Nat]]
    PROVE  /\ Loaded(f) \in [1..FrameMax -> Nat]
           /\ \A k \in 1..Len(Bytes) : k \in 1..FrameMax /\ Loaded(f)[k] = Bytes[k]
<1>1. Bytes \in Seq(Nat) /\ Len(Bytes) \in 0..FrameMax
    BY BytesRead
<1>2. FrameMax \in Nat
    BY MediaAssumption
<1>3. ASSUME NEW k \in 1..FrameMax PROVE (IF k <= Len(Bytes) THEN Bytes[k] ELSE buffer[f][k]) \in Nat
    <2>1. CASE k <= Len(Bytes)
        <3>1. k \in 1..Len(Bytes)
            BY <1>1, <2>1
        <3>2. Bytes[k] \in Nat
            BY <1>1, <3>1
        <3> QED BY <2>1, <3>2
    <2>2. CASE ~(k <= Len(Bytes))
        BY <2>2
    <2> QED BY <2>1, <2>2
<1>4. Loaded(f) \in [1..FrameMax -> Nat]
    BY <1>3 DEF Loaded
<1>5. \A k \in 1..Len(Bytes) : k \in 1..FrameMax /\ Loaded(f)[k] = Bytes[k]
    BY <1>1, <1>2 DEF Loaded
<1> QED BY <1>4, <1>5

(* How many bytes of what was read are the frame's. *)
Total(b, n) == LET next == NextStartCodes(b, n)
               IN  IF next = {} THEN n ELSE Min(next)

LEMMA TotalIs ==
    ASSUME NEW b, NEW n \in Nat
    PROVE  LET next == NextStartCodes(b, n)
           IN  /\ next = {} => Total(b, n) = n
               /\ next # {} => /\ Total(b, n) \in next /\ Total(b, n) \in 3..(n - 3)
                               /\ \A q \in next : Total(b, n) <= q
               /\ Total(b, n) \in 0..n
<1> DEFINE next == NextStartCodes(b, n)
<1>1. next \in SUBSET Nat /\ \A p \in next : p \in 3..(n - 3)
    BY DEF NextStartCodes
<1>2. next = {} => Total(b, n) = n
    BY DEF Total
<1>3. ASSUME next # {} PROVE Total(b, n) \in next /\ \A q \in next : Total(b, n) <= q
    <2>1. Total(b, n) = CHOOSE p \in next : \A q \in next : p <= q
        BY <1>3 DEF Total, Min
    <2> HIDE DEF next
    <2>2. \E p \in next : \A q \in next : p <= q
        BY <1>1, <1>3, MinExists
    <2> QED BY <2>1, <2>2
<1> HIDE DEF next
<1>4. next # {} => Total(b, n) \in 3..(n - 3)
    BY <1>1, <1>3
<1>5. Total(b, n) \in 0..n
    BY <1>2, <1>4
<1> QED BY <1>2, <1>3, <1>4, <1>5 DEF next

-----------------------------------------------------------------------------
(* Arithmetic modulo s. *)
LEMMA DivMod ==
    ASSUME NEW s \in Nat \ {0}, NEW a \in Nat
    PROVE  a = s * (a \div s) + (a % s) /\ a % s \in 0..(s - 1) /\ a \div s \in Nat
OBVIOUS

LEMMA ModOf ==
    ASSUME NEW s \in Nat \ {0}, NEW q \in Int, NEW r \in 0..(s - 1)
    PROVE  (s * q + r) % s = r
OBVIOUS

LEMMA ModAdd ==
    ASSUME NEW s \in Nat \ {0}, NEW a \in Nat, NEW b \in Nat
    PROVE  ((a % s) + b) % s = (a + b) % s
<1>1. PICK q \in Nat, r \in 0..(s - 1) : a = s * q + r /\ a % s = r
    BY DivMod
<1>2. r + b \in Nat
    OBVIOUS
<1>3. PICK p \in Nat, t \in 0..(s - 1) : r + b = s * p + t /\ (r + b) % s = t
    BY <1>2, DivMod
<1>4. a + b = s * (q + p) + t
    <2>1. s * (q + p) = s * q + s * p
        OBVIOUS
    <2>2. s * q \in Nat /\ s * p \in Nat
        OBVIOUS
    <2> QED BY <1>1, <1>3, <2>1, <2>2
<1>5. (a + b) % s = t
    <2>1. PICK k \in Int : k = q + p
        OBVIOUS
    <2>2. (s * k + t) % s = t
        BY ModOf
    <2> QED BY <1>4, <2>1, <2>2
<1> QED BY <1>1, <1>3, <1>5

LEMMA ModSmall ==
    ASSUME NEW s \in Nat \ {0}, NEW a \in 0..(s - 1)
    PROVE  a % s = a /\ s % s = 0 /\ (0 - 1) % s = s - 1
<1>1. a % s = a /\ s % s = 0
    OBVIOUS
<1>2. s - 1 \in 0..(s - 1) /\ s * (0 - 1) + (s - 1) = 0 - 1
    OBVIOUS
<1>3. (s * (0 - 1) + (s - 1)) % s = s - 1
    BY <1>2, ModOf
<1> QED BY <1>1, <1>2, <1>3

LEMMA ModBack ==
    ASSUME NEW s \in Nat \ {0}, NEW a \in 0..(s - 1)
    PROVE  (((a + 1) % s) - 1) % s = a
<1>1. CASE a = s - 1
    <2>1. (a + 1) % s = 0
        <3>1. a + 1 = s /\ s % s = 0
            BY <1>1, ModSmall
        <3> QED BY <3>1
    <2>2. (0 - 1) % s = a
        BY <1>1, ModSmall
    <2> QED BY <2>1, <2>2
<1>2. CASE a # s - 1
    <2>1. PICK c \in 0..(s - 1) : c = a + 1
        BY <1>2
    <2>2. c % s = c
        BY ModSmall
    <2>3. a % s = a
        BY ModSmall
    <2>4. ((a + 1) % s) - 1 = a
        BY <2>1, <2>2
    <2> QED BY <2>3, <2>4
<1> QED BY <1>1, <1>2

(* A round has the NALs that fit and, if there are more, one that is cut. *)
LEMMA RoundIs ==
    ASSUME NEW f \in Files
    PROVE  /\ Whole(f) \in 0..Len(f.nals)
           /\ \A i \in 1..Whole(f) : Fits(f, i)
           /\ Whole(f) < Len(f.nals) => ~Fits(f, Whole(f) + 1)
           /\ Len(Round(f)) = IF Whole(f) < Len(f.nals) THEN Whole(f) + 1 ELSE Whole(f)
           /\ Len(Round(f)) \in 1..Len(f.nals)
           /\ \A i \in 1..Len(Round(f)) :
                Round(f)[i] = IF i <= Whole(f) THEN f.nals[i].bytes ELSE Cut(f, i)
<1> DEFINE T == {n \in 0..Len(f.nals) : \A i \in 1..n : Fits(f, i)}
<1>1. PICK len \in Nat : len = Len(f.nals) /\ len > 0
    BY ContentsType
<1>2. T \subseteq 0..len /\ 0 \in T
    BY <1>1
<1>3. Whole(f) = Max(T)
    BY DEF Whole
<1>4. Max(T) \in T /\ \A k \in T : Max(T) >= k
    <2> HIDE DEF T
    <2>1. \E m \in T : \A k \in T : m >= k
        BY <1>2, MaxExists
    <2> QED BY <2>1 DEF Max
<1>5. PICK n \in 0..len : n = Whole(f)
    BY <1>1, <1>3, <1>4
<1>6. \A i \in 1..n : Fits(f, i)
    BY <1>3, <1>4, <1>5
<1>7. ASSUME n < len, Fits(f, n + 1) PROVE FALSE
    <2>1. \A i \in 1..(n + 1) : i \in 1..n \/ i = n + 1
        OBVIOUS
    <2>2. n + 1 \in T
        BY <1>1, <1>6, <1>7, <2>1
    <2> QED BY <1>3, <1>4, <1>5, <2>2
<1>8. PICK m \in Nat : m = n + (IF n < len THEN 1 ELSE 0)
    OBVIOUS
<1>9. Round(f) = [i \in 1..m |-> IF i <= Whole(f) THEN f.nals[i].bytes ELSE Cut(f, i)]
    BY <1>1, <1>5, <1>8 DEF Round
<1>10. Len(Round(f)) = m
    BY <1>9
<1>11. m \in 1..len /\ m = IF n < len THEN n + 1 ELSE n
    BY <1>1, <1>8
<1> QED BY <1>1, <1>5, <1>6, <1>7, <1>9, <1>10, <1>11

-----------------------------------------------------------------------------
(* Types *)

Typed ==
    /\ file \in Files /\ pos \in 0..Len(All)
    /\ buffer \in [Frame -> [1..FrameMax -> Nat]]
    /\ skip \in [Frame -> {0, 3, 4}]
    /\ size \in [Frame -> -4..FrameMax]
    /\ Pool
    /\ seq \in 0..(SeqSize - 1) /\ clock \in 0..(ClockSize - 1)
    /\ packets \in Seq(Packet)
    /\ nth \in 0..(Len(Round(file)) - 1)
    /\ up \in BOOLEAN

(* What a read that succeeds does, by the frame, how many bytes are its NAL's *)
(* and how many the start code's.                                            *)
ReadInto(f, total, code) ==
    /\ f \in Frame /\ total \in 0..Len(Bytes) /\ code \in {3, 4}
    /\ f = Head(input) /\ input # <<>>
    /\ HasStartCode(Loaded(f))
    /\ total = Total(Loaded(f), Len(Bytes))
    /\ code = IF StartCode3(Loaded(f), 0) THEN 3 ELSE 4
    /\ pos' = IF NextStartCodes(Loaded(f), Len(Bytes)) = {} THEN 0 ELSE pos + total
    /\ buffer' = [buffer EXCEPT ![f] = Loaded(f)]
    /\ skip' = [skip EXCEPT ![f] = code]
    /\ size' = [size EXCEPT ![f] = total - code]
    /\ output' = Append(output, f) /\ input' = Tail(input)
    /\ UNCHANGED <<file, seq, clock, packets, nth, up>>

LEMMA ReadFrameIs ==
    ASSUME Typed, ReadFrame
    PROVE  \E f \in Frame : \E total \in 0..Len(Bytes) : \E code \in {3, 4} : ReadInto(f, total, code)
<1> DEFINE f == Head(input)
           total == Total(Loaded(f), Len(Bytes))
           code == IF StartCode3(Loaded(f), 0) THEN 3 ELSE 4
<1>1. f \in Frame
    BY DEF Typed, Pool, ReadFrame
<1>2. total \in 0..Len(Bytes)
    <2>1. Len(Bytes) \in Nat
        BY BytesRead DEF Typed
    <2> QED BY <2>1, TotalIs
<1>3. code \in {3, 4}
    OBVIOUS
<1>4. ReadInto(f, total, code)
    BY <1>1, <1>2, <1>3 DEF ReadFrame, ReadInto, Total, Rewound
<1> QED BY <1>1, <1>2, <1>3, <1>4

(* What sending a frame does. *)
SendOf(f) ==
    /\ f \in Frame /\ f = Head(output) /\ output # <<>>
    /\ size[f] >= 0
    /\ packets' = Packets(f)
    /\ seq' = (seq + Len(packets')) % SeqSize
    /\ clock' = IF size[f] <= MaxPkt /\ IsParameterSet(Slice(f, 0, 1)[1])
                THEN clock ELSE (clock + 1) % ClockSize
    /\ output' = Tail(output) /\ input' = Append(input, f)
    /\ nth' = (nth + 1) % Len(Round(file))
    /\ UNCHANGED <<file, pos, buffer, skip, size, up>>

LEMMA SendFrameIs ==
    ASSUME Typed, SendFrame
    PROVE  \E f \in Frame : SendOf(f)
<1> DEFINE f == Head(output)
<1>1. f \in Frame
    BY DEF Typed, Pool, SendFrame
<1>2. SendOf(f)
    BY <1>1 DEF SendFrame, SendOf
<1> QED BY <1>1, <1>2

LEMMA SliceType ==
    ASSUME Typed, NEW f \in Frame, NEW from \in Nat, NEW n \in Nat
    PROVE  /\ Slice(f, from, n) \in Seq(Nat) /\ Len(Slice(f, from, n)) = n
           /\ \A k \in 1..n : /\ Slice(f, from, n)[k] \in Nat
                              /\ Slice(f, from, n)[k] =
                                   IF skip[f] + from + k <= FrameMax
                                   THEN buffer[f][skip[f] + from + k] ELSE Junk
<1>1. skip[f] \in {0, 3, 4} /\ buffer[f] \in [1..FrameMax -> Nat]
    BY DEF Typed
<1>2. FrameMax \in Nat /\ Junk \in Nat
    BY MediaAssumption
<1>3. skip[f] \in Nat
    BY <1>1
<1>4. ASSUME NEW k \in 1..n
      PROVE  (IF skip[f] + from + k <= FrameMax THEN buffer[f][skip[f] + from + k] ELSE Junk) \in Nat
    BY <1>1, <1>2, <1>3
<1>5. Slice(f, from, n) = [k \in 1..n |-> IF skip[f] + from + k <= FrameMax
                                          THEN buffer[f][skip[f] + from + k] ELSE Junk]
    BY DEF Slice
<1> QED BY <1>4, <1>5

(* The packets of a frame, and their numbers. *)
LEMMA PacketsAre ==
    ASSUME Typed, NEW f \in Frame, size[f] >= 0
    PROVE  /\ Packets(f) \in Seq(Packet) /\ Len(Packets(f)) \in Nat \ {0}
           /\ \A i \in 1..Len(Packets(f)) :
                /\ Packets(f)[i].clock = clock
                /\ Packets(f)[i].seq = (seq + i - 1) % SeqSize
                /\ ~Packets(f)[i].fu => Packets(f)[i].nalu = Slice(f, 0, 1)[1]
                /\ Packets(f)[i].fu <=> size[f] > MaxPkt
<1> DEFINE full == size[f] \div MaxPkt
           rest == size[f] % MaxPkt
           n == full + (IF rest > 0 THEN 1 ELSE 0)
           nalu == Slice(f, 0, 1)[1]
<1>1. PICK z \in Nat : z = size[f]
    BY DEF Typed
<1>2. MaxPkt \in Nat \ {0} /\ SeqSize \in Nat \ {0} /\ seq \in 0..(SeqSize - 1) /\ clock \in Nat
    BY MediaAssumption DEF Typed
<1>3. nalu \in Nat
    BY SliceType
<1>4. CASE z <= MaxPkt
    <2> DEFINE p == [fu |-> FALSE, nalu |-> nalu, start |-> FALSE, end |-> FALSE,
                     data |-> Slice(f, 0, size[f]), seq |-> seq, clock |-> clock]
    <2>1. Packets(f) = <<p>>
        BY <1>1, <1>4 DEF Packets
    <2>2. Slice(f, 0, size[f]) \in Seq(Nat)
        BY <1>1, SliceType
    <2>3. p \in Packet
        BY <1>2, <1>3, <2>2 DEF Packet
    <2>4. (seq + 1 - 1) % SeqSize = seq
        BY <1>2, ModSmall
    <2>5. p.clock = clock /\ p.seq = seq /\ p.nalu = nalu /\ p.fu = FALSE
        OBVIOUS
    <2> HIDE DEF p, nalu
    <2>6. Packets(f) \in Seq(Packet) /\ Len(Packets(f)) = 1 /\ \A i \in 1..1 : i = 1 /\ Packets(f)[i] = p
        BY <2>1, <2>3
    <2>7. ~Packets(f)[1].fu /\ ~(size[f] > MaxPkt)
        BY <1>1, <1>2, <1>4, <2>5, <2>6
    <2> QED BY <2>4, <2>5, <2>6, <2>7 DEF nalu
<1>5. CASE z > MaxPkt
    <2> DEFINE q(i) == [fu |-> TRUE, nalu |-> nalu % 128, start |-> i = 1,
                        end |-> i > 1 /\ IsEnd(i, full, rest),
                        data |-> Slice(f, 1 + (i - 1) * MaxPkt, IF i <= full THEN MaxPkt ELSE rest),
                        seq |-> (seq + i - 1) % SeqSize, clock |-> clock]
    <2>1. Packets(f) = [i \in 1..n |-> q(i)]
        BY <1>1, <1>2, <1>5 DEF Packets
    <2>2. full \in Nat /\ full >= 1 /\ rest \in Nat
        BY <1>1, <1>2, <1>5
    <2>3. n \in Nat \ {0}
        BY <2>2
    <2> HIDE DEF n
    <2>4. ASSUME NEW i \in 1..n PROVE q(i) \in Packet
        <3>1. 1 + (i - 1) * MaxPkt \in Nat
            BY <1>2, <2>3
        <3>2. (IF i <= full THEN MaxPkt ELSE rest) \in Nat
            BY <1>2, <2>2
        <3>3. Slice(f, 1 + (i - 1) * MaxPkt, IF i <= full THEN MaxPkt ELSE rest) \in Seq(Nat)
            BY <3>1, <3>2, SliceType
        <3>4. (seq + i - 1) % SeqSize \in Nat
            BY <1>2, <2>3
        <3>5. (i > 1 /\ IsEnd(i, full, rest)) \in BOOLEAN
            BY DEF IsEnd
        <3> HIDE DEF nalu, full, rest
        <3>6. nalu % 128 \in Nat
            BY <1>3
        <3> QED BY <1>2, <3>3, <3>4, <3>5, <3>6 DEF Packet
    <2>5. \A i \in 1..n : q(i).clock = clock /\ q(i).seq = (seq + i - 1) % SeqSize
                          /\ q(i).fu = TRUE
        OBVIOUS
    <2> HIDE DEF q, nalu
    <2>6. Packets(f) \in Seq(Packet) /\ Len(Packets(f)) = n /\ \A i \in 1..n : Packets(f)[i] = q(i)
        BY <2>1, <2>3, <2>4
    <2>7. \A i \in 1..n : Packets(f)[i].fu /\ size[f] > MaxPkt
        BY <1>1, <1>2, <1>5, <2>5, <2>6
    <2>8. /\ Packets(f) \in Seq(Packet) /\ Len(Packets(f)) = n
          /\ \A i \in 1..n : /\ Packets(f)[i].clock = clock
                             /\ Packets(f)[i].seq = (seq + i - 1) % SeqSize
                             /\ Packets(f)[i].fu /\ size[f] > MaxPkt
        BY <2>5, <2>6, <2>7
    <2>9. ASSUME NEW i \in 1..Len(Packets(f))
          PROVE  /\ Packets(f)[i].clock = clock
                 /\ Packets(f)[i].seq = (seq + i - 1) % SeqSize
                 /\ ~Packets(f)[i].fu => Packets(f)[i].nalu = Slice(f, 0, 1)[1]
                 /\ Packets(f)[i].fu <=> size[f] > MaxPkt
        BY <2>8, <2>9, Zenon
    <2>10. Packets(f) \in Seq(Packet) /\ Len(Packets(f)) \in Nat \ {0}
        BY <2>3, <2>8
    <2> QED BY <2>9, <2>10
<1>6. z <= MaxPkt \/ z > MaxPkt
    BY <1>2
<1> QED BY <1>4, <1>5, <1>6, Zenon

LEMMA InitTyped == Init => Typed
<1> SUFFICES ASSUME Init PROVE Typed
    OBVIOUS
<1> USE DEF Init
<1>1. file \in Files /\ All \in Seq(Nat)
    BY ContentsType DEF All
<1>2. pos \in 0..Len(All)
    BY <1>1
<1>3. FrameMax \in Nat /\ Junk \in Nat /\ SeqSize \in Nat \ {0} /\ ClockSize \in Nat \ {0}
    BY MediaAssumption
<1>4. Pool
    BY InitPool DEF PoolInv
<1>5. Len(Round(file)) \in Nat /\ Len(Round(file)) >= 1
    <2>1. Len(Round(file)) \in 1..Len(file.nals) /\ Len(file.nals) \in Nat
        BY <1>1, RoundIs, ContentsType
    <2> QED BY <2>1
<1>6. nth \in 0..(Len(Round(file)) - 1)
    BY <1>5
<1>7. seq \in 0..(SeqSize - 1) /\ clock \in 0..(ClockSize - 1)
    BY <1>3
<1>8. buffer \in [Frame -> [1..FrameMax -> Nat]] /\ skip \in [Frame -> {0, 3, 4}]
    BY <1>3
<1>9. size \in [Frame -> -4..FrameMax]
    BY <1>3
<1>10. packets \in Seq(Packet)
    OBVIOUS
<1> QED BY <1>1, <1>2, <1>4, <1>6, <1>7, <1>8, <1>9, <1>10 DEF Typed

LEMMA NextTyped == Typed /\ [Next]_vars => Typed'
<1> SUFFICES ASSUME Typed, [Next]_vars PROVE Typed'
    OBVIOUS
<1>1. /\ Bytes \in Seq(Nat) /\ Len(Bytes) \in 0..FrameMax /\ pos + Len(Bytes) \in 0..Len(All)
      /\ Len(All) \in Nat /\ pos \in Nat /\ FrameMax \in Nat
    <2>1. Len(All) \in Nat
        BY ContentsType DEF Typed, All
    <2> QED BY <2>1, BytesRead, MediaAssumption DEF Typed
<1>2. CASE ReadFrame
    <2>1. PICK f \in Frame, total \in 0..Len(Bytes), code \in {3, 4} : ReadInto(f, total, code)
        BY <1>2, ReadFrameIs
    <2> USE <2>1 DEF ReadInto
    <2>2. Loaded(f) \in [1..FrameMax -> Nat]
        BY LoadedType DEF Typed
    <2>3. buffer' \in [Frame -> [1..FrameMax -> Nat]] /\ skip' \in [Frame -> {0, 3, 4}]
        BY <2>2 DEF Typed
    <2>4. total - code \in -4..FrameMax
        <3>1. PICK n \in Nat : n = Len(Bytes) /\ n <= FrameMax
            BY <1>1
        <3>2. total \in 0..n
            BY <3>1
        <3> HIDE <2>1
        <3> QED BY <1>1, <3>1, <3>2
    <2>5. size' \in [Frame -> -4..FrameMax]
        BY <2>4 DEF Typed
    <2>6. pos' \in 0..Len(All)
        BY <1>1
    <2>7. Pool'
        BY MoveHead DEF Typed, Pool
    <2> QED BY <2>3, <2>5, <2>6, <2>7 DEF Typed, All
<1>3. CASE ReadFails
    <2>1. PICK f \in Frame : f = Head(input)
        BY <1>3 DEF ReadFails, Typed, Pool
    <2>2. Loaded(f) \in [1..FrameMax -> Nat]
        BY LoadedType DEF Typed
    <2>3. buffer' = [buffer EXCEPT ![f] = Loaded(f)] /\ size' = [size EXCEPT ![f] = -1]
        BY <1>3, <2>1 DEF ReadFails
    <2>4. buffer' \in [Frame -> [1..FrameMax -> Nat]]
        BY <2>2, <2>3 DEF Typed
    <2>5. -1 \in -4..FrameMax
        BY <1>1
    <2>6. size' \in [Frame -> -4..FrameMax]
        BY <2>3, <2>5 DEF Typed
    <2>7. pos' \in 0..Len(All)
        BY <1>1, <1>3 DEF ReadFails
    <2> QED BY <1>3, <2>4, <2>6, <2>7 DEF ReadFails, Typed, All, Pool
<1>4. CASE SendFrame
    <2>1. PICK f \in Frame : SendOf(f)
        BY <1>4, SendFrameIs
    <2>2. packets' = Packets(f) /\ Packets(f) \in Seq(Packet)
        BY <2>1, PacketsAre DEF SendOf
    <2>3. seq' \in 0..(SeqSize - 1)
        <3>1. PICK n \in Nat : n = Len(packets')
            BY <2>2
        <3>2. SeqSize \in Nat \ {0} /\ seq \in Nat
            BY MediaAssumption DEF Typed
        <3>3. (seq + n) % SeqSize \in 0..(SeqSize - 1)
            BY <3>2, DivMod
        <3> QED BY <2>1, <3>1, <3>3 DEF SendOf
    <2>4. clock' \in 0..(ClockSize - 1)
        <3>1. ClockSize \in Nat \ {0} /\ clock \in 0..(ClockSize - 1) /\ clock + 1 \in Nat
            BY MediaAssumption DEF Typed
        <3>2. (clock + 1) % ClockSize \in 0..(ClockSize - 1)
            BY <3>1, DivMod
        <3> QED BY <2>1, <3>1, <3>2 DEF SendOf
    <2>5. nth' \in 0..(Len(Round(file)) - 1)
        <3>1. PICK n \in Nat \ {0} : n = Len(Round(file))
            <4>1. Len(Round(file)) \in 1..Len(file.nals) /\ Len(file.nals) \in Nat
                BY RoundIs, ContentsType DEF Typed
            <4> QED BY <4>1
        <3>2. nth + 1 \in Nat
            BY <3>1 DEF Typed
        <3>3. (nth + 1) % n \in 0..(n - 1)
            BY <3>1, <3>2, DivMod
        <3> QED BY <2>1, <3>1, <3>3 DEF SendOf
    <2>6. Pool'
        BY <2>1, Rotate DEF SendOf, Typed, Pool
    <2> QED BY <2>1, <2>2, <2>3, <2>4, <2>5, <2>6 DEF SendOf, Typed, All
<1>5. CASE Overrun \/ UNCHANGED vars
    BY <1>5 DEF Overrun, vars, pool, Typed, Pool, All
<1> QED BY <1>2, <1>3, <1>4, <1>5 DEF Next, Source, Sink

(* Every variable keeps its type: in particular mFrameSize stays within what one *)
(* read can leave, -4..FRAME_MAX_SIZE, and mSeq within its width.               *)
THEOREM MediaTypes == Spec => []TypeOK
<1>1. Typed => TypeOK
    <2> SUFFICES ASSUME Typed PROVE TypeOK
        OBVIOUS
    <2>1. Len(All) \in Nat
        BY ContentsType DEF Typed, All
    <2>2. Len(Round(file)) \in 1..Len(file.nals) /\ Len(file.nals) \in Nat
        BY RoundIs, ContentsType DEF Typed
    <2>3. pos \in Nat /\ nth \in Nat
        BY <2>1, <2>2 DEF Typed
    <2> QED BY <2>3 DEF Typed, TypeOK, Pool
<1> QED BY <1>1, InitTyped, NextTyped, PTL DEF Spec

-----------------------------------------------------------------------------
(* A whole start code of b begins at p. *)
AtCode(b, p) ==
    \/ p + 3 <= Len(b) /\ StartCode3(b, p)
    \/ p + 4 <= Len(b) /\ StartCode4(b, p)

(* In a file that begins with a start code, its pieces are all there is. *)
LEMMA PieceAt ==
    ASSUME NEW f \in Files, WellFormed(f), NEW i \in 1..Len(f.nals)
    PROVE  LET n == f.nals[i]
               p == Offset(Pieces(f), i - 1)
           IN  /\ n \in Nal /\ p \in Nat /\ Offset(Pieces(f), 0) = 0
               /\ Offset(Pieces(f), i) = p + n.code + Len(n.bytes)
               /\ Offset(Pieces(f), i) <= Len(Contents(f))
               /\ Offset(Pieces(f), Len(f.nals)) = Len(Contents(f))
               /\ \A j \in 1..(n.code + Len(n.bytes)) :
                    p + j \in 1..Len(Contents(f)) /\ Contents(f)[p + j] = Piece(n)[j]
<1> DEFINE s == Pieces(f)
           n == f.nals[i]
           k == i - 1
           p == Offset(s, k)
<1>1. /\ s \in Seq(Seq(Nat)) /\ Len(s) = Len(f.nals) /\ s[i] = Piece(n) /\ n \in Nal
      /\ FlattenSeq(s) \in Seq(Nat) /\ Contents(f) = f.lead \o FlattenSeq(s) /\ Len(f.nals) \in Nat
    BY ContentsType
<1>2. f.lead = <<>>
    BY DEF WellFormed
<1> HIDE DEF s
<1>3. Contents(f) = FlattenSeq(s)
    BY <1>1, <1>2
<1>4. Len(Piece(n)) = n.code + Len(n.bytes)
    BY <1>1, PieceLayout DEF CodeAndBytes
<1>5. k \in 0..(Len(s) - 1) /\ k + 1 = i
    BY <1>1
<1>6. Offset(s, 0) = 0 /\ p \in Nat /\ Offset(s, Len(s)) = Len(FlattenSeq(s))
    BY <1>1, <1>5, OffsetNext
<1>7. Offset(s, k + 1) = Offset(s, k) + Len(s[k + 1])
    BY <1>1, <1>5, OffsetNext
<1>8. i \in 0..Len(s) /\ Len(s) \in i..Len(s)
    BY <1>1
<1>9. Offset(s, i) <= Offset(s, Len(s))
    BY <1>1, <1>8, FlattenPrefix
<1>10. \A j \in 1..Len(s[i]) : p + j \in 1..Len(FlattenSeq(s)) /\ FlattenSeq(s)[p + j] = s[i][j]
    <2> HIDE DEF p, k
    <2>1. s \in Seq(Seq(Nat)) /\ i \in 1..Len(s)
        BY <1>1
    <2>2. ASSUME NEW j \in 1..Len(s[i])
          PROVE  /\ Offset(s, i - 1) + j \in 1..Len(FlattenSeq(s))
                 /\ FlattenSeq(s)[Offset(s, i - 1) + j] = s[i][j]
        BY <2>1, FlattenAt
    <2> QED BY <2>2 DEF p, k
<1> HIDE DEF n, k
<1>11. n.code \in Nat /\ Len(n.bytes) \in Nat
    BY <1>1 DEF Nal
<1>12. Offset(s, i) = p + n.code + Len(n.bytes)
    <2>1. Offset(s, i) = p + Len(Piece(n))
        BY <1>1, <1>5, <1>7
    <2> HIDE DEF p
    <2> QED BY <1>4, <1>6, <1>11, <2>1
<1>13. Offset(s, i) <= Len(Contents(f)) /\ Offset(s, Len(f.nals)) = Len(Contents(f))
    BY <1>1, <1>3, <1>6, <1>9
<1>14. \A j \in 1..(n.code + Len(n.bytes)) : p + j \in 1..Len(Contents(f)) /\ Contents(f)[p + j] = Piece(n)[j]
    BY <1>1, <1>3, <1>4, <1>10
<1> HIDE DEF p
<1>15. /\ n \in Nal /\ p \in Nat /\ Offset(s, 0) = 0
    BY <1>1, <1>6
<1> QED BY <1>12, <1>13, <1>14, <1>15 DEF s, p, n, k

LEMMA CodeAt ==
    ASSUME NEW f \in Files, WellFormed(f), NEW i \in 1..Len(f.nals)
    PROVE  LET n == f.nals[i]
               p == Offset(Pieces(f), i - 1)
               a == Contents(f)
           IN  /\ a[p + 1] = 0 /\ a[p + 2] = 0
               /\ IF n.code = 3 THEN a[p + 3] = 1 ELSE a[p + 3] = 0 /\ a[p + 4] = 1
               /\ \A j \in 1..Len(n.bytes) : a[p + n.code + j] = n.bytes[j]
               /\ AtCode(a, p)
<1> DEFINE n == f.nals[i]
           p == Offset(Pieces(f), i - 1)
           a == Contents(f)
           b == Piece(n)
<1>1. /\ n \in Nal /\ p \in Nat
      /\ p + n.code + Len(n.bytes) <= Len(a)
      /\ \A j \in 1..(n.code + Len(n.bytes)) : a[p + j] = b[j]
    BY PieceAt
<1>2. CodeAndBytes(b, n.code, n.bytes)
    BY <1>1, PieceLayout
<1>3. n.code \in {3, 4} /\ Len(n.bytes) \in Nat /\ Len(a) \in Nat
    <2>1. n.code \in {3, 4} /\ n.bytes \in Seq(Nat)
        BY <1>1 DEF Nal
    <2>2. a \in Seq(Nat)
        BY ContentsType
    <2> HIDE DEF n, a
    <2> QED BY <2>1, <2>2
<1> HIDE DEF n, p, a, b
<1>4. PICK c \in {3, 4}, l \in Nat, len \in Nat : c = n.code /\ l = Len(n.bytes) /\ len = Len(a)
    BY <1>3
<1>5. p + c + l <= len /\ \A j \in 1..(c + l) : a[p + j] = b[j]
    BY <1>1, <1>4
<1>6. /\ b[1] = 0 /\ b[2] = 0 /\ IF c = 3 THEN b[3] = 1 ELSE b[3] = 0 /\ b[4] = 1
      /\ \A j \in 1..l : b[c + j] = n.bytes[j]
    BY <1>2, <1>4 DEF CodeAndBytes
<1>7. 1 \in 1..(c + l) /\ 2 \in 1..(c + l) /\ 3 \in 1..(c + l) /\ (c = 4 => 4 \in 1..(c + l))
    BY <1>4
<1>8. a[p + 1] = 0 /\ a[p + 2] = 0 /\ IF c = 3 THEN a[p + 3] = 1 ELSE a[p + 3] = 0 /\ a[p + 4] = 1
    BY <1>4, <1>5, <1>6, <1>7
<1>9. ASSUME NEW j \in 1..l PROVE a[p + c + j] = n.bytes[j]
    <2>1. PICK m \in Nat : m = c + j
        BY <1>4
    <2>2. m \in 1..(c + l)
        BY <1>4, <2>1
    <2>3. p + m = p + c + j
        BY <1>1, <1>4, <2>1
    <2>4. a[p + m] = b[m]
        BY <1>5, <2>2
    <2>5. b[m] = n.bytes[j]
        BY <1>6, <2>1
    <2> QED BY <2>3, <2>4, <2>5
<1>10. p + c <= len
    <2>1. p \in Nat
        BY <1>1
    <2>2. p + c + l <= len
        BY <1>5
    <2> QED BY <2>1, <2>2
<1>11. AtCode(a, p)
    <2>1. CASE c = 3
        <3>1. p + 3 <= len
            BY <1>10, <2>1
        <3>2. a[p + 1] = 0 /\ a[p + 2] = 0 /\ a[p + 3] = 1
            BY <1>8, <2>1
        <3> QED BY <1>4, <3>1, <3>2 DEF AtCode, StartCode3
    <2>2. CASE c = 4
        <3>1. p + 4 <= len
            BY <1>10, <2>2
        <3>2. a[p + 1] = 0 /\ a[p + 2] = 0 /\ a[p + 3] = 0 /\ a[p + 4] = 1
            BY <1>8, <2>2
        <3> QED BY <1>4, <3>1, <3>2 DEF AtCode, StartCode4
    <2> QED BY <2>1, <2>2
<1> QED BY <1>4, <1>8, <1>9, <1>11 DEF n, p, a

-----------------------------------------------------------------------------
(* A file that begins with a start code *)

KeptInv ==
    WellFormed(file) =>
        /\ up
        /\ AtCode(All, pos)
        /\ \A i \in 1..Len(output) : size[output[i]] >= 0

UpInv == Typed /\ KeptInv

(* At a start code the buffer begins with it, and the NAL before the next one, *)
(* or before the end of the buffer, is not shorter than the code.              *)
LEMMA ReadAtCode ==
    ASSUME Typed, AtCode(All, pos), NEW f \in Frame
    PROVE  LET b == Loaded(f)
               n == Len(Bytes)
               code == IF StartCode3(b, 0) THEN 3 ELSE 4
           IN  /\ HasStartCode(b)
               /\ Total(b, n) - code >= 0
               /\ \A p \in NextStartCodes(b, n) : AtCode(All, pos + p)
<1> DEFINE b == Loaded(f)
           code == IF StartCode3(b, 0) THEN 3 ELSE 4
<1>1. PICK len \in Nat, n \in Nat :
        /\ len = Len(All) /\ n = Len(Bytes) /\ pos \in 0..len /\ FrameMax \in Nat /\ FrameMax >= 4
        /\ n = IF pos + FrameMax < len THEN FrameMax ELSE len - pos
        /\ pos + n <= len
        /\ \A k \in 1..n : Bytes[k] = All[pos + k]
    <2>1. file \in Files /\ pos \in 0..Len(All)
        BY DEF Typed
    <2>2. PICK len \in Nat : len = Len(All)
        BY <2>1, ContentsType DEF All
    <2>3. PICK fm \in Nat : fm = FrameMax /\ fm >= 4
        BY MediaAssumption
    <2>4. PICK n \in Nat : n = Len(Bytes)
        BY <2>1, BytesRead
    <2>5. n = IF pos + fm < len THEN fm ELSE len - pos
        BY <2>1, <2>2, <2>3, <2>4, BytesRead
    <2>6. \A k \in 1..n : Bytes[k] = All[pos + k]
        BY <2>1, <2>4, BytesRead
    <2>7. pos + n <= len
        BY <2>1, <2>2, <2>3, <2>5
    <2> QED BY <2>1, <2>2, <2>3, <2>4, <2>5, <2>6, <2>7
<1>2. \A k \in 1..n : b[k] = All[pos + k]
    BY <1>1, LoadedType DEF Typed
<1> HIDE DEF b
<1>3. n >= 3 /\ (~StartCode3(b, 0) => n >= 4 /\ StartCode4(b, 0))
    <2>1. CASE pos + 3 <= Len(All) /\ StartCode3(All, pos)
        <3>1. n >= 3
            BY <1>1, <2>1
        <3>2. b[1] = All[pos + 1] /\ b[2] = All[pos + 2] /\ b[3] = All[pos + 3]
            BY <1>2, <3>1
        <3> QED BY <2>1, <3>1, <3>2 DEF StartCode3
    <2>2. CASE pos + 4 <= Len(All) /\ StartCode4(All, pos)
        <3>1. n >= 4
            BY <1>1, <2>2
        <3>2. b[1] = All[pos + 1] /\ b[2] = All[pos + 2] /\ b[3] = All[pos + 3] /\ b[4] = All[pos + 4]
            BY <1>2, <3>1
        <3> QED BY <2>2, <3>1, <3>2 DEF StartCode4
    <2> QED BY <2>1, <2>2 DEF AtCode
<1>4. HasStartCode(b)
    BY <1>3 DEF HasStartCode
<1>5. Total(b, n) - code >= 0
    <2>1. CASE NextStartCodes(b, n) = {}
        <3>1. Total(b, n) = n
            BY <2>1, TotalIs
        <3> QED BY <1>3, <3>1
    <2>2. CASE NextStartCodes(b, n) # {}
        <3>1. PICK t \in Nat : t = Total(b, n) /\ t \in NextStartCodes(b, n) /\ t \in 3..(n - 3)
            BY <2>2, TotalIs
        <3>2. StartCode3(b, t) \/ StartCode4(b, t)
            BY <3>1 DEF NextStartCodes
        <3>3. b[t + 1] = 0
            BY <3>2 DEF StartCode3, StartCode4
        <3>4. ~StartCode3(b, 0) => t # 3
            BY <1>3, <3>3 DEF StartCode4
        <3> QED BY <3>1, <3>4
    <2> QED BY <2>1, <2>2
<1>6. ASSUME NEW p \in NextStartCodes(b, n) PROVE AtCode(All, pos + p)
    <2>1. p \in 3..(n - 3) /\ (StartCode3(b, p) \/ (p < n - 3 /\ StartCode4(b, p)))
        BY <1>6 DEF NextStartCodes
    <2>2. PICK q \in Nat : q = pos + p /\ (p + 3 <= n => q + 3 <= len) /\ (p + 4 <= n => q + 4 <= len)
        <3>1. PICK o \in Nat : o = pos /\ o + n <= len
            BY <1>1
        <3>2. p \in Nat
            BY <2>1
        <3> QED BY <3>1, <3>2
    <2>3. CASE StartCode3(b, p)
        <3>1. p + 1 \in 1..n /\ p + 2 \in 1..n /\ p + 3 \in 1..n
            BY <2>1
        <3>2. b[p + 1] = All[pos + (p + 1)] /\ b[p + 2] = All[pos + (p + 2)] /\ b[p + 3] = All[pos + (p + 3)]
            BY <1>2, <3>1
        <3>3. pos + (p + 1) = q + 1 /\ pos + (p + 2) = q + 2 /\ pos + (p + 3) = q + 3
            BY <1>1, <2>1, <2>2
        <3>4. q + 3 <= len
            BY <2>1, <2>2
        <3> QED BY <1>1, <2>2, <2>3, <3>2, <3>3, <3>4 DEF StartCode3, AtCode
    <2>4. CASE p < n - 3 /\ StartCode4(b, p)
        <3>1. p + 1 \in 1..n /\ p + 2 \in 1..n /\ p + 3 \in 1..n /\ p + 4 \in 1..n
            BY <2>1, <2>4
        <3>2. /\ b[p + 1] = All[pos + (p + 1)] /\ b[p + 2] = All[pos + (p + 2)]
              /\ b[p + 3] = All[pos + (p + 3)] /\ b[p + 4] = All[pos + (p + 4)]
            BY <1>2, <3>1
        <3>3. /\ pos + (p + 1) = q + 1 /\ pos + (p + 2) = q + 2 /\ pos + (p + 3) = q + 3
              /\ pos + (p + 4) = q + 4
            BY <1>1, <2>1, <2>2
        <3>4. q + 4 <= len
            BY <2>1, <2>2, <2>4
        <3> QED BY <1>1, <2>2, <2>4, <3>2, <3>3, <3>4 DEF StartCode4, AtCode
    <2> QED BY <2>1, <2>3, <2>4
<1> QED BY <1>1, <1>4, <1>5, <1>6 DEF b

LEMMA FileStart ==
    ASSUME NEW f \in Files, WellFormed(f)
    PROVE  AtCode(Contents(f), 0)
<1>1. 1 \in 1..Len(f.nals)
    BY ContentsType
<1>2. PICK i \in 1..Len(f.nals) : i = 1
    BY <1>1
<1>3. Offset(Pieces(f), i - 1) = 0
    BY <1>2, PieceAt
<1> QED BY <1>3, CodeAt

LEMMA InitUp == Init => UpInv
<1> SUFFICES ASSUME Init PROVE UpInv
    OBVIOUS
<1>1. Typed /\ file \in Files /\ up /\ pos = 0 /\ output = <<>>
    BY InitTyped DEF Init
<1>2. WellFormed(file) => AtCode(All, 0)
    BY <1>1, FileStart DEF All
<1> QED BY <1>1, <1>2 DEF UpInv, KeptInv

LEMMA NextUp == UpInv /\ [Next]_vars => UpInv'
<1> SUFFICES ASSUME UpInv, [Next]_vars PROVE UpInv'
    OBVIOUS
<1>1. Typed /\ Typed'
    BY NextTyped DEF UpInv
<1> SUFFICES ASSUME WellFormed(file)' PROVE up' /\ AtCode(All, pos)'
                                            /\ \A i \in 1..Len(output') : size'[output'[i]] >= 0
    BY <1>1 DEF UpInv, KeptInv
<1>2. file' = file /\ All' = All /\ file \in Files
    BY <1>1 DEF Typed, Next, Source, Sink, ReadFails, ReadFrame, SendFrame, Overrun, vars, All
<1>3. WellFormed(file) /\ up /\ AtCode(All, pos) /\ \A i \in 1..Len(output) : size[output[i]] >= 0
    BY <1>2 DEF UpInv, KeptInv, WellFormed
<1>4. output \in Seq(Frame) /\ Len(output) \in Nat /\ \A i \in 1..Len(output) : output[i] \in Frame
    <2>1. output \in Seq(Frame)
        BY <1>1 DEF Typed, Pool
    <2> QED BY <2>1
<1>5. CASE ReadFrame
    <2>1. PICK f \in Frame, total \in 0..Len(Bytes), code \in {3, 4} : ReadInto(f, total, code)
        BY <1>1, <1>5, ReadFrameIs
    <2>2. PICK b : b = Loaded(f)
        OBVIOUS
    <2>3. /\ total - code >= 0
          /\ \A p \in NextStartCodes(b, Len(Bytes)) : AtCode(All, pos + p)
        BY <1>1, <1>3, <2>1, <2>2, ReadAtCode DEF ReadInto
    <2>4. AtCode(All, pos)'
        <3>1. CASE NextStartCodes(b, Len(Bytes)) = {}
            <4>1. pos' = 0
                BY <2>1, <2>2, <3>1 DEF ReadInto
            <4> QED BY <1>2, <1>3, <4>1, FileStart DEF All, AtCode
        <3>2. CASE NextStartCodes(b, Len(Bytes)) # {}
            <4>1. pos' = pos + total /\ total = Total(b, Len(Bytes))
                BY <2>1, <2>2, <3>2 DEF ReadInto
            <4>2. Len(Bytes) \in Nat
                BY <1>1, BytesRead DEF Typed
            <4>3. total \in NextStartCodes(b, Len(Bytes))
                BY <3>2, <4>1, <4>2, TotalIs
            <4>4. AtCode(All, pos + total)
                BY <2>3, <4>3
            <4> QED BY <1>2, <4>1, <4>4 DEF AtCode
        <3> QED BY <3>1, <3>2
    <2>5. ASSUME NEW i \in 1..Len(output') PROVE size'[output'[i]] >= 0
        <3>1. output' = Append(output, f) /\ size' = [size EXCEPT ![f] = total - code]
            BY <2>1 DEF ReadInto
        <3>2. size \in [Frame -> -4..FrameMax]
            BY <1>1 DEF Typed
        <3>3. CASE i = Len(output) + 1
            BY <1>4, <2>3, <3>1, <3>2, <3>3
        <3>4. CASE i # Len(output) + 1
            <4>1. i \in 1..Len(output) /\ output'[i] = output[i]
                BY <1>4, <3>1, <3>4
            <4>2. size[output[i]] >= 0 /\ output[i] \in Frame
                BY <1>3, <1>4, <4>1
            <4>3. size'[output[i]] >= 0
                BY <2>3, <3>1, <3>2, <4>2
            <4> QED BY <4>1, <4>3
        <3> QED BY <3>3, <3>4
    <2> QED BY <1>3, <2>1, <2>4, <2>5 DEF ReadInto
<1>6. CASE ReadFails
    <2>1. Head(input) \in Frame /\ ~HasStartCode(Loaded(Head(input)))
        BY <1>1, <1>6 DEF ReadFails, Typed, Pool
    <2> QED BY <1>1, <1>3, <2>1, ReadAtCode
<1>7. CASE SendFrame
    <2>1. PICK f \in Frame : SendOf(f)
        BY <1>1, <1>7, SendFrameIs
    <2>2. output' = Tail(output) /\ output # <<>> /\ size' = size /\ pos' = pos /\ up' = up
        BY <2>1 DEF SendOf
    <2>3. \A i \in 1..Len(output') : output'[i] = output[i + 1] /\ i + 1 \in 1..Len(output)
        BY <1>4, <2>2
    <2> QED BY <1>2, <1>3, <2>2, <2>3 DEF AtCode
<1>8. CASE Overrun
    <2>1. output # <<>> /\ size[Head(output)] < 0
        BY <1>8 DEF Overrun
    <2>2. Head(output) = output[1] /\ 1 \in 1..Len(output)
        BY <1>4, <2>1
    <2>3. size[output[1]] \in Int
        <3>1. output[1] \in Frame /\ size \in [Frame -> -4..FrameMax] /\ FrameMax \in Nat
            BY <1>1, <1>4, <2>2, MediaAssumption DEF Typed
        <3> QED BY <3>1
    <2> QED BY <1>3, <2>1, <2>2, <2>3
<1>9. CASE UNCHANGED vars
    BY <1>2, <1>3, <1>9 DEF vars, pool, AtCode
<1> QED BY <1>5, <1>6, <1>7, <1>8, <1>9 DEF Next, Source, Sink

(* The server goes on for ever on a file that begins with a start code, whatever *)
(* follows it and for every size of a buffer: every position the file is read    *)
(* from holds a whole start code, so no read fails at its end, where the stale   *)
(* rest of the buffer would pass for what was read, and no size is negative.     *)
THEOREM ServerStaysUp == Spec => []FileKeepsServerUp
<1>1. UpInv => FileKeepsServerUp
    BY DEF UpInv, KeptInv, FileKeepsServerUp
<1> QED BY <1>1, InitUp, NextUp, PTL DEF Spec

-----------------------------------------------------------------------------
(* The numbers of packets *)

Consecutive(p) == \A i \in 1..(Len(p) - 1) : p[i + 1].seq = (p[i].seq + 1) % SeqSize

(* The latest packets go before the next: in number and, unless they are a *)
(* parameter set, in time.                                                 *)
SentBefore ==
    packets # <<>> =>
        /\ Consecutive(packets)
        /\ seq = (packets[Len(packets)].seq + 1) % SeqSize
        /\ packets[1].clock \in 0..(ClockSize - 1)
        /\ clock = IF ~packets[1].fu /\ IsParameterSet(packets[1].nalu)
                   THEN packets[1].clock ELSE (packets[1].clock + 1) % ClockSize

NumbersInv == Typed /\ SentBefore

LEMMA SendNumbers ==
    ASSUME Typed, NEW f \in Frame, SendOf(f)
    PROVE  /\ packets' # <<>> /\ packets'[1].seq = seq
           /\ \A i \in 1..Len(packets') : packets'[i].clock = clock
           /\ SentBefore'
<1>1. PICK n \in Nat \ {0} :
        /\ n = Len(packets') /\ packets' \in Seq(Packet)
        /\ \A i \in 1..n : /\ packets'[i].clock = clock
                           /\ packets'[i].seq = (seq + i - 1) % SeqSize
                           /\ ~packets'[i].fu => packets'[i].nalu = Slice(f, 0, 1)[1]
                           /\ packets'[i].fu <=> size[f] > MaxPkt
    <2>1. packets' = Packets(f) /\ size[f] >= 0
        BY DEF SendOf
    <2>2. PICK p : p = Packets(f)
        OBVIOUS
    <2>3. /\ p \in Seq(Packet) /\ Len(p) \in Nat \ {0}
          /\ \A i \in 1..Len(p) : /\ p[i].clock = clock
                                  /\ p[i].seq = (seq + i - 1) % SeqSize
                                  /\ ~p[i].fu => p[i].nalu = Slice(f, 0, 1)[1]
                                  /\ p[i].fu <=> size[f] > MaxPkt
        BY <2>1, <2>2, PacketsAre
    <2> QED BY <2>1, <2>2, <2>3
<1>2. SeqSize \in Nat \ {0} /\ seq \in 0..(SeqSize - 1) /\ clock \in 0..(ClockSize - 1)
    BY MediaAssumption DEF Typed
<1>3. ASSUME NEW i \in 1..n PROVE (packets'[i].seq + 1) % SeqSize = (seq + i) % SeqSize
    <2>1. PICK a \in Nat : a = seq + i - 1
        BY <1>2
    <2>2. ((a % SeqSize) + 1) % SeqSize = (a + 1) % SeqSize
        BY <1>2, ModAdd
    <2>3. a + 1 = seq + i /\ packets'[i].seq = a % SeqSize
        BY <1>1, <1>2, <2>1
    <2> QED BY <2>2, <2>3
<1>4. ASSUME NEW i \in 1..(n - 1) PROVE packets'[i + 1].seq = (packets'[i].seq + 1) % SeqSize
    <2>1. i \in 1..n /\ i + 1 \in 1..n /\ seq + (i + 1) - 1 = seq + i
        BY <1>2
    <2>2. packets'[i + 1].seq = (seq + (i + 1) - 1) % SeqSize
        BY <1>1, <2>1
    <2> QED BY <1>3, <2>1, <2>2
<1>5. n \in 1..n /\ 1 \in 1..n
    OBVIOUS
<1>6. seq' = (packets'[n].seq + 1) % SeqSize
    BY <1>1, <1>3, <1>5 DEF SendOf
<1>7. packets'[1].seq = seq
    <2>1. seq + 1 - 1 = seq /\ seq % SeqSize = seq
        BY <1>2, ModSmall
    <2> QED BY <1>1, <1>5, <2>1
<1>8. packets'[1].clock = clock /\ (~packets'[1].fu => packets'[1].nalu = Slice(f, 0, 1)[1])
      /\ (packets'[1].fu <=> size[f] > MaxPkt)
    BY <1>1, <1>5
<1>9. size[f] \in Int /\ MaxPkt \in Int
    BY MediaAssumption DEF Typed
<1>10. clock' = IF ~packets'[1].fu /\ IsParameterSet(packets'[1].nalu)
                THEN packets'[1].clock ELSE (packets'[1].clock + 1) % ClockSize
    <2>1. clock' = IF size[f] <= MaxPkt /\ IsParameterSet(Slice(f, 0, 1)[1])
                   THEN clock ELSE (clock + 1) % ClockSize
        BY DEF SendOf
    <2>2. size[f] <= MaxPkt <=> ~packets'[1].fu
        BY <1>8, <1>9
    <2> QED BY <1>8, <2>1, <2>2
<1>11. packets' # <<>>
    BY <1>1
<1> QED BY <1>1, <1>2, <1>4, <1>6, <1>7, <1>8, <1>10, <1>11 DEF SentBefore, Consecutive

LEMMA InitNumbers == Init => NumbersInv
BY InitTyped DEF Init, NumbersInv, SentBefore

LEMMA NextNumbers == NumbersInv /\ [Next]_vars => NumbersInv'
<1> SUFFICES ASSUME NumbersInv, [Next]_vars PROVE NumbersInv'
    OBVIOUS
<1>1. Typed /\ Typed'
    BY NextTyped DEF NumbersInv
<1>2. CASE SendFrame
    <2>1. PICK f \in Frame : SendOf(f)
        BY <1>1, <1>2, SendFrameIs
    <2>2. SentBefore'
        BY <1>1, <2>1, SendNumbers
    <2> QED BY <1>1, <2>2 DEF NumbersInv
<1>3. CASE ReadFails \/ ReadFrame \/ Overrun \/ UNCHANGED vars
    <2>1. UNCHANGED <<packets, seq, clock>>
        BY <1>3 DEF ReadFails, ReadFrame, Overrun, vars, pool
    <2>2. SentBefore'
        BY <2>1 DEF NumbersInv, SentBefore, Consecutive
    <2> QED BY <1>1, <2>2 DEF NumbersInv
<1> QED BY <1>2, <1>3 DEF Next, Source, Sink

(* The packets of two NALs in a row, of which the second is sent in this step. *)
TwoNals ==
    packets # <<>> /\ Len(output') < Len(output) =>
        LET all == packets \o packets'
        IN  /\ \A i \in 1..(Len(all) - 1) : all[i + 1].seq = (all[i].seq + 1) % SeqSize
            /\ \A i \in 1..Len(packets') : packets'[i].clock = packets'[1].clock
            /\ (packets'[1].clock = packets[1].clock)
                  <=> (~packets[1].fu /\ IsParameterSet(packets[1].nalu))

LEMMA OnlySendTakes ==
    ASSUME Typed, [Next]_vars, Len(output') < Len(output)
    PROVE  \E f \in Frame : SendOf(f)
<1>1. output \in Seq(Frame) /\ Len(output) \in Nat
    BY DEF Typed, Pool
<1>2. CASE SendFrame
    BY <1>2, SendFrameIs
<1>3. CASE ReadFrame
    <2>1. PICK f \in Frame : output' = Append(output, f)
        BY <1>3, ReadFrameIs DEF ReadInto
    <2> QED BY <1>1, <2>1
<1>4. CASE ReadFails \/ Overrun \/ UNCHANGED vars
    <2>1. output' = output
        BY <1>4 DEF ReadFails, Overrun, vars, pool
    <2> QED BY <1>1, <2>1
<1> QED BY <1>2, <1>3, <1>4 DEF Next, Source, Sink

LEMMA NumbersStep == NumbersInv /\ [Next]_vars => TwoNals
<1> SUFFICES ASSUME NumbersInv, [Next]_vars, packets # <<>>, Len(output') < Len(output) PROVE TwoNals
    BY DEF TwoNals
<1>1. Typed /\ SentBefore
    BY DEF NumbersInv
<1>2. PICK f \in Frame : SendOf(f)
    BY <1>1, OnlySendTakes
<1>3. /\ packets' # <<>> /\ packets'[1].seq = seq /\ SentBefore'
      /\ \A i \in 1..Len(packets') : packets'[i].clock = clock
    BY <1>1, <1>2, SendNumbers
<1>4. packets \in Seq(Packet) /\ packets' \in Seq(Packet)
    BY <1>1, NextTyped DEF Typed
<1>5. PICK n \in Nat \ {0}, m \in Nat \ {0} : n = Len(packets) /\ m = Len(packets')
    BY <1>3, <1>4
<1>6. \A i \in 1..(n - 1) : packets[i + 1].seq = (packets[i].seq + 1) % SeqSize
    BY <1>1, <1>5 DEF SentBefore, Consecutive
<1>7. \A i \in 1..(m - 1) : packets'[i + 1].seq = (packets'[i].seq + 1) % SeqSize
    BY <1>3, <1>5 DEF SentBefore, Consecutive
<1>8. packets'[1].seq = (packets[n].seq + 1) % SeqSize
    BY <1>1, <1>3, <1>5 DEF SentBefore
<1> DEFINE all == packets \o packets'
<1>9. Joined(all, packets, packets')
    BY <1>4, ConcatAt
<1> HIDE DEF all
<1>10. Len(all) = n + m /\ (\A i \in 1..n : all[i] = packets[i]) /\ (\A i \in 1..m : all[n + i] = packets'[i])
    BY <1>5, <1>9 DEF Joined
<1>11. ASSUME NEW i \in 1..(Len(all) - 1) PROVE all[i + 1].seq = (all[i].seq + 1) % SeqSize
    <2>1. CASE i < n
        <3>1. i \in 1..n /\ i + 1 \in 1..n /\ i \in 1..(n - 1)
            BY <1>10, <2>1
        <3> QED BY <1>6, <1>10, <3>1
    <2>2. CASE i = n
        <3>1. n \in 1..n /\ 1 \in 1..m
            BY <1>5
        <3> QED BY <1>8, <1>10, <2>2, <3>1
    <2>3. CASE i > n
        <3>1. PICK j \in 1..(m - 1) : i = n + j
            <4>1. i - n \in 1..(m - 1) /\ i = n + (i - n)
                BY <1>10, <2>3
            <4> QED BY <4>1
        <3>2. j \in 1..m /\ j + 1 \in 1..m /\ i + 1 = n + (j + 1)
            BY <3>1
        <3>3. all[i] = packets'[j] /\ all[i + 1] = packets'[j + 1]
            BY <1>10, <3>1, <3>2
        <3> QED BY <1>7, <3>1, <3>3
    <2>4. i \in Nat
        OBVIOUS
    <2> QED BY <2>1, <2>2, <2>3, <2>4
<1>12. packets'[1].clock = clock
    BY <1>3, <1>5
<1>13. (clock = packets[1].clock) <=> (~packets[1].fu /\ IsParameterSet(packets[1].nalu))
    <2>1. PICK c \in 0..(ClockSize - 1) : c = packets[1].clock
        BY <1>1 DEF SentBefore
    <2>2. ClockSize \in Nat \ {0, 1}
        BY MediaAssumption
    <2>3. (c + 1) % ClockSize # c
        <3>1. CASE c + 1 = ClockSize
            <4>1. ClockSize % ClockSize = 0
                BY <2>2, ModSmall
            <4>2. c # 0
                BY <2>2, <3>1
            <4> QED BY <3>1, <4>1, <4>2
        <3>2. CASE c + 1 # ClockSize
            <4>1. PICK d \in 0..(ClockSize - 1) : d = c + 1
                BY <2>2, <3>2
            <4>2. d % ClockSize = d
                BY <2>2, ModSmall
            <4> QED BY <4>1, <4>2
        <3> QED BY <3>1, <3>2
    <2>4. clock = IF ~packets[1].fu /\ IsParameterSet(packets[1].nalu) THEN c ELSE (c + 1) % ClockSize
        BY <1>1, <2>1 DEF SentBefore
    <2> QED BY <2>1, <2>3, <2>4
<1> QED BY <1>3, <1>11, <1>12, <1>13 DEF TwoNals, all

(* The numbers of packets go on without a gap from one NAL to the next, for any *)
(* modulus; the packets of a NAL share a time, which moves on unless it was a   *)
(* parameter set in a packet of its own.                                       *)
THEOREM NumbersAreConsecutive == Spec => NumbersGoOn
<1>1. NumbersInv /\ [Next]_vars => [TwoNals]_vars
    BY NumbersStep
<1> QED BY <1>1, InitNumbers, NextNumbers, PTL DEF Spec, NumbersGoOn, TwoNals

-----------------------------------------------------------------------------
(* The file in its order *)

(* b holds the first n bytes of a start code of c bytes, of the bytes d and, if *)
(* c2 is not 0, of a start code of c2 bytes.                                   *)
Layout(b, n, c, d, c2) ==
    /\ n \in Nat /\ c \in {3, 4} /\ c2 \in {0, 3, 4} /\ d \in Seq(Nat)
    /\ n >= 1 => b[1] = 0
    /\ n >= 2 => b[2] = 0
    /\ n >= 3 => b[3] = IF c = 3 THEN 1 ELSE 0
    /\ c = 4 /\ n >= 4 => b[4] = 1
    /\ \A j \in 1..Len(d) : c + j <= n => b[c + j] = d[j]
    /\ c2 = 0 => n <= c + Len(d)
    /\ c2 # 0 =>
        /\ n >= c + Len(d) + 1 => b[c + Len(d) + 1] = 0
        /\ n >= c + Len(d) + 2 => b[c + Len(d) + 2] = 0
        /\ n >= c + Len(d) + 3 => b[c + Len(d) + 3] = IF c2 = 3 THEN 1 ELSE 0
        /\ c2 = 4 /\ n >= c + Len(d) + 4 => b[c + Len(d) + 4] = 1

(* What annex B says of one NAL. *)
Clean(d) == d # <<>> /\ d[Len(d)] # 0 /\ \A p \in 0..(Len(d) - 3) : ~StartCode3(d, p)

(* Nothing before the end of a NAL passes for a start code. *)
LEMMA NoneInside ==
    ASSUME NEW b, NEW n, NEW c, NEW d, NEW c2, Layout(b, n, c, d, c2), Clean(d),
           NEW p \in NextStartCodes(b, n)
    PROVE  p >= c + Len(d)
<1>1. /\ n \in Nat /\ c \in {3, 4} /\ d \in Seq(Nat)
      /\ c = 4 /\ n >= 4 => b[4] = 1
      /\ \A j \in 1..Len(d) : c + j <= n => b[c + j] = d[j]
    BY DEF Layout
<1>2. PICK l \in Nat : l = Len(d) /\ l >= 1
    BY <1>1 DEF Clean
<1>3. d[l] # 0 /\ \A q \in 0..(l - 3) : ~(d[q + 1] = 0 /\ d[q + 2] = 0 /\ d[q + 3] = 1)
    BY <1>2 DEF Clean, StartCode3
<1>4. p \in 3..(n - 3) /\ (StartCode3(b, p) \/ (p < n - 3 /\ StartCode4(b, p)))
    BY DEF NextStartCodes
<1>5. p \in Nat /\ p >= 3 /\ p + 3 <= n
    BY <1>1, <1>4
<1> SUFFICES ASSUME p < c + l PROVE FALSE
    BY <1>1, <1>2, <1>5
<1>6. \A j \in 1..l : c + j <= n => b[c + j] = d[j]
    BY <1>1, <1>2
<1>7. b[p + 1] = 0 /\ b[p + 2] = 0
    BY <1>4 DEF StartCode3, StartCode4
<1>8. p >= c
    <2>1. ASSUME p < c PROVE FALSE
        <3>1. c = 4 /\ p + 1 = 4 /\ n >= 4
            BY <1>1, <1>5, <2>1
        <3> QED BY <1>1, <1>7, <3>1
    <2> QED BY <1>1, <1>5, <2>1
<1>9. PICK q \in Nat : p = c + q /\ q < l
    <2>1. p - c \in Nat /\ p = c + (p - c)
        BY <1>1, <1>5, <1>8
    <2>2. p - c < l
        BY <1>1, <1>2, <1>5
    <2> QED BY <2>1, <2>2
<1>10. ASSUME NEW i \in Nat, i >= 1, q + i <= l, p + i <= n PROVE b[p + i] = d[q + i]
    <2>1. PICK j \in 1..l : j = q + i
        BY <1>9, <1>10
    <2>2. c + j = p + i
        BY <1>1, <1>9, <2>1
    <2> QED BY <1>6, <1>10, <2>1, <2>2
<1>11. d[q + 1] = 0 /\ q + 2 <= l
    <2>1. d[q + 1] = 0
        <3>1. q + 1 <= l /\ p + 1 <= n
            BY <1>1, <1>2, <1>5, <1>9
        <3>2. b[p + 1] = d[q + 1]
            BY <1>10, <3>1
        <3> QED BY <1>7, <3>2
    <2>2. q + 1 # l
        BY <1>3, <2>1
    <2> QED BY <1>9, <2>1, <2>2
<1>12. d[q + 2] = 0 /\ q + 3 <= l
    <2>1. d[q + 2] = 0
        <3>1. p + 2 <= n
            BY <1>1, <1>5
        <3>2. b[p + 2] = d[q + 2]
            BY <1>10, <1>11, <3>1
        <3> QED BY <1>7, <3>2
    <2>2. q + 2 # l
        BY <1>3, <2>1
    <2> QED BY <1>9, <1>11, <2>1, <2>2
<1>13. b[p + 3] = d[q + 3]
    BY <1>5, <1>10, <1>12
<1>14. CASE b[p + 3] = 1
    <2>1. q \in 0..(l - 3)
        BY <1>9, <1>12
    <2> QED BY <1>3, <1>11, <1>12, <1>13, <1>14, <2>1
<1>15. CASE b[p + 3] # 1
    <2>1. p < n - 3 /\ b[p + 3] = 0 /\ b[p + 4] = 1
        BY <1>4, <1>15 DEF StartCode3, StartCode4
    <2>2. p + 4 <= n
        BY <1>1, <1>5, <2>1
    <2>3. d[q + 3] = 0 /\ q + 3 # l
        BY <1>3, <1>13, <2>1
    <2>4. q + 4 <= l
        BY <1>2, <1>9, <1>12, <2>3
    <2>5. d[q + 4] = 1
        BY <1>10, <2>1, <2>2, <2>4
    <2>6. PICK r \in Nat : r = q + 1
        OBVIOUS
    <2>7. r \in 0..(l - 3) /\ r + 1 = q + 2 /\ r + 2 = q + 3 /\ r + 3 = q + 4
        BY <1>2, <1>9, <2>4, <2>6
    <2>8. d[r + 1] = 0 /\ d[r + 2] = 0 /\ d[r + 3] = 1
        BY <1>12, <2>3, <2>5, <2>7
    <2> QED BY <1>3, <2>7, <2>8
<1> QED BY <1>14, <1>15

(* One read sees the NAL it begins with to its end if the start code after it is *)
(* in the buffer, too, and all that is in the buffer otherwise.                  *)
LEMMA ReadLayout ==
    ASSUME NEW b, NEW n, NEW c, NEW d, NEW c2, Layout(b, n, c, d, c2), Clean(d), n >= 4
    PROVE  /\ HasStartCode(b) /\ (StartCode3(b, 0) <=> c = 3)
           /\ IF c2 # 0 /\ c + Len(d) + c2 <= n
              THEN NextStartCodes(b, n) # {} /\ Total(b, n) = c + Len(d)
              ELSE NextStartCodes(b, n) = {} /\ Total(b, n) = n
<1>1. PICK l \in Nat : l = Len(d) /\ l >= 1
    BY DEF Layout, Clean
<1>2. n \in Nat /\ c \in {3, 4} /\ c2 \in {0, 3, 4}
    BY DEF Layout
<1>3. b[1] = 0 /\ b[2] = 0 /\ b[3] = (IF c = 3 THEN 1 ELSE 0) /\ (c = 4 => b[4] = 1)
    BY <1>2 DEF Layout
<1>4. HasStartCode(b) /\ (StartCode3(b, 0) <=> c = 3)
    BY <1>2, <1>3 DEF HasStartCode, StartCode3, StartCode4
<1>5. PICK e \in Nat : e = c + l /\ e >= 4
    BY <1>1, <1>2
<1>6. \A p \in NextStartCodes(b, n) : p >= e
    BY <1>1, <1>5, NoneInside
<1>7. \A p \in NextStartCodes(b, n) :
        p \in 3..(n - 3) /\ (StartCode3(b, p) \/ (p < n - 3 /\ StartCode4(b, p)))
    BY DEF NextStartCodes
<1>8. /\ c2 = 0 => n <= e
      /\ c2 # 0 =>
          /\ n >= e + 1 => b[e + 1] = 0
          /\ n >= e + 2 => b[e + 2] = 0
          /\ n >= e + 3 => b[e + 3] = IF c2 = 3 THEN 1 ELSE 0
          /\ c2 = 4 /\ n >= e + 4 => b[e + 4] = 1
    BY <1>1, <1>5 DEF Layout
<1>9. CASE c2 # 0 /\ e + c2 <= n
    <2>1. e \in 3..(n - 3) /\ n >= e + 1 /\ n >= e + 2 /\ n >= e + 3
        BY <1>2, <1>5, <1>9
    <2>2. b[e + 1] = 0 /\ b[e + 2] = 0 /\ b[e + 3] = IF c2 = 3 THEN 1 ELSE 0
        BY <1>8, <1>9, <2>1
    <2>3. c2 = 4 => e < n - 3 /\ b[e + 4] = 1
        BY <1>2, <1>5, <1>8, <1>9
    <2>4. e \in NextStartCodes(b, n)
        BY <1>2, <1>9, <2>1, <2>2, <2>3 DEF NextStartCodes, StartCode3, StartCode4
    <2>5. PICK t \in Nat : t = Total(b, n) /\ t \in NextStartCodes(b, n) /\ t <= e
        BY <1>2, <2>4, TotalIs
    <2>6. t = e
        BY <1>6, <2>5
    <2> QED BY <1>1, <1>4, <1>5, <1>9, <2>4, <2>5, <2>6
<1>10. CASE ~(c2 # 0 /\ e + c2 <= n)
    <2>1. ASSUME NEW p \in NextStartCodes(b, n) PROVE FALSE
        <3>1. p >= e /\ p \in Nat /\ p + 3 <= n
            BY <1>2, <1>6, <1>7
        <3>2. c2 # 0
            BY <1>2, <1>5, <1>8, <3>1
        <3>3. c2 = 4 /\ p = e /\ n = e + 3
            BY <1>2, <1>5, <1>10, <3>1, <3>2
        <3>4. b[p + 3] = 0
            BY <1>8, <3>2, <3>3
        <3>5. ~(p < n - 3)
            BY <1>5, <3>3
        <3> QED BY <1>7, <3>4, <3>5 DEF StartCode3
    <2>2. NextStartCodes(b, n) = {}
        BY <2>1
    <2>3. Total(b, n) = n
        BY <1>2, <2>2, TotalIs
    <2> QED BY <1>1, <1>4, <1>5, <1>10, <2>2, <2>3
<1> QED BY <1>9, <1>10

-----------------------------------------------------------------------------
(* The length of the start code after NAL i; none follows the last. *)
After(f, i) == IF i < Len(f.nals) THEN f.nals[i + 1].code ELSE 0

(* A file of len bytes around its NAL i: it begins at p with a start code of c *)
(* bytes, has l bytes and is followed by a start code of c2; this is what any  *)
(* buffer gets of it that is read from p on.                                   *)
NalIs(f, i, p, c, l, c2, len) ==
    /\ p = Offset(Pieces(f), i - 1) /\ p + c + l = Offset(Pieces(f), i)
    /\ c = f.nals[i].code /\ l = Len(f.nals[i].bytes) /\ f.nals[i].bytes \in Seq(Nat)
    /\ Clean(f.nals[i].bytes)
    /\ c2 = After(f, i) /\ len = Len(Contents(f)) /\ p + c + l + c2 <= len
    /\ c2 = 0 <=> i = Len(f.nals)
    /\ i = Len(f.nals) => p + c + l = len
    /\ \A b : \A n \in Nat :
         p + n <= len /\ (\A k \in 1..n : b[k] = Contents(f)[p + k])
             => Layout(b, n, c, f.nals[i].bytes, c2)

LEMMA NalAt ==
    ASSUME NEW f \in Files, AnnexB(f), NEW i \in 1..Len(f.nals)
    PROVE  \E p \in Nat, c \in {3, 4}, l \in Nat \ {0}, c2 \in {0, 3, 4}, len \in Nat :
               NalIs(f, i, p, c, l, c2, len)
<1> DEFINE a == Contents(f)
           s == Pieces(f)
           d == f.nals[i].bytes
<1>1. WellFormed(f) /\ Clean(d)
    BY DEF AnnexB, Clean
<1>2. a \in Seq(Nat) /\ f.nals[i] \in Nal /\ Offset(s, i - 1) \in Nat /\ Len(f.nals) \in Nat
    BY <1>1, PieceAt, ContentsType
<1>3. f.nals[i].code \in {3, 4} /\ d \in Seq(Nat)
    BY <1>2 DEF Nal
<1>4. PICK p \in Nat : p = Offset(s, i - 1)
    BY <1>2
<1>5. PICK c \in {3, 4} : c = f.nals[i].code
    BY <1>3
<1>6. PICK l \in Nat \ {0} : l = Len(d)
    BY <1>1, <1>3 DEF Clean
<1>7. PICK len \in Nat : len = Len(a)
    BY <1>2
<1>8. p + c + l = Offset(s, i) /\ Offset(s, i) <= len /\ Offset(s, Len(f.nals)) = len
    BY <1>1, <1>4, <1>5, <1>6, <1>7, PieceAt
<1>9. /\ a[p + 1] = 0 /\ a[p + 2] = 0
      /\ IF c = 3 THEN a[p + 3] = 1 ELSE a[p + 3] = 0 /\ a[p + 4] = 1
      /\ \A j \in 1..l : a[p + c + j] = d[j]
    BY <1>1, <1>4, <1>5, <1>6, CodeAt
<1>10. PICK e \in Nat : e = p + c + l
    OBVIOUS
<1>11. PICK c2 \in {0, 3, 4} :
         /\ c2 = After(f, i) /\ e + c2 <= len
         /\ c2 = 0 <=> i = Len(f.nals)
         /\ c2 # 0 => /\ a[e + 1] = 0 /\ a[e + 2] = 0
                      /\ IF c2 = 3 THEN a[e + 3] = 1 ELSE a[e + 3] = 0 /\ a[e + 4] = 1
    <2>1. CASE i = Len(f.nals)
        BY <1>2, <1>7, <1>8, <1>10, <2>1 DEF After
    <2>2. CASE i # Len(f.nals)
        <3>1. PICK k \in 1..Len(f.nals) : k = i + 1 /\ k - 1 = i
            <4>1. i + 1 \in 1..Len(f.nals) /\ (i + 1) - 1 = i
                BY <1>2, <2>2
            <4> QED BY <4>1
        <3>2. /\ f.nals[k] \in Nal
              /\ Offset(s, k) = Offset(s, i) + f.nals[k].code + Len(f.nals[k].bytes)
              /\ Offset(s, k) <= len
            BY <1>1, <1>7, <3>1, PieceAt
        <3>3. f.nals[k].code \in {3, 4} /\ Len(f.nals[k].bytes) \in Nat
            BY <3>2 DEF Nal
        <3>4. PICK c2 \in {3, 4}, l2 \in Nat : c2 = f.nals[k].code /\ l2 = Len(f.nals[k].bytes)
            BY <3>3
        <3>5. e + c2 <= len
            <4>1. Offset(s, k) = e + c2 + l2 /\ Offset(s, k) <= len
                BY <1>8, <1>10, <3>2, <3>4
            <4> QED BY <4>1
        <3>6. c2 = After(f, i)
            BY <1>2, <2>2, <3>1, <3>4 DEF After
        <3>7. e = Offset(s, k - 1)
            BY <1>8, <1>10, <3>1
        <3>8. /\ a[e + 1] = 0 /\ a[e + 2] = 0
              /\ IF c2 = 3 THEN a[e + 3] = 1 ELSE a[e + 3] = 0 /\ a[e + 4] = 1
            BY <1>1, <3>4, <3>7, CodeAt
        <3> QED BY <2>2, <3>5, <3>6, <3>8
    <2> QED BY <2>1, <2>2
<1>12. ASSUME NEW b, NEW n \in Nat, p + n <= len, \A k \in 1..n : b[k] = a[p + k]
       PROVE  Layout(b, n, c, d, c2)
    <2> HIDE DEF a, d
    <2>3. \A j \in 1..l : c + j <= n => b[c + j] = d[j]
        <3> SUFFICES ASSUME NEW j \in 1..l, c + j <= n PROVE b[c + j] = d[j]
            OBVIOUS
        <3>1. PICK k \in 1..n : k = c + j /\ p + k = p + c + j
            OBVIOUS
        <3> QED BY <1>9, <1>12, <3>1
    <2>4. PICK g \in Nat : g = c + l
        OBVIOUS
    <2>5. e = p + g
        BY <1>10, <2>4
    <2>6. ASSUME NEW x \in 1..4, n >= g + x PROVE b[g + x] = a[e + x]
        <3>1. PICK k \in 1..n : k = g + x /\ p + k = e + x
            BY <2>5, <2>6
        <3> QED BY <1>12, <3>1
    <2>7. c2 = 0 => n <= g
        BY <1>2, <1>8, <1>10, <1>11, <1>12, <2>5
    <2>8. n >= 1 => b[1] = 0
        BY <1>9, <1>12
    <2>9. n >= 2 => b[2] = 0
        BY <1>9, <1>12
    <2>10. n >= 3 => b[3] = IF c = 3 THEN 1 ELSE 0
        BY <1>9, <1>12
    <2>11. c = 4 /\ n >= 4 => b[4] = 1
        BY <1>9, <1>12
    <2>12. c2 # 0 => /\ n >= g + 1 => b[g + 1] = 0
                     /\ n >= g + 2 => b[g + 2] = 0
                     /\ n >= g + 3 => b[g + 3] = IF c2 = 3 THEN 1 ELSE 0
                     /\ c2 = 4 /\ n >= g + 4 => b[g + 4] = 1
        <3>1. ASSUME c2 # 0
              PROVE  a[e + 1] = 0 /\ a[e + 2] = 0
                     /\ IF c2 = 3 THEN a[e + 3] = 1 ELSE a[e + 3] = 0 /\ a[e + 4] = 1
            BY <1>11, <3>1
        <3>2. 1 \in 1..4 /\ 2 \in 1..4 /\ 3 \in 1..4 /\ 4 \in 1..4
            OBVIOUS
        <3>3. /\ n >= g + 1 => b[g + 1] = a[e + 1]
              /\ n >= g + 2 => b[g + 2] = a[e + 2]
              /\ n >= g + 3 => b[g + 3] = a[e + 3]
              /\ n >= g + 4 => b[g + 4] = a[e + 4]
            BY <2>6, <3>2
        <3> QED BY <3>1, <3>3
    <2>13. d \in Seq(Nat)
        BY <1>3 DEF d
    <2>14. PICK m \in Nat : m = Len(d)
        BY <1>6
    <2>15. c + m = g
        BY <1>6, <2>4, <2>14
    <2> QED BY <1>6, <2>3, <2>7, <2>8, <2>9, <2>10, <2>11, <2>12, <2>13, <2>14, <2>15 DEF Layout
<1>13. i = Len(f.nals) => p + c + l = len
    BY <1>8
<1>14. NalIs(f, i, p, c, l, c2, len)
    <2> HIDE DEF a, d, s
    <2>1. p = Offset(s, i - 1) /\ p + c + l = Offset(s, i) /\ p + c + l + c2 <= len
        BY <1>4, <1>8, <1>10, <1>11
    <2> QED BY <1>1, <1>3, <1>5, <1>6, <1>7, <1>11, <1>12, <1>13, <2>1 DEF NalIs, a, d, s
<1> QED BY <1>14

-----------------------------------------------------------------------------
(* NAL i begins at p with a start code of c bytes; a buffer is full before the end. *)
CutAt(f, i, p, c) ==
    /\ p = Offset(Pieces(f), i - 1) /\ p + FrameMax <= Len(Contents(f))
    /\ c = f.nals[i].code /\ c <= FrameMax

(* The NAL that is cut is what a buffer holds of the file behind its start code. *)
LEMMA CutIs ==
    ASSUME NEW f \in Files, AnnexB(f), NEW i \in 1..Len(f.nals),
           NEW p \in Nat, NEW c \in Nat, CutAt(f, i, p, c)
    PROVE  /\ Cut(f, i) \in Seq(Nat) /\ Len(Cut(f, i)) = FrameMax - c
           /\ \A j \in 1..(FrameMax - c) : Cut(f, i)[j] = Contents(f)[p + c + j]
<1>1. PICK fm \in Nat : fm = FrameMax /\ c <= fm
    BY MediaAssumption DEF CutAt
<1>2. PICK m \in Nat, k \in Nat, r \in Nat :
        m = Len(f.nals) /\ i \in 1..m /\ k = i - 1 /\ r = m - k /\ m - i + 1 = r
    <2>1. PICK m \in Nat : m = Len(f.nals)
        BY ContentsType
    <2>2. i \in 1..m /\ i - 1 \in Nat /\ m - (i - 1) \in Nat /\ m - i + 1 = m - (i - 1)
        BY <2>1
    <2> QED BY <2>1, <2>2
<1> DEFINE s == Pieces(f)
           t == [j \in 1..r |-> Piece(f.nals[i - 1 + j])]
           w == FlattenSeq(t)
           u == SubSeq(w, c + 1, fm)
<1>3. /\ s \in Seq(Seq(Nat)) /\ Len(s) = m
      /\ \A j \in 1..m : s[j] = Piece(f.nals[j])
    BY <1>2, ContentsType
<1>4. FlattenSeq(s) = Contents(f)
    <2>1. f.lead = <<>>
        BY DEF AnnexB, WellFormed
    <2>2. FlattenSeq(s) \in Seq(Nat) /\ Contents(f) = f.lead \o FlattenSeq(s)
        BY ContentsType
    <2> HIDE DEF s
    <2> QED BY <2>1, <2>2
<1>5. p = Offset(s, k)
    BY <1>2 DEF CutAt
<1> HIDE DEF s
<1>6. k \in 0..Len(s)
    BY <1>2, <1>3
<1>7. t \in Seq(Seq(Nat)) /\ Len(t) = r /\ \A j \in 1..r : t[j] = s[k + j]
    <2>1. ASSUME NEW j \in 1..r
          PROVE  Piece(f.nals[i - 1 + j]) = s[k + j] /\ Piece(f.nals[i - 1 + j]) \in Seq(Nat)
        <3>1. PICK x \in 1..m : x = k + j /\ x = i - 1 + j
            BY <1>2
        <3>2. s[x] \in Seq(Nat)
            BY <1>3
        <3> QED BY <1>3, <3>1, <3>2
    <2>2. \A j \in 1..r : t[j] = s[k + j] /\ t[j] \in Seq(Nat)
        BY <2>1
    <2>3. Len(t) = r
        BY <1>2
    <2>4. t \in Seq(Seq(Nat))
        <3>1. t = [j \in 1..r |-> t[j]]
            OBVIOUS
        <3> DEFINE B == Seq(Nat)
        <3>2. \A j \in 1..r : t[j] \in B
            BY <2>2
        <3> HIDE DEF t, B
        <3>3. t \in [1..r -> B]
            BY <3>1, <3>2
        <3>4. t \in Seq(B)
            BY <3>3
        <3> QED BY <3>4 DEF B
    <2> QED BY <2>2, <2>3, <2>4
<1> HIDE DEF t
<1>8. /\ Len(FlattenSeq(s)) = Offset(s, k) + Len(w)
      /\ \A x \in 1..Len(w) : w[x] = FlattenSeq(s)[Offset(s, k) + x]
    <2>1. Behind(s, k, t)
        BY <1>2, <1>3, <1>7 DEF Behind
    <2>2. s \in Seq(Seq(Nat)) /\ t \in Seq(Seq(Nat))
        BY <1>3, <1>7
    <2>3. SuffixAt(s, k, t)
        BY <1>6, <2>1, <2>2, FlattenSuffix
    <2> QED BY <2>3 DEF SuffixAt
<1>9. w \in Seq(Nat)
    BY <1>7, OffsetNext
<1> HIDE DEF w
<1>10. PICK q \in Nat : q = Len(w) /\ fm <= q
    <2>1. Len(w) \in Nat
        BY <1>9
    <2>2. Len(Contents(f)) = p + Len(w)
        BY <1>4, <1>5, <1>8
    <2>3. p + fm <= Len(Contents(f))
        BY <1>1 DEF CutAt
    <2> QED BY <2>1, <2>2, <2>3
<1>11. /\ u \in Seq(Nat) /\ Len(u) = fm - c
       /\ \A j \in 1..(fm - c) : u[j] = w[c + j]
    <2>1. c <= fm /\ fm <= Len(w)
        BY <1>1, <1>10
    <2> QED BY <1>9, <2>1, Part
<1>12. Cut(f, i) = u
    BY <1>1, <1>2 DEF CutAt, Cut, u, w, t
<1> HIDE DEF u
<1>13. ASSUME NEW j \in 1..(fm - c) PROVE u[j] = Contents(f)[p + c + j]
    <2>1. PICK x \in 1..q : x = c + j
        <3>1. c + j \in Nat /\ c + j >= 1
            OBVIOUS
        <3>2. c + j <= fm
            OBVIOUS
        <3>3. c + j \in 1..q
            BY <1>10, <3>1, <3>2
        <3> QED BY <3>3
    <2>2. p + x = p + c + j
        BY <2>1
    <2>3. w[x] = Contents(f)[p + x]
        BY <1>4, <1>5, <1>8, <1>10
    <2> QED BY <1>11, <2>1, <2>2, <2>3
<1> QED BY <1>1, <1>11, <1>12, <1>13

(* The first n bytes of b are read at the place of frame i of the round: they have *)
(* it behind a start code and, unless it is the last, before the next.             *)
Gets(b, n, i) ==
    LET code == IF StartCode3(b, 0) THEN 3 ELSE 4
        v    == Round(file)[i]
    IN  /\ HasStartCode(b)
        /\ v \in Seq(Nat) /\ Total(b, n) = code + Len(v) /\ Total(b, n) <= FrameMax
        /\ \A j \in 1..Len(v) : b[code + j] = v[j]
        /\ IF i < Len(Round(file))
           THEN NextStartCodes(b, n) # {} /\ pos + Total(b, n) = Offset(Pieces(file), i)
           ELSE NextStartCodes(b, n) = {}

LEMMA RoundRead ==
    ASSUME Typed, AnnexB(file), NEW f \in Frame, NEW i \in 1..Len(Round(file)),
           pos = Offset(Pieces(file), i - 1)
    PROVE  Gets(Loaded(f), Len(Bytes), i)
<1> DEFINE b == Loaded(f)
           code == IF StartCode3(b, 0) THEN 3 ELSE 4
           v == Round(file)[i]
           d == file.nals[i].bytes
<1>1. file \in Files /\ FrameMax \in Nat /\ FrameMax >= 4
    BY MediaAssumption DEF Typed
<1>2. PICK m \in Nat : m = Len(file.nals) /\ Len(Round(file)) \in 1..m /\ i \in 1..m
    <2>1. PICK m \in Nat : m = Len(file.nals)
        BY <1>1, ContentsType
    <2>2. Len(Round(file)) \in 1..m
        BY <1>1, <2>1, RoundIs
    <2>3. i \in 1..m
        BY <2>2
    <2> QED BY <2>1, <2>2, <2>3
<1>3. PICK p \in Nat, c \in {3, 4}, l \in Nat \ {0}, c2 \in {0, 3, 4}, len \in Nat :
        NalIs(file, i, p, c, l, c2, len)
    BY <1>1, <1>2, NalAt
<1>4. /\ p = pos /\ p + c + l = Offset(Pieces(file), i) /\ len = Len(All)
      /\ c = file.nals[i].code /\ l = Len(d) /\ d \in Seq(Nat) /\ Clean(d)
      /\ c2 = After(file, i)
    BY <1>2, <1>3 DEF NalIs, All
<1>5. p + c + l + c2 <= len /\ (c2 = 0 <=> i = m) /\ (i = m => p + c + l = len)
    BY <1>2, <1>3 DEF NalIs
<1>6. PICK n \in Nat : n = Len(Bytes)
    BY <1>1, BytesRead DEF Typed
<1>7. n = (IF p + FrameMax < len THEN FrameMax ELSE len - p)
    BY <1>4, <1>6, BytesRead DEF Typed
<1>8. p + n <= len /\ n <= FrameMax /\ n >= 4
    <2> HIDE DEF d, b
    <2> QED BY <1>1, <1>5, <1>7
<1>9. \A k \in 1..n : b[k] = All[p + k]
    BY <1>4, <1>6, BytesRead, LoadedType DEF Typed
<1> HIDE DEF b, d
<1>10. Layout(b, n, c, d, c2)
    BY <1>3, <1>8, <1>9 DEF NalIs, All, d
<1>11. /\ HasStartCode(b) /\ (StartCode3(b, 0) <=> c = 3)
      /\ IF c2 # 0 /\ c + l + c2 <= n
         THEN NextStartCodes(b, n) # {} /\ Total(b, n) = c + l
         ELSE NextStartCodes(b, n) = {} /\ Total(b, n) = n
    <2>1. n >= 4 /\ Clean(d) /\ l = Len(d)
        BY <1>4, <1>8
    <2>2. /\ HasStartCode(b) /\ (StartCode3(b, 0) <=> c = 3)
          /\ IF c2 # 0 /\ c + Len(d) + c2 <= n
             THEN NextStartCodes(b, n) # {} /\ Total(b, n) = c + Len(d)
             ELSE NextStartCodes(b, n) = {} /\ Total(b, n) = n
        BY <1>10, <2>1, ReadLayout
    <2> QED BY <2>1, <2>2
<1>12. code = c
    BY <1>11
<1> HIDE DEF code
<1>13. \A j \in 1..l : c + j <= n => b[c + j] = d[j]
    BY <1>4, <1>10 DEF Layout
<1>14. Fits(file, i) <=> c + l + c2 <= FrameMax
    <2>1. Len(Piece(file.nals[i])) = c + l
        <3>1. file.nals[i] \in Nal
            BY <1>1, <1>2, ContentsType
        <3> QED BY <1>4, <3>1, PieceLayout DEF CodeAndBytes, d
    <2> QED BY <1>2, <1>4, <2>1 DEF Fits, After
<1>15. PICK wh \in 0..m : wh = Whole(file)
    BY <1>1, <1>2, RoundIs
<1>16. /\ i <= wh => Fits(file, i) /\ v = d
       /\ i > wh => i = wh + 1 /\ i = Len(Round(file)) /\ ~Fits(file, i) /\ v = Cut(file, i)
       /\ Len(Round(file)) = IF wh < m THEN wh + 1 ELSE wh
    BY <1>1, <1>2, <1>15, RoundIs DEF d
<1> HIDE DEF v
<1>17. CASE i <= wh
    <2>1. c + l + c2 <= FrameMax /\ v = d
        BY <1>14, <1>16, <1>17
    <2>2. c + l + c2 <= n
        BY <1>1, <1>5, <1>7, <2>1
    <2>3. ASSUME NEW j \in 1..l PROVE b[c + j] = v[j]
        <3>1. c + j <= n
            BY <2>2
        <3> QED BY <1>13, <2>1, <3>1
    <2>4. CASE i < m
        <3>1. i < Len(Round(file)) /\ c2 # 0
            BY <1>2, <1>5, <1>15, <1>16, <1>17, <2>4
        <3>2. NextStartCodes(b, n) # {} /\ Total(b, n) = c + l
            BY <1>11, <2>2, <3>1
        <3>3. Total(b, n) <= FrameMax
            BY <1>1, <2>1, <3>2
        <3>4. pos + Total(b, n) = p + c + l
            BY <1>4, <3>2
        <3> QED BY <1>4, <1>6, <1>11, <1>12, <2>1, <2>3, <3>1, <3>2, <3>3, <3>4 DEF Gets, b, v, code
    <2>5. CASE i = m
        <3>1. i = Len(Round(file)) /\ c2 = 0
            BY <1>2, <1>5, <1>15, <1>16, <1>17, <2>5
        <3>2. NextStartCodes(b, n) = {} /\ Total(b, n) = n
            BY <1>11, <3>1
        <3>3. n = c + l
            BY <1>1, <1>5, <1>7, <2>1, <2>5, <3>1
        <3>4. ~(i < Len(Round(file)))
            BY <1>2, <3>1
        <3> QED BY <1>4, <1>6, <1>8, <1>11, <1>12, <2>1, <2>3, <3>2, <3>3, <3>4 DEF Gets, b, v, code
    <2> QED BY <1>2, <2>4, <2>5
<1>18. CASE i > wh
    <2>1. /\ i = Len(Round(file)) /\ ~(c + l + c2 <= FrameMax) /\ v = Cut(file, i)
        BY <1>14, <1>16, <1>18
    <2>2. p + FrameMax <= len
        BY <1>1, <1>5, <2>1
    <2>3. n = FrameMax
        BY <1>1, <1>7, <2>2
    <2>4. NextStartCodes(b, n) = {} /\ Total(b, n) = n
        BY <1>11, <2>1, <2>3
    <2>5. /\ v \in Seq(Nat) /\ Len(v) = FrameMax - c
          /\ \A j \in 1..(FrameMax - c) : v[j] = All[p + c + j]
        <3>1. i \in 1..Len(file.nals)
            BY <1>2
        <3>2. /\ Cut(file, i) \in Seq(Nat) /\ Len(Cut(file, i)) = FrameMax - c
              /\ \A j \in 1..(FrameMax - c) : Cut(file, i)[j] = Contents(file)[p + c + j]
            <4>1. c \in Nat /\ c <= FrameMax
                BY <1>1
            <4>2. p + FrameMax <= Len(Contents(file))
                BY <1>4, <2>2 DEF All
            <4>3. p = Offset(Pieces(file), i - 1) /\ c = file.nals[i].code
                BY <1>4
            <4>4. CutAt(file, i, p, c)
                BY <4>1, <4>2, <4>3 DEF CutAt
            <4>5. PICK g \in Nat : g = c
                BY <4>1
            <4>6. CutAt(file, i, p, g)
                BY <4>4, <4>5
            <4>7. /\ Cut(file, i) \in Seq(Nat) /\ Len(Cut(file, i)) = FrameMax - g
                  /\ \A j \in 1..(FrameMax - g) : Cut(file, i)[j] = Contents(file)[p + g + j]
                BY <1>1, <3>1, <4>6, CutIs
            <4> QED BY <4>5, <4>7
        <3> QED BY <2>1, <3>2 DEF All
    <2>6. ASSUME NEW j \in 1..(FrameMax - c) PROVE b[c + j] = v[j]
        <3>1. PICK k \in 1..n : k = c + j /\ p + k = p + c + j
            BY <1>1, <2>3
        <3> QED BY <1>9, <2>5, <3>1
    <2>7. n = c + Len(v)
        BY <1>1, <2>3, <2>5
    <2>8. ~(i < Len(Round(file)))
        BY <1>2, <2>1
    <2> QED BY <1>6, <1>8, <1>11, <1>12, <2>4, <2>5, <2>6, <2>7, <2>8 DEF Gets, b, v, code
<1> QED BY <1>2, <1>15, <1>17, <1>18

-----------------------------------------------------------------------------
(* The packets of a frame *)

(* Frame f holds v for the sink. *)
HasBytes(b, from, n, v) ==
    /\ v \in Seq(Nat) /\ n = Len(v) /\ from + Len(v) <= FrameMax
    /\ \A j \in 1..Len(v) : b[from + j] = v[j]

Holds(f, v) == HasBytes(buffer[f], skip[f], size[f], v)

LEMMA HoldsIs ==
    ASSUME Typed, NEW f \in Frame, NEW v, Holds(f, v)
    PROVE  \E n \in Nat, k \in Nat :
               /\ n = Len(v) /\ n = size[f] /\ k = skip[f] /\ k + n <= FrameMax /\ FrameMax \in Nat
               /\ v \in Seq(Nat)
               /\ \A j \in 1..n : buffer[f][k + j] = v[j]
<1>1. v \in Seq(Nat) /\ size[f] = Len(v) /\ skip[f] + Len(v) <= FrameMax
      /\ \A j \in 1..Len(v) : buffer[f][skip[f] + j] = v[j]
    BY DEF Holds, HasBytes
<1>2. skip[f] \in {0, 3, 4}
    BY DEF Typed
<1>3. PICK n \in Nat : n = Len(v)
    BY <1>1
<1>4. PICK k \in Nat : k = skip[f]
    BY <1>2
<1>5. FrameMax \in Nat
    BY MediaAssumption
<1> QED BY <1>1, <1>3, <1>4, <1>5

(* w is m bytes, those of v behind the first from as far as it has them. *)
IsFrom(w, v, from, m) ==
    /\ w \in Seq(Nat) /\ Len(w) = m
    /\ \A j \in 1..m : from + j <= Len(v) => w[j] = v[from + j]

LEMMA SliceHolds ==
    ASSUME Typed, NEW f \in Frame, NEW v, Holds(f, v), NEW from \in Nat, NEW m \in Nat
    PROVE  IsFrom(Slice(f, from, m), v, from, m)
<1>1. PICK n \in Nat, k \in Nat :
        /\ n = Len(v) /\ n = size[f] /\ k = skip[f] /\ k + n <= FrameMax /\ FrameMax \in Nat
        /\ v \in Seq(Nat)
        /\ \A j \in 1..n : buffer[f][k + j] = v[j]
    BY HoldsIs, SMTT(20)
<1>2. /\ Slice(f, from, m) \in Seq(Nat) /\ Len(Slice(f, from, m)) = m
      /\ \A j \in 1..m : Slice(f, from, m)[j] =
            IF skip[f] + from + j <= FrameMax THEN buffer[f][skip[f] + from + j] ELSE Junk
    BY SliceType
<1>3. ASSUME NEW j \in 1..m, from + j <= n PROVE Slice(f, from, m)[j] = v[from + j]
    <2>1. PICK x \in 1..n : x = from + j
        <3>1. from + j \in 1..n
            BY <1>3
        <3> QED BY <3>1
    <2>2. k + from + j = k + x /\ k + x <= FrameMax
        BY <1>1, <2>1
    <2>3. Slice(f, from, m)[j] = buffer[f][k + x]
        BY <1>1, <1>2, <2>2
    <2> QED BY <1>1, <2>1, <2>3
<1> QED BY <1>1, <1>2, <1>3 DEF IsFrom

LEMMA HoldsIsHeld ==
    ASSUME Typed, NEW f \in Frame, NEW v, Holds(f, v)
    PROVE  Held(f) = v /\ size[f] = Len(v) /\ Len(v) \in Nat /\ v \in Seq(Nat)
<1>1. PICK n \in Nat : n = Len(v) /\ n = size[f] /\ v \in Seq(Nat)
    BY HoldsIs
<1> DEFINE h == Slice(f, 0, n)
<1>2. Held(f) = h
    BY <1>1 DEF Held
<1>3. h \in Seq(Nat) /\ Len(h) = n /\ \A j \in 1..n : 0 + j <= Len(v) => h[j] = v[0 + j]
    <2>1. IsFrom(h, v, 0, n)
        BY SliceHolds
    <2> HIDE DEF h
    <2> QED BY <2>1 DEF IsFrom
<1> HIDE DEF h
<1>4. \A j \in 1..n : h[j] = v[j]
    <2>1. \A j \in 1..n : 0 + j = j /\ j <= Len(v)
        BY <1>1
    <2> QED BY <1>3, <2>1
<1>5. h = v
    BY <1>1, <1>3, <1>4, SameSeq
<1> QED BY <1>1, <1>2, <1>5

(* The fragments of a NAL of z bytes: what follows the first byte, full ones first, *)
(* is all of it and one byte more.                                                 *)
Chopped(s, M, full, rest, n) ==
    /\ n = full + (IF rest > 0 THEN 1 ELSE 0)
    /\ s \in Seq(Seq(Nat)) /\ Len(s) = n
    /\ \A i \in 1..n : Len(s[i]) = IF i <= full THEN M ELSE rest

LEMMA Fragments ==
    ASSUME NEW M \in Nat \ {0}, NEW full \in Nat \ {0}, NEW rest \in 0..(M - 1),
           NEW n \in Nat, NEW s, Chopped(s, M, full, rest, n)
    PROVE  /\ \A i \in 1..n : Offset(s, i - 1) = (i - 1) * M
           /\ Len(FlattenSeq(s)) = M * full + rest
<1>0. /\ n = full + (IF rest > 0 THEN 1 ELSE 0)
      /\ s \in Seq(Seq(Nat)) /\ Len(s) = n
      /\ \A i \in 1..n : Len(s[i]) = IF i <= full THEN M ELSE rest
    BY DEF Chopped
<1> DEFINE T == {k \in 0..full : Offset(s, k) = k * M}
<1>1. full <= n
    BY <1>0
<1>2. Offset(s, 0) = 0 /\ Offset(s, n) = Len(FlattenSeq(s))
      /\ \A k \in 0..(n - 1) : Offset(s, k + 1) = Offset(s, k) + Len(s[k + 1])
    BY <1>0, OffsetNext
<1>3. 0 \in T
    BY <1>2
<1>4. ASSUME NEW k \in 0..(full - 1), k \in T PROVE k + 1 \in T
    <2>1. Offset(s, k + 1) = Offset(s, k) + M
        <3>1. k \in 0..(n - 1) /\ k + 1 \in 1..n /\ k + 1 <= full
            BY <1>1
        <3> QED BY <1>0, <1>2, <3>1
    <2>2. (k + 1) * M = k * M + M
        OBVIOUS
    <2>3. k * M \in Nat /\ Offset(s, k) = k * M
        BY <1>4
    <2> QED BY <2>1, <2>2, <2>3
<1>5. \A k \in 0..full : k \in T
    <2> HIDE DEF T
    <2> QED BY <1>3, <1>4, Induction
<1>6. \A k \in 0..full : Offset(s, k) = k * M
    BY <1>5
<1> HIDE DEF T
<1>7. ASSUME NEW i \in 1..n PROVE Offset(s, i - 1) = (i - 1) * M
    <2>1. i - 1 \in 0..full
        BY <1>0
    <2> QED BY <1>6, <2>1
<1>8. PICK a \in Nat : a = M * full /\ Offset(s, full) = a
    <2>1. M * full = full * M /\ M * full \in Nat
        OBVIOUS
    <2>2. full \in 0..full
        OBVIOUS
    <2> QED BY <1>6, <2>1, <2>2
<1>9. Len(FlattenSeq(s)) = a + rest
    <2>1. CASE rest = 0
        BY <1>0, <1>2, <1>8, <2>1
    <2>2. CASE rest > 0
        <3>1. n = full + 1 /\ full \in 0..(n - 1) /\ full + 1 \in 1..n /\ ~(full + 1 <= full)
            BY <1>0, <2>2
        <3>2. Len(s[full + 1]) = rest
            BY <1>0, <3>1
        <3>3. Offset(s, n) = Offset(s, full) + rest
            BY <1>2, <3>1, <3>2
        <3> QED BY <1>2, <1>8, <3>3
    <2> QED BY <2>1, <2>2
<1> QED BY <1>7, <1>8, <1>9

LEMMA SendBrings ==
    ASSUME Typed, NEW f \in Frame, NEW v, Holds(f, v)
    PROVE  Brings(Packets(f), v)
<1>1. PICK z \in Nat : z = Len(v) /\ z = size[f] /\ v \in Seq(Nat) /\ Held(f) = v
    BY HoldsIsHeld
<1>2. MaxPkt \in Nat \ {0}
    BY MediaAssumption
<1> DEFINE M == MaxPkt
           full == size[f] \div MaxPkt
           rest == size[f] % MaxPkt
           nalu == Slice(f, 0, 1)[1]
<1>3. CASE z <= M
    <2> DEFINE p == [fu |-> FALSE, nalu |-> nalu, start |-> FALSE, end |-> FALSE,
                     data |-> v, seq |-> seq, clock |-> clock]
    <2>1. Packets(f) = <<p>>
        BY <1>1, <1>3 DEF Packets, Held
    <2>2. p.data = v /\ p.fu = FALSE
        OBVIOUS
    <2> HIDE DEF p
    <2>3. [i \in 1..Len(<<p>>) |-> <<p>>[i].data] = <<v>>
        BY <2>2
    <2>4. FlattenSeq(<<v>>) = v
        BY <1>1, FlattenOne
    <2>5. Brings(<<p>>, v)
        BY <2>2, <2>3, <2>4 DEF Brings
    <2> QED BY <2>1, <2>5
<1>4. CASE z > M
    <2> DEFINE n == full + (IF rest > 0 THEN 1 ELSE 0)
               q(i) == [fu |-> TRUE, nalu |-> nalu % 128, start |-> i = 1,
                        end |-> i > 1 /\ IsEnd(i, full, rest),
                        data |-> Slice(f, 1 + (i - 1) * MaxPkt, IF i <= full THEN MaxPkt ELSE rest),
                        seq |-> (seq + i - 1) % SeqSize, clock |-> clock]
               p == [i \in 1..n |-> q(i)]
               s == [i \in 1..n |-> q(i).data]
               all == FlattenSeq(s)
    <2>1. Packets(f) = p
        BY <1>1, <1>2, <1>4 DEF Packets
    <2>2. /\ full \in Nat \ {0} /\ rest \in 0..(M - 1) /\ z = M * full + rest
        <3>1. z = M * (z \div M) + (z % M) /\ z % M \in 0..(M - 1) /\ z \div M \in Nat
            BY <1>2, DivMod
        <3>2. z \div M # 0
            <4>1. ASSUME z \div M = 0 PROVE FALSE
                BY <1>2, <1>4, <3>1, <4>1
            <4> QED BY <4>1
        <3> QED BY <1>1, <3>1, <3>2
    <2> HIDE DEF full, rest, M, nalu
    <2>3. n \in Nat \ {0} /\ full <= n
        BY <2>2
    <2>4. ASSUME NEW i \in 1..n
          PROVE  /\ q(i).data \in Seq(Nat) /\ Len(q(i).data) = IF i <= full THEN M ELSE rest
                 /\ \A y \in 1..Len(q(i).data) :
                      1 + (i - 1) * M + y <= z => q(i).data[y] = v[1 + (i - 1) * M + y]
                 /\ q(i).fu = TRUE /\ q(i).nalu = nalu % 128
                 /\ q(i).start = (i = 1) /\ q(i).end = (i > 1 /\ IsEnd(i, full, rest))
        <3>1. PICK from \in Nat : from = 1 + (i - 1) * M
            BY <1>2, <2>3 DEF M
        <3>2. PICK m \in Nat : m = IF i <= full THEN M ELSE rest
            BY <1>2, <2>2 DEF M
        <3>3. q(i).data = Slice(f, from, m)
            BY <3>1, <3>2 DEF M
        <3>4. /\ Slice(f, from, m) \in Seq(Nat) /\ Len(Slice(f, from, m)) = m
              /\ \A y \in 1..m : from + y <= Len(v) => Slice(f, from, m)[y] = v[from + y]
            <4> HIDE DEF q, n, full, rest, nalu, M
            <4>1. IsFrom(Slice(f, from, m), v, from, m)
                BY SliceHolds
            <4> QED BY <4>1 DEF IsFrom
        <3>5. /\ q(i).fu = TRUE /\ q(i).nalu = nalu % 128
              /\ q(i).start = (i = 1) /\ q(i).end = (i > 1 /\ IsEnd(i, full, rest))
            OBVIOUS
        <3> HIDE DEF q
        <3> QED BY <1>1, <3>1, <3>2, <3>3, <3>4, <3>5
    <2> HIDE DEF q
    <2>5. s \in Seq(Seq(Nat)) /\ Len(s) = n /\ \A i \in 1..n : s[i] = q(i).data
        <3> DEFINE B == Seq(Nat)
        <3>1. \A i \in 1..n : q(i).data \in B
            BY <2>4
        <3> HIDE DEF B, n
        <3>2. s \in [1..n -> B] /\ n \in Nat
            BY <2>3, <3>1
        <3>3. s \in Seq(B) /\ Len(s) = n
            BY <3>2
        <3> QED BY <3>3 DEF B
    <2>6. p # <<>> /\ Len(p) = n /\ \A i \in 1..n : p[i] = q(i)
        <3> HIDE DEF n
        <3> QED BY <2>3
    <2>7. PICK k \in Nat \ {0} : k = n /\ k = full + (IF rest > 0 THEN 1 ELSE 0)
        BY <2>3
    <2> HIDE DEF n, s
    <2>8. /\ \A i \in 1..k : Offset(s, i - 1) = (i - 1) * M
          /\ Len(FlattenSeq(s)) = M * full + rest
        <3>1. ASSUME NEW i \in 1..k PROVE Len(s[i]) = IF i <= full THEN M ELSE rest
            <4>1. i \in 1..n
                BY <2>7
            <4>2. s[i] = q(i).data
                BY <2>5, <4>1
            <4> QED BY <2>4, <4>1, <4>2
        <3>2. M \in Nat \ {0}
            BY <1>2 DEF M
        <3>3. Len(s) = k
            BY <2>5, <2>7
        <3>4. s \in Seq(Seq(Nat)) /\ full \in Nat \ {0} /\ rest \in 0..(M - 1) /\ k \in Nat
              /\ k = full + (IF rest > 0 THEN 1 ELSE 0)
            BY <2>2, <2>5, <2>7
        <3>5. Chopped(s, M, full, rest, k)
            BY <3>1, <3>3, <3>4 DEF Chopped
        <3>6. k \in Nat
            OBVIOUS
        <3> QED BY <2>2, <3>2, <3>5, <3>6, Fragments
    <2>9. Len(all) = z /\ all \in Seq(Nat)
        BY <2>2, <2>5, <2>8, OffsetNext
    <2>10. ASSUME NEW x \in 1..z, 1 + x <= z PROVE all[x] = v[1 + x]
        <3>1. PICK i \in 1..k : \E y \in 1..Len(s[i]) : x = Offset(s, i - 1) + y
            <4>1. x \in 1..Len(all)
                BY <2>9
            <4> QED BY <2>5, <2>7, <4>1, FlattenFind
        <3>2. PICK y \in 1..Len(s[i]) : x = Offset(s, i - 1) + y
            BY <3>1
        <3>3. all[Offset(s, i - 1) + y] = s[i][y]
            <4>1. s \in Seq(Seq(Nat)) /\ i \in 1..Len(s)
                BY <2>5, <2>7
            <4> HIDE DEF p, all
            <4>2. FlattenSeq(s)[Offset(s, i - 1) + y] = s[i][y]
                BY <4>1, FlattenAt
            <4> QED BY <4>2 DEF all
        <3>4. PICK o \in Nat : o = (i - 1) * M /\ Offset(s, i - 1) = o
            <4>1. (i - 1) * M \in Nat
                BY <1>2 DEF M
            <4> QED BY <2>8, <4>1
        <3>5. s[i] = q(i).data /\ i \in 1..n
            BY <2>5, <2>7
        <3>6. y \in Nat /\ 1 + o + y = 1 + x /\ 1 + o + y <= z
            BY <2>10, <3>2, <3>4
        <3>7. q(i).data[y] = v[1 + o + y]
            <4>1. y \in 1..Len(q(i).data) /\ 1 + (i - 1) * M + y <= z
                BY <3>4, <3>5, <3>6
            <4>2. q(i).data[y] = v[1 + (i - 1) * M + y]
                BY <2>4, <3>5, <4>1
            <4> QED BY <3>4, <4>2
        <3> QED BY <3>2, <3>3, <3>4, <3>5, <3>6, <3>7
    <2>11. nalu = v[1] /\ nalu \in Nat
        <3>1. \A j \in 1..1 : 0 + j <= Len(v) => Slice(f, 0, 1)[j] = v[0 + j]
            <4>1. IsFrom(Slice(f, 0, 1), v, 0, 1)
                BY SliceHolds
            <4> QED BY <4>1 DEF IsFrom
        <3>2. 1 \in 1..1 /\ 0 + 1 = 1 /\ 1 <= z
            BY <1>2, <1>4 DEF M
        <3>3. Slice(f, 0, 1)[1] = v[1]
            BY <1>1, <3>1, <3>2
        <3>4. v[1] \in Nat
            <4>1. v \in Seq(Nat)
                BY <1>1
            <4>2. 1 \in 1..Len(v)
                BY <1>1, <3>2
            <4> QED BY <4>1, <4>2
        <3> QED BY <3>3, <3>4 DEF nalu
    <2>12. SubSeq(<<nalu>> \o all, 1, z) = v
        <3> DEFINE a == <<nalu>>
                   b == a \o all
                   u == SubSeq(b, 0 + 1, z)
        <3>1. a \in Seq(Nat) /\ Len(a) = 1 /\ a[1] = nalu
            BY <2>11
        <3> HIDE DEF a, all
        <3>2. b \in Seq(Nat) /\ Joined(b, a, all)
            BY <2>9, <3>1, ConcatAt
        <3> HIDE DEF b
        <3>3. Len(b) = 1 + z /\ b[1] = nalu /\ \A x \in 1..z : b[1 + x] = all[x]
            BY <2>9, <3>1, <3>2 DEF Joined
        <3>4. u \in Seq(Nat) /\ Len(u) = z /\ \A x \in 1..z : u[x] = b[0 + x]
            <4>1. 0 <= z /\ z <= Len(b) /\ z - 0 = z
                BY <3>3
            <4> QED BY <3>2, <4>1, Part
        <3> HIDE DEF u
        <3>5. ASSUME NEW x \in 1..z PROVE u[x] = v[x]
            <4>1. CASE x = 1
                BY <2>11, <3>3, <3>4, <4>1
            <4>2. CASE x # 1
                <5>1. PICK y \in 1..z : x = 1 + y
                    <6>1. x - 1 \in 1..z /\ x = 1 + (x - 1)
                        BY <4>2
                    <6> QED BY <6>1
                <5>2. b[1 + y] = v[1 + y]
                    <6>1. 1 + y <= z
                        BY <5>1
                    <6>2. all[y] = v[1 + y]
                        BY <2>10, <6>1
                    <6> QED BY <3>3, <6>2
                <5> QED BY <3>4, <5>1, <5>2
            <4> QED BY <4>1, <4>2
        <3>6. u = v
            BY <1>1, <3>4, <3>5, SameSeq
        <3>7. 0 + 1 = 1
            OBVIOUS
        <3> QED BY <3>6, <3>7 DEF u, b, a
    <2>13. ASSUME NEW i \in 1..n
           PROVE  /\ p[i].fu /\ p[i].nalu = p[1].nalu
                  /\ p[i].start <=> i = 1
                  /\ p[i].end <=> i = Len(p)
                  /\ Len(p[i].data) \in 1..M
        <3>1. 1 \in 1..n /\ p[1] = q(1) /\ p[i] = q(i)
            BY <2>6, <2>7
        <3> HIDE DEF p
        <3>2. i \in 1..k /\ Len(p) = k
            BY <2>6, <2>7
        <3>3. (i > 1 /\ IsEnd(i, full, rest)) <=> i = k
            <4>1. z > M /\ M \in Nat
                BY <1>2, <1>4 DEF M
            <4>2. full = 1 => rest > 0
                <5>1. ASSUME full = 1, rest = 0 PROVE FALSE
                    <6>1. M * 1 = M
                        BY <4>1
                    <6> QED BY <2>2, <4>1, <5>1, <6>1
                <5> QED BY <2>2, <5>1
            <4> QED BY <2>2, <2>7, <3>2, <4>2 DEF IsEnd
        <3>4. Len(q(i).data) \in 1..M
            <4>1. Len(q(i).data) = IF i <= full THEN M ELSE rest
                BY <2>4
            <4>2. M \in Nat \ {0}
                BY <1>2 DEF M
            <4>3. ~(i <= full) => rest > 0
                BY <2>2, <2>7, <3>2
            <4> QED BY <2>2, <4>1, <4>2, <4>3
        <3>5. q(i).fu /\ q(i).nalu = q(1).nalu /\ (q(i).start <=> i = 1)
            BY <2>4, <3>1
        <3>6. q(i).end <=> i = k
            BY <2>4, <3>3
        <3> QED BY <3>1, <3>2, <3>4, <3>5, <3>6
    <2>14. p[1].fu /\ p[1].nalu = nalu % 128
        <3>1. 1 \in 1..n
            BY <2>7
        <3> QED BY <2>4, <2>6, <3>1
    <2>15. [i \in 1..Len(p) |-> p[i].data] = s
        <3> HIDE DEF p
        <3> QED BY <2>5, <2>6 DEF s
    <2> HIDE DEF p
    <2>16. Brings(p, v)
        <3>1. /\ p[1].fu /\ p[1].nalu = v[1] % 128 /\ Len(all) <= Len(v)
              /\ SubSeq(<<v[1]>> \o all, 1, Len(v)) = v
            BY <1>1, <2>9, <2>11, <2>12, <2>14
        <3>2. 1..Len(p) = 1..n
            BY <2>6
        <3>3. \A i \in 1..Len(p) :
                /\ p[i].fu /\ p[i].nalu = p[1].nalu
                /\ p[i].start <=> i = 1
                /\ p[i].end <=> i = Len(p)
                /\ Len(p[i].data) \in 1..MaxPkt
            BY <2>13, <3>2 DEF M
        <3> QED BY <2>15, <3>1, <3>3 DEF Brings
    <2> QED BY <2>1, <2>16
<1> QED BY <1>1, <1>2, <1>3, <1>4

-----------------------------------------------------------------------------
(***************************************************************************)
(* The order of the file.  The offset is where the next NAL of the round    *)
(* begins, counted from the ones that wait to be sent, and each frame that  *)
(* waits holds the NAL that is due.                                         *)
(***************************************************************************)
AtNext == pos = Offset(Pieces(file), (nth + Len(output)) % Len(Round(file)))

InOrder == \A k \in 1..Len(output) : Holds(output[k], Due(k))

OrderKept ==
    AnnexB(file) =>
        /\ AtNext
        /\ InOrder
        /\ packets # <<>> => Brings(packets, Due(0))

OrderInv == Typed /\ PoolInv /\ OrderKept

LEMMA RoundLength ==
    ASSUME Typed
    PROVE  \E r \in Nat \ {0} : \E n \in 0..(r - 1) : \E l \in Nat :
               r = Len(Round(file)) /\ n = nth /\ l = Len(output)
<1>1. Len(Round(file)) \in 1..Len(file.nals) /\ Len(file.nals) \in Nat
    BY RoundIs, ContentsType DEF Typed
<1>2. PICK r \in Nat \ {0} : r = Len(Round(file))
    BY <1>1
<1>3. PICK n \in 0..(r - 1) : n = nth
    BY <1>2 DEF Typed
<1>4. PICK l \in Nat : l = Len(output)
    BY DEF Typed, Pool
<1> QED BY <1>2, <1>3, <1>4

LEMMA InitOrder == Init => OrderInv
<1> SUFFICES ASSUME Init PROVE OrderInv
    OBVIOUS
<1>1. Typed /\ PoolInv
    BY InitTyped, InitPool
<1>2. PICK r \in Nat \ {0}, l \in Nat : r = Len(Round(file)) /\ nth = 0 /\ l = Len(output) /\ l = 0
    BY <1>1, RoundLength DEF Init
<1>3. AtNext
    <2>1. 0 % r = 0
        BY ModSmall
    <2>2. Pieces(file) \in Seq(Seq(Nat))
        BY <1>1, ContentsType DEF Typed
    <2>3. Offset(Pieces(file), 0) = 0
        BY <2>2, OffsetNext
    <2>4. (nth + Len(output)) % Len(Round(file)) = 0
        BY <1>2, <2>1
    <2> QED BY <2>3, <2>4 DEF Init, AtNext
<1>4. InOrder
    BY <1>2 DEF InOrder
<1>5. packets = <<>>
    BY DEF Init
<1> QED BY <1>1, <1>3, <1>4, <1>5 DEF OrderInv, OrderKept

(* A read brings the NAL that is due behind the ones that wait. *)
LEMMA ReadOrder ==
    ASSUME Typed, PoolInv, AnnexB(file), AtNext, InOrder,
           NEW f \in Frame, NEW total \in 0..Len(Bytes), NEW code \in {3, 4},
           ReadInto(f, total, code)
    PROVE  AtNext' /\ InOrder'
<1>1. PICK r \in Nat \ {0} : \E n \in 0..(r - 1) : \E l \in Nat :
        r = Len(Round(file)) /\ n = nth /\ l = Len(output)
    BY RoundLength
<1>2. PICK n \in 0..(r - 1) : \E l \in Nat :
        r = Len(Round(file)) /\ n = nth /\ l = Len(output)
    BY <1>1
<1>3. PICK l \in Nat : r = Len(Round(file)) /\ n = nth /\ l = Len(output)
    BY <1>2
<1>4. PICK m \in 0..(r - 1) : m = (n + l) % r
    <2>1. n + l \in Nat
        OBVIOUS
    <2>2. (n + l) % r \in 0..(r - 1)
        BY <2>1, DivMod
    <2> QED BY <2>2
<1>5. PICK i \in 1..r : i = m + 1 /\ m = i - 1
    <2>1. m + 1 \in 1..r /\ m = (m + 1) - 1
        OBVIOUS
    <2> QED BY <2>1
<1> DEFINE v == Round(file)[i]
<1>6. Gets(Loaded(f), Len(Bytes), i)
    <2>1. pos = Offset(Pieces(file), i - 1)
        BY <1>3, <1>4, <1>5 DEF AtNext
    <2>2. i \in 1..Len(Round(file))
        BY <1>3
    <2> QED BY <2>1, <2>2, RoundRead
<1>7. /\ file' = file /\ nth' = nth /\ output' = Append(output, f)
      /\ buffer' = [buffer EXCEPT ![f] = Loaded(f)]
      /\ skip' = [skip EXCEPT ![f] = code]
      /\ size' = [size EXCEPT ![f] = total - code]
      /\ f = Head(input) /\ input # <<>>
    BY DEF ReadInto
<1>8. /\ buffer \in [Frame -> [1..FrameMax -> Nat]] /\ skip \in [Frame -> {0, 3, 4}]
      /\ size \in [Frame -> -4..FrameMax]
      /\ output \in Seq(Frame) /\ input \in Seq(Frame)
    BY DEF Typed, Pool
<1>9. HasBytes(buffer'[f], skip'[f], size'[f], v)
    <2>1. /\ v \in Seq(Nat) /\ total = code + Len(v) /\ total <= FrameMax
          /\ \A j \in 1..Len(v) : Loaded(f)[code + j] = v[j]
        BY <1>6 DEF Gets, ReadInto
    <2>2. PICK z \in Nat : z = Len(v)
        BY <2>1
    <2>3. buffer'[f] = Loaded(f) /\ skip'[f] = code /\ size'[f] = total - code
        BY <1>7, <1>8
    <2> HIDE DEF v
    <2>4. total - code = z /\ code + z <= FrameMax
        BY <2>1, <2>2
    <2> QED BY <2>1, <2>2, <2>3, <2>4 DEF HasBytes
<1>10. /\ Len(output') = l + 1 /\ output'[l + 1] = f
       /\ \A k \in 1..l : output'[k] = output[k] /\ output[k] \in Frame
    <2>1. output' = Append(output, f) /\ output \in Seq(Frame) /\ Len(output) = l
        BY <1>3, <1>7, <1>8
    <2> QED BY <2>1
<1>11. \A k \in 1..l : output[k] # f
    <2> DEFINE all == output \o input
    <2>1. Joined(all, output, input) /\ Len(input) \in Nat \ {0} /\ f = input[1]
        BY <1>7, <1>8, ConcatAt
    <2>2. Once(all)
        BY DEF PoolInv, OnePlace, Once
    <2> HIDE DEF all
    <2>3. /\ Len(all) = l + Len(input) /\ all[l + 1] = f
          /\ \A k \in 1..l : all[k] = output[k]
        <3>1. /\ Len(all) = Len(output) + Len(input)
              /\ \A k \in 1..Len(output) : all[k] = output[k]
              /\ \A k \in 1..Len(input) : all[Len(output) + k] = input[k]
            BY <2>1 DEF Joined
        <3>2. 1 \in 1..Len(input)
            BY <2>1
        <3> QED BY <1>3, <2>1, <3>1, <3>2
    <2>4. ASSUME NEW k \in 1..l PROVE all[k] # all[l + 1]
        <3>1. k \in 1..Len(all) /\ l + 1 \in 1..Len(all) /\ k # l + 1
            BY <2>1, <2>3
        <3> QED BY <2>2, <3>1 DEF Once
    <2> QED BY <2>3, <2>4
<1>12. \A k : Due(k)' = Due(k)
    BY <1>7 DEF Due
<1>13. Due(l + 1) = v
    <2>1. n + (l + 1) - 1 = n + l
        OBVIOUS
    <2> QED BY <1>3, <1>4, <1>5, <2>1 DEF Due
<1> HIDE DEF v
<1>14. InOrder'
    <2>1. ASSUME NEW k \in 1..(l + 1)
          PROVE  HasBytes(buffer'[output'[k]], skip'[output'[k]], size'[output'[k]], Due(k)')
        <3>1. CASE k = l + 1
            BY <1>9, <1>10, <1>12, <1>13, <3>1
        <3>2. CASE k # l + 1
            <4>1. k \in 1..l
                BY <3>2
            <4>2. HasBytes(buffer[output[k]], skip[output[k]], size[output[k]], Due(k))
                BY <1>3, <4>1 DEF InOrder, Holds
            <4>3. /\ buffer'[output[k]] = buffer[output[k]]
                  /\ skip'[output[k]] = skip[output[k]]
                  /\ size'[output[k]] = size[output[k]]
                BY <1>7, <1>8, <1>10, <1>11, <4>1
            <4> QED BY <1>10, <1>12, <4>1, <4>2, <4>3
        <3> QED BY <3>1, <3>2
    <2> QED BY <1>10, <2>1 DEF InOrder, Holds
<1>15. AtNext'
    <2> DEFINE p(k) == Offset(Pieces(file), k)
    <2>1. pos' = IF i < r THEN p(i) ELSE 0
        BY <1>3, <1>6 DEF Gets, ReadInto
    <2>2. (n + (l + 1)) % r = i % r
        <3>1. PICK c \in Nat : c = n + l
            OBVIOUS
        <3>2. ((c % r) + 1) % r = (c + 1) % r
            BY ModAdd
        <3>3. c + 1 = n + (l + 1)
            BY <3>1
        <3> QED BY <1>4, <1>5, <3>1, <3>2, <3>3
    <2>3. pos' = p(i % r)
        <3>1. CASE i < r
            <4>1. i \in 0..(r - 1)
                BY <3>1
            <4> QED BY <2>1, <3>1, <4>1, ModSmall
        <3>2. CASE i = r
            <4>1. i % r = 0
                BY <3>2, ModSmall
            <4>2. p(0) = 0
                <5>1. Pieces(file) \in Seq(Seq(Nat))
                    BY ContentsType DEF Typed
                <5> QED BY <5>1, OffsetNext
            <4> QED BY <2>1, <3>2, <4>1, <4>2
        <3> QED BY <3>1, <3>2
    <2> QED BY <1>3, <1>7, <1>10, <2>2, <2>3 DEF AtNext
<1> QED BY <1>14, <1>15

(* What was due first is sent, and what is due moves on by one. *)
LEMMA SendOrder ==
    ASSUME Typed, AnnexB(file), AtNext, InOrder, NEW f \in Frame, SendOf(f)
    PROVE  AtNext' /\ InOrder' /\ Brings(packets', Due(0)')
<1>1. PICK r \in Nat \ {0} : \E n \in 0..(r - 1) : \E l \in Nat :
        r = Len(Round(file)) /\ n = nth /\ l = Len(output)
    BY RoundLength
<1>2. PICK n \in 0..(r - 1) : \E l \in Nat :
        r = Len(Round(file)) /\ n = nth /\ l = Len(output)
    BY <1>1
<1>3. PICK l \in Nat : r = Len(Round(file)) /\ n = nth /\ l = Len(output)
    BY <1>2
<1>4. /\ f = Head(output) /\ output # <<>> /\ packets' = Packets(f) /\ output' = Tail(output)
      /\ nth' = (nth + 1) % Len(Round(file))
      /\ file' = file /\ pos' = pos /\ buffer' = buffer /\ skip' = skip /\ size' = size
    BY DEF SendOf
<1>5. l >= 1 /\ output[1] = f /\ Len(output') = l - 1
      /\ \A k \in 1..(l - 1) : output'[k] = output[k + 1]
    BY <1>3, <1>4 DEF Typed, Pool
<1>6. PICK c \in 0..(r - 1) : c = (n + 1) % r /\ nth' = c
    <2>1. n + 1 \in Nat
        OBVIOUS
    <2>2. (n + 1) % r \in 0..(r - 1)
        BY <2>1, DivMod
    <2> QED BY <1>3, <1>4, <2>2
<1>7. ASSUME NEW k \in Nat PROVE (c + k) % r = (n + 1 + k) % r
    <2>1. PICK a \in Nat : a = n + 1
        OBVIOUS
    <2>2. ((a % r) + k) % r = (a + k) % r
        BY ModAdd
    <2> QED BY <1>6, <2>1, <2>2
<1>8. ASSUME NEW k \in 1..(l - 1) PROVE Due(k)' = Due(k + 1)
    <2>1. (c + (k - 1)) % r = (n + 1 + (k - 1)) % r
        <3>1. k - 1 \in Nat
            OBVIOUS
        <3> QED BY <1>7, <3>1
    <2>2. c + (k - 1) = c + k - 1 /\ n + 1 + (k - 1) = n + (k + 1) - 1
        OBVIOUS
    <2>3. (c + k - 1) % r = (n + (k + 1) - 1) % r
        BY <2>1, <2>2
    <2> QED BY <1>3, <1>4, <1>6, <2>3 DEF Due
<1>9. Due(0)' = Due(1)
    <2>1. (c - 1) % r = n
        BY <1>6, ModBack
    <2>2. n % r = n
        BY ModSmall
    <2>3. c + 0 - 1 = c - 1 /\ n + 1 - 1 = n
        OBVIOUS
    <2>4. (c + 0 - 1) % r = (n + 1 - 1) % r
        BY <2>1, <2>2, <2>3
    <2> QED BY <1>3, <1>4, <1>6, <2>4 DEF Due
<1>10. AtNext'
    <2>1. (c + (l - 1)) % r = (n + 1 + (l - 1)) % r
        <3>1. l - 1 \in Nat
            BY <1>5
        <3> QED BY <1>7, <3>1
    <2>2. n + 1 + (l - 1) = n + l
        OBVIOUS
    <2>3. (c + (l - 1)) % r = (n + l) % r
        BY <2>1, <2>2
    <2> QED BY <1>3, <1>4, <1>5, <1>6, <2>3 DEF AtNext
<1>11. InOrder'
    <2>1. ASSUME NEW k \in 1..(l - 1)
          PROVE  HasBytes(buffer'[output'[k]], skip'[output'[k]], size'[output'[k]], Due(k)')
        <3>1. k + 1 \in 1..l
            OBVIOUS
        <3>2. HasBytes(buffer[output[k + 1]], skip[output[k + 1]], size[output[k + 1]], Due(k + 1))
            BY <1>3, <3>1 DEF InOrder, Holds
        <3> QED BY <1>4, <1>5, <1>8, <3>2
    <2> QED BY <1>5, <2>1 DEF InOrder, Holds
<1>12. Brings(packets', Due(0)')
    <2>1. Holds(f, Due(1))
        <3>1. 1 \in 1..Len(output)
            BY <1>3, <1>5
        <3>2. Holds(output[1], Due(1))
            BY <3>1 DEF InOrder
        <3> QED BY <1>5, <3>2
    <2>2. Brings(Packets(f), Due(1))
        BY <2>1, SendBrings
    <2> QED BY <1>4, <1>9, <2>2
<1> QED BY <1>10, <1>11, <1>12

LEMMA OrderStays ==
    ASSUME OrderKept, UNCHANGED <<file, pos, buffer, skip, size, output, packets, nth>>
    PROVE  OrderKept'
<1>1. \A k : Due(k)' = Due(k)
    BY DEF Due
<1>2. \A f, v : HasBytes(buffer'[f], skip'[f], size'[f], v) <=> HasBytes(buffer[f], skip[f], size[f], v)
    OBVIOUS
<1>3. AtNext => AtNext'
    BY DEF AtNext
<1>4. InOrder => InOrder'
    BY <1>1, <1>2 DEF InOrder, Holds
<1> QED BY <1>1, <1>3, <1>4 DEF OrderKept

(* No read of such a file fails. *)
LEMMA NextIsCode ==
    ASSUME Typed, AnnexB(file), AtNext, NEW f \in Frame
    PROVE  HasStartCode(Loaded(f))
<1>1. PICK r \in Nat \ {0} : \E n \in 0..(r - 1) : \E l \in Nat :
        r = Len(Round(file)) /\ n = nth /\ l = Len(output)
    BY RoundLength
<1>2. PICK n \in 0..(r - 1) : \E l \in Nat :
        r = Len(Round(file)) /\ n = nth /\ l = Len(output)
    BY <1>1
<1>3. PICK l \in Nat : r = Len(Round(file)) /\ n = nth /\ l = Len(output)
    BY <1>2
<1>4. PICK m \in 0..(r - 1) : m = (n + l) % r
    <2>1. n + l \in Nat
        OBVIOUS
    <2>2. (n + l) % r \in 0..(r - 1)
        BY <2>1, DivMod
    <2> QED BY <2>2
<1>5. PICK i \in 1..r : m = i - 1
    <2>1. m + 1 \in 1..r /\ m = (m + 1) - 1
        OBVIOUS
    <2> QED BY <2>1
<1>6. pos = Offset(Pieces(file), i - 1) /\ i \in 1..Len(Round(file))
    BY <1>3, <1>4, <1>5 DEF AtNext
<1>7. Gets(Loaded(f), Len(Bytes), i)
    BY <1>6, RoundRead
<1> QED BY <1>7 DEF Gets

LEMMA NextOrder == OrderInv /\ [Next]_vars => OrderInv'
<1> SUFFICES ASSUME OrderInv, [Next]_vars PROVE OrderInv'
    OBVIOUS
<1>1. Typed /\ PoolInv /\ OrderKept
    BY DEF OrderInv
<1>2. Typed' /\ PoolInv'
    BY <1>1, NextTyped, NextPool
<1>3. CASE ReadFails
    <2>1. PICK f \in Frame : ~HasStartCode(Loaded(f))
        BY <1>1, <1>3 DEF ReadFails, Typed, Pool
    <2>2. ~AnnexB(file)
        BY <1>1, <2>1, NextIsCode DEF OrderKept
    <2>3. file' = file
        BY <1>3 DEF ReadFails
    <2> QED BY <1>2, <2>2, <2>3 DEF OrderInv, OrderKept
<1>4. CASE ReadFrame
    <2>1. PICK f \in Frame : \E total \in 0..Len(Bytes) : \E code \in {3, 4} : ReadInto(f, total, code)
        BY <1>1, <1>4, ReadFrameIs
    <2>2. PICK total \in 0..Len(Bytes) : \E code \in {3, 4} : ReadInto(f, total, code)
        BY <2>1
    <2>3. PICK code \in {3, 4} : ReadInto(f, total, code)
        BY <2>2
    <2>4. file' = file /\ packets' = packets /\ nth' = nth
        BY <2>3 DEF ReadInto
    <2>5. ASSUME AnnexB(file) PROVE AtNext' /\ InOrder'
        BY <1>1, <2>3, <2>5, ReadOrder DEF OrderKept
    <2>6. Due(0)' = Due(0)
        BY <2>4 DEF Due
    <2>7. OrderKept'
        BY <1>1, <2>4, <2>5, <2>6 DEF OrderKept
    <2> QED BY <1>2, <2>7 DEF OrderInv
<1>5. CASE SendFrame
    <2>1. PICK f \in Frame : SendOf(f)
        BY <1>1, <1>5, SendFrameIs
    <2>2. file' = file
        BY <2>1 DEF SendOf
    <2>3. ASSUME AnnexB(file) PROVE AtNext' /\ InOrder' /\ Brings(packets', Due(0)')
        BY <1>1, <2>1, <2>3, SendOrder DEF OrderKept
    <2>4. OrderKept'
        BY <2>2, <2>3 DEF OrderKept
    <2> QED BY <1>2, <2>4 DEF OrderInv
<1>6. CASE Overrun
    <2>1. OrderKept'
        BY <1>1, <1>6, OrderStays DEF Overrun, pool
    <2> QED BY <1>2, <2>1 DEF OrderInv
<1>7. CASE UNCHANGED vars
    <2>1. OrderKept'
        BY <1>1, <1>7, OrderStays DEF vars, pool
    <2> QED BY <1>2, <2>1 DEF OrderInv
<1> QED BY <1>3, <1>4, <1>5, <1>6, <1>7 DEF Next, Source, Sink

LEMMA OrderInvariant == Spec => []OrderInv
BY InitOrder, NextOrder, PTL DEF Spec

(* getFrameFromH264File: what waits to be sent is the NAL units of the file in  *)
(* their order, round after round.                                             *)
THEOREM FileOrderKept == Spec => []InFileOrder
<1>1. OrderInv => InFileOrder
    <2> SUFFICES ASSUME OrderInv, AnnexB(file), NEW k \in 1..Len(output)
                 PROVE  Held(output[k]) = Due(k)
        BY DEF InFileOrder
    <2>1. Typed /\ InOrder
        BY DEF OrderInv, OrderKept
    <2>2. output[k] \in Frame /\ Holds(output[k], Due(k))
        BY <2>1 DEF Typed, Pool, InOrder
    <2> QED BY <2>1, <2>2, HoldsIsHeld
<1> QED BY <1>1, OrderInvariant, PTL

(* handleFrame: the packets that were sent bring the NAL that was due.         *)
THEOREM NalsArrive == Spec => []PacketsBringNal
<1>1. OrderInv => PacketsBringNal
    BY DEF OrderInv, OrderKept, PacketsBringNal
<1> QED BY <1>1, OrderInvariant, PTL

=============================================================================
