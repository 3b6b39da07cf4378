--------------------------- MODULE RtspInputProofs ---------------------------
(***************************************************************************)
(* DataBuffer is a queue of bytes: reading appends what was read to what is *)
(* unread, whether it fits, moves the block or grows it, and retrieving     *)
(* drops from the front.  It follows that the unread input of a connection  *)
(* is always the end of what was received (UnreadIsRecent), for any sizes    *)
(* of the block and of the spare buffer and for any cuts of the stream.      *)
(*                                                                         *)
(* What the pieces of one message look like (MessageLayout), and where each *)
(* message lies in the stream (StreamAt, StreamFind), gives the rest: what  *)
(* parseRequest finds in the unread input is a request that was sent.        *)
(***************************************************************************)
EXTENDS RtspInput, SequenceLemmas

-----------------------------------------------------------------------------
(* The buffer *)

Cell == Byte \cup {Junk}

LEMMA UnreadType ==
    ASSUME NEW b \in Buffer
    PROVE  /\ b.mem \in Seq(Cell) /\ b.r \in Nat /\ b.w \in Nat
           /\ b.r <= b.w /\ b.w <= Len(b.mem)
           /\ Unread(b) \in Seq(Cell) /\ Len(Unread(b)) = b.w - b.r
           /\ \A i \in 1..(b.w - b.r) : Unread(b)[i] = b.mem[b.r + i]
<1>1. b.mem \in Seq(Cell) /\ b.r \in Nat /\ b.w \in Nat /\ b.r <= b.w /\ b.w <= Len(b.mem)
    BY DEF Buffer, Cell
<1>2. SubSeq(b.mem, b.r + 1, b.w) \in Seq(Cell) /\ Len(SubSeq(b.mem, b.r + 1, b.w)) = b.w - b.r
    BY <1>1
<1>3. \A i \in 1..(b.w - b.r) : SubSeq(b.mem, b.r + 1, b.w)[i] = b.mem[b.r + i]
    BY <1>1, SMTT(30)
<1> QED BY <1>1, <1>2, <1>3 DEF Unread

LEMMA Indices ==
    ASSUME NEW b \in Buffer
    PROVE  b.r \in Nat /\ b.w \in Nat /\ Len(b.mem) \in Nat /\ b.r <= b.w /\ b.w <= Len(b.mem)
BY DEF Buffer

(* Two buffers with the same bytes between their indices have the same unread. *)
LEMMA SameUnread ==
    ASSUME NEW b \in Buffer, NEW v \in Seq(Cell), Len(v) = b.w - b.r,
           \A i \in 1..Len(v) : b.mem[b.r + i] = v[i]
    PROVE  Unread(b) = v
<1>1. Unread(b) \in Seq(Cell) /\ Len(Unread(b)) = Len(v)
    BY UnreadType
<1>2. \A i \in 1..Len(v) : Unread(b)[i] = v[i]
    BY UnreadType
<1> HIDE DEF Unread
<1> QED BY <1>1, <1>2

(* A record with a block and indices in order is a buffer. *)
LEMMA IsBuffer ==
    ASSUME NEW m, NEW r \in Nat, NEW w \in Nat, r <= w,
           NEW n \in Nat, w <= n, m \in [1..n -> Cell]
    PROVE  [mem |-> m, r |-> r, w |-> w] \in Buffer /\ Len(m) = n
<1>1. m \in Seq(Cell) /\ Len(m) = n
    OBVIOUS
<1> QED BY <1>1 DEF Buffer, Cell

(* Put: what fits is appended. *)
LEMMA PutAppends ==
    ASSUME NEW b \in Buffer, NEW data \in Seq(Byte), b.w + Len(data) <= Len(b.mem)
    PROVE  /\ Put(b, data) \in Buffer
           /\ Unread(Put(b, data)) = Unread(b) \o data
           /\ Put(b, data).w = b.w + Len(data)
           /\ Put(b, data).r = b.r
           /\ Len(Put(b, data).mem) = Len(b.mem)
<1> DEFINE m == [i \in 1..Len(b.mem) |->
                    IF i \in (b.w + 1)..(b.w + Len(data)) THEN data[i - b.w] ELSE b.mem[i]]
           p == [mem |-> m, r |-> b.r, w |-> b.w + Len(data)]
<1>1. Put(b, data) = p
    BY DEF Put
<1>2. m \in [1..Len(b.mem) -> Cell]
    <2>1. ASSUME NEW i \in 1..Len(b.mem)
          PROVE  (IF i \in (b.w + 1)..(b.w + Len(data)) THEN data[i - b.w] ELSE b.mem[i]) \in Cell
        <3>1. CASE i \in (b.w + 1)..(b.w + Len(data))
            <4>1. i - b.w \in 1..Len(data)
                BY <3>1, UnreadType
            <4> QED BY <3>1, <4>1 DEF Cell
        <3>2. CASE i \notin (b.w + 1)..(b.w + Len(data))
            BY <3>2, UnreadType
        <3> QED BY <3>1, <3>2
    <2> QED BY <2>1
<1>3. p \in Buffer /\ Len(m) = Len(b.mem)
    <2>1. /\ b.r \in Nat /\ b.w + Len(data) \in Nat /\ b.r <= b.w + Len(data)
          /\ Len(b.mem) \in Nat
        BY UnreadType
    <2> HIDE DEF m
    <2> QED BY <1>2, <2>1, IsBuffer
<1>4. Unread(p) = Unread(b) \o data
    <2> DEFINE u == Unread(b)
               v == u \o data
    <2>1. /\ u \in Seq(Cell) /\ data \in Seq(Cell)
          /\ Len(u) = b.w - b.r /\ Len(u) \in Nat /\ Len(data) \in Nat
          /\ \A i \in 1..Len(u) : u[i] = b.mem[b.r + i]
        BY UnreadType DEF Cell
    <2> HIDE DEF u
    <2>2. v \in Seq(Cell) /\ Len(v) = Len(u) + Len(data)
        BY <2>1
    <2>3. ASSUME NEW i \in 1..Len(v) PROVE m[b.r + i] = v[i]
        <3>1. b.r + i \in 1..Len(b.mem)
            BY <2>1, <2>2, Indices, SMTT(30)
        <3>2. CASE i <= Len(u)
            <4>1. b.r + i \notin (b.w + 1)..(b.w + Len(data))
                BY <2>1, <3>2, Indices
            <4>2. v[i] = u[i] /\ i \in 1..Len(u)
                BY <2>1, <2>2, <3>2
            <4> QED BY <2>1, <3>1, <4>1, <4>2
        <3>3. CASE i > Len(u)
            <4>1. b.r + i \in (b.w + 1)..(b.w + Len(data))
                BY <2>1, <2>2, <3>3, Indices, SMTT(30)
            <4>2. m[b.r + i] = data[(b.r + i) - b.w]
                BY <3>1, <4>1
            <4>3. v[i] = data[i - Len(u)]
                BY <2>1, <2>2, <3>3
            <4>4. (b.r + i) - b.w = i - Len(u)
                BY <2>1, Indices
            <4> HIDE DEF m, v
            <4> QED BY <4>2, <4>3, <4>4
        <3> QED BY <2>1, <3>2, <3>3
    <2>4. v \in Seq(Cell) /\ Len(v) = (b.w + Len(data)) - b.r
        BY <2>1, <2>2, UnreadType
    <2> HIDE DEF m, v
    <2>5. Unread(p) = v
        BY <1>3, <2>3, <2>4, SameUnread
    <2> QED BY <2>5 DEF u, v
<1> HIDE DEF m
<1> QED BY <1>1, <1>3, <1>4

(* makeSpace: the assertion of ensureWritableBytes holds, nothing unread changes. *)
LEMMA EnsureKeeps ==
    ASSUME NEW b \in Buffer, NEW len \in Nat
    PROVE  LET e == ensureWritableBytes(b, len)
           IN  e \in Buffer /\ Unread(e) = Unread(b) /\ e.w + len <= Len(e.mem)
<1>1. CASE writableDataSize(b) >= len
    <2>1. ensureWritableBytes(b, len) = b
        BY <1>1, UnreadType DEF ensureWritableBytes, writableDataSize
    <2> QED BY <1>1, <2>1, UnreadType DEF writableDataSize
<1>2. CASE writableDataSize(b) < len /\ writableDataSize(b) + b.r < len
    <2> DEFINE m == [i \in 1..(b.w + len) |-> IF i <= Len(b.mem) THEN b.mem[i] ELSE Junk]
               e == [mem |-> m, r |-> b.r, w |-> b.w]
    <2>1. ensureWritableBytes(b, len) = e
        BY <1>2 DEF ensureWritableBytes, makeSpace, Grown
    <2>2. m \in [1..(b.w + len) -> Cell]
        BY UnreadType DEF Cell
    <2>3. e \in Buffer /\ Len(m) = b.w + len
        <3>1. b.w + len \in Nat /\ b.w <= b.w + len
            BY UnreadType
        <3> HIDE DEF m
        <3> QED BY <2>2, <3>1, UnreadType, IsBuffer
    <2>4. ASSUME NEW i \in 1..Len(Unread(b)) PROVE m[b.r + i] = Unread(b)[i]
        <3>1. Len(Unread(b)) = b.w - b.r /\ Unread(b)[i] = b.mem[b.r + i]
            BY UnreadType
        <3>2. b.r + i \in 1..(b.w + len) /\ b.r + i <= Len(b.mem)
            BY <3>1, Indices, SMTT(30)
        <3> QED BY <3>1, <3>2
    <2> HIDE DEF m
    <2>5. Unread(e) = Unread(b)
        BY <2>3, <2>4, UnreadType, SameUnread
    <2> QED BY <2>1, <2>3, <2>5, UnreadType
<1>3. CASE writableDataSize(b) < len /\ writableDataSize(b) + b.r >= len
    <2> DEFINE n == b.w - b.r
               m == [i \in 1..Len(b.mem) |-> IF i <= n THEN b.mem[b.r + i] ELSE b.mem[i]]
               e == [mem |-> m, r |-> 0, w |-> n]
    <2>0. n \in Nat /\ n <= Len(b.mem) /\ Len(b.mem) \in Nat
        BY UnreadType
    <2>1. ensureWritableBytes(b, len) = e
        <3>1. ~(writableDataSize(b) + b.r < len)
            BY <1>3, UnreadType DEF writableDataSize
        <3> QED BY <1>3, <3>1 DEF ensureWritableBytes, makeSpace, Moved, readableDataSize
    <2>2. m \in [1..Len(b.mem) -> Cell]
        <3>1. ASSUME NEW i \in 1..Len(b.mem) PROVE (IF i <= n THEN b.mem[b.r + i] ELSE b.mem[i]) \in Cell
            <4>1. CASE i <= n
                <5>1. b.r + i \in 1..Len(b.mem)
                    BY <4>1, UnreadType
                <5> QED BY <4>1, <5>1, UnreadType
            <4>2. CASE ~(i <= n)
                BY <4>2, UnreadType
            <4> QED BY <4>1, <4>2
        <3> QED BY <3>1
    <2>3. e \in Buffer /\ Len(m) = Len(b.mem)
        <3> HIDE DEF m, n
        <3> QED BY <2>0, <2>2, IsBuffer
    <2>4. Len(Unread(b)) = n /\ \A i \in 1..n : m[0 + i] = Unread(b)[i]
        BY <2>0, UnreadType
    <2>5. Unread(e) = Unread(b)
        <3> HIDE DEF m, n
        <3> QED BY <2>0, <2>3, <2>4, UnreadType, SameUnread
    <2>6. n + len <= Len(b.mem)
        BY <1>3, UnreadType DEF writableDataSize
    <2> HIDE DEF m, n
    <2> QED BY <2>1, <2>3, <2>5, <2>6
<1>4. writableDataSize(b) \in Int /\ b.r \in Int
    BY UnreadType DEF writableDataSize
<1> QED BY <1>1, <1>2, <1>3, <1>4

LEMMA AppendAppends ==
    ASSUME NEW b \in Buffer, NEW data \in Seq(Byte)
    PROVE  append(b, data) \in Buffer /\ Unread(append(b, data)) = Unread(b) \o data
<1> DEFINE e == ensureWritableBytes(b, Len(data))
<1>1. Len(data) \in Nat
    OBVIOUS
<1>2. e \in Buffer /\ Unread(e) = Unread(b) /\ e.w + Len(data) <= Len(e.mem)
    BY <1>1, EnsureKeeps
<1> HIDE DEF e
<1>3. Put(e, data) \in Buffer /\ Unread(Put(e, data)) = Unread(e) \o data
    BY <1>2, PutAppends
<1> QED BY <1>2, <1>3 DEF append, e

(* DataBuffer::read appends what readv delivered to what is unread, for any  *)
(* state of the buffer and any length: the part in the spare buffer follows   *)
(* the part in the block.                                                     *)
THEOREM ReadAppends ==
    ASSUME NEW b \in Buffer, NEW data \in Seq(Byte)
    PROVE  read(b, data) \in Buffer /\ Unread(read(b, data)) = Unread(b) \o data
<1> DEFINE n == writableDataSize(b)
<1>1. n \in Nat /\ b.w + n = Len(b.mem)
    BY UnreadType DEF writableDataSize
<1>2. CASE Len(data) <= n
    <2>1. b.w + Len(data) <= Len(b.mem)
        BY <1>1, <1>2, UnreadType
    <2> QED BY <1>2, <2>1, PutAppends DEF read
<1>3. CASE Len(data) > n
    <2> DEFINE first == SubSeq(data, 1, n)
               spare == SubSeq(data, n + 1, Len(data))
               p     == Put(b, first)
    <2> HIDE DEF n
    <2>1. first \in Seq(Byte) /\ spare \in Seq(Byte) /\ Len(first) = n
        BY <1>1, <1>3
    <2>2. first \o spare = data
        <3> DEFINE l == first \o spare
        <3>1. Len(spare) = Len(data) - n
            BY <1>1, <1>3
        <3>2. \A i \in 1..n : first[i] = data[i]
            BY <1>1, <1>3
        <3>3. \A i \in (n + 1)..Len(data) : spare[i - n] = data[i]
            BY <1>1, <1>3
        <3> HIDE DEF first, spare
        <3>4. l \in Seq(Byte) /\ Len(l) = Len(data)
            BY <1>1, <2>1, <3>1
        <3>5. ASSUME NEW i \in 1..Len(data) PROVE l[i] = data[i]
            <4>1. CASE i <= n
                <5>1. i \in 1..Len(first) /\ l[i] = first[i]
                    BY <1>1, <2>1, <4>1
                <5> QED BY <2>1, <3>2, <5>1
            <4>2. CASE i > n
                <5>1. i - n \in 1..(Len(data) - n) /\ l[i] = spare[i - n]
                    BY <1>1, <2>1, <3>1, <4>2
                <5>2. spare[i - n] = data[i]
                    BY <1>1, <3>3, <4>2
                <5> HIDE DEF l
                <5> QED BY <5>1, <5>2
            <4>3. i <= n \/ i > n
                BY <1>1
            <4> HIDE DEF l
            <4> QED BY <4>1, <4>2, <4>3
        <3> HIDE DEF l
        <3>6. l = data
            BY <3>4, <3>5
        <3> QED BY <3>6 DEF l
    <2> HIDE DEF first, spare
    <2>3. p \in Buffer /\ Unread(p) = Unread(b) \o first
        <3>1. b.w + Len(first) <= Len(b.mem)
            BY <1>1, <2>1
        <3> QED BY <2>1, <3>1, PutAppends
    <2> HIDE DEF p
    <2>4. append(p, spare) \in Buffer /\ Unread(append(p, spare)) = Unread(p) \o spare
        BY <2>1, <2>3, AppendAppends
    <2>5. (Unread(b) \o first) \o spare = Unread(b) \o data
        <3>1. Unread(b) \in Seq(Cell) /\ first \in Seq(Cell) /\ spare \in Seq(Cell)
            BY <2>1, UnreadType DEF Cell
        <3>2. (Unread(b) \o first) \o spare = Unread(b) \o (first \o spare)
            <4> HIDE DEF Unread
            <4> QED BY <3>1
        <3> QED BY <3>2, <2>2
    <2>6. read(b, data) = append(p, spare)
        BY <1>1, <1>3 DEF read, p, first, spare, n
    <2> QED BY <2>3, <2>4, <2>5, <2>6
<1> QED BY <1>1, <1>2, <1>3

(* DataBuffer::retrieve drops that many bytes from the front, or all. *)
THEOREM RetrieveDrops ==
    ASSUME NEW b \in Buffer, NEW len \in Nat
    PROVE  LET c == retrieve(b, len)
               n == readableDataSize(b)
           IN  /\ c \in Buffer
               /\ Len(Unread(c)) = IF len < n THEN n - len ELSE 0
               /\ \A i \in 1..Len(Unread(c)) : Unread(c)[i] = Unread(b)[len + i]
<1> DEFINE n == readableDataSize(b)
<1>1. n = b.w - b.r /\ n \in Nat
    BY UnreadType DEF readableDataSize
<1>2. CASE len < n
    <2> DEFINE c == [mem |-> b.mem, r |-> b.r + len, w |-> b.w]
    <2>1. retrieve(b, len) = c
        BY <1>2 DEF retrieve
    <2>2. c \in Buffer
        BY <1>1, <1>2, UnreadType DEF Buffer, Cell
    <2> HIDE DEF n
    <2>3. Len(Unread(c)) = n - len
        <3>1. Len(Unread(c)) = b.w - (b.r + len)
            BY <2>2, UnreadType
        <3> QED BY <1>1, <3>1, Indices
    <2>4. ASSUME NEW i \in 1..(n - len) PROVE Unread(c)[i] = Unread(b)[len + i]
        <3>1. Unread(c)[i] = b.mem[(b.r + len) + i]
            <4>1. c.mem = b.mem /\ c.r = b.r + len /\ i \in 1..(c.w - c.r)
                BY <1>1, UnreadType
            <4> HIDE DEF c
            <4> QED BY <2>2, <4>1, UnreadType
        <3>2. Unread(b)[len + i] = b.mem[b.r + (len + i)]
            <4> DEFINE k == len + i
            <4>1. k \in 1..(b.w - b.r)
                BY <1>1
            <4> HIDE DEF k
            <4>2. Unread(b)[k] = b.mem[b.r + k]
                BY <4>1, UnreadType
            <4> QED BY <4>2 DEF k
        <3>3. (b.r + len) + i = b.r + (len + i)
            BY <1>1, UnreadType
        <3> QED BY <3>1, <3>2, <3>3
    <2> HIDE DEF c
    <2> QED BY <1>2, <2>1, <2>2, <2>3, <2>4 DEF n
<1>3. CASE ~(len < n)
    <2> DEFINE c == [mem |-> b.mem, r |-> 0, w |-> 0]
    <2>1. retrieve(b, len) = c
        BY <1>3 DEF retrieve, retrieveAll
    <2>2. c \in Buffer
        BY UnreadType DEF Buffer, Cell
    <2>3. Len(Unread(c)) = 0
        BY <2>2, UnreadType
    <2> HIDE DEF c, n
    <2> QED BY <1>3, <2>1, <2>2, <2>3 DEF n
<1> QED BY <1>2, <1>3

(* RetrieveDrops, by the length of what is unread. *)
LEMMA RetrieveLeaves ==
    ASSUME NEW b \in Buffer, NEW len \in Nat
    PROVE  /\ retrieve(b, len) \in Buffer
           /\ Len(Unread(retrieve(b, len))) =
                 IF len < Len(Unread(b)) THEN Len(Unread(b)) - len ELSE 0
<1>1. readableDataSize(b) = Len(Unread(b))
    BY UnreadType DEF readableDataSize
<1> HIDE DEF Unread
<1> QED BY <1>1, RetrieveDrops

-----------------------------------------------------------------------------
(* One message *)

FrameKinds == {"$", "channel", "high", "low", "data"}

(* What the piece of a message may be. *)
Kind == {"line", "cr", "lf", "cseq", "transport", "session"} \cup FrameKinds
PieceOf(k) == [kind : Kind, of : {k}]

(* b is a request whose field besides CSeq is f. *)
RequestWith(f, b) ==
    /\ Len(b) = Len(f) + 8
    /\ b[1].kind = "line" /\ b[2].kind = "cr" /\ b[3].kind = "lf" /\ b[4].kind = "cseq"
    /\ \A i \in 1..Len(f) : b[6 + i] = f[i]
    /\ b[Len(f) + 7].kind = "cr" /\ b[Len(f) + 8].kind = "lf"
    /\ \A i \in 2..Len(b) : b[i].kind # "line"

LEMMA RequestLayout ==
    ASSUME NEW k, NEW f \in Seq(PieceOf(k)), \A i \in 1..Len(f) : f[i].kind # "line"
    PROVE  LET b == Line("line", k) \o Line("cseq", k) \o f \o CRLF(k)
           IN  b \in Seq(PieceOf(k)) /\ RequestWith(f, b)
<1> DEFINE P == PieceOf(k)
           x == Line("line", k)
           y == Line("cseq", k)
           z == CRLF(k)
           xy == x \o y
           xyf == xy \o f
           b == xyf \o z
<1>1. /\ x \in Seq(P) /\ Len(x) = 3 /\ x[1].kind = "line" /\ x[2].kind = "cr" /\ x[3].kind = "lf"
      /\ y \in Seq(P) /\ Len(y) = 3 /\ y[1].kind = "cseq" /\ y[2].kind = "cr" /\ y[3].kind = "lf"
      /\ z \in Seq(P) /\ Len(z) = 2 /\ z[1].kind = "cr" /\ z[2].kind = "lf"
    <2>1. \A kind \in {"line", "cr", "lf", "cseq"} : Piece(kind, k) \in P /\ Piece(kind, k).kind = kind
        BY DEF Piece, PieceOf, Kind
    <2> HIDE DEF P
    <2> QED BY <2>1 DEF Line, CRLF
<1>2. f \in Seq(P) /\ Len(f) \in Nat
    OBVIOUS
<1> HIDE DEF P, x, y, z
<1>3. /\ xy \in Seq(P) /\ Joined(xy, x, y)
    BY <1>1, ConcatAt
<1> HIDE DEF xy
<1>4. xyf \in Seq(P) /\ Joined(xyf, xy, f)
    BY <1>2, <1>3, ConcatAt
<1> HIDE DEF xyf
<1>5. b \in Seq(P) /\ Joined(b, xyf, z)
    BY <1>1, <1>4, ConcatAt
<1> HIDE DEF b
<1>6. Len(xy) = 6 /\ \A i \in 1..3 : xy[i] = x[i] /\ xy[3 + i] = y[i]
    BY <1>1, <1>3 DEF Joined
<1>7. /\ Len(xyf) = 6 + Len(f)
      /\ \A i \in 1..6 : xyf[i] = xy[i]
      /\ \A i \in 1..Len(f) : xyf[6 + i] = f[i]
    BY <1>4, <1>6 DEF Joined
<1>8. /\ Len(b) = 8 + Len(f)
      /\ \A i \in 1..(6 + Len(f)) : b[i] = xyf[i]
      /\ b[(6 + Len(f)) + 1] = z[1] /\ b[(6 + Len(f)) + 2] = z[2]
    BY <1>1, <1>5, <1>7 DEF Joined
<1>9. /\ b[1] = x[1] /\ b[2] = x[2] /\ b[3] = x[3]
      /\ b[4] = y[1] /\ b[5] = y[2] /\ b[6] = y[3]
      /\ \A i \in 1..Len(f) : b[6 + i] = f[i]
    <2>1. \A i \in 1..6 : b[i] = xy[i]
        BY <1>2, <1>7, <1>8
    <2>2. xy[4] = y[1] /\ xy[5] = y[2] /\ xy[6] = y[3]
        <3>1. xy[3 + 1] = y[1] /\ xy[3 + 2] = y[2] /\ xy[3 + 3] = y[3]
            BY <1>6
        <3> QED BY <3>1
    <2>3. \A i \in 1..Len(f) : b[6 + i] = f[i]
        BY <1>2, <1>7, <1>8
    <2> QED BY <1>6, <2>1, <2>2, <2>3
<1>10. b[Len(f) + 7] = z[1] /\ b[Len(f) + 8] = z[2]
    <2>1. (6 + Len(f)) + 1 = Len(f) + 7 /\ (6 + Len(f)) + 2 = Len(f) + 8
        BY <1>2
    <2> QED BY <1>8, <2>1
<1>11. ASSUME NEW i \in 2..Len(b) PROVE b[i].kind # "line"
    <2>1. CASE i \in 2..6
        <3>1. i = 2 \/ i = 3 \/ i = 4 \/ i = 5 \/ i = 6
            BY <2>1
        <3> QED BY <3>1, <1>1, <1>9
    <2>2. CASE i \in 7..(6 + Len(f))
        <3>1. i - 6 \in 1..Len(f) /\ 6 + (i - 6) = i
            BY <1>2, <2>2
        <3>2. b[i] = f[i - 6]
            BY <3>1, <1>9
        <3> QED BY <3>1, <3>2
    <2>3. CASE i = Len(f) + 7 \/ i = Len(f) + 8
        BY <1>1, <1>10, <2>3
    <2> QED BY <1>2, <1>8, <2>1, <2>2, <2>3
<1>12. Len(b) = Len(f) + 8
    BY <1>2, <1>8
<1>13. RequestWith(f, b)
    BY <1>1, <1>9, <1>10, <1>11, <1>12 DEF RequestWith
<1> QED BY <1>5, <1>13 DEF b, xyf, xy, x, y, z, P

(* What the bytes b of the message m look like. *)
IsFrame(m, b) ==
    /\ Len(b) = m.size + 4 /\ b[1].kind = "$"
    /\ \A i \in 1..Len(b) : b[i].kind \in FrameKinds

IsRequest(m, b) ==
    /\ Len(b) \in Nat /\ Len(b) >= 8
    /\ b[1].kind = "line" /\ b[2].kind = "cr" /\ b[3].kind = "lf" /\ b[4].kind = "cseq"
    /\ b[Len(b) - 1].kind = "cr" /\ b[Len(b)].kind = "lf"
    /\ \A i \in 2..Len(b) : b[i].kind # "line"
    /\ m.method = "SETUP" => Len(b) >= 11 /\ b[7].kind = "transport"
    /\ m.method = "PLAY" => Len(b) >= 11 /\ b[7].kind = "session"

LEMMA MessageLayout ==
    ASSUME NEW m \in Message, NEW k
    PROVE  /\ MessageBytes(m, k) \in Seq(PieceOf(k))
           /\ IF m.method = "frame" THEN IsFrame(m, MessageBytes(m, k))
              ELSE IsRequest(m, MessageBytes(m, k))
<1> DEFINE P == PieceOf(k)
           b == MessageBytes(m, k)
<1>1. CASE m.method = "frame"
    <2> DEFINE h == <<Piece("$", k), Piece("channel", k), Piece("high", k), Piece("low", k)>>
               d == [i \in 1..m.size |-> Piece("data", k)]
    <2>1. \A kind \in FrameKinds : Piece(kind, k) \in P /\ Piece(kind, k).kind = kind
        BY DEF Piece, PieceOf, Kind
    <2>2. m.size \in Nat
        BY DEF Message
    <2> HIDE DEF P
    <2>3. /\ h \in Seq(P) /\ Len(h) = 4 /\ h[1].kind = "$"
          /\ \A i \in 1..4 : h[i].kind \in FrameKinds
        <3>1. h \in Seq(P) /\ Len(h) = 4 /\ h[1] = Piece("$", k)
              /\ h[2] = Piece("channel", k) /\ h[3] = Piece("high", k) /\ h[4] = Piece("low", k)
            BY <2>1 DEF FrameKinds
        <3> HIDE DEF h
        <3>2. ASSUME NEW i \in 1..4 PROVE h[i].kind \in FrameKinds
            <4>1. i = 1 \/ i = 2 \/ i = 3 \/ i = 4
                OBVIOUS
            <4> QED BY <2>1, <3>1, <4>1 DEF FrameKinds
        <3>3. h[1].kind = "$"
            BY <2>1, <3>1 DEF FrameKinds
        <3> QED BY <3>1, <3>2, <3>3
    <2>4. /\ d \in Seq(P) /\ Len(d) = m.size
          /\ \A i \in 1..m.size : d[i].kind \in FrameKinds
        <3>1. Piece("data", k) \in P /\ Piece("data", k).kind \in FrameKinds
            BY <2>1 DEF FrameKinds
        <3> QED BY <2>2, <3>1
    <2>5. b = h \o d
        BY <1>1 DEF MessageBytes
    <2> HIDE DEF h, d, b
    <2>6. b \in Seq(P) /\ Joined(b, h, d)
        BY <2>3, <2>4, <2>5, ConcatAt
    <2>7. Len(b) = m.size + 4 /\ b[1] = h[1]
        BY <2>2, <2>3, <2>4, <2>6 DEF Joined
    <2>8. ASSUME NEW i \in 1..Len(b) PROVE b[i].kind \in FrameKinds
        <3>1. CASE i <= 4
            <4>1. b[i] = h[i] /\ i \in 1..4
                BY <2>3, <2>6, <3>1 DEF Joined
            <4> QED BY <2>3, <4>1
        <3>2. CASE i > 4
            <4>1. i - 4 \in 1..m.size /\ 4 + (i - 4) = i
                BY <2>2, <2>7, <3>2
            <4>2. b[4 + (i - 4)] = d[i - 4]
                BY <2>3, <2>4, <2>6, <4>1 DEF Joined
            <4> QED BY <2>4, <4>1, <4>2
        <3> QED BY <2>7, <3>1, <3>2
    <2> QED BY <1>1, <2>3, <2>6, <2>7, <2>8 DEF IsFrame, b, P
<1>2. CASE m.method # "frame"
    <2> DEFINE f == Field(m.method, k)
    <2>1. b = Line("line", k) \o Line("cseq", k) \o f \o CRLF(k)
        BY <1>2 DEF MessageBytes
    <2>2. \A kind \in Kind : Piece(kind, k) \in P /\ Piece(kind, k).kind = kind
        BY DEF Piece, PieceOf
    <2> HIDE DEF P
    <2>3. /\ f \in Seq(P) /\ Len(f) \in Nat /\ \A i \in 1..Len(f) : f[i].kind # "line"
          /\ m.method = "SETUP" => Len(f) = 3 /\ f[1].kind = "transport"
          /\ m.method = "PLAY" => Len(f) = 3 /\ f[1].kind = "session"
        <3>1. ASSUME NEW kind \in {"transport", "session"}, f = Line(kind, k)
              PROVE  /\ f \in Seq(P) /\ Len(f) = 3 /\ f[1].kind = kind
                     /\ \A i \in 1..3 : f[i].kind # "line"
            <4>1. f \in Seq(P) /\ Len(f) = 3 /\ f[1] = Piece(kind, k)
                  /\ f[2] = Piece("cr", k) /\ f[3] = Piece("lf", k)
                BY <2>2, <3>1 DEF Line, Kind
            <4>2. f[1].kind = kind /\ f[2].kind = "cr" /\ f[3].kind = "lf"
                BY <2>2, <4>1 DEF Kind
            <4> HIDE DEF f
            <4>3. \A i \in 1..3 : i = 1 \/ i = 2 \/ i = 3
                OBVIOUS
            <4> QED BY <4>1, <4>2, <4>3
        <3>2. CASE m.method \in {"SETUP", "PLAY"}
            <4>1. /\ m.method = "SETUP" => f = Line("transport", k)
                  /\ m.method = "PLAY" => f = Line("session", k)
                BY DEF Field
            <4> HIDE DEF f
            <4> QED BY <3>1, <3>2, <4>1
        <3>3. CASE m.method \notin {"SETUP", "PLAY"}
            <4>1. f = <<>>
                BY <3>3 DEF Field
            <4> HIDE DEF f
            <4> QED BY <3>3, <4>1
        <3> QED BY <3>2, <3>3
    <2> HIDE DEF f, b
    <2>4. b \in Seq(P) /\ RequestWith(f, b)
        BY <2>1, <2>3, RequestLayout DEF P
    <2> USE DEF RequestWith
    <2>5. Len(b) - 1 = Len(f) + 7 /\ Len(b) \in Nat /\ Len(b) >= 8
        BY <2>3, <2>4
    <2>6. Len(f) = 3 => b[7] = f[1]
        <3>1. Len(f) = 3 => 1 \in 1..Len(f) /\ 6 + 1 = 7
            OBVIOUS
        <3> QED BY <2>4, <3>1
    <2>7. Len(f) = 3 => Len(b) >= 11
        BY <2>4
    <2>8. IsRequest(m, b)
        BY <2>3, <2>4, <2>5, <2>6, <2>7 DEF IsRequest
    <2> QED BY <1>2, <2>4, <2>8 DEF b, P
<1> QED BY <1>1, <1>2

-----------------------------------------------------------------------------
(* The messages of a stream, each as its bytes, and where each ends. *)
Pieces(s)    == [k \in 1..Len(s) |-> MessageBytes(s[k], k)]
Border(s, n) == Offset(Pieces(s), n)

LEMMA StreamLayout ==
    ASSUME NEW s \in Streams
    PROVE  /\ s \in Seq(Message) /\ Len(s) \in Nat
           /\ Bytes(s) \in Seq(Byte) /\ Bytes(s) = FlattenSeq(Pieces(s))
           /\ Pieces(s) \in Seq(Seq(Byte)) /\ Len(Pieces(s)) = Len(s)
           /\ Border(s, 0) = 0 /\ Border(s, Len(s)) = Len(Bytes(s))
           /\ \A n \in 0..Len(s) : Border(s, n) \in Nat /\ Len(BytesUpTo(s, n)) = Border(s, n)
           /\ \A n \in 0..(Len(s) - 1) :
                Border(s, n + 1) = Border(s, n) + Len(MessageBytes(s[n + 1], n + 1))
<1> DEFINE p == Pieces(s)
<1>1. s \in Seq(Message) /\ Len(s) \in Nat
    BY StreamsAssumption
<1>2. p \in Seq(Seq(Byte)) /\ Len(p) = Len(s)
    BY <1>1, StreamsAssumption DEF Pieces
<1>3. \A k \in 1..Len(s) : p[k] = MessageBytes(s[k], k)
    BY DEF Pieces
<1>4. ASSUME NEW n \in 0..Len(s) PROVE BytesUpTo(s, n) = FlattenSeq(Upto(p, n))
    <2> DEFINE u == Upto(p, n)
               t == [k \in 1..n |-> MessageBytes(s[k], k)]
    <2>1. u \in Seq(Seq(Byte)) /\ Len(u) = n /\ \A k \in 1..n : u[k] = p[k]
        BY <1>1, <1>2 DEF Upto
    <2>2. t \in Seq(Seq(Byte)) /\ Len(t) = n /\ \A k \in 1..n : t[k] = MessageBytes(s[k], k)
        BY <1>1, StreamsAssumption
    <2> HIDE DEF u, t, p
    <2>3. \A k \in 1..n : u[k] = t[k]
        <3>1. \A k \in 1..n : k \in 1..Len(s)
            BY <1>1
        <3> QED BY <1>3, <2>1, <2>2, <3>1
    <2>4. u = t
        BY <2>1, <2>2, <2>3
    <2> QED BY <2>4 DEF u, t, p, BytesUpTo
<1>5. Bytes(s) = FlattenSeq(p)
    <2>1. Len(s) \in 0..Len(s) /\ Upto(p, Len(s)) = p
        BY <1>1, <1>2, UptoAll
    <2> QED BY <1>4, <2>1 DEF Bytes
<1> HIDE DEF p
<1>6. /\ FlattenSeq(p) \in Seq(Byte) /\ Offset(p, Len(s)) = Len(FlattenSeq(p))
      /\ Offset(p, 0) = 0
      /\ \A n \in 0..Len(s) : Offset(p, n) \in Nat
      /\ \A n \in 0..(Len(s) - 1) : Offset(p, n + 1) = Offset(p, n) + Len(p[n + 1])
    BY <1>2, OffsetNext
<1>7. \A n \in 0..(Len(s) - 1) : p[n + 1] = MessageBytes(s[n + 1], n + 1)
    <2>1. \A n \in 0..(Len(s) - 1) : n + 1 \in 1..Len(s)
        BY <1>1
    <2> QED BY <1>3, <2>1
<1>8. \A n \in 0..Len(s) : Len(BytesUpTo(s, n)) = Offset(p, n)
    BY <1>4 DEF Offset
<1> QED BY <1>1, <1>2, <1>5, <1>6, <1>7, <1>8 DEF Border, p

(* The j-th byte of the k-th message. *)
LEMMA StreamAt ==
    ASSUME NEW s \in Streams, NEW k \in 1..Len(s), NEW j \in 1..Len(MessageBytes(s[k], k))
    PROVE  /\ Border(s, k - 1) + j \in 1..Border(s, k)
           /\ Border(s, k - 1) + j \in 1..Len(Bytes(s))
           /\ Bytes(s)[Border(s, k - 1) + j] = MessageBytes(s[k], k)[j]
<1> DEFINE p == Pieces(s)
<1>1. p \in Seq(Seq(Byte)) /\ Len(p) = Len(s) /\ Bytes(s) = FlattenSeq(p)
    BY StreamLayout
<1>2. p[k] = MessageBytes(s[k], k)
    BY DEF Pieces
<1> HIDE DEF p
<1>3. k \in 1..Len(p) /\ j \in 1..Len(p[k])
    BY <1>1, <1>2
<1>4. /\ Offset(p, k - 1) + j \in 1..Offset(p, k)
      /\ Offset(p, k - 1) + j \in 1..Len(FlattenSeq(p))
      /\ FlattenSeq(p)[Offset(p, k - 1) + j] = p[k][j]
    BY <1>1, <1>3, FlattenAt
<1> QED BY <1>1, <1>2, <1>4 DEF Border, p

(* A byte knows the message it belongs to, and so its place in the message. *)
LEMMA StreamFind ==
    ASSUME NEW s \in Streams, NEW i \in 1..Len(Bytes(s))
    PROVE  \E k \in 1..Len(s) : \E j \in 1..Len(MessageBytes(s[k], k)) :
              /\ i = Border(s, k - 1) + j
              /\ Bytes(s)[i] = MessageBytes(s[k], k)[j]
              /\ Bytes(s)[i].of = k
<1> DEFINE p == Pieces(s)
<1>1. p \in Seq(Seq(Byte)) /\ Len(p) = Len(s) /\ Bytes(s) = FlattenSeq(p) /\ s \in Seq(Message)
    BY StreamLayout
<1>2. \A k \in 1..Len(s) : p[k] = MessageBytes(s[k], k)
    BY DEF Pieces
<1> HIDE DEF p
<1>3. i \in 1..Len(FlattenSeq(p))
    BY <1>1
<1>4. PICK k \in 1..Len(p) : \E j \in 1..Len(p[k]) : i = Offset(p, k - 1) + j
    BY <1>1, <1>3, FlattenFind
<1>5. PICK j \in 1..Len(p[k]) : i = Offset(p, k - 1) + j
    BY <1>4
<1>6. k \in 1..Len(s) /\ j \in 1..Len(MessageBytes(s[k], k)) /\ i = Border(s, k - 1) + j
    BY <1>1, <1>2, <1>5 DEF Border, p
<1>7. Bytes(s)[i] = MessageBytes(s[k], k)[j]
    BY <1>6, StreamAt
<1>8. MessageBytes(s[k], k)[j].of = k
    <2>1. s[k] \in Message
        BY <1>1, <1>6
    <2>2. MessageBytes(s[k], k) \in Seq(PieceOf(k))
        BY <2>1, MessageLayout
    <2>3. MessageBytes(s[k], k)[j] \in PieceOf(k)
        BY <1>6, <2>2
    <2> QED BY <2>3 DEF PieceOf
<1> QED BY <1>6, <1>7, <1>8

LEMMA StreamBytes ==
    ASSUME NEW s \in Streams
    PROVE  /\ s \in Seq(Message) /\ Bytes(s) \in Seq(Byte)
           /\ \A i \in 1..Len(Bytes(s)) : Bytes(s)[i].of \in 1..Len(s)
<1>1. \A i \in 1..Len(Bytes(s)) : Bytes(s)[i].of \in 1..Len(s)
    BY StreamFind
<1> QED BY <1>1, StreamLayout

(* Borders go up: no message is empty. *)
LEMMA BorderLess ==
    ASSUME NEW s \in Streams, NEW j \in 0..Len(s), NEW k \in 0..Len(s), j < k
    PROVE  Border(s, j) < Border(s, k)
<1> DEFINE T == {n \in (j + 1)..Len(s) : Border(s, j) < Border(s, n)}
<1>1. /\ s \in Seq(Message) /\ Len(s) \in Nat
      /\ \A n \in 0..Len(s) : Border(s, n) \in Nat
      /\ \A n \in 0..(Len(s) - 1) :
            Border(s, n + 1) = Border(s, n) + Len(MessageBytes(s[n + 1], n + 1))
    BY StreamLayout
<1>2. ASSUME NEW n \in 0..(Len(s) - 1) PROVE Border(s, n) < Border(s, n + 1)
    <2> DEFINE m == s[n + 1]
               b == MessageBytes(m, n + 1)
    <2>1. m \in Message /\ n \in 0..Len(s)
        BY <1>1
    <2> HIDE DEF m
    <2>2. /\ b \in Seq(PieceOf(n + 1))
          /\ IF m.method = "frame" THEN IsFrame(m, b) ELSE IsRequest(m, b)
        BY <2>1, MessageLayout
    <2> HIDE DEF b
    <2>3. Len(b) \in Nat /\ Len(b) >= 4
        BY <2>1, <2>2 DEF IsFrame, IsRequest, Message
    <2>4. Border(s, n + 1) = Border(s, n) + Len(b)
        BY <1>1 DEF b, m
    <2> QED BY <1>1, <2>1, <2>3, <2>4
<1>3. j \in 0..(Len(s) - 1) /\ j + 1 \in Nat /\ j + 1 <= k
    BY <1>1
<1>4. j + 1 \in T
    BY <1>1, <1>2, <1>3
<1>5. ASSUME NEW n \in (j + 1)..(Len(s) - 1), n \in T PROVE n + 1 \in T
    <2>1. n \in 0..(Len(s) - 1) /\ n + 1 \in (j + 1)..Len(s) /\ n \in 0..Len(s) /\ n + 1 \in 0..Len(s)
        BY <1>1
    <2>2. Border(s, j) < Border(s, n) /\ Border(s, n) < Border(s, n + 1)
        BY <1>2, <1>5, <2>1
    <2>3. Border(s, j) < Border(s, n + 1)
        BY <1>1, <2>1, <2>2
    <2> QED BY <2>1, <2>3
<1> HIDE DEF T
<1>6. \A n \in (j + 1)..Len(s) : n \in T
    BY <1>1, <1>3, <1>4, <1>5, Induction
<1>7. k \in T
    BY <1>1, <1>3, <1>6
<1> QED BY <1>7 DEF T

-----------------------------------------------------------------------------
(* The connection *)

(* v is what comes before place p of s. *)
Recent(s, v, p) ==
    Len(v) <= p /\ \A i \in 1..Len(v) : v[i] = s[(p - Len(v)) + i]

LEMMA RecentRead ==
    ASSUME NEW s \in Seq(Byte), NEW v \in Seq(Cell), NEW p \in Nat, NEW n \in Nat,
           p + n <= Len(s), Recent(s, v, p)
    PROVE  Recent(s, v \o SubSeq(s, p + 1, p + n), p + n)
<1> DEFINE d == SubSeq(s, p + 1, p + n)
           u == v \o d
<1>1. d \in Seq(Cell) /\ Len(d) = n /\ \A i \in 1..n : d[i] = s[p + i]
    BY DEF Cell
<1> HIDE DEF d
<1>2. Len(v) \in Nat /\ Len(u) = Len(v) + n
    <2>1. Len(v) \in Nat /\ Len(d) = n
        BY <1>1
    <2>2. Len(v \o d) = Len(v) + Len(d)
        BY <1>1
    <2> QED BY <2>1, <2>2
<1>3. ASSUME NEW i \in 1..Len(u) PROVE u[i] = s[((p + n) - Len(u)) + i]
    <2>1. ((p + n) - Len(u)) + i = (p - Len(v)) + i
        BY <1>2
    <2>2. CASE i <= Len(v)
        <3>1. u[i] = v[i] /\ i \in 1..Len(v)
            BY <1>1, <1>2, <2>2
        <3> QED BY <2>1, <3>1 DEF Recent
    <2>3. CASE i > Len(v)
        <3>1. u[i] = d[i - Len(v)] /\ i - Len(v) \in 1..n
            BY <1>1, <1>2, <2>3
        <3>2. u[i] = s[p + (i - Len(v))]
            BY <1>1, <3>1
        <3>3. p + (i - Len(v)) = (p - Len(v)) + i
            BY <1>2
        <3> HIDE DEF u
        <3> QED BY <2>1, <3>2, <3>3
    <2>4. i <= Len(v) \/ i > Len(v)
        BY <1>2
    <2> HIDE DEF u
    <2> QED BY <2>2, <2>3, <2>4
<1> HIDE DEF u
<1>4. Len(u) <= p + n
    BY <1>2 DEF Recent
<1>5. Recent(s, u, p + n)
    BY <1>3, <1>4 DEF Recent
<1> QED BY <1>5 DEF u, d

LEMMA RecentRetrieve ==
    ASSUME NEW s, NEW b \in Buffer, NEW p \in Nat, NEW len \in Nat, Recent(s, Unread(b), p)
    PROVE  retrieve(b, len) \in Buffer /\ Recent(s, Unread(retrieve(b, len)), p)
<1> DEFINE c == retrieve(b, len)
           v == Unread(b)
           u == Unread(c)
<1>1. Len(v) \in Nat /\ Len(v) = readableDataSize(b)
    BY UnreadType DEF readableDataSize
<1>2. /\ c \in Buffer
      /\ Len(u) = IF len < Len(v) THEN Len(v) - len ELSE 0
      /\ \A i \in 1..Len(u) : u[i] = v[len + i]
    BY <1>1, RetrieveDrops
<1>3. Len(v) <= p /\ \A i \in 1..Len(v) : v[i] = s[(p - Len(v)) + i]
    BY DEF Recent
<1> HIDE DEF u, v, c
<1>4. Len(u) <= p
    BY <1>1, <1>2, <1>3
<1>5. ASSUME NEW i \in 1..Len(u) PROVE u[i] = s[(p - Len(u)) + i]
    <2>1. len < Len(v) /\ Len(u) = Len(v) - len
        BY <1>1, <1>2
    <2>2. len + i \in 1..Len(v)
        BY <1>1, <2>1
    <2>3. u[i] = s[(p - Len(v)) + (len + i)]
        BY <1>2, <1>3, <2>2
    <2>4. (p - Len(v)) + (len + i) = (p - Len(u)) + i
        BY <1>1, <2>1
    <2> QED BY <2>3, <2>4
<1>6. Recent(s, u, p)
    BY <1>4, <1>5 DEF Recent
<1> QED BY <1>2, <1>6 DEF u, c

(* Where there is a CRLF, a first one and a last one are found. *)
LEMMA CRLFPlaces ==
    ASSUME NEW S, NEW v \in Seq(S), CRLFs(v) # {}
    PROVE  /\ FirstCRLF(v) \in CRLFs(v) /\ \A j \in CRLFs(v) : FirstCRLF(v) <= j
           /\ LastCRLF(v) \in CRLFs(v) /\ \A j \in CRLFs(v) : LastCRLF(v) >= j
<1> DEFINE T == CRLFs(v)
<1>1. Len(v) \in Nat /\ T \in SUBSET (0..Len(v)) /\ T \in SUBSET Nat
    BY DEF CRLFs
<1> HIDE DEF T
<1>2. T # {}
    BY DEF T
<1>3. \E m \in T : \A k \in T : m <= k
    BY <1>1, <1>2, MinExists
<1>4. \E m \in T : \A k \in T : m >= k
    BY <1>1, <1>2, MaxExists
<1>5. FirstCRLF(v) \in T /\ \A j \in T : FirstCRLF(v) <= j
    BY <1>3 DEF FirstCRLF, T
<1>6. LastCRLF(v) \in T /\ \A j \in T : LastCRLF(v) >= j
    BY <1>4 DEF LastCRLF, T
<1> QED BY <1>5, <1>6 DEF T

LEMMA PlacesAreNumbers ==
    ASSUME NEW S, NEW v \in Seq(S), CRLFs(v) # {}
    PROVE  FirstCRLF(v) \in Nat /\ LastCRLF(v) \in Nat
<1>1. CRLFs(v) \subseteq Nat
    BY DEF CRLFs
<1> QED BY <1>1, CRLFPlaces

InputInv ==
    /\ stream \in Streams
    /\ received \in 0..Len(Bytes(stream))
    /\ buf \in Buffer
    /\ Recent(Bytes(stream), Unread(buf), received)

LEMMA InitInput == Init => InputInv
<1> SUFFICES ASSUME Init PROVE InputInv
    OBVIOUS
<1>1. stream \in Streams /\ Bytes(stream) \in Seq(Byte) /\ received = 0
    BY StreamBytes DEF Init
<1>2. buf \in Buffer
    <2>1. [i \in 1..InitialSize |-> Junk] \in [1..InitialSize -> Cell]
        BY DEF Cell
    <2> QED BY <2>1, BufferAssumption, IsBuffer DEF Init, EmptyBuffer, BufferAssumption
<1>3. buf.r = 0 /\ buf.w = 0
    BY DEF Init, EmptyBuffer
<1>4. Len(Unread(buf)) = 0
    BY <1>2, <1>3, UnreadType
<1>5. Recent(Bytes(stream), Unread(buf), received)
    <2> HIDE DEF Unread, Bytes
    <2> QED BY <1>1, <1>4 DEF Recent
<1>6. received \in 0..Len(Bytes(stream))
    <2> HIDE DEF Bytes
    <2> QED BY <1>1
<1> QED BY <1>1, <1>2, <1>5, <1>6 DEF InputInv

(* What handleReadBytes does to the buffer b, of which v is unread at place p. *)
LEMMA HandledRecent ==
    ASSUME InputInv, NEW b \in Buffer, NEW p \in 0..Len(Bytes(stream)),
           Recent(Bytes(stream), Unread(b), p),
           handleRtpOverTcp(b) \/ ParseFails(b) \/ HandleRequest(b)
    PROVE  buf' \in Buffer /\ Recent(Bytes(stream), Unread(buf'), p)
<1> DEFINE s == Bytes(stream)
           v == Unread(b)
<1>1. stream \in Streams /\ s \in Seq(Byte) /\ p \in Nat
    BY StreamBytes DEF InputInv
<1>2. v \in Seq(Cell) /\ Len(v) = readableDataSize(b)
    BY UnreadType DEF readableDataSize
<1>3. CASE handleRtpOverTcp(b)
    <2>1. CASE buf' = b
        BY <2>1
    <2>2. CASE readableDataSize(b) >= 4 /\ buf' = retrieve(b, FrameSize(v))
        <3>1. v[4] = s[(p - Len(v)) + 4] /\ (p - Len(v)) + 4 \in 1..Len(s)
            <4> HIDE DEF s, v
            <4> QED BY <1>1, <1>2, <2>2 DEF Recent, s, v
        <3>2. v[4].of \in 1..Len(stream)
            BY <1>1, <3>1, StreamBytes
        <3>3. stream \in Seq(Message)
            BY <1>1, StreamBytes
        <3>4. FrameSize(v) \in Nat
            <4>1. stream[v[4].of] \in Message
                BY <3>2, <3>3
            <4> QED BY <4>1 DEF FrameSize, Message
        <3> HIDE DEF v, s
        <3> QED BY <1>1, <2>2, <3>4, RecentRetrieve DEF s
    <2> QED BY <1>3, <2>1, <2>2 DEF handleRtpOverTcp
<1>4. CASE ParseFails(b)
    <2>1. buf' = [mem |-> b.mem, r |-> 0, w |-> 0]
        BY <1>4 DEF ParseFails, retrieveAll
    <2>2. buf' \in Buffer
        BY <2>1, UnreadType DEF Buffer, Cell
    <2>3. Len(Unread(buf')) = 0
        BY <2>1, <2>2, UnreadType
    <2> HIDE DEF Unread
    <2> QED BY <1>1, <2>2, <2>3 DEF Recent
<1>5. CASE HandleRequest(b)
    <2> DEFINE rest == retrieve(b, FirstCRLF(v) + 1)
               a    == AfterLine(v)
    <2>1. CRLFs(v) # {} /\ CRLFs(a) # {} /\ buf' = retrieve(rest, LastCRLF(a) + 1)
        BY <1>5 DEF HandleRequest, LineParsed, HeadersParsed
    <2> HIDE DEF v
    <2>2. FirstCRLF(v) \in Nat
        BY <1>2, <2>1, PlacesAreNumbers
    <2>3. a \in Seq(Cell)
        <3>1. FirstCRLF(v) + 2 \in 1..(Len(v) + FirstCRLF(v) + 2) /\ Len(v) \in Nat
            BY <1>2, <2>2
        <3> QED BY <1>2, <2>2, <3>1 DEF AfterLine
    <2> HIDE DEF a
    <2>4. LastCRLF(a) \in Nat
        BY <2>1, <2>3, PlacesAreNumbers
    <2>5. rest \in Buffer /\ Recent(s, Unread(rest), p)
        BY <1>1, <2>2, RecentRetrieve
    <2> HIDE DEF rest, s
    <2> QED BY <1>1, <2>1, <2>4, <2>5, RecentRetrieve DEF s
<1> QED BY <1>3, <1>4, <1>5

(* A read: the buffer b that handleReadBytes is given. *)
LEMMA ReadGives ==
    ASSUME InputInv, NEW n \in 1..(Len(Bytes(stream)) - received), handleRead(n)
    PROVE  \E b \in Buffer :
              /\ b = read(buf, SubSeq(Bytes(stream), received + 1, received + n))
              /\ received + n \in 0..Len(Bytes(stream))
              /\ Unread(b) = Unread(buf) \o SubSeq(Bytes(stream), received + 1, received + n)
              /\ Unread(b) \in Seq(Cell)
              /\ Len(Unread(b)) = Len(Unread(buf)) + n
              /\ Recent(Bytes(stream), Unread(b), received + n)
              /\ handleRtpOverTcp(b) \/ ParseFails(b) \/ HandleRequest(b)
              /\ stream' = stream /\ received' = received + n
<1> DEFINE s == Bytes(stream)
           data == SubSeq(s, received + 1, received + n)
           b    == read(buf, data)
<1>1. stream \in Streams /\ s \in Seq(Byte) /\ received \in Nat /\ Len(s) \in Nat
    BY StreamBytes DEF InputInv
<1>3. /\ stream' = stream /\ received' = received + n
      /\ handleRtpOverTcp(b) \/ ParseFails(b) \/ HandleRequest(b)
    BY DEF handleRead
<1> HIDE DEF s
<1>4. n \in Nat /\ received + n \in 0..Len(s) /\ received + n <= Len(s)
    BY <1>1 DEF s
<1>5. data \in Seq(Byte) /\ Len(data) = n
    BY <1>1, <1>4
<1>6. buf \in Buffer /\ Recent(s, Unread(buf), received)
    BY DEF InputInv, s
<1>7. b \in Buffer /\ Unread(b) = Unread(buf) \o data
    <2> HIDE DEF data
    <2> QED BY <1>5, <1>6, ReadAppends
<1>8. Unread(buf) \in Seq(Cell) /\ Unread(b) \in Seq(Cell)
    BY <1>6, <1>7, UnreadType
<1>9. Recent(s, Unread(b), received + n)
    <2>1. Recent(s, Unread(buf) \o SubSeq(s, received + 1, received + n), received + n)
        <3> HIDE DEF Unread
        <3> QED BY <1>1, <1>4, <1>6, <1>8, RecentRead
    <2> QED BY <1>7, <2>1
<1>10. Len(Unread(b)) = Len(Unread(buf)) + n
    <2>1. data \in Seq(Cell)
        BY <1>5 DEF Cell
    <2> HIDE DEF b, data, Unread
    <2>2. Joined(Unread(b), Unread(buf), data)
        BY <1>7, <1>8, <2>1, ConcatAt
    <2> QED BY <1>5, <2>2 DEF Joined
<1> QED BY <1>3, <1>4, <1>7, <1>8, <1>9, <1>10 DEF s, data, b

LEMMA NextInput == InputInv /\ [Next]_vars => InputInv'
<1> SUFFICES ASSUME InputInv, [Next]_vars PROVE InputInv'
    OBVIOUS
<1>1. CASE Next
    <2>1. PICK n \in 1..(Len(Bytes(stream)) - received) : handleRead(n)
        BY <1>1 DEF Next
    <2>2. PICK b \in Buffer :
              /\ received + n \in 0..Len(Bytes(stream))
              /\ Recent(Bytes(stream), Unread(b), received + n)
              /\ handleRtpOverTcp(b) \/ ParseFails(b) \/ HandleRequest(b)
              /\ stream' = stream /\ received' = received + n
        BY <2>1, ReadGives
    <2>3. buf' \in Buffer /\ Recent(Bytes(stream), Unread(buf'), received + n)
        BY <2>2, HandledRecent
    <2>4. Bytes(stream)' = Bytes(stream)
        BY <2>2 DEF Bytes, BytesUpTo
    <2> QED BY <2>2, <2>3, <2>4 DEF InputInv
<1>2. CASE UNCHANGED vars
    BY <1>2 DEF vars, InputInv, Bytes, BytesUpTo, Recent, Unread
<1> QED BY <1>1, <1>2

(* mInputBuffer: what is unread is the end of what was received, for any      *)
(* streams and cuts: no byte is lost inside, repeated or out of order, and    *)
(* what is thrown away is always the oldest.                                  *)
THEOREM InputIsRecent == Spec => []UnreadIsRecent
<1>1. InputInv => UnreadIsRecent
    <2> SUFFICES ASSUME InputInv PROVE UnreadIsRecent
        OBVIOUS
    <2> DEFINE s == Bytes(stream)
               v == Unread(buf)
               u == SubSeq(s, (received - Len(v)) + 1, received)
    <2>1. /\ s \in Seq(Byte) /\ received \in 0..Len(s)
          /\ v \in Seq(Cell) /\ Recent(s, v, received)
        BY StreamBytes, UnreadType DEF InputInv
    <2> HIDE DEF s, v
    <2>2. /\ Len(v) \in Nat /\ Len(v) <= received
          /\ \A i \in 1..Len(v) : v[i] = s[(received - Len(v)) + i]
        BY <2>1 DEF Recent
    <2>3. u \in Seq(Cell) /\ Len(u) = Len(v)
        BY <2>1, <2>2 DEF Cell
    <2>4. \A i \in 1..Len(v) : u[i] = s[(received - Len(v)) + i]
        BY <2>1, <2>2
    <2> HIDE DEF u
    <2>5. v = u
        BY <2>1, <2>2, <2>3, <2>4
    <2> QED BY <2>5 DEF UnreadIsRecent, s, v, u
<1> QED BY <1>1, InitInput, NextInput, PTL DEF Spec

-----------------------------------------------------------------------------
(* What is answered *)

(* A line is the first piece of a request, and what follows it is its CRLF  *)
(* and its CSeq.                                                            *)
LEMMA LineFollowed ==
    ASSUME NEW s \in Streams, NEW q \in 1..Len(Bytes(s)), Bytes(s)[q].kind = "line"
    PROVE  LET k == Bytes(s)[q].of
           IN  /\ k \in 1..Len(s) /\ q = Border(s, k - 1) + 1
               /\ q + 3 \in 1..Len(Bytes(s))
               /\ Bytes(s)[q + 1].kind = "cr" /\ Bytes(s)[q + 2].kind = "lf"
               /\ Bytes(s)[q + 3].kind = "cseq" /\ Bytes(s)[q + 3].of = k
<1>1. PICK k \in 1..Len(s) : \E j \in 1..Len(MessageBytes(s[k], k)) :
          q = Border(s, k - 1) + j /\ Bytes(s)[q] = MessageBytes(s[k], k)[j] /\ Bytes(s)[q].of = k
    BY StreamFind
<1> DEFINE b == MessageBytes(s[k], k)
           o == Border(s, k - 1)
<1>2. PICK j \in 1..Len(b) : q = o + j /\ Bytes(s)[q] = b[j] /\ Bytes(s)[q].of = k
    BY <1>1
<1>3. /\ b \in Seq(PieceOf(k))
      /\ IF s[k].method = "frame" THEN IsFrame(s[k], b) ELSE IsRequest(s[k], b)
    <2>1. s[k] \in Message
        BY StreamLayout
    <2> QED BY <2>1, MessageLayout
<1>4. \A l \in 1..Len(b) : o + l \in 1..Len(Bytes(s)) /\ Bytes(s)[o + l] = b[l]
    BY StreamAt
<1>5. o \in Nat
    <2>1. Len(s) \in Nat
        BY StreamsAssumption
    <2>2. k - 1 \in 0..Len(s)
        BY <2>1
    <2> QED BY <2>2, StreamLayout
<1> HIDE DEF b, o
<1>6. IsRequest(s[k], b)
    <2>1. "line" \notin FrameKinds
        BY DEF FrameKinds
    <2> QED BY <1>2, <1>3, <2>1 DEF IsFrame
<1>7. j = 1
    <2>1. j \in 2..Len(b) \/ j = 1
        BY <1>6 DEF IsRequest
    <2> QED BY <1>2, <1>6, <2>1 DEF IsRequest
<1>8. 2 \in 1..Len(b) /\ 3 \in 1..Len(b) /\ 4 \in 1..Len(b)
    <2>1. Len(b) \in Nat /\ Len(b) >= 8
        BY <1>6 DEF IsRequest
    <2> QED BY <2>1
<1>9. q + 1 = o + 2 /\ q + 2 = o + 3 /\ q + 3 = o + 4
    BY <1>2, <1>5, <1>7
<1>10. b[4].of = k
    <2>1. b[4] \in PieceOf(k)
        BY <1>3, <1>8
    <2> QED BY <2>1 DEF PieceOf
<1>11. /\ Bytes(s)[q + 1].kind = "cr" /\ Bytes(s)[q + 2].kind = "lf"
       /\ Bytes(s)[q + 3] = b[4] /\ b[4].kind = "cseq"
    BY <1>4, <1>6, <1>8, <1>9 DEF IsRequest
<1>12. q + 3 \in 1..Len(Bytes(s))
    BY <1>4, <1>8, <1>9
<1> QED BY <1>2, <1>7, <1>10, <1>11, <1>12 DEF o

(* Lines are numbered in their order. *)
LEMMA LinesInOrder ==
    ASSUME NEW s \in Streams, NEW q \in 1..Len(Bytes(s)), NEW r \in 1..Len(Bytes(s)), q < r,
           Bytes(s)[q].kind = "line", Bytes(s)[r].kind = "line"
    PROVE  Bytes(s)[q].of < Bytes(s)[r].of
<1> DEFINE k == Bytes(s)[q].of
           l == Bytes(s)[r].of
<1>1. /\ k \in 1..Len(s) /\ q = Border(s, k - 1) + 1
      /\ l \in 1..Len(s) /\ r = Border(s, l - 1) + 1
    BY LineFollowed
<1>2. Len(s) \in Nat /\ \A n \in 0..Len(s) : Border(s, n) \in Nat
    BY StreamLayout
<1> HIDE DEF k, l
<1>3. k - 1 \in 0..Len(s) /\ l - 1 \in 0..Len(s)
    BY <1>1, <1>2
<1>4. CASE l < k
    <2>1. Border(s, l - 1) < Border(s, k - 1)
        <3>1. l - 1 < k - 1
            BY <1>1, <1>4
        <3> QED BY <1>3, <3>1, BorderLess
    <2>2. PICK x \in Nat : x = Border(s, l - 1)
        BY <1>2, <1>3
    <2>3. PICK y \in Nat : y = Border(s, k - 1)
        BY <1>2, <1>3
    <2>4. x < y /\ q = y + 1 /\ r = x + 1
        BY <1>1, <2>1, <2>2, <2>3
    <2>5. FALSE
        BY <2>4
    <2> QED BY <2>5
<1>5. CASE l = k
    BY <1>1, <1>2, <1>3, <1>5
<1> QED BY <1>1, <1>4, <1>5 DEF k, l

(* parseRequest on v, which comes before place p of s: the line it has found is *)
(* where it stands in s, the header fields begin with that line's CSeq.         *)
LEMMA RequestFound ==
    ASSUME stream \in Streams, NEW v \in Seq(Cell), NEW p \in 0..Len(Bytes(stream)),
           Recent(Bytes(stream), v, p), LineParsed(v), HeadersParsed(v)
    PROVE  \E i \in 1..Len(v) :
              LET q == (p - Len(v)) + i
              IN  /\ q \in 1..Len(Bytes(stream))
                  /\ Bytes(stream)[q].kind = "line"
                  /\ LineOf(v) = Bytes(stream)[q].of /\ CSeq(v) = Bytes(stream)[q].of
                  /\ FirstCRLF(v) = i + 1
<1> DEFINE s == Bytes(stream)
           o == p - Len(v)
           c == FirstCRLF(v)
           a == AfterLine(v)
           d == LastCRLF(a)
           h == Headers(v)
<1>1. /\ s \in Seq(Byte) /\ Len(s) \in Nat /\ p \in Nat /\ p <= Len(s)
      /\ Len(v) \in Nat /\ o \in Nat /\ o + Len(v) = p
      /\ \A i \in 1..Len(v) : v[i] = s[o + i]
    <2>1. s \in Seq(Byte)
        BY StreamLayout
    <2> HIDE DEF s
    <2> QED BY <2>1 DEF Recent, s
<1>2. CRLFs(v) # {} /\ CRLFs(a) # {} /\ "cseq" \in Kinds(h)
    BY DEF LineParsed, HeadersParsed
<1>3. PICK i \in FirstLine(v) : FirstLine(v) = {i} /\ v[i].kind = "line"
    BY DEF LineParsed
<1>4. c \in CRLFs(v) /\ \A j \in CRLFs(v) : c <= j
    BY <1>2, CRLFPlaces
<1>5. LineOf(v) = v[i].of
    BY <1>3 DEF LineOf
<1> HIDE DEF c
<1>6. c \in Nat /\ i \in 1..(c - 1) /\ c <= Len(v) - 1 /\ i \in 1..Len(v)
    <2>1. c \in 1..(Len(v) - 1)
        BY <1>4 DEF CRLFs
    <2>2. i \in 1..(c - 1)
        BY <1>3 DEF FirstLine, c
    <2> QED BY <1>1, <2>1, <2>2
<1> HIDE DEF o, s
<1> DEFINE q == o + i
<1>7. q \in 1..Len(s) /\ s[q].kind = "line" /\ s[q] = v[i] /\ q \in Nat
    BY <1>1, <1>3, <1>6
<1>8. /\ s[q + 1].kind = "cr" /\ s[q + 2].kind = "lf"
      /\ s[q + 3].kind = "cseq" /\ s[q + 3].of = s[q].of
    BY <1>7, LineFollowed DEF s
<1>9. c = i + 1
    <2>1. i + 1 \in 1..(Len(v) - 1) /\ i + 2 \in 1..Len(v) /\ i + 1 \in 1..Len(v) /\ (i + 1) + 1 = i + 2
        BY <1>1, <1>6
    <2>2. v[i + 1] = s[q + 1] /\ v[i + 2] = s[q + 2]
        <3>1. o + (i + 1) = q + 1 /\ o + (i + 2) = q + 2
            BY <1>1, <1>6
        <3>2. \A j \in 1..Len(v) : v[j] = s[o + j]
            BY <1>1
        <3>3. v[i + 1] = s[o + (i + 1)] /\ v[i + 2] = s[o + (i + 2)]
            BY <2>1, <3>2
        <3> QED BY <3>1, <3>3
    <2>3. i + 1 \in CRLFs(v)
        BY <1>8, <2>1, <2>2 DEF CRLFs
    <2> QED BY <1>4, <1>6, <2>3
<1>10. a \in Seq(Cell) /\ Len(a) \in Nat
       /\ \A j \in 1..Len(a) : v[(c + 1) + j] = a[j] /\ (c + 1) + j \in 1..Len(v)
    <2>1. a = SubSeq(v, c + 2, Len(v))
        BY DEF AfterLine, c
    <2>2. PICK n \in 0..Len(v) : n = c + 1 /\ n + 1 = c + 2
        BY <1>1, <1>6
    <2>3. /\ SubSeq(v, n + 1, Len(v)) \in Seq(Cell)
          /\ Len(SubSeq(v, n + 1, Len(v))) = Len(v) - n
          /\ \A j \in 1..(Len(v) - n) : SubSeq(v, n + 1, Len(v))[j] = v[n + j] /\ n + j \in 1..Len(v)
        BY DropFirst
    <2> HIDE DEF a
    <2>4. /\ a \in Seq(Cell) /\ Len(a) = Len(v) - n
          /\ \A j \in 1..Len(a) : a[j] = v[n + j] /\ n + j \in 1..Len(v)
        BY <2>1, <2>2, <2>3
    <2> QED BY <2>2, <2>4
<1>11. h = SubSeq(a, 1, d - 1)
    BY DEF Headers
<1> HIDE DEF a
<1>12. d \in 1..(Len(a) - 1)
    <2>1. d \in CRLFs(a)
        BY <1>2, <1>10, CRLFPlaces
    <2> QED BY <2>1 DEF CRLFs
<1> HIDE DEF h, d
<1>13. h \in Seq(Cell) /\ Len(h) = d - 1 /\ \A j \in 1..Len(h) : h[j] = a[j]
    BY <1>10, <1>11, <1>12
<1>14. 1 \in 1..Len(h)
    <2>1. Len(h) \in Nat
        BY <1>13
    <2>2. Len(h) # 0
        BY <1>2 DEF Kinds
    <2> QED BY <2>1, <2>2
<1>15. h[1] = s[q + 3]
    <2>1. h[1] = a[1] /\ 1 \in 1..Len(a)
        BY <1>10, <1>12, <1>13, <1>14
    <2>2. a[1] = v[(c + 1) + 1] /\ (c + 1) + 1 \in 1..Len(v)
        BY <1>10, <2>1
    <2>3. o + ((c + 1) + 1) = q + 3
        BY <1>1, <1>6, <1>9
    <2> QED BY <1>1, <2>1, <2>2, <2>3
<1>16. CSeq(v) = h[1].of
    <2> DEFINE First(n) == h[n].kind = "cseq" /\ \A m \in 1..(n - 1) : h[m].kind # "cseq"
    <2>1. First(1)
        BY <1>8, <1>15
    <2>2. ASSUME NEW n \in 1..Len(h), First(n) PROVE n = 1
        <3>1. n \in Nat /\ n >= 1
            BY <1>13
        <3>2. n # 1 => 1 \in 1..(n - 1)
            BY <3>1
        <3> QED BY <1>8, <1>15, <2>2, <3>2
    <2>3. (CHOOSE n \in 1..Len(h) : First(n)) = 1
        BY <1>14, <2>1, <2>2
    <2> QED BY <2>3 DEF CSeq, h
<1> QED BY <1>5, <1>6, <1>7, <1>8, <1>9, <1>15, <1>16 DEF o, s, c

Answer == [line : Nat, cseq : Nat]

(* The answers a are those of lines of s up to place p, in their order. *)
Answered(s, a, p) ==
    /\ a \in Seq(Answer)
    /\ \A i \in 1..Len(a) : /\ a[i].line = a[i].cseq
                            /\ \E q \in 1..p : s[q].kind = "line" /\ s[q].of = a[i].line
    /\ \A i, j \in 1..Len(a) : i < j => a[i].line < a[j].line

LEMMA AnsweredStill ==
    ASSUME NEW s, NEW a, NEW p \in Nat, NEW r \in Nat, p <= r, Answered(s, a, p)
    PROVE  Answered(s, a, r)
<1>1. \A q \in 1..p : q \in 1..r
    OBVIOUS
<1> QED BY <1>1 DEF Answered

LEMMA AnsweredNext ==
    ASSUME NEW s \in Streams, NEW a, NEW p \in Nat, NEW r \in 0..Len(Bytes(s)),
           NEW q \in (p + 1)..r,
           Answered(Bytes(s), a, p), Bytes(s)[q].kind = "line"
    PROVE  Answered(Bytes(s), Append(a, [line |-> Bytes(s)[q].of, cseq |-> Bytes(s)[q].of]), r)
<1> DEFINE t == Bytes(s)
           x == [line |-> t[q].of, cseq |-> t[q].of]
           c == Append(a, x)
<1>1. Len(t) \in Nat /\ r \in Nat /\ q \in Nat /\ q \in 1..Len(t) /\ q \in 1..r
    <2> DEFINE n == Len(t)
    <2>1. n \in Nat
        BY StreamLayout
    <2>2. r \in 0..n
        OBVIOUS
    <2> HIDE DEF n
    <2>3. n \in Nat /\ r \in Nat /\ q \in Nat /\ q \in 1..n /\ q \in 1..r
        BY <2>1, <2>2
    <2> QED BY <2>3 DEF n
<1>2. x \in Answer
    <2>1. s \in Seq(Message) /\ t[q].of \in 1..Len(s)
        BY <1>1, StreamBytes
    <2> QED BY <2>1 DEF Answer
<1>3. a \in Seq(Answer) /\ Len(a) \in Nat
    BY DEF Answered
<1>4. /\ c \in Seq(Answer) /\ Len(c) = Len(a) + 1 /\ c[Len(a) + 1] = x
      /\ \A i \in 1..Len(a) : c[i] = a[i]
    <2> HIDE DEF x
    <2> QED BY <1>2, <1>3
<1>5. x.line = x.cseq /\ x.line = t[q].of /\ t[q].kind = "line"
    OBVIOUS
<1>6. \A k \in 1..Len(a) : a[k].line < x.line
    <2> SUFFICES ASSUME NEW k \in 1..Len(a) PROVE a[k].line < x.line
        OBVIOUS
    <2>1. PICK w \in 1..p : t[w].kind = "line" /\ t[w].of = a[k].line
        BY DEF Answered
    <2>2. w \in 1..Len(t) /\ w < q
        BY <1>1
    <2>3. t[w].of < t[q].of
        BY <1>1, <2>1, <2>2, LinesInOrder
    <2> QED BY <2>1, <2>3
<1> HIDE DEF c, x, t
<1>7. ASSUME NEW i \in 1..Len(c)
      PROVE  c[i].line = c[i].cseq /\ \E w \in 1..r : t[w].kind = "line" /\ t[w].of = c[i].line
    <2>1. CASE i \in 1..Len(a)
        <3>1. c[i] = a[i]
            BY <1>4, <2>1
        <3>2. Answered(t, a, r)
            <4>1. p \in Nat /\ r \in Nat /\ p <= r
                BY <1>1
            <4> QED BY <4>1, AnsweredStill DEF t
        <3> QED BY <2>1, <3>1, <3>2 DEF Answered
    <2>2. CASE i = Len(a) + 1
        BY <1>1, <1>4, <1>5, <2>2
    <2> QED BY <1>3, <1>4, <2>1, <2>2
<1>8. ASSUME NEW i \in 1..Len(c), NEW j \in 1..Len(c), i < j PROVE c[i].line < c[j].line
    <2>1. i \in 1..Len(a) /\ c[i] = a[i]
        BY <1>3, <1>4, <1>8
    <2>2. CASE j \in 1..Len(a)
        <3>1. c[j] = a[j]
            BY <1>4, <2>2
        <3> QED BY <1>8, <2>1, <2>2, <3>1 DEF Answered
    <2>3. CASE j = Len(a) + 1
        BY <1>4, <1>6, <2>1, <2>3
    <2> QED BY <1>3, <1>4, <2>2, <2>3
<1>9. Answered(t, c, r)
    BY <1>4, <1>7, <1>8 DEF Answered
<1> QED BY <1>9 DEF c, x, t

(* A request takes at least its first line, and nothing comes back. *)
LEMMA HandledTakes ==
    ASSUME InputInv, NEW b \in Buffer, NEW p \in 0..Len(Bytes(stream)),
           Recent(Bytes(stream), Unread(b), p),
           handleRtpOverTcp(b) \/ ParseFails(b) \/ HandleRequest(b)
    PROVE  /\ Len(Unread(buf')) <= Len(Unread(b))
           /\ HandleRequest(b) => Len(Unread(buf')) <= Len(Unread(b)) - (FirstCRLF(Unread(b)) + 1)
<1> DEFINE s == Bytes(stream)
           v == Unread(b)
<1>1. stream \in Streams /\ s \in Seq(Byte) /\ p \in Nat
    BY StreamBytes DEF InputInv
<1>2. v \in Seq(Cell) /\ Len(v) = readableDataSize(b) /\ Len(v) \in Nat
    BY UnreadType DEF readableDataSize
<1>3. \A c \in Buffer : \A len \in Nat :
         /\ retrieve(c, len) \in Buffer
         /\ Len(Unread(retrieve(c, len))) =
               IF len < Len(Unread(c)) THEN Len(Unread(c)) - len ELSE 0
    BY RetrieveLeaves
<1>4. CASE handleRtpOverTcp(b)
    <2>1. CASE buf' = b
        <3>1. Len(Unread(buf')) = Len(v)
            BY <2>1
        <3>2. ~HandleRequest(b)
            BY <1>4 DEF handleRtpOverTcp, HandleRequest
        <3> QED BY <1>2, <3>1, <3>2
    <2>2. CASE readableDataSize(b) >= 4 /\ buf' = retrieve(b, FrameSize(v))
        <3>1. v[4] = s[(p - Len(v)) + 4] /\ (p - Len(v)) + 4 \in 1..Len(s)
            <4> HIDE DEF s, v
            <4> QED BY <1>1, <1>2, <2>2 DEF Recent, s, v
        <3>2. v[4].of \in 1..Len(stream)
            BY <1>1, <3>1, StreamBytes
        <3>3. stream \in Seq(Message)
            BY <1>1, StreamBytes
        <3>4. FrameSize(v) \in Nat
            <4>1. stream[v[4].of] \in Message
                BY <3>2, <3>3
            <4> QED BY <4>1 DEF FrameSize, Message
        <3>5. ~HandleRequest(b)
            BY <1>4 DEF handleRtpOverTcp, HandleRequest
        <3> HIDE DEF v, s
        <3>6. Len(Unread(buf')) = IF FrameSize(v) < Len(v) THEN Len(v) - FrameSize(v) ELSE 0
            BY <1>3, <2>2, <3>4 DEF v
        <3> QED BY <1>2, <3>4, <3>5, <3>6 DEF v
    <2> QED BY <1>4, <2>1, <2>2 DEF handleRtpOverTcp
<1>5. CASE ParseFails(b)
    <2>1. buf' = [mem |-> b.mem, r |-> 0, w |-> 0]
        BY <1>5 DEF ParseFails, retrieveAll
    <2>2. buf' \in Buffer
        BY <2>1, UnreadType DEF Buffer, Cell
    <2>3. Len(Unread(buf')) = 0
        BY <2>1, <2>2, UnreadType
    <2>4. ~HandleRequest(b)
        BY <1>5 DEF ParseFails, HandleRequest
    <2> HIDE DEF Unread
    <2> QED BY <1>2, <2>3, <2>4
<1>6. CASE HandleRequest(b)
    <2> DEFINE f    == FirstCRLF(v)
               rest == retrieve(b, f + 1)
               a    == AfterLine(v)
               u    == Unread(rest)
    <2>1. CRLFs(v) # {} /\ CRLFs(a) # {} /\ buf' = retrieve(rest, LastCRLF(a) + 1)
        BY <1>6 DEF HandleRequest, LineParsed, HeadersParsed
    <2> HIDE DEF v
    <2>2. f \in Nat /\ f + 1 <= Len(v)
        <3>1. f \in CRLFs(v)
            BY <1>2, <2>1, CRLFPlaces
        <3> HIDE DEF f
        <3> QED BY <1>2, <3>1 DEF CRLFs
    <2>3. a \in Seq(Cell)
        <3>1. f + 2 \in 1..(Len(v) + f + 2) /\ Len(v) \in Nat
            BY <1>2, <2>2
        <3> QED BY <1>2, <2>2, <3>1 DEF AfterLine
    <2> HIDE DEF a
    <2>4. LastCRLF(a) \in Nat
        BY <2>1, <2>3, PlacesAreNumbers
    <2> HIDE DEF f
    <2>5. rest \in Buffer /\ Len(u) = Len(v) - (f + 1)
        <3>1. f + 1 \in Nat
            BY <2>2
        <3>2. /\ retrieve(b, f + 1) \in Buffer
              /\ Len(Unread(retrieve(b, f + 1))) = IF f + 1 < Len(v) THEN Len(v) - (f + 1) ELSE 0
            BY <1>3, <3>1 DEF v
        <3> QED BY <1>2, <2>2, <3>2
    <2> HIDE DEF rest
    <2>6. Len(Unread(buf')) = IF LastCRLF(a) + 1 < Len(u) THEN Len(u) - (LastCRLF(a) + 1) ELSE 0
        <3>1. LastCRLF(a) + 1 \in Nat
            BY <2>4
        <3> QED BY <1>3, <2>1, <2>5, <3>1
    <2> HIDE DEF u
    <2>7. Len(Unread(buf')) <= Len(v) - (f + 1)
        BY <1>2, <2>2, <2>4, <2>5, <2>6
    <2>8. Len(Unread(buf')) <= Len(v)
        BY <1>2, <2>2, <2>4, <2>5, <2>6
    <2> QED BY <2>7, <2>8 DEF f, v
<1> QED BY <1>4, <1>5, <1>6

(* Where what is unread begins in the stream. *)
Taken == received - Len(Unread(buf))

AnswersInv == InputInv /\ Answered(Bytes(stream), answers, Taken)

LEMMA TakenIsPlace ==
    ASSUME InputInv
    PROVE  /\ Len(Unread(buf)) \in Nat /\ received \in Nat /\ Len(Bytes(stream)) \in Nat
           /\ Taken \in Nat /\ Taken <= received
<1>1. Len(Bytes(stream)) \in Nat /\ received \in 0..Len(Bytes(stream))
    BY StreamLayout DEF InputInv
<1>2. buf \in Buffer /\ Len(Unread(buf)) <= received
    BY DEF InputInv, Recent
<1>3. Len(Unread(buf)) \in Nat
    BY <1>2, UnreadType
<1> HIDE DEF Unread, Bytes
<1> QED BY <1>1, <1>2, <1>3 DEF Taken

(* What follows a read and its handler: input that is recent, and as much of  *)
(* it taken as before or more.                                                *)
LEMMA TakenGrows ==
    ASSUME InputInv, InputInv', NEW n \in 1..(Len(Bytes(stream)) - received), handleRead(n)
    PROVE  Taken \in Nat /\ Taken' \in Nat /\ Taken <= Taken'
<1>1. PICK b \in Buffer :
              /\ received + n \in 0..Len(Bytes(stream))
              /\ Len(Unread(b)) = Len(Unread(buf)) + n
              /\ Recent(Bytes(stream), Unread(b), received + n)
              /\ handleRtpOverTcp(b) \/ ParseFails(b) \/ HandleRequest(b)
              /\ received' = received + n
    BY ReadGives
<1>2. Len(Unread(buf')) <= Len(Unread(b))
    BY <1>1, HandledTakes
<1>3. /\ Len(Unread(buf)) \in Nat /\ received \in Nat /\ Len(Bytes(stream)) \in Nat
      /\ Taken \in Nat /\ Taken = received - Len(Unread(buf))
    BY TakenIsPlace DEF Taken
<1>4. Len(Unread(buf')) \in Nat /\ Taken' \in Nat /\ Taken' = received' - Len(Unread(buf'))
    <2>1. (Len(Unread(buf)) \in Nat /\ Taken \in Nat)'
        BY TakenIsPlace, PTL
    <2> QED BY <2>1 DEF Taken
<1>5. n \in Nat
    BY <1>3
<1> HIDE DEF Unread, Taken, Bytes
<1> QED BY <1>1, <1>2, <1>3, <1>4, <1>5

LEMMA InitAnswers == Init => AnswersInv
<1> SUFFICES ASSUME Init PROVE AnswersInv
    OBVIOUS
<1>1. InputInv
    BY InitInput
<1>2. answers = <<>> /\ Len(answers) = 0
    BY DEF Init
<1>3. answers \in Seq(Answer)
    BY <1>2
<1> QED BY <1>1, <1>2, <1>3 DEF AnswersInv, Answered

LEMMA NextAnswers == AnswersInv /\ [Next]_vars => AnswersInv'
<1> SUFFICES ASSUME AnswersInv, [Next]_vars PROVE AnswersInv'
    OBVIOUS
<1>1. InputInv /\ Answered(Bytes(stream), answers, Taken)
    BY DEF AnswersInv
<1>2. InputInv'
    BY <1>1, NextInput
<1>3. CASE Next
    <2>1. PICK n \in 1..(Len(Bytes(stream)) - received) : handleRead(n)
        BY <1>3 DEF Next
    <2>2. Taken \in Nat /\ Taken' \in Nat /\ Taken <= Taken'
        BY <1>1, <1>2, <2>1, TakenGrows
    <2>3. PICK b \in Buffer :
              /\ received + n \in 0..Len(Bytes(stream))
              /\ Unread(b) \in Seq(Cell)
              /\ Len(Unread(b)) = Len(Unread(buf)) + n
              /\ Recent(Bytes(stream), Unread(b), received + n)
              /\ handleRtpOverTcp(b) \/ ParseFails(b) \/ HandleRequest(b)
              /\ stream' = stream /\ received' = received + n
        BY <1>1, <2>1, ReadGives
    <2>4. Bytes(stream)' = Bytes(stream)
        BY <2>3 DEF Bytes, BytesUpTo
    <2>5. CASE answers' = answers
        <3>1. Answered(Bytes(stream), answers, Taken')
            BY <1>1, <2>2, AnsweredStill
        <3>2. Answered(Bytes(stream), answers, Taken)'
            BY <2>4, <2>5, <3>1 DEF Answered
        <3> QED BY <1>2, <3>2 DEF AnswersInv
    <2>6. CASE HandleRequest(b)
        <3> DEFINE v == Unread(b)
        <3>1. LineParsed(v) /\ HeadersParsed(v)
              /\ answers' = Append(answers, [line |-> LineOf(v), cseq |-> CSeq(v)])
            BY <2>6 DEF HandleRequest
        <3>2. stream \in Streams
            BY <1>1 DEF InputInv
        <3> HIDE DEF v
        <3>3. v \in Seq(Cell) /\ Recent(Bytes(stream), v, received + n)
            BY <2>3 DEF v
        <3>4. PICK i \in 1..Len(v) :
              LET q == ((received + n) - Len(v)) + i
              IN  /\ q \in 1..Len(Bytes(stream))
                  /\ Bytes(stream)[q].kind = "line"
                  /\ LineOf(v) = Bytes(stream)[q].of /\ CSeq(v) = Bytes(stream)[q].of
                  /\ FirstCRLF(v) = i + 1
            BY <2>3, <3>1, <3>2, <3>3, RequestFound
        <3> DEFINE q == ((received + n) - Len(v)) + i
        <3>5. /\ q \in 1..Len(Bytes(stream))
              /\ Bytes(stream)[q].kind = "line"
              /\ LineOf(v) = Bytes(stream)[q].of /\ CSeq(v) = Bytes(stream)[q].of
              /\ FirstCRLF(v) = i + 1
            BY <3>4
        <3>6. Len(Unread(buf')) <= Len(v) - (FirstCRLF(v) + 1)
            BY <1>1, <2>3, <2>6, HandledTakes DEF v
        <3>7. /\ Len(Unread(buf)) \in Nat /\ received \in Nat
              /\ Taken = received - Len(Unread(buf))
            BY <1>1, TakenIsPlace DEF Taken
        <3>8. /\ Len(Unread(buf')) \in Nat /\ Taken' = received' - Len(Unread(buf'))
              /\ Taken' \in 0..Len(Bytes(stream))
            <4>1. (Len(Unread(buf)) \in Nat /\ Taken <= received)'
                BY <1>2, TakenIsPlace, PTL
            <4>2. Len(Bytes(stream)) \in Nat
                BY <1>1, TakenIsPlace
            <4>3. Taken' <= received + n
                BY <2>3, <4>1
            <4> HIDE DEF Taken, Bytes
            <4>4. Taken' \in 0..Len(Bytes(stream))
                BY <2>2, <2>3, <4>2, <4>3
            <4> QED BY <4>1, <4>4 DEF Taken
        <3>9. q \in (Taken + 1)..Taken'
            <4>1. n \in Nat /\ i \in Nat /\ i >= 1
                <5>1. Len(Bytes(stream)) \in Nat
                    BY <1>1, TakenIsPlace
                <5>2. Len(v) \in Nat
                    BY <3>3
                <5> QED BY <5>1, <5>2, <3>7
            <4>2. Len(v) = Len(Unread(buf)) + n /\ received' = received + n
                BY <2>3 DEF v
            <4> HIDE DEF Unread, Taken, Bytes
            <4>3. q = Taken + i
                BY <3>7, <4>1, <4>2
            <4>4. Taken' >= Taken + i
                <5>1. Len(Unread(buf')) <= Len(v) - ((i + 1) + 1)
                    BY <3>5, <3>6
                <5>2. /\ Len(Unread(buf')) \in Nat
                      /\ Taken' = (received + n) - Len(Unread(buf'))
                    BY <3>8, <4>2
                <5> HIDE DEF q
                <5> QED BY <3>7, <4>1, <4>2, <5>1, <5>2
            <4> QED BY <2>2, <4>1, <4>3, <4>4
        <3> HIDE DEF q
        <3>10. Answered(Bytes(stream),
                        Append(answers, [line |-> Bytes(stream)[q].of, cseq |-> Bytes(stream)[q].of]),
                        Taken')
            BY <1>1, <2>2, <3>2, <3>5, <3>8, <3>9, AnsweredNext
        <3>11. answers' = Append(answers, [line |-> Bytes(stream)[q].of, cseq |-> Bytes(stream)[q].of])
            BY <3>1, <3>5
        <3>12. Answered(Bytes(stream), answers, Taken)'
            BY <2>4, <3>10, <3>11 DEF Answered
        <3> QED BY <1>2, <3>12 DEF AnswersInv
    <2> QED BY <2>3, <2>5, <2>6 DEF handleRtpOverTcp, ParseFails
<1>4. CASE UNCHANGED vars
    BY <1>4, <1>1, <1>2 DEF vars, AnswersInv, Answered, Taken, Bytes, BytesUpTo, Unread
<1> QED BY <1>3, <1>4

(* parseRequest: for any streams cut in any way, a request that is handled is *)
(* one that was sent and is answered with its own CSeq, and they are handled   *)
(* in the order they were sent, none of them twice.                           *)
THEOREM AnswersInOrder == Spec => []AnswersMatch
<1>1. AnswersInv => AnswersMatch
    BY DEF AnswersInv, Answered, AnswersMatch
<1> QED BY <1>1, InitAnswers, NextAnswers, PTL DEF Spec

(* Lines go up from 1, so there are no more answers than messages. *)
LEMMA FewAnswers ==
    ASSUME NEW s \in Streams, NEW a, NEW p \in 0..Len(Bytes(s)), Answered(Bytes(s), a, p)
    PROVE  Len(a) \in 0..Len(s)
<1> DEFINE T == {i \in 1..Len(a) : a[i].line >= i}
<1>1. /\ Len(s) \in Nat /\ Len(Bytes(s)) \in Nat /\ Len(a) \in Nat
      /\ \A i \in 1..Len(a) : a[i].line \in Nat
    <2>1. a \in Seq(Answer)
        BY DEF Answered
    <2>2. \A i \in 1..Len(a) : a[i] \in Answer
        BY <2>1
    <2>3. Len(s) \in Nat /\ Len(Bytes(s)) \in Nat
        BY StreamLayout
    <2> QED BY <2>1, <2>2, <2>3 DEF Answer
<1>2. \A i \in 1..Len(a) : a[i].line \in 1..Len(s)
    <2> SUFFICES ASSUME NEW i \in 1..Len(a) PROVE a[i].line \in 1..Len(s)
        OBVIOUS
    <2>1. PICK q \in 1..p : Bytes(s)[q].of = a[i].line
        BY DEF Answered
    <2>2. q \in 1..Len(Bytes(s))
        BY <1>1
    <2> QED BY <2>1, <2>2, StreamBytes
<1>3. CASE Len(a) = 0
    BY <1>1, <1>3
<1>4. CASE Len(a) # 0
    <2>1. 1 \in Nat /\ 1 <= Len(a) /\ 1 \in T
        BY <1>1, <1>2, <1>4
    <2>2. ASSUME NEW n \in 1..(Len(a) - 1), n \in T PROVE n + 1 \in T
        <3>1. n \in 1..Len(a) /\ n + 1 \in 1..Len(a) /\ n < n + 1
            BY <1>1
        <3>2. a[n].line < a[n + 1].line
            BY <3>1 DEF Answered
        <3>3. a[n + 1].line >= n + 1
            BY <1>1, <2>2, <3>1, <3>2
        <3> QED BY <3>1, <3>3
    <2> HIDE DEF T
    <2>3. \A n \in 1..Len(a) : n \in T
        BY <1>1, <2>1, <2>2, Induction
    <2>4. Len(a) \in 1..Len(a) /\ Len(a) \in T
        BY <1>1, <2>1, <2>3
    <2> QED BY <1>1, <1>2, <2>4 DEF T
<1> QED BY <1>3, <1>4

TypeInv == AnswersInv /\ overTcp \in BOOLEAN /\ apart \in BOOLEAN /\ framing \in BOOLEAN

(* The types of the connection's input: the indices of mInputBuffer stay in    *)
(* order and in the block, so the assertions of DataBuffer never fail, and no   *)
(* message is answered twice.                                                  *)
THEOREM InputTypes == Spec => []TypeOK
<1>1. Init => TypeInv
    BY InitAnswers DEF Init, TypeInv
<1>2. TypeInv /\ [Next]_vars => TypeInv'
    <2> SUFFICES ASSUME TypeInv, [Next]_vars PROVE TypeInv'
        OBVIOUS
    <2>1. AnswersInv'
        BY NextAnswers DEF TypeInv
    <2>2. (overTcp \in BOOLEAN /\ apart \in BOOLEAN /\ framing \in BOOLEAN)'
        <3>1. CASE UNCHANGED vars
            BY <3>1 DEF vars, TypeInv
        <3>2. ASSUME NEW n, handleRead(n) PROVE (overTcp \in BOOLEAN /\ apart \in BOOLEAN /\ framing \in BOOLEAN)'
            <4>1. Note(n)
                BY <3>2 DEF handleRead
            <4>2. apart' \in BOOLEAN /\ framing' \in BOOLEAN
                BY <4>1 DEF Note
            <4>3. PICK b : handleRtpOverTcp(b) \/ ParseFails(b) \/ HandleRequest(b)
                BY <3>2 DEF handleRead
            <4>4. overTcp' \in BOOLEAN
                BY <4>3 DEF TypeInv, handleRtpOverTcp, ParseFails, HandleRequest
            <4> QED BY <4>2, <4>4
        <3> QED BY <3>1, <3>2 DEF Next
    <2> QED BY <2>1, <2>2 DEF TypeInv
<1>3. TypeInv => TypeOK
    <2> SUFFICES ASSUME TypeInv PROVE TypeOK
        OBVIOUS
    <2>1. InputInv /\ Answered(Bytes(stream), answers, Taken) /\ stream \in Streams
        BY DEF TypeInv, AnswersInv, InputInv
    <2>2. Taken \in 0..Len(Bytes(stream))
        <3>1. received \in 0..Len(Bytes(stream))
            BY <2>1 DEF InputInv
        <3>2. Taken \in Nat /\ Taken <= received /\ Len(Bytes(stream)) \in Nat
            BY <2>1, TakenIsPlace
        <3> HIDE DEF Taken, Bytes
        <3> QED BY <3>1, <3>2
    <2>3. Len(answers) \in 0..Len(stream) /\ Len(stream) \in Nat
        BY <2>1, <2>2, FewAnswers, StreamLayout
    <2>4. Len(answers) <= Len(stream)
        BY <2>3
    <2>5. buf.r <= buf.w /\ buf.w <= Len(buf.mem)
        BY <2>1, Indices DEF InputInv
    <2>6. received \in 0..Len(Bytes(stream))
        BY <2>1 DEF InputInv
    <2> QED BY <2>1, <2>4, <2>5, <2>6 DEF TypeInv, TypeOK
<1> QED BY <1>1, <1>2, <1>3, PTL DEF Spec

-----------------------------------------------------------------------------
(* Interleaved frames *)

(* A place between two messages, and not the end, is where a message begins. *)
LEMMA BorderBegins ==
    ASSUME stream \in Streams, NEW t \in Borders, t < Len(Bytes(stream))
    PROVE  \E k \in 1..Len(stream) :
              /\ t = Border(stream, k - 1)
              /\ t + Len(MessageBytes(stream[k], k)) = Border(stream, k)
              /\ t + Len(MessageBytes(stream[k], k)) \in Borders
<1>1. /\ Len(stream) \in Nat /\ Border(stream, Len(stream)) = Len(Bytes(stream))
      /\ \A n \in 0..Len(stream) :
            Border(stream, n) \in Nat /\ Len(BytesUpTo(stream, n)) = Border(stream, n)
      /\ \A n \in 0..(Len(stream) - 1) :
            Border(stream, n + 1) = Border(stream, n) + Len(MessageBytes(stream[n + 1], n + 1))
    BY StreamLayout
<1>2. PICK n \in 0..Len(stream) : t = Border(stream, n)
    BY <1>1 DEF Borders
<1>3. n \in 0..(Len(stream) - 1)
    <2>1. n # Len(stream)
        BY <1>1, <1>2
    <2> QED BY <1>1, <2>1
<1>4. PICK k : k = n + 1
    OBVIOUS
<1>5. k \in 1..Len(stream) /\ k - 1 = n /\ k \in 0..Len(stream)
    BY <1>1, <1>3, <1>4
<1>6. Border(stream, k) = Border(stream, n) + Len(MessageBytes(stream[k], k))
    BY <1>1, <1>3, <1>4
<1>7. Border(stream, k) \in Borders
    BY <1>1, <1>5 DEF Borders
<1> QED BY <1>2, <1>5, <1>6, <1>7

FramesInv ==
    /\ InputInv
    /\ framing => /\ overTcp /\ Taken \in Borders
                  /\ \A i \in (Taken + 1)..received : stream[Bytes(stream)[i].of].method = "frame"

(* With frames only in what is unread, and a frame's beginning in front, one  *)
(* whole frame is taken or nothing.                                           *)
LEMMA FrameTaken ==
    ASSUME InputInv, overTcp, NEW b \in Buffer, NEW p \in 0..Len(Bytes(stream)),
           Recent(Bytes(stream), Unread(b), p),
           handleRtpOverTcp(b) \/ ParseFails(b) \/ HandleRequest(b),
           NEW t \in Borders, t = p - Len(Unread(b)), t < p,
           \A i \in (t + 1)..p : stream[Bytes(stream)[i].of].method = "frame"
    PROVE  /\ overTcp' /\ buf' \in Buffer
           /\ p - Len(Unread(buf')) \in Borders /\ t <= p - Len(Unread(buf'))
<1> DEFINE s == Bytes(stream)
           v == Unread(b)
<1>1. stream \in Streams /\ Len(s) \in Nat /\ p \in Nat /\ p <= Len(s)
    <2>1. Len(s) \in Nat
        BY StreamLayout DEF InputInv
    <2> HIDE DEF s
    <2> QED BY <2>1 DEF InputInv, s
<1>2. /\ v \in Seq(Cell) /\ Len(v) = readableDataSize(b) /\ Len(v) \in Nat /\ Len(v) <= p
      /\ \A i \in 1..Len(v) : v[i] = s[(p - Len(v)) + i]
    BY UnreadType DEF readableDataSize, Recent
<1> HIDE DEF v
<1>3. t = p - Len(v) /\ t \in Nat
    BY <1>1, <1>2 DEF v
<1>4. t < Len(s)
    <2> HIDE DEF s
    <2> QED BY <1>1, <1>3
<1>5. PICK k \in 1..Len(stream) :
              /\ t = Border(stream, k - 1)
              /\ t + Len(MessageBytes(stream[k], k)) \in Borders
    BY <1>1, <1>4, BorderBegins
<1> DEFINE m == MessageBytes(stream[k], k)
<1>6. \A j \in 1..Len(m) : t + j \in 1..Len(s) /\ s[t + j] = m[j]
    <2> SUFFICES ASSUME NEW j \in 1..Len(m) PROVE t + j \in 1..Len(s) /\ s[t + j] = m[j]
        OBVIOUS
    <2> QED BY <1>1, <1>5, StreamAt
<1>7. stream[k] \in Message /\ m \in Seq(PieceOf(k))
      /\ IF stream[k].method = "frame" THEN IsFrame(stream[k], m) ELSE IsRequest(stream[k], m)
    <2>1. stream[k] \in Message
        BY <1>1, StreamBytes
    <2> QED BY <2>1, MessageLayout
<1>8. t + Len(m) \in Borders
    BY <1>5
<1> HIDE DEF m, s
<1>9. Len(m) \in Nat /\ Len(m) >= 4 /\ \A j \in 1..Len(m) : m[j].of = k
    <2>1. Len(m) \in Nat /\ Len(m) >= 4
        BY <1>7 DEF IsFrame, IsRequest, Message
    <2>2. \A j \in 1..Len(m) : m[j] \in PieceOf(k)
        BY <1>7
    <2> QED BY <2>1, <2>2 DEF PieceOf
<1>10. stream[k].method = "frame"
    <2>1. 1 \in 1..Len(m) /\ t + 1 \in (t + 1)..p
        BY <1>1, <1>3, <1>9
    <2>2. s[t + 1].of = k
        BY <1>6, <1>9, <2>1
    <2>3. stream[s[t + 1].of].method = "frame"
        BY <2>1 DEF s
    <2> QED BY <2>2, <2>3
<1>11. IsFrame(stream[k], m)
    BY <1>7, <1>10
<1>12. IsInterleaved(b)
    <2>1. 1 \in 1..Len(v) /\ 1 \in 1..Len(m)
        BY <1>1, <1>2, <1>3, <1>9
    <2>2. v[1] = s[t + 1] /\ s[t + 1] = m[1]
        BY <1>2, <1>3, <1>6, <2>1
    <2> QED BY <1>11, <2>2 DEF IsFrame, IsInterleaved, v
<1>13. handleRtpOverTcp(b)
    BY <1>12 DEF ParseFails, HandleRequest
<1>14. overTcp'
    BY <1>13 DEF handleRtpOverTcp
<1>15. CASE buf' = b
    <2>1. p - Len(Unread(buf')) = t
        BY <1>3, <1>15 DEF v
    <2> QED BY <1>3, <1>14, <1>15, <2>1
<1>16. CASE readableDataSize(b) >= 4 /\ readableDataSize(b) >= FrameSize(v)
            /\ buf' = retrieve(b, FrameSize(v))
    <2>1. v[4].of = k
        <3>1. 4 \in 1..Len(v) /\ 4 \in 1..Len(m)
            BY <1>2, <1>9, <1>16
        <3>2. v[4] = s[t + 4] /\ s[t + 4] = m[4]
            BY <1>2, <1>3, <1>6, <3>1
        <3> QED BY <1>9, <3>1, <3>2
    <2>2. FrameSize(v) = Len(m)
        BY <1>11, <2>1 DEF FrameSize, IsFrame
    <2>3. buf' \in Buffer /\ Len(Unread(buf')) = IF Len(m) < Len(v) THEN Len(v) - Len(m) ELSE 0
        BY <1>9, <1>16, <2>2, RetrieveLeaves DEF v
    <2>4. Len(m) <= Len(v)
        BY <1>2, <1>9, <1>16, <2>2
    <2>5. Len(Unread(buf')) = Len(v) - Len(m)
        BY <1>2, <1>9, <2>3, <2>4
    <2>6. PICK l \in Nat : l = Len(m)
        BY <1>9
    <2>7. PICK j \in Nat : j = Len(v)
        BY <1>2
    <2>8. p - (j - l) = t + l /\ t <= t + l
        <3>1. t = p - j
            BY <1>3, <2>7
        <3>2. PICK i \in Nat : i = p
            BY <1>1
        <3>3. PICK g \in Nat : g = t
            BY <1>3
        <3>4. \A w, x, y, z \in Nat : w = x - y => x - (y - z) = w + z /\ w <= w + z
            OBVIOUS
        <3> QED BY <3>1, <3>2, <3>3, <3>4
    <2>9. p - Len(Unread(buf')) = t + Len(m) /\ t <= t + Len(m)
        BY <2>5, <2>6, <2>7, <2>8
    <2> QED BY <1>8, <1>14, <2>3, <2>9
<1> QED BY <1>13, <1>15, <1>16 DEF handleRtpOverTcp, v

(* handleRtpOverTcp: interleaved frames may be cut and joined in any way, and  *)
(* while nothing else comes what is unread begins with the beginning of one.   *)
THEOREM FramesAligned == Spec => []FramesStayAligned
<1>1. Init => FramesInv
    BY InitInput DEF Init, FramesInv
<1>2. FramesInv /\ [Next]_vars => FramesInv'
    <2> SUFFICES ASSUME FramesInv, [Next]_vars PROVE FramesInv'
        OBVIOUS
    <2>1. InputInv /\ InputInv'
        BY NextInput DEF FramesInv
    <2>2. CASE Next
        <3>1. PICK n \in 1..(Len(Bytes(stream)) - received) : handleRead(n)
            BY <2>2 DEF Next
        <3>2. PICK b \in Buffer :
              /\ received + n \in 0..Len(Bytes(stream))
              /\ Unread(b) \in Seq(Cell)
              /\ Len(Unread(b)) = Len(Unread(buf)) + n
              /\ Recent(Bytes(stream), Unread(b), received + n)
              /\ handleRtpOverTcp(b) \/ ParseFails(b) \/ HandleRequest(b)
              /\ stream' = stream /\ received' = received + n
            BY <2>1, <3>1, ReadGives
        <3>3. /\ Len(Unread(buf)) \in Nat /\ received \in Nat /\ Len(Bytes(stream)) \in Nat
              /\ Taken \in Nat /\ Taken <= received /\ Taken = received - Len(Unread(buf))
            BY <2>1, TakenIsPlace DEF Taken
        <3>4. (/\ Len(Unread(buf)) \in Nat /\ Taken \in Nat
               /\ Taken = received - Len(Unread(buf)))'
            <4>1. (Len(Unread(buf)) \in Nat /\ Taken \in Nat)'
                BY <2>1, TakenIsPlace, PTL
            <4> QED BY <4>1 DEF Taken
        <3>5. Bytes(stream)' = Bytes(stream) /\ Borders' = Borders
            BY <3>2 DEF Bytes, BytesUpTo, Borders
        <3>6. SUFFICES ASSUME framing'
                       PROVE  /\ overTcp' /\ Taken' \in Borders
                              /\ \A i \in (Taken' + 1)..received' :
                                    stream[Bytes(stream)[i].of].method = "frame"
            BY <2>1, <3>2, <3>5 DEF FramesInv
        <3>7. Note(n)
            BY <3>1 DEF handleRead
        <3>8. CASE overTcp' /\ Unread(buf') = <<>> /\ received + n \in Borders
            <4>1. Len(Unread(buf')) = 0
                BY <3>8
            <4>2. Taken' = received'
                BY <3>2, <3>3, <3>4, <4>1
            <4>3. PICK r \in Nat : r = received'
                BY <3>4, <4>2
            <4>4. (r + 1)..r = {}
                OBVIOUS
            <4> QED BY <3>2, <3>8, <4>2, <4>3, <4>4
        <3>9. CASE framing /\ \A i \in (received + 1)..(received + n) :
                                 stream[Bytes(stream)[i].of].method = "frame"
            <4>1. overTcp /\ Taken \in Borders
                  /\ \A i \in (Taken + 1)..received : stream[Bytes(stream)[i].of].method = "frame"
                BY <3>9 DEF FramesInv
            <4>2. \A i \in (Taken + 1)..(received + n) :
                     stream[Bytes(stream)[i].of].method = "frame"
                <5> SUFFICES ASSUME NEW i \in (Taken + 1)..(received + n)
                             PROVE  i \in (Taken + 1)..received \/ i \in (received + 1)..(received + n)
                    BY <3>9, <4>1
                <5> HIDE DEF Taken, Bytes
                <5> QED BY <3>3
            <4>3. n \in Nat /\ n > 0
                BY <3>3
            <4>4. Taken = (received + n) - Len(Unread(b)) /\ Taken < received + n
                <5> HIDE DEF Taken, Unread
                <5> QED BY <3>2, <3>3, <4>3
            <4>5. /\ overTcp' /\ (received + n) - Len(Unread(buf')) \in Borders
                  /\ Taken <= (received + n) - Len(Unread(buf'))
                <5> HIDE DEF Taken
                <5> QED BY <2>1, <3>2, <4>1, <4>2, <4>4, FrameTaken
            <4>6. Taken' = (received + n) - Len(Unread(buf'))
                BY <3>2, <3>4
            <4>7. \A i \in (Taken' + 1)..received' : i \in (Taken + 1)..(received + n)
                <5>1. PICK t \in Nat : t = Taken'
                    BY <3>4
                <5>2. PICK r \in Nat : r = received + n
                    BY <3>3, <4>3
                <5>3. Taken <= t /\ Taken \in Nat
                    BY <3>3, <4>5, <4>6, <5>1
                <5>4. \A i \in (t + 1)..r : i \in (Taken + 1)..r
                    BY <5>3
                <5> QED BY <3>2, <5>1, <5>2, <5>4
            <4> QED BY <4>2, <4>5, <4>6, <4>7
        <3> QED BY <3>6, <3>7, <3>8, <3>9 DEF Note
    <2>3. CASE UNCHANGED vars
        BY <2>1, <2>3 DEF vars, FramesInv, Taken, Borders, Bytes, BytesUpTo, Unread
    <2> QED BY <2>2, <2>3
<1>3. FramesInv => FramesStayAligned
    BY DEF FramesInv, FramesStayAligned, Taken
<1> QED BY <1>1, <1>2, <1>3, PTL DEF Spec

-----------------------------------------------------------------------------
(* One message per read *)

LEMMA WholeMessage ==
    ASSUME stream \in Streams, NEW k \in 1..Len(stream)
    PROVE  LET m == stream[k]
               v == MessageBytes(m, k)
           IN  /\ m \in Message /\ v \in Seq(Byte) /\ Len(v) \in Nat /\ Len(v) >= 4
               /\ \A i \in 1..Len(v) : v[i].of = k
               /\ IF m.method = "frame" THEN IsFrame(m, v) ELSE IsRequest(m, v)
<1> DEFINE m == stream[k]
           v == MessageBytes(m, k)
<1>1. m \in Message /\ v \in Seq(Byte)
    BY StreamsAssumption
<1> HIDE DEF m
<1>2. /\ v \in Seq(PieceOf(k))
      /\ IF m.method = "frame" THEN IsFrame(m, v) ELSE IsRequest(m, v)
    BY <1>1, MessageLayout
<1> HIDE DEF v
<1>3. Len(v) \in Nat /\ Len(v) >= 4
    BY <1>1, <1>2 DEF IsFrame, IsRequest, Message
<1>4. \A i \in 1..Len(v) : v[i].of = k
    <2>1. \A i \in 1..Len(v) : v[i] \in PieceOf(k)
        BY <1>2
    <2> QED BY <2>1 DEF PieceOf
<1> QED BY <1>1, <1>2, <1>3, <1>4 DEF m, v

(* A frame that is unread alone is taken, or thrown away if RTP is not over TCP. *)
LEMMA WholeFrame ==
    ASSUME stream \in Streams, NEW k \in 1..Len(stream), stream[k].method = "frame",
           NEW b \in Buffer, Unread(b) = MessageBytes(stream[k], k),
           handleRtpOverTcp(b) \/ ParseFails(b) \/ HandleRequest(b)
    PROVE  Len(Unread(buf')) = 0 /\ answers' = answers
<1> DEFINE v == Unread(b)
<1>1. /\ v \in Seq(Byte) /\ Len(v) \in Nat /\ Len(v) >= 4
      /\ \A i \in 1..Len(v) : v[i].of = k
      /\ IsFrame(stream[k], v)
    BY WholeMessage
<1>2. readableDataSize(b) = Len(v)
    BY UnreadType DEF readableDataSize
<1> HIDE DEF v
<1>3. CASE handleRtpOverTcp(b)
    <2>1. 4 \in 1..Len(v)
        BY <1>1
    <2>2. FrameSize(v) = Len(v)
        BY <1>1, <2>1 DEF FrameSize, IsFrame
    <2>3. answers' = answers /\ buf' = retrieve(b, Len(v))
        <3>1. readableDataSize(b) >= 4 /\ readableDataSize(b) >= FrameSize(v)
            BY <1>1, <1>2, <2>2
        <3> QED BY <1>3, <2>2, <3>1 DEF handleRtpOverTcp, v
    <2>4. Len(Unread(buf')) = IF Len(v) < Len(v) THEN Len(v) - Len(v) ELSE 0
        BY <1>1, <2>3, RetrieveLeaves DEF v
    <2> QED BY <1>1, <2>3, <2>4
<1>4. CASE ParseFails(b)
    <2>1. buf' = [mem |-> b.mem, r |-> 0, w |-> 0] /\ answers' = answers
        BY <1>4 DEF ParseFails, retrieveAll
    <2>2. buf' \in Buffer
        BY <2>1, UnreadType DEF Buffer, Cell
    <2> QED BY <2>1, <2>2, UnreadType
<1>5. ~HandleRequest(b)
    <2>1. CRLFs(v) = {}
        <3>1. "cr" \notin FrameKinds
            BY DEF FrameKinds
        <3>2. \A i \in 1..(Len(v) - 1) : i \in 1..Len(v)
            BY <1>1
        <3> QED BY <1>1, <3>1, <3>2 DEF CRLFs, IsFrame
    <2> QED BY <2>1 DEF HandleRequest, LineParsed, v
<1> QED BY <1>3, <1>4, <1>5

(* parseRequest on a whole request: the first CRLF is that of its line, the last *)
(* one its end, and in between is every header field that is wanted.             *)
LEMMA RequestParsed ==
    ASSUME NEW m \in Message, m.method # "frame", NEW k, NEW v \in Seq(Byte), IsRequest(m, v),
           \A i \in 1..Len(v) : v[i].of = k, stream[k] = m
    PROVE  /\ LineParsed(v) /\ HeadersParsed(v) /\ LineOf(v) = k
           /\ FirstCRLF(v) = 2 /\ LastCRLF(AfterLine(v)) = Len(v) - 4
<1> DEFINE a == AfterLine(v)
           h == Headers(v)
<1>1. Len(v) \in Nat /\ Len(v) >= 8
    BY DEF IsRequest
<1>2. CRLFs(v) # {} /\ FirstCRLF(v) = 2
    <2>1. 2 \in 1..(Len(v) - 1) /\ 2 + 1 = 3
        BY <1>1
    <2>2. 2 \in CRLFs(v)
        BY <2>1 DEF CRLFs, IsRequest
    <2>3. 1 \notin CRLFs(v)
        BY DEF CRLFs, IsRequest
    <2>4. FirstCRLF(v) \in CRLFs(v) /\ \A j \in CRLFs(v) : FirstCRLF(v) <= j
        BY <2>2, CRLFPlaces
    <2>5. FirstCRLF(v) \in 1..(Len(v) - 1) /\ FirstCRLF(v) <= 2 /\ FirstCRLF(v) # 1
        BY <2>2, <2>3, <2>4 DEF CRLFs
    <2> QED BY <1>1, <2>2, <2>5
<1>3. FirstLine(v) = {1} /\ v[1].kind = "line"
    <2>1. FirstLine(v) = {i \in 1..(2 - 1) : v[i].kind \notin {"cr", "lf"}}
        BY <1>2 DEF FirstLine
    <2>2. 1..(2 - 1) = {1}
        OBVIOUS
    <2>3. v[1].kind = "line"
        BY DEF IsRequest
    <2> QED BY <2>1, <2>2, <2>3
<1>4. LineParsed(v)
    BY <1>2, <1>3 DEF LineParsed
<1>5. LineOf(v) = k
    <2>1. (CHOOSE i \in FirstLine(v) : TRUE) = 1
        BY <1>3
    <2>2. 1 \in 1..Len(v)
        BY <1>1
    <2> QED BY <2>1, <2>2 DEF LineOf
<1>6. Method(v) = m.method
    BY <1>5 DEF Method
<1>7. a \in Seq(Byte) /\ Len(a) = Len(v) - 3 /\ \A j \in 1..Len(a) : a[j] = v[3 + j]
    <2>1. a = SubSeq(v, 2 + 2, Len(v))
        BY <1>2 DEF AfterLine
    <2> HIDE DEF a
    <2> QED BY <1>1, <2>1
<1>8. h = SubSeq(a, 1, LastCRLF(a) - 1)
    BY DEF Headers
<1> HIDE DEF a
<1>9. CRLFs(a) # {} /\ LastCRLF(a) = Len(v) - 4
    <2> DEFINE c == Len(v) - 4
    <2>1. c \in 1..(Len(a) - 1) /\ c \in 1..Len(a) /\ c + 1 \in 1..Len(a)
          /\ 3 + c = Len(v) - 1 /\ 3 + (c + 1) = Len(v) /\ Len(a) - 1 = c
        BY <1>1, <1>7
    <2> HIDE DEF c
    <2>2. a[c] = v[3 + c] /\ a[c + 1] = v[3 + (c + 1)]
        BY <1>7, <2>1
    <2>3. v[3 + c].kind = "cr" /\ v[3 + (c + 1)].kind = "lf"
        BY <2>1 DEF IsRequest
    <2>4. c \in CRLFs(a)
        BY <2>1, <2>2, <2>3 DEF CRLFs
    <2>5. LastCRLF(a) \in CRLFs(a) /\ \A j \in CRLFs(a) : LastCRLF(a) >= j
        BY <1>7, <2>4, CRLFPlaces
    <2>6. LastCRLF(a) >= c /\ LastCRLF(a) \in 1..(Len(a) - 1)
        BY <2>4, <2>5 DEF CRLFs
    <2>7. LastCRLF(a) = c
        BY <2>1, <2>6
    <2> QED BY <2>4, <2>7 DEF c
<1> HIDE DEF h
<1>10. Len(h) = Len(v) - 5 /\ Len(h) \in Nat /\ \A j \in 1..Len(h) : h[j] = v[3 + j]
    <2>1. h = SubSeq(a, 1, (Len(v) - 4) - 1)
        BY <1>8, <1>9
    <2>2. Len(h) = Len(v) - 5 /\ \A j \in 1..Len(h) : h[j] = a[j] /\ j \in 1..Len(a)
        BY <1>1, <1>7, <2>1
    <2> QED BY <1>1, <1>7, <2>2
<1>11. "cseq" \in Kinds(h)
    <2>1. 1 \in 1..Len(h) /\ h[1] = v[3 + 1]
        BY <1>1, <1>10
    <2>2. h[1].kind = "cseq"
        BY <2>1 DEF IsRequest
    <2> QED BY <2>1, <2>2 DEF Kinds
<1>12. Len(v) >= 11 => h[4] = v[7] /\ v[7].kind \in Kinds(h)
    <2> SUFFICES ASSUME Len(v) >= 11 PROVE h[4] = v[7] /\ v[7].kind \in Kinds(h)
        OBVIOUS
    <2>1. 4 \in 1..Len(h) /\ h[4] = v[3 + 4]
        BY <1>1, <1>10
    <2> QED BY <2>1 DEF Kinds
<1>13. HeadersParsed(v)
    <2>1. m.method = "SETUP" => "transport" \in Kinds(h)
        BY <1>12 DEF IsRequest
    <2>2. m.method = "PLAY" => "session" \in Kinds(h)
        BY <1>12 DEF IsRequest
    <2> QED BY <1>6, <1>9, <1>11, <2>1, <2>2 DEF HeadersParsed, a, h
<1> QED BY <1>2, <1>4, <1>5, <1>9, <1>13 DEF a

(* A request that is unread alone is taken whole and answered. *)
LEMMA WholeRequest ==
    ASSUME stream \in Streams, NEW k \in 1..Len(stream), stream[k].method # "frame",
           NEW b \in Buffer, Unread(b) = MessageBytes(stream[k], k),
           handleRtpOverTcp(b) \/ ParseFails(b) \/ HandleRequest(b)
    PROVE  Len(Unread(buf')) = 0 /\ \E c : answers' = Append(answers, [line |-> k, cseq |-> c])
<1> DEFINE v == Unread(b)
           m == stream[k]
<1>1. /\ m \in Message /\ v \in Seq(Byte) /\ Len(v) \in Nat
      /\ \A i \in 1..Len(v) : v[i].of = k
      /\ IsRequest(m, v)
    BY WholeMessage
<1> HIDE DEF v
<1>2. /\ LineParsed(v) /\ HeadersParsed(v) /\ LineOf(v) = k
      /\ FirstCRLF(v) = 2 /\ LastCRLF(AfterLine(v)) = Len(v) - 4
    BY <1>1, RequestParsed
<1>3. ~IsInterleaved(b)
    BY <1>1 DEF IsInterleaved, IsRequest, v
<1>4. HandleRequest(b)
    BY <1>2, <1>3 DEF handleRtpOverTcp, ParseFails, v
<1>5. answers' = Append(answers, [line |-> k, cseq |-> CSeq(v)])
    BY <1>2, <1>4 DEF HandleRequest, v
<1> DEFINE rest == retrieve(b, 3)
<1>6. buf' = retrieve(rest, Len(v) - 3)
    <2>1. 2 + 1 = 3 /\ (Len(v) - 4) + 1 = Len(v) - 3
        BY <1>1
    <2>2. buf' = retrieve(retrieve(b, FirstCRLF(v) + 1), LastCRLF(AfterLine(v)) + 1)
        BY <1>4 DEF HandleRequest, v
    <2> QED BY <1>2, <2>1, <2>2
<1>7. Len(v) >= 8
    BY <1>1 DEF IsRequest
<1>8. rest \in Buffer /\ Len(Unread(rest)) = Len(v) - 3
    <2>1. rest \in Buffer /\ Len(Unread(rest)) = IF 3 < Len(v) THEN Len(v) - 3 ELSE 0
        BY RetrieveLeaves DEF v
    <2> QED BY <1>1, <1>7, <2>1
<1> HIDE DEF rest
<1>9. Len(Unread(buf')) = 0
    <2>1. PICK l \in Nat : l = Len(v) - 3
        BY <1>1, <1>7
    <2>2. Len(Unread(buf')) = IF l < l THEN l - l ELSE 0
        BY <1>6, <1>8, <2>1, RetrieveLeaves
    <2> QED BY <2>1, <2>2
<1> QED BY <1>5, <1>9

(* Two borders with none in between have one message between them. *)
LEMMA OneMessage ==
    ASSUME stream \in Streams, NEW t \in Borders, NEW u \in Borders, t < u,
           \A i \in (t + 1)..(u - 1) : i \notin Borders
    PROVE  \E k \in 1..Len(stream) :
              /\ t = Border(stream, k - 1) /\ u = Border(stream, k)
              /\ Len(MessageBytes(stream[k], k)) = u - t
<1>1. /\ Len(stream) \in Nat /\ Border(stream, Len(stream)) = Len(Bytes(stream))
      /\ \A n \in 0..Len(stream) :
            Border(stream, n) \in Nat /\ Len(BytesUpTo(stream, n)) = Border(stream, n)
    BY StreamLayout
<1>2. PICK j \in 0..Len(stream) : u = Border(stream, j)
    BY <1>1 DEF Borders
<1>3. PICK i \in 0..Len(stream) : t = Border(stream, i)
    BY <1>1 DEF Borders
<1>4. t \in Nat /\ u \in Nat
    BY <1>1, <1>2, <1>3
<1>5. i < j
    <2>1. CASE j < i
        <3>1. Border(stream, j) < Border(stream, i)
            BY <2>1, BorderLess
        <3> QED BY <1>2, <1>3, <1>4, <3>1
    <2>2. CASE j = i
        BY <1>2, <1>3, <1>4, <2>2
    <2> QED BY <1>1, <2>1, <2>2
<1>6. t < Len(Bytes(stream))
    <2>1. CASE j = Len(stream)
        BY <1>1, <1>2, <2>1
    <2>2. CASE j < Len(stream)
        <3>1. Len(stream) \in 0..Len(stream)
            BY <1>1
        <3>2. Border(stream, j) < Border(stream, Len(stream))
            BY <2>2, <3>1, BorderLess
        <3> QED BY <1>1, <1>2, <1>4, <3>1, <3>2
    <2> QED BY <1>1, <2>1, <2>2
<1>7. PICK k \in 1..Len(stream) :
              /\ t = Border(stream, k - 1)
              /\ t + Len(MessageBytes(stream[k], k)) = Border(stream, k)
              /\ t + Len(MessageBytes(stream[k], k)) \in Borders
    BY <1>6, BorderBegins
<1> DEFINE l == Len(MessageBytes(stream[k], k))
<1>8. l \in Nat /\ l >= 4
    BY WholeMessage
<1>9. t = Border(stream, k - 1) /\ t + l = Border(stream, k) /\ t + l \in Borders
    BY <1>7
<1> HIDE DEF l
<1>10. k \in 0..Len(stream) /\ k - 1 \in 0..Len(stream) /\ k \in Nat
    BY <1>1
<1>11. j = k
    <2>1. CASE k < j
        <3>1. t + l < u
            <4>1. Border(stream, k) < Border(stream, j)
                BY <1>10, <2>1, BorderLess
            <4> QED BY <1>2, <1>9, <4>1
        <3>2. t + l \in (t + 1)..(u - 1)
            BY <1>4, <1>8, <3>1
        <3> QED BY <1>9, <3>2
    <2>2. CASE j < k
        <3>1. CASE j = k - 1
            BY <1>2, <1>4, <1>9, <3>1
        <3>2. CASE j < k - 1
            <4>1. Border(stream, j) < Border(stream, k - 1)
                BY <1>10, <3>2, BorderLess
            <4> QED BY <1>2, <1>4, <1>9, <4>1
        <3> QED BY <1>1, <1>10, <2>2, <3>1, <3>2
    <2> QED BY <1>1, <1>10, <2>1, <2>2
<1>12. l = u - t
    BY <1>2, <1>4, <1>8, <1>9, <1>11
<1> QED BY <1>2, <1>9, <1>11, <1>12 DEF l

(* Which requests have come by the place p. *)
Sent(p) == {k \in 1..Len(stream) : stream[k].method # "frame" /\ Len(BytesUpTo(stream, k)) <= p}

LEMMA SentUpTo ==
    ASSUME stream \in Streams, NEW n \in 0..Len(stream)
    PROVE  Sent(Border(stream, n)) = {k \in 1..n : stream[k].method # "frame"}
<1>1. /\ Len(stream) \in Nat
      /\ \A k \in 0..Len(stream) :
            Border(stream, k) \in Nat /\ Len(BytesUpTo(stream, k)) = Border(stream, k)
    BY StreamLayout
<1>2. ASSUME NEW k \in 1..Len(stream) PROVE Len(BytesUpTo(stream, k)) <= Border(stream, n) <=> k \in 1..n
    <2>1. k \in 0..Len(stream) /\ Len(BytesUpTo(stream, k)) = Border(stream, k)
        BY <1>1
    <2>2. CASE k < n
        <3>1. Border(stream, k) < Border(stream, n)
            BY <2>1, <2>2, BorderLess
        <3> QED BY <1>1, <2>1, <2>2, <3>1
    <2>3. CASE k = n
        BY <1>1, <2>1, <2>3
    <2>4. CASE n < k
        <3>1. Border(stream, n) < Border(stream, k)
            BY <2>1, <2>4, BorderLess
        <3> QED BY <1>1, <2>1, <2>4, <3>1
    <2> QED BY <1>1, <2>1, <2>2, <2>3, <2>4
<1>3. \A k \in 1..n : k \in 1..Len(stream)
    BY <1>1
<1> QED BY <1>2, <1>3 DEF Sent

ApartInv ==
    /\ AnswersInv
    /\ apart => /\ Len(Unread(buf)) = 0
                /\ {answers[i].line : i \in 1..Len(answers)} = Sent(received)

(* handleReadBytes: for any streams, as long as each read brings one whole    *)
(* message, every request is handled and nothing stays behind.                *)
THEOREM ApartIsEnough == Spec => []ApartLosesNothing
<1>1. Init => ApartInv
    <2> SUFFICES ASSUME Init PROVE ApartInv
        OBVIOUS
    <2>1. AnswersInv /\ InputInv /\ stream \in Streams
        BY InitAnswers DEF AnswersInv, InputInv
    <2>2. Len(Unread(buf)) = 0
        <3>1. buf \in Buffer /\ buf.r = 0 /\ buf.w = 0
            BY <2>1 DEF InputInv, Init, EmptyBuffer
        <3> QED BY <3>1, UnreadType
    <2>3. Sent(received) = {}
        <3>1. Border(stream, 0) = received /\ 0 \in 0..Len(stream)
            BY <2>1, StreamLayout DEF Init
        <3>2. Sent(received) = {k \in 1..0 : stream[k].method # "frame"}
            BY <2>1, <3>1, SentUpTo
        <3> QED BY <3>2
    <2>4. Len(answers) = 0
        BY DEF Init
    <2>5. {answers[i].line : i \in 1..Len(answers)} = {}
        BY <2>4
    <2> QED BY <2>1, <2>2, <2>3, <2>5 DEF ApartInv
<1>2. ApartInv /\ [Next]_vars => ApartInv'
    <2> SUFFICES ASSUME ApartInv, [Next]_vars PROVE ApartInv'
        OBVIOUS
    <2>1. AnswersInv' /\ AnswersInv /\ InputInv /\ stream \in Streams
        BY NextAnswers DEF ApartInv, AnswersInv, InputInv
    <2>2. CASE Next
        <3>1. PICK n \in 1..(Len(Bytes(stream)) - received) : handleRead(n)
            BY <2>2 DEF Next
        <3>2. PICK b \in Buffer :
              /\ received + n \in 0..Len(Bytes(stream))
              /\ Unread(b) \in Seq(Cell)
              /\ Len(Unread(b)) = Len(Unread(buf)) + n
              /\ Recent(Bytes(stream), Unread(b), received + n)
              /\ handleRtpOverTcp(b) \/ ParseFails(b) \/ HandleRequest(b)
              /\ stream' = stream /\ received' = received + n
            BY <2>1, <3>1, ReadGives
        <3>3. received \in Nat /\ n \in Nat /\ n > 0
            BY <2>1, TakenIsPlace
        <3>4. SUFFICES ASSUME apart'
                       PROVE  /\ Len(Unread(buf')) = 0
                              /\ {answers'[i].line : i \in 1..Len(answers')} = Sent(received + n)
            <4>1. Sent(received)' = Sent(received + n)
                BY <3>2 DEF Sent, BytesUpTo
            <4> QED BY <2>1, <3>4, <4>1 DEF ApartInv
        <3>5. /\ apart /\ received \in Borders /\ received + n \in Borders
              /\ \A i \in (received + 1)..(received + n - 1) : i \notin Borders
            BY <3>1, <3>4 DEF handleRead, Note
        <3>6. /\ Len(Unread(buf)) = 0
              /\ {answers[i].line : i \in 1..Len(answers)} = Sent(received)
            BY <3>5 DEF ApartInv
        <3>7. PICK k \in 1..Len(stream) :
              /\ received = Border(stream, k - 1) /\ received + n = Border(stream, k)
              /\ Len(MessageBytes(stream[k], k)) = (received + n) - received
            <4> DEFINE u == received + n
            <4>1. received < u /\ u \in Borders /\ \A i \in (received + 1)..(u - 1) : i \notin Borders
                BY <3>3, <3>5
            <4> HIDE DEF u
            <4>2. \E k \in 1..Len(stream) :
                    /\ received = Border(stream, k - 1) /\ u = Border(stream, k)
                    /\ Len(MessageBytes(stream[k], k)) = u - received
                BY <2>1, <3>5, <4>1, OneMessage
            <4> QED BY <4>2 DEF u
        <3> DEFINE m == MessageBytes(stream[k], k)
        <3>8. Len(m) = n
            BY <3>3, <3>7
        <3>9. Unread(b) = m
            <4>1. m \in Seq(Cell)
                BY <2>1, WholeMessage DEF Cell
            <4>2. Len(Unread(b)) = n
                BY <3>2, <3>3, <3>6
            <4>3. \A i \in 1..n : Unread(b)[i] = m[i]
                <5> SUFFICES ASSUME NEW i \in 1..n PROVE Unread(b)[i] = m[i]
                    OBVIOUS
                <5>1. Unread(b)[i] = Bytes(stream)[((received + n) - n) + i]
                    BY <3>2, <4>2 DEF Recent
                <5>2. ((received + n) - n) + i = Border(stream, k - 1) + i
                    <6>1. (received + n) - n = received
                        BY <3>3
                    <6> QED BY <3>7, <6>1
                <5>3. Bytes(stream)[Border(stream, k - 1) + i] = m[i]
                    <6>1. i \in 1..Len(m)
                        BY <3>8
                    <6> QED BY <2>1, <6>1, StreamAt
                <5> QED BY <5>1, <5>2, <5>3
            <4> HIDE DEF m
            <4>4. Len(m) = n /\ Len(Unread(b)) = n
                BY <3>8, <4>2
            <4> QED BY <3>2, <4>1, <4>3, <4>4
        <3>10. /\ Sent(received) = {j \in 1..(k - 1) : stream[j].method # "frame"}
               /\ Sent(received + n) = {j \in 1..k : stream[j].method # "frame"}
            <4>1. k - 1 \in 0..Len(stream) /\ k \in 0..Len(stream)
                BY <2>1, StreamLayout
            <4>2. Sent(Border(stream, k - 1)) = {j \in 1..(k - 1) : stream[j].method # "frame"}
                BY <2>1, <4>1, SentUpTo
            <4>3. Sent(Border(stream, k)) = {j \in 1..k : stream[j].method # "frame"}
                BY <2>1, <4>1, SentUpTo
            <4> QED BY <3>7, <4>2, <4>3
        <3>11. k \in Nat /\ k >= 1
            BY <2>1, StreamLayout
        <3>12. CASE stream[k].method = "frame"
            <4>1. Len(Unread(buf')) = 0 /\ answers' = answers
                BY <2>1, <3>2, <3>9, <3>12, WholeFrame
            <4>2. Sent(received + n) = Sent(received)
                BY <3>10, <3>11, <3>12
            <4> QED BY <3>6, <4>1, <4>2
        <3>13. CASE stream[k].method # "frame"
            <4>1. Len(Unread(buf')) = 0 /\ \E c : answers' = Append(answers, [line |-> k, cseq |-> c])
                BY <2>1, <3>2, <3>9, <3>13, WholeRequest
            <4>2. PICK c : answers' = Append(answers, [line |-> k, cseq |-> c])
                BY <4>1
            <4>3. answers \in Seq(Answer)
                BY <2>1 DEF AnswersInv, Answered
            <4>4. /\ Len(answers) \in Nat /\ Len(answers') = Len(answers) + 1
                  /\ \A i \in 1..Len(answers) : answers'[i] = answers[i]
                  /\ answers'[Len(answers) + 1].line = k
                <5> DEFINE x == [line |-> k, cseq |-> c]
                <5>1. x.line = k
                    OBVIOUS
                <5> HIDE DEF x
                <5>2. answers \in Seq(Answer \cup {x})
                    BY <4>3
                <5> QED BY <4>2, <5>1, <5>2 DEF x
            <4>5. {answers'[i].line : i \in 1..Len(answers')}
                     = {answers[i].line : i \in 1..Len(answers)} \cup {k}
                BY <4>4
            <4>6. Sent(received + n) = Sent(received) \cup {k}
                BY <3>10, <3>11, <3>13
            <4> QED BY <3>6, <4>1, <4>5, <4>6
        <3> QED BY <3>12, <3>13
    <2>3. CASE UNCHANGED vars
        <3>1. stream' = stream /\ received' = received /\ answers' = answers /\ apart' = apart
              /\ buf' = buf
            BY <2>3 DEF vars
        <3>2. Sent(received)' = Sent(received)
            BY <3>1 DEF Sent, BytesUpTo
        <3>3. Unread(buf)' = Unread(buf)
            BY <3>1 DEF Unread
        <3> QED BY <2>1, <3>1, <3>2, <3>3 DEF ApartInv
    <2> QED BY <2>2, <2>3
<1>3. ApartInv => ApartLosesNothing
    <2> SUFFICES ASSUME ApartInv, apart
                 PROVE  /\ Unread(buf) = <<>>
                        /\ {answers[i].line : i \in 1..Len(answers)} = Sent(received)
        BY DEF ApartLosesNothing, Sent
    <2>1. buf \in Buffer /\ Len(Unread(buf)) = 0
        BY DEF ApartInv, AnswersInv, InputInv
    <2>2. Unread(buf) \in Seq(Cell)
        BY <2>1, UnreadType
    <2>3. Unread(buf) = <<>>
        <3> HIDE DEF Unread
        <3> QED BY <2>1, <2>2
    <2> QED BY <2>3 DEF ApartInv
<1> QED BY <1>1, <1>2, <1>3, PTL DEF Spec

=============================================================================
