---------------------------- MODULE SequenceLemmas ----------------------------
(***************************************************************************)
(* What FlattenSeq computes.  It is defined by a recursive function, and    *)
(* its equation is proved by the least counterexample: were there a length  *)
(* without such a function, there would be a shortest.                      *)
(***************************************************************************)
EXTENDS Integers, Sequences, SequencesExt, WellFoundedInduction, TLAPS

(* A non-empty set of natural numbers has a least element, ... *)
LEMMA MinExists ==
    ASSUME NEW T \in SUBSET Nat, T # {}
    PROVE  \E m \in T : \A k \in T : m <= k
<1> DEFINE R == {ss \in Nat \X Nat : ss[1] < ss[2]}
<1>1. IsWellFoundedOn(R, Nat)
    BY NatLessThanWellFounded DEF OpToRel
<1>2. PICK m \in T : \A k \in T : ~(<<k, m>> \in R)
    <2> HIDE DEF R
    <2> QED BY <1>1, WFMin
<1>3. ASSUME NEW k \in T PROVE m <= k
    <2>1. m \in Nat /\ k \in Nat
        OBVIOUS
    <2>2. ~(k < m)
        BY <1>2, <2>1
    <2> QED BY <2>1, <2>2
<1> QED BY <1>3

(* ... so a set that has a and, with n, n + 1 up to b, has all of a..b. *)
LEMMA Induction ==
    ASSUME NEW T, NEW a \in Nat, NEW b \in Nat, a \in T,
           \A n \in a..(b - 1) : n \in T => n + 1 \in T
    PROVE  \A n \in a..b : n \in T
<1> DEFINE Bad == {n \in a..b : n \notin T}
<1> SUFFICES ASSUME Bad # {} PROVE FALSE
    OBVIOUS
<1>1. PICK m \in Bad : \A k \in Bad : m <= k
    <2> HIDE DEF Bad
    <2>1. Bad \in SUBSET Nat
        BY DEF Bad
    <2> QED BY <2>1, MinExists
<1>2. m \in a..b /\ m \notin T /\ m # a
    OBVIOUS
<1>3. m - 1 \in a..(b - 1) /\ m - 1 \in a..b /\ ~(m <= m - 1) /\ (m - 1) + 1 = m
    BY <1>2
<1>4. m - 1 \in T
    BY <1>1, <1>3
<1> QED BY <1>2, <1>3, <1>4

(* A bounded set of natural numbers has a greatest element. *)
LEMMA MaxExists ==
    ASSUME NEW n \in Nat, NEW T \in SUBSET (0..n), T # {}
    PROVE  \E m \in T : \A k \in T : m >= k
<1> DEFINE U == {n - i : i \in T}
<1>1. PICK m \in U : \A k \in U : m <= k
    <2>1. U # {}
        OBVIOUS
    <2>2. \A i \in T : n - i \in Nat
        OBVIOUS
    <2>3. U \in SUBSET Nat
        BY <2>2
    <2> HIDE DEF U
    <2> QED BY <2>1, <2>3, MinExists
<1>2. PICK i \in T : m = n - i
    OBVIOUS
<1>3. \A k \in T : n - i <= n - k
    BY <1>1, <1>2
<1>4. \A k \in T : k \in Int
    OBVIOUS
<1>5. i \in Int
    BY <1>2, <1>4
<1> QED BY <1>2, <1>3, <1>4, <1>5

-----------------------------------------------------------------------------
(* f holds the first n partial results of flattening s. *)
Flattens(s, n, f) ==
    f = [i \in 1..n |-> IF i = 1 THEN s[i] ELSE f[i - 1] \o s[i]]

LEMMA FlattensExists == ASSUME NEW s, NEW b \in Nat PROVE \E f : Flattens(s, b, f)
<1> DEFINE T == {n \in Nat : \E f : Flattens(s, n, f)}
<1>1. 0 \in T
    <2>1. Flattens(s, 0, [i \in 1..0 |-> 0])
        BY DEF Flattens
    <2> QED BY <2>1
<1>2. ASSUME NEW n \in 0..(b - 1), n \in T PROVE n + 1 \in T
    <2>1. PICK f : Flattens(s, n, f)
        BY <1>2
    <2> DEFINE m == n + 1
               g == [i \in 1..m |-> IF i < m THEN f[i]
                                    ELSE IF m = 1 THEN s[i] ELSE f[n] \o s[i]]
               h == [i \in 1..m |-> IF i = 1 THEN s[i] ELSE g[i - 1] \o s[i]]
    <2>2. m \in Nat \ {0} /\ m - 1 = n
        OBVIOUS
    <2> HIDE DEF m
    <2>3. ASSUME NEW i \in 1..m PROVE g[i] = h[i]
        <3>1. CASE i = m
            BY <2>2, <3>1
        <3>2. CASE i < m
            <4>1. i \in 1..n /\ (i # 1 => i - 1 \in 1..n)
                BY <2>2, <3>2
            <4>2. f[i] = IF i = 1 THEN s[i] ELSE f[i - 1] \o s[i]
                BY <2>1, <4>1 DEF Flattens
            <4>3. i # 1 => g[i - 1] = f[i - 1]
                BY <2>2, <4>1
            <4> QED BY <3>2, <4>2, <4>3
        <3> QED BY <2>2, <3>1, <3>2
    <2>4. g = h
        BY <2>3
    <2>5. Flattens(s, m, g)
        BY <2>4 DEF Flattens
    <2> HIDE DEF g
    <2> QED BY <2>2, <2>5 DEF m
<1> HIDE DEF T
<1>3. \A n \in 0..b : n \in T
    BY <1>1, <1>2, Induction
<1> QED BY <1>3 DEF T

LEMMA FlattenDef ==
    ASSUME NEW s, Len(s) \in Nat \ {0}
    PROVE  \E f : Flattens(s, Len(s), f) /\ FlattenSeq(s) = f[Len(s)]
<1> DEFINE f == CHOOSE g : Flattens(s, Len(s), g)
<1>1. \E g : Flattens(s, Len(s), g)
    BY FlattensExists
<1>2. Flattens(s, Len(s), f)
    BY <1>1
<1>3. FlattenSeq(s) = f[Len(s)]
    BY DEF FlattenSeq, Flattens
<1> QED BY <1>2, <1>3

(* The n-th partial result depends on the first n sequences only. *)
LEMMA FlattensAgree ==
    ASSUME NEW s, NEW t, NEW n \in Nat \ {0}, NEW m \in Nat, NEW f, NEW g,
           Flattens(s, n, f), Flattens(t, m, g), n <= m,
           \A i \in 1..n : s[i] = t[i]
    PROVE  \A i \in 1..n : f[i] = g[i]
<1> DEFINE T == {i \in 1..n : f[i] = g[i]}
<1>1. ASSUME NEW i \in 1..n
      PROVE  /\ f[i] = IF i = 1 THEN s[i] ELSE f[i - 1] \o s[i]
             /\ g[i] = IF i = 1 THEN s[i] ELSE g[i - 1] \o s[i]
    <2>1. i \in 1..m
        OBVIOUS
    <2> QED BY <2>1 DEF Flattens
<1>2. 1 \in T
    BY <1>1
<1>3. ASSUME NEW i \in 1..(n - 1), i \in T PROVE i + 1 \in T
    <2>1. i + 1 \in 1..n /\ i + 1 # 1 /\ (i + 1) - 1 = i
        OBVIOUS
    <2>2. f[i + 1] = f[i] \o s[i + 1] /\ g[i + 1] = g[i] \o s[i + 1]
        BY <1>1, <2>1
    <2> QED BY <1>3, <2>1, <2>2
<1> HIDE DEF T
<1>4. \A i \in 1..n : i \in T
    BY <1>2, <1>3, Induction
<1> QED BY <1>4 DEF T

LEMMA FlattenEmpty == FlattenSeq(<<>>) = <<>>
BY DEF FlattenSeq

LEMMA FlattenNext ==
    ASSUME NEW s, NEW u, NEW n \in Nat \ {0}, Len(s) = n, Len(u) = n + 1,
           \A i \in 1..n : s[i] = u[i]
    PROVE  FlattenSeq(u) = FlattenSeq(s) \o u[n + 1]
<1>1. PICK m \in Nat \ {0} : m = n + 1
    OBVIOUS
<1>2. PICK f : Flattens(s, n, f) /\ FlattenSeq(s) = f[n]
    BY FlattenDef
<1>3. PICK g : Flattens(u, m, g) /\ FlattenSeq(u) = g[m]
    BY <1>1, FlattenDef
<1>4. n <= m /\ n \in Nat /\ m \in Nat /\ n \in 1..n
    BY <1>1
<1>5. \A i \in 1..n : f[i] = g[i]
    BY <1>2, <1>3, <1>4, FlattensAgree
<1>6. g[m] = g[m - 1] \o u[m]
    <2>1. m \in 1..m /\ m # 1
        BY <1>1
    <2> QED BY <1>3, <2>1 DEF Flattens
<1>7. m - 1 = n
    BY <1>1
<1>8. g[n] = f[n]
    BY <1>4, <1>5
<1> QED BY <1>1, <1>2, <1>3, <1>6, <1>7, <1>8

LEMMA FlattenAppend ==
    ASSUME NEW S, NEW s \in Seq(Seq(S)), NEW t \in Seq(S)
    PROVE  FlattenSeq(Append(s, t)) = FlattenSeq(s) \o t
<1>1. CASE s = <<>>
    <2> DEFINE u == <<t>>
    <2>1. Len(u) = 1 /\ u[1] = t /\ Append(s, t) = u /\ <<>> \o t = t
        BY <1>1
    <2> HIDE DEF u
    <2>2. PICK f : Flattens(u, 1, f) /\ FlattenSeq(u) = f[1]
        BY <2>1, FlattenDef
    <2>3. f[1] = t
        BY <2>1, <2>2 DEF Flattens
    <2> QED BY <1>1, <2>1, <2>2, <2>3, FlattenEmpty
<1>2. CASE s # <<>>
    <2> DEFINE u == Append(s, t)
    <2>1. /\ Len(s) \in Nat \ {0} /\ Len(u) = Len(s) + 1 /\ u[Len(s) + 1] = t
          /\ \A i \in 1..Len(s) : s[i] = u[i]
        BY <1>2
    <2> HIDE DEF u
    <2>2. FlattenSeq(u) = FlattenSeq(s) \o u[Len(s) + 1]
        BY <2>1, FlattenNext
    <2> QED BY <2>1, <2>2 DEF u
<1> QED BY <1>1, <1>2

LEMMA FlattenOne ==
    ASSUME NEW S, NEW t \in Seq(S)
    PROVE  FlattenSeq(<<t>>) = t
<1>1. <<>> \in Seq(Seq(S)) /\ Append(<<>>, t) = <<t>> /\ <<>> \o t = t
    OBVIOUS
<1> QED BY <1>1, FlattenAppend, FlattenEmpty

(* The first n of s. *)
Upto(s, n) == SubSeq(s, 1, n)

LEMMA UptoNext ==
    ASSUME NEW S, NEW s \in Seq(S), NEW n \in 0..(Len(s) - 1)
    PROVE  /\ Upto(s, n) \in Seq(S) /\ Len(Upto(s, n)) = n
           /\ Upto(s, n + 1) = Append(Upto(s, n), s[n + 1])
<1>1. Upto(s, n) \in Seq(S) /\ Len(Upto(s, n)) = n
    BY DEF Upto
<1>2. s[n + 1] \in S /\ Upto(s, n + 1) \in Seq(S) /\ Len(Upto(s, n + 1)) = n + 1
    BY DEF Upto
<1>3. \A i \in 1..(n + 1) : Upto(s, n + 1)[i] = Append(Upto(s, n), s[n + 1])[i]
    BY <1>1, <1>2 DEF Upto
<1>4. Len(Append(Upto(s, n), s[n + 1])) = n + 1 /\ Append(Upto(s, n), s[n + 1]) \in Seq(S)
    BY <1>1, <1>2
<1> DEFINE a == Upto(s, n + 1)
           b == Append(Upto(s, n), s[n + 1])
<1> HIDE DEF a, b
<1>5. a = b
    BY <1>2, <1>3, <1>4 DEF a, b
<1> QED BY <1>1, <1>5 DEF a, b

LEMMA FlattenType ==
    ASSUME NEW S, NEW s \in Seq(Seq(S))
    PROVE  \A n \in 0..Len(s) : FlattenSeq(Upto(s, n)) \in Seq(S)
<1> DEFINE T == {n \in 0..Len(s) : FlattenSeq(Upto(s, n)) \in Seq(S)}
<1>1. 0 \in T
    <2>1. Upto(s, 0) = <<>> /\ <<>> \in Seq(S) /\ 0 \in 0..Len(s)
        BY DEF Upto
    <2>2. FlattenSeq(Upto(s, 0)) = <<>>
        BY <2>1, FlattenEmpty
    <2> QED BY <2>1, <2>2
<1>2. ASSUME NEW n \in 0..(Len(s) - 1), n \in T PROVE n + 1 \in T
    <2> DEFINE a == FlattenSeq(Upto(s, n))
               b == s[n + 1]
    <2>1. /\ Upto(s, n) \in Seq(Seq(S)) /\ b \in Seq(S)
          /\ Upto(s, n + 1) = Append(Upto(s, n), b)
        BY UptoNext
    <2>2. FlattenSeq(Upto(s, n + 1)) = a \o b
        BY <2>1, FlattenAppend
    <2>3. a \in Seq(S)
        BY <1>2
    <2> HIDE DEF a, b
    <2>4. a \o b \in Seq(S)
        BY <2>1, <2>3
    <2>5. n + 1 \in 0..Len(s)
        OBVIOUS
    <2> QED BY <2>2, <2>4, <2>5
<1> HIDE DEF T
<1>3. \A n \in 0..Len(s) : n \in T
    <2>1. Len(s) \in Nat
        OBVIOUS
    <2> QED BY <1>1, <1>2, <2>1, Induction
<1> QED BY <1>3 DEF T

LEMMA UptoAll ==
    ASSUME NEW S, NEW s \in Seq(S)
    PROVE  Upto(s, Len(s)) = s /\ Upto(s, 0) = <<>>
BY DEF Upto

(* Where the n-th sequence ends in the flattened one. *)
Offset(s, n) == Len(FlattenSeq(Upto(s, n)))

LEMMA OffsetNext ==
    ASSUME NEW S, NEW s \in Seq(Seq(S))
    PROVE  /\ FlattenSeq(s) \in Seq(S) /\ Offset(s, Len(s)) = Len(FlattenSeq(s))
           /\ Offset(s, 0) = 0
           /\ \A n \in 0..Len(s) : Offset(s, n) \in Nat
           /\ \A n \in 0..(Len(s) - 1) :
                /\ FlattenSeq(Upto(s, n + 1)) = FlattenSeq(Upto(s, n)) \o s[n + 1]
                /\ Offset(s, n + 1) = Offset(s, n) + Len(s[n + 1])
<1>1. \A n \in 0..Len(s) : FlattenSeq(Upto(s, n)) \in Seq(S) /\ Offset(s, n) \in Nat
    BY FlattenType DEF Offset
<1>2. FlattenSeq(s) \in Seq(S) /\ Offset(s, Len(s)) = Len(FlattenSeq(s)) /\ Offset(s, 0) = 0
    <2>1. Len(s) \in 0..Len(s) /\ Upto(s, Len(s)) = s /\ Upto(s, 0) = <<>>
        BY UptoAll
    <2> QED BY <1>1, <2>1, FlattenEmpty DEF Offset
<1>3. ASSUME NEW n \in 0..(Len(s) - 1)
      PROVE  /\ FlattenSeq(Upto(s, n + 1)) = FlattenSeq(Upto(s, n)) \o s[n + 1]
             /\ Offset(s, n + 1) = Offset(s, n) + Len(s[n + 1])
    <2>1. /\ Upto(s, n) \in Seq(Seq(S)) /\ s[n + 1] \in Seq(S)
          /\ Upto(s, n + 1) = Append(Upto(s, n), s[n + 1])
        BY UptoNext
    <2>2. FlattenSeq(Upto(s, n + 1)) = FlattenSeq(Upto(s, n)) \o s[n + 1]
        BY <2>1, FlattenAppend
    <2>3. n \in 0..Len(s)
        OBVIOUS
    <2>4. Len(FlattenSeq(Upto(s, n)) \o s[n + 1]) = Len(FlattenSeq(Upto(s, n))) + Len(s[n + 1])
        BY <1>1, <2>1, <2>3
    <2> QED BY <2>2, <2>4 DEF Offset
<1> QED BY <1>1, <1>2, <1>3

(* Sequences with the same elements in the same places are equal. *)
LEMMA SameSeq ==
    ASSUME NEW S, NEW s \in Seq(S), NEW t \in Seq(S), Len(s) = Len(t),
           \A i \in 1..Len(s) : s[i] = t[i]
    PROVE  s = t
OBVIOUS

(* What is in v from behind a to b. *)
LEMMA Part ==
    ASSUME NEW S, NEW v \in Seq(S), NEW a \in Nat, NEW b \in Nat, a <= b, b <= Len(v)
    PROVE  /\ SubSeq(v, a + 1, b) \in Seq(S) /\ Len(SubSeq(v, a + 1, b)) = b - a
           /\ \A j \in 1..(b - a) : SubSeq(v, a + 1, b)[j] = v[a + j] /\ a + j \in 1..Len(v)
<1>1. PICK n \in Nat : n = Len(v)
    OBVIOUS
<1>2. SubSeq(v, a + 1, b) = [j \in 1..(b - a) |-> v[a + j]]
    <2>1. 1..((b - (a + 1)) + 1) = 1..(b - a)
        OBVIOUS
    <2>2. SubSeq(v, a + 1, b) = [j \in 1..((b - (a + 1)) + 1) |-> v[(a + 1) + j - 1]]
        OBVIOUS
    <2>3. \A j \in 1..(b - a) : (a + 1) + j - 1 = a + j
        OBVIOUS
    <2> QED BY <2>1, <2>2, <2>3
<1>3. \A j \in 1..(b - a) : a + j \in 1..n /\ v[a + j] \in S
    BY <1>1
<1> QED BY <1>1, <1>2, <1>3

(* What is left of a sequence without its first n elements. *)
LEMMA DropFirst ==
    ASSUME NEW S, NEW v \in Seq(S), NEW n \in 0..Len(v)
    PROVE  /\ SubSeq(v, n + 1, Len(v)) \in Seq(S)
           /\ Len(SubSeq(v, n + 1, Len(v))) = Len(v) - n
           /\ \A j \in 1..(Len(v) - n) :
                 SubSeq(v, n + 1, Len(v))[j] = v[n + j] /\ n + j \in 1..Len(v)
<1>1. Len(v) \in Nat /\ n \in Nat /\ n <= Len(v) /\ Len(v) <= Len(v)
    OBVIOUS
<1> QED BY <1>1, Part


(* c is a followed by b, place by place. *)
Joined(c, a, b) ==
    /\ Len(c) = Len(a) + Len(b)
    /\ \A i \in 1..Len(a) : c[i] = a[i]
    /\ \A j \in 1..Len(b) : c[Len(a) + j] = b[j]

LEMMA ConcatAt ==
    ASSUME NEW S, NEW a \in Seq(S), NEW b \in Seq(S)
    PROVE  a \o b \in Seq(S) /\ Joined(a \o b, a, b)
BY DEF Joined

(* What is flattened first stays where it is. *)
LEMMA FlattenPrefix ==
    ASSUME NEW S, NEW s \in Seq(Seq(S)), NEW n \in 0..Len(s), NEW m \in n..Len(s)
    PROVE  /\ Offset(s, n) <= Offset(s, m)
           /\ \A i \in 1..Offset(s, n) : FlattenSeq(Upto(s, m))[i] = FlattenSeq(Upto(s, n))[i]
<1> DEFINE F(k) == FlattenSeq(Upto(s, k))
           T == {k \in n..Len(s) : /\ Offset(s, n) <= Offset(s, k)
                                   /\ \A i \in 1..Offset(s, n) : F(k)[i] = F(n)[i]}
<1>1. Len(s) \in Nat /\ \A k \in 0..Len(s) : Offset(s, k) \in Nat /\ F(k) \in Seq(S)
    BY OffsetNext, FlattenType
<1>2. n \in T
    BY <1>1
<1>3. ASSUME NEW k \in n..(Len(s) - 1), k \in T PROVE k + 1 \in T
    <2>1. k \in 0..(Len(s) - 1) /\ k \in 0..Len(s) /\ k + 1 \in n..Len(s) /\ n \in 0..Len(s)
        BY <1>1
    <2>2. F(k + 1) = F(k) \o s[k + 1] /\ Offset(s, k + 1) = Offset(s, k) + Len(s[k + 1])
        BY <2>1, OffsetNext
    <2>3. s[k + 1] \in Seq(S) /\ Len(s[k + 1]) \in Nat
        <3>1. k + 1 \in 1..Len(s)
            BY <2>1
        <3>2. s[k + 1] \in Seq(S)
            BY <3>1
        <3> QED BY <3>2
    <2>4. F(k) \in Seq(S) /\ Len(F(k)) = Offset(s, k) /\ Offset(s, k) \in Nat /\ Offset(s, n) \in Nat
        BY <1>1, <2>1 DEF Offset
    <2> HIDE DEF F
    <2>5. Offset(s, n) <= Offset(s, k) /\ \A i \in 1..Offset(s, n) : F(k)[i] = F(n)[i]
        BY <1>3
    <2>6. ASSUME NEW i \in 1..Offset(s, n) PROVE F(k + 1)[i] = F(n)[i]
        <3>1. i \in 1..Len(F(k))
            BY <2>4, <2>5
        <3>2. (F(k) \o s[k + 1])[i] = F(k)[i]
            BY <2>3, <2>4, <3>1
        <3> QED BY <2>2, <2>5, <3>2
    <2>7. Offset(s, n) <= Offset(s, k + 1)
        BY <2>2, <2>3, <2>4, <2>5
    <2> QED BY <2>1, <2>6, <2>7
<1> HIDE DEF T
<1>4. \A k \in n..Len(s) : k \in T
    <2>1. n \in Nat
        OBVIOUS
    <2> QED BY <1>1, <1>2, <1>3, <2>1, Induction
<1> QED BY <1>4 DEF T

(* Where the j-th element of the k-th sequence is. *)
LEMMA FlattenAt ==
    ASSUME NEW S, NEW s \in Seq(Seq(S)), NEW k \in 1..Len(s), NEW j \in 1..Len(s[k])
    PROVE  /\ Offset(s, k - 1) + j \in 1..Offset(s, k)
           /\ Offset(s, k - 1) + j \in 1..Len(FlattenSeq(s))
           /\ FlattenSeq(s)[Offset(s, k - 1) + j] = s[k][j]
<1> DEFINE n == k - 1
           a == FlattenSeq(Upto(s, n))
           b == s[k]
           c == a \o b
<1>1. Len(s) \in Nat /\ n \in 0..(Len(s) - 1) /\ n + 1 = k /\ n \in 0..Len(s) /\ k \in 0..Len(s)
    OBVIOUS
<1> HIDE DEF n
<1>2. FlattenSeq(Upto(s, k)) = c /\ Offset(s, k) = Offset(s, n) + Len(b)
    BY <1>1, OffsetNext
<1>3. a \in Seq(S) /\ b \in Seq(S) /\ Len(a) = Offset(s, n) /\ Offset(s, n) \in Nat
    <2>1. b \in Seq(S)
        OBVIOUS
    <2> QED BY <1>1, <2>1, FlattenType, OffsetNext DEF Offset
<1>4. j \in 1..Len(b)
    OBVIOUS
<1> HIDE DEF a, b
<1> HIDE DEF c
<1>5. c[Offset(s, n) + j] = b[j] /\ Offset(s, n) + j \in 1..Offset(s, k)
    <2>1. c[Len(a) + j] = b[j]
        <3>1. Joined(c, a, b)
            BY <1>3, ConcatAt DEF c
        <3> QED BY <1>3, <1>4, <3>1 DEF Joined
    <2>2. Len(b) \in Nat
        BY <1>3
    <2> QED BY <1>2, <1>3, <1>4, <2>1, <2>2
<1>6. /\ Offset(s, k) <= Offset(s, Len(s))
      /\ \A i \in 1..Offset(s, k) : FlattenSeq(Upto(s, Len(s)))[i] = FlattenSeq(Upto(s, k))[i]
    <2>1. Len(s) \in k..Len(s)
        BY <1>1
    <2> QED BY <1>1, <2>1, FlattenPrefix
<1>7. Upto(s, Len(s)) = s /\ Offset(s, Len(s)) = Len(FlattenSeq(s)) /\ Len(FlattenSeq(s)) \in Nat
      /\ Offset(s, k) \in Nat
    BY <1>1, UptoAll, OffsetNext
<1>8. FlattenSeq(s)[Offset(s, n) + j] = c[Offset(s, n) + j]
    BY <1>2, <1>5, <1>6, <1>7
<1>9. Offset(s, n) + j \in 1..Len(FlattenSeq(s))
    BY <1>3, <1>5, <1>6, <1>7
<1> QED BY <1>5, <1>8, <1>9 DEF n, b

(* Every element comes from one of the sequences. *)
LEMMA FlattenFind ==
    ASSUME NEW S, NEW s \in Seq(Seq(S)), NEW i \in 1..Len(FlattenSeq(s))
    PROVE  \E k \in 1..Len(s) : \E j \in 1..Len(s[k]) : i = Offset(s, k - 1) + j
<1> DEFINE Found(n) == \E k \in 1..n : \E j \in 1..Len(s[k]) : i = Offset(s, k - 1) + j
           T == {n \in 0..Len(s) : i <= Offset(s, n) => Found(n)}
<1>1. Len(s) \in Nat /\ Offset(s, Len(s)) = Len(FlattenSeq(s)) /\ Offset(s, 0) = 0
      /\ \A n \in 0..Len(s) : Offset(s, n) \in Nat
    BY OffsetNext
<1>2. 0 \in T
    BY <1>1
<1>3. ASSUME NEW n \in 0..(Len(s) - 1), n \in T PROVE n + 1 \in T
    <2>1. /\ n + 1 \in 0..Len(s) /\ n + 1 \in 1..Len(s) /\ n \in 0..Len(s)
          /\ Offset(s, n + 1) = Offset(s, n) + Len(s[n + 1])
        BY <1>1, OffsetNext
    <2>2. Len(s[n + 1]) \in Nat
        <3>1. s[n + 1] \in Seq(S)
            BY <2>1
        <3> QED BY <3>1
    <2>3. CASE i <= Offset(s, n)
        <3>1. Found(n)
            BY <1>3, <2>3
        <3>2. 1..n \subseteq 1..(n + 1)
            OBVIOUS
        <3>3. Found(n + 1)
            BY <3>1, <3>2
        <3> QED BY <2>1, <3>3
    <2>4. CASE i > Offset(s, n) /\ i <= Offset(s, n + 1)
        <3> DEFINE j == i - Offset(s, n)
        <3>1. j \in 1..Len(s[n + 1]) /\ i = Offset(s, n) + j
            <4>1. PICK x \in Nat : x = Offset(s, n)
                BY <1>1, <2>1
            <4>2. PICK y \in Nat : y = Len(s[n + 1])
                BY <2>2
            <4>3. i \in Nat /\ i > x /\ i <= x + y
                BY <2>1, <2>2, <2>4, <4>1, <4>2
            <4>4. i - x \in 1..y /\ i = x + (i - x)
                BY <4>3
            <4> QED BY <4>1, <4>2, <4>4
        <3>2. n + 1 \in 1..(n + 1) /\ (n + 1) - 1 = n
            OBVIOUS
        <3> HIDE DEF j
        <3>3. Found(n + 1)
            BY <3>1, <3>2
        <3> QED BY <2>1, <3>3
    <2>5. CASE ~(i <= Offset(s, n + 1))
        BY <2>1, <2>5
    <2> QED BY <1>1, <2>1, <2>3, <2>4, <2>5
<1> HIDE DEF T
<1>4. \A n \in 0..Len(s) : n \in T
    BY <1>1, <1>2, <1>3, Induction
<1>5. Len(s) \in T /\ i <= Offset(s, Len(s))
    BY <1>1, <1>4
<1> QED BY <1>5 DEF T

(* What is behind the k-th sequence, flattened, is the rest of what s flattens to. *)
Behind(s, k, t) == Len(t) = Len(s) - k /\ \A j \in 1..Len(t) : t[j] = s[k + j]

SuffixAt(s, k, t) ==
    /\ \A j \in 0..Len(t) : Offset(s, k + j) = Offset(s, k) + Offset(t, j)
    /\ Len(FlattenSeq(s)) = Offset(s, k) + Len(FlattenSeq(t))
    /\ \A x \in 1..Len(FlattenSeq(t)) : FlattenSeq(t)[x] = FlattenSeq(s)[Offset(s, k) + x]

LEMMA FlattenSuffix ==
    ASSUME NEW S, NEW s \in Seq(Seq(S)), NEW k \in 0..Len(s), NEW t \in Seq(Seq(S)),
           Behind(s, k, t)
    PROVE  SuffixAt(s, k, t)
<1>0. Len(t) = Len(s) - k /\ \A j \in 1..Len(t) : t[j] = s[k + j]
    BY DEF Behind
<1>1. PICK ls \in Nat, lt \in Nat : ls = Len(s) /\ lt = Len(t) /\ k \in 0..ls /\ k + lt = ls
    <2>1. Len(s) \in Nat /\ Len(t) \in Nat
        OBVIOUS
    <2> QED BY <1>0, <2>1
<1> DEFINE T == {j \in 0..lt : Offset(s, k + j) = Offset(s, k) + Offset(t, j)}
<1>2. /\ Offset(t, 0) = 0 /\ Offset(t, lt) = Len(FlattenSeq(t)) /\ Offset(s, ls) = Len(FlattenSeq(s))
      /\ \A n \in 0..ls : Offset(s, n) \in Nat
      /\ \A n \in 0..lt : Offset(t, n) \in Nat
      /\ \A n \in 0..(ls - 1) : Offset(s, n + 1) = Offset(s, n) + Len(s[n + 1])
      /\ \A n \in 0..(lt - 1) : Offset(t, n + 1) = Offset(t, n) + Len(t[n + 1])
    BY <1>1, OffsetNext
<1>3. 0 \in T
    <2>1. k + 0 = k
        BY <1>1
    <2> QED BY <1>1, <1>2, <2>1
<1>4. ASSUME NEW n \in 0..(lt - 1), n \in T PROVE n + 1 \in T
    <2>1. PICK m \in Nat : m = k + n
        BY <1>1
    <2>2. m \in 0..(ls - 1) /\ m + 1 = k + (n + 1) /\ n + 1 \in 1..lt
        BY <1>1, <2>1
    <2>3. s[m + 1] = t[n + 1]
        BY <1>0, <1>1, <2>2
    <2>4. Len(t[n + 1]) \in Nat
        <3>1. t[n + 1] \in Seq(S)
            BY <1>1, <2>2
        <3> QED BY <3>1
    <2>5. Offset(s, m) = Offset(s, k) + Offset(t, n)
        BY <1>4, <2>1
    <2>6. Offset(s, m + 1) = Offset(s, m) + Len(t[n + 1]) /\ Offset(t, n + 1) = Offset(t, n) + Len(t[n + 1])
        BY <1>2, <2>2, <2>3
    <2>7. Offset(s, k) \in Nat /\ Offset(t, n) \in Nat
        <3>1. n \in 0..lt
            BY <1>1
        <3> QED BY <1>1, <1>2, <3>1
    <2>8. Offset(s, k + (n + 1)) = Offset(s, k) + Offset(t, n + 1)
        <3>1. PICK a \in Nat : a = Offset(s, k)
            BY <2>7
        <3>2. PICK b \in Nat : b = Offset(t, n)
            BY <2>7
        <3>3. PICK d \in Nat : d = Len(t[n + 1])
            BY <2>4
        <3>4. Offset(s, m + 1) = a + b + d /\ Offset(t, n + 1) = b + d
            BY <2>5, <2>6, <3>1, <3>2, <3>3
        <3>5. a + b + d = a + (b + d)
            OBVIOUS
        <3> QED BY <2>2, <3>1, <3>4, <3>5
    <2>9. n + 1 \in 0..lt
        BY <2>2
    <2> QED BY <2>8, <2>9
<1>5. \A n \in 0..lt : n \in T
    <2> HIDE DEF T
    <2> QED BY <1>1, <1>3, <1>4, Induction
<1>6. \A j \in 0..lt : Offset(s, k + j) = Offset(s, k) + Offset(t, j)
    BY <1>5
<1> HIDE DEF T
<1>7. Len(FlattenSeq(s)) = Offset(s, k) + Len(FlattenSeq(t))
    <2>1. lt \in 0..lt
        BY <1>1
    <2>2. Offset(s, ls) = Offset(s, k) + Offset(t, lt)
        BY <1>1, <1>6, <2>1
    <2> QED BY <1>2, <2>2
<1>8. ASSUME NEW x \in 1..Len(FlattenSeq(t)) PROVE FlattenSeq(t)[x] = FlattenSeq(s)[Offset(s, k) + x]
    <2>1. PICK j \in 1..lt : \E y \in 1..Len(t[j]) : x = Offset(t, j - 1) + y
        BY <1>1, FlattenFind
    <2>2. PICK y \in 1..Len(t[j]) : x = Offset(t, j - 1) + y
        BY <2>1
    <2>3. PICK m \in 1..ls : m = k + j
        BY <1>1
    <2>4. t[j] = s[m]
        BY <1>0, <1>1, <2>3
    <2>5. FlattenSeq(t)[x] = t[j][y]
        <3>1. j \in 1..Len(t)
            BY <1>1
        <3>2. FlattenSeq(t)[Offset(t, j - 1) + y] = t[j][y]
            BY <3>1, FlattenAt
        <3> QED BY <2>2, <3>2
    <2>6. FlattenSeq(s)[Offset(s, m - 1) + y] = s[m][y]
        <3>1. m \in 1..Len(s) /\ y \in 1..Len(s[m])
            BY <1>1, <2>4
        <3> QED BY <3>1, FlattenAt
    <2>7. j - 1 \in 0..lt /\ m - 1 = k + (j - 1)
        BY <1>1, <2>3
    <2>8. Offset(s, m - 1) = Offset(s, k) + Offset(t, j - 1)
        BY <1>6, <2>7
    <2>9. Offset(s, k) \in Nat /\ Offset(t, j - 1) \in Nat
        BY <1>1, <1>2, <2>7
    <2>10. y \in Nat
        OBVIOUS
    <2>11. Offset(s, m - 1) + y = Offset(s, k) + x
        BY <2>2, <2>8, <2>9, <2>10
    <2> QED BY <2>4, <2>5, <2>6, <2>11
<1> QED BY <1>1, <1>6, <1>7, <1>8 DEF SuffixAt

=============================================================================
