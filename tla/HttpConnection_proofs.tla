----------------------- MODULE HttpConnection_proofs -----------------------
(***************************************************************************)
(* Proofs about HttpConnection.                                            *)
(***************************************************************************)
EXTENDS HttpConnection, SequenceLemmas, TLAPS

-----------------------------------------------------------------------------
(* Sequences: those elements of one that are in a set. *)

Keeps(f, seq, set) ==
  /\ f[0] = <<>>
  /\ \A n \in 1..Len(seq) : f[n] = IF seq[n] \in set THEN Append(f[n - 1], seq[n]) ELSE f[n - 1]

LEMMA OnlyIterates ==
  ASSUME NEW S, NEW seq \in Seq(S), NEW set
  PROVE  \E f : Keeps(f, seq, set) /\ Only(seq, set) = f[Len(seq)]
<1> DEFINE N == Len(seq)
           One(kept, n) == IF seq[n] \in set THEN Append(kept, seq[n]) ELSE kept
           Eqn(f, k) == f = [n \in 0..k |-> IF n = 0 THEN <<>> ELSE One(f[n - 1], n)]
           T == {k \in 0..N : \E f : Eqn(f, k)}
<1>1. N \in Nat
  OBVIOUS
<1> HIDE DEF N
<1>2. 0 \in T
  <2>1. PICK f : f = [n \in 0..0 |-> <<>>]
    OBVIOUS
  <2> HIDE DEF One
  <2>2. Eqn(f, 0)
    BY <2>1
  <2> QED  BY <1>1, <2>2
<1>3. \A k \in 1..N : k - 1 \in T => k \in T
  <2> HIDE DEF One
  <2> SUFFICES ASSUME NEW k \in 1..N, k - 1 \in T  PROVE \E f : Eqn(f, k)
    BY <1>1, SMTT(30)
  <2>1. PICK g : Eqn(g, k - 1)
    OBVIOUS
  <2>2. PICK f : f = [n \in 0..k |-> IF n = k THEN One(g[k - 1], k) ELSE g[n]]
    OBVIOUS
  <2>3. \A n \in 0..k : f[n] = IF n = 0 THEN <<>> ELSE One(f[n - 1], n)
    <3> SUFFICES ASSUME NEW n \in 0..k  PROVE f[n] = IF n = 0 THEN <<>> ELSE One(f[n - 1], n)
      OBVIOUS
    <3>1. CASE n = k
      <4>1. k # 0 /\ k - 1 \in 0..k /\ k - 1 # k
        BY <1>1
      <4> QED  BY <2>2, <3>1, <4>1
    <3>2. CASE n # k
      <4>1. n \in 0..(k - 1) /\ f[n] = g[n]
        BY <1>1, <2>2, <3>2
      <4>2. n # 0 => n - 1 \in 0..k /\ n - 1 # k /\ f[n - 1] = g[n - 1]
        BY <1>1, <2>2, <3>2
      <4>3. g[n] = IF n = 0 THEN <<>> ELSE One(g[n - 1], n)
        BY <2>1, <4>1
      <4> QED  BY <4>1, <4>2, <4>3
    <3> QED  BY <3>1, <3>2
  <2>4. f = [n \in 0..k |-> f[n]]
    BY <2>2
  <2>5. Eqn(f, k)
    BY <2>3, <2>4
  <2> QED  BY <2>5
<1>4. PICK g : Eqn(g, N)
  <2> HIDE DEF Eqn, T
  <2>1. 0..N \subseteq T
    BY <1>1, <1>2, <1>3, BoundedInduction
  <2>2. N \in T
    BY <1>1, <2>1
  <2> QED  BY <2>2 DEF T
<1>5. PICK f : f = (CHOOSE h : Eqn(h, N))
  OBVIOUS
<1>6. Eqn(f, N)
  BY <1>4, <1>5
<1>7. Only(seq, set) = f[N]
  BY <1>5 DEF Only, One, N
<1>8. \A n \in 0..N : f[n] = IF n = 0 THEN <<>> ELSE One(f[n - 1], n)
  <2> HIDE DEF One
  <2> QED  BY <1>6, Zenon
<1>9. Keeps(f, seq, set)
  <2>1. f[0] = <<>>
    BY <1>1, <1>8
  <2>2. \A n \in 1..N : f[n] = One(f[n - 1], n)
    <3> HIDE DEF One
    <3> QED  BY <1>1, <1>8
  <2> QED  BY <2>1, <2>2 DEF Keeps, N
<1> QED  BY <1>7, <1>9 DEF N

LEMMA OnlyEmpty == ASSUME NEW set  PROVE Only(<<>>, set) = <<>>
<1>1. PICK seq : seq = <<>>
  OBVIOUS
<1>2. seq \in Seq({}) /\ Len(seq) = 0
  BY <1>1
<1>3. PICK f : Keeps(f, seq, set) /\ Only(seq, set) = f[Len(seq)]
  BY <1>2, OnlyIterates
<1> QED  BY <1>1, <1>2, <1>3 DEF Keeps

LEMMA OnlyAppend ==
  ASSUME NEW S, NEW seq \in Seq(S), NEW e \in S, NEW set
  PROVE  Only(Append(seq, e), set) = IF e \in set THEN Append(Only(seq, set), e) ELSE Only(seq, set)
<1> DEFINE N == Len(seq)
<1>1. PICK g : Keeps(g, seq, set) /\ Only(seq, set) = g[N]
  BY OnlyIterates
<1>2. PICK l : l = Append(seq, e)
  OBVIOUS
<1>3. l \in Seq(S) /\ Len(l) = N + 1 /\ l[N + 1] = e /\ \A n \in 1..N : l[n] = seq[n]
  BY <1>2, AppendProperties
<1>4. PICK h : Keeps(h, l, set) /\ Only(l, set) = h[Len(l)]
  BY <1>3, OnlyIterates
<1>5. N \in Nat
  OBVIOUS
<1>6. 0..N \subseteq {n \in 0..N : h[n] = g[n]}
  <2> DEFINE T == {n \in 0..N : h[n] = g[n]}
  <2>1. 0 \in T
    BY <1>1, <1>4, <1>5 DEF Keeps
  <2>2. \A n \in 1..N : n - 1 \in T => n \in T
    <3> SUFFICES ASSUME NEW n \in 1..N, n - 1 \in T  PROVE n \in T
      OBVIOUS
    <3>1. n \in 1..Len(l) /\ n \in 0..N
      BY <1>3, <1>5
    <3>2. /\ h[n] = IF l[n] \in set THEN Append(h[n - 1], l[n]) ELSE h[n - 1]
          /\ g[n] = IF seq[n] \in set THEN Append(g[n - 1], seq[n]) ELSE g[n - 1]
      BY <1>1, <1>4, <3>1 DEF Keeps
    <3>3. l[n] = seq[n] /\ h[n - 1] = g[n - 1]
      BY <1>3
    <3>4. h[n] = g[n]
      <4>1. CASE seq[n] \in set
        BY <3>2, <3>3, <4>1
      <4>2. CASE seq[n] \notin set
        BY <3>2, <3>3, <4>2
      <4> QED  BY <4>1, <4>2
    <3> QED  BY <3>1, <3>4
  <2> HIDE DEF T, N
  <2> QED  BY <1>5, <2>1, <2>2, BoundedInduction DEF T
<1>7. h[N + 1] = IF e \in set THEN Append(h[N], e) ELSE h[N]
  <2>1. N + 1 \in 1..Len(l) /\ (N + 1) - 1 = N
    BY <1>3, <1>5
  <2> QED  BY <1>3, <1>4, <2>1 DEF Keeps
<1>8. h[N] = g[N]
  BY <1>5, <1>6
<1> HIDE DEF N
<1> QED  BY <1>1, <1>2, <1>3, <1>4, <1>7, <1>8

LEMMA OnlyType ==
  ASSUME NEW S, NEW seq \in Seq(S), NEW set
  PROVE  Only(seq, set) \in Seq(S \intersect set)
<1> DEFINE T == {s \in Seq(S) : Only(s, set) \in Seq(S \intersect set)}
<1>1. <<>> \in T
  <2>1. PICK none : none = Only(<<>>, set)
    OBVIOUS
  <2>2. none = <<>>
    BY <2>1, OnlyEmpty
  <2>3. none \in Seq(S \intersect set)
    BY <2>2
  <2> QED  BY <2>1, <2>3
<1>2. \A s \in Seq(S), e \in S : s \in T => Append(s, e) \in T
  <2> SUFFICES ASSUME NEW s \in Seq(S), NEW e \in S, s \in T
               PROVE  Only(Append(s, e), set) \in Seq(S \intersect set)
    BY AppendProperties
  <2>1. Only(Append(s, e), set) = IF e \in set THEN Append(Only(s, set), e) ELSE Only(s, set)
    BY OnlyAppend
  <2>2. e \in set => Append(Only(s, set), e) \in Seq(S \intersect set)
    BY AppendProperties
  <2> QED  BY <2>1, <2>2
<1> HIDE DEF T
<1>3. seq \in T
  BY <1>1, <1>2, AppendInduction
<1> QED  BY <1>3 DEF T

\* Only the members of the set that are in the sequence matter.
LEMMA OnlySame ==
  ASSUME NEW S, NEW seq \in Seq(S), NEW set, NEW other, \A e \in S : e \in set <=> e \in other
  PROVE  Only(seq, set) = Only(seq, other)
<1> DEFINE T == {s \in Seq(S) : Only(s, set) = Only(s, other)}
<1>1. <<>> \in T
  BY OnlyEmpty
<1>2. \A s \in Seq(S), e \in S : s \in T => Append(s, e) \in T
  <2> SUFFICES ASSUME NEW s \in Seq(S), NEW e \in S, s \in T
               PROVE  Only(Append(s, e), set) = Only(Append(s, e), other)
    BY AppendProperties
  <2>1. Only(Append(s, e), set) = IF e \in set THEN Append(Only(s, set), e) ELSE Only(s, set)
    BY OnlyAppend
  <2>2. Only(Append(s, e), other) = IF e \in other THEN Append(Only(s, other), e) ELSE Only(s, other)
    BY OnlyAppend
  <2> QED  BY <2>1, <2>2
<1> HIDE DEF T
<1>3. seq \in T
  BY <1>1, <1>2, AppendInduction
<1> QED  BY <1>3 DEF T

LEMMA PushAppend ==
  ASSUME NEW S, NEW seq \in Seq(S), NEW e \in S, NEW x \in S
  PROVE  <<e>> \o Append(seq, x) = Append(<<e>> \o seq, x)
<1>1. PICK one \in Seq(S) : one = <<e>>
  BY Singleton
<1>2. PICK last \in Seq(S) : last = <<x>>
  BY Singleton
<1>3. Append(seq, x) = seq \o last /\ one \o seq \in Seq(S)
  BY <1>2, AppendIsConcat, ConcatProperties
<1>4. Append(one \o seq, x) = (one \o seq) \o last
  BY <1>2, <1>3, AppendIsConcat
<1>5. one \o (seq \o last) = (one \o seq) \o last
  BY ConcatAssociative
<1> QED  BY <1>1, <1>3, <1>4, <1>5

LEMMA OnlyPush ==
  ASSUME NEW S, NEW seq \in Seq(S), NEW e \in S, NEW set
  PROVE  Only(<<e>> \o seq, set) = IF e \in set THEN <<e>> \o Only(seq, set) ELSE Only(seq, set)
<1> DEFINE Pushed(s) == IF e \in set THEN <<e>> \o s ELSE s
           T == {s \in Seq(S) : Only(<<e>> \o s, set) = Pushed(Only(s, set))}
<1>1. <<>> \in T
  <2>1. PICK one \in Seq(S) : one = <<e>>
    BY Singleton
  <2>2. PICK none \in Seq(S) : none = <<>>
    BY EmptySeq
  <2>3. one \o none = one /\ one = Append(none, e)
    BY <2>1, <2>2
  <2>4. Only(one, set) = IF e \in set THEN Append(Only(none, set), e) ELSE Only(none, set)
    BY <2>3, OnlyAppend
  <2>5. Only(none, set) = none
    BY <2>2, OnlyEmpty
  <2>6. Only(one \o none, set) = IF e \in set THEN one \o none ELSE none
    BY <2>3, <2>4, <2>5
  <2> QED  BY <2>1, <2>2, <2>5, <2>6
<1>2. \A s \in Seq(S), x \in S : s \in T => Append(s, x) \in T
  <2> SUFFICES ASSUME NEW s \in Seq(S), NEW x \in S, s \in T
               PROVE  Only(<<e>> \o Append(s, x), set) = Pushed(Only(Append(s, x), set))
    BY AppendProperties
  <2>1. <<e>> \o Append(s, x) = Append(<<e>> \o s, x) /\ <<e>> \o s \in Seq(S)
    BY PushAppend, PushType
  <2>2. PICK p \in Seq(S) : p = <<e>> \o s
    BY <2>1
  <2>3. Only(Append(p, x), set) = IF x \in set THEN Append(Only(p, set), x) ELSE Only(p, set)
    BY OnlyAppend
  <2>4. Only(Append(s, x), set) = IF x \in set THEN Append(Only(s, set), x) ELSE Only(s, set)
    BY OnlyAppend
  <2>5. Only(p, set) = Pushed(Only(s, set))
    BY <2>2
  <2>6. PICK o : o = Only(s, set)
    OBVIOUS
  <2>7. o \in Seq(S \intersect set)
    BY <2>6, OnlyType
  <2>8. o \in Seq(S)
    BY <2>7
  <2>9. <<e>> \o Append(o, x) = Append(<<e>> \o o, x)
    BY <2>8, PushAppend
  <2>10. Pushed(IF x \in set THEN Append(o, x) ELSE o) = IF x \in set THEN Append(Pushed(o), x) ELSE Pushed(o)
    BY <2>9, Zenon
  <2> QED  BY <2>1, <2>2, <2>3, <2>4, <2>5, <2>6, <2>10, Zenon
<1> HIDE DEF T
<1>3. seq \in T
  BY <1>1, <1>2, AppendInduction
<1> QED  BY <1>3, Zenon DEF T

-----------------------------------------------------------------------------
(* ... and the order of one turned round. *)

LEMMA ReverseType ==
  ASSUME NEW S, NEW seq \in Seq(S)
  PROVE  /\ Reverse(seq) \in Seq(S) /\ Len(Reverse(seq)) = Len(seq)
         /\ \A i \in 1..Len(seq) : Reverse(seq)[i] = seq[Len(seq) - i + 1]
<1>1. Len(seq) \in Nat /\ \A i \in 1..Len(seq) : seq[i] \in S /\ Len(seq) - i + 1 \in 1..Len(seq)
  BY ElementOfSeq
<1>2. PICK r : r = [i \in 1..Len(seq) |-> seq[(Len(seq) - i) + 1]]
  OBVIOUS
<1>3. r \in [1..Len(seq) -> S]
  BY <1>1, <1>2
<1>4. r \in Seq(S) /\ Len(r) = Len(seq)
  BY <1>1, <1>3, IsASeq, LenProperties
<1>5. Reverse(seq) = r
  BY <1>2 DEF Reverse
<1> QED  BY <1>1, <1>2, <1>4, <1>5

LEMMA ReverseEmpty == Reverse(<<>>) = <<>>
<1>1. PICK none : none = <<>>
  OBVIOUS
<1>2. none \in Seq({}) /\ Len(none) = 0
  BY <1>1
<1>3. Reverse(none) \in Seq({}) /\ Len(Reverse(none)) = 0
  BY <1>2, ReverseType
<1> QED  BY <1>1, <1>3, EmptySeq

LEMMA ReverseAppend ==
  ASSUME NEW S, NEW seq \in Seq(S), NEW e \in S
  PROVE  Reverse(Append(seq, e)) = <<e>> \o Reverse(seq)
<1> DEFINE N == Len(seq)
<1>1. PICK l : l = Append(seq, e)
  OBVIOUS
<1>2. l \in Seq(S) /\ Len(l) = N + 1 /\ l[N + 1] = e /\ \A n \in 1..N : l[n] = seq[n]
  BY <1>1, AppendProperties
<1>3. PICK r : r = Reverse(seq)
  OBVIOUS
<1>4. r \in Seq(S) /\ Len(r) = N /\ \A i \in 1..N : r[i] = seq[N - i + 1]
  BY <1>3, ReverseType
<1>5. PICK p : p = <<e>> \o r
  OBVIOUS
<1>6. p \in Seq(S) /\ Len(p) = N + 1 /\ \A i \in 1..(N + 1) : p[i] = IF i = 1 THEN e ELSE r[i - 1]
  BY <1>4, <1>5, PushType
<1>7. PICK q : q = Reverse(l)
  OBVIOUS
<1>8. q \in Seq(S) /\ Len(q) = N + 1 /\ \A i \in 1..(N + 1) : q[i] = l[(N + 1) - i + 1]
  BY <1>2, <1>7, ReverseType
<1>9. N \in Nat
  OBVIOUS
<1> HIDE DEF N
<1>10. \A i \in 1..(N + 1) : p[i] = q[i]
  <2> SUFFICES ASSUME NEW i \in 1..(N + 1)  PROVE p[i] = q[i]
    OBVIOUS
  <2>1. CASE i = 1
    <3>1. (N + 1) - i + 1 = N + 1
      BY <1>9, <2>1
    <3> QED  BY <1>2, <1>6, <1>8, <2>1, <3>1
  <2>2. CASE i # 1
    <3>1. i - 1 \in 1..N /\ (N + 1) - i + 1 = N - (i - 1) + 1 /\ (N + 1) - i + 1 \in 1..N
      BY <1>9, <2>2
    <3>2. q[i] = seq[N - (i - 1) + 1]
      BY <1>2, <1>8, <3>1
    <3>3. p[i] = r[i - 1]
      BY <1>6, <2>2
    <3>4. r[i - 1] = seq[N - (i - 1) + 1]
      BY <1>4, <3>1
    <3> QED  BY <3>2, <3>3, <3>4
  <2> QED  BY <2>1, <2>2
<1>11. p = q
  BY <1>6, <1>8, <1>9, <1>10, SeqEqual
<1> QED  BY <1>1, <1>3, <1>5, <1>7, <1>11

\* Turned round, a sequence keeps the same elements as before, turned round.
LEMMA OnlyReverse ==
  ASSUME NEW S, NEW seq \in Seq(S), NEW set
  PROVE  Only(Reverse(seq), set) = Reverse(Only(seq, set))
<1> DEFINE T == {s \in Seq(S) : Only(Reverse(s), set) = Reverse(Only(s, set))}
<1>1. <<>> \in T
  BY OnlyEmpty, ReverseEmpty
<1>2. \A s \in Seq(S), e \in S : s \in T => Append(s, e) \in T
  <2> SUFFICES ASSUME NEW s \in Seq(S), NEW e \in S, s \in T
               PROVE  Only(Reverse(Append(s, e)), set) = Reverse(Only(Append(s, e), set))
    BY AppendProperties
  <2>1. PICK r : r = Reverse(s)
    OBVIOUS
  <2>2. r \in Seq(S) /\ Reverse(Append(s, e)) = <<e>> \o r
    BY <2>1, ReverseType, ReverseAppend
  <2>3. Only(<<e>> \o r, set) = IF e \in set THEN <<e>> \o Only(r, set) ELSE Only(r, set)
    BY <2>2, OnlyPush, SMTT(30)
  <2>4. PICK o : o = Only(s, set)
    OBVIOUS
  <2>5. o \in Seq(S) /\ Only(Append(s, e), set) = IF e \in set THEN Append(o, e) ELSE o
    <3>1. o \in Seq(S \intersect set)
      BY <2>4, OnlyType
    <3> QED  BY <2>4, <3>1, OnlyAppend, SMTT(30)
  <2>6. Reverse(Append(o, e)) = <<e>> \o Reverse(o)
    BY <2>5, ReverseAppend
  <2>7. Only(r, set) = Reverse(o)
    BY <2>1, <2>4
  <2> QED  BY <2>2, <2>3, <2>5, <2>6, <2>7, Zenon
<1> HIDE DEF T
<1>3. seq \in T
  BY <1>1, <1>2, AppendInduction
<1> QED  BY <1>3 DEF T

\* The last element that is kept.
LEMMA OnlyLast ==
  ASSUME NEW S, NEW seq \in Seq(S), NEW set, NEW k \in 1..Len(seq), seq[k] \in set
  PROVE  \E j \in 1..Len(seq) : /\ Last(Only(seq, set)) = seq[j] /\ seq[j] \in set /\ Len(Only(seq, set)) > 0
                                /\ \A i \in 1..Len(seq) : i > j => seq[i] \notin set
<1> DEFINE Is(s, j) == /\ Last(Only(s, set)) = s[j] /\ s[j] \in set /\ Len(Only(s, set)) > 0
                       /\ \A i \in 1..Len(s) : i > j => s[i] \notin set
           T == {s \in Seq(S) : (\E i \in 1..Len(s) : s[i] \in set) => \E j \in 1..Len(s) : Is(s, j)}
<1>1. <<>> \in T
  OBVIOUS
<1>2. \A s \in Seq(S), e \in S : s \in T => Append(s, e) \in T
  <2> SUFFICES ASSUME NEW s \in Seq(S), NEW e \in S, s \in T  PROVE Append(s, e) \in T
    OBVIOUS
  <2>1. PICK l : l = Append(s, e)
    OBVIOUS
  <2>2. PICK N : N = Len(s)
    OBVIOUS
  <2>3. l \in Seq(S) /\ Len(l) = N + 1 /\ l[N + 1] = e /\ (\A n \in 1..N : l[n] = s[n]) /\ N \in Nat
    BY <2>1, <2>2, AppendProperties
  <2>4. PICK o : o = Only(s, set)
    OBVIOUS
  <2>5. o \in Seq(S) /\ Only(l, set) = IF e \in set THEN Append(o, e) ELSE o
    <3>1. o \in Seq(S \intersect set)
      BY <2>4, OnlyType
    <3>2. o \in Seq(S)
      BY <3>1
    <3>3. Only(Append(s, e), set) = IF e \in set THEN Append(o, e) ELSE o
      BY <2>4, OnlyAppend
    <3> QED  BY <2>1, <3>2, <3>3
  <2>6. CASE e \in set
    <3>1. Last(Append(o, e)) = e /\ Len(Append(o, e)) > 0
      BY <2>5, AppendProperties DEF Last
    <3>2. N + 1 \in 1..Len(l)
      BY <2>3
    <3>3. Last(Only(l, set)) = l[N + 1] /\ l[N + 1] \in set /\ Len(Only(l, set)) > 0
      BY <2>3, <2>5, <2>6, <3>1
    <3>4. \A i \in 1..Len(l) : ~(i > N + 1)
      BY <2>3
    <3> QED  BY <2>1, <2>3, <3>2, <3>3, <3>4
  <2>7. CASE e \notin set
    <3> SUFFICES ASSUME NEW m \in 1..Len(l), l[m] \in set  PROVE \E j \in 1..Len(l) : Is(l, j)
      BY <2>1, <2>3
    <3>1. m \in 1..N /\ s[m] \in set
      BY <2>3, <2>7
    <3>2. PICK j \in 1..Len(s) : Is(s, j)
      BY <2>2, <3>1
    <3>3. j \in 1..N /\ j \in 1..Len(l) /\ l[j] = s[j]
      BY <2>2, <2>3
    <3>4. \A i \in 1..Len(l) : i > j => l[i] \notin set
      <4> SUFFICES ASSUME NEW i \in 1..Len(l), i > j  PROVE l[i] \notin set
        OBVIOUS
      <4>1. CASE i = N + 1
        BY <2>3, <2>7, <4>1
      <4>2. CASE i # N + 1
        <5>1. i \in 1..N
          BY <2>3, <4>2
        <5> QED  BY <2>2, <2>3, <3>2, <5>1
      <4> QED  BY <4>1, <4>2
    <3>5. Last(Only(l, set)) = l[j] /\ l[j] \in set /\ Len(Only(l, set)) > 0
      <4>1. Last(o) = s[j] /\ s[j] \in set /\ Len(o) > 0
        BY <2>4, <3>2
      <4> QED  BY <2>5, <2>7, <3>3, <4>1
    <3> QED  BY <3>3, <3>4, <3>5
  <2> QED  BY <2>6, <2>7
<1> HIDE DEF T
<1>3. seq \in T
  BY <1>1, <1>2, AppendInduction
<1> QED  BY <1>3 DEF T

-----------------------------------------------------------------------------
(* Folds: what writing one piece after the other comes to. *)

LEMMA GreatestOf ==
  ASSUME NEW n \in Nat, NEW set \in SUBSET (1..n), n \in set
  PROVE  Max(set) = n
<1> DEFINE Is(x) == x \in set /\ \A y \in set : x >= y
<1>1. Is(n)
  OBVIOUS
<1>2. \A x : Is(x) => x = n
  OBVIOUS
<1> HIDE DEF Is
<1>3. (CHOOSE x : Is(x)) = n
  BY <1>1, <1>2
<1>4. Max(set) = CHOOSE x : Is(x)
  BY DEF Max, Is
<1> QED  BY <1>3, <1>4

\* g[k] is what there is after k pieces.
WriteSteps(g, base, pieces) ==
  /\ g[0] = base /\ DeviceWritten(base, pieces) = g[Len(pieces)]
  /\ \A n \in 1..Len(pieces) : g[n] = DeviceWrite(g[n - 1], pieces[n])

LEMMA DeviceWriteFold ==
  ASSUME NEW S, NEW pieces \in Seq(S), NEW base
  PROVE  \E g : WriteSteps(g, base, pieces)
<1> DEFINE N == Len(pieces)
           One(f, set) == IF set = {} THEN base ELSE DeviceWrite(f[set \ {Max(set)}], pieces[Max(set)])
           Eqn(f, k) == f = [set \in SUBSET (1..k) |-> One(f, set)]
           T == {k \in 0..N : \E f : Eqn(f, k)}
<1>1. N \in Nat /\ DOMAIN pieces = 1..N
  OBVIOUS
<1> HIDE DEF N
<1>2. 0 \in T
  <2>1. PICK f : f = [set \in SUBSET (1..0) |-> base]
    OBVIOUS
  <2>2. \A set \in SUBSET (1..0) : set = {}
    OBVIOUS
  <2>3. \A set \in SUBSET (1..0) : One(f, set) = base
    BY <2>2
  <2> HIDE DEF One
  <2>4. f = [set \in SUBSET (1..0) |-> One(f, set)]
    BY <2>1, <2>3
  <2>5. 0 \in 0..N
    BY <1>1
  <2> QED  BY <2>4, <2>5, Zenon
<1>3. \A k \in 1..N : k - 1 \in T => k \in T
  <2> SUFFICES ASSUME NEW k \in 1..N, k - 1 \in T  PROVE \E f : Eqn(f, k)
    <3> HIDE DEF Eqn
    <3> QED  BY <1>1
  <2>1. PICK h : Eqn(h, k - 1)
    OBVIOUS
  <2>2. PICK f : f = [set \in SUBSET (1..k) |-> IF k \in set THEN DeviceWrite(h[set \ {k}], pieces[k]) ELSE h[set]]
    OBVIOUS
  <2>3. \A set \in SUBSET (1..k) : f[set] = One(f, set)
    <3> SUFFICES ASSUME NEW set \in SUBSET (1..k)  PROVE f[set] = One(f, set)
      OBVIOUS
    <3>1. CASE k \in set
      <4>1. Max(set) = k
        BY <1>1, <3>1, GreatestOf
      <4>2. set \ {k} \in SUBSET (1..k) /\ k \notin set \ {k}
        OBVIOUS
      <4>3. f[set \ {k}] = h[set \ {k}]
        BY <2>2, <4>2
      <4>4. f[set] = DeviceWrite(h[set \ {k}], pieces[k])
        BY <2>2, <3>1
      <4>5. One(f, set) = DeviceWrite(f[set \ {k}], pieces[k])
        BY <3>1, <4>1
      <4> QED  BY <4>3, <4>4, <4>5
    <3>2. CASE k \notin set
      <4>1. set \in SUBSET (1..(k - 1)) /\ f[set] = h[set]
        BY <1>1, <2>2, <3>2
      <4>2. h[set] = One(h, set)
        <5> HIDE DEF One
        <5> QED  BY <2>1, <4>1
      <4>3. set \ {Max(set)} \in SUBSET (1..k) /\ k \notin set \ {Max(set)}
        BY <3>2
      <4>4. f[set \ {Max(set)}] = h[set \ {Max(set)}]
        BY <2>2, <4>3
      <4>5. One(f, set) = One(h, set)
        BY <4>4
      <4> QED  BY <4>1, <4>2, <4>5
    <3> QED  BY <3>1, <3>2
  <2>4. f = [set \in SUBSET (1..k) |-> f[set]]
    BY <2>2
  <2>5. Eqn(f, k)
    <3> HIDE DEF One
    <3> QED  BY <2>3, <2>4
  <2> QED  BY <2>5
<1>4. PICK h : Eqn(h, N)
  <2> HIDE DEF Eqn, T
  <2>1. 0..N \subseteq T
    BY <1>1, <1>2, <1>3, BoundedInduction
  <2>2. N \in T
    BY <1>1, <2>1
  <2> QED  BY <2>2 DEF T
<1>5. PICK f : f = (CHOOSE e : Eqn(e, N))
  OBVIOUS
<1>6. Eqn(f, N)
  BY <1>4, <1>5
<1>7. DeviceWritten(base, pieces) = f[1..N]
  BY <1>1, <1>5 DEF DeviceWritten, FoldLeft, MapThenFoldSet, One
<1>8. \A set \in SUBSET (1..N) : f[set] = One(f, set)
  <2> HIDE DEF One
  <2> QED  BY <1>6, Zenon
<1>9. f[{}] = base
  BY <1>8
<1>10. \A n \in 1..N : f[1..n] = DeviceWrite(f[1..(n - 1)], pieces[n])
  <2> SUFFICES ASSUME NEW n \in 1..N  PROVE f[1..n] = DeviceWrite(f[1..(n - 1)], pieces[n])
    OBVIOUS
  <2>1. 1..n \in SUBSET (1..N) /\ n \in 1..n /\ 1..n # {} /\ (1..n) \ {n} = 1..(n - 1) /\ n \in Nat
    <3>1. n \in Nat /\ n \in 1..n /\ \A i \in 1..n : i \in 1..N
      BY <1>1
    <3>2. \A i : i \in (1..n) \ {n} <=> i \in 1..(n - 1)
      BY <3>1
    <3> QED  BY <3>1, <3>2
  <2>2. Max(1..n) = n
    BY <2>1, GreatestOf
  <2>3. f[1..n] = One(f, 1..n)
    BY <1>8, <2>1
  <2> QED  BY <2>1, <2>2, <2>3
<1>11. PICK g : g = [n \in 0..N |-> f[1..n]]
  OBVIOUS
<1>12. g[0] = base
  <2>1. 1..0 = {} /\ 0 \in 0..N
    BY <1>1
  <2> QED  BY <1>9, <1>11, <2>1
<1>13. \A n \in 1..N : g[n] = DeviceWrite(g[n - 1], pieces[n])
  <2> SUFFICES ASSUME NEW n \in 1..N  PROVE g[n] = DeviceWrite(g[n - 1], pieces[n])
    OBVIOUS
  <2>1. n \in 0..N /\ n - 1 \in 0..N
    BY <1>1
  <2>2. g[n] = f[1..n] /\ g[n - 1] = f[1..(n - 1)]
    BY <1>11, <2>1
  <2> QED  BY <1>10, <2>2
<1>14. g[N] = f[1..N]
  BY <1>1, <1>11
<1> QED  BY <1>7, <1>12, <1>13, <1>14 DEF N, WriteSteps

-----------------------------------------------------------------------------
(* Lines: every element of a sequence, and the end of a line behind it. *)

Lines(seq, e) == FlattenSeq([k \in 1..Len(seq) |-> <<seq[k], e>>])

LEMMA LinesCorrect ==
  ASSUME NEW S, NEW seq \in Seq(S), NEW e \in S
  PROVE  /\ Lines(seq, e) \in Seq(S) /\ Len(Lines(seq, e)) = 2 * Len(seq)
         /\ \A k \in 1..Len(seq) : Lines(seq, e)[2 * k - 1] = seq[k] /\ Lines(seq, e)[2 * k] = e
<1> DEFINE N == Len(seq)
<1>1. PICK lines : lines = [k \in 1..N |-> <<seq[k], e>>]
  OBVIOUS
<1>2. N \in Nat /\ \A k \in 1..N : seq[k] \in S
  BY ElementOfSeq
<1>3. \A k \in 1..N : /\ lines[k] = <<seq[k], e>> /\ lines[k] \in Seq(S) /\ Len(lines[k]) = 2
                      /\ lines[k][1] = seq[k] /\ lines[k][2] = e
  <2> SUFFICES ASSUME NEW k \in 1..N
               PROVE  /\ lines[k] = <<seq[k], e>> /\ lines[k] \in Seq(S) /\ Len(lines[k]) = 2
                      /\ lines[k][1] = seq[k] /\ lines[k][2] = e
    OBVIOUS
  <2>1. lines[k] = <<seq[k], e>> /\ seq[k] \in S
    BY <1>1, <1>2
  <2> QED  BY <2>1
<1>4. lines \in Seq(Seq(S)) /\ Len(lines) = N
  <2>1. lines \in [1..N -> Seq(S)]
    BY <1>1, <1>3
  <2> QED  BY <1>2, <2>1, IsASeq, LenProperties
<1> DEFINE One(f, k) == IF k = 1 THEN lines[k] ELSE f[k - 1] \o lines[k]
           Eqn(f, n) == f = [k \in 1..n |-> One(f, k)]
           T == {n \in 0..N : \E f : Eqn(f, n)}
<1> HIDE DEF N
<1>5. 0 \in T
  <2>1. PICK f : f = [k \in 1..0 |-> <<>>]
    OBVIOUS
  <2> HIDE DEF One
  <2>2. \A k \in 1..0 : One(f, k) = <<>>
    OBVIOUS
  <2>3. f = [k \in 1..0 |-> One(f, k)]
    BY <2>1, <2>2
  <2>4. 0 \in 0..N
    BY <1>2
  <2> QED  BY <2>3, <2>4, Zenon
<1>6. \A n \in 1..N : n - 1 \in T => n \in T
  <2> SUFFICES ASSUME NEW n \in 1..N, n - 1 \in T  PROVE \E f : Eqn(f, n)
    <3> HIDE DEF Eqn
    <3> QED  BY <1>2
  <2>1. PICK h : Eqn(h, n - 1)
    OBVIOUS
  <2>2. PICK f : f = [k \in 1..n |-> IF k = n THEN One(h, n) ELSE h[k]]
    OBVIOUS
  <2>3. \A k \in 1..n : f[k] = One(f, k)
    <3> SUFFICES ASSUME NEW k \in 1..n  PROVE f[k] = One(f, k)
      OBVIOUS
    <3>1. k # 1 => k - 1 \in 1..n /\ k - 1 # n /\ f[k - 1] = h[k - 1]
      BY <1>2, <2>2
    <3>2. One(f, k) = One(h, k)
      BY <3>1
    <3>3. CASE k = n
      <4> HIDE DEF One
      <4> QED  BY <2>2, <3>2, <3>3
    <3>4. CASE k # n
      <4>1. k \in 1..(n - 1) /\ f[k] = h[k]
        BY <1>2, <2>2, <3>4
      <4>2. h[k] = One(h, k)
        <5> HIDE DEF One
        <5> QED  BY <2>1, <4>1
      <4> HIDE DEF One
      <4> QED  BY <3>2, <4>1, <4>2
    <3> QED  BY <3>3, <3>4
  <2> HIDE DEF One
  <2>4. f = [k \in 1..n |-> f[k]]
    BY <2>2
  <2>5. Eqn(f, n)
    BY <2>3, <2>4
  <2> QED  BY <2>5
<1>7. PICK h : Eqn(h, N)
  <2> HIDE DEF Eqn, T
  <2>1. 0..N \subseteq T
    BY <1>2, <1>5, <1>6, BoundedInduction
  <2>2. N \in T
    BY <1>2, <2>1
  <2> QED  BY <2>2 DEF T
<1>8. PICK f : f = (CHOOSE g : Eqn(g, Len(lines)))
  OBVIOUS
<1>9. Eqn(f, N)
  <2> HIDE DEF Eqn
  <2>1. Eqn(h, Len(lines))
    BY <1>4, <1>7
  <2>2. Eqn(f, Len(lines))
    BY <1>8, <2>1
  <2> QED  BY <1>4, <2>2
<1>10. \A k \in 1..N : f[k] = One(f, k)
  <2> HIDE DEF One
  <2> QED  BY <1>9, Zenon
<1>11. Lines(seq, e) = IF N = 0 THEN lines ELSE f[N]
  <2>1. Lines(seq, e) = FlattenSeq(lines)
    BY <1>1 DEF Lines, N
  <2>2. FlattenSeq(lines) = IF Len(lines) = 0 THEN lines ELSE f[Len(lines)]
    BY <1>8 DEF FlattenSeq, One
  <2> QED  BY <1>4, <2>1, <2>2
<1> DEFINE Are(l, n) == /\ l \in Seq(S) /\ Len(l) = 2 * n
                        /\ \A k \in 1..n : l[2 * k - 1] = seq[k] /\ l[2 * k] = e
           U == {n \in 0..N : n # 0 => Are(f[n], n)}
<1>12. 0..N \subseteq U
  <2>1. 0 \in U
    BY <1>2
  <2>2. \A n \in 1..N : n - 1 \in U => n \in U
    <3> SUFFICES ASSUME NEW n \in 1..N, n - 1 \in U  PROVE Are(f[n], n)
      <4> HIDE DEF Are
      <4> QED  BY <1>2
    <3>1. CASE n = 1
      <4>1. f[n] = lines[1]
        BY <1>10, <3>1
      <4> QED  BY <1>3, <3>1, <4>1
    <3>2. CASE n # 1
      <4>1. PICK l : l = f[n - 1]
        OBVIOUS
      <4>2. n - 1 # 0 /\ n - 1 \in Nat /\ n \in Nat
        BY <1>2, <3>2
      <4>3. Are(l, n - 1)
        BY <4>1, <4>2
      <4>4. f[n] = l \o lines[n]
        BY <1>10, <3>2, <4>1
      <4>5. PICK m \in Seq(S) : m = lines[n] /\ Len(m) = 2 /\ m[1] = seq[n] /\ m[2] = e
        BY <1>3
      <4>6. PICK c : c = l \o m
        OBVIOUS
      <4>7. c \in Seq(S) /\ Len(c) = 2 * n /\ \A i \in 1..(2 * n) : c[i] = IF i <= 2 * n - 2 THEN l[i] ELSE m[i - (2 * n - 2)]
        <5>1. l \in Seq(S) /\ Len(l) = 2 * n - 2 /\ 2 * n - 2 \in Nat /\ (2 * n - 2) + 2 = 2 * n
          BY <4>2, <4>3
        <5>2. /\ c \in Seq(S) /\ Len(c) = Len(l) + Len(m)
              /\ \A i \in 1..(Len(l) + Len(m)) : c[i] = IF i <= Len(l) THEN l[i] ELSE m[i - Len(l)]
          <6>1. l \in Seq(S) /\ m \in Seq(S)
            BY <4>5, <5>1
          <6> HIDE DEF Are
          <6> QED  BY ONLY <6>1, <4>6, ConcatProperties, Zenon
        <5> QED  BY <4>5, <5>1, <5>2
      <4>8. \A k \in 1..n : c[2 * k - 1] = seq[k] /\ c[2 * k] = e
        <5> SUFFICES ASSUME NEW k \in 1..n  PROVE c[2 * k - 1] = seq[k] /\ c[2 * k] = e
          OBVIOUS
        <5>1. CASE k = n
          <6>1. 2 * k - 1 \in 1..(2 * n) /\ 2 * k \in 1..(2 * n) /\ ~(2 * k - 1 <= 2 * n - 2) /\ ~(2 * k <= 2 * n - 2)
                /\ (2 * k - 1) - (2 * n - 2) = 1 /\ 2 * k - (2 * n - 2) = 2
            BY <4>2, <5>1
          <6> QED  BY <4>5, <4>7, <5>1, <6>1
        <5>2. CASE k # n
          <6>1. 2 * k - 1 \in 1..(2 * n) /\ 2 * k \in 1..(2 * n) /\ 2 * k - 1 <= 2 * n - 2 /\ 2 * k <= 2 * n - 2
                /\ k \in 1..(n - 1)
            BY <4>2, <5>2
          <6> QED  BY <4>3, <4>7, <6>1
        <5> QED  BY <5>1, <5>2
      <4> QED  BY <4>4, <4>5, <4>6, <4>7, <4>8
    <3> QED  BY <3>1, <3>2
  <2> HIDE DEF U
  <2> QED  BY <1>2, <2>1, <2>2, BoundedInduction
<1>13. CASE N = 0
  <2>1. Lines(seq, e) = lines /\ Len(lines) = 0
    BY <1>4, <1>11, <1>13
  <2>2. lines = <<>>
    BY <1>4, <2>1, EmptySeq
  <2>3. lines \in Seq(S)
    BY <2>2
  <2> QED  BY <1>13, <2>1, <2>3 DEF N
<1>14. CASE N # 0
  <2>1. N \in U
    <3> HIDE DEF U
    <3> QED  BY <1>2, <1>12
  <2>2. Are(f[N], N)
    BY <1>14, <2>1
  <2> HIDE DEF Are
  <2>3. Are(Lines(seq, e), N)
    BY <1>11, <1>14, <2>2
  <2> QED  BY <2>3 DEF Are, N
<1> QED  BY <1>13, <1>14

-----------------------------------------------------------------------------
(* The first of its kind in a sequence. *)

LEMMA LeastOf ==
  ASSUME NEW n \in Nat, NEW set \in SUBSET (1..n), set # {}
  PROVE  Min(set) \in set /\ \A y \in set : Min(set) <= y
<1> DEFINE Is(x) == x \in set /\ \A y \in set : x =< y
           T == {k \in Nat : (\E x \in set : x <= k) => \E x : Is(x)}
<1>1. 0 \in T
  OBVIOUS
<1>2. \A k \in Nat : k \in T => k + 1 \in T
  <2> SUFFICES ASSUME NEW k \in Nat, k \in T, NEW x \in set, x <= k + 1  PROVE \E z : Is(z)
    <3> HIDE DEF Is
    <3> QED  OBVIOUS
  <2>1. CASE \E y \in set : y <= k
    <3> HIDE DEF Is
    <3> QED  BY <2>1
  <2>2. CASE ~\E y \in set : y <= k
    <3>1. Is(x)
      BY <2>2
    <3> QED  BY <3>1
  <2> QED  BY <2>1, <2>2
<1>3. n \in T
  <2> HIDE DEF T
  <2> QED  BY <1>1, <1>2, SetInduction
<1>4. \E x \in set : x <= n
  <2>1. PICK x \in set : TRUE
    OBVIOUS
  <2>2. x \in 1..n
    OBVIOUS
  <2> QED  BY <2>2
<1>5. \E x : Is(x)
  <2> HIDE DEF Is
  <2> QED  BY <1>3, <1>4
<1>6. Is(Min(set))
  <2>1. Min(set) = CHOOSE x : Is(x)
    BY DEF Min
  <2> HIDE DEF Is
  <2> QED  BY <1>5, <2>1
<1> QED  BY <1>6

\* A header of that name, and the newest one.
LEMMA FoundCorrect ==
  ASSUME NEW S, NEW map \in Seq(S), NEW name
  PROVE  \/ Found(map, name) = 0 /\ \A i \in 1..Len(map) : map[i][1] # name
         \/ /\ Found(map, name) \in 1..Len(map) /\ map[Found(map, name)][1] = name
            /\ \A i \in 1..Len(map) : map[i][1] = name => Found(map, name) <= i
<1> DEFINE I == {i \in 1..Len(map) : map[i][1] = name}
<1>1. Found(map, name) = IF I # {} THEN Min(I) ELSE 0
  BY DEF Found, SelectInSeq
<1>2. CASE I = {}
  BY <1>1, <1>2
<1>3. CASE I # {}
  <2>1. Len(map) \in Nat /\ I \in SUBSET (1..Len(map))
    OBVIOUS
  <2> HIDE DEF I
  <2>2. Min(I) \in I /\ \A y \in I : Min(I) <= y
    BY <1>3, <2>1, LeastOf
  <2>3. Found(map, name) \in I /\ \A y \in I : Found(map, name) <= y
    BY <1>1, <1>3, <2>2
  <2> QED  BY <2>3 DEF I
<1> QED  BY <1>2, <1>3

\* The '?' that begins the query.
LEMMA QueryCorrect ==
  ASSUME NEW S, NEW uri \in Seq(S)
  PROVE  \/ Query(uri) = 0 /\ \A i \in 1..Len(uri) : uri[i] # "?"
         \/ /\ Query(uri) \in 1..Len(uri) /\ uri[Query(uri)] = "?"
            /\ \A i \in 1..Len(uri) : uri[i] = "?" => Query(uri) <= i
<1> DEFINE I == {i \in 1..Len(uri) : uri[i] = "?"}
<1>1. Query(uri) = IF I # {} THEN Min(I) ELSE 0
  BY DEF Query, SelectInSeq
<1>2. CASE I = {}
  BY <1>1, <1>2
<1>3. CASE I # {}
  <2>1. Len(uri) \in Nat /\ I \in SUBSET (1..Len(uri))
    OBVIOUS
  <2> HIDE DEF I
  <2>2. Min(I) \in I /\ \A y \in I : Min(I) <= y
    BY <1>3, <2>1, LeastOf
  <2>3. Query(uri) \in I /\ \A y \in I : Query(uri) <= y
    BY <1>1, <1>3, <2>2
  <2> QED  BY <2>3 DEF I
<1> QED  BY <1>2, <1>3

\* The end of the first line.
LEMMA LineEndCorrect ==
  ASSUME NEW S, socket.in \in Seq(S), CanReadLine
  PROVE  /\ LineEnd \in 1..Len(socket.in) /\ socket.in[LineEnd] = NewLine
         /\ \A i \in 1..Len(socket.in) : socket.in[i] = NewLine => LineEnd <= i
<1> DEFINE I == {i \in 1..Len(socket.in) : socket.in[i] = NewLine}
<1>1. LineEnd = IF I # {} THEN Min(I) ELSE 0
  BY DEF LineEnd, SelectInSeq
<1>2. I # {}
  BY DEF CanReadLine, Contains
<1>3. Len(socket.in) \in Nat /\ I \in SUBSET (1..Len(socket.in))
  OBVIOUS
<1> HIDE DEF I
<1>4. Min(I) \in I /\ \A y \in I : Min(I) <= y
  BY <1>2, <1>3, LeastOf
<1>5. LineEnd \in I /\ \A y \in I : LineEnd <= y
  BY <1>1, <1>2, <1>4
<1> QED  BY <1>5 DEF I

-----------------------------------------------------------------------------
(* The inductive invariant. *)

\* Who has control, and what there is, at every stage of the request.
Stages ==
  /\ device.requestState # "body" => /\ device.life = "alive" /\ request.phase = "none" /\ ~timer /\ control # "slot"
                                     /\ request.data = <<>> /\ request.serverData = NoVariables
  /\ device.requestState = "body" => control # "read"
  /\ control = "slot" <=> request.phase \in {"running", "waiting"}
  /\ request.phase = "none" /\ device.requestState = "body" => device.life \in {"doomed", "deleted"}
  /\ request.phase \in {"queued", "running", "waiting", "adopted"} => device.life = "alive"
  /\ request.phase = "deleted" => device.life = "deleted"

\* How it ends: a flusher that may delete, or has, has nothing to send.
Endings ==
  /\ device.life = "deleted" <=> flusher # "none"
  /\ ~socket.alive <=> flusher = "deleted"
  /\ flusher \in {"doomed", "deleted"} => socket.out = <<>>

\* The text of the request behind k header lines.
IsRest(text, k) ==
  LET n == Len(HeaderLines) - k IN
  /\ Len(text) = 2 * n + 1 + Len(Body)
  /\ \A j \in 1..n : text[2 * j - 1] = HeaderLines[k + j] /\ text[2 * j] = NewLine
  /\ text[2 * n + 1] = NewLine
  /\ \A j \in 1..Len(Body) : text[2 * n + 1 + j] = Body[j]

\* The variables after the request line and k header lines.
Has(map, name, value) == name \in DOMAIN map /\ map[name] = value
AreRead(map, uri, k) ==
  /\ IsVariables(map)
  /\ Has(map, <<"REQUEST_URI">>, uri)
  /\ Has(map, <<"PATH_INFO">>, IF Query(uri) = 0 THEN uri ELSE SubSeq(uri, 1, Query(uri) - 1))
  /\ IF Query(uri) = 0 THEN <<"QUERY_STRING">> \notin DOMAIN map
     ELSE Has(map, <<"QUERY_STRING">>, SubSeq(uri, Query(uri) + 1, Len(uri)))
  /\ \A j \in 1..k : (\A i \in 1..k : i > j => HeaderLines[i][1] # HeaderLines[j][1])
                       => Has(map, VariableName(HeaderLines[j][1]), HeaderLines[j][2])
  /\ <<"HTTP_", "COOKIE">> \in DOMAIN map => \E j \in 1..k : HeaderLines[j][1] = "COOKIE"

Unread == socket.in \o wire
Framing ==
  /\ device.requestState = "request" =>
       /\ device.requestHeaders = NoVariables
       /\ \E uri \in Uris : /\ Len(Unread) > 2 /\ Unread[1] = RequestLine(uri) /\ Unread[2] = NewLine
                            /\ IsRest(SubSeq(Unread, 3, Len(Unread)), 0)
  /\ device.requestState = "headers" =>
       \E uri \in Uris, k \in 0..Len(HeaderLines) : IsRest(Unread, k) /\ AreRead(device.requestHeaders, uri, k)
  /\ device.requestState = "body" =>
       /\ request.data \o Unread = Body
       /\ \E uri \in Uris : AreRead(device.requestHeaders, uri, Len(HeaderLines))

\* The response headers of a Request have one status.
OneStatus(headers) ==
  \E k \in 1..Len(headers) : \A n \in 1..Len(headers) : headers[n][1] = "STATUS" <=> n = k

\* What the browser gets for the headers of a Request and a number of writes.
IsAnswer(answer, headers, writes) ==
  LET others == Reverse(Without(headers, "STATUS"))
      n == Len(others) IN
  /\ Len(answer) = n + 2 + writes
  /\ answer[1] = <<"status", Value(headers, "STATUS")>>
  /\ \A k \in 1..n : answer[k + 1] = <<"header", others[k]>>
  /\ answer[n + 2] = <<"blank", 0>>
  /\ \A k \in 1..writes : answer[n + 2 + k] = <<"data", k>>

Answer == socket.received \o socket.out
FileAnswer == <<<<"status", "200 OK">>, <<"header", <<"LENGTH", "n">>>>, <<"blank", 0>>, <<"data", 0>>>>
Served == device.requestState = "body" /\ request.phase = "none"
Written ==
  /\ OneStatus(request.responseHeaders)
  /\ request.haveSentHeaders <=> request.writes > 0
  /\ request.phase \in {"none", "queued"} => request.writes = 0
  /\ Served => Answer = FileAnswer
  /\ request.writes = 0 /\ ~Served =>
       /\ device.responseState = "headers" /\ device.responseHeaders = <<>>
       /\ device.headerBuffer = <<>> /\ device.headerBufferPosition = 0 /\ socket.received = <<>> /\ socket.out = <<>>
  /\ request.writes > 0 =>
       device.responseState = "body" /\ IsAnswer(Answer, request.responseHeaders, request.writes)

IInv == HttpTypeOK /\ Stages /\ Endings /\ Framing /\ Written

-----------------------------------------------------------------------------
(* The initial state. *)

LEMMA PieceTypes ==
  /\ HeaderLines \in Seq(Pieces) /\ Body \in Seq(Pieces) /\ NewLine \in Pieces
  /\ \A uri \in Uris : RequestLine(uri) \in Pieces /\ RequestLine(uri) # NewLine
  /\ \A k \in 1..Len(HeaderLines) : HeaderLines[k] # NewLine
  /\ Len(HeaderLines) \in Nat /\ Len(Body) \in Nat
<1>1. HeaderLines \in Seq(STRING \X Seq(STRING)) /\ Body \in Seq(Range(Body))
  BY HttpAssumption
<1>2. HeaderLines \in Seq(Range(HeaderLines))
  BY <1>1, SeqOfRange
<1>3. Range(HeaderLines) \subseteq Pieces /\ Range(Body) \subseteq Pieces /\ NewLine \in Pieces
  BY Zenon DEF Pieces
<1>4. HeaderLines \in Seq(Pieces) /\ Body \in Seq(Pieces)
  BY <1>1, <1>2, <1>3, SeqMonotonic
<1>5. ASSUME NEW uri \in Uris  PROVE RequestLine(uri) \in Pieces /\ RequestLine(uri) # NewLine
  <2>1. RequestLine(uri) \in Pieces
    BY Zenon DEF Pieces
  <2>2. RequestLine(uri) # NewLine
    BY DEF RequestLine, NewLine
  <2> QED  BY <2>1, <2>2
<1>6. ASSUME NEW k \in 1..Len(HeaderLines)  PROVE HeaderLines[k] # NewLine
  <2>1. HeaderLines[k] \in STRING \X Seq(STRING)
    BY <1>1, ElementOfSeq
  <2>2. PICK name, value : HeaderLines[k] = <<name, value>>
    BY <2>1
  <2>3. <<name, value>> # <<"newline">>
    OBVIOUS
  <2> QED  BY <2>2, <2>3 DEF NewLine
<1>7. Len(HeaderLines) \in Nat /\ Len(Body) \in Nat
  BY <1>1
<1> QED  BY <1>3, <1>4, <1>5, <1>6, <1>7

LEMMA ConcatIs ==
  ASSUME NEW S, NEW s \in Seq(S), NEW t \in Seq(S), NEW m, NEW n, Len(s) = m, Len(t) = n
  PROVE  /\ s \o t \in Seq(S) /\ Len(s \o t) = m + n
         /\ \A i \in 1..(m + n) : (s \o t)[i] = IF i <= m THEN s[i] ELSE t[i - m]
BY ConcatProperties

LEMMA Pair ==
  ASSUME NEW S, NEW e \in S, NEW f \in S
  PROVE  <<e, f>> \in Seq(S) /\ Len(<<e, f>>) = 2 /\ <<e, f>>[1] = e /\ <<e, f>>[2] = f
OBVIOUS

LEMMA TextCorrect ==
  ASSUME NEW uri \in Uris, NEW text,
         text = <<RequestLine(uri), NewLine>> \o Lines(HeaderLines, NewLine) \o <<NewLine>> \o Body
  PROVE  /\ text \in Seq(Pieces) /\ Len(text) > 2 /\ text[1] = RequestLine(uri) /\ text[2] = NewLine
         /\ IsRest(SubSeq(text, 3, Len(text)), 0)
<1> DEFINE n == Len(HeaderLines)
           m == Len(Body)
<1>1. PICK l : l = Lines(HeaderLines, NewLine)
  OBVIOUS
<1>2. /\ l \in Seq(Pieces) /\ Len(l) = 2 * n
      /\ \A k \in 1..n : l[2 * k - 1] = HeaderLines[k] /\ l[2 * k] = NewLine
  <2>1. HeaderLines \in Seq(Pieces) /\ NewLine \in Pieces
    BY PieceTypes
  <2>2. /\ Lines(HeaderLines, NewLine) \in Seq(Pieces) /\ Len(Lines(HeaderLines, NewLine)) = 2 * Len(HeaderLines)
        /\ \A k \in 1..Len(HeaderLines) : /\ Lines(HeaderLines, NewLine)[2 * k - 1] = HeaderLines[k]
                                            /\ Lines(HeaderLines, NewLine)[2 * k] = NewLine
    BY <2>1, LinesCorrect
  <2> QED  BY <1>1, <2>2
<1>3. PICK first \in Seq(Pieces) : /\ first = <<RequestLine(uri), NewLine>> /\ Len(first) = 2
                                   /\ first[1] = RequestLine(uri) /\ first[2] = NewLine
  <2>1. RequestLine(uri) \in Pieces /\ NewLine \in Pieces
    BY PieceTypes
  <2>2. PICK line \in Pieces : line = RequestLine(uri)
    BY <2>1
  <2>3. PICK end \in Pieces : end = NewLine
    BY <2>1
  <2>4. <<line, end>> \in Seq(Pieces) /\ Len(<<line, end>>) = 2 /\ <<line, end>>[1] = line /\ <<line, end>>[2] = end
    BY Pair
  <2> QED  BY <2>2, <2>3, <2>4
<1>4. PICK blank \in Seq(Pieces) : blank = <<NewLine>> /\ Len(blank) = 1 /\ blank[1] = NewLine
  BY PieceTypes, Singleton
<1>5. n \in Nat /\ m \in Nat /\ Body \in Seq(Pieces)
  BY PieceTypes
<1> HIDE DEF n, m
<1>6. PICK a : a = first \o l
  OBVIOUS
<1>7. a \in Seq(Pieces) /\ Len(a) = 2 + 2 * n /\ \A i \in 1..(2 + 2 * n) : a[i] = IF i <= 2 THEN first[i] ELSE l[i - 2]
  BY <1>2, <1>3, <1>6, ConcatIs
<1>8. PICK b : b = a \o blank
  OBVIOUS
<1>9. /\ b \in Seq(Pieces) /\ Len(b) = 3 + 2 * n
      /\ \A i \in 1..(3 + 2 * n) : b[i] = IF i <= 2 + 2 * n THEN a[i] ELSE NewLine
  <2>1. b \in Seq(Pieces) /\ Len(b) = (2 + 2 * n) + 1
    BY <1>4, <1>7, <1>8, ConcatIs
  <2>2. \A i \in 1..((2 + 2 * n) + 1) : b[i] = IF i <= 2 + 2 * n THEN a[i] ELSE blank[i - (2 + 2 * n)]
    BY <1>4, <1>7, <1>8, ConcatIs
  <2>3. \A i \in 1..(3 + 2 * n) : ~(i <= 2 + 2 * n) => i - (2 + 2 * n) = 1
    BY <1>5
  <2>4. (2 + 2 * n) + 1 = 3 + 2 * n
    BY <1>5
  <2> QED  BY <1>4, <2>1, <2>2, <2>3, <2>4
<1>10. text = b \o Body
  BY <1>1, <1>3, <1>4, <1>6, <1>8
<1>11. /\ text \in Seq(Pieces) /\ Len(text) = (3 + 2 * n) + m
       /\ \A i \in 1..((3 + 2 * n) + m) : text[i] = IF i <= 3 + 2 * n THEN b[i] ELSE Body[i - (3 + 2 * n)]
  <2>1. Len(Body) = m
    BY DEF m
  <2>2. b \in Seq(Pieces) /\ Body \in Seq(Pieces) /\ Len(b) = 3 + 2 * n
    BY <1>5, <1>9
  <2>3. /\ b \o Body \in Seq(Pieces) /\ Len(b \o Body) = (3 + 2 * n) + m
        /\ \A i \in 1..((3 + 2 * n) + m) : (b \o Body)[i] = IF i <= 3 + 2 * n THEN b[i] ELSE Body[i - (3 + 2 * n)]
    BY <2>1, <2>2, ConcatIs, SMTT(30)
  <2> QED  BY <1>10, <2>3
<1>12. text[1] = RequestLine(uri) /\ text[2] = NewLine
  <2>1. \A i \in {1, 2} : i \in 1..((3 + 2 * n) + m) /\ i \in 1..(3 + 2 * n) /\ i \in 1..(2 + 2 * n)
                           /\ i <= 3 + 2 * n /\ i <= 2 + 2 * n /\ i <= 2
    BY <1>5
  <2>2. \A i \in {1, 2} : text[i] = first[i]
    BY <1>7, <1>9, <1>11, <2>1
  <2> QED  BY <1>3, <2>2
<1>13. PICK rest : rest = SubSeq(text, 3, Len(text))
  OBVIOUS
<1>14. Len(rest) = 2 * n + 1 + m /\ \A i \in 1..(2 * n + 1 + m) : rest[i] = text[i + 2]
  <2>1. Len(text) \in Int /\ \A i \in 3..Len(text) : text[i] \in Pieces
    BY <1>11, ElementOfSeq
  <2>2. /\ Len(rest) = IF 3 <= Len(text) THEN Len(text) - 3 + 1 ELSE 0
        /\ \A i \in 1..(Len(text) - 3 + 1) : rest[i] = text[3 + i - 1]
    BY <1>13, <2>1, SubSeqProperties
  <2>3. Len(text) - 3 + 1 = 2 * n + 1 + m /\ 3 <= Len(text)
    BY <1>5, <1>11
  <2>4. \A i \in 1..(2 * n + 1 + m) : 3 + i - 1 = i + 2
    BY <1>5
  <2> QED  BY <2>2, <2>3, <2>4
<1>15. \A j \in 1..n : rest[2 * j - 1] = HeaderLines[0 + j] /\ rest[2 * j] = NewLine
  <2> SUFFICES ASSUME NEW j \in 1..n  PROVE rest[2 * j - 1] = HeaderLines[0 + j] /\ rest[2 * j] = NewLine
    OBVIOUS
  <2>1. \A i \in {2 * j - 1, 2 * j} : /\ i \in 1..(2 * n + 1 + m) /\ i + 2 \in 1..((3 + 2 * n) + m) /\ i + 2 <= 3 + 2 * n
                                      /\ i + 2 \in 1..(3 + 2 * n) /\ i + 2 <= 2 + 2 * n /\ i + 2 \in 1..(2 + 2 * n)
                                      /\ ~(i + 2 <= 2) /\ (i + 2) - 2 = i
    BY <1>5
  <2>2. \A i \in {2 * j - 1, 2 * j} : rest[i] = l[i]
    <3> SUFFICES ASSUME NEW i \in {2 * j - 1, 2 * j}  PROVE rest[i] = l[i]
      OBVIOUS
    <3>1. rest[i] = text[i + 2]
      BY <1>14, <2>1
    <3>2. text[i + 2] = b[i + 2]
      BY <1>11, <2>1
    <3>3. b[i + 2] = a[i + 2]
      BY <1>9, <2>1
    <3>4. a[i + 2] = l[(i + 2) - 2]
      BY <1>7, <2>1
    <3> QED  BY <2>1, <3>1, <3>2, <3>3, <3>4
  <2>3. 0 + j = j
    BY <1>5
  <2> QED  BY <1>2, <2>2, <2>3
<1>16. rest[2 * n + 1] = NewLine
  <2>1. /\ 2 * n + 1 \in 1..(2 * n + 1 + m) /\ (2 * n + 1) + 2 \in 1..((3 + 2 * n) + m) /\ (2 * n + 1) + 2 <= 3 + 2 * n
        /\ (2 * n + 1) + 2 \in 1..(3 + 2 * n) /\ ~((2 * n + 1) + 2 <= 2 + 2 * n)
    BY <1>5
  <2> QED  BY <1>9, <1>11, <1>14, <2>1
<1>17. \A j \in 1..m : rest[2 * n + 1 + j] = Body[j]
  <2> SUFFICES ASSUME NEW j \in 1..m  PROVE rest[2 * n + 1 + j] = Body[j]
    OBVIOUS
  <2>1. /\ 2 * n + 1 + j \in 1..(2 * n + 1 + m) /\ (2 * n + 1 + j) + 2 \in 1..((3 + 2 * n) + m)
        /\ ~((2 * n + 1 + j) + 2 <= 3 + 2 * n) /\ ((2 * n + 1 + j) + 2) - (3 + 2 * n) = j
    BY <1>5
  <2> QED  BY <1>11, <1>14, <2>1
<1>18. IsRest(rest, 0)
  <2>1. n - 0 = n
    BY <1>5
  <2> QED  BY <1>14, <1>15, <1>16, <1>17, <2>1 DEF IsRest, n, m
<1>19. Len(text) > 2
  BY <1>5, <1>11
<1> QED  BY <1>11, <1>12, <1>13, <1>18, <1>19

LEMMA HeaderTypes ==
  /\ Default \in Seq(Headers) /\ HeaderCalls \subseteq Headers
  /\ FileHeaders \in Seq(Headers) /\ Len(FileHeaders) = 2
  /\ FileHeaders[1] = <<"LENGTH", "n">> /\ FileHeaders[2] = <<"STATUS", "200 OK">>
  /\ \A h \in Headers : h # NewLine
<1>1. Default \in Seq(STRING \X STRING) /\ HeaderCalls \subseteq STRING \X STRING
  BY HttpAssumption
<1>2. Range(Default) \subseteq Headers /\ HeaderCalls \subseteq Headers /\ Range(FileHeaders) \subseteq Headers
  BY Zenon DEF Headers
<1>3. Default \in Seq(Headers)
  <2>1. Default \in Seq(Range(Default))
    BY <1>1, SeqOfRange
  <2> QED  BY <1>2, <2>1, SeqMonotonic
<1>4. PICK a : a = <<"LENGTH", "n">>
  OBVIOUS
<1>5. PICK b : b = <<"STATUS", "200 OK">>
  OBVIOUS
<1>6. FileHeaders = <<a, b>>
  BY <1>4, <1>5 DEF FileHeaders
<1>7. FileHeaders \in Seq({a, b}) /\ Len(FileHeaders) = 2 /\ FileHeaders[1] = a /\ FileHeaders[2] = b
  BY <1>6, Pair
<1>8. FileHeaders \in Seq(Headers)
  <2>1. FileHeaders \in Seq(Range(FileHeaders))
    BY <1>7, SeqOfRange
  <2> QED  BY <1>2, <2>1, SeqMonotonic
<1>9. ASSUME NEW h \in Headers  PROVE h # NewLine
  <2>1. Range(Default) \subseteq STRING \X STRING /\ Range(FileHeaders) \subseteq {a, b}
    BY <1>1, <1>7, RangeOfSeq
  <2>2. h \in (STRING \X STRING) \union {a, b}
    BY <1>1, <2>1 DEF Headers
  <2>3. PICK name, value : h = <<name, value>>
    <3>1. CASE h \in STRING \X STRING
      BY <3>1
    <3>2. CASE h \in {a, b}
      BY <1>4, <1>5, <3>2
    <3> QED  BY <2>2, <3>1, <3>2
  <2>4. <<name, value>> # <<"newline">>
    OBVIOUS
  <2> QED  BY <2>3, <2>4 DEF NewLine
<1> QED  BY <1>2, <1>3, <1>4, <1>5, <1>7, <1>8, <1>9

LEMMA NoVariablesType == IsVariables(NoVariables) /\ DOMAIN NoVariables = {}
BY DEF IsVariables, NoVariables

LEMMA InitCorrect == ASSUME HttpInit  PROVE IInv
<1>1. PICK uri \in Uris : wire = <<RequestLine(uri), NewLine>> \o Lines(HeaderLines, NewLine) \o <<NewLine>> \o Body
  BY DEF HttpInit, Lines
<1>2. /\ wire \in Seq(Pieces) /\ Len(wire) > 2 /\ wire[1] = RequestLine(uri) /\ wire[2] = NewLine
      /\ IsRest(SubSeq(wire, 3, Len(wire)), 0)
  BY <1>1, TextCorrect
<1>3. PICK none : none = <<>>
  OBVIOUS
<1>4. /\ socket = [in |-> none, out |-> none, received |-> none, alive |-> TRUE]
      /\ device = [requestState |-> "request", requestHeaders |-> NoVariables,
                   responseState |-> "headers", responseHeaders |-> none,
                   headerBuffer |-> none, headerBufferPosition |-> 0, life |-> "alive"]
      /\ request = [phase |-> "none", postDataMode |-> "unknown", serverData |-> NoVariables, data |-> none,
                    responseHeaders |-> Default, haveSentHeaders |-> FALSE, writes |-> 0]
  BY <1>3 DEF HttpInit
<1>5. \A S : none \in Seq(S)
  BY <1>3
<1>6. Len(none) = 0
  BY <1>3
<1>7. MaxWrites \in Nat
  BY HttpAssumption
<1>8. HttpTypeOK
  <2>1. IsDevice(device)
    BY <1>4, <1>5, <1>6, NoVariablesType DEF IsDevice
  <2>2. IsRequest(request)
    <3>1. /\ request.phase = "none" /\ request.postDataMode = "unknown" /\ request.serverData = NoVariables
          /\ request.data = none /\ request.responseHeaders = Default /\ request.haveSentHeaders = FALSE /\ request.writes = 0
      BY <1>4
    <3>2. 0 \in 0..MaxWrites
      BY <1>7
    <3>3. none \in Seq(Pieces) /\ Default \in Seq(Headers)
      BY <1>5, HeaderTypes
    <3> QED  BY <1>4, <3>1, <3>2, <3>3 DEF IsRequest
  <2>3. socket \in [in : Seq(Pieces), out : Seq(Sent), received : Seq(Sent), alive : BOOLEAN]
    BY <1>4, <1>5
  <2>4. mode \in Modes /\ gone = FALSE /\ control = "loop" /\ timer = FALSE /\ flusher = "none" /\ device.life = "alive"
    BY <1>4 DEF HttpInit
  <2> QED  BY <1>2, <2>1, <2>2, <2>3, <2>4 DEF HttpTypeOK
<1>9. Stages
  BY <1>3, <1>4 DEF Stages, HttpInit
<1>10. Endings
  BY <1>3, <1>4 DEF Endings, HttpInit
<1>11. Framing
  <2>1. Unread = wire
    <3>1. socket.in = <<>> /\ wire \in Seq(Pieces)
      BY <1>2, <1>3, <1>4
    <3> QED  BY <3>1, ConcatEmptySeq DEF Unread
  <2> QED  BY <1>2, <1>4, <2>1 DEF Framing
<1>12. Written
  <2>1. OneStatus(Default)
    BY HttpAssumption DEF OneStatus
  <2> QED  BY <1>3, <1>4, <2>1 DEF Written, Served
<1> QED  BY <1>8, <1>9, <1>10, <1>11, <1>12 DEF IInv

-----------------------------------------------------------------------------
(* What the pieces of a response do to the HttpRequest and to the socket's buffer. *)

Device(v, state, headers, buffer, position) ==
  [v EXCEPT !.responseState = state, !.responseHeaders = headers, !.headerBuffer = buffer, !.headerBufferPosition = position]
Output(out, v, state, headers, buffer, position) ==
  [out |-> out, device |-> Device(v, state, headers, buffer, position)]

HeadersSent(headers) == [k \in 1..Len(headers) |-> <<"header", headers[k]>>]

LEMMA DeviceFields ==
  ASSUME NEW v, IsDevice(v), NEW state, NEW headers, NEW buffer, NEW position
  PROVE  LET d == Device(v, state, headers, buffer, position) IN
         /\ d.responseState = state /\ d.responseHeaders = headers
         /\ d.headerBuffer = buffer /\ d.headerBufferPosition = position
         /\ d.requestState = v.requestState /\ d.requestHeaders = v.requestHeaders /\ d.life = v.life
BY DEF Device, IsDevice

\* Two changes of the response are one.
LEMMA DeviceAgain ==
  ASSUME NEW v, IsDevice(v), NEW state, NEW headers, NEW buffer, NEW position,
         NEW stateN, NEW headersN, NEW bufferN, NEW positionN
  PROVE  [Device(v, state, headers, buffer, position) EXCEPT
            !.responseState = stateN, !.responseHeaders = headersN, !.headerBuffer = bufferN, !.headerBufferPosition = positionN]
           = Device(v, stateN, headersN, bufferN, positionN)
BY DEF Device, IsDevice

LEMMA DataWrite ==
  ASSUME NEW v, IsDevice(v), NEW out, NEW headers, NEW buffer, NEW position, NEW piece
  PROVE  DeviceWrite(Output(out, v, "body", headers, buffer, position), piece)
           = Output(Append(out, piece), v, "body", headers, buffer, position)
BY DEF DeviceWrite, Output, Device, IsDevice

LEMMA TextWrite ==
  ASSUME NEW v, IsDevice(v), NEW out, NEW headers, NEW buffer, NEW position, NEW piece, piece # NewLine
  PROVE  DeviceWrite(Output(out, v, "headers", headers, buffer, position), piece)
           = Output(out, v, "headers", headers, Append(buffer, piece), position)
BY ZenonT(30) DEF DeviceWrite, Output, Device, IsDevice

\* The end of a line that holds one header, ...
LEMMA LineWrite ==
  ASSUME NEW v, IsDevice(v), NEW out, NEW headers, NEW S, NEW buffer \in Seq(S), NEW header \in S, NewLine \in S
  PROVE  DeviceWrite(Output(out, v, "headers", headers, Append(buffer, header), Len(buffer)), NewLine)
           = Output(out, v, "headers", <<header>> \o headers, Append(Append(buffer, header), NewLine), Len(buffer) + 2)
<1> DEFINE n == Len(buffer)
<1>1. PICK text : text = Append(buffer, header)
  OBVIOUS
<1>2. text \in Seq(S) /\ Len(text) = n + 1 /\ text[n + 1] = header
  BY <1>1, AppendProperties
<1>3. PICK full : full = Append(text, NewLine)
  OBVIOUS
<1>4. full \in Seq(S) /\ Len(full) = n + 2 /\ full[n + 1] = header /\ n \in Nat
  BY <1>2, <1>3, AppendProperties
<1> HIDE DEF n
<1>5. PICK line : line = SubSeq(full, n + 1, Len(full) - 1)
  OBVIOUS
<1>6. line # <<>> /\ Head(line) = header
  <2>1. \A i \in (n + 1)..(n + 1) : full[i] \in S
    BY <1>4, ElementOfSeq
  <2>2. /\ line \in Seq(S) /\ Len(line) = IF n + 1 <= n + 1 THEN (n + 1) - (n + 1) + 1 ELSE 0
        /\ \A i \in 1..((n + 1) - (n + 1) + 1) : line[i] = full[(n + 1) + i - 1]
    <3>1. Len(full) - 1 = n + 1 /\ n + 1 \in Int
      BY <1>4
    <3> QED  BY <1>5, <2>1, <3>1, SubSeqProperties
  <2>3. (n + 1) - (n + 1) + 1 = 1 /\ n + 1 <= n + 1 /\ (n + 1) + 1 - 1 = n + 1
    BY <1>4
  <2>4. line \in Seq(S) /\ Len(line) = 1
    BY <2>2, <2>3
  <2>5. line[1] = full[n + 1]
    BY <2>2, <2>3
  <2>6. line # <<>>
    <3>1. Len(<<>>) = 0
      OBVIOUS
    <3>2. Len(line) # 0
      BY <2>4
    <3> QED  BY <3>1, <3>2, Zenon
  <2> QED  BY <1>4, <2>4, <2>5, <2>6, TailType
<1>7. PICK d : d = Output(out, v, "headers", headers, text, n)
  OBVIOUS
<1>8. /\ d.out = out /\ d.device.responseState = "headers" /\ d.device.headerBuffer = text
      /\ d.device.headerBufferPosition = n /\ d.device.responseHeaders = headers
  BY <1>7 DEF Output, Device, IsDevice
<1>9. DeviceWrite(d, NewLine) = [d EXCEPT !.device.responseHeaders = <<header>> \o headers,
                                          !.device.headerBuffer = full,
                                          !.device.headerBufferPosition = n + 2]
  BY <1>3, <1>4, <1>5, <1>6, <1>8 DEF DeviceWrite, Inserted, ReadUpTo
<1>10. [d EXCEPT !.device.responseHeaders = <<header>> \o headers, !.device.headerBuffer = full,
                 !.device.headerBufferPosition = n + 2]
         = Output(out, v, "headers", <<header>> \o headers, full, n + 2)
  <2>1. PICK w : w = Device(v, "headers", headers, text, n)
    OBVIOUS
  <2>2. d = [out |-> out, device |-> w]
    BY <1>7, <2>1 DEF Output
  <2>3. [d EXCEPT !.device.responseHeaders = <<header>> \o headers, !.device.headerBuffer = full,
                  !.device.headerBufferPosition = n + 2]
          = [out |-> out, device |-> [w EXCEPT !.responseHeaders = <<header>> \o headers, !.headerBuffer = full,
                                               !.headerBufferPosition = n + 2]]
    <3>1. PICK pushed, position : pushed = <<header>> \o headers /\ position = n + 2
      OBVIOUS
    <3>2. PICK changed : changed = [w EXCEPT !.responseHeaders = pushed, !.headerBuffer = full, !.headerBufferPosition = position]
      OBVIOUS
    <3>3. d.device = w
      BY <2>2
    <3>4. [d EXCEPT !.device.responseHeaders = pushed, !.device.headerBuffer = full, !.device.headerBufferPosition = position]
            = [d EXCEPT !.device = changed]
      BY ONLY <3>2, <3>3
    <3>5. [d EXCEPT !.device = changed] = [out |-> out, device |-> changed]
      BY <2>2
    <3> QED  BY <3>1, <3>2, <3>4, <3>5
  <2>4. [w EXCEPT !.responseHeaders = <<header>> \o headers, !.headerBuffer = full, !.headerBufferPosition = n + 2]
          = Device(v, "headers", <<header>> \o headers, full, n + 2)
    BY <2>1 DEF Device, IsDevice
  <2> QED  BY <2>3, <2>4 DEF Output
<1> QED  BY <1>1, <1>3, <1>7, <1>9, <1>10 DEF n

\* ... and the line that holds none.
LEMMA BlankWrite ==
  ASSUME NEW v, IsDevice(v), NEW out, NEW headers, NEW S, NEW buffer \in Seq(S), NewLine \in S
  PROVE  DeviceWrite(Output(out, v, "headers", headers, buffer, Len(buffer)), NewLine)
           = Output(out \o <<<<"status", Value(headers, "STATUS")>>>>
                      \o HeadersSent(Without(headers, "STATUS"))
                      \o <<<<"blank", 0>>>>,
                    v, "body", Without(headers, "STATUS"), <<>>, Len(buffer))
<1> DEFINE n == Len(buffer)
<1>1. PICK full : full = Append(buffer, NewLine)
  OBVIOUS
<1>2. full \in Seq(S) /\ Len(full) = n + 1 /\ n \in Nat
  BY <1>1, AppendProperties
<1>3. SubSeq(full, n + 1, Len(full) - 1) = <<>>
  <2>1. Len(full) - 1 = n /\ n < n + 1 /\ n \in Int /\ n + 1 \in Int
    BY <1>2
  <2> QED  BY <2>1, SubSeqEmpty
<1> HIDE DEF n
<1>4. PICK w : w = Device(v, "headers", headers, buffer, n)
  OBVIOUS
<1>5. PICK d : d = [out |-> out, device |-> w]
  OBVIOUS
<1>6. /\ w.responseState = "headers" /\ w.headerBuffer = buffer /\ w.headerBufferPosition = n
      /\ w.responseHeaders = headers
  BY <1>4, DeviceFields
<1>7. d.out = out /\ d.device = w
  BY <1>5
<1>8. PICK sent : sent = out \o <<<<"status", Value(headers, "STATUS")>>>>
                           \o HeadersSent(Without(headers, "STATUS"))
                           \o <<<<"blank", 0>>>>
  OBVIOUS
<1>9. DeviceWrite(d, NewLine) = [out |-> sent, device |-> [w EXCEPT !.responseState = "body", !.headerBuffer = <<>>,
                                                                   !.responseHeaders = Without(headers, "STATUS")]]
  BY <1>1, <1>3, <1>6, <1>7, <1>8 DEF DeviceWrite, HeadersSent
<1>10. [w EXCEPT !.responseState = "body", !.headerBuffer = <<>>, !.responseHeaders = Without(headers, "STATUS")]
         = Device(v, "body", Without(headers, "STATUS"), <<>>, n)
  BY <1>4 DEF Device, IsDevice
<1> QED  BY <1>4, <1>5, <1>8, <1>9, <1>10 DEF Output, n

\* The first write of a slot: the headers of the Request, each a line, come out of the
\* HttpRequest with the newest first.
FirstWritten(out, v, headers, data) ==
  LET turned == Reverse(headers) IN
  DeviceWritten(Output(out, v, "headers", <<>>, <<>>, 0), Lines(headers, NewLine) \o <<NewLine, data>>)
    = Output(Append(out \o <<<<"status", Value(turned, "STATUS")>>>> \o HeadersSent(Without(turned, "STATUS"))
                      \o <<<<"blank", 0>>>>, data),
             v, "body", Without(turned, "STATUS"), <<>>, 2 * Len(headers))

LEMMA FirstWrite ==
  ASSUME NEW v, IsDevice(v), NEW out, NEW headers \in Seq(Headers), NEW data, data # NewLine
  PROVE  FirstWritten(out, v, headers, data)
<1> DEFINE n == Len(headers)
           S == Headers \union {NewLine, data}
           R(k) == [i \in 1..k |-> headers[k - i + 1]]
<1>1. headers \in Seq(S) /\ n \in Nat /\ NewLine \in S /\ data \in S
  <2>1. Headers \subseteq S
    OBVIOUS
  <2>2. headers \in Seq(S)
    BY <2>1, SeqMonotonic
  <2> QED  BY <2>2
<1>2. PICK lines : lines = Lines(headers, NewLine)
  OBVIOUS
<1> HIDE DEF S
<1>3. /\ lines \in Seq(S) /\ Len(lines) = 2 * n
      /\ \A k \in 1..n : lines[2 * k - 1] = headers[k] /\ lines[2 * k] = NewLine
  <2>1. /\ Lines(headers, NewLine) \in Seq(S) /\ Len(Lines(headers, NewLine)) = 2 * Len(headers)
        /\ \A k \in 1..Len(headers) : Lines(headers, NewLine)[2 * k - 1] = headers[k] /\ Lines(headers, NewLine)[2 * k] = NewLine
    BY <1>1, LinesCorrect
  <2> QED  BY <1>2, <2>1
<1>4. PICK last \in Seq(S) : last = <<NewLine, data>> /\ Len(last) = 2 /\ last[1] = NewLine /\ last[2] = data
  <2>1. PICK end \in S : end = NewLine
    BY <1>1
  <2>2. <<end, data>> \in Seq(S) /\ Len(<<end, data>>) = 2 /\ <<end, data>>[1] = end /\ <<end, data>>[2] = data
    BY <1>1, Pair
  <2> QED  BY <2>1, <2>2
<1>5. PICK pieces : pieces = lines \o last
  OBVIOUS
<1>6. /\ pieces \in Seq(S) /\ Len(pieces) = 2 * n + 2
      /\ \A i \in 1..(2 * n + 2) : pieces[i] = IF i <= 2 * n THEN lines[i] ELSE last[i - 2 * n]
  <2>1. /\ lines \o last \in Seq(S) /\ Len(lines \o last) = 2 * n + 2
        /\ \A i \in 1..(2 * n + 2) : (lines \o last)[i] = IF i <= 2 * n THEN lines[i] ELSE last[i - 2 * n]
    BY <1>3, <1>4, ConcatIs
  <2> QED  BY <1>5, <2>1
<1>7. headers \in [1..n -> Headers]
  BY LenProperties
<1> HIDE DEF n
<1>8. PICK base : base = Output(out, v, "headers", <<>>, <<>>, 0)
  OBVIOUS
<1>9. PICK g : /\ g[0] = base /\ DeviceWritten(base, pieces) = g[Len(pieces)]
               /\ \A i \in 1..Len(pieces) : g[i] = DeviceWrite(g[i - 1], pieces[i])
  <2>1. pieces \in Seq(S)
    BY <1>6
  <2>2. PICK h : WriteSteps(h, base, pieces)
    BY ONLY <2>1, DeviceWriteFold
  <2> QED  BY <2>2 DEF WriteSteps
<1>10. \A k \in 1..n : R(k) = <<headers[k]>> \o R(k - 1)
  <2> SUFFICES ASSUME NEW k \in 1..n  PROVE R(k) = <<headers[k]>> \o R(k - 1)
    OBVIOUS
  <2>1. PICK r : r = R(k - 1)
    OBVIOUS
  <2>2. r \in [1..(k - 1) -> Headers]
    <3>1. \A i \in 1..(k - 1) : (k - 1) - i + 1 \in 1..n
      BY <1>1
    <3> QED  BY <1>7, <2>1, <3>1
  <2>3. r \in Seq(Headers) /\ Len(r) = k - 1 /\ headers[k] \in Headers
    <3>1. k - 1 \in Nat
      BY <1>1
    <3> QED  BY <1>7, <2>2, <3>1, IsASeq, LenProperties
  <2>4. PICK p : p = <<headers[k]>> \o r
    OBVIOUS
  <2>5. p \in Seq(Headers) /\ Len(p) = (k - 1) + 1 /\ \A i \in 1..((k - 1) + 1) : p[i] = IF i = 1 THEN headers[k] ELSE r[i - 1]
    BY <2>3, <2>4, PushType
  <2>6. PICK q : q = R(k)
    OBVIOUS
  <2>7. \A i \in 1..k : p[i] = q[i]
    <3> SUFFICES ASSUME NEW i \in 1..k  PROVE p[i] = q[i]
      OBVIOUS
    <3>1. q[i] = headers[k - i + 1] /\ (k - 1) + 1 = k
      BY <1>1, <2>6
    <3>2. CASE i = 1
      <4>1. k - i + 1 = k
        BY <1>1, <3>2
      <4> QED  BY <2>5, <3>1, <3>2, <4>1
    <3>3. CASE i # 1
      <4>1. i - 1 \in 1..(k - 1) /\ (k - 1) - (i - 1) + 1 = k - i + 1
        BY <1>1, <3>3
      <4> QED  BY <2>1, <2>5, <3>1, <3>3, <4>1
    <3> QED  BY <3>2, <3>3
  <2>8. q = [i \in 1..k |-> q[i]] /\ p = [i \in 1..k |-> p[i]]
    <3>1. DOMAIN p = 1..k
      BY <1>1, <2>5
    <3> QED  BY <2>5, <2>6, <3>1
  <2> QED  BY <2>1, <2>4, <2>6, <2>7, <2>8
<1>11. R(0) = <<>> /\ R(n) = Reverse(headers)
  <2>1. R(n) = Reverse(headers)
    BY DEF Reverse, n
  <2>2. R(0) = <<>>
    OBVIOUS
  <2> QED  BY <2>1, <2>2
<1> HIDE DEF R
<1> DEFINE Is(k, b) == Len(b) = 2 * k /\ g[2 * k] = Output(out, v, "headers", R(k), b, 2 * k)
           T == {k \in 0..n : \E b \in Seq(S) : Is(k, b)}
<1>12. 0 \in T
  <2>1. PICK none \in Seq(S) : none = <<>> /\ Len(none) = 0
    BY EmptySeq
  <2>2. Is(0, none)
    <3>1. 2 * 0 = 0
      OBVIOUS
    <3>2. g[2 * 0] = Output(out, v, "headers", R(0), none, 2 * 0)
      BY <1>8, <1>9, <1>11, <2>1, <3>1
    <3> QED  BY <2>1, <3>1, <3>2
  <2>3. 0 \in 0..n
    BY <1>1
  <2> HIDE DEF Is
  <2> QED  BY <2>2, <2>3, Zenon
<1>13. \A k \in 1..n : k - 1 \in T => k \in T
  <2> SUFFICES ASSUME NEW k \in 1..n, NEW b \in Seq(S), Is(k - 1, b)  PROVE \E c \in Seq(S) : Is(k, c)
    <3> HIDE DEF Is
    <3> QED  BY <1>1
  <2>1. PICK header \in S : header = headers[k] /\ header # NewLine
    <3>1. headers[k] \in Headers
      BY <1>7
    <3> QED  BY <3>1, HeaderTypes DEF S
  <2>2. /\ 2 * k - 1 \in 1..(2 * n + 2) /\ 2 * k \in 1..(2 * n + 2) /\ 2 * k - 1 <= 2 * n /\ 2 * k <= 2 * n
        /\ (2 * k - 1) - 1 = 2 * (k - 1) /\ 2 * (k - 1) + 2 = 2 * k
    BY <1>1
  <2>3. pieces[2 * k - 1] = header /\ pieces[2 * k] = NewLine
    BY <1>3, <1>6, <2>1, <2>2
  <2>4. g[2 * (k - 1)] = Output(out, v, "headers", R(k - 1), b, Len(b)) /\ Len(b) = 2 * (k - 1)
    OBVIOUS
  <2>5. g[2 * k - 1] = DeviceWrite(g[2 * (k - 1)], header) /\ g[2 * k] = DeviceWrite(g[2 * k - 1], NewLine)
    BY <1>6, <1>9, <2>2, <2>3
  <2> HIDE DEF Is
  <2>6. g[2 * k - 1] = Output(out, v, "headers", R(k - 1), Append(b, header), Len(b))
    <3>1. DeviceWrite(Output(out, v, "headers", R(k - 1), b, Len(b)), header)
            = Output(out, v, "headers", R(k - 1), Append(b, header), Len(b))
      BY <2>1, TextWrite
    <3> QED  BY <2>4, <2>5, <3>1
  <2>7. g[2 * k] = Output(out, v, "headers", <<header>> \o R(k - 1), Append(Append(b, header), NewLine), Len(b) + 2)
    BY <1>1, <2>5, <2>6, LineWrite
  <2>8. PICK c : c = Append(Append(b, header), NewLine)
    OBVIOUS
  <2>9. c \in Seq(S) /\ Len(c) = Len(b) + 2
    <3>1. PICK a : a = Append(b, header)
      OBVIOUS
    <3>2. a \in Seq(S) /\ Len(a) = Len(b) + 1 /\ Len(b) \in Nat
      BY <3>1, AppendProperties
    <3>3. Append(a, NewLine) \in Seq(S) /\ Len(Append(a, NewLine)) = Len(a) + 1
      BY <1>1, <3>2, AppendProperties
    <3> QED  BY <2>8, <3>1, <3>2, <3>3
  <2>10. Is(k, c)
    BY <1>10, <2>1, <2>2, <2>4, <2>7, <2>8, <2>9 DEF Is
  <2> QED  BY <2>9, <2>10
<1>14. PICK b \in Seq(S) : Is(n, b)
  <2> HIDE DEF T
  <2>1. 0..n \subseteq T
    BY <1>1, <1>12, <1>13, BoundedInduction
  <2>2. n \in T
    BY <1>1, <2>1
  <2> HIDE DEF Is
  <2> QED  BY <2>2 DEF T
<1>15. PICK turned : turned = Reverse(headers)
  OBVIOUS
<1>16. g[2 * n] = Output(out, v, "headers", turned, b, Len(b)) /\ Len(b) = 2 * n
  BY <1>11, <1>14, <1>15
<1>17. PICK sent : sent = out \o <<<<"status", Value(turned, "STATUS")>>>>
                            \o HeadersSent(Without(turned, "STATUS"))
                            \o <<<<"blank", 0>>>>
  OBVIOUS
<1>18. pieces[2 * n + 1] = NewLine /\ pieces[2 * n + 2] = data
  <2>1. /\ 2 * n + 1 \in 1..(2 * n + 2) /\ 2 * n + 2 \in 1..(2 * n + 2) /\ ~(2 * n + 1 <= 2 * n) /\ ~(2 * n + 2 <= 2 * n)
        /\ (2 * n + 1) - 2 * n = 1 /\ (2 * n + 2) - 2 * n = 2
    BY <1>1
  <2> QED  BY <1>4, <1>6, <2>1
<1>19. g[2 * n + 1] = DeviceWrite(g[2 * n], NewLine) /\ g[2 * n + 2] = DeviceWrite(g[2 * n + 1], data)
  <2>1. 2 * n + 1 \in 1..(2 * n + 2) /\ 2 * n + 2 \in 1..(2 * n + 2) /\ (2 * n + 1) - 1 = 2 * n /\ (2 * n + 2) - 1 = 2 * n + 1
    BY <1>1
  <2> QED  BY <1>6, <1>9, <1>18, <2>1
<1>20. g[2 * n + 1] = Output(sent, v, "body", Without(turned, "STATUS"), <<>>, 2 * n)
  <2> HIDE DEF Is
  <2>1. DeviceWrite(Output(out, v, "headers", turned, b, Len(b)), NewLine)
          = Output(sent, v, "body", Without(turned, "STATUS"), <<>>, Len(b))
    BY <1>1, <1>17, BlankWrite
  <2> QED  BY <1>16, <1>19, <2>1
<1>21. g[2 * n + 2] = Output(Append(sent, data), v, "body", Without(turned, "STATUS"), <<>>, 2 * n)
  BY <1>19, <1>20, DataWrite
<1> QED  BY <1>2, <1>4, <1>5, <1>6, <1>8, <1>9, <1>15, <1>17, <1>21 DEF n, FirstWritten

-----------------------------------------------------------------------------
(* What a browser is sent for the headers of a Request. *)

LEMMA ReverseRange == ASSUME NEW S, NEW seq \in Seq(S)  PROVE Range(Reverse(seq)) = Range(seq)
<1>1. PICK r : r = Reverse(seq)
  OBVIOUS
<1>2. r \in Seq(S) /\ Len(r) = Len(seq) /\ Len(seq) \in Nat /\ \A i \in 1..Len(seq) : r[i] = seq[Len(seq) - i + 1]
  BY <1>1, ReverseType
<1>3. Range(r) = {r[i] : i \in 1..Len(seq)} /\ Range(seq) = {seq[i] : i \in 1..Len(seq)}
  <2>1. DOMAIN r = 1..Len(seq) /\ DOMAIN seq = 1..Len(seq)
    BY <1>2, LenProperties
  <2> QED  BY <2>1 DEF Range
<1>4. \A i \in 1..Len(seq) : Len(seq) - i + 1 \in 1..Len(seq) /\ Len(seq) - (Len(seq) - i + 1) + 1 = i
  BY <1>2
<1>5. \A i \in 1..Len(seq) : seq[i] = r[Len(seq) - i + 1]
  BY <1>2, <1>4
<1>6. {r[i] : i \in 1..Len(seq)} \subseteq {seq[i] : i \in 1..Len(seq)}
  <2> SUFFICES ASSUME NEW i \in 1..Len(seq)  PROVE r[i] \in {seq[j] : j \in 1..Len(seq)}
    OBVIOUS
  <2>1. r[i] = seq[Len(seq) - i + 1] /\ Len(seq) - i + 1 \in 1..Len(seq)
    BY <1>2, <1>4
  <2> QED  BY <2>1
<1>7. {seq[i] : i \in 1..Len(seq)} \subseteq {r[i] : i \in 1..Len(seq)}
  BY <1>4, <1>5
<1> QED  BY <1>1, <1>3, <1>6, <1>7

\* Turned round, the other headers are the same, turned round.
LEMMA WithoutReverse ==
  ASSUME NEW headers \in Seq(Headers)
  PROVE  /\ Without(Reverse(headers), "STATUS") = Reverse(Without(headers, "STATUS"))
         /\ Without(headers, "STATUS") \in Seq(Headers)
<1> DEFINE set == {h \in Range(headers) : h[1] # "STATUS"}
<1>1. Without(headers, "STATUS") = Only(headers, set)
  BY DEF Without
<1>2. Without(Reverse(headers), "STATUS") = Only(Reverse(headers), set)
  <2>1. Range(Reverse(headers)) = Range(headers)
    BY ReverseRange
  <2> QED  BY <2>1 DEF Without
<1> HIDE DEF set
<1>3. Only(Reverse(headers), set) = Reverse(Only(headers, set))
  BY OnlyReverse
<1>4. Only(headers, set) \in Seq(Headers)
  <2>1. PICK o : o = Only(headers, set)
    OBVIOUS
  <2>2. o \in Seq(Headers \intersect set)
    BY <2>1, OnlyType
  <2> QED  BY <2>1, <2>2
<1> QED  BY <1>1, <1>2, <1>3, <1>4

LEMMA StatusValue ==
  ASSUME NEW headers \in Seq(Headers), NEW k \in 1..Len(headers), \A n \in 1..Len(headers) : headers[n][1] = "STATUS" <=> n = k
  PROVE  Value(headers, "STATUS") = headers[k][2]
<1>1. Found(headers, "STATUS") = k
  BY FoundCorrect
<1> QED  BY <1>1 DEF Value

LEMMA StatusReverse ==
  ASSUME NEW headers \in Seq(Headers), OneStatus(headers)
  PROVE  Value(Reverse(headers), "STATUS") = Value(headers, "STATUS")
<1>1. PICK k \in 1..Len(headers) : \A n \in 1..Len(headers) : headers[n][1] = "STATUS" <=> n = k
  BY DEF OneStatus
<1>2. PICK m : m = Len(headers)
  OBVIOUS
<1>3. PICK r : r = Reverse(headers)
  OBVIOUS
<1>4. r \in Seq(Headers) /\ Len(r) = m /\ m \in Nat /\ \A i \in 1..m : r[i] = headers[m - i + 1]
  BY <1>2, <1>3, ReverseType
<1>5. m - k + 1 \in 1..Len(r) /\ m - (m - k + 1) + 1 = k
  BY <1>2, <1>4
<1>6. \A n \in 1..Len(r) : r[n][1] = "STATUS" <=> n = m - k + 1
  <2> SUFFICES ASSUME NEW n \in 1..m  PROVE headers[m - n + 1][1] = "STATUS" <=> n = m - k + 1
    BY <1>4
  <2>1. m - n + 1 \in 1..m /\ (m - n + 1 = k <=> n = m - k + 1)
    BY <1>2, <1>4
  <2> QED  BY <1>1, <1>2, <2>1
<1>7. Value(r, "STATUS") = r[m - k + 1][2]
  BY <1>4, <1>5, <1>6, StatusValue
<1>8. r[m - k + 1] = headers[k]
  BY <1>4, <1>5
<1>9. Value(headers, "STATUS") = headers[k][2]
  BY <1>1, StatusValue
<1> QED  BY <1>3, <1>7, <1>8, <1>9

\* The status, the other headers and the empty line.
IsPreface(sent, status, others, blank) ==
  /\ sent \in Seq(Sent) /\ Len(sent) = Len(others) + 2 /\ sent[1] = status
  /\ \A k \in 1..Len(others) : sent[k + 1] = <<"header", others[k]>>
  /\ sent[Len(others) + 2] = blank
Preface(out, status, others, blank) == out \o <<status>> \o HeadersSent(others) \o <<blank>>

LEMMA SentHeaders ==
  ASSUME NEW status \in Sent, NEW others \in Seq(Headers), NEW blank \in Sent, NEW out \in Seq(Sent), Len(out) = 0
  PROVE  IsPreface(Preface(out, status, others, blank), status, others, blank)
<1> DEFINE n == Len(others)
<1>1. PICK f : f = [k \in 1..n |-> <<"header", others[k]>>]
  OBVIOUS
<1>2. f \in Seq(Sent) /\ Len(f) = n /\ n \in Nat /\ \A k \in 1..n : f[k] = <<"header", others[k]>>
  <2>1. \A k \in 1..n : others[k] \in Headers
    BY ElementOfSeq
  <2>2. \A h \in Headers : <<"header", h>> \in Sent
    BY DEF Sent
  <2>3. n \in Nat
    OBVIOUS
  <2> HIDE DEF n
  <2>4. \A k \in 1..n : f[k] = <<"header", others[k]>>
    BY <1>1
  <2>5. f = [k \in 1..n |-> f[k]] /\ \A k \in 1..n : f[k] \in Sent
    BY <1>1, <2>1, <2>2, <2>4 DEF n
  <2>6. f \in [1..n -> Sent]
    BY <2>5
  <2>7. f \in Seq(Sent) /\ DOMAIN f = 1..n
    BY <2>3, <2>6, IsASeq
  <2>8. Len(f) = n
    BY <2>3, <2>7, LenProperties
  <2> QED  BY <2>3, <2>4, <2>7, <2>8
<1> HIDE DEF n
<1>3. PICK first \in Seq(Sent) : first = <<status>> /\ Len(first) = 1 /\ first[1] = status
  BY Singleton
<1>4. PICK last \in Seq(Sent) : last = <<blank>> /\ Len(last) = 1 /\ last[1] = blank
  BY Singleton
<1>5. out \o first = first
  <2>1. out = <<>>
    BY EmptySeq
  <2> QED  BY <2>1, ConcatEmptySeq
<1>6. PICK a : a = first \o f
  OBVIOUS
<1>7. a \in Seq(Sent) /\ Len(a) = 1 + n /\ \A i \in 1..(1 + n) : a[i] = IF i <= 1 THEN first[i] ELSE f[i - 1]
  BY <1>2, <1>3, <1>6, ConcatIs
<1> DEFINE sent == Preface(out, status, others, blank)
<1>8. sent = a \o last
  BY <1>1, <1>3, <1>4, <1>5, <1>6 DEF n, HeadersSent, Preface
<1> HIDE DEF sent
<1>9. /\ sent \in Seq(Sent) /\ Len(sent) = (1 + n) + 1
      /\ \A i \in 1..((1 + n) + 1) : sent[i] = IF i <= 1 + n THEN a[i] ELSE last[i - (1 + n)]
  <2>1. /\ a \o last \in Seq(Sent) /\ Len(a \o last) = (1 + n) + 1
        /\ \A i \in 1..((1 + n) + 1) : (a \o last)[i] = IF i <= 1 + n THEN a[i] ELSE last[i - (1 + n)]
    <3>1. PICK m, one : m = 1 + n /\ one = 1
      OBVIOUS
    <3>2. a \in Seq(Sent) /\ last \in Seq(Sent) /\ Len(a) = m /\ Len(last) = one
      BY <1>4, <1>7, <3>1
    <3>3. /\ a \o last \in Seq(Sent) /\ Len(a \o last) = m + one
          /\ \A i \in 1..(m + one) : (a \o last)[i] = IF i <= m THEN a[i] ELSE last[i - m]
      BY ONLY <3>2, ConcatIs
    <3> QED  BY <3>1, <3>3
  <2> QED  BY <1>8, <2>1
<1>10. sent[1] = status
  <2>1. 1 \in 1..(1 + n) /\ 1 \in 1..((1 + n) + 1) /\ 1 <= 1 + n
    BY <1>2
  <2> QED  BY <1>3, <1>7, <1>9, <2>1
<1>11. \A k \in 1..n : sent[k + 1] = f[k]
  <2> SUFFICES ASSUME NEW k \in 1..n  PROVE sent[k + 1] = f[k]
    OBVIOUS
  <2>1. k + 1 \in 1..(1 + n) /\ k + 1 \in 1..((1 + n) + 1) /\ k + 1 <= 1 + n /\ ~(k + 1 <= 1) /\ (k + 1) - 1 = k
    BY <1>2
  <2> QED  BY <1>7, <1>9, <2>1
<1>12. sent[n + 2] = blank /\ (1 + n) + 1 = n + 2
  <2>1. n + 2 \in 1..((1 + n) + 1) /\ ~(n + 2 <= 1 + n) /\ (n + 2) - (1 + n) = 1 /\ (1 + n) + 1 = n + 2
    BY <1>2
  <2> QED  BY <1>4, <1>9, <2>1
<1> QED  BY <1>2, <1>9, <1>10, <1>11, <1>12 DEF n, sent, IsPreface

-----------------------------------------------------------------------------
(* The steps that send: a file, the first write of a slot, and the later ones. *)

LEMMA DeviceType ==
  ASSUME NEW v, IsDevice(v), NEW headers \in Seq(Headers), NEW position \in Nat, NEW empty, empty = <<>>
  PROVE  IsDevice(Device(v, "body", headers, empty, position))
<1>1. empty \in Seq({NewLine} \union Headers)
  BY EmptySeq
<1>2. PICK d : d = Device(v, "body", headers, empty, position)
  OBVIOUS
<1>3. /\ d.responseState = "body" /\ d.requestHeaders = v.requestHeaders
      /\ d \in [requestState : {"request", "headers", "body"}, requestHeaders : {v.requestHeaders},
                responseState : {"headers", "body"}, responseHeaders : Seq(Headers),
                headerBuffer : Seq({NewLine} \union Headers), headerBufferPosition : Nat,
                life : {"alive", "doomed", "deleted"}]
  BY <1>1, <1>2 DEF Device, IsDevice
<1>4. IsVariables(d.requestHeaders)
  BY <1>3 DEF IsDevice
<1> QED  BY <1>2, <1>3, <1>4 DEF IsDevice

\* Nothing has been sent yet.
Unsent ==
  /\ device.responseState = "headers" /\ device.responseHeaders = <<>>
  /\ device.headerBuffer = <<>> /\ device.headerBufferPosition = 0 /\ socket.received = <<>> /\ socket.out = <<>>

LEMMA Four ==
  ASSUME NEW S, NEW s \in Seq(S), Len(s) = 3, NEW e \in S
  PROVE  Append(s, e) = <<s[1], s[2], s[3], e>>
<1>1. PICK a, b, c : a = s[1] /\ b = s[2] /\ c = s[3]
  OBVIOUS
<1>2. PICK t : t = Append(s, e)
  OBVIOUS
<1>3. t \in Seq(S) /\ Len(t) = 4 /\ t[4] = e /\ \A i \in 1..3 : t[i] = s[i]
  <2>1. t \in Seq(S) /\ Len(t) = Len(s) + 1 /\ t[Len(s) + 1] = e /\ \A i \in 1..Len(s) : t[i] = s[i]
    BY ONLY s \in Seq(S), e \in S, <1>2, AppendProperties
  <2>2. 3 + 1 = 4
    OBVIOUS
  <2> QED  BY <2>1, <2>2
<1>4. a \in S /\ b \in S /\ c \in S /\ t[1] = a /\ t[2] = b /\ t[3] = c
  <2>1. 1 \in 1..3 /\ 2 \in 1..3 /\ 3 \in 1..3
    OBVIOUS
  <2>2. \A i \in 1..3 : s[i] \in S
    BY ElementOfSeq
  <2> QED  BY <1>1, <1>3, <2>1, <2>2
<1>5. PICK u : u = <<a, b, c, e>>
  OBVIOUS
<1>6. u \in Seq(S) /\ Len(u) = 4 /\ u[1] = a /\ u[2] = b /\ u[3] = c /\ u[4] = e
  BY <1>4, <1>5
<1>7. \A i \in 1..4 : t[i] = u[i]
  <2>1. \A i \in 1..4 : i = 1 \/ i = 2 \/ i = 3 \/ i = 4
    OBVIOUS
  <2> QED  BY <1>3, <1>4, <1>6, <2>1
<1>8. t = u
  BY <1>3, <1>6, <1>7, SeqEqual
<1> QED  BY <1>1, <1>2, <1>5, <1>8

LEMMA FileCorrect ==
  ASSUME NEW v, IsDevice(v), NEW out, out = <<>>
  PROVE  DeviceWritten(Output(out, v, "headers", FileHeaders, <<>>, 0), <<NewLine, <<"data", 0>>>>)
           = Output(FileAnswer, v, "body", Without(FileHeaders, "STATUS"), <<>>, 0)
<1>1. PICK data : data = <<"data", 0>>
  OBVIOUS
<1>2. PICK end : end = NewLine
  OBVIOUS
<1>3. PICK S : S = {end, data}
  OBVIOUS
<1>4. PICK pieces : pieces = <<end, data>>
  OBVIOUS
<1>5. pieces \in Seq(S) /\ Len(pieces) = 2 /\ pieces[1] = end /\ pieces[2] = data
  BY <1>3, <1>4, Pair
<1>17. PICK headers : headers = FileHeaders
  OBVIOUS
<1>6. PICK base : base = Output(out, v, "headers", headers, <<>>, 0)
  OBVIOUS
<1>7. PICK g : /\ g[0] = base /\ DeviceWritten(base, pieces) = g[Len(pieces)]
               /\ \A i \in 1..Len(pieces) : g[i] = DeviceWrite(g[i - 1], pieces[i])
  <2>1. pieces \in Seq(S)
    BY <1>5
  <2>2. PICK h : WriteSteps(h, base, pieces)
    BY ONLY <2>1, DeviceWriteFold
  <2> QED  BY <2>2 DEF WriteSteps
<1>8. g[1] = DeviceWrite(g[0], end) /\ g[2] = DeviceWrite(g[1], data)
  <2>1. 1 \in 1..2 /\ 2 \in 1..2 /\ 1 - 1 = 0 /\ 2 - 1 = 1
    OBVIOUS
  <2> QED  BY <1>5, <1>7, <2>1
<1>9. PICK others : others = Without(headers, "STATUS")
  OBVIOUS
<1>10. PICK status : status = Value(headers, "STATUS")
  OBVIOUS
<1>11. PICK sent : sent = out \o <<<<"status", status>>>> \o HeadersSent(others) \o <<<<"blank", 0>>>>
  OBVIOUS
<1>12. g[1] = Output(sent, v, "body", others, <<>>, 0)
  <2>1. PICK buffer \in Seq(S) : buffer = <<>> /\ Len(buffer) = 0
    BY EmptySeq
  <2>2. NewLine \in S
    BY <1>2, <1>3
  <2>3. DeviceWrite(Output(out, v, "headers", headers, buffer, Len(buffer)), NewLine)
          = Output(out \o <<<<"status", Value(headers, "STATUS")>>>>
                      \o HeadersSent(Without(headers, "STATUS"))
                      \o <<<<"blank", 0>>>>,
                    v, "body", Without(headers, "STATUS"), <<>>, Len(buffer))
    BY ONLY IsDevice(v), buffer \in Seq(S), <2>2, BlankWrite
  <2>4. DeviceWrite(Output(out, v, "headers", headers, buffer, Len(buffer)), NewLine)
          = Output(sent, v, "body", others, <<>>, Len(buffer))
    BY <1>9, <1>10, <1>11, <2>3
  <2> QED  BY <1>2, <1>6, <1>7, <1>8, <2>1, <2>4
<1>13. g[2] = Output(Append(sent, data), v, "body", others, <<>>, 0)
  BY <1>8, <1>12, DataWrite
<1>14. PICK a : a = <<"LENGTH", "n">>
  OBVIOUS
<1>15. PICK b : b = <<"STATUS", "200 OK">>
  OBVIOUS
<1>16. a[1] = "LENGTH" /\ b[1] = "STATUS" /\ b[2] = "200 OK"
  BY <1>14, <1>15
<1>18. headers \in Seq(Headers) /\ Len(headers) = 2 /\ headers[1] = a /\ headers[2] = b
  BY <1>14, <1>15, <1>17, HeaderTypes
<1>19. headers = <<a, b>> /\ a \in Headers /\ b \in Headers
  <2>1. 1 \in 1..2 /\ 2 \in 1..2
    OBVIOUS
  <2>2. a \in Headers /\ b \in Headers
    BY <1>18, <2>1, ElementOfSeq
  <2> QED  BY <1>14, <1>15, <1>17, <2>2 DEF FileHeaders
<1>20. status = "200 OK" /\ <<"status", status>> \in Sent
  <2>1. \A i \in 1..Len(headers) : headers[i][1] = "STATUS" <=> i = 2
    <3>1. \A i \in 1..2 : i = 1 \/ i = 2
      OBVIOUS
    <3>2. a[1] # "STATUS"
      BY <1>16
    <3> QED  BY <1>16, <1>18, <3>1, <3>2
  <2>2. 2 \in 1..Len(headers)
    BY <1>18
  <2>3. Value(headers, "STATUS") = headers[2][2]
    BY <1>18, <2>1, <2>2, StatusValue
  <2>4. status = b[2]
    BY <1>10, <1>18, <2>3
  <2>5. <<"status", b[2]>> \in Sent
    BY <1>19 DEF Sent
  <2> QED  BY <1>16, <2>4, <2>5
<1>21. others = <<a>> /\ others \in Seq(Headers)
  <2>1. PICK set : set = {h \in Range(headers) : h[1] # "STATUS"}
    OBVIOUS
  <2>2. a \in set /\ b \notin set
    <3>1. DOMAIN headers = 1..2
      BY <1>18, LenProperties
    <3>2. a \in Range(headers)
      BY <1>18, <3>1 DEF Range
    <3>3. a[1] # "STATUS"
      BY <1>16
    <3> QED  BY <1>16, <2>1, <3>2, <3>3
  <2>3. PICK none \in Seq(Headers) : none = <<>>
    BY EmptySeq
  <2>4. PICK first : first = Append(none, a)
    OBVIOUS
  <2>5. first \in Seq(Headers) /\ first = <<a>>
    BY <1>19, <2>3, <2>4
  <2>6. headers = Append(first, b)
    BY <1>19, <2>5
  <2>7. Only(Append(first, b), set) = IF b \in set THEN Append(Only(first, set), b) ELSE Only(first, set)
    <3>1. first \in Seq(Headers) /\ b \in Headers
      BY <1>19, <2>5
    <3> QED  BY ONLY <3>1, OnlyAppend
  <2>8. Only(Append(none, a), set) = IF a \in set THEN Append(Only(none, set), a) ELSE Only(none, set)
    BY <1>19, <2>3, OnlyAppend, ZenonT(30)
  <2>9. Only(none, set) = none
    BY <2>3, OnlyEmpty
  <2>10. others = Only(headers, set)
    BY <1>9, <2>1 DEF Without
  <2>11. others = first
    BY <2>2, <2>4, <2>6, <2>7, <2>8, <2>9, <2>10
  <2> QED  BY <2>5, <2>11
<1>22. /\ sent \in Seq(Sent) /\ Len(sent) = 3 /\ sent[1] = <<"status", "200 OK">>
       /\ sent[2] = <<"header", a>> /\ sent[3] = <<"blank", 0>>
  <2>1. Len(others) = 1 /\ others[1] = a
    BY <1>19, <1>21, Singleton
  <2>2. PICK first \in Sent : first = <<"status", status>>
    BY <1>20
  <2>3. PICK blank \in Sent : blank = <<"blank", 0>>
    BY DEF Sent
  <2>4. /\ sent \in Seq(Sent) /\ Len(sent) = Len(others) + 2 /\ sent[1] = first
        /\ \A k \in 1..Len(others) : sent[k + 1] = <<"header", others[k]>>
        /\ sent[Len(others) + 2] = blank
    <3>1. sent = out \o <<first>> \o HeadersSent(others) \o <<blank>>
      BY <1>11, <2>2, <2>3
    <3>2. first \in Sent /\ blank \in Sent /\ others \in Seq(Headers) /\ out \in Seq(Sent) /\ Len(out) = 0
      BY <1>21
    <3>3. IsPreface(Preface(out, first, others, blank), first, others, blank)
      BY ONLY <3>2, SentHeaders
    <3>4. sent = Preface(out, first, others, blank)
      BY <3>1 DEF Preface
    <3> QED  BY ONLY <3>3, <3>4 DEF IsPreface
  <2>5. 1 \in 1..1 /\ 1 + 1 = 2 /\ 1 + 2 = 3
    OBVIOUS
  <2>6. sent[2] = <<"header", others[1]>>
    BY <2>1, <2>4, <2>5
  <2> QED  BY <1>20, <2>1, <2>2, <2>3, <2>4, <2>5, <2>6
<1>23. Append(sent, data) = FileAnswer
  <2>1. MaxWrites \in Nat
    BY HttpAssumption
  <2>2. 0 \in 0..MaxWrites
    BY <2>1
  <2>3. data \in Sent
    BY <1>1, <2>2 DEF Sent
  <2>4. Append(sent, data) = <<sent[1], sent[2], sent[3], data>>
    BY <1>22, <2>3, Four
  <2> QED  BY <1>1, <1>14, <1>22, <2>4 DEF FileAnswer
<1> QED  BY <1>1, <1>2, <1>4, <1>5, <1>6, <1>7, <1>9, <1>13, <1>17, <1>23

LEMMA ServeFileEffect ==
  ASSUME IsDevice(device), Unsent, ServeFile
  PROVE  /\ IsDevice(device') /\ device'.requestState = "body" /\ device'.life = "doomed"
         /\ device'.requestHeaders = device.requestHeaders
         /\ socket' = [socket EXCEPT !.in = AfterLine, !.out = FileAnswer]
<1>1. PICK v : v = [device EXCEPT !.requestState = "body"]
  OBVIOUS
<1>2. IsDevice(v) /\ v.requestState = "body" /\ v.requestHeaders = device.requestHeaders
  BY <1>1 DEF IsDevice
<1>3. PICK filled : filled = [device EXCEPT !.requestState = "body", !.responseHeaders = FileHeaders]
  OBVIOUS
<1>4. filled = Device(v, "headers", FileHeaders, <<>>, 0)
  <2>1. /\ device.responseState = "headers" /\ device.headerBuffer = <<>> /\ device.headerBufferPosition = 0
    BY DEF Unsent
  <2> QED  BY <1>1, <1>3, <2>1 DEF Device, IsDevice
<1>5. PICK out : out = socket.out /\ out = <<>>
  BY DEF Unsent
<1>6. PICK d : d = DeviceWritten([out |-> socket.out, device |-> filled], <<NewLine, <<"data", 0>>>>)
  OBVIOUS
<1>7. PICK w : w = Device(v, "body", Without(FileHeaders, "STATUS"), <<>>, 0)
  OBVIOUS
<1>8. d.out = FileAnswer /\ d.device = w
  <2>1. DeviceWritten(Output(out, v, "headers", FileHeaders, <<>>, 0), <<NewLine, <<"data", 0>>>>)
          = Output(FileAnswer, v, "body", Without(FileHeaders, "STATUS"), <<>>, 0)
    BY <1>2, <1>5, FileCorrect
  <2>2. [out |-> socket.out, device |-> filled] = Output(out, v, "headers", FileHeaders, <<>>, 0)
    BY <1>4, <1>5 DEF Output
  <2>3. d = Output(FileAnswer, v, "body", Without(FileHeaders, "STATUS"), <<>>, 0)
    BY <1>6, <2>1, <2>2
  <2> QED  BY <1>7, <2>3 DEF Output
<1>9. device' = [w EXCEPT !.life = "doomed"] /\ socket' = [socket EXCEPT !.in = AfterLine, !.out = FileAnswer]
  <2>1. device' = [d.device EXCEPT !.life = "doomed"] /\ socket' = [socket EXCEPT !.in = AfterLine, !.out = d.out]
    BY <1>3, <1>6 DEF ServeFile
  <2> QED  BY <1>8, <2>1
<1>10. IsDevice(w) /\ w.requestState = "body" /\ w.requestHeaders = device.requestHeaders
  <2>1. Without(FileHeaders, "STATUS") \in Seq(Headers)
    BY HeaderTypes, WithoutReverse
  <2>2. 0 \in Nat
    OBVIOUS
  <2>3. IsDevice(w)
    BY <1>2, <1>7, <2>1, <2>2, DeviceType
  <2> QED  BY <1>2, <1>7, <2>3, DeviceFields
<1>11. device' = [w EXCEPT !.life = "doomed"]
  BY <1>9
<1>12. IsDevice(device') /\ device'.requestState = w.requestState /\ device'.requestHeaders = w.requestHeaders /\ device'.life = "doomed"
  BY <1>10, <1>11 DEF IsDevice
<1> QED  BY <1>9, <1>10, <1>12

LEMMA FirstAnswer ==
  ASSUME NEW headers \in Seq(Headers), NEW sent, NEW blank, blank = <<"blank", 0>>, NEW status,
         status = <<"status", Value(headers, "STATUS")>>, IsPreface(sent, status, Reverse(Without(headers, "STATUS")), blank)
  PROVE  IsAnswer(sent, headers, 0)
<1>1. PICK others : others = Reverse(Without(headers, "STATUS"))
  OBVIOUS
<1>2. Len(others) + 2 + 0 = Len(others) + 2
  <2>1. others \in Seq(Headers)
    BY <1>1, WithoutReverse, ReverseType
  <2> QED  BY <2>1
<1>3. \A k \in 1..0 : FALSE
  OBVIOUS
<1> QED  BY <1>1, <1>2, <1>3 DEF IsAnswer, IsPreface

LEMMA NextAnswer ==
  ASSUME NEW headers \in Seq(Headers), NEW S, NEW answer \in Seq(S), NEW writes \in Nat, NEW data \in S,
         data = <<"data", writes + 1>>, IsAnswer(answer, headers, writes)
  PROVE  IsAnswer(Append(answer, data), headers, writes + 1)
<1>1. PICK others : others = Reverse(Without(headers, "STATUS"))
  OBVIOUS
<1>2. PICK n : n = Len(others)
  OBVIOUS
<1>3. n \in Nat
  <2>1. others \in Seq(Headers)
    BY <1>1, WithoutReverse, ReverseType
  <2> QED  BY <1>2, <2>1
<1>4. /\ Len(answer) = n + 2 + writes /\ answer[1] = <<"status", Value(headers, "STATUS")>>
      /\ \A k \in 1..n : answer[k + 1] = <<"header", others[k]>>
      /\ answer[n + 2] = <<"blank", 0>>
      /\ \A k \in 1..writes : answer[n + 2 + k] = <<"data", k>>
  BY <1>1, <1>2 DEF IsAnswer
<1>5. PICK l : l = Append(answer, data)
  OBVIOUS
<1>6. Len(l) = (n + 2 + writes) + 1 /\ l[(n + 2 + writes) + 1] = data /\ \A k \in 1..(n + 2 + writes) : l[k] = answer[k]
  BY <1>4, <1>5, AppendProperties
<1>7. l[1] = answer[1] /\ l[n + 2] = answer[n + 2]
  <2>1. 1 \in 1..(n + 2 + writes) /\ n + 2 \in 1..(n + 2 + writes)
    BY <1>3
  <2> QED  BY <1>6, <2>1
<1>8. \A k \in 1..n : l[k + 1] = <<"header", others[k]>>
  <2>1. \A k \in 1..n : k + 1 \in 1..(n + 2 + writes)
    BY <1>3
  <2> QED  BY <1>4, <1>6, <2>1
<1>9. \A k \in 1..(writes + 1) : l[n + 2 + k] = <<"data", k>>
  <2> SUFFICES ASSUME NEW k \in 1..(writes + 1)  PROVE l[n + 2 + k] = <<"data", k>>
    OBVIOUS
  <2>1. CASE k = writes + 1
    <3>1. n + 2 + k = (n + 2 + writes) + 1
      BY <1>3, <2>1
    <3> QED  BY <1>6, <2>1, <3>1
  <2>2. CASE k # writes + 1
    <3>1. k \in 1..writes /\ n + 2 + k \in 1..(n + 2 + writes)
      BY <1>3, <2>2
    <3> QED  BY <1>4, <1>6, <3>1
  <2> QED  BY <2>1, <2>2
<1>10. Len(l) = n + 2 + (writes + 1)
  BY <1>3, <1>6
<1> QED  BY <1>1, <1>2, <1>4, <1>5, <1>7, <1>8, <1>9, <1>10 DEF IsAnswer

LEMMA DataPiece ==
  ASSUME HttpTypeOK, request.writes < MaxWrites, NEW data, data = <<"data", request.writes + 1>>
  PROVE  data \in Sent /\ data # NewLine /\ request.writes \in Nat /\ request.writes + 1 \in 0..MaxWrites
<1>1. MaxWrites \in Nat /\ request.writes \in 0..MaxWrites
  BY HttpAssumption DEF HttpTypeOK, IsRequest
<1>2. request.writes + 1 \in 0..MaxWrites /\ request.writes \in Nat
  BY <1>1
<1>3. data \in Sent
  BY <1>2 DEF Sent
<1>4. data # NewLine
  <2>1. PICK k : k = request.writes + 1
    OBVIOUS
  <2>2. <<"data", k>> # <<"newline">>
    OBVIOUS
  <2> QED  BY <2>1, <2>2 DEF NewLine
<1> QED  BY <1>2, <1>3, <1>4

LEMMA LaterWriteEffect ==
  ASSUME HttpTypeOK, device.responseState = "body", request.haveSentHeaders, Write,
         NEW data, data = <<"data", request.writes + 1>>
  PROVE  device' = device /\ socket' = [socket EXCEPT !.out = Append(socket.out, data)]
<1>1. PICK base : base = [out |-> socket.out, device |-> device]
  OBVIOUS
<1>2. PICK S : S = {data}
  OBVIOUS
<1>3. PICK pieces : pieces = <<data>>
  OBVIOUS
<1>4. pieces \in Seq(S) /\ Len(pieces) = 1 /\ pieces[1] = data
  BY <1>2, <1>3, Singleton
<1>5. PICK g : /\ g[0] = base /\ DeviceWritten(base, pieces) = g[Len(pieces)]
               /\ \A i \in 1..Len(pieces) : g[i] = DeviceWrite(g[i - 1], pieces[i])
  <2>1. pieces \in Seq(S)
    BY <1>4
  <2>2. PICK h : WriteSteps(h, base, pieces)
    BY ONLY <2>1, DeviceWriteFold
  <2> QED  BY <2>2 DEF WriteSteps
<1>6. g[1] = DeviceWrite(base, data)
  <2>1. 1 \in 1..1 /\ 1 - 1 = 0
    OBVIOUS
  <2> QED  BY <1>4, <1>5, <2>1
<1>7. DeviceWrite(base, data) = [base EXCEPT !.out = Append(@, data)]
  <2>1. base.device.responseState = "body"
    BY <1>1
  <2> QED  BY <2>1 DEF DeviceWrite
<1>8. PICK d : d = DeviceWritten(base, pieces)
  OBVIOUS
<1>9. d.out = Append(socket.out, data) /\ d.device = device
  BY <1>1, <1>4, <1>5, <1>6, <1>7, <1>8
<1>10. socket' = [socket EXCEPT !.out = d.out] /\ device' = d.device
  <2>1. DeviceWrites(WithHeaders(<<"data", request.writes + 1>>))
    BY DEF Write
  <2>2. DeviceWrites(WithHeaders(data))
    BY <2>1
  <2>3. WithHeaders(data) = pieces
    BY <1>3 DEF WithHeaders
  <2>4. DeviceWrites(pieces)
    BY <2>2, <2>3
  <2> QED  BY <1>1, <1>8, <2>4 DEF DeviceWrites
<1> QED  BY <1>9, <1>10

LEMMA FirstWriteEffect ==
  ASSUME HttpTypeOK, Unsent, ~request.haveSentHeaders, Write, OneStatus(request.responseHeaders),
         NEW data, data = <<"data", request.writes + 1>>
  PROVE  /\ IsDevice(device') /\ device'.requestState = device.requestState /\ device'.life = device.life
         /\ device'.requestHeaders = device.requestHeaders /\ device'.responseState = "body"
         /\ \E sent \in Seq(Sent) : /\ IsAnswer(sent, request.responseHeaders, 0)
                                    /\ socket' = [socket EXCEPT !.out = Append(sent, data)]
<1>1. IsDevice(device) /\ request.responseHeaders \in Seq(Headers) /\ request.writes < MaxWrites /\ data # NewLine
  <2>1. IsDevice(device) /\ request.responseHeaders \in Seq(Headers)
    BY DEF HttpTypeOK, IsRequest
  <2>2. request.writes < MaxWrites
    BY DEF Write
  <2> QED  BY <2>1, <2>2, DataPiece
<1>2. PICK headers \in Seq(Headers) : headers = request.responseHeaders
  BY <1>1
<1>3. PICK turned : turned = Reverse(headers)
  OBVIOUS
<1>4. PICK others : others = Without(turned, "STATUS")
  OBVIOUS
<1>5. others = Reverse(Without(headers, "STATUS")) /\ others \in Seq(Headers) /\ Value(turned, "STATUS") = Value(headers, "STATUS")
  <2>1. others = Reverse(Without(headers, "STATUS")) /\ Without(headers, "STATUS") \in Seq(Headers)
    BY <1>3, <1>4, WithoutReverse
  <2>2. others \in Seq(Headers)
    BY <2>1, ReverseType
  <2>3. OneStatus(headers)
    BY <1>2
  <2>4. Value(Reverse(headers), "STATUS") = Value(headers, "STATUS")
    BY <2>3, StatusReverse
  <2> QED  BY <1>3, <2>1, <2>2, <2>4
<1>6. PICK status : status = <<"status", Value(headers, "STATUS")>>
  OBVIOUS
<1>7. status \in Sent
  <2>1. PICK k \in 1..Len(headers) : \A n \in 1..Len(headers) : headers[n][1] = "STATUS" <=> n = k
    BY <1>2 DEF OneStatus
  <2>2. Value(headers, "STATUS") = headers[k][2] /\ headers[k] \in Headers
    BY <2>1, StatusValue, ElementOfSeq
  <2> QED  BY <1>6, <2>2 DEF Sent
<1>8. PICK blank \in Sent : blank = <<"blank", 0>>
  BY DEF Sent
<1>9. PICK out \in Seq(Sent) : out = socket.out /\ out = <<>> /\ Len(out) = 0
  <2>1. socket.out = <<>>
    BY DEF Unsent
  <2> QED  BY <2>1, EmptySeq
<1>10. PICK sent : sent = Preface(out, status, others, blank)
  OBVIOUS
<1>11. IsPreface(sent, status, others, blank)
  BY <1>5, <1>7, <1>8, <1>9, <1>10, SentHeaders
<1>12. sent \in Seq(Sent) /\ IsAnswer(sent, headers, 0)
  <2>1. sent \in Seq(Sent)
    BY <1>11 DEF IsPreface
  <2> QED  BY <1>5, <1>6, <1>8, <1>11, <2>1, FirstAnswer
<1>13. PICK d : d = DeviceWritten(Output(out, device, "headers", <<>>, <<>>, 0), Lines(headers, NewLine) \o <<NewLine, data>>)
  OBVIOUS
<1>14. d = Output(Append(sent, data), device, "body", others, <<>>, 2 * Len(headers))
  <2>1. DeviceWritten(Output(out, device, "headers", <<>>, <<>>, 0), Lines(headers, NewLine) \o <<NewLine, data>>)
          = Output(Append(out \o <<<<"status", Value(turned, "STATUS")>>>> \o HeadersSent(Without(turned, "STATUS"))
                             \o <<<<"blank", 0>>>>, data),
                   device, "body", Without(turned, "STATUS"), <<>>, 2 * Len(headers))
    <3>1. FirstWritten(out, device, headers, data)
      BY <1>1, FirstWrite
    <3> QED  BY <1>3, <3>1 DEF FirstWritten
  <2>2. sent = out \o <<<<"status", Value(turned, "STATUS")>>>> \o HeadersSent(Without(turned, "STATUS")) \o <<<<"blank", 0>>>>
    BY <1>4, <1>5, <1>6, <1>8, <1>10 DEF Preface
  <2> QED  BY <1>4, <1>13, <2>1, <2>2
<1>15. PICK w : w = Device(device, "body", others, <<>>, 2 * Len(headers))
  OBVIOUS
<1>16. socket' = [socket EXCEPT !.out = Append(sent, data)] /\ device' = w
  <2>1. DeviceWrites(WithHeaders(<<"data", request.writes + 1>>))
    BY DEF Write
  <2>2. DeviceWrites(WithHeaders(data))
    BY <2>1
  <2>3. WithHeaders(data) = Lines(headers, NewLine) \o <<NewLine, data>>
    BY <1>2 DEF WithHeaders, Lines
  <2>4. [out |-> socket.out, device |-> device] = Output(out, device, "headers", <<>>, <<>>, 0)
    <3>1. /\ device.responseState = "headers" /\ device.responseHeaders = <<>> /\ device.headerBuffer = <<>>
          /\ device.headerBufferPosition = 0
      BY DEF Unsent
    <3> QED  BY <1>1, <1>9, <3>1 DEF Output, Device, IsDevice
  <2>5. d = DeviceWritten([out |-> socket.out, device |-> device], WithHeaders(data))
    BY <1>13, <2>3, <2>4
  <2>6. socket' = [socket EXCEPT !.out = d.out] /\ device' = d.device
    BY <2>2, <2>5 DEF DeviceWrites
  <2>7. d.out = Append(sent, data) /\ d.device = w
    BY <1>14, <1>15 DEF Output
  <2> QED  BY <2>6, <2>7
<1>17. IsDevice(w)
  <2>1. 2 * Len(headers) \in Nat
    OBVIOUS
  <2> QED  BY <1>1, <1>5, <1>15, <2>1, DeviceType
<1>18. /\ w.requestState = device.requestState /\ w.life = device.life /\ w.requestHeaders = device.requestHeaders
       /\ w.responseState = "body"
  BY <1>1, <1>15, DeviceFields
<1>19. sent \in Seq(Sent) /\ IsAnswer(sent, request.responseHeaders, 0) /\ socket' = [socket EXCEPT !.out = Append(sent, data)]
  BY <1>2, <1>12, <1>16
<1>20. device' = w
  BY <1>16
<1> QED  BY <1>17, <1>18, <1>19, <1>20

-----------------------------------------------------------------------------
(* Stages and endings. *)

LEMMA Step ==
  ASSUME HttpNext
  PROVE  \/ \E n \in 1..Len(wire) : Arrive(n)
         \/ Transmit \/ Disconnect \/ CheckTimeout \/ ReadRequestLine \/ ReadHeaderLine \/ ReadBlankLine \/ ReadNothing
         \/ RunSlot \/ PollPostVariables \/ Finish \/ LoadPostVariables \/ Adopt \/ Write \/ DeleteLater \/ DeleteFlusher
         \/ UNCHANGED vars
         \/ \E headers : ChangeHeaders(headers)
BY Zenon DEF HttpNext, Receive, Read, Slot, Terminated, SetHeader, AddHeader

LEMMA WrittenUnsent ==
  ASSUME Written, request.writes = 0, ~Served
  PROVE  Unsent
BY DEF Written, Unsent

LEMMA ConcatAppend ==
  ASSUME NEW S, NEW s \in Seq(S), NEW t \in Seq(S), NEW e \in S
  PROVE  s \o Append(t, e) = Append(s \o t, e) /\ s \o t \in Seq(S)
<1>1. PICK last \in Seq(S) : last = <<e>>
  BY Singleton
<1>2. PICK both : both = s \o t
  OBVIOUS
<1>3. both \in Seq(S)
  BY <1>2, ConcatProperties
<1>4. Append(t, e) = t \o last /\ Append(both, e) = both \o last
  BY <1>1, <1>3, AppendIsConcat
<1>5. s \o (t \o last) = (s \o t) \o last
  BY ConcatAssociative
<1> QED  BY <1>2, <1>3, <1>4, <1>5

\* A write of the slot, the first or a later one.
LEMMA WriteEffect ==
  ASSUME HttpTypeOK, Stages, Written, Write
  PROVE  /\ IsDevice(device') /\ device'.requestState = device.requestState /\ device'.life = device.life
         /\ device'.requestHeaders = device.requestHeaders /\ device'.responseState = "body"
         /\ \E out \in Seq(Sent) :
              /\ socket' = [socket EXCEPT !.out = out]
              /\ IsAnswer(socket.received \o out, request.responseHeaders, request.writes + 1)
         /\ request.writes \in Nat /\ request.writes + 1 \in 0..MaxWrites
<1>1. PICK data : data = <<"data", request.writes + 1>>
  OBVIOUS
<1>2. data \in Sent /\ request.writes \in Nat /\ request.writes + 1 \in 0..MaxWrites
  <2>1. request.writes < MaxWrites
    BY DEF Write
  <2> QED  BY <1>1, <2>1, DataPiece
<1>3. PICK received \in Seq(Sent) : received = socket.received
  BY DEF HttpTypeOK
<1>4. PICK headers \in Seq(Headers) : headers = request.responseHeaders
  BY DEF HttpTypeOK, IsRequest
<1>5. IsDevice(device)
  BY DEF HttpTypeOK
<1>6. CASE request.haveSentHeaders
  <2>1. request.writes > 0
    BY <1>6 DEF Written
  <2>2. device.responseState = "body" /\ IsAnswer(received \o socket.out, headers, request.writes)
    BY <1>3, <1>4, <2>1 DEF Written, Answer
  <2>3. device' = device /\ socket' = [socket EXCEPT !.out = Append(socket.out, data)]
    BY <1>1, <1>6, <2>2, LaterWriteEffect
  <2>4. PICK out \in Seq(Sent) : out = socket.out
    BY DEF HttpTypeOK
  <2>5. received \o Append(out, data) = Append(received \o out, data) /\ received \o out \in Seq(Sent)
    BY <1>2, ConcatAppend
  <2>6. IsAnswer(Append(received \o out, data), headers, request.writes + 1)
    BY <1>1, <1>2, <2>2, <2>4, <2>5, NextAnswer
  <2>7. Append(out, data) \in Seq(Sent)
    BY <1>2
  <2>8. \E o \in Seq(Sent) : /\ socket' = [socket EXCEPT !.out = o]
                             /\ IsAnswer(socket.received \o o, request.responseHeaders, request.writes + 1)
    <3> WITNESS Append(out, data) \in Seq(Sent)
    <3> QED  BY <1>3, <1>4, <2>3, <2>4, <2>5, <2>6
  <2> QED  BY <1>2, <1>5, <2>2, <2>3, <2>8
<1>7. CASE ~request.haveSentHeaders
  <2>1. request.writes = 0 /\ ~Served
    <3>1. request.writes = 0
      BY <1>2, <1>7 DEF Written
    <3>2. request.phase # "none"
      BY DEF Write, MayWrite
    <3> QED  BY <3>1, <3>2 DEF Served
  <2>2. Unsent /\ OneStatus(request.responseHeaders)
    BY <2>1, WrittenUnsent DEF Written
  <2>3. /\ IsDevice(device') /\ device'.requestState = device.requestState /\ device'.life = device.life
        /\ device'.requestHeaders = device.requestHeaders /\ device'.responseState = "body"
        /\ \E sent \in Seq(Sent) : /\ IsAnswer(sent, request.responseHeaders, 0)
                                   /\ socket' = [socket EXCEPT !.out = Append(sent, data)]
    BY <1>1, <1>7, <2>2, FirstWriteEffect
  <2>4. PICK sent \in Seq(Sent) : IsAnswer(sent, headers, 0) /\ socket' = [socket EXCEPT !.out = Append(sent, data)]
    BY <1>4, <2>3
  <2>5. data = <<"data", 0 + 1>>
    BY <1>1, <2>1
  <2>6. IsAnswer(Append(sent, data), headers, 0 + 1)
    <3>1. 0 \in Nat
      OBVIOUS
    <3> QED  BY <1>2, <2>4, <2>5, <3>1, NextAnswer
  <2>7. PICK out \in Seq(Sent) : out = Append(sent, data)
    <3>1. Append(sent, data) \in Seq(Sent)
      BY <1>2, AppendProperties
    <3> QED  BY <3>1
  <2>8. received \o out = out
    <3>1. received = <<>>
      BY <1>3, <2>2 DEF Unsent
    <3> QED  BY <3>1, ConcatEmptySeq
  <2>9. IsAnswer(socket.received \o out, request.responseHeaders, request.writes + 1)
    BY <1>3, <1>4, <2>1, <2>6, <2>7, <2>8
  <2>10. socket' = [socket EXCEPT !.out = out]
    BY <2>4, <2>7
  <2> QED  BY <1>2, <2>3, <2>9, <2>10
<1> QED  BY <1>6, <1>7

\* A file that is served.
LEMMA ServeEffect ==
  ASSUME HttpTypeOK, Stages, Written, ReadBlankLine, ServeFile
  PROVE  /\ IsDevice(device') /\ device'.requestState = "body" /\ device'.life = "doomed"
         /\ device'.requestHeaders = device.requestHeaders
         /\ socket' = [socket EXCEPT !.in = AfterLine, !.out = FileAnswer] /\ socket.received = <<>>
<1>1. request.phase = "none" /\ device.requestState = "headers"
  BY DEF Stages, ReadBlankLine
<1>2. request.writes = 0 /\ ~Served
  BY <1>1 DEF Written, Served
<1>3. Unsent /\ IsDevice(device)
  BY <1>2, WrittenUnsent DEF HttpTypeOK
<1>4. socket.received = <<>>
  BY <1>3 DEF Unsent
<1> QED  BY <1>3, <1>4, ServeFileEffect

\* The fields of the records.
LEMMA Records ==
  ASSUME HttpTypeOK
  PROVE  /\ device \in [requestState : {"request", "headers", "body"}, requestHeaders : {device.requestHeaders},
                        responseState : {"headers", "body"}, responseHeaders : Seq(Headers),
                        headerBuffer : Seq({NewLine} \union Headers), headerBufferPosition : Nat,
                        life : {"alive", "doomed", "deleted"}]
         /\ request \in [phase : {"none", "queued", "running", "waiting", "adopted", "deleted"},
                         postDataMode : {"unknown", "values", "raw"}, serverData : {request.serverData}, data : Seq(Pieces),
                         responseHeaders : Seq(Headers), haveSentHeaders : BOOLEAN, writes : 0..MaxWrites]
         /\ socket \in [in : Seq(Pieces), out : Seq(Sent), received : Seq(Sent), alive : BOOLEAN]
         /\ control \in {"loop", "read", "slot"} /\ timer \in BOOLEAN /\ gone \in BOOLEAN
         /\ flusher \in {"none", "waiting", "doomed", "deleted"}
         /\ IsVariables(device.requestHeaders) /\ request.serverData \in {NoVariables, device.requestHeaders}
BY DEF HttpTypeOK, IsDevice, IsRequest

LEMMA StagesNext == ASSUME HttpTypeOK, Stages, Written, [HttpNext]_vars  PROVE Stages'
<1> USE DEF Stages
<1>0. /\ control \in {"loop", "read", "slot"} /\ timer \in BOOLEAN
      /\ device \in [requestState : {"request", "headers", "body"}, requestHeaders : {device.requestHeaders},
                     responseState : {"headers", "body"}, responseHeaders : Seq(Headers),
                     headerBuffer : Seq({NewLine} \union Headers), headerBufferPosition : Nat,
                     life : {"alive", "doomed", "deleted"}]
      /\ request \in [phase : {"none", "queued", "running", "waiting", "adopted", "deleted"},
                      postDataMode : {"unknown", "values", "raw"}, serverData : {request.serverData}, data : Seq(Pieces),
                      responseHeaders : Seq(Headers), haveSentHeaders : BOOLEAN, writes : 0..MaxWrites]
  BY Records
<1>1. ASSUME NEW n \in 1..Len(wire), Arrive(n)  PROVE Stages'
  BY <1>0, <1>1 DEF Arrive, ReadyRead, InEventLoop, Emitting, Loaded
<1>2. CASE Transmit
  BY <1>2 DEF Transmit
<1>3. CASE Disconnect
  BY <1>3 DEF Disconnect
<1>4. CASE CheckTimeout
  BY <1>0, <1>4 DEF CheckTimeout, ReadyRead, Loaded
<1>5. CASE ReadRequestLine
  BY <1>0, <1>5 DEF ReadRequestLine
<1>6. CASE ReadHeaderLine
  BY <1>0, <1>6 DEF ReadHeaderLine
<1>7. CASE ReadBlankLine
  <2>1. CASE ServeFile
    <3>1. device'.requestState = "body" /\ device'.life = "doomed"
      BY <1>7, <2>1, ServeEffect
    <3>2. control' = "loop" /\ request' = request /\ request.phase = "none"
      BY <1>7, <2>1 DEF ReadBlankLine, ServeFile
    <3> QED  BY <3>1, <3>2
  <2>2. CASE Announce
    BY <1>0, <1>7, <2>2 DEF ReadBlankLine, Announce
  <2>3. CASE Ignore
    BY <1>0, <1>7, <2>3 DEF ReadBlankLine, Ignore
  <2> QED  BY <1>7, <2>1, <2>2, <2>3 DEF ReadBlankLine
<1>8. CASE ReadNothing
  BY <1>0, <1>8 DEF ReadNothing
<1>9. CASE RunSlot
  BY <1>0, <1>9 DEF RunSlot
<1>10. CASE PollPostVariables
  BY <1>0, <1>10 DEF PollPostVariables
<1>11. CASE Finish
  BY <1>0, <1>11 DEF Finish, DestroyDevice
<1>12. CASE LoadPostVariables
  <2>1. request.phase = "running" /\ request'.phase \in {"running", "waiting"} /\ device' = device /\ control' = control
    BY <1>0, <1>12 DEF LoadPostVariables
  <2> QED  BY <2>1
<1>13. CASE Adopt
  BY <1>0, <1>13 DEF Adopt
<1>14. CASE Write
  <2>1. device'.requestState = device.requestState /\ device'.life = device.life
    BY <1>14, WriteEffect
  <2>2. request'.phase = request.phase /\ control' = control /\ timer' = timer /\ request.phase \in {"running", "adopted"}
    BY <1>0, <1>14 DEF Write, MayWrite
  <2> QED  BY <2>1, <2>2
<1>15. CASE DeleteLater
  BY <1>0, <1>15 DEF DeleteLater, DestroyDevice
<1>16. CASE DeleteFlusher
  BY <1>0, <1>16 DEF DeleteFlusher
<1>17. CASE UNCHANGED vars
  BY <1>17 DEF vars
<1>18. ASSUME NEW headers, ChangeHeaders(headers)  PROVE Stages'
  BY <1>0, <1>18 DEF ChangeHeaders
<1> QED  BY <1>1, <1>2, <1>3, <1>4, <1>5, <1>6, <1>7, <1>8, <1>9, <1>10, <1>11, <1>12, <1>13, <1>14, <1>15,
            <1>16, <1>17, <1>18, Step DEF vars

LEMMA EndingsNext == ASSUME HttpTypeOK, Stages, Endings, Written, [HttpNext]_vars  PROVE Endings'
<1> USE DEF Endings
<1>0. /\ device \in [requestState : {"request", "headers", "body"}, requestHeaders : {device.requestHeaders},
                     responseState : {"headers", "body"}, responseHeaders : Seq(Headers),
                     headerBuffer : Seq({NewLine} \union Headers), headerBufferPosition : Nat,
                     life : {"alive", "doomed", "deleted"}]
      /\ socket \in [in : Seq(Pieces), out : Seq(Sent), received : Seq(Sent), alive : BOOLEAN]
      /\ flusher \in {"none", "waiting", "doomed", "deleted"}
  BY Records
<1>1. ASSUME NEW n \in 1..Len(wire), Arrive(n)  PROVE Endings'
  BY <1>0, <1>1 DEF Arrive, ReadyRead
<1>2. CASE Transmit
  BY <1>0, <1>2 DEF Transmit, Flushed
<1>3. CASE Disconnect
  BY <1>3 DEF Disconnect
<1>4. CASE CheckTimeout
  BY <1>0, <1>4 DEF CheckTimeout, ReadyRead
<1>5. CASE ReadRequestLine
  BY <1>0, <1>5 DEF ReadRequestLine
<1>6. CASE ReadHeaderLine
  BY <1>0, <1>6 DEF ReadHeaderLine
<1>7. CASE ReadBlankLine
  <2>1. device.life = "alive" /\ flusher = "none" /\ socket.alive
    BY <1>0, <1>7 DEF ReadBlankLine, Stages
  <2>2. CASE ServeFile
    <3>1. device'.life = "doomed" /\ socket'.alive = socket.alive
      BY <1>0, <1>7, <2>2, ServeEffect
    <3>2. flusher' = flusher
      BY <2>2 DEF ServeFile
    <3> QED  BY <2>1, <3>1, <3>2
  <2>3. CASE Announce
    BY <1>0, <2>1, <2>3 DEF Announce
  <2>4. CASE Ignore
    BY <1>0, <2>1, <2>4 DEF Ignore, Flushed
  <2> QED  BY <1>7, <2>2, <2>3, <2>4 DEF ReadBlankLine
<1>8. CASE ReadNothing
  BY <1>8 DEF ReadNothing
<1>9. CASE RunSlot
  BY <1>9 DEF RunSlot
<1>10. CASE PollPostVariables
  BY <1>0, <1>10 DEF PollPostVariables
<1>11. CASE Finish
  <2>1. device.life = "alive" /\ flusher = "none" /\ socket.alive
    BY <1>0, <1>11 DEF Finish, Stages
  <2> QED  BY <1>0, <1>11, <2>1 DEF Finish, DestroyDevice, Flushed
<1>12. CASE LoadPostVariables
  BY <1>0, <1>12 DEF LoadPostVariables
<1>13. CASE Adopt
  BY <1>0, <1>13 DEF Adopt
<1>14. CASE Write
  <2>1. device.life = "alive" /\ flusher = "none" /\ socket.alive
    BY <1>0, <1>14 DEF Write, MayWrite, Stages
  <2>2. device'.life = device.life
    BY <1>14, WriteEffect
  <2>3. PICK out : socket' = [socket EXCEPT !.out = out]
    BY <1>14, WriteEffect
  <2>4. flusher' = flusher /\ socket'.alive = socket.alive
    BY <1>0, <1>14, <2>3 DEF Write
  <2> QED  BY <2>1, <2>2, <2>4
<1>15. CASE DeleteLater
  BY <1>0, <1>15 DEF DeleteLater, DestroyDevice, Flushed
<1>16. CASE DeleteFlusher
  BY <1>0, <1>16 DEF DeleteFlusher
<1>17. CASE UNCHANGED vars
  BY <1>17 DEF vars
<1>18. ASSUME NEW headers, ChangeHeaders(headers)  PROVE Endings'
  BY <1>18 DEF ChangeHeaders
<1> QED  BY <1>1, <1>2, <1>3, <1>4, <1>5, <1>6, <1>7, <1>8, <1>9, <1>10, <1>11, <1>12, <1>13, <1>14, <1>15,
            <1>16, <1>17, <1>18, Step DEF vars

-----------------------------------------------------------------------------
(* What is read and what is still unread. *)

\* Those k elements of text that follow its first m.
IsSlice(slice, text, m, k) == Len(slice) = k /\ \A i \in 1..k : slice[i] = text[m + i]

LEMMA SliceCorrect ==
  ASSUME NEW S, NEW text \in Seq(S), NEW m \in Nat, NEW n \in Nat, m <= n, n <= Len(text)
  PROVE  SubSeq(text, m + 1, n) \in Seq(S) /\ IsSlice(SubSeq(text, m + 1, n), text, m, n - m)
<1>1. PICK slice : slice = SubSeq(text, m + 1, n)
  OBVIOUS
<1>2. PICK first : first = m + 1
  OBVIOUS
<1>3. \A i \in first..n : text[i] \in S
  <2>1. \A i \in first..n : i \in 1..Len(text)
    BY <1>2
  <2> QED  BY <2>1, ElementOfSeq
<1>4. first \in Int /\ n \in Int
  BY <1>2
<1>5. /\ slice \in Seq(S) /\ Len(slice) = IF first <= n THEN n - first + 1 ELSE 0
      /\ \A i \in 1..(n - first + 1) : slice[i] = text[first + i - 1]
  BY <1>1, <1>2, <1>3, <1>4, SubSeqProperties
<1>6. n - first + 1 = n - m /\ Len(slice) = n - m
  BY <1>2, <1>5
<1>7. \A i \in 1..(n - m) : first + i - 1 = m + i
  BY <1>2
<1>8. IsSlice(slice, text, m, n - m)
  BY <1>5, <1>6, <1>7 DEF IsSlice
<1> QED  BY <1>1, <1>5, <1>8

LEMMA Cut ==
  ASSUME NEW S, NEW text \in Seq(S), NEW n \in Nat, n <= Len(text)
  PROVE  /\ SubSeq(text, 1, n) \in Seq(S) /\ SubSeq(text, n + 1, Len(text)) \in Seq(S)
         /\ SubSeq(text, 1, n) \o SubSeq(text, n + 1, Len(text)) = text
<1>1. PICK m : m = Len(text)
  OBVIOUS
<1>2. m \in Nat /\ n <= m
  BY <1>1
<1>3. PICK a : a = SubSeq(text, 1, n)
  OBVIOUS
<1>4. a \in Seq(S) /\ Len(a) = n /\ \A i \in 1..n : a[i] = text[i]
  <2>1. SubSeq(text, 0 + 1, n) \in Seq(S) /\ IsSlice(SubSeq(text, 0 + 1, n), text, 0, n - 0)
    BY SliceCorrect
  <2>2. a = SubSeq(text, 0 + 1, n) /\ n - 0 = n /\ \A i \in 1..n : 0 + i = i
    BY <1>3
  <2> QED  BY <2>1, <2>2 DEF IsSlice
<1>5. PICK b : b = SubSeq(text, n + 1, m)
  OBVIOUS
<1>6. b \in Seq(S) /\ Len(b) = m - n /\ \A i \in 1..(m - n) : b[i] = text[n + i]
  <2>1. SubSeq(text, n + 1, m) \in Seq(S) /\ IsSlice(SubSeq(text, n + 1, m), text, n, m - n)
    BY <1>1, <1>2, SliceCorrect, SMTT(30)
  <2> QED  BY <1>5, <2>1 DEF IsSlice
<1>7. PICK k : k = m - n
  OBVIOUS
<1>8. PICK c : c = a \o b
  OBVIOUS
<1>9. c \in Seq(S) /\ Len(c) = n + k /\ \A i \in 1..(n + k) : c[i] = IF i <= n THEN a[i] ELSE b[i - n]
  <2>1. Len(b) = k
    BY <1>6, <1>7
  <2>2. a \in Seq(S) /\ b \in Seq(S) /\ Len(a) = n
    BY <1>4, <1>6
  <2>3. /\ a \o b \in Seq(S) /\ Len(a \o b) = n + k
        /\ \A i \in 1..(n + k) : (a \o b)[i] = IF i <= n THEN a[i] ELSE b[i - n]
    BY ONLY <2>1, <2>2, ConcatIs, SMTT(30)
  <2> QED  BY <1>8, <2>3
<1>10. Len(c) = m /\ n + k = m
  BY <1>2, <1>7, <1>9
<1>11. \A i \in 1..m : c[i] = text[i]
  <2> SUFFICES ASSUME NEW i \in 1..m  PROVE c[i] = text[i]
    OBVIOUS
  <2>1. CASE i <= n
    <3>1. i \in 1..n
      BY <2>1
    <3> QED  BY <1>4, <1>9, <1>10, <2>1, <3>1
  <2>2. CASE ~(i <= n)
    <3>1. i - n \in 1..(m - n) /\ n + (i - n) = i
      BY <1>2, <2>2
    <3> QED  BY <1>6, <1>9, <1>10, <2>2, <3>1
  <2> QED  BY <2>1, <2>2
<1>12. c = text
  BY <1>1, <1>9, <1>10, <1>11, SeqEqual
<1> QED  BY <1>1, <1>3, <1>4, <1>5, <1>6, <1>8, <1>12

All == request.data \o Unread

\* The steps that bring bytes from the wire into the socket or from there to the Request.
Phases == {"none", "queued", "running", "waiting", "adopted", "deleted"}
Moves ==
  /\ \E data, in \in Seq(Pieces), phase \in Phases, postDataMode \in {"unknown", "values", "raw"} :
       /\ request' = [request EXCEPT !.data = data, !.phase = phase, !.postDataMode = postDataMode]
       /\ socket' = [socket EXCEPT !.in = in]
       /\ wire' \in Seq(Pieces) /\ data \o (in \o wire') = All
       /\ phase = request.phase \/ (request.phase \notin {"none", "queued"} /\ phase \notin {"none", "queued"})
  /\ mode' = mode /\ device' = device /\ flusher' = flusher /\ gone' = gone
  /\ control' \in {"loop", "read", "slot"} /\ timer' \in BOOLEAN

\* Bytes of the socket that the Request has read.
LEMMA Shift ==
  ASSUME NEW S, NEW data \in Seq(S), NEW in \in Seq(S), NEW rest \in Seq(S), NEW none \in Seq(S), Len(none) = 0
  PROVE  data \o in \in Seq(S) /\ (data \o in) \o (none \o rest) = data \o (in \o rest)
<1>1. none \o rest = rest
  <2>1. none = <<>>
    BY EmptySeq
  <2> QED  BY <2>1, ConcatEmptySeq
<1> QED  BY <1>1, ConcatAssociative, ConcatProperties, SMTT(30)

\* The Request has read the bytes, or the socket keeps them.
LEMMA ReadyReadEffect ==
  ASSUME HttpTypeOK, NEW bytes \in Seq(Pieces), ReadyRead(bytes)
  PROVE  \E data \in Seq(Pieces), in \in Seq(Pieces) :
           /\ request' = [request EXCEPT !.data = data] /\ socket' = [socket EXCEPT !.in = in]
           /\ \A rest \in Seq(Pieces) : data \o (in \o rest) = request.data \o (bytes \o rest)
<1>1. request.data \in Seq(Pieces) /\ request = [request EXCEPT !.data = request.data]
  BY Records
<1>2. CASE request.phase = "adopted"
  <2>1. PICK data : data = request.data \o bytes
    OBVIOUS
  <2>2. PICK none \in Seq(Pieces) : none = <<>> /\ Len(none) = 0
    BY EmptySeq
  <2>3. data \in Seq(Pieces) /\ \A rest \in Seq(Pieces) : data \o (none \o rest) = request.data \o (bytes \o rest)
    <3>1. PICK old \in Seq(Pieces) : old = request.data
      BY <1>1
    <3>2. old \o bytes \in Seq(Pieces)
      BY ConcatProperties
    <3>3. \A rest \in Seq(Pieces) : (old \o bytes) \o (none \o rest) = old \o (bytes \o rest)
      BY <2>2, Shift
    <3> QED  BY <2>1, <3>1, <3>2, <3>3
  <2>4. request' = [request EXCEPT !.data = data] /\ socket' = [socket EXCEPT !.in = none]
    BY <1>2, <2>1, <2>2 DEF ReadyRead, Loaded
  <2> QED  BY <2>3, <2>4
<1>3. CASE request.phase # "adopted"
  <2>1. request' = request /\ socket' = [socket EXCEPT !.in = bytes]
    BY <1>3 DEF ReadyRead
  <2> QED  BY <1>1, <2>1
<1> QED  BY <1>2, <1>3

LEMMA SamePhase ==
  ASSUME HttpTypeOK, NEW data
  PROVE  /\ [request EXCEPT !.data = data]
              = [request EXCEPT !.data = data, !.phase = request.phase, !.postDataMode = request.postDataMode]
         /\ request.phase \in Phases /\ request.postDataMode \in {"unknown", "values", "raw"}
BY Records DEF Phases

LEMMA ArriveMoves == ASSUME HttpTypeOK, NEW n \in 1..Len(wire), Arrive(n)  PROVE Moves
<1>1. wire \in Seq(Pieces) /\ socket.in \in Seq(Pieces) /\ request.data \in Seq(Pieces)
  BY Records DEF HttpTypeOK
<1>2. PICK first, rest : first = SubSeq(wire, 1, n) /\ rest = SubSeq(wire, n + 1, Len(wire))
  OBVIOUS
<1>3. n \in Nat /\ n <= Len(wire)
  BY <1>1
<1>4. first \in Seq(Pieces) /\ rest \in Seq(Pieces) /\ first \o rest = wire
  <2>1. /\ SubSeq(wire, 1, n) \in Seq(Pieces) /\ SubSeq(wire, n + 1, Len(wire)) \in Seq(Pieces)
        /\ SubSeq(wire, 1, n) \o SubSeq(wire, n + 1, Len(wire)) = wire
    BY <1>1, <1>3, Cut
  <2> QED  BY <1>2, <2>1
<1>5. PICK bytes : bytes = socket.in \o first
  OBVIOUS
<1>6. bytes \in Seq(Pieces) /\ bytes \o rest = Unread
  <2>1. PICK in \in Seq(Pieces) : in = socket.in
    BY <1>1
  <2>2. (in \o first) \o rest = in \o (first \o rest) /\ in \o first \in Seq(Pieces)
    <3>1. first \in Seq(Pieces) /\ rest \in Seq(Pieces)
      BY <1>4
    <3>2. (in \o first) \o rest = in \o (first \o rest)
      BY ONLY in \in Seq(Pieces), <3>1, ConcatAssociative, SMTT(30)
    <3>3. in \o first \in Seq(Pieces)
      BY ONLY in \in Seq(Pieces), <3>1, ConcatProperties
    <3> QED  BY <3>2, <3>3
  <2> QED  BY <1>4, <1>5, <2>1, <2>2 DEF Unread
<1>7. wire' = rest /\ mode' = mode /\ device' = device /\ flusher' = flusher /\ gone' = gone /\ timer' = timer
  BY <1>2 DEF Arrive
<1>8. control' \in {"loop", "read", "slot"} /\ timer \in BOOLEAN
  BY Records DEF Arrive
<1>9. \E data \in Seq(Pieces), in \in Seq(Pieces) :
        /\ request' = [request EXCEPT !.data = data] /\ socket' = [socket EXCEPT !.in = in]
        /\ data \o (in \o rest) = request.data \o (bytes \o rest)
  <2>1. CASE device.life # "deleted" /\ ~Emitting /\ device.requestState = "body"
    <3>1. ReadyRead(bytes)
      BY <1>2, <1>5, <2>1 DEF Arrive
    <3>2. PICK data \in Seq(Pieces), in \in Seq(Pieces) :
            /\ request' = [request EXCEPT !.data = data] /\ socket' = [socket EXCEPT !.in = in]
            /\ \A end \in Seq(Pieces) : data \o (in \o end) = request.data \o (bytes \o end)
      BY <1>6, <3>1, ReadyReadEffect
    <3>3. data \o (in \o rest) = request.data \o (bytes \o rest)
      BY <1>4, <3>2
    <3> QED  BY <3>2, <3>3
  <2>2. CASE ~(device.life # "deleted" /\ ~Emitting /\ device.requestState = "body")
    <3>1. socket' = [socket EXCEPT !.in = bytes] /\ request' = request
      BY <1>2, <1>5, <2>2 DEF Arrive
    <3>2. request = [request EXCEPT !.data = request.data]
      BY Records
    <3> QED  BY <1>1, <1>6, <3>1, <3>2
  <2> QED  BY <2>1, <2>2
<1>10. PICK data \in Seq(Pieces), in \in Seq(Pieces) :
         /\ request' = [request EXCEPT !.data = data] /\ socket' = [socket EXCEPT !.in = in]
         /\ data \o (in \o rest) = request.data \o (bytes \o rest)
  BY <1>9
<1>11. data \o (in \o wire') = All
  BY <1>6, <1>7, <1>10 DEF All
<1>12. /\ request' = [request EXCEPT !.data = data, !.phase = request.phase, !.postDataMode = request.postDataMode]
       /\ request.phase \in Phases /\ request.postDataMode \in {"unknown", "values", "raw"}
  BY <1>10, SamePhase
<1> QED  BY <1>4, <1>7, <1>8, <1>10, <1>11, <1>12 DEF Moves

LEMMA TimeoutMoves == ASSUME HttpTypeOK, CheckTimeout  PROVE Moves
<1>1. wire \in Seq(Pieces) /\ socket.in \in Seq(Pieces) /\ request.data \in Seq(Pieces)
  BY Records DEF HttpTypeOK
<1>2. /\ wire' = wire /\ mode' = mode /\ device' = device /\ flusher' = flusher /\ gone' = gone
      /\ control' \in {"loop", "read", "slot"} /\ timer' \in BOOLEAN
  BY Records DEF CheckTimeout
<1>3. PICK data \in Seq(Pieces), in \in Seq(Pieces) :
        /\ request' = [request EXCEPT !.data = data] /\ socket' = [socket EXCEPT !.in = in]
        /\ data \o (in \o wire) = request.data \o (socket.in \o wire)
  <2>1. CASE device.life # "deleted"
    <3>1. ReadyRead(socket.in)
      BY <2>1 DEF CheckTimeout
    <3>2. PICK data \in Seq(Pieces), in \in Seq(Pieces) :
            /\ request' = [request EXCEPT !.data = data] /\ socket' = [socket EXCEPT !.in = in]
            /\ \A end \in Seq(Pieces) : data \o (in \o end) = request.data \o (socket.in \o end)
      BY <1>1, <3>1, ReadyReadEffect
    <3>3. data \o (in \o wire) = request.data \o (socket.in \o wire)
      BY <1>1, <3>2
    <3> QED  BY <3>2, <3>3
  <2>2. CASE device.life = "deleted"
    <3>1. socket' = socket /\ request' = request
      BY <2>2 DEF CheckTimeout
    <3>2. request = [request EXCEPT !.data = request.data] /\ socket = [socket EXCEPT !.in = socket.in]
      BY Records
    <3> QED  BY <1>1, <3>1, <3>2
  <2> QED  BY <2>1, <2>2
<1>4. data \o (in \o wire') = All
  BY <1>2, <1>3 DEF All, Unread
<1>5. /\ request' = [request EXCEPT !.data = data, !.phase = request.phase, !.postDataMode = request.postDataMode]
      /\ request.phase \in Phases /\ request.postDataMode \in {"unknown", "values", "raw"}
  BY <1>3, SamePhase
<1> QED  BY <1>1, <1>2, <1>3, <1>4, <1>5 DEF Moves

\* A slot or a responder that reads all there is.
LEMMA LoadMoves ==
  ASSUME HttpTypeOK, NEW phase \in Phases, NEW postDataMode \in {"unknown", "values", "raw"},
         request' = [request EXCEPT !.data = Loaded(socket.in), !.phase = phase, !.postDataMode = postDataMode],
         socket' = [socket EXCEPT !.in = <<>>], request.phase \notin {"none", "queued"}, phase \notin {"none", "queued"},
         wire' = wire, mode' = mode, device' = device, flusher' = flusher, gone' = gone,
         control' \in {"loop", "read", "slot"}, timer' \in BOOLEAN
  PROVE  Moves
<1>1. wire \in Seq(Pieces) /\ socket.in \in Seq(Pieces) /\ request.data \in Seq(Pieces)
  BY Records DEF HttpTypeOK
<1>2. PICK data : data = request.data \o socket.in
  OBVIOUS
<1>3. PICK none \in Seq(Pieces) : none = <<>> /\ Len(none) = 0
  BY EmptySeq
<1>4. data \in Seq(Pieces) /\ data \o (none \o wire) = request.data \o (socket.in \o wire)
  <2>1. PICK old, in, rest \in Seq(Pieces) : old = request.data /\ in = socket.in /\ rest = wire
    BY <1>1
  <2>2. old \o in \in Seq(Pieces) /\ (old \o in) \o (none \o rest) = old \o (in \o rest)
    BY <1>3, Shift
  <2> QED  BY <1>2, <2>1, <2>2
<1>5. data \o (none \o wire') = All
  BY <1>4 DEF All, Unread
<1>6. /\ request' = [request EXCEPT !.data = data, !.phase = phase, !.postDataMode = postDataMode]
      /\ socket' = [socket EXCEPT !.in = none]
  BY <1>2, <1>3 DEF Loaded
<1> QED  BY <1>1, <1>3, <1>4, <1>5, <1>6 DEF Moves

LEMMA PostMoves == ASSUME HttpTypeOK, LoadPostVariables \/ PollPostVariables \/ Adopt  PROVE Moves
<1>0. /\ control \in {"loop", "read", "slot"} /\ timer \in BOOLEAN /\ request.postDataMode \in {"unknown", "values", "raw"}
  BY Records
<1>1. CASE LoadPostVariables
  <2>1. PICK phase : phase = IF Len(socket.in) < Len(Body) THEN "waiting" ELSE request.phase
    OBVIOUS
  <2>2. phase \in {"waiting", "running"} /\ request.phase = "running"
    BY <1>1, <2>1 DEF LoadPostVariables
  <2>3. request' = [request EXCEPT !.data = Loaded(socket.in), !.phase = phase, !.postDataMode = "values"]
    BY <1>1, <2>1, Records DEF LoadPostVariables
  <2> QED  BY <1>0, <1>1, <2>2, <2>3, LoadMoves DEF LoadPostVariables, Phases
<1>2. CASE PollPostVariables
  <2>1. PICK phase \in {"waiting", "running"} : request' = [request EXCEPT !.data = Loaded(socket.in), !.phase = phase]
    BY <1>2 DEF PollPostVariables
  <2>2. request' = [request EXCEPT !.data = Loaded(socket.in), !.phase = phase, !.postDataMode = request.postDataMode]
    BY <2>1, Records
  <2> QED  BY <1>0, <1>2, <2>2, LoadMoves DEF PollPostVariables, Phases
<1>3. CASE Adopt
  <2>1. PICK reads \in {TRUE, mode # "direct"} :
          LET bytes == IF reads THEN socket.in ELSE <<>> IN
          /\ request' = [request EXCEPT !.postDataMode = "raw", !.phase = "adopted", !.data = Loaded(bytes)]
          /\ socket' = [socket EXCEPT !.in = IF reads THEN <<>> ELSE @]
    BY <1>3 DEF Adopt
  <2>2. request.phase = "running" /\ control' = "loop" /\ wire' = wire /\ mode' = mode /\ device' = device /\ gone' = gone
        /\ flusher' = flusher /\ timer' = timer
    BY <1>3 DEF Adopt
  <2>3. CASE reads
    <3>1. /\ request' = [request EXCEPT !.data = Loaded(socket.in), !.phase = "adopted", !.postDataMode = "raw"]
          /\ socket' = [socket EXCEPT !.in = <<>>]
      BY <2>1, <2>3, Records
    <3> QED  BY <1>0, <2>2, <3>1, LoadMoves DEF Phases
  <2>4. CASE ~reads
    <3>1. PICK none \in Seq(Pieces) : none = <<>>
      BY EmptySeq
    <3>2. request.data \o none = request.data
      BY <3>1, Records, ConcatEmptySeq
    <3>3. /\ request' = [request EXCEPT !.data = request.data, !.phase = "adopted", !.postDataMode = "raw"]
          /\ socket' = [socket EXCEPT !.in = socket.in]
      BY <2>1, <2>4, <3>1, <3>2, Records DEF Loaded
    <3>4. wire \in Seq(Pieces) /\ socket.in \in Seq(Pieces) /\ request.data \in Seq(Pieces)
      BY Records DEF HttpTypeOK
    <3> QED  BY <1>0, <2>2, <3>3, <3>4 DEF Moves, Phases, All, Unread
  <2> QED  BY <2>3, <2>4
<1> QED  BY <1>1, <1>2, <1>3

-----------------------------------------------------------------------------
(* Lines of the request. *)

LEMMA LineFacts ==
  ASSUME HttpTypeOK, CanReadLine
  PROVE  /\ LineEnd \in Nat /\ LineEnd > 0 /\ LineEnd <= Len(Unread) /\ Unread[LineEnd] = NewLine /\ Unread \in Seq(Pieces)
         /\ \A i \in 1..Len(Unread) : i < LineEnd => Unread[i] # NewLine
         /\ IsSlice(Line, Unread, 0, LineEnd - 1)
         /\ AfterLine \in Seq(Pieces) /\ AfterLine \o wire \in Seq(Pieces)
         /\ IsSlice(AfterLine \o wire, Unread, LineEnd, Len(Unread) - LineEnd)
<1>1. PICK in, rest \in Seq(Pieces) : in = socket.in /\ rest = wire
  BY Records DEF HttpTypeOK
<1>2. PICK m, n \in Nat : m = Len(in) /\ n = Len(rest)
  OBVIOUS
<1>3. PICK text : text = Unread
  OBVIOUS
<1>4. text \in Seq(Pieces) /\ Len(text) = m + n /\ \A i \in 1..(m + n) : text[i] = IF i <= m THEN in[i] ELSE rest[i - m]
  <2>1. Len(in) = m /\ Len(rest) = n
    BY <1>2
  <2>2. /\ in \o rest \in Seq(Pieces) /\ Len(in \o rest) = m + n
        /\ \A i \in 1..(m + n) : (in \o rest)[i] = IF i <= m THEN in[i] ELSE rest[i - m]
    BY ONLY in \in Seq(Pieces), rest \in Seq(Pieces), <2>1, ConcatIs
  <2> QED  BY <1>1, <1>3, <2>2 DEF Unread
<1>5. PICK p : p = LineEnd
  OBVIOUS
<1>6. p \in 1..m /\ in[p] = NewLine /\ \A i \in 1..m : in[i] = NewLine => p <= i
  <2>1. socket.in \in Seq(Pieces)
    BY <1>1
  <2> QED  BY <1>1, <1>2, <1>5, <2>1, LineEndCorrect
<1>7. \A i \in 1..m : text[i] = in[i]
  BY <1>2, <1>4
<1>8. p \in Nat /\ p > 0 /\ p <= m + n /\ text[p] = NewLine
  <2>1. text[p] = in[p]
    BY <1>6, <1>7
  <2> QED  BY <1>2, <1>6, <2>1
<1>9. \A i \in 1..(m + n) : i < p => text[i] # NewLine
  <2> SUFFICES ASSUME NEW i \in 1..(m + n), i < p  PROVE text[i] # NewLine
    OBVIOUS
  <2>1. i \in 1..m /\ ~(p <= i)
    BY <1>2, <1>6
  <2> QED  BY <1>6, <1>7, <2>1
<1>10. IsSlice(Line, text, 0, p - 1)
  <2>1. 0 \in Nat /\ p - 1 \in Nat /\ 0 <= p - 1 /\ p - 1 <= Len(in) /\ (p - 1) - 0 = p - 1
    BY <1>2, <1>6
  <2>2. PICK e \in Nat : e = p - 1 /\ e <= Len(in)
    BY <2>1
  <2>3. SubSeq(in, 0 + 1, e) \in Seq(Pieces) /\ IsSlice(SubSeq(in, 0 + 1, e), in, 0, e - 0)
    BY <2>2, SliceCorrect
  <2>4. Line = SubSeq(in, 0 + 1, e)
    BY <1>1, <1>5, <2>2 DEF Line
  <2>5. \A i \in 1..e : text[0 + i] = in[0 + i]
    <3>1. \A i \in 1..e : 0 + i \in 1..m
      BY <1>2, <2>2
    <3> QED  BY <1>7, <3>1
  <2>6. e - 0 = e
    BY <2>2
  <2>7. IsSlice(Line, text, 0, e)
    BY <2>3, <2>4, <2>5, <2>6 DEF IsSlice
  <2> QED  BY <2>2, <2>7
<1>11. PICK after : after = AfterLine
  OBVIOUS
<1>12. after \in Seq(Pieces) /\ IsSlice(after, in, p, m - p)
  <2>1. p \in Nat /\ m \in Nat /\ p <= m /\ m <= Len(in)
    BY <1>2, <1>6
  <2>2. SubSeq(in, p + 1, m) \in Seq(Pieces) /\ IsSlice(SubSeq(in, p + 1, m), in, p, m - p)
    BY <2>1, SliceCorrect
  <2> QED  BY <1>1, <1>2, <1>5, <1>11, <2>2 DEF AfterLine
<1>13. PICK l : l = after \o rest
  OBVIOUS
<1>14. PICK k \in Nat : k = m - p
  <2>1. m - p \in Nat
    BY <1>2, <1>6
  <2> QED  BY <2>1
<1>15. l \in Seq(Pieces) /\ Len(l) = k + n /\ \A i \in 1..(k + n) : l[i] = IF i <= k THEN after[i] ELSE rest[i - k]
  <2>1. Len(after) = k /\ Len(rest) = n /\ after \in Seq(Pieces)
    BY <1>2, <1>12, <1>14 DEF IsSlice
  <2>2. /\ after \o rest \in Seq(Pieces) /\ Len(after \o rest) = k + n
        /\ \A i \in 1..(k + n) : (after \o rest)[i] = IF i <= k THEN after[i] ELSE rest[i - k]
    BY ONLY rest \in Seq(Pieces), <2>1, ConcatIs, SMTT(30)
  <2> QED  BY <1>13, <2>2
<1>16. IsSlice(l, text, p, (m + n) - p)
  <2>1. (m + n) - p = k + n
    BY <1>2, <1>6, <1>14
  <2>2. \A i \in 1..(k + n) : l[i] = text[p + i]
    <3> SUFFICES ASSUME NEW i \in 1..(k + n)  PROVE l[i] = text[p + i]
      OBVIOUS
    <3>1. p + i \in 1..(m + n)
      BY <1>2, <1>6, <1>14
    <3>2. CASE i <= k
      <4>1. i \in 1..(m - p) /\ p + i <= m
        BY <1>2, <1>6, <1>14, <3>2
      <4>2. after[i] = in[p + i]
        BY <1>12, <4>1 DEF IsSlice
      <4> QED  BY <1>4, <1>15, <3>1, <3>2, <4>1, <4>2
    <3>3. CASE ~(i <= k)
      <4>1. ~(p + i <= m) /\ (p + i) - m = i - k
        BY <1>2, <1>6, <1>14, <3>3
      <4> QED  BY <1>4, <1>15, <3>1, <3>3, <4>1
    <3> QED  BY <3>2, <3>3
  <2> QED  BY <1>15, <2>1, <2>2 DEF IsSlice
<1> QED  BY <1>1, <1>3, <1>4, <1>5, <1>8, <1>9, <1>10, <1>11, <1>12, <1>13, <1>15, <1>16

\* A line with a text.
LEMMA TextLine ==
  ASSUME HttpTypeOK, CanReadLine, Len(Unread) > 1, Unread[1] # NewLine, Unread[2] = NewLine
  PROVE  LineEnd = 2 /\ Len(Line) = 1 /\ Line[1] = Unread[1] /\ Line # <<>>
<1>1. LineEnd \in Nat /\ LineEnd > 0 /\ LineEnd <= Len(Unread) /\ Unread[LineEnd] = NewLine /\ Unread \in Seq(Pieces)
  BY LineFacts
<1>2. \A i \in 1..Len(Unread) : i < LineEnd => Unread[i] # NewLine
  BY LineFacts
<1>3. LineEnd = 2
  <2>1. LineEnd # 1
    BY <1>1
  <2>2. 2 \in 1..Len(Unread)
    BY <1>1
  <2>3. ~(2 < LineEnd)
    BY <1>2, <2>2
  <2> QED  BY <1>1, <2>1, <2>3
<1>4. IsSlice(Line, Unread, 0, 2 - 1)
  BY <1>3, LineFacts
<1>5. Len(Line) = 1 /\ Line[1] = Unread[1]
  <2>1. 2 - 1 = 1 /\ 1 \in 1..1 /\ 0 + 1 = 1
    OBVIOUS
  <2> QED  BY <1>4, <2>1 DEF IsSlice
<1>6. Line # <<>>
  <2>1. Len(<<>>) = 0
    OBVIOUS
  <2> QED  BY <1>5, <2>1
<1> QED  BY <1>3, <1>5, <1>6

\* A line without.
LEMMA BlankLine ==
  ASSUME HttpTypeOK, CanReadLine, Unread[1] = NewLine
  PROVE  LineEnd = 1
<1>1. LineEnd \in Nat /\ LineEnd > 0 /\ LineEnd <= Len(Unread) /\ Unread \in Seq(Pieces)
  BY LineFacts
<1>2. \A i \in 1..Len(Unread) : i < LineEnd => Unread[i] # NewLine
  BY LineFacts
<1>3. 1 \in 1..Len(Unread)
  BY <1>1
<1>4. ~(1 < LineEnd)
  BY <1>2, <1>3
<1> QED  BY <1>1, <1>4

\* What is left behind a header line, ...
LEMMA RestLine ==
  ASSUME NEW text \in Seq(Pieces), NEW k \in 0..Len(HeaderLines), IsRest(text, k), k # Len(HeaderLines),
         NEW rest, IsSlice(rest, text, 2, Len(text) - 2)
  PROVE  /\ Len(text) > 1 /\ text[1] = HeaderLines[k + 1] /\ text[1] # NewLine /\ text[2] = NewLine
         /\ k + 1 \in 1..Len(HeaderLines) /\ IsRest(rest, k + 1)
<1>1. PICK n \in Nat : n = Len(HeaderLines)
  BY PieceTypes
<1>2. PICK b \in Nat : b = Len(Body)
  BY PieceTypes
<1>3. PICK m : m = n - k
  OBVIOUS
<1>4. m \in Nat /\ m > 0 /\ k \in 0..n /\ k \in Nat /\ k + 1 \in 1..n
  BY <1>1, <1>3
<1>5. /\ Len(text) = 2 * m + 1 + b
      /\ \A j \in 1..m : text[2 * j - 1] = HeaderLines[k + j] /\ text[2 * j] = NewLine
      /\ text[2 * m + 1] = NewLine
      /\ \A j \in 1..b : text[2 * m + 1 + j] = Body[j]
  BY <1>1, <1>2, <1>3 DEF IsRest
<1>6. text[1] = HeaderLines[k + 1] /\ text[2] = NewLine
  <2>1. 1 \in 1..m /\ 2 * 1 - 1 = 1 /\ 2 * 1 = 2
    BY <1>4
  <2> QED  BY <1>5, <2>1
<1>7. Len(rest) = 2 * (m - 1) + 1 + b /\ \A i \in 1..(2 * (m - 1) + 1 + b) : rest[i] = text[2 + i]
  <2>1. Len(text) - 2 = 2 * (m - 1) + 1 + b
    BY <1>4, <1>5
  <2> QED  BY <2>1 DEF IsSlice
<1>8. \A j \in 1..(m - 1) : rest[2 * j - 1] = HeaderLines[k + 1 + j] /\ rest[2 * j] = NewLine
  <2> SUFFICES ASSUME NEW j \in 1..(m - 1)  PROVE rest[2 * j - 1] = HeaderLines[k + 1 + j] /\ rest[2 * j] = NewLine
    OBVIOUS
  <2>1. /\ 2 * j - 1 \in 1..(2 * (m - 1) + 1 + b) /\ 2 * j \in 1..(2 * (m - 1) + 1 + b) /\ j + 1 \in 1..m
        /\ 2 + (2 * j - 1) = 2 * (j + 1) - 1 /\ 2 + 2 * j = 2 * (j + 1) /\ k + (j + 1) = k + 1 + j
    BY <1>4
  <2>2. rest[2 * j - 1] = text[2 * (j + 1) - 1] /\ rest[2 * j] = text[2 * (j + 1)]
    BY <1>7, <2>1
  <2>3. text[2 * (j + 1) - 1] = HeaderLines[k + (j + 1)] /\ text[2 * (j + 1)] = NewLine
    BY <1>5, <2>1
  <2> QED  BY <2>1, <2>2, <2>3
<1>9. rest[2 * (m - 1) + 1] = NewLine
  <2>1. 2 * (m - 1) + 1 \in 1..(2 * (m - 1) + 1 + b) /\ 2 + (2 * (m - 1) + 1) = 2 * m + 1
    BY <1>4
  <2> QED  BY <1>5, <1>7, <2>1
<1>10. \A j \in 1..b : rest[2 * (m - 1) + 1 + j] = Body[j]
  <2> SUFFICES ASSUME NEW j \in 1..b  PROVE rest[2 * (m - 1) + 1 + j] = Body[j]
    OBVIOUS
  <2>1. 2 * (m - 1) + 1 + j \in 1..(2 * (m - 1) + 1 + b) /\ 2 + (2 * (m - 1) + 1 + j) = 2 * m + 1 + j
    BY <1>4
  <2> QED  BY <1>5, <1>7, <2>1
<1>11. n - (k + 1) = m - 1
  BY <1>3, <1>4
<1>12. IsRest(rest, k + 1)
  <2>1. Len(HeaderLines) - (k + 1) = m - 1
    BY <1>1, <1>11
  <2> QED  BY <1>2, <1>7, <1>8, <1>9, <1>10, <2>1 DEF IsRest
<1>13. text[1] # NewLine
  BY <1>1, <1>4, <1>6, PieceTypes
<1>14. Len(text) > 1
  BY <1>4, <1>5
<1> QED  BY <1>1, <1>4, <1>6, <1>12, <1>13, <1>14

\* ... and behind the empty line: the body.
LEMMA RestBody ==
  ASSUME NEW text \in Seq(Pieces), IsRest(text, Len(HeaderLines)),
         NEW rest \in Seq(Pieces), IsSlice(rest, text, 1, Len(text) - 1)
  PROVE  text[1] = NewLine /\ rest = Body
<1>1. PICK b \in Nat : b = Len(Body)
  BY PieceTypes
<1>2. Len(HeaderLines) - Len(HeaderLines) = 0
  BY PieceTypes
<1>3. /\ Len(text) = 2 * 0 + 1 + b /\ text[2 * 0 + 1] = NewLine /\ \A j \in 1..b : text[2 * 0 + 1 + j] = Body[j]
  BY <1>1, <1>2 DEF IsRest
<1>4. Len(text) - 1 = b /\ text[1] = NewLine /\ \A j \in 1..b : text[1 + j] = Body[j]
  <2>1. 2 * 0 + 1 = 1 /\ 2 * 0 + 1 + b = 1 + b /\ (1 + b) - 1 = b /\ \A j \in 1..b : 2 * 0 + 1 + j = 1 + j
    OBVIOUS
  <2> QED  BY <1>3, <2>1
<1>5. Len(rest) = b /\ \A i \in 1..b : rest[i] = text[1 + i]
  BY <1>4 DEF IsSlice
<1>6. Body \in Seq(Pieces)
  BY PieceTypes
<1> QED  BY <1>1, <1>4, <1>5, <1>6, SeqEqual

\* Behind the request line.
LEMMA RestFirst ==
  ASSUME NEW text \in Seq(Pieces), Len(text) > 2, IsRest(SubSeq(text, 3, Len(text)), 0),
         NEW rest, IsSlice(rest, text, 2, Len(text) - 2)
  PROVE  IsRest(rest, 0)
<1>1. PICK sub : sub = SubSeq(text, 2 + 1, Len(text))
  OBVIOUS
<1>2. IsSlice(sub, text, 2, Len(text) - 2)
  <2>1. 2 \in Nat /\ Len(text) \in Nat /\ 2 <= Len(text) /\ Len(text) <= Len(text)
    OBVIOUS
  <2> QED  BY <1>1, <2>1, SliceCorrect
<1>3. Len(rest) = Len(sub) /\ \A i \in 1..Len(sub) : rest[i] = sub[i]
  BY <1>2 DEF IsSlice
<1>4. IsRest(sub, 0)
  <2>1. 2 + 1 = 3
    OBVIOUS
  <2> QED  BY <1>1, <2>1
<1>5. PICK n \in Nat, b \in Nat : n = Len(HeaderLines) /\ b = Len(Body)
  BY PieceTypes
<1>6. /\ Len(sub) = 2 * n + 1 + b
      /\ \A j \in 1..n : sub[2 * j - 1] = HeaderLines[0 + j] /\ sub[2 * j] = NewLine
      /\ sub[2 * n + 1] = NewLine
      /\ \A j \in 1..b : sub[2 * n + 1 + j] = Body[j]
  <2>1. n - 0 = n
    OBVIOUS
  <2> QED  BY <1>4, <1>5, <2>1 DEF IsRest
<1>7. /\ \A j \in 1..n : 2 * j - 1 \in 1..(2 * n + 1 + b) /\ 2 * j \in 1..(2 * n + 1 + b)
      /\ 2 * n + 1 \in 1..(2 * n + 1 + b)
      /\ \A j \in 1..b : 2 * n + 1 + j \in 1..(2 * n + 1 + b)
  OBVIOUS
<1>8. /\ Len(rest) = 2 * n + 1 + b
      /\ \A j \in 1..n : rest[2 * j - 1] = HeaderLines[0 + j] /\ rest[2 * j] = NewLine
      /\ rest[2 * n + 1] = NewLine
      /\ \A j \in 1..b : rest[2 * n + 1 + j] = Body[j]
  BY <1>3, <1>6, <1>7
<1>9. Len(HeaderLines) - 0 = n
  BY <1>5
<1> QED  BY <1>5, <1>8, <1>9 DEF IsRest

-----------------------------------------------------------------------------
(* Variables. *)

LEMMA WithVariableCorrect ==
  ASSUME NEW map, NEW name, NEW value
  PROVE  /\ DOMAIN WithVariable(map, name, value) = DOMAIN map \union {name}
         /\ Has(WithVariable(map, name, value), name, value)
         /\ \A other, old : other # name /\ Has(map, other, old) => Has(WithVariable(map, name, value), other, old)
BY DEF WithVariable, Has

LEMMA WithVariableType ==
  ASSUME NEW map, IsVariables(map), NEW name \in Names, NEW value \in Seq(Bytes)
  PROVE  IsVariables(WithVariable(map, name, value))
<1>1. PICK new : new = WithVariable(map, name, value)
  OBVIOUS
<1>2. DOMAIN new = DOMAIN map \union {name} /\ \A n \in DOMAIN new : new[n] = IF n = name THEN value ELSE map[n]
  BY <1>1 DEF WithVariable
<1>3. DOMAIN map \subseteq Names /\ \A n \in DOMAIN map : map[n] \in Seq(Bytes)
  BY DEF IsVariables
<1>4. DOMAIN new \subseteq Names /\ \A n \in DOMAIN new : new[n] \in Seq(Bytes)
  BY <1>2, <1>3
<1> QED  BY <1>1, <1>4 DEF IsVariables

LEMMA VariableNames ==
  ASSUME NEW a, NEW b
  PROVE  /\ VariableName(a) = VariableName(b) => a = b
         /\ \A name \in {"REQUEST_METHOD", "SERVER_PROTOCOL", "REQUEST_URI", "PATH_INFO", "QUERY_STRING"} :
              VariableName(a) # <<name>>
         /\ VariableName("COOKIE") = <<"HTTP_", "COOKIE">>
<1>1. \A x, y, z : <<x>> # <<y, z>>
  OBVIOUS
<1>2. \A x, y : <<x>> = <<y>> => x = y
  OBVIOUS
<1>3. \A x, y, z : <<z, x>> = <<z, y>> => x = y
  OBVIOUS
<1>4. \/ VariableName(a) = <<a>> /\ a \in {"CONTENT_LENGTH", "CONTENT_TYPE"}
      \/ VariableName(a) = <<"HTTP_", a>>
  BY DEF VariableName
<1>5. \/ VariableName(b) = <<b>> /\ b \in {"CONTENT_LENGTH", "CONTENT_TYPE"}
      \/ VariableName(b) = <<"HTTP_", b>>
  BY DEF VariableName
<1>6. VariableName(a) = VariableName(b) => a = b
  BY <1>1, <1>2, <1>3, <1>4, <1>5
<1>7. ASSUME NEW name \in {"REQUEST_METHOD", "SERVER_PROTOCOL", "REQUEST_URI", "PATH_INFO", "QUERY_STRING"}
      PROVE  VariableName(a) # <<name>>
  <2>1. name \notin {"CONTENT_LENGTH", "CONTENT_TYPE"}
    OBVIOUS
  <2> QED  BY <1>1, <1>2, <1>4, <2>1
<1>8. VariableName("COOKIE") = <<"HTTP_", "COOKIE">>
  BY DEF VariableName
<1> QED  BY <1>6, <1>7, <1>8

\* The bytes of a sequence of strings, if they are counted among Bytes.
LEMMA BytesOf ==
  ASSUME NEW value \in Seq(STRING), Range(value) \subseteq Bytes
  PROVE  value \in Seq(Bytes)
<1>1. value \in Seq(Range(value))
  BY SeqOfRange
<1> QED  BY <1>1, SeqMonotonic

LEMMA ByteTypes ==
  /\ \A uri \in Uris : uri \in Seq(Bytes)
  /\ \A k \in 1..Len(HeaderLines) : HeaderLines[k][2] \in Seq(Bytes) /\ VariableName(HeaderLines[k][1]) \in Names
  /\ "POST" \in Bytes /\ "HTTP/1.1" \in Bytes
<1>0. /\ UNION {Range(uri) : uri \in Uris} \subseteq Bytes /\ {"POST", "HTTP/1.1"} \subseteq Bytes
      /\ UNION {Range(line[2]) : line \in Range(HeaderLines)} \subseteq Bytes
  <2>1. PICK u : u = UNION {Range(uri) : uri \in Uris}
    OBVIOUS
  <2>2. PICK l : l = UNION {Range(line[2]) : line \in Range(HeaderLines)}
    OBVIOUS
  <2>3. PICK p : p = {"POST", "HTTP/1.1"}
    OBVIOUS
  <2>4. Bytes = p \union u \union l
    BY <2>1, <2>2, <2>3, Zenon DEF Bytes
  <2>5. u \subseteq Bytes /\ p \subseteq Bytes /\ l \subseteq Bytes
    BY ONLY <2>4
  <2> QED  BY <2>1, <2>2, <2>3, <2>5, Zenon
<1>1. ASSUME NEW uri \in Uris  PROVE uri \in Seq(Bytes)
  <2>1. uri \in Seq(STRING)
    BY HttpAssumption
  <2>2. Range(uri) \in {Range(u) : u \in Uris}
    OBVIOUS
  <2>3. Range(uri) \subseteq Bytes
    BY <1>0, <2>2, Zenon
  <2> QED  BY <2>1, <2>3, BytesOf
<1>2. ASSUME NEW k \in 1..Len(HeaderLines)
      PROVE  HeaderLines[k][2] \in Seq(Bytes) /\ VariableName(HeaderLines[k][1]) \in Names
  <2>1. HeaderLines \in Seq(STRING \X Seq(STRING))
    BY HttpAssumption
  <2>2. PICK line : line = HeaderLines[k]
    OBVIOUS
  <2>3. line \in STRING \X Seq(STRING) /\ line \in Range(HeaderLines)
    <3>1. k \in DOMAIN HeaderLines
      BY <2>1, LenProperties
    <3> QED  BY <2>1, <2>2, <3>1, ElementOfSeq DEF Range
  <2>4. line[2] \in Seq(STRING)
    BY <2>3
  <2>5. Range(line[2]) \in {Range(l[2]) : l \in Range(HeaderLines)}
    BY <2>3
  <2>6. Range(line[2]) \subseteq Bytes
    BY <1>0, <2>5, Zenon
  <2>7. VariableName(line[1]) \in {VariableName(l[1]) : l \in Range(HeaderLines)}
    BY <2>3
  <2>8. line[2] \in Seq(Bytes)
    BY <2>4, <2>6, BytesOf
  <2>9. VariableName(line[1]) \in Names
    BY <2>7 DEF Names
  <2> QED  BY <2>2, <2>8, <2>9
<1>3. "POST" \in Bytes /\ "HTTP/1.1" \in Bytes
  BY <1>0
<1> QED  BY <1>1, <1>2, <1>3

\* The parts of the URI, and its variables after the request line.
LEMMA UriParts ==
  ASSUME NEW S, NEW uri \in Seq(S)
  PROVE  /\ Query(uri) # 0 => /\ Query(uri) \in 1..Len(uri)
                              /\ SubSeq(uri, 1, Query(uri) - 1) \in Seq(S)
                              /\ IsSlice(SubSeq(uri, 1, Query(uri) - 1), uri, 0, Query(uri) - 1)
                              /\ SubSeq(uri, Query(uri) + 1, Len(uri)) \in Seq(S)
                              /\ IsSlice(SubSeq(uri, Query(uri) + 1, Len(uri)), uri, Query(uri), Len(uri) - Query(uri))
<1> SUFFICES ASSUME Query(uri) # 0
             PROVE  /\ Query(uri) \in 1..Len(uri)
                    /\ SubSeq(uri, 1, Query(uri) - 1) \in Seq(S)
                    /\ IsSlice(SubSeq(uri, 1, Query(uri) - 1), uri, 0, Query(uri) - 1)
                    /\ SubSeq(uri, Query(uri) + 1, Len(uri)) \in Seq(S)
                    /\ IsSlice(SubSeq(uri, Query(uri) + 1, Len(uri)), uri, Query(uri), Len(uri) - Query(uri))
  OBVIOUS
<1>1. PICK q : q = Query(uri)
  OBVIOUS
<1>2. PICK n \in Nat : n = Len(uri)
  OBVIOUS
<1>3. q \in 1..n
  BY <1>1, <1>2, QueryCorrect
<1>4. q \in Nat /\ q <= n /\ q - 1 \in Nat /\ n <= Len(uri) /\ q - 1 <= Len(uri)
  BY <1>2, <1>3
<1>5. PICK e \in Nat : e = q - 1 /\ e <= Len(uri)
  BY <1>4
<1>6. SubSeq(uri, 0 + 1, e) \in Seq(S) /\ IsSlice(SubSeq(uri, 0 + 1, e), uri, 0, e - 0)
  BY <1>5, SliceCorrect
<1>7. SubSeq(uri, q + 1, n) \in Seq(S) /\ IsSlice(SubSeq(uri, q + 1, n), uri, q, n - q)
  BY <1>4, SliceCorrect
<1>8. 0 + 1 = 1 /\ e - 0 = e
  BY <1>5
<1> QED  BY <1>1, <1>2, <1>3, <1>5, <1>6, <1>7, <1>8

LEMMA LineNames ==
  ASSUME NEW name \in {"REQUEST_METHOD", "SERVER_PROTOCOL", "REQUEST_URI", "PATH_INFO", "QUERY_STRING"}
  PROVE  <<name>> \in Names
<1>1. {<<n>> : n \in {"REQUEST_METHOD", "SERVER_PROTOCOL", "REQUEST_URI", "PATH_INFO", "QUERY_STRING"}} \subseteq Names
  BY Zenon DEF Names
<1> QED  BY <1>1

\* The request line is read, ...
LEMMA FirstRead ==
  ASSUME NEW uri \in Uris
  PROVE  AreRead(LineVariables(NoVariables, RequestLine(uri)), uri, 0)
<1>1. PICK a : a = WithVariable(NoVariables, <<"REQUEST_METHOD">>, <<"POST">>)
  OBVIOUS
<1>2. PICK b : b = WithVariable(a, <<"SERVER_PROTOCOL">>, <<"HTTP/1.1">>)
  OBVIOUS
<1>3. PICK c : c = WithVariable(b, <<"REQUEST_URI">>, uri)
  OBVIOUS
<1>4. PICK map : map = UriVariables(c, uri)
  OBVIOUS
<1>5. map = LineVariables(NoVariables, RequestLine(uri))
  <2>1. PICK line : line = RequestLine(uri)
    OBVIOUS
  <2>2. line[1] = "POST" /\ line[2] = uri /\ line[3] = "HTTP/1.1"
    BY <2>1 DEF RequestLine
  <2> QED  BY <1>1, <1>2, <1>3, <1>4, <2>1, <2>2 DEF LineVariables
<1>6. IsVariables(c)
  <2>1. <<"POST">> \in Seq(Bytes) /\ <<"HTTP/1.1">> \in Seq(Bytes) /\ uri \in Seq(Bytes)
    BY ByteTypes
  <2>2. <<"REQUEST_METHOD">> \in Names /\ <<"SERVER_PROTOCOL">> \in Names /\ <<"REQUEST_URI">> \in Names
    BY LineNames
  <2>3. IsVariables(a)
    BY <1>1, <2>1, <2>2, NoVariablesType, WithVariableType
  <2>4. IsVariables(b)
    BY <1>2, <2>1, <2>2, <2>3, WithVariableType
  <2> QED  BY <1>3, <2>1, <2>2, <2>4, WithVariableType
<1>7. DOMAIN c = {<<"REQUEST_METHOD">>, <<"SERVER_PROTOCOL">>, <<"REQUEST_URI">>} /\ Has(c, <<"REQUEST_URI">>, uri)
  <2>1. DOMAIN a = DOMAIN NoVariables \union {<<"REQUEST_METHOD">>}
    BY <1>1, WithVariableCorrect, Zenon
  <2>2. DOMAIN b = DOMAIN a \union {<<"SERVER_PROTOCOL">>}
    BY <1>2, WithVariableCorrect, Zenon
  <2>3. DOMAIN c = DOMAIN b \union {<<"REQUEST_URI">>} /\ Has(c, <<"REQUEST_URI">>, uri)
    BY <1>3, WithVariableCorrect
  <2> QED  BY <2>1, <2>2, <2>3, NoVariablesType
<1>8. uri \in Seq(Bytes)
  BY ByteTypes
<1>9. <<"PATH_INFO">> \in Names /\ <<"QUERY_STRING">> \in Names
  BY LineNames
<1>10. <<"PATH_INFO">> # <<"REQUEST_URI">> /\ <<"QUERY_STRING">> # <<"REQUEST_URI">> /\ <<"QUERY_STRING">> # <<"PATH_INFO">>
  OBVIOUS
<1>11. /\ IsVariables(map) /\ Has(map, <<"REQUEST_URI">>, uri)
       /\ Has(map, <<"PATH_INFO">>, IF Query(uri) = 0 THEN uri ELSE SubSeq(uri, 1, Query(uri) - 1))
       /\ IF Query(uri) = 0 THEN <<"QUERY_STRING">> \notin DOMAIN map
          ELSE Has(map, <<"QUERY_STRING">>, SubSeq(uri, Query(uri) + 1, Len(uri)))
       /\ DOMAIN map \subseteq DOMAIN c \union {<<"PATH_INFO">>, <<"QUERY_STRING">>}
  <2>1. CASE Query(uri) = 0
    <3>1. map = WithVariable(c, <<"PATH_INFO">>, uri)
      BY <1>4, <2>1 DEF UriVariables
    <3>2. IsVariables(map)
      BY <1>6, <1>8, <1>9, <3>1, WithVariableType
    <3>3. DOMAIN map = DOMAIN c \union {<<"PATH_INFO">>} /\ Has(map, <<"PATH_INFO">>, uri) /\ Has(map, <<"REQUEST_URI">>, uri)
      BY <1>7, <1>10, <3>1, WithVariableCorrect
    <3>4. <<"QUERY_STRING">> \notin DOMAIN map
      BY <1>7, <3>3
    <3> QED  BY <2>1, <3>2, <3>3, <3>4
  <2>2. CASE Query(uri) # 0
    <3>1. PICK path \in Seq(Bytes) : path = SubSeq(uri, 1, Query(uri) - 1)
      BY <1>8, <2>2, UriParts
    <3>2. PICK query \in Seq(Bytes) : query = SubSeq(uri, Query(uri) + 1, Len(uri))
      BY <1>8, <2>2, UriParts
    <3>3. PICK d : d = WithVariable(c, <<"PATH_INFO">>, path)
      OBVIOUS
    <3>4. map = WithVariable(d, <<"QUERY_STRING">>, query)
      BY <1>4, <2>2, <3>1, <3>2, <3>3 DEF UriVariables
    <3>5. IsVariables(d)
      BY <1>6, <1>9, <3>3, WithVariableType
    <3>6. IsVariables(map)
      BY <1>9, <3>4, <3>5, WithVariableType
    <3>7. DOMAIN d = DOMAIN c \union {<<"PATH_INFO">>} /\ Has(d, <<"PATH_INFO">>, path) /\ Has(d, <<"REQUEST_URI">>, uri)
      BY <1>7, <1>10, <3>3, WithVariableCorrect
    <3>8. /\ DOMAIN map = DOMAIN d \union {<<"QUERY_STRING">>} /\ Has(map, <<"QUERY_STRING">>, query)
          /\ Has(map, <<"PATH_INFO">>, path) /\ Has(map, <<"REQUEST_URI">>, uri)
      BY <1>10, <3>4, <3>7, WithVariableCorrect
    <3>9. DOMAIN map \subseteq DOMAIN c \union {<<"PATH_INFO">>, <<"QUERY_STRING">>}
      BY <3>7, <3>8
    <3> QED  BY <2>2, <3>1, <3>2, <3>6, <3>8, <3>9
  <2> QED  BY <2>1, <2>2
<1>12. <<"HTTP_", "COOKIE">> \notin DOMAIN map
  BY <1>7, <1>11
<1>13. \A j \in 1..0 : FALSE
  OBVIOUS
<1> QED  BY <1>5, <1>11, <1>12, <1>13 DEF AreRead

\* ... and a header line.
LEMMA NextRead ==
  ASSUME NEW uri, NEW old, NEW k \in Nat, k + 1 \in 1..Len(HeaderLines), AreRead(old, uri, k)
  PROVE  AreRead(WithVariable(old, VariableName(HeaderLines[k + 1][1]), HeaderLines[k + 1][2]), uri, k + 1)
<1>1. PICK name, value : name = VariableName(HeaderLines[k + 1][1]) /\ value = HeaderLines[k + 1][2]
  OBVIOUS
<1>2. PICK map : map = WithVariable(old, name, value)
  OBVIOUS
<1>3. /\ DOMAIN map = DOMAIN old \union {name} /\ Has(map, name, value)
      /\ \A other, v : other # name /\ Has(old, other, v) => Has(map, other, v)
  BY <1>2, WithVariableCorrect
<1>4. IsVariables(map)
  <2>1. name \in Names /\ value \in Seq(Bytes)
    BY <1>1, ByteTypes
  <2> QED  BY <1>2, <2>1, WithVariableType DEF AreRead
<1>5. /\ name # <<"REQUEST_URI">> /\ name # <<"PATH_INFO">> /\ name # <<"QUERY_STRING">>
  BY <1>1, VariableNames
<1>6. \A j \in 1..(k + 1) : (\A i \in 1..(k + 1) : i > j => HeaderLines[i][1] # HeaderLines[j][1])
                             => Has(map, VariableName(HeaderLines[j][1]), HeaderLines[j][2])
  <2> SUFFICES ASSUME NEW j \in 1..(k + 1), \A i \in 1..(k + 1) : i > j => HeaderLines[i][1] # HeaderLines[j][1]
               PROVE  Has(map, VariableName(HeaderLines[j][1]), HeaderLines[j][2])
    OBVIOUS
  <2>1. CASE j = k + 1
    BY <1>1, <1>3, <2>1
  <2>2. CASE j # k + 1
    <3>1. j \in 1..k /\ \A i \in 1..k : i \in 1..(k + 1)
      BY <2>2
    <3>2. Has(old, VariableName(HeaderLines[j][1]), HeaderLines[j][2])
      BY <3>1 DEF AreRead
    <3>3. HeaderLines[k + 1][1] # HeaderLines[j][1]
      <4>1. k + 1 \in 1..(k + 1) /\ k + 1 > j
        BY <3>1
      <4> QED  BY <4>1
    <3>4. VariableName(HeaderLines[j][1]) # name
      BY <1>1, <3>3, VariableNames
    <3> QED  BY <1>3, <3>2, <3>4
  <2> QED  BY <2>1, <2>2
<1>7. <<"HTTP_", "COOKIE">> \in DOMAIN map => \E j \in 1..(k + 1) : HeaderLines[j][1] = "COOKIE"
  <2>1. CASE <<"HTTP_", "COOKIE">> \in DOMAIN old
    <3>1. PICK j \in 1..k : HeaderLines[j][1] = "COOKIE"
      BY <2>1 DEF AreRead
    <3>2. j \in 1..(k + 1)
      OBVIOUS
    <3> QED  BY <3>1, <3>2
  <2>2. CASE <<"HTTP_", "COOKIE">> = name
    <3>1. VariableName("COOKIE") = VariableName(HeaderLines[k + 1][1])
      BY <1>1, <2>2, VariableNames
    <3>2. HeaderLines[k + 1][1] = "COOKIE"
      BY <3>1, VariableNames
    <3>3. k + 1 \in 1..(k + 1)
      OBVIOUS
    <3> QED  BY <3>2, <3>3
  <2> QED  BY <1>3, <2>1, <2>2
<1>8. /\ Has(map, <<"REQUEST_URI">>, uri)
      /\ Has(map, <<"PATH_INFO">>, IF Query(uri) = 0 THEN uri ELSE SubSeq(uri, 1, Query(uri) - 1))
  BY <1>3, <1>5 DEF AreRead
<1>9. IF Query(uri) = 0 THEN <<"QUERY_STRING">> \notin DOMAIN map
      ELSE Has(map, <<"QUERY_STRING">>, SubSeq(uri, Query(uri) + 1, Len(uri)))
  BY <1>3, <1>5 DEF AreRead
<1> QED  BY <1>1, <1>2, <1>4, <1>6, <1>7, <1>8, <1>9 DEF AreRead

-----------------------------------------------------------------------------
(* readSocketData: the request line, a header line, the empty line. *)

LEMMA RequestLineEffect ==
  ASSUME HttpTypeOK, Framing, ReadRequestLine
  PROVE  \E uri \in Uris, in \in Seq(Pieces) : \E map :
           /\ device' = [device EXCEPT !.requestHeaders = map, !.requestState = "headers"]
           /\ socket' = [socket EXCEPT !.in = in]
           /\ AreRead(map, uri, 0) /\ IsRest(in \o wire, 0)
<1>1. CanReadLine /\ device.requestState = "request" /\ device.requestHeaders = NoVariables
  BY DEF ReadRequestLine, Framing
<1>2. PICK text : text = Unread
  OBVIOUS
<1>3. PICK uri \in Uris : /\ Len(text) > 2 /\ text[1] = RequestLine(uri) /\ text[2] = NewLine
                          /\ IsRest(SubSeq(text, 3, Len(text)), 0)
  BY <1>1, <1>2 DEF Framing
<1>4. text \in Seq(Pieces)
  BY <1>1, <1>2, LineFacts
<1>5. LineEnd = 2 /\ Line[1] = RequestLine(uri)
  <2>1. Len(text) > 1
    BY <1>3, <1>4
  <2>2. text[1] # NewLine
    BY <1>3, PieceTypes
  <2> QED  BY <1>1, <1>2, <1>3, <2>1, <2>2, TextLine
<1>6. PICK in : in = AfterLine
  OBVIOUS
<1>7. in \in Seq(Pieces) /\ IsSlice(in \o wire, text, 2, Len(text) - 2)
  BY <1>1, <1>2, <1>5, <1>6, LineFacts
<1>8. IsRest(in \o wire, 0)
  BY <1>3, <1>4, <1>7, RestFirst
<1>9. PICK map : map = LineVariables(NoVariables, RequestLine(uri))
  OBVIOUS
<1>10. AreRead(map, uri, 0)
  BY <1>9, FirstRead
<1>11. /\ device' = [device EXCEPT !.requestHeaders = map, !.requestState = "headers"]
       /\ socket' = [socket EXCEPT !.in = in]
  BY <1>1, <1>5, <1>6, <1>9 DEF ReadRequestLine
<1> QED  BY <1>7, <1>8, <1>10, <1>11

\* How much of the header has been read.
LEMMA HeaderRest ==
  ASSUME HttpTypeOK, Framing, device.requestState = "headers", CanReadLine
  PROVE  \E uri \in Uris, k \in 0..Len(HeaderLines) :
           /\ AreRead(device.requestHeaders, uri, k)
           /\ Line = <<>> => k = Len(HeaderLines) /\ AfterLine \o wire = Body
           /\ Line # <<>> => /\ k + 1 \in 1..Len(HeaderLines) /\ Line[1] = HeaderLines[k + 1]
                             /\ IsRest(AfterLine \o wire, k + 1)
<1>1. PICK text : text = Unread
  OBVIOUS
<1>2. PICK uri \in Uris, k \in 0..Len(HeaderLines) : IsRest(text, k) /\ AreRead(device.requestHeaders, uri, k)
  BY <1>1 DEF Framing
<1>3. text \in Seq(Pieces)
  BY <1>1, LineFacts
<1>4. PICK rest \in Seq(Pieces) : rest = AfterLine \o wire /\ IsSlice(rest, text, LineEnd, Len(text) - LineEnd)
  BY <1>1, LineFacts
<1>5. CASE k = Len(HeaderLines)
  <2>1. text[1] = NewLine
    <3>1. IsRest(text, Len(HeaderLines))
      BY <1>2, <1>5
    <3>2. Len(HeaderLines) - Len(HeaderLines) = 0 /\ 2 * 0 + 1 = 1
      BY PieceTypes
    <3>3. text[2 * 0 + 1] = NewLine
      BY <3>1, <3>2 DEF IsRest
    <3> QED  BY <3>2, <3>3
  <2>2. LineEnd = 1
    BY <1>1, <2>1, BlankLine
  <2>3. rest = Body
    BY <1>2, <1>3, <1>4, <1>5, <2>2, RestBody
  <2>4. Line = <<>>
    <3>1. IsSlice(Line, text, 0, 1 - 1)
      BY <1>1, <2>2, LineFacts
    <3>2. Len(Line) = 0
      BY <3>1 DEF IsSlice
    <3>3. Line \in Seq(Pieces)
      <4>1. socket.in \in Seq(Pieces)
        BY Records
      <4>2. 1 - 1 = 0
        OBVIOUS
      <4> QED  BY <2>2, <4>1, <4>2, Cut DEF Line
    <3> QED  BY <3>2, <3>3, EmptySeq
  <2> QED  BY <1>2, <1>4, <1>5, <2>3, <2>4
<1>6. CASE k # Len(HeaderLines)
  <2>1. PICK slice : slice = SubSeq(text, 2 + 1, Len(text))
    OBVIOUS
  <2>2. Len(text) > 1
    <3>1. PICK n \in Nat, b \in Nat : n = Len(HeaderLines) /\ b = Len(Body)
      BY PieceTypes
    <3>2. Len(text) = 2 * (n - k) + 1 + b
      BY <1>2, <3>1 DEF IsRest
    <3>3. n - k > 0 /\ n - k \in Nat
      BY <1>6, <3>1
    <3> QED  BY <3>2, <3>3
  <2>3. IsSlice(slice, text, 2, Len(text) - 2)
    <3>1. 2 \in Nat /\ Len(text) \in Nat /\ 2 <= Len(text) /\ Len(text) <= Len(text)
      BY <1>3, <2>2
    <3> QED  BY <1>3, <2>1, <3>1, SliceCorrect
  <2>4. text[1] = HeaderLines[k + 1] /\ text[1] # NewLine /\ text[2] = NewLine /\ k + 1 \in 1..Len(HeaderLines)
    BY <1>2, <1>3, <1>6, <2>3, RestLine
  <2>5. LineEnd = 2 /\ Line[1] = text[1] /\ Line # <<>>
    BY <1>1, <2>2, <2>4, TextLine
  <2>6. IsRest(rest, k + 1)
    BY <1>2, <1>3, <1>4, <1>6, <2>5, RestLine
  <2> QED  BY <1>2, <1>4, <2>4, <2>5, <2>6
<1> QED  BY <1>5, <1>6

LEMMA HeaderLineEffect ==
  ASSUME HttpTypeOK, Framing, ReadHeaderLine
  PROVE  \E uri \in Uris, k \in 0..Len(HeaderLines), in \in Seq(Pieces) : \E map :
           /\ device' = [device EXCEPT !.requestHeaders = map]
           /\ socket' = [socket EXCEPT !.in = in]
           /\ AreRead(map, uri, k) /\ IsRest(in \o wire, k)
<1>1. CanReadLine /\ device.requestState = "headers" /\ Line # <<>>
  BY DEF ReadHeaderLine
<1>2. PICK uri \in Uris, j \in 0..Len(HeaderLines) :
        /\ AreRead(device.requestHeaders, uri, j)
        /\ j + 1 \in 1..Len(HeaderLines) /\ Line[1] = HeaderLines[j + 1]
        /\ IsRest(AfterLine \o wire, j + 1)
  BY <1>1, HeaderRest
<1>3. PICK in : in = AfterLine
  OBVIOUS
<1>4. in \in Seq(Pieces)
  BY <1>1, <1>3, LineFacts
<1>5. PICK map : map = WithVariable(device.requestHeaders, VariableName(HeaderLines[j + 1][1]), HeaderLines[j + 1][2])
  OBVIOUS
<1>6. PICK k : k = j + 1
  OBVIOUS
<1>7. k \in 0..Len(HeaderLines) /\ j \in Nat
  BY <1>2, <1>6
<1>8. AreRead(map, uri, k)
  BY <1>2, <1>5, <1>6, <1>7, NextRead
<1>9. /\ device' = [device EXCEPT !.requestHeaders = map]
      /\ socket' = [socket EXCEPT !.in = in]
  BY <1>2, <1>3, <1>5 DEF ReadHeaderLine
<1> QED  BY <1>2, <1>3, <1>4, <1>6, <1>7, <1>8, <1>9

LEMMA BlankLineEffect ==
  ASSUME HttpTypeOK, Framing, ReadBlankLine
  PROVE  /\ AfterLine \in Seq(Pieces) /\ AfterLine \o wire = Body
         /\ \E uri \in Uris : AreRead(device.requestHeaders, uri, Len(HeaderLines))
<1>1. CanReadLine /\ device.requestState = "headers" /\ Line = <<>>
  BY DEF ReadBlankLine
<1>2. PICK uri \in Uris, k \in 0..Len(HeaderLines) :
        AreRead(device.requestHeaders, uri, k) /\ k = Len(HeaderLines) /\ AfterLine \o wire = Body
  BY <1>1, HeaderRest
<1>3. AfterLine \in Seq(Pieces)
  BY <1>1, LineFacts
<1> QED  BY <1>2, <1>3

-----------------------------------------------------------------------------
(* The headers of the response, and its way to the browser. *)

LEMMA PushStatus ==
  ASSUME NEW headers \in Seq(Headers), OneStatus(headers), NEW header \in Headers, header[1] # "STATUS"
  PROVE  Inserted(headers, header) \in Seq(Headers) /\ OneStatus(Inserted(headers, header))
<1>1. PICK new : new = Inserted(headers, header)
  OBVIOUS
<1>2. PICK m \in Nat : m = Len(headers)
  OBVIOUS
<1>3. /\ new \in Seq(Headers) /\ Len(new) = m + 1
      /\ \A i \in 1..(m + 1) : new[i] = IF i = 1 THEN header ELSE headers[i - 1]
  BY <1>1, <1>2, PushType DEF Inserted
<1>4. PICK k \in 1..m : \A n \in 1..m : headers[n][1] = "STATUS" <=> n = k
  BY <1>2 DEF OneStatus
<1>5. PICK l : l = k + 1
  OBVIOUS
<1>6. \A n \in 1..(m + 1) : new[n][1] = "STATUS" <=> n = l
  <2> SUFFICES ASSUME NEW n \in 1..(m + 1)  PROVE new[n][1] = "STATUS" <=> n = l
    OBVIOUS
  <2>1. CASE n = 1
    <3>1. n # l
      BY <1>5, <2>1
    <3> QED  BY <1>3, <2>1, <3>1
  <2>2. CASE n # 1
    <3>1. n - 1 \in 1..m /\ (n - 1 = k <=> n = l)
      BY <1>5, <2>2
    <3>2. new[n] = headers[n - 1]
      BY <1>3, <2>2
    <3> QED  BY <1>4, <3>1, <3>2
  <2> QED  BY <2>1, <2>2
<1>7. l \in 1..(m + 1)
  BY <1>5
<1>8. l \in 1..Len(new) /\ \A n \in 1..Len(new) : new[n][1] = "STATUS" <=> n = l
  BY <1>3, <1>6, <1>7
<1>9. OneStatus(new)
  BY ONLY <1>8 DEF OneStatus
<1> QED  BY <1>1, <1>3, <1>9

LEMMA ReplaceStatus ==
  ASSUME NEW headers \in Seq(Headers), OneStatus(headers), NEW header \in Headers
  PROVE  WithHeader(headers, header) \in Seq(Headers) /\ OneStatus(WithHeader(headers, header))
<1>1. PICK p, name : name = header[1] /\ p = Found(headers, name)
  OBVIOUS
<1>2. PICK k \in 1..Len(headers) : \A n \in 1..Len(headers) : headers[n][1] = "STATUS" <=> n = k
  BY DEF OneStatus
<1>3. CASE p = 0
  <2>1. \A i \in 1..Len(headers) : headers[i][1] # name
    <3>1. p \notin 1..Len(headers)
      BY <1>3
    <3>2. \/ \A i \in 1..Len(headers) : headers[i][1] # name
          \/ Found(headers, name) \in 1..Len(headers)
      BY FoundCorrect
    <3> QED  BY <1>1, <3>1, <3>2
  <2>2. header[1] # "STATUS"
    BY <1>1, <1>2, <2>1
  <2>3. WithHeader(headers, header) = Inserted(headers, header)
    BY <1>1, <1>3 DEF WithHeader
  <2> QED  BY <2>2, <2>3, PushStatus
<1>4. CASE p # 0
  <2>1. p \in 1..Len(headers) /\ headers[p][1] = header[1]
    <3>1. \/ Found(headers, name) = 0
          \/ Found(headers, name) \in 1..Len(headers) /\ headers[Found(headers, name)][1] = name
      BY FoundCorrect
    <3> QED  BY <1>1, <1>4, <3>1
  <2>2. PICK new : new = [headers EXCEPT ![p] = header]
    OBVIOUS
  <2>3. /\ new \in Seq(Headers) /\ Len(new) = Len(headers)
        /\ \A j \in 1..Len(headers) : new[j] = IF j = p THEN header ELSE headers[j]
    BY <2>1, <2>2, ExceptSeq
  <2>4. \A n \in 1..Len(headers) : new[n][1] = "STATUS" <=> n = k
    BY <1>2, <2>1, <2>3
  <2>5. OneStatus(new)
    BY <2>3, <2>4 DEF OneStatus
  <2>6. WithHeader(headers, header) = new
    BY <1>1, <1>4, <2>2 DEF WithHeader
  <2> QED  BY <2>3, <2>5, <2>6
<1> QED  BY <1>3, <1>4

LEMMA HeaderEffect ==
  ASSUME HttpTypeOK, Written, NEW header \in HeaderCalls, SetHeader(header) \/ AddHeader(header)
  PROVE  \E headers \in Seq(Headers) : ChangeHeaders(headers) /\ OneStatus(headers)
<1>1. PICK old \in Seq(Headers) : old = request.responseHeaders
  BY Records
<1>2. OneStatus(old) /\ header \in Headers
  BY <1>1, HeaderTypes DEF Written
<1>3. CASE SetHeader(header)
  <2>1. ChangeHeaders(WithHeader(old, header))
    BY <1>1, <1>3 DEF SetHeader
  <2>2. WithHeader(old, header) \in Seq(Headers) /\ OneStatus(WithHeader(old, header))
    BY <1>2, ReplaceStatus
  <2> QED  BY <2>1, <2>2
<1>4. CASE AddHeader(header)
  <2>1. header[1] # "STATUS" /\ ChangeHeaders(Inserted(old, header))
    BY <1>1, <1>4 DEF AddHeader
  <2>2. Inserted(old, header) \in Seq(Headers) /\ OneStatus(Inserted(old, header))
    BY <1>2, <2>1, PushStatus
  <2> QED  BY <2>1, <2>2
<1> QED  BY <1>3, <1>4

LEMMA HttpStep ==
  ASSUME HttpTypeOK, Written, HttpNext
  PROVE  \/ \E n \in 1..Len(wire) : Arrive(n)
         \/ Transmit \/ Disconnect \/ CheckTimeout \/ ReadRequestLine \/ ReadHeaderLine \/ ReadBlankLine \/ ReadNothing
         \/ RunSlot \/ (LoadPostVariables \/ PollPostVariables \/ Adopt) \/ Finish \/ Write \/ DeleteLater \/ DeleteFlusher
         \/ UNCHANGED vars
         \/ \E headers \in Seq(Headers) : ChangeHeaders(headers) /\ OneStatus(headers)
<1>1. ASSUME \E header \in HeaderCalls : SetHeader(header) \/ AddHeader(header)
      PROVE  \E headers \in Seq(Headers) : ChangeHeaders(headers) /\ OneStatus(headers)
  BY <1>1, HeaderEffect
<1> QED  BY <1>1, Zenon DEF HttpNext, Receive, Read, Slot, Terminated

\* The head of one sequence at the end of another.
LEMMA Passed ==
  ASSUME NEW S, NEW s \in Seq(S), NEW t \in Seq(S), t # <<>>
  PROVE  Append(s, Head(t)) \in Seq(S) /\ Tail(t) \in Seq(S) /\ Append(s, Head(t)) \o Tail(t) = s \o t
<1>1. PICK h \in S : h = Head(t)
  BY TailType
<1>2. PICK rest \in Seq(S) : rest = Tail(t)
  BY TailType
<1>3. /\ h = t[1] /\ Len(rest) = Len(t) - 1 /\ Len(t) \in Nat /\ Len(t) > 0
      /\ \A i \in 1..(Len(t) - 1) : rest[i] = t[i + 1]
  BY <1>1, <1>2, TailType
<1>4. PICK first \in Seq(S) : first = <<h>>
  BY Singleton
<1>5. first \o rest = t
  <2>1. PICK n \in Nat : n = Len(t)
    OBVIOUS
  <2>2. PICK both : both = first \o rest
    OBVIOUS
  <2>3. /\ both \in Seq(S) /\ Len(both) = n
        /\ \A i \in 1..n : both[i] = IF i = 1 THEN h ELSE rest[i - 1]
    <3>1. /\ both \in Seq(S) /\ Len(both) = Len(rest) + 1
          /\ \A i \in 1..(Len(rest) + 1) : both[i] = IF i = 1 THEN h ELSE rest[i - 1]
      BY <1>4, <2>2, PushType
    <3>2. Len(rest) + 1 = n
      BY <1>3, <2>1
    <3> QED  BY <3>1, <3>2
  <2>4. \A i \in 1..n : both[i] = t[i]
    <3> SUFFICES ASSUME NEW i \in 1..n  PROVE both[i] = t[i]
      OBVIOUS
    <3>1. CASE i = 1
      BY <1>3, <2>3, <3>1
    <3>2. CASE i # 1
      <4>1. i - 1 \in 1..(n - 1) /\ (i - 1) + 1 = i
        BY <2>1, <3>2
      <4> QED  BY <1>3, <2>1, <2>3, <3>2, <4>1
    <3> QED  BY <3>1, <3>2
  <2>5. both = t
    BY ONLY <2>1, <2>3, <2>4, t \in Seq(S), SeqEqual
  <2> QED  BY <2>2, <2>5
<1>6. Append(s, h) = s \o first /\ Append(s, h) \in Seq(S)
  BY <1>4, AppendIsConcat, AppendProperties
<1>7. (s \o first) \o rest = s \o (first \o rest)
  BY ConcatAssociative, SMTT(30)
<1> QED  BY <1>1, <1>2, <1>5, <1>6, <1>7

LEMMA TransmitEffect ==
  ASSUME HttpTypeOK, Transmit
  PROVE  /\ socket.out # <<>> /\ socket.alive
         /\ \E out \in Seq(Sent), received \in Seq(Sent) :
              /\ socket' = [socket EXCEPT !.out = out, !.received = received] /\ received \o out = Answer
<1>1. PICK out, received \in Seq(Sent) : out = socket.out /\ received = socket.received
  BY Records
<1>2. out # <<>> /\ socket' = [socket EXCEPT !.out = Tail(out), !.received = Append(received, Head(out))] /\ socket.alive
  BY <1>1 DEF Transmit
<1>3. /\ Append(received, Head(out)) \in Seq(Sent) /\ Tail(out) \in Seq(Sent)
      /\ Append(received, Head(out)) \o Tail(out) = received \o out
  BY <1>2, Passed
<1> QED  BY <1>1, <1>2, <1>3 DEF Answer

-----------------------------------------------------------------------------
(* Types. *)

Devices(v) ==
  [requestState : {"request", "headers", "body"}, requestHeaders : {v},
   responseState : {"headers", "body"}, responseHeaders : Seq(Headers),
   headerBuffer : Seq({NewLine} \union Headers), headerBufferPosition : Nat, life : {"alive", "doomed", "deleted"}]
Requests(v) ==
  [phase : Phases, postDataMode : {"unknown", "values", "raw"}, serverData : {v}, data : Seq(Pieces),
   responseHeaders : Seq(Headers), haveSentHeaders : BOOLEAN, writes : 0..MaxWrites]
Sockets == [in : Seq(Pieces), out : Seq(Sent), received : Seq(Sent), alive : BOOLEAN]

\* The types of the state before a step, ...
LEMMA TypesBefore ==
  ASSUME HttpTypeOK
  PROVE  /\ device \in Devices(device.requestHeaders) /\ IsDevice(device)
         /\ request \in Requests(request.serverData) /\ request.serverData \in {NoVariables, device.requestHeaders}
         /\ socket \in Sockets /\ mode \in Modes /\ wire \in Seq(Pieces) /\ gone \in BOOLEAN
         /\ control \in {"loop", "read", "slot"} /\ timer \in BOOLEAN /\ flusher \in {"none", "waiting", "doomed", "deleted"}
BY DEF HttpTypeOK, IsDevice, IsRequest, Devices, Requests, Sockets, Phases

\* ... and after it.
LEMMA TypesAfter ==
  ASSUME IsDevice(device'), NEW v, request' \in Requests(v), v \in {NoVariables, device'.requestHeaders},
         socket' \in Sockets, mode' \in Modes, wire' \in Seq(Pieces), gone' \in BOOLEAN,
         control' \in {"loop", "read", "slot"}, timer' \in BOOLEAN, flusher' \in {"none", "waiting", "doomed", "deleted"},
         Endings'
  PROVE  HttpTypeOK'
<1>1. request'.serverData = v
  BY DEF Requests
<1>2. IsRequest(request)'
  BY <1>1 DEF IsRequest, Requests, Phases
<1>3. IsDevice(device)'
  BY DEF IsDevice
<1> QED  BY <1>2, <1>3 DEF HttpTypeOK, Sockets, Endings

\* Other fields of the HttpRequest, the same lines of the response.
LEMMA SameBuffer ==
  ASSUME IsDevice(device), NEW map, IsVariables(map), NEW state \in {"request", "headers", "body"},
         NEW life \in {"alive", "doomed", "deleted"}
  PROVE  IsDevice([device EXCEPT !.requestHeaders = map, !.requestState = state, !.life = life])
BY DEF IsDevice

LEMMA FileAnswerType == FileAnswer \in Seq(Sent)
<1>1. PICK length, status \in Headers : length = <<"LENGTH", "n">> /\ status = <<"STATUS", "200 OK">>
  <2>1. 1 \in 1..Len(FileHeaders) /\ 2 \in 1..Len(FileHeaders)
    <3>1. PICK n : n = Len(FileHeaders)
      OBVIOUS
    <3>2. n = 2
      BY <3>1, HeaderTypes
    <3> QED  BY <3>1, <3>2
  <2>2. FileHeaders[1] \in Headers /\ FileHeaders[2] \in Headers
    BY <2>1, HeaderTypes, ElementOfSeq
  <2> QED  BY <2>2, HeaderTypes
<1>2. PICK a \in Sent : a = <<"status", "200 OK">>
  <2>1. status[2] = "200 OK"
    BY <1>1
  <2>2. <<"status", status[2]>> \in Sent
    BY DEF Sent
  <2> QED  BY <2>1, <2>2
<1>3. PICK b \in Sent : b = <<"header", <<"LENGTH", "n">>>>
  <2>1. <<"header", length>> \in Sent
    BY DEF Sent
  <2> QED  BY <1>1, <2>1
<1>4. PICK c \in Sent : c = <<"blank", 0>>
  BY DEF Sent
<1>5. PICK d \in Sent : d = <<"data", 0>>
  <2>1. 0 \in 0..MaxWrites
    BY HttpAssumption
  <2> QED  BY <2>1 DEF Sent
<1>6. <<a, b, c, d>> \in Seq(Sent)
  OBVIOUS
<1> QED  BY <1>2, <1>3, <1>4, <1>5, <1>6 DEF FileAnswer

LEMMA TypeNext == ASSUME IInv, [HttpNext]_vars  PROVE HttpTypeOK'
<1>0. HttpTypeOK /\ Stages /\ Endings /\ Framing /\ Written
  BY DEF IInv
<1>1. Endings'
  BY <1>0, EndingsNext
<1>2. /\ device \in Devices(device.requestHeaders) /\ IsDevice(device)
      /\ request \in Requests(request.serverData) /\ request.serverData \in {NoVariables, device.requestHeaders}
      /\ socket \in Sockets /\ mode \in Modes /\ wire \in Seq(Pieces) /\ gone \in BOOLEAN
      /\ control \in {"loop", "read", "slot"} /\ timer \in BOOLEAN /\ flusher \in {"none", "waiting", "doomed", "deleted"}
  BY <1>0, TypesBefore
<1>3. IsVariables(device.requestHeaders) /\ device.requestState \in {"request", "headers", "body"}
      /\ device.life \in {"alive", "doomed", "deleted"}
  BY <1>2 DEF IsDevice
<1>4. CASE Moves
  <2>1. PICK data, in \in Seq(Pieces), phase \in Phases, postDataMode \in {"unknown", "values", "raw"} :
          /\ request' = [request EXCEPT !.data = data, !.phase = phase, !.postDataMode = postDataMode]
          /\ socket' = [socket EXCEPT !.in = in]
    BY <1>4 DEF Moves
  <2>2. request' \in Requests(request.serverData) /\ socket' \in Sockets
    BY <1>2, <2>1 DEF Requests, Sockets
  <2>3. /\ wire' \in Seq(Pieces) /\ mode' = mode /\ device' = device /\ flusher' = flusher /\ gone' = gone
        /\ control' \in {"loop", "read", "slot"} /\ timer' \in BOOLEAN
    BY <1>4 DEF Moves
  <2> QED  BY <1>1, <1>2, <2>2, <2>3, TypesAfter
<1>5. CASE Transmit
  <2>1. PICK out \in Seq(Sent), received \in Seq(Sent) : socket' = [socket EXCEPT !.out = out, !.received = received]
    BY <1>0, <1>5, TransmitEffect
  <2>2. socket' \in Sockets
    BY <1>2, <2>1 DEF Sockets
  <2>3. /\ wire' = wire /\ mode' = mode /\ device' = device /\ gone' = gone /\ control' = control /\ timer' = timer
        /\ request' = request /\ flusher' \in {"none", "waiting", "doomed", "deleted"}
    BY <1>2, <1>5 DEF Transmit
  <2> QED  BY <1>1, <1>2, <2>2, <2>3, TypesAfter
<1>6. CASE Disconnect
  <2>1. /\ wire' = wire /\ mode' = mode /\ device' = device /\ gone' \in BOOLEAN /\ control' = control /\ timer' = timer
        /\ request' = request /\ flusher' = flusher /\ socket' = socket
    BY <1>6 DEF Disconnect
  <2> QED  BY <1>1, <1>2, <2>1, TypesAfter
<1>7. CASE ReadRequestLine
  <2>1. PICK uri \in Uris, in \in Seq(Pieces) : \E map :
           /\ device' = [device EXCEPT !.requestHeaders = map, !.requestState = "headers"]
           /\ socket' = [socket EXCEPT !.in = in] /\ AreRead(map, uri, 0)
    BY <1>0, <1>7, RequestLineEffect
  <2>2. PICK map : /\ device' = [device EXCEPT !.requestHeaders = map, !.requestState = "headers"]
                   /\ socket' = [socket EXCEPT !.in = in] /\ IsVariables(map)
    BY <2>1 DEF AreRead
  <2>3. device' = [device EXCEPT !.requestHeaders = map, !.requestState = "headers", !.life = device.life]
    BY <1>2, <2>2 DEF Devices
  <2>4. IsDevice(device') /\ socket' \in Sockets
    <3>1. IsDevice(device')
      <4>1. PICK state, life : /\ state \in {"request", "headers", "body"} /\ life \in {"alive", "doomed", "deleted"}
                               /\ device' = [device EXCEPT !.requestHeaders = map, !.requestState = state, !.life = life]
        BY <1>3, <2>3
      <4>2. IsDevice(device) /\ IsVariables(map)
        BY <1>2, <2>2
      <4>3. IsDevice([device EXCEPT !.requestHeaders = map, !.requestState = state, !.life = life])
        BY ONLY <4>1, <4>2, SameBuffer
      <4> QED  BY <4>1, <4>3
    <3>2. socket' \in Sockets
      BY <1>2, <2>2 DEF Sockets
    <3> QED  BY <3>1, <3>2
  <2>5. request.serverData = NoVariables
    BY <1>0, <1>7 DEF Stages, ReadRequestLine
  <2>6. /\ wire' = wire /\ mode' = mode /\ gone' = gone /\ control' = control /\ timer' = timer
        /\ request' = request /\ flusher' = flusher
    BY <1>7 DEF ReadRequestLine
  <2> QED  BY <1>1, <1>2, <2>4, <2>5, <2>6, TypesAfter
<1>8. CASE ReadHeaderLine
  <2>1. PICK uri \in Uris, k \in 0..Len(HeaderLines), in \in Seq(Pieces) : \E map :
           /\ device' = [device EXCEPT !.requestHeaders = map]
           /\ socket' = [socket EXCEPT !.in = in] /\ AreRead(map, uri, k)
    BY <1>0, <1>8, HeaderLineEffect
  <2>2. PICK map : /\ device' = [device EXCEPT !.requestHeaders = map]
                   /\ socket' = [socket EXCEPT !.in = in] /\ IsVariables(map)
    BY <2>1 DEF AreRead
  <2>3. device' = [device EXCEPT !.requestHeaders = map, !.requestState = device.requestState, !.life = device.life]
    BY <1>2, <2>2 DEF Devices
  <2>4. IsDevice(device') /\ socket' \in Sockets
    <3>1. IsDevice(device')
      <4>1. PICK state, life : /\ state \in {"request", "headers", "body"} /\ life \in {"alive", "doomed", "deleted"}
                               /\ device' = [device EXCEPT !.requestHeaders = map, !.requestState = state, !.life = life]
        BY <1>3, <2>3
      <4>2. IsDevice(device) /\ IsVariables(map)
        BY <1>2, <2>2
      <4>3. IsDevice([device EXCEPT !.requestHeaders = map, !.requestState = state, !.life = life])
        BY ONLY <4>1, <4>2, SameBuffer
      <4> QED  BY <4>1, <4>3
    <3>2. socket' \in Sockets
      BY <1>2, <2>2 DEF Sockets
    <3> QED  BY <3>1, <3>2
  <2>5. request.serverData = NoVariables
    BY <1>0, <1>8 DEF Stages, ReadHeaderLine
  <2>6. /\ wire' = wire /\ mode' = mode /\ gone' = gone /\ control' = control /\ timer' = timer
        /\ request' = request /\ flusher' = flusher
    BY <1>8 DEF ReadHeaderLine
  <2> QED  BY <1>1, <1>2, <2>4, <2>5, <2>6, TypesAfter
<1>9. CASE ReadBlankLine
  <2>1. AfterLine \in Seq(Pieces)
    BY <1>0, <1>9, BlankLineEffect
  <2>2. wire' = wire /\ mode' = mode /\ gone' = gone /\ timer' \in BOOLEAN
    BY <1>9 DEF ReadBlankLine, SingleShot
  <2>3. request.serverData = NoVariables
    BY <1>0, <1>9 DEF Stages, ReadBlankLine
  <2>4. CASE ServeFile
    <3>1. IsDevice(device') /\ socket' = [socket EXCEPT !.in = AfterLine, !.out = FileAnswer]
      BY <1>0, <1>9, <2>4, ServeEffect
    <3>2. FileAnswer \in Seq(Sent)
      BY FileAnswerType
    <3>3. socket' \in Sockets
      BY <1>2, <2>1, <3>1, <3>2 DEF Sockets
    <3>4. request' = request /\ flusher' = flusher /\ control' = "loop"
      BY <2>4 DEF ServeFile
    <3> QED  BY <1>1, <1>2, <2>2, <2>3, <3>1, <3>3, <3>4, TypesAfter
  <2>5. CASE Announce
    <3>1. device' = [device EXCEPT !.requestHeaders = device.requestHeaders, !.requestState = "body", !.life = device.life]
      BY <1>2, <2>5 DEF Announce, Devices
    <3>2. IsDevice(device') /\ device'.requestHeaders = device.requestHeaders
      BY <1>2, <1>3, <3>1, SameBuffer DEF Devices
    <3>3. socket' \in Sockets
      BY <1>2, <2>1, <2>5 DEF Announce, Sockets
    <3>4. request' \in Requests(device.requestHeaders)
      BY <1>2, <2>5 DEF Announce, Requests, Phases
    <3>5. flusher' = flusher /\ control' \in {"slot", "loop"}
      BY <2>5 DEF Announce
    <3> QED  BY <1>1, <1>2, <2>2, <3>2, <3>3, <3>4, <3>5, TypesAfter
  <2>6. CASE Ignore
    <3>1. device' = [device EXCEPT !.requestHeaders = device.requestHeaders, !.requestState = "body", !.life = "deleted"]
      BY <1>2, <2>6 DEF Ignore, Devices
    <3>2. IsDevice(device')
      BY <1>2, <1>3, <3>1, SameBuffer
    <3>3. socket' \in Sockets
      BY <1>2, <2>1, <2>6 DEF Ignore, Sockets
    <3>4. request' \in Requests(NoVariables)
      BY <1>2, <2>3, <2>6 DEF Ignore, Requests, Phases
    <3>5. flusher' \in {"doomed", "waiting"} /\ control' = "loop"
      BY <2>6 DEF Ignore
    <3> QED  BY <1>1, <1>2, <2>2, <3>2, <3>3, <3>4, <3>5, TypesAfter
  <2> QED  BY <1>9, <2>4, <2>5, <2>6 DEF ReadBlankLine
<1>10. CASE ReadNothing
  <2>1. /\ wire' = wire /\ mode' = mode /\ device' = device /\ gone' = gone /\ control' = "loop" /\ timer' = timer
        /\ request' = request /\ flusher' = flusher /\ socket' = socket
    BY <1>10 DEF ReadNothing
  <2> QED  BY <1>1, <1>2, <2>1, TypesAfter
<1>11. CASE RunSlot
  <2>1. /\ wire' = wire /\ mode' = mode /\ device' = device /\ gone' = gone /\ control' = "slot" /\ timer' = timer
        /\ flusher' = flusher /\ socket' = socket
    BY <1>11 DEF RunSlot
  <2>2. request' \in Requests(request.serverData)
    BY <1>2, <1>11 DEF RunSlot, Requests, Phases
  <2> QED  BY <1>1, <1>2, <2>1, <2>2, TypesAfter
<1>12. CASE Finish
  <2>1. device' = [device EXCEPT !.requestHeaders = device.requestHeaders, !.requestState = device.requestState, !.life = "deleted"]
    BY <1>2, <1>12 DEF Finish, DestroyDevice, Devices
  <2>2. IsDevice(device') /\ device'.requestHeaders = device.requestHeaders
    BY <1>2, <1>3, <2>1, SameBuffer DEF Devices
  <2>3. /\ wire' = wire /\ mode' = mode /\ gone' = gone /\ control' = "loop" /\ timer' = timer
        /\ flusher' \in {"doomed", "waiting"} /\ socket' = socket
    BY <1>12 DEF Finish, DestroyDevice
  <2>4. request' \in Requests(request.serverData)
    BY <1>2, <1>12 DEF Finish, Requests, Phases
  <2> QED  BY <1>1, <1>2, <2>2, <2>3, <2>4, TypesAfter
<1>13. CASE Write
  <2>1. /\ IsDevice(device') /\ device'.requestHeaders = device.requestHeaders
        /\ request.writes + 1 \in 0..MaxWrites
    BY <1>0, <1>13, WriteEffect
  <2>2. PICK out \in Seq(Sent) : socket' = [socket EXCEPT !.out = out]
    BY <1>0, <1>13, WriteEffect
  <2>3. socket' \in Sockets
    BY <1>2, <2>2 DEF Sockets
  <2>4. request' \in Requests(request.serverData)
    BY <1>2, <1>13, <2>1 DEF Write, Requests
  <2>5. wire' = wire /\ mode' = mode /\ gone' = gone /\ control' = control /\ timer' = timer /\ flusher' = flusher
    BY <1>13 DEF Write
  <2> QED  BY <1>1, <1>2, <2>1, <2>3, <2>4, <2>5, TypesAfter
<1>14. CASE DeleteLater
  <2>1. device' = [device EXCEPT !.requestHeaders = device.requestHeaders, !.requestState = device.requestState, !.life = "deleted"]
    BY <1>2, <1>14 DEF DeleteLater, DestroyDevice, Devices
  <2>2. IsDevice(device') /\ device'.requestHeaders = device.requestHeaders
    BY <1>2, <1>3, <2>1, SameBuffer DEF Devices
  <2>3. /\ wire' = wire /\ mode' = mode /\ gone' = gone /\ control' = control /\ timer' = timer
        /\ flusher' \in {"doomed", "waiting"} /\ socket' = socket /\ request' = request
    BY <1>14 DEF DeleteLater, DestroyDevice
  <2> QED  BY <1>1, <1>2, <2>2, <2>3, TypesAfter
<1>15. CASE DeleteFlusher
  <2>1. /\ wire' = wire /\ mode' = mode /\ device' = device /\ gone' = gone /\ control' = control /\ timer' = timer
        /\ request' = request /\ flusher' = "deleted"
    BY <1>15 DEF DeleteFlusher
  <2>2. socket' \in Sockets
    BY <1>2, <1>15 DEF DeleteFlusher, Sockets
  <2> QED  BY <1>1, <1>2, <2>1, <2>2, TypesAfter
<1>16. CASE UNCHANGED vars
  BY <1>1, <1>2, <1>16, TypesAfter DEF vars
<1>17. ASSUME NEW headers \in Seq(Headers), ChangeHeaders(headers)  PROVE HttpTypeOK'
  <2>1. /\ wire' = wire /\ mode' = mode /\ device' = device /\ gone' = gone /\ control' = control /\ timer' = timer
        /\ flusher' = flusher /\ socket' = socket
    BY <1>17 DEF ChangeHeaders
  <2>2. request' \in Requests(request.serverData)
    BY <1>2, <1>17 DEF ChangeHeaders, Requests
  <2> QED  BY <1>1, <1>2, <2>1, <2>2, TypesAfter
<1>18. ASSUME \/ \E n \in 1..Len(wire) : Arrive(n)
              \/ CheckTimeout \/ (LoadPostVariables \/ PollPostVariables \/ Adopt)
       PROVE  Moves
  BY <1>0, <1>18, ArriveMoves, TimeoutMoves, PostMoves
<1> QED  BY <1>0, <1>4, <1>5, <1>6, <1>7, <1>8, <1>9, <1>10, <1>11, <1>12, <1>13, <1>14, <1>15,
            <1>16, <1>17, <1>18, HttpStep DEF vars

-----------------------------------------------------------------------------
(* Framing. *)

LEMMA FramingSame ==
  ASSUME Framing, device'.requestState = device.requestState, device'.requestHeaders = device.requestHeaders,
         Unread' = Unread, request'.data = request.data
  PROVE  Framing'
<1>1. PICK state, map, text, data : state = device.requestState /\ map = device.requestHeaders /\ text = Unread /\ data = request.data
  OBVIOUS
<1>2. state = device'.requestState /\ map = device'.requestHeaders /\ text = Unread' /\ data = request'.data
  BY <1>1
<1>3. /\ state = "request" =>
           /\ map = NoVariables
           /\ \E uri \in Uris : /\ Len(text) > 2 /\ text[1] = RequestLine(uri) /\ text[2] = NewLine
                                /\ IsRest(SubSeq(text, 3, Len(text)), 0)
      /\ state = "headers" => \E uri \in Uris, k \in 0..Len(HeaderLines) : IsRest(text, k) /\ AreRead(map, uri, k)
      /\ state = "body" => data \o text = Body /\ \E uri \in Uris : AreRead(map, uri, Len(HeaderLines))
  BY <1>1 DEF Framing
<1> QED  BY <1>2, <1>3 DEF Framing

LEMMA FramingMoves == ASSUME HttpTypeOK, Stages, Framing, Stages', HttpTypeOK', Moves  PROVE Framing'
<1>1. PICK data, in \in Seq(Pieces) :
        request'.data = data /\ socket'.in = in /\ data \o (in \o wire') = All /\ device' = device
  <2>1. PICK data, in \in Seq(Pieces), phase \in Phases, postDataMode \in {"unknown", "values", "raw"} :
          /\ request' = [request EXCEPT !.data = data, !.phase = phase, !.postDataMode = postDataMode]
          /\ socket' = [socket EXCEPT !.in = in]
          /\ data \o (in \o wire') = All
    BY DEF Moves
  <2>2. request'.data = data /\ socket'.in = in
    BY <2>1, TypesBefore DEF Requests, Sockets
  <2> QED  BY <2>1, <2>2 DEF Moves
<1>2. request'.data \o Unread' = request.data \o Unread
  BY <1>1 DEF All, Unread
<1>3. CASE device.requestState = "body"
  <2>1. request.data \o Unread = Body /\ \E uri \in Uris : AreRead(device.requestHeaders, uri, Len(HeaderLines))
    BY <1>3 DEF Framing
  <2> QED  BY <1>1, <1>2, <1>3, <2>1 DEF Framing
<1>4. CASE device.requestState # "body"
  <2>1. request.data = <<>> /\ request'.data = <<>>
    BY <1>1, <1>4 DEF Stages
  <2>2. PICK a, b \in Seq(Pieces) : a = socket.in /\ b = wire
    BY TypesBefore DEF Sockets
  <2>3. <<>> \o (a \o b) = a \o b
    <3>1. a \o b \in Seq(Pieces)
      BY ConcatProperties
    <3> QED  BY <3>1, ConcatEmptySeq
  <2>4. PICK c, d \in Seq(Pieces) : c = socket'.in /\ d = wire'
    <3>1. wire' \in Seq(Pieces)
      BY DEF HttpTypeOK
    <3> QED  BY <1>1, <3>1
  <2>5. <<>> \o (c \o d) = c \o d
    <3>1. c \o d \in Seq(Pieces)
      BY ConcatProperties
    <3> QED  BY <3>1, ConcatEmptySeq
  <2>6. Unread' = Unread
    BY <1>2, <2>1, <2>2, <2>3, <2>4, <2>5 DEF Unread
  <2> QED  BY <1>1, <2>1, <2>6, FramingSame
<1> QED  BY <1>3, <1>4

LEMMA FramingNext == ASSUME IInv, [HttpNext]_vars  PROVE Framing'
<1>0. HttpTypeOK /\ Stages /\ Endings /\ Framing /\ Written
  BY DEF IInv
<1>1. HttpTypeOK' /\ Stages'
  BY <1>0, TypeNext, StagesNext
<1>2. /\ device \in Devices(device.requestHeaders) /\ request \in Requests(request.serverData) /\ socket \in Sockets
  BY <1>0, TypesBefore
<1>3. CASE Moves
  BY <1>0, <1>1, <1>3, FramingMoves
<1>4. CASE Transmit
  <2>1. socket'.in = socket.in /\ wire' = wire /\ request' = request /\ device' = device
    BY <1>2, <1>4 DEF Transmit, Sockets
  <2> QED  BY <1>0, <2>1, FramingSame DEF Unread
<1>5. CASE Disconnect
  <2>1. socket'.in = socket.in /\ wire' = wire /\ request' = request /\ device' = device
    BY <1>5 DEF Disconnect
  <2> QED  BY <1>0, <2>1, FramingSame DEF Unread
<1>6. CASE ReadRequestLine
  <2>1. PICK uri \in Uris, in \in Seq(Pieces) : \E map :
          /\ device' = [device EXCEPT !.requestHeaders = map, !.requestState = "headers"]
          /\ socket' = [socket EXCEPT !.in = in]
          /\ AreRead(map, uri, 0) /\ IsRest(in \o wire, 0)
    BY <1>0, <1>6, RequestLineEffect
  <2>2. PICK map : /\ device' = [device EXCEPT !.requestHeaders = map, !.requestState = "headers"]
                   /\ socket' = [socket EXCEPT !.in = in]
                   /\ AreRead(map, uri, 0) /\ IsRest(in \o wire, 0)
    BY <2>1
  <2>3. device'.requestState = "headers" /\ device'.requestHeaders = map /\ socket'.in = in
    BY <1>2, <2>2 DEF Devices, Sockets
  <2>4. Unread' = in \o wire
    BY <1>6, <2>3 DEF ReadRequestLine, Unread
  <2>5. 0 \in 0..Len(HeaderLines)
    BY PieceTypes
  <2> QED  BY <2>2, <2>3, <2>4, <2>5 DEF Framing
<1>7. CASE ReadHeaderLine
  <2>1. PICK uri \in Uris, k \in 0..Len(HeaderLines), in \in Seq(Pieces) : \E map :
          /\ device' = [device EXCEPT !.requestHeaders = map]
          /\ socket' = [socket EXCEPT !.in = in]
          /\ AreRead(map, uri, k) /\ IsRest(in \o wire, k)
    BY <1>0, <1>7, HeaderLineEffect
  <2>2. PICK map : /\ device' = [device EXCEPT !.requestHeaders = map]
                   /\ socket' = [socket EXCEPT !.in = in]
                   /\ AreRead(map, uri, k) /\ IsRest(in \o wire, k)
    BY <2>1
  <2>3. device'.requestState = "headers" /\ device'.requestHeaders = map /\ socket'.in = in
    BY <1>2, <1>7, <2>2 DEF Devices, Sockets, ReadHeaderLine
  <2>4. Unread' = in \o wire
    BY <1>7, <2>3 DEF ReadHeaderLine, Unread
  <2> QED  BY <2>2, <2>3, <2>4 DEF Framing
<1>8. CASE ReadBlankLine
  <2>1. PICK in : in = AfterLine
    OBVIOUS
  <2>2. in \in Seq(Pieces) /\ in \o wire = Body /\ \E uri \in Uris : AreRead(device.requestHeaders, uri, Len(HeaderLines))
    BY <1>0, <1>8, <2>1, BlankLineEffect
  <2>3. socket'.in = in /\ device'.requestState = "body" /\ device'.requestHeaders = device.requestHeaders
        /\ request'.data = request.data
    <3>1. CASE ServeFile
      BY <1>0, <1>2, <1>8, <2>1, <3>1, ServeEffect DEF ServeFile, Sockets
    <3>2. CASE Announce
      BY <1>2, <2>1, <3>2 DEF Announce, Sockets, Devices, Requests
    <3>3. CASE Ignore
      BY <1>2, <2>1, <3>3 DEF Ignore, Sockets, Devices, Requests
    <3> QED  BY <1>8, <3>1, <3>2, <3>3 DEF ReadBlankLine
  <2>4. Unread' = Body
    BY <1>8, <2>2, <2>3 DEF ReadBlankLine, Unread
  <2>5. request.data = <<>>
    BY <1>0, <1>8 DEF Stages, ReadBlankLine
  <2>6. request'.data \o Unread' = Body
    <3>1. <<>> \o Body = Body
      BY PieceTypes, ConcatEmptySeq
    <3> QED  BY <2>3, <2>4, <2>5, <3>1
  <2> QED  BY <2>2, <2>3, <2>6 DEF Framing
<1>9. CASE ReadNothing \/ RunSlot
  <2>1. socket' = socket /\ wire' = wire /\ request'.data = request.data /\ device' = device
    BY <1>2, <1>9 DEF ReadNothing, RunSlot, Requests
  <2> QED  BY <1>0, <2>1, FramingSame DEF Unread
<1>10. CASE Finish \/ DeleteLater
  <2>1. /\ socket' = socket /\ wire' = wire /\ request'.data = request.data
        /\ device'.requestState = device.requestState /\ device'.requestHeaders = device.requestHeaders
    BY <1>2, <1>10 DEF Finish, DeleteLater, DestroyDevice, Requests, Devices
  <2> QED  BY <1>0, <2>1, FramingSame DEF Unread
<1>11. CASE Write
  <2>1. device'.requestState = device.requestState /\ device'.requestHeaders = device.requestHeaders
    BY <1>0, <1>11, WriteEffect
  <2>2. PICK out \in Seq(Sent) : socket' = [socket EXCEPT !.out = out]
    BY <1>0, <1>11, WriteEffect
  <2>3. socket'.in = socket.in /\ wire' = wire /\ request'.data = request.data
    BY <1>2, <1>11, <2>2 DEF Write, Sockets, Requests
  <2> QED  BY <1>0, <2>1, <2>3, FramingSame DEF Unread
<1>12. CASE DeleteFlusher
  <2>1. socket'.in = socket.in /\ wire' = wire /\ request' = request /\ device' = device
    BY <1>2, <1>12 DEF DeleteFlusher, Sockets
  <2> QED  BY <1>0, <2>1, FramingSame DEF Unread
<1>13. CASE UNCHANGED vars
  BY <1>0, <1>13, FramingSame DEF vars, Unread
<1>14. ASSUME NEW headers \in Seq(Headers), ChangeHeaders(headers)  PROVE Framing'
  <2>1. socket' = socket /\ wire' = wire /\ request'.data = request.data /\ device' = device
    BY <1>2, <1>14 DEF ChangeHeaders, Requests
  <2> QED  BY <1>0, <2>1, FramingSame DEF Unread
<1>15. ASSUME \/ \E n \in 1..Len(wire) : Arrive(n)
              \/ CheckTimeout \/ (LoadPostVariables \/ PollPostVariables \/ Adopt)
       PROVE  Moves
  BY <1>0, <1>15, ArriveMoves, TimeoutMoves, PostMoves
<1> QED  BY <1>0, <1>3, <1>4, <1>5, <1>6, <1>7, <1>8, <1>9, <1>10, <1>11, <1>12, <1>13, <1>14, <1>15,
            HttpStep DEF vars

-----------------------------------------------------------------------------
(* What has been written. *)

\* The Request, the HttpRequest's side of the response and the answer are as they were.
LEMMA WrittenSame ==
  ASSUME Written, Answer' = Answer, socket'.out = socket.out /\ socket'.received = socket.received,
         Served' <=> Served,
         device'.responseState = device.responseState, device'.responseHeaders = device.responseHeaders,
         device'.headerBuffer = device.headerBuffer, device'.headerBufferPosition = device.headerBufferPosition,
         request'.responseHeaders = request.responseHeaders, request'.haveSentHeaders = request.haveSentHeaders,
         request'.writes = request.writes, request'.phase \in {"none", "queued"} => request.phase \in {"none", "queued"}
  PROVE  Written'
<1>1. PICK headers, writes, answer : headers = request.responseHeaders /\ writes = request.writes /\ answer = Answer
  OBVIOUS
<1>2. headers = request'.responseHeaders /\ writes = request'.writes /\ answer = Answer'
  BY <1>1
<1>3. OneStatus(headers) /\ (writes > 0 => device.responseState = "body" /\ IsAnswer(answer, headers, writes))
  BY <1>1 DEF Written
<1>4. OneStatus(request'.responseHeaders)
      /\ (request'.writes > 0 => device'.responseState = "body" /\ IsAnswer(Answer', request'.responseHeaders, request'.writes))
  BY <1>2, <1>3
<1>5. /\ request'.haveSentHeaders <=> request'.writes > 0
      /\ request'.phase \in {"none", "queued"} => request'.writes = 0
      /\ Served' => Answer' = FileAnswer
      /\ request'.writes = 0 /\ ~Served' =>
           /\ device'.responseState = "headers" /\ device'.responseHeaders = <<>> /\ device'.headerBuffer = <<>>
           /\ device'.headerBufferPosition = 0 /\ socket'.received = <<>> /\ socket'.out = <<>>
  BY DEF Written
<1> QED  BY <1>4, <1>5 DEF Written

LEMMA WrittenNext == ASSUME IInv, [HttpNext]_vars  PROVE Written'
<1>0. HttpTypeOK /\ Stages /\ Endings /\ Framing /\ Written
  BY DEF IInv
<1>1. Stages'
  BY <1>0, StagesNext
<1>2. /\ device \in Devices(device.requestHeaders) /\ request \in Requests(request.serverData) /\ socket \in Sockets
  BY <1>0, TypesBefore
<1>3. CASE Moves
  <2>1. PICK data, in \in Seq(Pieces), phase \in Phases, postDataMode \in {"unknown", "values", "raw"} :
          /\ request' = [request EXCEPT !.data = data, !.phase = phase, !.postDataMode = postDataMode]
          /\ socket' = [socket EXCEPT !.in = in]
          /\ phase = request.phase \/ (request.phase \notin {"none", "queued"} /\ phase \notin {"none", "queued"})
    BY <1>3 DEF Moves
  <2>2. device' = device /\ socket'.out = socket.out /\ socket'.received = socket.received
    BY <1>2, <1>3, <2>1 DEF Moves, Sockets
  <2>3. /\ request'.responseHeaders = request.responseHeaders /\ request'.haveSentHeaders = request.haveSentHeaders
        /\ request'.writes = request.writes /\ request'.phase = phase
    BY <1>2, <2>1 DEF Requests
  <2>4. (Served' <=> Served) /\ Answer' = Answer
    BY <2>1, <2>2, <2>3 DEF Served, Answer
  <2> QED  BY <1>0, <2>1, <2>2, <2>3, <2>4, WrittenSame
<1>4. CASE Transmit
  <2>1. socket.out # <<>>
    BY <1>4 DEF Transmit
  <2>2. PICK out \in Seq(Sent), received \in Seq(Sent) :
          socket' = [socket EXCEPT !.out = out, !.received = received] /\ received \o out = Answer
    BY <1>0, <1>4, TransmitEffect
  <2>3. Answer' = Answer
    BY <1>2, <2>2 DEF Answer, Sockets
  <2>4. request' = request /\ device' = device
    BY <1>4 DEF Transmit
  <2>5. request.writes = 0 => Served
    BY <1>0, <2>1 DEF Written
  <2> QED  BY <1>0, <2>3, <2>4, <2>5 DEF Written, Served
<1>5. CASE ReadRequestLine \/ ReadHeaderLine
  <2>1. socket'.out = socket.out /\ socket'.received = socket.received /\ request' = request
    BY <1>2, <1>5 DEF ReadRequestLine, ReadHeaderLine, Sockets
  <2>2. /\ device'.responseState = device.responseState /\ device'.responseHeaders = device.responseHeaders
        /\ device'.headerBuffer = device.headerBuffer /\ device'.headerBufferPosition = device.headerBufferPosition
        /\ device.requestState # "body" /\ device'.requestState # "body"
    BY <1>2, <1>5 DEF ReadRequestLine, ReadHeaderLine, Devices
  <2> QED  BY <1>0, <2>1, <2>2, WrittenSame DEF Served, Answer
<1>6. CASE ReadBlankLine
  <2>1. request.phase = "none" /\ device.requestState = "headers"
    BY <1>0, <1>6 DEF Stages, ReadBlankLine
  <2>2. CASE ServeFile
    <3>1. device'.requestState = "body" /\ socket' = [socket EXCEPT !.in = AfterLine, !.out = FileAnswer] /\ socket.received = <<>>
      BY <1>0, <1>6, <2>2, ServeEffect
    <3>2. socket'.out = FileAnswer /\ socket'.received = <<>>
      BY <1>2, <3>1 DEF Sockets
    <3>3. Answer' = FileAnswer
      BY <3>2, FileAnswerType, ConcatEmptySeq DEF Answer
    <3>4. request' = request
      BY <2>2 DEF ServeFile
    <3>5. request.writes = 0
      BY <1>0, <2>1 DEF Written
    <3>6. Served'
      BY <2>1, <3>1, <3>4 DEF Served
    <3>7. OneStatus(request.responseHeaders) /\ (request.haveSentHeaders <=> request.writes > 0)
      BY <1>0 DEF Written
    <3> QED  BY <3>3, <3>4, <3>5, <3>6, <3>7 DEF Written
  <2>3. CASE Announce \/ Ignore
    <3>1. /\ socket'.out = socket.out /\ socket'.received = socket.received
          /\ device'.responseState = device.responseState /\ device'.responseHeaders = device.responseHeaders
          /\ device'.headerBuffer = device.headerBuffer /\ device'.headerBufferPosition = device.headerBufferPosition
      BY <1>2, <2>3 DEF Announce, Ignore, Sockets, Devices
    <3>2. /\ request'.responseHeaders = request.responseHeaders /\ request'.haveSentHeaders = request.haveSentHeaders
          /\ request'.writes = request.writes /\ request'.phase # "none"
      BY <1>2, <2>3 DEF Announce, Ignore, Requests
    <3>3. ~Served /\ ~Served'
      BY <2>1, <3>2 DEF Served
    <3> QED  BY <1>0, <2>1, <3>1, <3>2, <3>3, WrittenSame DEF Answer
  <2> QED  BY <1>6, <2>2, <2>3 DEF ReadBlankLine
<1>7. CASE ReadNothing \/ Disconnect \/ DeleteFlusher
  <2>1. socket'.out = socket.out /\ socket'.received = socket.received /\ request' = request /\ device' = device
    BY <1>2, <1>7 DEF ReadNothing, Disconnect, DeleteFlusher, Sockets
  <2> QED  BY <1>0, <2>1, WrittenSame DEF Served, Answer
<1>8. CASE RunSlot \/ Finish \/ DeleteLater
  <2>1. /\ socket' = socket /\ device'.requestState = device.requestState
        /\ device'.responseState = device.responseState /\ device'.responseHeaders = device.responseHeaders
        /\ device'.headerBuffer = device.headerBuffer /\ device'.headerBufferPosition = device.headerBufferPosition
    BY <1>2, <1>8 DEF RunSlot, Finish, DeleteLater, DestroyDevice, Devices
  <2>2. /\ request'.responseHeaders = request.responseHeaders /\ request'.haveSentHeaders = request.haveSentHeaders
        /\ request'.writes = request.writes
        /\ request'.phase = request.phase \/ (request.phase # "none" /\ request'.phase \in {"running", "deleted"})
    BY <1>2, <1>8 DEF RunSlot, Finish, DeleteLater, Requests
  <2>3. (Served' <=> Served) /\ Answer' = Answer
    BY <2>1, <2>2 DEF Served, Answer
  <2> QED  BY <1>0, <2>1, <2>2, <2>3, WrittenSame
<1>9. CASE Write
  <2>1. device'.responseState = "body" /\ request.writes \in Nat
    BY <1>0, <1>9, WriteEffect
  <2>2. PICK out \in Seq(Sent) : /\ socket' = [socket EXCEPT !.out = out]
                                 /\ IsAnswer(socket.received \o out, request.responseHeaders, request.writes + 1)
    BY <1>0, <1>9, WriteEffect
  <2>3. PICK writes : writes = request.writes + 1
    OBVIOUS
  <2>4. Answer' = socket.received \o out
    BY <1>2, <2>2 DEF Answer, Sockets
  <2>5. /\ request'.responseHeaders = request.responseHeaders /\ request'.haveSentHeaders
        /\ request'.writes = writes /\ request'.phase = request.phase /\ request.phase \notin {"none", "queued"}
    BY <1>2, <1>9, <2>3 DEF Write, MayWrite, Requests
  <2>6. IsAnswer(Answer', request'.responseHeaders, request'.writes)
    BY <2>2, <2>3, <2>4, <2>5
  <2>7. request'.writes > 0 /\ request'.writes # 0
    BY <2>1, <2>3, <2>5
  <2>8. OneStatus(request'.responseHeaders) /\ ~Served'
    BY <1>0, <2>5 DEF Written, Served
  <2> QED  BY <2>1, <2>5, <2>6, <2>7, <2>8 DEF Written
<1>10. CASE UNCHANGED vars
  BY <1>0, <1>10, WrittenSame DEF vars, Served, Answer
<1>11. ASSUME NEW headers \in Seq(Headers), ChangeHeaders(headers), OneStatus(headers)  PROVE Written'
  <2>1. /\ request'.responseHeaders = headers /\ request'.haveSentHeaders = request.haveSentHeaders
        /\ request'.writes = request.writes /\ request'.phase = request.phase /\ ~request.haveSentHeaders
        /\ device' = device /\ socket' = socket
    BY <1>2, <1>11 DEF ChangeHeaders, Requests
  <2>2. ~(request.writes > 0)
    BY <1>0, <2>1 DEF Written
  <2>3. OneStatus(request'.responseHeaders)
    BY <1>11, <2>1
  <2>4. (Served' <=> Served) /\ Answer' = Answer
    BY <2>1 DEF Served, Answer
  <2> QED  BY <1>0, <2>1, <2>2, <2>3, <2>4 DEF Written
<1>12. ASSUME \/ \E n \in 1..Len(wire) : Arrive(n)
              \/ CheckTimeout \/ (LoadPostVariables \/ PollPostVariables \/ Adopt)
       PROVE  Moves
  BY <1>0, <1>12, ArriveMoves, TimeoutMoves, PostMoves
<1> QED  BY <1>0, <1>3, <1>4, <1>5, <1>6, <1>7, <1>8, <1>9, <1>10, <1>11, <1>12, HttpStep DEF vars

-----------------------------------------------------------------------------
(* What the slot sees of the header, and of the URL. *)

\* The whole of a sequence, none of it, and all but its last element.
LEMMA ChoppedIs ==
  ASSUME NEW S, NEW uri \in Seq(S), NEW n \in Nat, n <= Len(uri)
  PROVE  /\ Chopped(uri, n) \in Seq(S) /\ IsSlice(Chopped(uri, n), uri, 0, Len(uri) - n)
         /\ n = Len(uri) => Chopped(uri, n) = <<>>
         /\ n = 0 => Chopped(uri, n) = uri
<1>1. PICK e \in Nat : e = Len(uri) - n
  OBVIOUS
<1>2. PICK chopped : chopped = SubSeq(uri, 0 + 1, e)
  OBVIOUS
<1>3. chopped \in Seq(S) /\ IsSlice(chopped, uri, 0, e - 0)
  BY <1>1, <1>2, SliceCorrect
<1>4. chopped = Chopped(uri, n) /\ e - 0 = e
  BY <1>1, <1>2 DEF Chopped
<1>5. Len(chopped) = e /\ \A i \in 1..e : chopped[i] = uri[i]
  <2>1. \A i \in 1..e : 0 + i = i
    OBVIOUS
  <2> QED  BY <1>3, <1>4, <2>1 DEF IsSlice
<1>6. n = Len(uri) => chopped = <<>>
  BY <1>1, <1>3, <1>5, EmptySeq
<1>7. n = 0 => chopped = uri
  BY <1>1, <1>3, <1>5, SeqEqual
<1> QED  BY <1>1, <1>3, <1>4, <1>6, <1>7

LEMMA PrefixIs ==
  ASSUME NEW S, NEW s \in Seq(S), NEW t \in Seq(S), NEW m \in Nat, m <= Len(t), IsSlice(s, t, 0, m)
  PROVE  IsPrefix(s, t)
<1>1. Len(s) = m /\ \A i \in 1..m : s[i] = t[i]
  <2>1. \A i \in 1..m : 0 + i = i
    OBVIOUS
  <2> QED  BY <2>1 DEF IsSlice
<1>2. m <= Len(s) /\ 0 + 1 = 1 /\ m - 0 = m /\ 0 \in Nat /\ 0 <= m
  BY <1>1
<1>3. PICK a, b : a = SubSeq(s, 0 + 1, m) /\ b = SubSeq(t, 0 + 1, m)
  OBVIOUS
<1>4. a \in Seq(S) /\ IsSlice(a, s, 0, m - 0)
  BY <1>2, <1>3, SliceCorrect
<1>5. b \in Seq(S) /\ IsSlice(b, t, 0, m - 0)
  BY <1>2, <1>3, SliceCorrect
<1>6. Len(a) = m /\ Len(b) = m /\ \A i \in 1..m : a[i] = b[i]
  <2>1. \A i \in 1..m : 0 + i = i
    OBVIOUS
  <2> QED  BY <1>1, <1>2, <1>4, <1>5, <2>1 DEF IsSlice
<1>7. a = b
  BY <1>4, <1>5, <1>6, SeqEqual
<1> QED  BY <1>1, <1>2, <1>3, <1>7 DEF IsPrefix

\* The three parts of a URI with a '?', put together again.
LEMMA Joined ==
  ASSUME NEW S, NEW uri \in Seq(S), NEW q \in 1..Len(uri), NEW mark \in S, uri[q] = mark,
         NEW path \in Seq(S), IsSlice(path, uri, 0, q - 1),
         NEW query \in Seq(S), IsSlice(query, uri, q, Len(uri) - q)
  PROVE  path \o (<<mark>> \o query) = uri
<1>1. PICK n \in Nat, p \in Nat, r \in Nat : n = Len(uri) /\ p = q - 1 /\ r = n - q
  <2>1. Len(uri) \in Nat /\ q - 1 \in Nat /\ Len(uri) - q \in Nat
    OBVIOUS
  <2> QED  BY <2>1
<1>2. Len(path) = p /\ \A i \in 1..p : path[i] = uri[0 + i]
  BY <1>1 DEF IsSlice
<1>3. Len(query) = r /\ \A i \in 1..r : query[i] = uri[q + i]
  BY <1>1 DEF IsSlice
<1>4. PICK rest : rest = <<mark>> \o query
  OBVIOUS
<1>5. PICK m \in Nat : m = r + 1
  <2>1. r + 1 \in Nat
    OBVIOUS
  <2> QED  BY <2>1
<1>6. rest \in Seq(S) /\ Len(rest) = m /\ \A i \in 1..m : rest[i] = IF i = 1 THEN mark ELSE query[i - 1]
  BY <1>3, <1>4, <1>5, PushType
<1>7. PICK both : both = path \o rest
  OBVIOUS
<1>8. both \in Seq(S) /\ Len(both) = p + m /\ \A i \in 1..(p + m) : both[i] = IF i <= p THEN path[i] ELSE rest[i - p]
  <2>1. Len(path) = p /\ Len(rest) = m /\ rest \in Seq(S)
    BY <1>2, <1>6
  <2>2. /\ path \o rest \in Seq(S) /\ Len(path \o rest) = p + m
        /\ \A i \in 1..(p + m) : (path \o rest)[i] = IF i <= p THEN path[i] ELSE rest[i - p]
    BY ONLY path \in Seq(S), <2>1, ConcatIs
  <2> QED  BY <1>7, <2>2
<1>9. p + m = n
  BY <1>1, <1>5
<1>10. \A i \in 1..n : both[i] = uri[i]
  <2> SUFFICES ASSUME NEW i \in 1..n  PROVE both[i] = uri[i]
    OBVIOUS
  <2>1. CASE i <= p
    <3>1. i \in 1..p /\ 0 + i = i
      BY <2>1
    <3> QED  BY <1>2, <1>8, <1>9, <2>1, <3>1
  <2>2. CASE i = q
    <3>1. ~(i <= p) /\ i - p = 1 /\ 1 \in 1..m
      BY <1>1, <1>5, <2>2
    <3> QED  BY <1>6, <1>8, <1>9, <2>2, <3>1
  <2>3. CASE i > q
    <3>1. ~(i <= p) /\ i - p \in 1..m /\ i - p # 1 /\ (i - p) - 1 \in 1..r /\ q + ((i - p) - 1) = i
      BY <1>1, <1>5, <2>3
    <3>2. both[i] = query[(i - p) - 1]
      BY <1>6, <1>8, <1>9, <3>1
    <3> QED  BY <1>3, <3>1, <3>2
  <2>4. i <= p \/ i = q \/ i > q
    BY <1>1
  <2> QED  BY <2>1, <2>2, <2>3, <2>4
<1>11. Len(both) = n
  BY <1>8, <1>9
<1>12. both = uri
  BY <1>1, <1>8, <1>10, <1>11, SeqEqual
<1> QED  BY <1>4, <1>7, <1>12

\* What HeadersRead says of the URL.
UrlRead(uri) ==
  /\ RawValue(<<"REQUEST_URI">>) = uri
  /\ RequestUrl \in {uri, Front(uri)} /\ (RequestUrl # uri => Last(uri) = "?")
  /\ RootUrl = <<>> /\ IsPrefix(LocationUrl, uri) /\ "?" \notin Range(LocationUrl)
  /\ LocationUrl = uri \/ uri[Len(LocationUrl) + 1] = "?"

LEMMA PlainUrl ==
  ASSUME NEW uri \in Uris, Query(uri) = 0, AreRead(request.serverData, uri, Len(HeaderLines))
  PROVE  UrlRead(uri)
<1>1. uri \in Seq(STRING) /\ Len(uri) \in Nat
  BY HttpAssumption
<1>2. /\ RawValue(<<"REQUEST_URI">>) = uri /\ RawValue(<<"PATH_INFO">>) = uri /\ RawValue(<<"QUERY_STRING">>) = <<>>
  BY DEF AreRead, Has, RawValue
<1>3. \A i \in 1..Len(uri) : uri[i] # "?"
  <2>1. 0 \notin 1..Len(uri)
    OBVIOUS
  <2> QED  BY <1>1, <2>1, QueryCorrect
<1>4. QueryStringLength = 0
  <2>1. ~Contains(uri, "?")
    BY <1>3 DEF Contains
  <2>2. QueryStringOffset = 0
    BY <1>2, <2>1 DEF QueryStringOffset
  <2>3. Len(<<>>) + 0 = 0
    OBVIOUS
  <2> QED  BY <1>2, <2>2, <2>3 DEF QueryStringLength
<1>5. LocationUrl = uri
  <2>1. 0 \in Nat /\ 0 <= Len(uri)
    BY <1>1
  <2> QED  BY <1>1, <1>2, <1>4, <2>1, ChoppedIs DEF LocationUrl
<1>6. RootUrl = <<>>
  <2>1. 0 + Len(uri) = Len(uri) /\ Len(uri) <= Len(uri)
    BY <1>1
  <2>2. Chopped(uri, Len(uri)) = <<>>
    BY <1>1, <2>1, ChoppedIs
  <2> QED  BY <1>2, <1>4, <2>1, <2>2 DEF RootUrl
<1>7. RequestUrl = uri
  BY <1>1, <1>2, <1>5, ConcatEmptySeq DEF RequestUrl
<1>8. IsPrefix(uri, uri)
  BY <1>1 DEF IsPrefix
<1>9. "?" \notin Range(uri)
  BY <1>1, <1>3 DEF Range
<1> QED  BY <1>2, <1>5, <1>6, <1>7, <1>8, <1>9 DEF UrlRead

LEMMA QueryUrl ==
  ASSUME NEW uri \in Uris, Query(uri) # 0, AreRead(request.serverData, uri, Len(HeaderLines))
  PROVE  UrlRead(uri)
<1>1. uri \in Seq(STRING)
  BY HttpAssumption
<1>2. PICK q, path, query : /\ q = Query(uri) /\ path = SubSeq(uri, 1, Query(uri) - 1)
                            /\ query = SubSeq(uri, Query(uri) + 1, Len(uri))
  OBVIOUS
<1>3. /\ q \in 1..Len(uri) /\ path \in Seq(STRING) /\ IsSlice(path, uri, 0, q - 1)
      /\ query \in Seq(STRING) /\ IsSlice(query, uri, q, Len(uri) - q)
  BY <1>1, <1>2, UriParts
<1>4. uri[q] = "?" /\ \A i \in 1..Len(uri) : uri[i] = "?" => q <= i
  BY <1>1, <1>2, QueryCorrect
<1>5. RawValue(<<"REQUEST_URI">>) = uri /\ RawValue(<<"PATH_INFO">>) = path /\ RawValue(<<"QUERY_STRING">>) = query
  BY <1>2 DEF AreRead, Has, RawValue
<1>6. PICK n \in Nat : n = Len(uri)
  BY <1>1
<1>7. q \in 1..n /\ Len(path) = q - 1 /\ Len(query) = n - q
  BY <1>3, <1>6 DEF IsSlice
<1>8. PICK l \in Nat : QueryStringLength = l /\ l = n - q + 1
  <2>1. Contains(uri, "?")
    BY <1>3, <1>4 DEF Contains
  <2>2. QueryStringOffset = 1
    BY <1>5, <2>1 DEF QueryStringOffset
  <2>3. QueryStringLength = (n - q) + 1
    BY <1>5, <1>7, <2>2 DEF QueryStringLength
  <2>4. (n - q) + 1 \in Nat
    BY <1>7
  <2> QED  BY <2>3, <2>4
<1>9. LocationUrl = path
  <2>1. PICK c : c = Chopped(uri, l)
    OBVIOUS
  <2>2. l <= Len(uri) /\ Len(uri) - l = q - 1
    BY <1>6, <1>7, <1>8
  <2>3. c \in Seq(STRING) /\ IsSlice(c, uri, 0, Len(uri) - l)
    BY <1>1, <2>1, <2>2, ChoppedIs
  <2>4. c = path
    <3>1. Len(c) = q - 1 /\ \A i \in 1..(q - 1) : c[i] = uri[0 + i]
      BY <2>2, <2>3 DEF IsSlice
    <3>2. Len(path) = q - 1 /\ \A i \in 1..(q - 1) : path[i] = uri[0 + i]
      BY <1>3 DEF IsSlice
    <3> QED  BY <1>3, <2>3, <3>1, <3>2, SeqEqual
  <2> QED  BY <1>5, <1>8, <2>1, <2>4 DEF LocationUrl
<1>10. RootUrl = <<>>
  <2>1. l + Len(path) = n
    BY <1>7, <1>8
  <2>2. Chopped(uri, n) = <<>>
    BY <1>1, <1>6, ChoppedIs
  <2> QED  BY <1>5, <1>8, <2>1, <2>2 DEF RootUrl
<1>11. path \o (<<"?">> \o query) = uri
  <2>1. PICK mark \in STRING : mark = "?"
    <3>1. uri[q] \in STRING
      BY <1>1, <1>3, ElementOfSeq
    <3> QED  BY <1>4, <3>1
  <2>2. uri[q] = mark
    BY <1>4, <2>1
  <2>3. path \o (<<mark>> \o query) = uri
    BY <1>1, <1>3, <2>2, Joined, SMTT(30)
  <2> QED  BY <2>1, <2>3
<1>12. RequestUrl \in {uri, Front(uri)} /\ (RequestUrl # uri => Last(uri) = "?")
  <2>1. CASE query = <<>>
    <3>1. n - q = 0
      BY <1>7, <2>1
    <3>2. q = n
      BY <1>7, <3>1
    <3>3. RequestUrl = path
      BY <1>3, <1>5, <1>9, <2>1, ConcatEmptySeq DEF RequestUrl
    <3>4. path = Front(uri) /\ Last(uri) = "?"
      BY <1>2, <1>4, <1>6, <3>2 DEF Front, Last
    <3> QED  BY <3>3, <3>4
  <2>2. CASE query # <<>>
    BY <1>5, <1>9, <1>11, <2>2 DEF RequestUrl
  <2> QED  BY <2>1, <2>2
<1>13. IsPrefix(path, uri)
  <2>1. PICK m \in Nat : m = q - 1 /\ m <= Len(uri)
    BY <1>6, <1>7
  <2> QED  BY <1>1, <1>3, <2>1, PrefixIs
<1>14. "?" \notin Range(path)
  <2>1. \A i \in 1..(q - 1) : path[i] = uri[i]
    <3>1. \A i \in 1..(q - 1) : 0 + i = i
      BY <1>7
    <3> QED  BY <1>3, <3>1 DEF IsSlice
  <2>2. \A i \in 1..(q - 1) : uri[i] # "?"
    <3>1. \A i \in 1..(q - 1) : i \in 1..Len(uri) /\ ~(q <= i)
      BY <1>6, <1>7
    <3> QED  BY <1>4, <3>1
  <2>3. DOMAIN path = 1..(q - 1)
    BY <1>3, <1>7, LenProperties
  <2> QED  BY <2>1, <2>2, <2>3 DEF Range
<1>15. uri[Len(path) + 1] = "?"
  <2>1. Len(path) + 1 = q
    BY <1>7
  <2> QED  BY <1>4, <2>1
<1> QED  BY <1>5, <1>9, <1>10, <1>12, <1>13, <1>14, <1>15 DEF UrlRead

\* What HeadersRead says of the header lines.
LEMMA LastLine ==
  ASSUME NEW uri, AreRead(request.serverData, uri, Len(HeaderLines)), NEW k \in 1..Len(HeaderLines)
  PROVE  /\ RawValue(VariableName(HeaderLines[k][1])) = Last(Named(HeaderLines, HeaderLines[k][1]))[2]
         /\ Last(Named(HeaderLines, HeaderLines[k][1])) \in Range(Named(HeaderLines, HeaderLines[k][1]))
<1>1. PICK name : name = HeaderLines[k][1]
  OBVIOUS
<1>2. PICK S : S = STRING \X Seq(STRING)
  OBVIOUS
<1>3. HeaderLines \in Seq(S)
  BY <1>2, HttpAssumption
<1>4. PICK set : set = {h \in Range(HeaderLines) : h[1] = name}
  OBVIOUS
<1>5. \A i \in 1..Len(HeaderLines) : HeaderLines[i] \in set <=> HeaderLines[i][1] = name
  <2>1. DOMAIN HeaderLines = 1..Len(HeaderLines)
    BY <1>3, LenProperties
  <2>2. \A i \in 1..Len(HeaderLines) : HeaderLines[i] \in Range(HeaderLines)
    BY <2>1 DEF Range
  <2> QED  BY <1>4, <2>2
<1>6. PICK o : o = Only(HeaderLines, set)
  OBVIOUS
<1>7. o = Named(HeaderLines, name)
  BY <1>4, <1>6 DEF Named
<1>8. PICK j \in 1..Len(HeaderLines) :
        /\ Last(o) = HeaderLines[j] /\ HeaderLines[j] \in set /\ Len(o) > 0
        /\ \A i \in 1..Len(HeaderLines) : i > j => HeaderLines[i] \notin set
  <2>1. HeaderLines[k] \in set
    BY <1>1, <1>5
  <2> QED  BY <1>3, <1>6, <2>1, OnlyLast
<1>9. HeaderLines[j][1] = name /\ \A i \in 1..Len(HeaderLines) : i > j => HeaderLines[i][1] # HeaderLines[j][1]
  BY <1>5, <1>8
<1>10. Has(request.serverData, VariableName(HeaderLines[j][1]), HeaderLines[j][2])
  BY <1>9 DEF AreRead
<1>11. RawValue(VariableName(name)) = Last(o)[2]
  BY <1>8, <1>9, <1>10 DEF Has, RawValue
<1>12. Last(o) \in Range(o)
  <2>1. o \in Seq(S \intersect set)
    BY <1>3, <1>6, OnlyType
  <2>2. Len(o) \in DOMAIN o
    BY <1>8, <2>1, LenProperties
  <2> QED  BY <2>2 DEF Last, Range
<1> QED  BY <1>1, <1>7, <1>11, <1>12

LEMMA ReadLines ==
  ASSUME NEW uri \in Uris, AreRead(request.serverData, uri, Len(HeaderLines))
  PROVE  HeadersRead
<1>1. HeaderLines \in Seq(STRING \X Seq(STRING)) /\ DOMAIN HeaderLines = 1..Len(HeaderLines)
  BY HttpAssumption, LenProperties
<1>2. \A line \in Range(HeaderLines) : RawValue(VariableName(line[1])) = Last(Named(HeaderLines, line[1]))[2]
  <2> SUFFICES ASSUME NEW line \in Range(HeaderLines)
               PROVE  RawValue(VariableName(line[1])) = Last(Named(HeaderLines, line[1]))[2]
    OBVIOUS
  <2>1. PICK k \in 1..Len(HeaderLines) : line = HeaderLines[k]
    BY <1>1 DEF Range
  <2> QED  BY <2>1, LastLine
<1>3. \A cookie \in Range(Cookies) : \E line \in Range(Named(HeaderLines, "COOKIE")) : cookie \in Range(line[2])
  <2> SUFFICES ASSUME NEW cookie \in Range(Cookies)
               PROVE  \E line \in Range(Named(HeaderLines, "COOKIE")) : cookie \in Range(line[2])
    OBVIOUS
  <2>1. PICK value : value = RawValue(<<"HTTP_", "COOKIE">>)
    OBVIOUS
  <2>2. value \in Seq(Bytes)
    <3>1. <<>> \in Seq(Bytes)
      OBVIOUS
    <3> QED  BY <2>1, <3>1 DEF RawValue, AreRead, IsVariables
  <2>3. cookie \in Range(value)
    <3>1. PICK set : set = Range(value) \ {";"}
      OBVIOUS
    <3>2. PICK o : o = Only(value, set)
      OBVIOUS
    <3>3. o = Cookies
      BY <2>1, <3>1, <3>2 DEF Cookies
    <3>4. o \in Seq(Bytes \intersect set)
      BY <2>2, <3>2, OnlyType
    <3>5. Range(o) \subseteq Bytes \intersect set
      BY <3>4, RangeOfSeq
    <3> QED  BY <3>1, <3>3, <3>5
  <2>4. <<"HTTP_", "COOKIE">> \in DOMAIN request.serverData
    <3>1. value # <<>>
      BY <2>3 DEF Range
    <3> QED  BY <2>1, <3>1 DEF RawValue
  <2>5. PICK k \in 1..Len(HeaderLines) : HeaderLines[k][1] = "COOKIE"
    BY <2>4 DEF AreRead
  <2>6. PICK line : line = Last(Named(HeaderLines, "COOKIE"))
    OBVIOUS
  <2>7. RawValue(VariableName("COOKIE")) = line[2] /\ line \in Range(Named(HeaderLines, "COOKIE"))
    BY <2>5, <2>6, LastLine
  <2>8. value = line[2]
    BY <2>1, <2>7, VariableNames
  <2> QED  BY <2>3, <2>7, <2>8
<1>4. UrlRead(uri)
  BY PlainUrl, QueryUrl
<1> QED  BY <1>2, <1>3, <1>4 DEF HeadersRead, UrlRead

-----------------------------------------------------------------------------
(* The properties. *)

LEMMA BodyFromFraming == ASSUME HttpTypeOK, Framing  PROVE BodyIntact
<1> SUFFICES ASSUME device.requestState = "body"
             PROVE  /\ device.requestHeaders # NoVariables /\ (request.serverData # NoVariables => HeadersRead)
                    /\ request.data \o socket.in \o wire = Body
  BY DEF BodyIntact
<1>1. PICK uri \in Uris : AreRead(device.requestHeaders, uri, Len(HeaderLines))
  BY DEF Framing
<1>2. device.requestHeaders # NoVariables
  <2>1. <<"REQUEST_URI">> \in DOMAIN device.requestHeaders
    BY <1>1 DEF AreRead, Has
  <2> QED  BY <2>1, NoVariablesType
<1>3. request.serverData # NoVariables => HeadersRead
  <2> SUFFICES ASSUME request.serverData # NoVariables  PROVE HeadersRead
    OBVIOUS
  <2>1. request.serverData = device.requestHeaders
    BY TypesBefore
  <2> QED  BY <1>1, <2>1, ReadLines
<1>4. request.data \o socket.in \o wire = Body
  <2>1. PICK data, in, rest \in Seq(Pieces) : data = request.data /\ in = socket.in /\ rest = wire
    BY TypesBefore DEF Requests, Sockets
  <2>2. (data \o in) \o rest = data \o (in \o rest)
    BY ConcatAssociative
  <2>3. data \o (in \o rest) = Body
    BY <2>1 DEF Framing, Unread
  <2> QED  BY <2>1, <2>2, <2>3
<1> QED  BY <1>2, <1>3, <1>4

\* Those of one name, in the order in which they were added.
LEMMA NamedReverse ==
  ASSUME NEW headers \in Seq(Headers), NEW name
  PROVE  Named(Reverse(headers), name) = Reverse(Named(headers, name))
<1>1. PICK set : set = {h \in Range(headers) : h[1] = name}
  OBVIOUS
<1>2. Named(headers, name) = Only(headers, set)
  BY <1>1 DEF Named
<1>3. Named(Reverse(headers), name) = Only(Reverse(headers), set)
  BY <1>1, ReverseRange DEF Named
<1> QED  BY <1>2, <1>3, OnlyReverse

LEMMA ResponseFromWritten == ASSUME HttpTypeOK, Written  PROVE ResponseAsWritten
<1>1. PICK headers \in Seq(Headers), writes \in Nat : headers = request.responseHeaders /\ writes = request.writes
  <2>1. request.writes \in Nat /\ request.responseHeaders \in Seq(Headers)
    BY HttpAssumption, TypesBefore DEF Requests
  <2> QED  BY <2>1
<1>2. CASE writes = 0
  <2>1. Answer # <<>> => request.phase = "none" /\ Answer = FileAnswer
    <3> SUFFICES ASSUME Answer # <<>>  PROVE Served
      BY DEF Written, Served
    <3>1. socket.received = <<>> /\ socket.out = <<>> => Answer = <<>>
      <4>1. <<>> \o <<>> = <<>>
        OBVIOUS
      <4> QED  BY <4>1 DEF Answer
    <3> QED  BY <1>1, <1>2, <3>1 DEF Written
  <2> QED  BY <1>1, <1>2, <2>1 DEF ResponseAsWritten, Answer, FileAnswer
<1>3. CASE writes # 0
  <2>1. PICK answer : answer = Answer
    OBVIOUS
  <2>2. IsAnswer(answer, headers, writes)
    <3>1. writes > 0
      BY <1>3
    <3> QED  BY <1>1, <2>1, <3>1 DEF Written
  <2>3. PICK w \in Seq(Headers) : w = Without(headers, "STATUS")
    BY WithoutReverse
  <2>4. PICK others \in Seq(Headers) : others = Reverse(w) /\ Len(others) = Len(w)
    BY ReverseType
  <2>5. PICK n \in Nat : n = Len(w)
    OBVIOUS
  <2>6. /\ Len(answer) = n + 2 + writes
        /\ answer[1] = <<"status", Value(headers, "STATUS")>>
        /\ \A k \in 1..n : answer[k + 1] = <<"header", others[k]>>
        /\ answer[n + 2] = <<"blank", 0>>
        /\ \A k \in 1..writes : answer[n + 2 + k] = <<"data", k>>
    BY <2>2, <2>3, <2>4, <2>5 DEF IsAnswer
  <2>7. PICK out : out = [k \in 1..n |-> answer[k + 1][2]]
    OBVIOUS
  <2>8. out = others
    <3>1. others \in [1..n -> Headers]
      BY <2>4, <2>5, LenProperties
    <3>2. \A k \in 1..n : out[k] = others[k]
      BY <2>6, <2>7, SMTT(30)
    <3> QED  BY <2>7, <3>1, <3>2
  <2>9. \A h \in Range(w) : Named(out, h[1]) = Reverse(Named(w, h[1]))
    BY <2>4, <2>8, NamedReverse
  <2> QED  BY <1>1, <1>3, <2>1, <2>3, <2>5, <2>6, <2>7, <2>9 DEF ResponseAsWritten, Answer
<1> QED  BY <1>2, <1>3

LEMMA Inductive ==
  /\ HttpInit => IInv
  /\ IInv /\ [HttpNext]_vars => IInv'
<1>1. ASSUME IInv, [HttpNext]_vars  PROVE IInv'
  <2>1. HttpTypeOK' /\ Framing' /\ Written'
    BY <1>1, TypeNext, FramingNext, WrittenNext
  <2>2. Stages' /\ Endings'
    BY <1>1, StagesNext, EndingsNext DEF IInv
  <2> QED  BY <2>1, <2>2 DEF IInv
<1> QED  BY <1>1, InitCorrect

\* HttpTypeOK: the members of the HttpRequest and of the Request have their types, and an
\* HttpRequest has been deleted if and only if it has left a SocketFlusher (HttpRequest.cpp:61-69).
THEOREM HttpTypeCorrect == HttpSpec => []HttpTypeOK
<1>1. IInv => HttpTypeOK
  BY DEF IInv
<1> QED  BY <1>1, Inductive, PTL DEF HttpSpec

\* BodyIntact: however the request is cut into readyRead()s, and whenever a slot or a responder
\* reads, the variables are those of the request line and the header lines, and no byte of the
\* body is lost, doubled or out of order (HttpRequest.cpp:71-125).
THEOREM BodyCorrect == HttpSpec => []BodyIntact
<1>1. IInv => BodyIntact
  BY BodyFromFraming DEF IInv
<1> QED  BY <1>1, Inductive, PTL DEF HttpSpec

\* ResponseAsWritten: what the browser has got, with what the socket still holds, is the status,
\* the headers that the slot set and added, the empty line and the data, in order, and a static
\* file is never mixed with them (HttpRequest.cpp:164-218).
THEOREM ResponseCorrect == HttpSpec => []ResponseAsWritten
<1>1. IInv => ResponseAsWritten
  BY ResponseFromWritten DEF IInv
<1> QED  BY <1>1, Inductive, PTL DEF HttpSpec

\* DeliveredBeforeClose: a socket goes only after its HttpRequest, when a SocketFlusher has seen
\* its buffer empty (SocketFlusher.cpp:19-29).
THEOREM DeliveredCorrect == HttpSpec => []DeliveredBeforeClose
<1>1. IInv => DeliveredBeforeClose
  BY DEF IInv, Endings, DeliveredBeforeClose
<1> QED  BY <1>1, Inductive, PTL DEF HttpSpec
=============================================================================
