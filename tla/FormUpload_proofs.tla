------------------------- MODULE FormUpload_proofs -------------------------
(***************************************************************************)
(* Proofs about FormUpload, for any forms, parameters, documents and texts *)
(* and any way to cut them.                                                *)
(***************************************************************************)
EXTENDS FormUpload, SequenceLemmas, TLAPS

-----------------------------------------------------------------------------
(* Sequences of sequences, one behind the other. *)

\* Where each of seqs ends in text, which consists of them.
IsLayout(text, seqs, end) ==
  /\ end[0] = 0 /\ end[Len(seqs)] = Len(text)
  /\ \A k \in 1..Len(seqs) : end[k] = end[k - 1] + Len(seqs[k])
  /\ \A k \in 1..Len(seqs) : \A i \in 1..Len(seqs[k]) : text[end[k - 1] + i] = seqs[k][i]

LEMMA FlattenIterates ==
  ASSUME NEW S, NEW seqs \in Seq(Seq(S)), seqs # <<>>
  PROVE  \E g \in [1..Len(seqs) -> Seq(S)] :
           /\ g[1] = seqs[1] /\ \A k \in 2..Len(seqs) : g[k] = g[k - 1] \o seqs[k]
           /\ FlattenSeq(seqs) = g[Len(seqs)]
<1> DEFINE N == Len(seqs)
           Eqn(f) == f = [i \in 1..N |-> IF i = 1 THEN seqs[i] ELSE f[i - 1] \o seqs[i]]
           D == Seq(S)
           Step(v, k) == IF k = 1 THEN seqs[k] ELSE v \o seqs[k]
           step == [p \in D \X (1..N) |-> Step(p[1], p[2])]
<1>1. N \in Nat /\ N > 0 /\ \A k \in 1..N : seqs[k] \in Seq(S)
  OBVIOUS
<1>2. <<>> \in D /\ step \in [D \X (1..N) -> D]
  <2>1. ASSUME NEW v \in D, NEW k \in 1..N  PROVE Step(v, k) \in D
    BY <1>1, ConcatProperties
  <2> HIDE DEF Step, D, N
  <2>2. step \in [D \X (1..N) -> D]
    BY <2>1
  <2>3. <<>> \in D
    BY DEF D
  <2> QED  BY <2>2, <2>3
<1>3. PICK g \in [0..N -> D] : Iterates(g, N, <<>>, step)
  <2> HIDE DEF step, D, N
  <2> QED  BY <1>1, <1>2, ExistsRecursive
<1>15. \A k \in 1..N : g[k] \in Seq(S)
  <2>1. \A k \in 0..N : g[k] \in D
    <3> HIDE DEF step, D, N
    <3> QED  BY <1>3
  <2> HIDE DEF N
  <2> QED  BY <1>1, <2>1
<1>4. \A k \in 1..N : g[k] = Step(g[k - 1], k)
  <2> SUFFICES ASSUME NEW k \in 1..N  PROVE g[k] = Step(g[k - 1], k)
    OBVIOUS
  <2> HIDE DEF Step, D, N
  <2>1. k - 1 \in 0..N
    BY <1>1
  <2>2. <<g[k - 1], k>> \in D \X (1..N)
    BY <1>3, <2>1
  <2> QED  BY <1>3, <2>2 DEF Iterates
<1>5. PICK h : h = [i \in 1..N |-> g[i]]
  OBVIOUS
<1>6. Eqn(h)
  <2>1. \A i \in 1..N : h[i] = IF i = 1 THEN seqs[i] ELSE h[i - 1] \o seqs[i]
    <3> SUFFICES ASSUME NEW i \in 1..N  PROVE h[i] = IF i = 1 THEN seqs[i] ELSE h[i - 1] \o seqs[i]
      OBVIOUS
    <3>1. i # 1 => i - 1 \in 1..N /\ h[i - 1] = g[i - 1]
      BY <1>1, <1>5
    <3>2. h[i] = IF i = 1 THEN seqs[i] ELSE g[i - 1] \o seqs[i]
      BY <1>4, <1>5
    <3> QED  BY <3>1, <3>2
  <2>2. h = [i \in 1..N |-> h[i]]
    BY <1>5
  <2> HIDE DEF N
  <2> QED  BY <2>1, <2>2
<1>7. PICK f : f = (CHOOSE x : Eqn(x))
  OBVIOUS
<1>8. Eqn(f)
  BY <1>6, <1>7
<1>9. FlattenSeq(seqs) = f[N]
  BY <1>1, <1>7 DEF FlattenSeq
<1>10. \A i \in 1..N : f[i] = IF i = 1 THEN seqs[i] ELSE f[i - 1] \o seqs[i]
  <2> HIDE DEF N
  <2> QED  BY <1>8, Zenon
<1>11. 0..N \subseteq {i \in 0..N : i > 0 => f[i] = g[i] /\ f[i] \in Seq(S)}
  <2> DEFINE T == {i \in 0..N : i > 0 => f[i] = g[i] /\ f[i] \in Seq(S)}
  <2>1. 0 \in T
    BY <1>1
  <2>2. \A i \in 1..N : i - 1 \in T => i \in T
    <3> SUFFICES ASSUME NEW i \in 1..N, i - 1 \in T  PROVE f[i] = g[i] /\ g[i] \in Seq(S)
      OBVIOUS
    <3>1. g[i] \in Seq(S)
      BY <1>15
    <3>2. i # 1 => f[i - 1] = g[i - 1]
      BY <1>1
    <3>3. g[i] = IF i = 1 THEN seqs[i] ELSE g[i - 1] \o seqs[i]
      BY <1>4
    <3>4. f[i] = IF i = 1 THEN seqs[i] ELSE f[i - 1] \o seqs[i]
      BY <1>10
    <3> QED  BY <3>1, <3>2, <3>3, <3>4
  <2> HIDE DEF T, N
  <2> QED  BY <1>1, <2>1, <2>2, BoundedInduction DEF T
<1>12. f[N] = h[N]
  <2> HIDE DEF N
  <2>1. N \in 0..N /\ N \in 1..N
    BY <1>1
  <2> QED  BY <1>1, <1>5, <1>11, <2>1
<1>13. h \in [1..N -> Seq(S)]
  <2> HIDE DEF N
  <2> QED  BY <1>5, <1>15
<1>14. h[1] = seqs[1] /\ \A k \in 2..N : h[k] = h[k - 1] \o seqs[k]
  <2> HIDE DEF N
  <2>1. \A i \in 1..N : h[i] = IF i = 1 THEN seqs[i] ELSE h[i - 1] \o seqs[i]
    BY <1>6, Zenon
  <2>2. 1 \in 1..N /\ \A i \in 2..N : i \in 1..N /\ i # 1
    BY <1>1
  <2> QED  BY <2>1, <2>2
<1> QED  BY <1>9, <1>12, <1>13, <1>14

LEMMA FlattenLayout ==
  ASSUME NEW S, NEW seqs \in Seq(Seq(S))
  PROVE  /\ FlattenSeq(seqs) \in Seq(S)
         /\ \E end \in [0..Len(seqs) -> Nat] : IsLayout(FlattenSeq(seqs), seqs, end)
<1>1. CASE seqs = <<>>
  <2>1. FlattenSeq(seqs) = <<>> /\ Len(seqs) = 0
    BY <1>1 DEF FlattenSeq
  <2>2. IsLayout(FlattenSeq(seqs), seqs, [k \in 0..0 |-> 0])
    BY <2>1 DEF IsLayout
  <2> QED  BY <2>1, <2>2
<1>2. CASE seqs # <<>>
  <2> DEFINE N == Len(seqs)
  <2>1. PICK g \in [1..N -> Seq(S)] :
          /\ g[1] = seqs[1] /\ \A k \in 2..N : g[k] = g[k - 1] \o seqs[k]
          /\ FlattenSeq(seqs) = g[N]
    BY <1>2, FlattenIterates
  <2>2. N \in Nat /\ N > 0 /\ \A k \in 1..N : seqs[k] \in Seq(S)
    BY <1>2
  <2> HIDE DEF N
  <2>3. PICK end : end = [k \in 0..N |-> IF k = 0 THEN 0 ELSE Len(g[k])]
    OBVIOUS
  <2>10. \A k \in 1..N : g[k] \in Seq(S)
    OBVIOUS
  <2>4. \A k \in 1..N : Len(g[k]) \in Nat /\ g[k] \in Seq(S) /\ Len(seqs[k]) \in Nat
    BY <2>2, <2>10
  <2>5. end \in [0..N -> Nat] /\ end[0] = 0 /\ end[N] = Len(g[N])
    BY <2>2, <2>3, <2>4
  <2>6. \A k \in 1..N : /\ end[k] = end[k - 1] + Len(seqs[k])
                        /\ \A i \in 1..Len(seqs[k]) : g[k][end[k - 1] + i] = seqs[k][i]
                        /\ k > 1 => \A i \in 1..Len(g[k - 1]) : g[k][i] = g[k - 1][i]
    <3> SUFFICES ASSUME NEW k \in 1..N
                 PROVE  /\ end[k] = end[k - 1] + Len(seqs[k])
                        /\ \A i \in 1..Len(seqs[k]) : g[k][end[k - 1] + i] = seqs[k][i]
                        /\ k > 1 => \A i \in 1..Len(g[k - 1]) : g[k][i] = g[k - 1][i]
      OBVIOUS
    <3>1. CASE k = 1
      BY <2>1, <2>2, <2>3, <2>4, <3>1, SMTT(30)
    <3>2. CASE k # 1
      <4>1. k - 1 \in 1..N /\ k \in 2..N /\ k - 1 # 0 /\ k # 0
        BY <2>2, <3>2
      <4>2. g[k] = g[k - 1] \o seqs[k]
        BY <2>1, <4>1
      <4>3. end[k - 1] = Len(g[k - 1]) /\ end[k] = Len(g[k])
        BY <2>3, <4>1
      <4>4. g[k - 1] \in Seq(S) /\ seqs[k] \in Seq(S) /\ Len(g[k - 1]) \in Nat /\ Len(seqs[k]) \in Nat
        BY <2>2, <2>4, <4>1
      <4>5. /\ Len(g[k]) = Len(g[k - 1]) + Len(seqs[k])
            /\ \A i \in 1..(Len(g[k - 1]) + Len(seqs[k])) :
                 g[k][i] = IF i <= Len(g[k - 1]) THEN g[k - 1][i] ELSE seqs[k][i - Len(g[k - 1])]
        <5>1. PICK a, b, c : a \in Seq(S) /\ b \in Seq(S) /\ a = g[k - 1] /\ b = seqs[k] /\ c = g[k]
          BY <4>4
        <5>2. c = a \o b
          BY <4>2, <5>1
        <5>3. Len(c) = Len(a) + Len(b)
          BY <5>2, ConcatProperties
        <5>4. \A i \in 1..(Len(a) + Len(b)) : c[i] = IF i <= Len(a) THEN a[i] ELSE b[i - Len(a)]
          BY <5>2, ConcatProperties
        <5> QED  BY <5>1, <5>3, <5>4, Zenon
      <4>6. ASSUME NEW i \in 1..Len(seqs[k])  PROVE g[k][end[k - 1] + i] = seqs[k][i]
        <5>1. PICK a, b, j : a = Len(g[k - 1]) /\ b = Len(seqs[k]) /\ j = end[k - 1] + i
          OBVIOUS
        <5>2. a \in Nat /\ b \in Nat /\ j = a + i /\ i \in 1..b
          BY <4>3, <4>4, <5>1
        <5>3. g[k][j] = seqs[k][j - Len(g[k - 1])] /\ j - Len(g[k - 1]) = i
          <6>1. j \in 1..(Len(g[k - 1]) + Len(seqs[k])) /\ ~(j <= Len(g[k - 1])) /\ j - Len(g[k - 1]) = i
            <7>1. j \in 1..(a + b) /\ ~(j <= a) /\ j - a = i
              BY <5>2
            <7> QED  BY <5>1, <7>1
          <6>2. g[k][j] = IF j <= Len(g[k - 1]) THEN g[k - 1][j] ELSE seqs[k][j - Len(g[k - 1])]
            BY <4>5, <6>1
          <6> QED  BY <6>1, <6>2
        <5> QED  BY <5>1, <5>3
      <4>7. \A i \in 1..Len(g[k - 1]) : g[k][i] = g[k - 1][i]
        <5>1. PICK a, b : a = Len(g[k - 1]) /\ b = Len(seqs[k])
          OBVIOUS
        <5>3. a \in Nat /\ b \in Nat
          BY <4>4, <5>1
        <5>2. \A i \in 1..a : i \in 1..(a + b) /\ i <= a
          BY <5>3
        <5> QED  BY <4>5, <5>1, <5>2
      <4> QED  BY <4>3, <4>5, <4>6, <4>7
    <3> QED  BY <3>1, <3>2
  \* Each is a beginning of all later ones.
  <2>7. 0..N \subseteq {m \in 0..N : \A k \in 1..m : /\ Len(g[k]) <= Len(g[m])
                                                      /\ \A i \in 1..Len(g[k]) : g[m][i] = g[k][i]}
    <3> DEFINE P(m) == \A k \in 1..m : /\ Len(g[k]) <= Len(g[m])
                                       /\ \A i \in 1..Len(g[k]) : g[m][i] = g[k][i]
               T == {m \in 0..N : P(m)}
    <3>1. P(0)
      BY <2>2
    <3>2. ASSUME NEW m \in 1..N, P(m - 1)  PROVE P(m)
      <4> SUFFICES ASSUME NEW k \in 1..m
                   PROVE  Len(g[k]) <= Len(g[m]) /\ \A i \in 1..Len(g[k]) : g[m][i] = g[k][i]
        OBVIOUS
      <4>1. k \in 1..N
        BY <2>2
      <4>2. CASE k = m
        BY <2>4, <4>1, <4>2
      <4>3. CASE k # m
        <5>1. k \in 1..(m - 1) /\ m > 1 /\ m - 1 \in 1..N /\ m - 1 # 0
          BY <2>2, <4>3
        <5>2. Len(g[k]) <= Len(g[m - 1]) /\ \A i \in 1..Len(g[k]) : g[m - 1][i] = g[k][i]
          BY <3>2, <5>1
        <5>3. \A i \in 1..Len(g[m - 1]) : g[m][i] = g[m - 1][i]
          BY <2>6, <5>1
        <5>5. Len(g[k]) \in Nat /\ Len(g[m - 1]) \in Nat /\ Len(g[m]) \in Nat
          BY <2>4, <4>1, <5>1
        <5>4. Len(g[m]) >= Len(g[m - 1])
          <6>1. end[m] = Len(g[m]) /\ end[m - 1] = Len(g[m - 1])
            <7>1. m \in 0..N /\ m - 1 \in 0..N /\ m # 0 /\ m - 1 # 0
              BY <2>2, <5>1
            <7> QED  BY <2>3, <7>1
          <6>2. end[m] = end[m - 1] + Len(seqs[m]) /\ Len(seqs[m]) \in Nat
            BY <2>4, <2>6
          <6>3. PICK a, b, c : a = Len(g[m]) /\ b = Len(g[m - 1]) /\ c = Len(seqs[m])
            OBVIOUS
          <6>4. a = b + c /\ b \in Nat /\ c \in Nat
            BY <5>5, <6>1, <6>2, <6>3
          <6>5. a >= b
            BY <6>4
          <6> QED  BY <6>3, <6>5
        <5> QED
          <6>1. PICK a, b, c : a = Len(g[m]) /\ b = Len(g[m - 1]) /\ c = Len(g[k])
            OBVIOUS
          <6>2. c <= a /\ \A i \in 1..c : i \in 1..b
            BY <5>2, <5>4, <5>5, <6>1
          <6> QED  BY <5>2, <5>3, <6>1, <6>2
      <4> QED  BY <4>2, <4>3
    <3> HIDE DEF P
    <3>3. 0 \in T /\ \A m \in 1..N : m - 1 \in T => m \in T
      BY <2>2, <3>1, <3>2
    <3>4. 0..N \subseteq T
      <4> HIDE DEF T
      <4> QED  BY <2>2, <3>3, BoundedInduction
    <3> QED  BY <3>4 DEF P
  <2>8. \A k \in 1..N : \A i \in 1..Len(seqs[k]) : g[N][end[k - 1] + i] = seqs[k][i]
    <3> SUFFICES ASSUME NEW k \in 1..N, NEW i \in 1..Len(seqs[k])  PROVE g[N][end[k - 1] + i] = seqs[k][i]
      OBVIOUS
    <3>1. g[k][end[k - 1] + i] = seqs[k][i]
      BY <2>6
    <3>2. k - 1 \in 0..N /\ end[k - 1] \in Nat /\ end[k] = Len(g[k])
      BY <2>2, <2>3, <2>5
    <3>3. end[k - 1] + i \in 1..Len(g[k])
      BY <2>4, <2>6, <3>2
    <3> QED  BY <2>2, <2>7, <3>1, <3>3
  <2>9. IsLayout(g[N], seqs, end)
    BY <2>5, <2>6, <2>8 DEF IsLayout, N
  <2>11. \E e \in [0..N -> Nat] : IsLayout(FlattenSeq(seqs), seqs, e)
    BY <2>1, <2>5, <2>9
  <2>12. FlattenSeq(seqs) \in Seq(S)
    BY <2>1, <2>2, <2>10
  <2> QED  BY <2>11, <2>12 DEF N
<1> QED  BY <1>1, <1>2

LEMMA LayoutOrder ==
  ASSUME NEW S, NEW seqs \in Seq(Seq(S)), NEW text, NEW end \in [0..Len(seqs) -> Nat], IsLayout(text, seqs, end)
  PROVE  \A j, k \in 0..Len(seqs) : j <= k => end[j] <= end[k]
<1> DEFINE N == Len(seqs)
           P(k) == \A j \in 0..k : end[j] <= end[k]
           T == {k \in 0..N : P(k)}
<1>1. N \in Nat /\ (\A k \in 1..N : seqs[k] \in Seq(S) /\ Len(seqs[k]) \in Nat) /\ end \in [0..N -> Nat]
  OBVIOUS
<1>2. \A k \in 1..N : end[k] = end[k - 1] + Len(seqs[k])
  BY DEF IsLayout
<1> HIDE DEF N
<1>3. P(0)
  <2>1. \A j \in 0..0 : j = 0
    OBVIOUS
  <2> QED  BY <1>1, <2>1
<1>4. ASSUME NEW k \in 1..N, P(k - 1)  PROVE P(k)
  <2> SUFFICES ASSUME NEW j \in 0..k  PROVE end[j] <= end[k]
    OBVIOUS
  <2>1. k - 1 \in 0..N /\ k \in 0..N /\ j \in 0..N /\ (j # k => j \in 0..(k - 1))
    BY <1>1
  <2>2. end[k - 1] \in Nat /\ end[k] \in Nat /\ end[j] \in Nat /\ Len(seqs[k]) \in Nat
    BY <1>1, <2>1
  <2>3. j # k => end[j] <= end[k - 1]
    BY <1>4, <2>1
  <2>4. PICK a, b, c, d : a = end[k - 1] /\ b = end[k] /\ c = end[j] /\ d = Len(seqs[k])
    OBVIOUS
  <2>5. b = a + d /\ a \in Nat /\ b \in Nat /\ c \in Nat /\ d \in Nat /\ (j # k => c <= a) /\ (j = k => c = b)
    BY <1>2, <2>2, <2>3, <2>4
  <2>6. c <= b
    BY ONLY <2>5
  <2> QED  BY <2>4, <2>6
<1> HIDE DEF P
<1>5. 0 \in T /\ \A k \in 1..N : k - 1 \in T => k \in T
  BY <1>1, <1>3, <1>4
<1>6. 0..N \subseteq T
  <2> HIDE DEF T
  <2> QED  BY <1>1, <1>5, BoundedInduction
<1>7. \A k \in 0..N : P(k)
  BY <1>6
<1>8. ASSUME NEW j \in 0..N, NEW k \in 0..N, j <= k  PROVE end[j] <= end[k]
  <2>1. j \in 0..k
    BY <1>1, <1>8
  <2> QED  BY <1>7, <2>1 DEF P
<1> QED  BY <1>8 DEF N

-----------------------------------------------------------------------------
(* Pieces of a sequence: what is behind i, up to j. *)

LEMMA Piece ==
  ASSUME NEW S, NEW s \in Seq(S), NEW i \in Nat, NEW j \in Nat, i <= j, j <= Len(s)
  PROVE  /\ SubSeq(s, i + 1, j) \in Seq(S) /\ Len(SubSeq(s, i + 1, j)) = j - i
         /\ \A m \in 1..(j - i) : SubSeq(s, i + 1, j)[m] = s[i + m]
<1>1. Len(s) \in Nat /\ \A m \in 1..Len(s) : s[m] \in S
  OBVIOUS
<1>2. \A m \in (i + 1)..j : s[m] \in S
  BY <1>1
<1>3. i + 1 \in Int /\ j \in Int
  OBVIOUS
<1>4. /\ SubSeq(s, i + 1, j) \in Seq(S)
      /\ Len(SubSeq(s, i + 1, j)) = IF i + 1 <= j THEN j - (i + 1) + 1 ELSE 0
      /\ \A m \in 1..(j - (i + 1) + 1) : SubSeq(s, i + 1, j)[m] = s[(i + 1) + m - 1]
  BY <1>2, <1>3, SubSeqProperties
<1>5. j - (i + 1) + 1 = j - i /\ (i + 1 <= j \/ j - i = 0)
  OBVIOUS
<1>6. \A m \in 1..(j - i) : (i + 1) + m - 1 = i + m
  OBVIOUS
<1> QED  BY <1>4, <1>5, <1>6

LEMMA PieceEqual ==
  ASSUME NEW S, NEW s \in Seq(S), NEW i \in Nat, NEW j \in Nat, i <= j, j <= Len(s),
         NEW t \in Seq(S), Len(t) = j - i, \A m \in 1..(j - i) : t[m] = s[i + m]
  PROVE  t = SubSeq(s, i + 1, j)
<1>1. PICK u : u = SubSeq(s, i + 1, j)
  OBVIOUS
<1>2. u \in Seq(S) /\ Len(u) = j - i /\ \A m \in 1..(j - i) : u[m] = s[i + m]
  BY <1>1, Piece
<1>3. Len(t) = Len(u) /\ \A m \in 1..Len(t) : t[m] = u[m]
  BY <1>2
<1>4. t = u
  BY <1>2, <1>3, SeqEqual
<1> QED  BY <1>1, <1>4

LEMMA PieceOfPiece ==
  ASSUME NEW S, NEW s \in Seq(S), NEW i \in Nat, NEW j \in Nat, i <= j, j <= Len(s),
         NEW m \in Nat, NEW l \in Nat, m <= l, l <= j - i
  PROVE  SubSeq(SubSeq(s, i + 1, j), m + 1, l) = SubSeq(s, i + m + 1, i + l)
<1>1. PICK t : t = SubSeq(s, i + 1, j)
  OBVIOUS
<1>2. t \in Seq(S) /\ Len(t) = j - i /\ \A k \in 1..(j - i) : t[k] = s[i + k]
  BY <1>1, Piece
<1>3. PICK u : u = SubSeq(t, m + 1, l)
  OBVIOUS
<1>4. u \in Seq(S) /\ Len(u) = l - m /\ \A k \in 1..(l - m) : u[k] = t[m + k]
  BY <1>2, <1>3, Piece
<1>5. i + m \in Nat /\ i + l \in Nat /\ i + m <= i + l /\ Len(s) \in Nat /\ i + l <= Len(s) /\ (i + l) - (i + m) = l - m
  OBVIOUS
<1>6. \A k \in 1..((i + l) - (i + m)) : u[k] = s[(i + m) + k]
  <2> SUFFICES ASSUME NEW k \in 1..(l - m)  PROVE u[k] = s[(i + m) + k]
    BY <1>5
  <2>1. m + k \in 1..(j - i) /\ i + (m + k) = (i + m) + k
    OBVIOUS
  <2> QED  BY <1>2, <1>4, <2>1
<1>7. u = SubSeq(s, (i + m) + 1, i + l)
  BY <1>4, <1>5, <1>6, PieceEqual
<1> QED  BY <1>1, <1>3, <1>7

LEMMA PieceConcat ==
  ASSUME NEW S, NEW s \in Seq(S), NEW i \in Nat, NEW j \in Nat, NEW k \in Nat, i <= j, j <= k, k <= Len(s)
  PROVE  SubSeq(s, i + 1, j) \o SubSeq(s, j + 1, k) = SubSeq(s, i + 1, k)
<1>1. i + 1 \in 1..(Len(s) + 1) /\ j \in ((i + 1) - 1)..Len(s) /\ k \in j..Len(s)
  OBVIOUS
<1> QED  BY <1>1, ConcatAdjacentSubSeq

LEMMA WholePiece ==
  ASSUME NEW S, NEW s \in Seq(S)
  PROVE  SubSeq(s, 1, Len(s)) = s /\ SubSeq(s, 0 + 1, Len(s)) = s /\ SubSeq(s, Len(s) + 1, Len(s)) = <<>>
<1>1. SubSeq(s, 1, Len(s)) = s
  BY SubSeqFull
<1>2. 0 + 1 = 1
  OBVIOUS
<1>3. Len(s) \in Int /\ Len(s) + 1 \in Int /\ Len(s) < Len(s) + 1
  OBVIOUS
<1>4. SubSeq(s, Len(s) + 1, Len(s)) = <<>>
  BY <1>3, SubSeqEmpty
<1> QED  BY <1>1, <1>2, <1>4

LEMMA EmptyPiece ==
  ASSUME NEW S, NEW s \in Seq(S), NEW i \in Nat, NEW j \in Nat, i <= j, j <= Len(s)
  PROVE  SubSeq(s, i + 1, j) = <<>> <=> i = j
<1>1. SubSeq(s, i + 1, j) \in Seq(S) /\ Len(SubSeq(s, i + 1, j)) = j - i
  BY Piece
<1>2. CASE i = j
  <2>1. j < i + 1 /\ i + 1 \in Int /\ j \in Int
    BY <1>2
  <2> QED  BY <1>2, <2>1, SubSeqEmpty
<1>3. CASE i # j
  <2>1. j - i # 0
    BY <1>3
  <2>2. Len(<<>>) = 0
    OBVIOUS
  <2> QED  BY <1>1, <1>3, <2>1, <2>2
<1> QED  BY <1>2, <1>3

-----------------------------------------------------------------------------
(* The text of a form. *)

FormFields == Seq(Characters \ {"=", "&"}) \X Seq(Characters \ {"&"})

\* In text, at[k] is behind k fields and the '&' that follows, if one does.
IsForm(text, form, at) ==
  /\ at[0] = 0 /\ at[Len(form)] = Len(text)
  /\ \A k \in 1..Len(form) :
       /\ at[k] = at[k - 1] + Len(form[k][1]) + 1 + Len(form[k][2]) + IF k = Len(form) THEN 0 ELSE 1
       /\ \A i \in 1..Len(form[k][1]) : text[at[k - 1] + i] = form[k][1][i]
       /\ text[at[k - 1] + Len(form[k][1]) + 1] = "="
       /\ \A i \in 1..Len(form[k][2]) : text[at[k - 1] + Len(form[k][1]) + 1 + i] = form[k][2][i]
       /\ k # Len(form) => text[at[k]] = "&"

LEMMA FieldElements ==
  ASSUME NEW f \in FormFields
  PROVE  /\ Field(f) \in Seq(Characters) /\ Len(Field(f)) = Len(f[1]) + 1 + Len(f[2])
         /\ \A i \in 1..Len(f[1]) : Field(f)[i] = f[1][i]
         /\ Field(f)[Len(f[1]) + 1] = "="
         /\ \A i \in 1..Len(f[2]) : Field(f)[Len(f[1]) + 1 + i] = f[2][i]
<1>1. PICK a, b, e : a = f[1] /\ b = f[2] /\ e = <<"=">>
  OBVIOUS
<1>2. a \in Seq(Characters) /\ b \in Seq(Characters)
  <2>1. a \in Seq(Characters \ {"=", "&"}) /\ b \in Seq(Characters \ {"&"})
    BY <1>1 DEF FormFields
  <2>2. Characters \ {"=", "&"} \subseteq Characters /\ Characters \ {"&"} \subseteq Characters
    OBVIOUS
  <2> QED  BY <2>1, <2>2, SeqMonotonic
<1>3. e \in Seq(Characters) /\ Len(e) = 1 /\ e[1] = "="
  <2>1. "=" \in Characters
    BY CharactersAssumption
  <2> QED  BY <1>1, <2>1, Singleton
<1>4. PICK c : c = a \o e
  OBVIOUS
<1>5. /\ c \in Seq(Characters) /\ Len(c) = Len(a) + 1
      /\ \A i \in 1..(Len(a) + Len(e)) : c[i] = IF i <= Len(a) THEN a[i] ELSE e[i - Len(a)]
  <2>1. /\ c \in Seq(Characters) /\ Len(c) = Len(a) + Len(e)
        /\ \A i \in 1..(Len(a) + Len(e)) : c[i] = IF i <= Len(a) THEN a[i] ELSE e[i - Len(a)]
    BY <1>2, <1>3, <1>4, ConcatProperties
  <2> QED  BY <1>3, <2>1
<1>6. PICK d : d = c \o b
  OBVIOUS
<1>7. /\ d \in Seq(Characters) /\ Len(d) = Len(c) + Len(b)
      /\ \A i \in 1..(Len(c) + Len(b)) : d[i] = IF i <= Len(c) THEN c[i] ELSE b[i - Len(c)]
  BY <1>2, <1>5, <1>6, ConcatProperties
<1>8. Field(f) = d
  BY <1>1, <1>4, <1>6 DEF Field
<1>9. PICK m, n : m = Len(a) /\ n = Len(b)
  OBVIOUS
<1>10. m \in Nat /\ n \in Nat /\ Len(c) = m + 1 /\ Len(d) = m + 1 + n
  BY <1>2, <1>5, <1>7, <1>9
<1>11. ASSUME NEW i \in 1..m  PROVE d[i] = a[i]
  <2>1. i \in 1..(m + 1) /\ i <= m + 1 /\ i \in 1..(m + 1 + n) /\ i <= m
    BY <1>10
  <2> QED  BY <1>3, <1>5, <1>7, <1>9, <1>10, <2>1
<1>12. d[m + 1] = "="
  <2>1. m + 1 \in 1..(m + 1) /\ m + 1 <= m + 1 /\ m + 1 \in 1..(m + 1 + n) /\ ~(m + 1 <= m) /\ m + 1 - m = 1
    BY <1>10
  <2> QED  BY <1>3, <1>5, <1>7, <1>9, <1>10, <2>1
<1>13. ASSUME NEW i \in 1..n  PROVE d[m + 1 + i] = b[i]
  <2>1. m + 1 + i \in 1..(m + 1 + n) /\ ~(m + 1 + i <= m + 1) /\ m + 1 + i - (m + 1) = i
    BY <1>10
  <2> QED  BY <1>7, <1>9, <1>10, <2>1
<1> QED  BY <1>1, <1>7, <1>8, <1>9, <1>10, <1>11, <1>12, <1>13

LEMMA FormText ==
  ASSUME NEW form \in Seq(FormFields)
  PROVE  /\ Body(form) \in Seq(Characters)
         /\ \E at \in [0..Len(form) -> Nat] : IsForm(Body(form), form, at)
<1> DEFINE n == Len(form)
           Part(k) == IF k = 1 THEN Field(form[k]) ELSE <<"&">> \o Field(form[k])
<1>1. n \in Nat /\ \A k \in 1..n : form[k] \in FormFields
  OBVIOUS
<1>2. PICK seqs : seqs = [k \in 1..n |-> Part(k)]
  OBVIOUS
<1>3. Body(form) = FlattenSeq(seqs)
  BY <1>2 DEF Body
<1> HIDE DEF n
<1>4. \A k \in 1..n :
        /\ seqs[k] \in Seq(Characters)
        /\ Len(seqs[k]) = Len(Field(form[k])) + IF k = 1 THEN 0 ELSE 1
        /\ k # 1 => seqs[k][1] = "&"
        /\ \A i \in 1..Len(Field(form[k])) : seqs[k][i + IF k = 1 THEN 0 ELSE 1] = Field(form[k])[i]
  <2> SUFFICES ASSUME NEW k \in 1..n
               PROVE  /\ seqs[k] \in Seq(Characters)
                      /\ Len(seqs[k]) = Len(Field(form[k])) + IF k = 1 THEN 0 ELSE 1
                      /\ k # 1 => seqs[k][1] = "&"
                      /\ \A i \in 1..Len(Field(form[k])) : seqs[k][i + IF k = 1 THEN 0 ELSE 1] = Field(form[k])[i]
    OBVIOUS
  <2>1. Field(form[k]) \in Seq(Characters)
    BY <1>1, FieldElements
  <2>2. PICK f \in Seq(Characters) : f = Field(form[k])
    BY <2>1
  <2>3. Len(f) \in Nat
    OBVIOUS
  <2>4. CASE k = 1
    <3>1. seqs[k] = f
      BY <1>2, <2>2, <2>4
    <3>2. \A i \in 1..Len(f) : i + 0 = i
      OBVIOUS
    <3> QED  BY <2>2, <2>3, <2>4, <3>1, <3>2
  <2>5. CASE k # 1
    <3>1. PICK s : s = <<"&">> \o f
      OBVIOUS
    <3>2. /\ s \in Seq(Characters) /\ Len(s) = Len(f) + 1
          /\ \A i \in 1..(Len(f) + 1) : s[i] = IF i = 1 THEN "&" ELSE f[i - 1]
      <4>1. "&" \in Characters
        BY CharactersAssumption
      <4> QED  BY <3>1, <4>1, PushType
    <3>3. s[1] = "&" /\ \A i \in 1..Len(f) : i + 1 \in 1..(Len(f) + 1) /\ i + 1 # 1 /\ i + 1 - 1 = i
      BY <2>3, <3>2
    <3>4. \A i \in 1..Len(f) : s[i + 1] = f[i]
      BY <3>2, <3>3
    <3>5. seqs[k] = s
      BY <1>2, <2>2, <2>5, <3>1
    <3> QED  BY <2>2, <2>5, <3>2, <3>3, <3>4, <3>5
  <2> QED  BY <2>4, <2>5
<1>5. seqs \in Seq(Seq(Characters)) /\ Len(seqs) = n
  BY <1>1, <1>2, <1>4
<1>6. PICK B : B = Body(form)
  OBVIOUS
<1>7. B \in Seq(Characters)
  BY <1>3, <1>5, <1>6, FlattenLayout
<1>8. PICK end \in [0..n -> Nat] : IsLayout(B, seqs, end)
  BY <1>3, <1>5, <1>6, FlattenLayout
<1>9. PICK at : at = [k \in 0..n |-> IF k = 0 \/ k = n THEN end[k] ELSE end[k] + 1]
  OBVIOUS
<1>10. at \in [0..n -> Nat]
  BY <1>9
<1>11. at[0] = 0 /\ at[n] = Len(B)
  BY <1>1, <1>5, <1>8, <1>9 DEF IsLayout
<1>12. ASSUME NEW k \in 1..n
       PROVE  /\ at[k] = at[k - 1] + Len(form[k][1]) + 1 + Len(form[k][2]) + IF k = n THEN 0 ELSE 1
              /\ \A i \in 1..Len(form[k][1]) : B[at[k - 1] + i] = form[k][1][i]
              /\ B[at[k - 1] + Len(form[k][1]) + 1] = "="
              /\ \A i \in 1..Len(form[k][2]) : B[at[k - 1] + Len(form[k][1]) + 1 + i] = form[k][2][i]
              /\ k # n => B[at[k]] = "&"
  <2>1. PICK f : f = Field(form[k])
    OBVIOUS
  <2>2. PICK p, q, d, m : p = Len(form[k][1]) /\ q = Len(form[k][2]) /\ d = (IF k = 1 THEN 0 ELSE 1) /\ m = end[k - 1]
    OBVIOUS
  <2>3. form[k] \in FormFields /\ form[k][1] \in Seq(Characters \ {"=", "&"}) /\ form[k][2] \in Seq(Characters \ {"&"})
    BY <1>1 DEF FormFields
  <2>4. p \in Nat /\ q \in Nat /\ d \in {0, 1} /\ (d = 0 <=> k = 1)
    BY <2>2, <2>3, LenProperties
  <2>5. /\ f \in Seq(Characters) /\ Len(f) = p + 1 + q
        /\ \A i \in 1..p : f[i] = form[k][1][i]
        /\ f[p + 1] = "="
        /\ \A i \in 1..q : f[p + 1 + i] = form[k][2][i]
    BY <2>1, <2>2, <2>3, FieldElements
  <2>6. /\ Len(seqs[k]) = p + 1 + q + d
        /\ k # 1 => seqs[k][1] = "&"
        /\ \A i \in 1..(p + 1 + q) : seqs[k][i + d] = f[i]
    <3>1. /\ Len(seqs[k]) = Len(f) + d
          /\ k # 1 => seqs[k][1] = "&"
          /\ \A i \in 1..Len(f) : seqs[k][i + d] = f[i]
      BY <1>4, <2>1, <2>2
    <3> QED  BY <2>5, <3>1
  <2>7. k - 1 \in 0..n /\ k \in 0..n /\ (k - 1 = 0 <=> k = 1) /\ k # 0 /\ k - 1 # n
    BY <1>1
  <2>8. /\ end[k] = end[k - 1] + Len(seqs[k])
        /\ \A i \in 1..Len(seqs[k]) : B[end[k - 1] + i] = seqs[k][i]
    BY <1>5, <1>8 DEF IsLayout
  <2>9. m \in Nat /\ end[k] = m + (p + 1 + q + d) /\ \A i \in 1..(p + 1 + q + d) : B[m + i] = seqs[k][i]
    BY <2>2, <2>6, <2>7, <2>8
  <2>10. at[k - 1] = m + d
    BY <1>9, <2>2, <2>4, <2>7, <2>9
  <2>11. at[k] = end[k] + IF k = n THEN 0 ELSE 1
    BY <1>9, <2>4, <2>7, <2>9
  <2>12. at[k] = at[k - 1] + p + 1 + q + IF k = n THEN 0 ELSE 1
    BY <2>4, <2>9, <2>10, <2>11
  <2>13. \A i \in 1..(p + 1 + q) : B[at[k - 1] + i] = f[i]
    <3> SUFFICES ASSUME NEW i \in 1..(p + 1 + q)  PROVE B[at[k - 1] + i] = f[i]
      OBVIOUS
    <3>1. i + d \in 1..(p + 1 + q + d) /\ m + (i + d) = at[k - 1] + i
      BY <2>4, <2>9, <2>10
    <3> QED  BY <2>6, <2>9, <3>1
  <2>14. ASSUME NEW i \in 1..p  PROVE B[at[k - 1] + i] = form[k][1][i]
    <3>1. i \in 1..(p + 1 + q)
      BY <2>4
    <3> QED  BY <2>5, <2>13, <3>1
  <2>15. B[at[k - 1] + p + 1] = "="
    <3>1. p + 1 \in 1..(p + 1 + q) /\ at[k - 1] + (p + 1) = at[k - 1] + p + 1
      BY <2>4, <2>9, <2>10
    <3> QED  BY <2>5, <2>13, <3>1
  <2>16. ASSUME NEW i \in 1..q  PROVE B[at[k - 1] + p + 1 + i] = form[k][2][i]
    <3>2. at[k - 1] \in Nat /\ p \in Nat /\ q \in Nat
      BY <1>10, <2>4, <2>7
    <3>1. p + 1 + i \in 1..(p + 1 + q) /\ at[k - 1] + (p + 1 + i) = at[k - 1] + p + 1 + i
      BY <3>2
    <3> QED  BY <2>5, <2>13, <3>1
  <2>17. ASSUME k # n  PROVE B[at[k]] = "&"
    <3>1. k + 1 \in 1..n /\ k + 1 # 1 /\ (k + 1) - 1 = k
      BY <1>1, <2>17
    <3>2. /\ seqs[k + 1][1] = "&" /\ Len(seqs[k + 1]) = Len(Field(form[k + 1])) + 1
          /\ \A i \in 1..Len(seqs[k + 1]) : B[end[k] + i] = seqs[k + 1][i]
      <4>1. PICK j \in 1..n : j = k + 1
        BY <3>1
      <4>2. j - 1 = k /\ j # 1
        BY <3>1, <4>1
      <4>3. \A i \in 1..Len(seqs[j]) : B[end[j - 1] + i] = seqs[j][i]
        BY <1>5, <1>8 DEF IsLayout
      <4>4. seqs[j][1] = "&" /\ Len(seqs[j]) = Len(Field(form[j])) + 1
        BY <1>4, <4>2
      <4> QED  BY <4>1, <4>2, <4>3, <4>4
    <3>3. Len(Field(form[k + 1])) \in Nat
      BY <1>1, <3>1, FieldElements
    <3>4. 1 \in 1..Len(seqs[k + 1])
      BY <3>2, <3>3
    <3> QED  BY <2>11, <2>17, <3>2, <3>4
  <2> QED  BY <2>2, <2>12, <2>14, <2>15, <2>16, <2>17
<1>13. IsForm(B, form, at)
  BY <1>11, <1>12 DEF IsForm, n
<1> QED  BY <1>6, <1>7, <1>10, <1>13 DEF n

\* Fields behind one another.
LEMMA FieldOrder ==
  ASSUME NEW form \in Seq(FormFields), NEW B \in Seq(Characters), NEW at \in [0..Len(form) -> Nat], IsForm(B, form, at)
  PROVE  \A j, k \in 0..Len(form) : /\ j <= k => at[j] <= at[k]
                                    /\ j < k => at[j] < at[k]
                                    /\ at[k] <= Len(B)
<1> DEFINE n == Len(form)
           P(k) == \A j \in 0..k : at[j] <= at[k] /\ (j < k => at[j] < at[k])
           T == {k \in 0..n : P(k)}
<1>1. n \in Nat /\ (\A k \in 1..n : form[k] \in FormFields) /\ at \in [0..n -> Nat] /\ at[n] = Len(B)
  BY DEF IsForm
<1>2. \A k \in 1..n : at[k] > at[k - 1]
  <2> SUFFICES ASSUME NEW k \in 1..n  PROVE at[k] > at[k - 1]
    OBVIOUS
  <2>1. PICK p, q, d, a, b : /\ p = Len(form[k][1]) /\ q = Len(form[k][2]) /\ d = (IF k = n THEN 0 ELSE 1)
                             /\ a = at[k - 1] /\ b = at[k]
    OBVIOUS
  <2>2. form[k][1] \in Seq(Characters \ {"=", "&"}) /\ form[k][2] \in Seq(Characters \ {"&"})
    BY <1>1 DEF FormFields
  <2>3. p \in Nat /\ q \in Nat /\ d \in {0, 1}
    BY <2>1, <2>2, LenProperties
  <2>4. k - 1 \in 0..n
    BY <1>1
  <2>5. a \in Nat /\ b = a + p + 1 + q + d
    BY <1>1, <2>1, <2>4 DEF IsForm
  <2>6. b > a
    BY <2>3, <2>5
  <2> QED  BY <2>1, <2>6
<1> HIDE DEF n
<1>3. P(0)
  <2>1. \A j \in 0..0 : j = 0
    OBVIOUS
  <2> QED  BY <1>1, <2>1
<1>4. ASSUME NEW k \in 1..n, P(k - 1)  PROVE P(k)
  <2> SUFFICES ASSUME NEW j \in 0..k  PROVE at[j] <= at[k] /\ (j < k => at[j] < at[k])
    OBVIOUS
  <2>1. k - 1 \in 0..n /\ k \in 0..n /\ j \in 0..n /\ (j # k => j \in 0..(k - 1)) /\ (j < k => j # k)
    BY <1>1
  <2>2. at[k - 1] \in Nat /\ at[k] \in Nat /\ at[j] \in Nat
    BY <1>1, <2>1
  <2>3. j # k => at[j] <= at[k - 1]
    BY <1>4, <2>1
  <2>4. at[k] > at[k - 1]
    BY <1>2
  <2> QED  BY <2>1, <2>2, <2>3, <2>4
<1> HIDE DEF P
<1>5. 0 \in T /\ \A k \in 1..n : k - 1 \in T => k \in T
  BY <1>1, <1>3, <1>4
<1>6. 0..n \subseteq T
  <2> HIDE DEF T
  <2> QED  BY <1>1, <1>5, BoundedInduction
<1>7. \A k \in 0..n : P(k)
  BY <1>6
<1>8. ASSUME NEW j \in 0..n, NEW k \in 0..n
      PROVE  (j <= k => at[j] <= at[k]) /\ (j < k => at[j] < at[k]) /\ at[k] <= Len(B)
  <2>1. (j <= k => j \in 0..k) /\ k \in 0..n /\ n \in 0..n /\ (j < k => j \in 0..k)
    BY <1>1
  <2>2. at[k] <= at[n]
    BY <1>7, <2>1 DEF P
  <2> QED  BY <1>1, <1>7, <2>1, <2>2 DEF P
<1> QED  BY <1>8 DEF n

-----------------------------------------------------------------------------
(* Types. *)

Bytes == 0..(Byte - 1)
Text == Seq(1..(Byte - 1))
Pair == {p \in Text \X Text : \A i \in 1..2 : Len(p[i]) < HighBit * Byte * Byte * Byte}
Group == {g \in Seq(Symbols) : Len(g) \in 1..3}
Phases == {"begin", "params", "announced", "responding", "ended"}

LEMMA ByteSize == Byte \in Nat /\ Byte >= 4 /\ HighBit \in Nat /\ HighBit >= 2 /\ 2 * HighBit = Byte /\ Word \in Nat /\ Word = Byte * Byte /\ Word >= 16
BY ByteAssumption DEF HighBit, Word

LEMMA Retype ==
  ASSUME NEW S, NEW s \in Seq(S), NEW T, \A k \in 1..Len(s) : s[k] \in T
  PROVE  s \in Seq(T)
<1>1. Len(s) \in Nat /\ s = [k \in 1..Len(s) |-> s[k]]
  OBVIOUS
<1>2. [k \in 1..Len(s) |-> s[k]] \in [1..Len(s) -> T]
  OBVIOUS
<1> QED  BY <1>1, <1>2

LEMMA HeadersType == Headers \in Seq(Pair)
<1>1. Headers \in Seq(Seq(1..(EqualsSign - 1)) \X Seq(1..(Byte - 1)))
  BY FormAssumption
<1>2. \A k \in 1..Len(Headers) : \A i \in 1..2 : Len(Headers[k][i]) < HighBit * Byte * Byte * Byte
  BY FormAssumption
<1>3. ASSUME NEW k \in 1..Len(Headers)  PROVE Headers[k] \in Pair
  <2>1. Headers[k] \in Seq(1..(EqualsSign - 1)) \X Seq(1..(Byte - 1))
    BY <1>1
  <2>2. 1..(EqualsSign - 1) \subseteq 1..(Byte - 1)
    BY ByteSize DEF EqualsSign
  <2>3. Headers[k][1] \in Text /\ Headers[k][2] \in Text /\ Headers[k] \in Text \X Text
    <3>1. PICK a \in Seq(1..(EqualsSign - 1)), b \in Seq(1..(Byte - 1)) : Headers[k] = <<a, b>>
      BY <2>1
    <3>2. a \in Text
      BY <2>2, SeqMonotonic DEF Text
    <3> QED  BY <3>1, <3>2 DEF Text
  <2> QED  BY <1>2, <2>3 DEF Pair
<1> QED  BY <1>1, <1>3, Retype

LEMMA Division ==
  ASSUME NEW n \in Nat, NEW b \in Nat, b > 0
  PROVE  /\ n = b * (n \div b) + (n % b) /\ n \div b \in Nat /\ n % b \in 0..(b - 1)
         /\ \A m \in Nat : n < m * b => n \div b < m
<1>1. n = b * (n \div b) + (n % b) /\ n \div b \in Nat /\ n % b \in 0..(b - 1)
  OBVIOUS
<1>2. ASSUME NEW m \in Nat, n < m * b  PROVE n \div b < m
  BY <1>2
<1> QED  BY <1>1, <1>2

\* The bytes of a length: one, or four that tell it.
LEMMA LengthEncoded ==
  ASSUME NEW n \in Nat, n < HighBit * Byte * Byte * Byte
  PROVE  \/ n < HighBit /\ EncodedLength(n) = <<n>>
         \/ \E a \in 0..(HighBit - 1), b, c, d \in Bytes :
              n >= HighBit /\ EncodedLength(n) = <<HighBit + a, b, c, d>> /\ n = ((a * Byte + b) * Byte + c) * Byte + d
<1>1. CASE n < HighBit
  BY <1>1 DEF EncodedLength
<1>2. CASE ~(n < HighBit)
  <2>1. PICK x, y, a, b, c, d : /\ x = n \div Byte /\ y = x \div Byte /\ a = y \div Byte
                                /\ d = n % Byte /\ c = x % Byte /\ b = y % Byte
    OBVIOUS
  <2>2. Byte \in Nat /\ Byte > 0 /\ HighBit \in Nat
    BY ByteSize
  <2>3. PICK h : h = HighBit * Byte
    OBVIOUS
  <2>4. PICK g : g = h * Byte
    OBVIOUS
  <2>5. h \in Nat /\ g \in Nat /\ HighBit * Byte * Byte * Byte = g * Byte
    BY <2>2, <2>3, <2>4
  <2>6. n = Byte * x + d /\ x \in Nat /\ d \in 0..(Byte - 1) /\ x < g
    BY <2>1, <2>2, <2>5, Division
  <2>7. x = Byte * y + c /\ y \in Nat /\ c \in 0..(Byte - 1) /\ y < h
    BY <2>1, <2>2, <2>4, <2>5, <2>6, Division
  <2>8. y = Byte * a + b /\ a \in Nat /\ b \in 0..(Byte - 1) /\ a < HighBit
    BY <2>1, <2>2, <2>3, <2>7, Division
  <2>9. n = ((a * Byte + b) * Byte + c) * Byte + d
    BY <2>2, <2>6, <2>7, <2>8
  <2>10. EncodedLength(n) = <<HighBit + a, b, c, d>>
    BY <1>2, <2>1 DEF EncodedLength
  <2>11. a \in 0..(HighBit - 1) /\ b \in Bytes /\ c \in Bytes /\ d \in Bytes /\ n >= HighBit
    BY <1>2, <2>2, <2>6, <2>7, <2>8 DEF Bytes
  <2> QED  BY <2>9, <2>10, <2>11
<1> QED  BY <1>1, <1>2

LEMMA LengthBytes ==
  ASSUME NEW n \in Nat, n < HighBit * Byte * Byte * Byte
  PROVE  EncodedLength(n) \in Seq(Bytes) /\ Len(EncodedLength(n)) = IF n < HighBit THEN 1 ELSE 4
<1>1. CASE n < HighBit /\ EncodedLength(n) = <<n>>
  <2>1. n \in Bytes
    BY <1>1, ByteSize DEF Bytes
  <2> QED  BY <1>1, <2>1
<1>2. ASSUME NEW a \in 0..(HighBit - 1), NEW b \in Bytes, NEW c \in Bytes, NEW d \in Bytes,
             n >= HighBit, EncodedLength(n) = <<HighBit + a, b, c, d>>
      PROVE  EncodedLength(n) \in Seq(Bytes) /\ Len(EncodedLength(n)) = IF n < HighBit THEN 1 ELSE 4
  <2>1. HighBit + a \in Bytes
    BY ByteSize DEF Bytes
  <2>2. PICK e \in Bytes : e = HighBit + a
    BY <2>1
  <2>3. EncodedLength(n) = <<e, b, c, d>>
    BY <1>2, <2>2
  <2>4. <<e, b, c, d>> \in Seq(Bytes) /\ Len(<<e, b, c, d>>) = 4
    OBVIOUS
  <2>5. ~(n < HighBit)
    BY <1>2, ByteSize
  <2> QED  BY <2>3, <2>4, <2>5
<1> QED  BY <1>1, <1>2, LengthEncoded

LEMMA PairBytes ==
  ASSUME NEW p \in Pair
  PROVE  /\ EncodedPair(p) \in Seq(Bytes) /\ Len(p[1]) \in Nat /\ Len(p[2]) \in Nat
         /\ EncodedLength(Len(p[1])) \in Seq(Bytes) /\ EncodedLength(Len(p[2])) \in Seq(Bytes)
         /\ p[1] \in Seq(Bytes) /\ p[2] \in Seq(Bytes)
<1>1. p[1] \in Text /\ p[2] \in Text /\ \A i \in 1..2 : Len(p[i]) < HighBit * Byte * Byte * Byte
  BY DEF Pair
<1>2. 1..(Byte - 1) \subseteq Bytes
  BY DEF Bytes
<1>3. p[1] \in Seq(Bytes) /\ p[2] \in Seq(Bytes)
  BY <1>1, <1>2, SeqMonotonic DEF Text
<1>4. Len(p[1]) \in Nat /\ Len(p[2]) \in Nat
  BY <1>3, LenProperties
<1>5. EncodedLength(Len(p[1])) \in Seq(Bytes) /\ EncodedLength(Len(p[2])) \in Seq(Bytes)
  BY <1>1, <1>4, LengthBytes
<1> QED  BY <1>3, <1>4, <1>5, ConcatProperties DEF EncodedPair

LEMMA ParametersType == ParameterBytes \in Seq(Bytes)
<1>1. PICK seqs : seqs = [k \in 1..Len(Headers) |-> EncodedPair(Headers[k])]
  OBVIOUS
<1>2. \A k \in 1..Len(Headers) : EncodedPair(Headers[k]) \in Seq(Bytes)
  BY HeadersType, PairBytes
<1>3. seqs \in Seq(Seq(Bytes))
  <2>1. Len(Headers) \in Nat
    BY HeadersType
  <2> QED  BY <1>1, <1>2, <2>1
<1>4. ParameterBytes = FlattenSeq(seqs)
  BY <1>1 DEF ParameterBytes
<1> QED  BY <1>3, <1>4, FlattenLayout

LEMMA FormType == \A form \in Forms \union {<<>>} : form \in Seq(FormFields) /\ Body(form) \in Seq(Characters)
<1>1. ASSUME NEW form \in Forms \union {<<>>}  PROVE form \in Seq(FormFields)
  <2>1. CASE form \in Forms
    BY <2>1, FormAssumption DEF FormFields
  <2>2. CASE form = <<>>
    BY <2>2
  <2> QED  BY <2>1, <2>2
<1> QED  BY <1>1, FormText

LEMMA NoText == Body(<<>>) = <<>>
BY DEF Body, FlattenSeq

LEMMA PartType ==
  ASSUME NEW part \in Seq(Symbols) \X Seq(Symbols)
  PROVE  PartText(part) \in Seq(Symbols)
<1>1. PICK h \in Seq(Symbols), c \in Seq(Symbols) : part = <<h, c>>
  OBVIOUS
<1>2. LineEnd \in Symbols /\ Dashes \in Symbols /\ Boundary \in Symbols
  BY BufferAssumption
<1>3. Delimiter \in Seq(Symbols) /\ <<LineEnd>> \in Seq(Symbols) /\ \A s \in Symbols : <<s, LineEnd>> \in Seq(Symbols)
  BY <1>2 DEF Delimiter
<1>4. PICK seqs : seqs = [k \in 1..Len(h) |-> <<h[k], LineEnd>>]
  OBVIOUS
<1>5. seqs \in Seq(Seq(Symbols))
  <2>1. Len(h) \in Nat /\ \A k \in 1..Len(h) : h[k] \in Symbols
    OBVIOUS
  <2>2. \A k \in 1..Len(h) : <<h[k], LineEnd>> \in Seq(Symbols)
    BY <1>3, <2>1
  <2> QED  BY <1>4, <2>1, <2>2
<1>6. FlattenSeq(seqs) \in Seq(Symbols)
  BY <1>5, FlattenLayout
<1>7. PartText(part) = Delimiter \o <<LineEnd>> \o FlattenSeq(seqs) \o <<LineEnd>> \o c
  BY <1>1, <1>4 DEF PartText
<1>8. PICK d \in Seq(Symbols), l \in Seq(Symbols), f \in Seq(Symbols) : d = Delimiter /\ l = <<LineEnd>> /\ f = FlattenSeq(seqs)
  BY <1>3, <1>6
<1>9. d \o l \o f \o l \o c \in Seq(Symbols)
  OBVIOUS
<1> QED  BY <1>7, <1>8, <1>9

DocumentType ==
  [boundaryGiven : BOOLEAN, preamble : Seq(Symbols), parts : Seq(Seq(Symbols) \X Seq(Symbols)) \ {<<>>}]

LEMMA DocumentsType == Documents \subseteq DocumentType
<1> SUFFICES ASSUME NEW d \in Documents  PROVE d \in DocumentType
  OBVIOUS
<1>1. d \in [boundaryGiven : BOOLEAN, preamble : Seq(Symbols), parts : Seq(Seq(Symbols \ {LineEnd}) \X Seq(Symbols))]
      /\ d.parts # <<>>
  BY FormAssumption
<1>2. Symbols \ {LineEnd} \subseteq Symbols
  OBVIOUS
<1>3. Seq(Symbols \ {LineEnd}) \X Seq(Symbols) \subseteq Seq(Symbols) \X Seq(Symbols)
  <2>1. \A h \in Seq(Symbols \ {LineEnd}) : h \in Seq(Symbols)
    BY <1>2, SeqMonotonic
  <2> QED  BY <2>1
<1>4. d.parts \in Seq(Seq(Symbols) \X Seq(Symbols))
  BY <1>1, <1>3, SeqMonotonic
<1> QED  BY <1>1, <1>4 DEF DocumentType

LEMMA DocumentTextType ==
  ASSUME NEW d \in DocumentType
  PROVE  DocumentText(d) \in Seq(Symbols)
<1>1. PICK seqs : seqs = [k \in 1..Len(d.parts) |-> PartText(d.parts[k])]
  OBVIOUS
<1>2. Len(d.parts) \in Nat /\ Len(d.parts) > 0 /\ d.preamble \in Seq(Symbols)
      /\ \A k \in 1..Len(d.parts) : d.parts[k] \in Seq(Symbols) \X Seq(Symbols)
  BY DEF DocumentType
<1>3. seqs \in Seq(Seq(Symbols)) /\ Len(seqs) = Len(d.parts)
  <2>1. \A k \in 1..Len(d.parts) : PartText(d.parts[k]) \in Seq(Symbols)
    BY <1>2, PartType
  <2>2. PICK n \in Nat : n = Len(d.parts)
    BY <1>2
  <2>3. seqs = [k \in 1..n |-> seqs[k]] /\ \A k \in 1..n : seqs[k] \in Seq(Symbols)
    BY <1>1, <2>1, <2>2
  <2>4. seqs \in Seq(Seq(Symbols)) /\ Len(seqs) = n
    BY <2>3
  <2> QED  BY <2>2, <2>4
<1>4. FlattenSeq(seqs) \in Seq(Symbols)
  BY <1>3, FlattenLayout
<1>5. PICK rest : rest = d.preamble \o FlattenSeq(seqs)
  OBVIOUS
<1>6. rest \in Seq(Symbols)
  BY <1>2, <1>4, <1>5, ConcatProperties
<1>7. LineEnd \in Symbols /\ Dashes \in Symbols /\ Boundary \in Symbols /\ BoundaryHeader \in Symbols
  BY BufferAssumption
<1>8. Delimiter \in Seq(Symbols) /\ <<LineEnd>> \in Seq(Symbols) /\ <<Dashes, LineEnd>> \in Seq(Symbols)
      /\ <<BoundaryHeader, LineEnd, LineEnd>> \in Seq(Symbols)
  BY <1>7 DEF Delimiter
<1>10. PICK a \in Seq(Symbols), b \in Seq(Symbols), e \in Seq(Symbols), f \in Seq(Symbols) :
         /\ a = IF d.boundaryGiven THEN <<LineEnd>> ELSE <<BoundaryHeader, LineEnd, LineEnd>>
         /\ b = IF d.preamble = <<>> THEN SubSeq(rest, 2, Len(rest)) ELSE rest
         /\ e = Delimiter /\ f = <<Dashes, LineEnd>>
  <2>1. SubSeq(rest, 2, Len(rest)) \in Seq(Symbols)
    <3>1. Len(rest) \in Int /\ \A i \in 2..Len(rest) : rest[i] \in Symbols
      BY <1>6
    <3> QED  BY <3>1, SubSeqProperties
  <2>2. (IF d.preamble = <<>> THEN SubSeq(rest, 2, Len(rest)) ELSE rest) \in Seq(Symbols)
    BY <1>6, <2>1
  <2>3. (IF d.boundaryGiven THEN <<LineEnd>> ELSE <<BoundaryHeader, LineEnd, LineEnd>>) \in Seq(Symbols)
    BY <1>8
  <2> QED  BY <1>8, <2>2, <2>3
<1>11. DocumentText(d) = a \o b \o e \o f
  <2>1. DocumentText(d) = (IF d.boundaryGiven THEN <<LineEnd>> ELSE <<BoundaryHeader, LineEnd, LineEnd>>)
            \o (IF d.preamble = <<>> THEN SubSeq(rest, 2, Len(rest)) ELSE rest) \o Delimiter \o <<Dashes, LineEnd>>
    BY <1>1, <1>5, Zenon DEF DocumentText
  <2> QED  BY <1>10, <2>1, Zenon
<1>12. a \o b \o e \o f \in Seq(Symbols)
  OBVIOUS
<1> QED  BY <1>11, <1>12

LinkOK ==
  \/ /\ link.transport \in Transports /\ link.use \in {"values", "stream"} /\ link.form \in Forms
     /\ link.transport = "FCGI" => link.sent \in Begins
  \/ /\ link.transport = "none" /\ link.form = <<>>
     /\ \/ link.use = "parts" /\ link.sent \in Documents
        \/ link.use = "base64" /\ link.sent \in Groups

ClientOK == client \in [params : Seq(Bytes), body : Seq(Characters), wholePairs : BOOLEAN, wholeFields : BOOLEAN]

RequestOK ==
  /\ request \in [phase : Phases, closes : BOOLEAN, params : {request.params}, arrived : Seq(Characters),
                  position : Nat, reads : Nat, signalled : BOOLEAN, data : Seq(Characters), gaveUp : BOOLEAN]
  /\ request.position <= Len(request.arrived)

ResponseOK == response \in [written : Seq(Nat), records : {response.records}]

ReaderOK == source \in Seq(Characters) /\ reader \in Reader

MimeOK == device \in Seq(Symbols) /\ mime \in Mime

DecoderOK ==
  /\ decoder \in [encoded : Seq(Group), decoded : Seq(Symbols), read : Seq(Symbols), size : Nat, room : Nat,
                  state : {"reading", "over", "failed"}]
  /\ Len(decoder.decoded) < 3 /\ (decoder.room > 0 => decoder.size > 0)

Amount == broken \/ Len(request.arrived) + Len(client.body) = Len(Body(link.form))

Types ==
  LinkOK /\ ClientOK /\ RequestOK /\ ResponseOK /\ ReaderOK /\ MimeOK /\ DecoderOK /\ Amount /\ broken \in BOOLEAN

LEMMA TypesOK == Types => FormTypeOK
<1> SUFFICES ASSUME Types  PROVE FormTypeOK
  OBVIOUS
<1>1. link.transport \in Transports \union {"none"}
  BY DEF Types, LinkOK
<1>2. client.params \in Seq(0..(Byte - 1)) /\ client.body \in Seq(Characters)
  BY DEF Types, ClientOK, Bytes
<1>3. request.phase \in {"begin", "params", "announced", "responding", "ended"} /\ request.position \in 0..Len(request.arrived)
  BY DEF Types, RequestOK, Phases
<1>4. decoder.room \in Nat /\ Len(decoder.decoded) < 3
  BY DEF Types, DecoderOK
<1> QED  BY <1>1, <1>2, <1>3, <1>4 DEF Types, Amount, ReaderOK, MimeOK, FormTypeOK

LEMMA FormOK == ASSUME LinkOK  PROVE link.form \in Seq(FormFields) /\ Body(link.form) \in Seq(Characters)
BY FormType DEF LinkOK

LEMMA IdleTypes ==
  ASSUME LinkOK, Idle
  PROVE  ClientOK /\ RequestOK /\ ResponseOK /\ ReaderOK /\ Amount /\ broken \in BOOLEAN
<1>1. ClientOK
  <2>1. PICK p \in Seq(Bytes), b \in Seq(Characters) : p = ParameterBytes /\ b = Body(link.form)
    BY ParametersType, FormOK
  <2>2. client = [params |-> p, body |-> b, wholePairs |-> TRUE, wholeFields |-> TRUE]
    BY <2>1 DEF Idle
  <2> QED  BY <2>2 DEF ClientOK
<1>2. RequestOK
  <2>1. PICK ph \in Phases : ph = IF link.transport = "FCGI" THEN "begin" ELSE "params"
    BY DEF Phases
  <2>2. request = [phase |-> ph, closes |-> FALSE, params |-> {}, arrived |-> <<>>, position |-> 0, reads |-> 0,
                   signalled |-> FALSE, data |-> <<>>, gaveUp |-> FALSE]
    BY <2>1 DEF Idle
  <2>3. <<>> \in Seq(Characters) /\ Len(<<>>) = 0
    OBVIOUS
  <2> QED  BY <2>2, <2>3 DEF RequestOK
<1>3. ResponseOK
  BY DEF Idle, ResponseOK
<1>4. ReaderOK
  BY DEF Idle, ReaderInit, ReaderOK, Reader, TokenType
<1>5. Amount /\ broken \in BOOLEAN
  <2>1. request.arrived = <<>> /\ client.body = Body(link.form) /\ broken = FALSE
    BY DEF Idle
  <2>2. PICK b \in Seq(Characters) : b = Body(link.form)
    BY FormOK
  <2>3. Len(<<>>) + Len(b) = Len(b)
    OBVIOUS
  <2> QED  BY <2>1, <2>2, <2>3 DEF Amount
<1> QED  BY <1>1, <1>2, <1>3, <1>4, <1>5

LEMMA InitTypes == Init => Types
<1>1. ASSUME NEW document \in Seq(Symbols), NEW given \in BOOLEAN, MimeInit(document, given)  PROVE MimeOK
  BY <1>1 DEF MimeInit, MimeOK, Mime, MimeToken
<1>2. ASSUME NEW groups \in Seq(Group), DecoderInit(groups)  PROVE DecoderOK
  <2>1. <<>> \in Seq(Symbols) /\ Len(<<>>) = 0
    OBVIOUS
  <2> QED  BY <1>2, <2>1 DEF DecoderInit, DecoderOK
<1>3. <<>> \in Seq(Symbols) /\ <<>> \in Seq(Group)
  OBVIOUS
<1>4. ASSUME NEW t \in Transports, NEW u \in {"values", "stream"}, NEW f \in Forms, NEW b \in Begins,
             link = [transport |-> t, use |-> u, form |-> f, sent |-> IF t = "FCGI" THEN b ELSE <<>>],
             Idle, MimeInit(<<>>, FALSE), DecoderInit(<<>>)
      PROVE  Types
  <2>1. LinkOK
    BY <1>4 DEF LinkOK
  <2> QED  BY <1>1, <1>2, <1>3, <1>4, <2>1, IdleTypes DEF Types
<1>5. ASSUME NEW d \in Documents, link = [transport |-> "none", use |-> "parts", form |-> <<>>, sent |-> d],
             MimeInit(DocumentText(d), d.boundaryGiven), Idle, DecoderInit(<<>>)
      PROVE  Types
  <2>1. LinkOK
    BY <1>5 DEF LinkOK
  <2>2. DocumentText(d) \in Seq(Symbols) /\ d.boundaryGiven \in BOOLEAN
    BY DocumentsType, DocumentTextType DEF DocumentType
  <2> QED  BY <1>1, <1>2, <1>3, <1>5, <2>1, <2>2, IdleTypes DEF Types
<1>6. ASSUME NEW g \in Groups, link = [transport |-> "none", use |-> "base64", form |-> <<>>, sent |-> g],
             DecoderInit(g), Idle, MimeInit(<<>>, FALSE)
      PROVE  Types
  <2>1. LinkOK
    BY <1>6 DEF LinkOK
  <2>2. g \in Seq(Group)
    BY FormAssumption DEF Group
  <2> QED  BY <1>1, <1>2, <1>3, <1>6, <2>1, <2>2, IdleTypes DEF Types
<1> QED  BY <1>4, <1>5, <1>6, Zenon DEF Init

LEMMA Step ==
  ASSUME Next
  PROVE  \/ \E n \in 1..Len(client.params), p \in Paddings : SendParameters(n, p)
         \/ \E n \in 0..Len(client.body) : Announce(n)
         \/ \E n \in 0..Len(client.body) : StartResponse(n)
         \/ \E n \in 1..Len(client.body), p \in Paddings : SendBody(n, p)
         \/ SendBegin \/ SendAbort \/ RunSlot \/ LoadPostVariables \/ GiveUp \/ CallReadNext \/ ReadToken
         \/ \E n \in WriteSizes : WriteResponse(n)
         \/ ReadMime \/ \E n \in ReadSizes : ReadBase64(n)
BY Zenon DEF Next, Slot

LEMMA Prefix ==
  ASSUME NEW S, NEW s \in Seq(S), NEW n \in 0..Len(s)
  PROVE  /\ SubSeq(s, 1, n) \in Seq(S) /\ Len(SubSeq(s, 1, n)) = n
         /\ \A m \in 1..n : SubSeq(s, 1, n)[m] = s[m]
<1>1. 0 \in Nat /\ n \in Nat /\ 0 <= n /\ n <= Len(s) /\ 0 + 1 = 1 /\ n - 0 = n /\ \A m \in 1..n : 0 + m = m
  OBVIOUS
<1>2. /\ SubSeq(s, 0 + 1, n) \in Seq(S) /\ Len(SubSeq(s, 0 + 1, n)) = n - 0
      /\ \A m \in 1..(n - 0) : SubSeq(s, 0 + 1, n)[m] = s[0 + m]
  BY <1>1, Piece
<1> QED  BY <1>1, <1>2

LEMMA RestPiece ==
  ASSUME NEW S, NEW s \in Seq(S), NEW n \in 0..Len(s)
  PROVE  /\ Rest(s, n) \in Seq(S) /\ Len(Rest(s, n)) = Len(s) - n
         /\ \A m \in 1..(Len(s) - n) : Rest(s, n)[m] = s[n + m]
<1>1. n \in Nat /\ Len(s) \in Nat /\ n <= Len(s) /\ Len(s) <= Len(s)
  OBVIOUS
<1> QED  BY <1>1, Piece DEF Rest

LEMMA ArrivedTypes ==
  ASSUME ClientOK, RequestOK, NEW n \in 0..Len(client.body), NEW phase \in Phases
  PROVE  /\ request.arrived \o SubSeq(client.body, 1, n) \in Seq(Characters)
         /\ Len(request.arrived \o SubSeq(client.body, 1, n)) = Len(request.arrived) + n
         /\ Arrived(n, phase) = [request EXCEPT !.phase = phase, !.arrived = request.arrived \o SubSeq(client.body, 1, n),
                                                !.signalled = Arrived(n, phase).signalled]
         /\ Arrived(n, phase).signalled \in BOOLEAN
         /\ BodyAfter(n) \in [params : {client.params}, body : {Rest(client.body, n)}, wholePairs : {client.wholePairs}, wholeFields : BOOLEAN]
         /\ Rest(client.body, n) \in Seq(Characters) /\ Len(Rest(client.body, n)) = Len(client.body) - n
<1>1. client.body \in Seq(Characters) /\ request.arrived \in Seq(Characters) /\ client.wholeFields \in BOOLEAN
  BY DEF ClientOK, RequestOK
<1>2. SubSeq(client.body, 1, n) \in Seq(Characters) /\ Len(SubSeq(client.body, 1, n)) = n
  BY <1>1, Prefix
<1>3. /\ request.arrived \o SubSeq(client.body, 1, n) \in Seq(Characters)
      /\ Len(request.arrived \o SubSeq(client.body, 1, n)) = Len(request.arrived) + n
  <2>1. PICK a \in Seq(Characters), b \in Seq(Characters) : a = request.arrived /\ b = SubSeq(client.body, 1, n)
    BY <1>1, <1>2
  <2>2. a \o b \in Seq(Characters) /\ Len(a \o b) = Len(a) + Len(b)
    BY ConcatProperties
  <2> QED  BY <1>2, <2>1, <2>2
<1>4. Rest(client.body, n) \in Seq(Characters) /\ Len(Rest(client.body, n)) = Len(client.body) - n
  BY <1>1, RestPiece
<1>5. BodyAfter(n) \in [params : {client.params}, body : {Rest(client.body, n)}, wholePairs : {client.wholePairs}, wholeFields : BOOLEAN]
  <2>5. PICK r : r = Rest(client.body, n)
    OBVIOUS
  <2>6. PICK w \in BOOLEAN : w = (client.wholeFields /\ (n \in {0, Len(client.body)} \/ client.body[n] = "&"))
    BY <1>1, Zenon
  <2>1. r = Rest(client.body, n) /\ w = (client.wholeFields /\ (n \in {0, Len(client.body)} \/ client.body[n] = "&"))
    BY <2>5, <2>6
  <2>2. BodyAfter(n) = [client EXCEPT !.body = r, !.wholeFields = w]
    BY <2>1 DEF BodyAfter
  <2>3. client = [params |-> client.params, body |-> client.body, wholePairs |-> client.wholePairs, wholeFields |-> client.wholeFields]
    BY DEF ClientOK
  <2>4. BodyAfter(n) = [params |-> client.params, body |-> r, wholePairs |-> client.wholePairs, wholeFields |-> w]
    BY <2>2, <2>3
  <2> QED  BY <2>1, <2>4
<1>6. /\ Arrived(n, phase) = [request EXCEPT !.phase = phase, !.arrived = request.arrived \o SubSeq(client.body, 1, n),
                                             !.signalled = Arrived(n, phase).signalled]
      /\ Arrived(n, phase).signalled \in BOOLEAN
  <2>1. PICK s \in BOOLEAN : s = (request.phase = "responding" /\ link.use = "stream" /\ link.transport \in {"FCGI", "HTTP"})
    OBVIOUS
  <2>2. Arrived(n, phase) = [request EXCEPT !.phase = phase, !.arrived = request.arrived \o SubSeq(client.body, 1, n), !.signalled = s]
    BY <2>1 DEF Arrived
  <2>3. request = [phase |-> request.phase, closes |-> request.closes, params |-> request.params, arrived |-> request.arrived,
                   position |-> request.position, reads |-> request.reads, signalled |-> request.signalled,
                   data |-> request.data, gaveUp |-> request.gaveUp]
    BY DEF RequestOK
  <2>4. Arrived(n, phase).signalled = s
    BY <2>2, <2>3
  <2> QED  BY <2>2, <2>4
<1> QED  BY <1>3, <1>4, <1>5, <1>6

\* What a step leaves alone stays well-typed.
LEMMA Unchanged ==
  ASSUME Types
  PROVE  /\ UNCHANGED link => LinkOK'
         /\ UNCHANGED client => ClientOK'
         /\ UNCHANGED request => RequestOK'
         /\ UNCHANGED response => ResponseOK'
         /\ UNCHANGED readerVars => ReaderOK'
         /\ UNCHANGED mimeVars => MimeOK' /\ DecoderOK'
         /\ UNCHANGED <<link, client, request, broken>> => Amount'
         /\ UNCHANGED broken => broken' \in BOOLEAN
BY DEF Types, LinkOK, ClientOK, RequestOK, ResponseOK, ReaderOK, MimeOK, DecoderOK, Amount, readerVars, mimeVars

LEMMA SendBeginTypes == Types /\ SendBegin => Types'
<1> SUFFICES ASSUME Types, SendBegin  PROVE Types'
  OBVIOUS
<1> USE DEF SendBegin
<1>1. LinkOK' /\ ClientOK' /\ ResponseOK' /\ ReaderOK' /\ MimeOK' /\ DecoderOK'
  BY Unchanged
<1>2. broken' \in BOOLEAN
  OBVIOUS
<1>3. RequestOK' /\ request'.arrived = request.arrived
  <2>1. CASE request' = request
    BY <2>1, Unchanged
  <2>2. CASE request' = [request EXCEPT !.phase = "params", !.closes = ClosesSocket(link.sent)]
    <3>1. PICK c \in BOOLEAN : c = ClosesSocket(link.sent)
      <4>1. ClosesSocket(link.sent) \in BOOLEAN
        BY DEF ClosesSocket
      <4> QED  BY <4>1, Zenon
    <3>2. request' = [request EXCEPT !.phase = "params", !.closes = c]
      BY <2>2, <3>1
    <3> QED  BY <3>2 DEF Types, RequestOK, Phases
  <2> QED  BY <2>1, <2>2
<1>4. Amount'
  BY <1>3 DEF Types, Amount, Over
<1> QED  BY <1>1, <1>2, <1>3, <1>4 DEF Types

LEMMA SendParametersTypes ==
  ASSUME Types, NEW n \in 1..Len(client.params), NEW p \in Paddings, SendParameters(n, p)
  PROVE  Types'
<1> USE DEF SendParameters
<1>1. LinkOK' /\ ResponseOK' /\ ReaderOK' /\ MimeOK' /\ DecoderOK'
  BY Unchanged
<1>2. broken' \in BOOLEAN
  OBVIOUS
<1>3. RequestOK' /\ request'.arrived = request.arrived
  <2>1. CASE request' = request
    BY <2>1, Unchanged
  <2>2. CASE request' = [request EXCEPT !.params = @ \union Parameters(SubSeq(client.params, 1, n))]
    BY <2>2 DEF Types, RequestOK
  <2> QED  BY <2>1, <2>2
<1>4. ClientOK' /\ client'.body = client.body
  <2>1. client.params \in Seq(Bytes)
    BY DEF Types, ClientOK
  <2>2. PICK r \in Seq(Bytes) : r = Rest(client.params, n)
    <3>1. n \in 0..Len(client.params)
      BY <2>1
    <3> QED  BY <2>1, <3>1, RestPiece
  <2>3. PICK w \in BOOLEAN : w = (client.wholePairs /\ Sent + n \in PairEnds)
    OBVIOUS
  <2>4. client' = [client EXCEPT !.params = r, !.wholePairs = w]
    BY <2>2, <2>3
  <2> QED  BY <2>4 DEF Types, ClientOK
<1>5. Amount'
  BY <1>3, <1>4 DEF Types, Amount, Over
<1> QED  BY <1>1, <1>2, <1>3, <1>4, <1>5 DEF Types

LEMMA SendAbortTypes == Types /\ SendAbort => Types'
<1> SUFFICES ASSUME Types, SendAbort  PROVE Types'
  OBVIOUS
<1>1. LinkOK' /\ ClientOK' /\ RequestOK' /\ ResponseOK' /\ ReaderOK' /\ MimeOK' /\ DecoderOK'
  BY Unchanged DEF SendAbort
<1> QED  BY <1>1 DEF Types, Amount, SendAbort

\* Bytes that come in are not at the client any more.
LEMMA ArrivedOK ==
  ASSUME Types, ~broken, NEW n \in 0..Len(client.body), NEW phase \in Phases, NEW params, link' = link,
         \/ request' = Arrived(n, phase)
         \/ request' = [Arrived(n, phase) EXCEPT !.params = params],
         client' = BodyAfter(n) \/ client' = [BodyAfter(n) EXCEPT !.params = <<>>]
  PROVE  RequestOK' /\ ClientOK' /\ Amount'
<1>1. ClientOK /\ RequestOK
  BY DEF Types
<1>7. PICK a : a = request.arrived \o SubSeq(client.body, 1, n)
  OBVIOUS
<1>8. PICK s : s = Arrived(n, phase).signalled
  OBVIOUS
<1>2. /\ a \in Seq(Characters) /\ s \in BOOLEAN /\ Len(a) = Len(request.arrived) + n
      /\ Arrived(n, phase) = [request EXCEPT !.phase = phase, !.arrived = a, !.signalled = s]
  BY <1>1, <1>7, <1>8, ArrivedTypes
<1>3. PICK b \in Seq(Characters), w \in BOOLEAN :
        /\ b = Rest(client.body, n) /\ Len(b) = Len(client.body) - n
        /\ BodyAfter(n) = [params |-> client.params, body |-> b, wholePairs |-> client.wholePairs, wholeFields |-> w]
  BY <1>1, ArrivedTypes
<1>4. RequestOK' /\ request'.arrived = a
  <2>1. Len(request.arrived) \in Nat /\ Len(client.body) \in Nat /\ request.position \in Nat /\ request.position <= Len(request.arrived)
    BY <1>1 DEF RequestOK, ClientOK
  <2>2. request.position <= Len(a)
    BY <1>2, <2>1
  <2>3. request = [phase |-> request.phase, closes |-> request.closes, params |-> request.params, arrived |-> request.arrived,
                   position |-> request.position, reads |-> request.reads, signalled |-> request.signalled,
                   data |-> request.data, gaveUp |-> request.gaveUp]
    BY <1>1 DEF RequestOK
  <2>4. Arrived(n, phase) = [phase |-> phase, closes |-> request.closes, params |-> request.params, arrived |-> a,
                             position |-> request.position, reads |-> request.reads, signalled |-> s,
                             data |-> request.data, gaveUp |-> request.gaveUp]
    BY <1>2, <2>3
  <2>5. request' = [phase |-> phase, closes |-> request.closes, params |-> request'.params, arrived |-> a,
                             position |-> request.position, reads |-> request.reads, signalled |-> s,
                             data |-> request.data, gaveUp |-> request.gaveUp]
    <3>1. CASE request' = Arrived(n, phase)
      BY <2>4, <3>1
    <3>2. CASE request' = [Arrived(n, phase) EXCEPT !.params = params]
      BY <2>4, <3>2
    <3> QED  BY <3>1, <3>2, Zenon
  <2> QED  BY <1>1, <1>2, <2>2, <2>5 DEF RequestOK
<1>5. ClientOK' /\ client'.body = b
  <2>1. <<>> \in Seq(Bytes) /\ client.params \in Seq(Bytes) /\ client.wholePairs \in BOOLEAN
    BY <1>1 DEF ClientOK
  <2>2. client' = [params |-> client'.params, body |-> b, wholePairs |-> client.wholePairs, wholeFields |-> w]
        /\ client'.params \in Seq(Bytes)
    <3>1. CASE client' = BodyAfter(n)
      BY <1>3, <2>1, <3>1
    <3>2. CASE client' = [BodyAfter(n) EXCEPT !.params = <<>>]
      BY <1>3, <2>1, <3>2
    <3> QED  BY <3>1, <3>2, Zenon
  <2> QED  BY <1>3, <2>1, <2>2 DEF ClientOK
<1>6. Amount'
  <2>1. Len(request.arrived) + Len(client.body) = Len(Body(link.form))
    BY DEF Types, Amount
  <2>2. Len(request.arrived) \in Nat /\ Len(client.body) \in Nat
    BY <1>1 DEF RequestOK, ClientOK
  <2>4. PICK x, y, l : x = Len(request.arrived) /\ y = Len(client.body) /\ l = Len(Body(link.form))
    OBVIOUS
  <2>5. Len(a) = x + n /\ Len(b) = y - n /\ x + y = l /\ x \in Nat /\ y \in Nat /\ n \in 0..y
    BY <1>2, <1>3, <2>1, <2>2, <2>4
  <2>6. (x + n) + (y - n) = l
    BY <2>5
  <2>3. Len(a) + Len(b) = Len(Body(link.form))
    BY <2>4, <2>5, <2>6
  <2> QED  BY <1>4, <1>5, <2>3 DEF Amount
<1> QED  BY <1>4, <1>5, <1>6

LEMMA AnnounceTypes ==
  ASSUME Types, NEW n \in 0..Len(client.body), Announce(n)
  PROVE  Types'
<1>1. PICK params : request' = [Arrived(n, "announced") EXCEPT !.params = params]
  BY DEF Announce, Arrived
<1>2. client' = [BodyAfter(n) EXCEPT !.params = <<>>] /\ link' = link /\ ~broken
  BY DEF Announce
<1>3. RequestOK' /\ ClientOK' /\ Amount'
  BY <1>1, <1>2, ArrivedOK DEF Phases
<1> QED  BY <1>3, Unchanged DEF Types, Announce

LEMMA StartResponseTypes ==
  ASSUME Types, NEW n \in 0..Len(client.body), StartResponse(n)
  PROVE  Types'
<1>1. CASE /\ request' = [Arrived(n, "announced") EXCEPT !.params = BlobParameters(HeaderBlob(Headers))]
           /\ client' = [BodyAfter(n) EXCEPT !.params = <<>>] /\ UNCHANGED broken
  <2>1. PICK params : params = BlobParameters(HeaderBlob(Headers))
    OBVIOUS
  <2>2. request' = [Arrived(n, "announced") EXCEPT !.params = params] /\ client' = [BodyAfter(n) EXCEPT !.params = <<>>]
        /\ link' = link /\ ~broken
    BY <1>1, <2>1 DEF StartResponse, Over
  <2>3. RequestOK' /\ ClientOK' /\ Amount'
    BY <2>2, ArrivedOK DEF Phases
  <2> QED  BY <1>1, <2>3, Unchanged DEF Types, StartResponse
<1>2. ASSUME NEW k \in 1..(Len(client.params) - 1), client' = [client EXCEPT !.params = Rest(@, k)],
             broken' = TRUE, UNCHANGED request
      PROVE  Types'
  <2>1. client.params \in Seq(Bytes)
    BY DEF Types, ClientOK
  <2>2. PICK r \in Seq(Bytes) : r = Rest(client.params, k)
    <3>1. k \in 0..Len(client.params)
      BY <2>1
    <3> QED  BY <2>1, <3>1, RestPiece
  <2>3. ClientOK'
    BY <1>2, <2>2 DEF Types, ClientOK
  <2> QED  BY <1>2, <2>3, Unchanged DEF Types, Amount, StartResponse
<1> QED  BY <1>1, <1>2, Zenon DEF StartResponse

LEMMA SendBodyTypes ==
  ASSUME Types, NEW n \in 1..Len(client.body), NEW p \in Paddings, SendBody(n, p)
  PROVE  Types'
<1>1. client' = BodyAfter(n) /\ link' = link /\ ~broken /\ n \in 0..Len(client.body) /\ broken' \in BOOLEAN
  <2>1. Len(client.body) \in Nat
    BY DEF Types, ClientOK
  <2> QED  BY <2>1 DEF SendBody
<1>2. CASE request' = Arrived(n, request.phase)
  <2>1. request.phase \in Phases
    BY DEF Types, RequestOK
  <2>2. RequestOK' /\ ClientOK' /\ Amount'
    BY <1>1, <1>2, <2>1, ArrivedOK
  <2> QED  BY <1>1, <2>2, Unchanged DEF Types, SendBody
<1>3. CASE broken' /\ request' = request
  <2>1. ClientOK'
    <3>1. ClientOK /\ RequestOK /\ "params" \in Phases
      BY DEF Types, Phases
    <3>2. PICK b \in Seq(Characters), w \in BOOLEAN :
            BodyAfter(n) = [params |-> client.params, body |-> b, wholePairs |-> client.wholePairs, wholeFields |-> w]
      BY <1>1, <3>1, ArrivedTypes
    <3> QED  BY <1>1, <3>1, <3>2 DEF ClientOK
  <2> QED  BY <1>1, <1>3, <2>1, Unchanged DEF Types, Amount, SendBody
<1> QED  BY <1>2, <1>3 DEF SendBody

LEMMA LeastMember ==
  ASSUME NEW T \in SUBSET Nat, T # {}
  PROVE  Min(T) \in T /\ \A y \in T : Min(T) <= y
<1> DEFINE Less == {p \in Nat \X Nat : p[1] < p[2]}
<1>1. IsWellFoundedOn(Less, Nat)
  BY NatLessThanWellFounded, Zenon DEF OpToRel
<1>2. \E n \in T : \A m \in T : ~(<<m, n>> \in Less)
  BY <1>1, WFMin, Zenon
<1>3. PICK n \in T : \A m \in T : ~(m < n)
  BY <1>2
<1>4. \A m \in T : n <= m
  BY <1>3
<1> QED  BY <1>4 DEF Min

\* The first place of a character.
LEMMA PositionFound ==
  ASSUME NEW S, NEW s \in Seq(S), NEW characters
  PROVE  /\ Position(s, characters) \in 0..Len(s)
         /\ Position(s, characters) # 0 =>
              /\ s[Position(s, characters)] \in characters
              /\ \A i \in 1..(Position(s, characters) - 1) : s[i] \notin characters
         /\ Position(s, characters) = 0 => \A i \in 1..Len(s) : s[i] \notin characters
<1>1. PICK I : I = {i \in 1..Len(s) : s[i] \in characters}
  OBVIOUS
<1>2. Position(s, characters) = IF I # {} THEN Min(I) ELSE 0
  BY <1>1 DEF Position, SelectInSeq
<1>3. Len(s) \in Nat /\ I \in SUBSET Nat
  BY <1>1
<1>4. CASE I = {}
  BY <1>1, <1>2, <1>3, <1>4
<1>5. CASE I # {}
  <2>1. PICK p : p = Min(I)
    OBVIOUS
  <2>2. p \in I /\ \A y \in I : p <= y
    BY <1>3, <1>5, <2>1, LeastMember
  <2>3. p \in 1..Len(s) /\ s[p] \in characters /\ \A i \in 1..(p - 1) : s[i] \notin characters
    BY <1>1, <1>3, <2>2
  <2> QED  BY <1>2, <1>3, <1>5, <2>1, <2>3
<1> QED  BY <1>4, <1>5

LEMMA DeviceRead ==
  ASSUME RequestOK
  PROVE  /\ ReadDevice \in Seq(Characters)
         /\ Len(ReadDevice) = Len(request.arrived) - request.position
         /\ Len(request.arrived) \in Nat /\ request.position \in 0..Len(request.arrived)
         /\ link.transport # "FCGI" \/ request.position = 0 =>
              ReadDevice = SubSeq(request.arrived, request.position + 1, Len(request.arrived))
<1>1. request.arrived \in Seq(Characters) /\ request.position \in Nat /\ request.position <= Len(request.arrived)
  BY DEF RequestOK
<1>2. Len(request.arrived) \in Nat /\ request.position \in 0..Len(request.arrived)
      /\ Len(request.arrived) - request.position \in 0..Len(request.arrived)
  BY <1>1
<1>3. CASE link.transport = "FCGI"
  <2>1. ReadDevice = SubSeq(request.arrived, 1, Len(request.arrived) - request.position)
    BY <1>3 DEF ReadDevice
  <2>2. request.position = 0 => request.position + 1 = 1 /\ Len(request.arrived) - request.position = Len(request.arrived)
    BY <1>2
  <2> QED  BY <1>1, <1>2, <1>3, <2>1, <2>2, Prefix
<1>4. CASE link.transport # "FCGI"
  <2>1. ReadDevice = Rest(request.arrived, request.position)
    BY <1>4 DEF ReadDevice
  <2> QED  BY <1>1, <1>2, <1>4, <2>1, RestPiece DEF Rest
<1> QED  BY <1>3, <1>4

LEMMA HasReadType ==
  ASSUME RequestOK
  PROVE  \E reads \in Nat : HasRead = [request EXCEPT !.position = Len(request.arrived), !.reads = reads]
<1>1. request.reads \in Nat
  BY DEF RequestOK
<1>2. PICK reads \in Nat : reads = IF ReadDevice = <<>> THEN request.reads ELSE request.reads + 1
  BY <1>1
<1> QED  BY <1>2 DEF HasRead

LEMMA RunSlotTypes == Types /\ RunSlot => Types'
<1> SUFFICES ASSUME Types, RunSlot  PROVE Types'
  OBVIOUS
<1>1. RequestOK' /\ request'.arrived = request.arrived
  <2>1. PICK s \in BOOLEAN : s = (link.use = "stream")
    OBVIOUS
  <2>2. request' = [request EXCEPT !.phase = "responding", !.signalled = s]
    BY <2>1 DEF RunSlot
  <2> QED  BY <2>2 DEF Types, RequestOK, Phases
<1> QED  BY <1>1, Unchanged DEF Types, RunSlot, Amount

LEMMA LoadPostVariablesTypes == Types /\ LoadPostVariables => Types'
<1> SUFFICES ASSUME Types, LoadPostVariables  PROVE Types'
  OBVIOUS
<1>1. RequestOK' /\ request'.arrived = request.arrived
  <2>1. RequestOK
    BY DEF Types
  <2>2. PICK reads \in Nat : HasRead = [request EXCEPT !.position = Len(request.arrived), !.reads = reads]
    BY <2>1, HasReadType
  <2>3. PICK d \in Seq(Characters) : d = request.data \o ReadDevice
    <3>1. request.data \in Seq(Characters) /\ ReadDevice \in Seq(Characters)
      BY <2>1, DeviceRead DEF RequestOK
    <3> QED  BY <3>1, ConcatProperties
  <2>4. request' = [request EXCEPT !.position = Len(request.arrived), !.reads = reads, !.data = d]
    <3>1. HasRead.data = request.data
      BY <2>1, <2>2 DEF RequestOK
    <3>2. request' = [HasRead EXCEPT !.data = HasRead.data \o ReadDevice]
      BY DEF LoadPostVariables
    <3>3. request' = [HasRead EXCEPT !.data = d]
      BY <2>3, <3>1, <3>2
    <3> QED  BY <2>1, <2>2, <3>3 DEF RequestOK
  <2>5. PICK l \in Nat : l = Len(request.arrived)
    BY <2>1, DeviceRead
  <2>6. request' = [request EXCEPT !.position = l, !.reads = reads, !.data = d]
    BY <2>4, <2>5
  <2>7. request'.arrived = request.arrived /\ request'.position = l
    BY <2>1, <2>6 DEF RequestOK
  <2>8. request'.position <= Len(request'.arrived)
    BY <2>5, <2>7
  <2> QED  BY <2>1, <2>6, <2>7, <2>8 DEF RequestOK
<1> QED  BY <1>1, Unchanged DEF Types, LoadPostVariables, Amount

LEMMA GiveUpTypes == Types /\ GiveUp => Types'
<1> SUFFICES ASSUME Types, GiveUp  PROVE Types'
  OBVIOUS
<1>1. RequestOK' /\ request'.arrived = request.arrived
  <2>1. <<>> \in Seq(Characters)
    OBVIOUS
  <2> QED  BY <2>1 DEF Types, RequestOK, GiveUp
<1> QED  BY <1>1, Unchanged DEF Types, GiveUp, Amount

LEMMA BegunType ==
  ASSUME reader \in Reader
  PROVE  Begun \in Reader
BY DEF Begun, Resumed, Reader, TokenType

LEMMA CallReadNextTypes == Types /\ CallReadNext => Types'
<1> SUFFICES ASSUME Types, CallReadNext  PROVE Types'
  OBVIOUS
<1>1. RequestOK' /\ request'.arrived = request.arrived
  <2>1. RequestOK
    BY DEF Types
  <2>2. PICK reads \in Nat : HasRead = [request EXCEPT !.position = Len(request.arrived), !.reads = reads]
    BY <2>1, HasReadType
  <2>3. Len(request.arrived) \in Nat
    BY <2>1, DeviceRead
  <2>4. CASE SeesMore
    <3>1. request' = [HasRead EXCEPT !.signalled = FALSE]
      BY <2>4 DEF CallReadNext
    <3>2. request' = [request EXCEPT !.position = Len(request.arrived), !.reads = reads, !.signalled = FALSE]
      BY <2>1, <2>2, <3>1 DEF RequestOK
    <3>3. PICK l \in Nat : l = Len(request.arrived)
      BY <2>3
    <3>4. request' = [request EXCEPT !.position = l, !.reads = reads, !.signalled = FALSE]
      BY <3>2, <3>3
    <3>5. request'.arrived = request.arrived /\ request'.position = l
      BY <2>1, <3>4 DEF RequestOK
    <3>6. request'.position <= Len(request'.arrived)
      BY <3>3, <3>5
    <3> QED  BY <2>1, <3>4, <3>5, <3>6 DEF RequestOK
  <2>5. CASE ~SeesMore
    <3>1. request' = [request EXCEPT !.signalled = FALSE]
      BY <2>5 DEF CallReadNext
    <3> QED  BY <2>1, <3>1 DEF RequestOK
  <2> QED  BY <2>4, <2>5
<1>2. ReaderOK'
  <2>1. source \in Seq(Characters) /\ ReadDevice \in Seq(Characters) /\ reader \in Reader
    BY DeviceRead DEF Types, ReaderOK
  <2>2. source \o ReadDevice \in Seq(Characters)
    BY <2>1, ConcatProperties
  <2>3. source' \in Seq(Characters)
    BY <2>1, <2>2 DEF CallReadNext
  <2>4. reader' \in Reader
    BY <2>1, BegunType DEF CallReadNext
  <2> QED  BY <2>3, <2>4 DEF ReaderOK
<1> QED  BY <1>1, <1>2, Unchanged DEF Types, CallReadNext, Amount, mimeVars

LEMMA WriteResponseTypes ==
  ASSUME Types, NEW n \in WriteSizes, WriteResponse(n)
  PROVE  Types'
<1>1. RequestOK' /\ request'.arrived = request.arrived
  <2>1. request' = [request EXCEPT !.phase = "ended", !.signalled = FALSE] /\ "ended" \in Phases
    BY DEF WriteResponse, Phases
  <2> QED  BY <2>1 DEF Types, RequestOK
<1>2. ResponseOK'
  <2>1. n \in Nat
    BY FormAssumption
  <2>2. [k \in 1..n |-> k] \in Seq(Nat)
    BY <2>1
  <2>3. PICK w, r : w \in Seq(Nat) /\ w = [k \in 1..n |-> k] /\ r = Append(Written([k \in 1..n |-> k]), EndRequest)
    BY <2>2
  <2>4. response' = [written |-> w, records |-> r]
    BY <2>3 DEF WriteResponse
  <2>5. response'.records = r /\ w \in Seq(Nat)
    BY <2>3, <2>4
  <2> QED  BY <2>4, <2>5 DEF ResponseOK
<1> QED  BY <1>1, <1>2, Unchanged DEF Types, WriteResponse, Amount

\* What is taken from the source, and the buffer then.
LEMMA Taken ==
  ASSUME ReaderOK, NEW first, NEW alternatives
  PROVE  /\ TakenUntil(first, alternatives) \in 0..Len(source) /\ Len(source) \in Nat
         /\ \A n \in 0..Len(source) :
              /\ BufferAfter(n) \in Seq(Characters) /\ Len(BufferAfter(n)) = Len(reader.buffer) + n
              /\ \A i \in 1..Len(reader.buffer) : BufferAfter(n)[i] = reader.buffer[i]
              /\ \A i \in 1..n : BufferAfter(n)[Len(reader.buffer) + i] = source[i]
         /\ reader.buffer \in Seq(Characters) /\ Len(reader.buffer) \in Nat
<1>1. source \in Seq(Characters) /\ reader.buffer \in Seq(Characters) /\ Len(source) \in Nat /\ Len(reader.buffer) \in Nat
  BY DEF ReaderOK, Reader
<1>2. TakenUntil(first, alternatives) \in 0..Len(source)
  <2>1. PICK p \in 0..Len(source) : p = Position(source, {first} \union alternatives)
    BY <1>1, PositionFound
  <2>2. TakenUntil(first, alternatives) \in {0, p, Len(source)}
    BY <2>1 DEF TakenUntil
  <2> QED  BY <1>1, <2>1, <2>2
<1>3. ASSUME NEW n \in 0..Len(source)
      PROVE  /\ BufferAfter(n) \in Seq(Characters) /\ Len(BufferAfter(n)) = Len(reader.buffer) + n
             /\ \A i \in 1..Len(reader.buffer) : BufferAfter(n)[i] = reader.buffer[i]
             /\ \A i \in 1..n : BufferAfter(n)[Len(reader.buffer) + i] = source[i]
  <2>1. PICK a, b, c : a \in Seq(Characters) /\ b \in Seq(Characters) /\ a = reader.buffer /\ b = SubSeq(source, 1, n) /\ c = a \o b
    BY <1>1, Prefix
  <2>2. Len(b) = n /\ \A m \in 1..n : b[m] = source[m]
    BY <1>1, <2>1, Prefix
  <2>3. /\ c \in Seq(Characters) /\ Len(c) = Len(a) + Len(b)
        /\ \A i \in 1..(Len(a) + Len(b)) : c[i] = IF i <= Len(a) THEN a[i] ELSE b[i - Len(a)]
    BY <2>1, ConcatProperties
  <2>4. Len(a) \in Nat /\ n \in Nat
    BY <1>1
  <2>5. \A i \in 1..Len(a) : c[i] = a[i]
    <3>1. \A i \in 1..Len(a) : i \in 1..(Len(a) + n) /\ i <= Len(a)
      BY <2>4
    <3> QED  BY <2>2, <2>3, <3>1
  <2>6. \A i \in 1..n : c[Len(a) + i] = b[i]
    <3>1. \A i \in 1..n : Len(a) + i \in 1..(Len(a) + n) /\ ~(Len(a) + i <= Len(a)) /\ Len(a) + i - Len(a) = i
      BY <2>4
    <3> QED  BY <2>2, <2>3, <3>1
  <2> QED  BY <2>1, <2>2, <2>3, <2>5, <2>6 DEF BufferAfter
<1> QED  BY <1>1, <1>2, <1>3

\* Where the character that was looked for is, in the buffer then.
LEMMA FoundType ==
  ASSUME ReaderOK, NEW first, NEW alternatives, NEW n \in 0..Len(source), n = TakenUntil(first, alternatives)
  PROVE  /\ Found(first, n, alternatives) \in 0..Len(BufferAfter(n))
         /\ \/ Found(first, n, alternatives) = Position(reader.buffer, {first})
            \/ Found(first, n, alternatives) = Len(reader.buffer) + n /\ n > 0 /\ Position(reader.buffer, {first}) = 0
            \/ Found(first, n, alternatives) = 0
<1>1. PICK p \in 0..Len(reader.buffer) : p = Position(reader.buffer, {first})
  BY Taken, PositionFound
<1>2. Len(BufferAfter(n)) = Len(reader.buffer) + n /\ Len(reader.buffer) \in Nat /\ Len(source) \in Nat
  BY Taken
<1>3. \/ p # 0 /\ Found(first, n, alternatives) = p
      \/ p = 0 /\ Found(first, n, alternatives) \in {0, Len(BufferAfter(n))} /\ (n = 0 => Found(first, n, alternatives) = 0)
  BY <1>1, <1>2 DEF Found
<1> QED  BY <1>1, <1>2, <1>3

LEMMA CutType ==
  ASSUME NEW S, NEW s \in Seq(S), NEW p \in 0..Len(s)
  PROVE  /\ Before(s, p) \in Seq(S) /\ From(s, p) \in Seq(S)
         /\ Len(Before(s, p)) = IF p = 0 THEN Len(s) ELSE p - 1
         /\ Len(From(s, p)) = IF p = 0 THEN 0 ELSE Len(s) - p + 1
         /\ \A i \in 1..Len(Before(s, p)) : Before(s, p)[i] = s[i]
         /\ p # 0 => /\ From(s, p + 1) \in Seq(S) /\ Len(From(s, p + 1)) = Len(s) - p
                     /\ From(s, p + 1) = SubSeq(s, p + 1, Len(s))
<1>1. Len(s) \in Nat
  OBVIOUS
<1>2. CASE p = 0
  <2>1. Before(s, p) = s /\ From(s, p) = <<>>
    BY <1>2 DEF Before, From
  <2>2. <<>> \in Seq(S) /\ Len(<<>>) = 0
    OBVIOUS
  <2>3. Len(From(s, p)) = 0 /\ From(s, p) \in Seq(S)
    BY <2>1, <2>2
  <2> QED  BY <1>2, <2>1, <2>3
<1>3. CASE p # 0
  <2>1. PICK q \in Nat : q = p - 1 /\ q + 1 = p
    BY <1>1, <1>3
  <2>2. q \in 0..Len(s) /\ q <= Len(s) /\ p <= Len(s) /\ p \in Nat /\ p \in 0..Len(s)
    BY <1>1, <1>3, <2>1
  <2>3. Before(s, p) = SubSeq(s, 1, q)
    BY <1>3, <2>1 DEF Before
  <2>4. From(s, p) = SubSeq(s, q + 1, Len(s)) /\ From(s, p + 1) = SubSeq(s, p + 1, Len(s))
    <3>1. p + 1 # 0
      BY <1>1
    <3> QED  BY <1>3, <2>1, <3>1 DEF From
  <2>5. Before(s, p) \in Seq(S) /\ Len(Before(s, p)) = q /\ \A m \in 1..q : Before(s, p)[m] = s[m]
    BY <2>2, <2>3, Prefix
  <2>6. From(s, p) \in Seq(S) /\ Len(From(s, p)) = Len(s) - q /\ From(s, p + 1) \in Seq(S) /\ Len(From(s, p + 1)) = Len(s) - p
    <3>1. From(s, p) \in Seq(S) /\ Len(From(s, p)) = Len(s) - q
      BY <1>1, <2>1, <2>2, <2>4, Piece
    <3>2. From(s, p + 1) \in Seq(S) /\ Len(From(s, p + 1)) = Len(s) - p
      <4>1. SubSeq(s, p + 1, Len(s)) \in Seq(S) /\ Len(SubSeq(s, p + 1, Len(s))) = Len(s) - p
        BY <1>1, <2>2, Piece
      <4> QED  BY <2>4, <4>1
    <3> QED  BY <3>1, <3>2
  <2>7. Len(s) - q = Len(s) - p + 1
    BY <1>1, <2>1, <2>2
  <2> QED  BY <1>1, <1>3, <2>1, <2>2, <2>4, <2>5, <2>6, <2>7
<1> QED  BY <1>2, <1>3

LEMMA LeftType ==
  ASSUME NEW S, NEW s \in Seq(S), NEW p \in 0..Len(s)
  PROVE  Left(s, p) \in Seq(S) /\ (p # 0 => Left(s, p) = Before(s, p))
<1>1. p = 0 => Left(s, p) \in Seq(S)
  BY SubSeqEmpty DEF Left
<1>2. p # 0 => Left(s, p) = Before(s, p)
  BY DEF Left, Before
<1> QED  BY <1>1, <1>2, CutType

LEMMA ReaderRecord ==
  ASSUME reader \in Reader
  PROVE  reader = [token |-> reader.token, lastValid |-> reader.lastValid, name |-> reader.name, buffer |-> reader.buffer,
                   bytesRead |-> reader.bytesRead, fields |-> reader.fields]
BY DEF Reader

LEMMA ReadNameType ==
  ASSUME ReaderOK, NEW size, ReadName(size)
  PROVE  ReaderOK'
<1>1. PICK n \in 0..Len(source) : n = TakenUntil("=", {"&"})
  BY Taken
<1>2. PICK at \in 0..Len(BufferAfter(n)) : at = Found("=", n, {"&"})
  BY <1>1, FoundType
<1>3. PICK b \in Seq(Characters) : b = BufferAfter(n)
  BY Taken
<1>4. source' \in Seq(Characters)
  <2>1. source \in Seq(Characters) /\ Len(source) \in Nat /\ n \in Nat /\ n <= Len(source)
    BY Taken DEF ReaderOK
  <2>2. source' = SubSeq(source, n + 1, Len(source))
    BY <1>1 DEF ReadName, Take
  <2> QED  BY <2>1, <2>2, Piece
<1>5. PICK x \in Seq(Characters), y \in Seq(Characters) : x = Left(b, at) /\ y = From(b, at)
  BY <1>2, <1>3, CutType, LeftType
<1>6. reader \in Reader /\ n \in Nat /\ reader.bytesRead \in Nat /\ reader.token \in TokenType
  BY Taken DEF ReaderOK, Reader
<1>7. \/ reader' = [reader EXCEPT !.bytesRead = reader.bytesRead + n, !.name = x, !.buffer = y, !.token = "VariableName"]
      \/ reader' = [reader EXCEPT !.token = "EndData"]
      \/ reader' = [reader EXCEPT !.lastValid = reader.token, !.token = "Invalid"]
  <2>1. reader' = IF b # <<>>
                  THEN [reader EXCEPT !.bytesRead = reader.bytesRead + n, !.name = x, !.buffer = y, !.token = "VariableName"]
                  ELSE IF reader.bytesRead = size THEN [reader EXCEPT !.token = "EndData"]
                  ELSE [reader EXCEPT !.lastValid = reader.token, !.token = "Invalid"]
    BY <1>1, <1>2, <1>3, <1>5 DEF ReadName
  <2> QED  BY <2>1, Zenon
<1>8. reader' \in Reader
  <2>1. "VariableName" \in TokenType /\ "EndData" \in TokenType /\ "Invalid" \in TokenType
    BY DEF TokenType
  <2>2. reader.bytesRead + n \in Nat
    BY <1>6
  <2>3. CASE reader' = [reader EXCEPT !.bytesRead = reader.bytesRead + n, !.name = x, !.buffer = y, !.token = "VariableName"]
    BY <1>6, <2>1, <2>2, <2>3 DEF Reader
  <2>4. CASE reader' = [reader EXCEPT !.token = "EndData"]
    BY <1>6, <2>1, <2>4 DEF Reader
  <2>5. CASE reader' = [reader EXCEPT !.lastValid = reader.token, !.token = "Invalid"]
    BY <1>6, <2>1, <2>5 DEF Reader
  <2> QED  BY <1>7, <2>3, <2>4, <2>5
<1> QED  BY <1>4, <1>8 DEF ReaderOK

LEMMA GiveValueType ==
  ASSUME ReaderOK, NEW value \in Seq(Characters), NEW buffer \in Seq(Characters), NEW n \in Nat, GiveValue(value, buffer, n)
  PROVE  reader' \in Reader
<1>1. reader \in Reader /\ reader.fields \in Seq(Seq(Characters) \X Seq(Characters)) /\ reader.name \in Seq(Characters)
      /\ reader.bytesRead \in Nat /\ "VariableValue" \in TokenType
  BY DEF ReaderOK, Reader, TokenType
<1>2. PICK f \in Seq(Seq(Characters) \X Seq(Characters)) : f = Append(reader.fields, <<reader.name, value>>)
  <2>1. <<reader.name, value>> \in Seq(Characters) \X Seq(Characters)
    BY <1>1
  <2> QED  BY <1>1, <2>1, AppendProperties
<1>3. PICK r \in Nat : r = reader.bytesRead + n
  BY <1>1
<1>4. reader' = [reader EXCEPT !.bytesRead = r, !.buffer = buffer, !.token = "VariableValue", !.fields = f]
  BY <1>2, <1>3 DEF GiveValue
<1> QED  BY <1>1, <1>4 DEF Reader

\* The value that is read behind a name and '='.
LEMMA ValueRead ==
  ASSUME ReaderOK, reader.buffer # <<>>, Head(reader.buffer) # "&", NEW n, n = TakenUntil("&", {}),
         NEW at, at = Found("&", n, {})
  PROVE  /\ n \in 0..Len(source) /\ at \in 0..Len(BufferAfter(n)) /\ at # 1
         /\ Before(BufferAfter(n), at) \in Seq(Characters) /\ Before(BufferAfter(n), at) # <<>>
         /\ Tail(Before(BufferAfter(n), at)) \in Seq(Characters)
         /\ (IF at = 0 THEN <<>> ELSE From(BufferAfter(n), at + 1)) \in Seq(Characters)
<1>1. n \in 0..Len(source) /\ Len(source) \in Nat
  BY Taken
<1>2. /\ BufferAfter(n) \in Seq(Characters) /\ Len(BufferAfter(n)) = Len(reader.buffer) + n
      /\ reader.buffer \in Seq(Characters) /\ Len(reader.buffer) \in Nat
  BY <1>1, Taken
<1>3. at \in 0..Len(BufferAfter(n))
  BY <1>1, FoundType
<1>4. Len(reader.buffer) > 0 /\ reader.buffer[1] # "&"
  BY <1>2, TailType
<1>5. at # 1
  <2>1. PICK p \in 0..Len(reader.buffer) : p = Position(reader.buffer, {"&"})
    BY <1>2, PositionFound
  <2>2. p # 0 => reader.buffer[p] \in {"&"}
    BY <1>2, <2>1, PositionFound
  <2>3. p # 1
    BY <1>4, <2>2
  <2>4. \/ at = p \/ (at = Len(reader.buffer) + n /\ n > 0) \/ at = 0
    BY <1>1, <2>1, FoundType
  <2> QED  BY <1>1, <1>2, <1>4, <2>3, <2>4
<1>6. PICK b \in Seq(Characters) : b = BufferAfter(n) /\ Len(b) > 0
  <2>1. Len(reader.buffer) + n > 0
    BY <1>1, <1>2, <1>4
  <2> QED  BY <1>2, <2>1
<1>7. Before(b, at) \in Seq(Characters) /\ Len(Before(b, at)) = IF at = 0 THEN Len(b) ELSE at - 1
  BY <1>3, <1>6, CutType
<1>8. Before(b, at) # <<>>
  <2>1. Len(<<>>) = 0
    OBVIOUS
  <2>2. Len(Before(b, at)) # 0
    <3>1. Len(b) \in Nat
      OBVIOUS
    <3> QED  BY <1>3, <1>5, <1>6, <1>7, <3>1
  <2> QED  BY <2>1, <2>2
<1>9. Tail(Before(b, at)) \in Seq(Characters)
  BY <1>7, <1>8, TailType
<1>10. (IF at = 0 THEN <<>> ELSE From(b, at + 1)) \in Seq(Characters)
  <2>1. CASE at = 0
    BY <2>1
  <2>2. CASE at # 0
    BY <1>3, <1>6, <2>2, CutType
  <2> QED  BY <2>1, <2>2
<1> QED  BY <1>1, <1>3, <1>5, <1>6, <1>7, <1>8, <1>9, <1>10

LEMMA ReadValueType ==
  ASSUME ReaderOK, ReadValue
  PROVE  ReaderOK'
<1>1. CASE reader.buffer = <<>>
  <2>1. reader' = [reader EXCEPT !.token = "EndData"] /\ source' = source
    BY <1>1 DEF ReadValue
  <2> QED  BY <2>1 DEF ReaderOK, Reader, TokenType
<1>2. CASE reader.buffer # <<>> /\ Head(reader.buffer) = "&"
  <2>1. GiveValue(<<>>, Tail(reader.buffer), 0) /\ source' = source
    BY <1>2 DEF ReadValue
  <2>2. Tail(reader.buffer) \in Seq(Characters) /\ <<>> \in Seq(Characters) /\ 0 \in Nat
    BY <1>2, Taken
  <2>3. reader' \in Reader
    BY <2>1, <2>2, GiveValueType
  <2> QED  BY <2>1, <2>3 DEF ReaderOK
<1>3. CASE reader.buffer # <<>> /\ Head(reader.buffer) # "&"
  <2>1. PICK n : n = TakenUntil("&", {})
    OBVIOUS
  <2>2. PICK at : at = Found("&", n, {})
    OBVIOUS
  <2>3. PICK v, w : v = Tail(Before(BufferAfter(n), at)) /\ w = IF at = 0 THEN <<>> ELSE From(BufferAfter(n), at + 1)
    OBVIOUS
  <2>4. v \in Seq(Characters) /\ w \in Seq(Characters) /\ n \in 0..Len(source)
    BY <1>3, <2>1, <2>2, <2>3, ValueRead
  <2>5. GiveValue(v, w, n) /\ source' = SubSeq(source, n + 1, Len(source))
    BY <1>3, <2>1, <2>2, <2>3 DEF ReadValue, Take
  <2>6. source \in Seq(Characters) /\ Len(source) \in Nat /\ n \in Nat /\ n <= Len(source)
    BY <2>4, Taken DEF ReaderOK
  <2>7. source' \in Seq(Characters)
    BY <2>5, <2>6, Piece
  <2>8. reader' \in Reader
    BY <2>4, <2>5, <2>6, GiveValueType
  <2> QED  BY <2>7, <2>8 DEF ReaderOK
<1> QED  BY <1>1, <1>2, <1>3

LEMMA ReadTokenTypes == Types /\ ReadToken => Types'
<1> SUFFICES ASSUME Types, ReadToken  PROVE Types'
  OBVIOUS
<1>1. ReaderOK'
  <2>1. ReaderOK
    BY DEF Types
  <2>2. ReadName(Len(Body(link.form))) \/ ReadValue
    BY DEF ReadToken, ReadNext
  <2> QED  BY <2>1, <2>2, ReadNameType, ReadValueType
<1>2. link' = link /\ client' = client /\ request' = request /\ response' = response /\ broken' = broken /\ UNCHANGED mimeVars
  BY DEF ReadToken, formVars
<1> QED  BY <1>1, <1>2, Unchanged DEF Types

\* The pattern of a boundary at place i of s.
IsBoundary(s, i) == s[i] = LineEnd /\ s[i + 1] = Dashes /\ s[i + 2] = Boundary

LEMMA PatternAt ==
  ASSUME NEW s \in Seq(Symbols), NEW i \in 1..(Len(s) - 2)
  PROVE  SubSeq(s, i, i + 2) = Pattern <=> IsBoundary(s, i)
<1>1. Len(s) \in Nat /\ i \in Int /\ i + 2 \in Int /\ i <= i + 2 /\ (i + 2) - i + 1 = 3
      /\ \A k \in i..(i + 2) : s[k] \in Symbols
  OBVIOUS
<1>2. PICK t : t = SubSeq(s, i, i + 2)
  OBVIOUS
<1>3. t \in Seq(Symbols) /\ Len(t) = 3 /\ \A k \in 1..3 : t[k] = s[i + k - 1]
  BY <1>1, <1>2, SubSeqProperties
<1>4. i + 1 - 1 = i /\ i + 2 - 1 = i + 1 /\ i + 3 - 1 = i + 2
  OBVIOUS
<1>5. t[1] = s[i] /\ t[2] = s[i + 1] /\ t[3] = s[i + 2]
  BY <1>3, <1>4
<1>6. Pattern \in Seq(Symbols) /\ Len(Pattern) = 3 /\ Pattern[1] = LineEnd /\ Pattern[2] = Dashes /\ Pattern[3] = Boundary
  <2>1. LineEnd \in Symbols /\ Dashes \in Symbols /\ Boundary \in Symbols
    BY BufferAssumption
  <2> QED  BY <2>1 DEF Pattern
<1>7. t = Pattern <=> t[1] = LineEnd /\ t[2] = Dashes /\ t[3] = Boundary
  <2>1. ASSUME t[1] = LineEnd, t[2] = Dashes, t[3] = Boundary  PROVE t = Pattern
    <3>1. \A k \in 1..3 : t[k] = Pattern[k]
      <4>1. \A k \in 1..3 : k = 1 \/ k = 2 \/ k = 3
        OBVIOUS
      <4> QED  BY <1>6, <2>1, <4>1
    <3> QED  BY <1>3, <1>6, <3>1, SeqEqual
  <2> QED  BY <1>6, <2>1
<1> QED  BY <1>2, <1>5, <1>7 DEF IsBoundary

\* What is peeked at, and where the first boundary is in it.
LEMMA PeekedPlace ==
  ASSUME MimeOK
  PROVE  /\ Peeked \in Seq(Symbols) /\ Len(device) \in Nat /\ Len(Peeked) = Least(BufferSize, Len(device))
         /\ Len(Peeked) \in 0..Len(device) /\ \A i \in 1..Len(Peeked) : Peeked[i] = device[i]
         /\ AtBoundary \in Nat
         /\ AtBoundary # 0 => /\ AtBoundary \in 1..(Len(Peeked) - 2) /\ IsBoundary(Peeked, AtBoundary)
                              /\ \A i \in 1..(AtBoundary - 1) : ~IsBoundary(Peeked, i)
         /\ AtBoundary = 0 => \A i \in 1..(Len(Peeked) - 2) : ~IsBoundary(Peeked, i)
<1>1. device \in Seq(Symbols) /\ Len(device) \in Nat /\ BufferSize \in Nat
  BY BufferAssumption DEF MimeOK
<1>2. Least(BufferSize, Len(device)) \in 0..Len(device)
  BY <1>1 DEF Least
<1>3. Peeked \in Seq(Symbols) /\ Len(Peeked) = Least(BufferSize, Len(device)) /\ \A i \in 1..Len(Peeked) : Peeked[i] = device[i]
  BY <1>1, <1>2, Prefix DEF Peeked
<1>4. PICK places : places = {i \in 1..(Len(Peeked) - Len(Pattern) + 1) : SubSeq(Peeked, i, i + Len(Pattern) - 1) = Pattern}
  OBVIOUS
<1>5. places = {i \in 1..(Len(Peeked) - 2) : IsBoundary(Peeked, i)}
  <2>1. Len(Pattern) = 3
    BY DEF Pattern
  <2>2. Len(Peeked) \in Nat
    BY <1>2, <1>3
  <2>3. Len(Peeked) - Len(Pattern) + 1 = Len(Peeked) - 2 /\ \A i \in 1..(Len(Peeked) - 2) : i + Len(Pattern) - 1 = i + 2
    BY <2>1, <2>2
  <2>4. places = {i \in 1..(Len(Peeked) - 2) : SubSeq(Peeked, i, i + 2) = Pattern}
    BY <1>4, <2>3
  <2>5. \A i \in 1..(Len(Peeked) - 2) : SubSeq(Peeked, i, i + 2) = Pattern <=> IsBoundary(Peeked, i)
    BY <1>3, PatternAt
  <2> QED  BY <2>4, <2>5
<1>6. AtBoundary = IF places = {} THEN 0 ELSE CHOOSE i \in places : \A j \in places : i <= j
  BY <1>4 DEF AtBoundary
<1>7. CASE places = {}
  <2>1. AtBoundary = 0
    BY <1>6, <1>7
  <2> QED  BY <1>1, <1>2, <1>3, <1>5, <1>7, <2>1
<1>8. CASE places # {}
  <2>1. places \in SUBSET Nat /\ Len(Peeked) \in Nat
    BY <1>2, <1>3, <1>5
  <2>2. \E i \in places : \A j \in places : i <= j
    BY <1>8, <2>1, LeastMember
  <2>3. PICK a : a = AtBoundary
    OBVIOUS
  <2>4. a \in places /\ \A j \in places : a <= j
    BY <1>6, <1>8, <2>2, <2>3
  <2>5. a \in 1..(Len(Peeked) - 2) /\ IsBoundary(Peeked, a)
    BY <1>5, <2>4
  <2>6. \A i \in 1..(a - 1) : ~IsBoundary(Peeked, i)
    <3> SUFFICES ASSUME NEW i \in 1..(a - 1), IsBoundary(Peeked, i)  PROVE FALSE
      OBVIOUS
    <3>1. i \in 1..(Len(Peeked) - 2) /\ ~(a <= i)
      BY <2>1, <2>5
    <3>2. i \in places
      BY <1>5, <3>1
    <3> QED  BY <2>4, <3>1, <3>2
  <2> QED  BY <1>1, <1>2, <1>3, <2>1, <2>3, <2>5, <2>6
<1> QED  BY <1>7, <1>8

\* The symbols at the end of what is peeked at that may begin a boundary.
MayBegin(n) == n <= Len(Peeked) /\ IsSuffix(SubSeq(Pattern, 1, n), Peeked)

LEMMA ChopPlace ==
  /\ Chop \in 0..2
  /\ Chop = 0 => ~MayBegin(1) /\ ~MayBegin(2)
  /\ Chop = 1 => MayBegin(1)
  /\ Chop = 2 => MayBegin(2) /\ ~MayBegin(1)
<1>1. Len(Pattern) - 1 = 2 /\ 1..2 = {1, 2}
  BY DEF Pattern
<1>7. PICK R : R = 1..(Len(Pattern) - 1)
  OBVIOUS
<1>8. Chop = IF \E n \in R : MayBegin(n) THEN CHOOSE n \in R : MayBegin(n) /\ \A m \in 1..(n - 1) : ~MayBegin(m) ELSE 0
  BY <1>7 DEF Chop, MayBegin
<1>2. R = {1, 2}
  BY <1>1, <1>7
<1>3. 1..(1 - 1) = {} /\ 1..(2 - 1) = {1}
  OBVIOUS
<1>4. CASE MayBegin(1)
  <2>1. \E n \in R : MayBegin(n) /\ \A m \in 1..(n - 1) : ~MayBegin(m)
    BY <1>2, <1>3, <1>4
  <2>2. PICK c : c = CHOOSE n \in R : MayBegin(n) /\ \A m \in 1..(n - 1) : ~MayBegin(m)
    OBVIOUS
  <2>3. c \in R /\ MayBegin(c) /\ \A m \in 1..(c - 1) : ~MayBegin(m)
    BY <2>1, <2>2
  <2>4. c = 1
    BY <1>2, <1>3, <1>4, <2>3
  <2>5. Chop = c
    BY <1>2, <1>8, <1>4, <2>1, <2>2
  <2> QED  BY <1>4, <2>4, <2>5
<1>5. CASE ~MayBegin(1) /\ MayBegin(2)
  <2>1. \E n \in R : MayBegin(n) /\ \A m \in 1..(n - 1) : ~MayBegin(m)
    BY <1>2, <1>3, <1>5
  <2>2. PICK c : c = CHOOSE n \in R : MayBegin(n) /\ \A m \in 1..(n - 1) : ~MayBegin(m)
    OBVIOUS
  <2>3. c \in R /\ MayBegin(c)
    BY <2>1, <2>2
  <2>4. c = 2
    BY <1>2, <1>5, <2>3
  <2>5. Chop = c
    BY <1>2, <1>8, <1>5, <2>1, <2>2
  <2> QED  BY <1>5, <2>4, <2>5
<1>6. CASE ~MayBegin(1) /\ ~MayBegin(2)
  <2>1. Chop = 0
    BY <1>2, <1>8, <1>6
  <2> QED  BY <1>6, <2>1
<1> QED  BY <1>4, <1>5, <1>6

LEMMA ChopType ==
  ASSUME MimeOK
  PROVE  Chop \in 0..Len(Peeked)
<1>1. Len(Peeked) \in Nat
  BY PeekedPlace
<1> QED  BY <1>1, ChopPlace DEF MayBegin

\* Behind place m of the device, whatever place that is.
LEMMA BehindType ==
  ASSUME NEW S, NEW s \in Seq(S), NEW m \in Nat, m >= 1
  PROVE  SubSeq(s, m, Len(s)) \in Seq(S)
<1>1. Len(s) \in Int /\ m \in Int /\ \A i \in m..Len(s) : s[i] \in S
  OBVIOUS
<1> QED  BY <1>1, SubSeqProperties

\* Behind the first line end at place from or later.
LEMMA AfterLinePlace ==
  ASSUME MimeOK, NEW from \in Nat, from >= 1
  PROVE  /\ AfterLine(from) \in Seq(Symbols)
         /\ \A e \in from..Len(device) :
              device[e] = LineEnd /\ (\A i \in from..(e - 1) : device[i] # LineEnd) =>
                AfterLine(from) = SubSeq(device, e + 1, Len(device))
<1>1. device \in Seq(Symbols) /\ Len(device) \in Nat
  BY DEF MimeOK
<1>2. PICK I : I = {i \in from..Len(device) : device[i] = LineEnd}
  OBVIOUS
<1>3. PICK end : end = IF I # {} THEN Min(I) ELSE 0
  OBVIOUS
<1>4. AfterLine(from) = IF end = 0 THEN <<>> ELSE SubSeq(device, end + 1, Len(device))
  BY <1>2, <1>3 DEF AfterLine, SelectInSubSeq
<1>5. I \in SUBSET Nat
  BY <1>1, <1>2
<1>6. I # {} => end \in I /\ \A i \in I : end <= i
  BY <1>3, <1>5, LeastMember
<1>7. end \in Nat
  BY <1>3, <1>5, <1>6
<1>8. AfterLine(from) \in Seq(Symbols)
  <2>1. end + 1 \in Nat /\ end + 1 >= 1 /\ <<>> \in Seq(Symbols)
    BY <1>7
  <2>2. SubSeq(device, end + 1, Len(device)) \in Seq(Symbols)
    BY <1>1, <2>1, BehindType
  <2> QED  BY <1>4, <2>1, <2>2
<1>9. ASSUME NEW e \in from..Len(device), device[e] = LineEnd, \A i \in from..(e - 1) : device[i] # LineEnd
      PROVE  AfterLine(from) = SubSeq(device, e + 1, Len(device))
  <2>1. e \in I
    BY <1>2, <1>9
  <2>2. end \in I /\ end <= e /\ end # 0
    <3>1. end \in I /\ end <= e
      BY <1>6, <2>1
    <3>2. end >= from
      BY <1>1, <1>2, <3>1
    <3> QED  BY <1>7, <3>1, <3>2
  <2>3. end = e
    <3>1. end \in from..Len(device) /\ device[end] = LineEnd
      BY <1>2, <2>2
    <3>2. end \notin from..(e - 1)
      BY <1>9, <3>1
    <3> QED  BY <1>1, <2>2, <3>1, <3>2
  <2> QED  BY <1>4, <2>2, <2>3
<1> QED  BY <1>8, <1>9

LEMMA MimeRecord ==
  ASSUME mime \in Mime
  PROVE  /\ mime = [token |-> mime.token, boundary |-> mime.boundary, atEnd |-> mime.atEnd, content |-> mime.content,
                    headers |-> mime.headers, parts |-> mime.parts]
         /\ mime.token \in MimeToken /\ mime.boundary \in BOOLEAN /\ mime.atEnd \in BOOLEAN
         /\ mime.content \in Seq(Symbols) /\ mime.headers \in Seq(Symbols) /\ mime.parts \in Seq(Seq(Symbols) \X Seq(Symbols))
BY DEF Mime

\* What a call to the device of a part returns, up to n symbols.
LEMMA ContentAmount ==
  ASSUME MimeOK, NEW n, n = IF AtBoundary # 0 THEN AtBoundary - 1 ELSE Len(Peeked) - Chop
  PROVE  n \in 0..Len(device) /\ n \in 0..Len(Peeked)
<1>1. Len(Peeked) \in 0..Len(device) /\ Len(device) \in Nat /\ AtBoundary \in Nat /\ (AtBoundary # 0 => AtBoundary \in 1..(Len(Peeked) - 2))
  BY PeekedPlace
<1>2. Chop \in 0..Len(Peeked)
  BY ChopType
<1>3. CASE AtBoundary # 0
  BY <1>1, <1>3
<1>4. CASE AtBoundary = 0
  BY <1>1, <1>2, <1>4
<1> QED  BY <1>3, <1>4

LEMMA ReadContentType == ASSUME MimeOK, ReadContent  PROVE MimeOK'
<1>1. PICK n : n = IF AtBoundary # 0 THEN AtBoundary - 1 ELSE Len(Peeked) - Chop
  OBVIOUS
<1>2. n \in 0..Len(device) /\ n \in Nat
  BY <1>1, ContentAmount
<1>3. PICK m \in Nat : m = n + (IF AtBoundary # 0 THEN 2 ELSE 1) /\ m >= 1
  BY <1>2
<1>4. device \in Seq(Symbols) /\ mime \in Mime
  BY DEF MimeOK
<1>5. device' \in Seq(Symbols)
  <2>1. device' = SubSeq(device, m, Len(device))
    BY <1>1, <1>3 DEF ReadContent
  <2> QED  BY <1>3, <1>4, <2>1, BehindType
<1>6. PICK c \in Seq(Symbols) : c = mime.content \o SubSeq(device, 1, n)
  <2>1. mime.content \in Seq(Symbols) /\ SubSeq(device, 1, n) \in Seq(Symbols)
    BY <1>2, <1>4, MimeRecord, Prefix
  <2> QED  BY <2>1, ConcatProperties
<1>7. PICK e \in BOOLEAN : e = (AtBoundary # 0)
  OBVIOUS
<1>8. mime' = [mime EXCEPT !.content = c, !.atEnd = e]
  BY <1>1, <1>6, <1>7 DEF ReadContent
<1> QED  BY <1>4, <1>5, <1>8 DEF MimeOK, Mime

LEMMA StartDocumentType == ASSUME MimeOK, StartDocument  PROVE MimeOK'
<1>1. device \in Seq(Symbols) /\ mime \in Mime
  BY DEF MimeOK
<1>2. device' \in Seq(Symbols)
  <2>1. AfterLine(1) \in Seq(Symbols)
    BY AfterLinePlace
  <2> QED  BY <1>1, <2>1 DEF StartDocument
<1>3. PICK t \in MimeToken : mime' = [mime EXCEPT !.token = t]
  <2>1. "IgnoredContent" \in MimeToken /\ "Invalid" \in MimeToken /\ "StartDocument" \in MimeToken
    BY DEF MimeToken
  <2>2. PICK t \in MimeToken : t = IF device # <<>> /\ Head(device) = LineEnd THEN "IgnoredContent" ELSE "Invalid"
    BY <2>1
  <2>3. \/ mime' = [mime EXCEPT !.token = t] \/ mime' = [mime EXCEPT !.token = "StartDocument"]
    BY <2>2 DEF StartDocument
  <2> QED  BY <2>1, <2>3
<1>4. mime' \in Mime
  BY <1>1, <1>3 DEF Mime
<1> QED  BY <1>2, <1>4 DEF MimeOK

LEMMA EndContentType == ASSUME MimeOK, EndContent  PROVE MimeOK'
<1>1. device \in Seq(Symbols) /\ mime \in Mime /\ device' = device
  BY DEF MimeOK, EndContent
<1>2. PICK q \in Seq(Seq(Symbols) \X Seq(Symbols)) :
        q = IF mime.token = "PartContent" THEN Append(mime.parts, <<mime.headers, mime.content>>) ELSE mime.parts
  <2>1. mime.parts \in Seq(Seq(Symbols) \X Seq(Symbols)) /\ <<mime.headers, mime.content>> \in Seq(Symbols) \X Seq(Symbols)
    BY <1>1, MimeRecord
  <2>2. Append(mime.parts, <<mime.headers, mime.content>>) \in Seq(Seq(Symbols) \X Seq(Symbols))
    BY <2>1, AppendProperties
  <2> QED  BY <2>1, <2>2
<1>3. mime' = [mime EXCEPT !.token = "EndPart", !.content = <<>>, !.headers = <<>>, !.parts = q]
  BY <1>2 DEF EndContent
<1>4. "EndPart" \in MimeToken /\ <<>> \in Seq(Symbols)
  BY DEF MimeToken
<1>5. mime' \in Mime
  BY <1>1, <1>3, <1>4 DEF Mime
<1> QED  BY <1>1, <1>5 DEF MimeOK

LEMMA ReadBoundaryType == ASSUME MimeOK, ReadBoundary  PROVE MimeOK'
<1>1. device \in Seq(Symbols) /\ mime \in Mime
  BY DEF MimeOK
<1>2. device' \in Seq(Symbols)
  <2>1. AfterLine(3) \in Seq(Symbols)
    BY AfterLinePlace
  <2>2. SubSeq(device, 3, Len(device)) \in Seq(Symbols)
    BY <1>1, BehindType
  <2> QED  BY <2>1, <2>2 DEF ReadBoundary
<1>3. \E t \in MimeToken : mime' = [mime EXCEPT !.token = t]
  <2>1. "StartPart" \in MimeToken /\ "Invalid" \in MimeToken /\ "EndDocument" \in MimeToken
    BY DEF MimeToken
  <2>2. PICK t : t = CASE device[3] = LineEnd -> "StartPart" [] device[3] = Dashes -> "EndDocument" [] OTHER -> "Invalid"
    OBVIOUS
  <2>3. t \in MimeToken
    BY <2>1, <2>2
  <2>4. \/ mime' = [mime EXCEPT !.token = t] \/ mime' = [mime EXCEPT !.token = "Invalid"]
    BY <2>2 DEF ReadBoundary
  <2> QED  BY <2>1, <2>3, <2>4
<1>4. mime' \in Mime
  BY <1>1, <1>3 DEF Mime
<1> QED  BY <1>2, <1>4 DEF MimeOK

LEMMA ReadEmptyLineType == ASSUME MimeOK, ReadEmptyLine  PROVE MimeOK'
<1>1. device \in Seq(Symbols) /\ mime \in Mime
  BY DEF MimeOK
<1>2. device' \in Seq(Symbols)
  BY <1>1, TailType DEF ReadEmptyLine
<1>3. \E t \in MimeToken : mime' = [mime EXCEPT !.atEnd = FALSE, !.token = t]
  <2>1. "PartContent" \in MimeToken /\ "Invalid" \in MimeToken /\ "IgnoredContent" \in MimeToken
    BY DEF MimeToken
  <2>2. PICK t : t = IF mime.token = "StartPart" \/ ~mime.boundary THEN "Invalid"
                     ELSE IF mime.token = "DocumentHeader" THEN "IgnoredContent" ELSE "PartContent"
    OBVIOUS
  <2>3. t \in MimeToken
    BY <2>1, <2>2
  <2>4. mime' = [mime EXCEPT !.atEnd = FALSE, !.token = t]
    BY <2>2 DEF ReadEmptyLine
  <2> QED  BY <2>3, <2>4
<1>4. mime' \in Mime
  BY <1>1, <1>3 DEF Mime
<1> QED  BY <1>2, <1>4 DEF MimeOK

LEMMA ReadHeaderType == ASSUME MimeOK, ReadHeader  PROVE MimeOK'
<1>1. device \in Seq(Symbols) /\ mime \in Mime
  BY DEF MimeOK
<1>2. device' \in Seq(Symbols)
  BY AfterLinePlace DEF ReadHeader
<1>3. PICK t \in MimeToken : t = AfterHeader
  BY DEF MimeToken, AfterHeader
<1>4. PICK b \in BOOLEAN : b = (mime.boundary \/ (AfterHeader = "DocumentHeader" /\ Head(device) = BoundaryHeader))
  BY <1>1, MimeRecord, Zenon
<1>5. PICK h \in Seq(Symbols) : h = IF AfterHeader = "PartHeader" THEN Append(mime.headers, Head(device)) ELSE mime.headers
  <2>1. mime.headers \in Seq(Symbols) /\ Head(device) \in Symbols
    BY <1>1, MimeRecord, TailType DEF ReadHeader
  <2>2. Append(mime.headers, Head(device)) \in Seq(Symbols)
    BY <2>1, AppendProperties
  <2> QED  BY <2>1, <2>2
<1>6. mime' = [mime EXCEPT !.token = t, !.boundary = b, !.headers = h]
  BY <1>3, <1>4, <1>5 DEF ReadHeader
<1>7. mime' \in Mime
  BY <1>1, <1>6 DEF Mime
<1> QED  BY <1>2, <1>7 DEF MimeOK

LEMMA ReadMimeTypes == Types /\ ReadMime => Types'
<1> SUFFICES ASSUME Types, ReadMime  PROVE Types'
  OBVIOUS
<1>1. MimeOK'
  <2>1. MimeOK
    BY DEF Types
  <2> QED  BY <2>1, StartDocumentType, EndContentType, ReadBoundaryType, ReadEmptyLineType, ReadHeaderType, ReadContentType
           DEF ReadMime, MimeReadNext
<1>2. link' = link /\ client' = client /\ request' = request /\ response' = response /\ broken' = broken
      /\ UNCHANGED readerVars /\ decoder' = decoder
  BY DEF ReadMime, formVars
<1>3. DecoderOK'
  BY <1>2 DEF Types, DecoderOK
<1> QED  BY <1>1, <1>2, <1>3, Unchanged DEF Types

\* What is left of a buffer of whole groups after n bytes of it were copied.
LEMMA RemainingType ==
  ASSUME NEW S, NEW buffer \in Seq(S), NEW n \in Nat, n > 0
  PROVE  Remaining(buffer, n) \in Seq(S) /\ Len(Remaining(buffer, n)) < 3
<1>1. PICK m : m = (IF Len(buffer) > 3 - n THEN Len(buffer) - (3 - n) ELSE 0) + 1
  OBVIOUS
<1>2. Len(buffer) \in Nat
  OBVIOUS
<1>3. m \in Nat /\ m >= 1
  BY <1>1, <1>2
<1>4. Remaining(buffer, n) = SubSeq(buffer, m, Len(buffer))
  BY <1>1 DEF Remaining
<1>5. Len(SubSeq(buffer, m, Len(buffer))) = IF m <= Len(buffer) THEN Len(buffer) - m + 1 ELSE 0
  <2>1. m \in Int /\ Len(buffer) \in Int /\ \A i \in m..Len(buffer) : buffer[i] \in S
    BY <1>2, <1>3
  <2> QED  BY <2>1, SubSeqProperties
<1>6. (IF m <= Len(buffer) THEN Len(buffer) - m + 1 ELSE 0) < 3
  BY <1>1, <1>2
<1> QED  BY <1>3, <1>4, <1>5, <1>6, BehindType

LEMMA DecoderRecord ==
  ASSUME DecoderOK
  PROVE  /\ decoder = [encoded |-> decoder.encoded, decoded |-> decoder.decoded, read |-> decoder.read,
                       size |-> decoder.size, room |-> decoder.room, state |-> decoder.state]
         /\ decoder.encoded \in Seq(Group) /\ decoder.decoded \in Seq(Symbols) /\ decoder.read \in Seq(Symbols)
         /\ decoder.size \in Nat /\ decoder.room \in Nat /\ decoder.state \in {"reading", "over", "failed"}
         /\ Len(decoder.decoded) \in Nat /\ Len(decoder.decoded) < 3
BY DEF DecoderOK

LEMMA DecoderReadLeftType ==
  ASSUME DecoderOK, NEW maxSize \in Nat \ {0}, DecoderReadLeft(maxSize)
  PROVE  DecoderOK'
<1>1. PICK n : n = Least(maxSize, Len(decoder.decoded))
  OBVIOUS
<1>2. n \in 0..Len(decoder.decoded) /\ maxSize - n \in Nat /\ n \in Nat
  BY <1>1, DecoderRecord DEF Least
<1>3. PICK r \in Seq(Symbols) : r = decoder.read \o SubSeq(decoder.decoded, 1, n)
  <2>1. SubSeq(decoder.decoded, 1, n) \in Seq(Symbols) /\ decoder.read \in Seq(Symbols)
    BY <1>2, DecoderRecord, Prefix
  <2> QED  BY <2>1, ConcatProperties
<1>4. CASE decoder.encoded = <<>>
  <2>1. PICK d \in Seq(Symbols) : d = SubSeq(decoder.decoded, n + 1, Len(decoder.decoded)) /\ Len(d) < 3
    <3>1. SubSeq(decoder.decoded, n + 1, Len(decoder.decoded)) \in Seq(Symbols)
          /\ Len(SubSeq(decoder.decoded, n + 1, Len(decoder.decoded))) = Len(decoder.decoded) - n
      BY <1>2, DecoderRecord, RestPiece DEF Rest
    <3>2. Len(decoder.decoded) - n < 3
      BY <1>2, DecoderRecord
    <3> QED  BY <3>1, <3>2
  <2>2. PICK t \in {"reading", "over", "failed"} : t = IF decoder.decoded = <<>> THEN "over" ELSE decoder.state
    BY DecoderRecord
  <2>3. decoder' = [decoder EXCEPT !.read = r, !.decoded = d, !.state = t]
    BY <1>1, <1>3, <1>4, <2>1, <2>2 DEF DecoderReadLeft
  <2> QED  BY <2>1, <2>3 DEF DecoderOK
<1>5. CASE decoder.encoded # <<>>
  <2>1. PICK d \in Seq(Symbols) : d = (IF decoder.decoded = <<>> THEN decoder.decoded ELSE Remaining(decoder.decoded, n)) /\ Len(d) < 3
    <3>1. CASE decoder.decoded = <<>>
      BY <3>1, DecoderRecord
    <3>2. CASE decoder.decoded # <<>>
      <4>1. Len(decoder.decoded) > 0
        BY <3>2, DecoderRecord, TailType
      <4>2. n > 0
        BY <1>1, <4>1, DecoderRecord DEF Least
      <4> QED  BY <1>2, <3>2, <4>2, RemainingType, DecoderRecord
    <3> QED  BY <3>1, <3>2
  <2>2. PICK m \in Nat : m = maxSize - n
    BY <1>2
  <2>3. decoder' = [decoder EXCEPT !.read = r, !.decoded = d, !.size = maxSize, !.room = m]
    BY <1>1, <1>3, <1>5, <2>1, <2>2 DEF DecoderReadLeft
  <2>4. maxSize \in Nat /\ maxSize > 0
    OBVIOUS
  <2> QED  BY <2>1, <2>3, <2>4 DEF DecoderOK
<1> QED  BY <1>4, <1>5

LEMMA DecoderReadGroupType == ASSUME DecoderOK, DecoderReadGroup  PROVE DecoderOK'
<1>1. decoder.encoded \in Seq(Group) /\ decoder.encoded # <<>> /\ decoder.room > 0 /\ decoder.size > 0
  BY DEF DecoderOK, DecoderReadGroup
<1>2. PICK g \in Group, e \in Seq(Group) : g = Head(decoder.encoded) /\ e = Tail(decoder.encoded)
  BY <1>1, TailType
<1>3. PICK b \in Seq(Symbols) : b = decoder.decoded \o g /\ Len(b) = Len(decoder.decoded) + Len(g)
  <2>1. g \in Seq(Symbols)
    BY DEF Group
  <2> QED  BY <2>1, DecoderRecord, ConcatProperties
<1>4. PICK n : n = Least(decoder.size, Len(b))
  OBVIOUS
<1>5. n \in 0..Len(b) /\ n \in Nat /\ n > 0
  <2>1. Len(g) \in 1..3
    BY DEF Group
  <2>3. PICK x, y : x = Len(decoder.decoded) /\ y = Len(g)
    OBVIOUS
  <2>4. x \in Nat /\ y \in 1..3 /\ Len(b) = x + y
    BY <1>3, <2>1, <2>3, DecoderRecord
  <2>2. Len(b) \in Nat /\ Len(b) > 0
    BY <2>4
  <2> QED  BY <1>1, <1>4, <2>2, DecoderRecord DEF Least
<1>6. decoder' = IF n > decoder.room THEN [decoder EXCEPT !.state = "failed"]
                 ELSE [decoder EXCEPT !.encoded = Tail(decoder.encoded), !.read = decoder.read \o SubSeq(b, 1, n),
                                      !.decoded = Remaining(b, n), !.room = decoder.room - n]
  BY <1>2, <1>3, <1>4, Zenon DEF DecoderReadGroup
<1>7. CASE n > decoder.room
  <2>1. decoder' = [decoder EXCEPT !.state = "failed"]
    BY <1>6, <1>7
  <2> QED  BY <2>1 DEF DecoderOK
<1>8. CASE ~(n > decoder.room)
  <2>1. PICK r \in Seq(Symbols) : r = decoder.read \o SubSeq(b, 1, n)
    <3>1. SubSeq(b, 1, n) \in Seq(Symbols) /\ decoder.read \in Seq(Symbols)
      BY <1>5, DecoderRecord, Prefix
    <3> QED  BY <3>1, ConcatProperties
  <2>2. PICK d \in Seq(Symbols) : d = Remaining(b, n) /\ Len(d) < 3
    BY <1>5, RemainingType
  <2>3. PICK m \in Nat : m = decoder.room - n
    BY <1>5, <1>8, DecoderRecord
  <2>4. decoder' = [decoder EXCEPT !.encoded = e, !.read = r, !.decoded = d, !.room = m]
    BY <1>2, <1>6, <1>8, <2>1, <2>2, <2>3
  <2> QED  BY <1>1, <2>2, <2>4 DEF DecoderOK
<1> QED  BY <1>7, <1>8

LEMMA ReadBase64Types ==
  ASSUME Types, NEW n \in ReadSizes, ReadBase64(n)
  PROVE  Types'
<1>1. DecoderOK'
  <2>1. DecoderOK /\ n \in Nat \ {0}
    BY FormAssumption DEF Types
  <2>2. CASE DecoderReadLeft(n)
    BY <2>1, <2>2, DecoderReadLeftType
  <2>3. CASE DecoderReadGroup
    BY <2>1, <2>3, DecoderReadGroupType
  <2>4. CASE DecoderReturn
    BY <2>1, <2>4 DEF DecoderReturn, DecoderOK
  <2> QED  BY <2>2, <2>3, <2>4 DEF ReadBase64, DecoderRead
<1>2. link' = link /\ client' = client /\ request' = request /\ response' = response /\ broken' = broken
      /\ UNCHANGED readerVars /\ device' = device /\ mime' = mime
  BY DEF ReadBase64, formVars
<1>3. MimeOK'
  BY <1>2 DEF Types, MimeOK
<1> QED  BY <1>1, <1>2, <1>3, Unchanged DEF Types

LEMMA TypesStep == Types /\ [Next]_vars => Types'
<1> SUFFICES ASSUME Types, [Next]_vars  PROVE Types'
  OBVIOUS
<1>1. CASE Next
  BY <1>1, Step, SendParametersTypes, AnnounceTypes, StartResponseTypes, SendBodyTypes, SendBeginTypes, SendAbortTypes,
     RunSlotTypes, LoadPostVariablesTypes, GiveUpTypes, CallReadNextTypes, ReadTokenTypes, WriteResponseTypes,
     ReadMimeTypes, ReadBase64Types
<1>2. CASE UNCHANGED vars
  BY <1>2, Unchanged DEF Types, vars, formVars
<1> QED  BY <1>1, <1>2

\* Everything has its type; as long as the assertions hold, each byte of the body is at
\* the client or has arrived; and a Base64Decoder keeps less than a group of what it has decoded.
THEOREM FormTypeCorrect == Spec => []FormTypeOK
<1>1. Init => Types
  BY InitTypes
<1>2. Types /\ [Next]_vars => Types'
  BY TypesStep
<1>3. Types => FormTypeOK
  BY TypesOK
<1> QED  BY <1>1, <1>2, <1>3, PTL DEF Spec

-----------------------------------------------------------------------------
(* The fields of a form on their way to the slot. *)

LEMMA PositionIs ==
  ASSUME NEW S, NEW s \in Seq(S), NEW characters, NEW q \in 1..Len(s), s[q] \in characters,
         \A i \in 1..(q - 1) : s[i] \notin characters
  PROVE  Position(s, characters) = q
<1>1. PICK p \in 0..Len(s) : p = Position(s, characters)
  BY PositionFound
<1>2. /\ p # 0 => s[p] \in characters /\ \A i \in 1..(p - 1) : s[i] \notin characters
      /\ p = 0 => \A i \in 1..Len(s) : s[i] \notin characters
  BY <1>1, PositionFound
<1>3. p # 0
  BY <1>2
<1>4. p = q
  <2>1. ~(p < q)
    <3>1. p < q => p \in 1..(q - 1)
      BY <1>3
    <3> QED  BY <1>2, <1>3, <3>1
  <2>2. ~(q < p)
    <3>1. q < p => q \in 1..(p - 1)
      BY <1>3
    <3> QED  BY <1>2, <1>3, <3>1
  <2>3. Len(s) \in Nat
    OBVIOUS
  <2> QED  BY <2>1, <2>2, <2>3
<1> QED  BY <1>1, <1>4

LEMMA NoPosition ==
  ASSUME NEW S, NEW s \in Seq(S), NEW characters, \A i \in 1..Len(s) : s[i] \notin characters
  PROVE  Position(s, characters) = 0
<1>1. PICK p \in 0..Len(s) : p = Position(s, characters)
  BY PositionFound
<1>2. p # 0 => s[p] \in characters
  BY <1>1, PositionFound
<1>3. p # 0 => p \in 1..Len(s)
  OBVIOUS
<1> QED  BY <1>1, <1>2, <1>3

\* The places of field k in a text.
IsField(B, form, at, k, a, l, q, d, c) ==
  /\ a = at[k - 1] /\ c = at[k] /\ l = Len(form[k][1]) /\ q = Len(form[k][2]) /\ d = (IF k = Len(form) THEN 0 ELSE 1)
  /\ a \in Nat /\ c \in Nat /\ l \in Nat /\ q \in Nat /\ d \in {0, 1} /\ c = a + l + 1 + q + d /\ c <= Len(B)
  /\ \A i \in 1..l : B[a + i] = form[k][1][i] /\ form[k][1][i] \notin {"=", "&"}
  /\ B[a + l + 1] = "="
  /\ \A i \in 1..q : B[a + l + 1 + i] = form[k][2][i] /\ form[k][2][i] # "&"
  /\ k # Len(form) => B[c] = "&"

LEMMA FieldPlaces ==
  ASSUME NEW form \in Seq(FormFields), NEW B \in Seq(Characters), NEW at \in [0..Len(form) -> Nat], IsForm(B, form, at),
         NEW k \in 1..Len(form)
  PROVE  \E a, l, q, d, c : IsField(B, form, at, k, a, l, q, d, c)
<1>1. form[k] \in FormFields /\ Len(form) \in Nat
  OBVIOUS
<1>2. PICK x \in Seq(Characters \ {"=", "&"}), y \in Seq(Characters \ {"&"}) : x = form[k][1] /\ y = form[k][2]
  BY <1>1 DEF FormFields
<1>3. PICK a, l, q, d, c : /\ a = at[k - 1] /\ c = at[k] /\ l = Len(x) /\ q = Len(y)
                           /\ d = IF k = Len(form) THEN 0 ELSE 1
  OBVIOUS
<1>4. l \in Nat /\ q \in Nat /\ (\A i \in 1..l : x[i] \notin {"=", "&"}) /\ (\A i \in 1..q : y[i] # "&") /\ d \in {0, 1}
  <2>1. Len(x) \in Nat /\ Len(y) \in Nat /\ (\A i \in 1..Len(x) : x[i] \in Characters \ {"=", "&"})
        /\ (\A i \in 1..Len(y) : y[i] \in Characters \ {"&"})
    OBVIOUS
  <2> QED  BY <1>3, <2>1
<1>5. k - 1 \in 0..Len(form) /\ k \in 0..Len(form)
  BY <1>1
<1>6. a \in Nat /\ c \in Nat
  BY <1>3, <1>5
<1>7. c <= Len(B)
  BY <1>3, <1>5, FieldOrder
<1>8. /\ c = a + l + 1 + q + d
      /\ \A i \in 1..l : B[a + i] = x[i]
      /\ B[a + l + 1] = "="
      /\ \A i \in 1..q : B[a + l + 1 + i] = y[i]
      /\ k # Len(form) => B[c] = "&"
  BY <1>2, <1>3 DEF IsForm
<1>9. IsField(B, form, at, k, a, l, q, d, c)
  BY <1>2, <1>3, <1>4, <1>6, <1>7, <1>8 DEF IsField
<1> QED  BY <1>9

\* Every '&' is the last character before a field.
LEMMA AmpersandPlaces ==
  ASSUME NEW form \in Seq(FormFields), NEW B \in Seq(Characters), NEW at \in [0..Len(form) -> Nat], IsForm(B, form, at),
         NEW m \in 1..Len(B), B[m] = "&"
  PROVE  \E j \in 0..Len(form) : m = at[j]
<1> SUFFICES ASSUME \A j \in 0..Len(form) : m # at[j]  PROVE FALSE
  OBVIOUS
<1> DEFINE N == Len(form)
           T == {k \in 0..N : at[k] < m}
<1>1. N \in Nat /\ Len(B) \in Nat
  OBVIOUS
<1>2. 0 \in T
  BY <1>1 DEF IsForm
<1>3. ASSUME NEW k \in 1..N, k - 1 \in T  PROVE k \in T
  <2>1. PICK a, p, q, d, c : IsField(B, form, at, k, a, p, q, d, c)
    BY FieldPlaces
  <2>2. a \in Nat /\ c \in Nat /\ p \in Nat /\ q \in Nat /\ d \in {0, 1} /\ c = a + p + 1 + q + d /\ a = at[k - 1] /\ c = at[k]
    BY <2>1 DEF IsField
  <2>3. /\ \A i \in 1..p : B[a + i] # "&"
        /\ B[a + p + 1] # "&"
        /\ \A i \in 1..q : B[a + p + 1 + i] # "&"
    <3>1. \A i \in 1..p : B[a + i] \notin {"=", "&"}
      BY <2>1 DEF IsField
    <3>2. B[a + p + 1] = "="
      BY <2>1 DEF IsField
    <3>3. \A i \in 1..q : B[a + p + 1 + i] # "&"
      BY <2>1 DEF IsField
    <3> QED  BY <3>1, <3>2, <3>3
  <2>4. a < m /\ m # c
    <3>1. k \in 0..N
      BY <1>1
    <3> QED  BY <1>3, <2>2, <3>1
  <2>5. c < m
    <3> SUFFICES ASSUME m < c  PROVE FALSE
      BY <2>2, <2>4
    <3>2. m \in Nat
      BY <1>1
    <3>1. \/ m - a \in 1..p /\ m = a + (m - a)
          \/ m = a + p + 1
          \/ m - (a + p + 1) \in 1..q /\ m = a + p + 1 + (m - (a + p + 1))
      <4>1. a \in Nat /\ c \in Nat /\ p \in Nat /\ q \in Nat /\ d \in {0, 1} /\ c = a + p + 1 + q + d /\ a < m /\ m < c
        BY <2>2, <2>4
      <4> QED  BY ONLY <3>2, <4>1
    <3> QED  BY <2>3, <3>1
  <2> QED  BY <1>1, <2>2, <2>5
<1>4. 0..N \subseteq T
  <2> HIDE DEF T, N
  <2> QED  BY <1>1, <1>2, <1>3, BoundedInduction
<1>5. at[N] < m /\ at[N] = Len(B)
  BY <1>1, <1>4 DEF IsForm
<1> QED  BY <1>1, <1>5

\* From behind k fields up to the end of a later one: the next name, and '=' behind it.
IsName(s, x, w) ==
  /\ s \in Seq(Characters) /\ s # <<>> /\ Len(x) + 1 \in 1..Len(s) /\ w = Len(x) + 1 /\ s[Len(x) + 1] = "="
  /\ \A i \in 1..Len(x) : s[i] = x[i]

LEMMA NextName ==
  ASSUME NEW form \in Seq(FormFields), NEW B \in Seq(Characters), NEW at \in [0..Len(form) -> Nat], IsForm(B, form, at),
         NEW k \in 1..Len(form), NEW p \in Nat, at[k] <= p, p <= Len(B)
  PROVE  \A s, x, w : s = SubSeq(B, at[k - 1] + 1, p) /\ x = form[k][1] /\ w = Position(s, {"="} \union {"&"}) => IsName(s, x, w)
<1> SUFFICES ASSUME NEW s, s = SubSeq(B, at[k - 1] + 1, p), NEW x, x = form[k][1], NEW w, w = Position(s, {"="} \union {"&"})
             PROVE  IsName(s, x, w)
  BY Zenon
<1>1. PICK a, l, q, d, c : IsField(B, form, at, k, a, l, q, d, c)
  BY FieldPlaces
<1>2. a \in Nat /\ c \in Nat /\ l \in Nat /\ q \in Nat /\ d \in {0, 1} /\ c = a + l + 1 + q + d /\ p \in Nat /\ c <= p
  BY <1>1 DEF IsField
<1>9. /\ a = at[k - 1] /\ c = at[k] /\ l = Len(form[k][1]) /\ q = Len(form[k][2]) /\ (d = 0 <=> k = Len(form))
  BY <1>1 DEF IsField
<1>3. a <= p /\ l + 1 \in 1..(p - a)
  BY ONLY <1>2
<1>4. s \in Seq(Characters) /\ Len(s) = p - a /\ \A i \in 1..(p - a) : s[i] = B[a + i]
  <2>1. s = SubSeq(B, a + 1, p)
    BY <1>9
  <2>2. /\ SubSeq(B, a + 1, p) \in Seq(Characters) /\ Len(SubSeq(B, a + 1, p)) = p - a
        /\ \A i \in 1..(p - a) : SubSeq(B, a + 1, p)[i] = B[a + i]
    BY <1>2, <1>3, Piece
  <2> QED  BY <2>1, <2>2
<1>5. \A i \in 1..l : s[i] = form[k][1][i] /\ s[i] \notin {"="} \union {"&"}
  <2>1. \A i \in 1..l : i \in 1..(p - a)
    BY ONLY <1>2, <1>3
  <2>2. \A i \in 1..l : B[a + i] = form[k][1][i] /\ form[k][1][i] \notin {"=", "&"}
    BY <1>1 DEF IsField
  <2> QED  BY <1>4, <2>1, <2>2
<1>6. s[l + 1] = "="
  <2>1. B[a + l + 1] = "="
    BY <1>1 DEF IsField
  <2>2. a + (l + 1) = a + l + 1
    BY <1>2
  <2> QED  BY <1>3, <1>4, <2>1, <2>2
<1>7. Position(s, {"="} \union {"&"}) = l + 1
  <2>1. \A i \in 1..(l + 1 - 1) : s[i] \notin {"="} \union {"&"}
    <3>1. l + 1 - 1 = l
      BY <1>2
    <3> QED  BY <1>5, <3>1
  <2>2. l + 1 \in 1..Len(s) /\ s[l + 1] \in {"="} \union {"&"}
    BY <1>3, <1>4, <1>6
  <2>3. PICK C : C = {"="} \union {"&"}
    OBVIOUS
  <2>4. Position(s, C) = l + 1
    <3>1. PICK r : r = l + 1
      OBVIOUS
    <3>2. r \in 1..Len(s) /\ s[r] \in C
      BY <2>2, <2>3, <3>1
    <3>3. \A i \in 1..(r - 1) : s[i] \notin C
      <4>1. r - 1 = l
        BY <1>2, <3>1
      <4>2. \A i \in 1..l : s[i] \notin C
        BY <1>5, <2>3, Zenon
      <4> QED  BY <4>1, <4>2
    <3>4. Position(s, C) = r
      BY <1>4, <3>2, <3>3, PositionIs
    <3> QED  BY <3>1, <3>4
  <2> QED  BY <2>3, <2>4
<1>8. s # <<>>
  <2>1. Len(<<>>) = 0
    OBVIOUS
  <2>2. Len(s) # 0
    <3>1. p - a # 0
      BY ONLY <1>2, <1>3
    <3> QED  BY <1>4, <3>1
  <2> QED  BY <2>1, <2>2
<1>10. l = Len(x) /\ \A i \in 1..l : s[i] = x[i]
  BY <1>5, <1>9
<1>11. w = l + 1
  BY <1>7, Zenon
<1>12. l + 1 \in 1..Len(s)
  BY <1>3, <1>4
<1> QED  BY <1>4, <1>6, <1>8, <1>10, <1>11, <1>12, Zenon DEF IsName

\* From behind a '=' up to the end of that field or a later one: the value, and '&' behind
\* it, or nothing.
IsValue(s, y, w, b, c, p) ==
  /\ b \in Nat /\ b <= p /\ s \in Seq(Characters) /\ Len(y) \in Nat
  /\ \A i \in 1..Len(y) : i \in 1..Len(s) /\ s[i] = y[i]
  /\ \/ w = Len(y) + 1 /\ Len(y) + 1 \in 1..Len(s) /\ s[Len(y) + 1] = "&" /\ b + Len(y) + 1 = c
     \/ w = 0 /\ Len(s) = Len(y) /\ b + Len(y) = c /\ p = c

LEMMA NextValue ==
  ASSUME NEW form \in Seq(FormFields), NEW B \in Seq(Characters), NEW at \in [0..Len(form) -> Nat], IsForm(B, form, at),
         NEW k \in 1..Len(form), NEW p \in Nat, at[k] <= p, p <= Len(B)
  PROVE  \A b, s, y, w : b = at[k - 1] + Len(form[k][1]) + 1 /\ s = SubSeq(B, b + 1, p) /\ y = form[k][2]
                           /\ w = Position(s, {"&"} \union {}) => IsValue(s, y, w, b, at[k], p)
<1> SUFFICES ASSUME NEW b, b = at[k - 1] + Len(form[k][1]) + 1, NEW s, s = SubSeq(B, b + 1, p),
                    NEW y, y = form[k][2], NEW w, w = Position(s, {"&"} \union {})
             PROVE  IsValue(s, y, w, b, at[k], p)
  BY Zenon
<1>1. PICK a, l, q, d, c : IsField(B, form, at, k, a, l, q, d, c)
  BY FieldPlaces
<1>2. a \in Nat /\ c \in Nat /\ l \in Nat /\ q \in Nat /\ d \in {0, 1} /\ c = a + l + 1 + q + d /\ p \in Nat /\ c <= p
  BY <1>1 DEF IsField
<1>9. /\ a = at[k - 1] /\ c = at[k] /\ l = Len(form[k][1]) /\ q = Len(form[k][2]) /\ (d = 0 <=> k = Len(form))
  BY <1>1 DEF IsField
<1>10. b = a + l + 1
  BY <1>9
<1>3. b = a + l + 1 /\ b \in Nat /\ c = b + q + d /\ b <= p /\ q + d \in 0..(p - b)
  BY ONLY <1>2, <1>10
<1>4. s \in Seq(Characters) /\ Len(s) = p - b /\ \A i \in 1..(p - b) : s[i] = B[b + i]
  <2>1. /\ SubSeq(B, b + 1, p) \in Seq(Characters) /\ Len(SubSeq(B, b + 1, p)) = p - b
        /\ \A i \in 1..(p - b) : SubSeq(B, b + 1, p)[i] = B[b + i]
    <3>1. PICK x : x = b
      OBVIOUS
    <3>2. x \in Nat /\ x <= p /\ p \in Nat /\ p <= Len(B)
      BY <1>2, <1>3, <3>1
    <3>3. /\ SubSeq(B, x + 1, p) \in Seq(Characters) /\ Len(SubSeq(B, x + 1, p)) = p - x
          /\ \A i \in 1..(p - x) : SubSeq(B, x + 1, p)[i] = B[x + i]
      BY ONLY <3>2, Piece, B \in Seq(Characters)
    <3> QED  BY <3>1, <3>3
  <2> QED  BY <2>1
<1>5. \A i \in 1..q : i \in 1..Len(s) /\ s[i] = form[k][2][i] /\ s[i] # "&"
  <2>1. \A i \in 1..q : i \in 1..(p - b)
    BY ONLY <1>2, <1>3
  <2>2. \A i \in 1..q : B[b + i] = form[k][2][i] /\ form[k][2][i] # "&"
    BY <1>1, <1>3 DEF IsField
  <2> QED  BY <1>4, <2>1, <2>2
<1>11. q = Len(y) /\ q \in Nat /\ \A i \in 1..q : i \in 1..Len(s) /\ s[i] = y[i]
  BY <1>2, <1>5, <1>9
<1>6. CASE k # Len(form)
  <2>1. d = 1 /\ b + q + 1 = c /\ q + 1 \in 1..(p - b) /\ b + (q + 1) = c
    <3>1. d = 1
      BY <1>2, <1>6, <1>9
    <3> QED  BY ONLY <1>2, <1>3, <3>1
  <2>2. s[q + 1] = "&"
    <3>1. B[c] = "&"
      BY <1>1, <1>6 DEF IsField
    <3> QED  BY <1>4, <2>1, <3>1
  <2>3. Position(s, {"&"} \union {}) = q + 1
    <3>1. \A i \in 1..(q + 1 - 1) : s[i] \notin {"&"} \union {}
      <4>1. q + 1 - 1 = q
        BY <1>2
      <4>2. \A i \in 1..q : s[i] \notin {"&"} \union {}
        BY <1>5
      <4> QED  BY <4>1, <4>2
    <3>2. q + 1 \in 1..Len(s) /\ s[q + 1] \in {"&"} \union {}
      BY <1>4, <2>1, <2>2
    <3>3. PICK C : C = {"&"} \union {}
      OBVIOUS
    <3>4. Position(s, C) = q + 1
      <4>1. PICK r : r = q + 1
        OBVIOUS
      <4>2. r \in 1..Len(s) /\ s[r] \in C
        BY <3>2, <3>3, <4>1
      <4>3. \A i \in 1..(r - 1) : s[i] \notin C
        <5>1. r - 1 = q
          BY <1>2, <4>1
        <5>2. \A i \in 1..q : s[i] \notin C
          <6>1. \A i \in 1..q : s[i] \notin {"&"} \union {}
            BY <1>5
          <6> QED  BY <3>3, <6>1, Zenon
        <5> QED  BY <5>1, <5>2
      <4>4. Position(s, C) = r
        BY <1>4, <4>2, <4>3, PositionIs
      <4> QED  BY <4>1, <4>4
    <3> QED  BY <3>3, <3>4
  <2>4. q + 1 \in 1..Len(s)
    BY <1>4, <2>1
  <2>5. w = q + 1
    BY <2>3, Zenon
  <2>6. b + q + 1 = at[k]
    BY <1>9, <2>1
  <2> QED  BY <1>3, <1>4, <1>11, <2>2, <2>4, <2>5, <2>6, Zenon DEF IsValue
<1>7. CASE k = Len(form)
  <2>1. p = c /\ d = 0 /\ b + q = c
    <3>1. c = Len(B)
      BY <1>9, <1>7 DEF IsForm
    <3>2. Len(B) \in Nat
      OBVIOUS
    <3>3. d = 0 /\ p <= Len(B)
      BY <1>9, <1>7
    <3> QED  BY ONLY <1>2, <1>3, <3>1, <3>2, <3>3
  <2>2. Len(s) = q /\ \A i \in 1..Len(s) : s[i] # "&"
    <3>1. p - b = q
      BY ONLY <1>2, <1>3, <2>1
    <3> QED  BY <1>4, <1>5, <3>1
  <2>3. Position(s, {"&"} \union {}) = 0
    <3>1. \A i \in 1..Len(s) : s[i] \notin {"&"} \union {}
      BY <2>2
    <3> QED  BY <1>4, <3>1, NoPosition
  <2>4. b + q = c /\ p = c
    BY <2>1
  <2>5. w = 0
    BY <2>3, Zenon
  <2>6. b + q = at[k] /\ p = at[k]
    BY <1>9, <2>4
  <2> QED  BY <1>3, <1>4, <1>11, <2>2, <2>5, <2>6, Zenon DEF IsValue
<1> QED  BY <1>6, <1>7

\* Where each field of a form ends in its text, with the '&' behind it.
Ends(form) == CHOOSE at \in [0..Len(form) -> Nat] : IsForm(Body(form), form, at)

LEMMA EndsOK ==
  ASSUME LinkOK
  PROVE  /\ link.form \in Seq(FormFields) /\ Len(link.form) \in Nat
         /\ Body(link.form) \in Seq(Characters) /\ Len(Body(link.form)) \in Nat
         /\ Ends(link.form) \in [0..Len(link.form) -> Nat] /\ IsForm(Body(link.form), link.form, Ends(link.form))
<1>1. link.form \in Seq(FormFields) /\ Body(link.form) \in Seq(Characters)
  BY FormOK
<1>2. \E at \in [0..Len(link.form) -> Nat] : IsForm(Body(link.form), link.form, at)
  BY <1>1, FormText
<1>3. Ends(link.form) \in [0..Len(link.form) -> Nat] /\ IsForm(Body(link.form), link.form, Ends(link.form))
  BY <1>2 DEF Ends
<1> QED  BY <1>1, <1>3, LenProperties

FieldEnd(i) == \E j \in 0..Len(link.form) : i = Ends(link.form)[j]
OnceRead == link.transport # "FCGI" \/ request.reads <= 1
Paused == reader.token \in {"NoToken", "Invalid", "EndData"}

\* The bytes of the body are at the client or have arrived, and are cut behind a '&'.
BytesOK ==
  /\ request.arrived = SubSeq(Body(link.form), 1, Len(request.arrived)) /\ Len(request.arrived) <= Len(Body(link.form))
  /\ ~broken => client.body = Rest(Body(link.form), Len(request.arrived))
  /\ client.wholeFields => FieldEnd(Len(request.arrived)) /\ FieldEnd(request.position)
  /\ request.reads = 0 => request.position = 0

\* What rawValues(PostData) has; and a slot that reads a stream is called while no token is read.
SlotOK ==
  /\ link.use # "stream" => ~request.signalled /\ reader.token = "NoToken" /\ reader.fields = <<>>
  /\ link.use # "values" \/ request.gaveUp => request.data = <<>>
  /\ request.phase \notin {"responding", "ended"} => ~request.signalled /\ reader.token = "NoToken"
  /\ request.signalled => Paused
  /\ OnceRead /\ link.use = "values" /\ ~request.gaveUp => request.data = SubSeq(Body(link.form), 1, request.position)

\* A stream reader that sees whole fields is behind one of them, or behind a name and before its '='.
FieldsOK ==
  LET k == Len(reader.fields) IN
  link.use = "stream" /\ OnceRead /\ client.wholeFields =>
    /\ k <= Len(link.form) /\ \A i \in 1..k : reader.fields[i] = link.form[i]
    /\ reader.bytesRead <= request.position /\ source = SubSeq(Body(link.form), reader.bytesRead + 1, request.position)
    /\ IF reader.token = "VariableName"
       THEN /\ k < Len(link.form) /\ Ends(link.form)[k + 1] <= request.position
            /\ reader.name = link.form[k + 1][1] /\ reader.buffer = <<"=">>
            /\ reader.bytesRead = Ends(link.form)[k] + Len(reader.name) + 1
       ELSE reader.buffer = <<>> /\ reader.bytesRead = Ends(link.form)[k]
    /\ Paused => reader.bytesRead = request.position
    /\ reader.token = "EndData" => k = Len(link.form)
    /\ reader.token = "Invalid" => \/ reader.lastValid \in {"StartData", "VariableValue"}
                                   \/ reader.lastValid = "Invalid" /\ k = Len(link.form)

Fields == Types /\ BytesOK /\ SlotOK /\ FieldsOK

LEMMA IsBeginning ==
  ASSUME NEW S, NEW s \in Seq(S), NEW t \in Seq(S), Len(s) <= Len(t), \A i \in 1..Len(s) : s[i] = t[i]
  PROVE  IsPrefix(s, t)
<1>1. Len(s) \in 0..Len(t) /\ Len(s) \in 0..Len(s)
  OBVIOUS
<1>2. PICK u, v : u = SubSeq(s, 1, Len(s)) /\ v = SubSeq(t, 1, Len(s))
  OBVIOUS
<1>3. u \in Seq(S) /\ Len(u) = Len(s) /\ \A i \in 1..Len(s) : u[i] = s[i]
  BY <1>1, <1>2, Prefix
<1>4. v \in Seq(S) /\ Len(v) = Len(s) /\ \A i \in 1..Len(s) : v[i] = t[i]
  BY <1>1, <1>2, Prefix
<1>5. u = v
  <2>1. Len(u) = Len(v) /\ \A i \in 1..Len(u) : u[i] = v[i]
    BY <1>3, <1>4
  <2> QED  BY <1>3, <1>4, <2>1, SeqEqual
<1> QED  BY <1>2, <1>5 DEF IsPrefix

LEMMA PrefixBeginning ==
  ASSUME NEW S, NEW t \in Seq(S), NEW n \in 0..Len(t)
  PROVE  IsPrefix(SubSeq(t, 1, n), t)
<1>1. PICK s : s = SubSeq(t, 1, n)
  OBVIOUS
<1>2. s \in Seq(S) /\ Len(s) = n /\ \A i \in 1..n : s[i] = t[i]
  BY <1>1, Prefix
<1>3. Len(s) <= Len(t) /\ \A i \in 1..Len(s) : s[i] = t[i]
  BY <1>2
<1> QED  BY <1>1, <1>2, <1>3, IsBeginning

LEMMA ReaderTypes ==
  ASSUME ReaderOK
  PROVE  /\ source \in Seq(Characters) /\ Len(source) \in Nat /\ reader.token \in TokenType /\ reader.lastValid \in TokenType
         /\ reader.name \in Seq(Characters) /\ reader.buffer \in Seq(Characters) /\ reader.bytesRead \in Nat
         /\ reader.fields \in Seq(Seq(Characters) \X Seq(Characters)) /\ Len(reader.fields) \in Nat
BY DEF ReaderOK, Reader

LEMMA FieldsImply == Fields => FieldsAsSent
<1> SUFFICES ASSUME Fields, OnceRead
             PROVE  /\ IsPrefix(request.data, Body(link.form))
                    /\ client.wholeFields => IsPrefix(reader.fields, link.form)
                    /\ client.wholeFields /\ reader.token = "EndData" => reader.fields = link.form
  BY DEF FieldsAsSent, OnceRead
<1>1. LinkOK /\ RequestOK /\ ReaderOK
  BY DEF Fields, Types
<1>2. /\ link.form \in Seq(FormFields) /\ Len(link.form) \in Nat
      /\ Body(link.form) \in Seq(Characters) /\ Len(Body(link.form)) \in Nat
  BY <1>1, EndsOK
<1>3. request.position \in 0..Len(Body(link.form))
  <2>1. request.position \in Nat /\ request.position <= Len(request.arrived) /\ Len(request.arrived) \in Nat
    BY <1>1 DEF RequestOK
  <2>2. Len(request.arrived) <= Len(Body(link.form))
    BY DEF Fields, BytesOK
  <2> QED  BY <1>2, <2>1, <2>2
<1>4. IsPrefix(request.data, Body(link.form))
  <2>1. CASE link.use = "values" /\ ~request.gaveUp
    <3>1. request.data = SubSeq(Body(link.form), 1, request.position)
      BY <2>1 DEF Fields, SlotOK
    <3> QED  BY <1>2, <1>3, <3>1, PrefixBeginning
  <2>2. CASE link.use # "values" \/ request.gaveUp
    <3>1. request.data = <<>>
      BY <2>2 DEF Fields, SlotOK
    <3>2. <<>> \in Seq(Characters) /\ Len(<<>>) <= Len(Body(link.form)) /\ \A i \in 1..Len(<<>>) : FALSE
      BY <1>2
    <3> QED  BY <1>2, <3>1, <3>2, IsBeginning
  <2> QED  BY <2>1, <2>2
<1>5. reader.fields \in Seq(Seq(Characters) \X Seq(Characters)) /\ Len(reader.fields) \in Nat
  BY <1>1, ReaderTypes
<1>6. link.form \in Seq(Seq(Characters) \X Seq(Characters))
  <2>1. FormFields \subseteq Seq(Characters) \X Seq(Characters)
    <3>1. Characters \ {"=", "&"} \subseteq Characters /\ Characters \ {"&"} \subseteq Characters
      OBVIOUS
    <3>2. (\A x \in Seq(Characters \ {"=", "&"}) : x \in Seq(Characters)) /\ (\A x \in Seq(Characters \ {"&"}) : x \in Seq(Characters))
      BY <3>1, SeqMonotonic
    <3> QED  BY <3>2 DEF FormFields
  <2> QED  BY <1>2, <2>1, SeqMonotonic
<1>7. ASSUME client.wholeFields  PROVE IsPrefix(reader.fields, link.form) /\ (reader.token = "EndData" => reader.fields = link.form)
  <2>1. CASE link.use = "stream"
    <3>1. Len(reader.fields) <= Len(link.form) /\ \A i \in 1..Len(reader.fields) : reader.fields[i] = link.form[i]
      BY <1>7, <2>1 DEF Fields, FieldsOK
    <3>2. reader.token = "EndData" => Len(reader.fields) = Len(link.form)
      BY <1>7, <2>1 DEF Fields, FieldsOK
    <3>3. IsPrefix(reader.fields, link.form)
      BY <1>5, <1>6, <3>1, IsBeginning
    <3>4. reader.token = "EndData" => reader.fields = link.form
      BY <1>5, <1>6, <3>1, <3>2, SeqEqual
    <3> QED  BY <3>3, <3>4
  <2>2. CASE link.use # "stream"
    <3>1. reader.fields = <<>> /\ reader.token = "NoToken"
      BY <2>2 DEF Fields, SlotOK
    <3>2. Len(reader.fields) = 0
      BY <3>1
    <3>3. IsPrefix(reader.fields, link.form)
      BY <1>2, <1>5, <1>6, <3>2, IsBeginning
    <3> QED  BY <3>1, <3>3
  <2> QED  BY <2>1, <2>2
<1> QED  BY <1>4, <1>7

LEMMA InitFields == Init => Fields
<1> SUFFICES ASSUME Init  PROVE Fields
  OBVIOUS
<1>1. Types /\ LinkOK
  BY InitTypes DEF Types
<1>2. Idle
  BY DEF Init
<1>3. /\ link.form \in Seq(FormFields) /\ Len(link.form) \in Nat
      /\ Body(link.form) \in Seq(Characters) /\ Len(Body(link.form)) \in Nat
      /\ IsForm(Body(link.form), link.form, Ends(link.form))
  BY <1>1, EndsOK
<1>4. /\ request.arrived = <<>> /\ request.position = 0 /\ request.reads = 0 /\ request.signalled = FALSE
      /\ request.data = <<>> /\ request.gaveUp = FALSE /\ Len(request.arrived) = 0
  BY <1>2 DEF Idle
<1>5. client.body = Body(link.form) /\ source = <<>>
  BY <1>2 DEF Idle
<1>6. reader.token = "NoToken" /\ reader.fields = <<>> /\ reader.buffer = <<>> /\ reader.bytesRead = 0 /\ Len(reader.fields) = 0
  BY <1>2 DEF Idle, ReaderInit
<1>7. FieldEnd(0) /\ Ends(link.form)[0] = 0
  <2>1. Ends(link.form)[0] = 0 /\ 0 \in 0..Len(link.form)
    BY <1>3 DEF IsForm
  <2> QED  BY <2>1 DEF FieldEnd
<1>8. SubSeq(Body(link.form), 1, 0) = <<>> /\ SubSeq(Body(link.form), 0 + 1, 0) = <<>>
  <2>1. 0 + 1 = 1
    OBVIOUS
  <2> QED  BY <1>3, <2>1, SubSeqEmpty
<1>9. BytesOK
  <2>1. Rest(Body(link.form), 0) = Body(link.form)
    BY <1>3, WholePiece DEF Rest
  <2> QED  BY <1>3, <1>4, <1>5, <1>7, <1>8, <2>1 DEF BytesOK
<1>10. SlotOK
  BY <1>4, <1>6, <1>8 DEF SlotOK, Paused
<1>11. FieldsOK
  BY <1>3, <1>4, <1>5, <1>6, <1>7, <1>8 DEF FieldsOK
<1> QED  BY <1>1, <1>9, <1>10, <1>11 DEF Fields

\* A step that leaves the bytes and the reader alone.
LEMMA FieldsFrame ==
  ASSUME Fields, Types', link' = link, source' = source, reader' = reader,
         request'.arrived = request.arrived, request'.position = request.position, request'.reads = request.reads,
         request'.data = request.data, request'.gaveUp = request.gaveUp,
         client'.wholeFields => client.wholeFields,
         ~broken' => ~broken /\ client'.body = client.body,
         request'.signalled => link.use = "stream" /\ Paused /\ request'.phase \in {"responding", "ended"},
         request'.phase \in {"responding", "ended"} \/ reader.token = "NoToken"
  PROVE  Fields'
<1>1. BytesOK'
  BY DEF Fields, BytesOK, FieldEnd
<1>2. OnceRead' <=> OnceRead
  BY DEF OnceRead
<1>3. SlotOK'
  BY <1>2 DEF Fields, SlotOK, Paused
<1>4. FieldsOK'
  BY <1>2 DEF Fields, FieldsOK, Paused
<1> QED  BY <1>1, <1>3, <1>4 DEF Fields

\* The same for request too.
LEMMA FieldsUntouched ==
  ASSUME Fields, Types', link' = link, source' = source, reader' = reader, request' = request,
         client'.wholeFields => client.wholeFields, ~broken' => ~broken /\ client'.body = client.body
  PROVE  Fields'
<1>1. /\ request.signalled => link.use = "stream" /\ Paused /\ request.phase \in {"responding", "ended"}
      /\ request.phase \in {"responding", "ended"} \/ reader.token = "NoToken"
  BY DEF Fields, SlotOK
<1> QED  BY <1>1, FieldsFrame

\* Behind n bytes of what is left of the body.
LEMMA BytesArrive ==
  ASSUME LinkOK, RequestOK, ClientOK, BytesOK, ~broken, NEW n \in 0..Len(client.body)
  PROVE  /\ Len(request.arrived) \in Nat
         /\ Len(request.arrived \o SubSeq(client.body, 1, n)) = Len(request.arrived) + n
         /\ request.arrived \o SubSeq(client.body, 1, n) = SubSeq(Body(link.form), 1, Len(request.arrived) + n)
         /\ Rest(client.body, n) = Rest(Body(link.form), Len(request.arrived) + n)
         /\ Len(request.arrived) + n <= Len(Body(link.form))
         /\ client.wholeFields /\ (n \in {0, Len(client.body)} \/ client.body[n] = "&") => FieldEnd(Len(request.arrived) + n)
<1>1. PICK B, a, c, r : B = Body(link.form) /\ a = Len(request.arrived) /\ c = client.body /\ r = request.arrived
  OBVIOUS
<1>2. B \in Seq(Characters) /\ Len(B) \in Nat /\ r \in Seq(Characters) /\ a = Len(r) /\ a \in Nat /\ c \in Seq(Characters)
  BY <1>1, EndsOK DEF RequestOK, ClientOK
<1>3. r = SubSeq(B, 1, a) /\ a <= Len(B) /\ c = SubSeq(B, a + 1, Len(B))
  BY <1>1 DEF BytesOK, Rest
<1>4. Len(c) = Len(B) - a /\ \A i \in 1..(Len(B) - a) : c[i] = B[a + i]
  <2>1. PICK e \in Nat : e = Len(B)
    BY <1>2
  <2>2. a <= e /\ e <= Len(B) /\ c = SubSeq(B, a + 1, e)
    <3>1. a <= e /\ e <= Len(B)
      BY <1>2, <1>3, <2>1
    <3>2. c = SubSeq(B, a + 1, e)
      BY <1>3, <2>1, Zenon
    <3> QED  BY <3>1, <3>2
  <2>3. Len(SubSeq(B, a + 1, e)) = e - a /\ \A i \in 1..(e - a) : SubSeq(B, a + 1, e)[i] = B[a + i]
    BY <1>2, <2>2, Piece
  <2>4. Len(c) = e - a /\ \A i \in 1..(e - a) : c[i] = B[a + i]
    BY <2>2, <2>3
  <2> QED  BY <2>1, <2>4
<1>5. n \in Nat /\ n <= Len(B) - a /\ a + n <= Len(B) /\ a + n \in Nat
  BY <1>1, <1>2, <1>3, <1>4
<1>6. SubSeq(c, 1, n) = SubSeq(B, a + 1, a + n)
  <2>1. SubSeq(SubSeq(B, a + 1, Len(B)), 0 + 1, n) = SubSeq(B, a + 0 + 1, a + n)
    BY <1>2, <1>3, <1>5, PieceOfPiece
  <2>2. 0 + 1 = 1 /\ a + 0 + 1 = a + 1
    BY <1>2
  <2> QED  BY <1>3, <2>1, <2>2
<1>7. r \o SubSeq(c, 1, n) = SubSeq(B, 1, a + n)
  <2>1. PICK z \in Nat, e \in Nat : z = 0 /\ e = a + n
    BY <1>5
  <2>2. z <= a /\ a <= e /\ e <= Len(B)
    BY <1>2, <1>5, <2>1
  <2>3. SubSeq(B, z + 1, a) \o SubSeq(B, a + 1, e) = SubSeq(B, z + 1, e)
    BY <1>2, <2>2, PieceConcat, ZenonT(30)
  <2>4. z + 1 = 1
    BY <2>1
  <2> QED  BY <1>3, <1>6, <2>1, <2>3, <2>4
<1>8. Len(r \o SubSeq(c, 1, n)) = a + n
  BY <1>2, <1>5, <1>7, Prefix
<1>9. SubSeq(c, n + 1, Len(c)) = SubSeq(B, a + n + 1, Len(B))
  <2>1. SubSeq(SubSeq(B, a + 1, Len(B)), n + 1, Len(B) - a) = SubSeq(B, a + n + 1, a + (Len(B) - a))
    <3>0. Len(B) - a \in Nat
      BY <1>2, <1>3
    <3>1. PICK l \in Nat, e \in Nat : l = Len(B) - a /\ e = Len(B)
      BY <1>2, <3>0
    <3>2. n <= l /\ l <= e - a /\ a <= e /\ e <= Len(B)
      BY <1>2, <1>3, <1>5, <3>1
    <3>3. SubSeq(SubSeq(B, a + 1, e), n + 1, l) = SubSeq(B, a + n + 1, a + l)
      BY <1>2, <1>5, <3>2, PieceOfPiece
    <3> QED  BY <3>1, <3>3
  <2>2. a + (Len(B) - a) = Len(B)
    BY <1>2
  <2> QED  BY <1>3, <1>4, <2>1, <2>2
<1>10. ASSUME client.wholeFields, n \in {0, Len(client.body)} \/ client.body[n] = "&"  PROVE FieldEnd(a + n)
  <2>1. CASE n = 0
    <3>1. FieldEnd(a)
      BY <1>1, <1>10 DEF BytesOK
    <3>2. a + n = a
      BY <1>2, <2>1
    <3> QED  BY <3>1, <3>2
  <2>2. CASE n = Len(client.body)
    <3>1. a + n = Len(B)
      <4>1. n = Len(c)
        BY <1>1, <2>2
      <4>2. n = Len(B) - a
        BY <1>4, <4>1
      <4> QED  BY ONLY <1>2, <4>2
    <3>2. Ends(link.form)[Len(link.form)] = Len(B) /\ Len(link.form) \in 0..Len(link.form)
      BY <1>1, EndsOK DEF IsForm
    <3> QED  BY <3>1, <3>2 DEF FieldEnd
  <2>3. CASE n # 0 /\ n # Len(client.body)
    <3>1. client.body[n] = "&"
      BY <1>10, <2>3
    <3>2. n \in 1..(Len(B) - a)
      BY <1>2, <1>5, <2>3
    <3>3. B[a + n] = "&" /\ a + n \in 1..Len(B)
      <4>1. c[n] = B[a + n]
        BY <1>4, <3>2
      <4>2. a + n \in 1..Len(B)
        BY <1>2, <1>5, <3>2
      <4> QED  BY <1>1, <3>1, <4>1, <4>2
    <3>4. \E j \in 0..Len(link.form) : a + n = Ends(link.form)[j]
      <4>1. PICK m \in 1..Len(B) : m = a + n /\ B[m] = "&"
        BY <3>3
      <4>2. \E j \in 0..Len(link.form) : m = Ends(link.form)[j]
        BY <1>1, <4>1, EndsOK, AmpersandPlaces
      <4> QED  BY <4>1, <4>2
    <3> QED  BY <3>4 DEF FieldEnd
  <2> QED  BY <2>1, <2>2, <2>3
<1> QED  BY <1>1, <1>2, <1>5, <1>7, <1>8, <1>9, <1>10 DEF Rest

LEMMA FieldsArrive ==
  ASSUME Fields, Types', ~broken, NEW n \in 0..Len(client.body), link' = link, source' = source, reader' = reader,
         request'.arrived = request.arrived \o SubSeq(client.body, 1, n),
         request'.position = request.position, request'.reads = request.reads,
         request'.data = request.data, request'.gaveUp = request.gaveUp,
         client'.body = Rest(client.body, n),
         client'.wholeFields => client.wholeFields /\ (n \in {0, Len(client.body)} \/ client.body[n] = "&"),
         request'.signalled => link.use = "stream" /\ Paused /\ request'.phase \in {"responding", "ended"},
         request'.phase \in {"responding", "ended"} \/ reader.token = "NoToken"
  PROVE  Fields'
<1>1. LinkOK /\ RequestOK /\ ClientOK /\ BytesOK
  BY DEF Fields, Types
<1>2. PICK a : a = Len(request.arrived) + n
  OBVIOUS
<1>3. /\ Len(request'.arrived) = a /\ request'.arrived = SubSeq(Body(link.form), 1, a) /\ a <= Len(Body(link.form))
      /\ client'.body = Rest(Body(link.form), a)
      /\ client'.wholeFields => FieldEnd(a)
  BY <1>1, <1>2, BytesArrive
<1>4. BytesOK'
  BY <1>1, <1>3 DEF BytesOK, FieldEnd
<1>5. OnceRead' <=> OnceRead
  BY DEF OnceRead
<1>6. SlotOK'
  BY <1>5 DEF Fields, SlotOK, Paused
<1>7. FieldsOK'
  BY <1>5 DEF Fields, FieldsOK, Paused
<1> QED  BY <1>4, <1>6, <1>7 DEF Fields

\* What Arrived and BodyAfter change.
LEMMA ArrivedFields ==
  ASSUME ClientOK, RequestOK, NEW n \in 0..Len(client.body), NEW phase
  PROVE  /\ Arrived(n, phase).arrived = request.arrived \o SubSeq(client.body, 1, n)
         /\ Arrived(n, phase).position = request.position /\ Arrived(n, phase).reads = request.reads
         /\ Arrived(n, phase).data = request.data /\ Arrived(n, phase).gaveUp = request.gaveUp
         /\ Arrived(n, phase).phase = phase /\ Arrived(n, phase).closes = request.closes
         /\ Arrived(n, phase).params = request.params
         /\ Arrived(n, phase).signalled => request.phase = "responding" /\ link.use = "stream"
         /\ Arrived(n, phase) =
              [phase |-> phase, closes |-> request.closes, params |-> request.params, arrived |-> Arrived(n, phase).arrived,
               position |-> request.position, reads |-> request.reads, signalled |-> Arrived(n, phase).signalled,
               data |-> request.data, gaveUp |-> request.gaveUp]
         /\ BodyAfter(n).body = Rest(client.body, n) /\ BodyAfter(n).wholePairs = client.wholePairs
         /\ BodyAfter(n).params = client.params
         /\ BodyAfter(n).wholeFields => client.wholeFields /\ (n \in {0, Len(client.body)} \/ client.body[n] = "&")
         /\ BodyAfter(n) =
              [params |-> client.params, body |-> BodyAfter(n).body, wholePairs |-> client.wholePairs, wholeFields |-> BodyAfter(n).wholeFields]
<1> DEFINE Signal == request.phase = "responding" /\ link.use = "stream" /\ link.transport \in {"FCGI", "HTTP"}
           Cut == client.wholeFields /\ (n \in {0, Len(client.body)} \/ client.body[n] = "&")
<1>0. client.wholeFields \in BOOLEAN
  BY DEF ClientOK
<1>1. PICK r, s : r = request.arrived \o SubSeq(client.body, 1, n) /\ s = Signal
  OBVIOUS
<1>2. Arrived(n, phase) = [request EXCEPT !.phase = phase, !.arrived = r, !.signalled = s]
  BY <1>1, Zenon DEF Arrived
<1>3. request = [phase |-> request.phase, closes |-> request.closes, params |-> request.params, arrived |-> request.arrived,
                 position |-> request.position, reads |-> request.reads, signalled |-> request.signalled,
                 data |-> request.data, gaveUp |-> request.gaveUp]
  BY DEF RequestOK
<1>4. Arrived(n, phase) = [phase |-> phase, closes |-> request.closes, params |-> request.params, arrived |-> r,
                           position |-> request.position, reads |-> request.reads, signalled |-> s,
                           data |-> request.data, gaveUp |-> request.gaveUp]
  BY <1>2, <1>3
<1>5. PICK b, w : b = Rest(client.body, n) /\ w = Cut
  OBVIOUS
<1>6. BodyAfter(n) = [client EXCEPT !.body = b, !.wholeFields = w]
  BY <1>5, Zenon DEF BodyAfter
<1>7. client = [params |-> client.params, body |-> client.body, wholePairs |-> client.wholePairs, wholeFields |-> client.wholeFields]
  BY DEF ClientOK
<1>8. BodyAfter(n) = [params |-> client.params, body |-> b, wholePairs |-> client.wholePairs, wholeFields |-> w]
  BY <1>6, <1>7
<1>9. Arrived(n, phase).signalled = s /\ BodyAfter(n).wholeFields = w
  BY <1>4, <1>8
<1>10. Arrived(n, phase).signalled => request.phase = "responding" /\ link.use = "stream"
  <2>1. s => Signal
    BY <1>1, Zenon
  <2> QED  BY <1>9, <2>1, Zenon
<1>11. BodyAfter(n).wholeFields => Cut
  <2>1. w => Cut
    BY <1>5, Zenon
  <2> QED  BY <1>9, <2>1, Zenon
<1> HIDE DEF Signal, Cut
<1>12. /\ Arrived(n, phase).arrived = r
       /\ Arrived(n, phase).position = request.position /\ Arrived(n, phase).reads = request.reads
       /\ Arrived(n, phase).data = request.data /\ Arrived(n, phase).gaveUp = request.gaveUp
       /\ Arrived(n, phase).phase = phase /\ Arrived(n, phase).closes = request.closes
       /\ Arrived(n, phase).params = request.params
  BY <1>4
<1>13. BodyAfter(n).body = b /\ BodyAfter(n).wholePairs = client.wholePairs /\ BodyAfter(n).params = client.params
  BY <1>8
<1>14. BodyAfter(n) = [params |-> client.params, body |-> BodyAfter(n).body, wholePairs |-> client.wholePairs,
                       wholeFields |-> BodyAfter(n).wholeFields]
  BY <1>8, <1>9, <1>13
<1>15. Arrived(n, phase) =
         [phase |-> phase, closes |-> request.closes, params |-> request.params, arrived |-> Arrived(n, phase).arrived,
          position |-> request.position, reads |-> request.reads, signalled |-> Arrived(n, phase).signalled,
          data |-> request.data, gaveUp |-> request.gaveUp]
  BY <1>4, <1>9, <1>12
<1> QED  BY <1>1, <1>5, <1>10, <1>11, <1>12, <1>13, <1>14, <1>15 DEF Cut

\* n bytes of the body have come in, before a slot runs.
HaveArrived(n, r, c) ==
  /\ r.arrived = request.arrived \o SubSeq(client.body, 1, n)
  /\ r.position = request.position /\ r.reads = request.reads /\ r.data = request.data /\ r.gaveUp = request.gaveUp
  /\ ~r.signalled
  /\ c.body = Rest(client.body, n)
  /\ c.wholeFields => client.wholeFields /\ (n \in {0, Len(client.body)} \/ client.body[n] = "&")

LEMMA ArrivedOnly ==
  ASSUME ClientOK, RequestOK, NEW n \in 0..Len(client.body), NEW params, request.phase # "responding"
  PROVE  \A r, c : r = [Arrived(n, "announced") EXCEPT !.params = params] /\ c = [BodyAfter(n) EXCEPT !.params = <<>>]
           => HaveArrived(n, r, c)
<1> SUFFICES ASSUME NEW r, NEW c, r = [Arrived(n, "announced") EXCEPT !.params = params],
                    c = [BodyAfter(n) EXCEPT !.params = <<>>]
             PROVE  HaveArrived(n, r, c)
  OBVIOUS
<1>1. PICK A, D : A = Arrived(n, "announced") /\ D = BodyAfter(n)
  OBVIOUS
<1>2. /\ A.arrived = request.arrived \o SubSeq(client.body, 1, n) /\ ~A.signalled
      /\ A = [phase |-> "announced", closes |-> request.closes, params |-> request.params, arrived |-> A.arrived,
               position |-> request.position, reads |-> request.reads, signalled |-> A.signalled,
               data |-> request.data, gaveUp |-> request.gaveUp]
      /\ D.body = Rest(client.body, n)
      /\ D = [params |-> client.params, body |-> D.body, wholePairs |-> client.wholePairs, wholeFields |-> D.wholeFields]
      /\ D.wholeFields => client.wholeFields /\ (n \in {0, Len(client.body)} \/ client.body[n] = "&")
  BY <1>1, ArrivedFields, SMTT(30)
<1>3. r = [A EXCEPT !.params = params] /\ c = [D EXCEPT !.params = <<>>]
  BY <1>1
<1>6. PICK f, g : f = A.arrived /\ g = A.signalled
  OBVIOUS
<1>7. A = [phase |-> "announced", closes |-> request.closes, params |-> request.params, arrived |-> f,
           position |-> request.position, reads |-> request.reads, signalled |-> g,
           data |-> request.data, gaveUp |-> request.gaveUp]
  BY <1>2, <1>6
<1>4. /\ r.arrived = A.arrived /\ r.position = request.position /\ r.reads = request.reads /\ r.data = request.data
      /\ r.gaveUp = request.gaveUp /\ r.signalled = A.signalled
  BY <1>3, <1>6, <1>7
<1>5. c.body = D.body /\ c.wholeFields = D.wholeFields
  BY <1>2, <1>3
<1> QED  BY <1>2, <1>4, <1>5 DEF HaveArrived

LEMMA AnnounceFields ==
  ASSUME Fields, Types', NEW n \in 0..Len(client.body), Announce(n)
  PROVE  Fields'
<1>1. ClientOK /\ RequestOK /\ ~broken /\ request.phase = "params"
  BY DEF Fields, Types, Announce
<1>2. PICK params : request' = [Arrived(n, "announced") EXCEPT !.params = params]
  BY DEF Announce, Arrived
<1>3. client' = [BodyAfter(n) EXCEPT !.params = <<>>] /\ link' = link /\ source' = source /\ reader' = reader
  BY DEF Announce, readerVars
<1>6. PICK r, c : r = request' /\ c = client'
  OBVIOUS
<1>7. HaveArrived(n, r, c)
  <2>1. request.phase # "responding" /\ r = [Arrived(n, "announced") EXCEPT !.params = params]
        /\ c = [BodyAfter(n) EXCEPT !.params = <<>>]
    BY <1>1, <1>2, <1>3, <1>6
  <2> QED  BY <1>1, <2>1, ArrivedOnly
<1>4. /\ request'.arrived = request.arrived \o SubSeq(client.body, 1, n)
      /\ request'.position = request.position /\ request'.reads = request.reads
      /\ request'.data = request.data /\ request'.gaveUp = request.gaveUp
      /\ ~request'.signalled
      /\ client'.body = Rest(client.body, n)
      /\ client'.wholeFields => client.wholeFields /\ (n \in {0, Len(client.body)} \/ client.body[n] = "&")
  BY <1>6, <1>7 DEF HaveArrived
<1>5. reader.token = "NoToken"
  BY <1>1 DEF Fields, SlotOK
<1> QED  BY <1>1, <1>3, <1>4, <1>5, FieldsArrive

LEMMA StartResponseFields ==
  ASSUME Fields, Types', NEW n \in 0..Len(client.body), StartResponse(n)
  PROVE  Fields'
<1>1. ClientOK /\ RequestOK /\ ~broken /\ request.phase = "params"
  BY DEF Fields, Types, StartResponse, Over
<1>2. link' = link /\ source' = source /\ reader' = reader
  BY DEF StartResponse, readerVars
<1>3. CASE /\ request' = [Arrived(n, "announced") EXCEPT !.params = BlobParameters(HeaderBlob(Headers))]
           /\ client' = [BodyAfter(n) EXCEPT !.params = <<>>]
  <2>1. PICK params : request' = [Arrived(n, "announced") EXCEPT !.params = params]
    BY <1>3
  <2>4. PICK r, c : r = request' /\ c = client'
    OBVIOUS
  <2>5. HaveArrived(n, r, c)
    <3>1. request.phase # "responding" /\ r = [Arrived(n, "announced") EXCEPT !.params = params]
          /\ c = [BodyAfter(n) EXCEPT !.params = <<>>]
      BY <1>1, <1>3, <2>1, <2>4
    <3> QED  BY <1>1, <3>1, ArrivedOnly
  <2>2. /\ request'.arrived = request.arrived \o SubSeq(client.body, 1, n)
        /\ request'.position = request.position /\ request'.reads = request.reads
        /\ request'.data = request.data /\ request'.gaveUp = request.gaveUp
        /\ ~request'.signalled
        /\ client'.body = Rest(client.body, n)
        /\ client'.wholeFields => client.wholeFields /\ (n \in {0, Len(client.body)} \/ client.body[n] = "&")
    BY <2>4, <2>5 DEF HaveArrived
  <2>3. reader.token = "NoToken"
    BY <1>1 DEF Fields, SlotOK
  <2> QED  BY <1>1, <1>2, <2>2, <2>3, FieldsArrive
<1>4. ASSUME NEW k \in 1..(Len(client.params) - 1), client' = [client EXCEPT !.params = Rest(@, k)],
             broken' = TRUE, UNCHANGED request
      PROVE  Fields'
  <2>1. client'.wholeFields = client.wholeFields
    BY <1>1, <1>4 DEF ClientOK
  <2> QED  BY <1>2, <1>4, <2>1, FieldsUntouched
<1> QED  BY <1>3, <1>4, Zenon DEF StartResponse

LEMMA SendBodyFields ==
  ASSUME Fields, Types', NEW n \in 1..Len(client.body), NEW p \in Paddings, SendBody(n, p)
  PROVE  Fields'
<1>1. ClientOK /\ RequestOK /\ ~broken /\ request.phase \in {"announced", "responding"}
  BY DEF Fields, Types, SendBody
<1>2. link' = link /\ source' = source /\ reader' = reader /\ client' = BodyAfter(n)
  BY DEF SendBody, readerVars
<1>3. PICK m \in 0..Len(client.body) : m = n
  OBVIOUS
<1>4. client'.body = Rest(client.body, m)
      /\ (client'.wholeFields => client.wholeFields /\ (m \in {0, Len(client.body)} \/ client.body[m] = "&"))
  <2>1. PICK A : A = Arrived(m, request.phase)
    OBVIOUS
  <2> QED  BY <1>1, <1>2, <1>3, <2>1, ArrivedFields
<1>5. CASE ~broken' /\ request' = Arrived(n, request.phase)
  <2>1. /\ request'.arrived = request.arrived \o SubSeq(client.body, 1, m)
        /\ request'.position = request.position /\ request'.reads = request.reads
        /\ request'.data = request.data /\ request'.gaveUp = request.gaveUp /\ request'.phase = request.phase
        /\ request'.signalled => request.phase = "responding" /\ link.use = "stream"
    BY <1>1, <1>3, <1>5, ArrivedFields, SMTT(30)
  <2>2. Paused
    <3>1. Quiet
      BY <1>5 DEF SendBody, Locked
    <3> QED  BY <3>1 DEF Quiet, Paused, Stopped
  <2>3. request.phase = "responding" \/ reader.token = "NoToken"
    BY <1>1 DEF Fields, SlotOK
  <2> QED  BY <1>1, <1>2, <1>4, <2>1, <2>2, <2>3, FieldsArrive
<1>6. CASE broken' /\ request' = request
  BY <1>2, <1>4, <1>6, FieldsUntouched
<1> QED  BY <1>5, <1>6 DEF SendBody

LEMMA SendBeginFields == Fields /\ Types' /\ SendBegin => Fields'
<1> SUFFICES ASSUME Fields, Types', SendBegin  PROVE Fields'
  OBVIOUS
<1>1. RequestOK /\ ~broken /\ request.phase = "begin" /\ link' = link /\ client' = client /\ source' = source /\ reader' = reader
  BY DEF Fields, Types, SendBegin, Over, readerVars
<1>2. ~request.signalled /\ reader.token = "NoToken"
  BY <1>1 DEF Fields, SlotOK
<1>3. CASE request' = request
  BY <1>1, <1>3, FieldsUntouched
<1>4. CASE request' # request
  <2>1. request' = [request EXCEPT !.phase = "params", !.closes = ClosesSocket(link.sent)]
    BY <1>4 DEF SendBegin
  <2>2. PICK c : request' = [request EXCEPT !.phase = "params", !.closes = c]
    BY <2>1
  <2>3. /\ request'.arrived = request.arrived /\ request'.position = request.position /\ request'.reads = request.reads
        /\ request'.data = request.data /\ request'.gaveUp = request.gaveUp /\ request'.signalled = request.signalled
    BY <1>1, <2>2 DEF RequestOK
  <2> QED  BY <1>1, <1>2, <2>3, FieldsFrame
<1> QED  BY <1>3, <1>4

LEMMA SendParametersFields ==
  ASSUME Fields, Types', NEW n \in 1..Len(client.params), NEW p \in Paddings, SendParameters(n, p)
  PROVE  Fields'
<1>1. RequestOK /\ ClientOK /\ ~broken /\ request.phase = "params" /\ link' = link /\ source' = source /\ reader' = reader
  BY DEF Fields, Types, SendParameters, Over, readerVars
<1>2. ~request.signalled /\ reader.token = "NoToken"
  BY <1>1 DEF Fields, SlotOK
<1>3. client'.body = client.body /\ client'.wholeFields = client.wholeFields
  <2>1. PICK b, w : client' = [client EXCEPT !.params = b, !.wholePairs = w]
    BY Zenon DEF SendParameters
  <2> QED  BY <1>1, <2>1 DEF ClientOK
<1>4. CASE request' = request
  BY <1>1, <1>3, <1>4, FieldsUntouched
<1>5. CASE request' # request
  <2>1. PICK s : request' = [request EXCEPT !.params = s]
    BY <1>5 DEF SendParameters
  <2>2. /\ request'.arrived = request.arrived /\ request'.position = request.position /\ request'.reads = request.reads
        /\ request'.data = request.data /\ request'.gaveUp = request.gaveUp /\ request'.signalled = request.signalled
    BY <1>1, <2>1 DEF RequestOK
  <2> QED  BY <1>1, <1>2, <1>3, <2>2, FieldsFrame
<1> QED  BY <1>4, <1>5

LEMMA SendAbortFields == Fields /\ Types' /\ SendAbort => Fields'
BY FieldsUntouched DEF SendAbort, readerVars

LEMMA RunSlotFields == Fields /\ Types' /\ RunSlot => Fields'
<1> SUFFICES ASSUME Fields, Types', RunSlot  PROVE Fields'
  OBVIOUS
<1>1. RequestOK /\ ~broken /\ request.phase = "announced" /\ link' = link /\ client' = client /\ source' = source /\ reader' = reader
  BY DEF Fields, Types, RunSlot, readerVars
<1>2. PICK s \in BOOLEAN : s = (link.use = "stream")
  OBVIOUS
<1>3. request' = [request EXCEPT !.phase = "responding", !.signalled = s]
  BY <1>2 DEF RunSlot
<1>4. /\ request'.arrived = request.arrived /\ request'.position = request.position /\ request'.reads = request.reads
      /\ request'.data = request.data /\ request'.gaveUp = request.gaveUp /\ request'.signalled = s
      /\ request'.phase = "responding"
  BY <1>1, <1>3 DEF RequestOK
<1>5. Paused
  BY <1>1 DEF Fields, SlotOK, Paused
<1>6. request'.signalled => link.use = "stream"
  BY <1>2, <1>4, Zenon
<1>7. broken' = broken
  BY DEF RunSlot
<1> QED  BY <1>1, <1>4, <1>5, <1>6, <1>7, FieldsFrame

LEMMA WriteResponseFields ==
  ASSUME Fields, Types', NEW n \in WriteSizes, WriteResponse(n)
  PROVE  Fields'
<1>1. RequestOK /\ ~broken /\ link' = link /\ client' = client /\ source' = source /\ reader' = reader /\ broken' = broken
  BY DEF Fields, Types, WriteResponse, readerVars
<1>2. request' = [request EXCEPT !.phase = "ended", !.signalled = FALSE]
  BY DEF WriteResponse
<1>3. /\ request'.arrived = request.arrived /\ request'.position = request.position /\ request'.reads = request.reads
      /\ request'.data = request.data /\ request'.gaveUp = request.gaveUp /\ ~request'.signalled
      /\ request'.phase = "ended"
  BY <1>1, <1>2 DEF RequestOK
<1> QED  BY <1>1, <1>3, FieldsFrame

\* What a device gives is the body from the position on, if the device is at its beginning or keeps its place.
LEMMA DeviceInBody ==
  ASSUME LinkOK, RequestOK, BytesOK
  PROVE  /\ request.position \in Nat /\ Len(request.arrived) \in Nat /\ Len(Body(link.form)) \in Nat
         /\ request.position <= Len(request.arrived) /\ Len(request.arrived) <= Len(Body(link.form))
         /\ ReadDevice = <<>> => request.position = Len(request.arrived)
         /\ link.transport # "FCGI" \/ request.position = 0 =>
              ReadDevice = SubSeq(Body(link.form), request.position + 1, Len(request.arrived))
<1>1. PICK B, a, p, r : B = Body(link.form) /\ a = Len(request.arrived) /\ p = request.position /\ r = request.arrived
  OBVIOUS
<1>2. B \in Seq(Characters) /\ Len(B) \in Nat /\ r \in Seq(Characters) /\ a \in Nat /\ p \in Nat /\ p <= a /\ a <= Len(B)
  BY <1>1, EndsOK DEF RequestOK, BytesOK
<1>3. r = SubSeq(B, 1, a)
  BY <1>1 DEF BytesOK
<1>4. SubSeq(r, p + 1, a) = SubSeq(B, p + 1, a)
  <2>1. PICK z \in Nat, e \in Nat : z = 0 /\ e = a
    BY <1>2
  <2>2. z <= a /\ p <= e /\ e <= a - z
    BY <1>2, <2>1
  <2>3. SubSeq(SubSeq(B, z + 1, a), p + 1, e) = SubSeq(B, z + p + 1, z + e)
    BY <1>2, <2>2, PieceOfPiece
  <2>4. z + 1 = 1 /\ z + p + 1 = p + 1 /\ z + e = a
    BY <1>2, <2>1
  <2> QED  BY <1>3, <2>1, <2>3, <2>4
<1>5. Len(ReadDevice) = a - p
  BY <1>1, DeviceRead
<1>6. ReadDevice = <<>> => p = a
  <2> SUFFICES ASSUME ReadDevice = <<>>  PROVE p = a
    OBVIOUS
  <2>1. Len(ReadDevice) = 0
    OBVIOUS
  <2>2. a - p = 0
    BY <1>5, <2>1
  <2> QED  BY ONLY <1>2, <2>2
<1>7. link.transport # "FCGI" \/ p = 0 => ReadDevice = SubSeq(B, p + 1, a)
  BY <1>1, <1>4, DeviceRead
<1> QED  BY <1>1, <1>2, <1>6, <1>7

LEMMA HasReadFields ==
  ASSUME RequestOK
  PROVE  /\ HasRead.position = Len(request.arrived)
         /\ HasRead.reads = IF ReadDevice = <<>> THEN request.reads ELSE request.reads + 1
         /\ HasRead = [phase |-> request.phase, closes |-> request.closes, params |-> request.params,
                       arrived |-> request.arrived, position |-> HasRead.position, reads |-> HasRead.reads,
                       signalled |-> request.signalled, data |-> request.data, gaveUp |-> request.gaveUp]
<1>1. PICK p, n : p = Len(request.arrived) /\ n = IF ReadDevice = <<>> THEN request.reads ELSE request.reads + 1
  OBVIOUS
<1>2. HasRead = [request EXCEPT !.position = p, !.reads = n]
  BY <1>1 DEF HasRead
<1>3. HasRead = [phase |-> request.phase, closes |-> request.closes, params |-> request.params,
                 arrived |-> request.arrived, position |-> p, reads |-> n,
                 signalled |-> request.signalled, data |-> request.data, gaveUp |-> request.gaveUp]
  BY <1>2 DEF RequestOK
<1>4. HasRead.position = p /\ HasRead.reads = n
  BY <1>3
<1> QED  BY <1>1, <1>3, <1>4

\* Reading moves to the end of what has arrived, and counts if there is something to read.
LEMMA ReadAmount ==
  ASSUME LinkOK, RequestOK, BytesOK, NEW q, q = HasRead.position, NEW n, n = HasRead.reads
  PROVE  /\ q = Len(request.arrived) /\ n \in Nat
         /\ n = 0 => q = 0 /\ request.reads = 0
         /\ (link.transport # "FCGI" \/ n <= 1) =>
              /\ OnceRead
              /\ ReadDevice = SubSeq(Body(link.form), request.position + 1, q)
              /\ ReadDevice = <<>> => request.position = q
<1>1. PICK p, m, a : p = request.position /\ m = request.reads /\ a = Len(request.arrived)
  OBVIOUS
<1>2. q = a /\ n = IF ReadDevice = <<>> THEN m ELSE m + 1
  BY <1>1, HasReadFields
<1>3. m \in Nat /\ p \in Nat /\ a \in Nat /\ (m = 0 => p = 0) /\ (ReadDevice = <<>> => p = a)
  BY <1>1, DeviceInBody DEF RequestOK, BytesOK
<1>4. n \in Nat /\ (n = 0 => a = 0 /\ m = 0) /\ (n <= 1 => m <= 1)
  BY <1>2, <1>3
<1>5. ASSUME link.transport # "FCGI" \/ n <= 1
      PROVE  OnceRead /\ ReadDevice = SubSeq(Body(link.form), p + 1, a)
  <2>1. OnceRead
    BY <1>1, <1>4, <1>5 DEF OnceRead
  <2>2. CASE link.transport # "FCGI" \/ p = 0
    BY <1>1, <2>1, <2>2, DeviceInBody
  <2>3. CASE link.transport = "FCGI" /\ p # 0
    <3>1. m # 0 /\ n <= 1
      BY <1>3, <1>5, <2>3
    <3>2. ReadDevice = <<>>
      BY <1>2, <1>3, <3>1
    <3>3. SubSeq(Body(link.form), p + 1, a) = <<>>
      <4>1. p = a /\ a <= Len(Body(link.form)) /\ Len(Body(link.form)) \in Nat /\ Body(link.form) \in Seq(Characters)
        BY <1>1, <1>3, <3>2, EndsOK DEF BytesOK
      <4> QED  BY <1>3, <4>1, SubSeqEmpty
    <3> QED  BY <2>1, <3>2, <3>3
  <2> QED  BY <2>2, <2>3
<1> QED  BY <1>1, <1>2, <1>3, <1>4, <1>5

LEMMA LoadPostVariablesFields == Fields /\ Types' /\ LoadPostVariables => Fields'
<1> SUFFICES ASSUME Fields, Types', LoadPostVariables  PROVE Fields'
  OBVIOUS
<1>1. /\ LinkOK /\ RequestOK /\ BytesOK /\ ~broken /\ link.use = "values" /\ ~request.gaveUp
      /\ link' = link /\ client' = client /\ source' = source /\ reader' = reader /\ broken' = broken
  BY DEF Fields, Types, LoadPostVariables, FormRead, readerVars
<1>2. PICK q, n, d : q = HasRead.position /\ n = HasRead.reads /\ d = request.data \o ReadDevice
  OBVIOUS
<1>3. request' = [phase |-> request.phase, closes |-> request.closes, params |-> request.params,
                  arrived |-> request.arrived, position |-> q, reads |-> n,
                  signalled |-> request.signalled, data |-> d, gaveUp |-> request.gaveUp]
  <2>1. HasRead = [phase |-> request.phase, closes |-> request.closes, params |-> request.params,
                   arrived |-> request.arrived, position |-> q, reads |-> n,
                   signalled |-> request.signalled, data |-> request.data, gaveUp |-> request.gaveUp]
    BY <1>1, <1>2, HasReadFields
  <2>2. request' = [HasRead EXCEPT !.data = HasRead.data \o ReadDevice]
    BY DEF LoadPostVariables
  <2>3. HasRead.data = request.data
    BY <2>1
  <2>4. request' = [HasRead EXCEPT !.data = d]
    BY <1>2, <2>2, <2>3
  <2> QED  BY <2>1, <2>4
<1>4. /\ request'.arrived = request.arrived /\ request'.position = q /\ request'.reads = n /\ request'.data = d
      /\ request'.signalled = request.signalled /\ request'.phase = request.phase /\ request'.gaveUp = request.gaveUp
  BY <1>3
<1>5. /\ q = Len(request.arrived) /\ (n = 0 => q = 0)
      /\ (link.transport # "FCGI" \/ n <= 1) => OnceRead /\ ReadDevice = SubSeq(Body(link.form), request.position + 1, q)
  BY <1>1, <1>2, ReadAmount
<1>6. BytesOK'
  BY <1>1, <1>4, <1>5 DEF BytesOK, FieldEnd
<1>7. ASSUME OnceRead'  PROVE d = SubSeq(Body(link.form), 1, q)
  <2>1. link.transport # "FCGI" \/ n <= 1
    BY <1>1, <1>4, <1>7 DEF OnceRead
  <2>2. PICK B, p : B = Body(link.form) /\ p = request.position
    OBVIOUS
  <2>3. request.data = SubSeq(B, 1, p) /\ ReadDevice = SubSeq(B, p + 1, q)
    BY <1>1, <1>5, <2>1, <2>2 DEF Fields, SlotOK
  <2>4. B \in Seq(Characters) /\ p \in Nat /\ q \in Nat /\ p <= q /\ q <= Len(B)
    BY <1>1, <1>5, <2>2, DeviceInBody, EndsOK
  <2>5. PICK z \in Nat : z = 0
    OBVIOUS
  <2>6. SubSeq(B, z + 1, p) \o SubSeq(B, p + 1, q) = SubSeq(B, z + 1, q)
    BY <2>4, <2>5, PieceConcat
  <2>7. z + 1 = 1
    BY <2>5
  <2> QED  BY <1>2, <2>2, <2>3, <2>6, <2>7
<1>8. SlotOK'
  BY <1>1, <1>4, <1>7 DEF Fields, SlotOK, Paused
<1>9. FieldsOK'
  BY <1>1 DEF FieldsOK
<1> QED  BY <1>6, <1>8, <1>9 DEF Fields

LEMMA GiveUpFields == Fields /\ Types' /\ GiveUp => Fields'
<1> SUFFICES ASSUME Fields, Types', GiveUp  PROVE Fields'
  OBVIOUS
<1>1. /\ RequestOK /\ BytesOK /\ ~broken /\ link.use = "values"
      /\ link' = link /\ client' = client /\ source' = source /\ reader' = reader /\ broken' = broken
      /\ request' = [request EXCEPT !.gaveUp = TRUE, !.data = <<>>]
  BY DEF Fields, Types, GiveUp, readerVars
<1>2. /\ request'.arrived = request.arrived /\ request'.position = request.position /\ request'.reads = request.reads
      /\ request'.data = <<>> /\ request'.gaveUp /\ request'.signalled = request.signalled /\ request'.phase = request.phase
  BY <1>1 DEF RequestOK
<1>3. BytesOK'
  BY <1>1, <1>2 DEF BytesOK, FieldEnd
<1>4. SlotOK'
  BY <1>1, <1>2 DEF Fields, SlotOK, Paused
<1>5. FieldsOK'
  BY <1>1 DEF FieldsOK
<1> QED  BY <1>3, <1>4, <1>5 DEF Fields

\* What readNext() does first to a reader that is not at a name.
LEMMA BegunFields ==
  ASSUME ReaderOK, Paused
  PROVE  /\ Begun.name = reader.name /\ Begun.buffer = reader.buffer /\ Begun.bytesRead = reader.bytesRead
         /\ Begun.fields = reader.fields
         /\ Begun.token # "VariableName" \/ reader.lastValid = "VariableName"
         /\ Begun.token = "Invalid" => Begun.lastValid = "Invalid" /\ (reader.lastValid = "Invalid" \/ reader.token = "EndData")
         /\ Begun.token \in {"NoToken", "EndData"} => reader.token = "Invalid" /\ reader.lastValid = Begun.token
<1>1. reader = [token |-> reader.token, lastValid |-> reader.lastValid, name |-> reader.name, buffer |-> reader.buffer,
                bytesRead |-> reader.bytesRead, fields |-> reader.fields]
  BY ReaderRecord DEF ReaderOK
<1>2. CASE reader.token = "NoToken"
  <2>1. Begun = [reader EXCEPT !.token = "StartData"]
    BY <1>2 DEF Begun
  <2> QED  BY <1>1, <2>1
<1>3. CASE reader.token = "Invalid" /\ reader.lastValid # "Invalid"
  <2>1. Begun = [reader EXCEPT !.token = reader.lastValid]
    BY <1>3 DEF Begun, Resumed
  <2>2. PICK v : v = reader.lastValid
    OBVIOUS
  <2>3. Begun = [token |-> v, lastValid |-> v, name |-> reader.name, buffer |-> reader.buffer,
                 bytesRead |-> reader.bytesRead, fields |-> reader.fields]
    BY <1>1, <2>1, <2>2
  <2> QED  BY <1>3, <2>2, <2>3
<1>4. CASE reader.token = "EndData"
  <2>1. Begun = [reader EXCEPT !.token = "Invalid", !.lastValid = "Invalid"]
    BY <1>4 DEF Begun
  <2> QED  BY <1>1, <1>4, <2>1
<1>5. CASE reader.token = "Invalid" /\ reader.lastValid = "Invalid"
  <2>1. Begun = reader
    BY <1>5 DEF Begun
  <2> QED  BY <1>5, <2>1
<1> QED  BY <1>2, <1>3, <1>4, <1>5 DEF Paused

\* readNext() is called with what the device had, or nothing.
AtFields(r, s, q) ==
  LET k == Len(r.fields) IN
  /\ k <= Len(link.form) /\ \A i \in 1..k : r.fields[i] = link.form[i]
  /\ r.bytesRead <= q /\ s = SubSeq(Body(link.form), r.bytesRead + 1, q)
  /\ r.token # "VariableName" /\ r.buffer = <<>> /\ r.bytesRead = Ends(link.form)[k]
  /\ r.token \notin {"NoToken", "EndData"}
  /\ r.token = "Invalid" => r.bytesRead = q /\ r.lastValid = "Invalid" /\ k = Len(link.form)

LEMMA BegunOK ==
  ASSUME LinkOK, ReaderOK, BytesOK, FieldsOK, Paused, link.use = "stream", OnceRead, client.wholeFields,
         NEW q \in Nat, request.position <= q, q <= Len(Body(link.form)), NEW s,
         s = SubSeq(Body(link.form), reader.bytesRead + 1, q)
  PROVE  AtFields(Begun, s, q)
<1>0. PICK r : r = Begun
  OBVIOUS
<1>1. PICK k, b, p : k = Len(reader.fields) /\ b = reader.bytesRead /\ p = request.position
  OBVIOUS
<1>2. /\ k <= Len(link.form) /\ \A i \in 1..k : reader.fields[i] = link.form[i]
      /\ b = p /\ reader.buffer = <<>> /\ b = Ends(link.form)[k]
      /\ reader.token = "EndData" => k = Len(link.form)
      /\ reader.token = "Invalid" => \/ reader.lastValid \in {"StartData", "VariableValue"}
                                     \/ reader.lastValid = "Invalid" /\ k = Len(link.form)
  BY <1>1 DEF FieldsOK, Paused
<1>3. r.name = reader.name /\ r.buffer = reader.buffer /\ r.bytesRead = b /\ r.fields = reader.fields
  BY <1>0, <1>1, BegunFields
<1>4. b \in Nat /\ b <= q
  BY <1>1, <1>2, ReaderTypes
<1>5. reader.token \in {"NoToken", "Invalid", "EndData"}
  BY DEF Paused
<1>6. r.token # "VariableName" /\ r.token \notin {"NoToken", "EndData"}
  <2>1. CASE reader.token = "Invalid"
    BY <1>0, <1>2, <2>1, BegunFields
  <2>2. CASE reader.token # "Invalid"
    <3>1. r.token = "StartData" \/ r.token = "Invalid"
      <4>1. reader = [token |-> reader.token, lastValid |-> reader.lastValid, name |-> reader.name, buffer |-> reader.buffer,
                      bytesRead |-> reader.bytesRead, fields |-> reader.fields]
        BY ReaderRecord DEF ReaderOK
      <4> QED  BY <1>0, <1>5, <2>2, <4>1 DEF Begun
    <3> QED  BY <3>1
  <2> QED  BY <2>1, <2>2
<1>7. ASSUME r.token = "Invalid"  PROVE b = q /\ r.lastValid = "Invalid" /\ k = Len(link.form)
  <2>1. r.lastValid = "Invalid" /\ (reader.lastValid = "Invalid" \/ reader.token = "EndData")
    BY <1>0, <1>7, BegunFields
  <2>2. k = Len(link.form)
    <3>1. CASE reader.token = "EndData"
      BY <1>2, <3>1
    <3>2. CASE reader.token = "Invalid"
      BY <1>2, <2>1, <3>2
    <3>3. CASE reader.token = "NoToken"
      <4>1. reader = [token |-> reader.token, lastValid |-> reader.lastValid, name |-> reader.name, buffer |-> reader.buffer,
                      bytesRead |-> reader.bytesRead, fields |-> reader.fields]
        BY ReaderRecord DEF ReaderOK
      <4>2. r.token = "StartData"
        BY <1>0, <3>3, <4>1 DEF Begun
      <4> QED  BY <1>7, <4>2
    <3> QED  BY <1>5, <3>1, <3>2, <3>3
  <2>3. b = Len(Body(link.form)) /\ Len(Body(link.form)) \in Nat
    BY <1>2, <2>2, EndsOK DEF IsForm
  <2> QED  BY <1>4, <2>1, <2>2, <2>3
<1>8. AtFields(r, s, q)
  BY <1>1, <1>2, <1>3, <1>4, <1>6, <1>7 DEF AtFields
<1> QED  BY <1>0, <1>8

LEMMA CallReadNextFields == Fields /\ Types' /\ CallReadNext => Fields'
<1> SUFFICES ASSUME Fields, Types', CallReadNext  PROVE Fields'
  OBVIOUS
<1>1. /\ LinkOK /\ RequestOK /\ ReaderOK /\ BytesOK /\ SlotOK /\ FieldsOK /\ ~broken /\ request.signalled
      /\ link' = link /\ client' = client /\ broken' = broken /\ reader' = Begun
  BY DEF Fields, Types, CallReadNext
<1>2. /\ link.use = "stream" /\ Paused /\ request.phase \in {"responding", "ended"} /\ request.data = <<>>
  BY <1>1 DEF SlotOK
<1>3. PICK q, n, s, r : q = request'.position /\ n = request'.reads /\ s = source' /\ r = reader'
  OBVIOUS
<1>4. /\ request'.arrived = request.arrived /\ request'.data = request.data /\ request'.gaveUp = request.gaveUp
      /\ request'.phase = request.phase /\ ~request'.signalled
      /\ SeesMore => q = HasRead.position /\ n = HasRead.reads
      /\ ~SeesMore => q = request.position /\ n = request.reads
  <2>1. CASE SeesMore
    <3>1. PICK p, m : p = HasRead.position /\ m = HasRead.reads
      OBVIOUS
    <3>2. HasRead = [phase |-> request.phase, closes |-> request.closes, params |-> request.params,
                     arrived |-> request.arrived, position |-> p, reads |-> m,
                     signalled |-> request.signalled, data |-> request.data, gaveUp |-> request.gaveUp]
      BY <1>1, <3>1, HasReadFields
    <3>3. request' = [HasRead EXCEPT !.signalled = FALSE]
      BY <2>1 DEF CallReadNext
    <3>4. request' = [phase |-> request.phase, closes |-> request.closes, params |-> request.params,
                      arrived |-> request.arrived, position |-> p, reads |-> m,
                      signalled |-> FALSE, data |-> request.data, gaveUp |-> request.gaveUp]
      BY <3>2, <3>3
    <3> QED  BY <1>3, <2>1, <3>1, <3>4
  <2>2. CASE ~SeesMore
    <3>1. request' = [request EXCEPT !.signalled = FALSE]
      BY <2>2 DEF CallReadNext
    <3> QED  BY <1>1, <1>3, <2>2, <3>1 DEF RequestOK
  <2> QED  BY <2>1, <2>2
<1>5. /\ request.position \in Nat /\ Len(request.arrived) \in Nat /\ Len(Body(link.form)) \in Nat
      /\ request.position <= Len(request.arrived) /\ Len(request.arrived) <= Len(Body(link.form))
  BY <1>1, DeviceInBody
<1>6. /\ q \in Nat /\ request.position <= q /\ q <= Len(Body(link.form))
      /\ q = Len(request.arrived) \/ q = request.position
      /\ n = 0 => q = 0
  <2>1. CASE SeesMore
    <3>1. q = Len(request.arrived) /\ (n = 0 => q = 0)
      BY <1>1, <1>4, <2>1, ReadAmount
    <3> QED  BY <1>5, <3>1
  <2>2. CASE ~SeesMore
    <3>1. q = request.position /\ (n = 0 => q = 0)
      BY <1>1, <1>4, <2>2 DEF BytesOK
    <3> QED  BY <1>5, <3>1
  <2> QED  BY <2>1, <2>2
<1>7. BytesOK'
  <2>1. client.wholeFields => FieldEnd(q)
    BY <1>1, <1>6 DEF BytesOK
  <2> QED  BY <1>1, <1>3, <1>4, <1>6, <2>1 DEF BytesOK, FieldEnd
<1>8. SlotOK'
  BY <1>1, <1>2, <1>4 DEF SlotOK
<1>9. ASSUME OnceRead', client.wholeFields  PROVE OnceRead /\ s = SubSeq(Body(link.form), reader.bytesRead + 1, q)
  <2>0. link.transport # "FCGI" \/ n <= 1
    BY <1>1, <1>3, <1>9 DEF OnceRead
  <2>1. OnceRead
    <3>1. SeesMore => OnceRead
      BY <1>1, <1>4, <2>0, ReadAmount
    <3>2. ~SeesMore => OnceRead
      BY <1>4, <2>0 DEF OnceRead
    <3> QED  BY <3>1, <3>2
  <2>2. PICK B, b, p : B = Body(link.form) /\ b = reader.bytesRead /\ p = request.position
    OBVIOUS
  <2>3. b = p /\ source = SubSeq(B, b + 1, p)
    BY <1>1, <1>2, <1>9, <2>1, <2>2 DEF FieldsOK
  <2>4. CASE SeesMore
    <3>1. s = source \o ReadDevice
      BY <1>3, <2>4 DEF CallReadNext
    <3>2. ReadDevice = SubSeq(B, p + 1, q)
      BY <1>1, <1>4, <2>0, <2>2, <2>4, ReadAmount
    <3>3. b \in Nat /\ p \in Nat /\ q \in Nat /\ b <= p /\ p <= q /\ q <= Len(B) /\ B \in Seq(Characters)
      BY <1>1, <1>5, <1>6, <2>2, <2>3, EndsOK
    <3>4. SubSeq(B, b + 1, p) \o SubSeq(B, p + 1, q) = SubSeq(B, b + 1, q)
      BY <3>3, PieceConcat
    <3> QED  BY <2>1, <2>2, <2>3, <3>1, <3>2, <3>4
  <2>5. CASE ~SeesMore
    <3>1. s = source /\ q = p
      BY <1>3, <1>4, <2>2, <2>5 DEF CallReadNext
    <3> QED  BY <2>1, <2>2, <2>3, <3>1
  <2> QED  BY <2>4, <2>5
<1>10. FieldsOK'
  <2> SUFFICES ASSUME OnceRead', client.wholeFields  PROVE FieldsOK'
    BY <1>1 DEF FieldsOK
  <2>1. OnceRead /\ s = SubSeq(Body(link.form), reader.bytesRead + 1, q)
    BY <1>9
  <2>2. PICK k : k = Len(r.fields)
    OBVIOUS
  <2>3. AtFields(r, s, q)
    <3>1. AtFields(Begun, s, q)
      BY <1>1, <1>2, <1>6, <2>1, BegunOK
    <3> QED  BY <1>1, <1>3, <3>1
  <2> QED  BY <1>1, <1>3, <2>2, <2>3 DEF AtFields, FieldsOK, Paused
<1> QED  BY <1>7, <1>8, <1>10 DEF Fields

LEMMA ReadMimeFields == Fields /\ Types' /\ (ReadMime \/ \E n \in ReadSizes : ReadBase64(n)) => Fields'
BY FieldsUntouched DEF ReadMime, ReadBase64, readerVars, formVars

\* A reader without a buffer finds what the source has: the buffer is what is taken.
Bare(C, n, p, b, f) ==
  /\ p \in 0..Len(source) /\ Len(source) \in Nat
  /\ p = 0 => n = Len(source)
  /\ p # 0 => n = p /\ source[p] \in C
  /\ b \in Seq(Characters) /\ Len(b) = n /\ \A i \in 1..n : b[i] = source[i]
  /\ f = p

LEMMA BareRead ==
  ASSUME ReaderOK, reader.buffer = <<>>
  PROVE  \A first, alternatives, n, p, b, f :
           /\ n = TakenUntil(first, alternatives) /\ p = Position(source, {first} \union alternatives)
           /\ b = BufferAfter(n) /\ f = Found(first, n, alternatives)
           => Bare({first} \union alternatives, n, p, b, f)
<1> SUFFICES ASSUME NEW first, NEW alternatives, NEW n, n = TakenUntil(first, alternatives),
                    NEW p, p = Position(source, {first} \union alternatives), NEW b, b = BufferAfter(n),
                    NEW f, f = Found(first, n, alternatives)
             PROVE  Bare({first} \union alternatives, n, p, b, f)
  BY Zenon
<1> DEFINE C == {first} \union alternatives
<1>1. source \in Seq(Characters) /\ Len(source) \in Nat
  BY ReaderTypes
<1>2. p \in 0..Len(source) /\ (p = 0 => \A i \in 1..Len(source) : source[i] \notin C) /\ (p # 0 => source[p] \in C)
  <2> HIDE DEF C
  <2>1. p = Position(source, C)
    BY DEF C
  <2> QED  BY <1>1, <2>1, PositionFound
<1>3. Position(reader.buffer, {first}) = 0
  <2>1. PICK B \in Seq(Characters) : B = <<>>
    BY ReaderTypes
  <2>2. \A i \in 1..Len(B) : B[i] \notin {first}
    BY <2>1
  <2>3. Position(B, {first}) = 0
    BY <2>1, <2>2, NoPosition
  <2> QED  BY <2>1, <2>3
<1>4. n = IF p = 0 THEN Len(source) ELSE p
  BY <1>3 DEF TakenUntil
<1>5. n \in 0..Len(source)
  BY <1>1, <1>2, <1>4
<1>6. /\ BufferAfter(n) \in Seq(Characters) /\ Len(BufferAfter(n)) = Len(reader.buffer) + n
      /\ \A i \in 1..n : BufferAfter(n)[Len(reader.buffer) + i] = source[i]
  BY <1>5, Taken
<1>7. b \in Seq(Characters) /\ Len(b) = n /\ \A i \in 1..n : b[i] = source[i]
  <2>1. Len(reader.buffer) = 0
    OBVIOUS
  <2>2. \A i \in 1..n : 0 + i = i
    BY <1>5
  <2>3. b \in Seq(Characters) /\ Len(b) = 0 + n /\ \A i \in 1..n : b[0 + i] = source[i]
    BY <1>6, <2>1
  <2> QED  BY <1>5, <2>2, <2>3
<1>8. p = 0 => n = Len(source) /\ ~(n > 0 /\ source[n] \in C)
  <2> SUFFICES ASSUME p = 0  PROVE n = Len(source) /\ ~(n > 0 /\ source[n] \in C)
    OBVIOUS
  <2>1. n = Len(source)
    BY <1>4
  <2>2. n > 0 => n \in 1..Len(source)
    BY <1>1, <2>1
  <2>3. n > 0 => source[n] \notin C
    BY <1>2, <2>2, Zenon
  <2> QED  BY <2>1, <2>3
<1>9. p # 0 => n = p /\ source[p] \in C
  BY <1>2, <1>4, Zenon
<1>10. Found(first, n, alternatives) = p
  <2>1. Found(first, n, alternatives) = IF n > 0 /\ source[n] \in C THEN Len(BufferAfter(n)) ELSE 0
    BY <1>3, Zenon DEF Found
  <2>2. Len(BufferAfter(n)) = n
    BY <1>7
  <2>3. CASE p = 0
    BY <1>8, <2>1, <2>3, Zenon
  <2>4. CASE p # 0
    <3>1. n = p /\ n > 0
      BY <1>2, <1>9, <2>4
    <3>2. source[n] \in C
      BY <1>9, <2>4, <3>1, Zenon
    <3> QED  BY <2>1, <2>2, <3>1, <3>2, Zenon
  <2> QED  BY <2>3, <2>4
<1> QED  BY <1>1, <1>2, <1>7, <1>8, <1>9, <1>10, Zenon DEF Bare

\* A name is read up to its '=', or there is nothing to read: the end of the form, or of what has come.
LEMMA NameFields ==
  ASSUME LinkOK, RequestOK, ReaderOK, BytesOK, FieldsOK, link.use = "stream", OnceRead, client.wholeFields,
         ReadName(Len(Body(link.form))), link' = link, request' = request
  PROVE  FieldsOK'
<1>1. PICK k, a, p, B, at, n, b, f, w, form :
        /\ k = Len(reader.fields) /\ a = reader.bytesRead /\ p = request.position /\ B = Body(link.form) /\ at = Ends(link.form)
        /\ n = TakenUntil("=", {"&"}) /\ b = BufferAfter(n) /\ f = Found("=", n, {"&"})
        /\ w = Position(source, {"="} \union {"&"}) /\ form = link.form
  OBVIOUS
<1>2. /\ form \in Seq(FormFields) /\ Len(form) \in Nat /\ B \in Seq(Characters) /\ Len(B) \in Nat
      /\ at \in [0..Len(form) -> Nat] /\ IsForm(B, form, at)
  BY <1>1, EndsOK
<1>3. reader.token \in {"StartData", "VariableValue"}
  BY DEF ReadName
<1>4. /\ k <= Len(form) /\ \A i \in 1..k : reader.fields[i] = form[i]
      /\ a <= p /\ source = SubSeq(B, a + 1, p) /\ reader.buffer = <<>> /\ a = at[k]
  BY <1>1, <1>3 DEF FieldsOK
<1>5. k \in 0..Len(form) /\ a \in Nat /\ p \in Nat /\ p <= Len(B)
  <2>1. k \in Nat /\ a \in Nat
    BY <1>1, ReaderTypes
  <2>2. p \in Nat /\ p <= Len(B)
    <3>1. p \in Nat /\ p <= Len(request.arrived) /\ Len(request.arrived) <= Len(B) /\ Len(request.arrived) \in Nat
      BY <1>1, DeviceInBody
    <3> QED  BY <1>2, <3>1
  <2> QED  BY <1>2, <1>4, <2>1, <2>2
<1>6. PICK j \in 0..Len(form) : p = at[j]
  BY <1>1 DEF BytesOK, FieldEnd
<1>7. k <= j
  <2>1. j < k => at[j] < at[k]
    BY <1>2, <1>5, <1>6, FieldOrder
  <2> QED  BY <1>2, <1>4, <1>5, <1>6, <2>1
<1>8. /\ source' = SubSeq(source, n + 1, Len(source))
      /\ reader' =
           IF b # <<>>
           THEN [reader EXCEPT !.bytesRead = @ + n, !.name = Left(b, f), !.buffer = From(b, f), !.token = "VariableName"]
           ELSE IF reader.bytesRead = Len(B) THEN [reader EXCEPT !.token = "EndData"]
           ELSE [reader EXCEPT !.lastValid = reader.token, !.token = "Invalid"]
  BY <1>1, Zenon DEF ReadName, Take
<1>9. reader = [token |-> reader.token, lastValid |-> reader.lastValid, name |-> reader.name, buffer |-> reader.buffer,
                bytesRead |-> reader.bytesRead, fields |-> reader.fields]
  BY ReaderRecord DEF ReaderOK
<1>10. /\ w \in 0..Len(source) /\ Len(source) \in Nat
       /\ w = 0 => n = Len(source)
       /\ w # 0 => n = w
       /\ b \in Seq(Characters) /\ Len(b) = n /\ \A i \in 1..n : b[i] = source[i]
       /\ f = w
  <2>1. PICK c : c = {"&"}
    OBVIOUS
  <2>2. n = TakenUntil("=", c) /\ b = BufferAfter(n) /\ f = Found("=", n, c) /\ w = Position(source, {"="} \union c)
    BY <1>1, <2>1, Zenon
  <2>3. Bare({"="} \union c, n, w, b, f)
    BY <1>4, <2>2, BareRead, Zenon
  <2> QED  BY <2>3, Zenon DEF Bare
<1>11. PICK s, r : s = source' /\ r = reader'
  OBVIOUS
<1>12. CASE j = k
  <2>1. a = p
    BY <1>4, <1>6, <1>12
  <2>2. source = <<>> /\ Len(source) = 0
    <3>1. SubSeq(B, a + 1, p) = <<>>
      BY <1>2, <1>5, <2>1, SubSeqEmpty
    <3> QED  BY <1>4, <3>1
  <2>3. n = 0 /\ b = <<>>
    <3>1. n = 0
      BY <1>10, <2>2
    <3>2. Len(b) = 0 /\ b \in Seq(Characters)
      BY <1>10, <3>1
    <3> QED  BY <3>1, <3>2
  <2>4. s = <<>>
    <3>1. s = SubSeq(<<>>, 0 + 1, 0)
      BY <1>8, <1>11, <2>2, <2>3
    <3> QED  BY <3>1
  <2>5. CASE a = Len(B)
    <3>1. r = [reader EXCEPT !.token = "EndData"]
      BY <1>1, <1>8, <1>11, <2>3, <2>5
    <3>2. r = [token |-> "EndData", lastValid |-> reader.lastValid, name |-> reader.name, buffer |-> reader.buffer,
               bytesRead |-> a, fields |-> reader.fields]
      BY <1>1, <1>9, <3>1
    <3>3. k = Len(form)
      <4>1. at[Len(form)] = Len(B)
        BY <1>2 DEF IsForm
      <4>2. k < Len(form) => at[k] < at[Len(form)]
        BY <1>2, <1>5, FieldOrder
      <4> QED  BY <1>2, <1>4, <1>5, <2>5, <4>1, <4>2
    <3>4. /\ r.token = "EndData" /\ r.buffer = <<>> /\ r.bytesRead = a /\ r.fields = reader.fields
      BY <1>4, <3>2
    <3>5. s = SubSeq(B, a + 1, p)
      BY <1>4, <2>2, <2>4
    <3>6. Len(r.fields) = k
      BY <1>1, <3>4
    <3>7. \A i \in 1..k : r.fields[i] = form[i]
      BY <1>4, <3>4
    <3>8. /\ k <= Len(form) /\ r.bytesRead <= p /\ s = SubSeq(B, r.bytesRead + 1, p) /\ r.buffer = <<>>
          /\ r.bytesRead = at[k] /\ r.bytesRead = p /\ r.token = "EndData"
      BY <1>4, <2>1, <3>4, <3>5
    <3> QED  BY <1>1, <1>11, <3>3, <3>6, <3>7, <3>8 DEF FieldsOK
  <2>6. CASE a # Len(B)
    <3>1. r = [reader EXCEPT !.lastValid = reader.token, !.token = "Invalid"]
      BY <1>1, <1>8, <1>11, <2>3, <2>6
    <3>2. PICK t : t = reader.token
      OBVIOUS
    <3>3. r = [token |-> "Invalid", lastValid |-> t, name |-> reader.name, buffer |-> reader.buffer,
               bytesRead |-> a, fields |-> reader.fields]
      BY <1>1, <1>9, <3>1, <3>2
    <3>4. /\ r.token = "Invalid" /\ r.buffer = <<>> /\ r.bytesRead = a /\ r.fields = reader.fields
          /\ r.lastValid \in {"StartData", "VariableValue"}
      BY <1>3, <1>4, <3>2, <3>3
    <3>5. s = SubSeq(B, a + 1, p)
      BY <1>4, <2>2, <2>4
    <3> QED  BY <1>1, <1>4, <1>5, <1>11, <2>1, <3>4, <3>5 DEF FieldsOK
  <2> QED  BY <2>5, <2>6
<1>13. CASE k < j
  <2>1. PICK m \in 1..Len(form) : m = k + 1
    BY <1>2, <1>5, <1>6, <1>13
  <2>2. k = m - 1 /\ at[m] <= p /\ a = at[m - 1]
    <3>1. k = m - 1 /\ m <= j /\ m \in 0..Len(form)
      BY <1>5, <1>6, <1>13, <2>1
    <3>2. at[m] <= at[j]
      BY <1>2, <1>6, <3>1, FieldOrder
    <3> QED  BY <1>4, <1>6, <3>1, <3>2
  <2>3. PICK x, l : x = form[m][1] /\ l = Len(x)
    OBVIOUS
  <2>4. x \in Seq(Characters) /\ l \in Nat
    <3>1. form[m] \in FormFields
      BY <1>2
    <3>2. x \in Seq(Characters \ {"=", "&"})
      BY <2>3, <3>1 DEF FormFields
    <3>3. Characters \ {"=", "&"} \subseteq Characters
      OBVIOUS
    <3>4. x \in Seq(Characters)
      BY <3>2, <3>3, SeqMonotonic
    <3> QED  BY <2>3, <3>4
  <2>5. /\ source # <<>> /\ l + 1 \in 1..Len(source)
        /\ w = l + 1 /\ source[l + 1] = "=" /\ \A i \in 1..l : source[i] = x[i]
    <3>1. source = SubSeq(B, at[m - 1] + 1, p)
      BY <1>4, <2>2
    <3>2. m \in 1..Len(form) /\ p \in Nat /\ at[m] <= p /\ p <= Len(B)
      BY <1>5, <2>1, <2>2
    <3>3. w = Position(source, {"="} \union {"&"})
      BY <1>1, Zenon
    <3>4. IsName(source, x, w)
      BY <1>2, <2>3, <3>1, <3>2, <3>3, NextName, Zenon
    <3> QED  BY <2>3, <3>4, Zenon DEF IsName
  <2>6. n = l + 1 /\ f = l + 1 /\ b \in Seq(Characters) /\ Len(b) = l + 1 /\ b[l + 1] = "=" /\ \A i \in 1..l : b[i] = x[i]
    <3>1. w # 0
      BY <2>4, <2>5
    <3>2. n = l + 1 /\ f = l + 1 /\ b \in Seq(Characters) /\ Len(b) = l + 1
      BY <1>10, <2>5, <3>1
    <3>3. \A i \in 1..(l + 1) : b[i] = source[i]
      BY <1>10, <3>2
    <3>4. l + 1 \in 1..(l + 1) /\ \A i \in 1..l : i \in 1..(l + 1)
      BY <2>4
    <3> QED  BY <2>5, <3>2, <3>3, <3>4
  <2>7. Left(b, f) = x
    <3>1. f \in 0..Len(b) /\ f # 0 /\ f - 1 = l
      BY <2>4, <2>6
    <3>2. PICK y : y = Before(b, f)
      OBVIOUS
    <3>3. y \in Seq(Characters) /\ Len(y) = l /\ \A i \in 1..Len(y) : y[i] = b[i]
      <4>1. /\ Before(b, f) \in Seq(Characters) /\ Len(Before(b, f)) = IF f = 0 THEN Len(b) ELSE f - 1
            /\ \A i \in 1..Len(Before(b, f)) : Before(b, f)[i] = b[i]
        <5>1. b \in Seq(Characters) /\ f \in 0..Len(b)
          BY <2>6, <3>1
        <5> QED  BY ONLY <5>1, CutType
      <4>2. /\ y \in Seq(Characters) /\ Len(y) = IF f = 0 THEN Len(b) ELSE f - 1
            /\ \A i \in 1..Len(y) : y[i] = b[i]
        BY <3>2, <4>1
      <4> QED  BY <3>1, <4>2
    <3>4. Len(y) = Len(x) /\ \A i \in 1..Len(y) : y[i] = x[i]
      BY <2>3, <2>6, <3>3
    <3>5. y = x
      BY <2>4, <3>3, <3>4, SeqEqual
    <3>6. Left(b, f) = Before(b, f)
      BY <2>6, <3>1, LeftType
    <3> QED  BY <3>2, <3>5, <3>6
  <2>8. From(b, f) = <<"=">>
    <3>1. PICK g \in Nat : g = l + 1
      BY <2>4
    <3>2. From(b, f) = SubSeq(b, l + 1, g)
      BY <2>4, <2>6, <3>1 DEF From
    <3>3. l <= g /\ g <= Len(b) /\ g - l = 1
      BY <2>4, <2>6, <3>1
    <3>4. PICK y : y = SubSeq(b, l + 1, g)
      OBVIOUS
    <3>5. y \in Seq(Characters) /\ Len(y) = g - l /\ \A i \in 1..(g - l) : y[i] = b[l + i]
      BY <2>4, <2>6, <3>3, <3>4, Piece
    <3>6. y \in Seq(Characters) /\ Len(y) = 1 /\ y[1] = "="
      BY <2>6, <3>3, <3>5
    <3>7. y = <<"=">>
      BY <3>6
    <3> QED  BY <3>2, <3>4, <3>7
  <2>9. b # <<>>
    <3>1. Len(b) # 0
      BY <2>4, <2>6
    <3> QED  BY <3>1
  <2>10. PICK e : e = a + n
    OBVIOUS
  <2>11. r = [reader EXCEPT !.bytesRead = e, !.name = x, !.buffer = <<"=">>, !.token = "VariableName"]
    BY <1>1, <1>8, <1>11, <2>7, <2>8, <2>9, <2>10
  <2>12. r = [token |-> "VariableName", lastValid |-> reader.lastValid, name |-> x, buffer |-> <<"=">>,
              bytesRead |-> e, fields |-> reader.fields]
    BY <1>9, <2>11
  <2>13. r.token = "VariableName" /\ r.name = x /\ r.buffer = <<"=">> /\ r.bytesRead = e /\ r.fields = reader.fields
    BY <2>12
  <2>14. e \in Nat /\ e <= p /\ e = at[k] + l + 1 /\ s = SubSeq(B, e + 1, p)
    <3>1. Len(source) = p - a
      <4>1. Len(SubSeq(B, a + 1, p)) = p - a
        BY <1>2, <1>4, <1>5, Piece
      <4> QED  BY <1>4, <4>1
    <3>2. n \in Nat /\ n <= p - a
      BY <2>4, <2>5, <2>6, <3>1
    <3>3. e \in Nat /\ e <= p /\ e = at[k] + l + 1
      <4>1. a \in Nat /\ p \in Nat /\ n \in Nat /\ n <= p - a /\ n = l + 1 /\ e = a + n /\ l \in Nat
        BY <1>5, <2>4, <2>6, <2>10, <3>2
      <4>2. e \in Nat /\ e <= p /\ e = a + l + 1
        BY ONLY <4>1
      <4> QED  BY <1>4, <4>2
    <3>4. PICK h \in Nat : h = p - a
      BY <1>4, <1>5
    <3>5. n <= h /\ h <= p - a
      BY <1>5, <3>2, <3>4
    <3>6. SubSeq(SubSeq(B, a + 1, p), n + 1, h) = SubSeq(B, a + n + 1, a + h)
      <4>1. a \in Nat /\ p \in Nat /\ a <= p /\ p <= Len(B) /\ n \in Nat /\ h \in Nat /\ n <= h /\ h <= p - a /\ B \in Seq(Characters)
        BY <1>2, <1>4, <1>5, <3>2, <3>5
      <4> QED  BY <4>1, PieceOfPiece
    <3>7. a + h = p
      BY <1>5, <3>4
    <3> QED  BY <1>4, <1>8, <1>11, <2>10, <3>1, <3>3, <3>4, <3>6, <3>7
  <2>15. k < Len(form)
    BY <1>5, <2>1
  <2>16. Len(r.fields) = k /\ k + 1 = m
    BY <1>1, <2>1, <2>13
  <2>17. \A i \in 1..k : r.fields[i] = form[i]
    BY <1>4, <2>13
  <2>18. /\ k < Len(form) /\ at[k + 1] <= p /\ r.name = form[k + 1][1] /\ r.buffer = <<"=">>
         /\ r.bytesRead = at[k] + Len(r.name) + 1 /\ r.token = "VariableName"
         /\ k <= Len(form) /\ r.bytesRead <= p /\ s = SubSeq(B, r.bytesRead + 1, p)
    BY <1>4, <2>2, <2>3, <2>13, <2>14, <2>15, <2>16
  <2> QED  BY <1>1, <1>11, <2>16, <2>17, <2>18 DEF FieldsOK, Paused
<1> QED  BY <1>5, <1>6, <1>7, <1>12, <1>13

\* With a '=' in the buffer, what a value is cut from.
AtValue(n, w, b, f) ==
  /\ w \in 0..Len(source) /\ Len(source) \in Nat
  /\ n = IF w = 0 THEN Len(source) ELSE w
  /\ b \in Seq(Characters) /\ Len(b) = n + 1 /\ b[1] = "=" /\ \A i \in 1..n : b[i + 1] = source[i]
  /\ w = 0 => f = 0
  /\ w # 0 => f = n + 1

LEMMA ValueTaken ==
  ASSUME ReaderOK, reader.buffer = <<"=">>
  PROVE  \A n, w, b, f : /\ n = TakenUntil("&", {}) /\ w = Position(source, {"&"} \union {})
                         /\ b = BufferAfter(n) /\ f = Found("&", n, {})
                         => AtValue(n, w, b, f)
<1> DEFINE C == {"&"} \union {}
<1> SUFFICES ASSUME NEW n, n = TakenUntil("&", {}), NEW w, w = Position(source, C),
                    NEW b, b = BufferAfter(n), NEW f, f = Found("&", n, {})
             PROVE  AtValue(n, w, b, f)
  BY Zenon
<1>1. source \in Seq(Characters) /\ Len(source) \in Nat
  BY ReaderTypes
<1>2. w \in 0..Len(source) /\ (w = 0 => \A i \in 1..Len(source) : source[i] \notin C) /\ (w # 0 => source[w] \in C)
  <2> HIDE DEF C
  <2> QED  BY <1>1, PositionFound
<1>3. Position(reader.buffer, {"&"}) = 0
  <2>1. PICK B \in Seq(Characters) : B = reader.buffer
    BY ReaderTypes
  <2>2. \A i \in 1..Len(B) : B[i] \notin {"&"}
    BY <2>1
  <2>3. Position(B, {"&"}) = 0
    BY <2>1, <2>2, NoPosition
  <2> QED  BY <2>1, <2>3
<1>4. n = IF w = 0 THEN Len(source) ELSE w
  BY <1>3, Zenon DEF TakenUntil
<1>5. n \in 0..Len(source)
  BY <1>1, <1>2, <1>4
<1>6. /\ BufferAfter(n) \in Seq(Characters) /\ Len(BufferAfter(n)) = Len(reader.buffer) + n
      /\ \A i \in 1..Len(reader.buffer) : BufferAfter(n)[i] = reader.buffer[i]
      /\ \A i \in 1..n : BufferAfter(n)[Len(reader.buffer) + i] = source[i]
  BY <1>5, Taken
<1>7. b \in Seq(Characters) /\ Len(b) = n + 1 /\ b[1] = "=" /\ \A i \in 1..n : b[i + 1] = source[i]
  <2>1. Len(reader.buffer) = 1 /\ reader.buffer[1] = "="
    OBVIOUS
  <2>2. b \in Seq(Characters) /\ Len(b) = 1 + n /\ (\A i \in 1..1 : b[i] = reader.buffer[i]) /\ \A i \in 1..n : b[1 + i] = source[i]
    BY <1>6, <2>1
  <2>3. \A i \in 1..n : 1 + i = i + 1
    BY <1>5
  <2> QED  BY <1>5, <2>1, <2>2, <2>3
<1>8. f = IF n > 0 /\ source[n] \in C THEN Len(b) ELSE 0
  BY <1>3, Zenon DEF Found
<1>9. w = 0 => f = 0
  <2> SUFFICES ASSUME w = 0  PROVE f = 0
    OBVIOUS
  <2>1. n > 0 => n \in 1..Len(source)
    BY <1>1, <1>4
  <2>2. n > 0 => source[n] \notin C
    BY <1>2, <2>1, Zenon
  <2> QED  BY <1>8, <2>2, Zenon
<1>10. w # 0 => f = n + 1
  <2> SUFFICES ASSUME w # 0  PROVE f = n + 1
    OBVIOUS
  <2>1. n = w /\ n > 0
    BY <1>2, <1>4
  <2>2. source[n] \in C
    BY <1>2, <2>1, Zenon
  <2> QED  BY <1>7, <1>8, <2>1, <2>2, Zenon
<1> QED  BY <1>1, <1>2, <1>4, <1>7, <1>9, <1>10, Zenon DEF AtValue

\* The value of a field, cut from '=', the value and perhaps '&'; and how many bytes it takes.
LEMMA ValueCut ==
  ASSUME ReaderOK, NEW n, NEW w, NEW b, NEW f, AtValue(n, w, b, f), NEW y \in Seq(Characters), NEW e, NEW c, NEW p,
         IsValue(source, y, w, e, c, p)
  PROVE  /\ Tail(Before(b, f)) = y /\ (IF f = 0 THEN <<>> ELSE From(b, f + 1)) = <<>>
         /\ n \in Nat /\ n <= Len(source) /\ e + n = c
<1>1. PICK q : q = Len(y)
  OBVIOUS
<1>2. /\ Len(source) \in Nat /\ b \in Seq(Characters) /\ Len(b) = n + 1 /\ b[1] = "=" /\ \A i \in 1..n : b[i + 1] = source[i]
      /\ e \in Nat /\ q \in Nat /\ \A i \in 1..q : i \in 1..Len(source) /\ source[i] = y[i]
  BY <1>1 DEF AtValue, IsValue
<1>3. \/ /\ w = q + 1 /\ n = q + 1 /\ q + 1 <= Len(source) /\ f = q + 2 /\ e + n = c
      \/ /\ w = 0 /\ n = q /\ Len(source) = q /\ f = 0 /\ e + n = c
  <2>1. CASE w = q + 1 /\ q + 1 \in 1..Len(source) /\ e + q + 1 = c
    BY <1>2, <2>1 DEF AtValue
  <2>2. CASE w = 0 /\ Len(source) = q /\ e + q = c
    BY <1>2, <2>2 DEF AtValue
  <2> QED  BY <1>1, <2>1, <2>2 DEF IsValue
<1>4. n \in Nat /\ n <= Len(source) /\ e + n = c /\ q <= n
  BY <1>2, <1>3
<1>5. PICK t : t = Before(b, f)
  OBVIOUS
<1>6. t \in Seq(Characters) /\ Len(t) = q + 1 /\ \A i \in 1..(q + 1) : t[i] = b[i]
  <2>1. b \in Seq(Characters) /\ f \in 0..Len(b)
    BY <1>2, <1>3
  <2>2. /\ Before(b, f) \in Seq(Characters) /\ Len(Before(b, f)) = IF f = 0 THEN Len(b) ELSE f - 1
        /\ \A i \in 1..Len(Before(b, f)) : Before(b, f)[i] = b[i]
    BY ONLY <2>1, CutType
  <2>3. /\ t \in Seq(Characters) /\ Len(t) = (IF f = 0 THEN Len(b) ELSE f - 1) /\ \A i \in 1..Len(t) : t[i] = b[i]
    BY <1>5, <2>2
  <2>4. Len(t) = q + 1
    BY <1>2, <1>3, <2>3
  <2> QED  BY <2>3, <2>4
<1>7. Tail(t) = y
  <2>1. PICK u : u = Tail(t)
    OBVIOUS
  <2>2. t # <<>>
    <3>1. Len(t) # 0
      BY <1>2, <1>6
    <3> QED  BY <3>1
  <2>3. u \in Seq(Characters) /\ Len(u) = Len(t) - 1 /\ \A i \in 1..Len(u) : u[i] = t[i + 1]
    BY <1>6, <2>1, <2>2, HeadTailProperties
  <2>4. Len(u) = q
    BY <1>2, <1>6, <2>3
  <2>5. ASSUME NEW i \in 1..q  PROVE u[i] = y[i]
    <3>1. i \in 1..n /\ i + 1 \in 1..(q + 1)
      BY <1>2, <1>4
    <3>2. u[i] = t[i + 1] /\ t[i + 1] = b[i + 1] /\ b[i + 1] = source[i] /\ source[i] = y[i]
      BY <1>2, <1>6, <2>3, <2>4, <3>1
    <3> QED  BY <3>2
  <2>6. u = y
    BY <1>1, <2>3, <2>4, <2>5, SeqEqual
  <2> QED  BY <2>1, <2>6
<1>8. (IF f = 0 THEN <<>> ELSE From(b, f + 1)) = <<>>
  <2>1. CASE f = 0
    BY <2>1
  <2>2. CASE f # 0
    <3>1. f + 1 = Len(b) + 1 /\ f + 1 # 0 /\ Len(b) \in Nat
      BY <1>2, <1>3, <2>2
    <3>2. From(b, f + 1) = SubSeq(b, Len(b) + 1, Len(b))
      BY <3>1 DEF From
    <3> QED  BY <1>2, <2>2, <3>2, WholePiece
  <2> QED  BY <2>1, <2>2
<1> QED  BY <1>4, <1>5, <1>7, <1>8

\* A value is read up to the '&' behind it or the end of the form, and its field is given.
LEMMA ValueFields ==
  ASSUME LinkOK, RequestOK, ReaderOK, BytesOK, FieldsOK, link.use = "stream", OnceRead, client.wholeFields,
         ReadValue, link' = link, request' = request
  PROVE  FieldsOK'
<1>1. PICK k, a, p, B, at, n, b, f, w, form :
        /\ k = Len(reader.fields) /\ a = reader.bytesRead /\ p = request.position /\ B = Body(link.form) /\ at = Ends(link.form)
        /\ n = TakenUntil("&", {}) /\ b = BufferAfter(n) /\ f = Found("&", n, {})
        /\ w = Position(source, {"&"} \union {}) /\ form = link.form
  OBVIOUS
<1>2. /\ form \in Seq(FormFields) /\ Len(form) \in Nat /\ B \in Seq(Characters) /\ Len(B) \in Nat
      /\ at \in [0..Len(form) -> Nat] /\ IsForm(B, form, at)
  BY <1>1, EndsOK
<1>3. reader.token = "VariableName"
  BY DEF ReadValue
<1>4. /\ k < Len(form) /\ \A i \in 1..k : reader.fields[i] = form[i]
      /\ a <= p /\ source = SubSeq(B, a + 1, p) /\ reader.buffer = <<"=">>
      /\ at[k + 1] <= p /\ reader.name = form[k + 1][1] /\ a = at[k] + Len(reader.name) + 1
  BY <1>1, <1>3 DEF FieldsOK
<1>5. k \in Nat /\ a \in Nat /\ p \in Nat /\ p <= Len(B)
  <2>1. k \in Nat /\ a \in Nat
    BY <1>1, ReaderTypes
  <2>2. p \in Nat /\ p <= Len(B)
    <3>1. p \in Nat /\ p <= Len(request.arrived) /\ Len(request.arrived) <= Len(B) /\ Len(request.arrived) \in Nat
      BY <1>1, DeviceInBody
    <3> QED  BY <1>2, <3>1
  <2> QED  BY <2>1, <2>2
<1>6. PICK m \in 1..Len(form) : m = k + 1
  BY <1>2, <1>4, <1>5
<1>7. m - 1 = k /\ m \in 1..Len(form) /\ p \in Nat /\ at[m] <= p /\ p <= Len(B)
  BY <1>4, <1>5, <1>6
<1>8. PICK x, y : x = form[m][1] /\ y = form[m][2]
  OBVIOUS
<1>9. x \in Seq(Characters) /\ y \in Seq(Characters) /\ form[m] = <<x, y>>
  <2>1. form[m] \in FormFields
    BY <1>2
  <2>2. x \in Seq(Characters \ {"=", "&"}) /\ y \in Seq(Characters \ {"&"}) /\ form[m] = <<x, y>>
    BY <1>8, <2>1 DEF FormFields
  <2>3. Characters \ {"=", "&"} \subseteq Characters /\ Characters \ {"&"} \subseteq Characters
    OBVIOUS
  <2>4. x \in Seq(Characters)
    BY <2>2, <2>3, SeqMonotonic
  <2>5. y \in Seq(Characters)
    BY <2>2, <2>3, SeqMonotonic
  <2> QED  BY <2>2, <2>4, <2>5
<1>10. IsValue(source, y, w, a, at[m], p)
  <2>1. reader.name = x
    BY <1>4, <1>6, <1>8
  <2>2. a = at[m - 1] + Len(form[m][1]) + 1
    BY <1>4, <1>7, <1>8, <2>1
  <2> QED  BY <1>1, <1>2, <1>4, <1>7, <1>8, <2>2, NextValue, Zenon
<1>11. AtValue(n, w, b, f)
  BY <1>1, <1>4, ValueTaken, Zenon
<1>12. /\ Tail(Before(b, f)) = y /\ (IF f = 0 THEN <<>> ELSE From(b, f + 1)) = <<>>
       /\ n \in Nat /\ n <= Len(source) /\ a + n = at[m]
  BY <1>9, <1>10, <1>11, ValueCut
<1>13. /\ source' = SubSeq(source, n + 1, Len(source))
       /\ GiveValue(Tail(Before(b, f)), IF f = 0 THEN <<>> ELSE From(b, f + 1), n)
  <2>1. reader.buffer # <<>> /\ Head(reader.buffer) # "&"
    BY <1>4
  <2> QED  BY <1>1, <2>1, Zenon DEF ReadValue, Take
<1>14. GiveValue(y, <<>>, n)
  BY <1>12, <1>13
<1>15. PICK e, g, s, r : e = a + n /\ g = Append(reader.fields, <<reader.name, y>>) /\ s = source' /\ r = reader'
  OBVIOUS
<1>16. r = [token |-> "VariableValue", lastValid |-> reader.lastValid, name |-> reader.name, buffer |-> <<>>,
            bytesRead |-> e, fields |-> g]
  <2>1. reader = [token |-> reader.token, lastValid |-> reader.lastValid, name |-> reader.name, buffer |-> reader.buffer,
                  bytesRead |-> reader.bytesRead, fields |-> reader.fields]
    BY ReaderRecord DEF ReaderOK
  <2>2. r = [reader EXCEPT !.bytesRead = e, !.buffer = <<>>, !.token = "VariableValue", !.fields = g]
    BY <1>1, <1>14, <1>15 DEF GiveValue
  <2> QED  BY <2>1, <2>2
<1>17. r.token = "VariableValue" /\ r.buffer = <<>> /\ r.bytesRead = e /\ r.fields = g
  BY <1>16
<1>18. Len(g) = m /\ \A i \in 1..m : g[i] = form[i]
  <2>1. reader.fields \in Seq(Seq(Characters) \X Seq(Characters)) /\ <<reader.name, y>> = form[m]
        /\ <<reader.name, y>> \in Seq(Characters) \X Seq(Characters)
    BY <1>4, <1>6, <1>8, <1>9, ReaderTypes
  <2>2. Len(g) = k + 1 /\ (\A i \in 1..k : g[i] = reader.fields[i]) /\ g[k + 1] = form[m]
    <3>1. PICK F, v : F = reader.fields /\ v = form[m]
      OBVIOUS
    <3>2. PICK T : T = Seq(Characters) \X Seq(Characters)
      OBVIOUS
    <3>3. F \in Seq(T) /\ v \in T /\ g = Append(F, v) /\ k = Len(F)
      BY <1>1, <1>15, <2>1, <3>1, <3>2, Zenon
    <3>4. Len(g) = Len(F) + 1 /\ (\A i \in 1..Len(F) : g[i] = F[i]) /\ g[Len(F) + 1] = v
      BY <3>3, AppendProperties
    <3> QED  BY <3>1, <3>3, <3>4
  <2>3. \A i \in 1..m : i \in 1..k \/ i = k + 1
    BY <1>5, <1>6
  <2> QED  BY <1>4, <1>6, <2>2, <2>3
<1>19. e = at[m] /\ e <= p /\ s = SubSeq(B, e + 1, p)
  <2>1. Len(source) = p - a
    <3>1. Len(SubSeq(B, a + 1, p)) = p - a
      BY <1>2, <1>4, <1>5, Piece
    <3> QED  BY <1>4, <3>1
  <2>2. PICK h \in Nat : h = p - a
    BY <1>4, <1>5
  <2>3. a \in Nat /\ p \in Nat /\ a <= p /\ p <= Len(B) /\ n \in Nat /\ n <= h /\ h <= p - a /\ B \in Seq(Characters)
    BY <1>2, <1>4, <1>5, <1>12, <2>1, <2>2
  <2>4. SubSeq(SubSeq(B, a + 1, p), n + 1, h) = SubSeq(B, a + n + 1, a + h)
    BY <2>3, PieceOfPiece
  <2>5. a + h = p
    BY <1>5, <2>2
  <2> QED  BY <1>4, <1>7, <1>12, <1>13, <1>15, <2>1, <2>2, <2>4, <2>5
<1>20. Len(r.fields) = m /\ \A i \in 1..m : r.fields[i] = form[i]
  BY <1>17, <1>18
<1>21. m <= Len(form) /\ r.bytesRead <= p /\ s = SubSeq(B, r.bytesRead + 1, p) /\ r.buffer = <<>> /\ r.bytesRead = at[m]
  BY <1>2, <1>17, <1>19
<1> QED  BY <1>1, <1>15, <1>17, <1>20, <1>21 DEF FieldsOK, Paused

LEMMA ReadTokenFields == Fields /\ Types' /\ ReadToken => Fields'
<1> SUFFICES ASSUME Fields, Types', ReadToken  PROVE Fields'
  OBVIOUS
<1>1. /\ LinkOK /\ RequestOK /\ ReaderOK /\ BytesOK /\ SlotOK /\ FieldsOK
      /\ link' = link /\ client' = client /\ request' = request /\ broken' = broken
      /\ link.use = "stream" /\ request.phase = "responding" /\ ReadNext(Len(Body(link.form)))
  BY DEF Fields, Types, ReadToken, formVars
<1>2. BytesOK'
  BY <1>1 DEF BytesOK, FieldEnd
<1>3. ~request.signalled
  <2>1. reader.token \in {"StartData", "VariableValue", "VariableName"}
    BY <1>1 DEF ReadNext, ReadName, ReadValue
  <2>2. ~Paused
    BY <2>1 DEF Paused
  <2> QED  BY <1>1, <2>2 DEF SlotOK
<1>4. SlotOK'
  BY <1>1, <1>3 DEF SlotOK
<1>5. FieldsOK'
  <2>1. CASE OnceRead /\ client.wholeFields /\ ReadName(Len(Body(link.form)))
    BY <1>1, <2>1, NameFields
  <2>2. CASE OnceRead /\ client.wholeFields /\ ReadValue
    BY <1>1, <2>2, ValueFields
  <2>3. CASE ~(OnceRead /\ client.wholeFields)
    <3>1. ~(OnceRead /\ client.wholeFields)'
      BY <1>1, <2>3 DEF OnceRead
    <3> QED  BY <3>1 DEF FieldsOK
  <2> QED  BY <1>1, <2>1, <2>2, <2>3 DEF ReadNext
<1> QED  BY <1>2, <1>4, <1>5 DEF Fields

LEMMA FieldsStep == Fields /\ [Next]_vars => Fields'
<1> SUFFICES ASSUME Fields, [Next]_vars  PROVE Fields'
  OBVIOUS
<1>1. Types'
  BY TypesStep DEF Fields
<1>2. CASE Next
  BY <1>1, <1>2, Step, SendParametersFields, AnnounceFields, StartResponseFields, SendBodyFields, SendBeginFields, SendAbortFields,
     RunSlotFields, LoadPostVariablesFields, GiveUpFields, CallReadNextFields, ReadTokenFields, WriteResponseFields,
     ReadMimeFields
<1>3. CASE UNCHANGED vars
  BY <1>1, <1>3, FieldsUntouched DEF vars, formVars, readerVars
<1> QED  BY <1>2, <1>3

\* A slot sees the fields of the form, in order, and all of them at the end, whatever the transport and
\* however the body was cut, as long as a FastCgiStream was read once, and a stream only cut behind a '&'.
THEOREM FieldsCorrect == Spec => []FieldsAsSent
<1>1. Init => Fields
  BY InitFields
<1>2. Fields /\ [Next]_vars => Fields'
  BY FieldsStep
<1>3. Fields => FieldsAsSent
  BY FieldsImply
<1> QED  BY <1>1, <1>2, <1>3, PTL DEF Spec

-----------------------------------------------------------------------------
(* What consists of the same pieces is the same. *)

LEMMA LayoutPlace ==
  ASSUME NEW S, NEW seqs \in Seq(Seq(S)), NEW text, NEW end \in [0..Len(seqs) -> Nat], IsLayout(text, seqs, end)
  PROVE  \A i \in 1..Len(text) : \E k \in 1..Len(seqs) : end[k - 1] < i /\ i <= end[k] /\ i - end[k - 1] \in 1..Len(seqs[k])
<1> DEFINE N == Len(seqs)
           At(i, k) == end[k - 1] < i /\ i <= end[k]
           T == {k \in 0..N : \A i \in 1..end[k] : \E j \in 1..k : At(i, j)}
<1>1. N \in Nat /\ (\A k \in 1..N : Len(seqs[k]) \in Nat) /\ end \in [0..N -> Nat]
  OBVIOUS
<1>2. end[0] = 0 /\ end[N] = Len(text) /\ \A k \in 1..N : end[k] = end[k - 1] + Len(seqs[k])
  BY DEF IsLayout
<1> HIDE DEF N
<1>3. 0 \in T
  BY <1>1, <1>2
<1>4. ASSUME NEW k \in 1..N, k - 1 \in T  PROVE k \in T
  <2> SUFFICES ASSUME NEW i \in 1..end[k]  PROVE \E j \in 1..k : At(i, j)
    BY <1>1
  <2>1. CASE i <= end[k - 1]
    <3>1. k - 1 \in 0..N /\ end[k - 1] \in Nat /\ i \in 1..end[k - 1]
      BY <1>1, <2>1
    <3>2. PICK j \in 1..(k - 1) : At(i, j)
      BY <1>4, <3>1
    <3>3. j \in 1..k
      BY <1>1
    <3> QED  BY <3>2, <3>3
  <2>2. CASE ~(i <= end[k - 1])
    <3>1. k - 1 \in 0..N /\ end[k - 1] \in Nat /\ end[k] \in Nat /\ k \in 1..k
      BY <1>1
    <3>2. At(i, k)
      BY <2>2, <3>1
    <3> QED  BY <3>1, <3>2
  <2> QED  BY <2>1, <2>2
<1>5. N \in T
  <2>1. 0..N \subseteq T
    <3> HIDE DEF T
    <3> QED  BY <1>1, <1>3, <1>4, BoundedInduction
  <2>2. N \in 0..N
    BY <1>1
  <2> HIDE DEF T
  <2> QED  BY <2>1, <2>2
<1>6. ASSUME NEW i \in 1..Len(text)
      PROVE  \E k \in 1..N : end[k - 1] < i /\ i <= end[k] /\ i - end[k - 1] \in 1..Len(seqs[k])
  <2>1. PICK k \in 1..N : At(i, k)
    BY <1>2, <1>5
  <2>2. k - 1 \in 0..N /\ end[k - 1] \in Nat /\ end[k] \in Nat /\ Len(seqs[k]) \in Nat /\ end[k] = end[k - 1] + Len(seqs[k])
    BY <1>1, <1>2
  <2>3. PICK a, b, c : a = end[k - 1] /\ b = end[k] /\ c = Len(seqs[k])
    OBVIOUS
  <2>4. a \in Nat /\ b \in Nat /\ c \in Nat /\ b = a + c /\ a < i /\ i <= b /\ i \in Nat
    BY <2>1, <2>2, <2>3
  <2>5. i - a \in 1..c
    BY <2>4
  <2> QED  BY <2>3, <2>4, <2>5
<1> QED  BY <1>6 DEF N

LEMMA LayoutUnique ==
  ASSUME NEW S, NEW seqs \in Seq(Seq(S)), NEW s \in Seq(S), NEW t \in Seq(S),
         NEW e \in [0..Len(seqs) -> Nat], IsLayout(s, seqs, e), NEW f \in [0..Len(seqs) -> Nat], IsLayout(t, seqs, f)
  PROVE  s = t /\ e = f
<1> DEFINE N == Len(seqs)
           T == {k \in 0..N : e[k] = f[k]}
<1>1. N \in Nat /\ (\A k \in 1..N : Len(seqs[k]) \in Nat) /\ e \in [0..N -> Nat] /\ f \in [0..N -> Nat]
  OBVIOUS
<1>2. /\ e[0] = 0 /\ e[N] = Len(s) /\ \A k \in 1..N : e[k] = e[k - 1] + Len(seqs[k])
      /\ f[0] = 0 /\ f[N] = Len(t) /\ \A k \in 1..N : f[k] = f[k - 1] + Len(seqs[k])
  BY DEF IsLayout
<1> HIDE DEF N
<1>3. 0 \in T /\ \A k \in 1..N : k - 1 \in T => k \in T
  <2>1. 0 \in T
    BY <1>1, <1>2
  <2>2. ASSUME NEW k \in 1..N, k - 1 \in T  PROVE k \in T
    <3>1. e[k] = e[k - 1] + Len(seqs[k]) /\ f[k] = f[k - 1] + Len(seqs[k]) /\ e[k - 1] = f[k - 1]
      BY <1>2, <2>2
    <3>2. k \in 0..N
      BY <1>1
    <3>3. e[k] = f[k]
      BY <3>1, Zenon
    <3> QED  BY <3>2, <3>3
  <2> QED  BY <2>1, <2>2
<1>4. \A k \in 0..N : e[k] = f[k]
  <2>1. 0..N \subseteq T
    <3> HIDE DEF T
    <3> QED  BY <1>1, <1>3, BoundedInduction
  <2> QED  BY <2>1
<1>5. e = f
  BY <1>1, <1>4
<1>6. Len(s) = Len(t)
  BY <1>1, <1>2, <1>4
<1>7. ASSUME NEW i \in 1..Len(s)  PROVE s[i] = t[i]
  <2>1. PICK k \in 1..N : i - e[k - 1] \in 1..Len(seqs[k])
    BY LayoutPlace DEF N
  <2>2. PICK j \in 1..Len(seqs[k]) : j = i - e[k - 1]
    BY <2>1
  <2>3. k - 1 \in 0..N /\ e[k - 1] \in Nat
    <3>1. PICK m : m = k - 1
      OBVIOUS
    <3>2. m \in 0..N
      BY <1>1, <3>1
    <3>3. e[m] \in Nat
      BY <1>1, <3>2
    <3> QED  BY <3>1, <3>2, <3>3
  <2>4. e[k - 1] + j = i
    BY <2>2, <2>3
  <2>5. s[e[k - 1] + j] = seqs[k][j] /\ t[f[k - 1] + j] = seqs[k][j]
    BY DEF IsLayout, N
  <2> QED  BY <1>5, <2>4, <2>5
<1>8. s = t
  BY <1>6, <1>7, SeqEqual
<1> QED  BY <1>5, <1>8

\* Pieces of a sequence, one behind the other, are that sequence again.
LEMMA FlattenPieces ==
  ASSUME NEW S, NEW s \in Seq(S), NEW seqs \in Seq(Seq(S)), NEW end \in [0..Len(seqs) -> Nat], IsLayout(s, seqs, end)
  PROVE  FlattenSeq(seqs) = s
<1>1. PICK t \in Seq(S), f \in [0..Len(seqs) -> Nat] : t = FlattenSeq(seqs) /\ IsLayout(t, seqs, f)
  BY FlattenLayout
<1> QED  BY <1>1, LayoutUnique

-----------------------------------------------------------------------------
(* What the web server receives of what is written. *)

\* As many times m as n is made of, the last time perhaps less than m.
IsCount(n, m, c) == c = (n + m - 1) \div m

\* The records of n bytes: how many there are, and how many bytes are before each.
LEMMA RecordNumbers ==
  ASSUME NEW n \in Nat, NEW m \in Nat, m > 0, NEW c, IsCount(n, m, c)
  PROVE  /\ c \in Nat /\ n <= c * m
         /\ \A k \in 1..c : (k - 1) * m < n /\ (k - 1) * m \in Nat /\ k * m = (k - 1) * m + m
         /\ \A k \in 1..c : k # c => k * m < n
<1>1. PICK a, r : a = n + m - 1 /\ r = a % m
  OBVIOUS
<1>2. a \in Nat /\ c = a \div m
  BY <1>1 DEF IsCount
<1>3. a = m * c + r /\ c \in Nat /\ r \in 0..(m - 1)
  BY <1>1, <1>2, Division
<1>4. n <= c * m
  BY <1>1, <1>3
<1>5. (c - 1) * m < n
  <2>1. PICK x : x = m * c
    OBVIOUS
  <2>2. x \in Nat /\ (c - 1) * m = x - m
    BY <1>3, <2>1
  <2>3. n + m - 1 = x + r
    BY <1>1, <1>3, <2>1
  <2> QED  BY <1>3, <2>2, <2>3
<1>6. ASSUME NEW k \in 1..c  PROVE k * m <= c * m /\ (k - 1) * m \in Nat /\ k * m = (k - 1) * m + m
  <2>1. PICK d \in Nat : c = k + d
    <3>1. c - k \in Nat /\ c = k + (c - k)
      BY <1>3
    <3> QED  BY <3>1
  <2>2. d * m \in Nat /\ c * m = k * m + d * m /\ k * m \in Nat
    BY <2>1
  <2>3. k - 1 \in Nat
    OBVIOUS
  <2>4. (k - 1) * m \in Nat /\ k * m = (k - 1) * m + m
    BY <2>3
  <2> QED  BY <2>2, <2>4
<1>7. c \in Nat /\ c * m = (c - 1) * m + m
  BY <1>3
<1>8. ASSUME NEW k \in 1..c, k # c  PROVE k * m < n
  <2>1. k + 1 \in 1..c /\ (k + 1) - 1 = k
    BY <1>3, <1>8
  <2>2. (k + 1) * m <= c * m /\ (k + 1) * m = k * m + m /\ k * m \in Nat
    BY <1>6, <2>1
  <2>3. PICK x, y, z : x = k * m /\ y = c * m /\ z = (c - 1) * m
    OBVIOUS
  <2>4. x + m <= y /\ y = z + m /\ z < n /\ x \in Nat /\ z \in Int
    BY <1>3, <1>5, <1>7, <2>2, <2>3
  <2> QED  BY <2>3, <2>4
<1>9. ASSUME NEW k \in 1..c  PROVE (k - 1) * m < n
  <2>1. PICK x, y, z, v : x = k * m /\ y = c * m /\ z = (c - 1) * m /\ v = (k - 1) * m
    OBVIOUS
  <2>2. x <= y /\ x = v + m /\ y = z + m /\ z < n /\ v \in Nat /\ z \in Int
    BY <1>3, <1>5, <1>6, <1>7, <2>1
  <2> QED  BY <2>1, <2>2
<1> QED  BY <1>3, <1>4, <1>6, <1>8, <1>9

IsWritten(w, n, seqs) ==
  /\ seqs \in Seq(Seq(Nat)) /\ Len(seqs) = n
  /\ Written(w) = [k \in 1..n |-> Created("stdout", seqs[k])]
  /\ \A k \in 1..n : Len(seqs[k]) \in 1..(Word - 1)

LEMMA WrittenPieces ==
  ASSUME NEW w \in Seq(Nat)
  PROVE  \E n, seqs : n \in Nat /\ IsWritten(w, n, seqs) /\ FlattenSeq(seqs) = w
<1>1. PICK m, l : m = MostToWrite /\ l = Len(w)
  OBVIOUS
<1>2. m \in Nat /\ m > 0 /\ m = Word - 1 /\ l \in Nat
  BY <1>1, ByteSize DEF MostToWrite
<1>3. PICK c : IsCount(l, m, c)
  BY DEF IsCount
<1>4. /\ c \in Nat /\ l <= c * m
      /\ \A k \in 1..c : (k - 1) * m < l /\ (k - 1) * m \in Nat /\ k * m = (k - 1) * m + m
      /\ \A k \in 1..c : k # c => k * m < l
  <2>1. m \in Nat /\ m > 0 /\ l \in Nat
    BY <1>2
  <2> QED  BY ONLY <2>1, <1>3, RecordNumbers
<1> DEFINE Place(k) == IF k * m < l THEN k * m ELSE l
<1>5. PICK seqs : seqs = [k \in 1..c |-> SubSeq(w, (k - 1) * m + 1, Place(k))]
  OBVIOUS
<1>6. PICK end : end = [k \in 0..c |-> Place(k)]
  OBVIOUS
<1>7. \A k \in 0..c : Place(k) \in Nat /\ Place(k) <= l
  <2> SUFFICES ASSUME NEW k \in 0..c  PROVE Place(k) \in Nat /\ Place(k) <= l
    OBVIOUS
  <2>1. k * m \in Nat
    BY <1>2, <1>4
  <2> QED  BY <1>2, <2>1
<1>8. Place(0) = 0 /\ Place(c) = l
  <2>1. 0 * m = 0 /\ c * m \in Nat
    BY <1>2, <1>4
  <2> QED  BY <1>2, <1>4, <2>1
<1>9. \A k \in 1..c : /\ Place(k - 1) = (k - 1) * m /\ Place(k - 1) < Place(k)
                      /\ Place(k) - Place(k - 1) \in 1..m
  <2> SUFFICES ASSUME NEW k \in 1..c
               PROVE  /\ Place(k - 1) = (k - 1) * m /\ Place(k - 1) < Place(k)
                      /\ Place(k) - Place(k - 1) \in 1..m
    OBVIOUS
  <2>1. PICK x, y : x = (k - 1) * m /\ y = k * m
    OBVIOUS
  <2>2. x \in Nat /\ x < l /\ y = x + m
    BY <1>4, <2>1
  <2>3. Place(k - 1) = x
    BY <2>1, <2>2
  <2>4. Place(k) = IF y < l THEN y ELSE l
    BY <2>1
  <2>5. PICK z : z = Place(k)
    OBVIOUS
  <2>6. x < z /\ z - x \in 1..m
    BY <1>2, <2>2, <2>4, <2>5
  <2> QED  BY <2>1, <2>3, <2>5, <2>6
<1> HIDE DEF Place
<1>10. \A k \in 1..c : /\ seqs[k] \in Seq(Nat) /\ Len(seqs[k]) = Place(k) - Place(k - 1)
                       /\ \A i \in 1..Len(seqs[k]) : w[Place(k - 1) + i] = seqs[k][i]
  <2> SUFFICES ASSUME NEW k \in 1..c
               PROVE  /\ seqs[k] \in Seq(Nat) /\ Len(seqs[k]) = Place(k) - Place(k - 1)
                      /\ \A i \in 1..Len(seqs[k]) : w[Place(k - 1) + i] = seqs[k][i]
    OBVIOUS
  <2>1. k \in 0..c /\ k - 1 \in 0..c
    BY <1>4
  <2>2. PICK x, y : x = Place(k - 1) /\ y = Place(k)
    OBVIOUS
  <2>3. x \in Nat /\ y \in Nat /\ x <= y /\ y <= Len(w)
    BY <1>1, <1>7, <1>9, <2>1, <2>2
  <2>4. seqs[k] = SubSeq(w, x + 1, y)
    BY <1>5, <1>9, <2>2
  <2>5. seqs[k] \in Seq(Nat) /\ Len(seqs[k]) = y - x /\ \A i \in 1..(y - x) : seqs[k][i] = w[x + i]
    BY <2>3, <2>4, Piece
  <2> QED  BY <2>2, <2>5
<1>11. seqs \in Seq(Seq(Nat)) /\ Len(seqs) = c
  BY <1>4, <1>5, <1>10
<1>12. end \in [0..c -> Nat] /\ \A k \in 0..c : end[k] = Place(k)
  BY <1>6, <1>7
<1>13. IsLayout(w, seqs, end)
  <2>1. end[0] = 0 /\ end[c] = l
    BY <1>4, <1>8, <1>12
  <2>2. ASSUME NEW k \in 1..c  PROVE end[k] = end[k - 1] + Len(seqs[k]) /\ end[k - 1] = Place(k - 1)
    <3>1. k \in 0..c /\ k - 1 \in 0..c
      BY <1>4
    <3>2. PICK x, y : x = Place(k - 1) /\ y = Place(k)
      OBVIOUS
    <3>3. x \in Nat /\ y \in Nat /\ Len(seqs[k]) = y - x
      BY <1>7, <1>10, <3>1, <3>2
    <3>4. y = x + Len(seqs[k])
      BY <3>3
    <3> QED  BY <1>12, <3>1, <3>2, <3>4
  <2> QED  BY <1>1, <1>10, <1>11, <2>1, <2>2 DEF IsLayout
<1>14. FlattenSeq(seqs) = w
  BY <1>11, <1>12, <1>13, FlattenPieces
<1>15. Written(w) = [k \in 1..c |-> Created("stdout", seqs[k])]
  <2>1. Written(w) = [k \in 1..c |-> Created("stdout", SubSeq(w, (k - 1) * m + 1, Place(k)))]
    BY <1>1, <1>3 DEF Written, Place, IsCount
  <2> QED  BY <1>5, <2>1
<1>16. IsWritten(w, c, seqs)
  BY <1>2, <1>9, <1>10, <1>11, <1>15 DEF IsWritten
<1> QED  BY <1>4, <1>14, <1>16

\* The records of a response: STDOUT records with something in them, and the END_REQUEST.
IsResponse(r, n, seqs) ==
  /\ DOMAIN r = 1..(n + 1) /\ Len(r) = n + 1 /\ r[n + 1] = EndRequest
  /\ \A k \in 1..n : /\ r[k].header.type = "stdout" /\ r[k].header.contentLength = Len(seqs[k])
                     /\ r[k].data = seqs[k]

LEMMA ResponseRecords ==
  ASSUME NEW w, NEW n \in Nat, NEW seqs, IsWritten(w, n, seqs)
  PROVE  IsResponse(Append(Written(w), EndRequest), n, seqs)
<1>1. PICK v, e : v = Written(w) /\ e = EndRequest
  OBVIOUS
<1>2. v = [k \in 1..n |-> Created("stdout", seqs[k])] /\ \A k \in 1..n : Len(seqs[k]) \in 1..(Word - 1)
  BY <1>1 DEF IsWritten
<1>3. PICK S : S = {v[k] : k \in 1..n} \union {e}
  OBVIOUS
<1>4. v \in Seq(S) /\ e \in S /\ Len(v) = n
  <2>1. v \in [1..n -> S]
    BY <1>2, <1>3
  <2> QED  BY <1>3, <2>1
<1>5. PICK r : r = Append(v, e)
  OBVIOUS
<1>6. r \in Seq(S) /\ Len(r) = n + 1 /\ r[n + 1] = e /\ \A k \in 1..n : r[k] = v[k]
  BY <1>4, <1>5, AppendProperties
<1>7. DOMAIN r = 1..(n + 1)
  BY <1>6
<1>8. \A k \in 1..n : /\ r[k].header.type = "stdout" /\ r[k].header.contentLength = Len(seqs[k])
                      /\ r[k].data = seqs[k]
  <2> SUFFICES ASSUME NEW k \in 1..n
               PROVE  /\ r[k].header.type = "stdout" /\ r[k].header.contentLength = Len(seqs[k])
                      /\ r[k].data = seqs[k]
    OBVIOUS
  <2>1. PICK l, s : s = seqs[k] /\ l = Len(s)
    OBVIOUS
  <2>2. l \in 1..(Word - 1)
    BY <1>2, <2>1
  <2>3. l % Word = l
    BY <2>2, ByteSize
  <2>4. r[k] = [header |-> [type |-> "stdout", contentLength |-> l, paddingLength |-> 0], data |-> s]
    BY <1>2, <1>6, <2>1, <2>3 DEF Created
  <2> QED  BY <2>1, <2>4
<1> QED  BY <1>1, <1>5, <1>6, <1>7, <1>8 DEF IsResponse

\* The web server receives what was written, and then the end of the response.
LEMMA ResponseReceived ==
  ASSUME NEW w, NEW n \in Nat, NEW seqs, IsWritten(w, n, seqs), FlattenSeq(seqs) = w, NEW r, IsResponse(r, n, seqs)
  PROVE  /\ Received(r) = w /\ Last(r) = EndRequest
         /\ {k \in DOMAIN r : r[k].header.type = "end"} = {Len(r)}
<1>1. /\ seqs \in Seq(Seq(Nat)) /\ Len(seqs) = n /\ (\A k \in 1..n : Len(seqs[k]) \in 1..(Word - 1) /\ seqs[k] \in Seq(Nat))
  BY DEF IsWritten
<1>2. /\ DOMAIN r = 1..(n + 1) /\ Len(r) = n + 1 /\ r[n + 1] = EndRequest
      /\ \A k \in 1..n : /\ r[k].header.type = "stdout" /\ r[k].header.contentLength = Len(seqs[k])
                         /\ r[k].data = seqs[k]
  BY DEF IsResponse
<1>3. EndRequest.header.type = "end"
  BY DEF EndRequest
<1> DEFINE Over1(k) == r[k].header.contentLength = 0 \/ r[k].header.type = "end"
           Content(k) == SubSeq(r[k].data, 1, r[k].header.contentLength)
<1>4. PICK I : I = {k \in 1..Len(r) : Over1(k)}
  OBVIOUS
<1>5. I = {n + 1}
  <2>1. \A k \in 1..n : ~Over1(k)
    <3> SUFFICES ASSUME NEW k \in 1..n  PROVE ~Over1(k)
      OBVIOUS
    <3>1. PICK l : l = Len(seqs[k])
      OBVIOUS
    <3>2. l # 0
      BY <1>1, <3>1
    <3> QED  BY <1>2, <3>1, <3>2
  <2>2. Over1(n + 1)
    BY <1>2, <1>3
  <2>3. \A k \in 1..Len(r) : k = n + 1 \/ k \in 1..n
    BY <1>2
  <2>4. n + 1 \in 1..Len(r)
    BY <1>2
  <2> HIDE DEF Over1
  <2> QED  BY <1>4, <2>1, <2>2, <2>3, <2>4
<1>6. Min(I) = n + 1
  <2>1. I \in SUBSET Nat /\ I # {}
    BY <1>5
  <2> QED  BY <1>5, <2>1, LeastMember
<1>7. Received(r) = FlattenSeq([k \in 1..((n + 1) - 1) |-> Content(k)])
  <2>1. SelectInSeq(r, LAMBDA x : x.header.contentLength = 0 \/ x.header.type = "end") = IF I # {} THEN Min(I) ELSE 0
    BY <1>4 DEF SelectInSeq
  <2>2. SelectInSeq(r, LAMBDA x : x.header.contentLength = 0 \/ x.header.type = "end") = n + 1 /\ n + 1 # 0
    BY <1>5, <1>6, <2>1
  <2> QED  BY <2>2 DEF Received
<1>8. [k \in 1..((n + 1) - 1) |-> Content(k)] = seqs
  <2>1. (n + 1) - 1 = n
    OBVIOUS
  <2>2. \A k \in 1..n : Content(k) = seqs[k]
    <3> SUFFICES ASSUME NEW k \in 1..n  PROVE Content(k) = seqs[k]
      OBVIOUS
    <3>1. Content(k) = SubSeq(seqs[k], 1, Len(seqs[k]))
      BY <1>2
    <3> QED  BY <1>1, <3>1, WholePiece
  <2>3. [k \in 1..n |-> Content(k)] = [k \in 1..n |-> seqs[k]]
    BY <2>2
  <2>4. seqs = [k \in 1..n |-> seqs[k]]
    BY <1>1
  <2> QED  BY <2>1, <2>3, <2>4
<1>9. {k \in DOMAIN r : r[k].header.type = "end"} = {Len(r)}
  <2>1. \A k \in 1..(n + 1) : r[k].header.type = "end" <=> k = n + 1
    <3>1. \A k \in 1..(n + 1) : k = n + 1 \/ k \in 1..n
      OBVIOUS
    <3>2. n + 1 \notin 1..n
      OBVIOUS
    <3> QED  BY <1>2, <1>3, <3>1, <3>2
  <2> QED  BY <1>2, <2>1
<1>10. Last(r) = EndRequest
  BY <1>2 DEF Last
<1> QED  BY <1>7, <1>8, <1>9, <1>10

LEMMA NothingReceived == Received(<<>>) = <<>>
<1>1. PICK r : r = <<>>
  OBVIOUS
<1>2. PICK I : I = {k \in 1..Len(r) : r[k].header.contentLength = 0 \/ r[k].header.type = "end"}
  OBVIOUS
<1>3. I = {} /\ Len(r) = 0
  BY <1>1, <1>2
<1>4. SelectInSeq(r, LAMBDA x : x.header.contentLength = 0 \/ x.header.type = "end") = 0
  BY <1>2, <1>3 DEF SelectInSeq
<1>5. Received(r) = FlattenSeq([k \in 1..Len(r) |-> SubSeq(r[k].data, 1, r[k].header.contentLength)])
  BY <1>4 DEF Received
<1>6. [k \in 1..Len(r) |-> SubSeq(r[k].data, 1, r[k].header.contentLength)] = <<>>
  BY <1>3
<1>7. FlattenSeq(<<>>) = <<>>
  BY DEF FlattenSeq
<1> QED  BY <1>1, <1>5, <1>6, <1>7

\* The whole of it for a response.
LEMMA ResponseWhole ==
  ASSUME NEW w \in Seq(Nat), NEW r, r = Append(Written(w), EndRequest)
  PROVE  /\ Received(r) = w /\ Last(r) = EndRequest
         /\ {k \in DOMAIN r : r[k].header.type = "end"} = {Len(r)}
<1>1. PICK n, seqs : n \in Nat /\ IsWritten(w, n, seqs) /\ FlattenSeq(seqs) = w
  BY WrittenPieces
<1>2. IsResponse(r, n, seqs)
  BY <1>1, ResponseRecords
<1> QED  BY <1>1, <1>2, ResponseReceived

-----------------------------------------------------------------------------
(* QByteArray::split. *)

\* Where the m pieces of bytes end: at each byte, and behind the last one.
IsSplit(bytes, byte, m, e) ==
  /\ m \in 1..(Len(bytes) + 1) /\ e \in [0..m -> 0..(Len(bytes) + 1)]
  /\ e[0] = 0 /\ e[m] = Len(bytes) + 1
  /\ \A k \in 1..m : /\ e[k - 1] < e[k] /\ (k # m => bytes[e[k]] = byte /\ e[k] <= Len(bytes))
                     /\ \A i \in (e[k - 1] + 1)..(e[k] - 1) : bytes[i] # byte
Pieces(bytes, m, e) == [k \in 1..m |-> SubSeq(bytes, e[k - 1] + 1, e[k] - 1)]

LEMMA SplitShape ==
  ASSUME NEW S, NEW bytes \in Seq(S), NEW byte
  PROVE  \E m, e : IsSplit(bytes, byte, m, e) /\ SplitAt(bytes, byte) = Pieces(bytes, m, e)
<1> DEFINE N == Len(bytes)
           ends == {i \in 1..(N + 1) : i > N \/ bytes[i] = byte}
           D == 0..(N + 1)
           After(x) == IF x > N THEN x ELSE Min({i \in ends : i > x})
           Eqn(f) == f = [k \in 0..(N + 1) |-> IF k = 0 THEN 0 ELSE After(f[k - 1])]
           step == [p \in D \X (1..(N + 1)) |-> After(p[1])]
<1>1. N \in Nat
  OBVIOUS
<1>2. \A x \in D : /\ After(x) \in D
                   /\ x > N => After(x) = x
                   /\ x <= N => /\ After(x) \in ends /\ After(x) > x
                                /\ \A i \in (x + 1)..(After(x) - 1) : i \notin ends
  <2> HIDE DEF N
  <2>1. ASSUME NEW x \in D, x <= N
        PROVE  After(x) \in ends /\ After(x) > x /\ \A i \in (x + 1)..(After(x) - 1) : i \notin ends
    <3>1. PICK T : T = {i \in ends : i > x}
      OBVIOUS
    <3>2. N + 1 \in T /\ T \in SUBSET Nat
      BY <1>1, <2>1, <3>1
    <3>3. PICK y : y = Min(T)
      OBVIOUS
    <3>4. y \in T /\ \A i \in T : y <= i
      BY <3>2, <3>3, LeastMember
    <3>5. After(x) = y
      BY <1>1, <2>1, <3>1, <3>3
    <3>6. y \in ends /\ y > x /\ y \in Nat
      BY <3>1, <3>4, <3>2
    <3>7. \A i \in (x + 1)..(y - 1) : i \notin T /\ i > x
      BY <3>4, <3>6
    <3>8. \A i \in (x + 1)..(y - 1) : i \notin ends
      BY <3>1, <3>7
    <3> HIDE DEF After, ends
    <3> QED  BY <3>5, <3>6, <3>8
  <2>2. \A x \in D : x > N => After(x) = x
    OBVIOUS
  <2>3. \A i \in ends : i \in D
    OBVIOUS
  <2> HIDE DEF After, ends
  <2>4. \A x \in D : x > N \/ x <= N
    BY <1>1
  <2> QED  BY <2>1, <2>2, <2>3, <2>4
<1>3. \E g : Eqn(g)
  <2>1. 0 \in D /\ N + 1 \in Nat
    BY <1>1
  <2> HIDE DEF After, N
  <2>2. step \in [D \X (1..(N + 1)) -> D]
    <3> HIDE DEF D
    <3> QED  BY <1>2
  <2>3. PICK g \in [0..(N + 1) -> D] : Iterates(g, N + 1, 0, step)
    <3> HIDE DEF step, D
    <3> QED  BY <2>1, <2>2, ExistsRecursive
  <2>4. \A k \in 1..(N + 1) : k - 1 \in 0..(N + 1)
    BY <1>1
  <2>5. \A k \in 1..(N + 1) : g[k] = After(g[k - 1])
    <3> SUFFICES ASSUME NEW k \in 1..(N + 1)  PROVE g[k] = After(g[k - 1])
      OBVIOUS
    <3>1. g[k] = step[<<g[k - 1], k>>]
      <4> HIDE DEF step, D
      <4> QED  BY <2>3 DEF Iterates
    <3>2. g[k - 1] \in D
      <4> HIDE DEF D
      <4> QED  BY <2>4
    <3>3. <<g[k - 1], k>> \in D \X (1..(N + 1))
      <4> HIDE DEF D
      <4> QED  BY <3>2
    <3> HIDE DEF D
    <3> QED  BY <3>1, <3>3
  <2>6. g[0] = 0
    BY <2>3 DEF Iterates
  <2>7. g = [k \in 0..(N + 1) |-> g[k]]
    <3> HIDE DEF D
    <3> QED  OBVIOUS
  <2>8. \A k \in 0..(N + 1) : g[k] = IF k = 0 THEN 0 ELSE After(g[k - 1])
    <3>1. \A k \in 0..(N + 1) : k # 0 => k \in 1..(N + 1)
      BY <1>1
    <3> QED  BY <2>5, <2>6, <3>1
  <2>9. Eqn(g)
    BY <2>7, <2>8
  <2> QED  BY <2>9
<1>4. PICK f : f = CHOOSE g : Eqn(g)
  OBVIOUS
<1>5. Eqn(f)
  <2> HIDE DEF Eqn
  <2> QED  BY <1>3, <1>4
<1>6. SplitAt(bytes, byte) = [k \in 1..Min({k \in 1..(N + 1) : f[k] > N}) |-> SubSeq(bytes, f[k - 1] + 1, f[k] - 1)]
  BY <1>4 DEF SplitAt
<1>7. f[0] = 0 /\ \A k \in 1..(N + 1) : f[k] = After(f[k - 1])
  <2> HIDE DEF After, N
  <2>1. \A k \in 0..(N + 1) : f[k] = IF k = 0 THEN 0 ELSE After(f[k - 1])
    BY <1>5, Zenon
  <2>2. 0 \in 0..(N + 1) /\ \A k \in 1..(N + 1) : k \in 0..(N + 1) /\ k # 0
    BY <1>1
  <2> QED  BY <2>1, <2>2
<1>8. \A k \in 0..(N + 1) : f[k] \in D /\ (f[k] > N \/ f[k] >= k)
  <2> DEFINE T == {k \in 0..(N + 1) : f[k] \in D /\ (f[k] > N \/ f[k] >= k)}
  <2>1. 0 \in T
    BY <1>1, <1>7
  <2> HIDE DEF After, N
  <2>2. ASSUME NEW k \in 1..(N + 1), k - 1 \in T  PROVE k \in T
    <3>1. PICK x, y : x = f[k - 1] /\ y = f[k]
      OBVIOUS
    <3>2. y = After(x) /\ x \in D /\ (x > N \/ x >= k - 1) /\ k \in 0..(N + 1)
      BY <1>1, <1>7, <2>2, <3>1
    <3>3. y \in D /\ (x > N => y = x) /\ (x <= N => y > x)
      BY <1>2, <3>2
    <3>4. y > N \/ y >= k
      BY <1>1, <3>2, <3>3
    <3> QED  BY <3>1, <3>2, <3>3, <3>4
  <2>3. 0..(N + 1) \subseteq T
    <3>1. N + 1 \in Nat
      BY <1>1
    <3> HIDE DEF T
    <3> QED  BY <2>1, <2>2, <3>1, BoundedInduction
  <2> QED  BY <2>3
<1> HIDE DEF After, ends, Eqn, N, D, step
<1>9. PICK K : K = {k \in 1..(N + 1) : f[k] > N}
  OBVIOUS
<1>10. PICK m : m = Min(K)
  OBVIOUS
<1>11. m \in K /\ \A k \in K : m <= k
  <2>1. N + 1 \in K
    <3>1. N + 1 \in 1..(N + 1) /\ N + 1 \in 0..(N + 1) /\ f[N + 1] \in Nat
      BY <1>1, <1>8 DEF D
    <3>2. f[N + 1] > N
      BY <1>1, <1>8, <3>1
    <3> QED  BY <1>9, <3>1, <3>2
  <2>2. K \in SUBSET Nat
    BY <1>9
  <2> QED  BY <1>10, <2>1, <2>2, LeastMember
<1>12. m \in 1..(N + 1) /\ f[m] > N /\ m \in Nat
  BY <1>9, <1>11
<1>13. \A k \in 0..(m - 1) : k \in 0..(N + 1) /\ f[k] \in D /\ f[k] <= N
  <2> SUFFICES ASSUME NEW k \in 0..(m - 1)  PROVE k \in 0..(N + 1) /\ f[k] \in D /\ f[k] <= N
    OBVIOUS
  <2>1. k \in 0..(N + 1) /\ k \notin K /\ (k = 0 \/ k \in 1..(N + 1))
    BY <1>1, <1>11, <1>12
  <2>2. f[k] \in D
    BY <1>8, <2>1
  <2>3. k # 0 => ~(f[k] > N)
    BY <1>9, <2>1
  <2> QED  BY <1>1, <1>7, <2>1, <2>2, <2>3 DEF D
<1>14. PICK e : e = [k \in 0..m |-> f[k]]
  OBVIOUS
<1>15. \A k \in 0..m : e[k] = f[k] /\ f[k] \in 0..(N + 1)
  <2>1. \A k \in 0..m : k \in 0..(N + 1)
    BY <1>1, <1>12
  <2> QED  BY <1>8, <1>14, <2>1 DEF D
<1>16. e[0] = 0 /\ e[m] = N + 1
  <2>1. 0 \in 0..m /\ m \in 0..m
    BY <1>12
  <2>2. f[m] \in 0..(N + 1) /\ f[m] > N
    BY <1>12, <1>15, <2>1
  <2>3. f[m] = N + 1
    BY <1>1, <2>2
  <2> QED  BY <1>7, <1>15, <2>1, <2>3
<1>17. ASSUME NEW k \in 1..m
       PROVE  /\ e[k - 1] < e[k] /\ (k # m => bytes[e[k]] = byte /\ e[k] <= N)
              /\ \A i \in (e[k - 1] + 1)..(e[k] - 1) : bytes[i] # byte
  <2>1. PICK x, y : x = e[k - 1] /\ y = e[k]
    OBVIOUS
  <2>2. k - 1 \in 0..(m - 1) /\ k - 1 \in 0..m /\ k \in 0..m /\ k \in 1..(N + 1) /\ (k # m => k \in 0..(m - 1))
    BY <1>1, <1>12
  <2>3. y = After(x) /\ x \in D /\ x <= N /\ x \in Nat
    BY <1>7, <1>13, <1>15, <2>1, <2>2
  <2>4. y \in ends /\ y > x /\ \A i \in (x + 1)..(y - 1) : i \notin ends
    BY <1>2, <2>3
  <2>5. k # m => y <= N
    BY <1>13, <1>15, <2>1, <2>2
  <2>6. y \in 1..(N + 1) /\ (y > N \/ bytes[y] = byte)
    BY <2>4 DEF ends
  <2>7. \A i \in (x + 1)..(y - 1) : bytes[i] # byte
    <3>1. \A i \in (x + 1)..(y - 1) : i \in 1..(N + 1)
      BY <1>1, <2>3, <2>6
    <3> QED  BY <2>4, <3>1 DEF ends
  <2>8. k # m => bytes[y] = byte
    BY <1>1, <2>5, <2>6
  <2> QED  BY <2>1, <2>4, <2>5, <2>7, <2>8
<1>18. IsSplit(bytes, byte, m, e)
  <2>1. e \in [0..m -> 0..(N + 1)]
    BY <1>14, <1>15
  <2> QED  BY <1>12, <1>16, <1>17, <2>1 DEF IsSplit, N
<1>19. SplitAt(bytes, byte) = Pieces(bytes, m, e)
  <2>1. SplitAt(bytes, byte) = [k \in 1..m |-> SubSeq(bytes, f[k - 1] + 1, f[k] - 1)]
    BY <1>6, <1>9, <1>10
  <2>2. \A k \in 1..m : k - 1 \in 0..m /\ k \in 0..m
    BY <1>12
  <2>3. \A k \in 1..m : SubSeq(bytes, f[k - 1] + 1, f[k] - 1) = SubSeq(bytes, e[k - 1] + 1, e[k] - 1)
    BY <1>15, <2>2
  <2> QED  BY <2>1, <2>3 DEF Pieces
<1> QED  BY <1>18, <1>19

LEMMA SplitOrder ==
  ASSUME NEW S, NEW bytes \in Seq(S), NEW byte, NEW m, NEW e, IsSplit(bytes, byte, m, e)
  PROVE  /\ m \in Nat /\ m >= 1 /\ Len(bytes) \in Nat /\ \A k \in 0..m : e[k] \in Nat /\ e[k] <= Len(bytes) + 1
         /\ \A k \in 0..m : \A j \in 0..k : e[j] <= e[k] /\ (j < k => e[j] < e[k])
<1> DEFINE P(k) == \A j \in 0..k : e[j] <= e[k] /\ (j < k => e[j] < e[k])
           T == {k \in 0..m : P(k)}
<1>1. Len(bytes) \in Nat /\ m \in 1..(Len(bytes) + 1) /\ e \in [0..m -> 0..(Len(bytes) + 1)] /\ \A k \in 1..m : e[k - 1] < e[k]
  BY DEF IsSplit
<1>2. m \in Nat /\ m >= 1 /\ \A k \in 0..m : e[k] \in Nat /\ e[k] <= Len(bytes) + 1
  BY <1>1
<1>3. P(0)
  <2>1. \A j \in 0..0 : j = 0 /\ ~(j < 0)
    OBVIOUS
  <2>2. 0 \in 0..m
    BY <1>2
  <2>3. e[0] \in Nat
    BY <1>2, <2>2
  <2> QED  BY <2>1, <2>3
<1>4. ASSUME NEW k \in 1..m, P(k - 1)  PROVE P(k)
  <2> SUFFICES ASSUME NEW j \in 0..k  PROVE e[j] <= e[k] /\ (j < k => e[j] < e[k])
    OBVIOUS
  <2>1. k - 1 \in 0..m /\ k \in 0..m /\ j \in 0..m /\ (j = k \/ (j < k /\ j \in 0..(k - 1)))
    BY <1>2
  <2>2. PICK x, y, z : x = e[k - 1] /\ y = e[k] /\ z = e[j]
    OBVIOUS
  <2>3. x \in Nat /\ y \in Nat /\ z \in Nat /\ x < y
    BY <1>1, <1>2, <2>1, <2>2
  <2>4. CASE j = k
    BY <2>1, <2>2, <2>3, <2>4
  <2>5. CASE j < k /\ j \in 0..(k - 1)
    <3>1. z <= x
      BY <1>4, <2>2, <2>5
    <3> QED  BY <2>2, <2>3, <3>1
  <2> QED  BY <2>1, <2>4, <2>5
<1> HIDE DEF P
<1>5. 0 \in T /\ \A k \in 1..m : k - 1 \in T => k \in T
  BY <1>2, <1>3, <1>4
<1>6. 0..m \subseteq T
  <2> HIDE DEF T
  <2> QED  BY <1>2, <1>5, BoundedInduction
<1>7. \A k \in 0..m : P(k)
  BY <1>6
<1> QED  BY <1>1, <1>2, <1>7 DEF P

\* The pieces between the second and another, with what they were split at.
LEMMA JoinedPieces ==
  ASSUME NEW S, NEW bytes \in Seq(S), NEW byte, NEW m, NEW e, IsSplit(bytes, byte, m, e), m >= 2, NEW k \in 3..m
  PROVE  SubSeq(bytes, e[1] + 1, e[k - 1] - 1) \o <<byte>> \o SubSeq(bytes, e[k - 1] + 1, e[k] - 1)
           = SubSeq(bytes, e[1] + 1, e[k] - 1)
<1>1. /\ m \in Nat /\ m >= 1 /\ Len(bytes) \in Nat /\ \A i \in 0..m : e[i] \in Nat /\ e[i] <= Len(bytes) + 1
      /\ \A i \in 0..m : \A j \in 0..i : e[j] <= e[i] /\ (j < i => e[j] < e[i])
  BY SplitOrder
<1>2. 1 \in 0..m /\ k - 1 \in 0..m /\ k \in 0..m /\ 1 \in 0..(k - 1) /\ 1 < k - 1 /\ k - 1 \in 0..k /\ k - 1 < k /\ k - 1 \in 1..m /\ k - 1 # m
  BY <1>1
<1>3. PICK x, y, z : x = e[1] /\ y = e[k - 1] - 1 /\ z = e[k] - 1
  OBVIOUS
<1>4. /\ x \in Nat /\ y \in Nat /\ z \in Nat /\ x <= y /\ y + 1 <= z /\ z <= Len(bytes) /\ e[k - 1] = y + 1
  <2>1. PICK a, b : a = e[k - 1] /\ b = e[k]
    OBVIOUS
  <2>2. x \in Nat /\ a \in Nat /\ b \in Nat /\ x < a /\ a < b /\ b <= Len(bytes) + 1
    BY <1>1, <1>2, <1>3, <2>1
  <2>3. y = a - 1 /\ z = b - 1
    BY <1>3, <2>1
  <2>4. x \in Nat /\ y \in Nat /\ z \in Nat /\ x <= y /\ y + 1 <= z /\ z <= Len(bytes) /\ a = y + 1
    BY <1>1, <2>2, <2>3
  <2> QED  BY <2>1, <2>4
<1>5. bytes[y + 1] = byte
  <2>1. k - 1 # m => bytes[e[k - 1]] = byte
    BY <1>2 DEF IsSplit
  <2> QED  BY <1>2, <1>4, <2>1
<1>6. SubSeq(bytes, y + 1, y + 1) = <<byte>>
  <2>1. PICK t : t = <<byte>>
    OBVIOUS
  <2>2. y + 1 \in Nat /\ y <= y + 1 /\ y + 1 <= Len(bytes) /\ (y + 1) - y = 1
    BY <1>1, <1>4
  <2>3. byte \in S
    <3>1. y + 1 \in 1..Len(bytes)
      BY <1>4, <2>2
    <3> QED  BY <1>5, <3>1
  <2>4. t \in Seq(S) /\ Len(t) = 1 /\ t[1] = byte
    BY <2>1, <2>3
  <2>5. \A i \in 1..1 : t[i] = bytes[y + i]
    <3>1. \A i \in 1..1 : i = 1
      OBVIOUS
    <3> QED  BY <1>5, <2>4, <3>1
  <2>6. PICK v : v = y + 1
    OBVIOUS
  <2>7. v \in Nat /\ y <= v /\ v <= Len(bytes) /\ Len(t) = v - y /\ \A i \in 1..(v - y) : t[i] = bytes[y + i]
    BY <2>2, <2>4, <2>5, <2>6
  <2>8. t = SubSeq(bytes, y + 1, v)
    BY <1>4, <2>4, <2>7, PieceEqual
  <2> QED  BY <2>1, <2>6, <2>8
<1>7. SubSeq(bytes, x + 1, y) \o SubSeq(bytes, y + 1, y + 1) = SubSeq(bytes, x + 1, y + 1)
  <2>1. PICK v : v = y + 1
    OBVIOUS
  <2>2. v \in Nat /\ y <= v /\ v <= Len(bytes)
    BY <1>1, <1>4, <2>1
  <2>3. SubSeq(bytes, x + 1, y) \o SubSeq(bytes, y + 1, v) = SubSeq(bytes, x + 1, v)
    BY <1>4, <2>2, PieceConcat
  <2> QED  BY <2>1, <2>3
<1>8. SubSeq(bytes, x + 1, y + 1) \o SubSeq(bytes, (y + 1) + 1, z) = SubSeq(bytes, x + 1, z)
  <2>1. PICK v : v = y + 1
    OBVIOUS
  <2>2. v \in Nat /\ x <= v /\ v <= z
    BY <1>1, <1>4, <2>1
  <2>3. SubSeq(bytes, x + 1, v) \o SubSeq(bytes, v + 1, z) = SubSeq(bytes, x + 1, z)
    BY <1>4, <2>2, PieceConcat
  <2> QED  BY <2>1, <2>3
<1> QED  BY <1>3, <1>4, <1>6, <1>7, <1>8

-----------------------------------------------------------------------------
(* The environment of a CGI process. *)

\* A variable of the environment.
IsVariable(entry, a, b) ==
  /\ a \in Seq(1..(EqualsSign - 1)) /\ b \in Seq(1..(Byte - 1)) /\ entry \in Seq(Bytes)
  /\ Len(entry) = Len(a) + 1 + Len(b) /\ entry[Len(a) + 1] = EqualsSign
  /\ \A i \in 1..Len(a) : entry[i] = a[i]
  /\ \A i \in 1..Len(b) : entry[Len(a) + 1 + i] = b[i]

LEMMA VariableText ==
  ASSUME NEW a \in Seq(1..(EqualsSign - 1)), NEW b \in Seq(1..(Byte - 1))
  PROVE  IsVariable(a \o <<EqualsSign>> \o b, a, b)
<1>1. EqualsSign \in Bytes /\ 1..(EqualsSign - 1) \subseteq Bytes /\ 1..(Byte - 1) \subseteq Bytes
  BY ByteSize DEF EqualsSign, Bytes
<1>2. a \in Seq(Bytes) /\ b \in Seq(Bytes)
  BY <1>1, SeqMonotonic
<1>3. PICK c, x, y : c = <<EqualsSign>> /\ x = a \o c /\ y = x \o b
  OBVIOUS
<1>4. c \in Seq(Bytes) /\ Len(c) = 1 /\ c[1] = EqualsSign
  BY <1>1, <1>3
<1>5. Len(a) \in Nat /\ Len(b) \in Nat
  BY <1>2
<1>6. x \in Seq(Bytes) /\ Len(x) = Len(a) + 1 /\ \A i \in 1..(Len(a) + 1) : x[i] = IF i <= Len(a) THEN a[i] ELSE c[i - Len(a)]
  BY <1>2, <1>3, <1>4, ConcatProperties
<1>7. y \in Seq(Bytes) /\ Len(y) = Len(x) + Len(b) /\ \A i \in 1..(Len(x) + Len(b)) : y[i] = IF i <= Len(x) THEN x[i] ELSE b[i - Len(x)]
  BY <1>2, <1>3, <1>6, ConcatProperties
<1>8. PICK l, m : l = Len(a) /\ m = Len(b)
  OBVIOUS
<1>9. l \in Nat /\ m \in Nat /\ Len(x) = l + 1 /\ Len(y) = l + 1 + m
  BY <1>5, <1>6, <1>7, <1>8
<1>10. \A i \in 1..l : y[i] = a[i]
  <2> SUFFICES ASSUME NEW i \in 1..l  PROVE y[i] = a[i]
    OBVIOUS
  <2>1. i \in 1..(l + 1) /\ i \in 1..(l + 1 + m) /\ i <= l /\ i <= l + 1
    BY <1>9
  <2> QED  BY <1>6, <1>7, <1>8, <1>9, <2>1
<1>11. y[l + 1] = EqualsSign
  <2>1. l + 1 \in 1..(l + 1) /\ l + 1 \in 1..(l + 1 + m) /\ ~(l + 1 <= l) /\ l + 1 <= l + 1 /\ (l + 1) - l = 1
    BY <1>9
  <2>2. y[l + 1] = x[l + 1]
    BY <1>7, <1>8, <1>9, <2>1
  <2>3. x[l + 1] = c[(l + 1) - l]
    BY <1>6, <1>8, <2>1
  <2> QED  BY <1>4, <2>1, <2>2, <2>3
<1>12. \A i \in 1..m : y[l + 1 + i] = b[i]
  <2> SUFFICES ASSUME NEW i \in 1..m  PROVE y[l + 1 + i] = b[i]
    OBVIOUS
  <2>1. l + 1 + i \in 1..(l + 1 + m) /\ ~(l + 1 + i <= l + 1) /\ (l + 1 + i) - (l + 1) = i
    BY <1>9
  <2>2. y[l + 1 + i] = b[(l + 1 + i) - (l + 1)]
    BY <1>7, <1>8, <1>9, <2>1
  <2> QED  BY <2>1, <2>2
<1>13. IsVariable(y, a, b)
  BY <1>7, <1>8, <1>9, <1>10, <1>11, <1>12 DEF IsVariable
<1> QED  BY <1>3, <1>13

\* Its name ends at the first '='; all that is behind it is its value.
LEMMA VariableOf ==
  ASSUME NEW entry, NEW a, NEW b, IsVariable(entry, a, b)
  PROVE  Len(SplitAt(entry, EqualsSign)) > 1 /\ Variable(entry) = <<a, b>>
<1>1. /\ a \in Seq(1..(EqualsSign - 1)) /\ b \in Seq(1..(Byte - 1)) /\ entry \in Seq(Bytes)
      /\ Len(entry) = Len(a) + 1 + Len(b) /\ entry[Len(a) + 1] = EqualsSign
      /\ \A i \in 1..Len(a) : entry[i] = a[i]
      /\ \A i \in 1..Len(b) : entry[Len(a) + 1 + i] = b[i]
  BY DEF IsVariable
<1>2. PICK m, e : IsSplit(entry, EqualsSign, m, e) /\ SplitAt(entry, EqualsSign) = Pieces(entry, m, e)
  BY <1>1, SplitShape
<1>3. PICK p : p = Pieces(entry, m, e)
  OBVIOUS
<1>4. PICK l, n : l = Len(a) /\ n = Len(entry)
  OBVIOUS
<1>5. l \in Nat /\ n \in Nat /\ n = l + 1 + Len(b) /\ Len(b) \in Nat
  BY <1>1, <1>4
<1>6. /\ m \in Nat /\ m >= 1 /\ \A k \in 0..m : e[k] \in Nat /\ e[k] <= n + 1
      /\ \A k \in 0..m : \A j \in 0..k : e[j] <= e[k] /\ (j < k => e[j] < e[k])
  BY <1>1, <1>2, <1>4, SplitOrder
<1>7. /\ e[0] = 0 /\ e[m] = n + 1
      /\ \A k \in 1..m : /\ e[k - 1] < e[k] /\ (k # m => entry[e[k]] = EqualsSign /\ e[k] <= n)
                         /\ \A i \in (e[k - 1] + 1)..(e[k] - 1) : entry[i] # EqualsSign
  BY <1>2, <1>4 DEF IsSplit
<1>8. e[1] = l + 1 /\ m >= 2
  <2>1. 1 \in 1..m /\ 1 \in 0..m /\ 1 - 1 = 0 /\ 0 + 1 = 1
    BY <1>6
  <2>2. PICK x : x = e[1]
    OBVIOUS
  <2>3. x \in Nat /\ x > 0 /\ (1 # m => entry[x] = EqualsSign /\ x <= n) /\ \A i \in 1..(x - 1) : entry[i] # EqualsSign
    BY <1>6, <1>7, <2>1, <2>2
  <2>4. x <= l + 1
    <3>1. x > l + 1 => l + 1 \in 1..(x - 1)
      BY <1>5, <2>3
    <3>2. entry[l + 1] = EqualsSign
      BY <1>1, <1>4
    <3> QED  BY <1>5, <2>3, <3>1, <3>2
  <2>5. m # 1
    BY <1>5, <1>7, <2>2, <2>4
  <2>6. ~(x <= l)
    <3>1. x <= l => x \in 1..l
      BY <1>5, <2>3
    <3>2. \A i \in 1..l : a[i] # EqualsSign
      BY <1>1, <1>4, ByteSize DEF EqualsSign
    <3> QED  BY <1>1, <1>4, <2>3, <2>5, <3>1, <3>2
  <2> QED  BY <1>5, <1>6, <2>2, <2>3, <2>4, <2>5, <2>6
<1>9. Len(p) = m /\ \A k \in 1..m : p[k] = SubSeq(entry, e[k - 1] + 1, e[k] - 1)
  <2>1. p = [k \in 1..m |-> SubSeq(entry, e[k - 1] + 1, e[k] - 1)]
    BY <1>3 DEF Pieces
  <2>2. PICK T : T = {p[k] : k \in 1..m}
    OBVIOUS
  <2>3. p \in [1..m -> T]
    BY <2>1, <2>2
  <2>4. Len(p) = m
    BY <1>6, <2>3
  <2> QED  BY <2>1, <2>4
<1>10. p[1] = a
  <2>1. a \in Seq(Bytes)
    <3>1. 1..(EqualsSign - 1) \subseteq Bytes
      BY ByteSize DEF EqualsSign, Bytes
    <3> QED  BY <1>1, <3>1, SeqMonotonic
  <2>2. 1 \in 1..m /\ 1 - 1 = 0 /\ (l + 1) - 1 = l
    BY <1>5, <1>6
  <2>3. p[1] = SubSeq(entry, 0 + 1, l)
    BY <1>7, <1>8, <1>9, <2>2
  <2>4. PICK z \in Nat : z = 0
    OBVIOUS
  <2>5. z <= l /\ l <= Len(entry) /\ Len(a) = l - z /\ \A i \in 1..(l - z) : a[i] = entry[z + i]
    BY <1>1, <1>4, <1>5, <2>4
  <2>6. a = SubSeq(entry, z + 1, l)
    BY <1>1, <1>5, <2>1, <2>5, PieceEqual
  <2> QED  BY <2>3, <2>4, <2>6
<1>11. SubSeq(entry, e[1] + 1, e[m] - 1) = b
  <2>1. b \in Seq(Bytes)
    <3>1. 1..(Byte - 1) \subseteq Bytes
      BY DEF Bytes
    <3> QED  BY <1>1, <3>1, SeqMonotonic
  <2>2. PICK x, y : x = l + 1 /\ y = n
    OBVIOUS
  <2>3. x \in Nat /\ y \in Nat /\ x <= y /\ y <= Len(entry) /\ Len(b) = y - x
    BY <1>4, <1>5, <2>2
  <2>4. \A i \in 1..(y - x) : b[i] = entry[x + i]
    BY <1>1, <1>4, <2>2, <2>3
  <2>7. entry \in Seq(Bytes)
    BY <1>1
  <2>5. b = SubSeq(entry, x + 1, y)
    BY ONLY <2>1, <2>3, <2>4, <2>7, PieceEqual
  <2>6. e[1] = x /\ e[m] - 1 = y
    BY <1>5, <1>7, <1>8, <2>2
  <2> QED  BY <2>5, <2>6
<1> DEFINE Eqn(v) == v = [k \in 2..m |-> IF k = 2 THEN p[2] ELSE v[k - 1] \o <<EqualsSign>> \o p[k]]
           Joined(k) == SubSeq(entry, e[1] + 1, e[k] - 1)
<1>12. Joined(2) = p[2] /\ \A k \in 3..m : Joined(k - 1) \o <<EqualsSign>> \o p[k] = Joined(k)
  <2>1. 2 \in 1..m /\ 2 - 1 = 1 /\ \A k \in 3..m : k \in 1..m
    BY <1>6, <1>8
  <2>2. Joined(2) = p[2]
    BY <1>9, <2>1
  <2>3. ASSUME NEW k \in 3..m  PROVE Joined(k - 1) \o <<EqualsSign>> \o p[k] = Joined(k)
    <3>1. p[k] = SubSeq(entry, e[k - 1] + 1, e[k] - 1)
      BY <1>9, <2>1
    <3>2. SubSeq(entry, e[1] + 1, e[k - 1] - 1) \o <<EqualsSign>> \o SubSeq(entry, e[k - 1] + 1, e[k] - 1)
            = SubSeq(entry, e[1] + 1, e[k] - 1)
      <4>1. entry \in Seq(Bytes) /\ m >= 2 /\ IsSplit(entry, EqualsSign, m, e) /\ k \in 3..m
        BY <1>1, <1>2, <1>8
      <4> QED  BY ONLY <4>1, JoinedPieces
    <3> QED  BY <3>1, <3>2
  <2> QED  BY <2>2, <2>3
<1> HIDE DEF Joined
<1>13. PICK v : v = CHOOSE f : Eqn(f)
  OBVIOUS
<1>14. Eqn(v)
  <2>1. PICK g : g = [k \in 2..m |-> Joined(k)]
    OBVIOUS
  <2>2. \A k \in 2..m : g[k] = IF k = 2 THEN p[2] ELSE g[k - 1] \o <<EqualsSign>> \o p[k]
    <3> SUFFICES ASSUME NEW k \in 2..m  PROVE g[k] = IF k = 2 THEN p[2] ELSE g[k - 1] \o <<EqualsSign>> \o p[k]
      OBVIOUS
    <3>1. CASE k = 2
      BY <1>12, <2>1, <3>1
    <3>2. CASE k # 2
      <4>1. k \in 3..m /\ k - 1 \in 2..m
        BY <1>6, <3>2
      <4>2. g[k - 1] = Joined(k - 1) /\ g[k] = Joined(k)
        BY <2>1, <4>1
      <4> QED  BY <1>12, <3>2, <4>1, <4>2
    <3> QED  BY <3>1, <3>2
  <2>3. g = [k \in 2..m |-> g[k]]
    BY <2>1
  <2>4. Eqn(g)
    BY <2>2, <2>3
  <2> HIDE DEF Eqn
  <2> QED  BY <1>13, <2>4
<1>15. \A k \in 2..m : v[k] = IF k = 2 THEN p[2] ELSE v[k - 1] \o <<EqualsSign>> \o p[k]
  BY <1>14, Zenon
<1>16. v[m] = Joined(m)
  <2> DEFINE T == {j \in 0..(m - 2) : v[j + 2] = Joined(j + 2)}
  <2>1. PICK d \in Nat : d = m - 2
    BY <1>6, <1>8
  <2>2. 0 \in T
    <3>1. 2 \in 2..m /\ 0 + 2 = 2 /\ 0 \in 0..(m - 2)
      BY <1>6, <1>8
    <3>2. v[2] = Joined(2)
      BY <1>12, <1>15, <3>1
    <3> QED  BY <3>1, <3>2
  <2>3. ASSUME NEW j \in 1..d, j - 1 \in T  PROVE j \in T
    <3>1. PICK k : k = j + 2
      OBVIOUS
    <3>2. k \in 2..m /\ k \in 3..m /\ k # 2 /\ (j - 1) + 2 = k - 1 /\ j \in 0..(m - 2)
      BY <1>6, <2>1, <3>1
    <3>3. v[k - 1] = Joined(k - 1)
      BY <2>3, <3>2
    <3>4. v[k] = v[k - 1] \o <<EqualsSign>> \o p[k]
      BY <1>15, <3>2
    <3>5. v[k] = Joined(k)
      BY <1>12, <3>2, <3>3, <3>4
    <3> QED  BY <3>1, <3>2, <3>5
  <2>4. 0..d \subseteq T
    <3> HIDE DEF T
    <3> QED  BY <2>2, <2>3, BoundedInduction
  <2>5. d \in T
    <3>1. d \in 0..d
      BY <2>1
    <3> HIDE DEF T
    <3> QED  BY <2>4, <3>1
  <2>6. d + 2 = m
    BY <1>6, <2>1
  <2> QED  BY <2>5, <2>6
<1>17. Variable(entry) = <<p[1], v[m]>>
  BY <1>2, <1>3, <1>9, <1>13 DEF Variable
<1>18. v[m] = b
  BY <1>11, <1>16 DEF Joined
<1> QED  BY <1>2, <1>3, <1>6, <1>8, <1>9, <1>10, <1>17, <1>18

LEMMA EnvironmentRead == EnvironmentParameters(Environment(Headers)) = ToSet(Headers)
<1> DEFINE Entry(k) == Headers[k][1] \o <<EqualsSign>> \o Headers[k][2]
<1>1. \A k \in 1..Len(Headers) : Len(SplitAt(Entry(k), EqualsSign)) > 1 /\ Variable(Entry(k)) = Headers[k]
  <2> SUFFICES ASSUME NEW k \in 1..Len(Headers)
               PROVE  Len(SplitAt(Entry(k), EqualsSign)) > 1 /\ Variable(Entry(k)) = Headers[k]
    OBVIOUS
  <2>1. PICK a \in Seq(1..(EqualsSign - 1)), b \in Seq(1..(Byte - 1)) : Headers[k] = <<a, b>>
    BY FormAssumption
  <2>2. Entry(k) = a \o <<EqualsSign>> \o b
    BY <2>1
  <2>3. IsVariable(Entry(k), a, b)
    BY <2>2, VariableText
  <2> HIDE DEF Entry
  <2> QED  BY <2>1, <2>3, VariableOf
<1>2. Environment(Headers) = {Entry(k) : k \in 1..Len(Headers)}
  BY DEF Environment
<1>3. DOMAIN Headers = 1..Len(Headers)
  BY HeadersType
<1> HIDE DEF Entry
<1>4. EnvironmentParameters(Environment(Headers)) = {Variable(x) : x \in Environment(Headers)}
  <2>1. \A x \in Environment(Headers) : Len(SplitAt(x, EqualsSign)) > 1
    BY <1>1, <1>2
  <2> QED  BY <2>1 DEF EnvironmentParameters
<1> QED  BY <1>1, <1>2, <1>3, <1>4 DEF ToSet

-----------------------------------------------------------------------------
(* The header blob of an SCGI request. *)

\* Where the next piece ends.
LEMMA NextSplit ==
  ASSUME NEW S, NEW bytes \in Seq(S), NEW byte, NEW m, NEW e, IsSplit(bytes, byte, m, e), NEW j \in 1..m,
         NEW y \in 1..Len(bytes), e[j - 1] < y, bytes[y] = byte, \A i \in (e[j - 1] + 1)..(y - 1) : bytes[i] # byte
  PROVE  e[j] = y /\ j + 1 \in 1..m
<1>1. m \in Nat /\ m >= 1 /\ Len(bytes) \in Nat /\ \A k \in 0..m : e[k] \in Nat /\ e[k] <= Len(bytes) + 1
  BY SplitOrder
<1>2. /\ e[m] = Len(bytes) + 1
      /\ e[j - 1] < e[j] /\ (j # m => bytes[e[j]] = byte /\ e[j] <= Len(bytes))
      /\ \A i \in (e[j - 1] + 1)..(e[j] - 1) : bytes[i] # byte
  BY DEF IsSplit
<1>3. PICK x, z, n : x = e[j - 1] /\ z = e[j] /\ n = Len(bytes)
  OBVIOUS
<1>4. j - 1 \in 0..m /\ j \in 0..m
  BY <1>1
<1>5. x \in Nat /\ z \in Nat /\ n \in Nat /\ x < z /\ z <= n + 1 /\ x < y /\ y \in 1..n
  BY <1>1, <1>2, <1>3, <1>4
<1>6. ~(z > y)
  <2>1. z > y => y \in (x + 1)..(z - 1)
    BY <1>5
  <2> QED  BY <1>2, <1>3, <2>1
<1>7. j # m
  BY <1>2, <1>3, <1>5, <1>6
<1>8. ~(z < y)
  <2>1. z < y => z \in (x + 1)..(y - 1)
    BY <1>5
  <2> QED  BY <1>2, <1>3, <1>7, <2>1
<1>9. z = y
  BY <1>5, <1>6, <1>8
<1>10. j + 1 \in 1..m
  BY <1>1, <1>7
<1> QED  BY <1>3, <1>9, <1>10

\* A pair of the blob, behind place x.
IsBlobPair(blob, x, a, b) ==
  /\ a \in Text /\ b \in Text /\ x \in Nat /\ x + Len(a) + Len(b) + 2 <= Len(blob)
  /\ \A i \in 1..Len(a) : blob[x + i] = a[i]
  /\ blob[x + Len(a) + 1] = Null
  /\ \A i \in 1..Len(b) : blob[x + Len(a) + 1 + i] = b[i]
  /\ blob[x + Len(a) + Len(b) + 2] = Null

LEMMA BlobPairText ==
  ASSUME NEW a \in Text, NEW b \in Text
  PROVE  /\ Append(a, Null) \o Append(b, Null) \in Seq(Bytes)
         /\ Len(Append(a, Null) \o Append(b, Null)) = Len(a) + Len(b) + 2
         /\ IsBlobPair(Append(a, Null) \o Append(b, Null), 0, a, b)
<1>1. Null \in Bytes /\ 1..(Byte - 1) \subseteq Bytes
  BY ByteSize DEF Null, Bytes
<1>2. a \in Seq(Bytes) /\ b \in Seq(Bytes) /\ Len(a) \in Nat /\ Len(b) \in Nat
  <2>1. a \in Seq(1..(Byte - 1)) /\ b \in Seq(1..(Byte - 1))
    BY DEF Text
  <2>2. a \in Seq(Bytes) /\ b \in Seq(Bytes)
    BY <1>1, <2>1, SeqMonotonic
  <2> QED  BY <2>2
<1>3. PICK c, d : c = Append(a, Null) /\ d = Append(b, Null)
  OBVIOUS
<1>4. c \in Seq(Bytes) /\ Len(c) = Len(a) + 1 /\ c[Len(a) + 1] = Null /\ \A i \in 1..Len(a) : c[i] = a[i]
  BY <1>1, <1>2, <1>3, AppendProperties
<1>5. d \in Seq(Bytes) /\ Len(d) = Len(b) + 1 /\ d[Len(b) + 1] = Null /\ \A i \in 1..Len(b) : d[i] = b[i]
  BY <1>1, <1>2, <1>3, AppendProperties
<1>6. PICK y : y = c \o d
  OBVIOUS
<1>7. y \in Seq(Bytes) /\ Len(y) = Len(c) + Len(d) /\ \A i \in 1..(Len(c) + Len(d)) : y[i] = IF i <= Len(c) THEN c[i] ELSE d[i - Len(c)]
  BY <1>4, <1>5, <1>6, ConcatProperties
<1>8. PICK l, n : l = Len(a) /\ n = Len(b)
  OBVIOUS
<1>9. l \in Nat /\ n \in Nat /\ Len(c) = l + 1 /\ Len(d) = n + 1 /\ Len(y) = l + n + 2
  BY <1>2, <1>4, <1>5, <1>7, <1>8
<1>10. \A i \in 1..(l + 1) : y[i] = c[i]
  <2>1. \A i \in 1..(l + 1) : i \in 1..((l + 1) + (n + 1)) /\ i <= l + 1
    BY <1>9
  <2> QED  BY <1>7, <1>9, <2>1
<1>11. \A i \in 1..(n + 1) : y[l + 1 + i] = d[i]
  <2> SUFFICES ASSUME NEW i \in 1..(n + 1)  PROVE y[l + 1 + i] = d[i]
    OBVIOUS
  <2>1. l + 1 + i \in 1..((l + 1) + (n + 1)) /\ ~(l + 1 + i <= l + 1) /\ (l + 1 + i) - (l + 1) = i
    BY <1>9
  <2>2. y[l + 1 + i] = d[(l + 1 + i) - (l + 1)]
    BY <1>7, <1>9, <2>1
  <2> QED  BY <2>1, <2>2
<1>12. \A i \in 1..l : y[0 + i] = a[i]
  <2>1. \A i \in 1..l : i \in 1..(l + 1) /\ 0 + i = i
    BY <1>9
  <2> QED  BY <1>4, <1>8, <1>10, <2>1
<1>13. y[0 + l + 1] = Null
  <2>1. l + 1 \in 1..(l + 1) /\ 0 + l + 1 = l + 1
    BY <1>9
  <2> QED  BY <1>4, <1>8, <1>10, <2>1
<1>14. \A i \in 1..n : y[0 + l + 1 + i] = b[i]
  <2>1. \A i \in 1..n : i \in 1..(n + 1) /\ 0 + l + 1 + i = l + 1 + i
    BY <1>9
  <2> QED  BY <1>5, <1>8, <1>11, <2>1
<1>15. y[0 + l + n + 2] = Null
  <2>1. n + 1 \in 1..(n + 1) /\ 0 + l + n + 2 = l + 1 + (n + 1)
    BY <1>9
  <2> QED  BY <1>5, <1>8, <1>11, <2>1
<1>16. IsBlobPair(y, 0, a, b)
  <2>1. 0 + l + n + 2 <= Len(y) /\ 0 \in Nat
    BY <1>9
  <2> QED  BY <1>8, <1>12, <1>13, <1>14, <1>15, <2>1 DEF IsBlobPair
<1> QED  BY <1>3, <1>6, <1>7, <1>8, <1>9, <1>16

LEMMA BlobLayout ==
  /\ HeaderBlob(Headers) \in Seq(Bytes)
         /\ \E end \in [0..Len(Headers) -> Nat] :
              /\ end[0] = 0 /\ end[Len(Headers)] = Len(HeaderBlob(Headers))
              /\ \A k \in 1..Len(Headers) :
                   /\ end[k] = end[k - 1] + Len(Headers[k][1]) + Len(Headers[k][2]) + 2
                   /\ IsBlobPair(HeaderBlob(Headers), end[k - 1], Headers[k][1], Headers[k][2])
<1> DEFINE Part(k) == Append(Headers[k][1], Null) \o Append(Headers[k][2], Null)
<1>1. PICK n, seqs, blob : n = Len(Headers) /\ seqs = [k \in 1..n |-> Part(k)] /\ blob = HeaderBlob(Headers)
  OBVIOUS
<1>2. n \in Nat /\ \A k \in 1..n : Headers[k][1] \in Text /\ Headers[k][2] \in Text
  BY <1>1, HeadersType DEF Pair
<1>3. \A k \in 1..n : /\ seqs[k] \in Seq(Bytes) /\ Len(seqs[k]) = Len(Headers[k][1]) + Len(Headers[k][2]) + 2
                      /\ IsBlobPair(seqs[k], 0, Headers[k][1], Headers[k][2])
  BY <1>1, <1>2, BlobPairText
<1>4. blob = FlattenSeq(seqs)
  BY <1>1 DEF HeaderBlob
<1> HIDE DEF Part
<1>5. seqs \in Seq(Seq(Bytes)) /\ Len(seqs) = n
  <2>1. \A k \in 1..n : seqs[k] \in Seq(Bytes)
    BY <1>3
  <2>2. seqs = [k \in 1..n |-> seqs[k]] /\ n \in Nat
    BY <1>1, <1>2
  <2>3. seqs \in [1..n -> Seq(Bytes)]
    BY <2>1, <2>2
  <2> QED  BY <2>2, <2>3
<1>6. blob \in Seq(Bytes)
  BY <1>4, <1>5, FlattenLayout
<1>7. PICK end \in [0..n -> Nat] : IsLayout(blob, seqs, end)
  BY <1>4, <1>5, FlattenLayout
<1>8. /\ end[0] = 0 /\ end[n] = Len(blob)
      /\ \A k \in 1..n : end[k] = end[k - 1] + Len(seqs[k]) /\ \A i \in 1..Len(seqs[k]) : blob[end[k - 1] + i] = seqs[k][i]
  BY <1>5, <1>7 DEF IsLayout
<1>9. ASSUME NEW k \in 1..n
      PROVE  /\ end[k] = end[k - 1] + Len(Headers[k][1]) + Len(Headers[k][2]) + 2
             /\ IsBlobPair(blob, end[k - 1], Headers[k][1], Headers[k][2])
  <2>1. PICK s, x, z, a, b, l, m : /\ s = seqs[k] /\ x = end[k - 1] /\ z = end[k] /\ a = Headers[k][1] /\ b = Headers[k][2]
                                   /\ l = Len(a) /\ m = Len(b)
    OBVIOUS
  <2>2. a \in Text /\ b \in Text /\ l \in Nat /\ m \in Nat
    BY <1>2, <2>1 DEF Text
  <2>3. x \in Nat /\ z \in Nat /\ end[n] \in Nat /\ z <= Len(blob)
    <3>1. k \in 0..n /\ k - 1 \in 0..n /\ n \in 0..n /\ k <= n
      BY <1>2
    <3>2. end[k] <= end[n]
      BY <1>5, <1>7, <3>1, LayoutOrder
    <3> QED  BY <1>7, <1>8, <2>1, <3>1, <3>2
  <2>4. z = x + (l + m + 2) /\ Len(s) = l + m + 2
    BY <1>3, <1>8, <2>1
  <2>5. \A i \in 1..(l + m + 2) : blob[x + i] = s[i]
    BY <1>8, <2>1, <2>4
  <2>6. IsBlobPair(s, 0, a, b)
    BY <1>3, <2>1
  <2>7. /\ \A i \in 1..l : s[0 + i] = a[i]
        /\ s[0 + l + 1] = Null
        /\ \A i \in 1..m : s[0 + l + 1 + i] = b[i]
        /\ s[0 + l + m + 2] = Null
    BY <2>1, <2>6 DEF IsBlobPair
  <2>8. \A i \in 1..l : blob[x + i] = a[i]
    <3>1. \A i \in 1..l : i \in 1..(l + m + 2) /\ 0 + i = i
      BY <2>2
    <3> QED  BY <2>5, <2>7, <3>1
  <2>9. blob[x + l + 1] = Null
    <3>1. l + 1 \in 1..(l + m + 2) /\ 0 + l + 1 = l + 1 /\ x + (l + 1) = x + l + 1
      BY <2>2, <2>3
    <3> QED  BY <2>5, <2>7, <3>1
  <2>10. \A i \in 1..m : blob[x + l + 1 + i] = b[i]
    <3> SUFFICES ASSUME NEW i \in 1..m  PROVE blob[x + l + 1 + i] = b[i]
      OBVIOUS
    <3>1. l + 1 + i \in 1..(l + m + 2) /\ 0 + l + 1 + i = l + 1 + i /\ x + (l + 1 + i) = x + l + 1 + i
      BY <2>2, <2>3
    <3> QED  BY <2>5, <2>7, <3>1
  <2>11. blob[x + l + m + 2] = Null
    <3>1. l + m + 2 \in 1..(l + m + 2) /\ 0 + l + m + 2 = l + m + 2 /\ x + (l + m + 2) = x + l + m + 2
      BY <2>2, <2>3
    <3> QED  BY <2>5, <2>7, <3>1
  <2>12. x + l + m + 2 <= Len(blob) /\ z = x + l + m + 2
    BY <2>2, <2>3, <2>4
  <2>13. IsBlobPair(blob, x, a, b)
    BY <2>1, <2>2, <2>3, <2>8, <2>9, <2>10, <2>11, <2>12 DEF IsBlobPair
  <2> QED  BY <2>1, <2>12, <2>13
<1>10. \E e \in [0..n -> Nat] :
         /\ e[0] = 0 /\ e[n] = Len(blob)
         /\ \A k \in 1..n : /\ e[k] = e[k - 1] + Len(Headers[k][1]) + Len(Headers[k][2]) + 2
                            /\ IsBlobPair(blob, e[k - 1], Headers[k][1], Headers[k][2])
  BY <1>7, <1>8, <1>9
<1> QED  BY <1>1, <1>6, <1>10

\* A pair that starts where a piece ends makes the next two pieces.
LEMMA BlobPairSplit ==
  ASSUME NEW blob \in Seq(Bytes), NEW m, NEW e, IsSplit(blob, Null, m, e), NEW x, NEW a, NEW b, IsBlobPair(blob, x, a, b),
         NEW j \in 1..m, e[j - 1] = x
  PROVE  /\ e[j] = x + Len(a) + 1 /\ j + 1 \in 1..m
         /\ e[j + 1] = x + Len(a) + Len(b) + 2 /\ (j + 1) + 1 \in 1..m
         /\ SubSeq(blob, e[j - 1] + 1, e[j] - 1) = a /\ SubSeq(blob, e[j] + 1, e[j + 1] - 1) = b
<1>1. PICK l, n, L : l = Len(a) /\ n = Len(b) /\ L = Len(blob)
  OBVIOUS
<1>2. /\ a \in Text /\ b \in Text /\ x \in Nat /\ x + l + n + 2 <= L
      /\ \A i \in 1..l : blob[x + i] = a[i]
      /\ blob[x + l + 1] = Null
      /\ \A i \in 1..n : blob[x + l + 1 + i] = b[i]
      /\ blob[x + l + n + 2] = Null
  BY <1>1 DEF IsBlobPair
<1>3. l \in Nat /\ n \in Nat /\ L \in Nat /\ (\A i \in 1..l : a[i] # Null) /\ (\A i \in 1..n : b[i] # Null)
  <2>1. a \in Seq(1..(Byte - 1)) /\ b \in Seq(1..(Byte - 1))
    BY <1>2 DEF Text
  <2>2. (\A i \in 1..Len(a) : a[i] \in 1..(Byte - 1)) /\ (\A i \in 1..Len(b) : b[i] \in 1..(Byte - 1))
    BY <2>1, ElementOfSeq
  <2>3. \A i \in 1..(Byte - 1) : i # Null
    BY DEF Null
  <2> QED  BY <1>1, <2>1, <2>2, <2>3
<1>4. PICK y, z : y = x + l + 1 /\ z = x + l + n + 2
  OBVIOUS
<1>5. y \in 1..L /\ z \in 1..L /\ x < y /\ y < z /\ y \in Nat /\ z \in Nat
  BY <1>2, <1>3, <1>4
<1>6. \A i \in (x + 1)..(y - 1) : blob[i] # Null
  <2> SUFFICES ASSUME NEW i \in (x + 1)..(y - 1)  PROVE blob[i] # Null
    OBVIOUS
  <2>1. PICK k \in 1..l : i = x + k
    <3>1. i \in Nat /\ x + 1 <= i /\ i <= x + l
      <4>1. x \in Nat /\ l \in Nat /\ y - 1 = x + l
        BY <1>2, <1>3, <1>4
      <4> QED  BY <4>1
    <3>2. x \in Nat /\ l \in Nat
      BY <1>2, <1>3
    <3>3. i - x \in 1..l /\ i = x + (i - x)
      BY ONLY <3>1, <3>2
    <3> QED  BY <3>3
  <2> QED  BY <1>2, <1>3, <2>1
<1>7. e[j] = y /\ j + 1 \in 1..m
  <2>1. e[j - 1] < y /\ blob[y] = Null /\ y \in 1..Len(blob) /\ \A i \in (e[j - 1] + 1)..(y - 1) : blob[i] # Null
    BY <1>1, <1>2, <1>4, <1>5, <1>6
  <2> QED  BY <2>1, NextSplit
<1>8. \A i \in (y + 1)..(z - 1) : blob[i] # Null
  <2> SUFFICES ASSUME NEW i \in (y + 1)..(z - 1)  PROVE blob[i] # Null
    OBVIOUS
  <2>1. PICK k \in 1..n : i = x + l + 1 + k
    <3>1. i - (x + l + 1) \in 1..n /\ i = x + l + 1 + (i - (x + l + 1))
      BY <1>2, <1>3, <1>4
    <3> QED  BY <3>1
  <2> QED  BY <1>2, <1>3, <2>1
<1>9. e[j + 1] = z /\ (j + 1) + 1 \in 1..m
  <2>1. PICK h \in 1..m : h = j + 1
    BY <1>7
  <2>2. h - 1 = j
    BY <2>1
  <2>3. e[h - 1] < z /\ blob[z] = Null /\ z \in 1..Len(blob) /\ \A i \in (e[h - 1] + 1)..(z - 1) : blob[i] # Null
    BY <1>1, <1>2, <1>4, <1>5, <1>7, <1>8, <2>2
  <2>4. e[h] = z /\ h + 1 \in 1..m
    BY <2>3, NextSplit
  <2> QED  BY <2>1, <2>4
<1>10. a \in Seq(Bytes) /\ b \in Seq(Bytes)
  <2>1. a \in Seq(1..(Byte - 1)) /\ b \in Seq(1..(Byte - 1)) /\ 1..(Byte - 1) \subseteq Bytes
    BY <1>2 DEF Text, Bytes
  <2> QED  BY <2>1, SeqMonotonic
<1>11. SubSeq(blob, e[j - 1] + 1, e[j] - 1) = a
  <2>1. PICK u : u = y - 1
    OBVIOUS
  <2>2. u \in Nat /\ x <= u /\ u <= Len(blob) /\ Len(a) = u - x /\ \A i \in 1..(u - x) : a[i] = blob[x + i]
    BY <1>1, <1>2, <1>3, <1>4, <1>5, <2>1
  <2>3. x \in Nat
    BY <1>2
  <2>4. a = SubSeq(blob, x + 1, u)
    BY ONLY <1>10, <2>2, <2>3, blob \in Seq(Bytes), PieceEqual
  <2> QED  BY <1>7, <2>1, <2>4
<1>12. SubSeq(blob, e[j] + 1, e[j + 1] - 1) = b
  <2>1. PICK u : u = z - 1
    OBVIOUS
  <2>2. u \in Nat /\ y <= u /\ u <= Len(blob) /\ Len(b) = u - y
    BY <1>1, <1>2, <1>3, <1>4, <1>5, <2>1
  <2>3. \A i \in 1..(u - y) : b[i] = blob[y + i]
    BY <1>1, <1>2, <1>4, <2>2
  <2>4. y \in Nat
    BY <1>5
  <2>5. b = SubSeq(blob, y + 1, u)
    BY ONLY <1>10, <2>2, <2>3, <2>4, blob \in Seq(Bytes), PieceEqual
  <2> QED  BY <1>7, <1>9, <2>1, <2>5
<1>13. Len(a) = l /\ Len(b) = n
  BY <1>1
<1> QED  BY <1>4, <1>7, <1>9, <1>11, <1>12, <1>13

LEMMA BlobRead == BlobParameters(HeaderBlob(Headers)) = ToSet(Headers)
<1>1. PICK blob, n : blob = HeaderBlob(Headers) /\ n = Len(Headers)
  OBVIOUS
<1>2. n \in Nat /\ \A k \in 1..n : Headers[k][1] \in Text /\ Headers[k][2] \in Text /\ Headers[k] = <<Headers[k][1], Headers[k][2]>>
  BY <1>1, HeadersType DEF Pair
<1>3. blob \in Seq(Bytes)
  BY <1>1, BlobLayout
<1>4. PICK end \in [0..n -> Nat] :
        /\ end[0] = 0 /\ end[n] = Len(blob)
        /\ \A k \in 1..n : /\ end[k] = end[k - 1] + Len(Headers[k][1]) + Len(Headers[k][2]) + 2
                           /\ IsBlobPair(blob, end[k - 1], Headers[k][1], Headers[k][2])
  BY <1>1, BlobLayout
<1>5. PICK m, e : IsSplit(blob, Null, m, e) /\ SplitAt(blob, Null) = Pieces(blob, m, e)
  BY <1>3, SplitShape
<1>6. /\ m \in Nat /\ m >= 1 /\ Len(blob) \in Nat /\ \A k \in 0..m : e[k] \in Nat /\ e[k] <= Len(blob) + 1
      /\ \A k \in 0..m : \A j \in 0..k : e[j] <= e[k] /\ (j < k => e[j] < e[k])
  BY <1>3, <1>5, SplitOrder
<1>7. e[0] = 0 /\ e[m] = Len(blob) + 1
  BY <1>5 DEF IsSplit
<1> DEFINE T == {k \in 0..n : 2 * k < m /\ e[2 * k] = end[k]}
<1>8. ASSUME NEW k \in 1..n, k - 1 \in T
      PROVE  /\ k \in T /\ 2 * k \in 1..m
             /\ SubSeq(blob, e[2 * k - 2] + 1, e[2 * k - 1] - 1) = Headers[k][1]
             /\ SubSeq(blob, e[2 * k - 1] + 1, e[2 * k] - 1) = Headers[k][2]
  <2>1. PICK j, x, a, b : j = 2 * k - 1 /\ x = end[k - 1] /\ a = Headers[k][1] /\ b = Headers[k][2]
    OBVIOUS
  <2>2. j \in 1..m /\ j - 1 = 2 * k - 2 /\ j - 1 = 2 * (k - 1) /\ j + 1 = 2 * k
    BY <1>6, <1>8, <2>1
  <2>3. e[j - 1] = x
    BY <1>8, <2>1, <2>2
  <2>4. IsBlobPair(blob, x, a, b) /\ end[k] = x + Len(a) + Len(b) + 2
    BY <1>4, <2>1
  <2>5. /\ e[j + 1] = x + Len(a) + Len(b) + 2 /\ j + 1 \in 1..m /\ (j + 1) + 1 \in 1..m
        /\ SubSeq(blob, e[j - 1] + 1, e[j] - 1) = a /\ SubSeq(blob, e[j] + 1, e[j + 1] - 1) = b
    BY <1>3, <1>5, <2>2, <2>3, <2>4, BlobPairSplit
  <2>6. 2 * k < m /\ e[2 * k] = end[k]
    BY <1>6, <2>2, <2>4, <2>5
  <2>7. k \in 0..n
    BY <1>2
  <2> QED  BY <2>1, <2>2, <2>5, <2>6, <2>7
<1>9. 0..n \subseteq T
  <2>1. 0 \in T
    BY <1>2, <1>4, <1>6, <1>7
  <2>2. \A k \in 1..n : k - 1 \in T => k \in T
    BY <1>8
  <2> HIDE DEF T
  <2> QED  BY <1>2, <2>1, <2>2, BoundedInduction
<1>10. \A k \in 1..n : /\ 2 * k \in 1..m
                       /\ SubSeq(blob, e[2 * k - 2] + 1, e[2 * k - 1] - 1) = Headers[k][1]
                       /\ SubSeq(blob, e[2 * k - 1] + 1, e[2 * k] - 1) = Headers[k][2]
  <2>1. \A k \in 1..n : k - 1 \in 0..n
    BY <1>2
  <2> HIDE DEF T
  <2> QED  BY <1>8, <1>9, <2>1
<1>11. m = 2 * n + 1
  <2>1. 2 * n < m /\ e[2 * n] = Len(blob)
    <3>1. n \in 0..n
      BY <1>2
    <3> QED  BY <1>4, <1>9, <3>1
  <2>2. PICK h : h = 2 * n + 1
    OBVIOUS
  <2>3. h \in 0..m /\ 2 * n \in 0..h /\ 2 * n < h /\ m \in 0..m /\ h \in 0..m
    BY <1>2, <1>6, <2>1, <2>2
  <2>4. e[2 * n] < e[h] /\ (h < m => e[h] < e[m])
    BY <1>6, <2>3
  <2>5. e[h] \in Nat
    BY <1>6, <2>3
  <2>6. ~(h < m)
    BY <1>6, <1>7, <2>1, <2>4, <2>5
  <2> QED  BY <1>6, <2>2, <2>3, <2>6
<1>12. PICK p, parts : p = Pieces(blob, m, e) /\ parts = Front(p)
  OBVIOUS
<1>13. p \in Seq(Seq(Bytes)) /\ Len(p) = m /\ \A k \in 1..m : p[k] = SubSeq(blob, e[k - 1] + 1, e[k] - 1)
  <2>1. p = [k \in 1..m |-> SubSeq(blob, e[k - 1] + 1, e[k] - 1)]
    BY <1>12 DEF Pieces
  <2>2. ASSUME NEW k \in 1..m  PROVE SubSeq(blob, e[k - 1] + 1, e[k] - 1) \in Seq(Bytes)
    <3>1. PICK x, y : x = e[k - 1] /\ y = e[k] - 1
      OBVIOUS
    <3>2. k - 1 \in 0..m /\ k \in 0..m /\ k - 1 \in 0..k /\ k - 1 < k
      BY <1>6
    <3>3. e[k - 1] \in Nat /\ e[k] \in Nat /\ e[k - 1] < e[k] /\ e[k] <= Len(blob) + 1
      BY <1>6, <3>2
    <3>4. x \in Nat /\ y \in Nat /\ x <= y /\ y <= Len(blob)
      BY <1>6, <3>1, <3>3
    <3>5. SubSeq(blob, x + 1, y) \in Seq(Bytes)
      BY <1>3, <3>4, Piece
    <3> QED  BY <3>1, <3>5
  <2>3. \A k \in 1..m : p[k] = SubSeq(blob, e[k - 1] + 1, e[k] - 1) /\ p[k] \in Seq(Bytes)
    BY <2>1, <2>2
  <2>4. p \in [1..m -> Seq(Bytes)]
    BY <2>1, <2>3
  <2>5. p \in Seq(Seq(Bytes)) /\ Len(p) = m
    BY <1>6, <2>4
  <2> QED  BY <2>3, <2>5
<1>14. Len(parts) = 2 * n /\ \A k \in 1..(2 * n) : parts[k] = p[k]
  <2>1. PICK h : h = m - 1
    OBVIOUS
  <2>2. h = 2 * n /\ h \in 0..Len(p)
    BY <1>2, <1>11, <1>13, <2>1
  <2>3. parts = SubSeq(p, 1, h)
    BY <1>12, <1>13, <2>1 DEF Front
  <2>4. Len(parts) = h /\ \A k \in 1..h : parts[k] = p[k]
    BY <1>13, <2>2, <2>3, Prefix
  <2> QED  BY <2>2, <2>4
<1>15. \A k \in 1..n : <<parts[2 * k - 1], parts[2 * k]>> = Headers[k]
  <2> SUFFICES ASSUME NEW k \in 1..n  PROVE <<parts[2 * k - 1], parts[2 * k]>> = Headers[k]
    OBVIOUS
  <2>1. PICK j, h : j = 2 * k - 1 /\ h = 2 * k
    OBVIOUS
  <2>2. j \in 1..m /\ h \in 1..m /\ j \in 1..(2 * n) /\ h \in 1..(2 * n) /\ j - 1 = 2 * k - 2 /\ h - 1 = 2 * k - 1
    BY <1>2, <1>11, <2>1
  <2>3. parts[j] = SubSeq(blob, e[j - 1] + 1, e[j] - 1) /\ parts[h] = SubSeq(blob, e[h - 1] + 1, e[h] - 1)
    BY <1>13, <1>14, <2>2
  <2>4. parts[j] = Headers[k][1] /\ parts[h] = Headers[k][2]
    BY <1>10, <2>1, <2>2, <2>3
  <2> QED  BY <1>2, <2>1, <2>4
<1>16. BlobParameters(blob) = {<<parts[2 * k - 1], parts[2 * k]>> : k \in 1..(Len(parts) \div 2)}
  BY <1>5, <1>12 DEF BlobParameters
<1>17. Len(parts) \div 2 = n
  BY <1>2, <1>14
<1>18. DOMAIN Headers = 1..n
  BY <1>1, HeadersType
<1> QED  BY <1>1, <1>15, <1>16, <1>17, <1>18 DEF ToSet

-----------------------------------------------------------------------------
(* The name-value pairs of a PARAMS record. *)

\* s is in data behind place x.
IsAt(data, x, s) ==
  /\ x \in Nat /\ x + Len(s) <= Len(data) /\ \A i \in 1..Len(s) : data[x + i] = s[i]

LEMMA AtConcat ==
  ASSUME NEW S, NEW data \in Seq(S), NEW x, NEW s \in Seq(S), NEW t \in Seq(S), IsAt(data, x, s \o t)
  PROVE  IsAt(data, x, s) /\ IsAt(data, x + Len(s), t)
<1>1. PICK u, l, m : u = s \o t /\ l = Len(s) /\ m = Len(t)
  OBVIOUS
<1>2. l \in Nat /\ m \in Nat /\ Len(u) = l + m /\ \A i \in 1..(l + m) : u[i] = IF i <= l THEN s[i] ELSE t[i - l]
  BY <1>1, ConcatProperties
<1>3. x \in Nat /\ x + (l + m) <= Len(data) /\ \A i \in 1..(l + m) : data[x + i] = u[i]
  BY <1>1, <1>2 DEF IsAt
<1>4. Len(data) \in Nat
  OBVIOUS
<1>5. \A i \in 1..l : data[x + i] = s[i]
  <2>1. \A i \in 1..l : i \in 1..(l + m) /\ i <= l
    BY <1>2
  <2> QED  BY <1>2, <1>3, <2>1
<1>6. \A i \in 1..m : data[(x + l) + i] = t[i]
  <2> SUFFICES ASSUME NEW i \in 1..m  PROVE data[(x + l) + i] = t[i]
    OBVIOUS
  <2>1. l + i \in 1..(l + m) /\ ~(l + i <= l) /\ (l + i) - l = i /\ x + (l + i) = (x + l) + i
    BY <1>2, <1>3
  <2> QED  BY <1>2, <1>3, <2>1
<1>7. x + l <= Len(data) /\ x + l \in Nat /\ (x + l) + m <= Len(data)
  BY <1>2, <1>3, <1>4
<1>8. IsAt(data, x, s)
  BY <1>1, <1>3, <1>5, <1>7 DEF IsAt
<1>9. IsAt(data, x + l, t)
  BY <1>1, <1>6, <1>7 DEF IsAt
<1> QED  BY <1>1, <1>8, <1>9

LEMMA AtPiece ==
  ASSUME NEW S, NEW data \in Seq(S), NEW x, NEW s \in Seq(S), IsAt(data, x, s)
  PROVE  SubSeq(data, x + 1, x + Len(s)) = s
<1>1. PICK y : y = x + Len(s)
  OBVIOUS
<1>2. x \in Nat /\ Len(s) \in Nat /\ y <= Len(data) /\ \A i \in 1..Len(s) : data[x + i] = s[i]
  BY <1>1 DEF IsAt
<1>3. y \in Nat /\ x <= y /\ Len(s) = y - x
  BY <1>1, <1>2
<1>4. \A i \in 1..(y - x) : s[i] = data[x + i]
  BY <1>2, <1>3
<1> QED  BY <1>1, <1>2, <1>3, <1>4, PieceEqual

\* A length is read as it was written.
LEMMA LengthRead ==
  ASSUME NEW data \in Seq(Bytes), NEW x, NEW n \in Nat, n < HighBit * Byte * Byte * Byte, IsAt(data, x, EncodedLength(n))
  PROVE  LengthSize(data, x + 1) = Len(EncodedLength(n)) /\ LengthAt(data, x + 1) = n
<1>1. PICK s, l : s = EncodedLength(n) /\ l = Len(s)
  OBVIOUS
<1>2. x \in Nat /\ x + l <= Len(data) /\ Len(data) \in Nat /\ \A i \in 1..l : data[x + i] = s[i]
  BY <1>1 DEF IsAt
<1>3. CASE n < HighBit /\ s = <<n>>
  <2>1. l = 1 /\ s[1] = n /\ 1 \in 1..l
    BY <1>1, <1>3
  <2>2. data[x + 1] = n
    BY <1>2, <2>1
  <2>3. ~IsLong(data, x + 1)
    BY <1>3, <2>2, ByteSize DEF IsLong
  <2>4. LengthSize(data, x + 1) = 1
    BY <2>3 DEF LengthSize
  <2>5. ~(x + 1 > Len(data)) /\ ~((x + 1) + 1 > Len(data) + 1)
    BY <1>2, <2>1
  <2>6. LengthAt(data, x + 1) = n
    BY <2>2, <2>3, <2>4, <2>5 DEF LengthAt
  <2> QED  BY <1>1, <2>1, <2>4, <2>6
<1>4. ASSUME NEW a \in 0..(HighBit - 1), NEW b \in Bytes, NEW c \in Bytes, NEW d \in Bytes,
             s = <<HighBit + a, b, c, d>>, n = ((a * Byte + b) * Byte + c) * Byte + d
      PROVE  LengthSize(data, x + 1) = l /\ LengthAt(data, x + 1) = n
  <2>1. l = 4 /\ s[1] = HighBit + a /\ s[2] = b /\ s[3] = c /\ s[4] = d
    BY <1>1, <1>4
  <2>2. 1 \in 1..l /\ 2 \in 1..l /\ 3 \in 1..l /\ 4 \in 1..l
    BY <2>1
  <2>3. (x + 1) + 1 = x + 2 /\ (x + 1) + 2 = x + 3 /\ (x + 1) + 3 = x + 4
    BY <1>2
  <2>4. data[x + 1] = HighBit + a /\ data[(x + 1) + 1] = b /\ data[(x + 1) + 2] = c /\ data[(x + 1) + 3] = d
    BY <1>2, <2>1, <2>2, <2>3
  <2>5. IsLong(data, x + 1) /\ (HighBit + a) - HighBit = a
    BY <2>4, ByteSize DEF IsLong
  <2>6. LengthSize(data, x + 1) = 4
    BY <2>5 DEF LengthSize
  <2>7. ~(x + 1 > Len(data)) /\ ~((x + 1) + 4 > Len(data) + 1)
    BY <1>2, <2>1
  <2>8. LongLength(data, x + 1) = n
    BY <1>4, <2>4, <2>5 DEF LongLength
  <2>9. LengthAt(data, x + 1) = n
    BY <2>5, <2>6, <2>7, <2>8 DEF LengthAt
  <2> QED  BY <2>1, <2>6, <2>9
<1>5. \/ n < HighBit /\ s = <<n>>
      \/ \E a \in 0..(HighBit - 1), b, c, d \in Bytes :
           s = <<HighBit + a, b, c, d>> /\ n = ((a * Byte + b) * Byte + c) * Byte + d
  <2>1. \/ n < HighBit /\ EncodedLength(n) = <<n>>
        \/ \E a \in 0..(HighBit - 1), b, c, d \in Bytes :
             n >= HighBit /\ EncodedLength(n) = <<HighBit + a, b, c, d>> /\ n = ((a * Byte + b) * Byte + c) * Byte + d
    BY LengthEncoded
  <2> QED  BY <1>1, <2>1, Zenon
<1>6. LengthSize(data, x + 1) = l /\ LengthAt(data, x + 1) = n
  <2>1. CASE n < HighBit /\ s = <<n>>
    BY <1>1, <1>3, <2>1
  <2>2. CASE \E a \in 0..(HighBit - 1), b, c, d \in Bytes :
               s = <<HighBit + a, b, c, d>> /\ n = ((a * Byte + b) * Byte + c) * Byte + d
    BY <1>4, <2>2, Zenon
  <2> QED  BY <1>5, <2>1, <2>2, Zenon
<1> QED  BY <1>1, <1>6

\* And so is a pair.
LEMMA PairRead ==
  ASSUME NEW data \in Seq(Bytes), NEW x, NEW p \in Pair, IsAt(data, x, EncodedPair(p))
  PROVE  NextAt(data, x + 1) = x + Len(EncodedPair(p)) + 1 /\ PairAt(data, x + 1) = p /\ Len(EncodedPair(p)) \in Nat /\ Len(EncodedPair(p)) >= 2
<1>1. PICK a, b : a = p[1] /\ b = p[2]
  OBVIOUS
<1>2. p = <<a, b>> /\ Len(a) < HighBit * Byte * Byte * Byte /\ Len(b) < HighBit * Byte * Byte * Byte
  BY <1>1 DEF Pair
<1>3. PICK e, f : e = EncodedLength(Len(a)) /\ f = EncodedLength(Len(b))
  OBVIOUS
<1>4. a \in Seq(Bytes) /\ b \in Seq(Bytes) /\ e \in Seq(Bytes) /\ f \in Seq(Bytes) /\ Len(a) \in Nat /\ Len(b) \in Nat
  BY <1>1, <1>3, PairBytes
<1>5. PICK g, h : g = e \o f /\ h = g \o a
  OBVIOUS
<1>6. PICK k, l, m, n : k = Len(e) /\ l = Len(f) /\ m = Len(a) /\ n = Len(b)
  OBVIOUS
<1>7. k \in Nat /\ l \in Nat /\ m \in Nat /\ n \in Nat /\ k >= 1 /\ l >= 1
  <2>1. k \in {1, 4} /\ l \in {1, 4}
    BY <1>2, <1>3, <1>4, <1>6, LengthBytes
  <2> QED  BY <1>4, <1>6, <2>1
<1>8. g \in Seq(Bytes) /\ Len(g) = k + l
  BY <1>4, <1>5, <1>6, ConcatProperties
<1>9. h \in Seq(Bytes) /\ Len(h) = k + l + m
  BY <1>4, <1>5, <1>6, <1>8, ConcatProperties
<1>10. EncodedPair(p) = h \o b /\ Len(h \o b) = k + l + m + n
  <2>1. EncodedPair(p) = h \o b
    BY <1>1, <1>3, <1>5 DEF EncodedPair
  <2>2. b \in Seq(Bytes) /\ Len(b) = n /\ h \in Seq(Bytes)
    BY <1>4, <1>6, <1>9
  <2>3. Len(h \o b) = Len(h) + n
    BY <2>2, ConcatProperties
  <2> QED  BY <1>9, <2>1, <2>3
<1>11. IsAt(data, x, h) /\ IsAt(data, x + Len(h), b)
  BY <1>4, <1>9, <1>10, AtConcat
<1>12. IsAt(data, x, g) /\ IsAt(data, x + Len(g), a)
  BY <1>4, <1>5, <1>8, <1>11, AtConcat
<1>13. IsAt(data, x, e) /\ IsAt(data, x + Len(e), f)
  BY <1>4, <1>5, <1>12, AtConcat
<1>14. LengthSize(data, x + 1) = k /\ LengthAt(data, x + 1) = m
  BY <1>2, <1>3, <1>4, <1>6, <1>13, LengthRead
<1>15. LengthSize(data, (x + k) + 1) = l /\ LengthAt(data, (x + k) + 1) = n
  BY <1>2, <1>3, <1>4, <1>6, <1>13, LengthRead
<1>16. x \in Nat /\ x + k + l + m + n <= Len(data) /\ Len(data) \in Nat
  <2>1. x \in Nat
    BY <1>13 DEF IsAt
  <2>2. (x + Len(h)) + Len(b) <= Len(data)
    BY <1>11 DEF IsAt
  <2>3. PICK y : y = Len(h)
    OBVIOUS
  <2> QED  BY <1>6, <1>7, <1>9, <2>1, <2>2, <2>3
<1>17. ValueLengthAt(data, x + 1) = (x + k) + 1
  BY <1>7, <1>14, <1>16 DEF ValueLengthAt
<1>18. NameAt(data, x + 1) = x + k + l + 1
  <2>1. ~((x + k) + 1 > Len(data))
    BY <1>7, <1>16
  <2>2. NameAt(data, x + 1) = ((x + k) + 1) + l
    BY <1>15, <1>17, <2>1 DEF NameAt
  <2> QED  BY <1>7, <1>16, <2>2
<1>19. NextAt(data, x + 1) = x + k + l + m + n + 1
  <2>1. NextAt(data, x + 1) = (x + k + l + 1) + m + n
    BY <1>14, <1>15, <1>17, <1>18 DEF NextAt
  <2> QED  BY <1>7, <1>16, <2>1
<1>20. SubSeq(data, x + k + l + 1, x + k + l + m) = a
  <2>1. PICK y : y = x + k + l
    OBVIOUS
  <2>2. x + Len(g) = y
    BY <1>7, <1>8, <1>16, <2>1
  <2>3. SubSeq(data, y + 1, y + Len(a)) = a
    BY <1>4, <1>12, <2>2, AtPiece
  <2> QED  BY <1>6, <2>1, <2>3
<1>21. SubSeq(data, x + k + l + m + 1, x + k + l + m + n) = b
  <2>1. PICK y : y = x + k + l + m
    OBVIOUS
  <2>2. x + Len(h) = y
    BY <1>7, <1>9, <1>16, <2>1
  <2>3. SubSeq(data, y + 1, y + Len(b)) = b
    BY <1>4, <1>11, <2>2, AtPiece
  <2> QED  BY <1>6, <2>1, <2>3
<1>22. PairAt(data, x + 1) = <<a, b>>
  <2>1. PICK v, w : v = x + k + l + 1 /\ w = x + k + l + m + 1
    OBVIOUS
  <2>2. v + m = w /\ w - 1 = x + k + l + m /\ NextAt(data, x + 1) - 1 = x + k + l + m + n
    BY <1>7, <1>16, <1>19, <2>1
  <2>3. NameAt(data, x + 1) = v
    BY <1>18, <2>1
  <2>4. NameAt(data, x + 1) + LengthAt(data, x + 1) = w
    BY <1>14, <2>2, <2>3
  <2>5. PairAt(data, x + 1) = <<SubSeq(data, v, w - 1), SubSeq(data, w, NextAt(data, x + 1) - 1)>>
    BY <2>3, <2>4 DEF PairAt
  <2> QED  BY <1>20, <1>21, <2>1, <2>2, <2>5
<1>23. NextAt(data, x + 1) = x + Len(EncodedPair(p)) + 1 /\ Len(EncodedPair(p)) \in Nat /\ Len(EncodedPair(p)) >= 2
  <2>1. Len(EncodedPair(p)) = k + l + m + n
    BY <1>10
  <2> QED  BY <1>7, <1>16, <1>19, <2>1
<1> QED  BY <1>2, <1>22, <1>23

\* data consists of c pairs, which end at these places.
ArePairs(data, c, pos, pair) ==
  /\ c \in Nat /\ pos \in [0..c -> Nat] /\ pos[0] = 0 /\ pos[c] = Len(data)
  /\ \A i \in 1..c : /\ pair[i] \in Pair /\ pos[i] = pos[i - 1] + Len(EncodedPair(pair[i]))
                     /\ IsAt(data, pos[i - 1], EncodedPair(pair[i]))

LEMMA ParametersRead ==
  ASSUME NEW data \in Seq(Bytes), NEW c, NEW pos, NEW pair, ArePairs(data, c, pos, pair)
  PROVE  Parameters(data) = {pair[i] : i \in 1..c}
<1>1. PICK N : N = Len(data)
  OBVIOUS
<1>2. /\ N \in Nat /\ c \in Nat /\ pos \in [0..c -> Nat] /\ pos[0] = 0 /\ pos[c] = N
      /\ \A i \in 1..c : /\ pair[i] \in Pair /\ pos[i] = pos[i - 1] + Len(EncodedPair(pair[i]))
                         /\ IsAt(data, pos[i - 1], EncodedPair(pair[i]))
  BY <1>1 DEF ArePairs
<1>3. ASSUME NEW i \in 1..c
      PROVE  /\ NextAt(data, pos[i - 1] + 1) = pos[i] + 1 /\ PairAt(data, pos[i - 1] + 1) = pair[i]
             /\ pos[i] >= pos[i - 1] + 2 /\ pos[i - 1] \in Nat /\ pos[i] \in Nat /\ pos[i] <= N
  <2>1. PICK x, l, p : x = pos[i - 1] /\ p = pair[i] /\ l = Len(EncodedPair(p))
    OBVIOUS
  <2>2. p \in Pair /\ IsAt(data, x, EncodedPair(p)) /\ pos[i] = x + l
    BY <1>2, <2>1
  <2>3. NextAt(data, x + 1) = x + l + 1 /\ PairAt(data, x + 1) = p /\ l \in Nat /\ l >= 2
    BY <2>1, <2>2, PairRead
  <2>4. x \in Nat /\ x + l <= N
    BY <1>1, <2>1, <2>2 DEF IsAt
  <2> QED  BY <2>1, <2>2, <2>3, <2>4
<1> DEFINE T == {k \in 0..c : pos[k] >= k /\ pos[k] <= N /\ \A j \in 0..k : j < k => pos[j] < pos[k]}
           Eqn(f) == f = [k \in 0..N |-> IF k = 0 THEN 1 ELSE IF f[k - 1] > N THEN f[k - 1] ELSE NextAt(data, f[k - 1])]
           Place(k) == IF k <= c THEN pos[k] + 1 ELSE N + 1
<1>4. \A k \in 0..c : pos[k] \in Nat /\ pos[k] >= k /\ pos[k] <= N /\ \A j \in 0..k : j < k => pos[j] < pos[k]
  <2>1. 0 \in T
    <3>1. \A j \in 0..0 : ~(j < 0)
      OBVIOUS
    <3> QED  BY <1>2, <3>1
  <2>2. ASSUME NEW k \in 1..c, k - 1 \in T  PROVE k \in T
    <3>1. PICK x, y : x = pos[k - 1] /\ y = pos[k]
      OBVIOUS
    <3>2. x \in Nat /\ y \in Nat /\ y >= x + 2 /\ y <= N /\ x >= k - 1
      BY <1>3, <2>2, <3>1
    <3>3. y >= k
      BY <3>2
    <3>4. \A j \in 0..k : j < k => pos[j] < y
      <4> SUFFICES ASSUME NEW j \in 0..k, j < k  PROVE pos[j] < y
        OBVIOUS
      <4>1. j \in 0..(k - 1) /\ (j < k - 1 \/ j = k - 1) /\ j \in 0..c
        BY <1>2
      <4>2. pos[j] \in Nat
        BY <1>2, <4>1
      <4>3. pos[j] < x \/ pos[j] = x
        BY <2>2, <3>1, <4>1
      <4> QED  BY <3>2, <4>2, <4>3
    <3>5. k \in 0..c
      BY <1>2
    <3> QED  BY <3>1, <3>2, <3>3, <3>4, <3>5
  <2>3. 0..c \subseteq T
    <3> HIDE DEF T
    <3> QED  BY <1>2, <2>1, <2>2, BoundedInduction
  <2> QED  BY <1>2, <2>3
<1>5. c <= N
  <2>1. c \in 0..c
    BY <1>2
  <2>2. pos[c] >= c
    BY <1>4, <2>1
  <2> QED  BY <1>2, <2>2
<1>6. /\ Place(0) = 1 /\ \A k \in 0..N : Place(k) \in Nat
      /\ \A k \in 1..N : Place(k) = IF Place(k - 1) > N THEN Place(k - 1) ELSE NextAt(data, Place(k - 1))
  <2>1. Place(0) = 1 /\ \A k \in 0..N : Place(k) \in Nat
    <3>1. 0 <= c /\ 0 + 1 = 1
      BY <1>2
    <3>2. ASSUME NEW k \in 0..N  PROVE Place(k) \in Nat
      <4>1. k <= c => k \in 0..c
        OBVIOUS
      <4> QED  BY <1>2, <1>4, <4>1
    <3> QED  BY <1>2, <3>1, <3>2
  <2>2. ASSUME NEW k \in 1..N, k <= c  PROVE Place(k) = IF Place(k - 1) > N THEN Place(k - 1) ELSE NextAt(data, Place(k - 1))
    <3>1. k \in 1..c /\ k - 1 <= c
      BY <1>2, <2>2
    <3>2. Place(k) = pos[k] + 1 /\ Place(k - 1) = pos[k - 1] + 1
      BY <2>2, <3>1
    <3>3. PICK x, y : x = pos[k - 1] /\ y = pos[k]
      OBVIOUS
    <3>4. x \in Nat /\ y \in Nat /\ y <= N /\ y >= x + 2 /\ NextAt(data, x + 1) = y + 1
      BY <1>3, <3>1, <3>3
    <3>5. ~(x + 1 > N)
      BY <1>2, <3>4
    <3> HIDE DEF Place
    <3> QED  BY <3>2, <3>3, <3>4, <3>5
  <2>3. ASSUME NEW k \in 1..N, ~(k <= c)  PROVE Place(k) = IF Place(k - 1) > N THEN Place(k - 1) ELSE NextAt(data, Place(k - 1))
    <3>1. Place(k) = N + 1
      BY <2>3
    <3>2. Place(k - 1) = N + 1
      <4>1. CASE k - 1 <= c
        <5>1. k - 1 = c
          BY <1>2, <2>3, <4>1
        <5>2. Place(k - 1) = pos[k - 1] + 1
          BY <4>1
        <5> QED  BY <1>2, <5>1, <5>2
      <4>2. CASE ~(k - 1 <= c)
        BY <4>2
      <4> QED  BY <4>1, <4>2
    <3> HIDE DEF Place
    <3> QED  BY <1>2, <3>1, <3>2
  <2> QED  BY <2>1, <2>2, <2>3
<1> HIDE DEF Place
<1>7. PICK at : at = CHOOSE f : Eqn(f)
  OBVIOUS
<1>8. Eqn(at)
  <2>1. PICK g : g = [k \in 0..N |-> Place(k)]
    OBVIOUS
  <2>2. \A k \in 0..N : g[k] = IF k = 0 THEN 1 ELSE IF g[k - 1] > N THEN g[k - 1] ELSE NextAt(data, g[k - 1])
    <3> SUFFICES ASSUME NEW k \in 0..N
                 PROVE  g[k] = IF k = 0 THEN 1 ELSE IF g[k - 1] > N THEN g[k - 1] ELSE NextAt(data, g[k - 1])
      OBVIOUS
    <3>1. CASE k = 0
      BY <1>6, <2>1, <3>1
    <3>2. CASE k # 0
      <4>1. k \in 1..N /\ k - 1 \in 0..N
        BY <1>2, <3>2
      <4>2. g[k] = Place(k) /\ g[k - 1] = Place(k - 1)
        BY <2>1, <4>1
      <4>3. Place(k) = IF Place(k - 1) > N THEN Place(k - 1) ELSE NextAt(data, Place(k - 1))
        BY <1>6, <4>1
      <4> QED  BY <3>2, <4>2, <4>3
    <3> QED  BY <3>1, <3>2
  <2>3. g = [k \in 0..N |-> g[k]]
    BY <2>1
  <2>4. Eqn(g)
    BY <2>2, <2>3
  <2> HIDE DEF Eqn
  <2> QED  BY <1>7, <2>4
<1>9. \A k \in 0..N : at[k] = IF k = 0 THEN 1 ELSE IF at[k - 1] > N THEN at[k - 1] ELSE NextAt(data, at[k - 1])
  BY <1>8, Zenon
<1>10. \A k \in 0..N : at[k] = Place(k)
  <2> DEFINE U == {k \in 0..N : at[k] = Place(k)}
  <2>1. 0 \in U
    <3>1. 0 \in 0..N
      BY <1>2
    <3> QED  BY <1>6, <1>9, <3>1
  <2>2. ASSUME NEW k \in 1..N, k - 1 \in U  PROVE k \in U
    <3>1. k \in 0..N /\ k # 0
      BY <1>2
    <3>2. at[k] = IF at[k - 1] > N THEN at[k - 1] ELSE NextAt(data, at[k - 1])
      BY <1>9, <3>1
    <3>3. at[k - 1] = Place(k - 1)
      BY <2>2
    <3>4. Place(k) = IF Place(k - 1) > N THEN Place(k - 1) ELSE NextAt(data, Place(k - 1))
      BY <1>6
    <3> QED  BY <3>1, <3>2, <3>3, <3>4
  <2>3. 0..N \subseteq U
    <3> HIDE DEF U
    <3> QED  BY <1>2, <2>1, <2>2, BoundedInduction
  <2> QED  BY <2>3
<1>11. PICK starts : starts = {at[k] : k \in 0..N}
  OBVIOUS
<1>12. Parameters(data) = IF \E i \in starts : i > N + 1 THEN Overrun ELSE {PairAt(data, i) : i \in starts \ {N + 1}}
  BY <1>1, <1>7, <1>11 DEF Parameters
<1>13. \A i \in starts : ~(i > N + 1) /\ (i = N + 1 \/ \E k \in 1..c : i = pos[k - 1] + 1)
  <2> SUFFICES ASSUME NEW k \in 0..N
               PROVE  ~(Place(k) > N + 1) /\ (Place(k) = N + 1 \/ \E j \in 1..c : Place(k) = pos[j - 1] + 1)
    BY <1>10, <1>11
  <2>1. CASE k < c
    <3>1. k \in 0..c /\ k + 1 \in 1..c /\ (k + 1) - 1 = k /\ Place(k) = pos[k] + 1
      BY <1>2, <2>1 DEF Place
    <3>2. pos[k] \in Nat /\ pos[k] <= N
      BY <1>4, <3>1
    <3>3. ~(Place(k) > N + 1)
      <4>1. PICK x : x = pos[k]
        OBVIOUS
      <4>2. ~(x + 1 > N + 1)
        BY <1>2, <3>2, <4>1
      <4> QED  BY <3>1, <4>1, <4>2
    <3>4. \E j \in 1..c : Place(k) = pos[j - 1] + 1
      <4>1. PICK j \in 1..c : j = k + 1
        BY <3>1
      <4>2. j - 1 = k
        BY <4>1
      <4> QED  BY <3>1, <4>2
    <3> QED  BY <3>3, <3>4
  <2>2. CASE ~(k < c)
    <3>1. Place(k) = N + 1
      BY <1>2, <2>2 DEF Place
    <3> QED  BY <1>2, <3>1
  <2> QED  BY <2>1, <2>2
<1>14. \A k \in 1..c : pos[k - 1] + 1 \in starts \ {N + 1} /\ PairAt(data, pos[k - 1] + 1) = pair[k]
  <2> SUFFICES ASSUME NEW k \in 1..c  PROVE pos[k - 1] + 1 \in starts \ {N + 1} /\ PairAt(data, pos[k - 1] + 1) = pair[k]
    OBVIOUS
  <2>1. k - 1 \in 0..N /\ k - 1 <= c
    BY <1>2, <1>5
  <2>2. at[k - 1] = pos[k - 1] + 1
    BY <1>10, <2>1 DEF Place
  <2>3. pos[k - 1] \in Nat /\ pos[k] <= N /\ pos[k] >= pos[k - 1] + 2 /\ pos[k] \in Nat
    BY <1>3
  <2>4. pos[k - 1] + 1 # N + 1
    <3>1. PICK x, y : x = pos[k - 1] /\ y = pos[k]
      OBVIOUS
    <3>2. x \in Nat /\ y \in Nat /\ y <= N /\ y >= x + 2
      BY <2>3, <3>1
    <3>3. N \in Nat
      BY <1>2
    <3>4. x + 1 # N + 1
      BY ONLY <3>2, <3>3
    <3> QED  BY <3>1, <3>4
  <2>5. PairAt(data, pos[k - 1] + 1) = pair[k]
    BY <1>3
  <2> QED  BY <1>11, <2>1, <2>2, <2>4, <2>5
<1>15. {PairAt(data, i) : i \in starts \ {N + 1}} = {pair[i] : i \in 1..c}
  <2>1. \A i \in starts \ {N + 1} : \E k \in 1..c : PairAt(data, i) = pair[k]
    BY <1>13, <1>14
  <2>2. \A k \in 1..c : \E i \in starts \ {N + 1} : PairAt(data, i) = pair[k]
    BY <1>14
  <2> QED  BY <2>1, <2>2
<1> QED  BY <1>12, <1>13, <1>15

\* The parameters one behind the other, and where each of them ends.
PairSeqs == [k \in 1..Len(Headers) |-> EncodedPair(Headers[k])]
PairEnd == CHOOSE end \in [0..Len(Headers) -> Nat] : IsLayout(ParameterBytes, PairSeqs, end)

LEMMA PairSize ==
  ASSUME NEW p \in Pair
  PROVE  EncodedPair(p) \in Seq(Bytes) /\ Len(EncodedPair(p)) \in Nat /\ Len(EncodedPair(p)) >= 2
<1>1. PICK s, x : s = EncodedPair(p) /\ x = 0
  OBVIOUS
<1>2. s \in Seq(Bytes)
  BY <1>1, PairBytes
<1>3. x \in Nat /\ x + Len(s) <= Len(s) /\ \A i \in 1..Len(s) : s[x + i] = s[i]
  BY <1>1, <1>2
<1>4. IsAt(s, x, EncodedPair(p))
  BY <1>1, <1>3 DEF IsAt
<1> QED  BY <1>1, <1>2, <1>4, PairRead

LEMMA PairSeqsType ==
  /\ Len(Headers) \in Nat /\ PairSeqs \in Seq(Seq(Bytes)) /\ Len(PairSeqs) = Len(Headers)
  /\ \A k \in 1..Len(Headers) : PairSeqs[k] = EncodedPair(Headers[k]) /\ Headers[k] \in Pair
<1>1. Len(Headers) \in Nat /\ \A k \in 1..Len(Headers) : Headers[k] \in Pair
  BY HeadersType
<1>2. PICK n, s : n = Len(Headers) /\ s = PairSeqs
  OBVIOUS
<1>3. s = [k \in 1..n |-> EncodedPair(Headers[k])]
  BY <1>2 DEF PairSeqs
<1>4. \A k \in 1..n : s[k] = EncodedPair(Headers[k]) /\ s[k] \in Seq(Bytes)
  BY <1>1, <1>2, <1>3, PairSize
<1>5. s \in [1..n -> Seq(Bytes)]
  BY <1>3, <1>4
<1>6. s \in Seq(Seq(Bytes)) /\ Len(s) = n
  BY <1>1, <1>2, <1>5
<1> QED  BY <1>1, <1>2, <1>4, <1>6

LEMMA PairEndOK ==
  /\ PairEnd \in [0..Len(Headers) -> Nat] /\ IsLayout(ParameterBytes, PairSeqs, PairEnd)
  /\ ParameterBytes \in Seq(Bytes) /\ Len(ParameterBytes) \in Nat
  /\ PairEnd[0] = 0 /\ PairEnd[Len(Headers)] = Len(ParameterBytes)
<1>1. ParameterBytes = FlattenSeq(PairSeqs)
  BY DEF ParameterBytes, PairSeqs
<1>2. ParameterBytes \in Seq(Bytes) /\ \E end \in [0..Len(Headers) -> Nat] : IsLayout(ParameterBytes, PairSeqs, end)
  BY <1>1, PairSeqsType, FlattenLayout
<1>3. PairEnd \in [0..Len(Headers) -> Nat] /\ IsLayout(ParameterBytes, PairSeqs, PairEnd)
  BY <1>2 DEF PairEnd
<1> QED  BY <1>2, <1>3, PairSeqsType DEF IsLayout

LEMMA PairEndOrder ==
  \A k \in 0..Len(Headers) : /\ PairEnd[k] \in Nat /\ PairEnd[k] <= Len(ParameterBytes)
                             /\ \A j \in 0..k : PairEnd[j] <= PairEnd[k] /\ (j < k => PairEnd[j] < PairEnd[k])
<1>1. PICK n, e : n = Len(Headers) /\ e = PairEnd
  OBVIOUS
<1>2. n \in Nat /\ e \in [0..n -> Nat] /\ e[n] = Len(ParameterBytes)
  BY <1>1, PairSeqsType, PairEndOK
<1>3. \A j, k \in 0..n : j <= k => e[j] <= e[k]
  BY <1>1, PairSeqsType, PairEndOK, LayoutOrder
<1>4. \A k \in 1..n : e[k] = e[k - 1] + Len(PairSeqs[k]) /\ Len(PairSeqs[k]) \in Nat /\ Len(PairSeqs[k]) >= 2
  <2>1. \A k \in 1..n : e[k] = e[k - 1] + Len(PairSeqs[k])
    BY <1>1, PairSeqsType, PairEndOK DEF IsLayout
  <2> QED  BY <1>1, <2>1, PairSeqsType, PairSize
<1>5. ASSUME NEW k \in 0..n, NEW j \in 0..k, j < k  PROVE e[j] < e[k]
  <2>1. k \in 1..n /\ k - 1 \in 0..n /\ j \in 0..n /\ j <= k - 1
    BY <1>2, <1>5
  <2>2. PICK x, y, z, l : x = e[j] /\ y = e[k - 1] /\ z = e[k] /\ l = Len(PairSeqs[k])
    OBVIOUS
  <2>3. x \in Nat /\ y \in Nat /\ x <= y /\ z = y + l /\ l \in Nat /\ l >= 2
    BY <1>2, <1>3, <1>4, <2>1, <2>2
  <2>4. x < z
    BY <2>3
  <2> QED  BY <2>2, <2>4
<1>6. \A k \in 0..n : /\ e[k] \in Nat /\ e[k] <= e[n]
                      /\ \A j \in 0..k : e[j] <= e[k]
  <2> SUFFICES ASSUME NEW k \in 0..n  PROVE e[k] \in Nat /\ e[k] <= e[n] /\ \A j \in 0..k : e[j] <= e[k]
    OBVIOUS
  <2>1. n \in 0..n /\ k <= n /\ \A j \in 0..k : j \in 0..n /\ j <= k
    BY <1>2
  <2>2. e[k] \in Nat
    BY <1>2
  <2> QED  BY <1>3, <2>1, <2>2
<1> QED  BY <1>1, <1>2, <1>5, <1>6

\* The ends that the web server may cut the parameters at.
LEMMA EndsArePairEnds == PairEnds = {PairEnd[j] : j \in 0..Len(Headers)}
<1>1. PICK n, e : n = Len(Headers) /\ e = PairEnd
  OBVIOUS
<1>2. n \in Nat /\ e \in [0..n -> Nat] /\ e[0] = 0 /\ \A k \in 1..n : e[k] = e[k - 1] + Len(EncodedPair(Headers[k]))
  <2>1. e[0] = 0 /\ \A k \in 1..n : e[k] = e[k - 1] + Len(PairSeqs[k])
    BY <1>1, PairSeqsType, PairEndOK DEF IsLayout
  <2> QED  BY <1>1, <2>1, PairSeqsType, PairEndOK
<1>3. ASSUME NEW j \in 0..n  PROVE Len(FlattenSeq([k \in 1..j |-> EncodedPair(Headers[k])])) = e[j]
  <2>1. PICK s : s = [k \in 1..j |-> EncodedPair(Headers[k])]
    OBVIOUS
  <2>2. j \in Nat /\ \A k \in 1..j : k \in 1..n
    BY <1>2
  <2>3. \A k \in 1..j : s[k] \in Seq(Bytes) /\ s[k] = EncodedPair(Headers[k])
    BY <1>1, <2>1, <2>2, PairSeqsType, PairSize
  <2>4. s \in [1..j -> Seq(Bytes)]
    BY <2>1, <2>3
  <2>5. s \in Seq(Seq(Bytes)) /\ Len(s) = j
    BY <2>2, <2>4
  <2>6. PICK f \in [0..j -> Nat] : IsLayout(FlattenSeq(s), s, f)
    BY <2>5, FlattenLayout
  <2>7. f[0] = 0 /\ f[j] = Len(FlattenSeq(s)) /\ \A k \in 1..j : f[k] = f[k - 1] + Len(EncodedPair(Headers[k]))
    BY <2>3, <2>5, <2>6 DEF IsLayout
  <2>8. f[j] = e[j]
    <3> DEFINE T == {k \in 0..j : f[k] = e[k]}
    <3>1. 0 \in T
      BY <1>2, <2>2, <2>7
    <3>2. ASSUME NEW k \in 1..j, k - 1 \in T  PROVE k \in T
      <4>1. f[k] = f[k - 1] + Len(EncodedPair(Headers[k])) /\ e[k] = e[k - 1] + Len(EncodedPair(Headers[k])) /\ f[k - 1] = e[k - 1]
        BY <1>2, <2>2, <2>7, <3>2
      <4>2. f[k] = e[k]
        BY <4>1, Zenon
      <4>3. k \in 0..j
        BY <2>2
      <4> QED  BY <4>2, <4>3
    <3>3. 0..j \subseteq T
      <4> HIDE DEF T
      <4> QED  BY <2>2, <3>1, <3>2, BoundedInduction
    <3>4. j \in 0..j
      BY <2>2
    <3> QED  BY <3>3, <3>4
  <2> QED  BY <2>1, <2>7, <2>8
<1> QED  BY <1>1, <1>3 DEF PairEnds

\* The parameters in the bytes between two of these ends.
LEMMA ChunkRead ==
  ASSUME NEW j \in 0..Len(Headers), NEW k \in 0..Len(Headers), j <= k
  PROVE  Parameters(SubSeq(ParameterBytes, PairEnd[j] + 1, PairEnd[k])) = {Headers[i] : i \in (j + 1)..k}
<1>1. PICK n, e, B, x, y, c : n = Len(Headers) /\ e = PairEnd /\ B = ParameterBytes /\ x = e[j] /\ y = e[k] /\ c = k - j
  OBVIOUS
<1>2. n \in Nat /\ e \in [0..n -> Nat] /\ B \in Seq(Bytes) /\ j \in 0..n /\ k \in 0..n /\ c \in Nat /\ Len(B) \in Nat
  BY <1>1, PairSeqsType, PairEndOK
<1>3. x \in Nat /\ y \in Nat /\ x <= y /\ y <= Len(B)
  <2>1. j \in 0..k
    OBVIOUS
  <2> QED  BY <1>1, <2>1, PairEndOrder
<1>4. PICK data : data = SubSeq(B, x + 1, y)
  OBVIOUS
<1>5. data \in Seq(Bytes) /\ Len(data) = y - x /\ \A i \in 1..(y - x) : data[i] = B[x + i]
  BY <1>2, <1>3, <1>4, Piece
<1>6. PICK pos, pair : pos = [i \in 0..c |-> e[j + i] - x] /\ pair = [i \in 1..c |-> Headers[j + i]]
  OBVIOUS
<1>7. \A i \in 0..c : /\ j + i \in 0..n /\ e[j + i] \in Nat /\ x <= e[j + i] /\ e[j + i] <= y
                      /\ pos[i] = e[j + i] - x /\ pos[i] \in Nat
  <2> SUFFICES ASSUME NEW i \in 0..c
               PROVE  /\ j + i \in 0..n /\ e[j + i] \in Nat /\ x <= e[j + i] /\ e[j + i] <= y
                      /\ pos[i] = e[j + i] - x /\ pos[i] \in Nat
    OBVIOUS
  <2>1. PICK h : h = j + i
    OBVIOUS
  <2>2. h \in 0..n /\ j \in 0..h /\ h \in 0..k
    BY <1>1, <1>2, <2>1
  <2>3. e[h] \in Nat /\ x <= e[h] /\ e[h] <= y
    BY <1>1, <1>2, <2>2, PairEndOrder
  <2>4. pos[i] = e[h] - x
    BY <1>6, <2>1
  <2>5. PICK z : z = e[h]
    OBVIOUS
  <2>6. z - x \in Nat
    BY <1>3, <2>3, <2>5
  <2> QED  BY <2>1, <2>2, <2>3, <2>4, <2>5, <2>6
<1>8. pos \in [0..c -> Nat] /\ pos[0] = 0 /\ pos[c] = Len(data)
  <2>1. 0 \in 0..c /\ c \in 0..c /\ j + 0 = j /\ j + c = k
    BY <1>1, <1>2
  <2>2. pos[0] = x - x /\ pos[c] = y - x
    BY <1>1, <1>7, <2>1
  <2> QED  BY <1>3, <1>5, <1>6, <1>7, <2>2
<1>9. ASSUME NEW i \in 1..c
      PROVE  /\ pair[i] \in Pair /\ pos[i] = pos[i - 1] + Len(EncodedPair(pair[i]))
             /\ IsAt(data, pos[i - 1], EncodedPair(pair[i]))
  <2>1. PICK h : h = j + i
    OBVIOUS
  <2>2. h \in 1..n /\ h - 1 \in 0..n /\ h \in 0..n /\ h - 1 = j + (i - 1) /\ i - 1 \in 0..c /\ i \in 0..c
    BY <1>1, <1>2, <2>1
  <2>3. pair[i] = Headers[h] /\ h \in 1..Len(Headers)
    BY <1>1, <1>6, <2>1, <2>2
  <2>4. PICK u, v, s, l : u = e[h - 1] /\ v = e[h] /\ s = EncodedPair(pair[i]) /\ l = Len(s)
    OBVIOUS
  <2>5. pair[i] \in Pair /\ s = PairSeqs[h] /\ l \in Nat
    BY <2>3, <2>4, PairSeqsType, PairSize
  <2>6. v = u + l /\ \A m \in 1..l : B[u + m] = s[m]
    <3>1. h \in 1..Len(PairSeqs) /\ IsLayout(B, PairSeqs, e)
      BY <1>1, <2>3, PairSeqsType, PairEndOK
    <3>2. e[h] = e[h - 1] + Len(PairSeqs[h]) /\ \A m \in 1..Len(PairSeqs[h]) : B[e[h - 1] + m] = PairSeqs[h][m]
      BY <3>1 DEF IsLayout
    <3> QED  BY <2>4, <2>5, <3>2
  <2>7. u \in Nat /\ v \in Nat /\ x <= u /\ v <= y
    BY <1>7, <2>1, <2>2, <2>4
  <2>8. PICK w : w = u - x
    OBVIOUS
  <2>9. w \in Nat /\ x + w = u /\ v - x = w + l /\ w + l <= y - x
    BY ONLY <1>3, <2>5, <2>6, <2>7, <2>8
  <2>10. pos[i - 1] = w /\ pos[i] = w + l
    <3>1. pos[i - 1] = e[h - 1] - x /\ pos[i] = e[h] - x
      BY <1>7, <2>1, <2>2
    <3> QED  BY <2>4, <2>8, <2>9, <3>1
  <2>11. \A m \in 1..l : data[w + m] = s[m]
    <3> SUFFICES ASSUME NEW m \in 1..l  PROVE data[w + m] = s[m]
      OBVIOUS
    <3>1. w + m \in 1..(y - x) /\ x + (w + m) = u + m
      BY ONLY <1>3, <2>5, <2>7, <2>9, m \in 1..l
    <3> QED  BY <1>5, <2>6, <3>1
  <2>12. w + l <= Len(data)
    BY <1>5, <2>9
  <2>13. IsAt(data, w, s)
    BY <2>4, <2>9, <2>11, <2>12 DEF IsAt
  <2> QED  BY <2>4, <2>5, <2>10, <2>13
<1>10. ArePairs(data, c, pos, pair)
  BY <1>2, <1>8, <1>9 DEF ArePairs
<1>11. Parameters(data) = {pair[i] : i \in 1..c}
  BY <1>5, <1>10, ParametersRead
<1>12. {pair[i] : i \in 1..c} = {Headers[i] : i \in (j + 1)..k}
  <2>1. ASSUME NEW i \in 1..c  PROVE \E m \in (j + 1)..k : pair[i] = Headers[m]
    <3>1. pair[i] = Headers[j + i]
      BY <1>6
    <3>2. j + i \in (j + 1)..k
      BY <1>1, <1>2
    <3> QED  BY <3>1, <3>2
  <2>2. ASSUME NEW i \in (j + 1)..k  PROVE \E m \in 1..c : Headers[i] = pair[m]
    <3>1. PICK m : m = i - j
      OBVIOUS
    <3>2. m \in 1..c /\ j + m = i
      BY <1>1, <1>2, <3>1
    <3>3. pair[m] = Headers[j + m]
      BY <1>6, <3>2
    <3> QED  BY <3>2, <3>3
  <2>3. {pair[i] : i \in 1..c} \subseteq {Headers[i] : i \in (j + 1)..k}
    BY ONLY <2>1, Zenon
  <2>4. {Headers[i] : i \in (j + 1)..k} \subseteq {pair[i] : i \in 1..c}
    BY ONLY <2>2, Zenon
  <2> QED  BY ONLY <2>3, <2>4, Zenon
<1> QED  BY <1>1, <1>4, <1>11, <1>12

\* What an FCGI client still has to send starts at the end of a pair, and the pairs before it are
\* the parameters that the request has; from its announcement on a request has all of them.
FirstPairs(k) == {Headers[i] : i \in 1..k}
Coming == request.phase \in {"begin", "params"}
PairsOK ==
  /\ link.transport = "FCGI" /\ ~broken /\ Coming /\ client.wholePairs =>
       \E k \in 0..Len(Headers) : /\ client.params = Rest(ParameterBytes, PairEnd[k])
                                  /\ request.params = FirstPairs(k)
  /\ ~Coming /\ client.wholePairs => request.params = ToSet(Headers)
RoleOK ==
  link.transport = "FCGI" /\ request.phase # "begin" =>
    /\ link.sent.roleB1 = 0 /\ link.sent.roleB0 = Roles.responder
    /\ request.closes <=> link.sent.flags % 2 = 0
AnswerOK ==
  \/ request.phase # "ended" /\ response.written = <<>> /\ response.records = <<>>
  \/ /\ request.phase = "ended" /\ response.records = Append(Written(response.written), EndRequest)
Records == Types /\ PairsOK /\ RoleOK /\ AnswerOK

LEMMA RecordsImply == Records => RecordsAsSent
<1> SUFFICES ASSUME Records  PROVE RecordsAsSent
  OBVIOUS
<1>1. request.phase \notin {"begin", "params"} /\ client.wholePairs => request.params = ToSet(Headers)
  BY DEF Records, PairsOK, Coming
<1>2. ASSUME link.transport = "FCGI"
      PROVE  /\ request.phase # "begin" => link.sent.roleB1 = 0 /\ link.sent.roleB0 = Roles.responder
                                            /\ (request.closes <=> link.sent.flags % 2 = 0)
             /\ Received(response.records) = response.written
             /\ request.phase = "ended" =>
                  /\ {k \in DOMAIN response.records : response.records[k].header.type = "end"} = {Len(response.records)}
                  /\ Last(response.records) = EndRequest
  <2>1. request.phase # "begin" => link.sent.roleB1 = 0 /\ link.sent.roleB0 = Roles.responder
                                   /\ (request.closes <=> link.sent.flags % 2 = 0)
    BY <1>2 DEF Records, RoleOK
  <2>2. CASE request.phase # "ended"
    <3>1. response.written = <<>> /\ response.records = <<>>
      BY <2>2 DEF Records, AnswerOK
    <3> QED  BY <2>1, <2>2, <3>1, NothingReceived
  <2>3. CASE request.phase = "ended"
    <3>1. response.records = Append(Written(response.written), EndRequest)
      BY <2>3 DEF Records, AnswerOK
    <3>2. PICK w, r : w = response.written /\ r = response.records
      OBVIOUS
    <3>3. w \in Seq(Nat)
      BY <3>2 DEF Records, Types, ResponseOK
    <3>4. r = Append(Written(w), EndRequest)
      BY <3>1, <3>2
    <3>5. Received(r) = w /\ Last(r) = EndRequest /\ {k \in DOMAIN r : r[k].header.type = "end"} = {Len(r)}
      BY <3>3, <3>4, ResponseWhole
    <3> QED  BY <2>1, <3>2, <3>5
  <2> QED  BY <2>2, <2>3
<1> QED  BY <1>1, <1>2, Zenon DEF RecordsAsSent

LEMMA AllPairs == ToSet(Headers) = FirstPairs(Len(Headers))
<1>1. DOMAIN Headers = 1..Len(Headers)
  BY HeadersType
<1> QED  BY <1>1 DEF ToSet, FirstPairs

LEMMA NoPairs == FirstPairs(0) = {}
<1>1. 1..0 = {}
  OBVIOUS
<1> QED  BY <1>1 DEF FirstPairs

LEMMA InitRecords == Init => Records
<1> SUFFICES ASSUME Init  PROVE Records
  OBVIOUS
<1>1. Types /\ Idle
  BY InitTypes, Zenon DEF Init
<1>2. PairsOK
  <2>1. 0 \in 0..Len(Headers)
    BY PairSeqsType
  <2>2. Rest(ParameterBytes, PairEnd[0]) = ParameterBytes
    <3>1. PairEnd[0] = 0 /\ ParameterBytes \in Seq(Bytes)
      BY PairEndOK
    <3>2. PICK x : x = 0
      OBVIOUS
    <3>3. Rest(ParameterBytes, x) \in Seq(Bytes) /\ Len(Rest(ParameterBytes, x)) = Len(ParameterBytes)
          /\ \A m \in 1..Len(ParameterBytes) : Rest(ParameterBytes, x)[m] = ParameterBytes[m]
      <4>1. x \in 0..Len(ParameterBytes) /\ Len(ParameterBytes) - x = Len(ParameterBytes)
            /\ \A m \in 1..Len(ParameterBytes) : x + m = m
        BY <3>1, <3>2
      <4> QED  BY <3>1, <4>1, RestPiece
    <3>4. Rest(ParameterBytes, x) = ParameterBytes
      <4>1. PICK r, B : r = Rest(ParameterBytes, x) /\ B = ParameterBytes
        OBVIOUS
      <4>2. r \in Seq(Bytes) /\ B \in Seq(Bytes) /\ Len(r) = Len(B) /\ \A m \in 1..Len(B) : r[m] = B[m]
        BY <3>1, <3>3, <4>1
      <4>3. r = B
        BY ONLY <4>2
      <4> QED  BY <4>1, <4>3
    <3> QED  BY <3>1, <3>2, <3>4
  <2>3. client.params = Rest(ParameterBytes, PairEnd[0]) /\ request.params = FirstPairs(0)
    BY <1>1, <2>2, NoPairs DEF Idle
  <2>4. request.phase \in {"begin", "params"}
    BY <1>1 DEF Idle
  <2> QED  BY <2>1, <2>3, <2>4 DEF PairsOK, Coming
<1>3. RoleOK
  BY <1>1 DEF RoleOK, Idle
<1>4. AnswerOK
  BY <1>1 DEF AnswerOK, Idle
<1> QED  BY <1>1, <1>2, <1>3, <1>4 DEF Records

\* Steps that have nothing to do with the parameters or the response.
LEMMA RecordsFrame ==
  ASSUME Records, Types', link' = link, response' = response,
         client'.params = client.params, client'.wholePairs = client.wholePairs,
         request'.params = request.params, request'.closes = request.closes,
         \/ request'.phase = request.phase
         \/ request.phase \in {"announced", "responding"} /\ request'.phase \in {"announced", "responding"},
         broken => broken'
  PROVE  Records'
<1>1. PairsOK'
  BY DEF Records, PairsOK, Coming
<1>2. RoleOK'
  BY DEF Records, RoleOK
<1>3. AnswerOK'
  BY DEF Records, AnswerOK
<1> QED  BY <1>1, <1>2, <1>3 DEF Records

LEMMA ClientRecord ==
  ASSUME ClientOK
  PROVE  client = [params |-> client.params, body |-> client.body, wholePairs |-> client.wholePairs, wholeFields |-> client.wholeFields]
BY DEF ClientOK

LEMMA RequestRecord ==
  ASSUME RequestOK
  PROVE  request = [phase |-> request.phase, closes |-> request.closes, params |-> request.params, arrived |-> request.arrived,
                    position |-> request.position, reads |-> request.reads, signalled |-> request.signalled,
                    data |-> request.data, gaveUp |-> request.gaveUp]
BY DEF RequestOK

\* A role of two bytes is the responder's if it is its number.
LEMMA RoleBytes ==
  ASSUME NEW b \in BeginRequestBody, Role(b) = Roles.responder
  PROVE  b.roleB1 = 0 /\ b.roleB0 = Roles.responder
<1>1. PICK x, y, B : x = b.roleB1 /\ y = b.roleB0 /\ B = Byte
  OBVIOUS
<1>2. B \in Nat /\ B >= 4 /\ x \in Nat /\ y \in Nat /\ x * B + y = 1
  BY <1>1, ByteSize DEF BeginRequestBody, Role, Roles
<1>3. CASE x = 0
  BY <1>1, <1>2, <1>3 DEF Roles
<1>4. CASE x >= 1
  <2>1. x - 1 \in Nat
    BY <1>2, <1>4
  <2>2. PICK z \in Nat : z = x - 1
    BY <2>1
  <2>3. x = z + 1 /\ (z + 1) * B = z * B + B /\ z * B \in Nat
    BY ONLY <1>2, <2>2
  <2>4. PICK u \in Nat : u = z * B
    BY <2>3
  <2>5. x * B = u + B
    BY <2>3, <2>4
  <2> QED  BY ONLY <1>2, <2>5
<1> QED  BY <1>2, <1>3, <1>4

LEMMA SendBeginRecords == Records /\ Types' /\ SendBegin => Records'
<1> SUFFICES ASSUME Records, Types', SendBegin  PROVE Records'
  OBVIOUS
<1>1. LinkOK /\ ClientOK /\ RequestOK
  BY DEF Records, Types
<1>2. UNCHANGED <<link, client, response>> /\ link.transport = "FCGI" /\ ~broken /\ request.phase = "begin"
  BY DEF SendBegin, Over
<1>3. CASE broken' /\ request' = request
  BY <1>2, <1>3, RecordsFrame
<1>4. CASE ~broken' /\ request' = [request EXCEPT !.phase = "params", !.closes = ClosesSocket(link.sent)]
  <2>1. IsKnownRole(Role(link.sent)) /\ Role(link.sent) = Roles.responder
    BY <1>4 DEF SendBegin
  <2>2. PICK c : c = ClosesSocket(link.sent)
    OBVIOUS
  <2>3. PICK r : r = request'
    OBVIOUS
  <2>4. r.phase = "params" /\ r.closes = c /\ r.params = request.params
    <3>1. r = [request EXCEPT !.phase = "params", !.closes = c]
      BY <1>4, <2>2, <2>3
    <3> QED  BY <1>1, <3>1, RequestRecord
  <2>5. link.sent \in BeginRequestBody
    BY <1>1, <1>2, FormAssumption DEF LinkOK
  <2>6. link.sent.roleB1 = 0 /\ link.sent.roleB0 = Roles.responder
    BY <2>1, <2>5, RoleBytes
  <2>7. c <=> link.sent.flags % 2 = 0
    <3>1. PICK x \in Nat : x = link.sent.flags
      BY <2>5, ByteSize DEF BeginRequestBody
    <3>2. x % 2 \in {0, 1}
      BY <3>1
    <3>3. (x % (2 * 1) < 1) <=> x % 2 = 0
      BY <3>2
    <3> QED  BY <2>2, <3>1, <3>3 DEF ClosesSocket, KeepConnection
  <2>8. PairsOK'
    BY <1>2, <2>3, <2>4 DEF Records, PairsOK, Coming
  <2>9. RoleOK'
    BY <1>2, <2>3, <2>4, <2>6, <2>7 DEF RoleOK
  <2>10. AnswerOK'
    BY <1>2, <2>3, <2>4 DEF Records, AnswerOK
  <2> QED  BY <2>8, <2>9, <2>10 DEF Records
<1> QED  BY <1>3, <1>4 DEF SendBegin

\* The next record, from the end of one pair to the end of another.
IsCut(k, c, n) ==
  /\ k \in 0..Len(Headers) /\ c = Rest(ParameterBytes, PairEnd[k])
  /\ n \in 1..Len(c) /\ (Len(ParameterBytes) - Len(c)) + n \in PairEnds
LEMMA PairsCome ==
  ASSUME NEW k, NEW c, NEW n, IsCut(k, c, n)
  PROVE  \E j \in 0..Len(Headers) :
           /\ Rest(c, n) = Rest(ParameterBytes, PairEnd[j])
           /\ FirstPairs(k) \union Parameters(SubSeq(c, 1, n)) = FirstPairs(j)
<1> USE DEF IsCut
<1>1. PICK h, B, L, x : h = Len(Headers) /\ B = ParameterBytes /\ L = Len(B) /\ x = PairEnd[k]
  OBVIOUS
<1>2. h \in Nat /\ B \in Seq(Bytes) /\ L \in Nat /\ x \in Nat /\ x <= L /\ k \in 0..h
  BY <1>1, PairSeqsType, PairEndOK, PairEndOrder
<1>3. c = SubSeq(B, x + 1, L) /\ c \in Seq(Bytes) /\ Len(c) = L - x
  <2>1. c = SubSeq(B, x + 1, L)
    BY <1>1 DEF Rest
  <2>2. L <= Len(B)
    BY <1>1, <1>2
  <2> QED  BY <1>2, <2>1, <2>2, Piece
<1>4. PICK j \in 0..h : PairEnd[j] = (L - Len(c)) + n
  BY <1>1, EndsArePairEnds
<1>5. PICK y : y = PairEnd[j]
  OBVIOUS
<1>6. y = x + n /\ n \in Nat /\ n >= 1 /\ y <= L /\ y \in Nat /\ n <= L - x
  <2>1. PICK l : l = Len(c)
    OBVIOUS
  <2>2. l = L - x /\ n \in 1..l /\ y = (L - l) + n
    BY <1>3, <1>4, <1>5, <2>1
  <2> QED  BY ONLY <1>2, <2>2
<1>7. k < j
  <2>1. ASSUME j <= k  PROVE FALSE
    <3>1. j \in 0..k
      BY <1>2, <1>4, <2>1
    <3>2. y <= x
      BY <1>1, <1>5, <3>1, PairEndOrder
    <3> QED  BY ONLY <1>2, <1>6, <3>2
  <2> QED  BY <1>2, <1>4, <2>1
<1>8. Rest(c, n) = Rest(B, y)
  <2>1. PICK l : l = L - x
    OBVIOUS
  <2>2. l \in Nat /\ n <= l /\ l <= L - x /\ x + l = L /\ x <= L /\ L <= Len(B)
    <3>1. l \in Nat /\ n <= l /\ l <= L - x /\ x + l = L /\ x <= L
      BY ONLY <1>2, <1>6, <2>1
    <3>2. L <= Len(B)
      BY <1>1, <1>2
    <3> QED  BY <3>1, <3>2
  <2>3. SubSeq(SubSeq(B, x + 1, L), n + 1, l) = SubSeq(B, x + n + 1, x + l)
    BY <1>2, <1>6, <2>2, PieceOfPiece
  <2>4. SubSeq(c, n + 1, Len(c)) = SubSeq(B, y + 1, L)
    BY <1>3, <1>6, <2>1, <2>2, <2>3
  <2> QED  BY <1>1, <2>4 DEF Rest
<1>9. SubSeq(c, 1, n) = SubSeq(B, x + 1, y)
  <2>1. PICK z : z = 0
    OBVIOUS
  <2>2. z \in Nat /\ z <= n /\ n <= L - x /\ x + z = x /\ L <= Len(B) /\ z + 1 = 1
    BY <1>1, <1>2, <1>6, <2>1
  <2>3. SubSeq(SubSeq(B, x + 1, L), z + 1, n) = SubSeq(B, x + z + 1, x + n)
    BY <1>2, <1>6, <2>2, PieceOfPiece
  <2> QED  BY <1>3, <1>6, <2>2, <2>3
<1>10. Parameters(SubSeq(c, 1, n)) = {Headers[i] : i \in (k + 1)..j}
  <2>1. k <= j /\ k \in 0..Len(Headers) /\ j \in 0..Len(Headers)
    BY <1>1, <1>2, <1>4, <1>7
  <2>2. Parameters(SubSeq(ParameterBytes, PairEnd[k] + 1, PairEnd[j])) = {Headers[i] : i \in (k + 1)..j}
    BY <2>1, ChunkRead
  <2> QED  BY <1>1, <1>5, <1>9, <2>2
<1>11. FirstPairs(k) \union {Headers[i] : i \in (k + 1)..j} = FirstPairs(j)
  <2>1. 1..j = (1..k) \union ((k + 1)..j)
    BY <1>2, <1>4, <1>7
  <2> QED  BY ONLY <2>1, Zenon DEF FirstPairs
<1>12. /\ j \in 0..Len(Headers) /\ Rest(c, n) = Rest(ParameterBytes, PairEnd[j])
       /\ FirstPairs(k) \union Parameters(SubSeq(c, 1, n)) = FirstPairs(j)
  <2>1. j \in 0..Len(Headers) /\ Rest(c, n) = Rest(ParameterBytes, PairEnd[j])
    BY <1>1, <1>4, <1>5, <1>8
  <2> QED  BY <1>10, <1>11, <2>1, Zenon
<1> QED  BY <1>12, Zenon

LEMMA SendParametersRecords ==
  ASSUME Records, Types', NEW n \in 1..Len(client.params), NEW p \in Paddings, SendParameters(n, p)
  PROVE  Records'
<1>1. ClientOK /\ RequestOK
  BY DEF Records, Types
<1>2. UNCHANGED <<link, response>> /\ link.transport = "FCGI" /\ ~broken /\ request.phase = "params"
  BY DEF SendParameters, Over
<1>3. PICK c, r, w : c = client.params /\ r = Rest(c, n) /\ w = (client.wholePairs /\ Sent + n \in PairEnds)
  OBVIOUS
<1>4. client' = [client EXCEPT !.params = r, !.wholePairs = w]
  BY <1>3 DEF SendParameters
<1>5. client'.params = r /\ client'.wholePairs = w
  <2>1. PICK d : d = client'
    OBVIOUS
  <2>2. d.params = r /\ d.wholePairs = w
    BY <1>1, <1>4, <2>1, ClientRecord
  <2> QED  BY <2>1, <2>2
<1>6. PICK pairs : pairs = Parameters(SubSeq(client.params, 1, n))
  OBVIOUS
<1>7. \/ request' = request /\ broken'
      \/ ~broken' /\ request' = [request EXCEPT !.params = @ \union pairs]
  <2>1. request' = IF broken' THEN request ELSE [request EXCEPT !.params = @ \union pairs]
    BY <1>6, Zenon DEF SendParameters
  <2> QED  BY <2>1, Zenon
<1>8. request'.phase = "params" /\ request'.closes = request.closes
      /\ (~broken' => request'.params = request.params \union pairs)
  <2>1. CASE request' = request /\ broken'
    BY <1>2, <2>1
  <2>2. CASE request' = [request EXCEPT !.params = @ \union pairs]
    <3>1. PICK q, m : q = request' /\ m = request.params \union pairs
      OBVIOUS
    <3>2. q = [request EXCEPT !.params = m]
      BY <2>2, <3>1
    <3>3. q.phase = "params" /\ q.closes = request.closes /\ q.params = m
      BY <1>1, <1>2, <3>2, RequestRecord
    <3> QED  BY <3>1, <3>3
  <2> QED  BY <1>7, <2>1, <2>2
<1>9. PairsOK'
  <2>1. CASE broken' \/ ~w
    BY <1>5, <1>8, <2>1 DEF PairsOK, Coming
  <2>2. CASE ~broken' /\ w
    <3>1. client.wholePairs /\ Sent + n \in PairEnds
      BY <1>3, <2>2, Zenon
    <3>2. PICK k \in 0..Len(Headers) : c = Rest(ParameterBytes, PairEnd[k]) /\ request.params = FirstPairs(k)
      BY <1>2, <1>3, <3>1 DEF Records, PairsOK, Coming
    <3>3. IsCut(k, c, n)
      BY <1>3, <3>1, <3>2 DEF Sent, IsCut
    <3>4. PICK j \in 0..Len(Headers) :
            /\ Rest(c, n) = Rest(ParameterBytes, PairEnd[j])
            /\ FirstPairs(k) \union Parameters(SubSeq(c, 1, n)) = FirstPairs(j)
      BY <3>3, PairsCome
    <3>5. client'.params = Rest(ParameterBytes, PairEnd[j]) /\ request'.params = FirstPairs(j)
      BY <1>3, <1>5, <1>6, <1>8, <2>2, <3>2, <3>4
    <3> QED  BY <1>8, <3>5 DEF PairsOK, Coming
  <2> QED  BY <2>1, <2>2
<1>10. RoleOK'
  BY <1>2, <1>8 DEF Records, RoleOK
<1>11. AnswerOK'
  BY <1>2, <1>8 DEF Records, AnswerOK
<1> QED  BY <1>9, <1>10, <1>11 DEF Records

\* The request is announced: its parameters are what the transport made of them.
LEMMA AnnouncedRecords ==
  ASSUME Records, Types', NEW n \in 0..Len(client.body), NEW params,
         link' = link, response' = response, broken' = broken, ~broken, request.phase = "params",
         request' = [Arrived(n, "announced") EXCEPT !.params = params],
         client' = [BodyAfter(n) EXCEPT !.params = <<>>],
         client.wholePairs => params = ToSet(Headers)
  PROVE  Records'
<1>1. ClientOK /\ RequestOK
  BY DEF Records, Types
<1>2. "announced" \in Phases
  BY DEF Phases
<1>3. PICK a, s, A : a = request.arrived \o SubSeq(client.body, 1, n) /\ s = Arrived(n, "announced").signalled
                     /\ A = Arrived(n, "announced")
  OBVIOUS
<1>4. A = [request EXCEPT !.phase = "announced", !.arrived = a, !.signalled = s]
  BY <1>1, <1>2, <1>3, ArrivedTypes
<1>5. request'.phase = "announced" /\ request'.closes = request.closes /\ request'.params = params
  <2>1. PICK q : q = request'
    OBVIOUS
  <2>2. q = [A EXCEPT !.params = params]
    BY <1>3, <2>1
  <2>3. A = [phase |-> "announced", closes |-> request.closes, params |-> request.params, arrived |-> a,
             position |-> request.position, reads |-> request.reads, signalled |-> s,
             data |-> request.data, gaveUp |-> request.gaveUp]
    BY <1>1, <1>4, RequestRecord
  <2>4. q.phase = "announced" /\ q.closes = request.closes /\ q.params = params
    BY <2>2, <2>3
  <2> QED  BY <2>1, <2>4
<1>6. client'.wholePairs = client.wholePairs
  <2>1. PICK b, w : BodyAfter(n) = [params |-> client.params, body |-> b, wholePairs |-> client.wholePairs, wholeFields |-> w]
    <3>1. BodyAfter(n) \in [params : {client.params}, body : {Rest(client.body, n)}, wholePairs : {client.wholePairs}, wholeFields : BOOLEAN]
      BY <1>1, <1>2, ArrivedTypes
    <3> QED  BY <3>1
  <2>2. PICK d, e : d = client' /\ e = client.wholePairs
    OBVIOUS
  <2>3. d.wholePairs = e
    BY <2>1, <2>2
  <2> QED  BY <2>2, <2>3
<1>7. PairsOK'
  BY <1>5, <1>6 DEF PairsOK, Coming
<1>8. RoleOK'
  BY <1>5 DEF Records, RoleOK
<1>9. AnswerOK'
  BY <1>5 DEF Records, AnswerOK
<1> QED  BY <1>7, <1>8, <1>9 DEF Records

\* When an FCGI client has sent all of its parameters, the request has all of them.
LEMMA AllPairsCame ==
  ASSUME Records, link.transport = "FCGI", ~broken, request.phase = "params", client.params = <<>>, client.wholePairs
  PROVE  request.params = ToSet(Headers)
<1>1. PICK k \in 0..Len(Headers) : client.params = Rest(ParameterBytes, PairEnd[k]) /\ request.params = FirstPairs(k)
  BY DEF Records, PairsOK, Coming
<1>2. PICK h, B, L, x : h = Len(Headers) /\ B = ParameterBytes /\ L = Len(B) /\ x = PairEnd[k]
  OBVIOUS
<1>3. h \in Nat /\ B \in Seq(Bytes) /\ L \in Nat /\ x \in Nat /\ x <= L /\ k \in 0..h
  BY <1>2, PairSeqsType, PairEndOK, PairEndOrder
<1>4. PairEnd[h] = L
  BY <1>2, PairEndOK
<1>5. L - x = 0
  <2>1. Len(Rest(B, x)) = L - x
    <3>1. x \in 0..Len(B)
      BY <1>2, <1>3
    <3> QED  BY <1>2, <1>3, <3>1, RestPiece
  <2>2. Rest(B, x) = <<>>
    BY <1>1, <1>2
  <2> QED  BY <2>1, <2>2
<1>6. k = h
  <2>1. ASSUME k < h  PROVE FALSE
    <3>1. h \in 0..h /\ k \in 0..h
      BY <1>3
    <3>2. PairEnd[k] < PairEnd[h]
      BY <1>2, <2>1, <3>1, PairEndOrder
    <3> QED  BY <1>2, <1>3, <1>4, <1>5, <3>2
  <2> QED  BY <1>3, <2>1
<1> QED  BY <1>1, <1>2, <1>6, AllPairs

LEMMA AnnounceRecords ==
  ASSUME Records, Types', NEW n \in 0..Len(client.body), Announce(n)
  PROVE  Records'
<1>1. /\ link' = link /\ response' = response /\ broken' = broken /\ ~broken /\ request.phase = "params"
      /\ client' = [BodyAfter(n) EXCEPT !.params = <<>>]
      /\ \/ link.transport = "FCGI" /\ client.params = <<>>
         \/ link.transport = "HTTP" \/ link.transport = "CGI"
  BY Zenon DEF Announce
<1>2. PICK A : A = Arrived(n, "announced")
  OBVIOUS
<1>3. request' = [A EXCEPT !.params = CASE link.transport = "FCGI" -> @
                                         [] link.transport = "CGI" -> EnvironmentParameters(Environment(Headers))
                                         [] OTHER -> ToSet(Headers)]
  BY <1>2, Zenon DEF Announce
<1>4. CASE link.transport = "FCGI" /\ client.params = <<>>
  <2>1. request' = [A EXCEPT !.params = A.params]
    BY <1>3, <1>4
  <2>2. A.params = request.params
    <3>1. ClientOK /\ RequestOK /\ "announced" \in Phases
      BY DEF Records, Types, Phases
    <3>2. PICK a, s : a = request.arrived \o SubSeq(client.body, 1, n) /\ s = Arrived(n, "announced").signalled
      OBVIOUS
    <3>3. A = [request EXCEPT !.phase = "announced", !.arrived = a, !.signalled = s]
      BY <1>2, <3>1, <3>2, ArrivedTypes
    <3> QED  BY <3>1, <3>3, RequestRecord
  <2>3. client.wholePairs => A.params = ToSet(Headers)
    BY <1>1, <1>4, <2>2, AllPairsCame
  <2> QED  BY <1>1, <1>2, <2>1, <2>3, AnnouncedRecords
<1>5. CASE link.transport = "HTTP"
  <2>1. request' = [A EXCEPT !.params = ToSet(Headers)]
    BY <1>3, <1>5
  <2> QED  BY <1>1, <1>2, <2>1, AnnouncedRecords
<1>6. CASE link.transport = "CGI"
  <2>1. request' = [A EXCEPT !.params = EnvironmentParameters(Environment(Headers))]
    BY <1>3, <1>6
  <2>2. request' = [A EXCEPT !.params = ToSet(Headers)]
    BY <2>1, EnvironmentRead
  <2> QED  BY <1>1, <1>2, <2>2, AnnouncedRecords
<1> QED  BY <1>1, <1>4, <1>5, <1>6

LEMMA StartResponseRecords ==
  ASSUME Records, Types', NEW n \in 0..Len(client.body), StartResponse(n)
  PROVE  Records'
<1>1. link' = link /\ response' = response /\ ~broken /\ request.phase = "params" /\ link.transport = "SCGI"
  BY DEF StartResponse, Over
<1>2. CASE /\ request' = [Arrived(n, "announced") EXCEPT !.params = BlobParameters(HeaderBlob(Headers))]
           /\ client' = [BodyAfter(n) EXCEPT !.params = <<>>] /\ UNCHANGED broken
  <2>1. request' = [Arrived(n, "announced") EXCEPT !.params = ToSet(Headers)]
    BY <1>2, BlobRead
  <2> QED  BY <1>1, <1>2, <2>1, AnnouncedRecords
<1>3. CASE broken' = TRUE /\ UNCHANGED request
  <2>1. PairsOK'
    BY <1>1, <1>3 DEF PairsOK, Coming
  <2>2. RoleOK'
    BY <1>1 DEF RoleOK
  <2>3. AnswerOK'
    BY <1>1, <1>3 DEF Records, AnswerOK
  <2> QED  BY <2>1, <2>2, <2>3 DEF Records
<1> QED  BY <1>2, <1>3, Zenon DEF StartResponse

LEMMA SendBodyRecords ==
  ASSUME Records, Types', NEW n \in 1..Len(client.body), NEW p \in Paddings, SendBody(n, p)
  PROVE  Records'
<1>1. ClientOK /\ RequestOK /\ n \in 0..Len(client.body)
  <2>1. ClientOK /\ RequestOK
    BY DEF Records, Types
  <2>2. Len(client.body) \in Nat
    BY <2>1 DEF ClientOK
  <2> QED  BY <2>1, <2>2
<1>2. /\ link' = link /\ response' = response /\ ~broken /\ request.phase \in {"announced", "responding"}
      /\ client' = BodyAfter(n)
  BY DEF SendBody
<1>3. PICK f : f = request.phase
  OBVIOUS
<1>4. f \in Phases
  BY <1>1, <1>3 DEF RequestOK
<1>5. client'.params = client.params /\ client'.wholePairs = client.wholePairs
  <2>1. PICK b, w : BodyAfter(n) = [params |-> client.params, body |-> b, wholePairs |-> client.wholePairs, wholeFields |-> w]
    <3>1. BodyAfter(n) \in [params : {client.params}, body : {Rest(client.body, n)}, wholePairs : {client.wholePairs}, wholeFields : BOOLEAN]
      BY <1>1, <1>4, ArrivedTypes
    <3> QED  BY <3>1
  <2>2. PICK d, e, g : d = client' /\ e = client.wholePairs /\ g = client.params
    OBVIOUS
  <2>3. d.wholePairs = e /\ d.params = g
    BY <1>2, <2>1, <2>2
  <2> QED  BY <2>2, <2>3
<1>6. request'.phase = f /\ request'.closes = request.closes /\ request'.params = request.params
  <2>1. CASE request' = request
    BY <1>3, <2>1
  <2>2. CASE request' = Arrived(n, request.phase)
    <3>1. PICK a, s, q : a = request.arrived \o SubSeq(client.body, 1, n) /\ s = Arrived(n, f).signalled /\ q = request'
      OBVIOUS
    <3>2. q = [request EXCEPT !.phase = f, !.arrived = a, !.signalled = s]
      BY <1>1, <1>3, <1>4, <2>2, <3>1, ArrivedTypes
    <3>3. q.phase = f /\ q.closes = request.closes /\ q.params = request.params
      BY <1>1, <3>2, RequestRecord
    <3> QED  BY <3>1, <3>3
  <2> QED  BY <2>1, <2>2 DEF SendBody
<1> QED  BY <1>2, <1>3, <1>5, <1>6, RecordsFrame

\* The actions of the slot that leave the parameters alone, and a step of a reader.
LEMMA SlotRecords ==
  ASSUME Records, Types',
         RunSlot \/ LoadPostVariables \/ GiveUp \/ CallReadNext \/ ReadToken \/ ReadMime \/ SendAbort
           \/ (\E n \in ReadSizes : ReadBase64(n)) \/ UNCHANGED vars
  PROVE  Records'
<1>1. RequestOK
  BY DEF Records, Types
<1>2. UNCHANGED <<link, response, client>> /\ (broken => broken')
  <2>1. ASSUME NEW n \in ReadSizes, ReadBase64(n)  PROVE UNCHANGED formVars
    BY <2>1 DEF ReadBase64
  <2> QED  BY <2>1 DEF RunSlot, LoadPostVariables, GiveUp, CallReadNext, ReadToken, ReadMime, SendAbort, vars, formVars
<1>3. HasRead.phase = request.phase /\ HasRead.closes = request.closes /\ HasRead.params = request.params
  <2>1. PICK position, reads, N : position = Len(request.arrived)
          /\ reads = (IF ReadDevice = <<>> THEN request.reads ELSE request.reads + 1) /\ N = HasRead
    OBVIOUS
  <2>2. N = [request EXCEPT !.position = position, !.reads = reads]
    BY <2>1 DEF HasRead
  <2>3. N = [phase |-> request.phase, closes |-> request.closes, params |-> request.params, arrived |-> request.arrived,
             position |-> position, reads |-> reads, signalled |-> request.signalled,
             data |-> request.data, gaveUp |-> request.gaveUp]
    BY <1>1, <2>2, RequestRecord
  <2>4. N.phase = request.phase /\ N.closes = request.closes /\ N.params = request.params
    BY <2>3
  <2> QED  BY <2>1, <2>4
<1>4. /\ request'.params = request.params /\ request'.closes = request.closes
      /\ \/ request'.phase = request.phase
         \/ request.phase \in {"announced", "responding"} /\ request'.phase \in {"announced", "responding"}
  <2>1. PICK q : q = request'
    OBVIOUS
  <2>2. PICK N : N = HasRead
    OBVIOUS
  <2>3. DOMAIN N = DOMAIN request
    BY <2>2 DEF HasRead
  <2>4. DOMAIN request = {"phase", "closes", "params", "arrived", "position", "reads", "signalled", "data", "gaveUp"}
    BY <1>1 DEF RequestOK
  <2>5. CASE RunSlot
    <3>1. PICK s : q = [request EXCEPT !.phase = "responding", !.signalled = s] /\ request.phase = "announced"
      BY <2>1, <2>5 DEF RunSlot
    <3>2. q.params = request.params /\ q.closes = request.closes /\ q.phase = "responding"
      BY <2>4, <3>1
    <3> QED  BY <2>1, <3>1, <3>2
  <2>6. CASE LoadPostVariables
    <3>1. PICK d : q = [N EXCEPT !.data = d]
      BY <2>1, <2>2, <2>6 DEF LoadPostVariables
    <3>2. q.params = N.params /\ q.closes = N.closes /\ q.phase = N.phase
      BY <2>3, <2>4, <3>1
    <3> QED  BY <1>3, <2>1, <2>2, <3>2
  <2>7. CASE GiveUp
    <3>1. q = [request EXCEPT !.gaveUp = TRUE, !.data = <<>>]
      BY <2>1, <2>7 DEF GiveUp
    <3>2. q.params = request.params /\ q.closes = request.closes /\ q.phase = request.phase
      BY <2>4, <3>1
    <3> QED  BY <2>1, <3>2
  <2>8. CASE CallReadNext
    <3>1. PICK M : M = IF SeesMore THEN HasRead ELSE request
      OBVIOUS
    <3>2. M \in {N, request}
      BY <2>2, <3>1
    <3>3. q = [M EXCEPT !.signalled = FALSE]
      BY <2>1, <2>8, <3>1 DEF CallReadNext
    <3>4. M.params = request.params /\ M.closes = request.closes /\ M.phase = request.phase /\ DOMAIN M = DOMAIN request
      BY <1>3, <2>2, <2>3, <3>2
    <3>5. q.params = M.params /\ q.closes = M.closes /\ q.phase = M.phase
      BY <2>4, <3>3, <3>4
    <3> QED  BY <2>1, <3>4, <3>5
  <2>9. ASSUME NEW n \in ReadSizes, ReadBase64(n)  PROVE request' = request
    BY <2>9 DEF ReadBase64, formVars
  <2>10. ReadToken \/ ReadMime \/ SendAbort \/ UNCHANGED vars => request' = request
    BY DEF ReadToken, ReadMime, SendAbort, vars, formVars
  <2>11. CASE request' = request
    BY <2>11
  <2> QED  BY <2>5, <2>6, <2>7, <2>8, <2>9, <2>10, <2>11, Zenon
<1> QED  BY <1>2, <1>4, RecordsFrame

LEMMA WriteResponseRecords ==
  ASSUME Records, Types', NEW n \in WriteSizes, WriteResponse(n)
  PROVE  Records'
<1>1. RequestOK
  BY DEF Records, Types
<1>2. UNCHANGED <<link, client, broken>> /\ request.phase = "responding"
  BY DEF WriteResponse
<1>3. request'.phase = "ended" /\ request'.closes = request.closes /\ request'.params = request.params
  <2>1. PICK q : q = request'
    OBVIOUS
  <2>2. q = [request EXCEPT !.phase = "ended", !.signalled = FALSE]
    BY <2>1 DEF WriteResponse
  <2>3. q.phase = "ended" /\ q.closes = request.closes /\ q.params = request.params
    BY <1>1, <2>2, RequestRecord
  <2> QED  BY <2>1, <2>3
<1>4. response'.records = Append(Written(response'.written), EndRequest)
  <2>1. PICK w, r : w = [k \in 1..n |-> k] /\ r = Append(Written(w), EndRequest)
    OBVIOUS
  <2>2. response' = [written |-> w, records |-> r]
    BY <2>1 DEF WriteResponse
  <2>3. response'.written = w /\ response'.records = r
    BY <2>2
  <2> QED  BY <2>1, <2>3
<1>5. PairsOK'
  BY <1>2, <1>3 DEF Records, PairsOK, Coming
<1>6. RoleOK'
  BY <1>2, <1>3 DEF Records, RoleOK
<1>7. AnswerOK'
  BY <1>3, <1>4 DEF AnswerOK
<1> QED  BY <1>5, <1>6, <1>7 DEF Records

LEMMA RecordsStep == Records /\ [Next]_vars => Records'
<1> SUFFICES ASSUME Records, [Next]_vars  PROVE Records'
  OBVIOUS
<1>1. Types'
  BY TypesStep DEF Records
<1>2. CASE Next
  BY <1>1, <1>2, Step, SendBeginRecords, SendParametersRecords, AnnounceRecords, StartResponseRecords, SendBodyRecords,
     SlotRecords, WriteResponseRecords, Zenon
<1>3. CASE UNCHANGED vars
  BY <1>1, <1>3, SlotRecords
<1> QED  BY <1>2, <1>3

\* The role, the parameters and the flag that one side sends are those that the other reads, if no
\* record cuts a pair, however many records there are and however they are padded; the web server
\* reads of the records of a response what the slot has written, and one END_REQUEST behind it; and
\* SCGI's netstring and the environment of a CGI process are read as they were written.  What becomes
\* of the socket is no part of it: every stream hands it to a flusher that deletes it, kept or not.
THEOREM RecordsCorrect == Spec => []RecordsAsSent
<1>1. Init => Records
  BY InitRecords
<1>2. Records /\ [Next]_vars => Records'
  BY RecordsStep
<1>3. Records => RecordsAsSent
  BY RecordsImply
<1> QED  BY <1>1, <1>2, <1>3, PTL DEF Spec
=============================================================================
