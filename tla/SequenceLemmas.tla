--------------------------- MODULE SequenceLemmas ---------------------------
(***************************************************************************)
(* What the steps of a queue or a stack do to the sequence that holds it,  *)
(* index by index, and induction without an operator parameter.            *)
(***************************************************************************)
EXTENDS SequenceTheorems, WellFoundedInduction, TLAPS

LEMMA Singleton ==
  ASSUME NEW S, NEW e \in S
  PROVE  <<e>> \in Seq(S) /\ Len(<<e>>) = 1 /\ <<e>>[1] = e /\ Head(<<e>>) = e /\ <<e>> # <<>>
<1>1. <<e>> \in Seq(S) /\ Len(<<e>>) = 1 /\ <<e>>[1] = e
  OBVIOUS
<1>2. <<e>> # <<>>
  <2>1. Len(<<>>) = 0
    OBVIOUS
  <2> QED  BY <1>1, <2>1, Zenon
<1> QED  BY <1>1, <1>2

\* Pushing an element on a stack, the newest first.
LEMMA PushType ==
  ASSUME NEW S, NEW s \in Seq(S), NEW e \in S
  PROVE  /\ <<e>> \o s \in Seq(S)
         /\ Len(<<e>> \o s) = Len(s) + 1
         /\ \A i \in 1..(Len(s) + 1) : (<<e>> \o s)[i] = IF i = 1 THEN e ELSE s[i - 1]
<1>1. <<e>> \in Seq(S) /\ Len(<<e>>) = 1 /\ <<e>>[1] = e
  OBVIOUS
<1> QED  BY <1>1, ConcatProperties

\* Popping the newest element, or taking the head of a queue.
LEMMA TailType ==
  ASSUME NEW S, NEW s \in Seq(S), s # <<>>
  PROVE  /\ Tail(s) \in Seq(S) /\ Head(s) \in S /\ Head(s) = s[1]
         /\ Len(Tail(s)) = Len(s) - 1 /\ Len(s) \in Nat /\ Len(s) > 0
         /\ \A i \in 1..(Len(s) - 1) : Tail(s)[i] = s[i + 1]
OBVIOUS

\* Replacing the newest element.
LEMMA ReplaceType ==
  ASSUME NEW S, NEW s \in Seq(S), s # <<>>, NEW e \in S
  PROVE  /\ <<e>> \o Tail(s) \in Seq(S) /\ <<e>> \o Tail(s) # <<>>
         /\ Head(<<e>> \o Tail(s)) = e
         /\ Len(<<e>> \o Tail(s)) = Len(s) /\ Len(s) \in Nat /\ Len(s) > 0
         /\ \A i \in 1..Len(s) : (<<e>> \o Tail(s))[i] = IF i = 1 THEN e ELSE s[i]
<1>1. /\ Tail(s) \in Seq(S) /\ Len(Tail(s)) = Len(s) - 1 /\ Len(s) \in Nat /\ Len(s) > 0
      /\ \A i \in 1..(Len(s) - 1) : Tail(s)[i] = s[i + 1]
  BY TailType
<1>2. /\ <<e>> \o Tail(s) \in Seq(S) /\ Len(<<e>> \o Tail(s)) = Len(s)
      /\ \A i \in 1..Len(s) : (<<e>> \o Tail(s))[i] = IF i = 1 THEN e ELSE Tail(s)[i - 1]
  BY <1>1, PushType
<1>3. \A i \in 2..Len(s) : i - 1 \in 1..(Len(s) - 1) /\ (i - 1) + 1 = i
  BY <1>1
<1>4. <<e>> \o Tail(s) # <<>> /\ Head(<<e>> \o Tail(s)) = (<<e>> \o Tail(s))[1]
  BY <1>1, <1>2, TailType
<1> QED  BY <1>1, <1>2, <1>3, <1>4

\* t is s with e at its end.
Appended(s, e, t) ==
  /\ Len(s) \in Nat /\ Len(t) = Len(s) + 1
  /\ t[Len(s) + 1] = e /\ \A i \in 1..Len(s) : t[i] = s[i]

LEMMA AppendEffect ==
  ASSUME NEW S, NEW s \in Seq(S), NEW e \in S
  PROVE  Appended(s, e, Append(s, e))
BY AppendProperties, LenProperties DEF Appended

LEMMA AppendedElements ==
  ASSUME NEW s, NEW e, NEW t, Appended(s, e, t)
  PROVE  \A i \in 1..Len(t) :
           \/ i \in 1..Len(s) /\ t[i] = s[i]
           \/ i = Len(s) + 1 /\ t[i] = e /\ \A j \in 1..Len(s) : j < i
BY DEF Appended

\* t is s without its head.
Dropped(s, t) ==
  /\ Len(s) \in Nat /\ Len(s) > 0 /\ Len(t) = Len(s) - 1
  /\ \A i \in 1..Len(t) : t[i] = s[i + 1]

LEMMA DropEffect ==
  ASSUME NEW S, NEW s \in Seq(S), s # <<>>
  PROVE  Dropped(s, Tail(s)) /\ Head(s) = s[1] /\ Head(s) \in S
BY TailType DEF Dropped

LEMMA DroppedElements ==
  ASSUME NEW s, NEW t, Dropped(s, t)
  PROVE  \A i \in 1..Len(t) : t[i] = s[i + 1] /\ i + 1 \in 2..Len(s) /\ i + 1 \in 1..Len(s)
BY DEF Dropped

\* A set of natural numbers with 0 and every successor has all of them.
LEMMA SetInduction ==
  ASSUME NEW T, 0 \in T, \A n \in Nat : n \in T => n + 1 \in T
  PROVE  Nat \subseteq T
<1> SUFFICES ASSUME Nat \ T # {}  PROVE FALSE
  OBVIOUS
<1> DEFINE Less == {p \in Nat \X Nat : p[1] < p[2]}
<1>1. IsWellFoundedOn(Less, Nat)
  BY NatLessThanWellFounded, Zenon DEF OpToRel
<1>2. \E n \in Nat \ T : \A m \in Nat \ T : ~(<<m, n>> \in Less)
  BY <1>1, WFMin, Zenon
<1>3. PICK n \in Nat \ T : \A m \in Nat \ T : ~(m < n)
  BY <1>2
<1>4. n \in Nat /\ n # 0 
  OBVIOUS
<1>5. n - 1 \in T
  BY <1>3, <1>4
<1> QED  BY <1>4, <1>5

LEMMA BoundedInduction ==
  ASSUME NEW n \in Nat, NEW T, 0 \in T, \A k \in 1..n : k - 1 \in T => k \in T
  PROVE  0..n \subseteq T
<1> DEFINE U == {k \in Nat : k \in 0..n => k \in T}
<1>1. 0 \in U
  OBVIOUS
<1>2. \A k \in Nat : k \in U => k + 1 \in U
  <2> SUFFICES ASSUME NEW k \in Nat, k \in U, k + 1 \in 0..n  PROVE k + 1 \in T
    OBVIOUS
  <2> QED  OBVIOUS
<1> HIDE DEF U
<1>3. Nat \subseteq U
  BY <1>1, <1>2, SetInduction
<1> QED  BY <1>3 DEF U

\* A set of sequences with <<>> and every extension of its sequences by one has all of them.
LEMMA AppendInduction ==
  ASSUME NEW S, NEW T, <<>> \in T, \A s \in Seq(S), e \in S : s \in T => Append(s, e) \in T
  PROVE  Seq(S) \subseteq T
<1> DEFINE U == {n \in Nat : \A s \in Seq(S) : Len(s) = n => s \in T}
<1>1. 0 \in U
  <2>1. \A s \in Seq(S) : Len(s) = 0 => s = <<>>
    BY EmptySeq
  <2> QED  BY <2>1
<1>2. \A n \in Nat : n \in U => n + 1 \in U
  <2> SUFFICES ASSUME NEW n \in Nat, n \in U, NEW s \in Seq(S), Len(s) = n + 1  PROVE s \in T
    OBVIOUS
  <2>1. PICK r : r = [i \in 1..n |-> s[i]]
    OBVIOUS
  <2>2. s \in [1..(n + 1) -> S] /\ r \in [1..n -> S]
    BY <2>1, LenProperties
  <2>3. r \in Seq(S) /\ Len(r) = n
    BY <2>2, SeqDef
  <2>4. s[n + 1] \in S
    BY <2>2
  <2>5. Append(r, s[n + 1]) = s
    <3>1. Append(r, s[n + 1]) \in Seq(S) /\ Len(Append(r, s[n + 1])) = n + 1
      BY <2>3, <2>4, AppendProperties
    <3>2. \A i \in 1..(n + 1) : Append(r, s[n + 1])[i] = s[i]
      BY <2>1, <2>3, <2>4, AppendProperties
    <3> HIDE DEF U
    <3> QED  BY <3>1, <3>2, SeqEqual
  <2>6. r \in T
    BY <2>3
  <2> QED  BY <2>3, <2>4, <2>5, <2>6
<1> HIDE DEF U
<1>3. Nat \subseteq U
  BY <1>1, <1>2, SetInduction
<1>4. \A s \in Seq(S) : Len(s) \in Nat
  OBVIOUS
<1> QED  BY <1>3, <1>4 DEF U

\* g[0..n] begins with base, and step makes each of its values from the one before.
Iterates(g, n, base, step) ==
  g[0] = base /\ \A k \in 1..n : g[k] = step[<<g[k - 1], k>>]

\* There is such a function: what a recursive definition over 0..n needs to mean anything.
LEMMA ExistsRecursive ==
  ASSUME NEW D, NEW n \in Nat, NEW base \in D, NEW step \in [D \X (1..n) -> D]
  PROVE  \E g \in [0..n -> D] : Iterates(g, n, base, step)
<1> DEFINE T == {m \in 0..n : \E g \in [0..m -> D] : Iterates(g, m, base, step)}
<1>1. 0 \in T
  <2>1. [i \in 0..0 |-> base] \in [0..0 -> D] /\ Iterates([i \in 0..0 |-> base], 0, base, step)
    BY DEF Iterates
  <2> QED  BY <2>1
<1>2. ASSUME NEW k \in 1..n, k - 1 \in T  PROVE k \in T
  <2>1. PICK g \in [0..(k - 1) -> D] : Iterates(g, k - 1, base, step)
    BY <1>2
  <2>2. PICK h : h = [i \in 0..k |-> IF i = k THEN step[<<g[k - 1], k>>] ELSE g[i]]
    OBVIOUS
  <2>3. k \in 0..n /\ k - 1 \in 0..(k - 1) /\ g[k - 1] \in D
    OBVIOUS
  <2>4. step[<<g[k - 1], k>>] \in D
    BY <2>3
  <2>5. h \in [0..k -> D]
    BY <2>2, <2>4
  <2>6. h[0] = base
    BY <2>1, <2>2 DEF Iterates
  <2>7. \A i \in 1..k : h[i] = step[<<h[i - 1], i>>]
    <3> SUFFICES ASSUME NEW i \in 1..k  PROVE h[i] = step[<<h[i - 1], i>>]
      OBVIOUS
    <3>1. i - 1 \in 0..(k - 1) /\ i - 1 \in 0..k /\ i - 1 # k /\ h[i - 1] = g[i - 1]
      BY <2>2
    <3>2. CASE i = k
      BY <2>2, <3>1, <3>2
    <3>3. CASE i # k
      <4>1. i \in 1..(k - 1) /\ h[i] = g[i]
        BY <2>2, <3>3
      <4> QED  BY <2>1, <3>1, <4>1 DEF Iterates
    <3> QED  BY <3>2, <3>3
  <2> QED  BY <2>3, <2>5, <2>6, <2>7 DEF Iterates
<1> HIDE DEF T
<1>3. 0..n \subseteq T
  BY <1>1, <1>2, BoundedInduction
<1>4. n \in T
  BY <1>3
<1> QED  BY <1>4 DEF T
=============================================================================
