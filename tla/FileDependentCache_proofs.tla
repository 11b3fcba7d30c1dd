---------------------- MODULE FileDependentCache_proofs ----------------------
(***************************************************************************)
(* Proofs about FileDependentCache, for any number of threads, files and   *)
(* keys, and any sizes.                                                    *)
(***************************************************************************)
EXTENDS FileDependentCache, SequenceLemmas

-----------------------------------------------------------------------------
(* What a list of keys costs. *)

Costs(store, K) == \A k \in K : Cost(store[k]) \in Nat

\* g holds what the first keys of the list cost.
Adds(g, store, list) == g[0] = 0 /\ \A n \in 1..Len(list) : g[n] = g[n - 1] + Cost(store[list[n]])

LEMMA TotalIterates ==
  ASSUME NEW K, NEW store, Costs(store, K), NEW list \in Seq(K)
  PROVE  \E g \in [0..Len(list) -> Nat] : Adds(g, store, list) /\ TotalCost(store, list) = g[Len(list)]
<1> DEFINE N == Len(list)
           step == [s \in Nat \X (1..N) |-> s[1] + Cost(store[list[s[2]]])]
           Eqn(f) == f = [n \in 0..N |-> IF n = 0 THEN 0 ELSE f[n - 1] + Cost(store[list[n]])]
<1>1. N \in Nat /\ \A n \in 1..N : Cost(store[list[n]]) \in Nat
  BY ElementOfSeq DEF Costs
<1>2. step \in [Nat \X (1..N) -> Nat]
  <2>1. \A s \in Nat \X (1..N) : s[1] + Cost(store[list[s[2]]]) \in Nat
    BY <1>1
  <2> QED  BY <2>1
<1>3. \A c \in Nat, n \in 1..N : step[<<c, n>>] = c + Cost(store[list[n]])
  OBVIOUS
<1> HIDE DEF step
<1>4. PICK g \in [0..N -> Nat] : Iterates(g, N, 0, step)
  <2> HIDE DEF N
  <2> QED  BY <1>1, <1>2, ExistsRecursive
<1>5. \A n \in 1..N : g[n] = g[n - 1] + Cost(store[list[n]])
  <2> SUFFICES ASSUME NEW n \in 1..N  PROVE g[n] = g[n - 1] + Cost(store[list[n]])
    OBVIOUS
  <2>1. n - 1 \in 0..N
    BY <1>1
  <2>2. g[n - 1] \in Nat /\ g[n] = step[<<g[n - 1], n>>]
    BY <1>4, <2>1 DEF Iterates
  <2> QED  BY <1>3, <2>2
<1>6. g = [n \in 0..N |-> IF n = 0 THEN 0 ELSE g[n - 1] + Cost(store[list[n]])]
  <2>1. \A n \in 0..N : g[n] = IF n = 0 THEN 0 ELSE g[n - 1] + Cost(store[list[n]])
    BY <1>1, <1>4, <1>5 DEF Iterates
  <2> QED  BY <1>4, <2>1
<1>7. PICK f : f = (CHOOSE h : Eqn(h))
  OBVIOUS
<1>8. Eqn(f)
  BY <1>6, <1>7
<1>9. TotalCost(store, list) = f[N]
  BY <1>7 DEF TotalCost
<1>10. DOMAIN f = 0..N /\ f[0] = 0 /\ \A n \in 1..N : f[n] = f[n - 1] + Cost(store[list[n]])
  <2>1. DOMAIN f = 0..N /\ \A n \in 0..N : f[n] = IF n = 0 THEN 0 ELSE f[n - 1] + Cost(store[list[n]])
    BY <1>8, Zenon
  <2>2. 0 \in 0..N /\ \A n \in 1..N : n \in 0..N /\ n # 0
    BY <1>1
  <2> HIDE DEF Eqn
  <2> QED  BY <2>1, <2>2
<1>11. 0..N \subseteq {n \in 0..N : f[n] \in Nat}
  <2> DEFINE T == {n \in 0..N : f[n] \in Nat}
  <2>1. 0 \in T
    BY <1>1, <1>10
  <2>2. \A n \in 1..N : n - 1 \in T => n \in T
    BY <1>1, <1>10
  <2> HIDE DEF T, N
  <2> QED  BY <1>1, <2>1, <2>2, BoundedInduction DEF T
<1>12. f \in [0..N -> Nat]
  <2>1. f = [n \in 0..N |-> f[n]]
    BY <1>8 DEF Eqn
  <2> QED  BY <1>11, <2>1
<1> QED  BY <1>9, <1>10, <1>12 DEF Adds

LEMMA TotalAppend ==
  ASSUME NEW K, NEW store, Costs(store, K), NEW list \in Seq(K), NEW e \in K
  PROVE  /\ TotalCost(store, list) \in Nat
         /\ TotalCost(store, Append(list, e)) = TotalCost(store, list) + Cost(store[e])
<1> DEFINE N == Len(list)
<1>1. PICK g \in [0..N -> Nat] : Adds(g, store, list) /\ TotalCost(store, list) = g[N]
  BY TotalIterates
<1>2. PICK l : l = Append(list, e)
  OBVIOUS
<1>3. l \in Seq(K) /\ Len(l) = N + 1 /\ l[N + 1] = e /\ \A n \in 1..N : l[n] = list[n]
  BY <1>2, AppendProperties
<1>4. PICK h \in [0..Len(l) -> Nat] : Adds(h, store, l) /\ TotalCost(store, l) = h[Len(l)]
  BY <1>3, TotalIterates
<1>5. N \in Nat
  OBVIOUS
<1>6. 0..N \subseteq {n \in 0..N : h[n] = g[n]}
  <2> DEFINE T == {n \in 0..N : h[n] = g[n]}
  <2>1. 0 \in T
    BY <1>1, <1>4, <1>5 DEF Adds
  <2>2. \A n \in 1..N : n - 1 \in T => n \in T
    <3> SUFFICES ASSUME NEW n \in 1..N, n - 1 \in T  PROVE n \in T
      OBVIOUS
    <3>1. n \in 1..Len(l) /\ n \in 0..N
      BY <1>3, <1>5
    <3>2. h[n] = h[n - 1] + Cost(store[l[n]]) /\ g[n] = g[n - 1] + Cost(store[list[n]])
      BY <1>1, <1>4, <3>1 DEF Adds
    <3> QED  BY <1>3, <3>1, <3>2
  <2> HIDE DEF T, N
  <2> QED  BY <1>5, <2>1, <2>2, BoundedInduction DEF T
<1>7. h[N + 1] = h[N] + Cost(store[e])
  <2>1. N + 1 \in 1..Len(l) /\ (N + 1) - 1 = N
    BY <1>3, <1>5
  <2> QED  BY <1>3, <1>4, <2>1 DEF Adds
<1>8. h[N] = g[N] /\ g[N] \in Nat
  BY <1>5, <1>6
<1> QED  BY <1>1, <1>2, <1>3, <1>4, <1>7, <1>8

LEMMA TotalType ==
  ASSUME NEW K, NEW store, Costs(store, K), NEW list \in Seq(K)
  PROVE  TotalCost(store, list) \in Nat
<1>1. PICK g \in [0..Len(list) -> Nat] : TotalCost(store, list) = g[Len(list)]
  BY TotalIterates
<1>2. Len(list) \in 0..Len(list)
  OBVIOUS
<1> QED  BY <1>1, <1>2

LEMMA TotalEmpty == ASSUME NEW store  PROVE TotalCost(store, <<>>) = 0
<1> DEFINE K == {}
<1>1. PICK list : list = <<>>
  OBVIOUS
<1>2. list \in Seq(K) /\ Len(list) = 0 /\ Costs(store, K)
  BY <1>1 DEF Costs
<1> HIDE DEF K
<1>3. PICK g \in [0..Len(list) -> Nat] : Adds(g, store, list) /\ TotalCost(store, list) = g[Len(list)]
  BY <1>2, TotalIterates, ZenonT(30)
<1> QED  BY <1>1, <1>2, <1>3 DEF Adds

LEMMA TotalPush ==
  ASSUME NEW K, NEW store, Costs(store, K), NEW list \in Seq(K), NEW e \in K
  PROVE  TotalCost(store, <<e>> \o list) = TotalCost(store, list) + Cost(store[e])
<1> DEFINE T == {l \in Seq(K) : TotalCost(store, <<e>> \o l) = TotalCost(store, l) + Cost(store[e])}
<1>1. <<>> \in T
  <2>1. <<>> \in Seq(K) /\ <<e>> \o <<>> = Append(<<>>, e)
    OBVIOUS
  <2>2. TotalCost(store, Append(<<>>, e)) = TotalCost(store, <<>>) + Cost(store[e])
    BY <2>1, TotalAppend
  <2> QED  BY <2>1, <2>2
<1>2. \A l \in Seq(K), x \in K : l \in T => Append(l, x) \in T
  <2> SUFFICES ASSUME NEW l \in Seq(K), NEW x \in K, l \in T  PROVE Append(l, x) \in T
    OBVIOUS
  <2>1. PICK p : p = <<e>> \o l
    OBVIOUS
  <2>2. p \in Seq(K) /\ Append(l, x) \in Seq(K) /\ <<e>> \o Append(l, x) = Append(p, x)
    BY <2>1
  <2>3. TotalCost(store, p) = TotalCost(store, l) + Cost(store[e])
    BY <2>1
  <2>4. /\ TotalCost(store, Append(p, x)) = TotalCost(store, p) + Cost(store[x])
        /\ TotalCost(store, Append(l, x)) = TotalCost(store, l) + Cost(store[x])
        /\ TotalCost(store, l) \in Nat /\ Cost(store[x]) \in Nat /\ Cost(store[e]) \in Nat
    BY <2>2, TotalAppend DEF Costs
  <2> HIDE DEF T
  <2>5. TotalCost(store, Append(p, x)) = TotalCost(store, Append(l, x)) + Cost(store[e])
    BY <2>3, <2>4
  <2>6. TotalCost(store, <<e>> \o Append(l, x)) = TotalCost(store, Append(p, x))
    BY <2>2, Zenon
  <2>7. TotalCost(store, <<e>> \o Append(l, x)) = TotalCost(store, Append(l, x)) + Cost(store[e])
    BY <2>5, <2>6, Zenon
  <2> QED  BY <2>2, <2>7, Zenon DEF T
<1> HIDE DEF T
<1>3. Seq(K) \subseteq T
  BY <1>1, <1>2, AppendInduction
<1> QED  BY <1>3 DEF T

LEMMA TotalAgrees ==
  ASSUME NEW K, NEW store, NEW other, Costs(store, K), \A k \in K : other[k] = store[k], NEW list \in Seq(K)
  PROVE  TotalCost(other, list) = TotalCost(store, list)
<1> DEFINE T == {l \in Seq(K) : TotalCost(other, l) = TotalCost(store, l)}
<1>1. <<>> \in T
  BY TotalEmpty
<1>2. Costs(other, K)
  BY DEF Costs
<1>3. \A l \in Seq(K), x \in K : l \in T => Append(l, x) \in T
  <2> SUFFICES ASSUME NEW l \in Seq(K), NEW x \in K, l \in T  PROVE Append(l, x) \in T
    OBVIOUS
  <2>1. /\ TotalCost(store, Append(l, x)) = TotalCost(store, l) + Cost(store[x])
        /\ TotalCost(other, Append(l, x)) = TotalCost(other, l) + Cost(other[x])
    BY <1>2, TotalAppend
  <2>2. Append(l, x) \in Seq(K)
    OBVIOUS
  <2> QED  BY <2>1, <2>2
<1> HIDE DEF T
<1>4. Seq(K) \subseteq T
  BY <1>1, <1>3, AppendInduction
<1> QED  BY <1>4 DEF T

-----------------------------------------------------------------------------
(* The list of uses, without some of its keys. *)

Leaves(g, list, keys) ==
  /\ g[0] = <<>>
  /\ \A n \in 1..Len(list) : g[n] = IF list[n] \in keys THEN g[n - 1] ELSE Append(g[n - 1], list[n])

LEMMA LeavingIterates ==
  ASSUME NEW K, NEW list \in Seq(K), NEW keys
  PROVE  \E g \in [0..Len(list) -> Seq(K)] : Leaves(g, list, keys) /\ Leaving(list, keys) = g[Len(list)]
<1> DEFINE N == Len(list)
           One(l, n) == IF list[n] \in keys THEN l ELSE Append(l, list[n])
           step == [s \in Seq(K) \X (1..N) |-> One(s[1], s[2])]
           Eqn(f) == f = [n \in 0..N |-> IF n = 0 THEN <<>> ELSE One(f[n - 1], n)]
<1>1. N \in Nat /\ \A n \in 1..N : list[n] \in K
  BY ElementOfSeq
<1>2. \A l \in Seq(K), n \in 1..N : One(l, n) \in Seq(K)
  BY <1>1
<1>3. step \in [Seq(K) \X (1..N) -> Seq(K)]
  <2> HIDE DEF One
  <2> QED  BY <1>2
<1>4. \A l \in Seq(K), n \in 1..N : step[<<l, n>>] = One(l, n)
  <2> HIDE DEF One
  <2> QED  OBVIOUS
<1>5. <<>> \in Seq(K)
  OBVIOUS
<1> HIDE DEF step
<1>6. PICK g \in [0..N -> Seq(K)] : Iterates(g, N, <<>>, step)
  <2> HIDE DEF N
  <2> QED  BY <1>1, <1>3, <1>5, ExistsRecursive
<1> HIDE DEF One
<1>7. \A n \in 1..N : g[n] = One(g[n - 1], n)
  <2> SUFFICES ASSUME NEW n \in 1..N  PROVE g[n] = One(g[n - 1], n)
    OBVIOUS
  <2>1. n - 1 \in 0..N
    BY <1>1
  <2>2. g[n - 1] \in Seq(K) /\ g[n] = step[<<g[n - 1], n>>]
    BY <1>6, <2>1 DEF Iterates
  <2> QED  BY <1>4, <2>2
<1>8. g = [n \in 0..N |-> IF n = 0 THEN <<>> ELSE One(g[n - 1], n)]
  <2>1. \A n \in 0..N : g[n] = IF n = 0 THEN <<>> ELSE One(g[n - 1], n)
    BY <1>1, <1>6, <1>7 DEF Iterates
  <2> QED  BY <1>6, <2>1
<1>9. PICK f : f = (CHOOSE h : Eqn(h))
  OBVIOUS
<1>10. Eqn(f)
  BY <1>8, <1>9
<1>11. Leaving(list, keys) = f[N]
  BY <1>9 DEF Leaving, One
<1>12. DOMAIN f = 0..N /\ f[0] = <<>> /\ \A n \in 1..N : f[n] = One(f[n - 1], n)
  <2>1. DOMAIN f = 0..N /\ \A n \in 0..N : f[n] = IF n = 0 THEN <<>> ELSE One(f[n - 1], n)
    BY <1>10, Zenon
  <2>2. 0 \in 0..N /\ \A n \in 1..N : n \in 0..N /\ n # 0
    BY <1>1
  <2> HIDE DEF Eqn
  <2> QED  BY <2>1, <2>2
<1>13. 0..N \subseteq {n \in 0..N : f[n] \in Seq(K)}
  <2> DEFINE T == {n \in 0..N : f[n] \in Seq(K)}
  <2>1. 0 \in T
    <3>1. f[0] \in Seq(K)
      BY <1>5, <1>12, Zenon
    <3> QED  BY <1>1, <3>1
  <2>2. \A n \in 1..N : n - 1 \in T => n \in T
    BY <1>1, <1>2, <1>12
  <2> HIDE DEF T, N
  <2> QED  BY <1>1, <2>1, <2>2, BoundedInduction DEF T
<1>14. f \in [0..N -> Seq(K)]
  <2>1. f = [n \in 0..N |-> f[n]]
    BY <1>10 DEF Eqn
  <2> QED  BY <1>13, <2>1
<1> QED  BY <1>11, <1>12, <1>14 DEF Leaves, One

LEMMA LeavingType == ASSUME NEW K, NEW list \in Seq(K), NEW keys  PROVE Leaving(list, keys) \in Seq(K)
<1>1. PICK g \in [0..Len(list) -> Seq(K)] : Leaving(list, keys) = g[Len(list)]
  BY LeavingIterates
<1>2. Len(list) \in 0..Len(list)
  OBVIOUS
<1> QED  BY <1>1, <1>2

LEMMA LeavingEmpty == ASSUME NEW keys  PROVE Leaving(<<>>, keys) = <<>>
<1> DEFINE K == {}
<1>1. PICK list : list = <<>>
  OBVIOUS
<1>2. list \in Seq(K) /\ Len(list) = 0
  BY <1>1
<1> HIDE DEF K
<1>3. PICK g \in [0..Len(list) -> Seq(K)] : Leaves(g, list, keys) /\ Leaving(list, keys) = g[Len(list)]
  BY <1>2, LeavingIterates
<1> QED  BY <1>1, <1>2, <1>3 DEF Leaves

LEMMA LeavingAppend ==
  ASSUME NEW K, NEW list \in Seq(K), NEW e \in K, NEW keys
  PROVE  /\ Leaving(list, keys) \in Seq(K)
         /\ e \in keys => Leaving(Append(list, e), keys) = Leaving(list, keys)
         /\ e \notin keys => Leaving(Append(list, e), keys) = Append(Leaving(list, keys), e)
<1> DEFINE N == Len(list)
<1>1. PICK g \in [0..N -> Seq(K)] : Leaves(g, list, keys) /\ Leaving(list, keys) = g[N]
  BY LeavingIterates
<1>2. PICK l : l = Append(list, e)
  OBVIOUS
<1>3. l \in Seq(K) /\ Len(l) = N + 1 /\ l[N + 1] = e /\ \A n \in 1..N : l[n] = list[n]
  BY <1>2, AppendProperties
<1>4. PICK h \in [0..Len(l) -> Seq(K)] : Leaves(h, l, keys) /\ Leaving(l, keys) = h[Len(l)]
  BY <1>3, LeavingIterates
<1>5. N \in Nat
  OBVIOUS
<1>6. 0..N \subseteq {n \in 0..N : h[n] = g[n]}
  <2> DEFINE T == {n \in 0..N : h[n] = g[n]}
  <2>1. 0 \in T
    BY <1>1, <1>4, <1>5 DEF Leaves
  <2>2. \A n \in 1..N : n - 1 \in T => n \in T
    <3> SUFFICES ASSUME NEW n \in 1..N, n - 1 \in T  PROVE n \in T
      OBVIOUS
    <3>1. n \in 1..Len(l) /\ n \in 0..N
      BY <1>3, <1>5
    <3>2. /\ h[n] = IF l[n] \in keys THEN h[n - 1] ELSE Append(h[n - 1], l[n])
          /\ g[n] = IF list[n] \in keys THEN g[n - 1] ELSE Append(g[n - 1], list[n])
      BY <1>1, <1>4, <3>1 DEF Leaves
    <3>3. l[n] = list[n] /\ h[n - 1] = g[n - 1]
      BY <1>3
    <3> QED  BY <3>1, <3>2, <3>3, Zenon
  <2> HIDE DEF T, N
  <2> QED  BY <1>5, <2>1, <2>2, BoundedInduction DEF T
<1>7. h[N + 1] = IF e \in keys THEN h[N] ELSE Append(h[N], e)
  <2>1. N + 1 \in 1..Len(l) /\ (N + 1) - 1 = N
    BY <1>3, <1>5
  <2> QED  BY <1>3, <1>4, <2>1 DEF Leaves
<1>8. h[N] = g[N] /\ g[N] \in Seq(K)
  BY <1>5, <1>6
<1> QED  BY <1>1, <1>2, <1>3, <1>4, <1>7, <1>8

LEMMA AppendElements ==
  ASSUME NEW K, NEW list \in Seq(K), NEW e \in K
  PROVE  /\ ToSet(Append(list, e)) = ToSet(list) \union {e}
         /\ IsInjective(Append(list, e)) <=> IsInjective(list) /\ e \notin ToSet(list)
<1>1. PICK l : l = Append(list, e)
  OBVIOUS
<1>2. /\ DOMAIN list = 1..Len(list) /\ DOMAIN l = 1..(Len(list) + 1) /\ Len(list) \in Nat
      /\ l[Len(list) + 1] = e /\ \A n \in 1..Len(list) : l[n] = list[n]
  BY <1>1, AppendProperties
<1>3. ToSet(l) = ToSet(list) \union {e}
  <2>1. \A n \in DOMAIN l : n = Len(list) + 1 \/ n \in DOMAIN list
    BY <1>2
  <2> QED  BY <1>2, <2>1 DEF ToSet
<1>4. IsInjective(l) <=> IsInjective(list) /\ e \notin ToSet(list)
  BY <1>2 DEF ToSet, IsInjective
<1> QED  BY <1>1, <1>3, <1>4

LEMMA PushElements ==
  ASSUME NEW K, NEW list \in Seq(K), NEW e \in K
  PROVE  /\ ToSet(<<e>> \o list) = ToSet(list) \union {e}
         /\ IsInjective(list) /\ e \notin ToSet(list) => IsInjective(<<e>> \o list)
<1>1. PICK l : l = <<e>> \o list
  OBVIOUS
<1>2. /\ DOMAIN list = 1..Len(list) /\ DOMAIN l = 1..(Len(list) + 1) /\ Len(list) \in Nat
      /\ \A n \in 1..(Len(list) + 1) : l[n] = IF n = 1 THEN e ELSE list[n - 1]
  BY <1>1, PushType
<1>3. ToSet(l) = ToSet(list) \union {e}
  <2>1. 1 \in DOMAIN l /\ l[1] = e
    BY <1>2
  <2>2. \A n \in DOMAIN l : n = 1 \/ (n - 1 \in DOMAIN list /\ l[n] = list[n - 1])
    BY <1>2
  <2>3. \A n \in DOMAIN list : n + 1 \in DOMAIN l /\ l[n + 1] = list[n]
    BY <1>2
  <2> QED  BY <2>1, <2>2, <2>3 DEF ToSet
<1>4. ASSUME IsInjective(list), e \notin ToSet(list)  PROVE IsInjective(l)
  BY <1>2, <1>4, SMTT(20) DEF ToSet, IsInjective
<1> QED  BY <1>1, <1>3, <1>4

LEMMA PrefixElements ==
  ASSUME NEW K, NEW list \in Seq(K), NEW n \in 0..Len(list)
  PROVE  /\ SubSeq(list, 1, n) \in Seq(K) /\ ToSet(SubSeq(list, 1, n)) \subseteq ToSet(list)
         /\ IsInjective(list) => IsInjective(SubSeq(list, 1, n))
<1>1. PICK l : l = SubSeq(list, 1, n)
  OBVIOUS
<1>2. /\ l \in Seq(K) /\ DOMAIN list = 1..Len(list) /\ DOMAIN l = 1..n /\ Len(list) \in Nat
      /\ \A i \in 1..n : l[i] = list[i] /\ i \in DOMAIN list
  BY <1>1, SubSeqProperties
<1> QED  BY <1>1, <1>2 DEF ToSet, IsInjective

LEMMA ElementsType == ASSUME NEW K, NEW list \in Seq(K)  PROVE ToSet(list) \subseteq K
BY DEF ToSet

LEMMA EmptyElements == ToSet(<<>>) = {} /\ IsInjective(<<>>)
<1>1. PICK l : l = <<>>
  OBVIOUS
<1>2. DOMAIN l = {}
  BY <1>1
<1>3. ToSet(l) = {} /\ IsInjective(l)
  BY <1>2 DEF ToSet, IsInjective
<1> QED  BY <1>1, <1>3, Zenon

\* What is left is the rest of the keys, each once if they were, and costs no more.
LEMMA LeavingCorrect ==
  ASSUME NEW K, NEW store, Costs(store, K), NEW list \in Seq(K), NEW keys
  PROVE  LET left == Leaving(list, keys) IN
         /\ left \in Seq(K) /\ ToSet(left) = ToSet(list) \ keys
         /\ IsInjective(list) => IsInjective(left)
         /\ TotalCost(store, left) \in Nat /\ TotalCost(store, left) <= TotalCost(store, list)
<1> DEFINE Fine(l, left) ==
             /\ left \in Seq(K) /\ ToSet(left) = ToSet(l) \ keys
             /\ IsInjective(l) => IsInjective(left)
             /\ TotalCost(store, left) \in Nat /\ TotalCost(store, left) <= TotalCost(store, l)
           T == {l \in Seq(K) : Fine(l, Leaving(l, keys))}
<1>1. <<>> \in T
  <2>1. Leaving(<<>>, keys) = <<>> /\ TotalCost(store, <<>>) = 0 /\ <<>> \in Seq(K)
    BY LeavingEmpty, TotalEmpty
  <2>2. ToSet(<<>>) = {} /\ IsInjective(<<>>)
    BY EmptyElements
  <2> HIDE DEF T
  <2>3. TotalCost(store, <<>>) \in Nat /\ TotalCost(store, <<>>) <= TotalCost(store, <<>>)
    BY <2>1
  <2>4. Fine(<<>>, Leaving(<<>>, keys))
    BY <2>1, <2>2, <2>3, Zenon
  <2> QED  BY <2>1, <2>4, Zenon DEF T
<1>2. \A l \in Seq(K), e \in K : l \in T => Append(l, e) \in T
  <2> SUFFICES ASSUME NEW l \in Seq(K), NEW e \in K, l \in T  PROVE Append(l, e) \in T
    OBVIOUS
  <2>1. PICK left : left = Leaving(l, keys)
    OBVIOUS
  <2>2. Fine(l, left)
    BY <2>1
  <2>3. PICK m : m = Append(l, e)
    OBVIOUS
  <2>4. m \in Seq(K) /\ ToSet(m) = ToSet(l) \union {e} /\ (IsInjective(m) <=> IsInjective(l) /\ e \notin ToSet(l))
    BY <2>3, AppendElements
  <2>5. TotalCost(store, m) = TotalCost(store, l) + Cost(store[e]) /\ TotalCost(store, l) \in Nat /\ Cost(store[e]) \in Nat
    BY <2>3, TotalAppend DEF Costs
  <2> HIDE DEF T
  <2>6. Fine(m, Leaving(m, keys))
    <3>1. CASE e \in keys
      <4>1. Leaving(m, keys) = left
        BY <2>1, <2>3, <3>1, LeavingAppend
      <4>2. Fine(m, left)
        BY <2>2, <2>4, <2>5, <3>1
      <4> QED  BY <4>1, <4>2
    <3>2. CASE e \notin keys
      <4>1. PICK n : n = Append(left, e)
        OBVIOUS
      <4>2. Leaving(m, keys) = n
        <5>1. Leaving(Append(l, e), keys) = Append(Leaving(l, keys), e)
          BY <3>2, LeavingAppend
        <5> QED  BY <2>1, <2>3, <4>1, <5>1, Zenon
      <4>3. n \in Seq(K) /\ ToSet(n) = ToSet(left) \union {e} /\ (IsInjective(n) <=> IsInjective(left) /\ e \notin ToSet(left))
        BY <2>2, <4>1, AppendElements
      <4>4. TotalCost(store, n) = TotalCost(store, left) + Cost(store[e])
        BY <2>2, <4>1, TotalAppend
      <4>5. TotalCost(store, n) \in Nat /\ TotalCost(store, n) <= TotalCost(store, m)
        BY <2>2, <2>5, <4>4
      <4>6. ToSet(n) = ToSet(m) \ keys /\ (IsInjective(m) => IsInjective(n))
        BY <2>2, <2>4, <3>2, <4>3
      <4> QED  BY <4>2, <4>3, <4>5, <4>6
    <3> QED  BY <3>1, <3>2
  <2> QED  BY <2>3, <2>4, <2>6 DEF T
<1> HIDE DEF T
<1>3. Seq(K) \subseteq T
  BY <1>1, <1>2, AppendInduction
<1> QED  BY <1>3 DEF T

\* Without a key that is there once, the list costs less by what the key costs.
LEMMA LeavingOne ==
  ASSUME NEW K, NEW store, Costs(store, K), NEW list \in Seq(K), IsInjective(list), NEW key \in K
  PROVE  /\ key \notin ToSet(list) => Leaving(list, {key}) = list
         /\ key \in ToSet(list) =>
              TotalCost(store, Leaving(list, {key})) + Cost(store[key]) = TotalCost(store, list)
<1> DEFINE Fine(l) ==
             /\ key \notin ToSet(l) => Leaving(l, {key}) = l
             /\ key \in ToSet(l) => TotalCost(store, Leaving(l, {key})) + Cost(store[key]) = TotalCost(store, l)
           T == {l \in Seq(K) : IsInjective(l) => Fine(l)}
<1>1. <<>> \in T
  <2>1. Leaving(<<>>, {key}) = <<>> /\ <<>> \in Seq(K) /\ ToSet(<<>>) = {}
    BY LeavingEmpty, EmptyElements
  <2> QED  BY <2>1, Zenon
<1>2. \A l \in Seq(K), e \in K : l \in T => Append(l, e) \in T
  <2> SUFFICES ASSUME NEW l \in Seq(K), NEW e \in K, l \in T  PROVE Append(l, e) \in T
    OBVIOUS
  <2>1. PICK left : left = Leaving(l, {key})
    OBVIOUS
  <2>2. PICK m : m = Append(l, e)
    OBVIOUS
  <2>3. m \in Seq(K) /\ ToSet(m) = ToSet(l) \union {e} /\ (IsInjective(m) <=> IsInjective(l) /\ e \notin ToSet(l))
    BY <2>2, AppendElements
  <2>4. TotalCost(store, m) = TotalCost(store, l) + Cost(store[e]) /\ TotalCost(store, l) \in Nat /\ Cost(store[e]) \in Nat
    BY <2>2, TotalAppend DEF Costs
  <2>5. left \in Seq(K) /\ TotalCost(store, left) \in Nat
    BY <2>1, LeavingCorrect
  <2>6. IsInjective(l) =>
          /\ key \notin ToSet(l) => left = l
          /\ key \in ToSet(l) => TotalCost(store, left) + Cost(store[key]) = TotalCost(store, l)
    BY <2>1
  <2> HIDE DEF T
  <2>7. ASSUME IsInjective(m)  PROVE Fine(m)
    <3>1. CASE e = key
      <4>1. Leaving(m, {key}) = left /\ key \in ToSet(m) /\ left = l
        BY <2>1, <2>2, <2>3, <2>6, <2>7, <3>1, LeavingAppend
      <4> QED  BY <2>4, <3>1, <4>1
    <3>2. CASE e # key
      <4>1. PICK n : n = Append(left, e)
        OBVIOUS
      <4>2. Leaving(m, {key}) = n /\ (key \in ToSet(m) <=> key \in ToSet(l))
        <5>1. Leaving(Append(l, e), {key}) = Append(Leaving(l, {key}), e)
          BY <3>2, LeavingAppend, SMTT(20)
        <5>2. Leaving(m, {key}) = n
          BY <2>1, <2>2, <4>1, <5>1, Zenon
        <5> QED  BY <2>3, <3>2, <5>2
      <4>3. TotalCost(store, n) = TotalCost(store, left) + Cost(store[e]) /\ Cost(store[key]) \in Nat
        BY <2>5, <4>1, TotalAppend DEF Costs
      <4>4. CASE key \notin ToSet(l)
        BY <2>2, <2>3, <2>6, <2>7, <4>1, <4>2, <4>4
      <4>5. CASE key \in ToSet(l)
        BY <2>3, <2>4, <2>5, <2>6, <2>7, <4>2, <4>3, <4>5
      <4> QED  BY <4>4, <4>5
    <3> QED  BY <3>1, <3>2
  <2> QED  BY <2>2, <2>3, <2>7 DEF T
<1> HIDE DEF T
<1>3. Seq(K) \subseteq T
  BY <1>1, <1>2, AppendInduction
<1> QED  BY <1>3 DEF T

LEMMA OwnElements == ASSUME NEW K, NEW list \in Seq(K)  PROVE list \in Seq(ToSet(list))
<1>1. DOMAIN list = 1..Len(list) /\ Len(list) \in Nat /\ list = [i \in 1..Len(list) |-> list[i]]
  BY LenProperties
<1>2. list \in [1..Len(list) -> ToSet(list)]
  BY <1>1 DEF ToSet
<1> QED  BY <1>1, <1>2, SeqDef

LEMMA MaxCorrect ==
  ASSUME NEW N \in Nat, NEW S \in SUBSET (0..N), S # {}
  PROVE  Max(S) \in S
<1> DEFINE T == {k \in 0..N : (\E x \in S : x <= k) => \E x \in S : x <= k /\ \A y \in S : y <= k => y <= x}
<1>1. 0 \in T
  OBVIOUS
<1>2. \A k \in 1..N : k - 1 \in T => k \in T
  <2> SUFFICES ASSUME NEW k \in 1..N, k - 1 \in T  PROVE k \in T
    OBVIOUS
  <2>1. CASE k \in S
    BY <2>1
  <2>2. CASE k \notin S
    <3>1. \A y \in S : y <= k <=> y <= k - 1
      BY <2>2
    <3> QED  BY <3>1
  <2> QED  BY <2>1, <2>2
<1> HIDE DEF T
<1>3. N \in T
  BY <1>1, <1>2, BoundedInduction
<1>4. \E x \in S : \A y \in S : x >= y
  <2>1. \A x \in S : x \in Nat /\ x <= N
    OBVIOUS
  <2>2. \E x \in S : x <= N
    BY <2>1
  <2>3. PICK x \in S : \A y \in S : y <= N => y <= x
    BY <1>3, <2>2 DEF T
  <2> QED  BY <2>1, <2>3
<1> QED  BY <1>4 DEF Max

-----------------------------------------------------------------------------
(* What the calls do to the backend. *)

BackendOK(b) ==
  /\ b = [kind |-> b.kind, store |-> b.store, recent |-> b.recent]
  /\ b.kind \in Backends
  /\ DOMAIN b.store \subseteq Entries /\ \A k \in DOMAIN b.store : b.store[k] \in Entry
  /\ b.recent \in Seq(Entries)
  /\ b.kind = "RamCache" =>
       /\ ToSet(b.recent) = DOMAIN b.store /\ IsInjective(b.recent)
       /\ TotalCost(b.store, b.recent) <= MaxSize

LEMMA CostType == ASSUME NEW entry \in Entry  PROVE Cost(entry) \in Nat
BY SizeAssumption DEF Cost, Entry

LEMMA BackendCosts ==
  ASSUME NEW b, BackendOK(b)
  PROVE  /\ Costs(b.store, DOMAIN b.store)
         /\ b.kind = "RamCache" => b.recent \in Seq(DOMAIN b.store)
<1>1. Costs(b.store, DOMAIN b.store)
  BY CostType DEF BackendOK, Costs
<1>2. ASSUME b.kind = "RamCache"  PROVE b.recent \in Seq(DOMAIN b.store)
  BY <1>2, OwnElements DEF BackendOK
<1> QED  BY <1>1, <1>2

\* Removing keys keeps the other entries, in their order.
LEMMA WithoutCorrect ==
  ASSUME BackendOK(backend), NEW keys
  PROVE  LET b == Without(keys) IN
         /\ BackendOK(b) /\ b.kind = backend.kind
         /\ DOMAIN b.store = Stored \ keys /\ \A k \in DOMAIN b.store : b.store[k] = backend.store[k]
<1>1. PICK store : store = Only(Stored \ keys)
  OBVIOUS
<1>2. PICK recent : recent = Leaving(backend.recent, keys)
  OBVIOUS
<1>3. PICK kind : kind = backend.kind
  OBVIOUS
<1>4. PICK b : b = Without(keys)
  OBVIOUS
<1>5. b = [kind |-> kind, store |-> store, recent |-> recent]
  BY <1>1, <1>2, <1>3, <1>4 DEF Without, BackendOK
<1>6. DOMAIN store = Stored \ keys /\ \A k \in DOMAIN store : store[k] = backend.store[k]
  BY <1>1 DEF Only
<1>7. recent \in Seq(Entries)
  <2>1. backend.recent \in Seq(Entries)
    BY DEF BackendOK
  <2> QED  BY <1>2, <2>1, LeavingType
<1>8. ASSUME kind = "RamCache"
      PROVE ToSet(recent) = DOMAIN store /\ IsInjective(recent) /\ TotalCost(store, recent) <= MaxSize
  <2>1. /\ Costs(backend.store, Stored) /\ backend.recent \in Seq(Stored)
        /\ ToSet(backend.recent) = Stored /\ IsInjective(backend.recent)
        /\ TotalCost(backend.store, backend.recent) <= MaxSize
    BY <1>3, <1>8, BackendCosts DEF BackendOK, Stored
  <2>2. /\ ToSet(recent) = Stored \ keys /\ IsInjective(recent) /\ recent \in Seq(Stored)
        /\ TotalCost(backend.store, recent) \in Nat
        /\ TotalCost(backend.store, recent) <= TotalCost(backend.store, backend.recent)
    BY <1>2, <2>1, LeavingCorrect
  <2>3. recent \in Seq(DOMAIN store) /\ Costs(backend.store, DOMAIN store)
    BY <1>6, <2>1, <2>2, OwnElements DEF Costs
  <2>4. TotalCost(store, recent) = TotalCost(backend.store, recent)
    BY <1>6, <2>3, TotalAgrees
  <2>5. TotalCost(backend.store, backend.recent) \in Nat
    BY <2>1, TotalType
  <2> QED  BY <1>6, <2>1, <2>2, <2>4, <2>5, SizeAssumption
<1>9. BackendOK(b)
  BY <1>3, <1>5, <1>6, <1>7, <1>8 DEF BackendOK, Stored
<1> QED  BY <1>3, <1>4, <1>5, <1>6, <1>9

\* An insertion trims a RamCache until the entry fits, and stores it, unless it is too big.
LEMMA WithCorrect ==
  ASSUME BackendOK(backend), NEW key \in Entries, NEW entry \in Entry
  PROVE  LET b == With(key, entry) IN
         /\ BackendOK(b) /\ b.kind = backend.kind
         /\ DOMAIN b.store \subseteq Stored \union {key}
         /\ \A k \in DOMAIN b.store : b.store[k] = IF k = key THEN entry ELSE backend.store[k]
<1>1. PICK b : b = With(key, entry)
  OBVIOUS
<1>2. CASE backend.kind = "RamCache" /\ InsertCost(entry) > MaxSize
  <2>1. b = Without({key})
    BY <1>1, <1>2 DEF With
  <2> QED  BY <1>1, <2>1, WithoutCorrect
<1>3. CASE backend.kind # "RamCache"
  <2>1. PICK store : store = [k \in Stored \union {key} |-> IF k = key THEN entry ELSE backend.store[k]]
    OBVIOUS
  <2>2. b = [kind |-> backend.kind, store |-> store, recent |-> backend.recent]
    BY <1>1, <1>3, <2>1 DEF With, BackendOK
  <2>3. DOMAIN store = Stored \union {key} /\ \A k \in DOMAIN store : store[k] = IF k = key THEN entry ELSE backend.store[k]
    BY <2>1
  <2>4. BackendOK(b)
    BY <1>3, <2>2, <2>3 DEF BackendOK, Stored
  <2> QED  BY <1>1, <2>2, <2>3, <2>4
<1>4. CASE backend.kind = "RamCache" /\ ~(InsertCost(entry) > MaxSize)
  <2>1. /\ Costs(backend.store, Stored) /\ backend.recent \in Seq(Stored)
        /\ ToSet(backend.recent) = Stored /\ IsInjective(backend.recent)
    BY <1>4, BackendCosts DEF BackendOK, Stored
  <2>2. PICK others : others = Leaving(backend.recent, {key})
    OBVIOUS
  <2>3. others \in Seq(Stored) /\ ToSet(others) = Stored \ {key} /\ IsInjective(others)
    BY <2>1, <2>2, LeavingCorrect
  <2>4. PICK kept : kept = Kept(others, InsertCost(entry))
    OBVIOUS
  <2>5. InsertCost(entry) \in Nat /\ InsertCost(entry) = Cost(entry) /\ InsertCost(entry) <= MaxSize
    BY <1>4, CostType, SizeAssumption DEF InsertCost
  <2>6. PICK n \in 0..Len(others) :
          /\ kept = SubSeq(others, 1, n)
          /\ TotalCost(backend.store, kept) + InsertCost(entry) <= MaxSize
    <3> DEFINE fits(n) == TotalCost(backend.store, SubSeq(others, 1, n)) + InsertCost(entry) <= MaxSize
               S == {n \in 0..Len(others) : fits(n)}
    <3>1. Len(others) \in Nat /\ S \in SUBSET (0..Len(others))
      BY <2>3
    <3>2. 0 \in S
      <4>1. SubSeq(others, 1, 0) = <<>>
        BY <2>3, SubSeqEmpty
      <4>2. TotalCost(backend.store, SubSeq(others, 1, 0)) = 0
        BY <4>1, TotalEmpty
      <4> QED  BY <2>5, <3>1, <4>2
    <3>3. kept = SubSeq(others, 1, Max(S))
      BY <2>4 DEF Kept
    <3> HIDE DEF S
    <3>4. Max(S) \in S
      BY <3>1, <3>2, MaxCorrect
    <3> QED  BY <3>3, <3>4 DEF S
  <2>7. kept \in Seq(Stored) /\ ToSet(kept) \subseteq Stored \ {key} /\ IsInjective(kept)
    BY <2>3, <2>6, PrefixElements
  <2>8. PICK store : store = [k \in ToSet(kept) \union {key} |-> IF k = key THEN entry ELSE backend.store[k]]
    OBVIOUS
  <2>9. PICK recent : recent = <<key>> \o kept
    OBVIOUS
  <2>10. b = [kind |-> backend.kind, store |-> store, recent |-> recent]
    BY <1>1, <1>4, <2>2, <2>4, <2>8, <2>9 DEF With, BackendOK
  <2>11. DOMAIN store = ToSet(kept) \union {key} /\ \A k \in DOMAIN store : store[k] = IF k = key THEN entry ELSE backend.store[k]
    BY <2>8
  <2>12. DOMAIN store \subseteq Entries /\ \A k \in DOMAIN store : store[k] \in Entry
    BY <2>7, <2>11 DEF BackendOK, Stored
  <2>13. kept \in Seq(DOMAIN store) /\ key \in DOMAIN store
    BY <2>7, <2>11, OwnElements
  <2>14. recent \in Seq(DOMAIN store) /\ ToSet(recent) = DOMAIN store /\ IsInjective(recent)
    <3>1. key \notin ToSet(kept)
      BY <2>7
    <3>2. recent \in Seq(DOMAIN store)
      BY <2>9, <2>13, PushType
    <3> QED  BY <2>7, <2>9, <2>11, <2>13, <3>1, <3>2, PushElements
  <2>15. Costs(store, DOMAIN store)
    BY <2>12, CostType DEF Costs
  <2>16. TotalCost(store, recent) = TotalCost(store, kept) + Cost(store[key])
    BY <2>9, <2>13, <2>15, TotalPush
  <2>17. TotalCost(store, kept) = TotalCost(backend.store, kept)
    <3>1. kept \in Seq(ToSet(kept))
      BY <2>7, OwnElements
    <3>2. \A k \in ToSet(kept) : store[k] = backend.store[k]
      BY <2>7, <2>11
    <3>3. Costs(backend.store, ToSet(kept))
      BY <2>1, <2>7 DEF Costs
    <3> QED  BY <3>1, <3>2, <3>3, TotalAgrees
  <2>18. TotalCost(store, recent) <= MaxSize
    <3>1. store[key] = entry
      BY <2>11
    <3> QED  BY <2>5, <2>6, <2>16, <2>17, <3>1
  <2>19. recent \in Seq(Entries)
    BY <2>12, <2>14, SeqMonotonic
  <2>20. BackendOK(b)
    BY <2>10, <2>12, <2>14, <2>18, <2>19 DEF BackendOK
  <2> QED  BY <1>1, <2>7, <2>10, <2>11, <2>20
<1> QED  BY <1>2, <1>3, <1>4

\* QCache::object() changes the order of the uses, and nothing else.
LEMMA MovedCorrect ==
  ASSUME BackendOK(backend), backend.kind = "RamCache", NEW key \in Stored
  PROVE  LET b == [backend EXCEPT !.recent = <<key>> \o Leaving(@, {key})] IN
         BackendOK(b) /\ b.kind = backend.kind /\ b.store = backend.store
<1>1. PICK recent : recent = <<key>> \o Leaving(backend.recent, {key})
  OBVIOUS
<1>2. PICK b : b = [backend EXCEPT !.recent = <<key>> \o Leaving(@, {key})]
  OBVIOUS
<1>3. b = [kind |-> backend.kind, store |-> backend.store, recent |-> recent]
  BY <1>1, <1>2 DEF BackendOK
<1>4. /\ Costs(backend.store, Stored) /\ backend.recent \in Seq(Stored)
      /\ ToSet(backend.recent) = Stored /\ IsInjective(backend.recent)
      /\ TotalCost(backend.store, backend.recent) <= MaxSize
  BY BackendCosts DEF BackendOK, Stored
<1>5. PICK others : others = Leaving(backend.recent, {key})
  OBVIOUS
<1>6. others \in Seq(Stored) /\ ToSet(others) = Stored \ {key} /\ IsInjective(others)
  BY <1>4, <1>5, LeavingCorrect
<1>7. TotalCost(backend.store, others) + Cost(backend.store[key]) = TotalCost(backend.store, backend.recent)
  BY <1>4, <1>5, LeavingOne
<1>8. recent = <<key>> \o others
  BY <1>1, <1>5, Zenon
<1>9. recent \in Seq(Stored) /\ TotalCost(backend.store, recent) = TotalCost(backend.store, others) + Cost(backend.store[key])
  BY <1>4, <1>6, <1>8, PushType, TotalPush
<1>10. ToSet(recent) = Stored /\ IsInjective(recent)
  <2>1. /\ ToSet(<<key>> \o others) = ToSet(others) \union {key}
        /\ IsInjective(others) /\ key \notin ToSet(others) => IsInjective(<<key>> \o others)
    BY <1>6, PushElements
  <2> QED  BY <1>6, <1>8, <2>1
<1>11. recent \in Seq(Entries)
  BY <1>9, SeqMonotonic DEF BackendOK, Stored
<1>12. TotalCost(backend.store, recent) <= MaxSize
  BY <1>4, <1>7, <1>9
<1>13. BackendOK(b)
  BY <1>3, <1>10, <1>11, <1>12 DEF BackendOK, Stored
<1> QED  BY <1>2, <1>3, <1>13

-----------------------------------------------------------------------------
(* The inductive invariant: the steps of the calls. *)

Exclusive == {"insert", "remove", "removeAssociated"}
StepNames ==
  Exclusive \union {"lockMutex", "lockRead", "lockWrite", "lookup", "relink", "readFile", "register", "unwatch"}
CallKeys == Entries \union (Caches \X {None})
Calls ==
  [steps : Seq(StepNames), key : CallKeys \union {None}, file : Files \union {None}, entry : Entry \union {None}]

\* A lock is held for the step that follows, and for relinking after the lookup; who
\* unwatches a file removes its entries next.
Paired(s) ==
  /\ \A i \in 2..Len(s) :
       /\ s[i] \in Exclusive <=> s[i - 1] = "lockWrite"
       /\ s[i] = "lookup" <=> s[i - 1] = "lockRead"
       /\ s[i] = "relink" <=> s[i - 1] = "lookup"
  /\ \A i \in 1..Len(s) : s[i] \in {"lockWrite", "lockRead", "lookup"} => i # Len(s)
  /\ \A i \in 1..Len(s) : s[i] = "unwatch" => i + 2 <= Len(s) /\ s[i + 2] = "removeAssociated"

\* What the steps of the call need of it.
Supplied(call) ==
  LET s == call.steps IN
  \A i \in 1..Len(s) :
    /\ call.key \in CallKeys
    /\ s[i] \in {"lookup", "relink", "insert", "remove", "register"} => call.key \in Entries
    /\ s[i] \in {"register", "unwatch", "removeAssociated", "readFile"} => call.file \in Files
    /\ s[i] = "insert" => call.entry \in Entry \/ \E j \in 1..(i - 1) : s[j] = "readFile"

CallOK(call) == call \in Calls /\ Paired(call.steps) /\ Supplied(call)
CallsOK == DOMAIN thread = Threads /\ \A t \in Threads : CallOK(thread[t])

LEMMA IdleCall == CallOK(Idle) /\ Idle.steps = <<>>
<1>1. PICK s : s = <<>>
  OBVIOUS
<1>2. s \in Seq(StepNames) /\ Len(s) = 0
  BY <1>1
<1>3. Idle = [steps |-> s, key |-> None, file |-> None, entry |-> None]
  BY <1>1 DEF Idle
<1>4. CallOK(Idle) /\ Idle.steps = s
  BY <1>2, <1>3 DEF CallOK, Calls, Paired, Supplied
<1> QED  BY <1>1, <1>4

\* The steps of the five calls.
LEMMA PlansCorrect ==
  /\ ValueSteps \in Seq(StepNames) /\ Paired(ValueSteps)
  /\ SetValueSteps \in Seq(StepNames) /\ Paired(SetValueSteps)
  /\ StoreResponseSteps \in Seq(StepNames) /\ Paired(StoreResponseSteps)
  /\ RemoveAssociatedSteps \in Seq(StepNames) /\ Paired(RemoveAssociatedSteps)
  /\ Len(RemoveSteps) = 6
  /\ RemoveSteps[1] = "lockMutex" /\ RemoveSteps[2] = "unwatch" /\ RemoveSteps[3] = "lockWrite"
  /\ RemoveSteps[4] = "removeAssociated" /\ RemoveSteps[5] = "lockWrite" /\ RemoveSteps[6] = "remove"
  /\ RemoveSteps \in Seq(StepNames) /\ Paired(RemoveSteps)
<1>1. ValueSteps \in Seq(StepNames) /\ Paired(ValueSteps)
  BY DEF ValueSteps, StepNames, Exclusive, Paired
<1>2. SetValueSteps \in Seq(StepNames) /\ Paired(SetValueSteps)
  BY DEF SetValueSteps, StepNames, Exclusive, Paired
<1>3. StoreResponseSteps \in Seq(StepNames) /\ Paired(StoreResponseSteps)
  BY DEF StoreResponseSteps, StepNames, Exclusive, Paired
<1>4. RemoveAssociatedSteps \in Seq(StepNames) /\ Paired(RemoveAssociatedSteps)
  BY DEF RemoveAssociatedSteps, StepNames, Exclusive, Paired
<1>5. /\ RemoveSteps \in Seq(StepNames) /\ Len(RemoveSteps) = 6
      /\ RemoveSteps[1] = "lockMutex" /\ RemoveSteps[2] = "unwatch" /\ RemoveSteps[3] = "lockWrite"
      /\ RemoveSteps[4] = "removeAssociated" /\ RemoveSteps[5] = "lockWrite" /\ RemoveSteps[6] = "remove"
  <2>1. PICK a, b : a = RemoveAssociatedSteps /\ b = <<"lockWrite", "remove">>
    OBVIOUS
  <2>2. /\ a \in Seq(StepNames) /\ Len(a) = 4 /\ a[1] = "lockMutex" /\ a[2] = "unwatch"
        /\ a[3] = "lockWrite" /\ a[4] = "removeAssociated"
    BY <2>1 DEF RemoveAssociatedSteps, StepNames, Exclusive
  <2>3. b \in Seq(StepNames) /\ Len(b) = 2 /\ b[1] = "lockWrite" /\ b[2] = "remove"
    BY <2>1 DEF StepNames, Exclusive
  <2>4. RemoveSteps = a \o b
    BY <2>1 DEF RemoveSteps
  <2>5. /\ a \o b \in Seq(StepNames) /\ Len(a \o b) = 6
        /\ \A i \in 1..6 : (a \o b)[i] = IF i <= 4 THEN a[i] ELSE b[i - 4]
    <3>1. /\ a \o b \in Seq(StepNames) /\ Len(a \o b) = Len(a) + Len(b)
          /\ \A i \in 1..(Len(a) + Len(b)) : (a \o b)[i] = IF i <= Len(a) THEN a[i] ELSE b[i - Len(a)]
      <4> HIDE DEF StepNames
      <4> QED  BY <2>2, <2>3, ConcatProperties, Zenon
    <3>2. 4 + 2 = 6
      OBVIOUS
    <3> QED  BY <2>2, <2>3, <3>1, <3>2, Zenon
  <2>6. PICK c : c = a \o b
    OBVIOUS
  <2>7. /\ c \in Seq(StepNames) /\ Len(c) = 6
        /\ c[1] = a[1] /\ c[2] = a[2] /\ c[3] = a[3] /\ c[4] = a[4] /\ c[5] = b[1] /\ c[6] = b[2]
    BY <2>5, <2>6, SMTT(20)
  <2> QED  BY <2>2, <2>3, <2>4, <2>6, <2>7, Zenon
<1>6. Paired(RemoveSteps)
  <2>1. \A i \in 1..6 : i = 1 \/ i = 2 \/ i = 3 \/ i = 4 \/ i = 5 \/ i = 6
    OBVIOUS
  <2> QED  BY <1>5, <2>1 DEF Exclusive, Paired
<1> QED  BY <1>1, <1>2, <1>3, <1>4, <1>5, <1>6

\* The call of t has lost its first n steps.
StepsLeft(t, n) ==
  LET s == thread[t].steps IN
  /\ \A u \in Threads \ {t} : thread'[u] = thread[u]
  /\ Len(s) \in Nat /\ Len(thread'[t].steps) = Len(s) - n
  /\ \A i \in 1..(Len(s) - n) : thread'[t].steps[i] = s[i + n]
  /\ Len(s) # n => thread'[t].key = thread[t].key /\ thread'[t].file = thread[t].file

LEMMA NextStep ==
  ASSUME CallsOK, NEW t \in Threads, NEW step, IsNext(t, step)
  PROVE  LET s == thread[t].steps IN
         s \in Seq(StepNames) /\ Len(s) \in Nat /\ Len(s) >= 1 /\ s[1] = step
<1>1. thread[t].steps \in Seq(StepNames)
  BY DEF CallsOK, CallOK, Calls
<1> QED  BY <1>1 DEF IsNext

LEMMA DoneEffect ==
  ASSUME CallsOK, NEW t \in Threads, NEW n \in 1..2, n <= Len(thread[t].steps), Done(t, n)
  PROVE  /\ StepsLeft(t, n)
         /\ (\A j \in 1..n : thread[t].steps[j] # "readFile") => CallsOK'
<1>1. PICK call : call = thread[t]
  OBVIOUS
<1>2. PICK s : s = call.steps
  OBVIOUS
<1>3. /\ CallOK(call) /\ s \in Seq(StepNames) /\ Len(s) \in Nat /\ n <= Len(s) /\ n \in Nat /\ DOMAIN thread = Threads
      /\ call = [steps |-> s, key |-> call.key, file |-> call.file, entry |-> call.entry]
  BY <1>1, <1>2 DEF CallsOK, CallOK, Calls
<1>4. PICK new : new = IF Len(s) = n THEN Idle ELSE [call EXCEPT !.steps = SubSeq(s, n + 1, Len(s))]
  OBVIOUS
<1>5. thread' = [thread EXCEPT ![t] = new]
  <2>1. thread' = [thread EXCEPT ![t] =
          IF Len(thread[t].steps) = n THEN Idle
          ELSE [thread[t] EXCEPT !.steps = SubSeq(thread[t].steps, n + 1, Len(thread[t].steps))]]
    BY DEF Done
  <2> QED  BY <1>1, <1>2, <1>4, <2>1, Zenon
<1>6. thread'[t] = new /\ DOMAIN thread' = Threads /\ \A u \in Threads \ {t} : thread'[u] = thread[u]
  BY <1>3, <1>5
<1>7. CASE Len(s) = n
  <2>1. new = Idle /\ new.steps = <<>> /\ CallOK(new)
    BY <1>4, <1>7, IdleCall
  <2>2. Len(new.steps) = 0
    BY <2>1
  <2>3. StepsLeft(t, n)
    BY <1>1, <1>2, <1>3, <1>6, <1>7, <2>2 DEF StepsLeft
  <2>4. CallsOK'
    <3> SUFFICES ASSUME NEW u \in Threads  PROVE CallOK(thread'[u])
      BY <1>6 DEF CallsOK
    <3> QED  BY <1>6, <2>1 DEF CallsOK
  <2> QED  BY <2>3, <2>4
<1>8. CASE Len(s) # n
  <2>1. PICK rest : rest = SubSeq(s, n + 1, Len(s))
    OBVIOUS
  <2>2. /\ rest \in Seq(StepNames) /\ Len(rest) = Len(s) - n
        /\ \A i \in 1..(Len(s) - n) : rest[i] = s[i + n]
    <3>1. /\ rest \in Seq(StepNames)
          /\ Len(rest) = IF n + 1 <= Len(s) THEN Len(s) - (n + 1) + 1 ELSE 0
          /\ \A i \in 1..(Len(s) - (n + 1) + 1) : rest[i] = s[(n + 1) + i - 1]
      <4>1. \A i \in (n + 1)..Len(s) : s[i] \in StepNames
        BY <1>3
      <4> HIDE DEF StepNames
      <4> QED  BY <1>3, <2>1, <4>1, SubSeqProperties
    <3>2. Len(s) - (n + 1) + 1 = Len(s) - n /\ n + 1 <= Len(s)
      BY <1>3, <1>8
    <3>3. \A i \in 1..(Len(s) - n) : (n + 1) + i - 1 = i + n
      BY <1>3
    <3> QED  BY <3>1, <3>2, <3>3
  <2>3. new = [steps |-> rest, key |-> call.key, file |-> call.file, entry |-> call.entry]
    BY <1>3, <1>4, <1>8, <2>1
  <2>4. StepsLeft(t, n)
    BY <1>1, <1>2, <1>3, <1>6, <2>2, <2>3 DEF StepsLeft
  <2>5. ASSUME \A j \in 1..n : s[j] # "readFile"  PROVE CallOK(new)
    <3>1. new \in Calls
      BY <1>3, <2>2, <2>3 DEF CallOK, Calls
    <3>2. Paired(rest)
      <4>1. ASSUME NEW i \in 2..Len(rest)
            PROVE  rest[i] = s[i + n] /\ rest[i - 1] = s[(i + n) - 1] /\ i + n \in 2..Len(s)
        BY <1>3, <2>2, SMTT(20)
      <4>2. ASSUME NEW i \in 1..Len(rest)
            PROVE  rest[i] = s[i + n] /\ i + n \in 1..Len(s) /\ (i = Len(rest) <=> i + n = Len(s))
        BY <1>3, <2>2
      <4>3. Paired(s)
        BY <1>2, <1>3 DEF CallOK
      <4>4. ASSUME NEW i \in 2..Len(rest)
            PROVE  /\ rest[i] \in Exclusive <=> rest[i - 1] = "lockWrite"
                   /\ rest[i] = "lookup" <=> rest[i - 1] = "lockRead"
                   /\ rest[i] = "relink" <=> rest[i - 1] = "lookup"
        BY <4>1, <4>3 DEF Paired
      <4>5. ASSUME NEW i \in 1..Len(rest), rest[i] \in {"lockWrite", "lockRead", "lookup"}  PROVE i # Len(rest)
        BY <4>2, <4>3, <4>5 DEF Paired
      <4>6. ASSUME NEW i \in 1..Len(rest), rest[i] = "unwatch"
            PROVE  i + 2 <= Len(rest) /\ rest[i + 2] = "removeAssociated"
        <5>1. (i + n) + 2 <= Len(s) /\ s[(i + n) + 2] = "removeAssociated"
          BY <4>2, <4>3, <4>6 DEF Paired
        <5>2. i + 2 \in 1..(Len(s) - n) /\ (i + 2) + n = (i + n) + 2 /\ i + 2 <= Len(rest)
          BY <1>3, <2>2, <5>1
        <5> QED  BY <2>2, <5>1, <5>2
      <4> QED  BY <4>4, <4>5, <4>6 DEF Paired
    <3>3. Supplied(new)
      <4>1. Supplied(call)
        BY <1>3 DEF CallOK
      <4> SUFFICES ASSUME NEW i \in 1..Len(rest)
                   PROVE  /\ call.key \in CallKeys
                          /\ rest[i] \in {"lookup", "relink", "insert", "remove", "register"} => call.key \in Entries
                          /\ rest[i] \in {"register", "unwatch", "removeAssociated", "readFile"} => call.file \in Files
                          /\ rest[i] = "insert" => call.entry \in Entry \/ \E j \in 1..(i - 1) : rest[j] = "readFile"
        BY <2>3 DEF Supplied
      <4>2. rest[i] = s[i + n] /\ i + n \in 1..Len(s)
        BY <1>3, <2>2
      <4>3. /\ call.key \in CallKeys
            /\ rest[i] \in {"lookup", "relink", "insert", "remove", "register"} => call.key \in Entries
            /\ rest[i] \in {"register", "unwatch", "removeAssociated", "readFile"} => call.file \in Files
            /\ rest[i] = "insert" => call.entry \in Entry \/ \E j \in 1..(i + n - 1) : s[j] = "readFile"
        BY <1>2, <4>1, <4>2 DEF Supplied
      <4>4. ASSUME NEW j \in 1..(i + n - 1), s[j] = "readFile"
            PROVE  j - n \in 1..(i - 1) /\ rest[j - n] = s[j]
        <5>1. j \notin 1..n
          BY <2>5, <4>4
        <5>2. j \in Nat /\ j > n /\ j <= i + n - 1 /\ i \in Nat /\ i <= Len(s) - n
          BY <1>3, <2>2, <5>1
        <5>3. j - n \in 1..(i - 1) /\ j - n \in 1..(Len(s) - n) /\ (j - n) + n = j
          <6> HIDE DEF StepNames
          <6> QED  BY <1>3, <5>2, Z3
        <5> QED  BY <2>2, <5>3
      <4> QED  BY <4>3, <4>4
    <3>4. new.steps = rest
      BY <2>3
    <3> QED  BY <3>1, <3>2, <3>3, <3>4 DEF CallOK
  <2>6. ASSUME \A j \in 1..n : s[j] # "readFile"  PROVE CallsOK'
    <3> SUFFICES ASSUME NEW u \in Threads  PROVE CallOK(thread'[u])
      BY <1>6 DEF CallsOK
    <3> QED  BY <1>6, <2>5, <2>6 DEF CallsOK
  <2> QED  BY <1>1, <1>2, <2>4, <2>6
<1> QED  BY <1>7, <1>8

VersionOK == version \in [Files -> 0..MaxChanges]

LEMMA NewEntryType ==
  ASSUME VersionOK, NEW f \in Files, NEW valid \in BOOLEAN
  PROVE  NewEntry(f, valid) \in Entry
BY DEF VersionOK, NewEntry, Entry

LEMMA ReadFileEffect ==
  ASSUME CallsOK, VersionOK, NEW t \in Threads, ReadFile(t)
  PROVE  StepsLeft(t, 1) /\ CallsOK'
<1>1. PICK call : call = thread[t]
  OBVIOUS
<1>2. PICK s, key, file, entry : s = call.steps /\ key = call.key /\ file = call.file /\ entry = call.entry
  OBVIOUS
<1>3. /\ call \in Calls /\ Paired(s) /\ Supplied(call) /\ s \in Seq(StepNames) /\ DOMAIN thread = Threads
      /\ call = [steps |-> s, key |-> key, file |-> file, entry |-> entry]
      /\ key \in CallKeys \union {None}
  BY <1>1, <1>2 DEF CallsOK, CallOK, Calls
<1>4. Len(s) \in Nat /\ Len(s) >= 1 /\ s[1] = "readFile"
  BY <1>1, <1>2, NextStep DEF ReadFile, At
<1>5. file \in Files
  <2>1. 1 \in 1..Len(s) /\ s[1] = "readFile"
    BY <1>4
  <2> QED  BY <1>2, <1>3, <2>1 DEF Supplied
<1>6. PICK read : read = NewEntry(file, TRUE)
  OBVIOUS
<1>7. read \in Entry
  BY <1>5, <1>6, NewEntryType
<1>8. PICK rest : rest = Tail(s)
  OBVIOUS
<1>9. /\ rest \in Seq(StepNames) /\ Len(rest) = Len(s) - 1
      /\ \A i \in 1..(Len(s) - 1) : rest[i] = s[i + 1]
  <2>1. s # <<>>
    BY <1>1, <1>2 DEF ReadFile, At, IsNext
  <2> HIDE DEF StepNames
  <2> QED  BY <1>3, <1>8, <2>1, TailType
<1>10. PICK new : new = [steps |-> rest, key |-> key, file |-> file, entry |-> read]
  OBVIOUS
<1>11. thread' = [thread EXCEPT ![t] = new]
  <2>1. thread' = [thread EXCEPT ![t].steps = rest, ![t].entry = read]
    BY <1>1, <1>2, <1>6, <1>8 DEF ReadFile
  <2>2. [call EXCEPT !.steps = rest, !.entry = read] = new
    <3>1. call = [steps |-> s, key |-> key, file |-> file, entry |-> entry]
      BY <1>3
    <3>2. PICK c : c = [call EXCEPT !.steps = rest]
      OBVIOUS
    <3>3. c = [steps |-> rest, key |-> key, file |-> file, entry |-> entry]
      BY <3>1, <3>2
    <3>4. [c EXCEPT !.entry = read] = new
      BY <1>10, <3>3
    <3>5. [[call EXCEPT !.steps = rest] EXCEPT !.entry = read] = [call EXCEPT !.steps = rest, !.entry = read]
      OBVIOUS
    <3> QED  BY <3>2, <3>4, <3>5
  <2> QED  BY <1>1, <1>3, <2>1, <2>2
<1>12. thread'[t] = new /\ DOMAIN thread' = Threads /\ \A u \in Threads \ {t} : thread'[u] = thread[u]
  BY <1>3, <1>11
<1>13. StepsLeft(t, 1)
  BY <1>1, <1>2, <1>4, <1>9, <1>10, <1>12 DEF StepsLeft
<1>14. CallOK(new)
  <2>1. new \in Calls
    BY <1>3, <1>5, <1>7, <1>9, <1>10 DEF Calls
  <2>2. Paired(rest)
    <3>1. ASSUME NEW i \in 2..Len(rest)
          PROVE  rest[i] = s[i + 1] /\ rest[i - 1] = s[(i + 1) - 1] /\ i + 1 \in 2..Len(s)
      <4>1. i - 1 \in 1..(Len(s) - 1) /\ i \in 1..(Len(s) - 1) /\ (i - 1) + 1 = (i + 1) - 1 /\ i + 1 \in 2..Len(s)
        BY <1>4, <1>9
      <4> QED  BY <1>9, <4>1
    <3>2. ASSUME NEW i \in 1..Len(rest)
          PROVE  rest[i] = s[i + 1] /\ i + 1 \in 1..Len(s) /\ (i = Len(rest) <=> i + 1 = Len(s))
      BY <1>4, <1>9
    <3>3. ASSUME NEW i \in 2..Len(rest)
          PROVE  /\ rest[i] \in Exclusive <=> rest[i - 1] = "lockWrite"
                 /\ rest[i] = "lookup" <=> rest[i - 1] = "lockRead"
                 /\ rest[i] = "relink" <=> rest[i - 1] = "lookup"
      BY <1>3, <3>1 DEF Paired
    <3>4. ASSUME NEW i \in 1..Len(rest), rest[i] \in {"lockWrite", "lockRead", "lookup"}  PROVE i # Len(rest)
      BY <1>3, <3>2, <3>4 DEF Paired
    <3>5. ASSUME NEW i \in 1..Len(rest), rest[i] = "unwatch"
          PROVE  i + 2 <= Len(rest) /\ rest[i + 2] = "removeAssociated"
      <4>1. (i + 1) + 2 <= Len(s) /\ s[(i + 1) + 2] = "removeAssociated"
        BY <1>3, <3>2, <3>5 DEF Paired
      <4>2. i + 2 \in 1..(Len(s) - 1) /\ (i + 2) + 1 = (i + 1) + 2 /\ i + 2 <= Len(rest)
        BY <1>4, <1>9, <4>1
      <4> QED  BY <1>9, <4>1, <4>2
    <3> QED  BY <3>3, <3>4, <3>5 DEF Paired
  <2>3. Supplied(new)
    <3> SUFFICES ASSUME NEW i \in 1..Len(rest)
                 PROVE  /\ key \in CallKeys
                        /\ rest[i] \in {"lookup", "relink", "insert", "remove", "register"} => key \in Entries
      BY <1>5, <1>7, <1>10 DEF Supplied
    <3>1. rest[i] = s[i + 1] /\ i + 1 \in 1..Len(s)
      BY <1>4, <1>9
    <3> QED  BY <1>2, <1>3, <3>1 DEF Supplied
  <2> QED  BY <1>10, <2>1, <2>2, <2>3 DEF CallOK
<1>15. CallsOK'
  <2> SUFFICES ASSUME NEW u \in Threads  PROVE CallOK(thread'[u])
    BY <1>12 DEF CallsOK
  <2> QED  BY <1>12, <1>14 DEF CallsOK
<1> QED  BY <1>13, <1>15

\* t was idle, and has begun a call that has to get a lock first.
Begun(t) ==
  /\ thread[t].steps = <<>> /\ \A u \in Threads \ {t} : thread'[u] = thread[u]
  /\ Len(thread'[t].steps) \in Nat /\ Len(thread'[t].steps) >= 1
  /\ thread'[t].steps[1] \in {"lockRead", "lockWrite", "lockMutex"}

Startable(steps, key, file, entry) ==
  /\ steps \in Seq(StepNames) /\ Paired(steps) /\ Len(steps) >= 1
  /\ steps[1] \in {"lockRead", "lockWrite", "lockMutex"}
  /\ key \in CallKeys /\ file \in Files \union {None} /\ entry \in Entry \union {None}
  /\ \A i \in 1..Len(steps) :
       /\ steps[i] \in {"lookup", "relink", "insert", "remove", "register"} => key \in Entries
       /\ steps[i] \in {"register", "unwatch", "removeAssociated", "readFile"} => file \in Files
       /\ steps[i] = "insert" => entry \in Entry \/ \E j \in 1..(i - 1) : steps[j] = "readFile"

LEMMA StartEffect ==
  ASSUME CallsOK, NEW t \in Threads, NEW steps, NEW key, NEW file, NEW entry,
         Start(t, steps, key, file, entry), Startable(steps, key, file, entry)
  PROVE  Begun(t) /\ CallsOK'
<1>1. PICK new : new = [steps |-> steps, key |-> key, file |-> file, entry |-> entry]
  OBVIOUS
<1>2. thread' = [thread EXCEPT ![t] = new] /\ thread[t].steps = <<>>
  BY <1>1 DEF Start, IsIdle
<1>3. thread'[t] = new /\ DOMAIN thread' = Threads /\ \A u \in Threads \ {t} : thread'[u] = thread[u]
  BY <1>2 DEF CallsOK
<1>4. Begun(t)
  BY <1>1, <1>2, <1>3 DEF Begun, Startable
<1>5. new \in Calls
  BY <1>1 DEF Calls, Startable
<1>6. Supplied(new)
  BY <1>1 DEF Supplied, Startable
<1>7. CallOK(new)
  BY <1>1, <1>5, <1>6 DEF CallOK, Startable
<1>8. CallsOK'
  <2> SUFFICES ASSUME NEW u \in Threads  PROVE CallOK(thread'[u])
    BY <1>3 DEF CallsOK
  <2> QED  BY <1>3, <1>7 DEF CallsOK
<1> QED  BY <1>4, <1>8

LEMMA OneDone ==
  ASSUME CallsOK, NEW t \in Threads, NEW step, At(t, step), step # "readFile", Done(t, 1)
  PROVE  StepsLeft(t, 1) /\ CallsOK'
<1>1. LET s == thread[t].steps IN Len(s) \in Nat /\ Len(s) >= 1 /\ s[1] = step
  BY NextStep DEF At
<1>2. \A j \in 1..1 : thread[t].steps[j] # "readFile"
  BY <1>1
<1> QED  BY <1>1, <1>2, DoneEffect

LEMMA TwoDone ==
  ASSUME CallsOK, NEW t \in Threads, At(t, "lookup"), Done(t, 2)
  PROVE  StepsLeft(t, 2) /\ CallsOK' /\ Len(thread[t].steps) >= 2 /\ thread[t].steps[2] = "relink"
<1>1. PICK s : s = thread[t].steps
  OBVIOUS
<1>2. Len(s) \in Nat /\ Len(s) >= 1 /\ s[1] = "lookup" /\ Paired(s)
  BY <1>1, NextStep DEF At, CallsOK, CallOK
<1>3. Len(s) >= 2
  <2>1. 1 \in 1..Len(s)
    BY <1>2
  <2>2. 1 # Len(s)
    BY <1>2, <2>1 DEF Paired
  <2> QED  BY <1>2, <2>2
<1>4. s[2] = "relink"
  <2>1. 2 \in 2..Len(s) /\ 2 - 1 = 1
    BY <1>2, <1>3
  <2> QED  BY <1>2, <2>1 DEF Paired
<1>5. \A j \in 1..2 : s[j] # "readFile"
  <2>1. \A j \in 1..2 : j = 1 \/ j = 2
    OBVIOUS
  <2> QED  BY <1>2, <1>4, <2>1
<1> QED  BY <1>1, <1>2, <1>3, <1>4, <1>5, DoneEffect

-----------------------------------------------------------------------------
(* The inductive invariant: the read-write lock. *)

Reads(t) == IsNext(t, "lookup") \/ IsNext(t, "relink")
Writes(t) == \E step \in Exclusive : IsNext(t, step)

Locked ==
  /\ locks = [mutex |-> locks.mutex, readers |-> locks.readers, writer |-> locks.writer]
  /\ locks.mutex \in [Caches -> Threads \union {None}]
  /\ locks.readers \in SUBSET Threads /\ locks.writer \in Threads \union {None}
  /\ locks.writer # None => locks.readers = {}
  /\ \A t \in Threads : (t \in locks.readers <=> Reads(t)) /\ (locks.writer = t <=> Writes(t))

\* What t does to the lock when it does this step.
LEMMA HoldsNext ==
  ASSUME CallsOK, NEW t \in Threads, NEW step, IsNext(t, step), StepsLeft(t, 1), CallsOK'
  PROVE  /\ Reads(t)' <=> step \in {"lockRead", "lookup"}
         /\ Writes(t)' <=> step = "lockWrite"
         /\ IsNext(t, "relink")' <=> step = "lookup"
<1>1. PICK s, r : s = thread[t].steps /\ r = thread'[t].steps
  OBVIOUS
<1>2. s \in Seq(StepNames) /\ Len(s) \in Nat /\ Len(s) >= 1 /\ s[1] = step /\ Paired(s)
  BY <1>1, NextStep DEF CallsOK, CallOK
<1>3. r \in Seq(StepNames) /\ Len(r) = Len(s) - 1 /\ \A i \in 1..(Len(s) - 1) : r[i] = s[i + 1]
  BY <1>1 DEF StepsLeft, CallsOK, CallOK, Calls
<1>4. CASE Len(s) = 1
  <2>1. r = <<>>
    BY <1>3, <1>4, EmptySeq
  <2>2. ~Reads(t)' /\ ~Writes(t)' /\ ~IsNext(t, "relink")'
    BY <1>1, <2>1 DEF Reads, Writes, IsNext
  <2>3. step \notin {"lockWrite", "lockRead", "lookup"}
    <3>1. 1 \in 1..Len(s)
      BY <1>4
    <3> QED  BY <1>2, <1>4, <3>1 DEF Paired
  <2> QED  BY <2>2, <2>3
<1>5. CASE Len(s) # 1
  <2>1. 2 \in 2..Len(s) /\ 2 - 1 = 1 /\ 1 \in 1..(Len(s) - 1) /\ 1 + 1 = 2
    <3>1. \A n \in Nat : n >= 1 /\ n # 1 => 2 \in 2..n /\ 2 - 1 = 1 /\ 1 \in 1..(n - 1) /\ 1 + 1 = 2
      OBVIOUS
    <3> QED  BY <1>2, <1>5, <3>1, Zenon
  <2>2. r # <<>> /\ Head(r) = s[2]
    <3>1. r # <<>> /\ Head(r) = r[1]
      <4> HIDE DEF StepNames
      <4> QED  BY <1>2, <1>3, <1>5
    <3>2. r[1] = s[2]
      BY <1>3, <2>1
    <3> QED  BY <3>1, <3>2
  <2>3. /\ s[2] \in Exclusive <=> step = "lockWrite"
        /\ s[2] = "lookup" <=> step = "lockRead"
        /\ s[2] = "relink" <=> step = "lookup"
    BY <1>2, <2>1 DEF Paired
  <2>4. Reads(t)' <=> s[2] = "lookup" \/ s[2] = "relink"
    BY <1>1, <2>2 DEF Reads, IsNext
  <2>5. Writes(t)' <=> s[2] \in Exclusive
    BY <1>1, <2>2 DEF Writes, IsNext
  <2>6. IsNext(t, "relink")' <=> s[2] = "relink"
    BY <1>1, <2>2 DEF IsNext
  <2> QED  BY <2>3, <2>4, <2>5, <2>6
<1> QED  BY <1>4, <1>5

LEMMA HoldsAfterLookup ==
  ASSUME CallsOK, NEW t \in Threads, IsNext(t, "lookup"), StepsLeft(t, 2), CallsOK',
         Len(thread[t].steps) >= 2, thread[t].steps[2] = "relink"
  PROVE  ~Reads(t)' /\ ~Writes(t)'
<1>1. PICK s, r : s = thread[t].steps /\ r = thread'[t].steps
  OBVIOUS
<1>2. Len(s) \in Nat /\ Len(s) >= 2 /\ s[2] = "relink" /\ Paired(s)
  BY <1>1, NextStep DEF CallsOK, CallOK
<1>3. r \in Seq(StepNames) /\ Len(r) = Len(s) - 2 /\ \A i \in 1..(Len(s) - 2) : r[i] = s[i + 2]
  BY <1>1 DEF StepsLeft, CallsOK, CallOK, Calls
<1>4. CASE Len(s) = 2
  <2>1. r = <<>>
    BY <1>3, <1>4, EmptySeq
  <2> QED  BY <1>1, <2>1 DEF Reads, Writes, IsNext
<1>5. CASE Len(s) # 2
  <2>1. 3 \in 2..Len(s) /\ 3 - 1 = 2 /\ 1 \in 1..(Len(s) - 2) /\ 1 + 2 = 3
    <3>1. \A n \in Nat : n >= 2 /\ n # 2 => 3 \in 2..n /\ 3 - 1 = 2 /\ 1 \in 1..(n - 2) /\ 1 + 2 = 3
      OBVIOUS
    <3> QED  BY <1>2, <1>5, <3>1, Zenon
  <2>2. r # <<>> /\ Head(r) = s[3]
    <3>1. r # <<>> /\ Head(r) = r[1]
      <4> HIDE DEF StepNames
      <4> QED  BY <1>2, <1>3, <1>5
    <3>2. r[1] = s[3]
      BY <1>3, <2>1
    <3> QED  BY <3>1, <3>2
  <2>3. s[3] \notin Exclusive /\ s[3] # "lookup" /\ s[3] # "relink"
    BY <1>2, <2>1 DEF Paired
  <2> QED  BY <1>1, <2>2, <2>3 DEF Reads, Writes, IsNext
<1> QED  BY <1>4, <1>5

LEMMA HoldsNothing ==
  ASSUME NEW t \in Threads, Begun(t), CallsOK'
  PROVE  ~Reads(t) /\ ~Writes(t) /\ ~Reads(t)' /\ ~Writes(t)'
<1>1. PICK r : r = thread'[t].steps
  OBVIOUS
<1>2. r \in Seq(StepNames) /\ Len(r) >= 1 /\ Len(r) \in Nat
  BY <1>1 DEF Begun, CallsOK, CallOK, Calls
<1>3. Head(r) = r[1]
  <2> HIDE DEF StepNames
  <2> QED  BY <1>2
<1>4. ~Reads(t)' /\ ~Writes(t)'
  BY <1>1, <1>3 DEF Begun, Reads, Writes, IsNext, Exclusive
<1> QED  BY <1>4 DEF Begun, Reads, Writes, IsNext

\* Only t takes a step; what it holds of the lock changes with it.
LEMMA LockedNext ==
  ASSUME Locked, NEW t \in Threads, \A u \in Threads \ {t} : thread'[u] = thread[u],
         locks' = [mutex |-> locks'.mutex, readers |-> locks'.readers, writer |-> locks'.writer],
         locks'.mutex \in [Caches -> Threads \union {None}],
         locks'.readers \in SUBSET Threads, locks'.readers \ {t} = locks.readers \ {t},
         t \in locks'.readers <=> Reads(t)',
         locks'.writer \in Threads \union {None}, locks'.writer = t <=> Writes(t)',
         \A u \in Threads \ {t} : locks'.writer = u <=> locks.writer = u,
         locks'.writer # None => locks'.readers = {}
  PROVE  Locked'
<1>1. ASSUME NEW u \in Threads
      PROVE  (u \in locks'.readers <=> Reads(u)') /\ (locks'.writer = u <=> Writes(u)')
  <2>1. CASE u = t
    BY <2>1
  <2>2. CASE u # t
    <3>1. thread'[u] = thread[u]
      BY <2>2
    <3>2. (Reads(u)' <=> Reads(u)) /\ (Writes(u)' <=> Writes(u))
      BY <3>1 DEF Reads, Writes, IsNext
    <3> QED  BY <2>2, <3>2 DEF Locked
  <2> QED  BY <2>1, <2>2
<1> QED  BY <1>1 DEF Locked

-----------------------------------------------------------------------------
(* The inductive invariant: the watcher and what is stored. *)

\* A key stays in the store from its lookup to its relinking.
RelinkStored ==
  \A t \in Threads : IsNext(t, "relink") => backend.kind = "RamCache" /\ thread[t].key \in Stored

WatchOK ==
  watch \in [Caches -> [files : SUBSET Files, changed : SUBSET Files, fragments : SUBSET (Files \X Entries)]]

\* A fragment of a file that is not watched is about to be removed.
Withdrawn ==
  \A c \in Caches, f \in Files, k \in Entries :
    <<f, k>> \in watch[c].fragments /\ f \notin watch[c].files => \E t \in Threads : Removing(t, c, f)

\* What is stale and not missed is a fragment of its file, and is going to be removed.
StaleDepends ==
  \A k \in Stored \ missed :
    LET f == backend.store[k].file IN
    backend.store[k].version # version[f] =>
      /\ <<f, k>> \in watch[k[1]].fragments
      /\ f \in watch[k[1]].changed \/ \E t \in Threads : Removing(t, k[1], f)

IInv ==
  /\ CallsOK /\ VersionOK /\ BackendOK(backend) /\ Locked /\ RelinkStored
  /\ WatchOK /\ Withdrawn /\ StaleDepends
  /\ missed \subseteq Entries /\ broken \in BOOLEAN

LEMMA IInvInit == ASSUME Init  PROVE IInv
<1>1. CallsOK
  BY IdleCall DEF Init, CallsOK
<1>2. VersionOK
  BY SizeAssumption DEF Init, VersionOK
<1>3. BackendOK(backend) /\ Stored = {}
  <2>1. PICK e : e = <<>>
    OBVIOUS
  <2>2. PICK kind \in Backends : backend = [kind |-> kind, store |-> e, recent |-> e]
    <3>1. PICK kind \in Backends, setting \in Backends \union {None} :
            Loads(kind, setting) /\ backend = [kind |-> kind, store |-> <<>>, recent |-> <<>>]
      BY DEF Init
    <3> QED  BY <2>1, <3>1
  <2>3. e \in Seq(Entries) /\ DOMAIN e = {} /\ ToSet(e) = {} /\ IsInjective(e) /\ TotalCost(e, e) = 0
    <3>1. e \in Seq(Entries) /\ DOMAIN e = {}
      BY <2>1
    <3>2. ToSet(e) = {} /\ IsInjective(e)
      BY <2>1, EmptyElements, Zenon
    <3>3. TotalCost(e, e) = 0
      BY <2>1, TotalEmpty, Zenon
    <3> QED  BY <3>1, <3>2, <3>3
  <2>4. backend.kind = kind /\ backend.store = e /\ backend.recent = e
    BY <2>2
  <2>5. BackendOK(backend)
    BY <2>2, <2>3, <2>4, SizeAssumption DEF BackendOK
  <2> QED  BY <2>3, <2>4, <2>5 DEF Stored
<1>4. \A t \in Threads : \A step : ~IsNext(t, step)
  <2> SUFFICES ASSUME NEW t \in Threads  PROVE thread[t].steps = <<>>
    BY DEF IsNext
  <2>1. thread[t] = Idle
    BY DEF Init
  <2> QED  BY <2>1, IdleCall
<1>5. Locked
  <2>1. PICK m, r : m = [c \in Caches |-> None] /\ r = {}
    OBVIOUS
  <2>2. locks = [mutex |-> m, readers |-> r, writer |-> None]
    BY <2>1 DEF Init
  <2>3. locks.mutex = m /\ locks.readers = r /\ locks.writer = None
    BY <2>2
  <2>4. \A t \in Threads : t # None /\ ~Reads(t) /\ ~Writes(t)
    BY <1>4, ThreadAssumption DEF Threads, Reads, Writes
  <2> QED  BY <2>1, <2>2, <2>3, <2>4 DEF Locked
<1>6. RelinkStored
  BY <1>4 DEF RelinkStored
<1>7. WatchOK /\ Withdrawn
  <2>1. PICK w : w = [files |-> {}, changed |-> {}, fragments |-> {}]
    OBVIOUS
  <2>2. watch = [c \in Caches |-> w]
    BY <2>1 DEF Init
  <2>3. w \in [files : SUBSET Files, changed : SUBSET Files, fragments : SUBSET (Files \X Entries)]
    BY <2>1
  <2>4. w.fragments = {}
    BY <2>1
  <2>5. WatchOK
    BY <2>2, <2>3 DEF WatchOK
  <2> QED  BY <2>2, <2>4, <2>5 DEF Withdrawn
<1>8. StaleDepends
  BY <1>3 DEF StaleDepends
<1> QED  BY <1>1, <1>2, <1>3, <1>5, <1>6, <1>7, <1>8 DEF Init, IInv

-----------------------------------------------------------------------------
(* The calls, in every step. *)

LEMMA GetValueEffect ==
  ASSUME CallsOK, NEW t \in Threads, GetValue(t)
  PROVE  Begun(t) /\ CallsOK'
<1>1. PICK k \in Entries : Start(t, ValueSteps, k, None, None)
  BY DEF GetValue
<1>2. /\ Len(ValueSteps) = 3
      /\ ValueSteps[1] = "lockRead" /\ ValueSteps[2] = "lookup" /\ ValueSteps[3] = "relink"
  BY DEF ValueSteps
<1>3. \A i \in 1..Len(ValueSteps) :
        ValueSteps[i] \notin {"register", "unwatch", "removeAssociated", "readFile", "insert"}
  BY <1>2
<1>4. k \in CallKeys
  BY DEF CallKeys
<1>5. Startable(ValueSteps, k, None, None)
  BY <1>2, <1>3, <1>4, PlansCorrect DEF Startable
<1> QED  BY <1>1, <1>5, StartEffect

LEMMA SetValueEffect ==
  ASSUME CallsOK, VersionOK, NEW t \in Threads, SetValue(t)
  PROVE  Begun(t) /\ CallsOK'
<1>1. PICK f \in Files, valid \in BOOLEAN :
        Start(t, SetValueSteps, <<"FileCache", f>>, f, NewEntry(f, valid))
  BY DEF SetValue
<1>2. Len(SetValueSteps) = 4 /\ SetValueSteps[1] = "lockWrite"
  BY DEF SetValueSteps
<1>3. <<"FileCache", f>> \in Entries /\ <<"FileCache", f>> \in CallKeys
  BY DEF Entries, CallKeys
<1>4. PICK key, entry : key = <<"FileCache", f>> /\ entry = NewEntry(f, valid)
  OBVIOUS
<1>5. entry \in Entry
  BY <1>4, NewEntryType
<1>6. Startable(SetValueSteps, key, f, entry)
  BY <1>2, <1>3, <1>4, <1>5, PlansCorrect DEF Startable
<1> QED  BY <1>1, <1>4, <1>6, StartEffect

LEMMA StoreResponseEffect ==
  ASSUME CallsOK, NEW t \in Threads, StoreResponse(t)
  PROVE  Begun(t) /\ CallsOK'
<1>1. PICK k \in Keys, f \in Files : Start(t, StoreResponseSteps, <<"RequestCache", k>>, f, None)
  BY DEF StoreResponse
<1>2. /\ Len(StoreResponseSteps) = 5 /\ StoreResponseSteps[1] = "lockMutex"
      /\ StoreResponseSteps[2] = "register" /\ StoreResponseSteps[3] = "readFile"
      /\ StoreResponseSteps[4] = "lockWrite"
  BY DEF StoreResponseSteps
<1>3. \A i \in 1..Len(StoreResponseSteps) :
        StoreResponseSteps[i] = "insert" => \E j \in 1..(i - 1) : StoreResponseSteps[j] = "readFile"
  <2>1. \A i \in 1..5 : i = 5 \/ i \in 1..4
    OBVIOUS
  <2>2. 3 \in 1..(5 - 1)
    OBVIOUS
  <2> QED  BY <1>2, <2>1, <2>2
<1>4. <<"RequestCache", k>> \in Entries /\ <<"RequestCache", k>> \in CallKeys
  BY DEF Entries, CallKeys
<1>5. PICK key : key = <<"RequestCache", k>>
  OBVIOUS
<1>6. Startable(StoreResponseSteps, key, f, None)
  BY <1>2, <1>3, <1>4, <1>5, PlansCorrect DEF Startable
<1> QED  BY <1>1, <1>5, <1>6, StartEffect

LEMMA RemoveFileEffect ==
  ASSUME CallsOK, NEW t \in Threads, RemoveFile(t)
  PROVE  Begun(t) /\ CallsOK'
<1>1. PICK f \in Files : Start(t, RemoveSteps, <<"FileCache", f>>, f, None)
  BY DEF RemoveFile
<1>2. \A i \in 1..Len(RemoveSteps) : RemoveSteps[i] # "insert"
  <2>1. \A i \in 1..6 : i = 1 \/ i = 2 \/ i = 3 \/ i = 4 \/ i = 5 \/ i = 6
    OBVIOUS
  <2> QED  BY <2>1, PlansCorrect
<1>3. <<"FileCache", f>> \in Entries /\ <<"FileCache", f>> \in CallKeys
  BY DEF Entries, CallKeys
<1>4. PICK key : key = <<"FileCache", f>>
  OBVIOUS
<1>5. Startable(RemoveSteps, key, f, None)
  BY <1>2, <1>3, <1>4, PlansCorrect DEF Startable
<1> QED  BY <1>1, <1>4, <1>5, StartEffect

LEMMA FileChangedEffect ==
  ASSUME CallsOK, NEW c \in Caches, NEW f \in Files, Start(Main, RemoveAssociatedSteps, <<c, None>>, f, None)
  PROVE  Begun(Main) /\ CallsOK' /\ Removing(Main, c, f)'
<1>1. /\ Len(RemoveAssociatedSteps) = 4 /\ RemoveAssociatedSteps[1] = "lockMutex"
      /\ RemoveAssociatedSteps[2] = "unwatch" /\ RemoveAssociatedSteps[3] = "lockWrite"
      /\ RemoveAssociatedSteps[4] = "removeAssociated"
  BY DEF RemoveAssociatedSteps
<1>2. \A i \in 1..Len(RemoveAssociatedSteps) :
        RemoveAssociatedSteps[i] \notin {"lookup", "relink", "insert", "remove", "register"}
  <2>1. \A i \in 1..4 : i = 1 \/ i = 2 \/ i = 3 \/ i = 4
    OBVIOUS
  <2> QED  BY <1>1, <2>1
<1>3. <<c, None>> \in CallKeys /\ Main \in Threads
  BY DEF CallKeys, Threads
<1>4. Begun(Main) /\ CallsOK'
  <2>1. PICK key : key = <<c, None>>
    OBVIOUS
  <2>2. \A i \in 1..Len(RemoveAssociatedSteps) : RemoveAssociatedSteps[i] # "insert"
    BY <1>2
  <2>3. Startable(RemoveAssociatedSteps, key, f, None)
    BY <1>1, <1>2, <1>3, <2>1, <2>2, PlansCorrect DEF Startable
  <2> QED  BY <1>3, <2>1, <2>3, StartEffect
<1>5. thread'[Main] = [steps |-> RemoveAssociatedSteps, key |-> <<c, None>>, file |-> f, entry |-> None]
  BY <1>3 DEF Start, CallsOK
<1>6. "removeAssociated" \in ToSet(RemoveAssociatedSteps)
  <2>1. 4 \in DOMAIN RemoveAssociatedSteps
    BY <1>1, PlansCorrect
  <2> QED  BY <1>1, <2>1 DEF ToSet
<1> QED  BY <1>4, <1>5, <1>6 DEF Removing, CacheOf

\* Who removes a file's entries goes on until it has done so.
LEMMA RemovingStays ==
  ASSUME CallsOK, CallsOK', NEW t \in Threads, NEW n \in 1..2, StepsLeft(t, n), n <= Len(thread[t].steps),
         NEW u \in Threads, NEW c, NEW f, Removing(u, c, f),
         u = t => \A j \in 1..n : thread[t].steps[j] # "removeAssociated"
  PROVE  Removing(u, c, f)'
<1>1. CASE u # t
  <2>1. thread'[u] = thread[u]
    BY <1>1 DEF StepsLeft
  <2> QED  BY <2>1 DEF Removing, CacheOf
<1>2. CASE u = t
  <2>1. PICK s, r : s = thread[t].steps /\ r = thread'[t].steps
    OBVIOUS
  <2>2. s \in Seq(StepNames) /\ r \in Seq(StepNames)
    BY <2>1 DEF CallsOK, CallOK, Calls
  <2>3. DOMAIN s = 1..Len(s) /\ DOMAIN r = 1..Len(r) /\ Len(s) \in Nat /\ n \in Nat
    <3> HIDE DEF StepNames
    <3> QED  BY <2>2
  <2>4. PICK i \in 1..Len(s) : s[i] = "removeAssociated"
    BY <1>2, <2>1, <2>3 DEF Removing, ToSet
  <2>5. i \notin 1..n
    BY <1>2, <2>1, <2>4
  <2>6. i - n \in 1..(Len(s) - n) /\ (i - n) + n = i
    BY <2>3, <2>5
  <2>7. Len(r) = Len(s) - n /\ r[i - n] = s[(i - n) + n] /\ Len(s) # n
    BY <2>1, <2>3, <2>6 DEF StepsLeft
  <2>8. "removeAssociated" \in ToSet(r)
    BY <2>3, <2>4, <2>6, <2>7 DEF ToSet
  <2>9. thread'[t].key = thread[t].key /\ thread'[t].file = thread[t].file
    BY <2>1, <2>7 DEF StepsLeft
  <2> QED  BY <1>2, <2>1, <2>8, <2>9 DEF Removing, CacheOf
<1> QED  BY <1>1, <1>2

LEMMA BegunRemoving ==
  ASSUME NEW t \in Threads, Begun(t), NEW u \in Threads, NEW c, NEW f, Removing(u, c, f)
  PROVE  u # t /\ Removing(u, c, f)'
<1>1. u # t
  BY EmptyElements DEF Removing, Begun
<1> QED  BY <1>1 DEF Begun, Removing, CacheOf

\* A step of t is its next one, or the lookup and the relinking at once.
Moves(t, step, n) ==
  /\ IsNext(t, step) /\ StepsLeft(t, n) /\ n <= Len(thread[t].steps)
  /\ n = 1 \/ (n = 2 /\ step = "lookup" /\ thread[t].steps[2] = "relink")

LEMMA MovesOne ==
  ASSUME CallsOK, NEW t \in Threads, NEW step, At(t, step), step # "readFile", Done(t, 1)
  PROVE  Moves(t, step, 1) /\ CallsOK'
<1>1. Len(thread[t].steps) \in Nat /\ Len(thread[t].steps) >= 1
  BY NextStep DEF At
<1> QED  BY <1>1, OneDone DEF Moves, At

LEMMA StepMoves ==
  ASSUME IInv, NEW t \in Threads, Step(t)
  PROVE  /\ CallsOK' /\ \E n \in 1..2, step \in StepNames : Moves(t, step, n)
         /\ LockMutex(t) => Moves(t, "lockMutex", 1)
         /\ LockRead(t) => Moves(t, "lockRead", 1)
         /\ LockWrite(t) => Moves(t, "lockWrite", 1)
         /\ Lookup(t) => Moves(t, "lookup", IF Relinks(thread[t].key) THEN 1 ELSE 2)
         /\ Relink(t) => Moves(t, "relink", 1)
         /\ ReadFile(t) => Moves(t, "readFile", 1)
         /\ Insert(t) => Moves(t, "insert", 1)
         /\ RemoveKey(t) => Moves(t, "remove", 1)
         /\ Register(t) => Moves(t, "register", 1)
         /\ Unwatch(t) => Moves(t, "unwatch", 1)
         /\ RemoveAssociated(t) => Moves(t, "removeAssociated", 1)
<1> DEFINE Good(step, n) == CallsOK' /\ Moves(t, step, n)
<1> USE DEF IInv
<1>1. ASSUME LockMutex(t)  PROVE Good("lockMutex", 1)
  BY <1>1, MovesOne DEF LockMutex
<1>2. ASSUME LockRead(t)  PROVE Good("lockRead", 1)
  BY <1>2, MovesOne DEF LockRead
<1>3. ASSUME LockWrite(t)  PROVE Good("lockWrite", 1)
  BY <1>3, MovesOne DEF LockWrite
<1>4. ASSUME Lookup(t)  PROVE Good("lookup", IF Relinks(thread[t].key) THEN 1 ELSE 2)
  <2>1. At(t, "lookup")
    BY <1>4 DEF Lookup
  <2>2. CASE Relinks(thread[t].key)
    <3>1. Done(t, 1)
      BY <1>4, <2>2 DEF Lookup
    <3> QED  BY <2>1, <2>2, <3>1, MovesOne
  <2>3. CASE ~Relinks(thread[t].key)
    <3>1. Done(t, 2)
      BY <1>4, <2>3 DEF Lookup
    <3> QED  BY <2>1, <2>3, <3>1, TwoDone DEF Moves, At
  <2> QED  BY <2>2, <2>3
<1>5. ASSUME Relink(t)  PROVE Good("relink", 1)
  BY <1>5, MovesOne DEF Relink
<1>6. ASSUME ReadFile(t)  PROVE Good("readFile", 1)
  <2>1. IsNext(t, "readFile") /\ Len(thread[t].steps) >= 1
    BY <1>6, NextStep DEF ReadFile, At
  <2> QED  BY <1>6, <2>1, ReadFileEffect DEF Moves
<1>7. ASSUME Insert(t)  PROVE Good("insert", 1)
  BY <1>7, MovesOne DEF Insert
<1>8. ASSUME RemoveKey(t)  PROVE Good("remove", 1)
  BY <1>8, MovesOne DEF RemoveKey
<1>9. ASSUME Register(t)  PROVE Good("register", 1)
  BY <1>9, MovesOne DEF Register
<1>10. ASSUME Unwatch(t)  PROVE Good("unwatch", 1)
  BY <1>10, MovesOne DEF Unwatch
<1>11. ASSUME RemoveAssociated(t)  PROVE Good("removeAssociated", 1)
  BY <1>11, MovesOne DEF RemoveAssociated
<1>12. CallsOK' /\ \E n \in 1..2, step \in StepNames : Moves(t, step, n)
  <2>1. 1 \in 1..2 /\ (IF Relinks(thread[t].key) THEN 1 ELSE 2) \in 1..2
    OBVIOUS
  <2> HIDE DEF IInv
  <2> QED
    BY <1>1, <1>2, <1>3, <1>4, <1>5, <1>6, <1>7, <1>8, <1>9, <1>10, <1>11, <2>1, Zenon DEF Step, StepNames, Exclusive
<1> QED  BY <1>1, <1>2, <1>3, <1>4, <1>5, <1>6, <1>7, <1>8, <1>9, <1>10, <1>11, <1>12

LEMMA StepRemoving ==
  ASSUME IInv, NEW t \in Threads, Step(t), NEW u \in Threads, NEW c, NEW f, Removing(u, c, f),
         u = t => ~IsNext(t, "removeAssociated")
  PROVE  Removing(u, c, f)'
<1>1. PICK n \in 1..2, step \in StepNames : Moves(t, step, n)
  BY StepMoves
<1>2. CallsOK /\ CallsOK'
  BY StepMoves DEF IInv
<1>3. LET s == thread[t].steps IN Len(s) \in Nat /\ Len(s) >= 1 /\ s[1] = step /\ Head(s) = step
  BY <1>1, <1>2, NextStep DEF Moves, IsNext
<1>4. ASSUME u = t, NEW j \in 1..n  PROVE thread[t].steps[j] # "removeAssociated"
  <2>1. step # "removeAssociated"
    BY <1>1, <1>4 DEF Moves
  <2>2. CASE j = 1
    BY <1>3, <2>1, <2>2
  <2>3. CASE j # 1
    BY <1>1, <2>3 DEF Moves
  <2> QED  BY <2>2, <2>3
<1> QED  BY <1>1, <1>2, <1>4, RemovingStays DEF Moves

LEMMA BeginEffect ==
  ASSUME IInv, NEW t \in Threads, Begin(t)
  PROVE  Begun(t) /\ CallsOK' /\ UNCHANGED <<backend, locks, watch, version, broken, missed>>
<1> USE DEF IInv
<1>1. CASE GetValue(t)
  BY <1>1, GetValueEffect DEF GetValue
<1>2. CASE SetValue(t)
  BY <1>2, SetValueEffect DEF SetValue
<1>3. CASE StoreResponse(t)
  BY <1>3, StoreResponseEffect DEF StoreResponse
<1>4. CASE RemoveFile(t)
  BY <1>4, RemoveFileEffect DEF RemoveFile
<1> QED  BY <1>1, <1>2, <1>3, <1>4 DEF Begin

-----------------------------------------------------------------------------
(* The read-write lock, in every step. *)

LEMMA LockedBegun ==
  ASSUME IInv, NEW t \in Threads, Begun(t), CallsOK', UNCHANGED locks
  PROVE  Locked'
<1>1. ~Reads(t) /\ ~Writes(t) /\ ~Reads(t)' /\ ~Writes(t)'
  BY HoldsNothing
<1>2. \A u \in Threads \ {t} : thread'[u] = thread[u]
  BY DEF Begun
<1> QED  BY <1>1, <1>2, LockedNext DEF IInv, Locked

LEMMA LocksType ==
  ASSUME Locked
  PROVE  \E mutex \in [Caches -> Threads \union {None}], readers \in SUBSET Threads, writer \in Threads \union {None} :
           locks = [mutex |-> mutex, readers |-> readers, writer |-> writer]
BY Zenon DEF Locked

\* A step without the read-write lock.
LEMMA LockedWithout ==
  ASSUME IInv, NEW t \in Threads, Step(t), NEW step, Moves(t, step, 1),
         step \in {"lockMutex", "readFile", "register", "unwatch"},
         locks'.readers = locks.readers, locks'.writer = locks.writer,
         locks' = [mutex |-> locks'.mutex, readers |-> locks'.readers, writer |-> locks'.writer],
         locks'.mutex \in [Caches -> Threads \union {None}]
  PROVE  Locked'
<1>1. Locked /\ CallsOK /\ CallsOK'
  BY StepMoves DEF IInv
<1>2. ~Reads(t)' /\ ~Writes(t)'
  BY <1>1, HoldsNext DEF Moves
<1>3. ~Reads(t) /\ ~Writes(t)
  BY DEF Moves, Reads, Writes, IsNext, Exclusive
<1>4. \A u \in Threads \ {t} : thread'[u] = thread[u]
  BY DEF Moves, StepsLeft
<1> QED  BY <1>1, <1>2, <1>3, <1>4, LockedNext DEF Locked

\* The end of what needs the lock alone, whatever happens to the mutex.
LEMMA LockedExclusive ==
  ASSUME IInv, NEW t \in Threads, Step(t), NEW step \in Exclusive, Moves(t, step, 1),
         NEW mutex \in [Caches -> Threads \union {None}],
         locks' = [mutex |-> mutex, readers |-> locks.readers, writer |-> None]
  PROVE  Locked'
<1>1. Locked /\ CallsOK /\ CallsOK'
  BY StepMoves DEF IInv
<1>2. ~Reads(t)' /\ ~Writes(t)'
  BY <1>1, HoldsNext DEF Moves, Exclusive
<1>3. Writes(t) /\ ~Reads(t)
  BY DEF Moves, Reads, Writes, IsNext, Exclusive
<1>4. locks.writer = t /\ t \notin locks.readers /\ t # None
  BY <1>1, <1>3, ThreadAssumption DEF Locked, Threads
<1>5. \A u \in Threads \ {t} : thread'[u] = thread[u]
  BY DEF Moves, StepsLeft
<1>6. locks'.mutex = mutex /\ locks'.readers = locks.readers /\ locks'.writer = None
  OBVIOUS
<1>7. \A u \in Threads : u # None
  BY ThreadAssumption DEF Threads
<1> QED  BY <1>1, <1>2, <1>4, <1>5, <1>6, <1>7, LockedNext DEF Locked

\* The end of what shares the lock.
LEMMA LockedShared ==
  ASSUME IInv, NEW t \in Threads, Reads(t), ~Writes(t), ~Reads(t)', ~Writes(t)',
         \A u \in Threads \ {t} : thread'[u] = thread[u],
         locks' = [locks EXCEPT !.readers = @ \ {t}]
  PROVE  Locked'
<1>1. Locked
  BY DEF IInv
<1>2. PICK mutex \in [Caches -> Threads \union {None}], readers \in SUBSET Threads, writer \in Threads \union {None} :
        locks = [mutex |-> mutex, readers |-> readers, writer |-> writer]
  BY <1>1, LocksType
<1>3. locks' = [mutex |-> mutex, readers |-> readers \ {t}, writer |-> writer]
  BY <1>2
<1>4. locks.readers = readers /\ locks.writer = writer /\ t \in readers
  BY <1>1, <1>2 DEF Locked
<1>5. writer = None /\ t # None
  BY <1>1, <1>4, ThreadAssumption DEF Locked, Threads
<1>6. locks'.mutex = mutex /\ locks'.readers = readers \ {t} /\ locks'.writer = writer
  BY <1>3
<1> QED  BY <1>1, <1>3, <1>4, <1>5, <1>6, LockedNext DEF Locked

LEMMA LockedStep ==
  ASSUME IInv, NEW t \in Threads, Step(t)
  PROVE  Locked'
<1>1. Locked /\ CallsOK /\ CallsOK' /\ \A u \in Threads : u # None
  BY StepMoves, ThreadAssumption DEF IInv, Threads
<1>2. PICK mutex \in [Caches -> Threads \union {None}], readers \in SUBSET Threads, writer \in Threads \union {None} :
        locks = [mutex |-> mutex, readers |-> readers, writer |-> writer]
  BY <1>1, LocksType
<1>3. locks.mutex = mutex /\ locks.readers = readers /\ locks.writer = writer
  BY <1>2
<1>4. \A x \in Threads \union {None} : \A c : [mutex EXCEPT ![c] = x] \in [Caches -> Threads \union {None}]
  OBVIOUS
<1>5. CASE LockMutex(t)
  <2>1. locks' = [mutex |-> [mutex EXCEPT ![CacheOf(t)] = t], readers |-> readers, writer |-> writer]
    BY <1>2, <1>5 DEF LockMutex
  <2>2. PICK new : new = [mutex EXCEPT ![CacheOf(t)] = t]
    OBVIOUS
  <2>3. new \in [Caches -> Threads \union {None}]
    BY <1>4, <2>2
  <2>4. locks' = [mutex |-> new, readers |-> readers, writer |-> writer]
    BY <2>1, <2>2
  <2> QED  BY <1>3, <1>5, <2>3, <2>4, StepMoves, LockedWithout
<1>6. CASE LockRead(t)
  <2>1. locks' = [mutex |-> mutex, readers |-> readers \union {t}, writer |-> writer] /\ writer = None
    BY <1>2, <1>6 DEF LockRead
  <2>2. Moves(t, "lockRead", 1)
    BY <1>6, StepMoves
  <2>3. Reads(t)' /\ ~Writes(t)' /\ \A u \in Threads \ {t} : thread'[u] = thread[u]
    BY <1>1, <2>2, HoldsNext DEF Moves, StepsLeft
  <2>4. locks'.mutex = mutex /\ locks'.readers = readers \union {t} /\ locks'.writer = writer
    BY <2>1
  <2> QED  BY <1>1, <1>3, <2>1, <2>3, <2>4, LockedNext
<1>7. CASE LockWrite(t)
  <2>1. locks' = [mutex |-> mutex, readers |-> readers, writer |-> t] /\ writer = None /\ readers = {}
    BY <1>2, <1>7 DEF LockWrite
  <2>2. Moves(t, "lockWrite", 1)
    BY <1>7, StepMoves
  <2>3. ~Reads(t)' /\ Writes(t)' /\ \A u \in Threads \ {t} : thread'[u] = thread[u]
    BY <1>1, <2>2, HoldsNext DEF Moves, StepsLeft
  <2>4. locks'.mutex = mutex /\ locks'.readers = readers /\ locks'.writer = t
    BY <2>1
  <2> QED  BY <1>1, <1>3, <2>1, <2>3, <2>4, LockedNext
<1>8. CASE Lookup(t)
  <2>1. Moves(t, "lookup", IF Relinks(thread[t].key) THEN 1 ELSE 2)
    BY <1>8, StepMoves
  <2>2. Reads(t) /\ ~Writes(t)
    BY <2>1 DEF Moves, Reads, Writes, IsNext, Exclusive
  <2>3. \A u \in Threads \ {t} : thread'[u] = thread[u]
    BY <2>1 DEF Moves, StepsLeft
  <2>4. CASE Relinks(thread[t].key)
    <3>1. UNCHANGED locks /\ Moves(t, "lookup", 1)
      BY <1>8, <2>1, <2>4 DEF Lookup
    <3>2. Reads(t)' /\ ~Writes(t)'
      BY <1>1, <3>1, HoldsNext DEF Moves
    <3> QED  BY <1>1, <2>2, <2>3, <3>1, <3>2, LockedNext DEF Locked
  <2>5. CASE ~Relinks(thread[t].key)
    <3>1. locks' = [locks EXCEPT !.readers = @ \ {t}] /\ Moves(t, "lookup", 2)
      BY <1>8, <2>1, <2>5 DEF Lookup
    <3>2. IsNext(t, "lookup") /\ StepsLeft(t, 2) /\ Len(thread[t].steps) >= 2 /\ thread[t].steps[2] = "relink"
      <4>1. Len(thread[t].steps) \in Nat
        BY <1>1, <3>1, NextStep DEF Moves
      <4> QED  BY <3>1, <4>1 DEF Moves
    <3>3. ~Reads(t)' /\ ~Writes(t)'
      BY <1>1, <3>2, HoldsAfterLookup
    <3> QED  BY <2>2, <2>3, <3>1, <3>3, LockedShared
  <2> QED  BY <2>4, <2>5
<1>9. CASE Relink(t)
  <2>1. Moves(t, "relink", 1)
    BY <1>9, StepMoves
  <2>2. Reads(t) /\ ~Writes(t)
    BY <2>1 DEF Moves, Reads, Writes, IsNext, Exclusive
  <2>3. ~Reads(t)' /\ ~Writes(t)' /\ \A u \in Threads \ {t} : thread'[u] = thread[u]
    <3>1. IsNext(t, "relink") /\ StepsLeft(t, 1)
      BY <2>1 DEF Moves
    <3>2. ~Reads(t)' /\ ~Writes(t)'
      BY <1>1, <3>1, HoldsNext
    <3>3. \A u \in Threads \ {t} : thread'[u] = thread[u]
      BY <3>1 DEF StepsLeft
    <3> QED  BY <3>2, <3>3
  <2>4. locks' = [locks EXCEPT !.readers = @ \ {t}]
    BY <1>9 DEF Relink
  <2> QED  BY <2>2, <2>3, <2>4, LockedShared
<1>10. CASE ReadFile(t)
  <2>1. UNCHANGED locks
    BY <1>10 DEF ReadFile
  <2> QED  BY <1>1, <1>10, <2>1, StepMoves, LockedWithout DEF Locked
<1>11. CASE Insert(t)
  <2>1. locks' = [mutex |-> mutex, readers |-> locks.readers, writer |-> None]
    BY <1>2, <1>11 DEF Insert
  <2> QED  BY <1>11, <2>1, StepMoves, LockedExclusive DEF Exclusive
<1>12. CASE RemoveKey(t)
  <2>1. locks' = [mutex |-> mutex, readers |-> locks.readers, writer |-> None]
    BY <1>2, <1>12 DEF RemoveKey, Erase
  <2> QED  BY <1>12, <2>1, StepMoves, LockedExclusive DEF Exclusive
<1>13. CASE Register(t)
  <2>1. PICK new : new = [mutex EXCEPT ![CacheOf(t)] = None]
    OBVIOUS
  <2>2. new \in [Caches -> Threads \union {None}]
    BY <1>4, <2>1
  <2>3. locks' = [mutex |-> new, readers |-> readers, writer |-> writer]
    BY <1>2, <1>13, <2>1 DEF Register
  <2> QED  BY <1>3, <1>13, <2>2, <2>3, StepMoves, LockedWithout
<1>14. CASE Unwatch(t)
  <2>1. UNCHANGED locks
    BY <1>14 DEF Unwatch
  <2> QED  BY <1>1, <1>14, <2>1, StepMoves, LockedWithout DEF Locked
<1>15. CASE RemoveAssociated(t)
  <2>1. PICK new : new = [mutex EXCEPT ![CacheOf(t)] = None]
    OBVIOUS
  <2>2. new \in [Caches -> Threads \union {None}]
    BY <1>4, <2>1
  <2>3. locks' = [mutex |-> new, readers |-> locks.readers, writer |-> None]
    <3>1. locks' = [locks EXCEPT !.writer = None, !.mutex[CacheOf(t)] = None]
      BY <1>15 DEF RemoveAssociated
    <3>2. locks' = [[mutex |-> mutex, readers |-> readers, writer |-> writer] EXCEPT !.writer = None, !.mutex[CacheOf(t)] = None]
      BY <1>2, <3>1, Zenon
    <3> QED  BY <1>3, <2>1, <3>2
  <2> QED  BY <1>15, <2>2, <2>3, StepMoves, LockedExclusive DEF Exclusive
<1> QED
  BY <1>5, <1>6, <1>7, <1>8, <1>9, <1>10, <1>11, <1>12, <1>13, <1>14, <1>15 DEF Step

LEMMA NextLocked ==
  ASSUME IInv, Next
  PROVE  Locked' /\ CallsOK'
<1>1. Locked /\ CallsOK
  BY DEF IInv
<1>2. ASSUME NEW t \in Workers, Begin(t)  PROVE Locked' /\ CallsOK'
  <2>1. t \in Threads
    BY DEF Threads
  <2> QED  BY <1>2, <2>1, BeginEffect, LockedBegun
<1>3. ASSUME NEW t \in Threads, Step(t)  PROVE Locked' /\ CallsOK'
  BY <1>3, StepMoves, LockedStep
<1>4. ASSUME UNCHANGED <<thread, locks>>  PROVE Locked' /\ CallsOK'
  BY <1>1, <1>4 DEF Locked, Reads, Writes, IsNext, CallsOK
<1>5. ASSUME NEW c \in Caches, NEW f \in Files, FileChanged(c, f)  PROVE Locked' /\ CallsOK'
  <2>1. CASE f \in watch[c].files
    <3>1. Start(Main, RemoveAssociatedSteps, <<c, None>>, f, None) /\ UNCHANGED locks /\ Main \in Threads
      BY <1>5, <2>1 DEF FileChanged, Threads
    <3>2. Begun(Main) /\ CallsOK'
      BY <1>1, <3>1, FileChangedEffect
    <3> QED  BY <3>1, <3>2, LockedBegun
  <2>2. CASE f \notin watch[c].files
    BY <1>4, <1>5, <2>2 DEF FileChanged
  <2> QED  BY <2>1, <2>2
<1>6. ASSUME NEW f \in Files, ChangeFile(f)  PROVE Locked' /\ CallsOK'
  BY <1>4, <1>6 DEF ChangeFile
<1>7. ASSUME NEW key \in Entries, Evict(key)  PROVE Locked' /\ CallsOK'
  BY <1>4, <1>7 DEF Evict
<1> QED  BY <1>2, <1>3, <1>5, <1>6, <1>7 DEF Next

-----------------------------------------------------------------------------
(* The backend, in every step. *)

\* What an insertion stores, and under which key.
LEMMA Inserted ==
  ASSUME CallsOK, NEW t \in Threads, At(t, "insert")
  PROVE  thread[t].key \in Entries /\ thread[t].entry \in Entry
<1>1. PICK s : s = thread[t].steps
  OBVIOUS
<1>2. Len(s) \in Nat /\ Len(s) >= 1 /\ s[1] = "insert"
  BY <1>1, NextStep DEF At
<1>3. 1 \in 1..Len(s) /\ 1..(1 - 1) = {}
  BY <1>2
<1> QED  BY <1>1, <1>2, <1>3 DEF CallsOK, CallOK, Supplied

\* Another thread can only get to relinking by a lookup of its own.
LEMMA NoRelink ==
  ASSUME IInv, NEW t \in Threads, Step(t), NEW step \in Exclusive, Moves(t, step, 1), NEW u \in Threads
  PROVE  ~IsNext(u, "relink")'
<1>1. Locked /\ CallsOK /\ CallsOK' /\ t # None
  BY StepMoves, ThreadAssumption DEF IInv, Threads
<1>2. CASE u = t
  BY <1>1, <1>2, HoldsNext DEF Moves, Exclusive
<1>3. CASE u # t
  <2>1. locks.writer = t /\ locks.readers = {}
    BY <1>1 DEF Locked, Moves, Writes
  <2>2. ~IsNext(u, "relink")
    BY <1>1, <2>1 DEF Locked, Reads
  <2>3. thread'[u] = thread[u]
    BY <1>3 DEF Moves, StepsLeft
  <2> QED  BY <2>2, <2>3 DEF IsNext
<1> QED  BY <1>2, <1>3

\* What a step does to the backend.
StoreNext(keys) ==
  /\ BackendOK(backend)' /\ backend'.kind = backend.kind
  /\ DOMAIN backend'.store \subseteq Stored \union keys
  /\ \A k \in DOMAIN backend'.store \ keys : backend'.store[k] = backend.store[k]

LEMMA StoreSame == ASSUME IInv, UNCHANGED backend  PROVE StoreNext({})
BY DEF IInv, StoreNext, BackendOK, Stored

LEMMA StoreWithout == ASSUME IInv, NEW keys, backend' = Without(keys)  PROVE StoreNext({}) /\ Stored' = Stored \ keys
<1>1. BackendOK(backend)
  BY DEF IInv
<1>2. PICK b : b = Without(keys)
  OBVIOUS
<1>3. BackendOK(b) /\ b.kind = backend.kind /\ DOMAIN b.store = Stored \ keys /\ \A k \in DOMAIN b.store : b.store[k] = backend.store[k]
  BY <1>1, <1>2, WithoutCorrect
<1>4. backend' = b
  BY <1>2
<1>5. BackendOK(backend)'
  BY <1>3, <1>4 DEF BackendOK, TotalCost, Cost
<1> QED  BY <1>3, <1>4, <1>5 DEF StoreNext, Stored

LEMMA StepStore ==
  ASSUME IInv, NEW t \in Threads, Step(t)
  PROVE  /\ Insert(t) => /\ StoreNext({thread[t].key})
                         /\ thread[t].key \in Stored' => backend'.store[thread[t].key] = thread[t].entry
         /\ ~Insert(t) => StoreNext({})
         /\ RemoveAssociated(t) => Stored' = Stored \ Associated(CacheOf(t), thread[t].file)
<1>1. BackendOK(backend) /\ CallsOK
  BY DEF IInv
<1>2. ASSUME Insert(t)
      PROVE  /\ StoreNext({thread[t].key})
             /\ thread[t].key \in Stored' => backend'.store[thread[t].key] = thread[t].entry
  <2>1. PICK key, entry : key = thread[t].key /\ entry = thread[t].entry
    OBVIOUS
  <2>2. key \in Entries /\ entry \in Entry
    BY <1>1, <1>2, <2>1, Inserted DEF Insert
  <2>3. PICK b : b = With(key, entry)
    OBVIOUS
  <2>4. /\ BackendOK(b) /\ b.kind = backend.kind
        /\ DOMAIN b.store \subseteq Stored \union {key}
        /\ \A k \in DOMAIN b.store : b.store[k] = IF k = key THEN entry ELSE backend.store[k]
    BY <1>1, <2>2, <2>3, WithCorrect
  <2>5. backend' = b
    BY <1>2, <2>1, <2>3 DEF Insert
  <2>6. BackendOK(backend)'
    BY <2>4, <2>5 DEF BackendOK, TotalCost, Cost
  <2> QED  BY <2>1, <2>4, <2>5, <2>6 DEF StoreNext, Stored
<1>3. ASSUME RemoveAssociated(t)
      PROVE  StoreNext({}) /\ Stored' = Stored \ Associated(CacheOf(t), thread[t].file)
  BY <1>3, StoreWithout DEF RemoveAssociated
<1>4. ASSUME RemoveKey(t)  PROVE StoreNext({})
  BY <1>4, StoreWithout DEF RemoveKey, Erase
<1>5. ASSUME Relink(t)  PROVE StoreNext({})
  <2>1. PICK key : key = thread[t].key
    OBVIOUS
  <2>2. backend.kind = "RamCache" /\ key \in Stored
    BY <1>5, <2>1 DEF Relink, At, IInv, RelinkStored
  <2>3. PICK b : b = [backend EXCEPT !.recent = <<key>> \o Leaving(@, {key})]
    OBVIOUS
  <2>4. BackendOK(b) /\ b.kind = backend.kind /\ b.store = backend.store
    BY <1>1, <2>2, <2>3, MovedCorrect
  <2>5. backend' = b
    BY <1>5, <2>1, <2>3 DEF Relink
  <2>6. BackendOK(backend)'
    BY <2>4, <2>5 DEF BackendOK, TotalCost, Cost
  <2> QED  BY <2>4, <2>5, <2>6 DEF StoreNext, Stored
<1>6. CASE UNCHANGED backend
  <2>1. StoreNext({})
    BY <1>6, StoreSame
  <2> QED  BY <1>2, <1>3, <2>1
<1>7. CASE Insert(t) \/ RemoveKey(t) \/ Relink(t) \/ RemoveAssociated(t)
  BY <1>2, <1>3, <1>4, <1>5, <1>7
<1> QED
  BY <1>6, <1>7 DEF Step, LockMutex, LockRead, LockWrite, Lookup, ReadFile, Register, Unwatch

LEMMA NextStore ==
  ASSUME IInv, Next
  PROVE  BackendOK(backend)'
<1>1. ASSUME NEW t \in Workers, Begin(t)  PROVE BackendOK(backend)'
  <2>1. t \in Threads
    BY DEF Threads
  <2> QED  BY <1>1, <2>1, BeginEffect, StoreSame DEF StoreNext
<1>2. ASSUME NEW t \in Threads, Step(t)  PROVE BackendOK(backend)'
  BY <1>2, StepStore DEF StoreNext
<1>3. ASSUME NEW c \in Caches, NEW f \in Files, FileChanged(c, f)  PROVE BackendOK(backend)'
  BY <1>3, StoreSame DEF FileChanged, StoreNext
<1>4. ASSUME NEW f \in Files, ChangeFile(f)  PROVE BackendOK(backend)'
  BY <1>4, StoreSame DEF ChangeFile, StoreNext
<1>5. ASSUME NEW key \in Entries, Evict(key)  PROVE BackendOK(backend)'
  BY <1>5, StoreWithout DEF Evict, StoreNext
<1> QED  BY <1>1, <1>2, <1>3, <1>4, <1>5 DEF Next

LEMMA RelinkBegun ==
  ASSUME IInv, NEW t \in Threads, Begun(t), CallsOK', UNCHANGED backend
  PROVE  RelinkStored'
<1>1. ~IsNext(t, "relink")'
  BY HoldsNothing DEF Reads
<1>2. ASSUME NEW u \in Threads, u # t, IsNext(u, "relink")'
      PROVE backend'.kind = "RamCache" /\ thread'[u].key \in Stored'
  <2>1. thread'[u] = thread[u]
    BY <1>2 DEF Begun
  <2> QED  BY <1>2, <2>1 DEF IInv, RelinkStored, IsNext, Stored
<1> QED  BY <1>1, <1>2 DEF RelinkStored

LEMMA RelinkStep ==
  ASSUME IInv, NEW t \in Threads, Step(t)
  PROVE  RelinkStored'
<1>1. CallsOK /\ CallsOK' /\ RelinkStored
  BY StepMoves DEF IInv
<1>2. ASSUME NEW step \in Exclusive, Moves(t, step, 1)  PROVE RelinkStored'
  BY <1>2, NoRelink DEF RelinkStored
<1>3. ASSUME backend'.kind = backend.kind, backend'.store = backend.store, NEW u \in Threads, u # t, IsNext(u, "relink")'
      PROVE  backend'.kind = "RamCache" /\ thread'[u].key \in Stored'
  <2>1. thread'[u] = thread[u]
    BY <1>3, StepMoves DEF Moves, StepsLeft
  <2> QED  BY <1>1, <1>3, <2>1 DEF RelinkStored, IsNext, Stored
<1>4. ASSUME backend'.kind = backend.kind, backend'.store = backend.store,
             NEW step, step # "lookup", Moves(t, step, 1)
      PROVE  RelinkStored'
  <2>1. ~IsNext(t, "relink")'
    BY <1>1, <1>4, HoldsNext DEF Moves
  <2> QED  BY <1>3, <1>4, <2>1 DEF RelinkStored
<1>5. CASE Insert(t) \/ RemoveKey(t) \/ RemoveAssociated(t)
  BY <1>2, <1>5, StepMoves DEF Exclusive
<1>6. CASE Relink(t)
  <2>1. backend'.kind = backend.kind /\ backend'.store = backend.store
    <3>1. PICK r : r = <<thread[t].key>> \o Leaving(backend.recent, {thread[t].key})
      OBVIOUS
    <3>2. backend' = [backend EXCEPT !.recent = r]
      BY <1>6, <3>1 DEF Relink
    <3>3. backend = [kind |-> backend.kind, store |-> backend.store, recent |-> backend.recent]
      BY DEF IInv, BackendOK
    <3> QED  BY <3>2, <3>3
  <2> QED  BY <1>4, <1>6, <2>1, StepMoves
<1>7. CASE Lookup(t)
  <2>1. UNCHANGED backend /\ IsNext(t, "lookup")
    BY <1>7 DEF Lookup, At
  <2>2. CASE Relinks(thread[t].key)
    <3>1. Moves(t, "lookup", 1)
      BY <1>7, <2>2, StepMoves
    <3>2. Len(thread[t].steps) # 1
      <4>1. PICK s : s = thread[t].steps
        OBVIOUS
      <4>2. Len(s) >= 1 /\ s[1] = "lookup" /\ Paired(s) /\ Len(s) \in Nat
        BY <1>1, <2>1, <4>1, NextStep DEF CallsOK, CallOK
      <4>3. 1 \in 1..Len(s)
        BY <4>2
      <4> QED  BY <4>1, <4>2, <4>3 DEF Paired
    <3>3. thread'[t].key = thread[t].key
      BY <3>1, <3>2 DEF Moves, StepsLeft
    <3> QED  BY <1>3, <2>1, <2>2, <3>3 DEF RelinkStored, Relinks, Stored
  <2>3. CASE ~Relinks(thread[t].key)
    <3>1. Moves(t, "lookup", 2)
      BY <1>7, <2>3, StepMoves
    <3>2. Len(thread[t].steps) \in Nat
      BY <1>1, <2>1, NextStep
    <3>3. ~Reads(t)'
      BY <1>1, <3>1, <3>2, HoldsAfterLookup DEF Moves
    <3> QED  BY <1>3, <2>1, <3>3 DEF RelinkStored, Reads
  <2> QED  BY <2>2, <2>3
<1>8. CASE LockMutex(t) \/ LockRead(t) \/ LockWrite(t) \/ ReadFile(t) \/ Register(t) \/ Unwatch(t)
  <2>1. UNCHANGED backend
    BY <1>8 DEF LockMutex, LockRead, LockWrite, ReadFile, Register, Unwatch
  <2> QED  BY <1>4, <1>8, <2>1, StepMoves
<1> QED  BY <1>5, <1>6, <1>7, <1>8 DEF Step

LEMMA NextRelink ==
  ASSUME IInv, Next
  PROVE  RelinkStored'
<1>1. RelinkStored /\ CallsOK
  BY DEF IInv
<1>2. ASSUME NEW t \in Workers, Begin(t)  PROVE RelinkStored'
  <2>1. t \in Threads
    BY DEF Threads
  <2> QED  BY <1>2, <2>1, BeginEffect, RelinkBegun
<1>3. ASSUME UNCHANGED <<thread, backend>>  PROVE RelinkStored'
  BY <1>1, <1>3 DEF RelinkStored, IsNext, Stored
<1>4. ASSUME NEW c \in Caches, NEW f \in Files, FileChanged(c, f)  PROVE RelinkStored'
  <2>1. CASE f \in watch[c].files
    <3>1. Start(Main, RemoveAssociatedSteps, <<c, None>>, f, None) /\ UNCHANGED backend /\ Main \in Threads
      BY <1>4, <2>1 DEF FileChanged, Threads
    <3>2. Begun(Main) /\ CallsOK'
      BY <1>1, <3>1, FileChangedEffect
    <3> QED  BY <3>1, <3>2, RelinkBegun
  <2>2. CASE f \notin watch[c].files
    BY <1>3, <1>4, <2>2 DEF FileChanged
  <2> QED  BY <2>1, <2>2
<1>5. ASSUME NEW f \in Files, ChangeFile(f)  PROVE RelinkStored'
  BY <1>3, <1>5 DEF ChangeFile
<1>6. ASSUME NEW key \in Entries, Evict(key)  PROVE RelinkStored'
  <2>1. backend.kind = "MemcachedCache" /\ UNCHANGED thread
    BY <1>6 DEF Evict
  <2>2. \A u \in Threads : ~IsNext(u, "relink")
    BY <1>1, <2>1 DEF RelinkStored
  <2> QED  BY <2>1, <2>2 DEF RelinkStored, IsNext
<1> QED  BY <1>2, <1>4, <1>5, <1>6, RelinkStep DEF Next

-----------------------------------------------------------------------------
(* The watcher, in every step. *)

Watches == [files : SUBSET Files, changed : SUBSET Files, fragments : SUBSET (Files \X Entries)]

\* The file and the key of a call that adds or removes dependencies.
LEMMA FileOfStep ==
  ASSUME CallsOK, NEW t \in Threads, NEW step \in {"register", "unwatch", "removeAssociated"}, IsNext(t, step)
  PROVE  /\ thread[t].file \in Files /\ CacheOf(t) \in Caches
         /\ step = "register" => thread[t].key \in Entries
<1>1. PICK call, s : call = thread[t] /\ s = call.steps
  OBVIOUS
<1>2. Len(s) \in Nat /\ Len(s) >= 1 /\ s[1] = step /\ Supplied(call)
  BY <1>1, NextStep DEF CallsOK, CallOK
<1>3. 1 \in 1..Len(s)
  BY <1>2
<1>4. call.file \in Files /\ call.key \in CallKeys /\ (step = "register" => call.key \in Entries)
  BY <1>1, <1>2, <1>3 DEF Supplied
<1>5. call.key[1] \in Caches
  BY <1>4 DEF CallKeys, Entries, Caches
<1> QED  BY <1>1, <1>4, <1>5 DEF CacheOf

\* What each step does to the sets of each cache.
LEMMA RegisterEffect ==
  ASSUME IInv, NEW t \in Threads, Register(t)
  PROVE  LET f == thread[t].file IN
         /\ WatchOK'
         /\ \A c \in Caches :
              /\ watch'[c].changed = watch[c].changed
              /\ watch'[c].files = watch[c].files \union (IF c = CacheOf(t) THEN {f} ELSE {})
              /\ watch'[c].fragments =
                   watch[c].fragments \union (IF c = CacheOf(t) THEN {<<f, thread[t].key>>} ELSE {})
<1>1. PICK f, key, c : f = thread[t].file /\ key = thread[t].key /\ c = CacheOf(t)
  OBVIOUS
<1>2. f \in Files /\ key \in Entries /\ c \in Caches
  BY <1>1, FileOfStep DEF Register, At, IInv
<1>3. PICK files, changed, fragments : watch[c] = [files |-> files, changed |-> changed, fragments |-> fragments]
  BY <1>2 DEF IInv, WatchOK
<1>4. files \in SUBSET Files /\ changed \in SUBSET Files /\ fragments \in SUBSET (Files \X Entries)
  <2>1. watch[c] \in [files : SUBSET Files, changed : SUBSET Files, fragments : SUBSET (Files \X Entries)]
    BY <1>2 DEF IInv, WatchOK
  <2> QED  BY <1>3, <2>1
<1>5. watch' = [watch EXCEPT ![c].files = @ \union {f}, ![c].fragments = @ \union {<<f, key>>}]
  BY <1>1 DEF Register
<1>6. PICK new : new = [files |-> files \union {f}, changed |-> changed, fragments |-> fragments \union {<<f, key>>}]
  OBVIOUS
<1>7. watch' = [watch EXCEPT ![c] = new]
  <2>1. PICK w : w = [watch EXCEPT ![c].files = @ \union {f}]
    OBVIOUS
  <2>2. PICK old : old = [files |-> files \union {f}, changed |-> changed, fragments |-> fragments]
    OBVIOUS
  <2>3. DOMAIN watch = Caches
    BY DEF IInv, WatchOK
  <2>4. w = [watch EXCEPT ![c] = old]
    <3>1. w = [watch EXCEPT ![c] = [watch[c] EXCEPT !.files = watch[c].files \union {f}]]
      BY <2>1
    <3>2. [watch[c] EXCEPT !.files = watch[c].files \union {f}] = old
      BY <1>3, <2>2
    <3> QED  BY <3>1, <3>2
  <2>5. watch' = [w EXCEPT ![c].fragments = @ \union {<<f, key>>}]
    BY <1>5, <2>1
  <2>6. w[c] = old /\ DOMAIN w = Caches
    BY <1>2, <2>3, <2>4
  <2>7. [w[c] EXCEPT !.fragments = w[c].fragments \union {<<f, key>>}] = new
    BY <1>6, <2>2, <2>6
  <2>8. watch' = [w EXCEPT ![c] = new]
    <3>1. watch' = [w EXCEPT ![c] = [w[c] EXCEPT !.fragments = w[c].fragments \union {<<f, key>>}]]
      BY <2>5
    <3> QED  BY <2>7, <3>1
  <2> QED  BY <2>3, <2>4, <2>8
<1>8. new \in Watches
  BY <1>2, <1>4, <1>6 DEF Watches
<1>9. WatchOK'
  BY <1>7, <1>8 DEF IInv, WatchOK, Watches
<1>10. ASSUME NEW d \in Caches  PROVE watch'[d] = IF d = c THEN new ELSE watch[d]
  BY <1>7 DEF IInv, WatchOK
<1> QED  BY <1>1, <1>3, <1>6, <1>9, <1>10

LEMMA WatchType ==
  ASSUME IInv, NEW c \in Caches
  PROVE  \E files \in SUBSET Files, changed \in SUBSET Files, fragments \in SUBSET (Files \X Entries) :
           watch[c] = [files |-> files, changed |-> changed, fragments |-> fragments]
<1>1. watch[c] \in [files : SUBSET Files, changed : SUBSET Files, fragments : SUBSET (Files \X Entries)]
  BY DEF IInv, WatchOK
<1> QED  BY <1>1

\* The sets of one cache change.
LEMMA WatchNext ==
  ASSUME IInv, NEW c \in Caches, NEW new \in Watches, watch' = [watch EXCEPT ![c] = new]
  PROVE  WatchOK' /\ \A d \in Caches : watch'[d] = IF d = c THEN new ELSE watch[d]
BY DEF IInv, WatchOK, Watches

LEMMA UnwatchEffect ==
  ASSUME IInv, NEW t \in Threads, Unwatch(t)
  PROVE  LET f == thread[t].file IN
         /\ WatchOK'
         /\ \A c \in Caches :
              /\ watch'[c].changed = watch[c].changed /\ watch'[c].fragments = watch[c].fragments
              /\ watch'[c].files = watch[c].files \ (IF c = CacheOf(t) THEN {f} ELSE {})
<1>1. PICK f, c : f = thread[t].file /\ c = CacheOf(t)
  OBVIOUS
<1>2. f \in Files /\ c \in Caches
  BY <1>1, FileOfStep DEF Unwatch, At, IInv
<1>3. PICK files \in SUBSET Files, changed \in SUBSET Files, fragments \in SUBSET (Files \X Entries) :
        watch[c] = [files |-> files, changed |-> changed, fragments |-> fragments]
  BY <1>2, WatchType
<1>4. PICK new : new = [files |-> files \ {f}, changed |-> changed, fragments |-> fragments]
  OBVIOUS
<1>5. watch' = [watch EXCEPT ![c] = [watch[c] EXCEPT !.files = watch[c].files \ {f}]]
  BY <1>1 DEF Unwatch
<1>6. [watch[c] EXCEPT !.files = watch[c].files \ {f}] = new
  BY <1>3, <1>4
<1>7. watch' = [watch EXCEPT ![c] = new] /\ new \in Watches
  <2>1. files \ {f} \in SUBSET Files
    OBVIOUS
  <2>2. new \in Watches
    BY <1>4, <2>1 DEF Watches
  <2> QED  BY <1>5, <1>6, <2>2
<1>8. WatchOK' /\ \A d \in Caches : watch'[d] = IF d = c THEN new ELSE watch[d]
  BY <1>2, <1>7, WatchNext
<1> QED  BY <1>1, <1>3, <1>4, <1>8

LEMMA RemoveAssociatedEffect ==
  ASSUME IInv, NEW t \in Threads, RemoveAssociated(t)
  PROVE  LET f == thread[t].file IN
         /\ WatchOK'
         /\ \A c \in Caches :
              /\ watch'[c].changed = watch[c].changed /\ watch'[c].files = watch[c].files
              /\ watch'[c].fragments =
                   {fragment \in watch[c].fragments : ~(c = CacheOf(t) /\ fragment[1] = f)}
<1>1. PICK f, c : f = thread[t].file /\ c = CacheOf(t)
  OBVIOUS
<1>2. f \in Files /\ c \in Caches
  BY <1>1, FileOfStep DEF RemoveAssociated, At, IInv
<1>3. PICK files \in SUBSET Files, changed \in SUBSET Files, fragments \in SUBSET (Files \X Entries) :
        watch[c] = [files |-> files, changed |-> changed, fragments |-> fragments]
  BY <1>2, WatchType
<1>4. PICK left : left = {fragment \in fragments : fragment[1] # f}
  OBVIOUS
<1>5. PICK new : new = [files |-> files, changed |-> changed, fragments |-> left]
  OBVIOUS
<1>6. watch' = [watch EXCEPT ![c] = [watch[c] EXCEPT !.fragments = {fragment \in watch[c].fragments : fragment[1] # f}]]
  BY <1>1 DEF RemoveAssociated
<1>7. {fragment \in watch[c].fragments : fragment[1] # f} = left
  BY <1>3, <1>4
<1>8. [watch[c] EXCEPT !.fragments = left] = new
  BY <1>3, <1>5
<1>9. watch' = [watch EXCEPT ![c] = new]
  BY <1>6, <1>7, <1>8
<1>10. left \in SUBSET (Files \X Entries)
  BY <1>4
<1>11. new \in Watches
  BY <1>5, <1>10 DEF Watches
<1>12. WatchOK' /\ \A d \in Caches : watch'[d] = IF d = c THEN new ELSE watch[d]
  BY <1>2, <1>9, <1>11, WatchNext
<1>13. ASSUME NEW d \in Caches
       PROVE  /\ watch'[d].changed = watch[d].changed /\ watch'[d].files = watch[d].files
              /\ watch'[d].fragments = {fragment \in watch[d].fragments : ~(d = c /\ fragment[1] = f)}
  <2>1. CASE d = c
    <3>1. watch'[d] = new /\ watch[d] = [files |-> files, changed |-> changed, fragments |-> fragments]
      BY <1>3, <1>12, <2>1
    <3>2. left = {fragment \in fragments : ~(d = c /\ fragment[1] = f)}
      BY <1>4, <2>1
    <3> QED  BY <1>5, <3>1, <3>2
  <2>2. CASE d # c
    <3>1. watch'[d] = watch[d]
      BY <1>12, <2>2
    <3>2. {fragment \in watch[d].fragments : ~(d = c /\ fragment[1] = f)} = watch[d].fragments
      BY <2>2
    <3> QED  BY <3>1, <3>2
  <2> QED  BY <2>1, <2>2
<1> QED  BY <1>1, <1>12, <1>13

LEMMA FileChangedWatch ==
  ASSUME IInv, NEW c \in Caches, NEW f \in Files, FileChanged(c, f)
  PROVE  /\ WatchOK'
         /\ \A d \in Caches :
              /\ watch'[d].fragments = watch[d].fragments /\ watch'[d].files = watch[d].files
              /\ watch'[d].changed = watch[d].changed \ (IF d = c THEN {f} ELSE {})
<1>1. PICK files \in SUBSET Files, changed \in SUBSET Files, fragments \in SUBSET (Files \X Entries) :
        watch[c] = [files |-> files, changed |-> changed, fragments |-> fragments]
  BY WatchType
<1>2. PICK new : new = [files |-> files, changed |-> changed \ {f}, fragments |-> fragments]
  OBVIOUS
<1>3. watch' = [watch EXCEPT ![c] = [watch[c] EXCEPT !.changed = watch[c].changed \ {f}]]
  BY DEF FileChanged
<1>4. [watch[c] EXCEPT !.changed = watch[c].changed \ {f}] = new
  BY <1>1, <1>2
<1>5. watch' = [watch EXCEPT ![c] = new] /\ new \in Watches
  <2>1. changed \ {f} \in SUBSET Files
    OBVIOUS
  <2>2. new \in Watches
    BY <1>2, <2>1 DEF Watches
  <2> QED  BY <1>3, <1>4, <2>2
<1>6. WatchOK' /\ \A d \in Caches : watch'[d] = IF d = c THEN new ELSE watch[d]
  BY <1>5, WatchNext
<1> QED  BY <1>1, <1>2, <1>6

LEMMA ChangeFileWatch ==
  ASSUME IInv, NEW f \in Files, ChangeFile(f)
  PROVE  /\ WatchOK'
         /\ \A d \in Caches :
              /\ watch'[d].fragments = watch[d].fragments /\ watch'[d].files = watch[d].files
              /\ watch'[d].changed = watch[d].changed \union (IF f \in watch[d].files THEN {f} ELSE {})
<1>1. watch' = [c \in Caches |-> [watch[c] EXCEPT !.changed = IF f \in watch[c].files THEN @ \union {f} ELSE @]]
  BY DEF ChangeFile
<1>2. ASSUME NEW d \in Caches
      PROVE  /\ watch'[d] \in Watches
             /\ watch'[d].fragments = watch[d].fragments /\ watch'[d].files = watch[d].files
             /\ watch'[d].changed = watch[d].changed \union (IF f \in watch[d].files THEN {f} ELSE {})
  <2>1. PICK files \in SUBSET Files, changed \in SUBSET Files, fragments \in SUBSET (Files \X Entries) :
          watch[d] = [files |-> files, changed |-> changed, fragments |-> fragments]
    BY WatchType
  <2>2. PICK more : more = changed \union (IF f \in files THEN {f} ELSE {})
    OBVIOUS
  <2>3. watch'[d] = [watch[d] EXCEPT !.changed = IF f \in watch[d].files THEN watch[d].changed \union {f} ELSE watch[d].changed]
    BY <1>1
  <2>4. (IF f \in watch[d].files THEN watch[d].changed \union {f} ELSE watch[d].changed) = more
    BY <2>1, <2>2
  <2>5. watch'[d] = [watch[d] EXCEPT !.changed = more]
    BY <2>3, <2>4
  <2>6. watch'[d] = [files |-> files, changed |-> more, fragments |-> fragments]
    BY <2>1, <2>5
  <2>7. more \in SUBSET Files
    BY <2>2
  <2>8. watch'[d] \in Watches
    BY <2>6, <2>7 DEF Watches
  <2> QED  BY <2>1, <2>2, <2>6, <2>8
<1>3. watch' \in [Caches -> Watches]
  <2>1. watch' = [c \in Caches |-> watch'[c]]
    BY <1>1
  <2> QED  BY <1>2, <2>1
<1> QED  BY <1>2, <1>3 DEF WatchOK, Watches

\* Steps that leave the watcher alone.
LEMMA WatchSame == ASSUME IInv, UNCHANGED watch  PROVE WatchOK'
BY DEF IInv, WatchOK

LEMMA StepWatch ==
  ASSUME NEW t \in Threads, Step(t), ~Register(t), ~Unwatch(t), ~RemoveAssociated(t)
  PROVE  UNCHANGED watch
BY DEF Step, LockMutex, LockRead, LockWrite, Lookup, Relink, ReadFile, Insert, RemoveKey

LEMMA NextWatch ==
  ASSUME IInv, Next
  PROVE  WatchOK'
<1>1. ASSUME NEW t \in Workers, Begin(t)  PROVE WatchOK'
  <2>1. t \in Threads
    BY DEF Threads
  <2> QED  BY <1>1, <2>1, BeginEffect, WatchSame
<1>2. ASSUME NEW t \in Threads, Step(t)  PROVE WatchOK'
  BY <1>2, RegisterEffect, UnwatchEffect, RemoveAssociatedEffect, StepWatch, WatchSame
<1>3. ASSUME NEW key \in Entries, Evict(key)  PROVE WatchOK'
  BY <1>3, WatchSame DEF Evict
<1> QED  BY <1>1, <1>2, <1>3, FileChangedWatch, ChangeFileWatch DEF Next

\* Who unwatches a file is about to remove its entries.
LEMMA UnwatchRemoves ==
  ASSUME IInv, NEW t \in Threads, Unwatch(t), Step(t),
         NEW c, c = CacheOf(t), NEW f, f = thread[t].file
  PROVE  Removing(t, c, f)'
<1>1. PICK s : s = thread[t].steps
  OBVIOUS
<1>2. CallsOK /\ IsNext(t, "unwatch") /\ Len(s) \in Nat /\ Len(s) >= 1 /\ s[1] = "unwatch" /\ Paired(s) /\ s \in Seq(StepNames)
  BY <1>1, NextStep DEF IInv, Unwatch, At, CallsOK, CallOK
<1>3. Len(s) >= 3 /\ s[3] = "removeAssociated"
  <2>1. 1 \in 1..Len(s) /\ 1 + 2 = 3
    BY <1>2
  <2> QED  BY <1>2, <2>1 DEF Paired
<1>4. Removing(t, c, f)
  <2>1. 3 \in DOMAIN s
    <3> HIDE DEF StepNames
    <3> QED  BY <1>2, <1>3
  <2> QED  BY <1>1, <1>3, <2>1 DEF Removing, ToSet
<1>5. ~IsNext(t, "removeAssociated")
  BY <1>2 DEF IsNext
<1> QED  BY <1>4, <1>5, StepRemoving

LEMMA WithdrawnStep ==
  ASSUME IInv, NEW t \in Threads, Step(t)
  PROVE  Withdrawn'
<1> SUFFICES ASSUME NEW c \in Caches, NEW f \in Files, NEW k \in Entries,
                    <<f, k>> \in watch'[c].fragments, f \notin watch'[c].files
             PROVE  \E u \in Threads : Removing(u, c, f)'
  BY DEF Withdrawn
<1>1. Withdrawn
  BY DEF IInv
<1>2. CASE Register(t)
  <2>1. f \notin watch[c].files /\ <<f, k>> \in watch[c].fragments
    BY <1>2, RegisterEffect
  <2>2. PICK u \in Threads : Removing(u, c, f)
    BY <1>1, <2>1 DEF Withdrawn
  <2>3. ~IsNext(t, "removeAssociated")
    BY <1>2 DEF Register, At, IsNext
  <2> QED  BY <2>2, <2>3, StepRemoving
<1>3. CASE Unwatch(t)
  <2>1. <<f, k>> \in watch[c].fragments
    BY <1>3, UnwatchEffect
  <2>2. CASE c = CacheOf(t) /\ f = thread[t].file
    BY <1>3, <2>2, UnwatchRemoves
  <2>3. CASE ~(c = CacheOf(t) /\ f = thread[t].file)
    <3>1. f \notin watch[c].files
      BY <1>3, <2>3, UnwatchEffect
    <3>2. PICK u \in Threads : Removing(u, c, f)
      BY <1>1, <2>1, <3>1 DEF Withdrawn
    <3>3. ~IsNext(t, "removeAssociated")
      BY <1>3 DEF Unwatch, At, IsNext
    <3> QED  BY <3>2, <3>3, StepRemoving
  <2> QED  BY <2>2, <2>3
<1>4. CASE RemoveAssociated(t)
  <2>1. <<f, k>> \in watch[c].fragments /\ ~(c = CacheOf(t) /\ f = thread[t].file) /\ f \notin watch[c].files
    BY <1>4, RemoveAssociatedEffect
  <2>2. PICK u \in Threads : Removing(u, c, f)
    BY <1>1, <2>1 DEF Withdrawn
  <2>3. u # t
    BY <2>1, <2>2 DEF Removing
  <2> QED  BY <2>2, <2>3, StepRemoving
<1>5. CASE ~Register(t) /\ ~Unwatch(t) /\ ~RemoveAssociated(t)
  <2>1. UNCHANGED watch
    BY <1>5, StepWatch
  <2>2. PICK u \in Threads : Removing(u, c, f)
    BY <1>1, <2>1 DEF Withdrawn
  <2>3. ~IsNext(t, "removeAssociated")
    BY <1>5 DEF Step, LockMutex, LockRead, LockWrite, Lookup, Relink, ReadFile, Insert, RemoveKey, At, IsNext
  <2> QED  BY <2>2, <2>3, StepRemoving
<1> QED  BY <1>2, <1>3, <1>4, <1>5

\* A call that begins leaves the removals of others alone; so does what is not a thread's.
LEMMA OtherRemoving ==
  ASSUME IInv, Next, \A t \in Threads : ~Step(t), NEW u \in Threads, NEW c, NEW f, Removing(u, c, f)
  PROVE  Removing(u, c, f)'
<1>1. ASSUME NEW t \in Workers, Begin(t)  PROVE Removing(u, c, f)'
  <2>1. t \in Threads
    BY DEF Threads
  <2> QED  BY <1>1, <2>1, BeginEffect, BegunRemoving
<1>2. ASSUME UNCHANGED thread  PROVE Removing(u, c, f)'
  BY <1>2 DEF Removing, CacheOf
<1>3. ASSUME NEW d \in Caches, NEW g \in Files, FileChanged(d, g)  PROVE Removing(u, c, f)'
  <2>1. CASE g \in watch[d].files
    <3>1. Start(Main, RemoveAssociatedSteps, <<d, None>>, g, None) /\ Main \in Threads /\ CallsOK
      BY <1>3, <2>1 DEF FileChanged, Threads, IInv
    <3>2. Begun(Main)
      BY <3>1, FileChangedEffect
    <3> QED  BY <3>1, <3>2, BegunRemoving
  <2>2. CASE g \notin watch[d].files
    BY <1>2, <1>3, <2>2 DEF FileChanged
  <2> QED  BY <2>1, <2>2
<1>4. ASSUME NEW g \in Files, ChangeFile(g)  PROVE Removing(u, c, f)'
  BY <1>2, <1>4 DEF ChangeFile
<1>5. ASSUME NEW key \in Entries, Evict(key)  PROVE Removing(u, c, f)'
  BY <1>2, <1>5 DEF Evict
<1> QED  BY <1>1, <1>3, <1>4, <1>5 DEF Next

LEMMA NextWithdrawn ==
  ASSUME IInv, Next
  PROVE  Withdrawn'
<1>1. CASE \E t \in Threads : Step(t)
  BY <1>1, WithdrawnStep
<1>2. CASE \A t \in Threads : ~Step(t)
  <2> SUFFICES ASSUME NEW c \in Caches, NEW f \in Files, NEW k \in Entries,
                      <<f, k>> \in watch'[c].fragments, f \notin watch'[c].files
               PROVE  \E u \in Threads : Removing(u, c, f)'
    BY DEF Withdrawn
  <2>1. <<f, k>> \in watch[c].fragments /\ f \notin watch[c].files
    <3>1. ASSUME NEW t \in Workers, Begin(t)  PROVE UNCHANGED watch
      <4>1. t \in Threads
        BY DEF Threads
      <4> QED  BY <3>1, <4>1, BeginEffect
    <3> QED  BY <1>2, <3>1, FileChangedWatch, ChangeFileWatch DEF Next, Evict
  <2>2. PICK u \in Threads : Removing(u, c, f)
    BY <2>1 DEF IInv, Withdrawn
  <2> QED  BY <1>2, <2>2, OtherRemoving
<1> QED  BY <1>1, <1>2

-----------------------------------------------------------------------------
(* What is stale, in every step. *)

\* The key is stored with an entry of the file that is older than it.
StaleOf(k, f) == k \in Stored /\ backend.store[k].file = f /\ backend.store[k].version # version[f]

LEMMA StaleBefore ==
  ASSUME IInv, NEW k, NEW f, StaleOf(k, f), k \notin missed
  PROVE  /\ k \in Entries /\ k[1] \in Caches /\ f \in Files
         /\ <<f, k>> \in watch[k[1]].fragments
         /\ f \in watch[k[1]].changed \/ \E t \in Threads : Removing(t, k[1], f)
<1>1. k \in Entries /\ backend.store[k] \in Entry
  BY DEF IInv, BackendOK, StaleOf, Stored
<1>2. k[1] \in Caches /\ f \in Files
  BY <1>1 DEF Entries, Caches, Entry, StaleOf
<1> QED  BY <1>1, <1>2 DEF IInv, StaleDepends, StaleOf

LEMMA StaleStep ==
  ASSUME IInv, NEW t \in Threads, Step(t)
  PROVE  StaleDepends'
<1> SUFFICES ASSUME NEW k, NEW f, StaleOf(k, f)', k \notin missed'
             PROVE  /\ <<f, k>> \in watch'[k[1]].fragments
                    /\ f \in watch'[k[1]].changed \/ \E u \in Threads : Removing(u, k[1], f)'
  BY DEF StaleDepends, StaleOf
<1>1. version' = version
  BY DEF Step, LockMutex, LockRead, LockWrite, Lookup, Relink, ReadFile, Insert, RemoveKey, Register,
         Unwatch, RemoveAssociated
<1>2. CASE Insert(t)
  <2>1. PICK key, entry : key = thread[t].key /\ entry = thread[t].entry
    OBVIOUS
  <2>2. /\ missed' = IF entry.version = version[entry.file] THEN missed \ {key} ELSE missed \union {key}
        /\ UNCHANGED watch /\ ~IsNext(t, "removeAssociated")
    BY <1>2, <2>1 DEF Insert, At, IsNext
  <2>3. StoreNext({key}) /\ (key \in Stored' => backend'.store[key] = entry)
    BY <1>2, <2>1, StepStore
  <2>4. k # key
    BY <1>1, <2>2, <2>3 DEF StaleOf
  <2>5. StaleOf(k, f) /\ k \notin missed
    BY <1>1, <2>2, <2>3, <2>4 DEF StaleOf, StoreNext, Stored
  <2> QED  BY <2>2, <2>5, StaleBefore, StepRemoving
<1>3. CASE ~Insert(t)
  <2>1. StoreNext({}) /\ missed' = missed
    BY <1>3, StepStore
    DEF Step, LockMutex, LockRead, LockWrite, Lookup, Relink, ReadFile, RemoveKey, Register, Unwatch, RemoveAssociated
  <2>2. StaleOf(k, f) /\ k \notin missed
    BY <1>1, <2>1 DEF StaleOf, StoreNext, Stored
  <2>3. /\ k \in Entries /\ k[1] \in Caches /\ f \in Files /\ <<f, k>> \in watch[k[1]].fragments
        /\ f \in watch[k[1]].changed \/ \E u \in Threads : Removing(u, k[1], f)
    BY <2>2, StaleBefore
  <2>4. CASE RemoveAssociated(t)
    <3>1. ~(k[1] = CacheOf(t) /\ f = thread[t].file)
      <4>1. Stored' = Stored \ Associated(CacheOf(t), thread[t].file)
        BY <2>4, StepStore
      <4>2. k \notin Associated(CacheOf(t), thread[t].file)
        BY <4>1 DEF StaleOf
      <4> QED  BY <2>3, <4>2 DEF Associated
    <3>2. PICK c : c = k[1]
      OBVIOUS
    <3>3. c \in Caches /\ <<f, k>> \in watch[c].fragments /\ ~(c = CacheOf(t) /\ f = thread[t].file)
      BY <2>3, <3>1, <3>2
    <3>4. watch'[c].fragments = {fragment \in watch[c].fragments : ~(c = CacheOf(t) /\ fragment[1] = thread[t].file)}
      BY <2>4, <3>3, RemoveAssociatedEffect
    <3>5. <<f, k>> \in watch'[c].fragments /\ watch'[c].changed = watch[c].changed
      BY <2>4, <3>3, <3>4, RemoveAssociatedEffect
    <3>6. ASSUME NEW u \in Threads, Removing(u, c, f)  PROVE Removing(u, c, f)'
      <4>1. u # t
        BY <3>1, <3>2, <3>6 DEF Removing
      <4> QED  BY <3>6, <4>1, StepRemoving
    <3> QED  BY <2>3, <3>2, <3>5, <3>6
  <2>5. CASE ~RemoveAssociated(t)
    <3>1. ~IsNext(t, "removeAssociated")
      BY <1>3, <2>5 DEF Step, LockMutex, LockRead, LockWrite, Lookup, Relink, ReadFile, RemoveKey, Register, Unwatch, At, IsNext
    <3>2. <<f, k>> \in watch'[k[1]].fragments /\ watch'[k[1]].changed = watch[k[1]].changed
      <4>1. CASE Register(t)
        BY <2>3, <4>1, RegisterEffect
      <4>2. CASE Unwatch(t)
        BY <2>3, <4>2, UnwatchEffect
      <4>3. CASE ~Register(t) /\ ~Unwatch(t)
        BY <2>3, <2>5, <4>3, StepWatch
      <4> QED  BY <4>1, <4>2, <4>3
    <3> QED  BY <2>3, <3>1, <3>2, StepRemoving
  <2> QED  BY <2>4, <2>5
<1> QED  BY <1>2, <1>3

LEMMA NextStale ==
  ASSUME IInv, Next
  PROVE  StaleDepends'
<1>1. CASE \E t \in Threads : Step(t)
  BY <1>1, StaleStep
<1>2. CASE \A t \in Threads : ~Step(t)
  <2> SUFFICES ASSUME NEW k, NEW f, StaleOf(k, f)', k \notin missed'
               PROVE  /\ <<f, k>> \in watch'[k[1]].fragments
                      /\ f \in watch'[k[1]].changed \/ \E u \in Threads : Removing(u, k[1], f)'
    BY DEF StaleDepends, StaleOf
  <2>1. ASSUME UNCHANGED <<watch, version, missed>>, StoreNext({})
        PROVE  /\ <<f, k>> \in watch'[k[1]].fragments
               /\ f \in watch'[k[1]].changed \/ \E u \in Threads : Removing(u, k[1], f)'
    <3>1. StaleOf(k, f) /\ k \notin missed
      BY <2>1 DEF StaleOf, StoreNext, Stored
    <3> QED  BY <1>2, <2>1, <3>1, StaleBefore, OtherRemoving
  <2>2. ASSUME NEW t \in Workers, Begin(t)
        PROVE  UNCHANGED <<watch, version, missed>> /\ StoreNext({})
    <3>1. t \in Threads
      BY DEF Threads
    <3> QED  BY <2>2, <3>1, BeginEffect, StoreSame
  <2>3. ASSUME NEW key \in Entries, Evict(key)
        PROVE  UNCHANGED <<watch, version, missed>> /\ StoreNext({})
    BY <2>3, StoreWithout DEF Evict
  <2>4. ASSUME NEW d \in Caches, NEW g \in Files, FileChanged(d, g)
        PROVE  /\ <<f, k>> \in watch'[k[1]].fragments
               /\ f \in watch'[k[1]].changed \/ \E u \in Threads : Removing(u, k[1], f)'
    <3>1. UNCHANGED <<backend, version, missed>>
      BY <2>4 DEF FileChanged
    <3>2. StaleOf(k, f) /\ k \notin missed
      BY <3>1 DEF StaleOf, Stored
    <3>3. /\ k \in Entries /\ k[1] \in Caches /\ f \in Files /\ <<f, k>> \in watch[k[1]].fragments
          /\ f \in watch[k[1]].changed \/ \E u \in Threads : Removing(u, k[1], f)
      BY <3>2, StaleBefore
    <3>4. <<f, k>> \in watch'[k[1]].fragments
          /\ watch'[k[1]].changed = watch[k[1]].changed \ (IF k[1] = d THEN {g} ELSE {})
      BY <2>4, <3>3, FileChangedWatch
    <3>5. CASE \E u \in Threads : Removing(u, k[1], f)
      BY <1>2, <3>4, <3>5, OtherRemoving
    <3>6. CASE f \in watch[k[1]].changed /\ ~(k[1] = d /\ f = g)
      BY <3>4, <3>6
    <3>7. CASE k[1] = d /\ f = g /\ f \in watch[d].files
      <4>1. Start(Main, RemoveAssociatedSteps, <<d, None>>, g, None) /\ Main \in Threads /\ CallsOK
        BY <2>4, <3>7 DEF FileChanged, Threads, IInv
      <4>2. Removing(Main, d, g)'
        BY <4>1, FileChangedEffect
      <4> QED  BY <3>4, <3>7, <4>1, <4>2
    <3>8. CASE k[1] = d /\ f = g /\ f \notin watch[d].files
      <4>1. \E u \in Threads : Removing(u, d, f)
        BY <3>3, <3>8 DEF IInv, Withdrawn
      <4> QED  BY <1>2, <3>4, <3>8, <4>1, OtherRemoving
    <3> QED  BY <3>3, <3>5, <3>6, <3>7, <3>8
  <2>5. ASSUME NEW g \in Files, ChangeFile(g)
        PROVE  /\ <<f, k>> \in watch'[k[1]].fragments
               /\ f \in watch'[k[1]].changed \/ \E u \in Threads : Removing(u, k[1], f)'
    <3>1. /\ UNCHANGED backend /\ version' = [version EXCEPT ![g] = @ + 1]
          /\ missed' = missed \union {l \in Stored : backend.store[l].file = g /\ ~DependsOn(l, g)}
      BY <2>5 DEF ChangeFile
    <3>2. k \in Stored /\ backend.store[k].file = f /\ k \notin missed /\ k \in Entries /\ k[1] \in Caches
      <4>1. k \in Stored /\ backend.store[k].file = f /\ k \notin missed
        BY <3>1 DEF StaleOf, Stored
      <4>2. k \in Entries
        BY <4>1 DEF IInv, BackendOK, Stored
      <4> QED  BY <4>1, <4>2 DEF Entries, Caches
    <3>3. /\ watch'[k[1]].fragments = watch[k[1]].fragments
          /\ watch'[k[1]].changed = watch[k[1]].changed \union (IF g \in watch[k[1]].files THEN {g} ELSE {})
      BY <2>5, <3>2, ChangeFileWatch
    <3>4. CASE f = g
      <4>1. DependsOn(k, f)
        BY <3>1, <3>2, <3>4
      <4> QED  BY <3>3, <3>4, <4>1 DEF DependsOn
    <3>5. CASE f # g
      <4>1. version'[f] = version[f]
        BY <3>1, <3>5 DEF IInv, VersionOK
      <4>2. StaleOf(k, f)
        BY <3>1, <3>2, <4>1 DEF StaleOf
      <4> QED  BY <1>2, <3>2, <3>3, <4>2, StaleBefore, OtherRemoving
    <3> QED  BY <3>4, <3>5
  <2> QED  BY <1>2, <2>1, <2>2, <2>3, <2>4, <2>5 DEF Next
<1> QED  BY <1>1, <1>2

-----------------------------------------------------------------------------
(* The theorems. *)

LEMMA NextRest ==
  ASSUME IInv, Next
  PROVE  VersionOK' /\ missed' \subseteq Entries /\ broken' \in BOOLEAN
<1>1. VersionOK'
  <2>1. ASSUME NEW t \in Workers, Begin(t)  PROVE UNCHANGED version
    <3>1. t \in Threads
      BY DEF Threads
    <3> QED  BY <2>1, <3>1, BeginEffect
  <2>2. ASSUME NEW t \in Threads, Step(t)  PROVE UNCHANGED version
    BY <2>2 DEF Step, LockMutex, LockRead, LockWrite, Lookup, Relink, ReadFile, Insert, RemoveKey, Register,
                Unwatch, RemoveAssociated
  <2>3. ASSUME NEW f \in Files, ChangeFile(f)  PROVE VersionOK'
    <3>1. version' = [version EXCEPT ![f] = version[f] + 1] /\ version[f] < MaxChanges
      BY <2>3 DEF ChangeFile
    <3>2. version[f] + 1 \in 0..MaxChanges
      BY <3>1, SizeAssumption DEF IInv, VersionOK
    <3> QED  BY <3>1, <3>2 DEF IInv, VersionOK
  <2>4. ASSUME UNCHANGED version  PROVE VersionOK'
    BY <2>4 DEF IInv, VersionOK
  <2> QED  BY <2>1, <2>2, <2>3, <2>4 DEF Next, FileChanged, Evict
<1>2. missed' \subseteq Entries
  <2>1. ASSUME NEW t \in Workers, Begin(t)  PROVE UNCHANGED missed
    <3>1. t \in Threads
      BY DEF Threads
    <3> QED  BY <2>1, <3>1, BeginEffect
  <2>2. ASSUME NEW t \in Threads, Step(t)  PROVE missed' \subseteq Entries
    <3>1. CASE Insert(t)
      <4>1. thread[t].key \in Entries
        BY <3>1, Inserted DEF Insert, IInv
      <4> QED  BY <3>1, <4>1 DEF Insert, IInv
    <3>2. CASE ~Insert(t)
      BY <2>2, <3>2
      DEF IInv, Step, LockMutex, LockRead, LockWrite, Lookup, Relink, ReadFile, RemoveKey, Register, Unwatch, RemoveAssociated
    <3> QED  BY <3>1, <3>2
  <2>3. ASSUME NEW f \in Files, ChangeFile(f)  PROVE missed' \subseteq Entries
    BY <2>3 DEF ChangeFile, IInv, BackendOK, Stored
  <2> QED  BY <2>1, <2>2, <2>3 DEF Next, FileChanged, Evict, IInv
<1>3. broken' \in BOOLEAN
  <2>1. ASSUME NEW t \in Workers, Begin(t)  PROVE UNCHANGED broken
    <3>1. t \in Threads
      BY DEF Threads
    <3> QED  BY <2>1, <3>1, BeginEffect
  <2>2. ASSUME NEW t \in Threads, Step(t)  PROVE broken' \in BOOLEAN
    BY <2>2 DEF IInv, Step, LockMutex, LockRead, LockWrite, Lookup, ShareConnection, Relink, ReadFile, Insert, RemoveKey, Erase,
                Register, Unwatch, RemoveAssociated
  <2> QED  BY <2>1, <2>2 DEF Next, FileChanged, ChangeFile, Evict, IInv
<1> QED  BY <1>1, <1>2, <1>3

LEMMA IInvNext == IInv /\ [Next]_vars => IInv'
<1> SUFFICES ASSUME IInv, [Next]_vars  PROVE IInv'
  OBVIOUS
<1>1. CASE Next
  BY <1>1, NextLocked, NextStore, NextRelink, NextWatch, NextWithdrawn, NextStale, NextRest DEF IInv
<1>2. CASE UNCHANGED vars
  BY <1>2, SMTT(20)
  DEF vars, IInv, CallsOK, VersionOK, BackendOK, TotalCost, Cost, Locked, Reads, Writes, IsNext, RelinkStored,
      Stored, WatchOK, Withdrawn, StaleDepends, Removing, CacheOf
<1> QED  BY <1>1, <1>2

\* The store and the list of its keys belong together, a RamCache keeps its limit, and the
\* lock is held by readers or by one writer.
THEOREM CacheTypeCorrect == Spec => []CacheTypeOK
<1>1. Init => IInv
  BY IInvInit
<1>2. IInv => CacheTypeOK
  BY DEF IInv, BackendOK, Locked, CacheTypeOK, Stored
<1> QED  BY <1>1, <1>2, IInvNext, PTL DEF Spec

\* An entry that is older than its file is going to be removed.
THEOREM StaleCorrect == Spec => []StaleIsRemoved
<1>1. Init => IInv
  BY IInvInit
<1>2. IInv => StaleIsRemoved
  BY DEF IInv, StaleDepends, StaleIsRemoved
<1> QED  BY <1>1, <1>2, IInvNext, PTL DEF Spec
=============================================================================
