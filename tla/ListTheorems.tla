----------------------------- MODULE ListTheorems ---------------------------
(***************************************************************************)
(* Facts about Lists and about sums over finite sets, and the induction    *)
(* they rest on.  The library states induction for an operator, which the  *)
(* provers cannot instantiate; here it is stated for sets.                 *)
(***************************************************************************)
EXTENDS Lists, Integers, WellFoundedInduction, SequenceTheorems,
        FiniteSetTheorems, TLAPS

\* Every non-empty set of naturals has a least member.
LEMMA LeastMember ==
  ASSUME NEW T \in SUBSET Nat, T # {}
  PROVE  \E x \in T : \A y \in T : ~(y < x)
<1> DEFINE R == OpToRel(<, Nat)
<1>1. IsWellFoundedOn(R, Nat)
  BY NatLessThanWellFounded
<1>2. PICK x \in T : \A y \in T : ~ (<<y, x>> \in R)
  BY <1>1, WFMin
<1>3. \A y \in T : <<y, x>> \in R <=> y < x
  BY DEF OpToRel
<1> QED BY <1>2, <1>3

\* Induction up to n: a set that holds 0, and with k the next one, holds all.
LEMMA UpTo ==
  ASSUME NEW n \in Nat, NEW T, 0 \in T,
         \A k \in 1 .. n : k - 1 \in T => k \in T
  PROVE  0 .. n \subseteq T
<1> DEFINE left == {k \in 0 .. n : k \notin T}
<1> SUFFICES ASSUME left # {} PROVE FALSE
  OBVIOUS
<1>1. PICK x \in left : \A y \in left : ~(y < x)
  <2>1. left \in SUBSET Nat
    OBVIOUS
  <2> HIDE DEF left
  <2> QED BY <2>1, LeastMember
<1>2. x \in 1 .. n /\ x - 1 \in 0 .. n /\ x - 1 < x
  BY <1>1
<1>3. x - 1 \in T
  BY <1>1, <1>2
<1> QED BY <1>1, <1>2, <1>3

\* The list that Picked builds, place by place.
Builds(kept, s, K, n) ==
  kept = [k \in 0 .. n |-> IF k = 0 THEN << >>
                           ELSE IF k \in K THEN Append(kept[k - 1], s[k])
                           ELSE kept[k - 1]]

LEMMA SomethingBuilds ==
  ASSUME NEW s, NEW K, NEW n \in Nat
  PROVE  \E kept : Builds(kept, s, K, n)
<1> DEFINE T == {k \in 0 .. n : \E kept : Builds(kept, s, K, k)}
<1>1. 0 \in T
  <2>1. Builds([k \in 0 .. 0 |-> << >>], s, K, 0)
    BY DEF Builds
  <2> QED BY <2>1
<1>2. ASSUME NEW m \in 1 .. n, m - 1 \in T PROVE m \in T
  <2>1. PICK kept : Builds(kept, s, K, m - 1)
    BY <1>2
  <2> DEFINE more == [k \in 0 .. m |-> IF k < m THEN kept[k]
                        ELSE IF m \in K THEN Append(kept[m - 1], s[m]) ELSE kept[m - 1]]
  <2>2. \A k \in 0 .. (m - 1) : more[k] = kept[k]
    OBVIOUS
  <2>3. more[m] = IF m \in K THEN Append(kept[m - 1], s[m]) ELSE kept[m - 1]
    OBVIOUS
  <2>4. ASSUME NEW k \in 0 .. m
        PROVE  more[k] = IF k = 0 THEN << >>
                         ELSE IF k \in K THEN Append(more[k - 1], s[k]) ELSE more[k - 1]
    <3>1. CASE k = m
      <4>1. m - 1 \in 0 .. (m - 1) /\ m # 0
        OBVIOUS
      <4>2. more[m - 1] = kept[m - 1]
        BY <2>2, <4>1
      <4> HIDE DEF more
      <4> QED BY <2>3, <3>1, <4>1, <4>2
    <3>2. CASE k < m
      <4>1. k \in 0 .. (m - 1) /\ (k # 0 => k - 1 \in 0 .. (m - 1))
        BY <3>2
      <4>2. kept[k] = IF k = 0 THEN << >>
                      ELSE IF k \in K THEN Append(kept[k - 1], s[k]) ELSE kept[k - 1]
        BY <2>1, <4>1 DEF Builds
      <4>3. more[k] = kept[k] /\ (k # 0 => more[k - 1] = kept[k - 1])
        BY <2>2, <4>1
      <4> HIDE DEF more
      <4> QED BY <4>2, <4>3
    <3> QED BY <3>1, <3>2
  <2>5. Builds(more, s, K, m)
    BY <2>4 DEF Builds
  <2> QED BY <2>5
<1>3. 0 .. n \subseteq T
  <2> HIDE DEF T
  <2> QED BY <1>1, <1>2, UpTo
<1> QED BY <1>3

LEMMA BuiltAt ==
  ASSUME NEW s, NEW K, NEW n \in Nat, NEW kept, Builds(kept, s, K, n), NEW k \in 0 .. n
  PROVE  kept[k] = IF k = 0 THEN << >>
                   ELSE IF k \in K THEN Append(kept[k - 1], s[k]) ELSE kept[k - 1]
BY DEF Builds

LEMMA PickedBuilds ==
  ASSUME NEW s, NEW K, Len(s) \in Nat
  PROVE  \E kept : Builds(kept, s, K, Len(s)) /\ Picked(s, K) = kept[Len(s)]
<1> DEFINE f == CHOOSE kept : Builds(kept, s, K, Len(s))
<1>1. Builds(f, s, K, Len(s))
  BY SomethingBuilds
<1>2. Picked(s, K) = f[Len(s)]
  BY DEF Picked, Builds
<1> QED BY <1>1, <1>2

LEMMA AppendHas ==
  ASSUME NEW T, NEW s \in Seq(T), NEW x \in T
  PROVE  /\ Append(s, x) \in Seq(T)
         /\ ToSet(Append(s, x)) = ToSet(s) \cup {x}
         /\ IsInjective(s) /\ x \notin ToSet(s) => IsInjective(Append(s, x))
<1> DEFINE m == Len(s)
           t == Append(s, x)
<1>1. t \in Seq(T) /\ Len(t) = m + 1 /\ (\A i \in 1 .. m : t[i] = s[i]) /\ t[m + 1] = x
  BY AppendProperties
<1>2. m \in Nat /\ DOMAIN s = 1 .. m /\ DOMAIN t = 1 .. (m + 1)
  BY <1>1, LenProperties
<1> HIDE DEF m, t
<1>3. \A i \in 1 .. (m + 1) : i \in 1 .. m \/ i = m + 1
  BY <1>2
<1>4. 1 .. m \subseteq 1 .. (m + 1) /\ m + 1 \in 1 .. (m + 1)
  BY <1>2
<1>5. ToSet(t) = ToSet(s) \cup {x}
  BY <1>1, <1>2, <1>3, <1>4 DEF ToSet
<1>6. ASSUME IsInjective(s), x \notin ToSet(s) PROVE IsInjective(t)
  BY <1>1, <1>2, <1>3, <1>6 DEF ToSet, IsInjective
<1> QED BY <1>1, <1>5, <1>6 DEF t

\* What Picked keeps is what s has at the places of K; if nothing is there twice, then
\* nothing is kept twice.
LEMMA PickedHas ==
  ASSUME NEW T, NEW s \in Seq(T), NEW K
  PROVE  /\ Picked(s, K) \in Seq(T)
         /\ ToSet(Picked(s, K)) = {s[k] : k \in {j \in DOMAIN s : j \in K}}
         /\ (\A i, j \in DOMAIN s : i \in K /\ j \in K /\ s[i] = s[j] => i = j)
               => IsInjective(Picked(s, K))
<1> DEFINE n == Len(s)
<1>1. n \in Nat /\ DOMAIN s = 1 .. n
  BY LenProperties
<1>2. PICK kept : Builds(kept, s, K, n) /\ Picked(s, K) = kept[n]
  BY <1>1, PickedBuilds
<1> HIDE DEF n
<1> DEFINE Apart   == \A i, j \in DOMAIN s : i \in K /\ j \in K /\ s[i] = s[j] => i = j
           Seen(k) == {s[j] : j \in {i \in 1 .. k : i \in K}}
           Good(k) == /\ kept[k] \in Seq(T) /\ ToSet(kept[k]) = Seen(k)
                      /\ Apart => IsInjective(kept[k])
           Fine == {k \in 0 .. n : Good(k)}
<1>3. 0 \in Fine
  <2>1. kept[0] = << >>
    <3>1. 0 \in 0 .. n
      BY <1>1
    <3> QED BY <1>1, <1>2, <3>1 DEF Builds
  <2>2. << >> \in Seq(T) /\ ToSet(<< >>) = {} /\ IsInjective(<< >>)
    BY EmptySeq DEF ToSet, IsInjective
  <2>3. Seen(0) = {} /\ 0 \in 0 .. n
    BY <1>1
  <2> HIDE DEF Seen, Apart
  <2> QED BY <1>1, <2>1, <2>2, <2>3
<1>4. ASSUME NEW k \in 1 .. n, k - 1 \in Fine PROVE k \in Fine
  <2>1. /\ kept[k - 1] \in Seq(T) /\ ToSet(kept[k - 1]) = Seen(k - 1)
        /\ Apart => IsInjective(kept[k - 1])
    <3>1. Good(k - 1)
      <4> HIDE DEF Good
      <4> QED BY <1>4
    <3> HIDE DEF Seen, Apart
    <3> QED BY <3>1
  <2>2. kept[k] = IF k \in K THEN Append(kept[k - 1], s[k]) ELSE kept[k - 1]
    <3>1. k \in 0 .. n /\ k # 0
      BY <1>1
    <3> QED BY <1>1, <1>2, <3>1, BuiltAt
  <2>3. s[k] \in T /\ k \in 0 .. n
    BY <1>1, ElementOfSeq
  <2>4. CASE k \in K
    <3>1. Seen(k) = Seen(k - 1) \cup {s[k]}
      <4>1. {i \in 1 .. k : i \in K} = {i \in 1 .. (k - 1) : i \in K} \cup {k}
        BY <2>4
      <4> QED BY <4>1
    <3>2. Apart => s[k] \notin Seen(k - 1)
      <4>1. \A i \in 1 .. (k - 1) : i \in DOMAIN s /\ k \in DOMAIN s /\ i # k
        BY <1>1
      <4> QED BY <2>4, <4>1
    <3> HIDE DEF Seen, Apart
    <3>3. /\ kept[k] \in Seq(T) /\ ToSet(kept[k]) = Seen(k)
          /\ Apart => IsInjective(kept[k])
      BY <2>1, <2>2, <2>3, <2>4, <3>1, <3>2, AppendHas
    <3> QED BY <2>3, <3>3
  <2>5. CASE k \notin K
    <3>1. {i \in 1 .. k : i \in K} = {i \in 1 .. (k - 1) : i \in K}
      BY <2>5
    <3>2. Seen(k) = Seen(k - 1)
      BY <3>1
    <3> HIDE DEF Seen, Apart
    <3> QED BY <2>1, <2>2, <2>3, <2>5, <3>2
  <2> QED BY <2>4, <2>5
<1>5. n \in Fine
  <2> HIDE DEF Fine
  <2>1. 0 .. n \subseteq Fine
    BY <1>1, <1>3, <1>4, UpTo
  <2> QED BY <1>1, <2>1
<1>6. {k \in DOMAIN s : k \in K} = {k \in 1 .. n : k \in K}
  BY <1>1
<1>7. Good(n)
  <2> HIDE DEF Good
  <2> QED BY <1>5
<1> QED BY <1>2, <1>6, <1>7

LEMMA OnlyHas ==
  ASSUME NEW T, NEW s \in Seq(T), NEW S
  PROVE  /\ Only(s, S) \in Seq(T)
         /\ ToSet(Only(s, S)) = ToSet(s) \cap S
         /\ IsInjective(s) => IsInjective(Only(s, S))
<1> DEFINE K == {k \in DOMAIN s : s[k] \in S}
<1>1. Only(s, S) = Picked(s, K)
  BY DEF Only
<1>2. {s[k] : k \in {j \in DOMAIN s : j \in K}} = ToSet(s) \cap S
  BY DEF ToSet
<1>3. IsInjective(s) => \A i, j \in DOMAIN s : i \in K /\ j \in K /\ s[i] = s[j] => i = j
  BY DEF IsInjective
<1> HIDE DEF K
<1> QED BY <1>1, <1>2, <1>3, PickedHas

\* Once loses nothing and repeats nothing.
LEMMA OnceHas ==
  ASSUME NEW T, NEW s \in Seq(T)
  PROVE  /\ Once(s) \in Seq(T)
         /\ ToSet(Once(s)) = ToSet(s)
         /\ IsInjective(Once(s))
<1> DEFINE K == {k \in DOMAIN s : \A j \in 1 .. (k - 1) : s[j] # s[k]}
<1>1. Once(s) = Picked(s, K)
  BY DEF Once
<1>2. ASSUME NEW k \in DOMAIN s PROVE \E j \in K : s[j] = s[k]
  <2> DEFINE same == {j \in DOMAIN s : s[j] = s[k]}
  <2>1. DOMAIN s = 1 .. Len(s) /\ Len(s) \in Nat
    BY LenProperties
  <2>2. same \in SUBSET Nat /\ same # {}
    BY <2>1
  <2>3. PICK j \in same : \A i \in same : ~(i < j)
    <3> HIDE DEF same
    <3> QED BY <2>2, LeastMember
  <2>4. \A i \in 1 .. (j - 1) : i \in DOMAIN s /\ i < j
    BY <2>1, <2>3
  <2> QED BY <2>3, <2>4
<1>3. {s[k] : k \in {j \in DOMAIN s : j \in K}} = ToSet(s)
  BY <1>2 DEF ToSet
<1>4. ASSUME NEW i \in DOMAIN s, NEW j \in DOMAIN s, i \in K, j \in K, s[i] = s[j] PROVE i = j
  <2>1. i \in Nat /\ j \in Nat /\ i > 0 /\ j > 0
    BY LenProperties
  <2>2. ~(i < j) /\ ~(j < i)
    <3>1. \A m \in 1 .. (j - 1) : s[m] # s[j]
      BY <1>4
    <3>2. \A m \in 1 .. (i - 1) : s[m] # s[i]
      BY <1>4
    <3>3. (i < j => i \in 1 .. (j - 1)) /\ (j < i => j \in 1 .. (i - 1))
      BY <2>1
    <3> QED BY <1>4, <3>1, <3>2, <3>3
  <2> QED BY <2>1, <2>2
<1> HIDE DEF K
<1>5. /\ Picked(s, K) \in Seq(T)
      /\ ToSet(Picked(s, K)) = {s[k] : k \in {j \in DOMAIN s : j \in K}}
      /\ IsInjective(Picked(s, K))
  BY <1>4, PickedHas
<1> QED BY <1>1, <1>3, <1>5

LEMMA JoinHas ==
  ASSUME NEW T, NEW s \in Seq(T), NEW t \in Seq(T)
  PROVE  /\ s \o t \in Seq(T)
         /\ ToSet(s \o t) = ToSet(s) \cup ToSet(t)
         /\ IsInjective(s) /\ IsInjective(t) /\ ToSet(s) \cap ToSet(t) = {}
              => IsInjective(s \o t)
<1> DEFINE m == Len(s)
           n == Len(t)
           u == s \o t
<1>1. /\ m \in Nat /\ DOMAIN s = 1 .. m
      /\ n \in Nat /\ DOMAIN t = 1 .. n
      /\ u \in Seq(T) /\ DOMAIN u = 1 .. (m + n)
  BY LenProperties, ConcatProperties
<1>2. \A k \in 1 .. (m + n) : u[k] = IF k <= m THEN s[k] ELSE t[k - m]
  BY ConcatProperties
<1> HIDE DEF m, n, u
<1>3. \A k \in 1 .. m : u[k] = s[k] /\ k \in 1 .. (m + n)
  BY <1>1, <1>2
<1>4. \A k \in 1 .. n : u[m + k] = t[k] /\ m + k \in 1 .. (m + n)
  BY <1>1, <1>2
<1>5. \A k \in 1 .. (m + n) : \/ k \in 1 .. m /\ u[k] = s[k]
                            \/ \E j \in 1 .. n : k = m + j /\ u[k] = t[j]
  <2>1. \A k \in 1 .. (m + n) : k \in 1 .. m \/ (k - m \in 1 .. n /\ k = m + (k - m))
    BY <1>1
  <2> QED BY <1>3, <1>4, <2>1
<1>6. ToSet(u) = ToSet(s) \cup ToSet(t)
  <2>1. \A x : x \in ToSet(u) <=> \E k \in 1 .. (m + n) : x = u[k]
    BY <1>1 DEF ToSet
  <2>2. \A x : x \in ToSet(s) \cup ToSet(t) <=>
                 (\E k \in 1 .. m : x = s[k]) \/ (\E k \in 1 .. n : x = t[k])
    BY <1>1 DEF ToSet
  <2>3. ASSUME NEW x \in ToSet(u) PROVE x \in ToSet(s) \cup ToSet(t)
    BY <1>5, <2>1, <2>2
  <2>4. ASSUME NEW x \in ToSet(s) \cup ToSet(t) PROVE x \in ToSet(u)
    BY <1>3, <1>4, <2>1, <2>2
  <2> QED BY <2>3, <2>4
<1>7. ASSUME IsInjective(s), IsInjective(t), ToSet(s) \cap ToSet(t) = {},
             NEW i \in DOMAIN u, NEW j \in DOMAIN u, u[i] = u[j]
      PROVE  i = j
  <2>1. (\A k \in 1 .. m : s[k] \in ToSet(s)) /\ (\A k \in 1 .. n : t[k] \in ToSet(t))
    BY <1>1 DEF ToSet
  <2>2. CASE i \in 1 .. m /\ u[i] = s[i]
    BY <1>1, <1>5, <1>7, <2>1, <2>2 DEF IsInjective
  <2>3. CASE \E k \in 1 .. n : i = m + k /\ u[i] = t[k]
    BY <1>1, <1>5, <1>7, <2>1, <2>3 DEF IsInjective
  <2> QED BY <1>1, <1>5, <2>2, <2>3
<1> QED BY <1>1, <1>6, <1>7 DEF u, IsInjective

LEMMA HeadTailHas ==
  ASSUME NEW T, NEW s \in Seq(T), s # << >>
  PROVE  /\ Head(s) \in T /\ Tail(s) \in Seq(T)
         /\ ToSet(s) = {Head(s)} \cup ToSet(Tail(s))
         /\ IsInjective(s) => Head(s) \notin ToSet(Tail(s)) /\ IsInjective(Tail(s))
<1> DEFINE n == Len(s)
<1>1. /\ Head(s) \in T /\ Tail(s) \in Seq(T) /\ Len(Tail(s)) = n - 1
      /\ \A k \in 1 .. n - 1 : Tail(s)[k] = s[k + 1]
  BY HeadTailProperties
<1>2. n \in Nat /\ n # 0 /\ DOMAIN s = 1 .. n /\ DOMAIN Tail(s) = 1 .. (n - 1) /\ Head(s) = s[1]
  BY <1>1, LenProperties, EmptySeq
<1> HIDE DEF n
<1>3. \A k \in 1 .. n : k = 1 \/ (k - 1 \in 1 .. (n - 1) /\ s[k] = Tail(s)[k - 1])
  BY <1>1, <1>2
<1>4. 1 \in 1 .. n /\ \A k \in 1 .. (n - 1) : k + 1 \in 1 .. n
  BY <1>2
<1> DEFINE t == Tail(s)
<1>5. \A k \in 1 .. (n - 1) : t[k] = s[k + 1] /\ k + 1 \in 1 .. n
  BY <1>1, <1>4
<1>6. /\ \A k \in 1 .. n : k = 1 \/ (k - 1 \in 1 .. (n - 1) /\ s[k] = t[k - 1])
      /\ DOMAIN t = 1 .. (n - 1)
  BY <1>2, <1>3
<1> HIDE DEF t
<1>7. ToSet(s) = {s[1]} \cup ToSet(t)
  <2>1. \A x : x \in ToSet(s) <=> \E k \in 1 .. n : x = s[k]
    BY <1>2 DEF ToSet
  <2>2. \A x : x \in ToSet(t) <=> \E k \in 1 .. (n - 1) : x = t[k]
    BY <1>6 DEF ToSet
  <2>3. ASSUME NEW x \in ToSet(t) PROVE x \in ToSet(s)
    BY <1>5, <2>1, <2>2
  <2>4. ASSUME NEW x \in ToSet(s), x # s[1] PROVE x \in ToSet(t)
    BY <1>6, <2>1, <2>2, <2>4
  <2>5. s[1] \in ToSet(s)
    BY <1>4, <2>1
  <2> QED BY <2>3, <2>4, <2>5
<1>8. ASSUME IsInjective(s) PROVE s[1] \notin ToSet(t) /\ IsInjective(t)
  <2>1. \A k \in 1 .. (n - 1) : k + 1 # 1 /\ k \in Nat
    BY <1>2
  <2>2. \A k \in 1 .. (n - 1) : s[k + 1] # s[1]
    BY <1>2, <1>4, <1>5, <1>8, <2>1 DEF IsInjective
  <2>3. \A j, k \in 1 .. (n - 1) : s[j + 1] = s[k + 1] => j + 1 = k + 1
    BY <1>2, <1>4, <1>8 DEF IsInjective
  <2>4. \A j, k \in 1 .. (n - 1) : j + 1 = k + 1 => j = k
    BY <1>2
  <2> QED BY <1>5, <1>6, <2>2, <2>3, <2>4 DEF ToSet, IsInjective
<1> QED BY <1>1, <1>2, <1>7, <1>8 DEF t

\* A list is one of its own members.
LEMMA OfItsOwn ==
  ASSUME NEW T, NEW s \in Seq(T)
  PROVE  ToSet(s) \subseteq T /\ s \in Seq(ToSet(s))
<1>1. Len(s) \in Nat /\ DOMAIN s = 1 .. Len(s) /\ s = [k \in 1 .. Len(s) |-> s[k]]
  BY LenProperties
<1>2. \A k \in 1 .. Len(s) : s[k] \in ToSet(s)
  BY <1>1 DEF ToSet
<1>3. s \in Seq(ToSet(s))
  <2>1. [k \in 1 .. Len(s) |-> s[k]] \in Seq(ToSet(s))
    BY <1>1, <1>2, IsASeq
  <2> QED BY <1>1, <2>1
<1> QED BY <1>3, ElementOfSeq DEF ToSet

LEMMA EmptyHas == << >> \in Seq({}) /\ ToSet(<< >>) = {} /\ IsInjective(<< >>)
BY EmptySeq DEF ToSet, IsInjective

LEMMA NothingIn == ASSUME NEW T, NEW s \in Seq(T), ToSet(s) = {} PROVE s = << >>
<1>1. s # << >> => Head(s) \in ToSet(s)
  BY HeadTailHas
<1> QED BY <1>1

\* A place is left out.
LEMMA RemoveAtHas ==
  ASSUME NEW T, NEW s \in Seq(T), NEW k \in DOMAIN s
  PROVE  RemoveAt(s, k) \in Seq(T) /\ ToSet(RemoveAt(s, k)) \subseteq ToSet(s)
<1>1. Len(s) \in Nat /\ DOMAIN s = 1 .. Len(s)
  BY LenProperties
<1>2. s \in Seq(ToSet(s))
  BY OfItsOwn
<1>3. \A i \in 1 .. Len(s) : s[i] \in ToSet(s)
  BY <1>1 DEF ToSet
<1>4. SubSeq(s, 1, k - 1) \in Seq(ToSet(s)) /\ SubSeq(s, k + 1, Len(s)) \in Seq(ToSet(s))
  BY <1>1, <1>2, <1>3, SubSeqProperties
<1>5. RemoveAt(s, k) \in Seq(ToSet(s))
  BY <1>4, JoinHas DEF RemoveAt
<1>6. ToSet(RemoveAt(s, k)) \subseteq ToSet(s) /\ ToSet(s) \subseteq T
  BY <1>5, OfItsOwn
<1> QED BY <1>5, <1>6, SeqMonotonic

-----------------------------------------------------------------------------
(***************************************************************************)
(* Sums over finite sets.                                                  *)
(***************************************************************************)

\* Induction over the finite set S: what holds of {}, and with T of T and one more
\* member of S, holds of S and of all its subsets.
LEMMA SubsetInduction ==
  ASSUME NEW S, IsFiniteSet(S), NEW P, {} \in P,
         \A T \in SUBSET S : \A x \in S \ T : T \in P => T \cup {x} \in P
  PROVE  SUBSET S \subseteq P
<1> DEFINE n == Cardinality(S)
           N == {k \in 0 .. n : \A T \in SUBSET S : Cardinality(T) = k => T \in P}
<1>1. n \in Nat
  BY FS_CardinalityType
<1>2. \A T \in SUBSET S : IsFiniteSet(T) /\ Cardinality(T) \in 0 .. n
  BY <1>1, FS_Subset, FS_CardinalityType
<1>3. 0 \in N
  BY <1>1, <1>2, FS_EmptySet
<1>4. ASSUME NEW k \in 1 .. n, k - 1 \in N PROVE k \in N
  <2>1. ASSUME NEW T \in SUBSET S, Cardinality(T) = k PROVE T \in P
    <3>1. PICK x : x \in T
      BY <1>1, <1>2, <2>1, FS_EmptySet
    <3>2. T \ {x} \in SUBSET S /\ x \in S \ (T \ {x}) /\ (T \ {x}) \cup {x} = T
      BY <3>1
    <3>3. Cardinality(T \ {x}) = k - 1
      BY <1>2, <2>1, <3>1, FS_RemoveElement
    <3> QED BY <1>4, <3>2, <3>3
  <2> QED BY <1>1, <2>1
<1>5. ASSUME NEW T \in SUBSET S PROVE T \in P
  <2>1. 0 .. n \subseteq N
    <3> HIDE DEF N, n
    <3> QED BY <1>1, <1>3, <1>4, UpTo
  <2> HIDE DEF n
  <2> QED BY <1>2, <2>1
<1> QED BY <1>5

\* The member that a fold takes first.
First(s) == CHOOSE x \in s : TRUE

\* iter is the function by which the library sums f over S.
Sums(iter, f, S) ==
  iter = [s \in SUBSET S |-> IF s = {} THEN 0 ELSE f[First(s)] + iter[s \ {First(s)}]]

\* The sum of f over S.
Total(f, S) == SumFunctionOnSet(f, S)

LEMMA SumsAt ==
  ASSUME NEW f, NEW S, NEW iter, Sums(iter, f, S), NEW s \in SUBSET S
  PROVE  iter[s] = IF s = {} THEN 0 ELSE f[First(s)] + iter[s \ {First(s)}]
BY DEF Sums

LEMMA FirstIn == ASSUME NEW s, s # {} PROVE First(s) \in s
BY DEF First

LEMMA SomethingSums ==
  ASSUME NEW S, IsFiniteSet(S), NEW f
  PROVE  \E iter : Sums(iter, f, S)
<1> DEFINE n == Cardinality(S)
           Value(g, s) == IF s = {} THEN 0 ELSE f[First(s)] + g[s \ {First(s)}]
           Right(g, k) == /\ g = [s \in SUBSET S |-> g[s]]
                          /\ \A s \in SUBSET S : Cardinality(s) <= k => g[s] = Value(g, s)
           N == {k \in 0 .. n : \E g : Right(g, k)}
<1>1. n \in Nat
  BY FS_CardinalityType
<1>2. \A s \in SUBSET S : IsFiniteSet(s) /\ Cardinality(s) \in 0 .. n
  BY <1>1, FS_Subset, FS_CardinalityType
<1>3. \A s \in SUBSET S : Cardinality(s) = 0 <=> s = {}
  BY <1>2, FS_EmptySet
<1>4. \A s \in SUBSET S : s # {} => /\ s \ {First(s)} \in SUBSET S
                                    /\ Cardinality(s \ {First(s)}) = Cardinality(s) - 1
  BY <1>2, FirstIn, FS_RemoveElement
<1> HIDE DEF n
<1>5. 0 \in N
  <2> DEFINE g == [s \in SUBSET S |-> 0]
  <2>1. \A s \in SUBSET S : Cardinality(s) <= 0 => g[s] = Value(g, s)
    BY <1>2, <1>3
  <2>2. Right(g, 0)
    <3> HIDE DEF Value
    <3> QED BY <2>1
  <2> HIDE DEF Right
  <2> QED BY <1>1, <2>2
<1>6. ASSUME NEW k \in 1 .. n, k - 1 \in N PROVE k \in N
  <2>1. PICK g : Right(g, k - 1)
    <3> HIDE DEF Right
    <3> QED BY <1>6
  <2> DEFINE h == [s \in SUBSET S |-> Value(g, s)]
  <2>2. ASSUME NEW s \in SUBSET S, Cardinality(s) <= k PROVE h[s] = Value(h, s)
    <3>1. CASE s = {}
      BY <3>1
    <3>2. CASE s # {}
      <4> DEFINE t == s \ {First(s)}
      <4>1. t \in SUBSET S /\ Cardinality(t) <= k - 1
        BY <1>1, <1>2, <1>4, <2>2, <3>2
      <4>2. g[t] = Value(g, t)
        <5> HIDE DEF t, Value
        <5> QED BY <2>1, <4>1
      <4>3. h[t] = g[t]
        <5> HIDE DEF t, Value
        <5> QED BY <4>1, <4>2
      <4>4. h[s] = f[First(s)] + g[t]
        BY <3>2
      <4>5. Value(h, s) = f[First(s)] + h[t]
        BY <3>2
      <4> QED BY <4>3, <4>4, <4>5
    <3> QED BY <3>1, <3>2
  <2>3. Right(h, k)
    <3>1. h = [s \in SUBSET S |-> h[s]]
      <4> HIDE DEF Value
      <4> QED OBVIOUS
    <3> HIDE DEF h, Value
    <3> QED BY <2>2, <3>1
  <2> HIDE DEF Right
  <2> QED BY <1>1, <2>3
<1>7. n \in N
  <2> HIDE DEF N
  <2>1. 0 .. n \subseteq N
    BY <1>1, <1>5, <1>6, UpTo
  <2> QED BY <1>1, <2>1
<1>8. PICK g : Right(g, n)
  <2> HIDE DEF Right
  <2> QED BY <1>7
<1>9. ASSUME NEW s \in SUBSET S PROVE g[s] = Value(g, s)
  <2>1. Cardinality(s) <= n
    BY <1>1, <1>2
  <2> HIDE DEF Value
  <2> QED BY <1>8, <2>1
<1>10. Sums(g, f, S)
  <2>1. g = [s \in SUBSET S |-> Value(g, s)]
    <3> HIDE DEF Value
    <3> QED BY <1>8, <1>9
  <2> QED BY <2>1 DEF Sums
<1> QED BY <1>10

LEMMA TotalSums ==
  ASSUME NEW S, IsFiniteSet(S), NEW f
  PROVE  \E iter : Sums(iter, f, S) /\ Total(f, S) = iter[S]
<1> DEFINE g == CHOOSE iter : Sums(iter, f, S)
<1>1. Sums(g, f, S)
  BY SomethingSums
<1>2. Total(f, S) = g[S]
  BY DEF Total, SumFunctionOnSet, FoldFunctionOnSet, MapThenFoldSet, Sums, First
<1> QED BY <1>1, <1>2

\* Two functions that sum the same values agree where both are defined.
LEMMA SumsAgree ==
  ASSUME NEW S, IsFiniteSet(S), NEW T \in SUBSET S, NEW f, NEW g,
         \A x \in T : f[x] = g[x],
         NEW i, Sums(i, f, S), NEW j, Sums(j, g, T)
  PROVE  i[T] = j[T]
<1> DEFINE n == Cardinality(T)
           N == {k \in 0 .. n : \A s \in SUBSET T : Cardinality(s) = k => i[s] = j[s]}
<1>1. IsFiniteSet(T) /\ n \in Nat
  BY FS_Subset, FS_CardinalityType
<1>2. \A s \in SUBSET T : IsFiniteSet(s) /\ Cardinality(s) \in 0 .. n
  BY <1>1, FS_Subset, FS_CardinalityType
<1>3. \A s \in SUBSET T : Cardinality(s) = 0 <=> s = {}
  BY <1>2, FS_EmptySet
<1>4. \A s \in SUBSET T : s # {} =>
        /\ s \ {First(s)} \in SUBSET T /\ First(s) \in T
        /\ Cardinality(s \ {First(s)}) = Cardinality(s) - 1
  BY <1>2, FirstIn, FS_RemoveElement
<1>5. \A s \in SUBSET T : IF s = {} THEN i[s] = 0 /\ j[s] = 0
                          ELSE /\ i[s] = f[First(s)] + i[s \ {First(s)}]
                               /\ j[s] = g[First(s)] + j[s \ {First(s)}]
  <2> TAKE s \in SUBSET T
  <2>1. i[s] = IF s = {} THEN 0 ELSE f[First(s)] + i[s \ {First(s)}]
    <3>1. s \in SUBSET S
      OBVIOUS
    <3> QED BY <3>1, SumsAt
  <2>2. j[s] = IF s = {} THEN 0 ELSE g[First(s)] + j[s \ {First(s)}]
    BY SumsAt
  <2> QED BY <2>1, <2>2
<1> HIDE DEF n
<1>6. 0 \in N
  <2>1. ASSUME NEW s \in SUBSET T, Cardinality(s) = 0 PROVE i[s] = j[s]
    BY <1>3, <1>5, <2>1
  <2> QED BY <1>1, <2>1
<1>7. ASSUME NEW k \in 1 .. n, k - 1 \in N PROVE k \in N
  <2>1. ASSUME NEW s \in SUBSET T, Cardinality(s) = k PROVE i[s] = j[s]
    <3>1. s # {}
      BY <1>1, <1>3, <2>1
    <3>2. i[s \ {First(s)}] = j[s \ {First(s)}]
      BY <1>4, <1>7, <2>1, <3>1
    <3> QED BY <1>4, <1>5, <3>1, <3>2
  <2> QED BY <1>1, <2>1
<1>8. n \in N
  <2> HIDE DEF N
  <2>1. 0 .. n \subseteq N
    BY <1>1, <1>6, <1>7, UpTo
  <2> QED BY <1>1, <2>1
<1> QED BY <1>8 DEF n

\* The sum depends on the values that are summed only.
LEMMA TotalEqual ==
  ASSUME NEW S, IsFiniteSet(S), NEW f, NEW g, \A x \in S : f[x] = g[x]
  PROVE  Total(f, S) = Total(g, S)
<1>1. PICK i : Sums(i, f, S) /\ Total(f, S) = i[S]
  BY TotalSums
<1>2. PICK j : Sums(j, g, S) /\ Total(g, S) = j[S]
  BY TotalSums
<1>3. i[S] = j[S]
  <2>1. S \in SUBSET S
    OBVIOUS
  <2> QED BY <1>1, <1>2, <2>1, SumsAgree
<1> QED BY <1>1, <1>2, <1>3

LEMMA TotalEmpty == ASSUME NEW f PROVE Total(f, {}) = 0
<1>1. PICK iter : Sums(iter, f, {}) /\ Total(f, {}) = iter[{}]
  BY TotalSums, FS_EmptySet
<1> QED BY <1>1, SumsAt

LEMMA TotalFirst ==
  ASSUME NEW S, IsFiniteSet(S), S # {}, NEW f
  PROVE  Total(f, S) = f[First(S)] + Total(f, S \ {First(S)})
<1> DEFINE T == S \ {First(S)}
<1>1. PICK i : Sums(i, f, S) /\ Total(f, S) = i[S]
  BY TotalSums
<1>2. T \in SUBSET S /\ IsFiniteSet(T)
  BY FS_Subset
<1>3. PICK j : Sums(j, f, T) /\ Total(f, T) = j[T]
  BY <1>2, TotalSums
<1>4. i[T] = j[T]
  <2> HIDE DEF T
  <2> QED BY <1>1, <1>2, <1>3, SumsAgree
<1>5. i[S] = f[First(S)] + i[T]
  BY <1>1, SumsAt
<1> QED BY <1>1, <1>3, <1>4, <1>5

LEMMA TotalNat ==
  ASSUME NEW S, IsFiniteSet(S), NEW f, \A x \in S : f[x] \in Nat
  PROVE  \A T \in SUBSET S : Total(f, T) \in Nat
<1> DEFINE n == Cardinality(S)
           N == {k \in 0 .. n : \A s \in SUBSET S : Cardinality(s) = k => Total(f, s) \in Nat}
<1>1. n \in Nat
  BY FS_CardinalityType
<1>2. \A s \in SUBSET S : IsFiniteSet(s) /\ Cardinality(s) \in 0 .. n
  BY <1>1, FS_Subset, FS_CardinalityType
<1>3. \A s \in SUBSET S : Cardinality(s) = 0 <=> s = {}
  BY <1>2, FS_EmptySet
<1>4. \A s \in SUBSET S : s # {} =>
        /\ s \ {First(s)} \in SUBSET S /\ First(s) \in S
        /\ Cardinality(s \ {First(s)}) = Cardinality(s) - 1
        /\ Total(f, s) = f[First(s)] + Total(f, s \ {First(s)})
  BY <1>2, FirstIn, FS_RemoveElement, TotalFirst
<1> HIDE DEF n
<1>5. 0 \in N
  BY <1>1, <1>3, TotalEmpty
<1>6. ASSUME NEW k \in 1 .. n, k - 1 \in N PROVE k \in N
  <2>1. ASSUME NEW s \in SUBSET S, Cardinality(s) = k PROVE Total(f, s) \in Nat
    <3>1. s # {}
      BY <1>1, <1>3, <2>1
    <3>2. Total(f, s \ {First(s)}) \in Nat
      BY <1>4, <1>6, <2>1, <3>1
    <3>3. f[First(s)] \in Nat /\ Total(f, s) = f[First(s)] + Total(f, s \ {First(s)})
      BY <1>4, <3>1
    <3> QED BY <3>2, <3>3
  <2> QED BY <1>1, <2>1
<1>7. 0 .. n \subseteq N
  <2> HIDE DEF N
  <2> QED BY <1>1, <1>5, <1>6, UpTo
<1> QED BY <1>2, <1>7

\* Any member may be taken out.
LEMMA TotalTakeOut ==
  ASSUME NEW S, IsFiniteSet(S), NEW f, \A y \in S : f[y] \in Nat, NEW x \in S
  PROVE  Total(f, S) = f[x] + Total(f, S \ {x})
<1> DEFINE n == Cardinality(S)
           Fine(s) == \A y \in s : Total(f, s) = f[y] + Total(f, s \ {y})
           N == {k \in 0 .. n : \A s \in SUBSET S : Cardinality(s) = k => Fine(s)}
<1>1. n \in Nat
  BY FS_CardinalityType
<1>2. \A s \in SUBSET S : IsFiniteSet(s) /\ Cardinality(s) \in 0 .. n
  BY <1>1, FS_Subset, FS_CardinalityType
<1>3. \A s \in SUBSET S : \A y \in s : Cardinality(s \ {y}) = Cardinality(s) - 1
  BY <1>2, FS_RemoveElement
<1>4. \A s \in SUBSET S : \A y \in s :
         /\ First(s) \in s /\ Total(f, s) = f[First(s)] + Total(f, s \ {First(s)})
  BY <1>2, FirstIn, TotalFirst
<1>5. \A s \in SUBSET S : Total(f, s) \in Nat
  BY TotalNat
<1> HIDE DEF n
<1>6. 0 \in N
  BY <1>1, <1>2, FS_EmptySet
<1>7. ASSUME NEW k \in 1 .. n, k - 1 \in N PROVE k \in N
  <2>1. ASSUME NEW s \in SUBSET S, Cardinality(s) = k, NEW z \in s
        PROVE  Total(f, s) = f[z] + Total(f, s \ {z})
    <3> DEFINE y == First(s)
    <3>1. y \in s /\ Total(f, s) = f[y] + Total(f, s \ {y})
      BY <1>4
    <3> HIDE DEF y
    <3>2. CASE z = y
      BY <3>1, <3>2
    <3>3. CASE z # y
      <4>1. /\ s \ {z} \in SUBSET S /\ s \ {y} \in SUBSET S
            /\ Cardinality(s \ {z}) = k - 1 /\ Cardinality(s \ {y}) = k - 1
            /\ z \in s \ {y} /\ y \in s \ {z} /\ (s \ {z}) \ {y} = (s \ {y}) \ {z}
        BY <1>3, <2>1, <3>1, <3>3
      <4>2. Fine(s \ {z}) /\ Fine(s \ {y})
        <5> HIDE DEF Fine
        <5> QED BY <1>7, <4>1
      <4>3. /\ Total(f, s \ {z}) = f[y] + Total(f, (s \ {z}) \ {y})
            /\ Total(f, s \ {y}) = f[z] + Total(f, (s \ {z}) \ {y})
        BY <4>1, <4>2
      <4>4. f[z] \in Nat /\ f[y] \in Nat /\ Total(f, (s \ {z}) \ {y}) \in Nat
        BY <1>5, <3>1
      <4> QED BY <3>1, <4>3, <4>4
    <3> QED BY <3>2, <3>3
  <2> QED BY <1>1, <2>1
<1>8. 0 .. n \subseteq N
  <2> HIDE DEF N
  <2> QED BY <1>1, <1>6, <1>7, UpTo
<1>9. Fine(S)
  <2> HIDE DEF Fine
  <2>1. S \in SUBSET S
    OBVIOUS
  <2> QED BY <1>2, <1>8, <2>1
<1> QED BY <1>9

\* The sum over two sets that share nothing.
LEMMA TotalParts ==
  ASSUME NEW S, IsFiniteSet(S), NEW f, \A x \in S : f[x] \in Nat,
         NEW A \in SUBSET S, NEW B \in SUBSET S, A \cap B = {}
  PROVE  Total(f, A \cup B) = Total(f, A) + Total(f, B)
<1> DEFINE P == {T \in SUBSET B : Total(f, A \cup T) = Total(f, A) + Total(f, T)}
<1>1. \A T \in SUBSET S : Total(f, T) \in Nat
  BY TotalNat
<1>2. {} \in P
  BY <1>1, TotalEmpty
<1>3. ASSUME NEW T \in SUBSET B, NEW x \in B \ T, T \in P
      PROVE  T \cup {x} \in P
  <2>1. /\ A \cup (T \cup {x}) \in SUBSET S /\ x \in A \cup (T \cup {x})
        /\ (A \cup (T \cup {x})) \ {x} = A \cup T
        /\ T \cup {x} \in SUBSET S /\ x \in T \cup {x} /\ (T \cup {x}) \ {x} = T
    OBVIOUS
  <2>2. \A U \in SUBSET S : IsFiniteSet(U) /\ \A y \in U : f[y] \in Nat
    BY FS_Subset
  <2> DEFINE U == A \cup (T \cup {x})
             V == T \cup {x}
  <2>3. Total(f, U) = f[x] + Total(f, A \cup T)
    <3>1. /\ IsFiniteSet(U) /\ x \in U /\ U \ {x} = A \cup T
          /\ \A y \in U : f[y] \in Nat
      BY <2>1, <2>2
    <3> HIDE DEF U, P
    <3>2. Total(f, U) = f[x] + Total(f, U \ {x})
      BY <3>1, TotalTakeOut
    <3> QED BY <3>1, <3>2
  <2>4. Total(f, V) = f[x] + Total(f, T)
    <3>1. IsFiniteSet(V) /\ x \in V /\ V \ {x} = T /\ \A y \in V : f[y] \in Nat
      BY <2>1, <2>2
    <3> HIDE DEF V, P
    <3>2. Total(f, V) = f[x] + Total(f, V \ {x})
      BY <3>1, TotalTakeOut
    <3> QED BY <3>1, <3>2
  <2>5. /\ f[x] \in Nat /\ Total(f, A) \in Nat /\ Total(f, T) \in Nat
        /\ Total(f, A \cup T) = Total(f, A) + Total(f, T)
    BY <1>1, <1>3
  <2>6. Total(f, A \cup (T \cup {x})) = Total(f, A) + Total(f, T \cup {x})
    BY <2>3, <2>4, <2>5
  <2> QED BY <2>6
<1>4. B \in P
  <2> HIDE DEF P
  <2>1. IsFiniteSet(B)
    BY FS_Subset
  <2>2. \A T \in SUBSET B : \A x \in B \ T : T \in P => T \cup {x} \in P
    BY <1>3
  <2>3. SUBSET B \subseteq P
    BY <1>2, <2>1, <2>2, SubsetInduction
  <2> QED BY <2>3
<1> QED BY <1>4

\* What is part of a set has no larger sum.
LEMMA TotalGrows ==
  ASSUME NEW S, IsFiniteSet(S), NEW f, \A x \in S : f[x] \in Nat,
         NEW B \in SUBSET S, NEW A \in SUBSET B
  PROVE  Total(f, A) <= Total(f, B)
<1>1. A \in SUBSET S /\ B \ A \in SUBSET S /\ A \cap (B \ A) = {} /\ A \cup (B \ A) = B
  OBVIOUS
<1>2. Total(f, B) = Total(f, A) + Total(f, B \ A)
  BY <1>1, TotalParts
<1>3. Total(f, A) \in Nat /\ Total(f, B \ A) \in Nat
  BY <1>1, TotalNat
<1> QED BY <1>2, <1>3

\* The members of S to which g gives d.
With(S, g, d) == {x \in S : g[x] = d}

\* A set that is divided by g: the sums of its parts add up to its own.
LEMMA TotalDivided ==
  ASSUME NEW S, IsFiniteSet(S), NEW f, \A x \in S : f[x] \in Nat,
         NEW D, IsFiniteSet(D), NEW g, \A x \in S : g[x] \in D,
         NEW h, \A d \in D : h[d] = Total(f, With(S, g, d))
  PROVE  Total(h, D) = Total(f, S)
<1> DEFINE Part(E) == {x \in S : g[x] \in E}
           One(d)  == With(S, g, d)
           P == {E \in SUBSET D : Total(h, E) = Total(f, Part(E))}
<1>1. \A E \in SUBSET D : Part(E) \in SUBSET S /\ Total(f, Part(E)) \in Nat
  BY TotalNat
<1>2. \A d \in D : One(d) \in SUBSET S /\ h[d] = Total(f, One(d)) /\ h[d] \in Nat
  BY TotalNat DEF With
<1>3. {} \in P
  <2>1. Part({}) = {}
    OBVIOUS
  <2> QED BY <2>1, TotalEmpty
<1>4. ASSUME NEW E \in SUBSET D, NEW d \in D \ E, E \in P
      PROVE  E \cup {d} \in P
  <2>1. E \cup {d} \in SUBSET D /\ (E \cup {d}) \ {d} = E
    OBVIOUS
  <2>2. Total(h, E \cup {d}) = h[d] + Total(h, E)
    <3>1. IsFiniteSet(E \cup {d}) /\ \A y \in E \cup {d} : h[y] \in Nat
      BY <1>2, <2>1, FS_Subset
    <3> HIDE DEF One, P, Part
    <3> QED BY <2>1, <3>1, TotalTakeOut
  <2>3. Part(E \cup {d}) = Part(E) \cup One(d) /\ Part(E) \cap One(d) = {}
    BY DEF With
  <2>4. Total(f, Part(E \cup {d})) = Total(f, Part(E)) + Total(f, One(d))
    <3> DEFINE A == Part(E)
               B == One(d)
    <3>1. A \in SUBSET S /\ B \in SUBSET S /\ A \cap B = {}
      BY DEF With
    <3>2. Part(E \cup {d}) = A \cup B
      BY <2>3
    <3> HIDE DEF Part, One, P, A, B
    <3>3. Total(f, A \cup B) = Total(f, A) + Total(f, B)
      BY <3>1, TotalParts
    <3> QED BY <3>2, <3>3 DEF A, B
  <2>5. Total(h, E) = Total(f, Part(E))
    <3> HIDE DEF Part
    <3> QED BY <1>4
  <2> HIDE DEF Part, One
  <2>6. Total(h, E \cup {d}) = Total(f, Part(E \cup {d}))
    BY <1>1, <1>2, <2>2, <2>4, <2>5
  <2> QED BY <2>1, <2>6
<1>5. D \in P
  <2> HIDE DEF P
  <2>1. \A E \in SUBSET D : \A d \in D \ E : E \in P => E \cup {d} \in P
    BY <1>4
  <2>2. SUBSET D \subseteq P
    BY <1>3, <2>1, SubsetInduction
  <2> QED BY <2>2
<1>6. Part(D) = S
  OBVIOUS
<1> QED BY <1>5, <1>6
=============================================================================
