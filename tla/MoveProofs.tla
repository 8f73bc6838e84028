----------------------------- MODULE MoveProofs -----------------------------
(***************************************************************************)
(* What Move keeps, for every set of pages, every gateway and every two    *)
(* domains that differ.  The argument for NamesStay: a page removes a      *)
(* record only if its preview has found the new name, whoever put it       *)
(* there, and records are never changed.  The record found may be removed  *)
(* in its turn when the domains are nested, but only if what its name      *)
(* becomes was found; no name ever becomes itself again, so the last       *)
(* record of such a chain is another one than the one that goes.           *)
(***************************************************************************)
EXTENDS Move, ListTheorems

\* Neither domain lies under the other.
Apart == ~Under(Src, Dst) /\ ~Under(Dst, Src)

\* A name under the new domain does not lie under the old one.
LEMMA NotBoth ==
  ASSUME Apart, NEW n \in Domains, Under(n, Dst)
  PROVE  ~Under(n, Src)
<1> Src \in Seq(Labels) /\ Dst \in Seq(Labels) /\ n \in Seq(Labels)
  BY MoveAssumption DEF Domains
<1> Len(Src) \in Nat /\ Len(Dst) \in Nat /\ Len(n) \in Nat
  BY LenProperties
<1> SUFFICES ASSUME Under(n, Src) PROVE FALSE
  OBVIOUS
<1>1. CASE Len(Src) <= Len(Dst)
  <2>1. ASSUME NEW k \in 1 .. Len(Src)
        PROVE  Dst[Len(Dst) - Len(Src) + k] = Src[k]
    <3> DEFINE m == Len(Dst) - Len(Src) + k
    <3>1. m \in 1 .. Len(Dst) /\ Len(n) - Len(Dst) + m = Len(n) - Len(Src) + k
      BY <1>1
    <3>2. n[Len(n) - Len(Dst) + m] = Dst[m]
      BY <3>1 DEF Under
    <3>3. n[Len(n) - Len(Src) + k] = Src[k]
      BY DEF Under
    <3> QED BY <3>1, <3>2, <3>3
  <2> QED BY <1>1, <2>1 DEF Apart, Under
<1>2. CASE ~(Len(Src) <= Len(Dst))
  <2>1. ASSUME NEW k \in 1 .. Len(Dst)
        PROVE  Src[Len(Src) - Len(Dst) + k] = Dst[k]
    <3> DEFINE m == Len(Src) - Len(Dst) + k
    <3>1. m \in 1 .. Len(Src) /\ Len(n) - Len(Src) + m = Len(n) - Len(Dst) + k
      BY <1>2
    <3>2. n[Len(n) - Len(Src) + m] = Src[m]
      BY <3>1 DEF Under
    <3>3. n[Len(n) - Len(Dst) + k] = Dst[k]
      BY DEF Under
    <3> QED BY <3>1, <3>2, <3>3
  <2> QED BY <1>2, <2>1 DEF Apart, Under
<1> QED BY <1>1, <1>2

\* A name of the old domain, moved, is a name under the new one.
LEMMA MovedIsUnder ==
  ASSUME NEW n \in Domains, Under(n, Src)
  PROVE  /\ NewName(n) \in Domains /\ Under(NewName(n), Dst)
         /\ Len(NewName(n)) = Len(n) - Len(Src) + Len(Dst)
<1> Src \in Seq(Labels) /\ Dst \in Seq(Labels) /\ n \in Seq(Labels)
  BY MoveAssumption DEF Domains
<1> Len(Src) \in Nat /\ Len(Dst) \in Nat /\ Len(n) \in Nat
  BY LenProperties
<1> DEFINE l == Label(n, Src)
<1>1. l \in Seq(Labels) /\ Len(l) = Len(n) - Len(Src)
  <2>1. Len(n) - Len(Src) \in 0 .. Len(n)
    BY DEF Under
  <2>2. \A k \in 1 .. Len(n) - Len(Src) : n[k] \in Labels
    BY <2>1, ElementOfSeq
  <2> QED BY <2>1, <2>2, SubSeqProperties DEF Label
<1> HIDE DEF l
<1>2. l \o Dst \in Seq(Labels) /\ Len(l \o Dst) = Len(l) + Len(Dst) /\ Len(l) \in Nat
  BY <1>1, ConcatProperties, LenProperties
<1>3. ASSUME NEW k \in 1 .. Len(Dst)
      PROVE  (l \o Dst)[Len(l \o Dst) - Len(Dst) + k] = Dst[k]
  <2>1. Len(l \o Dst) - Len(Dst) + k = Len(l) + k /\ Len(l) + k \in 1 .. Len(l) + Len(Dst)
    BY <1>2
  <2>2. (l \o Dst)[Len(l) + k] = Dst[Len(l) + k - Len(l)]
    BY <1>1, <1>2, <2>1, ConcatProperties
  <2> QED BY <1>2, <2>1, <2>2
<1>4. Under(l \o Dst, Dst)
  BY <1>2, <1>3 DEF Under
<1>5. NewName(n) = l \o Dst
  BY DEF NewName, Moved, l
<1> QED BY <1>1, <1>2, <1>4, <1>5 DEF Domains

-----------------------------------------------------------------------------
(***************************************************************************)
(* Moving a name again and again.                                          *)
(***************************************************************************)

\* What one move makes of a name.
Further(name) == IF Under(name, Src) THEN NewName(name) ELSE name

\* f lists what name becomes by up to n moves.
Course(f, name, n) ==
  f = [k \in 0 .. n |-> IF k = 0 THEN name ELSE Further(f[k - 1])]

\* There is such a list, of any length.
LEMMA SomethingCourse ==
  ASSUME NEW name, NEW n \in Nat
  PROVE  \E f : Course(f, name, n)
<1> DEFINE T == {k \in 0 .. n : \E f : Course(f, name, k)}
<1>1. 0 \in T
  <2>1. Course([k \in 0 .. 0 |-> name], name, 0)
    BY DEF Course
  <2> QED BY <2>1
<1>2. ASSUME NEW m \in 1 .. n, m - 1 \in T PROVE m \in T
  <2>1. PICK f : Course(f, name, m - 1)
    BY <1>2
  <2> DEFINE more == [k \in 0 .. m |-> IF k < m THEN f[k] ELSE Further(f[m - 1])]
  <2>2. (\A k \in 0 .. (m - 1) : more[k] = f[k]) /\ more[m] = Further(f[m - 1])
    OBVIOUS
  <2>3. ASSUME NEW k \in 0 .. m
        PROVE  more[k] = IF k = 0 THEN name ELSE Further(more[k - 1])
    <3>1. CASE k = m
      <4>1. m - 1 \in 0 .. (m - 1) /\ m # 0
        OBVIOUS
      <4>2. more[m - 1] = f[m - 1]
        BY <2>2, <4>1
      <4> HIDE DEF more
      <4> QED BY <2>2, <3>1, <4>1, <4>2
    <3>2. CASE k < m
      <4>1. k \in 0 .. (m - 1) /\ (k # 0 => k - 1 \in 0 .. (m - 1))
        BY <3>2
      <4>2. f[k] = IF k = 0 THEN name ELSE Further(f[k - 1])
        BY <2>1, <4>1 DEF Course
      <4>3. more[k] = f[k] /\ (k # 0 => more[k - 1] = f[k - 1])
        BY <2>2, <4>1
      <4> HIDE DEF more
      <4> QED BY <4>2, <4>3
    <3> QED BY <3>1, <3>2
  <2>4. Course(more, name, m)
    BY <2>3 DEF Course
  <2> QED BY <2>4
<1>3. 0 .. n \subseteq T
  <2> HIDE DEF T
  <2> QED BY <1>1, <1>2, UpTo
<1> QED BY <1>3

\* An element of such a list.
LEMMA ListedAt ==
  ASSUME NEW name, NEW n \in Nat, NEW f, Course(f, name, n), NEW k \in 0 .. n
  PROVE  f[k] = IF k = 0 THEN name ELSE Further(f[k - 1])
BY DEF Course

\* MovedTimes is its last element.
LEMMA TimesCourse ==
  ASSUME NEW name, NEW n \in Nat
  PROVE  \E f : Course(f, name, n) /\ MovedTimes(name, n) = f[n]
<1> DEFINE f == CHOOSE g : Course(g, name, n)
<1>1. Course(f, name, n)
  BY SomethingCourse
<1>2. MovedTimes(name, n) = f[n]
  BY DEF MovedTimes, Course, Further
<1> QED BY <1>1, <1>2

\* No move leaves the name, one more move is a move of what it has become.
LEMMA TimesStep ==
  ASSUME NEW name
  PROVE  /\ MovedTimes(name, 0) = name
         /\ \A n \in Nat : MovedTimes(name, n + 1) = Further(MovedTimes(name, n))
<1>1. MovedTimes(name, 0) = name
  <2>1. PICK f : Course(f, name, 0) /\ MovedTimes(name, 0) = f[0]
    BY TimesCourse
  <2> QED BY <2>1, ListedAt
<1>2. ASSUME NEW n \in Nat PROVE MovedTimes(name, n + 1) = Further(MovedTimes(name, n))
  <2>1. PICK f : Course(f, name, n) /\ MovedTimes(name, n) = f[n]
    BY TimesCourse
  <2>2. PICK g : Course(g, name, n + 1) /\ MovedTimes(name, n + 1) = g[n + 1]
    BY TimesCourse
  <2> DEFINE T == {k \in 0 .. n : f[k] = g[k]}
  <2>0. n + 1 \in Nat /\ 0 \in 0 .. n /\ 0 \in 0 .. (n + 1)
    OBVIOUS
  <2>3. 0 \in T
    <3>1. f[0] = name /\ g[0] = name
      BY <2>0, <2>1, <2>2, ListedAt
    <3> QED BY <2>0, <3>1
  <2>4. ASSUME NEW k \in 1 .. n, k - 1 \in T PROVE k \in T
    <3>1. k \in 0 .. n /\ k \in 0 .. (n + 1) /\ k # 0
      OBVIOUS
    <3>2. f[k] = Further(f[k - 1])
      BY <2>1, <3>1, ListedAt
    <3>3. g[k] = Further(g[k - 1])
      BY <2>0, <2>2, <3>1, ListedAt
    <3> QED BY <2>4, <3>1, <3>2, <3>3
  <2>5. 0 .. n \subseteq T
    <3> HIDE DEF T
    <3> QED BY <2>3, <2>4, UpTo
  <2>6. f[n] = g[n]
    BY <2>5
  <2>7. n + 1 \in 0 .. (n + 1) /\ n + 1 # 0 /\ (n + 1) - 1 = n
    OBVIOUS
  <2>8. g[n + 1] = Further(g[n])
    <3>1. PICK m : m = n + 1
      OBVIOUS
    <3>2. m \in Nat /\ m \in 0 .. m /\ m # 0 /\ Course(g, name, m)
      BY <2>2, <3>1
    <3>3. g[m] = Further(g[m - 1])
      BY <3>2, ListedAt
    <3> QED BY <2>7, <3>1, <3>3
  <2> QED BY <2>1, <2>2, <2>6, <2>8
<1> QED BY <1>1, <1>2

\* Moving a name j times and then k times is moving it j + k times.
LEMMA TimesAdd ==
  ASSUME NEW name, NEW j \in Nat, NEW n \in Nat
  PROVE  MovedTimes(MovedTimes(name, j), n) = MovedTimes(name, j + n)
<1> DEFINE T == {k \in 0 .. n : MovedTimes(MovedTimes(name, j), k) = MovedTimes(name, j + k)}
<1>1. 0 \in T
  BY TimesStep
<1>2. ASSUME NEW k \in 1 .. n, k - 1 \in T PROVE k \in T
  <2>1. k - 1 \in Nat /\ j + (k - 1) \in Nat /\ (k - 1) + 1 = k /\ (j + (k - 1)) + 1 = j + k
    OBVIOUS
  <2>2. MovedTimes(MovedTimes(name, j), k) = Further(MovedTimes(MovedTimes(name, j), k - 1))
    BY <2>1, TimesStep
  <2>3. MovedTimes(name, j + k) = Further(MovedTimes(name, j + (k - 1)))
    BY <2>1, TimesStep
  <2> QED BY <1>2, <2>2, <2>3
<1>3. 0 .. n \subseteq T
  <2> HIDE DEF T
  <2> QED BY <1>1, <1>2, UpTo
<1> QED BY <1>3

\* later is name after some number of moves.
Reaches(name, later) == \E n \in Nat : MovedTimes(name, n) = later

LEMMA ReachesFacts ==
  /\ \A a : Reaches(a, a)
  /\ \A a, b, c : Reaches(a, b) /\ Reaches(b, c) => Reaches(a, c)
  /\ \A a, b : Under(a, Src) /\ Reaches(NewName(a), b) => Reaches(a, b)
<1>1. \A a : Reaches(a, a)
  BY TimesStep DEF Reaches
<1>2. ASSUME NEW a, NEW b, NEW c, Reaches(a, b), Reaches(b, c) PROVE Reaches(a, c)
  <2>1. PICK j \in Nat, n \in Nat : MovedTimes(a, j) = b /\ MovedTimes(b, n) = c
    BY <1>2 DEF Reaches
  <2>2. MovedTimes(a, j + n) = c /\ j + n \in Nat
    BY <2>1, TimesAdd
  <2> QED BY <2>2 DEF Reaches
<1>3. ASSUME NEW a, Under(a, Src) PROVE Reaches(a, NewName(a))
  <2>1. MovedTimes(a, 0 + 1) = NewName(a)
    BY <1>3, TimesStep DEF Further
  <2> QED BY <2>1 DEF Reaches
<1> QED BY <1>1, <1>2, <1>3

\* How far n moves of name have got: they are j moves that changed something, each
\* by the difference in length of the two domains.
Distance(name, n) ==
  \E j \in 0 .. n :
    /\ MovedTimes(name, n) = MovedTimes(name, j)
    /\ Under(name, Src) /\ n > 0 => j > 0
    /\ Len(Dst) > Len(Src) => Len(MovedTimes(name, n)) >= Len(name) + j
    /\ Len(Dst) < Len(Src) => Len(MovedTimes(name, n)) + j <= Len(name)
    /\ Len(Dst) = Len(Src) =>
         j = 0 \/ (j = 1 /\ Under(name, Src) /\ ~Under(MovedTimes(name, n), Src))

\* Two different domains of one length are apart.
LEMMA SameLength == Len(Dst) = Len(Src) => Apart
<1> SUFFICES ASSUME Len(Dst) = Len(Src), Under(Src, Dst) \/ Under(Dst, Src) PROVE FALSE
  BY DEF Apart
<1>1. Src \in Seq(Labels) /\ Dst \in Seq(Labels) /\ Src # Dst /\ Len(Src) \in Nat
  BY MoveAssumption, LenProperties DEF Domains
<1>2. \A k \in 1 .. Len(Src) : Src[k] = Dst[k]
  BY <1>1 DEF Under
<1> QED BY <1>1, <1>2, SeqEqual

LEMMA DistanceHolds ==
  ASSUME NEW name \in Domains, NEW n \in Nat
  PROVE  MovedTimes(name, n) \in Domains /\ Distance(name, n)
<1>0. Len(Src) \in Nat /\ Len(Dst) \in Nat /\ Len(name) \in Nat
  BY MoveAssumption, LenProperties DEF Domains
<1> DEFINE T == {k \in 0 .. n : MovedTimes(name, k) \in Domains /\ Distance(name, k)}
<1>1. 0 \in T
  <2>1. MovedTimes(name, 0) = name
    BY TimesStep
  <2> QED BY <1>0, <2>1 DEF Distance
<1>2. ASSUME NEW k \in 1 .. n, k - 1 \in T PROVE k \in T
  <2>1. k - 1 \in Nat /\ (k - 1) + 1 = k
    OBVIOUS
  <2>2. PICK m : m = MovedTimes(name, k - 1)
    OBVIOUS
  <2>3. m \in Domains /\ Len(m) \in Nat /\ MovedTimes(name, k) = Further(m)
    BY <1>2, <2>1, <2>2, TimesStep, LenProperties DEF Domains
  <2>4. PICK j \in 0 .. (k - 1) :
          /\ m = MovedTimes(name, j)
          /\ Under(name, Src) /\ k - 1 > 0 => j > 0
          /\ Len(Dst) > Len(Src) => Len(m) >= Len(name) + j
          /\ Len(Dst) < Len(Src) => Len(m) + j <= Len(name)
          /\ Len(Dst) = Len(Src) => j = 0 \/ (j = 1 /\ Under(name, Src) /\ ~Under(m, Src))
    BY <1>2, <2>2 DEF Distance
  <2>5. CASE ~Under(m, Src)
    <3>1. MovedTimes(name, k) = m
      BY <2>3, <2>5 DEF Further
    <3>2. Under(name, Src) => j > 0
      <4>1. k - 1 = 0 => m = name
        BY <2>2, TimesStep
      <4> QED BY <2>4, <2>5, <4>1
    <3>3. j \in 0 .. k
      OBVIOUS
    <3> QED BY <2>3, <2>4, <3>1, <3>2, <3>3 DEF Distance
  <2>6. CASE Under(m, Src)
    <3>1. /\ MovedTimes(name, k) = NewName(m) /\ NewName(m) \in Domains
          /\ Under(NewName(m), Dst) /\ Len(NewName(m)) = Len(m) - Len(Src) + Len(Dst)
      BY <2>3, <2>6, MovedIsUnder DEF Further
    <3>2. j + 1 \in 0 .. k /\ j + 1 > 0 /\ j \in Nat
      OBVIOUS
    <3>3. MovedTimes(name, j + 1) = NewName(m)
      BY <2>4, <2>6, <3>2, TimesStep DEF Further
    <3>4. Len(Dst) = Len(Src) => j = 0 /\ Under(name, Src) /\ ~Under(NewName(m), Src)
      <4>1. ASSUME Len(Dst) = Len(Src) PROVE ~Under(NewName(m), Src)
        BY <3>1, <4>1, SameLength, NotBoth
      <4>2. j = 0 => m = name
        BY <2>4, TimesStep
      <4> QED BY <2>4, <2>6, <4>1, <4>2
    <3>5. /\ Len(Dst) > Len(Src) => Len(NewName(m)) >= Len(name) + (j + 1)
          /\ Len(Dst) < Len(Src) => Len(NewName(m)) + (j + 1) <= Len(name)
      BY <1>0, <2>3, <2>4, <3>1, <3>2
    <3> QED BY <3>1, <3>2, <3>3, <3>4, <3>5 DEF Distance
  <2> QED BY <2>5, <2>6
<1>3. 0 .. n \subseteq T
  <2> HIDE DEF T
  <2> QED BY <1>1, <1>2, UpTo
<1> QED BY <1>3

\* A name that is moved never comes back.
LEMMA NeverBack ==
  ASSUME NEW name \in Domains, Under(name, Src), NEW later, Reaches(NewName(name), later)
  PROVE  later # name
<1>1. PICK n \in Nat : MovedTimes(NewName(name), n) = later
  BY DEF Reaches
<1>2. MovedTimes(name, 0 + 1) = NewName(name)
  BY TimesStep DEF Further
<1>3. MovedTimes(name, 1 + n) = later /\ 1 + n \in Nat /\ 1 + n > 0
  BY <1>1, <1>2, TimesAdd
<1>4. PICK m : m = 1 + n
  OBVIOUS
<1>5. later \in Domains /\ Distance(name, m)
  BY <1>3, <1>4, DistanceHolds
<1>6. Len(name) \in Nat /\ Len(later) \in Nat /\ Len(Src) \in Nat /\ Len(Dst) \in Nat
  BY <1>5, MoveAssumption, LenProperties DEF Domains
<1> QED BY <1>3, <1>4, <1>5, <1>6 DEF Distance

\* As many moves as Becomes looks at are enough.
LEMMA Enough ==
  ASSUME NEW name \in Domains, NEW later, Reaches(name, later)
  PROVE  Becomes(name, later)
<1>1. PICK n \in Nat : MovedTimes(name, n) = later
  BY DEF Reaches
<1>2. later \in Domains /\ Distance(name, n)
  BY <1>1, DistanceHolds
<1>3. Len(name) \in Nat /\ Len(later) \in Nat /\ Len(Src) \in Nat \ {0} /\ Len(Dst) \in Nat
  BY <1>2, MoveAssumption, LenProperties, EmptySeq DEF Domains
<1>4. PICK j \in 0 .. n :
        /\ later = MovedTimes(name, j)
        /\ Len(Dst) > Len(Src) => Len(later) >= Len(name) + j
        /\ Len(Dst) < Len(Src) => Len(later) + j <= Len(name)
        /\ Len(Dst) = Len(Src) => j = 0 \/ (j = 1 /\ Under(name, Src))
  BY <1>1, <1>2 DEF Distance
<1>5. Under(name, Src) => Len(name) >= 1
  BY <1>3 DEF Under
<1>6. j \in 0 .. (Len(name) + Len(later))
  BY <1>3, <1>4, <1>5
<1> QED BY <1>4, <1>6 DEF Becomes

\* Between domains that are apart a name moves once.
LEMMA ApartOnce ==
  ASSUME Apart, NEW name \in Domains, Under(name, Src), NEW later, Reaches(name, later)
  PROVE  later \in {name, NewName(name)}
<1>1. PICK n \in Nat : MovedTimes(name, n) = later
  BY DEF Reaches
<1> DEFINE T == {k \in 0 .. n : MovedTimes(name, k) \in {name, NewName(name)}}
<1>2. 0 \in T
  BY TimesStep
<1>3. ASSUME NEW k \in 1 .. n, k - 1 \in T PROVE k \in T
  <2>1. k - 1 \in Nat /\ (k - 1) + 1 = k
    OBVIOUS
  <2>2. MovedTimes(name, k) = Further(MovedTimes(name, k - 1))
    BY <2>1, TimesStep
  <2>3. ~Under(NewName(name), Src)
    BY MovedIsUnder, NotBoth
  <2> QED BY <1>3, <2>2, <2>3 DEF Further
<1>4. 0 .. n \subseteq T
  <2> HIDE DEF T
  <2> QED BY <1>2, <1>3, UpTo
<1> QED BY <1>1, <1>4

\* What a page adds for a record of the old domain is a record under the new one.
LEMMA PayloadIsRecord ==
  ASSUME NEW r \in Record, Under(r.name, Src)
  PROVE  Payload(r) \in Record /\ Under(Payload(r).name, Dst) /\ Payload(r).name = NewName(r.name)
<1>1. r.name \in Domains /\ r.type \in Types /\ r.value \in Values \cup Domains
      /\ (r.type = CNAME => r.value \in Domains)
  BY DEF Record
<1>2. NewName(r.name) \in Domains /\ Under(NewName(r.name), Dst)
  BY <1>1, MovedIsUnder
<1>3. Target(r) \in Values \cup Domains /\ (r.type = CNAME => Target(r) \in Domains)
  <2>1. CASE r.type = CNAME /\ Under(r.value, Src)
    BY <1>1, <2>1, MovedIsUnder DEF Target
  <2>2. CASE ~(r.type = CNAME /\ Under(r.value, Src))
    BY <1>1, <2>2 DEF Target
  <2> QED BY <2>1, <2>2
<1> QED BY <1>1, <1>2, <1>3 DEF Payload, Record

-----------------------------------------------------------------------------
(***************************************************************************)
(* The inductive invariant.                                                *)
(***************************************************************************)

\* Records are never changed, only those of the old domain go, and what is new lies
\* under the new one.
Origins ==
  \A i \in Ids :
    /\ Initial[i] # None => i \in issued /\ records[i] \in {Initial[i], None}
    /\ Initial[i] # None /\ ~Under(Initial[i].name, Src) => records[i] = Initial[i]
    /\ Initial[i] = None /\ records[i] # None => Under(records[i].name, Dst)

\* What is planned is a record of the old domain as it was seen.
Plans ==
  \A p \in Pages : \A i \in plan[p] : seen[p][i] \in Record /\ Under(seen[p][i].name, Src)

\* There is an answer of this type under name or under what it becomes.
Resolves(name, type) ==
  \E j \in Held : records[j].type = type /\ Reaches(name, records[j].name)

\* What a preview found under its new name is a record of the old domain or no more
\* there, and what was found still answers, there or further on.
FoundStays ==
  \A p \in Pages : \A i \in already[p] :
    /\ seen[p][i] \in Record /\ Under(seen[p][i].name, Src)
    /\ i \in issued /\ records[i] \in {seen[p][i], None}
    /\ Resolves(NewName(seen[p][i].name), seen[p][i].type)

\* What the old domain answered at first still answers.
InitialStays ==
  \A i \in Ids :
    Initial[i] # None /\ Under(Initial[i].name, Src) =>
      Resolves(Initial[i].name, Initial[i].type)

\* A page works on what its preview gave it.
Tasks ==
  \A p \in Pages : /\ pc[p] = "adding"   => todo[p] \subseteq plan[p]
                   /\ pc[p] = "removing" => todo[p] \subseteq already[p]

IInv == TypeOK /\ Origins /\ Plans /\ FoundStays /\ Tasks /\ InitialStays

\* The invariant holds initially.
LEMMA InitHolds == Init => IInv
<1> SUFFICES ASSUME Init PROVE IInv
  OBVIOUS
<1>1. TypeOK
  BY MoveAssumption DEF Init, TypeOK, Held
<1>2. Origins /\ Plans /\ FoundStays /\ Tasks
  BY MoveAssumption DEF Init, Origins, Plans, FoundStays, Tasks
<1>3. InitialStays
  BY ReachesFacts DEF Init, InitialStays, Resolves, Held
<1> QED BY <1>1, <1>2, <1>3 DEF IInv

\* A step that leaves the records alone leaves the parts about them alone.
LEMMA SameRecords ==
  ASSUME IInv, UNCHANGED << records, issued >>
  PROVE  /\ Origins' /\ InitialStays' /\ Held' = Held
         /\ \A name, type : Resolves(name, type)' <=> Resolves(name, type)
BY DEF IInv, Origins, InitialStays, Resolves, Held

\* A preview sorts the records of the old domain.
LEMMA PreviewStep ==
  ASSUME IInv, NEW p \in Pages, Preview(p)
  PROVE  IInv'
<1> records \in [Ids -> Record \cup {None}] /\ None \notin Record
  BY MoveAssumption DEF IInv, TypeOK
<1>1. TypeOK'
  BY DEF IInv, TypeOK, Preview, Inside, Held
<1>2. /\ Origins' /\ InitialStays' /\ UNCHANGED << records, issued >>
      /\ \A name, type : Resolves(name, type)' <=> Resolves(name, type)
  BY SameRecords DEF Preview
<1>3. ASSUME NEW i \in Inside
      PROVE  /\ records[i] \in Record /\ Under(records[i].name, Src) /\ i \in issued
  BY <1>3 DEF Inside, Held, IInv, TypeOK
<1>4. Plans'
  <2> SUFFICES ASSUME NEW q \in Pages, NEW i \in plan'[q]
               PROVE  seen'[q][i] \in Record /\ Under(seen'[q][i].name, Src)
    BY DEF Plans
  <2>1. CASE q = p
    BY <2>1, <1>3 DEF Preview, IInv, TypeOK
  <2>2. CASE q # p
    BY <2>2 DEF Preview, IInv, TypeOK, Plans
  <2> QED BY <2>1, <2>2
<1>5. FoundStays'
  <2> SUFFICES ASSUME NEW q \in Pages, NEW i \in already'[q]
               PROVE  /\ seen'[q][i] \in Record /\ Under(seen'[q][i].name, Src)
                      /\ i \in issued /\ records[i] \in {seen'[q][i], None}
                      /\ Resolves(NewName(seen'[q][i].name), seen'[q][i].type)
    BY <1>2 DEF FoundStays
  <2>1. CASE q = p
    <3>1. i \in Inside /\ NewKey(records[i]) \in Keys /\ seen'[q][i] = records[i]
      BY <2>1 DEF Preview, IInv, TypeOK
    <3>2. PICK j \in Held : Key(records[j]) = NewKey(records[i])
      BY <3>1 DEF Keys
    <3>3. records[j].type = records[i].type /\ records[j].name = NewName(records[i].name)
      BY <3>2 DEF Key, NewKey
    <3>4. Resolves(NewName(records[i].name), records[i].type)
      BY <3>3, ReachesFacts DEF Resolves
    <3> QED BY <3>1, <3>4, <1>3
  <2>2. CASE q # p
    <3>1. already'[q] = already[q] /\ seen'[q] = seen[q]
      BY <2>2 DEF Preview, IInv, TypeOK
    <3> QED BY <3>1 DEF IInv, FoundStays
  <2> QED BY <2>1, <2>2
<1>6. Tasks'
  BY DEF Preview, IInv, TypeOK, Tasks
<1> QED BY <1>1, <1>2, <1>4, <1>5, <1>6 DEF IInv

\* A page that starts, is answered or fails changes no record.
LEMMA QuietStep ==
  ASSUME IInv, NEW p \in Pages, Apply(p) \/ RemoveOriginals(p) \/ Answered(p) \/ Fail(p)
  PROVE  IInv'
<1>1. UNCHANGED << records, issued, plan, already, seen >>
  BY DEF Apply, RemoveOriginals, Answered, Fail
<1>2. /\ Origins' /\ InitialStays' /\ Held' = Held
      /\ \A name, type : Resolves(name, type)' <=> Resolves(name, type)
  BY <1>1, SameRecords
<1>3. Plans' /\ FoundStays'
  BY <1>1, <1>2 DEF IInv, Plans, FoundStays
<1>4. CASE Apply(p)
  <2>1. PICK picked \in SUBSET {Key(seen[p][i]) : i \in plan[p]} :
          todo' = [todo EXCEPT ![p] = {i \in plan[p] : Key(seen[p][i]) \in picked}]
    BY <1>4 DEF Apply
  <2>2. pc' = [pc EXCEPT ![p] = "adding"] /\ failures' = failures
    BY <1>4 DEF Apply
  <2>3. TypeOK'
    BY <1>1, <1>2, <2>1, <2>2 DEF IInv, TypeOK
  <2>4. Tasks'
    BY <1>1, <2>1, <2>2 DEF IInv, TypeOK, Tasks
  <2> QED BY <1>2, <1>3, <2>3, <2>4 DEF IInv
<1>5. CASE RemoveOriginals(p)
  <2>1. TypeOK'
    BY <1>1, <1>2, <1>5 DEF IInv, TypeOK, RemoveOriginals
  <2>2. Tasks'
    BY <1>1, <1>5 DEF IInv, TypeOK, Tasks, RemoveOriginals
  <2> QED BY <1>2, <1>3, <2>1, <2>2 DEF IInv
<1>6. CASE Answered(p) \/ Fail(p)
  <2>1. /\ pc' \in {[pc EXCEPT ![p] = s] : s \in {"stale", "shown"}}
        /\ todo' = [todo EXCEPT ![p] = {}]
    BY <1>6 DEF Answered, Fail
  <2>2. failures' \in 0 .. Failures
    BY <1>6, MoveAssumption DEF Answered, Fail, IInv, TypeOK
  <2>3. TypeOK'
    BY <1>1, <1>2, <2>1, <2>2 DEF IInv, TypeOK
  <2>4. Tasks'
    BY <1>1, <2>1 DEF IInv, TypeOK, Tasks
  <2> QED BY <1>2, <1>3, <2>3, <2>4 DEF IInv
<1> QED BY <1>4, <1>5, <1>6

\* A new record comes under an id of its own, so no answer is lost.
LEMMA AddStep ==
  ASSUME IInv, NEW p \in Pages, Add(p)
  PROVE  IInv'
<1>1. PICK i \in todo[p], j \in Ids \ issued :
        /\ records' = [records EXCEPT ![j] = Payload(seen[p][i])]
        /\ issued'  = issued \cup {j}
        /\ todo'    = [todo EXCEPT ![p] = @ \ {i}]
  BY DEF Add
<1>2. pc[p] = "adding" /\ UNCHANGED << pc, plan, already, seen, failures >>
  BY DEF Add
<1>3. seen[p][i] \in Record /\ Under(seen[p][i].name, Src)
  BY <1>1, <1>2 DEF IInv, Tasks, Plans
<1> DEFINE new == Payload(seen[p][i])
<1>4. new \in Record /\ Under(new.name, Dst)
  BY <1>3, PayloadIsRecord
<1> HIDE DEF new
<1>5. records \in [Ids -> Record \cup {None}] /\ None \notin Record /\ records[j] = None
  BY <1>1, MoveAssumption DEF IInv, TypeOK, Held
<1>6. Held' = Held \cup {j} /\ \A k \in Held : k # j /\ records'[k] = records[k]
  BY <1>1, <1>4, <1>5 DEF Held, new
<1>7. ASSUME NEW name, NEW type, Resolves(name, type) PROVE Resolves(name, type)'
  BY <1>6, <1>7 DEF Resolves
<1>8. TypeOK'
  <2>1. records' \in [Ids -> Record \cup {None}]
    BY <1>1, <1>4, <1>5 DEF new
  <2> QED BY <1>1, <1>2, <1>6, <2>1 DEF IInv, TypeOK
<1>9. Origins'
  <2> SUFFICES ASSUME NEW k \in Ids
               PROVE  /\ Initial[k] # None => k \in issued' /\ records'[k] \in {Initial[k], None}
                      /\ Initial[k] # None /\ ~Under(Initial[k].name, Src) => records'[k] = Initial[k]
                      /\ Initial[k] = None /\ records'[k] # None => Under(records'[k].name, Dst)
    BY DEF Origins
  <2>1. CASE k = j
    <3>1. Initial[k] = None
      BY <1>1, <2>1 DEF IInv, Origins
    <3>2. records'[k] = new
      BY <1>1, <1>5, <2>1 DEF new
    <3> QED BY <1>4, <3>1, <3>2
  <2>2. CASE k # j
    <3>1. records'[k] = records[k]
      BY <1>1, <1>5, <2>2
    <3> QED BY <1>1, <3>1 DEF IInv, Origins
  <2> QED BY <2>1, <2>2
<1>10. Plans' /\ Tasks'
  BY <1>1, <1>2 DEF IInv, TypeOK, Plans, Tasks
<1>11. FoundStays'
  <2> SUFFICES ASSUME NEW q \in Pages, NEW k \in already[q]
               PROVE  /\ seen[q][k] \in Record /\ Under(seen[q][k].name, Src)
                      /\ k \in issued' /\ records'[k] \in {seen[q][k], None}
                      /\ Resolves(NewName(seen[q][k].name), seen[q][k].type)'
    BY <1>2 DEF FoundStays
  <2>1. k \in issued /\ k # j /\ k \in Ids
    BY <1>1 DEF IInv, TypeOK, FoundStays
  <2>2. records'[k] = records[k] /\ k \in issued'
    BY <1>1, <1>5, <2>1
  <2>3. PICK r : r = seen[q][k]
    OBVIOUS
  <2>4. /\ r \in Record /\ Under(r.name, Src) /\ k \in issued
        /\ records[k] \in {r, None} /\ Resolves(NewName(r.name), r.type)
    BY <2>3 DEF IInv, FoundStays
  <2>5. Resolves(NewName(r.name), r.type)'
    BY <2>4, <1>7
  <2>6. seen'[q][k] = r
    BY <1>2, <2>3
  <2> QED BY <1>2, <2>2, <2>3, <2>4, <2>5, <2>6
<1>12. InitialStays'
  BY <1>7 DEF IInv, InitialStays
<1> QED BY <1>8, <1>9, <1>10, <1>11, <1>12 DEF IInv

\* A record goes whose new name has been found.  What was found answers further on,
\* and so does what was found to become the name that goes.
LEMMA DeleteStep ==
  ASSUME IInv, NEW p \in Pages, Delete(p)
  PROVE  IInv'
<1>1. PICK i \in todo[p] : /\ records[i] # None
                           /\ records' = [records EXCEPT ![i] = None]
                           /\ todo'    = [todo EXCEPT ![p] = @ \ {i}]
  BY DEF Delete
<1>2. pc[p] = "removing" /\ UNCHANGED << issued, pc, plan, already, seen, failures >>
  BY DEF Delete
<1>3. i \in already[p] /\ i \in Ids
  BY <1>1, <1>2 DEF IInv, TypeOK, Tasks
<1> DEFINE old == records[i]
<1>4. /\ old \in Record /\ Under(old.name, Src)
      /\ Resolves(NewName(old.name), old.type)
  BY <1>1, <1>3 DEF IInv, FoundStays
<1>5. records \in [Ids -> Record \cup {None}] /\ None \notin Record
  BY MoveAssumption DEF IInv, TypeOK
<1>6. Held' = Held \ {i} /\ \A k \in Held \ {i} : records'[k] = records[k]
  BY <1>1, <1>3, <1>5 DEF Held
<1>7. PICK h \in Held : records[h].type = old.type /\ Reaches(NewName(old.name), records[h].name)
  BY <1>4 DEF Resolves
<1>8. h # i
  BY <1>4, <1>7, NeverBack DEF Record
<1>9. ASSUME NEW name, NEW type, Resolves(name, type) PROVE Resolves(name, type)'
  <2>1. PICK j \in Held : records[j].type = type /\ Reaches(name, records[j].name)
    BY <1>9 DEF Resolves
  <2>2. CASE j # i
    BY <1>6, <2>1, <2>2 DEF Resolves
  <2>3. CASE j = i
    <3>1. records[h].type = type /\ Reaches(name, records[h].name)
      BY <1>4, <1>7, <2>1, <2>3, ReachesFacts
    <3>2. h \in Held' /\ records'[h] = records[h]
      BY <1>6, <1>8
    <3> QED BY <3>1, <3>2 DEF Resolves
  <2> QED BY <2>2, <2>3
<1>10. TypeOK'
  <2>1. records' \in [Ids -> Record \cup {None}]
    BY <1>1, <1>5
  <2> QED BY <1>1, <1>2, <1>6, <2>1 DEF IInv, TypeOK
<1>11. Origins'
  <2> SUFFICES ASSUME NEW k \in Ids
               PROVE  /\ Initial[k] # None => k \in issued' /\ records'[k] \in {Initial[k], None}
                      /\ Initial[k] # None /\ ~Under(Initial[k].name, Src) => records'[k] = Initial[k]
                      /\ Initial[k] = None /\ records'[k] # None => Under(records'[k].name, Dst)
    BY DEF Origins
  <2>1. CASE k = i
    <3>1. records'[k] = None
      BY <1>1, <1>5, <2>1
    <3> QED BY <1>1, <1>2, <1>4, <2>1, <3>1 DEF IInv, Origins
  <2>2. CASE k # i
    <3>1. records'[k] = records[k]
      BY <1>1, <1>5, <2>2
    <3> QED BY <1>2, <3>1 DEF IInv, Origins
  <2> QED BY <2>1, <2>2
<1>12. Plans' /\ Tasks'
  BY <1>1, <1>2 DEF IInv, TypeOK, Plans, Tasks
<1>13. FoundStays'
  <2> SUFFICES ASSUME NEW q \in Pages, NEW k \in already[q]
               PROVE  /\ seen[q][k] \in Record /\ Under(seen[q][k].name, Src)
                      /\ k \in issued /\ records'[k] \in {seen[q][k], None}
                      /\ Resolves(NewName(seen[q][k].name), seen[q][k].type)'
    BY <1>2 DEF FoundStays
  <2>1. k \in Ids
    BY DEF IInv, TypeOK
  <2>2. records'[k] \in {records[k], None}
    BY <1>1, <1>5, <2>1
  <2>3. PICK r : r = seen[q][k]
    OBVIOUS
  <2>4. /\ r \in Record /\ Under(r.name, Src) /\ k \in issued
        /\ records[k] \in {r, None} /\ Resolves(NewName(r.name), r.type)
    BY <2>3 DEF IInv, FoundStays
  <2>5. Resolves(NewName(r.name), r.type)'
    BY <2>4, <1>9
  <2>6. seen'[q][k] = r
    BY <1>2, <2>3
  <2> QED BY <1>2, <2>2, <2>3, <2>4, <2>5, <2>6
<1>14. InitialStays'
  BY <1>9 DEF IInv, InitialStays
<1> QED BY <1>10, <1>11, <1>12, <1>13, <1>14 DEF IInv

\* Every step keeps the invariant.
LEMMA StepKeeps == IInv /\ [Next]_vars => IInv'
<1> SUFFICES ASSUME IInv, [Next]_vars PROVE IInv'
  OBVIOUS
<1>1. ASSUME NEW p \in Pages, Preview(p) PROVE IInv'
  BY <1>1, PreviewStep
<1>2. ASSUME NEW p \in Pages, Apply(p) \/ RemoveOriginals(p) \/ Answered(p) \/ Fail(p) PROVE IInv'
  BY <1>2, QuietStep
<1>3. ASSUME NEW p \in Pages, Add(p) PROVE IInv'
  BY <1>3, AddStep
<1>4. ASSUME NEW p \in Pages, Delete(p) PROVE IInv'
  BY <1>4, DeleteStep
<1>5. CASE UNCHANGED vars
  BY <1>5 DEF vars, IInv, TypeOK, Origins, Plans, FoundStays, Tasks, InitialStays, Resolves, Held
<1> QED BY <1>1, <1>2, <1>3, <1>4, <1>5 DEF Next, Exhausted

-----------------------------------------------------------------------------
\* The inductive invariant holds throughout.
THEOREM Inductive == Spec => []IInv
BY InitHolds, StepKeeps, PTL DEF Spec

\* Every variable keeps its type: ids are never given out twice and what is added is
\* always a record (apply).
THEOREM TypeCorrect == Spec => []TypeOK
<1>1. IInv => TypeOK
  BY DEF IInv
<1> QED BY <1>1, Inductive, PTL

\* For any two domains that differ, nested ones included, a name of the old domain that
\* had an answer keeps one, under the name it had or one that name becomes by being
\* moved, however many pages move the domain and wherever they stop (rename_preview,
\* remove).
THEOREM NamesAlwaysStay == Spec => []NamesStay
<1>1. IInv => NamesStay
  <2> SUFFICES ASSUME IInv, NEW i \in Ids, Initial[i] # None, Under(Initial[i].name, Src)
               PROVE  Answers(Initial[i])
    BY DEF NamesStay
  <2>1. PICK j \in Held : /\ records[j].type = Initial[i].type
                          /\ Reaches(Initial[i].name, records[j].name)
    BY DEF IInv, InitialStays, Resolves
  <2>2. Initial[i].name \in Domains
    BY MoveAssumption DEF Record
  <2> QED BY <2>1, <2>2, Enough DEF Answers
<1> QED BY <1>1, Inductive, PTL

\* The name had an answer under its old or its new name.
OldOrNew ==
  \A i \in Ids :
    Initial[i] # None /\ Under(Initial[i].name, Src) =>
      Key(Initial[i]) \in Keys \/ NewKey(Initial[i]) \in Keys

\* What the move promises ("both names resolve during the transition", rename_preview)
\* it keeps for domains neither of which lies under the other; the code does not ask
\* for that, and for nested ones the promise fails.
THEOREM OneOfTwoNames ==
  ASSUME Apart
  PROVE  Spec => []OldOrNew
<1>1. IInv => OldOrNew
  <2> SUFFICES ASSUME IInv, NEW i \in Ids, Initial[i] # None, Under(Initial[i].name, Src)
               PROVE  Key(Initial[i]) \in Keys \/ NewKey(Initial[i]) \in Keys
    BY DEF OldOrNew
  <2>1. PICK j \in Held : /\ records[j].type = Initial[i].type
                          /\ Reaches(Initial[i].name, records[j].name)
    BY DEF IInv, InitialStays, Resolves
  <2>2. Initial[i].name \in Domains
    BY MoveAssumption DEF Record
  <2>3. records[j].name \in {Initial[i].name, NewName(Initial[i].name)}
    BY <2>1, <2>2, ApartOnce
  <2> QED BY <2>1, <2>3 DEF Key, NewKey, Keys
<1> QED BY <1>1, Inductive, PTL

\* A move touches nothing outside the two domains (rename_preview, apply, remove).
THEOREM OthersStay == Spec => []OthersUntouched
<1>1. IInv => OthersUntouched
  BY DEF IInv, Origins, OthersUntouched
<1> QED BY <1>1, Inductive, PTL

=============================================================================
