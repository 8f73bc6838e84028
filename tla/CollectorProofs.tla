--------------------------- MODULE CollectorProofs --------------------------
(***************************************************************************)
(* What Collector counts, for every listing, every number of polls and     *)
(* every fault.  The argument: what a poll has inserted is new to the      *)
(* table, and as long as it is not committed every other poll that comes   *)
(* to the same row waits for it.  So the polls under way have disjoint     *)
(* sets of rows, none of which is in the table, and each counts its own.   *)
(* And what it skips: nothing, for a listing that shifts while it is read  *)
(* moves what the poll has not seen yet to later pages only.               *)
(***************************************************************************)
EXTENDS Collector, FiniteSetTheorems, ListTheorems

\* What each poll counts is what it has inserted, and nobody else has that.
Own ==
  /\ DOMAIN inserted = Pollers /\ inserted = [p \in Pollers |-> inserted[p]]
  /\ DOMAIN count = Pollers /\ count = [p \in Pollers |-> count[p]]
  /\ \A p \in Pollers : /\ IsFiniteSet(inserted[p])
                        /\ count[p] = Cardinality(inserted[p])
                        /\ inserted[p] \cap rows = {}
  /\ \A p, q \in Pollers : p # q => inserted[p] \cap inserted[q] = {}

IInv == IsFiniteSet(rows) /\ CountsAddUp /\ Own

-----------------------------------------------------------------------------
LEMMA InitHolds == Init => IInv
BY FS_EmptySet DEF Init, IInv, Own, CountsAddUp

\* A poll that begins or ends has nothing inserted, and the others keep what they have.
LEMMA Fewer ==
  ASSUME IInv, NEW ps \in SUBSET Pollers, UNCHANGED << rows, reported >>,
         inserted' = [p \in Pollers |-> IF p \in ps THEN {} ELSE inserted[p]],
         count' = [p \in Pollers |-> IF p \in ps THEN 0 ELSE count[p]]
  PROVE  IInv'
BY FS_EmptySet DEF IInv, Own, CountsAddUp

LEMMA BeginStep ==
  ASSUME IInv, NEW p \in Pollers, Begin(p), UNCHANGED << rows, reported >>
  PROVE  IInv'
<1>1. inserted' = [q \in Pollers |-> IF q \in {p} THEN {} ELSE inserted[q]]
  BY DEF Begin, IInv, Own
<1>2. count' = [q \in Pollers |-> IF q \in {p} THEN 0 ELSE count[q]]
  BY DEF Begin, IInv, Own
<1> QED BY <1>1, <1>2, Fewer

LEMMA EndStep ==
  ASSUME IInv, NEW ps \in SUBSET Pollers, NEW how, End(ps, how),
         UNCHANGED << rows, reported >>
  PROVE  IInv'
BY Fewer DEF End

\* A step that leaves the rows and the counts alone.
LEMMA QuietStep ==
  ASSUME IInv, UNCHANGED << rows, reported, inserted, count >>
  PROVE  IInv'
BY DEF IInv, Own, CountsAddUp

\* A row is inserted if nobody has it, and then it is counted once.
LEMMA InsertStep ==
  ASSUME IInv, NEW p \in Pollers, Insert(p)
  PROVE  IInv'
<1> DEFINE f == Head(fetched[p])
<1>1. UNCHANGED << rows, reported >> /\ \A q \in Pollers \ {p} : f \notin inserted[q]
  BY DEF Insert, Waits
<1>2. CASE f \in rows \cup inserted[p]
  BY <1>1, <1>2, QuietStep DEF Insert
<1>3. CASE f \notin rows \cup inserted[p]
  <2>1. /\ inserted' = [inserted EXCEPT ![p] = @ \cup {f}]
        /\ count' = [count EXCEPT ![p] = @ + 1]
    BY <1>3 DEF Insert
  <2>2. /\ IsFiniteSet(inserted[p] \cup {f})
        /\ Cardinality(inserted[p] \cup {f}) = Cardinality(inserted[p]) + 1
    BY <1>3, FS_AddElement DEF IInv, Own
  <2>3. inserted'[p] = inserted[p] \cup {f} /\ count'[p] = count[p] + 1
    BY <2>1 DEF IInv, Own
  <2>4. \A q \in Pollers \ {p} : inserted'[q] = inserted[q] /\ count'[q] = count[q]
    BY <2>1 DEF IInv, Own
  <2>5. /\ DOMAIN inserted' = Pollers /\ inserted' = [q \in Pollers |-> inserted'[q]]
        /\ DOMAIN count' = Pollers /\ count' = [q \in Pollers |-> count'[q]]
    BY <2>1 DEF IInv, Own
  <2>6. \A q \in Pollers : /\ IsFiniteSet(inserted'[q])
                           /\ count'[q] = Cardinality(inserted'[q])
                           /\ inserted'[q] \cap rows = {}
    BY <1>3, <2>2, <2>3, <2>4 DEF IInv, Own
  <2>7. \A q, s \in Pollers : q # s => inserted'[q] \cap inserted'[s] = {}
    BY <1>1, <2>3, <2>4 DEF IInv, Own
  <2> QED BY <1>1, <2>5, <2>6, <2>7 DEF IInv, Own, CountsAddUp
<1> QED BY <1>2, <1>3

\* The rows of a poll join the table, and its count the total.
LEMMA CommitStep ==
  ASSUME IInv, NEW p \in Pollers, Commit(p)
  PROVE  IInv'
<1>1. /\ rows' = rows \cup inserted[p] /\ reported' = reported + count[p]
      /\ inserted' = [q \in Pollers |-> IF q \in {p} THEN {} ELSE inserted[q]]
      /\ count' = [q \in Pollers |-> IF q \in {p} THEN 0 ELSE count[q]]
  BY DEF Commit, End
<1>2. IsFiniteSet(rows) /\ IsFiniteSet(inserted[p]) /\ rows \cap inserted[p] = {}
  BY DEF IInv, Own
<1>3. /\ IsFiniteSet(rows')
      /\ Cardinality(rows') = Cardinality(rows) + Cardinality(inserted[p])
  <2>1. Cardinality(rows \cap inserted[p]) = 0
    BY <1>2, FS_EmptySet
  <2>2. Cardinality(rows) \in Nat /\ Cardinality(inserted[p]) \in Nat
    BY <1>2, FS_CardinalityType
  <2>3. /\ IsFiniteSet(rows \cup inserted[p])
        /\ Cardinality(rows \cup inserted[p]) =
             Cardinality(rows) + Cardinality(inserted[p]) - Cardinality(rows \cap inserted[p])
    BY <1>2, FS_Union
  <2> QED BY <1>1, <2>1, <2>2, <2>3
<1>4. CountsAddUp'
  BY <1>1, <1>3 DEF IInv, Own, CountsAddUp
<1>5. Own'
  BY <1>1, FS_EmptySet DEF IInv, Own
<1> QED BY <1>3, <1>4, <1>5 DEF IInv

\* Every step keeps the invariant.
LEMMA StepKeeps == IInv /\ [Next]_vars => IInv'
<1> SUFFICES ASSUME IInv, [Next]_vars PROVE IInv'
  OBVIOUS
<1>1. CASE FlowHappens \/ FlowExpires \/ Start \/ StartFails
  BY <1>1, QuietStep DEF FlowHappens, FlowExpires, Start, StartFails, pollVars
<1>2. CASE ComeUp \/ Request \/ Wake
  BY <1>2, BeginStep DEF ComeUp, Request, Wake, Pollers
<1>3. CASE GoDown
  BY <1>3, EndStep DEF GoDown
<1>4. ASSUME NEW p \in Pollers, ReadPage(p) PROVE IInv'
  <2>1. UNCHANGED << rows, reported >>
    BY <1>4 DEF ReadPage
  <2>2. End({p}, Rest) \/ UNCHANGED << inserted, count >>
    BY <1>4 DEF ReadPage
  <2> QED BY <2>1, <2>2, EndStep, QuietStep
<1>5. ASSUME NEW p \in Pollers, Fail(p) \/ BreakDeadlock(p) PROVE IInv'
  BY <1>5, EndStep DEF Fail, BreakDeadlock
<1>6. CASE UNCHANGED vars
  BY <1>6, QuietStep DEF vars
<1> QED BY <1>1, <1>2, <1>3, <1>4, <1>5, <1>6, InsertStep, CommitStep DEF Next, Step

-----------------------------------------------------------------------------
\* The inductive invariant holds throughout.
THEOREM Inductive == Spec => []IInv
BY InitHolds, StepKeeps, PTL DEF Spec

\* However polls overlap, fail or are cut off, they report together as many rows as there
\* are (collect_once, "Idempotent by construction").
THEOREM CountsAreRight == Spec => []CountsAddUp
<1>1. IInv => CountsAddUp
  BY DEF IInv
<1> QED BY <1>1, Inductive, PTL
-----------------------------------------------------------------------------
(***************************************************************************)
(* The types, and what the pages of the listing hold.                      *)
(***************************************************************************)

LEMMA Division ==
  ASSUME NEW x \in Nat, NEW d \in Nat \ {0}, NEW n \in Nat
  PROVE  /\ x \div d = n <=> n * d <= x /\ x < n * d + d
         /\ x \div d > n <=> x >= n * d + d
OBVIOUS

LEMMA Numbers ==
  ASSUME TypeOK
  PROVE  /\ first \in Nat \ {0} /\ last \in Nat
         /\ Available \subseteq Flows /\ Flows \subseteq Nat \ {0}
<1>1. Cardinality(Flows) \in Nat
  BY CollectorAssumption, FS_CardinalityType
<1>2. Flows = 1 .. Cardinality(Flows)
  BY CollectorAssumption
<1>3. Flows \subseteq Nat \ {0} /\ last \in Nat
  BY <1>1, <1>2 DEF TypeOK
<1>4. first \in 1 .. last + 1
  BY DEF TypeOK
<1>5. first \in Nat \ {0}
  BY <1>3, <1>4
<1>6. last = 0 \/ last <= Cardinality(Flows)
  BY <1>1, <1>2 DEF TypeOK
<1>7. \A f \in first .. last : f \in 1 .. Cardinality(Flows)
  BY <1>1, <1>3, <1>5, <1>6
<1> QED BY <1>2, <1>3, <1>5, <1>7 DEF Available

\* A page holds the flows at its positions, and nothing else.
LEMMA Pages ==
  ASSUME TypeOK, NEW n \in Nat
  PROVE  /\ Page(n) \in Seq(Available)
         /\ \A f \in Available :
              n * PageSize <= Position(f) /\ Position(f) < n * PageSize + PageSize
              <=> \E k \in DOMAIN Page(n) : Page(n)[k] = f
<1> DEFINE skip == n * PageSize
           low  == IF first <= last - skip - PageSize + 1
                   THEN last - skip - PageSize + 1 ELSE first
           here == {f \in Available : Position(f) \div PageSize = n}
           size == Cardinality(here)
<1>1. skip \in Nat /\ PageSize \in Nat \ {0} /\ first \in Nat \ {0} /\ last \in Nat
  BY CollectorAssumption, Numbers
<1>2. \A f \in Available : f \in here <=> skip <= last - f /\ last - f < skip + PageSize
  <2>1. \A f \in Available : last - f \in Nat
    BY <1>1 DEF Available
  <2> QED BY <1>1, <2>1, Division DEF Position
<1>3. here = low .. (last - skip)
  BY <1>1, <1>2 DEF Available
<1> HIDE DEF here
<1>4. size = IF low > last - skip THEN 0 ELSE last - skip - low + 1
  BY <1>1, <1>3, FS_Interval
<1>5. size \in Nat
  BY <1>1, <1>4
<1>6. Page(n) = [k \in 1 .. size |-> last - skip - k + 1]
  BY DEF Page, here
<1>7. Page(n) \in Seq(Available)
  <2>1. \A k \in 1 .. size : last - skip - k + 1 \in Available
    BY <1>1, <1>4, <1>5 DEF Available
  <2> QED BY <1>5, <1>6, <2>1, IsASeq
<1>8. ASSUME NEW f \in Available PROVE f \in here <=> \E k \in 1 .. size : last - skip - k + 1 = f
  <2>1. f \in Nat
    BY <1>1 DEF Available
  <2>2. ASSUME f \in here PROVE \E k \in 1 .. size : last - skip - k + 1 = f
    <3>1. f >= low /\ f <= last - skip
      BY <1>1, <1>3, <2>1, <2>2
    <3>2. last - skip - f + 1 \in 1 .. size
      BY <1>1, <1>4, <2>1, <3>1
    <3>3. last - skip - (last - skip - f + 1) + 1 = f
      BY <1>1, <2>1
    <3> QED BY <3>2, <3>3
  <2>3. ASSUME NEW k \in 1 .. size, last - skip - k + 1 = f PROVE f \in here
    BY <1>1, <1>3, <1>4, <1>5, <2>1, <2>3
  <2> QED BY <2>2, <2>3
<1>9. \A f \in Available : f \in here <=> \E k \in DOMAIN Page(n) : Page(n)[k] = f
  BY <1>6, <1>8
<1> QED BY <1>1, <1>2, <1>7, <1>9 DEF Position

LEMMA InitTyped == Init => TypeOK
BY CollectorAssumption, EmptySeq DEF Init, TypeOK, Pollers

\* A poll begins, or the polls ps are over.
LEMMA BeginTyped ==
  ASSUME TypeOK, NEW p \in Pollers, Begin(p)
  PROVE  /\ pc' = [pc EXCEPT ![p] = "paging"] /\ pc' \in [Pollers -> {"off", "asleep", "paging", "storing"}]
         /\ page' \in [Pollers -> 0 .. MaxPages - 1] /\ fetched' \in [Pollers -> Seq(Flows)]
         /\ inserted' \in [Pollers -> SUBSET Flows] /\ count' \in [Pollers -> Nat]
         /\ begun' \in [Pollers -> 0 .. last]
         /\ \A q \in Pollers : inserted'[q] # {} => pc'[q] = "storing"
<1>1. 0 \in 0 .. MaxPages - 1 /\ last \in 0 .. last
  BY CollectorAssumption, Numbers
<1> QED BY <1>1, EmptySeq DEF TypeOK, Begin

LEMMA EndTyped ==
  ASSUME TypeOK, NEW ps \in SUBSET Pollers,
         NEW how \in [Pollers -> {"off", "asleep"}], End(ps, how)
  PROVE  /\ pc' \in [Pollers -> {"off", "asleep", "paging", "storing"}]
         /\ page' \in [Pollers -> 0 .. MaxPages - 1] /\ fetched' \in [Pollers -> Seq(Flows)]
         /\ inserted' \in [Pollers -> SUBSET Flows] /\ count' \in [Pollers -> Nat]
         /\ begun' \in [Pollers -> 0 .. last]
         /\ \A q \in Pollers : inserted'[q] # {} => pc'[q] = "storing"
         /\ \A q \in Pollers : pc'[q] = IF q \in ps THEN how[q] ELSE pc[q]
<1>1. 0 \in 0 .. MaxPages - 1 /\ 0 \in 0 .. last
  BY CollectorAssumption, Numbers
<1>2. pc' \in [Pollers -> {"off", "asleep", "paging", "storing"}]
  BY DEF TypeOK, End
<1>3. page' \in [Pollers -> 0 .. MaxPages - 1]
  BY <1>1 DEF TypeOK, End
<1>4. fetched' \in [Pollers -> Seq(Flows)]
  BY EmptySeq DEF TypeOK, End
<1>5. inserted' \in [Pollers -> SUBSET Flows] /\ count' \in [Pollers -> Nat]
  BY DEF TypeOK, End
<1>6. begun' \in [Pollers -> 0 .. last]
  BY <1>1 DEF TypeOK, End
<1>7. \A q \in Pollers : inserted'[q] # {} => pc'[q] = "storing"
  BY DEF TypeOK, End
<1>8. \A q \in Pollers : pc'[q] = IF q \in ps THEN how[q] ELSE pc[q]
  BY DEF End
<1> QED BY <1>2, <1>3, <1>4, <1>5, <1>6, <1>7, <1>8


\* What a poll has read, once it has read a page.
Read(p) == fetched[p] \o Unseen(p, Page(page[p]))

LEMMA ReadHas ==
  ASSUME TypeOK, NEW p \in Pollers, page[p] \in Nat
  PROVE  /\ Read(p) \in Seq(Flows)
         /\ ToSet(Read(p)) = ToSet(fetched[p]) \cup ToSet(Page(page[p]))
<1> DEFINE batch == Page(page[p])
           old   == fetched[p]
           new   == Unseen(p, batch)
<1>1. old \in Seq(Flows)
  BY DEF TypeOK
<1>2. batch \in Seq(Flows)
  <2>1. batch \in Seq(Available) /\ Available \subseteq Flows
    BY Pages, Numbers
  <2> HIDE DEF batch
  <2> QED BY <2>1, SeqMonotonic
<1>3. new \in Seq(Flows) /\ ToSet(new) = ToSet(batch) \cap (Flows \ ToSet(old))
  BY <1>2, OnlyHas DEF Unseen
<1>4. ToSet(batch) \subseteq Flows
  <2> HIDE DEF batch
  <2> QED BY <1>2, ElementOfSeq, LenProperties DEF ToSet
<1>5. ToSet(old \o new) = ToSet(old) \cup ToSet(new)
  <2> HIDE DEF old, new
  <2> QED BY <1>1, <1>3, JoinHas
<1> HIDE DEF batch, old, new
<1>6. Read(p) = old \o new
  BY DEF Read, batch, old, new
<1>7. old \o new \in Seq(Flows)
  BY <1>1, <1>3, ConcatProperties
<1> QED BY <1>3, <1>4, <1>5, <1>6, <1>7 DEF batch, old

LEMMA ReadTyped ==
  ASSUME TypeOK, NEW p \in Pollers, ReadPage(p)
  PROVE  TypeOK'
<1> DEFINE batch == Page(page[p])
           more  == batch # << >> /\ HasNext(page[p]) /\ NextPage(p) < MaxPages
<1>1. UNCHANGED << first, last, app, rows, reported, faults, requests >>
  BY DEF ReadPage, boundVars
<1>2. page[p] \in 0 .. MaxPages - 1 /\ MaxPages \in Nat \ {0}
  BY CollectorAssumption DEF TypeOK
<1>3. Read(p) \in Seq(Flows)
  BY <1>2, ReadHas
<1>4. CASE End({p}, Rest)
  <2>1. Rest \in [Pollers -> {"off", "asleep"}]
    BY DEF Rest
  <2>2. pc[p] = "paging" /\ (pc'["collector"] # "off" <=> pc["collector"] # "off")
    BY <1>4, <2>1 DEF ReadPage, Rest, End, Pollers
  <2> QED BY <1>1, <1>4, <2>1, <2>2, EndTyped DEF TypeOK
<1>5. CASE /\ fetched' = [fetched EXCEPT ![p] = Read(p)]
           /\ page' = [page EXCEPT ![p] = IF more THEN NextPage(p) ELSE @]
           /\ pc' = [pc EXCEPT ![p] = IF more THEN "paging" ELSE "storing"]
           /\ UNCHANGED << inserted, count, begun >>
  <2> HIDE DEF more
  <2>1. fetched' \in [Pollers -> Seq(Flows)]
    BY <1>3, <1>5 DEF TypeOK
  <2>2. page' \in [Pollers -> 0 .. MaxPages - 1]
    BY <1>2, <1>5 DEF TypeOK, NextPage, more
  <2>3. pc' \in [Pollers -> {"off", "asleep", "paging", "storing"}]
    BY <1>5 DEF TypeOK
  <2>4. pc[p] = "paging" /\ \A q \in Pollers : inserted'[q] # {} => pc'[q] = "storing"
    BY <1>5 DEF TypeOK, ReadPage
  <2>5. pc'["collector"] # "off" <=> pc["collector"] # "off"
    BY <1>5, <2>4 DEF TypeOK, Pollers
  <2> QED BY <1>1, <1>5, <2>1, <2>2, <2>3, <2>4, <2>5 DEF TypeOK
<1> QED BY <1>4, <1>5 DEF ReadPage, Read

LEMMA InsertTyped ==
  ASSUME TypeOK, NEW p \in Pollers, Insert(p)
  PROVE  TypeOK'
<1> DEFINE f == Head(fetched[p])
<1>1. UNCHANGED << first, last, app, pc, page, rows, reported, faults, requests, begun >>
  BY DEF Insert, boundVars
<1>2. fetched[p] \in Seq(Flows) /\ fetched[p] # << >> /\ pc[p] = "storing"
  BY DEF TypeOK, Insert
<1>3. f \in Flows /\ Tail(fetched[p]) \in Seq(Flows)
  BY <1>2, HeadTailProperties
<1> HIDE DEF f
<1>4. fetched' \in [Pollers -> Seq(Flows)]
  BY <1>3 DEF TypeOK, Insert
<1>5. /\ inserted' \in [Pollers -> SUBSET Flows] /\ count' \in [Pollers -> Nat]
      /\ \A q \in Pollers : inserted'[q] # {} => pc[q] = "storing"
  <2>1. CASE UNCHANGED << inserted, count >>
    BY <2>1 DEF TypeOK
  <2>2. CASE /\ inserted' = [inserted EXCEPT ![p] = @ \cup {f}]
             /\ count' = [count EXCEPT ![p] = @ + 1]
    BY <1>2, <1>3, <2>2 DEF TypeOK
  <2> QED BY <2>1, <2>2 DEF Insert, f
<1> QED BY <1>1, <1>4, <1>5 DEF TypeOK

LEMMA CommitTyped ==
  ASSUME TypeOK, NEW p \in Pollers, Commit(p)
  PROVE  TypeOK'
<1>1. Rest \in [Pollers -> {"off", "asleep"}] /\ Rest["collector"] # "off"
  BY DEF Rest, Pollers
<1>2. UNCHANGED << first, last, app, faults, requests >> /\ End({p}, Rest) /\ pc[p] = "storing"
  BY DEF Commit, boundVars
<1>3. rows' \subseteq Flows /\ reported' \in Nat
  BY DEF TypeOK, Commit
<1>4. pc'["collector"] # "off" <=> pc["collector"] # "off"
  BY <1>1, <1>2 DEF TypeOK, Pollers, End
<1> QED BY <1>1, <1>2, <1>3, <1>4, EndTyped DEF TypeOK

LEMMA StepTyped == TypeOK /\ [Next]_vars => TypeOK'
<1> SUFFICES ASSUME TypeOK, [Next]_vars PROVE TypeOK'
  OBVIOUS
<1>1. first \in Nat \ {0} /\ last \in Nat /\ Flows \subseteq Nat \ {0}
  BY Numbers
<1>2. Rest \in [Pollers -> {"off", "asleep"}] /\ Rest["collector"] # "off"
  BY DEF Rest, Pollers
<1>3. CASE FlowHappens
  <2>1. begun' \in [Pollers -> 0 .. last'] /\ first' \in 1 .. last' + 1 /\ last' \in Flows
    BY <1>1, <1>3 DEF TypeOK, FlowHappens, pollVars
  <2> QED BY <1>3, <2>1 DEF TypeOK, FlowHappens, pollVars, boundVars
<1>4. CASE FlowExpires
  BY <1>1, <1>4 DEF TypeOK, FlowExpires, pollVars, boundVars
<1>5. CASE Start
  BY <1>5 DEF TypeOK, Start, pollVars, boundVars
<1>6. CASE ComeUp
  <2>1. "collector" \in Pollers
    BY DEF Pollers
  <2>2. pc'["collector"] = "paging" /\ app' = "running"
    BY <1>6, <2>1 DEF TypeOK, ComeUp, Begin
  <2> QED BY <1>6, <2>1, <2>2, BeginTyped DEF TypeOK, ComeUp, boundVars
<1>7. CASE StartFails
  BY <1>7, CollectorAssumption DEF TypeOK, StartFails, pollVars
<1>8. CASE GoDown
  <2> DEFINE how == [p \in Pollers |-> "off"]
  <2>1. how \in [Pollers -> {"off", "asleep"}] /\ "collector" \in Pollers
    BY DEF Pollers
  <2>2. End(Pollers, how) /\ app' = "down" /\ pc'["collector"] = "off"
    BY <1>8, <2>1 DEF GoDown, End
  <2>3. faults' \in 0 .. Faults
    BY <1>8, CollectorAssumption DEF TypeOK, GoDown
  <2> HIDE DEF how
  <2> QED BY <1>8, <2>1, <2>2, <2>3, EndTyped DEF TypeOK, GoDown
<1>9. CASE Request
  <2>1. "request" \in Pollers /\ "collector" \in Pollers /\ requests' \in 0 .. Requests
    BY <1>9, CollectorAssumption DEF TypeOK, Request, Pollers
  <2>2. Begin("request") /\ pc'["collector"] = pc["collector"]
    BY <1>9, <2>1 DEF TypeOK, Request, Begin
  <2> QED BY <1>9, <2>1, <2>2, BeginTyped DEF TypeOK, Request
<1>10. CASE Wake
  <2>1. "collector" \in Pollers
    BY DEF Pollers
  <2>2. Begin("collector") /\ pc["collector"] # "off" /\ pc'["collector"] # "off"
    BY <1>10, <2>1 DEF TypeOK, Wake, Begin
  <2> QED BY <1>10, <2>1, <2>2, BeginTyped DEF TypeOK, Wake, boundVars
<1>11. ASSUME NEW p \in Pollers, Fail(p) \/ BreakDeadlock(p) PROVE TypeOK'
  <2>1. End({p}, Rest) /\ pc[p] \in {"paging", "storing"}
    BY <1>11 DEF Fail, BreakDeadlock, Active, Waits
  <2>2. pc'["collector"] # "off" <=> pc["collector"] # "off"
    BY <1>2, <2>1 DEF TypeOK, Pollers, End
  <2>3. UNCHANGED << first, last, app, rows, reported, requests >> /\ faults' \in 0 .. Faults
    BY <1>11, CollectorAssumption DEF TypeOK, Fail, BreakDeadlock, boundVars
  <2> QED BY <1>2, <2>1, <2>2, <2>3, EndTyped DEF TypeOK
<1>12. CASE UNCHANGED vars
  BY <1>12 DEF TypeOK, vars, pollVars, boundVars
<1> QED BY <1>3, <1>4, <1>5, <1>6, <1>7, <1>8, <1>9, <1>10, <1>11, <1>12,
           ReadTyped, InsertTyped, CommitTyped DEF Next, Step

\* Every variable keeps its type, and a collector exists exactly while the backend runs:
\* no error ends it (run_collector), and no row stays open without it.
THEOREM TypeCorrect == Spec => []TypeOK
BY InitTyped, StepTyped, PTL DEF Spec

-----------------------------------------------------------------------------
(***************************************************************************)
(* No flow is skipped.  New flows only push the others to later positions, *)
(* so what the pages behind a poll held has been read, whatever has shifted *)
(* since.                                                                  *)
(***************************************************************************)

\* What poll p has read, inserted or found in the table.
Held(p) == ToSet(fetched[p]) \cup inserted[p] \cup rows

\* Of the flows there were when it began, p holds those that it has passed, and in the
\* end all that can be reached.
GatheredBy(p) ==
  /\ pc[p] = "paging" =>
       \A f \in Available : f <= begun[p] /\ Position(f) < page[p] * PageSize => f \in Held(p)
  /\ pc[p] = "storing" => \A f \in InReach : f <= begun[p] => f \in Held(p)

Gathered == \A p \in Pollers : GatheredBy(p)

\* The listing shifts, and p keeps what it holds.
LEMMA Shift ==
  ASSUME TypeOK, NEW p \in Pollers, GatheredBy(p), TypeOK', first <= first', last <= last',
         pc'[p] = pc[p], page'[p] = page[p], begun'[p] = begun[p], Held(p) \subseteq Held(p)'
  PROVE  GatheredBy(p)'
<1>1. first \in Nat /\ last \in Nat /\ begun[p] \in 0 .. last
  BY Numbers DEF TypeOK
<1>2. first' \in Nat /\ last' \in Nat
  <2>1. Flows \subseteq Nat
    BY Numbers
  <2> QED BY <2>1 DEF TypeOK
<1>3. page[p] * PageSize \in Nat /\ MaxPages * PageSize \in Nat
  BY CollectorAssumption DEF TypeOK
<1>4. ASSUME NEW f \in Available', f <= begun[p]
      PROVE  /\ f \in Available
             /\ \A n \in Nat : Position(f)' < n => Position(f) < n
  <2>1. f \in first' .. last'
    BY <1>4 DEF Available
  <2>2. f \in Nat /\ f >= first /\ f <= last
    BY <1>1, <1>2, <1>4, <2>1
  <2>3. f \in Available
    BY <1>1, <2>2 DEF Available
  <2>4. Position(f) = last - f /\ Position(f)' = last' - f
    BY DEF Position
  <2>5. ASSUME NEW n \in Nat, last' - f < n PROVE last - f < n
    <3>1. \A a, b, c, d \in Nat : a <= b /\ b - c < d => a - c < d
      OBVIOUS
    <3> QED BY <1>1, <1>2, <2>2, <2>5, <3>1
  <2> QED BY <2>3, <2>4, <2>5
<1> QED BY <1>3, <1>4 DEF GatheredBy, InReach

\* What has changed nothing but the listing, the backend and the rows.
LEMMA Aside ==
  ASSUME TypeOK, TypeOK', NEW p \in Pollers, GatheredBy(p), first <= first', last <= last',
         pc'[p] = pc[p], page'[p] = page[p], begun'[p] = begun[p],
         fetched'[p] = fetched[p], inserted'[p] = inserted[p], rows \subseteq rows'
  PROVE  GatheredBy(p)'
BY Shift DEF Held

\* A poll that begins has passed nothing.
LEMMA BeginGathers ==
  ASSUME TypeOK, TypeOK', Gathered, NEW p \in Pollers, Begin(p),
         UNCHANGED << first, last, rows >>
  PROVE  Gathered'
<1>1. first \in Nat /\ last \in Nat
  BY Numbers
<1>2. GatheredBy(p)'
  <2>1. pc'[p] = "paging" /\ page'[p] = 0
    BY DEF Begin, TypeOK
  <2>2. page'[p] * PageSize = 0
    BY <2>1, CollectorAssumption
  <2>3. \A f \in Available' : ~(Position(f)' < 0)
    BY <1>1 DEF Available, Position
  <2> QED BY <2>1, <2>2, <2>3 DEF GatheredBy
<1>3. ASSUME NEW q \in Pollers \ {p} PROVE GatheredBy(q)'
  <2>1. /\ pc'[q] = pc[q] /\ page'[q] = page[q] /\ begun'[q] = begun[q]
        /\ fetched'[q] = fetched[q] /\ inserted'[q] = inserted[q]
    BY <1>3 DEF Begin, TypeOK
  <2> QED BY <1>1, <2>1, Aside DEF Gathered
<1> QED BY <1>2, <1>3 DEF Gathered

\* A poll that is over need not hold anything.
LEMMA EndGathers ==
  ASSUME TypeOK, TypeOK', Gathered, NEW ps \in SUBSET Pollers,
         NEW how \in [Pollers -> {"off", "asleep"}], End(ps, how),
         UNCHANGED << first, last >>, rows \subseteq rows'
  PROVE  Gathered'
<1>1. first \in Nat /\ last \in Nat
  BY Numbers
<1>2. ASSUME NEW q \in ps PROVE GatheredBy(q)'
  BY <1>2 DEF End, GatheredBy
<1>3. ASSUME NEW q \in Pollers \ ps PROVE GatheredBy(q)'
  BY <1>1, <1>3, Aside DEF Gathered, End
<1> QED BY <1>2, <1>3 DEF Gathered

\* A poll holds the page it has read.  It stops when the listing ends, or out of reach.
LEMMA ReadGathers ==
  ASSUME TypeOK, TypeOK', Gathered, NEW p \in Pollers, ReadPage(p)
  PROVE  Gathered'
<1> DEFINE n == page[p]
           batch == Page(n)
           more  == batch # << >> /\ HasNext(n) /\ NextPage(p) < MaxPages
<1>1. UNCHANGED << first, last, rows >> /\ pc[p] = "paging"
  BY DEF ReadPage
<1>2. n \in 0 .. MaxPages - 1 /\ MaxPages \in Nat \ {0} /\ PageSize \in Nat \ {0}
  BY CollectorAssumption DEF TypeOK
<1>3. first \in Nat /\ last \in Nat
  BY Numbers
<1>4. CASE End({p}, Rest)
  <2>1. Rest \in [Pollers -> {"off", "asleep"}]
    BY DEF Rest
  <2> QED BY <1>1, <1>4, <2>1, EndGathers
<1>5. CASE /\ fetched' = [fetched EXCEPT ![p] = Read(p)]
           /\ page' = [page EXCEPT ![p] = IF more THEN NextPage(p) ELSE @]
           /\ pc' = [pc EXCEPT ![p] = IF more THEN "paging" ELSE "storing"]
           /\ UNCHANGED << inserted, count, begun >>
  <2>1. Held(p)' = Held(p) \cup ToSet(batch)
    <3>1. fetched'[p] = Read(p)
      BY <1>5 DEF TypeOK
    <3>2. ToSet(Read(p)) = ToSet(fetched[p]) \cup ToSet(batch)
      BY <1>2, ReadHas
    <3> QED BY <1>1, <1>5, <3>1, <3>2 DEF Held
  <2>2. ASSUME NEW f \in Available, f <= begun[p], Position(f) < n * PageSize + PageSize
        PROVE  f \in Held(p)'
    <3>1. CASE Position(f) < n * PageSize
      BY <1>1, <2>1, <2>2, <3>1 DEF Gathered, GatheredBy
    <3>2. CASE n * PageSize <= Position(f)
      <4>1. n \in Nat
        BY <1>2
      <4>2. \E k \in DOMAIN batch : batch[k] = f
        <5> HIDE DEF n
        <5> QED BY <2>2, <3>2, <4>1, Pages
      <4>3. f \in ToSet(batch)
        BY <4>2 DEF ToSet
      <4> HIDE DEF batch
      <4> QED BY <2>1, <4>3
    <3>3. n * PageSize \in Nat /\ Position(f) \in Int
      BY <1>2, <1>3 DEF Available, Position
    <3> QED BY <3>1, <3>2, <3>3
  <2>3. UNCHANGED << Available, begun[p] >> /\ \A f : UNCHANGED Position(f)
    BY <1>1, <1>5 DEF Available, Position
  <2>4. GatheredBy(p)'
    <3>1. CASE more
      <4>1. pc'[p] = "paging" /\ page'[p] = n + 1
        BY <1>5, <3>1 DEF TypeOK, NextPage
      <4>2. (n + 1) * PageSize = n * PageSize + PageSize
        BY <1>2
      <4> HIDE DEF more, n
      <4> QED BY <2>2, <2>3, <4>1, <4>2 DEF GatheredBy
    <3>2. CASE ~more
      <4>1. pc'[p] = "storing"
        BY <1>5, <3>2 DEF TypeOK
      <4>2. ASSUME NEW f \in Available, Position(f) < MaxPages * PageSize,
                   Position(f) >= n * PageSize + PageSize
            PROVE  FALSE
        <5>1. last - f \in Nat /\ f \in Nat /\ first <= f /\ n * PageSize \in Nat
          BY <1>2, <1>3 DEF Available
        <5>2. HasNext(n)
          <6>1. Position(f) \div PageSize > n
            BY <1>2, <4>2, <5>1, Division DEF Position
          <6> QED BY <6>1 DEF HasNext
        <5>3. NextPage(p) < MaxPages
          <6>1. n * PageSize + PageSize < MaxPages * PageSize
            BY <1>2, <4>2, <5>1 DEF Position
          <6>2. ASSUME n + 1 >= MaxPages PROVE FALSE
            <7>1. n + 1 = MaxPages
              BY <1>2, <6>2
            <7>2. (n + 1) * PageSize = n * PageSize + PageSize
              BY <1>2
            <7> QED BY <6>1, <7>1, <7>2, <5>1, <1>2
          <6> QED BY <1>2, <6>2 DEF NextPage
        <5>4. batch # << >>
          <6> DEFINE g == last - n * PageSize
          <6>1. g \in Available /\ Position(g) = n * PageSize
            BY <1>2, <1>3, <4>2, <5>1 DEF Available, Position
          <6>2. \E k \in DOMAIN batch : batch[k] = g
            <7>1. n * PageSize <= Position(g) /\ Position(g) < n * PageSize + PageSize
              BY <1>2, <5>1, <6>1
            <7>2. n \in Nat
              BY <1>2
            <7> HIDE DEF g, n
            <7> QED BY <6>1, <7>1, <7>2, Pages
          <6> QED BY <6>2
        <5> QED BY <3>2, <5>2, <5>3, <5>4
      <4>3. \A f \in Available : /\ Position(f) \in Int /\ n * PageSize + PageSize \in Int
        BY <1>2, <1>3 DEF Available, Position
      <4>4. ASSUME NEW f \in InReach', f <= begun'[p] PROVE f \in Held(p)'
        <5>1. f \in Available /\ Position(f) < MaxPages * PageSize /\ f <= begun[p]
          BY <2>3, <4>4 DEF InReach
        <5>2. Position(f) < n * PageSize + PageSize
          BY <4>2, <4>3, <5>1
        <5> QED BY <2>2, <5>1, <5>2
      <4> QED BY <4>1, <4>4 DEF GatheredBy
    <3> QED BY <3>1, <3>2
  <2>5. ASSUME NEW q \in Pollers \ {p} PROVE GatheredBy(q)'
    <3>1. /\ pc'[q] = pc[q] /\ page'[q] = page[q] /\ begun'[q] = begun[q]
          /\ fetched'[q] = fetched[q] /\ inserted'[q] = inserted[q]
      BY <1>5 DEF TypeOK
    <3> QED BY <1>1, <1>3, <3>1, Aside DEF Gathered
  <2> QED BY <2>4, <2>5 DEF Gathered
<1> QED BY <1>4, <1>5 DEF ReadPage, Read

\* A flow that leaves the list is inserted, or in the table.
LEMMA InsertGathers ==
  ASSUME TypeOK, TypeOK', Gathered, NEW p \in Pollers, Insert(p)
  PROVE  Gathered'
<1> DEFINE f == Head(fetched[p])
<1>1. UNCHANGED << first, last, rows, pc, page, begun >> /\ fetched'[p] = Tail(fetched[p])
  BY DEF Insert, TypeOK
<1>2. first \in Nat /\ last \in Nat
  BY Numbers
<1>3. ToSet(fetched[p]) = {f} \cup ToSet(Tail(fetched[p]))
  BY HeadTailHas DEF TypeOK, Insert
<1>4. f \in rows \cup inserted'[p] /\ inserted[p] \subseteq inserted'[p]
  <2>1. CASE f \in rows \cup inserted[p] /\ UNCHANGED inserted
    BY <2>1
  <2>2. CASE inserted' = [inserted EXCEPT ![p] = @ \cup {f}]
    BY <2>2 DEF TypeOK
  <2> QED BY <2>1, <2>2 DEF Insert
<1>5. Held(p) \subseteq Held(p)'
  BY <1>1, <1>3, <1>4 DEF Held
<1>6. GatheredBy(p)'
  BY <1>1, <1>2, <1>5, Shift DEF Gathered
<1>7. ASSUME NEW q \in Pollers \ {p} PROVE GatheredBy(q)'
  <2>1. fetched'[q] = fetched[q] /\ inserted'[q] = inserted[q]
    BY DEF Insert, TypeOK
  <2> QED BY <1>1, <1>2, <2>1, Aside DEF Gathered
<1> QED BY <1>6, <1>7 DEF Gathered

LEMMA StepGathers == TypeOK /\ TypeOK' /\ Gathered /\ [Next]_vars => Gathered'
<1> SUFFICES ASSUME TypeOK, TypeOK', Gathered, [Next]_vars PROVE Gathered'
  OBVIOUS
<1>1. first \in Nat /\ last \in Nat
  BY Numbers
<1>2. Rest \in [Pollers -> {"off", "asleep"}]
  BY DEF Rest
<1>3. CASE FlowHappens \/ FlowExpires \/ Start \/ StartFails \/ UNCHANGED vars
  <2>1. first <= first' /\ last <= last' /\ UNCHANGED << pollVars, rows >>
    BY <1>1, <1>3 DEF FlowHappens, FlowExpires, Start, StartFails, vars, pollVars
  <2> QED BY <2>1, Aside DEF Gathered, pollVars
<1>4. CASE ComeUp \/ Request \/ Wake
  BY <1>4, BeginGathers DEF ComeUp, Request, Wake, Pollers
<1>5. CASE GoDown
  <2>1. [p \in Pollers |-> "off"] \in [Pollers -> {"off", "asleep"}]
    OBVIOUS
  <2> QED BY <1>5, <2>1, EndGathers DEF GoDown
<1>6. ASSUME NEW p \in Pollers, Fail(p) \/ BreakDeadlock(p) \/ Commit(p) PROVE Gathered'
  <2>1. End({p}, Rest) /\ UNCHANGED << first, last >> /\ rows \subseteq rows'
    BY <1>6 DEF Fail, BreakDeadlock, Commit
  <2> QED BY <1>2, <2>1, EndGathers
<1> QED BY <1>3, <1>4, <1>5, <1>6, ReadGathers, InsertGathers DEF Next, Step

LEMMA AlwaysGathered == Spec => [](TypeOK /\ Gathered)
<1>1. Init => TypeOK /\ Gathered
  BY InitTyped DEF Init, Gathered, GatheredBy, Pollers
<1> QED BY <1>1, StepTyped, StepGathers, PTL DEF Spec

\* However the listing grows and shrinks while it is read, a poll that is committed has
\* stored every flow that was there when it began and is still within reach (fetch_flows,
\* "Every flow the gateway currently holds").
THEOREM NothingSkipped == Spec => NothingIsSkipped
<1>1. ASSUME TypeOK, Gathered, NEW p \in Pollers, Commit(p)
      PROVE  {f \in InReach : f <= begun[p]} \subseteq rows'
  <2>1. ToSet(fetched[p]) = {}
    BY <1>1 DEF Commit, ToSet
  <2>2. Held(p) = rows'
    BY <1>1, <2>1 DEF Commit, Held
  <2> QED BY <1>1, <2>2 DEF Gathered, GatheredBy, Commit
<1>2. TypeOK /\ Gathered => \A p \in Pollers : Commit(p) => {f \in InReach : f <= begun[p]} \subseteq rows'
  BY <1>1
<1> QED BY <1>2, AlwaysGathered, PTL DEF NothingIsSkipped
=============================================================================
