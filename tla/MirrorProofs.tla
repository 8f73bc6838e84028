----------------------------- MODULE MirrorProofs ---------------------------
(***************************************************************************)
(* What the mirror says, for every number of requests, records and pages.  *)
(***************************************************************************)
EXTENDS Mirror, FiniteSetTheorems, ListTheorems

-----------------------------------------------------------------------------
(***************************************************************************)
(* The listing.                                                            *)
(***************************************************************************)

LEMMA PresentFinite ==
  /\ Present \subseteq Ids /\ Present \subseteq Nat /\ IsFiniteSet(Present)
  /\ Cardinality(Present) \in Nat /\ Cardinality(Ids) \in Nat
  /\ Cardinality(Present) <= Cardinality(Ids)
<1>1. Present \subseteq Ids /\ IsFiniteSet(Ids) /\ Ids \subseteq Nat
  BY MirrorAssumption DEF Present
<1> QED BY <1>1, FS_Subset, FS_CardinalityType

\* A record comes no earlier than those with smaller ids.
LEMMA PlaceOrder ==
  ASSUME NEW i \in Present, NEW j \in Present, j <= i
  PROVE  Place(i) \in Nat /\ Place(j) \in Nat /\ Place(j) <= Place(i)
<1> DEFINE upTo(k) == {m \in Present : m <= k}
<1>1. upTo(j) \subseteq upTo(i)
  <2>1. i \in Nat /\ j \in Nat /\ \A m \in Present : m \in Nat
    BY PresentFinite
  <2>2. ASSUME NEW m \in Nat, m <= j PROVE m <= i
    BY <2>1, <2>2
  <2> QED BY <2>1, <2>2
<1>2. IsFiniteSet(upTo(i)) /\ IsFiniteSet(upTo(j))
  BY PresentFinite, FS_Subset
<1>3. Cardinality(upTo(j)) <= Cardinality(upTo(i))
  BY <1>1, <1>2, FS_Subset
<1>4. Place(i) = Cardinality(upTo(i)) /\ Place(j) = Cardinality(upTo(j))
  BY DEF Place
<1> HIDE DEF upTo
<1> QED BY <1>2, <1>3, <1>4, FS_CardinalityType

\* After the records of L, the first ones, comes the next one.
LEMMA NextPlace ==
  ASSUME NEW L \in SUBSET Present, L # Present,
         \A i \in L, j \in Present : j <= i => j \in L
  PROVE  \E i \in Present \ L : Place(i) = Cardinality(L) + 1
<1> DEFINE left == Present \ L
<1>1. PICK i \in left : \A j \in left : ~(j < i)
  <2>1. left \in SUBSET Nat /\ left # {}
    BY PresentFinite
  <2> HIDE DEF left
  <2> QED BY <2>1, LeastMember
<1>2. {j \in Present : j <= i} = L \cup {i}
  <2>1. \A j \in L : j <= i
    BY <1>1, PresentFinite
  <2>2. \A j \in Present : j <= i => j \in L \cup {i}
    BY <1>1, PresentFinite
  <2>3. i <= i
    BY <1>1, PresentFinite
  <2> QED BY <1>1, <2>1, <2>2, <2>3
<1>3. IsFiniteSet(L) /\ i \notin L
  BY <1>1, PresentFinite, FS_Subset
<1>4. Cardinality(L \cup {i}) = Cardinality(L) + 1
  BY <1>3, FS_AddElement
<1> QED BY <1>1, <1>2, <1>4 DEF Place

\* No page goes beyond the end.
LEMMA PageFits ==
  ASSUME NEW r \in Requests, offset[r] \in Nat
  PROVE  /\ Page(r) \subseteq Present /\ IsFiniteSet(Page(r)) /\ Cardinality(Page(r)) \in Nat
         /\ Page(r) = {} \/ offset[r] + Cardinality(Page(r)) <= Cardinality(Present)
         /\ Page(r) = {} => Cardinality(Page(r)) = 0
<1> DEFINE A == {i \in Present : Place(i) <= offset[r]}
           P == Page(r)
<1>1. P \subseteq Present /\ IsFiniteSet(P) /\ IsFiniteSet(A)
  <2>1. P \subseteq Present /\ A \subseteq Present
    BY DEF Page
  <2> QED BY <2>1, PresentFinite, FS_Subset
<1>2. Cardinality(P) \in Nat /\ Cardinality(A) \in Nat
  BY <1>1, FS_CardinalityType
<1>3. ASSUME P # {} PROVE offset[r] + Cardinality(P) <= Cardinality(Present)
  <2>1. A \in SUBSET Present /\ A # Present /\ A \cap P = {}
    <3>1. \A i \in Present : Place(i) \in Nat
      BY PlaceOrder, PresentFinite
    <3> QED BY <1>3, <3>1 DEF Page
  <2>2. \A i \in A, j \in Present : j <= i => j \in A
    BY PlaceOrder
  <2>3. PICK i \in Present \ A : Place(i) = Cardinality(A) + 1
    <3> HIDE DEF A
    <3> QED BY <2>1, <2>2, NextPlace
  <2>4. Cardinality(A) >= offset[r]
    BY <1>2, <2>3
  <2>5. Cardinality(A \cup P) = Cardinality(A) + Cardinality(P)
    <3>1. Cardinality(A \cap P) = 0
      BY <2>1, FS_EmptySet
    <3> HIDE DEF A, P
    <3> QED BY <1>1, <1>2, <3>1, FS_Union
  <2>6. Cardinality(A \cup P) <= Cardinality(Present)
    <3>1. A \cup P \subseteq Present
      BY <1>1, <2>1
    <3> HIDE DEF A, P
    <3> QED BY <3>1, PresentFinite, FS_Subset
  <2> HIDE DEF A, P
  <2> QED BY <1>2, <2>4, <2>5, <2>6, PresentFinite
<1> QED BY <1>1, <1>2, <1>3, FS_EmptySet

\* A page adds the next records to the first ones.
LEMMA PageExtends ==
  ASSUME NEW r \in Requests, NEW L \in SUBSET Present, offset[r] = Cardinality(L),
         \A i \in L, j \in Present : j <= i => j \in L
  PROVE  /\ offset[r] + Cardinality(Page(r)) = Cardinality(L \cup Page(r))
         /\ \A i \in L \cup Page(r), j \in Present : j <= i => j \in L \cup Page(r)
         /\ Page(r) = {} \/ ~(offset[r] + Cardinality(Page(r)) < Cardinality(Present))
              => L \cup Page(r) = Present
<1> DEFINE P == Page(r)
<1>1. IsFiniteSet(L) /\ Cardinality(L) \in Nat
  BY PresentFinite, FS_Subset, FS_CardinalityType
<1>2. P \subseteq Present /\ IsFiniteSet(P) /\ Cardinality(P) \in Nat
  BY <1>1, PageFits
<1>3. \A i \in L : Place(i) \in Nat /\ Place(i) <= offset[r]
  <2>1. ASSUME NEW i \in L PROVE Place(i) \in Nat /\ Place(i) <= offset[r]
    <3>1. {j \in Present : j <= i} \subseteq L
      BY <2>1
    <3>2. Cardinality({j \in Present : j <= i}) <= Cardinality(L)
      BY <1>1, <3>1, FS_Subset
    <3>3. IsFiniteSet({j \in Present : j <= i})
      BY PresentFinite, FS_Subset
    <3> QED BY <3>2, <3>3, FS_CardinalityType DEF Place
  <2> QED BY <2>1
<1>4. ASSUME NEW i \in Present \ L PROVE Place(i) \in Nat /\ Place(i) > offset[r]
  <2> DEFINE upTo == {j \in Present : j <= i}
  <2>1. L \cup {i} \subseteq upTo
    <3>1. i \in Nat /\ \A m \in Present : m \in Nat
      BY PresentFinite
    <3>2. ASSUME NEW m \in L PROVE m <= i
      BY <1>4, <3>1, <3>2
    <3> QED BY <3>1, <3>2
  <2>2. IsFiniteSet(upTo) /\ Cardinality(upTo) \in Nat
    BY PresentFinite, FS_Subset, FS_CardinalityType
  <2> HIDE DEF upTo
  <2>3. Cardinality(L \cup {i}) <= Cardinality(upTo) /\ Cardinality(L \cup {i}) = Cardinality(L) + 1
    BY <1>1, <2>1, <2>2, FS_Subset, FS_AddElement
  <2>4. Place(i) = Cardinality(upTo)
    BY DEF Place, upTo
  <2> QED BY <1>1, <2>2, <2>3, <2>4
<1>5. L \cap P = {}
  BY <1>1, <1>3 DEF Page
<1>6. offset[r] + Cardinality(P) = Cardinality(L \cup P)
  <2>1. Cardinality(L \cap P) = 0
    BY <1>5, FS_EmptySet
  <2> HIDE DEF P
  <2>2. Cardinality(L \cup P) = Cardinality(L) + Cardinality(P) - Cardinality(L \cap P)
    BY <1>1, <1>2, FS_Union
  <2> QED BY <1>1, <1>2, <2>1, <2>2
<1>7. ASSUME NEW i \in L \cup P, NEW j \in Present, j <= i PROVE j \in L \cup P
  <2>1. CASE i \in L \/ j \in L
    BY <1>7, <2>1
  <2>2. CASE i \in P /\ j \notin L
    <3>1. i \in Present /\ Place(i) <= offset[r] + PageLimit
      BY <2>2 DEF Page
    <3>2. Place(j) \in Nat /\ Place(i) \in Nat /\ Place(j) <= Place(i) /\ Place(j) > offset[r]
      BY <1>4, <1>7, <2>2, <3>1, PlaceOrder
    <3>3. Place(j) <= offset[r] + PageLimit
      BY <1>1, <3>1, <3>2, MirrorAssumption
    <3> QED BY <3>2, <3>3 DEF Page
  <2> QED BY <1>7, <2>1, <2>2
<1>8. ASSUME P = {} PROVE L = Present
  <2> SUFFICES ASSUME L # Present PROVE FALSE
    OBVIOUS
  <2>1. PICK i \in Present \ L : Place(i) = Cardinality(L) + 1
    BY NextPlace
  <2>2. i \in P
    BY <1>1, <2>1, MirrorAssumption DEF Page
  <2> QED BY <1>8, <2>2
<1>9. ASSUME ~(offset[r] + Cardinality(P) < Cardinality(Present)) PROVE L \cup P = Present
  <2>1. L \cup P \subseteq Present
    BY <1>2
  <2>2. Cardinality(L \cup P) <= Cardinality(Present) /\ Cardinality(L \cup P) \in Nat
    BY <2>1, PresentFinite, FS_Subset, FS_CardinalityType
  <2>3. Cardinality(L \cup P) = Cardinality(Present)
    BY <1>6, <1>9, <2>2, PresentFinite
  <2> QED BY <2>1, <2>3, PresentFinite, FS_Subset
<1> QED BY <1>6, <1>7, <1>8, <1>9

-----------------------------------------------------------------------------
(***************************************************************************)
(* The types.                                                              *)
(***************************************************************************)

GatewayTyped == store \in [Ids -> Contents \cup {None}] /\ issued \in SUBSET Ids

DatabaseTyped ==
  /\ rows \in [Ids -> Row] /\ draft \in [Ids -> Row]
  /\ held \in [Ids -> Requests \cup {None}]
  /\ \A i \in Ids : held[i] = None => draft[i] = Absent

\* A session has a row or not, and what it has not changed is what it loaded.
SessionTyped ==
  /\ base \in [Requests -> [Ids -> Row \cup {None}]]
  /\ mine \in [Requests -> [Ids -> Row \cup {None}]]
  /\ dirty \in [Requests -> SUBSET Ids]
  /\ \A r \in Requests, i \in Ids :
       /\ base[r][i] = None <=> mine[r][i] = None
       /\ i \in dirty[r] => mine[r][i] # None
       /\ i \notin dirty[r] => mine[r][i] = base[r][i]

ListingTyped ==
  /\ listed \in [Requests -> [Ids -> Contents \cup {None}]]
  /\ offset \in [Requests -> 0 .. Cardinality(Ids)]
  /\ unmerged \in [Requests -> SUBSET Ids]
  /\ \A r \in Requests : \A i \in unmerged[r] : listed[r][i] # None

Stages == {"idle", "applying", "answered", "listing", "merging", "finishing", "swept"} \cup Over

PhaseTyped ==
  /\ pc \in [Requests -> Stages]
  /\ answer \in [Requests -> Answer \cup {None}]
  /\ \A r \in Requests : todo[r] \in Seq(Writes) /\ (pc[r] = "answered" => answer[r] \in Answer)
  /\ todo = [r \in Requests |-> todo[r]]

\* Who has not begun or is over has no session and no lock.
Quiet ==
  \A r \in Requests :
    /\ pc[r] \in Over \cup {"idle"} =>
         base[r] = Fresh /\ mine[r] = Fresh /\ dirty[r] = {} /\ \A i \in Ids : held[i] # r
    /\ pc[r] = "idle" => listed[r] = Fresh /\ offset[r] = 0

Types ==
  GatewayTyped /\ DatabaseTyped /\ SessionTyped /\ ListingTyped /\ PhaseTyped /\ Quiet

LEMMA TypesSuffice == Types => TypeOK
BY DEF Types, TypeOK, GatewayTyped, DatabaseTyped, SessionTyped, ListingTyped, PhaseTyped, Stages

LEMMA Facts ==
  /\ None \notin Ids /\ None \notin Contents /\ None \notin Requests /\ None \notin Row
  /\ None \notin Answer /\ Absent \in Row /\ Fresh \in [Ids -> Row \cup {None}]
  /\ Fresh \in [Ids -> Contents \cup {None}]
BY MirrorAssumption DEF Absent, Fresh, Row

LEMMA InitTyped == Init => Types
<1> SUFFICES ASSUME Init PROVE Types
  OBVIOUS
<1>1. GatewayTyped /\ DatabaseTyped
  BY Facts, MirrorAssumption DEF Init, GatewayTyped, DatabaseTyped
<1>2. SessionTyped
  BY Facts DEF Init, SessionTyped
<1>3. ListingTyped
  <2>1. 0 \in 0 .. Cardinality(Ids)
    BY PresentFinite
  <2> QED BY <2>1, Facts DEF Init, ListingTyped
<1>4. PhaseTyped
  BY EmptySeq DEF Init, PhaseTyped, Stages
<1>5. Quiet
  BY Facts DEF Init, Quiet
<1> QED BY <1>1, <1>2, <1>3, <1>4, <1>5 DEF Types

LEMMA RowsSeen ==
  ASSUME Types, NEW r \in Requests, NEW i \in Ids
  PROVE  /\ Visible(r, i) \in Row /\ Loaded(r, i) \in Row
         /\ i \in dirty[r] => Written(r, i) \in Row
<1>1. Visible(r, i) \in Row
  BY DEF Types, DatabaseTyped, Visible
<1>2. mine[r][i] \in Row \cup {None} /\ base[r][i] \in Row \cup {None}
  BY DEF Types, SessionTyped
<1>3. Loaded(r, i) \in Row
  BY <1>1, <1>2 DEF Loaded
<1>4. i \in dirty[r] => mine[r][i] \in Row
  BY <1>2 DEF Types, SessionTyped
<1>5. mine[r][i] \in Row => Written(r, i) \in Row
  BY <1>1 DEF Written, Row
<1> QED BY <1>1, <1>3, <1>4, <1>5

\* Row i of r's session is changed, and no other.
LEMMA StageTyped ==
  ASSUME Types, NEW r \in Requests, NEW i \in Ids, NEW row \in Row, Stage(r, i, row)
  PROVE  /\ SessionTyped' /\ \A s \in Requests \ {r} : base'[s] = base[s] /\ mine'[s] = mine[s] /\ dirty'[s] = dirty[s]
         /\ \A j \in Ids : /\ base'[r][j] = IF j = i THEN IF mine[r][i] # None THEN base[r][i] ELSE Visible(r, i)
                                            ELSE base[r][j]
                           /\ mine'[r][j] = IF j = i THEN row ELSE mine[r][j]
         /\ dirty'[r] = dirty[r] \cup {i}
<1>1. /\ base \in [Requests -> [Ids -> Row \cup {None}]]
      /\ mine \in [Requests -> [Ids -> Row \cup {None}]]
      /\ dirty \in [Requests -> SUBSET Ids]
  BY DEF Types, SessionTyped
<1>2. Visible(r, i) \in Row /\ None \notin Row
  BY RowsSeen, Facts
<1>3. /\ base' \in [Requests -> [Ids -> Row \cup {None}]]
      /\ mine' \in [Requests -> [Ids -> Row \cup {None}]]
      /\ dirty' \in [Requests -> SUBSET Ids]
  BY <1>1, <1>2 DEF Stage
<1>4. \A s \in Requests \ {r} : base'[s] = base[s] /\ mine'[s] = mine[s] /\ dirty'[s] = dirty[s]
  BY <1>1 DEF Stage
<1>5. \A j \in Ids : /\ base'[r][j] = IF j = i THEN IF mine[r][i] # None THEN base[r][i] ELSE Visible(r, i)
                                     ELSE base[r][j]
                    /\ mine'[r][j] = IF j = i THEN row ELSE mine[r][j]
  BY <1>1 DEF Stage
<1>6. dirty'[r] = dirty[r] \cup {i}
  BY <1>1 DEF Stage
<1>7. ASSUME NEW s \in Requests, NEW j \in Ids
      PROVE  /\ base'[s][j] = None <=> mine'[s][j] = None
             /\ j \in dirty'[s] => mine'[s][j] # None
             /\ j \notin dirty'[s] => mine'[s][j] = base'[s][j]
  <2>1. /\ base[s][j] = None <=> mine[s][j] = None
        /\ j \in dirty[s] => mine[s][j] # None
        /\ j \notin dirty[s] => mine[s][j] = base[s][j]
    BY DEF Types, SessionTyped
  <2>2. CASE s # r
    BY <1>4, <2>1, <2>2
  <2>3. CASE s = r /\ j # i
    BY <1>5, <1>6, <2>1, <2>3
  <2>4. CASE s = r /\ j = i
    BY <1>2, <1>5, <1>6, <2>1, <2>4
  <2> QED BY <2>2, <2>3, <2>4
<1> QED BY <1>3, <1>4, <1>5, <1>6, <1>7 DEF SessionTyped

\* One row is flushed.
LEMMA FlushTyped ==
  ASSUME Types, NEW r \in Requests, MustFlush(r), NEW i \in dirty[r], held[i] \in {None, r},
         draft' = [draft EXCEPT ![i] = Written(r, i)], held' = [held EXCEPT ![i] = r],
         base' = [base EXCEPT ![r][i] = mine[r][i]], dirty' = [dirty EXCEPT ![r] = @ \ {i}],
         UNCHANGED << gatewayVars, rows, pc, todo, answer, listingVars, mine, met, tracking >>
  PROVE  Types'
<1>1. i \in Ids /\ mine[r][i] \in Row /\ Written(r, i) \in Row
  BY RowsSeen DEF Types, SessionTyped
<1>2. DatabaseTyped'
  BY <1>1, Facts DEF Types, DatabaseTyped
<1>3. SessionTyped'
  <2>1. base' \in [Requests -> [Ids -> Row \cup {None}]] /\ dirty' \in [Requests -> SUBSET Ids]
    BY <1>1 DEF Types, SessionTyped
  <2>2. ASSUME NEW s \in Requests, NEW j \in Ids
        PROVE  /\ base'[s][j] = None <=> mine[s][j] = None
               /\ j \in dirty'[s] => mine[s][j] # None
               /\ j \notin dirty'[s] => mine[s][j] = base'[s][j]
    <3>1. /\ base[s][j] = None <=> mine[s][j] = None
          /\ j \in dirty[s] => mine[s][j] # None
          /\ j \notin dirty[s] => mine[s][j] = base[s][j]
      BY DEF Types, SessionTyped
    <3>2. CASE s = r /\ j = i
      BY <1>1, <3>1, <3>2 DEF Types, SessionTyped
    <3>3. CASE ~(s = r /\ j = i)
      <4>1. base'[s][j] = base[s][j]
        BY <3>3 DEF Types, SessionTyped
      <4>2. j \in dirty'[s] <=> j \in dirty[s]
        BY <3>3 DEF Types, SessionTyped
      <4> QED BY <3>1, <4>1, <4>2
    <3> QED BY <3>2, <3>3
  <2> QED BY <2>1, <2>2 DEF Types, SessionTyped
<1>4. Quiet'
  <2>1. pc[r] \notin Over \cup {"idle"}
    BY DEF MustFlush, Over
  <2>2. ASSUME NEW s \in Requests, pc[s] \in Over \cup {"idle"}
        PROVE  base'[s] = Fresh /\ mine[s] = Fresh /\ dirty'[s] = {} /\ \A j \in Ids : held'[j] # s
    BY <2>1, <2>2 DEF Types, Quiet, SessionTyped, DatabaseTyped
  <2> QED BY <2>2 DEF Types, Quiet, listingVars
<1> QED BY <1>2, <1>3, <1>4 DEF Types, gatewayVars, listingVars, GatewayTyped, ListingTyped, PhaseTyped

\* A session ends, and its locks are gone.
LEMMA OverTyped ==
  ASSUME Types, NEW r \in Requests, NEW how \in Over, pc' = [pc EXCEPT ![r] = how],
         rows' \in [Ids -> Row],
         held'  = [i \in Ids |-> IF held[i] = r THEN None ELSE held[i]],
         draft' = [i \in Ids |-> IF held[i] = r THEN Absent ELSE draft[i]],
         base' = [base EXCEPT ![r] = Fresh], mine' = [mine EXCEPT ![r] = Fresh],
         dirty' = [dirty EXCEPT ![r] = {}],
         UNCHANGED << gatewayVars, todo, answer, listingVars >>
  PROVE  Types'
<1>1. DatabaseTyped'
  BY Facts DEF Types, DatabaseTyped
<1>2. SessionTyped'
  <2>1. /\ base' \in [Requests -> [Ids -> Row \cup {None}]] /\ mine' \in [Requests -> [Ids -> Row \cup {None}]]
        /\ dirty' \in [Requests -> SUBSET Ids]
    BY Facts DEF Types, SessionTyped
  <2>2. \A s \in Requests \ {r} : base'[s] = base[s] /\ mine'[s] = mine[s] /\ dirty'[s] = dirty[s]
    BY DEF Types, SessionTyped
  <2>3. base'[r] = Fresh /\ mine'[r] = Fresh /\ dirty'[r] = {}
    BY DEF Types, SessionTyped
  <2> QED BY <2>1, <2>2, <2>3 DEF Types, SessionTyped
<1>3. PhaseTyped'
  BY DEF Types, PhaseTyped, Stages, Over
<1>4. Quiet'
  <2>1. \A s \in Requests \ {r} : /\ base'[s] = base[s] /\ mine'[s] = mine[s] /\ dirty'[s] = dirty[s]
                                 /\ pc'[s] = pc[s]
    BY DEF Types, SessionTyped, PhaseTyped
  <2>2. \A i \in Ids : held'[i] # r /\ \A s \in Requests : held[i] # s => held'[i] # s
    BY Facts
  <2>3. base'[r] = Fresh /\ mine'[r] = Fresh /\ dirty'[r] = {} /\ pc'[r] # "idle"
    BY DEF Types, SessionTyped, PhaseTyped, Over
  <2> QED BY <2>1, <2>2, <2>3 DEF Types, Quiet, listingVars
<1> QED BY <1>1, <1>2, <1>3, <1>4 DEF Types, gatewayVars, listingVars, GatewayTyped, ListingTyped

LEMMA AbortTyped == ASSUME Types, NEW r \in Requests, Abort(r) PROVE Types'
<1>1. "aborted" \in Over /\ rows' \in [Ids -> Row]
  BY DEF Over, Types, DatabaseTyped, Abort
<1> QED BY <1>1, OverTyped DEF Abort

LEMMA CommitTyped == ASSUME Types, NEW r \in Requests, Commit(r) PROVE Types'
<1>1. "done" \in Over /\ rows' \in [Ids -> Row]
  BY DEF Over, Types, DatabaseTyped, Commit
<1>2. dirty' = [dirty EXCEPT ![r] = {}]
  BY DEF Commit, Types, SessionTyped
<1> QED BY <1>1, <1>2, OverTyped DEF Commit

\* What r does in its session and with its stage.
LEMMA SessionStep ==
  ASSUME Types, NEW r \in Requests,
         GatewayTyped', PhaseTyped', SessionTyped', ListingTyped',
         UNCHANGED databaseVars,
         \A s \in Requests \ {r} : /\ pc'[s] = pc[s] /\ base'[s] = base[s] /\ mine'[s] = mine[s]
                                  /\ dirty'[s] = dirty[s] /\ listed'[s] = listed[s] /\ offset'[s] = offset[s],
         pc'[r] \notin Over \cup {"idle"}
  PROVE  Types'
BY DEF Types, DatabaseTyped, databaseVars, Quiet

LEMMA TouchTyped == ASSUME Types, NEW r \in Requests, Touch(r) PROVE Types'
<1> DEFINE i == answer[r].id
           c == answer[r].content
<1>1. i \in Ids /\ c \in Contents \cup {None}
  BY DEF Touch, Types, PhaseTyped, Answer
<1>2. /\ pc[r] = "answered" /\ pc' = [pc EXCEPT ![r] = "applying"]
      /\ answer' = [answer EXCEPT ![r] = None]
      /\ UNCHANGED << gatewayVars, databaseVars, todo, listingVars >>
  BY DEF Touch
<1>3. SessionTyped' /\ \A s \in Requests \ {r} : base'[s] = base[s] /\ mine'[s] = mine[s] /\ dirty'[s] = dirty[s]
  <2>1. CASE UNCHANGED sessionVars
    BY <2>1 DEF Types, SessionTyped, sessionVars
  <2>2. ASSUME NEW row \in Row, Stage(r, i, row)
        PROVE  SessionTyped' /\ \A s \in Requests \ {r} : base'[s] = base[s] /\ mine'[s] = mine[s] /\ dirty'[s] = dirty[s]
    <3> HIDE DEF i
    <3> QED BY <1>1, <2>2, StageTyped
  <2>3. [payload |-> c, state |-> "live"] \in Row
    BY <1>1 DEF Row
  <2>4. [Loaded(r, i) EXCEPT !.state = "deleted"] \in Row
    <3>1. Loaded(r, i) \in Row
      BY <1>1, RowsSeen
    <3> QED BY <3>1 DEF Row
  <2> HIDE DEF i, c
  <2>5. UNCHANGED sessionVars \/ \E row \in Row : Stage(r, i, row)
    BY <2>3, <2>4 DEF Touch, Upsert, SoftDelete, i, c
  <2> QED BY <2>1, <2>2, <2>5
<1>4. PhaseTyped'
  BY <1>2, Facts DEF Types, PhaseTyped, Stages
<1>5. \A s \in Requests \ {r} : pc'[s] = pc[s]
  BY <1>2 DEF Types, PhaseTyped
<1>6. pc'[r] = "applying"
  BY <1>2 DEF Types, PhaseTyped
<1> QED BY <1>2, <1>3, <1>4, <1>5, <1>6, SessionStep
        DEF Types, GatewayTyped, ListingTyped, gatewayVars, listingVars, Over

LEMMA MergeTyped == ASSUME Types, NEW r \in Requests, Merge(r) PROVE Types'
<1>1. PICK i \in unmerged[r] : Upsert(r, i, listed[r][i]) /\ unmerged' = [unmerged EXCEPT ![r] = @ \ {i}]
  BY DEF Merge
<1>2. /\ pc[r] = "merging"
      /\ UNCHANGED << gatewayVars, databaseVars, pc, todo, answer, listed, offset >>
  BY DEF Merge
<1>3. i \in Ids /\ [payload |-> listed[r][i], state |-> "live"] \in Row
  BY DEF Types, ListingTyped, Row
<1>4. SessionTyped' /\ \A s \in Requests \ {r} : base'[s] = base[s] /\ mine'[s] = mine[s] /\ dirty'[s] = dirty[s]
  BY <1>1, <1>3, StageTyped DEF Upsert
<1>5. ListingTyped'
  BY <1>1, <1>2 DEF Types, ListingTyped
<1> QED BY <1>2, <1>4, <1>5, SessionStep DEF Types, GatewayTyped, PhaseTyped, gatewayVars, Over

LEMMA SweepTyped == ASSUME Types, NEW r \in Requests, Sweep(r) PROVE Types'
<1> DEFINE gone == {i \in Ids : Visible(r, i).state = "live" /\ listed[r][i] = None}
<1>1. /\ base' = [base EXCEPT ![r] = [i \in Ids |-> IF i \in gone THEN Visible(r, i) ELSE @[i]]]
      /\ mine' = [mine EXCEPT ![r] = [i \in Ids |-> IF i \in gone THEN [Visible(r, i) EXCEPT !.state = "deleted"]
                                                    ELSE @[i]]]
      /\ dirty' = [dirty EXCEPT ![r] = gone] /\ dirty[r] = {}
      /\ pc[r] = "merging" /\ pc' = [pc EXCEPT ![r] = "swept"]
      /\ UNCHANGED << gatewayVars, databaseVars, todo, answer, listingVars >>
  BY DEF Sweep
<1>2. \A i \in Ids : Visible(r, i) \in Row /\ [Visible(r, i) EXCEPT !.state = "deleted"] \in Row
  <2>1. ASSUME NEW row \in Row PROVE [row EXCEPT !.state = "deleted"] \in Row
    BY DEF Row
  <2> QED BY <2>1, RowsSeen
<1>3. \A s \in Requests \ {r} : base'[s] = base[s] /\ mine'[s] = mine[s] /\ dirty'[s] = dirty[s] /\ pc'[s] = pc[s]
  BY <1>1 DEF Types, SessionTyped, PhaseTyped
<1>4. \A i \in Ids : /\ base'[r][i] = IF i \in gone THEN Visible(r, i) ELSE base[r][i]
                    /\ mine'[r][i] = IF i \in gone THEN [Visible(r, i) EXCEPT !.state = "deleted"] ELSE mine[r][i]
  BY <1>1 DEF Types, SessionTyped
<1>5. dirty'[r] = gone /\ gone \subseteq Ids
  BY <1>1 DEF Types, SessionTyped
<1> HIDE DEF gone
<1>6. SessionTyped'
  <2>1. /\ base' \in [Requests -> [Ids -> Row \cup {None}]] /\ mine' \in [Requests -> [Ids -> Row \cup {None}]]
        /\ dirty' \in [Requests -> SUBSET Ids]
    <3>0. \A i \in Ids : base[r][i] \in Row \cup {None} /\ mine[r][i] \in Row \cup {None}
      BY DEF Types, SessionTyped
    <3>1. [i \in Ids |-> IF i \in gone THEN Visible(r, i) ELSE base[r][i]] \in [Ids -> Row \cup {None}]
      BY <1>2, <3>0
    <3>2. [i \in Ids |-> IF i \in gone THEN [Visible(r, i) EXCEPT !.state = "deleted"] ELSE mine[r][i]]
            \in [Ids -> Row \cup {None}]
      BY <1>2, <3>0
    <3> QED BY <1>1, <1>5, <3>1, <3>2 DEF Types, SessionTyped
  <2>2. ASSUME NEW i \in Ids
        PROVE  /\ base'[r][i] = None <=> mine'[r][i] = None
               /\ i \in dirty'[r] => mine'[r][i] # None
               /\ i \notin dirty'[r] => mine'[r][i] = base'[r][i]
    BY <1>1, <1>2, <1>4, <1>5, Facts DEF Types, SessionTyped
  <2> QED BY <1>3, <2>1, <2>2 DEF Types, SessionTyped
<1>7. PhaseTyped' /\ pc'[r] = "swept"
  BY <1>1 DEF Types, PhaseTyped, Stages
<1> QED BY <1>1, <1>3, <1>6, <1>7, SessionStep
        DEF Types, GatewayTyped, ListingTyped, gatewayVars, listingVars, Over

LEMMA ListPageTyped == ASSUME Types, NEW r \in Requests, ListPage(r) PROVE Types'
<1> DEFINE n == offset[r] + Cardinality(Page(r))
           more == Page(r) # {} /\ n < Cardinality(Present)
<1>1. /\ pc[r] = "listing" /\ offset' = [offset EXCEPT ![r] = n]
      /\ listed' = [listed EXCEPT ![r] = [i \in Ids |-> IF i \in Page(r) THEN store[i] ELSE @[i]]]
      /\ IF more THEN UNCHANGED << pc, unmerged >>
         ELSE /\ pc' = [pc EXCEPT ![r] = "merging"]
              /\ unmerged' = [unmerged EXCEPT ![r] = {i \in Ids : listed'[r][i] # None}]
      /\ UNCHANGED << gatewayVars, databaseVars, todo, answer, sessionVars >>
  BY DEF ListPage, Listed
<1>2. offset[r] \in 0 .. Cardinality(Ids) /\ Cardinality(Ids) \in Nat
  BY PresentFinite DEF Types, ListingTyped
<1>3. n \in 0 .. Cardinality(Ids)
  BY <1>2, PageFits, PresentFinite
<1>4. Page(r) \subseteq Present
  BY DEF Page
<1> HIDE DEF n, more
<1>5. /\ \A i \in Ids : listed'[r][i] = IF i \in Page(r) THEN store[i] ELSE listed[r][i]
      /\ \A s \in Requests \ {r} : listed'[s] = listed[s] /\ offset'[s] = offset[s] /\ pc'[s] = pc[s] /\ unmerged'[s] = unmerged[s]
      /\ pc'[r] \in {"listing", "merging"}
  BY <1>1 DEF Types, ListingTyped, PhaseTyped
<1>6. ListingTyped'
  <2>1. listed' \in [Requests -> [Ids -> Contents \cup {None}]] /\ offset' \in [Requests -> 0 .. Cardinality(Ids)]
    BY <1>1, <1>3 DEF Types, ListingTyped, GatewayTyped
  <2>2. unmerged' \in [Requests -> SUBSET Ids]
    BY <1>1 DEF Types, ListingTyped
  <2>3. \A i \in Ids : listed[r][i] # None => listed'[r][i] # None
    BY <1>4, <1>5 DEF Present
  <2>4. \A i \in unmerged'[r] : listed'[r][i] # None
    <3>1. CASE unmerged' = unmerged
      BY <2>3, <3>1 DEF Types, ListingTyped
    <3>2. CASE unmerged' = [unmerged EXCEPT ![r] = {i \in Ids : listed'[r][i] # None}]
      BY <3>2 DEF Types, ListingTyped
    <3> QED BY <1>1, <3>1, <3>2
  <2> QED BY <1>5, <2>1, <2>2, <2>4 DEF Types, ListingTyped
<1>7. PhaseTyped'
  BY <1>1 DEF Types, PhaseTyped, Stages
<1> QED BY <1>1, <1>5, <1>6, <1>7, SessionStep
        DEF Types, GatewayTyped, SessionTyped, gatewayVars, sessionVars, Over

\* A request takes up something else, without touching its session or its listing.
LEMMA StageStep ==
  ASSUME Types, NEW r \in Requests, NEW how \in Stages \ (Over \cup {"idle"}),
         pc' = [pc EXCEPT ![r] = how], GatewayTyped', PhaseTyped',
         UNCHANGED << databaseVars, listingVars, sessionVars >>
  PROVE  Types'
<1>1. SessionTyped' /\ ListingTyped'
  BY DEF Types, SessionTyped, ListingTyped, listingVars, sessionVars
<1>2. pc'[r] = how /\ \A s \in Requests \ {r} : pc'[s] = pc[s]
  BY DEF Types, PhaseTyped
<1>3. \A s \in Requests \ {r} : /\ base'[s] = base[s] /\ mine'[s] = mine[s] /\ dirty'[s] = dirty[s]
                               /\ listed'[s] = listed[s] /\ offset'[s] = offset[s]
  BY DEF listingVars, sessionVars
<1> QED BY <1>1, <1>2, <1>3, SessionStep

LEMMA SubmitTyped == ASSUME Types, NEW r \in Requests, Submit(r) PROVE Types'
<1>1. PICK b \in Bodies : todo' = [todo EXCEPT ![r] = b]
  BY DEF Submit
<1>2. /\ pc' = [pc EXCEPT ![r] = "applying"]
      /\ UNCHANGED << gatewayVars, databaseVars, answer, listingVars, sessionVars >>
  BY DEF Submit, Begin
<1>3. b \in Seq(Writes)
  BY MirrorAssumption
<1>4. PhaseTyped'
  BY <1>1, <1>2, <1>3 DEF Types, PhaseTyped, Stages
<1>5. GatewayTyped'
  BY <1>2 DEF Types, GatewayTyped, gatewayVars
<1> QED BY <1>2, <1>4, <1>5, StageStep DEF Stages, Over

LEMMA SubmitAdoptTyped == ASSUME Types, NEW r \in Requests, SubmitAdopt(r) PROVE Types'
<1>1. /\ pc' = [pc EXCEPT ![r] = "listing"]
      /\ UNCHANGED << store, issued, databaseVars, todo, answer, listingVars, sessionVars >>
  BY DEF SubmitAdopt, Begin
<1>2. PhaseTyped'
  BY <1>1 DEF Types, PhaseTyped, Stages
<1>3. GatewayTyped'
  BY <1>1 DEF Types, GatewayTyped, gatewayVars
<1> QED BY <1>1, <1>2, <1>3, StageStep DEF Stages, Over

LEMMA EndLoopTyped == ASSUME Types, NEW r \in Requests, EndLoop(r) PROVE Types'
<1>1. /\ pc' = [pc EXCEPT ![r] = "finishing"]
      /\ UNCHANGED << gatewayVars, databaseVars, todo, answer, listingVars, sessionVars >>
  BY DEF EndLoop
<1>2. PhaseTyped'
  BY <1>1 DEF Types, PhaseTyped, Stages
<1>3. GatewayTyped'
  BY <1>1 DEF Types, GatewayTyped, gatewayVars
<1> QED BY <1>1, <1>2, <1>3, StageStep DEF Stages, Over

\* What a write does to the gateway.
Executed(r, i, content) ==
  /\ store' = [store EXCEPT ![i] = content] /\ issued' = issued \cup {i}
  /\ answer' = [answer EXCEPT ![r] = [id |-> i, content |-> content]]
  /\ todo' = [todo EXCEPT ![r] = Tail(@)]
  /\ pc' = [pc EXCEPT ![r] = "answered"]
  /\ UNCHANGED << edited, edits, databaseVars, listingVars, sessionVars, met, tracking >>

LEMMA WriteExecutes ==
  ASSUME Types, NEW r \in Requests, Write(r)
  PROVE  /\ pc[r] = "applying" /\ todo[r] # << >> /\ todo[r] \in Seq(Writes)
         /\ \E i \in Ids, c \in Contents \cup {None} : Executed(r, i, c)
<1>1. pc[r] = "applying" /\ todo[r] # << >> /\ todo[r] \in Seq(Writes)
  BY DEF Write, Types, PhaseTyped
<1>2. Head(todo[r]) \in Writes
  BY <1>1, HeadTailHas
<1>3. Head(todo[r]).content \in Contents \cup {None}
  BY <1>2 DEF Writes
<1>4. \E i \in Ids : Executed(r, i, Head(todo[r]).content)
  BY DEF Write, Executed
<1> QED BY <1>1, <1>3, <1>4

LEMMA WriteTyped == ASSUME Types, NEW r \in Requests, Write(r) PROVE Types'
<1>1. PICK i \in Ids, c \in Contents \cup {None} : Executed(r, i, c)
  BY WriteExecutes
<1>2. Tail(todo[r]) \in Seq(Writes)
  BY WriteExecutes, HeadTailHas
<1>3. GatewayTyped'
  BY <1>1 DEF Types, GatewayTyped, Executed
<1>4. PhaseTyped'
  <2>1. [id |-> i, content |-> c] \in Answer
    BY DEF Answer
  <2> QED BY <1>1, <1>2, <2>1 DEF Types, PhaseTyped, Stages, Executed
<1> QED BY <1>1, <1>3, <1>4, StageStep DEF Stages, Over, Executed

LEMMA ConsoleEditTyped == ASSUME Types, ConsoleEdit PROVE Types'
<1>1. GatewayTyped'
  BY DEF ConsoleEdit, Types, GatewayTyped
<1> QED BY <1>1 DEF ConsoleEdit, Types, DatabaseTyped, SessionTyped, ListingTyped, PhaseTyped, Quiet,
                    databaseVars, sessionVars, listingVars

LEMMA StutterTyped == ASSUME Types, UNCHANGED vars PROVE Types'
BY DEF Types, GatewayTyped, DatabaseTyped, SessionTyped, ListingTyped, PhaseTyped, Quiet, vars

LEMMA StepTyped == Types /\ [Next]_vars => Types'
<1> SUFFICES ASSUME Types, [Next]_vars PROVE Types'
  OBVIOUS
<1>1. ASSUME NEW r \in Requests, Submit(r) \/ SubmitAdopt(r) PROVE Types'
  BY <1>1, SubmitTyped, SubmitAdoptTyped
<1>2. ASSUME NEW r \in Requests, Applies(r) PROVE Types'
  BY <1>2, WriteTyped, TouchTyped, EndLoopTyped DEF Applies
<1>3. ASSUME NEW r \in Requests, Adopts(r) PROVE Types'
  BY <1>3, ListPageTyped, MergeTyped, SweepTyped DEF Adopts
<1>4. ASSUME NEW r \in Requests, Flush(r) PROVE Types'
  BY <1>4, FlushTyped DEF Flush
<1>5. ASSUME NEW r \in Requests, FlushFails(r) \/ Commit(r) \/ BreakDeadlock(r) PROVE Types'
  BY <1>5, AbortTyped, CommitTyped DEF FlushFails, BreakDeadlock
<1>6. ASSUME ConsoleEdit PROVE Types'
  BY <1>6, ConsoleEditTyped
<1>7. ASSUME UNCHANGED vars \/ Finished PROVE Types'
  BY <1>7, StutterTyped DEF Finished
<1> QED BY <1>1, <1>2, <1>3, <1>4, <1>5, <1>6, <1>7 DEF Next, Session

\* Requests, rows, sessions and listings have their types in every state (TypeOK).
THEOREM TypeCorrect == Spec => []TypeOK
<1>1. Spec => []Types
  BY InitTyped, StepTyped, PTL DEF Spec
<1> QED BY <1>1, TypesSuffice, PTL

-----------------------------------------------------------------------------
(***************************************************************************)
(* One request at a time.                                                  *)
(***************************************************************************)

\* Row i as r is going to leave it.
Left(r, i) == IF i \in dirty[r] THEN mine[r][i] ELSE Visible(r, i)

Live(content) == [payload |-> content, state |-> "live"]

\* The row says what the gateway holds.
Agrees(content, row) == IF content = None THEN row.state # "live" ELSE row = Live(content)

\* What a request that has met no other knows is still so, and what it has merged and
\* swept it leaves as it was listed.
AloneAt(r) ==
  /\ \A s \in InFlight : s = r
  /\ \A i \in Ids : base[r][i] # None => base[r][i] = Visible(r, i)
  /\ pc[r] = "merging" =>
       \A i \in Ids \ unmerged[r] : listed[r][i] # None => Left(r, i) = Live(listed[r][i])
  /\ pc[r] = "swept" => \A i \in Ids : Agrees(listed[r][i], Left(r, i))

Alone == \A r \in InFlight \ met : AloneAt(r)

\* The records r has listed: the first ones, as they are.
Sofar(r) == {i \in Ids : listed[r][i] # None}

FirstOnes(r) ==
  /\ \A i \in Sofar(r) : i \in Present /\ listed[r][i] = store[i]
  /\ \A i \in Sofar(r), j \in Present : j <= i => j \in Sofar(r)
  /\ offset[r] = Cardinality(Sofar(r))

\* What r leaves agrees with the gateway, but for the write it has just made.
Follows(r) ==
  /\ pc[r] = "answered" => store[answer[r].id] = answer[r].content
  /\ \A i \in Ids : \/ pc[r] = "answered" /\ i = answer[r].id
                    \/ Agrees(store[i], Left(r, i))

\* While requests come one at a time and the console is not used, a listing is what the
\* gateway holds, and after an adoption so is the mirror.
Serial ==
  met = {} /\ ~edited =>
    /\ \A r \in Requests :
         /\ pc[r] = "listing" => FirstOnes(r)
         /\ pc[r] \in {"merging", "swept"} => listed[r] = store
         /\ tracking /\ pc[r] \in {"applying", "answered", "finishing"} => Follows(r)
    /\ tracking /\ InFlight = {} => \A i \in Ids : Agrees(store[i], rows[i])

IInv == Types /\ Alone /\ Serial

LEMMA FlightTyped ==
  ASSUME Types, NEW r \in Requests
  PROVE  /\ r \notin InFlight <=> pc[r] \in Over \cup {"idle"}
         /\ r \notin InFlight => base[r] = Fresh /\ mine[r] = Fresh /\ dirty[r] = {} /\ \A i \in Ids : held[i] # r
BY DEF Types, Quiet, InFlight

\* Only a request that has not begun begins.
LEMMA Beginning ==
  ASSUME Types, [Next]_vars, NEW r \in Requests, r \notin InFlight
  PROVE  Submit(r) \/ SubmitAdopt(r) \/ pc'[r] = pc[r]
<1>1. pc[r] \in Over \cup {"idle"} /\ dirty[r] = {} /\ pc \in [Requests -> Stages]
  BY FlightTyped DEF Types, PhaseTyped
<1>2. ~Applies(r) /\ ~Adopts(r)
  BY <1>1 DEF Applies, Write, Touch, EndLoop, Adopts, ListPage, Merge, Sweep, Over
<1>3. ~MustFlush(r)
  BY <1>1 DEF MustFlush
<1>4. ~Flush(r) /\ ~FlushFails(r) /\ ~Commit(r)
  BY <1>1, <1>3 DEF Flush, FlushFails, Commit, Over
<1>5. ~BreakDeadlock(r)
  BY <1>3 DEF BreakDeadlock, WaitsFor
<1>6. ASSUME NEW s \in Requests \ {r}, NEW how, pc' = [pc EXCEPT ![s] = how] PROVE pc'[r] = pc[r]
  BY <1>1, <1>6
<1>7. ASSUME NEW s \in Requests \ {r}, Submit(s) \/ SubmitAdopt(s) PROVE pc'[r] = pc[r]
  BY <1>6, <1>7 DEF Submit, SubmitAdopt, Begin
<1>8. ASSUME NEW s \in Requests \ {r}, Applies(s) \/ Adopts(s) PROVE pc'[r] = pc[r]
  <2>1. CASE Applies(s)
    BY <1>6, <2>1 DEF Applies, Write, Touch, EndLoop
  <2>2. CASE ListPage(s)
    BY <1>6, <2>2 DEF ListPage, Listed
  <2>3. CASE Merge(s) \/ Sweep(s)
    BY <1>6, <2>3 DEF Merge, Sweep
  <2> QED BY <1>8, <2>1, <2>2, <2>3 DEF Adopts
<1>9. ASSUME NEW s \in Requests \ {r}, Session(s) \/ BreakDeadlock(s) PROVE pc'[r] = pc[r]
  <2>1. CASE Flush(s)
    BY <2>1 DEF Flush
  <2>2. CASE FlushFails(s) \/ BreakDeadlock(s) \/ Commit(s)
    BY <1>6, <2>2 DEF FlushFails, BreakDeadlock, Abort, Commit
  <2> QED BY <1>9, <2>1, <2>2 DEF Session
<1>10. ASSUME UNCHANGED vars \/ Finished \/ ConsoleEdit PROVE pc'[r] = pc[r]
  BY <1>10 DEF Finished, ConsoleEdit, vars
<1> QED BY <1>2, <1>4, <1>5, <1>7, <1>8, <1>9, <1>10 DEF Next, Session

LEMMA MetGrows ==
  ASSUME [Next]_vars PROVE met \subseteq met'
<1>1. ASSUME NEW r \in Requests, Submit(r) \/ SubmitAdopt(r) PROVE met \subseteq met'
  BY <1>1 DEF Submit, SubmitAdopt, Begin
<1>2. ASSUME NEW r \in Requests, Applies(r) \/ Adopts(r) PROVE met \subseteq met'
  BY <1>2 DEF Applies, Adopts, Write, Touch, EndLoop, ListPage, Listed, Merge, Sweep
<1>3. ASSUME NEW r \in Requests, Session(r) \/ BreakDeadlock(r) PROVE met \subseteq met'
  BY <1>3 DEF Session, Flush, FlushFails, Commit, BreakDeadlock, Abort
<1> QED BY <1>1, <1>2, <1>3 DEF Next, Finished, ConsoleEdit, vars

\* Somebody acts only when it is in flight or begins.
LEMMA Actors ==
  ASSUME Types, NEW r \in Requests,
         Applies(r) \/ Adopts(r) \/ Session(r) \/ BreakDeadlock(r)
  PROVE  r \in InFlight
<1>1. ASSUME MustFlush(r) PROVE r \in InFlight
  BY <1>1 DEF MustFlush, InFlight, Over
<1>2. CASE Applies(r)
  BY <1>2 DEF Applies, Write, Touch, EndLoop, InFlight, Over
<1>3. CASE Adopts(r)
  BY <1>3 DEF Adopts, ListPage, Merge, Sweep, InFlight, Over
<1>4. CASE Session(r) \/ BreakDeadlock(r)
  BY <1>1, <1>4 DEF Session, Flush, FlushFails, Commit, BreakDeadlock, WaitsFor, InFlight, Over
<1> QED BY <1>2, <1>3, <1>4

\* A row that r alone has loaded, and perhaps changed, is what it will write.
LEMMA Undisturbed ==
  ASSUME Types, Alone, NEW r \in InFlight \ met, NEW i \in Ids
  PROVE  /\ held[i] \in {None, r}
         /\ i \in dirty[r] => Written(r, i) = mine[r][i] /\ ~Duplicate(r, i)
         /\ dirty[r] = {} => Loaded(r, i) = Visible(r, i)
<1>1. r \in Requests /\ AloneAt(r)
  BY DEF Alone, InFlight
<1>2. held[i] \in {None, r}
  <2>1. held[i] \in Requests \cup {None}
    BY DEF Types, DatabaseTyped
  <2>2. held[i] \in Requests => held[i] \in InFlight
    BY FlightTyped
  <2> QED BY <1>1, <2>1, <2>2 DEF AloneAt
<1>3. ASSUME i \in dirty[r] PROVE Written(r, i) = mine[r][i] /\ ~Duplicate(r, i)
  <2>1. mine[r][i] \in Row /\ base[r][i] \in Row /\ base[r][i] = Visible(r, i)
    BY <1>1, <1>3, Facts DEF AloneAt, Types, SessionTyped
  <2>2. Written(r, i) = [payload |-> mine[r][i].payload, state |-> mine[r][i].state]
    BY <2>1 DEF Written
  <2>3. mine[r][i] = [payload |-> mine[r][i].payload, state |-> mine[r][i].state]
    BY <2>1 DEF Row
  <2>4. ~Duplicate(r, i)
    BY <2>1 DEF Duplicate, Visible
  <2> QED BY <2>2, <2>3, <2>4
<1>4. ASSUME dirty[r] = {} PROVE Loaded(r, i) = Visible(r, i)
  BY <1>1, <1>4 DEF Loaded, AloneAt, Types, SessionTyped
<1> QED BY <1>2, <1>3, <1>4

\* While r is alone, nobody else acts, except in the console; and it does not fail.
LEMMA OneAtATime ==
  ASSUME Types, Alone, [Next]_vars, NEW r \in InFlight, r \notin met'
  PROVE  /\ r \in Requests /\ r \notin met /\ AloneAt(r) /\ InFlight = {r}
         /\ \/ UNCHANGED vars \/ ConsoleEdit
            \/ Applies(r) \/ Adopts(r) \/ Flush(r) \/ Commit(r)
<1>1. r \in Requests /\ r \notin met /\ AloneAt(r)
  BY MetGrows DEF InFlight, Alone
<1>2. InFlight = {r}
  BY <1>1 DEF AloneAt
<1>3. ASSUME NEW s \in Requests PROVE ~Submit(s) /\ ~SubmitAdopt(s)
  BY <1>2 DEF Submit, SubmitAdopt, Begin
<1>4. ASSUME NEW s \in Requests, Applies(s) \/ Adopts(s) \/ Session(s) \/ BreakDeadlock(s) PROVE s = r
  BY <1>2, <1>4, Actors
<1>5. ~BreakDeadlock(r)
  <2>1. SUFFICES ASSUME NEW S \in SUBSET Requests, r \in S, \A s \in S : \E t \in S : WaitsFor(s, t)
                 PROVE  FALSE
    BY DEF BreakDeadlock
  <2>2. PICK t \in S : WaitsFor(r, t)
    BY <2>1
  <2>3. MustFlush(t) /\ t # r
    BY <2>1, <2>2 DEF WaitsFor
  <2>4. t \in InFlight
    BY <2>3 DEF MustFlush, InFlight, Over
  <2> QED BY <1>2, <2>3, <2>4
<1>6. ~FlushFails(r)
  <2>1. \A i \in dirty[r] : i \in Ids /\ ~Duplicate(r, i)
    BY <1>1, Undisturbed DEF Types, SessionTyped
  <2> QED BY <2>1 DEF FlushFails
<1>7. UNCHANGED vars \/ ConsoleEdit \/ Applies(r) \/ Adopts(r) \/ Flush(r) \/ Commit(r)
  <2>1. CASE \E s \in Requests : Applies(s) \/ Adopts(s) \/ Session(s) \/ BreakDeadlock(s)
    BY <1>4, <1>5, <1>6, <2>1 DEF Session
  <2>2. CASE Finished
    BY <2>2 DEF Finished
  <2> QED BY <1>3, <2>1, <2>2 DEF Next
<1> QED BY <1>1, <1>2, <1>7

\* What r sees, holds and leaves is the same when neither its session nor the database
\* changes.
LEMMA SameLeft ==
  ASSUME Types, NEW r \in Requests, UNCHANGED databaseVars,
         base'[r] = base[r], mine'[r] = mine[r], dirty'[r] = dirty[r]
  PROVE  \A i \in Ids : Left(r, i)' = Left(r, i) /\ Visible(r, i)' = Visible(r, i) /\ base'[r][i] = base[r][i]
BY DEF databaseVars, Left, Visible

\* One row of the session changes.
LEMMA StageLeaves ==
  ASSUME Types, NEW r \in Requests, NEW i \in Ids, NEW row \in Row, Stage(r, i, row),
         UNCHANGED databaseVars
  PROVE  /\ \A j \in Ids : Left(r, j)' = IF j = i THEN row ELSE Left(r, j)
         /\ \A j \in Ids : base'[r][j] # base[r][j] => base'[r][j] = Visible(r, j)
         /\ \A j \in Ids : Visible(r, j)' = Visible(r, j)
<1>1. \A j \in Ids : Visible(r, j)' = Visible(r, j)
  BY DEF databaseVars, Visible
<1>2. /\ \A j \in Ids : /\ base'[r][j] = IF j = i THEN IF mine[r][i] # None THEN base[r][i] ELSE Visible(r, i)
                                          ELSE base[r][j]
                        /\ mine'[r][j] = IF j = i THEN row ELSE mine[r][j]
      /\ dirty'[r] = dirty[r] \cup {i}
  BY StageTyped
<1> QED BY <1>1, <1>2 DEF Left

LEMMA TouchLeaves ==
  ASSUME Types, NEW r \in Requests, Touch(r)
  PROVE  \E i \in Ids, c \in Contents \cup {None} :
           /\ i = answer[r].id /\ c = answer[r].content
           /\ pc[r] = "answered" /\ pc'[r] = "applying" /\ dirty[r] = {}
           /\ \A j \in Ids : Visible(r, j)' = Visible(r, j)
           /\ \A j \in Ids : base'[r][j] # base[r][j] => base'[r][j] = Visible(r, j)
           /\ \A j \in Ids \ {i} : Left(r, j)' = Left(r, j)
           /\ Loaded(r, i) = Left(r, i) => Agrees(c, Left(r, i)')
<1>1. PICK i \in Ids, c \in Contents \cup {None} : i = answer[r].id /\ c = answer[r].content
  BY DEF Touch, Types, PhaseTyped, Answer
<1>2. pc[r] = "answered" /\ pc'[r] = "applying" /\ dirty[r] = {} /\ UNCHANGED databaseVars
  BY DEF Touch, Types, PhaseTyped
<1>3. Loaded(r, i) \in Row
  BY RowsSeen
<1>4. \/ c # None /\ Stage(r, i, Live(c))
      \/ c = None /\ Loaded(r, i).state = "absent" /\ UNCHANGED sessionVars
      \/ c = None /\ Stage(r, i, [Loaded(r, i) EXCEPT !.state = "deleted"])
  BY <1>1 DEF Touch, Upsert, SoftDelete, Live
<1> DEFINE Goal == /\ \A j \in Ids : Visible(r, j)' = Visible(r, j)
                   /\ \A j \in Ids : base'[r][j] # base[r][j] => base'[r][j] = Visible(r, j)
                   /\ \A j \in Ids \ {i} : Left(r, j)' = Left(r, j)
                   /\ Loaded(r, i) = Left(r, i) => Agrees(c, Left(r, i)')
<1>5. CASE c # None /\ Stage(r, i, Live(c))
  <2>1. Live(c) \in Row
    BY <1>5 DEF Live, Row
  <2>2. Goal
    BY <1>2, <1>5, <2>1, StageLeaves DEF Agrees
  <2> QED BY <1>1, <1>2, <2>2
<1>6. CASE c = None /\ Loaded(r, i).state = "absent" /\ UNCHANGED sessionVars
  <2>1. Goal
    BY <1>2, <1>6, SameLeft DEF sessionVars, Agrees
  <2> QED BY <1>1, <1>2, <2>1
<1>7. CASE c = None /\ Stage(r, i, [Loaded(r, i) EXCEPT !.state = "deleted"])
  <2>1. [Loaded(r, i) EXCEPT !.state = "deleted"] \in Row /\ [Loaded(r, i) EXCEPT !.state = "deleted"].state = "deleted"
    BY <1>3 DEF Row
  <2>2. Goal
    BY <1>2, <1>7, <2>1, StageLeaves DEF Agrees
  <2> QED BY <1>1, <1>2, <2>2
<1> QED BY <1>4, <1>5, <1>6, <1>7

\* A flush of r, when nobody disturbs it, leaves what it would have left.
LEMMA FlushLeaves ==
  ASSUME Types, Alone, NEW r \in InFlight \ met, Flush(r)
  PROVE  /\ \A j \in Ids : Left(r, j)' = Left(r, j)
         /\ \A j \in Ids : base'[r][j] # None => base'[r][j] = Visible(r, j)'
<1>1. PICK i \in dirty[r] :
        /\ draft' = [draft EXCEPT ![i] = Written(r, i)] /\ held' = [held EXCEPT ![i] = r]
        /\ base' = [base EXCEPT ![r][i] = mine[r][i]] /\ dirty' = [dirty EXCEPT ![r] = @ \ {i}]
  BY DEF Flush
<1>2. UNCHANGED << mine, rows >> /\ r \in Requests /\ i \in Ids
  BY DEF Flush, InFlight, Types, SessionTyped
<1>3. Written(r, i) = mine[r][i]
  BY <1>2, Undisturbed
<1>4. \A j \in Ids : Visible(r, j)' = IF j = i THEN mine[r][i] ELSE Visible(r, j)
  BY <1>1, <1>2, <1>3 DEF Visible, Types, DatabaseTyped
<1>5. \A j \in Ids : base'[r][j] = IF j = i THEN mine[r][i] ELSE base[r][j]
  BY <1>1, <1>2 DEF Types, SessionTyped
<1>6. dirty'[r] = dirty[r] \ {i}
  BY <1>1, <1>2 DEF Types, SessionTyped
<1>7. \A j \in Ids : base[r][j] # None => base[r][j] = Visible(r, j)
  BY DEF Alone, AloneAt
<1>8. \A j \in Ids : Left(r, j)' = Left(r, j)
  BY <1>1, <1>2, <1>4, <1>6 DEF Left
<1> QED BY <1>4, <1>5, <1>7, <1>8

LEMMA MergeLeaves ==
  ASSUME Types, NEW r \in Requests, Merge(r)
  PROVE  \E i \in unmerged[r] :
           /\ unmerged'[r] = unmerged[r] \ {i} /\ i \in Ids
           /\ \A j \in Ids : Left(r, j)' = IF j = i THEN Live(listed[r][i]) ELSE Left(r, j)
           /\ \A j \in Ids : base'[r][j] # base[r][j] => base'[r][j] = Visible(r, j)
           /\ \A j \in Ids : Visible(r, j)' = Visible(r, j)
<1>1. PICK i \in unmerged[r] : Upsert(r, i, listed[r][i]) /\ unmerged' = [unmerged EXCEPT ![r] = @ \ {i}]
  BY DEF Merge
<1>2. i \in Ids /\ Live(listed[r][i]) \in Row /\ UNCHANGED databaseVars
  BY DEF Types, ListingTyped, Row, Live, Merge
<1>3. Stage(r, i, Live(listed[r][i]))
  BY <1>1 DEF Upsert, Live
<1>4. unmerged'[r] = unmerged[r] \ {i}
  BY <1>1 DEF Types, ListingTyped
<1> QED BY <1>2, <1>3, <1>4, StageLeaves

LEMMA SweepLeaves ==
  ASSUME Types, NEW r \in Requests, Sweep(r)
  PROVE  /\ pc'[r] = "swept" /\ unmerged[r] = {} /\ pc[r] = "merging"
         /\ \A i \in Ids : IF Left(r, i).state = "live" /\ listed[r][i] = None
                           THEN Left(r, i)'.state = "deleted" ELSE Left(r, i)' = Left(r, i)
         /\ \A i \in Ids : base'[r][i] # base[r][i] => base'[r][i] = Visible(r, i)
         /\ \A i \in Ids : Visible(r, i)' = Visible(r, i)
<1> DEFINE gone == {i \in Ids : Visible(r, i).state = "live" /\ listed[r][i] = None}
<1>1. /\ base' = [base EXCEPT ![r] = [i \in Ids |-> IF i \in gone THEN Visible(r, i) ELSE @[i]]]
      /\ mine' = [mine EXCEPT ![r] = [i \in Ids |-> IF i \in gone THEN [Visible(r, i) EXCEPT !.state = "deleted"]
                                                    ELSE @[i]]]
      /\ dirty' = [dirty EXCEPT ![r] = gone] /\ dirty[r] = {} /\ unmerged[r] = {}
      /\ pc[r] = "merging" /\ pc' = [pc EXCEPT ![r] = "swept"]
      /\ UNCHANGED databaseVars
  BY DEF Sweep
<1>2. \A i \in Ids : Visible(r, i) \in Row /\ [Visible(r, i) EXCEPT !.state = "deleted"].state = "deleted"
  <2>1. ASSUME NEW row \in Row PROVE [row EXCEPT !.state = "deleted"].state = "deleted"
    BY DEF Row
  <2> QED BY <2>1, RowsSeen
<1>3. \A i \in Ids : /\ base'[r][i] = IF i \in gone THEN Visible(r, i) ELSE base[r][i]
                    /\ mine'[r][i] = IF i \in gone THEN [Visible(r, i) EXCEPT !.state = "deleted"] ELSE mine[r][i]
  BY <1>1 DEF Types, SessionTyped
<1>4. dirty'[r] = gone /\ pc'[r] = "swept"
  BY <1>1 DEF Types, SessionTyped, PhaseTyped
<1>5. \A i \in Ids : Visible(r, i)' = Visible(r, i) /\ Left(r, i) = Visible(r, i)
  BY <1>1 DEF databaseVars, Visible, Left
<1>6. \A i \in Ids : i \in gone <=> Left(r, i).state = "live" /\ listed[r][i] = None
  BY <1>5
<1> HIDE DEF gone
<1>7. \A i \in Ids : Left(r, i)' = IF i \in gone THEN [Visible(r, i) EXCEPT !.state = "deleted"] ELSE Left(r, i)
  <2>1. \A i \in Ids : Left(r, i)' = IF i \in dirty'[r] THEN mine'[r][i] ELSE Visible(r, i)'
    BY DEF Left
  <2> QED BY <1>3, <1>4, <1>5, <2>1
<1> QED BY <1>1, <1>2, <1>3, <1>4, <1>5, <1>6, <1>7

LEMMA ListPageLists ==
  ASSUME Types, NEW r \in Requests, ListPage(r)
  PROVE  LET n == offset[r] + Cardinality(Page(r))
             more == Page(r) # {} /\ n < Cardinality(Present)
         IN  /\ pc[r] = "listing" /\ offset'[r] = n /\ Page(r) \subseteq Present
             /\ \A i \in Ids : listed'[r][i] = IF i \in Page(r) THEN store[i] ELSE listed[r][i]
             /\ IF more THEN pc'[r] = "listing"
                ELSE pc'[r] = "merging" /\ unmerged'[r] = {i \in Ids : listed'[r][i] # None}
             /\ UNCHANGED << gatewayVars, databaseVars, sessionVars >>
<1> DEFINE n == offset[r] + Cardinality(Page(r))
           more == Page(r) # {} /\ n < Cardinality(Present)
<1>1. /\ pc[r] = "listing" /\ offset' = [offset EXCEPT ![r] = n]
      /\ listed' = [listed EXCEPT ![r] = [i \in Ids |-> IF i \in Page(r) THEN store[i] ELSE @[i]]]
      /\ IF more THEN UNCHANGED << pc, unmerged >>
         ELSE /\ pc' = [pc EXCEPT ![r] = "merging"]
              /\ unmerged' = [unmerged EXCEPT ![r] = {i \in Ids : listed'[r][i] # None}]
      /\ UNCHANGED << gatewayVars, databaseVars, sessionVars >>
  BY DEF ListPage, Listed
<1> HIDE DEF n, more
<1>2. /\ \A i \in Ids : listed'[r][i] = IF i \in Page(r) THEN store[i] ELSE listed[r][i]
      /\ offset'[r] = n
  BY <1>1 DEF Types, ListingTyped
<1>3. IF more THEN pc'[r] = "listing"
      ELSE pc'[r] = "merging" /\ unmerged'[r] = {i \in Ids : listed'[r][i] # None}
  BY <1>1 DEF Types, ListingTyped, PhaseTyped
<1>4. Page(r) \subseteq Present
  BY DEF Page
<1> QED BY <1>1, <1>2, <1>3, <1>4 DEF n, more

\* What concerns r alone is the same if r's stage, session and listing are, and the
\* database.
LEMMA AloneKept ==
  ASSUME Types, NEW r \in Requests, AloneAt(r),
         UNCHANGED << databaseVars, pc, sessionVars, listed, unmerged >>
  PROVE  AloneAt(r)'
<1>1. \A i \in Ids : Left(r, i)' = Left(r, i) /\ Visible(r, i)' = Visible(r, i)
  BY SameLeft DEF sessionVars
<1> QED BY <1>1 DEF AloneAt, InFlight, sessionVars, Agrees, Live

LEMMA AloneStep ==
  ASSUME Types, Alone, [Next]_vars, Types'
  PROVE  Alone'
<1> SUFFICES ASSUME NEW r \in Requests, r \in InFlight', r \notin met' PROVE AloneAt(r)'
  BY DEF Alone, InFlight
<1>1. CASE r \notin InFlight
  <2>1. pc'[r] # pc[r]
    BY <1>1 DEF InFlight
  <2>2. Submit(r) \/ SubmitAdopt(r)
    BY <1>1, <2>1, Beginning
  <2>3. /\ InFlight = {} /\ pc'[r] \in {"applying", "listing"}
        /\ \A s \in Requests \ {r} : pc'[s] = pc[s]
    BY <2>2 DEF Submit, SubmitAdopt, Begin, Types, PhaseTyped
  <2>4. \A s \in InFlight' : s = r
    BY <2>3 DEF InFlight
  <2>5. base'[r] = Fresh
    BY <1>1, <2>2, FlightTyped DEF Submit, SubmitAdopt, sessionVars
  <2> QED BY <2>3, <2>4, <2>5 DEF AloneAt, Fresh
<1>2. CASE r \in InFlight
  <2>1. /\ r \notin met /\ AloneAt(r) /\ InFlight = {r}
        /\ \/ UNCHANGED vars \/ ConsoleEdit
           \/ Applies(r) \/ Adopts(r) \/ Flush(r) \/ Commit(r)
    BY <1>2, OneAtATime
  <2>2. \A s \in InFlight' : s = r
    <3>1. ASSUME NEW s \in Requests, s # r PROVE s \notin InFlight'
      <4>1. ~Submit(s) /\ ~SubmitAdopt(s)
        BY <1>2 DEF Submit, SubmitAdopt, Begin
      <4>2. s \notin InFlight
        BY <2>1, <3>1
      <4>3. pc'[s] = pc[s]
        BY <4>1, <4>2, Beginning
      <4> QED BY <4>2, <4>3 DEF InFlight
    <3> QED BY <3>1 DEF InFlight
  <2>3. \A i \in Ids : base[r][i] # None => base[r][i] = Visible(r, i)
    BY <2>1 DEF AloneAt
  <2>4. CASE UNCHANGED vars \/ ConsoleEdit
    BY <2>1, <2>4, AloneKept DEF vars, databaseVars, sessionVars, listingVars, ConsoleEdit
  <2>5. CASE Write(r) \/ EndLoop(r)
    <3>1. pc'[r] \in {"answered", "finishing"} /\ UNCHANGED << databaseVars, sessionVars >>
      BY <2>5 DEF Write, EndLoop, Types, PhaseTyped
    <3>2. \A i \in Ids : base'[r][i] # None => base'[r][i] = Visible(r, i)'
      BY <2>3, <3>1, SameLeft DEF sessionVars
    <3> QED BY <2>2, <3>1, <3>2 DEF AloneAt
  <2>6. CASE Touch(r)
    <3>1. pc'[r] = "applying" /\ \A i \in Ids : base'[r][i] # None => base'[r][i] = Visible(r, i)'
      BY <2>3, <2>6, TouchLeaves
    <3> QED BY <2>2, <3>1 DEF AloneAt
  <2>7. CASE ListPage(r)
    <3>1. UNCHANGED << databaseVars, sessionVars >>
      BY <2>7, ListPageLists
    <3>2. \A i \in Ids : base'[r][i] # None => base'[r][i] = Visible(r, i)'
      BY <2>3, <3>1, SameLeft DEF sessionVars
    <3>3. /\ pc'[r] \in {"listing", "merging"}
          /\ pc'[r] = "merging" => unmerged'[r] = {i \in Ids : listed'[r][i] # None}
      BY <2>7, ListPageLists
    <3> QED BY <2>2, <3>2, <3>3 DEF AloneAt
  <2>8. CASE Merge(r)
    <3>1. PICK i \in unmerged[r] :
            /\ unmerged'[r] = unmerged[r] \ {i}
            /\ \A j \in Ids : Left(r, j)' = IF j = i THEN Live(listed[r][i]) ELSE Left(r, j)
            /\ \A j \in Ids : base'[r][j] # None => base'[r][j] = Visible(r, j)'
      BY <2>3, <2>8, MergeLeaves
    <3>2. pc[r] = "merging" /\ UNCHANGED << pc, listed >>
      BY <2>8 DEF Merge
    <3>3. \A j \in Ids \ unmerged'[r] : listed[r][j] # None => Left(r, j)' = Live(listed[r][j])
      BY <2>1, <3>1, <3>2 DEF AloneAt
    <3> QED BY <2>2, <3>1, <3>2, <3>3 DEF AloneAt, Live
  <2>9. CASE Sweep(r)
    <3>1. /\ pc'[r] = "swept" /\ UNCHANGED listed
          /\ \A i \in Ids : base'[r][i] # None => base'[r][i] = Visible(r, i)'
      BY <2>3, <2>9, SweepLeaves DEF Sweep, listingVars
    <3>2. \A i \in Ids : listed[r][i] # None => Left(r, i) = Live(listed[r][i])
      BY <2>1, <2>9, SweepLeaves DEF AloneAt
    <3>3. \A i \in Ids : Agrees(listed[r][i], Left(r, i)')
      BY <2>9, <3>2, SweepLeaves DEF Agrees
    <3>4. \A i \in Ids : Agrees(listed[r][i], Left(r, i))'
      BY <3>1, <3>3 DEF Agrees, Live
    <3> QED BY <2>2, <3>1, <3>4 DEF AloneAt
  <2>10. CASE Flush(r)
    <3>1. /\ \A j \in Ids : Left(r, j)' = Left(r, j)
          /\ \A j \in Ids : base'[r][j] # None => base'[r][j] = Visible(r, j)'
      BY <1>2, <2>1, <2>10, FlushLeaves
    <3>2. UNCHANGED << pc, listed, unmerged >>
      BY <2>10 DEF Flush, listingVars
    <3> QED BY <2>1, <2>2, <3>1, <3>2 DEF AloneAt, Agrees, Live
  <2>11. CASE Commit(r)
    <3>1. pc'[r] = "done"
      BY <2>11 DEF Commit, Types, PhaseTyped
    <3> QED BY <3>1 DEF InFlight, Over
  <2> QED BY <2>1, <2>4, <2>5, <2>6, <2>7, <2>8, <2>9, <2>10, <2>11 DEF Applies, Adopts
<1> QED BY <1>1, <1>2

\* An adoption that nobody met makes the mirror say what it listed (AdoptionRepairs).
THEOREM AdoptionDoesRepair == Spec => AdoptionRepairs
<1>1. Init => Alone
  BY DEF Init, Alone, InFlight, Over
<1>2. ASSUME Types, Alone, NEW r \in Requests, Commit(r), pc[r] = "swept", r \notin met,
             NEW i \in Ids
      PROVE  IF listed[r][i] = None THEN rows'[i].state # "live"
             ELSE rows'[i] = [payload |-> listed[r][i], state |-> "live"]
  <2>1. r \in InFlight
    BY <1>2 DEF InFlight, Over
  <2>2. Agrees(listed[r][i], Left(r, i))
    BY <1>2, <2>1 DEF Alone, AloneAt
  <2>3. rows'[i] = Left(r, i)
    BY <1>2 DEF Commit, Left, Visible
  <2> QED BY <2>2, <2>3 DEF Agrees, Live
<1>3. Types /\ Alone => [\A r \in Requests :
         Commit(r) /\ pc[r] = "swept" /\ r \notin met
         => \A i \in Ids :
              IF listed[r][i] = None THEN rows'[i].state # "live"
              ELSE rows'[i] = [payload |-> listed[r][i], state |-> "live"]]_vars
  BY <1>2
<1>4. Types /\ Alone /\ [Next]_vars => (Types /\ Alone)'
  BY StepTyped, AloneStep
<1> QED BY <1>1, <1>3, <1>4, InitTyped, PTL DEF Spec, AdoptionRepairs

LEMMA AgreesTogether ==
  ASSUME Types, \A i \in Ids : Agrees(store[i], rows[i])
  PROVE  Clean
<1>1. ASSUME NEW i \in Ids
      PROVE  IF store[i] = None THEN rows[i].state # "live"
             ELSE rows[i].state = "live" /\ rows[i].payload = store[i]
  <2>1. Agrees(store[i], rows[i])
    OBVIOUS
  <2> QED BY <2>1 DEF Agrees, Live
<1>2. OnlyOnGateway = {} /\ OnlyInMirror = {} /\ Modified = {}
  BY <1>1 DEF OnlyOnGateway, OnlyInMirror, Modified
<1> QED BY <1>2 DEF Clean

\* A page of an undisturbed listing goes on from the pages before it; the last one
\* completes it.
LEMMA PageGoesOn ==
  ASSUME Types, NEW r \in Requests, ListPage(r), FirstOnes(r)
  PROVE  /\ pc'[r] = "listing" => FirstOnes(r)'
         /\ pc'[r] # "listing" => pc'[r] = "merging" /\ listed'[r] = store'
<1> DEFINE L == Sofar(r)
           P == Page(r)
<1>1. /\ offset'[r] = offset[r] + Cardinality(P) /\ P \subseteq Present
      /\ \A i \in Ids : listed'[r][i] = IF i \in P THEN store[i] ELSE listed[r][i]
      /\ IF P # {} /\ offset[r] + Cardinality(P) < Cardinality(Present) THEN pc'[r] = "listing"
         ELSE pc'[r] = "merging"
      /\ store' = store
  BY ListPageLists DEF gatewayVars
<1>2. L \in SUBSET Present /\ offset[r] = Cardinality(L) /\ \A i \in L, j \in Present : j <= i => j \in L
  BY DEF FirstOnes
<1>3. /\ offset[r] + Cardinality(P) = Cardinality(L \cup P)
      /\ \A i \in L \cup P, j \in Present : j <= i => j \in L \cup P
      /\ P = {} \/ ~(offset[r] + Cardinality(P) < Cardinality(Present)) => L \cup P = Present
  <2> HIDE DEF L
  <2> QED BY <1>2, PageExtends
<1>4. Sofar(r)' = L \cup P /\ Present' = Present
  BY <1>1 DEF Sofar, Present
<1>5. \A i \in L \cup P : listed'[r][i] = store[i]
  BY <1>1 DEF FirstOnes, Present
<1>6. pc'[r] = "listing" => FirstOnes(r)'
  <2>1. \A i \in L \cup P : i \in Present
    BY <1>1, <1>2
  <2> HIDE DEF L, P
  <2> QED BY <1>1, <1>3, <1>4, <1>5, <2>1 DEF FirstOnes
<1>7. ASSUME pc'[r] # "listing" PROVE pc'[r] = "merging" /\ listed'[r] = store
  <2>1. pc'[r] = "merging" /\ L \cup P = Present
    BY <1>1, <1>3, <1>7
  <2>2. \A i \in Ids : listed'[r][i] = store[i]
    <3>1. \A i \in Present : listed'[r][i] = store[i]
      BY <1>5, <2>1
    <3>2. \A i \in Ids \ Present : listed'[r][i] = None /\ store[i] = None
      BY <1>4, <2>1 DEF Sofar, Present
    <3> QED BY <3>1, <3>2
  <2>3. listed' \in [Requests -> [Ids -> Contents \cup {None}]] /\ store \in [Ids -> Contents \cup {None}]
    <3>1. Types'
      BY ListPageTyped
    <3> QED BY <3>1 DEF Types, ListingTyped, GatewayTyped
  <2>4. listed'[r] \in [Ids -> Contents \cup {None}]
    BY <2>3
  <2> QED BY <2>1, <2>2, <2>3, <2>4
<1> QED BY <1>1, <1>6, <1>7

\* What Serial says of r.
SerialAt(r) ==
  /\ pc[r] = "listing" => FirstOnes(r)
  /\ pc[r] \in {"merging", "swept"} => listed[r] = store
  /\ tracking /\ pc[r] \in {"applying", "answered", "finishing"} => Follows(r)

\* Who begins alone begins in accordance with the mirror.
LEMMA SerialBegin ==
  ASSUME Types, Types', NEW r \in Requests, r \notin InFlight, Submit(r) \/ SubmitAdopt(r),
         Submit(r) /\ tracking => \A i \in Ids : Agrees(store[i], rows[i])
  PROVE  SerialAt(r)'
<1>1. /\ dirty'[r] = {} /\ listed'[r] = listed[r] /\ offset'[r] = offset[r]
      /\ UNCHANGED << store, databaseVars, tracking >>
  BY FlightTyped DEF Submit, SubmitAdopt, sessionVars, listingVars, gatewayVars
<1>2. pc[r] = "idle" /\ listed[r] = Fresh /\ offset[r] = 0
  BY DEF Submit, SubmitAdopt, Begin, Types, Quiet
<1>3. CASE Submit(r)
  <2>1. pc'[r] = "applying"
    BY <1>3 DEF Submit, Begin, Types, PhaseTyped
  <2>2. \A i \in Ids : Left(r, i)' = rows[i] /\ store'[i] = store[i]
    BY <1>1, FlightTyped DEF Left, Visible, databaseVars
  <2>3. tracking' => Follows(r)'
    BY <1>1, <1>3, <2>1, <2>2 DEF Follows, Agrees, Live
  <2> QED BY <2>1, <2>3 DEF SerialAt
<1>4. CASE SubmitAdopt(r)
  <2>1. pc'[r] = "listing"
    BY <1>4 DEF SubmitAdopt, Begin, Types, PhaseTyped
  <2>2. Sofar(r)' = {}
    BY <1>1, <1>2 DEF Sofar, Fresh
  <2>3. FirstOnes(r)'
    BY <1>1, <1>2, <2>2, FS_EmptySet DEF FirstOnes
  <2> QED BY <2>1, <2>3 DEF SerialAt
<1> QED BY <1>3, <1>4

\* A step of a request that is alone.
LEMMA SerialOwn ==
  ASSUME Types, Types', Alone, NEW r \in InFlight \ met, SerialAt(r), tracking' = tracking,
         Applies(r) \/ Adopts(r) \/ Flush(r)
  PROVE  SerialAt(r)'
<1>1. r \in Requests /\ AloneAt(r)
  BY DEF InFlight, Alone
<1>2. CASE Write(r)
  <2>1. pc[r] = "applying"
    BY <1>2 DEF Write
  <2>2. PICK i \in Ids, c \in Contents \cup {None} : Executed(r, i, c)
    BY <1>1, <1>2, WriteExecutes
  <2>3. /\ pc'[r] = "answered" /\ store'[i] = c /\ answer'[r] = [id |-> i, content |-> c]
        /\ \A j \in Ids \ {i} : store'[j] = store[j]
        /\ UNCHANGED << databaseVars, sessionVars >>
    BY <1>1, <2>2 DEF Executed, Types, PhaseTyped, GatewayTyped
  <2>4. \A j \in Ids : Left(r, j)' = Left(r, j)
    BY <1>1, <2>3, SameLeft DEF sessionVars
  <2>5. tracking => \A j \in Ids \ {i} : Agrees(store[j], Left(r, j))
    BY <2>1 DEF SerialAt, Follows
  <2>6. tracking' => Follows(r)'
    BY <2>3, <2>4, <2>5 DEF Follows, Agrees, Live
  <2> QED BY <2>3, <2>6 DEF SerialAt
<1>3. CASE Touch(r)
  <2>1. PICK i \in Ids, c \in Contents \cup {None} :
           /\ i = answer[r].id /\ c = answer[r].content
           /\ pc[r] = "answered" /\ pc'[r] = "applying" /\ dirty[r] = {}
           /\ \A j \in Ids \ {i} : Left(r, j)' = Left(r, j)
           /\ Loaded(r, i) = Left(r, i) => Agrees(c, Left(r, i)')
    BY <1>1, <1>3, TouchLeaves
  <2>2. Loaded(r, i) = Left(r, i)
    BY <2>1, Undisturbed DEF Left
  <2>3. store' = store
    BY <1>3 DEF Touch, gatewayVars
  <2>4. tracking => /\ store[i] = c
                    /\ \A j \in Ids \ {i} : Agrees(store[j], Left(r, j))
    BY <2>1 DEF SerialAt, Follows
  <2>5. tracking => \A j \in Ids : Agrees(store[j], Left(r, j)')
    BY <2>1, <2>2, <2>4
  <2>6. tracking' => \A j \in Ids : Agrees(store[j], Left(r, j))'
    BY <2>3, <2>5 DEF Agrees, Live
  <2>7. pc'[r] = "applying"
    BY <2>1
  <2>8. tracking' => Follows(r)'
    BY <2>6, <2>7 DEF Follows
  <2> QED BY <2>7, <2>8 DEF SerialAt
<1>4. CASE EndLoop(r)
  <2>1. pc[r] = "applying" /\ pc'[r] = "finishing" /\ UNCHANGED << store, databaseVars, sessionVars >>
    BY <1>1, <1>4 DEF EndLoop, Types, PhaseTyped, gatewayVars
  <2>2. \A j \in Ids : Left(r, j)' = Left(r, j)
    BY <1>1, <2>1, SameLeft DEF sessionVars
  <2> QED BY <2>1, <2>2 DEF SerialAt, Follows, Agrees, Live
<1>5. CASE ListPage(r)
  <2>1. pc[r] = "listing"
    BY <1>5 DEF ListPage
  <2>2. FirstOnes(r)
    BY <2>1 DEF SerialAt
  <2>3. /\ pc'[r] = "listing" => FirstOnes(r)'
        /\ pc'[r] # "listing" => pc'[r] = "merging" /\ listed'[r] = store'
    BY <1>1, <1>5, <2>2, PageGoesOn
  <2> QED BY <2>3 DEF SerialAt
<1>6. CASE Merge(r) \/ Sweep(r)
  <2>1. pc[r] = "merging" /\ pc'[r] \in {"merging", "swept"} /\ UNCHANGED << listed, store >>
    BY <1>1, <1>6 DEF Merge, Sweep, Types, PhaseTyped, gatewayVars, listingVars
  <2> QED BY <2>1 DEF SerialAt
<1>7. CASE Flush(r)
  <2>1. /\ pc[r] \in {"answered", "merging", "finishing", "swept"}
        /\ UNCHANGED << store, pc, answer, listed >>
    BY <1>7 DEF Flush, MustFlush, gatewayVars, listingVars
  <2>2. \A j \in Ids : Left(r, j)' = Left(r, j)
    BY <1>7, FlushLeaves
  <2> QED BY <2>1, <2>2 DEF SerialAt, Follows, Agrees, Live
<1> QED BY <1>2, <1>3, <1>4, <1>5, <1>6, <1>7 DEF Applies, Adopts

\* What r commits agrees with the gateway.
LEMMA SerialCommit ==
  ASSUME Types, Alone, NEW r \in InFlight \ met, SerialAt(r), Commit(r), tracking'
  PROVE  \A i \in Ids : Agrees(store[i], rows[i])'
<1>1. AloneAt(r) /\ pc[r] \in {"finishing", "swept"} /\ dirty[r] = {} /\ store' = store
  BY DEF Alone, Commit, gatewayVars
<1>2. \A i \in Ids : rows'[i] = Left(r, i)
  BY <1>1 DEF Commit, Left, Visible
<1>3. CASE pc[r] = "swept"
  BY <1>1, <1>2, <1>3 DEF AloneAt, SerialAt, Agrees, Live
<1>4. CASE pc[r] = "finishing"
  <2>1. tracking
    BY <1>4 DEF Commit
  <2>2. \A i \in Ids : Agrees(store[i], Left(r, i))
    BY <1>4, <2>1 DEF SerialAt, Follows
  <2> QED BY <1>1, <1>2, <2>2 DEF Agrees, Live
<1> QED BY <1>1, <1>3, <1>4

\* Who has begun is never idle again.
LEMMA NeverAgain ==
  ASSUME Types, [Next]_vars, NEW r \in Requests, pc[r] # "idle"
  PROVE  pc'[r] # "idle"
<1>1. pc \in [Requests -> Stages]
  BY DEF Types, PhaseTyped
<1>2. ASSUME NEW s \in Requests, NEW how, how # "idle", pc' = [pc EXCEPT ![s] = how]
      PROVE  pc'[r] # "idle"
  BY <1>1, <1>2
<1>3. ASSUME NEW s \in Requests, Submit(s) \/ SubmitAdopt(s) \/ Applies(s) PROVE pc'[r] # "idle"
  BY <1>2, <1>3 DEF Submit, SubmitAdopt, Begin, Applies, Write, Touch, EndLoop
<1>4. ASSUME NEW s \in Requests, Adopts(s) PROVE pc'[r] # "idle"
  BY <1>2, <1>4 DEF Adopts, ListPage, Listed, Merge, Sweep
<1>5. ASSUME NEW s \in Requests, Session(s) \/ BreakDeadlock(s) PROVE pc'[r] # "idle"
  BY <1>2, <1>5 DEF Session, Flush, FlushFails, Commit, BreakDeadlock, Abort
<1> QED BY <1>3, <1>4, <1>5 DEF Next, Finished, ConsoleEdit, vars

LEMMA SerialStep ==
  ASSUME Types, Types', Alone, Serial, [Next]_vars
  PROVE  Serial'
<1> SUFFICES ASSUME met' = {}, ~edited'
             PROVE  /\ \A r \in Requests : SerialAt(r)'
                    /\ (tracking /\ InFlight = {} => \A i \in Ids : Agrees(store[i], rows[i]))'
  BY DEF Serial, SerialAt
<1>1. met = {}
  BY MetGrows
<1>2. ASSUME NEW r \in InFlight
      PROVE  /\ r \in Requests /\ AloneAt(r) /\ InFlight = {r} /\ r \notin met
             /\ UNCHANGED vars \/ Applies(r) \/ Adopts(r) \/ Flush(r) \/ Commit(r)
  BY OneAtATime DEF ConsoleEdit
<1>3. ASSUME NEW r \in InFlight PROVE ~edited
  <2>1. Applies(r) => edited' = edited
    BY DEF Applies, Write, Touch, EndLoop, gatewayVars
  <2>2. Adopts(r) => edited' = edited
    BY DEF Adopts, ListPage, Listed, Merge, Sweep, gatewayVars
  <2>3. Flush(r) \/ Commit(r) \/ UNCHANGED vars => edited' = edited
    BY DEF Flush, Commit, gatewayVars, vars
  <2> QED BY <1>2, <2>1, <2>2, <2>3
<1>4. ~edited => /\ \A r \in Requests : SerialAt(r)
                 /\ tracking /\ InFlight = {} => \A i \in Ids : Agrees(store[i], rows[i])
  BY <1>1 DEF Serial, SerialAt

<1>5. ASSUME NEW r \in Requests, r \notin InFlight PROVE SerialAt(r)'
  <2>1. CASE Submit(r) \/ SubmitAdopt(r)
    <3>1. InFlight = {} /\ (Submit(r) => ~edited)
      BY <2>1 DEF Submit, SubmitAdopt, Begin, gatewayVars
    <3>2. Submit(r) /\ tracking => \A i \in Ids : Agrees(store[i], rows[i])
      BY <1>4, <3>1
    <3> QED BY <1>5, <2>1, <3>2, SerialBegin
  <2>2. CASE pc'[r] = pc[r]
    BY <1>5, <2>2 DEF InFlight, Over, SerialAt
  <2> QED BY <1>5, <2>1, <2>2, Beginning
<1>6. ASSUME NEW r \in InFlight PROVE SerialAt(r)'
  <2>1. r \in Requests /\ r \notin met /\ SerialAt(r)
    BY <1>2, <1>3, <1>4
  <2>2. CASE UNCHANGED vars
    BY <2>1, <2>2 DEF SerialAt, FirstOnes, Sofar, Present, Follows, Agrees, Live, Left, Visible, vars
  <2>3. CASE Applies(r) \/ Adopts(r) \/ Flush(r)
    <3>1. tracking' = tracking
      BY <2>3 DEF Applies, Write, Touch, EndLoop, Adopts, ListPage, Listed, Merge, Sweep, Flush
    <3> QED BY <1>6, <2>1, <2>3, <3>1, SerialOwn
  <2>4. CASE Commit(r)
    <3>1. pc'[r] = "done"
      BY <2>1, <2>4 DEF Commit, Types, PhaseTyped
    <3> QED BY <3>1 DEF SerialAt
  <2> QED BY <1>2, <1>6, <2>2, <2>3, <2>4
<1>7. ASSUME tracking', InFlight' = {} PROVE \A i \in Ids : Agrees(store[i], rows[i])'
  <2>1. CASE InFlight = {}
    <3>1. ASSUME NEW r \in Requests, Submit(r) \/ SubmitAdopt(r) PROVE FALSE
      <4>1. pc'[r] \in {"applying", "listing"}
        BY <3>1 DEF Submit, SubmitAdopt, Begin, Types, PhaseTyped
      <4> QED BY <1>7, <4>1 DEF InFlight, Over
    <3>2. ASSUME NEW r \in Requests PROVE ~Applies(r) /\ ~Adopts(r) /\ ~Session(r) /\ ~BreakDeadlock(r)
      BY <2>1, Actors
    <3>3. ~ConsoleEdit
      BY DEF ConsoleEdit
    <3>4. UNCHANGED vars
      BY <3>1, <3>2, <3>3 DEF Next, Finished
    <3>5. \A i \in Ids : Agrees(store[i], rows[i])
      BY <1>4, <1>7, <2>1, <3>4 DEF vars
    <3> QED BY <3>4, <3>5 DEF vars, Agrees, Live
  <2>2. ASSUME NEW r \in InFlight PROVE \A i \in Ids : Agrees(store[i], rows[i])'
    <3>1. r \in Requests /\ r \notin met /\ SerialAt(r) /\ pc[r] \in Stages
      BY <1>2, <1>3, <1>4 DEF Types, PhaseTyped
    <3>2. pc'[r] \in Over
      <4>1. pc[r] # "idle"
        BY <2>2 DEF InFlight
      <4>2. r \notin InFlight' /\ pc'[r] # "idle"
        BY <1>7, <3>1, <4>1, NeverAgain
      <4> QED BY <3>1, <4>2 DEF InFlight
    <3>3. Commit(r)
      <4>1. ~UNCHANGED vars
        BY <1>7, <2>2 DEF InFlight, vars
      <4>2. ~Applies(r)
        BY <3>1, <3>2 DEF Applies, Write, Touch, EndLoop, Types, PhaseTyped, Over
      <4>3. ~ListPage(r)
        BY <3>1, <3>2, ListPageLists DEF Over
      <4>4. ~Merge(r) /\ ~Sweep(r)
        BY <3>1, <3>2 DEF Merge, Sweep, Types, PhaseTyped, Over
      <4>5. ~Flush(r)
        BY <3>1, <3>2 DEF Flush, MustFlush, Over
      <4> QED BY <1>2, <2>2, <4>1, <4>2, <4>3, <4>4, <4>5 DEF Adopts
    <3> QED BY <1>7, <2>2, <3>1, <3>3, SerialCommit
  <2> QED BY <2>1, <2>2
<1> QED BY <1>5, <1>6, <1>7

\* Drift shows what the console did and nothing else (NothingElseDrifts).
THEOREM OnlyTheConsoleDrifts == Spec => []NothingElseDrifts
<1>1. Init => IInv
  <2>1. Init => Alone
    BY DEF Init, Alone, InFlight, Over
  <2>2. Init => Serial
    BY DEF Init, Serial
  <2> QED BY <2>1, <2>2, InitTyped DEF IInv
<1>2. IInv /\ [Next]_vars => IInv'
  BY StepTyped, AloneStep, SerialStep DEF IInv
<1>3. IInv => NothingElseDrifts
  BY AgreesTogether DEF IInv, Serial, NothingElseDrifts
<1> QED BY <1>1, <1>2, <1>3, PTL DEF Spec
=============================================================================
