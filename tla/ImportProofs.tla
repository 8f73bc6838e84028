----------------------------- MODULE ImportProofs ---------------------------
(***************************************************************************)
(* What Import promises, for every source, every gateway and every number  *)
(* of previews, changes and failures.                                      *)
(***************************************************************************)
EXTENDS Import, ListTheorems

Keys(s) == {Key(r) : r \in ToSet(s)}

\* A list of records.
Typed(s) == s \in Seq(ToSet(s)) /\ \A r \in ToSet(s) : IsRecord(r)

\* What TypeOK says, with the lists as lists of records.
PlaceTyped ==
  /\ mode \in Modes \cup {"none"} /\ part \in 1 .. Len(Parts(mode)) /\ lines \in 0 .. MaxLines
  /\ \A r \in written : DOMAIN r = {"name", "type", "value"}

BoundsTyped ==
  /\ sources \in 0 .. Sources /\ previews \in 0 .. Previews
  /\ changes \in 0 .. Changes /\ failures \in 0 .. Failures

ListsTyped == Typed(imported) /\ Typed(policies) /\ Typed(existing) /\ Typed(todo)

PreviewTyped ==
  /\ buckets = [b \in Buckets |-> buckets[b]]
  /\ \A b \in Buckets : Typed(buckets[b])
  /\ \A b, c \in Buckets : b # c => ToSet(buckets[b]) \cap ToSet(buckets[c]) = {}

FlagsTyped == byDefault \in BOOLEAN /\ fresh \in BOOLEAN /\ complete \in BOOLEAN

PhaseTyped ==
  /\ pc \in {"empty", "reading", "read", "listed", "shown", "adding"}
  /\ pc \in {"empty", "reading", "read", "listed"} => buckets = NoPreview
  /\ todo # << >> => pc = "adding"

Types == PlaceTyped /\ BoundsTyped /\ ListsTyped /\ PreviewTyped /\ FlagsTyped /\ PhaseTyped

-----------------------------------------------------------------------------
(***************************************************************************)
(* Lists of records.                                                       *)
(***************************************************************************)

LEMMA TypedOf == ASSUME NEW T, NEW s \in Seq(T), \A r \in T : IsRecord(r) PROVE Typed(s)
BY OfItsOwn DEF Typed

LEMMA TypedEmpty == Typed(<< >>)
BY EmptyHas DEF Typed

LEMMA TypedJoin ==
  ASSUME NEW s, NEW t, Typed(s), Typed(t)
  PROVE  Typed(s \o t) /\ ToSet(s \o t) = ToSet(s) \cup ToSet(t)
<1> DEFINE T == ToSet(s) \cup ToSet(t)
<1>1. s \in Seq(T) /\ t \in Seq(T) /\ \A r \in T : IsRecord(r)
  BY SeqMonotonic DEF Typed
<1> HIDE DEF T
<1>2. s \o t \in Seq(T) /\ ToSet(s \o t) = ToSet(s) \cup ToSet(t)
  BY <1>1, JoinHas
<1> QED BY <1>1, <1>2, TypedOf

LEMMA TypedAppend ==
  ASSUME NEW s, NEW r, Typed(s), IsRecord(r)
  PROVE  Typed(Append(s, r)) /\ ToSet(Append(s, r)) = ToSet(s) \cup {r}
<1> DEFINE T == ToSet(s) \cup {r}
<1>1. s \in Seq(T) /\ r \in T /\ \A x \in T : IsRecord(x)
  BY SeqMonotonic DEF Typed
<1> HIDE DEF T
<1>2. Append(s, r) \in Seq(T) /\ ToSet(Append(s, r)) = ToSet(s) \cup {r}
  BY <1>1, AppendHas
<1> QED BY <1>1, <1>2, TypedOf

LEMMA TypedOnly == ASSUME NEW s, NEW S, Typed(s) PROVE Typed(Only(s, S))
<1>1. Only(s, S) \in Seq(ToSet(s))
  BY OnlyHas DEF Typed
<1> QED BY <1>1, TypedOf DEF Typed

LEMMA TypedOnce == ASSUME NEW s, Typed(s) PROVE Typed(Once(s))
<1>1. Once(s) \in Seq(ToSet(s))
  BY OnceHas DEF Typed
<1> QED BY <1>1, TypedOf DEF Typed

LEMMA TypedTail ==
  ASSUME NEW s, Typed(s), s # << >>
  PROVE  IsRecord(Head(s)) /\ Typed(Tail(s)) /\ ToSet(s) = {Head(s)} \cup ToSet(Tail(s))
<1>1. /\ Head(s) \in ToSet(s) /\ Tail(s) \in Seq(ToSet(s))
      /\ ToSet(s) = {Head(s)} \cup ToSet(Tail(s))
  BY HeadTailHas DEF Typed
<1> QED BY <1>1, TypedOf DEF Typed

LEMMA TypedRemoveAt ==
  ASSUME NEW s, Typed(s), NEW k \in DOMAIN s
  PROVE  Typed(RemoveAt(s, k)) /\ ToSet(RemoveAt(s, k)) \subseteq ToSet(s)
<1>1. RemoveAt(s, k) \in Seq(ToSet(s)) /\ ToSet(RemoveAt(s, k)) \subseteq ToSet(s)
  BY RemoveAtHas DEF Typed
<1> QED BY <1>1, TypedOf DEF Typed

LEMMA RecTyped ==
  ASSUME NEW n, NEW t \in Supported, NEW v
  PROVE  IsRecord(Rec(n, t, v))
BY DEF IsRecord, Rec

LEMMA TypedInOrder ==
  ASSUME Types
  PROVE  Typed(InOrder) /\ ToSet(InOrder) = UNION {ToSet(buckets[b]) : b \in Buckets}
<1> DEFINE n == buckets["new"]
           c == buckets["conflict"]
           s == buckets["shadowed"]
           d == buckets["duplicate"]
<1>1. Typed(n) /\ Typed(c) /\ Typed(s) /\ Typed(d)
  BY DEF Types, PreviewTyped, Buckets
<1>2. UNION {ToSet(buckets[b]) : b \in Buckets} = ToSet(n) \cup ToSet(c) \cup ToSet(s) \cup ToSet(d)
  BY DEF Buckets
<1>3. InOrder = n \o c \o s \o d
  BY DEF InOrder
<1> HIDE DEF n, c, s, d
<1>4. Typed(n \o c) /\ ToSet(n \o c) = ToSet(n) \cup ToSet(c)
  BY <1>1, TypedJoin
<1>5. Typed((n \o c) \o s) /\ ToSet((n \o c) \o s) = ToSet(n) \cup ToSet(c) \cup ToSet(s)
  BY <1>1, <1>4, TypedJoin
<1>6. /\ Typed(((n \o c) \o s) \o d)
      /\ ToSet(((n \o c) \o s) \o d) = ToSet(n) \cup ToSet(c) \cup ToSet(s) \cup ToSet(d)
  BY <1>1, <1>5, TypedJoin
<1> QED BY <1>2, <1>3, <1>6

-----------------------------------------------------------------------------
(***************************************************************************)
(* The types.                                                              *)
(***************************************************************************)

\* What TypeOK says of the lists follows from what Types says of each.
LEMMA TypesJoin ==
  ASSUME Typed(imported), Typed(policies), Typed(existing), Typed(todo)
  PROVE  \A r \in ToSet(imported \o policies \o existing \o todo) : IsRecord(r)
<1>1. Typed(imported \o policies)
  BY TypedJoin
<1>2. Typed((imported \o policies) \o existing)
  BY <1>1, TypedJoin
<1>3. Typed(((imported \o policies) \o existing) \o todo)
  BY <1>2, TypedJoin
<1> QED BY <1>3 DEF Typed

LEMMA NoPreviewTyped ==
  /\ NoPreview = [b \in Buckets |-> NoPreview[b]]
  /\ \A b \in Buckets : Typed(NoPreview[b]) /\ NoPreview[b] = << >> /\ ToSet(NoPreview[b]) = {}
BY TypedEmpty, EmptyHas DEF NoPreview

LEMMA TypesSuffice == Types => TypeOK
<1>1. ListsTyped => \A r \in ToSet(imported \o policies \o existing \o todo) : IsRecord(r)
  BY TypesJoin DEF ListsTyped
<1>2. FlagsTyped => {byDefault, fresh, complete} \subseteq BOOLEAN
  BY DEF FlagsTyped
<1>3. buckets = [b \in Buckets |-> buckets[b]] => DOMAIN buckets = Buckets
  OBVIOUS
<1> QED
  BY <1>1, <1>2, <1>3
  DEF Types, TypeOK, PlaceTyped, BoundsTyped, ListsTyped, PreviewTyped, PhaseTyped

LEMMA PartsHaveLength ==
  ASSUME NEW m
  PROVE  Len(Parts(m)) \in Nat \ {0}
BY DEF Parts

LEMMA NewSourceTyped ==
  ASSUME NewSource, mode' \in Modes \cup {"none"}
  PROVE  PlaceTyped'
<1>1. 1 \in 1 .. Len(Parts(mode')) /\ 0 \in 0 .. MaxLines
  BY PartsHaveLength, ImportAssumption
<1> QED BY <1>1 DEF NewSource, PlaceTyped

LEMMA InitTyped == Init => Types
<1> SUFFICES ASSUME Init PROVE Types
  OBVIOUS
<1>1. PlaceTyped
  <2>1. 1 \in 1 .. Len(Parts("none")) /\ 0 \in 0 .. MaxLines
    BY PartsHaveLength, ImportAssumption
  <2> QED BY <2>1 DEF Init, PlaceTyped
<1>2. BoundsTyped
  BY ImportAssumption DEF Init, BoundsTyped
<1>3. ListsTyped
  BY TypedEmpty, ImportAssumption DEF Init, ListsTyped, Typed
<1>4. PreviewTyped
  BY NoPreviewTyped DEF Init, PreviewTyped
<1>5. FlagsTyped /\ PhaseTyped
  BY DEF Init, FlagsTyped, PhaseTyped
<1> QED BY <1>1, <1>2, <1>3, <1>4, <1>5 DEF Types

\* A line of the source is read.
LEMMA ReadLineTyped == Types /\ ReadLine => Types'
<1> SUFFICES ASSUME Types, ReadLine PROVE Types'
  OBVIOUS
<1>1. PICK e \in Lines :
        \/ e.form = "host"   /\ ReadHost(e)
        \/ e.form = "cname"  /\ ReadCname(e)
        \/ e.form = "listed" /\ Absorb(e)
        \/ e.form = "origin" /\ ReadOrigin(e)
        \/ e.form = "entry"  /\ ReadEntry(e)
  BY DEF ReadLine
<1>2. Typed(imported)
  BY DEF Types, ListsTyped
<1>3. Typed(imported') /\ \A r \in written' : DOMAIN r = {"name", "type", "value"}
  <2>1. \A r \in written : DOMAIN r = {"name", "type", "value"}
    BY DEF Types, PlaceTyped
  <2>2. CASE e.form = "host" /\ ReadHost(e)
    <3> DEFINE names == Only(e.names, ToSet(e.names) \ {Localhost})
               read  == [k \in 1 .. Len(names) |-> Rec(names[k], e.type, e.value)]
    <3>1. e.type \in Supported /\ e.names \in Seq(ToSet(e.names))
      BY <2>2, ImportAssumption
    <3>2. Len(names) \in Nat
      BY <3>1, OnlyHas, LenProperties
    <3> HIDE DEF names
    <3> DEFINE T == {Rec(names[k], e.type, e.value) : k \in 1 .. Len(names)}
    <3>3. read \in Seq(T)
      BY <3>2, IsASeq
    <3>4. \A r \in T : IsRecord(r)
      BY <3>1, RecTyped
    <3>5. Typed(read)
      <4> HIDE DEF read, T
      <4> QED BY <3>3, <3>4, TypedOf
    <3>6. imported' \in {imported, imported \o read} /\ written' = written
      BY <2>2 DEF ReadHost, names
    <3> HIDE DEF read
    <3>7. Typed(imported \o read)
      BY <1>2, <3>5, TypedJoin
    <3> QED BY <1>2, <2>1, <3>6, <3>7
  <2>3. CASE e.form = "cname" /\ ReadCname(e)
    <3>1. IsRecord(Rec(e.name, "CNAME", e.value))
      BY RecTyped, ImportAssumption
    <3> QED BY <1>2, <2>1, <2>3, <3>1, TypedAppend DEF ReadCname
  <2>4. CASE e.form = "listed" /\ Absorb(e)
    <3>1. e.type \in Supported => IsRecord(Rec(e.name, e.type, e.value))
      BY RecTyped
    <3> QED BY <1>2, <2>1, <2>4, <3>1, TypedAppend DEF Absorb
  <2>5. CASE e.form = "origin" /\ ReadOrigin(e)
    BY <1>2, <2>1, <2>5 DEF ReadOrigin
  <2>6. CASE e.form = "entry" /\ ReadEntry(e)
    <3>1. e.type \in Supported => IsRecord(Rec(Qualify(Owner(e)), e.type, ValueOf(e)))
      BY RecTyped
    <3>2. Typed(imported')
      BY <1>2, <2>6, <3>1, TypedAppend DEF ReadEntry
    <3>3. written' = written \cup {Rec(owner', e.type, ValueOf(e))}
      BY <2>6 DEF ReadEntry
    <3> QED BY <2>1, <3>2, <3>3 DEF Rec
  <2> QED BY <1>1, <2>2, <2>3, <2>4, <2>5, <2>6
<1>4. PlaceTyped'
  <2>1. lines \in 0 .. MaxLines /\ lines < MaxLines /\ MaxLines \in Nat
    BY ImportAssumption DEF Types, PlaceTyped, ReadLine
  <2>2. lines' \in 0 .. MaxLines
    BY <2>1 DEF ReadLine
  <2> QED BY <1>3, <2>2 DEF Types, PlaceTyped, ReadLine
<1>5. UNCHANGED << policies, clients, existing, buckets, todo, byDefault, fresh, complete, pc,
                   sources, previews, changes, failures >>
  BY DEF ReadLine, gatewayVars, previewVars, importVars, boundVars
<1> QED BY <1>3, <1>4, <1>5
        DEF Types, BoundsTyped, ListsTyped, PreviewTyped, FlagsTyped, PhaseTyped

\* The preview is gone.
LEMMA NoPreviewIsTyped == ASSUME buckets' = NoPreview PROVE PreviewTyped'
BY NoPreviewTyped DEF PreviewTyped

\* The preview sorts each record into one bucket.
LEMMA ClassifyTyped == Types /\ Classify => Types'
<1> SUFFICES ASSUME Types, Classify PROVE Types'
  OBVIOUS
<1> DEFINE chosen(b) == {r \in ToSet(imported) : Valid(r) /\ Bucket(r) = b}
<1>1. buckets' = [b \in Buckets |-> Only(Firsts, chosen(b))]
  BY DEF Classify
<1>2. Typed(Firsts)
  BY TypedOnce DEF Firsts, Types, ListsTyped
<1>3. \A b \in Buckets : Typed(buckets'[b]) /\ ToSet(buckets'[b]) = ToSet(Firsts) \cap chosen(b)
  <2> HIDE DEF chosen
  <2> QED BY <1>1, <1>2, TypedOnly, OnlyHas DEF Typed
<1>4. \A b, c \in Buckets : b # c => chosen(b) \cap chosen(c) = {}
  OBVIOUS
<1>5. PreviewTyped'
  <2>1. buckets' = [b \in Buckets |-> buckets'[b]]
    BY <1>1
  <2> HIDE DEF chosen
  <2> QED BY <1>3, <1>4, <2>1 DEF PreviewTyped
<1> QED BY <1>5 DEF Types, Classify, sourceVars, importVars, boundVars, PlaceTyped, BoundsTyped,
                    ListsTyped, FlagsTyped, PhaseTyped, gatewayVars

LEMMA ApplyTyped == Types /\ Apply => Types'
<1> SUFFICES ASSUME Types, Apply PROVE Types'
  OBVIOUS
<1>1. PICK picked : todo' = Only(InOrder, picked) /\ byDefault' = (picked = ToSet(buckets["new"]))
  BY DEF Apply
<1>2. Typed(todo')
  BY <1>1, TypedInOrder, TypedOnly
<1>3. ListsTyped' /\ FlagsTyped' /\ PhaseTyped'
  BY <1>1, <1>2 DEF Types, Apply, sourceVars, gatewayVars, previewVars, ListsTyped, FlagsTyped, PhaseTyped
<1> QED BY <1>3 DEF Types, Apply, sourceVars, gatewayVars, previewVars, boundVars, PlaceTyped,
                    BoundsTyped, PreviewTyped

LEMMA AddTyped == Types /\ Add => Types'
<1> SUFFICES ASSUME Types, Add PROVE Types'
  OBVIOUS
<1>1. IsRecord(Head(todo)) /\ Typed(Tail(todo))
  BY TypedTail DEF Types, ListsTyped, Add
<1>2. Typed(policies') /\ Typed(todo')
  BY <1>1, TypedAppend DEF Types, ListsTyped, Add
<1> QED BY <1>2 DEF Types, Add, sourceVars, previewVars, boundVars, PlaceTyped, BoundsTyped,
                    PreviewTyped, ListsTyped, FlagsTyped, PhaseTyped

LEMMA DoneTyped == Types /\ Done => Types'
<1> SUFFICES ASSUME Types, Done PROVE Types'
  OBVIOUS
<1>1. PreviewTyped'
  BY NoPreviewIsTyped DEF Done
<1>2. ListsTyped' /\ FlagsTyped' /\ PhaseTyped'
  BY TypedEmpty DEF Types, Done, sourceVars, gatewayVars, ListsTyped, FlagsTyped, PhaseTyped
<1> QED BY <1>1, <1>2 DEF Types, Done, sourceVars, gatewayVars, boundVars, PlaceTyped, BoundsTyped

LEMMA FailTyped == Types /\ Fail => Types'
<1> SUFFICES ASSUME Types, Fail PROVE Types'
  OBVIOUS
<1>1. IsRecord(Head(todo))
  BY TypedTail DEF Types, ListsTyped, Fail
<1>2. Typed(policies')
  BY <1>1, TypedAppend DEF Types, ListsTyped, Fail
<1>3. PreviewTyped' /\ Typed(existing')
  BY NoPreviewIsTyped, TypedEmpty DEF Types, ListsTyped, Fail, previewVars, PreviewTyped
<1>4. BoundsTyped'
  BY ImportAssumption DEF Types, BoundsTyped, Fail
<1> QED BY <1>2, <1>3, <1>4, TypedEmpty
        DEF Types, Fail, sourceVars, PlaceTyped, ListsTyped, FlagsTyped, PhaseTyped

LEMMA ElsewhereTyped == Types /\ Elsewhere => Types'
<1> SUFFICES ASSUME Types, Elsewhere PROVE Types'
  OBVIOUS
<1>1. Typed(policies)
  BY DEF Types, ListsTyped
<1>2. Typed(policies')
  <2>1. ASSUME NEW r \in Others PROVE Typed(Append(policies, r))
    BY <1>1, TypedAppend, ImportAssumption
  <2>2. ASSUME NEW k \in DOMAIN policies PROVE Typed(RemoveAt(policies, k))
    BY <1>1, TypedRemoveAt
  <2> QED BY <1>1, <2>1, <2>2 DEF Elsewhere
<1>3. BoundsTyped'
  BY ImportAssumption DEF Types, BoundsTyped, Elsewhere
<1> QED BY <1>2, <1>3 DEF Types, Elsewhere, sourceVars, previewVars, PlaceTyped, ListsTyped,
                          PreviewTyped, FlagsTyped, PhaseTyped

\* A preview is asked for, the source is read to its end, or cannot be read.
LEMMA SourceTyped == Types /\ (Start \/ Again \/ NextPart \/ SourceFails) => Types'
<1> SUFFICES ASSUME Types PROVE Start \/ Again \/ NextPart \/ SourceFails => Types'
  OBVIOUS
<1>1. CASE Start
  <2>1. PlaceTyped' /\ PreviewTyped'
    BY <1>1, NewSourceTyped, NoPreviewIsTyped DEF Start
  <2>2. BoundsTyped'
    BY <1>1, ImportAssumption DEF Types, BoundsTyped, Start
  <2> QED BY <1>1, <2>1, <2>2, TypedEmpty
          DEF Types, Start, gatewayVars, ListsTyped, FlagsTyped, PhaseTyped
<1>2. CASE Again
  <2>1. BoundsTyped' /\ PreviewTyped'
    BY <1>2, ImportAssumption, NoPreviewIsTyped DEF Types, BoundsTyped, Again
  <2> QED BY <1>2, <2>1, TypedEmpty DEF Types, Again, sourceVars, gatewayVars, importVars,
                                        PlaceTyped, ListsTyped, FlagsTyped, PhaseTyped
<1>3. CASE NextPart
  <2>1. PlaceTyped'
    <3>1. CASE part < Len(Parts(mode)) /\ part' = part + 1 /\ UNCHANGED << mode, lines, written >>
      BY <3>1, PartsHaveLength DEF Types, PlaceTyped
    <3>2. CASE mode' = "none" /\ NewSource
      BY <3>2, NewSourceTyped
    <3> QED BY <1>3, <3>1, <3>2 DEF NextPart
  <2> QED BY <1>3, <2>1 DEF Types, NextPart, gatewayVars, previewVars, importVars, boundVars,
                            ListsTyped, PreviewTyped, FlagsTyped, PhaseTyped, BoundsTyped
<1>4. CASE SourceFails
  <2>1. PlaceTyped' /\ BoundsTyped'
    BY <1>4, NewSourceTyped, ImportAssumption DEF Types, BoundsTyped, SourceFails
  <2> QED BY <1>4, <2>1, TypedEmpty DEF Types, SourceFails, gatewayVars, previewVars, importVars,
                                        ListsTyped, PreviewTyped, FlagsTyped, PhaseTyped
<1> QED BY <1>1, <1>2, <1>3, <1>4

LEMMA StepTyped == Types /\ [Next]_vars => Types'
<1>1. Types /\ ListPolicies => Types'
  BY DEF Types, ListPolicies, sourceVars, gatewayVars, boundVars, PlaceTyped, BoundsTyped,
         ListsTyped, PreviewTyped, FlagsTyped, PhaseTyped
<1>2. Types /\ UNCHANGED vars => Types'
  BY DEF Types, vars, sourceVars, gatewayVars, previewVars, importVars, boundVars, PlaceTyped,
         BoundsTyped, ListsTyped, PreviewTyped, FlagsTyped, PhaseTyped
<1> QED BY <1>1, <1>2, SourceTyped, ReadLineTyped, ClassifyTyped, ApplyTyped, AddTyped, DoneTyped,
           FailTyped, ElsewhereTyped DEF Next, Finished

\* Every variable keeps its type, and a preview sorts each record into one bucket.
THEOREM TypeCorrect == Spec => []TypeOK
BY InitTyped, StepTyped, TypesSuffice, PTL DEF Spec

-----------------------------------------------------------------------------
(***************************************************************************)
(* What is picked already is safe and complete.  While nobody else changes *)
(* the gateway its records are those the preview has listed and those the  *)
(* import has added; no record is in the list of new ones twice, and each  *)
(* has a name and type that nothing listed has.                            *)
(***************************************************************************)

\* The name or the name and type of r was there when the preview was made.
Answered(r) == r.name \in clients \/ Key(r) \in Keys(existing)

NewIsNew(s) == \A r \in ToSet(s) : Key(r) \notin Keys(existing) /\ (fresh => r.name \notin clients)

Safe ==
  /\ \A b \in Buckets : IsInjective(buckets[b])
  /\ IsInjective(todo)
  /\ fresh /\ pc \in {"listed", "shown"} => policies = existing
  /\ NewIsNew(buckets["new"])
  /\ pc = "adding" /\ byDefault =>
       NewIsNew(todo) /\ (fresh => ToSet(todo) \cap ToSet(policies) = {})

Thorough ==
  /\ fresh /\ pc = "shown" =>
       \A r \in ToSet(imported) : Valid(r) => r \in ToSet(buckets["new"]) \/ Answered(r)
  /\ fresh /\ pc = "adding" => ToSet(existing) \subseteq ToSet(policies)
  /\ fresh /\ pc = "adding" /\ byDefault =>
       \A r \in ToSet(imported) :
         Valid(r) => r \in ToSet(todo) \/ r \in ToSet(policies) \/ Answered(r)

\* What an import that is complete leaves for the next one.
Settled ==
  /\ complete => /\ pc # "reading"
                 /\ \A r \in ToSet(imported) :
                      Valid(r) => r.name \in clients \/ Key(r) \in Keys(policies)
  /\ complete /\ pc = "listed" => \A r \in ToSet(imported) : Valid(r) => Answered(r)
  /\ complete /\ pc \in {"shown", "adding"} => buckets["new"] = << >>

IInv == Types /\ Safe /\ Thorough /\ Settled

LEMMA NewIsBucket == "new" \in Buckets
BY DEF Buckets

LEMMA NoPreviewHas ==
  /\ \A b \in Buckets : NoPreview[b] = << >> /\ IsInjective(NoPreview[b])
  /\ NoPreview["new"] = << >> /\ ToSet(NoPreview["new"]) = {}
BY NewIsBucket, EmptyHas DEF NoPreview

LEMMA InitHolds == Init => IInv
<1> SUFFICES ASSUME Init PROVE IInv
  OBVIOUS
<1>1. Safe
  BY NoPreviewHas, EmptyHas DEF Init, Safe, NewIsNew
<1>2. Thorough /\ Settled
  BY DEF Init, Thorough, Settled
<1> QED BY <1>1, <1>2, InitTyped DEF IInv

\* No preview, and nothing to add.
LEMMA ClearKeeps ==
  ASSUME IInv, buckets' = NoPreview, todo' = todo \/ todo' = << >>, pc' \in {"empty", "reading", "read"},
         complete' => /\ pc' # "reading"
                      /\ \A r \in ToSet(imported') :
                           Valid(r) => r.name \in clients' \/ Key(r) \in Keys(policies')
  PROVE  Safe' /\ Thorough' /\ Settled'
<1>1. Safe'
  BY NoPreviewHas, EmptyHas DEF IInv, Safe, NewIsNew
<1> QED BY <1>1 DEF Thorough, Settled, Keys

\* While a source is read or the records are listed there is no preview.
LEMMA SourceKeeps ==
  IInv /\ (Start \/ Again \/ ReadLine \/ NextPart \/ SourceFails) => Safe' /\ Thorough' /\ Settled'
<1> SUFFICES ASSUME IInv PROVE Start \/ Again \/ ReadLine \/ NextPart \/ SourceFails
                               => Safe' /\ Thorough' /\ Settled'
  OBVIOUS
<1>1. CASE Start
  BY <1>1, ClearKeeps DEF Start
<1>2. CASE Again
  <2>1. UNCHANGED << imported, policies, clients, complete, todo >> /\ pc' = "read" /\ buckets' = NoPreview
    BY <1>2 DEF Again, sourceVars, gatewayVars, importVars
  <2> QED BY <2>1, ClearKeeps DEF IInv, Settled, Keys
<1>3. CASE ReadLine
  <2>1. /\ UNCHANGED << buckets, todo, complete, pc >> /\ pc = "reading"
        /\ buckets = NoPreview
    BY <1>3 DEF ReadLine, previewVars, importVars, IInv, Types, PhaseTyped
  <2>2. ~complete'
    BY <2>1 DEF IInv, Settled
  <2> QED BY <2>1, <2>2, ClearKeeps
<1>4. CASE NextPart
  <2>1. /\ UNCHANGED << buckets, todo, complete >> /\ pc = "reading" /\ pc' \in {"reading", "read"}
        /\ buckets = NoPreview
    BY <1>4 DEF NextPart, previewVars, importVars, IInv, Types, PhaseTyped
  <2>2. ~complete'
    BY <2>1 DEF IInv, Settled
  <2> QED BY <2>1, <2>2, ClearKeeps
<1>5. CASE SourceFails
  <2>1. /\ UNCHANGED << buckets, todo, complete >> /\ pc = "reading" /\ pc' = "empty"
        /\ buckets = NoPreview
    BY <1>5 DEF SourceFails, previewVars, importVars, IInv, Types, PhaseTyped
  <2>2. ~complete'
    BY <2>1 DEF IInv, Settled
  <2> QED BY <2>1, <2>2, ClearKeeps
<1> QED BY <1>1, <1>2, <1>3, <1>4, <1>5

\* The records are listed.
LEMMA ListPoliciesKeeps == IInv /\ ListPolicies => Safe' /\ Thorough' /\ Settled'
<1> SUFFICES ASSUME IInv, ListPolicies PROVE Safe' /\ Thorough' /\ Settled'
  OBVIOUS
<1>1. /\ UNCHANGED << imported, policies, clients, buckets, todo, byDefault, complete >>
      /\ existing' = policies /\ pc' = "listed" /\ buckets = NoPreview
  BY DEF ListPolicies, sourceVars, gatewayVars, IInv, Types, PhaseTyped
<1>2. Safe'
  BY <1>1, NoPreviewHas DEF IInv, Safe, NewIsNew
<1>3. Settled'
  BY <1>1 DEF IInv, Settled, Answered, Keys
<1> QED BY <1>1, <1>2, <1>3 DEF Thorough

\* What is new has a name and type that nothing listed has.
LEMMA ClassifyKeeps == IInv /\ Classify => Safe' /\ Thorough' /\ Settled'
<1> SUFFICES ASSUME IInv, Classify PROVE Safe' /\ Thorough' /\ Settled'
  OBVIOUS
<1> DEFINE chosen(b) == {r \in ToSet(imported) : Valid(r) /\ Bucket(r) = b}
<1>1. /\ UNCHANGED << imported, policies, clients, existing, todo, byDefault, fresh, complete >>
      /\ pc = "listed" /\ pc' = "shown"
  BY DEF Classify, sourceVars, gatewayVars, importVars
<1>2. imported \in Seq(ToSet(imported))
  BY DEF IInv, Types, ListsTyped, Typed
<1>3. ASSUME NEW b \in Buckets
      PROVE  IsInjective(buckets'[b]) /\ ToSet(buckets'[b]) = chosen(b)
  <2>1. buckets'[b] = Only(Firsts, chosen(b))
    BY DEF Classify
  <2>2. /\ Firsts \in Seq(ToSet(imported)) /\ ToSet(Firsts) = ToSet(imported)
        /\ IsInjective(Firsts)
    BY <1>2, OnceHas DEF Firsts
  <2>3. chosen(b) \subseteq ToSet(imported)
    OBVIOUS
  <2> HIDE DEF chosen
  <2>4. /\ ToSet(Only(Firsts, chosen(b))) = ToSet(Firsts) \cap chosen(b)
        /\ IsInjective(Only(Firsts, chosen(b)))
    BY <2>2, OnlyHas
  <2> QED BY <2>1, <2>2, <2>3, <2>4
<1>4. \A r : Bucket(r) = "new" <=> ~Answered(r)
  BY DEF Bucket, Answered, Keys
<1>5. ToSet(buckets'["new"]) = {r \in ToSet(imported) : Valid(r) /\ ~Answered(r)}
  BY <1>3, <1>4, NewIsBucket
<1>6. Safe'
  <2>1. NewIsNew(buckets["new"])'
    BY <1>1, <1>5 DEF NewIsNew, Answered, Keys
  <2> QED BY <1>1, <1>3, <2>1 DEF IInv, Safe
<1>7. Thorough'
  BY <1>1, <1>5 DEF Thorough, Answered, Keys
<1>8. Settled'
  <2>1. ASSUME complete' PROVE buckets'["new"] = << >>
    <3>1. ToSet(buckets'["new"]) = {}
      BY <1>1, <1>5, <2>1 DEF IInv, Settled
    <3>2. Typed(buckets'["new"])
      BY ClassifyTyped, NewIsBucket DEF IInv, Types, PreviewTyped
    <3> QED BY <3>1, <3>2, NothingIn DEF Typed
  <2> QED BY <1>1, <2>1 DEF IInv, Settled, Keys
<1> QED BY <1>6, <1>7, <1>8

\* Picking keeps the order and repeats nothing.
LEMMA ApplyKeeps == IInv /\ Apply => Safe' /\ Thorough' /\ Settled'
<1> SUFFICES ASSUME IInv, Apply PROVE Safe' /\ Thorough' /\ Settled'
  OBVIOUS
<1>1. PICK picked : /\ todo' = Only(InOrder, picked) /\ picked \subseteq ToSet(InOrder)
                    /\ byDefault' = (picked = ToSet(buckets["new"]))
  BY DEF Apply
<1>2. /\ UNCHANGED << imported, policies, clients, existing, buckets, fresh, complete >>
      /\ pc = "shown" /\ pc' = "adding"
  BY DEF Apply, sourceVars, gatewayVars, previewVars
<1>3. IsInjective(InOrder)
  <2> DEFINE n == buckets["new"]
             c == buckets["conflict"]
             s == buckets["shadowed"]
             d == buckets["duplicate"]
  <2>1. /\ Typed(n) /\ Typed(c) /\ Typed(s) /\ Typed(d)
        /\ IsInjective(n) /\ IsInjective(c) /\ IsInjective(s) /\ IsInjective(d)
    BY DEF IInv, Types, PreviewTyped, Safe, Buckets
  <2>2. /\ ToSet(n) \cap ToSet(c) = {} /\ ToSet(n) \cap ToSet(s) = {} /\ ToSet(n) \cap ToSet(d) = {}
        /\ ToSet(c) \cap ToSet(s) = {} /\ ToSet(c) \cap ToSet(d) = {} /\ ToSet(s) \cap ToSet(d) = {}
    BY DEF IInv, Types, PreviewTyped, Buckets
  <2>3. InOrder = ((n \o c) \o s) \o d
    BY DEF InOrder
  <2> HIDE DEF n, c, s, d
  <2>4. ASSUME NEW x, NEW y, Typed(x), Typed(y), IsInjective(x), IsInjective(y),
               ToSet(x) \cap ToSet(y) = {}
        PROVE  Typed(x \o y) /\ IsInjective(x \o y) /\ ToSet(x \o y) = ToSet(x) \cup ToSet(y)
    <3> DEFINE T == ToSet(x) \cup ToSet(y)
    <3>1. x \in Seq(T) /\ y \in Seq(T)
      BY <2>4, SeqMonotonic DEF Typed
    <3> HIDE DEF T
    <3> QED BY <2>4, <3>1, JoinHas, TypedJoin
  <2>5. Typed(n \o c) /\ IsInjective(n \o c) /\ ToSet(n \o c) = ToSet(n) \cup ToSet(c)
    BY <2>1, <2>2, <2>4
  <2>6. /\ Typed((n \o c) \o s) /\ IsInjective((n \o c) \o s)
        /\ ToSet((n \o c) \o s) = ToSet(n) \cup ToSet(c) \cup ToSet(s)
    <3>1. ToSet(n \o c) \cap ToSet(s) = {}
      BY <2>2, <2>5
    <3> QED BY <2>1, <2>4, <2>5, <3>1
  <2>7. ToSet((n \o c) \o s) \cap ToSet(d) = {}
    BY <2>2, <2>6
  <2> QED BY <2>1, <2>3, <2>4, <2>6, <2>7
<1>4. /\ IsInjective(todo') /\ ToSet(todo') = picked
  <2>1. InOrder \in Seq(ToSet(InOrder))
    BY TypedInOrder DEF IInv, Typed
  <2>2. /\ ToSet(Only(InOrder, picked)) = ToSet(InOrder) \cap picked
        /\ IsInjective(InOrder) => IsInjective(Only(InOrder, picked))
    BY <2>1, OnlyHas
  <2> QED BY <1>1, <1>3, <2>2
<1>5. byDefault' => ToSet(todo') = ToSet(buckets["new"])
  BY <1>1, <1>4
<1>6. fresh => policies = existing
  BY <1>2 DEF IInv, Safe
<1>7. Safe'
  <2>1. byDefault' => NewIsNew(todo)'
    BY <1>2, <1>5 DEF IInv, Safe, NewIsNew, Keys
  <2>2. byDefault' /\ fresh => ToSet(todo') \cap ToSet(policies) = {}
    BY <1>5, <1>6 DEF IInv, Safe, NewIsNew, Keys
  <2> QED BY <1>2, <1>4, <2>1, <2>2 DEF IInv, Safe, NewIsNew, Keys
<1>8. Thorough'
  BY <1>2, <1>5, <1>6 DEF IInv, Thorough, Answered, Keys
<1>9. Settled'
  BY <1>2 DEF IInv, Settled, Answered, Keys
<1> QED BY <1>7, <1>8, <1>9

\* A record is added: it is in the gateway now, and no longer in the list.
LEMMA AddKeeps == IInv /\ Add => Safe' /\ Thorough' /\ Settled'
<1> SUFFICES ASSUME IInv, Add PROVE Safe' /\ Thorough' /\ Settled'
  OBVIOUS
<1>1. /\ UNCHANGED << imported, clients, existing, buckets, byDefault, fresh, complete, pc >>
      /\ pc = "adding" /\ todo # << >> /\ todo' = Tail(todo)
      /\ policies' = Append(policies, Head(todo))
  BY DEF Add, sourceVars, previewVars
<1>2. Typed(todo) /\ Typed(policies) /\ IsInjective(todo)
  BY DEF IInv, Types, ListsTyped, Safe
<1>3. /\ ToSet(todo) = {Head(todo)} \cup ToSet(todo')
      /\ Head(todo) \notin ToSet(todo') /\ IsInjective(todo')
  BY <1>1, <1>2, HeadTailHas DEF Typed
<1>4. ToSet(policies') = ToSet(policies) \cup {Head(todo)}
  BY <1>1, <1>2, TypedTail, TypedAppend
<1>5. Safe'
  BY <1>1, <1>3, <1>4 DEF IInv, Safe, NewIsNew, Keys
<1>6. Thorough'
  BY <1>1, <1>3, <1>4 DEF IInv, Thorough, Answered, Keys
<1>7. Settled'
  BY <1>1, <1>4 DEF IInv, Settled, Answered, Keys
<1> QED BY <1>5, <1>6, <1>7

\* What was picked already has been added: nothing is new for the next preview.
LEMMA DoneKeeps == IInv /\ Done => Safe' /\ Thorough' /\ Settled'
<1> SUFFICES ASSUME IInv, Done PROVE Safe' /\ Thorough' /\ Settled'
  OBVIOUS
<1>1. /\ UNCHANGED << imported, policies, clients, todo >> /\ todo = << >>
      /\ pc = "adding" /\ pc' = "empty" /\ buckets' = NoPreview
      /\ complete' = (complete \/ (byDefault /\ fresh))
  BY DEF Done, sourceVars, gatewayVars
<1>2. ASSUME byDefault, fresh, NEW r \in ToSet(imported), Valid(r)
      PROVE  r.name \in clients \/ Key(r) \in Keys(policies)
  <2>1. r \in ToSet(policies) \/ Answered(r)
    BY <1>1, <1>2, EmptyHas DEF IInv, Thorough
  <2>2. Keys(existing) \subseteq Keys(policies)
    BY <1>1, <1>2 DEF IInv, Thorough, Keys
  <2> QED BY <2>1, <2>2 DEF Answered, Keys
<1>3. ASSUME complete, NEW r \in ToSet(imported), Valid(r)
      PROVE  r.name \in clients \/ Key(r) \in Keys(policies)
  BY <1>3 DEF IInv, Settled
<1>4. complete' => \A r \in ToSet(imported') :
                      Valid(r) => r.name \in clients' \/ Key(r) \in Keys(policies')
  BY <1>1, <1>2, <1>3 DEF Keys
<1> QED BY <1>1, <1>4, ClearKeeps

\* A write fails, or others change the gateway: the preview is no longer fresh.
LEMMA StaleKeeps ==
  ASSUME IInv, Fail \/ Elsewhere
  PROVE  Safe' /\ Thorough' /\ Settled'
<1>1. CASE Elsewhere
  <2>1. /\ UNCHANGED << pc, existing, buckets, todo, byDefault >> /\ ~fresh' /\ ~complete'
    BY <1>1 DEF Elsewhere, previewVars
  <2>2. Safe'
    BY <2>1 DEF IInv, Safe, NewIsNew, Keys
  <2> QED BY <2>1, <2>2 DEF Thorough, Settled
<1>2. CASE Fail
  <2>1. /\ UNCHANGED << imported, clients, complete >> /\ ~fresh' /\ todo' = << >>
        /\ pc = "adding" /\ todo # << >> /\ Typed(policies) /\ Typed(todo)
    BY <1>2 DEF Fail, sourceVars, IInv, Types, ListsTyped
  <2>2. policies' \in {policies, Append(policies, Head(todo))}
    BY <1>2 DEF Fail
  <2>3. ToSet(policies) \subseteq ToSet(policies')
    <3>1. IsRecord(Head(todo))
      BY <2>1, TypedTail
    <3>2. ToSet(Append(policies, Head(todo))) = ToSet(policies) \cup {Head(todo)}
      BY <2>1, <3>1, TypedAppend
    <3> QED BY <2>2, <3>2
  <2>4. complete' => \A r \in ToSet(imported') :
                        Valid(r) => r.name \in clients' \/ Key(r) \in Keys(policies')
    BY <2>1, <2>3 DEF IInv, Settled, Keys
  <2>5. CASE pc' = "empty" /\ buckets' = NoPreview
    BY <2>1, <2>4, <2>5, ClearKeeps
  <2>6. CASE pc' = "shown" /\ UNCHANGED previewVars
    <3>1. Safe'
      BY <2>1, <2>6, EmptyHas DEF IInv, Safe, NewIsNew, Keys, previewVars
    <3>2. Settled'
      BY <2>1, <2>4, <2>6 DEF IInv, Settled, previewVars
    <3> QED BY <2>1, <2>6, <3>1, <3>2 DEF Thorough
  <2> QED BY <1>2, <2>5, <2>6 DEF Fail
<1> QED BY <1>1, <1>2

LEMMA StepKeeps == IInv /\ [Next]_vars => IInv'
<1> SUFFICES ASSUME IInv, [Next]_vars PROVE Safe' /\ Thorough' /\ Settled'
  BY StepTyped DEF IInv
<1>1. CASE UNCHANGED vars
  BY <1>1 DEF vars, sourceVars, gatewayVars, previewVars, importVars, IInv, Safe, Thorough, Settled,
              NewIsNew, Answered, Keys
<1> QED BY <1>1, SourceKeeps, ListPoliciesKeeps, ClassifyKeeps, ApplyKeeps, AddKeeps, DoneKeeps,
           StaleKeeps DEF Next, Finished

\* The inductive invariant holds throughout.
THEOREM Inductive == Spec => []IInv
BY InitHolds, StepKeeps, PTL DEF Spec

\* What is picked already adds no record twice and gives no second answer to a name that
\* had one, as long as nobody else changes the gateway (preview, "Creating a policy record
\* too would give the gateway two answers").
THEOREM DefaultSafe == Spec => DefaultIsSafe
<1>1. ASSUME IInv, Add, byDefault, fresh
      PROVE  LET r == Head(todo)
             IN  /\ r \notin ToSet(policies)
                 /\ Key(r) \notin {Key(x) : x \in ToSet(existing)}
                 /\ r.name \notin clients
  <2>1. pc = "adding" /\ Head(todo) \in ToSet(todo)
    BY <1>1, TypedTail DEF Add, IInv, Types, ListsTyped
  <2> QED BY <1>1, <2>1 DEF IInv, Safe, NewIsNew, Keys
<1>2. IInv => (Add /\ byDefault /\ fresh =>
                 LET r == Head(todo)
                 IN  /\ r \notin ToSet(policies)
                     /\ Key(r) \notin {Key(x) : x \in ToSet(existing)}
                     /\ r.name \notin clients)
  BY <1>1
<1> QED BY <1>2, Inductive, PTL DEF DefaultIsSafe

\* Nor does it leave anything behind that the gateway would take and had no answer for.
THEOREM ImportComplete == Spec => ImportIsComplete
<1>1. ASSUME IInv, Done, byDefault, fresh, NEW r \in ToSet(imported), Valid(r)
      PROVE  \/ r \in ToSet(policies)
             \/ r.name \in clients
             \/ Key(r) \in {Key(x) : x \in ToSet(existing)}
  <2>1. pc = "adding" /\ ToSet(todo) = {}
    BY <1>1, EmptyHas DEF Done
  <2> QED BY <1>1, <2>1 DEF IInv, Thorough, Answered, Keys
<1>2. IInv => (Done /\ byDefault /\ fresh =>
                 \A r \in ToSet(imported) :
                   Valid(r) => \/ r \in ToSet(policies)
                               \/ r.name \in clients
                               \/ Key(r) \in {Key(x) : x \in ToSet(existing)})
  BY <1>1
<1> QED BY <1>2, Inductive, PTL DEF ImportIsComplete

\* Importing the same source again finds nothing new, as often as it is tried.
THEOREM AgainNothing == Spec => []AgainIsNothing
<1>1. IInv => AgainIsNothing
  BY DEF IInv, Settled, AgainIsNothing
<1> QED BY <1>1, Inductive, PTL
=============================================================================
