---------------------------- MODULE SettingsProofs --------------------------
(***************************************************************************)
(* What Settings keeps, for every set of profiles, forms and requests, and *)
(* whatever the console and failing exchanges do in between.  The argument *)
(* for NeverEmptied: a change of a profile is made only if the profile, as *)
(* listed, is not as it should be; one that should not block ads and does  *)
(* has a category to keep, be it the one for ads in a profile that is      *)
(* switched off.  The merge with what is read later keeps the categories   *)
(* of the change, since documents never lose a field.  Then the types, and *)
(* what a request does that has met no other: what it was asked for, and   *)
(* nothing besides.                                                        *)
(***************************************************************************)
EXTENDS Settings, SequenceTheorems, FiniteSetTheorems, TLAPS

\* The profiles that are still to be looked at are profiles.
Todo == \A r \in Requests : todo[r] \in Seq(Profiles)

\* The change an ad blocking request is about to make is one of a profile that keeps a
\* category, and so is the body it is going to write.
Keeping(change) == "categories" \in DOMAIN change /\ change.categories # {}

Filled ==
  \A r \in Requests : wanted[r] # None =>
    /\ pc[r] \in {"reading", "writing"} => doc[r] \in Profiles /\ Keeping(patch[r])
    /\ pc[r] = "writing" => Keeping(body[r])

\* Nothing has been asked for before a request is sent.
Fresh == \A r \in Requests : pc[r] = "idle" => wanted[r] = None

Maps ==
  /\ DOMAIN pc = Requests /\ DOMAIN wanted = Requests /\ DOMAIN todo = Requests
  /\ DOMAIN doc = Requests /\ DOMAIN patch = Requests /\ DOMAIN body = Requests
  /\ DOMAIN docs = Documents

IInv == Maps /\ Shape /\ Todo /\ Fresh /\ Filled

-----------------------------------------------------------------------------
LEMMA InitHolds == Init => IInv
BY SettingsAssumption, EmptySeq DEF Init, IInv, Maps, Shape, Todo, Fresh, Filled, NoFields

\* Merging keeps the fields of the document and takes those of the change.
LEMMA MergeFields ==
  ASSUME NEW d, NEW change
  PROVE  /\ DOMAIN Merge(d, change) = DOMAIN d
         /\ \A f \in (DOMAIN d) \cap (DOMAIN change) : Merge(d, change)[f] = change[f]
BY DEF Merge

\* A profile that is not as it should be keeps a category.
LEMMA SwitchKeeps ==
  ASSUME NEW r, NEW p, Should(r, p) # HasAds(r, p)
  PROVE  Keeping(Switch(r, p))
<1> DEFINE cats == listed[r][p].categories
<1>1. CASE Should(r, p)
  BY <1>1 DEF Switch, Keeping
<1>2. CASE ~Should(r, p)
  <2>1. ADVERTISEMENT \in cats
    BY <1>2 DEF HasAds, Should
  <2> QED BY <1>2, <2>1 DEF Switch, Keeping
<1> QED BY <1>1, <1>2

\* Steps that leave the documents and what is being changed alone.
LEMMA QuietStep ==
  ASSUME IInv, UNCHANGED << docs, wanted, todo, doc, patch, body >>,
         NEW r \in Requests, NEW stage, pc' = [pc EXCEPT ![r] = stage],
         stage \notin {"idle", "reading", "writing"}
  PROVE  IInv'
BY DEF IInv, Maps, Shape, Todo, Fresh, Filled, Keeping

LEMMA ToggleStep ==
  ASSUME IInv, NEW r \in Requests, ToggleAds(r)
  PROVE  IInv'
BY DEF IInv, Maps, Shape, Todo, Fresh, Filled, Keeping, ToggleAds, Begin, Enter

LEMMA FormStep ==
  ASSUME IInv, NEW r \in Requests, SubmitForm(r)
  PROVE  IInv'
<1>1. PICK f \in Forms :
        /\ Begin(r, IF f.doc \in Networks THEN "writing" ELSE "reading")
        /\ doc' = [doc EXCEPT ![r] = f.doc]
        /\ patch' = [patch EXCEPT ![r] =
                       [k \in f.sends |-> IF k = f.field THEN f.value ELSE page[r][f.doc][k]]]
        /\ body' = [body EXCEPT ![r] = IF f.doc \in Networks THEN NetworkBody(patch'[r])
                                         ELSE NoFields]
  BY DEF SubmitForm
<1>2. UNCHANGED << docs, wanted, todo >> /\ wanted[r] = None
  BY <1>1 DEF SubmitForm, Begin, IInv, Fresh
<1>3. pc' = [pc EXCEPT ![r] = "writing"] \/ pc' = [pc EXCEPT ![r] = "reading"]
  BY <1>1 DEF Begin, Enter
<1>4. Maps' /\ Shape' /\ Todo'
  BY <1>1, <1>2, <1>3 DEF IInv, Maps, Shape, Todo
<1>5. \A q \in Requests \ {r} :
        pc'[q] = pc[q] /\ doc'[q] = doc[q] /\ patch'[q] = patch[q] /\ body'[q] = body[q]
  BY <1>1, <1>3 DEF IInv, Maps
<1>6. Fresh' /\ Filled'
  BY <1>2, <1>5 DEF IInv, Fresh, Filled, Keeping
<1> QED BY <1>4, <1>6 DEF IInv

LEMMA ListStep ==
  ASSUME IInv, NEW r \in Requests, ListProfiles(r)
  PROVE  IInv'
<1>1. PICK order \in Orders : todo' = [todo EXCEPT ![r] = order]
  BY DEF ListProfiles
<1>2. order \in Seq(Profiles)
  <2>1. Cardinality(Profiles) \in Nat
    BY SettingsAssumption, FS_CardinalityType
  <2> QED BY <2>1, SeqDef DEF Orders
<1>3. UNCHANGED << docs, wanted, doc, patch, body >> /\ pc' = [pc EXCEPT ![r] = "visiting"]
  BY DEF ListProfiles, Enter
<1> QED BY <1>1, <1>2, <1>3 DEF IInv, Maps, Shape, Todo, Fresh, Filled, Keeping

LEMMA VisitStep ==
  ASSUME IInv, NEW r \in Requests, Visit(r)
  PROVE  IInv'
<1> DEFINE wrong == {k \in DOMAIN todo[r] : Should(r, todo[r][k]) # HasAds(r, todo[r][k])}
<1>1. UNCHANGED << docs, wanted, body >>
  BY DEF Visit
<1>2. CASE pc' = [pc EXCEPT ![r] = "done"] /\ UNCHANGED << todo, doc, patch >>
  BY <1>1, <1>2, QuietStep
<1>3. CASE \E k \in wrong :
             /\ pc'    = [pc EXCEPT ![r] = "reading"]
             /\ doc'   = [doc EXCEPT ![r] = todo[r][k]]
             /\ patch' = [patch EXCEPT ![r] = Switch(r, todo[r][k])]
             /\ todo'  = [todo EXCEPT ![r] = SubSeq(@, k + 1, Len(@))]
  <2>1. PICK k \in wrong :
             /\ pc'    = [pc EXCEPT ![r] = "reading"]
             /\ doc'   = [doc EXCEPT ![r] = todo[r][k]]
             /\ patch' = [patch EXCEPT ![r] = Switch(r, todo[r][k])]
             /\ todo'  = [todo EXCEPT ![r] = SubSeq(@, k + 1, Len(@))]
    BY <1>3
  <2>2. todo[r] \in Seq(Profiles) /\ k \in 1 .. Len(todo[r])
    BY LenProperties DEF IInv, Todo
  <2>3. todo[r][k] \in Profiles
    BY <2>2, ElementOfSeq
  <2>4. SubSeq(todo[r], k + 1, Len(todo[r])) \in Seq(Profiles)
    BY <2>2, SubSeqProperties, LenProperties
  <2>5. Keeping(Switch(r, todo[r][k]))
    BY SwitchKeeps
  <2>6. Maps' /\ Shape' /\ Todo' /\ Fresh'
    BY <1>1, <2>1, <2>4 DEF IInv, Maps, Shape, Todo, Fresh
  <2>7. doc'[r] \in Profiles /\ Keeping(patch'[r]) /\ pc'[r] = "reading"
    BY <2>1, <2>3, <2>5 DEF IInv, Maps
  <2>8. \A q \in Requests \ {r} :
          pc'[q] = pc[q] /\ doc'[q] = doc[q] /\ patch'[q] = patch[q]
    BY <2>1 DEF IInv, Maps
  <2>9. Filled'
    BY <1>1, <2>7, <2>8 DEF IInv, Filled, Keeping
  <2> QED BY <2>6, <2>9 DEF IInv
<1> QED BY <1>2, <1>3 DEF Visit, Enter

LEMMA ReadStep ==
  ASSUME IInv, NEW r \in Requests, Read(r)
  PROVE  IInv'
<1>1. /\ pc[r] = "reading" /\ pc' = [pc EXCEPT ![r] = "writing"]
      /\ body' = [body EXCEPT ![r] = Merge(docs[doc[r]], patch[r])]
      /\ UNCHANGED << docs, wanted, todo, doc, patch >>
  BY DEF Read, Enter
<1>2. Maps' /\ Shape' /\ Todo' /\ Fresh'
  BY <1>1 DEF IInv, Maps, Shape, Todo, Fresh
<1>3. ASSUME wanted[r] # None PROVE Keeping(body'[r])
  <2>1. doc[r] \in Profiles /\ Keeping(patch[r])
    BY <1>1, <1>3 DEF IInv, Filled
  <2>2. "categories" \in DOMAIN docs[doc[r]]
    BY <2>1, SettingsAssumption DEF IInv, Shape, Documents
  <2>3. body'[r] = Merge(docs[doc[r]], patch[r])
    BY <1>1 DEF IInv, Maps
  <2> QED BY <2>1, <2>2, <2>3, MergeFields DEF Keeping
<1>4. \A q \in Requests \ {r} : pc'[q] = pc[q] /\ body'[q] = body[q]
  BY <1>1 DEF IInv, Maps
<1>5. Filled'
  BY <1>1, <1>3, <1>4 DEF IInv, Filled, Keeping
<1> QED BY <1>2, <1>5 DEF IInv

\* What the gateway executes leaves every document its fields.
LEMMA ExecutedKeeps ==
  ASSUME IInv, NEW r \in Requests, docs' = Executed(r)
  PROVE  DOMAIN docs' = Documents /\ Shape'
BY MergeFields DEF IInv, Maps, Shape, Executed

LEMMA WriteStep ==
  ASSUME IInv, NEW r \in Requests, Write(r) \/ Refused(r) \/ Fail(r)
  PROVE  IInv'
<1>1. /\ UNCHANGED << wanted, todo, doc, patch, body >>
      /\ UNCHANGED docs \/ docs' = Executed(r)
  BY DEF Write, Refused, Fail
<1>2. PICK stage \in {"done", "visiting", "failed"} : pc' = [pc EXCEPT ![r] = stage]
  BY DEF Write, Refused, Fail, Enter
<1>3. DOMAIN docs' = Documents /\ Shape'
  BY <1>1, ExecutedKeeps DEF IInv, Maps, Shape
<1> QED BY <1>1, <1>2, <1>3 DEF IInv, Maps, Shape, Todo, Fresh, Filled, Keeping

LEMMA ConsoleStep == IInv /\ ConsoleEdit => IInv'
<1> SUFFICES ASSUME IInv, ConsoleEdit PROVE IInv'
  OBVIOUS
<1>1. PICK c \in Console : docs' = [docs EXCEPT ![c.doc] = [@ EXCEPT ![c.field] = c.value]]
  BY DEF ConsoleEdit
<1>2. DOMAIN docs' = Documents /\ Shape'
  BY <1>1, SettingsAssumption DEF IInv, Maps, Shape
<1> QED BY <1>2 DEF ConsoleEdit, IInv, Maps, Shape, Todo, Fresh, Filled, Keeping

\* Every step keeps the invariant.
LEMMA StepKeeps == IInv /\ [Next]_vars => IInv'
<1> SUFFICES ASSUME IInv, [Next]_vars PROVE IInv'
  OBVIOUS
<1>1. ASSUME NEW r \in Requests, Load(r) PROVE IInv'
  BY <1>1 DEF Load, IInv, Maps, Shape, Todo, Fresh, Filled, Keeping
<1>2. CASE UNCHANGED vars
  BY <1>2 DEF vars, IInv, Maps, Shape, Todo, Fresh, Filled, Keeping
<1> QED BY <1>1, <1>2, ToggleStep, FormStep, ListStep, VisitStep, ReadStep, WriteStep,
           ConsoleStep DEF Next, Finished

-----------------------------------------------------------------------------
\* The inductive invariant holds throughout.
THEOREM Inductive == Spec => []IInv
BY InitHolds, StepKeeps, PTL DEF Spec

\* A request for ad blocking never sends the gateway a profile without categories
\* (update_ad_blocking, "The API rejects an empty categories list").
THEOREM NeverRefused == Spec => []NeverEmptied
<1>1. IInv => NeverEmptied
  BY DEF IInv, Filled, Keeping, NeverEmptied, Acceptable
<1> QED BY <1>1, Inductive, PTL

-----------------------------------------------------------------------------
(***************************************************************************)
(* The types.                                                              *)
(***************************************************************************)

Records == DOMAIN page = Requests /\ DOMAIN listed = Requests /\ DOMAIN before = Requests

\* What is read or written is a document.
Named == \A r \in Requests : pc[r] \in {"reading", "writing"} => doc[r] \in Documents

Types == IInv /\ Records /\ TypeOK /\ Named

Stages == {"idle", "listing", "visiting", "reading", "writing"} \cup Over

LEMMA InitTyped == Init => Types
<1> SUFFICES ASSUME Init PROVE Types
  OBVIOUS
<1>1. IInv /\ Records /\ Named
  BY InitHolds DEF Init, Records, Named
<1>2. TypeOK
  <2>1. << >> \in Seq(Profiles) /\ 0 \in 0 .. Edits /\ 0 \in 0 .. Failures
    BY EmptySeq, SettingsAssumption
  <2>2. DOMAIN NoFields = {}
    BY DEF NoFields
  <2>3. Shape
    BY <1>1 DEF IInv
  <2> QED BY <2>1, <2>2, <2>3 DEF Init, TypeOK
<1> QED BY <1>1, <1>2 DEF Types

\* What a step of request r has to show.
LEMMA RequestTyped ==
  ASSUME Types, IInv', Records', NEW r \in Requests, NEW stage \in Stages,
         pc' = [pc EXCEPT ![r] = stage],
         wanted' \in [Requests -> (SUBSET Networks) \cup {None}],
         doc'[r] \in Documents \cup {None}, stage \in {"reading", "writing"} => doc'[r] \in Documents,
         DOMAIN patch'[r] \subseteq Fields, DOMAIN body'[r] \subseteq Fields,
         \A s \in Requests \ {r} : doc'[s] = doc[s] /\ patch'[s] = patch[s] /\ body'[s] = body[s],
         met' \subseteq Requests, edits' \in 0 .. Edits, failures' \in 0 .. Failures
  PROVE  Types'
<1>1. pc' \in [Requests -> Stages] /\ pc'[r] = stage /\ \A s \in Requests \ {r} : pc'[s] = pc[s]
  BY DEF Types, TypeOK, Stages
<1>2. ASSUME NEW s \in Requests
      PROVE  /\ doc'[s] \in Documents \cup {None} /\ todo'[s] \in Seq(Profiles)
             /\ DOMAIN patch'[s] \subseteq Fields /\ DOMAIN body'[s] \subseteq Fields
             /\ pc'[s] \in {"reading", "writing"} => doc'[s] \in Documents
  <2>1. todo'[s] \in Seq(Profiles)
    BY DEF IInv, Todo
  <2>2. CASE s = r
    BY <1>1, <2>1, <2>2
  <2>3. CASE s # r
    BY <1>1, <2>1, <2>3 DEF Types, TypeOK, Named
  <2> QED BY <2>2, <2>3
<1>3. Shape'
  BY DEF IInv
<1> QED BY <1>1, <1>2, <1>3 DEF Types, TypeOK, Named, Stages

\* Steps that change neither what is asked for nor what is written.
LEMMA PlainTyped ==
  ASSUME Types, IInv', Records', NEW r \in Requests, NEW stage \in Stages,
         pc' = [pc EXCEPT ![r] = stage], stage = "writing" => pc[r] = "reading", stage # "reading",
         UNCHANGED << wanted, doc, patch >>,
         DOMAIN body'[r] \subseteq Fields, \A s \in Requests \ {r} : body'[s] = body[s],
         met' \subseteq Requests, edits' \in 0 .. Edits, failures' \in 0 .. Failures
  PROVE  Types'
<1>1. /\ wanted' \in [Requests -> (SUBSET Networks) \cup {None}] /\ doc'[r] \in Documents \cup {None}
      /\ DOMAIN patch'[r] \subseteq Fields
      /\ stage \in {"reading", "writing"} => doc'[r] \in Documents
  BY DEF Types, TypeOK, Named
<1> QED BY <1>1, RequestTyped

LEMMA MergeTyped ==
  ASSUME Types, NEW r \in Requests, pc[r] \in {"reading", "writing"}, NEW change
  PROVE  DOMAIN Merge(docs[doc[r]], change) \subseteq Fields
<1>1. doc[r] \in Documents
  BY DEF Types, Named
<1>2. DOMAIN docs[doc[r]] = DOMAIN Initial[doc[r]] /\ DOMAIN Initial[doc[r]] \subseteq Fields
  BY <1>1, SettingsAssumption DEF Types, TypeOK, Shape
<1> QED BY <1>2, MergeFields

\* What a form sends are fields of its document, and so is what is made of it.
LEMMA FormTyped ==
  ASSUME Types, IInv', NEW r \in Requests, SubmitForm(r)
  PROVE  Types'
<1>1. PICK f \in Forms :
        /\ Begin(r, IF f.doc \in Networks THEN "writing" ELSE "reading")
        /\ doc' = [doc EXCEPT ![r] = f.doc]
        /\ patch' = [patch EXCEPT ![r] =
                       [k \in f.sends |-> IF k = f.field THEN f.value ELSE page[r][f.doc][k]]]
        /\ body' = [body EXCEPT ![r] = IF f.doc \in Networks THEN NetworkBody(patch'[r])
                                         ELSE NoFields]
  BY DEF SubmitForm
<1> DEFINE stage == IF f.doc \in Networks THEN "writing" ELSE "reading"
<1>2. stage \in Stages /\ pc' = [pc EXCEPT ![r] = stage]
  BY <1>1 DEF Begin, Enter, Stages
<1>3. f.doc \in Documents /\ f.sends \subseteq Fields
  <2>1. f.doc \in Documents /\ f.sends \subseteq DOMAIN Initial[f.doc]
    BY SettingsAssumption
  <2>2. DOMAIN Initial[f.doc] \subseteq Fields
    BY <2>1, SettingsAssumption
  <2> QED BY <2>1, <2>2
<1>4. doc'[r] = f.doc /\ DOMAIN patch'[r] = f.sends
  BY <1>1 DEF Types, IInv, Maps
<1>5. DOMAIN body'[r] \subseteq Fields
  <2>1. DOMAIN NetworkBody(patch'[r]) = DOMAIN patch'[r]
    BY DEF NetworkBody
  <2>2. DOMAIN NoFields = {}
    BY DEF NoFields
  <2>3. body'[r] = IF f.doc \in Networks THEN NetworkBody(patch'[r]) ELSE NoFields
    BY <1>1 DEF Types, IInv, Maps
  <2> QED BY <1>3, <1>4, <2>1, <2>2, <2>3
<1>6. \A s \in Requests \ {r} : doc'[s] = doc[s] /\ patch'[s] = patch[s] /\ body'[s] = body[s]
  BY <1>1 DEF SubmitForm, Types, IInv, Maps
<1>7. met' \subseteq Requests /\ edits' \in 0 .. Edits /\ failures' \in 0 .. Failures /\ Records'
  BY <1>1 DEF SubmitForm, Begin, InFlight, Types, TypeOK, Records
<1>8. wanted' \in [Requests -> (SUBSET Networks) \cup {None}]
  BY DEF SubmitForm, Types, TypeOK
<1> HIDE DEF stage
<1> QED BY <1>2, <1>3, <1>4, <1>5, <1>6, <1>7, <1>8, RequestTyped

LEMMA VisitTyped ==
  ASSUME Types, IInv', NEW r \in Requests, Visit(r)
  PROVE  Types'
<1> DEFINE wrong == {k \in DOMAIN todo[r] : Should(r, todo[r][k]) # HasAds(r, todo[r][k])}
<1>1. /\ UNCHANGED << wanted, body, edits, failures, met, page, listed, before >>
  BY DEF Visit
<1>2. Records' /\ met' \subseteq Requests /\ edits' \in 0 .. Edits /\ failures' \in 0 .. Failures
      /\ DOMAIN body'[r] \subseteq Fields
  BY <1>1 DEF Types, TypeOK, Records
<1>3. CASE pc' = [pc EXCEPT ![r] = "done"] /\ UNCHANGED << doc, patch >>
  <2>1. "done" \in Stages
    BY DEF Stages, Over
  <2> QED BY <1>1, <1>2, <1>3, <2>1, PlainTyped
<1>4. CASE \E k \in wrong :
             /\ pc'    = [pc EXCEPT ![r] = "reading"]
             /\ doc'   = [doc EXCEPT ![r] = todo[r][k]]
             /\ patch' = [patch EXCEPT ![r] = Switch(r, todo[r][k])]
  <2>1. PICK k \in wrong :
             /\ pc'    = [pc EXCEPT ![r] = "reading"]
             /\ doc'   = [doc EXCEPT ![r] = todo[r][k]]
             /\ patch' = [patch EXCEPT ![r] = Switch(r, todo[r][k])]
    BY <1>4
  <2>2. todo[r] \in Seq(Profiles) /\ k \in 1 .. Len(todo[r])
    BY LenProperties DEF Types, IInv, Todo
  <2>3. todo[r][k] \in Documents
    BY <2>2, ElementOfSeq DEF Documents
  <2>4. DOMAIN Switch(r, todo[r][k]) = {"categories", "enabled"}
    BY DEF Switch
  <2>5. doc'[r] \in Documents /\ DOMAIN patch'[r] \subseteq Fields
    BY <2>1, <2>3, <2>4 DEF Types, IInv, Maps, Fields
  <2>6. \A s \in Requests \ {r} : doc'[s] = doc[s] /\ patch'[s] = patch[s]
    BY <2>1 DEF Types, IInv, Maps
  <2>7. "reading" \in Stages /\ wanted' \in [Requests -> (SUBSET Networks) \cup {None}]
    BY <1>1 DEF Stages, Types, TypeOK
  <2> HIDE DEF wrong
  <2> QED BY <1>1, <1>2, <2>1, <2>5, <2>6, <2>7, RequestTyped
<1> QED BY <1>3, <1>4 DEF Visit, Enter

LEMMA StepTyped == Types /\ [Next]_vars => Types'
<1> SUFFICES ASSUME Types, [Next]_vars PROVE Types'
  OBVIOUS
<1>1. IInv'
  BY StepKeeps DEF Types
<1>2. ASSUME NEW r \in Requests, Load(r) \/ UNCHANGED vars \/ Finished PROVE Types'
  BY <1>1, <1>2 DEF Load, Finished, vars, Types, Records, Named, TypeOK, IInv
<1>3. ASSUME NEW r \in Requests, ToggleAds(r) PROVE Types'
  <2>1. /\ pc' = [pc EXCEPT ![r] = "listing"]
        /\ wanted' \in [Requests -> (SUBSET Networks) \cup {None}]
    BY <1>3 DEF ToggleAds, Begin, Enter, Types, TypeOK
  <2>2. met' \subseteq Requests /\ edits' \in 0 .. Edits /\ failures' \in 0 .. Failures /\ Records'
    BY <1>3 DEF ToggleAds, Begin, InFlight, Types, TypeOK, Records
  <2>3. /\ "listing" \in Stages /\ UNCHANGED << doc, patch, body >> /\ doc[r] \in Documents \cup {None}
        /\ DOMAIN patch[r] \subseteq Fields /\ DOMAIN body[r] \subseteq Fields
    BY <1>3 DEF ToggleAds, Types, TypeOK, Stages
  <2> QED BY <1>1, <2>1, <2>2, <2>3, RequestTyped
<1>4. ASSUME NEW r \in Requests, ListProfiles(r) PROVE Types'
  <2>1. /\ pc' = [pc EXCEPT ![r] = "visiting"] /\ "visiting" \in Stages
        /\ UNCHANGED << wanted, doc, patch, body, met, edits, failures >> /\ Records'
    BY <1>4 DEF ListProfiles, Enter, Stages, Types, Records
  <2>2. /\ DOMAIN body'[r] \subseteq Fields /\ met' \subseteq Requests
        /\ edits' \in 0 .. Edits /\ failures' \in 0 .. Failures
    BY <2>1 DEF Types, TypeOK
  <2> QED BY <1>1, <2>1, <2>2, PlainTyped
<1>5. ASSUME NEW r \in Requests, Read(r) PROVE Types'
  <2>1. /\ pc[r] = "reading" /\ pc' = [pc EXCEPT ![r] = "writing"] /\ "writing" \in Stages
        /\ body' = [body EXCEPT ![r] = Merge(docs[doc[r]], patch[r])]
        /\ UNCHANGED << wanted, doc, patch, met, edits, failures >> /\ Records'
    BY <1>5 DEF Read, Enter, Stages, Types, Records
  <2>2. body'[r] = Merge(docs[doc[r]], patch[r]) /\ \A s \in Requests \ {r} : body'[s] = body[s]
    BY <2>1 DEF Types, IInv, Maps
  <2>3. DOMAIN body'[r] \subseteq Fields
    BY <2>1, <2>2, MergeTyped
  <2>4. met' \subseteq Requests /\ edits' \in 0 .. Edits /\ failures' \in 0 .. Failures
    BY <2>1 DEF Types, TypeOK
  <2> QED BY <1>1, <2>1, <2>2, <2>3, <2>4, PlainTyped
<1>6. ASSUME NEW r \in Requests, Write(r) \/ Refused(r) \/ Fail(r) PROVE Types'
  <2>1. /\ UNCHANGED << wanted, doc, patch, body, met, edits >> /\ Records'
        /\ failures' = failures \/ (failures < Failures /\ failures' = failures + 1)
    BY <1>6 DEF Write, Refused, Fail, Types, Records
  <2>2. PICK stage \in {"done", "visiting", "failed"} : pc' = [pc EXCEPT ![r] = stage]
    BY <1>6 DEF Write, Refused, Fail, Enter
  <2>3. /\ DOMAIN body'[r] \subseteq Fields /\ met' \subseteq Requests /\ edits' \in 0 .. Edits
        /\ failures' \in 0 .. Failures
    BY <2>1, SettingsAssumption DEF Types, TypeOK
  <2>4. stage \in Stages /\ stage # "reading" /\ stage # "writing"
    BY DEF Stages, Over
  <2> QED BY <1>1, <2>1, <2>2, <2>3, <2>4, PlainTyped
<1>7. ASSUME ConsoleEdit PROVE Types'
  <2>1. met' \subseteq Requests /\ edits' \in 0 .. Edits
    BY <1>7, SettingsAssumption DEF ConsoleEdit, Types, TypeOK, InFlight
  <2> QED BY <1>1, <1>7, <2>1 DEF ConsoleEdit, Types, Records, Named, TypeOK, IInv
<1>8. ASSUME UNCHANGED vars \/ Finished PROVE Types'
  BY <1>1, <1>8 DEF Finished, vars, Types, Records, Named, TypeOK, IInv
<1> QED BY <1>1, <1>2, <1>3, <1>4, <1>5, <1>6, <1>7, <1>8, FormTyped, VisitTyped DEF Next

\* Requests, documents and what is written have their types in every state (TypeOK).
THEOREM TypeCorrect == Spec => []TypeOK
<1>1. Spec => []Types
  BY InitTyped, StepTyped, PTL DEF Spec
<1>2. Types => TypeOK
  BY DEF Types
<1> QED BY <1>1, <1>2, PTL

-----------------------------------------------------------------------------
(***************************************************************************)
(* A request that meets nobody.                                            *)
(***************************************************************************)

\* r has changed nothing but what blocks ads.
Spares(r) ==
  \A d \in Documents : \A f \in DOMAIN docs[d] :
    \/ docs[d][f] = before[r][d][f]
    \/ d \in Profiles /\ f = "enabled"
    \/ /\ d \in Profiles /\ f = "categories"
       /\ docs[d][f] \ {ADVERTISEMENT} = before[r][d][f] \ {ADVERTISEMENT}

\* Profile p does what r wants.
Right(r, p) ==
  docs[p].networks \cap wanted[r] # {} <=> docs[p].enabled /\ ADVERTISEMENT \in docs[p].categories

\* A request of a form has changed nothing before it is done, and writes no more than
\* what it changes and what the document says.
FormAlone(r) ==
  /\ pc[r] \in {"reading", "writing"} /\ docs = before[r]
  /\ pc[r] = "writing" => /\ DOMAIN body[r] \subseteq DOMAIN docs[doc[r]]
                          /\ \A f \in DOMAIN body[r] \ DOMAIN patch[r] : body[r][f] = docs[doc[r]][f]

\* Before a request for ad blocking reads the profiles, they are as they were; then
\* each does what it should, or is still to be looked at, or about to be written.
AdsAlone(r) ==
  /\ pc[r] = "listing" => docs = before[r]
  /\ pc[r] # "listing" => listed[r] = before[r]
  /\ Spares(r)
  /\ pc[r] \in {"reading", "writing"} => doc[r] \in Profiles /\ patch[r] = Switch(r, doc[r])
  /\ pc[r] = "writing" => body[r] = Merge(docs[doc[r]], patch[r])
  /\ pc[r] # "listing" =>
       \A p \in Profiles :
         \/ Right(r, p)
         \/ docs[p] = listed[r][p] /\ \E k \in DOMAIN todo[r] : todo[r][k] = p
         \/ pc[r] # "visiting" /\ p = doc[r]

AloneAt(r) ==
  /\ \A s \in InFlight : s = r
  /\ IF wanted[r] = None THEN FormAlone(r) ELSE AdsAlone(r)

Alone == \A r \in InFlight \ met : AloneAt(r)

LEMMA MetGrows ==
  ASSUME [Next]_vars PROVE met \subseteq met'
BY DEF Next, Load, ToggleAds, SubmitForm, Begin, ListProfiles, Visit, Read, Write, Refused, Fail,
       ConsoleEdit, Finished, vars

\* What a step does to the stage of a request that has not made it.
LEMMA Others ==
  ASSUME Types, [Next]_vars, NEW r \in Requests,
         ~(ToggleAds(r) \/ SubmitForm(r) \/ ListProfiles(r) \/ Visit(r) \/ Read(r)
           \/ Write(r) \/ Refused(r) \/ Fail(r))
  PROVE  pc'[r] = pc[r]
<1>1. pc \in [Requests -> Stages]
  BY DEF Types, TypeOK, Stages
<1>2. ASSUME NEW s \in Requests \ {r}, NEW stage, pc' = [pc EXCEPT ![s] = stage] PROVE pc'[r] = pc[r]
  BY <1>1, <1>2
<1>3. ASSUME NEW s \in Requests \ {r}, ToggleAds(s) \/ SubmitForm(s) PROVE pc'[r] = pc[r]
  <2>1. \E stage : pc' = [pc EXCEPT ![s] = stage]
    BY <1>3 DEF ToggleAds, SubmitForm, Begin, Enter
  <2> QED BY <1>2, <2>1
<1>4. ASSUME NEW s \in Requests \ {r}, ListProfiles(s) \/ Visit(s) \/ Read(s) \/ Write(s) \/ Refused(s) \/ Fail(s)
      PROVE  pc'[r] = pc[r]
  <2>1. \E stage : pc' = [pc EXCEPT ![s] = stage]
    BY <1>4 DEF ListProfiles, Visit, Read, Write, Refused, Fail, Enter
  <2> QED BY <1>2, <2>1
<1> QED BY <1>3, <1>4 DEF Next, Load, ConsoleEdit, Finished, vars

\* Who is in flight and has met nobody is the only one to do anything.
LEMMA OneAtATime ==
  ASSUME Types, Alone, [Next]_vars, NEW r \in InFlight, r \notin met'
  PROVE  /\ r \in Requests /\ r \notin met /\ AloneAt(r) /\ InFlight = {r}
         /\ \/ UNCHANGED << docs, pc, wanted, listed, todo, doc, patch, body, before >>
            \/ ListProfiles(r) \/ Visit(r) \/ Read(r) \/ Write(r) \/ Refused(r) \/ Fail(r)
<1>1. r \in Requests /\ r \notin met /\ AloneAt(r)
  BY MetGrows DEF InFlight, Alone
<1>2. InFlight = {r}
  BY <1>1 DEF AloneAt
<1>3. ASSUME NEW s \in Requests PROVE ~ToggleAds(s) /\ ~SubmitForm(s)
  BY <1>2 DEF ToggleAds, SubmitForm, Begin
<1>4. ~ConsoleEdit
  BY DEF ConsoleEdit
<1>5. ASSUME NEW s \in Requests, ListProfiles(s) \/ Visit(s) \/ Read(s) \/ Write(s) \/ Refused(s) \/ Fail(s)
      PROVE  s = r
  <2>1. pc[s] \in {"listing", "visiting", "reading", "writing"}
    BY <1>5 DEF ListProfiles, Visit, Read, Write, Refused, Fail
  <2>2. s \in InFlight
    BY <2>1 DEF InFlight, Over
  <2> QED BY <1>2, <2>2
<1> QED BY <1>1, <1>2, <1>3, <1>4, <1>5 DEF Next, Load, Finished, vars

\* A written profile keeps what the request does not change, and does what it should.
LEMMA ExecutedAds ==
  ASSUME Types, NEW r \in Requests, wanted[r] # None, AdsAlone(r), pc[r] = "writing",
         docs' = Executed(r), UNCHANGED << wanted, doc, before >>
  PROVE  /\ Spares(r)' /\ Right(r, doc[r])'
         /\ \A p \in Profiles \ {doc[r]} : docs'[p] = docs[p]
<1> DEFINE q == doc[r]
           cats == listed[r][q].categories
<1>1. q \in Profiles /\ q \in Documents /\ patch[r] = Switch(r, q)
  BY DEF AdsAlone, Documents
<1>2. DOMAIN docs = Documents /\ DOMAIN docs[q] = {"categories", "enabled", "networks", "lists"}
  BY <1>1, SettingsAssumption DEF Types, IInv, Maps, Shape
<1>3. DOMAIN Switch(r, q) = {"categories", "enabled"}
  BY DEF Switch
<1>4. body[r] = Merge(docs[q], Switch(r, q))
  BY <1>1 DEF AdsAlone
<1>5. /\ docs'[q] = Merge(docs[q], body[r])
      /\ \A d \in Documents \ {q} : docs'[d] = docs[d]
  BY <1>1, <1>2 DEF Executed
<1>6. /\ DOMAIN docs'[q] = DOMAIN docs[q]
      /\ docs'[q].categories = Switch(r, q).categories /\ docs'[q].enabled = Switch(r, q).enabled
      /\ docs'[q].networks = docs[q].networks /\ docs'[q].lists = docs[q].lists
  BY <1>2, <1>3, <1>4, <1>5 DEF Merge
<1>7. /\ docs[q].networks = before[r][q].networks /\ listed[r] = before[r]
      /\ docs[q].lists = before[r][q].lists
  BY <1>1, <1>2 DEF AdsAlone, Spares
<1> HIDE DEF q
<1>8. Switch(r, q).categories \ {ADVERTISEMENT} = cats \ {ADVERTISEMENT}
  BY DEF Switch
<1>9. Spares(r)'
  <2>1. ASSUME NEW d \in Documents \ {q}, NEW f \in DOMAIN docs'[d]
        PROVE  \/ docs'[d][f] = before[r][d][f]
               \/ d \in Profiles /\ f = "enabled"
               \/ /\ d \in Profiles /\ f = "categories"
                  /\ docs'[d][f] \ {ADVERTISEMENT} = before[r][d][f] \ {ADVERTISEMENT}
    BY <1>5 DEF AdsAlone, Spares
  <2>2. ASSUME NEW f \in DOMAIN docs'[q]
        PROVE  \/ docs'[q][f] = before[r][q][f]
               \/ f = "enabled"
               \/ /\ f = "categories"
                  /\ docs'[q][f] \ {ADVERTISEMENT} = before[r][q][f] \ {ADVERTISEMENT}
    BY <1>2, <1>6, <1>7, <1>8
  <2> QED BY <1>1, <2>1, <2>2 DEF Spares
<1>10. Should(r, q) <=> docs'[q].networks \cap wanted[r] # {}
  BY <1>6, <1>7 DEF Should
<1>11. Should(r, q) <=> Switch(r, q).enabled /\ ADVERTISEMENT \in Switch(r, q).categories
  <2>1. CASE Should(r, q)
    BY <2>1 DEF Switch
  <2>2. CASE ~Should(r, q) /\ cats \ {ADVERTISEMENT} # {}
    BY <2>2 DEF Switch
  <2>3. CASE ~Should(r, q) /\ cats \ {ADVERTISEMENT} = {}
    BY <2>3 DEF Switch
  <2> QED BY <2>1, <2>2, <2>3
<1>12. docs'[q].networks \cap wanted[r] # {} <=> docs'[q].enabled /\ ADVERTISEMENT \in docs'[q].categories
  BY <1>6, <1>10, <1>11
<1>13. \A p \in Profiles \ {q} : docs'[p] = docs[p]
  BY <1>5 DEF Documents
<1> QED BY <1>1, <1>9, <1>12, <1>13 DEF Right, q

\* The next profile to be changed is found, and those before it are as they should be.
LEMMA VisitFinds ==
  ASSUME Types, NEW r \in Requests, AdsAlone(r), Visit(r), wanted[r] # None
  PROVE  \/ pc'[r] = "done" /\ \A p \in Profiles : Right(r, p)
         \/ /\ pc'[r] = "reading"
            /\ \E q \in Profiles :
                 /\ doc'[r] = q /\ patch'[r] = Switch(r, q)
                 /\ \A p \in Profiles :
                      \/ Right(r, p) \/ p = q
                      \/ docs[p] = listed[r][p] /\ \E k \in DOMAIN todo'[r] : todo'[r][k] = p
<1> DEFINE wrong == {k \in DOMAIN todo[r] : Should(r, todo[r][k]) # HasAds(r, todo[r][k])}
<1>1. /\ todo[r] \in Seq(Profiles) /\ pc[r] = "visiting" /\ DOMAIN todo[r] = 1 .. Len(todo[r])
      /\ Len(todo[r]) \in Nat
  BY LenProperties DEF Types, IInv, Todo, Visit
<1>2. \A p \in Profiles :
        \/ Right(r, p)
        \/ docs[p] = listed[r][p] /\ \E k \in DOMAIN todo[r] : todo[r][k] = p
  BY <1>1 DEF AdsAlone
<1>3. ASSUME NEW k \in DOMAIN todo[r], k \notin wrong, docs[todo[r][k]] = listed[r][todo[r][k]]
      PROVE  Right(r, todo[r][k])
  <2>1. Should(r, todo[r][k]) <=> HasAds(r, todo[r][k])
    BY <1>3
  <2> QED BY <1>3, <2>1 DEF Right, Should, HasAds
<1>4. CASE wrong = {} /\ pc' = [pc EXCEPT ![r] = "done"]
  BY <1>2, <1>3, <1>4 DEF Types, IInv, Maps
<1>5. CASE \E k \in wrong :
             /\ \A j \in wrong : k <= j
             /\ pc'    = [pc EXCEPT ![r] = "reading"]
             /\ doc'   = [doc EXCEPT ![r] = todo[r][k]]
             /\ patch' = [patch EXCEPT ![r] = Switch(r, todo[r][k])]
             /\ todo'  = [todo EXCEPT ![r] = SubSeq(@, k + 1, Len(@))]
  <2>1. PICK k \in wrong :
             /\ \A j \in wrong : k <= j
             /\ pc'    = [pc EXCEPT ![r] = "reading"]
             /\ doc'   = [doc EXCEPT ![r] = todo[r][k]]
             /\ patch' = [patch EXCEPT ![r] = Switch(r, todo[r][k])]
             /\ todo'  = [todo EXCEPT ![r] = SubSeq(@, k + 1, Len(@))]
    BY <1>5
  <2>2. k \in 1 .. Len(todo[r]) /\ todo[r][k] \in Profiles
    BY <1>1, ElementOfSeq
  <2>3. /\ pc'[r] = "reading" /\ doc'[r] = todo[r][k] /\ patch'[r] = Switch(r, todo[r][k])
        /\ todo'[r] = SubSeq(todo[r], k + 1, Len(todo[r]))
    BY <2>1 DEF Types, IInv, Maps
  <2>4. ASSUME NEW j \in 1 .. Len(todo[r]), j > k
        PROVE  j - k \in DOMAIN todo'[r] /\ todo'[r][j - k] = todo[r][j]
    <3> DEFINE n == Len(todo[r])
               t == SubSeq(todo[r], k + 1, n)
    <3>1. k + 1 \in 1 .. n + 1 /\ n \in (k + 1) - 1 .. n /\ \A i \in k + 1 .. n : todo[r][i] \in Profiles
      BY <1>1, <2>2, ElementOfSeq
    <3>2. /\ t \in Seq(Profiles) /\ Len(t) = n - (k + 1) + 1
          /\ \A i \in 1 .. n - (k + 1) + 1 : t[i] = todo[r][(k + 1) + i - 1]
      BY <1>1, <3>1, SubSeqProperties
    <3>3. DOMAIN t = 1 .. Len(t) /\ todo'[r] = t
      BY <2>3, <3>2, LenProperties
    <3> HIDE DEF t
    <3>4. j - k \in 1 .. n - (k + 1) + 1 /\ (k + 1) + (j - k) - 1 = j
      <4>1. n \in Nat /\ k \in 1 .. n /\ j \in 1 .. n /\ j > k
        BY <1>1, <2>2, <2>4
      <4> HIDE DEF n, wrong
      <4> QED BY <4>1
    <3> QED BY <3>2, <3>3, <3>4
  <2>5. ASSUME NEW p \in Profiles, ~Right(r, p), p # todo[r][k]
        PROVE  docs[p] = listed[r][p] /\ \E j \in DOMAIN todo'[r] : todo'[r][j] = p
    <3>1. PICK j \in 1 .. Len(todo[r]) : todo[r][j] = p /\ docs[p] = listed[r][p]
      BY <1>1, <1>2, <2>5
    <3>2. j \in wrong
      BY <1>1, <1>3, <2>5, <3>1
    <3>3. j > k
      <4>1. k <= j /\ j # k
        BY <2>1, <2>5, <3>1, <3>2
      <4> HIDE DEF wrong
      <4> QED BY <1>1, <2>2, <4>1
    <3> QED BY <2>4, <3>1, <3>3
  <2> HIDE DEF wrong
  <2> QED BY <2>2, <2>3, <2>5
<1> QED BY <1>4, <1>5 DEF Visit, Enter

\* A request that is sent when no other is in progress.
LEMMA AloneBegins ==
  ASSUME Types, Types', NEW r \in Requests, ToggleAds(r) \/ SubmitForm(r), InFlight = {}
  PROVE  AloneAt(r)'
<1>1. /\ pc[r] = "idle" /\ wanted[r] = None /\ docs' = docs /\ before'[r] = docs
      /\ \A s \in Requests \ {r} : pc'[s] = pc[s]
  BY DEF ToggleAds, SubmitForm, Begin, Enter, Types, Records, IInv, Fresh, TypeOK
<1>2. \A s \in InFlight' : s = r
  BY <1>1 DEF InFlight
<1>3. CASE ToggleAds(r)
  <2>1. pc'[r] = "listing"
    BY <1>3 DEF ToggleAds, Begin, Enter, Types, TypeOK
  <2>2. wanted'[r] # None
    <3>1. wanted'[r] \in SUBSET Networks
      BY <1>3 DEF ToggleAds, Types, TypeOK
    <3> QED BY <3>1, SettingsAssumption
  <2>3. Spares(r)'
    BY <1>1 DEF Spares
  <2> QED BY <1>1, <1>2, <2>1, <2>2, <2>3 DEF AloneAt, AdsAlone
<1>4. CASE SubmitForm(r)
  <2>1. PICK f \in Forms :
          /\ Begin(r, IF f.doc \in Networks THEN "writing" ELSE "reading")
          /\ doc' = [doc EXCEPT ![r] = f.doc]
          /\ patch' = [patch EXCEPT ![r] =
                         [k \in f.sends |-> IF k = f.field THEN f.value ELSE page[r][f.doc][k]]]
          /\ body' = [body EXCEPT ![r] = IF f.doc \in Networks THEN NetworkBody(patch'[r])
                                           ELSE NoFields]
    BY <1>4 DEF SubmitForm
  <2>2. pc'[r] = IF f.doc \in Networks THEN "writing" ELSE "reading"
    BY <2>1 DEF Begin, Enter, Types, TypeOK
  <2>3. wanted'[r] = None
    BY <1>1, <1>4 DEF SubmitForm
  <2>4. ASSUME f.doc \in Networks
        PROVE  DOMAIN body'[r] \subseteq DOMAIN docs[doc'[r]] /\ DOMAIN body'[r] = DOMAIN patch'[r]
    <3>1. doc'[r] = f.doc /\ DOMAIN patch'[r] = f.sends /\ body'[r] = NetworkBody(patch'[r])
      BY <2>1, <2>4 DEF Types, IInv, Maps
    <3>2. DOMAIN NetworkBody(patch'[r]) = DOMAIN patch'[r]
      BY DEF NetworkBody
    <3>3. f.doc \in Documents /\ f.sends \subseteq DOMAIN Initial[f.doc]
      BY SettingsAssumption
    <3>4. DOMAIN docs[f.doc] = DOMAIN Initial[f.doc]
      BY <3>3 DEF Types, IInv, Shape
    <3> QED BY <3>1, <3>2, <3>3, <3>4
  <2>5. FormAlone(r)'
    BY <1>1, <2>2, <2>4 DEF FormAlone
  <2> QED BY <1>2, <2>3, <2>5 DEF AloneAt
<1> QED BY <1>3, <1>4

\* A request that is alone reads the profiles.
LEMMA AloneLists ==
  ASSUME Types, Types', NEW r \in Requests, AloneAt(r), ListProfiles(r)
  PROVE  wanted[r] # None /\ wanted' = wanted /\ AdsAlone(r)'
<1>1. pc[r] = "listing" /\ UNCHANGED << docs, wanted, before >> /\ wanted[r] # None
  BY DEF ListProfiles, AloneAt, FormAlone
<1>2. pc'[r] = "visiting" /\ listed'[r] = docs
  BY DEF ListProfiles, Enter, Types, TypeOK, Records
<1>3. \A p \in Profiles : \E k \in DOMAIN todo'[r] : todo'[r][k] = p
  <2>1. PICK order \in Orders : todo' = [todo EXCEPT ![r] = order]
    BY DEF ListProfiles
  <2>2. todo'[r] = order
    BY <2>1 DEF Types, IInv, Maps
  <2> QED BY <2>2 DEF Orders
<1>4. docs = before[r] /\ Spares(r)
  BY <1>1 DEF AloneAt, AdsAlone
<1>5. Spares(r)'
  BY <1>1, <1>4 DEF Spares
<1> QED BY <1>1, <1>2, <1>3, <1>4, <1>5 DEF AdsAlone

\* It goes on to the next profile that is not as it should be.
LEMMA AloneVisits ==
  ASSUME Types, Types', NEW r \in Requests, AloneAt(r), Visit(r), pc'[r] # "done"
  PROVE  wanted[r] # None /\ wanted' = wanted /\ AdsAlone(r)'
<1>1. pc[r] = "visiting" /\ UNCHANGED << docs, wanted, listed, before >> /\ wanted[r] # None
  BY DEF Visit, AloneAt, FormAlone
<1>2. AdsAlone(r)
  BY <1>1 DEF AloneAt
<1>3. pc'[r] = "reading"
  BY <1>1, <1>2, VisitFinds
<1>4. PICK q \in Profiles :
        /\ doc'[r] = q /\ patch'[r] = Switch(r, q)
        /\ \A p \in Profiles :
             \/ Right(r, p) \/ p = q
             \/ docs[p] = listed[r][p] /\ \E k \in DOMAIN todo'[r] : todo'[r][k] = p
  BY <1>1, <1>2, <1>3, VisitFinds
<1>5. Switch(r, q)' = Switch(r, q) /\ \A p \in Profiles : Right(r, p)' <=> Right(r, p)
  BY <1>1 DEF Switch, Should, Right
<1>6. doc'[r] \in Profiles /\ patch'[r] = Switch(r, doc[r])'
  <2>1. Switch(r, doc[r])' = Switch(r, q)'
    BY <1>4
  <2> QED BY <1>4, <1>5, <2>1
<1>7. listed[r] = before[r] /\ Spares(r)
  BY <1>1, <1>2 DEF AdsAlone
<1>8. Spares(r)'
  BY <1>1, <1>7 DEF Spares
<1>9. \A p \in Profiles :
         \/ Right(r, p)' \/ p = doc'[r]
         \/ docs'[p] = listed'[r][p] /\ \E k \in DOMAIN todo'[r] : todo'[r][k] = p
  BY <1>1, <1>4, <1>5
<1> QED BY <1>1, <1>3, <1>6, <1>7, <1>8, <1>9 DEF AdsAlone

LEMMA AloneReads ==
  ASSUME Types, Types', NEW r \in Requests, AloneAt(r), Read(r)
  PROVE  wanted' = wanted /\ IF wanted[r] = None THEN FormAlone(r)' ELSE AdsAlone(r)'
<1>1. /\ pc[r] = "reading" /\ UNCHANGED << docs, wanted, listed, todo, doc, patch, before >>
      /\ pc'[r] = "writing" /\ body'[r] = Merge(docs[doc[r]], patch[r])
  BY DEF Read, Enter, Types, TypeOK, IInv, Maps
<1>2. CASE wanted[r] = None
  <2>1. docs = before[r]
    BY <1>2 DEF AloneAt, FormAlone
  <2>2. /\ DOMAIN body'[r] = DOMAIN docs[doc[r]]
        /\ \A f \in (DOMAIN body'[r]) \ (DOMAIN patch[r]) : body'[r][f] = docs[doc[r]][f]
    BY <1>1 DEF Merge
  <2> QED BY <1>1, <1>2, <2>1, <2>2 DEF FormAlone
<1>3. CASE wanted[r] # None
  <2>1. AdsAlone(r)
    BY <1>3 DEF AloneAt
  <2>2. Switch(r, doc[r])' = Switch(r, doc[r]) /\ \A p \in Profiles : Right(r, p)' <=> Right(r, p)
    BY <1>1 DEF Switch, Should, Right
  <2>3. Merge(docs[doc[r]], patch[r])' = Merge(docs[doc[r]], patch[r])
    BY <1>1
  <2>4. Spares(r)'
    BY <1>1, <2>1 DEF AdsAlone, Spares
  <2>5. \A p \in Profiles :
         \/ Right(r, p)' \/ p = doc'[r]
         \/ docs'[p] = listed'[r][p] /\ \E k \in DOMAIN todo'[r] : todo'[r][k] = p
    BY <1>1, <2>1, <2>2 DEF AdsAlone
  <2>6. /\ listed'[r] = before'[r] /\ doc'[r] \in Profiles /\ patch'[r] = Switch(r, doc[r])'
        /\ body'[r] = Merge(docs[doc[r]], patch[r])'
    BY <1>1, <2>1, <2>2, <2>3 DEF AdsAlone
  <2> QED BY <1>1, <1>3, <2>4, <2>5, <2>6 DEF AdsAlone
<1> QED BY <1>1, <1>2, <1>3

LEMMA AloneWrites ==
  ASSUME Types, Types', NEW r \in Requests, AloneAt(r), Write(r), pc'[r] # "done"
  PROVE  wanted[r] # None /\ wanted' = wanted /\ AdsAlone(r)'
<1>1. /\ pc[r] = "writing" /\ docs' = Executed(r) /\ UNCHANGED << wanted, listed, todo, doc, before >>
      /\ pc' = [pc EXCEPT ![r] = IF wanted[r] = None THEN "done" ELSE "visiting"]
  BY DEF Write, Enter
<1>2. wanted[r] # None /\ pc'[r] = "visiting"
  BY <1>1 DEF Types, TypeOK
<1>3. AdsAlone(r)
  BY <1>2 DEF AloneAt
<1>4. /\ Spares(r)' /\ Right(r, doc[r])'
      /\ \A p \in Profiles \ {doc[r]} : docs'[p] = docs[p]
  BY <1>1, <1>2, <1>3, ExecutedAds
<1>5. \A p \in Profiles \ {doc[r]} : Right(r, p)' <=> Right(r, p)
  BY <1>1, <1>4 DEF Right
<1>6. \A p \in Profiles :
         \/ Right(r, p)'
         \/ docs'[p] = listed'[r][p] /\ \E k \in DOMAIN todo'[r] : todo'[r][k] = p
  <2>1. ASSUME NEW p \in Profiles, p # doc[r]
        PROVE \/ Right(r, p)'
              \/ docs'[p] = listed'[r][p] /\ \E k \in DOMAIN todo'[r] : todo'[r][k] = p
    BY <1>1, <1>3, <1>4, <1>5, <2>1 DEF AdsAlone
  <2>2. ASSUME NEW p \in Profiles, p = doc[r] PROVE Right(r, p)'
    BY <1>1, <1>4, <2>2 DEF Right
  <2> QED BY <2>1, <2>2
<1>7. listed'[r] = before'[r]
  BY <1>1, <1>3 DEF AdsAlone
<1> QED BY <1>1, <1>2, <1>4, <1>6, <1>7 DEF AdsAlone

LEMMA AloneStep ==
  ASSUME Types, Types', Alone, [Next]_vars
  PROVE  Alone'
<1> SUFFICES ASSUME NEW r \in Requests, r \in InFlight', r \notin met' PROVE AloneAt(r)'
  BY DEF Alone, InFlight
<1>1. CASE r \notin InFlight
  <2>1. pc[r] \in Over \cup {"idle"} /\ pc'[r] # pc[r]
    BY <1>1 DEF InFlight
  <2>2. ToggleAds(r) \/ SubmitForm(r)
    BY <2>1, Others DEF ListProfiles, Visit, Read, Write, Refused, Fail, Over
  <2>3. InFlight = {}
    BY <2>2 DEF ToggleAds, SubmitForm, Begin
  <2> QED BY <2>2, <2>3, AloneBegins
<1>2. CASE r \in InFlight
  <2>1. /\ r \notin met /\ AloneAt(r) /\ InFlight = {r}
        /\ \/ UNCHANGED << docs, pc, wanted, listed, todo, doc, patch, body, before >>
           \/ ListProfiles(r) \/ Visit(r) \/ Read(r) \/ Write(r) \/ Refused(r) \/ Fail(r)
    BY <1>2, OneAtATime
  <2>2. \A s \in InFlight' : s = r
    <3>1. ASSUME NEW s \in Requests, s # r PROVE s \notin InFlight'
      <4>1. ~ToggleAds(s) /\ ~SubmitForm(s)
        BY <1>2 DEF ToggleAds, SubmitForm, Begin
      <4>2. s \notin InFlight /\ pc[s] \in Over \cup {"idle"}
        BY <2>1, <3>1 DEF InFlight
      <4>3. pc'[s] = pc[s]
        BY <4>1, <4>2, Others DEF ListProfiles, Visit, Read, Write, Refused, Fail, Over
      <4> QED BY <4>2, <4>3 DEF InFlight
    <3> QED BY <3>1 DEF InFlight
  <2>3. pc'[r] \notin Over
    BY DEF InFlight
  <2>4. CASE UNCHANGED << docs, pc, wanted, listed, todo, doc, patch, body, before >>
    <3>1. Switch(r, doc[r])' = Switch(r, doc[r]) /\ \A p \in Profiles : Right(r, p)' <=> Right(r, p)
      BY <2>4 DEF Switch, Should, Right
    <3>2. Merge(docs[doc[r]], patch[r])' = Merge(docs[doc[r]], patch[r])
      BY <2>4
    <3>3. FormAlone(r) => FormAlone(r)'
      BY <2>4 DEF FormAlone
    <3>4. AdsAlone(r) => AdsAlone(r)'
      BY <2>4, <3>1, <3>2 DEF AdsAlone, Spares
    <3> QED BY <2>1, <2>2, <2>4, <3>3, <3>4 DEF AloneAt
  <2>5. CASE ListProfiles(r)
    <3>1. wanted[r] # None /\ wanted' = wanted /\ AdsAlone(r)'
      BY <2>1, <2>5, AloneLists
    <3> QED BY <2>2, <3>1 DEF AloneAt
  <2>6. CASE Visit(r)
    <3>1. wanted[r] # None /\ wanted' = wanted /\ AdsAlone(r)'
      BY <2>1, <2>3, <2>6, AloneVisits DEF Over
    <3> QED BY <2>2, <3>1 DEF AloneAt
  <2>7. CASE Read(r)
    <3>1. wanted' = wanted /\ IF wanted[r] = None THEN FormAlone(r)' ELSE AdsAlone(r)'
      BY <2>1, <2>7, AloneReads
    <3> QED BY <2>2, <3>1 DEF AloneAt
  <2>8. CASE Write(r)
    <3>1. wanted[r] # None /\ wanted' = wanted /\ AdsAlone(r)'
      BY <2>1, <2>3, <2>8, AloneWrites DEF Over
    <3> QED BY <2>2, <3>1 DEF AloneAt
  <2>9. CASE Refused(r) \/ Fail(r)
    <3>1. pc'[r] = "failed"
      BY <2>9 DEF Refused, Fail, Enter, Types, TypeOK
    <3> QED BY <2>3, <3>1 DEF Over
  <2> QED BY <2>1, <2>4, <2>5, <2>6, <2>7, <2>8, <2>9
<1> QED BY <1>1, <1>2

LEMMA AloneThroughout == Spec => [](Types /\ Alone)
<1>1. Init => Alone
  BY DEF Init, Alone, InFlight, Over
<1>2. Types /\ Alone /\ [Next]_vars => (Types /\ Alone)'
  BY StepTyped, AloneStep
<1> QED BY <1>1, <1>2, InitTyped, PTL DEF Spec

\* A request for ad blocking that reports success and met nobody has brought about what
\* it asked for (AdBlockingAsAsked).
THEOREM AdsAsAsked == Spec => AdBlockingAsAsked
<1> DEFINE Good(r) == \A n \in Networks :
                        Blocks(docs, n) <=> \E p \in Profiles : /\ n \in docs[p].networks
                                                                 /\ docs[p].networks \cap wanted[r] # {}
<1>1. ASSUME Types, Alone, [Next]_vars, NEW r \in Requests, pc[r] = "visiting", pc'[r] = "done", r \notin met
      PROVE  Good(r)
  <2>1. Visit(r)
    BY <1>1, Others DEF ToggleAds, SubmitForm, Begin, ListProfiles, Read, Write, Refused, Fail
  <2>2. r \in InFlight
    BY <1>1 DEF InFlight, Over
  <2>3. wanted[r] # None /\ AdsAlone(r)
    BY <1>1, <2>2 DEF Alone, AloneAt, FormAlone
  <2>4. \A p \in Profiles : Right(r, p)
    BY <1>1, <2>1, <2>3, VisitFinds
  <2>5. \A p \in Profiles : docs[p].networks \cap wanted[r] # {} <=>
                            docs[p].enabled /\ ADVERTISEMENT \in docs[p].categories
    BY <2>4 DEF Right
  <2> QED BY <2>5 DEF Blocks
<1>2. Types /\ Alone /\ [Next]_vars =>
        [\A r \in Requests : pc[r] = "visiting" /\ pc'[r] = "done" /\ r \notin met
           => \A n \in Networks :
                Blocks(docs, n) <=> \E p \in Profiles : /\ n \in docs[p].networks
                                                         /\ docs[p].networks \cap wanted[r] # {}]_vars
  BY <1>1
<1> QED BY <1>2, AloneThroughout, PTL DEF Spec, AdBlockingAsAsked

\* A request that met nobody changes what it was asked to change; everything else the
\* gateway holds stays as it was when the request was sent (RestIsKept).
THEOREM NothingElseChanges == Spec => RestIsKept
<1> DEFINE Kept(r, d, f) ==
             \/ docs'[d][f] = before[r][d][f]
             \/ wanted[r] = None /\ d = doc[r] /\ f \in DOMAIN patch[r]
             \/ wanted[r] # None /\ d \in Profiles /\ f = "enabled"
             \/ /\ wanted[r] # None /\ d \in Profiles /\ f = "categories"
                /\ docs'[d][f] \ {ADVERTISEMENT} = before[r][d][f] \ {ADVERTISEMENT}
<1>1. ASSUME Types, Alone, [Next]_vars, NEW r \in InFlight, r \notin met', NEW d \in Documents,
             NEW f \in DOMAIN docs[d]
      PROVE  Kept(r, d, f)
  <2>1. /\ r \in Requests /\ AloneAt(r)
        /\ \/ UNCHANGED << docs, pc, wanted, listed, todo, doc, patch, body, before >>
           \/ ListProfiles(r) \/ Visit(r) \/ Read(r) \/ Write(r) \/ Refused(r) \/ Fail(r)
    BY <1>1, OneAtATime
  <2>2. docs' = docs \/ (pc[r] = "writing" /\ docs' = Executed(r) /\ UNCHANGED << wanted, doc, before >>)
    BY <2>1 DEF ListProfiles, Visit, Read, Write, Refused, Fail
  <2>3. CASE docs' = docs
    BY <1>1, <2>1, <2>3 DEF AloneAt, FormAlone, AdsAlone, Spares
  <2>4. CASE wanted[r] = None /\ pc[r] = "writing" /\ docs' = Executed(r)
    <3>1. /\ docs = before[r] /\ DOMAIN body[r] \subseteq DOMAIN docs[doc[r]]
          /\ \A k \in DOMAIN body[r] \ DOMAIN patch[r] : body[r][k] = docs[doc[r]][k]
      BY <2>1, <2>4 DEF AloneAt, FormAlone
    <3>2. doc[r] \in Documents /\ DOMAIN docs = Documents
      BY <1>1, <2>1, <2>4 DEF Types, Named, IInv, Maps
    <3>3. docs'[d] = IF d = doc[r] THEN Merge(docs[d], body[r]) ELSE docs[d]
      BY <2>4, <3>2 DEF Executed
    <3> QED BY <1>1, <2>4, <3>1, <3>3 DEF Merge
  <2>5. CASE /\ wanted[r] # None /\ pc[r] = "writing" /\ docs' = Executed(r)
             /\ UNCHANGED << wanted, doc, before >>
    <3>1. AdsAlone(r)
      BY <2>1, <2>5 DEF AloneAt
    <3>2. Spares(r)'
      BY <1>1, <2>1, <2>5, <3>1, ExecutedAds
    <3>3. f \in DOMAIN docs'[d]
      BY <1>1, StepTyped DEF Types, IInv, Shape
    <3> QED BY <2>5, <3>2, <3>3 DEF Spares
  <2> QED BY <2>2, <2>3, <2>4, <2>5
<1>2. Types /\ Alone /\ [Next]_vars =>
        [\A r \in InFlight \ met' : \A d \in Documents : \A f \in DOMAIN docs[d] :
           \/ docs'[d][f] = before[r][d][f]
           \/ wanted[r] = None /\ d = doc[r] /\ f \in DOMAIN patch[r]
           \/ wanted[r] # None /\ d \in Profiles /\ f = "enabled"
           \/ /\ wanted[r] # None /\ d \in Profiles /\ f = "categories"
              /\ docs'[d][f] \ {ADVERTISEMENT} = before[r][d][f] \ {ADVERTISEMENT}]_vars
  BY <1>1
<1> QED BY <1>2, AloneThroughout, PTL DEF Spec, RestIsKept
=============================================================================
