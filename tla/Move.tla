-------------------------------- MODULE Move --------------------------------
(***************************************************************************)
(* Moving a domain (api/routes_migrate.py: rename_preview, rename_apply,   *)
(* remove; frontend/src/MigratePage.tsx: RenamePanel).  A page asks for a  *)
(* preview, which sorts the records under the old domain into those to be  *)
(* added under the new one and those that are already there; it adds the   *)
(* ones its user picked, looks again, and at last removes the originals of *)
(* those that are already there.  Several pages can do so at once, and     *)
(* everything a page does is as old as its preview.                        *)
(*                                                                         *)
(* Adding and removing are changesets, applied write by write up to the    *)
(* first failure; Changesets has them in full.                             *)
(***************************************************************************)
EXTENDS Names, FiniteSets

CONSTANTS
  Pages,     \* the pages on which the domain is being moved
  Ids,       \* record ids: the gateway gives out each once
  Types,     \* record types
  CNAME,     \* the type whose value is a name
  Labels,    \* what names are made of
  Values,    \* values of other records
  Src, Dst,  \* the old and the new domain
  Initial,   \* the gateway's records at first
  None,      \* no record
  Failures   \* bound: how many writes fail

Domains == Seq(Labels)

Record ==
  {r \in [name : Domains, type : Types, value : Values \cup Domains] :
     r.type = CNAME => r.value \in Domains}

ASSUME MoveAssumption ==
  /\ Ids \subseteq Nat
  /\ Src \in Domains \ {<< >>} /\ Dst \in Domains \ {<< >>} /\ Src # Dst
  /\ None \notin Record
  /\ Initial \in [Ids -> Record \cup {None}]
  /\ Failures \in Nat

VARIABLES
  records,   \* records[i]: record i on the gateway
  issued,    \* the ids it has given out
  pc,        \* pc[p]: what page p shows or waits for
  plan,      \* plan[p]: ids of the records its preview would add under the new domain
  already,   \* already[p]: ids of those whose new name it has found
  seen,      \* seen[p]: the records when the preview was made
  todo,      \* todo[p]: ids of the records it is adding or removing
  failures   \* how many writes have failed

vars == << records, issued, pc, plan, already, seen, todo, failures >>

Held == {i \in Ids : records[i] # None}

\* What an answer depends on: a name and a type.
Key(r) == << r.name, r.type >>

Keys == {Key(records[i]) : i \in Held}

NewName(name) == Moved(name, Src, Dst)

NewKey(r) == << NewName(r.name), r.type >>

\* A name inside the old domain that a CNAME points at follows it across.
Target(r) ==
  IF r.type = CNAME /\ Under(r.value, Src) THEN NewName(r.value) ELSE r.value

\* What is added for a record of the old domain.
Payload(r) == [name |-> NewName(r.name), type |-> r.type, value |-> Target(r)]

Init ==
  /\ records = Initial
  /\ issued  = {i \in Ids : Initial[i] # None}
  /\ pc      = [p \in Pages |-> "empty"]
  /\ plan    = [p \in Pages |-> {}]
  /\ already = [p \in Pages |-> {}]
  /\ seen    = [p \in Pages |-> Initial]
  /\ todo    = [p \in Pages |-> {}]
  /\ failures = 0

\* Mutant: only the last label is compared.
InsideTopLevel == {i \in Held : /\ Len(Src) <= Len(records[i].name)
                                /\ records[i].name[Len(records[i].name)] = Src[Len(Src)]}

\* The records that lie under the old domain.
Inside == {i \in Held : Under(records[i].name, Src)}

\* rename_preview.  The page asks for one when its user does, and by itself after it
\* has added or removed.
Preview(p) ==
  /\ pc[p] \in {"empty", "shown", "stale"}
  /\ already' = [already EXCEPT ![p] = {i \in Inside : NewKey(records[i]) \in Keys}]
  /\ plan'    = [plan EXCEPT ![p] = {i \in Inside : NewKey(records[i]) \notin Keys}]
  /\ seen'    = [seen EXCEPT ![p] = records]
  /\ pc'      = [pc EXCEPT ![p] = "shown"]
  /\ UNCHANGED << records, issued, todo, failures >>

\* The user adds what is picked; records with the same name and type are picked
\* together.
Apply(p) ==
  /\ pc[p] = "shown" /\ plan[p] # {}
  /\ \E picked \in SUBSET {Key(seen[p][i]) : i \in plan[p]} :
       /\ picked # {}
       /\ todo' = [todo EXCEPT ![p] = {i \in plan[p] : Key(seen[p][i]) \in picked}]
  /\ pc' = [pc EXCEPT ![p] = "adding"]
  /\ UNCHANGED << records, issued, plan, already, seen, failures >>

\* Mutant: the id of a new record is not used up.
AddForgetsId(p) ==
  /\ pc[p] = "adding"
  /\ \E i \in todo[p], j \in Ids \ issued :
       /\ \A k \in Ids \ issued : j <= k
       /\ \A k \in todo[p] : i <= k
       /\ records' = [records EXCEPT ![j] = Payload(seen[p][i])]
       /\ todo'    = [todo EXCEPT ![p] = @ \ {i}]
  /\ UNCHANGED << issued, pc, plan, already, seen, failures >>

\* The next record is added, under an id of its own.
Add(p) ==
  /\ pc[p] = "adding"
  /\ \E i \in todo[p], j \in Ids \ issued :
       /\ \A k \in Ids \ issued : j <= k
       /\ \A k \in todo[p] : i <= k
       /\ records' = [records EXCEPT ![j] = Payload(seen[p][i])]
       /\ issued'  = issued \cup {j}
       /\ todo'    = [todo EXCEPT ![p] = @ \ {i}]
  /\ UNCHANGED << pc, plan, already, seen, failures >>

\* Mutant: every record of the old domain that the preview found is removed.
RemoveAll(p) ==
  /\ pc[p] = "shown" /\ already[p] \cap Held # {}
  /\ todo' = [todo EXCEPT ![p] = {i \in already[p] \cup plan[p] : records[i] # None}]
  /\ pc'   = [pc EXCEPT ![p] = "removing"]
  /\ UNCHANGED << records, issued, plan, already, seen, failures >>

\* The user removes the originals of what the preview found under the new domain.
\* Those that are gone are left out, and when all are, the request is refused.
RemoveOriginals(p) ==
  /\ pc[p] = "shown" /\ already[p] \cap Held # {}
  /\ todo' = [todo EXCEPT ![p] = {i \in already[p] : records[i] # None}]
  /\ pc'   = [pc EXCEPT ![p] = "removing"]
  /\ UNCHANGED << records, issued, plan, already, seen, failures >>

\* The next original is deleted.
Delete(p) ==
  /\ pc[p] = "removing"
  /\ \E i \in todo[p] :
       /\ \A k \in todo[p] : i <= k
       /\ records[i] # None
       /\ records' = [records EXCEPT ![i] = None]
       /\ todo'    = [todo EXCEPT ![p] = @ \ {i}]
  /\ UNCHANGED << issued, pc, plan, already, seen, failures >>

\* The changeset has been applied, or stopped at a record that is gone.  Either way
\* the page takes it for done and looks again.
Answered(p) ==
  /\ pc[p] \in {"adding", "removing"}
  /\ \/ todo[p] = {}
     \/ /\ pc[p] = "removing"
        /\ \E i \in todo[p] : records[i] = None /\ \A k \in todo[p] : i <= k
  /\ pc'   = [pc EXCEPT ![p] = "stale"]
  /\ todo' = [todo EXCEPT ![p] = {}]
  /\ UNCHANGED << records, issued, plan, already, seen, failures >>

\* A write fails, or has been executed and its answer is lost.  When the gateway
\* answered with an error the changeset stops there and the page looks again; when
\* there was no answer, the page shows an error over the preview it had.
Fail(p) ==
  /\ pc[p] \in {"adding", "removing"} /\ failures < Failures
  /\ pc' \in {[pc EXCEPT ![p] = s] : s \in {"stale", "shown"}}
  /\ todo' = [todo EXCEPT ![p] = {}]
  /\ failures' = failures + 1
  /\ UNCHANGED << records, issued, plan, already, seen >>

\* The gateway of the instance has no ids left.
Exhausted == issued = Ids /\ UNCHANGED vars

Next ==
  \/ \E p \in Pages : \/ Preview(p) \/ Apply(p) \/ Add(p) \/ RemoveOriginals(p)
                      \/ Delete(p) \/ Answered(p) \/ Fail(p)
  \/ Exhausted

Spec == Init /\ [][Next]_vars

-----------------------------------------------------------------------------
(***************************************************************************)
(* Properties.                                                             *)
(***************************************************************************)

TypeOK ==
  /\ records \in [Ids -> Record \cup {None}]
  /\ Held \subseteq issued /\ issued \subseteq Ids
  /\ pc \in [Pages -> {"empty", "shown", "stale", "adding", "removing"}]
  /\ plan \in [Pages -> SUBSET Ids]
  /\ already \in [Pages -> SUBSET Ids]
  /\ seen \in [Pages -> [Ids -> Record \cup {None}]]
  /\ todo \in [Pages -> SUBSET Ids]
  /\ failures \in 0 .. Failures

\* name after n moves; one that has left the old domain stays what it is.
MovedTimes(name, n) ==
  LET at[k \in 0 .. n] ==
        IF k = 0 THEN name
        ELSE IF Under(at[k - 1], Src) THEN NewName(at[k - 1]) ELSE at[k - 1]
  IN  at[n]

\* name is, or becomes by being moved once or several times, the name later.  A move
\* makes a name longer, or shorter, or takes it out of the old domain for good, so
\* this many moves are enough.
Becomes(name, later) ==
  \E n \in 0 .. (Len(name) + Len(later)) : MovedTimes(name, n) = later

\* There is an answer of record r's type under its name or one that name becomes.
Answers(r) == \E j \in Held : records[j].type = r.type /\ Becomes(r.name, records[j].name)

\* However many pages move the domain, and wherever they stop, a name of the old
\* domain that had an answer has one, under its old name or the one it was moved to
\* ("both names resolve during the transition", rename_preview).  When one domain lies
\* under the other, which rename_preview lets pass, the new name may be moved and
\* removed in its turn: then it is the name after that, and so on.
NamesStay ==
  \A i \in Ids :
    Initial[i] # None /\ Under(Initial[i].name, Src) => Answers(Initial[i])

\* A move touches nothing outside the two domains: every other record stays, and
\* what is new lies under the new domain.
OthersUntouched ==
  \A i \in Ids :
    /\ Initial[i] # None /\ ~Under(Initial[i].name, Src) => records[i] = Initial[i]
    /\ Initial[i] = None /\ records[i] # None => Under(records[i].name, Dst)

\* What the old domain answered is still answered, by the old or the new name
\* (MigratePage.tsx, "The new name exists for each of these. Removing the originals
\* is safe").
AnswersStay ==
  \A i \in Ids :
    Initial[i] # None /\ Under(Initial[i].name, Src) =>
      \E j \in Held : records[j] \in {Initial[i], Payload(Initial[i])}

=============================================================================
