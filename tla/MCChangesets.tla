---------------------------- MODULE MCChangesets ----------------------------
(***************************************************************************)
(* Small instances of Changesets for TLC: two records that exist, ids for  *)
(* the records to come, one client device, two contents.                   *)
(***************************************************************************)
EXTENDS Changesets, TLC

CONSTANTS i1, i2, c1, a, b

MCInitial == [i \in Targets |-> IF i \in {i1, i2} THEN a ELSE None]

Create(c)    == [op |-> "create", id |-> None, content |-> c]
Update(i, c) == [op |-> "update", id |-> i, content |-> c]
Delete(i)    == [op |-> "delete", id |-> i, content |-> None]
Body(k, s)   == [kind |-> k, items |-> s]

\* One record or one client per request.
EditBodies ==
  { Body("edit", << Create(b) >>), Body("edit", << Update(i1, b) >>),
    Body("edit", << Delete(i1) >>),
    Body("edit", << Update(c1, b) >>), Body("edit", << Update(c1, None) >>) }

\* Several records per request, every one of them well-formed.
BatchBodies ==
  { Body("import", << Create(a), Create(b) >>),
    Body("remove", << Delete(i1), Delete(i2) >>),
    Body("bulk", << Update(i1, b), Delete(i2) >>) }

\* The kinds of body there are about one DNS record.
RecordBodies ==
  { Body("edit", << Create(b) >>), Body("edit", << Update(i1, b) >>),
    Body("remove", << Delete(i1) >>),
    Body("bulk", << Update(i1, b), Delete(i1) >>) }

\* Everything but the import of two records.  No body names a record twice: the code
\* cannot roll back a bulk that updates a record and then deletes it.
ChangeBodies == EditBodies \cup {bd \in BatchBodies : bd.kind # "import"}

\* All of them, and a bulk whose second item has no record in it.
AllBodies ==
  EditBodies \cup BatchBodies
    \cup { Body("bulk", << Delete(i1), Update(i2, None) >>) }

\* New ids are interchangeable.
NewIds == Permutations(Ids \ {i1, i2})
=============================================================================
