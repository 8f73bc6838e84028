-------------------------------- MODULE Apexes ------------------------------
(***************************************************************************)
(* The apex domains the operator declares (api/routes.py, apexes).  They   *)
(* are rows of a table with a unique name; declaring and removing one is   *)
(* an event of the history (services/changes.py, record_event) that is     *)
(* committed together with the row.  Requests look first and write later,  *)
(* each in a database session of its own, so others may commit in between. *)
(***************************************************************************)
EXTENDS Access, Zones

CONSTANT Declarable \* the names that may be declared

\* An event of the history: row apex is declared or removed.
Happening == [what : {"declare", "remove"}, apex : Requests, author : Users \cup {None}]

ASSUME ApexAssumption ==
  /\ None \notin Declarable \cup Happening
  /\ \A n \in Declarable : n \in Seq({n[k] : k \in DOMAIN n})

VARIABLES
  apexes, \* apexes[i]: the name in the row that request i has inserted
  events  \* events[r]: what the history says of request r

apexVars == << apexes, events >>

ApexInit ==
  /\ apexes = [i \in Requests |-> None]
  /\ events = [r \in Requests |-> None]

Event(r, what, i) == [what |-> what, apex |-> i, author |-> Author(r)]

\* The names that are declared.
Declared == {apexes[i] : i \in Requests} \ {None}

-----------------------------------------------------------------------------
Declare(r) ==
  /\ \E name \in Declarable : Arrive(r, "declare", name)
  /\ UNCHANGED apexVars

\* add_apex: a name that is declared already is refused.
CheckApex(r) ==
  /\ pc[r] = "declare"
  /\ IF arg[r] \in Declared THEN Proceed(r, "refused", None)
     ELSE Proceed(r, "insert", arg[r])
  /\ UNCHANGED apexVars

\* Mutant: there is no unique index.
InsertAgain(r) ==
  /\ pc[r] = "insert"
  /\ Proceed(r, "done", None)
  /\ apexes' = [apexes EXCEPT ![r] = arg[r]]
  /\ events' = [events EXCEPT ![r] = Event(r, "declare", r)]

\* add_apex, from the flush in record_event to the commit.  If somebody else has
\* committed the name meanwhile, the unique index refuses the row; nothing catches that,
\* and the session takes back the event with it.
InsertApex(r) ==
  /\ pc[r] = "insert"
  /\ IF arg[r] \in Declared
     THEN Proceed(r, "failed", None) /\ UNCHANGED apexVars
     ELSE /\ Proceed(r, "done", None)
          /\ apexes' = [apexes EXCEPT ![r] = arg[r]]
          /\ events' = [events EXCEPT ![r] = Event(r, "declare", r)]

\* The page offers the rows it has listed, which may be gone by now.
Undeclare(r) ==
  /\ \E i \in Requests :
       /\ events[i] # None /\ events[i].what = "declare"
       /\ Arrive(r, "remove", i)
  /\ UNCHANGED apexVars

GetApex(r) ==
  /\ pc[r] = "remove"
  /\ IF apexes[arg[r]] = None THEN Proceed(r, "refused", None)
     ELSE Proceed(r, "delete", arg[r])
  /\ UNCHANGED apexVars

\* Mutant: the removal is not committed, its event is.
DeleteLeaves(r) ==
  /\ pc[r] = "delete"
  /\ Proceed(r, "done", None)
  /\ events' = [events EXCEPT ![r] = Event(r, "remove", arg[r])]
  /\ UNCHANGED apexes

\* remove_apex, from the delete to the commit.  That somebody else has deleted the row
\* meanwhile is a warning in the log, and the removal is in the history twice.
DeleteApex(r) ==
  /\ pc[r] = "delete"
  /\ Proceed(r, "done", None)
  /\ apexes' = [apexes EXCEPT ![arg[r]] = None]
  /\ events' = [events EXCEPT ![r] = Event(r, "remove", arg[r])]

ApexNext(r) ==
  \/ Declare(r) \/ CheckApex(r) \/ InsertApex(r)
  \/ Undeclare(r) \/ GetApex(r) \/ DeleteApex(r)

-----------------------------------------------------------------------------
\* No name is declared twice, although nothing holds a lock between the look and the
\* insert of add_apex.
NamesUnique ==
  \A i, j \in Requests : apexes[i] # None /\ apexes[i] = apexes[j] => i = j

\* The history is complete (services/changes.py, record_event): an apex is there exactly
\* if the history says that it was declared and does not say that it was removed.
HistoryAgrees ==
  \A i \in Requests :
    apexes[i] # None <=>
      /\ events[i] # None /\ events[i].what = "declare"
      /\ \A r \in Requests :
           ~(events[r] # None /\ events[r].what = "remove" /\ events[r].apex = i)
=============================================================================
