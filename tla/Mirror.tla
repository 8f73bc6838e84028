------------------------------- MODULE Mirror -------------------------------
(***************************************************************************)
(* The mirror of the gateway's records in the database                     *)
(* (services/changes.py: _upsert_mirror, _soft_delete_mirror, sync_mirror, *)
(* detect_drift).  Two kinds of request write it: one that applies a       *)
(* changeset, revision by revision, and one that adopts the gateway        *)
(* wholesale.  Each does so in a database transaction of its own, through  *)
(* an ORM session that                                                     *)
(*   - reads what is committed (READ COMMITTED) and what it has flushed,   *)
(*   - keeps the first version of a row it has loaded,                     *)
(*   - flushes what it changed before its next query and before it commits:*)
(*     an INSERT, or an UPDATE of the columns that changed, which locks the*)
(*     row until the transaction ends.                                     *)
(* An exchange with the gateway is one step here; Changesets has it in     *)
(* full.                                                                   *)
(***************************************************************************)
EXTENDS Naturals, FiniteSets, Sequences

CONSTANTS
  Requests,   \* requests that apply a changeset or adopt the gateway
  Ids,        \* record ids, numbered in the order the gateway lists them
  Contents,   \* what a record says
  None,       \* no record, no content, no request
  Initial,    \* what the gateway holds when the application is installed
  Bodies,     \* the changesets that arrive: sequences of writes
  PageLimit,  \* how many records a page of the listing holds
  Edits       \* bound: how often a record is edited in the gateway's own console

Writes == [op : {"create", "update", "delete"}, id : Ids \cup {None},
           content : Contents \cup {None}]

Row == [payload : Contents \cup {None}, state : {"absent", "live", "deleted"}]

Answer == [id : Ids, content : Contents \cup {None}]

ASSUME MirrorAssumption ==
  /\ IsFiniteSet(Ids) /\ Ids \subseteq Nat
  /\ None \notin Ids \cup Contents \cup Requests \cup Row \cup Answer
  /\ Initial \in [Ids -> Contents \cup {None}]
  /\ Bodies \subseteq Seq(Writes)
  /\ PageLimit \in Nat \ {0}
  /\ Edits \in Nat

VARIABLES
  store,    \* store[i]: the content of record i on the gateway
  issued,   \* the ids the gateway has ever given out
  rows,     \* rows[i]: the committed row of record i
  draft,    \* draft[i]: the flushed, uncommitted version of that row
  held,     \* held[i]: the request whose transaction has locked the row
  pc,       \* pc[r]: how far request r is
  todo,     \* todo[r]: the writes of a changeset that are still to be made
  answer,   \* answer[r]: the id and content of the write just answered
  listed,   \* listed[r]: the records an adopting request has listed
  offset,   \* offset[r]: how many it has listed
  unmerged, \* unmerged[r]: the listed records whose rows it has not looked at
  base,     \* base[r][i]: the row as r's session loaded or flushed it
  mine,     \* mine[r][i]: the row as r's session has it now
  dirty,    \* dirty[r]: the rows r's session has changed and not flushed
  \* observation only
  met,      \* the requests that were in progress while another one was
  tracking, \* the gateway has been adopted
  edited,   \* the console has been used since the last listing began
  edits     \* how often it has been used

vars == << store, issued, rows, draft, held, pc, todo, answer, listed, offset, unmerged,
           base, mine, dirty, met, tracking, edited, edits >>

gatewayVars  == << store, issued, edited, edits >>
databaseVars == << rows, draft, held >>
sessionVars  == << base, mine, dirty >>
listingVars  == << listed, offset, unmerged >>

Over == {"done", "aborted"}

Absent == [payload |-> None, state |-> "absent"]

\* No row has been loaded.
Fresh == [i \in Ids |-> None]

Init ==
  /\ store  = Initial
  /\ issued = {i \in Ids : Initial[i] # None}
  /\ rows   = [i \in Ids |-> Absent]
  /\ draft  = [i \in Ids |-> Absent]
  /\ held   = [i \in Ids |-> None]
  /\ pc     = [r \in Requests |-> "idle"]
  /\ todo   = [r \in Requests |-> << >>]
  /\ answer = [r \in Requests |-> None]
  /\ listed = [r \in Requests |-> Fresh]
  /\ offset = [r \in Requests |-> 0]
  /\ unmerged = [r \in Requests |-> {}]
  /\ base   = [r \in Requests |-> Fresh]
  /\ mine   = [r \in Requests |-> Fresh]
  /\ dirty  = [r \in Requests |-> {}]
  /\ met    = {}
  /\ tracking = FALSE /\ edited = FALSE /\ edits = 0

InFlight == {r \in Requests : pc[r] \notin Over \cup {"idle"}}

-----------------------------------------------------------------------------
(***************************************************************************)
(* The session.                                                            *)
(***************************************************************************)

\* Row i as a query of r finds it in the database.
Visible(r, i) == IF held[i] = r THEN draft[i] ELSE rows[i]

\* The object a query for row i gives to r's session: the one it has, else a new one.
Loaded(r, i) == IF mine[r][i] # None THEN mine[r][i] ELSE Visible(r, i)

\* r's session makes row i say row.
Stage(r, i, row) ==
  /\ base'  = [base EXCEPT ![r][i] = IF mine[r][i] # None THEN @ ELSE Visible(r, i)]
  /\ mine'  = [mine EXCEPT ![r][i] = row]
  /\ dirty' = [dirty EXCEPT ![r] = @ \cup {i}]

\* _upsert_mirror: a new row, or the row found, with the gateway's content, alive.
Upsert(r, i, content) == Stage(r, i, [payload |-> content, state |-> "live"])

\* _soft_delete_mirror: the row found is marked; without a row there is nothing to do.
SoftDelete(r, i) ==
  IF Loaded(r, i).state = "absent" THEN UNCHANGED sessionVars
  ELSE Stage(r, i, [Loaded(r, i) EXCEPT !.state = "deleted"])

\* What row i says after the columns that r changed are written to it.  A deletion
\* is a new timestamp, so it is always written.
Written(r, i) ==
  [payload |-> IF mine[r][i].payload # base[r][i].payload THEN mine[r][i].payload
               ELSE Visible(r, i).payload,
   state   |-> IF mine[r][i].state = "deleted" \/ mine[r][i].state # base[r][i].state
               THEN mine[r][i].state
               ELSE Visible(r, i).state]

\* The stages in which r's next step is a query or the commit, before which the
\* session is flushed.
MustFlush(r) == pc[r] \in {"answered", "merging", "finishing", "swept"} /\ dirty[r] # {}

\* The INSERT of a row that somebody else has committed meanwhile.
Duplicate(r, i) ==
  base[r][i].state = "absent" /\ held[i] # r /\ rows[i].state # "absent"

\* One statement: it waits for the row's lock and keeps it.
Flush(r) ==
  /\ MustFlush(r)
  /\ \E i \in dirty[r] :
       /\ held[i] \in {None, r}
       /\ ~Duplicate(r, i)
       /\ draft' = [draft EXCEPT ![i] = Written(r, i)]
       /\ held'  = [held EXCEPT ![i] = r]
       /\ base'  = [base EXCEPT ![r][i] = mine[r][i]]
       /\ dirty' = [dirty EXCEPT ![r] = @ \ {i}]
  /\ UNCHANGED << gatewayVars, rows, pc, todo, answer, listingVars, mine, met, tracking >>

\* Mutant: the locks of a failed transaction stay.
AbortKeepsLocks(r) ==
  /\ pc'    = [pc EXCEPT ![r] = "aborted"]
  /\ base'  = [base EXCEPT ![r] = Fresh]
  /\ mine'  = [mine EXCEPT ![r] = Fresh]
  /\ dirty' = [dirty EXCEPT ![r] = {}]
  /\ UNCHANGED << gatewayVars, rows, draft, held, todo, answer, listingVars, met, tracking >>

\* Mutant: the locks of a failed transaction go, what it wrote stays.
AbortKeepsDraft(r) ==
  /\ pc'    = [pc EXCEPT ![r] = "aborted"]
  /\ held'  = [i \in Ids |-> IF held[i] = r THEN None ELSE held[i]]
  /\ base'  = [base EXCEPT ![r] = Fresh]
  /\ mine'  = [mine EXCEPT ![r] = Fresh]
  /\ dirty' = [dirty EXCEPT ![r] = {}]
  /\ UNCHANGED << gatewayVars, rows, draft, todo, answer, listingVars, met, tracking >>

\* The transaction of r is undone; its session is closed.
Abort(r) ==
  /\ pc'    = [pc EXCEPT ![r] = "aborted"]
  /\ held'  = [i \in Ids |-> IF held[i] = r THEN None ELSE held[i]]
  /\ draft' = [i \in Ids |-> IF held[i] = r THEN Absent ELSE draft[i]]
  /\ base'  = [base EXCEPT ![r] = Fresh]
  /\ mine'  = [mine EXCEPT ![r] = Fresh]
  /\ dirty' = [dirty EXCEPT ![r] = {}]
  /\ UNCHANGED << gatewayVars, rows, todo, answer, listingVars, met, tracking >>

\* The unique index on unifi_id refuses the INSERT.
FlushFails(r) ==
  /\ MustFlush(r)
  /\ \E i \in dirty[r] : held[i] = None /\ Duplicate(r, i)
  /\ Abort(r)

\* The flush of r waits for the transaction of s.
WaitsFor(r, s) == r # s /\ MustFlush(r) /\ \E i \in dirty[r] : held[i] = s

\* The database finds transactions that wait for each other and gives up one.
BreakDeadlock(r) ==
  /\ \E S \in SUBSET Requests :
       r \in S /\ \A s \in S : \E t \in S : WaitsFor(s, t)
  /\ Abort(r)

\* The session commits and every row it holds shows its draft.
Commit(r) ==
  /\ pc[r] \in {"finishing", "swept"} /\ dirty[r] = {}
  /\ rows'  = [i \in Ids |-> IF held[i] = r THEN draft[i] ELSE rows[i]]
  /\ held'  = [i \in Ids |-> IF held[i] = r THEN None ELSE held[i]]
  /\ draft' = [i \in Ids |-> IF held[i] = r THEN Absent ELSE draft[i]]
  /\ base'  = [base EXCEPT ![r] = Fresh]
  /\ mine'  = [mine EXCEPT ![r] = Fresh]
  /\ pc'    = [pc EXCEPT ![r] = "done"]
  /\ tracking' = (tracking \/ pc[r] = "swept")
  /\ UNCHANGED << gatewayVars, todo, answer, listingVars, dirty, met >>

-----------------------------------------------------------------------------
(***************************************************************************)
(* Applying a changeset.                                                   *)
(***************************************************************************)

Begin(r, stage) ==
  /\ pc[r] = "idle"
  /\ pc' = [pc EXCEPT ![r] = stage]
  /\ met' = IF InFlight = {} THEN met ELSE met \cup InFlight \cup {r}

Submit(r) ==
  /\ Begin(r, "applying")
  /\ \E b \in Bodies : todo' = [todo EXCEPT ![r] = b]
  /\ UNCHANGED << gatewayVars, databaseVars, answer, listingVars, sessionVars, tracking >>

\* The gateway has executed the next write of r, under an unused id if it created.
Write(r) ==
  /\ pc[r] = "applying" /\ todo[r] # << >>
  /\ LET w == Head(todo[r])
     IN  \E i \in Ids :
           /\ IF w.op = "create" THEN i \notin issued /\ \A j \in Ids \ issued : i <= j
              ELSE i = w.id /\ store[i] # None
           /\ store'  = [store EXCEPT ![i] = w.content]
           /\ issued' = issued \cup {i}
           /\ answer' = [answer EXCEPT ![r] = [id |-> i, content |-> w.content]]
  /\ todo'  = [todo EXCEPT ![r] = Tail(@)]
  /\ pc'    = [pc EXCEPT ![r] = "answered"]
  /\ UNCHANGED << edited, edits, databaseVars, listingVars, sessionVars, met, tracking >>

\* Mutant: a deletion leaves the row as it is.
TouchForgetsDeletes(r) ==
  /\ pc[r] = "answered" /\ dirty[r] = {}
  /\ IF answer[r].content # None THEN Upsert(r, answer[r].id, answer[r].content)
     ELSE UNCHANGED sessionVars
  /\ pc' = [pc EXCEPT ![r] = "applying"]
  /\ answer' = [answer EXCEPT ![r] = None]
  /\ UNCHANGED << gatewayVars, databaseVars, todo, listingVars, met, tracking >>

\* The row of the record just written is loaded and brought up to date.
Touch(r) ==
  /\ pc[r] = "answered" /\ dirty[r] = {}
  /\ IF answer[r].content # None THEN Upsert(r, answer[r].id, answer[r].content)
     ELSE SoftDelete(r, answer[r].id)
  /\ pc' = [pc EXCEPT ![r] = "applying"]
  /\ answer' = [answer EXCEPT ![r] = None]
  /\ UNCHANGED << gatewayVars, databaseVars, todo, listingVars, met, tracking >>

\* All revisions are done, or the next one asks for a record that is gone.
EndLoop(r) ==
  /\ pc[r] = "applying"
  /\ todo[r] # << >> => Head(todo[r]).op # "create" /\ store[Head(todo[r]).id] = None
  /\ pc' = [pc EXCEPT ![r] = "finishing"]
  /\ UNCHANGED << gatewayVars, databaseVars, todo, answer, listingVars, sessionVars,
                  met, tracking >>

-----------------------------------------------------------------------------
(***************************************************************************)
(* Adopting the gateway (sync_mirror).                                     *)
(***************************************************************************)

\* The records the gateway lists, in the order of their ids.
Present == {i \in Ids : store[i] # None}

Place(i) == Cardinality({j \in Present : j <= i})

\* The page that r asks for next.
Page(r) == {i \in Present : offset[r] < Place(i) /\ Place(i) <= offset[r] + PageLimit}

SubmitAdopt(r) ==
  /\ Begin(r, "listing")
  /\ edited' = FALSE
  /\ UNCHANGED << store, issued, edits, databaseVars, todo, answer, listingVars,
                  sessionVars, tracking >>

\* Page is read: the listing goes on if there is more to come, or its records are merged.
Listed(r, page, more) ==
  /\ listed' = [listed EXCEPT ![r] = [i \in Ids |-> IF i \in page THEN store[i] ELSE @[i]]]
  /\ IF more THEN UNCHANGED << pc, unmerged >>
     ELSE /\ pc' = [pc EXCEPT ![r] = "merging"]
          /\ unmerged' = [unmerged EXCEPT ![r] = {i \in Ids : listed'[r][i] # None}]
  /\ UNCHANGED << gatewayVars, databaseVars, todo, answer, sessionVars, met, tracking >>

\* Mutant: the next page is the same page.
ListPageRepeats(r) ==
  /\ pc[r] = "listing"
  /\ LET n == Cardinality(Page(r))
     IN  Listed(r, Page(r), Page(r) # {} /\ n < Cardinality(Present))
  /\ UNCHANGED offset

\* list_records asks for the next page until it has seen as many as there are.
ListPage(r) ==
  /\ pc[r] = "listing"
  /\ LET n == offset[r] + Cardinality(Page(r))
     IN  /\ Listed(r, Page(r), Page(r) # {} /\ n < Cardinality(Present))
         /\ offset' = [offset EXCEPT ![r] = n]

\* The row of the next listed record is loaded and brought up to date.
Merge(r) ==
  /\ pc[r] = "merging" /\ dirty[r] = {}
  /\ \E i \in unmerged[r] :
       /\ \A j \in unmerged[r] : i <= j
       /\ Upsert(r, i, listed[r][i])
       /\ unmerged' = [unmerged EXCEPT ![r] = @ \ {i}]
  /\ UNCHANGED << gatewayVars, databaseVars, pc, todo, answer, listed, offset, met, tracking >>

\* Mutant: rows of records that are gone stay alive.
SweepNothing(r) ==
  /\ pc[r] = "merging" /\ dirty[r] = {} /\ unmerged[r] = {}
  /\ pc' = [pc EXCEPT ![r] = "swept"]
  /\ UNCHANGED << gatewayVars, databaseVars, todo, answer, listingVars, sessionVars,
                  met, tracking >>

\* Rows alive in the database whose record was not listed are marked deleted.
Sweep(r) ==
  /\ pc[r] = "merging" /\ dirty[r] = {} /\ unmerged[r] = {}
  /\ LET gone == {i \in Ids : Visible(r, i).state = "live" /\ listed[r][i] = None}
     IN  /\ base'  = [base EXCEPT ![r] =
                        [i \in Ids |-> IF i \in gone THEN Visible(r, i) ELSE @[i]]]
         /\ mine'  = [mine EXCEPT ![r] =
                        [i \in Ids |-> IF i \in gone
                                       THEN [Visible(r, i) EXCEPT !.state = "deleted"]
                                       ELSE @[i]]]
         /\ dirty' = [dirty EXCEPT ![r] = gone]
  /\ pc' = [pc EXCEPT ![r] = "swept"]
  /\ UNCHANGED << gatewayVars, databaseVars, todo, answer, listingVars, met, tracking >>

-----------------------------------------------------------------------------
\* Someone changes or deletes a record in the gateway's console.
ConsoleEdit ==
  /\ edits < Edits
  /\ \E i \in Ids, c \in Contents \cup {None} :
       store[i] # None /\ store[i] # c /\ store' = [store EXCEPT ![i] = c]
  /\ edited' = TRUE /\ edits' = edits + 1
  /\ UNCHANGED << issued, databaseVars, pc, todo, answer, listingVars, sessionVars,
                  met, tracking >>

\* Every request has been answered.
Finished ==
  /\ \A r \in Requests : pc[r] \in Over
  /\ UNCHANGED vars

Session(r) == Flush(r) \/ FlushFails(r) \/ Commit(r)
Applies(r) == Write(r) \/ Touch(r) \/ EndLoop(r)
Adopts(r)  == ListPage(r) \/ Merge(r) \/ Sweep(r)

Next ==
  \/ \E r \in Requests : \/ Submit(r) \/ SubmitAdopt(r)
                         \/ Applies(r) \/ Adopts(r) \/ Session(r)
                         \/ BreakDeadlock(r)
  \/ ConsoleEdit
  \/ Finished

Spec == Init /\ [][Next]_vars

(***************************************************************************)
(* The event loop runs every request that can go on, the gateway answers   *)
(* and the database breaks deadlocks.                                      *)
(***************************************************************************)
Fairness ==
  /\ \A r \in Requests : WF_vars(Applies(r) \/ Adopts(r) \/ Session(r))
  /\ WF_vars(\E r \in Requests : BreakDeadlock(r))

FairSpec == Spec /\ Fairness

-----------------------------------------------------------------------------
(***************************************************************************)
(* Properties.                                                             *)
(***************************************************************************)

\* detect_drift: what the gateway and the live rows disagree about.
OnlyOnGateway == {i \in Ids : store[i] # None /\ rows[i].state # "live"}
OnlyInMirror  == {i \in Ids : store[i] = None /\ rows[i].state = "live"}
Modified      == {i \in Ids : /\ store[i] # None /\ rows[i].state = "live"
                              /\ rows[i].payload # store[i]}

Clean == OnlyOnGateway \cup OnlyInMirror \cup Modified = {}

\* Every variable has its type; rows that nobody holds have no draft.
TypeOK ==
  /\ store \in [Ids -> Contents \cup {None}]
  /\ issued \in SUBSET Ids
  /\ rows \in [Ids -> Row]
  /\ draft \in [Ids -> Row]
  /\ held \in [Ids -> Requests \cup {None}]
  /\ \A i \in Ids : held[i] = None => draft[i] = Absent
  /\ pc \in [Requests -> {"idle", "applying", "answered", "listing", "merging",
                          "finishing", "swept"} \cup Over]
  /\ answer \in [Requests -> Answer \cup {None}]
  /\ listed \in [Requests -> [Ids -> Contents \cup {None}]]
  /\ offset \in [Requests -> 0 .. Cardinality(Ids)]
  /\ unmerged \in [Requests -> SUBSET Ids]
  /\ base \in [Requests -> [Ids -> Row \cup {None}]]
  /\ mine \in [Requests -> [Ids -> Row \cup {None}]]
  /\ dirty \in [Requests -> SUBSET Ids]

\* Drift shows what the console did and nothing else: once the gateway has been
\* adopted, and as long as requests come one at a time and the console is not used,
\* nothing the application does makes the mirror differ (docs/ARCHITECTURE.md,
\* "Drift").
NothingElseDrifts ==
  tracking /\ ~edited /\ met = {} /\ InFlight = {} => Clean

\* Whatever happened to the mirror before, an adoption during which nobody else
\* holds or commits a row makes it say what the gateway listed (sync_mirror, "Adopt
\* gateway state wholesale ... to resolve drift").
AdoptionRepairs ==
  [][\A r \in Requests :
       Commit(r) /\ pc[r] = "swept" /\ r \notin met
       => \A i \in Ids :
            IF listed[r][i] = None THEN rows'[i].state # "live"
            ELSE rows'[i] = [payload |-> listed[r][i], state |-> "live"]]_vars

\* Every request ends, though transactions wait for each other's rows.
Ends == \A r \in Requests : pc[r] # "idle" ~> pc[r] \in Over

=============================================================================
