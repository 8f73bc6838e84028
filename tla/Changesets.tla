---------------------------- MODULE Changesets ----------------------------
(***************************************************************************)
(* The write path of the backend: a request plans a list of revisions      *)
(* (api/routes.py, api/routes_migrate.py), stores them as a changeset in   *)
(* its own database session and applies them one after the other through   *)
(* the UniFi client (services/changes.py, unifi/client.py), whose write    *)
(* lock is held for one HTTP exchange at a time.  The session commits once,*)
(* when the last revision has been dealt with (_run_changeset).            *)
(*                                                                         *)
(* The requests run concurrently on one event loop, so one action stands   *)
(* for what a request does between two awaits.  Rows of the mirror table   *)
(* are the subject of Mirror; here they only matter as a reason why the    *)
(* database may refuse what a session has to store (DatabaseFails).        *)
(***************************************************************************)
EXTENDS Naturals, Sequences

CONSTANTS
  Requests,   \* requests to writing endpoints; a request makes at most one changeset
  Ids,        \* the ids the gateway gives to DNS policies
  Clients,    \* the ids of client devices, which carry a local DNS record or none
  Contents,   \* what a record says
  None,       \* no record, no id, no content
  Initial,    \* what the gateway holds when the backend starts
  Bodies,     \* the request bodies that arrive: a kind of endpoint and its items
  Rollbacks,  \* TRUE when rollback requests arrive too
  Console,    \* TRUE when records are also edited in the gateway's own console
  Faults      \* what may go wrong, a subset of FaultKinds

FaultKinds ==
  { "reject",   \* the gateway answers a valid write with an error (UnifiError)
    "unread",   \* the gateway answers a GET of an existing record with an error
    "lost",     \* timeout, broken connection or unreadable answer: no UnifiError
    "database", \* a flush or the commit of a session is refused: another session has
                \* inserted the same mirror row, a deadlock, no connection
    "crash" }   \* the backend process dies and is started again

Ops     == {"create", "update", "delete"}
Targets == Ids \cup Clients
Kinds   == {"edit", "bulk", "remove", "import"}
Items   == [op : Ops, id : Targets \cup {None}, content : Contents \cup {None}]

ASSUME ChangesetsAssumption ==
  /\ None \notin Targets \cup Contents \cup Requests
  /\ Ids \cap Clients = {}
  /\ Initial \in [Targets -> Contents \cup {None}]
  /\ Bodies \subseteq [kind : Kinds, items : Seq(Items)]
  /\ \A b \in Bodies : \A k \in 1 .. Len(b.items) :
        /\ b.items[k].op # "create" => b.items[k].id \in Targets
        /\ b.items[k].op = "create" => b.items[k].id = None
        /\ b.items[k].op = "delete" => b.items[k].content = None
        /\ b.items[k].id \in Clients => b.items[k].op = "update"
  /\ Rollbacks \in BOOLEAN
  /\ Console \in BOOLEAN
  /\ Faults \subseteq FaultKinds

VARIABLES
  \* the gateway
  store,    \* store[i]: the content of record i, or of client i's record
  issued,   \* the ids the gateway has ever given out
  wire,     \* wire[r]: the write of r that is under way, and its answer
  \* the backend process
  pc,       \* pc[r]: how far request r is
  todo,     \* todo[r]: the items of r's body that are not planned yet
  kind,     \* kind[r]: the endpoint r was sent to
  queue,    \* the write lock: its waiters in order, the first one holds it
  \* the database
  revs,     \* revs[r]: the revisions of r's changeset
  cur,      \* cur[r]: the revision apply_changeset is at
  status,   \* status[r]: the status r's changeset was committed with
  reverts,  \* reverts[r]: the changeset r rolls back
  \* observation only
  landed    \* landed[r]: the writes of r the gateway has executed, in order

vars == << store, issued, wire, pc, todo, kind, queue, revs, cur, status,
           reverts, landed >>

gatewayVars  == << store, issued, landed >>
planVars     == << todo, kind, reverts >>
backendVars  == << pc, todo, kind, queue >>
databaseVars == << revs, cur, status, reverts >>

Stages == {"idle", "planning", "applying", "queued", "sent", "stopped",
           "done", "refused", "aborted"}

\* The stages in which a request has been answered.
Over == {"done", "refused", "aborted"}

Outcomes  == {"pending", "applied", "error"}
Statuses  == {"applied", "partial", "failed"}
Revisions == [op : Ops, id : Targets \cup {None}, before : Contents \cup {None},
              after : Contents \cup {None}, outcome : Outcomes]
Writes    == [op : Ops, id : Targets, prior : Contents \cup {None},
              now : Contents \cup {None}]
Wires     == [state : {"none", "sent", "ok", "refused"}, op : Ops,
              id : Targets \cup {None}, after : Contents \cup {None}]

\* The write of revision rev, or its answer.
Message(state, rev) ==
  [state |-> state, op |-> rev.op, id |-> rev.id, after |-> rev.after]

\* Nothing is under way.
NoWire == [state |-> "none", op |-> "delete", id |-> None, after |-> None]

\* A client always exists, a DNS policy while it has a content; a path without an id
\* is no record's.
Exists(i) == i \in Clients \/ (i \in Ids /\ store[i] # None)

Revision(op, id, before, after) ==
  [op |-> op, id |-> id, before |-> before, after |-> after,
   outcome |-> "pending"]

Init ==
  /\ store   = Initial
  /\ issued  = {i \in Ids : Initial[i] # None}
  /\ wire    = [r \in Requests |-> NoWire]
  /\ pc      = [r \in Requests |-> "idle"]
  /\ todo    = [r \in Requests |-> << >>]
  /\ kind    = [r \in Requests |-> "none"]
  /\ queue   = << >>
  /\ revs    = [r \in Requests |-> << >>]
  /\ cur     = [r \in Requests |-> 1]
  /\ status  = [r \in Requests |-> "none"]
  /\ reverts = [r \in Requests |-> None]
  /\ landed  = [r \in Requests |-> << >>]

-----------------------------------------------------------------------------
(***************************************************************************)
(* Planning: every item becomes a revision, and the state it will replace  *)
(* is read from the gateway, one GET per item, before any write.           *)
(***************************************************************************)

\* A body names records the gateway has given an id by then: its ids are random, so one
\* that was never given out is to it what the id of a deleted record is.
Known(b) ==
  \A k \in 1 .. Len(b.items) : b.items[k].id \in issued \cup Clients \cup {None}

\* A request with a body arrives at one of the editing endpoints.
Submit(r) ==
  /\ pc[r] = "idle"
  /\ \E b \in Bodies :
       /\ Known(b)
       /\ kind' = [kind EXCEPT ![r] = b.kind]
       /\ todo' = [todo EXCEPT ![r] = b.items]
  /\ pc' = [pc EXCEPT ![r] = "planning"]
  /\ UNCHANGED << store, issued, wire, queue, revs, cur, status, reverts, landed >>

\* The next item of r's body becomes a revision with the given before-image.
Plan(r, before) ==
  LET item == Head(todo[r])
  IN  /\ revs' = [revs EXCEPT ![r] =
                    Append(@, Revision(item.op, item.id, before, item.content))]
      /\ todo' = [todo EXCEPT ![r] = Tail(@)]
      /\ UNCHANGED << store, issued, wire, pc, kind, queue, cur, status,
                      reverts, landed >>

\* A create needs no read.
PlanCreate(r) ==
  /\ pc[r] = "planning" /\ todo[r] # << >>
  /\ Head(todo[r]).op = "create"
  /\ Plan(r, None)

\* An update or a delete reads what it is about to replace.
PlanRead(r) ==
  /\ pc[r] = "planning" /\ todo[r] # << >>
  /\ Head(todo[r]).op # "create"
  /\ Exists(Head(todo[r]).id)
  /\ Plan(r, store[Head(todo[r]).id])

\* The read of the next item answers with an error.
ReadFails(r) ==
  /\ pc[r] = "planning" /\ todo[r] # << >>
  /\ Head(todo[r]).op # "create"
  /\ ~Exists(Head(todo[r]).id) \/ "unread" \in Faults

\* The bulk endpoint goes on without a before-image.
PlanBlind(r) ==
  /\ ReadFails(r)
  /\ kind[r] = "bulk"
  /\ Plan(r, None)

\* The remove endpoint leaves the item out.
PlanSkip(r) ==
  /\ ReadFails(r)
  /\ kind[r] = "remove"
  /\ todo' = [todo EXCEPT ![r] = Tail(@)]
  /\ UNCHANGED << store, issued, wire, pc, kind, queue, revs, cur, status,
                  reverts, landed >>

\* Request r ends here; its session is closed without a commit.
EndWithout(r, stage) ==
  /\ pc'   = [pc EXCEPT ![r] = stage]
  /\ revs' = [revs EXCEPT ![r] = << >>]
  /\ todo' = [todo EXCEPT ![r] = << >>]

\* The endpoints for one record answer with the gateway's error, and so does a
\* remove that has no item left.
Refuse(r) ==
  /\ \/ ReadFails(r) /\ kind[r] = "edit"
     \/ /\ pc[r] = "planning" /\ todo[r] = << >>
        /\ kind[r] = "remove" /\ revs[r] = << >>
  /\ EndWithout(r, "refused")
  /\ UNCHANGED << store, issued, wire, kind, queue, cur, status, reverts, landed >>

\* create_changeset: the plan is complete and pending in the session.
CreateChangeset(r) ==
  /\ pc[r] = "planning" /\ todo[r] = << >>
  /\ kind[r] = "remove" => revs[r] # << >>
  /\ pc' = [pc EXCEPT ![r] = "applying"]
  /\ UNCHANGED << store, issued, wire, todo, kind, queue, revs, cur, status,
                  reverts, landed >>

-----------------------------------------------------------------------------
(***************************************************************************)
(* Rolling back: the inverse of a committed changeset is planned from its  *)
(* revisions alone and applied forward as a changeset of its own.          *)
(***************************************************************************)

\* The revisions of t that build_rollback has an inverse for.
Undoable(t) ==
  {k \in DOMAIN revs[t] :
     /\ revs[t][k].outcome = "applied"
     /\ \/ revs[t][k].op = "create"
        \/ revs[t][k].id \in Clients
        \/ revs[t][k].before # None}

\* The sequences that list the numbers in S, none above n, from the largest down.
NewestFirst(S, n) ==
  {f \in UNION {[1 .. m -> S] : m \in 0 .. n} :
     /\ \A k \in S : \E j \in DOMAIN f : f[j] = k
     /\ \A j, k \in DOMAIN f : j < k => f[j] > f[k]}

InverseOp == [create |-> "delete", update |-> "update", delete |-> "create"]

\* The record an inverse is about; one that creates it again gets a new id.
Undone(rev) == IF rev.op = "delete" /\ rev.id \notin Clients THEN None ELSE rev.id

\* Mutant: the inverse of an update sends what is already there.
UndoingRepeats(rev) == Revision(InverseOp[rev.op], Undone(rev), rev.after, rev.after)

\* The planned change that undoes revision rev swaps its images: nothing was before
\* a create, nothing is after a delete, and for a client None is a state like others.
Undoing(rev) == Revision(InverseOp[rev.op], Undone(rev), rev.after, rev.before)

\* Mutant: a rollback takes the revisions of its changeset out of the history.
SubmitRollbackRewrites(r, t) ==
  /\ Rollbacks
  /\ pc[r] = "idle"
  /\ status[t] \in {"applied", "partial"}
  /\ Undoable(t) # {}
  /\ \E f \in NewestFirst(Undoable(t), Len(revs[t])) :
       revs' = [revs EXCEPT ![r] = [k \in DOMAIN f |-> Undoing(revs[t][f[k]])],
                            ![t] = << >>]
  /\ kind'    = [kind EXCEPT ![r] = "rollback"]
  /\ reverts' = [reverts EXCEPT ![r] = t]
  /\ pc'      = [pc EXCEPT ![r] = "applying"]
  /\ UNCHANGED << store, issued, wire, todo, queue, cur, status, landed >>

\* A rollback of changeset t arrives; nothing stops a second one for the same t.
SubmitRollback(r, t) ==
  /\ Rollbacks
  /\ pc[r] = "idle"
  /\ status[t] \in {"applied", "partial"}
  /\ Undoable(t) # {}
  /\ \E f \in NewestFirst(Undoable(t), Len(revs[t])) :
       revs' = [revs EXCEPT ![r] = [k \in DOMAIN f |-> Undoing(revs[t][f[k]])]]
  /\ kind'    = [kind EXCEPT ![r] = "rollback"]
  /\ reverts' = [reverts EXCEPT ![r] = t]
  /\ pc'      = [pc EXCEPT ![r] = "applying"]
  /\ UNCHANGED << store, issued, wire, todo, queue, cur, status, landed >>

-----------------------------------------------------------------------------
(***************************************************************************)
(* Applying: apply_changeset goes through the revisions in order; each is  *)
(* one exchange with the gateway under the write lock.                     *)
(***************************************************************************)

Current(r) == revs[r][cur[r]]

\* rev.after is validated before the write; a create or an update of a DNS
\* policy that says nothing does not pass.
Malformed(rev) ==
  rev.op # "delete" /\ rev.id \notin Clients /\ rev.after = None

\* The next revision asks for the write lock.
StartRevision(r) ==
  /\ pc[r] = "applying" /\ cur[r] <= Len(revs[r])
  /\ ~Malformed(Current(r))
  /\ pc'    = [pc EXCEPT ![r] = "queued"]
  /\ queue' = Append(queue, r)
  /\ UNCHANGED << gatewayVars, wire, planVars, revs, cur, status >>

\* The next revision does not validate: not a UnifiError, so nothing catches it.
FailValidation(r) ==
  /\ pc[r] = "applying" /\ cur[r] <= Len(revs[r])
  /\ Malformed(Current(r))
  /\ EndWithout(r, "aborted")
  /\ UNCHANGED << gatewayVars, wire, kind, reverts, queue, cur, status >>

\* Mutant: the write lock is not waited for.
SendUnlocked(r) ==
  /\ pc[r] = "queued"
  /\ pc'   = [pc EXCEPT ![r] = "sent"]
  /\ wire' = [wire EXCEPT ![r] = Message("sent", Current(r))]
  /\ UNCHANGED << gatewayVars, planVars, queue, revs, cur, status >>

\* The holder of the lock sends its write.
Send(r) ==
  /\ pc[r] = "queued" /\ Head(queue) = r
  /\ pc'   = [pc EXCEPT ![r] = "sent"]
  /\ wire' = [wire EXCEPT ![r] = Message("sent", Current(r))]
  /\ UNCHANGED << gatewayVars, planVars, queue, revs, cur, status >>

\* The gateway makes record i hold what r's write says and answers.
Execute(r, i) ==
  LET now == wire[r].after
  IN  /\ store'  = [store EXCEPT ![i] = now]
      /\ wire'   = [wire EXCEPT ![r].state = "ok", ![r].id = i]
      /\ landed' = [landed EXCEPT ![r] =
                      Append(@, [op |-> wire[r].op, id |-> i,
                                 prior |-> store[i], now |-> now])]
      /\ UNCHANGED << backendVars, databaseVars >>

\* A created record gets an id that no record has had before.
ExecuteCreate(r) ==
  /\ wire[r].state = "sent" /\ wire[r].op = "create"
  /\ \E i \in Ids \ issued : Execute(r, i) /\ issued' = issued \cup {i}

ExecuteOther(r) ==
  /\ wire[r].state = "sent" /\ wire[r].op # "create"
  /\ Exists(wire[r].id)
  /\ Execute(r, wire[r].id)
  /\ UNCHANGED issued

\* The gateway answers with an error and changes nothing: no such record, or any
\* reason of its own.
Reject(r) ==
  /\ wire[r].state = "sent"
  /\ \/ wire[r].op # "create" /\ ~Exists(wire[r].id)
     \/ "reject" \in Faults
  /\ wire' = [wire EXCEPT ![r].state = "refused"]
  /\ UNCHANGED << gatewayVars, backendVars, databaseVars >>

\* Mutant: the id the gateway gave to a created record is not kept.
ReplyForgetsId(r) ==
  /\ pc[r] = "sent" /\ wire[r].state = "ok"
  /\ pc'    = [pc EXCEPT ![r] = "applying"]
  /\ queue' = Tail(queue)
  /\ wire'  = [wire EXCEPT ![r] = NoWire]
  /\ revs'  = [revs EXCEPT ![r][cur[r]].outcome = "applied"]
  /\ cur'   = [cur EXCEPT ![r] = @ + 1]
  /\ UNCHANGED << gatewayVars, planVars, status >>

\* The write succeeded: the lock is released and the revision is marked applied,
\* under the id the gateway answered with.
Reply(r) ==
  /\ pc[r] = "sent" /\ wire[r].state = "ok"
  /\ pc'    = [pc EXCEPT ![r] = "applying"]
  /\ queue' = Tail(queue)
  /\ wire'  = [wire EXCEPT ![r] = NoWire]
  /\ revs'  = [revs EXCEPT ![r][cur[r]].outcome = "applied",
                           ![r][cur[r]].id = wire[r].id]
  /\ cur'   = [cur EXCEPT ![r] = @ + 1]
  /\ UNCHANGED << gatewayVars, planVars, status >>

\* Mutant: the loop goes on with the next revision.
ReplyErrorGoesOn(r) ==
  /\ pc[r] = "sent" /\ wire[r].state = "refused"
  /\ pc'    = [pc EXCEPT ![r] = "applying"]
  /\ queue' = Tail(queue)
  /\ wire'  = [wire EXCEPT ![r] = NoWire]
  /\ revs'  = [revs EXCEPT ![r][cur[r]].outcome = "error"]
  /\ cur'   = [cur EXCEPT ![r] = @ + 1]
  /\ UNCHANGED << gatewayVars, planVars, status >>

\* Mutant: the lock is not released.
ReplyErrorKeepsLock(r) ==
  /\ pc[r] = "sent" /\ wire[r].state = "refused"
  /\ pc'    = [pc EXCEPT ![r] = "stopped"]
  /\ wire'  = [wire EXCEPT ![r] = NoWire]
  /\ revs'  = [revs EXCEPT ![r][cur[r]].outcome = "error"]
  /\ UNCHANGED << gatewayVars, planVars, queue, cur, status >>

\* Mutant: the revision gets the changeset's status for its outcome.
ReplyErrorMixesUp(r) ==
  /\ pc[r] = "sent" /\ wire[r].state = "refused"
  /\ pc'    = [pc EXCEPT ![r] = "stopped"]
  /\ queue' = Tail(queue)
  /\ wire'  = [wire EXCEPT ![r] = NoWire]
  /\ revs'  = [revs EXCEPT ![r][cur[r]].outcome = "failed"]
  /\ UNCHANGED << gatewayVars, planVars, cur, status >>

\* The write failed with a UnifiError: the loop stops at this revision.
ReplyError(r) ==
  /\ pc[r] = "sent" /\ wire[r].state = "refused"
  /\ pc'    = [pc EXCEPT ![r] = "stopped"]
  /\ queue' = Tail(queue)
  /\ wire'  = [wire EXCEPT ![r] = NoWire]
  /\ revs'  = [revs EXCEPT ![r][cur[r]].outcome = "error"]
  /\ UNCHANGED << gatewayVars, planVars, cur, status >>

Applied(r) == {k \in DOMAIN revs[r] : revs[r][k].outcome = "applied"}

\* The status is computed and the session commits: changeset and revisions are in
\* the history from here on.
Commit(r) ==
  /\ \/ pc[r] = "applying" /\ cur[r] > Len(revs[r])
     \/ pc[r] = "stopped"
  /\ status' = [status EXCEPT ![r] = IF pc[r] # "stopped" THEN "applied"
                                     ELSE IF Applied(r) # {} THEN "partial"
                                     ELSE "failed"]
  /\ pc' = [pc EXCEPT ![r] = "done"]
  /\ UNCHANGED << gatewayVars, wire, planVars, queue, revs, cur >>

-----------------------------------------------------------------------------
(***************************************************************************)
(* What else happens: failures that are no UnifiError, of the exchange or  *)
(* of the database, a restart of the backend, and the gateway's own        *)
(* console.                                                                *)
(***************************************************************************)

\* Mutant: a write that got no answer is taken for one that failed.
LoseIsAnError(r) ==
  /\ "lost" \in Faults
  /\ pc[r] = "sent"
  /\ pc'    = [pc EXCEPT ![r] = "stopped"]
  /\ queue' = Tail(queue)
  /\ revs'  = [revs EXCEPT ![r][cur[r]].outcome = "error"]
  /\ UNCHANGED << gatewayVars, wire, planVars, cur, status >>

\* A GET of the planning phase or a write under way ends in an exception nothing
\* catches.  The lock is released; a write that has been sent may or may not
\* still reach the gateway.
Lose(r) ==
  /\ "lost" \in Faults
  /\ \/ pc[r] = "planning" /\ todo[r] # << >> /\ Head(todo[r]).op # "create"
        /\ UNCHANGED << queue, wire >>
     \/ pc[r] = "sent"
        /\ queue' = Tail(queue)
        /\ wire' \in {wire, [wire EXCEPT ![r] = NoWire]}
  /\ EndWithout(r, "aborted")
  /\ UNCHANGED << gatewayVars, kind, reverts, cur, status >>

\* The database refuses what the session of r has to store: the changeset itself, the
\* mirror rows that the next SELECT flushes, or the commit.  That is no UnifiError and
\* nothing catches it; what the gateway has executed by then stays executed.
DatabaseFails(r) ==
  /\ "database" \in Faults
  /\ pc[r] \in {"applying", "stopped"}
  /\ EndWithout(r, "aborted")
  /\ UNCHANGED << gatewayVars, wire, kind, reverts, queue, cur, status >>

\* The backend dies: the requests it was working on are gone with their sessions,
\* the lock with its process.  The writes on the wire are the gateway's.
Crash ==
  /\ "crash" \in Faults
  /\ \E r \in Requests : pc[r] \notin Over \cup {"idle"}
  /\ LET dead == {r \in Requests : pc[r] \notin Over \cup {"idle"}}
     IN  /\ pc'   = [r \in Requests |-> IF r \in dead THEN "aborted" ELSE pc[r]]
         /\ revs' = [r \in Requests |-> IF r \in dead THEN << >> ELSE revs[r]]
         /\ todo' = [r \in Requests |-> IF r \in dead THEN << >> ELSE todo[r]]
  /\ queue' = << >>
  /\ UNCHANGED << gatewayVars, wire, kind, reverts, cur, status >>

\* Someone changes or deletes a record in the gateway's console.
ConsoleEdit ==
  /\ Console
  /\ \E i \in Targets, c \in Contents \cup {None} :
       Exists(i) /\ store' = [store EXCEPT ![i] = c]
  /\ UNCHANGED << issued, landed, wire, backendVars, databaseVars >>

\* Every request has been answered.
Finished ==
  /\ \A r \in Requests : pc[r] \in Over
  /\ UNCHANGED vars

Plans(r) ==
  PlanCreate(r) \/ PlanRead(r) \/ PlanBlind(r) \/ PlanSkip(r) \/ Refuse(r)
    \/ CreateChangeset(r)

Applies(r) ==
  StartRevision(r) \/ FailValidation(r) \/ Send(r) \/ Reply(r) \/ ReplyError(r)
    \/ Commit(r)

Gateway(r) == ExecuteCreate(r) \/ ExecuteOther(r) \/ Reject(r)

Next ==
  \/ \E r \in Requests :
       \/ Submit(r)
       \/ \E t \in Requests : SubmitRollback(r, t)
       \/ Plans(r) \/ Applies(r) \/ Gateway(r) \/ Lose(r) \/ DatabaseFails(r)
  \/ Crash \/ ConsoleEdit
  \/ Finished

Spec == Init /\ [][Next]_vars

(***************************************************************************)
(* The event loop runs every request that can go on, and the gateway       *)
(* answers every write it has been sent.  Requests need not arrive, faults *)
(* need not happen.                                                        *)
(***************************************************************************)
Fairness ==
  \A r \in Requests : WF_vars(Plans(r)) /\ WF_vars(Applies(r)) /\ WF_vars(Gateway(r))

FairSpec == Spec /\ Fairness

(***************************************************************************)
(* The same system used by one person at a time: a request arrives only    *)
(* when every earlier one has been answered.                               *)
(***************************************************************************)
InFlight == {r \in Requests : pc[r] \notin Over \cup {"idle"}}

OneUser == \A r, s \in InFlight : r = s

SerialSpec == Init /\ [][Next /\ OneUser']_vars

-----------------------------------------------------------------------------
(***************************************************************************)
(* Properties.                                                             *)
(***************************************************************************)

\* Every variable has its type.
TypeOK ==
  /\ store \in [Targets -> Contents \cup {None}]
  /\ issued \in SUBSET Ids
  /\ wire \in [Requests -> Wires]
  /\ pc \in [Requests -> Stages]
  /\ todo \in [Requests -> Seq(Items)]
  /\ kind \in [Requests -> Kinds \cup {"none", "rollback"}]
  /\ queue \in Seq(Requests)
  /\ revs \in [Requests -> Seq(Revisions)]
  /\ cur \in [Requests -> Nat \ {0}]
  /\ status \in [Requests -> Statuses \cup {"none"}]
  /\ reverts \in [Requests -> Requests \cup {None}]
  /\ landed \in [Requests -> Seq(Writes)]

\* The gateway never works on two writes of the backend at once: that is what the
\* write lock of UnifiClient is for ("writes are serialised", unifi/client.py).
OneWriteAtATime ==
  \A r, s \in Requests :
    wire[r].state = "sent" /\ wire[s].state = "sent" => r = s

\* Revision rev says what write w did.
Records(rev, w) == rev.op = w.op /\ rev.id = w.id /\ rev.after = w.now

\* A changeset in the history tells what happened: its revision k is marked applied
\* exactly when the gateway has executed a k-th write for it, and then names the
\* operation, the record and the content that write had (apply_changeset, "the
\* audit log reflects reality rather than intent").
CommittedIsAccurate ==
  \A r \in Requests : status[r] # "none" =>
    /\ Len(landed[r]) <= Len(revs[r])
    /\ \A k \in DOMAIN revs[r] :
         /\ revs[r][k].outcome = "applied" <=> k <= Len(landed[r])
         /\ k <= Len(landed[r]) => Records(revs[r][k], landed[r][k])

\* Every write the gateway executes gets into the history: a request that ends
\* without a changeset has written nothing (services/changes.py, "Every mutation
\* goes through a changeset").
NothingUnrecorded ==
  \A r \in Requests : pc[r] \in {"refused", "aborted"} => landed[r] = << >>

\* apply_changeset stops at the first failure: in a changeset that did not apply
\* completely one revision carries the error, all before it are applied and none
\* after it was tried; the status says whether there are any before it.
StopsAtFirstFailure ==
  \A r \in Requests :
    /\ status[r] = "applied" => Applied(r) = DOMAIN revs[r]
    /\ status[r] \in {"partial", "failed"} =>
         \E k \in DOMAIN revs[r] :
           /\ revs[r][k].outcome = "error"
           /\ Applied(r) = 1 .. (k - 1)
           /\ \A j \in DOMAIN revs[r] : j > k => revs[r][j].outcome = "pending"
           /\ status[r] = "failed" <=> k = 1

\* The writes of r to record i, by number.
WritesTo(r, i) == {k \in DOMAIN landed[r] : landed[r][k].id = i}

FirstOf(S) == CHOOSE k \in S : \A j \in S : k <= j
LastOf(S)  == CHOOSE k \in S : \A j \in S : j <= k

\* What record i held before r wrote to it, and what it held after.
Prior(r, i) == landed[r][FirstOf(WritesTo(r, i))].prior
Left(r, i)  == landed[r][LastOf(WritesTo(r, i))].now

Restores(q, t, i) ==
  IF i \in Ids /\ Left(t, i) = None
  THEN \E k \in DOMAIN landed[q] :
         landed[q][k].op = "create" /\ landed[q][k].now = Prior(t, i)
  ELSE WritesTo(q, i) # {} /\ Left(q, i) = Prior(t, i)

\* Record i is not one that was written between changeset t and the one t rolls back.
AsLeft(t, i) ==
  reverts[t] # None /\ WritesTo(reverts[t], i) # {} => Prior(t, i) = Left(reverts[t], i)

\* A rollback that reports success has put every record its changeset wrote to back
\* to what it held before: a created record is gone, an updated one says what it
\* said, a deleted one exists again, under a new id (build_rollback).  A rollback takes
\* its before-images from the revisions it inverts and reads nothing, so rolling it back
\* in turn restores only the records nobody had written to before it.
RollbackRestores ==
  \A q, t \in Requests :
    status[q] = "applied" /\ reverts[q] = t =>
      \A i \in {landed[t][k].id : k \in DOMAIN landed[t]} :
        AsLeft(t, i) => Restores(q, t, i)

\* Nobody but the changeset q rolls back, and q itself, has written anything.
Undisturbed(q) ==
  \A r \in Requests \ {q, reverts[q]} : landed[r] = << >>

\* A rollback that nobody interferes with can be stopped by the gateway's own reasons
\* only: it never asks for a record that is not there (models/records.py, the
\* changeset is "the unit of rollback").  It holds when no body names a record twice.
RollbackFindsRecords ==
  \A q \in Requests :
    reverts[q] # None /\ Undisturbed(q) /\ status[q] \in {"partial", "failed"} =>
      Current(q).op = "create" \/ Exists(Current(q).id)

\* Every request that arrives is answered: it gets through the queue of the write
\* lock, whatever happens to the requests before it.
Answered == \A r \in Requests : pc[r] # "idle" ~> pc[r] \in Over

-----------------------------------------------------------------------------
(***************************************************************************)
(* The ledger this write path implements.  The entry of a request that was *)
(* answered is what its applied revisions say, numbered as they are.       *)
(***************************************************************************)
Said(op, id, now) == [op |-> op, id |-> id, now |-> now]

WrittenBy(r) ==
  [k \in DOMAIN landed[r] |->
     Said(landed[r][k].op, landed[r][k].id, landed[r][k].now)]

Entry(r) ==
  [k \in Applied(r) |-> Said(revs[r][k].op, revs[r][k].id, revs[r][k].after)]

Booked(r) ==
  IF pc[r] = "done" THEN Entry(r)
  ELSE IF pc[r] \in {"refused", "aborted"} THEN << >> ELSE None

Ledger == INSTANCE AuditLedger WITH
  Requests <- Requests,
  Entries  <- [op : Ops, id : Targets, now : Contents \cup {None}],
  NotYet   <- None,
  writes   <- [r \in Requests |-> WrittenBy(r)],
  ledger   <- [r \in Requests |-> Booked(r)]

\* The write path implements the ledger as long as nothing but UnifiErrors goes
\* wrong (docs/ARCHITECTURE.md, "Changesets").
ImplementsLedger == Ledger!Spec

=============================================================================
