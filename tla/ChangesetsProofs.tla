------------------------- MODULE ChangesetsProofs -------------------------
(***************************************************************************)
(* Proofs about Changesets, for every set of requests, records, clients and*)
(* request bodies: the history tells what happened, the write lock, the    *)
(* ledger it implements, and what a rollback finds and restores.           *)
(***************************************************************************)
EXTENDS Changesets, SequenceTheorems, TLAPS

-----------------------------------------------------------------------------
(***************************************************************************)
(* The inductive invariant.  AuditInv says, stage by stage, how far the    *)
(* revisions of a request, the writes the gateway has executed for it and  *)
(* the message on the wire agree; it needs no assumption about faults.     *)
(***************************************************************************)

\* The revisions before the one the loop is at are applied and say what was written.
AppliedPrefix(r) ==
  /\ cur[r] <= Len(revs[r]) + 1
  /\ cur[r] - 1 <= Len(landed[r])
  /\ \A k \in 1 .. (cur[r] - 1) :
       /\ revs[r][k].outcome = "applied"
       /\ Records(revs[r][k], landed[r][k])

\* The loop is at a revision that failed; nothing after it was tried.
Failed(r) ==
  /\ cur[r] <= Len(revs[r])
  /\ revs[r][cur[r]].outcome = "error"
  /\ \A k \in DOMAIN revs[r] : k > cur[r] => revs[r][k].outcome = "pending"

\* The revisions from the one the loop is at are still to be applied.
Pending(r) == \A k \in DOMAIN revs[r] : k >= cur[r] => revs[r][k].outcome = "pending"

\* The message on the wire is that of the revision the loop is at, and the gateway
\* has answered "ok" exactly when it has executed it.
InExchange(r) ==
  /\ cur[r] <= Len(revs[r])
  /\ wire[r].state # "none"
  /\ wire[r].op = revs[r][cur[r]].op
  /\ wire[r].after = revs[r][cur[r]].after
  /\ wire[r].op # "create" => wire[r].id = revs[r][cur[r]].id
  /\ IF wire[r].state = "ok"
     THEN /\ Len(landed[r]) = cur[r]
          /\ landed[r][cur[r]].op = wire[r].op
          /\ landed[r][cur[r]].id = wire[r].id
          /\ landed[r][cur[r]].now = wire[r].after
     ELSE Len(landed[r]) = cur[r] - 1

\* Nothing is on the wire, and the executed writes are those of the applied prefix.
Between(r) == wire[r].state = "none" /\ Len(landed[r]) = cur[r] - 1

RequestInv(r) ==
  /\ pc[r] = "idle" => revs[r] = << >>
  /\ pc[r] \in {"idle", "planning"} => cur[r] = 1
  /\ pc[r] \in {"idle", "planning", "refused"} => landed[r] = << >> /\ wire[r].state = "none"
  /\ pc[r] \in {"planning", "applying", "queued", "sent"} => Pending(r)
  /\ pc[r] \in {"applying", "queued", "sent", "stopped", "done"} => AppliedPrefix(r)
  /\ pc[r] \in {"applying", "queued", "stopped", "done"} => Between(r)
  /\ pc[r] = "queued" => cur[r] <= Len(revs[r])
  /\ pc[r] = "sent" => InExchange(r)
  /\ pc[r] = "stopped" => Failed(r)
  /\ pc[r] = "done" =>
       \/ status[r] = "applied" /\ cur[r] = Len(revs[r]) + 1
       \/ status[r] = "partial" /\ Failed(r) /\ cur[r] > 1
       \/ status[r] = "failed" /\ Failed(r) /\ cur[r] = 1
  /\ pc[r] # "done" => status[r] = "none"

AuditInv == \A r \in Requests : RequestInv(r)

\* The queue of the lock holds the requests that wait for it or own it, each once;
\* the request whose write is out is at its head.
LockInv ==
  /\ \A k \in DOMAIN queue : pc[queue[k]] \in {"queued", "sent"}
  /\ \A j, k \in DOMAIN queue : queue[j] = queue[k] => j = k
  /\ \A r \in Requests : pc[r] = "sent" => queue # << >> /\ Head(queue) = r
  /\ \A r \in Requests : pc[r] = "queued" => \E k \in DOMAIN queue : queue[k] = r

IInv == TypeOK /\ AuditInv /\ LockInv

-----------------------------------------------------------------------------
(***************************************************************************)
(* Type correctness.                                                       *)
(***************************************************************************)

\* A planned revision has its type.
LEMMA RevisionType ==
  ASSUME NEW op \in Ops, NEW id \in Targets \cup {None},
         NEW before \in Contents \cup {None}, NEW after \in Contents \cup {None}
  PROVE  Revision(op, id, before, after) \in Revisions
BY DEF Revision, Revisions, Outcomes

\* The inverse of a revision has its type.
LEMMA UndoingType ==
  ASSUME NEW rev \in Revisions
  PROVE  Undoing(rev) \in Revisions
<1>1. InverseOp[rev.op] \in Ops
  BY DEF Revisions, Ops, InverseOp
<1> QED
  BY <1>1, RevisionType DEF Revisions, Undoing, Undone

\* The plan of a rollback is a sequence of revisions.
LEMMA RollbackPlanType ==
  ASSUME TypeOK, NEW t \in Requests,
         NEW f \in NewestFirst(Undoable(t), Len(revs[t]))
  PROVE  [k \in DOMAIN f |-> Undoing(revs[t][f[k]])] \in Seq(Revisions)
<1>1. revs[t] \in Seq(Revisions)
  BY DEF TypeOK
<1>2. PICK m \in Nat : f \in [1 .. m -> Undoable(t)]
  BY <1>1 DEF NewestFirst
<1>3. \A k \in 1 .. m : revs[t][f[k]] \in Revisions
  BY <1>1, <1>2 DEF Undoable
<1>4. [k \in 1 .. m |-> Undoing(revs[t][f[k]])] \in Seq(Revisions)
  BY <1>3, UndoingType
<1> QED
  BY <1>2, <1>4

\* The cleared wire has its type.
LEMMA NoWireType == NoWire \in Wires
BY DEF NoWire, Wires, Ops

\* The lock's queue without its head has its type.
LEMMA QueueTailType ==
  ASSUME TypeOK, LockInv, NEW r \in Requests, pc[r] = "sent"
  PROVE  Tail(queue) \in Seq(Requests)
BY DEF TypeOK, LockInv

\* A request that ends without a changeset leaves typed variables.
LEMMA EndWithoutType ==
  ASSUME TypeOK, NEW r \in Requests, NEW stage \in Stages, EndWithout(r, stage)
  PROVE  /\ pc' \in [Requests -> Stages]
         /\ revs' \in [Requests -> Seq(Revisions)]
         /\ todo' \in [Requests -> Seq(Items)]
<1>1. << >> \in Seq(Revisions) /\ << >> \in Seq(Items)
  OBVIOUS
<1> QED
  BY <1>1 DEF TypeOK, EndWithout

\* Every step keeps the types; where the step changes one revision, AuditInv says
\* that the revision is there.
LEMMA TypeStep == IInv /\ [Next]_vars => TypeOK'
<1> SUFFICES ASSUME IInv, [Next]_vars
             PROVE  TypeOK'
  OBVIOUS
<1> USE DEF IInv, TypeOK, gatewayVars, planVars, backendVars, databaseVars
<1>1. ASSUME NEW r \in Requests, Submit(r)
      PROVE  TypeOK'
  BY <1>1, ChangesetsAssumption DEF Submit, Stages
<1>2. ASSUME NEW r \in Requests, NEW t \in Requests, SubmitRollback(r, t)
      PROVE  TypeOK'
  BY <1>2, RollbackPlanType DEF SubmitRollback, Stages
<1>3. ASSUME NEW r \in Requests, NEW before \in Contents \cup {None},
             todo[r] # << >>, Plan(r, before)
      PROVE  TypeOK'
  <2>1. Head(todo[r]) \in Items /\ Tail(todo[r]) \in Seq(Items)
    BY <1>3
  <2>2. Revision(Head(todo[r]).op, Head(todo[r]).id, before, Head(todo[r]).content)
          \in Revisions
    BY <2>1, RevisionType DEF Items
  <2> QED
    BY <1>3, <2>1, <2>2 DEF Plan
<1>4. ASSUME NEW r \in Requests, PlanSkip(r)
      PROVE  TypeOK'
  BY <1>4 DEF PlanSkip, ReadFails
<1>5. ASSUME NEW r \in Requests, Refuse(r) \/ FailValidation(r) \/ DatabaseFails(r)
      PROVE  TypeOK'
  <2>1. \E stage \in Stages : EndWithout(r, stage)
    BY <1>5 DEF Refuse, FailValidation, DatabaseFails, Stages
  <2>2. UNCHANGED << store, issued, wire, kind, queue, cur, status, reverts, landed >>
    BY <1>5 DEF Refuse, FailValidation, DatabaseFails
  <2> QED
    BY <2>1, <2>2, EndWithoutType
<1>6. ASSUME NEW r \in Requests, StartRevision(r) \/ CreateChangeset(r)
      PROVE  TypeOK'
  <2>1. CASE StartRevision(r)
    <3>1. Append(queue, r) \in Seq(Requests)
      OBVIOUS
    <3> QED
      BY <2>1, <3>1 DEF StartRevision, Stages
  <2>2. CASE CreateChangeset(r)
    BY <2>2 DEF CreateChangeset, Stages
  <2> QED
    BY <1>6, <2>1, <2>2
<1>7. ASSUME NEW r \in Requests, Send(r)
      PROVE  TypeOK'
  <2>1. Current(r) \in Revisions
    BY <1>7 DEF Send, AuditInv, RequestInv, AppliedPrefix, Current
  <2>2. Message("sent", Current(r)) \in Wires
    BY <2>1 DEF Message, Revisions, Wires
  <2> QED
    BY <1>7, <2>2 DEF Send, Stages
<1>8. ASSUME NEW r \in Requests, NEW i \in Targets, Execute(r, i),
             issued' = issued \/ (i \in Ids /\ issued' = issued \cup {i})
      PROVE  TypeOK'
  <2>1. wire[r].op \in Ops /\ wire[r].after \in Contents \cup {None}
    BY DEF Wires
  <2>2. [op |-> wire[r].op, id |-> i, prior |-> store[i], now |-> wire[r].after]
          \in Writes
    BY <2>1 DEF Writes
  <2>3. [wire[r] EXCEPT !.state = "ok", !.id = i] \in Wires
    BY DEF Wires
  <2> QED
    BY <1>8, <2>1, <2>2, <2>3 DEF Execute
<1>9. ASSUME NEW r \in Requests, Reject(r)
      PROVE  TypeOK'
  <2>1. [wire[r] EXCEPT !.state = "refused"] \in Wires
    BY DEF Wires
  <2> QED
    BY <1>9, <2>1 DEF Reject
<1>10. ASSUME NEW r \in Requests, Reply(r) \/ ReplyError(r)
       PROVE  TypeOK'
  <2>1. cur[r] \in DOMAIN revs[r] /\ wire[r].id \in Targets \cup {None}
    BY <1>10 DEF Reply, ReplyError, AuditInv, RequestInv, InExchange, Wires
  <2>2. revs[r] \in Seq(Revisions) /\ revs[r][cur[r]] \in Revisions
    BY <2>1
  <2>3. CASE Reply(r)
    <3>1. [revs[r][cur[r]] EXCEPT !.outcome = "applied", !.id = wire[r].id] \in Revisions
      BY <2>1, <2>2 DEF Revisions, Outcomes
    <3>2. revs' = [revs EXCEPT ![r] = [revs[r] EXCEPT
                     ![cur[r]] = [revs[r][cur[r]] EXCEPT !.outcome = "applied",
                                                         !.id = wire[r].id]]]
      BY <2>1, <2>2, <2>3 DEF Reply
    <3>3. revs' \in [Requests -> Seq(Revisions)]
      BY <2>1, <2>2, <3>1, <3>2
    <3>4. pc' \in [Requests -> Stages] /\ cur' \in [Requests -> Nat \ {0}]
      BY <2>3 DEF Reply, Stages
    <3>5. wire' \in [Requests -> Wires] /\ queue' \in Seq(Requests)
      BY <2>3, QueueTailType, NoWireType DEF Reply
    <3> QED
      BY <2>3, <3>3, <3>4, <3>5 DEF Reply
  <2>4. CASE ReplyError(r)
    <3>1. [revs[r][cur[r]] EXCEPT !.outcome = "error"] \in Revisions
      BY <2>1, <2>2 DEF Revisions, Outcomes
    <3>2. revs' \in [Requests -> Seq(Revisions)]
      BY <2>1, <2>2, <2>4, <3>1 DEF ReplyError
    <3>3. pc' \in [Requests -> Stages]
      BY <2>4 DEF ReplyError, Stages
    <3>4. wire' \in [Requests -> Wires] /\ queue' \in Seq(Requests)
      BY <2>4, QueueTailType, NoWireType DEF ReplyError
    <3> QED
      BY <2>4, <3>2, <3>3, <3>4 DEF ReplyError
  <2> QED
    BY <1>10, <2>3, <2>4
<1>11. ASSUME NEW r \in Requests, Commit(r)
       PROVE  TypeOK'
  BY <1>11 DEF Commit, Stages, Statuses
<1>12. ASSUME NEW r \in Requests, Lose(r)
       PROVE  TypeOK'
  <2>1. "aborted" \in Stages /\ EndWithout(r, "aborted")
    BY <1>12 DEF Lose, Stages
  <2>2. wire' \in [Requests -> Wires] /\ queue' \in Seq(Requests)
    BY <1>12, QueueTailType, NoWireType DEF Lose
  <2>3. UNCHANGED << gatewayVars, kind, reverts, cur, status >>
    BY <1>12 DEF Lose
  <2> QED
    BY <2>1, <2>2, <2>3, EndWithoutType
<1>13. CASE Crash
  BY <1>13 DEF Crash, Stages
<1>14. CASE ConsoleEdit
  BY <1>14 DEF ConsoleEdit
<1>15. CASE UNCHANGED vars
  BY <1>15 DEF vars
<1>16. ASSUME NEW r \in Requests, PlanCreate(r) \/ PlanRead(r) \/ PlanBlind(r)
       PROVE  TypeOK'
  <2>1. todo[r] # << >> /\ \E before \in Contents \cup {None} : Plan(r, before)
    BY <1>16 DEF PlanCreate, PlanRead, PlanBlind, ReadFails, Exists, Targets
  <2> QED
    BY <1>3, <2>1
<1>17. ASSUME NEW r \in Requests, ExecuteCreate(r) \/ ExecuteOther(r)
       PROVE  TypeOK'
  BY <1>8, <1>17 DEF ExecuteCreate, ExecuteOther, Exists, Targets
<1> QED
  BY <1>1, <1>2, <1>4, <1>5, <1>6, <1>7, <1>9, <1>10, <1>11, <1>12, <1>13, <1>14,
     <1>15, <1>16, <1>17 DEF Next, Plans, Applies, Gateway, Finished

-----------------------------------------------------------------------------
(***************************************************************************)
(* The lock.                                                               *)
(***************************************************************************)

\* A step that leaves the queue alone and moves no request into or out of the two
\* stages of holding a place in it keeps LockInv.
LEMMA LockFrame ==
  ASSUME TypeOK, LockInv, UNCHANGED queue,
         \A r \in Requests : \/ pc'[r] = pc[r]
                             \/ /\ pc[r] \notin {"queued", "sent"}
                                /\ pc'[r] \notin {"queued", "sent"}
  PROVE  LockInv'
<1>1. \A k \in DOMAIN queue : queue[k] \in Requests
  BY DEF TypeOK
<1>2. \A k \in DOMAIN queue : pc'[queue[k]] \in {"queued", "sent"}
  BY <1>1 DEF LockInv
<1>3. \A s \in Requests : pc'[s] \in {"queued", "sent"} => pc[s] = pc'[s]
  OBVIOUS
<1> QED
  BY <1>2, <1>3 DEF LockInv

\* The request at the head of the queue leaves it.
LEMMA LockRelease ==
  ASSUME TypeOK, LockInv, NEW r \in Requests, pc[r] = "sent", queue' = Tail(queue),
         NEW stage \in Stages, stage \notin {"queued", "sent"},
         pc' = [pc EXCEPT ![r] = stage]
  PROVE  LockInv'
<1>1. queue # << >> /\ queue[1] = r /\ queue \in Seq(Requests)
  BY DEF TypeOK, LockInv
<1>2. /\ queue' \in Seq(Requests)
      /\ Len(queue') = Len(queue) - 1
      /\ \A k \in 1 .. Len(queue') : queue'[k] = queue[k + 1]
  BY <1>1, HeadTailProperties
<1>3. ASSUME NEW k \in DOMAIN queue'
      PROVE  pc'[queue'[k]] \in {"queued", "sent"}
  <2>1. k + 1 \in DOMAIN queue /\ 1 \in DOMAIN queue /\ queue'[k] = queue[k + 1]
    BY <1>1, <1>2
  <2>2. queue[k + 1] # r /\ pc[queue[k + 1]] \in {"queued", "sent"}
    BY <1>1, <1>2, <2>1 DEF LockInv
  <2> QED
    BY <1>1, <2>1, <2>2 DEF TypeOK
<1>4. \A j, k \in DOMAIN queue' : queue'[j] = queue'[k] => j = k
  BY <1>1, <1>2 DEF LockInv
<1>5. \A s \in Requests : pc'[s] # "sent"
  BY <1>1 DEF TypeOK, LockInv
<1>6. ASSUME NEW s \in Requests, pc'[s] = "queued"
      PROVE  \E k \in DOMAIN queue' : queue'[k] = s
  <2>1. s # r /\ pc[s] = "queued"
    BY <1>6 DEF TypeOK
  <2>2. PICK k \in DOMAIN queue : queue[k] = s
    BY <2>1 DEF LockInv
  <2>3. k - 1 \in DOMAIN queue' /\ queue'[k - 1] = s
    BY <1>1, <1>2, <2>1, <2>2
  <2> QED
    BY <2>3
<1> QED
  BY <1>3, <1>4, <1>5, <1>6 DEF LockInv

\* Every step keeps the queue in order.
LEMMA LockStep == IInv /\ [Next]_vars => LockInv'
<1> SUFFICES ASSUME IInv, [Next]_vars
             PROVE  LockInv'
  OBVIOUS
<1> USE DEF IInv
<1>1. ASSUME NEW r \in Requests,
             Submit(r) \/ (\E t \in Requests : SubmitRollback(r, t)) \/ Plans(r)
               \/ FailValidation(r) \/ DatabaseFails(r) \/ Commit(r)
      PROVE  LockInv'
  <2>1. /\ UNCHANGED queue
        /\ \/ UNCHANGED pc
           \/ /\ pc[r] \notin {"queued", "sent"}
              /\ \E stage \in Stages : /\ stage \notin {"queued", "sent"}
                                       /\ pc' = [pc EXCEPT ![r] = stage]
    BY <1>1 DEF Submit, SubmitRollback, Plans, PlanCreate, PlanRead, PlanBlind, PlanSkip,
         Plan, Refuse, ReadFails, CreateChangeset, EndWithout, FailValidation, DatabaseFails,
         Commit, Stages
  <2> QED
    BY <2>1, LockFrame DEF TypeOK
<1>2. ASSUME NEW r \in Requests, StartRevision(r)
      PROVE  LockInv'
  <2>1. /\ queue \in Seq(Requests) /\ queue' = Append(queue, r)
        /\ pc[r] = "applying" /\ pc' = [pc EXCEPT ![r] = "queued"]
        /\ pc \in [Requests -> Stages]
    BY <1>2 DEF StartRevision, TypeOK
  <2>2. /\ Len(queue') = Len(queue) + 1
        /\ queue'[Len(queue) + 1] = r
        /\ \A k \in 1 .. Len(queue) : queue'[k] = queue[k]
        /\ queue' \in Seq(Requests)
    BY <2>1, AppendProperties
  <2>3. \A k \in 1 .. Len(queue) : queue[k] # r /\ pc'[queue[k]] \in {"queued", "sent"}
    BY <2>1 DEF LockInv
  <2>4. \A k \in DOMAIN queue' : pc'[queue'[k]] \in {"queued", "sent"}
    BY <2>1, <2>2, <2>3
  <2>5. \A j, k \in DOMAIN queue' : queue'[j] = queue'[k] => j = k
    BY <2>1, <2>2, <2>3 DEF LockInv
  <2>6. \A s \in Requests : pc'[s] = "sent" => queue' # << >> /\ Head(queue') = s
    BY <2>1, <2>2 DEF LockInv
  <2>7. \A s \in Requests : pc'[s] = "queued" => \E k \in DOMAIN queue' : queue'[k] = s
    BY <2>1, <2>2 DEF LockInv
  <2> QED
    BY <2>4, <2>5, <2>6, <2>7 DEF LockInv
<1>3. ASSUME NEW r \in Requests, Send(r)
      PROVE  LockInv'
  <2>1. /\ UNCHANGED queue /\ Head(queue) = r /\ queue \in Seq(Requests)
        /\ pc[r] = "queued" /\ pc' = [pc EXCEPT ![r] = "sent"]
        /\ pc \in [Requests -> Stages]
    BY <1>3 DEF Send, TypeOK
  <2>2. queue # << >>
    BY <2>1 DEF LockInv
  <2> QED
    BY <2>1, <2>2 DEF LockInv
<1>4. ASSUME NEW r \in Requests, Gateway(r)
      PROVE  LockInv'
  BY <1>4, LockFrame DEF Gateway, ExecuteCreate, ExecuteOther, Execute, Reject, backendVars
<1>5. ASSUME NEW r \in Requests, Reply(r) \/ ReplyError(r)
      PROVE  LockInv'
  <2>1. \E stage \in {"applying", "stopped"} : pc' = [pc EXCEPT ![r] = stage]
    BY <1>5 DEF Reply, ReplyError
  <2>2. pc[r] = "sent" /\ queue' = Tail(queue)
    BY <1>5 DEF Reply, ReplyError
  <2> QED
    BY <2>1, <2>2, LockRelease DEF Stages
<1>6. ASSUME NEW r \in Requests, Lose(r)
      PROVE  LockInv'
  <2>1. pc' = [pc EXCEPT ![r] = "aborted"]
    BY <1>6 DEF Lose, EndWithout
  <2>2. CASE pc[r] = "sent"
    <3>1. queue' = Tail(queue)
      BY <1>6, <2>2 DEF Lose
    <3> QED
      BY <2>1, <2>2, <3>1, LockRelease DEF Stages
  <2>3. CASE pc[r] = "planning" /\ UNCHANGED queue
    BY <2>1, <2>3, LockFrame DEF TypeOK
  <2> QED
    BY <1>6, <2>2, <2>3 DEF Lose
<1>7. CASE Crash
  <2>1. \A r \in Requests : pc'[r] \notin {"queued", "sent"}
    BY <1>7 DEF Crash, Over
  <2> QED
    BY <1>7, <2>1 DEF Crash, LockInv
<1>8. CASE ConsoleEdit \/ UNCHANGED vars
  BY <1>8, LockFrame DEF ConsoleEdit, backendVars, vars
<1> QED
  BY <1>1, <1>2, <1>3, <1>4, <1>5, <1>6, <1>7, <1>8 DEF Next, Applies, Finished

-----------------------------------------------------------------------------
(***************************************************************************)
(* The audit log.                                                          *)
(***************************************************************************)

\* RequestInv(s) speaks of nothing but these parts of s.
LEMMA RequestFrame ==
  ASSUME NEW s \in Requests, RequestInv(s),
         pc'[s] = pc[s], revs'[s] = revs[s], cur'[s] = cur[s],
         status'[s] = status[s], landed'[s] = landed[s], wire'[s] = wire[s]
  PROVE  RequestInv(s)'
BY DEF RequestInv, Pending, AppliedPrefix, Between, InExchange, Failed, Records

\* A step that changes these parts of one request only has to be looked at there.
LEMMA OnlyOne ==
  ASSUME AuditInv, NEW r \in Requests, RequestInv(r)',
         \A s \in Requests \ {r} :
           /\ pc'[s] = pc[s] /\ revs'[s] = revs[s] /\ cur'[s] = cur[s]
           /\ status'[s] = status[s] /\ landed'[s] = landed[s] /\ wire'[s] = wire[s]
  PROVE  AuditInv'
BY RequestFrame DEF AuditInv

\* Every step keeps the stages' bookkeeping, whatever faults there are.
LEMMA AuditStep == IInv /\ [Next]_vars => AuditInv'
<1> SUFFICES ASSUME IInv, [Next]_vars
             PROVE  AuditInv'
  OBVIOUS
<1> USE DEF IInv, gatewayVars, planVars, backendVars, databaseVars
<1>1. ASSUME NEW r \in Requests, Submit(r)
      PROVE  AuditInv'
  <2>1. RequestInv(r)'
    BY <1>1 DEF Submit, TypeOK, AuditInv, RequestInv, Pending
  <2> QED
    BY <1>1, <2>1, OnlyOne DEF Submit, TypeOK
<1>2. ASSUME NEW r \in Requests, NEW t \in Requests, SubmitRollback(r, t)
      PROVE  AuditInv'
  <2>1. PICK f \in NewestFirst(Undoable(t), Len(revs[t])) :
          revs' = [revs EXCEPT ![r] = [k \in DOMAIN f |-> Undoing(revs[t][f[k]])]]
    BY <1>2 DEF SubmitRollback
  <2>2. revs'[r] \in Seq(Revisions)
    BY <2>1, RollbackPlanType DEF TypeOK
  <2>3. \A k \in DOMAIN revs'[r] : revs'[r][k].outcome = "pending"
    BY <2>1 DEF TypeOK, Undoing, Revision
  <2>4. /\ pc'[r] = "applying" /\ cur'[r] = 1 /\ landed'[r] = << >>
        /\ wire'[r].state = "none" /\ status'[r] = "none"
    BY <1>2 DEF SubmitRollback, TypeOK, AuditInv, RequestInv
  <2>5. RequestInv(r)'
    BY <2>2, <2>3, <2>4 DEF RequestInv, Pending, AppliedPrefix, Between
  <2> QED
    BY <1>2, <2>5, OnlyOne DEF SubmitRollback, TypeOK
<1>3. ASSUME NEW r \in Requests, NEW before \in Contents \cup {None},
             pc[r] = "planning", todo[r] # << >>, Plan(r, before)
      PROVE  AuditInv'
  <2> DEFINE rev == Revision(Head(todo[r]).op, Head(todo[r]).id, before,
                             Head(todo[r]).content)
  <2>1. Head(todo[r]) \in Items
    BY <1>3 DEF TypeOK
  <2>2. rev \in Revisions /\ rev.outcome = "pending"
    BY <2>1, RevisionType DEF Items, Revision
  <2>3. revs'[r] = Append(revs[r], rev) /\ revs[r] \in Seq(Revisions)
    BY <1>3 DEF Plan, TypeOK
  <2>4. Pending(r)'
    BY <1>3, <2>2, <2>3, AppendProperties DEF Plan, TypeOK, AuditInv, RequestInv, Pending
  <2>5. RequestInv(r)'
    BY <1>3, <2>4 DEF Plan, TypeOK, AuditInv, RequestInv
  <2> QED
    BY <1>3, <2>5, OnlyOne DEF Plan, TypeOK
<1>4. ASSUME NEW r \in Requests, PlanSkip(r)
      PROVE  AuditInv'
  BY <1>4, RequestFrame DEF PlanSkip, AuditInv
<1>5. ASSUME NEW r \in Requests, Refuse(r)
      PROVE  AuditInv'
  <2>1. RequestInv(r)'
    BY <1>5 DEF Refuse, ReadFails, EndWithout, TypeOK, AuditInv, RequestInv
  <2> QED
    BY <1>5, <2>1, OnlyOne DEF Refuse, EndWithout, TypeOK
<1>6. ASSUME NEW r \in Requests, CreateChangeset(r)
      PROVE  AuditInv'
  <2>1. RequestInv(r)'
    BY <1>6 DEF CreateChangeset, TypeOK, AuditInv, RequestInv, Pending, AppliedPrefix, Between
  <2> QED
    BY <1>6, <2>1, OnlyOne DEF CreateChangeset, TypeOK
<1>7. ASSUME NEW r \in Requests, StartRevision(r)
      PROVE  AuditInv'
  <2>1. RequestInv(r)'
    BY <1>7 DEF StartRevision, TypeOK, AuditInv, RequestInv, Pending, AppliedPrefix, Between,
         Records
  <2> QED
    BY <1>7, <2>1, OnlyOne DEF StartRevision, TypeOK
<1>8. ASSUME NEW r \in Requests, FailValidation(r) \/ DatabaseFails(r) \/ Lose(r)
      PROVE  AuditInv'
  <2>1. pc' = [pc EXCEPT ![r] = "aborted"] /\ UNCHANGED << landed, cur, status >>
        /\ revs' = [revs EXCEPT ![r] = << >>]
    BY <1>8 DEF FailValidation, DatabaseFails, Lose, EndWithout
  <2>2. pc[r] # "done" /\ \A s \in Requests \ {r} : wire'[s] = wire[s]
    BY <1>8 DEF FailValidation, DatabaseFails, Lose, TypeOK
  <2>3. RequestInv(r)'
    BY <2>1, <2>2 DEF TypeOK, AuditInv, RequestInv
  <2> QED
    BY <2>1, <2>2, <2>3, OnlyOne DEF TypeOK
<1>9. ASSUME NEW r \in Requests, Send(r)
      PROVE  AuditInv'
  <2>1. /\ wire'[r] = Message("sent", revs[r][cur[r]])
        /\ pc[r] = "queued" /\ pc'[r] = "sent"
        /\ UNCHANGED << landed, revs, cur, status >>
    BY <1>9 DEF Send, TypeOK, Current
  <2>2. InExchange(r)'
    BY <2>1 DEF AuditInv, RequestInv, Between, InExchange, Message
  <2>3. AppliedPrefix(r)' /\ Pending(r)'
    BY <2>1 DEF AuditInv, RequestInv, AppliedPrefix, Pending, Records
  <2>4. RequestInv(r)'
    BY <2>1, <2>2, <2>3 DEF AuditInv, RequestInv
  <2> QED
    BY <1>9, <2>4, OnlyOne DEF Send, TypeOK
<1>10. ASSUME NEW r \in Requests, NEW i \in Targets, Execute(r, i),
              wire[r].state = "sent", wire[r].op # "create" => i = wire[r].id
       PROVE  AuditInv'
  <2> DEFINE w == [op |-> wire[r].op, id |-> i, prior |-> store[i], now |-> wire[r].after]
  <2>1. /\ UNCHANGED << pc, revs, cur, status >>
        /\ wire'[r] = [wire[r] EXCEPT !.state = "ok", !.id = i]
        /\ landed'[r] = Append(landed[r], w)
    BY <1>10 DEF Execute, TypeOK
  <2>2. w \in Writes /\ landed[r] \in Seq(Writes)
    BY DEF TypeOK, Writes, Wires
  <2>3. /\ landed'[r] \in Seq(Writes) /\ Len(landed'[r]) = Len(landed[r]) + 1
        /\ \A k \in 1 .. Len(landed[r]) : landed'[r][k] = landed[r][k]
        /\ landed'[r][Len(landed[r]) + 1] = w
    BY <2>1, <2>2, AppendProperties
  <2>4. ASSUME pc[r] = "sent"
        PROVE  RequestInv(r)'
    <3>1. InExchange(r) /\ AppliedPrefix(r) /\ Pending(r) /\ status[r] = "none"
      BY <2>4 DEF AuditInv, RequestInv
    <3>2. cur[r] \in Nat \ {0} /\ wire[r] \in Wires
      BY DEF TypeOK
    <3>3. InExchange(r)'
      BY <1>10, <2>1, <2>3, <3>1, <3>2 DEF InExchange, Wires
    <3>4. AppliedPrefix(r)'
      BY <1>10, <2>1, <2>3, <3>1, <3>2 DEF InExchange, AppliedPrefix, Records
    <3> QED
      BY <2>1, <2>4, <3>1, <3>3, <3>4 DEF RequestInv, Pending
  <2>5. ASSUME pc[r] # "sent"
        PROVE  RequestInv(r)'
    <3>1. pc[r] = "aborted"
      BY <1>10, <2>5 DEF AuditInv, RequestInv, Between, TypeOK, Stages
    <3> QED
      BY <2>1, <3>1 DEF AuditInv, RequestInv
  <2>6. RequestInv(r)'
    BY <2>4, <2>5
  <2> QED
    BY <1>10, <2>6, OnlyOne DEF Execute, TypeOK
<1>11. ASSUME NEW r \in Requests, Reject(r)
       PROVE  AuditInv'
  <2>1. /\ wire[r].state = "sent" /\ wire'[r] = [wire[r] EXCEPT !.state = "refused"]
        /\ wire[r] \in Wires /\ UNCHANGED << pc, revs, cur, status, landed >>
    BY <1>11 DEF Reject, TypeOK
  <2>2. RequestInv(r)'
    BY <2>1 DEF AuditInv, RequestInv, Pending, AppliedPrefix, Between, InExchange, Failed,
         Records, Wires
  <2> QED
    BY <1>11, <2>2, OnlyOne DEF Reject, TypeOK
<1>12. ASSUME NEW r \in Requests, Reply(r)
       PROVE  AuditInv'
  <2>1. /\ pc[r] = "sent" /\ pc'[r] = "applying" /\ cur'[r] = cur[r] + 1
        /\ wire[r].state = "ok" /\ wire'[r] = NoWire
        /\ UNCHANGED << landed, status >>
    BY <1>12 DEF Reply, TypeOK
  <2>2. InExchange(r) /\ AppliedPrefix(r) /\ Pending(r) /\ status[r] = "none"
    BY <2>1 DEF AuditInv, RequestInv
  <2>3. /\ cur[r] \in DOMAIN revs[r] /\ cur[r] \in Nat \ {0}
        /\ revs[r] \in Seq(Revisions) /\ revs[r][cur[r]] \in Revisions
    BY <2>2 DEF InExchange, TypeOK
  <2>4. /\ DOMAIN revs'[r] = DOMAIN revs[r] /\ Len(revs'[r]) = Len(revs[r])
        /\ \A k \in DOMAIN revs[r] : k # cur[r] => revs'[r][k] = revs[r][k]
        /\ revs'[r][cur[r]] = [revs[r][cur[r]] EXCEPT !.outcome = "applied",
                                                      !.id = wire[r].id]
    BY <1>12, <2>3 DEF Reply, TypeOK
  <2>5. /\ revs'[r][cur[r]].outcome = "applied"
        /\ Records(revs'[r][cur[r]], landed[r][cur[r]])
    BY <2>1, <2>2, <2>3, <2>4 DEF InExchange, Records, Revisions
  <2>6. AppliedPrefix(r)'
    <3>1. cur[r] <= Len(revs[r]) /\ Len(landed[r]) = cur[r] /\ Len(revs[r]) \in Nat
      BY <2>1, <2>2, <2>3 DEF InExchange
    <3>2. ASSUME NEW k \in 1 .. cur[r]
          PROVE  /\ revs'[r][k].outcome = "applied"
                 /\ Records(revs'[r][k], landed'[r][k])
      <4>1. CASE k = cur[r]
        BY <2>1, <2>5, <4>1
      <4>2. CASE k # cur[r]
        <5>1. k \in 1 .. (cur[r] - 1) /\ k \in DOMAIN revs[r]
          BY <2>3, <3>1, <4>2
        <5> QED
          BY <2>1, <2>2, <2>4, <4>2, <5>1 DEF AppliedPrefix
      <4> QED
        BY <4>1, <4>2
    <3> QED
      BY <2>1, <2>3, <2>4, <3>1, <3>2 DEF AppliedPrefix, Records
  <2>7. Pending(r)' /\ Between(r)'
    BY <2>1, <2>2, <2>3, <2>4 DEF InExchange, Pending, Between, NoWire
  <2>8. RequestInv(r)'
    BY <2>1, <2>2, <2>6, <2>7 DEF RequestInv
  <2> QED
    BY <1>12, <2>8, OnlyOne DEF Reply, TypeOK
<1>13. ASSUME NEW r \in Requests, ReplyError(r)
       PROVE  AuditInv'
  <2>1. /\ pc[r] = "sent" /\ pc'[r] = "stopped" /\ wire[r].state = "refused"
        /\ wire'[r] = NoWire /\ UNCHANGED << landed, status, cur >>
    BY <1>13 DEF ReplyError, TypeOK
  <2>2. InExchange(r) /\ AppliedPrefix(r) /\ Pending(r) /\ status[r] = "none"
    BY <2>1 DEF AuditInv, RequestInv
  <2>3. /\ cur[r] \in DOMAIN revs[r] /\ cur[r] \in Nat \ {0}
        /\ revs[r] \in Seq(Revisions) /\ revs[r][cur[r]] \in Revisions
    BY <2>2 DEF InExchange, TypeOK
  <2>4. /\ DOMAIN revs'[r] = DOMAIN revs[r] /\ Len(revs'[r]) = Len(revs[r])
        /\ \A k \in DOMAIN revs[r] : k # cur[r] => revs'[r][k] = revs[r][k]
        /\ revs'[r][cur[r]] = [revs[r][cur[r]] EXCEPT !.outcome = "error"]
    BY <1>13, <2>3 DEF ReplyError, TypeOK
  <2>5. revs'[r][cur[r]].outcome = "error"
    BY <2>3, <2>4 DEF Revisions
  <2>6. AppliedPrefix(r)'
    <3>1. ASSUME NEW k \in 1 .. (cur[r] - 1)
          PROVE  revs'[r][k] = revs[r][k]
      BY <2>3, <2>4
    <3> QED
      BY <2>1, <2>2, <2>3, <2>4, <3>1 DEF AppliedPrefix, Records
  <2>7. Failed(r)' /\ Between(r)'
    BY <2>1, <2>2, <2>3, <2>4, <2>5 DEF InExchange, Pending, Failed, Between, NoWire
  <2>8. RequestInv(r)'
    BY <2>1, <2>2, <2>6, <2>7 DEF RequestInv
  <2> QED
    BY <1>13, <2>8, OnlyOne DEF ReplyError, TypeOK
<1>14. ASSUME NEW r \in Requests, Commit(r)
       PROVE  AuditInv'
  <2>1. /\ pc'[r] = "done" /\ UNCHANGED << revs, cur, landed, wire >>
        /\ AppliedPrefix(r) /\ Between(r) /\ cur[r] \in Nat \ {0}
    BY <1>14 DEF Commit, TypeOK, AuditInv, RequestInv
  <2>2. AppliedPrefix(r)' /\ Between(r)'
    BY <2>1 DEF AppliedPrefix, Between, Records
  <2>3. CASE pc[r] = "applying" /\ cur[r] > Len(revs[r])
    <3>1. status'[r] = "applied" /\ cur'[r] = Len(revs'[r]) + 1
      BY <1>14, <2>1, <2>3 DEF Commit, AppliedPrefix, TypeOK
    <3>2. RequestInv(r)'
      BY <2>1, <2>2, <3>1 DEF RequestInv
    <3> QED
      BY <1>14, <3>2, OnlyOne DEF Commit, TypeOK
  <2>4. CASE pc[r] = "stopped"
    <3>1. Failed(r)
      BY <2>4 DEF AuditInv, RequestInv
    <3>2. Applied(r) # {} <=> cur[r] > 1
      <4>1. revs[r] \in Seq(Revisions) /\ cur[r] \in DOMAIN revs[r]
        BY <2>1, <3>1 DEF Failed, TypeOK
      <4>2. \A k \in DOMAIN revs[r] : revs[r][k].outcome = "applied" <=> k < cur[r]
        BY <2>1, <3>1, <4>1 DEF AppliedPrefix, Failed
      <4> QED
        BY <4>1, <4>2 DEF Applied
    <3>3. \/ status'[r] = "partial" /\ cur'[r] > 1
          \/ status'[r] = "failed" /\ cur'[r] = 1
      BY <1>14, <2>1, <2>4, <3>2 DEF Commit, TypeOK
    <3>4. Failed(r)'
      BY <2>1, <3>1 DEF Failed
    <3>5. RequestInv(r)'
      BY <2>1, <2>2, <3>3, <3>4 DEF RequestInv
    <3> QED
      BY <1>14, <3>5, OnlyOne DEF Commit, TypeOK
  <2> QED
    BY <1>14, <2>3, <2>4 DEF Commit
<1>15. CASE Crash
  <2>1. ASSUME NEW s \in Requests
        PROVE  RequestInv(s)'
    <3>1. CASE pc[s] \in Over \cup {"idle"}
      BY <1>15, <2>1, <3>1, RequestFrame DEF Crash, AuditInv
    <3>2. CASE pc[s] \notin Over \cup {"idle"}
      BY <1>15, <2>1, <3>2 DEF Crash, AuditInv, RequestInv, Over
    <3> QED
      BY <3>1, <3>2
  <2> QED
    BY <2>1 DEF AuditInv
<1>16. CASE ConsoleEdit \/ UNCHANGED vars
  BY <1>16, RequestFrame DEF ConsoleEdit, vars, AuditInv
<1>17. ASSUME NEW r \in Requests, PlanCreate(r) \/ PlanRead(r) \/ PlanBlind(r)
       PROVE  AuditInv'
  <2>1. /\ pc[r] = "planning" /\ todo[r] # << >>
        /\ \E before \in Contents \cup {None} : Plan(r, before)
    BY <1>17 DEF PlanCreate, PlanRead, PlanBlind, ReadFails, Exists, Targets, TypeOK
  <2> QED
    BY <1>3, <2>1
<1>18. ASSUME NEW r \in Requests, ExecuteCreate(r) \/ ExecuteOther(r)
       PROVE  AuditInv'
  BY <1>10, <1>18 DEF ExecuteCreate, ExecuteOther, Exists, Targets
<1> QED
  BY <1>1, <1>2, <1>4, <1>5, <1>6, <1>7, <1>8, <1>9, <1>11, <1>12, <1>13, <1>14, <1>15,
     <1>16, <1>17, <1>18 DEF Next, Plans, Applies, Gateway, Finished

-----------------------------------------------------------------------------
(***************************************************************************)
(* The invariant holds, and what follows from it whatever goes wrong.      *)
(***************************************************************************)

\* The backend starts with no request, an unlocked lock and an empty history.
LEMMA InitHolds == Init => IInv
<1> SUFFICES ASSUME Init
             PROVE  IInv
  OBVIOUS
<1> USE DEF Init
<1>1. TypeOK
  <2>1. \A T : << >> \in Seq(T)
    OBVIOUS
  <2>2. "idle" \in Stages
    BY DEF Stages
  <2> QED
    BY <2>1, <2>2, NoWireType, ChangesetsAssumption DEF TypeOK
<1>2. AuditInv
  BY DEF AuditInv, RequestInv, Pending, NoWire
<1>3. LockInv
  BY DEF LockInv
<1> QED
  BY <1>1, <1>2, <1>3 DEF IInv

\* The inductive invariant holds in every reachable state, under every fault.
THEOREM Inductive == Spec => []IInv
<1>1. IInv /\ [Next]_vars => IInv'
  BY TypeStep, AuditStep, LockStep DEF IInv
<1> QED
  BY InitHolds, <1>1, PTL DEF Spec

\* Every variable of the write path keeps its type, whatever goes wrong.
THEOREM TypeCorrect == Spec => []TypeOK
<1>1. IInv => TypeOK
  BY DEF IInv
<1> QED
  BY Inductive, <1>1, PTL

\* What is in the history of request r: the revisions up to the one the loop ended
\* at are applied, that one failed if there is one, and the rest is untouched.
LEMMA HistoryOf ==
  ASSUME IInv, NEW r \in Requests, status[r] # "none"
  PROVE  /\ revs[r] \in Seq(Revisions) /\ cur[r] \in Nat \ {0}
         /\ AppliedPrefix(r) /\ Len(landed[r]) = cur[r] - 1
         /\ \/ status[r] = "applied" /\ cur[r] = Len(revs[r]) + 1
            \/ status[r] = "partial" /\ Failed(r) /\ cur[r] > 1
            \/ status[r] = "failed" /\ Failed(r) /\ cur[r] = 1
         /\ \A k \in DOMAIN revs[r] : revs[r][k].outcome = "applied" <=> k < cur[r]
<1>1. pc[r] = "done" /\ revs[r] \in Seq(Revisions) /\ cur[r] \in Nat \ {0}
  BY DEF IInv, TypeOK, AuditInv, RequestInv
<1>2. AppliedPrefix(r) /\ Len(landed[r]) = cur[r] - 1
  BY <1>1 DEF IInv, AuditInv, RequestInv, Between
<1>3. \/ status[r] = "applied" /\ cur[r] = Len(revs[r]) + 1
      \/ status[r] = "partial" /\ Failed(r) /\ cur[r] > 1
      \/ status[r] = "failed" /\ Failed(r) /\ cur[r] = 1
  BY <1>1 DEF IInv, AuditInv, RequestInv
<1>4. ASSUME NEW k \in DOMAIN revs[r]
      PROVE  revs[r][k].outcome = "applied" <=> k < cur[r]
  <2>1. CASE k < cur[r]
    <3>1. k \in 1 .. (cur[r] - 1)
      BY <1>1, <2>1
    <3> QED
      BY <1>2, <2>1, <3>1 DEF AppliedPrefix
  <2>2. CASE ~(k < cur[r])
    BY <1>1, <1>3, <2>2 DEF Failed
  <2> QED
    BY <2>1, <2>2
<1> QED
  BY <1>1, <1>2, <1>3, <1>4

\* A changeset in the history names exactly the writes the gateway executed for it,
\* under crashes and lost answers too (apply_changeset).
THEOREM HistoryIsAccurate == Spec => []CommittedIsAccurate
<1>1. IInv => CommittedIsAccurate
  <2> SUFFICES ASSUME IInv, NEW r \in Requests, status[r] # "none"
               PROVE  /\ Len(landed[r]) <= Len(revs[r])
                      /\ \A k \in DOMAIN revs[r] :
                           /\ revs[r][k].outcome = "applied" <=> k <= Len(landed[r])
                           /\ k <= Len(landed[r]) => Records(revs[r][k], landed[r][k])
    BY DEF CommittedIsAccurate
  <2> QED
    BY HistoryOf DEF AppliedPrefix
<1> QED
  BY Inductive, <1>1, PTL

\* A changeset that did not apply completely stopped at its first failure, and its
\* status says whether anything was applied before it (apply_changeset).
THEOREM FirstFailureStops == Spec => []StopsAtFirstFailure
<1>1. IInv => StopsAtFirstFailure
  <2> SUFFICES ASSUME IInv, NEW r \in Requests, status[r] # "none"
               PROVE  /\ status[r] = "applied" => Applied(r) = DOMAIN revs[r]
                      /\ status[r] \in {"partial", "failed"} =>
                           \E k \in DOMAIN revs[r] :
                             /\ revs[r][k].outcome = "error"
                             /\ Applied(r) = 1 .. (k - 1)
                             /\ \A j \in DOMAIN revs[r] :
                                  j > k => revs[r][j].outcome = "pending"
                             /\ status[r] = "failed" <=> k = 1
    BY DEF StopsAtFirstFailure
  <2>1. CASE status[r] = "applied"
    BY <2>1, HistoryOf DEF Applied
  <2>2. CASE Failed(r)
    <3>1. cur[r] \in DOMAIN revs[r] /\ Applied(r) = 1 .. (cur[r] - 1)
      BY <2>2, HistoryOf DEF Failed, Applied
    <3>2. status[r] = "failed" <=> cur[r] = 1
      BY <2>2, HistoryOf DEF Failed
    <3>3. status[r] # "applied"
      BY <2>2, HistoryOf DEF Failed
    <3> QED
      BY <2>2, <3>1, <3>2, <3>3 DEF Failed
  <2> QED
    BY <2>1, <2>2, HistoryOf
<1> QED
  BY Inductive, <1>1, PTL

-----------------------------------------------------------------------------
(***************************************************************************)
(* What holds as long as every exchange gets its answer and the backend is *)
(* not restarted.                                                          *)
(***************************************************************************)

Lossless == Faults \cap {"lost", "crash"} = {}

\* A request that has ended leaves nothing on the wire.
NothingLeft == \A r \in Requests : pc[r] = "aborted" => wire[r].state = "none"

\* Nothing is left on the wire: a failed validation comes before the write, a failure of
\* the database after the answer.
LEMMA NothingLeftStep ==
  ASSUME Lossless
  PROVE  IInv /\ NothingLeft /\ [Next]_vars => NothingLeft'
<1> SUFFICES ASSUME IInv, NothingLeft, [Next]_vars, NEW r \in Requests,
                    pc'[r] = "aborted"
             PROVE  wire'[r].state = "none"
  BY DEF NothingLeft
<1> USE DEF IInv, TypeOK, gatewayVars, planVars, backendVars, databaseVars
<1>1. ASSUME NEW s \in Requests, Submit(s) \/ Plans(s) \/ StartRevision(s) \/ Commit(s)
      PROVE  wire'[r].state = "none"
  <2>1. wire' = wire /\ pc[r] = "aborted"
    BY <1>1 DEF Submit, Plans, PlanCreate, PlanRead, PlanBlind, PlanSkip, Plan, Refuse,
         EndWithout, CreateChangeset, StartRevision, Commit
  <2> QED
    BY <2>1 DEF NothingLeft
<1>2. ASSUME NEW s \in Requests, NEW t \in Requests, SubmitRollback(s, t)
      PROVE  wire'[r].state = "none"
  BY <1>2 DEF SubmitRollback, NothingLeft
<1>3. ASSUME NEW s \in Requests, FailValidation(s) \/ DatabaseFails(s)
      PROVE  wire'[r].state = "none"
  <2>1. wire[s].state = "none"
    BY <1>3 DEF FailValidation, DatabaseFails, AuditInv, RequestInv, Between
  <2> QED
    BY <1>3, <2>1 DEF FailValidation, DatabaseFails, EndWithout, NothingLeft
<1>4. ASSUME NEW s \in Requests, Send(s) \/ Reply(s) \/ ReplyError(s)
      PROVE  wire'[r].state = "none"
  <2>1. r # s /\ pc[r] = "aborted" /\ wire'[r] = wire[r]
    BY <1>4 DEF Send, Reply, ReplyError
  <2> QED
    BY <2>1 DEF NothingLeft
<1>5. ASSUME NEW s \in Requests, Gateway(s)
      PROVE  wire'[r].state = "none"
  <2>1. pc[r] = "aborted" /\ wire[s].state = "sent" /\ (r # s => wire'[r] = wire[r])
    BY <1>5 DEF Gateway, ExecuteCreate, ExecuteOther, Execute, Reject
  <2> QED
    BY <2>1 DEF NothingLeft
<1>6. ~Crash /\ \A s \in Requests : ~Lose(s)
  BY DEF Lossless, Crash, Lose
<1>7. CASE ConsoleEdit \/ UNCHANGED vars
  BY <1>7 DEF ConsoleEdit, vars, NothingLeft
<1> QED
  BY <1>1, <1>2, <1>3, <1>4, <1>5, <1>6, <1>7 DEF Next, Applies, Finished

\* As long as answers are not lost, the lock lets the gateway see one write of the
\* backend at a time (UnifiClient).
THEOREM OneAtATime ==
  ASSUME Lossless
  PROVE  Spec => []OneWriteAtATime
<1>1. Init => NothingLeft
  BY DEF Init, NothingLeft
<1>2. IInv /\ NothingLeft /\ [Next]_vars => NothingLeft'
  BY NothingLeftStep
<1>3. IInv /\ NothingLeft => OneWriteAtATime
  <2> SUFFICES ASSUME IInv, NothingLeft, NEW r \in Requests, NEW s \in Requests,
                      wire[r].state = "sent", wire[s].state = "sent"
               PROVE  r = s
    BY DEF OneWriteAtATime
  <2>1. \A q \in Requests : wire[q].state = "sent" => pc[q] = "sent"
    BY DEF IInv, TypeOK, Stages, AuditInv, RequestInv, Between, NothingLeft
  <2> QED
    BY <2>1 DEF IInv, LockInv
<1> QED
  BY Inductive, <1>1, <1>2, <1>3, PTL DEF Spec

-----------------------------------------------------------------------------
(***************************************************************************)
(* What holds when, besides, the database stores what it is given and      *)
(* every body asks for records that validate.                              *)
(***************************************************************************)

\* Nothing but UnifiErrors goes wrong.
OnlyUnifiErrors == Faults \cap {"lost", "database", "crash"} = {}

\* The item says what the record is to be.
Says(item) == item.op # "delete" /\ item.id \notin Clients => item.content # None

WellFormed == \A bd \in Bodies : \A k \in DOMAIN bd.items : Says(bd.items[k])

\* Nothing that is still to be applied fails to validate, so no request is aborted.
ValidInv(r) ==
  /\ pc[r] # "aborted"
  /\ \A k \in DOMAIN todo[r] : Says(todo[r][k])
  /\ \A k \in DOMAIN revs[r] :
       revs[r][k].outcome = "pending" => ~Malformed(revs[r][k])

Valid == \A r \in Requests : ValidInv(r)

\* A step that touches the plan of one request at most.
LEMMA ValidFrame ==
  ASSUME TypeOK, Valid, NEW r \in Requests, ValidInv(r)',
         \A s \in Requests \ {r} : /\ pc'[s] = pc[s]
                                   /\ todo'[s] = todo[s]
                                   /\ revs'[s] = revs[s]
  PROVE  Valid'
<1>1. ASSUME NEW s \in Requests \ {r}
      PROVE  ValidInv(s)'
  BY <1>1 DEF Valid, ValidInv, Malformed
<1> QED
  BY <1>1 DEF Valid

\* Planning the next item keeps the plan valid.
LEMMA ValidPlan ==
  ASSUME TypeOK, Valid, NEW r \in Requests, todo[r] # << >>,
         NEW before \in Contents \cup {None}, Plan(r, before)
  PROVE  Valid'
<1>1. /\ todo[r] \in Seq(Items) /\ revs[r] \in Seq(Revisions) /\ Len(todo[r]) > 0
      /\ ValidInv(r)
  BY DEF TypeOK, Valid
<1>2. Says(Head(todo[r]))
  BY <1>1 DEF ValidInv
<1>3. \A k \in DOMAIN Tail(todo[r]) : Says(Tail(todo[r])[k])
  <2>1. ASSUME NEW k \in DOMAIN Tail(todo[r])
        PROVE  k + 1 \in DOMAIN todo[r] /\ Tail(todo[r])[k] = todo[r][k + 1]
    BY <1>1, HeadTailProperties
  <2> QED
    BY <1>1, <2>1 DEF ValidInv
<1> DEFINE new == Revision(Head(todo[r]).op, Head(todo[r]).id, before, Head(todo[r]).content)
<1>4. ~Malformed(new) /\ new \in Revisions
  <2>1. Head(todo[r]) \in Items
    BY <1>1
  <2> QED
    BY <1>2, <2>1, RevisionType DEF Says, Malformed, Revision, Items
<1>5. revs'[r] = Append(revs[r], new) /\ todo'[r] = Tail(todo[r]) /\ pc' = pc
  BY DEF Plan, TypeOK
<1>6. ASSUME NEW k \in DOMAIN revs'[r], revs'[r][k].outcome = "pending"
      PROVE  ~Malformed(revs'[r][k])
  <2>1. CASE k \in DOMAIN revs[r]
    BY <1>1, <1>4, <1>5, <1>6, <2>1, AppendProperties DEF ValidInv
  <2>2. CASE k \notin DOMAIN revs[r]
    BY <1>1, <1>4, <1>5, <2>2, AppendProperties
  <2> QED
    BY <2>1, <2>2
<1>7. ValidInv(r)'
  BY <1>1, <1>3, <1>5, <1>6 DEF ValidInv, Malformed
<1> QED
  BY <1>7, ValidFrame DEF Plan, TypeOK

\* The inverse of a revision that has one validates (build_rollback).
LEMMA ValidUndoing ==
  ASSUME TypeOK, NEW t \in Requests, NEW k \in Undoable(t)
  PROVE  ~Malformed(Undoing(revs[t][k]))
<1>1. revs[t][k] \in Revisions
  BY DEF Undoable, TypeOK
<1>2. Undoing(revs[t][k]).id \in Clients <=> revs[t][k].id \in Clients
  BY ChangesetsAssumption DEF Undoing, Undone, Revision, Targets
<1>3. Undoing(revs[t][k]).after = revs[t][k].before
  BY DEF Undoing, Revision
<1>4. revs[t][k].op = "create" => Undoing(revs[t][k]).op = "delete"
  BY DEF Undoing, Revision, InverseOp
<1> QED
  BY <1>2, <1>3, <1>4 DEF Undoable, Malformed

\* Every step keeps what is still to be applied valid.
LEMMA ValidStep ==
  ASSUME OnlyUnifiErrors, WellFormed
  PROVE  IInv /\ Valid /\ [Next]_vars => Valid'
<1> SUFFICES ASSUME IInv, Valid, [Next]_vars
             PROVE  Valid'
  OBVIOUS
<1> USE DEF IInv, TypeOK, gatewayVars, planVars, backendVars, databaseVars
<1>1. ASSUME NEW r \in Requests, Submit(r)
      PROVE  Valid'
  <2>1. PICK bd \in Bodies : todo' = [todo EXCEPT ![r] = bd.items]
    BY <1>1 DEF Submit
  <2>2. \A k \in DOMAIN todo'[r] : Says(todo'[r][k])
    BY <2>1 DEF WellFormed
  <2>3. ValidInv(r)'
    BY <1>1, <2>2 DEF Submit, Valid, ValidInv, Malformed
  <2> QED
    BY <1>1, <2>1, <2>3, ValidFrame DEF Submit
<1>2. ASSUME NEW r \in Requests, NEW t \in Requests, SubmitRollback(r, t)
      PROVE  Valid'
  <2>1. PICK f \in NewestFirst(Undoable(t), Len(revs[t])) :
           revs' = [revs EXCEPT ![r] = [k \in DOMAIN f |-> Undoing(revs[t][f[k]])]]
    BY <1>2 DEF SubmitRollback
  <2>2. \A k \in DOMAIN f : f[k] \in Undoable(t)
    <3>1. PICK m \in 0 .. Len(revs[t]) : f \in [1 .. m -> Undoable(t)]
      BY DEF NewestFirst
    <3> QED
      BY <3>1
  <2>3. \A k \in DOMAIN revs'[r] : ~Malformed(revs'[r][k])
    BY <2>1, <2>2, ValidUndoing
  <2>4. ValidInv(r)'
    BY <1>2, <2>3 DEF SubmitRollback, Valid, ValidInv, Malformed
  <2> QED
    BY <1>2, <2>1, <2>4, ValidFrame DEF SubmitRollback
<1>3. ASSUME NEW r \in Requests, PlanCreate(r) \/ PlanRead(r) \/ PlanBlind(r)
      PROVE  Valid'
  <2>1. todo[r] # << >> /\ \E before \in Contents \cup {None} : Plan(r, before)
    BY <1>3 DEF PlanCreate, PlanRead, PlanBlind, ReadFails, Exists, Targets
  <2> QED
    BY <2>1, ValidPlan
<1>4. ASSUME NEW r \in Requests, PlanSkip(r)
      PROVE  Valid'
  <2>1. /\ todo[r] \in Seq(Items) /\ todo[r] # << >> /\ todo'[r] = Tail(todo[r])
        /\ UNCHANGED << pc, revs >>
    BY <1>4 DEF PlanSkip, ReadFails
  <2>2. ASSUME NEW k \in DOMAIN todo'[r]
        PROVE  k + 1 \in DOMAIN todo[r] /\ todo'[r][k] = todo[r][k + 1]
    BY <2>1, HeadTailProperties
  <2>3. ValidInv(r)'
    BY <2>1, <2>2 DEF Valid, ValidInv, Malformed
  <2> QED
    BY <1>4, <2>1, <2>3, ValidFrame DEF PlanSkip
<1>5. ASSUME NEW r \in Requests, Refuse(r)
      PROVE  Valid'
  <2>1. ValidInv(r)'
    BY <1>5 DEF Refuse, EndWithout, ValidInv, Malformed
  <2> QED
    BY <1>5, <2>1, ValidFrame DEF Refuse, EndWithout
<1>6. ASSUME NEW r \in Requests
      PROVE  ~FailValidation(r)
  BY DEF FailValidation, Current, Valid, ValidInv, AuditInv, RequestInv, Pending
<1>7. ASSUME NEW r \in Requests, CreateChangeset(r) \/ StartRevision(r) \/ Send(r) \/ Commit(r)
      PROVE  Valid'
  <2>1. /\ UNCHANGED << todo, revs >>
        /\ pc'[r] # "aborted" /\ \A s \in Requests \ {r} : pc'[s] = pc[s]
    BY <1>7 DEF CreateChangeset, StartRevision, Send, Commit
  <2>2. ValidInv(r)'
    BY <2>1 DEF Valid, ValidInv, Malformed
  <2> QED
    BY <2>1, <2>2, ValidFrame
<1>8. ASSUME NEW r \in Requests, Reply(r) \/ ReplyError(r)
      PROVE  Valid'
  <2>1. /\ cur[r] \in DOMAIN revs[r] /\ revs[r] \in Seq(Revisions)
        /\ revs[r][cur[r]] \in Revisions
    BY <1>8 DEF Reply, ReplyError, AuditInv, RequestInv, InExchange
  <2>2. /\ DOMAIN revs'[r] = DOMAIN revs[r]
        /\ revs'[r][cur[r]].outcome # "pending"
        /\ \A k \in DOMAIN revs[r] : k # cur[r] => revs'[r][k] = revs[r][k]
    <3>1. CASE Reply(r)
      BY <2>1, <3>1 DEF Reply, Revisions
    <3>2. CASE ReplyError(r)
      BY <2>1, <3>2 DEF ReplyError, Revisions
    <3> QED
      BY <1>8, <3>1, <3>2
  <2>3. /\ todo' = todo /\ pc'[r] # "aborted"
        /\ \A s \in Requests \ {r} : pc'[s] = pc[s] /\ revs'[s] = revs[s]
    BY <1>8 DEF Reply, ReplyError
  <2>4. ValidInv(r)'
    BY <2>2, <2>3 DEF Valid, ValidInv, Malformed
  <2> QED
    BY <2>3, <2>4, ValidFrame
<1>9. ASSUME NEW r \in Requests, Gateway(r)
      PROVE  UNCHANGED << pc, todo, revs >>
  BY <1>9 DEF Gateway, ExecuteCreate, ExecuteOther, Execute, Reject
<1>10. ~Crash /\ \A r \in Requests : ~Lose(r) /\ ~DatabaseFails(r)
  BY DEF OnlyUnifiErrors, Crash, Lose, DatabaseFails
<1>11. CASE UNCHANGED << pc, todo, revs >>
  BY <1>11 DEF Valid, ValidInv, Malformed
<1>12. ConsoleEdit \/ UNCHANGED vars => UNCHANGED << pc, todo, revs >>
  BY DEF ConsoleEdit, vars
<1> QED
  BY <1>1, <1>2, <1>3, <1>4, <1>5, <1>6, <1>7, <1>8, <1>9, <1>10, <1>11, <1>12
     DEF Next, Plans, Applies, Finished

\* The plans are valid in every reachable state.
LEMMA AlwaysValid ==
  ASSUME OnlyUnifiErrors, WellFormed
  PROVE  Spec => []Valid
<1>1. Init => Valid
  <2>1. DOMAIN << >> = {}
    OBVIOUS
  <2>2. ASSUME Init, NEW r \in Requests
        PROVE  pc[r] = "idle" /\ todo[r] = << >> /\ revs[r] = << >>
    BY <2>2 DEF Init
  <2> QED
    BY <2>1, <2>2 DEF Valid, ValidInv
<1>2. IInv /\ Valid /\ [Next]_vars => Valid'
  BY ValidStep
<1> QED
  BY Inductive, <1>1, <1>2, PTL DEF Spec

-----------------------------------------------------------------------------
(***************************************************************************)
(* The write path implements the ledger.                                   *)
(***************************************************************************)

\* A step that ends no request and executes no write is invisible in the ledger.
LEMMA Stutters ==
  ASSUME UNCHANGED landed,
         \A s \in Requests : \/ pc'[s] = pc[s] /\ revs'[s] = revs[s]
                             \/ pc[s] \notin Over /\ pc'[s] \notin Over
  PROVE  UNCHANGED Ledger!vars
<1>1. \A s \in Requests : WrittenBy(s)' = WrittenBy(s)
  BY DEF WrittenBy
<1>2. \A s \in Requests : Booked(s)' = Booked(s)
  BY DEF Booked, Entry, Applied, Over
<1>3. [r \in Requests |-> WrittenBy(r)]' = [r \in Requests |-> WrittenBy(r)]
  BY <1>1
<1>4. [r \in Requests |-> Booked(r)]' = [r \in Requests |-> Booked(r)]
  BY <1>2
<1> QED
  BY <1>3, <1>4 DEF Ledger!vars

\* A step that ends request r closes it, when what it books is what r has written.
LEMMA Closes ==
  ASSUME NEW r \in Requests, UNCHANGED landed, pc[r] \notin Over,
         Booked(r)' = WrittenBy(r),
         \A s \in Requests \ {r} : pc'[s] = pc[s] /\ revs'[s] = revs[s]
  PROVE  Ledger!Close(r)
<1>1. \A s \in Requests : WrittenBy(s)' = WrittenBy(s)
  BY DEF WrittenBy
<1>2. \A s \in Requests \ {r} : Booked(s)' = Booked(s)
  BY DEF Booked, Entry, Applied
<1>3. Booked(r) = None
  BY DEF Booked, Over
<1>4. [s \in Requests |-> WrittenBy(s)]' = [s \in Requests |-> WrittenBy(s)]
  BY <1>1
<1>5. [s \in Requests |-> Booked(s)]'
        = [[s \in Requests |-> Booked(s)] EXCEPT ![r] = [s \in Requests |-> WrittenBy(s)][r]]
  BY <1>2
<1> QED
  BY <1>3, <1>4, <1>5 DEF Ledger!Close

\* The gateway executes a write that is on the wire: it lands.
LEMMA Lands ==
  ASSUME IInv, Valid, NEW r \in Requests, NEW i \in Targets, wire[r].state = "sent",
         Execute(r, i)
  PROVE  \E e \in [op : Ops, id : Targets, now : Contents \cup {None}] : Ledger!Land(r, e)
<1> DEFINE e == Said(wire[r].op, i, wire[r].after)
<1> DEFINE w == [op |-> wire[r].op, id |-> i, prior |-> store[i], now |-> wire[r].after]
<1>1. wire[r] \in Wires /\ landed \in [Requests -> Seq(Writes)]
  BY DEF IInv, TypeOK
<1>2. e \in [op : Ops, id : Targets, now : Contents \cup {None}]
  BY <1>1 DEF Said, Wires
<1>3. pc[r] \notin Over /\ pc' = pc /\ revs' = revs
  BY DEF IInv, TypeOK, Stages, AuditInv, RequestInv, Between, Valid, ValidInv, Over, Execute,
     backendVars, databaseVars
<1>4. \A s \in Requests : Booked(s)' = Booked(s)
  BY <1>3 DEF Booked, Entry, Applied
<1>5. landed' = [landed EXCEPT ![r] = Append(landed[r], w)]
  BY DEF Execute
<1>6. WrittenBy(r)' = Append(WrittenBy(r), e)
  <2>1. w \in Writes /\ landed[r] \in Seq(Writes)
    BY <1>1 DEF Writes, Wires, IInv, TypeOK
  <2>2. /\ landed'[r] = Append(landed[r], w)
        /\ DOMAIN landed'[r] = 1 .. (Len(landed[r]) + 1)
        /\ \A k \in 1 .. Len(landed[r]) : landed'[r][k] = landed[r][k]
        /\ landed'[r][Len(landed[r]) + 1] = w
    BY <1>1, <1>5, <2>1
  <2>3. WrittenBy(r) \in Seq([op : Ops, id : Targets, now : Contents \cup {None}])
    <3>1. ASSUME NEW k \in 1 .. Len(landed[r])
          PROVE  Said(landed[r][k].op, landed[r][k].id, landed[r][k].now)
                   \in [op : Ops, id : Targets, now : Contents \cup {None}]
      <4>1. landed[r][k] \in Writes
        BY <2>1
      <4> QED
        BY <4>1 DEF Said, Writes
    <3>2. WrittenBy(r) \in [1 .. Len(landed[r]) ->
                             [op : Ops, id : Targets, now : Contents \cup {None}]]
      BY <2>1, <3>1 DEF WrittenBy
    <3>3. Len(landed[r]) \in Nat
      BY <2>1
    <3> QED
      BY <3>2, <3>3, SeqDef
  <2>4. Len(WrittenBy(r)) = Len(landed[r])
    BY <2>1 DEF WrittenBy
  <2>5. /\ DOMAIN Append(WrittenBy(r), e) = 1 .. (Len(landed[r]) + 1)
        /\ \A k \in 1 .. Len(landed[r]) : Append(WrittenBy(r), e)[k] = WrittenBy(r)[k]
        /\ Append(WrittenBy(r), e)[Len(landed[r]) + 1] = e
    BY <1>2, <2>3, <2>4
  <2>6. WrittenBy(r)' = [k \in 1 .. (Len(landed[r]) + 1) |->
           Said(landed'[r][k].op, landed'[r][k].id, landed'[r][k].now)]
    BY <2>2 DEF WrittenBy, Said
  <2>7. Append(WrittenBy(r), e)
          = [k \in 1 .. (Len(landed[r]) + 1) |-> Append(WrittenBy(r), e)[k]]
    BY <1>2, <2>3, <2>4, <2>5, AppendProperties
  <2>8. ASSUME NEW k \in 1 .. (Len(landed[r]) + 1)
        PROVE  Said(landed'[r][k].op, landed'[r][k].id, landed'[r][k].now)
                 = Append(WrittenBy(r), e)[k]
    <3>1. CASE k = Len(landed[r]) + 1
      BY <2>2, <2>5, <3>1 DEF Said
    <3>2. CASE k # Len(landed[r]) + 1
      <4>1. k \in 1 .. Len(landed[r]) /\ k \in DOMAIN landed[r]
        BY <2>1, <3>2
      <4> QED
        BY <2>2, <2>5, <4>1 DEF WrittenBy
    <3> QED
      BY <3>1, <3>2
  <2> QED
    BY <2>6, <2>7, <2>8
<1>7. \A s \in Requests \ {r} : WrittenBy(s)' = WrittenBy(s)
  BY <1>1, <1>5 DEF WrittenBy
<1>8. [s \in Requests |-> WrittenBy(s)]'
        = [[s \in Requests |-> WrittenBy(s)] EXCEPT ![r]
             = Append([s \in Requests |-> WrittenBy(s)][r], e)]
  BY <1>6, <1>7
<1>9. [s \in Requests |-> Booked(s)]' = [s \in Requests |-> Booked(s)]
  BY <1>4
<1>10. Booked(r) = None
  BY <1>3 DEF Booked, Over
<1>11. Ledger!Land(r, e)
  BY <1>8, <1>9, <1>10 DEF Ledger!Land
<1> QED
  BY <1>2, <1>11

\* What the history says of a request at its commit is what was written for it.
LEMMA CommitBooks ==
  ASSUME IInv, NEW r \in Requests, Commit(r)
  PROVE  Booked(r)' = WrittenBy(r)
<1>1. /\ pc'[r] = "done" /\ UNCHANGED << revs, landed >>
      /\ pc[r] \in {"applying", "stopped"}
      /\ revs[r] \in Seq(Revisions) /\ cur[r] \in Nat \ {0}
      /\ landed[r] \in Seq(Writes)
  BY DEF IInv, TypeOK, Commit, gatewayVars
<1>2. AppliedPrefix(r) /\ Len(landed[r]) = cur[r] - 1
  BY <1>1 DEF IInv, AuditInv, RequestInv, Between
<1>3. \A k \in DOMAIN revs[r] : revs[r][k].outcome = "applied" <=> k < cur[r]
  <2>1. \/ pc[r] = "applying" /\ cur[r] > Len(revs[r])
        \/ Failed(r)
    BY DEF Commit, IInv, AuditInv, RequestInv
  <2>2. ASSUME NEW k \in DOMAIN revs[r]
        PROVE  revs[r][k].outcome = "applied" <=> k < cur[r]
    <3>1. CASE k < cur[r]
      <4>1. k \in 1 .. (cur[r] - 1)
        BY <1>1, <3>1
      <4> QED
        BY <1>2, <3>1, <4>1 DEF AppliedPrefix
    <3>2. CASE ~(k < cur[r])
      BY <1>1, <2>1, <3>2 DEF Failed
    <3> QED
      BY <3>1, <3>2
  <2> QED
    BY <2>2
<1>4. Applied(r) = DOMAIN landed[r]
  BY <1>1, <1>2, <1>3 DEF Applied, AppliedPrefix
<1>5. ASSUME NEW k \in DOMAIN landed[r]
      PROVE  Said(revs[r][k].op, revs[r][k].id, revs[r][k].after)
               = Said(landed[r][k].op, landed[r][k].id, landed[r][k].now)
  BY <1>1, <1>2, <1>5 DEF AppliedPrefix, Records, Said
<1>6. Booked(r)' = [k \in Applied(r) |-> Said(revs[r][k].op, revs[r][k].id, revs[r][k].after)]
  BY <1>1 DEF Booked, Entry, Applied
<1> QED
  BY <1>4, <1>5, <1>6 DEF WrittenBy

\* Every step of the write path is a step of the ledger or invisible there.
LEMMA LedgerStep ==
  ASSUME OnlyUnifiErrors, WellFormed
  PROVE  IInv /\ Valid /\ [Next]_vars => [Ledger!Next]_(Ledger!vars)
<1> SUFFICES ASSUME IInv, Valid, [Next]_vars
             PROVE  Ledger!Next \/ UNCHANGED Ledger!vars
  OBVIOUS
<1> USE DEF gatewayVars, planVars, backendVars, databaseVars
<1>1. ASSUME NEW r \in Requests,
             \/ Submit(r) \/ (\E t \in Requests : SubmitRollback(r, t))
             \/ PlanCreate(r) \/ PlanRead(r) \/ PlanBlind(r) \/ PlanSkip(r)
             \/ CreateChangeset(r) \/ StartRevision(r) \/ Send(r)
             \/ Reply(r) \/ ReplyError(r)
      PROVE  UNCHANGED Ledger!vars
  <2>1. /\ UNCHANGED landed /\ pc[r] \notin Over /\ pc'[r] \notin Over
        /\ \A s \in Requests \ {r} : pc'[s] = pc[s] /\ revs'[s] = revs[s]
    BY <1>1 DEF Submit, SubmitRollback, PlanCreate, PlanRead, PlanBlind, PlanSkip, Plan,
         ReadFails, CreateChangeset, StartRevision, Send, Reply, ReplyError, Over, IInv, TypeOK
  <2> QED
    BY <2>1, Stutters
<1>2. ASSUME NEW r \in Requests, Refuse(r)
      PROVE  Ledger!Close(r)
  <2>1. /\ UNCHANGED landed /\ pc[r] = "planning" /\ pc'[r] = "refused"
        /\ \A s \in Requests \ {r} : pc'[s] = pc[s] /\ revs'[s] = revs[s]
    BY <1>2 DEF Refuse, ReadFails, EndWithout, IInv, TypeOK
  <2>2. landed[r] = << >>
    BY <2>1 DEF IInv, AuditInv, RequestInv
  <2>3. Booked(r)' = << >> /\ WrittenBy(r) = << >>
    BY <2>1, <2>2 DEF Booked, WrittenBy
  <2> QED
    BY <2>1, <2>3, Closes DEF Over
<1>3. ASSUME NEW r \in Requests, Commit(r)
      PROVE  Ledger!Close(r)
  <2>1. /\ UNCHANGED landed /\ pc[r] \notin Over
        /\ \A s \in Requests \ {r} : pc'[s] = pc[s] /\ revs'[s] = revs[s]
    BY <1>3 DEF Commit, Over, IInv, TypeOK
  <2> QED
    BY <1>3, <2>1, CommitBooks, Closes
<1>4. ASSUME NEW r \in Requests, ExecuteCreate(r) \/ ExecuteOther(r)
      PROVE  Ledger!Next
  <2>1. wire[r].state = "sent" /\ \E i \in Targets : Execute(r, i)
    BY <1>4 DEF ExecuteCreate, ExecuteOther, Exists, Targets
  <2> QED
    BY <2>1, Lands DEF Ledger!Next
<1>5. (\E r \in Requests : Reject(r)) \/ ConsoleEdit \/ UNCHANGED vars
        => UNCHANGED Ledger!vars
  BY Stutters DEF Reject, ConsoleEdit, vars
<1>6. ~Crash /\ \A r \in Requests : ~Lose(r) /\ ~DatabaseFails(r)
  BY DEF OnlyUnifiErrors, Crash, Lose, DatabaseFails
<1>7. \A r \in Requests : ~FailValidation(r)
  BY DEF FailValidation, Current, IInv, TypeOK, AuditInv, RequestInv, Pending, Valid, ValidInv
<1> QED
  BY <1>1, <1>2, <1>3, <1>4, <1>5, <1>6, <1>7
     DEF Next, Plans, Applies, Gateway, Finished, Ledger!Next

\* The history of the write path is the ledger the architecture document promises,
\* while nothing but UnifiErrors goes wrong and bodies validate.
THEOREM LedgerImplemented ==
  ASSUME OnlyUnifiErrors, WellFormed
  PROVE  Spec => ImplementsLedger
<1>1. Init => Ledger!Init
  <2> SUFFICES ASSUME Init
               PROVE  Ledger!Init
    OBVIOUS
  <2>1. ASSUME NEW r \in Requests
        PROVE  WrittenBy(r) = << >> /\ Booked(r) = None
    <3>1. landed[r] = << >> /\ pc[r] = "idle"
      BY DEF Init
    <3> QED
      BY <3>1 DEF WrittenBy, Booked
  <2> QED
    BY <2>1 DEF Ledger!Init
<1>2. IInv /\ Valid /\ [Next]_vars => [Ledger!Next]_(Ledger!vars)
  BY LedgerStep
<1> QED
  BY Inductive, AlwaysValid, <1>1, <1>2, PTL DEF Spec, ImplementsLedger, Ledger!Spec

-----------------------------------------------------------------------------
(***************************************************************************)
(* Rollbacks.  PlanInv says what a plan, its message and its writes look   *)
(* like and that they name no record twice; StoreInv that a record is gone *)
(* only by a delete that was executed; RollbackInv that the plan of a      *)
(* rollback is the inverse of its changeset; ReadInv that what a plan has  *)
(* read is still there when it is written, if nobody else writes meanwhile.*)
(***************************************************************************)

\* No body names a record twice (the bulk endpoint takes one that does, and then the
\* theorems below do not hold).
NamesOnce ==
  \A bd \in Bodies : \A j, k \in DOMAIN bd.items :
    bd.items[j].id = bd.items[k].id /\ bd.items[j].id # None => j = k

\* Reads find what is there and no answer is lost: what goes wrong is that the gateway
\* refuses a write, or the database a changeset.
AnswersArrive == Faults \subseteq {"reject", "database"}

\* The ids a body, a plan or a message may speak of.
Given == issued \cup Clients

\* What the plan of a request says of its records, whatever has happened since.
RevShape(rev) ==
  /\ rev.id \in Given \cup {None}
  /\ rev.op = "create" => rev.before = None
  /\ rev.op # "create" => rev.id # None
  /\ rev.op = "delete" => rev.after = None
  /\ rev.id \in Clients => rev.op = "update"
  /\ rev.outcome = "applied" => rev.id # None

ItemShape(item) ==
  /\ item.id \in Given \cup {None}
  /\ item.op # "create" <=> item.id # None
  /\ item.op = "delete" => item.content = None
  /\ item.id \in Clients => item.op = "update"

\* A write that has been sent, whether or not its request still waits for it.
WireShape(w) ==
  w.state = "sent" =>
    /\ w.id \in Given \cup {None}
    /\ w.op # "create" => w.id # None
    /\ w.op = "delete" => w.after = None
    /\ w.id \in Clients => w.op = "update"
    /\ w.op # "delete" /\ w.id \notin Clients => w.after # None

\* A write that was executed: a DNS policy is gone after a delete and only then, and was
\* not there before a create and only then.
WriteShape(w) ==
  /\ w.id \in Given
  /\ w.id \in Clients => w.op = "update"
  /\ w.id \in Ids => (w.now = None <=> w.op = "delete") /\ (w.prior = None <=> w.op = "create")

\* The plan of r, done and to do, names no record twice.
Once(r) ==
  /\ \A j, k \in DOMAIN revs[r] : revs[r][j].id = revs[r][k].id /\ revs[r][j].id # None => j = k
  /\ \A j, k \in DOMAIN todo[r] : todo[r][j].id = todo[r][k].id /\ todo[r][j].id # None => j = k
  /\ \A j \in DOMAIN revs[r], k \in DOMAIN todo[r] :
       revs[r][j].id = todo[r][k].id => revs[r][j].id = None
  /\ pc[r] = "sent" /\ wire[r].state = "ok" =>
       \A k \in DOMAIN revs[r] : k # cur[r] => revs[r][k].id # wire[r].id

PlanInv(r) ==
  /\ \A k \in DOMAIN revs[r] : RevShape(revs[r][k])
  /\ \A k \in DOMAIN todo[r] : ItemShape(todo[r][k])
  /\ \A k \in DOMAIN landed[r] : WriteShape(landed[r][k])
  /\ WireShape(wire[r])
  /\ pc[r] = "queued" => ~Malformed(Current(r))
  /\ pc[r] # "planning" => todo[r] = << >>
  /\ Once(r)

Planned == \A r \in Requests : PlanInv(r)

\* A record is there only under an id that was given out, and is gone only if it was deleted.
Stored(i) ==
  /\ store[i] # None => i \in issued
  /\ i \in issued /\ store[i] = None =>
       \E r \in Requests : \E k \in DOMAIN landed[r] :
         landed[r][k].id = i /\ landed[r][k].op = "delete"

StoreInv == \A i \in Ids : Stored(i)

\* Revision inv is the inverse of rev, under the id it was applied with if it creates.
Undoes(inv, rev) ==
  /\ inv.op = InverseOp[rev.op]
  /\ inv.before = rev.after /\ inv.after = rev.before
  /\ inv.op # "create" => inv.id = rev.id

\* The plan of a rollback is the inverse of what can be undone of its changeset.
Inverts(plan, t) ==
  /\ \A k \in DOMAIN plan : \E j \in Undoable(t) : Undoes(plan[k], revs[t][j])
  /\ \A j \in Undoable(t) : \E k \in DOMAIN plan : Undoes(plan[k], revs[t][j])

\* The stages of a request that has ended without a changeset.
Dropped == {"refused", "aborted"}

\* The plan of a rollback inverts a changeset of the history.
RollbackInv(q) ==
  /\ pc[q] \in {"idle", "planning"} => reverts[q] = None
  /\ reverts[q] # None =>
       /\ status[reverts[q]] \in {"applied", "partial"}
       /\ pc[q] \notin Dropped => Inverts(revs[q], reverts[q])

RolledBack == \A q \in Requests : RollbackInv(q)

\* One request at a time: what a plan has read is still there until it is written.
ReadInv(r) ==
  reverts[r] = None =>
    \A k \in DOMAIN revs[r] :
      IF k \in DOMAIN landed[r] THEN revs[r][k].before = landed[r][k].prior
      ELSE r \in InFlight /\ revs[r][k].op # "create" => revs[r][k].before = store[revs[r][k].id]

AllRead == \A q \in Requests : ReadInv(q)

-----------------------------------------------------------------------------
(***************************************************************************)
(* Plans.                                                                  *)
(***************************************************************************)

\* PlanInv(s) speaks of nothing but these parts of s, and of ids that stay given.
LEMMA PlanFrame ==
  ASSUME NEW s \in Requests, PlanInv(s), issued \subseteq issued',
         pc'[s] = pc[s], revs'[s] = revs[s], cur'[s] = cur[s], todo'[s] = todo[s],
         landed'[s] = landed[s], wire'[s] = wire[s]
  PROVE  PlanInv(s)'
<1>1. WireShape(wire[s])'
  BY DEF PlanInv, WireShape, Given
<1>2. \A k \in DOMAIN revs'[s] : RevShape(revs[s][k])'
  BY DEF PlanInv, RevShape, Given
<1>3. \A k \in DOMAIN todo'[s] : ItemShape(todo[s][k])'
  BY DEF PlanInv, ItemShape, Given
<1>4. \A k \in DOMAIN landed'[s] : WriteShape(landed[s][k])'
  BY DEF PlanInv, WriteShape, Given
<1>5. Once(s)' /\ (pc'[s] = "queued" => ~Malformed(Current(s))')
  BY DEF PlanInv, Once, Current, Malformed
<1> QED BY <1>1, <1>2, <1>3, <1>4, <1>5 DEF PlanInv

\* A step that changes these parts of one request only has to be looked at there.
LEMMA PlanOnly ==
  ASSUME Planned, NEW r \in Requests, PlanInv(r)', issued \subseteq issued',
         \A s \in Requests \ {r} :
           /\ pc'[s] = pc[s] /\ revs'[s] = revs[s] /\ cur'[s] = cur[s] /\ todo'[s] = todo[s]
           /\ landed'[s] = landed[s] /\ wire'[s] = wire[s]
  PROVE  Planned'
<1>1. ASSUME NEW s \in Requests \ {r} PROVE PlanInv(s)'
  BY <1>1, PlanFrame DEF Planned
<1> QED BY <1>1 DEF Planned

\* What there is to show of a step that gives no id.
LEMMA PlanFrom ==
  ASSUME NEW r \in Requests, UNCHANGED issued,
         \A k \in DOMAIN revs'[r] : RevShape(revs'[r][k]),
         \A k \in DOMAIN todo'[r] : ItemShape(todo'[r][k]),
         \A k \in DOMAIN landed'[r] : WriteShape(landed'[r][k]),
         WireShape(wire'[r]),
         pc'[r] = "queued" => ~Malformed(Current(r)'),
         pc'[r] # "planning" => todo'[r] = << >>,
         Once(r)'
  PROVE  PlanInv(r)'
<1>1. WireShape(wire[r])'
  BY DEF WireShape, Given
<1>2. \A k \in DOMAIN revs'[r] : RevShape(revs[r][k])'
  BY DEF RevShape, Given
<1>3. \A k \in DOMAIN todo'[r] : ItemShape(todo[r][k])'
  BY DEF ItemShape, Given
<1>4. \A k \in DOMAIN landed'[r] : WriteShape(landed[r][k])'
  BY DEF WriteShape, Given
<1>5. pc'[r] = "queued" => ~Malformed(Current(r))'
  BY DEF Malformed
<1> QED BY <1>1, <1>2, <1>3, <1>4, <1>5 DEF PlanInv

\* Nothing on the wire, nothing wrong with it.
LEMMA NoWireShape == WireShape(NoWire)
BY DEF WireShape, NoWire

\* A body arrives.
LEMMA PlanSubmit ==
  ASSUME IInv, Planned, NamesOnce, NEW r \in Requests, Submit(r)
  PROVE  Planned'
<1> USE DEF IInv, TypeOK
<1>1. PICK b \in Bodies : Known(b) /\ todo' = [todo EXCEPT ![r] = b.items]
  BY DEF Submit
<1>2. b.items \in Seq(Items) /\ todo'[r] = b.items
  BY <1>1, ChangesetsAssumption
<1>3. pc[r] = "idle" /\ pc'[r] = "planning" /\ revs[r] = << >> /\ landed[r] = << >>
  BY DEF Submit, AuditInv, RequestInv
<1>4. \A k \in DOMAIN b.items : ItemShape(b.items[k])
  <2> SUFFICES ASSUME NEW k \in DOMAIN b.items PROVE ItemShape(b.items[k])
    OBVIOUS
  <2>1. k \in 1 .. Len(b.items) /\ b.items[k] \in Items
    BY <1>2
  <2>2. b.items[k].id \in Given \cup {None}
    BY <1>1, <2>1 DEF Known, Given
  <2>3. /\ b.items[k].op # "create" => b.items[k].id \in Targets
        /\ b.items[k].op = "create" => b.items[k].id = None
        /\ b.items[k].op = "delete" => b.items[k].content = None
        /\ b.items[k].id \in Clients => b.items[k].op = "update"
    BY <2>1, ChangesetsAssumption
  <2> QED BY <2>2, <2>3, ChangesetsAssumption DEF ItemShape
<1>5. Once(r)'
  BY <1>2, <1>3 DEF Once, NamesOnce, Submit
<1>6. PlanInv(r)'
  BY <1>2, <1>3, <1>4, <1>5, PlanFrom DEF Submit, Planned, PlanInv
<1> QED BY <1>6, PlanOnly DEF Submit

\* A revision that can be undone has a record, whose id was given.
LEMMA UndoableShape ==
  ASSUME Planned, NEW t \in Requests, NEW j \in Undoable(t)
  PROVE  RevShape(revs[t][j]) /\ revs[t][j].id # None /\ j \in DOMAIN revs[t]
<1>1. j \in DOMAIN revs[t] /\ revs[t][j].outcome = "applied"
  BY DEF Undoable
<1> QED BY <1>1 DEF Planned, PlanInv, RevShape

\* The fields of an inverse.
LEMMA UndoingIs ==
  ASSUME TypeOK, Planned, NEW t \in Requests, NEW j \in Undoable(t)
  PROVE  /\ Undoes(Undoing(revs[t][j]), revs[t][j])
         /\ Undoing(revs[t][j]).id \in {None, revs[t][j].id}
         /\ Undoing(revs[t][j]).outcome = "pending"
         /\ RevShape(Undoing(revs[t][j]))
<1>0. PICK rev \in Revisions : rev = revs[t][j]
  BY DEF TypeOK, Undoable
<1>1. RevShape(rev) /\ rev.id # None
  BY <1>0, UndoableShape
<1>2. rev.op \in Ops
  BY DEF Revisions
<1>3. PICK inv : inv = Undoing(rev)
  OBVIOUS
<1>4. /\ inv.op = InverseOp[rev.op] /\ inv.id = Undone(rev) /\ inv.before = rev.after
      /\ inv.after = rev.before /\ inv.outcome = "pending"
  BY <1>3 DEF Undoing, Revision
<1>5. /\ rev.op = "create" => inv.op = "delete"
      /\ rev.op = "update" => inv.op = "update"
      /\ rev.op = "delete" => inv.op = "create"
  BY <1>4 DEF InverseOp
<1>6. inv.id = IF rev.op = "delete" THEN None ELSE rev.id
  BY <1>1, <1>4 DEF Undone, RevShape
<1>7. Undoes(inv, rev) /\ inv.id \in {None, rev.id}
  BY <1>2, <1>4, <1>5, <1>6 DEF Undoes, Ops
<1>8. RevShape(inv)
  BY <1>1, <1>2, <1>4, <1>5, <1>6, ChangesetsAssumption DEF RevShape, Ops, Given, Targets
<1> QED BY <1>0, <1>3, <1>4, <1>7, <1>8

\* The numbers a rollback goes through: each that can be undone, and none twice.
LEMMA NewestFirstIs ==
  ASSUME TypeOK, NEW t \in Requests, NEW f \in NewestFirst(Undoable(t), Len(revs[t]))
  PROVE  \E m \in Nat :
           /\ DOMAIN f = 1 .. m
           /\ \A k \in 1 .. m : f[k] \in Undoable(t)
           /\ \A j \in Undoable(t) : \E k \in 1 .. m : f[k] = j
           /\ \A j, k \in 1 .. m : f[j] = f[k] => j = k
<1>1. revs[t] \in Seq(Revisions)
  BY DEF TypeOK
<1>2. PICK m \in Nat : f \in [1 .. m -> Undoable(t)]
  BY <1>1 DEF NewestFirst
<1>3. \A k \in 1 .. m : f[k] \in Undoable(t) /\ f[k] \in Nat
  BY <1>1, <1>2 DEF Undoable
<1>4. \A j, k \in 1 .. m : j < k => f[j] > f[k]
  BY <1>2 DEF NewestFirst
<1>5. \A j, k \in 1 .. m : f[j] = f[k] => j = k
  BY <1>3, <1>4
<1> QED BY <1>2, <1>3, <1>5 DEF NewestFirst

\* A rollback arrives.
LEMMA PlanRollback ==
  ASSUME IInv, Planned, NEW r \in Requests, NEW t \in Requests, SubmitRollback(r, t)
  PROVE  Planned'
<1> USE DEF IInv, TypeOK
<1>1. PICK f \in NewestFirst(Undoable(t), Len(revs[t])) :
        revs' = [revs EXCEPT ![r] = [k \in DOMAIN f |-> Undoing(revs[t][f[k]])]]
  BY DEF SubmitRollback
<1>2. PICK m \in Nat :
        /\ DOMAIN f = 1 .. m
        /\ \A k \in 1 .. m : f[k] \in Undoable(t)
        /\ \A j, k \in 1 .. m : f[j] = f[k] => j = k
  BY NewestFirstIs
<1>3. DOMAIN revs'[r] = 1 .. m /\ \A k \in 1 .. m : revs'[r][k] = Undoing(revs[t][f[k]])
  BY <1>1, <1>2
<1>4. \A k \in 1 .. m : RevShape(revs'[r][k]) /\ revs'[r][k].id \in {None, revs[t][f[k]].id}
  BY <1>2, <1>3, UndoingIs
<1>5. pc[r] = "idle" /\ pc'[r] = "applying" /\ todo'[r] = << >> /\ landed'[r] = << >>
  BY DEF SubmitRollback, AuditInv, RequestInv, Planned, PlanInv
<1>6. \A j, k \in 1 .. m : revs'[r][j].id = revs'[r][k].id /\ revs'[r][j].id # None => j = k
  <2> SUFFICES ASSUME NEW j \in 1 .. m, NEW k \in 1 .. m, revs'[r][j].id = revs'[r][k].id,
                      revs'[r][j].id # None
               PROVE  j = k
    OBVIOUS
  <2>1. revs[t][f[j]].id = revs[t][f[k]].id /\ revs[t][f[j]].id # None
    BY <1>4
  <2>2. f[j] \in DOMAIN revs[t] /\ f[k] \in DOMAIN revs[t]
    BY <1>2 DEF Undoable
  <2>3. f[j] = f[k]
    BY <2>1, <2>2 DEF Planned, PlanInv, Once
  <2> QED BY <1>2, <2>3
<1>7. Once(r)'
  BY <1>3, <1>5, <1>6 DEF Once
<1>8. PlanInv(r)'
  BY <1>3, <1>4, <1>5, <1>7, PlanFrom DEF SubmitRollback, Planned, PlanInv
<1> QED BY <1>8, PlanOnly DEF SubmitRollback

\* The next item is planned: a create has no before-image.
LEMMA PlanItem ==
  ASSUME IInv, Planned, NEW r \in Requests, pc[r] = "planning", todo[r] # << >>,
         NEW before \in Contents \cup {None}, Head(todo[r]).op = "create" => before = None,
         Plan(r, before)
  PROVE  Planned'
<1> USE DEF IInv, TypeOK
<1>1. PICK item, rest : item = Head(todo[r]) /\ rest = Tail(todo[r])
  OBVIOUS
<1>2. /\ item \in Items /\ rest \in Seq(Items) /\ item = todo[r][1] /\ 1 \in DOMAIN todo[r]
      /\ \A k \in DOMAIN rest : k + 1 \in DOMAIN todo[r] /\ rest[k] = todo[r][k + 1]
                                /\ k \in Nat \ {0}
  BY <1>1, HeadTailProperties
<1>3. PICK new : new = Revision(item.op, item.id, before, item.content)
  OBVIOUS
<1>4. /\ new \in Revisions /\ new.outcome = "pending" /\ new.op = item.op
      /\ new.id = item.id /\ new.before = before /\ new.after = item.content
  BY <1>2, <1>3, RevisionType DEF Revision, Items
<1>5. revs'[r] = Append(revs[r], new) /\ todo'[r] = rest
  BY <1>1, <1>3 DEF Plan
<1>6. /\ DOMAIN revs'[r] = DOMAIN revs[r] \cup {Len(revs[r]) + 1}
      /\ Len(revs[r]) + 1 \notin DOMAIN revs[r]
      /\ \A k \in DOMAIN revs[r] : revs'[r][k] = revs[r][k]
      /\ revs'[r][Len(revs[r]) + 1] = new
  BY <1>4, <1>5, AppendProperties
<1>7. PlanInv(r) /\ ItemShape(item)
  BY <1>2 DEF Planned, PlanInv
<1>8. RevShape(new)
  BY <1>1, <1>4, <1>7 DEF ItemShape, RevShape
<1>9. Once(r)'
  <2>1. \A k \in DOMAIN revs[r] : revs[r][k].id = new.id => new.id = None
    BY <1>2, <1>4, <1>7 DEF PlanInv, Once
  <2>2. \A k \in DOMAIN rest : rest[k].id = new.id => new.id = None
    <3> SUFFICES ASSUME NEW k \in DOMAIN rest, rest[k].id = new.id, new.id # None PROVE FALSE
      OBVIOUS
    <3>1. k + 1 = 1
      BY <1>2, <1>4, <1>7 DEF PlanInv, Once
    <3> QED BY <1>2, <3>1
  <2>3. \A j, k \in DOMAIN rest : rest[j].id = rest[k].id /\ rest[j].id # None => j = k
    <3> SUFFICES ASSUME NEW j \in DOMAIN rest, NEW k \in DOMAIN rest, rest[j].id = rest[k].id,
                        rest[j].id # None
                 PROVE  j = k
      OBVIOUS
    <3>1. j + 1 = k + 1
      BY <1>2, <1>7 DEF PlanInv, Once
    <3> QED BY <1>2, <3>1
  <2>4. \A j \in DOMAIN revs[r], k \in DOMAIN rest :
          revs[r][j].id = rest[k].id => revs[r][j].id = None
    BY <1>2, <1>7 DEF PlanInv, Once
  <2>5. \A j, k \in DOMAIN revs[r] :
          revs[r][j].id = revs[r][k].id /\ revs[r][j].id # None => j = k
    BY <1>7 DEF PlanInv, Once
  <2>6. pc'[r] = "planning"
    BY DEF Plan
  <2> QED BY <1>5, <1>6, <2>1, <2>2, <2>3, <2>4, <2>5, <2>6 DEF Once
<1>10. PlanInv(r)'
  <2>1. \A k \in DOMAIN revs'[r] : RevShape(revs'[r][k])
    BY <1>6, <1>7, <1>8 DEF PlanInv
  <2>2. \A k \in DOMAIN todo'[r] : ItemShape(todo'[r][k])
    BY <1>2, <1>5, <1>7 DEF PlanInv
  <2>3. UNCHANGED << issued, landed, wire, pc >> /\ pc[r] = "planning"
    BY DEF Plan
  <2> QED BY <1>7, <1>9, <2>1, <2>2, <2>3, PlanFrom DEF PlanInv
<1> QED BY <1>10, PlanOnly DEF Plan

\* An item is left out.
LEMMA PlanSkips ==
  ASSUME IInv, Planned, NEW r \in Requests, PlanSkip(r)
  PROVE  Planned'
<1> USE DEF IInv, TypeOK
<1>1. PICK rest : rest = Tail(todo[r])
  OBVIOUS
<1>2. /\ todo[r] # << >> /\ pc[r] = "planning" /\ todo'[r] = rest
      /\ \A k \in DOMAIN rest : k + 1 \in DOMAIN todo[r] /\ rest[k] = todo[r][k + 1]
                                /\ k \in Nat \ {0}
  BY <1>1, HeadTailProperties DEF PlanSkip, ReadFails
<1>3. PlanInv(r) /\ UNCHANGED << issued, landed, wire, pc, revs, cur >>
  BY DEF Planned, PlanSkip
<1>4. Once(r)'
  <2>1. \A j, k \in DOMAIN rest : rest[j].id = rest[k].id /\ rest[j].id # None => j = k
    <3> SUFFICES ASSUME NEW j \in DOMAIN rest, NEW k \in DOMAIN rest, rest[j].id = rest[k].id,
                        rest[j].id # None
                 PROVE  j = k
      OBVIOUS
    <3>1. j + 1 = k + 1
      BY <1>2, <1>3 DEF PlanInv, Once
    <3> QED BY <1>2, <3>1
  <2> QED BY <1>2, <1>3, <2>1 DEF PlanInv, Once
<1>5. \A k \in DOMAIN todo'[r] : ItemShape(todo'[r][k])
  BY <1>2, <1>3 DEF PlanInv
<1>6. PlanInv(r)'
  BY <1>2, <1>3, <1>4, <1>5, PlanFrom DEF PlanInv
<1> QED BY <1>6, PlanOnly DEF PlanSkip

\* A request ends without a changeset.
LEMMA PlanEnds ==
  ASSUME IInv, Planned, NEW r \in Requests,
         Refuse(r) \/ FailValidation(r) \/ DatabaseFails(r) \/ Lose(r)
  PROVE  Planned'
<1> USE DEF IInv, TypeOK
<1>1. /\ revs' = [revs EXCEPT ![r] = << >>] /\ todo' = [todo EXCEPT ![r] = << >>]
      /\ pc'[r] \in {"refused", "aborted"} /\ \A s \in Requests \ {r} : pc'[s] = pc[s]
      /\ wire'[r] \in {wire[r], NoWire} /\ \A s \in Requests \ {r} : wire'[s] = wire[s]
      /\ UNCHANGED << issued, landed, cur >>
  BY DEF Refuse, FailValidation, DatabaseFails, Lose, EndWithout, gatewayVars
<1>2. DOMAIN << >> = {} /\ revs'[r] = << >> /\ todo'[r] = << >>
  BY <1>1
<1>3. Once(r)'
  BY <1>1, <1>2 DEF Once
<1>4. PlanInv(r)'
  BY <1>1, <1>2, <1>3, NoWireShape, PlanFrom DEF Planned, PlanInv
<1> QED BY <1>1, <1>4, PlanOnly

\* The loop goes on without touching the plan.
LEMMA PlanGoesOn ==
  ASSUME IInv, Planned, NEW r \in Requests,
         CreateChangeset(r) \/ StartRevision(r) \/ Send(r) \/ Commit(r)
  PROVE  Planned'
<1> USE DEF IInv, TypeOK
<1>1. /\ UNCHANGED << issued, landed, revs, todo, cur >> /\ PlanInv(r)
      /\ \A s \in Requests \ {r} : pc'[s] = pc[s] /\ wire'[s] = wire[s]
  BY DEF CreateChangeset, StartRevision, Send, Commit, gatewayVars, planVars, Planned
<1>2. pc'[r] = "queued" => ~Malformed(Current(r))
  BY DEF CreateChangeset, StartRevision, Send, Commit
<1>3. Current(r)' = Current(r)
  BY <1>1 DEF Current
<1>4. pc'[r] # "planning" => todo[r] = << >>
  BY <1>1 DEF CreateChangeset, StartRevision, Send, Commit, PlanInv
<1>5. WireShape(wire'[r])
  <2>1. CASE Send(r)
    <3>1. /\ Current(r) \in Revisions /\ RevShape(Current(r)) /\ ~Malformed(Current(r))
      BY <1>1, <2>1 DEF Send, AuditInv, RequestInv, Current, PlanInv
    <3>2. wire'[r] = Message("sent", Current(r))
      BY <2>1 DEF Send
    <3> QED BY <3>1, <3>2 DEF WireShape, Message, RevShape, Malformed
  <2>2. CASE ~Send(r)
    BY <1>1, <2>2 DEF CreateChangeset, StartRevision, Commit, PlanInv
  <2> QED BY <2>1, <2>2
<1>6. pc'[r] = "sent" => wire'[r].state = "sent"
  BY DEF CreateChangeset, StartRevision, Send, Commit, Message
<1>7. Once(r)'
  BY <1>1, <1>6 DEF PlanInv, Once
<1>8. PlanInv(r)'
  <2>1. pc'[r] = "queued" => ~Malformed(Current(r)')
    BY <1>2, <1>3
  <2> QED BY <1>1, <1>4, <1>5, <1>7, <2>1, PlanFrom DEF PlanInv
<1> QED BY <1>1, <1>8, PlanOnly

\* The gateway executes a write for record i, giving it its id if it is new.
Executes(r, i) ==
  /\ wire[r].state = "sent"
  /\ Execute(r, i)
  /\ \/ wire[r].op = "create" /\ i \in Ids \ issued /\ issued' = issued \cup {i}
     \/ wire[r].op # "create" /\ i = wire[r].id /\ Exists(i) /\ UNCHANGED issued

\* A write the gateway executes is a create under a new id or finds its record.
LEMMA ExecutesIs ==
  ASSUME NEW r \in Requests, ExecuteCreate(r) \/ ExecuteOther(r)
  PROVE  \E i \in Targets : Executes(r, i)
BY DEF ExecuteCreate, ExecuteOther, Executes, Exists, Targets

\* What the gateway has executed is shaped like what it was sent.
LEMMA ExecutedShape ==
  ASSUME IInv, Planned, StoreInv, NEW r \in Requests, NEW i \in Targets, Executes(r, i)
  PROVE  \E w \in Writes :
           /\ landed' = [landed EXCEPT ![r] = Append(landed[r], w)]
           /\ w = [op |-> wire[r].op, id |-> i, prior |-> store[i], now |-> wire[r].after]
           /\ i \in Given' /\ (i \in Clients => wire[r].op = "update")
           /\ i \in Ids => /\ w.now = None <=> w.op = "delete"
                           /\ w.prior = None <=> w.op = "create"
<1> USE DEF IInv, TypeOK
<1>1. PICK w : w = [op |-> wire[r].op, id |-> i, prior |-> store[i], now |-> wire[r].after]
  OBVIOUS
<1>2. w \in Writes
  BY <1>1 DEF Writes, Wires
<1>3. landed' = [landed EXCEPT ![r] = Append(landed[r], w)]
  BY <1>1 DEF Executes, Execute
<1>4. WireShape(wire[r]) /\ wire[r].state = "sent"
  BY DEF Planned, PlanInv, Executes
<1>5. CASE wire[r].op = "create"
  <2>1. i \in Ids /\ i \notin issued /\ i \notin Clients /\ i \in issued'
    BY <1>5, ChangesetsAssumption DEF Executes
  <2>2. store[i] = None /\ wire[r].after # None
    BY <1>4, <1>5, <2>1 DEF StoreInv, Stored, WireShape
  <2> QED BY <1>1, <1>2, <1>3, <1>5, <2>1, <2>2 DEF Given
<1>6. CASE wire[r].op # "create"
  <2>1. i = wire[r].id /\ Exists(i) /\ issued' = issued
    BY <1>6 DEF Executes
  <2>2. i \in Given /\ (i \in Clients => wire[r].op = "update")
    BY <1>4, <1>6, <2>1, ChangesetsAssumption DEF WireShape, Targets
  <2>3. i \in Ids => i \notin Clients /\ store[i] # None
    BY <2>1, ChangesetsAssumption DEF Exists
  <2>4. i \in Ids => (wire[r].after = None <=> wire[r].op = "delete")
    BY <1>4, <2>1, <2>3 DEF WireShape
  <2> QED BY <1>1, <1>2, <1>3, <1>6, <2>1, <2>2, <2>3, <2>4 DEF Given
<1> QED BY <1>5, <1>6

\* A write that is executed keeps the plans in shape.
LEMMA PlanExecutes ==
  ASSUME IInv, Planned, StoreInv, NEW r \in Requests, NEW i \in Targets, Executes(r, i)
  PROVE  Planned'
<1> USE DEF IInv, TypeOK
<1>1. PICK w \in Writes :
        /\ landed' = [landed EXCEPT ![r] = Append(landed[r], w)]
        /\ w = [op |-> wire[r].op, id |-> i, prior |-> store[i], now |-> wire[r].after]
        /\ i \in Given' /\ (i \in Clients => wire[r].op = "update")
        /\ i \in Ids => /\ w.now = None <=> w.op = "delete"
                        /\ w.prior = None <=> w.op = "create"
  BY ExecutedShape
<1>2. /\ issued \subseteq issued' /\ UNCHANGED << pc, todo, revs, cur >>
      /\ wire'[r].state = "ok" /\ wire'[r].id = i
      /\ \A s \in Requests \ {r} : wire'[s] = wire[s]
  BY DEF Executes, Execute, backendVars, databaseVars, Wires
<1>3. PlanInv(r)
  BY DEF Planned
<1>4. \A k \in DOMAIN landed'[r] : WriteShape(landed[r][k])'
  <2> SUFFICES ASSUME NEW k \in DOMAIN landed'[r] PROVE WriteShape(landed[r][k])'
    OBVIOUS
  <2>1. CASE k \in DOMAIN landed[r]
    <3>1. landed'[r][k] = landed[r][k] /\ WriteShape(landed[r][k])
      BY <1>1, <1>3, <2>1, AppendProperties DEF PlanInv
    <3> QED BY <1>2, <3>1 DEF WriteShape, Given
  <2>2. CASE k \notin DOMAIN landed[r]
    <3>1. landed'[r] = Append(landed[r], w) /\ landed[r] \in Seq(Writes)
      BY <1>1
    <3>2. landed'[r][k] = w
      BY <2>2, <3>1, AppendProperties
    <3> QED BY <1>1, <3>2 DEF WriteShape
  <2> QED BY <2>1, <2>2
<1>5. \A k \in DOMAIN revs'[r] : RevShape(revs[r][k])'
  BY <1>2, <1>3 DEF PlanInv, RevShape, Given
<1>6. \A k \in DOMAIN todo'[r] : ItemShape(todo[r][k])'
  BY <1>2, <1>3 DEF PlanInv, ItemShape, Given
<1>7. WireShape(wire[r])'
  BY <1>2 DEF WireShape
<1>8. pc[r] = "sent" => \A k \in DOMAIN revs[r] : k # cur[r] => revs[r][k].id # i
  <2> SUFFICES ASSUME pc[r] = "sent", NEW k \in DOMAIN revs[r], k # cur[r], revs[r][k].id = i
               PROVE  FALSE
    OBVIOUS
  <2>1. InExchange(r) /\ cur[r] \in DOMAIN revs[r]
    BY DEF AuditInv, RequestInv, InExchange
  <2>2. CASE wire[r].op = "create"
    <3>1. i \in Ids \ issued
      BY <2>2 DEF Executes
    <3> QED BY <1>3, <3>1, ChangesetsAssumption DEF PlanInv, RevShape, Given, Targets
  <2>3. CASE wire[r].op # "create"
    <3>1. i = revs[r][cur[r]].id
      BY <2>1, <2>3 DEF Executes, InExchange
    <3> QED BY <1>3, <2>1, <3>1, ChangesetsAssumption DEF PlanInv, Once
  <2> QED BY <2>2, <2>3
<1>9. Once(r)'
  BY <1>2, <1>3, <1>8 DEF PlanInv, Once
<1>10. (pc[r] = "queued" => ~Malformed(Current(r)))' /\ (pc[r] # "planning" => todo[r] = << >>)'
  BY <1>2, <1>3 DEF PlanInv, Current, Malformed
<1>11. PlanInv(r)'
  BY <1>4, <1>5, <1>6, <1>7, <1>9, <1>10 DEF PlanInv
<1> QED BY <1>1, <1>2, <1>11, PlanOnly

\* The gateway answers.
LEMMA PlanRejects ==
  ASSUME IInv, Planned, NEW r \in Requests, Reject(r)
  PROVE  Planned'
<1> USE DEF IInv, TypeOK
<1>1. /\ wire'[r].state = "refused" /\ \A s \in Requests \ {r} : wire'[s] = wire[s]
      /\ UNCHANGED << issued, landed, pc, todo, revs, cur >> /\ PlanInv(r)
  BY DEF Reject, gatewayVars, backendVars, databaseVars, Wires, Planned
<1>2. WireShape(wire'[r]) /\ Once(r)' /\ Current(r)' = Current(r)
  BY <1>1 DEF WireShape, PlanInv, Once, Current
<1>3. PlanInv(r)'
  BY <1>1, <1>2, PlanFrom DEF PlanInv
<1> QED BY <1>1, <1>3, PlanOnly

\* So does an answer: the id a created record got is nobody else's.
LEMMA PlanReplies ==
  ASSUME IInv, Planned, NEW r \in Requests, Reply(r) \/ ReplyError(r)
  PROVE  Planned'
<1> USE DEF IInv, TypeOK
<1>1. /\ InExchange(r) /\ PlanInv(r) /\ cur[r] \in DOMAIN revs[r]
      /\ revs[r][cur[r]] \in Revisions /\ pc[r] = "sent"
  BY DEF Reply, ReplyError, AuditInv, RequestInv, InExchange, Planned
<1>2. PICK rev : rev = revs'[r][cur[r]]
  OBVIOUS
<1>3. /\ DOMAIN revs'[r] = DOMAIN revs[r]
      /\ \A k \in DOMAIN revs[r] : k # cur[r] => revs'[r][k] = revs[r][k]
      /\ \A s \in Requests \ {r} : revs'[s] = revs[s] /\ pc'[s] = pc[s] /\ cur'[s] = cur[s]
                                   /\ wire'[s] = wire[s]
      /\ wire'[r] = NoWire /\ pc'[r] \in {"applying", "stopped"}
      /\ UNCHANGED << issued, landed, todo >>
  BY <1>1 DEF Reply, ReplyError, gatewayVars, planVars
<1>4. /\ RevShape(rev)
      /\ \A k \in DOMAIN revs[r] : k # cur[r] /\ revs[r][k].id = rev.id => rev.id = None
  <2>1. CASE Reply(r)
    <3>1. rev = [revs[r][cur[r]] EXCEPT !.outcome = "applied", !.id = wire[r].id]
      BY <1>1, <1>2, <2>1 DEF Reply
    <3>2. /\ rev.id = wire[r].id /\ rev.op = revs[r][cur[r]].op
          /\ rev.before = revs[r][cur[r]].before /\ rev.after = revs[r][cur[r]].after
      BY <1>1, <3>1 DEF Revisions
    <3>3. /\ wire[r].id = landed[r][cur[r]].id /\ rev.op = landed[r][cur[r]].op
          /\ WriteShape(landed[r][cur[r]]) /\ wire[r].state = "ok"
      BY <1>1, <2>1, <3>2 DEF InExchange, Reply, PlanInv
    <3>4. wire[r].id \in Given /\ wire[r].id # None
          /\ (wire[r].id \in Clients => rev.op = "update")
      BY <3>3, ChangesetsAssumption DEF WriteShape, Given, Targets
    <3>5. RevShape(revs[r][cur[r]])
      BY <1>1 DEF PlanInv
    <3> QED BY <1>1, <3>2, <3>3, <3>4, <3>5 DEF RevShape, PlanInv, Once
  <2>2. CASE ReplyError(r)
    <3>1. rev = [revs[r][cur[r]] EXCEPT !.outcome = "error"]
      BY <1>1, <1>2, <2>2 DEF ReplyError
    <3>2. /\ rev.id = revs[r][cur[r]].id /\ rev.op = revs[r][cur[r]].op
          /\ rev.before = revs[r][cur[r]].before /\ rev.after = revs[r][cur[r]].after
          /\ rev.outcome = "error"
      BY <1>1, <3>1 DEF Revisions
    <3>3. RevShape(revs[r][cur[r]])
      BY <1>1 DEF PlanInv
    <3> QED BY <1>1, <3>2, <3>3 DEF RevShape, PlanInv, Once
  <2> QED BY <2>1, <2>2
<1>5. \A k \in DOMAIN revs'[r] : RevShape(revs'[r][k])
  BY <1>1, <1>2, <1>3, <1>4 DEF PlanInv
<1>6. todo[r] = << >>
  BY <1>1 DEF PlanInv
<1>7. \A j, k \in DOMAIN revs'[r] :
        revs'[r][j].id = revs'[r][k].id /\ revs'[r][j].id # None => j = k
  <2>1. \A j, k \in DOMAIN revs[r] : revs[r][j].id = revs[r][k].id /\ revs[r][j].id # None => j = k
    BY <1>1 DEF PlanInv, Once
  <2> QED BY <1>2, <1>3, <1>4, <2>1
<1>8. Once(r)'
  BY <1>3, <1>6, <1>7 DEF Once
<1>9. PlanInv(r)'
  BY <1>1, <1>3, <1>5, <1>6, <1>8, NoWireShape, PlanFrom DEF PlanInv
<1> QED BY <1>3, <1>9, PlanOnly

\* The backend dies.
LEMMA PlanCrash ==
  ASSUME IInv, Planned, Crash
  PROVE  Planned'
<1> USE DEF IInv, TypeOK
<1>1. UNCHANGED << issued, landed, wire, cur >>
  BY DEF Crash, gatewayVars
<1>2. ASSUME NEW s \in Requests PROVE PlanInv(s)'
  <2>1. PlanInv(s)
    BY DEF Planned
  <2>2. CASE pc[s] \in Over \cup {"idle"}
    <3>1. pc'[s] = pc[s] /\ revs'[s] = revs[s] /\ todo'[s] = todo[s]
      BY <2>2 DEF Crash
    <3> QED BY <1>1, <2>1, <3>1, PlanFrame
  <2>3. CASE pc[s] \notin Over \cup {"idle"}
    <3>1. pc'[s] = "aborted" /\ revs'[s] = << >> /\ todo'[s] = << >> /\ DOMAIN << >> = {}
      BY <2>3 DEF Crash
    <3>2. Once(s)'
      BY <3>1 DEF Once
    <3> QED BY <1>1, <2>1, <3>1, <3>2, PlanFrom DEF PlanInv
  <2> QED BY <2>2, <2>3
<1> QED BY <1>2 DEF Planned

\* Every step keeps the plans in shape, if no body names a record twice.
LEMMA PlanStep ==
  ASSUME NamesOnce
  PROVE  IInv /\ Planned /\ StoreInv /\ [Next]_vars => Planned'
<1> SUFFICES ASSUME IInv, Planned, StoreInv, [Next]_vars PROVE Planned'
  OBVIOUS
<1>1. ASSUME NEW r \in Requests, PlanCreate(r) \/ PlanRead(r) \/ PlanBlind(r)
      PROVE  Planned'
  <2>1. /\ pc[r] = "planning" /\ todo[r] # << >>
        /\ \E before \in Contents \cup {None} :
             Plan(r, before) /\ (Head(todo[r]).op = "create" => before = None)
    BY <1>1 DEF PlanCreate, PlanRead, PlanBlind, ReadFails, Exists, Targets, IInv, TypeOK
  <2> QED BY <2>1, PlanItem
<1>2. ASSUME NEW r \in Requests, ExecuteCreate(r) \/ ExecuteOther(r) PROVE Planned'
  BY <1>2, ExecutesIs, PlanExecutes
<1>3. CASE ConsoleEdit \/ UNCHANGED vars
  <2>1. UNCHANGED << issued, landed, wire, pc, todo, revs, cur >>
    BY <1>3 DEF ConsoleEdit, vars, backendVars, databaseVars
  <2> QED BY <2>1, PlanFrame DEF Planned
<1> QED BY <1>1, <1>2, <1>3, PlanSubmit, PlanRollback, PlanSkips, PlanEnds, PlanGoesOn,
           PlanRejects, PlanReplies, PlanCrash
        DEF Next, Plans, Applies, Gateway, Finished

\* Nobody but the backend deletes anything, and only the gateway gives ids.
LEMMA StoreStep ==
  ASSUME ~Console
  PROVE  IInv /\ Planned /\ StoreInv /\ [Next]_vars => StoreInv'
<1> SUFFICES ASSUME IInv, Planned, StoreInv, [Next]_vars PROVE StoreInv'
  OBVIOUS
<1> USE DEF IInv, TypeOK
<1>1. CASE UNCHANGED << store, issued, landed >>
  BY <1>1 DEF StoreInv, Stored
<1>2. ASSUME NEW r \in Requests, NEW i \in Targets, Executes(r, i) PROVE StoreInv'
  <2>1. PICK w \in Writes :
          /\ landed' = [landed EXCEPT ![r] = Append(landed[r], w)]
          /\ w = [op |-> wire[r].op, id |-> i, prior |-> store[i], now |-> wire[r].after]
          /\ i \in Given' /\ (i \in Clients => wire[r].op = "update")
          /\ i \in Ids => /\ w.now = None <=> w.op = "delete"
                          /\ w.prior = None <=> w.op = "create"
    BY <1>2, ExecutedShape
  <2>2. /\ store' = [store EXCEPT ![i] = w.now] /\ w.id = i
        /\ issued' = issued \/ issued' = issued \cup {i}
    BY <1>2, <2>1 DEF Executes, Execute
  <2>3. /\ \A q \in Requests : DOMAIN landed[q] \subseteq DOMAIN landed'[q]
        /\ \A q \in Requests : \A k \in DOMAIN landed[q] : landed'[q][k] = landed[q][k]
        /\ Len(landed[r]) + 1 \in DOMAIN landed'[r] /\ landed'[r][Len(landed[r]) + 1] = w
    <3>1. ASSUME NEW q \in Requests
          PROVE  /\ DOMAIN landed[q] \subseteq DOMAIN landed'[q]
                 /\ \A k \in DOMAIN landed[q] : landed'[q][k] = landed[q][k]
      <4>1. CASE q = r
        <5>1. PICK s \in Seq(Writes) : s = landed[r]
          OBVIOUS
        <5>2. landed'[r] = Append(s, w)
          BY <2>1, <5>1
        <5>3. DOMAIN s \subseteq DOMAIN Append(s, w) /\ \A k \in DOMAIN s : Append(s, w)[k] = s[k]
          BY AppendProperties
        <5> QED BY <4>1, <5>1, <5>2, <5>3
      <4>2. CASE q # r
        BY <2>1, <4>2
      <4> QED BY <4>1, <4>2
    <3>2. landed'[r] = Append(landed[r], w) /\ landed[r] \in Seq(Writes)
      BY <2>1
    <3>3. Len(landed[r]) + 1 \in DOMAIN landed'[r] /\ landed'[r][Len(landed[r]) + 1] = w
      BY <3>2, AppendProperties
    <3> QED BY <3>1, <3>3
  <2>4. ASSUME NEW j \in Ids, j # i
        PROVE  Stored(j)'
    <3>1. store'[j] = store[j] /\ (j \in issued' <=> j \in issued)
      BY <2>2, <2>4 DEF Targets
    <3>2. CASE j \in issued /\ store[j] = None
      <4>0. PICK q \in Requests : \E k \in DOMAIN landed[q] :
              landed[q][k].id = j /\ landed[q][k].op = "delete"
        BY <3>2 DEF StoreInv, Stored
      <4>1. PICK k \in DOMAIN landed[q] : landed[q][k].id = j /\ landed[q][k].op = "delete"
        BY <4>0
      <4>2. k \in DOMAIN landed'[q] /\ landed'[q][k] = landed[q][k]
        BY <2>3, <4>1
      <4> QED BY <3>1, <3>2, <4>1, <4>2 DEF StoreInv, Stored
    <3> QED BY <3>1, <3>2 DEF StoreInv, Stored
  <2>5. ASSUME i \in Ids
        PROVE  Stored(i)'
    <3>1. i \in issued'
      BY <2>1, <2>5, ChangesetsAssumption DEF Given
    <3>2. store'[i] = None => w.op = "delete"
      BY <2>1, <2>2, <2>5
    <3> QED BY <2>2, <2>3, <3>1, <3>2 DEF Stored
  <2> QED BY <2>4, <2>5 DEF StoreInv
<1>3. ASSUME NEW r \in Requests, Gateway(r) PROVE StoreInv'
  BY <1>1, <1>2, <1>3, ExecutesIs DEF Gateway, Reject, gatewayVars
<1>4. ASSUME NEW r \in Requests, Submit(r) \/ Plans(r) PROVE StoreInv'
  BY <1>1, <1>4 DEF Submit, Plans, PlanCreate, PlanRead, PlanBlind, PlanSkip, Plan, Refuse,
     CreateChangeset
<1>5. ASSUME NEW r \in Requests, Applies(r) \/ Lose(r) \/ DatabaseFails(r) PROVE StoreInv'
  BY <1>1, <1>5 DEF Applies, StartRevision, FailValidation, Send, Reply, ReplyError, Commit,
     Lose, DatabaseFails, gatewayVars
<1>6. ASSUME NEW r \in Requests, NEW t \in Requests, SubmitRollback(r, t) PROVE StoreInv'
  BY <1>1, <1>6 DEF SubmitRollback
<1>7. Crash \/ UNCHANGED vars => StoreInv'
  BY <1>1 DEF Crash, gatewayVars, vars
<1>8. ~ConsoleEdit
  BY DEF ConsoleEdit
<1> QED BY <1>3, <1>4, <1>5, <1>6, <1>7, <1>8 DEF Next, Finished

-----------------------------------------------------------------------------
(***************************************************************************)
(* Rollbacks.                                                              *)
(***************************************************************************)

\* What is in the history stays as it is.
LEMMA DoneStays ==
  ASSUME IInv, [Next]_vars, NEW t \in Requests, status[t] # "none"
  PROVE  /\ pc[t] = "done"
         /\ UNCHANGED << pc[t], revs[t], status[t], landed[t], reverts[t] >>
<1> USE DEF IInv, TypeOK, gatewayVars, planVars, backendVars, databaseVars
<1>1. pc[t] = "done" /\ wire[t].state = "none"
  BY DEF AuditInv, RequestInv, Between
<1>2. ASSUME NEW r \in Requests, Plan(r, None) \/ Plan(r, store[Head(todo[r]).id]),
             pc[r] = "planning"
      PROVE  UNCHANGED << pc[t], revs[t], status[t], landed[t], reverts[t] >>
  BY <1>1, <1>2 DEF Plan
<1>3. ASSUME NEW r \in Requests, Submit(r) \/ Plans(r)
      PROVE  UNCHANGED << pc[t], revs[t], status[t], landed[t], reverts[t] >>
  BY <1>1, <1>2, <1>3 DEF Submit, Plans, PlanCreate, PlanRead, PlanBlind, PlanSkip, ReadFails,
     Refuse, EndWithout, CreateChangeset
<1>4. ASSUME NEW r \in Requests, Applies(r) \/ Lose(r) \/ DatabaseFails(r)
      PROVE  UNCHANGED << pc[t], revs[t], status[t], landed[t], reverts[t] >>
  BY <1>1, <1>4 DEF Applies, StartRevision, FailValidation, Send, Reply, ReplyError, Commit,
     Lose, DatabaseFails, EndWithout
<1>5. ASSUME NEW r \in Requests, NEW s \in Requests, SubmitRollback(r, s)
      PROVE  UNCHANGED << pc[t], revs[t], status[t], landed[t], reverts[t] >>
  BY <1>1, <1>5 DEF SubmitRollback
<1>6. ASSUME NEW r \in Requests, Gateway(r)
      PROVE  UNCHANGED << pc[t], revs[t], status[t], landed[t], reverts[t] >>
  BY <1>1, <1>6 DEF Gateway, ExecuteCreate, ExecuteOther, Execute, Reject
<1>7. Crash => UNCHANGED << pc[t], revs[t], status[t], landed[t], reverts[t] >>
  BY <1>1 DEF Crash, Over
<1>8. ConsoleEdit \/ UNCHANGED vars =>
        UNCHANGED << pc[t], revs[t], status[t], landed[t], reverts[t] >>
  BY DEF ConsoleEdit, vars
<1> QED BY <1>1, <1>3, <1>4, <1>5, <1>6, <1>7, <1>8 DEF Next, Finished

\* A rollback's plan only loses its meaning with the plan itself.
LEMMA RollbackKeeps ==
  ASSUME IInv, [Next]_vars, NEW q \in Requests, RollbackInv(q), reverts'[q] = reverts[q],
         pc'[q] \in {"idle", "planning"} => reverts[q] = None,
         reverts[q] # None /\ pc'[q] \notin Dropped =>
           /\ pc[q] \notin Dropped /\ DOMAIN revs'[q] = DOMAIN revs[q]
           /\ \A k \in DOMAIN revs[q] :
                /\ revs'[q][k].op = revs[q][k].op
                /\ revs'[q][k].before = revs[q][k].before
                /\ revs'[q][k].after = revs[q][k].after
                /\ revs[q][k].op # "create" => revs'[q][k].id = revs[q][k].id
  PROVE  RollbackInv(q)'
<1> SUFFICES ASSUME reverts[q] # None
             PROVE  /\ status'[reverts[q]] \in {"applied", "partial"}
                    /\ pc'[q] \notin Dropped => Inverts(revs[q], reverts[q])'
  BY DEF RollbackInv
<1>1. PICK t \in Requests : t = reverts[q]
  BY DEF IInv, TypeOK
<1>2. status[t] \in {"applied", "partial"} /\ revs'[t] = revs[t] /\ status'[t] = status[t]
  BY <1>1, DoneStays DEF RollbackInv
<1>3. Undoable(t)' = Undoable(t)
  BY <1>2 DEF Undoable
<1>4. ASSUME pc'[q] \notin Dropped PROVE Inverts(revs[q], t)'
  <2>1. Inverts(revs[q], t)
    BY <1>1, <1>4 DEF RollbackInv
  <2>2. \A k \in DOMAIN revs[q], j \in Undoable(t) :
          Undoes(revs[q][k], revs[t][j]) => Undoes(revs'[q][k], revs[t][j])
    BY <1>4 DEF Undoes
  <2> QED BY <1>2, <1>3, <1>4, <2>1, <2>2 DEF Inverts
<1> QED BY <1>1, <1>2, <1>4

\* The plan a rollback arrives with inverts its changeset.
LEMMA RollbackArrives ==
  ASSUME TypeOK, Planned, NEW r \in Requests, NEW t \in Requests, SubmitRollback(r, t)
  PROVE  Inverts(revs'[r], t)
<1>1. PICK f \in NewestFirst(Undoable(t), Len(revs[t])) :
        revs' = [revs EXCEPT ![r] = [k \in DOMAIN f |-> Undoing(revs[t][f[k]])]]
  BY DEF SubmitRollback
<1>2. PICK m \in Nat :
        /\ DOMAIN f = 1 .. m
        /\ \A k \in 1 .. m : f[k] \in Undoable(t)
        /\ \A j \in Undoable(t) : \E k \in 1 .. m : f[k] = j
  BY NewestFirstIs
<1>3. DOMAIN revs'[r] = 1 .. m /\ \A k \in 1 .. m : revs'[r][k] = Undoing(revs[t][f[k]])
  BY <1>1, <1>2 DEF TypeOK
<1>4. \A k \in 1 .. m : Undoes(revs'[r][k], revs[t][f[k]])
  BY <1>2, <1>3, UndoingIs
<1> QED BY <1>2, <1>3, <1>4 DEF Inverts

\* Every step keeps the plans of the rollbacks inverse to their changesets.
LEMMA RollbackStep == IInv /\ Planned /\ RolledBack /\ [Next]_vars => RolledBack'
<1> SUFFICES ASSUME IInv, Planned, RolledBack, [Next]_vars, NEW q \in Requests
             PROVE  RollbackInv(q)'
  BY DEF RolledBack
<1> USE DEF IInv, TypeOK, gatewayVars, planVars, backendVars, databaseVars, Dropped
<1>0. RollbackInv(q)
  BY DEF RolledBack
<1>1. CASE /\ reverts'[q] = reverts[q]
           /\ pc'[q] \in Dropped \/ (revs'[q] = revs[q] /\ pc[q] \notin Dropped)
           /\ pc'[q] \in {"idle", "planning"} => pc[q] \in {"idle", "planning"}
  BY <1>0, <1>1, RollbackKeeps DEF RollbackInv
<1>2. ASSUME NEW r \in Requests, NEW before \in Contents \cup {None}, Plan(r, before),
             pc[r] = "planning"
      PROVE  RollbackInv(q)'
  <2>1. CASE r = q
    BY <1>0, <1>2, <2>1, RollbackKeeps DEF RollbackInv, Plan, Dropped
  <2>2. CASE r # q
    BY <1>1, <1>2, <2>2 DEF Plan
  <2> QED BY <2>1, <2>2
<1>3. ASSUME NEW r \in Requests, Submit(r) \/ Plans(r) PROVE RollbackInv(q)'
  <2>1. ASSUME PlanCreate(r) \/ PlanRead(r) \/ PlanBlind(r)
        PROVE  pc[r] = "planning" /\ \E before \in Contents \cup {None} : Plan(r, before)
    BY <2>1 DEF PlanCreate, PlanRead, PlanBlind, ReadFails, Exists, Targets
  <2>2. ASSUME Submit(r) \/ PlanSkip(r) \/ Refuse(r) \/ CreateChangeset(r)
        PROVE  RollbackInv(q)'
    BY <1>1, <2>2 DEF Submit, PlanSkip, ReadFails, Refuse, EndWithout, CreateChangeset
  <2> QED BY <1>2, <1>3, <2>1, <2>2 DEF Plans
<1>4. ASSUME NEW r \in Requests, Reply(r) \/ ReplyError(r) PROVE RollbackInv(q)'
  <2>1. CASE r # q
    BY <1>1, <1>4, <2>1 DEF Reply, ReplyError
  <2>2. CASE r = q
    <3>1. /\ InExchange(q) /\ cur[q] \in DOMAIN revs[q] /\ revs[q][cur[q]] \in Revisions
      BY <1>4, <2>2 DEF Reply, ReplyError, AuditInv, RequestInv, InExchange
    <3>2. PICK rev : rev = revs'[q][cur[q]]
      OBVIOUS
    <3>3. /\ DOMAIN revs'[q] = DOMAIN revs[q]
          /\ \A k \in DOMAIN revs[q] : k # cur[q] => revs'[q][k] = revs[q][k]
          /\ rev.op = revs[q][cur[q]].op /\ rev.before = revs[q][cur[q]].before
          /\ rev.after = revs[q][cur[q]].after
          /\ rev.op # "create" => rev.id = revs[q][cur[q]].id
      <4>1. CASE Reply(q)
        <5>1. /\ rev = [revs[q][cur[q]] EXCEPT !.outcome = "applied", !.id = wire[q].id]
              /\ DOMAIN revs'[q] = DOMAIN revs[q]
              /\ \A k \in DOMAIN revs[q] : k # cur[q] => revs'[q][k] = revs[q][k]
          BY <3>1, <3>2, <4>1 DEF Reply
        <5> QED BY <3>1, <5>1 DEF InExchange, Revisions
      <4>2. CASE ReplyError(q)
        <5>1. /\ rev = [revs[q][cur[q]] EXCEPT !.outcome = "error"]
              /\ DOMAIN revs'[q] = DOMAIN revs[q]
              /\ \A k \in DOMAIN revs[q] : k # cur[q] => revs'[q][k] = revs[q][k]
          BY <3>1, <3>2, <4>2 DEF ReplyError
        <5> QED BY <3>1, <5>1 DEF InExchange, Revisions
      <4> QED BY <1>4, <2>2, <4>1, <4>2
    <3>4. reverts'[q] = reverts[q] /\ pc'[q] \notin {"idle", "planning"} /\ pc[q] \notin Dropped
      BY <1>4, <2>2, <3>1 DEF Reply, ReplyError, Dropped
    <3> QED BY <1>0, <3>1, <3>2, <3>3, <3>4, RollbackKeeps
  <2> QED BY <2>1, <2>2
<1>5. ASSUME NEW r \in Requests,
             StartRevision(r) \/ FailValidation(r) \/ Send(r) \/ Commit(r) \/ Lose(r)
               \/ DatabaseFails(r)
      PROVE  RollbackInv(q)'
  BY <1>1, <1>5 DEF StartRevision, FailValidation, Send, Commit, Lose, DatabaseFails, EndWithout
<1>6. ASSUME NEW r \in Requests, NEW t \in Requests, SubmitRollback(r, t)
      PROVE  RollbackInv(q)'
  <2>1. CASE r # q
    BY <1>1, <1>6, <2>1 DEF SubmitRollback
  <2>2. CASE r = q
    <3>1. Inverts(revs'[q], t)
      BY <1>6, <2>2, RollbackArrives
    <3>5. /\ status[t] \in {"applied", "partial"} /\ reverts'[q] = t /\ status' = status
          /\ pc'[q] = "applying"
      BY <1>6, <2>2 DEF SubmitRollback
    <3>6. revs'[t] = revs[t]
      BY <3>5, DoneStays
    <3>7. Undoable(t)' = Undoable(t)
      BY <3>6 DEF Undoable
    <3>8. Inverts(revs[q], t)'
      <4>1. \A k \in DOMAIN revs'[q] :
              \E j \in Undoable(t) : Undoes(revs'[q][k], revs'[t][j])
        BY <3>1, <3>6 DEF Inverts
      <4>2. \A j \in Undoable(t) :
              \E k \in DOMAIN revs'[q] : Undoes(revs'[q][k], revs'[t][j])
        BY <3>1, <3>6 DEF Inverts
      <4> QED BY <3>7, <4>1, <4>2 DEF Inverts
    <3> QED BY <3>5, <3>8 DEF RollbackInv
  <2> QED BY <2>1, <2>2
<1>7. ASSUME NEW r \in Requests, Gateway(r) PROVE RollbackInv(q)'
  BY <1>1, <1>7 DEF Gateway, ExecuteCreate, ExecuteOther, Execute, Reject
<1>8. CASE Crash
  BY <1>1, <1>8 DEF Crash
<1>9. CASE ConsoleEdit \/ UNCHANGED vars
  BY <1>1, <1>9 DEF ConsoleEdit, vars
<1> QED BY <1>3, <1>4, <1>5, <1>6, <1>7, <1>8, <1>9 DEF Next, Applies, Finished

\* What a changeset in the history wrote, its revisions say.
LEMMA WroteIs ==
  ASSUME IInv, NEW r \in Requests, status[r] # "none", NEW k \in DOMAIN landed[r]
  PROVE  /\ k \in DOMAIN revs[r] /\ k # cur[r]
         /\ revs[r][k].outcome = "applied"
         /\ Records(revs[r][k], landed[r][k])
<1>1. /\ revs[r] \in Seq(Revisions) /\ cur[r] \in Nat \ {0} /\ AppliedPrefix(r)
      /\ Len(landed[r]) = cur[r] - 1
  BY HistoryOf
<1>2. landed[r] \in Seq(Writes)
  BY DEF IInv, TypeOK
<1>3. k \in 1 .. (cur[r] - 1)
  BY <1>1, <1>2
<1> QED BY <1>1, <1>3 DEF AppliedPrefix

\* It wrote to no record twice.
LEMMA WroteOnce ==
  ASSUME IInv, Planned, NEW r \in Requests, status[r] # "none", NEW k \in DOMAIN landed[r]
  PROVE  LET i == landed[r][k].id
         IN  /\ WritesTo(r, i) = {k}
             /\ Prior(r, i) = landed[r][k].prior
             /\ Left(r, i) = landed[r][k].now
<1>1. PICK i : i = landed[r][k].id
  OBVIOUS
<1>2. i # None
  BY <1>1, ChangesetsAssumption DEF Planned, PlanInv, WriteShape, Given, Targets, IInv, TypeOK
<1>3. ASSUME NEW j \in DOMAIN landed[r], landed[r][j].id = i PROVE j = k
  <2>1. /\ j \in DOMAIN revs[r] /\ revs[r][j].id = i
        /\ k \in DOMAIN revs[r] /\ revs[r][k].id = i
    BY <1>1, <1>3, WroteIs DEF Records
  <2> QED BY <1>2, <2>1 DEF Planned, PlanInv, Once
<1>4. WritesTo(r, i) = {k}
  BY <1>1, <1>3 DEF WritesTo
<1>5. k \in Nat
  BY DEF IInv, TypeOK
<1>6. FirstOf({k}) = k /\ LastOf({k}) = k
  BY <1>5 DEF FirstOf, LastOf
<1> QED BY <1>1, <1>4, <1>6 DEF Prior, Left

\* They hold when nothing has arrived yet.
LEMMA InitPlans == Init => Planned /\ StoreInv /\ RolledBack /\ AllRead
<1> SUFFICES ASSUME Init PROVE Planned /\ StoreInv /\ RolledBack /\ AllRead
  OBVIOUS
<1>1. DOMAIN << >> = {}
  OBVIOUS
<1>2. ASSUME NEW r \in Requests PROVE PlanInv(r)
  BY <1>1, NoWireShape DEF Init, PlanInv, Once
<1>3. StoreInv
  BY DEF Init, StoreInv, Stored
<1>4. RolledBack
  BY DEF Init, RolledBack, RollbackInv
<1>5. AllRead
  BY <1>1 DEF Init, AllRead, ReadInv
<1> QED BY <1>2, <1>3, <1>4, <1>5 DEF Planned

\* A rollback nobody interferes with finds its records, however many requests there are at
\* once and whatever gets lost (build_rollback), if no body names a record twice.
THEOREM RollbacksFindRecords ==
  ASSUME ~Console, NamesOnce
  PROVE  Spec => []RollbackFindsRecords
<1>1. Init => Planned /\ StoreInv /\ RolledBack
  BY InitPlans
<1>2. IInv /\ Planned /\ StoreInv /\ RolledBack /\ [Next]_vars =>
        (Planned /\ StoreInv /\ RolledBack)'
  BY PlanStep, StoreStep, RollbackStep
<1>3. IInv /\ Planned /\ StoreInv /\ RolledBack => RollbackFindsRecords
  <2> SUFFICES ASSUME IInv, Planned, StoreInv, RolledBack, NEW q \in Requests,
                      reverts[q] # None, Undisturbed(q), status[q] \in {"partial", "failed"},
                      Current(q).op # "create", ~Exists(Current(q).id)
               PROVE  FALSE
    BY DEF RollbackFindsRecords
  <2>1. PICK rev, i, t : rev = Current(q) /\ i = rev.id /\ t = reverts[q]
    OBVIOUS
  <2>2. /\ cur[q] \in DOMAIN revs[q] /\ rev = revs[q][cur[q]]
    BY <2>1, HistoryOf DEF Failed, Current
  <2>3. RevShape(rev)
    BY <2>2 DEF Planned, PlanInv
  <2>4. i \in Ids /\ i \in issued /\ store[i] = None
    BY <2>1, <2>3 DEF RevShape, Given, Exists, IInv, TypeOK
  <2>5. PICK r \in Requests : \E k \in DOMAIN landed[r] :
          landed[r][k].id = i /\ landed[r][k].op = "delete"
    BY <2>4 DEF StoreInv, Stored
  <2>6. PICK k \in DOMAIN landed[r] : landed[r][k].id = i /\ landed[r][k].op = "delete"
    BY <2>5
  <2>7. i # None
    BY <2>4, ChangesetsAssumption DEF Targets
  <2>8. CASE r = q
    <3>1. k \in DOMAIN revs[q] /\ k # cur[q] /\ revs[q][k].id = i
      BY <2>6, <2>8, WroteIs DEF Records
    <3> QED BY <2>1, <2>2, <2>7, <3>1 DEF Planned, PlanInv, Once
  <2>9. CASE r = t
    <3>1. status[t] # "none" /\ Inverts(revs[q], t)
      BY <2>1 DEF RolledBack, RollbackInv, Dropped, IInv, AuditInv, RequestInv
    <3>2. PICK j \in Undoable(t) : Undoes(rev, revs[t][j])
      BY <2>2, <3>1 DEF Inverts
    <3>3. j \in DOMAIN revs[t] /\ revs[t][j].id = i
      BY <2>1, <3>2 DEF Undoes, Undoable
    <3>4. k \in DOMAIN revs[t] /\ revs[t][k].id = i /\ revs[t][k].op = "delete"
      BY <2>6, <2>9, <3>1, WroteIs DEF Records
    <3>5. j = k
      BY <2>5, <2>7, <2>9, <3>3, <3>4 DEF Planned, PlanInv, Once
    <3>6. rev.op = "create"
      BY <3>2, <3>4, <3>5 DEF Undoes, InverseOp
    <3> QED BY <2>1, <3>6
  <2>10. CASE r \notin {q, t}
    <3>1. landed[r] = << >>
      BY <2>1, <2>10 DEF Undisturbed
    <3> QED BY <2>6, <3>1
  <2> QED BY <2>8, <2>9, <2>10
<1> QED BY <1>1, <1>2, <1>3, Inductive, PTL DEF Spec

-----------------------------------------------------------------------------
(***************************************************************************)
(* One request at a time.                                                  *)
(***************************************************************************)

\* A step that writes nothing and adds nothing to a plan.
LEMMA ReadKeeps ==
  ASSUME NEW q \in Requests, ReadInv(q), UNCHANGED << store, landed >>,
         reverts'[q] = None => reverts[q] = None,
         q \in InFlight' => q \in InFlight \/ revs'[q] = << >>,
         DOMAIN revs'[q] \subseteq DOMAIN revs[q],
         \A k \in DOMAIN revs'[q] :
           /\ revs'[q][k].op = revs[q][k].op
           /\ revs'[q][k].before = revs[q][k].before
           /\ revs[q][k].op # "create" => revs'[q][k].id = revs[q][k].id
  PROVE  ReadInv(q)'
<1>1. DOMAIN << >> = {}
  OBVIOUS
<1> QED BY <1>1 DEF ReadInv

\* Planning reads what is there.
LEMMA ReadItem ==
  ASSUME AnswersArrive, IInv, Planned, StoreInv, NEW q \in Requests, ReadInv(q),
         PlanCreate(q) \/ PlanRead(q) \/ PlanBlind(q)
  PROVE  ReadInv(q)'
<1> USE DEF IInv, TypeOK
<1>1. PICK item : item = Head(todo[q])
  OBVIOUS
<1>2. pc[q] = "planning" /\ todo[q] # << >>
  BY DEF PlanCreate, PlanRead, PlanBlind, ReadFails
<1>3. item \in Items /\ ItemShape(item) /\ landed[q] = << >>
  BY <1>1, <1>2, HeadTailProperties DEF Planned, PlanInv, AuditInv, RequestInv
<1>4. PICK before \in Contents \cup {None} :
        Plan(q, before) /\ (item.op # "create" => before = store[item.id])
  <2>1. CASE PlanCreate(q)
    BY <1>1, <2>1 DEF PlanCreate
  <2>2. CASE PlanRead(q)
    BY <1>1, <2>2 DEF PlanRead, Exists, Targets
  <2>3. CASE PlanBlind(q)
    <3>1. item.op # "create" /\ ~Exists(item.id) /\ Plan(q, None)
      BY <1>1, <2>3 DEF PlanBlind, ReadFails, AnswersArrive
    <3>2. item.id \in Ids
      BY <1>3, <3>1 DEF ItemShape, Given, Exists
    <3> QED BY <3>1, <3>2 DEF Exists
  <2> QED BY <2>1, <2>2, <2>3
<1>5. PICK new : new = Revision(item.op, item.id, before, item.content)
  OBVIOUS
<1>6. new \in Revisions /\ new.op = item.op /\ new.id = item.id /\ new.before = before
  BY <1>3, <1>5, RevisionType DEF Revision, Items
<1>7. revs'[q] = Append(revs[q], new) /\ UNCHANGED << store, landed, reverts, pc >>
  BY <1>1, <1>4, <1>5 DEF Plan
<1>8. /\ DOMAIN revs'[q] = DOMAIN revs[q] \cup {Len(revs[q]) + 1}
      /\ \A k \in DOMAIN revs[q] : revs'[q][k] = revs[q][k]
      /\ revs'[q][Len(revs[q]) + 1] = new
  BY <1>6, <1>7, AppendProperties
<1>9. DOMAIN landed[q] = {} /\ InFlight' = InFlight
  BY <1>3, <1>7 DEF InFlight
<1> QED BY <1>4, <1>6, <1>7, <1>8, <1>9 DEF ReadInv

\* A write finds what its plan has read, for nobody else writes meanwhile.
LEMMA ReadExecutes ==
  ASSUME IInv, Planned, StoreInv, NothingLeft, AllRead, OneUser',
         NEW r \in Requests, NEW i \in Targets, Executes(r, i), NEW q \in Requests
  PROVE  ReadInv(q)'
<1> USE DEF IInv, TypeOK
<1>1. PICK w \in Writes :
        /\ landed' = [landed EXCEPT ![r] = Append(landed[r], w)]
        /\ w = [op |-> wire[r].op, id |-> i, prior |-> store[i], now |-> wire[r].after]
        /\ i \in Given' /\ (i \in Clients => wire[r].op = "update")
        /\ i \in Ids => /\ w.now = None <=> w.op = "delete"
                        /\ w.prior = None <=> w.op = "create"
  BY ExecutedShape
<1>2. /\ UNCHANGED << pc, revs, cur, reverts >> /\ ReadInv(q)
      /\ store' = [store EXCEPT ![i] = w.now]
  BY <1>1 DEF Executes, Execute, backendVars, databaseVars, AllRead
<1>3. pc[r] = "sent" /\ InExchange(r)
  BY DEF Executes, Stages, AuditInv, RequestInv, Between, NothingLeft
<1>4. InFlight' = InFlight /\ r \in InFlight
  BY <1>2, <1>3 DEF InFlight, Over
<1>5. CASE q # r
  <2>1. q \notin InFlight /\ landed'[q] = landed[q]
    BY <1>1, <1>4, <1>5 DEF OneUser
  <2> QED BY <1>2, <1>4, <2>1 DEF ReadInv
<1>6. CASE q = r
  <2> SUFFICES ASSUME reverts[r] = None, NEW k \in DOMAIN revs[r]
               PROVE  IF k \in DOMAIN landed'[r] THEN revs[r][k].before = landed'[r][k].prior
                      ELSE revs[r][k].op # "create" =>
                             revs[r][k].before = store'[revs[r][k].id]
    BY <1>2, <1>6 DEF ReadInv
  <2>1. /\ cur[r] \in DOMAIN revs[r] /\ Len(landed[r]) + 1 = cur[r]
        /\ wire[r].op = revs[r][cur[r]].op
        /\ wire[r].op # "create" => i = revs[r][cur[r]].id
    BY <1>3 DEF InExchange, Executes
  <2>2. PICK s \in Seq(Writes) : s = landed[r]
    OBVIOUS
  <2>3. /\ DOMAIN Append(s, w) = DOMAIN s \cup {cur[r]} /\ cur[r] \notin DOMAIN s
        /\ \A j \in DOMAIN s : Append(s, w)[j] = s[j]
        /\ Append(s, w)[cur[r]] = w
    BY <2>1, <2>2, AppendProperties
  <2>4. landed'[r] = Append(s, w)
    BY <1>1, <2>2
  <2>5. RevShape(revs[r][k]) /\ RevShape(revs[r][cur[r]])
    BY <2>1 DEF Planned, PlanInv
  <2>6. CASE k = cur[r]
    <3>1. CASE wire[r].op = "create"
      <4>1. i \in Ids /\ w.prior = None
        BY <1>1, <3>1 DEF Executes
      <4> QED BY <2>1, <2>3, <2>4, <2>5, <2>6, <3>1, <4>1 DEF RevShape
    <3>2. CASE wire[r].op # "create"
      <4>1. revs[r][k].before = store[i]
        BY <1>2, <1>4, <1>6, <2>1, <2>2, <2>3, <2>6, <3>2 DEF ReadInv
      <4> QED BY <1>1, <2>3, <2>4, <2>6, <4>1
    <3> QED BY <3>1, <3>2
  <2>7. CASE k \in DOMAIN s
    BY <1>2, <1>6, <2>2, <2>3, <2>4, <2>7 DEF ReadInv
  <2>8. CASE k # cur[r] /\ k \notin DOMAIN s
    <3> SUFFICES ASSUME revs[r][k].op # "create"
                 PROVE  revs[r][k].before = store'[revs[r][k].id]
      BY <2>3, <2>4, <2>8
    <3>1. revs[r][k].before = store[revs[r][k].id]
      BY <1>2, <1>4, <1>6, <2>2, <2>8 DEF ReadInv
    <3>2. revs[r][k].id \in Given
      BY <2>5 DEF RevShape
    <3>3. revs[r][k].id # i
      <4>1. CASE wire[r].op = "create"
        <5>1. i \in Ids \ issued
          BY <4>1 DEF Executes
        <5> QED BY <3>2, <5>1, ChangesetsAssumption DEF Given
      <4>2. CASE wire[r].op # "create"
        BY <2>1, <2>5, <2>8, <4>2 DEF RevShape, Planned, PlanInv, Once
      <4> QED BY <4>1, <4>2
    <3>4. revs[r][k].id \in Targets
      BY <3>2 DEF Given, Targets
    <3> QED BY <1>2, <3>1, <3>3, <3>4
  <2> QED BY <2>6, <2>7, <2>8
<1> QED BY <1>5, <1>6

\* One request at a time, what a plan has read is there until it is written.
LEMMA ReadStep ==
  ASSUME AnswersArrive, ~Console
  PROVE  /\ IInv /\ Planned /\ StoreInv /\ NothingLeft /\ AllRead
         /\ [Next /\ OneUser']_vars
         => AllRead'
<1> SUFFICES ASSUME IInv, Planned, StoreInv, NothingLeft, AllRead, [Next /\ OneUser']_vars,
                    NEW q \in Requests
             PROVE  ReadInv(q)'
  BY DEF AllRead
<1> USE DEF IInv, TypeOK, gatewayVars, planVars, backendVars, databaseVars
<1>0. ReadInv(q) /\ DOMAIN << >> = {}
  BY DEF AllRead
<1>1. CASE /\ UNCHANGED << store, landed >> /\ reverts'[q] = reverts[q]
           /\ revs'[q] = << >> \/ (revs'[q] = revs[q] /\ (q \in InFlight' => q \in InFlight))
  BY <1>0, <1>1, ReadKeeps
<1>2. ASSUME NEW r \in Requests, PlanCreate(r) \/ PlanRead(r) \/ PlanBlind(r)
      PROVE  ReadInv(q)'
  <2>1. CASE r = q
    BY <1>0, <1>2, <2>1, ReadItem
  <2>2. CASE r # q
    <3>1. UNCHANGED << store, landed, reverts, pc >> /\ revs'[q] = revs[q]
      BY <1>2, <2>2 DEF PlanCreate, PlanRead, PlanBlind, Plan
    <3>2. InFlight' = InFlight
      BY <3>1 DEF InFlight
    <3> QED BY <1>1, <3>1, <3>2
  <2> QED BY <2>1, <2>2
<1>3. ASSUME NEW r \in Requests, Submit(r) PROVE ReadInv(q)'
  <2>1. /\ UNCHANGED << store, landed, reverts, revs >> /\ (r # q => pc'[q] = pc[q])
        /\ revs[r] = << >>
    BY <1>3 DEF Submit, AuditInv, RequestInv
  <2> QED BY <1>1, <2>1 DEF InFlight
<1>4. ASSUME NEW r \in Requests, PlanSkip(r) \/ Refuse(r) \/ CreateChangeset(r)
      PROVE  ReadInv(q)'
  <2>1. /\ UNCHANGED << store, landed, reverts >> /\ pc[r] \in {"planning"}
        /\ revs'[q] \in {<< >>, revs[q]} /\ (r # q => pc'[q] = pc[q])
    BY <1>4 DEF PlanSkip, ReadFails, Refuse, CreateChangeset, EndWithout
  <2> QED BY <1>1, <2>1 DEF InFlight, Over
<1>5. ASSUME NEW r \in Requests,
             StartRevision(r) \/ FailValidation(r) \/ Send(r) \/ Commit(r) \/ DatabaseFails(r)
      PROVE  ReadInv(q)'
  <2>1. /\ UNCHANGED << store, landed, reverts >> /\ pc[r] \in {"applying", "queued", "stopped"}
        /\ revs'[q] \in {<< >>, revs[q]} /\ (r # q => pc'[q] = pc[q])
    BY <1>5 DEF StartRevision, FailValidation, Send, Commit, DatabaseFails, EndWithout
  <2> QED BY <1>1, <2>1 DEF InFlight, Over
<1>6. ASSUME NEW r \in Requests, Reply(r) \/ ReplyError(r) PROVE ReadInv(q)'
  <2>1. CASE r # q
    <3>1. UNCHANGED << store, landed, reverts >> /\ revs'[q] = revs[q] /\ pc'[q] = pc[q]
      BY <1>6, <2>1 DEF Reply, ReplyError
    <3> QED BY <1>1, <3>1 DEF InFlight
  <2>2. CASE r = q
    <3>1. InExchange(q) /\ cur[q] \in DOMAIN revs[q] /\ revs[q][cur[q]] \in Revisions
          /\ pc[q] = "sent"
      BY <1>6, <2>2 DEF Reply, ReplyError, AuditInv, RequestInv, InExchange
    <3>2. PICK rev : rev = revs'[q][cur[q]]
      OBVIOUS
    <3>3. /\ DOMAIN revs'[q] = DOMAIN revs[q]
          /\ \A k \in DOMAIN revs[q] : k # cur[q] => revs'[q][k] = revs[q][k]
          /\ rev.op = revs[q][cur[q]].op /\ rev.before = revs[q][cur[q]].before
          /\ rev.op # "create" => rev.id = revs[q][cur[q]].id
      <4>1. CASE Reply(q)
        <5>1. /\ rev = [revs[q][cur[q]] EXCEPT !.outcome = "applied", !.id = wire[q].id]
              /\ DOMAIN revs'[q] = DOMAIN revs[q]
              /\ \A k \in DOMAIN revs[q] : k # cur[q] => revs'[q][k] = revs[q][k]
          BY <3>1, <3>2, <4>1 DEF Reply
        <5> QED BY <3>1, <5>1 DEF InExchange, Revisions
      <4>2. CASE ReplyError(q)
        <5>1. /\ rev = [revs[q][cur[q]] EXCEPT !.outcome = "error"]
              /\ DOMAIN revs'[q] = DOMAIN revs[q]
              /\ \A k \in DOMAIN revs[q] : k # cur[q] => revs'[q][k] = revs[q][k]
          BY <3>1, <3>2, <4>2 DEF ReplyError
        <5> QED BY <3>1, <5>1 DEF InExchange, Revisions
      <4> QED BY <1>6, <2>2, <4>1, <4>2
    <3>4. UNCHANGED << store, landed, reverts >> /\ q \in InFlight
      BY <1>6, <2>2, <3>1 DEF Reply, ReplyError, InFlight, Over
    <3> QED BY <1>0, <3>2, <3>3, <3>4, ReadKeeps
  <2> QED BY <2>1, <2>2
<1>7. ASSUME NEW r \in Requests, NEW t \in Requests, SubmitRollback(r, t) PROVE ReadInv(q)'
  <2>1. CASE r = q
    <3>1. reverts'[q] # None
      BY <1>7, <2>1, ChangesetsAssumption DEF SubmitRollback
    <3> QED BY <3>1 DEF ReadInv
  <2>2. CASE r # q
    <3>1. /\ UNCHANGED << store, landed >> /\ reverts'[q] = reverts[q] /\ revs'[q] = revs[q]
          /\ pc'[q] = pc[q]
      BY <1>7, <2>2 DEF SubmitRollback
    <3> QED BY <1>1, <3>1 DEF InFlight
  <2> QED BY <2>1, <2>2
<1>8. ASSUME NEW r \in Requests, Reject(r) PROVE ReadInv(q)'
  <2>1. UNCHANGED << store, landed, reverts, revs, pc >>
    BY <1>8 DEF Reject
  <2>2. InFlight' = InFlight
    BY <2>1 DEF InFlight
  <2> QED BY <1>1, <2>1, <2>2
<1>9. ASSUME NEW r \in Requests, ExecuteCreate(r) \/ ExecuteOther(r), OneUser'
      PROVE  ReadInv(q)'
  BY <1>9, ExecutesIs, ReadExecutes
<1>10. CASE UNCHANGED vars
  <2>1. UNCHANGED << store, landed, reverts, revs, pc >>
    BY <1>10 DEF vars
  <2>2. InFlight' = InFlight
    BY <2>1 DEF InFlight
  <2> QED BY <1>1, <2>1, <2>2
<1>11. ~Crash /\ ~ConsoleEdit /\ \A r \in Requests : ~Lose(r)
  BY DEF AnswersArrive, Crash, ConsoleEdit, Lose
<1> QED BY <1>2, <1>3, <1>4, <1>5, <1>6, <1>7, <1>8, <1>9, <1>10, <1>11
        DEF Next, Plans, Applies, Gateway, Finished

\* An applied revision of a changeset in the history was written.
LEMMA AppliedLanded ==
  ASSUME IInv, NEW r \in Requests, status[r] # "none", NEW k \in DOMAIN revs[r],
         revs[r][k].outcome = "applied"
  PROVE  k \in DOMAIN landed[r]
<1>1. revs[r] \in Seq(Revisions) /\ landed[r] \in Seq(Writes) /\ cur[r] \in Nat \ {0}
  BY DEF IInv, TypeOK
<1>2. k < cur[r] /\ Len(landed[r]) = cur[r] - 1
  BY HistoryOf
<1> QED BY <1>1, <1>2

\* A changeset that was applied completely was written completely.
LEMMA AppliedAll ==
  ASSUME IInv, NEW r \in Requests, status[r] = "applied", NEW k \in DOMAIN revs[r]
  PROVE  k \in DOMAIN landed[r]
<1>1. revs[r] \in Seq(Revisions) /\ landed[r] \in Seq(Writes) /\ cur[r] \in Nat \ {0}
  BY DEF IInv, TypeOK
<1>2. cur[r] = Len(revs[r]) + 1 /\ Len(landed[r]) = cur[r] - 1
  BY HistoryOf
<1> QED BY <1>1, <1>2

\* Under one request at a time, what a rollback that reports success undid is as it was
\* before (build_rollback): the before-images it restores are what the writes replaced,
\* because nobody wrote between the read and the write, and no record is named twice.
THEOREM RollbacksRestore ==
  ASSUME AnswersArrive, ~Console, NamesOnce
  PROVE  SerialSpec => []RollbackRestores
<1>1. SerialSpec => Spec
  <2>1. [Next /\ OneUser']_vars => [Next]_vars
    OBVIOUS
  <2> QED BY <2>1, PTL DEF SerialSpec, Spec
<1>2. Init => Planned /\ StoreInv /\ RolledBack /\ NothingLeft /\ AllRead
  BY InitPlans DEF Init, NothingLeft
<1>3. /\ IInv /\ Planned /\ StoreInv /\ RolledBack /\ NothingLeft /\ AllRead
      /\ [Next /\ OneUser']_vars
      => (Planned /\ StoreInv /\ RolledBack /\ NothingLeft /\ AllRead)'
  <2>1. Lossless
    BY DEF AnswersArrive, Lossless
  <2>2. [Next /\ OneUser']_vars => [Next]_vars
    OBVIOUS
  <2> QED BY <2>1, <2>2, PlanStep, StoreStep, RollbackStep, NothingLeftStep, ReadStep
<1>4. IInv /\ Planned /\ RolledBack /\ AllRead => RollbackRestores
  <2> SUFFICES ASSUME IInv, Planned, RolledBack, AllRead, NEW q \in Requests, NEW t \in Requests,
                      status[q] = "applied", reverts[q] = t, NEW k \in DOMAIN landed[t],
                      AsLeft(t, landed[t][k].id)
               PROVE  Restores(q, t, landed[t][k].id)
    BY DEF RollbackRestores
  <2>1. PICK i, rev, prior : i = landed[t][k].id /\ rev = revs[t][k] /\ prior = landed[t][k].prior
    OBVIOUS
  <2>2. status[q] # "none" /\ status[t] # "none" /\ Inverts(revs[q], t)
    <3>1. t # None /\ pc[q] = "done"
      BY ChangesetsAssumption DEF IInv, AuditInv, RequestInv
    <3> QED BY <3>1 DEF RolledBack, RollbackInv, Dropped
  <2>3. /\ k \in DOMAIN revs[t] /\ rev.outcome = "applied"
        /\ rev.op = landed[t][k].op /\ rev.id = i /\ rev.after = landed[t][k].now
    BY <2>1, <2>2, WroteIs DEF Records
  <2>4. Prior(t, i) = prior /\ Left(t, i) = rev.after
    BY <2>1, <2>2, <2>3, WroteOnce
  <2>5. /\ WriteShape(landed[t][k]) /\ RevShape(rev) /\ rev \in Revisions
        /\ i \in Given /\ i # None /\ (i \in Ids <=> i \notin Clients)
    BY <2>1, <2>3, ChangesetsAssumption
       DEF Planned, PlanInv, WriteShape, Given, Targets, IInv, TypeOK
  <2>6. rev.before = prior
    <3>1. CASE reverts[t] = None
      BY <2>1, <2>3, <3>1 DEF AllRead, ReadInv
    <3>2. CASE reverts[t] # None
      <4>1. PICK u \in Requests : u = reverts[t]
        BY <3>2 DEF IInv, TypeOK
      <4>2. status[u] # "none" /\ Inverts(revs[t], u)
        BY <2>2, <3>2, <4>1 DEF RolledBack, RollbackInv, Dropped, IInv, AuditInv, RequestInv
      <4>3. PICK j \in Undoable(u) : Undoes(rev, revs[u][j])
        BY <2>1, <2>3, <4>2 DEF Inverts
      <4>4. CASE rev.op = "create"
        BY <2>1, <2>3, <2>5, <4>4 DEF RevShape, WriteShape
      <4>5. CASE rev.op # "create"
        <5>1. revs[u][j].id = i /\ rev.before = revs[u][j].after
          BY <2>3, <4>3, <4>5 DEF Undoes
        <5>2. j \in DOMAIN landed[u]
          BY <4>2, AppliedLanded DEF Undoable
        <5>3. landed[u][j].id = i /\ landed[u][j].now = revs[u][j].after
          BY <4>2, <5>1, <5>2, WroteIs DEF Records
        <5>4. WritesTo(u, i) = {j} /\ Left(u, i) = rev.before
          BY <4>2, <5>1, <5>2, <5>3, WroteOnce
        <5> QED BY <2>1, <2>4, <3>2, <4>1, <5>4 DEF AsLeft
      <4> QED BY <4>4, <4>5
    <3> QED BY <3>1, <3>2
  <2>7. k \in Undoable(t)
    BY <2>1, <2>3, <2>5, <2>6 DEF Undoable, WriteShape
  <2>8. \A m \in DOMAIN revs[q] : m \in DOMAIN landed[q] /\ Records(revs[q][m], landed[q][m])
    BY <2>2, AppliedAll, WroteIs
  <2>9. PICK m \in DOMAIN revs[q] : Undoes(revs[q][m], rev)
    BY <2>1, <2>2, <2>7 DEF Inverts
  <2>10. /\ m \in DOMAIN landed[q] /\ landed[q][m].now = prior
         /\ landed[q][m].op = InverseOp[rev.op]
         /\ InverseOp[rev.op] # "create" => landed[q][m].id = i
    BY <2>3, <2>6, <2>8, <2>9 DEF Undoes, Records
  <2>11. CASE i \in Ids /\ Left(t, i) = None
    <3>1. rev.op = "delete"
      BY <2>1, <2>3, <2>4, <2>5, <2>11 DEF WriteShape
    <3> QED BY <2>1, <2>4, <2>10, <2>11, <3>1 DEF Restores, InverseOp
  <2>12. CASE ~(i \in Ids /\ Left(t, i) = None)
    <3>1. rev.op \in {"create", "update"}
      BY <2>1, <2>3, <2>4, <2>5, <2>12 DEF WriteShape, Revisions, Ops
    <3>2. landed[q][m].id = i
      BY <2>10, <3>1 DEF InverseOp
    <3>3. WritesTo(q, i) = {m} /\ Left(q, i) = prior
      BY <2>10, <3>2, WroteOnce
    <3> QED BY <2>1, <2>4, <2>12, <3>3 DEF Restores
  <2> QED BY <2>11, <2>12
<1> QED BY <1>1, <1>2, <1>3, <1>4, Inductive, PTL DEF SerialSpec

=============================================================================
