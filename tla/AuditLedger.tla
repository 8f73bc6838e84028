---------------------------- MODULE AuditLedger ----------------------------
(***************************************************************************)
(* What the audit log promises, without any of its machinery: requests     *)
(* write to the gateway, and closing a request puts into the ledger exactly*)
(* the writes it made, in their order.  A closed request writes nothing    *)
(* more and its entry never changes (docs/ARCHITECTURE.md, "Changesets":   *)
(* append-only, every mutation goes through a changeset, history is never  *)
(* rewritten).                                                             *)
(***************************************************************************)
EXTENDS Sequences

CONSTANTS
  Requests,  \* the requests that may write
  Entries,   \* what a write did: operation, record and content
  NotYet     \* the entry of a request that has not been closed

VARIABLES
  writes,    \* writes[r]: the writes the gateway has executed for r
  ledger     \* ledger[r]: what the audit log says r wrote

vars == << writes, ledger >>

TypeOK ==
  /\ writes \in [Requests -> Seq(Entries)]
  /\ ledger \in [Requests -> Seq(Entries) \cup {NotYet}]

Init ==
  /\ writes = [r \in Requests |-> << >>]
  /\ ledger = [r \in Requests |-> NotYet]

Land(r, e) ==
  /\ ledger[r] = NotYet
  /\ writes' = [writes EXCEPT ![r] = Append(@, e)]
  /\ UNCHANGED ledger

Close(r) ==
  /\ ledger[r] = NotYet
  /\ ledger' = [ledger EXCEPT ![r] = writes[r]]
  /\ UNCHANGED writes

Next == \E r \in Requests : Close(r) \/ \E e \in Entries : Land(r, e)

Spec == Init /\ [][Next]_vars
=============================================================================
