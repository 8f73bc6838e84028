------------------------------ MODULE Collector -----------------------------
(***************************************************************************)
(* The flow telemetry (services/collector.py, UnifiClient.fetch_flows,     *)
(* main.py: lifespan, api/routes_stats.py: collect_now).  The gateway      *)
(* keeps a few days of flows and serves them page by page, newest first;   *)
(* flows come in at the front and go at the end while they are read.  Two  *)
(* pollers copy them to the database: the collector, a task that polls,    *)
(* sleeps and starts again for as long as the backend runs, and a request  *)
(* that polls once when someone asks for it.                               *)
(***************************************************************************)
EXTENDS Naturals, FiniteSets, Sequences, Lists

CONSTANTS
  Flows,     \* flow ids, numbered in the order the flows happen
  PageSize,  \* how many flows a page holds
  MaxPages,  \* how many pages a poll reads at most
  Faults,    \* bound: how often an exchange or a statement fails or the backend goes down
  Requests   \* bound: how often someone asks for a poll

ASSUME CollectorAssumption ==
  /\ IsFiniteSet(Flows) /\ Flows = 1 .. Cardinality(Flows)
  /\ PageSize \in Nat \ {0} /\ MaxPages \in Nat \ {0}
  /\ Faults \in Nat /\ Requests \in Nat

Pollers == {"collector", "request"}

VARIABLES
  first, last, \* the gateway holds the flows first .. last
  app,         \* what the backend does: "down", "starting", "running"
  pc,          \* pc[p]: how far poller p is
  page,        \* page[p]: the page it reads next
  fetched,     \* fetched[p]: the flows it has read, in order
  inserted,    \* inserted[p]: the rows it has inserted and not committed
  count,       \* count[p]: how many rows it counts as stored
  rows,        \* the committed rows
  reported,    \* how many rows all polls together have reported as stored
  faults, requests, \* how often each of these has happened
  begun        \* begun[p], observation only: the last flow there was when its poll began

vars == << first, last, app, pc, page, fetched, inserted, count, rows, reported,
           faults, requests, begun >>

pollVars == << pc, page, fetched, inserted, count, begun >>
boundVars == << faults, requests >>

Init ==
  /\ first = 1 /\ last = 0
  /\ app = "down"
  /\ pc       = [p \in Pollers |-> "off"]
  /\ page     = [p \in Pollers |-> 0]
  /\ fetched  = [p \in Pollers |-> << >>]
  /\ inserted = [p \in Pollers |-> {}]
  /\ count    = [p \in Pollers |-> 0]
  /\ rows = {} /\ reported = 0
  /\ faults = 0 /\ requests = 0
  /\ begun    = [p \in Pollers |-> 0]

-----------------------------------------------------------------------------
(***************************************************************************)
(* The gateway.                                                            *)
(***************************************************************************)

FlowHappens ==
  /\ last + 1 \in Flows
  /\ last' = last + 1
  /\ UNCHANGED << first, app, pollVars, rows, reported, boundVars >>

FlowExpires ==
  /\ first <= last
  /\ first' = first + 1
  /\ UNCHANGED << last, app, pollVars, rows, reported, boundVars >>

Available == first .. last

\* How far from the front of the listing flow f is, counted from 0.
Position(f) == last - f

\* Page n of the listing, newest first.
Page(n) ==
  LET size == Cardinality({f \in Available : Position(f) \div PageSize = n})
  IN  [k \in 1 .. size |-> last - n * PageSize - k + 1]

HasNext(n) == \E f \in Available : Position(f) \div PageSize > n

-----------------------------------------------------------------------------
(***************************************************************************)
(* The backend comes up and goes down.                                     *)
(***************************************************************************)

Start ==
  /\ app = "down"
  /\ app' = "starting"
  /\ UNCHANGED << first, last, pollVars, rows, reported, boundVars >>

Begin(p) ==
  /\ pc'       = [pc EXCEPT ![p] = "paging"]
  /\ page'     = [page EXCEPT ![p] = 0]
  /\ fetched'  = [fetched EXCEPT ![p] = << >>]
  /\ inserted' = [inserted EXCEPT ![p] = {}]
  /\ count'    = [count EXCEPT ![p] = 0]
  /\ begun'    = [begun EXCEPT ![p] = last]

\* The polls of the pollers ps are over: nothing of them is left but what they committed.
End(ps, how) ==
  /\ pc'       = [p \in Pollers |-> IF p \in ps THEN how[p] ELSE pc[p]]
  /\ page'     = [p \in Pollers |-> IF p \in ps THEN 0 ELSE page[p]]
  /\ fetched'  = [p \in Pollers |-> IF p \in ps THEN << >> ELSE fetched[p]]
  /\ inserted' = [p \in Pollers |-> IF p \in ps THEN {} ELSE inserted[p]]
  /\ count'    = [p \in Pollers |-> IF p \in ps THEN 0 ELSE count[p]]
  /\ begun'    = [p \in Pollers |-> IF p \in ps THEN 0 ELSE begun[p]]

\* What a poller does when its poll is over.
Rest == [p \in Pollers |-> IF p = "collector" THEN "asleep" ELSE "off"]

\* The gateway has answered, be it with an error: the collector starts.
ComeUp ==
  /\ app = "starting"
  /\ app' = "running"
  /\ Begin("collector")
  /\ UNCHANGED << first, last, rows, reported, boundVars >>

\* The gateway cannot be reached: the exception is none that lifespan catches, and
\* the backend does not come up.
StartFails ==
  /\ app = "starting" /\ faults < Faults
  /\ app' = "down"
  /\ faults' = faults + 1
  /\ UNCHANGED << first, last, pollVars, rows, reported, requests >>

Active == {p \in Pollers : pc[p] \in {"paging", "storing"}}

\* The backend is stopped, once its requests are answered, or dies.  The collector is
\* cancelled wherever it is, and open transactions are undone.
GoDown ==
  /\ app = "running" /\ faults < Faults
  /\ app' = "down"
  /\ End(Pollers, [p \in Pollers |-> "off"])
  /\ faults' = faults + 1
  /\ UNCHANGED << first, last, rows, reported, requests >>

-----------------------------------------------------------------------------
(***************************************************************************)
(* A poll.                                                                 *)
(***************************************************************************)

\* collect_now: someone asks for a poll.
Request ==
  /\ app = "running" /\ pc["request"] = "off" /\ requests < Requests
  /\ Begin("request")
  /\ requests' = requests + 1
  /\ UNCHANGED << first, last, app, rows, reported, faults >>

\* The collector has slept for the interval.
Wake ==
  /\ pc["collector"] = "asleep"
  /\ Begin("collector")
  /\ UNCHANGED << first, last, app, rows, reported, boundVars >>

\* The flows of a page that the poll has not seen.
Unseen(p, batch) == Only(batch, Flows \ ToSet(fetched[p]))

\* Mutant: a page is left out.
NextPageSkips(p) == page[p] + 2

\* The page after the one that poller p has read.
NextPage(p) == page[p] + 1

\* The next page is read.  After the last one the flows are stored, if there are any.
ReadPage(p) ==
  /\ pc[p] = "paging"
  /\ LET batch == Page(page[p])
         read  == fetched[p] \o Unseen(p, batch)
         more  == batch # << >> /\ HasNext(page[p]) /\ NextPage(p) < MaxPages
     IN  \/ /\ ~more /\ read = << >>
            /\ End({p}, Rest)
         \/ /\ more \/ read # << >>
            /\ fetched' = [fetched EXCEPT ![p] = read]
            /\ page' = [page EXCEPT ![p] = IF more THEN NextPage(p) ELSE @]
            /\ pc'   = [pc EXCEPT ![p] = IF more THEN "paging" ELSE "storing"]
            /\ UNCHANGED << inserted, count, begun >>
  /\ UNCHANGED << first, last, app, rows, reported, boundVars >>

\* Poller p waits for a row that another poller has inserted and not committed.
Waits(p) ==
  /\ pc[p] = "storing" /\ fetched[p] # << >>
  /\ \E q \in Pollers \ {p} : Head(fetched[p]) \in inserted[q]

\* Mutant: every row is counted.
InsertCountsAll(p) ==
  /\ pc[p] = "storing" /\ fetched[p] # << >>
  /\ ~Waits(p)
  /\ LET f == Head(fetched[p])
     IN  /\ inserted' = IF f \in rows \cup inserted[p] THEN inserted ELSE [inserted EXCEPT ![p] = @ \cup {f}]
         /\ count'    = [count EXCEPT ![p] = @ + 1]
  /\ fetched' = [fetched EXCEPT ![p] = Tail(@)]
  /\ UNCHANGED << first, last, app, pc, page, rows, reported, boundVars, begun >>

\* The next row is inserted unless it is there.  A row that another poll has inserted
\* and not committed is waited for.
Insert(p) ==
  /\ pc[p] = "storing" /\ fetched[p] # << >>
  /\ ~Waits(p)
  /\ LET f == Head(fetched[p])
     IN  IF f \in rows \cup inserted[p] THEN UNCHANGED << inserted, count >>
         ELSE /\ inserted' = [inserted EXCEPT ![p] = @ \cup {f}]
              /\ count'    = [count EXCEPT ![p] = @ + 1]
  /\ fetched' = [fetched EXCEPT ![p] = Tail(@)]
  /\ UNCHANGED << first, last, app, pc, page, rows, reported, boundVars, begun >>

Commit(p) ==
  /\ pc[p] = "storing" /\ fetched[p] = << >>
  /\ rows'     = rows \cup inserted[p]
  /\ reported' = reported + count[p]
  /\ End({p}, Rest)
  /\ UNCHANGED << first, last, app, boundVars >>

\* Mutant: an error that is no UnifiError ends the collector.
FailKills(p) ==
  /\ p \in Active /\ faults < Faults
  /\ End({p}, IF pc[p] = "storing" THEN [q \in Pollers |-> "off"] ELSE Rest)
  /\ faults' = faults + 1
  /\ UNCHANGED << first, last, app, rows, reported, requests >>

\* An exchange with the gateway or a statement fails, in whatever way: the poll ends,
\* its transaction is undone, and the collector goes on with its sleep.
Fail(p) ==
  /\ p \in Active /\ faults < Faults
  /\ End({p}, Rest)
  /\ faults' = faults + 1
  /\ UNCHANGED << first, last, app, rows, reported, requests >>

\* Two polls insert the same rows in different orders and wait for each other: the
\* database lets one of the two statements fail.
BreakDeadlock(p) ==
  /\ \A q \in Pollers : Waits(q)
  /\ End({p}, Rest)
  /\ UNCHANGED << first, last, app, rows, reported, boundVars >>

Step(p) == ReadPage(p) \/ Insert(p) \/ Commit(p)

Next ==
  \/ FlowHappens \/ FlowExpires
  \/ Start \/ ComeUp \/ StartFails \/ GoDown
  \/ Request \/ Wake
  \/ \E p \in Pollers : Step(p) \/ Fail(p) \/ BreakDeadlock(p)

Spec == Init /\ [][Next]_vars

(***************************************************************************)
(* A supervisor starts the backend again (docker-compose.yml, restart); the*)
(* gateway and the database answer or fail, the database ends a deadlock,  *)
(* and the collector's sleep ends.                                         *)
(***************************************************************************)
Fairness ==
  /\ WF_vars(Start) /\ WF_vars(ComeUp) /\ WF_vars(Wake)
  /\ \A p \in Pollers : WF_vars(Step(p))
  /\ WF_vars(\E p \in Pollers : BreakDeadlock(p))

FairSpec == Spec /\ Fairness

-----------------------------------------------------------------------------
(***************************************************************************)
(* Properties.                                                             *)
(***************************************************************************)

\* A collector exists exactly while the backend runs; nobody else has rows open.
TypeOK ==
  /\ first \in 1 .. last + 1 /\ last \in Flows \cup {0}
  /\ app \in {"down", "starting", "running"}
  /\ pc \in [Pollers -> {"off", "asleep", "paging", "storing"}]
  /\ page \in [Pollers -> 0 .. MaxPages - 1]
  /\ fetched \in [Pollers -> Seq(Flows)]
  /\ inserted \in [Pollers -> SUBSET Flows]
  /\ \A p \in Pollers : inserted[p] # {} => pc[p] = "storing"
  /\ count \in [Pollers -> Nat]
  /\ begun \in [Pollers -> 0 .. last]
  /\ rows \subseteq Flows /\ reported \in Nat
  /\ faults \in 0 .. Faults /\ requests \in 0 .. Requests
  /\ app = "running" <=> pc["collector"] # "off"

\* The flows a poll can reach.
InReach == {f \in Available : Position(f) < MaxPages * PageSize}

\* The listing shifts while it is read, but a poll that is committed has stored every
\* flow that was there when it began and is still within reach (fetch_flows, "Every
\* flow the gateway currently holds").
NothingIsSkipped ==
  [][\A p \in Pollers : Commit(p) => {f \in InReach : f <= begun[p]} \subseteq rows']_vars

\* Polls that overlap report together as many rows as there are, whoever inserted
\* them and whatever was undone in between (collect_once, "Idempotent by construction").
CountsAddUp == reported = Cardinality(rows)

\* A flow that stays within reach gets stored, whatever fails and however often the
\* backend goes down ("Poll forever. Failures are logged and retried; they never kill
\* the task", run_collector).
GetsStored ==
  \A f \in Flows : f \in InReach ~> f \in rows \/ f \notin InReach

=============================================================================
