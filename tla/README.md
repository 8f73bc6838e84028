# Specifications of unifi-dns

unifi-dns is a web application that edits the local DNS records of a UniFi
gateway and keeps a history of every change, so that changes can be rolled
back. A React frontend talks to a FastAPI backend (`src/backend/app`), the
backend talks to the gateway over HTTP through one shared `UnifiClient` and
keeps a PostgreSQL database with a mirror of the gateway's records and an audit
log. The gateway is the source of truth; everything the database says about it
can be overtaken at any moment by the gateway's own console.

This directory holds TLA+ models of that system, the TLC configurations that
check them on small instances, and proofs that TLAPS checks.

## 1. The system

| Component | Code | State | Operations | What is hard |
|---|---|---|---|---|
| Changeset engine | `services/changes.py`, `api/routes.py` 207-448 and 515-535, `api/routes_migrate.py` 249-316 | a changeset and its revisions, pending in a database session until one commit at the end | plan (with a read per item), create, apply revision by revision, commit, build the inverse, roll back | requests interleave at every await; a failure in the middle of a batch; an answer that never comes; a restart between a gateway write and the commit; before-images that are stale when used |
| UniFi client | `unifi/client.py` | the write lock and its FIFO queue, the cached site id | one HTTP exchange per call; writes under the lock | the lock serialises exchanges, not read-modify-write sequences; a timeout releases it |
| Mirror and drift | `services/changes.py` 264-349, `api/routes.py` 451-510 | a row per record, soft-deleted | upsert and soft-delete while applying, adopt the whole gateway, compare | rows commit in another order than the gateway executed the writes; the listing that is adopted is older than the rows it is compared with |
| Apex domains and zones | `services/zones.py`, `api/routes.py` 66-163 | the declared apexes, an event of the history for each change of them | declare, remove, longest-suffix match, grouping, suggestions | two requests look for one apex before either inserts it; nested apexes, bare names |
| Client records | `api/routes.py` 166-246, `unifi/client.py` 228-265 | a name and a flag on each device, on the gateway | list, set, clear, roll back | the record is read outside the lock and a flag that is not sent is taken from it; the gateway refuses a clear of a name whose flag is set |
| Statistics | `api/routes_stats.py`, `services/collector.py` 20-60 | none of its own: queries over the rows of the collector | summary, timeline, devices, names, who goes round the gateway | several statements per answer, each with a snapshot of its own; NULL in conditions and in the order |
| Import | `services/migrate.py`, `api/routes_migrate.py` 20-166 and 293-316, `frontend/src/MigratePage.tsx` 46-338 | the parsers' state while they read; a preview and what is picked in it, on the page | read a Pi-hole, a Technitium server, hosts files or zone files; classify; apply | an entry of a zone file depends on those before it; a preview is older than what it is applied to; an import stops half-way and is repeated |
| Domain move | `api/routes_migrate.py` 169-290, `frontend/src/MigratePage.tsx` 343-537 | a preview on the page | preview, add under the new domain, remove the originals | the three are requests of their own, from previews of any age, and each may stop half-way |
| Settings | `api/routes_settings.py`, `unifi/client.py` 296-418 | none of its own | encrypted DNS, ad blocking, content filters, resolvers per network | read-modify-write of whole documents outside the lock |
| Flow collector | `services/collector.py`, `api/routes_stats.py` | a row per flow | poll every interval, or when asked to | overlapping polls, a source that shifts while it is paged, a loop that must survive every error |
| Start and stop | `main.py` | the client, the collector task | start with or without a gateway | an unreachable gateway |
| Authentication | `auth.py`, `api/deps.py`, `main.py` 60-90, `frontend/src/App.tsx` | a signed cookie per browser; settings that are fixed at the start | tell the page how to sign in, sign in and out, let a request through or refuse it, attribute | the page is told by one function and refused by another, from settings that may be there in part; the order of the middleware |
| Frontend | `frontend/src` | cached query results | forms, previews, confirmations | shows data that is older than what it acts on |

What makes each part correct:

- **Changeset engine, UniFi client**: the history tells what the gateway
  executed, nothing else and nothing less; a batch stops at its first failure;
  one write at a time reaches the gateway; a rollback restores what its
  changeset replaced; every request is answered.
- **Mirror and drift**: an adoption makes the mirror say what the gateway
  listed, whatever happened before; drift shows what the console did and not
  what the application did itself; requests do not wait for each other for ever.
- **Apex domains and zones**: no name is declared twice, the history says exactly
  what is declared, every record is shown once and under the longest apex.
- **Client records**: the gateway never has to refuse a clear, the history tells
  what a device has.
- **Statistics**: figures of one answer, and of the parts of the dashboard, fit
  together.
- **Authentication**: the page and the API agree on who is let in, and once
  somebody must sign in nothing is recorded in nobody's name.
- **Settings**: a request does what it was asked for and leaves every other
  field of the documents it writes back as it was; no profile is ever emptied.
- **Import**: what a source says is what is imported; what is picked already
  neither doubles a record nor gives a name a second answer; nothing is left
  behind; the second time there is nothing to do.
- **Domain move**: nothing outside the two domains is touched, and no name of
  the old domain is without an answer at any moment.
- **Collector**: no flow within reach is skipped, counts are those of the rows,
  and nothing ends the collector.

## 2. Modules

| Module | Models | Code |
|---|---|---|
| `Changesets` | the write path: planning, changesets, the write lock, the exchange with the gateway, commit, rollback, faults, restarts, console edits | `services/changes.py`, `unifi/client.py`, `api/routes.py` |
| `AuditLedger` | what the audit log promises, without machinery; `Changesets` implements it | `docs/ARCHITECTURE.md`, "Changesets" |
| `ChangesetsProofs` | the inductive invariants of `Changesets` and the theorems: the history, the lock, the ledger, rollbacks | |
| `Mirror` | the mirror rows in the ORM sessions and database transactions of concurrent requests, adoption, drift | `services/changes.py` 264-349, `models/records.py`, `api/routes.py` 453-535 |
| `Settings` | the documents the settings pages edit, read-modify-write | `api/routes_settings.py`, `unifi/client.py` 296-418, `frontend/src/DnsSettingsPage.tsx` |
| `Names` | names as sequences of labels, and the domains they lie under | `services/zones.py`, `api/routes_migrate.py` 200-206 |
| `Move` | moving a domain, from several pages at once | `api/routes_migrate.py` 177-316, `MigratePage.tsx` 343-537 |
| `MoveProofs` | the inductive invariant of `Move` and the theorems | |
| `Import` | reading a source, classifying a preview, applying it | `services/migrate.py`, `api/routes_migrate.py` 76-166, `MigratePage.tsx` 46-338 |
| `Access` | sign-in, the middleware, in whose name a request is made | `auth.py`, `api/deps.py`, `main.py`, `frontend/src/App.tsx` |
| `Zones` | the longest match and the grouping of records | `services/zones.py` |
| `Apexes` | declaring and removing apexes, and the events of the history | `api/routes.py` 66-112, `services/changes.py` (`record_event`) |
| `Devices` | the record of a client device, its changesets and their rollback | `api/routes.py` 166-246, `unifi/client.py` 228-265 |
| `Stats` | what the collector keeps of a flow, and what is counted of it | `api/routes_stats.py`, `services/collector.py` |
| `App` | the application as its pages use it: composes `Access`, `Apexes`, `Devices`, `Stats` and the records page | `main.py`, `api/routes.py` 115-163, `api/routes_stats.py` |
| `AppProofs` | the inductive invariants of `App` and the theorems: who acts, apexes, devices, zones, figures | |
| `Collector` | the collector task, polls on request, start and stop of the backend | `services/collector.py`, `unifi/client.py` 267-294, `main.py` |
| `MirrorProofs`, `SettingsProofs`, `ImportProofs`, `CollectorProofs` | the inductive invariants of these modules and the theorems | |
| `Lists` | lists that are made from others by keeping some of their members, as comprehensions and loops do; used by `Import` and `Collector` | |
| `ListTheorems` | what those lists hold, and sums over finite sets: the lemmas the proofs share | |
| `MCChangesets`, `MCMirror`, `MCSettings`, `MCMove`, `MCImport`, `MCCollector`, `MCApp` | instances for TLC | |

`Changesets` is the core and has the exchange with the gateway in full. `App`
is the composition at the level of pages: the requests of `Apexes`, `Devices`,
the records page and the dashboard share the session cookies, the database and
the gateway, and each gets to its handler through `Access`. The other modules use a changeset as one of their actions and model what is around
it: the rows it writes (`Mirror`), the previews it is made from (`Import`,
`Move`). One action stands for what a request does between two awaits, so
requests interleave exactly where the event loop can switch. Every definition
named `Mutant:` in its comment is a plausible slip in the code that a property
must notice; it is part of no specification.

### Changesets

`pc[r]` is how far request `r` is:

- `planning`: the endpoint goes through the items of its body. A create needs
  no read; an update or a delete reads the record it is about to replace. When
  that read fails with a `UnifiError`, the single-record endpoints refuse, the
  bulk endpoint goes on without a before-image and the remove endpoint leaves
  the item out.
- `applying`, `queued`, `sent`: `apply_changeset` is between two revisions,
  waits for the write lock, or has its write under way. `queue` is the asyncio
  lock: its waiters in order, the first one owns it.
- `stopped`: a `UnifiError` ended the loop.
- `done`, `refused`, `aborted`: the changeset is committed; the request ended
  before it had one; an exception nothing catches closed the session.

`store` is what the gateway holds, for DNS policies (by id, never reused) and
for the local DNS record of a client device. `wire[r]` is the write of `r` that
is under way and its answer, so that a write can outlive the request that sent
it. `landed` is for observation only: the writes the gateway has executed.

A content is an opaque value: what the properties need is whether two contents
are the same and whether there is one. The gateway is taken to answer a write
with an error only when it did not execute it; whatever else may happen to a
write is a lost answer.

`Faults` says what may go wrong in a run: writes the gateway rejects, reads
that answer with an error, lost answers (timeouts, broken connections,
unreadable answers), errors of the database at a flush or at the commit
(`DatabaseFails`), restarts of the backend. `Console` adds edits in the
gateway's own console.

A body names records the gateway has given an id by then (`Known`): ids are
random, so one that was never given out is no different from that of a record
that was deleted.

Left out: the author, summary and timestamps of a changeset; bodies the request
schema rejects; a bulk update or delete that names no id.

### Mirror

Two kinds of request write mirror rows: one that applies a changeset (`Write`,
then `Touch` for the row, up to `EndLoop`) and one that adopts the gateway
(`ListPage` until the listing is complete, `Merge` row by row in the order of
the listing, `Sweep` for the rows that were not listed). Each has a session: `mine[r]` are the rows as it has
them, `base[r]` as it loaded them, `dirty[r]` those it must still flush. A flush
locks rows (`held`) and writes versions only its own transaction sees (`draft`)
until `Commit` or `Abort`. A unique index on the record's id refuses the second
`INSERT` of a row (`FlushFails`), a lock cycle is broken by the database
(`BreakDeadlock`); nothing in the code catches either error. An exchange with
the gateway is one step.

### Settings

`docs` are the documents the gateway holds, `page[r]` what the page of request
`r` showed, which may be older (`Load` refreshes it). `SubmitForm` sends the
fields of a form, `ToggleAds` the list of networks that are to block ads, taken
from the page. `ListProfiles`, `Visit`, `Switch` are `update_ad_blocking`;
`Read` and `Write` are the read-modify-write of one document, where only the
write holds the lock. `Fail` ends a request in any exchange; a write may have
been executed all the same.

### Names and Move

A name is the sequence of its labels, so that "lies under" is the comparison at
label boundaries that `match_apex` and `rename_preview` make on strings.
`Preview` sorts the records under the old domain by whether their new name and
type exist, `Apply` and `Add` are the page's request for those it has picked,
`RemoveOriginals` and `Delete` for the originals of those that exist, `Answered` and
`Fail` what the page does afterwards. Several pages act at once, each from a
preview of any age. DNS policies only: the code reports client records in the
preview and does not rewrite them either. The labels in front of an SRV record
are not separate fields here.

### Import

A source is read line by line, each line any of `Lines`; what a line says is its
fields, and the parsers' state (`origin`, `last`) is the variables of
`parse_zone_file`. The three kinds of source are three sequences of parts
(`Parts`); a live one may fail (`SourceFails`), and the aliases of a Pi-hole are
left out without a word when it does not answer for them (`NextPart`).
`ListPolicies` and `Classify` are the two listings of `preview`, in the order
the code makes them, with the sorting into four buckets; `Apply` adds what is
picked, everything new or any other choice; `Fail` is a write that fails, which
the page takes for done when the gateway has answered and shows as an error over
the same preview when it has not. A zone file is taken to state an owner before
it leaves one out. `owner` and `written` are for observation: what RFC 1035 says
the lines mean. `byDefault`, `fresh` and `complete` say which imports the
properties are about.

Left out: what makes a line unparsable, parentheses over several lines (one
that is never closed drops the rest of the file without a word, migrate.py:396),
the choice between the two Pi-hole APIs, weights and ports.

### Collector

The gateway holds the flows `first .. last` and lists them newest first; flows
come in and expire while a poll goes from page to page. `ReadPage`, `Insert`,
`Commit` are `collect_once` for the collector's task and for a request
(`collect_now`); `Fail` is any exception, `BreakDeadlock` the database's choice
between two polls that insert the same rows in different orders. `Start`,
`ComeUp`, `StartFails`, `GoDown` are `lifespan` and the supervisor around it.

### Access, Apexes, Devices, Stats, Zones and App

`config` holds which settings are there: the three of OpenID Connect and the
header of a proxy; the backend may be started with any of `Configs`. `LoadPage`
asks `me` and shows the application or the gate; `Login`, `Callback`, `GiveUp`
and `Logout` are the way through the provider and back. `Arrive` is the
middleware: it takes the user from the cookie, then from the header, refuses or
lets through, and remembers in `who[r]` in whose name the request is made. A
handler goes on with `Proceed`, one step for every exchange with the gateway and
every statement to the database; `Fail` is anything that nothing catches.

`Apexes`: `CheckApex` looks, `InsertApex` inserts the row together with its
event, or fails at the unique index; `GetApex` and `DeleteApex` likewise. An
apex is known by the request that declared it. `Devices`: `ReadDevice` reads the
record outside the lock, `After` says what it is to become, `Body` what is sent,
`PutDevice` is the exchange and the commit of the changeset; `UndoChange` is its
rollback. `App` has what only reads: the records page (`ListPolicies`,
`ListClients`, `Group`: three moments), the statements of `summary`, the list of
devices and those that go round the gateway. `Collect` commits a poll, `Edit` is
the gateway's console.

`Zones` has the loop of `match_apex` as a recursive function over the list, and
beside it what is promised: the longest declared apex, in whatever order.
`Stats` writes each SQL condition as an operator; a comparison with NULL is not
true, nor is its negation. A sum of nothing but NULLs is NULL.

Left out: the time window (all rows lie in it), the suggestion of apexes, the
last five statements of `summary`, which are no sums of the same rows, and the
per-device breakdowns. The cookie is taken to be what the backend signed.

## 3. Runs

Run with `tlc -config <run>.cfg <module>.tla`. The bounds are the
constants of each `.cfg`.

| Run | Module | Shows | Bounds, and why they are enough |
|---|---|---|---|
| `Changesets_faults` | `MCChangesets` | `TypeOK`, `CommittedIsAccurate`, `StopsAtFirstFailure`, `Answered`: whatever is committed is accurate, whatever goes wrong, and every request is answered | two requests with every kind of body, up to two revisions each, rollbacks, all five faults, as often as they can happen. Two revisions have a first, a last and one in between two awaits; two requests can overtake each other. The theorems cover every size |
| `Changesets_ledger` | `MCChangesets` | `OneWriteAtATime`, `ImplementsLedger`: while nothing but `UnifiError`s goes wrong, the write path implements `AuditLedger` | two requests on one record, console edits at any moment |
| `Changesets_one_user` | `MCChangesets` | `RollbackRestores`, `RollbackFindsRecords`: a rollback that reports success has restored what its changeset replaced | one request at a time, three in a row: a change, its rollback and the rollback of that, two rollbacks of the same, or two changes and a rollback of the first; the theorems cover longer rows; rejected writes and errors of the database; bodies that name a record at most once |
| `Changesets_lost` | `MCChangesets` | `NothingUnrecorded` is violated once an answer is lost | |
| `Mirror_requests` | `MCMirror` | `TypeOK`, `NothingElseDrifts`, `AdoptionRepairs`, `Ends` | three requests: two that get in each other's way, locking two rows in opposite orders or creating what an adoption inserts, and an adoption; five records, so that updates, a delete and creates are all possible; pages of one record, so that a listing shifts while it is read; one console edit |
| `Settings_edit` | `MCSettings` | `TypeOK`, `NeverEmptied`, `AdBlockingAsAsked`, `RestIsKept` | two requests, two profiles: one switched off that covers two networks, one with nothing but the ad category; one failed exchange, one console edit |
| `Move_pages` | `MCMove` | `TypeOK`, `NamesStay`, `OthersUntouched` | two pages that move a domain under itself, so that a name can be moved and removed again and again (the checker does reach states in which both names `rename_preview` speaks of are gone); a round robin, an alias and a name that ends in the domain's letters but is not under it; two failing writes; ids for four more records |
| `Move_loses` | `MCMove` | `AnswersStay` is violated: an address of a round robin is lost | two domains that are apart |
| `Import_sources` | `MCImport` | `TypeOK`, `DefaultIsSafe`, `ImportIsComplete`, `AgainIsNothing` | sources of every kind with two lines, so that one can repeat or contradict the other; three previews: before, after and after a failure; one change by others and one failure at any moment |
| `Import_owners` | `MCImport` | `NamesAsWritten` is violated: the type of an entry becomes a name | three lines |
| `Collector_polls` | `MCCollector` | `TypeOK`, `CountsAddUp`, `NothingIsSkipped`, `GetsStored` | four flows, pages of one, two pages within reach, so that flows shift past the reader; two polls at once; one fault |
| `App_pages` | `MCApp` | access: `GateMatches`, `NobodyActs`, `SignInSticks`; apexes: `NamesUnique`, `HistoryAgrees`, `EachInItsZone`, `MovesOnlyItsOwn`; devices: `NothingMissing`, `HistoryTells`; dashboard: `FiguresFit`, `DashboardAgrees`; `TypeOK` | four scenes, one at a time, because requests of different scenes write different tables: access, six ways to configure the backend, two browsers, one request that writes; apexes, three requests that declare or remove nested apexes, then one that reads the records page while the console edits; devices, three requests or rollbacks on one device, with a name to be lowered and one that is all blanks; dashboard, six flows, one for every kind of row, and a poll during the answer |

Deadlock is not checked in `App_pages`, because each request is made once and
then nothing is left to do. It is checked where a state in which nothing moves
would be a fault, and the specifications say in an action of their own when they
are done.

### Fairness

- `Changesets`: the event loop runs each request that can go on and the gateway
  answers or the client gives up waiting (the HTTP client has a timeout). No
  fairness for new requests, faults and edits. Weak fairness per request is
  enough because the asyncio lock is first come, first served.
- `Mirror`: the same, and PostgreSQL breaks deadlocks (it does, after
  `deadlock_timeout`).
- `Collector`: the supervisor starts the backend again (`restart` in
  `docker-compose.yml`), exchanges end one way or the other, the sleep of the
  collector ends, deadlocks are broken. Polls on request need not happen.

`Settings`, `Move`, `Import` and `App` are checked for safety only: all they do is
started by a user, who may always walk away.

### What the runs found

- A write whose answer is lost is in no changeset (`Changesets_lost`):
  `apply_changeset` catches `UnifiError` only (changes.py:193), an httpx timeout
  closes the session without its commit.
- Of two records with one name and type, one moved is enough for both originals
  to be offered for removal (`Move_loses`, routes_migrate.py:228).
- An entry of a zone file that leaves out its owner, TTL and class is misread,
  and the next that leaves out its owner gets its type for a name
  (`Import_owners`, migrate.py:417).

The models also follow the code where the following can be seen; the properties
are stated for the cases in which they hold:

- A before-image is read outside the write lock (routes.py:285). Of two updates
  at once, the second stores the state before both, and rolling it back undoes
  the first as well. The before-image of a rollback is what its changeset left,
  not what the gateway holds when it is rolled back (changes.py:233). So a
  rollback of a rollback gives back what the first changeset wrote: after
  a to b, b to c by another changeset, and the rollback of the first, which
  makes it a, the rollback of that rollback makes it b; c, which was there, is
  not restored by it. That takes four requests and three contents; it came up
  when the proof of `RollbackRestores` failed, which therefore speaks of the
  records nobody wrote to in between (`AsLeft`).
- The bulk endpoint goes on without a before-image when a read fails
  (routes.py:358); the rollback then leaves the item out and reports success.
- A bulk that updates a record and then deletes it cannot be rolled back: the
  record comes back under a new id (changes.py:233).
- A timeout releases the write lock while the write is still on its way
  (client.py:174); the theorem on one write at a time assumes it does not happen.
- Two changesets that update one record which has no mirror row yet: both look for
  it, find none and insert it (changes.py:318-327). The second violates the unique
  index on `unifi_id`, nothing catches the `IntegrityError`, and its gateway write
  is in no history, although no answer was lost and nothing was restarted
  (`DatabaseFails` in `Changesets`). The same happens to a changeset that inserts
  the row an adoption inserts (`FlushFails` in `Mirror`). "Nothing bypasses the
  audit log" (README.md:70) therefore holds only while nothing but `UnifiError`s
  goes wrong, which is the hypothesis of `LedgerImplemented`.
- Two changesets may commit in another order than the gateway executed their
  writes; the mirror shows the older content until the next adoption.
- Settings are written back whole and outside the lock between read and write:
  two at once undo each other (client.py:360). They are in no changeset.
- Networks that share a content-filtering profile are switched together
  (routes_settings.py:210).
- A preview of an import is as old as its two listings; applied later, it adds
  a record a second time (routes_migrate.py:115). After an import that stopped
  half-way, the values of a round robin that are still missing are conflicts and
  not picked. An MX or SRV record that is on the gateway counts as a conflict
  with itself, because its value is shown with its priority
  (routes_migrate.py:152).
- With one of the two domains under the other (routes_migrate.py:193 refuses equal
  domains only), what was added is in the old domain again, and both names that
  should resolve can be gone: moving `lan` to `home.lan` makes `nas.lan` first
  `nas.home.lan`; once its original is removed, the next round makes that
  `nas.home.home.lan` and removes it too. The move never comes to an end.
  `NamesStay` is what is left: some name the old one has become has an answer. That
  it is one of the two is proved for domains that are apart (`OneOfTwoNames`).
- Two removals of one apex at once are two events of the history
  (routes.py:98-112).
- The page sends the flag, or the name, it has listed when the other one is
  changed (routes.py:230, pages.tsx:258), so a rename can undo a switch.
- A name of nothing but blanks is not a clear for the endpoint: with the flag on
  the gateway refuses it, with the flag off it clears the record (client.py:248).
  The history holds a name as it was sent, the gateway the lowered one.
- A record that is set with the flag left out is created with it off
  (routes.py:218-231).
- The statements of `summary` see different snapshots, so that what was blocked
  can exceed what was seen (routes_stats.py:102-112).
- The list of devices puts those first of which nothing has a policy: their sum
  is NULL, and NULL comes first (routes_stats.py:218). A drop without a policy is
  not counted as one of the perimeter (routes_stats.py:117). Addresses in
  172.17.* to 172.31.* are not of the LAN (routes_stats.py:47).
- With the issuer and the client set and the secret missing, the page shows a
  gate, the API enforces nothing and signing in is an error (auth.py:33, 45, 79).
- A gateway that cannot be reached keeps the backend from starting, because only
  `UnifiError` is caught (main.py:40), where the comments in main.py:41-45 promise
  that it comes up. `StartFails` follows the code, and `GetsStored` holds only
  because the supervisor tries again.

## 4. Proofs

Check them with `tlapm <module>.tla`. TLC finds the inductive invariants true
on the runs as well. Some assumptions on constants are more than types:

- `MoveAssumption`: the two domains of a move are different and not empty, as
  `rename_preview` checks.
- `AdBlockingIsDns` (`Stats`): the policy for ad blocking acts on DNS traffic, as
  the comment over `DNS_BLOCK` in routes_stats.py says. The code does not
  enforce it: a row of that policy on another port would be blocked DNS traffic
  that was never seen.
- `MirrorAssumption`, `AccessAssumption`, `SettingsAssumption`, `StatsAssumption`
  and `CollectorAssumption` say that records, requests, profiles, rows and flows
  are finitely many, since the code counts, adds or lists them.

### ChangesetsProofs

For every set of requests, records, clients, contents and bodies:

| Theorem | Says | Assumes |
|---|---|---|
| `TypeCorrect` | `Spec => []TypeOK` | |
| `HistoryIsAccurate` | `Spec => []CommittedIsAccurate` | |
| `FirstFailureStops` | `Spec => []StopsAtFirstFailure` | |
| `OneAtATime` | `Spec => []OneWriteAtATime` | `Lossless` |
| `LedgerImplemented` | `Spec => ImplementsLedger` | `OnlyUnifiErrors`, `WellFormed` |
| `RollbacksFindRecords` | `Spec => []RollbackFindsRecords` | `NamesOnce`, no `Console` |
| `RollbacksRestore` | `SerialSpec => []RollbackRestores` | `NamesOnce`, no `Console`, `AnswersArrive` |

`Lossless`: no lost answers and no restarts; the database may fail.
`OnlyUnifiErrors`: the gateway may refuse writes and reads, and nothing else goes
wrong. `WellFormed`: every planned update
and create of a DNS policy says something, as the request schemas demand of all
endpoints but the bulk one. `NamesOnce`: no body names a record twice.
`AnswersArrive`: the gateway may refuse any write and the database any changeset, and
nothing else goes wrong. An error of the database leaves gateway writes without a
changeset, but nothing to roll back by.

`CommittedIsAccurate` speaks of committed changesets only and is not inductive:
it must be known on the way there. `IInv` adds two parts to the types. `AuditInv`
says, for each stage of a request, how far its revisions, the writes the gateway
has executed for it and the message on the wire agree: all before the revision
the loop is at are applied and executed, all after it pending, and the one in
between executed exactly if the answer on the wire says so. The parts that hold
for a request that was lost say less, and that is why no assumption about faults
is needed. `LockInv` says that the queue holds the requests that wait or own the
lock, each once, and that the one whose write is out is at its head. With it
comes `OneWriteAtATime`, given that no message outlives its request
(`NothingLeft`, which `Lossless` buys). For the refinement every gateway write is
a `Land`, every end of a request a `Close`, and all other steps stutter; it needs
that every revision of a changeset validates (`Valid`) and that no request ends
between its first write and its commit (`OnlyUnifiErrors`).

Rollbacks need to know what plans are about. `PlanInv`: plans, messages and
executed writes have the shape of their operation and name ids that were given
out, and a plan names no record twice, the id a create is answered with
included. `StoreInv`: a record that was given out and is gone was deleted by an
executed write. `RollbackInv`: the plan of a rollback is the inverse of what can
be undone of a changeset in the history, and stays so while it is applied. From
these comes `RollbackFindsRecords`, under every fault and with any number of
requests at once: the record a rollback did not find would have been deleted by
the rollback itself, which names it once, or by the changeset it undoes, which
then has a create for it. `ReadInv` adds, for one request at a time, that what a
plan has read is what its write replaces. Then a rollback restores it, unless it
undoes a rollback, whose before-images were never read: those are what the
changeset before had left, and hence right for the records nobody wrote to in
between (`AsLeft`).

### MirrorProofs

For every number of requests, records and pages, console edits included:
`TypeCorrect`, `AdoptionDoesRepair` (`AdoptionRepairs`) and `OnlyTheConsoleDrifts`
(`NothingElseDrifts`). A session has loaded rows that others may have changed
since, so nothing can be said of what it will write, except of a request that has
met no other: what it has loaded is still there (`AloneAt`). Once it has merged a
row, it leaves it as it was listed; once it has swept, it leaves all rows so.
`Serial` adds, while requests come one at a time and the console is not used,
that a listing that is under way consists of the first records as they are
(`FirstOnes`, by which pages fit together) and that what a changeset leaves is
what the gateway holds, but for the write it has just made (`Follows`).

### SettingsProofs

For every set of profiles, forms and requests: `TypeCorrect`, `NeverRefused`
(`NeverEmptied`), `AdsAsAsked` (`AdBlockingAsAsked`) and `NothingElseChanges`
(`RestIsKept`). For the first: a profile is changed only if it is not as it should
be; one that should not block ads and does has a category to keep, be it the
one for ads in a profile that is switched off. What is written later is merged
with a newer document, and the merge keeps the categories of the change because
no document ever loses a field (`Shape`, `Filled`). For the other two: of a
request that met no other, each profile is as it should be, or still to be looked
at and as it was listed, or about to be written (`AdsAlone`), and what is about to
be written differs from what is there by the change alone (`FormAlone`).

### MoveProofs

For every gateway, set of pages and pair of different domains, nested ones included:
`TypeCorrect`, `NamesAlwaysStay` (`NamesStay`) and `OthersStay`
(`OthersUntouched`); for domains neither of which lies under the other (`Apart`)
also `OneOfTwoNames`, the promise of `rename_preview` that one of the two names
resolves. The code does not ask for `Apart`, so for nested domains only the first
three hold.

`NamesStay` is not inductive, since a removal is decided by a preview that may be
arbitrarily old, and the name it found may have been moved and removed since.
`IInv` adds that records are never changed and what is new lies under the new
domain (`Origins`), that every new name a preview found still has an answer, under
that name or one it has become (`FoundStays`), the same for the names there were at first
(`InitialStays`), and that a page works on what its preview gave it (`Plans`,
`Tasks`). What can go wrong is the removal of a record that was all that was left
of another: the answer must be further on in the same chain of moved names. It is,
because the preview that offers the removal saw the new name, which answers further
on by `FoundStays`, and because a chain never comes back to a name it has left
(`NeverBack`): every move makes the name longer, or shorter, by the difference of
the two domains, and domains of one length are apart, where a name moves once.
Chains have any length; `TimesStep` and `TimesAdd` are proved by induction over
the set of lengths (`UpTo` of `ListTheorems`). `Enough` shows that the bound in
`Becomes`, which TLC needs, leaves out no name.

### ImportProofs

For every source, gateway and number of previews, changes and failures:
`TypeCorrect`, `DefaultSafe` (`DefaultIsSafe`), `ImportComplete`
(`ImportIsComplete`) and `AgainNothing` (`AgainIsNothing`). `Safe` says that no list
has a record twice, that what a preview calls new has a name and type that
were free when it was made, and that they stay free until they are added if
nobody else changes the gateway (`fresh`). `Thorough` says that every record the
gateway would take is new, still to be added, there, or has an answer.
`Settled` says what a complete import leaves: every record is there or has an
answer, and the next preview finds nothing new.

### CollectorProofs

For every listing, number of polls and fault: `TypeCorrect`, `CountsAreRight`
(`CountsAddUp`) and `NothingSkipped` (`NothingIsSkipped`). For the counts: while a
row is inserted and not committed, another poll that comes to it waits, so the
polls under way have disjoint sets of rows, none of which is in the table
(`Own`), and each counts its own. For the second: a flow that comes in moves
those listed to later places, one that expires leaves only the end, so what a
poll has passed it holds, however the listing shifts (`Gathered`).

### AppProofs

For every set of requests, browsers, names and devices, and every configuration:

| Theorem | Says |
|---|---|
| `TypeCorrect` | `Spec => []TypeOK` |
| `ApexNamesUnique` | `Spec => []NamesUnique` |
| `ApexesFollowHistory` | `Spec => []HistoryAgrees` |
| `ClearsAreAccepted` | `Spec => []NothingMissing` |
| `DevicesFollowHistory` | `Spec => []HistoryTells` |
| `HistoryHasAuthors` | `Spec => []NobodyActs` |
| `GateIsTheApis` | `Spec => []GateMatches` |
| `SignedInStaysIn` | `Spec => SignInSticks` |
| `RecordsInTheirZones` | `Spec => []EachInItsZone` |
| `ApexesMoveTheirOwn` | `Spec => MovesOnlyItsOwn` |
| `FiguresDoFit` | `Spec => []FiguresFit` |
| `DashboardDoesAgree` | `Spec => []DashboardAgrees` |

Requests share only the tables, so `IInv` says of each request what it holds
(`HoldsApex`, `HoldsDevice`) and what it has left in the tables, which it has
done at most once and when it was done (`LeftApex`, `LeftDevice`). For
`HistoryAgrees`: a request that removes holds a row that was declared, and a row
that is inserted was never removed, because nobody could know of it. For
`NothingMissing`: a record without a name has the flag off (`Proper`), in what is
planned and in what a rollback turns round. For `NobodyActs`: a request that got
past the middleware was admitted, and its user does not change (`Signed`).

For zones: of two apexes a name lies under, one is a suffix of the other, so the
longest is unique (`ZonedIsOne`), and the loop of `match_apex` finds it in any
order. A further apex can only be the new longest one, so it takes names and
moves no others. For figures: each is the sum over the rows its condition picks,
conditions that imply each other pick subsets, and the devices, hours and names
divide the rows. `AnswerInv` says what a request for an answer holds on the way:
figures of the rows as they are, as long as those are the rows it began with.

### ListTheorems

What `Only`, `Once` and `Picked` (`Lists`) keep, and how sums over finite sets
split, grow and are divided. The induction theorems of the library take an
operator and cannot be cited, so induction is stated for sets: every set of
naturals has a least member (`LeastMember`), hence a set that holds 0 and with k
the next number holds all (`UpTo`); and for subsets of a finite set
(`SubsetInduction`). The set is that of the places at which the claim holds.
The loop of `match_apex` and the sums of the dashboard are proved on that ground.

### Only model-checked

Liveness (`Answered`, `Ends`, `GetsStored`) is beyond the prover. All other
properties of the runs that pass are theorems.

## 5. What is not modelled

- The suggestion of apexes and the parts of the statistics named above: they
  read, and nothing depends on what they answer.
- What happens during a commit of the collector: `Commit` makes the commit and the
  report one step. A cancellation, or an acknowledgement that is lost, while the
  commit is under way leaves rows in the table that nobody has reported.
- How the cookie is signed and what the provider sends.
- Reading the configuration from the environment: only which settings are there.
- Alembic scripts: the indexes they create are in the models where a property
  needs them (`Mirror`, `Apexes`, `Collector`).
- Container files, and the rendering of the pages.
- The mock gateway of the demo beyond what the models take from it: it does not
  refuse, lose or delay anything.
- Requests of different scenes of `App_pages` at once, and `App` together with
  `Changesets`: a changeset is one step there. The theorems of `AppProofs` do
  cover requests of all kinds at once.

## 6. Plan

1. The modules of section 2, their runs and their proofs: done. What TLC checks
   and the prover can reach is proved.
2. To add: the refinement of a change of a device by `Changesets`, which is one
   step in `Devices`; a specification of the application without its pages that
   `App` implements; what `RollbackRestores` becomes for requests that do not
   name the same records.
