---------------------------------- MODULE App -------------------------------
(***************************************************************************)
(* The web application as its pages use it: sign-in, the records page with *)
(* its synthesised zones, the apex domains, the records of client devices  *)
(* and the dashboard (main.py, create_app; api/routes.py; routes_stats.py).*)
(* Requests of any kind run at once.  Each goes on in steps, one for every *)
(* exchange with the gateway and every statement it sends to the database; *)
(* a statement sees what is committed when it runs.                        *)
(***************************************************************************)
EXTENDS Apexes, Devices, Stats

CONSTANTS
  Policies,    \* ids of DNS policies
  PolicyNames, \* the names they may have
  Standing,    \* the policies there are at first
  Gateways,    \* the gateway's addresses, one in every network
  Limit,       \* how many devices the dashboard lists
  Edits        \* how often the console changes a policy

VARIABLES
  policies, \* policies[p]: the name of policy p on the gateway
  rows,     \* the flows that are stored
  edits

otherVars == << policies, rows, edits >>
vars == << accessVars, requestVars, apexVars, deviceVars, otherVars >>

ASSUME AppAssumption ==
  /\ Standing \in [Policies -> PolicyNames \cup {None}]
  /\ Policies \cap Clients = {} /\ Edits \in Nat

Init ==
  /\ AccessInit /\ ApexInit /\ DeviceInit
  /\ policies = Standing
  /\ rows = {}
  /\ edits = 0

Answer(r, a) == Proceed(r, "done", a)

-----------------------------------------------------------------------------
(***************************************************************************)
(* The records page.                                                       *)
(***************************************************************************)

AskZones(r) == Arrive(r, "policies", None)

NamesOf(ids, name(_)) == [i \in {j \in ids : name(j) # None} |-> name(i)]

PolicyRecords == NamesOf(Policies, LAMBDA p : policies[p])
ClientRecords == NamesOf(Clients, LAMBDA c : devices[c].name)

ListPolicies(r) == pc[r] = "policies" /\ Proceed(r, "clients", PolicyRecords)

ListClients(r) ==
  /\ pc[r] = "clients"
  /\ LET all == DOMAIN arg[r] \cup DOMAIN ClientRecords
     IN  Proceed(r, "group", [i \in all |-> IF i \in Policies THEN arg[r][i]
                                           ELSE ClientRecords[i]])

\* The declared names in the order the database has for them.
Orders(S) ==
  {s \in [1 .. Cardinality(S) -> S] : \A n \in S : \E k \in DOMAIN s : s[k] = n}

Group(r) ==
  /\ pc[r] = "group"
  /\ \E order \in Orders(Declared) :
       Answer(r, [names |-> arg[r], apexes |-> Declared,
                  zones |-> BuildZones(arg[r], order)])

-----------------------------------------------------------------------------
(***************************************************************************)
(* The dashboard.                                                          *)
(***************************************************************************)

AskSummary(r) == Arrive(r, "summary", [from |-> rows, figures |-> << >>])

\* summary: the next of its statements; the last one gives the answer.
Statement(r) ==
  /\ pc[r] = "summary"
  /\ LET known == arg[r].figures
         value == Figure(Figures[Len(known) + 1], rows)
         all   == Append(known, value)
     IN  IF Len(all) < Len(Figures)
         THEN Proceed(r, "summary", [arg[r] EXCEPT !.figures = all])
         ELSE Answer(r, [from |-> arg[r].from, to |-> rows, figures |-> all])

AskDevicesSeen(r) == Arrive(r, "top", None)

Top(r) ==
  /\ pc[r] = "top"
  /\ \E T \in Tops(rows, Limit) : Answer(r, [of |-> rows, top |-> T])

\* bypass: the networks of the gateway, then the rows.
AskBypass(r) == Arrive(r, "networks", None)

ReadNetworks(r) == pc[r] = "networks" /\ Proceed(r, "bypass", Gateways)

Bypass(r) ==
  /\ pc[r] = "bypass"
  /\ Answer(r, [of |-> rows, bypassing |-> Bypassing(rows, arg[r])])

-----------------------------------------------------------------------------
\* A poll of the collector commits.
Collect ==
  /\ \E new \in (SUBSET (DOMAIN Traffic \ rows)) \ {{}} : rows' = rows \cup new
  /\ UNCHANGED << accessVars, requestVars, apexVars, deviceVars, policies, edits >>

\* Somebody edits a policy in the console of the gateway.
Edit ==
  /\ edits < Edits
  /\ \E p \in Policies, n \in PolicyNames \cup {None} :
       n # policies[p] /\ policies' = [policies EXCEPT ![p] = n]
  /\ edits' = edits + 1
  /\ UNCHANGED << accessVars, requestVars, apexVars, deviceVars, rows >>

Reading(r) ==
  \/ AskZones(r) \/ ListPolicies(r) \/ ListClients(r) \/ Group(r)
  \/ AskSummary(r) \/ Statement(r)
  \/ AskDevicesSeen(r) \/ Top(r)
  \/ AskBypass(r) \/ ReadNetworks(r) \/ Bypass(r)

Next ==
  \/ AccessNext /\ UNCHANGED << apexVars, deviceVars, otherVars >>
  \/ \E r \in Requests : ApexNext(r) /\ UNCHANGED << deviceVars, otherVars >>
  \/ \E r \in Requests : DeviceNext(r) /\ UNCHANGED << apexVars, otherVars >>
  \/ \E r \in Requests :
       (Reading(r) \/ Fail(r)) /\ UNCHANGED << apexVars, deviceVars, otherVars >>
  \/ Collect
  \/ Edit

Spec == Init /\ [][Next]_vars

-----------------------------------------------------------------------------
(***************************************************************************)
(* What it is for.                                                         *)
(***************************************************************************)

Answers(field) == {arg[r] : r \in {q \in Requests : pc[q] = "done" /\ arg[q] # None
                                                    /\ field \in DOMAIN arg[q]}}

\* What the requests have left behind.
TypeOK ==
  /\ config \in Configs
  /\ session \in [Browsers -> Users \cup {None}]
  /\ who \in [Requests -> Users \cup {None}]
  /\ apexes \in [Requests -> Declarable \cup {None}]
  /\ devices \in [Clients -> Record]
  /\ events \in [Requests -> Happening \cup {None}]
  /\ changes \in [Requests -> Change \cup {None}]
  /\ policies \in [Policies -> PolicyNames \cup {None}]
  /\ rows \subseteq DOMAIN Traffic
  /\ edits \in 0 .. Edits

\* Every record is in exactly one zone (services/zones.py, build_zones: "Every record
\* appears exactly once"), and it is the one of the longest declared apex it lies under,
\* in whatever order the apexes are listed and however they are nested.
EachInItsZone ==
  \A a \in Answers("zones") :
    \A i \in DOMAIN a.names :
      LET zones == {z \in DOMAIN a.zones :
                      \E e \in a.zones[z] : e.record = i}
      IN  Cardinality(zones) = 1 /\ \A z \in zones : Belongs(z, a.names[i], a.apexes)

\* Where the records page may put a name.
Zoned(name, declared) == {ZoneOf(name, order) : order \in Orders(declared)}

\* Declaring or removing an apex moves names to it or away from it, and no others.
MovesOnlyItsOwn ==
  [][\A name \in PolicyNames :
       LET before == Zoned(name, Declared)
           after  == Zoned(name, Declared')
       IN  before # after =>
             \E i \in Requests :
               /\ apexes'[i] # apexes[i]
               /\ before = {apexes[i]} \/ after = {apexes'[i]}]_apexes

\* Once somebody must sign in, nothing enters the history in nobody's name (auth.py,
\* AuthMiddleware: "instead of silently acting as nobody").
NobodyActs ==
  Enforced => \A r \in Requests :
    /\ events[r] # None => events[r].author # None
    /\ changes[r] # None => changes[r].author # None

\* Who has signed in is not sent back to the gate (main.py, create_app, on the order of
\* the middleware).
SignInSticks ==
  [][\A b \in Browsers : shown[b] # "gate" /\ shown'[b] = "gate" => session[b] = None]_shown

\* Where no proxy names the user, the page that lets a user in has an API that does, the
\* gate is shown only to who would be refused, and its button leads to the provider (auth.py,
\* me and AuthMiddleware).  Settings for OpenID Connect that lack nothing but the secret are
\* excepted: they show a gate that the API does not have.
GateMatches ==
  ~(config.issuer /\ config.client /\ ~config.secret) =>
    \A b \in Browsers :
      /\ shown[b] # "error"
      /\ ~config.header /\ shown[b] = "app"  => Admitted(User(b, None))
      /\ ~config.header /\ shown[b] = "gate" => ~Admitted(User(b, None))

\* The figures of one answer fit together if no poll was committed meanwhile: what was
\* blocked was seen, and filtering and the perimeter share nothing of what was blocked.
FiguresFit ==
  \A a \in Answers("figures") :
    a.from = a.to =>
      LET f(k) == a.figures[k]
      IN  f(5) <= f(4) /\ f(4) <= f(1) /\ f(6) <= f(2) /\ f(3) + f(6) <= f(1)

\* What is shown for a sum.
Or0(sum) == IF sum = Null THEN 0 ELSE sum

\* Every blocked query is in the figure, with one of the devices, in one of the hours,
\* and no name was blocked more often than there were blocked queries.
BlockedIsSomewhere ==
  LET blocked == Figure("dns_blocked", rows)
      hours   == Timeline(rows)
      names   == Domains(rows, TRUE)
  IN  /\ SumFunction([d \in Devices(rows) |-> Or0(BlockedOf(d, rows))]) = blocked
      /\ SumFunction([h \in DOMAIN hours |-> hours[h].blocked]) = blocked
      /\ \A n \in DOMAIN names : names[n] <= blocked

\* The devices that are listed have had most blocked, as long as every row has a policy.
TopIsTop ==
  \A a \in Answers("top") :
    (\A i \in a.of : Row(i).policy # Null) =>
      \A c \in a.top, d \in Devices(a.of) \ a.top : BlockedOf(d, a.of) <= BlockedOf(c, a.of)

\* Who only asks the gateway, or is only refused an address, does not bypass it
\* (routes_stats.py, bypass: "a null address is filtering working").
FilteringIsNotBypass ==
  \A a \in Answers("bypassing") :
    \A d \in a.bypassing :
      \E i \in a.of : Row(i).src = d /\ Row(i).dst \notin Gateways \cup Sinkholes

\* The parts of the dashboard, each a query of its own, agree on what was blocked and on
\* who got round it.
DashboardAgrees == BlockedIsSomewhere /\ TopIsTop /\ FilteringIsNotBypass
=============================================================================
