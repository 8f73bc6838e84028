-------------------------------- MODULE Stats -------------------------------
(***************************************************************************)
(* The figures of the dashboard (api/routes_stats.py) and the rows they    *)
(* are made of (services/collector.py, _row).  A row is what the collector *)
(* keeps of a flow; a figure sums the counts of the rows an SQL condition  *)
(* holds for.  A column may be NULL, and a condition that compares NULL is *)
(* not true: such a row is in no figure that asks for it or for its        *)
(* opposite.  All rows are taken to lie in the window that is asked for.   *)
(***************************************************************************)
EXTENDS Naturals, Sequences, FiniteSetsExt

CONSTANTS
  Traffic,   \* Traffic[i]: flow i as the gateway reports it
  Null,      \* SQL's NULL
  Lan,       \* the addresses LAN_SRC matches: 10.*, 192.168.* and 172.16.*
  Sinkholes, \* null addresses: an answer with one of them is a block
  Resolvers  \* DOH_IPS: public resolvers

\* The policy of a row: the first that is not the bookkeeping of the connection tracker,
\* which is kept only if there is no other.
PolicyOf(policies) ==
  LET real == SelectSeq(policies, LAMBDA p : p # "CONNTRACK")
  IN  IF real # << >> THEN real[1] ELSE IF policies = << >> THEN Null ELSE policies[1]

\* _row: what is kept of flow i.
Row(i) ==
  LET f == Traffic[i]
  IN  [src |-> f.src, dst |-> f.dst, port |-> f.port, dns |-> f.dns,
       hour |-> f.hour, domains |-> f.domains,
       blocked |-> f.blocked, policy |-> PolicyOf(f.policies),
       sinkholed |-> f.dst \in Sinkholes,
       count |-> IF f.count = 0 THEN 1 ELSE f.count]

ASSUME StatsAssumption ==
  /\ IsFiniteSet(DOMAIN Traffic) /\ \A i \in DOMAIN Traffic : Traffic[i].count \in Nat
  /\ Null \notin Nat \cup {"AD_BLOCKING"}

\* Ad blocking acts on DNS traffic (routes_stats.py, DNS_BLOCK: "A DNS-filtering block: the
\* ad blocking policy acted, or the gateway answered with a null address").
ASSUME AdBlockingIsDns ==
  \A i \in DOMAIN Traffic :
    Row(i).policy = "AD_BLOCKING" => Row(i).dns \/ Row(i).port = 53

-----------------------------------------------------------------------------
(***************************************************************************)
(* Conditions: what they are true of.                                      *)
(***************************************************************************)

LanSrc(f) == f.src \in Lan

\* DNS_BLOCK: the answer was a null address or the ad blocking policy acted.
DnsBlock(f) == f.sinkholed \/ f.policy = "AD_BLOCKING"

\* DNS_BLOCK is neither true nor false: there is no policy to compare.
Unknown(f) == ~f.sinkholed /\ f.policy = Null

\* Mutant: an answer with a null address is DNS traffic only on the DNS port.
DnsSeenByPort(f) == LanSrc(f) /\ (f.dns \/ f.port = 53)

DnsSeen(f) == LanSrc(f) /\ (f.dns \/ f.port = 53 \/ f.sinkholed)

DnsBlocked(f) == LanSrc(f) /\ DnsBlock(f)

\* What the firewall dropped.  A row without a policy is left out: its NOT IN is NULL.
Perimeter(f) ==
  f.blocked /\ f.policy # Null /\ f.policy # "AD_BLOCKING" /\ ~f.sinkholed

\* Mutant: only the gateway's management address is the gateway.
EscapesByOne(f, gateways) ==
  /\ f.port \in {53, 853} \/ (f.port = 443 /\ f.dst \in Resolvers)
  /\ ~f.sinkholed
  /\ f.dst # Null /\ f.dst # CHOOSE g \in gateways : TRUE
  /\ LanSrc(f)

\* bypass: a device asks somebody else than the gateway, which answers on an address of
\* its own in every VLAN.
Escapes(f, gateways) ==
  /\ f.port \in {53, 853} \/ (f.port = 443 /\ f.dst \in Resolvers)
  /\ ~f.sinkholed
  /\ f.dst # Null /\ f.dst \notin gateways
  /\ f.src \notin gateways
  /\ LanSrc(f)

-----------------------------------------------------------------------------
(***************************************************************************)
(* What the endpoints answer, S being the ids of the rows there are.       *)
(***************************************************************************)

SumOf(S) == SumFunction([i \in S |-> Row(i).count])

\* The figures of summary, in the order of its statements.
Figures == << "events", "blocked_events", "sinkholed_events", "dns_seen", "dns_blocked",
              "perimeter_blocked" >>

\* Whether a figure counts a row.
Counts(figure, f) ==
  CASE figure = "events"            -> TRUE
    [] figure = "blocked_events"    -> f.blocked
    [] figure = "sinkholed_events"  -> f.sinkholed
    [] figure = "dns_seen"          -> DnsSeen(f)
    [] figure = "dns_blocked"       -> DnsBlocked(f)
    [] figure = "perimeter_blocked" -> Perimeter(f)

Figure(figure, S) == SumOf({i \in S : Counts(figure, Row(i))})

\* clients: the rows of a device, how much of it was seen and how much blocked.  The sum
\* of nothing but NULLs is NULL, which is shown as 0.
Devices(S) == {Row(i).src : i \in {j \in S : LanSrc(Row(j))}}
RowsOf(d, S) == {i \in S : Row(i).src = d}
SeenOf(d, S) == SumOf(RowsOf(d, S))
BlockedOf(d, S) ==
  IF \A i \in RowsOf(d, S) : Unknown(Row(i)) THEN Null
  ELSE SumOf({i \in RowsOf(d, S) : DnsBlock(Row(i))})

\* ORDER BY blocked DESC, events DESC: what is NULL comes first.
Ranks(c, d, S) ==
  LET bc == BlockedOf(c, S)
      bd == BlockedOf(d, S)
  IN  \/ bc = Null /\ bd # Null
      \/ bc # Null /\ bd # Null /\ bc > bd
      \/ bc = bd /\ SeenOf(c, S) > SeenOf(d, S)

\* The lists of at most limit devices that may be shown: ties are the database's to break.
Tops(S, limit) ==
  {T \in SUBSET Devices(S) :
     /\ Cardinality(T) = IF Cardinality(Devices(S)) < limit THEN Cardinality(Devices(S))
                         ELSE limit
     /\ \A c \in T, d \in Devices(S) \ T : ~Ranks(d, c, S)}

\* timeline: what was seen and blocked of the LAN in each hour.
Hours(S) == {Row(i).hour : i \in {j \in S : LanSrc(Row(j))}}
Timeline(S) ==
  [h \in Hours(S) |->
     LET rows == {i \in S : LanSrc(Row(i)) /\ Row(i).hour = h}
     IN  [events |-> SumOf(rows), blocked |-> SumOf({i \in rows : DnsBlock(Row(i))})]]

\* domains: the names in the rows that were blocked, or that were not, and how often.
Listed(f, blocked) ==
  LanSrc(f) /\ IF blocked THEN DnsBlock(f) ELSE ~f.blocked /\ ~f.sinkholed
Domains(S, blocked) ==
  LET rows == {i \in S : Listed(Row(i), blocked)}
  IN  [d \in UNION {Row(i).domains : i \in rows} |->
         SumOf({i \in rows : d \in Row(i).domains})]

\* bypass: the devices that ask somebody else.
Bypassing(S, gateways) == {Row(i).src : i \in {j \in S : Escapes(Row(j), gateways)}}
=============================================================================
