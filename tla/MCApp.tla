-------------------------------- MODULE MCApp -------------------------------
(***************************************************************************)
(* A small instance of App for TLC, one scene at a time: who may call,     *)
(* apexes and the records page, client devices, the dashboard.             *)
(***************************************************************************)
EXTENDS App, TLC

CONSTANTS p1, p2, tv, stranger

VARIABLE scene

allVars == << vars, scene >>

\* Open, all of OpenID Connect, a proxy, both, without the secret, and the issuer only.
Set(i, c, s, h) == [issuer |-> i, client |-> c, secret |-> s, header |-> h]
MCConfigs ==
  { Set(FALSE, FALSE, FALSE, FALSE), Set(TRUE, TRUE, TRUE, FALSE),
    Set(FALSE, FALSE, FALSE, TRUE), Set(TRUE, TRUE, TRUE, TRUE),
    Set(TRUE, TRUE, FALSE, FALSE), Set(TRUE, FALSE, FALSE, FALSE) }

Lab == << "lab", "net" >>
MCDeclarable == { Lab, << "net" >>, << "db" >> \o Lab, << >> }
MCPolicyNames == { << "www", "db" >> \o Lab, Lab, << "nas" >> }
MCStanding == [p \in {p1, p2} |-> IF p = p1 THEN << "www", "db" >> \o Lab ELSE << "nas" >>]

\* The names of devices: one with an upper case letter, one that is all blanks.
MCHostnames == { << "tv", "lab", "net" >>, << "TV", "lab", "net" >>, << " " >> }
MCPlain == [n \in MCHostnames |-> IF n = << " " >> THEN None ELSE << "tv", "lab", "net" >>]
MCFresh == [c \in {tv} |-> [name |-> << "tv", "lab", "net" >>, on |-> TRUE]]

\* The gateway asks a resolver itself, and answers in two networks.
Flow(src, dst, port, dns, blocked, by, count, hour) ==
  [src |-> src, dst |-> dst, port |-> port, dns |-> dns, blocked |-> blocked,
   policies |-> by, count |-> count, hour |-> hour, domains |-> {"name"}]
MCTraffic ==
  << Flow("tv", "gw1", 53, TRUE, TRUE, << "CONNTRACK", "AD_BLOCKING" >>, 2, 1),
     Flow("tv", "doh", 443, FALSE, TRUE, << "REGION_BLOCKING" >>, 5, 1),
     Flow("nas", "zero", 443, FALSE, TRUE, << "CONNTRACK" >>, 0, 2),
     Flow("nas", "gw2", 53, TRUE, FALSE, << >>, 1, 1),
     Flow("wan", "gw1", 22, FALSE, TRUE, << "REGION_BLOCKING" >>, 4, 2),
     Flow("gw2", "doh", 53, TRUE, FALSE, << "CONNTRACK" >>, 1, 1) >>

Open == Set(FALSE, FALSE, FALSE, FALSE)

\* Requests start in order, and each with what the scene is about.
Starts(stages, most) ==
  \A r \in Requests :
    pc[r] = "idle" /\ pc'[r] # "idle" =>
      /\ pc'[r] \in stages \cup {"refused"}
      /\ r <= most
      /\ \A q \in Requests : q < r => pc[q] # "idle"

Readers == {r \in Requests : pc[r] \in {"policies", "clients", "group"}}

\* Access: one request that writes.  Apexes: the first three declare or remove, the last
\* one reads, and the console edits a policy meanwhile.  Devices: three requests.  Dashboard: one
\* answer, and polls while it is made.
Staged ==
  \/ scene = "access" /\ Starts({"declare", "set"}, 1) /\ UNCHANGED << policies, rows >>
  \/ /\ scene = "apexes" /\ UNCHANGED << shown, rows >>
     /\ IF pc[3] = "idle" THEN Starts({"declare", "remove"}, 3)
        ELSE Starts({"policies"}, 4)
     /\ edits' = edits \/ (Readers # {} /\ policies'[p2] = policies[p2])
     /\ \A r \in Readers : pc'[r] # "failed"
  \/ /\ scene = "devices" /\ UNCHANGED << shown, policies, rows >>
     /\ Starts({"set", "put", "records"}, 3)
  \/ /\ scene = "dashboard" /\ UNCHANGED << shown, policies >>
     /\ Starts({"summary", "top", "networks"}, 1)
     /\ rows' # rows =>
          \/ pc[1] = "idle" /\ rows = {}
          \/ pc[1] \in {"top", "networks", "bypass"} /\ Cardinality(rows' \ rows) = 1
          \/ pc[1] = "summary" /\ Cardinality(rows' \ arg[1].from) = 1

MCInit ==
  /\ Init
  /\ scene \in {"access", "apexes", "devices", "dashboard"}
  /\ scene # "access" => config = Open

MCSpec == MCInit /\ [][Next /\ Staged /\ UNCHANGED scene]_allVars
=============================================================================
