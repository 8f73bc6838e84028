------------------------------ MODULE MCImport ------------------------------
(***************************************************************************)
(* Small sources for Import: a round robin, an alias, a mail exchanger, an *)
(* address that is none, names with and without an owner, and a gateway    *)
(* that holds one of the records already.                                  *)
(***************************************************************************)
EXTENDS Import

MCSupported == {"A", "CNAME", "MX"}
Net   == << "net" >>
Www   == << "www", "net" >>
Mail  == << "mail", "net" >>
V     == << "10.0.0.1" >>
W     == << "10.0.0.2" >>
NoAddress == << "10.0.0.256" >>
Loop  == << "localhost" >>

Rel(label)  == [rel |-> TRUE, labels |-> << label >>]
Host(v, ns) == [form |-> "host", type |-> "A", value |-> v, names |-> ns]
Alias(n, t) == [form |-> "cname", name |-> n, value |-> t]
Listed(off, type, name, v) ==
  [form |-> "listed", disabled |-> off, type |-> type, name |-> name, value |-> v]
Entry(o, classed, type, v) ==
  [form |-> "entry", owner |-> o, classed |-> classed, type |-> type, value |-> v]

MCInitial == << Rec(Mail, "A", V) >>
MCOthers  == { Rec(Www, "A", V), Rec(Mail, "MX", Www) }

MCLines ==
  { Host(V, << Loop, Www >>), Host(W, << Www, Mail >>),
    Alias(<< "ftp", "net" >>, Www),
    Listed(FALSE, "A", Www, V), Listed(TRUE, "A", Www, W), Listed(FALSE, "MX", Net, Mail),
    Listed(FALSE, "NS", Net, Mail),
    Entry(Rel("www"), FALSE, "A", V), Entry(None, TRUE, "A", W), Entry(None, FALSE, "A", V),
    Entry(At, TRUE, "MX", Rel("mail")), Entry(Rel("mail"), TRUE, "A", NoAddress),
    [form |-> "origin", labels |-> << "org" >>] }

\* One name with three addresses, its owner written once.
RoundRobin ==
  { Entry(Rel("www"), FALSE, "A", V), Entry(None, FALSE, "A", V), Entry(None, TRUE, "A", W) }
=============================================================================
