------------------------------ MODULE Settings ------------------------------
(***************************************************************************)
(* The settings of the gateway that the application edits                  *)
(* (api/routes_settings.py, unifi/client.py): content-filtering profiles,  *)
(* encrypted DNS and traffic logging, the resolvers of each network.       *)
(* Each is a document on the gateway.  A request changes some of its       *)
(* fields:                                                                 *)
(*   - a profile must be written whole, so the client reads it, merges the *)
(*     change and writes the result;                                       *)
(*   - encrypted DNS and logging are merged by the endpoint the same way;  *)
(*   - a network is merged by the gateway.                                 *)
(* The write lock covers the last exchange only, so it is one step here.   *)
(* Ad blocking is no document: a network has it when an enabled profile    *)
(* that covers it names the category ADVERTISEMENT, and turning it on or   *)
(* off rewrites profiles.                                                  *)
(***************************************************************************)
EXTENDS Naturals, FiniteSets, Sequences

CONSTANTS
  Requests,   \* requests, each sent from a page of its own
  Profiles,   \* ids of content-filtering profiles
  Merged,     \* documents the endpoint merges: encrypted DNS, traffic logging
  Networks,   \* networks; each is a document too
  ADVERTISEMENT, \* the category that stands for ad blocking
  Initial,    \* what the gateway holds at first
  Forms,      \* what the forms send: which fields, and the one the user changed
  Console,    \* what the gateway's own console may set
  Edits,      \* bound: how often the console is used
  Failures,   \* bound: how many exchanges fail
  None        \* no document, no resolvers

Documents == Profiles \cup Merged \cup Networks

Fields == {"categories", "enabled", "networks", "lists", "state", "servers", "domain"}

ASSUME SettingsAssumption ==
  /\ IsFiniteSet(Profiles)
  /\ None \notin Documents \cup Requests
  /\ \A ns \in SUBSET Networks : ns # None
  /\ DOMAIN Initial = Documents
  /\ \A d \in Documents : DOMAIN Initial[d] \subseteq Fields
  /\ \A p \in Profiles : /\ DOMAIN Initial[p] = {"categories", "enabled", "networks", "lists"}
                         /\ Initial[p].categories # {}
  /\ \A f \in Forms : /\ f.doc \in Documents /\ f.field \in f.sends
                      /\ f.sends \subseteq DOMAIN Initial[f.doc]
                      /\ f.doc \in Networks => {"enabled", "servers"} \subseteq f.sends
  /\ \A c \in Console : c.doc \in Documents /\ c.field \in DOMAIN Initial[c.doc]
  /\ Edits \in Nat /\ Failures \in Nat

VARIABLES
  docs,     \* docs[d]: document d on the gateway
  page,     \* page[r]: the documents as the page of r shows them
  pc,       \* pc[r]: how far request r is
  wanted,   \* wanted[r]: the networks that are to block ads, when r is about that
  listed,   \* listed[r]: the documents as the endpoint read them
  todo,     \* todo[r]: profiles the endpoint has not looked at
  doc,      \* doc[r]: the document r is about to write
  patch,    \* patch[r]: the fields it changes
  body,     \* body[r]: what it writes
  edits,    \* how often the console was used
  failures, \* how many exchanges failed
  \* observation only
  met,      \* requests during which another one or the console was at work
  before    \* before[r]: the documents when r was sent

vars == << docs, page, pc, wanted, listed, todo, doc, patch, body, edits, failures,
           met, before >>

Over == {"done", "failed"}

NoFields == [f \in {} |-> None]

Init ==
  /\ docs     = Initial
  /\ page     = [r \in Requests |-> Initial]
  /\ pc       = [r \in Requests |-> "idle"]
  /\ wanted   = [r \in Requests |-> None]
  /\ listed   = [r \in Requests |-> Initial]
  /\ todo     = [r \in Requests |-> << >>]
  /\ doc      = [r \in Requests |-> None]
  /\ patch    = [r \in Requests |-> NoFields]
  /\ body     = [r \in Requests |-> NoFields]
  /\ edits    = 0 /\ failures = 0
  /\ met      = {}
  /\ before   = [r \in Requests |-> Initial]

InFlight == {r \in Requests : pc[r] \notin Over \cup {"idle"}}

Enter(r, stage) == pc' = [pc EXCEPT ![r] = stage]

\* A document with the fields of a change in place of its own.
Merge(d, change) ==
  [f \in DOMAIN d |-> IF f \in DOMAIN change THEN change[f] ELSE d[f]]

\* The ad blocking in force: somewhere an enabled profile covers n and names it.
Blocks(ds, n) ==
  \E p \in Profiles : /\ n \in ds[p].networks
                      /\ ds[p].enabled /\ ADVERTISEMENT \in ds[p].categories

-----------------------------------------------------------------------------
\* The page is shown, or shown again.
Load(r) ==
  /\ pc[r] = "idle" /\ page[r] # docs
  /\ page' = [page EXCEPT ![r] = docs]
  /\ UNCHANGED << docs, pc, wanted, listed, todo, doc, patch, body, edits, failures,
                  met, before >>

Begin(r, stage) ==
  /\ pc[r] = "idle"
  /\ Enter(r, stage)
  /\ met'    = IF InFlight = {} THEN met ELSE met \cup InFlight \cup {r}
  /\ before' = [before EXCEPT ![r] = docs]

\* The button of network n: the page sends the networks that block, n switched.
ToggleAds(r) ==
  /\ Begin(r, "listing")
  /\ \E n \in Networks :
       /\ \E p \in Profiles : n \in page[r][p].networks
       /\ wanted' = [wanted EXCEPT ![r] =
                       {m \in Networks : (m = n) # Blocks(page[r], m)}]
  /\ UNCHANGED << docs, page, listed, todo, doc, patch, body, edits, failures >>

\* What set_network_dns makes of a change: a network that hands out no resolvers of
\* its own loses the ones it had.
NetworkBody(change) ==
  IF change.enabled THEN change ELSE [change EXCEPT !.servers = None]

\* A form sends the fields it has, one of them changed.  A network is written at
\* once, another document is read first.
SubmitForm(r) ==
  /\ \E f \in Forms :
       /\ Begin(r, IF f.doc \in Networks THEN "writing" ELSE "reading")
       /\ doc'   = [doc EXCEPT ![r] = f.doc]
       /\ patch' = [patch EXCEPT ![r] =
                      [k \in f.sends |-> IF k = f.field THEN f.value ELSE page[r][f.doc][k]]]
       /\ body'  = [body EXCEPT ![r] = IF f.doc \in Networks THEN NetworkBody(patch'[r])
                                        ELSE NoFields]
  /\ UNCHANGED << docs, page, wanted, listed, todo, edits, failures >>

\* The profiles in any order the gateway may list them in.
Orders ==
  {s \in [1 .. Cardinality(Profiles) -> Profiles] : \A p \in Profiles : \E k \in DOMAIN s : s[k] = p}

\* update_ad_blocking reads every profile once.
ListProfiles(r) ==
  /\ pc[r] = "listing"
  /\ listed' = [listed EXCEPT ![r] = docs]
  /\ \E order \in Orders : todo' = [todo EXCEPT ![r] = order]
  /\ Enter(r, "visiting")
  /\ UNCHANGED << docs, page, wanted, doc, patch, body, edits, failures, met, before >>

\* Whether profile p, as listed, has to block ads, and whether it does.
Should(r, p) == wanted[r] \cap listed[r][p].networks # {}
HasAds(r, p) == ADVERTISEMENT \in listed[r][p].categories /\ listed[r][p].enabled

\* Mutant: the last category goes as well.
SwitchEmpties(r, p) ==
  LET cats == listed[r][p].categories
  IN  IF Should(r, p)
      THEN [categories |-> cats \cup {ADVERTISEMENT}, enabled |-> TRUE]
      ELSE [categories |-> cats \ {ADVERTISEMENT}, enabled |-> listed[r][p].enabled]

\* Mutant: a profile that is switched off is not switched on again.
SwitchStaysOff(r, p) ==
  LET cats == listed[r][p].categories
      rest == cats \ {ADVERTISEMENT}
  IN  IF Should(r, p)
      THEN [categories |-> cats \cup {ADVERTISEMENT}, enabled |-> listed[r][p].enabled]
      ELSE IF rest # {} THEN [categories |-> rest, enabled |-> listed[r][p].enabled]
           ELSE [categories |-> cats, enabled |-> FALSE]

\* The change that makes profile p do what it should.  A profile cannot be without
\* categories, so one that has no other is switched off.
Switch(r, p) ==
  LET cats == listed[r][p].categories
      rest == cats \ {ADVERTISEMENT}
  IN  IF Should(r, p) THEN [categories |-> cats \cup {ADVERTISEMENT}, enabled |-> TRUE]
      ELSE IF rest # {} THEN [categories |-> rest, enabled |-> listed[r][p].enabled]
           ELSE [categories |-> cats, enabled |-> FALSE]

\* The next profile that is not as it should be, if there is one.
Visit(r) ==
  /\ pc[r] = "visiting"
  /\ LET wrong == {k \in DOMAIN todo[r] : Should(r, todo[r][k]) # HasAds(r, todo[r][k])}
     IN  \/ /\ wrong = {}
            /\ Enter(r, "done")
            /\ UNCHANGED << todo, doc, patch >>
         \/ \E k \in wrong :
              /\ \A j \in wrong : k <= j
              /\ Enter(r, "reading")
              /\ doc'   = [doc EXCEPT ![r] = todo[r][k]]
              /\ patch' = [patch EXCEPT ![r] = Switch(r, todo[r][k])]
              /\ todo'  = [todo EXCEPT ![r] = SubSeq(@, k + 1, Len(@))]
  /\ UNCHANGED << docs, page, wanted, listed, body, edits, failures, met, before >>

\* Mutant: the change is merged into what the page showed.
ReadPage(r) ==
  /\ pc[r] = "reading"
  /\ body' = [body EXCEPT ![r] = Merge(page[r][doc[r]], patch[r])]
  /\ Enter(r, "writing")
  /\ UNCHANGED << docs, page, wanted, listed, todo, doc, patch, edits, failures, met, before >>

\* The document is read and the change merged into it.
Read(r) ==
  /\ pc[r] = "reading"
  /\ body' = [body EXCEPT ![r] = Merge(docs[doc[r]], patch[r])]
  /\ Enter(r, "writing")
  /\ UNCHANGED << docs, page, wanted, listed, todo, doc, patch, edits, failures, met, before >>

\* What the gateway has after it executed the write of r.  It refuses a profile
\* without categories.
Acceptable(r) == doc[r] \in Profiles => body[r].categories # {}

Executed(r) == [docs EXCEPT ![doc[r]] = Merge(@, body[r])]

\* Mutant: what is sent takes the place of the document.
WriteReplaces(r) ==
  /\ pc[r] = "writing" /\ Acceptable(r)
  /\ docs' = [docs EXCEPT ![doc[r]] = body[r]]
  /\ Enter(r, IF wanted[r] = None THEN "done" ELSE "visiting")
  /\ UNCHANGED << page, wanted, listed, todo, doc, patch, body, edits, failures, met, before >>

\* The write is executed; a request for ad blocking goes on with the next profile.
Write(r) ==
  /\ pc[r] = "writing" /\ Acceptable(r)
  /\ docs' = Executed(r)
  /\ Enter(r, IF wanted[r] = None THEN "done" ELSE "visiting")
  /\ UNCHANGED << page, wanted, listed, todo, doc, patch, body, edits, failures, met, before >>

\* The gateway answers with an error.
Refused(r) ==
  /\ pc[r] = "writing" /\ ~Acceptable(r)
  /\ Enter(r, "failed")
  /\ UNCHANGED << docs, page, wanted, listed, todo, doc, patch, body, edits, failures,
                  met, before >>

\* An exchange fails; a write may have been executed all the same.  Nothing is
\* undone.
Fail(r) ==
  /\ pc[r] \in {"listing", "reading", "writing"} /\ failures < Failures
  /\ \/ UNCHANGED docs
     \/ pc[r] = "writing" /\ Acceptable(r) /\ docs' = Executed(r)
  /\ failures' = failures + 1
  /\ Enter(r, "failed")
  /\ UNCHANGED << page, wanted, listed, todo, doc, patch, body, edits, met, before >>

\* Someone changes a field in the gateway's console.
ConsoleEdit ==
  /\ edits < Edits
  /\ \E c \in Console :
       /\ docs[c.doc][c.field] # c.value
       /\ docs' = [docs EXCEPT ![c.doc] = [@ EXCEPT ![c.field] = c.value]]
  /\ edits' = edits + 1
  /\ met'   = met \cup InFlight
  /\ UNCHANGED << page, pc, wanted, listed, todo, doc, patch, body, failures, before >>

\* Every request has been answered.
Finished ==
  /\ \A r \in Requests : pc[r] \in Over
  /\ UNCHANGED vars

Next ==
  \/ \E r \in Requests :
       \/ Load(r) \/ ToggleAds(r) \/ SubmitForm(r)
       \/ ListProfiles(r) \/ Visit(r) \/ Read(r)
       \/ Write(r) \/ Refused(r) \/ Fail(r)
  \/ ConsoleEdit
  \/ Finished

Spec == Init /\ [][Next]_vars

-----------------------------------------------------------------------------
(***************************************************************************)
(* Properties.                                                             *)
(***************************************************************************)

\* The documents of the gateway keep their fields.
Shape == \A d \in Documents : DOMAIN docs[d] = DOMAIN Initial[d]

TypeOK ==
  /\ Shape
  /\ pc \in [Requests -> {"idle", "listing", "visiting", "reading", "writing"} \cup Over]
  /\ wanted \in [Requests -> (SUBSET Networks) \cup {None}]
  /\ \A r \in Requests : /\ doc[r] \in Documents \cup {None}
                         /\ todo[r] \in Seq(Profiles)
                         /\ DOMAIN patch[r] \subseteq Fields
                         /\ DOMAIN body[r] \subseteq Fields
  /\ met \subseteq Requests
  /\ edits \in 0 .. Edits /\ failures \in 0 .. Failures

\* A request for ad blocking that reports success and met nobody has brought about
\* what it asked for, whatever earlier requests left half done: a network blocks ads
\* if it or a network that shares a profile with it was asked for, and no other does
\* (update_ad_blocking).
AdBlockingAsAsked ==
  [][\A r \in Requests :
       pc[r] = "visiting" /\ pc'[r] = "done" /\ r \notin met
       => \A n \in Networks :
            Blocks(docs, n) <=> \E p \in Profiles : /\ n \in docs[p].networks
                                                     /\ docs[p].networks \cap wanted[r] # {}]_vars

\* However many requests, failures and console edits there are, a request for ad
\* blocking never asks the gateway for a profile without categories, which it would
\* refuse (update_ad_blocking, "The API rejects an empty categories list").
NeverEmptied ==
  \A r \in Requests : pc[r] = "writing" /\ wanted[r] # None => Acceptable(r)

\* A request that met nobody changes the fields it was asked to change, and a request
\* for ad blocking no category but its own; everything else the gateway holds stays
\* as it was when the request was sent, though it is written back whole
\* (update_content_filter, update_doh).
RestIsKept ==
  [][\A r \in InFlight \ met' : \A d \in Documents : \A f \in DOMAIN docs[d] :
       \/ docs'[d][f] = before[r][d][f]
       \/ wanted[r] = None /\ d = doc[r] /\ f \in DOMAIN patch[r]
       \/ wanted[r] # None /\ d \in Profiles /\ f = "enabled"
       \/ /\ wanted[r] # None /\ d \in Profiles /\ f = "categories"
          /\ docs'[d][f] \ {ADVERTISEMENT} = before[r][d][f] \ {ADVERTISEMENT}]_vars

=============================================================================
