------------------------------- MODULE Import -------------------------------
(***************************************************************************)
(* Importing records from another resolver (services/migrate.py,           *)
(* api/routes_migrate.py: preview, apply; frontend/src/MigratePage.tsx:    *)
(* ImportPanel).  A preview reads the source, live or from pasted files,   *)
(* and sorts what it finds by what the gateway holds: new, already there,  *)
(* in conflict with another value, or shadowed by the record of a client   *)
(* device.  The user picks, new records being picked already, and what is  *)
(* picked is added record by record, as a changeset (Changesets has those  *)
(* in full).  The gateway may change at any moment in between.             *)
(*                                                                         *)
(* A source is read line by line, each line any of Lines: what a source    *)
(* says is chosen as it is read.                                           *)
(***************************************************************************)
EXTENDS Naturals, FiniteSets, Sequences, SequencesExt, Lists

CONSTANTS
  Lines,      \* the lines a source may hold
  Modes,      \* where records come from: "pihole", "technitium", "text"
  Supported,  \* record types the gateway has
  NameValued, \* those whose value is a name
  Ranked,     \* those whose value is shown with a priority in front of it
  Given,      \* the origin the user has entered, a name; empty when there is none
  Localhost,  \* the name that hosts files carry and nobody wants
  Bad,        \* an address that is none
  None,       \* no owner, no value
  Initial,    \* the records the gateway holds at first
  Published,  \* the names that client devices have at first
  Others,     \* records that others may add
  MaxLines,   \* bound: how many lines a source has
  Sources,    \* bound: how many sources are read
  Previews,   \* bound: how many previews are made of them
  Changes,    \* bound: how often others change the gateway
  Failures    \* bound: how many writes fail

\* A record of a type the gateway has.
IsRecord(r) == DOMAIN r = {"name", "type", "value"} /\ r.type \in Supported

\* Hosts files and the records of the gateway have types the gateway has.
ASSUME ImportAssumption ==
  /\ Modes \subseteq {"pihole", "technitium", "text"}
  /\ Ranked \subseteq NameValued /\ NameValued \subseteq Supported
  /\ "CNAME" \in Supported
  /\ \A l \in Lines :
       l.form = "host" => l.type \in Supported /\ l.names \in Seq(ToSet(l.names))
  /\ Initial \in Seq(ToSet(Initial)) /\ \A r \in ToSet(Initial) \cup Others : IsRecord(r)
  /\ IsFiniteSet(Others)
  /\ {MaxLines, Sources, Previews, Changes, Failures} \subseteq Nat

VARIABLES
  pc,        \* what the page shows or waits for
  mode,      \* where it reads from, while it does
  part,      \* which part of the source it is reading
  lines,     \* how many lines it has read
  origin,    \* parse_zone_file: the origin names are relative to
  last,      \* parse_zone_file: the owner that was written last, as it was written
  imported,  \* the records read, in order
  policies,  \* the records of the gateway, in order
  clients,   \* the names that client devices publish
  existing,  \* the records of the gateway as the preview listed them
  buckets,   \* the preview
  todo,      \* the records that are still to be added
  sources, previews, changes, failures, \* how often each of these has happened
  \* observation only
  owner,     \* the owner RFC 1035 gives to an entry that has none
  written,   \* the records of the zone file as RFC 1035 reads them
  byDefault, \* nothing has been picked by hand
  fresh,     \* nobody has changed the gateway since the preview listed it
  complete   \* an import has added all that was new, and nobody has changed the gateway since

sourceVars  == << mode, part, lines, origin, last, imported, owner, written >>
gatewayVars == << policies, clients >>
previewVars == << existing, buckets >>
boundVars   == << sources, previews, changes, failures >>
importVars  == << todo, byDefault, fresh, complete >>

vars == << pc, sourceVars, gatewayVars, previewVars, importVars, boundVars >>

Buckets == {"new", "conflict", "shadowed", "duplicate"}

NoPreview == [b \in Buckets |-> << >>]

\* "@", and what an owner is before any has been written.
At == [rel |-> TRUE, labels |-> << >>]

Init ==
  /\ pc = "empty"
  /\ mode = "none" /\ part = 1 /\ lines = 0
  /\ origin = Given /\ last = At /\ imported = << >>
  /\ policies = Initial /\ clients = Published
  /\ existing = << >> /\ buckets = NoPreview
  /\ todo = << >>
  /\ sources = 0 /\ previews = 0 /\ changes = 0 /\ failures = 0
  /\ owner = None /\ written = {}
  /\ byDefault = TRUE /\ fresh = FALSE /\ complete = FALSE

-----------------------------------------------------------------------------
(***************************************************************************)
(* Reading the source.                                                     *)
(***************************************************************************)

\* The parts of a source, in the order they are read, and the lines each holds.
Parts(m) ==
  CASE m = "pihole"     -> << {"host"}, {"cname"} >>
    [] m = "technitium" -> << {"listed"} >>
    [] OTHER            -> << {"host"}, {"cname"}, {"origin", "entry"} >>

\* What a parser knows before its first line.
NewSource ==
  /\ part' = 1 /\ lines' = 0
  /\ origin' = Given /\ last' = At
  /\ owner' = None /\ written' = {}

\* The user asks for a preview.
Start ==
  /\ pc \in {"empty", "shown"} /\ sources < Sources /\ previews < Previews
  /\ pc' = "reading" /\ sources' = sources + 1 /\ previews' = previews + 1
  /\ mode' \in Modes
  /\ NewSource /\ imported' = << >>
  /\ buckets' = NoPreview /\ existing' = << >> /\ complete' = FALSE
  /\ UNCHANGED << gatewayVars, todo, byDefault, fresh, changes, failures >>

\* The user asks for a preview of the same source again: it is read as before.
Again ==
  /\ pc \in {"empty", "shown"} /\ previews < Previews /\ imported # << >>
  /\ pc' = "read" /\ previews' = previews + 1
  /\ buckets' = NoPreview /\ existing' = << >>
  /\ UNCHANGED << sourceVars, gatewayVars, importVars, sources, changes, failures >>

Rec(name, type, value) == [name |-> name, type |-> type, value |-> value]

\* parse_hosts: an address and its names.
ReadHost(e) ==
  /\ LET names == Only(e.names, ToSet(e.names) \ {Localhost})
     IN  imported' = IF e.value = Bad THEN imported
                     ELSE imported \o [k \in 1 .. Len(names) |-> Rec(names[k], e.type, e.value)]
  /\ UNCHANGED << origin, last, owner, written >>

\* parse_cnames: an alias and its target.
ReadCname(e) ==
  /\ imported' = Append(imported, Rec(e.name, "CNAME", e.value))
  /\ UNCHANGED << origin, last, owner, written >>

\* _absorb_technitium_record.
Absorb(e) ==
  /\ imported' = IF e.disabled \/ e.type \notin Supported \/ e.value = None
                 THEN imported
                 ELSE Append(imported, Rec(e.name, e.type, e.value))
  /\ UNCHANGED << origin, last, owner, written >>

\* A name of a zone file in full; empty when it is relative and there is no origin.
Qualify(token) ==
  IF ~token.rel THEN token.labels
  ELSE IF token.labels = << >> THEN origin
  ELSE IF origin = << >> THEN << >> ELSE token.labels \o origin

ReadOrigin(e) ==
  /\ origin' = e.labels
  /\ UNCHANGED << last, imported, owner, written >>

Word(type) == [rel |-> TRUE, labels |-> << type >>]

\* What an entry leaves as the owner written last.  A blank in front of an entry is
\* stripped before anyone looks at it: an entry without an owner is known by its TTL
\* or class only, and without these its type is taken for one.
Owner(e) ==
  IF e.owner # None THEN e.owner ELSE IF e.classed THEN last ELSE Word(e.type)

\* The type is taken for the owner, and so the value for the type.
TypeMistaken(e) == e.owner = None /\ ~e.classed

ValueOf(e) == IF e.type \in NameValued THEN Qualify(e.value) ELSE e.value

\* parse_zone_file: an entry, its comments and parentheses gone.
ReadEntry(e) ==
  /\ last' = Owner(e)
  /\ LET name == Qualify(Owner(e))
     IN  imported' =
           IF name = << >> \/ TypeMistaken(e) \/ e.type \notin Supported \/ ValueOf(e) = << >>
           THEN imported
           ELSE Append(imported, Rec(name, e.type, ValueOf(e)))
  /\ owner' = IF e.owner = None THEN owner ELSE Qualify(e.owner)
  /\ written' = written \cup {Rec(owner', e.type, ValueOf(e))}
  /\ UNCHANGED origin

\* A zone file writes an owner before it leaves one out.
ReadLine ==
  /\ pc = "reading" /\ lines < MaxLines
  /\ \E e \in {l \in Lines : l.form \in Parts(mode)[part]} :
       \/ e.form = "host"   /\ ReadHost(e)
       \/ e.form = "cname"  /\ ReadCname(e)
       \/ e.form = "listed" /\ Absorb(e)
       \/ e.form = "origin" /\ ReadOrigin(e)
       \/ e.form = "entry"  /\ (e.owner = None => owner # None) /\ ReadEntry(e)
  /\ lines' = lines + 1
  /\ UNCHANGED << pc, mode, part, gatewayVars, previewVars, importVars, boundVars >>

\* The next part, and after the last one the parser's state is gone.  The aliases of a
\* Pi-hole are left out without a word when it does not answer for them, as if there
\* were none.
NextPart ==
  /\ pc = "reading"
  /\ \/ /\ part < Len(Parts(mode))
        /\ part' = part + 1
        /\ UNCHANGED << pc, mode, lines, origin, last, owner, written >>
     \/ /\ part = Len(Parts(mode))
        /\ pc' = "read" /\ mode' = "none" /\ NewSource
  /\ UNCHANGED << imported, gatewayVars, previewVars, importVars, boundVars >>

\* A live source cannot be read: the page shows why and no preview.
SourceFails ==
  /\ pc = "reading" /\ mode # "text" /\ failures < Failures
  /\ pc' = "empty" /\ mode' = "none" /\ NewSource /\ imported' = << >>
  /\ failures' = failures + 1
  /\ UNCHANGED << gatewayVars, previewVars, importVars, sources, previews, changes >>

-----------------------------------------------------------------------------
(***************************************************************************)
(* Classifying.                                                            *)
(***************************************************************************)

Key(r) == << r.name, r.type >>

\* A record's value as it is compared.
Shown(r) == IF r.type \in Ranked THEN << "10" >> \o r.value ELSE r.value

\* The records are listed; the client devices come later.
ListPolicies ==
  /\ pc = "read"
  /\ pc' = "listed"
  /\ existing' = policies
  /\ fresh' = TRUE
  /\ UNCHANGED << sourceVars, gatewayVars, buckets, todo, byDefault, complete, boundVars >>

\* Mutant: a name and a type that have been seen are not looked at again.
FirstsByKey ==
  Picked(imported, {k \in DOMAIN imported :
                      \A j \in 1 .. (k - 1) : Key(imported[j]) # Key(imported[k])})

\* Every record once, at its first place.
Firsts == Once(imported)

\* Mutant: the names of client devices are forgotten.
BucketForgetsClients(r) ==
  LET same == {x \in ToSet(existing) : Key(x) = Key(r)}
  IN  IF same = {} THEN "new"
      ELSE IF \E x \in same : Shown(x) = r.value THEN "duplicate"
      ELSE "conflict"

\* Mutant: values decide, and names do not.
BucketByValue(r) ==
  LET same == {x \in ToSet(existing) : Key(x) = Key(r)}
  IN  IF r.name \in clients THEN "shadowed"
      ELSE IF \E x \in same : Shown(x) = r.value THEN "duplicate"
      ELSE "new"

\* The bucket a record goes to.
Bucket(r) ==
  LET same == {x \in ToSet(existing) : Key(x) = Key(r)}
  IN  IF r.name \in clients THEN "shadowed"
      ELSE IF same = {} THEN "new"
      ELSE IF \E x \in same : Shown(x) = r.value THEN "duplicate"
      ELSE "conflict"

\* The gateway would take the record.
Valid(r) == r.value # Bad

Classify ==
  /\ pc = "listed"
  /\ pc' = "shown"
  /\ buckets' = [b \in Buckets |->
                   Only(Firsts, {r \in ToSet(imported) : Valid(r) /\ Bucket(r) = b})]
  /\ UNCHANGED << sourceVars, gatewayVars, existing, importVars, boundVars >>

-----------------------------------------------------------------------------
(***************************************************************************)
(* Importing.                                                              *)
(***************************************************************************)

InOrder == buckets["new"] \o buckets["conflict"] \o buckets["shadowed"] \o buckets["duplicate"]

\* The user adds what is picked: everything new, or any choice.
Apply ==
  /\ pc = "shown"
  /\ \E picked \in SUBSET ToSet(InOrder) :
       /\ picked # {}
       /\ todo' = Only(InOrder, picked)
       /\ byDefault' = (picked = ToSet(buckets["new"]))
  /\ pc' = "adding"
  /\ UNCHANGED << sourceVars, gatewayVars, previewVars, fresh, complete, boundVars >>

\* The next record is added.
Add ==
  /\ pc = "adding" /\ todo # << >>
  /\ policies' = Append(policies, Head(todo))
  /\ todo' = Tail(todo)
  /\ UNCHANGED << pc, sourceVars, clients, previewVars, byDefault, fresh, complete, boundVars >>

\* All are added: the page forgets the preview.
Done ==
  /\ pc = "adding" /\ todo = << >>
  /\ pc' = "empty" /\ buckets' = NoPreview /\ existing' = << >>
  /\ complete' = (complete \/ (byDefault /\ fresh))
  /\ UNCHANGED << sourceVars, gatewayVars, todo, byDefault, fresh, boundVars >>

\* Mutant: the page that shows an error goes on adding.
FailGoesOn ==
  /\ pc = "adding" /\ failures < Failures
  /\ todo # << >> /\ todo' = Tail(todo) /\ fresh' = FALSE
  /\ pc' = "shown" /\ failures' = failures + 1
  /\ UNCHANGED << sourceVars, gatewayVars, previewVars, byDefault, complete, sources, previews, changes >>

\* A write fails.  An error of the gateway ends the changeset, and the page takes it for
\* done; without an answer nobody knows whether the write was executed, and the page shows
\* an error over the preview, which can be applied again.
Fail ==
  /\ pc = "adding" /\ failures < Failures
  /\ todo # << >> /\ todo' = << >> /\ fresh' = FALSE
  /\ \/ pc' = "empty" /\ buckets' = NoPreview /\ existing' = << >> /\ UNCHANGED policies
     \/ /\ pc' = "shown" /\ UNCHANGED previewVars
        /\ policies' \in {policies, Append(policies, Head(todo))}
  /\ failures' = failures + 1
  /\ UNCHANGED << sourceVars, clients, byDefault, complete, sources, previews, changes >>

\* Someone else adds or removes a record, or gives a client device a name.
Elsewhere ==
  /\ changes < Changes
  /\ \/ /\ \E r \in Others : policies' = Append(policies, r)
        /\ UNCHANGED clients
     \/ /\ \E k \in DOMAIN policies : policies' = RemoveAt(policies, k)
        /\ UNCHANGED clients
     \/ /\ \E r \in Others : r.name \notin clients /\ clients' = clients \cup {r.name}
        /\ UNCHANGED policies
  /\ changes' = changes + 1
  /\ fresh' = FALSE /\ complete' = FALSE
  /\ UNCHANGED << pc, sourceVars, previewVars, todo, byDefault, sources, previews, failures >>

Finished ==
  /\ pc \in {"empty", "shown"}
  /\ previews = Previews \/ (sources = Sources /\ imported = << >>)
  /\ UNCHANGED vars

Next ==
  \/ Start \/ Again \/ ReadLine \/ NextPart \/ SourceFails
  \/ ListPolicies \/ Classify
  \/ Apply \/ Add \/ Done \/ Fail
  \/ Elsewhere \/ Finished

Spec == Init /\ [][Next]_vars

-----------------------------------------------------------------------------
(***************************************************************************)
(* Properties.                                                             *)
(***************************************************************************)

\* Every variable has its type; a preview sorts each record into one bucket.
TypeOK ==
  /\ pc \in {"empty", "reading", "read", "listed", "shown", "adding"}
  /\ mode \in Modes \cup {"none"} /\ part \in 1 .. Len(Parts(mode)) /\ lines \in 0 .. MaxLines
  /\ \A r \in ToSet(imported \o policies \o existing \o todo) : IsRecord(r)
  /\ \A r \in written : DOMAIN r = {"name", "type", "value"}
  /\ DOMAIN buckets = Buckets
  /\ \A b, c \in Buckets : b # c => ToSet(buckets[b]) \cap ToSet(buckets[c]) = {}
  /\ todo # << >> => pc = "adding"
  /\ {byDefault, fresh, complete} \subseteq BOOLEAN
  /\ sources \in 0 .. Sources /\ previews \in 0 .. Previews /\ changes \in 0 .. Changes /\ failures \in 0 .. Failures

\* What is picked already is safe: as long as nobody else changes the gateway, it adds
\* no record twice and gives no second answer to a name that had one, be it a record or
\* a client device (preview, "Creating a policy record too would give the gateway two
\* answers").
DefaultIsSafe ==
  [][Add /\ byDefault /\ fresh =>
       LET r == Head(todo)
       IN  /\ r \notin ToSet(policies)
           /\ Key(r) \notin {Key(x) : x \in ToSet(existing)}
           /\ r.name \notin clients]_vars

\* Such an import leaves nothing behind: every record of the source that the gateway
\* would take is there, unless its name and type, or its name on a client device, were.
ImportIsComplete ==
  [][Done /\ byDefault /\ fresh =>
       \A r \in ToSet(imported) :
         Valid(r) => \/ r \in ToSet(policies)
                     \/ r.name \in clients
                     \/ Key(r) \in {Key(x) : x \in ToSet(existing)}]_vars

\* Importing the same source again finds nothing new, as often as it is tried.
AgainIsNothing == complete /\ pc = "shown" => buckets["new"] = << >>

\* A record that is imported from a zone file is one the file says (parse_zone_file,
\* "an omitted name inheriting the previous record's").
NamesAsWritten == written # {} => ToSet(imported) \subseteq written

=============================================================================
