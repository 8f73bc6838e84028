----------------------------- MODULE MCSettings -----------------------------
(***************************************************************************)
(* A small instance of Settings for TLC.  Profile 1 covers two networks,   *)
(* profile 2 another one and has no category but ADVERTISEMENT.            *)
(***************************************************************************)
EXTENDS Settings, TLC

CONSTANTS ads, adult, n1, n2, n3, doh, old, new

Profile(cats, on, ns) ==
  [categories |-> cats, enabled |-> on, networks |-> ns, lists |-> old]

MCInitial ==
  [d \in Documents |->
     IF d = 1 THEN Profile({adult}, FALSE, {n1, n2})
     ELSE IF d = 2 THEN Profile({ads}, TRUE, {n3})
     ELSE IF d = doh THEN [state |-> old, servers |-> old]
     ELSE [enabled |-> FALSE, servers |-> old, domain |-> old]]

Form(d, sends, field, value) ==
  [doc |-> d, sends |-> sends, field |-> field, value |-> value]

ProfileFields == {"categories", "enabled", "lists"}

MCForms ==
  { Form(1, ProfileFields, "lists", new),
    Form(1, ProfileFields, "categories", {}),
    Form(doh, {"state"}, "state", new),
    Form(doh, {"servers"}, "servers", new),
    Form(n3, {"enabled", "servers", "domain"}, "domain", new),
    Form(n3, {"enabled", "servers"}, "enabled", TRUE) }

MCConsole ==
  { [doc |-> 1, field |-> "lists",    value |-> new],
    [doc |-> 1, field |-> "enabled",  value |-> TRUE],
    [doc |-> 2, field |-> "networks", value |-> {n2, n3}] }

Interchangeable == Permutations(Requests)
=============================================================================
