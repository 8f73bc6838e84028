------------------------------- MODULE MCMove -------------------------------
(***************************************************************************)
(* A small instance of Move for TLC: two addresses of one name, an alias   *)
(* of it, and a name that only looks as if it lay under the old domain.    *)
(***************************************************************************)
EXTENDS Move, TLC

CONSTANTS a, cname, v, w

Old == << "old", "net" >>
New == << "new", "home", "arpa" >>

\* A domain under the old one.
Nested == << "new" >> \o Old

Rec(name, type, value) == [name |-> name, type |-> type, value |-> value]

\* Round robin, an alias, and a name of another domain.
MCInitial ==
  [i \in Ids |-> CASE i = 1 -> Rec(<< "www" >> \o Old, a, v)
                   [] i = 2 -> Rec(<< "www" >> \o Old, a, w)
                   [] i = 3 -> Rec(<< "ftp" >> \o Old, cname, << "www" >> \o Old)
                   [] i = 4 -> Rec(<< "notold", "net" >>, a, v)
                   [] OTHER -> None]

Interchangeable == Permutations(Pages)
=============================================================================
