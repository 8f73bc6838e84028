-------------------------------- MODULE Lists -------------------------------
(***************************************************************************)
(* Lists that are built by going through another one and keeping some of   *)
(* it, as the comprehensions and loops of the backend do.  SelectSeq says  *)
(* the same; the provers know nothing about it.                            *)
(***************************************************************************)
EXTENDS Naturals, Sequences, SequencesExt

\* What is left of s when only the places in K are kept.
Picked(s, K) ==
  LET kept[k \in 0 .. Len(s)] ==
        IF k = 0 THEN << >>
        ELSE IF k \in K THEN Append(kept[k - 1], s[k]) ELSE kept[k - 1]
  IN  kept[Len(s)]

\* What is left of s when only members of S are kept.
Only(s, S) == Picked(s, {k \in DOMAIN s : s[k] \in S})

\* Every member of s once, at its first place.
Once(s) == Picked(s, {k \in DOMAIN s : \A j \in 1 .. (k - 1) : s[j] # s[k]})
=============================================================================
