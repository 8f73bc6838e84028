-------------------------------- MODULE Names -------------------------------
(***************************************************************************)
(* Names and the domains they lie under (services/zones.py, the helpers of *)
(* rename_preview in api/routes_migrate.py).  A name is the sequence of    *)
(* its labels, leftmost first, as it is after the trailing dot is cut off  *)
(* and upper case is gone: every function modelled here starts with that.  *)
(***************************************************************************)
EXTENDS Naturals, Sequences

\* name == apex or name.endswith("." + apex): the last labels of name are those of
\* apex.
Under(name, apex) ==
  /\ Len(apex) <= Len(name)
  /\ \A k \in 1 .. Len(apex) : name[Len(name) - Len(apex) + k] = apex[k]

\* relative_label: what is left of name in front of apex; nothing for the apex itself.
Label(name, apex) == SubSeq(name, 1, Len(name) - Len(apex))

\* moved: name, which lies under src, as it is under dst.
Moved(name, src, dst) == Label(name, src) \o dst

=============================================================================
