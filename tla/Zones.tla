-------------------------------- MODULE Zones -------------------------------
(***************************************************************************)
(* Zone synthesis (services/zones.py).  UniFi has no zones: records are a  *)
(* flat list of names, and the application groups them under the apex      *)
(* domains the operator has declared.  A name is the sequence of its       *)
(* labels (see Names); the empty name is the apex that is left of ".",     *)
(* which can be declared and holds nothing.                                *)
(***************************************************************************)
EXTENDS Names, FiniteSets

CONSTANTS
  Bare,      \* the group of single-label names
  Ungrouped  \* the group of names that no declared apex matches

\* Mutant: the first apex in the list that matches is taken.
MatchFirst(name, apexes) ==
  LET best[k \in 0 .. Len(apexes)] ==
        IF k = 0 THEN << >>
        ELSE IF apexes[k] # << >> /\ Under(name, apexes[k]) /\ best[k - 1] = << >>
             THEN apexes[k] ELSE best[k - 1]
  IN  best[Len(apexes)]

\* match_apex: the loop over the declared apexes.  No match is the empty name.  Of two
\* apexes a name lies under, the one with more characters has more labels.
MatchApex(name, apexes) ==
  LET best[k \in 0 .. Len(apexes)] ==
        IF k = 0 THEN << >>
        ELSE IF apexes[k] # << >> /\ Under(name, apexes[k])
                /\ Len(apexes[k]) > Len(best[k - 1])
             THEN apexes[k] ELSE best[k - 1]
  IN  best[Len(apexes)]

\* The zone a name is put into.
ZoneOf(name, apexes) ==
  LET apex == MatchApex(name, apexes)
  IN  IF apex # << >> THEN apex
      ELSE IF Len(name) = 1 THEN Bare ELSE Ungrouped

\* The label a name is shown with: what is left of it in a zone, all of it elsewhere.
ShownAs(name, zone) == IF zone \in {Bare, Ungrouped} THEN name ELSE Label(name, zone)

\* build_zones: the zones that are shown and what is in each.  There is one for every
\* declared apex and one for what is ungrouped, however empty; names maps a record to
\* its name.
BuildZones(names, apexes) ==
  LET records == DOMAIN names
      bare    == {i \in records : ZoneOf(names[i], apexes) = Bare}
      zones   == {apexes[k] : k \in DOMAIN apexes} \cup {Ungrouped}
                   \cup (IF bare = {} THEN {} ELSE {Bare})
  IN  [z \in zones |->
         {[record |-> i, label |-> ShownAs(names[i], z)] :
            i \in {j \in records : ZoneOf(names[j], apexes) = z}}]

-----------------------------------------------------------------------------
\* What the code promises: the longest declared apex that a name lies under, if there
\* is one (docs/ARCHITECTURE.md, "longest suffix wins").
Candidates(name, declared) == {a \in declared : a # << >> /\ Under(name, a)}

IsLongest(a, name, declared) ==
  /\ a \in Candidates(name, declared)
  /\ \A b \in Candidates(name, declared) : Len(b) <= Len(a)

\* The zone a name belongs to, whatever order the apexes are in.
Belongs(zone, name, declared) ==
  IF Candidates(name, declared) # {} THEN IsLongest(zone, name, declared)
  ELSE zone = IF Len(name) = 1 THEN Bare ELSE Ungrouped
=============================================================================
