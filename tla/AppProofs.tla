------------------------------ MODULE AppProofs -----------------------------
(***************************************************************************)
(* What App keeps, for every set of requests, browsers, names and devices  *)
(* and every way to configure it.  Requests only ever share the tables, so *)
(* the invariant says of each request what it holds, and of the tables     *)
(* that each request has written at most its own row, when it was done.    *)
(* The argument for the history: a request that removes an apex holds a    *)
(* row that was declared, and the row a request inserts was never removed, *)
(* because nobody could know of it.                                        *)
(* Then zones, sums and answers.  A name has one zone whatever the order   *)
(* in which the apexes are read, because of two apexes that it lies under, *)
(* both suffixes of it, one is longer.  A figure is a sum over rows, and   *)
(* sums that divide the same rows agree.  What a request holds or has been *)
(* answered is only about rows and names that no later step changes.       *)
(***************************************************************************)
EXTENDS App, ListTheorems

\* Request r is the only one that goes on, in the name it arrived with.
Moves(r) ==
  /\ \A q \in Requests \ {r} : pc'[q] = pc[q] /\ arg'[q] = arg[q] /\ who'[q] = who[q]
  /\ pc[r] # "done"
  /\ pc[r] # "idle" => who'[r] = who[r]

\* Who is signed in, and that only requests that were let in get on.
Signed ==
  /\ config \in Configs
  /\ session \in [Browsers -> Users \cup {None}]
  /\ DOMAIN shown = Browsers
  /\ DOMAIN pc = Requests /\ DOMAIN arg = Requests
  /\ who \in [Requests -> Users \cup {None}]
  /\ \A r \in Requests : pc[r] \notin {"idle", "refused"} => Admitted(who[r])

Declares(i) == events[i] # None /\ events[i].what = "declare"

\* What a request about an apex holds.
HoldsApex(r) ==
  /\ pc[r] \in {"declare", "insert"} => arg[r] \in Declarable
  /\ pc[r] \in {"remove", "delete"}  => arg[r] \in Requests /\ Declares(arg[r])

\* What a request has left in the tables of the apexes.
LeftApex(r) ==
  /\ apexes[r] # None \/ events[r] # None => pc[r] = "done"
  /\ events[r] # None =>
       /\ events[r].author = who[r]
       /\ events[r].what = "remove" => Declares(events[r].apex)

ApexInv ==
  /\ apexes \in [Requests -> Declarable \cup {None}]
  /\ events \in [Requests -> Happening \cup {None}]
  /\ \A r \in Requests : HoldsApex(r) /\ LeftApex(r)
  /\ NamesUnique /\ HistoryAgrees

\* A record without a name has the flag off.
Proper(state) == state \in Record /\ (state.name = None => ~state.on)

HoldsDevice(r) ==
  /\ pc[r] = "set" => /\ arg[r].client \in Clients \cup Strangers
                      /\ arg[r].name \in Hostnames \cup {None}
                      /\ arg[r].flag \in BOOLEAN \cup {None}
  /\ pc[r] = "put" => /\ arg[r].client \in Clients
                      /\ Proper(arg[r].before) /\ Proper(arg[r].after)

LeftDevice(r) ==
  changes[r] # None =>
    /\ pc[r] = "done"
    /\ Proper(changes[r].before) /\ Proper(changes[r].after)
    /\ changes[r].author = who[r]

DeviceInv ==
  /\ devices \in [Clients -> Record]
  /\ changes \in [Requests -> Change \cup {None}]
  /\ \A r \in Requests : HoldsDevice(r) /\ LeftDevice(r)
  /\ NothingMissing /\ HistoryTells

OtherInv ==
  /\ policies \in [Policies -> PolicyNames \cup {None}]
  /\ rows \subseteq DOMAIN Traffic
  /\ edits \in 0 .. Edits

IInv == Signed /\ ApexInv /\ DeviceInv /\ OtherInv /\ GateMatches

-----------------------------------------------------------------------------
LEMMA InitHolds == Init => IInv
<1> SUFFICES ASSUME Init PROVE IInv
  OBVIOUS
<1> USE DEF Init, AccessInit, ApexInit, DeviceInit
<1>1. Signed
  BY DEF Signed
<1>2. ApexInv
  BY DEF ApexInv, HoldsApex, LeftApex, NamesUnique, HistoryAgrees
<1>3. DeviceInv
  BY DeviceAssumption DEF DeviceInv, HoldsDevice, LeftDevice, NothingMissing, HistoryTells
<1>4. OtherInv
  BY AppAssumption DEF OtherInv
<1>5. GateMatches
  BY DEF GateMatches
<1> QED BY <1>1, <1>2, <1>3, <1>4, <1>5 DEF IInv

-----------------------------------------------------------------------------
(***************************************************************************)
(* How a request goes on.                                                  *)
(***************************************************************************)

\* A request arrives at its handler, or is refused.
LEMMA ArriveMoves ==
  ASSUME Signed, NEW r \in Requests, NEW stage, NEW sent, Arrive(r, stage, sent)
  PROVE  /\ Signed' /\ Moves(r) /\ pc[r] = "idle" /\ UNCHANGED accessVars
         /\ \/ pc'[r] = stage /\ arg'[r] = sent
            \/ pc'[r] = "refused"
<1>1. PICK b \in Browsers, named \in Named :
        IF Admitted(User(b, named))
        THEN /\ pc'  = [pc EXCEPT ![r] = stage]
             /\ who' = [who EXCEPT ![r] = User(b, named)]
             /\ arg' = [arg EXCEPT ![r] = sent]
        ELSE /\ pc'  = [pc EXCEPT ![r] = "refused"]
             /\ UNCHANGED << who, arg >>
  BY DEF Arrive
<1>2. User(b, named) \in Users \cup {None}
  BY DEF Signed, User, Named
<1>3. pc[r] = "idle" /\ UNCHANGED accessVars
  BY DEF Arrive
<1> QED BY <1>1, <1>2, <1>3 DEF Signed, Moves, accessVars, Admitted, Enforced, Registered

\* A handler goes on.
LEMMA ProceedMoves ==
  ASSUME Signed, NEW r \in Requests, NEW stage, NEW holds, Proceed(r, stage, holds),
         pc[r] \notin {"idle", "refused", "done"}
  PROVE  /\ Signed' /\ Moves(r) /\ UNCHANGED << accessVars, who >>
         /\ pc'[r] = stage /\ arg'[r] = holds
BY DEF Proceed, Signed, Moves, accessVars, Admitted, Enforced, Registered

\* A request that holds what it should and leaves the apexes alone.
LEMMA ApexesRest ==
  ASSUME ApexInv, NEW r \in Requests, Moves(r), UNCHANGED apexVars, HoldsApex(r)'
  PROVE  ApexInv'
<1>1. \A q \in Requests : HoldsApex(q)' /\ LeftApex(q)'
  BY DEF ApexInv, Moves, apexVars, HoldsApex, LeftApex, Declares
<1> QED BY <1>1 DEF ApexInv, apexVars, NamesUnique, HistoryAgrees

LEMMA DevicesRest ==
  ASSUME DeviceInv, NEW r \in Requests, Moves(r), UNCHANGED deviceVars, HoldsDevice(r)'
  PROVE  DeviceInv'
<1>1. \A q \in Requests : HoldsDevice(q)' /\ LeftDevice(q)'
  BY DEF DeviceInv, Moves, deviceVars, HoldsDevice, LeftDevice
<1> QED BY <1>1 DEF DeviceInv, deviceVars, NothingMissing, HistoryTells, Left

\* Requests do not touch what the gate depends on.
LEMMA GateRests == GateMatches /\ UNCHANGED accessVars => GateMatches'
BY DEF GateMatches, accessVars, User, Admitted, Enforced, Registered

-----------------------------------------------------------------------------
(***************************************************************************)
(* The steps of the requests.                                              *)
(***************************************************************************)

\* Nothing about an apex or a device is held at these stages.
Elsewhere ==
  {"policies", "clients", "group", "summary", "top", "networks", "bypass",
   "records", "eligible", "done", "failed", "refused"}

LEMMA ReadingMoves ==
  ASSUME Signed, NEW r \in Requests, Reading(r) \/ Fail(r)
  PROVE  Signed' /\ Moves(r) /\ UNCHANGED accessVars /\ pc'[r] \in Elsewhere
<1>1. CASE \E stage \in Elsewhere : \E sent : Arrive(r, stage, sent)
  BY <1>1, ArriveMoves DEF Elsewhere
<1>2. CASE \E stage \in Elsewhere : \E holds :
             pc[r] \notin {"idle", "refused", "done"} /\ Proceed(r, stage, holds)
  BY <1>2, ProceedMoves
<1>3. CASE AskZones(r) \/ AskSummary(r) \/ AskDevicesSeen(r) \/ AskBypass(r)
  BY <1>1, <1>3 DEF AskZones, AskSummary, AskDevicesSeen, AskBypass, Elsewhere
<1>4. CASE ListPolicies(r) \/ ReadNetworks(r) \/ Fail(r)
  BY <1>2, <1>4 DEF ListPolicies, ReadNetworks, Fail, Elsewhere
<1>5. CASE ListClients(r)
  BY <1>2, <1>5 DEF ListClients, Elsewhere
<1>6. CASE Group(r) \/ Top(r) \/ Bypass(r)
  BY <1>2, <1>6 DEF Group, Top, Bypass, Answer, Elsewhere
<1>7. CASE Statement(r)
  BY <1>2, <1>7 DEF Statement, Answer, Elsewhere
<1> QED BY <1>3, <1>4, <1>5, <1>6, <1>7 DEF Reading

LEMMA ReadingStep ==
  ASSUME IInv, NEW r \in Requests, Reading(r) \/ Fail(r),
         UNCHANGED << apexVars, deviceVars, otherVars >>
  PROVE  IInv'
<1>1. Signed' /\ Moves(r) /\ UNCHANGED accessVars /\ pc'[r] \in Elsewhere
  BY ReadingMoves DEF IInv
<1>2. ApexInv' /\ DeviceInv'
  BY <1>1, ApexesRest, DevicesRest DEF IInv, HoldsApex, HoldsDevice, Elsewhere
<1>3. OtherInv' /\ GateMatches'
  BY <1>1, GateRests DEF IInv, OtherInv, otherVars
<1> QED BY <1>1, <1>2, <1>3 DEF IInv

LEMMA InsertStep ==
  ASSUME Signed, ApexInv, NEW r \in Requests, InsertApex(r)
  PROVE  Signed' /\ Moves(r) /\ UNCHANGED accessVars /\ pc'[r] \in Elsewhere /\ ApexInv'
<1>1. CASE arg[r] \in Declared
  <2>1. /\ Signed' /\ Moves(r) /\ UNCHANGED accessVars /\ pc'[r] = "failed"
        /\ UNCHANGED apexVars
    BY <1>1, ProceedMoves DEF InsertApex
  <2> QED BY <2>1, ApexesRest DEF HoldsApex, Elsewhere
<1>2. CASE arg[r] \notin Declared
  <2>1. /\ Signed' /\ Moves(r) /\ UNCHANGED << accessVars, who >> /\ pc'[r] = "done"
        /\ apexes' = [apexes EXCEPT ![r] = arg[r]]
        /\ events' = [events EXCEPT ![r] = Event(r, "declare", r)]
    BY <1>2, ProceedMoves DEF InsertApex
  <2>2. pc[r] = "insert" /\ arg[r] \in Declarable /\ apexes[r] = None /\ events[r] = None
    BY DEF InsertApex, ApexInv, HoldsApex, LeftApex
  <2>3. Event(r, "declare", r) \in Happening /\ Event(r, "declare", r) # None
    BY ApexAssumption DEF Event, Happening, Author, Signed
  <2>4. /\ apexes' \in [Requests -> Declarable \cup {None}]
        /\ events' \in [Requests -> Happening \cup {None}]
    BY <2>1, <2>2, <2>3 DEF ApexInv
  <2>5. apexes'[r] = arg[r] /\ events'[r] = Event(r, "declare", r)
    BY <2>1 DEF ApexInv
  <2>6. \A q \in Requests \ {r} : apexes'[q] = apexes[q] /\ events'[q] = events[q]
    BY <2>1 DEF ApexInv
  <2>7. \A q \in Requests : Declares(q) => Declares(q)'
    BY <2>2, <2>6 DEF Declares
  <2>8. \A q \in Requests : HoldsApex(q)'
    BY <2>1, <2>7 DEF Moves, ApexInv, HoldsApex
  <2>9. \A q \in Requests : events[q] # None => events[q].apex \in Requests
    BY DEF ApexInv, Happening
  <2>10. \A q \in Requests : LeftApex(q)'
    <3>1. LeftApex(r)'
      BY <2>1, <2>5 DEF LeftApex, Event, Author
    <3>2. ASSUME NEW q \in Requests \ {r} PROVE LeftApex(q)'
      BY <2>1, <2>6, <2>7, <2>9 DEF LeftApex, Moves, ApexInv
    <3> QED BY <3>1, <3>2
  <2>11. NamesUnique'
    BY <1>2, <2>2, <2>5, <2>6 DEF NamesUnique, Declared, ApexInv
  <2>12. \A q \in Requests :
           ~(events'[q] # None /\ events'[q].what = "remove" /\ events'[q].apex = r)
    BY <2>2, <2>5, <2>6 DEF ApexInv, LeftApex, Declares, Event
  <2>13. HistoryAgrees'
    <3>1. apexes'[r] # None /\ Declares(r)'
      BY <2>2, <2>3, <2>5, ApexAssumption DEF Declares, Event
    <3>2. ASSUME NEW i \in Requests \ {r}
          PROVE  (\E q \in Requests : /\ events'[q] # None /\ events'[q].what = "remove"
                                      /\ events'[q].apex = i)
                 <=> (\E q \in Requests : /\ events[q] # None /\ events[q].what = "remove"
                                          /\ events[q].apex = i)
      BY <2>2, <2>5, <2>6 DEF Event
    <3> QED BY <2>6, <2>12, <3>1, <3>2 DEF HistoryAgrees, ApexInv, Declares
  <2> QED BY <2>1, <2>4, <2>8, <2>10, <2>11, <2>13 DEF ApexInv, Elsewhere
<1> QED BY <1>1, <1>2

LEMMA DeleteStep ==
  ASSUME Signed, ApexInv, NEW r \in Requests, DeleteApex(r)
  PROVE  Signed' /\ Moves(r) /\ UNCHANGED accessVars /\ pc'[r] \in Elsewhere /\ ApexInv'
<1> DEFINE i == arg[r]
<1>1. /\ Signed' /\ Moves(r) /\ UNCHANGED << accessVars, who >> /\ pc'[r] = "done"
      /\ apexes' = [apexes EXCEPT ![i] = None]
      /\ events' = [events EXCEPT ![r] = Event(r, "remove", i)]
  BY ProceedMoves DEF DeleteApex
<1>2. pc[r] = "delete" /\ i \in Requests /\ Declares(i) /\ apexes[r] = None /\ events[r] = None
  BY DEF DeleteApex, ApexInv, HoldsApex, LeftApex
<1>3. Event(r, "remove", i) \in Happening /\ Event(r, "remove", i) # None
  BY <1>2, ApexAssumption DEF Event, Happening, Author, Signed
<1>4. i # r
  BY <1>2 DEF Declares
<1>5. /\ apexes' \in [Requests -> Declarable \cup {None}]
      /\ events' \in [Requests -> Happening \cup {None}]
  BY <1>1, <1>2, <1>3 DEF ApexInv
<1>6. /\ events'[r] = Event(r, "remove", i) /\ apexes'[i] = None
      /\ \A q \in Requests \ {r} : events'[q] = events[q]
      /\ \A q \in Requests \ {i} : apexes'[q] = apexes[q]
  BY <1>1, <1>2 DEF ApexInv
<1>7. \A q \in Requests : Declares(q) <=> Declares(q)'
  BY <1>2, <1>6 DEF Declares, Event
<1>8. \A q \in Requests : HoldsApex(q)'
  BY <1>1, <1>7 DEF Moves, ApexInv, HoldsApex
<1>9. \A q \in Requests : events[q] # None => events[q].apex \in Requests
  BY DEF ApexInv, Happening
<1>10. \A q \in Requests : LeftApex(q)'
  <2>1. LeftApex(r)'
    BY <1>1, <1>2, <1>6, <1>7 DEF LeftApex, Event, Author
  <2>2. ASSUME NEW q \in Requests \ {r} PROVE LeftApex(q)'
    BY <1>1, <1>6, <1>7, <1>9 DEF LeftApex, Moves, ApexInv
  <2> QED BY <2>1, <2>2
<1>11. NamesUnique'
  BY <1>6 DEF NamesUnique, ApexInv
<1>12. HistoryAgrees'
  <2>1. ASSUME NEW j \in Requests \ {i}
        PROVE  (\E q \in Requests : /\ events'[q] # None /\ events'[q].what = "remove"
                                    /\ events'[q].apex = j)
               <=> (\E q \in Requests : /\ events[q] # None /\ events[q].what = "remove"
                                        /\ events[q].apex = j)
    BY <1>2, <1>6 DEF Event
  <2>2. events'[r] # None /\ events'[r].what = "remove" /\ events'[r].apex = i
    BY <1>3, <1>6 DEF Event
  <2> QED BY <1>6, <1>7, <2>1, <2>2 DEF HistoryAgrees, ApexInv, Declares
<1> QED BY <1>1, <1>5, <1>8, <1>10, <1>11, <1>12 DEF ApexInv, Elsewhere

\* A step of a request about an apex.
LEMMA ApexMoves ==
  ASSUME Signed, ApexInv, NEW r \in Requests, ApexNext(r)
  PROVE  /\ Signed' /\ Moves(r) /\ UNCHANGED accessVars /\ ApexInv'
         /\ pc'[r] \in Elsewhere \cup {"declare", "insert", "remove", "delete"}
<1>1. CASE Declare(r)
  <2>1. PICK name \in Declarable : Arrive(r, "declare", name)
    BY <1>1 DEF Declare
  <2>2. Signed' /\ Moves(r) /\ UNCHANGED accessVars /\ HoldsApex(r)'
        /\ pc'[r] \in {"declare", "refused"}
    BY <2>1, ArriveMoves DEF HoldsApex
  <2> QED BY <1>1, <2>2, ApexesRest DEF Declare, Elsewhere
<1>2. CASE CheckApex(r)
  <2>1. arg[r] \in Declarable
    BY <1>2 DEF CheckApex, ApexInv, HoldsApex
  <2>2. Signed' /\ Moves(r) /\ UNCHANGED accessVars /\ HoldsApex(r)'
        /\ pc'[r] \in {"insert", "refused"}
    BY <1>2, <2>1, ProceedMoves DEF CheckApex, HoldsApex
  <2> QED BY <1>2, <2>2, ApexesRest DEF CheckApex, Elsewhere
<1>3. CASE Undeclare(r)
  <2>1. PICK i \in Requests : Declares(i) /\ Arrive(r, "remove", i)
    BY <1>3 DEF Undeclare, Declares
  <2>2. Signed' /\ Moves(r) /\ UNCHANGED accessVars /\ pc'[r] \in {"remove", "refused"}
        /\ (pc'[r] = "remove" => arg'[r] = i)
    BY <2>1, ArriveMoves
  <2>3. HoldsApex(r)'
    BY <1>3, <2>1, <2>2 DEF Undeclare, apexVars, HoldsApex, Declares
  <2> QED BY <1>3, <2>2, <2>3, ApexesRest DEF Undeclare, Elsewhere
<1>4. CASE GetApex(r)
  <2>1. arg[r] \in Requests /\ Declares(arg[r])
    BY <1>4 DEF GetApex, ApexInv, HoldsApex
  <2>2. Signed' /\ Moves(r) /\ UNCHANGED accessVars /\ pc'[r] \in {"delete", "refused"}
        /\ (pc'[r] = "delete" => arg'[r] = arg[r])
    BY <1>4, ProceedMoves DEF GetApex
  <2>3. HoldsApex(r)'
    BY <1>4, <2>1, <2>2 DEF GetApex, apexVars, HoldsApex, Declares
  <2> QED BY <1>4, <2>2, <2>3, ApexesRest DEF GetApex, Elsewhere
<1> QED BY <1>1, <1>2, <1>3, <1>4, InsertStep, DeleteStep DEF ApexNext

LEMMA ApexStep ==
  ASSUME IInv, NEW r \in Requests, ApexNext(r), UNCHANGED << deviceVars, otherVars >>
  PROVE  IInv'
<1>1. /\ Signed' /\ Moves(r) /\ UNCHANGED accessVars /\ ApexInv'
      /\ pc'[r] \in Elsewhere \cup {"declare", "insert", "remove", "delete"}
  BY ApexMoves DEF IInv
<1>2. DeviceInv'
  BY <1>1, DevicesRest DEF IInv, HoldsDevice, Elsewhere
<1>3. OtherInv' /\ GateMatches'
  BY <1>1, GateRests DEF IInv, OtherInv, otherVars
<1> QED BY <1>1, <1>2, <1>3 DEF IInv

-----------------------------------------------------------------------------
\* What get_client_record returns is a record, without the flag if it has no name, and so
\* is what a request makes of it.
LEMMA ImagesAreProper ==
  ASSUME DeviceInv, NEW c \in Clients, NEW asked,
         asked.name \in Hostnames \cup {None}, asked.flag \in BOOLEAN \cup {None}
  PROVE  Proper(Current(c)) /\ Proper(After(asked, Current(c)))
<1>1. Proper(Current(c))
  BY DEF DeviceInv, Current, Blank, Proper, Record
<1>2. Current(c).on \in BOOLEAN
  BY <1>1 DEF Proper, Record
<1>3. Proper(After(asked, Current(c)))
  BY <1>2 DEF After, Proper, Record
<1> QED BY <1>1, <1>3

\* The body of a PUT is a record; the gateway refuses it only for a name of blanks, and
\* otherwise has what the changeset says.
LEMMA BodyIsLeft ==
  ASSUME NEW c, NEW state, Proper(state)
  PROVE  /\ Body(c, state) \in Record
         /\ Missing(Body(c, state)) => state.name # None /\ Plain[state.name] = None
         /\ \A change : change.after = state => Body(c, state) = Left(change)
BY DeviceAssumption DEF Proper, Record, Body, Blank, Missing, Left

LEMMA PutStep ==
  ASSUME Signed, DeviceInv, NEW r \in Requests, PutDevice(r)
  PROVE  Signed' /\ Moves(r) /\ UNCHANGED accessVars /\ pc'[r] \in Elsewhere /\ DeviceInv'
<1> DEFINE c      == arg[r].client
           body   == Body(c, arg[r].after)
           change == [client |-> c, before |-> arg[r].before, after |-> arg[r].after,
                      applied |-> ~Missing(body), author |-> Author(r)]
<1>1. /\ Signed' /\ Moves(r) /\ UNCHANGED << accessVars, who >> /\ pc'[r] = "done"
  BY ProceedMoves DEF PutDevice
<1>2. /\ changes' = [changes EXCEPT ![r] = change]
      /\ IF Missing(body) THEN UNCHANGED devices ELSE devices' = [devices EXCEPT ![c] = body]
  BY DEF PutDevice
<1>3. /\ c \in Clients /\ Proper(arg[r].before) /\ Proper(arg[r].after)
      /\ changes[r] = None
  BY DEF PutDevice, DeviceInv, HoldsDevice, LeftDevice
<1>4. /\ body \in Record
      /\ Missing(body) => arg[r].after.name # None /\ Plain[arg[r].after.name] = None
      /\ body = Left(change)
  BY <1>3, BodyIsLeft
<1>5. change \in Change /\ change # None
  <2>1. (~Missing(body)) = TRUE \/ (~Missing(body)) = FALSE
    OBVIOUS
  <2>2. Author(r) \in Users \cup {None}
    BY DEF Author, Signed
  <2>3. change \in Change
    BY <1>3, <2>1, <2>2 DEF Change, Proper
  <2> QED BY <2>3, DeviceAssumption
<1>6. /\ change.client = c /\ change.before = arg[r].before
       /\ change.after = arg[r].after /\ change.author = who[r]
  BY DEF Author
<1>7. (change.applied) <=> ~Missing(body)
  OBVIOUS
<1> HIDE DEF change, body
<1>8. devices' \in [Clients -> Record] /\ changes' \in [Requests -> Change \cup {None}]
  BY <1>2, <1>3, <1>4, <1>5 DEF DeviceInv
<1>9. changes'[r] = change /\ \A q \in Requests \ {r} : changes'[q] = changes[q]
  BY <1>2 DEF DeviceInv
<1>10. \A q \in Requests : HoldsDevice(q)' /\ LeftDevice(q)'
  <2>1. HoldsDevice(r)' /\ LeftDevice(r)'
    BY <1>1, <1>3, <1>9, <1>6 DEF HoldsDevice, LeftDevice
  <2>2. ASSUME NEW q \in Requests \ {r} PROVE HoldsDevice(q)' /\ LeftDevice(q)'
    BY <1>1, <1>9 DEF HoldsDevice, LeftDevice, Moves, DeviceInv
  <2> QED BY <2>1, <2>2
<1>11. NothingMissing'
  BY <1>4, <1>9, <1>6, <1>7 DEF NothingMissing, DeviceInv
<1>12. HistoryTells'
  <2> DEFINE Mine(d) == {q \in Requests : changes[q] # None /\ changes[q].applied
                                         /\ changes[q].client = d}
  <2>1. \A q \in Requests \ {r} : Left(changes[q])' = Left(changes[q])
    BY <1>9 DEF Left
  <2>2. Left(changes[r])' = body
    BY <1>4, <1>9 DEF Left
  <2>3. ASSUME NEW d \in Clients, d # c \/ Missing(body)
        PROVE  devices'[d] = devices[d] /\ Mine(d)' = Mine(d)
    BY <1>2, <1>3, <1>9, <1>6, <1>7, <2>3 DEF DeviceInv
  <2>4. ASSUME NEW d \in Clients, d = c, ~Missing(body)
        PROVE  devices'[d] = body /\ r \in Mine(d)'
    BY <1>2, <1>5, <1>9, <1>6, <1>7, <2>4 DEF DeviceInv
  <2>5. ASSUME NEW d \in Clients
        PROVE  IF Mine(d)' = {} THEN devices'[d] = Fresh[d]
               ELSE \E q \in Mine(d)' : devices'[d] = Left(changes[q])'
    <3>1. CASE d = c /\ ~Missing(body)
      BY <2>2, <2>4, <3>1
    <3>2. CASE d # c \/ Missing(body)
      BY <1>3, <2>1, <2>3, <3>2 DEF HistoryTells, DeviceInv
    <3> QED BY <3>1, <3>2
  <2> QED BY <2>5 DEF HistoryTells
<1> QED BY <1>1, <1>8, <1>10, <1>11, <1>12 DEF DeviceInv, Elsewhere

\* A step of a request about a device.
LEMMA DeviceMoves ==
  ASSUME Signed, DeviceInv, NEW r \in Requests, DeviceNext(r)
  PROVE  /\ Signed' /\ Moves(r) /\ UNCHANGED accessVars /\ DeviceInv'
         /\ pc'[r] \in Elsewhere \cup {"set", "put"}
<1>1. CASE SetRecord(r)
  <2>1. PICK c \in Clients \cup Strangers, n \in Hostnames \cup {None},
             flag \in BOOLEAN \cup {None} :
          Arrive(r, "set", [client |-> c, name |-> n, flag |-> flag])
    BY <1>1 DEF SetRecord
  <2>2. /\ Signed' /\ Moves(r) /\ UNCHANGED accessVars
        /\ \/ pc'[r] = "set" /\ arg'[r] = [client |-> c, name |-> n, flag |-> flag]
           \/ pc'[r] = "refused"
    BY <2>1, ArriveMoves
  <2>3. HoldsDevice(r)'
    BY <2>2 DEF HoldsDevice
  <2> QED BY <1>1, <2>2, <2>3, DevicesRest DEF SetRecord, Elsewhere
<1>2. CASE ReadDevice(r)
  <2> DEFINE asked  == arg[r]
             before == Current(asked.client)
             images == [client |-> asked.client, before |-> before,
                        after |-> After(asked, before)]
  <2>1. /\ asked.client \in Clients \cup Strangers /\ asked.name \in Hostnames \cup {None}
        /\ asked.flag \in BOOLEAN \cup {None}
    BY <1>2 DEF ReadDevice, DeviceInv, HoldsDevice
  <2>2. CASE asked.client \in Strangers
    <3>1. Signed' /\ Moves(r) /\ UNCHANGED accessVars /\ pc'[r] = "refused"
      BY <1>2, <2>2, ProceedMoves DEF ReadDevice
    <3> QED BY <1>2, <3>1, DevicesRest DEF ReadDevice, HoldsDevice, Elsewhere
  <2>3. CASE asked.client \notin Strangers
    <3>1. asked.client \in Clients /\ Proper(before) /\ Proper(After(asked, before))
      BY <2>1, <2>3, ImagesAreProper
    <3>2. /\ Signed' /\ Moves(r) /\ UNCHANGED accessVars /\ pc'[r] = "put"
          /\ arg'[r] = images
      BY <1>2, <2>3, ProceedMoves DEF ReadDevice
    <3>3. HoldsDevice(r)'
      BY <3>1, <3>2 DEF HoldsDevice, Proper
    <3> QED BY <1>2, <3>2, <3>3, DevicesRest DEF ReadDevice, Elsewhere
  <2> QED BY <2>2, <2>3
<1>3. CASE UndoChange(r)
  <2>1. PICK q \in Requests :
          /\ changes[q] # None
          /\ Arrive(r, "put", [client |-> changes[q].client, before |-> changes[q].after,
                               after |-> changes[q].before])
    BY <1>3 DEF UndoChange
  <2>2. /\ changes[q].client \in Clients
        /\ Proper(changes[q].before) /\ Proper(changes[q].after)
    BY <2>1 DEF DeviceInv, LeftDevice, Change
  <2>3. /\ Signed' /\ Moves(r) /\ UNCHANGED accessVars
        /\ \/ /\ pc'[r] = "put"
              /\ arg'[r] = [client |-> changes[q].client, before |-> changes[q].after,
                            after |-> changes[q].before]
           \/ pc'[r] = "refused"
    BY <2>1, ArriveMoves
  <2>4. HoldsDevice(r)'
    BY <2>2, <2>3 DEF HoldsDevice, Proper
  <2> QED BY <1>3, <2>3, <2>4, DevicesRest DEF UndoChange, Elsewhere
<1>4. CASE AskDevices(r)
  <2>1. /\ Signed' /\ Moves(r) /\ UNCHANGED accessVars
        /\ pc'[r] \in {"records", "refused"}
    BY <1>4, ArriveMoves DEF AskDevices
  <2> QED BY <1>4, <2>1, DevicesRest DEF AskDevices, HoldsDevice, Elsewhere
<1>5. CASE ListRecords(r) \/ ListEligible(r)
  <2>1. /\ Signed' /\ Moves(r) /\ UNCHANGED accessVars
        /\ pc'[r] \in {"eligible", "done"}
    BY <1>5, ProceedMoves DEF ListRecords, ListEligible
  <2> QED BY <1>5, <2>1, DevicesRest DEF ListRecords, ListEligible, HoldsDevice, Elsewhere
<1> QED BY <1>1, <1>2, <1>3, <1>4, <1>5, PutStep DEF DeviceNext

LEMMA DeviceStep ==
  ASSUME IInv, NEW r \in Requests, DeviceNext(r), UNCHANGED << apexVars, otherVars >>
  PROVE  IInv'
<1>1. /\ Signed' /\ Moves(r) /\ UNCHANGED accessVars /\ DeviceInv'
      /\ pc'[r] \in Elsewhere \cup {"set", "put"}
  BY DeviceMoves DEF IInv
<1>2. ApexInv'
  BY <1>1, ApexesRest DEF IInv, HoldsApex, Elsewhere
<1>3. OtherInv' /\ GateMatches'
  BY <1>1, GateRests DEF IInv, OtherInv, otherVars
<1> QED BY <1>1, <1>2, <1>3 DEF IInv

-----------------------------------------------------------------------------
(***************************************************************************)
(* Signing in, and the world outside.                                      *)
(***************************************************************************)

\* Steps that leave the requests alone leave what they hold and have left alone.
LEMMA TablesRest ==
  ASSUME ApexInv, DeviceInv, UNCHANGED << requestVars, apexVars, deviceVars >>
  PROVE  ApexInv' /\ DeviceInv'
<1>1. ApexInv'
  BY DEF ApexInv, apexVars, requestVars, HoldsApex, LeftApex, Declares, NamesUnique,
         HistoryAgrees
<1>2. DeviceInv'
  BY DEF DeviceInv, deviceVars, requestVars, HoldsDevice, LeftDevice, NothingMissing,
         HistoryTells, Left
<1> QED BY <1>1, <1>2

LEMMA SignInMoves ==
  ASSUME Signed, GateMatches, NEW b \in Browsers,
         LoadPage(b) \/ Login(b) \/ Callback(b) \/ GiveUp(b) \/ Logout(b)
  PROVE  Signed' /\ GateMatches' /\ UNCHANGED requestVars
<1>1. UNCHANGED << config, requestVars >>
  BY DEF LoadPage, Login, Callback, GiveUp, Logout
<1>2. session' \in [Browsers -> Users \cup {None}] /\ DOMAIN shown' = Browsers
  BY DEF LoadPage, Login, Callback, GiveUp, Logout, Signed
<1>3. Signed'
  BY <1>1, <1>2 DEF Signed, requestVars, Admitted, Enforced, Registered
<1>4. \A a \in Browsers \ {b} : shown'[a] = shown[a] /\ session'[a] = session[a]
  BY DEF LoadPage, Login, Callback, GiveUp, Logout, Signed
<1>5. ASSUME NEW a \in Browsers, ~(config.issuer /\ config.client /\ ~config.secret)
      PROVE  /\ shown'[a] # "error"
             /\ ~config.header /\ shown'[a] = "app"  => Admitted(User(a, None))'
             /\ ~config.header /\ shown'[a] = "gate" => ~Admitted(User(a, None))'
  <2>1. CASE a # b
    BY <1>1, <1>4, <1>5, <2>1 DEF GateMatches, User, Admitted, Enforced, Registered
  <2>2. CASE a = b /\ LoadPage(b)
    <3>1. PICK named \in Named :
            shown' = [shown EXCEPT ![b] = IF User(b, named) # None \/ Mode = "open"
                                          THEN "app" ELSE "gate"]
      BY <2>2 DEF LoadPage
    <3>2. ~config.header => named = None
      BY DEF Named
    <3>3. UNCHANGED << config, session >>
      BY <2>2 DEF LoadPage
    <3> QED BY <1>5, <2>2, <3>1, <3>2, <3>3
            DEF Signed, User, Admitted, Enforced, Registered, Mode
  <2>3. CASE a = b /\ Login(b)
    BY <1>5, <2>3 DEF Login, Signed, Registered, Mode
  <2>4. CASE a = b /\ (Callback(b) \/ GiveUp(b) \/ Logout(b))
    BY <2>4 DEF Callback, GiveUp, Logout, Signed
  <2> QED BY <2>1, <2>2, <2>3, <2>4
<1>6. GateMatches'
  BY <1>1, <1>5 DEF GateMatches
<1> QED BY <1>1, <1>3, <1>6

LEMMA SignInStep ==
  ASSUME IInv, AccessNext, UNCHANGED << apexVars, deviceVars, otherVars >>
  PROVE  IInv'
<1>1. Signed' /\ GateMatches' /\ UNCHANGED requestVars
  BY SignInMoves DEF IInv, AccessNext
<1> QED BY <1>1, TablesRest DEF IInv, OtherInv, otherVars

LEMMA OutsideStep ==
  ASSUME IInv, Collect \/ Edit
  PROVE  IInv'
<1>1. UNCHANGED << accessVars, requestVars, apexVars, deviceVars >>
  BY DEF Collect, Edit
<1>2. OtherInv'
  BY AppAssumption DEF IInv, OtherInv, Collect, Edit
<1>3. Signed' /\ GateMatches'
  BY <1>1, GateRests DEF IInv, Signed, accessVars, requestVars, Admitted, Enforced, Registered
<1> QED BY <1>1, <1>2, <1>3, TablesRest DEF IInv

\* Every step keeps the invariant.
LEMMA StepKeeps == IInv /\ [Next]_vars => IInv'
<1> SUFFICES ASSUME IInv, [Next]_vars PROVE IInv'
  OBVIOUS
<1>1. CASE UNCHANGED vars
  <2>1. UNCHANGED << accessVars, requestVars, apexVars, deviceVars, otherVars >>
    BY <1>1 DEF vars
  <2>2. Signed' /\ GateMatches' /\ OtherInv'
    BY <2>1, GateRests DEF IInv, Signed, OtherInv, accessVars, requestVars, otherVars,
                           Admitted, Enforced, Registered
  <2> QED BY <2>1, <2>2, TablesRest DEF IInv
<1> QED BY <1>1, ReadingStep, ApexStep, DeviceStep, SignInStep, OutsideStep DEF Next

-----------------------------------------------------------------------------
\* The inductive invariant holds throughout.
THEOREM Inductive == Spec => []IInv
BY InitHolds, StepKeeps, PTL DEF Spec

\* The state has the types App says (TypeOK).
THEOREM TypeCorrect == Spec => []TypeOK
<1>1. IInv => TypeOK
  BY DEF IInv, Signed, ApexInv, DeviceInv, OtherInv, TypeOK
<1> QED BY <1>1, Inductive, PTL

\* However requests overtake each other between the look of add_apex and its insert, no
\* name is declared twice (routes.py, add_apex; the unique index of ApexDomain).
THEOREM ApexNamesUnique == Spec => []NamesUnique
<1>1. IInv => NamesUnique
  BY DEF IInv, ApexInv
<1> QED BY <1>1, Inductive, PTL

\* The apexes there are can be read off the history, whatever failed and however often
\* one was removed (services/changes.py, record_event).
THEOREM ApexesFollowHistory == Spec => []HistoryAgrees
<1>1. IInv => HistoryAgrees
  BY DEF IInv, ApexInv
<1> QED BY <1>1, Inductive, PTL

\* The gateway never refuses the body of a PUT, except for a name of nothing but blanks
\* (unifi/client.py, set_client_record).
THEOREM ClearsAreAccepted == Spec => []NothingMissing
<1>1. IInv => NothingMissing
  BY DEF IInv, DeviceInv
<1> QED BY <1>1, Inductive, PTL

\* What a device has is what some changeset says that it left, or what was there at first
\* (routes.py, set_client_record and rollback).
THEOREM DevicesFollowHistory == Spec => []HistoryTells
<1>1. IInv => HistoryTells
  BY DEF IInv, DeviceInv
<1> QED BY <1>1, Inductive, PTL

\* Where somebody must sign in, the history names somebody (auth.py, AuthMiddleware).
THEOREM HistoryHasAuthors == Spec => []NobodyActs
<1>1. IInv => NobodyActs
  BY DEF IInv, Signed, ApexInv, LeftApex, DeviceInv, LeftDevice, NobodyActs, Admitted
<1> QED BY <1>1, Inductive, PTL

\* The gate is shown exactly to those whom the API refuses (auth.py, me and
\* AuthMiddleware), the excepted settings aside.
THEOREM GateIsTheApis == Spec => []GateMatches
<1>1. IInv => GateMatches
  BY DEF IInv
<1> QED BY <1>1, Inductive, PTL

\* A page that is loaded again shows the gate only to who has not signed in (main.py,
\* create_app).
THEOREM SignedInStaysIn == Spec => SignInSticks
<1>1. IInv /\ [Next]_vars =>
        [\A b \in Browsers : shown[b] # "gate" /\ shown'[b] = "gate" => session[b] = None]_shown
  <2> SUFFICES ASSUME Signed, [Next]_vars, NEW b \in Browsers,
                      shown[b] # "gate", shown'[b] = "gate"
               PROVE  session[b] = None
    BY DEF IInv
  <2>1. UNCHANGED accessVars => FALSE
    BY DEF accessVars
  <2>2. AccessNext
    <3>1. \A r \in Requests : Reading(r) \/ Fail(r) => UNCHANGED accessVars
      BY ReadingMoves
    <3>2. \A r \in Requests : ApexNext(r) => UNCHANGED accessVars
      BY DEF ApexNext, Declare, CheckApex, InsertApex, Undeclare, GetApex, DeleteApex, Arrive,
             Proceed
    <3>3. \A r \in Requests : DeviceNext(r) => UNCHANGED accessVars
      BY DEF DeviceNext, SetRecord, ReadDevice, UndoChange, PutDevice, AskDevices,
             ListRecords, ListEligible, Arrive, Proceed
    <3> QED BY <2>1, <3>1, <3>2, <3>3 DEF Next, Collect, Edit, vars
  <2>3. PICK a \in Browsers : LoadPage(a) \/ Login(a) \/ Callback(a) \/ GiveUp(a) \/ Logout(a)
    BY <2>2 DEF AccessNext
  <2>4. a = b /\ LoadPage(b)
    BY <2>3 DEF LoadPage, Login, Callback, GiveUp, Logout, Signed
  <2>5. PICK named \in Named : User(b, named) = None
    BY <2>4 DEF LoadPage, Signed
  <2> QED BY <2>5 DEF User
<1> QED BY <1>1, Inductive, PTL DEF Spec, SignInSticks

-----------------------------------------------------------------------------
(***************************************************************************)
(* Zones.                                                                  *)
(***************************************************************************)

IsName(n) == n \in Seq({n[k] : k \in DOMAIN n})

\* What the loop of match_apex holds after each of n apexes.
Matches(best, name, apex, n) ==
  best = [k \in 0 .. n |->
            IF k = 0 THEN << >>
            ELSE IF apex[k] # << >> /\ Under(name, apex[k]) /\ Len(apex[k]) > Len(best[k - 1])
                 THEN apex[k] ELSE best[k - 1]]

LEMMA SomethingMatches ==
  ASSUME NEW name, NEW apex, NEW n \in Nat
  PROVE  \E best : Matches(best, name, apex, n)
<1> DEFINE Next1(k, b) == IF apex[k] # << >> /\ Under(name, apex[k]) /\ Len(apex[k]) > Len(b)
                          THEN apex[k] ELSE b
           T == {k \in 0 .. n : \E best : Matches(best, name, apex, k)}
<1>1. 0 \in T
  <2>1. Matches([k \in 0 .. 0 |-> << >>], name, apex, 0)
    BY DEF Matches
  <2> QED BY <2>1
<1>2. ASSUME NEW m \in 1 .. n, m - 1 \in T PROVE m \in T
  <2>1. PICK best : Matches(best, name, apex, m - 1)
    BY <1>2
  <2> DEFINE more == [k \in 0 .. m |-> IF k < m THEN best[k] ELSE Next1(m, best[m - 1])]
  <2>2. \A k \in 0 .. (m - 1) : more[k] = best[k]
    OBVIOUS
  <2>3. more[m] = Next1(m, best[m - 1])
    <3> HIDE DEF Next1
    <3> QED OBVIOUS
  <2>4. ASSUME NEW k \in 0 .. m
        PROVE  more[k] = IF k = 0 THEN << >> ELSE Next1(k, more[k - 1])
    <3>1. CASE k = m
      <4>1. m - 1 \in 0 .. (m - 1) /\ m # 0
        OBVIOUS
      <4>2. more[m - 1] = best[m - 1]
        BY <2>2, <4>1
      <4> HIDE DEF more, Next1
      <4> QED BY <2>3, <3>1, <4>1, <4>2
    <3>2. CASE k < m
      <4>1. k \in 0 .. (m - 1) /\ (k # 0 => k - 1 \in 0 .. (m - 1))
        BY <3>2
      <4>2. best[k] = IF k = 0 THEN << >> ELSE Next1(k, best[k - 1])
        BY <2>1, <4>1 DEF Matches
      <4>3. more[k] = best[k] /\ (k # 0 => more[k - 1] = best[k - 1])
        BY <2>2, <4>1
      <4> HIDE DEF more, Next1
      <4> QED BY <4>2, <4>3
    <3> QED BY <3>1, <3>2
  <2>5. Matches(more, name, apex, m)
    BY <2>4 DEF Matches
  <2> QED BY <2>5
<1>3. 0 .. n \subseteq T
  <2> HIDE DEF T
  <2> QED BY <1>1, <1>2, UpTo
<1> QED BY <1>3

\* match_apex gives the longest declared apex that the name lies under, if there is one.
LEMMA MatchIsLongest ==
  ASSUME NEW name, NEW S, \A a \in S : IsName(a), NEW apex \in Seq(S),
         \A a \in S : \E k \in DOMAIN apex : apex[k] = a
  PROVE  IF Candidates(name, S) # {} THEN IsLongest(MatchApex(name, apex), name, S)
         ELSE MatchApex(name, apex) = << >>
<1> DEFINE n == Len(apex)
<1>1. n \in Nat /\ DOMAIN apex = 1 .. n /\ \A k \in 1 .. n : apex[k] \in S
  BY LenProperties, ElementOfSeq
<1>2. PICK best : Matches(best, name, apex, n) /\ MatchApex(name, apex) = best[n]
  <2> DEFINE f == CHOOSE best : Matches(best, name, apex, n)
  <2>1. Matches(f, name, apex, n)
    BY <1>1, SomethingMatches
  <2>2. MatchApex(name, apex) = f[n]
    BY DEF MatchApex, Matches
  <2> QED BY <2>1, <2>2
<1> HIDE DEF n
<1>3. /\ best[0] = << >>
      /\ \A k \in 1 .. n : best[k] =
            IF apex[k] # << >> /\ Under(name, apex[k]) /\ Len(apex[k]) > Len(best[k - 1])
            THEN apex[k] ELSE best[k - 1]
  BY <1>1, <1>2 DEF Matches
<1>4. /\ Len(<< >>) = 0
      /\ \A a \in S : Len(a) \in Nat /\ (a # << >> => Len(a) > 0)
  <2>1. ASSUME NEW a \in S PROVE Len(a) \in Nat /\ (a # << >> => Len(a) > 0)
    <3>1. a \in Seq({a[k] : k \in DOMAIN a})
      BY DEF IsName
    <3>2. Len(a) \in Nat /\ (Len(a) = 0 => a = << >>)
      BY <3>1, EmptySeq, LenProperties
    <3> QED BY <3>2
  <2> QED BY <2>1, EmptySeq
<1> DEFINE Among(k) == {a \in Candidates(name, S) : \E j \in 1 .. k : apex[j] = a}
           Best(k)  == IF Among(k) = {} THEN best[k] = << >>
                       ELSE best[k] \in Among(k) /\ \A b \in Among(k) : Len(b) <= Len(best[k])
           T == {k \in 0 .. n : Best(k)}
<1>5. 0 \in T
  BY <1>1, <1>3
<1>6. ASSUME NEW k \in 1 .. n, k - 1 \in T PROVE k \in T
  <2>1. Best(k - 1)
    <3> HIDE DEF Best
    <3> QED BY <1>6
  <2>2. apex[k] \in S /\ k \in 0 .. n
    BY <1>1
  <2>3. CASE apex[k] \in Candidates(name, S)
    <3>1. Among(k) = Among(k - 1) \cup {apex[k]}
      BY <2>3, <1>1
    <3>2. best[k] = IF Len(apex[k]) > Len(best[k - 1]) THEN apex[k] ELSE best[k - 1]
      BY <1>3, <2>3 DEF Candidates
    <3>3. Among(k - 1) \subseteq S /\ Among(k) # {}
      BY <3>1 DEF Candidates
    <3>4. Len(apex[k]) > 0
      BY <1>4, <2>3 DEF Candidates
    <3> HIDE DEF Among
    <3>5. CASE Among(k - 1) = {}
      BY <1>4, <2>1, <2>2, <3>1, <3>2, <3>3, <3>4, <3>5
    <3>6. CASE Among(k - 1) # {}
      <4>1. /\ best[k - 1] \in Among(k - 1) /\ best[k - 1] \in S
            /\ \A b \in Among(k - 1) : Len(b) <= Len(best[k - 1])
        BY <2>1, <3>3, <3>6
      <4>2. Len(best[k - 1]) \in Nat /\ Len(apex[k]) \in Nat
            /\ \A b \in Among(k - 1) : Len(b) \in Nat
        BY <1>4, <2>2, <3>3, <4>1
      <4>3. best[k] \in Among(k) /\ \A b \in Among(k) : Len(b) <= Len(best[k])
        BY <3>1, <3>2, <4>1, <4>2
      <4> QED BY <2>2, <3>3, <4>3
    <3> QED BY <3>5, <3>6
  <2>4. CASE apex[k] \notin Candidates(name, S)
    <3>1. Among(k) = Among(k - 1)
      BY <2>4, <1>1
    <3>2. best[k] = best[k - 1]
      BY <1>3, <2>2, <2>4 DEF Candidates
    <3> HIDE DEF Among
    <3> QED BY <2>1, <2>2, <3>1, <3>2
  <2> QED BY <2>3, <2>4
<1>7. n \in T
  <2> HIDE DEF T
  <2>1. 0 .. n \subseteq T
    BY <1>1, <1>5, <1>6, UpTo
  <2> QED BY <1>1, <2>1
<1>8. Among(n) = Candidates(name, S)
  BY <1>1 DEF Candidates
<1>9. Best(n)
  <2> HIDE DEF Best
  <2> QED BY <1>7
<1> QED BY <1>2, <1>8, <1>9 DEF IsLongest

\* The declared names are finitely many; an order of them is a list that has all of them.
LEMMA OrdersList ==
  ASSUME NEW S, IsFiniteSet(S)
  PROVE  /\ Orders(S) # {}
         /\ \A s \in Orders(S) : s \in Seq(S) /\ \A a \in S : \E k \in DOMAIN s : s[k] = a
<1> DEFINE n == Cardinality(S)
<1>1. n \in Nat /\ ExistsBijection(1 .. n, S)
  BY FS_CardinalityType
<1> HIDE DEF n
<1>2. PICK f : f \in Bijection(1 .. n, S)
  BY <1>1 DEF ExistsBijection
<1>3. f \in Orders(S)
  <2>1. f \in [1 .. n -> S] /\ \A a \in S : \E k \in DOMAIN f : f[k] = a
    BY <1>2 DEF Bijection, Injection, Surjection
  <2> QED BY <2>1 DEF Orders, n
<1>4. \A s \in Orders(S) : s \in Seq(S)
  BY <1>1 DEF Orders, n
<1> QED BY <1>3, <1>4 DEF Orders

LEMMA DeclaredAreNames ==
  ASSUME NEW S \in SUBSET Declarable
  PROVE  \A a \in S : IsName(a)
BY ApexAssumption DEF IsName

\* There is at most one longest apex that a name lies under.
LEMMA OneLongest ==
  ASSUME NEW name, NEW S, \A a \in S : IsName(a), NEW a, IsLongest(a, name, S),
         NEW b, IsLongest(b, name, S)
  PROVE  a = b
<1>1. /\ a \in S /\ b \in S /\ Under(name, a) /\ Under(name, b)
      /\ Len(a) <= Len(b) /\ Len(b) <= Len(a)
  BY DEF IsLongest, Candidates
<1>2. PICK A, B : a \in Seq(A) /\ b \in Seq(B)
  BY <1>1 DEF IsName
<1>3. /\ Len(a) \in Nat /\ Len(b) \in Nat /\ DOMAIN a = 1 .. Len(a) /\ DOMAIN b = 1 .. Len(b)
      /\ a = [k \in DOMAIN a |-> a[k]] /\ b = [k \in DOMAIN b |-> b[k]]
  BY <1>2, LenProperties
<1>4. Len(a) = Len(b)
  <2>1. Len(a) \in Nat /\ Len(b) \in Nat /\ Len(a) <= Len(b) /\ Len(b) <= Len(a)
    BY <1>1, <1>3
  <2> QED BY <2>1
<1>5. \A k \in 1 .. Len(a) : a[k] = b[k]
  BY <1>1, <1>4 DEF Under
<1> QED BY <1>3, <1>4, <1>5

\* The zone a name is put into is the one it belongs to, in whatever order the apexes are.
LEMMA ZoneBelongs ==
  ASSUME NEW S \in SUBSET Declarable, IsFiniteSet(S), NEW name, NEW order \in Orders(S)
  PROVE  /\ Belongs(ZoneOf(name, order), name, S)
         /\ Candidates(name, S) # {} => ZoneOf(name, order) \in S
         /\ Candidates(name, S) = {} =>
              ZoneOf(name, order) = IF Len(name) = 1 THEN Bare ELSE Ungrouped
<1>1. \A a \in S : IsName(a)
  BY DeclaredAreNames
<1>2. order \in Seq(S) /\ \A a \in S : \E k \in DOMAIN order : order[k] = a
  BY OrdersList
<1> DEFINE apex == MatchApex(name, order)
<1>3. IF Candidates(name, S) # {} THEN IsLongest(apex, name, S) ELSE apex = << >>
  BY <1>1, <1>2, MatchIsLongest
<1> HIDE DEF apex
<1>4. ZoneOf(name, order) = IF apex # << >> THEN apex
                            ELSE IF Len(name) = 1 THEN Bare ELSE Ungrouped
  BY DEF ZoneOf, apex
<1>5. CASE Candidates(name, S) # {}
  <2>1. apex # << >> /\ apex \in S
    BY <1>3, <1>5 DEF IsLongest, Candidates
  <2> QED BY <1>3, <1>4, <1>5, <2>1 DEF Belongs
<1>6. CASE Candidates(name, S) = {}
  BY <1>3, <1>4, <1>6 DEF Belongs
<1> QED BY <1>5, <1>6

\* All orders agree on it.
LEMMA ZonedIsOne ==
  ASSUME NEW S \in SUBSET Declarable, IsFiniteSet(S), NEW name
  PROVE  \E z : Zoned(name, S) = {z} /\ \A y : Belongs(y, name, S) <=> y = z
<1>1. PICK order : order \in Orders(S)
  BY OrdersList
<1> DEFINE z == ZoneOf(name, order)
<1>2. \A s \in Orders(S) : Belongs(ZoneOf(name, s), name, S)
  BY ZoneBelongs
<1>3. \A a \in S : IsName(a)
  BY DeclaredAreNames
<1>4. Belongs(z, name, S)
  BY <1>1, <1>2
<1> HIDE DEF z
<1>5. ASSUME NEW y PROVE Belongs(y, name, S) <=> y = z
  <2>1. CASE Candidates(name, S) # {}
    BY <1>3, <1>4, <2>1, OneLongest DEF Belongs
  <2>2. CASE Candidates(name, S) = {}
    BY <1>4, <2>2 DEF Belongs
  <2> QED BY <2>1, <2>2
<1>6. \A s \in Orders(S) : ZoneOf(name, s) = z
  BY <1>2, <1>5
<1>7. Zoned(name, S) = {z}
  BY <1>1, <1>6 DEF Zoned
<1> QED BY <1>5, <1>7

\* What build_zones answers puts every record into one zone, the one its name belongs to.
Grouped(a) ==
  \A i \in DOMAIN a.names :
    LET zones == {z \in DOMAIN a.zones : \E e \in a.zones[z] : e.record = i}
    IN  Cardinality(zones) = 1 /\ \A z \in zones : Belongs(z, a.names[i], a.apexes)

LEMMA BuildGroups ==
  ASSUME NEW S \in SUBSET Declarable, IsFiniteSet(S), NEW names, NEW order \in Orders(S)
  PROVE  Grouped([names |-> names, apexes |-> S, zones |-> BuildZones(names, order)])
<1> DEFINE built == BuildZones(names, order)
           Z(i)  == ZoneOf(names[i], order)
<1> SUFFICES ASSUME NEW i \in DOMAIN names
             PROVE  LET zones == {z \in DOMAIN built : \E e \in built[z] : e.record = i}
                    IN  Cardinality(zones) = 1 /\ \A z \in zones : Belongs(z, names[i], S)
  BY DEF Grouped
<1> DEFINE bare  == {j \in DOMAIN names : Z(j) = Bare}
           all   == {order[k] : k \in DOMAIN order} \cup {Ungrouped}
                      \cup (IF bare = {} THEN {} ELSE {Bare})
           zones == {z \in DOMAIN built : \E e \in built[z] : e.record = i}
           In(z) == {[record |-> j, label |-> ShownAs(names[j], z)] :
                       j \in {k \in DOMAIN names : Z(k) = z}}
<1>1. built = [z \in all |-> In(z)]
  BY DEF BuildZones
<1>2. Belongs(Z(i), names[i], S) /\ Z(i) \in all
  <2>1. order \in Seq(S) /\ \A a \in S : \E k \in DOMAIN order : order[k] = a
    BY OrdersList
  <2>2. /\ Belongs(Z(i), names[i], S)
        /\ Z(i) \in S \/ Z(i) = Bare \/ Z(i) = Ungrouped
    BY ZoneBelongs
  <2>3. Z(i) = Bare => bare # {}
    OBVIOUS
  <2> HIDE DEF Z, bare
  <2> QED BY <2>1, <2>2, <2>3
<1>3. ASSUME NEW z PROVE (\E e \in In(z) : e.record = i) <=> Z(i) = z
  <2> HIDE DEF Z
  <2>1. \A e : e \in In(z) <=> \E j \in DOMAIN names :
                               /\ Z(j) = z
                               /\ e = [record |-> j, label |-> ShownAs(names[j], z)]
    OBVIOUS
  <2>2. ASSUME NEW e \in In(z), e.record = i PROVE Z(i) = z
    BY <2>1, <2>2
  <2>3. ASSUME Z(i) = z PROVE \E e \in In(z) : e.record = i
    <3> DEFINE e == [record |-> i, label |-> ShownAs(names[i], z)]
    <3>1. e \in In(z)
      BY <2>1, <2>3
    <3> QED BY <3>1
  <2> QED BY <2>2, <2>3
<1>4. zones = {Z(i)}
  <2>1. DOMAIN built = all /\ \A z \in all : built[z] = In(z)
    <3> HIDE DEF all, In, built
    <3> QED BY <1>1
  <2> HIDE DEF built, all, In, Z
  <2> QED BY <1>2, <1>3, <2>1
<1> HIDE DEF zones, Z
<1>5. Cardinality(zones) = 1 /\ \A z \in zones : Belongs(z, names[i], S)
  BY <1>2, <1>4, FS_Singleton
<1> QED BY <1>5 DEF zones

\* The declared names are names, and finitely many.
LEMMA DeclaredFinite ==
  ASSUME apexes \in [Requests -> Declarable \cup {None}]
  PROVE  Declared \in SUBSET Declarable /\ IsFiniteSet(Declared)
<1> DEFINE all == {apexes[i] : i \in Requests}
<1>1. apexes \in Surjection(Requests, all)
  BY DEF Surjection
<1>2. IsFiniteSet(all)
  <2> HIDE DEF all
  <2> QED BY <1>1, AccessAssumption, FS_Surjection
<1>3. Declared \in SUBSET all /\ Declared \in SUBSET Declarable
  BY DEF Declared
<1> HIDE DEF all
<1> QED BY <1>2, <1>3, FS_Subset

-----------------------------------------------------------------------------
(***************************************************************************)
(* The figures of the dashboard.                                           *)
(***************************************************************************)

\* What each row counts.
Weight == [i \in DOMAIN Traffic |-> Row(i).count]

LEMMA WeightIsNat ==
  /\ \A i \in DOMAIN Traffic : Weight[i] \in Nat
  /\ IsFiniteSet(DOMAIN Traffic)
<1>1. ASSUME NEW i \in DOMAIN Traffic PROVE Row(i).count \in Nat
  BY StatsAssumption DEF Row
<1> QED BY <1>1, StatsAssumption DEF Weight

LEMMA SumIsTotal ==
  ASSUME NEW S \in SUBSET DOMAIN Traffic
  PROVE  SumOf(S) = Total(Weight, S) /\ SumOf(S) \in Nat
<1> DEFINE f == [i \in S |-> Row(i).count]
<1>1. SumOf(S) = Total(f, S)
  BY DEF SumOf, SumFunction, Total
<1>2. IsFiniteSet(S)
  BY WeightIsNat, FS_Subset
<1>3. \A i \in S : f[i] = Weight[i]
  BY DEF Weight
<1> HIDE DEF f
<1>4. Total(f, S) = Total(Weight, S)
  BY <1>2, <1>3, TotalEqual
<1>5. Total(Weight, S) \in Nat
  BY WeightIsNat, TotalNat
<1> QED BY <1>1, <1>4, <1>5

LEMMA SumGrows ==
  ASSUME NEW B \in SUBSET DOMAIN Traffic, NEW A \in SUBSET B
  PROVE  SumOf(A) <= SumOf(B)
<1>1. Total(Weight, A) <= Total(Weight, B)
  BY WeightIsNat, TotalGrows
<1> QED BY <1>1, SumIsTotal

LEMMA SumParts ==
  ASSUME NEW A \in SUBSET DOMAIN Traffic, NEW B \in SUBSET DOMAIN Traffic, A \cap B = {}
  PROVE  SumOf(A \cup B) = SumOf(A) + SumOf(B)
<1>1. Total(Weight, A \cup B) = Total(Weight, A) + Total(Weight, B)
  BY WeightIsNat, TotalParts
<1>2. A \cup B \in SUBSET DOMAIN Traffic
  OBVIOUS
<1> QED BY <1>1, <1>2, SumIsTotal

\* Rows S that are divided by g into the members of D: the sums h of the parts add up.
LEMMA SumDivided ==
  ASSUME NEW S \in SUBSET DOMAIN Traffic, NEW D, NEW g, \A i \in S : g[i] \in D,
         \A d \in D : \E i \in DOMAIN Traffic : d = g[i],
         NEW h, \A d \in D : h[d] = SumOf(With(S, g, d))
  PROVE  Total(h, D) = SumOf(S)
<1>1. IsFiniteSet(S) /\ \A i \in S : Weight[i] \in Nat
  BY WeightIsNat, FS_Subset
<1>2. IsFiniteSet(D)
  <2> DEFINE all == {g[i] : i \in DOMAIN Traffic}
           f   == [i \in DOMAIN Traffic |-> g[i]]
  <2>1. f \in Surjection(DOMAIN Traffic, all)
    BY DEF Surjection
  <2>2. IsFiniteSet(all)
    <3> HIDE DEF f, all
    <3> QED BY <2>1, WeightIsNat, FS_Surjection
  <2> QED BY <2>2, FS_Subset
<1>3. ASSUME NEW d \in D PROVE h[d] = Total(Weight, With(S, g, d))
  <2>1. With(S, g, d) \in SUBSET DOMAIN Traffic
    BY DEF With
  <2> QED BY <2>1, SumIsTotal
<1>4. Total(h, D) = Total(Weight, S)
  BY <1>1, <1>2, <1>3, TotalDivided
<1> QED BY <1>4, SumIsTotal

\* The rows a figure counts.
Counted(figure, S) == {i \in S : Counts(figure, Row(i))}

LEMMA WhatCounts ==
  ASSUME NEW f
  PROVE  /\ Counts("events", f) <=> TRUE
         /\ Counts("blocked_events", f) <=> f.blocked
         /\ Counts("sinkholed_events", f) <=> f.sinkholed
         /\ Counts("dns_seen", f) <=> DnsSeen(f)
         /\ Counts("dns_blocked", f) <=> DnsBlocked(f)
         /\ Counts("perimeter_blocked", f) <=> Perimeter(f)
BY DEF Counts

\* What the figures of one set of rows have to do with each other: what was blocked was
\* seen, for ad blocking acts on DNS traffic, and the perimeter counts no sinkholed row.
LEMMA FiguresNest ==
  ASSUME NEW S \in SUBSET DOMAIN Traffic
  PROVE  /\ Figure("dns_blocked", S) <= Figure("dns_seen", S)
         /\ Figure("dns_seen", S) <= Figure("events", S)
         /\ Figure("perimeter_blocked", S) <= Figure("blocked_events", S)
         /\ Figure("sinkholed_events", S) + Figure("perimeter_blocked", S)
              <= Figure("events", S)
<1>1. ASSUME NEW k PROVE Figure(k, S) = SumOf(Counted(k, S)) /\ Counted(k, S) \in SUBSET S
  BY DEF Figure, Counted
<1>2. Counted("events", S) = S
  BY WhatCounts DEF Counted
<1>3. Counted("dns_blocked", S) \subseteq Counted("dns_seen", S)
  <2>1. ASSUME NEW i \in S, DnsBlocked(Row(i)) PROVE DnsSeen(Row(i))
    BY <2>1, AdBlockingIsDns DEF DnsBlocked, DnsBlock, DnsSeen
  <2> QED BY <2>1, WhatCounts DEF Counted
<1>4. Counted("perimeter_blocked", S) \subseteq Counted("blocked_events", S)
  BY WhatCounts DEF Counted, Perimeter
<1>5. Counted("sinkholed_events", S) \cap Counted("perimeter_blocked", S) = {}
  BY WhatCounts DEF Counted, Perimeter
<1>6. \A k : Counted(k, S) \in SUBSET DOMAIN Traffic
  BY <1>1
<1>7. \A j, k : Counted(j, S) \subseteq Counted(k, S) => Figure(j, S) <= Figure(k, S)
  BY <1>1, <1>6, SumGrows
<1>8. \A k : Counted(k, S) \subseteq Counted("events", S)
  BY <1>1, <1>2
<1>9. Figure("sinkholed_events", S) + Figure("perimeter_blocked", S) <= Figure("events", S)
  <2> DEFINE A == Counted("sinkholed_events", S)
             B == Counted("perimeter_blocked", S)
  <2>1. A \in SUBSET DOMAIN Traffic /\ B \in SUBSET DOMAIN Traffic /\ A \cup B \in SUBSET S
    BY <1>1, <1>6
  <2>2. SumOf(A \cup B) = SumOf(A) + SumOf(B)
    BY <1>5, <2>1, SumParts
  <2>3. SumOf(A \cup B) <= SumOf(S)
    <3> HIDE DEF A, B
    <3> QED BY <2>1, SumGrows
  <2> QED BY <1>1, <1>2, <2>2, <2>3
<1> QED BY <1>3, <1>4, <1>7, <1>8, <1>9

\* A device that is listed: what was blocked for it, or that nothing is known.
LEMMA BlockedIsSum ==
  ASSUME NEW S \in SUBSET DOMAIN Traffic, NEW d
  PROVE  /\ Or0(BlockedOf(d, S)) = SumOf({i \in RowsOf(d, S) : DnsBlock(Row(i))})
         /\ (\E i \in RowsOf(d, S) : ~Unknown(Row(i))) => BlockedOf(d, S) \in Nat
<1> DEFINE B == {i \in RowsOf(d, S) : DnsBlock(Row(i))}
<1>1. B \in SUBSET DOMAIN Traffic
  BY DEF RowsOf
<1>2. SumOf(B) \in Nat
  <2> HIDE DEF B
  <2> QED BY <1>1, SumIsTotal
<1>3. CASE \A i \in RowsOf(d, S) : Unknown(Row(i))
  <2>1. B = {}
    BY <1>3, StatsAssumption DEF Unknown, DnsBlock
  <2>2. SumOf({}) = 0
    <3>1. {} \in SUBSET DOMAIN Traffic
      OBVIOUS
    <3> QED BY <3>1, SumIsTotal, TotalEmpty
  <2>3. BlockedOf(d, S) = Null
    BY <1>3 DEF BlockedOf
  <2> HIDE DEF B
  <2> QED BY <1>3, <2>1, <2>2, <2>3 DEF B, Or0
<1>4. CASE \E i \in RowsOf(d, S) : ~Unknown(Row(i))
  <2>1. BlockedOf(d, S) = SumOf(B)
    BY <1>4 DEF BlockedOf
  <2>2. SumOf(B) # Null
    <3> HIDE DEF B
    <3> QED BY <1>2, StatsAssumption
  <2> HIDE DEF B
  <2> QED BY <1>2, <2>1, <2>2 DEF B, Or0
<1> QED BY <1>3, <1>4

\* The rows of devices on the LAN that were blocked.
LanBlocked(S) == Counted("dns_blocked", S)

LEMMA LanBlockedIs ==
  ASSUME NEW S \in SUBSET DOMAIN Traffic
  PROVE  /\ LanBlocked(S) = {i \in S : LanSrc(Row(i)) /\ DnsBlock(Row(i))}
         /\ LanBlocked(S) \in SUBSET S
         /\ Figure("dns_blocked", S) = SumOf(LanBlocked(S))
BY WhatCounts DEF LanBlocked, Counted, Figure, DnsBlocked

\* What was blocked is with one of the devices.
LEMMA BlockedByDevice ==
  ASSUME NEW S \in SUBSET DOMAIN Traffic
  PROVE  SumFunction([d \in Devices(S) |-> Or0(BlockedOf(d, S))]) = Figure("dns_blocked", S)
<1> DEFINE B == LanBlocked(S)
           D == Devices(S)
           g == [i \in DOMAIN Traffic |-> Row(i).src]
           h == [d \in D |-> Or0(BlockedOf(d, S))]
<1>1. /\ B = {i \in S : LanSrc(Row(i)) /\ DnsBlock(Row(i))}
      /\ Figure("dns_blocked", S) = SumOf(B)
  BY LanBlockedIs
<1>2. B \in SUBSET DOMAIN Traffic /\ \A i \in B : g[i] \in D
  BY <1>1 DEF Devices
<1>3. \A d \in D : \E i \in DOMAIN Traffic : d = g[i]
  BY DEF Devices
<1>4. ASSUME NEW d \in D PROVE h[d] = SumOf(With(B, g, d))
  <2>1. d \in Lan
    BY DEF Devices, LanSrc
  <2>2. {i \in RowsOf(d, S) : DnsBlock(Row(i))} = With(B, g, d)
    BY <1>1, <2>1 DEF RowsOf, With, LanSrc
  <2>3. h[d] = SumOf({i \in RowsOf(d, S) : DnsBlock(Row(i))})
    BY BlockedIsSum
  <2> QED BY <2>2, <2>3
<1>5. Total(h, D) = SumOf(B)
  <2> HIDE DEF B, D, g, h
  <2> QED BY <1>2, <1>3, <1>4, SumDivided
<1>6. SumFunction(h) = Total(h, D)
  BY DEF SumFunction, Total
<1> QED BY <1>1, <1>5, <1>6

\* It is in one of the hours.
LEMMA BlockedByHour ==
  ASSUME NEW S \in SUBSET DOMAIN Traffic
  PROVE  SumFunction([h \in DOMAIN Timeline(S) |-> Timeline(S)[h].blocked])
           = Figure("dns_blocked", S)
<1> DEFINE B == LanBlocked(S)
           D == DOMAIN Timeline(S)
           g == [i \in DOMAIN Traffic |-> Row(i).hour]
           h == [d \in D |-> Timeline(S)[d].blocked]
           In(d) == {i \in S : LanSrc(Row(i)) /\ Row(i).hour = d}
<1>1. /\ B = {i \in S : LanSrc(Row(i)) /\ DnsBlock(Row(i))}
      /\ Figure("dns_blocked", S) = SumOf(B)
  BY LanBlockedIs
<1>2. D = Hours(S)
  BY DEF Timeline
<1>3. B \in SUBSET DOMAIN Traffic /\ \A i \in B : g[i] \in D
  <2> HIDE DEF D
  <2> QED BY <1>1, <1>2 DEF Hours
<1>4. \A d \in D : \E i \in DOMAIN Traffic : d = g[i]
  <2> HIDE DEF D
  <2> QED BY <1>2 DEF Hours
<1>5. ASSUME NEW d \in D PROVE h[d] = SumOf(With(B, g, d))
  <2>1. Timeline(S)[d].blocked = SumOf({i \in In(d) : DnsBlock(Row(i))})
    <3>1. d \in Hours(S)
      BY <1>2
    <3> QED BY <3>1 DEF Timeline
  <2>2. {i \in In(d) : DnsBlock(Row(i))} = With(B, g, d)
    BY <1>1 DEF With
  <2> HIDE DEF D
  <2>3. h[d] = Timeline(S)[d].blocked
    OBVIOUS
  <2> QED BY <2>1, <2>2, <2>3
<1>6. Total(h, D) = SumOf(B)
  <2> HIDE DEF B, D, g, h
  <2> QED BY <1>3, <1>4, <1>5, SumDivided
<1>7. SumFunction(h) = Total(h, D)
  BY DEF SumFunction, Total
<1> QED BY <1>1, <1>6, <1>7

\* No name was blocked more often.
LEMMA BlockedByName ==
  ASSUME NEW S \in SUBSET DOMAIN Traffic, NEW n \in DOMAIN Domains(S, TRUE)
  PROVE  Domains(S, TRUE)[n] <= Figure("dns_blocked", S)
<1> DEFINE R == {i \in S : Listed(Row(i), TRUE)}
           N == {i \in R : n \in Row(i).domains}
<1>1. R = LanBlocked(S)
  BY LanBlockedIs DEF Listed
<1>2. Domains(S, TRUE)[n] = SumOf(N)
  BY DEF Domains
<1>3. N \in SUBSET R /\ R \in SUBSET DOMAIN Traffic
  OBVIOUS
<1>4. SumOf(N) <= SumOf(R)
  <2> HIDE DEF N, R
  <2> QED BY <1>3, SumGrows
<1> HIDE DEF N, R
<1> QED BY <1>1, <1>2, <1>4, LanBlockedIs

\* The first of a list of devices are those with most blocked, if all rows have a policy.
LEMMA TopsAreTop ==
  ASSUME NEW S \in SUBSET DOMAIN Traffic, \A i \in S : Row(i).policy # Null,
         NEW T \in Tops(S, Limit), NEW c \in T, NEW d \in Devices(S) \ T
  PROVE  BlockedOf(d, S) <= BlockedOf(c, S)
<1>1. T \in SUBSET Devices(S) /\ ~Ranks(d, c, S)
  BY DEF Tops
<1>2. ASSUME NEW e \in Devices(S) PROVE BlockedOf(e, S) \in Nat
  <2>1. PICK i \in S : Row(i).src = e
    BY DEF Devices
  <2>2. i \in RowsOf(e, S) /\ ~Unknown(Row(i))
    BY <2>1 DEF RowsOf, Unknown
  <2> QED BY <2>2, BlockedIsSum
<1>3. BlockedOf(c, S) \in Nat /\ BlockedOf(d, S) \in Nat
  BY <1>1, <1>2
<1>4. ~(BlockedOf(d, S) > BlockedOf(c, S))
  BY <1>1, <1>3, StatsAssumption DEF Ranks
<1> QED BY <1>3, <1>4

\* Who bypasses the gateway asks an address that is neither the gateway's nor null.
LEMMA BypassingAsks ==
  ASSUME NEW S \in SUBSET DOMAIN Traffic, NEW d \in Bypassing(S, Gateways)
  PROVE  \E i \in S : Row(i).src = d /\ Row(i).dst \notin Gateways \cup Sinkholes
<1>1. PICK i \in S : Row(i).src = d /\ Escapes(Row(i), Gateways)
  BY DEF Bypassing
<1>2. Row(i).sinkholed <=> Row(i).dst \in Sinkholes
  BY DEF Row
<1> QED BY <1>1, <1>2 DEF Escapes

-----------------------------------------------------------------------------
(***************************************************************************)
(* What a request has been answered stays right, for it is about the rows  *)
(* and names that were there when it was made; what it will be answered is *)
(* right so far.                                                           *)
(***************************************************************************)

\* The figures of an answer fit together if the rows did not change while it was made.
Fits(a) ==
  a.from = a.to =>
    LET f(k) == a.figures[k]
    IN  f(5) <= f(4) /\ f(4) <= f(1) /\ f(6) <= f(2) /\ f(3) + f(6) <= f(1)

Topmost(a) ==
  (\A i \in a.of : Row(i).policy # Null) =>
    \A c \in a.top, d \in Devices(a.of) \ a.top : BlockedOf(d, a.of) <= BlockedOf(c, a.of)

Asks(a) ==
  \A d \in a.bypassing :
    \E i \in a.of : Row(i).src = d /\ Row(i).dst \notin Gateways \cup Sinkholes

Right(a) ==
  /\ "zones" \in DOMAIN a => Grouped(a)
  /\ "figures" \in DOMAIN a => Fits(a)
  /\ "top" \in DOMAIN a => Topmost(a)
  /\ "bypassing" \in DOMAIN a => Asks(a)

\* The figures a request for the summary has so far.
SoFar(a) ==
  /\ a = [from |-> a.from, figures |-> a.figures]
  /\ a.from \subseteq rows /\ a.figures \in Seq(Nat) /\ Len(a.figures) < Len(Figures)
  /\ a.from = rows => \A k \in 1 .. Len(a.figures) : a.figures[k] = Figure(Figures[k], rows)

HoldsAnswer(r) ==
  /\ pc[r] = "summary" => SoFar(arg[r])
  /\ pc[r] = "bypass"  => arg[r] = Gateways
  /\ pc[r] = "done" /\ arg[r] # None => Right(arg[r])

AnswerInv == \A r \in Requests : HoldsAnswer(r)

LEMMA AnswersRest ==
  ASSUME AnswerInv, NEW r \in Requests, Moves(r), UNCHANGED rows, HoldsAnswer(r)'
  PROVE  AnswerInv'
<1>1. ASSUME NEW q \in Requests \ {r} PROVE HoldsAnswer(q)'
  BY <1>1 DEF AnswerInv, HoldsAnswer, Moves, SoFar
<1> QED BY <1>1 DEF AnswerInv

LEMMA SixFigures ==
  /\ Len(Figures) = 6
  /\ Figures[1] = "events" /\ Figures[2] = "blocked_events" /\ Figures[3] = "sinkholed_events"
  /\ Figures[4] = "dns_seen" /\ Figures[5] = "dns_blocked" /\ Figures[6] = "perimeter_blocked"
BY DEF Figures

LEMMA StatementAnswers ==
  ASSUME IInv, AnswerInv, NEW r \in Requests, Statement(r), UNCHANGED otherVars
  PROVE  AnswerInv'
<1> DEFINE known == arg[r].figures
           n     == Len(known)
           all   == Append(known, Figure(Figures[n + 1], rows))
           a     == [from |-> arg[r].from, to |-> rows, figures |-> all]
<1>1. pc[r] = "summary" /\ SoFar(arg[r]) /\ rows \in SUBSET DOMAIN Traffic
  BY DEF Statement, AnswerInv, HoldsAnswer, IInv, OtherInv
<1>2. UNCHANGED rows
  BY DEF otherVars
<1>3. n \in 0 .. 5 /\ known \in Seq(Nat)
  <2>1. known \in Seq(Nat) /\ n < 6
    BY <1>1, SixFigures DEF SoFar
  <2>2. n \in Nat
    BY <2>1, LenProperties
  <2> HIDE DEF known, n
  <2> QED BY <2>1, <2>2
<1>4. \A k : Figure(k, rows) \in Nat
  <2> TAKE k
  <2>1. Figure(k, rows) = SumOf(Counted(k, rows)) /\ Counted(k, rows) \in SUBSET DOMAIN Traffic
    BY <1>1 DEF Figure, Counted
  <2> QED BY <2>1, SumIsTotal
<1>5. /\ all \in Seq(Nat) /\ Len(all) = n + 1
      /\ \A k \in 1 .. n : all[k] = known[k]
      /\ all[n + 1] = Figure(Figures[n + 1], rows)
  <2> HIDE DEF known
  <2> QED BY <1>3, <1>4, AppendProperties
<1>6. arg[r].from = rows => \A k \in 1 .. n + 1 : all[k] = Figure(Figures[k], rows)
  <2>1. arg[r].from = rows => \A k \in 1 .. n : known[k] = Figure(Figures[k], rows)
    BY <1>1 DEF SoFar
  <2>2. \A k \in 1 .. n + 1 : k \in 1 .. n \/ k = n + 1
    BY <1>3
  <2> HIDE DEF known, all, n
  <2> QED BY <1>5, <2>1, <2>2
<1> HIDE DEF all, n, known
<1>7. CASE Len(all) < 6
  <2>1. PICK b : b = [arg[r] EXCEPT !.figures = all]
    OBVIOUS
  <2>2. Proceed(r, "summary", b)
    BY <1>7, <2>1, SixFigures DEF Statement, all, known, n
  <2>3. Moves(r) /\ pc'[r] = "summary" /\ arg'[r] = b
    BY <1>1, <2>2, ProceedMoves DEF IInv
  <2>4. b = [from |-> arg[r].from, figures |-> all]
    BY <1>1, <2>1 DEF SoFar
  <2>5. b.from = arg[r].from /\ b.figures = all
    BY <2>4
  <2>6. SoFar(b)
    <3>1. b = [from |-> b.from, figures |-> b.figures]
      BY <2>4, <2>5
    <3>2. Len(all) < Len(Figures) /\ b.from \subseteq rows
      BY <1>1, <1>7, <2>5, SixFigures DEF SoFar
    <3>3. b.from = rows => \A k \in 1 .. Len(b.figures) : b.figures[k] = Figure(Figures[k], rows)
      BY <1>5, <1>6, <2>5
    <3> QED BY <1>5, <2>5, <3>1, <3>2, <3>3 DEF SoFar
  <2>7. SoFar(b)'
    BY <1>2, <2>6 DEF SoFar
  <2>8. HoldsAnswer(r)'
    BY <2>3, <2>7 DEF HoldsAnswer
  <2> QED BY <1>2, <2>3, <2>8, AnswersRest
<1>8. CASE ~(Len(all) < 6)
  <2>1. Proceed(r, "done", a)
    BY <1>8, SixFigures DEF Statement, Answer, all, known, n
  <2>2. Moves(r) /\ pc'[r] = "done" /\ arg'[r] = a
    BY <1>1, <2>1, ProceedMoves DEF IInv
  <2>3. n + 1 = 6
    BY <1>3, <1>5, <1>8
  <2>4. ASSUME arg[r].from = rows
        PROVE  /\ all[1] = Figure("events", rows) /\ all[2] = Figure("blocked_events", rows)
               /\ all[3] = Figure("sinkholed_events", rows) /\ all[4] = Figure("dns_seen", rows)
               /\ all[5] = Figure("dns_blocked", rows)
               /\ all[6] = Figure("perimeter_blocked", rows)
    <3>1. \A k \in 1 .. 6 : all[k] = Figure(Figures[k], rows)
      BY <1>6, <2>3, <2>4
    <3> QED BY <3>1, SixFigures
  <2>5. Fits(a)
    BY <1>1, <2>4, FiguresNest DEF Fits
  <2>6. Right(a)
    BY <2>5 DEF Right
  <2> HIDE DEF a
  <2>7. HoldsAnswer(r)'
    BY <2>2, <2>6 DEF HoldsAnswer
  <2> QED BY <1>2, <2>2, <2>7, AnswersRest
<1> QED BY <1>7, <1>8

LEMMA GroupAnswers ==
  ASSUME IInv, AnswerInv, NEW r \in Requests, Group(r), UNCHANGED otherVars
  PROVE  AnswerInv'
<1>1. PICK order \in Orders(Declared) :
        Proceed(r, "done", [names |-> arg[r], apexes |-> Declared,
                            zones |-> BuildZones(arg[r], order)])
  BY DEF Group, Answer
<1>2. PICK a : a = [names |-> arg[r], apexes |-> Declared, zones |-> BuildZones(arg[r], order)]
  OBVIOUS
<1>3. Moves(r) /\ pc'[r] = "done" /\ arg'[r] = a
  BY <1>1, <1>2, ProceedMoves DEF IInv, Group
<1>4. Declared \in SUBSET Declarable /\ IsFiniteSet(Declared)
  BY DeclaredFinite DEF IInv, ApexInv
<1>5. Grouped(a)
  BY <1>2, <1>4, BuildGroups
<1>6. Right(a)
  <2>1. DOMAIN a = {"names", "apexes", "zones"}
    BY <1>2
  <2> QED BY <1>5, <2>1 DEF Right
<1>7. HoldsAnswer(r)'
  BY <1>3, <1>6 DEF HoldsAnswer
<1>8. UNCHANGED rows
  BY DEF otherVars
<1> QED BY <1>3, <1>7, <1>8, AnswersRest

LEMMA ListsAnswer ==
  ASSUME IInv, AnswerInv, NEW r \in Requests, Top(r) \/ Bypass(r), UNCHANGED otherVars
  PROVE  AnswerInv'
<1>1. rows \in SUBSET DOMAIN Traffic /\ UNCHANGED rows
  BY DEF IInv, OtherInv, otherVars
<1>2. ASSUME NEW a, Right(a), Proceed(r, "done", a) PROVE AnswerInv'
  <2>1. Moves(r) /\ pc'[r] = "done" /\ arg'[r] = a
    BY <1>2, ProceedMoves DEF IInv, Top, Bypass
  <2>2. HoldsAnswer(r)'
    BY <1>2, <2>1 DEF HoldsAnswer
  <2> QED BY <1>1, <2>1, <2>2, AnswersRest
<1>3. CASE Top(r)
  <2>1. PICK T \in Tops(rows, Limit) : Proceed(r, "done", [of |-> rows, top |-> T])
    BY <1>3 DEF Top, Answer
  <2>2. PICK a : a = [of |-> rows, top |-> T]
    OBVIOUS
  <2>3. Topmost(a)
    BY <1>1, <2>2, TopsAreTop DEF Topmost
  <2>4. DOMAIN a = {"of", "top"}
    BY <2>2
  <2> QED BY <1>2, <2>1, <2>2, <2>3, <2>4 DEF Right
<1>4. CASE Bypass(r)
  <2>1. PICK a : a = [of |-> rows, bypassing |-> Bypassing(rows, arg[r])]
    OBVIOUS
  <2>2. arg[r] = Gateways
    BY <1>4 DEF Bypass, AnswerInv, HoldsAnswer
  <2>3. Asks(a)
    BY <1>1, <2>1, <2>2, BypassingAsks DEF Asks
  <2>4. DOMAIN a = {"of", "bypassing"}
    BY <2>1
  <2>5. Proceed(r, "done", a)
    BY <1>4, <2>1 DEF Bypass, Answer
  <2> QED BY <1>2, <2>3, <2>4, <2>5 DEF Right
<1> QED BY <1>3, <1>4

\* All other steps of a request end without an answer of these kinds, or go on to a stage
\* where nothing is held.
LEMMA OthersAnswer ==
  ASSUME IInv, AnswerInv, NEW r \in Requests, UNCHANGED rows,
         \/ ApexNext(r) \/ DeviceNext(r) \/ Fail(r)
         \/ AskZones(r) \/ ListPolicies(r) \/ ListClients(r)
         \/ AskSummary(r) \/ AskDevicesSeen(r) \/ AskBypass(r) \/ ReadNetworks(r)
  PROVE  AnswerInv'
<1> DEFINE Quiet == {"declare", "insert", "remove", "delete", "set", "put", "records",
                     "eligible", "policies", "clients", "group", "top", "networks",
                     "refused", "failed"}
<1>1. ASSUME Moves(r), pc'[r] \in Quiet \/ (pc'[r] = "done" /\ arg'[r] = None)
      PROVE  AnswerInv'
  <2>1. HoldsAnswer(r)'
    BY <1>1 DEF HoldsAnswer
  <2> QED BY <1>1, <2>1, AnswersRest
<1>2. ASSUME NEW stage \in Quiet, NEW sent, Arrive(r, stage, sent) PROVE AnswerInv'
  BY <1>1, <1>2, ArriveMoves DEF IInv
<1>3. ASSUME NEW stage, NEW holds, pc[r] \notin {"idle", "refused", "done"},
             Proceed(r, stage, holds), stage \in Quiet \/ (stage = "done" /\ holds = None)
      PROVE  AnswerInv'
  BY <1>1, <1>3, ProceedMoves DEF IInv
<1> HIDE DEF Quiet
<1>4. CASE ApexNext(r)
  <2>1. CASE Declare(r) \/ Undeclare(r)
    BY <1>2, <2>1 DEF Declare, Undeclare, Quiet
  <2>2. CASE CheckApex(r) \/ GetApex(r)
    BY <1>3, <2>2 DEF CheckApex, GetApex, Quiet
  <2>3. CASE InsertApex(r) \/ DeleteApex(r)
    BY <1>3, <2>3 DEF InsertApex, DeleteApex, Quiet
  <2> QED BY <1>4, <2>1, <2>2, <2>3 DEF ApexNext
<1>5. CASE DeviceNext(r)
  <2>1. CASE SetRecord(r) \/ UndoChange(r) \/ AskDevices(r)
    BY <1>2, <2>1 DEF SetRecord, UndoChange, AskDevices, Quiet
  <2>2. CASE ReadDevice(r) \/ ListRecords(r)
    BY <1>3, <2>2 DEF ReadDevice, ListRecords, Quiet
  <2>3. CASE PutDevice(r)
    BY <1>3, <2>3 DEF PutDevice
  <2>4. CASE ListEligible(r)
    <3>1. PICK a : a = [records |-> arg[r].records, eligible |-> Fixed \ Recorded]
      OBVIOUS
    <3>2. Moves(r) /\ pc'[r] = "done" /\ arg'[r] = a
      BY <2>4, <3>1, ProceedMoves DEF IInv, ListEligible
    <3>3. DOMAIN a = {"records", "eligible"}
      BY <3>1
    <3>4. HoldsAnswer(r)'
      BY <3>2, <3>3 DEF HoldsAnswer, Right
    <3> QED BY <3>2, <3>4, AnswersRest
  <2> QED BY <1>5, <2>1, <2>2, <2>3, <2>4 DEF DeviceNext
<1>6. CASE Fail(r)
  BY <1>3, <1>6 DEF Fail, Quiet
<1>7. CASE AskZones(r) \/ AskDevicesSeen(r) \/ AskBypass(r)
  BY <1>2, <1>7 DEF AskZones, AskDevicesSeen, AskBypass, Quiet
<1>8. CASE ListPolicies(r) \/ ListClients(r)
  BY <1>3, <1>8 DEF ListPolicies, ListClients, Quiet
<1>9. CASE AskSummary(r)
  <2>1. PICK a : a = [from |-> rows, figures |-> << >>]
    OBVIOUS
  <2>2. /\ Moves(r)
        /\ \/ pc'[r] = "summary" /\ arg'[r] = a
           \/ pc'[r] = "refused"
    BY <1>9, <2>1, ArriveMoves DEF IInv, AskSummary
  <2>3. SoFar(a)
    <3>1. << >> \in Seq(Nat) /\ Len(<< >>) = 0
      BY EmptySeq
    <3> QED BY <2>1, <3>1, SixFigures DEF SoFar
  <2>4. SoFar(a)'
    BY <2>3 DEF SoFar
  <2>5. HoldsAnswer(r)'
    BY <2>2, <2>4 DEF HoldsAnswer
  <2> QED BY <2>2, <2>5, AnswersRest
<1>10. CASE ReadNetworks(r)
  <2>1. Moves(r) /\ pc'[r] = "bypass" /\ arg'[r] = Gateways
    BY <1>10, ProceedMoves DEF IInv, ReadNetworks
  <2>2. HoldsAnswer(r)'
    BY <2>1 DEF HoldsAnswer
  <2> QED BY <2>1, <2>2, AnswersRest
<1> QED BY <1>4, <1>5, <1>6, <1>7, <1>8, <1>9, <1>10

\* Every step keeps what was answered right.
LEMMA AnswersKeep == IInv /\ AnswerInv /\ [Next]_vars => AnswerInv'
<1> SUFFICES ASSUME IInv, AnswerInv, [Next]_vars PROVE AnswerInv'
  OBVIOUS
<1>1. CASE UNCHANGED << requestVars, rows >>
  BY <1>1 DEF AnswerInv, HoldsAnswer, SoFar, requestVars
<1>2. CASE AccessNext /\ UNCHANGED otherVars
  <2>1. UNCHANGED << requestVars, rows >>
    BY <1>2, SignInMoves DEF IInv, AccessNext, otherVars
  <2> QED BY <1>1, <2>1
<1>3. CASE Edit \/ UNCHANGED vars
  <2>1. UNCHANGED << requestVars, rows >>
    BY <1>3 DEF Edit, vars, otherVars
  <2> QED BY <1>1, <2>1
<1>4. CASE Collect
  <2>1. rows \subseteq rows' /\ rows' # rows /\ UNCHANGED requestVars
    BY <1>4 DEF Collect
  <2>2. \A a : SoFar(a) => SoFar(a)'
    BY <2>1 DEF SoFar
  <2> QED BY <2>1, <2>2 DEF AnswerInv, HoldsAnswer, requestVars
<1>5. ASSUME NEW r \in Requests, ApexNext(r) \/ DeviceNext(r) \/ Reading(r) \/ Fail(r),
             UNCHANGED otherVars
      PROVE  AnswerInv'
  <2>1. UNCHANGED rows
    BY <1>5 DEF otherVars
  <2> QED BY <1>5, <2>1, StatementAnswers, GroupAnswers, ListsAnswer, OthersAnswer DEF Reading
<1> QED BY <1>2, <1>3, <1>4, <1>5 DEF Next

\* What is answered is right, whenever it was asked.
THEOREM AnswersAreRight == Spec => []AnswerInv
<1>1. Init => AnswerInv
  BY DEF Init, AccessInit, AnswerInv, HoldsAnswer
<1> QED BY <1>1, AnswersKeep, Inductive, PTL DEF Spec

\* Every record is in one zone, that of the longest declared apex it lies under, in
\* whatever order they come and however they are nested (services/zones.py, build_zones).
THEOREM RecordsInTheirZones == Spec => []EachInItsZone
<1>1. AnswerInv => EachInItsZone
  BY DEF AnswerInv, HoldsAnswer, Right, Grouped, EachInItsZone, Answers
<1> QED BY <1>1, AnswersAreRight, PTL

\* The figures of one answer fit together, for every traffic in which ad blocking acts on
\* DNS only (routes_stats.py, summary).
THEOREM FiguresDoFit == Spec => []FiguresFit
<1>1. AnswerInv => FiguresFit
  BY DEF AnswerInv, HoldsAnswer, Right, Fits, FiguresFit, Answers
<1> QED BY <1>1, AnswersAreRight, PTL

\* The queries behind the parts of the dashboard agree with each other
\* (routes_stats.py, clients, timeline, domains and bypass).
THEOREM DashboardDoesAgree == Spec => []DashboardAgrees
<1>1. IInv => BlockedIsSomewhere
  <2> SUFFICES ASSUME rows \in SUBSET DOMAIN Traffic PROVE BlockedIsSomewhere
    BY DEF IInv, OtherInv
  <2> QED BY BlockedByDevice, BlockedByHour, BlockedByName DEF BlockedIsSomewhere
<1>2. AnswerInv => TopIsTop
  BY DEF AnswerInv, HoldsAnswer, Right, Topmost, TopIsTop, Answers
<1>3. AnswerInv => FilteringIsNotBypass
  BY DEF AnswerInv, HoldsAnswer, Right, Asks, FilteringIsNotBypass, Answers
<1> QED BY <1>1, <1>2, <1>3, Inductive, AnswersAreRight, PTL DEF DashboardAgrees

-----------------------------------------------------------------------------
(***************************************************************************)
(* Names that change their zone.                                           *)
(***************************************************************************)

\* An apex n that is added to S, or taken out of it again, takes names from the zones they
\* had and moves no others.
LEMMA OnlyItsOwn ==
  ASSUME NEW S \in SUBSET Declarable, IsFiniteSet(S),
         NEW T \in SUBSET Declarable, IsFiniteSet(T),
         NEW n \in Declarable, T = S \cup {n}, NEW name,
         Zoned(name, S) # Zoned(name, T)
  PROVE  Zoned(name, T) = {n}
<1>2. PICK y : Zoned(name, S) = {y} /\ \A z : Belongs(z, name, S) <=> z = y
  BY ZonedIsOne
<1>3. PICK z : Zoned(name, T) = {z} /\ \A x : Belongs(x, name, T) <=> x = z
  BY ZonedIsOne
<1>4. Belongs(z, name, T) /\ ~Belongs(z, name, S)
  BY <1>2, <1>3
<1>5. CASE n \notin Candidates(name, T)
  <2>1. Candidates(name, T) = Candidates(name, S)
    BY <1>5 DEF Candidates
  <2> QED BY <1>4, <2>1 DEF Belongs, IsLongest
<1>6. CASE n \in Candidates(name, T)
  <2>1. IsLongest(z, name, T)
    BY <1>4, <1>6 DEF Belongs
  <2>2. z # n => IsLongest(z, name, S)
    BY <2>1 DEF IsLongest, Candidates
  <2>3. z # n => Belongs(z, name, S)
    BY <2>2 DEF Belongs, IsLongest
  <2> QED BY <1>3, <1>4, <2>3
<1> QED BY <1>5, <1>6

\* Which steps change the apexes, and how.
LEMMA ApexesChange ==
  ASSUME IInv, [Next]_vars, apexes' # apexes
  PROVE  \E i \in Requests :
           /\ apexes'[i] # apexes[i]
           /\ \/ apexes'[i] \in Declarable /\ Declared' = Declared \cup {apexes'[i]}
              \/ /\ apexes[i] \in Declarable /\ apexes[i] \notin Declared'
                 /\ Declared = Declared' \cup {apexes[i]}
<1>1. PICK r \in Requests : ApexNext(r)
  <2>1. UNCHANGED apexVars => FALSE
    BY DEF apexVars
  <2> QED BY <2>1 DEF Next, vars, Collect, Edit
<1>2. (InsertApex(r) /\ arg[r] \notin Declared) \/ DeleteApex(r)
  BY <1>1 DEF ApexNext, Declare, CheckApex, InsertApex, Undeclare, GetApex, apexVars
<1>3. apexes \in [Requests -> Declarable \cup {None}] /\ NamesUnique /\ None \notin Declarable
  BY ApexAssumption DEF IInv, ApexInv
<1>4. CASE InsertApex(r) /\ arg[r] \notin Declared
  <2>1. pc[r] = "insert" /\ arg[r] \in Declarable /\ apexes[r] = None
    BY <1>4 DEF InsertApex, IInv, ApexInv, HoldsApex, LeftApex
  <2>2. apexes' = [apexes EXCEPT ![r] = arg[r]]
    BY <1>4 DEF InsertApex
  <2>3. apexes'[r] = arg[r] /\ \A q \in Requests \ {r} : apexes'[q] = apexes[q]
    BY <1>3, <2>2
  <2>4. Declared' = Declared \cup {apexes'[r]}
    BY <1>3, <2>1, <2>3 DEF Declared
  <2> QED BY <1>3, <2>1, <2>3, <2>4
<1>5. CASE DeleteApex(r)
  <2>1. PICK i : i = arg[r]
    OBVIOUS
  <2>2. i \in Requests /\ apexes' = [apexes EXCEPT ![i] = None]
    BY <1>5, <2>1 DEF DeleteApex, IInv, ApexInv, HoldsApex
  <2>3. apexes'[i] = None /\ \A q \in Requests \ {i} : apexes'[q] = apexes[q]
    BY <1>3, <2>2
  <2>4. apexes[i] # None
    BY <1>3, <2>2, <2>3
  <2>5. apexes[i] \notin Declared'
    BY <1>3, <2>2, <2>3, <2>4 DEF NamesUnique, Declared
  <2>6. Declared = Declared' \cup {apexes[i]}
    BY <1>3, <2>2, <2>3, <2>4 DEF Declared
  <2> QED BY <1>3, <2>2, <2>3, <2>4, <2>5, <2>6
<1> QED BY <1>2, <1>4, <1>5

\* Declaring or removing an apex moves names to it or away from it and no others
\* (routes.py, add_apex and remove_apex; services/zones.py, match_apex).
THEOREM ApexesMoveTheirOwn == Spec => MovesOnlyItsOwn
<1>1. IInv /\ IInv' /\ [Next]_vars =>
        [\A name \in PolicyNames :
           LET before == Zoned(name, Declared)
               after  == Zoned(name, Declared')
           IN  before # after =>
                 \E i \in Requests :
                   /\ apexes'[i] # apexes[i]
                   /\ before = {apexes[i]} \/ after = {apexes'[i]}]_apexes
  <2> SUFFICES ASSUME IInv, IInv', [Next]_vars, apexes' # apexes, NEW name \in PolicyNames,
                      Zoned(name, Declared) # Zoned(name, Declared')
               PROVE  \E i \in Requests :
                        /\ apexes'[i] # apexes[i]
                        /\ \/ Zoned(name, Declared) = {apexes[i]}
                           \/ Zoned(name, Declared') = {apexes'[i]}
    OBVIOUS
  <2>1. PICK i \in Requests :
           /\ apexes'[i] # apexes[i]
           /\ \/ apexes'[i] \in Declarable /\ Declared' = Declared \cup {apexes'[i]}
              \/ /\ apexes[i] \in Declarable /\ apexes[i] \notin Declared'
                 /\ Declared = Declared' \cup {apexes[i]}
    BY ApexesChange
  <2>2. PICK S, T : S = Declared /\ T = Declared'
    OBVIOUS
  <2>3. /\ S \in SUBSET Declarable /\ IsFiniteSet(S)
        /\ T \in SUBSET Declarable /\ IsFiniteSet(T)
    <3>1. S \in SUBSET Declarable /\ IsFiniteSet(S)
      BY <2>2, DeclaredFinite DEF IInv, ApexInv
    <3>2. T \in SUBSET S \/ (T \in SUBSET Declarable /\ \E n : T = S \cup {n})
      BY <2>1, <2>2, <3>1
    <3> QED BY <3>1, <3>2, FS_Subset, FS_AddElement
  <2>4. CASE apexes'[i] \in Declarable /\ T = S \cup {apexes'[i]}
    BY <2>1, <2>2, <2>3, <2>4, OnlyItsOwn
  <2>5. CASE apexes[i] \in Declarable /\ S = T \cup {apexes[i]}
    BY <2>1, <2>2, <2>3, <2>5, OnlyItsOwn
  <2> QED BY <2>1, <2>2, <2>4, <2>5
<1> QED BY <1>1, Inductive, PTL DEF Spec, MovesOnlyItsOwn
=============================================================================
