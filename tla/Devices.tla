------------------------------- MODULE Devices ------------------------------
(***************************************************************************)
(* The local DNS record of a client device (api/routes.py, client-bound    *)
(* records; unifi/client.py, set_client_record): a name and a flag on the  *)
(* device, which the gateway resolves only if the flag is set.  Clearing   *)
(* the name while the flag is set is an error for the gateway.  What is    *)
(* left out here and modelled in Changesets: the write lock, lost answers, *)
(* restarts.  A request to the gateway is one step.                        *)
(***************************************************************************)
EXTENDS Access

CONSTANTS
  Clients,   \* the devices the gateway knows
  Strangers, \* ids it does not know
  Fixed,     \* those with a fixed address
  Hostnames, \* the names as they are sent
  Plain,     \* Plain[n]: n without blanks around it and upper case; None if that is all
  Fresh      \* what the devices have at first

VARIABLES
  devices, \* devices[c]: the record of device c
  changes  \* changes[r]: the changeset of request r

deviceVars == << devices, changes >>

Record == [name : Hostnames \cup {None}, on : BOOLEAN]

\* A changeset of one revision: the record of a device before and after it.
Change == [client : Clients, before : Record, after : Record, applied : BOOLEAN,
           author : Users \cup {None}]

ASSUME DeviceAssumption ==
  /\ Fresh \in [Clients -> Record]
  /\ Plain \in [Hostnames -> Hostnames \cup {None}]
  /\ None \notin Hostnames \cup Change /\ Clients \cap Strangers = {}

DeviceInit ==
  /\ devices = Fresh
  /\ changes = [r \in Requests |-> None]

Blank == [name |-> None, on |-> FALSE]

-----------------------------------------------------------------------------
\* The request of a page or a program: a name, or none to clear the record, and a flag
\* or none to leave it as it is.
SetRecord(r) ==
  /\ \E c \in Clients \cup Strangers, n \in Hostnames \cup {None},
        flag \in BOOLEAN \cup {None} :
       Arrive(r, "set", [client |-> c, name |-> n, flag |-> flag])
  /\ UNCHANGED deviceVars

\* get_client_record: a device without a name has no record, whatever its flag.
Current(c) == IF devices[c].name = None THEN Blank ELSE devices[c]

\* Mutant: the flag is taken as it was asked for.
AfterAsked(asked, before) == [name |-> asked.name, on |-> asked.flag]

\* set_client_record of the endpoint: what the record is to become.
After(asked, before) ==
  [name |-> asked.name,
   on   |-> IF asked.name = None THEN FALSE
            ELSE IF asked.flag = None THEN before.on ELSE asked.flag]

\* The endpoint reads the device and plans its changeset.
ReadDevice(r) ==
  /\ pc[r] = "set"
  /\ LET asked == arg[r]
     IN  IF asked.client \in Strangers THEN Proceed(r, "refused", None)
         ELSE LET before == Current(asked.client)
              IN  Proceed(r, "put", [client |-> asked.client, before |-> before,
                                     after |-> After(asked, before)])
  /\ UNCHANGED deviceVars

\* rollback and build_rollback: the changeset is turned round, with what it left as the
\* before-image.
UndoChange(r) ==
  /\ \E q \in Requests :
       /\ changes[q] # None /\ changes[q].applied
       /\ Arrive(r, "put", [client |-> changes[q].client, before |-> changes[q].after,
                            after |-> changes[q].before])
  /\ UNCHANGED deviceVars

\* Mutant: the flag the record has is sent with a clear.
BodyKeepsFlag(c, state) ==
  IF state.name = None THEN [name |-> None, on |-> devices[c].on]
  ELSE [name |-> Plain[state.name], on |-> state.on]

\* Mutant: the flag is sent only if it is set.
BodyOmitsFlag(c, state) ==
  IF state.name = None THEN Blank
  ELSE [name |-> Plain[state.name], on |-> state.on \/ devices[c].on]

\* set_client_record of the client: the body of the PUT to device c.  The name is cut
\* and lowered after the look whether there is one.
Body(c, state) ==
  IF state.name = None THEN Blank ELSE [name |-> Plain[state.name], on |-> state.on]

\* The gateway refuses LocalDnsRecordMissing.
Missing(body) == body.name = None /\ body.on

\* apply_changeset and commit, for the one revision there is: an error of the gateway is
\* recorded with it.
PutDevice(r) ==
  /\ pc[r] = "put"
  /\ LET body == Body(arg[r].client, arg[r].after)
     IN  /\ changes' = [changes EXCEPT ![r] =
              [client |-> arg[r].client, before |-> arg[r].before,
               after |-> arg[r].after, applied |-> ~Missing(body), author |-> Author(r)]]
         /\ IF Missing(body) THEN UNCHANGED devices
            ELSE devices' = [devices EXCEPT ![arg[r].client] = body]
  /\ Proceed(r, "done", None)

-----------------------------------------------------------------------------
\* list_client_records of the endpoint: the devices that have a record and those that
\* could, from two requests to the gateway.
AskDevices(r) ==
  /\ Arrive(r, "records", None)
  /\ UNCHANGED deviceVars

Recorded == {c \in Clients : devices[c].name # None}

ListRecords(r) ==
  /\ pc[r] = "records"
  /\ Proceed(r, "eligible", [records |-> Recorded])
  /\ UNCHANGED deviceVars

ListEligible(r) ==
  /\ pc[r] = "eligible"
  /\ Proceed(r, "done", [records |-> arg[r].records, eligible |-> Fixed \ Recorded])
  /\ UNCHANGED deviceVars

DeviceNext(r) ==
  \/ SetRecord(r) \/ ReadDevice(r) \/ UndoChange(r) \/ PutDevice(r)
  \/ AskDevices(r) \/ ListRecords(r) \/ ListEligible(r)

-----------------------------------------------------------------------------
\* The gateway never has to refuse what it is sent: a clear takes the flag off, whatever
\* it was and whoever is about to set it (unifi/client.py, set_client_record).  A name of
\* nothing but blanks is not a clear for the code.
NothingMissing ==
  \A r \in Requests :
    changes[r] # None =>
      \/ changes[r].applied
      \/ /\ changes[r].after.name # None
         /\ Plain[changes[r].after.name] = None

\* The history tells what a device has, name and flag, however requests overtake each
\* other: what some changeset on it says that it left, or what was there at first.
Left(change) ==
  [name |-> IF change.after.name = None THEN None ELSE Plain[change.after.name],
   on   |-> change.after.on]

HistoryTells ==
  \A c \in Clients :
    LET mine == {r \in Requests : changes[r] # None /\ changes[r].applied
                                  /\ changes[r].client = c}
    IN  IF mine = {} THEN devices[c] = Fresh[c]
        ELSE \E r \in mine : devices[c] = Left(changes[r])
=============================================================================
