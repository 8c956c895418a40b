---------------------------- MODULE Registration ----------------------------
(***************************************************************************)
(* application.Service over repository.Postgres: registrations, transports *)
(* and the authentication of readings.  A method of the service is a       *)
(* sequence of SQL statements without a transaction around them, so calls  *)
(* interleave between statements.  Each statement is atomic; a method of   *)
(* one statement is one step.                                              *)
(***************************************************************************)
EXTENDS Integers, FiniteSets

CONSTANTS
    Callers,                    \* requests the API handles at the same time
    Branches, Trucks, Grains,   \* ids of branches, trucks, grain_types rows
    Scales, Transports,         \* ids of scales, transport_transactions rows
    Codes,                      \* branch and grain codes, plates
    ScaleIds,                   \* the scale_id a scale goes by, which its readings carry
    Normal,                     \* a scale_id -> the scale_id trimmed and in upper case
    Keys,                       \* API keys as they are given; a hash tells nothing else
    Trimmed,                    \* a key -> the key without the blanks around it
    Values,                     \* prices, tares
    Workloads,                  \* sets of calls of the methods with several statements
    SeedRegistry, SeedScales, SeedTransports,   \* the rows cmd/seed inserts
    NoRow, NoKey, None,
    MaxEdits                    \* bound on the methods of one statement

Registered == Branches \cup Trucks \cup Grains
Ops == {"CreateScale", "UpdateScale", "CreateTransport", "Cancel", "Ingest"}

\* valid tells whether the values of the input pass the checks that need no
\* table (validateScaleInput, normalizeReading, blank ids, the status asked for).
Request == [op : Ops, valid : BOOLEAN, id : Scales \cup Transports \cup {None},
            branch : Branches \cup {None}, truck : Trucks \cup {None},
            grain : Grains \cup {None}, code : ScaleIds \cup {None}, key : Keys \cup {NoKey}]

ASSUME RegistrationConfig ==
    /\ Workloads \subseteq SUBSET Request
    /\ ScaleIds \subseteq Nat /\ Values \subseteq Nat
    /\ Normal \in [ScaleIds -> ScaleIds] /\ \A code \in ScaleIds : Normal[Normal[code]] = Normal[code]
    /\ MaxEdits \in Nat
    /\ NoKey \notin Keys
    /\ Trimmed \in [Keys -> Keys] /\ \A key \in Keys : Trimmed[Trimmed[key]] = Trimmed[key]

VARIABLES
    registry,    \* rows of branches, trucks and grain_types
    scales,      \* rows of scales
    transports,  \* rows of transport_transactions
    pc,          \* caller -> the statement it executes next, or "idle"
    call,        \* caller -> its request
    got,         \* caller -> price or key it has read
    answer,      \* what the call that ends in this step returns, or "none"
    sent,        \* the reading this step adds to the stream, or None
    calls,       \* the calls of this behaviour
    seen,        \* history: the rows that existed at some moment of its call
    edits

tables == <<registry, scales, transports>>
locals == <<pc, call, got>>
vars == <<tables, locals, answer, sent, calls, seen, edits>>

\* value is the price of a grain type or the tare of a truck.
RegistryRow == [code : Codes, value : Values, active : BOOLEAN]
ScaleRow == [code : ScaleIds, branch : Branches, key : Keys, active : BOOLEAN]
TransportRow == [branch : Branches, truck : Trucks, grain : Grains, price : Values,
                 status : {"OPEN", "CANCELLED", "WEIGHED"}]

\* The seed is what its tables admit; rows of different tables have different
\* ids, and NoRow and None are no rows and no requests.
ASSUME SeedConfig ==
    /\ SeedRegistry \in [DOMAIN SeedRegistry -> RegistryRow]
    /\ SeedScales \in [DOMAIN SeedScales -> ScaleRow]
    /\ SeedTransports \in [DOMAIN SeedTransports -> TransportRow]
    /\ NoRow \notin RegistryRow \cup ScaleRow \cup TransportRow
    /\ None \notin Request
    /\ Branches \cap Trucks = {} /\ Branches \cap Grains = {} /\ Trucks \cap Grains = {}
    /\ \A id, other \in DOMAIN SeedScales : SeedScales[id].code = SeedScales[other].code => id = other
    /\ \A id, other \in DOMAIN SeedTransports :
           SeedTransports[id].truck = SeedTransports[other].truck => id = other
    /\ \A kind \in {Branches, Trucks, Grains} : \A id, other \in kind \cap DOMAIN SeedRegistry :
           SeedRegistry[id].code = SeedRegistry[other].code => id = other

\* What the method reads is there, as the checks on blank fields leave it.
ASSUME CallConfig ==
    \A load \in Workloads : \A r \in load :
        /\ r.op \in {"CreateScale", "UpdateScale"} =>
               r.id \in Scales /\ r.branch \in Branches /\ r.code \in ScaleIds
        /\ r.op = "CreateTransport" =>
               r.id \in Transports /\ r.branch \in Branches /\ r.truck \in Trucks /\ r.grain \in Grains
        /\ r.op = "Cancel" => r.id \in Transports
        /\ r.op = "Ingest" => r.code \in ScaleIds

KindOf(id) == CHOOSE kind \in {Branches, Trucks, Grains} : id \in kind

Seeded(id, rows) == IF id \in DOMAIN rows THEN rows[id] ELSE NoRow

\* The database after cmd/seed, which writes the scale_id as it is.
Init ==
    /\ registry = [id \in Registered |-> Seeded(id, SeedRegistry)]
    /\ scales = [id \in Scales |-> Seeded(id, SeedScales)]
    /\ transports = [id \in Transports |-> Seeded(id, SeedTransports)]
    /\ pc = [c \in Callers |-> "idle"]
    /\ call = [c \in Callers |-> None]
    /\ got = [c \in Callers |-> None]
    /\ answer = "none"
    /\ sent = None
    /\ calls \in Workloads
    /\ seen = [c \in Callers |-> {}]
    /\ edits = 0

-----------------------------------------------------------------------------
(* Methods of one statement.                                               *)

\* Mutant: a code is free again when its row is inactive.
ScaleCodeIsFreeAmongActive(id, code) ==
    \A other \in Scales \ {id} :
        scales[other] # NoRow /\ scales[other].active => scales[other].code # code

\* The unique indexes on codes and plates, which count inactive rows too.
CodeIsFree(id, code) ==
    \A other \in KindOf(id) \ {id} : registry[other] # NoRow => registry[other].code # code

ScaleCodeIsFree(id, code) ==
    \A other \in Scales \ {id} : scales[other] # NoRow => scales[other].code # code

\* branchValue, truckValue, grainValue: a tare is positive; a branch has no value.
ValueIsValid(id, value) == (id \in Trucks => value > 0) /\ (id \in Branches => value = 0)

Edit == edits < MaxEdits /\ edits' = edits + 1 /\ answer' = "none"

\* CreateBranch, CreateTruck, CreateGrainType
Create(id, code, value) ==
    /\ Edit
    /\ registry[id] = NoRow /\ ValueIsValid(id, value) /\ CodeIsFree(id, code)
    /\ registry' = [registry EXCEPT ![id] = [code |-> code, value |-> value, active |-> TRUE]]
    /\ UNCHANGED <<scales, transports, locals>>

\* UpdateBranch, UpdateTruck, UpdateGrainType
Update(id, code, value) ==
    /\ Edit
    /\ registry[id] # NoRow /\ ValueIsValid(id, value) /\ CodeIsFree(id, code)
    /\ registry[id].active
    /\ registry' = [registry EXCEPT ![id] = [code |-> code, value |-> value, active |-> TRUE]]
    /\ UNCHANGED <<scales, transports, locals>>

\* DeactivateBranch, DeactivateTruck, DeactivateGrainType
Deactivate(id) ==
    /\ Edit
    /\ registry[id] # NoRow /\ registry[id].active
    /\ registry' = [registry EXCEPT ![id].active = FALSE]
    /\ UNCHANGED <<scales, transports, locals>>

DeactivateScale(id) ==
    /\ Edit
    /\ scales[id] # NoRow /\ scales[id].active
    /\ scales' = [scales EXCEPT ![id].active = FALSE]
    /\ UNCHANGED <<registry, transports, locals>>

\* Finalize closes a transport.
Weigh(id) ==
    /\ transports[id] # NoRow /\ transports[id].status = "OPEN"
    /\ transports' = [transports EXCEPT ![id].status = "WEIGHED"]
    /\ answer' = "none"
    /\ UNCHANGED <<registry, scales, locals, edits>>

-----------------------------------------------------------------------------
(* Methods of several statements.                                          *)

Return(c, kind) ==
    /\ pc' = [pc EXCEPT ![c] = "idle"]
    /\ call' = [call EXCEPT ![c] = None]
    /\ got' = [got EXCEPT ![c] = None]
    /\ answer' = kind

Goto(c, statement) ==
    /\ pc' = [pc EXCEPT ![c] = statement]
    /\ answer' = "none"
    /\ UNCHANGED call

\* The last statement took effect: its reply arrives or is lost.
Done(c) == Return(c, "ok") \/ Return(c, "error")

FirstStatement(op) ==
    CASE op \in {"CreateScale", "CreateTransport"} -> "branch"
      [] op = "UpdateScale" -> "scale"
      [] op = "Cancel" -> "transport"
      [] op = "Ingest" -> "list"

\* A method is called.  Ingest authenticates before it looks at the values.
Begin(c, r) ==
    /\ pc[c] = "idle"
    /\ r.valid \/ r.op = "Ingest"
    /\ pc' = [pc EXCEPT ![c] = FirstStatement(r.op)]
    /\ call' = [call EXCEPT ![c] = r]
    /\ answer' = "none"
    /\ UNCHANGED <<tables, got, edits>>

\* Mutant: the row is found whether it is active or not.
ActiveRowAny(id) == registry[id] # NoRow

\* GetActiveBranch, GetActiveTruck, GetActiveGrainType
ActiveRow(id) == registry[id] # NoRow /\ registry[id].active

\* GetScale of UpdateScale; the key it keeps unless a new one is given.
GetScale(c) ==
    /\ pc[c] = "scale"
    /\ IF scales[call[c].id] = NoRow THEN Return(c, "notfound")
       ELSE /\ got' = [got EXCEPT ![c] = scales[call[c].id].key]
            /\ Goto(c, "branch")
    /\ UNCHANGED <<tables, edits>>

GetActiveBranch(c) ==
    /\ pc[c] = "branch"
    /\ IF ~ActiveRow(call[c].branch) THEN Return(c, "validation")
       ELSE /\ Goto(c, IF call[c].op = "CreateTransport" THEN "truck" ELSE "write")
            /\ UNCHANGED got
    /\ UNCHANGED <<tables, edits>>

GetActiveTruck(c) ==
    /\ pc[c] = "truck"
    /\ IF ~ActiveRow(call[c].truck) THEN Return(c, "validation")
       ELSE Goto(c, "grain") /\ UNCHANGED got
    /\ UNCHANGED <<tables, edits>>

GetActiveGrainType(c) ==
    /\ pc[c] = "grain"
    /\ IF ~ActiveRow(call[c].grain) THEN Return(c, "validation")
       ELSE /\ got' = [got EXCEPT ![c] = registry[call[c].grain].value]
            /\ Goto(c, "write")
    /\ UNCHANGED <<tables, edits>>

\* hashKey wants a key; a duplicate scale_id is a conflict.
CreateScale(c) ==
    /\ pc[c] = "write" /\ call[c].op = "CreateScale"
    /\ IF call[c].key = NoKey
       THEN Return(c, "validation") /\ UNCHANGED scales
       ELSE IF scales[call[c].id] # NoRow \/ ~ScaleCodeIsFree(call[c].id, Normal[call[c].code])
       THEN Return(c, "conflict") /\ UNCHANGED scales
       ELSE /\ scales' = [scales EXCEPT ![call[c].id] =
                              [code |-> Normal[call[c].code], branch |-> call[c].branch,
                               key |-> call[c].key, active |-> TRUE]]
            /\ Done(c)
    /\ UNCHANGED <<registry, transports, edits>>

\* Mutant: without a new key, the one of another call is written.
KeptKeyAny(c) == IF call[c].key = NoKey THEN CHOOSE k \in Keys : TRUE ELSE call[c].key

KeptKey(c) == IF call[c].key = NoKey THEN got[c] ELSE call[c].key

UpdateScale(c) ==
    /\ pc[c] = "write" /\ call[c].op = "UpdateScale"
    /\ IF ~scales[call[c].id].active
       THEN Return(c, "notfound") /\ UNCHANGED scales
       ELSE IF ~ScaleCodeIsFree(call[c].id, Normal[call[c].code])
       THEN Return(c, "conflict") /\ UNCHANGED scales
       ELSE /\ scales' = [scales EXCEPT ![call[c].id] =
                              [code |-> Normal[call[c].code], branch |-> call[c].branch,
                               key |-> KeptKey(c), active |-> TRUE]]
            /\ Done(c)
    /\ UNCHANGED <<registry, transports, edits>>

\* transport_transactions_one_open_per_truck
OpenOf(r) ==
    {id \in Transports : /\ transports[id] # NoRow /\ transports[id].status = "OPEN"
                         /\ transports[id].truck = r.truck}

CreateTransportTransaction(c) ==
    /\ pc[c] = "write" /\ call[c].op = "CreateTransport"
    /\ IF transports[call[c].id] # NoRow \/ OpenOf(call[c]) # {}
       THEN Return(c, "conflict") /\ UNCHANGED transports
       ELSE /\ transports' = [transports EXCEPT ![call[c].id] =
                                  [branch |-> call[c].branch, truck |-> call[c].truck,
                                   grain |-> call[c].grain, price |-> got[c], status |-> "OPEN"]]
            /\ Done(c)
    /\ UNCHANGED <<registry, scales, edits>>

\* TransitionTransportTransaction reads the status before it cancels.
GetTransport(c) ==
    /\ pc[c] = "transport"
    /\ IF transports[call[c].id] = NoRow THEN Return(c, "notfound")
       ELSE IF transports[call[c].id].status # "OPEN" THEN Return(c, "conflict")
       ELSE Goto(c, "cancel") /\ UNCHANGED got
    /\ UNCHANGED <<tables, edits>>

\* Mutant: the UPDATE trusts the status that was read.
CancelTransportBlindly(c) ==
    /\ pc[c] = "cancel"
    /\ transports' = [transports EXCEPT ![call[c].id].status = "CANCELLED"]
    /\ Done(c)
    /\ UNCHANGED <<registry, scales, edits>>

\* UPDATE ... WHERE status = 'OPEN'; no row means somebody was faster.
CancelTransport(c) ==
    /\ pc[c] = "cancel"
    /\ IF transports[call[c].id].status # "OPEN"
       THEN Return(c, "conflict") /\ UNCHANGED transports
       ELSE /\ transports' = [transports EXCEPT ![call[c].id].status = "CANCELLED"]
            /\ Done(c)
    /\ UNCHANGED <<registry, scales, edits>>

\* The scales whose key hash matches, active or not.  The key that is hashed
\* keeps its blanks, the one that is presented loses them.
Matching(key) == {id \in Scales : scales[id] # NoRow /\ scales[id].key = Trimmed[key]}

\* Mutant: the last match is the device.
DeviceLast(key) ==
    CHOOSE id \in Matching(key) : \A other \in Matching(key) : scales[id].code >= scales[other].code

\* ListScales orders by scale_id, and the first match is the device.
Device(key) ==
    CHOOSE id \in Matching(key) : \A other \in Matching(key) : scales[id].code <= scales[other].code

\* Mutant: a disabled scale is not refused.
MayPublishDisabled(c) == scales[Device(call[c].key)].code = Normal[call[c].code]

\* The device is active and sends its own scale_id, normalized by normalizeReading.
MayPublish(c) ==
    LET device == scales[Device(call[c].key)] IN device.active /\ device.code = Normal[call[c].code]

\* authenticateScale and the checks of IngestScaleReading
Authenticate(c) ==
    /\ pc[c] = "list"
    /\ IF call[c].key = NoKey \/ Matching(call[c].key) = {} THEN Return(c, "unauthorized")
       ELSE IF scales[Device(call[c].key)].active /\ ~call[c].valid THEN Return(c, "validation")
       ELSE IF ~MayPublish(c) THEN Return(c, "forbidden")
       ELSE Goto(c, "publish") /\ UNCHANGED got
    /\ UNCHANGED <<tables, edits>>

Publish(c) ==
    /\ pc[c] = "publish"
    /\ sent' = [code |-> Normal[call[c].code], key |-> call[c].key]
    /\ Done(c)
    /\ UNCHANGED <<tables, edits>>

\* A statement fails without effect.
Fail(c) ==
    /\ pc[c] # "idle"
    /\ Return(c, "error")
    /\ UNCHANGED <<tables, edits>>

-----------------------------------------------------------------------------
Statement(c) ==
    \/ GetScale(c) \/ GetActiveBranch(c) \/ GetActiveTruck(c) \/ GetActiveGrainType(c)
    \/ CreateScale(c) \/ UpdateScale(c) \/ CreateTransportTransaction(c)
    \/ GetTransport(c) \/ CancelTransport(c)
    \/ Authenticate(c) \/ Fail(c)

Step ==
    \/ \E id \in Registered, code \in Codes, value \in Values :
           Create(id, code, value) \/ Update(id, code, value)
    \/ \E id \in Registered : Deactivate(id)
    \/ \E id \in Scales : DeactivateScale(id)
    \/ \E id \in Transports : Weigh(id)
    \/ \E c \in Callers : Statement(c) \/ \E r \in calls : Begin(c, r)

\* The rows of reg and sc that matter to the call r.
RowsOf(r, reg, sc) ==
    CASE r.op = "CreateTransport" -> {<<id, reg[id]>> : id \in {r.branch, r.truck, r.grain}}
      [] r.op = "UpdateScale" -> {<<r.id, sc[r.id]>>}
      [] r.op = "Ingest" -> {<<id, sc[id]>> : id \in {i \in Scales : sc[i] # NoRow}}
      [] OTHER -> {}

\* seen grows from the moment of the call to its return.
Observe ==
    seen' = [c \in Callers |->
        IF pc'[c] = "idle" THEN {}
        ELSE seen[c] \cup RowsOf(call'[c], registry', scales')]

Next ==
    /\ (Step /\ sent' = None) \/ \E c \in Callers : Publish(c)
    /\ Observe
    /\ UNCHANGED calls

Spec == Init /\ [][Next]_vars

-----------------------------------------------------------------------------
(***************************************************************************)
(* Every row and local has its type, and the unique indexes on codes,      *)
(* plates and OPEN transports hold whatever the calls interleave to.       *)
(***************************************************************************)
TypeOK ==
    /\ registry \in [Registered -> RegistryRow \cup {NoRow}]
    /\ scales \in [Scales -> ScaleRow \cup {NoRow}]
    /\ transports \in [Transports -> TransportRow \cup {NoRow}]
    /\ sent \in [code : ScaleIds, key : Keys] \cup {None}
    /\ pc \in [Callers -> {"idle", "scale", "branch", "truck", "grain", "write",
                           "transport", "cancel", "list", "publish"}]
    /\ call \in [Callers -> calls \cup {None}]
    /\ got \in [Callers -> Values \cup Keys \cup {None}]
    /\ edits \in 0..MaxEdits
    /\ \A id \in Registered : registry[id] # NoRow => CodeIsFree(id, registry[id].code)
    /\ \A id \in Scales : scales[id] # NoRow =>
           \A other \in Scales \ {id} : scales[other] # NoRow => scales[other].code # scales[id].code
    /\ \A id \in Transports : transports[id] # NoRow /\ transports[id].status = "OPEN" =>
           OpenOf(transports[id]) = {id}

(***************************************************************************)
(* CreateTransportTransaction: the branch, the truck and the grain type of *)
(* a new transport were each active, and its price was the price of the    *)
(* active grain type, at some moment of the call, whatever is edited       *)
(* between its statements.                                                 *)
(***************************************************************************)
SnapshotIsOfTheCall ==
    [][\A id \in Transports : transports[id] = NoRow /\ transports'[id] # NoRow =>
           LET row == transports'[id]
           IN  \E c \in Callers :
                   /\ pc[c] = "write"
                   /\ \A ref \in {row.branch, row.truck} :
                          \E r \in seen[c] : r[1] = ref /\ r[2] # NoRow /\ r[2].active
                   /\ \E r \in seen[c] :
                          r[1] = row.grain /\ r[2] # NoRow /\ r[2].active /\ r[2].value = row.price]_vars

(***************************************************************************)
(* TransitionTransportTransaction: a transport leaves OPEN once, keeps its *)
(* references and its price, and a cancellation is answered with success   *)
(* only if it is the one that closed the transport.                        *)
(***************************************************************************)
ClosedOnce ==
    [][/\ \A id \in Transports : transports[id] # NoRow =>
              /\ transports'[id] # NoRow
              /\ [transports'[id] EXCEPT !.status = "OPEN"] = [transports[id] EXCEPT !.status = "OPEN"]
              /\ transports[id].status # "OPEN" => transports'[id] = transports[id]
       /\ \A c \in Callers : pc[c] = "cancel" /\ pc'[c] = "idle" /\ answer' = "ok" =>
              /\ transports[call[c].id].status = "OPEN"
              /\ transports'[call[c].id].status = "CANCELLED"]_vars

(***************************************************************************)
(* IngestScaleReading: a reading is published only for a scale that was    *)
(* active with the sent scale_id and the presented key at some moment of   *)
(* the call; scales may be edited between ListScales and XADD.             *)
(***************************************************************************)
PublishedIsAuthorized ==
    [][\A c \in Callers : pc[c] = "publish" /\ pc'[c] = "idle" /\ sent' # None =>
           \E r \in seen[c] :
               r[2].active /\ r[2].code = sent'.code /\ r[2].key = Trimmed[sent'.key]]_vars

(***************************************************************************)
(* UpdateScale without a key keeps one: the key it writes is the given one *)
(* or one the scale had during the call, and a disabled scale is never     *)
(* written, even when it is disabled after GetScale.                       *)
(***************************************************************************)
KeyIsGivenOrKept ==
    [][\A id \in Scales : scales[id] # NoRow /\ scales'[id] # scales[id] =>
           /\ scales[id].active
           /\ scales'[id].key # scales[id].key =>
                  \E c \in Callers :
                      /\ pc[c] = "write" /\ call[c].op = "UpdateScale" /\ call[c].id = id
                      /\ IF call[c].key # NoKey THEN scales'[id].key = call[c].key
                         ELSE \E r \in seen[c] : r[1] = id /\ r[2].key = scales'[id].key]_vars

(***************************************************************************)
(* authenticateScale: an active device that sends its scale_id and its key *)
(* is refused in three cases only: its key was registered with blanks      *)
(* around it, its scale_id was not normalized (cmd/seed), or a scale that  *)
(* comes first by scale_id, possibly a disabled one, has the same key.     *)
(***************************************************************************)
RefusedForAReason ==
    [][\A c \in Callers, id \in Scales :
          /\ pc[c] = "list" /\ pc'[c] = "idle" /\ answer' \in {"unauthorized", "forbidden"}
          /\ scales[id] # NoRow /\ scales[id].active
          /\ Normal[scales[id].code] = Normal[call[c].code]
          /\ call[c].key # NoKey /\ Trimmed[scales[id].key] = Trimmed[call[c].key]
          => \/ Trimmed[scales[id].key] # scales[id].key
             \/ Normal[scales[id].code] # scales[id].code
             \/ \E other \in Matching(call[c].key) : scales[other].code < scales[id].code]_vars
=============================================================================
