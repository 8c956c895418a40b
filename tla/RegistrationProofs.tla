------------------------- MODULE RegistrationProofs -------------------------
(***************************************************************************)
(* Proofs about Registration, for any requests, rows and edits.  The       *)
(* inductive invariant says that the tables keep their types and unique    *)
(* indexes (Tables), and what a call knows at each of its statements: that *)
(* what it has read was so at some moment since it began (Knows).          *)
(***************************************************************************)
EXTENDS Registration, WellFoundedInduction, TLAPS

Pcs == {"idle", "scale", "branch", "truck", "grain", "write",
        "transport", "cancel", "list", "publish"}

Typed ==
    /\ registry \in [Registered -> RegistryRow \cup {NoRow}]
    /\ scales \in [Scales -> ScaleRow \cup {NoRow}]
    /\ transports \in [Transports -> TransportRow \cup {NoRow}]

UniqueCodes == \A id \in Registered : registry[id] # NoRow => CodeIsFree(id, registry[id].code)
UniqueScales == \A id \in Scales : scales[id] # NoRow => ScaleCodeIsFree(id, scales[id].code)
OneOpen ==
    \A id \in Transports : transports[id] # NoRow /\ transports[id].status = "OPEN" =>
        OpenOf(transports[id]) = {id}

Tables == Typed /\ UniqueCodes /\ UniqueScales /\ OneOpen

Locals ==
    /\ calls \in Workloads
    /\ sent \in [code : ScaleIds, key : Keys] \cup {None}
    /\ pc \in [Callers -> Pcs]
    /\ call \in [Callers -> calls \cup {None}]
    /\ got \in [Callers -> Values \cup Keys \cup {None}]
    /\ edits \in 0..MaxEdits

\* Which method is at which statement.
OpAt(statement, op) ==
    /\ statement \in {"truck", "grain"} => op = "CreateTransport"
    /\ statement = "scale" => op = "UpdateScale"
    /\ statement \in {"transport", "cancel"} => op = "Cancel"
    /\ statement \in {"list", "publish"} => op = "Ingest"
    /\ op # "CreateTransport" \/ statement \in {"branch", "truck", "grain", "write"}
    /\ op # "UpdateScale" \/ statement \in {"scale", "branch", "write"}

SeenActive(c, id) == \E r \in seen[c] : r[1] = id /\ r[2] # NoRow /\ r[2].active

SeenPrice(c) ==
    \E r \in seen[c] : r[1] = call[c].grain /\ r[2] # NoRow /\ r[2].active /\ r[2].value = got[c]

SeenKey(c) == \E r \in seen[c] : r[1] = call[c].id /\ r[2].key = got[c]

SeenDevice(c) ==
    \E r \in seen[c] :
        r[2].active /\ r[2].code = Normal[call[c].code] /\ r[2].key = Trimmed[call[c].key]

\* What a call knows before it executes a statement.
KnowsAt(c, statement, op) ==
    /\ op = "CreateTransport" =>
           /\ statement \in {"truck", "grain", "write"} => SeenActive(c, call[c].branch)
           /\ statement \in {"grain", "write"} => SeenActive(c, call[c].truck)
           /\ statement = "write" => SeenPrice(c) /\ got[c] \in Values
    /\ op = "UpdateScale" /\ statement \in {"branch", "write"} =>
           SeenKey(c) /\ got[c] \in Keys /\ scales[call[c].id] # NoRow
    /\ statement = "cancel" => transports[call[c].id] # NoRow
    /\ statement = "publish" => SeenDevice(c) /\ call[c].key \in Keys

Knows(c) ==
    pc[c] # "idle" =>
        /\ call[c] \in calls
        /\ RowsOf(call[c], registry, scales) \subseteq seen[c]
        /\ OpAt(pc[c], call[c].op)
        /\ KnowsAt(c, pc[c], call[c].op)

RInv == Tables /\ Locals /\ \A c \in Callers : Knows(c)

-----------------------------------------------------------------------------
(* Calls.                                                                  *)

\* A call of a workload has what its method reads.
LEMMA CallIsWhole ==
    ASSUME calls \in Workloads, NEW r \in calls
    PROVE  /\ r \in Request /\ r # None
           /\ r.op \in {"CreateScale", "UpdateScale"} =>
                  r.id \in Scales /\ r.branch \in Branches /\ r.code \in ScaleIds
           /\ r.op = "CreateTransport" =>
                  r.id \in Transports /\ r.branch \in Branches /\ r.truck \in Trucks /\ r.grain \in Grains
           /\ r.op = "Cancel" => r.id \in Transports
           /\ r.op = "Ingest" => r.code \in ScaleIds
           /\ r.op \in Ops /\ r.key \in Keys \cup {NoKey}
<1>1. r \in Request
  BY RegistrationConfig DEF RegistrationConfig
<1>2. r # None
  BY <1>1, SeedConfig DEF SeedConfig
<1>3. r.op \in Ops /\ r.key \in Keys \cup {NoKey}
  BY <1>1 DEF Request
<1> QED
  BY <1>1, <1>2, <1>3, CallConfig DEF CallConfig

\* What a call has seen is not forgotten while it goes on.
LEMMA SeenGrows ==
    ASSUME Observe, NEW c \in Callers, pc'[c] # "idle"
    PROVE  seen'[c] = seen[c] \cup RowsOf(call'[c], registry', scales')
BY DEF Observe

\* No step of the service deletes a row.
RowsStay ==
    /\ \A id \in Scales : scales[id] # NoRow => scales'[id] # NoRow
    /\ \A id \in Transports : transports[id] # NoRow => transports'[id] # NoRow

\* Callers that do not move know what they knew.
LEMMA OthersKnow ==
    ASSUME RInv, Observe, calls' = calls, RowsStay, NEW u \in Callers,
           pc'[u] = pc[u], call'[u] = call[u], got'[u] = got[u]
    PROVE  Knows(u)'
<1> SUFFICES ASSUME pc'[u] # "idle" PROVE /\ call'[u] \in calls'
                                          /\ RowsOf(call'[u], registry', scales') \subseteq seen'[u]
                                          /\ OpAt(pc'[u], call'[u].op)
                                          /\ KnowsAt(u, pc[u], call[u].op)'
  BY DEF Knows
<1>1. /\ call[u] \in calls /\ OpAt(pc[u], call[u].op) /\ KnowsAt(u, pc[u], call[u].op)
  BY DEF RInv, Knows
<1>2. seen[u] \subseteq seen'[u] /\ RowsOf(call'[u], registry', scales') \subseteq seen'[u]
  BY SeenGrows
<1>3. \A id : SeenActive(u, id) => \E r \in seen'[u] : r[1] = id /\ r[2] # NoRow /\ r[2].active
  BY <1>2 DEF SeenActive
<1>4. SeenPrice(u) => SeenPrice(u)'
  BY <1>2 DEF SeenPrice
<1>5. SeenKey(u) => SeenKey(u)'
  BY <1>2 DEF SeenKey
<1>6. SeenDevice(u) => SeenDevice(u)'
  BY <1>2 DEF SeenDevice
<1>7. pc[u] = "cancel" => transports'[call[u].id] # NoRow
  <2>1. pc[u] = "cancel" => call[u].op = "Cancel"
    BY <1>1 DEF OpAt
  <2>2. pc[u] = "cancel" => call[u].id \in Transports
    BY <2>1, <1>1, CallIsWhole DEF RInv, Locals
  <2> QED
    BY <2>2, <1>1 DEF KnowsAt, RowsStay
<1>8. call[u].op = "UpdateScale" /\ pc[u] \in {"branch", "write"} => scales'[call[u].id] # NoRow
  <2>1. call[u].op = "UpdateScale" => call[u].id \in Scales
    BY <1>1, CallIsWhole DEF RInv, Locals
  <2> QED
    BY <2>1, <1>1 DEF KnowsAt, RowsStay
<1>9. KnowsAt(u, pc[u], call[u].op)'
  BY <1>1, <1>3, <1>4, <1>5, <1>6, <1>7, <1>8 DEF KnowsAt, SeenActive
<1> QED
  BY <1>1, <1>2, <1>9

-----------------------------------------------------------------------------
(* How a step moves a call.                                                *)

LEMMA TablesStay ==
    ASSUME Tables, UNCHANGED tables
    PROVE  Tables' /\ RowsStay
<1>1. registry' = registry /\ scales' = scales /\ transports' = transports
  BY DEF tables
<1> QED
  BY <1>1 DEF Tables, Typed, UniqueCodes, UniqueScales, OneOpen, CodeIsFree, ScaleCodeIsFree,
              OpenOf, RowsStay

\* Nobody's call moves.
LEMMA EditStep ==
    ASSUME RInv, Observe, calls' = calls, sent' = None, UNCHANGED locals,
           edits' \in 0..MaxEdits, Tables', RowsStay
    PROVE  RInv'
<1>1. pc' = pc /\ call' = call /\ got' = got
  BY DEF locals
<1>2. Locals'
  BY <1>1 DEF RInv, Locals
<1>3. \A u \in Callers : Knows(u)'
  BY <1>1, OthersKnow
<1> QED
  BY <1>2, <1>3 DEF RInv

\* A call comes to a statement, or returns.
LEMMA CallStep ==
    ASSUME RInv, Observe, calls' = calls, NEW c \in Callers,
           sent' \in [code : ScaleIds, key : Keys] \cup {None}, edits' = edits,
           NEW p \in Pcs, pc' = [pc EXCEPT ![c] = p],
           NEW r \in calls \cup {None}, call' = [call EXCEPT ![c] = r],
           NEW g \in Values \cup Keys \cup {None}, got' = [got EXCEPT ![c] = g],
           Tables', RowsStay,
           p # "idle" => r \in calls /\ OpAt(p, r.op) /\ KnowsAt(c, p, r.op)'
    PROVE  RInv'
<1>1. Locals'
  BY DEF RInv, Locals
<1>2. pc'[c] = p /\ call'[c] = r
  BY DEF RInv, Locals
<1>3. Knows(c)'
  BY <1>2, SeenGrows DEF Knows
<1>4. ASSUME NEW u \in Callers, u # c PROVE Knows(u)'
  <2>1. pc'[u] = pc[u] /\ call'[u] = call[u] /\ got'[u] = got[u]
    BY <1>4 DEF RInv, Locals
  <2> QED
    BY <2>1, OthersKnow
<1> QED
  BY <1>1, <1>3, <1>4 DEF RInv

LEMMA ReturnStep ==
    ASSUME RInv, Observe, calls' = calls, NEW c \in Callers, NEW kind, Return(c, kind),
           sent' \in [code : ScaleIds, key : Keys] \cup {None}, edits' = edits,
           Tables', RowsStay
    PROVE  RInv'
BY CallStep DEF Return, Pcs

\* A statement that reads.
LEMMA GotoStep ==
    ASSUME RInv, Observe, calls' = calls, NEW c \in Callers, pc[c] # "idle",
           NEW p \in Pcs, Goto(c, p),
           NEW g \in Values \cup Keys \cup {None}, got' = [got EXCEPT ![c] = g],
           sent' = None, UNCHANGED <<tables, edits>>,
           OpAt(p, call[c].op), KnowsAt(c, p, call[c].op)'
    PROVE  RInv'
<1>1. Tables' /\ RowsStay
  BY TablesStay DEF RInv
<1>2. PICK r \in calls : call[c] = r
  BY DEF RInv, Knows
<1>3. call' = [call EXCEPT ![c] = r] /\ call'[c] = r
  BY <1>2 DEF Goto, RInv, Locals
<1>4. pc' = [pc EXCEPT ![c] = p]
  BY DEF Goto
<1>5. OpAt(p, r.op)
  BY <1>2
<1>6. KnowsAt(c, p, r.op)'
  BY <1>3 DEF KnowsAt
<1> QED
  BY <1>1, <1>3, <1>4, <1>5, <1>6, CallStep

-----------------------------------------------------------------------------
(* Rows that are written.                                                  *)

LEMMA KindSymmetric ==
    ASSUME NEW id \in Registered, NEW other \in Registered, other \in KindOf(id)
    PROVE  id \in KindOf(other) /\ KindOf(other) = KindOf(id)
<1>1. /\ id \in Branches => KindOf(id) = Branches
      /\ id \in Trucks => KindOf(id) = Trucks
      /\ id \in Grains => KindOf(id) = Grains
  BY SeedConfig DEF SeedConfig, KindOf
<1>2. /\ other \in Branches => KindOf(other) = Branches
      /\ other \in Trucks => KindOf(other) = Trucks
      /\ other \in Grains => KindOf(other) = Grains
  BY SeedConfig DEF SeedConfig, KindOf
<1> QED
  BY <1>1, <1>2 DEF Registered

LEMMA RegistryWrite ==
    ASSUME Tables, NEW id \in Registered, NEW row \in RegistryRow,
           registry' = [registry EXCEPT ![id] = row], CodeIsFree(id, row.code),
           UNCHANGED <<scales, transports>>
    PROVE  Tables' /\ RowsStay
<1>1. Typed' /\ RowsStay
  BY DEF Tables, Typed, RowsStay
<1>2. UniqueScales' /\ OneOpen'
  BY DEF Tables, UniqueScales, OneOpen, ScaleCodeIsFree, OpenOf
<1>3. registry'[id] = row /\ \A other \in Registered : other # id => registry'[other] = registry[other]
  BY DEF Tables, Typed
<1>4. \A any \in Registered : KindOf(any) \subseteq Registered
  BY SeedConfig DEF SeedConfig, KindOf, Registered
<1>5. ASSUME NEW one \in Registered, registry'[one] # NoRow,
             NEW two \in KindOf(one) \ {one}, registry'[two] # NoRow
      PROVE  registry'[two].code # registry'[one].code
  <2>1. two \in Registered /\ one \in KindOf(two)
    BY <1>4, KindSymmetric
  <2>2. CASE one = id
    BY <2>1, <2>2, <1>3, <1>5 DEF CodeIsFree
  <2>3. CASE two = id
    BY <2>1, <2>3, <1>3, <1>5 DEF CodeIsFree
  <2>4. CASE one # id /\ two # id
    BY <2>1, <2>4, <1>3, <1>5 DEF CodeIsFree, Tables, UniqueCodes
  <2> QED
    BY <2>2, <2>3, <2>4
<1>6. UniqueCodes'
  BY <1>5 DEF UniqueCodes, CodeIsFree
<1> QED
  BY <1>1, <1>2, <1>6 DEF Tables

LEMMA ScaleWrite ==
    ASSUME Tables, NEW id \in Scales, NEW row \in ScaleRow,
           scales' = [scales EXCEPT ![id] = row], ScaleCodeIsFree(id, row.code),
           UNCHANGED <<registry, transports>>
    PROVE  Tables' /\ RowsStay
<1>0. row # NoRow
  BY SeedConfig DEF SeedConfig
<1>1. scales'[id] = row /\ \A other \in Scales : other # id => scales'[other] = scales[other]
  BY DEF Tables, Typed
<1>2. Typed' /\ RowsStay
  BY <1>0, <1>1 DEF Tables, Typed, RowsStay
<1>3. UniqueCodes' /\ OneOpen'
  BY DEF Tables, UniqueCodes, OneOpen, CodeIsFree, OpenOf
<1>4. ASSUME NEW one \in Scales, scales'[one] # NoRow,
             NEW two \in Scales \ {one}, scales'[two] # NoRow
      PROVE  scales'[two].code # scales'[one].code
  <2>1. CASE one = id
    BY <2>1, <1>1, <1>4 DEF ScaleCodeIsFree
  <2>2. CASE two = id
    BY <2>2, <1>1, <1>4 DEF ScaleCodeIsFree
  <2>3. CASE one # id /\ two # id
    BY <2>3, <1>1, <1>4 DEF ScaleCodeIsFree, Tables, UniqueScales
  <2> QED
    BY <2>1, <2>2, <2>3
<1>5. UniqueScales'
  BY <1>4 DEF UniqueScales, ScaleCodeIsFree
<1> QED
  BY <1>2, <1>3, <1>5 DEF Tables

LEMMA TransportWrite ==
    ASSUME Tables, NEW id \in Transports, NEW row \in TransportRow,
           transports' = [transports EXCEPT ![id] = row],
           row.status = "OPEN" => OpenOf(row) = {},
           UNCHANGED <<registry, scales>>
    PROVE  Tables' /\ RowsStay
<1>0. row # NoRow
  BY SeedConfig DEF SeedConfig
<1>1. /\ transports'[id] = row
      /\ \A other \in Transports : other # id => transports'[other] = transports[other]
  BY DEF Tables, Typed
<1>2. Typed' /\ RowsStay
  BY <1>0, <1>1 DEF Tables, Typed, RowsStay
<1>3. UniqueCodes' /\ UniqueScales'
  BY DEF Tables, UniqueCodes, UniqueScales, CodeIsFree, ScaleCodeIsFree
<1>4. ASSUME NEW one \in Transports, transports'[one] # NoRow, transports'[one].status = "OPEN",
             NEW two \in Transports, transports'[two] # NoRow, transports'[two].status = "OPEN",
             transports'[two].truck = transports'[one].truck
      PROVE  two = one
  <2>1. CASE one = id /\ two # id
    BY <2>1, <1>1, <1>4 DEF OpenOf
  <2>2. CASE two = id /\ one # id
    BY <2>2, <1>1, <1>4 DEF OpenOf
  <2>3. CASE one # id /\ two # id
    <3>1. two \in OpenOf(transports[one]) /\ OpenOf(transports[one]) = {one}
      BY <2>3, <1>1, <1>4 DEF OpenOf, Tables, OneOpen
    <3> QED
      BY <3>1
  <2> QED
    BY <2>1, <2>2, <2>3
<1>5. OneOpen'
  BY <1>4 DEF OneOpen, OpenOf
<1> QED
  BY <1>2, <1>3, <1>5 DEF Tables

-----------------------------------------------------------------------------
(* Methods of one statement.                                               *)

LEMMA EditBounded == RInv /\ Edit => edits' \in 0..MaxEdits
<1> SUFFICES ASSUME RInv, Edit PROVE edits' \in 0..MaxEdits
  OBVIOUS
<1>1. MaxEdits \in Nat /\ edits \in 0..MaxEdits
  BY RegistrationConfig DEF RegistrationConfig, RInv, Locals
<1> QED
  BY <1>1 DEF Edit

LEMMA RegistryStep ==
    ASSUME RInv, Observe, calls' = calls, sent' = None,
           NEW id \in Registered, NEW code \in Codes, NEW value \in Values,
           Create(id, code, value) \/ Update(id, code, value)
    PROVE  RInv'
<1> DEFINE row == [code |-> code, value |-> value, active |-> TRUE]
<1>1. /\ registry' = [registry EXCEPT ![id] = row] /\ CodeIsFree(id, code) /\ Edit
      /\ UNCHANGED <<scales, transports, locals>>
  BY DEF Create, Update
<1>2. row \in RegistryRow /\ row.code = code
  BY DEF RegistryRow
<1> HIDE DEF row
<1>3. Tables' /\ RowsStay
  BY <1>1, <1>2, RegistryWrite DEF RInv
<1> QED
  BY <1>1, <1>3, EditBounded, EditStep

LEMMA DeactivateStep ==
    ASSUME RInv, Observe, calls' = calls, sent' = None, NEW id \in Registered, Deactivate(id)
    PROVE  RInv'
<1> DEFINE row == [registry[id] EXCEPT !.active = FALSE]
<1>1. /\ registry' = [registry EXCEPT ![id] = row] /\ registry[id] # NoRow /\ Edit
      /\ UNCHANGED <<scales, transports, locals>>
  BY DEF Deactivate
<1>2. registry[id] \in RegistryRow
  BY <1>1 DEF RInv, Tables, Typed
<1>3. row \in RegistryRow /\ row.code = registry[id].code
  BY <1>2 DEF RegistryRow
<1>4. CodeIsFree(id, registry[id].code)
  BY <1>1 DEF RInv, Tables, UniqueCodes
<1> HIDE DEF row
<1>5. Tables' /\ RowsStay
  BY <1>1, <1>3, <1>4, RegistryWrite DEF RInv
<1> QED
  BY <1>1, <1>5, EditBounded, EditStep

LEMMA DeactivateScaleStep ==
    ASSUME RInv, Observe, calls' = calls, sent' = None, NEW id \in Scales, DeactivateScale(id)
    PROVE  RInv'
<1> DEFINE row == [scales[id] EXCEPT !.active = FALSE]
<1>1. /\ scales' = [scales EXCEPT ![id] = row] /\ scales[id] # NoRow /\ Edit
      /\ UNCHANGED <<registry, transports, locals>>
  BY DEF DeactivateScale
<1>2. scales[id] \in ScaleRow
  BY <1>1 DEF RInv, Tables, Typed
<1>3. row \in ScaleRow /\ row.code = scales[id].code
  BY <1>2 DEF ScaleRow
<1>4. ScaleCodeIsFree(id, scales[id].code)
  BY <1>1 DEF RInv, Tables, UniqueScales
<1> HIDE DEF row
<1>5. Tables' /\ RowsStay
  BY <1>1, <1>3, <1>4, ScaleWrite DEF RInv
<1> QED
  BY <1>1, <1>5, EditBounded, EditStep

LEMMA WeighStep ==
    ASSUME RInv, Observe, calls' = calls, sent' = None, NEW id \in Transports, Weigh(id)
    PROVE  RInv'
<1> DEFINE row == [transports[id] EXCEPT !.status = "WEIGHED"]
<1>1. /\ transports' = [transports EXCEPT ![id] = row] /\ transports[id] # NoRow
      /\ UNCHANGED <<registry, scales, locals, edits>>
  BY DEF Weigh
<1>2. transports[id] \in TransportRow
  BY <1>1 DEF RInv, Tables, Typed
<1>3. row \in TransportRow /\ row.status # "OPEN"
  BY <1>2 DEF TransportRow
<1> HIDE DEF row
<1>4. Tables' /\ RowsStay
  BY <1>1, <1>3, TransportWrite DEF RInv
<1>5. edits' \in 0..MaxEdits
  BY <1>1 DEF RInv, Locals
<1> QED
  BY <1>1, <1>4, <1>5, EditStep

-----------------------------------------------------------------------------
(* Methods of several statements.                                          *)

LEMMA BeginStep ==
    ASSUME RInv, Observe, calls' = calls, sent' = None,
           NEW c \in Callers, NEW r \in calls, Begin(c, r)
    PROVE  RInv'
<1> DEFINE p == FirstStatement(r.op)
<1>1. r.op \in Ops
  BY CallIsWhole DEF RInv, Locals
<1>2. p \in Pcs /\ OpAt(p, r.op) /\ p \in {"branch", "scale", "transport", "list"}
      /\ (r.op = "UpdateScale" => p = "scale") /\ (r.op = "CreateTransport" => p = "branch")
  BY <1>1 DEF FirstStatement, Pcs, OpAt, Ops
<1>3. KnowsAt(c, p, r.op)'
  BY <1>2 DEF KnowsAt
<1>4. /\ pc' = [pc EXCEPT ![c] = p] /\ call' = [call EXCEPT ![c] = r] /\ got' = got
      /\ UNCHANGED tables /\ edits' = edits
  BY DEF Begin
<1>5. got' = [got EXCEPT ![c] = got[c]] /\ got[c] \in Values \cup Keys \cup {None}
  BY <1>4 DEF RInv, Locals
<1>6. Tables' /\ RowsStay
  BY <1>4, TablesStay DEF RInv
<1> HIDE DEF p
<1> QED
  BY <1>2, <1>3, <1>4, <1>5, <1>6, CallStep

\* A call that ends without a write.
LEMMA RefusalStep ==
    ASSUME RInv, Observe, calls' = calls, sent' = None,
           NEW c \in Callers, NEW kind, Return(c, kind), UNCHANGED <<tables, edits>>
    PROVE  RInv'
<1>1. Tables' /\ RowsStay
  BY TablesStay DEF RInv
<1> QED
  BY <1>1, ReturnStep

\* The rows a call reads are among those it has seen.
LEMMA ReadsSeen ==
    ASSUME RInv, Observe, NEW c \in Callers, pc[c] # "idle", pc'[c] # "idle"
    PROVE  /\ seen[c] \subseteq seen'[c]
           /\ RowsOf(call[c], registry, scales) \subseteq seen'[c]
           /\ call[c] \in calls /\ OpAt(pc[c], call[c].op) /\ KnowsAt(c, pc[c], call[c].op)
BY SeenGrows DEF RInv, Knows

LEMMA GetScaleStep ==
    ASSUME RInv, Observe, calls' = calls, sent' = None, NEW c \in Callers, GetScale(c)
    PROVE  RInv'
<1>0. UNCHANGED <<tables, edits>> /\ pc[c] = "scale"
  BY DEF GetScale
<1>1. CASE scales[call[c].id] = NoRow
  BY <1>1, <1>0, RefusalStep DEF GetScale
<1>2. CASE scales[call[c].id] # NoRow
  <2>1. got' = [got EXCEPT ![c] = scales[call[c].id].key] /\ Goto(c, "branch")
    BY <1>2 DEF GetScale
  <2>2. pc'[c] = "branch" /\ call' = call /\ got'[c] = scales[call[c].id].key /\ scales' = scales
    BY <2>1, <1>0 DEF Goto, RInv, Locals, tables
  <2>3. call[c] \in calls /\ call[c].op = "UpdateScale"
    BY <1>0, <2>2, ReadsSeen DEF OpAt
  <2>4. call[c].id \in Scales
    BY <2>3, CallIsWhole DEF RInv, Locals
  <2>5. scales[call[c].id].key \in Keys
    BY <1>2, <2>4 DEF RInv, Tables, Typed, ScaleRow
  <2>6. <<call[c].id, scales[call[c].id]>> \in seen'[c]
    BY <1>0, <2>2, <2>3, ReadsSeen DEF RowsOf
  <2>7. SeenKey(c)'
    BY <2>2, <2>6 DEF SeenKey
  <2>8. KnowsAt(c, "branch", call[c].op)'
    BY <2>2, <2>3, <2>5, <2>7, <1>2 DEF KnowsAt
  <2>9. OpAt("branch", call[c].op)
    BY <2>3 DEF OpAt
  <2> QED
    BY <1>0, <2>1, <2>5, <2>8, <2>9, GotoStep DEF Pcs
<1> QED
  BY <1>1, <1>2

\* A statement that leaves got alone.
LEMMA KeepGot ==
    ASSUME RInv, NEW c \in Callers, got' = got
    PROVE  got' = [got EXCEPT ![c] = got[c]] /\ got[c] \in Values \cup Keys \cup {None}
BY DEF RInv, Locals

\* An active row of the call is seen.
LEMMA ActiveSeen ==
    ASSUME RInv, Observe, NEW c \in Callers, pc[c] # "idle", pc'[c] # "idle", call' = call,
           call[c].op = "CreateTransport",
           NEW id \in {call[c].branch, call[c].truck, call[c].grain}, ActiveRow(id)
    PROVE  SeenActive(c, id)'
<1>1. <<id, registry[id]>> \in seen'[c]
  BY ReadsSeen DEF RowsOf
<1>2. registry[id] # NoRow /\ registry[id].active
  BY DEF ActiveRow
<1> QED
  BY <1>1, <1>2 DEF SeenActive

LEMMA GetActiveBranchStep ==
    ASSUME RInv, Observe, calls' = calls, sent' = None, NEW c \in Callers, GetActiveBranch(c)
    PROVE  RInv'
<1>0. UNCHANGED <<tables, edits>> /\ pc[c] = "branch"
  BY DEF GetActiveBranch
<1>1. CASE ~ActiveRow(call[c].branch)
  BY <1>1, <1>0, RefusalStep DEF GetActiveBranch
<1>2. CASE ActiveRow(call[c].branch)
  <2>0. PICK p \in {"truck", "write"} : p = IF call[c].op = "CreateTransport" THEN "truck" ELSE "write"
    OBVIOUS
  <2>1. Goto(c, p) /\ got' = got
    BY <1>2, <2>0 DEF GetActiveBranch
  <2>2. pc'[c] = p /\ call' = call /\ scales' = scales
    BY <2>1, <1>0 DEF Goto, RInv, Locals, tables
  <2>3. pc[c] # "idle" /\ pc'[c] # "idle" /\ p \in {"truck", "write"} /\ p \in Pcs
    BY <1>0, <2>2 DEF Pcs
  <2>4. /\ seen[c] \subseteq seen'[c] /\ OpAt("branch", call[c].op)
        /\ KnowsAt(c, "branch", call[c].op)
    BY <1>0, <2>3, ReadsSeen
  <2>5. call[c].op = "CreateTransport" => p = "truck" /\ SeenActive(c, call[c].branch)'
    BY <1>2, <2>0, <2>2, <2>3, ActiveSeen
  <2>6. SeenKey(c) => SeenKey(c)'
    BY <2>1, <2>2, <2>4 DEF SeenKey
  <2>7. call[c].op = "UpdateScale" =>
            SeenKey(c)' /\ got'[c] \in Keys /\ scales'[call'[c].id] # NoRow
    BY <2>1, <2>2, <2>4, <2>6 DEF KnowsAt
  <2>8. OpAt(p, call[c].op)
    BY <2>0, <2>4 DEF OpAt
  <2>9. p = "write" => call[c].op # "CreateTransport"
    BY <2>0
  <2>10. KnowsAt(c, p, call[c].op)'
    BY <2>2, <2>3, <2>5, <2>7, <2>9 DEF KnowsAt, SeenActive
  <2> QED
    BY <1>0, <2>1, <2>3, <2>8, <2>10, KeepGot, GotoStep
<1> QED
  BY <1>1, <1>2

LEMMA GetActiveTruckStep ==
    ASSUME RInv, Observe, calls' = calls, sent' = None, NEW c \in Callers, GetActiveTruck(c)
    PROVE  RInv'
<1>0. UNCHANGED <<tables, edits>> /\ pc[c] = "truck"
  BY DEF GetActiveTruck
<1>1. CASE ~ActiveRow(call[c].truck)
  BY <1>1, <1>0, RefusalStep DEF GetActiveTruck
<1>2. CASE ActiveRow(call[c].truck)
  <2>1. Goto(c, "grain") /\ got' = got
    BY <1>2 DEF GetActiveTruck
  <2>2. pc'[c] = "grain" /\ call' = call
    BY <2>1 DEF Goto, RInv, Locals
  <2>3. pc[c] # "idle" /\ pc'[c] # "idle"
    BY <1>0, <2>2
  <2>4. /\ seen[c] \subseteq seen'[c] /\ OpAt("truck", call[c].op)
        /\ KnowsAt(c, "truck", call[c].op)
    BY <1>0, <2>3, ReadsSeen
  <2>5. call[c].op = "CreateTransport"
    BY <2>4 DEF OpAt
  <2>6. SeenActive(c, call[c].branch)'
    BY <2>2, <2>4, <2>5 DEF KnowsAt, SeenActive
  <2>7. SeenActive(c, call[c].truck)'
    BY <1>2, <2>2, <2>3, <2>5, ActiveSeen
  <2>8. OpAt("grain", call[c].op) /\ KnowsAt(c, "grain", call[c].op)'
    BY <2>2, <2>5, <2>6, <2>7 DEF OpAt, KnowsAt, SeenActive
  <2> QED
    BY <1>0, <2>1, <2>8, KeepGot, GotoStep DEF Pcs
<1> QED
  BY <1>1, <1>2

LEMMA GetActiveGrainTypeStep ==
    ASSUME RInv, Observe, calls' = calls, sent' = None, NEW c \in Callers, GetActiveGrainType(c)
    PROVE  RInv'
<1>0. UNCHANGED <<tables, edits>> /\ pc[c] = "grain"
  BY DEF GetActiveGrainType
<1>1. CASE ~ActiveRow(call[c].grain)
  BY <1>1, <1>0, RefusalStep DEF GetActiveGrainType
<1>2. CASE ActiveRow(call[c].grain)
  <2>1. Goto(c, "write") /\ got' = [got EXCEPT ![c] = registry[call[c].grain].value]
    BY <1>2 DEF GetActiveGrainType
  <2>2. pc'[c] = "write" /\ call' = call /\ got'[c] = registry[call[c].grain].value
    BY <2>1 DEF Goto, RInv, Locals
  <2>3. pc[c] # "idle" /\ pc'[c] # "idle"
    BY <1>0, <2>2
  <2>4. /\ seen[c] \subseteq seen'[c] /\ OpAt("grain", call[c].op) /\ call[c] \in calls
        /\ KnowsAt(c, "grain", call[c].op) /\ RowsOf(call[c], registry, scales) \subseteq seen'[c]
    BY <1>0, <2>3, ReadsSeen
  <2>5. call[c].op = "CreateTransport"
    BY <2>4 DEF OpAt
  <2>6. SeenActive(c, call[c].branch)' /\ SeenActive(c, call[c].truck)'
    BY <2>2, <2>4, <2>5 DEF KnowsAt, SeenActive
  <2>7. call[c].grain \in Registered
    BY <2>4, <2>5, CallIsWhole DEF RInv, Locals, Registered
  <2>8. registry[call[c].grain].value \in Values
    BY <1>2, <2>7 DEF ActiveRow, RInv, Tables, Typed, RegistryRow
  <2>9. <<call[c].grain, registry[call[c].grain]>> \in seen'[c]
    BY <2>4, <2>5 DEF RowsOf
  <2>10. SeenPrice(c)'
    BY <1>2, <2>2, <2>9 DEF SeenPrice, ActiveRow
  <2>11. OpAt("write", call[c].op) /\ KnowsAt(c, "write", call[c].op)'
    BY <2>2, <2>5, <2>6, <2>8, <2>10 DEF OpAt, KnowsAt, SeenActive
  <2> QED
    BY <1>0, <2>1, <2>8, <2>11, GotoStep DEF Pcs
<1> QED
  BY <1>1, <1>2

LEMMA GetTransportStep ==
    ASSUME RInv, Observe, calls' = calls, sent' = None, NEW c \in Callers, GetTransport(c)
    PROVE  RInv'
<1>0. UNCHANGED <<tables, edits>> /\ pc[c] = "transport"
  BY DEF GetTransport
<1>1. CASE transports[call[c].id] = NoRow
  BY <1>1, <1>0, RefusalStep DEF GetTransport
<1>2. CASE transports[call[c].id] # NoRow /\ transports[call[c].id].status # "OPEN"
  BY <1>2, <1>0, RefusalStep DEF GetTransport
<1>3. CASE transports[call[c].id] # NoRow /\ transports[call[c].id].status = "OPEN"
  <2>1. Goto(c, "cancel") /\ got' = got
    BY <1>3 DEF GetTransport
  <2>2. pc'[c] = "cancel" /\ call' = call /\ transports' = transports
    BY <2>1, <1>0 DEF Goto, RInv, Locals, tables
  <2>3. OpAt("transport", call[c].op)
    BY <1>0, <2>2, ReadsSeen
  <2>4. call[c].op = "Cancel"
    <3>1. call[c] \in calls
      BY <1>0, <2>2, ReadsSeen
    <3> QED
      BY <2>3 DEF OpAt
  <2>5. OpAt("cancel", call[c].op) /\ KnowsAt(c, "cancel", call[c].op)'
    BY <1>3, <2>2, <2>4 DEF OpAt, KnowsAt
  <2> QED
    BY <1>0, <2>1, <2>5, KeepGot, GotoStep DEF Pcs
<1> QED
  BY <1>1, <1>2, <1>3

\* A call that ends with a write.
LEMMA WriteStep ==
    ASSUME RInv, Observe, calls' = calls, NEW c \in Callers, Done(c),
           sent' \in [code : ScaleIds, key : Keys] \cup {None}, edits' = edits, Tables', RowsStay
    PROVE  RInv'
BY ReturnStep DEF Done

\* The call of a caller that is in a method.
LEMMA CallAt ==
    ASSUME RInv, NEW c \in Callers, pc[c] # "idle"
    PROVE  /\ call[c] \in calls /\ call[c].op \in Ops /\ call[c].key \in Keys \cup {NoKey}
           /\ OpAt(pc[c], call[c].op) /\ KnowsAt(c, pc[c], call[c].op)
<1>1. call[c] \in calls /\ OpAt(pc[c], call[c].op) /\ KnowsAt(c, pc[c], call[c].op)
  BY DEF RInv, Knows
<1> QED
  BY <1>1, CallIsWhole DEF RInv, Locals

LEMMA CodeIsNormal ==
    ASSUME NEW code \in ScaleIds
    PROVE  Normal[code] \in ScaleIds
BY RegistrationConfig DEF RegistrationConfig

LEMMA CreateScaleStep ==
    ASSUME RInv, Observe, calls' = calls, sent' = None, NEW c \in Callers, CreateScale(c)
    PROVE  RInv'
<1>0. UNCHANGED <<registry, transports, edits>> /\ pc[c] = "write" /\ call[c].op = "CreateScale"
  BY DEF CreateScale
<1>1. CASE \E kind \in {"validation", "conflict"} : Return(c, kind) /\ scales' = scales
  BY <1>0, <1>1, RefusalStep DEF tables
<1>2. CASE ~ \E kind \in {"validation", "conflict"} : Return(c, kind) /\ scales' = scales
  <2> DEFINE row == [code |-> Normal[call[c].code], branch |-> call[c].branch,
                     key |-> call[c].key, active |-> TRUE]
  <2>1. /\ scales' = [scales EXCEPT ![call[c].id] = row] /\ Done(c)
        /\ call[c].key # NoKey /\ ScaleCodeIsFree(call[c].id, Normal[call[c].code])
    BY <1>2 DEF CreateScale
  <2>2. call[c] \in calls /\ call[c].key \in Keys
    BY <1>0, <2>1, CallAt
  <2>3. call[c].id \in Scales /\ call[c].branch \in Branches /\ Normal[call[c].code] \in ScaleIds
    BY <1>0, <2>2, CallIsWhole, CodeIsNormal DEF RInv, Locals
  <2>4. row \in ScaleRow /\ row.code = Normal[call[c].code]
    BY <2>2, <2>3 DEF ScaleRow
  <2> HIDE DEF row
  <2>5. Tables' /\ RowsStay
    BY <1>0, <2>1, <2>3, <2>4, ScaleWrite DEF RInv
  <2> QED
    BY <1>0, <2>1, <2>5, WriteStep
<1> QED
  BY <1>1, <1>2

LEMMA UpdateScaleStep ==
    ASSUME RInv, Observe, calls' = calls, sent' = None, NEW c \in Callers, UpdateScale(c)
    PROVE  RInv'
<1>0. UNCHANGED <<registry, transports, edits>> /\ pc[c] = "write" /\ call[c].op = "UpdateScale"
  BY DEF UpdateScale
<1>1. CASE \E kind \in {"notfound", "conflict"} : Return(c, kind) /\ scales' = scales
  BY <1>0, <1>1, RefusalStep DEF tables
<1>2. CASE ~ \E kind \in {"notfound", "conflict"} : Return(c, kind) /\ scales' = scales
  <2> DEFINE row == [code |-> Normal[call[c].code], branch |-> call[c].branch,
                     key |-> KeptKey(c), active |-> TRUE]
  <2>1. /\ scales' = [scales EXCEPT ![call[c].id] = row] /\ Done(c)
        /\ ScaleCodeIsFree(call[c].id, Normal[call[c].code])
    BY <1>2 DEF UpdateScale
  <2>2. call[c] \in calls /\ KeptKey(c) \in Keys
    BY <1>0, CallAt DEF KeptKey, KnowsAt
  <2>3. call[c].id \in Scales /\ call[c].branch \in Branches /\ Normal[call[c].code] \in ScaleIds
    BY <1>0, <2>2, CallIsWhole, CodeIsNormal DEF RInv, Locals
  <2>4. row \in ScaleRow /\ row.code = Normal[call[c].code]
    BY <2>2, <2>3 DEF ScaleRow
  <2> HIDE DEF row
  <2>5. Tables' /\ RowsStay
    BY <1>0, <2>1, <2>3, <2>4, ScaleWrite DEF RInv
  <2> QED
    BY <1>0, <2>1, <2>5, WriteStep
<1> QED
  BY <1>1, <1>2

LEMMA CreateTransportTransactionStep ==
    ASSUME RInv, Observe, calls' = calls, sent' = None, NEW c \in Callers,
           CreateTransportTransaction(c)
    PROVE  RInv'
<1>0. /\ UNCHANGED <<registry, scales, edits>> /\ pc[c] = "write"
      /\ call[c].op = "CreateTransport"
  BY DEF CreateTransportTransaction
<1>1. CASE transports[call[c].id] # NoRow \/ OpenOf(call[c]) # {}
  BY <1>0, <1>1, RefusalStep DEF tables, CreateTransportTransaction
<1>2. CASE ~(transports[call[c].id] # NoRow \/ OpenOf(call[c]) # {})
  <2> DEFINE row == [branch |-> call[c].branch, truck |-> call[c].truck,
                     grain |-> call[c].grain, price |-> got[c], status |-> "OPEN"]
  <2>1. transports' = [transports EXCEPT ![call[c].id] = row] /\ Done(c)
    BY <1>2 DEF CreateTransportTransaction
  <2>2. call[c] \in calls /\ got[c] \in Values
    BY <1>0, CallAt DEF KnowsAt
  <2>3. /\ call[c].id \in Transports /\ call[c].branch \in Branches
        /\ call[c].truck \in Trucks /\ call[c].grain \in Grains
    BY <1>0, <2>2, CallIsWhole DEF RInv, Locals
  <2>4. row \in TransportRow
    BY <2>2, <2>3 DEF TransportRow
  <2>5. OpenOf(row) = {}
    BY <1>2 DEF OpenOf
  <2> HIDE DEF row
  <2>6. Tables' /\ RowsStay
    BY <1>0, <2>1, <2>3, <2>4, <2>5, TransportWrite DEF RInv
  <2> QED
    BY <1>0, <2>1, <2>6, WriteStep
<1> QED
  BY <1>1, <1>2

LEMMA CancelTransportStep ==
    ASSUME RInv, Observe, calls' = calls, sent' = None, NEW c \in Callers, CancelTransport(c)
    PROVE  RInv'
<1>0. UNCHANGED <<registry, scales, edits>> /\ pc[c] = "cancel"
  BY DEF CancelTransport
<1>1. CASE transports[call[c].id].status # "OPEN"
  BY <1>0, <1>1, RefusalStep DEF tables, CancelTransport
<1>2. CASE transports[call[c].id].status = "OPEN"
  <2> DEFINE row == [transports[call[c].id] EXCEPT !.status = "CANCELLED"]
  <2>1. transports' = [transports EXCEPT ![call[c].id] = row] /\ Done(c)
    BY <1>2 DEF CancelTransport
  <2>2. call[c] \in calls /\ call[c].op = "Cancel" /\ transports[call[c].id] # NoRow
    BY <1>0, CallAt DEF KnowsAt, OpAt
  <2>3. call[c].id \in Transports
    BY <2>2, CallIsWhole DEF RInv, Locals
  <2>4. transports[call[c].id] \in TransportRow
    BY <2>2, <2>3 DEF RInv, Tables, Typed
  <2>5. row \in TransportRow /\ row.status # "OPEN"
    BY <2>4 DEF TransportRow
  <2> HIDE DEF row
  <2>6. Tables' /\ RowsStay
    BY <1>0, <2>1, <2>3, <2>5, TransportWrite DEF RInv
  <2> QED
    BY <1>0, <2>1, <2>6, WriteStep
<1> QED
  BY <1>1, <1>2

LEMMA FailStep ==
    ASSUME RInv, Observe, calls' = calls, sent' = None, NEW c \in Callers, Fail(c)
    PROVE  RInv'
BY RefusalStep DEF Fail

LEMMA PublishStep ==
    ASSUME RInv, Observe, calls' = calls, NEW c \in Callers, Publish(c)
    PROVE  RInv'
<1>0. /\ UNCHANGED <<tables, edits>> /\ pc[c] = "publish" /\ Done(c)
      /\ sent' = [code |-> Normal[call[c].code], key |-> call[c].key]
  BY DEF Publish
<1>1. call[c] \in calls /\ call[c].op = "Ingest" /\ call[c].key \in Keys
  BY <1>0, CallAt DEF OpAt, KnowsAt
<1>2. Normal[call[c].code] \in ScaleIds
  BY <1>1, CallIsWhole, CodeIsNormal DEF RInv, Locals
<1>3. Tables' /\ RowsStay
  BY <1>0, TablesStay DEF RInv
<1> QED
  BY <1>0, <1>1, <1>2, <1>3, WriteStep

\* Among the scales that match, one comes first by scale_id.
LEMMA DeviceMatches ==
    ASSUME Typed, NEW key, Matching(key) # {}
    PROVE  /\ Device(key) \in Matching(key)
           /\ \A other \in Matching(key) : scales[Device(key)].code <= scales[other].code
<1> DEFINE named == {scales[id].code : id \in Matching(key)}
<1>1. \A id \in Matching(key) : scales[id].code \in Nat
  BY RegistrationConfig DEF RegistrationConfig, Matching, Typed, ScaleRow
<1>2. IsWellFoundedOn(OpToRel(<, Nat), Nat)
  BY NatLessThanWellFounded
<1>3. named \subseteq Nat /\ named # {}
  BY <1>1
<1>4. PICK least \in named : \A other \in named : ~(<<other, least>> \in OpToRel(<, Nat))
  <2> HIDE DEF named
  <2> QED
    BY <1>2, <1>3, WFMin
<1>5. \A other \in named : ~(other < least)
  BY <1>3, <1>4 DEF OpToRel
<1>6. PICK id \in Matching(key) : scales[id].code = least
  OBVIOUS
<1>7. ASSUME NEW other \in Matching(key) PROVE scales[id].code <= scales[other].code
  <2>1. ~(scales[other].code < scales[id].code)
    BY <1>5, <1>6
  <2>2. scales[other].code \in Nat /\ scales[id].code \in Nat
    BY <1>1
  <2> QED
    BY <2>1, <2>2
<1> QED
  BY <1>7 DEF Device

LEMMA AuthenticateStep ==
    ASSUME RInv, Observe, calls' = calls, sent' = None, NEW c \in Callers, Authenticate(c)
    PROVE  RInv'
<1>0. UNCHANGED <<tables, edits>> /\ pc[c] = "list"
  BY DEF Authenticate
<1>1. CASE \E kind \in {"unauthorized", "validation", "forbidden"} : Return(c, kind)
  BY <1>0, <1>1, RefusalStep
<1>2. CASE ~ \E kind \in {"unauthorized", "validation", "forbidden"} : Return(c, kind)
  <2>1. /\ Goto(c, "publish") /\ got' = got /\ MayPublish(c)
        /\ call[c].key # NoKey /\ Matching(call[c].key) # {}
    BY <1>2 DEF Authenticate
  <2>2. pc'[c] = "publish" /\ call' = call
    BY <2>1 DEF Goto, RInv, Locals
  <2>3. /\ OpAt("list", call[c].op) /\ RowsOf(call[c], registry, scales) \subseteq seen'[c]
        /\ call[c] \in calls
    BY <1>0, <2>2, ReadsSeen
  <2>4. call[c].op = "Ingest" /\ call[c].key \in Keys
    BY <1>0, <2>1, <2>3, CallAt DEF OpAt
  <2>5. PICK id \in Matching(call[c].key) : id = Device(call[c].key)
    BY <2>1, DeviceMatches DEF RInv, Tables
  <2>6. /\ id \in Scales /\ scales[id] # NoRow /\ scales[id].key = Trimmed[call[c].key]
        /\ scales[id].active /\ scales[id].code = Normal[call[c].code]
    BY <2>1, <2>5 DEF Matching, MayPublish
  <2>7. <<id, scales[id]>> \in seen'[c]
    BY <2>3, <2>4, <2>6 DEF RowsOf
  <2>8. SeenDevice(c)'
    BY <2>2, <2>6, <2>7 DEF SeenDevice
  <2>9. OpAt("publish", call[c].op) /\ KnowsAt(c, "publish", call[c].op)'
    BY <2>2, <2>4, <2>8 DEF OpAt, KnowsAt
  <2> QED
    BY <1>0, <2>1, <2>9, KeepGot, GotoStep DEF Pcs
<1> QED
  BY <1>1, <1>2

-----------------------------------------------------------------------------
(* The invariant.                                                          *)

LEMMA StatementStep ==
    ASSUME RInv, Observe, calls' = calls, sent' = None, NEW c \in Callers, Statement(c)
    PROVE  RInv'
BY GetScaleStep, GetActiveBranchStep, GetActiveTruckStep, GetActiveGrainTypeStep, CreateScaleStep,
   UpdateScaleStep, CreateTransportTransactionStep, GetTransportStep, CancelTransportStep,
   AuthenticateStep, FailStep DEF Statement

\* The seed is what the tables admit.
LEMMA RInitially == Init => RInv
<1> SUFFICES ASSUME Init PROVE RInv
  OBVIOUS
<1>1. \A id \in Registered : registry[id] \in RegistryRow \cup {NoRow}
  BY SeedConfig DEF Init, Seeded, SeedConfig
<1>2. \A id \in Scales : scales[id] \in ScaleRow \cup {NoRow}
  BY SeedConfig DEF Init, Seeded, SeedConfig
<1>3. \A id \in Transports : transports[id] \in TransportRow \cup {NoRow}
  BY SeedConfig DEF Init, Seeded, SeedConfig
<1>4. Typed
  BY <1>1, <1>2, <1>3 DEF Init, Typed
<1>5. ASSUME NEW id \in Registered, registry[id] # NoRow,
             NEW other \in KindOf(id) \ {id}, registry[other] # NoRow
      PROVE  registry[other].code # registry[id].code
  <2>1. KindOf(id) \in {Branches, Trucks, Grains} /\ id \in KindOf(id)
    BY SeedConfig DEF KindOf, Registered, SeedConfig
  <2>2. other \in Registered
    BY <2>1 DEF Registered
  <2>3. /\ id \in DOMAIN SeedRegistry /\ other \in DOMAIN SeedRegistry
        /\ registry[id] = SeedRegistry[id] /\ registry[other] = SeedRegistry[other]
    BY <1>5, <2>2 DEF Init, Seeded
  <2> QED
    BY <2>1, <2>3, SeedConfig DEF SeedConfig
<1>6. UniqueCodes
  BY <1>5 DEF UniqueCodes, CodeIsFree
<1>7. UniqueScales
  <2>1. \A id \in Scales : scales[id] # NoRow => id \in DOMAIN SeedScales /\ scales[id] = SeedScales[id]
    BY DEF Init, Seeded
  <2> QED
    BY <2>1, SeedConfig DEF UniqueScales, ScaleCodeIsFree, SeedConfig
<1>8. OneOpen
  <2>1. \A id \in Transports : transports[id] # NoRow =>
            id \in DOMAIN SeedTransports /\ transports[id] = SeedTransports[id]
    BY DEF Init, Seeded
  <2> QED
    BY <2>1, SeedConfig DEF OneOpen, OpenOf, SeedConfig
<1>9. Locals /\ \A c \in Callers : Knows(c)
  BY RegistrationConfig DEF Init, Locals, Knows, Pcs, RegistrationConfig
<1> QED
  BY <1>4, <1>6, <1>7, <1>8, <1>9 DEF RInv, Tables

LEMMA RStep == RInv /\ [Next]_vars => RInv'
<1> SUFFICES ASSUME RInv, [Next]_vars PROVE RInv'
  OBVIOUS
<1>1. CASE UNCHANGED vars
  <2>1. Tables'
    BY <1>1, TablesStay DEF RInv, vars
  <2>2. Locals'
    BY <1>1 DEF RInv, Locals, vars, locals
  <2>3. /\ registry' = registry /\ scales' = scales /\ transports' = transports
        /\ pc' = pc /\ call' = call /\ got' = got /\ seen' = seen /\ calls' = calls
    BY <1>1 DEF vars, locals, tables
  <2>4. ASSUME NEW c \in Callers PROVE Knows(c)'
    <3>1. Knows(c)
      BY DEF RInv
    <3> QED
      BY <2>3, <3>1 DEF Knows, KnowsAt, SeenActive, SeenPrice, SeenKey, SeenDevice
  <2> QED
    BY <2>1, <2>2, <2>4 DEF RInv
<1>2. CASE Next
  <2>1. Observe /\ calls' = calls
    BY <1>2 DEF Next
  <2>2. CASE Step /\ sent' = None
    <3>1. CASE \E id \in Registered, code \in Codes, value \in Values :
                   Create(id, code, value) \/ Update(id, code, value)
      BY <2>1, <2>2, <3>1, RegistryStep
    <3>2. CASE \E id \in Registered : Deactivate(id)
      BY <2>1, <2>2, <3>2, DeactivateStep
    <3>3. CASE \E id \in Scales : DeactivateScale(id)
      BY <2>1, <2>2, <3>3, DeactivateScaleStep
    <3>4. CASE \E id \in Transports : Weigh(id)
      BY <2>1, <2>2, <3>4, WeighStep
    <3>5. CASE \E c \in Callers : Statement(c) \/ \E r \in calls : Begin(c, r)
      BY <2>1, <2>2, <3>5, StatementStep, BeginStep
    <3> QED
      BY <2>2, <3>1, <3>2, <3>3, <3>4, <3>5 DEF Step
  <2>3. CASE \E c \in Callers : Publish(c)
    BY <2>1, <2>3, PublishStep
  <2> QED
    BY <1>2, <2>2, <2>3 DEF Next
<1> QED
  BY <1>1, <1>2

LEMMA RInvariant == Spec => []RInv
BY RInitially, RStep, PTL DEF Spec

\* The statements that write a table, of which each call makes one.
LEMMA Writers ==
    ASSUME Next
    PROVE  /\ \/ transports' = transports
              \/ \E id \in Transports : Weigh(id)
              \/ \E c \in Callers : CreateTransportTransaction(c) \/ CancelTransport(c)
           /\ \/ scales' = scales
              \/ \E id \in Scales : DeactivateScale(id)
              \/ \E c \in Callers : CreateScale(c) \/ UpdateScale(c)
<1>1. CASE Step
  <2>1. CASE \E id \in Registered, code \in Codes, value \in Values :
                 Create(id, code, value) \/ Update(id, code, value)
    BY <2>1 DEF Create, Update
  <2>2. CASE \E id \in Registered : Deactivate(id)
    BY <2>2 DEF Deactivate
  <2>3. CASE \E id \in Scales : DeactivateScale(id)
    BY <2>3 DEF DeactivateScale
  <2>4. CASE \E id \in Transports : Weigh(id)
    BY <2>4 DEF Weigh
  <2>5. ASSUME NEW c \in Callers, Statement(c) \/ \E r \in calls : Begin(c, r)
        PROVE  \/ UNCHANGED tables
               \/ CreateScale(c) /\ transports' = transports
               \/ UpdateScale(c) /\ transports' = transports
               \/ CreateTransportTransaction(c) /\ scales' = scales
               \/ CancelTransport(c) /\ scales' = scales
    BY <2>5 DEF Statement, Begin, GetScale, GetActiveBranch, GetActiveTruck, GetActiveGrainType,
                GetTransport, Authenticate, Fail, CreateScale, UpdateScale,
                CreateTransportTransaction, CancelTransport
  <2> QED
    BY <1>1, <2>1, <2>2, <2>3, <2>4, <2>5 DEF Step, tables
<1>2. CASE \E c \in Callers : Publish(c)
  BY <1>2 DEF Publish, tables
<1> QED
  BY <1>1, <1>2 DEF Next

(***************************************************************************)
(* The tables of repository.Postgres and the locals of the service keep    *)
(* their types, and the unique indexes on codes, plates and OPEN           *)
(* transports hold, however the statements of the calls interleave.        *)
(***************************************************************************)
THEOREM TypeCorrect == Spec => []TypeOK
<1>1. RInv => TypeOK
  BY DEF RInv, Tables, Typed, UniqueCodes, UniqueScales, ScaleCodeIsFree, OneOpen, Locals, Pcs, TypeOK
<1> QED
  BY <1>1, RInvariant, PTL

-----------------------------------------------------------------------------
(* What a step may do.                                                     *)

LEMMA SnapshotHolds ==
    ASSUME RInv, Next, NEW id \in Transports, transports[id] = NoRow, transports'[id] # NoRow
    PROVE  \E c \in Callers :
               /\ pc[c] = "write"
               /\ \A ref \in {transports'[id].branch, transports'[id].truck} : SeenActive(c, ref)
               /\ \E r \in seen[c] :
                      /\ r[1] = transports'[id].grain /\ r[2] # NoRow /\ r[2].active
                      /\ r[2].value = transports'[id].price
<1>1. \A other \in Transports : ~Weigh(other)
  BY DEF Weigh, RInv, Tables, Typed
<1>2. \A c \in Callers : ~CancelTransport(c)
  <2> SUFFICES ASSUME NEW c \in Callers, CancelTransport(c) PROVE FALSE
    OBVIOUS
  <2>1. pc[c] = "cancel" /\ call[c].op = "Cancel" /\ call[c] \in calls
    BY CallAt DEF CancelTransport, OpAt
  <2>2. transports[call[c].id] # NoRow
    BY <2>1, CallAt DEF KnowsAt
  <2> QED
    BY <2>2 DEF CancelTransport, RInv, Tables, Typed
<1>3. PICK c \in Callers : CreateTransportTransaction(c)
  BY <1>1, <1>2, Writers
<1>4. pc[c] = "write" /\ call[c].op = "CreateTransport" /\ call[c].id = id
  BY <1>3 DEF CreateTransportTransaction, RInv, Tables, Typed
<1>5. transports'[id] = [branch |-> call[c].branch, truck |-> call[c].truck,
                         grain |-> call[c].grain, price |-> got[c], status |-> "OPEN"]
  BY <1>3, <1>4 DEF CreateTransportTransaction, RInv, Tables, Typed
<1>6. SeenActive(c, call[c].branch) /\ SeenActive(c, call[c].truck) /\ SeenPrice(c)
  BY <1>4, CallAt DEF KnowsAt
<1>7. /\ transports'[id].branch = call[c].branch /\ transports'[id].truck = call[c].truck
      /\ transports'[id].grain = call[c].grain /\ transports'[id].price = got[c]
  BY <1>5
<1>8. \A ref \in {transports'[id].branch, transports'[id].truck} : SeenActive(c, ref)
  BY <1>6, <1>7
<1>9. \E r \in seen[c] : /\ r[1] = transports'[id].grain /\ r[2] # NoRow /\ r[2].active
                         /\ r[2].value = transports'[id].price
  BY <1>6, <1>7 DEF SeenPrice
<1> QED
  BY <1>4, <1>8, <1>9

\* A transport is created from rows that were active at some moment of the call,
\* at a price of that moment, whatever is edited between the statements of
\* CreateTransportTransaction.
THEOREM SnapshotsAreOfTheCall == Spec => SnapshotIsOfTheCall
<1> DEFINE OfTheCall ==
        \A id \in Transports : transports[id] = NoRow /\ transports'[id] # NoRow =>
            LET row == transports'[id]
            IN  \E c \in Callers :
                    /\ pc[c] = "write"
                    /\ \A ref \in {row.branch, row.truck} :
                           \E r \in seen[c] : r[1] = ref /\ r[2] # NoRow /\ r[2].active
                    /\ \E r \in seen[c] :
                           r[1] = row.grain /\ r[2] # NoRow /\ r[2].active /\ r[2].value = row.price
<1>1. RInv /\ Next => OfTheCall
  BY SnapshotHolds DEF SeenActive
<1>2. RInv /\ [Next]_vars => [OfTheCall]_vars
  BY <1>1
<1> QED
  BY <1>2, RInvariant, PTL DEF Spec, SnapshotIsOfTheCall

LEMMA KeyHolds ==
    ASSUME RInv, Next, NEW id \in Scales, scales[id] # NoRow, scales'[id] # scales[id]
    PROVE  /\ scales[id].active
           /\ scales'[id].key # scales[id].key =>
                  \E c \in Callers :
                      /\ pc[c] = "write" /\ call[c].op = "UpdateScale" /\ call[c].id = id
                      /\ IF call[c].key # NoKey THEN scales'[id].key = call[c].key
                         ELSE \E r \in seen[c] : r[1] = id /\ r[2].key = scales'[id].key
<1>1. ASSUME NEW other \in Scales, DeactivateScale(other)
      PROVE  scales[id].active /\ scales'[id].key = scales[id].key
  <2>1. other = id
    BY <1>1 DEF DeactivateScale, RInv, Tables, Typed
  <2>2. scales[id] \in ScaleRow
    BY DEF RInv, Tables, Typed
  <2>3. scales'[id] = [scales[id] EXCEPT !.active = FALSE] /\ scales[id].active
    BY <1>1, <2>1 DEF DeactivateScale, RInv, Tables, Typed
  <2> QED
    BY <2>2, <2>3 DEF ScaleRow
<1>2. ASSUME NEW c \in Callers, CreateScale(c) PROVE FALSE
  BY <1>2 DEF CreateScale, RInv, Tables, Typed
<1>3. ASSUME NEW c \in Callers, UpdateScale(c)
      PROVE  /\ scales[id].active
             /\ pc[c] = "write" /\ call[c].op = "UpdateScale" /\ call[c].id = id
             /\ scales'[id].key = KeptKey(c)
             /\ call[c].key = NoKey => \E r \in seen[c] : r[1] = id /\ r[2].key = scales'[id].key
  <2>1. pc[c] = "write" /\ call[c].op = "UpdateScale"
    BY <1>3 DEF UpdateScale
  <2>2. call[c].id = id /\ scales[id].active
    BY <1>3 DEF UpdateScale, RInv, Tables, Typed
  <2>3. scales'[id] = [code |-> Normal[call[c].code], branch |-> call[c].branch,
                       key |-> KeptKey(c), active |-> TRUE]
    BY <1>3, <2>2 DEF UpdateScale, RInv, Tables, Typed
  <2>4. scales'[id].key = KeptKey(c)
    BY <2>3
  <2>5. SeenKey(c)
    BY <2>1, CallAt DEF KnowsAt
  <2>6. call[c].key = NoKey => \E r \in seen[c] : r[1] = id /\ r[2].key = scales'[id].key
    BY <2>2, <2>4, <2>5 DEF KeptKey, SeenKey
  <2> QED
    BY <2>1, <2>2, <2>4, <2>6
<1>4. \/ \E other \in Scales : DeactivateScale(other)
      \/ \E c \in Callers : UpdateScale(c)
  BY <1>2, Writers
<1> QED
  BY <1>1, <1>3, <1>4 DEF KeptKey

\* UpdateScale writes the key it is given, or one the scale had during the call,
\* and never a scale that is disabled.
THEOREM KeysAreGivenOrKept == Spec => KeyIsGivenOrKept
<1> DEFINE Kept ==
        \A id \in Scales : scales[id] # NoRow /\ scales'[id] # scales[id] =>
            /\ scales[id].active
            /\ scales'[id].key # scales[id].key =>
                   \E c \in Callers :
                       /\ pc[c] = "write" /\ call[c].op = "UpdateScale" /\ call[c].id = id
                       /\ IF call[c].key # NoKey THEN scales'[id].key = call[c].key
                          ELSE \E r \in seen[c] : r[1] = id /\ r[2].key = scales'[id].key
<1>1. RInv /\ Next => Kept
  BY KeyHolds
<1>2. RInv /\ [Next]_vars => [Kept]_vars
  BY <1>1
<1> QED
  BY <1>2, RInvariant, PTL DEF Spec, KeyIsGivenOrKept

\* IngestScaleReading publishes a reading only for a scale that was active with
\* the sent scale_id and the presented key at some moment of the call.
THEOREM PublishedReadingsAreAuthorized == Spec => PublishedIsAuthorized
<1> DEFINE Authorized ==
        \A c \in Callers : pc[c] = "publish" /\ pc'[c] = "idle" /\ sent' # None =>
            \E r \in seen[c] :
                r[2].active /\ r[2].code = sent'.code /\ r[2].key = Trimmed[sent'.key]
<1>1. ASSUME RInv, Next PROVE Authorized
  <2> SUFFICES ASSUME NEW c \in Callers, pc[c] = "publish", pc'[c] = "idle", sent' # None
               PROVE  \E r \in seen[c] :
                          r[2].active /\ r[2].code = sent'.code /\ r[2].key = Trimmed[sent'.key]
    OBVIOUS
  <2>1. PICK publisher \in Callers : Publish(publisher)
    BY <1>1 DEF Next
  <2>2. publisher = c
    BY <1>1, <2>1 DEF Publish, Done, Return, RInv, Locals
  <2>3. sent'.code = Normal[call[c].code] /\ sent'.key = call[c].key
    BY <2>1, <2>2 DEF Publish
  <2>4. SeenDevice(c)
    BY <1>1, CallAt DEF KnowsAt
  <2> QED
    BY <2>3, <2>4 DEF SeenDevice
<1>2. RInv /\ [Next]_vars => [Authorized]_vars
  BY <1>1
<1> QED
  BY <1>2, RInvariant, PTL DEF Spec, PublishedIsAuthorized

\* A transport changes by leaving OPEN.
LEMMA TransportKeeps ==
    ASSUME RInv, Next, NEW id \in Transports, transports[id] # NoRow, transports'[id] # transports[id]
    PROVE  /\ transports[id].status = "OPEN"
           /\ transports'[id] \in {[transports[id] EXCEPT !.status = "WEIGHED"],
                                   [transports[id] EXCEPT !.status = "CANCELLED"]}
<1>1. ASSUME NEW other \in Transports, Weigh(other)
      PROVE  /\ transports[id].status = "OPEN"
             /\ transports'[id] = [transports[id] EXCEPT !.status = "WEIGHED"]
  <2>1. other = id
    BY <1>1 DEF Weigh, RInv, Tables, Typed
  <2> QED
    BY <1>1, <2>1 DEF Weigh, RInv, Tables, Typed
<1>2. ASSUME NEW c \in Callers, CreateTransportTransaction(c) PROVE FALSE
  BY <1>2 DEF CreateTransportTransaction, RInv, Tables, Typed
<1>3. ASSUME NEW c \in Callers, CancelTransport(c)
      PROVE  /\ transports[id].status = "OPEN"
             /\ transports'[id] = [transports[id] EXCEPT !.status = "CANCELLED"]
  <2>1. transports' = [transports EXCEPT ![call[c].id].status = "CANCELLED"]
        /\ transports[call[c].id].status = "OPEN"
    BY <1>3 DEF CancelTransport
  <2>2. call[c].id = id
    BY <2>1 DEF RInv, Tables, Typed
  <2> QED
    BY <2>1, <2>2 DEF RInv, Tables, Typed
<1> QED
  BY <1>1, <1>2, <1>3, Writers

\* Only the statement that closes the transport answers a cancellation with success.
LEMMA CancelledByTheCall ==
    ASSUME RInv, Next, NEW c \in Callers, pc[c] = "cancel", pc'[c] = "idle", answer' = "ok"
    PROVE  /\ transports[call[c].id].status = "OPEN"
           /\ transports'[call[c].id].status = "CANCELLED"
<1>1. pc' # pc
  OBVIOUS
<1>2. ASSUME NEW u \in Callers, Publish(u) PROVE FALSE
  BY <1>2 DEF Publish, Done, Return, RInv, Locals
<1>3. PICK u \in Callers : Statement(u) \/ \E r \in calls : Begin(u, r)
  BY <1>1, <1>2 DEF Next, Step, Create, Update, Deactivate, DeactivateScale, Weigh, Edit, locals
<1>4. Statement(u)
  BY <1>3 DEF Begin
<1>5. \A other \in Callers \ {u} : pc'[other] = pc[other]
  BY <1>4 DEF Statement, GetScale, GetActiveBranch, GetActiveTruck, GetActiveGrainType, GetTransport,
              Authenticate, Fail, CreateScale, UpdateScale, CreateTransportTransaction,
              CancelTransport, Done, Return, Goto, RInv, Locals
<1>6. u = c
  BY <1>5
<1>7. ~Fail(c)
  BY DEF Fail, Return
<1>8. CancelTransport(c)
  BY <1>4, <1>6, <1>7 DEF Statement, GetScale, GetActiveBranch, GetActiveTruck, GetActiveGrainType,
     GetTransport, Authenticate, CreateScale, UpdateScale, CreateTransportTransaction
<1>9. /\ transports[call[c].id].status = "OPEN"
      /\ transports' = [transports EXCEPT ![call[c].id].status = "CANCELLED"]
  BY <1>8 DEF CancelTransport, Return
<1>10. call[c].id \in Transports /\ transports[call[c].id] \in TransportRow
  <2>1. call[c] \in calls /\ call[c].op = "Cancel" /\ transports[call[c].id] # NoRow
    BY CallAt DEF OpAt, KnowsAt
  <2>2. call[c].id \in Transports
    BY <2>1, CallIsWhole DEF RInv, Locals
  <2> QED
    BY <2>1, <2>2 DEF RInv, Tables, Typed
<1>11. transports'[call[c].id] = [transports[call[c].id] EXCEPT !.status = "CANCELLED"]
  BY <1>9, <1>10 DEF RInv, Tables, Typed
<1> QED
  BY <1>9, <1>10, <1>11 DEF TransportRow

\* A transport leaves OPEN once, keeps what it refers to and its price, and a
\* cancellation succeeds only if its own UPDATE closed the transport
\* (TransitionTransportTransaction, Finalize).
THEOREM TransportsCloseOnce == Spec => ClosedOnce
<1> DEFINE Leaves ==
        /\ \A id \in Transports : transports[id] # NoRow =>
               /\ transports'[id] # NoRow
               /\ [transports'[id] EXCEPT !.status = "OPEN"] = [transports[id] EXCEPT !.status = "OPEN"]
               /\ transports[id].status # "OPEN" => transports'[id] = transports[id]
        /\ \A c \in Callers : pc[c] = "cancel" /\ pc'[c] = "idle" /\ answer' = "ok" =>
               /\ transports[call[c].id].status = "OPEN"
               /\ transports'[call[c].id].status = "CANCELLED"
<1>1. ASSUME RInv, Next, NEW id \in Transports, transports[id] # NoRow
      PROVE  /\ transports'[id] # NoRow
             /\ [transports'[id] EXCEPT !.status = "OPEN"] = [transports[id] EXCEPT !.status = "OPEN"]
             /\ transports[id].status # "OPEN" => transports'[id] = transports[id]
  <2>1. CASE transports'[id] = transports[id]
    BY <1>1, <2>1
  <2>2. CASE transports'[id] # transports[id]
    <3>1. PICK row \in TransportRow : row = transports[id]
      BY <1>1 DEF RInv, Tables, Typed
    <3>2. row.status = "OPEN"
          /\ transports'[id] \in {[row EXCEPT !.status = "WEIGHED"], [row EXCEPT !.status = "CANCELLED"]}
      BY <1>1, <2>2, <3>1, TransportKeeps
    <3>3. [row EXCEPT !.status = "WEIGHED"] \in TransportRow
          /\ [row EXCEPT !.status = "CANCELLED"] \in TransportRow
      BY DEF TransportRow
    <3>4. [transports'[id] EXCEPT !.status = "OPEN"] = [row EXCEPT !.status = "OPEN"]
      BY <3>2 DEF TransportRow
    <3> QED
      BY <3>1, <3>2, <3>3, <3>4, SeedConfig DEF SeedConfig
  <2> QED
    BY <2>1, <2>2
<1>2. RInv /\ Next => Leaves
  BY <1>1, CancelledByTheCall
<1>3. RInv /\ [Next]_vars => [Leaves]_vars
  BY <1>2
<1> QED
  BY <1>3, RInvariant, PTL DEF Spec, ClosedOnce

\* The call of a caller ends in an answer of its own statement.
LEMMA RefusedByTheCall ==
    ASSUME RInv, Next, NEW c \in Callers, pc[c] = "list", pc'[c] = "idle",
           answer' \in {"unauthorized", "forbidden"}
    PROVE  Authenticate(c)
<1>1. pc' # pc
  OBVIOUS
<1>2. ASSUME NEW u \in Callers, Publish(u) PROVE FALSE
  BY <1>2 DEF Publish, Done, Return
<1>3. PICK u \in Callers : Statement(u) \/ \E r \in calls : Begin(u, r)
  BY <1>1, <1>2 DEF Next, Step, Create, Update, Deactivate, DeactivateScale, Weigh, Edit, locals
<1>4. Statement(u)
  BY <1>3 DEF Begin
<1>5. \A other \in Callers \ {u} : pc'[other] = pc[other]
  BY <1>4 DEF Statement, GetScale, GetActiveBranch, GetActiveTruck, GetActiveGrainType, GetTransport,
              Authenticate, Fail, CreateScale, UpdateScale, CreateTransportTransaction,
              CancelTransport, Done, Return, Goto, RInv, Locals
<1>6. u = c
  BY <1>5
<1>7. ~Fail(c)
  BY DEF Fail, Return
<1> QED
  BY <1>4, <1>6, <1>7 DEF Statement, GetScale, GetActiveBranch, GetActiveTruck, GetActiveGrainType,
     GetTransport, CancelTransport, CreateScale, UpdateScale, CreateTransportTransaction

\* authenticateScale refuses an active device with its scale_id and its key only
\* for blanks in the registered key, a scale_id that is not normalized, or a scale
\* with the same key that comes first.
THEOREM RefusalsHaveAReason == Spec => RefusedForAReason
<1> DEFINE Reasoned(c, id) ==
        /\ pc[c] = "list" /\ pc'[c] = "idle" /\ answer' \in {"unauthorized", "forbidden"}
        /\ scales[id] # NoRow /\ scales[id].active
        /\ Normal[scales[id].code] = Normal[call[c].code]
        /\ call[c].key # NoKey /\ Trimmed[scales[id].key] = Trimmed[call[c].key]
        => \/ Trimmed[scales[id].key] # scales[id].key
           \/ Normal[scales[id].code] # scales[id].code
           \/ \E other \in Matching(call[c].key) : scales[other].code < scales[id].code
<1>1. ASSUME RInv, Next, NEW c \in Callers, NEW id \in Scales PROVE Reasoned(c, id)
  <2> SUFFICES ASSUME pc[c] = "list", pc'[c] = "idle", answer' \in {"unauthorized", "forbidden"},
                      scales[id] # NoRow, scales[id].active, call[c].key # NoKey,
                      scales[id].code = Normal[call[c].code], scales[id].key = Trimmed[call[c].key],
                      \A other \in Matching(call[c].key) : ~(scales[other].code < scales[id].code)
               PROVE  FALSE
    OBVIOUS
  <2>1. Authenticate(c)
    BY <1>1, RefusedByTheCall
  <2>2. id \in Matching(call[c].key)
    BY DEF Matching
  <2>3. PICK device \in Matching(call[c].key) :
            /\ device = Device(call[c].key)
            /\ scales[device].code <= scales[id].code
    BY <1>1, <2>2, DeviceMatches DEF RInv, Tables
  <2>4. device \in Scales /\ scales[device] # NoRow
    BY <2>3 DEF Matching
  <2>5. scales[device].code \in Nat /\ scales[id].code \in Nat
    BY <1>1, <2>4, RegistrationConfig DEF RegistrationConfig, RInv, Tables, Typed, ScaleRow
  <2>6. scales[device].code = scales[id].code
    BY <2>3, <2>5
  <2>7. device = id
    BY <1>1, <2>4, <2>6 DEF RInv, Tables, UniqueScales, ScaleCodeIsFree
  <2>8. MayPublish(c) /\ Matching(call[c].key) # {}
    BY <2>2, <2>3, <2>7 DEF MayPublish
  <2> QED
    BY <2>1, <2>8 DEF Authenticate, Return, Goto
<1>2. RInv /\ [Next]_vars => [\A c \in Callers, id \in Scales : Reasoned(c, id)]_vars
  BY <1>1
<1> QED
  BY <1>2, RInvariant, PTL DEF Spec, RefusedForAReason
=============================================================================
