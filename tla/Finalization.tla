---------------------------- MODULE Finalization ----------------------------
(***************************************************************************)
(* finalization.Service.Finalize, statement by statement, run by several   *)
(* callers at once against one PostgreSQL database at READ COMMITTED, next *)
(* to the registration statements that touch the same rows.                *)
(*                                                                         *)
(* The variables status .. weighings are the COMMITTED database.  What a   *)
(* transaction has written and not committed is in its caller's tx record  *)
(* and reaches the database at commit; the row and index locks it holds    *)
(* until then follow from how far it has come (see pc and Holds...).       *)
(***************************************************************************)
EXTENDS Integers, FiniteSets

CONSTANTS
    Callers,      \* goroutines or worker processes inside Finalize
    Transports,   \* ids of transport_transactions rows
    Trucks, Plates, Branches, Grains, Scales, Sessions, Events,
    Tares,        \* values of trucks.tare_weight_grams
    Targets,      \* values of grain_types.inventory_target_grams
    Inputs,       \* the finalization.Input values callers may pass
    TruckOf, BranchOf, GrainOf, PriceOf,  \* immutable columns of a transport
    ScaleBranch,  \* scales.branch_id
    GramsPerTon,  \* gramsPerMetricTon
    MaxBigint,    \* the largest BIGINT, and int64
    NoEvent,      \* "" / NULL event id
    NoTransport,  \* no TransportTransactionID: look up by plate
    NoPlate,      \* "" plate
    NoInput, NoRow

-----------------------------------------------------------------------------
ASSUME ColumnTypes ==
    /\ TruckOf \in [Transports -> Trucks]
    /\ BranchOf \in [Transports -> Branches]
    /\ GrainOf \in [Transports -> Grains]
    /\ PriceOf \in [Transports -> Nat]
    /\ ScaleBranch \in [Scales -> Branches]

ASSUME ValueTypes ==
    /\ Tares \subseteq Nat \ {0}
    /\ Targets \subseteq Nat \ {0}
    /\ GramsPerTon \in Nat \ {0}
    /\ MaxBigint \in Nat

ASSUME NoneAreDistinct ==
    /\ NoEvent \notin Events
    /\ NoTransport \notin Transports
    /\ NoPlate \notin Plates
    /\ NoInput \notin Inputs

ASSUME InputTypes ==
    /\ Inputs \subseteq [session : Sessions, event : Events \cup {NoEvent}, scale : Scales,
                         transport : Transports \cup {NoTransport},
                         plate : Plates \cup {NoPlate}, gross : Int]
    /\ \A i \in Inputs : i.gross <= MaxBigint

-----------------------------------------------------------------------------
VARIABLES
    status, inventory, weighings,   \* see WeighingBook
    plate, tare,                    \* trucks: truck -> plate, tare_weight_grams
    target,                         \* grain_types: grain -> inventory_target_grams
    pc,       \* caller -> the statement it executes next, or "idle"
    tx,       \* caller -> what its call has read and computed so far
    result    \* caller -> what its last call returned

database == <<status, inventory, weighings, plate, tare, target>>
vars == <<status, inventory, weighings, plate, tare, target, pc, tx, result>>

Book == INSTANCE WeighingBook

Bins == Book!Bins
BinOf(t) == Book!BinOf(t)

Stages == {"idle", "byEvent", "bySession", "select", "lock", "upsert", "insert",
           "transition", "commit"}

Outcomes == {"none", "ok", "notfound", "conflict", "validation", "transient"}

\* weighings_margin_range: 5% to 20% in basis points.
MarginRates == 500..2000

\* A column of grams or of money that is never negative.
Bigint == 0..MaxBigint

\* The columns of weighings under the CHECK constraints of the table.
Row == [session : Sessions, event : Events \cup {NoEvent}, scale : Scales,
        transport : Transports, gross : Bigint \ {0}, tare : Tares, net : Bigint \ {0},
        cost : Bigint, margin : MarginRates]

\* What a call has read from the database and computed.
TxRecord == [in : Inputs \cup {NoInput}, transport : Transports \cup {NoTransport},
             tare : Tares \cup {0}, target : Targets \cup {0}, total : Bigint]

\* A caller's transaction before it has selected a transport.
Fresh(i) == [in |-> i, transport |-> NoTransport, tare |-> 0, target |-> 0, total |-> 0]

-----------------------------------------------------------------------------
(* The arithmetic PostgreSQL does for the service.                         *)

Smaller(a, b) == IF a <= b THEN a ELSE b
Larger(a, b) == IF a >= b THEN a ELSE b

\* GREATEST(500, 2000 - FLOOR(1500 * LEAST(inventory, target) / target))
Margin(inv, tgt) == Larger(500, 2000 - (1500 * Smaller(inv, tgt)) \div tgt)

\* ROUND(net * price / gramsPerMetricTon): half away from zero, net and price >= 0
LoadCost(net, price) == (2 * net * price + GramsPerTon) \div (2 * GramsPerTon)

-----------------------------------------------------------------------------
(* What caller c is working on, and the locks its transaction holds.       *)

In(c) == tx[c].in
Net(c) == In(c).gross - tx[c].tare
Cost(c) == LoadCost(Net(c), PriceOf[tx[c].transport])
Bin(c) == BinOf(tx[c].transport)

\* Mutant: the margin is that of the stock before this load.
RowOfOldStock(c) ==
    [session |-> In(c).session, event |-> In(c).event, scale |-> In(c).scale,
     transport |-> tx[c].transport, gross |-> In(c).gross, tare |-> tx[c].tare,
     net |-> Net(c), cost |-> Cost(c),
     margin |-> Margin(tx[c].total - Net(c), tx[c].target)]

RowOf(c) ==
    [session |-> In(c).session, event |-> In(c).event, scale |-> In(c).scale,
     transport |-> tx[c].transport, gross |-> In(c).gross, tare |-> tx[c].tare,
     net |-> Net(c), cost |-> Cost(c),
     margin |-> Margin(tx[c].total, tx[c].target)]

\* Mutant: the inventory row is locked before the transport row.
HoldsInventoryEarly(c, b) ==
    pc[c] \in {"lock", "upsert", "insert", "transition", "commit"} /\ Bin(c) = b

\* SELECT ... FOR UPDATE OF t, held until the transaction ends.
HoldsTransport(c, t) ==
    pc[c] \in {"upsert", "insert", "transition", "commit"} /\ tx[c].transport = t

\* The inventory row, from its upsert on.
HoldsInventory(c, b) ==
    pc[c] \in {"insert", "transition", "commit"} /\ Bin(c) = b

\* The entries of the two unique indexes of weighings, from the insert on.
HoldsKeysAgainst(c, w) ==
    pc[c] \in {"transition", "commit"} /\ Book!Clash(RowOf(c), w)

Valid(i) == i.gross > 0 /\ (i.transport # NoTransport \/ i.plate # NoPlate)

\* Mutant: the lookup does not join the scale on the transport's branch.
MatchesAnyBranch(i) ==
    {t \in Transports :
        /\ status[t] # "NONE"
        /\ IF i.transport # NoTransport
           THEN t = i.transport
           ELSE plate[TruckOf[t]] = i.plate /\ status[t] = "OPEN"}

\* What getByEvent and getBySession select.
ByEvent(i) == {w \in weighings : i.event # NoEvent /\ w.event = i.event}
BySession(i) == {w \in weighings : w.session = i.session}

\* The rows the lookup of lockTransport selects in its statement snapshot.
Matches(i) ==
    {t \in Transports :
        /\ status[t] # "NONE"
        /\ BranchOf[t] = ScaleBranch[i.scale]
        /\ IF i.transport # NoTransport
           THEN t = i.transport
           ELSE plate[TruckOf[t]] = i.plate /\ status[t] = "OPEN"}

-----------------------------------------------------------------------------
Init ==
    /\ Book!Init
    /\ plate \in {p \in [Trucks -> Plates] : \A j, k \in Trucks : p[j] = p[k] => j = k}
    /\ tare \in [Trucks -> Tares]
    /\ target \in [Grains -> Targets]
    /\ pc = [c \in Callers |-> "idle"]
    /\ tx = [c \in Callers |-> Fresh(NoInput)]
    /\ result = [c \in Callers |-> [kind |-> "none", row |-> NoRow]]

\* The call of c ends: its locks go, and nothing it wrote survives.
Return(c, kind, row) ==
    /\ pc' = [pc EXCEPT ![c] = "idle"]
    /\ result' = [result EXCEPT ![c] = [kind |-> kind, row |-> row]]
    /\ tx' = [tx EXCEPT ![c] = Fresh(In(c))]

Goto(c, stage) ==
    /\ pc' = [pc EXCEPT ![c] = stage]
    /\ UNCHANGED result

\* Finalize is called; an input that validate rejects never opens a transaction.
Begin(c, i) ==
    /\ pc[c] = "idle"
    /\ tx' = [tx EXCEPT ![c] = Fresh(i)]
    /\ result' = [result EXCEPT ![c] = [kind |-> IF Valid(i) THEN "none" ELSE "validation",
                                        row |-> NoRow]]
    /\ pc' = [pc EXCEPT ![c] = IF Valid(i) THEN "byEvent" ELSE "idle"]
    /\ UNCHANGED database

\* getByEvent: the committed weighing of this event, if any, is the answer.
FindByEvent(c) ==
    /\ pc[c] = "byEvent"
    /\ \/ \E w \in ByEvent(In(c)) : Return(c, "ok", w)
       \/ ByEvent(In(c)) = {} /\ Goto(c, "bySession") /\ UNCHANGED tx
    /\ UNCHANGED database

\* getBySession, in the same way.
FindBySession(c) ==
    /\ pc[c] = "bySession"
    /\ \/ \E w \in BySession(In(c)) : Return(c, "ok", w)
       \/ BySession(In(c)) = {} /\ Goto(c, "select") /\ UNCHANGED tx
    /\ UNCHANGED database

(***************************************************************************)
(* lockTransport, first half: the statement takes its snapshot.  The joined *)
(* truck and grain columns keep the values of this moment even when the    *)
(* statement then waits for the row lock.                                  *)
(***************************************************************************)
SelectTransport(c) ==
    /\ pc[c] = "select"
    /\ \/ \E t \in Matches(In(c)) :
            /\ tx' = [tx EXCEPT ![c] = [in |-> In(c), transport |-> t,
                                        tare |-> tare[TruckOf[t]],
                                        target |-> target[GrainOf[t]], total |-> 0]]
            /\ Goto(c, "lock")
       \/ Matches(In(c)) = {} /\ Return(c, "notfound", NoRow)
    /\ UNCHANGED database

\* Mutant: the net weight is not checked.
LockTransportAnyNet(c) ==
    /\ pc[c] = "lock"
    /\ \A d \in Callers \ {c} : ~HoldsTransport(d, tx[c].transport)
    /\ IF status[tx[c].transport] # "OPEN"
       THEN Return(c, IF In(c).transport = NoTransport THEN "notfound" ELSE "conflict", NoRow)
       ELSE IF Cost(c) > MaxBigint
       THEN Return(c, "transient", NoRow)
       ELSE Goto(c, "upsert") /\ UNCHANGED tx
    /\ UNCHANGED database

(***************************************************************************)
(* lockTransport, second half: the row lock is free, PostgreSQL evaluates  *)
(* the WHERE clause again on the row as committed by now, and the service  *)
(* checks status and net weight and asks for the cost, which may overflow. *)
(***************************************************************************)
LockTransport(c) ==
    /\ pc[c] = "lock"
    /\ \A d \in Callers \ {c} : ~HoldsTransport(d, tx[c].transport)
    /\ IF status[tx[c].transport] # "OPEN"
       THEN Return(c, IF In(c).transport = NoTransport THEN "notfound" ELSE "conflict", NoRow)
       ELSE IF In(c).gross <= tx[c].tare
       THEN Return(c, "validation", NoRow)
       ELSE IF Cost(c) > MaxBigint
       THEN Return(c, "transient", NoRow)
       ELSE Goto(c, "upsert") /\ UNCHANGED tx
    /\ UNCHANGED database

\* Mutant: the column takes any sum.
UpsertInventoryAny(c) ==
    /\ pc[c] = "upsert"
    /\ \A d \in Callers \ {c} : ~HoldsInventory(d, Bin(c))
    /\ tx' = [tx EXCEPT ![c].total = inventory[Bin(c)] + Net(c)]
    /\ Goto(c, "insert")
    /\ UNCHANGED database

\* INSERT ... ON CONFLICT DO UPDATE of the inventory row, RETURNING the new total.
UpsertInventory(c) ==
    /\ pc[c] = "upsert"
    /\ \A d \in Callers \ {c} : ~HoldsInventory(d, Bin(c))
    /\ IF inventory[Bin(c)] + Net(c) > MaxBigint
       THEN Return(c, "transient", NoRow)
       ELSE /\ tx' = [tx EXCEPT ![c].total = inventory[Bin(c)] + Net(c)]
            /\ Goto(c, "insert")
    /\ UNCHANGED database

\* Mutant: a duplicate key is taken for success.
InsertWeighingSwallow(c) ==
    /\ pc[c] = "insert"
    /\ \A d \in Callers \ {c} : ~HoldsKeysAgainst(d, RowOf(c))
    /\ IF \E w \in weighings : Book!Clash(w, RowOf(c))
       THEN Return(c, "ok", RowOf(c))
       ELSE Goto(c, "transition") /\ UNCHANGED tx
    /\ UNCHANGED database

(***************************************************************************)
(* insertWeighing: waits for a transaction that is inserting the same key, *)
(* then fails on a committed one with 23505, which classifyConstraint      *)
(* passes on as it is: no business error.                                  *)
(***************************************************************************)
InsertWeighing(c) ==
    /\ pc[c] = "insert"
    /\ \A d \in Callers \ {c} : ~HoldsKeysAgainst(d, RowOf(c))
    /\ IF \E w \in weighings : Book!Clash(w, RowOf(c))
       THEN Return(c, "transient", NoRow)
       ELSE Goto(c, "transition") /\ UNCHANGED tx
    /\ UNCHANGED database

\* UPDATE ... SET status = 'WEIGHED' WHERE id AND status = 'OPEN'.
MarkWeighed(c) ==
    /\ pc[c] = "transition"
    /\ IF status[tx[c].transport] = "OPEN"
       THEN Goto(c, "commit") /\ UNCHANGED tx
       ELSE Return(c, "conflict", NoRow)
    /\ UNCHANGED database

\* What the commit of c makes visible, all of it at once.
Publish(c) ==
    /\ status' = [status EXCEPT ![tx[c].transport] = "WEIGHED"]
    /\ inventory' = [inventory EXCEPT ![Bin(c)] = tx[c].total]
    /\ weighings' = weighings \cup {RowOf(c)}
    /\ UNCHANGED <<plate, tare, target>>

Commit(c) ==
    /\ pc[c] = "commit"
    /\ Publish(c)
    /\ Return(c, "ok", RowOf(c))

\* The commit is done and its acknowledgement is lost: the caller sees an error.
CommitUnknown(c) ==
    /\ pc[c] = "commit"
    /\ Publish(c)
    /\ Return(c, "transient", NoRow)

\* A statement fails, the context is cancelled or the process dies: rollback.
Fail(c) ==
    /\ pc[c] # "idle"
    /\ Return(c, "transient", NoRow)
    /\ UNCHANGED database

-----------------------------------------------------------------------------
(* The registration statements that touch the same rows.                   *)

CreateTransportTransaction(t) ==
    /\ status[t] = "NONE"
    /\ \A u \in Transports : TruckOf[u] = TruckOf[t] => status[u] # "OPEN"
    /\ status' = [status EXCEPT ![t] = "OPEN"]
    /\ UNCHANGED <<inventory, weighings, plate, tare, target, pc, tx, result>>

\* Mutant: the cancellation does not wait for a finalization in progress.
CancelTransportTransactionUnlocked(t) ==
    /\ status[t] = "OPEN"
    /\ status' = [status EXCEPT ![t] = "CANCELLED"]
    /\ UNCHANGED <<inventory, weighings, plate, tare, target, pc, tx, result>>

\* Mutant: the UPDATE of the cancellation has no status condition.
CancelTransportTransactionAny(t) ==
    /\ status[t] # "NONE"
    /\ \A c \in Callers : ~HoldsTransport(c, t)
    /\ status' = [status EXCEPT ![t] = "CANCELLED"]
    /\ UNCHANGED <<inventory, weighings, plate, tare, target, pc, tx, result>>

\* UPDATE ... WHERE status = 'OPEN' waits for the row lock of a finalization.
CancelTransportTransaction(t) ==
    /\ status[t] = "OPEN"
    /\ \A c \in Callers : ~HoldsTransport(c, t)
    /\ status' = [status EXCEPT ![t] = "CANCELLED"]
    /\ UNCHANGED <<inventory, weighings, plate, tare, target, pc, tx, result>>

\* UpdateTruck rewrites plate and tare; plates are unique.
UpdateTruck(k, p, grams) ==
    /\ \A j \in Trucks \ {k} : plate[j] # p
    /\ plate' = [plate EXCEPT ![k] = p]
    /\ tare' = [tare EXCEPT ![k] = grams]
    /\ UNCHANGED <<status, inventory, weighings, target, pc, tx, result>>

UpdateGrainType(g, grams) ==
    /\ target' = [target EXCEPT ![g] = grams]
    /\ UNCHANGED <<status, inventory, weighings, plate, tare, pc, tx, result>>

-----------------------------------------------------------------------------
Step(c) ==
    \/ FindByEvent(c)
    \/ FindBySession(c)
    \/ SelectTransport(c)
    \/ LockTransport(c)
    \/ UpsertInventory(c)
    \/ InsertWeighing(c)
    \/ MarkWeighed(c)
    \/ Commit(c)
    \/ CommitUnknown(c)

Call(c) ==
    \/ \E i \in Inputs : Begin(c, i)
    \/ Step(c)
    \/ Fail(c)

Registration ==
    \/ \E t \in Transports : CreateTransportTransaction(t) \/ CancelTransportTransaction(t)
    \/ \E k \in Trucks, p \in Plates, grams \in Tares : UpdateTruck(k, p, grams)
    \/ \E g \in Grains, grams \in Targets : UpdateGrainType(g, grams)

Next == (\E c \in Callers : Call(c)) \/ Registration

(***************************************************************************)
(* A caller keeps executing statements, and PostgreSQL grants a row or     *)
(* index lock to its waiters in order: a statement that is free to run     *)
(* again and again does run.  Nothing forces a new call, a failure or a    *)
(* registration.                                                           *)
(***************************************************************************)
Fairness == \A c \in Callers : SF_vars(Step(c))

Spec == Init /\ [][Next]_vars
FairSpec == Spec /\ Fairness
-----------------------------------------------------------------------------
(* Properties.                                                             *)

\* Every variable keeps its type, the tables under their CHECK constraints:
\* Finalize never sends a row that weighings or the inventory would refuse.
TypeOK ==
    /\ status \in [Transports -> {"NONE", "OPEN", "CANCELLED", "WEIGHED"}]
    /\ inventory \in [Bins -> Bigint]
    /\ weighings \subseteq Row
    /\ plate \in [Trucks -> Plates]
    /\ tare \in [Trucks -> Tares]
    /\ target \in [Grains -> Targets]
    /\ pc \in [Callers -> Stages]
    /\ tx \in [Callers -> TxRecord]
    /\ result \in [Callers -> [kind : Outcomes, row : Row \cup {NoRow}]]

(***************************************************************************)
(* However calls, cancellations and failures interleave, a transport is    *)
(* WEIGHED exactly when there is a weighing for it, and then only one:     *)
(* no load is weighed twice and no cancelled load has a weighing, though   *)
(* no unique index protects the transport (Finalize, the FOR UPDATE lock). *)
(***************************************************************************)
WeighedOnce ==
    /\ \A t \in Transports :
            status[t] = "WEIGHED" <=> \E w \in weighings : w.transport = t
    /\ \A v, w \in weighings : v.transport = w.transport => v = w

\* One weighing per (session, stage) and per event id, whoever the callers
\* are: the insert of Finalize behind its two lookups and two unique indexes.
KeysAreUnique == \A v, w \in weighings : v # w => ~Book!Clash(v, w)

(***************************************************************************)
(* An answer without error is durable and is about the caller's passage:   *)
(* its row is committed and carries the event or the session of the input. *)
(* (Finalize: both idempotent reads and the return after the commit.)      *)
(***************************************************************************)
AnswerIsRecorded ==
    \A c \in Callers :
        result[c].kind = "ok" =>
            result[c].row \in ByEvent(In(c)) \cup BySession(In(c))

(***************************************************************************)
(* From the row lock on, nobody else closes the transport, so the final    *)
(* UPDATE always finds it OPEN and the conflict branch after it, which     *)
(* would discard a computed weighing, is never taken.                      *)
(***************************************************************************)
LockedStaysOpen ==
    \A c \in Callers : \A t \in Transports : HoldsTransport(c, t) => status[t] = "OPEN"

(***************************************************************************)
(* The margin of a new weighing is the one of the stock that includes this *)
(* very load, under a target the grain type has had: two loads of one      *)
(* branch and grain never price themselves from the same stock, which is   *)
(* what the RETURNING of the inventory upsert is for.                      *)
(***************************************************************************)
MarginFollowsStock ==
    [][\A w \in weighings' \ weighings :
          \E tgt \in Targets : w.margin = Margin(inventory'[BinOf(w.transport)], tgt)]_vars

(***************************************************************************)
(* History is final: no step changes or removes a weighing, and a WEIGHED  *)
(* or CANCELLED transport stays what it is, whichever of Finalize and the  *)
(* cancellation came first.                                                *)
(***************************************************************************)
HistoryIsFinal ==
    [][/\ weighings \subseteq weighings'
       /\ \A t \in Transports :
             status[t] \in {"WEIGHED", "CANCELLED"} => status'[t] = status[t]]_vars

\* Finalize is one atomic entry in the book, at its commit (WeighingBook).
ImplementsBook == Book!Spec

(***************************************************************************)
(* Callers that wait for each other's row and index locks never deadlock:  *)
(* transport, inventory and index entries are always taken in this order,  *)
(* so every call of Finalize returns.                                      *)
(***************************************************************************)
EveryCallReturns == \A c \in Callers : pc[c] # "idle" ~> pc[c] = "idle"

-----------------------------------------------------------------------------
(***************************************************************************)
(* The inductive invariant behind the safety properties: what a call knows *)
(* at each statement stays true while it holds its locks.                  *)
(***************************************************************************)

\* What the statements before pc[c] have established for caller c.
StageKnows(c) ==
    /\ pc[c] # "idle" => In(c) \in Inputs
    /\ pc[c] \in {"lock", "upsert", "insert", "transition", "commit"} =>
          /\ tx[c].transport \in Transports
          /\ tx[c].tare \in Tares
          /\ tx[c].target \in Targets
          /\ ScaleBranch[In(c).scale] = BranchOf[tx[c].transport]
    /\ pc[c] \in {"upsert", "insert", "transition", "commit"} =>
          /\ Net(c) > 0
          /\ Cost(c) <= MaxBigint
          /\ status[tx[c].transport] = "OPEN"
    /\ pc[c] \in {"insert", "transition", "commit"} =>
          tx[c].total = inventory[Bin(c)] + Net(c)
    /\ pc[c] \in {"transition", "commit"} =>
          \A w \in weighings : ~Book!Clash(w, RowOf(c))

\* No lock is held twice.
LocksExclude(c, d) ==
    /\ pc[d] \in {"upsert", "insert", "transition", "commit"}
          => ~HoldsTransport(c, tx[d].transport)
    /\ pc[d] \in {"insert", "transition", "commit"} => ~HoldsInventory(c, Bin(d))
    /\ pc[d] \in {"transition", "commit"} => ~HoldsKeysAgainst(c, RowOf(d))

IInv ==
    /\ TypeOK
    /\ \A c \in Callers : StageKnows(c)
    /\ \A c, d \in Callers : c # d => LocksExclude(c, d)
    /\ WeighedOnce
    /\ KeysAreUnique
=============================================================================
