------------------------- MODULE FinalizationProofs -------------------------
(***************************************************************************)
(* Proofs about Finalization for any number of callers, transports, scales *)
(* and inputs, and for any tares, targets and prices.                      *)
(***************************************************************************)
EXTENDS Finalization, TLAPS

-----------------------------------------------------------------------------
(* Arithmetic.                                                             *)

\* The applied margin is between 5% and 20% whatever the stock and the target:
\* weighings_margin_range never refuses a row that Finalize computes.
LEMMA MarginRange ==
    ASSUME NEW inv \in Nat, NEW tgt \in Nat \ {0}
    PROVE  Margin(inv, tgt) \in MarginRates
<1> DEFINE s == Smaller(inv, tgt)
           q == (1500 * s) \div tgt
<1>1. s \in Nat /\ s <= tgt
  BY DEF Smaller
<1>2. q \in Int /\ q >= 0
  BY <1>1
<1>3. 2000 - q \in Int /\ 2000 - q <= 2000
  BY <1>2
<1>4. Margin(inv, tgt) = Larger(500, 2000 - q)
  BY DEF Margin
<1> HIDE DEF q
<1>5. Larger(500, 2000 - q) \in 500..2000
  BY <1>3 DEF Larger
<1> QED
  BY <1>4, <1>5 DEF MarginRates

\* A load cost is a natural number: weighings_cost_non_negative always holds.
LEMMA LoadCostNat ==
    ASSUME NEW net \in Nat, NEW price \in Nat
    PROVE  LoadCost(net, price) \in Nat
<1> DEFINE n == 2 * net * price + GramsPerTon
<1>1. GramsPerTon \in Nat \ {0}
  BY ValueTypes
<1>2. n \in Nat
  BY <1>1
<1>3. n \div (2 * GramsPerTon) \in Nat
  BY <1>1, <1>2
<1> QED
  BY <1>3 DEF LoadCost

\* The columns hold natural numbers up to a limit.
LEMMA BigintRange ==
    /\ 0 \in Bigint
    /\ \A n \in Bigint : n \in Nat /\ n <= MaxBigint
    /\ \A n \in Nat : n <= MaxBigint => n \in Bigint
BY ValueTypes DEF Bigint

-----------------------------------------------------------------------------
(* Lemmas about single callers.                                            *)

Working == {"lock", "upsert", "insert", "transition", "commit"}
Locking == {"upsert", "insert", "transition", "commit"}

\* A caller that does not move keeps its row and its locks.
LEMMA SameCaller ==
    ASSUME NEW c \in Callers, pc'[c] = pc[c], tx'[c] = tx[c]
    PROVE  /\ In(c)' = In(c)
           /\ Net(c)' = Net(c)
           /\ Cost(c)' = Cost(c)
           /\ Bin(c)' = Bin(c)
           /\ RowOf(c)' = RowOf(c)
           /\ \A t : HoldsTransport(c, t)' <=> HoldsTransport(c, t)
           /\ \A b : HoldsInventory(c, b)' <=> HoldsInventory(c, b)
           /\ \A w : HoldsKeysAgainst(c, w)' <=> HoldsKeysAgainst(c, w)
BY DEF In, Net, Cost, Bin, RowOf, HoldsTransport, HoldsInventory, HoldsKeysAgainst, BinOf,
       Book!BinOf, Book!Clash

\* Two callers that do not move keep out of each other's way.
LEMMA SameLocks ==
    ASSUME NEW c \in Callers, NEW d \in Callers, LocksExclude(c, d),
           pc'[c] = pc[c], tx'[c] = tx[c], pc'[d] = pc[d], tx'[d] = tx[d]
    PROVE  LocksExclude(c, d)'
<1>1. RowOf(d)' = RowOf(d) /\ Bin(d)' = Bin(d)
  BY SameCaller
<1>2. /\ \A t : HoldsTransport(c, t)' <=> HoldsTransport(c, t)
      /\ \A b : HoldsInventory(c, b)' <=> HoldsInventory(c, b)
      /\ \A w : HoldsKeysAgainst(c, w)' <=> HoldsKeysAgainst(c, w)
  BY SameCaller
<1>3. pc[d] \in Locking => ~HoldsTransport(c, tx[d].transport)'
  BY <1>2 DEF LocksExclude, Locking
<1>4. pc[d] \in {"insert", "transition", "commit"} => ~HoldsInventory(c, Bin(d))'
  BY <1>1, <1>2 DEF LocksExclude
<1>5. pc[d] \in {"transition", "commit"} => ~HoldsKeysAgainst(c, RowOf(d))'
  BY <1>1, <1>2 DEF LocksExclude
<1> QED
  BY <1>3, <1>4, <1>5 DEF LocksExclude, Locking

\* A caller that does not move still knows what it knew while the database
\* keeps the rows it has locked and gets no weighing that clashes with its own.
LEMMA SameKnowledge ==
    ASSUME NEW c \in Callers, StageKnows(c), pc'[c] = pc[c], tx'[c] = tx[c],
           pc[c] \in Locking =>
               (status[tx[c].transport] = "OPEN" => status'[tx[c].transport] = "OPEN"),
           pc[c] \in {"insert", "transition", "commit"} =>
               inventory'[Bin(c)] = inventory[Bin(c)],
           pc[c] \in {"transition", "commit"} =>
               \A w \in weighings' : w \in weighings \/ ~Book!Clash(w, RowOf(c))
    PROVE  StageKnows(c)'
<1>1. /\ In(c)' = In(c) /\ Net(c)' = Net(c) /\ Cost(c)' = Cost(c)
      /\ Bin(c)' = Bin(c) /\ RowOf(c)' = RowOf(c)
  BY SameCaller
<1>2. \A w : Book!Clash(w, RowOf(c))' <=> Book!Clash(w, RowOf(c))
  BY <1>1 DEF Book!Clash
<1>3. pc[c] # "idle" => In(c) \in Inputs
  BY DEF StageKnows
<1>4. pc[c] \in Working =>
          /\ tx[c].transport \in Transports
          /\ tx[c].tare \in Tares
          /\ tx[c].target \in Targets
          /\ ScaleBranch[In(c).scale] = BranchOf[tx[c].transport]
  BY DEF StageKnows, Working
<1>5. pc[c] \in Locking => Net(c) > 0 /\ Cost(c) <= MaxBigint /\ status'[tx[c].transport] = "OPEN"
  BY DEF StageKnows, Locking
<1>6. pc[c] \in {"insert", "transition", "commit"} =>
          tx[c].total = inventory'[Bin(c)] + Net(c)
  BY DEF StageKnows
<1>7. pc[c] \in {"transition", "commit"} =>
          \A w \in weighings' : ~Book!Clash(w, RowOf(c))
  BY DEF StageKnows
<1> QED
  BY <1>1, <1>2, <1>3, <1>4, <1>5, <1>6, <1>7 DEF StageKnows, Working, Locking

\* The row a caller is about to insert satisfies every constraint of weighings.
LEMMA RowIsTyped ==
    ASSUME NEW c \in Callers, TypeOK, StageKnows(c), pc[c] \in Locking
    PROVE  RowOf(c) \in Row /\ Net(c) \in Bigint \ {0} /\ Bin(c) \in Bins
<1> DEFINE t == tx[c].transport
<1>1. /\ In(c) \in Inputs /\ t \in Transports /\ tx[c].tare \in Tares /\ tx[c].target \in Targets
      /\ Net(c) > 0 /\ Cost(c) <= MaxBigint /\ tx[c].total \in Nat
  BY BigintRange DEF StageKnows, Locking, TypeOK, TxRecord, Stages
<1>2. /\ In(c).session \in Sessions /\ In(c).event \in Events \cup {NoEvent}
      /\ In(c).scale \in Scales /\ In(c).gross \in Int /\ In(c).gross <= MaxBigint
  BY <1>1, InputTypes
<1>3. tx[c].tare \in Nat \ {0} /\ tx[c].target \in Nat \ {0}
  BY <1>1, ValueTypes
<1>4. Net(c) \in Bigint \ {0} /\ In(c).gross \in Bigint \ {0} /\ Net(c) \in Nat
  BY <1>1, <1>2, <1>3, ValueTypes DEF Net, Bigint
<1>5. Margin(tx[c].total, tx[c].target) \in MarginRates
  BY <1>1, <1>3, MarginRange
<1>6. Cost(c) \in Bigint
  <2>1. Cost(c) \in Nat
    BY <1>1, <1>4, ColumnTypes, LoadCostNat DEF Cost
  <2> QED
    BY <1>1, <2>1, BigintRange
<1>7. BranchOf[t] \in Branches /\ GrainOf[t] \in Grains
  BY <1>1, ColumnTypes
<1>8. Bin(c) \in Bins
  BY <1>7 DEF Bin, BinOf, Book!BinOf, Bins, Book!Bins
<1> HIDE DEF t
<1>9. RowOf(c) \in Row
  BY <1>1, <1>2, <1>4, <1>5, <1>6 DEF RowOf, Row, t
<1> QED
  BY <1>4, <1>8, <1>9

-----------------------------------------------------------------------------
(* The steps.                                                              *)

\* A call that ends, whatever it answers, releases its locks and leaves the
\* committed database and all other callers as they were.
LEMMA CallEnds ==
    ASSUME IInv, NEW c \in Callers, NEW kind \in Outcomes, NEW row \in Row \cup {NoRow},
           pc[c] # "idle", Return(c, kind, row), UNCHANGED database
    PROVE  IInv'
<1>1. /\ TypeOK /\ StageKnows(c)
      /\ In(c) \in Inputs
  BY DEF IInv, StageKnows
<1>2. /\ pc' = [pc EXCEPT ![c] = "idle"] /\ tx' = [tx EXCEPT ![c] = Fresh(In(c))]
      /\ result' = [result EXCEPT ![c] = [kind |-> kind, row |-> row]]
  BY DEF Return
<1>3. UNCHANGED <<status, inventory, weighings, plate, tare, target>>
  BY DEF database
<1>4. TypeOK'
  BY <1>1, <1>2, <1>3, BigintRange DEF TypeOK, TxRecord, Fresh, Stages
<1>5. pc'[c] = "idle" /\ \A d \in Callers \ {c} : pc'[d] = pc[d] /\ tx'[d] = tx[d]
  BY <1>1, <1>2 DEF TypeOK
<1>6. \A d \in Callers : StageKnows(d)'
  <2> SUFFICES ASSUME NEW d \in Callers PROVE StageKnows(d)'
    OBVIOUS
  <2>1. CASE d = c
    BY <2>1, <1>5 DEF StageKnows
  <2>2. CASE d # c
    BY <2>2, <1>3, <1>5, SameKnowledge DEF IInv
  <2> QED
    BY <2>1, <2>2
<1>7. \A d, e \in Callers : d # e => LocksExclude(d, e)'
  <2> SUFFICES ASSUME NEW d \in Callers, NEW e \in Callers, d # e PROVE LocksExclude(d, e)'
    OBVIOUS
  <2>1. CASE d = c \/ e = c
    BY <2>1, <1>5 DEF LocksExclude, HoldsTransport, HoldsInventory, HoldsKeysAgainst
  <2>2. CASE d # c /\ e # c
    BY <2>2, <1>5, SameLocks DEF IInv
  <2> QED
    BY <2>1, <2>2
<1>8. WeighedOnce' /\ KeysAreUnique'
  BY <1>3 DEF IInv, WeighedOnce, KeysAreUnique, Book!Clash
<1> QED
  BY <1>4, <1>6, <1>7, <1>8 DEF IInv

\* A call that moves on to its next statement: what is left to show is that
\* it has its types and its knowledge, and that its new locks are free.
LEMMA CallMoves ==
    ASSUME IInv, NEW c \in Callers, TypeOK', UNCHANGED database,
           \A d \in Callers \ {c} : pc'[d] = pc[d] /\ tx'[d] = tx[d],
           StageKnows(c)',
           \A d \in Callers \ {c} : LocksExclude(c, d)' /\ LocksExclude(d, c)'
    PROVE  IInv'
<1>1. UNCHANGED <<status, inventory, weighings, plate, tare, target>>
  BY DEF database
<1>2. \A d \in Callers \ {c} : StageKnows(d)'
  BY <1>1, SameKnowledge DEF IInv
<1>3. \A d, e \in Callers \ {c} : d # e => LocksExclude(d, e)'
  BY SameLocks DEF IInv
<1>4. \A d, e \in Callers : d # e => LocksExclude(d, e)'
  <2> SUFFICES ASSUME NEW d \in Callers, NEW e \in Callers, d # e PROVE LocksExclude(d, e)'
    OBVIOUS
  <2>1. CASE d = c
    BY <2>1
  <2>2. CASE e = c
    BY <2>2
  <2>3. CASE d # c /\ e # c
    BY <2>3, <1>3
  <2> QED
    BY <2>1, <2>2, <2>3
<1>5. WeighedOnce' /\ KeysAreUnique'
  BY <1>1 DEF IInv, WeighedOnce, KeysAreUnique, Book!Clash
<1> QED
  BY <1>2, <1>4, <1>5 DEF IInv

\* A call goes to a statement that takes no lock: nothing can stand in its way.
LEMMA UnlockedMove ==
    ASSUME IInv, NEW c \in Callers, NEW stage \in {"idle", "byEvent", "bySession", "select", "lock"},
           pc' = [pc EXCEPT ![c] = stage], UNCHANGED database, TypeOK',
           \A d \in Callers \ {c} : tx'[d] = tx[d], StageKnows(c)'
    PROVE  IInv'
<1>1. pc'[c] = stage /\ \A d \in Callers \ {c} : pc'[d] = pc[d]
  BY DEF IInv, TypeOK
<1>2. \A d \in Callers \ {c} : LocksExclude(c, d)' /\ LocksExclude(d, c)'
  BY <1>1 DEF LocksExclude, HoldsTransport, HoldsInventory, HoldsKeysAgainst
<1> QED
  BY <1>1, <1>2, CallMoves

LEMMA BeginStep ==
    ASSUME IInv, NEW c \in Callers, NEW i \in Inputs, Begin(c, i)
    PROVE  IInv'
<1> DEFINE stage == IF Valid(i) THEN "byEvent" ELSE "idle"
<1>1. pc' = [pc EXCEPT ![c] = stage] /\ tx' = [tx EXCEPT ![c] = Fresh(i)]
  BY DEF Begin
<1>2. stage \in {"idle", "byEvent"}
  OBVIOUS
<1> HIDE DEF stage
<1>3. pc'[c] = stage /\ tx'[c] = Fresh(i) /\ \A d \in Callers \ {c} : tx'[d] = tx[d]
  BY <1>1 DEF IInv, TypeOK
<1>4. TypeOK'
  BY <1>1, <1>2, BigintRange DEF IInv, TypeOK, TxRecord, Begin, Fresh, Stages, Outcomes, database
<1>5. StageKnows(c)'
  BY <1>2, <1>3 DEF StageKnows, In, Fresh
<1> QED
  BY <1>1, <1>2, <1>3, <1>4, <1>5, UnlockedMove DEF Begin

LEMMA FindByEventStep ==
    ASSUME IInv, NEW c \in Callers, FindByEvent(c)
    PROVE  IInv'
<1>1. CASE \E w \in ByEvent(In(c)) : Return(c, "ok", w)
  BY <1>1, CallEnds DEF FindByEvent, ByEvent, IInv, TypeOK, Outcomes
<1>2. CASE Goto(c, "bySession") /\ UNCHANGED tx
  <2>1. TypeOK' /\ StageKnows(c)'
    BY <1>2 DEF FindByEvent, Goto, IInv, TypeOK, Stages, StageKnows, In, database
  <2> QED
    BY <1>2, <2>1, UnlockedMove DEF FindByEvent, Goto
<1> QED
  BY <1>1, <1>2 DEF FindByEvent

LEMMA FindBySessionStep ==
    ASSUME IInv, NEW c \in Callers, FindBySession(c)
    PROVE  IInv'
<1>1. CASE \E w \in BySession(In(c)) : Return(c, "ok", w)
  BY <1>1, CallEnds DEF FindBySession, BySession, IInv, TypeOK, Outcomes
<1>2. CASE Goto(c, "select") /\ UNCHANGED tx
  <2>1. TypeOK' /\ StageKnows(c)'
    BY <1>2 DEF FindBySession, Goto, IInv, TypeOK, Stages, StageKnows, In, database
  <2> QED
    BY <1>2, <2>1, UnlockedMove DEF FindBySession, Goto
<1> QED
  BY <1>1, <1>2 DEF FindBySession

LEMMA SelectTransportStep ==
    ASSUME IInv, NEW c \in Callers, SelectTransport(c)
    PROVE  IInv'
<1>1. ASSUME NEW t \in Matches(In(c)), Goto(c, "lock"),
             tx' = [tx EXCEPT ![c] = [in |-> In(c), transport |-> t, tare |-> tare[TruckOf[t]],
                                      target |-> target[GrainOf[t]], total |-> 0]]
      PROVE  IInv'
  <2>1. t \in Transports /\ BranchOf[t] = ScaleBranch[In(c).scale]
    BY DEF Matches
  <2>2. tare[TruckOf[t]] \in Tares /\ target[GrainOf[t]] \in Targets
    BY <2>1, ColumnTypes DEF IInv, TypeOK
  <2>3. In(c) \in Inputs
    BY DEF IInv, StageKnows, SelectTransport
  <2>4. TypeOK'
    BY <1>1, <2>1, <2>2, <2>3, BigintRange DEF SelectTransport, Goto, IInv, TypeOK, TxRecord, Stages, database
  <2>5. /\ pc'[c] = "lock" /\ tx'[c].in = In(c) /\ tx'[c].transport = t
        /\ tx'[c].tare = tare[TruckOf[t]] /\ tx'[c].target = target[GrainOf[t]]
        /\ \A d \in Callers \ {c} : tx'[d] = tx[d]
    BY <1>1 DEF Goto, IInv, TypeOK
  <2>6. StageKnows(c)'
    BY <2>1, <2>2, <2>3, <2>5 DEF StageKnows, In
  <2> QED
    BY <1>1, <2>4, <2>5, <2>6, UnlockedMove DEF SelectTransport, Goto
<1>2. CASE Return(c, "notfound", NoRow)
  BY <1>2, CallEnds DEF SelectTransport, Outcomes
<1> QED
  BY <1>1, <1>2 DEF SelectTransport

LEMMA LockTransportStep ==
    ASSUME IInv, NEW c \in Callers, LockTransport(c)
    PROVE  IInv'
<1>1. pc[c] = "lock" /\ UNCHANGED database /\ TypeOK /\ StageKnows(c)
  BY DEF LockTransport, IInv
<1>2. ASSUME NEW kind \in {"notfound", "conflict", "validation", "transient"}, Return(c, kind, NoRow)
      PROVE  IInv'
  BY <1>1, <1>2, CallEnds DEF Outcomes
<1>3. ASSUME status[tx[c].transport] = "OPEN", ~(In(c).gross <= tx[c].tare),
             ~(Cost(c) > MaxBigint), Goto(c, "upsert"), UNCHANGED tx
      PROVE  IInv'
  <2>1. TypeOK'
    BY <1>1, <1>3 DEF Goto, TypeOK, Stages, database
  <2>2. pc'[c] = "upsert" /\ tx' = tx /\ \A d \in Callers \ {c} : pc'[d] = pc[d]
    BY <1>1, <1>3 DEF Goto, TypeOK
  <2>3. StageKnows(c)'
    <3>1. In(c).gross \in Int /\ tx[c].tare \in Nat
      BY <1>1, InputTypes, ValueTypes DEF StageKnows
    <3>2. Net(c)' > 0 /\ Net(c) \in Nat
      BY <3>1, <2>2, <1>3 DEF Net, In
    <3>3. Cost(c) \in Nat
      BY <1>1, <3>2, ColumnTypes, LoadCostNat DEF Cost, StageKnows
    <3>4. Cost(c)' <= MaxBigint
      <4>1. Cost(c)' = Cost(c)
        BY <2>2 DEF Cost, Net, In
      <4>2. Cost(c) <= MaxBigint
        BY <1>3, <3>3, ValueTypes
      <4> QED
        BY <4>1, <4>2
    <3> QED
      BY <1>1, <1>3, <2>2, <3>2, <3>4 DEF StageKnows, In, database
  <2>4. \A d \in Callers \ {c} : LocksExclude(c, d)' /\ LocksExclude(d, c)'
    BY <1>1, <2>2 DEF LockTransport, LocksExclude, HoldsTransport, HoldsInventory, HoldsKeysAgainst
  <2> QED
    BY <1>1, <2>1, <2>2, <2>3, <2>4, CallMoves
<1> QED
  BY <1>2, <1>3 DEF LockTransport

LEMMA UpsertInventoryStep ==
    ASSUME IInv, NEW c \in Callers, UpsertInventory(c)
    PROVE  IInv'
<1>1. pc[c] = "upsert" /\ UNCHANGED database /\ TypeOK /\ StageKnows(c)
  BY DEF UpsertInventory, IInv
<1>2. Net(c) \in Nat \ {0} /\ Bin(c) \in Bins
  BY <1>1, RowIsTyped, BigintRange DEF Locking
<1> DEFINE new == inventory[Bin(c)] + Net(c)
<1>3. new \in Nat
  BY <1>1, <1>2, BigintRange DEF TypeOK
<1>4. CASE new > MaxBigint
  <2>1. Return(c, "transient", NoRow)
    BY <1>4 DEF UpsertInventory
  <2> QED
    BY <1>1, <2>1, CallEnds DEF Outcomes
<1>5. CASE ~(new > MaxBigint)
  <2>1. /\ pc' = [pc EXCEPT ![c] = "insert"] /\ UNCHANGED result
        /\ tx' = [tx EXCEPT ![c].total = new]
    BY <1>5 DEF UpsertInventory, Goto
  <2> HIDE DEF new
  <2>2. new \in Bigint
    BY <1>3, <1>5, BigintRange, ValueTypes
  <2>3. TypeOK'
    <3>1. tx \in [Callers -> TxRecord] /\ tx[c] \in TxRecord
      BY <1>1 DEF TypeOK
    <3>2. [tx[c] EXCEPT !.total = new] \in TxRecord
      BY <2>2, <3>1 DEF TxRecord
    <3>3. tx' \in [Callers -> TxRecord]
      BY <2>1, <3>1, <3>2
    <3>4. pc' \in [Callers -> Stages]
      BY <1>1, <2>1 DEF TypeOK, Stages
    <3> QED
      BY <1>1, <2>1, <3>3, <3>4 DEF TypeOK, database
  <2>4. /\ pc'[c] = "insert" /\ tx'[c] = [tx[c] EXCEPT !.total = new]
        /\ \A d \in Callers \ {c} : pc'[d] = pc[d] /\ tx'[d] = tx[d]
    BY <1>1, <2>1 DEF TypeOK
  <2>5. /\ tx'[c].in = tx[c].in /\ tx'[c].transport = tx[c].transport
        /\ tx'[c].tare = tx[c].tare /\ tx'[c].target = tx[c].target /\ tx'[c].total = new
    BY <1>1, <2>4 DEF TypeOK, TxRecord
  <2>6. In(c)' = In(c) /\ Net(c)' = Net(c) /\ Cost(c)' = Cost(c) /\ Bin(c)' = Bin(c)
    BY <2>5 DEF In, Net, Cost, Bin, BinOf, Book!BinOf
  <2>7. StageKnows(c)'
    BY <1>1, <2>4, <2>5, <2>6 DEF StageKnows, database, new
  <2>8. \A d \in Callers \ {c} : LocksExclude(c, d)' /\ LocksExclude(d, c)'
    <3> SUFFICES ASSUME NEW d \in Callers \ {c}
                 PROVE  LocksExclude(c, d)' /\ LocksExclude(d, c)'
      OBVIOUS
    <3>1. LocksExclude(c, d) /\ LocksExclude(d, c)
      BY DEF IInv
    <3>2. Bin(d)' = Bin(d) /\ RowOf(d)' = RowOf(d)
          /\ (\A t : HoldsTransport(d, t)' <=> HoldsTransport(d, t))
          /\ (\A b : HoldsInventory(d, b)' <=> HoldsInventory(d, b))
      BY <2>4, SameCaller
    <3>3. ~HoldsInventory(d, Bin(c))
      BY DEF UpsertInventory
    <3>4. pc[d] \in {"insert", "transition", "commit"} => Bin(d) # Bin(c)
      BY <3>3 DEF HoldsInventory
    <3>5. LocksExclude(c, d)'
      BY <1>1, <2>4, <2>5, <2>6, <3>1, <3>2, <3>4
         DEF LocksExclude, HoldsTransport, HoldsInventory, HoldsKeysAgainst
    <3>6. LocksExclude(d, c)'
      BY <1>1, <2>4, <2>5, <2>6, <3>1, <3>2, <3>3 DEF LocksExclude, HoldsTransport
    <3> QED
      BY <3>5, <3>6
  <2> QED
    BY <1>1, <2>3, <2>4, <2>7, <2>8, CallMoves
<1> QED
  BY <1>4, <1>5

LEMMA InsertWeighingStep ==
    ASSUME IInv, NEW c \in Callers, InsertWeighing(c)
    PROVE  IInv'
<1>1. pc[c] = "insert" /\ UNCHANGED database /\ TypeOK /\ StageKnows(c)
  BY DEF InsertWeighing, IInv
<1>2. CASE Return(c, "transient", NoRow)
  BY <1>1, <1>2, CallEnds DEF Outcomes
<1>3. ASSUME \A w \in weighings : ~Book!Clash(w, RowOf(c)), Goto(c, "transition"), UNCHANGED tx
      PROVE  IInv'
  <2>1. TypeOK'
    BY <1>1, <1>3 DEF Goto, TypeOK, Stages, database
  <2>2. pc'[c] = "transition" /\ tx' = tx /\ \A d \in Callers \ {c} : pc'[d] = pc[d]
    BY <1>1, <1>3 DEF Goto, TypeOK
  <2>3. /\ In(c)' = In(c) /\ Net(c)' = Net(c) /\ Cost(c)' = Cost(c)
        /\ Bin(c)' = Bin(c) /\ RowOf(c)' = RowOf(c)
    BY <2>2 DEF In, Net, Cost, Bin, RowOf, BinOf, Book!BinOf
  <2>4. \A w : Book!Clash(w, RowOf(c))' <=> Book!Clash(w, RowOf(c))
    BY <2>3 DEF Book!Clash
  <2>5. StageKnows(c)'
    BY <1>1, <1>3, <2>2, <2>3, <2>4 DEF StageKnows, database
  <2>6. \A d \in Callers \ {c} : LocksExclude(c, d)' /\ LocksExclude(d, c)'
    <3> SUFFICES ASSUME NEW d \in Callers \ {c}
                 PROVE  LocksExclude(c, d)' /\ LocksExclude(d, c)'
      OBVIOUS
    <3>1. LocksExclude(c, d) /\ LocksExclude(d, c)
      BY DEF IInv
    <3>2. Bin(d)' = Bin(d) /\ RowOf(d)' = RowOf(d)
          /\ (\A t : HoldsTransport(d, t)' <=> HoldsTransport(d, t))
          /\ (\A b : HoldsInventory(d, b)' <=> HoldsInventory(d, b))
          /\ (\A w : HoldsKeysAgainst(d, w)' <=> HoldsKeysAgainst(d, w))
      BY <2>2, SameCaller
    <3>3. ~HoldsKeysAgainst(d, RowOf(c))
      BY <1>3 DEF InsertWeighing
    <3>4. pc[d] \in {"transition", "commit"} => ~Book!Clash(RowOf(c), RowOf(d))
      BY <3>3 DEF HoldsKeysAgainst, Book!Clash
    <3>5. LocksExclude(d, c)'
      BY <1>1, <2>2, <2>3, <3>1, <3>2, <3>3 DEF LocksExclude
    <3>6. pc[d] \in {"transition", "commit"} => ~HoldsKeysAgainst(c, RowOf(d))'
      BY <2>2, <2>3, <3>2, <3>4 DEF HoldsKeysAgainst, Book!Clash
    <3>7. /\ \A t : HoldsTransport(c, t)' <=> HoldsTransport(c, t)
          /\ \A b : HoldsInventory(c, b)' <=> HoldsInventory(c, b)
      BY <1>1, <2>2, <2>3 DEF HoldsTransport, HoldsInventory
    <3>8. LocksExclude(c, d)'
      BY <2>2, <3>1, <3>2, <3>6, <3>7 DEF LocksExclude
    <3> QED
      BY <3>5, <3>8
  <2> QED
    BY <1>1, <2>1, <2>2, <2>5, <2>6, CallMoves
<1> QED
  BY <1>2, <1>3 DEF InsertWeighing

LEMMA MarkWeighedStep ==
    ASSUME IInv, NEW c \in Callers, MarkWeighed(c)
    PROVE  IInv'
<1>1. pc[c] = "transition" /\ UNCHANGED database /\ TypeOK /\ StageKnows(c)
  BY DEF MarkWeighed, IInv
<1>2. status[tx[c].transport] = "OPEN"
  BY <1>1 DEF StageKnows
<1>3. Goto(c, "commit") /\ UNCHANGED tx
  BY <1>2 DEF MarkWeighed
<1>4. TypeOK'
  BY <1>1, <1>3 DEF Goto, TypeOK, Stages, database
<1>5. pc'[c] = "commit" /\ tx' = tx /\ \A d \in Callers \ {c} : pc'[d] = pc[d]
  BY <1>1, <1>3 DEF Goto, TypeOK
<1>6. /\ In(c)' = In(c) /\ Net(c)' = Net(c) /\ Cost(c)' = Cost(c)
      /\ Bin(c)' = Bin(c) /\ RowOf(c)' = RowOf(c)
  BY <1>5 DEF In, Net, Cost, Bin, RowOf, BinOf, Book!BinOf
<1>7. \A w : Book!Clash(w, RowOf(c))' <=> Book!Clash(w, RowOf(c))
  BY <1>6 DEF Book!Clash
<1>8. StageKnows(c)'
  BY <1>1, <1>5, <1>6, <1>7 DEF StageKnows, database
<1>9. /\ \A t : HoldsTransport(c, t)' <=> HoldsTransport(c, t)
      /\ \A b : HoldsInventory(c, b)' <=> HoldsInventory(c, b)
      /\ \A w : HoldsKeysAgainst(c, w)' <=> HoldsKeysAgainst(c, w)
  BY <1>1, <1>5, <1>6 DEF HoldsTransport, HoldsInventory, HoldsKeysAgainst, Book!Clash
<1>10. \A d \in Callers \ {c} : LocksExclude(c, d)' /\ LocksExclude(d, c)'
  <2> SUFFICES ASSUME NEW d \in Callers \ {c}
               PROVE  LocksExclude(c, d)' /\ LocksExclude(d, c)'
    OBVIOUS
  <2>1. LocksExclude(c, d) /\ LocksExclude(d, c)
    BY DEF IInv
  <2>2. Bin(d)' = Bin(d) /\ RowOf(d)' = RowOf(d)
        /\ (\A t : HoldsTransport(d, t)' <=> HoldsTransport(d, t))
        /\ (\A b : HoldsInventory(d, b)' <=> HoldsInventory(d, b))
        /\ (\A w : HoldsKeysAgainst(d, w)' <=> HoldsKeysAgainst(d, w))
    BY <1>5, SameCaller
  <2>3. LocksExclude(c, d)'
    BY <1>5, <1>9, <2>1, <2>2 DEF LocksExclude
  <2>4. LocksExclude(d, c)'
    BY <1>1, <1>5, <1>6, <2>1, <2>2 DEF LocksExclude
  <2> QED
    BY <2>3, <2>4
<1> QED
  BY <1>1, <1>4, <1>5, <1>8, <1>10, CallMoves

(***************************************************************************)
(* The commit.  The locks of c keep its transport, its inventory row and   *)
(* its keys apart from those of every other caller, so what the others     *)
(* know stays true of the new database.                                    *)
(***************************************************************************)
LEMMA PublishStep ==
    ASSUME IInv, NEW c \in Callers, pc[c] = "commit", Publish(c),
           NEW kind \in Outcomes, NEW row \in Row \cup {NoRow}, Return(c, kind, row)
    PROVE  IInv'
<1> DEFINE t == tx[c].transport
           b == Bin(c)
           r == RowOf(c)
<1>1. /\ TypeOK /\ StageKnows(c) /\ In(c) \in Inputs /\ t \in Transports
      /\ status[t] = "OPEN" /\ tx[c].total = inventory[b] + Net(c)
      /\ \A w \in weighings : ~Book!Clash(w, r)
  BY DEF IInv, StageKnows
<1>2. r \in Row /\ b \in Bins /\ tx[c].total \in Bigint
  BY <1>1, RowIsTyped DEF Locking, TypeOK, TxRecord
<1>3. r.transport = t
  BY DEF RowOf
<1>4. /\ status' = [status EXCEPT ![t] = "WEIGHED"]
      /\ inventory' = [inventory EXCEPT ![b] = tx[c].total]
      /\ weighings' = weighings \cup {r}
      /\ UNCHANGED <<plate, tare, target>>
  BY DEF Publish
<1>5. /\ pc' = [pc EXCEPT ![c] = "idle"] /\ tx' = [tx EXCEPT ![c] = Fresh(In(c))]
      /\ result' = [result EXCEPT ![c] = [kind |-> kind, row |-> row]]
  BY DEF Return
<1>6. TypeOK'
  <2>1. /\ status' \in [Transports -> {"NONE", "OPEN", "CANCELLED", "WEIGHED"}]
        /\ inventory' \in [Bins -> Bigint] /\ weighings' \subseteq Row
    BY <1>1, <1>2, <1>4 DEF TypeOK
  <2>2. /\ pc' \in [Callers -> Stages] /\ tx' \in [Callers -> TxRecord]
        /\ result' \in [Callers -> [kind : Outcomes, row : Row \cup {NoRow}]]
    BY <1>1, <1>5, BigintRange DEF TypeOK, TxRecord, Fresh, Stages
  <2> QED
    BY <1>1, <1>4, <2>1, <2>2 DEF TypeOK
<1>7. pc'[c] = "idle" /\ \A d \in Callers \ {c} : pc'[d] = pc[d] /\ tx'[d] = tx[d]
  BY <1>1, <1>5 DEF TypeOK
<1>8. \A d \in Callers \ {c} : StageKnows(d)'
  <2> SUFFICES ASSUME NEW d \in Callers \ {c} PROVE StageKnows(d)'
    OBVIOUS
  <2>1. StageKnows(d) /\ LocksExclude(c, d)
    BY DEF IInv
  <2>2. pc[d] \in Locking => tx[d].transport \in Transports \ {t} /\ status[tx[d].transport] = "OPEN"
    BY <2>1 DEF StageKnows, LocksExclude, HoldsTransport, Locking
  <2>3. pc[d] \in {"insert", "transition", "commit"} => Bin(d) \in Bins \ {b}
    BY <1>1, <2>1, RowIsTyped DEF LocksExclude, HoldsInventory, Locking
  <2>4. pc[d] \in {"transition", "commit"} => ~Book!Clash(r, RowOf(d))
    BY <2>1 DEF LocksExclude, HoldsKeysAgainst
  <2>5. pc[d] \in Locking => status'[tx[d].transport] = "OPEN"
    BY <1>1, <1>4, <2>2 DEF TypeOK
  <2>6. pc[d] \in {"insert", "transition", "commit"} => inventory'[Bin(d)] = inventory[Bin(d)]
    BY <1>1, <1>4, <2>3 DEF TypeOK
  <2>7. pc[d] \in {"transition", "commit"} =>
            \A w \in weighings' : w \in weighings \/ ~Book!Clash(w, RowOf(d))
    BY <1>4, <2>4
  <2> QED
    BY <1>7, <2>1, <2>5, <2>6, <2>7, SameKnowledge
<1>9. StageKnows(c)'
  BY <1>7 DEF StageKnows
<1>10. \A d, e \in Callers : d # e => LocksExclude(d, e)'
  <2> SUFFICES ASSUME NEW d \in Callers, NEW e \in Callers, d # e PROVE LocksExclude(d, e)'
    OBVIOUS
  <2>1. CASE d = c \/ e = c
    BY <2>1, <1>7 DEF LocksExclude, HoldsTransport, HoldsInventory, HoldsKeysAgainst
  <2>2. CASE d # c /\ e # c
    BY <2>2, <1>7, SameLocks DEF IInv
  <2> QED
    BY <2>1, <2>2
<1>11. WeighedOnce'
  <2>1. \A w \in weighings : w.transport # t
    BY <1>1 DEF IInv, WeighedOnce
  <2>2. \A u \in Transports : status'[u] = "WEIGHED" <=> \E w \in weighings' : w.transport = u
    <3> SUFFICES ASSUME NEW u \in Transports
                 PROVE  status'[u] = "WEIGHED" <=> \E w \in weighings' : w.transport = u
      OBVIOUS
    <3>1. CASE u = t
      BY <3>1, <1>1, <1>3, <1>4 DEF TypeOK
    <3>2. CASE u # t
      <4>1. status'[u] = status[u]
        BY <3>2, <1>1, <1>4 DEF TypeOK
      <4>2. (\E w \in weighings' : w.transport = u) <=> (\E w \in weighings : w.transport = u)
        BY <3>2, <1>3, <1>4
      <4> QED
        BY <4>1, <4>2 DEF IInv, WeighedOnce
    <3> QED
      BY <3>1, <3>2
  <2>3. \A v, w \in weighings' : v.transport = w.transport => v = w
    BY <1>3, <1>4, <2>1 DEF IInv, WeighedOnce
  <2> QED
    BY <2>2, <2>3 DEF WeighedOnce
<1>12. KeysAreUnique'
  BY <1>1, <1>4 DEF IInv, KeysAreUnique, Book!Clash
<1> QED
  BY <1>6, <1>8, <1>9, <1>10, <1>11, <1>12 DEF IInv

LEMMA FailStep ==
    ASSUME IInv, NEW c \in Callers, Fail(c)
    PROVE  IInv'
BY CallEnds DEF Fail, Outcomes

LEMMA StatementStep ==
    ASSUME IInv, NEW c \in Callers, Step(c)
    PROVE  IInv'
<1>1. CASE FindByEvent(c)
  BY <1>1, FindByEventStep
<1>2. CASE FindBySession(c)
  BY <1>2, FindBySessionStep
<1>3. CASE SelectTransport(c)
  BY <1>3, SelectTransportStep
<1>4. CASE LockTransport(c)
  BY <1>4, LockTransportStep
<1>5. CASE UpsertInventory(c)
  BY <1>5, UpsertInventoryStep
<1>6. CASE InsertWeighing(c)
  BY <1>6, InsertWeighingStep
<1>7. CASE MarkWeighed(c)
  BY <1>7, MarkWeighedStep
<1>8. CASE Commit(c)
  <2>1. RowOf(c) \in Row
    BY <1>8, RowIsTyped DEF Commit, IInv, Locking
  <2> QED
    BY <1>8, <2>1, PublishStep DEF Commit, Outcomes
<1>9. CASE CommitUnknown(c)
  BY <1>9, PublishStep DEF CommitUnknown, Outcomes
<1> QED
  BY <1>1, <1>2, <1>3, <1>4, <1>5, <1>6, <1>7, <1>8, <1>9 DEF Step

\* A registration statement touches only rows that no call has locked.
LEMMA RegistrationStep ==
    ASSUME IInv, Registration
    PROVE  IInv'
<1>1. ASSUME NEW t \in Transports, NEW new \in {"OPEN", "CANCELLED"},
             status' = [status EXCEPT ![t] = new],
             status[t] \in {"NONE", "OPEN"},
             status[t] = "NONE" \/ \A c \in Callers : ~HoldsTransport(c, t),
             UNCHANGED <<inventory, weighings, plate, tare, target, pc, tx, result>>
      PROVE  IInv'
  <2>1. TypeOK'
    BY <1>1 DEF IInv, TypeOK
  <2>2. \A c \in Callers : StageKnows(c)'
    <3> SUFFICES ASSUME NEW c \in Callers PROVE StageKnows(c)'
      OBVIOUS
    <3>1. pc[c] \in Locking =>
              /\ tx[c].transport \in Transports /\ status[tx[c].transport] = "OPEN"
              /\ tx[c].transport # t
      BY <1>1 DEF IInv, StageKnows, HoldsTransport, Locking
    <3>2. pc[c] \in Locking => status'[tx[c].transport] = "OPEN"
      BY <1>1, <3>1 DEF IInv, TypeOK
    <3> QED
      BY <1>1, <3>2, SameKnowledge DEF IInv
  <2>3. \A c, d \in Callers : c # d => LocksExclude(c, d)'
    BY <1>1, SameLocks DEF IInv
  <2>4. WeighedOnce'
    <3>1. \A u \in Transports : status'[u] = "WEIGHED" <=> status[u] = "WEIGHED"
      BY <1>1 DEF IInv, TypeOK
    <3> QED
      BY <1>1, <3>1 DEF IInv, WeighedOnce
  <2>5. KeysAreUnique'
    BY <1>1 DEF IInv, KeysAreUnique, Book!Clash
  <2> QED
    BY <2>1, <2>2, <2>3, <2>4, <2>5 DEF IInv
<1>2. ASSUME TypeOK', UNCHANGED <<status, inventory, weighings, pc, tx, result>>
      PROVE  IInv'
  <2>1. \A c \in Callers : StageKnows(c)'
    BY <1>2, SameKnowledge DEF IInv
  <2>2. \A c, d \in Callers : c # d => LocksExclude(c, d)'
    BY <1>2, SameLocks DEF IInv
  <2>3. WeighedOnce' /\ KeysAreUnique'
    BY <1>2 DEF IInv, WeighedOnce, KeysAreUnique, Book!Clash
  <2> QED
    BY <1>2, <2>1, <2>2, <2>3 DEF IInv
<1>3. ASSUME NEW t \in Transports, CreateTransportTransaction(t)
      PROVE  IInv'
  BY <1>1, <1>3 DEF CreateTransportTransaction
<1>4. ASSUME NEW t \in Transports, CancelTransportTransaction(t)
      PROVE  IInv'
  BY <1>1, <1>4 DEF CancelTransportTransaction
<1>5. ASSUME NEW k \in Trucks, NEW p \in Plates, NEW grams \in Tares, UpdateTruck(k, p, grams)
      PROVE  IInv'
  <2>1. TypeOK'
    BY <1>5 DEF UpdateTruck, IInv, TypeOK
  <2> QED
    BY <1>2, <1>5, <2>1 DEF UpdateTruck
<1>6. ASSUME NEW g \in Grains, NEW grams \in Targets, UpdateGrainType(g, grams)
      PROVE  IInv'
  <2>1. TypeOK'
    BY <1>6 DEF UpdateGrainType, IInv, TypeOK
  <2> QED
    BY <1>2, <1>6, <2>1 DEF UpdateGrainType
<1> QED
  BY <1>3, <1>4, <1>5, <1>6 DEF Registration

LEMMA NextStep ==
    ASSUME IInv, [Next]_vars
    PROVE  IInv'
<1>1. CASE UNCHANGED vars
  BY <1>1, SameKnowledge, SameLocks
     DEF vars, IInv, TypeOK, WeighedOnce, KeysAreUnique, Book!Clash
<1>2. ASSUME NEW c \in Callers, Call(c)
      PROVE  IInv'
  BY <1>2, BeginStep, StatementStep, FailStep DEF Call
<1>3. CASE Registration
  BY <1>3, RegistrationStep
<1> QED
  BY <1>1, <1>2, <1>3 DEF Next

LEMMA InitIsInvariant == Init => IInv
<1> SUFFICES ASSUME Init PROVE IInv
  OBVIOUS
<1>1. /\ status = [t \in Transports |-> "NONE"] /\ inventory = [b \in Bins |-> 0]
      /\ weighings = {} /\ pc = [c \in Callers |-> "idle"]
      /\ tx = [c \in Callers |-> Fresh(NoInput)]
      /\ result = [c \in Callers |-> [kind |-> "none", row |-> NoRow]]
      /\ plate \in [Trucks -> Plates] /\ tare \in [Trucks -> Tares] /\ target \in [Grains -> Targets]
  BY DEF Init, Book!Init, Bins
<1>2. TypeOK
  BY <1>1, BigintRange DEF TypeOK, Stages, TxRecord, Fresh, Outcomes
<1>3. \A c \in Callers : StageKnows(c)
  BY <1>1 DEF StageKnows
<1>4. \A c, d \in Callers : c # d => LocksExclude(c, d)
  BY <1>1 DEF LocksExclude
<1>5. WeighedOnce /\ KeysAreUnique
  BY <1>1 DEF WeighedOnce, KeysAreUnique
<1> QED
  BY <1>2, <1>3, <1>4, <1>5 DEF IInv

-----------------------------------------------------------------------------
(* The theorems.                                                           *)

\* Whatever the interleaving, each call still knows at every statement what
\* its earlier statements established, and no lock is held twice.
THEOREM InductiveInvariant == Spec => []IInv
<1>1. Init => IInv
  BY InitIsInvariant
<1>2. IInv /\ [Next]_vars => IInv'
  BY NextStep
<1> QED
  BY <1>1, <1>2, PTL DEF Spec

\* The tables keep their types and CHECK constraints: no row that Finalize
\* computes is ever refused for its weights, cost or margin.
THEOREM TypeCorrect == Spec => []TypeOK
<1>1. IInv => TypeOK
  BY DEF IInv
<1> QED
  BY <1>1, InductiveInvariant, PTL

\* A transport is WEIGHED exactly when it has a weighing, and it has only one,
\* for any number of concurrent finalizations and cancellations.
THEOREM NoLoadIsWeighedTwice == Spec => []WeighedOnce
<1>1. IInv => WeighedOnce
  BY DEF IInv
<1> QED
  BY <1>1, InductiveInvariant, PTL

\* No two weighings share a (session, stage) or an event id.
THEOREM WeighingKeysAreUnique == Spec => []KeysAreUnique
<1>1. IInv => KeysAreUnique
  BY DEF IInv
<1> QED
  BY <1>1, InductiveInvariant, PTL

\* From the FOR UPDATE to the commit the transport stays OPEN, so the last
\* UPDATE of Finalize always changes exactly one row.
THEOREM TransportLockHolds == Spec => []LockedStaysOpen
<1>1. IInv => LockedStaysOpen
  BY DEF IInv, LockedStaysOpen, StageKnows, HoldsTransport
<1> QED
  BY <1>1, InductiveInvariant, PTL

-----------------------------------------------------------------------------
(* Steps of the committed tables.                                          *)

\* A commit is exactly one entry in the book, at the margin of the stock
\* that includes the load.
LEMMA PublishRecords ==
    ASSUME IInv, NEW c \in Callers, pc[c] = "commit", Publish(c)
    PROVE  /\ Book!Record(RowOf(c))
           /\ weighings' \ weighings = {RowOf(c)}
           /\ RowOf(c).margin = Margin(inventory'[BinOf(RowOf(c).transport)], tx[c].target)
           /\ tx[c].target \in Targets
<1> DEFINE r == RowOf(c)
           b == Bin(c)
<1>1. /\ TypeOK /\ StageKnows(c) /\ In(c) \in Inputs /\ tx[c].transport \in Transports
      /\ status[tx[c].transport] = "OPEN" /\ tx[c].total = inventory[b] + Net(c)
      /\ ScaleBranch[In(c).scale] = BranchOf[tx[c].transport]
      /\ \A w \in weighings : ~Book!Clash(w, r)
      /\ tx[c].target \in Targets /\ Net(c) > 0
  BY DEF IInv, StageKnows
<1>2. b \in Bins /\ b = Book!BinOf(tx[c].transport) /\ b = BinOf(tx[c].transport)
  BY <1>1, RowIsTyped DEF Locking, Bin, BinOf
<1>3. /\ r.transport = tx[c].transport /\ r.scale = In(c).scale /\ r.gross = In(c).gross
      /\ r.tare = tx[c].tare /\ r.net = Net(c) /\ r.margin = Margin(tx[c].total, tx[c].target)
      /\ r.session = In(c).session
  BY DEF RowOf
<1>4. /\ status' = [status EXCEPT ![tx[c].transport] = "WEIGHED"]
      /\ inventory' = [inventory EXCEPT ![b] = tx[c].total]
      /\ weighings' = weighings \cup {r}
  BY DEF Publish
<1>5. r \notin weighings
  BY <1>1 DEF Book!Clash
<1>6. inventory'[b] = tx[c].total /\ inventory' = [inventory EXCEPT ![b] = @ + Net(c)]
  BY <1>1, <1>2, <1>4 DEF TypeOK
<1>7. Book!Record(r)
  <2>1. r.net = r.gross - r.tare /\ r.net > 0
    BY <1>1, <1>3 DEF Net
  <2>2. inventory' = [inventory EXCEPT ![Book!BinOf(r.transport)] = @ + r.net]
    BY <1>2, <1>3, <1>6
  <2>3. \A v \in weighings : ~Book!Clash(v, r)
    BY <1>1
  <2> QED
    BY <1>1, <1>3, <1>4, <2>1, <2>2, <2>3 DEF Book!Record
<1>8. weighings' \ weighings = {r}
  BY <1>4, <1>5
<1>9. r.margin = Margin(inventory'[BinOf(r.transport)], tx[c].target)
  BY <1>2, <1>3, <1>6
<1> QED
  BY <1>1, <1>7, <1>8, <1>9

\* Only a commit, a creation and a cancellation change the committed tables.
LEMMA TableSteps ==
    ASSUME IInv, [Next]_vars
    PROVE  \/ UNCHANGED <<status, inventory, weighings>>
           \/ \E t \in Transports : Book!Open(t) \/ Book!Cancel(t)
           \/ \E c \in Callers : pc[c] = "commit" /\ Publish(c)
<1>1. CASE UNCHANGED vars
  BY <1>1 DEF vars
<1>2. ASSUME NEW c \in Callers, Call(c)
      PROVE  UNCHANGED database \/ (pc[c] = "commit" /\ Publish(c))
  BY <1>2 DEF Call, Begin, Step, FindByEvent, FindBySession, SelectTransport, LockTransport,
              UpsertInventory, InsertWeighing, MarkWeighed, Commit, CommitUnknown, Fail
<1>3. ASSUME NEW t \in Transports,
             CreateTransportTransaction(t) \/ CancelTransportTransaction(t)
      PROVE  Book!Open(t) \/ Book!Cancel(t)
  BY <1>3 DEF CreateTransportTransaction, CancelTransportTransaction, Book!Open, Book!Cancel
<1>4. CASE \/ \E k \in Trucks, p \in Plates, grams \in Tares : UpdateTruck(k, p, grams)
           \/ \E g \in Grains, grams \in Targets : UpdateGrainType(g, grams)
  BY <1>4 DEF UpdateTruck, UpdateGrainType
<1> QED
  BY <1>1, <1>2, <1>3, <1>4 DEF Next, Registration, database

\* Finalize, with all its statements, locks and failures, implements the
\* atomic book: each commit is one Record, everything else stutters.
THEOREM FinalizationImplementsBook == Spec => ImplementsBook
<1>1. Init => Book!Init
  BY DEF Init
<1>2. IInv /\ [Next]_vars => [Book!Next]_(Book!vars)
  <2> SUFFICES ASSUME IInv, [Next]_vars PROVE [Book!Next]_(Book!vars)
    OBVIOUS
  <2>1. CASE UNCHANGED <<status, inventory, weighings>>
    BY <2>1 DEF Book!vars
  <2>2. CASE \E t \in Transports : Book!Open(t) \/ Book!Cancel(t)
    BY <2>2 DEF Book!Next
  <2>3. ASSUME NEW c \in Callers, pc[c] = "commit", Publish(c)
        PROVE  Book!Next
    BY <2>3, PublishRecords DEF Book!Next
  <2> QED
    BY <2>1, <2>2, <2>3, TableSteps
<1> QED
  BY <1>1, <1>2, InductiveInvariant, PTL DEF Spec, ImplementsBook, Book!Spec

\* Weighings are immutable and closed transports stay closed.
THEOREM ClosedHistory == Spec => HistoryIsFinal
<1> DEFINE A == /\ weighings \subseteq weighings'
                /\ \A t \in Transports :
                      status[t] \in {"WEIGHED", "CANCELLED"} => status'[t] = status[t]
<1>1. IInv /\ [Next]_vars => A
  <2> SUFFICES ASSUME IInv, [Next]_vars PROVE A
    OBVIOUS
  <2>1. CASE UNCHANGED <<status, inventory, weighings>>
    BY <2>1
  <2>2. CASE \E t \in Transports : Book!Open(t) \/ Book!Cancel(t)
    BY <2>2 DEF Book!Open, Book!Cancel, IInv, TypeOK
  <2>3. ASSUME NEW c \in Callers, pc[c] = "commit", Publish(c)
        PROVE  A
    BY <2>3 DEF Publish, IInv, TypeOK, StageKnows
  <2> QED
    BY <2>1, <2>2, <2>3, TableSteps
<1> QED
  BY <1>1, InductiveInvariant, PTL DEF Spec, HistoryIsFinal

\* Every weighing is priced from the committed stock that includes its load.
THEOREM MarginsFollowStock == Spec => MarginFollowsStock
<1> DEFINE A == \A w \in weighings' \ weighings :
                   \E tgt \in Targets : w.margin = Margin(inventory'[BinOf(w.transport)], tgt)
<1>1. IInv /\ [Next]_vars => A
  <2> SUFFICES ASSUME IInv, [Next]_vars PROVE A
    OBVIOUS
  <2>1. CASE weighings' \subseteq weighings
    BY <2>1
  <2>2. CASE \E t \in Transports : Book!Open(t) \/ Book!Cancel(t)
    BY <2>1, <2>2 DEF Book!Open, Book!Cancel
  <2>3. ASSUME NEW c \in Callers, pc[c] = "commit", Publish(c)
        PROVE  A
    BY <2>3, PublishRecords
  <2> QED
    BY <2>1, <2>2, <2>3, TableSteps
<1> QED
  BY <1>1, InductiveInvariant, PTL DEF Spec, MarginFollowsStock

-----------------------------------------------------------------------------
(* The answers of Finalize.                                                *)

Recorded(c) ==
    result[c].kind = "ok" => result[c].row \in ByEvent(In(c)) \cup BySession(In(c))

LEMMA RecordedStays ==
    ASSUME NEW c \in Callers, Recorded(c), result'[c] = result[c], tx'[c].in = tx[c].in,
           weighings \subseteq weighings'
    PROVE  Recorded(c)'
BY DEF Recorded, ByEvent, BySession, In

\* An answer is given in the input of the call that it ends.
LEMMA AnswerOf ==
    ASSUME TypeOK, NEW c \in Callers, NEW kind, NEW row, Return(c, kind, row)
    PROVE  /\ result'[c] = [kind |-> kind, row |-> row] /\ In(c)' = In(c)
           /\ \A d \in Callers \ {c} : result'[d] = result[d] /\ tx'[d] = tx[d]
BY DEF TypeOK, Return, Fresh, In

\* A call of c leaves the answers of the others recorded, and its own.
LEMMA CallRecords ==
    ASSUME IInv, AnswerIsRecorded, NEW c \in Callers, Call(c), weighings \subseteq weighings'
    PROVE  AnswerIsRecorded'
<1>1. TypeOK
  BY DEF IInv
<1>2. \A d \in Callers : Recorded(d)
  BY DEF AnswerIsRecorded, Recorded
<1>3. CASE \E kind, row : Return(c, kind, row) /\ (kind = "ok" =>
                              row \in ByEvent(In(c)) \cup BySession(In(c)) \cup {RowOf(c)}
                              /\ (row = RowOf(c) => row \in weighings'))
  <2>1. PICK kind, row : Return(c, kind, row) /\ (kind = "ok" =>
                              row \in ByEvent(In(c)) \cup BySession(In(c)) \cup {RowOf(c)}
                              /\ (row = RowOf(c) => row \in weighings'))
    BY <1>3
  <2>2. /\ result'[c] = [kind |-> kind, row |-> row] /\ In(c)' = In(c)
        /\ \A d \in Callers \ {c} : result'[d] = result[d] /\ tx'[d] = tx[d]
    BY <1>1, <2>1, AnswerOf
  <2>3. Recorded(c)'
    <3> SUFFICES ASSUME kind = "ok" PROVE row \in ByEvent(In(c))' \cup BySession(In(c))'
      BY <2>2 DEF Recorded
    <3>1. RowOf(c).session = In(c).session
      BY DEF RowOf
    <3> QED
      BY <2>1, <2>2, <3>1 DEF ByEvent, BySession
  <2>4. \A d \in Callers \ {c} : Recorded(d)'
    BY <1>2, <2>2, RecordedStays
  <2> QED
    BY <2>3, <2>4 DEF AnswerIsRecorded, Recorded
<1>4. CASE result' = result /\ \A d \in Callers : tx'[d].in = tx[d].in
  <2>1. \A d \in Callers : Recorded(d)'
    BY <1>2, <1>4, RecordedStays
  <2> QED
    BY <2>1 DEF AnswerIsRecorded, Recorded
<1>5. ASSUME NEW i \in Inputs, Begin(c, i) PROVE AnswerIsRecorded'
  <2>1. /\ result'[c].kind # "ok"
        /\ \A d \in Callers \ {c} : result'[d] = result[d] /\ tx'[d] = tx[d]
    BY <1>1, <1>5 DEF Begin, TypeOK
  <2>2. \A d \in Callers \ {c} : Recorded(d)'
    BY <1>2, <2>1, RecordedStays
  <2> QED
    BY <2>1, <2>2 DEF AnswerIsRecorded, Recorded
<1>6. ASSUME Step(c) \/ Fail(c) PROVE AnswerIsRecorded'
  <2>1. ASSUME NEW stage, Goto(c, stage), UNCHANGED tx PROVE AnswerIsRecorded'
    BY <1>4, <2>1 DEF Goto
  <2>2. CASE FindByEvent(c) \/ FindBySession(c)
    <3>1. ASSUME NEW w \in ByEvent(In(c)) \cup BySession(In(c)), Return(c, "ok", w)
          PROVE  AnswerIsRecorded'
      BY <1>3, <3>1 DEF ByEvent, BySession
    <3> QED
      BY <2>1, <2>2, <3>1 DEF FindByEvent, FindBySession
  <2>3. ASSUME NEW kind, kind # "ok", Return(c, kind, NoRow) PROVE AnswerIsRecorded'
    BY <1>3, <2>3
  <2>4. CASE SelectTransport(c)
    <3>1. ASSUME NEW t \in Matches(In(c)), Goto(c, "lock"),
                 tx' = [tx EXCEPT ![c] = [in |-> In(c), transport |-> t,
                                          tare |-> tare[TruckOf[t]],
                                          target |-> target[GrainOf[t]], total |-> 0]]
          PROVE  AnswerIsRecorded'
      BY <1>1, <1>4, <3>1 DEF Goto, In, TypeOK
    <3> QED
      BY <2>3, <2>4, <3>1 DEF SelectTransport
  <2>5. CASE LockTransport(c) \/ InsertWeighing(c) \/ MarkWeighed(c) \/ CommitUnknown(c) \/ Fail(c)
    BY <2>1, <2>3, <2>5 DEF LockTransport, InsertWeighing, MarkWeighed, CommitUnknown, Fail
  <2>6. CASE UpsertInventory(c)
    <3>1. ASSUME Goto(c, "insert"), tx' = [tx EXCEPT ![c].total = inventory[Bin(c)] + Net(c)]
          PROVE  AnswerIsRecorded'
      BY <1>1, <1>4, <3>1 DEF Goto, TypeOK, TxRecord
    <3> QED
      BY <2>3, <2>6, <3>1 DEF UpsertInventory
  <2>7. CASE Commit(c)
    BY <1>3, <2>7 DEF Commit, Publish
  <2> QED
    BY <1>6, <2>2, <2>4, <2>5, <2>6, <2>7 DEF Step
<1> QED
  BY <1>5, <1>6 DEF Call

\* An answer without error is committed and about the caller's own event or
\* session, and it stays so while other calls, cancellations and edits of
\* trucks and grains go on (Finalize: its two lookups and its commit).
THEOREM AnswersAreRecorded == Spec => []AnswerIsRecorded
<1>1. Init => AnswerIsRecorded
  BY DEF Init, AnswerIsRecorded
<1>2. IInv /\ AnswerIsRecorded /\ [Next]_vars => AnswerIsRecorded'
  <2> SUFFICES ASSUME IInv, AnswerIsRecorded, [Next]_vars PROVE AnswerIsRecorded'
    OBVIOUS
  <2>1. weighings \subseteq weighings'
    BY TableSteps DEF Book!Open, Book!Cancel, Publish
  <2>2. ASSUME UNCHANGED result, UNCHANGED tx PROVE AnswerIsRecorded'
    <3>1. \A d \in Callers : Recorded(d)'
      BY <2>1, <2>2, RecordedStays DEF AnswerIsRecorded, Recorded
    <3> QED
      BY <3>1 DEF AnswerIsRecorded, Recorded
  <2>3. CASE UNCHANGED vars
    BY <2>2, <2>3 DEF vars
  <2>4. CASE \E c \in Callers : Call(c)
    BY <2>1, <2>4, CallRecords
  <2>5. CASE Registration
    BY <2>2, <2>5 DEF Registration, CreateTransportTransaction, CancelTransportTransaction,
                      UpdateTruck, UpdateGrainType
  <2> QED
    BY <2>3, <2>4, <2>5 DEF Next
<1> QED
  BY <1>1, <1>2, InductiveInvariant, PTL DEF Spec
=============================================================================
