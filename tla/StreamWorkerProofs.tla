------------------------- MODULE StreamWorkerProofs -------------------------
(***************************************************************************)
(* Proofs about StreamWorker for any number of workers, entries, failures  *)
(* and attempts, and any batch size.                                       *)
(***************************************************************************)
EXTENDS StreamWorker, FiniteSetTheorems, SequenceTheorems, WellFoundedInduction, TLAPS

-----------------------------------------------------------------------------
(* Lemmas about batches and about how a call ends.                         *)

\* A batch that is not finished has a first message.
LEMMA FirstIsLeast ==
    ASSUME NEW S, S \subseteq Entries, S # {}
    PROVE  First(S) \in S /\ \A d \in S : First(S) <= d
<1>1. S \subseteq Nat /\ MaxEntries \in Nat
  BY WorkerConfig DEF Entries
<1>2. PICK x \in S : \A y \in S : ~ (<<y, x>> \in OpToRel(<, Nat))
  BY <1>1, WFMin, NatLessThanWellFounded
<1>3. \A y \in S : ~ (y < x)
  BY <1>1, <1>2 DEF OpToRel
<1>4. \A y \in S : x <= y
  BY <1>1, <1>3
<1> QED
  BY <1>4 DEF First

\* The message of a worker that has a batch is one of its entries.
LEMMA MessageInBatch ==
    ASSUME TypeOK, NEW w \in Workers, ws[w].batch # {}
    PROVE  /\ Message(w) \in ws[w].batch
           /\ Message(w) \in 1..delivered
           /\ Message(w) \in Entries
<1>1. ws[w].batch \subseteq 1..delivered /\ 1..delivered \subseteq Entries
  BY WorkerConfig DEF TypeOK, Entries
<1> QED
  BY <1>1, FirstIsLeast DEF Message

\* Where an error, a crash or a start leaves a worker.
Halts == {"stopped", "ensure", "recover"}

USE DEF Resting, Halts

\* Where a worker can be, and what it then holds.
Placed(local, n) ==
    /\ local \in Worker
    /\ local.batch \subseteq 1..n
    /\ local.batch = {} <=> local.pc \in Resting

\* A call ends with the intended local state or with the start of Recover, or is
\* sent again from where the worker is.
LEMMA EndsWell ==
    ASSUME TypeOK, NEW w \in Workers, NEW local, NEW n \in Nat, delivered <= n,
           Placed(local, n), Ends(w, local) \/ Continue(w, local)
    PROVE  /\ ws' \in [Workers -> Worker]
           /\ \A v \in Workers \ {w} : ws'[v] = ws[v]
           /\ \A v \in Workers : Placed(ws'[v], n)
           /\ ws'[w] \in {local, Paused(w), ws[w]}
           /\ failures' \in 0..MaxFailures
<1>1. ws[w] \in Worker /\ Placed(Paused(w), n)
  BY DEF TypeOK, Placed, Paused, Worker
<1>2. \A v \in Workers : Placed(ws[v], n)
  BY DEF TypeOK, Placed
<1>3. failures \in 0..MaxFailures /\ MaxFailures \in Nat
  BY WorkerConfig DEF TypeOK
<1>4. /\ failures' \in 0..MaxFailures
      /\ \/ ws' = [ws EXCEPT ![w] = local]
         \/ ws' = [ws EXCEPT ![w] = Paused(w)]
         \/ ws' = ws
  BY <1>3 DEF Ends, Continue
<1>5. local \in Worker /\ Paused(w) \in Worker /\ ws \in [Workers -> Worker]
  BY <1>1 DEF Placed, TypeOK
<1> QED
  BY <1>1, <1>2, <1>4, <1>5

\* The local states that calls aim for are well placed.
LEMMA SteppedPlaced ==
    ASSUME NEW local \in Worker, NEW n, NEW rest, rest \subseteq 1..n, rest \in SUBSET Entries,
           NEW pc \in {"recover", "read", "count"}, rest = {} <=> pc # "count"
    PROVE  Placed([local EXCEPT !.pc = pc, !.batch = rest, !.attempt = 0], n)
BY DEF Placed, Worker

LEMMA AdvancePlaced ==
    ASSUME TypeOK, NEW w \in Workers, ws[w].batch # {}
    PROVE  Placed(Advance(w), delivered)
<1> DEFINE rest == ws[w].batch \ {Message(w)}
           next == IF ws[w].phase = "recover" THEN "read" ELSE "recover"
           pc   == IF rest = {} THEN next ELSE "count"
<1>1. ws[w] \in Worker /\ rest \subseteq 1..delivered /\ rest \in SUBSET Entries
  BY DEF TypeOK, Worker
<1>2. pc \in {"recover", "read", "count"} /\ (rest = {} <=> pc # "count")
  OBVIOUS
<1>3. Advance(w) = [ws[w] EXCEPT !.pc = pc, !.batch = rest, !.attempt = 0]
  BY DEF Advance
<1> HIDE DEF pc, next, rest
<1>4. Placed([ws[w] EXCEPT !.pc = pc, !.batch = rest, !.attempt = 0], delivered)
  BY <1>1, <1>2, SteppedPlaced
<1> QED
  BY <1>3, <1>4

LEMMA GotoPlaced ==
    ASSUME TypeOK, NEW w \in Workers, ws[w].batch # {},
           NEW pc \in {"count", "expire", "process", "bury", "ack", "forget"}
    PROVE  Placed(Goto(w, pc), delivered)
<1>1. ws[w] \in Worker /\ ws[w].batch \subseteq 1..delivered
  BY DEF TypeOK
<1> QED
  BY <1>1 DEF Placed, Goto, Worker

LEMMA WithBatchPlaced ==
    ASSUME TypeOK, NEW w \in Workers, NEW n \in Nat,
           NEW phase \in {"recover", "read"}, NEW batch, batch \subseteq 1..n,
           1..n \subseteq Entries, NEW next \in {"recover", "read"}
    PROVE  Placed(WithBatch(w, phase, batch, next), n)
<1> DEFINE pc == IF batch = {} THEN next ELSE "count"
<1>1. ws[w] \in Worker /\ batch \in SUBSET Entries
  BY DEF TypeOK
<1>2. pc \in {"recover", "read", "count"} /\ (batch = {} <=> pc # "count")
  OBVIOUS
<1>3. WithBatch(w, phase, batch, next) = [ws[w] EXCEPT !.pc = pc, !.phase = phase, !.batch = batch]
  BY DEF WithBatch
<1> HIDE DEF pc
<1>4. [ws[w] EXCEPT !.pc = pc, !.phase = phase, !.batch = batch] \in Worker
  BY <1>1, <1>2 DEF Worker
<1>5. [ws[w] EXCEPT !.pc = pc, !.phase = phase, !.batch = batch].pc = pc
      /\ [ws[w] EXCEPT !.pc = pc, !.phase = phase, !.batch = batch].batch = batch
  BY <1>1 DEF Worker
<1> QED
  BY <1>2, <1>3, <1>4, <1>5 DEF Placed

LEMMA CursorType ==
    ASSUME TypeOK, NEW w \in Workers, NEW batch
    PROVE  Cursor(w, batch) \in Entries \cup {0}
<1> DEFINE rest == {e \in pel : \A d \in batch : e > d}
<1>0. pel \subseteq Entries
  BY WorkerConfig DEF TypeOK, Entries
<1>1. rest \subseteq Entries
  BY <1>0
<1>2. rest # {} => First(rest) \in Entries
  BY <1>1, FirstIsLeast
<1> QED
  BY <1>2 DEF Cursor

-----------------------------------------------------------------------------
(* Type correctness.                                                       *)

LEMMA TypeInit == Init => TypeOK
<1> SUFFICES ASSUME Init PROVE TypeOK
  OBVIOUS
<1>1. Started \in Worker /\ Started.batch = {} /\ Started.pc = "ensure"
  BY DEF Started, Worker
<1>2. ws \in [Workers -> Worker] /\ \A w \in Workers : ws[w] = Started
  BY <1>1 DEF Init
<1>3. MaxFailures \in Nat /\ 0 \in 0..MaxFailures
  BY WorkerConfig
<1>4. /\ group = "absent" /\ delivered = 0
      /\ \A w \in Workers : ws[w].pc \in {"stopped", "ensure"}
  BY <1>1, <1>2 DEF Init
<1> QED
  BY <1>1, <1>2, <1>3, <1>4 DEF Init, TypeOK

\* The entries that are delivered, or appended, are stream entries.
LEMMA InStream ==
    ASSUME TypeOK
    PROVE  /\ MaxEntries \in Nat /\ added \in 0..MaxEntries /\ delivered \in 0..added
           /\ 1..delivered \subseteq Entries /\ 1..added \subseteq Entries
BY WorkerConfig DEF TypeOK, Entries

\* Batches of entries wait until they are idle.
LEMMA WaitingType ==
    ASSUME TypeOK, NEW batch \in SUBSET Entries, Deliver(batch)
    PROVE  waiting' \in Seq(SUBSET Entries)
BY AppendProperties DEF Deliver, TypeOK

\* What a step of a worker that delivers nothing has to leave in order.
LEMMA TypeByStep ==
    ASSUME TypeOK, NEW w \in Workers, NEW local, Placed(local, delivered),
           Ends(w, local) \/ Continue(w, local),
           group = "present", UNCHANGED <<added, group, delivered>>,
           pel' \subseteq pel, idle' \subseteq pel', waiting' \in Seq(SUBSET Entries),
           ledger' \subseteq 1..delivered, handed' \subseteq 1..delivered,
           attempts' \in [Entries -> Nat], dlq' \in [Entries -> Nat], tries' \in [Entries -> Nat]
    PROVE  TypeOK'
<1>1. /\ ws' \in [Workers -> Worker] /\ failures' \in 0..MaxFailures
      /\ \A v \in Workers : Placed(ws'[v], delivered)
  BY EndsWell, InStream
<1>2. /\ added' \in Entries \cup {0} /\ delivered' \in 0..added'
      /\ pel' \subseteq 1..delivered'
  BY DEF TypeOK
<1> QED
  BY <1>1, <1>2 DEF TypeOK, Placed

LEMMA TypeNext == TypeOK /\ [Next]_vars => TypeOK'
<1> SUFFICES ASSUME TypeOK, [Next]_vars PROVE TypeOK'
  OBVIOUS
<1> USE DEF redis, history
<1>1. CASE Publish
  <2>1. added' \in Entries /\ delivered' \in 0..added'
    <3>1. added + 1 \in Entries /\ added' = added + 1 /\ delivered' = delivered
      BY <1>1 DEF Publish
    <3> QED
      BY <3>1, InStream
  <2>2. UNCHANGED <<group, delivered, pel, waiting, idle, attempts, dlq, ledger, ws, failures, history>>
    BY <1>1 DEF Publish
  <2> QED
    BY <2>1, <2>2 DEF TypeOK
<1>2. CASE Age
  <2>1. waiting' \in Seq(SUBSET Entries)
    BY <1>2, HeadTailProperties DEF Age, TypeOK
  <2>2. idle' \subseteq pel /\ UNCHANGED <<added, group, delivered, pel, attempts, dlq, ledger, ws, failures, history>>
    BY <1>2 DEF Age, TypeOK
  <2> QED
    BY <2>1, <2>2 DEF TypeOK
<1>3. ASSUME NEW w \in Workers, Step(w) PROVE TypeOK'
  <2> DEFINE e == Message(w)
  <2>0. /\ attempts \in [Entries -> Nat] /\ dlq \in [Entries -> Nat]
        /\ tries \in [Entries -> Nat] /\ ws \in [Workers -> Worker]
        /\ idle \subseteq pel /\ ledger \subseteq 1..delivered /\ handed \subseteq 1..delivered
        /\ ws[w].batch = {} <=> ws[w].pc \in Resting
        /\ pel \subseteq 1..delivered /\ waiting \in Seq(SUBSET Entries)
        /\ ws[w].pc \notin {"stopped", "ensure"} => group = "present"
    BY DEF TypeOK
  <2>11. CASE Ensure(w)
    <3> DEFINE local == [ws[w] EXCEPT !.pc = "recover"]
    <3>1. Placed(local, delivered)
      BY <2>0, <2>11 DEF Ensure, TypeOK, Placed, Worker
    <3>2. Ends(w, local) /\ group' = "present" /\ delivered' = delivered /\ delivered \in Nat
      BY <2>11, InStream DEF Ensure, TypeOK, GroupStart
    <3> HIDE DEF local
    <3>3. /\ ws' \in [Workers -> Worker] /\ failures' \in 0..MaxFailures
          /\ \A v \in Workers : Placed(ws'[v], delivered)
      BY <3>1, <3>2, EndsWell
    <3> QED
      BY <2>0, <2>11, <3>2, <3>3 DEF Ensure, TypeOK, Placed
  <2>1. CASE Claim(w)
    <3> DEFINE batch == FirstOf({d \in idle : d >= ws[w].claimFrom}, BatchSize)
               next == WithBatch(w, "recover", batch, "read")
               local == [next EXCEPT !.claimFrom = Cursor(w, batch)]
    <3>1. batch \subseteq 1..delivered
      BY <2>0 DEF FirstOf
    <3>2. Placed(next, delivered)
      BY <3>1, InStream, WithBatchPlaced
    <3>3. Placed(local, delivered)
      <4> HIDE DEF next, batch
      <4> QED
        BY <3>2, CursorType DEF Placed, Worker
    <3>4. Ends(w, local) /\ idle' = idle \ batch /\ Deliver(batch)
      BY <2>1 DEF Claim
    <3> HIDE DEF local, batch
    <3>5. waiting' \in Seq(SUBSET Entries)
      BY <3>1, <3>4, InStream, WaitingType
    <3> QED
      BY <2>0, <2>1, <3>3, <3>4, <3>5, TypeByStep DEF Claim
  <2>2. CASE Read(w)
    <3> DEFINE last == IF delivered + BatchSize <= added THEN delivered + BatchSize ELSE added
               batch == delivered + 1 .. last
               local == WithBatch(w, "read", batch, "recover")
    <3>1. /\ last \in 0..added /\ delivered <= last /\ batch \subseteq 1..last
          /\ 1..last \subseteq Entries /\ last \in Nat /\ 1..delivered \subseteq 1..last
      BY InStream, WorkerConfig
    <3>2. delivered' = last /\ pel' = pel \cup batch /\ Deliver(batch) /\ Ends(w, local)
      BY <2>2 DEF Read
    <3> HIDE DEF last, batch
    <3>3. Placed(local, last)
      BY <3>1, WithBatchPlaced
    <3>4. /\ ws' \in [Workers -> Worker] /\ failures' \in 0..MaxFailures
          /\ \A v \in Workers : Placed(ws'[v], last)
      <4> HIDE DEF local
      <4> QED
        BY <3>1, <3>2, <3>3, EndsWell
    <3> HIDE DEF local
    <3>5. /\ added' = added /\ group' = group /\ group = "present" /\ idle' \subseteq pel' /\ pel' \subseteq 1..delivered'
          /\ ledger' \subseteq 1..delivered' /\ handed' \subseteq 1..delivered'
          /\ attempts' = attempts /\ dlq' = dlq /\ tries' = tries
      BY <2>0, <2>2, <3>1, <3>2 DEF Read
    <3>6. waiting' \in Seq(SUBSET Entries)
      BY <3>1, <3>2, WaitingType
    <3> QED
      BY <2>0, <3>1, <3>2, <3>4, <3>5, <3>6 DEF TypeOK, Placed
  <2>3. CASE Count(w)
    <3> DEFINE local == [ws[w] EXCEPT !.pc = "expire", !.attempt = attempts[e] + 1]
    <3>1. e \in Entries
      BY <2>0, <2>3, MessageInBatch DEF Count
    <3>2. Placed(local, delivered)
      <4>1. ws[w] \in Worker /\ attempts[e] + 1 \in Nat
        BY <2>0, <3>1 DEF TypeOK
      <4>2. ws[w].batch # {} /\ ws[w].batch \subseteq 1..delivered
        BY <2>0, <2>3 DEF TypeOK, Count
      <4> HIDE DEF e
      <4> QED
        BY <4>1, <4>2 DEF Placed, Worker
    <3>3. Ends(w, local) /\ attempts' \in [Entries -> Nat]
      BY <2>0, <2>3, <3>1 DEF Count
    <3> HIDE DEF local
    <3> QED
      BY <2>0, <2>3, <3>2, <3>3, TypeByStep DEF Count
  <2>4. CASE Expire(w)
    <3> DEFINE next == IF Parses(e) THEN "process" ELSE "bury"
    <3>1. Placed(Goto(w, next), delivered) /\ Ends(w, Goto(w, next))
      BY <2>0, <2>4, GotoPlaced DEF Expire
    <3> QED
      BY <2>0, <2>4, <3>1, TypeByStep DEF Expire
  <2>5. CASE Refuse(w)
    <3>1. e \in 1..delivered /\ Placed(Goto(w, "bury"), delivered)
      BY <2>0, <2>5, GotoPlaced, MessageInBatch DEF Refuse
    <3> QED
      BY <2>0, <2>5, <3>1, TypeByStep DEF Refuse
  <2>6. CASE Store(w)
    <3>1. e \in 1..delivered /\ Placed(Goto(w, "ack"), delivered)
      BY <2>0, <2>6, GotoPlaced, MessageInBatch DEF Store
    <3> QED
      BY <2>0, <2>6, <3>1, TypeByStep DEF Store
  <2>7. CASE FailTransiently(w)
    <3>1. e \in 1..delivered /\ e \in Entries /\ ws[w].batch # {}
      BY <2>0, <2>7, MessageInBatch DEF FailTransiently
    <3>2. Placed(Goto(w, "bury"), delivered) /\ Placed(Paused(w), delivered)
      <4>1. Placed(Goto(w, "bury"), delivered)
        BY <3>1, GotoPlaced
      <4> QED
        BY <4>1 DEF TypeOK, Placed, Paused, Worker
    <3>3. /\ ws' \in [Workers -> Worker] /\ \A v \in Workers : Placed(ws'[v], delivered)
      <4>1. \/ ws' = [ws EXCEPT ![w] = Goto(w, "bury")]
            \/ ws' = [ws EXCEPT ![w] = Paused(w)]
        BY <2>7 DEF FailTransiently
      <4>2. \A v \in Workers : Placed(ws[v], delivered)
        BY DEF TypeOK, Placed
      <4>3. Goto(w, "bury") \in Worker /\ Paused(w) \in Worker
        BY <3>2 DEF Placed
      <4> QED
        BY <2>0, <3>2, <4>1, <4>2, <4>3
    <3>4. ledger' \subseteq 1..delivered /\ handed' \subseteq 1..delivered
      BY <2>0, <2>7, <3>1 DEF FailTransiently
    <3>5. failures' \in 0..MaxFailures
      BY <2>7, WorkerConfig DEF FailTransiently, TypeOK
    <3>6. tries' \in [Entries -> Nat]
      BY <2>0, <2>7, <3>1 DEF FailTransiently
    <3>7. UNCHANGED redis /\ group = "present"
      BY <2>0, <2>7 DEF FailTransiently
    <3> QED
      BY <3>3, <3>4, <3>5, <3>6, <3>7 DEF TypeOK, Placed
  <2>8. CASE DeadLetter(w)
    <3>1. e \in Entries /\ Placed(Advance(w), delivered)
      BY <2>0, <2>8, AdvancePlaced, MessageInBatch DEF DeadLetter
    <3>2. /\ dlq' \in [Entries -> Nat] /\ attempts' \in [Entries -> Nat]
          /\ pel' \subseteq pel /\ idle' \subseteq pel'
      <4>1. /\ dlq' = [dlq EXCEPT ![e] = @ + 1] /\ attempts' = [attempts EXCEPT ![e] = 0]
            /\ pel' = pel \ {e} /\ idle' = idle \ {e}
        BY <2>8 DEF DeadLetter
      <4> HIDE DEF e
      <4>2. dlq' \in [Entries -> Nat] /\ attempts' \in [Entries -> Nat]
        BY <2>0, <3>1, <4>1
      <4>3. pel' \subseteq pel /\ idle' \subseteq pel'
        BY <2>0, <4>1
      <4> QED
        BY <4>2, <4>3
    <3> QED
      BY <2>0, <2>8, <3>1, <3>2, TypeByStep DEF DeadLetter
  <2>9. CASE Ack(w)
    <3>1. Placed(Goto(w, "forget"), delivered)
      BY <2>0, <2>9, GotoPlaced DEF Ack
    <3>2. pel' \subseteq pel /\ idle' \subseteq pel'
      BY <2>0, <2>9 DEF Ack
    <3>3. Ends(w, Goto(w, "forget")) /\ UNCHANGED <<added, group, delivered>> /\ group = "present"
      BY <2>0, <2>9 DEF Ack
    <3>4. UNCHANGED <<waiting, attempts, dlq, ledger, handed, tries>>
      BY <2>9 DEF Ack
    <3>5. /\ waiting' \in Seq(SUBSET Entries)
          /\ attempts' \in [Entries -> Nat] /\ dlq' \in [Entries -> Nat] /\ tries' \in [Entries -> Nat]
          /\ ledger' \subseteq 1..delivered /\ handed' \subseteq 1..delivered
      BY <2>0, <3>4
    <3> QED
      BY <3>1, <3>2, <3>3, <3>5, TypeByStep
  <2>10. CASE Forget(w)
    <3>1. e \in Entries /\ Placed(Advance(w), delivered)
      BY <2>0, <2>10, AdvancePlaced, MessageInBatch DEF Forget
    <3>2. attempts' \in [Entries -> Nat]
      BY <2>0, <2>10, <3>1 DEF Forget
    <3> QED
      BY <2>0, <2>10, <3>1, <3>2, TypeByStep DEF Forget
  <2> QED
    BY <1>3, <2>1, <2>2, <2>3, <2>4, <2>5, <2>6, <2>7, <2>8, <2>9, <2>10, <2>11 DEF Step
<1>4. ASSUME NEW w \in Workers, Break(w) \/ Crash(w) \/ Start(w) PROVE TypeOK'
  <2>0. ws[w] \in Worker
    BY DEF TypeOK
  <2>1. Started \in Worker /\ Stopped \in Worker /\ Paused(w) \in Worker
    <3>1. Started \in Worker /\ Stopped \in Worker
      BY DEF Started, Stopped, Worker
    <3>2. Paused(w) \in Worker
      BY <2>0 DEF Paused, Worker
    <3> QED
      BY <3>1, <3>2
  <2>2. /\ Started.batch = {} /\ Started.pc \in Resting
        /\ Stopped.batch = {} /\ Stopped.pc \in Resting
        /\ Paused(w).batch = {} /\ Paused(w).pc \in Resting
    <3>1. /\ Started.batch = {} /\ Started.pc = "ensure"
          /\ Stopped.batch = {} /\ Stopped.pc = "stopped"
      BY DEF Started, Stopped
    <3>2. Paused(w).batch = {} /\ Paused(w).pc \in {"stopped", "recover"}
      BY <2>0 DEF Paused, Worker
    <3> QED
      BY <3>1, <3>2
  <2>3. \/ ws' = [ws EXCEPT ![w] = Started]
        \/ ws' = [ws EXCEPT ![w] = Stopped]
        \/ ws' = [ws EXCEPT ![w] = Paused(w)]
    BY <1>4 DEF Break, Crash, Start, Continue
  <2>4. /\ ws' \in [Workers -> Worker]
        /\ \A v \in Workers : /\ ws'[v].batch \subseteq 1..delivered
                              /\ ws'[v].batch = {} <=> ws'[v].pc \in Resting
    BY <2>1, <2>2, <2>3 DEF TypeOK
  <2>5. failures' \in 0..MaxFailures
    BY <1>4, WorkerConfig DEF Break, Crash, Start, Continue, TypeOK
  <2>6. UNCHANGED <<redis, ledger, history>>
    BY <1>4 DEF Break, Crash, Start, Continue
  <2>7. group = "present" \/ \A v \in Workers : ws'[v].pc \in {"stopped", "ensure"}
    <3>1. Paused(w).pc = "stopped" \/ ws[w].pc # "ensure"
      BY DEF TypeOK, Paused, Worker
    <3>2. Started.pc = "ensure" /\ Stopped.pc = "stopped"
      BY DEF Started, Stopped
    <3> QED
      BY <1>4, <2>3, <3>1, <3>2 DEF TypeOK, Break, Crash, Start, Continue
  <2> QED
    BY <2>4, <2>5, <2>6, <2>7 DEF TypeOK
<1>5. CASE UNCHANGED vars
  BY <1>5 DEF vars, TypeOK
<1> QED
  BY <1>1, <1>2, <1>3, <1>4, <1>5 DEF Next

\* The stream, the pending list, the ledger and the workers keep their types
\* (Worker, PostgresLedger), for any number of workers and entries.
THEOREM TypeCorrect == Spec => []TypeOK
<1> QED
  BY TypeInit, TypeNext, PTL DEF Spec

-----------------------------------------------------------------------------
(***************************************************************************)
(* No entry is lost.  NothingIsLost is not inductive: an acknowledgement   *)
(* is safe because the worker that is about to send it has stored the row. *)
(***************************************************************************)
AckIsEarned == \A w \in Workers : ws[w].pc = "ack" => Message(w) \in ledger

LossInv == TypeOK /\ AckIsEarned /\ NothingIsLost

\* A worker that does not move keeps its message.
LEMMA SameMessage ==
    ASSUME NEW w, ws'[w].batch = ws[w].batch
    PROVE  Message(w)' = Message(w)
BY DEF Message

\* How the worker of a step moves, if it moves: only Store leads to an acknowledgement, and
\* only a parse error or the Processor to the dead letters.
LEMMA StepMoves ==
    ASSUME TypeOK, NEW w \in Workers, Step(w) \/ Break(w) \/ Crash(w) \/ Start(w)
    PROVE  /\ \A v \in Workers \ {w} : ws'[v] = ws[v]
           /\ ws' # ws =>
                  /\ ws'[w].pc = "ack" => Store(w) /\ ws'[w].batch = ws[w].batch
                  /\ ws'[w].pc = "forget" => Ack(w) /\ ws'[w].batch = ws[w].batch
                  /\ ws'[w].pc = "bury" => /\ Expire(w) \/ Refuse(w) \/ FailTransiently(w)
                                          /\ ws'[w].batch = ws[w].batch
<1> DEFINE e == Message(w)
<1>1. w \in DOMAIN ws /\ ws[w] \in Worker
  BY DEF TypeOK
<1>2. ASSUME NEW local, Ends(w, local) \/ Continue(w, local)
      PROVE  /\ \A v \in Workers \ {w} : ws'[v] = ws[v]
             /\ ws' # ws => ws'[w] = local \/ ws'[w] = Paused(w)
  <2>1. \/ ws' = [ws EXCEPT ![w] = local]
        \/ ws' = [ws EXCEPT ![w] = Paused(w)]
        \/ ws' = ws
    BY <1>2 DEF Ends, Continue
  <2> QED
    BY <1>1, <2>1 DEF TypeOK
<1>3. Paused(w).pc \in Halts /\ Started.pc \in Halts /\ Stopped.pc \in Halts
  BY <1>1 DEF Paused, Started, Stopped, Worker
<1>4. Advance(w).pc \in {"read", "recover", "count"}
  BY <1>1 DEF Advance, Worker
<1>5. \A pc : Goto(w, pc).pc = pc /\ Goto(w, pc).batch = ws[w].batch
  BY <1>1 DEF Goto, Worker
<1>6. CASE Claim(w)
  <2> DEFINE batch == FirstOf({d \in idle : d >= ws[w].claimFrom}, BatchSize)
             local == [WithBatch(w, "recover", batch, "read") EXCEPT !.claimFrom = Cursor(w, batch)]
  <2>1. Ends(w, local)
    BY <1>6 DEF Claim
  <2>2. local.pc \in {"read", "count"}
    <3> HIDE DEF batch
    <3> QED
      BY <1>1 DEF WithBatch, Worker
  <2> HIDE DEF local
  <2> QED
    BY <1>2, <1>3, <2>1, <2>2
<1>16. CASE Ensure(w)
  <2>1. Ends(w, Goto(w, "recover"))
    BY <1>16 DEF Ensure, Goto
  <2> QED
    BY <1>2, <1>3, <1>5, <2>1
<1>7. CASE Read(w)
  <2>1. PICK batch : Ends(w, WithBatch(w, "read", batch, "recover"))
    BY <1>7 DEF Read
  <2>2. WithBatch(w, "read", batch, "recover").pc \in {"recover", "count"}
    BY <1>1 DEF WithBatch, Worker
  <2> QED
    BY <1>2, <1>3, <2>1, <2>2
<1>8. CASE Count(w)
  <2> DEFINE local == [ws[w] EXCEPT !.pc = "expire", !.attempt = attempts[e] + 1]
  <2>1. Ends(w, local) /\ local.pc = "expire"
    BY <1>1, <1>8 DEF Count, Worker
  <2> HIDE DEF local
  <2> QED
    BY <1>2, <1>3, <2>1
<1>9. CASE Expire(w)
  BY <1>2, <1>3, <1>5, <1>9 DEF Expire
<1>10. CASE Refuse(w)
  BY <1>2, <1>3, <1>5, <1>10 DEF Refuse
<1>11. CASE Store(w)
  BY <1>2, <1>3, <1>5, <1>11 DEF Store
<1>12. CASE FailTransiently(w)
  <2>1. \/ ws' = [ws EXCEPT ![w] = Goto(w, "bury")]
        \/ ws' = [ws EXCEPT ![w] = Paused(w)]
    BY <1>12 DEF FailTransiently
  <2>2. /\ \A v \in Workers \ {w} : ws'[v] = ws[v]
        /\ ws'[w] = Goto(w, "bury") \/ ws'[w] = Paused(w)
    BY <1>1, <2>1 DEF TypeOK
  <2> QED
    BY <1>3, <1>5, <1>12, <2>2
<1>13. CASE DeadLetter(w) \/ Forget(w)
  BY <1>2, <1>3, <1>4, <1>13 DEF DeadLetter, Forget
<1>14. CASE Ack(w)
  BY <1>2, <1>3, <1>5, <1>14 DEF Ack
<1>15. CASE Break(w) \/ Crash(w) \/ Start(w)
  <2>1. \/ ws' = [ws EXCEPT ![w] = Started]
        \/ ws' = [ws EXCEPT ![w] = Stopped]
        \/ ws' = [ws EXCEPT ![w] = Paused(w)]
    BY <1>15 DEF Break, Crash, Start, Continue
  <2> QED
    BY <1>1, <1>3, <2>1 DEF TypeOK
<1> QED
  BY <1>6, <1>7, <1>8, <1>9, <1>10, <1>11, <1>12, <1>13, <1>14, <1>15, <1>16 DEF Step

\* A step keeps rows and dead letters, and takes an entry off the pending list
\* only for one of them.
LEMMA StepKeepsOutcomes ==
    ASSUME LossInv, NEW w \in Workers, Step(w)
    PROVE  /\ ledger \subseteq ledger'
           /\ \A e \in Entries : dlq'[e] >= dlq[e]
           /\ \A e \in pel \ pel' : e \in ledger' \/ dlq'[e] > 0
           /\ \A e \in 1..delivered' : e \in 1..delivered \/ e \in pel'
<1> USE DEF redis, history
<1>1. /\ dlq \in [Entries -> Nat] /\ delivered \in Nat /\ pel \subseteq 1..delivered
      /\ ws[w].batch = {} <=> ws[w].pc \in Resting
  BY InStream DEF LossInv, TypeOK
<1>7. CASE Ensure(w)
  BY <1>1, <1>7 DEF Ensure, LossInv, TypeOK, GroupStart
<1>2. CASE Claim(w) \/ Count(w) \/ Expire(w) \/ Refuse(w) \/ Store(w) \/ Forget(w)
  BY <1>1, <1>2 DEF Claim, Count, Expire, Refuse, Store, Forget
<1>3. CASE FailTransiently(w)
  BY <1>1, <1>3 DEF FailTransiently
<1>4. CASE Read(w)
  BY <1>1, <1>4, InStream, WorkerConfig DEF Read, LossInv
<1>5. CASE DeadLetter(w)
  <2>1. Message(w) \in Entries
    BY <1>1, <1>5, MessageInBatch DEF DeadLetter, LossInv
  <2>2. dlq'[Message(w)] = dlq[Message(w)] + 1 /\ \A e \in Entries \ {Message(w)} : dlq'[e] = dlq[e]
    BY <1>1, <1>5, <2>1 DEF DeadLetter
  <2> QED
    BY <1>1, <1>5, <2>1, <2>2 DEF DeadLetter
<1>6. CASE Ack(w)
  <2>1. Message(w) \in ledger
    BY <1>6 DEF Ack, LossInv, AckIsEarned
  <2> QED
    BY <1>1, <1>6, <2>1 DEF Ack
<1> QED
  BY <1>2, <1>3, <1>4, <1>5, <1>6, <1>7 DEF Step

LEMMA LossNext == LossInv /\ [Next]_vars => LossInv'
<1> SUFFICES ASSUME LossInv, [Next]_vars PROVE LossInv'
  OBVIOUS
<1>1. TypeOK /\ TypeOK'
  BY TypeNext DEF LossInv
<1>2. ASSUME NEW w \in Workers, Step(w) PROVE LossInv'
  <2>1. AckIsEarned'
    <3> SUFFICES ASSUME NEW v \in Workers, ws'[v].pc = "ack" PROVE Message(v)' \in ledger'
      BY DEF AckIsEarned
    <3>1. CASE v # w
      BY <1>1, <1>2, <3>1, StepMoves, SameMessage, StepKeepsOutcomes DEF LossInv, AckIsEarned
    <3>2. CASE v = w /\ ws' # ws
      BY <1>1, <1>2, <3>2, StepMoves, SameMessage DEF Store
    <3>3. CASE ws' = ws
      BY <1>2, <3>3, SameMessage, StepKeepsOutcomes DEF LossInv, AckIsEarned
    <3> QED
      BY <3>1, <3>2, <3>3
  <2>2. NothingIsLost'
    <3> SUFFICES ASSUME NEW e \in 1..delivered'
                 PROVE  e \in pel' \/ e \in ledger' \/ dlq'[e] > 0
      BY DEF NothingIsLost
    <3>1. e \in Entries /\ dlq[e] \in Nat /\ dlq'[e] \in Nat
      <4>1. delivered' \in 0..added' /\ added' \in Entries \cup {0} /\ MaxEntries \in Nat
        BY <1>1, WorkerConfig DEF TypeOK
      <4>2. e \in Entries
        BY <4>1 DEF Entries
      <4> QED
        BY <1>1, <4>2 DEF TypeOK
    <3> QED
      BY <1>2, <3>1, StepKeepsOutcomes DEF LossInv, NothingIsLost
  <2> QED
    BY <1>1, <2>1, <2>2 DEF LossInv
<1>3. ASSUME NEW w \in Workers, Break(w) \/ Crash(w) \/ Start(w) PROVE LossInv'
  <2>1. AckIsEarned'
    <3> SUFFICES ASSUME NEW v \in Workers, ws'[v].pc = "ack" PROVE Message(v)' \in ledger'
      BY DEF AckIsEarned
    <3>1. v # w
      <4>1. ws'[w] = Paused(w) \/ ws'[w] = Started \/ ws'[w] = Stopped
        BY <1>1, <1>3 DEF Break, Crash, Start, Continue, TypeOK
      <4>2. Paused(w).pc \in Halts /\ Started.pc \in Halts /\ Stopped.pc \in Halts
        BY <1>1 DEF Paused, Started, Stopped, Worker, Resting, Halts, TypeOK
      <4> QED
        BY <4>1, <4>2
    <3>2. ledger' = ledger
      BY <1>3 DEF Break, Crash, Start, Continue
    <3> QED
      BY <1>1, <1>3, <3>1, <3>2, StepMoves, SameMessage DEF LossInv, AckIsEarned
  <2>2. NothingIsLost'
    BY <1>3 DEF LossInv, NothingIsLost, Break, Crash, Start, Continue, redis
  <2> QED
    BY <1>1, <2>1, <2>2 DEF LossInv
<1>4. CASE Publish \/ Age \/ UNCHANGED vars
  <2>1. UNCHANGED <<ws, ledger, pel, dlq, delivered>>
    BY <1>4 DEF Publish, Age, vars, redis
  <2> QED
    BY <1>1, <2>1, SameMessage DEF LossInv, AckIsEarned, NothingIsLost
<1> QED
  BY <1>2, <1>3, <1>4 DEF Next

\* No reading is lost, whatever calls fail and however many workers die
\* (processMessage, deadLetter, Recover).
THEOREM NoReadingIsLost == Spec => []NothingIsLost
<1>1. Init => LossInv
  BY TypeInit DEF Init, LossInv, AckIsEarned, NothingIsLost, Started
<1>2. LossInv => NothingIsLost
  BY DEF LossInv
<1> QED
  BY <1>1, <1>2, LossNext, PTL DEF Spec

-----------------------------------------------------------------------------
(***************************************************************************)
(* Retries are bounded.  Several workers may hold the same entry; each of  *)
(* them that has counted a retry below the limit may still fail once, so   *)
(* the failures that are due are counted with those that have happened.    *)
(***************************************************************************)
InFlight(e) ==
    {w \in Workers : /\ ws[w].pc \in {"expire", "process"}
                     /\ Message(w) = e
                     /\ ws[w].attempt < RetryLimit}

Due(e) == tries[e] + Cardinality(InFlight(e))

RetryInv ==
    /\ TypeOK
    /\ \A e \in pel : Due(e) <= attempts[e] /\ Due(e) < RetryLimit
    /\ \A e \in Entries : e > delivered => tries[e] = 0
    /\ \A w \in Workers : ws[w].pc = "forget" => Message(w) \notin pel

LEMMA InFlightFinite ==
    ASSUME NEW e
    PROVE  IsFiniteSet(InFlight(e)) /\ Cardinality(InFlight(e)) \in Nat
BY FS_Subset, FS_CardinalityType, WorkerConfig DEF InFlight

LEMMA InFlightFiniteNext ==
    ASSUME NEW e
    PROVE  IsFiniteSet(InFlight(e)') /\ Cardinality(InFlight(e)') \in Nat
BY FS_Subset, FS_CardinalityType, WorkerConfig DEF InFlight

\* Nobody is in flight with an entry that was not delivered.
LEMMA NoneInFlight ==
    ASSUME TypeOK, NEW e, e \notin 1..delivered
    PROVE  InFlight(e) = {} /\ Cardinality(InFlight(e)) = 0
<1>1. \A w \in Workers : ws[w].pc \in {"expire", "process"} => Message(w) \in 1..delivered
  BY MessageInBatch DEF TypeOK
<1> QED
  BY <1>1, FS_EmptySet DEF InFlight

\* How a step changes who is in flight: only Count adds its worker.
LEMMA StepInFlight ==
    ASSUME TypeOK, NEW w \in Workers, Step(w) \/ Break(w) \/ Crash(w) \/ Start(w), NEW e
    PROVE  /\ ~Count(w) => InFlight(e)' \subseteq InFlight(e)
           /\ Count(w) => InFlight(e)' \subseteq InFlight(e) \cup {w}
           /\ Count(w) /\ (e # Message(w) \/ attempts[e] + 1 >= RetryLimit) =>
                  InFlight(e)' \subseteq InFlight(e)
           /\ FailTransiently(w) => InFlight(e)' \subseteq InFlight(e) \ {w}
<1>1. \A v \in Workers \ {w} : v \in InFlight(e)' => v \in InFlight(e)
  <2> SUFFICES ASSUME NEW v \in Workers \ {w}, v \in InFlight(e)'
               PROVE  v \in InFlight(e)
    OBVIOUS
  <2>1. ws'[v] = ws[v] /\ Message(v)' = Message(v)
    BY StepMoves, SameMessage
  <2> QED
    BY <2>1 DEF InFlight
<1>2. w \in InFlight(e)' => (Count(w) \/ Expire(w)) /\ ws'[w].pc \in {"expire", "process"}
  <2> SUFFICES ASSUME ws'[w].pc \in {"expire", "process"} PROVE Count(w) \/ Expire(w)
    BY DEF InFlight
  <2>1. ws[w] \in Worker /\ w \in DOMAIN ws
    BY DEF TypeOK
  <2>2. Paused(w).pc \in Halts /\ Started.pc \in Halts /\ Stopped.pc \in Halts
    BY <2>1 DEF Paused, Started, Stopped, Worker
  <2>3. Advance(w).pc \in {"read", "recover", "count"}
    BY <2>1 DEF Advance, Worker
  <2>4. \A pc : Goto(w, pc).pc = pc
    BY <2>1 DEF Goto, Worker
  <2>5. ASSUME Claim(w) PROVE FALSE
    <3> DEFINE batch == FirstOf({d \in idle : d >= ws[w].claimFrom}, BatchSize)
               local == [WithBatch(w, "recover", batch, "read") EXCEPT !.claimFrom = Cursor(w, batch)]
    <3>1. Ends(w, local) /\ ws[w].pc = "recover"
      BY <2>5 DEF Claim
    <3>2. local.pc \in {"read", "count"}
      <4> HIDE DEF batch
      <4> QED
        BY <2>1 DEF WithBatch, Worker
    <3> HIDE DEF local
    <3> QED
      BY <2>1, <2>2, <3>1, <3>2 DEF Ends, Continue
  <2>11. ASSUME Ensure(w) PROVE FALSE
    <3>1. Ends(w, Goto(w, "recover")) /\ ws[w].pc = "ensure"
      BY <2>11 DEF Ensure, Goto
    <3> QED
      BY <2>1, <2>2, <2>4, <3>1 DEF Ends, Continue
  <2>6. ASSUME Read(w) PROVE FALSE
    <3>1. PICK batch : Ends(w, WithBatch(w, "read", batch, "recover")) /\ ws[w].pc = "read"
      BY <2>6 DEF Read
    <3>2. WithBatch(w, "read", batch, "recover").pc \in {"recover", "count"}
      BY <2>1 DEF WithBatch, Worker
    <3> QED
      BY <2>1, <2>2, <3>1, <3>2 DEF Ends, Continue
  <2>7. ASSUME Refuse(w) \/ Store(w) \/ FailTransiently(w) PROVE FALSE
    BY <2>1, <2>2, <2>4, <2>7 DEF Refuse, Store, FailTransiently, Continue
  <2>8. ASSUME DeadLetter(w) \/ Forget(w) PROVE FALSE
    BY <2>1, <2>2, <2>3, <2>8 DEF DeadLetter, Forget, Ends, Continue
  <2>9. ASSUME Ack(w) PROVE FALSE
    BY <2>1, <2>2, <2>4, <2>9 DEF Ack, Ends, Continue
  <2>10. ASSUME Break(w) \/ Crash(w) \/ Start(w) PROVE FALSE
    BY <2>1, <2>2, <2>10 DEF Break, Crash, Start, Continue
  <2> QED
    BY <2>5, <2>6, <2>7, <2>8, <2>9, <2>10, <2>11 DEF Step
<1>3. Expire(w) /\ w \in InFlight(e)' => w \in InFlight(e)
  <2> SUFFICES ASSUME Expire(w), w \in InFlight(e)' PROVE w \in InFlight(e)
    OBVIOUS
  <2>1. ws[w] \in Worker /\ w \in DOMAIN ws
    BY DEF TypeOK
  <2>2. ws'[w] = Paused(w) \/ ws' = ws \/ (\E pc : ws'[w] = Goto(w, pc))
    BY <2>1 DEF Expire, Ends, Continue
  <2>3. ws'[w].batch = ws[w].batch /\ ws'[w].attempt = ws[w].attempt
    BY <2>1, <2>2 DEF Paused, Goto, InFlight, Worker
  <2>4. Message(w)' = Message(w)
    BY <2>3, SameMessage
  <2> QED
    BY <2>3, <2>4 DEF InFlight, Expire
<1>4. Count(w) /\ w \in InFlight(e)' => e = Message(w) /\ attempts[e] + 1 < RetryLimit
  <2> SUFFICES ASSUME Count(w), w \in InFlight(e)'
               PROVE  e = Message(w) /\ attempts[e] + 1 < RetryLimit
    OBVIOUS
  <2> DEFINE local == [ws[w] EXCEPT !.pc = "expire", !.attempt = attempts[Message(w)] + 1]
  <2>1. ws[w] \in Worker /\ w \in DOMAIN ws
    BY DEF TypeOK
  <2>2. ws'[w] = Paused(w) \/ ws' = ws \/ ws'[w] = local
    BY <2>1 DEF Count, Ends, Continue
  <2>3. ws'[w] = local
    BY <2>1, <2>2 DEF Paused, InFlight, Worker, Count
  <2>4. local.batch = ws[w].batch /\ local.attempt = attempts[Message(w)] + 1
    BY <2>1 DEF Worker
  <2> HIDE DEF local
  <2>5. Message(w)' = Message(w)
    BY <2>3, <2>4, SameMessage
  <2> QED
    BY <2>3, <2>4, <2>5 DEF InFlight
<1>5. FailTransiently(w) => ~Count(w) /\ ~Expire(w)
  BY DEF FailTransiently, Count, Expire
<1>6. InFlight(e)' \subseteq Workers
  BY DEF InFlight
<1>7. attempts[e] + 1 >= RetryLimit /\ e \in Entries => ~(attempts[e] + 1 < RetryLimit)
  BY WorkerConfig DEF TypeOK
<1>8. Count(w) => Message(w) \in Entries
  BY MessageInBatch DEF TypeOK, Count
<1> QED
  BY <1>1, <1>2, <1>3, <1>4, <1>5, <1>6, <1>7, <1>8

\* If nobody new is in flight with an entry and its retry key is not reset, no
\* more failures are due.
LEMMA DueKept ==
    ASSUME TypeOK, TypeOK', NEW e \in Entries, Due(e) <= attempts[e], Due(e) < RetryLimit,
           InFlight(e)' \subseteq InFlight(e), tries'[e] = tries[e], attempts'[e] >= attempts[e]
    PROVE  Due(e)' <= attempts'[e] /\ Due(e)' < RetryLimit
<1>1. /\ Cardinality(InFlight(e)') \in Nat /\ Cardinality(InFlight(e)) \in Nat
      /\ Cardinality(InFlight(e)') <= Cardinality(InFlight(e))
  BY InFlightFinite, InFlightFiniteNext, FS_Subset
<1>2. /\ tries[e] \in Nat /\ attempts[e] \in Nat /\ attempts'[e] \in Nat /\ RetryLimit \in Nat
  BY WorkerConfig DEF TypeOK
<1> QED
  BY <1>1, <1>2 DEF Due

LEMMA RetryByStep ==
    ASSUME RetryInv, NEW w \in Workers, Step(w)
    PROVE  \A e \in pel' : Due(e)' <= attempts'[e] /\ Due(e)' < RetryLimit
<1> SUFFICES ASSUME NEW e \in pel'
             PROVE  Due(e)' <= attempts'[e] /\ Due(e)' < RetryLimit
  OBVIOUS
<1> USE DEF redis, history
<1>0. /\ TypeOK /\ TypeOK' /\ RetryLimit \in Nat \ {0}
      /\ attempts \in [Entries -> Nat] /\ tries \in [Entries -> Nat]
      /\ pel \subseteq 1..delivered /\ 1..delivered \subseteq Entries
  BY TypeNext, InStream, WorkerConfig DEF RetryInv, TypeOK, Next
<1>1. e \in pel => e \in Entries /\ Due(e) <= attempts[e] /\ Due(e) < RetryLimit
  BY <1>0 DEF RetryInv
<1>2. CASE Ensure(w) \/ Claim(w) \/ Expire(w) \/ Refuse(w) \/ Store(w) \/ Ack(w)
  <2>1. ~Count(w)
    BY <1>2 DEF Ensure, Claim, Expire, Refuse, Store, Ack, Count
  <2>2. e \in pel /\ attempts' = attempts /\ tries' = tries
    BY <1>2 DEF Ensure, Claim, Expire, Refuse, Store, Ack
  <2> QED
    BY <1>0, <1>1, <2>1, <2>2, StepInFlight, DueKept
<1>3. CASE DeadLetter(w) \/ Forget(w)
  <2>1. ~Count(w)
    BY <1>3 DEF DeadLetter, Forget, Count
  <2>2. e \in pel /\ e # Message(w)
    BY <1>3 DEF DeadLetter, Forget, RetryInv
  <2>3. attempts'[e] = attempts[e] /\ tries' = tries
    BY <1>0, <1>1, <1>3, <2>2 DEF DeadLetter, Forget
  <2> QED
    BY <1>0, <1>1, <2>1, <2>2, <2>3, StepInFlight, DueKept
<1>4. CASE Read(w)
  <2>1. ~Count(w) /\ attempts' = attempts /\ tries' = tries
    BY <1>4 DEF Read, Count
  <2>2. CASE e \in pel
    BY <1>0, <1>1, <2>1, <2>2, StepInFlight, DueKept
  <2>3. CASE e \notin pel
    <3>1. e \in Entries /\ e > delivered /\ e \notin 1..delivered
      <4>1. /\ delivered' \in 0..added' /\ added' \in Entries \cup {0} /\ MaxEntries \in Nat
            /\ pel' \subseteq 1..delivered' /\ delivered \in Nat
        BY <1>0, InStream, WorkerConfig DEF TypeOK
      <4>2. e \in Entries
        BY <4>1 DEF Entries
      <4>3. e \in delivered + 1 .. delivered'
        BY <1>4, <2>3 DEF Read
      <4> QED
        BY <4>1, <4>2, <4>3
    <3>2. tries[e] = 0 /\ InFlight(e)' \subseteq {}
      BY <1>0, <2>1, <3>1, NoneInFlight, StepInFlight DEF RetryInv
    <3>3. Cardinality(InFlight(e)') = 0
      BY <3>2, FS_EmptySet
    <3>4. attempts'[e] \in Nat
      BY <1>0, <3>1 DEF TypeOK
    <3> QED
      BY <1>0, <2>1, <3>2, <3>3, <3>4 DEF Due
  <2> QED
    BY <2>2, <2>3
<1>5. CASE Count(w)
  <2>1. e \in pel /\ tries' = tries /\ Message(w) \in Entries
    BY <1>0, <1>5, MessageInBatch DEF Count, TypeOK
  <2>2. CASE e # Message(w) \/ attempts[e] + 1 >= RetryLimit
    <3>1. attempts'[e] >= attempts[e]
      BY <1>0, <1>1, <1>5, <2>1 DEF Count
    <3> QED
      BY <1>0, <1>1, <1>5, <2>1, <2>2, <3>1, StepInFlight, DueKept
  <2>3. CASE e = Message(w) /\ attempts[e] + 1 < RetryLimit
    <3>1. attempts'[e] = attempts[e] + 1 /\ attempts[e] \in Nat /\ tries[e] \in Nat
      BY <1>0, <1>1, <1>5, <2>1, <2>3 DEF Count
    <3>2. InFlight(e)' \subseteq InFlight(e) \cup {w}
      BY <1>0, <1>5, StepInFlight
    <3>3. /\ IsFiniteSet(InFlight(e) \cup {w})
          /\ Cardinality(InFlight(e) \cup {w}) <= Cardinality(InFlight(e)) + 1
          /\ Cardinality(InFlight(e)) \in Nat /\ Cardinality(InFlight(e)') \in Nat
          /\ Cardinality(InFlight(e) \cup {w}) \in Nat
      <4>1. /\ IsFiniteSet(InFlight(e))
            /\ Cardinality(InFlight(e)) \in Nat /\ Cardinality(InFlight(e)') \in Nat
        BY InFlightFinite, InFlightFiniteNext
      <4>2. /\ IsFiniteSet(InFlight(e) \cup {w})
            /\ Cardinality(InFlight(e) \cup {w}) =
                   IF w \in InFlight(e) THEN Cardinality(InFlight(e))
                   ELSE Cardinality(InFlight(e)) + 1
        BY <4>1, FS_AddElement
      <4> QED
        BY <4>1, <4>2
    <3>4. Cardinality(InFlight(e)') <= Cardinality(InFlight(e) \cup {w})
      BY <3>2, <3>3, FS_Subset
    <3> QED
      BY <1>0, <1>1, <2>1, <2>3, <3>1, <3>3, <3>4 DEF Due
  <2> QED
    BY <1>0, <1>1, <2>1, <2>2, <2>3
<1>6. CASE FailTransiently(w)
  <2>1. e \in pel /\ attempts' = attempts /\ Message(w) \in Entries /\ ~Count(w)
    BY <1>0, <1>6, MessageInBatch DEF FailTransiently, TypeOK, Count
  <2>2. CASE tries'[e] = tries[e]
    BY <1>0, <1>1, <1>6, <2>1, <2>2, StepInFlight, DueKept
  <2>3. CASE tries'[e] # tries[e]
    <3>1. e = Message(w) /\ ~Exhausted(ws[w].attempt) /\ tries'[e] = tries[e] + 1
      BY <1>0, <1>1, <1>6, <2>1, <2>3 DEF FailTransiently
    <3>2. w \in InFlight(e)
      <4>1. ws[w].attempt \in Nat /\ ws[w].pc = "process"
        BY <1>0, <1>6 DEF TypeOK, Worker, FailTransiently
      <4> QED
        BY <1>0, <3>1, <4>1 DEF InFlight, Exhausted
    <3>3. /\ IsFiniteSet(InFlight(e) \ {w})
          /\ Cardinality(InFlight(e) \ {w}) = Cardinality(InFlight(e)) - 1
          /\ Cardinality(InFlight(e)) \in Nat /\ Cardinality(InFlight(e)') \in Nat
      BY <3>2, InFlightFinite, InFlightFiniteNext, FS_RemoveElement
    <3>4. Cardinality(InFlight(e)') <= Cardinality(InFlight(e) \ {w})
      BY <1>0, <1>6, <3>3, StepInFlight, FS_Subset
    <3>5. tries[e] \in Nat /\ attempts[e] \in Nat
      BY <1>0, <1>1, <2>1
    <3> QED
      BY <1>0, <1>1, <2>1, <3>1, <3>3, <3>4, <3>5 DEF Due
  <2> QED
    BY <2>2, <2>3
<1> QED
  BY <1>2, <1>3, <1>4, <1>5, <1>6 DEF Step

LEMMA RetryNext == RetryInv /\ [Next]_vars => RetryInv'
<1> SUFFICES ASSUME RetryInv, [Next]_vars PROVE RetryInv'
  OBVIOUS
<1> USE DEF redis, history
<1>1. /\ TypeOK /\ TypeOK' /\ delivered \in Nat /\ delivered' \in Nat
      /\ 1..delivered \subseteq Entries /\ tries \in [Entries -> Nat]
      /\ pel \subseteq 1..delivered
  <2>1. TypeOK /\ TypeOK'
    BY TypeNext DEF RetryInv
  <2>2. delivered' \in 0..added' /\ added' \in Entries \cup {0} /\ MaxEntries \in Nat
    BY <2>1, WorkerConfig DEF TypeOK
  <2>3. delivered' \in Nat
    BY <2>2 DEF Entries
  <2>4. tries \in [Entries -> Nat] /\ pel \subseteq 1..delivered
    BY <2>1 DEF TypeOK
  <2> QED
    BY <2>1, <2>3, <2>4, InStream
<1>2. ASSUME NEW w \in Workers, Step(w) PROVE RetryInv'
  <2>1. \A e \in Entries : e > delivered' => tries'[e] = 0
    <3> SUFFICES ASSUME NEW e \in Entries, e > delivered' PROVE tries'[e] = 0
      OBVIOUS
    <3>1. delivered' >= delivered
      <4>1. CASE Ensure(w)
        BY <1>1, <4>1 DEF Ensure, TypeOK, GroupStart
      <4>2. CASE Read(w)
        <5>1. added \in Nat /\ delivered <= added /\ BatchSize \in Nat
          BY <1>1, InStream, WorkerConfig
        <5> QED
          BY <1>1, <4>2, <5>1 DEF Read
      <4>3. CASE delivered' = delivered
        BY <1>1, <4>3
      <4>4. Ensure(w) \/ Read(w) \/ delivered' = delivered
        BY <1>2 DEF Step, Claim, Count, Expire, Refuse, Store, FailTransiently, DeadLetter, Ack, Forget
      <4> QED
        BY <4>1, <4>2, <4>3, <4>4
    <3>2. tries[e] = 0 /\ e \notin 1..delivered
      BY <1>1, <3>1 DEF RetryInv, Entries
    <3>3. CASE FailTransiently(w)
      <4>1. Message(w) \in 1..delivered
        BY <1>1, <3>3, MessageInBatch DEF FailTransiently, TypeOK
      <4> QED
        BY <1>1, <3>2, <3>3, <4>1 DEF FailTransiently
    <3>4. CASE ~FailTransiently(w)
      BY <1>2, <3>2, <3>4
         DEF Step, Ensure, Claim, Read, Count, Expire, Refuse, Store, DeadLetter, Ack, Forget
    <3> QED
      BY <3>3, <3>4
  <2>2. \A v \in Workers : ws'[v].pc = "forget" => Message(v)' \notin pel'
    <3> SUFFICES ASSUME NEW v \in Workers, ws'[v].pc = "forget"
                 PROVE  Message(v)' \notin pel'
      OBVIOUS
    <3>1. CASE v = w /\ ws' # ws
      BY <1>1, <1>2, <3>1, StepMoves, SameMessage DEF Ack
    <3>3. CASE v = w /\ ws' = ws
      <4>1. ws[w].pc = "forget" /\ Message(w)' = Message(w) /\ Message(w) \notin pel
        BY <3>3, SameMessage DEF RetryInv
      <4>2. pel' = pel
        BY <1>2, <4>1 DEF Step, Ensure, Claim, Read, Count, Expire, Refuse, Store,
                          FailTransiently, DeadLetter, Ack, Forget
      <4> QED
        BY <3>3, <4>1, <4>2
    <3>2. CASE v # w
      <4>1. Message(v)' = Message(v) /\ Message(v) \notin pel
        BY <1>1, <1>2, <3>2, StepMoves, SameMessage DEF RetryInv
      <4>2. Message(v) \in 1..delivered
        BY <1>1, <1>2, <3>2, StepMoves, MessageInBatch DEF TypeOK
      <4>3. \A e \in pel' : e \in pel \/ e \notin 1..delivered
        BY <1>1, <1>2, InStream
           DEF Step, Ensure, Claim, Read, Count, Expire, Refuse, Store, FailTransiently, DeadLetter, Ack, Forget
      <4> QED
        BY <4>1, <4>2, <4>3
    <3> QED
      BY <3>1, <3>2, <3>3
  <2> QED
    BY <1>1, <1>2, <2>1, <2>2, RetryByStep DEF RetryInv
<1>3. ASSUME NEW w \in Workers, Break(w) \/ Crash(w) \/ Start(w) PROVE RetryInv'
  <2>1. UNCHANGED <<pel, attempts, tries, delivered>>
    BY <1>3 DEF Break, Crash, Start, Continue
  <2>2. ~Count(w)
    <3> SUFFICES ASSUME Count(w) PROVE FALSE
      OBVIOUS
    <3>1. Message(w) \in Entries /\ attempts \in [Entries -> Nat]
      BY <1>1, MessageInBatch DEF Count, TypeOK
    <3>2. attempts' = [attempts EXCEPT ![Message(w)] = @ + 1] /\ attempts' = attempts
      BY <2>1 DEF Count
    <3> QED
      BY <3>1, <3>2
  <2>3. \A e \in pel' : Due(e)' <= attempts'[e] /\ Due(e)' < RetryLimit
    <3> SUFFICES ASSUME NEW e \in pel
                 PROVE  Due(e)' <= attempts'[e] /\ Due(e)' < RetryLimit
      BY <2>1
    <3>1. e \in Entries /\ attempts[e] \in Nat
      BY <1>1 DEF TypeOK
    <3>2. InFlight(e)' \subseteq InFlight(e)
      BY <1>1, <1>3, <2>2, StepInFlight
    <3>3. tries'[e] = tries[e] /\ attempts'[e] >= attempts[e]
      BY <2>1, <3>1
    <3> QED
      BY <1>1, <3>1, <3>2, <3>3, DueKept DEF RetryInv
  <2>4. \A v \in Workers : ws'[v].pc = "forget" => Message(v)' \notin pel'
    <3> SUFFICES ASSUME NEW v \in Workers, ws'[v].pc = "forget"
                 PROVE  Message(v)' \notin pel'
      OBVIOUS
    <3>1. Paused(w).pc \in Halts /\ Started.pc \in Halts /\ Stopped.pc \in Halts
      BY <1>1 DEF Paused, Started, Stopped, Worker, Resting, Halts, TypeOK
    <3>2. v # w
      BY <1>1, <1>3, <3>1 DEF Break, Crash, Start, Continue, TypeOK
    <3> QED
      BY <1>1, <1>3, <2>1, <3>2, StepMoves, SameMessage DEF RetryInv
  <2> QED
    BY <1>1, <2>1, <2>3, <2>4 DEF RetryInv
<1>4. CASE Publish \/ Age \/ UNCHANGED vars
  <2>1. UNCHANGED <<ws, pel, attempts, tries, delivered>>
    BY <1>4 DEF Publish, Age, vars
  <2>2. \A w \in Workers : Message(w)' = Message(w)
    BY <2>1, SameMessage
  <2>3. \A e : InFlight(e)' = InFlight(e)
    BY <2>1, <2>2 DEF InFlight
  <2> QED
    BY <1>1, <2>1, <2>2, <2>3 DEF RetryInv, Due
<1> QED
  BY <1>2, <1>3, <1>4 DEF Next

\* A pending entry has failed fewer times than the limit, however many workers
\* take turns with it (incrementAttempt, processMessage).
THEOREM RetryBound == Spec => []RetriesAreBounded
<1>1. Init => RetryInv
  BY TypeInit DEF Init, RetryInv, Started
<1>2. RetryInv => RetriesAreBounded
  <2> SUFFICES ASSUME RetryInv, NEW e \in pel PROVE tries[e] < RetryLimit
    BY DEF RetriesAreBounded
  <2>1. e \in Entries /\ tries[e] \in Nat /\ RetryLimit \in Nat
    BY InStream, WorkerConfig DEF RetryInv, TypeOK
  <2> QED
    BY <2>1, InFlightFinite DEF RetryInv, Due
<1> QED
  BY <1>1, <1>2, RetryNext, PTL DEF Spec

-----------------------------------------------------------------------------
(***************************************************************************)
(* A good reading is buried only for a failure.  The failure comes before  *)
(* the copy, so the workers that are about to send one are counted too.    *)
(***************************************************************************)
Burying == {w \in Workers : ws[w].pc = "bury" /\ Message(w) \in Good}

BuryInv ==
    /\ TypeOK
    /\ IsFiniteSet(Copies)
    /\ Cardinality(Copies) + Cardinality(Burying) <= failures

LEMMA BuryingFinite ==
    /\ IsFiniteSet(Burying) /\ Cardinality(Burying) \in Nat
    /\ IsFiniteSet(Burying') /\ Cardinality(Burying') \in Nat
BY FS_Subset, FS_CardinalityType, WorkerConfig DEF Burying

LEMMA FailuresGrow ==
    ASSUME TypeOK, TypeOK', [Next]_vars
    PROVE  failures' >= failures /\ failures \in Nat /\ failures' \in Nat
<1>1. failures \in Nat /\ failures' \in Nat
  BY WorkerConfig DEF TypeOK
<1>2. failures' = failures \/ failures' = failures + 1
  BY DEF Next, Step, Publish, Age, Ensure, Claim, Read, Count, Expire, Refuse, Store,
         FailTransiently, DeadLetter, Ack, Forget, Break, Crash, Start, Ends, Continue, vars
<1> QED
  BY <1>1, <1>2

\* Only a failure of the Processor sends a worker to bury a good reading, and only
\* a lost reply makes it bury one again.
LEMMA StepBuries ==
    ASSUME TypeOK, NEW w \in Workers, Step(w) \/ Break(w) \/ Crash(w) \/ Start(w)
    PROVE  /\ Burying' \subseteq Burying \cup {w}
           /\ w \in Burying' =>
                  /\ failures' = failures + 1
                  /\ \/ FailTransiently(w) /\ w \notin Burying /\ Burying' = Burying \cup {w}
                     \/ DeadLetter(w) /\ w \in Burying /\ Burying' \subseteq Burying
<1>1. \A v \in Workers \ {w} : v \in Burying' <=> v \in Burying
  <2>1. \A v \in Workers \ {w} : ws'[v] = ws[v] /\ Message(v)' = Message(v)
    BY StepMoves, SameMessage
  <2> QED
    BY <2>1 DEF Burying, Good, Entries
<1>2. ASSUME w \in Burying', ws' # ws PROVE FailTransiently(w) /\ failures' = failures + 1
  <2>1. ws'[w].pc = "bury" /\ Message(w)' \in Good
    BY <1>2 DEF Burying, Good, Entries
  <2>2. /\ Expire(w) \/ Refuse(w) \/ FailTransiently(w)
        /\ Message(w)' = Message(w)
    BY <1>2, <2>1, StepMoves, SameMessage
  <2>3. Message(w) \notin Malformed \cup Rejected \cup Poison
    BY <2>1, <2>2 DEF Good
  <2>4. ~Refuse(w)
    BY <2>3 DEF Refuse
  <2>5. ASSUME Expire(w) PROVE FALSE
    <3>1. Ends(w, Goto(w, "process"))
      BY <2>3, <2>5 DEF Expire, Parses
    <3>2. ws' = [ws EXCEPT ![w] = Goto(w, "process")] \/ ws' = [ws EXCEPT ![w] = Paused(w)]
      BY <1>2, <3>1 DEF Ends, Continue
    <3>3. Goto(w, "process").pc = "process" /\ Paused(w).pc \in Halts
      BY DEF TypeOK, Goto, Paused, Worker
    <3> QED
      BY <2>1, <3>2, <3>3 DEF TypeOK
  <2>6. FailTransiently(w)
    BY <2>2, <2>4, <2>5
  <2> QED
    BY <2>3, <2>6 DEF FailTransiently
<1>3. ASSUME w \in Burying', ws' # ws PROVE w \notin Burying
  BY <1>2, <1>3 DEF FailTransiently, Burying
<1>4. ASSUME w \in Burying', ws' = ws
      PROVE  w \in Burying /\ DeadLetter(w) /\ failures' = failures + 1
  <2>1. w \in Burying /\ ws[w].pc = "bury"
    BY <1>4, SameMessage DEF Burying, Good, Entries
  <2>2. DeadLetter(w) \/ Break(w) \/ Crash(w)
    BY <2>1 DEF Step, Ensure, Claim, Read, Count, Expire, Refuse, Store,
                FailTransiently, Ack, Forget, Start
  <2>3. /\ ws[w] \in Worker /\ Paused(w).pc \in Halts /\ Stopped.pc \in Halts
        /\ Advance(w).pc \in {"read", "recover", "count"}
    BY DEF TypeOK, Paused, Started, Stopped, Advance, Worker
  <2>4. DeadLetter(w) /\ ~Continue(w, Advance(w))
    BY <1>4, <2>1, <2>2, <2>3 DEF Break, Crash, Continue, TypeOK
  <2> QED
    BY <2>1, <2>4 DEF DeadLetter, Ends
<1>5. w \in Burying => Burying \cup {w} = Burying
  OBVIOUS
<1>6. Burying' \subseteq Burying \cup {w}
  BY <1>1 DEF Burying
<1>7. CASE w \in Burying' /\ ws' # ws
  BY <1>1, <1>2, <1>3, <1>6, <1>7 DEF Burying
<1>8. CASE w \in Burying' /\ ws' = ws
  BY <1>4, <1>5, <1>6, <1>8
<1> QED
  BY <1>6, <1>7, <1>8

LEMMA CopiesOf ==
    ASSUME NEW S, NEW n, NEW q
    PROVE  q \in UNION {{d} \X (1..n[d]) : d \in S} <=> \E d \in S : \E i \in 1..n[d] : q = <<d, i>>
<1>1. q \in UNION {{d} \X (1..n[d]) : d \in S} <=> \E d \in S : q \in {d} \X (1..n[d])
  BY Zenon
<1>2. \A d, I : q \in {d} \X I <=> \E i \in I : q = <<d, i>>
  OBVIOUS
<1> QED
  BY <1>1, <1>2, Zenon

\* The copies that a dead letter adds.
LEMMA CopiesGrow ==
    ASSUME TypeOK, IsFiniteSet(Copies), NEW w \in Workers, DeadLetter(w)
    PROVE  /\ IsFiniteSet(Copies')
           /\ Cardinality(Copies') = Cardinality(Copies) + (IF w \in Burying THEN 1 ELSE 0)
<1> DEFINE e == Message(w)
           p == <<e, dlq[e] + 1>>
<1>1. e \in Entries /\ dlq \in [Entries -> Nat] /\ Good \subseteq Entries
  BY MessageInBatch DEF DeadLetter, TypeOK, Good
<1>2. w \in Burying <=> e \in Good
  BY DEF DeadLetter, Burying
<1>3. dlq'[e] = dlq[e] + 1 /\ \A d \in Entries \ {e} : dlq'[d] = dlq[d]
  BY <1>1 DEF DeadLetter
<1>4. Copies' = UNION {{d} \X (1..dlq'[d]) : d \in Good}
  BY DEF Copies, Good, Entries
<1>5. CASE e \notin Good
  <2>1. \A d \in Good : dlq'[d] = dlq[d]
    BY <1>1, <1>3, <1>5
  <2>2. Copies' = Copies
    BY <1>4, <2>1 DEF Copies
  <2>3. Cardinality(Copies) \in Nat
    BY FS_CardinalityType
  <2> QED
    BY <1>2, <1>5, <2>2, <2>3
<1>6. CASE e \in Good
  <2>1. p \notin Copies
    BY <1>1 DEF Copies
  <2>2. \A q : q \in Copies' <=> q \in Copies \cup {p}
    <3>1. \A q : q \in Copies' <=> \E d \in Good : \E i \in 1..dlq'[d] : q = <<d, i>>
      <4>1. \A q : q \in UNION {{d} \X (1..dlq'[d]) : d \in Good}
                      <=> \E d \in Good : \E i \in 1..dlq'[d] : q = <<d, i>>
        BY CopiesOf
      <4> QED
        BY <1>4, <4>1, Zenon
    <3>2. \A q : q \in Copies <=> \E d \in Good : \E i \in 1..dlq[d] : q = <<d, i>>
      <4>1. \A q : q \in UNION {{d} \X (1..dlq[d]) : d \in Good}
                      <=> \E d \in Good : \E i \in 1..dlq[d] : q = <<d, i>>
        BY CopiesOf
      <4> QED
        BY <4>1, Zenon DEF Copies
    <3>3. 1..dlq'[e] = 1..dlq[e] \cup {dlq[e] + 1}
      BY <1>1, <1>3
    <3> HIDE DEF e
    <3> QED
      BY <1>1, <1>3, <1>6, <3>1, <3>2, <3>3
  <2> HIDE DEF p
  <2>3. Copies' = Copies \cup {p}
    BY <2>2
  <2> QED
    BY <1>2, <1>6, <2>1, <2>3, FS_AddElement
<1> QED
  BY <1>5, <1>6

LEMMA BuryNext == BuryInv /\ [Next]_vars => BuryInv'
<1> SUFFICES ASSUME BuryInv, [Next]_vars PROVE BuryInv'
  OBVIOUS
<1>1. /\ TypeOK /\ TypeOK' /\ IsFiniteSet(Copies) /\ Cardinality(Copies) \in Nat
      /\ Cardinality(Copies) + Cardinality(Burying) <= failures
      /\ failures' >= failures /\ failures \in Nat /\ failures' \in Nat
  BY TypeNext, FailuresGrow, FS_CardinalityType DEF BuryInv
<1>2. ASSUME dlq' = dlq, Burying' \subseteq Burying PROVE BuryInv'
  <2>1. Copies' = Copies
    BY <1>2 DEF Copies, Good, Entries
  <2>2. Cardinality(Burying') <= Cardinality(Burying)
    BY <1>2, BuryingFinite, FS_Subset
  <2> QED
    BY <1>1, <2>1, <2>2, BuryingFinite DEF BuryInv
<1>3. ASSUME NEW w \in Workers, Step(w) \/ Break(w) \/ Crash(w) \/ Start(w) PROVE BuryInv'
  <2>1. CASE w \in Burying' /\ FailTransiently(w)
    <3>1. /\ FailTransiently(w) /\ failures' = failures + 1
          /\ w \notin Burying /\ Burying' = Burying \cup {w}
      BY <1>1, <1>3, <2>1, StepBuries DEF FailTransiently, DeadLetter
    <3>2. Copies' = Copies
      BY <3>1 DEF FailTransiently, redis, Copies, Good, Entries
    <3>3. Cardinality(Burying') = Cardinality(Burying) + 1
      BY <3>1, BuryingFinite, FS_AddElement
    <3> QED
      BY <1>1, <3>1, <3>2, <3>3, BuryingFinite DEF BuryInv
  <2>2. CASE w \notin Burying' /\ ~DeadLetter(w)
    <3>1. dlq' = dlq
      BY <1>3, <2>2 DEF Step, Ensure, Claim, Read, Count, Expire, Refuse, Store, FailTransiently,
                        Ack, Forget, Break, Crash, Start, Continue, redis
    <3>2. Burying' \subseteq Burying
      BY <1>1, <1>3, <2>2, StepBuries
    <3> QED
      BY <1>2, <3>1, <3>2
  <2>3. CASE w \notin Burying' /\ DeadLetter(w)
    <3>1. Burying' \subseteq Burying \ {w}
      BY <1>1, <1>3, <2>3, StepBuries
    <3>2. /\ IsFiniteSet(Copies')
          /\ Cardinality(Copies') = Cardinality(Copies) + (IF w \in Burying THEN 1 ELSE 0)
      BY <1>1, <2>3, CopiesGrow
    <3>3. /\ IsFiniteSet(Burying \ {w})
          /\ Cardinality(Burying \ {w}) =
                 Cardinality(Burying) - (IF w \in Burying THEN 1 ELSE 0)
      BY BuryingFinite, FS_RemoveElement
    <3>4. Cardinality(Burying') <= Cardinality(Burying \ {w})
      BY <3>1, <3>3, FS_Subset
    <3>5. Cardinality(Copies') + Cardinality(Burying') <= failures'
      <4>1. CASE w \in Burying
        BY <1>1, <3>2, <3>3, <3>4, <4>1, BuryingFinite
      <4>2. CASE w \notin Burying
        BY <1>1, <3>2, <3>3, <3>4, <4>2, BuryingFinite
      <4> QED
        BY <4>1, <4>2
    <3> QED
      BY <1>1, <3>2, <3>5 DEF BuryInv
  <2>4. CASE w \in Burying' /\ ~FailTransiently(w)
    <3>1. DeadLetter(w) /\ w \in Burying /\ Burying' \subseteq Burying /\ failures' = failures + 1
      BY <1>1, <1>3, <2>4, StepBuries
    <3>2. IsFiniteSet(Copies') /\ Cardinality(Copies') = Cardinality(Copies) + 1
      BY <1>1, <3>1, CopiesGrow
    <3>3. Cardinality(Burying') <= Cardinality(Burying)
      BY <3>1, BuryingFinite, FS_Subset
    <3> QED
      BY <1>1, <3>1, <3>2, <3>3, BuryingFinite DEF BuryInv
  <2> QED
    BY <2>1, <2>2, <2>3, <2>4
<1>4. CASE Publish \/ Age \/ UNCHANGED vars
  <2>1. UNCHANGED <<ws, dlq>>
    BY <1>4 DEF Publish, Age, vars, redis
  <2>2. \A w \in Workers : Message(w)' = Message(w)
    BY <2>1, SameMessage
  <2>3. Burying' \subseteq Burying
    BY <2>1, <2>2 DEF Burying, Good, Entries
  <2> QED
    BY <1>2, <2>1, <2>3
<1> QED
  BY <1>3, <1>4 DEF Next

\* There are no more copies of good readings in the dead letters than failures,
\* for any number of workers, re-sent calls and overlapping deliveries.
THEOREM GoodReadingsAreBuriedByFailures == Spec => []BuriedByFailures
<1>1. Init => BuryInv
  <2> SUFFICES ASSUME Init PROVE BuryInv
    OBVIOUS
  <2>1. dlq = [e \in Entries |-> 0] /\ failures = 0 /\ \A w \in Workers : ws[w] = Started
    BY DEF Init
  <2>2. Burying = {}
    BY <2>1 DEF Burying, Started
  <2>3. Copies = {}
    BY <2>1 DEF Copies, Good
  <2> QED
    BY <2>1, <2>2, <2>3, TypeInit, FS_EmptySet DEF BuryInv
<1>2. BuryInv => BuriedByFailures
  <2> SUFFICES ASSUME BuryInv PROVE Cardinality(Copies) <= failures
    BY DEF BuriedByFailures
  <2>1. failures \in Nat /\ Cardinality(Copies) \in Nat /\ Cardinality(Burying) \in Nat
    BY BuryingFinite, FS_CardinalityType, WorkerConfig DEF BuryInv, TypeOK
  <2> QED
    BY <2>1 DEF BuryInv
<1> QED
  BY <1>1, <1>2, BuryNext, PTL DEF Spec

\* An entry is given up after the limit of failures at the latest, and good ones
\* not more often than calls fail (incrementAttempt, processMessage).
THEOREM EntriesAreGivenUpForFailures == Spec => []GivenUpForFailures
BY RetryBound, GoodReadingsAreBuriedByFailures, PTL DEF GivenUpForFailures
=============================================================================
