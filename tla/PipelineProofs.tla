--------------------------- MODULE PipelineProofs ---------------------------
(***************************************************************************)
(* Proofs about Pipeline, for any workers, devices and failures.  The      *)
(* inductive invariant PInv says what a worker knows at each step (Placed) *)
(* and what its pending map and its history tell about an event (Kept);    *)
(* it does not look into Add, so it holds whatever the managers answer.    *)
(* SInv, in the second half, follows the readings from the stream through  *)
(* Add into the weighings.                                                 *)
(***************************************************************************)
EXTENDS Pipeline, TLAPS

Local ==
    [pc : {"idle", "process", "write", "finalize", "bury", "ack"}, entry : Nat, attempt : Nat]

\* pending is a map of maps; what it holds is said by Kept.
Maps ==
    /\ pending = [w \in Workers |-> pending[w]]
    /\ \A w \in Workers : pending[w] = [ev \in Events |-> pending[w][ev]]

PType ==
    /\ feed \in Feeds
    /\ published \in 0..Len(feed) /\ delivered \in 0..published
    /\ pel \subseteq 1..delivered /\ dlq \subseteq 1..delivered
    /\ attempts \in [Entries -> Nat]
    /\ ledger \subseteq Events
    /\ ws \in [Workers -> Local]
    /\ Maps
    /\ told \in [Workers -> [Events -> {"nothing", "reading", "weight", "refusal"}]]
    /\ failures \in 0..MaxFailures[feed]

Placed(w) ==
    /\ ws[w].pc # "idle" => ws[w].entry \in 1..delivered
    /\ ws[w].pc \in {"write", "finalize"} => Work(w).kind # "none"
    /\ ws[w].pc = "ack" => Durable(Reads(w))

TellsTruth(w, r) ==
    /\ told[w][r.event] = "weight" => pending[w][r.event].kind = "weight" \/ Recorded(r)
    /\ told[w][r.event] \in {"reading", "weight"} =>
           pending[w][r.event].kind # "none" \/ Durable(r)

Kept(w) ==
    /\ \A ev \in Events : pending[w][ev].kind # "none" =>
           \E e \in 1..delivered : feed[e].event = ev
    /\ \A e \in Entries : TellsTruth(w, feed[e])

PInv ==
    /\ PType
    /\ AcknowledgedIsDurable
    /\ \A w \in Workers : Placed(w) /\ Kept(w)

-----------------------------------------------------------------------------
(* What follows from the types.                                            *)

\* Every entry is a reading, and entries of one event are one reading.
LEMMA EntriesAreReadings ==
    ASSUME feed \in Feeds
    PROVE  /\ Len(feed) \in Nat
           /\ \A e \in Entries : feed[e].event \in Events
           /\ \A e, d \in Entries : feed[e].event = feed[d].event => feed[e] = feed[d]
<1>1. feed \in Seq(Reading)
  BY PipelineConfig DEF PipelineConfig
<1>2. Len(feed) \in Nat /\ DOMAIN feed = Entries /\ \A e \in Entries : feed[e] \in Reading
  BY <1>1 DEF Entries
<1>3. \A e, d \in DOMAIN feed : feed[e].event = feed[d].event => feed[e] = feed[d]
  BY PipelineConfig DEF PipelineConfig
<1> QED
  BY <1>2, <1>3 DEF Reading

\* A worker past Take reads a delivered entry.
LEMMA AtWork ==
    ASSUME PInv, NEW w \in Workers, ws[w].pc # "idle"
    PROVE  /\ ws[w].entry \in 1..delivered /\ ws[w].entry \in Entries
           /\ Event(w) \in Events
           /\ ws[w] \in Local
<1>1. ws[w].entry \in 1..delivered /\ ws[w] \in Local
  BY DEF PInv, PType, Placed
<1>2. ws[w].entry \in Entries
  BY <1>1, EntriesAreReadings DEF PInv, PType, Entries
<1> QED
  BY <1>1, <1>2, EntriesAreReadings DEF PInv, PType, Event, Reads

\* The worker's record after Goto and Release.
LEMMA GotoLocal ==
    ASSUME ws \in [Workers -> Local], NEW w \in Workers, NEW pc, Goto(w, pc),
           pc \in {"idle", "process", "write", "finalize", "bury", "ack"}
    PROVE  /\ ws' = [ws EXCEPT ![w] = [pc |-> pc, entry |-> ws[w].entry, attempt |-> ws[w].attempt]]
           /\ [pc |-> pc, entry |-> ws[w].entry, attempt |-> ws[w].attempt] \in Local
<1>1. ws[w] \in Local
  OBVIOUS
<1>2. ws[w].entry \in Nat /\ ws[w].attempt \in Nat
  BY <1>1 DEF Local
<1>3. [ws[w] EXCEPT !.pc = pc] = [pc |-> pc, entry |-> ws[w].entry, attempt |-> ws[w].attempt]
  BY <1>1 DEF Local
<1>4. ws' = [ws EXCEPT ![w] = [ws[w] EXCEPT !.pc = pc]]
  BY DEF Goto
<1> QED
  BY <1>2, <1>3, <1>4 DEF Local

\* The worker stays at its entry.
LEMMA SameReading ==
    ASSUME ws \in [Workers -> Local], NEW w \in Workers, Goto(w, "ack"), feed' = feed
    PROVE  ws'[w].entry = ws[w].entry /\ Reads(w)' = Reads(w)
<1> DEFINE local == [pc |-> "ack", entry |-> ws[w].entry, attempt |-> ws[w].attempt]
<1>1. ws' = [ws EXCEPT ![w] = local]
  BY GotoLocal
<1>2. ws'[w] = local
  BY <1>1
<1> QED
  BY <1>2 DEF Reads

LEMMA FreeLocal == Free \in Local
BY DEF Free, Local

\* The map after Keep.
LEMMA KeepMaps ==
    ASSUME Maps, NEW w \in Workers, Event(w) \in Events, NEW work, Keep(w, work)
    PROVE  /\ Maps'
           /\ \A u \in Workers, ev \in Events :
                  pending'[u][ev] = IF u = w /\ ev = Event(w) THEN work ELSE pending[u][ev]
           /\ \A u \in Workers : u # w => pending'[u] = pending[u]
<1> DEFINE inner == [pending[w] EXCEPT ![Event(w)] = work]
<1>1. pending' = [pending EXCEPT ![w] = inner]
  BY DEF Keep
<1>2. DOMAIN pending = Workers /\ \A u \in Workers : DOMAIN pending[u] = Events
  BY DEF Maps
<1>3. DOMAIN inner = Events
  BY <1>2
<1>4. pending' = [u \in Workers |-> IF u = w THEN inner ELSE pending[u]]
  BY <1>1, <1>2
<1>5. inner = [ev \in Events |-> IF ev = Event(w) THEN work ELSE pending[w][ev]]
  BY <1>2
<1> HIDE DEF inner
<1>6. pending' = [u \in Workers |-> pending'[u]]
  BY <1>4
<1>7. \A u \in Workers : pending'[u] = [ev \in Events |-> pending'[u][ev]]
  BY <1>4, <1>5 DEF Maps
<1> QED
  BY <1>4, <1>5, <1>6, <1>7 DEF Maps

-----------------------------------------------------------------------------
(* The steps of a worker that leave the stream alone.                      *)

LEMMA WorkerStep ==
    ASSUME PInv, NEW w \in Workers, NEW local \in Local,
           ws' = [ws EXCEPT ![w] = local],
           UNCHANGED stream,
           ledger \subseteq ledger', ledger' \subseteq Events, weighings \subseteq weighings',
           failures' \in 0..MaxFailures[feed],
           Maps',
           told' \in [Workers -> [Events -> {"nothing", "reading", "weight", "refusal"}]],
           \A u \in Workers : u # w => pending'[u] = pending[u] /\ told'[u] = told[u],
           Placed(w)', Kept(w)'
    PROVE  PInv'
<1>0. feed' = feed /\ published' = published /\ delivered' = delivered /\ pel' = pel
      /\ attempts' = attempts /\ dlq' = dlq
  BY DEF stream
<1>1. PType'
  BY <1>0 DEF PInv, PType, Entries
<1>2. AcknowledgedIsDurable'
  <2> SUFFICES ASSUME NEW e \in 1..delivered PROVE e \in pel \/ e \in dlq \/ Durable(feed[e])'
    BY <1>0 DEF AcknowledgedIsDurable
  <2>1. Durable(feed[e]) => Durable(feed[e])'
    BY <1>0 DEF Durable, Recorded, SessionId
  <2> QED
    BY <2>1 DEF PInv, AcknowledgedIsDurable
<1>3. ASSUME NEW u \in Workers, u # w PROVE Placed(u)' /\ Kept(u)'
  <2>1. ws'[u] = ws[u] /\ pending'[u] = pending[u] /\ told'[u] = told[u]
    BY <1>3 DEF PInv, PType
  <2>2. Placed(u) /\ Kept(u)
    BY DEF PInv
  <2>3. Placed(u)'
    BY <2>1, <2>2, <1>0 DEF Placed, Work, Event, Reads, Durable, Recorded, SessionId
  <2>4. ASSUME NEW e \in Entries PROVE TellsTruth(u, feed[e])'
    <3>1. (Durable(feed[e]) => Durable(feed[e])') /\ (Recorded(feed[e]) => Recorded(feed[e])')
      BY <1>0 DEF Durable, Recorded, SessionId
    <3>2. TellsTruth(u, feed[e])
      BY <2>2 DEF Kept
    <3> QED
      BY <2>1, <3>1, <3>2, <1>0 DEF TellsTruth
  <2>5. Entries' = Entries
    BY <1>0 DEF Entries
  <2> QED
    BY <2>1, <2>2, <2>3, <2>4, <2>5, <1>0 DEF Kept
<1> QED
  BY <1>1, <1>2, <1>3 DEF PInv

\* A step that changes neither the map nor the history of any worker.
LEMMA KeptStays ==
    ASSUME PInv, NEW w \in Workers, UNCHANGED <<feed, delivered, pending, told>>,
           ledger \subseteq ledger', weighings \subseteq weighings'
    PROVE  Kept(w)'
<1>1. Kept(w)
  BY DEF PInv
<1>2. ASSUME NEW e \in Entries PROVE TellsTruth(w, feed[e])'
  BY <1>1 DEF Kept, TellsTruth, Durable, Recorded, SessionId
<1> QED
  BY <1>1, <1>2 DEF Kept, Entries

\* A failed call: the work stays, the worker is free or buries the entry.
LEMMA RetryStep ==
    ASSUME PInv, NEW w \in Workers, ws[w].pc # "idle", Retry(w),
           UNCHANGED <<stream, told>>,
           ledger \subseteq ledger', ledger' \subseteq Events, weighings \subseteq weighings',
           failures' \in 0..MaxFailures[feed]
    PROVE  PInv'
<1>1. PICK local \in Local : /\ ws' = [ws EXCEPT ![w] = local]
                             /\ local.pc \in {"idle", "bury"}
                             /\ local.pc # "idle" => local.entry = ws[w].entry
  <2>1. CASE ws[w].attempt >= RetryLimit
    BY <2>1, GotoLocal DEF Retry, PInv, PType
  <2>2. CASE ~(ws[w].attempt >= RetryLimit)
    BY <2>2, FreeLocal DEF Retry, Release, Free
  <2> QED
    BY <2>1, <2>2
<1>2. pending' = pending
  BY DEF Retry
<1>3. ws'[w] = local
  BY <1>1 DEF PInv, PType
<1>4. Placed(w)'
  BY <1>1, <1>3, AtWork DEF Placed, stream
<1>5. Kept(w)'
  BY <1>2, KeptStays DEF stream
<1>6. Maps'
  BY <1>2 DEF PInv, PType, Maps
<1> QED
  BY <1>1, <1>2, <1>4, <1>5, <1>6, WorkerStep DEF PInv, PType

\* A step that only moves the worker.
LEMMA MoveStep ==
    ASSUME PInv, NEW w \in Workers, NEW local \in Local,
           ws' = [ws EXCEPT ![w] = local],
           UNCHANGED <<stream, book, ledger, pending, told>>,
           failures' \in 0..MaxFailures[feed],
           local.pc = "idle" \/ (ws[w].pc # "idle" /\ local.entry = ws[w].entry),
           local.pc \in {"write", "finalize"} => Work(w).kind # "none",
           local.pc = "ack" => Durable(Reads(w))
    PROVE  PInv'
<1>1. ws'[w] = local
  BY DEF PInv, PType
<1>2. feed' = feed /\ delivered' = delivered /\ pending' = pending /\ told' = told
      /\ ledger' = ledger /\ weighings' = weighings
  BY DEF stream, book
<1>3. Placed(w)'
  <2>1. CASE local.pc = "idle"
    BY <2>1, <1>1 DEF Placed
  <2>2. CASE local.pc # "idle"
    <3>1. ws'[w].entry = ws[w].entry /\ ws[w].entry \in 1..delivered
      BY <2>2, <1>1, AtWork
    <3> QED
      BY <3>1, <1>1, <1>2 DEF Placed, Work, Event, Reads, Durable, Recorded, SessionId
  <2> QED
    BY <2>1, <2>2
<1>4. Kept(w)'
  BY <1>2, KeptStays
<1>5. Maps'
  BY <1>2 DEF PInv, PType, Maps
<1>6. /\ ledger \subseteq ledger' /\ ledger' \subseteq Events /\ weighings \subseteq weighings'
      /\ told' \in [Workers -> [Events -> {"nothing", "reading", "weight", "refusal"}]]
      /\ \A u \in Workers : pending'[u] = pending[u] /\ told'[u] = told[u]
  BY <1>2 DEF PInv, PType
<1> QED
  BY <1>3, <1>4, <1>5, <1>6, WorkerStep

\* Process ends with a durable event: the work goes, the entry will be
\* acknowledged.
LEMMA DoneStep ==
    ASSUME PInv, NEW w \in Workers, ws[w].pc # "idle",
           Keep(w, NoWork), Goto(w, "ack"),
           UNCHANGED <<stream, told, failures>>,
           ledger \subseteq ledger', ledger' \subseteq Events, weighings \subseteq weighings',
           Durable(Reads(w))',
           told[w][Event(w)] = "weight" => Recorded(Reads(w))'
    PROVE  PInv'
<1> DEFINE local == [pc |-> "ack", entry |-> ws[w].entry, attempt |-> ws[w].attempt]
<1>1. ws' = [ws EXCEPT ![w] = local] /\ local \in Local
  BY GotoLocal DEF PInv, PType
<1>2. ws'[w] = local
  BY <1>1 DEF PInv, PType
<1>3. feed' = feed /\ delivered' = delivered /\ told' = told /\ Entries' = Entries
  BY DEF stream, Entries
<1>4. /\ ws[w].entry \in 1..delivered /\ ws[w].entry \in Entries
      /\ Event(w) \in Events /\ Event(w) = feed[ws[w].entry].event
  BY AtWork DEF Event, Reads
<1>5. Reads(w)' = Reads(w)
  BY <1>2, <1>3 DEF Reads
<1>6. Placed(w)'
  BY <1>2, <1>3, <1>4 DEF Placed
<1>7. /\ Maps'
      /\ \A u \in Workers, ev \in Events :
             pending'[u][ev] = IF u = w /\ ev = Event(w) THEN NoWork ELSE pending[u][ev]
      /\ \A u \in Workers : u # w => pending'[u] = pending[u]
  BY <1>4, KeepMaps DEF PInv, PType
<1>8. Kept(w)'
  <2>1. ASSUME NEW e \in Entries, feed[e].event = Event(w) PROVE TellsTruth(w, feed[e])'
    <3>1. feed[e] = Reads(w)
      BY <2>1, <1>4, EntriesAreReadings DEF PInv, PType, Reads
    <3>2. Durable(feed[e])'
      BY <3>1, <1>3, <1>5 DEF Durable, Recorded, SessionId
    <3>3. told[w][feed[e].event] = "weight" => Recorded(feed[e])'
      BY <3>1, <2>1, <1>3, <1>5 DEF Recorded, SessionId
    <3> QED
      BY <3>2, <3>3, <1>3 DEF TellsTruth
  <2>2. ASSUME NEW e \in Entries, feed[e].event # Event(w) PROVE TellsTruth(w, feed[e])'
    <3>1. feed[e].event \in Events
      BY EntriesAreReadings DEF PInv, PType
    <3>2. pending'[w][feed[e].event] = pending[w][feed[e].event]
      BY <3>1, <2>2, <1>7
    <3>3. TellsTruth(w, feed[e])
      BY DEF PInv, Kept
    <3> QED
      BY <3>2, <3>3, <1>3 DEF TellsTruth, Durable, Recorded, SessionId
  <2>3. \A ev \in Events : pending'[w][ev].kind # "none" => \E e \in 1..delivered : feed[e].event = ev
    BY <1>7 DEF PInv, Kept, NoWork
  <2> QED
    BY <2>1, <2>2, <2>3, <1>3 DEF Kept
<1> HIDE DEF local
<1>9. failures' \in 0..MaxFailures[feed]
      /\ told' \in [Workers -> [Events -> {"nothing", "reading", "weight", "refusal"}]]
      /\ \A u \in Workers : told'[u] = told[u]
  BY <1>3 DEF PInv, PType
<1> QED
  BY <1>1, <1>6, <1>7, <1>8, <1>9, WorkerStep

\* Process takes or drops a work and tells so.
LEMMA WorkStep ==
    ASSUME PInv, NEW w \in Workers, ws[w].pc # "idle",
           NEW work, NEW what \in {"reading", "weight", "refusal"}, NEW pc \in {"write", "bury"},
           Keep(w, work), Tell(w, what), Goto(w, pc),
           UNCHANGED <<stream, book, ledger, failures>>,
           what = "weight" => work.kind = "weight",
           what = "reading" => work.kind = "reading",
           pc = "write" => work.kind # "none"
    PROVE  PInv'
<1> DEFINE local == [pc |-> pc, entry |-> ws[w].entry, attempt |-> ws[w].attempt]
<1>1. ws' = [ws EXCEPT ![w] = local] /\ local \in Local
  BY GotoLocal DEF PInv, PType
<1>2. ws'[w] = local
  BY <1>1 DEF PInv, PType
<1>3. /\ feed' = feed /\ delivered' = delivered /\ Entries' = Entries
      /\ ledger' = ledger /\ weighings' = weighings
  BY DEF stream, book, Entries
<1>4. /\ ws[w].entry \in 1..delivered /\ ws[w].entry \in Entries
      /\ Event(w) \in Events /\ Event(w) = feed[ws[w].entry].event
  BY AtWork DEF Event, Reads
<1>5. /\ Maps'
      /\ \A u \in Workers, ev \in Events :
             pending'[u][ev] = IF u = w /\ ev = Event(w) THEN work ELSE pending[u][ev]
      /\ \A u \in Workers : u # w => pending'[u] = pending[u]
  BY <1>4, KeepMaps DEF PInv, PType
<1>6. /\ told' \in [Workers -> [Events -> {"nothing", "reading", "weight", "refusal"}]]
      /\ told'[w][Event(w)] = what
      /\ \A ev \in Events : ev # Event(w) => told'[w][ev] = told[w][ev]
      /\ \A u \in Workers : u # w => told'[u] = told[u]
  BY <1>4 DEF PInv, PType, Tell
<1>7. Placed(w)'
  <2>1. Work(w)' = work
    BY <1>2, <1>3, <1>4, <1>5 DEF Work, Event, Reads
  <2> QED
    BY <2>1, <1>2, <1>3, <1>4 DEF Placed
<1>8. Kept(w)'
  <2>1. ASSUME NEW e \in Entries, feed[e].event = Event(w) PROVE TellsTruth(w, feed[e])'
    BY <2>1, <1>3, <1>4, <1>5, <1>6 DEF TellsTruth
  <2>2. ASSUME NEW e \in Entries, feed[e].event # Event(w) PROVE TellsTruth(w, feed[e])'
    <3>1. feed[e].event \in Events
      BY EntriesAreReadings DEF PInv, PType
    <3>2. /\ pending'[w][feed[e].event] = pending[w][feed[e].event]
          /\ told'[w][feed[e].event] = told[w][feed[e].event]
      BY <3>1, <2>2, <1>5, <1>6
    <3>3. TellsTruth(w, feed[e])
      BY DEF PInv, Kept
    <3> QED
      BY <3>2, <3>3, <1>3 DEF TellsTruth, Durable, Recorded, SessionId
  <2>3. \A ev \in Events : pending'[w][ev].kind # "none" => \E e \in 1..delivered : feed[e].event = ev
    BY <1>4, <1>5 DEF PInv, Kept
  <2> QED
    BY <2>1, <2>2, <2>3, <1>3 DEF Kept
<1> HIDE DEF local
<1>9. /\ ledger \subseteq ledger' /\ ledger' \subseteq Events /\ weighings \subseteq weighings'
      /\ failures' \in 0..MaxFailures[feed]
  BY <1>3 DEF PInv, PType
<1> QED
  BY <1>1, <1>5, <1>6, <1>7, <1>8, <1>9, WorkerStep

-----------------------------------------------------------------------------
(* The actions.                                                            *)

LEMMA ResumeStep == ASSUME PInv, NEW w \in Workers, Resume(w) PROVE PInv'
<1> DEFINE local == [pc |-> "write", entry |-> ws[w].entry, attempt |-> ws[w].attempt]
<1>1. ws' = [ws EXCEPT ![w] = local] /\ local \in Local
  BY GotoLocal DEF PInv, PType, Resume
<1> QED
  BY <1>1, MoveStep DEF Resume, PInv, PType

LEMMA AddReadingStep == ASSUME PInv, NEW w \in Workers, AddReading(w) PROVE PInv'
<1>0. ws[w].pc # "idle" /\ UNCHANGED <<book, stream, ledger, failures>>
  BY DEF AddReading
<1>1. CASE answer'.error = "none" /\ answer'.weight > 0
  <2>1. Goto(w, "write") /\ Keep(w, FinalWeight(answer'.weight)) /\ Tell(w, "weight")
    BY <1>1 DEF AddReading
  <2>2. FinalWeight(answer'.weight).kind = "weight"
    BY DEF FinalWeight
  <2> QED
    BY <2>1, <2>2, <1>0, WorkStep
<1>2. CASE answer'.error = "none" /\ ~(answer'.weight > 0)
  <2>1. Goto(w, "write") /\ Keep(w, ReadingOnly) /\ Tell(w, "reading")
    BY <1>2 DEF AddReading
  <2>2. ReadingOnly.kind = "reading"
    BY DEF ReadingOnly
  <2> QED
    BY <2>1, <2>2, <1>0, WorkStep
<1>3. CASE answer'.error # "none"
  <2> DEFINE local == [pc |-> "bury", entry |-> ws[w].entry, attempt |-> ws[w].attempt]
  <2>1. ws' = [ws EXCEPT ![w] = local] /\ local \in Local
    BY <1>3, GotoLocal DEF PInv, PType, AddReading
  <2>2. UNCHANGED <<pending, told>>
    BY <1>3 DEF AddReading
  <2> QED
    BY <2>1, <2>2, <1>0, MoveStep DEF PInv, PType
<1> QED
  BY <1>1, <1>2, <1>3

LEMMA StoreReadingStep == ASSUME PInv, NEW w \in Workers, StoreReading(w) PROVE PInv'
<1>1. /\ ws[w].pc # "idle" /\ Keep(w, NoWork) /\ Goto(w, "ack")
      /\ UNCHANGED <<stream, told, failures>> /\ weighings' = weighings
      /\ ledger' = ledger \cup {Event(w)} /\ Work(w).kind = "reading"
  BY DEF StoreReading, book
<1>2. Event(w) \in Events /\ ws[w].entry \in Entries
  BY <1>1, AtWork
<1>3. Reads(w)' = Reads(w)
  BY <1>1, SameReading DEF stream, PInv, PType
<1>4. Durable(Reads(w))'
  BY <1>1, <1>3 DEF Durable, Event
<1>5. told[w][Event(w)] = "weight" => Recorded(Reads(w))
  BY <1>1, <1>2 DEF PInv, Kept, TellsTruth, Work, Event, Reads
<1>6. told[w][Event(w)] = "weight" => Recorded(Reads(w))'
  BY <1>1, <1>3, <1>5 DEF Recorded, SessionId
<1> QED
  BY <1>1, <1>2, <1>4, <1>6, DoneStep DEF PInv, PType

LEMMA FindWeighingStep == ASSUME PInv, NEW w \in Workers, FindWeighing(w) PROVE PInv'
<1>0. /\ ws[w].pc # "idle" /\ Work(w).kind # "none"
      /\ UNCHANGED <<book, stream, ledger, told, failures>> /\ weighings' = weighings /\ feed' = feed
  BY DEF FindWeighing, book, stream
<1>1. CASE Known(w) = {}
  <2> DEFINE local == [pc |-> "finalize", entry |-> ws[w].entry, attempt |-> ws[w].attempt]
  <2>1. ws' = [ws EXCEPT ![w] = local] /\ local \in Local /\ pending' = pending
    BY <1>1, GotoLocal DEF PInv, PType, FindWeighing
  <2> QED
    BY <2>1, <1>0, MoveStep DEF PInv, PType
<1>2. CASE Known(w) # {}
  <2>1. Keep(w, NoWork) /\ Goto(w, "ack")
    BY <1>2 DEF FindWeighing
  <2>2. Recorded(Reads(w))
    BY <1>2 DEF Known, Recorded, Event
  <2>3. Reads(w)' = Reads(w)
    BY <2>1, <1>0, SameReading DEF PInv, PType
  <2>4. Recorded(Reads(w))' /\ Durable(Reads(w))'
    BY <2>2, <2>3, <1>0 DEF Recorded, Durable, SessionId
  <2> QED
    BY <2>1, <2>4, <1>0, DoneStep DEF PInv, PType
<1> QED
  BY <1>1, <1>2

LEMMA FinalizeStep == ASSUME PInv, NEW w \in Workers, Finalize(w) PROVE PInv'
<1>1. PICK t \in Matches(Reads(w)) : Book!Record(RowOf(w, t))
  BY DEF Finalize
<1>2. weighings' = weighings \cup {RowOf(w, t)}
  BY <1>1 DEF Book!Record
<1>3. /\ ws[w].pc # "idle" /\ Keep(w, NoWork) /\ Goto(w, "ack")
      /\ UNCHANGED <<stream, told, failures>> /\ ledger' = ledger /\ feed' = feed
  BY DEF Finalize, stream
<1>4. Reads(w)' = Reads(w)
  BY <1>3, SameReading DEF PInv, PType
<1>5. Recorded(Reads(w))' /\ Durable(Reads(w))'
  <2>1. RowOf(w, t) \in weighings' /\ RowOf(w, t).event = Reads(w).event
    BY <1>2 DEF RowOf, Event
  <2>2. \E v \in weighings' : v.event = Reads(w).event
    BY <2>1
  <2> QED
    BY <2>2, <1>4 DEF Recorded, Durable
<1> QED
  BY <1>2, <1>3, <1>5, DoneStep DEF PInv, PType

LEMMA RefuseStep == ASSUME PInv, NEW w \in Workers, Refuse(w) PROVE PInv'
<1>1. /\ ws[w].pc # "idle" /\ Keep(w, NoWork) /\ Tell(w, "refusal") /\ Goto(w, "bury")
      /\ UNCHANGED <<stream, book, ledger, failures>>
  BY DEF Refuse
<1> QED
  BY <1>1, WorkStep

\* The failures of a behaviour stay within its bound.
LEMMA MissesBounded == PInv /\ Misses => failures' \in 0..MaxFailures[feed]
<1> SUFFICES ASSUME PInv, Misses PROVE failures' \in 0..MaxFailures[feed]
  OBVIOUS
<1>1. MaxFailures[feed] \in Nat /\ failures \in 0..MaxFailures[feed]
  BY PipelineConfig DEF PipelineConfig, PInv, PType
<1> QED
  BY <1>1 DEF Misses

LEMMA LoseRaceStep == ASSUME PInv, NEW w \in Workers, LoseRace(w) PROVE PInv'
<1>1. /\ ws[w].pc # "idle" /\ Retry(w) /\ UNCHANGED <<stream, told>>
      /\ weighings' = weighings /\ ledger' = ledger /\ failures' = failures
  BY DEF LoseRace, book
<1> QED
  BY <1>1, RetryStep DEF PInv, PType

LEMMA FailTransientlyStep == ASSUME PInv, NEW w \in Workers, FailTransiently(w) PROVE PInv'
<1>1. /\ ws[w].pc # "idle" /\ Misses /\ Retry(w) /\ UNCHANGED <<stream, told>>
      /\ weighings' = weighings /\ ledger' = ledger
  BY DEF FailTransiently, book
<1> QED
  BY <1>1, RetryStep, MissesBounded DEF PInv, PType

LEMMA CommitUnknownStep == ASSUME PInv, NEW w \in Workers, CommitUnknown(w) PROVE PInv'
<1>1. /\ ws[w].pc # "idle" /\ Misses /\ Retry(w) /\ UNCHANGED <<stream, told>>
  BY DEF CommitUnknown
<1>2. Event(w) \in Events
  BY <1>1, AtWork
<1>3. weighings \subseteq weighings' /\ ledger \subseteq ledger' /\ ledger' \subseteq Events
  BY <1>2 DEF CommitUnknown, book, Book!Record, PInv, PType
<1> QED
  BY <1>1, <1>3, RetryStep, MissesBounded

LEMMA BreakStep == ASSUME PInv, NEW w \in Workers, Break(w) PROVE PInv'
<1>1. /\ ws' = [ws EXCEPT ![w] = Free] /\ Free.pc = "idle" /\ Misses
      /\ UNCHANGED <<stream, book, ledger, pending, told>>
  BY DEF Break, Release, Free
<1> QED
  BY <1>1, FreeLocal, MissesBounded, MoveStep

LEMMA CrashStep == ASSUME PInv, NEW w \in Workers, Crash(w) PROVE PInv'
<1>1. /\ ws' = [ws EXCEPT ![w] = Free] /\ Misses
      /\ UNCHANGED stream /\ weighings' = weighings /\ ledger' = ledger
      /\ feed' = feed /\ delivered' = delivered /\ Entries' = Entries
      /\ pending' = [pending EXCEPT ![w] = [ev \in Events |-> NoWork]]
      /\ told' = [told EXCEPT ![w] = [ev \in Events |-> "nothing"]]
  BY DEF Crash, Release, stream, book, Entries
<1>2. /\ told' \in [Workers -> [Events -> {"nothing", "reading", "weight", "refusal"}]]
      /\ \A ev \in Events : told'[w][ev] = "nothing"
      /\ \A u \in Workers : u # w => told'[u] = told[u]
  BY <1>1 DEF PInv, PType
<1>3. DOMAIN pending = Workers /\ \A u \in Workers : DOMAIN pending[u] = Events
  BY DEF PInv, PType, Maps
<1>4. pending' = [u \in Workers |-> IF u = w THEN [ev \in Events |-> NoWork] ELSE pending[u]]
  BY <1>1, <1>3
<1>5. /\ \A u \in Workers : u # w => pending'[u] = pending[u]
      /\ \A ev \in Events : pending'[w][ev] = NoWork
  BY <1>4
<1>6. Maps'
  <2>1. pending' = [u \in Workers |-> pending'[u]]
    BY <1>4
  <2>2. \A u \in Workers : pending'[u] = [ev \in Events |-> pending'[u][ev]]
    BY <1>4 DEF PInv, PType, Maps
  <2> QED
    BY <2>1, <2>2 DEF Maps
<1>7. ws'[w].pc = "idle"
  BY <1>1 DEF PInv, PType, Free
<1>8. Placed(w)'
  BY <1>7 DEF Placed
<1>9. Kept(w)'
  <2>1. ASSUME NEW e \in Entries PROVE TellsTruth(w, feed[e])'
    BY <1>1, <1>2, EntriesAreReadings DEF TellsTruth, PInv, PType
  <2> QED
    BY <2>1, <1>1, <1>5 DEF Kept, NoWork
<1> QED
  BY <1>1, <1>2, <1>5, <1>6, <1>8, <1>9, FreeLocal, MissesBounded, WorkerStep DEF PInv, PType

\* A step of the stream that moves one worker and leaves what is durable.
LEMMA StreamStep ==
    ASSUME PInv, NEW w \in Workers, NEW local \in Local,
           ws' = [ws EXCEPT ![w] = local],
           UNCHANGED <<book, feed, published, ledger, pending, told, failures>>,
           delivered' \in delivered..published,
           pel' \subseteq 1..delivered', dlq \subseteq dlq', dlq' \subseteq 1..delivered',
           attempts' \in [Entries -> Nat],
           \A e \in 1..delivered' : e \in pel' \/ e \in dlq' \/ Durable(feed[e]),
           local.pc = "idle" \/ (local.pc = "process" /\ local.entry \in 1..delivered')
    PROVE  PInv'
<1>1. /\ feed' = feed /\ published' = published /\ ledger' = ledger /\ weighings' = weighings
      /\ pending' = pending /\ told' = told /\ failures' = failures /\ Entries' = Entries
  BY DEF book, Entries
<1>2. /\ delivered \in Nat /\ published \in Nat /\ published <= Len(feed)
      /\ delivered' \in Nat /\ 1..delivered \subseteq 1..delivered' /\ delivered' \in 0..published
  BY EntriesAreReadings DEF PInv, PType
<1>3. PType'
  BY <1>1, <1>2 DEF PInv, PType, Maps
<1>4. AcknowledgedIsDurable'
  BY <1>1 DEF AcknowledgedIsDurable, Durable, Recorded, SessionId
<1>5. ASSUME NEW u \in Workers PROVE Placed(u)'
  <2>1. CASE u = w
    <3>1. ws'[u] = local
      BY <2>1 DEF PInv, PType
    <3> QED
      BY <3>1 DEF Placed
  <2>2. CASE u # w
    <3>1. ws'[u] = ws[u] /\ Placed(u)
      BY <2>2 DEF PInv, PType
    <3> QED
      BY <3>1, <1>1, <1>2 DEF Placed, Work, Event, Reads, Durable, Recorded, SessionId
  <2> QED
    BY <2>1, <2>2
<1>6. ASSUME NEW u \in Workers PROVE Kept(u)'
  <2>1. Kept(u)
    BY DEF PInv
  <2>2. ASSUME NEW e \in Entries PROVE TellsTruth(u, feed[e])'
    <3>1. Durable(feed[e])' = Durable(feed[e]) /\ Recorded(feed[e])' = Recorded(feed[e])
      BY <1>1 DEF Durable, Recorded, SessionId
    <3>2. TellsTruth(u, feed[e])
      BY <2>1 DEF Kept
    <3> QED
      BY <1>1, <3>1, <3>2 DEF TellsTruth
  <2> QED
    BY <2>1, <2>2, <1>1, <1>2 DEF Kept
<1> QED
  BY <1>3, <1>4, <1>5, <1>6 DEF PInv

LEMMA TakeStep == ASSUME PInv, NEW w \in Workers, Take(w) PROVE PInv'
<1>1. PICK e \in NextEntry \cup pel :
          /\ delivered' = IF e > delivered THEN e ELSE delivered
          /\ pel' = pel \cup {e}
          /\ attempts' = [attempts EXCEPT ![e] = @ + 1]
          /\ ws' = [ws EXCEPT ![w] = [pc |-> "process", entry |-> e, attempt |-> attempts[e] + 1]]
  BY DEF Take
<1>2. UNCHANGED <<book, feed, published, dlq, ledger, pending, told, failures>>
  BY DEF Take
<1>3. /\ delivered \in Nat /\ published \in Nat /\ Len(feed) \in Nat
      /\ delivered <= published /\ published <= Len(feed)
  BY EntriesAreReadings DEF PInv, PType
<1>4. /\ e \in 1..published /\ e <= delivered + 1 /\ e \in Entries
      /\ e <= delivered \/ e = delivered + 1
  BY <1>3 DEF NextEntry, PInv, PType, Entries
<1>5. delivered' \in delivered..published /\ e \in 1..delivered'
  BY <1>1, <1>3, <1>4
<1>6. 1..delivered' \subseteq (1..delivered) \cup {e} /\ 1..delivered \subseteq 1..delivered'
  BY <1>1, <1>3, <1>4
<1>7. attempts[e] \in Nat /\ attempts' \in [Entries -> Nat]
  BY <1>1, <1>4 DEF PInv, PType
<1>8. pel' \subseteq 1..delivered' /\ dlq' = dlq /\ dlq' \subseteq 1..delivered'
  BY <1>1, <1>2, <1>5, <1>6 DEF PInv, PType
<1>9. \A d \in 1..delivered' : d \in pel' \/ d \in dlq' \/ Durable(feed[d])
  BY <1>1, <1>6, <1>8 DEF PInv, AcknowledgedIsDurable
<1>10. [pc |-> "process", entry |-> e, attempt |-> attempts[e] + 1] \in Local
  BY <1>4, <1>7, <1>3 DEF Local
<1> QED
  BY <1>1, <1>2, <1>5, <1>7, <1>8, <1>9, <1>10, StreamStep

\* An entry leaves the group once it is durable or among the dead letters.
LEMMA SettleStep ==
    ASSUME PInv, NEW w \in Workers, ws[w].pc # "idle", Settle(w),
           dlq' = dlq \/ dlq' = dlq \cup {ws[w].entry},
           Durable(Reads(w)) \/ ws[w].entry \in dlq'
    PROVE  PInv'
<1>1. /\ ws' = [ws EXCEPT ![w] = Free] /\ pel' = pel \ {ws[w].entry}
      /\ attempts' = [attempts EXCEPT ![ws[w].entry] = 0] /\ delivered' = delivered
      /\ UNCHANGED <<book, feed, published, ledger, pending, told, failures>>
  BY DEF Settle, Release, manager
<1>2. ws[w].entry \in 1..delivered /\ ws[w].entry \in Entries
  BY AtWork
<1>3. attempts' \in [Entries -> Nat]
  BY <1>1, <1>2 DEF PInv, PType
<1>4. /\ pel' \subseteq 1..delivered' /\ dlq \subseteq dlq' /\ dlq' \subseteq 1..delivered'
      /\ delivered' \in delivered..published
  <2>1. delivered' = delivered /\ pel \subseteq 1..delivered /\ dlq \subseteq 1..delivered
    BY <1>1 DEF PInv, PType
  <2>2. delivered \in delivered..published
    BY EntriesAreReadings DEF PInv, PType
  <2> QED
    BY <1>1, <1>2, <2>1, <2>2
<1>5. \A e \in 1..delivered' : e \in pel' \/ e \in dlq' \/ Durable(feed[e])
  BY <1>1, <1>4 DEF PInv, AcknowledgedIsDurable, Reads
<1>6. Free.pc = "idle"
  BY DEF Free
<1> QED
  BY <1>1, <1>3, <1>4, <1>5, <1>6, FreeLocal, StreamStep

LEMMA BuryStep == ASSUME PInv, NEW w \in Workers, Bury(w) PROVE PInv'
BY SettleStep DEF Bury

LEMMA AckStep == ASSUME PInv, NEW w \in Workers, Ack(w) PROVE PInv'
<1>1. Durable(Reads(w))
  BY DEF Ack, PInv, Placed
<1> QED
  BY <1>1, SettleStep DEF Ack

\* The rest of the system disturbs no worker.
LEMMA WorldStep ==
    ASSUME PInv,
           UNCHANGED <<weighings, feed, delivered, pel, attempts, dlq, ledger, ws, pending, told, failures>>,
           published' \in published..Len(feed)
    PROVE  PInv'
<1>1. Entries' = Entries
  BY DEF Entries
<1>2. PType'
  BY <1>1, EntriesAreReadings DEF PInv, PType, Maps
<1>3. AcknowledgedIsDurable'
  BY DEF PInv, AcknowledgedIsDurable, Durable, Recorded, SessionId
<1>4. ASSUME NEW w \in Workers PROVE Placed(w)'
  <2>1. Placed(w)
    BY DEF PInv
  <2>2. ws'[w] = ws[w] /\ Work(w)' = Work(w) /\ Reads(w)' = Reads(w)
    BY DEF Work, Event, Reads
  <2>3. Durable(Reads(w)) => Durable(Reads(w))'
    BY <2>2 DEF Durable, Recorded, SessionId
  <2> QED
    BY <2>1, <2>2, <2>3 DEF Placed
<1>5. ASSUME NEW w \in Workers PROVE Kept(w)'
  BY KeptStays
<1> QED
  BY <1>2, <1>3, <1>4, <1>5 DEF PInv

LEMMA PipelineInitially == Init => PInv
<1> SUFFICES ASSUME Init PROVE PInv
  OBVIOUS
<1>1. /\ feed \in Feeds /\ published = 0 /\ delivered = 0
      /\ pel = {} /\ dlq = {} /\ ledger = {} /\ failures = 0
      /\ attempts = [e \in Entries |-> 0]
      /\ ws = [w \in Workers |-> Free]
      /\ pending = [w \in Workers |-> [ev \in Events |-> NoWork]]
      /\ told = [w \in Workers |-> [ev \in Events |-> "nothing"]]
  BY DEF Init
<1>2. MaxFailures[feed] \in Nat /\ Len(feed) \in Nat /\ \A e \in Entries : feed[e].event \in Events
  BY <1>1, EntriesAreReadings, PipelineConfig DEF PipelineConfig
<1>3. Maps
  <2>1. \A w \in Workers : pending[w] = [ev \in Events |-> NoWork]
    BY <1>1
  <2>2. \A w \in Workers : pending[w] = [ev \in Events |-> pending[w][ev]]
    BY <2>1
  <2>3. pending = [w \in Workers |-> pending[w]]
    BY <1>1
  <2> QED
    BY <2>2, <2>3 DEF Maps
<1>4. PType
  BY <1>1, <1>2, <1>3, FreeLocal DEF PType
<1>5. AcknowledgedIsDurable
  BY <1>1 DEF AcknowledgedIsDurable
<1>6. ASSUME NEW w \in Workers PROVE Placed(w) /\ Kept(w)
  <2>1. Placed(w)
    BY <1>1 DEF Placed, Free
  <2>2. \A ev \in Events : pending[w][ev].kind = "none" /\ told[w][ev] = "nothing"
    BY <1>1 DEF NoWork
  <2>3. ASSUME NEW e \in Entries PROVE TellsTruth(w, feed[e])
    BY <2>2, <1>2 DEF TellsTruth
  <2> QED
    BY <2>1, <2>2, <2>3 DEF Kept
<1> QED
  BY <1>4, <1>5, <1>6 DEF PInv

LEMMA PipelineStep == PInv /\ [Next]_vars => PInv'
<1> SUFFICES ASSUME PInv, [Next]_vars PROVE PInv'
  OBVIOUS
<1>0. published \in Nat /\ Len(feed) \in Nat /\ published <= Len(feed)
  BY EntriesAreReadings DEF PInv, PType
<1>1. CASE Publish
  BY <1>1, <1>0, WorldStep DEF Publish, book
<1>2. ASSUME NEW t \in Transports, OpenTransport(t) PROVE PInv'
  BY <1>2, <1>0, WorldStep DEF OpenTransport, stream, Book!Open
<1>3. ASSUME NEW w \in Workers, Step(w) PROVE PInv'
  BY <1>3, TakeStep, ResumeStep, AddReadingStep, StoreReadingStep, FindWeighingStep,
     FinalizeStep, RefuseStep, LoseRaceStep, BuryStep, AckStep DEF Step
<1>4. ASSUME NEW w \in Workers,
             FailTransiently(w) \/ CommitUnknown(w) \/ Break(w) \/ Crash(w)
      PROVE  PInv'
  BY <1>4, FailTransientlyStep, CommitUnknownStep, BreakStep, CrashStep
<1>5. CASE UNCHANGED vars
  BY <1>5, <1>0, WorldStep DEF vars, book, stream
<1> QED
  BY <1>1, <1>2, <1>3, <1>4, <1>5 DEF Next

LEMMA PipelineInvariant == Spec => []PInv
BY PipelineInitially, PipelineStep, PTL DEF Spec

-----------------------------------------------------------------------------
(* The theorems.                                                           *)

\* Deliveries follow what is published, works are those of delivered events,
\* and a worker past Process has the work it writes (Process, processMessage).
THEOREM TypeCorrect == Spec => []TypeOK
<1>1. PInv => TypeOK
  <2> SUFFICES ASSUME PInv PROVE TypeOK
    OBVIOUS
  <2>1. /\ published \in Nat /\ delivered \in Nat /\ Len(feed) \in Nat
        /\ delivered <= published /\ published <= Len(feed)
    BY EntriesAreReadings DEF PInv, PType
  <2> QED
    BY <2>1 DEF PInv, PType, Placed, Kept, TypeOK
<1> QED
  BY <1>1, PipelineInvariant, PTL

\* An acknowledged reading is durable or in the dead letters, for any number of
\* workers, feed and failures (Process, processMessage).
THEOREM AcknowledgedReadingsAreDurable == Spec => []AcknowledgedIsDurable
<1>1. PInv => AcknowledgedIsDurable
  BY DEF PInv
<1> QED
  BY <1>1, PipelineInvariant, PTL

\* A weight that Add emitted stays in the pending map until its session has a
\* weighing or it is refused (FinalizingProcessor.pending).
THEOREM EmittedWeightsSurvive == Spec => []EmittedWeightSurvives
<1>1. PInv => EmittedWeightSurvives
  <2> SUFFICES ASSUME PInv, NEW w \in Workers, NEW e \in 1..delivered,
                      told[w][feed[e].event] = "weight"
               PROVE  pending[w][feed[e].event].kind = "weight" \/ Recorded(feed[e])
    BY DEF EmittedWeightSurvives
  <2>1. e \in Entries
    BY EntriesAreReadings DEF PInv, PType, Entries
  <2> QED
    BY <2>1 DEF PInv, Kept, TellsTruth
<1> QED
  BY <1>1, PipelineInvariant, PTL

\* A redelivered reading is added to the manager again only if it is durable
\* already: failures of the database never do it (FinalizingProcessor.Process).
THEOREM NeverAddedTwice == Spec => AddedAgainOnlyIfDurable
<1> DEFINE Promise(w) ==
        AddReading(w) /\ told[w][Event(w)] \in {"reading", "weight"} => Durable(Reads(w))
<1>1. ASSUME PInv, NEW w \in Workers PROVE Promise(w)
  <2> SUFFICES ASSUME AddReading(w), told[w][Event(w)] \in {"reading", "weight"}
               PROVE  Durable(Reads(w))
    OBVIOUS
  <2>1. ws[w].pc # "idle" /\ Work(w).kind = "none"
    BY DEF AddReading, IsNew
  <2>2. ws[w].entry \in Entries
    BY <1>1, <2>1, AtWork
  <2>3. TellsTruth(w, Reads(w))
    BY <1>1, <2>2 DEF PInv, Kept, Reads
  <2> QED
    BY <2>1, <2>3 DEF TellsTruth, Work, Event
<1>2. PInv => [\A w \in Workers : Promise(w)]_vars
  BY <1>1
<1> QED
  BY <1>2, PipelineInvariant, PTL DEF AddedAgainOnlyIfDurable

-----------------------------------------------------------------------------
(* What is weighed.  From here on the proofs look into Add: the window of  *)
(* a session holds readings of its own scale and plate only, for a window  *)
(* is only ever extended by a reading of that key.                         *)

\* The window holds delivered entries of this scale and plate, none of them
\* later than time last.
Traced(window, last, scale, plate) ==
    \E n \in 0..WindowCapacity : \E entries \in [1..n -> 1..delivered] :
        /\ Passage(entries, scale, plate)
        /\ window = WindowOf(entries)
        /\ \A i \in 1..n : feed[entries[i]].at <= last

SessionTraced(k) ==
    sessions[k] # NoSession =>
        /\ sessions[k] \in M!Session
        /\ Traced(sessions[k].window, sessions[k].lastSeen, k.scale[2], k.plate)

\* A work with a weight has the one that its event has earned.
WorkEarned(w, e) ==
    pending[w][feed[e].event].kind = "weight" =>
        IsWeightOf(pending[w][feed[e].event].weight, feed[e].event, feed[e].scale, feed[e].plate)

SInv ==
    /\ \A k \in M!Keys : SessionTraced(k)
    /\ \A w \in Workers : \A e \in Entries : WorkEarned(w, e)
    /\ \A w \in Workers : ws[w].pc = "finalize" => Work(w).kind = "weight"
    /\ WeighingIsOfOneTruck

LEMMA Bounds ==
    /\ WindowCapacity \in Nat /\ WindowCapacity >= 1
    /\ MinSamples \in Nat /\ MinSamples >= 1
BY PipelineConfig DEF PipelineConfig

LEMMA EntriesAreTyped ==
    ASSUME feed \in Feeds, NEW e \in Entries
    PROVE  feed[e] \in Reading /\ feed[e].at \in Nat /\ feed[e].at >= 1
<1>1. feed \in Seq(Reading)
  BY PipelineConfig DEF PipelineConfig
<1>2. feed[e] \in Reading
  BY <1>1 DEF Entries
<1>3. MaxTime \in Nat
  BY PipelineConfig DEF PipelineConfig
<1> QED
  BY <1>2, <1>3 DEF Reading

\* What is traced stays so as more entries are delivered.
LEMMA TracesStay ==
    ASSUME feed' = feed, delivered \in Nat, delivered' \in Nat, delivered <= delivered'
    PROVE  /\ \A window, last, scale, plate :
                  Traced(window, last, scale, plate) => Traced(window, last, scale, plate)'
           /\ \A grams, event, scale, plate :
                  IsWeightOf(grams, event, scale, plate) => IsWeightOf(grams, event, scale, plate)'
<1>1. \A entries : WindowOf(entries)' = WindowOf(entries)
  BY DEF WindowOf
<1>2. \A entries, scale, plate : Passage(entries, scale, plate) => Passage(entries, scale, plate)'
  BY DEF Passage
<1>3. \A n \in Nat : \A entries \in [1..n -> 1..delivered] : entries \in [1..n -> 1..delivered']
  OBVIOUS
<1>4. ASSUME NEW window, NEW last, NEW scale, NEW plate, Traced(window, last, scale, plate)
      PROVE  Traced(window, last, scale, plate)'
  <2>1. PICK n \in 0..WindowCapacity : \E entries \in [1..n -> 1..delivered] :
            /\ Passage(entries, scale, plate)
            /\ window = WindowOf(entries)
            /\ \A i \in 1..n : feed[entries[i]].at <= last
    BY <1>4 DEF Traced
  <2>2. PICK entries \in [1..n -> 1..delivered] :
            /\ Passage(entries, scale, plate)
            /\ window = WindowOf(entries)
            /\ \A i \in 1..n : feed[entries[i]].at <= last
    BY <2>1
  <2>3. n \in Nat /\ entries \in [1..n -> 1..delivered']
    BY <1>3, Bounds
  <2>4. Passage(entries, scale, plate)' /\ window = WindowOf(entries)'
    BY <2>2, <1>1, <1>2
  <2> QED
    BY <2>2, <2>3, <2>4 DEF Traced
<1>5. ASSUME NEW grams, NEW event, NEW scale, NEW plate, IsWeightOf(grams, event, scale, plate)
      PROVE  IsWeightOf(grams, event, scale, plate)'
  <2>1. PICK n \in MinSamples..WindowCapacity : \E entries \in [1..n -> 1..delivered] :
            /\ Passage(entries, scale, plate)
            /\ feed[entries[n]].event = event
            /\ M!Ready(WindowOf(entries)) /\ M!Stable(WindowOf(entries))
            /\ grams = M!Median(WindowOf(entries))
    BY <1>5 DEF IsWeightOf
  <2>2. PICK entries \in [1..n -> 1..delivered] :
            /\ Passage(entries, scale, plate)
            /\ feed[entries[n]].event = event
            /\ M!Ready(WindowOf(entries)) /\ M!Stable(WindowOf(entries))
            /\ grams = M!Median(WindowOf(entries))
    BY <2>1
  <2>3. n \in Nat /\ entries \in [1..n -> 1..delivered']
    BY <1>3, Bounds
  <2>4. Passage(entries, scale, plate)'
    BY <2>2, <1>2
  <2>5. WindowOf(entries)' = WindowOf(entries)
    BY <1>1
  <2>6. M!Ready(WindowOf(entries)') /\ M!Stable(WindowOf(entries)') /\ grams = M!Median(WindowOf(entries)')
    BY <2>2, <2>5
  <2> QED
    BY <2>2, <2>3, <2>4, <2>6 DEF IsWeightOf
<1> QED
  BY <1>4, <1>5

\* The window ends with entry e, or before some time.
EndsWith(window, e, scale, plate) ==
    \E n \in 1..WindowCapacity : \E entries \in [1..n -> 1..delivered] :
        /\ Passage(entries, scale, plate)
        /\ window = WindowOf(entries)
        /\ \A i \in 1..n : feed[entries[i]].at <= feed[e].at
        /\ entries[n] = e

EndsBefore(window, at, scale, plate) ==
    \E n \in 0..WindowCapacity : \E entries \in [1..n -> 1..delivered] :
        /\ Passage(entries, scale, plate)
        /\ window = WindowOf(entries)
        /\ \A i \in 1..n : feed[entries[i]].at < at

\* A later reading of the same scale and plate extends the passage of a window,
\* from whose start one reading goes when it is full.
LEMMA SlideTraces ==
    ASSUME feed \in Feeds, delivered \in Nat, delivered <= Len(feed),
           NEW e \in 1..delivered, NEW scale, NEW plate, NEW before,
           feed[e].scale = scale, feed[e].plate = plate,
           EndsBefore(before, feed[e].at, scale, plate)
    PROVE  EndsWith(M!Slide(before, [weight |-> feed[e].weight, at |-> feed[e].at]), e, scale, plate)
<1>1. PICK n \in 0..WindowCapacity : \E entries \in [1..n -> 1..delivered] :
          /\ Passage(entries, scale, plate)
          /\ before = WindowOf(entries)
          /\ \A i \in 1..n : feed[entries[i]].at < feed[e].at
  BY DEF EndsBefore
<1>2. PICK entries \in [1..n -> 1..delivered] :
          /\ Passage(entries, scale, plate)
          /\ before = WindowOf(entries)
          /\ \A i \in 1..n : feed[entries[i]].at < feed[e].at
  BY <1>1
<1> DEFINE sample == [weight |-> feed[e].weight, at |-> feed[e].at]
           window == WindowOf(entries)
           T == {window[i] : i \in 1..n} \cup {sample}
<1>3. n \in Nat /\ WindowCapacity \in Nat /\ WindowCapacity >= 1 /\ n <= WindowCapacity
  BY Bounds
<1>4. feed[e].at \in Nat /\ \A i \in 1..n : entries[i] \in Entries /\ feed[entries[i]].at \in Nat
  <2>1. e \in Entries /\ \A i \in 1..n : entries[i] \in Entries
    BY EntriesAreReadings DEF Entries
  <2> QED
    BY <2>1, EntriesAreTyped
<1>5. ASSUME NEW i \in 1..n PROVE feed[entries[i]].at <= feed[e].at
  <2>1. feed[entries[i]].at \in Nat /\ feed[e].at \in Nat
    BY <1>4
  <2>2. feed[entries[i]].at < feed[e].at
    BY <1>2
  <2> QED
    BY <2>1, <2>2
<1>6. /\ window = [i \in 1..n |-> [weight |-> feed[entries[i]].weight, at |-> feed[entries[i]].at]]
      /\ DOMAIN entries = 1..n
  BY DEF WindowOf
<1>7. window \in Seq(T) /\ Len(window) = n /\ sample \in T
      /\ \A i \in 1..n : window[i] = [weight |-> feed[entries[i]].weight, at |-> feed[entries[i]].at]
  <2>1. \A i \in 1..n : window[i] = [weight |-> feed[entries[i]].weight, at |-> feed[entries[i]].at]
    BY <1>6
  <2>2. DOMAIN window = 1..n /\ window = [i \in 1..n |-> window[i]]
    BY <1>6
  <2>3. \A i \in 1..n : window[i] \in T
    OBVIOUS
  <2> HIDE DEF window, T
  <2>4. window \in Seq(T) /\ Len(window) = n
    BY <1>3, <2>2, <2>3
  <2> QED
    BY <2>1, <2>4 DEF T
<1> HIDE DEF window, T
<1>8. /\ Append(window, sample) \in Seq(T) /\ Len(Append(window, sample)) = n + 1
      /\ \A i \in 1..n : Append(window, sample)[i] = window[i]
      /\ Append(window, sample)[n + 1] = sample
  BY <1>3, <1>7
<1>9. CASE n < WindowCapacity
  <2> DEFINE longer == [i \in 1..n+1 |-> IF i <= n THEN entries[i] ELSE e]
  <2>1. longer \in [1..n+1 -> 1..delivered] /\ n + 1 \in 1..WindowCapacity
    BY <1>3, <1>9
  <2>2. /\ DOMAIN longer = 1..n+1 /\ longer[n+1] = e
        /\ \A i \in 1..n : longer[i] = entries[i]
    BY <1>3
  <2>3. M!Slide(window, sample) = Append(window, sample)
    BY <1>3, <1>8, <1>9 DEF M!Slide
  <2>4. Append(window, sample) = [i \in 1..n+1 |-> [weight |-> feed[longer[i]].weight, at |-> feed[longer[i]].at]]
    <3>1. ASSUME NEW i \in 1..n+1
          PROVE  Append(window, sample)[i] = [weight |-> feed[longer[i]].weight, at |-> feed[longer[i]].at]
      <4>1. CASE i <= n
        BY <4>1, <1>3, <1>7, <1>8, <2>2
      <4>2. CASE i = n + 1
        BY <4>2, <1>8, <2>2
      <4>3. i <= n \/ i = n + 1
        BY <1>3
      <4> QED
        BY <4>1, <4>2, <4>3
    <3>2. Append(window, sample) = [i \in 1..n+1 |-> Append(window, sample)[i]]
      BY <1>8
    <3> QED
      BY <3>1, <3>2
  <2>5. Append(window, sample) = WindowOf(longer)
    BY <2>2, <2>4 DEF WindowOf
  <2>6. Passage(longer, scale, plate) /\ \A i \in 1..n+1 : feed[longer[i]].at <= feed[e].at
    <3>1. \A i \in 1..n+1 : (i \in 1..n /\ longer[i] = entries[i]) \/ (i = n + 1 /\ longer[i] = e)
      BY <1>3, <2>2
    <3>2. \A i, j \in 1..n : i < j => feed[entries[i]].at < feed[entries[j]].at
      BY <1>6, <1>2 DEF Passage
    <3>3. \A i \in 1..n : feed[entries[i]].scale = scale /\ feed[entries[i]].plate = plate
      BY <1>6, <1>2 DEF Passage
    <3>4. ASSUME NEW i \in 1..n+1, NEW j \in 1..n+1, i < j
          PROVE  feed[longer[i]].at < feed[longer[j]].at
      <4>1. i \in 1..n
        BY <3>4, <1>3
      <4> QED
        BY <4>1, <3>1, <3>2, <3>4, <1>2
    <3>5. ASSUME NEW i \in 1..n+1 PROVE feed[longer[i]].at <= feed[e].at
      <4>1. CASE longer[i] = e
        BY <4>1, <1>4
      <4>2. CASE i \in 1..n /\ longer[i] = entries[i]
        BY <4>2, <1>5
      <4> QED
        BY <4>1, <4>2, <3>1
    <3> QED
      BY <2>2, <3>1, <3>3, <3>4, <3>5 DEF Passage
  <2> HIDE DEF longer
  <2> QED
    BY <2>1, <2>2, <2>3, <2>5, <2>6, <1>2 DEF window, EndsWith
<1>10. CASE n = WindowCapacity
  <2> DEFINE longer == [i \in 1..n |-> IF i < n THEN entries[i+1] ELSE e]
  <2>1. longer \in [1..n -> 1..delivered] /\ n \in 1..WindowCapacity
    BY <1>3, <1>10
  <2>2. /\ DOMAIN longer = 1..n /\ longer[n] = e
        /\ \A i \in 1..n : i < n => i + 1 \in 1..n /\ longer[i] = entries[i+1]
    BY <1>3, <1>10
  <2>3. M!Slide(window, sample) = Tail(Append(window, sample))
    BY <1>3, <1>8, <1>10 DEF M!Slide
  <2>4. /\ Tail(Append(window, sample)) \in Seq(T) /\ Len(Tail(Append(window, sample))) = n
        /\ \A i \in 1..n : Tail(Append(window, sample))[i] = Append(window, sample)[i+1]
    <3> DEFINE long == Append(window, sample)
    <3>1. long \in Seq(T) /\ Len(long) = n + 1
      BY <1>8
    <3> HIDE DEF long
    <3>2. long # <<>>
      BY <1>3, <3>1
    <3>3. /\ Tail(long) \in Seq(T) /\ Len(Tail(long)) = n
          /\ \A i \in 1..n : Tail(long)[i] = long[i+1]
      BY <1>3, <3>1, <3>2
    <3> QED
      BY <3>3 DEF long
  <2>5. Tail(Append(window, sample))
            = [i \in 1..n |-> [weight |-> feed[longer[i]].weight, at |-> feed[longer[i]].at]]
    <3>1. ASSUME NEW i \in 1..n
          PROVE  Tail(Append(window, sample))[i] = [weight |-> feed[longer[i]].weight, at |-> feed[longer[i]].at]
      <4>1. CASE i < n
        BY <4>1, <1>3, <1>7, <1>8, <2>2, <2>4
      <4>2. CASE i = n
        BY <4>2, <1>8, <2>2, <2>4
      <4>3. i < n \/ i = n
        BY <1>3
      <4> QED
        BY <4>1, <4>2, <4>3
    <3>2. Tail(Append(window, sample)) = [i \in 1..n |-> Tail(Append(window, sample))[i]]
      BY <2>4
    <3> QED
      BY <3>1, <3>2
  <2>6. Tail(Append(window, sample)) = WindowOf(longer)
    BY <2>2, <2>5 DEF WindowOf
  <2>7. Passage(longer, scale, plate) /\ \A i \in 1..n : feed[longer[i]].at <= feed[e].at
    <3>1. \A i \in 1..n : (i < n /\ i+1 \in 1..n /\ longer[i] = entries[i+1]) \/ (i = n /\ longer[i] = e)
      BY <1>3, <2>2
    <3>2. \A i, j \in 1..n : i < j => feed[entries[i]].at < feed[entries[j]].at
      BY <1>6, <1>2 DEF Passage
    <3>3. \A i \in 1..n : feed[entries[i]].scale = scale /\ feed[entries[i]].plate = plate
      BY <1>6, <1>2 DEF Passage
    <3>4. ASSUME NEW i \in 1..n, NEW j \in 1..n, i < j
          PROVE  feed[longer[i]].at < feed[longer[j]].at
      <4>1. i < n /\ i+1 \in 1..n /\ longer[i] = entries[i+1]
        BY <3>1, <3>4, <1>3
      <4>2. CASE j < n
        <5>1. j+1 \in 1..n /\ longer[j] = entries[j+1] /\ i+1 < j+1
          BY <4>2, <3>1, <3>4, <1>3
        <5> QED
          BY <4>1, <5>1, <3>2
      <4>3. CASE j = n
        BY <4>1, <4>3, <2>2, <1>2
      <4> QED
        BY <4>2, <4>3, <1>3
    <3>5. ASSUME NEW i \in 1..n PROVE feed[longer[i]].at <= feed[e].at
      <4>1. CASE longer[i] = e
        BY <4>1, <1>4
      <4>2. CASE i+1 \in 1..n /\ longer[i] = entries[i+1]
        BY <4>2, <1>5
      <4> QED
        BY <4>1, <4>2, <3>1
    <3> QED
      BY <2>2, <3>1, <3>3, <3>4, <3>5 DEF Passage
  <2> HIDE DEF longer
  <2> QED
    BY <2>1, <2>2, <2>3, <2>6, <2>7, <1>2 DEF window, EndsWith
<1> QED
  BY <1>3, <1>9, <1>10

\* A window of delivered entries is one of readings.
LEMMA WindowsAreTyped ==
    ASSUME feed \in Feeds, NEW n \in Nat, NEW entries \in [1..n -> Entries]
    PROVE  /\ WindowOf(entries) \in Seq(M!Readings)
           /\ Len(WindowOf(entries)) = n
<1>1. /\ WindowOf(entries) = [i \in 1..n |-> [weight |-> feed[entries[i]].weight, at |-> feed[entries[i]].at]]
  BY DEF WindowOf
<1>2. \A i \in 1..n : [weight |-> feed[entries[i]].weight, at |-> feed[entries[i]].at] \in M!Readings
  BY EntriesAreTyped DEF Reading, M!Readings, M!Times
<1> QED
  BY <1>1, <1>2

\* The empty window of a new session is one of no entries.
LEMMA NothingIsTraced ==
    ASSUME NEW scale, NEW plate
    PROVE  \E entries \in [1..0 -> 1..delivered] :
               Passage(entries, scale, plate) /\ <<>> = WindowOf(entries)
<1> DEFINE none == [i \in 1..0 |-> i]
<1>1. none \in [1..0 -> 1..delivered] /\ DOMAIN none = {}
  OBVIOUS
<1>2. Passage(none, scale, plate)
  BY <1>1 DEF Passage
<1>3. WindowOf(none) = <<>>
  BY <1>1 DEF WindowOf
<1> QED
  BY <1>1, <1>2, <1>3

\* The session map that Add works on differs from the one before by sessions
\* that went, and by a new one for the key.
LEMMA PreparedFrom ==
    ASSUME NEW key \in M!Keys, NEW at, NEW s \in M!Prepared(key, at)
    PROVE  /\ \A k \in M!Keys : k # key => s[k] \in {sessions[k], NoSession}
           /\ s[key] = M!EmptySession \/ (s[key] = sessions[key] /\ sessions[key] # NoSession)
<1> DEFINE changed == M!Drop(sessions, M!PlateChanged(sessions, key))
           t == M!Drop(changed, M!Idle(changed, at) \cap {key})
<1>1. s \in M!OpenSession(t, key)
  BY DEF M!Prepared
<1>2. \A k \in M!Keys : t[k] \in {sessions[k], NoSession}
  BY DEF M!Drop
<1> HIDE DEF t
<1>3. CASE t[key] # NoSession
  BY <1>1, <1>2, <1>3 DEF M!OpenSession
<1>4. CASE t[key] = NoSession
  <2>1. PICK room \in M!MakeRoom(t) : s = M!Put(room, key, M!EmptySession)
    BY <1>1, <1>4 DEF M!OpenSession
  <2>2. \A k \in M!Keys : room[k] \in {t[k], NoSession}
    BY DEF M!MakeRoom, M!Drop
  <2> QED
    BY <1>2, <2>1, <2>2 DEF M!Put
<1> QED
  BY <1>3, <1>4

\* A passage that ended by some time has ended by a later one.
LEMMA TracedLater ==
    ASSUME feed \in Feeds, delivered \in Nat, delivered <= Len(feed),
           NEW window, NEW last \in Nat, NEW later \in Nat, last <= later,
           NEW scale, NEW plate, Traced(window, last, scale, plate)
    PROVE  Traced(window, later, scale, plate)
<1>1. PICK n \in 0..WindowCapacity : \E entries \in [1..n -> 1..delivered] :
          /\ Passage(entries, scale, plate)
          /\ window = WindowOf(entries)
          /\ \A i \in 1..n : feed[entries[i]].at <= last
  BY DEF Traced
<1>2. PICK entries \in [1..n -> 1..delivered] :
          /\ Passage(entries, scale, plate)
          /\ window = WindowOf(entries)
          /\ \A i \in 1..n : feed[entries[i]].at <= last
  BY <1>1
<1>3. \A i \in 1..n : entries[i] \in Entries
  BY EntriesAreReadings DEF Entries
<1>4. \A i \in 1..n : feed[entries[i]].at <= later
  BY <1>2, <1>3, EntriesAreTyped
<1> QED
  BY <1>2, <1>4 DEF Traced

\* The window that a reading in order extends ends before it.
LEMMA WindowBefore ==
    ASSUME feed \in Feeds, delivered \in Nat, delivered <= Len(feed), NEW session, NEW reading,
           reading.at \in Nat, reading.at >= 1, M!InOrder(session, reading), NEW scale, NEW plate,
           session = M!EmptySession \/
               (session \in M!Session /\ Traced(session.window, session.lastSeen, scale, plate))
    PROVE  EndsBefore(session.window, reading.at, scale, plate)
<1>1. CASE session = M!EmptySession
  <2>1. session.window = <<>> /\ 0 \in 0..WindowCapacity
    BY <1>1, Bounds DEF M!EmptySession
  <2>2. PICK entries \in [1..0 -> 1..delivered] :
            Passage(entries, scale, plate) /\ <<>> = WindowOf(entries)
    BY NothingIsTraced
  <2>3. \A i \in 1..0 : feed[entries[i]].at < reading.at
    OBVIOUS
  <2> QED
    BY <2>1, <2>2, <2>3 DEF EndsBefore
<1>2. CASE session \in M!Session /\ Traced(session.window, session.lastSeen, scale, plate)
  <2>1. session.lastSeen \in Nat /\ session.lastSeen < reading.at
    BY <1>2, PipelineConfig DEF M!Session, M!Times, M!InOrder, PipelineConfig
  <2>2. PICK n \in 0..WindowCapacity : \E entries \in [1..n -> 1..delivered] :
            /\ Passage(entries, scale, plate)
            /\ session.window = WindowOf(entries)
            /\ \A i \in 1..n : feed[entries[i]].at <= session.lastSeen
    BY <1>2 DEF Traced
  <2>3. PICK entries \in [1..n -> 1..delivered] :
            /\ Passage(entries, scale, plate)
            /\ session.window = WindowOf(entries)
            /\ \A i \in 1..n : feed[entries[i]].at <= session.lastSeen
    BY <2>2
  <2>4. \A i \in 1..n : entries[i] \in Entries
    BY EntriesAreReadings DEF Entries
  <2>5. \A i \in 1..n : feed[entries[i]].at < reading.at
    BY <2>1, <2>3, <2>4, EntriesAreTyped
  <2> QED
    BY <2>3, <2>5 DEF EndsBefore
<1> QED
  BY <1>1, <1>2

\* The windows of a manager after a reading, and the weight that it may emit.
\* An accepted reading finds the session of its key, or opens it.
LEMMA AddTraces ==
    ASSUME PInv, SInv, NEW w \in Workers, AddReading(w)
    PROVE  /\ \A k \in M!Keys : SessionTraced(k)'
           /\ answer'.error = "none" /\ answer'.weight > 0 =>
                  IsWeightOf(answer'.weight, Event(w), Reads(w).scale, Reads(w).plate)
<1>1. /\ feed \in Feeds /\ feed' = feed /\ delivered' = delivered /\ delivered \in Nat
      /\ delivered <= Len(feed) /\ Len(feed) \in Nat /\ MaxTime \in Nat
  BY EntriesAreReadings, PipelineConfig DEF PInv, PType, AddReading, stream, PipelineConfig
<1>2. PICK e \in 1..delivered, r \in Reading :
          /\ e \in Entries /\ r = feed[e] /\ r.at \in Nat /\ r.at >= 1
          /\ Reads(w) = r /\ Event(w) = r.event
  BY <1>1, AtWork, EntriesAreTyped DEF AddReading, Reads, Event
<1>3. /\ e \in 1..delivered /\ e \in Entries /\ r = feed[e] /\ r \in Reading
      /\ r.at \in Nat /\ r.at >= 1 /\ Reads(w) = r /\ Event(w) = r.event
  BY <1>2
<1>4. PICK key \in M!Keys, sample \in M!Readings :
          /\ key = ManagerKey(w, r) /\ key.scale[2] = r.scale /\ key.plate = r.plate
          /\ sample = [weight |-> r.weight, at |-> r.at]
  <2>1. ManagerKey(w, r) = [scale |-> <<w, r.scale>>, plate |-> r.plate]
    BY DEF ManagerKey
  <2>2. r.scale \in Scales /\ r.plate \in Plates /\ r.weight \in Weights /\ r.at \in 1..MaxTime
    BY DEF Reading
  <2>3. ManagerKey(w, r) \in M!Keys
    BY <2>1, <2>2 DEF M!Keys
  <2>4. [weight |-> r.weight, at |-> r.at] \in M!Readings
    BY <2>2 DEF M!Readings, M!Times
  <2>5. ManagerKey(w, r).scale[2] = r.scale /\ ManagerKey(w, r).plate = r.plate
    BY <2>1
  <2> QED
    BY <2>3, <2>4, <2>5
<1>5. /\ key \in M!Keys /\ key.scale[2] = r.scale /\ key.plate = r.plate
      /\ sample \in M!Readings /\ sample = [weight |-> r.weight, at |-> r.at]
      /\ sample.at = r.at /\ sample.weight = r.weight
  BY <1>4
<1>6. M!Reject(key, sample) \/ M!Accept(key, sample)
  BY <1>3, <1>4 DEF AddReading, M!Add, M!Keys
<1>7. \A k \in M!Keys : SessionTraced(k)
  BY DEF SInv
<1>8. ASSUME NEW k \in M!Keys,
             sessions'[k] = NoSession \/
                 (sessions'[k] \in M!Session /\ Traced(sessions'[k].window, sessions'[k].lastSeen, k.scale[2], k.plate))
      PROVE  SessionTraced(k)'
  BY <1>1, <1>8, TracesStay DEF SessionTraced
<1>9. CASE M!Reject(key, sample)
  <2>1. sessions' = sessions /\ answer'.weight = 0
    BY <1>9 DEF M!Reject, M!Answer
  <2> QED
    BY <2>1, <1>7, <1>8 DEF SessionTraced
<1>10. CASE M!Accept(key, sample)
  <2>1. PICK s \in M!Prepared(key, sample.at) :
            \/ M!StillFailed(s, key, sample) \/ M!OutOfOrder(s, key, sample)
            \/ M!Unload(s, key, sample) \/ M!IgnoreHeavy(s, key, sample)
            \/ M!Collect(s, key, sample)
    BY <1>10 DEF M!Accept
  <2>2. /\ \A k \in M!Keys : k # key => s[k] \in {sessions[k], NoSession}
        /\ s[key] = M!EmptySession \/ (s[key] = sessions[key] /\ sessions[key] # NoSession)
    BY <1>5, PreparedFrom
  <2>3. ASSUME NEW k \in M!Keys, k # key, sessions'[k] \in {s[k], NoSession} PROVE SessionTraced(k)'
    <3>1. sessions'[k] = NoSession \/ sessions'[k] = sessions[k]
      BY <2>2, <2>3
    <3> QED
      BY <3>1, <1>7, <1>8 DEF SessionTraced
  <2>4. s[key].state # "EMPTY" =>
            s[key] \in M!Session /\ Traced(s[key].window, s[key].lastSeen, key.scale[2], key.plate)
    BY <2>2, <1>5, <1>7 DEF M!EmptySession, SessionTraced
  <2>5. CASE M!StillFailed(s, key, sample)
    <3>1. sessions' = s /\ answer'.weight = 0 /\ s[key].state # "EMPTY"
      BY <2>5 DEF M!StillFailed, M!Answer
    <3>2. SessionTraced(key)'
      BY <3>1, <2>4, <1>5, <1>8
    <3> QED
      BY <3>1, <3>2, <2>3
  <2>6. CASE M!OutOfOrder(s, key, sample)
    <3>1. /\ sessions' = M!Put(s, key, [s[key] EXCEPT !.state = "FAILED"])
          /\ answer'.weight = 0 /\ ~M!InOrder(s[key], sample)
      BY <2>6 DEF M!OutOfOrder, M!Answer
    <3>2. s[key].state # "EMPTY"
      BY <3>1, <2>2, <2>4, <1>5, <1>7 DEF M!EmptySession, M!InOrder, SessionTraced, M!Session, M!States
    <3>3. /\ sessions'[key] = [s[key] EXCEPT !.state = "FAILED"]
          /\ \A k \in M!Keys : k # key => sessions'[k] = s[k]
      BY <3>1, <1>5 DEF M!Put
    <3>4. /\ sessions'[key] \in M!Session
          /\ sessions'[key].window = s[key].window /\ sessions'[key].lastSeen = s[key].lastSeen
      BY <3>2, <3>3, <2>4 DEF M!Session, M!States
    <3>5. SessionTraced(key)'
      BY <3>2, <3>4, <2>4, <1>5, <1>8
    <3> QED
      BY <3>1, <3>3, <3>5, <2>3
  <2>7. CASE M!Unload(s, key, sample)
    <3>1. sessions' = M!Drop(s, {key}) /\ answer'.weight = 0
      BY <2>7 DEF M!Unload, M!Answer
    <3>2. sessions'[key] = NoSession /\ \A k \in M!Keys : k # key => sessions'[k] = s[k]
      BY <3>1, <1>5 DEF M!Drop
    <3>3. SessionTraced(key)'
      BY <3>2, <1>5, <1>8
    <3> QED
      BY <3>1, <3>2, <3>3, <2>3
  <2>8. CASE M!IgnoreHeavy(s, key, sample)
    <3>1. /\ sessions' = M!Put(s, key, [s[key] EXCEPT !.lastSeen = sample.at])
          /\ answer'.weight = 0 /\ M!InOrder(s[key], sample) /\ s[key].state # "EMPTY"
      BY <2>8 DEF M!IgnoreHeavy, M!Answer
    <3>2. /\ sessions'[key] = [s[key] EXCEPT !.lastSeen = sample.at]
          /\ \A k \in M!Keys : k # key => sessions'[k] = s[k]
      BY <3>1, <1>5 DEF M!Put
    <3>3. s[key] \in M!Session /\ s[key].lastSeen \in 1..MaxTime /\ s[key].lastSeen <= r.at
      BY <3>1, <2>4, <1>1, <1>3, <1>5 DEF M!Session, M!Times, M!InOrder
    <3>4. sessions'[key] \in M!Session /\ sessions'[key].window = s[key].window /\ sessions'[key].lastSeen = r.at
      BY <3>2, <3>3, <1>5 DEF M!Session, M!Readings
    <3>5. Traced(s[key].window, r.at, key.scale[2], key.plate)
      BY <3>1, <3>3, <2>4, <1>1, <1>3, TracedLater
    <3>6. SessionTraced(key)'
      BY <3>4, <3>5, <1>5, <1>8
    <3> QED
      BY <3>1, <3>2, <3>6, <2>3
  <2>9. CASE M!Collect(s, key, sample)
    <3> DEFINE window == M!Slide(s[key].window, sample)
               state == M!NextState(s[key].state, window)
    <3>1. /\ sessions' = M!Put(s, key, [state |-> state, window |-> window, lastSeen |-> sample.at])
          /\ answer' = M!Answer(key, state, "none", IF state = "FINALIZED" THEN M!Median(window) ELSE 0)
          /\ M!InOrder(s[key], sample)
      BY <2>9 DEF M!Collect
    <3>2. EndsBefore(s[key].window, feed[e].at, key.scale[2], key.plate)
      <4>1. s[key] = M!EmptySession \/
                (s[key] \in M!Session /\ Traced(s[key].window, s[key].lastSeen, key.scale[2], key.plate))
        BY <2>2, <1>5, <1>7 DEF SessionTraced
      <4>2. sample.at \in Nat /\ sample.at >= 1 /\ sample.at = feed[e].at
        BY <1>3, <1>5
      <4> QED
        BY <3>1, <4>1, <4>2, <1>1, WindowBefore
    <3>3. EndsWith(window, e, key.scale[2], key.plate)
      <4>1. feed[e].scale = key.scale[2] /\ feed[e].plate = key.plate
        BY <1>3, <1>5
      <4>2. window = M!Slide(s[key].window, [weight |-> feed[e].weight, at |-> feed[e].at])
        BY <1>3, <1>5
      <4> QED
        BY <3>2, <4>1, <4>2, <1>1, SlideTraces
    <3> HIDE DEF window
    <3>5. PICK m \in 1..WindowCapacity : \E longer \in [1..m -> 1..delivered] :
              /\ Passage(longer, key.scale[2], key.plate)
              /\ window = WindowOf(longer)
              /\ \A i \in 1..m : feed[longer[i]].at <= feed[e].at
              /\ longer[m] = e
      BY <3>3 DEF EndsWith
    <3>6. PICK longer \in [1..m -> 1..delivered] :
              /\ Passage(longer, key.scale[2], key.plate)
              /\ window = WindowOf(longer)
              /\ \A i \in 1..m : feed[longer[i]].at <= feed[e].at
              /\ longer[m] = e
      BY <3>5
    <3>7. m \in Nat /\ longer \in [1..m -> Entries]
      BY <1>1, Bounds DEF Entries
    <3>8. window \in Seq(M!Readings) /\ Len(window) = m
      BY <3>6, <3>7, <1>1, WindowsAreTyped
    <3>9. Traced(window, r.at, key.scale[2], key.plate)
      <4>1. m \in 0..WindowCapacity /\ \A i \in 1..m : feed[longer[i]].at <= r.at
        BY <3>6, <1>3, Bounds
      <4> QED
        BY <3>6, <4>1 DEF Traced
    <3>10. /\ sessions'[key] = [state |-> state, window |-> window, lastSeen |-> r.at]
           /\ \A k \in M!Keys : k # key => sessions'[k] = s[k]
      BY <3>1, <1>5 DEF M!Put
    <3>11. [state |-> state, window |-> window, lastSeen |-> r.at] \in M!Session
      BY <3>8, <1>5 DEF M!Session, M!NextState, M!States, M!Readings
    <3>12. SessionTraced(key)'
      BY <3>9, <3>10, <3>11, <1>5, <1>8
    <3>13. ASSUME answer'.weight > 0
           PROVE  IsWeightOf(answer'.weight, r.event, r.scale, r.plate)
      <4>1. state = "FINALIZED" /\ answer'.weight = M!Median(window)
        BY <3>1, <3>13 DEF M!Answer
      <4>2. M!Ready(window) /\ M!Stable(window)
        BY <4>1 DEF M!NextState
      <4>3. m >= MinSamples
        BY <4>2, <3>8 DEF M!Ready
      <4>4. m \in MinSamples..WindowCapacity
        BY <4>3, Bounds
      <4>5. feed[longer[m]].event = r.event
        BY <3>6, <1>3
      <4>6. Passage(longer, r.scale, r.plate)
        BY <3>6, <1>5
      <4> QED
        BY <3>6, <4>1, <4>2, <4>4, <4>5, <4>6 DEF IsWeightOf
    <3> QED
      BY <3>10, <3>12, <3>13, <2>3, <1>3
  <2> QED
    BY <2>1, <2>5, <2>6, <2>7, <2>8, <2>9
<1> QED
  BY <1>6, <1>9, <1>10

\* A step of one worker keeps what is traced if the sessions, its own works and
\* the new weighings are.
LEMMA WorkerTraces ==
    ASSUME PInv, PInv', SInv, NEW w \in Workers, feed' = feed, delivered <= delivered',
           \A u \in Workers : u # w => ws'[u] = ws[u] /\ pending'[u] = pending[u],
           \A k \in M!Keys : SessionTraced(k)',
           \A ev \in Events :
               \/ pending'[w][ev] = pending[w][ev]
               \/ pending'[w][ev].kind # "weight"
               \/ /\ ws[w].pc # "idle" /\ ev = Event(w)
                  /\ IsWeightOf(pending'[w][ev].weight, Event(w), Reads(w).scale, Reads(w).plate),
           ws'[w].pc = "finalize" => Work(w)'.kind = "weight",
           \A v \in weighings' : v \in weighings
               \/ IsWeightOf(v.gross, v.event, v.scale, PlateOf[v.transport])
    PROVE  SInv'
<1>0. /\ feed \in Feeds /\ delivered \in Nat /\ delivered' \in Nat /\ Entries' = Entries
  BY EntriesAreReadings DEF PInv, PType, Entries
<1>1. \A grams, event, scale, plate :
          IsWeightOf(grams, event, scale, plate) => IsWeightOf(grams, event, scale, plate)'
  BY <1>0, TracesStay
<1>2. ASSUME NEW u \in Workers, NEW e \in Entries PROVE WorkEarned(u, e)'
  <2>0. WorkEarned(u, e) /\ feed[e].event \in Events
    BY <1>0, EntriesAreReadings DEF SInv
  <2>1. CASE pending'[u][feed[e].event] = pending[u][feed[e].event]
    BY <2>0, <2>1, <1>1 DEF WorkEarned
  <2>2. CASE pending'[u][feed[e].event].kind # "weight"
    BY <2>2 DEF WorkEarned
  <2>3. CASE /\ u = w /\ ws[w].pc # "idle" /\ feed[e].event = Event(w)
             /\ IsWeightOf(pending'[w][feed[e].event].weight, Event(w), Reads(w).scale, Reads(w).plate)
    <3>1. feed[e] = Reads(w)
      BY <2>3, <1>0, AtWork, EntriesAreReadings DEF Event, Reads
    <3>2. IsWeightOf(pending'[u][feed[e].event].weight, feed[e].event, feed[e].scale, feed[e].plate)
      BY <2>3, <3>1
    <3> QED
      BY <3>2, <1>1 DEF WorkEarned
  <2> QED
    BY <2>0, <2>1, <2>2, <2>3
<1>3. ASSUME NEW u \in Workers, ws'[u].pc = "finalize" PROVE Work(u)'.kind = "weight"
  <2>1. CASE u = w
    BY <1>3, <2>1
  <2>2. CASE u # w
    <3>1. Work(u)' = Work(u) /\ ws[u].pc = "finalize"
      BY <1>3, <2>2 DEF Work, Event, Reads
    <3> QED
      BY <3>1 DEF SInv
  <2> QED
    BY <2>1, <2>2
<1>4. WeighingIsOfOneTruck'
  BY <1>1 DEF SInv, WeighingIsOfOneTruck
<1> QED
  BY <1>0, <1>2, <1>3, <1>4 DEF SInv

LEMMA SessionsStay ==
    ASSUME PInv, PInv', SInv, feed' = feed, delivered <= delivered', sessions' = sessions
    PROVE  \A k \in M!Keys : SessionTraced(k)'
<1>1. delivered \in Nat /\ delivered' \in Nat
  BY EntriesAreReadings DEF PInv, PType
<1> QED
  BY <1>1, TracesStay DEF SInv, SessionTraced

\* A worker moved, alone.
LEMMA Moved ==
    ASSUME PInv, NEW w \in Workers, NEW pc, Goto(w, pc) \/ (Release(w) /\ pc = "idle"),
           pc \in {"idle", "process", "write", "finalize", "bury", "ack"}
    PROVE  /\ \A u \in Workers : u # w => ws'[u] = ws[u]
           /\ ws'[w].pc = pc
           /\ pc # "idle" => ws'[w].entry = ws[w].entry
<1>1. ws \in [Workers -> Local]
  BY DEF PInv, PType
<1>2. CASE Goto(w, pc)
  <2> DEFINE local == [pc |-> pc, entry |-> ws[w].entry, attempt |-> ws[w].attempt]
  <2>1. ws' = [ws EXCEPT ![w] = local]
    BY <1>1, <1>2, GotoLocal
  <2>2. ws'[w] = local /\ \A u \in Workers : u # w => ws'[u] = ws[u]
    BY <1>1, <2>1
  <2> QED
    BY <2>2
<1>3. CASE Release(w) /\ pc = "idle"
  <2>1. ws'[w] = Free /\ \A u \in Workers : u # w => ws'[u] = ws[u]
    BY <1>1, <1>3 DEF Release
  <2> QED
    BY <2>1, <1>3 DEF Free
<1> QED
  BY <1>2, <1>3

\* What the final transaction records is what the event has earned, for a
\* transport of the truck that has been weighed.
LEMMA RowIsEarned ==
    ASSUME PInv, SInv, NEW w \in Workers, ws[w].pc = "finalize",
           NEW t \in Matches(Reads(w)), Book!Record(RowOf(w, t))
    PROVE  \A v \in weighings' : v \in weighings
               \/ IsWeightOf(v.gross, v.event, v.scale, PlateOf[v.transport])
<1>1. ws[w].entry \in Entries /\ Work(w).kind = "weight"
  BY AtWork DEF SInv
<1>2. IsWeightOf(Work(w).weight, Event(w), Reads(w).scale, Reads(w).plate)
  BY <1>1 DEF SInv, WorkEarned, Work, Event, Reads
<1>3. PlateOf[t] = Reads(w).plate
  BY DEF Matches
<1>4. LET v == RowOf(w, t)
      IN  /\ v.gross = Work(w).weight /\ v.event = Event(w)
          /\ v.scale = Reads(w).scale /\ v.transport = t
  BY DEF RowOf
<1>5. weighings' = weighings \cup {RowOf(w, t)}
  BY DEF Book!Record
<1> QED
  BY <1>2, <1>3, <1>4, <1>5

\* A step that changes neither works, windows nor weighings.
LEMMA QuietStep ==
    ASSUME PInv, PInv', SInv, NEW w \in Workers, feed' = feed, delivered <= delivered',
           \A u \in Workers : u # w => ws'[u] = ws[u],
           ws'[w].pc # "finalize", pending' = pending, sessions' = sessions,
           \A v \in weighings' : v \in weighings
               \/ IsWeightOf(v.gross, v.event, v.scale, PlateOf[v.transport])
    PROVE  SInv'
BY SessionsStay, WorkerTraces

\* A failed call keeps the work, whatever it has written.
LEMMA RetryTraces ==
    ASSUME PInv, PInv', SInv, NEW w \in Workers, Retry(w), UNCHANGED <<manager, stream>>,
           \A v \in weighings' : v \in weighings
               \/ IsWeightOf(v.gross, v.event, v.scale, PlateOf[v.transport])
    PROVE  SInv'
<1>1. pending' = pending /\ (Goto(w, "bury") \/ Release(w))
  BY DEF Retry
<1>2. /\ \A u \in Workers : u # w => ws'[u] = ws[u]
      /\ ws'[w].pc # "finalize"
  <2>1. CASE Goto(w, "bury")
    BY <2>1, Moved
  <2>2. CASE Release(w)
    BY <2>2, Moved
  <2> QED
    BY <1>1, <2>1, <2>2
<1>3. feed' = feed /\ delivered <= delivered' /\ sessions' = sessions
  BY EntriesAreReadings DEF stream, manager, PInv, PType
<1> QED
  BY <1>1, <1>2, <1>3, QuietStep

\* The work of an event changes to one without a weight.
LEMMA KeepTraces ==
    ASSUME PInv, PInv', SInv, NEW w \in Workers, ws[w].pc # "idle",
           NEW work, Keep(w, work), work.kind # "weight",
           NEW pc \in {"write", "bury", "ack"}, Goto(w, pc),
           UNCHANGED stream,
           \A k \in M!Keys : SessionTraced(k)',
           \A v \in weighings' : v \in weighings
               \/ IsWeightOf(v.gross, v.event, v.scale, PlateOf[v.transport])
    PROVE  SInv'
<1>1. /\ \A u \in Workers, ev \in Events :
             pending'[u][ev] = IF u = w /\ ev = Event(w) THEN work ELSE pending[u][ev]
      /\ \A u \in Workers : u # w => pending'[u] = pending[u]
  BY AtWork, KeepMaps DEF PInv, PType
<1>2. /\ \A u \in Workers : u # w => ws'[u] = ws[u]
      /\ ws'[w].pc # "finalize"
  BY Moved
<1>3. feed' = feed /\ delivered <= delivered'
  BY EntriesAreReadings DEF stream, PInv, PType
<1> QED
  BY <1>1, <1>2, <1>3, WorkerTraces

LEMMA NoWorkHasNoWeight == NoWork.kind # "weight" /\ ReadingOnly.kind # "weight"
BY DEF NoWork, ReadingOnly

LEMMA TakeTraces == ASSUME PInv, PInv', SInv, NEW w \in Workers, Take(w) PROVE SInv'
<1>1. PICK e \in NextEntry \cup pel :
          /\ delivered' = IF e > delivered THEN e ELSE delivered
          /\ ws' = [ws EXCEPT ![w] = [pc |-> "process", entry |-> e, attempt |-> attempts[e] + 1]]
  BY DEF Take
<1>2. delivered <= delivered'
  BY <1>1, EntriesAreReadings DEF PInv, PType, NextEntry
<1>3. ws'[w].pc = "process" /\ \A u \in Workers : u # w => ws'[u] = ws[u]
  BY <1>1 DEF PInv, PType
<1>4. feed' = feed /\ pending' = pending /\ sessions' = sessions /\ weighings' = weighings
  BY DEF Take, manager, book
<1> QED
  BY <1>2, <1>3, <1>4, QuietStep

LEMMA AddReadingTraces == ASSUME PInv, PInv', SInv, NEW w \in Workers, AddReading(w) PROVE SInv'
<1>0. /\ ws[w].pc # "idle" /\ UNCHANGED stream /\ weighings' = weighings
      /\ feed' = feed /\ delivered <= delivered'
  BY EntriesAreReadings DEF AddReading, book, stream, PInv, PType
<1>1. \A k \in M!Keys : SessionTraced(k)'
  BY AddTraces
<1>2. CASE answer'.error = "none" /\ answer'.weight > 0
  <2>1. Goto(w, "write") /\ Keep(w, FinalWeight(answer'.weight))
    BY <1>2 DEF AddReading
  <2>2. IsWeightOf(answer'.weight, Event(w), Reads(w).scale, Reads(w).plate)
    BY <1>2, AddTraces
  <2>3. /\ \A u \in Workers, ev \in Events :
               pending'[u][ev] = IF u = w /\ ev = Event(w) THEN FinalWeight(answer'.weight) ELSE pending[u][ev]
        /\ \A u \in Workers : u # w => pending'[u] = pending[u]
    BY <2>1, <1>0, AtWork, KeepMaps DEF PInv, PType
  <2>4. FinalWeight(answer'.weight).weight = answer'.weight
    BY DEF FinalWeight
  <2>5. /\ \A u \in Workers : u # w => ws'[u] = ws[u]
        /\ ws'[w].pc # "finalize"
    BY <2>1, Moved
  <2> QED
    BY <1>0, <1>1, <2>2, <2>3, <2>4, <2>5, WorkerTraces
<1>3. CASE answer'.error = "none" /\ ~(answer'.weight > 0)
  <2>1. Goto(w, "write") /\ Keep(w, ReadingOnly)
    BY <1>3 DEF AddReading
  <2> QED
    BY <2>1, <1>0, <1>1, KeepTraces, NoWorkHasNoWeight
<1>4. CASE answer'.error # "none"
  <2>1. Goto(w, "bury") /\ pending' = pending
    BY <1>4 DEF AddReading
  <2>2. /\ \A u \in Workers : u # w => ws'[u] = ws[u]
        /\ ws'[w].pc # "finalize"
    BY <2>1, Moved
  <2> QED
    BY <2>1, <2>2, <1>0, <1>1, WorkerTraces
<1> QED
  BY <1>2, <1>3, <1>4

LEMMA FindWeighingTraces ==
    ASSUME PInv, PInv', SInv, NEW w \in Workers, FindWeighing(w) PROVE SInv'
<1>0. /\ ws[w].pc # "idle" /\ UNCHANGED stream /\ weighings' = weighings /\ sessions' = sessions
      /\ feed' = feed /\ delivered <= delivered' /\ Work(w).kind = "weight"
  BY EntriesAreReadings DEF FindWeighing, book, manager, stream, PInv, PType
<1>1. \A k \in M!Keys : SessionTraced(k)'
  BY <1>0, SessionsStay
<1>2. CASE Known(w) = {}
  <2>1. Goto(w, "finalize") /\ pending' = pending
    BY <1>2 DEF FindWeighing
  <2>2. /\ \A u \in Workers : u # w => ws'[u] = ws[u]
        /\ ws'[w].entry = ws[w].entry
    BY <2>1, Moved
  <2>3. Work(w)' = Work(w)
    BY <2>1, <2>2, <1>0 DEF Work, Event, Reads
  <2> QED
    BY <2>1, <2>2, <2>3, <1>0, <1>1, WorkerTraces
<1>3. CASE Known(w) # {}
  <2>1. Goto(w, "ack") /\ Keep(w, NoWork)
    BY <1>3 DEF FindWeighing
  <2> QED
    BY <2>1, <1>0, <1>1, KeepTraces, NoWorkHasNoWeight
<1> QED
  BY <1>2, <1>3

\* A process that dies forgets its windows and its works.
LEMMA CrashTraces == ASSUME PInv, PInv', SInv, NEW w \in Workers, Crash(w) PROVE SInv'
<1>1. /\ Release(w) /\ weighings' = weighings /\ feed' = feed /\ delivered' = delivered
      /\ sessions' = M!Drop(sessions, {k \in M!Keys : k.scale[1] = w})
      /\ pending' = [pending EXCEPT ![w] = [ev \in Events |-> NoWork]]
  BY DEF Crash, book, stream
<1>2. delivered <= delivered' /\ delivered \in Nat /\ delivered' \in Nat
  BY <1>1, EntriesAreReadings DEF PInv, PType
<1>3. ASSUME NEW k \in M!Keys PROVE SessionTraced(k)'
  <2>1. sessions'[k] = NoSession \/ sessions'[k] = sessions[k]
    BY <1>1 DEF M!Drop
  <2> QED
    BY <2>1, <1>1, <1>2, TracesStay DEF SInv, SessionTraced
<1>4. /\ \A ev \in Events : pending'[w][ev].kind # "weight"
      /\ \A u \in Workers : u # w => pending'[u] = pending[u]
  <2>1. DOMAIN pending = Workers
    BY DEF PInv, PType, Maps
  <2>2. pending'[w] = [ev \in Events |-> NoWork]
    BY <1>1, <2>1
  <2>3. \A u \in Workers : u # w => pending'[u] = pending[u]
    BY <1>1, <2>1
  <2> QED
    BY <2>2, <2>3, NoWorkHasNoWeight
<1>5. /\ \A u \in Workers : u # w => ws'[u] = ws[u]
      /\ ws'[w].pc # "finalize"
  BY <1>1, Moved
<1> QED
  BY <1>1, <1>2, <1>3, <1>4, <1>5, WorkerTraces

\* The other steps move the worker, or drop a work.
LEMMA StepTraces ==
    ASSUME PInv, PInv', SInv, NEW w \in Workers, Step(w) PROVE SInv'
<1>0. stream' = stream => feed' = feed /\ delivered <= delivered'
  BY EntriesAreReadings DEF stream, PInv, PType
<1>1. CASE Resume(w)
  <2>1. /\ Goto(w, "write") /\ UNCHANGED stream /\ pending' = pending
        /\ sessions' = sessions /\ weighings' = weighings
    BY <1>1 DEF Resume, manager, book
  <2>2. /\ \A u \in Workers : u # w => ws'[u] = ws[u]
        /\ ws'[w].pc # "finalize"
    BY <2>1, Moved
  <2> QED
    BY <2>1, <2>2, <1>0, QuietStep
<1>2. CASE StoreReading(w)
  <2>1. /\ ws[w].pc # "idle" /\ Keep(w, NoWork) /\ Goto(w, "ack") /\ UNCHANGED stream
        /\ sessions' = sessions /\ weighings' = weighings
    BY <1>2 DEF StoreReading, manager, book
  <2>2. \A k \in M!Keys : SessionTraced(k)'
    BY <2>1, <1>0, SessionsStay
  <2> QED
    BY <2>1, <2>2, KeepTraces, NoWorkHasNoWeight
<1>3. CASE Finalize(w)
  <2>1. /\ ws[w].pc = "finalize" /\ Keep(w, NoWork) /\ Goto(w, "ack") /\ UNCHANGED stream
        /\ sessions' = sessions
    BY <1>3 DEF Finalize, manager
  <2>2. \A k \in M!Keys : SessionTraced(k)'
    BY <2>1, <1>0, SessionsStay
  <2>3. \A v \in weighings' : v \in weighings
            \/ IsWeightOf(v.gross, v.event, v.scale, PlateOf[v.transport])
    BY <1>3, RowIsEarned DEF Finalize
  <2> QED
    BY <2>1, <2>2, <2>3, KeepTraces, NoWorkHasNoWeight
<1>4. CASE Refuse(w)
  <2>1. /\ ws[w].pc # "idle" /\ Keep(w, NoWork) /\ Goto(w, "bury") /\ UNCHANGED stream
        /\ sessions' = sessions /\ weighings' = weighings
    BY <1>4 DEF Refuse, manager, book
  <2>2. \A k \in M!Keys : SessionTraced(k)'
    BY <2>1, <1>0, SessionsStay
  <2> QED
    BY <2>1, <2>2, KeepTraces, NoWorkHasNoWeight
<1>5. CASE LoseRace(w)
  BY <1>5, RetryTraces DEF LoseRace, book
<1>6. CASE Bury(w) \/ Ack(w)
  <2>1. /\ Release(w) /\ feed' = feed /\ delivered' = delivered /\ pending' = pending
        /\ sessions' = sessions /\ weighings' = weighings
    BY <1>6 DEF Bury, Ack, Settle, manager, book
  <2>2. /\ \A u \in Workers : u # w => ws'[u] = ws[u]
        /\ ws'[w].pc # "finalize"
    BY <2>1, Moved
  <2>3. delivered <= delivered'
    BY <2>1, EntriesAreReadings DEF PInv, PType
  <2> QED
    BY <2>1, <2>2, <2>3, QuietStep
<1> QED
  BY <1>1, <1>2, <1>3, <1>4, <1>5, <1>6, TakeTraces, AddReadingTraces, FindWeighingTraces DEF Step

LEMMA FailureTraces ==
    ASSUME PInv, PInv', SInv, NEW w \in Workers, FailTransiently(w) \/ CommitUnknown(w) \/ Break(w)
    PROVE  SInv'
<1>1. CASE FailTransiently(w)
  BY <1>1, RetryTraces DEF FailTransiently, book
<1>2. CASE CommitUnknown(w)
  <2>1. \A v \in weighings' : v \in weighings
            \/ IsWeightOf(v.gross, v.event, v.scale, PlateOf[v.transport])
    BY <1>2, RowIsEarned DEF CommitUnknown, book
  <2> QED
    BY <1>2, <2>1, RetryTraces DEF CommitUnknown
<1>3. CASE Break(w)
  <2>1. /\ Release(w) /\ feed' = feed /\ delivered' = delivered /\ pending' = pending
        /\ sessions' = sessions /\ weighings' = weighings
    BY <1>3 DEF Break, manager, book, stream
  <2>2. /\ \A u \in Workers : u # w => ws'[u] = ws[u]
        /\ ws'[w].pc # "finalize"
    BY <2>1, Moved
  <2>3. delivered <= delivered'
    BY <2>1, EntriesAreReadings DEF PInv, PType
  <2> QED
    BY <2>1, <2>2, <2>3, QuietStep
<1> QED
  BY <1>1, <1>2, <1>3

\* The API and the registrations touch neither.
LEMMA WorldTraces ==
    ASSUME PInv, PInv', SInv,
           UNCHANGED <<sessions, weighings, feed, delivered, ws, pending>>
    PROVE  SInv'
<1>1. delivered <= delivered' /\ delivered \in Nat /\ delivered' \in Nat /\ Entries' = Entries
  BY EntriesAreReadings DEF PInv, PType, Entries
<1>2. \A k \in M!Keys : SessionTraced(k)'
  BY <1>1, SessionsStay
<1>3. \A w \in Workers : \A e \in Entries : WorkEarned(w, e)'
  BY <1>1, TracesStay DEF SInv, WorkEarned
<1>4. \A w \in Workers : ws'[w].pc = "finalize" => Work(w)'.kind = "weight"
  BY DEF SInv, Work, Event, Reads
<1>5. WeighingIsOfOneTruck'
  BY <1>1, TracesStay DEF SInv, WeighingIsOfOneTruck
<1> QED
  BY <1>1, <1>2, <1>3, <1>4, <1>5 DEF SInv

LEMMA TracesInitially == Init => SInv
<1> SUFFICES ASSUME Init PROVE SInv
  OBVIOUS
<1>1. \A k \in M!Keys : sessions[k] = NoSession
  BY DEF Init, M!Init
<1>2. \A w \in Workers, ev \in Events : pending[w][ev].kind # "weight"
  BY NoWorkHasNoWeight DEF Init
<1>3. \A e \in Entries : feed[e].event \in Events
  BY EntriesAreReadings DEF Init
<1>4. \A w \in Workers : ws[w].pc # "finalize"
  BY DEF Init, Free
<1>5. weighings = {}
  BY DEF Init, Book!Init
<1> QED
  BY <1>1, <1>2, <1>3, <1>4, <1>5 DEF SInv, SessionTraced, WorkEarned, WeighingIsOfOneTruck

LEMMA TracesStep == PInv /\ PInv' /\ SInv /\ [Next]_vars => SInv'
<1> SUFFICES ASSUME PInv, PInv', SInv, [Next]_vars PROVE SInv'
  OBVIOUS
<1>1. CASE Publish
  BY <1>1, WorldTraces DEF Publish, book, manager
<1>2. ASSUME NEW t \in Transports, OpenTransport(t) PROVE SInv'
  BY <1>2, WorldTraces DEF OpenTransport, stream, manager, Book!Open
<1>3. ASSUME NEW w \in Workers,
             Step(w) \/ FailTransiently(w) \/ CommitUnknown(w) \/ Break(w) \/ Crash(w)
      PROVE  SInv'
  BY <1>3, StepTraces, FailureTraces, CrashTraces
<1>4. CASE UNCHANGED vars
  BY <1>4, WorldTraces DEF vars, book, stream, manager
<1> QED
  BY <1>1, <1>2, <1>3, <1>4 DEF Next

\* The gross weight of a weighing is the median of a stable window of one
\* passage over its scale by a truck of the plate of its transport, whatever the
\* workers share, repeat or lose (readingKey, evaluate, lockTransport).
THEOREM WeighingsAreOfOneTruck == Spec => []WeighingIsOfOneTruck
<1>1. SInv => WeighingIsOfOneTruck
  BY DEF SInv
<1> QED
  BY <1>1, PipelineInvariant, TracesInitially, TracesStep, PTL DEF Spec
=============================================================================
