------------------------------ MODULE Pipeline ------------------------------
(***************************************************************************)
(* From the stream to the book: worker processes, each with its own        *)
(* stabilizer and its own map of pending works (FinalizingProcessor), take *)
(* readings from one consumer group and write to one database.             *)
(*                                                                         *)
(* Stabilizer gives what a reading does to a manager.  The manager of a    *)
(* worker is the part of M's sessions whose scale is <<worker, scale>>.    *)
(* Finalization is abstract here: it reads the keys in one step and        *)
(* applies a Record of WeighingBook in another.  A worker takes one entry  *)
(* at a time (a batch size of 1), new or claimed.                          *)
(***************************************************************************)
EXTENDS Integers, Sequences, FiniteSets

CONSTANTS
    Workers, Scales, Plates, Events,
    Transports, Branches, Grains,
    BranchOf, GrainOf,      \* transport_transactions.branch_id, grain_type_id
    PlateOf, TareOf,        \* trucks.plate, tare_weight_grams of its truck
    ScaleBranch,            \* scales.branch_id
    Feeds,                  \* the sequences of readings the API may publish
    RetryLimit,
    MaxFailures,            \* bound on failed calls and crashes, per feed
    NoEvent,
    NoKey, NoSession, Weights, MaxTime, LowWeightThreshold, InactivityTimeout,
    WindowCapacity, MinSamples, MinWindowDuration,
    AbsoluteTolerance, PercentToleranceBPS, MaxSlope, Second

\* domain.ScaleReading, as normalizeReading leaves it.
Reading == [event : Events, scale : Scales, plate : Plates, weight : Weights, at : 1..MaxTime]

ASSUME PipelineConfig ==
    /\ \A f \in Feeds : f \in Seq(Reading)
    \* A device that sends again preserves the event_id, and uses no other twice.
    /\ \A f \in Feeds : \A i, j \in DOMAIN f : f[i].event = f[j].event => f[i] = f[j]
    /\ RetryLimit \in Nat \ {0} /\ MaxFailures \in [Feeds -> Nat]
    /\ NoEvent \notin Events
    /\ PlateOf \in [Transports -> Plates] /\ TareOf \in [Transports -> Nat \ {0}]
    /\ BranchOf \in [Transports -> Branches] /\ GrainOf \in [Transports -> Grains]
    /\ ScaleBranch \in [Scales -> Branches]
    /\ MaxTime \in Nat
    \* WindowConfig of Window
    /\ WindowCapacity \in Nat /\ MinSamples \in Nat \ {0} /\ MinSamples <= WindowCapacity

VARIABLES
    status, inventory, weighings,   \* see WeighingBook
    sessions, answer, held,         \* see Stabilizer
    feed,       \* the readings of this behaviour, in stream order
    published,  \* how many of them are in the stream
    delivered,  \* how many were delivered to the group
    pel,        \* entries delivered and not acknowledged
    attempts,   \* retry keys
    ledger,     \* events in processed_scale_events
    dlq,        \* entries in the dead letters
    ws,         \* the workers
    pending,    \* FinalizingProcessor.pending of each worker
    told,       \* history: what a worker's Add and Finalize made of an event
    failures    \* failed calls and crashes so far

book == <<status, inventory, weighings>>
manager == <<sessions, answer, held>>
stream == <<feed, published, delivered, pel, attempts, dlq>>
vars == <<book, manager, stream, ledger, ws, pending, told, failures>>

Book == INSTANCE WeighingBook

\* The managers of all workers; capacity is the subject of Stabilizer.
M == INSTANCE Stabilizer WITH
         Scales <- Workers \X Scales,
         Spelling <- [k \in [scale : Workers \X Scales, plate : Plates] |-> k],
         MaxSessions <- Cardinality(Workers) * Cardinality(Scales) * Cardinality(Plates)

\* What a worker keeps of an event until it is durable: a reading for the
\* ledger, or the weight to finalize.
NoWork == [kind |-> "none", weight |-> 0]
ReadingOnly == [kind |-> "reading", weight |-> 0]
FinalWeight(grams) == [kind |-> "weight", weight |-> grams]

Entries == 1..Len(feed)
Reads(w) == feed[ws[w].entry]
Event(w) == Reads(w).event
Work(w) == pending[w][Event(w)]

\* Mutant: the manager does not tell the trucks of a scale apart.
ManagerKeyOfScale(w, r) == [scale |-> <<w, r.scale>>, plate |-> CHOOSE p \in Plates : TRUE]

ManagerKey(w, r) == [scale |-> <<w, r.scale>>, plate |-> r.plate]

\* Input.SessionID: the same for every passage of a truck over a scale.
SessionId(r) == <<r.scale, r.plate>>

Free == [pc |-> "idle", entry |-> 0, attempt |-> 0]

Init ==
    /\ Book!Init /\ M!Init
    /\ feed \in Feeds
    /\ published = 0 /\ delivered = 0
    /\ pel = {} /\ dlq = {} /\ ledger = {}
    /\ attempts = [e \in Entries |-> 0]
    /\ ws = [w \in Workers |-> Free]
    /\ pending = [w \in Workers |-> [ev \in Events |-> NoWork]]
    /\ told = [w \in Workers |-> [ev \in Events |-> "nothing"]]
    /\ failures = 0

-----------------------------------------------------------------------------
(* The rest of the system.                                                 *)

\* The API accepts the next reading.
Publish ==
    /\ published < Len(feed)
    /\ published' = published + 1
    /\ UNCHANGED <<book, manager, feed, delivered, pel, attempts, dlq, ledger, ws, pending, told, failures>>

\* A truck has at most one OPEN transport (one_open_transport_per_truck).
OpenTransport(t) ==
    /\ \A u \in Transports : PlateOf[u] = PlateOf[t] => status[u] # "OPEN"
    /\ Book!Open(t)
    /\ UNCHANGED <<manager, stream, ledger, ws, pending, told, failures>>

-----------------------------------------------------------------------------
(* Worker and FinalizingProcessor.                                         *)

Goto(w, pc) == ws' = [ws EXCEPT ![w].pc = pc]
Release(w) == ws' = [ws EXCEPT ![w] = Free]
Keep(w, work) == pending' = [pending EXCEPT ![w][Event(w)] = work]
Tell(w, what) == told' = [told EXCEPT ![w][Event(w)] = what]

Misses == failures < MaxFailures[feed] /\ failures' = failures + 1

\* Mutant: an entry is taken before it is published.
NextEntryEarly == IF delivered <= published THEN {delivered + 1} ELSE {}

NextEntry == IF delivered < published THEN {delivered + 1} ELSE {}

\* XREADGROUP of a new entry, or XAUTOCLAIM of one that has been idle, also
\* under the hands of another worker; its attempt is counted.
Take(w) ==
    /\ ws[w].pc = "idle"
    /\ \E e \in NextEntry \cup pel :
           /\ delivered' = IF e > delivered THEN e ELSE delivered
           /\ pel' = pel \cup {e}
           /\ attempts' = [attempts EXCEPT ![e] = @ + 1]
           /\ ws' = [ws EXCEPT ![w] = [pc |-> "process", entry |-> e, attempt |-> attempts[e] + 1]]
    /\ UNCHANGED <<book, manager, feed, published, dlq, ledger, pending, told, failures>>

\* Process of an event that has a work: it is not added again.
Resume(w) ==
    /\ ws[w].pc = "process" /\ Work(w).kind # "none"
    /\ Goto(w, "write")
    /\ UNCHANGED <<book, manager, stream, ledger, pending, told, failures>>

\* Mutant: every delivery is added to the manager.
IsNewAlways(w) == TRUE

IsNew(w) == Work(w).kind = "none"

\* Process of a new event: Add, and a work for what it returned.
AddReading(w) ==
    /\ ws[w].pc = "process" /\ IsNew(w)
    /\ M!Add(ManagerKey(w, Reads(w)), [weight |-> Reads(w).weight, at |-> Reads(w).at])
    /\ IF answer'.error = "none"
       THEN /\ Goto(w, "write")
            /\ IF answer'.weight > 0
               THEN Keep(w, FinalWeight(answer'.weight)) /\ Tell(w, "weight")
               ELSE Keep(w, ReadingOnly) /\ Tell(w, "reading")
       ELSE /\ Goto(w, "bury")
            /\ UNCHANGED <<pending, told>>
    /\ UNCHANGED <<book, stream, ledger, failures>>

\* The ledger row, if the work has no weight.
StoreReading(w) ==
    /\ ws[w].pc = "write" /\ Work(w).kind = "reading"
    /\ ledger' = ledger \cup {Event(w)}
    /\ Keep(w, NoWork) /\ Goto(w, "ack")
    /\ UNCHANGED <<book, manager, stream, told, failures>>

\* The weighings Finalize answers with: of the event, or of the session.
Known(w) ==
    {v \in weighings : v.event = Event(w) \/ v.session = SessionId(Reads(w))}

\* Finalize, its idempotent reads.
FindWeighing(w) ==
    /\ ws[w].pc = "write" /\ Work(w).kind = "weight"
    /\ IF Known(w) = {} THEN Goto(w, "finalize") /\ UNCHANGED pending
       ELSE Goto(w, "ack") /\ Keep(w, NoWork)
    /\ UNCHANGED <<book, manager, stream, ledger, told, failures>>

\* The OPEN transport of the truck in the branch of the scale.
Matches(r) ==
    {t \in Transports : /\ status[t] = "OPEN" /\ PlateOf[t] = r.plate
                        /\ BranchOf[t] = ScaleBranch[r.scale]}

RowOf(w, t) ==
    [session |-> SessionId(Reads(w)), event |-> Event(w), scale |-> Reads(w).scale,
     transport |-> t, gross |-> Work(w).weight, tare |-> TareOf[t], net |-> Work(w).weight - TareOf[t]]

\* Finalize, the rest of its transaction.
Finalize(w) ==
    /\ ws[w].pc = "finalize"
    /\ \E t \in Matches(Reads(w)) : Book!Record(RowOf(w, t))
    /\ Keep(w, NoWork) /\ Goto(w, "ack")
    /\ UNCHANGED <<manager, stream, ledger, told, failures>>

\* Mutant: a business error is taken for success.
RefuseQuietly(w) ==
    /\ ws[w].pc = "finalize"
    /\ \A t \in Matches(Reads(w)) : Work(w).weight <= TareOf[t]
    /\ Keep(w, NoWork) /\ Tell(w, "refusal") /\ Goto(w, "ack")
    /\ UNCHANGED <<book, manager, stream, ledger, failures>>

\* A business error: no OPEN transport, or no positive net weight.
Refuse(w) ==
    /\ ws[w].pc = "finalize"
    /\ \A t \in Matches(Reads(w)) : Work(w).weight <= TareOf[t]
    /\ Keep(w, NoWork) /\ Tell(w, "refusal") /\ Goto(w, "bury")
    /\ UNCHANGED <<book, manager, stream, ledger, failures>>

\* Mutant: the work is forgotten whenever Process returns.
RetryWithout(w) ==
    /\ IF ws[w].attempt >= RetryLimit THEN Goto(w, "bury") ELSE Release(w)
    /\ Keep(w, NoWork)

\* A transient error: the work stays, and so does the entry unless this was
\* its last attempt.
Retry(w) ==
    /\ IF ws[w].attempt >= RetryLimit THEN Goto(w, "bury") ELSE Release(w)
    /\ UNCHANGED pending

\* The database fails without effect.
FailTransiently(w) ==
    /\ ws[w].pc \in {"write", "finalize"} /\ Misses
    /\ Retry(w)
    /\ UNCHANGED <<book, manager, stream, ledger, told>>

\* A row with the same key was committed since the reads: 23505.
LoseRace(w) ==
    /\ ws[w].pc = "finalize" /\ Known(w) # {}
    /\ \E t \in Matches(Reads(w)) : Work(w).weight > TareOf[t]
    /\ Retry(w)
    /\ UNCHANGED <<book, manager, stream, ledger, told, failures>>

\* The database commits and its reply is lost.
CommitUnknown(w) ==
    /\ Misses
    /\ \/ /\ ws[w].pc = "write" /\ Work(w).kind = "reading"
          /\ ledger' = ledger \cup {Event(w)}
          /\ UNCHANGED book
       \/ /\ ws[w].pc = "finalize"
          /\ \E t \in Matches(Reads(w)) : Book!Record(RowOf(w, t))
          /\ UNCHANGED ledger
    /\ Retry(w)
    /\ UNCHANGED <<manager, stream, told>>

\* The entry leaves the group.
Settle(w) ==
    /\ pel' = pel \ {ws[w].entry}
    /\ attempts' = [attempts EXCEPT ![ws[w].entry] = 0]
    /\ Release(w)
    /\ UNCHANGED <<book, manager, feed, published, delivered, ledger, pending, told, failures>>

\* deadLetter
Bury(w) ==
    /\ ws[w].pc = "bury"
    /\ dlq' = dlq \cup {ws[w].entry}
    /\ Settle(w)

\* XACK
Ack(w) ==
    /\ ws[w].pc = "ack"
    /\ Settle(w)
    /\ UNCHANGED dlq

\* A call to Redis fails without effect; the entry stays pending.
Break(w) ==
    /\ ws[w].pc \in {"process", "bury", "ack"} /\ Misses
    /\ Release(w)
    /\ UNCHANGED <<book, manager, stream, ledger, pending, told>>

\* The process dies; its successor knows nothing.
Crash(w) ==
    /\ Misses
    /\ Release(w)
    /\ sessions' = M!Drop(sessions, {k \in M!Keys : k.scale[1] = w})
    /\ held' = [k \in M!Keys |-> IF k.scale[1] = w THEN 0 ELSE held[k]]
    /\ pending' = [pending EXCEPT ![w] = [ev \in Events |-> NoWork]]
    /\ told' = [told EXCEPT ![w] = [ev \in Events |-> "nothing"]]
    /\ UNCHANGED <<book, answer, stream, ledger>>

Step(w) ==
    \/ Take(w) \/ Resume(w) \/ AddReading(w)
    \/ StoreReading(w) \/ FindWeighing(w) \/ Finalize(w) \/ Refuse(w) \/ LoseRace(w)
    \/ Bury(w) \/ Ack(w)

Next ==
    \/ Publish
    \/ \E t \in Transports : OpenTransport(t)
    \/ \E w \in Workers :
           Step(w) \/ FailTransiently(w) \/ CommitUnknown(w) \/ Break(w) \/ Crash(w)

Spec == Init /\ [][Next]_vars
-----------------------------------------------------------------------------
\* Entries are delivered in order and only once published, only delivered
\* ones are pending or dead, a worker past Process has the work it writes,
\* and works are kept for delivered events only.
TypeOK ==
    /\ 0 <= delivered /\ delivered <= published /\ published <= Len(feed)
    /\ pel \subseteq 1..delivered /\ dlq \subseteq 1..delivered
    /\ attempts \in [Entries -> Nat]
    /\ ledger \subseteq Events
    /\ \A w \in Workers :
           /\ ws[w].pc = "idle" \/ ws[w].entry \in 1..delivered
           /\ ws[w].pc \in {"write", "finalize"} => Work(w).kind # "none"
           /\ \A ev \in Events : pending[w][ev].kind # "none" =>
                  \E e \in 1..delivered : feed[e].event = ev
    /\ failures \in 0..MaxFailures[feed]

Recorded(r) == \E v \in weighings : v.event = r.event \/ v.session = SessionId(r)

Durable(r) == r.event \in ledger \/ Recorded(r)

\* An entry is acknowledged only when its reading is in the ledger, its event
\* or session has a weighing, or a copy is in the dead letters: also when its
\* weight was refused, the reply of the commit was lost, or another worker
\* claimed it (Process, processMessage).
AcknowledgedIsDurable ==
    \A e \in 1..delivered : e \in pel \/ e \in dlq \/ Durable(feed[e])

\* A weight the manager emitted once is not lost while its process lives: the
\* work stays in the map until the session has a weighing (pending).
EmittedWeightSurvives ==
    \A w \in Workers : \A e \in 1..delivered :
        told[w][feed[e].event] = "weight" =>
            pending[w][feed[e].event].kind = "weight" \/ Recorded(feed[e])

\* What a ring holds once it was fed with these entries.
WindowOf(entries) ==
    [i \in DOMAIN entries |-> [weight |-> feed[entries[i]].weight, at |-> feed[entries[i]].at]]

\* Entries of one truck on one scale, in the order of the device's clock.
Passage(entries, scale, plate) ==
    /\ \A i \in DOMAIN entries : feed[entries[i]].scale = scale /\ feed[entries[i]].plate = plate
    /\ \A i, j \in DOMAIN entries : i < j => feed[entries[i]].at < feed[entries[j]].at

\* The median of a stable window of one passage, the last reading of which is
\* the event.
IsWeightOf(grams, event, scale, plate) ==
    \E n \in MinSamples..WindowCapacity : \E entries \in [1..n -> 1..delivered] :
        /\ Passage(entries, scale, plate)
        /\ feed[entries[n]].event = event
        /\ M!Ready(WindowOf(entries)) /\ M!Stable(WindowOf(entries))
        /\ grams = M!Median(WindowOf(entries))

(***************************************************************************)
(* The scenario of concurrent scales: no reading crosses a scale or plate. *)
(* The gross weight of a weighing is the median of a stable window of      *)
(* readings of one scale and plate, the last of which is its event, and    *)
(* the truck of its transport has that plate (readingKey, lockTransport).  *)
(***************************************************************************)
WeighingIsOfOneTruck ==
    \A v \in weighings : IsWeightOf(v.gross, v.event, v.scale, PlateOf[v.transport])

(***************************************************************************)
(* The purpose of the pending map: a redelivery reaches the manager again  *)
(* only if the event is durable already, so that no failure of the         *)
(* database makes a redelivery look out of order (FinalizingProcessor).    *)
(***************************************************************************)
AddedAgainOnlyIfDurable ==
    [][\A w \in Workers :
           AddReading(w) /\ told[w][Event(w)] \in {"reading", "weight"} => Durable(Reads(w))]_vars

(***************************************************************************)
(* What the comment of Processor demands: it is idempotent by event, as an *)
(* acknowledgement may fail after persistence, so a durable event is never *)
(* sent to the dead letters.                                               *)
(***************************************************************************)
DurableIsNotRefused ==
    [][\A w \in Workers :
           ws[w].pc = "process" /\ ws'[w].pc = "bury" => ~Durable(Reads(w))]_vars

(***************************************************************************)
(* What the playbook demands of a finalization: with two stable windows    *)
(* and an OPEN transport, the transport becomes WEIGHED.  Only a replay of *)
(* the event that was weighed has nothing to do.                           *)
(***************************************************************************)
WeightClosesTransport ==
    [][\A w \in Workers :
           /\ ws[w].pc \in {"write", "finalize"} /\ ws'[w].pc = "ack"
           /\ Work(w).kind = "weight" /\ Matches(Reads(w)) # {}
           /\ \A v \in weighings : v.event # Event(w)
           => \E t \in Matches(Reads(w)) : status'[t] = "WEIGHED"]_vars
=============================================================================
