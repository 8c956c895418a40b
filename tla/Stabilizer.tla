----------------------------- MODULE Stabilizer -----------------------------
(***************************************************************************)
(* stabilizer.Manager: the sessions of all scale and plate pairs, fed one  *)
(* reading at a time.  Each call of Add is one step: the Manager is single *)
(* threaded and FinalizingProcessor holds a mutex around it.  Readings     *)
(* carry the clock of their device, so at jumps in any direction.          *)
(***************************************************************************)
EXTENDS Window

CONSTANTS
    Scales, Plates,     \* normalized scale ids and plates
    Spelling,           \* normalizeKey: keys as written -> Keys, NoKey if blank
    NoKey, NoSession,
    MaxSessions, LowWeightThreshold, InactivityTimeout,
    Weights,            \* grams a reading may carry, 0 for an invalid one
    MaxTime             \* bound on the clocks

Keys == [scale : Scales, plate : Plates]
Times == 1..MaxTime

ASSUME StabilizerConfig ==
    /\ Spelling \in [DOMAIN Spelling -> Keys \cup {NoKey}]
    /\ NoKey \notin Keys
    /\ MaxSessions \in Nat \ {0}
    /\ LowWeightThreshold \in Nat
    /\ InactivityTimeout \in Nat \ {0}
    /\ Weights \subseteq Nat
    /\ MaxTime \in Nat

Readings == [weight : Weights, at : Times]
States == {"COLLECTING", "CANDIDATE", "FINALIZED", "FAILED"}
Session == [state : States, window : Seq(Readings), lastSeen : Times]

EmptySession == [state |-> "EMPTY", window |-> <<>>, lastSeen |-> 0]

ASSUME NoSessionIsNone == NoSession \notin Session /\ NoSession # EmptySession

VARIABLES
    sessions,   \* Manager.sessions; NoSession where the map has no entry
    answer,     \* what the latest call returned; weight is 0 without finalization
    held        \* history: latest reading of a weighed passage, 0 once released

vars == <<sessions, answer, held>>

Answer(key, state, error, weight) ==
    [key |-> key, state |-> state, error |-> error, weight |-> weight]

Init ==
    /\ sessions = [k \in Keys |-> NoSession]
    /\ answer = Answer(NoKey, "EMPTY", "none", 0)
    /\ held = [k \in Keys |-> 0]

-----------------------------------------------------------------------------
(* The steps Add takes before it looks at the state of the session.        *)

Live(s) == {k \in Keys : s[k] # NoSession}

Put(s, key, session) == [k \in Keys |-> IF k = key THEN session ELSE s[k]]

Drop(s, gone) == [k \in Keys |-> IF k \in gone THEN NoSession ELSE s[k]]

\* releaseFinalizedForPlateChange
PlateChanged(s, key) ==
    {k \in Live(s) : k.scale = key.scale /\ k.plate # key.plate /\ s[k].state = "FINALIZED"}

Idle(s, now) == {k \in Live(s) : now - s[k].lastSeen > InactivityTimeout}

\* Mutant: the newest session makes room.
NewestOf(s) == {k \in Live(s) : \A other \in Live(s) : s[k].lastSeen >= s[other].lastSeen}

\* The candidates of makeRoom; a tie is broken by the order of map iteration.
Oldest(s) == {k \in Live(s) : \A other \in Live(s) : s[k].lastSeen <= s[other].lastSeen}

\* Mutant: one session too many fits.
MakeRoomLate(s) ==
    IF Cardinality(Live(s)) <= MaxSessions THEN {s} ELSE {Drop(s, {k}) : k \in Oldest(s)}

MakeRoom(s) ==
    IF Cardinality(Live(s)) < MaxSessions THEN {s} ELSE {Drop(s, {k}) : k \in Oldest(s)}

OpenSession(s, key) ==
    IF s[key] # NoSession THEN {s}
    ELSE {Put(room, key, EmptySession) : room \in MakeRoom(s)}

\* The session maps that Add may look up the session of key in.
Prepared(key, at) ==
    LET changed == Drop(sessions, PlateChanged(sessions, key))
    IN  OpenSession(Drop(changed, Idle(changed, at) \cap {key}), key)

-----------------------------------------------------------------------------
(* The outcomes of Add, with the session map s it prepared.                *)

StillFailed(s, key, reading) ==
    /\ s[key].state = "FAILED"
    /\ sessions' = s
    /\ answer' = Answer(key, "FAILED", "FailedSession", 0)

\* Mutant: equal timestamps pass.
InOrderOrEqual(session, reading) == reading.at >= session.lastSeen

\* The zero time of a new session precedes every reading.
InOrder(session, reading) == session.lastSeen = 0 \/ reading.at > session.lastSeen

OutOfOrder(s, key, reading) ==
    /\ s[key].state # "FAILED"
    /\ ~InOrder(s[key], reading)
    /\ sessions' = Put(s, key, [s[key] EXCEPT !.state = "FAILED"])
    /\ answer' = Answer(key, "FAILED", "OutOfOrderTimestamp", 0)

\* Mutant: any reading in order releases the weighed session.
UnloadAny(s, key, reading) ==
    /\ s[key].state = "FINALIZED" /\ InOrder(s[key], reading)
    /\ sessions' = Drop(s, {key})
    /\ answer' = Answer(key, "EMPTY", "none", 0)

Unload(s, key, reading) ==
    /\ s[key].state = "FINALIZED" /\ InOrder(s[key], reading)
    /\ reading.weight <= LowWeightThreshold
    /\ sessions' = Drop(s, {key})
    /\ answer' = Answer(key, "EMPTY", "none", 0)

IgnoreHeavy(s, key, reading) ==
    /\ s[key].state = "FINALIZED" /\ InOrder(s[key], reading)
    /\ reading.weight > LowWeightThreshold
    /\ sessions' = Put(s, key, [s[key] EXCEPT !.lastSeen = reading.at])
    /\ answer' = Answer(key, "FINALIZED", "none", 0)

\* Mutant: one stable window is enough.
NextStateAtOnce(previous, window) ==
    IF ~(Ready(window) /\ Stable(window)) THEN "COLLECTING" ELSE "FINALIZED"

\* The state after a reading: two stable windows in a row finalize.
NextState(previous, window) ==
    IF ~(Ready(window) /\ Stable(window)) THEN "COLLECTING"
    ELSE IF previous = "CANDIDATE" THEN "FINALIZED" ELSE "CANDIDATE"

\* Mutant: the time of the reading is not remembered.
CollectForgetsTime(s, key, reading) ==
    /\ s[key].state \notin {"FAILED", "FINALIZED"} /\ InOrder(s[key], reading)
    /\ LET window == Slide(s[key].window, reading)
           state == NextState(s[key].state, window)
       IN  /\ sessions' = Put(s, key,
                  [state |-> state, window |-> window, lastSeen |-> s[key].lastSeen])
           /\ answer' = Answer(key, state, "none",
                               IF state = "FINALIZED" THEN Median(window) ELSE 0)

\* Mutant: a failed session takes the next reading.
CollectFailed(s, key, reading) ==
    /\ s[key].state # "FINALIZED" /\ InOrder(s[key], reading)
    /\ LET window == Slide(s[key].window, reading)
           state == NextState(s[key].state, window)
       IN  /\ sessions' = Put(s, key,
                  [state |-> state, window |-> window, lastSeen |-> reading.at])
           /\ answer' = Answer(key, state, "none",
                               IF state = "FINALIZED" THEN Median(window) ELSE 0)

Collect(s, key, reading) ==
    /\ s[key].state \notin {"FAILED", "FINALIZED"} /\ InOrder(s[key], reading)
    /\ LET window == Slide(s[key].window, reading)
           state == NextState(s[key].state, window)
       IN  /\ sessions' = Put(s, key,
                  [state |-> state, window |-> window, lastSeen |-> reading.at])
           /\ answer' = Answer(key, state, "none",
                               IF state = "FINALIZED" THEN Median(window) ELSE 0)

-----------------------------------------------------------------------------
\* k may be the victim of makeRoom for a reading of key.
Evictable(k, key) ==
    /\ key \notin Live(sessions)
    /\ Cardinality(Live(sessions)) = MaxSessions
    /\ \A other \in Live(sessions) : sessions[k].lastSeen <= sessions[other].lastSeen

Evicted(k, key) == k \in Live(sessions) /\ sessions'[k] = NoSession /\ Evictable(k, key)

(***************************************************************************)
(* What the passages look like from outside: a weighed passage is over     *)
(* with a light reading, another plate on its scale, or a silence; and it  *)
(* is forgotten when its session makes room for another.                   *)
(***************************************************************************)
PassageOver(k, key, reading) ==
    \/ k.scale = key.scale /\ k.plate # key.plate
    \/ k = key /\ reading.at - held[k] > InactivityTimeout
    \/ k = key /\ answer'.error = "none" /\ reading.weight <= LowWeightThreshold
    \/ Evicted(k, key)

Observe(key, reading) ==
    held' = [k \in Keys |->
        IF k = key /\ answer'.weight > 0 THEN reading.at
        ELSE IF held[k] = 0 \/ PassageOver(k, key, reading) THEN 0
        ELSE IF k = key /\ answer'.error = "none" THEN reading.at ELSE held[k]]

Reject(key, reading) ==
    /\ key = NoKey \/ reading.weight = 0
    /\ answer' = Answer(NoKey, "EMPTY", "InvalidReading", 0)
    /\ UNCHANGED <<sessions, held>>

Accept(key, reading) ==
    /\ key # NoKey /\ reading.weight > 0
    /\ \E s \in Prepared(key, reading.at) :
           \/ StillFailed(s, key, reading)
           \/ OutOfOrder(s, key, reading)
           \/ Unload(s, key, reading)
           \/ IgnoreHeavy(s, key, reading)
           \/ Collect(s, key, reading)
    /\ Observe(key, reading)

Add(written, reading) ==
    \/ Reject(Spelling[written], reading)
    \/ Accept(Spelling[written], reading)

\* The sweep of idle sessions, for every session at once.
Expire(now) ==
    /\ sessions' = Drop(sessions, Idle(sessions, now))
    /\ answer' = Answer(NoKey, "EMPTY", "none", 0)
    /\ held' = [k \in Keys |-> IF now - held[k] > InactivityTimeout THEN 0 ELSE held[k]]

Next ==
    \/ \E written \in DOMAIN Spelling, reading \in Readings : Add(written, reading)
    \/ \E now \in Times : Expire(now)

Spec == Init /\ [][Next]_vars

-----------------------------------------------------------------------------
\* A stored session is never EMPTY and always has the time of a reading: the
\* search of makeRoom takes a zero time for "none found yet" (Add, makeRoom).
TypeOK ==
    /\ sessions \in [Keys -> Session \cup {NoSession}]
    /\ held \in [Keys -> 0..MaxTime]
    /\ answer.key \in Keys \cup {NoKey}
    /\ answer.state \in States \cup {"EMPTY"}

\* Memory is bounded: never more sessions than MaxSessions, none of which
\* keeps more readings than its ring (makeRoom, ring.add).
MemoryBounded ==
    /\ Cardinality(Live(sessions)) <= MaxSessions
    /\ \A k \in Live(sessions) : Len(sessions[k].window) <= WindowCapacity

(***************************************************************************)
(* The readings a session decides on are one passage: strictly increasing  *)
(* times without a silence longer than the timeout, up to its latest       *)
(* reading (Add's ordering check and abandonment).                         *)
(***************************************************************************)
WindowIsOnePassage ==
    \A k \in Live(sessions) :
        LET w == sessions[k].window
        IN  /\ \A i \in 1..Len(w)-1 :
                   w[i].at < w[i+1].at /\ w[i+1].at - w[i].at <= InactivityTimeout
            /\ w # <<>> => w[Len(w)].at <= sessions[k].lastSeen

\* The state of a session tells whether its window is stable: no steady load
\* stays unnoticed, and a candidate is revoked by the first unstable window
\* (applyWindow).
StateTellsStability ==
    \A k \in Live(sessions) :
        LET s == sessions[k] IN
        /\ s.state = "COLLECTING" => ~(Ready(s.window) /\ Stable(s.window))
        /\ s.state \in {"CANDIDATE", "FINALIZED"} => Ready(s.window) /\ Stable(s.window)

\* A weight is emitted only by the second of two consecutive stable windows
\* of one session, and it is the median of the second (applyWindow).
WeightIsEarned ==
    [][answer'.weight > 0 =>
           LET k == answer'.key IN
           /\ sessions[k] # NoSession /\ sessions'[k] # NoSession
           /\ \E r \in Readings : sessions'[k].window = Slide(sessions[k].window, r)
           /\ \A s \in {sessions[k], sessions'[k]} : Ready(s.window) /\ Stable(s.window)
           /\ answer'.weight = Median(sessions'[k].window)]_vars

(***************************************************************************)
(* After a failure of ordering a session is not silently reused: it takes  *)
(* no further reading.  A sweep, another plate on its scale or an eviction *)
(* may drop it, and a reading of its own after a silence longer than the   *)
(* timeout starts afresh in its place (FailedSessionError).                *)
(***************************************************************************)
FailedIsNotReused ==
    [][\A k \in Live(sessions) :
           sessions[k].state = "FAILED" /\ sessions'[k] # sessions[k] =>
               LET key == answer'.key IN
               \/ /\ sessions'[k] = NoSession
                  /\ \/ key = NoKey
                     \/ key.scale = k.scale /\ key.plate # k.plate
                     \/ Evictable(k, key)
               \/ /\ key = k /\ Len(sessions'[k].window) = 1
                  /\ sessions'[k].lastSeen - sessions[k].lastSeen > InactivityTimeout]_vars

(***************************************************************************)
(* What the comment of FailedSessionError says: the failed session "is     *)
(* released through the regular timeout or plate-change paths".  The code  *)
(* looks for FINALIZED sessions only (releaseFinalizedForPlateChange).     *)
(***************************************************************************)
PlateChangeReleasesFailed ==
    [][answer'.key # NoKey =>
           \A k \in Live(sessions) :
               /\ sessions[k].state = "FAILED"
               /\ k.scale = answer'.key.scale /\ k.plate # answer'.key.plate
               => sessions'[k] = NoSession]_vars

(***************************************************************************)
(* A reading touches its own session only; beyond it, it drops weighed     *)
(* sessions of the same scale and, into a full map, the one session that   *)
(* has been silent longest (releaseFinalizedForPlateChange, makeRoom).     *)
(***************************************************************************)
OthersAreLeftAlone ==
    [][answer'.key # NoKey =>
           LET touched == {k \in Live(sessions) \ {answer'.key} : sessions'[k] # sessions[k]}
               Weighed(k) == k.scale = answer'.key.scale /\ sessions[k].state = "FINALIZED"
           IN  /\ \A k \in touched : sessions'[k] = NoSession
               /\ \/ \A k \in touched : Weighed(k)
                  \/ \E k \in touched : touched = {k} /\ Evictable(k, answer'.key)]_vars

\* One weight per passage: after a weight, none follows for the same scale and
\* plate until a light reading, another plate or a silence has released it, or
\* it was the session silent longest in a full map and had to make room
\* (Finalization "is emitted exactly once until its session is released").
OnceUntilReleased == [][answer'.weight > 0 => held[answer'.key] = 0]_vars
=============================================================================
