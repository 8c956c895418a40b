-------------------------- MODULE StabilizerProofs --------------------------
(***************************************************************************)
(* Proofs about Stabilizer for any scales, plates, weights, clocks and     *)
(* configuration.                                                          *)
(***************************************************************************)
EXTENDS Stabilizer, FiniteSetTheorems, SequenceTheorems, TLAPS

-----------------------------------------------------------------------------
(* Lemmas about the steps of Add.                                          *)

\* What Add finds when it looks up the session of key: its live session, or an
\* empty one if there was none or it was idle.  Other sessions are as before or
\* dropped.
LEMMA PreparedSession ==
    ASSUME TypeOK, NEW key \in Keys, NEW at \in Times, NEW s \in Prepared(key, at)
    PROVE  /\ \/ s[key] = EmptySession /\ (key \in Live(sessions) =>
                    at - sessions[key].lastSeen > InactivityTimeout)
              \/ s[key] = sessions[key] /\ key \in Live(sessions)
                    /\ ~(at - sessions[key].lastSeen > InactivityTimeout)
           /\ \A k \in Keys \ {key} : s[k] = sessions[k] \/ s[k] = NoSession
           /\ s = [k \in Keys |-> s[k]]
<1> DEFINE changed == Drop(sessions, PlateChanged(sessions, key))
           kept == Drop(changed, Idle(changed, at) \cap {key})
<1>1. changed[key] = sessions[key] /\ \A k \in Keys : changed[k] = sessions[k] \/ changed[k] = NoSession
  BY DEF Drop, PlateChanged
<1>2. /\ \A k \in Keys \ {key} : kept[k] = sessions[k] \/ kept[k] = NoSession
      /\ key \in Idle(changed, at) => kept[key] = NoSession
      /\ key \notin Idle(changed, at) => kept[key] = sessions[key]
  BY <1>1 DEF Drop
<1>3. key \in Idle(changed, at) <=>
          key \in Live(sessions) /\ at - sessions[key].lastSeen > InactivityTimeout
  <2> HIDE DEF changed
  <2> QED
    BY <1>1 DEF Idle, Live
<1>4. s \in OpenSession(kept, key)
  BY DEF Prepared
<1>5. kept = [k \in Keys |-> kept[k]]
  BY DEF Drop
<1> HIDE DEF kept, changed
<1>6. CASE kept[key] # NoSession
  BY <1>2, <1>3, <1>4, <1>5, <1>6 DEF OpenSession, Live
<1>7. CASE kept[key] = NoSession
  <2>1. PICK room \in MakeRoom(kept) : s = Put(room, key, EmptySession)
    BY <1>4, <1>7 DEF OpenSession
  <2>2. \A k \in Keys : room[k] = kept[k] \/ room[k] = NoSession
    BY <2>1 DEF MakeRoom, Drop
  <2>3. s[key] = EmptySession /\ \A k \in Keys \ {key} : s[k] = room[k]
    BY <2>1 DEF Put
  <2>4. s = [k \in Keys |-> s[k]]
    BY <2>1 DEF Put
  <2> QED
    BY <1>2, <1>3, <1>7, <2>2, <2>3, <2>4 DEF Live
<1> QED
  BY <1>6, <1>7

\* The outcomes of Add leave the other sessions of the prepared map alone.
LEMMA OutcomeOfAdd ==
    ASSUME NEW key \in Keys, NEW reading \in Readings, NEW s, s = [k \in Keys |-> s[k]],
           \/ StillFailed(s, key, reading) \/ OutOfOrder(s, key, reading)
           \/ Unload(s, key, reading) \/ IgnoreHeavy(s, key, reading)
           \/ Collect(s, key, reading)
    PROVE  /\ \A k \in Keys \ {key} : sessions'[k] = s[k]
           /\ sessions' = [k \in Keys |-> sessions'[k]]
           /\ answer'.key = key
<1>1. CASE StillFailed(s, key, reading)
  BY <1>1 DEF StillFailed, Answer
<1>2. CASE Unload(s, key, reading)
  BY <1>2 DEF Unload, Drop, Answer
<1>3. CASE OutOfOrder(s, key, reading)
  BY <1>3 DEF OutOfOrder, Put, Answer
<1>4. CASE IgnoreHeavy(s, key, reading)
  BY <1>4 DEF IgnoreHeavy, Put, Answer
<1>5. CASE Collect(s, key, reading)
  <2>1. PICK session, state, weight :
            sessions' = Put(s, key, session) /\ answer' = Answer(key, state, "none", weight)
    BY <1>5 DEF Collect
  <2> QED
    BY <2>1 DEF Put, Answer
<1> QED
  BY <1>1, <1>2, <1>3, <1>4, <1>5

\* The ring keeps a sequence of readings no longer than its capacity.
LEMMA SlideType ==
    ASSUME NEW window \in Seq(Readings), NEW reading \in Readings, Len(window) <= WindowCapacity
    PROVE  /\ Slide(window, reading) \in Seq(Readings)
           /\ Slide(window, reading) # <<>>
           /\ Len(Slide(window, reading)) <= WindowCapacity
<1> DEFINE longer == Append(window, reading)
<1>1. longer \in Seq(Readings) /\ Len(longer) = Len(window) + 1 /\ longer # <<>>
  BY AppendProperties
<1>2. Tail(longer) \in Seq(Readings) /\ Len(Tail(longer)) = Len(window)
  BY <1>1, HeadTailProperties
<1>3. WindowCapacity \in Nat /\ WindowCapacity >= 2 /\ Len(window) \in Nat
  BY WindowConfig
<1>4. Len(longer) > WindowCapacity => Len(window) >= 2
  BY <1>1, <1>3
<1>5. CASE Len(longer) > WindowCapacity
  <2>1. Tail(longer) # <<>>
    BY <1>2, <1>3, <1>4, <1>5
  <2> QED
    BY <1>2, <1>3, <1>5, <2>1 DEF Slide
<1>6. CASE ~(Len(longer) > WindowCapacity)
  BY <1>1, <1>3, <1>6 DEF Slide
<1> QED
  BY <1>5, <1>6
-----------------------------------------------------------------------------
(***************************************************************************)
(* TypeOK.  The ring is part of the induction: only a window within its    *)
(* capacity slides to one within it.                                       *)
(***************************************************************************)
Stored(session) == session \in Session /\ Len(session.window) <= WindowCapacity

TypeInv ==
    /\ TypeOK
    /\ \A k \in Live(sessions) : Stored(sessions[k])

\* What Add reads of a session that was not stored.
LEMMA EmptyFields ==
    EmptySession.state = "EMPTY" /\ EmptySession.window = <<>> /\ EmptySession.lastSeen = 0
BY DEF EmptySession

\* Collecting a reading stores a session, in a state the machine has.
LEMMA CollectStores ==
    ASSUME NEW key \in Keys, NEW reading \in Readings, NEW s,
           s[key] = EmptySession \/ Stored(s[key]), Collect(s, key, reading)
    PROVE  Stored(sessions'[key]) /\ answer'.state \in States
<1> DEFINE window == Slide(s[key].window, reading)
           state == NextState(s[key].state, window)
<1>1. sessions'[key] = [state |-> state, window |-> window, lastSeen |-> reading.at]
  BY DEF Collect, Put
<1>2. s[key].window \in Seq(Readings) /\ Len(s[key].window) <= WindowCapacity
  <2>1. CASE s[key] = EmptySession
    BY <2>1, WindowConfig, EmptyFields
  <2>2. CASE Stored(s[key])
    BY <2>2 DEF Stored, Session
  <2> QED
    BY <2>1, <2>2
<1>3. window \in Seq(Readings) /\ Len(window) <= WindowCapacity
  BY <1>2, SlideType
<1>4. state \in States
  BY DEF NextState, States
<1>5. answer'.state = state
  BY DEF Collect, Answer
<1> HIDE DEF window, state
<1>6. reading.at \in Times
  BY DEF Readings
<1>7. Stored(sessions'[key])
  BY <1>1, <1>3, <1>4, <1>6 DEF Stored, Session
<1> QED
  BY <1>4, <1>5, <1>7

\* A session is a stored one again after a reading that does not drop it; the
\* empty session of a first reading passes as in order and is never FAILED.
LEMMA StoredAgain ==
    ASSUME NEW key \in Keys, NEW reading \in Readings, NEW s,
           s[key] = EmptySession \/ Stored(s[key]),
           \/ StillFailed(s, key, reading) \/ OutOfOrder(s, key, reading)
           \/ Unload(s, key, reading) \/ IgnoreHeavy(s, key, reading)
           \/ Collect(s, key, reading)
    PROVE  /\ sessions'[key] = NoSession \/ Stored(sessions'[key])
           /\ answer'.state \in States \cup {"EMPTY"}
<1>1. CASE StillFailed(s, key, reading)
  <2>1. s[key] # EmptySession
    BY <1>1, EmptyFields DEF StillFailed
  <2> QED
    BY <1>1, <2>1 DEF StillFailed, Answer, States
<1>2. CASE Unload(s, key, reading)
  BY <1>2 DEF Unload, Drop, Answer
<1>3. CASE OutOfOrder(s, key, reading)
  <2>1. Stored(s[key])
    BY <1>3, EmptyFields DEF OutOfOrder, InOrder
  <2>2. sessions'[key] = [s[key] EXCEPT !.state = "FAILED"]
    BY <1>3 DEF OutOfOrder, Put
  <2>3. Stored(sessions'[key])
    BY <2>1, <2>2 DEF Stored, Session, States
  <2> QED
    BY <1>3, <2>3 DEF OutOfOrder, Answer, States
<1>4. CASE IgnoreHeavy(s, key, reading)
  <2>1. Stored(s[key])
    BY <1>4, EmptyFields DEF IgnoreHeavy
  <2>2. sessions'[key] = [s[key] EXCEPT !.lastSeen = reading.at]
    BY <1>4 DEF IgnoreHeavy, Put
  <2>3. Stored(sessions'[key])
    BY <2>1, <2>2 DEF Stored, Session, Readings
  <2> QED
    BY <1>4, <2>3 DEF IgnoreHeavy, Answer, States
<1>5. CASE Collect(s, key, reading)
  BY <1>5, CollectStores
<1> QED
  BY <1>1, <1>2, <1>3, <1>4, <1>5

\* TypeInv holds initially and in every step.
LEMMA TypeIsInductive ==
    /\ Init => TypeInv
    /\ TypeInv /\ [Next]_vars => TypeInv'
<1>1. Init => TypeInv
  BY StabilizerConfig DEF Init, TypeInv, TypeOK, Live, Answer
<1>2. ASSUME TypeInv, [Next]_vars
      PROVE  TypeInv'
  <2>1. ASSUME NEW key \in Keys, NEW reading \in Readings, Accept(key, reading)
        PROVE  TypeInv'
    <3>1. PICK s \in Prepared(key, reading.at) :
              \/ StillFailed(s, key, reading) \/ OutOfOrder(s, key, reading)
              \/ Unload(s, key, reading) \/ IgnoreHeavy(s, key, reading)
              \/ Collect(s, key, reading)
      BY <2>1 DEF Accept
    <3>2. reading.at \in Times
      BY DEF Readings
    <3>3. /\ s[key] = EmptySession \/ Stored(s[key])
          /\ \A k \in Keys \ {key} : s[k] = sessions[k] \/ s[k] = NoSession
          /\ s = [k \in Keys |-> s[k]]
      BY <1>2, <3>2, PreparedSession DEF TypeInv
    <3>4. /\ \A k \in Keys \ {key} : sessions'[k] = s[k]
          /\ sessions' = [k \in Keys |-> sessions'[k]]
          /\ answer'.key = key
      BY <3>1, <3>3, OutcomeOfAdd
    <3>5. /\ sessions'[key] = NoSession \/ Stored(sessions'[key])
          /\ answer'.state \in States \cup {"EMPTY"}
      BY <3>1, <3>3, StoredAgain
    <3>6. \A k \in Keys : sessions'[k] = NoSession \/ Stored(sessions'[k])
      BY <1>2, <3>3, <3>4, <3>5 DEF TypeInv, Live
    <3>7. sessions' \in [Keys -> Session \cup {NoSession}]
      BY <3>4, <3>6 DEF Stored
    <3>8. held' \in [Keys -> 0..MaxTime]
      BY <1>2, <2>1, <3>2, StabilizerConfig DEF Accept, Observe, TypeInv, TypeOK, Times
    <3> QED
      BY <3>4, <3>5, <3>6, <3>7, <3>8 DEF TypeInv, TypeOK, Live
  <2>2. ASSUME NEW written \in DOMAIN Spelling, NEW reading \in Readings, Add(written, reading)
        PROVE  TypeInv'
    <3>1. CASE Reject(Spelling[written], reading)
      BY <1>2, <3>1 DEF Reject, Answer, TypeInv, TypeOK, Live
    <3>2. CASE Accept(Spelling[written], reading)
      BY <2>1, <3>2, StabilizerConfig DEF Accept
    <3> QED
      BY <2>2, <3>1, <3>2 DEF Add
  <2>3. ASSUME NEW now \in Times, Expire(now)
        PROVE  TypeInv'
    <3>1. /\ sessions' = [k \in Keys |-> sessions'[k]]
          /\ \A k \in Keys : sessions'[k] = NoSession \/ sessions'[k] = sessions[k]
      BY <2>3 DEF Expire, Drop
    <3>2. \A k \in Keys : sessions'[k] = NoSession \/ Stored(sessions'[k])
      BY <1>2, <3>1 DEF TypeInv, Live
    <3>3. held' \in [Keys -> 0..MaxTime] /\ answer' = Answer(NoKey, "EMPTY", "none", 0)
      BY <1>2, <2>3, StabilizerConfig DEF Expire, TypeInv, TypeOK
    <3>4. sessions' \in [Keys -> Session \cup {NoSession}]
      BY <3>1, <3>2 DEF Stored
    <3> QED
      BY <3>2, <3>3, <3>4 DEF TypeInv, TypeOK, Live, Answer
  <2>4. CASE UNCHANGED vars
    BY <1>2, <2>4 DEF vars, TypeInv, TypeOK, Live
  <2> QED
    BY <1>2, <2>2, <2>3, <2>4 DEF Next
<1> QED
  BY <1>1, <1>2

\* Type correctness: every stored session is a real one with the time of a
\* reading, never the empty one of a first reading (Add, applyWindow).
THEOREM TypeCorrect == Spec => []TypeOK
<1>1. TypeInv => TypeOK
  BY DEF TypeInv
<1> QED
  BY <1>1, TypeIsInductive, PTL DEF Spec

-----------------------------------------------------------------------------
(***************************************************************************)
(* StateTellsStability, and from it that a weight is earned.               *)
(***************************************************************************)
Tells(s) ==
    /\ s.state = "COLLECTING" => ~(Ready(s.window) /\ Stable(s.window))
    /\ s.state \in {"CANDIDATE", "FINALIZED"} => Ready(s.window) /\ Stable(s.window)

\* Every outcome leaves a session whose state tells whether it is stable.
LEMMA OutcomeTells ==
    ASSUME NEW key \in Keys, NEW reading \in Readings, NEW s,
           s[key] = EmptySession \/ (Stored(s[key]) /\ Tells(s[key])),
           \/ StillFailed(s, key, reading) \/ OutOfOrder(s, key, reading)
           \/ Unload(s, key, reading) \/ IgnoreHeavy(s, key, reading)
           \/ Collect(s, key, reading)
    PROVE  sessions'[key] = NoSession \/ Tells(sessions'[key])
<1>1. CASE StillFailed(s, key, reading)
  BY <1>1 DEF StillFailed, Tells
<1>2. CASE Unload(s, key, reading)
  BY <1>2 DEF Unload, Drop
<1>3. CASE OutOfOrder(s, key, reading)
  <2>1. Stored(s[key])
    BY <1>3, EmptyFields DEF OutOfOrder, InOrder
  <2>2. sessions'[key] = [s[key] EXCEPT !.state = "FAILED"]
    BY <1>3 DEF OutOfOrder, Put
  <2>3. sessions'[key].state = "FAILED"
    BY <2>1, <2>2 DEF Stored, Session
  <2> QED
    BY <2>3 DEF Tells
<1>4. CASE IgnoreHeavy(s, key, reading)
  <2>1. Stored(s[key]) /\ Tells(s[key])
    BY <1>4, EmptyFields DEF IgnoreHeavy
  <2>2. sessions'[key] = [s[key] EXCEPT !.lastSeen = reading.at]
    BY <1>4 DEF IgnoreHeavy, Put
  <2>3. sessions'[key].state = s[key].state /\ sessions'[key].window = s[key].window
    BY <2>1, <2>2 DEF Stored, Session
  <2> QED
    BY <2>1, <2>3 DEF Tells
<1>5. CASE Collect(s, key, reading)
  <2> DEFINE window == Slide(s[key].window, reading)
             state == NextState(s[key].state, window)
  <2>1. sessions'[key] = [state |-> state, window |-> window, lastSeen |-> reading.at]
    BY <1>5 DEF Collect, Put
  <2>2. /\ state = "COLLECTING" => ~(Ready(window) /\ Stable(window))
        /\ state \in {"CANDIDATE", "FINALIZED"} => Ready(window) /\ Stable(window)
    BY DEF NextState
  <2> HIDE DEF window, state
  <2> QED
    BY <2>1, <2>2 DEF Tells
<1> QED
  BY <1>1, <1>2, <1>3, <1>4, <1>5

\* A weight comes from a session that was a candidate before, whose window
\* slid by this reading to another stable one.
LEMMA WeightFromCandidate ==
    ASSUME NEW key \in Keys, NEW reading \in Readings, NEW s,
           \/ StillFailed(s, key, reading) \/ OutOfOrder(s, key, reading)
           \/ Unload(s, key, reading) \/ IgnoreHeavy(s, key, reading)
           \/ Collect(s, key, reading),
           answer'.weight > 0
    PROVE  /\ Collect(s, key, reading)
           /\ s[key].state = "CANDIDATE"
           /\ sessions'[key].state = "FINALIZED"
           /\ sessions'[key].lastSeen = reading.at
           /\ sessions'[key].window = Slide(s[key].window, reading)
           /\ Ready(sessions'[key].window) /\ Stable(sessions'[key].window)
           /\ answer'.weight = Median(sessions'[key].window)
<1>1. ~StillFailed(s, key, reading)
  BY DEF StillFailed, Answer
<1>2. ~Unload(s, key, reading)
  BY DEF Unload, Answer
<1>3. ~OutOfOrder(s, key, reading)
  BY DEF OutOfOrder, Answer
<1>4. ~IgnoreHeavy(s, key, reading)
  BY DEF IgnoreHeavy, Answer
<1>5. Collect(s, key, reading)
  BY <1>1, <1>2, <1>3, <1>4
<1> DEFINE window == Slide(s[key].window, reading)
           state == NextState(s[key].state, window)
<1>6. /\ sessions'[key] = [state |-> state, window |-> window, lastSeen |-> reading.at]
      /\ answer'.weight = IF state = "FINALIZED" THEN Median(window) ELSE 0
  BY <1>5 DEF Collect, Put, Answer
<1>7. state = "FINALIZED" => s[key].state = "CANDIDATE" /\ Ready(window) /\ Stable(window)
  BY DEF NextState
<1> HIDE DEF window, state
<1>8. state = "FINALIZED"
  BY <1>6
<1> QED
  BY <1>5, <1>6, <1>7, <1>8 DEF window

TellsInv == \A k \in Live(sessions) : Tells(sessions[k])

\* The states of sessions tell their stability initially and after every step.
LEMMA TellsIsInductive ==
    /\ Init => TellsInv
    /\ TypeInv /\ TellsInv /\ [Next]_vars => TellsInv'
<1>1. Init => TellsInv
  BY DEF Init, TellsInv, Live
<1>2. ASSUME TypeInv, TellsInv, [Next]_vars
      PROVE  TellsInv'
  <2>1. ASSUME NEW key \in Keys, NEW reading \in Readings, Accept(key, reading)
        PROVE  TellsInv'
    <3>1. PICK s \in Prepared(key, reading.at) :
              \/ StillFailed(s, key, reading) \/ OutOfOrder(s, key, reading)
              \/ Unload(s, key, reading) \/ IgnoreHeavy(s, key, reading)
              \/ Collect(s, key, reading)
      BY <2>1 DEF Accept
    <3>2. reading.at \in Times
      BY DEF Readings
    <3>3. /\ s[key] = EmptySession \/ (Stored(s[key]) /\ Tells(s[key]))
          /\ \A k \in Keys \ {key} : s[k] = sessions[k] \/ s[k] = NoSession
          /\ s = [k \in Keys |-> s[k]]
      BY <1>2, <3>2, PreparedSession DEF TypeInv, TellsInv
    <3>4. \A k \in Keys \ {key} : sessions'[k] = s[k]
      BY <3>1, <3>3, OutcomeOfAdd
    <3>5. sessions'[key] = NoSession \/ Tells(sessions'[key])
      BY <3>1, <3>3, OutcomeTells
    <3> QED
      BY <1>2, <3>3, <3>4, <3>5 DEF TellsInv, Live
  <2>2. ASSUME NEW written \in DOMAIN Spelling, NEW reading \in Readings, Add(written, reading)
        PROVE  TellsInv'
    <3>1. CASE Reject(Spelling[written], reading)
      BY <1>2, <3>1 DEF Reject, TellsInv, Live
    <3>2. CASE Accept(Spelling[written], reading)
      BY <2>1, <3>2, StabilizerConfig DEF Accept
    <3> QED
      BY <2>2, <3>1, <3>2 DEF Add
  <2>3. ASSUME NEW now \in Times, Expire(now)
        PROVE  TellsInv'
    <3>1. \A k \in Keys : sessions'[k] = NoSession \/ sessions'[k] = sessions[k]
      BY <2>3 DEF Expire, Drop
    <3> QED
      BY <1>2, <3>1 DEF TellsInv, Live
  <2>4. CASE UNCHANGED vars
    BY <1>2, <2>4 DEF vars, TellsInv, Live
  <2> QED
    BY <1>2, <2>2, <2>3, <2>4 DEF Next
<1> QED
  BY <1>1, <1>2

\* The state of a session tells whether its window is stable, so a candidate is
\* revoked by the first unstable window (applyWindow).
THEOREM StateIsTruthful == Spec => []StateTellsStability
<1>1. TellsInv => StateTellsStability
  BY DEF TellsInv, StateTellsStability, Tells
<1> QED
  BY <1>1, TypeIsInductive, TellsIsInductive, PTL DEF Spec

\* A weight is the median of the second of two consecutive stable windows of
\* one session (applyWindow): the candidate of TellsInv is the first.
THEOREM WeightsAreEarned == Spec => WeightIsEarned
<1> DEFINE Earned ==
        answer'.weight > 0 =>
           LET k == answer'.key IN
           /\ sessions[k] # NoSession /\ sessions'[k] # NoSession
           /\ \E r \in Readings : sessions'[k].window = Slide(sessions[k].window, r)
           /\ \A s \in {sessions[k], sessions'[k]} : Ready(s.window) /\ Stable(s.window)
           /\ answer'.weight = Median(sessions'[k].window)
<1>1. ASSUME TypeInv, TellsInv, Next
      PROVE  Earned
  <2>1. ASSUME NEW key \in Keys, NEW reading \in Readings, Accept(key, reading), answer'.weight > 0
        PROVE  Earned
    <3>1. PICK s \in Prepared(key, reading.at) :
              \/ StillFailed(s, key, reading) \/ OutOfOrder(s, key, reading)
              \/ Unload(s, key, reading) \/ IgnoreHeavy(s, key, reading)
              \/ Collect(s, key, reading)
      BY <2>1 DEF Accept
    <3>2. reading.at \in Times
      BY DEF Readings
    <3>3. /\ s[key] = EmptySession \/ (s[key] = sessions[key] /\ key \in Live(sessions))
          /\ s = [k \in Keys |-> s[k]]
      BY <1>1, <3>2, PreparedSession DEF TypeInv
    <3>4. answer'.key = key
      BY <3>1, <3>3, OutcomeOfAdd
    <3>5. /\ Collect(s, key, reading)
          /\ s[key].state = "CANDIDATE"
          /\ sessions'[key].window = Slide(s[key].window, reading)
          /\ Ready(sessions'[key].window) /\ Stable(sessions'[key].window)
          /\ answer'.weight = Median(sessions'[key].window)
      BY <2>1, <3>1, WeightFromCandidate
    <3>6. s[key] = sessions[key] /\ key \in Live(sessions)
      BY <3>3, <3>5, EmptyFields
    <3>7. Ready(sessions[key].window) /\ Stable(sessions[key].window)
      BY <1>1, <3>5, <3>6 DEF TellsInv, Tells
    <3>8. sessions'[key] # NoSession
      BY <1>1, <3>5, <3>6, CollectStores, NoSessionIsNone DEF TypeInv, Stored
    <3>9. \A x \in {sessions[key], sessions'[key]} : Ready(x.window) /\ Stable(x.window)
      BY <3>5, <3>7
    <3>10. \E r \in Readings : sessions'[key].window = Slide(sessions[key].window, r)
      BY <3>5, <3>6
    <3> QED
      BY <3>4, <3>5, <3>6, <3>8, <3>9, <3>10 DEF Live
  <2>2. ASSUME NEW written \in DOMAIN Spelling, NEW reading \in Readings, Add(written, reading)
        PROVE  Earned
    <3>1. CASE Reject(Spelling[written], reading)
      BY <3>1 DEF Reject, Answer
    <3>2. CASE Accept(Spelling[written], reading) /\ answer'.weight > 0
      BY <2>1, <3>2, StabilizerConfig DEF Accept
    <3> QED
      BY <2>2, <3>1, <3>2 DEF Add
  <2>3. ASSUME NEW now \in Times, Expire(now)
        PROVE  Earned
    BY <2>3 DEF Expire, Answer
  <2> QED
    BY <1>1, <2>2, <2>3 DEF Next
<1> HIDE DEF Earned
<1>2. TypeInv /\ TellsInv /\ [Next]_vars => [Earned]_vars
  BY <1>1
<1>3. Spec => [][Earned]_vars
  BY <1>2, TypeIsInductive, TellsIsInductive, PTL DEF Spec
<1> QED
  BY <1>3 DEF WeightIsEarned, Earned

-----------------------------------------------------------------------------
(***************************************************************************)
(* MemoryBounded.  The live sessions are a finite set, without which their *)
(* number would mean nothing; makeRoom runs before the only step that adds *)
(* one.                                                                    *)
(***************************************************************************)
Bounded(s) == IsFiniteSet(Live(s)) /\ Cardinality(Live(s)) <= MaxSessions

\* Dropping sessions keeps the map bounded.
LEMMA FewerAreBounded ==
    ASSUME NEW s, NEW t, Bounded(s), Live(t) \subseteq Live(s)
    PROVE  Bounded(t)
<1>1. IsFiniteSet(Live(t)) /\ Cardinality(Live(t)) <= Cardinality(Live(s))
  BY FS_Subset DEF Bounded
<1>2. Cardinality(Live(t)) \in Nat /\ Cardinality(Live(s)) \in Nat
  BY <1>1, FS_CardinalityType DEF Bounded
<1> QED
  BY <1>1, <1>2, StabilizerConfig DEF Bounded

\* makeRoom leaves room for one more session.
LEMMA RoomIsMade ==
    ASSUME NEW s, Bounded(s), NEW room \in MakeRoom(s)
    PROVE  /\ IsFiniteSet(Live(room))
           /\ Cardinality(Live(room)) < MaxSessions
           /\ Live(room) \subseteq Live(s)
<1>1. Cardinality(Live(s)) \in Nat
  BY FS_CardinalityType DEF Bounded
<1>2. CASE Cardinality(Live(s)) < MaxSessions
  BY <1>2 DEF MakeRoom, Bounded
<1>3. CASE ~(Cardinality(Live(s)) < MaxSessions)
  <2>1. PICK k \in Oldest(s) : room = Drop(s, {k})
    BY <1>3 DEF MakeRoom
  <2>2. k \in Live(s) /\ Live(room) = Live(s) \ {k}
    BY <2>1 DEF Oldest, Live, Drop
  <2>3. IsFiniteSet(Live(room)) /\ Cardinality(Live(room)) = Cardinality(Live(s)) - 1
    BY <2>2, FS_RemoveElement DEF Bounded
  <2> QED
    BY <1>1, <2>2, <2>3, StabilizerConfig DEF Bounded
<1> QED
  BY <1>2, <1>3

\* The session map Add looks key up in is bounded, key included.
LEMMA PreparedIsBounded ==
    ASSUME Bounded(sessions), NEW key \in Keys, NEW at \in Times, NEW s \in Prepared(key, at)
    PROVE  Bounded(s) /\ key \in Live(s)
<1> DEFINE changed == Drop(sessions, PlateChanged(sessions, key))
           kept == Drop(changed, Idle(changed, at) \cap {key})
<1>1. Live(kept) \subseteq Live(sessions)
  BY DEF Live, Drop
<1>2. s \in OpenSession(kept, key)
  BY DEF Prepared
<1> HIDE DEF kept, changed
<1>3. Bounded(kept)
  BY <1>1, FewerAreBounded
<1>4. CASE kept[key] # NoSession
  BY <1>2, <1>3, <1>4 DEF OpenSession, Live
<1>5. CASE kept[key] = NoSession
  <2>1. PICK room \in MakeRoom(kept) : s = Put(room, key, EmptySession)
    BY <1>2, <1>5 DEF OpenSession
  <2>2. IsFiniteSet(Live(room)) /\ Cardinality(Live(room)) < MaxSessions /\ Live(room) \subseteq Live(kept)
    BY <1>3, <2>1, RoomIsMade
  <2>3. key \notin Live(room)
    BY <1>5, <2>2 DEF Live
  <2>4. EmptySession # NoSession
    BY NoSessionIsNone
  <2>5. Live(s) = Live(room) \cup {key}
    BY <2>1, <2>4 DEF Live, Put
  <2>6. IsFiniteSet(Live(s)) /\ Cardinality(Live(s)) = Cardinality(Live(room)) + 1
    BY <2>2, <2>3, <2>5, FS_AddElement
  <2>7. Cardinality(Live(room)) \in Nat
    BY <2>2, FS_CardinalityType
  <2> QED
    BY <2>2, <2>5, <2>6, <2>7, StabilizerConfig DEF Bounded
<1> QED
  BY <1>4, <1>5

MemoryInv == Bounded(sessions)

\* The number of sessions stays bounded.
LEMMA MemoryIsInductive ==
    /\ Init => MemoryInv
    /\ TypeInv /\ MemoryInv /\ [Next]_vars => MemoryInv'
<1>1. ASSUME Init
      PROVE  MemoryInv
  <2>1. Live(sessions) = {}
    BY <1>1 DEF Init, Live
  <2> QED
    BY <2>1, FS_EmptySet, StabilizerConfig DEF MemoryInv, Bounded
<1>2. ASSUME TypeInv, MemoryInv, [Next]_vars
      PROVE  MemoryInv'
  <2>1. ASSUME NEW key \in Keys, NEW reading \in Readings, Accept(key, reading)
        PROVE  MemoryInv'
    <3>1. PICK s \in Prepared(key, reading.at) :
              \/ StillFailed(s, key, reading) \/ OutOfOrder(s, key, reading)
              \/ Unload(s, key, reading) \/ IgnoreHeavy(s, key, reading)
              \/ Collect(s, key, reading)
      BY <2>1 DEF Accept
    <3>2. reading.at \in Times
      BY DEF Readings
    <3>3. s = [k \in Keys |-> s[k]]
      BY <1>2, <3>2, PreparedSession DEF TypeInv
    <3>4. \A k \in Keys \ {key} : sessions'[k] = s[k]
      BY <3>1, <3>3, OutcomeOfAdd
    <3>5. Bounded(s) /\ key \in Live(s)
      BY <1>2, <3>2, PreparedIsBounded DEF MemoryInv
    <3>6. Live(sessions') \subseteq Live(s)
      BY <3>4, <3>5 DEF Live
    <3> QED
      BY <3>5, <3>6, FewerAreBounded DEF MemoryInv
  <2>2. ASSUME NEW written \in DOMAIN Spelling, NEW reading \in Readings, Add(written, reading)
        PROVE  MemoryInv'
    <3>1. CASE Reject(Spelling[written], reading)
      BY <1>2, <3>1 DEF Reject, MemoryInv
    <3>2. CASE Accept(Spelling[written], reading)
      BY <2>1, <3>2, StabilizerConfig DEF Accept
    <3> QED
      BY <2>2, <3>1, <3>2 DEF Add
  <2>3. ASSUME NEW now \in Times, Expire(now)
        PROVE  MemoryInv'
    <3>1. Live(sessions') \subseteq Live(sessions)
      BY <2>3 DEF Expire, Drop, Live
    <3> QED
      BY <1>2, <3>1, FewerAreBounded DEF MemoryInv
  <2>4. CASE UNCHANGED vars
    BY <1>2, <2>4 DEF vars, MemoryInv
  <2> QED
    BY <1>2, <2>2, <2>3, <2>4 DEF Next
<1> QED
  BY <1>1, <1>2

\* Memory is bounded: neither the sessions nor the readings one of them keeps
\* outgrow their limits (makeRoom, ring.add).
THEOREM MemoryStaysBounded == Spec => []MemoryBounded
<1>1. TypeInv /\ MemoryInv => MemoryBounded
  BY DEF TypeInv, MemoryInv, Bounded, MemoryBounded, Stored
<1> QED
  BY <1>1, TypeIsInductive, MemoryIsInductive, PTL DEF Spec

-----------------------------------------------------------------------------
(***************************************************************************)
(* OnceUntilReleased.  The induction is that a weighed passage which is    *)
(* not over has its session, which refuses to collect and has the time of  *)
(* the passage's latest reading.  MemoryInv is needed for a full map: the  *)
(* session that makes room is the one Observe sees evicted.                *)
(***************************************************************************)
Remembers(k) ==
    /\ k \in Live(sessions)
    /\ sessions[k].state \in {"FINALIZED", "FAILED"}
    /\ sessions[k].lastSeen = held[k]

HeldInv == \A k \in Keys : held[k] # 0 => Remembers(k)

\* A session of another key is dropped for a plate change on its scale, or as
\* the one that makes room in a full map; then all others are kept.
LEMMA DroppedForAnother ==
    ASSUME Bounded(sessions), NEW key \in Keys, NEW at \in Times, NEW s \in Prepared(key, at),
           NEW k \in Live(sessions), k # key, s[k] = NoSession
    PROVE  \/ k \in PlateChanged(sessions, key)
           \/ /\ Evictable(k, key)
              /\ \A other \in Live(sessions) : other # k => s[other] = sessions[other]
<1> DEFINE changed == Drop(sessions, PlateChanged(sessions, key))
           kept == Drop(changed, Idle(changed, at) \cap {key})
<1> SUFFICES ASSUME k \notin PlateChanged(sessions, key)
             PROVE  /\ Evictable(k, key)
                    /\ \A other \in Live(sessions) : other # k => s[other] = sessions[other]
  OBVIOUS
<1>1. /\ k \in Keys /\ sessions[k] # NoSession
      /\ Live(kept) \subseteq Live(sessions)
      /\ \A j \in Keys : kept[j] = sessions[j] \/ kept[j] = NoSession
      /\ kept[k] = sessions[k]
  BY DEF Live, Drop
<1>2. s \in OpenSession(kept, key)
  BY DEF Prepared
<1> HIDE DEF kept, changed
<1>3. kept[key] = NoSession
  BY <1>1, <1>2 DEF OpenSession
<1>4. PICK room \in MakeRoom(kept) : s = Put(room, key, EmptySession)
  BY <1>2, <1>3 DEF OpenSession
<1>5. room[k] = NoSession
  BY <1>1, <1>4 DEF Put
<1>6. ~(Cardinality(Live(kept)) < MaxSessions)
  BY <1>1, <1>4, <1>5 DEF MakeRoom
<1>7. PICK victim \in Oldest(kept) : room = Drop(kept, {victim})
  BY <1>4, <1>6 DEF MakeRoom
<1>8. victim = k
  BY <1>1, <1>5, <1>7 DEF Drop
<1>9. IsFiniteSet(Live(sessions)) /\ Cardinality(Live(sessions)) <= MaxSessions
      /\ Cardinality(Live(sessions)) \in Nat
  BY FS_CardinalityType DEF Bounded
<1>10. /\ Cardinality(Live(kept)) \in Nat /\ Cardinality(Live(kept)) <= Cardinality(Live(sessions))
       /\ Cardinality(Live(sessions)) = Cardinality(Live(kept)) => Live(sessions) = Live(kept)
  BY <1>1, <1>9, FS_Subset, FS_CardinalityType
<1>11. Live(kept) = Live(sessions) /\ Cardinality(Live(sessions)) = MaxSessions
  BY <1>6, <1>9, <1>10, StabilizerConfig
<1>12. key \notin Live(sessions)
  BY <1>3, <1>11 DEF Live
<1>13. \A j \in Live(sessions) : kept[j] = sessions[j]
  BY <1>1, <1>11 DEF Live
<1>14. \A other \in Live(sessions) : sessions[k].lastSeen <= sessions[other].lastSeen
  BY <1>7, <1>8, <1>11, <1>13 DEF Oldest
<1>15. \A other \in Live(sessions) : other # k => s[other] = sessions[other]
  BY <1>4, <1>7, <1>8, <1>12, <1>13 DEF Put, Drop, Live
<1> QED
  BY <1>11, <1>12, <1>14, <1>15 DEF Evictable

\* A reading of key keeps or ends what the session of key remembers.
LEMMA OwnPassage ==
    ASSUME TypeInv, HeldInv, NEW key \in Keys, NEW reading \in Readings,
           NEW s \in Prepared(key, reading.at),
           \/ StillFailed(s, key, reading) \/ OutOfOrder(s, key, reading)
           \/ Unload(s, key, reading) \/ IgnoreHeavy(s, key, reading)
           \/ Collect(s, key, reading),
           Observe(key, reading), answer'.key = key
    PROVE  /\ held'[key] # 0 => Remembers(key)'
           /\ answer'.weight > 0 => held[key] = 0
<1>1. reading.at \in Times
  BY DEF Readings
<1>2. /\ \/ s[key] = EmptySession /\ (key \in Live(sessions) =>
                   reading.at - sessions[key].lastSeen > InactivityTimeout)
         \/ s[key] = sessions[key] /\ key \in Live(sessions)
      /\ s[key] = EmptySession \/ Stored(s[key])
  BY <1>1, PreparedSession DEF TypeInv
<1>3. held'[key] =
        IF answer'.weight > 0 THEN reading.at
        ELSE IF held[key] = 0 \/ PassageOver(key, key, reading) THEN 0
        ELSE IF answer'.error = "none" THEN reading.at ELSE held[key]
  BY DEF Observe
<1>4. s[key] = EmptySession /\ held[key] # 0 => PassageOver(key, key, reading)
  <2>1. held[key] # 0 => held[key] = sessions[key].lastSeen /\ key \in Live(sessions)
    BY DEF HeldInv, Remembers
  <2>2. key \in Live(sessions) => sessions[key] # EmptySession
    BY EmptyFields DEF TypeInv, Stored, Session, States
  <2> QED
    BY <1>2, <2>1, <2>2 DEF PassageOver
<1>5. s[key] # EmptySession => s[key] = sessions[key] /\ key \in Live(sessions) /\ Stored(s[key])
  BY <1>2
<1>6. CASE answer'.weight > 0
  <2>1. /\ Collect(s, key, reading)
        /\ s[key].state = "CANDIDATE"
        /\ sessions'[key].state = "FINALIZED"
        /\ sessions'[key].lastSeen = reading.at
    BY <1>6, WeightFromCandidate
  <2>2. key \in Live(sessions')
    BY <1>2, <2>1, CollectStores, NoSessionIsNone DEF Stored, Live
  <2>3. held[key] = 0
    BY <1>5, <2>1, EmptyFields DEF HeldInv, Remembers
  <2> QED
    BY <1>3, <1>6, <2>1, <2>2, <2>3 DEF Remembers
<1>7. CASE ~(answer'.weight > 0) /\ held'[key] # 0
  <2>1. /\ held[key] # 0 /\ ~PassageOver(key, key, reading)
        /\ held'[key] = IF answer'.error = "none" THEN reading.at ELSE held[key]
    BY <1>3, <1>7
  <2>2. s[key] = sessions[key] /\ key \in Live(sessions) /\ Stored(s[key]) /\ Remembers(key)
    BY <1>4, <1>5, <2>1 DEF HeldInv
  <2>3. CASE StillFailed(s, key, reading)
    <3>1. answer'.error # "none" /\ sessions'[key] = sessions[key]
      BY <2>2, <2>3 DEF StillFailed, Answer
    <3> QED
      BY <1>7, <2>1, <2>2, <3>1 DEF Remembers, Live
  <2>4. CASE OutOfOrder(s, key, reading)
    <3>1. answer'.error # "none" /\ sessions'[key] = [s[key] EXCEPT !.state = "FAILED"]
      BY <2>4 DEF OutOfOrder, Answer, Put
    <3>2. /\ sessions'[key].state = "FAILED" /\ sessions'[key].lastSeen = s[key].lastSeen
          /\ sessions'[key] \in Session
      BY <2>2, <3>1 DEF Stored, Session, States
    <3> QED
      BY <1>7, <2>1, <2>2, <3>1, <3>2, NoSessionIsNone DEF Remembers, Live
  <2>5. CASE Unload(s, key, reading)
    <3>1. answer'.error = "none" /\ reading.weight <= LowWeightThreshold
      BY <2>5 DEF Unload, Answer
    <3> QED
      BY <2>1, <3>1 DEF PassageOver
  <2>6. CASE IgnoreHeavy(s, key, reading)
    <3>1. /\ answer'.error = "none" /\ s[key].state = "FINALIZED"
          /\ sessions'[key] = [s[key] EXCEPT !.lastSeen = reading.at]
      BY <2>6 DEF IgnoreHeavy, Answer, Put
    <3>2. /\ sessions'[key].state = "FINALIZED" /\ sessions'[key].lastSeen = reading.at
          /\ sessions'[key] \in Session
      BY <1>1, <2>2, <3>1 DEF Stored, Session
    <3> QED
      BY <1>7, <2>1, <3>1, <3>2, NoSessionIsNone DEF Remembers, Live
  <2>7. CASE Collect(s, key, reading)
    BY <2>2, <2>7 DEF Collect, Remembers
  <2> QED
    BY <2>3, <2>4, <2>5, <2>6, <2>7
<1> QED
  BY <1>6, <1>7

\* What is remembered stays remembered until the passage is over.
LEMMA HeldIsInductive ==
    /\ Init => HeldInv
    /\ TypeInv /\ MemoryInv /\ HeldInv /\ [Next]_vars =>
           HeldInv' /\ (answer'.weight > 0 => held[answer'.key] = 0 \/ UNCHANGED vars)
<1> DEFINE Once == answer'.weight > 0 => held[answer'.key] = 0 \/ UNCHANGED vars
<1>1. Init => HeldInv
  BY DEF Init, HeldInv
<1>2. ASSUME TypeInv, MemoryInv, HeldInv, [Next]_vars
      PROVE  HeldInv' /\ Once
  <2>1. ASSUME NEW key \in Keys, NEW reading \in Readings, Accept(key, reading)
        PROVE  HeldInv' /\ Once
    <3>1. PICK s \in Prepared(key, reading.at) :
              \/ StillFailed(s, key, reading) \/ OutOfOrder(s, key, reading)
              \/ Unload(s, key, reading) \/ IgnoreHeavy(s, key, reading)
              \/ Collect(s, key, reading)
      BY <2>1 DEF Accept
    <3>2. reading.at \in Times /\ Observe(key, reading)
      BY <2>1 DEF Readings, Accept
    <3>3. /\ \A k \in Keys \ {key} : s[k] = sessions[k] \/ s[k] = NoSession
          /\ s = [k \in Keys |-> s[k]]
      BY <1>2, <3>2, PreparedSession DEF TypeInv
    <3>4. answer'.key = key /\ \A k \in Keys \ {key} : sessions'[k] = s[k]
      BY <3>1, <3>3, OutcomeOfAdd
    <3>5. /\ held'[key] # 0 => Remembers(key)'
          /\ answer'.weight > 0 => held[key] = 0
      BY <1>2, <3>1, <3>2, <3>4, OwnPassage
    <3>6. ASSUME NEW k \in Keys \ {key}, held'[k] # 0
          PROVE  Remembers(k)'
      <4>1. held'[k] = held[k] /\ held[k] # 0 /\ ~PassageOver(k, key, reading)
        BY <3>2, <3>6 DEF Observe
      <4>2. Remembers(k)
        BY <1>2, <4>1 DEF HeldInv
      <4>3. s[k] # NoSession
        <5> SUFFICES ASSUME s[k] = NoSession PROVE FALSE
          OBVIOUS
        <5>1. k \in Live(sessions) /\ k # key /\ sessions'[k] = NoSession
          BY <3>4, <3>6, <4>2 DEF Remembers
        <5>2. k \in PlateChanged(sessions, key) \/ Evictable(k, key)
          BY <1>2, <3>2, <5>1, DroppedForAnother DEF MemoryInv
        <5> QED
          BY <4>1, <5>1, <5>2 DEF PassageOver, PlateChanged, Evicted
      <4>4. sessions'[k] = sessions[k]
        BY <3>3, <3>4, <4>3
      <4> QED
        BY <4>1, <4>2, <4>4 DEF Remembers, Live
    <3> QED
      BY <3>4, <3>5, <3>6 DEF HeldInv
  <2>2. ASSUME NEW written \in DOMAIN Spelling, NEW reading \in Readings, Add(written, reading)
        PROVE  HeldInv' /\ Once
    <3>1. CASE Reject(Spelling[written], reading)
      BY <1>2, <3>1 DEF Reject, Answer, HeldInv, Remembers, Live
    <3>2. CASE Accept(Spelling[written], reading)
      BY <2>1, <3>2, StabilizerConfig DEF Accept
    <3> QED
      BY <2>2, <3>1, <3>2 DEF Add
  <2>3. ASSUME NEW now \in Times, Expire(now)
        PROVE  HeldInv' /\ Once
    <3>1. answer'.weight = 0
      BY <2>3 DEF Expire, Answer
    <3>2. ASSUME NEW k \in Keys, held'[k] # 0
          PROVE  Remembers(k)'
      <4>1. held'[k] = held[k] /\ held[k] # 0 /\ ~(now - held[k] > InactivityTimeout)
        BY <2>3, <3>2 DEF Expire
      <4>2. Remembers(k)
        BY <1>2, <4>1 DEF HeldInv
      <4>3. k \notin Idle(sessions, now)
        BY <4>1, <4>2 DEF Idle, Remembers
      <4>4. sessions'[k] = sessions[k]
        BY <2>3, <4>3 DEF Expire, Drop
      <4> QED
        BY <4>1, <4>2, <4>4 DEF Remembers, Live
    <3> QED
      BY <3>1, <3>2 DEF HeldInv
  <2>4. CASE UNCHANGED vars
    BY <1>2, <2>4 DEF vars, HeldInv, Remembers, Live
  <2> QED
    BY <1>2, <2>2, <2>3, <2>4 DEF Next
<1> QED
  BY <1>1, <1>2

\* A passage yields at most one weight: none follows until a light reading,
\* another plate or a silence releases it, or its session has been silent longest
\* in a full map and makes room (Finalization, makeRoom).
THEOREM OneWeightPerPassage == Spec => OnceUntilReleased
<1> DEFINE Once == answer'.weight > 0 => held[answer'.key] = 0
<1>1. Init => HeldInv
  BY HeldIsInductive
<1>2. TypeInv /\ MemoryInv /\ HeldInv /\ [Next]_vars => HeldInv' /\ [Once]_vars
  BY HeldIsInductive
<1> HIDE DEF Once
<1>3. Spec => [][Once]_vars
  BY <1>1, <1>2, TypeIsInductive, MemoryIsInductive, PTL DEF Spec
<1> QED
  BY <1>3 DEF OnceUntilReleased, Once

-----------------------------------------------------------------------------
(***************************************************************************)
(* WindowIsOnePassage.  While a session collects, its newest sample is the *)
(* reading it saw last, so the silence that Add measures is the gap to the *)
(* next sample.                                                            *)
(***************************************************************************)
Passage(w) ==
    \A i \in 1..Len(w)-1 : w[i].at < w[i+1].at /\ w[i+1].at - w[i].at <= InactivityTimeout

OnePassage(s) ==
    /\ Passage(s.window)
    /\ s.window # <<>> => s.window[Len(s.window)].at <= s.lastSeen
    /\ s.state \in {"COLLECTING", "CANDIDATE"} =>
           s.window # <<>> /\ s.window[Len(s.window)].at = s.lastSeen

PassageInv == \A k \in Live(sessions) : OnePassage(sessions[k])

\* A reading that follows the newest sample soon enough continues the passage.
LEMMA SlideContinues ==
    ASSUME NEW w \in Seq(Readings), Len(w) <= WindowCapacity, Passage(w),
           NEW reading \in Readings,
           w # <<>> => /\ w[Len(w)].at < reading.at
                       /\ reading.at - w[Len(w)].at <= InactivityTimeout
    PROVE  LET v == Slide(w, reading)
           IN  Passage(v) /\ v # <<>> /\ v[Len(v)] = reading
<1> DEFINE longer == Append(w, reading)
<1>1. /\ longer \in Seq(Readings) /\ longer # <<>> /\ Len(w) \in Nat /\ Len(longer) = Len(w) + 1
      /\ \A i \in 1..Len(w) : longer[i] = w[i]
      /\ longer[Len(w) + 1] = reading
  BY AppendProperties
<1>2. Slide(w, reading) = IF Len(longer) > WindowCapacity THEN Tail(longer) ELSE longer
  BY DEF Slide
<1> HIDE DEF longer
<1>3. WindowCapacity \in Nat /\ WindowCapacity >= 2
  BY WindowConfig
<1>4. Passage(longer)
  <2> SUFFICES ASSUME NEW i \in 1..Len(longer)-1
               PROVE  /\ longer[i].at < longer[i+1].at
                      /\ longer[i+1].at - longer[i].at <= InactivityTimeout
    BY DEF Passage
  <2>1. i \in 1..Len(w) /\ longer[i] = w[i]
    BY <1>1
  <2>2. CASE i = Len(w)
    BY <1>1, <2>1, <2>2
  <2>3. CASE i # Len(w)
    <3>1. i \in 1..Len(w)-1 /\ i + 1 \in 1..Len(w)
      BY <1>1, <2>1, <2>3
    <3>2. w[i].at < w[i+1].at /\ w[i+1].at - w[i].at <= InactivityTimeout
      BY <3>1 DEF Passage
    <3> QED
      BY <1>1, <2>1, <3>1, <3>2
  <2> QED
    BY <2>2, <2>3
<1>5. CASE ~(Len(longer) > WindowCapacity)
  BY <1>1, <1>2, <1>4, <1>5
<1>6. CASE Len(longer) > WindowCapacity
  <2> DEFINE v == Tail(longer)
  <2>1. /\ v \in Seq(Readings) /\ Len(v) = Len(w) /\ Len(w) >= 2
        /\ \A i \in 1..Len(w) : v[i] = longer[i+1]
    BY <1>1, <1>3, <1>6
  <2> HIDE DEF v
  <2>2. Passage(v)
    <3> SUFFICES ASSUME NEW i \in 1..Len(v)-1
                 PROVE  v[i].at < v[i+1].at /\ v[i+1].at - v[i].at <= InactivityTimeout
      BY DEF Passage
    <3>1. i + 1 \in 1..Len(longer)-1 /\ v[i] = longer[i+1] /\ v[i+1] = longer[(i+1)+1]
      BY <1>1, <2>1
    <3> QED
      BY <1>4, <3>1 DEF Passage
  <2>3. v # <<>> /\ v[Len(v)] = reading
    BY <1>1, <2>1
  <2> QED
    BY <1>2, <1>6, <2>2, <2>3 DEF v
<1> QED
  BY <1>5, <1>6

\* An outcome keeps or continues the passage of the session it looks up.
LEMMA OutcomeContinues ==
    ASSUME NEW key \in Keys, NEW reading \in Readings, NEW s,
           \/ s[key] = EmptySession
           \/ /\ Stored(s[key]) /\ OnePassage(s[key])
              /\ ~(reading.at - s[key].lastSeen > InactivityTimeout),
           \/ StillFailed(s, key, reading) \/ OutOfOrder(s, key, reading)
           \/ Unload(s, key, reading) \/ IgnoreHeavy(s, key, reading)
           \/ Collect(s, key, reading)
    PROVE  sessions'[key] = NoSession \/ OnePassage(sessions'[key])
<1>0. reading.at \in Nat /\ InactivityTimeout \in Nat
  BY StabilizerConfig DEF Readings, Times
<1>1. CASE StillFailed(s, key, reading)
  BY <1>1, EmptyFields DEF StillFailed
<1>2. CASE Unload(s, key, reading)
  BY <1>2 DEF Unload, Drop
<1>3. CASE OutOfOrder(s, key, reading)
  <2>1. Stored(s[key]) /\ OnePassage(s[key])
    BY <1>3, EmptyFields DEF OutOfOrder, InOrder
  <2>2. sessions'[key] = [s[key] EXCEPT !.state = "FAILED"]
    BY <1>3 DEF OutOfOrder, Put
  <2>3. /\ sessions'[key].state = "FAILED" /\ sessions'[key].window = s[key].window
        /\ sessions'[key].lastSeen = s[key].lastSeen
    BY <2>1, <2>2 DEF Stored, Session
  <2> QED
    BY <2>1, <2>3 DEF OnePassage
<1>4. CASE IgnoreHeavy(s, key, reading)
  <2>1. Stored(s[key]) /\ OnePassage(s[key]) /\ s[key].state = "FINALIZED"
    BY <1>4, EmptyFields DEF IgnoreHeavy
  <2>2. sessions'[key] = [s[key] EXCEPT !.lastSeen = reading.at]
    BY <1>4 DEF IgnoreHeavy, Put
  <2>3. /\ sessions'[key].state = "FINALIZED" /\ sessions'[key].window = s[key].window
        /\ sessions'[key].lastSeen = reading.at
    BY <2>1, <2>2 DEF Stored, Session
  <2>4. s[key].lastSeen \in Nat /\ s[key].lastSeen < reading.at
    BY <1>0, <1>4, <2>1 DEF IgnoreHeavy, InOrder, Stored, Session, Times
  <2>5. s[key].window # <<>> =>
            /\ s[key].window[Len(s[key].window)].at \in Nat
            /\ s[key].window[Len(s[key].window)].at <= s[key].lastSeen
    <3> SUFFICES ASSUME s[key].window # <<>>
                 PROVE  /\ s[key].window[Len(s[key].window)].at \in Nat
                        /\ s[key].window[Len(s[key].window)].at <= s[key].lastSeen
      OBVIOUS
    <3>1. s[key].window \in Seq(Readings)
      BY <2>1 DEF Stored, Session
    <3>2. s[key].window[Len(s[key].window)] \in Readings
      BY <3>1
    <3> QED
      BY <2>1, <3>2 DEF OnePassage, Readings, Times
  <2> QED
    BY <1>0, <2>1, <2>3, <2>4, <2>5 DEF OnePassage
<1>5. CASE Collect(s, key, reading)
  <2> DEFINE w == s[key].window
             window == Slide(w, reading)
             state == NextState(s[key].state, window)
  <2>1. sessions'[key] = [state |-> state, window |-> window, lastSeen |-> reading.at]
    BY <1>5 DEF Collect, Put
  <2>2. /\ w \in Seq(Readings) /\ Len(w) <= WindowCapacity /\ Passage(w)
        /\ w # <<>> => w[Len(w)].at < reading.at /\ reading.at - w[Len(w)].at <= InactivityTimeout
    <3>1. CASE s[key] = EmptySession
      <4>1. w = <<>> /\ Len(w) = 0
        BY <3>1, EmptyFields
      <4> QED
        BY <4>1, WindowConfig DEF Passage
    <3>2. CASE /\ Stored(s[key]) /\ OnePassage(s[key])
               /\ ~(reading.at - s[key].lastSeen > InactivityTimeout)
      <4>1. /\ s[key].state \in {"COLLECTING", "CANDIDATE"} /\ s[key].lastSeen \in Times
            /\ w \in Seq(Readings) /\ Len(w) <= WindowCapacity
        BY <1>5, <3>2 DEF Collect, Stored, Session, States
      <4>2. w # <<>> /\ w[Len(w)].at = s[key].lastSeen /\ Passage(w)
        BY <3>2, <4>1 DEF OnePassage
      <4>3. s[key].lastSeen < reading.at /\ s[key].lastSeen \in Nat
        BY <1>0, <1>5, <4>1 DEF Collect, InOrder, Times
      <4> QED
        BY <1>0, <3>2, <4>1, <4>2, <4>3
    <3> QED
      BY <3>1, <3>2
  <2> HIDE DEF w
  <2>3. Passage(window) /\ window # <<>> /\ window[Len(window)] = reading
    BY <2>2, SlideContinues
  <2> HIDE DEF window, state
  <2>4. /\ sessions'[key].window = window /\ sessions'[key].lastSeen = reading.at
        /\ window[Len(window)].at = reading.at /\ reading.at <= reading.at
    BY <1>0, <2>1, <2>3
  <2> QED
    BY <2>3, <2>4 DEF OnePassage
<1> QED
  BY <1>1, <1>2, <1>3, <1>4, <1>5

\* Every window stays one passage initially and in every step.
LEMMA PassageIsInductive ==
    /\ Init => PassageInv
    /\ TypeInv /\ PassageInv /\ [Next]_vars => PassageInv'
<1>1. Init => PassageInv
  BY DEF Init, PassageInv, Live
<1>2. ASSUME TypeInv, PassageInv, [Next]_vars
      PROVE  PassageInv'
  <2>1. ASSUME NEW key \in Keys, NEW reading \in Readings, Accept(key, reading)
        PROVE  PassageInv'
    <3>1. PICK s \in Prepared(key, reading.at) :
              \/ StillFailed(s, key, reading) \/ OutOfOrder(s, key, reading)
              \/ Unload(s, key, reading) \/ IgnoreHeavy(s, key, reading)
              \/ Collect(s, key, reading)
      BY <2>1 DEF Accept
    <3>2. reading.at \in Times
      BY DEF Readings
    <3>3. /\ \/ s[key] = EmptySession
             \/ s[key] = sessions[key] /\ key \in Live(sessions)
                    /\ ~(reading.at - sessions[key].lastSeen > InactivityTimeout)
          /\ \A k \in Keys \ {key} : s[k] = sessions[k] \/ s[k] = NoSession
          /\ s = [k \in Keys |-> s[k]]
      BY <1>2, <3>2, PreparedSession DEF TypeInv
    <3>4. \/ s[key] = EmptySession
          \/ /\ Stored(s[key]) /\ OnePassage(s[key])
             /\ ~(reading.at - s[key].lastSeen > InactivityTimeout)
      BY <1>2, <3>3 DEF TypeInv, PassageInv
    <3>5. \A k \in Keys \ {key} : sessions'[k] = s[k]
      BY <3>1, <3>3, OutcomeOfAdd
    <3>6. sessions'[key] = NoSession \/ OnePassage(sessions'[key])
      BY <3>1, <3>4, OutcomeContinues
    <3> QED
      BY <1>2, <3>3, <3>5, <3>6 DEF PassageInv, Live
  <2>2. ASSUME NEW written \in DOMAIN Spelling, NEW reading \in Readings, Add(written, reading)
        PROVE  PassageInv'
    <3>1. CASE Reject(Spelling[written], reading)
      BY <1>2, <3>1 DEF Reject, PassageInv, Live
    <3>2. CASE Accept(Spelling[written], reading)
      BY <2>1, <3>2, StabilizerConfig DEF Accept
    <3> QED
      BY <2>2, <3>1, <3>2 DEF Add
  <2>3. ASSUME NEW now \in Times, Expire(now)
        PROVE  PassageInv'
    <3>1. \A k \in Keys : sessions'[k] = NoSession \/ sessions'[k] = sessions[k]
      BY <2>3 DEF Expire, Drop
    <3> QED
      BY <1>2, <3>1 DEF PassageInv, Live
  <2>4. CASE UNCHANGED vars
    BY <1>2, <2>4 DEF vars, PassageInv, Live
  <2> QED
    BY <1>2, <2>2, <2>3, <2>4 DEF Next
<1> QED
  BY <1>1, <1>2

\* The readings a session decides on are one passage: their times ascend, with
\* no silence longer than the timeout between two of them, whatever jumps the
\* clocks of the devices make (Add's ordering check and abandonment).
THEOREM WindowsAreOnePassage == Spec => []WindowIsOnePassage
<1>1. PassageInv => WindowIsOnePassage
  BY DEF PassageInv, OnePassage, Passage, WindowIsOnePassage
<1> QED
  BY <1>1, TypeIsInductive, PassageIsInductive, PTL DEF Spec

-----------------------------------------------------------------------------
(***************************************************************************)
(* What a reading does to the sessions of other keys, and to a FAILED one. *)
(***************************************************************************)

\* What one reading does, for both properties.
LEMMA AcceptTouches ==
    ASSUME TypeInv, MemoryInv, NEW key \in Keys, NEW reading \in Readings, Accept(key, reading)
    PROVE  /\ answer'.key = key
           /\ \A k \in Live(sessions) : k # key /\ sessions'[k] # sessions[k] =>
                  /\ sessions'[k] = NoSession
                  /\ \/ k \in PlateChanged(sessions, key)
                     \/ /\ Evictable(k, key)
                        /\ \A other \in Live(sessions) :
                               other # k /\ other # key => sessions'[other] = sessions[other]
           /\ key \in Live(sessions) /\ sessions[key].state = "FAILED"
                  /\ sessions'[key] # sessions[key] =>
                  /\ Len(sessions'[key].window) = 1
                  /\ sessions'[key].lastSeen - sessions[key].lastSeen > InactivityTimeout
<1>1. PICK s \in Prepared(key, reading.at) :
          \/ StillFailed(s, key, reading) \/ OutOfOrder(s, key, reading)
          \/ Unload(s, key, reading) \/ IgnoreHeavy(s, key, reading)
          \/ Collect(s, key, reading)
  BY DEF Accept
<1>2. reading.at \in Times
  BY DEF Readings
<1>3. /\ \/ s[key] = EmptySession /\ (key \in Live(sessions) =>
                reading.at - sessions[key].lastSeen > InactivityTimeout)
         \/ s[key] = sessions[key] /\ key \in Live(sessions)
      /\ \A k \in Keys \ {key} : s[k] = sessions[k] \/ s[k] = NoSession
      /\ s = [k \in Keys |-> s[k]]
  BY <1>2, PreparedSession DEF TypeInv
<1>4. answer'.key = key /\ \A k \in Keys \ {key} : sessions'[k] = s[k]
  BY <1>1, <1>3, OutcomeOfAdd
<1>5. ASSUME NEW k \in Live(sessions), k # key, sessions'[k] # sessions[k]
      PROVE  /\ sessions'[k] = NoSession
             /\ \/ k \in PlateChanged(sessions, key)
                \/ /\ Evictable(k, key)
                   /\ \A other \in Live(sessions) :
                          other # k /\ other # key => sessions'[other] = sessions[other]
  <2>1. k \in Keys /\ s[k] = NoSession /\ sessions'[k] = NoSession
    BY <1>3, <1>4, <1>5 DEF Live
  <2>2. \/ k \in PlateChanged(sessions, key)
        \/ /\ Evictable(k, key)
           /\ \A other \in Live(sessions) : other # k => s[other] = sessions[other]
    BY <1>2, <1>5, <2>1, DroppedForAnother DEF MemoryInv
  <2> QED
    BY <1>4, <2>1, <2>2 DEF Live
<1>6. ASSUME key \in Live(sessions), sessions[key].state = "FAILED", sessions'[key] # sessions[key]
      PROVE  /\ Len(sessions'[key].window) = 1
             /\ sessions'[key].lastSeen - sessions[key].lastSeen > InactivityTimeout
  <2>1. CASE s[key] = sessions[key]
    BY <1>1, <1>6, <2>1 DEF StillFailed, OutOfOrder, Unload, IgnoreHeavy, Collect
  <2>2. CASE /\ s[key] = EmptySession
             /\ reading.at - sessions[key].lastSeen > InactivityTimeout
    <3>1. Collect(s, key, reading)
      BY <1>1, <2>2, EmptyFields
         DEF StillFailed, OutOfOrder, Unload, IgnoreHeavy, InOrder
    <3>2. /\ sessions'[key].lastSeen = reading.at
          /\ sessions'[key].window = Slide(<<>>, reading)
      BY <2>2, <3>1, EmptyFields DEF Collect, Put
    <3>3. Slide(<<>>, reading) = <<reading>>
      BY WindowConfig DEF Slide
    <3> QED
      BY <2>2, <3>2, <3>3
  <2> QED
    BY <1>3, <1>6, <2>1, <2>2
<1> QED
  BY <1>4, <1>5, <1>6

LEMMA Touches ==
    ASSUME TypeInv, MemoryInv, [Next]_vars
    PROVE  \/ UNCHANGED vars
           \/ /\ answer'.key = NoKey
              /\ \A k \in Live(sessions) : sessions'[k] = sessions[k] \/ sessions'[k] = NoSession
           \/ \E key \in Keys, reading \in Readings : Accept(key, reading)
<1>1. ASSUME NEW written \in DOMAIN Spelling, NEW reading \in Readings, Add(written, reading)
      PROVE  \/ answer'.key = NoKey /\ sessions' = sessions
             \/ \E key \in Keys, r \in Readings : Accept(key, r)
  <2>1. CASE Reject(Spelling[written], reading)
    BY <2>1 DEF Reject, Answer
  <2>2. CASE Accept(Spelling[written], reading)
    BY <2>2, StabilizerConfig DEF Accept
  <2> QED
    BY <1>1, <2>1, <2>2 DEF Add
<1>2. ASSUME NEW now \in Times, Expire(now)
      PROVE  /\ answer'.key = NoKey
             /\ \A k \in Live(sessions) : sessions'[k] = sessions[k] \/ sessions'[k] = NoSession
  BY <1>2 DEF Expire, Drop, Answer, Live
<1> QED
  BY <1>1, <1>2 DEF Next

\* After a failure of ordering a session is not silently reused: it is dropped, or
\* a reading after more than the timeout starts afresh in its place
\* (FailedSessionError, abandonment, makeRoom).
THEOREM FailedSessionsAreNotReused == Spec => FailedIsNotReused
<1> DEFINE Kept(k) ==
               LET key == answer'.key IN
               \/ /\ sessions'[k] = NoSession
                  /\ \/ key = NoKey
                     \/ key.scale = k.scale /\ key.plate # k.plate
                     \/ Evictable(k, key)
               \/ /\ key = k /\ Len(sessions'[k].window) = 1
                  /\ sessions'[k].lastSeen - sessions[k].lastSeen > InactivityTimeout
           A == \A k \in Live(sessions) :
                    sessions[k].state = "FAILED" /\ sessions'[k] # sessions[k] => Kept(k)
<1>1. ASSUME TypeInv, MemoryInv, [Next]_vars PROVE [A]_vars
  <2> SUFFICES ASSUME vars' # vars,
                      NEW k \in Live(sessions), sessions[k].state = "FAILED",
                      sessions'[k] # sessions[k]
               PROVE  Kept(k)
    OBVIOUS
  <2>1. ASSUME NEW key \in Keys, NEW reading \in Readings, Accept(key, reading)
        PROVE  Kept(k)
    <3>1. k \notin PlateChanged(sessions, key)
      BY DEF PlateChanged
    <3> QED
      BY <1>1, <2>1, <3>1, AcceptTouches
  <2>2. CASE answer'.key = NoKey /\ sessions'[k] = NoSession
    BY <2>2
  <2> QED
    BY <1>1, <2>1, <2>2, Touches
<1> HIDE DEF A
<1>2. Spec => [][A]_vars
  BY <1>1, TypeIsInductive, MemoryIsInductive, PTL DEF Spec
<1> QED
  BY <1>2 DEF FailedIsNotReused, A

\* A reading touches its own session only; beyond it, it drops weighed sessions
\* of its scale or, into a full map, the one session silent for longest
\* (releaseFinalizedForPlateChange, makeRoom).
THEOREM OtherSessionsAreLeftAlone == Spec => OthersAreLeftAlone
<1> DEFINE A == answer'.key # NoKey =>
           LET touched == {k \in Live(sessions) \ {answer'.key} : sessions'[k] # sessions[k]}
               Weighed(k) == k.scale = answer'.key.scale /\ sessions[k].state = "FINALIZED"
           IN  /\ \A k \in touched : sessions'[k] = NoSession
               /\ \/ \A k \in touched : Weighed(k)
                  \/ \E k \in touched : touched = {k} /\ Evictable(k, answer'.key)
<1>1. ASSUME TypeInv, MemoryInv, [Next]_vars PROVE [A]_vars
  <2>1. ASSUME NEW key \in Keys, NEW reading \in Readings, Accept(key, reading)
        PROVE  A
    <3> DEFINE touched == {k \in Live(sessions) \ {answer'.key} : sessions'[k] # sessions[k]}
    <3>1. answer'.key = key
      BY <1>1, <2>1, AcceptTouches
    <3>2. \A k \in touched :
              /\ k \in Live(sessions) /\ k # key
              /\ sessions'[k] = NoSession
              /\ \/ k \in PlateChanged(sessions, key)
                 \/ /\ Evictable(k, key)
                    /\ \A other \in Live(sessions) :
                           other # k /\ other # key => sessions'[other] = sessions[other]
      BY <1>1, <2>1, <3>1, AcceptTouches
    <3>3. CASE \A k \in touched : k \in PlateChanged(sessions, key)
      BY <3>1, <3>2, <3>3 DEF PlateChanged
    <3>4. ASSUME NEW k \in touched, k \notin PlateChanged(sessions, key)
          PROVE  A
      <4>1. /\ Evictable(k, key)
            /\ \A other \in Live(sessions) :
                   other # k /\ other # key => sessions'[other] = sessions[other]
        BY <3>2, <3>4
      <4>2. touched = {k}
        BY <3>1, <4>1
      <4> QED
        BY <3>1, <3>2, <4>1, <4>2
    <3> QED
      BY <3>3, <3>4
  <2> HIDE DEF A
  <2>2. answer'.key = NoKey => A
    BY DEF A
  <2> QED
    BY <1>1, <2>1, <2>2, Touches
<1> HIDE DEF A
<1>2. Spec => [][A]_vars
  BY <1>1, TypeIsInductive, MemoryIsInductive, PTL DEF Spec
<1> QED
  BY <1>2, PTL DEF OthersAreLeftAlone, A
=============================================================================
