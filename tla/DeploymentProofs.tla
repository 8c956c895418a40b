-------------------------- MODULE DeploymentProofs --------------------------
(***************************************************************************)
(* Proofs about Deployment, Migrations and Api for any number of runners,  *)
(* releases, files, requests, connections and faults.                      *)
(***************************************************************************)
EXTENDS Deployment, FiniteSetTheorems, TLAPS

-----------------------------------------------------------------------------
(* Migrations.                                                             *)

\* What a runner knows at its statement: the files before its own are in the
\* ledger, and from the objects on its file is not, for it is alone with it.
RunKnows(r) ==
    /\ runs[r].pc \in {"check", "exec", "record", "commit"} =>
           runs[r].file >= 1 /\ 1 .. runs[r].file - 1 \subseteq ledger
    /\ runs[r].pc \in {"exec", "record", "commit"} => runs[r].file <= Carries[r]
    /\ runs[r].pc \in {"record", "commit"} => runs[r].file \notin ledger
    /\ runs[r].pc = "done" => 1..Carries[r] \subseteq ledger

\* No two transactions create the objects of one file.
OneCreates == \A r, s \in Runners : \A f \in Nat : Creating(r, f) /\ Creating(s, f) => r = s

MInv == RunsOK /\ AppliedExactlyOnce /\ (\A r \in Runners : RunKnows(r)) /\ OneCreates

\* A step of a runner that leaves the database alone.
LEMMA OnlyRun ==
    ASSUME MInv, NEW r \in Runners, NEW local \in Run,
           runs' = [runs EXCEPT ![r] = local],
           table' \in {"absent", "present"}, ledger' = ledger, applied' = applied,
           runFaults' \in 0..MaxRunFaults,
           RunKnows(r)',
           local.pc \in {"record", "commit"} =>
               \A s \in Runners \ {r} : ~Creating(s, local.file)
    PROVE  MInv'
<1>1. RunsOK'
  BY DEF MInv, RunsOK
<1>2. AppliedExactlyOnce'
  BY DEF MInv, AppliedExactlyOnce
<1>3. /\ runs'[r] = local
      /\ \A s \in Runners \ {r} : runs'[s] = runs[s]
  BY DEF MInv, RunsOK
<1>4. ASSUME NEW s \in Runners PROVE RunKnows(s)'
  <2>1. CASE s = r
    BY <2>1
  <2>2. CASE s # r
    BY <1>3, <2>2 DEF MInv, RunKnows
  <2> QED
    BY <2>1, <2>2
<1>5. OneCreates'
  BY <1>3 DEF MInv, OneCreates, Creating
<1> QED
  BY <1>1, <1>2, <1>4, <1>5 DEF MInv

LEMMA MigrationsTypes ==
    /\ LastFile \in Nat /\ MaxRunFaults \in Nat
    /\ \A r \in Runners : Carries[r] \in Nat /\ Carries[r] <= LastFile
BY MigrationsConfig

LEMMA MigrationsInitially == MigrationsInit => MInv
BY MigrationsTypes
DEF MigrationsInit, MInv, RunsOK, Run, AppliedExactlyOnce, RunKnows, OneCreates, Creating, Files

\* The commit of a file: one more application and one more row of the ledger.
LEMMA CommitKeeps ==
    ASSUME MInv, NEW r \in Runners, CommitFile(r)
    PROVE  MInv'
<1> DEFINE f == runs[r].file
<1>1. /\ runs[r].pc = "commit" /\ runs[r] \in Run
      /\ f \in Nat /\ f >= 1 /\ f <= LastFile /\ f \notin ledger /\ 1..f-1 \subseteq ledger
  BY MigrationsTypes DEF MInv, RunsOK, RunKnows, CommitFile, Run
<1>2. f \in Files
  BY <1>1, MigrationsTypes DEF Files
<1>3. PICK local \in {[pc |-> "check", file |-> f + 1], [pc |-> "failed", file |-> 0]} :
          runs' = [runs EXCEPT ![r] = local]
  BY DEF CommitFile, Goto, Abort
<1>4. /\ ledger' = ledger \cup {f} /\ applied' = [applied EXCEPT ![f] = @ + 1]
      /\ table' = table /\ runFaults' \in 0..MaxRunFaults
  BY MigrationsTypes DEF CommitFile, ApplyFile, MInv, RunsOK
<1>5. local \in Run
  BY <1>1, <1>3 DEF Run
<1> HIDE DEF f
<1>6. RunsOK'
  BY <1>2, <1>3, <1>4, <1>5 DEF MInv, RunsOK
<1>7. AppliedExactlyOnce'
  <2>1. \A g \in Files : applied'[g] = IF g \in ledger' THEN 1 ELSE 0
    BY <1>1, <1>2, <1>4 DEF MInv, RunsOK, AppliedExactlyOnce
  <2>2. \A g \in ledger : 1..g \subseteq ledger'
    BY <1>4 DEF MInv, AppliedExactlyOnce
  <2>3. 1..f \subseteq ledger'
    BY <1>1, <1>4
  <2> QED
    BY <2>1, <2>2, <2>3, <1>4 DEF AppliedExactlyOnce
<1>8. /\ runs'[r] = local
      /\ \A s \in Runners \ {r} : runs'[s] = runs[s]
  BY <1>3 DEF MInv, RunsOK
<1>9. ASSUME NEW s \in Runners PROVE RunKnows(s)'
  <2>1. CASE s = r
    BY <2>1, <1>1, <1>3, <1>4, <1>8 DEF RunKnows
  <2>2. CASE s # r
    <3>1. runs[s].pc \in {"record", "commit"} => runs[s].file # f
      BY <1>1, <2>2 DEF MInv, OneCreates, Creating, f
    <3> QED
      BY <3>1, <1>4, <1>8, <2>2 DEF MInv, RunKnows
  <2> QED
    BY <2>1, <2>2
<1>10. OneCreates'
  BY <1>3, <1>8 DEF MInv, OneCreates, Creating
<1> QED
  BY <1>6, <1>7, <1>9, <1>10 DEF MInv

LEMMA MigrationsStep == MInv /\ MigrationsNext => MInv'
<1> SUFFICES ASSUME MInv, NEW r \in Runners, StartRun(r) \/ Statement(r) \/ LoseRun(r)
             PROVE  MInv'
  BY DEF MigrationsNext
<1>0. runs \in [Runners -> Run] /\ runs[r] \in Run /\ RunKnows(r)
  BY DEF MInv, RunsOK
<1>1. CASE StartRun(r)
  <2>1. runs' = [runs EXCEPT ![r] = [pc |-> "look", file |-> 0]]
    BY <1>1 DEF StartRun, Goto
  <2> QED
    BY <1>0, <1>1, <2>1, OnlyRun DEF StartRun, Run, RunKnows, MInv, RunsOK
<1>2. CASE LookForLedger(r)
  <2>1. PICK local \in {[pc |-> "check", file |-> 1], [pc |-> "create", file |-> 0]} :
            runs' = [runs EXCEPT ![r] = local]
    BY <1>2 DEF LookForLedger, Goto
  <2>2. local \in Run /\ RunKnows(r)'
    BY <1>0, <2>1 DEF Run, RunKnows
  <2> QED
    BY <1>2, <2>1, <2>2, OnlyRun DEF LookForLedger, MInv, RunsOK
<1>3. CASE CreateLedger(r)
  <2>1. PICK local \in {[pc |-> "check", file |-> 1], [pc |-> "failed", file |-> 0]} :
            runs' = [runs EXCEPT ![r] = local]
    BY <1>3 DEF CreateLedger, Goto, Abort
  <2>2. local \in Run /\ RunKnows(r)'
    BY <1>0, <2>1 DEF Run, RunKnows
  <2> QED
    BY <1>3, <2>1, <2>2, OnlyRun DEF CreateLedger, MInv, RunsOK
<1>4. CASE ReadLedger(r)
  <2>1. CASE runs[r].file > Carries[r]
    <3>1. runs' = [runs EXCEPT ![r] = [pc |-> "done", file |-> 0]]
      BY <1>4, <2>1, <1>0, MigrationsTypes DEF ReadLedger, Goto, Run
    <3>2. RunKnows(r)'
      BY <1>0, <1>4, <2>1, <3>1, MigrationsTypes DEF ReadLedger, RunKnows, Run
    <3> QED
      BY <1>0, <1>4, <3>1, <3>2, OnlyRun DEF ReadLedger, Run, MInv, RunsOK
  <2>2. CASE runs[r].file <= Carries[r] /\ runs[r].file \in ledger
    <3>1. runs' = [runs EXCEPT ![r] = [pc |-> "check", file |-> runs[r].file + 1]]
      BY <1>4, <2>2, <1>0, MigrationsTypes DEF ReadLedger, Goto, Run
    <3>2. RunKnows(r)'
      BY <1>0, <1>4, <2>2, <3>1 DEF ReadLedger, RunKnows, Run
    <3>3. [pc |-> "check", file |-> runs[r].file + 1] \in Run
      BY <1>0 DEF Run
    <3> QED
      BY <1>4, <3>1, <3>2, <3>3, OnlyRun DEF ReadLedger, MInv, RunsOK
  <2>3. CASE runs[r].file <= Carries[r] /\ runs[r].file \notin ledger
    <3>1. runs' = [runs EXCEPT ![r] = [pc |-> "exec", file |-> runs[r].file]]
      BY <1>4, <2>3, <1>0, MigrationsTypes DEF ReadLedger, Goto, Run
    <3>2. RunKnows(r)'
      BY <1>0, <1>4, <2>3, <3>1 DEF ReadLedger, RunKnows, Run
    <3>3. [pc |-> "exec", file |-> runs[r].file] \in Run
      BY <1>0 DEF Run
    <3> QED
      BY <1>4, <3>1, <3>2, <3>3, OnlyRun DEF ReadLedger, MInv, RunsOK
  <2> QED
    BY <1>4, <2>1, <2>2, <2>3 DEF ReadLedger
<1>5. CASE ExecFile(r)
  <2>1. CASE Exists(runs[r].file)
    <3>1. runs' = [runs EXCEPT ![r] = [pc |-> "failed", file |-> 0]]
      BY <1>5, <2>1 DEF ExecFile, Abort, Goto
    <3> QED
      BY <1>0, <1>5, <3>1, OnlyRun DEF ExecFile, Run, RunKnows, MInv, RunsOK
  <2>2. CASE ~Exists(runs[r].file)
    <3>1. runs' = [runs EXCEPT ![r] = [pc |-> "record", file |-> runs[r].file]]
      BY <1>5, <2>2 DEF ExecFile, Goto
    <3>2. runs[r].file \in Files
      BY <1>0, <1>5, MigrationsTypes DEF ExecFile, RunKnows, Run, Files
    <3>3. runs[r].file \notin ledger
      BY <2>2, <3>2 DEF Exists, MInv, AppliedExactlyOnce
    <3>4. [pc |-> "record", file |-> runs[r].file] \in Run /\ RunKnows(r)'
      BY <1>0, <1>5, <3>1, <3>3 DEF Run, RunKnows, ExecFile
    <3> QED
      BY <1>5, <3>1, <3>4, OnlyRun DEF ExecFile, MInv, RunsOK
  <2> QED
    BY <2>1, <2>2
<1>6. CASE RecordFile(r)
  <2>1. runs[r].file \notin ledger
    BY <1>0, <1>6 DEF RecordFile, RunKnows
  <2>2. runs' = [runs EXCEPT ![r] = [pc |-> "commit", file |-> runs[r].file]]
    BY <1>6, <2>1 DEF RecordFile, Goto
  <2>3. [pc |-> "commit", file |-> runs[r].file] \in Run /\ RunKnows(r)'
    BY <1>0, <1>6, <2>2 DEF Run, RunKnows, RecordFile
  <2>4. \A s \in Runners \ {r} : ~Creating(s, runs[r].file)
    BY <1>0, <1>6 DEF MInv, OneCreates, Creating, RecordFile, Run
  <2> QED
    BY <1>6, <2>2, <2>3, <2>4, OnlyRun DEF RecordFile, MInv, RunsOK
<1>7. CASE CommitFile(r)
  BY <1>7, CommitKeeps
<1>8. CASE LoseRun(r)
  <2>1. runs' = [runs EXCEPT ![r] = [pc |-> "failed", file |-> 0]]
    BY <1>8 DEF LoseRun, Abort, Goto
  <2>2. runFaults' \in 0..MaxRunFaults
    BY <1>8, MigrationsTypes DEF LoseRun, MInv, RunsOK
  <2> QED
    BY <1>0, <1>8, <2>1, <2>2, OnlyRun DEF LoseRun, Run, RunKnows, MInv, RunsOK
<1> QED
  BY <1>1, <1>2, <1>3, <1>4, <1>5, <1>6, <1>7, <1>8 DEF Statement

-----------------------------------------------------------------------------
(* The API: its type.                                                      *)

Cut == {"new", "answered", "cut"}

\* The type, with what a step of one request has to keep: a connection is held
\* by a request in front of its statements only, and nothing is in flight
\* before the listener opens.
AType ==
    /\ server \in Servers
    /\ route \in [Requests -> Routes] /\ route \in Mixes
    /\ phase \in [Requests -> Phases]
    /\ verdict \in [Requests -> Verdicts]
    /\ status \in [Requests -> {0, 200, 201, 202, 400, 401, 403, 404, 409, 422, 500, 503}]
    /\ held \subseteq Requests /\ Cardinality(held) <= Connections
    /\ \A q \in held : phase[q] = "query"
    /\ effects \subseteq Requests
    /\ accepted \in Nat /\ failed \in Nat /\ scraped \in 0..accepted
    /\ apiFaults \in 0..MaxApiFaults /\ recounted \in 0..apiFaults
    /\ server \in {"down", "connecting"} => \A q \in Requests : phase[q] \in Cut

LEMMA ATypeIsType == AType => ApiTypeOK
BY DEF AType, ApiTypeOK, InFlight, Cut

\* A subset of the held connections still fits into the pool.
LEMMA FewerAreHeld ==
    ASSUME AType, NEW S, S \subseteq held
    PROVE  Cardinality(S) <= Connections
<1>1. IsFiniteSet(held) /\ Cardinality(held) \in Nat /\ Connections \in Nat
  BY ApiConfig, FS_Subset, FS_CardinalityType DEF AType
<1>2. Cardinality(S) \in Nat /\ Cardinality(S) <= Cardinality(held)
  BY <1>1, FS_Subset, FS_CardinalityType
<1> QED
  BY <1>1, <1>2 DEF AType

LEMMA OneMoreIsHeld ==
    ASSUME AType, NEW q \in Requests, RoomInPool
    PROVE  Cardinality(held \cup {q}) <= Connections
<1>1. IsFiniteSet(held) /\ Cardinality(held) \in Nat /\ Connections \in Nat
  BY ApiConfig, FS_Subset, FS_CardinalityType DEF AType
<1>2. Cardinality(held \cup {q}) \in {Cardinality(held), Cardinality(held) + 1}
  BY <1>1, FS_AddElement
<1> QED
  BY <1>1, <1>2 DEF RoomInPool

\* Faults are counted up to their bound.
LEMMA FaultsAreBounded ==
    ASSUME AType, Faulty \/ NoFault
    PROVE  apiFaults' \in 0..MaxApiFaults /\ recounted \in 0..apiFaults'
BY ApiConfig DEF AType, Faulty, NoFault

\* A handler's step: one request moves, by itself.
Moves(q) ==
    /\ phase[q] \notin Cut \/ server = "serving"
    /\ phase' \in [Requests -> Phases] /\ \A p \in Requests \ {q} : phase'[p] = phase[p]
    /\ verdict' \in [Requests -> Verdicts] /\ \A p \in Requests \ {q} : verdict'[p] = verdict[p]
    /\ UNCHANGED <<server, route>>
    /\ effects' \in {effects, effects \cup {q}}

\* What it may do to the pool, the counters and the answers.
Keeps(q) ==
    /\ status' = status \/ status' = [status EXCEPT ![q] = StatusOf(route[q], verdict[q])]
    /\ held' \subseteq held \/ (held' = held \cup {q} /\ RoomInPool)
    /\ q \in held' => phase'[q] = "query"
    /\ accepted' \in Nat /\ failed' \in Nat /\ scraped' \in 0..accepted'
    /\ apiFaults' \in 0..MaxApiFaults /\ recounted' \in 0..apiFaults'

LEMMA MoveKeepsType ==
    ASSUME AType, NEW q \in Requests, Moves(q), Keeps(q)
    PROVE  AType'
<1>1. /\ server' \in Servers /\ route' \in [Requests -> Routes] /\ route' \in Mixes
      /\ phase' \in [Requests -> Phases] /\ verdict' \in [Requests -> Verdicts]
      /\ effects' \subseteq Requests
  BY DEF AType, Moves
<1>2. status' \in [Requests -> {0, 200, 201, 202, 400, 401, 403, 404, 409, 422, 500, 503}]
  <2>1. StatusOf(route[q], verdict[q]) \in {200, 201, 202, 400, 401, 403, 404, 409, 422, 500, 503}
    BY DEF StatusOf
  <2> QED
    BY <2>1 DEF AType, Keeps
<1>3. held' \subseteq Requests /\ Cardinality(held') <= Connections
  BY FewerAreHeld, OneMoreIsHeld DEF AType, Keeps
<1>4. \A p \in held' : phase'[p] = "query"
  BY DEF AType, Moves, Keeps
<1>5. server' \in {"down", "connecting"} => \A p \in Requests : phase'[p] \in Cut
  BY DEF AType, Moves
<1> QED
  BY <1>1, <1>2, <1>3, <1>4, <1>5 DEF AType, Keeps

-----------------------------------------------------------------------------
(* The API: what an answer tells.                                          *)

Unwritten == {"new", "decode", "token", "acquire", "query", "ping", "scrape"}
ClientErrors == {"malformed", "unauthorized", "forbidden", "validation", "notfound", "conflict"}

\* What the steps before phase[q] have established about request q.
RequestKnows(q) ==
    /\ phase[q] \in Unwritten => q \notin effects
    /\ phase[q] \in Unwritten \cup {"publish"} => verdict[q] = "ok"
    /\ phase[q] = "scrape" => route[q] = "metrics"
    /\ phase[q] = "ping" => route[q] = "ready"
    /\ verdict[q] \in ClientErrors => q \notin effects
    /\ phase[q] \in {"count", "answer", "answered"} /\ Writes(q) /\ verdict[q] = "ok"
           => q \in effects
    /\ IF phase[q] = "answered" THEN status[q] = StatusOf(route[q], verdict[q]) ELSE status[q] = 0

AInv == AType /\ \A q \in Requests : RequestKnows(q)

LEMMA AnswersTell == AInv => AnswerTellsEffect
<1> SUFFICES ASSUME AInv, NEW q \in Requests
             PROVE  /\ status[q] \in 200..299 /\ Writes(q) => q \in effects
                    /\ status[q] \in 400..499 => q \notin effects
  BY DEF AnswerTellsEffect
<1>1. verdict[q] \in Verdicts /\ RequestKnows(q)
  BY DEF AInv, AType
<1>2. StatusOf(route[q], verdict[q]) \in 200..299 => verdict[q] = "ok"
  BY <1>1 DEF StatusOf, Verdicts
<1>3. StatusOf(route[q], verdict[q]) \in 400..499 => verdict[q] \in ClientErrors
  BY <1>1 DEF StatusOf, Verdicts, ClientErrors
<1> QED
  BY <1>1, <1>2, <1>3 DEF RequestKnows

\* The other requests know what they knew.
LEMMA MoveKeepsKnown ==
    ASSUME AInv, NEW q \in Requests, Moves(q), Keeps(q), RequestKnows(q)'
    PROVE  AInv'
<1>1. AType'
  BY MoveKeepsType DEF AInv
<1>2. ASSUME NEW p \in Requests, p # q PROVE RequestKnows(p)'
  <2>1. /\ phase'[p] = phase[p] /\ verdict'[p] = verdict[p] /\ route'[p] = route[p]
        /\ status'[p] = status[p] /\ (p \in effects' <=> p \in effects)
    BY <1>2 DEF AInv, AType, Moves, Keeps
  <2>2. RequestKnows(p)
    BY DEF AInv
  <2> QED
    BY <2>1, <2>2 DEF RequestKnows, Writes, Changes
<1> QED
  BY <1>1, <1>2 DEF AInv

\* Every step of a handler keeps the invariant: it moves its own request only,
\* and knows afterwards what it has to.
LEMMA HandlerStep ==
    ASSUME AInv, NEW q \in Requests, Accept(q) \/ Handle(q)
    PROVE  AInv'
<1>1. /\ AType /\ RequestKnows(q)
      /\ phase[q] \in Phases /\ verdict[q] \in Verdicts /\ route[q] \in Routes
      /\ phase \in [Requests -> Phases] /\ verdict \in [Requests -> Verdicts]
  BY DEF AInv, AType
<1>2. Faulty \/ NoFault => apiFaults' \in 0..MaxApiFaults /\ recounted \in 0..apiFaults'
  BY <1>1, FaultsAreBounded
<1>3. accepted \in Nat /\ failed \in Nat /\ scraped \in 0..accepted
  BY <1>1 DEF AType
<1>4. CASE Accept(q)
  <2>1. Moves(q)
    BY <1>1, <1>4 DEF Accept, Proceed, Advance, Moves, Phases, Verdicts, Cut
  <2>2. Keeps(q)
    BY <1>1, <1>2, <1>3, <1>4 DEF Accept, Proceed, Advance, Keeps, AType, NoFault, counters
  <2>3. RequestKnows(q)'
    BY <1>1, <1>4 DEF Accept, Proceed, Advance, RequestKnows, AType, Routes, Writes, Changes, Unwritten, ClientErrors
  <2> QED
    BY <2>1, <2>2, <2>3, MoveKeepsKnown
<1>5. CASE Decode(q)
  <2>1. Moves(q)
    BY <1>1, <1>5 DEF Decode, Proceed, Conclude, Advance, Moves, Phases, Verdicts, Cut
  <2>2. Keeps(q)
    BY <1>1, <1>2, <1>3, <1>5 DEF Decode, Proceed, Conclude, Advance, Keeps, AType, NoFault, counters
  <2>3. RequestKnows(q)'
    BY <1>1, <1>5 DEF Decode, Proceed, Conclude, Advance, RequestKnows, AType, Routes, Writes, Changes, Unwritten, ClientErrors
  <2> QED
    BY <2>1, <2>2, <2>3, MoveKeepsKnown
<1>6. CASE Token(q)
  <2>1. Moves(q)
    BY <1>1, <1>6 DEF Token, Proceed, Conclude, Advance, Moves, Phases, Verdicts, Cut
  <2>2. Keeps(q)
    BY <1>1, <1>2, <1>3, <1>6 DEF Token, Proceed, Conclude, Advance, Keeps, AType, NoFault, counters
  <2>3. RequestKnows(q)'
    BY <1>1, <1>6 DEF Token, Proceed, Conclude, Advance, RequestKnows, AType, Routes, Writes, Changes, Unwritten, ClientErrors
  <2> QED
    BY <2>1, <2>2, <2>3, MoveKeepsKnown
<1>7. CASE Acquire(q)
  <2>1. Moves(q)
    BY <1>1, <1>7 DEF Acquire, Proceed, Conclude, Advance, Moves, Phases, Verdicts, Cut
  <2>2. Keeps(q)
    BY <1>1, <1>2, <1>3, <1>7 DEF Acquire, Proceed, Conclude, Advance, Keeps, AType, NoFault, counters
  <2>3. RequestKnows(q)'
    BY <1>1, <1>7 DEF Acquire, Proceed, Conclude, Advance, RequestKnows, AType, Routes, Writes, Changes, Unwritten, ClientErrors
  <2> QED
    BY <2>1, <2>2, <2>3, MoveKeepsKnown
<1>8. CASE ProbeTimesOut(q)
  <2>1. Moves(q)
    BY <1>1, <1>8 DEF ProbeTimesOut, Conclude, Advance, Moves, Phases, Verdicts, Cut
  <2>2. Keeps(q)
    BY <1>1, <1>2, <1>3, <1>8 DEF ProbeTimesOut, Conclude, Advance, Keeps, AType, NoFault, counters
  <2>3. RequestKnows(q)'
    BY <1>1, <1>8 DEF ProbeTimesOut, Conclude, Advance, RequestKnows, AType, Routes, Writes, Changes, Unwritten, ClientErrors
  <2> QED
    BY <2>1, <2>2, <2>3, MoveKeepsKnown
<1>9. CASE Query(q)
  <2>1. Moves(q)
    BY <1>1, <1>9 DEF Query, Proceed, Conclude, Advance, Refusals, Release, Moves, Phases, Verdicts, Cut
  <2>2. Keeps(q)
    BY <1>1, <1>2, <1>3, <1>9 DEF Query, Proceed, Conclude, Advance, Refusals, Release, Keeps, AType, NoFault, counters
  <2>3. RequestKnows(q)'
    BY <1>1, <1>9 DEF Query, Proceed, Conclude, Advance, Refusals, Release, RequestKnows, AType, Routes, Writes, Changes, Unwritten, ClientErrors
  <2> QED
    BY <2>1, <2>2, <2>3, MoveKeepsKnown
<1>10. CASE QueryFails(q)
  <2>1. Moves(q)
    BY <1>1, <1>10 DEF QueryFails, Conclude, Advance, Release, Moves, Phases, Verdicts, Cut
  <2>2. Keeps(q)
    BY <1>1, <1>2, <1>3, <1>10 DEF QueryFails, Conclude, Advance, Release, Keeps, AType, NoFault, counters
  <2>3. RequestKnows(q)'
    BY <1>1, <1>10 DEF QueryFails, Conclude, Advance, Release, RequestKnows, AType, Routes, Writes, Changes, Unwritten, ClientErrors
  <2> QED
    BY <2>1, <2>2, <2>3, MoveKeepsKnown
<1>11. CASE Publish(q)
  <2>1. Moves(q)
    BY <1>1, <1>11 DEF Publish, Conclude, Advance, Moves, Phases, Verdicts, Cut
  <2>2. Keeps(q)
    BY <1>1, <1>2, <1>3, <1>11 DEF Publish, Conclude, Advance, Keeps, AType, NoFault, counters
  <2>3. RequestKnows(q)'
    BY <1>1, <1>11 DEF Publish, Conclude, Advance, RequestKnows, AType, Routes, Writes, Changes, Unwritten, ClientErrors
  <2> QED
    BY <2>1, <2>2, <2>3, MoveKeepsKnown
<1>12. CASE Ping(q)
  <2>1. Moves(q)
    BY <1>1, <1>12 DEF Ping, Conclude, Advance, Moves, Phases, Verdicts, Cut
  <2>2. Keeps(q)
    BY <1>1, <1>2, <1>3, <1>12 DEF Ping, Conclude, Advance, Keeps, AType, NoFault, counters
  <2>3. RequestKnows(q)'
    BY <1>1, <1>12 DEF Ping, Conclude, Advance, RequestKnows, AType, Routes, Writes, Changes, Unwritten, ClientErrors
  <2> QED
    BY <2>1, <2>2, <2>3, MoveKeepsKnown
<1>13. CASE Scrape(q)
  <2>1. Moves(q)
    BY <1>1, <1>13 DEF Scrape, Moves, Phases, Verdicts, Cut
  <2>2. Keeps(q)
    BY <1>1, <1>2, <1>3, <1>13 DEF Scrape, Keeps, AType, NoFault, counters
  <2>3. RequestKnows(q)'
    BY <1>1, <1>13 DEF Scrape, RequestKnows, AType, Routes, Writes, Changes, Unwritten, ClientErrors
  <2> QED
    BY <2>1, <2>2, <2>3, MoveKeepsKnown
<1>14. CASE Count(q)
  <2>1. Moves(q)
    BY <1>1, <1>14 DEF Count, Increment, Moves, Phases, Verdicts, Cut
  <2>2. Keeps(q)
    BY <1>1, <1>2, <1>3, <1>14 DEF Count, Increment, Keeps, AType, NoFault, counters
  <2>3. RequestKnows(q)'
    BY <1>1, <1>14 DEF Count, Increment, RequestKnows, AType, Routes, Writes, Changes, Unwritten, ClientErrors
  <2> QED
    BY <2>1, <2>2, <2>3, MoveKeepsKnown
<1>15. CASE Answer(q)
  <2>1. Moves(q)
    BY <1>1, <1>15 DEF Answer, Moves, Phases, Verdicts, Cut
  <2>2. Keeps(q)
    BY <1>1, <1>2, <1>3, <1>15 DEF Answer, Keeps, AType, NoFault, counters
  <2>3. RequestKnows(q)'
    BY <1>1, <1>15 DEF Answer, RequestKnows, AType, Routes, Writes, Changes, Unwritten, ClientErrors
  <2> QED
    BY <2>1, <2>2, <2>3, MoveKeepsKnown
<1>16. CASE LoseAnswer(q)
  <2>1. Moves(q)
    BY <1>1, <1>16 DEF LoseAnswer, Moves, Phases, Verdicts, Cut
  <2>2. Keeps(q)
    BY <1>1, <1>2, <1>3, <1>16 DEF LoseAnswer, Keeps, AType, NoFault, counters
  <2>3. RequestKnows(q)'
    BY <1>1, <1>16 DEF LoseAnswer, RequestKnows, AType, Routes, Writes, Changes, Unwritten, ClientErrors
  <2> QED
    BY <2>1, <2>2, <2>3, MoveKeepsKnown
<1>17. CASE PublishAgain(q)
  <2>1. Moves(q)
    BY <1>1, <1>17 DEF PublishAgain, requestVars, Moves, Cut
  <2>2. Keeps(q)
    BY <1>1, <1>2, <1>3, <1>17 DEF PublishAgain, requestVars, Keeps, AType, counters
  <2>3. RequestKnows(q)'
    BY <1>1, <1>17 DEF PublishAgain, requestVars, RequestKnows, AType, Writes, Changes, Unwritten, ClientErrors
  <2> QED
    BY <2>1, <2>2, <2>3, MoveKeepsKnown
<1>18. CASE CountAgain(q)
  <2>1. Moves(q)
    BY <1>1, <1>18 DEF CountAgain, requestVars, Moves, Cut
  <2>2. recounted' \in 0..apiFaults'
    BY <1>18 DEF CountAgain, Faulty, AInv, AType
  <2>3. Keeps(q)
    BY <1>1, <1>2, <1>3, <1>18, <2>2 DEF CountAgain, Increment, requestVars, Keeps, AType
  <2>4. RequestKnows(q)'
    BY <1>1, <1>18 DEF CountAgain, requestVars, RequestKnows, Writes, Changes
  <2> QED
    BY <2>1, <2>3, <2>4, MoveKeepsKnown
<1> QED
  BY <1>4, <1>5, <1>6, <1>7, <1>8, <1>9, <1>10, <1>11, <1>12, <1>13, <1>14, <1>15, <1>16, <1>17, <1>18 DEF Handle

\* The steps of main leave every request alone ...
LEMMA MainStep ==
    ASSUME AInv, Boot \/ Connect \/ Terminate \/ CloseRedis \/ CloseDatabase
    PROVE  AInv'
<1>1. /\ server' \in Servers
      /\ server' \in {"down", "connecting"} => server \in {"down", "connecting"}
  BY DEF Boot, Connect, Terminate, CloseRedis, CloseDatabase, Servers
<1>2. UNCHANGED <<requestVars, effects, counters>>
  BY DEF Boot, Connect, Terminate, CloseRedis, CloseDatabase
<1>3. apiFaults' \in 0..MaxApiFaults /\ recounted \in 0..apiFaults'
  BY FaultsAreBounded DEF AInv, Boot, Connect, Terminate, CloseRedis, CloseDatabase, NoFault
<1>4. AType'
  BY <1>1, <1>2, <1>3 DEF AInv, AType, requestVars, counters
<1>5. ASSUME NEW q \in Requests PROVE RequestKnows(q)'
  BY <1>2 DEF AInv, RequestKnows, Writes, Changes, requestVars
<1> QED
  BY <1>4, <1>5 DEF AInv

\* ... but for its end, which cuts those in flight.
LEMMA EndOfMain ==
    ASSUME AInv, Exit \/ Kill
    PROVE  AInv'
<1>1. PICK late \in SUBSET {q \in Requests : phase[q] \in {"query", "publish"}} :
          effects' = effects \cup late
  <2>1. CASE Exit
    BY <2>1 DEF Exit
  <2>2. CASE Kill
    BY <2>2 DEF Kill, InFlight
  <2> QED
    BY <2>1, <2>2
<1>2. /\ server' = "down" /\ held' = {}
      /\ phase' = [q \in Requests |-> IF q \in InFlight THEN "cut" ELSE phase[q]]
      /\ UNCHANGED <<route, verdict, status, counters>>
  BY DEF Exit, Kill, CutRequests
<1>3. apiFaults' \in 0..MaxApiFaults /\ recounted \in 0..apiFaults'
  BY FaultsAreBounded DEF AInv, Exit, Kill, NoFault
<1>4. AType'
  <2>1. Cardinality(held') <= Connections
    BY <1>2, FewerAreHeld DEF AInv
  <2> QED
    BY <1>1, <1>2, <1>3, <2>1 DEF AInv, AType, InFlight, Cut, Servers, Phases, counters
<1>5. ASSUME NEW q \in Requests PROVE RequestKnows(q)'
  <2>1. phase'[q] = IF q \in InFlight THEN "cut" ELSE phase[q]
    BY <1>2
  <2>2. q \in effects' => q \in effects \/ (q \in InFlight /\ verdict[q] = "ok")
    BY <1>1 DEF AInv, RequestKnows, InFlight, Unwritten
  <2>3. RequestKnows(q) /\ phase[q] \in Phases /\ (q \in effects => q \in effects')
    BY <1>1 DEF AInv, AType
  <2> QED
    BY <1>2, <2>1, <2>2, <2>3
    DEF RequestKnows, Writes, Changes, InFlight, Unwritten, ClientErrors
<1> QED
  BY <1>4, <1>5 DEF AInv

LEMMA ApiInitially == ApiInit => AInv
<1> SUFFICES ASSUME ApiInit PROVE AInv
  OBVIOUS
<1>1. Cardinality(held) <= Connections
  BY FS_EmptySet, ApiConfig DEF ApiInit
<1>2. AType
  BY <1>1, ApiConfig DEF ApiInit, AType, Servers, Phases, Verdicts, Cut
<1>3. ASSUME NEW q \in Requests PROVE RequestKnows(q)
  BY DEF ApiInit, RequestKnows, Unwritten, ClientErrors
<1> QED
  BY <1>2, <1>3 DEF AInv

-----------------------------------------------------------------------------
(* The API: what its counters tell.                                        *)

Past == {"answer", "answered", "cut"}
Readings == {q \in Requests : route[q] = "reading"}
Counted == {q \in Readings : phase[q] \in Past}

\* Only readings are counted, and before the first fault a reading in the
\* stream is one whose handler knows it: no reply of Redis has been lost yet.
Tells(q) ==
    /\ phase[q] = "count" => route[q] = "reading"
    /\ apiFaults = 0 /\ route[q] = "reading" /\ q \in effects => verdict[q] = "ok"

Tally ==
    /\ accepted <= Cardinality(Counted \cap effects) + recounted
    /\ accepted + failed <= Cardinality(Counted) + recounted
    /\ apiFaults = 0 =>
           /\ accepted = Cardinality(Counted \cap effects)
           /\ failed = Cardinality(Counted \ effects)

\* Redis is open until the first stop, which counts as a fault.
CInv ==
    /\ \A q \in Requests : Tells(q)
    /\ apiFaults = 0 => server \in {"down", "connecting", "serving"}
    /\ Tally

LEMMA FinitelyMany ==
    ASSUME NEW S, S \subseteq Requests
    PROVE  IsFiniteSet(S) /\ Cardinality(S) \in Nat
BY ApiConfig, FS_Subset, FS_CardinalityType

LEMMA CountersTell == AInv /\ CInv => CountersTellReadings
<1> SUFFICES ASSUME AInv, CInv PROVE CountersTellReadings
  OBVIOUS
<1>1. Counted = {q \in {r \in Requests : route[r] = "reading"} : phase[q] \in Past}
  BY DEF Counted, Readings
<1>2. /\ Counted \cap effects \subseteq Readings \cap effects
      /\ Readings \cap effects \subseteq Requests /\ Counted \cap effects \subseteq Requests
  BY DEF Counted, Readings
<1>3. /\ Cardinality(Counted \cap effects) \in Nat
      /\ IsFiniteSet(Readings \cap effects) /\ Cardinality(Readings \cap effects) \in Nat
  BY <1>2, FinitelyMany
<1>4. Cardinality(Counted \cap effects) <= Cardinality(Readings \cap effects)
  BY <1>2, <1>3, FS_Subset
<1>5. accepted <= Cardinality(Readings \cap effects) + recounted
  BY <1>3, <1>4 DEF AInv, AType, CInv, Tally
<1> QED
  BY <1>1, <1>5 DEF CInv, Tally, Readings, Past, CountersTellReadings

\* A handler at Redis finds it open before the first fault.
LEMMA OpenBeforeFaults ==
    ASSUME AInv, CInv, apiFaults = 0, NEW q \in Requests, phase[q] \in {"publish", "count"}
    PROVE  RedisIsOpen
BY DEF AInv, AType, Cut, CInv, RedisIsOpen

\* A step of a handler that counts nothing.
Tallied(q) ==
    /\ UNCHANGED <<server, route, accepted, failed, recounted>>
    /\ \A p \in Requests \ {q} : phase'[p] = phase[p] /\ verdict'[p] = verdict[p]
    /\ effects' \in {effects, effects \cup {q}}
    /\ route[q] = "reading" => (phase'[q] \in Past <=> phase[q] \in Past)
    /\ phase[q] \in Past => effects' = effects
    /\ apiFaults' = 0 => apiFaults = 0
    /\ Tells(q)'

LEMMA TalliedKeeps ==
    ASSUME AInv, CInv, NEW q \in Requests, Tallied(q)
    PROVE  CInv'
<1>1. Counted' = Counted /\ Counted' \cap effects' = Counted \cap effects
      /\ Counted' \ effects' = Counted \ effects
  BY DEF Tallied, Counted, Readings
<1>2. Tally'
  BY <1>1 DEF Tallied, CInv, Tally
<1>3. ASSUME NEW p \in Requests PROVE Tells(p)'
  <2>1. CASE p = q
    BY <2>1 DEF Tallied
  <2>2. CASE p # q
    BY <2>2 DEF Tallied, CInv, Tells
  <2> QED
    BY <2>1, <2>2
<1> QED
  BY <1>2, <1>3 DEF Tallied, CInv

LEMMA HandlerTally ==
    ASSUME AInv, CInv, NEW q \in Requests, Accept(q) \/ Handle(q), ~Count(q), ~CountAgain(q)
    PROVE  CInv'
<1>1. /\ RequestKnows(q) /\ Tells(q)
      /\ phase[q] \in Phases /\ verdict[q] \in Verdicts /\ route[q] \in Routes
      /\ phase \in [Requests -> Phases] /\ verdict \in [Requests -> Verdicts]
      /\ apiFaults \in Nat
  BY DEF AInv, AType, CInv
<1> USE <1>1 DEF Tallied, Tells, RequestKnows, Past, Unwritten, Writes, Changes, counters
<1>2. CASE Accept(q)
  BY <1>2, TalliedKeeps DEF Accept, Proceed, Advance, Routes
<1>3. CASE Decode(q)
  BY <1>3, TalliedKeeps DEF Decode, Proceed, Conclude, Advance
<1>4. CASE Token(q)
  BY <1>4, TalliedKeeps DEF Token, Proceed, Conclude, Advance
<1>5. CASE Acquire(q)
  BY <1>5, TalliedKeeps DEF Acquire, Proceed, Conclude, Advance
<1>6. CASE ProbeTimesOut(q)
  BY <1>6, TalliedKeeps DEF ProbeTimesOut, Conclude, Advance
<1>7. CASE Query(q)
  BY <1>7, TalliedKeeps DEF Query, Proceed, Conclude, Advance, NoFault
<1>8. CASE QueryFails(q)
  BY <1>8, TalliedKeeps DEF QueryFails, Conclude, Advance, Faulty
<1>9. CASE Publish(q)
  <2>1. Tallied(q)
    BY <1>9, OpenBeforeFaults DEF Publish, Conclude, Advance, Faulty, NoFault
  <2> QED
    BY <2>1, TalliedKeeps
<1>10. CASE Ping(q)
  BY <1>10, TalliedKeeps DEF Ping, Conclude, Advance, Faulty, NoFault
<1>11. CASE Scrape(q)
  BY <1>11, TalliedKeeps DEF Scrape, Faulty, NoFault
<1>12. CASE Answer(q)
  BY <1>12, TalliedKeeps DEF Answer
<1>13. CASE LoseAnswer(q)
  BY <1>13, TalliedKeeps DEF LoseAnswer, Faulty
<1>14. CASE PublishAgain(q)
  BY <1>14, TalliedKeeps DEF PublishAgain, requestVars, Faulty
<1> QED
  BY <1>2, <1>3, <1>4, <1>5, <1>6, <1>7, <1>8, <1>9, <1>10, <1>11, <1>12, <1>13, <1>14 DEF Handle

\* A reading is counted when its handler is done with it, as what became of it.
LEMMA CountTally ==
    ASSUME AInv, CInv, NEW q \in Requests, Count(q)
    PROVE  CInv'
<1>1. /\ phase[q] = "count" /\ route[q] = "reading" /\ RequestKnows(q) /\ Tells(q)
      /\ phase \in [Requests -> Phases] /\ effects \subseteq Requests
      /\ accepted \in Nat /\ failed \in Nat /\ apiFaults \in Nat
      /\ recounted \in Nat /\ recounted' = recounted
  BY DEF AInv, AType, CInv, Count, Tells
<1>2. /\ phase' = [phase EXCEPT ![q] = "answer"]
      /\ UNCHANGED <<server, route, verdict, effects>>
  BY DEF Count
<1>3. Counted' = Counted \cup {q} /\ q \notin Counted
  BY <1>1, <1>2 DEF Counted, Readings, Past
<1>4. /\ IsFiniteSet(Counted) /\ IsFiniteSet(Counted \cap effects) /\ IsFiniteSet(Counted \ effects)
      /\ Cardinality(Counted) \in Nat /\ Cardinality(Counted \cap effects) \in Nat
      /\ Cardinality(Counted \ effects) \in Nat
  BY FinitelyMany, Counted \subseteq Requests DEF Counted, Readings
<1>5. Cardinality(Counted') = Cardinality(Counted) + 1
  BY <1>3, <1>4, FS_AddElement
<1>6. IF q \in effects
      THEN /\ Cardinality((Counted \cap effects)') = Cardinality(Counted \cap effects) + 1
           /\ Cardinality((Counted \ effects)') = Cardinality(Counted \ effects)
      ELSE /\ Cardinality((Counted \cap effects)') = Cardinality(Counted \cap effects)
           /\ Cardinality((Counted \ effects)') = Cardinality(Counted \ effects) + 1
  <2>1. CASE q \in effects
    <3>1. (Counted \cap effects)' = (Counted \cap effects) \cup {q} /\ (Counted \ effects)' = Counted \ effects
      BY <1>2, <1>3, <2>1
    <3> QED
      BY <1>3, <1>4, <2>1, <3>1, FS_AddElement
  <2>2. CASE q \notin effects
    <3>1. (Counted \cap effects)' = Counted \cap effects /\ (Counted \ effects)' = (Counted \ effects) \cup {q}
      BY <1>2, <1>3, <2>2
    <3> QED
      BY <1>3, <1>4, <2>2, <3>1, FS_AddElement
  <2> QED
    BY <2>1, <2>2
<1>7. verdict[q] = "ok" => q \in effects
  BY <1>1 DEF RequestKnows, Writes
<1>8. /\ Increment(q) \/ UNCHANGED <<accepted, failed>>
      /\ apiFaults' = 0 => apiFaults = 0 /\ Increment(q)
  BY <1>1, OpenBeforeFaults DEF Count, Faulty, NoFault
<1>9. Tally'
  <2>1. CASE Increment(q)
    BY <1>1, <1>4, <1>5, <1>6, <1>7, <1>8, <2>1 DEF Increment, CountsAsAccepted, CInv, Tally, Tells
  <2>2. CASE UNCHANGED <<accepted, failed>> /\ apiFaults' # 0
    BY <1>1, <1>4, <1>5, <1>6, <2>2 DEF CInv, Tally
  <2> QED
    BY <1>8, <2>1, <2>2
<1>10. ASSUME NEW p \in Requests PROVE Tells(p)'
  BY <1>1, <1>2, <1>8 DEF CInv, Tells
<1> QED
  BY <1>2, <1>8, <1>9, <1>10 DEF CInv

\* An increment that is sent again is one more than there are readings.
LEMMA CountAgainTally ==
    ASSUME AInv, CInv, NEW q \in Requests, CountAgain(q)
    PROVE  CInv'
<1>1. /\ phase[q] = "count" /\ route[q] = "reading" /\ RequestKnows(q)
      /\ accepted \in Nat /\ failed \in Nat /\ recounted \in Nat
      /\ recounted' = recounted + 1 /\ apiFaults' # 0
  BY DEF AInv, AType, CInv, CountAgain, Tells, Faulty
<1>2. UNCHANGED <<server, route, phase, verdict, effects>>
  BY DEF CountAgain, requestVars
<1>3. Counted' = Counted /\ (Counted \cap effects)' = Counted \cap effects
  BY <1>2 DEF Counted, Readings
<1>4. Cardinality(Counted) \in Nat /\ Cardinality(Counted \cap effects) \in Nat
  BY FinitelyMany, Counted \subseteq Requests DEF Counted, Readings
<1>5. /\ accepted' + failed' = accepted + failed + 1
      /\ accepted' \in {accepted, accepted + 1}
  BY <1>1 DEF CountAgain, Increment
<1>6. /\ accepted <= Cardinality(Counted \cap effects) + recounted
      /\ accepted + failed <= Cardinality(Counted) + recounted
  BY DEF CInv, Tally
<1>7. Tally'
  BY <1>1, <1>3, <1>4, <1>5, <1>6 DEF Tally
<1>8. \A p \in Requests : Tells(p)'
  BY <1>1, <1>2 DEF CInv, Tells
<1> QED
  BY <1>1, <1>7, <1>8 DEF CInv

\* The steps of main before its end count nothing.
LEMMA MainTally ==
    ASSUME AInv, CInv, Boot \/ Connect \/ Terminate \/ CloseRedis \/ CloseDatabase
    PROVE  CInv'
<1>1. /\ UNCHANGED <<requestVars, effects, counters>>
      /\ apiFaults \in Nat
      /\ apiFaults' = 0 => apiFaults = 0 /\ server' \in {"down", "connecting", "serving"}
  BY DEF Boot, Connect, Terminate, CloseRedis, CloseDatabase, Faulty, NoFault, CInv, AInv, AType
<1>2. \A q \in Requests : Tells(q)'
  BY <1>1 DEF CInv, Tells, requestVars
<1> QED
  BY <1>1, <1>2 DEF CInv, Tally, Counted, Readings, requestVars, counters

\* The end of main cuts readings that were not counted, after a fault.
LEMMA EndTally ==
    ASSUME AInv, CInv, Exit \/ Kill
    PROVE  CInv'
<1>1. /\ phase' = [q \in Requests |-> IF q \in InFlight THEN "cut" ELSE phase[q]]
      /\ UNCHANGED <<route, verdict, status, counters>>
      /\ effects \subseteq effects' /\ effects' \subseteq Requests
  BY DEF Exit, Kill, CutRequests, InFlight, AInv, AType
<1>2. apiFaults' # 0
  BY DEF Exit, Kill, Faulty, NoFault, CInv, AInv, AType
<1>3. Counted \subseteq Counted' /\ Counted \cap effects \subseteq Counted' \cap effects'
      /\ Counted' \subseteq Requests
  BY <1>1 DEF Counted, Readings, Past
<1>4. /\ Cardinality(Counted) <= Cardinality(Counted')
      /\ Cardinality(Counted \cap effects) <= Cardinality((Counted \cap effects)')
      /\ Cardinality(Counted) \in Nat /\ Cardinality(Counted \cap effects) \in Nat
      /\ Cardinality(Counted') \in Nat /\ Cardinality((Counted \cap effects)') \in Nat
  <2>1. /\ IsFiniteSet(Counted') /\ IsFiniteSet(Counted' \cap effects')
        /\ IsFiniteSet(Counted) /\ IsFiniteSet(Counted \cap effects)
    BY <1>1, <1>3, FinitelyMany
  <2> QED
    BY <1>3, <2>1, FS_Subset, FS_CardinalityType
<1>5. Tally'
  BY <1>1, <1>2, <1>4 DEF CInv, Tally, counters, AInv, AType
<1>6. \A q \in Requests : Tells(q)'
  BY <1>1, <1>2 DEF CInv, Tells
<1> QED
  BY <1>2, <1>5, <1>6 DEF CInv

LEMMA TallyInitially == ApiInit => CInv
<1> SUFFICES ASSUME ApiInit PROVE CInv
  OBVIOUS
<1>1. Counted = {} /\ Cardinality({}) = 0
  BY FS_EmptySet DEF ApiInit, Counted, Readings, Past
<1>2. Tally
  <2>1. Counted \cap effects = {} /\ Counted \ effects = {}
    BY <1>1
  <2> QED
    BY <1>1, <2>1 DEF ApiInit, Tally
<1>3. \A q \in Requests : Tells(q)
  BY DEF ApiInit, Tells
<1> QED
  BY <1>2, <1>3 DEF ApiInit, CInv

-----------------------------------------------------------------------------
(* The deployment.                                                         *)

\* The API is up only if the files of its release are in the ledger.
Whole == server # "down" => 1..Carries[Migrate] \subseteq ledger

DInv == MInv /\ AInv /\ Whole

LEMMA DeploymentInitially == Init => DInv
BY MigrationsInitially, ApiInitially DEF Init, DInv, Whole, ApiInit

\* No step of a runner takes a file out of the ledger.
LEMMA LedgerGrows == MInv /\ MigrationsNext => ledger \subseteq ledger'
BY DEF MigrationsNext, Statement, StartRun, LoseRun, LookForLedger, CreateLedger, ReadLedger,
       ExecFile, RecordFile, CommitFile, ApplyFile

LEMMA DeploymentStep == DInv /\ [Next]_vars => DInv'
<1> SUFFICES ASSUME DInv, [Next]_vars PROVE DInv'
  OBVIOUS
<1>1. CASE MigrationStep
  <2>1. MInv' /\ ledger \subseteq ledger'
    BY <1>1, MigrationsStep, LedgerGrows DEF MigrationStep, DInv
  <2>2. AInv'
    BY <1>1 DEF MigrationStep, DInv, AInv, AType, RequestKnows, Writes, Changes,
                apiVars, requestVars, counters
  <2> QED
    BY <1>1, <2>1, <2>2 DEF MigrationStep, DInv, Whole, apiVars
<1>2. CASE BootStep
  <2>1. MInv'
    BY <1>2 DEF BootStep, DInv, MInv, RunsOK, AppliedExactlyOnce, RunKnows, OneCreates,
                Creating, migrationVars
  <2>2. AInv'
    BY <1>2, MainStep DEF BootStep, DInv
  <2>3. 1..Carries[Migrate] \subseteq ledger
    BY <1>2, DeploymentConfig DEF BootStep, Migrated, DInv, MInv, RunKnows
  <2> QED
    BY <1>2, <2>1, <2>2, <2>3 DEF BootStep, DInv, Whole, migrationVars
<1>3. CASE ApiStep
  <2>1. MInv'
    BY <1>3 DEF ApiStep, DInv, MInv, RunsOK, AppliedExactlyOnce, RunKnows, OneCreates,
                Creating, migrationVars
  <2>2. AInv'
    BY <1>3, MainStep, EndOfMain, HandlerStep DEF ApiStep, Stop, DInv
  <2>3. server' # "down" => server # "down"
    BY <1>3 DEF ApiStep, Connect, Terminate, Stop, CloseRedis, CloseDatabase, Exit, Kill,
                CutRequests, DInv, AInv, AType, Cut, Accept, Proceed, Advance, Handle, Decode,
                Token, Acquire, ProbeTimesOut, Query, QueryFails, Publish, PublishAgain, Ping, Scrape,
                Count, CountAgain, Answer, LoseAnswer, Conclude
  <2> QED
    BY <1>3, <2>1, <2>2, <2>3 DEF ApiStep, DInv, Whole, migrationVars
<1>4. CASE UNCHANGED vars
  BY <1>4 DEF vars, migrationVars, apiVars, requestVars, counters, DInv, Whole,
              MInv, RunsOK, AppliedExactlyOnce, RunKnows, OneCreates, Creating,
              AInv, AType, RequestKnows, Writes, Changes
<1> QED
  BY <1>1, <1>2, <1>3, <1>4 DEF Next

LEMMA DeploymentInvariant == Spec => []DInv
BY DeploymentInitially, DeploymentStep, PTL DEF Spec

\* Runners, requests, the process and the pool keep their types (Apply, main,
\* the handlers of httpapi).
THEOREM TypeCorrect == Spec => []TypeOK
<1>1. DInv => TypeOK
  BY ATypeIsType DEF DInv, MInv, AInv, TypeOK
<1> QED
  BY <1>1, DeploymentInvariant, PTL

\* Any number of runners of any releases, failing or killed at any statement,
\* apply each migration once and in the order of the names (Apply).
THEOREM MigrationsAppliedOnce == Spec => []AppliedExactlyOnce
<1>1. DInv => AppliedExactlyOnce
  BY DEF DInv, MInv
<1> QED
  BY <1>1, DeploymentInvariant, PTL

\* The API runs only on the whole schema of its release (depends_on).
THEOREM NeverOnPartOfSchema == Spec => []ServesOnWholeSchema
<1>1. DInv => ServesOnWholeSchema
  BY MigrationsTypes, DeploymentConfig
  DEF DInv, Whole, MInv, RunsOK, AppliedExactlyOnce, ServesOnWholeSchema, Files
<1> QED
  BY <1>1, DeploymentInvariant, PTL

\* A 2xx answer to a request that writes means that it took effect, a 4xx
\* answer that it did not (scaleReadings, respond, and main at its end).
THEOREM AnswersAreTrue == Spec => []AnswerTellsEffect
<1>1. DInv => AnswerTellsEffect
  BY AnswersTell DEF DInv
<1> QED
  BY <1>1, DeploymentInvariant, PTL

LEMMA TallyStep == DInv /\ CInv /\ [Next]_vars => CInv'
<1> SUFFICES ASSUME DInv, CInv, [Next]_vars PROVE CInv'
  OBVIOUS
<1>1. CASE BootStep \/ ApiStep
  BY <1>1, HandlerTally, CountTally, CountAgainTally, MainTally, EndTally DEF BootStep, ApiStep, Stop, DInv
<1>2. CASE UNCHANGED apiVars
  BY <1>2 DEF apiVars, requestVars, counters, CInv, Tells, Tally, Counted, Readings
<1> QED
  BY <1>1, <1>2 DEF Next, MigrationStep, vars

\* A counted acceptance is a reading in the stream and each reading is counted
\* once, but for one count more with each increment that the client of Redis
\* sent again, whatever failed, was stopped or killed; before the first fault
\* the two counters are exact (incrementMetric, RedisCounters.Inc).
THEOREM CountersAreTrue == Spec => []CountersTellReadings
<1>1. Init => CInv
  BY TallyInitially DEF Init
<1> QED
  BY <1>1, TallyStep, DeploymentInvariant, CountersTell, PTL DEF Spec, DInv
=============================================================================
