---------------------------- MODULE StreamWorker ----------------------------
(***************************************************************************)
(* Package worker: several worker processes read the Redis Stream          *)
(* scale-readings through one consumer group.  Redis hands out entries     *)
(* that were never delivered, keeps delivered ones in the pending list     *)
(* until XACK, and lets any consumer claim those that have been idle.      *)
(* Every Redis or PostgreSQL call of a worker is one step, and any call    *)
(* may fail before or after it took effect.  The go-redis clients have     *)
(* their default retries: a call whose reply is lost may be sent again.    *)
(*                                                                         *)
(* The Processor is the one its interface asks for, idempotent by event    *)
(* and durable once it returns nil (PostgresLedger).                       *)
(***************************************************************************)
EXTENDS Integers, Sequences, FiniteSets

CONSTANTS
    Workers,
    MaxEntries,    \* bound on the entries of the stream
    Malformed,     \* entries that parseEvent refuses
    Rejected,      \* entries the Processor refuses with a PermanentError
    Poison,        \* entries on which the Processor fails transiently, over and over
    BatchSize, RetryLimit,
    MaxFailures    \* bound on lost calls, lost replies and crashes

\* Stream entries, numbered in stream order.
Entries == 1..MaxEntries

ASSUME WorkerConfig ==
    /\ IsFiniteSet(Workers)
    /\ MaxEntries \in Nat
    /\ Malformed \subseteq Entries /\ Rejected \subseteq Entries /\ Poison \subseteq Entries
    /\ BatchSize \in Nat \ {0} /\ RetryLimit \in Nat \ {0}
    /\ MaxFailures \in Nat

VARIABLES
    added,      \* last entry appended to the stream
    group,      \* the consumer group: absent or present
    delivered,  \* last entry delivered to the group
    pel,        \* pending entries list of the group
    waiting,    \* batches read or claimed less than PendingIdleTimeout ago, oldest first
    idle,       \* pending entries idle longer than that
    attempts,   \* retry keys, 0 where there is none
    ledger,     \* entries with a row in processed_scale_events
    dlq,        \* number of copies of an entry in scale-readings-dlq
    ws,         \* the workers
    failures,   \* calls that have failed so far
    handed,     \* history: entries that were handed to the Processor
    tries       \* history: transient failures that left an entry pending

redis == <<added, group, delivered, pel, waiting, idle, attempts, dlq>>
history == <<handed, tries>>
vars == <<redis, ledger, ws, failures, history>>

\* The worker is about to do the call named pc; batch holds the messages that
\* processMessages has not finished, and phase the call of Run it is in.  It
\* has no message when it rests.
Resting == {"stopped", "ensure", "recover", "read"}

Worker == [pc : Resting \cup {"count", "expire", "process", "bury", "ack", "forget"},
           phase : {"recover", "read"}, batch : SUBSET Entries,
           attempt : Nat, claimFrom : Entries \cup {0}]

Started == [pc |-> "ensure", phase |-> "recover", batch |-> {}, attempt |-> 0, claimFrom |-> 0]

Stopped == [Started EXCEPT !.pc = "stopped"]

Init ==
    /\ added = 0 /\ group = "absent" /\ delivered = 0
    /\ pel = {} /\ waiting = <<>> /\ idle = {} /\ ledger = {}
    /\ attempts = [e \in Entries |-> 0]
    /\ dlq = [e \in Entries |-> 0]
    /\ ws = [w \in Workers |-> Started]
    /\ failures = 0
    /\ handed = {} /\ tries = [e \in Entries |-> 0]

-----------------------------------------------------------------------------
(* Redis and the world.                                                    *)

\* The API appends a reading (XADD).
Publish ==
    /\ added + 1 \in Entries
    /\ added' = added + 1
    /\ UNCHANGED <<group, delivered, pel, waiting, idle, attempts, dlq, ledger, ws, failures, history>>

\* The entries of one XREADGROUP or XAUTOCLAIM have one delivery time.
Deliver(batch) == waiting' = IF batch = {} THEN waiting ELSE Append(waiting, batch)

\* The oldest batch is older than PendingIdleTimeout, what is left of it idle.
Age ==
    /\ waiting # <<>>
    /\ waiting' = Tail(waiting)
    /\ idle' = idle \cup (Head(waiting) \cap pel)
    /\ UNCHANGED <<added, group, delivered, pel, attempts, dlq, ledger, ws, failures, history>>

First(S) == CHOOSE e \in S : \A d \in S : e <= d
FirstOf(S, n) == {e \in S : Cardinality({d \in S : d <= e}) <= n}

-----------------------------------------------------------------------------
(* How a call ends.                                                        *)

\* Every error ends the batch, and Run pauses and recovers next; an error of
\* Ensure ends Run, and the process.
Paused(w) ==
    [ws[w] EXCEPT !.pc = IF @ = "ensure" THEN "stopped" ELSE "recover",
                  !.phase = "recover", !.batch = {}, !.attempt = 0]

Continue(w, local) ==
    /\ ws' = [ws EXCEPT ![w] = local]
    /\ UNCHANGED failures

\* The call took effect: its reply arrives, or is lost.  Then the client sends
\* the call again, or gives up.
Ends(w, local) ==
    \/ Continue(w, local)
    \/ /\ failures < MaxFailures
       /\ failures' = failures + 1
       /\ UNCHANGED ws \/ ws' = [ws EXCEPT ![w] = Paused(w)]

\* The call fails without effect, or the context is cancelled before it.
Break(w) ==
    /\ ws[w].pc # "stopped"
    /\ failures < MaxFailures
    /\ failures' = failures + 1
    /\ ws' = [ws EXCEPT ![w] = Paused(w)]
    /\ UNCHANGED <<redis, ledger, history>>

\* The process dies, or its context ends.
Crash(w) ==
    /\ ws[w].pc # "stopped"
    /\ failures < MaxFailures
    /\ failures' = failures + 1
    /\ ws' = [ws EXCEPT ![w] = Stopped]
    /\ UNCHANGED <<redis, ledger, history>>

\* A container is started in its place, under a new consumer name.
Start(w) ==
    /\ ws[w].pc = "stopped"
    /\ Continue(w, Started)
    /\ UNCHANGED <<redis, ledger, history>>

-----------------------------------------------------------------------------
(* Ensure, Recover and ProcessNew.                                         *)

\* Mutant: the group starts after the readings that are there ("$").
GroupStartAtEnd == added

\* XGROUP CREATE MKSTREAM from entry "0": what was published before counts.
GroupStart == 0

Ensure(w) ==
    /\ ws[w].pc = "ensure"
    /\ group' = "present"
    /\ delivered' = IF group = "present" THEN delivered ELSE GroupStart
    /\ Ends(w, [ws[w] EXCEPT !.pc = "recover"])
    /\ UNCHANGED <<added, pel, waiting, idle, attempts, dlq, ledger, history>>

WithBatch(w, phase, batch, next) ==
    [ws[w] EXCEPT !.pc = IF batch = {} THEN next ELSE "count", !.phase = phase, !.batch = batch]

\* Mutant: the cursor stays behind the last entry that was claimed.
CursorNoReset(w, batch) ==
    LET later == {e \in Entries : \A d \in batch : e > d}
    IN  IF batch = {} \/ later = {} THEN ws[w].claimFrom ELSE First(later)

\* Where XAUTOCLAIM continues: at the next pending entry, or 0 at the end.
Cursor(w, batch) ==
    LET rest == {e \in pel : \A d \in batch : e > d}
    IN  IF Cardinality(batch) < BatchSize \/ rest = {} THEN 0 ELSE First(rest)

Claim(w) ==
    /\ ws[w].pc = "recover"
    /\ LET batch == FirstOf({e \in idle : e >= ws[w].claimFrom}, BatchSize)
       IN  /\ idle' = idle \ batch
           /\ Deliver(batch)
           /\ Ends(w, [WithBatch(w, "recover", batch, "read")
                          EXCEPT !.claimFrom = Cursor(w, batch)])
    /\ UNCHANGED <<added, group, delivered, pel, attempts, dlq, ledger, history>>

Read(w) ==
    /\ ws[w].pc = "read"
    /\ LET last == IF delivered + BatchSize <= added THEN delivered + BatchSize ELSE added
           batch == delivered + 1 .. last
       IN  /\ pel' = pel \cup batch
           /\ delivered' = last
           /\ Deliver(batch)
           /\ Ends(w, WithBatch(w, "read", batch, "recover"))
    /\ UNCHANGED <<added, group, idle, attempts, dlq, ledger, history>>

-----------------------------------------------------------------------------
(* processMessage, for the first message of the batch.                     *)

Message(w) == First(ws[w].batch)
Goto(w, pc) == [ws[w] EXCEPT !.pc = pc]

\* Mutant: the worker goes on with a batch that is finished.
AdvancePastEnd(w) ==
    [ws[w] EXCEPT !.pc = "count", !.batch = @ \ {Message(w)}, !.attempt = 0]

\* The next message, or the call of Run that follows the batch.
Advance(w) ==
    LET rest == ws[w].batch \ {Message(w)}
        next == IF ws[w].phase = "recover" THEN "read" ELSE "recover"
    IN  [ws[w] EXCEPT !.pc = IF rest = {} THEN next ELSE "count", !.batch = rest, !.attempt = 0]

\* INCR of the retry key
Count(w) ==
    /\ ws[w].pc = "count"
    /\ attempts' = [attempts EXCEPT ![Message(w)] = @ + 1]
    /\ Ends(w, [ws[w] EXCEPT !.pc = "expire", !.attempt = attempts[Message(w)] + 1])
    /\ UNCHANGED <<added, group, delivered, pel, waiting, idle, dlq, ledger, history>>

\* parseEvent
Parses(e) == e \notin Malformed

\* Mutant: the limit is checked before the message is processed.
ExpireAtLimit(w) ==
    /\ ws[w].pc = "expire"
    /\ Ends(w, Goto(w, IF Parses(Message(w)) /\ ws[w].attempt < RetryLimit
                       THEN "process" ELSE "bury"))
    /\ UNCHANGED <<redis, ledger, history>>

\* EXPIRE of the retry key; the message is parsed next
Expire(w) ==
    /\ ws[w].pc = "expire"
    /\ Ends(w, Goto(w, IF Parses(Message(w)) THEN "process" ELSE "bury"))
    /\ UNCHANGED <<redis, ledger, history>>

Refuse(w) ==
    /\ ws[w].pc = "process" /\ Message(w) \in Rejected
    /\ handed' = handed \cup {Message(w)}
    /\ Continue(w, Goto(w, "bury"))
    /\ UNCHANGED <<redis, ledger, tries>>

Store(w) ==
    /\ ws[w].pc = "process" /\ Message(w) \notin Rejected \cup Poison
    /\ handed' = handed \cup {Message(w)}
    /\ ledger' = ledger \cup {Message(w)}
    /\ Continue(w, Goto(w, "ack"))
    /\ UNCHANGED <<redis, tries>>

\* Mutant: the attempt after the last one still counts as a retry.
ExhaustedLate(attempt) == attempt > RetryLimit

Exhausted(attempt) == attempt >= RetryLimit

\* A transient error: of the database, with or without the row, or of a
\* processor that cannot handle this entry.
FailTransiently(w) ==
    /\ ws[w].pc = "process"
    /\ handed' = handed \cup {Message(w)}
    /\ \/ /\ Message(w) \in Poison
          /\ UNCHANGED <<ledger, failures>>
       \/ /\ failures < MaxFailures
          /\ failures' = failures + 1
          /\ \/ UNCHANGED ledger
             \/ Message(w) \notin Rejected \cup Poison /\ ledger' = ledger \cup {Message(w)}
    /\ \/ /\ Exhausted(ws[w].attempt)
          /\ ws' = [ws EXCEPT ![w] = Goto(w, "bury")]
          /\ UNCHANGED tries
       \/ /\ ~Exhausted(ws[w].attempt)
          /\ ws' = [ws EXCEPT ![w] = Paused(w)]
          /\ tries' = [tries EXCEPT ![Message(w)] = @ + 1]
    /\ UNCHANGED redis

\* Mutant: the script acknowledges before the worker adds the copy.
DeadLetterLate(w) ==
    /\ ws[w].pc = "bury"
    /\ pel' = pel \ {Message(w)} /\ idle' = idle \ {Message(w)}
    /\ attempts' = [attempts EXCEPT ![Message(w)] = 0]
    /\ \/ /\ Continue(w, Advance(w))
          /\ dlq' = [dlq EXCEPT ![Message(w)] = @ + 1]
       \/ /\ failures < MaxFailures
          /\ failures' = failures + 1
          /\ ws' = [ws EXCEPT ![w] = Paused(w)]
          /\ UNCHANGED dlq
    /\ UNCHANGED <<added, group, delivered, waiting, ledger, history>>

\* One Lua script: XADD to the dead letters, XACK, DEL of the retry key.
DeadLetter(w) ==
    /\ ws[w].pc = "bury"
    /\ dlq' = [dlq EXCEPT ![Message(w)] = @ + 1]
    /\ pel' = pel \ {Message(w)} /\ idle' = idle \ {Message(w)}
    /\ attempts' = [attempts EXCEPT ![Message(w)] = 0]
    /\ Ends(w, Advance(w))
    /\ UNCHANGED <<added, group, delivered, waiting, ledger, history>>

Ack(w) ==
    /\ ws[w].pc = "ack"
    /\ pel' = pel \ {Message(w)} /\ idle' = idle \ {Message(w)}
    /\ Ends(w, Goto(w, "forget"))
    /\ UNCHANGED <<added, group, delivered, waiting, attempts, dlq, ledger, history>>

\* DEL of the retry key
Forget(w) ==
    /\ ws[w].pc = "forget"
    /\ attempts' = [attempts EXCEPT ![Message(w)] = 0]
    /\ Ends(w, Advance(w))
    /\ UNCHANGED <<added, group, delivered, pel, waiting, idle, dlq, ledger, history>>

-----------------------------------------------------------------------------
Step(w) ==
    \/ Ensure(w) \/ Claim(w) \/ Read(w)
    \/ Count(w) \/ Expire(w)
    \/ Refuse(w) \/ Store(w) \/ FailTransiently(w)
    \/ DeadLetter(w) \/ Ack(w) \/ Forget(w)

Next ==
    \/ Publish
    \/ Age
    \/ \E w \in Workers : Step(w) \/ Break(w) \/ Crash(w) \/ Start(w)

Spec == Init /\ [][Next]_vars

\* Workers keep running and time passes; nobody has to publish, to fail, or to
\* start a worker that has stopped.
Fairness ==
    /\ \A w \in Workers : WF_vars(Step(w))
    /\ WF_vars(Age)

FairSpec == Spec /\ Fairness
-----------------------------------------------------------------------------
\* Deliveries are contiguous and wait for the group, only delivered entries are
\* pending, a worker with a message to process has one, and every batch was
\* delivered.
TypeOK ==
    /\ added \in Entries \cup {0} /\ delivered \in 0..added
    /\ group \in {"absent", "present"}
    /\ group = "absent" =>
           delivered = 0 /\ \A w \in Workers : ws[w].pc \in {"stopped", "ensure"}
    /\ pel \subseteq 1..delivered /\ idle \subseteq pel
    /\ waiting \in Seq(SUBSET Entries)
    /\ ledger \subseteq 1..delivered
    /\ attempts \in [Entries -> Nat] /\ dlq \in [Entries -> Nat]
    /\ ws \in [Workers -> Worker]
    /\ \A w \in Workers :
           /\ ws[w].batch \subseteq 1..delivered
           /\ ws[w].batch = {} <=> ws[w].pc \in Resting
    /\ failures \in 0..MaxFailures
    /\ handed \subseteq 1..delivered /\ tries \in [Entries -> Nat]

\* No reading is lost: a delivered entry stays pending until its event is in
\* the ledger or its copy in the dead letters, whatever calls fail and whoever
\* dies ("ACK only after PostgreSQL persistence", deadLetter).
NothingIsLost == \A e \in 1..delivered : e \in pel \/ e \in ledger \/ dlq[e] > 0

\* A pending entry failed fewer times than the limit: retries are bounded
\* also when several workers claim it in turn (processMessage).
RetriesAreBounded == \A e \in pel : tries[e] < RetryLimit

\* Readings that nothing is wrong with, and their copies in the dead letters.
Good == Entries \ (Malformed \cup Rejected \cup Poison)
Copies == UNION {{e} \X (1..dlq[e]) : e \in Good}

\* Good readings are given up only for failures: there are never more copies of
\* them in the dead letters than calls that failed.  Deliveries that overlap and
\* claims of a slow worker's batch raise attempts and alone never bury an entry,
\* nor does one failure bury two (processMessage).
BuriedByFailures == Cardinality(Copies) <= failures

\* Neither too late nor too early: an entry is given up after the limit of
\* failures at the latest, and a good one only for failures (processMessage).
GivenUpForFailures == RetriesAreBounded /\ BuriedByFailures

\* No entry blocks the group or is stranded before it: every published entry
\* leaves the pending list for good, poisoned, malformed and early ones
\* included, unless every worker has stopped for good (Ensure, Run, Recover).
EveryEntryIsSettled ==
    \A e \in Entries :
        (e <= added) ~> \/ [](e <= delivered /\ e \notin pel)
                        \/ [](\A w \in Workers : ws[w].pc = "stopped")

\* What the comment of FinalizingProcessor relies on: entries are first handed
\* to the Processor in stream order.
HandedInOrder ==
    \A e \in handed : \A d \in 1..e-1 : d \in handed \cup Malformed
=============================================================================
