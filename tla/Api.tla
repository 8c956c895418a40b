--------------------------------- MODULE Api ---------------------------------
(***************************************************************************)
(* cmd/api and package httpapi: the life of one API process, and requests  *)
(* on their way through its handlers, which share a pool of connections    *)
(* to PostgreSQL and one client of Redis.  SIGTERM closes the listener,    *)
(* ListenAndServe returns at once, and main closes Redis and the pool      *)
(* while Shutdown still waits for the requests in flight.                  *)
(*                                                                         *)
(* What a method of the service does to the tables is here only whether it *)
(* took effect; Registration has its statements.                           *)
(***************************************************************************)
EXTENDS Integers, FiniteSets

CONSTANTS
    Requests,
    Mixes,          \* the routes that the requests of a behaviour may have
    Connections,    \* size of the pool
    MaxApiFaults    \* bound on stops, failed statements, lost replies and answers

\* change is a PUT or a PATCH of the status; fetch a list or a get.
Routes == {"reading", "create", "change", "deactivate", "fetch", "report", "live", "ready", "metrics"}

ASSUME ApiConfig ==
    /\ IsFiniteSet(Requests)
    /\ Mixes \subseteq [Requests -> Routes]
    /\ Connections \in Nat \ {0} /\ MaxApiFaults \in Nat

VARIABLES
    server,     \* what main is about to do
    route,      \* request -> its route
    phase,      \* request -> what its handler is about to do
    verdict,    \* request -> the error kind its handler has to answer, or "ok"
    status,     \* request -> the status code its client got, 0 for none
    held,       \* requests that hold a connection of the pool
    effects,    \* requests whose row is committed or whose reading is in the stream
    accepted, failed,   \* the counters ingestion_accepted, ingestion_failures
    scraped,    \* what the last scrape said of accepted
    recounted,  \* increments that were sent again after they took effect
    apiFaults

requestVars == <<route, phase, verdict, status, held>>
counters == <<accepted, failed, scraped, recounted>>
apiVars == <<server, requestVars, effects, counters, apiFaults>>

\* "stopping": ListenAndServe has returned; "noredis", "closing": main has
\* closed the client of Redis, and database.Close has begun to wait.
Servers == {"down", "connecting", "serving", "stopping", "noredis", "closing"}
Phases == {"new", "decode", "token", "acquire", "query", "publish", "ping",
           "scrape", "count", "answer", "answered", "cut"}
Verdicts == {"ok", "malformed", "unauthorized", "forbidden", "validation",
             "notfound", "conflict", "unavailable", "error"}

ApiInit ==
    /\ server = "down"
    /\ route \in Mixes
    /\ phase = [q \in Requests |-> "new"]
    /\ verdict = [q \in Requests |-> "ok"]
    /\ status = [q \in Requests |-> 0]
    /\ held = {} /\ effects = {}
    /\ accepted = 0 /\ failed = 0 /\ scraped = 0 /\ recounted = 0
    /\ apiFaults = 0

InFlight == {q \in Requests : phase[q] \notin {"new", "answered", "cut"}}
Changes(q) == route[q] \in {"create", "change", "deactivate"}
Writes(q) == route[q] = "reading" \/ Changes(q)
Faulty == apiFaults < MaxApiFaults /\ apiFaults' = apiFaults + 1
NoFault == UNCHANGED apiFaults

-----------------------------------------------------------------------------
(* main                                                                    *)

Boot ==
    /\ server = "down"
    /\ server' = "connecting"
    /\ UNCHANGED <<requestVars, effects, counters, apiFaults>>

\* Ping of PostgreSQL; then the handlers are wired and the listener opens.
Connect ==
    /\ server = "connecting"
    /\ \/ server' = "serving" /\ NoFault
       \/ server' = "down" /\ Faulty
    /\ UNCHANGED <<requestVars, effects, counters>>

\* SIGTERM: Shutdown closes the listener and waits, ListenAndServe returns.
Terminate ==
    /\ server = "serving" /\ Faulty
    /\ server' = "stopping"
    /\ UNCHANGED <<requestVars, effects, counters>>

\* The deferred calls of main, last one first.
CloseRedis ==
    /\ server = "stopping"
    /\ server' = "noredis"
    /\ UNCHANGED <<requestVars, effects, counters, apiFaults>>

CloseDatabase ==
    /\ server = "noredis"
    /\ server' = "closing"
    /\ UNCHANGED <<requestVars, effects, counters, apiFaults>>

\* The requests that are in flight when the process ends get no answer.
CutRequests ==
    /\ server' = "down"
    /\ phase' = [q \in Requests |-> IF q \in InFlight THEN "cut" ELSE phase[q]]
    /\ held' = {}
    /\ UNCHANGED <<route, verdict, status, counters>>

\* main returns when every connection is back in the pool.
Exit ==
    /\ server = "closing" /\ held = {}
    /\ CutRequests
    /\ UNCHANGED <<effects, apiFaults>>

\* SIGKILL or a failing listener; statements under way may still take effect.
Kill ==
    /\ server # "down" /\ Faulty
    /\ \E late \in SUBSET {q \in InFlight : Writes(q) /\ phase[q] \in {"query", "publish"}} :
           /\ \A q \in late : route[q] = "reading" => phase[q] = "publish"
           /\ effects' = effects \cup late
    /\ CutRequests

-----------------------------------------------------------------------------
(* The handlers.                                                           *)

Advance(q, next) ==
    /\ phase' = [phase EXCEPT ![q] = next]
    /\ UNCHANGED <<server, route, status, counters>>

Proceed(q, next) == Advance(q, next) /\ UNCHANGED verdict

\* Readings are counted before they are answered.
Conclude(q, kind) ==
    /\ Advance(q, IF route[q] = "reading" THEN "count" ELSE "answer")
    /\ verdict' = [verdict EXCEPT ![q] = kind]

\* The routers of main and of httpapi.
Accept(q) ==
    /\ server = "serving" /\ phase[q] = "new"
    /\ Proceed(q, CASE route[q] \in {"reading", "create", "change", "report"} -> "decode"
                    [] route[q] \in {"deactivate", "fetch", "ready"} -> "acquire"
                    [] route[q] = "metrics" -> "scrape"
                    [] OTHER -> "answer")
    /\ UNCHANGED <<held, effects, apiFaults>>

\* The body, or the period of a report: reportFilter, and Query before its
\* statement.  A malformed body is answered before it is counted, but a
\* response leaves its buffer when the handler returns.
Decode(q) ==
    /\ phase[q] = "decode"
    /\ \/ Proceed(q, IF route[q] = "reading" THEN "token" ELSE "acquire")
       \/ Conclude(q, IF route[q] = "report" THEN "validation" ELSE "malformed")
    /\ UNCHANGED <<held, effects, apiFaults>>

\* bearerToken
Token(q) ==
    /\ phase[q] = "token"
    /\ Proceed(q, "acquire") \/ Conclude(q, "unauthorized")
    /\ UNCHANGED <<held, effects, apiFaults>>

\* Mutant: the pool grows with the load.
RoomAlways == TRUE

RoomInPool == Cardinality(held) < Connections

\* A connection of the pool, or none because it is closed or because the 3 s
\* of a readiness probe are over.
Acquire(q) ==
    /\ phase[q] = "acquire"
    /\ \/ /\ server # "closing" /\ RoomInPool
          /\ held' = held \cup {q}
          /\ Proceed(q, "query")
       \/ /\ server = "closing"
          /\ Conclude(q, IF route[q] = "ready" THEN "unavailable" ELSE "error")
          /\ UNCHANGED held
    /\ UNCHANGED <<effects, apiFaults>>

ProbeTimesOut(q) ==
    /\ phase[q] = "acquire" /\ route[q] = "ready" /\ ~RoomInPool
    /\ Conclude(q, "unavailable")
    /\ UNCHANGED <<held, effects, apiFaults>>

\* What the checks and the rows the method reads can make of a request.
Refusals(r) ==
    CASE r = "reading" -> {"unauthorized", "forbidden", "validation"}
      [] r = "create" -> {"validation", "conflict"}
      [] r = "change" -> {"validation", "conflict", "notfound"}
      [] r \in {"deactivate", "fetch"} -> {"notfound"}
      [] OTHER -> {}

\* Mutant: a statement that succeeds keeps its connection.
ReleaseNever(q) == UNCHANGED held

Release(q) == held' = held \ {q}

\* The statements of the call.
Query(q) ==
    /\ phase[q] = "query"
    /\ Release(q)
    /\ \/ /\ CASE route[q] = "reading" -> Proceed(q, "publish")
               [] route[q] = "ready" -> Proceed(q, "ping")
               [] OTHER -> Conclude(q, "ok")
          /\ effects' = IF Changes(q) THEN effects \cup {q} ELSE effects
          /\ NoFault
       \/ \E kind \in Refusals(route[q]) : Conclude(q, kind) /\ UNCHANGED effects /\ NoFault

\* A statement fails, before or after it took effect.
QueryFails(q) ==
    /\ phase[q] = "query" /\ Faulty
    /\ Release(q)
    /\ Conclude(q, IF route[q] = "ready" THEN "unavailable" ELSE "error")
    /\ \/ UNCHANGED effects
       \/ Changes(q) /\ effects' = effects \cup {q}

RedisIsOpen == server \in {"serving", "stopping"}

\* XADD; a call cut by CloseRedis may have reached Redis.
Publish(q) ==
    /\ phase[q] = "publish"
    /\ \/ RedisIsOpen /\ Conclude(q, "ok") /\ effects' = effects \cup {q} /\ NoFault
       \/ ~RedisIsOpen /\ Conclude(q, "unavailable") /\ effects' \in {effects, effects \cup {q}} /\ NoFault
       \/ Conclude(q, "unavailable") /\ effects' \in {effects, effects \cup {q}} /\ Faulty
    /\ UNCHANGED held

\* The client of Redis has default options and sends a command again whose
\* reply is lost: the reading is in the stream, a second time in the end.
PublishAgain(q) ==
    /\ phase[q] = "publish" /\ RedisIsOpen /\ Faulty
    /\ effects' = effects \cup {q}
    /\ UNCHANGED <<server, requestVars, counters>>

\* readyHandler, its second Ping.
Ping(q) ==
    /\ phase[q] = "ping"
    /\ \/ RedisIsOpen /\ Conclude(q, "ok") /\ NoFault
       \/ ~RedisIsOpen /\ Conclude(q, "unavailable") /\ NoFault
       \/ Conclude(q, "unavailable") /\ Faulty
    /\ UNCHANGED <<held, effects>>

\* Snapshot and its Handler: what cannot be read is shown as zero.
Scrape(q) ==
    /\ phase[q] = "scrape"
    /\ \/ RedisIsOpen /\ scraped' = accepted /\ NoFault
       \/ ~RedisIsOpen /\ scraped' \in {0, accepted} /\ NoFault
       \/ scraped' = 0 /\ Faulty
    /\ phase' = [phase EXCEPT ![q] = "answer"]
    /\ UNCHANGED <<server, route, verdict, status, held, effects, accepted, failed, recounted>>

\* Mutant: every reading that is authorized counts as accepted.
CountsAsAcceptedEarly(q) == verdict[q] \in {"ok", "unavailable"}

CountsAsAccepted(q) == verdict[q] = "ok"

Increment(q) ==
    /\ accepted' = IF CountsAsAccepted(q) THEN accepted + 1 ELSE accepted
    /\ failed' = IF CountsAsAccepted(q) THEN failed ELSE failed + 1
    /\ UNCHANGED scraped

\* Inc, whose errors are dropped.
Count(q) ==
    /\ phase[q] = "count"
    /\ UNCHANGED recounted
    /\ \/ RedisIsOpen /\ Increment(q) /\ NoFault
       \/ ~RedisIsOpen /\ (Increment(q) \/ UNCHANGED <<accepted, failed, scraped>>) /\ NoFault
       \/ (Increment(q) \/ UNCHANGED <<accepted, failed, scraped>>) /\ Faulty
    /\ phase' = [phase EXCEPT ![q] = "answer"]
    /\ UNCHANGED <<server, route, verdict, status, held, effects>>

\* The reply of INCR is lost, and the client sends it again.
CountAgain(q) ==
    /\ phase[q] = "count" /\ RedisIsOpen /\ Faulty
    /\ Increment(q)
    /\ recounted' = recounted + 1
    /\ UNCHANGED <<server, requestVars, effects>>

\* Mutant: an error of unknown kind counts as a conflict.
StatusOfConflict(r, kind) ==
    CASE kind = "ok" -> 200 [] kind = "unavailable" -> 503 [] kind \in {"error", "conflict"} -> 409
      [] OTHER -> 422

\* scaleReadings, respond, respondCreated, readyHandler
StatusOf(r, kind) ==
    CASE kind = "ok" -> (CASE r = "reading" -> 202 [] r = "create" -> 201 [] OTHER -> 200)
      [] kind = "malformed" -> 400
      [] kind = "unauthorized" -> 401
      [] kind = "forbidden" -> 403
      [] kind = "notfound" -> 404
      [] kind = "conflict" -> 409
      [] kind = "validation" -> 422
      [] kind = "unavailable" -> 503
      [] OTHER -> 500

\* The handler returns, and the response is sent.
Answer(q) ==
    /\ phase[q] = "answer"
    /\ phase' = [phase EXCEPT ![q] = "answered"]
    /\ status' = [status EXCEPT ![q] = StatusOf(route[q], verdict[q])]
    /\ UNCHANGED <<server, route, verdict, held, effects, counters, apiFaults>>

\* The client is gone, or WriteTimeout has passed.
LoseAnswer(q) ==
    /\ phase[q] = "answer" /\ Faulty
    /\ phase' = [phase EXCEPT ![q] = "cut"]
    /\ UNCHANGED <<server, route, verdict, status, held, effects, counters>>

Handle(q) ==
    \/ Decode(q) \/ Token(q) \/ Acquire(q) \/ ProbeTimesOut(q)
    \/ Query(q) \/ QueryFails(q) \/ Publish(q) \/ PublishAgain(q) \/ Ping(q)
    \/ Scrape(q) \/ Count(q) \/ CountAgain(q) \/ Answer(q) \/ LoseAnswer(q)

Stop == CloseRedis \/ CloseDatabase \/ Exit

ApiNext ==
    \/ Boot \/ Connect \/ Terminate \/ Stop \/ Kill
    \/ \E q \in Requests : Accept(q) \/ Handle(q)

ApiSpec == ApiInit /\ [][ApiNext]_apiVars

\* Handlers run, statements return, and main goes on; nobody has to send,
\* to stop or to fail.
ApiFairness ==
    /\ \A q \in Requests : WF_apiVars(Handle(q))
    /\ WF_apiVars(Stop)

-----------------------------------------------------------------------------
ApiTypeOK ==
    /\ server \in Servers
    /\ route \in Mixes
    /\ phase \in [Requests -> Phases]
    /\ verdict \in [Requests -> Verdicts]
    /\ status \in [Requests -> {0, 200, 201, 202, 400, 401, 403, 404, 409, 422, 500, 503}]
    /\ held \subseteq InFlight /\ Cardinality(held) <= Connections
    /\ effects \subseteq Requests
    /\ accepted \in Nat /\ failed \in Nat /\ scraped \in 0..accepted
    /\ apiFaults \in 0..MaxApiFaults /\ recounted \in 0..apiFaults
    /\ server \in {"down", "connecting"} => InFlight = {}

(***************************************************************************)
(* What a client may conclude from a status code, whatever failed or was   *)
(* closed under its request: success means that the reading is in the      *)
(* stream or the row committed, any 4xx that the request changed nothing.  *)
(* Only 500, 503 and a broken connection leave it open (openapi.yaml).     *)
(***************************************************************************)
AnswerTellsEffect ==
    \A q \in Requests :
        /\ status[q] \in 200..299 /\ Writes(q) => q \in effects
        /\ status[q] \in 400..499 => q \notin effects

(***************************************************************************)
(* incrementMetric, Inc: a counted acceptance is a reading in the stream,  *)
(* and a reading is counted once but for the increments that the client of *)
(* Redis sent again.  The errors Inc drops leave readings out, so only     *)
(* before the first fault or stop are the counters exact.                  *)
(***************************************************************************)
CountersTellReadings ==
    LET readings == {q \in Requests : route[q] = "reading"}
        counted  == {q \in readings : phase[q] \in {"answer", "answered", "cut"}}
    IN  /\ accepted <= Cardinality(readings \cap effects) + recounted
        /\ accepted + failed <= Cardinality(counted) + recounted
        /\ apiFaults = 0 =>
               /\ accepted = Cardinality(counted \cap effects)
               /\ failed = Cardinality(counted \ effects)

(***************************************************************************)
(* Every request that was accepted gets an answer, or its connection ends: *)
(* no handler keeps the connection of the pool that others wait for.  And  *)
(* SIGTERM ends the process, although database.Close waits for handlers.   *)
(***************************************************************************)
NothingHangs ==
    /\ \A q \in Requests : q \in InFlight ~> q \notin InFlight
    /\ server = "stopping" ~> server = "down"
=============================================================================
