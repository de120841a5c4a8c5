------------------------------- MODULE Shutdown -------------------------------
(***************************************************************************)
(* How the server ends (server/internal/server/server.go, Run): the loops  *)
(* of the reaper, the progression and the cleanup engine and of the        *)
(* batcher, the goroutine that stops them one after the other on a signal, *)
(* closes the sessions, Redis and the HTTP server, and the main goroutine, *)
(* which returns from ListenAndServe as soon as that closes.               *)
(***************************************************************************)
EXTENDS Naturals, FiniteSets

CONSTANT HttpRequests   \* HTTP requests

Loops     == {"batcher", "reaper", "progression", "cleanup"}
UsesRedis == {"progression", "cleanup"}

VARIABLES
  pc,          \* the shutdown goroutine: the step it takes next
  stopped,     \* loops told to stop
  loop,        \* each loop: idle, pass (working) or ended
  redis,       \* the Redis client is open
  listening, exited,  \* the HTTP server accepts; the process is gone
  request      \* each HTTP request: new, running, half, done or failed

shutdown == <<pc, stopped, redis, listening>>
shutdownVars == <<shutdown, loop, exited, request>>

ShutdownInit ==
  /\ pc = "waiting" /\ stopped = {} /\ redis = TRUE
  /\ listening = TRUE /\ exited = FALSE
  /\ loop = [l \in Loops |-> "idle"]
  /\ request = [r \in HttpRequests |-> "new"]

-------------------------------------------------------------------------------
(* The loops.  When a tick and the stop are both ready, select takes       *)
(* either.                                                                 *)

Pass(l) ==
  /\ ~exited /\ loop[l] = "idle" /\ loop' = [loop EXCEPT ![l] = "pass"]
  /\ UNCHANGED <<shutdown, exited, request>>

PassEnds(l) ==
  /\ ~exited /\ loop[l] = "pass" /\ loop' = [loop EXCEPT ![l] = "idle"]
  /\ UNCHANGED <<shutdown, exited, request>>

LoopEnds_IgnoresCancel(l) ==
  /\ ~exited /\ loop[l] = "idle" /\ l \in stopped \ {"progression"}
  /\ loop' = [loop EXCEPT ![l] = "ended"]
  /\ UNCHANGED <<shutdown, exited, request>>

LoopEnds(l) ==
  /\ ~exited /\ loop[l] = "idle" /\ l \in stopped
  /\ loop' = [loop EXCEPT ![l] = "ended"]
  /\ UNCHANGED <<shutdown, exited, request>>

-------------------------------------------------------------------------------
(* The shutdown.                                                           *)

Signal ==
  /\ pc = "waiting" /\ ~exited /\ pc' = "batcher"
  /\ UNCHANGED <<stopped, redis, listening, loop, exited, request>>

After(l) == IF l = "batcher" THEN "reaper" ELSE IF l = "reaper" THEN "progression"
            ELSE IF l = "progression" THEN "cleanup" ELSE "sessions"

Tell(l) ==
  /\ ~exited /\ pc = l /\ l \notin stopped /\ stopped' = stopped \cup {l}
  /\ UNCHANGED <<pc, redis, listening, loop, exited, request>>

(* Stop of an engine waits until its loop has ended; that of the batcher
   does not.                                                               *)
Awaited_Nothing(l) == TRUE
Awaited(l) == l = "batcher" \/ loop[l] = "ended"

Stop(l) ==
  /\ ~exited /\ pc = l /\ l \in stopped /\ Awaited(l)
  /\ pc' = After(l)
  /\ UNCHANGED <<stopped, redis, listening, loop, exited, request>>

(* Closing the Engine.IO sessions leaves what is modelled here alone.       *)
CloseSessions ==
  /\ ~exited /\ pc = "sessions" /\ pc' = "redis"
  /\ UNCHANGED <<stopped, redis, listening, loop, exited, request>>

CloseRedis ==
  /\ ~exited /\ pc = "redis" /\ redis' = FALSE /\ pc' = "http"
  /\ UNCHANGED <<stopped, listening, loop, exited, request>>

CloseListener ==
  /\ ~exited /\ pc = "http" /\ listening' = FALSE /\ pc' = "draining"
  /\ UNCHANGED <<stopped, redis, loop, exited, request>>

(* Shutdown returns when no request runs, or after ten seconds.            *)
Drained ==
  /\ ~exited /\ pc = "draining" /\ pc' = "done"
  /\ UNCHANGED <<stopped, redis, listening, loop, exited, request>>

(* Run returns, and main with it.                                          *)
Exit ==
  /\ ~exited /\ ~listening /\ exited' = TRUE
  /\ UNCHANGED <<shutdown, loop, request>>

-------------------------------------------------------------------------------
(* A request that registers a fire: two writes and the answer.  With the   *)
(* client of Redis closed its commands fail and it is answered 500.        *)

RequestStep(r, from, next) ==
  /\ ~exited /\ request[r] = from /\ request' = [request EXCEPT ![r] = next]
  /\ UNCHANGED <<shutdown, loop, exited>>

Arrive(r)  == listening /\ RequestStep(r, "new", "running")
Store(r)   == redis /\ RequestStep(r, "running", "half")
Index(r)   == redis /\ RequestStep(r, "half", "done")
Fails(r)   == ~redis /\ \E from \in {"running", "half"} : RequestStep(r, from, "failed")

-------------------------------------------------------------------------------
Goroutine ==
  \/ \E l \in Loops : Tell(l) \/ Stop(l)
  \/ CloseSessions \/ CloseRedis \/ CloseListener \/ Drained

ShutdownNext ==
  \/ \E l \in Loops : Pass(l) \/ PassEnds(l) \/ LoopEnds(l)
  \/ Signal \/ Goroutine \/ Exit
  \/ \E r \in HttpRequests : Arrive(r) \/ Store(r) \/ Index(r) \/ Fails(r)

(* Goroutines run; a select that can take the stop again and again takes it. *)
ShutdownFairness ==
  /\ WF_shutdownVars(Goroutine) /\ WF_shutdownVars(Exit)
  /\ \A l \in Loops : WF_shutdownVars(PassEnds(l)) /\ SF_shutdownVars(LoopEnds(l))
  /\ \A r \in HttpRequests : WF_shutdownVars(Store(r) \/ Index(r) \/ Fails(r))

ShutdownSpec == ShutdownInit /\ [][ShutdownNext]_shutdownVars

-------------------------------------------------------------------------------
(* No engine is in the middle of a pass when Redis is closed: each Stop waits
   for its loop, and Close comes after both (server.go:97-102,
   fire_progression.go:148-159, cleanup.go:119-131).                       *)
EnginesEndFirst == ~redis => \A l \in UsesRedis : loop[l] = "ended"

(* A signal ends the process, whatever the loops were doing.               *)
SignalExits == pc = "batcher" ~> exited

(* "Graceful shutdown" (server.go:89, 104-106): a request that was accepted
   is answered before the process is gone.                                 *)
RequestsFinish == exited => \A r \in HttpRequests : request[r] \in {"new", "done", "failed"}
===============================================================================
