----------------------------- MODULE AckRegistry -----------------------------
(***************************************************************************)
(* The registry of acknowledgements the server asks for                    *)
(* (server/pkg/socketio/ack.go).  The actors are the callers of Register,  *)
(* of the cancel function and of RemoveAll, the goroutines that bring an   *)
(* ACK packet to Resolve, and one timer goroutine per request with a       *)
(* timeout.  Each step is one critical section under r.mu, or a call made  *)
(* outside it.                                                             *)
(*                                                                         *)
(* A request is one pendingAck.  NextID makes the ids distinct as long as  *)
(* the callers use it; Register takes any id, so that a request may take   *)
(* the place of another.                                                   *)
(*                                                                         *)
(* The server has no callers: it sends no event that asks for an ACK, drops *)
(* the ACK packets it gets (server.go:213) and calls RemoveAll at no       *)
(* disconnect.  The callers here are those the registry is written for.    *)
(***************************************************************************)
EXTENDS Functions

CONSTANTS
  Requests,
  SidOf, IdOf,      \* the key a request is registered under
  Timed             \* the requests with timeout > 0

VARIABLES
  pending,          \* r.pending: sid -> id -> request
  timer,            \* request -> its time.Timer and the goroutine of AfterFunc
  resolver,         \* request -> the Resolve call that took it
  registered,       \* history: the requests registered,
  given, replaced,  \* given up by cancel or RemoveAll, replaced by a later one
  calls             \* history: request -> what its callback was called with

ackVars == <<pending, timer, resolver, registered, given, replaced, calls>>

Sockets == {SidOf[r] : r \in Requests}
Ids  == {IdOf[r] : r \in Requests}
Pending(r) == /\ SidOf[r] \in DOMAIN pending
              /\ IdOf[r] \in DOMAIN pending[SidOf[r]]
              /\ pending[SidOf[r]][IdOf[r]] = r

AckTypeOK ==
  /\ DOMAIN pending \subseteq Sockets
  /\ \A s \in DOMAIN pending :
       /\ DOMAIN pending[s] \subseteq Ids
       /\ \A i \in DOMAIN pending[s] : pending[s][i] \in Requests
  /\ timer \in [Requests -> {"none", "armed", "fired", "calling", "over", "stopped"}]
  /\ resolver \in [Requests -> {"none", "took", "calling", "over"}]
  /\ registered \subseteq Requests /\ given \subseteq registered
  /\ replaced \subseteq registered
  /\ calls \in [Requests -> SUBSET {"answer", "second answer", "timeout"}]

AckInit ==
  /\ pending = [s \in {} |-> {}]
  /\ timer = [r \in Requests |-> "none"] /\ resolver = [r \in Requests |-> "none"]
  /\ registered = {} /\ given = {} /\ replaced = {}
  /\ calls = [r \in Requests |-> {}]

-------------------------------------------------------------------------------
DeleteEntry_KeepsEmpty(r) ==
  pending' = [pending EXCEPT ![SidOf[r]] = Restrict(@, DOMAIN @ \ {IdOf[r]})]

\* delete(sidMap, ackID), and the socket's map with its last entry.
DeleteEntry(r) ==
  LET s == SidOf[r] IN
  pending' = IF DOMAIN pending[s] = {IdOf[r]}
             THEN Restrict(pending, DOMAIN pending \ {s})
             ELSE [pending EXCEPT ![s] = Restrict(@, DOMAIN @ \ {IdOf[r]})]

StopTimers(rs) ==
  timer' = [r \in Requests |->
              IF r \in rs /\ timer[r] = "armed" THEN "stopped" ELSE timer[r]]

Register(r) ==
  LET s   == SidOf[r]
      old == IF s \in DOMAIN pending THEN pending[s] ELSE [i \in {} |-> r] IN
  /\ r \notin registered
  /\ registered' = registered \union {r}
  /\ pending' = [t \in DOMAIN pending \union {s} |->
                   IF t = s THEN [i \in DOMAIN old \union {IdOf[r]} |->
                                    IF i = IdOf[r] THEN r ELSE old[i]]
                            ELSE pending[t]]
  /\ replaced' = replaced \union (IF IdOf[r] \in DOMAIN old THEN {old[IdOf[r]]} ELSE {})
  /\ timer' = [timer EXCEPT ![r] = IF r \in Timed THEN "armed" ELSE @]
  /\ UNCHANGED <<resolver, given, calls>>

TimerFires(r) ==
  /\ timer[r] = "armed" /\ timer' = [timer EXCEPT ![r] = "fired"]
  /\ UNCHANGED <<pending, resolver, registered, given, replaced, calls>>

TimerTakes_Any(r) ==
  LET there == SidOf[r] \in DOMAIN pending /\ IdOf[r] \in DOMAIN pending[SidOf[r]] IN
  /\ timer[r] = "fired" /\ timer' = [timer EXCEPT ![r] = "calling"]
  /\ IF there THEN DeleteEntry(r) ELSE UNCHANGED pending
  /\ UNCHANGED <<resolver, registered, given, replaced, calls>>

TimerTakes_OwnOnly(r) ==
  /\ timer[r] = "fired"
  /\ IF Pending(r) THEN DeleteEntry(r) /\ timer' = [timer EXCEPT ![r] = "calling"]
                   ELSE UNCHANGED pending /\ timer' = [timer EXCEPT ![r] = "over"]
  /\ UNCHANGED <<resolver, registered, given, replaced, calls>>

\* The goroutine of AfterFunc gets the lock: it takes its own request, if it is there.
TimerTakes(r) ==
  /\ timer[r] = "fired" /\ timer' = [timer EXCEPT ![r] = "calling"]
  /\ IF Pending(r) THEN DeleteEntry(r) ELSE UNCHANGED pending
  /\ UNCHANGED <<resolver, registered, given, replaced, calls>>

\* It calls back whether or not it found the request.
TimerCalls(r) ==
  /\ timer[r] = "calling" /\ timer' = [timer EXCEPT ![r] = "over"]
  /\ calls' = [calls EXCEPT ![r] = @ \union {"timeout"}]
  /\ UNCHANGED <<pending, resolver, registered, given, replaced>>

ResolveTakes_Leaves(r) ==
  /\ Pending(r)
  /\ resolver' = [resolver EXCEPT ![r] = "took"]
  /\ UNCHANGED <<pending, timer, registered, given, replaced, calls>>

\* An ACK packet with the key of r.  One that finds nothing changes nothing.
ResolveTakes(r) ==
  /\ Pending(r) /\ DeleteEntry(r)
  /\ resolver' = [resolver EXCEPT ![r] = "took"]
  /\ UNCHANGED <<timer, registered, given, replaced, calls>>

ResolveStops(r) ==
  /\ resolver[r] = "took" /\ resolver' = [resolver EXCEPT ![r] = "calling"]
  /\ StopTimers({r})
  /\ UNCHANGED <<pending, registered, given, replaced, calls>>

ResolveCalls(r) ==
  /\ resolver[r] = "calling" /\ resolver' = [resolver EXCEPT ![r] = "over"]
  /\ calls' = [calls EXCEPT ![r] =
                 @ \union {IF "answer" \in @ THEN "second answer" ELSE "answer"}]
  /\ UNCHANGED <<pending, timer, registered, given, replaced>>

Cancel(r) ==
  /\ Pending(r) /\ DeleteEntry(r) /\ StopTimers({r})
  /\ given' = given \union {r}
  /\ UNCHANGED <<resolver, registered, replaced, calls>>

RemoveAll(s) ==
  LET rs == {r \in Requests : SidOf[r] = s /\ Pending(r)} IN
  /\ s \in DOMAIN pending
  /\ pending' = Restrict(pending, DOMAIN pending \ {s})
  /\ StopTimers(rs)
  /\ given' = given \union rs
  /\ UNCHANGED <<resolver, registered, replaced, calls>>

-------------------------------------------------------------------------------
TimerStep(r)   == TimerFires(r) \/ TimerTakes(r) \/ TimerCalls(r)
ResolveStep(r) == ResolveStops(r) \/ ResolveCalls(r)

AckNext ==
  \/ \E r \in Requests : Register(r) \/ TimerStep(r) \/ ResolveTakes(r) \/ ResolveStep(r)
                         \/ Cancel(r)
  \/ \E s \in Sockets : RemoveAll(s)

AckSpec == AckInit /\ [][AckNext]_ackVars

\* Time passes and goroutines go on; nothing makes an ACK packet arrive.
AckFairness == \A r \in Requests : WF_ackVars(TimerStep(r)) /\ WF_ackVars(ResolveStep(r))

-------------------------------------------------------------------------------
Over(r) == resolver[r] # "none" \/ timer[r] \in {"calling", "over"} \/ r \in given

\* A request that no later one replaced is in the registry until something that
\* answers for it has taken it; a late timer never takes the request of another.
\* (The comparison existing == pa, and the deletions of Resolve, cancel, RemoveAll.)
NoneForgotten ==
  \A r \in registered : Pending(r) \/ Over(r) \/ r \in replaced

\* The registry holds requests that can still be answered and nothing empty, and
\* keeps no timer running for a request it gave up, unless it had fired by then.
\* (cancel, RemoveAll, and the deletion of empty maps.)
NothingLeaks ==
  /\ \A s \in DOMAIN pending : DOMAIN pending[s] # {}
  /\ \A r \in given : timer[r] # "armed"

\* However many ACK packets arrive, a callback gets one answer, and none once the
\* request is cancelled, removed or replaced.  (A timer that has fired still calls it.)
\* (Resolve removes before it calls.)
AnsweredOnce ==
  \A r \in Requests :
    /\ "second answer" \notin calls[r]
    /\ r \in given \union replaced => "answer" \notin calls[r]

\* Every request with a timeout is called back or given up, even one that was
\* replaced.  (The callback of AfterFunc.)
EventuallyCalled ==
  \A r \in Timed : r \in registered ~> calls[r] # {} \/ r \in given

===============================================================================
