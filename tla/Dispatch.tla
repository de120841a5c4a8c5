------------------------------- MODULE Dispatch -------------------------------
(***************************************************************************)
(* What becomes of the packets of one client: DispatchPacketFull, the      *)
(* middleware chain with the rate limiter in it, the handlers, and the     *)
(* packets sent back (server/pkg/socketio/server.go, namespace.go,         *)
(* middleware.go, server/internal/sio/ratelimit.go, and the bridge in      *)
(* server/internal/server/server.go).                                      *)
(*                                                                         *)
(* The messages of a session are handled one after the other, each to its  *)
(* end.  The reaper, or the closing of the session, disconnects the client *)
(* in between; a client it disconnected may go on sending.                 *)
(***************************************************************************)
EXTENDS Naturals, Sequences

CONSTANTS
  Unlimited, Limited,  \* events with a handler: without and with a rate limit
  Silent,              \* those whose handler returns no data
  Burst,               \* the bucket of a limited event, when full
  MaxRejections,       \* rejections allowed; the next one disconnects
  MaxPackets, MaxRefills, MaxDrops   \* bounds

ASSUME DispatchAssumption ==
  Burst \in Nat /\ MaxRejections \in Nat /\ MaxRefills \in Nat

VARIABLES
  socket,              \* ns.sockets has the client
  bucket,              \* rl.buckets: tokens of a limited event, or Fresh
  violations,          \* rl.violations
  sent,                \* packets the server sent back
  requests,            \* the EVENT packets of the client, by which it numbers them
  accepted, refilled,  \* history, by limited event: let through, tokens regained
  drops                \* history: disconnects

limiter == <<bucket, violations>>
outcomes == <<requests, accepted, refilled, drops>>
dispatchVars == <<socket, limiter, sent, outcomes>>

Fresh  == Burst + 1                 \* no limiter yet
NoId   == 0                         \* the packet asks for no ACK (its ID is -1)
Events == Unlimited \union Limited

DispatchTypeOK ==
  /\ socket \in BOOLEAN
  /\ bucket \in [Limited -> 0 .. Fresh]
  /\ violations \in 0 .. MaxRejections
  /\ sent \in Seq([type : {"CONNECT", "CONNECT_ERROR", "ACK"}, id : Nat])
  /\ requests \in Nat
  /\ accepted \in [Limited -> Nat] /\ refilled \in [Limited -> 0 .. MaxRefills]
  /\ drops \in Nat

Zero == [e \in Limited |-> 0]

DispatchInit ==
  /\ socket = FALSE /\ bucket = [e \in Limited |-> Fresh] /\ violations = 0
  /\ sent = <<>> /\ requests = 0
  /\ accepted = Zero /\ refilled = Zero /\ drops = 0

-------------------------------------------------------------------------------
Reply(type, id) == [type |-> type, id |-> id]

\* Nothing without an id.
BuildAckPacket(id) == IF id = NoId THEN <<>> ELSE <<Reply("ACK", id)>>

\* CONNECT: the handler accepts the token or not; a namespace that is not "/" is
\* invalid.
ConnectPacket(ns, valid) ==
  /\ socket' = (socket \/ (ns = "/" /\ valid))
  /\ sent' = Append(sent, Reply(IF ns = "/" /\ valid THEN "CONNECT" ELSE "CONNECT_ERROR", NoId))
  /\ UNCHANGED <<limiter, outcomes>>

RemoveClient == bucket' = [e \in Limited |-> Fresh] /\ violations' = 0

\* DISCONNECT, heeded whether or not the client is in the namespace, or DisconnectAll
\* by another goroutine.
Disconnect ==
  /\ drops < MaxDrops
  /\ socket' = FALSE /\ RemoveClient
  /\ drops' = drops + 1
  /\ UNCHANGED <<sent, requests, accepted, refilled>>

\* The handler runs and its data, if any, goes into an ACK.
RunHandler(e, id) ==
  /\ requests' = requests + 1
  /\ sent' = IF e \in Silent THEN sent ELSE sent \o BuildAckPacket(id)

\* An event in an unknown namespace, or with no handler, or with no name in its data:
\* the error is logged.
Refuse ==
  /\ requests' = requests + 1
  /\ UNCHANGED <<socket, limiter, sent, accepted, refilled, drops>>

Pass(e, id) ==
  /\ e \in Unlimited
  /\ RunHandler(e, id)
  /\ UNCHANGED <<socket, limiter, accepted, refilled, drops>>

Tokens(e) == IF bucket[e] = Fresh THEN Burst ELSE bucket[e]

Allow_NotStored(e, id) ==
  /\ e \in Limited /\ Tokens(e) > 0
  /\ bucket' = [bucket EXCEPT ![e] = IF @ = Fresh THEN Fresh ELSE @ - 1]
  /\ accepted' = [accepted EXCEPT ![e] = @ + 1]
  /\ RunHandler(e, id)
  /\ UNCHANGED <<socket, violations, refilled, drops>>

\* Allow takes a token, of a limiter made on the first use.
Allow(e, id) ==
  /\ e \in Limited /\ Tokens(e) > 0
  /\ bucket' = [bucket EXCEPT ![e] = Tokens(e) - 1]
  /\ accepted' = [accepted EXCEPT ![e] = @ + 1]
  /\ RunHandler(e, id)
  /\ UNCHANGED <<socket, violations, refilled, drops>>

\* Allow finds no token; the last straw disconnects the client.  The middleware's
\* error reaches the bridge with no data, so that no ACK is built for it.
Reject(e) ==
  /\ e \in Limited /\ Tokens(e) = 0
  /\ IF violations < MaxRejections
       THEN violations' = violations + 1 /\ UNCHANGED <<bucket, socket, drops>>
       ELSE RemoveClient /\ socket' = FALSE /\ drops' = drops + 1
  /\ requests' = requests + 1
  /\ UNCHANGED <<sent, accepted, refilled>>

Refill(e) ==
  /\ bucket[e] < Burst /\ refilled[e] < MaxRefills
  /\ bucket' = [bucket EXCEPT ![e] = @ + 1]
  /\ refilled' = [refilled EXCEPT ![e] = @ + 1]
  /\ UNCHANGED <<socket, violations, sent, requests, accepted, drops>>

-------------------------------------------------------------------------------
Id(wanted) == IF wanted THEN requests + 1 ELSE NoId      \* the client numbers them

Others == SelectSeq(sent, LAMBDA p : p.type # "ACK")

DispatchNext ==
  \/ /\ Len(Others) + requests < MaxPackets
     /\ \/ Refuse
        \/ \E e \in Events : \/ Reject(e)
                             \/ \E wanted \in BOOLEAN : Pass(e, Id(wanted)) \/ Allow(e, Id(wanted))
  \/ /\ Len(Others) + requests < MaxPackets
     /\ \E ns \in {"/", "/other"}, valid \in BOOLEAN : ConnectPacket(ns, valid)
  \/ Disconnect
  \/ \E e \in Limited : Refill(e)

DispatchSpec == DispatchInit /\ [][DispatchNext]_dispatchVars

-------------------------------------------------------------------------------
\* A client gets no more of a limited event through than a burst, one for each token
\* regained, and another burst for each time it is disconnected, which it survives
\* when it goes on sending.  (RateLimiter.Allow, Remove.)
RateBounded ==
  \A e \in Limited : accepted[e] <= Burst * (1 + drops) + refilled[e]

===============================================================================
