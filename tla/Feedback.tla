------------------------------- MODULE Feedback -------------------------------
(***************************************************************************)
(* POST /api/feedback (server/internal/handler/feedback.go): a counter in  *)
(* Redis per address, which its first INCR is to let expire, and a message *)
(* to Discord.  One address is modelled, as those of others are other      *)
(* keys.  A command that fails may have been executed.                     *)
(***************************************************************************)
EXTENDS Naturals

CONSTANTS
  Requests,
  RateLimit, Window,  \* requests per life of the key; its life in ticks
  MaxFaults           \* bound

VARIABLES
  counter, ttl,   \* the key (0: there is none) and its time to live (0: for ever)
  pc, got,        \* a request's handler, and the count INCR gave it
  answer,         \* the HTTP status it was answered with
  orphaned,       \* history: no EXPIRE took effect in this life, nor is one to come
  faults

redis   == <<counter, ttl, orphaned>>
handler == <<pc, got, answer>>
vars == <<redis, handler, faults>>

Init ==
  /\ counter = 0 /\ ttl = 0 /\ orphaned = FALSE
  /\ pc = [r \in Requests |-> "new"] /\ got = [r \in Requests |-> 0]
  /\ answer = [r \in Requests |-> 0] /\ faults = 0

Goto(r, from, next) == pc[r] = from /\ pc' = [pc EXCEPT ![r] = next]
Fault == faults < MaxFaults /\ faults' = faults + 1

(* No webhook is configured, or the body is invalid.                       *)
Refuse(r) ==
  /\ Goto(r, "new", "done")
  /\ \E status \in {503, 422} : answer' = [answer EXCEPT ![r] = status]
  /\ UNCHANGED <<redis, got, faults>>

First_OffByOne(n) == n = 0
First(n) == n = 1

Incr(r) ==
  /\ Goto(r, "new", IF First(counter + 1) THEN "expire" ELSE "limit")
  /\ counter' = counter + 1
  /\ got' = [got EXCEPT ![r] = counter + 1]
  /\ UNCHANGED <<ttl, orphaned, answer, faults>>

(* Without Redis everybody is let through.                                 *)
IncrFails(r) ==
  /\ Fault /\ Goto(r, "new", "send")
  /\ \/ UNCHANGED redis
     \/ /\ counter' = counter + 1
        /\ orphaned' = (orphaned \/ counter = 0)
        /\ UNCHANGED ttl
  /\ UNCHANGED <<got, answer>>

(* EXPIRE of a key that is gone does nothing.                              *)
Expire(r) ==
  /\ Goto(r, "expire", "limit")
  /\ IF counter > 0 THEN ttl' = Window /\ orphaned' = FALSE ELSE UNCHANGED <<ttl, orphaned>>
  /\ UNCHANGED <<counter, got, answer, faults>>

ExpireFails(r) ==
  /\ Fault /\ Goto(r, "expire", "limit")
  /\ orphaned' = (counter > 0 /\ ttl = 0)
  /\ UNCHANGED <<counter, ttl, got, answer>>

Allowed(n) == n <= RateLimit

Limit(r) ==
  /\ IF Allowed(got[r])
     THEN Goto(r, "limit", "send") /\ UNCHANGED answer
     ELSE Goto(r, "limit", "done") /\ answer' = [answer EXCEPT ![r] = 429]
  /\ UNCHANGED <<redis, got, faults>>

Send(r) ==
  /\ Goto(r, "send", "done")
  /\ \E status \in {201, 502} : answer' = [answer EXCEPT ![r] = status]
  /\ UNCHANGED <<redis, got, faults>>

Tick ==
  /\ ttl > 0 /\ ttl' = ttl - 1
  /\ IF ttl = 1 THEN counter' = 0 ELSE UNCHANGED counter
  /\ UNCHANGED <<orphaned, handler, faults>>

Step(r) == Incr(r) \/ IncrFails(r) \/ Expire(r) \/ ExpireFails(r) \/ Limit(r) \/ Send(r)

Next == Tick \/ \E r \in Requests : Refuse(r) \/ Step(r)

(* Time passes, and a request that arrived is handled.                     *)
Running(r) == pc[r] # "new" /\ Step(r)
Fairness == WF_vars(Tick) /\ \A r \in Requests : WF_vars(Running(r))

Spec == Init /\ [][Next]_vars

-------------------------------------------------------------------------------
(* An address is let through again in the end: its key expires, unless the
   EXPIRE after the first INCR was lost, or the reply to that INCR was
   (feedback.go:162-170: nothing repairs that, the key stays for ever).    *)
KeyExpires == counter > 0 ~> counter = 0 \/ orphaned
===============================================================================
