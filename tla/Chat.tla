--------------------------------- MODULE Chat ---------------------------------
(***************************************************************************)
(* The chat: the handlers of chat:join, chat:send and chat:leave           *)
(* (server/internal/sio/chat_*.go) and the chat part of the disconnect     *)
(* handler, the list they keep in Redis, and the store of each client      *)
(* (client/src/features/chat).                                             *)
(*                                                                         *)
(* The handlers of different clients interleave at every access to Redis,  *)
(* to the room and to a send buffer; those of one client follow each       *)
(* other.  What the server sends a client arrives in order.  A client that *)
(* reconnects does so after the server has finished with its old session   *)
(* (module Connections has sessions that overlap).  The store's cap of 200 *)
(* messages is left out, and so is the way of a request to the server: a    *)
(* client asks when the server is done with what it asked before.          *)
(***************************************************************************)
EXTENDS Naturals, SequencesExt

CONSTANTS
  Clients,
  MaxKept,           \* ChatMaxMessages
  HistorySize,       \* ChatHistorySize
  MaxMessages, MaxRequests, MaxFailures   \* bounds

ASSUME ChatAssumption ==
  /\ IsFiniteSet(Clients)
  /\ HistorySize \in Nat /\ MaxKept \in Nat /\ HistorySize <= MaxKept

VARIABLES
  list, ttl,         \* the list in Redis, newest first, and whether it expires
  room,              \* the members of chat:global
  pc, event, to, history,   \* a handler, what it broadcasts, to whom; the history read
  inbox,             \* what the server sent a client and has not arrived
  open,              \* the client's panel is open and connected
  view, presence,    \* messages and presenceCount of the client's store
  made, asked, failures,    \* messages made; requests and failures so far
  replaced, blind,   \* history: what setHistory dropped; joins whose LRANGE failed
  raced              \* history: the last count was taken while an older one was out

redis   == <<list, ttl>>
handler == <<pc, event, to, history>>
client  == <<open, view, presence, replaced>>
vars == <<redis, room, handler, inbox, client, made, asked, failures, blind, raced>>

None == [kind |-> "none"]

Init ==
  /\ list = <<>> /\ ttl = FALSE /\ room = {}
  /\ pc = [c \in Clients |-> "idle"] /\ event = [c \in Clients |-> None]
  /\ to = [c \in Clients |-> {}] /\ history = [c \in Clients |-> <<>>]
  /\ inbox = [c \in Clients |-> <<>>]
  /\ open = {} /\ view = [c \in Clients |-> <<>>] /\ presence = [c \in Clients |-> 0]
  /\ made = 0 /\ asked = 0 /\ failures = 0
  /\ replaced = [c \in Clients |-> {}] /\ blind = {} /\ raced = FALSE

Goto(c, from, next) == pc[c] = from /\ pc' = [pc EXCEPT ![c] = next]
Fail == failures < MaxFailures /\ failures' = failures + 1
HoldsCount(c) == event[c].kind = "presence"

-------------------------------------------------------------------------------
(* The client opens its panel, closes it, sends, or loses its connection.  *)

Ask(c, first) ==
  /\ Goto(c, "idle", first)
  /\ asked < MaxRequests /\ asked' = asked + 1
  /\ UNCHANGED <<redis, room, event, to, history, replaced, made, failures, blind, raced>>

Open(c) == c \notin open /\ Ask(c, "enter") /\ open' = open \union {c}
           /\ UNCHANGED <<inbox, view, presence>>

\* The panel closes: leave, listeners off, reset.  The callback of a join stays.
Close(c) == c \in open /\ Ask(c, "leave") /\ open' = open \ {c}
            /\ view' = [view EXCEPT ![c] = <<>>] /\ presence' = [presence EXCEPT ![c] = 0]
            /\ UNCHANGED inbox

SendMessage(c) == c \in open /\ made < MaxMessages /\ Ask(c, "push")
                  /\ UNCHANGED <<inbox, open, view, presence>>

\* A member's connection is lost, with what was on its way; the store stays.
Lose(c) == c \in open \intersect room /\ Ask(c, "leave") /\ open' = open \ {c}
           /\ inbox' = [inbox EXCEPT ![c] = <<>>]
           /\ UNCHANGED <<view, presence>>

-------------------------------------------------------------------------------
(* chat:send.                                                              *)

\* A failed LPUSH skips the rest of persistChatMessage; the message is sent all the same.
Push(c) ==
  /\ made' = made + 1
  /\ event' = [event EXCEPT ![c] = [kind |-> "message", id |-> made + 1]]
  /\ \/ /\ Goto(c, "push", "trim")
        /\ list' = <<made + 1>> \o list /\ UNCHANGED failures
     \/ /\ Goto(c, "push", "members") /\ Fail /\ UNCHANGED list
  /\ UNCHANGED <<ttl, room, to, history, inbox, client, asked, blind, raced>>

Newest(n) == SubSeq(list, 1, IF n < Len(list) THEN n ELSE Len(list))

\* LTRIM and EXPIRE, either of which may fail, or both: they share the deadline of the
\* LPUSH.
Trim(c) ==
  /\ Goto(c, "trim", "members")
  /\ \/ list' = Newest(MaxKept) /\ ttl' = TRUE /\ UNCHANGED failures
     \/ list' = Newest(MaxKept) /\ Fail /\ UNCHANGED ttl
     \/ ttl' = TRUE /\ Fail /\ UNCHANGED list
     \/ Fail /\ UNCHANGED redis
  /\ UNCHANGED <<room, event, to, history, inbox, client, made, asked, blind, raced>>

\* BroadcastToRoom takes the members, then sends to them.  (No property compares what
\* two clients get, so that the sends may be one step.)
Members(c) ==
  /\ Goto(c, "members", "send")
  /\ to' = [to EXCEPT ![c] = room]
  /\ UNCHANGED <<redis, room, event, history, inbox, client, made, asked, failures, blind, raced>>

Send(c) ==
  LET joining == event[c].kind = "presence" /\ event[c].join IN
  /\ Goto(c, "send", IF joining THEN "answer" ELSE "idle")
  /\ inbox' = [d \in Clients |-> IF d \in to[c] THEN Append(inbox[d], event[c]) ELSE inbox[d]]
  /\ to' = [to EXCEPT ![c] = {}]
  /\ event' = IF joining THEN event ELSE [event EXCEPT ![c] = None]
  /\ UNCHANGED <<redis, room, history, client, made, asked, failures, blind, raced>>

\* The ACK of a join: the history read and the count broadcast.
Answer(c) ==
  /\ Goto(c, "answer", "idle")
  /\ inbox' = [inbox EXCEPT ![c] = Append(@, [kind |-> "joined", history |-> history[c],
                                              count |-> event[c].count])]
  /\ event' = [event EXCEPT ![c] = None] /\ history' = [history EXCEPT ![c] = <<>>]
  /\ UNCHANGED <<redis, room, to, client, made, asked, failures, blind, raced>>

-------------------------------------------------------------------------------
(* chat:join and chat:leave.                                               *)

\* The caller is known to the manager (module Connections has a join that is not), and
\* EnterRoom fails for an unknown namespace only.
Enter(c) ==
  /\ Goto(c, "enter", "history")
  /\ room' = room \union {c}
  /\ UNCHANGED <<redis, event, to, history, inbox, client, made, asked, failures, blind, raced>>

\* loadChatHistory: the newest, in the order they were pushed; nothing on an error.
LoadHistory(c) ==
  /\ Goto(c, "history", "count")
  /\ \/ /\ history' = [history EXCEPT ![c] = Reverse(Newest(HistorySize))]
        /\ blind' = blind \ {c} /\ UNCHANGED failures
     \/ Fail /\ blind' = blind \union {c} /\ UNCHANGED history
  /\ UNCHANGED <<redis, room, event, to, inbox, client, made, asked, raced>>

Leave_CountsFirst(c) ==
  /\ Goto(c, "leave", "members")
  /\ room' = room \ {c}
  /\ event' = [event EXCEPT ![c] = [kind |-> "presence", count |-> Cardinality(room),
                                    join |-> FALSE]]
  /\ raced' = \E d \in Clients \ {c} : HoldsCount(d)
  /\ UNCHANGED <<redis, to, history, inbox, client, made, asked, failures, blind>>

\* chat:leave, and HandleDisconnect of a member.
Leave(c) ==
  /\ Goto(c, "leave", "countLeft")
  /\ room' = room \ {c}
  /\ UNCHANGED <<redis, event, to, history, inbox, client, made, asked, failures, blind, raced>>

\* RoomMembers is counted, then the count is broadcast.
Count(c, from) ==
  /\ Goto(c, from, "members")
  /\ event' = [event EXCEPT ![c] = [kind |-> "presence", count |-> Cardinality(room),
                                    join |-> from = "count"]]
  /\ raced' = \E d \in Clients \ {c} : HoldsCount(d)
  /\ UNCHANGED <<redis, room, to, history, inbox, client, made, asked, failures, blind>>

Handle_ReadsFirst(c) ==
  \/ Push(c) \/ Trim(c) \/ Members(c) \/ Send(c) \/ Answer(c)
  \/ /\ Goto(c, "enter", "history") /\ history' = [history EXCEPT ![c] = Reverse(Newest(HistorySize))]
     /\ UNCHANGED <<redis, room, event, to, inbox, client, made, asked, failures, blind, raced>>
  \/ /\ Goto(c, "history", "count") /\ room' = room \union {c}
     /\ UNCHANGED <<redis, event, to, history, inbox, client, made, asked, failures, blind, raced>>
  \/ Count(c, "count") \/ Leave(c) \/ Count(c, "countLeft")

Handle(c) ==
  \/ Push(c) \/ Trim(c) \/ Members(c) \/ Send(c) \/ Answer(c)
  \/ Enter(c) \/ LoadHistory(c) \/ Count(c, "count") \/ Leave(c) \/ Count(c, "countLeft")

-------------------------------------------------------------------------------
(* The client's store.                                                     *)

appendMessage_Blindly(c, id) == view' = [view EXCEPT ![c] = Append(@, id)]

appendMessage(c, id) ==
  view' = IF id \in ToSet(view[c]) THEN view ELSE [view EXCEPT ![c] = Append(@, id)]

Receive(c) ==
  LET e == Head(inbox[c]) IN
  /\ inbox[c] # <<>> /\ inbox' = [inbox EXCEPT ![c] = Tail(@)]
  /\ \/ e.kind = "message" /\ c \in open /\ appendMessage(c, e.id)
        /\ UNCHANGED <<presence, replaced>>
     \/ e.kind = "presence" /\ c \in open /\ presence' = [presence EXCEPT ![c] = e.count]
        /\ UNCHANGED <<view, replaced>>
     \/ e.kind = "joined" /\ view' = [view EXCEPT ![c] = e.history]
        /\ presence' = [presence EXCEPT ![c] = e.count]
        /\ replaced' = [replaced EXCEPT ![c] = ToSet(view[c]) \ ToSet(e.history)]
     \/ e.kind # "joined" /\ c \notin open /\ UNCHANGED <<view, presence, replaced>>
  /\ UNCHANGED <<redis, room, handler, open, made, asked, failures, blind, raced>>

\* ChatTTLSec, an hour, without a message.
Expires ==
  /\ ttl /\ \A c \in Clients : pc[c] # "trim"
  /\ list' = <<>> /\ ttl' = FALSE
  /\ UNCHANGED <<room, handler, inbox, client, made, asked, failures, blind, raced>>

Next ==
  \/ \E c \in Clients : Open(c) \/ Close(c) \/ SendMessage(c) \/ Lose(c) \/ Handle(c) \/ Receive(c)
  \/ Expires

Spec == Init /\ [][Next]_vars

-------------------------------------------------------------------------------
\* Nothing under way for any client, and c in the room with its panel open.
AtRest(c) ==
  /\ c \in open /\ c \in room
  /\ \A d \in Clients : pc[d] = "idle" /\ inbox[d] = <<>>

\* A client at rest shows the newest messages of the list, whatever was sent while it
\* joined, closed, reopened or reconnected, except those that setHistory replaced
\* because they arrived ahead of the history, and those of a history not read.
\* (chat:join enters the room before it reads; setHistory, appendMessage.)
ShowsNewest ==
  \A c \in Clients : AtRest(c) /\ c \notin blind =>
    ToSet(Newest(HistorySize)) \subseteq ToSet(view[c]) \union replaced[c]

\* No message is shown twice: the history and the broadcast may both bring it.
\* (appendMessage.)
ShownOnce == \A c \in Clients : IsInjective(view[c])

\* A client at rest shows the number of members, unless the last count was taken
\* while the broadcast or the answer with an older one was still going out.
\* (The handlers of chat:join, chat:leave and disconnect.)
PresenceSettles ==
  \A c \in Clients : AtRest(c) /\ ~raced => presence[c] = Cardinality(room)

===============================================================================
