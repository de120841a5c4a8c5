----------------------------- MODULE ChatProofs -----------------------------
(***************************************************************************)
(* Proofs about module Chat, for any finite set of clients and any sizes   *)
(* of the list and of a history: no message is shown twice, the number of   *)
(* members settles, and the newest messages arrive.                        *)
(***************************************************************************)
EXTENDS Chat, SequenceTheorems, FiniteSetTheorems, TLAPS

-------------------------------------------------------------------------------
(* Sequences.                                                              *)

First(s, n) == SubSeq(s, 1, IF n < Len(s) THEN n ELSE Len(s))

LEMMA FirstSeq ==
  ASSUME NEW S, NEW s \in Seq(S), NEW n \in Nat
  PROVE  /\ First(s, n) \in Seq(S)
         /\ Len(First(s, n)) = IF n < Len(s) THEN n ELSE Len(s)
         /\ \A i \in 1 .. Len(First(s, n)) : First(s, n)[i] = s[i]
<1> DEFINE k == IF n < Len(s) THEN n ELSE Len(s)
<1>1. k \in Nat /\ k <= Len(s) /\ \A i \in 1 .. k : s[i] \in S
  OBVIOUS
<1> HIDE DEF k
<1>2. /\ SubSeq(s, 1, k) \in Seq(S)
      /\ Len(SubSeq(s, 1, k)) = IF 1 <= k THEN k - 1 + 1 ELSE 0
      /\ \A i \in 1 .. k - 1 + 1 : SubSeq(s, 1, k)[i] = s[1 + i - 1]
  BY <1>1, SubSeqProperties
<1>3. Len(SubSeq(s, 1, k)) = k /\ \A i \in 1 .. k : SubSeq(s, 1, k)[i] = s[i]
  BY <1>1, <1>2
<1> QED
  BY <1>2, <1>3 DEF First, k

LEMMA FirstPushed ==
  ASSUME NEW s \in Seq(Nat), NEW m \in Nat, NEW n \in Nat
  PROVE  /\ <<m>> \o s \in Seq(Nat) /\ Len(<<m>> \o s) = Len(s) + 1
         /\ \A i \in 1 .. Len(s) + 1 : (<<m>> \o s)[i] = IF i = 1 THEN m ELSE s[i - 1]
         /\ ToSet(First(<<m>> \o s, n)) \subseteq {m} \union ToSet(First(s, n))
<1> DEFINE t == <<m>> \o s
<1>1. /\ t \in Seq(Nat) /\ Len(t) = Len(s) + 1
      /\ \A i \in 1 .. Len(s) + 1 : t[i] = IF i = 1 THEN m ELSE s[i - 1]
  OBVIOUS
<1> HIDE DEF t
<1>2. /\ First(t, n) \in Seq(Nat) /\ Len(First(t, n)) = IF n < Len(t) THEN n ELSE Len(t)
      /\ \A i \in 1 .. Len(First(t, n)) : First(t, n)[i] = t[i]
  BY <1>1, FirstSeq
<1>3. /\ First(s, n) \in Seq(Nat) /\ Len(First(s, n)) = IF n < Len(s) THEN n ELSE Len(s)
      /\ \A i \in 1 .. Len(First(s, n)) : First(s, n)[i] = s[i]
  BY FirstSeq
<1> DEFINE a == First(t, n)
           b == First(s, n)
<1> HIDE DEF a, b
<1>4. /\ Len(a) \in Nat /\ DOMAIN a = 1 .. Len(a) /\ Len(a) <= n /\ Len(a) <= Len(s) + 1
      /\ Len(b) \in Nat /\ DOMAIN b = 1 .. Len(b) /\ Len(a) <= Len(b) + 1
  BY <1>1, <1>2, <1>3 DEF a, b
<1>5. ASSUME NEW i \in DOMAIN a
      PROVE  a[i] = m \/ \E j \in DOMAIN b : a[i] = b[j]
  <2>1. i \in 1 .. Len(a) /\ i \in 1 .. Len(s) + 1
    BY <1>1, <1>4
  <2>2. a[i] = t[i] /\ t[i] = IF i = 1 THEN m ELSE s[i - 1]
    BY <1>1, <1>2, <2>1 DEF a
  <2>3. CASE i # 1
    <3>1. i - 1 \in 1 .. Len(b)
      BY <1>4, <2>1, <2>3
    <3>2. b[i - 1] = s[i - 1]
      BY <1>3, <3>1 DEF b
    <3> QED
      BY <1>4, <2>2, <2>3, <3>1, <3>2
  <2> QED
    BY <2>2, <2>3
<1>6. ToSet(a) \subseteq {m} \union ToSet(b)
  BY <1>5 DEF ToSet
<1> QED
  BY <1>1, <1>6 DEF a, b, t

LEMMA FirstTrimmed ==
  ASSUME NEW s \in Seq(Nat), NEW k \in Nat, NEW n \in Nat
  PROVE  ToSet(First(First(s, k), n)) \subseteq ToSet(First(s, n))
<1> DEFINE t == First(s, k)
<1>1. /\ t \in Seq(Nat) /\ Len(t) <= Len(s)
      /\ \A i \in 1 .. Len(t) : t[i] = s[i]
  BY FirstSeq
<1> HIDE DEF t
<1>2. /\ First(t, n) \in Seq(Nat) /\ Len(First(t, n)) = IF n < Len(t) THEN n ELSE Len(t)
      /\ \A i \in 1 .. Len(First(t, n)) : First(t, n)[i] = t[i]
  BY <1>1, FirstSeq
<1>3. /\ First(s, n) \in Seq(Nat) /\ Len(First(s, n)) = IF n < Len(s) THEN n ELSE Len(s)
      /\ \A i \in 1 .. Len(First(s, n)) : First(s, n)[i] = s[i]
  BY FirstSeq
<1> DEFINE a == First(t, n)
           b == First(s, n)
<1> HIDE DEF a, b
<1>4. /\ Len(a) \in Nat /\ DOMAIN a = 1 .. Len(a) /\ Len(a) <= n /\ Len(a) <= Len(t)
      /\ Len(b) \in Nat /\ DOMAIN b = 1 .. Len(b) /\ Len(a) <= Len(b)
  BY <1>1, <1>2, <1>3 DEF a, b
<1>5. ASSUME NEW i \in DOMAIN a
      PROVE  i \in DOMAIN b /\ a[i] = b[i]
  <2>1. i \in 1 .. Len(a) /\ i \in 1 .. Len(t) /\ i \in 1 .. Len(b)
    BY <1>1, <1>4
  <2>2. a[i] = t[i]
    BY <1>2, <2>1 DEF a
  <2>3. t[i] = s[i]
    BY <1>1, <2>1
  <2>4. b[i] = s[i]
    BY <1>3, <2>1 DEF b
  <2> QED
    BY <1>4, <2>1, <2>2, <2>3, <2>4
<1>6. ToSet(a) \subseteq ToSet(b)
  BY <1>5 DEF ToSet
<1> QED
  BY <1>6 DEF a, b, t

LEMMA ReverseSeq ==
  ASSUME NEW S, NEW s \in Seq(S)
  PROVE  /\ Reverse(s) \in Seq(S)
         /\ ToSet(Reverse(s)) = ToSet(s)
         /\ IsInjective(s) => IsInjective(Reverse(s))
<1>1. /\ DOMAIN Reverse(s) = 1 .. Len(s)
      /\ \A i \in 1 .. Len(s) : Reverse(s)[i] = s[Len(s) - i + 1]
  BY DEF Reverse
<1>2. Reverse(s) \in Seq(S)
  BY DEF Reverse
<1>3. \A i \in 1 .. Len(s) : Len(s) - i + 1 \in 1 .. Len(s) /\ i = Len(s) - (Len(s) - i + 1) + 1
  OBVIOUS
<1>4. ToSet(Reverse(s)) = ToSet(s)
  BY <1>1, <1>3 DEF ToSet
<1>5. IsInjective(s) => IsInjective(Reverse(s))
  BY <1>1, <1>3 DEF IsInjective
<1> QED
  BY <1>2, <1>4, <1>5

LEMMA Appended ==
  ASSUME NEW S, NEW s \in Seq(S), NEW e \in S
  PROVE  /\ Append(s, e) \in Seq(S)
         /\ DOMAIN Append(s, e) = DOMAIN s \union {Len(s) + 1}
         /\ \A i \in DOMAIN s : Append(s, e)[i] = s[i] /\ i < Len(s) + 1 /\ i \in Nat
         /\ Append(s, e)[Len(s) + 1] = e
OBVIOUS

LEMMA TailShifts ==
  ASSUME NEW S, NEW s \in Seq(S), s # <<>>
  PROVE  /\ Tail(s) \in Seq(S) /\ Head(s) = s[1] /\ s[1] \in S /\ 1 \in DOMAIN s
         /\ DOMAIN s \subseteq Nat \ {0}
         /\ \A i \in DOMAIN Tail(s) : i \in Nat \ {0} /\ i + 1 \in DOMAIN s /\ Tail(s)[i] = s[i + 1]
         /\ \A i \in DOMAIN s : i # 1 => i - 1 \in DOMAIN Tail(s) /\ Tail(s)[i - 1] = s[i]
OBVIOUS

-------------------------------------------------------------------------------
(* Types, and what a handler has in hand at each of its steps.             *)

Message  == [kind : {"message"}, id : Nat]
Presence == [kind : {"presence"}, count : Nat, join : BOOLEAN]
Joined   == [kind : {"joined"}, history : Seq(Nat), count : Nat]
Sent     == Message \union Presence \union Joined

ChatTypeOK ==
  /\ list \in Seq(Nat)
  /\ room \subseteq Clients /\ open \subseteq Clients /\ blind \subseteq Clients
  /\ pc \in [Clients -> {"idle", "enter", "history", "count", "members", "send", "answer",
                         "leave", "countLeft", "push", "trim"}]
  /\ event \in [Clients -> {None} \union Message \union Presence]
  /\ to \in [Clients -> SUBSET Clients]
  /\ history \in [Clients -> Seq(Nat)]
  /\ inbox \in [Clients -> Seq(Sent)]
  /\ view \in [Clients -> Seq(Nat)]
  /\ presence \in [Clients -> Nat]
  /\ replaced \in [Clients -> SUBSET Nat]
  /\ made \in Nat

InHand(c) ==
  /\ pc[c] \in {"idle", "enter", "history", "count", "leave", "countLeft", "push"} => event[c] = None
  /\ pc[c] = "trim" => event[c] \in Message
  /\ pc[c] \in {"members", "send"} => event[c] \in Message \union Presence
  /\ pc[c] = "answer" => event[c] \in Presence /\ event[c].join

(* Only a client whose panel is open is in the room, until it leaves.      *)
Placed(c) ==
  /\ pc[c] = "enter" => c \in open \ room
  /\ c \in room \ open => pc[c] = "leave"

ChatTypes == ChatTypeOK /\ \A c \in Clients : InHand(c) /\ Placed(c)

LEMMA Kinds ==
  /\ None.kind = "none" /\ None \notin Message \union Presence \union Joined
  /\ \A e \in Message : e.kind = "message" /\ e.id \in Nat /\ e \notin Presence \union Joined
  /\ \A e \in Presence : e.kind = "presence" /\ e.count \in Nat /\ e.join \in BOOLEAN
                         /\ e \notin Message \union Joined
  /\ \A e \in Joined : e.kind = "joined" /\ e.history \in Seq(Nat) /\ e.count \in Nat
                       /\ e \notin Message \union Presence
BY DEF None, Message, Presence, Joined

LEMMA CountIsNat ==
  ASSUME NEW R \in SUBSET Clients
  PROVE  Cardinality(R) \in Nat
BY ChatAssumption, FS_Subset, FS_CardinalityType

LEMMA TypesInitially == Init => ChatTypes
<1> SUFFICES ASSUME Init PROVE ChatTypes
  OBVIOUS
<1>1. ChatTypeOK
  BY DEF Init, ChatTypeOK
<1>2. \A c \in Clients : InHand(c) /\ Placed(c)
  BY DEF Init, InHand, Placed
<1> QED
  BY <1>1, <1>2 DEF ChatTypes

(* The client's own steps: its handler starts, with nothing in hand.       *)
LEMMA AskTypes ==
  ASSUME ChatTypes, NEW c \in Clients, Open(c) \/ Close(c) \/ SendMessage(c) \/ Lose(c)
  PROVE  ChatTypes'
<1> USE DEF ChatTypes
<1>1. /\ pc[c] = "idle" /\ pc' = [pc EXCEPT ![c] = pc'[c]]
      /\ pc'[c] \in {"enter", "leave", "push"}
      /\ pc'[c] = "enter" => c \notin open /\ open' = open \union {c}
      /\ open' \in {open, open \union {c}, open \ {c}}
      /\ c \notin open' => c \notin open \/ pc'[c] = "leave"
      /\ UNCHANGED <<list, ttl, room, event, to, history, replaced, made, failures,
                     blind, raced>>
  BY DEF Open, Close, SendMessage, Lose, Ask, Goto, redis, ChatTypeOK
<1>2. /\ inbox' \in [Clients -> Seq(Sent)] /\ view' \in [Clients -> Seq(Nat)]
      /\ presence' \in [Clients -> Nat]
  <2>1. /\ inbox' = inbox \/ inbox' = [inbox EXCEPT ![c] = <<>>]
        /\ view' = view \/ view' = [view EXCEPT ![c] = <<>>]
        /\ presence' = presence \/ presence' = [presence EXCEPT ![c] = 0]
    BY DEF Open, Close, SendMessage, Lose
  <2> DEFINE none == <<>>
  <2>2. none \in Seq(Sent) /\ none \in Seq(Nat) /\ 0 \in Nat
    OBVIOUS
  <2>3. /\ inbox' = inbox \/ inbox' = [inbox EXCEPT ![c] = none]
        /\ view' = view \/ view' = [view EXCEPT ![c] = none]
        /\ presence' = presence \/ presence' = [presence EXCEPT ![c] = 0]
    BY <2>1
  <2> HIDE DEF none
  <2>4. inbox \in [Clients -> Seq(Sent)] /\ view \in [Clients -> Seq(Nat)]
        /\ presence \in [Clients -> Nat]
    BY DEF ChatTypeOK
  <2>5. inbox' \in [Clients -> Seq(Sent)]
    BY <2>2, <2>3, <2>4
  <2>6. view' \in [Clients -> Seq(Nat)]
    BY <2>2, <2>3, <2>4
  <2>7. presence' \in [Clients -> Nat]
    <3> DEFINE zero == 0
    <3>1. zero \in Nat /\ (presence' = presence \/ presence' = [presence EXCEPT ![c] = zero])
      BY <2>3
    <3> HIDE DEF zero
    <3> QED
      BY <2>4, <3>1
  <2> QED
    BY <2>5, <2>6, <2>7
<1>3. ChatTypeOK'
  BY <1>1, <1>2 DEF ChatTypeOK
<1>4. ASSUME NEW d \in Clients
      PROVE  InHand(d)' /\ Placed(d)'
  <2>1. InHand(d) /\ Placed(d) /\ InHand(c) /\ Placed(c)
    OBVIOUS
  <2>2. CASE d = c
    BY <1>1, <2>1, <2>2 DEF InHand, Placed, ChatTypeOK
  <2>3. CASE d # c
    BY <1>1, <2>1, <2>3 DEF InHand, Placed, ChatTypeOK
  <2> QED
    BY <2>2, <2>3
<1> QED
  BY <1>3, <1>4

(* A step of the handler of c that leaves the room alone: what matters is  *)
(* what it then has in hand.                                               *)
LEMMA HandlerTypes ==
  ASSUME ChatTypes, NEW c \in Clients, pc' = [pc EXCEPT ![c] = pc'[c]],
         event' = [event EXCEPT ![c] = event'[c]],
         InHand(c)', pc[c] \notin {"enter", "leave"}, pc'[c] # "enter",
         UNCHANGED <<room, open>>
  PROVE  \A d \in Clients : InHand(d)' /\ Placed(d)'
<1> SUFFICES ASSUME NEW d \in Clients, d # c
             PROVE  InHand(d)' /\ Placed(d)'
  BY DEF ChatTypes, Placed
<1>1. InHand(d) /\ Placed(d) /\ pc'[d] = pc[d] /\ event'[d] = event[d]
  BY DEF ChatTypes, ChatTypeOK
<1> QED
  BY <1>1 DEF InHand, Placed

LEMMA PushTypes ==
  ASSUME ChatTypes, NEW c \in Clients, Push(c)
  PROVE  ChatTypes'
<1> USE DEF ChatTypes
<1>1. made + 1 \in Nat /\ list \in Seq(Nat)
  BY DEF ChatTypeOK
<1>2. <<made + 1>> \o list \in Seq(Nat)
  BY <1>1
<1>3. event'[c] = [kind |-> "message", id |-> made + 1] /\ event'[c] \in Message
  BY <1>1 DEF Push, ChatTypeOK, Message
<1>4. pc[c] = "push" /\ pc' = [pc EXCEPT ![c] = pc'[c]] /\ pc'[c] \in {"trim", "members"}
  BY DEF Push, Goto, ChatTypeOK
<1>5. ChatTypeOK'
  <2>1. list' \in Seq(Nat)
    <3> DEFINE pushed == <<made + 1>> \o list
    <3>1. list' = pushed \/ UNCHANGED list
      BY DEF Push
    <3>2. pushed \in Seq(Nat)
      BY <1>2
    <3> HIDE DEF pushed
    <3> QED
      BY <3>1, <3>2 DEF ChatTypeOK
  <2>2. made' \in Nat /\ UNCHANGED <<room, to, history, inbox, open, view, presence, replaced, blind>>
    BY <1>1 DEF Push, client
  <2>3. event' \in [Clients -> {None} \union Message \union Presence]
    <3>1. event \in [Clients -> {None} \union Message \union Presence]
      BY DEF ChatTypeOK
    <3>2. event' = [event EXCEPT ![c] = event'[c]]
      BY <1>3 DEF Push
    <3> QED
      BY <1>3, <3>1, <3>2
  <2>4. pc' = [pc EXCEPT ![c] = "trim"] \/ pc' = [pc EXCEPT ![c] = "members"]
    BY <1>4
  <2> QED
    BY <2>1, <2>2, <2>3, <2>4 DEF ChatTypeOK
<1>6. InHand(c)'
  BY <1>3, <1>4 DEF InHand
<1>7. \A d \in Clients : InHand(d)' /\ Placed(d)'
  BY <1>3, <1>4, <1>6, HandlerTypes DEF Push, client
<1> QED
  BY <1>5, <1>7

LEMMA TrimTypes ==
  ASSUME ChatTypes, NEW c \in Clients, Trim(c)
  PROVE  ChatTypes'
<1> USE DEF ChatTypes
<1>1. Newest(MaxKept) \in Seq(Nat)
  BY FirstSeq, ChatAssumption DEF ChatTypeOK, Newest, First
<1>2. list' \in Seq(Nat)
  BY <1>1 DEF Trim, ChatTypeOK, redis
<1>3. UNCHANGED <<room, event, to, history, inbox, open, view, presence, replaced, made, blind>>
  BY DEF Trim, client
<1>4. pc[c] = "trim" /\ pc' = [pc EXCEPT ![c] = "members"] /\ pc'[c] = "members"
  BY DEF Trim, Goto, ChatTypeOK
<1>5. ChatTypeOK'
  BY <1>2, <1>3, <1>4 DEF ChatTypeOK
<1>6. InHand(c)' /\ event' = [event EXCEPT ![c] = event'[c]]
  BY <1>3, <1>4 DEF InHand, ChatTypeOK
<1>7. \A d \in Clients : InHand(d)' /\ Placed(d)'
  BY <1>3, <1>4, <1>6, HandlerTypes
<1> QED
  BY <1>5, <1>7

LEMMA MembersTypes ==
  ASSUME ChatTypes, NEW c \in Clients, Members(c)
  PROVE  ChatTypes'
<1> USE DEF ChatTypes
<1>1. UNCHANGED <<list, room, event, history, inbox, open, view, presence, replaced,
                  made, blind>>
  BY DEF Members, client, redis
<1>2. pc[c] = "members" /\ pc' = [pc EXCEPT ![c] = "send"] /\ pc'[c] = "send"
  BY DEF Members, Goto, ChatTypeOK
<1>3. ChatTypeOK'
  BY <1>1, <1>2 DEF Members, ChatTypeOK
<1>4. InHand(c)' /\ event' = [event EXCEPT ![c] = event'[c]]
  BY <1>1, <1>2 DEF InHand, ChatTypeOK
<1>5. \A d \in Clients : InHand(d)' /\ Placed(d)'
  BY <1>1, <1>2, <1>4, HandlerTypes
<1> QED
  BY <1>3, <1>5

LEMMA SendTypes ==
  ASSUME ChatTypes, NEW c \in Clients, Send(c)
  PROVE  ChatTypes'
<1> USE DEF ChatTypes
<1>1. pc[c] = "send" /\ event[c] \in Message \union Presence
  BY DEF Send, Goto, InHand
<1>2. UNCHANGED <<list, room, history, open, view, presence, replaced, made, blind>>
  BY DEF Send, client, redis
<1>3. event[c] \in Sent
  BY <1>1 DEF Sent
<1>4. inbox' \in [Clients -> Seq(Sent)]
  <2> DEFINE Sends(d) == IF d \in to[c] THEN Append(inbox[d], event[c]) ELSE inbox[d]
  <2>1. \A d \in Clients : Sends(d) \in Seq(Sent)
    BY <1>3 DEF ChatTypeOK
  <2>2. inbox' = [d \in Clients |-> Sends(d)]
    BY DEF Send
  <2> HIDE DEF Sends
  <2> QED
    BY <2>1, <2>2
<1>5. /\ pc' = [pc EXCEPT ![c] = pc'[c]] /\ event' = [event EXCEPT ![c] = event'[c]]
      /\ \/ pc'[c] = "answer" /\ event'[c] = event[c] /\ event[c].kind = "presence" /\ event[c].join
         \/ pc'[c] = "idle" /\ event'[c] = None
  BY DEF Send, Goto, ChatTypeOK
<1>6. InHand(c)'
  BY <1>1, <1>5, Kinds DEF InHand
<1>7. ChatTypeOK'
  <2>1. event' \in [Clients -> {None} \union Message \union Presence]
    <3>1. event \in [Clients -> {None} \union Message \union Presence]
      BY DEF ChatTypeOK
    <3>2. event'[c] \in {None} \union Message \union Presence
      BY <1>1, <1>5
    <3> QED
      BY <1>5, <3>1, <3>2
  <2>2. pc' = [pc EXCEPT ![c] = "answer"] \/ pc' = [pc EXCEPT ![c] = "idle"]
    BY <1>5
  <2>3. to' = [to EXCEPT ![c] = {}]
    BY DEF Send
  <2> QED
    BY <1>2, <1>4, <2>1, <2>2, <2>3 DEF ChatTypeOK
<1>8. \A d \in Clients : InHand(d)' /\ Placed(d)'
  BY <1>1, <1>2, <1>5, <1>6, HandlerTypes
<1> QED
  BY <1>7, <1>8

LEMMA AnswerTypes ==
  ASSUME ChatTypes, NEW c \in Clients, Answer(c)
  PROVE  ChatTypes'
<1> USE DEF ChatTypes
<1> DEFINE joined == [kind |-> "joined", history |-> history[c], count |-> event[c].count]
<1>1. pc[c] = "answer" /\ event[c] \in Presence
  BY DEF Answer, Goto, InHand
<1>2. UNCHANGED <<list, room, to, open, view, presence, replaced, made, blind>>
  BY DEF Answer, client, redis
<1>3. joined \in Sent
  <2>1. event[c].count \in Nat /\ history[c] \in Seq(Nat)
    BY <1>1, Kinds DEF ChatTypeOK
  <2> QED
    BY <2>1 DEF Sent, Joined
<1>4. inbox' \in [Clients -> Seq(Sent)]
  <2>1. Append(inbox[c], joined) \in Seq(Sent)
    BY <1>3 DEF ChatTypeOK
  <2>2. inbox' = [inbox EXCEPT ![c] = Append(inbox[c], joined)]
    BY DEF Answer
  <2> QED
    BY <2>1, <2>2 DEF ChatTypeOK
<1>5. /\ pc' = [pc EXCEPT ![c] = pc'[c]] /\ event' = [event EXCEPT ![c] = event'[c]]
      /\ pc'[c] = "idle" /\ event'[c] = None
  BY DEF Answer, Goto, ChatTypeOK
<1>6. InHand(c)'
  BY <1>5 DEF InHand
<1>7. history' \in [Clients -> Seq(Nat)]
  BY DEF Answer, ChatTypeOK
<1>8. ChatTypeOK'
  BY <1>2, <1>4, <1>5, <1>7 DEF ChatTypeOK
<1>9. \A d \in Clients : InHand(d)' /\ Placed(d)'
  BY <1>1, <1>2, <1>5, <1>6, HandlerTypes
<1> QED
  BY <1>8, <1>9

LEMMA LoadHistoryTypes ==
  ASSUME ChatTypes, NEW c \in Clients, LoadHistory(c)
  PROVE  ChatTypes'
<1> USE DEF ChatTypes
<1>1. Reverse(Newest(HistorySize)) \in Seq(Nat)
  BY FirstSeq, ReverseSeq, ChatAssumption DEF ChatTypeOK, Newest, First
<1>2. history' \in [Clients -> Seq(Nat)] /\ blind' \subseteq Clients
  BY <1>1 DEF LoadHistory, ChatTypeOK
<1>3. UNCHANGED <<list, room, event, to, inbox, open, view, presence, replaced, made>>
  BY DEF LoadHistory, client, redis
<1>4. pc[c] = "history" /\ pc' = [pc EXCEPT ![c] = "count"] /\ pc'[c] = "count"
  BY DEF LoadHistory, Goto, ChatTypeOK
<1>5. ChatTypeOK'
  BY <1>2, <1>3, <1>4 DEF ChatTypeOK
<1>6. InHand(c)' /\ event' = [event EXCEPT ![c] = event'[c]]
  BY <1>3, <1>4 DEF InHand, ChatTypeOK
<1>7. \A d \in Clients : InHand(d)' /\ Placed(d)'
  BY <1>3, <1>4, <1>6, HandlerTypes
<1> QED
  BY <1>5, <1>7

LEMMA CountTypes ==
  ASSUME ChatTypes, NEW c \in Clients, NEW from \in {"count", "countLeft"}, Count(c, from)
  PROVE  ChatTypes'
<1> USE DEF ChatTypes
<1>1. UNCHANGED <<list, room, to, history, inbox, open, view, presence, replaced, made,
                  blind>>
  BY DEF Count, client, redis
<1>2. /\ pc[c] = from /\ pc' = [pc EXCEPT ![c] = "members"] /\ pc'[c] = "members"
      /\ event' = [event EXCEPT ![c] = event'[c]]
      /\ event'[c] = [kind |-> "presence", count |-> Cardinality(room), join |-> from = "count"]
  BY DEF Count, Goto, ChatTypeOK
<1>3. event'[c] \in Presence
  <2>1. Cardinality(room) \in Nat
    BY CountIsNat DEF ChatTypeOK
  <2>2. \A j \in BOOLEAN, n \in Nat : [kind |-> "presence", count |-> n, join |-> j] \in Presence
    BY DEF Presence
  <2>3. (from = "count") \in BOOLEAN
    OBVIOUS
  <2> QED
    BY <1>2, <2>1, <2>2, <2>3, Zenon
<1>4. ChatTypeOK'
  BY <1>1, <1>2, <1>3 DEF ChatTypeOK
<1>5. InHand(c)'
  BY <1>2, <1>3 DEF InHand
<1>6. \A d \in Clients : InHand(d)' /\ Placed(d)'
  BY <1>1, <1>2, <1>5, HandlerTypes
<1> QED
  BY <1>4, <1>6

LEMMA EnterLeaveTypes ==
  ASSUME ChatTypes, NEW c \in Clients, Enter(c) \/ Leave(c)
  PROVE  ChatTypes'
<1> USE DEF ChatTypes
<1>1. UNCHANGED <<list, event, to, history, inbox, open, view, presence, replaced, made,
                  blind>>
  BY DEF Enter, Leave, client, redis
<1>2. /\ pc' = [pc EXCEPT ![c] = pc'[c]]
      /\ \/ pc[c] = "enter" /\ pc'[c] = "history" /\ room' = room \union {c} /\ c \in open
         \/ pc[c] = "leave" /\ pc'[c] = "countLeft" /\ room' = room \ {c}
  BY DEF Enter, Leave, Goto, ChatTypeOK, Placed
<1>3. ChatTypeOK'
  BY <1>1, <1>2 DEF ChatTypeOK
<1>4. ASSUME NEW d \in Clients
      PROVE  InHand(d)' /\ Placed(d)'
  <2>1. InHand(d) /\ Placed(d)
    OBVIOUS
  <2>2. CASE d = c
    BY <1>1, <1>2, <2>1, <2>2 DEF InHand, Placed, ChatTypeOK
  <2>3. CASE d # c
    BY <1>1, <1>2, <2>1, <2>3 DEF InHand, Placed, ChatTypeOK
  <2> QED
    BY <2>2, <2>3
<1> QED
  BY <1>3, <1>4

LEMMA ReceiveTypes ==
  ASSUME ChatTypes, NEW c \in Clients, Receive(c)
  PROVE  ChatTypes'
<1> USE DEF ChatTypes
<1> DEFINE e == Head(inbox[c])
<1>1. UNCHANGED <<list, room, pc, event, to, history, open, made, blind>>
  BY DEF Receive, handler, redis
<1>2. e \in Sent /\ Tail(inbox[c]) \in Seq(Sent)
  BY DEF Receive, ChatTypeOK
<1>3. inbox' \in [Clients -> Seq(Sent)]
  BY <1>2 DEF Receive, ChatTypeOK
<1>4. /\ view' \in [Clients -> Seq(Nat)] /\ presence' \in [Clients -> Nat]
      /\ replaced' \in [Clients -> SUBSET Nat]
  <2>1. CASE e.kind = "message" /\ appendMessage(c, e.id) /\ UNCHANGED <<presence, replaced>>
    <3>1. e.id \in Nat
      BY <1>2, <2>1, Kinds DEF Sent
    <3>2. Append(view[c], e.id) \in Seq(Nat)
      BY <3>1 DEF ChatTypeOK
    <3> HIDE DEF e
    <3> QED
      BY <2>1, <3>2 DEF appendMessage, ChatTypeOK
  <2>2. CASE /\ e.kind = "presence" /\ presence' = [presence EXCEPT ![c] = e.count]
             /\ UNCHANGED <<view, replaced>>
    <3>1. e.count \in Nat
      BY <1>2, <2>2, Kinds DEF Sent
    <3> QED
      BY <2>2, <3>1 DEF ChatTypeOK
  <2>3. CASE /\ e.kind = "joined" /\ view' = [view EXCEPT ![c] = e.history]
             /\ presence' = [presence EXCEPT ![c] = e.count]
             /\ replaced' = [replaced EXCEPT ![c] = ToSet(view[c]) \ ToSet(e.history)]
    <3>1. e.count \in Nat /\ e.history \in Seq(Nat)
      BY <1>2, <2>3, Kinds DEF Sent
    <3>2. ToSet(view[c]) \in SUBSET Nat
      BY DEF ToSet, ChatTypeOK
    <3> HIDE DEF e
    <3> QED
      BY <2>3, <3>1, <3>2 DEF ChatTypeOK
  <2>4. CASE UNCHANGED <<view, presence, replaced>>
    BY <2>4 DEF ChatTypeOK
  <2> QED
    BY <2>1, <2>2, <2>3, <2>4 DEF Receive
<1>5. ChatTypeOK'
  BY <1>1, <1>3, <1>4 DEF ChatTypeOK
<1>6. \A d \in Clients : InHand(d)' /\ Placed(d)'
  BY <1>1 DEF InHand, Placed
<1> QED
  BY <1>5, <1>6

LEMMA ExpiresTypes ==
  ASSUME ChatTypes, Expires
  PROVE  ChatTypes'
<1> USE DEF ChatTypes
<1>1. list' = <<>>
      /\ UNCHANGED <<room, pc, event, to, history, inbox, open, view, presence, replaced, made, blind>>
  BY DEF Expires, handler, client
<1>2. ChatTypeOK'
  BY <1>1 DEF ChatTypeOK
<1>3. \A d \in Clients : InHand(d)' /\ Placed(d)'
  BY <1>1 DEF InHand, Placed
<1> QED
  BY <1>2, <1>3

LEMMA TypesInductive == ChatTypes /\ [Next]_vars => ChatTypes'
<1> SUFFICES ASSUME ChatTypes, [Next]_vars
             PROVE  ChatTypes'
  OBVIOUS
<1>1. ASSUME NEW c \in Clients,
             Open(c) \/ Close(c) \/ SendMessage(c) \/ Lose(c) \/ Handle(c) \/ Receive(c)
      PROVE  ChatTypes'
  BY <1>1, AskTypes, PushTypes, TrimTypes, MembersTypes, SendTypes, AnswerTypes, EnterLeaveTypes,
     LoadHistoryTypes, CountTypes, ReceiveTypes DEF Handle
<1>2. CASE Expires
  BY <1>2, ExpiresTypes
<1>3. CASE UNCHANGED vars
  BY <1>3 DEF vars, redis, handler, client, ChatTypes, ChatTypeOK, InHand, Placed
<1> QED
  BY <1>1, <1>2, <1>3 DEF Next

-------------------------------------------------------------------------------
(* Messages are not repeated, in the list nor in anything read from it.    *)

Answers(s) == \A i \in DOMAIN s : s[i].kind = "joined" => IsInjective(s[i].history)

Numbered == IsInjective(list) /\ \A i \in DOMAIN list : list[i] <= made

Unrepeated ==
  /\ Numbered
  /\ \A c \in Clients : IsInjective(history[c]) /\ IsInjective(view[c]) /\ Answers(inbox[c])

LEMMA FirstInjective ==
  ASSUME NEW s \in Seq(Nat), NEW n \in Nat, IsInjective(s)
  PROVE  IsInjective(First(s, n))
<1> DEFINE t == First(s, n)
<1>1. /\ t \in Seq(Nat) /\ Len(t) = IF n < Len(s) THEN n ELSE Len(s)
      /\ \A i \in 1 .. Len(t) : t[i] = s[i]
  BY FirstSeq
<1> HIDE DEF t
<1>2. ASSUME NEW i \in 1 .. Len(t), NEW j \in 1 .. Len(t), t[i] = t[j]
      PROVE  i = j
  <2>1. s[i] = s[j] /\ i \in DOMAIN s /\ j \in DOMAIN s
    BY <1>1, <1>2
  <2> QED
    BY <2>1 DEF IsInjective
<1>3. DOMAIN t = 1 .. Len(t)
  BY <1>1
<1>4. IsInjective(t)
  BY <1>2, <1>3 DEF IsInjective
<1> QED
  BY <1>4 DEF t

LEMMA AppendNew ==
  ASSUME NEW s \in Seq(Nat), NEW m \in Nat, IsInjective(s), m \notin ToSet(s)
  PROVE  IsInjective(Append(s, m))
<1>1. /\ DOMAIN Append(s, m) = DOMAIN s \union {Len(s) + 1}
      /\ \A i \in DOMAIN s : Append(s, m)[i] = s[i]
      /\ Append(s, m)[Len(s) + 1] = m
  BY Appended
<1> QED
  BY <1>1 DEF IsInjective, ToSet

LEMMA AppendAnswers ==
  ASSUME NEW s \in Seq(Sent), NEW e \in Sent, Answers(s),
         e.kind = "joined" => IsInjective(e.history)
  PROVE  Answers(Append(s, e))
<1>1. /\ DOMAIN Append(s, e) = DOMAIN s \union {Len(s) + 1}
      /\ \A i \in DOMAIN s : Append(s, e)[i] = s[i]
      /\ Append(s, e)[Len(s) + 1] = e
  BY Appended
<1> QED
  BY <1>1 DEF Answers

LEMMA NumberedStep ==
  ASSUME ChatTypes, Numbered, [Next]_vars
  PROVE  Numbered'
<1>1. list \in Seq(Nat) /\ made \in Nat
  BY DEF ChatTypes, ChatTypeOK
<1>2. CASE UNCHANGED <<list, made>>
  BY <1>2 DEF Numbered
<1>3. ASSUME NEW c \in Clients, Push(c)
      PROVE  Numbered'
  <2> DEFINE pushed == <<made + 1>> \o list
  <2>1. made' = made + 1 /\ (list' = pushed \/ list' = list)
    BY <1>3 DEF Push
  <2>2. made + 1 \in Nat
    BY <1>1
  <2>3. /\ pushed \in Seq(Nat) /\ Len(pushed) = Len(list) + 1
        /\ \A i \in 1 .. Len(list) + 1 : pushed[i] = IF i = 1 THEN made + 1 ELSE list[i - 1]
    BY <1>1, <2>2, FirstPushed
  <2> HIDE DEF pushed
  <2>4. CASE list' = list
    BY <1>1, <2>1, <2>4 DEF Numbered
  <2>5. CASE list' = pushed
    <3>1. \A i \in 1 .. Len(list) : list[i] <= made /\ list[i] \in Nat
      BY <1>1 DEF Numbered
    <3>2. \A i \in 1 .. Len(list) + 1 : i # 1 => pushed[i] = list[i - 1] /\ pushed[i] <= made
      <4> SUFFICES ASSUME NEW i \in 1 .. Len(list) + 1, i # 1
                   PROVE  pushed[i] = list[i - 1] /\ pushed[i] <= made
        OBVIOUS
      <4>1. pushed[i] = list[i - 1]
        BY <2>3
      <4>2. i - 1 \in 1 .. Len(list)
        BY <1>1
      <4>3. list[i - 1] <= made
        BY <3>1, <4>2
      <4> QED
        BY <4>1, <4>3
    <3>3. pushed[1] = made + 1
      BY <1>1, <2>3
    <3>4. ASSUME NEW i \in 1 .. Len(list) + 1, NEW j \in 1 .. Len(list) + 1, pushed[i] = pushed[j]
          PROVE  i = j
      <4>1. CASE i = 1 \/ j = 1
        <5>1. ~(made + 1 <= made)
          BY <1>1
        <5> QED
          BY <3>2, <3>3, <3>4, <4>1, <5>1
      <4>2. CASE i # 1 /\ j # 1
        <5>1. pushed[i] = list[i - 1] /\ pushed[j] = list[j - 1]
          BY <2>3, <4>2
        <5>2. i - 1 \in DOMAIN list /\ j - 1 \in DOMAIN list
          BY <1>1, <4>2
        <5>3. i - 1 = j - 1
          BY <3>4, <5>1, <5>2 DEF Numbered, IsInjective
        <5> QED
          BY <5>3
      <4> QED
        BY <4>1, <4>2
    <3>5. DOMAIN pushed = 1 .. Len(list) + 1
      BY <2>3
    <3>6. \A i \in 1 .. Len(list) + 1 : pushed[i] <= made + 1
      <4> SUFFICES ASSUME NEW i \in 1 .. Len(list) + 1
                   PROVE  pushed[i] <= made + 1
        OBVIOUS
      <4>1. pushed[i] \in Nat
        BY <2>3
      <4> QED
        BY <1>1, <3>2, <3>3, <4>1
    <3> QED
      BY <2>1, <2>5, <3>4, <3>5, <3>6 DEF Numbered, IsInjective
  <2> QED
    BY <2>1, <2>4, <2>5
<1>4. ASSUME NEW c \in Clients, Trim(c)
      PROVE  Numbered'
  <2> DEFINE t == First(list, MaxKept)
  <2>1. made' = made /\ (list' = t \/ list' = list)
    BY <1>4 DEF Trim, Newest, First, redis
  <2>2. /\ t \in Seq(Nat) /\ Len(t) = IF MaxKept < Len(list) THEN MaxKept ELSE Len(list)
        /\ \A i \in 1 .. Len(t) : t[i] = list[i]
    BY <1>1, FirstSeq, ChatAssumption
  <2>3. IsInjective(t)
    BY <1>1, FirstInjective, ChatAssumption DEF Numbered
  <2> HIDE DEF t
  <2>4. Len(t) <= Len(list) /\ Len(t) \in Nat /\ DOMAIN t = 1 .. Len(t)
    BY <1>1, <2>2, ChatAssumption
  <2>5. ASSUME NEW i \in DOMAIN t
        PROVE  t[i] <= made
    <3>1. i \in DOMAIN list /\ t[i] = list[i]
      BY <1>1, <2>2, <2>4
    <3> QED
      BY <1>1, <3>1 DEF Numbered
  <2>6. CASE list' = t
    BY <2>1, <2>3, <2>5, <2>6 DEF Numbered
  <2> QED
    BY <1>2, <2>1, <2>6
<1>5. CASE Expires
  BY <1>5 DEF Expires, Numbered, IsInjective
<1>6. ASSUME NEW c \in Clients,
             \/ Open(c) \/ Close(c) \/ SendMessage(c) \/ Lose(c) \/ Receive(c)
             \/ Members(c) \/ Send(c) \/ Answer(c) \/ Enter(c) \/ Leave(c) \/ LoadHistory(c)
             \/ Count(c, "count") \/ Count(c, "countLeft")
      PROVE  UNCHANGED <<list, made>>
  BY <1>6 DEF Open, Close, SendMessage, Lose, Ask, Receive, Members, Send, Answer, Enter, Leave,
              LoadHistory, Count, redis
<1>7. CASE UNCHANGED vars
  BY <1>2, <1>7 DEF vars, redis
<1> QED
  BY <1>2, <1>3, <1>4, <1>5, <1>6, <1>7 DEF Next, Handle

LEMMA ReceivedUnrepeated ==
  ASSUME ChatTypes, Unrepeated, NEW c \in Clients, Receive(c)
  PROVE  Unrepeated'
<1> DEFINE e == Head(inbox[c])
           t == Tail(inbox[c])
<1>1. inbox[c] \in Seq(Sent) /\ inbox[c] # <<>> /\ view[c] \in Seq(Nat)
  BY DEF Receive, ChatTypes, ChatTypeOK
<1>2. e = inbox[c][1] /\ e \in Sent /\ 1 \in DOMAIN inbox[c]
  BY <1>1, TailShifts
<1>3. UNCHANGED <<list, made, history>> /\ inbox' = [inbox EXCEPT ![c] = t]
  BY DEF Receive, redis, handler
<1>4. Answers(t)
  <2>1. \A i \in DOMAIN t : i + 1 \in DOMAIN inbox[c] /\ t[i] = inbox[c][i + 1]
    BY <1>1, TailShifts
  <2> HIDE DEF t
  <2> QED
    BY <2>1 DEF Unrepeated, Answers
<1> HIDE DEF t
<1>5. \A d \in Clients : Answers(inbox[d]')
  BY <1>3, <1>4 DEF Unrepeated, ChatTypes, ChatTypeOK
<1>6. \A d \in Clients : IsInjective(view[d]')
  <2>1. CASE e.kind = "message" /\ appendMessage(c, e.id)
    <3>1. e.id \in Nat
      BY <1>2, <2>1, Kinds DEF Sent
    <3> HIDE DEF e
    <3>2. e.id \notin ToSet(view[c]) => IsInjective(Append(view[c], e.id))
      BY <1>1, <3>1, AppendNew DEF Unrepeated
    <3> QED
      BY <2>1, <3>2 DEF appendMessage, Unrepeated, ChatTypes, ChatTypeOK
  <2>2. CASE e.kind = "joined" /\ view' = [view EXCEPT ![c] = e.history]
    <3>1. IsInjective(e.history)
      BY <1>2, <2>2 DEF Unrepeated, Answers
    <3> HIDE DEF e
    <3> QED
      BY <2>2, <3>1 DEF Unrepeated, ChatTypes, ChatTypeOK
  <2>3. CASE UNCHANGED view
    BY <2>3 DEF Unrepeated
  <2> QED
    BY <2>1, <2>2, <2>3 DEF Receive
<1> QED
  BY <1>3, <1>5, <1>6 DEF Unrepeated, Numbered

LEMMA UnrepeatedInductive == ChatTypes /\ Unrepeated /\ [Next]_vars => Unrepeated'
<1> SUFFICES ASSUME ChatTypes, Unrepeated, [Next]_vars
             PROVE  Unrepeated'
  OBVIOUS
<1>1. Numbered'
  BY NumberedStep DEF Unrepeated
<1> DEFINE Rest == \A c \in Clients :
                     IsInjective(history[c]) /\ IsInjective(view[c]) /\ Answers(inbox[c])
<1>2. Rest
  BY DEF Unrepeated
<1>3. IsInjective(<<>>) /\ Answers(<<>>)
  BY DEF IsInjective, Answers
<1>4. ASSUME NEW c \in Clients, Open(c) \/ Close(c) \/ SendMessage(c) \/ Lose(c)
      PROVE  Rest'
  <2>1. /\ history' = history
        /\ view' = view \/ view' = [view EXCEPT ![c] = <<>>]
        /\ inbox' = inbox \/ inbox' = [inbox EXCEPT ![c] = <<>>]
    BY <1>4 DEF Open, Close, SendMessage, Lose, Ask
  <2> QED
    BY <1>2, <1>3, <2>1 DEF ChatTypes, ChatTypeOK
<1>5. ASSUME NEW c \in Clients, Send(c)
      PROVE  Rest'
  <2>1. /\ UNCHANGED <<history, view>>
        /\ inbox' = [d \in Clients |-> IF d \in to[c] THEN Append(inbox[d], event[c]) ELSE inbox[d]]
    BY <1>5 DEF Send, client
  <2>2. event[c] \in Sent /\ event[c].kind # "joined"
    <3>1. event[c] \in Message \union Presence
      BY <1>5 DEF Send, Goto, ChatTypes, InHand
    <3> QED
      BY <3>1, Kinds DEF Sent
  <2>3. \A d \in Clients : Answers(Append(inbox[d], event[c]))
    BY <1>2, <2>2, AppendAnswers DEF ChatTypes, ChatTypeOK
  <2> QED
    BY <1>2, <2>1, <2>3
<1>6. ASSUME NEW c \in Clients, Answer(c)
      PROVE  Rest'
  <2> DEFINE joined == [kind |-> "joined", history |-> history[c], count |-> event[c].count]
  <2>1. event[c] \in Presence
    BY <1>6 DEF Answer, Goto, ChatTypes, InHand
  <2>2. joined \in Sent /\ joined.history = history[c]
    BY <2>1, Kinds DEF Sent, Joined, ChatTypes, ChatTypeOK
  <2>3. /\ view' = view
        /\ history' = [history EXCEPT ![c] = <<>>]
        /\ inbox' = [inbox EXCEPT ![c] = Append(inbox[c], joined)]
    BY <1>6 DEF Answer, client
  <2> HIDE DEF joined
  <2>4. Answers(Append(inbox[c], joined))
    BY <1>2, <2>2, AppendAnswers DEF ChatTypes, ChatTypeOK
  <2> QED
    BY <1>2, <1>3, <2>3, <2>4 DEF ChatTypes, ChatTypeOK
<1>7. ASSUME NEW c \in Clients, LoadHistory(c)
      PROVE  Rest'
  <2> DEFINE h == Reverse(Newest(HistorySize))
  <2>1. IsInjective(h)
    <3>1. First(list, HistorySize) \in Seq(Nat) /\ IsInjective(First(list, HistorySize))
      BY FirstSeq, FirstInjective, ChatAssumption DEF Unrepeated, Numbered, ChatTypes, ChatTypeOK
    <3> QED
      BY <3>1, ReverseSeq DEF Newest, First
  <2>2. /\ UNCHANGED <<view, inbox>>
        /\ history' = history \/ history' = [history EXCEPT ![c] = h]
    BY <1>7 DEF LoadHistory, client
  <2> HIDE DEF h
  <2> QED
    BY <1>2, <2>1, <2>2 DEF ChatTypes, ChatTypeOK
<1>8. ASSUME NEW c \in Clients, Receive(c)
      PROVE  Unrepeated'
  BY <1>8, ReceivedUnrepeated
<1>9. ASSUME NEW c \in Clients,
             \/ Push(c) \/ Trim(c) \/ Members(c) \/ Enter(c) \/ Leave(c)
             \/ Count(c, "count") \/ Count(c, "countLeft")
      PROVE  UNCHANGED <<history, view, inbox>>
  BY <1>9 DEF Push, Trim, Members, Enter, Leave, Count, client
<1>10. ASSUME Expires \/ UNCHANGED vars
       PROVE  UNCHANGED <<history, view, inbox>>
  BY <1>10 DEF Expires, vars, handler, client
<1>11. UNCHANGED <<history, view, inbox>> => Rest'
  BY <1>2
<1>12. Rest' \/ Unrepeated'
  BY <1>2, <1>4, <1>5, <1>6, <1>7, <1>8, <1>9, <1>10, <1>11 DEF Next, Handle
<1> QED
  BY <1>1, <1>12 DEF Unrepeated

LEMMA UnrepeatedInitially == Init => Unrepeated
BY DEF Init, Unrepeated, Numbered, Answers, IsInjective


-------------------------------------------------------------------------------
(* The number of members.  A handler that has changed the room counts it   *)
(* before long; when all have, the last count is right, and it is on its   *)
(* way to every member or is the last number that member was sent.  With   *)
(* two counts going out at once the older one may arrive last.             *)

Uncounted == {"history", "count", "countLeft"}

Counts(s) == {i \in DOMAIN s : s[i].kind \in {"presence", "joined"}}

LastIs(s, p, n) ==
  \/ Counts(s) = {} /\ p = n
  \/ \E k \in Counts(s) : (\A j \in Counts(s) : j <= k) /\ s[k].count = n

Told(c) ==
  \E h \in Clients : HoldsCount(h) /\ (pc[h] = "members" \/ (pc[h] = "send" /\ c \in to[h]))

Knows(c) == LastIs(inbox[c], presence[c], Cardinality(room))

Alone == ~raced => \A g, h \in Clients : HoldsCount(g) /\ HoldsCount(h) => g = h

Settled == ~raced /\ \A d \in Clients : pc[d] \notin Uncounted

Counted ==
  /\ Alone
  /\ Settled => /\ \A h \in Clients : HoldsCount(h) => event[h].count = Cardinality(room)
                /\ \A c \in open \intersect room : Told(c) \/ Knows(c)

LEMMA LastAppended ==
  ASSUME NEW s \in Seq(Sent), NEW e \in Sent, NEW p, NEW n,
         IF e.kind \in {"presence", "joined"} THEN e.count = n ELSE LastIs(s, p, n)
  PROVE  LastIs(Append(s, e), p, n)
<1> DEFINE t == Append(s, e)
           k == Len(s) + 1
<1>1. /\ DOMAIN t = DOMAIN s \union {k} /\ t[k] = e
      /\ \A i \in DOMAIN s : t[i] = s[i] /\ i < k /\ i \in Nat /\ k \in Nat
      /\ k \in Nat
  BY Appended
<1> HIDE DEF t
<1>2. CASE e.kind \in {"presence", "joined"}
  <2>1. k \in Counts(t) /\ \A j \in Counts(t) : j <= k
    BY <1>1, <1>2 DEF Counts
  <2> QED
    BY <1>1, <1>2, <2>1 DEF LastIs, t
<1>3. CASE e.kind \notin {"presence", "joined"}
  <2>1. Counts(t) = Counts(s) /\ \A i \in Counts(s) : t[i] = s[i]
    BY <1>1, <1>3 DEF Counts
  <2> QED
    BY <1>3, <2>1 DEF LastIs, t
<1> QED
  BY <1>2, <1>3

LEMMA LastTail ==
  ASSUME NEW s \in Seq(Sent), s # <<>>, NEW p, NEW n, LastIs(s, p, n)
  PROVE  LastIs(Tail(s), IF Head(s).kind \in {"presence", "joined"} THEN Head(s).count ELSE p, n)
<1> DEFINE t == Tail(s)
           e == Head(s)
<1>1. /\ e = s[1] /\ 1 \in DOMAIN s /\ DOMAIN s \subseteq Nat \ {0}
      /\ \A i \in DOMAIN t : i \in Nat \ {0} /\ i + 1 \in DOMAIN s /\ t[i] = s[i + 1]
      /\ \A i \in DOMAIN s : i # 1 => i - 1 \in DOMAIN t /\ t[i - 1] = s[i]
  BY TailShifts
<1> HIDE DEF t, e
<1>2. /\ \A i \in Counts(t) : i + 1 \in Counts(s) /\ i \in Nat \ {0}
      /\ \A i \in Counts(s) : i # 1 => i - 1 \in Counts(t) /\ t[i - 1] = s[i]
      /\ 1 \in Counts(s) <=> e.kind \in {"presence", "joined"}
      /\ Counts(s) \subseteq Nat \ {0}
  BY <1>1 DEF Counts
<1> DEFINE q == IF e.kind \in {"presence", "joined"} THEN e.count ELSE p
<1>3. CASE Counts(s) = {} /\ p = n
  <2>1. Counts(t) = {} /\ q = n
    BY <1>2, <1>3
  <2> QED
    BY <2>1 DEF LastIs, t, e
<1>4. ASSUME NEW k \in Counts(s), \A j \in Counts(s) : j <= k, s[k].count = n
      PROVE  LastIs(t, q, n)
  <2>1. CASE k = 1
    <3>1. ASSUME NEW i \in Counts(t)
          PROVE  FALSE
      <4>1. i \in Nat \ {0} /\ i + 1 <= 1
        BY <1>2, <1>4, <2>1
      <4> QED
        BY <4>1
    <3>2. q = n
      BY <1>1, <1>2, <1>4, <2>1
    <3> QED
      BY <3>1, <3>2 DEF LastIs
  <2>2. CASE k # 1
    <3>1. k - 1 \in Counts(t) /\ t[k - 1].count = n
      BY <1>2, <1>4, <2>2
    <3>2. \A j \in Counts(t) : j <= k - 1
      BY <1>2, <1>4
    <3> QED
      BY <3>1, <3>2 DEF LastIs
  <2> QED
    BY <2>1, <2>2
<1> QED
  BY <1>3, <1>4 DEF LastIs, t, e

LEMMA CountedInitially == Init => Counted
<1> SUFFICES ASSUME Init PROVE Counted
  OBVIOUS
<1>1. \A c \in Clients : ~HoldsCount(c)
  BY Kinds DEF Init, HoldsCount
<1> QED
  BY <1>1 DEF Init, Counted, Alone

(* A step that changes neither the room nor who holds a count.             *)
LEMMA SameCounted ==
  ASSUME Counted, UNCHANGED <<room, raced>>,
         \A d \in Clients : pc[d] \in Uncounted => pc'[d] \in Uncounted,
         \A h \in Clients : HoldsCount(h)' => HoldsCount(h) /\ event'[h].count = event[h].count,
         Settled => \A c \in open' \intersect room :
                      c \in open /\ (Told(c) \/ Knows(c) => Told(c)' \/ Knows(c)')
  PROVE  Counted'
<1>1. Settled' => Settled
  BY DEF Settled
<1>2. Alone'
  BY DEF Counted, Alone
<1>3. ASSUME Settled'
      PROVE  \A h \in Clients : HoldsCount(h)' => event'[h].count = Cardinality(room)'
  BY <1>1, <1>3 DEF Counted
<1>4. ASSUME Settled'
      PROVE  \A c \in (open \intersect room)' : Told(c)' \/ Knows(c)'
  BY <1>1, <1>4 DEF Counted
<1> QED
  BY <1>2, <1>3, <1>4 DEF Counted

LEMMA AskCounted ==
  ASSUME ChatTypes, Counted, NEW c \in Clients, Open(c) \/ Close(c) \/ SendMessage(c) \/ Lose(c)
  PROVE  Counted'
<1>1. /\ pc[c] = "idle" /\ pc'[c] \in {"enter", "leave", "push"}
      /\ \A d \in Clients \ {c} : pc'[d] = pc[d]
      /\ UNCHANGED <<room, event, to, raced>>
      /\ \/ c \notin open /\ open' = open \union {c} /\ UNCHANGED <<inbox, presence>>
         \/ open' = open \ {c}
         \/ open' = open /\ UNCHANGED <<inbox, presence>>
  BY DEF Open, Close, SendMessage, Lose, Ask, Goto, ChatTypes, ChatTypeOK
<1>2. \A d \in Clients \ {c} : inbox'[d] = inbox[d] /\ presence'[d] = presence[d]
  BY DEF Open, Close, SendMessage, Lose, ChatTypes, ChatTypeOK
<1>3. ~HoldsCount(c) /\ (c \in room => c \in open)
  BY <1>1, Kinds DEF HoldsCount, ChatTypes, InHand, Placed
<1>4. \A h \in Clients : HoldsCount(h)' <=> HoldsCount(h)
  BY <1>1 DEF HoldsCount
<1>5. \A d \in Clients : Told(d) => Told(d)'
  BY <1>1, <1>3, <1>4 DEF Told
<1>6. ASSUME NEW d \in open' \intersect room
      PROVE  d \in open /\ (Knows(d) => Knows(d)')
  <2>1. d \in Clients /\ (d = c => UNCHANGED <<inbox, presence>>)
    BY <1>1, <1>3 DEF ChatTypes, ChatTypeOK
  <2>2. inbox'[d] = inbox[d] /\ presence'[d] = presence[d]
    BY <1>2, <2>1
  <2> QED
    BY <1>1, <1>3, <1>6, <2>2 DEF Knows
<1>7. \A d \in Clients : pc[d] \in Uncounted => pc'[d] \in Uncounted
  BY <1>1 DEF Uncounted
<1>8. \A d \in open' \intersect room : d \in Clients
  BY DEF ChatTypes, ChatTypeOK
<1> QED
  BY <1>1, <1>4, <1>5, <1>6, <1>7, <1>8, SameCounted

(* The steps of a handler before its broadcast.                            *)
LEMMA PreparesCounted ==
  ASSUME ChatTypes, Counted, NEW c \in Clients, Push(c) \/ Trim(c) \/ Members(c)
  PROVE  Counted'
<1>1. /\ pc[c] \in {"push", "trim", "members"} /\ pc'[c] \in {"trim", "members", "send"}
      /\ \A d \in Clients \ {c} : pc'[d] = pc[d] /\ to'[d] = to[d] /\ event'[d] = event[d]
      /\ UNCHANGED <<room, raced, open, inbox, presence>>
      /\ pc[c] = "members" => event'[c] = event[c] /\ pc'[c] = "send" /\ to'[c] = room
      /\ pc[c] # "members" => event'[c].kind = "message" \/ event'[c] = event[c]
  BY DEF Push, Trim, Members, Goto, client, ChatTypes, ChatTypeOK
<1>2. pc[c] \in {"push", "trim"} => ~HoldsCount(c)
  BY Kinds DEF HoldsCount, ChatTypes, InHand
<1>3. \A h \in Clients : HoldsCount(h)' => HoldsCount(h) /\ event'[h].count = event[h].count
  BY <1>1, <1>2 DEF HoldsCount
<1>4. ASSUME NEW d \in open' \intersect room, Told(d)
      PROVE  Told(d)'
  <2>1. PICK h \in Clients : HoldsCount(h) /\ (pc[h] = "members" \/ (pc[h] = "send" /\ d \in to[h]))
    BY <1>4 DEF Told
  <2>2. CASE h = c
    BY <1>1, <2>1, <2>2, <1>2 DEF Told, HoldsCount
  <2>3. CASE h # c
    BY <1>1, <2>1, <2>3 DEF Told, HoldsCount
  <2> QED
    BY <2>2, <2>3
<1>5. \A d \in Clients : Knows(d) => Knows(d)'
  BY <1>1 DEF Knows
<1>6. \A d \in Clients : pc[d] \in Uncounted => pc'[d] \in Uncounted
  BY <1>1 DEF Uncounted
<1>7. \A d \in open' \intersect room : d \in Clients /\ d \in open
  BY <1>1 DEF ChatTypes, ChatTypeOK
<1> QED
  BY <1>1, <1>3, <1>4, <1>5, <1>6, <1>7, SameCounted

LEMMA SendCounted ==
  ASSUME ChatTypes, Counted, NEW c \in Clients, Send(c)
  PROVE  Counted'
<1>1. /\ pc[c] = "send" /\ event[c] \in Message \union Presence
      /\ pc'[c] \in {"answer", "idle"} /\ event'[c] \in {event[c], None}
      /\ \A d \in Clients \ {c} : pc'[d] = pc[d] /\ to'[d] = to[d] /\ event'[d] = event[d]
      /\ UNCHANGED <<room, raced, open, presence>>
      /\ \A d \in Clients :
           inbox'[d] = IF d \in to[c] THEN Append(inbox[d], event[c]) ELSE inbox[d]
  BY DEF Send, Goto, InHand, client, ChatTypes, ChatTypeOK
<1>2. \A h \in Clients : HoldsCount(h)' => HoldsCount(h) /\ event'[h].count = event[h].count
  BY <1>1, Kinds DEF HoldsCount
<1>3. ASSUME Settled, NEW d \in open' \intersect room, Told(d) \/ Knows(d)
      PROVE  Told(d)' \/ Knows(d)'
  <2>1. d \in Clients /\ inbox[d] \in Seq(Sent) /\ event[c] \in Sent
    BY <1>1 DEF ChatTypes, ChatTypeOK, Sent
  <2>2. CASE d \in to[c] /\ HoldsCount(c)
    <3>1. event[c].count = Cardinality(room)
      BY <1>3, <2>2 DEF Counted
    <3>2. LastIs(Append(inbox[d], event[c]), presence[d], Cardinality(room))
      BY <2>1, <2>2, <3>1, LastAppended DEF HoldsCount
    <3> QED
      BY <1>1, <2>1, <2>2, <3>2 DEF Knows
  <2>3. CASE ~(d \in to[c] /\ HoldsCount(c)) /\ Told(d)
    <3>1. PICK h \in Clients : HoldsCount(h) /\ (pc[h] = "members" \/ (pc[h] = "send" /\ d \in to[h]))
      BY <2>3 DEF Told
    <3>2. h # c
      BY <1>1, <2>3, <3>1
    <3> QED
      BY <1>1, <3>1, <3>2 DEF Told, HoldsCount
  <2>4. CASE d \notin to[c] /\ Knows(d)
    BY <1>1, <2>1, <2>4 DEF Knows
  <2>5. CASE d \in to[c] /\ ~HoldsCount(c) /\ Knows(d)
    <3>1. event[c].kind \notin {"presence", "joined"}
      BY <1>1, <2>5, Kinds DEF HoldsCount
    <3>2. LastIs(Append(inbox[d], event[c]), presence[d], Cardinality(room))
      BY <2>1, <2>5, <3>1, LastAppended DEF Knows
    <3> QED
      BY <1>1, <2>1, <2>5, <3>2 DEF Knows
  <2> QED
    BY <1>3, <2>2, <2>3, <2>4, <2>5
<1>4. \A d \in Clients : pc[d] \in Uncounted => pc'[d] \in Uncounted
  BY <1>1 DEF Uncounted
<1> QED
  BY <1>1, <1>2, <1>3, <1>4, SameCounted

LEMMA AnswerCounted ==
  ASSUME ChatTypes, Counted, NEW c \in Clients, Answer(c)
  PROVE  Counted'
<1> DEFINE joined == [kind |-> "joined", history |-> history[c], count |-> event[c].count]
<1>1. /\ pc[c] = "answer" /\ event[c] \in Presence /\ pc'[c] = "idle" /\ event'[c] = None
      /\ \A d \in Clients \ {c} : pc'[d] = pc[d] /\ event'[d] = event[d] /\ inbox'[d] = inbox[d]
      /\ UNCHANGED <<room, raced, open, presence, to>>
      /\ inbox'[c] = Append(inbox[c], joined)
  BY DEF Answer, Goto, InHand, client, ChatTypes, ChatTypeOK
<1>2. joined \in Sent /\ joined.kind = "joined" /\ joined.count = event[c].count
  BY <1>1, Kinds DEF Sent, Joined, ChatTypes, ChatTypeOK
<1> HIDE DEF joined
<1>3. \A h \in Clients : HoldsCount(h)' => HoldsCount(h) /\ event'[h].count = event[h].count
  BY <1>1, Kinds DEF HoldsCount
<1>4. \A d \in Clients : Told(d) => Told(d)'
  BY <1>1 DEF Told, HoldsCount
<1>5. \A d \in Clients \ {c} : Knows(d) => Knows(d)'
  BY <1>1 DEF Knows
<1>6. Settled => Knows(c)'
  <2> SUFFICES ASSUME Settled PROVE Knows(c)'
    OBVIOUS
  <2>1. event[c].count = Cardinality(room)
    BY <1>1, Kinds DEF Counted, HoldsCount
  <2>2. LastIs(Append(inbox[c], joined), presence[c], Cardinality(room))
    BY <1>2, <2>1, LastAppended DEF ChatTypes, ChatTypeOK
  <2> QED
    BY <1>1, <2>2 DEF Knows
<1>7. \A d \in Clients : pc[d] \in Uncounted => pc'[d] \in Uncounted
  BY <1>1 DEF Uncounted
<1>8. \A d \in open' \intersect room : d \in Clients /\ d \in open
  BY <1>1 DEF ChatTypes, ChatTypeOK
<1> QED
  BY <1>1, <1>3, <1>4, <1>5, <1>6, <1>7, <1>8, SameCounted

(* The room changes, or is about to be counted.                            *)
LEMMA MovesCounted ==
  ASSUME ChatTypes, Counted, NEW c \in Clients, Enter(c) \/ LoadHistory(c) \/ Leave(c)
  PROVE  Counted'
<1>1. pc'[c] \in Uncounted /\ UNCHANGED <<event, raced>>
  BY DEF Enter, LoadHistory, Leave, Goto, Uncounted, ChatTypes, ChatTypeOK
<1>2. Alone' /\ ~Settled'
  BY <1>1 DEF Counted, Alone, Settled, HoldsCount
<1> QED
  BY <1>2 DEF Counted

LEMMA CountCounted ==
  ASSUME ChatTypes, Counted, NEW c \in Clients, NEW from \in {"count", "countLeft"}, Count(c, from)
  PROVE  Counted'
<1>1. /\ pc'[c] = "members" /\ event'[c].kind = "presence" /\ event'[c].count = Cardinality(room)
      /\ \A d \in Clients \ {c} : event'[d] = event[d]
      /\ raced' = (\E d \in Clients \ {c} : HoldsCount(d))
      /\ UNCHANGED room
  BY DEF Count, Goto, ChatTypes, ChatTypeOK
<1>2. ~raced' => \A h \in Clients : HoldsCount(h)' => h = c
  BY <1>1 DEF HoldsCount
<1>3. \A d : Told(d)'
  BY <1>1 DEF Told, HoldsCount
<1> QED
  BY <1>1, <1>2, <1>3 DEF Counted, Alone, Settled

LEMMA ReceiveCounted ==
  ASSUME ChatTypes, Counted, NEW c \in Clients, Receive(c)
  PROVE  Counted'
<1> DEFINE e == Head(inbox[c])
<1>1. /\ UNCHANGED <<room, raced, pc, event, to, open>>
      /\ inbox[c] # <<>> /\ inbox[c] \in Seq(Sent) /\ inbox'[c] = Tail(inbox[c])
      /\ \A d \in Clients \ {c} : inbox'[d] = inbox[d]
  BY DEF Receive, handler, ChatTypes, ChatTypeOK
<1>2. \A d \in Clients \ {c} : presence'[d] = presence[d]
  BY DEF Receive, ChatTypes, ChatTypeOK
<1>3. c \in open =>
        presence'[c] = IF e.kind \in {"presence", "joined"} THEN e.count ELSE presence[c]
  BY DEF Receive, ChatTypes, ChatTypeOK
<1>4. ASSUME c \in open, Knows(c)
      PROVE  Knows(c)'
  <2>1. LastIs(Tail(inbox[c]),
               IF e.kind \in {"presence", "joined"} THEN e.count ELSE presence[c], Cardinality(room))
    BY <1>1, <1>4, LastTail DEF Knows
  <2> QED
    BY <1>1, <1>3, <1>4, <2>1 DEF Knows
<1>5. \A d \in Clients \ {c} : Knows(d) => Knows(d)'
  BY <1>1, <1>2 DEF Knows
<1>6. \A d : Told(d) => Told(d)'
  BY <1>1 DEF Told, HoldsCount
<1>7. \A d \in open' \intersect room : d \in Clients /\ d \in open
  BY <1>1 DEF ChatTypes, ChatTypeOK
<1> QED
  BY <1>1, <1>4, <1>5, <1>6, <1>7, SameCounted DEF HoldsCount

LEMMA CountedInductive == ChatTypes /\ Counted /\ [Next]_vars => Counted'
<1> SUFFICES ASSUME ChatTypes, Counted, [Next]_vars
             PROVE  Counted'
  OBVIOUS
<1>1. ASSUME NEW c \in Clients,
             Open(c) \/ Close(c) \/ SendMessage(c) \/ Lose(c) \/ Handle(c) \/ Receive(c)
      PROVE  Counted'
  BY <1>1, AskCounted, PreparesCounted, SendCounted, AnswerCounted, MovesCounted, CountCounted,
     ReceiveCounted DEF Handle
<1>2. ASSUME Expires \/ UNCHANGED vars
      PROVE  Counted'
  <2>1. UNCHANGED <<room, raced, pc, event, to, open, inbox, presence>>
    BY <1>2 DEF Expires, vars, handler, client
  <2> QED
    BY <2>1 DEF Counted, Alone, Settled, Told, Knows, HoldsCount
<1> QED
  BY <1>1, <1>2 DEF Next

-------------------------------------------------------------------------------
(* The newest messages.  For a client in the room one of these holds of    *)
(* each: its broadcast will still reach the client; it is in the client's  *)
(* store or inbox, with no more than one history to come after it, which   *)
(* then replaces it and says so; it is in the last history the client will *)
(* get; or the last history has replaced it.  Of two histories to come the *)
(* second would hide what the first replaced: that it does not is because  *)
(* what was sent before the second was read is in it, unless it is no      *)
(* longer among the newest.                                                *)

Joins(s) == {i \in DOMAIN s : s[i].kind = "joined"}

Late(s, p) == {j \in Joins(s) : j > p}

(* s is an inbox, v a view, h the history of the answer that is owed, if w *)
(* is 1, and r what was replaced.                                          *)
OneLeft(s, p, w) ==
  IF w = 1 THEN Late(s, p) = {} ELSE \A i, j \in Late(s, p) : i = j

Kept(s, v, w, m) ==
  \/ m \in ToSet(v) /\ OneLeft(s, 0, w)
  \/ \E i \in DOMAIN s : s[i].kind = "message" /\ s[i].id = m /\ OneLeft(s, i, w)

Replayed(s, h, w, m) ==
  IF w = 1
  THEN m \in ToSet(h)
  ELSE \E k \in Joins(s) : (\A j \in Joins(s) : j <= k) /\ m \in ToSet(s[k].history)

Reaches(s, v, h, r, w, m) ==
  Kept(s, v, w, m) \/ Replayed(s, h, w, m) \/ (w # 1 /\ Joins(s) = {} /\ m \in r)

LEMMA ReachesAppended ==
  ASSUME NEW s \in Seq(Sent), NEW e \in Sent, e.kind # "joined",
         NEW v, NEW h, NEW r, NEW w, NEW m,
         Reaches(s, v, h, r, w, m) \/ (e.kind = "message" /\ e.id = m)
  PROVE  Reaches(Append(s, e), v, h, r, w, m)
<1> DEFINE t == Append(s, e)
           n == Len(s) + 1
<1>1. /\ DOMAIN t = DOMAIN s \union {n} /\ t[n] = e
      /\ \A i \in DOMAIN s : t[i] = s[i] /\ i < n /\ i \in Nat
      /\ n \in Nat
  BY Appended
<1> HIDE DEF t, n
<1>2. Joins(t) = Joins(s) /\ \A i \in DOMAIN s : t[i] = s[i]
  BY <1>1 DEF Joins
<1>3. \A p : Late(t, p) = Late(s, p)
  BY <1>2 DEF Late
<1>4. \A p : OneLeft(s, p, w) <=> OneLeft(t, p, w)
  BY <1>3 DEF OneLeft
<1>5. CASE e.kind = "message" /\ e.id = m
  <2>1. Late(t, n) = {}
    BY <1>1, <1>2 DEF Late, Joins
  <2>2. OneLeft(t, n, w)
    BY <2>1 DEF OneLeft
  <2> QED
    BY <1>1, <1>5, <2>2 DEF Reaches, Kept, t
<1>6. CASE Kept(s, v, w, m)
  BY <1>1, <1>4, <1>6 DEF Reaches, Kept, t
<1>7. CASE Replayed(s, h, w, m)
  <2>1. Replayed(t, h, w, m)
    BY <1>2, <1>7 DEF Replayed, Joins
  <2> QED
    BY <2>1 DEF Reaches, t
<1>8. CASE w # 1 /\ Joins(s) = {} /\ m \in r
  BY <1>2, <1>8 DEF Reaches, t
<1> QED
  BY <1>5, <1>6, <1>7, <1>8 DEF Reaches

(* The answer that was owed goes out.                                      *)
LEMMA ReachesAnswered ==
  ASSUME NEW s \in Seq(Sent), NEW e \in Sent, e.kind = "joined",
         NEW v, NEW h, NEW g, NEW r, NEW m, e.history = h,
         Reaches(s, v, h, r, 1, m)
  PROVE  Reaches(Append(s, e), v, g, r, 0, m)
<1> DEFINE t == Append(s, e)
           n == Len(s) + 1
<1>1. /\ DOMAIN t = DOMAIN s \union {n} /\ t[n] = e
      /\ \A i \in DOMAIN s : t[i] = s[i] /\ i < n /\ i \in Nat
      /\ n \in Nat
  BY Appended
<1> HIDE DEF t, n
<1>2. Joins(t) = Joins(s) \union {n} /\ \A j \in Joins(t) : j <= n
  BY <1>1 DEF Joins
<1>3. CASE Replayed(s, h, 1, m)
  <2>1. n \in Joins(t) /\ m \in ToSet(t[n].history)
    BY <1>1, <1>2, <1>3 DEF Replayed
  <2>2. 0 # 1
    OBVIOUS
  <2>3. Replayed(t, g, 0, m)
    BY <1>2, <2>1, <2>2 DEF Replayed
  <2> QED
    BY <2>3 DEF Reaches, t
<1>4. CASE Kept(s, v, 1, m)
  <2>1. \A p : OneLeft(s, p, 1) => OneLeft(t, p, 0)
    BY <1>2 DEF OneLeft, Late
  <2> QED
    BY <1>1, <1>4, <2>1 DEF Kept, Reaches, t
<1> QED
  BY <1>3, <1>4 DEF Reaches

(* The client takes what is first in its inbox.                            *)
LEMMA JoinsTail ==
  ASSUME NEW s \in Seq(Sent), s # <<>>
  PROVE  /\ \A i \in Joins(Tail(s)) : i \in Nat \ {0} /\ i + 1 \in Joins(s)
         /\ \A i \in Joins(s) : /\ i \in Nat \ {0}
                                /\ i # 1 => /\ i - 1 \in Joins(Tail(s))
                                            /\ Tail(s)[i - 1].history = s[i].history
         /\ 1 \in Joins(s) <=> Head(s).kind = "joined"
<1> DEFINE t == Tail(s)
<1>1. /\ Head(s) = s[1] /\ 1 \in DOMAIN s /\ DOMAIN s \subseteq Nat \ {0}
      /\ \A i \in DOMAIN t : i \in Nat \ {0} /\ i + 1 \in DOMAIN s /\ t[i] = s[i + 1]
      /\ \A i \in DOMAIN s : i # 1 => i - 1 \in DOMAIN t /\ t[i - 1] = s[i]
  BY TailShifts
<1> HIDE DEF t
<1>2. \A i \in Joins(t) : i \in Nat \ {0} /\ i + 1 \in Joins(s)
  BY <1>1 DEF Joins
<1>3. ASSUME NEW i \in Joins(s)
      PROVE  i \in Nat \ {0} /\ (i # 1 => i - 1 \in Joins(t) /\ t[i - 1].history = s[i].history)
  BY <1>1 DEF Joins
<1>4. 1 \in Joins(s) <=> Head(s).kind = "joined"
  BY <1>1 DEF Joins
<1> QED
  BY <1>2, <1>3, <1>4 DEF t

LEMMA OneLeftTail ==
  ASSUME NEW s \in Seq(Sent), s # <<>>, NEW p \in Nat, NEW w, OneLeft(s, p + 1, w)
  PROVE  OneLeft(Tail(s), p, w)
<1>1. \A i \in Late(Tail(s), p) : i \in Nat /\ i + 1 \in Late(s, p + 1)
  BY JoinsTail DEF Late
<1>2. ASSUME w # 1, NEW i \in Late(Tail(s), p), NEW j \in Late(Tail(s), p)
      PROVE  i = j
  <2>1. i + 1 = j + 1 /\ i \in Nat /\ j \in Nat
    BY <1>1, <1>2 DEF OneLeft
  <2> QED
    BY <2>1
<1> QED
  BY <1>1, <1>2 DEF OneLeft

LEMMA KeptTail ==
  ASSUME NEW s \in Seq(Sent), s # <<>>, NEW i \in DOMAIN s, i # 1, NEW w, NEW v, NEW m,
         s[i].kind = "message", s[i].id = m, OneLeft(s, i, w)
  PROVE  Kept(Tail(s), v, w, m)
<1>1. i - 1 \in DOMAIN Tail(s) /\ Tail(s)[i - 1] = s[i] /\ i \in Nat \ {0}
  BY TailShifts
<1>2. i - 1 \in Nat /\ i = (i - 1) + 1
  BY <1>1
<1>3. OneLeft(Tail(s), i - 1, w)
  BY <1>2, OneLeftTail
<1> QED
  BY <1>1, <1>3 DEF Kept

LEMMA ReplayedTail ==
  ASSUME NEW s \in Seq(Sent), s # <<>>, NEW w, NEW h, NEW m, Replayed(s, h, w, m),
         w # 1 => \E j \in Joins(s) : j # 1
  PROVE  Replayed(Tail(s), h, w, m)
<1>1. CASE w = 1
  BY <1>1 DEF Replayed
<1>2. CASE w # 1
  <2>1. PICK k \in Joins(s) : (\A j \in Joins(s) : j <= k) /\ m \in ToSet(s[k].history)
    BY <1>2 DEF Replayed
  <2>2. k # 1
    <3>1. PICK j \in Joins(s) : j # 1
      BY <1>2
    <3>2. j \in Nat \ {0} /\ j <= k
      BY <2>1, JoinsTail
    <3> QED
      BY <3>1, <3>2
  <2>3. k - 1 \in Joins(Tail(s)) /\ m \in ToSet(Tail(s)[k - 1].history)
    BY <2>1, <2>2, JoinsTail
  <2>4. ASSUME NEW j \in Joins(Tail(s))
        PROVE  j <= k - 1
    <3>1. j \in Nat /\ k \in Nat /\ j + 1 <= k
      BY <2>1, JoinsTail
    <3> QED
      BY <3>1
  <2> QED
    BY <1>2, <2>3, <2>4 DEF Replayed
<1> QED
  BY <1>1, <1>2

LEMMA ReachesTaken ==
  ASSUME NEW s \in Seq(Sent), s # <<>>, Head(s).kind # "joined",
         NEW v, NEW u, NEW h, NEW r, NEW w, NEW m,
         ToSet(v) \subseteq ToSet(u), Head(s).kind = "message" => Head(s).id \in ToSet(u),
         Reaches(s, v, h, r, w, m)
  PROVE  Reaches(Tail(s), u, h, r, w, m)
<1>1. Head(s) = s[1] /\ 1 \notin Joins(s)
  BY TailShifts, JoinsTail
<1>2. CASE m \in ToSet(v) /\ OneLeft(s, 0, w)
  <2>1. Late(s, 0) = Late(s, 0 + 1)
    BY <1>1, JoinsTail DEF Late
  <2>2. OneLeft(s, 0 + 1, w)
    BY <1>2, <2>1 DEF OneLeft
  <2>3. OneLeft(Tail(s), 0, w)
    BY <2>2, OneLeftTail
  <2> QED
    BY <1>2, <2>3 DEF Reaches, Kept
<1>3. ASSUME NEW i \in DOMAIN s, s[i].kind = "message", s[i].id = m, OneLeft(s, i, w)
      PROVE  Reaches(Tail(s), u, h, r, w, m)
  <2>1. CASE i = 1
    <3>1. OneLeft(s, 0 + 1, w) /\ m \in ToSet(u)
      BY <1>1, <1>3, <2>1
    <3>2. OneLeft(Tail(s), 0, w)
      BY <3>1, OneLeftTail
    <3> QED
      BY <3>1, <3>2 DEF Reaches, Kept
  <2>2. CASE i # 1
    BY <1>3, <2>2, KeptTail DEF Reaches
  <2> QED
    BY <2>1, <2>2
<1>4. CASE Replayed(s, h, w, m)
  <2>1. w # 1 => \E j \in Joins(s) : j # 1
    BY <1>1, <1>4 DEF Replayed
  <2> QED
    BY <1>4, <2>1, ReplayedTail DEF Reaches
<1>5. CASE w # 1 /\ Joins(s) = {} /\ m \in r
  <2>1. Joins(Tail(s)) = {}
    BY <1>5, JoinsTail
  <2> QED
    BY <1>5, <2>1 DEF Reaches
<1> QED
  BY <1>2, <1>3, <1>4, <1>5 DEF Reaches, Kept

LEMMA ReachesReplaced ==
  ASSUME NEW s \in Seq(Sent), s # <<>>, Head(s).kind = "joined",
         NEW v, NEW h, NEW r, NEW w, NEW m,
         Reaches(s, v, h, r, w, m)
  PROVE  Reaches(Tail(s), Head(s).history, h, ToSet(v) \ ToSet(Head(s).history), w, m)
<1> DEFINE u == Head(s).history
           q == ToSet(v) \ ToSet(u)
<1>1. Head(s) = s[1] /\ 1 \in Joins(s)
  BY TailShifts, JoinsTail
<1>2. CASE m \in ToSet(v) /\ OneLeft(s, 0, w)
  <2>1. 1 \in Late(s, 0)
    BY <1>1 DEF Late
  <2>2. w # 1 /\ \A j \in Late(s, 0) : j = 1
    BY <1>2, <2>1 DEF OneLeft
  <2>3. \A j \in Joins(s) : j = 1
    BY <2>2, JoinsTail DEF Late
  <2>4. Joins(Tail(s)) = {}
    <3>1. ASSUME NEW j \in Joins(Tail(s))
          PROVE  FALSE
      <4>1. j \in Nat \ {0} /\ j + 1 = 1
        BY <2>3, JoinsTail
      <4> QED
        BY <4>1
    <3> QED
      BY <3>1
  <2>5. CASE m \in ToSet(u)
    <3>1. OneLeft(Tail(s), 0, w)
      BY <2>2, <2>4 DEF OneLeft, Late
    <3> QED
      BY <2>5, <3>1 DEF Reaches, Kept
  <2>6. CASE m \notin ToSet(u)
    BY <1>2, <2>2, <2>4, <2>6 DEF Reaches
  <2> QED
    BY <2>5, <2>6
<1>3. ASSUME NEW i \in DOMAIN s, s[i].kind = "message", s[i].id = m, OneLeft(s, i, w)
      PROVE  Reaches(Tail(s), u, h, q, w, m)
  <2>1. i # 1
    BY <1>1, <1>3
  <2> QED
    BY <1>3, <2>1, KeptTail DEF Reaches
<1>4. CASE Replayed(s, h, w, m)
  <2>1. CASE w = 1 \/ \E j \in Joins(s) : j # 1
    BY <1>4, <2>1, ReplayedTail DEF Reaches
  <2>2. CASE w # 1 /\ \A j \in Joins(s) : j = 1
    <3>1. m \in ToSet(u)
      BY <1>1, <1>4, <2>2 DEF Replayed
    <3>2. Joins(Tail(s)) = {}
      <4>1. ASSUME NEW j \in Joins(Tail(s))
            PROVE  FALSE
        <5>1. j \in Nat \ {0} /\ j + 1 = 1
          BY <2>2, JoinsTail
        <5> QED
          BY <5>1
      <4> QED
        BY <4>1
    <3>3. OneLeft(Tail(s), 0, w)
      BY <2>2, <3>2 DEF OneLeft, Late
    <3> QED
      BY <3>1, <3>3 DEF Reaches, Kept
  <2> QED
    BY <2>1, <2>2
<1>5. ~(Joins(s) = {})
  BY <1>1
<1> QED
  BY <1>2, <1>3, <1>4, <1>5 DEF Reaches, Kept
(* The client takes no notice of what its handler has in hand, unless it   *)
(* is the answer of a join.                                                *)
Awaits(c) ==
  \/ pc[c] = "count"
  \/ pc[c] \in {"members", "send", "answer"} /\ HoldsCount(c) /\ event[c].join

Owed(c) == IF Awaits(c) THEN 1 ELSE 0

Carries(d, c, m) ==
  /\ event[d].kind = "message" /\ event[d].id = m
  /\ pc[d] \in {"trim", "members"} \/ (pc[d] = "send" /\ c \in to[d])

InFlight(c, m) == \E d \in Clients : Carries(d, c, m)

Arriving(c, m) ==
  InFlight(c, m) \/ Reaches(inbox[c], view[c], history[c], replaced[c], Owed(c), m)

InScope(c) == c \in open \intersect room /\ pc[c] \notin {"enter", "history"} /\ c \notin blind

Shown == ToSet(First(list, HistorySize))

Arrives == \A c \in Clients : InScope(c) => \A m \in Shown : Arriving(c, m)

LEMMA ArrivesInitially == Init => Arrives
BY DEF Init, Arrives, InScope

LEMMA SameArrives ==
  ASSUME Arrives, Shown' \subseteq Shown,
         NEW d \in Clients, InScope(d)' => InScope(d),
         \A m : InScope(d) /\ Arriving(d, m) => Arriving(d, m)'
  PROVE  InScope(d)' => \A m \in Shown' : Arriving(d, m)'
BY DEF Arrives

LEMMA SameReaches ==
  ASSUME NEW d \in Clients, UNCHANGED <<inbox[d], view[d], replaced[d], history[d]>>,
         Owed(d)' = Owed(d), \A m : InFlight(d, m) => InFlight(d, m)'
  PROVE  \A m : Arriving(d, m) => Arriving(d, m)'
BY DEF Arriving

LEMMA SameOwed ==
  ASSUME NEW d \in Clients, UNCHANGED <<pc[d], event[d]>>
  PROVE  Owed(d)' = Owed(d)
BY DEF Owed, Awaits, HoldsCount

(* A message in flight stays so while its handler does, or takes a step    *)
(* that has it in hand still.                                              *)
LEMMA SameInFlight ==
  ASSUME NEW c \in Clients, NEW d \in Clients,
         \A x \in Clients \ {c} : pc'[x] = pc[x] /\ event'[x] = event[x] /\ to'[x] = to[x],
         \A m : Carries(c, d, m) => Carries(c, d, m)'
  PROVE  \A m : InFlight(d, m) => InFlight(d, m)'
<1> SUFFICES ASSUME NEW m, NEW x \in Clients, Carries(x, d, m)
             PROVE  InFlight(d, m)'
  BY DEF InFlight
<1>1. CASE x = c
  BY <1>1 DEF InFlight
<1>2. CASE x # c
  BY <1>2 DEF InFlight, Carries
<1> QED
  BY <1>1, <1>2

LEMMA EmptyHanded ==
  ASSUME NEW c \in Clients, event[c].kind # "message"
  PROVE  \A d, m : ~Carries(c, d, m)
BY DEF Carries

LEMMA AskArrives ==
  ASSUME ChatTypes, Arrives, NEW c \in Clients, Open(c) \/ Close(c) \/ SendMessage(c) \/ Lose(c)
  PROVE  Arrives'
<1>1. /\ pc[c] = "idle" /\ pc'[c] \in {"enter", "leave", "push"}
      /\ \A d \in Clients \ {c} : pc'[d] = pc[d]
      /\ UNCHANGED <<room, event, to, history, replaced, blind, list>>
      /\ \/ c \notin open /\ open' = open \union {c}
         \/ open' = open \ {c}
         \/ open' = open /\ UNCHANGED <<inbox, view>>
  BY DEF Open, Close, SendMessage, Lose, Ask, Goto, redis, ChatTypes, ChatTypeOK
<1>2. \A d \in Clients \ {c} : inbox'[d] = inbox[d] /\ view'[d] = view[d]
  BY DEF Open, Close, SendMessage, Lose, ChatTypes, ChatTypeOK
<1>3. event[c].kind = "none" /\ (c \in room => c \in open)
  BY <1>1, Kinds DEF ChatTypes, InHand, Placed
<1>4. \A d \in Clients : Owed(d)' = Owed(d)
  <2>1. Owed(c)' = Owed(c)
    BY <1>1, <1>3 DEF Owed, Awaits, HoldsCount
  <2> QED
    BY <1>1, <2>1, SameOwed
<1>5. \A d \in Clients : \A m : InFlight(d, m) => InFlight(d, m)'
  BY <1>1, <1>3, EmptyHanded, SameInFlight
<1>6. Shown' = Shown
  BY <1>1 DEF Shown
<1>7. ASSUME NEW d \in Clients
      PROVE  InScope(d)' => \A m \in Shown' : Arriving(d, m)'
  <2>1. InScope(d)' => InScope(d)
    BY <1>1, <1>3 DEF InScope
  <2>2. CASE InScope(d)'
    <3>1. UNCHANGED <<inbox[d], view[d], replaced[d], history[d]>>
      BY <1>1, <1>2, <1>3, <2>2 DEF InScope
    <3>2. \A m : Arriving(d, m) => Arriving(d, m)'
      BY <1>4, <1>5, <3>1, SameReaches
    <3> QED
      BY <1>6, <2>1, <3>2, SameArrives
  <2> QED
    BY <2>2
<1> QED
  BY <1>7 DEF Arrives

LEMMA PushArrives ==
  ASSUME ChatTypes, Arrives, NEW c \in Clients, Push(c)
  PROVE  Arrives'
<1>1. /\ pc[c] = "push" /\ pc'[c] \in {"trim", "members"}
      /\ event'[c].kind = "message" /\ event'[c].id = made + 1
      /\ \A d \in Clients \ {c} : pc'[d] = pc[d] /\ event'[d] = event[d] /\ to'[d] = to[d]
      /\ UNCHANGED <<room, open, blind, inbox, view, replaced, history>>
      /\ list' = list \/ list' = <<made + 1>> \o list
      /\ list \in Seq(Nat) /\ made + 1 \in Nat
  BY DEF Push, Goto, client, ChatTypes, ChatTypeOK
<1>2. event[c].kind = "none"
  BY <1>1, Kinds DEF ChatTypes, InHand
<1>3. Shown' \subseteq {made + 1} \union Shown
  BY <1>1, FirstPushed, ChatAssumption DEF Shown
<1>4. \A d \in Clients : Owed(d)' = Owed(d)
  <2>1. Owed(c)' = Owed(c)
    BY <1>1, <1>2 DEF Owed, Awaits, HoldsCount
  <2> QED
    BY <1>1, <2>1, SameOwed
<1>5. \A d \in Clients : \A m : InFlight(d, m) => InFlight(d, m)'
  BY <1>1, <1>2, EmptyHanded, SameInFlight
<1>6. ASSUME NEW d \in Clients, InScope(d)', NEW m \in Shown'
      PROVE  Arriving(d, m)'
  <2>1. InScope(d)
    BY <1>1, <1>6 DEF InScope
  <2>2. CASE m = made + 1
    <3>1. Carries(c, d, m)'
      BY <1>1, <2>2 DEF Carries
    <3> QED
      BY <3>1 DEF Arriving, InFlight
  <2>3. CASE m \in Shown
    <3>1. Arriving(d, m)
      BY <2>1, <2>3 DEF Arrives
    <3> QED
      BY <1>1, <1>4, <1>5, <3>1, SameReaches
  <2> QED
    BY <1>3, <2>2, <2>3
<1> QED
  BY <1>6 DEF Arrives

LEMMA PreparesArrives ==
  ASSUME ChatTypes, Arrives, NEW c \in Clients, Trim(c) \/ Members(c)
  PROVE  Arrives'
<1>1. /\ pc[c] \in {"trim", "members"} /\ UNCHANGED event
      /\ \A d \in Clients \ {c} : pc'[d] = pc[d] /\ to'[d] = to[d]
      /\ UNCHANGED <<room, open, blind, inbox, view, replaced, history>>
      /\ pc[c] = "trim" => pc'[c] = "members"
      /\ pc[c] = "members" => pc'[c] = "send" /\ to'[c] = room
      /\ list' = list \/ list' = First(list, MaxKept)
  BY DEF Trim, Members, Goto, client, redis, ChatTypes, ChatTypeOK, Newest, First
<1>2. Shown' \subseteq Shown
  BY <1>1, FirstTrimmed, ChatAssumption DEF Shown, ChatTypes, ChatTypeOK
<1>3. pc[c] = "trim" => event[c].kind = "message"
  BY Kinds DEF ChatTypes, InHand
<1>4. \A d \in Clients : Owed(d)' = Owed(d)
  <2>1. Owed(c)' = Owed(c)
    BY <1>1, <1>3 DEF Owed, Awaits, HoldsCount
  <2> QED
    BY <1>1, <2>1, SameOwed
<1>5. ASSUME NEW d \in Clients
      PROVE  InScope(d)' => \A m \in Shown' : Arriving(d, m)'
  <2>1. InScope(d)' => InScope(d)
    BY <1>1 DEF InScope
  <2>2. ASSUME InScope(d)
        PROVE  \A m : Arriving(d, m) => Arriving(d, m)'
    <3>1. \A m : Carries(c, d, m) => Carries(c, d, m)'
      BY <1>1, <2>2 DEF Carries, InScope
    <3>2. \A m : InFlight(d, m) => InFlight(d, m)'
      BY <1>1, <3>1, SameInFlight
    <3> QED
      BY <1>1, <1>4, <3>2, SameReaches
  <2> QED
    BY <1>2, <2>1, <2>2, SameArrives
<1> QED
  BY <1>5 DEF Arrives

LEMMA SendArrives ==
  ASSUME ChatTypes, Arrives, NEW c \in Clients, Send(c)
  PROVE  Arrives'
<1> DEFINE e == event[c]
<1>1. /\ pc[c] = "send" /\ event[c] \in Message \union Presence
      /\ \/ pc'[c] = "answer" /\ event'[c] = event[c]
         \/ pc'[c] = "idle" /\ event'[c] = None /\ ~(event[c].kind = "presence" /\ event[c].join)
      /\ \A d \in Clients \ {c} : pc'[d] = pc[d] /\ event'[d] = event[d] /\ to'[d] = to[d]
      /\ UNCHANGED <<room, open, blind, view, replaced, history, list>>
      /\ \A d \in Clients :
           inbox'[d] = IF d \in to[c] THEN Append(inbox[d], event[c]) ELSE inbox[d]
  BY DEF Send, Goto, InHand, client, redis, ChatTypes, ChatTypeOK
<1>2. Shown' = Shown
  BY <1>1 DEF Shown
<1>3. \A d \in Clients : Owed(d)' = Owed(d)
  <2>1. Owed(c)' = Owed(c)
    BY <1>1, Kinds DEF Owed, Awaits, HoldsCount
  <2> QED
    BY <1>1, <2>1, SameOwed
<1>4. event[c] \in Sent /\ event[c].kind # "joined"
  BY <1>1, Kinds DEF Sent
<1>5. ASSUME NEW d \in Clients, NEW m, Arriving(d, m)
      PROVE  Arriving(d, m)'
  <2>1. inbox[d] \in Seq(Sent)
    BY DEF ChatTypes, ChatTypeOK
  <2>2. ASSUME NEW x \in Clients \ {c}, Carries(x, d, m)
        PROVE  Arriving(d, m)'
    BY <1>1, <2>2 DEF Arriving, InFlight, Carries
  <2>3. CASE /\ d \in to[c]
             /\ \/ Carries(c, d, m)
                \/ Reaches(inbox[d], view[d], history[d], replaced[d], Owed(d), m)
    <3>1. Carries(c, d, m) => event[c].kind = "message" /\ event[c].id = m
      BY DEF Carries
    <3>2. Reaches(Append(inbox[d], event[c]), view[d], history[d], replaced[d], Owed(d), m)
      BY <1>4, <2>1, <2>3, <3>1, ReachesAppended
    <3> QED
      BY <1>1, <1>3, <2>3, <3>2 DEF Arriving
  <2>4. CASE d \notin to[c] /\ Reaches(inbox[d], view[d], history[d], replaced[d], Owed(d), m)
    BY <1>1, <1>3, <2>4 DEF Arriving
  <2>5. Carries(c, d, m) => d \in to[c]
    BY <1>1 DEF Carries
  <2> QED
    BY <1>5, <2>2, <2>3, <2>4, <2>5 DEF Arriving, InFlight
<1>6. \A d \in Clients : InScope(d)' => InScope(d)
  BY <1>1 DEF InScope
<1>7. \A d \in Clients : InScope(d)' => \A m \in Shown' : Arriving(d, m)'
  BY <1>2, <1>5, <1>6, SameArrives
<1> QED
  BY <1>7 DEF Arrives

LEMMA AnswerArrives ==
  ASSUME ChatTypes, Arrives, NEW c \in Clients, Answer(c)
  PROVE  Arrives'
<1> DEFINE joined == [kind |-> "joined", history |-> history[c], count |-> event[c].count]
<1>1. /\ pc[c] = "answer" /\ event[c] \in Presence /\ event[c].join
      /\ pc'[c] = "idle" /\ event'[c] = None
      /\ \A d \in Clients \ {c} : /\ pc'[d] = pc[d] /\ event'[d] = event[d]
                                  /\ inbox'[d] = inbox[d] /\ history'[d] = history[d]
      /\ UNCHANGED <<room, open, blind, view, replaced, to, list>>
      /\ inbox'[c] = Append(inbox[c], joined)
  BY DEF Answer, Goto, InHand, client, redis, ChatTypes, ChatTypeOK
<1>2. joined \in Sent /\ joined.kind = "joined" /\ joined.history = history[c]
  BY <1>1, Kinds DEF Sent, Joined, ChatTypes, ChatTypeOK
<1> HIDE DEF joined
<1>3. Shown' = Shown
  BY <1>1 DEF Shown
<1>4. Owed(c) = 1 /\ Owed(c)' = 0 /\ event[c].kind = "presence"
  BY <1>1, Kinds DEF Owed, Awaits, HoldsCount
<1>5. \A d \in Clients : \A m : InFlight(d, m) => InFlight(d, m)'
  BY <1>1, <1>4, EmptyHanded, SameInFlight
<1>6. ASSUME NEW d \in Clients
      PROVE  \A m : Arriving(d, m) => Arriving(d, m)'
  <2>1. CASE d # c
    BY <1>1, <1>5, <2>1, SameOwed, SameReaches
  <2>2. ASSUME d = c, NEW m, Reaches(inbox[c], view[c], history[c], replaced[c], Owed(c), m)
        PROVE  Arriving(c, m)'
    <3>1. inbox[c] \in Seq(Sent)
      BY DEF ChatTypes, ChatTypeOK
    <3>2. Reaches(inbox[c], view[c], history[c], replaced[c], 1, m)
      BY <1>4, <2>2
    <3>3. Reaches(Append(inbox[c], joined), view[c], history'[c], replaced[c], 0, m)
      BY <1>2, <3>1, <3>2, ReachesAnswered
    <3> QED
      BY <1>1, <1>4, <3>3 DEF Arriving
  <2> QED
    BY <1>5, <2>1, <2>2 DEF Arriving
<1>7. \A d \in Clients : InScope(d)' => InScope(d)
  BY <1>1 DEF InScope
<1>8. \A d \in Clients : InScope(d)' => \A m \in Shown' : Arriving(d, m)'
  BY <1>3, <1>6, <1>7, SameArrives
<1> QED
  BY <1>8 DEF Arrives

(* A client that enters, or leaves, is out of scope.                       *)
LEMMA MovesArrives ==
  ASSUME ChatTypes, Arrives, NEW c \in Clients, Enter(c) \/ Leave(c)
  PROVE  Arrives'
<1>1. /\ pc[c] \in {"enter", "leave"} /\ pc'[c] \in {"history", "countLeft"}
      /\ \A d \in Clients \ {c} : pc'[d] = pc[d] /\ (d \in room' => d \in room)
      /\ pc'[c] # "history" => c \notin room'
      /\ UNCHANGED <<event, to, open, blind, inbox, view, replaced, history, list>>
  BY DEF Enter, Leave, Goto, client, redis, ChatTypes, ChatTypeOK
<1>2. event[c].kind = "none"
  BY <1>1, Kinds DEF ChatTypes, InHand
<1>3. \A d \in Clients : \A m : InFlight(d, m) => InFlight(d, m)'
  BY <1>1, <1>2, EmptyHanded, SameInFlight
<1>4. ASSUME NEW d \in Clients
      PROVE  InScope(d)' => \A m \in Shown' : Arriving(d, m)'
  <2>1. CASE d = c
    BY <1>1, <2>1 DEF InScope
  <2>2. CASE d # c
    <3>1. InScope(d)' => InScope(d)
      BY <1>1, <2>2 DEF InScope
    <3>2. \A m : Arriving(d, m) => Arriving(d, m)'
      BY <1>1, <1>3, <2>2, SameOwed, SameReaches
    <3>3. Shown' = Shown
      BY <1>1 DEF Shown
    <3> QED
      BY <3>1, <3>2, <3>3, SameArrives
  <2> QED
    BY <2>1, <2>2
<1> QED
  BY <1>4 DEF Arrives

(* What a client reads is what it has to be shown.                         *)
LEMMA LoadHistoryArrives ==
  ASSUME ChatTypes, Arrives, NEW c \in Clients, LoadHistory(c)
  PROVE  Arrives'
<1>1. /\ pc[c] = "history" /\ pc'[c] = "count"
      /\ \A d \in Clients \ {c} : /\ pc'[d] = pc[d] /\ history'[d] = history[d]
                                  /\ d \in blind' <=> d \in blind
      /\ UNCHANGED <<event, to, room, open, inbox, view, replaced, list>>
      /\ c \in blind' \/ history'[c] = Reverse(First(list, HistorySize))
  BY DEF LoadHistory, Goto, client, redis, ChatTypes, ChatTypeOK, Newest, First
<1>2. event[c].kind = "none" /\ Shown' = Shown
  BY <1>1, Kinds DEF ChatTypes, InHand, Shown
<1>3. \A d \in Clients : \A m : InFlight(d, m) => InFlight(d, m)'
  BY <1>1, <1>2, EmptyHanded, SameInFlight
<1>4. ASSUME InScope(c)'
      PROVE  \A m \in Shown' : Arriving(c, m)'
  <2>1. history'[c] = Reverse(First(list, HistorySize))
    BY <1>1, <1>4 DEF InScope
  <2>2. ToSet(history'[c]) = Shown
    BY <2>1, FirstSeq, ReverseSeq, ChatAssumption DEF Shown, ChatTypes, ChatTypeOK
  <2>3. Owed(c)' = 1
    BY <1>1 DEF Owed, Awaits
  <2>4. \A m \in Shown : Replayed(inbox'[c], history'[c], 1, m)
    BY <2>2 DEF Replayed
  <2> QED
    BY <1>2, <2>3, <2>4 DEF Arriving, Reaches
<1>5. ASSUME NEW d \in Clients, d # c
      PROVE  InScope(d)' => \A m \in Shown' : Arriving(d, m)'
  <2>1. InScope(d)' => InScope(d)
    BY <1>1, <1>5 DEF InScope
  <2>2. \A m : Arriving(d, m) => Arriving(d, m)'
    BY <1>1, <1>3, <1>5, SameOwed, SameReaches
  <2> QED
    BY <1>2, <2>1, <2>2, SameArrives
<1> QED
  BY <1>4, <1>5 DEF Arrives

LEMMA CountArrives ==
  ASSUME ChatTypes, Arrives, NEW c \in Clients, NEW from \in {"count", "countLeft"}, Count(c, from)
  PROVE  Arrives'
<1>1. /\ pc[c] = from /\ pc'[c] = "members"
      /\ event'[c].kind = "presence" /\ event'[c].join = (from = "count")
      /\ \A d \in Clients \ {c} : pc'[d] = pc[d] /\ event'[d] = event[d]
      /\ UNCHANGED <<to, history, room, open, blind, inbox, view, replaced, list>>
  BY DEF Count, Goto, client, redis, ChatTypes, ChatTypeOK
<1>2. event[c].kind = "none" /\ Shown' = Shown
  BY <1>1, Kinds DEF ChatTypes, InHand, Shown
<1>3. \A d \in Clients : \A m : InFlight(d, m) => InFlight(d, m)'
  BY <1>1, <1>2, EmptyHanded, SameInFlight
<1>4. \A d \in Clients : Owed(d)' = Owed(d)
  <2>1. CASE from = "count"
    <3>1. Awaits(c) /\ Awaits(c)'
      BY <1>1, <2>1 DEF Awaits, HoldsCount
    <3> QED
      BY <1>1, <3>1, SameOwed DEF Owed
  <2>2. CASE from = "countLeft"
    <3>1. ~Awaits(c) /\ ~Awaits(c)'
      BY <1>1, <2>2 DEF Awaits, HoldsCount
    <3> QED
      BY <1>1, <3>1, SameOwed DEF Owed
  <2> QED
    BY <2>1, <2>2
<1>5. \A d \in Clients : InScope(d)' => InScope(d)
  BY <1>1 DEF InScope
<1>6. \A d \in Clients : \A m : Arriving(d, m) => Arriving(d, m)'
  BY <1>1, <1>3, <1>4, SameReaches
<1>7. \A d \in Clients : InScope(d)' => \A m \in Shown' : Arriving(d, m)'
  BY <1>2, <1>5, <1>6, SameArrives
<1> QED
  BY <1>7 DEF Arrives

LEMMA ReceiveArrives ==
  ASSUME ChatTypes, Arrives, NEW c \in Clients, Receive(c)
  PROVE  Arrives'
<1> DEFINE e == Head(inbox[c])
<1>1. /\ UNCHANGED <<room, pc, event, to, history, open, blind, list>>
      /\ inbox[c] # <<>> /\ inbox[c] \in Seq(Sent) /\ inbox'[c] = Tail(inbox[c])
      /\ view[c] \in Seq(Nat)
      /\ \A d \in Clients \ {c} : inbox'[d] = inbox[d]
  BY DEF Receive, handler, redis, ChatTypes, ChatTypeOK
<1>2. \A d \in Clients \ {c} : view'[d] = view[d] /\ replaced'[d] = replaced[d]
  BY DEF Receive, appendMessage, ChatTypes, ChatTypeOK
<1>3. c \in open =>
        \/ e.kind = "message" /\ UNCHANGED replaced
           /\ view'[c] = IF e.id \in ToSet(view[c]) THEN view[c] ELSE Append(view[c], e.id)
        \/ e.kind = "presence" /\ UNCHANGED <<view, replaced>>
        \/ e.kind = "joined" /\ view'[c] = e.history
           /\ replaced'[c] = ToSet(view[c]) \ ToSet(e.history)
  BY DEF Receive, appendMessage, ChatTypes, ChatTypeOK
<1>4. e \in Sent
  BY <1>1, TailShifts
<1>5. Shown' = Shown /\ \A d \in Clients : Owed(d)' = Owed(d)
  BY <1>1, SameOwed DEF Shown
<1>6. \A d \in Clients : \A m : InFlight(d, m) => InFlight(d, m)'
  BY <1>1 DEF InFlight, Carries
<1>7. ASSUME c \in open, NEW m, Reaches(inbox[c], view[c], history[c], replaced[c], Owed(c), m)
      PROVE  Arriving(c, m)'
  <2>1. CASE e.kind = "joined"
    <3>1. Reaches(Tail(inbox[c]), e.history, history[c], ToSet(view[c]) \ ToSet(e.history), Owed(c), m)
      BY <1>1, <1>7, <2>1, ReachesReplaced
    <3> QED
      BY <1>1, <1>3, <1>5, <1>7, <2>1, <3>1 DEF Arriving
  <2>2. CASE e.kind # "joined"
    <3>1. ToSet(view[c]) \subseteq ToSet(view'[c])
          /\ (e.kind = "message" => e.id \in ToSet(view'[c]))
      <4>1. CASE e.kind = "message" /\ e.id \notin ToSet(view[c])
        <5>1. e.id \in Nat
          BY <1>4, <4>1, Kinds DEF Sent
        <5>2. view'[c] = Append(view[c], e.id)
          BY <1>3, <1>7, <4>1
        <5>3. /\ DOMAIN view'[c] = DOMAIN view[c] \union {Len(view[c]) + 1}
              /\ \A i \in DOMAIN view[c] : view'[c][i] = view[c][i]
              /\ view'[c][Len(view[c]) + 1] = e.id
          BY <1>1, <5>1, <5>2, Appended
        <5> QED
          BY <5>3 DEF ToSet
      <4>2. CASE ~(e.kind = "message" /\ e.id \notin ToSet(view[c]))
        BY <1>3, <1>7, <2>2, <4>2
      <4> QED
        BY <4>1, <4>2
    <3>2. replaced'[c] = replaced[c]
      BY <1>3, <1>7, <2>2
    <3>3. Reaches(Tail(inbox[c]), view'[c], history[c], replaced[c], Owed(c), m)
      BY <1>1, <1>7, <2>2, <3>1, ReachesTaken
    <3> QED
      BY <1>1, <1>5, <3>2, <3>3 DEF Arriving
  <2> QED
    BY <2>1, <2>2
<1>8. ASSUME NEW d \in Clients
      PROVE  InScope(d)' => \A m \in Shown' : Arriving(d, m)'
  <2>1. InScope(d)' => InScope(d)
    BY <1>1 DEF InScope
  <2>2. InScope(d) => \A m : Arriving(d, m) => Arriving(d, m)'
    <3>1. CASE d = c
      BY <1>6, <1>7, <3>1 DEF InScope, Arriving
    <3>2. CASE d # c
      BY <1>1, <1>2, <1>5, <1>6, <3>2, SameReaches
    <3> QED
      BY <3>1, <3>2
  <2> QED
    BY <1>5, <2>1, <2>2, SameArrives
<1> QED
  BY <1>8 DEF Arrives

LEMMA ArrivesInductive == ChatTypes /\ Arrives /\ [Next]_vars => Arrives'
<1> SUFFICES ASSUME ChatTypes, Arrives, [Next]_vars
             PROVE  Arrives'
  OBVIOUS
<1>1. ASSUME NEW c \in Clients,
             Open(c) \/ Close(c) \/ SendMessage(c) \/ Lose(c) \/ Handle(c) \/ Receive(c)
      PROVE  Arrives'
  BY <1>1, AskArrives, PushArrives, PreparesArrives, SendArrives, AnswerArrives, MovesArrives,
     LoadHistoryArrives, CountArrives, ReceiveArrives DEF Handle
<1>2. CASE Expires
  <2>1. ASSUME NEW s \in Seq(Nat), Len(s) = 0
        PROVE  ToSet(First(s, HistorySize)) = {}
    <3> DEFINE t == First(s, HistorySize)
    <3>1. t \in Seq(Nat) /\ Len(t) = IF HistorySize < Len(s) THEN HistorySize ELSE Len(s)
      BY FirstSeq, ChatAssumption
    <3> HIDE DEF t
    <3>2. Len(t) = 0
      BY <2>1, <3>1, ChatAssumption
    <3>3. DOMAIN t = {}
      BY <3>1, <3>2
    <3> QED
      BY <3>3 DEF ToSet, t
  <2>2. list' = <<>> /\ <<>> \in Seq(Nat) /\ Len(<<>>) = 0
    BY <1>2 DEF Expires
  <2>3. list' \in Seq(Nat) /\ Len(list') = 0
    BY <2>2
  <2>4. Shown' = {}
    BY <2>1, <2>3 DEF Shown
  <2> QED
    BY <2>4 DEF Arrives
<1>3. CASE UNCHANGED vars
  <2>1. UNCHANGED <<list, pc, event, to, history, inbox, view, replaced, room, open, blind>>
    BY <1>3 DEF vars, redis, handler, client
  <2> QED
    BY <2>1 DEF Arrives, Shown, InScope, Arriving, InFlight, Carries, Owed, Awaits, HoldsCount
<1> QED
  BY <1>1, <1>2, <1>3 DEF Next

-------------------------------------------------------------------------------
(* The inductive invariant, and what it means for a client at rest.        *)

ChatInv == ChatTypes /\ Unrepeated /\ Counted /\ Arrives

LEMMA ChatInvariant == Spec => []ChatInv
<1>1. Init => ChatInv
  BY TypesInitially, UnrepeatedInitially, CountedInitially, ArrivesInitially
     DEF ChatInv
<1>2. ChatInv /\ [Next]_vars => ChatInv'
  BY TypesInductive, UnrepeatedInductive, CountedInductive, ArrivesInductive
     DEF ChatInv
<1> QED
  BY <1>1, <1>2, PTL DEF Spec

LEMMA Resting ==
  ASSUME ChatTypes, NEW c \in Clients, AtRest(c)
  PROVE  /\ c \in open \intersect room /\ inbox[c] = <<>>
         /\ \A d \in Clients : pc[d] = "idle" /\ ~HoldsCount(d) /\ event[d].kind = "none"
BY Kinds DEF AtRest, ChatTypes, InHand, HoldsCount

(* No client ever shows a message twice, though the history of its join    *)
(* and a broadcast may both bring it (appendMessage, setHistory).          *)
THEOREM NothingShownTwice == Spec => []ShownOnce
<1>1. ChatInv => ShownOnce
  BY DEF ChatInv, Unrepeated, ShownOnce
<1> QED
  BY <1>1, ChatInvariant, PTL

(* At rest a member shows the number of members, unless two counts were    *)
(* out at once (the handlers of chat:join, chat:leave and disconnect).     *)
THEOREM PresenceIsRight == Spec => []PresenceSettles
<1>1. ASSUME ChatInv, NEW c \in Clients, AtRest(c), ~raced
      PROVE  presence[c] = Cardinality(room)
  <2>1. /\ c \in open \intersect room /\ inbox[c] = <<>>
        /\ \A d \in Clients : pc[d] = "idle" /\ ~HoldsCount(d)
    BY <1>1, Resting DEF ChatInv
  <2>2. Settled /\ ~Told(c)
    BY <1>1, <2>1 DEF Settled, Uncounted, Told
  <2>3. LastIs(<<>>, presence[c], Cardinality(room))
    BY <1>1, <2>1, <2>2 DEF ChatInv, Counted, Knows
  <2>4. Counts(<<>>) = {}
    BY DEF Counts
  <2> QED
    BY <2>3, <2>4 DEF LastIs
<1>2. ChatInv => PresenceSettles
  BY <1>1 DEF PresenceSettles
<1> QED
  BY <1>2, ChatInvariant, PTL

(* At rest a member shows the newest messages of the list, whatever the    *)
(* order in which its joins, the reads of the history and the broadcasts   *)
(* of others went, but for those setHistory replaced and those of a        *)
(* history that could not be read (chat:join, chat:send, chatStore).       *)
THEOREM NewestArrive == Spec => []ShowsNewest
<1>1. ASSUME ChatInv, NEW c \in Clients, AtRest(c), c \notin blind, NEW m \in Shown
      PROVE  m \in ToSet(view[c]) \union replaced[c]
  <2>1. /\ c \in open \intersect room /\ inbox[c] = <<>>
        /\ \A d \in Clients : pc[d] = "idle" /\ ~HoldsCount(d) /\ event[d].kind = "none"
    BY <1>1, Resting DEF ChatInv
  <2>2. InScope(c) /\ Owed(c) = 0
    BY <1>1, <2>1 DEF InScope, Owed, Awaits
  <2>3. Arriving(c, m)
    BY <1>1, <2>2 DEF ChatInv, Arrives
  <2>4. ~InFlight(c, m)
    BY <2>1 DEF InFlight, Carries
  <2>5. Reaches(<<>>, view[c], history[c], replaced[c], 0, m)
    BY <2>1, <2>2, <2>3, <2>4 DEF Arriving
  <2>6. Joins(<<>>) = {} /\ DOMAIN <<>> = {} /\ 0 # 1
    BY DEF Joins
  <2> QED
    BY <2>5, <2>6 DEF Reaches, Kept, Replayed
<1>2. Shown = ToSet(Newest(HistorySize))
  BY DEF Shown, First, Newest
<1>3. ChatInv => ShowsNewest
  BY <1>1, <1>2 DEF ShowsNewest
<1> QED
  BY <1>3, ChatInvariant, PTL
===============================================================================
