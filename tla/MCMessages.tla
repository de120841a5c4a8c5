------------------------------ MODULE MCMessages ------------------------------
(***************************************************************************)
(* What clients and server tell each other, for TLC: the chat, the feed of *)
(* the fire map, the dispatch of events and their encoding.  They share no *)
(* variable, so a behaviour here is a behaviour of one of them, the others *)
(* at rest: TLC visits the sum of their states and not the product.        *)
(***************************************************************************)
EXTENDS Chat, FireFeed, Dispatch, PacketTransfer, TLC

CONSTANTS a, b, x, y, e1, e2, e3

\* Two fires in one cell, the second without a broadcast of its own, and a demo fire.
MCCells  == {x, y}
MCFires  == {e1, e2, e3}
MCCellOf == e1 :> x @@ e2 :> x @@ e3 :> y

\* Events and acknowledgements without and with binary data, at the top level and
\* nested, with more placeholders than attachments, and an id of three digits; CONNECT
\* and its refusal.
MCTransferred == {
  [kind |-> "event", ns |-> "/", id |-> -1, name |-> 7, args |-> <<>>],
  [kind |-> "event", ns |-> "/", id |-> 120, name |-> 7,
   args |-> <<Scalar(Text(1)), <<1>> :> Text(2) @@ <<2, 1>> :> Text(3)>>],
  [kind |-> "event", ns |-> "/chat", id |-> 3, name |-> 8,
   args |-> <<<<1>> :> Bytes(1) @@ <<2>> :> Bytes(2)>>],
  [kind |-> "ack", ns |-> "/chat", id |-> 0, args |-> <<>>],
  [kind |-> "ack", ns |-> "/", id |-> 10,
   args |-> <<<<1>> :> Bytes(2) @@ <<2>> :> Hole(0) @@ <<3>> :> Hole(5)>>],
  [kind |-> "connect", ns |-> "/", id |-> -1, name |-> 9],
  [kind |-> "refusal", ns |-> "/chat", id |-> -1, name |-> 9] }

VARIABLE part     \* the part this behaviour is of

MessagesInit ==
  /\ part \in {"chat", "feed", "dispatch", "codec"}
  /\ Init /\ FeedInit /\ DispatchInit /\ TransferInit

MessagesNext ==
  /\ UNCHANGED part
  /\ \/ part = "chat" /\ Next /\ UNCHANGED <<feedVars, dispatchVars, transferVars>>
     \/ part = "feed" /\ FeedNext /\ UNCHANGED <<vars, dispatchVars, transferVars>>
     \/ part = "dispatch" /\ DispatchNext /\ UNCHANGED <<vars, feedVars, transferVars>>
     \/ part = "codec" /\ TransferNext /\ UNCHANGED <<vars, feedVars, dispatchVars>>

Symmetry == Permutations({a, b})      \* the clients of the chat

messagesVars == <<part, vars, feedVars, dispatchVars, transferVars>>

MessagesSpec == MessagesInit /\ [][MessagesNext]_messagesVars

===============================================================================
