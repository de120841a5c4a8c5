----------------------------- MODULE MessageChannel -----------------------------
(***************************************************************************)
(* What an Engine.IO session promises the layer above it: the messages     *)
(* accepted by Send reach the client in that order, each once, for as long *)
(* as the client is there.  Nothing is said of when.                       *)
(***************************************************************************)
EXTENDS Naturals, Sequences

CONSTANT Messages

VARIABLES underway, received, there

Init == underway = <<>> /\ received = <<>> /\ there = TRUE

Accept ==
  /\ \E msg \in Messages : underway' = Append(underway, msg)
  /\ UNCHANGED <<received, there>>

\* A poll response or a run of frames arrives.
Deliver ==
  /\ there
  /\ \E n \in 1 .. Len(underway) :
       /\ received' = received \o SubSeq(underway, 1, n)
       /\ underway' = SubSeq(underway, n + 1, Len(underway))
  /\ UNCHANGED there

\* The client goes away: what was underway, or is accepted later, is lost.
Break == there' = FALSE /\ underway' = <<>> /\ UNCHANGED received

Next == Accept \/ Deliver \/ Break

Spec == Init /\ [][Next]_<<underway, received, there>>
===============================================================================
