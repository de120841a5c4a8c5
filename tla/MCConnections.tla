----------------------------- MODULE MCConnections -----------------------------
(***************************************************************************)
(* Two sessions of one user, one after the other or at the same time, one  *)
(* grid cell and the chat room.  The first rejected event is forgiven, the *)
(* second disconnects (ten and eleven in the code).                        *)
(***************************************************************************)
EXTENDS Connections, TLC

CONSTANTS s1, s2, u1, c1, chat, none

OneSid   == {s1}
TwoSids  == {s1, s2}
SameUser == [s \in {s1, s2} |-> u1]
OneUser  == [s \in {s1} |-> u1]
SymSids  == Permutations(TwoSids)
OneCell  == {c1}
===============================================================================
