-------------------------------- MODULE MCParts --------------------------------
(***************************************************************************)
(* Five parts of the server for TLC: the rooms, an Engine.IO session, the  *)
(* registry of acknowledgements, the feedback endpoint and the shutdown.   *)
(* They share no variable, so a behaviour here is a behaviour of one of    *)
(* them, the others at rest: TLC visits the sum of their states and not    *)
(* the product.                                                            *)
(***************************************************************************)
EXTENDS RoomIndex, EngineSession, AckRegistry, Shutdown, TLC

CONSTANTS
  s1, s2, s3, r1, r2, r3,
  a, b, c,
  RateLimit, Window, MaxFaults

MCSids     == {s1, s2, s3}
MCRooms    == {r1, r2, r3}
MCRequests == {a, b, c}
MCSidOf    == [r \in MCRequests |-> s1]
MCIdOf     == [r \in MCRequests |-> IF r = c THEN 2 ELSE 1]   \* b takes the place of a
MCTimed    == {a, c}
MCHttp     == {a, b}

VARIABLES
  part,           \* the part this behaviour is of
  counter, ttl, formPc, counted, answer, orphaned, faults

Form == INSTANCE Feedback WITH pc <- formPc, got <- counted

feedback == <<counter, ttl, formPc, counted, answer, orphaned, faults>>

PartsInit ==
  /\ part \in {"rooms", "session", "acks", "feedback", "shutdown"}
  /\ Init /\ SessionInit /\ AckInit /\ Form!Init /\ ShutdownInit
  /\ part = "session" \/ client = "polling"      \* one initial state of each part at rest

PartsNext ==
  /\ UNCHANGED part
  /\ \/ /\ part = "rooms" /\ Next
        /\ UNCHANGED <<sessionVars, ackVars, feedback, shutdownVars>>
     \/ /\ part = "session" /\ SessionNext
        /\ UNCHANGED <<vars, ackVars, feedback, shutdownVars>>
     \/ /\ part = "acks" /\ AckNext
        /\ UNCHANGED <<vars, sessionVars, feedback, shutdownVars>>
     \/ /\ part = "feedback" /\ Form!Next
        /\ UNCHANGED <<vars, sessionVars, ackVars, shutdownVars>>
     \/ /\ part = "shutdown" /\ ShutdownNext
        /\ UNCHANGED <<vars, sessionVars, ackVars, feedback>>

partsVars == <<part, vars, sessionVars, ackVars, feedback, shutdownVars>>

(* The fairness of the part that moves.                                    *)
PartsFairness ==
  \/ part = "rooms"
  \/ part = "session"  /\ SessionFairness
  \/ part = "acks"     /\ AckFairness
  \/ part = "feedback" /\ Form!Fairness
  \/ part = "shutdown" /\ ShutdownFairness

PartsSpec == PartsInit /\ [][PartsNext]_partsVars /\ PartsFairness

-------------------------------------------------------------------------------
\* The counter goes away, unless no EXPIRE took effect (feedback.go, Handle).
KeyExpires == Form!KeyExpires

===============================================================================
