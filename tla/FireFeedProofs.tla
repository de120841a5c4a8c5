--------------------------- MODULE FireFeedProofs ---------------------------
(***************************************************************************)
(* Proofs about module FireFeed, for any set of cells and of fires: the    *)
(* map of a client ends on what was last given to the batcher, and a list  *)
(* has every cell that burned all along.                                   *)
(***************************************************************************)
EXTENDS FireFeed, TLAPS

-------------------------------------------------------------------------------
(* Maps from some of the cells.                                            *)

Maps(S) == UNION {[D -> S] : D \in SUBSET Cells}

Positive == Nat \ {0}

LEMMA MapValues ==
  ASSUME NEW S, NEW m \in Maps(S)
  PROVE  DOMAIN m \subseteq Cells /\ \A c \in DOMAIN m : m[c] \in S
BY DEF Maps

LEMMA EmptyMap ==
  ASSUME NEW S
  PROVE  Empty \in Maps(S) /\ DOMAIN Empty = {}
<1>1. Empty \in [{} -> S]
  BY DEF Empty
<1> QED
  BY <1>1 DEF Maps, Empty

LEMMA PutMap ==
  ASSUME NEW S, NEW m \in Maps(S), NEW c \in Cells, NEW n \in S
  PROVE  Put(m, c, n) \in Maps(S)
<1>1. DOMAIN m \union {c} \in SUBSET Cells
  BY MapValues
<1>2. Put(m, c, n) \in [DOMAIN m \union {c} -> S]
  BY MapValues DEF Put
<1> QED
  BY <1>1, <1>2 DEF Maps, Put

LEMMA DeleteMap ==
  ASSUME NEW S, NEW m \in Maps(S), NEW c
  PROVE  /\ Delete(m, c) \in Maps(S)
         /\ DOMAIN Delete(m, c) = DOMAIN m \ {c}
         /\ \A d \in DOMAIN m \ {c} : Delete(m, c)[d] = m[d]
<1>1. DOMAIN m \ {c} \in SUBSET Cells
  BY MapValues
<1>2. Delete(m, c) \in [DOMAIN m \ {c} -> S]
  BY MapValues DEF Delete, Restrict
<1> QED
  BY <1>1, <1>2 DEF Maps, Delete, Restrict

-------------------------------------------------------------------------------
(* Types.  A fire that is registered has a count, of one at least, so that *)
(* what the batcher holds is never a count of zero.                        *)

Queries == [kind : {"get_fires", "fire:state"}, asked : SUBSET Cells, left : SUBSET Cells,
            list : Maps(Nat), failed : SUBSET Cells, lit : SUBSET Cells, dark : SUBSET Cells]

FeedTypeOK ==
  /\ burning \in [Cells -> Nat]
  /\ work \in [Fires -> {"idle", "telling", "adding", "done"}]
  /\ count \in [Fires -> Nat]
  /\ \A f \in Fires : work[f] # "idle" => count[f] \in Positive
  /\ pending \in Maps(Positive) /\ batch \in Maps(Positive) /\ lastAdded \in Maps(Positive)
  /\ scan \in Maps(Nat) /\ shown \in Maps(Nat)
  /\ read \in Queries \union {Idle}
  /\ online \in BOOLEAN /\ disturbed \subseteq Cells
  /\ events \in Nat

LEMMA QueryIsNotIdle == Idle \notin Queries
BY DEF Idle, Queries

LEMMA ReadingIsQuery ==
  ASSUME FeedTypeOK, NEW k \in {"get_fires", "fire:state"}, NEW todo \in SUBSET Cells
  PROVE  Reading(k, todo) \in Queries
BY EmptyMap DEF Reading, Queries

LEMMA NotedQuery ==
  ASSUME read \in Queries \union {Idle}, NEW b \in [Cells -> Nat], Noted(b)
  PROVE  /\ read' \in Queries \union {Idle}
         /\ read = Idle <=> read' = Idle
         /\ read # Idle =>
              /\ read'.kind = read.kind /\ read'.asked = read.asked /\ read'.left = read.left
              /\ read'.list = read.list /\ read'.failed = read.failed
              /\ read'.lit = {c \in read.lit : b[c] > 0}
              /\ read'.dark = {c \in read.dark : b[c] = 0}
<1>1. CASE read = Idle
  <2>1. read' = Idle
    BY <1>1, Zenon DEF Noted
  <2> QED
    BY <1>1, <2>1, Zenon
<1>2. CASE read \in Queries
  <2>1. read # Idle
    BY <1>2, QueryIsNotIdle
  <2>2. read' = [read EXCEPT !.lit  = {c \in read.lit : b[c] > 0},
                             !.dark = {c \in read.dark : b[c] = 0}]
    BY <2>1 DEF Noted
  <2>3. read' \in Queries
    BY <1>2, <2>2 DEF Queries
  <2> QED
    BY <1>2, <2>1, <2>2, <2>3, QueryIsNotIdle DEF Queries
<1> QED
  BY <1>1, <1>2

LEMMA BroadcastMap ==
  ASSUME shown \in Maps(Nat), NEW c \in Cells, NEW n \in Nat, Broadcast(c, n)
  PROVE  /\ shown' \in Maps(Nat)
         /\ \A d \in Cells \ {c} :
              /\ d \in DOMAIN shown' <=> d \in DOMAIN shown
              /\ d \in DOMAIN shown => shown'[d] = shown[d]
         /\ online /\ n > 0 => c \in DOMAIN shown' /\ shown'[c] = n
<1>1. CASE online /\ n > 0
  <2>1. shown' = Put(shown, c, n)
    BY <1>1 DEF Broadcast, updateFire
  <2>2. shown' \in Maps(Nat)
    BY <2>1, PutMap
  <2> QED
    BY <2>1, <2>2 DEF Put
<1>2. CASE online /\ ~(n > 0)
  <2>1. shown' = Delete(shown, c)
    BY <1>2 DEF Broadcast, updateFire
  <2>2. /\ shown' \in Maps(Nat) /\ DOMAIN shown' = DOMAIN shown \ {c}
        /\ \A d \in DOMAIN shown \ {c} : shown'[d] = shown[d]
    BY <2>1, DeleteMap
  <2> QED
    BY <1>2, <2>2
<1>3. CASE ~online
  BY <1>3 DEF Broadcast
<1> QED
  BY <1>1, <1>2, <1>3

-------------------------------------------------------------------------------
(* What the batcher holds for a cell is what it was given last; once it    *)
(* has gone out, the client shows it, unless a direct broadcast came       *)
(* later, whose handler has then yet to give its own count to the batcher. *)

Held == \A c \in DOMAIN pending : c \in DOMAIN lastAdded /\ pending[c] = lastAdded[c]

Overtaken(c) == \E f \in Fires : work[f] = "adding" /\ CellOf[f] = c

Out(c) ==
  IF c \in DOMAIN batch
  THEN batch[c] = lastAdded[c]
  ELSE (c \in DOMAIN shown /\ shown[c] = lastAdded[c]) \/ Overtaken(c)

Carried == \A c \in DOMAIN lastAdded \ (disturbed \union DOMAIN pending) : Out(c)

(* A query has what it has read, and no cell that was out all along.       *)
Honest ==
  read # Idle =>
    /\ \A c \in read.lit : burning[c] > 0
    /\ \A c \in read.dark : burning[c] = 0
    /\ DOMAIN read.list \intersect read.dark = {}
    /\ (read.asked \intersect read.lit) \ read.failed \subseteq read.left \union DOMAIN read.list

FeedInv == FeedTypeOK /\ Held /\ Carried /\ Honest

LEMMA FeedInitial == FeedInit => FeedInv
<1> SUFFICES ASSUME FeedInit PROVE FeedInv
  OBVIOUS
<1>1. FeedTypeOK
  BY EmptyMap DEF FeedInit, FeedTypeOK
<1>2. Held /\ Carried
  BY EmptyMap DEF FeedInit, Held, Carried
<1>3. Honest
  BY DEF FeedInit, Honest
<1> QED
  BY <1>1, <1>2, <1>3 DEF FeedInv

(* A change of burning, with the query told of it.                         *)
LEMMA NotedHonest ==
  ASSUME FeedTypeOK, Honest, burning' \in [Cells -> Nat], Noted(burning')
  PROVE  Honest'
<1>1. /\ read = Idle <=> read' = Idle
      /\ read # Idle =>
           /\ read'.asked = read.asked /\ read'.left = read.left
           /\ read'.list = read.list /\ read'.failed = read.failed
           /\ read'.lit = {c \in read.lit : burning'[c] > 0}
           /\ read'.dark = {c \in read.dark : burning'[c] = 0}
  BY NotedQuery DEF FeedTypeOK
<1> QED
  BY <1>1 DEF Honest

LEMMA SameHonest ==
  ASSUME Honest, UNCHANGED <<read, burning>>
  PROVE  Honest'
BY DEF Honest

LEMMA SameCarried ==
  ASSUME Held, Carried, UNCHANGED <<lastAdded, disturbed, pending, batch, shown, work>>
  PROVE  Held' /\ Carried'
BY DEF Held, Carried, Out, Overtaken

LEMMA RegisterKeeps ==
  ASSUME FeedInv, NEW f \in Fires, Register(f)
  PROVE  FeedInv'
<1> USE DEF FeedInv
<1>1. CellOf[f] \in Cells
  BY FeedAssumption
<1>2. burning' \in [Cells -> Nat] /\ burning'[CellOf[f]] \in Positive
  BY <1>1 DEF Register, FeedTypeOK, Positive
<1>3. Noted(burning')
  BY DEF Register
<1>4. read' \in Queries \union {Idle}
  BY <1>2, <1>3, NotedQuery DEF FeedTypeOK
<1>5. /\ count' \in [Fires -> Nat]
      /\ \A g \in Fires : work'[g] # "idle" => count'[g] \in Positive
  BY <1>2 DEF Register, FeedTypeOK, Positive
<1>6. FeedTypeOK'
  BY <1>2, <1>4, <1>5 DEF Register, FeedTypeOK, batcher, map, given
<1>7. Held'
  BY DEF Register, Held, batcher, given
<1>8. \A c : Overtaken(c) => Overtaken(c)'
  BY DEF Register, Overtaken, FeedTypeOK
<1>9. Carried'
  BY <1>8 DEF Register, Carried, Out, batcher, given, map
<1>10. Honest'
  BY <1>2, <1>3, NotedHonest
<1> QED
  BY <1>6, <1>7, <1>9, <1>10

LEMMA TellKeeps ==
  ASSUME FeedInv, NEW f \in Fires, Tell(f)
  PROVE  FeedInv'
<1> USE DEF FeedInv
<1>1. CellOf[f] \in Cells /\ count[f] \in Nat
  BY FeedAssumption DEF FeedTypeOK
<1>2. /\ shown' \in Maps(Nat)
      /\ \A d \in Cells \ {CellOf[f]} :
           /\ d \in DOMAIN shown' <=> d \in DOMAIN shown
           /\ d \in DOMAIN shown => shown'[d] = shown[d]
  BY <1>1, BroadcastMap DEF Tell, FeedTypeOK
<1>3. FeedTypeOK'
  BY <1>2 DEF Tell, FeedTypeOK, batcher, given
<1>4. Held' /\ Honest'
  BY SameHonest DEF Tell, Held, batcher, given
<1>5. Overtaken(CellOf[f])' /\ \A c : Overtaken(c) => Overtaken(c)'
  BY DEF Tell, Overtaken, FeedTypeOK
<1>6. Carried'
  <2> SUFFICES ASSUME NEW c \in DOMAIN lastAdded \ (disturbed \union DOMAIN pending)
               PROVE  Out(c)'
    BY DEF Carried, Tell, batcher, given
  <2>1. Out(c) /\ c \in Cells
    BY MapValues DEF Carried, FeedTypeOK
  <2> QED
    BY <1>2, <1>5, <2>1 DEF Out, Tell, batcher, given
<1> QED
  BY <1>3, <1>4, <1>6

LEMMA TellRoomKeeps ==
  ASSUME FeedInv, NEW f \in Fires, TellRoom(f)
  PROVE  FeedInv'
<1> USE DEF FeedInv
<1>1. FeedTypeOK'
  BY DEF TellRoom, FeedTypeOK, batcher, map, given
<1>2. Held' /\ Honest'
  BY SameHonest DEF TellRoom, Held, batcher, given
<1>3. \A c : Overtaken(c) => Overtaken(c)'
  BY DEF TellRoom, Overtaken, FeedTypeOK
<1>4. Carried'
  BY <1>3 DEF TellRoom, Carried, Out, batcher, given, map
<1> QED
  BY <1>1, <1>2, <1>4

LEMMA AddKeeps ==
  ASSUME FeedInv, NEW f \in Fires, Add(f)
  PROVE  FeedInv'
<1> USE DEF FeedInv
<1> DEFINE c == CellOf[f]
           n == count[f]
<1>1. c \in Cells /\ n \in Positive
  BY FeedAssumption DEF Add, FeedTypeOK
<1>2. pending' = Put(pending, c, n) /\ lastAdded' = Put(lastAdded, c, n)
  BY DEF Add, Enqueue, Added
<1>3. pending' \in Maps(Positive) /\ lastAdded' \in Maps(Positive)
  BY <1>1, <1>2, PutMap DEF FeedTypeOK
<1>4. FeedTypeOK'
  BY <1>3 DEF Add, Enqueue, FeedTypeOK, map
<1>5. Held'
  BY <1>2 DEF Held, Put
<1>6. Carried'
  <2> SUFFICES ASSUME NEW d \in DOMAIN lastAdded' \ (disturbed' \union DOMAIN pending')
               PROVE  Out(d)'
    BY DEF Carried
  <2>1. d # c /\ d \in DOMAIN lastAdded \ (disturbed \union DOMAIN pending)
    BY <1>2 DEF Add, Enqueue, Put
  <2>2. Out(d) /\ lastAdded'[d] = lastAdded[d]
    BY <1>2, <2>1 DEF Carried, Put
  <2>3. Overtaken(d) => Overtaken(d)'
    BY <2>1 DEF Overtaken, Add, FeedTypeOK
  <2> QED
    BY <2>2, <2>3 DEF Out, Add, map
<1>7. Honest'
  BY SameHonest DEF Add
<1> QED
  BY <1>4, <1>5, <1>6, <1>7

LEMMA FlushTakesKeeps ==
  ASSUME FeedInv, FlushTakes
  PROVE  FeedInv'
<1> USE DEF FeedInv
<1>1. DOMAIN batch = {} /\ DOMAIN pending' = {} /\ pending' \in Maps(Positive)
  BY EmptyMap DEF FlushTakes
<1>2. FeedTypeOK'
  BY <1>1 DEF FlushTakes, FeedTypeOK, map, given
<1>3. Held' /\ Honest'
  BY <1>1, SameHonest DEF FlushTakes, Held
<1>4. Carried'
  <2> SUFFICES ASSUME NEW c \in DOMAIN lastAdded \ disturbed
               PROVE  Out(c)'
    BY DEF Carried, FlushTakes, given
  <2>1. CASE c \in DOMAIN pending
    BY <2>1 DEF Held, Out, FlushTakes, given
  <2>2. CASE c \notin DOMAIN pending
    BY <1>1, <2>2 DEF Carried, Out, Overtaken, FlushTakes, given, map
  <2> QED
    BY <2>1, <2>2
<1> QED
  BY <1>2, <1>3, <1>4

LEMMA FlushSendsKeeps ==
  ASSUME FeedInv, FlushSends
  PROVE  FeedInv'
<1> USE DEF FeedInv
<1>1. PICK c \in DOMAIN batch :
        /\ Broadcast(c, batch[c]) /\ batch' = Delete(batch, c)
        /\ disturbed' = IF online THEN disturbed ELSE disturbed \union {c}
        /\ UNCHANGED <<burning, work, count, pending, scan, read, online, lastAdded, events>>
  BY DEF FlushSends
<1>2. c \in Cells /\ batch[c] \in Positive
  BY MapValues DEF FeedTypeOK
<1>3. /\ shown' \in Maps(Nat)
      /\ \A d \in Cells \ {c} :
           /\ d \in DOMAIN shown' <=> d \in DOMAIN shown
           /\ d \in DOMAIN shown => shown'[d] = shown[d]
      /\ online => c \in DOMAIN shown' /\ shown'[c] = batch[c]
  <2>1. batch[c] \in Nat /\ batch[c] > 0
    BY <1>2 DEF Positive
  <2> QED
    BY <1>1, <1>2, <2>1, BroadcastMap DEF FeedTypeOK
<1>4. /\ batch' \in Maps(Positive) /\ DOMAIN batch' = DOMAIN batch \ {c}
      /\ \A d \in DOMAIN batch \ {c} : batch'[d] = batch[d]
  BY <1>1, DeleteMap DEF FeedTypeOK
<1>5. FeedTypeOK'
  BY <1>1, <1>2, <1>3, <1>4 DEF FeedTypeOK
<1>6. Held' /\ Honest'
  BY <1>1, SameHonest DEF Held
<1>7. Carried'
  <2> SUFFICES ASSUME NEW d \in DOMAIN lastAdded \ (disturbed' \union DOMAIN pending)
               PROVE  Out(d)'
    BY <1>1 DEF Carried
  <2>1. Out(d) /\ d \in Cells
    BY <1>1, MapValues DEF Carried, FeedTypeOK
  <2>2. CASE d = c
    BY <1>1, <1>3, <1>4, <2>1, <2>2 DEF Out
  <2>3. CASE d # c
    BY <1>1, <1>3, <1>4, <2>1, <2>3 DEF Out, Overtaken
  <2> QED
    BY <2>2, <2>3
<1> QED
  BY <1>5, <1>6, <1>7

LEMMA ExpireKeeps ==
  ASSUME FeedInv, NEW c \in Cells, Expire(c)
  PROVE  FeedInv'
<1> USE DEF FeedInv
<1>1. burning' \in [Cells -> Nat]
  BY DEF Expire, FeedTypeOK
<1>2. read' \in Queries \union {Idle}
  BY <1>1, NotedQuery DEF Expire, FeedTypeOK
<1>3. FeedTypeOK'
  BY <1>1, <1>2 DEF Expire, Event, FeedTypeOK, batcher, map, given
<1>4. Held' /\ Carried'
  BY SameCarried DEF Expire, batcher, map, given
<1>5. Honest'
  BY <1>1, NotedHonest DEF Expire
<1> QED
  BY <1>3, <1>4, <1>5

LEMMA ScanCountsKeeps ==
  ASSUME FeedInv, NEW c \in Cells, ScanCounts(c)
  PROVE  FeedInv'
<1> USE DEF FeedInv
<1>1. burning[c] \in Nat /\ Empty \in Maps(Nat)
  BY EmptyMap DEF FeedTypeOK
<1>2. scan' \in Maps(Nat)
  BY <1>1, PutMap DEF ScanCounts
<1>3. FeedTypeOK'
  BY <1>2 DEF ScanCounts, Event, FeedTypeOK, batcher, map, given
<1>4. Held' /\ Carried' /\ Honest'
  BY SameCarried, SameHonest DEF ScanCounts, batcher, map, given
<1> QED
  BY <1>3, <1>4

LEMMA ScanAnnouncesKeeps ==
  ASSUME FeedInv, ScanAnnounces
  PROVE  FeedInv'
<1> USE DEF FeedInv
<1>1. PICK c \in DOMAIN scan :
        /\ Broadcast(c, scan[c])
        /\ disturbed' = disturbed \union {c} /\ scan' = Empty
        /\ UNCHANGED <<burning, work, count, batcher, read, online, lastAdded, events>>
  BY DEF ScanAnnounces
<1>2. c \in Cells /\ scan[c] \in Nat
  BY MapValues DEF FeedTypeOK
<1>3. /\ shown' \in Maps(Nat)
      /\ \A d \in Cells \ {c} :
           /\ d \in DOMAIN shown' <=> d \in DOMAIN shown
           /\ d \in DOMAIN shown => shown'[d] = shown[d]
  BY <1>1, <1>2, BroadcastMap DEF FeedTypeOK
<1>4. FeedTypeOK'
  BY <1>1, <1>2, <1>3, EmptyMap DEF FeedTypeOK, batcher
<1>5. Held' /\ Honest'
  BY <1>1, SameHonest DEF Held, batcher
<1>6. Carried'
  <2> SUFFICES ASSUME NEW d \in DOMAIN lastAdded \ (disturbed' \union DOMAIN pending)
               PROVE  Out(d)'
    BY <1>1 DEF Carried, batcher
  <2>1. Out(d) /\ d \in Cells \ {c}
    BY <1>1, MapValues DEF Carried, FeedTypeOK
  <2> QED
    BY <1>1, <1>3, <2>1 DEF Out, Overtaken, batcher
<1> QED
  BY <1>4, <1>5, <1>6

(* A query that begins has everything ahead of it.                         *)
Begins(r) ==
  /\ r \in Queries
  /\ r.asked = r.left /\ DOMAIN r.list = {}
  /\ r.lit = {c \in Cells : burning[c] > 0} /\ r.dark = {c \in Cells : burning[c] = 0}

LEMMA ReadingBegins ==
  ASSUME FeedTypeOK, NEW k \in {"get_fires", "fire:state"}, NEW todo \in SUBSET Cells
  PROVE  Begins(Reading(k, todo))
BY ReadingIsQuery, EmptyMap DEF Begins, Reading

LEMMA FailedBegins ==
  ASSUME FeedTypeOK, NEW k \in {"get_fires", "fire:state"}
  PROVE  Begins([Reading(k, {}) EXCEPT !.failed = Cells])
<1> DEFINE r == Reading(k, {})
           q == [r EXCEPT !.failed = Cells]
<1>1. r \in Queries /\ Begins(r)
  BY ReadingIsQuery, ReadingBegins
<1> HIDE DEF r
<1>2. /\ q \in Queries
      /\ q.asked = r.asked /\ q.left = r.left /\ q.list = r.list
      /\ q.lit = r.lit /\ q.dark = r.dark
  BY <1>1 DEF Queries
<1>3. Begins(q)
  BY <1>1, <1>2 DEF Begins
<1> QED
  BY <1>3 DEF r

LEMMA BeginsHonest ==
  ASSUME NEW r, Begins(r), read' = r, burning' = burning
  PROVE  read' \in Queries /\ Honest'
BY DEF Begins, Honest

LEMMA BeginKeeps ==
  ASSUME FeedInv, NEW r, Begins(r), Begin(r)
  PROVE  FeedInv'
<1> USE DEF FeedInv
<1>1. read' \in Queries /\ Honest'
  BY BeginsHonest DEF Begin
<1>2. FeedTypeOK'
  BY <1>1 DEF Begin, Event, FeedTypeOK, batcher, map, given
<1>3. Held' /\ Carried'
  BY SameCarried DEF Begin, batcher, map, given
<1> QED
  BY <1>1, <1>2, <1>3

LEMMA ReadCellKeeps ==
  ASSUME FeedInv, NEW c \in Cells, ReadCell(c)
  PROVE  FeedInv'
<1> USE DEF FeedInv
<1>1. read \in Queries /\ c \in read.left /\ burning[c] \in Nat /\ read # Idle
  BY DEF ReadCell, Collecting, FeedTypeOK
<1> DEFINE found == IF burning[c] > 0 THEN Put(read.list, c, burning[c]) ELSE read.list
<1>2. found \in Maps(Nat)
  BY <1>1, PutMap DEF Queries
<1>3. DOMAIN found = IF burning[c] > 0 THEN DOMAIN read.list \union {c} ELSE DOMAIN read.list
  BY DEF Put
<1>4. read' = [read EXCEPT !.left = read.left \ {c}, !.list = found]
  BY DEF ReadCell
<1> HIDE DEF found
<1>5. /\ read' \in Queries
      /\ read'.asked = read.asked /\ read'.failed = read.failed
      /\ read'.lit = read.lit /\ read'.dark = read.dark
      /\ read'.left = read.left \ {c} /\ read'.list = found
  BY <1>1, <1>2, <1>4 DEF Queries
<1>6. FeedTypeOK'
  BY <1>5 DEF ReadCell, FeedTypeOK, batcher, map, given
<1>7. Held' /\ Carried'
  BY SameCarried DEF ReadCell, batcher, map, given
<1>8. Honest'
  <2>1. c \in read.dark => ~(burning[c] > 0)
    BY <1>1 DEF Honest
  <2>2. c \in read.lit => burning[c] > 0
    BY <1>1 DEF Honest
  <2>3. burning' = burning
    BY DEF ReadCell
  <2> QED
    BY <1>1, <1>3, <1>5, <2>1, <2>2, <2>3 DEF Honest
<1> QED
  BY <1>6, <1>7, <1>8

LEMMA ReadFailsKeeps ==
  ASSUME FeedInv, NEW c \in Cells, ReadFails(c)
  PROVE  FeedInv'
<1> USE DEF FeedInv
<1>1. read \in Queries /\ read # Idle
  BY DEF ReadFails, Collecting, FeedTypeOK
<1>2. read' = [read EXCEPT !.left = read.left \ {c}, !.failed = read.failed \union {c}]
  BY DEF ReadFails, Skip
<1>3. /\ read' \in Queries
      /\ read'.asked = read.asked /\ read'.list = read.list
      /\ read'.lit = read.lit /\ read'.dark = read.dark
      /\ read'.left = read.left \ {c} /\ read'.failed = read.failed \union {c}
  BY <1>1, <1>2 DEF Queries
<1>4. FeedTypeOK'
  BY <1>3 DEF ReadFails, FeedTypeOK, batcher, map, given
<1>5. Held' /\ Carried'
  BY SameCarried DEF ReadFails, batcher, map, given
<1>6. Honest'
  BY <1>1, <1>3 DEF Honest, ReadFails
<1> QED
  BY <1>4, <1>5, <1>6

LEMMA AnswerSyncKeeps ==
  ASSUME FeedInv, AnswerSync
  PROVE  FeedInv'
<1> USE DEF FeedInv
<1>1. read \in Queries
  BY DEF AnswerSync, Finished, FeedTypeOK
<1>2. /\ shown' \in Maps(Nat) /\ disturbed' \subseteq Cells
      /\ (shown' = shown /\ disturbed' = disturbed) \/ disturbed' = Cells
  BY <1>1 DEF AnswerSync, FeedTypeOK, Queries
<1>3. FeedTypeOK'
  BY <1>2 DEF AnswerSync, FeedTypeOK, batcher
<1>4. Held' /\ Honest'
  BY DEF AnswerSync, Held, Honest, batcher
<1>5. Carried'
  <2>1. DOMAIN lastAdded \subseteq Cells
    BY MapValues DEF FeedTypeOK
  <2> QED
    BY <1>2, <2>1 DEF AnswerSync, Carried, Out, Overtaken, batcher
<1> QED
  BY <1>3, <1>4, <1>5

LEMMA AnswerStateKeeps ==
  ASSUME FeedInv, AnswerState
  PROVE  FeedInv'
<1> USE DEF FeedInv
<1>1. FeedTypeOK'
  BY DEF AnswerState, FeedTypeOK, batcher, map, given
<1>2. Held' /\ Carried' /\ Honest'
  BY SameCarried DEF AnswerState, Honest, batcher, map, given
<1> QED
  BY <1>1, <1>2

LEMMA ConnectKeeps ==
  ASSUME FeedInv, Connect
  PROVE  FeedInv'
<1> USE DEF FeedInv
<1>1. Active \in SUBSET Cells
  BY DEF Active
<1>2. Begins(Reading("get_fires", Active))
  BY <1>1, ReadingBegins
<1>3. read' \in Queries /\ Honest'
  BY <1>2, BeginsHonest DEF Connect
<1>4. FeedTypeOK'
  BY <1>3 DEF Connect, FeedTypeOK, batcher, given
<1>5. Held' /\ Carried'
  BY SameCarried DEF Connect, batcher, given
<1> QED
  BY <1>3, <1>4, <1>5

LEMMA DropKeeps ==
  ASSUME FeedInv, Drop
  PROVE  FeedInv'
<1> USE DEF FeedInv
<1>1. UNCHANGED <<burning, work, count, pending, batch, scan, read, shown, lastAdded, disturbed>>
  BY DEF Drop, batcher, given
<1>2. online' \in BOOLEAN /\ events' \in Nat
  <2>1. online' = FALSE /\ events' = events + 1
    BY DEF Drop, Event
  <2>2. online' \in BOOLEAN
    BY <2>1, Zenon
  <2> QED
    BY <2>1, <2>2 DEF FeedTypeOK
<1>3. FeedTypeOK'
  BY <1>1, <1>2 DEF FeedTypeOK
<1>4. Held' /\ Carried' /\ Honest'
  BY <1>1, SameCarried, SameHonest
<1> QED
  BY <1>3, <1>4

LEMMA FeedStutter ==
  ASSUME FeedInv, UNCHANGED feedVars
  PROVE  FeedInv'
<1> USE DEF FeedInv
<1>1. FeedTypeOK'
  BY DEF feedVars, FeedTypeOK, batcher, map, given
<1>2. Held' /\ Carried' /\ Honest'
  BY SameCarried, SameHonest DEF feedVars, batcher, map, given
<1> QED
  BY <1>1, <1>2

LEMMA FeedInductive == FeedInv /\ [FeedNext]_feedVars => FeedInv'
<1> SUFFICES ASSUME FeedInv, [FeedNext]_feedVars
             PROVE  FeedInv'
  OBVIOUS
<1>1. ASSUME NEW f \in Fires, Register(f) \/ Tell(f) \/ TellRoom(f) \/ Add(f)
      PROVE  FeedInv'
  BY <1>1, RegisterKeeps, TellKeeps, TellRoomKeeps, AddKeeps
<1>2. CASE FlushTakes \/ FlushSends \/ ScanAnnounces
  BY <1>2, FlushTakesKeeps, FlushSendsKeeps, ScanAnnouncesKeeps
<1>3. ASSUME NEW c \in Cells, Expire(c) \/ ScanCounts(c) \/ ReadCell(c) \/ ReadFails(c)
      PROVE  FeedInv'
  BY <1>3, ExpireKeeps, ScanCountsKeeps, ReadCellKeeps, ReadFailsKeeps
<1>4. ASSUME NEW k \in {"get_fires", "fire:state"}, MembersFail(k)
      PROVE  FeedInv'
  BY <1>4, FailedBegins, BeginKeeps DEF MembersFail, FeedInv
<1>5. ASSUME NEW named \in {Active} \union {{c} : c \in Cells},
             Begin(Reading("fire:state", named))
      PROVE  FeedInv'
  <2>1. named \in SUBSET Cells
    BY DEF Active
  <2>2. Begins(Reading("fire:state", named))
    BY <2>1, ReadingBegins DEF FeedInv
  <2> QED
    BY <1>5, <2>2, BeginKeeps
<1>6. CASE AnswerSync \/ AnswerState \/ Connect \/ Drop
  BY <1>6, AnswerSyncKeeps, AnswerStateKeeps, ConnectKeeps, DropKeeps
<1>7. CASE UNCHANGED feedVars
  BY <1>7, FeedStutter
<1> QED
  BY <1>1, <1>2, <1>3, <1>4, <1>5, <1>6, <1>7 DEF FeedNext

LEMMA FeedInvariant == FeedSpec => []FeedInv
BY FeedInitial, FeedInductive, PTL DEF FeedSpec

-------------------------------------------------------------------------------
(* Once everything has been sent, the map of the client has, for each cell *)
(* without another change since, the count last given to the batcher:      *)
(* however the direct broadcasts of concurrent handlers and the flushes of *)
(* the batcher overtook each other (fire_batcher.go, Add and flush).       *)
THEOREM MapEndsOnLastAdded == FeedSpec => []LastAddedShown
<1>1. FeedInv => LastAddedShown
  <2> SUFFICES ASSUME FeedInv, FeedAtRest, NEW c \in DOMAIN lastAdded \ disturbed
               PROVE  c \in DOMAIN shown /\ shown[c] = lastAdded[c]
    BY DEF LastAddedShown
  <2>1. DOMAIN pending = {} /\ DOMAIN batch = {}
    BY EmptyMap DEF FeedAtRest
  <2>2. Out(c)
    BY <2>1 DEF FeedInv, Carried
  <2>3. ~Overtaken(c)
    BY DEF Overtaken, FeedAtRest
  <2> QED
    BY <2>1, <2>2, <2>3 DEF Out
<1> QED
  BY <1>1, FeedInvariant, PTL

(* A list that is complete has every cell asked for that burned all along  *)
(* and whose command did not fail, and none that was out all along, though *)
(* it is collected cell by cell while fires come and go                    *)
(* (get_fires_compat.go and fire_state.go, the loops over the cells).      *)
THEOREM ListsAreHonest == FeedSpec => []ListsHonest
<1>1. FeedInv => ListsHonest
  BY DEF FeedInv, Honest, ListsHonest, Finished
<1> QED
  BY <1>1, FeedInvariant, PTL
===============================================================================
