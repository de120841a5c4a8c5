------------------------------ MODULE PacketProofs ------------------------------
(***************************************************************************)
(* Proofs about modules PacketCodec and PacketTransfer, for any messages   *)
(* within the limits of Decode, any arguments, any number of attachments   *)
(* and any mixture of polls and WebSocket frames: what is split, decoded   *)
(* and reconstructed is what was joined, encoded and deconstructed, and    *)
(* the packets received are those sent.                                    *)
(*                                                                         *)
(* The model's recursion is in functions.  What they compute for every     *)
(* input is proved with the smallest element of a set of counterexamples   *)
(* (WFMin), which takes a set where the library's other induction theorems *)
(* take an operator.                                                       *)
(***************************************************************************)
EXTENDS PacketTransfer, WellFoundedInduction, SequenceTheorems, FiniteSetTheorems, TLAPS

-------------------------------------------------------------------------------
(* Induction over the natural numbers, for a set and not for a predicate.  *)

\* The order of the natural numbers, as the set of pairs it is.
Below == {p \in Nat \X Nat : p[1] < p[2]}

\* It has no infinite descent: from the library's fact about the order of Nat.
LEMMA BelowWellFounded == IsWellFoundedOn(Below, Nat)
BY NatLessThanWellFounded, Zenon DEF OpToRel, Below

\* A set with 0 and with the successor of each of its numbers has every number.
LEMMA Induction ==
  ASSUME NEW S, 0 \in S, \A n \in Nat : n \in S => n + 1 \in S
  PROVE  Nat \subseteq S
<1> DEFINE Missed == Nat \ S
<1> SUFFICES ASSUME Missed # {} PROVE FALSE
  OBVIOUS
<1>1. PICK n \in Missed : \A m \in Missed : ~(<<m, n>> \in Below)
  <2>1. Missed \subseteq Nat
    OBVIOUS
  <2> HIDE DEF Missed
  <2> QED
    BY <2>1, WFMin, BelowWellFounded
<1>2. \A m \in Missed : ~(m < n)
  BY <1>1 DEF Below
<1>3. n # 0 /\ n - 1 \in Nat
  OBVIOUS
<1>4. n - 1 \in S
  BY <1>2, <1>3
<1> QED
  BY <1>3, <1>4

\* A function on 0 .. n may be defined by its first value and a step.
Unfolds(g, n, V, base, step) ==
  g \in [0 .. n -> V] /\ g[0] = base /\ \A k \in 1 .. n : g[k] = step[k][g[k - 1]]

\* There is such a function, for any first value and any step.
LEMMA Recursion ==
  ASSUME NEW n \in Nat, NEW V, NEW base \in V, NEW step \in [1 .. n -> [V -> V]]
  PROVE  \E g : Unfolds(g, n, V, base, step)
<1> DEFINE Good(g, m) == g[0] = base /\ \A k \in 1 .. m : g[k] = step[k][g[k - 1]]
<1> DEFINE S == {m \in Nat : m <= n => \E g \in [0 .. m -> V] : Good(g, m)}
<1>1. 0 \in S
  <2>1. [k \in 0 .. 0 |-> base] \in [0 .. 0 -> V] /\ Good([k \in 0 .. 0 |-> base], 0)
    OBVIOUS
  <2> QED
    BY <2>1
<1>2. ASSUME NEW m \in Nat, m \in S PROVE m + 1 \in S
  <2> SUFFICES ASSUME m + 1 <= n PROVE \E g \in [0 .. m + 1 -> V] : Good(g, m + 1)
    OBVIOUS
  <2>1. PICK g \in [0 .. m -> V] : Good(g, m)
    BY <1>2
  <2> DEFINE h == [k \in 0 .. m + 1 |-> IF k <= m THEN g[k] ELSE step[m + 1][g[m]]]
  <2>2. g[m] \in V /\ step[m + 1] \in [V -> V]
    OBVIOUS
  <2>3. h \in [0 .. m + 1 -> V]
    BY <2>2
  <2>4. h[0] = base
    BY <2>1
  <2>5. ASSUME NEW k \in 1 .. m + 1 PROVE h[k] = step[k][h[k - 1]]
    <3>1. CASE k <= m
      <4>1. h[k] = g[k] /\ h[k - 1] = g[k - 1] /\ k \in 1 .. m
        BY <3>1
      <4> QED
        BY <4>1, <2>1
    <3>2. CASE k = m + 1
      <4>1. h[k] = step[m + 1][g[m]] /\ h[k - 1] = g[m]
        BY <3>2
      <4> QED
        BY <4>1, <3>2
    <3> QED
      BY <3>1, <3>2
  <2> HIDE DEF h
  <2>6. Good(h, m + 1)
    BY <2>4, <2>5
  <2> QED
    BY <2>3, <2>6
<1>3. Nat \subseteq S
  <2> HIDE DEF S
  <2> QED
    BY <1>1, <1>2, Induction
<1>4. n \in S
  <2> HIDE DEF S
  <2> QED
    BY <1>3
<1> QED
  BY <1>4 DEF Unfolds

\* Induction as far as n.
LEMMA InductionTo ==
  ASSUME NEW n \in Nat, NEW S, 0 \in S, \A k \in 1 .. n : k - 1 \in S => k \in S
  PROVE  0 .. n \subseteq S
<1> DEFINE U == {k \in Nat : k <= n => k \in S}
<1>1. 0 \in U
  OBVIOUS
<1>2. \A k \in Nat : k \in U => k + 1 \in U
  <2> SUFFICES ASSUME NEW k \in Nat, k \in U, k + 1 <= n PROVE k + 1 \in S
    OBVIOUS
  <2>1. k \in S /\ k + 1 \in 1 .. n /\ (k + 1) - 1 = k
    OBVIOUS
  <2> QED
    BY <2>1
<1>3. Nat \subseteq U
  <2> HIDE DEF U
  <2> QED
    BY <1>1, <1>2, Induction
<1> QED
  BY <1>3

-------------------------------------------------------------------------------
(* Payloads.                                                               *)

\* What EncodePayload makes of the k-th frame and of what came before.
Joint(a, k, fs) == a \o (IF k = 1 THEN <<>> ELSE <<Sep>>) \o fs[k]

\* Frames of tokens in T are joined to tokens in T and separators.
LEMMA JointType ==
  ASSUME NEW T, NEW fs \in Seq(Seq(T)), NEW k \in 1 .. Len(fs), NEW a \in Seq(T \union {Sep})
  PROVE  Joint(a, k, fs) \in Seq(T \union {Sep})
<1>1. fs[k] \in Seq(T)
  OBVIOUS
<1>2. fs[k] \in Seq(T \union {Sep})
  BY <1>1
<1>3. a \o <<>> \in Seq(T \union {Sep}) /\ a \o <<Sep>> \in Seq(T \union {Sep})
  OBVIOUS
<1>4. a \o (IF k = 1 THEN <<>> ELSE <<Sep>>) \in Seq(T \union {Sep})
  BY <1>3
<1> QED
  BY <1>2, <1>4, ConcatProperties DEF Joint

\* EncodePayload computes what its recursion says.
Joins(g, fs, T) ==
  /\ g \in [0 .. Len(fs) -> Seq(T \union {Sep})]
  /\ g[0] = <<>> /\ \A k \in 1 .. Len(fs) : g[k] = Joint(g[k - 1], k, fs)

\* EncodePayload's own recursive function does, and its last value is the payload.
LEMMA JoinedStepwise ==
  ASSUME NEW T, NEW fs \in Seq(Seq(T))
  PROVE  \E g : Joins(g, fs, T) /\ EncodePayload(fs) = g[Len(fs)]
<1> DEFINE V == Seq(T \union {Sep})
           n == Len(fs)
           Is(f) == f = [k \in 0 .. n |-> IF k = 0 THEN <<>> ELSE Joint(f[k - 1], k, fs)]
           J == CHOOSE f : Is(f)
           step == [k \in 1 .. n |-> [a \in V |-> Joint(a, k, fs)]]
<1>1. n \in Nat /\ <<>> \in V
  OBVIOUS
<1>2. \A a \in V, k \in 1 .. n : Joint(a, k, fs) \in V
  BY JointType
<1>3. EncodePayload(fs) = J[n]
  BY Zenon DEF EncodePayload, Joint
<1> HIDE DEF V, n
<1>4. step \in [1 .. n -> [V -> V]]
  BY <1>2
<1>5. PICK g : Unfolds(g, n, V, <<>>, step)
  <2> HIDE DEF step, Is, J
  <2> QED
    BY <1>1, <1>4, Recursion
<1>6. Is(g)
  <2>1. ASSUME NEW k \in 1 .. n PROVE g[k] = Joint(g[k - 1], k, fs)
    <3>1. g[k - 1] \in V
      BY <1>1, <1>5 DEF Unfolds
    <3> QED
      BY <1>5, <3>1 DEF Unfolds
  <2> QED
    BY <1>1, <1>5, <2>1 DEF Unfolds
<1>7. Is(J)
  <2> HIDE DEF Is
  <2> QED
    BY <1>6
<1> HIDE DEF J
<1>8. /\ J[0] = <<>> /\ \A k \in 1 .. n : J[k] = Joint(J[k - 1], k, fs)
      /\ J = [k \in 0 .. n |-> J[k]]
  <2>1. J = [k \in 0 .. n |-> IF k = 0 THEN <<>> ELSE Joint(J[k - 1], k, fs)]
    BY <1>7
  <2>2. 0 \in 0 .. n /\ \A k \in 1 .. n : k \in 0 .. n /\ k # 0
    BY <1>1
  <2>3. J[0] = <<>>
    BY <2>1, <2>2
  <2>4. \A k \in 1 .. n : J[k] = Joint(J[k - 1], k, fs)
    BY <2>1, <2>2
  <2>5. J = [k \in 0 .. n |-> J[k]]
    BY <2>1
  <2> QED
    BY <2>3, <2>4, <2>5
<1>9. \A k \in 0 .. n : J[k] \in V
  <2> DEFINE S == {k \in 0 .. n : J[k] \in V}
  <2>1. 0 \in S
    BY <1>1, <1>8
  <2>2. ASSUME NEW k \in 1 .. n, k - 1 \in S PROVE k \in S
    <3>1. k \in 0 .. n /\ J[k - 1] \in V
      BY <1>1, <2>2
    <3>2. J[k] = Joint(J[k - 1], k, fs)
      BY <1>8
    <3> QED
      BY <3>1, <3>2, <1>2
  <2>3. 0 .. n \subseteq S
    <3> HIDE DEF S
    <3> QED
      BY <2>1, <2>2, <1>1, InductionTo
  <2> QED
    BY <2>3
<1>10. J \in [0 .. n -> V]
  BY <1>8, <1>9
<1> QED
  BY <1>3, <1>8, <1>10 DEF V, n, Joins

\* What DecodePayload makes of the next token x and of the parts it has.
Cut(parts, x) == IF x.k = "sep" THEN Append(parts, <<>>)
                 ELSE [parts EXCEPT ![Len(parts)] = Append(@, x)]

\* Parts of a payload: there is always one at least.
Parts(T) == Seq(Seq(T)) \ {<<>>}

\* One more token leaves one part at least.
LEMMA CutType ==
  ASSUME NEW T, NEW parts \in Parts(T), NEW x \in T
  PROVE  Cut(parts, x) \in Parts(T)
<1>1. Append(parts, <<>>) \in Parts(T)
  BY DEF Parts
<1>2. Len(parts) \in 1 .. Len(parts) /\ parts \in Seq(Seq(T))
  BY DEF Parts
<1>3. parts[Len(parts)] \in Seq(T)
  BY <1>2
<1>4. Append(parts[Len(parts)], x) \in Seq(T)
  BY <1>3
<1>5. [parts EXCEPT ![Len(parts)] = Append(parts[Len(parts)], x)] \in Seq(Seq(T))
  BY <1>2, <1>4, ExceptSeq
<1>6. [parts EXCEPT ![Len(parts)] = Append(parts[Len(parts)], x)] # <<>>
  BY <1>2, <1>4, ExceptSeq, EmptySeq, LenProperties
<1> QED
  BY <1>1, <1>5, <1>6 DEF Cut, Parts

\* DecodePayload computes what its recursion says.
Splits(h, s, T) ==
  /\ h \in [0 .. Len(s) -> Parts(T)]
  /\ h[0] = << <<>> >> /\ \A k \in 1 .. Len(s) : h[k] = Cut(h[k - 1], s[k])

\* Its own recursive function does, and its last value is the list of frames.
LEMMA SplitStepwise ==
  ASSUME NEW T, NEW s \in Seq(T), s # <<>>
  PROVE  \E h : Splits(h, s, T) /\ DecodePayload(s) = h[Len(s)]
<1> DEFINE V == Parts(T)
           n == Len(s)
           Is(f) == f = [k \in 0 .. n |-> IF k = 0 THEN << <<>> >> ELSE Cut(f[k - 1], s[k])]
           J == CHOOSE f : Is(f)
           step == [k \in 1 .. n |-> [a \in V |-> Cut(a, s[k])]]
<1>1. n \in Nat /\ << <<>> >> \in V
  <2>1. << <<>> >> \in Seq(Seq(T)) /\ << <<>> >> # <<>>
    OBVIOUS
  <2> QED
    BY <2>1 DEF Parts
<1>2. \A a \in V, k \in 1 .. n : Cut(a, s[k]) \in V
  <2>1. \A k \in 1 .. n : s[k] \in T
    OBVIOUS
  <2> QED
    BY <2>1, CutType
<1>3. DecodePayload(s) = J[n]
  BY Zenon DEF DecodePayload, Cut
<1> HIDE DEF V, n
<1>4. step \in [1 .. n -> [V -> V]]
  BY <1>2
<1>5. PICK g : Unfolds(g, n, V, << <<>> >>, step)
  <2> HIDE DEF step, Is, J
  <2> QED
    BY <1>1, <1>4, Recursion
<1>6. Is(g)
  <2>1. ASSUME NEW k \in 1 .. n PROVE g[k] = Cut(g[k - 1], s[k])
    <3>1. g[k - 1] \in V
      BY <1>1, <1>5 DEF Unfolds
    <3> QED
      BY <1>5, <3>1 DEF Unfolds
  <2> QED
    BY <1>1, <1>5, <2>1 DEF Unfolds
<1>7. Is(J)
  <2> HIDE DEF Is
  <2> QED
    BY <1>6
<1> HIDE DEF J
<1>8. /\ J[0] = << <<>> >> /\ \A k \in 1 .. n : J[k] = Cut(J[k - 1], s[k])
      /\ J = [k \in 0 .. n |-> J[k]]
  <2>1. J = [k \in 0 .. n |-> IF k = 0 THEN << <<>> >> ELSE Cut(J[k - 1], s[k])]
    BY <1>7
  <2>2. 0 \in 0 .. n /\ \A k \in 1 .. n : k \in 0 .. n /\ k # 0
    BY <1>1
  <2>3. J[0] = << <<>> >>
    BY <2>1, <2>2
  <2>4. \A k \in 1 .. n : J[k] = Cut(J[k - 1], s[k])
    BY <2>1, <2>2
  <2>5. J = [k \in 0 .. n |-> J[k]]
    BY <2>1
  <2> QED
    BY <2>3, <2>4, <2>5
<1>9. \A k \in 0 .. n : J[k] \in V
  <2> DEFINE S == {k \in 0 .. n : J[k] \in V}
  <2>1. 0 \in S
    BY <1>1, <1>8
  <2>2. ASSUME NEW k \in 1 .. n, k - 1 \in S PROVE k \in S
    <3>1. k \in 0 .. n /\ J[k - 1] \in V
      BY <1>1, <2>2
    <3>2. J[k] = Cut(J[k - 1], s[k])
      BY <1>8
    <3> QED
      BY <3>1, <3>2, <1>2
  <2>3. 0 .. n \subseteq S
    <3> HIDE DEF S
    <3> QED
      BY <2>1, <2>2, <1>1, InductionTo
  <2> QED
    BY <2>3
<1>10. J \in [0 .. n -> V]
  BY <1>8, <1>9
<1> QED
  BY <1>3, <1>8, <1>10 DEF V, n, Splits

\* What Joint puts where.
Before(a, k) == Len(a) + (IF k = 1 THEN 0 ELSE 1)

\* c is a, a separator if a frame came before, and the frame.
Follows(c, a, k, frame) ==
  /\ Len(a) \in Nat /\ Len(frame) \in Nat /\ Before(a, k) \in Nat /\ Len(a) <= Before(a, k)
  /\ Len(c) = Before(a, k) + Len(frame)
  /\ \A i \in 1 .. Len(a) : c[i] = a[i]
  /\ k # 1 => Before(a, k) = Len(a) + 1 /\ c[Before(a, k)] = Sep
  /\ k = 1 => Before(a, k) = Len(a)
  /\ \A j \in 1 .. Len(frame) : c[Before(a, k) + j] = frame[j]

\* That is what Joint makes.
LEMMA JointParts ==
  ASSUME NEW T, NEW fs \in Seq(Seq(T)), NEW k \in 1 .. Len(fs), NEW a \in Seq(T \union {Sep})
  PROVE  Follows(Joint(a, k, fs), a, k, fs[k])
<1> DEFINE b == Before(a, k)
<1>b. b = Len(a) + (IF k = 1 THEN 0 ELSE 1)
  BY DEF Before
<1> HIDE DEF b
<1> DEFINE V == Seq(T \union {Sep})
           c == a \o (IF k = 1 THEN <<>> ELSE <<Sep>>)
<1>1. fs[k] \in V
  <2>1. fs[k] \in Seq(T)
    OBVIOUS
  <2> QED
    BY <2>1
<1>2. c \in V /\ Len(c) = b /\ (\A i \in 1 .. Len(a) : c[i] = a[i]) /\ (k # 1 => c[b] = Sep)
  <2>1. CASE k = 1
    <3>1. c = a
      BY <2>1
    <3> QED
      BY <2>1, <3>1, <1>b
  <2>2. CASE k # 1
    <3>1. c = a \o <<Sep>> /\ b = Len(a) + 1
      BY <2>2, <1>b
    <3> HIDE DEF c
    <3> QED
      BY <3>1
  <2> QED
    BY <2>1, <2>2
<1>3. Joint(a, k, fs) = c \o fs[k]
  BY DEF Joint
<1> HIDE DEF c
<1> DEFINE d == fs[k]
<1> HIDE DEF V, d
<1>0. d \in V /\ Len(d) \in Nat /\ Len(c) \in Nat
  BY <1>1, <1>2 DEF V, d
<1>4. /\ Len(c \o d) = b + Len(d)
      /\ \A i \in 1 .. Len(c) + Len(d) :
           (c \o d)[i] = IF i <= Len(c) THEN c[i] ELSE d[i - Len(c)]
  <2>1. c \in Seq(T \union {Sep}) /\ d \in Seq(T \union {Sep})
    BY <1>0, <1>2 DEF V
  <2>2. \A W : c \in Seq(W) /\ d \in Seq(W) =>
          /\ Len(c \o d) = Len(c) + Len(d)
          /\ \A i \in 1 .. Len(c) + Len(d) : (c \o d)[i] = IF i <= Len(c) THEN c[i] ELSE d[i - Len(c)]
    BY ConcatProperties, Zenon
  <2> QED
    BY <1>2, <2>1, <2>2
<1>5. \A i \in 1 .. b : (c \o d)[i] = c[i]
  BY <1>0, <1>2, <1>4
<1>6. \A j \in 1 .. Len(d) : (c \o d)[b + j] = d[j]
  <2> TAKE j \in 1 .. Len(d)
  <2>1. b + j \in 1 .. Len(c) + Len(d) /\ ~(b + j <= Len(c)) /\ (b + j) - Len(c) = j
    BY <1>0, <1>2
  <2> QED
    BY <2>1, <1>4
<1>7. b \in Nat /\ Len(a) <= b /\ (k # 1 => b \in 1 .. b)
  BY <1>b
<1>8. Len(c \o d) = b + Len(d)
  BY <1>4, <1>2
<1>9. /\ \A i \in 1 .. Len(a) : (c \o d)[i] = a[i]
      /\ k # 1 => (c \o d)[b] = Sep
  BY <1>2, <1>5, <1>7
<1>10. Len(a) \in Nat /\ b \in Nat /\ Len(a) <= b /\ (k # 1 => b = Len(a) + 1) /\ (k = 1 => b = Len(a))
  BY <1>b
<1> QED
  BY <1>0, <1>3, <1>6, <1>8, <1>9, <1>10, Zenon DEF d, b, Follows

\* A token that does not separate goes to the last part.
LEMMA CutGrows ==
  ASSUME NEW T, NEW parts \in Seq(Seq(T)), NEW w \in Seq(T), NEW x \in T, x.k # "sep"
  PROVE  Cut(Append(parts, w), x) = Append(parts, Append(w, x))
<1> DEFINE p == Append(parts, w)
           q == Append(parts, Append(w, x))
           n == Len(parts) + 1
<1>1. p \in Seq(Seq(T)) /\ Len(p) = n /\ p[n] = w /\ \A i \in 1 .. Len(parts) : p[i] = parts[i]
  BY AppendProperties
<1>2. Append(w, x) \in Seq(T)
  OBVIOUS
<1>3. q \in Seq(Seq(T)) /\ Len(q) = n /\ q[n] = Append(w, x)
      /\ \A i \in 1 .. Len(parts) : q[i] = parts[i]
  BY <1>2, AppendProperties
<1> HIDE DEF p, q
<1>4. Cut(p, x) = [p EXCEPT ![n] = Append(w, x)]
  BY <1>1 DEF Cut
<1>5. Cut(p, x) \in Seq(Seq(T)) /\ Len(Cut(p, x)) = n
      /\ \A i \in 1 .. n : Cut(p, x)[i] = IF i = n THEN Append(w, x) ELSE p[i]
  BY <1>1, <1>2, <1>4, ExceptSeq
<1>6. ASSUME NEW i \in 1 .. n PROVE Cut(p, x)[i] = q[i]
  <2>1. CASE i = n
    BY <2>1, <1>3, <1>5
  <2>2. CASE i # n
    <3>1. i \in 1 .. Len(parts)
      BY <2>2
    <3> HIDE DEF n
    <3> QED
      BY <2>2, <3>1, <1>1, <1>3, <1>5
  <2> QED
    BY <2>1, <2>2
<1>7. Cut(p, x) = q
  BY <1>3, <1>5, <1>6, SeqEqual
<1> QED
  BY <1>7 DEF p, q

\* How what was joined grows.
LEMMA JoinedGrows ==
  ASSUME NEW T, NEW fs \in Seq(Seq(T)), NEW g, Joins(g, fs, T), NEW k \in 1 .. Len(fs)
  PROVE  Follows(g[k], g[k - 1], k, fs[k])
<1> DEFINE a == g[k - 1]
<1>1. a \in Seq(T \union {Sep})
  <2>1. k - 1 \in 0 .. Len(fs)
    OBVIOUS
  <2> QED
    BY <2>1 DEF Joins
<1>2. g[k] = Joint(a, k, fs)
  BY DEF Joins
<1> HIDE DEF a
<1>3. Follows(Joint(a, k, fs), a, k, fs[k])
  BY <1>1, JointParts
<1> QED
  BY <1>2, <1>3 DEF a

\* What is joined begins with what was joined before.
LEMMA FollowsLonger ==
  ASSUME NEW c, NEW a, NEW k, NEW frame, Follows(c, a, k, frame)
  PROVE  /\ Len(a) \in Nat /\ Len(c) \in Nat /\ Len(a) <= Len(c)
         /\ \A i \in 1 .. Len(a) : c[i] = a[i]
BY DEF Follows

\* What was joined is a prefix of all that is joined after it.
LEMMA JoinedPrefix ==
  ASSUME NEW T, NEW fs \in Seq(Seq(T)), NEW g, Joins(g, fs, T)
  PROVE  \A k \in 0 .. Len(fs) :
           /\ Len(g[k]) <= Len(g[Len(fs)])
           /\ \A i \in 1 .. Len(g[k]) : g[Len(fs)][i] = g[k][i]
<1> DEFINE n == Len(fs)
           Prefix(k) == /\ Len(g[k]) <= Len(g[n])
                        /\ \A i \in 1 .. Len(g[k]) : g[n][i] = g[k][i]
           S == {d \in 0 .. n : Prefix(n - d)}
<1>1. n \in Nat
  OBVIOUS
<1>2. 0 \in S
  <2>1. Prefix(n)
    OBVIOUS
  <2> HIDE DEF n, Prefix
  <2>2. 0 \in 0 .. n /\ n - 0 = n
    BY <1>1
  <2> QED
    BY <2>1, <2>2
<1>3. ASSUME NEW d \in 1 .. n, d - 1 \in S PROVE d \in S
  <2> DEFINE top == (n - d) + 1
  <2>1. top \in 1 .. n /\ n - (d - 1) = top /\ top - 1 = n - d /\ d \in 0 .. n
    BY <1>1
  <2>2. Prefix(top)
    <3>1. Prefix(n - (d - 1))
      BY <1>3
    <3> HIDE DEF Prefix
    <3> QED
      BY <2>1, <3>1
  <2> HIDE DEF top, n, S
  <2>3. /\ Len(g[top - 1]) \in Nat /\ Len(g[top]) \in Nat /\ Len(g[top - 1]) <= Len(g[top])
        /\ \A i \in 1 .. Len(g[top - 1]) : g[top][i] = g[top - 1][i]
    <3>1. top \in 1 .. Len(fs)
      BY <2>1 DEF n
    <3>2. Follows(g[top], g[top - 1], top, fs[top])
      BY <3>1, JoinedGrows
    <3> QED
      BY <3>2, FollowsLonger, Zenon
  <2>8. Prefix(top - 1)
    <3>1. Len(g[top - 1]) <= Len(g[n])
      <4>1. Len(g[n]) \in Nat
        BY <1>1 DEF n, Joins
      <4> QED
        BY <2>2, <2>3, <4>1
    <3>2. ASSUME NEW i \in 1 .. Len(g[top - 1]) PROVE g[n][i] = g[top - 1][i]
      <4>1. i \in 1 .. Len(g[top])
        BY <2>3
      <4> QED
        BY <2>2, <2>3, <4>1
    <3> QED
      BY <3>1, <3>2
  <2> HIDE DEF Prefix
  <2>9. Prefix(n - d)
    BY <2>1, <2>8
  <2> QED
    BY <2>1, <2>9 DEF S
<1>4. 0 .. n \subseteq S
  <2> HIDE DEF S, n
  <2> QED
    BY <1>1, <1>2, <1>3, InductionTo
<1>5. ASSUME NEW k \in 0 .. n PROVE Prefix(k)
  <2> HIDE DEF Prefix
  <2>1. n - k \in S /\ n - (n - k) = k
    <3>1. n - k \in 0 .. n
      BY <1>1
    <3> HIDE DEF S, n
    <3> QED
      BY <1>1, <1>4, <3>1
  <2>2. Prefix(n - (n - k))
    BY <2>1
  <2> HIDE DEF n
  <2> QED
    BY <2>1, <2>2
<1> QED
  BY <1>5

\* A prefix is the one before it and one more element.
LEMMA PrefixAppend ==
  ASSUME NEW S, NEW seq \in Seq(S), NEW k \in 1 .. Len(seq)
  PROVE  /\ SubSeq(seq, 1, k - 1) \in Seq(S)
         /\ SubSeq(seq, 1, k) = Append(SubSeq(seq, 1, k - 1), seq[k])
BY SubSeqProperties, SubSeqRecursiveSecond

\* DecodePayload takes in a frame token by token.
FrameAt(s, b, f) ==
  b + Len(f) <= Len(s) /\ \A j \in 1 .. Len(f) : s[b + j] = f[j] /\ f[j].k # "sep"

\* The last part, empty before a frame, is that frame after it.
LEMMA SplitFrame ==
  ASSUME NEW T, NEW s \in Seq(T), NEW h, Splits(h, s, T),
         NEW b \in Nat, NEW f \in Seq(T), FrameAt(s, b, f),
         NEW parts \in Seq(Seq(T)), h[b] = Append(parts, <<>>)
  PROVE  h[b + Len(f)] = Append(parts, f)
<1> DEFINE m == Len(f)
           U == {j \in 0 .. m : h[b + j] = Append(parts, SubSeq(f, 1, j))}
<1>1. m \in Nat /\ Len(s) \in Nat /\ b + m <= Len(s)
  BY DEF FrameAt
<1>2. 0 \in U
  <2>1. SubSeq(f, 1, 0) = <<>> /\ b + 0 = b /\ 0 \in 0 .. m
    OBVIOUS
  <2> QED
    BY <2>1
<1>3. ASSUME NEW j \in 1 .. m, j - 1 \in U PROVE j \in U
  <2> DEFINE w == SubSeq(f, 1, j - 1)
             x == f[j]
             at == b + j
  <2>1. w \in Seq(T) /\ x \in T /\ SubSeq(f, 1, j) = Append(w, x)
    BY PrefixAppend
  <2>2. h[at - 1] = Append(parts, w)
    <3>1. b + (j - 1) = at - 1
      BY <1>1
    <3>2. h[b + (j - 1)] = Append(parts, w)
      BY <1>3
    <3> QED
      BY <3>1, <3>2
  <2>3. h[at] = Cut(h[at - 1], s[at])
    <3>1. at \in 1 .. Len(s)
      BY <1>1
    <3> HIDE DEF at
    <3> QED
      BY <3>1 DEF Splits
  <2>4. s[at] = x /\ x.k # "sep"
    BY DEF FrameAt
  <2> HIDE DEF w, x, U
  <2>5. Cut(Append(parts, w), x) = Append(parts, Append(w, x))
    <3> HIDE DEF at
    <3> QED
      BY <2>1, <2>4, CutGrows
  <2>6. h[b + j] = Append(parts, SubSeq(f, 1, j))
    BY <2>1, <2>2, <2>3, <2>4, <2>5
  <2>7. j \in 0 .. m
    BY <1>1
  <2> QED
    BY <2>6, <2>7 DEF U
<1>4. 0 .. m \subseteq U
  <2> HIDE DEF U, m
  <2> QED
    BY <1>1, <1>2, <1>3, InductionTo
<1>5. m \in U
  <2> HIDE DEF U, m
  <2> QED
    BY <1>1, <1>4
<1>6. SubSeq(f, 1, m) = f
  BY SubSeqFull
<1> QED
  BY <1>5, <1>6

\* Splitting a polling payload gives back the packets that were joined, for any number
\* of packets that are not empty and have no separator in them.
\* (EncodePayload and DecodePayload of engineio/packet.go.)
THEOREM SplitUndoesJoin ==
  ASSUME NEW T, \A t \in T : t.k # "sep", NEW fs \in Seq(Seq(T)), fs # <<>>,
         \A i \in 1 .. Len(fs) : fs[i] # <<>>
  PROVE  DecodePayload(EncodePayload(fs)) = fs
<1> DEFINE n == Len(fs)
           s == EncodePayload(fs)
           W == T \union {Sep}
<1>1. n \in Nat /\ n >= 1
  OBVIOUS
<1>2. PICK g : Joins(g, fs, T) /\ s = g[n]
  BY JoinedStepwise
<1> HIDE DEF s
<1>3. s \in Seq(W) /\ \A k \in 0 .. n : Len(g[k]) \in Nat
  <2>1. g \in [0 .. n -> Seq(W)] /\ s = g[n]
    BY <1>2 DEF Joins
  <2> HIDE DEF n, W
  <2>2. n \in 0 .. n /\ \A k \in 0 .. n : g[k] \in Seq(W)
    BY <1>1, <2>1
  <2> QED
    BY <2>1, <2>2
<1>4. \A k \in 0 .. n : Len(g[k]) <= Len(s) /\ \A i \in 1 .. Len(g[k]) : s[i] = g[k][i]
  BY <1>2, JoinedPrefix
<1>5. \A k \in 1 .. n : Follows(g[k], g[k - 1], k, fs[k])
  BY <1>2, JoinedGrows
<1>6. g[0] = <<>>
  BY <1>2 DEF Joins
<1>7. \A k \in 1 .. n : fs[k] \in Seq(W) /\ fs[k] \in Seq(T) /\ Len(fs[k]) > 0
  <2> TAKE k \in 1 .. n
  <2>1. fs[k] \in Seq(T) /\ fs[k] # <<>>
    OBVIOUS
  <2> QED
    BY <2>1
<1>8. s # <<>>
  <2>1. Follows(g[1], g[1 - 1], 1, fs[1]) /\ 1 \in 0 .. n /\ 1 \in 1 .. n
    BY <1>1, <1>5
  <2>2. Len(g[1]) > 0
    BY <2>1, <1>7 DEF Follows
  <2>3. Len(s) # 0
    BY <2>1, <2>2, <1>3, <1>4
  <2> QED
    BY <2>3
<1>9. PICK h : Splits(h, s, W) /\ DecodePayload(s) = h[Len(s)]
  <2> HIDE DEF W
  <2> QED
    BY <1>3, <1>8, SplitStepwise
<1>10. fs \in Seq(Seq(W))
  BY <1>7
<1> DEFINE S == {k \in 0 .. n : k # 0 => h[Len(g[k])] = SubSeq(fs, 1, k)}
<1>11. 0 \in S
  BY <1>1
<1>12. ASSUME NEW k \in 1 .. n, k - 1 \in S PROVE k \in S
  <2> DEFINE a == g[k - 1]
             c == g[k]
             b == Before(a, k)
             f == fs[k]
             parts == SubSeq(fs, 1, k - 1)
  <2>1. Follows(c, a, k, f) /\ f \in Seq(W) /\ f \in Seq(T)
    BY <1>5, <1>7
  <2>2. k - 1 # 0 => h[Len(a)] = parts
    BY <1>12
  <2>3. parts \in Seq(Seq(W)) /\ SubSeq(fs, 1, k) = Append(parts, f)
    <3> HIDE DEF W
    <3> QED
      BY <1>10, PrefixAppend
  <2>4. Len(c) <= Len(s) /\ Len(c) \in Nat /\ \A i \in 1 .. Len(c) : s[i] = c[i]
    <3>1. k \in 0 .. n
      OBVIOUS
    <3> QED
      BY <1>3, <1>4, <3>1
  <2>5. k = 1 => a = <<>> /\ parts = <<>>
    BY <1>6
  <2>6. Len(s) \in Nat
    BY <1>3
  <2> HIDE DEF a, c, f, parts, n, W, S
  <2>7. b \in Nat /\ Len(c) = b + Len(f) /\ Len(f) \in Nat /\ b + Len(f) <= Len(s)
    BY <2>1, <2>4 DEF Follows
  <2>8. FrameAt(s, b, f)
    <3> SUFFICES ASSUME NEW j \in 1 .. Len(f) PROVE s[b + j] = f[j] /\ f[j].k # "sep"
      BY <2>7 DEF FrameAt
    <3>1. c[b + j] = f[j]
      BY <2>1 DEF Follows
    <3>2. b + j \in 1 .. Len(c)
      BY <2>7
    <3>3. f[j] \in T
      BY <2>1
    <3> QED
      BY <2>4, <3>1, <3>2, <3>3
  <2>9. h[b] = Append(parts, <<>>)
    <3>1. CASE k = 1
      <4>1. b = 0
        BY <2>1, <2>5, <3>1 DEF Follows
      <4>2. h[0] = << <<>> >>
        BY <1>9 DEF Splits
      <4>3. Append(<<>>, <<>>) = << <<>> >>
        OBVIOUS
      <4> QED
        BY <2>5, <3>1, <4>1, <4>2, <4>3
    <3>2. CASE k # 1
      <4>1. b = Len(a) + 1 /\ c[b] = Sep /\ Len(a) \in Nat
        BY <2>1, <3>2 DEF Follows
      <4>2. b \in 1 .. Len(c) /\ b \in 1 .. Len(s) /\ b - 1 = Len(a)
        BY <4>1, <2>4, <2>6, <2>7
      <4>3. h[b] = Cut(h[Len(a)], s[b]) /\ s[b] = Sep
        <5>1. h[b] = Cut(h[b - 1], s[b])
          BY <1>9, <4>2 DEF Splits
        <5> QED
          BY <5>1, <4>1, <4>2, <2>4
      <4>4. h[Len(a)] = parts
        BY <2>2, <3>2
      <4>5. Sep.k = "sep"
        BY DEF Sep, Token
      <4>6. Cut(parts, Sep) = Append(parts, <<>>)
        BY <4>5 DEF Cut
      <4> QED
        BY <4>3, <4>4, <4>6
    <3> QED
      BY <3>1, <3>2
  <2> HIDE DEF b
  <2>10. h[b + Len(f)] = Append(parts, f)
    <3>1. /\ s \in Seq(W) /\ Splits(h, s, W) /\ b \in Nat /\ f \in Seq(W)
          /\ FrameAt(s, b, f) /\ parts \in Seq(Seq(W)) /\ h[b] = Append(parts, <<>>)
      BY Zenon, <1>3, <1>9, <2>1, <2>3, <2>7, <2>8, <2>9
    <3> QED
      BY ONLY <3>1, SplitFrame
  <2>11. h[Len(g[k])] = SubSeq(fs, 1, k)
    <3>1. h[Len(c)] = SubSeq(fs, 1, k)
      BY Zenon, <2>3, <2>7, <2>10
    <3> QED
      BY Zenon, <3>1 DEF c
  <2> QED
    BY <1>1, <2>11 DEF S
<1>13. 0 .. n \subseteq S
  <2> HIDE DEF S, n
  <2> QED
    BY <1>1, <1>11, <1>12, InductionTo
<1>14. h[Len(g[n])] = SubSeq(fs, 1, n)
  <2>1. n \in S
    <3> HIDE DEF S, n
    <3> QED
      BY <1>1, <1>13
  <2> QED
    BY <1>1, <2>1
<1>15. SubSeq(fs, 1, n) = fs
  BY SubSeqFull
<1> QED
  BY <1>2, <1>9, <1>14, <1>15 DEF s

-------------------------------------------------------------------------------
(* Numbers.                                                                *)

\* Dividing by ten.
LEMMA TenFacts ==
  ASSUME NEW k \in Nat
  PROVE  /\ k \div 10 \in Nat /\ k % 10 \in 0 .. 9 /\ k = 10 * (k \div 10) + (k % 10)
         /\ k >= 10 => k \div 10 < k
OBVIOUS

\* The digits, as tokens of a frame.
DigitTokens == {Token("digit", d) : d \in 0 .. 9}

\* What strconv.Itoa writes last.
LastDigit(k) == Token("digit", k % 10)

\* What the digits of k are made of.
DigitStep(g, k) == IF k < 10 THEN <<Token("digit", k)>> ELSE Append(g[k \div 10], LastDigit(k))

\* g gives the digits of every number up to n.
Itoa(g, n) == g \in [0 .. n -> Seq(DigitTokens)] /\ \A k \in 0 .. n : g[k] = DigitStep(g, k)

\* Digits are digit tokens, one step of the recursion at a time.
LEMMA DigitStepType ==
  ASSUME NEW k \in Nat, NEW g, k >= 10 => g[k \div 10] \in Seq(DigitTokens)
  PROVE  DigitStep(g, k) \in Seq(DigitTokens)
<1>1. CASE k < 10
  <2>1. k \in 0 .. 9
    BY <1>1
  <2>2. Token("digit", k) \in DigitTokens
    BY <2>1 DEF DigitTokens
  <2> QED
    BY <1>1, <2>2 DEF DigitStep
<1>2. CASE ~(k < 10)
  <2>1. LastDigit(k) \in DigitTokens
    BY TenFacts DEF DigitTokens, LastDigit
  <2> DEFINE a == g[k \div 10]
  <2>2. a \in Seq(DigitTokens)
    BY <1>2
  <2>3. DigitStep(g, k) = Append(a, LastDigit(k))
    BY <1>2 DEF DigitStep
  <2> HIDE DEF a
  <2> QED
    BY <2>1, <2>2, <2>3
<1> QED
  BY <1>1, <1>2

\* There are digits for every number: a recursion on k \div 10 and not on k - 1.
LEMMA ItoaExists ==
  ASSUME NEW n \in Nat
  PROVE  \E g : Itoa(g, n)
<1> DEFINE S == {m \in Nat : \E g : Itoa(g, m)}
<1>1. 0 \in S
  <2> DEFINE g == [k \in 0 .. 0 |-> DigitStep(<<>>, k)]
  <2>1. \A k \in 0 .. 0 : g[k] = DigitStep(g, k) /\ g[k] \in Seq(DigitTokens)
    <3> TAKE k \in 0 .. 0
    <3>1. k < 10 /\ k \in Nat /\ ~(k >= 10)
      OBVIOUS
    <3>2. DigitStep(<<>>, k) = DigitStep(g, k)
      BY <3>1 DEF DigitStep
    <3>3. DigitStep(<<>>, k) \in Seq(DigitTokens)
      BY <3>1, DigitStepType
    <3> QED
      BY <3>2, <3>3
  <2>2. Itoa(g, 0)
    BY <2>1 DEF Itoa
  <2> QED
    BY <2>2
<1>2. ASSUME NEW m \in Nat, m \in S PROVE m + 1 \in S
  <2>1. PICK g : Itoa(g, m)
    BY <1>2
  <2> DEFINE h == [k \in 0 .. m + 1 |-> IF k <= m THEN g[k] ELSE DigitStep(g, k)]
  <2>2. ASSUME NEW k \in 0 .. m + 1 PROVE h[k] = DigitStep(g, k)
    <3>1. CASE k <= m
      <4>1. k \in 0 .. m
        BY <3>1
      <4> QED
        BY <2>1, <3>1, <4>1 DEF Itoa
    <3>2. CASE ~(k <= m)
      BY <3>2
    <3> QED
      BY <3>1, <3>2
  <2>3. ASSUME NEW k \in 0 .. m + 1, k >= 10
        PROVE  k \div 10 \in 0 .. m /\ h[k \div 10] = g[k \div 10]
    <3>1. k \div 10 \in 0 .. m
      BY <2>3, TenFacts
    <3> DEFINE e == k \div 10
    <3> HIDE DEF e
    <3>2. e \in 0 .. m => h[e] = g[e]
      OBVIOUS
    <3> QED
      BY <3>1, <3>2 DEF e
  <2> HIDE DEF h
  <2>4. ASSUME NEW k \in 0 .. m + 1 PROVE h[k] = DigitStep(h, k) /\ h[k] \in Seq(DigitTokens)
    <3>1. DigitStep(h, k) = DigitStep(g, k)
      <4>1. CASE k < 10
        BY <4>1 DEF DigitStep
      <4>2. CASE ~(k < 10)
        <5>1. h[k \div 10] = g[k \div 10]
          BY <4>2, <2>3
        <5> QED
          BY <4>2, <5>1 DEF DigitStep
      <4> QED
        BY <4>1, <4>2
    <3>2. k >= 10 => g[k \div 10] \in Seq(DigitTokens)
      BY <2>1, <2>3 DEF Itoa
    <3>3. DigitStep(g, k) \in Seq(DigitTokens)
      BY <3>2, DigitStepType
    <3> QED
      BY <2>2, <3>1, <3>3
  <2>5. h = [k \in 0 .. m + 1 |-> h[k]]
    BY DEF h
  <2>6. Itoa(h, m + 1)
    BY <2>4, <2>5 DEF Itoa
  <2> QED
    BY <2>6
<1>3. n \in S
  <2> HIDE DEF S
  <2> QED
    BY <1>1, <1>2, Induction
<1> QED
  BY <1>3

\* Digits computes what its recursion says.
LEMMA DigitsStepwise ==
  ASSUME NEW n \in Nat
  PROVE  \E g : Itoa(g, n) /\ Digits(n) = g[n]
<1> DEFINE Is(f) == f = [k \in 0 .. n |-> DigitStep(f, k)]
           J == CHOOSE f : Is(f)
<1>1. Digits(n) = J[n]
  BY Zenon DEF Digits, DigitStep, LastDigit
<1>2. PICK g : Itoa(g, n)
  BY ItoaExists
<1>3. Is(g)
  BY <1>2 DEF Itoa
<1>4. Is(J)
  <2> HIDE DEF Is
  <2> QED
    BY <1>3
<1> HIDE DEF J
<1>5. J = [k \in 0 .. n |-> J[k]] /\ \A k \in 0 .. n : J[k] = DigitStep(J, k)
  BY <1>4
<1> DEFINE S == {k \in Nat : \A i \in 0 .. k : i <= n => J[i] \in Seq(DigitTokens)}
<1>6. 0 \in S
  <2>1. DigitStep(J, 0) \in Seq(DigitTokens)
    BY DigitStepType
  <2> QED
    BY <1>5, <2>1
<1>7. ASSUME NEW k \in Nat, k \in S PROVE k + 1 \in S
  <2>1. ASSUME NEW i \in 0 .. k + 1, i <= n PROVE J[i] \in Seq(DigitTokens)
    <3>1. i >= 10 => i \div 10 \in 0 .. k /\ i \div 10 <= n
      BY <2>1, TenFacts
    <3>2. i >= 10 => J[i \div 10] \in Seq(DigitTokens)
      BY <1>7, <3>1
    <3>3. DigitStep(J, i) \in Seq(DigitTokens)
      BY <3>2, DigitStepType
    <3>4. J[i] = DigitStep(J, i)
      BY <1>5, <2>1
    <3> QED
      BY <3>3, <3>4
  <2> QED
    BY <2>1
<1>8. n \in S
  <2> HIDE DEF S
  <2> QED
    BY <1>6, <1>7, Induction
<1>9. \A k \in 0 .. n : J[k] \in Seq(DigitTokens)
  BY <1>8
<1> QED
  BY <1>1, <1>5, <1>9 DEF Itoa

\* Value computes what its recursion says.
Reads(v, f, from, to) ==
  /\ v \in [from - 1 .. to -> Nat] /\ v[from - 1] = 0
  /\ \A i \in from .. to : v[i] = 10 * v[i - 1] + f[i].v

\* Its own recursive function does, and its last value is the number read.
LEMMA ValueStepwise ==
  ASSUME NEW f, NEW from \in Nat \ {0}, NEW to \in Nat, from - 1 <= to,
         \A i \in from .. to : f[i].v \in Nat
  PROVE  \E v : Reads(v, f, from, to) /\ Value(f, from, to) = v[to]
<1> DEFINE n == to - (from - 1)
           Is(g) == g = [i \in from - 1 .. to |-> IF i < from THEN 0 ELSE 10 * g[i - 1] + f[i].v]
           J == CHOOSE g : Is(g)
           step == [k \in 1 .. n |-> [a \in Nat |-> 10 * a + f[from - 1 + k].v]]
<1>1. Value(f, from, to) = J[to]
  BY Zenon DEF Value
<1>2. n \in Nat /\ step \in [1 .. n -> [Nat -> Nat]]
  <2>1. n \in Nat
    OBVIOUS
  <2>2. \A k \in 1 .. n : f[from - 1 + k].v \in Nat
    OBVIOUS
  <2> QED
    BY <2>1, <2>2
<1>3. PICK g : Unfolds(g, n, Nat, 0, step)
  <2> HIDE DEF n, step, Is, J
  <2> QED
    BY <1>2, Recursion
<1> DEFINE h == [i \in from - 1 .. to |-> g[i - (from - 1)]]
<1>4. Is(h)
  <2>1. ASSUME NEW i \in from - 1 .. to
        PROVE  h[i] = IF i < from THEN 0 ELSE 10 * h[i - 1] + f[i].v
    <3> DEFINE k == i - (from - 1)
    <3>1. h[i] = g[k]
      OBVIOUS
    <3>2. CASE i < from
      <4>1. k = 0
        BY <3>2
      <4>2. g[0] = 0
        BY <1>3 DEF Unfolds
      <4> HIDE DEF k, h
      <4> QED
        BY <3>1, <3>2, <4>1, <4>2
    <3>3. CASE ~(i < from)
      <4>1. k \in 1 .. n /\ from - 1 + k = i /\ i - 1 \in from - 1 .. to
            /\ (i - 1) - (from - 1) = k - 1 /\ k - 1 \in 0 .. n
        BY <3>3
      <4>2. h[i - 1] = g[k - 1]
        <5> HIDE DEF k
        <5> QED
          BY <4>1
      <4>3. g[k - 1] \in Nat /\ g[k] = step[k][g[k - 1]]
        <5> HIDE DEF k, n, step
        <5> QED
          BY <1>3, <4>1 DEF Unfolds
      <4> DEFINE a == g[k - 1]
      <4>4. \A m \in 1 .. n, x \in Nat : step[m][x] = 10 * x + f[from - 1 + m].v
        OBVIOUS
      <4> HIDE DEF k, n, step, h, a
      <4>5. step[k][a] = 10 * a + f[from - 1 + k].v
        BY <4>1, <4>3, <4>4 DEF a
      <4> QED
        BY <3>1, <3>3, <4>1, <4>2, <4>3, <4>5 DEF a
    <3> QED
      BY <3>2, <3>3
  <2> HIDE DEF h
  <2>2. h = [i \in from - 1 .. to |-> h[i]]
    BY DEF h
  <2> QED
    BY <2>1, <2>2
<1>5. Is(J)
  <2> HIDE DEF Is
  <2> QED
    BY <1>4
<1> HIDE DEF J
<1>6. J = [i \in from - 1 .. to |-> J[i]]
  BY <1>5
<1>7. J[from - 1] = 0
  BY <1>5
<1>8. ASSUME NEW i \in from .. to PROVE J[i] = 10 * J[i - 1] + f[i].v
  <2>1. i \in from - 1 .. to /\ ~(i < from)
    OBVIOUS
  <2> QED
    BY <1>5, <2>1
<1>9. \A i \in from - 1 .. to : J[i] \in Nat
  <2> DEFINE S == {k \in 0 .. n : J[from - 1 + k] \in Nat}
  <2>1. 0 \in S
    BY <1>7, <1>2
  <2>2. ASSUME NEW k \in 1 .. n, k - 1 \in S PROVE k \in S
    <3> DEFINE i == from - 1 + k
    <3>1. i \in from .. to /\ i - 1 = from - 1 + (k - 1)
      OBVIOUS
    <3>2. J[i - 1] \in Nat
      BY <2>2, <3>1
    <3> HIDE DEF i
    <3>3. J[i] \in Nat
      BY <1>8, <3>1, <3>2
    <3> QED
      BY <3>3 DEF i
  <2>3. 0 .. n \subseteq S
    <3> HIDE DEF S, n
    <3> QED
      BY <1>2, <2>1, <2>2, InductionTo
  <2>4. ASSUME NEW i \in from - 1 .. to PROVE J[i] \in Nat
    <3>1. i - (from - 1) \in 0 .. n /\ from - 1 + (i - (from - 1)) = i
      OBVIOUS
    <3>2. i - (from - 1) \in S
      <4> HIDE DEF S, n
      <4> QED
        BY <2>3, <3>1
    <3> QED
      BY <3>1, <3>2
  <2> QED
    BY <2>4
<1> QED
  BY <1>1, <1>6, <1>7, <1>8, <1>9 DEF Reads

\* Reading the digits of a number gives the number (strconv.Itoa and strconv.Atoi).
LEMMA ValueOfDigits ==
  ASSUME NEW n \in Nat, NEW f, NEW from \in Nat \ {0}, NEW to,
         to = from - 1 + Len(Digits(n)),
         \A i \in 1 .. Len(Digits(n)) : f[from - 1 + i] = Digits(n)[i]
  PROVE  Value(f, from, to) = n
<1>1. PICK g : Itoa(g, n) /\ Digits(n) = g[n]
  BY DigitsStepwise
<1>2. Digits(n) \in Seq(DigitTokens)
  BY <1>1 DEF Itoa
<1>3. to \in Nat /\ from - 1 <= to
  BY <1>2
<1>4. \A i \in from .. to : f[i].v \in Nat
  <2> TAKE i \in from .. to
  <2> DEFINE j == i - (from - 1)
  <2>1. j \in 1 .. Len(Digits(n)) /\ from - 1 + j = i
    BY <1>2, <1>3
  <2> HIDE DEF j
  <2>2. f[i] = Digits(n)[j]
    BY <2>1
  <2>3. Digits(n)[j] \in DigitTokens
    BY <1>2, <2>1
  <2> QED
    BY <2>2, <2>3 DEF DigitTokens, Token
<1>5. PICK v : Reads(v, f, from, to) /\ Value(f, from, to) = v[to]
  BY <1>3, <1>4, ValueStepwise
<1> DEFINE At(k) == from - 1 + Len(g[k])
           Here(k) == At(k) <= to /\ \A i \in 1 .. Len(g[k]) : f[from - 1 + i] = g[k][i]
           Read(k) == Here(k) => v[At(k)] = k
<1>6. \A k \in 0 .. n : g[k] = DigitStep(g, k) /\ g[k] \in Seq(DigitTokens)
  BY <1>1 DEF Itoa
<1>7. ASSUME NEW i \in from .. to PROVE v[i] = 10 * v[i - 1] + f[i].v
  BY <1>5 DEF Reads
<1>8. ASSUME NEW k \in 0 .. n, k >= 10 => Read(k \div 10) PROVE Read(k)
  <2> SUFFICES ASSUME Here(k) PROVE v[At(k)] = k
    OBVIOUS
  <2>1. CASE k < 10
    <3>1. g[k] = <<Token("digit", k)>>
      BY <1>6, <2>1 DEF DigitStep
    <3>2. Len(g[k]) = 1 /\ g[k][1] = Token("digit", k)
      BY <3>1
    <3>3. At(k) = from /\ f[from] = Token("digit", k) /\ from \in from .. to
      BY <1>3, <3>2
    <3>4. v[from] = 10 * v[from - 1] + f[from].v
      BY <1>7, <3>3
    <3>5. v[from - 1] = 0 /\ f[from].v = k
      BY <1>5, <3>3 DEF Reads, Token
    <3>6. k \in Nat
      OBVIOUS
    <3> HIDE DEF At
    <3>7. v[from] = k
      BY <3>4, <3>5, <3>6
    <3> QED
      BY Zenon, <3>3, <3>7
  <2>2. CASE ~(k < 10)
    <3> DEFINE q == k \div 10
               d == k % 10
    <3>1. q \in 0 .. n /\ d \in 0 .. 9 /\ k = 10 * q + d
      BY <2>2, TenFacts
    <3>2. g[k] = Append(g[q], LastDigit(k)) /\ LastDigit(k) = Token("digit", d)
      BY <1>6, <2>2 DEF DigitStep, LastDigit
    <3>3. LastDigit(k) \in DigitTokens
      BY <3>1, <3>2 DEF DigitTokens
    <3> HIDE DEF q, d
    <3>4. g[q] \in Seq(DigitTokens)
      BY <1>6, <3>1
    <3>5. /\ Len(g[q]) \in Nat /\ Len(g[k]) = Len(g[q]) + 1
          /\ \A i \in 1 .. Len(g[q]) : g[k][i] = g[q][i]
          /\ g[k][Len(g[q]) + 1] = Token("digit", d)
      <4> DEFINE a == g[q]
                 x == LastDigit(k)
      <4>1. a \in Seq(DigitTokens) /\ x \in DigitTokens /\ g[k] = Append(a, x) /\ x = Token("digit", d)
        BY <3>2, <3>3, <3>4
      <4> HIDE DEF a, x
      <4>2. Len(a) \in Nat
        BY <4>1
      <4> QED
        BY <4>1, <4>2, AppendProperties DEF a
    <3> DEFINE l == Len(g[q])
    <3>6. /\ l \in Nat /\ At(q) = from - 1 + l /\ At(k) = from - 1 + (l + 1) /\ At(k) <= to
      BY Zenon, <3>5
    <3>7. Here(q) /\ At(k) = At(q) + 1 /\ At(k) \in from .. to
      <4> HIDE DEF l, At
      <4>1. At(k) = At(q) + 1 /\ At(k) \in from .. to /\ At(q) <= to
        BY <1>3, <3>6
      <4>2. ASSUME NEW i \in 1 .. l PROVE f[from - 1 + i] = g[q][i]
        <5>1. i \in 1 .. l + 1
          BY <3>6
        <5>2. f[from - 1 + i] = g[k][i]
          BY <3>5, <5>1 DEF l
        <5> QED
          BY <3>5, <5>2 DEF l
      <4> QED
        BY <4>1, <4>2 DEF l
    <3>8. v[At(q)] = q
      <4>1. Read(q)
        BY <1>8, <2>2 DEF q
      <4> QED
        BY <3>7, <4>1
    <3>9. f[At(k)] = Token("digit", d)
      <4>1. Len(g[k]) \in 1 .. Len(g[k]) /\ Len(g[k]) = Len(g[q]) + 1
        BY <3>5
      <4>2. f[from - 1 + Len(g[k])] = g[k][Len(g[k])]
        BY <4>1
      <4> QED
        BY <3>5, <4>1, <4>2
    <3> HIDE DEF At
    <3>10. v[At(k)] = 10 * v[At(k) - 1] + f[At(k)].v
      BY <1>7, <3>7
    <3>11. At(k) - 1 = At(q)
      <4>1. At(q) \in Int
        BY <1>3, <3>5 DEF At
      <4> QED
        BY <3>7, <4>1
    <3>12. f[At(k)].v = d
      BY <3>9 DEF Token
    <3> QED
      BY <3>1, <3>8, <3>10, <3>11, <3>12
  <2> QED
    BY <2>1, <2>2
<1> HIDE DEF Read
<1> DEFINE S == {m \in Nat : \A k \in 0 .. m : k <= n => Read(k)}
<1>9. 0 \in S
  <2>1. 0 \in 0 .. n /\ ~(0 >= 10)
    OBVIOUS
  <2>2. Read(0)
    BY Zenon, <1>8, <2>1
  <2>3. \A k \in 0 .. 0 : k = 0
    OBVIOUS
  <2> QED
    BY <2>2, <2>3
<1>10. ASSUME NEW m \in Nat, m \in S PROVE m + 1 \in S
  <2>1. ASSUME NEW k \in 0 .. m + 1, k <= n PROVE Read(k)
    <3>1. k >= 10 => k \div 10 \in 0 .. m /\ k \div 10 <= n
      BY <2>1, TenFacts
    <3>2. k >= 10 => Read(k \div 10)
      BY <1>10, <3>1
    <3> QED
      BY <1>8, <2>1, <3>2
  <2> QED
    BY <2>1
<1>11. n \in S
  <2> HIDE DEF S
  <2> QED
    BY <1>9, <1>10, Induction
<1>12. Read(n)
  BY <1>11
<1>13. Here(n) /\ At(n) = to
  BY <1>1, <1>3
<1> QED
  BY <1>5, <1>12, <1>13 DEF Read

-------------------------------------------------------------------------------
(* The text frame of a packet.                                             *)

\* The frame f has the tokens of s from position at.
Piece(f, at, s) == at - 1 + Len(s) <= Len(f) /\ \A i \in 1 .. Len(s) : f[at - 1 + i] = s[i]

\* What is appended is found after what was there, and what was there stays.
LEMMA PieceNext ==
  ASSUME NEW S, NEW s \in Seq(S), NEW t \in Seq(S)
  PROVE  /\ s \o t \in Seq(S) /\ Len(s \o t) = Len(s) + Len(t)
         /\ Piece(s \o t, Len(s) + 1, t)
BY DEF Piece

LEMMA PieceKept ==
  ASSUME NEW S, NEW s \in Seq(S), NEW t \in Seq(S),
         NEW x \in Seq(S), NEW at \in Nat \ {0}, Piece(s, at, x)
  PROVE  Piece(s \o t, at, x)
<1> DEFINE f == s \o t
<1>1. Len(s) \in Nat /\ Len(t) \in Nat /\ Len(x) \in Nat
  OBVIOUS
<1>2. Len(f) = Len(s) + Len(t) /\ \A i \in 1 .. Len(s) : f[i] = s[i]
  OBVIOUS
<1>3. \A i \in 1 .. Len(x) : at - 1 + i \in 1 .. Len(s)
  BY <1>1 DEF Piece
<1> HIDE DEF f
<1>4. at - 1 + Len(x) <= Len(f)
  BY <1>1, <1>2 DEF Piece
<1>5. ASSUME NEW i \in 1 .. Len(x) PROVE f[at - 1 + i] = x[i]
  <2>1. s[at - 1 + i] = x[i]
    BY DEF Piece
  <2> QED
    BY <1>2, <1>3, <2>1
<1>6. Piece(f, at, x)
  BY <1>4, <1>5 DEF Piece
<1> QED
  BY <1>6 DEF f

\* Five sequences one after the other, each at its position.
LEMMA FivePieces ==
  ASSUME NEW S, NEW a \in Seq(S), NEW b \in Seq(S), NEW c \in Seq(S),
         NEW d \in Seq(S), NEW e \in Seq(S)
  PROVE  LET f == a \o b \o c \o d \o e IN
         /\ f \in Seq(S) /\ Len(f) = Len(a) + Len(b) + Len(c) + Len(d) + Len(e)
         /\ Piece(f, 1, a) /\ Piece(f, Len(a) + 1, b) /\ Piece(f, Len(a) + Len(b) + 1, c)
         /\ Piece(f, Len(a) + Len(b) + Len(c) + 1, d)
         /\ Piece(f, Len(a) + Len(b) + Len(c) + Len(d) + 1, e)
<1> DEFINE u == a \o b
           v == u \o c
           w == v \o d
           f == w \o e
<1>1. f = a \o b \o c \o d \o e
  OBVIOUS
<1>2. /\ u \in Seq(S) /\ Len(u) = Len(a) + Len(b) /\ Piece(u, Len(a) + 1, b)
  BY PieceNext
<1>3. Piece(a, 1, a)
  BY DEF Piece
<1>4. Piece(u, 1, a)
  BY <1>3, PieceKept
<1> HIDE DEF u
<1>5. v \in Seq(S) /\ Len(v) = Len(a) + Len(b) + Len(c) /\ Piece(v, Len(a) + Len(b) + 1, c)
  <2>1. v \in Seq(S) /\ Len(v) = Len(u) + Len(c) /\ Piece(v, Len(u) + 1, c)
    BY <1>2, PieceNext
  <2> HIDE DEF v
  <2> QED
    BY <1>2, <2>1
<1>6. Len(a) \in Nat /\ Len(b) \in Nat /\ Len(c) \in Nat /\ Len(d) \in Nat
  OBVIOUS
<1>7. /\ Len(a) + 1 \in Nat \ {0} /\ Len(a) + Len(b) + 1 \in Nat \ {0}
      /\ Len(a) + Len(b) + Len(c) + 1 \in Nat \ {0} /\ 1 \in Nat \ {0}
  BY <1>6
<1>8. Piece(v, 1, a) /\ Piece(v, Len(a) + 1, b)
  BY <1>2, <1>4, <1>7, PieceKept
<1> HIDE DEF v
<1>9. /\ w \in Seq(S) /\ Len(w) = Len(a) + Len(b) + Len(c) + Len(d)
      /\ Piece(w, Len(a) + Len(b) + Len(c) + 1, d)
  BY <1>5, PieceNext
<1>10. Piece(w, 1, a) /\ Piece(w, Len(a) + 1, b) /\ Piece(w, Len(a) + Len(b) + 1, c)
  BY <1>5, <1>7, <1>8, PieceKept
<1> HIDE DEF w
<1>11. /\ f \in Seq(S) /\ Len(f) = Len(w) + Len(e) /\ Piece(f, Len(w) + 1, e)
  BY <1>9, PieceNext
<1>12. /\ Piece(f, 1, a) /\ Piece(f, Len(a) + 1, b) /\ Piece(f, Len(a) + Len(b) + 1, c)
       /\ Piece(f, Len(a) + Len(b) + Len(c) + 1, d)
  BY <1>7, <1>9, <1>10, PieceKept
<1> HIDE DEF f
<1>13. /\ f \in Seq(S) /\ Len(f) = Len(a) + Len(b) + Len(c) + Len(d) + Len(e)
       /\ Piece(f, 1, a) /\ Piece(f, Len(a) + 1, b) /\ Piece(f, Len(a) + Len(b) + 1, c)
       /\ Piece(f, Len(a) + Len(b) + Len(c) + 1, d)
       /\ Piece(f, Len(a) + Len(b) + Len(c) + Len(d) + 1, e)
  BY <1>9, <1>11, <1>12
<1> QED
  BY Zenon, <1>1, <1>13

\* The digits of a number: at least one, and one for a number below ten.
LEMMA DigitsType ==
  ASSUME NEW n \in Nat
  PROVE  /\ Digits(n) \in Seq(DigitTokens) /\ Digits(n) # <<>>
         /\ n < 10 => Digits(n) = <<Token("digit", n)>>
<1>1. PICK g : Itoa(g, n) /\ Digits(n) = g[n]
  BY DigitsStepwise
<1>2. g[n] = DigitStep(g, n) /\ g[n] \in Seq(DigitTokens)
  BY <1>1 DEF Itoa
<1>3. CASE n < 10
  BY <1>1, <1>2, <1>3 DEF DigitStep
<1>4. CASE ~(n < 10)
  <2> DEFINE a == g[n \div 10]
             x == LastDigit(n)
  <2>1. g[n] = Append(a, x)
    BY <1>2, <1>4 DEF DigitStep
  <2>2. a \in Seq(DigitTokens)
    <3>1. n \div 10 \in 0 .. n
      BY <1>4, TenFacts
    <3> QED
      BY <1>1, <3>1 DEF Itoa
  <2> HIDE DEF a, x
  <2>3. Append(a, x) # <<>>
    <3>1. Len(Append(a, x)) = Len(a) + 1 /\ Len(a) \in Nat
      BY <2>2
    <3>2. Len(<<>>) = 0
      OBVIOUS
    <3> HIDE DEF a
    <3> QED
      BY <3>1, <3>2
  <2> QED
    BY <1>1, <1>2, <1>4, <2>1, <2>3
<1> QED
  BY <1>3, <1>4

\* What IndexOf and IndexNot find.
LEMMA FirstOf ==
  ASSUME NEW f, Len(f) \in Nat, NEW k, NEW pos \in Nat, NEW at \in pos .. Len(f) + 1,
         \A i \in pos .. at - 1 : f[i].k # k, at <= Len(f) => f[at].k = k
  PROVE  IndexOf(f, k, pos) = at
<1> DEFINE S == {i \in pos .. Len(f) : f[i].k = k} \union {Len(f) + 1}
<1>1. at \in S /\ S \subseteq Nat
  OBVIOUS
<1>2. \A i \in S : at <= i
  OBVIOUS
<1>3. IndexOf(f, k, pos) = CHOOSE i \in S : \A j \in S : i <= j
  BY DEF IndexOf, Min
<1> HIDE DEF S
<1>4. \A i \in S : (\A j \in S : i <= j) => i = at
  BY <1>1, <1>2
<1> QED
  BY <1>1, <1>2, <1>3, <1>4

\* The first token of another kind.
LEMMA FirstNot ==
  ASSUME NEW f, Len(f) \in Nat, NEW k, NEW pos \in Nat, NEW at \in pos .. Len(f) + 1,
         \A i \in pos .. at - 1 : f[i].k = k, at <= Len(f) => f[at].k # k
  PROVE  IndexNot(f, k, pos) = at
<1> DEFINE S == {i \in pos .. Len(f) : f[i].k # k} \union {Len(f) + 1}
<1>1. at \in S /\ S \subseteq Nat
  OBVIOUS
<1>2. \A i \in S : at <= i
  OBVIOUS
<1>3. IndexNot(f, k, pos) = CHOOSE i \in S : \A j \in S : i <= j
  BY DEF IndexNot, Min
<1> HIDE DEF S
<1>4. \A i \in S : (\A j \in S : i <= j) => i = at
  BY <1>1, <1>2
<1> QED
  BY <1>1, <1>2, <1>3, <1>4

\* What Encode puts after the type, and the tokens it uses.
CountPart(p) == IF IsBinary(p) THEN Digits(p.attachments) \o <<Token("dash", 0)>> ELSE <<>>
NsPart(p)    == IF p.ns # "/" THEN <<Token("ns", p.ns), Token("comma", 0)>> ELSE <<>>
IdPart(p)    == IF p.id >= 0 THEN Digits(p.id) ELSE <<>>
DataPart(p)  == IF p.data # Nil THEN <<Token("json", p.data)>> ELSE <<>>

FrameTokens(p) ==
  DigitTokens \union {Token("dash", 0), Token("comma", 0), Token("ns", p.ns), Token("json", p.data)}

\* A packet that Decode accepts from its frame.
Sendable(p) ==
  /\ p.type \in CONNECT .. BINARY_ACK /\ p.id \in Nat \union {-1}
  /\ p.attachments \in Nat /\ p.attachments <= MaxAttachments
  /\ ~IsBinary(p) => p.attachments = 0
  /\ ~(Depth(p.data) > MaxJSONDepth)

\* Where the parts are: the namespace from s, the id from i, the data from d.
Laid(f, p, s, i, d) ==
  /\ s \in Nat /\ i \in Nat /\ d \in Nat
  /\ s = 2 + Len(CountPart(p)) /\ i = s + Len(NsPart(p)) /\ d = i + Len(IdPart(p))
  /\ Len(f) = d - 1 + Len(DataPart(p)) /\ Len(f) \in Nat /\ f # <<>>
  /\ 2 <= s /\ s <= i /\ i <= d /\ d - 1 <= Len(f)
  /\ f[1] = Token("digit", p.type)
  /\ Piece(f, 2, CountPart(p)) /\ Piece(f, s, NsPart(p))
  /\ Piece(f, i, IdPart(p)) /\ Piece(f, d, DataPart(p))

\* Sequences of two, one and no tokens.
LEMMA PairFacts ==
  ASSUME NEW T, NEW a \in T, NEW b \in T
  PROVE  /\ <<a, b>> \in Seq(T) /\ Len(<<a, b>>) = 2
         /\ <<a, b>>[1] = a /\ <<a, b>>[2] = b
OBVIOUS

LEMMA SingleFacts ==
  ASSUME NEW T, NEW a \in T
  PROVE  <<a>> \in Seq(T) /\ Len(<<a>>) = 1 /\ <<a>>[1] = a
OBVIOUS

LEMMA EmptyFacts ==
  ASSUME NEW T
  PROVE  <<>> \in Seq(T) /\ Len(<<>>) = 0
OBVIOUS

\* A token is its kind and its value.
LEMMA TokenFields ==
  ASSUME NEW k, NEW v
  PROVE  Token(k, v).k = k /\ Token(k, v).v = v
BY DEF Token

\* The parts of a frame are made of its tokens.
LEMMA PartTypes ==
  ASSUME NEW p, Sendable(p)
  PROVE  /\ CountPart(p) \in Seq(FrameTokens(p)) /\ NsPart(p) \in Seq(FrameTokens(p))
         /\ IdPart(p) \in Seq(FrameTokens(p)) /\ DataPart(p) \in Seq(FrameTokens(p))
<1> DEFINE T == FrameTokens(p)
<1>1. \A n \in Nat : Digits(n) \in Seq(T)
  <2>1. DigitTokens \subseteq T
    BY DEF FrameTokens
  <2> HIDE DEF T
  <2> TAKE n \in Nat
  <2>2. Digits(n) \in Seq(DigitTokens)
    BY DigitsType
  <2> QED
    BY <2>1, <2>2
<1>2. /\ Token("dash", 0) \in T /\ Token("comma", 0) \in T /\ Token("ns", p.ns) \in T
      /\ Token("json", p.data) \in T
  BY DEF FrameTokens
<1> HIDE DEF T
<1>3. CountPart(p) \in Seq(T)
  <2> DEFINE a == Digits(p.attachments)
  <2>1. p.attachments \in Nat
    BY DEF Sendable
  <2>2. a \in Seq(T)
    BY <1>1, <2>1
  <2>3. <<Token("dash", 0)>> \in Seq(T)
    BY Zenon, <1>2, SingleFacts
  <2> HIDE DEF a
  <2>4. a \o <<Token("dash", 0)>> \in Seq(T) /\ <<>> \in Seq(T)
    BY <2>2, <2>3, EmptyFacts
  <2> QED
    BY Zenon, <2>4 DEF CountPart, a
<1>4. NsPart(p) \in Seq(T)
  BY Zenon, <1>2, PairFacts, EmptyFacts DEF NsPart
<1>5. IdPart(p) \in Seq(T)
  BY <1>1 DEF IdPart, Sendable
<1>6. DataPart(p) \in Seq(T)
  BY Zenon, <1>2, SingleFacts, EmptyFacts DEF DataPart
<1> QED
  BY <1>3, <1>4, <1>5, <1>6 DEF T

\* Encode lays the parts out one after the other.
LEMMA EncodeLayout ==
  ASSUME NEW p, Sendable(p)
  PROVE  /\ Encode(p) \in Seq(FrameTokens(p))
         /\ \E s, i, d : Laid(Encode(p), p, s, i, d)
<1> DEFINE f == Encode(p)
           t == <<Token("digit", p.type)>>
           c == CountPart(p)
           n == NsPart(p)
           j == IdPart(p)
           e == DataPart(p)
<1>1. p.type \in Nat /\ p.type < 10
  BY DEF Sendable, CONNECT, BINARY_ACK
<1>2. Digits(p.type) = t
  BY <1>1, DigitsType
<1>3. f = t \o c \o n \o j \o e
  BY Zenon, <1>2 DEF Encode, CountPart, NsPart, IdPart, DataPart
<1>4. c \in Seq(FrameTokens(p)) /\ n \in Seq(FrameTokens(p)) /\ j \in Seq(FrameTokens(p))
      /\ e \in Seq(FrameTokens(p))
  BY PartTypes
<1>5. t \in Seq(FrameTokens(p)) /\ Len(t) = 1 /\ t[1] = Token("digit", p.type)
  <2>1. p.type \in 0 .. 9
    BY <1>1
  <2>2. Token("digit", p.type) \in FrameTokens(p)
    BY <2>1 DEF FrameTokens, DigitTokens
  <2> QED
    BY Zenon, <2>2, SingleFacts
<1> DEFINE s == 2 + Len(c)
           i == s + Len(n)
           d == i + Len(j)
<1>6. /\ Len(c) \in Nat /\ Len(n) \in Nat /\ Len(j) \in Nat /\ Len(e) \in Nat
  BY <1>4
<1> HIDE DEF f, t, c, n, j, e
<1>7. /\ f \in Seq(FrameTokens(p)) /\ Len(f) = Len(t) + Len(c) + Len(n) + Len(j) + Len(e)
      /\ Piece(f, 1, t) /\ Piece(f, Len(t) + 1, c) /\ Piece(f, Len(t) + Len(c) + 1, n)
      /\ Piece(f, Len(t) + Len(c) + Len(n) + 1, j)
      /\ Piece(f, Len(t) + Len(c) + Len(n) + Len(j) + 1, e)
  <2> DEFINE F == t \o c \o n \o j \o e
  <2>1. /\ F \in Seq(FrameTokens(p)) /\ Len(F) = Len(t) + Len(c) + Len(n) + Len(j) + Len(e)
        /\ Piece(F, 1, t) /\ Piece(F, Len(t) + 1, c) /\ Piece(F, Len(t) + Len(c) + 1, n)
        /\ Piece(F, Len(t) + Len(c) + Len(n) + 1, j)
        /\ Piece(F, Len(t) + Len(c) + Len(n) + Len(j) + 1, e)
    BY ONLY <1>4, <1>5, FivePieces, Zenon
  <2>2. f = F
    BY <1>3
  <2> HIDE DEF F
  <2> QED
    BY <2>1, <2>2
<1>8. /\ Len(t) + 1 = 2 /\ Len(t) + Len(c) + 1 = s /\ Len(t) + Len(c) + Len(n) + 1 = i
      /\ Len(t) + Len(c) + Len(n) + Len(j) + 1 = d
      /\ s \in Nat /\ i \in Nat /\ d \in Nat /\ Len(f) = d - 1 + Len(e)
      /\ 2 <= s /\ s <= i /\ i <= d /\ d - 1 <= Len(f)
  BY <1>5, <1>6, <1>7
<1>9. f[1] = Token("digit", p.type)
  <2>1. 1 \in 1 .. Len(t) /\ 1 - 1 + 1 = 1
    BY <1>5
  <2>2. f[1 - 1 + 1] = t[1]
    BY <1>7, <2>1 DEF Piece
  <2> QED
    BY <1>5, <2>1, <2>2
<1>10. Len(f) # 0 /\ Len(f) \in Nat
  BY <1>6, <1>5, <1>7
<1>11. f # <<>>
  <2>1. Len(<<>>) = 0
    OBVIOUS
  <2> QED
    BY <1>10, <2>1
<1>12. Piece(f, 2, c) /\ Piece(f, s, n) /\ Piece(f, i, j) /\ Piece(f, d, e)
  <2> HIDE DEF s, i, d
  <2> QED
    BY <1>7, <1>8
<1>13. s = 2 + Len(c) /\ i = s + Len(n) /\ d = i + Len(j)
  OBVIOUS
<1> HIDE DEF s, i, d
<1>14. Laid(f, p, s, i, d)
  BY <1>8, <1>9, <1>10, <1>11, <1>12, <1>13 DEF Laid, c, n, j, e
<1> QED
  BY <1>7, <1>14 DEF f

\* How Decode finds the parts again.
LEMMA FindsCount ==
  ASSUME NEW p, Sendable(p), NEW f, NEW s, NEW i, NEW d, Laid(f, p, s, i, d), IsBinary(p)
  PROVE  /\ IndexOf(f, "dash", 2) = s - 1 /\ IndexNot(f, "digit", 2) = s - 1
         /\ s - 1 <= Len(f) /\ s - 1 > 2 /\ Value(f, 2, s - 2) = p.attachments
<1> DEFINE a == Digits(p.attachments)
           c == a \o <<Token("dash", 0)>>
           k == Len(a)
<1>1. a \in Seq(DigitTokens) /\ a # <<>>
  BY DigitsType DEF Sendable
<1>2. k \in Nat \ {0}
  <2> HIDE DEF a
  <2>1. Len(a) \in Nat /\ (Len(a) = 0 => a = <<>>)
    BY <1>1
  <2> QED
    BY <1>1, <2>1 DEF a
<1>3. /\ Len(c) = k + 1 /\ c[k + 1] = Token("dash", 0) /\ \A m \in 1 .. k : c[m] = a[m]
  <2> HIDE DEF a
  <2>1. /\ Len(c) = Len(a) + 1 /\ c[Len(a) + 1] = Token("dash", 0)
        /\ \A m \in 1 .. Len(a) : c[m] = a[m]
    <3>1. a \in Seq(DigitTokens \union {Token("dash", 0)})
      BY <1>1
    <3> QED
      BY <3>1
  <2> QED
    BY <2>1
<1>4. c = CountPart(p)
  BY DEF CountPart
<1>5. s = k + 3 /\ s - 2 = 2 - 1 + k /\ Len(f) \in Nat /\ s - 1 <= Len(f)
  <2> HIDE DEF c, k
  <2> QED
    BY <1>2, <1>3, <1>4 DEF Laid
<1> HIDE DEF k
<1>6. \A m \in 1 .. k : f[2 - 1 + m] = a[m]
  <2> HIDE DEF a, c
  <2>1. \A m \in 1 .. k + 1 : f[2 - 1 + m] = c[m]
    BY <1>3, <1>4 DEF Laid, Piece
  <2> QED
    BY <1>2, <1>3, <2>1
<1>7. f[s - 1] = Token("dash", 0)
  <2> HIDE DEF a, c
  <2>1. k + 1 \in 1 .. k + 1 /\ s - 1 = 2 - 1 + (k + 1)
    BY <1>2, <1>5
  <2>2. f[2 - 1 + (k + 1)] = c[k + 1]
    BY <1>3, <1>4, <2>1 DEF Laid, Piece
  <2> QED
    BY <1>3, <2>1, <2>2
<1>8. \A m \in 2 .. s - 2 : f[m].k = "digit"
  <2> TAKE m \in 2 .. s - 2
  <2>1. m - 1 \in 1 .. k /\ 2 - 1 + (m - 1) = m
    BY <1>2, <1>5
  <2>2. f[m] = a[m - 1]
    BY <1>6, <2>1
  <2> HIDE DEF a
  <2>3. a[m - 1] \in DigitTokens
    BY <1>1, <2>1 DEF k
  <2> QED
    BY <2>2, <2>3 DEF DigitTokens, Token
<1>9. Value(f, 2, s - 2) = p.attachments
  <2>1. p.attachments \in Nat /\ s - 2 = 2 - 1 + Len(Digits(p.attachments))
    BY <1>5 DEF Sendable, k
  <2>2. \A m \in 1 .. Len(Digits(p.attachments)) : f[2 - 1 + m] = Digits(p.attachments)[m]
    BY <1>6 DEF k
  <2>3. 2 \in Nat \ {0}
    OBVIOUS
  <2> DEFINE n == p.attachments
             to == s - 2
             from == 2
  <2>4. n \in Nat /\ to = from - 1 + Len(Digits(n)) /\ from \in Nat \ {0}
    BY <2>1, <2>3
  <2>5. \A m \in 1 .. Len(Digits(n)) : f[from - 1 + m] = Digits(n)[m]
    BY <2>2
  <2> HIDE DEF n, to, from
  <2>6. Value(f, from, to) = n
    BY Zenon, <2>4, <2>5, ValueOfDigits
  <2> QED
    BY <2>6 DEF n, to, from
<1>10. s - 1 \in 2 .. Len(f) + 1 /\ (s - 1) - 1 = s - 2 /\ s - 1 > 2
  BY <1>2, <1>5
<1>11. f[s - 1].k = "dash"
  BY <1>7 DEF Token
<1>12. IndexOf(f, "dash", 2) = s - 1
  BY <1>5, <1>8, <1>10, <1>11, FirstOf
<1>13. IndexNot(f, "digit", 2) = s - 1
  BY <1>5, <1>8, <1>10, <1>11, FirstNot
<1> QED
  BY <1>5, <1>9, <1>10, <1>12, <1>13

\* The namespace is found where it was put, up to its comma.
LEMMA FindsNs ==
  ASSUME NEW p, Sendable(p), NEW f, NEW s, NEW i, NEW d, Laid(f, p, s, i, d), p.ns # "/"
  PROVE  /\ s <= Len(f) /\ f[s].k = "ns" /\ f[s].v = p.ns
         /\ IndexOf(f, "comma", s) = s + 1 /\ s + 1 <= Len(f) /\ i = s + 2
<1>1. NsPart(p) = <<Token("ns", p.ns), Token("comma", 0)>>
  BY DEF NsPart
<1>2. Len(NsPart(p)) = 2 /\ NsPart(p)[1] = Token("ns", p.ns) /\ NsPart(p)[2] = Token("comma", 0)
  <2> DEFINE x == Token("ns", p.ns)
             y == Token("comma", 0)
  <2>1. x \in {x, y} /\ y \in {x, y}
    OBVIOUS
  <2>2. Len(<<x, y>>) = 2 /\ <<x, y>>[1] = x /\ <<x, y>>[2] = y
    BY Zenon, <2>1, PairFacts
  <2> QED
    BY Zenon, <1>1, <2>2
<1>3. s \in Nat /\ i = s + 2 /\ s + 1 <= Len(f) /\ Len(f) \in Nat
  BY <1>2 DEF Laid, Piece
<1>4. f[s] = Token("ns", p.ns) /\ f[s + 1] = Token("comma", 0)
  <2>1. f[s - 1 + 1] = Token("ns", p.ns) /\ f[s - 1 + 2] = Token("comma", 0)
    <3>1. 1 \in 1 .. 2 /\ 2 \in 1 .. 2
      OBVIOUS
    <3> QED
      BY <1>2, <3>1 DEF Laid, Piece
  <2>2. s - 1 + 1 = s /\ s - 1 + 2 = s + 1
    BY <1>3
  <2> QED
    BY <2>1, <2>2
<1>5. /\ f[s].k = "ns" /\ f[s].v = p.ns /\ f[s + 1].k = "comma"
  BY <1>4, TokenFields
<1>6. s + 1 \in s .. Len(f) + 1 /\ \A m \in s .. (s + 1) - 1 : m = s
  BY <1>3
<1>7. IndexOf(f, "comma", s) = s + 1
  BY <1>3, <1>5, <1>6, FirstOf
<1> QED
  BY <1>3, <1>5, <1>7

\* The data is the last token, if there is any.
LEMMA FindsData ==
  ASSUME NEW p, Sendable(p), NEW f, NEW s, NEW i, NEW d, Laid(f, p, s, i, d)
  PROVE  /\ p.data = Nil => d = Len(f) + 1
         /\ p.data # Nil => d = Len(f) /\ f[d].k = "json" /\ f[d].v = p.data
<1>1. d \in Nat /\ Len(f) = d - 1 + Len(DataPart(p)) /\ Piece(f, d, DataPart(p))
  BY DEF Laid
<1>2. CASE p.data = Nil
  <2>1. Len(DataPart(p)) = 0
    BY Zenon, <1>2, EmptyFacts DEF DataPart
  <2> QED
    BY <1>1, <1>2, <2>1
<1>3. CASE p.data # Nil
  <2> DEFINE x == Token("json", p.data)
  <2>1. Len(DataPart(p)) = 1 /\ DataPart(p)[1] = x
    <3>1. x \in {x}
      OBVIOUS
    <3>2. DataPart(p) = <<x>>
      BY Zenon, <1>3 DEF DataPart
    <3> HIDE DEF x
    <3>3. Len(<<x>>) = 1 /\ <<x>>[1] = x
      BY Zenon, <3>1, SingleFacts
    <3> QED
      BY Zenon, <3>2, <3>3
  <2>2. d = Len(f)
    BY <1>1, <2>1
  <2>3. f[d] = x
    <3>1. 1 \in 1 .. 1 /\ d - 1 + 1 = d
      BY <1>1
    <3>2. f[d - 1 + 1] = x
      <4> HIDE DEF x
      <4> QED
        BY <1>1, <2>1, <3>1 DEF Piece
    <3> QED
      BY <3>1, <3>2
  <2>4. f[d].k = "json" /\ f[d].v = p.data
    BY <2>3, TokenFields
  <2> QED
    BY <1>3, <2>2, <2>4
<1> QED
  BY <1>2, <1>3

\* The id is read back from its digits; without an id the data begins at once.
LEMMA FindsId ==
  ASSUME NEW p, Sendable(p), NEW f, NEW s, NEW i, NEW d, Laid(f, p, s, i, d)
  PROVE  /\ IndexNot(f, "digit", i) = d
         /\ p.id = -1 => d = i
         /\ p.id # -1 => d > i /\ Value(f, i, d - 1) = p.id /\ f[i].k = "digit" /\ i <= Len(f)
<1>1. /\ i \in Nat \ {0} /\ d \in Nat /\ d = i + Len(IdPart(p)) /\ Piece(f, i, IdPart(p))
      /\ Len(f) \in Nat /\ d - 1 <= Len(f) /\ i <= d
  BY DEF Laid
<1>2. d <= Len(f) => f[d].k # "digit"
  <2>1. d <= Len(f) => f[d].k = "json"
    BY <1>1, FindsData
  <2> QED
    BY <2>1
<1>3. d \in i .. Len(f) + 1
  BY <1>1
<1>4. CASE p.id = -1
  <2>1. ~(p.id >= 0)
    BY <1>4
  <2>2. Len(IdPart(p)) = 0
    BY Zenon, <2>1, EmptyFacts DEF IdPart
  <2>3. d = i /\ \A m \in i .. d - 1 : f[m].k = "digit"
    BY <1>1, <2>2
  <2>4. IndexNot(f, "digit", i) = d
    BY <1>1, <1>2, <1>3, <2>3, FirstNot
  <2> QED
    BY <1>4, <2>3, <2>4
<1>5. CASE p.id # -1
  <2> DEFINE n == p.id
             a == Digits(n)
  <2>1. n \in Nat /\ n >= 0
    BY <1>5 DEF Sendable
  <2>2. IdPart(p) = a
    BY Zenon, <2>1 DEF IdPart
  <2>3. a \in Seq(DigitTokens) /\ a # <<>>
    <3> HIDE DEF n
    <3> QED
      BY <2>1, DigitsType
  <2> HIDE DEF a
  <2>4. Len(a) \in Nat \ {0}
    <3>1. Len(a) \in Nat /\ (Len(a) = 0 => a = <<>>)
      BY <2>3
    <3> QED
      BY <2>3, <3>1
  <2>5. d = i + Len(a) /\ d > i /\ i <= Len(f) /\ d - 1 = i - 1 + Len(a)
    BY <1>1, <2>2, <2>4
  <2>6. \A m \in 1 .. Len(a) : f[i - 1 + m] = a[m]
    BY <1>1, <2>2 DEF Piece
  <2>7. \A m \in i .. d - 1 : f[m].k = "digit"
    <3> TAKE m \in i .. d - 1
    <3> DEFINE j == m - (i - 1)
    <3>1. j \in 1 .. Len(a) /\ i - 1 + j = m
      BY <1>1, <2>4, <2>5
    <3> HIDE DEF j
    <3>2. f[m] = a[j]
      BY <2>6, <3>1
    <3>3. a[j] \in DigitTokens
      BY <2>3, <3>1
    <3> QED
      BY <3>2, <3>3 DEF DigitTokens, Token
  <2>8. IndexNot(f, "digit", i) = d
    BY <1>1, <1>2, <1>3, <2>7, FirstNot
  <2>9. Value(f, i, d - 1) = n
    <3> DEFINE to == d - 1
    <3>1. to = i - 1 + Len(Digits(n)) /\ i \in Nat \ {0} /\ n \in Nat
      BY <1>1, <2>1, <2>5 DEF a
    <3>2. \A m \in 1 .. Len(Digits(n)) : f[i - 1 + m] = Digits(n)[m]
      BY Zenon, <2>6 DEF a
    <3> HIDE DEF to, n
    <3>3. Value(f, i, to) = n
      BY Zenon, <3>1, <3>2, ValueOfDigits
    <3> QED
      BY <3>3 DEF to
  <2>10. i \in i .. d - 1
    BY <1>1, <2>5
  <2> QED
    BY <1>5, <2>5, <2>7, <2>8, <2>9, <2>10
<1> QED
  BY <1>4, <1>5

\* Without a namespace the id, or the data, comes next: neither is a namespace.
LEMMA FindsNoNs ==
  ASSUME NEW p, Sendable(p), NEW f, NEW s, NEW i, NEW d, Laid(f, p, s, i, d), p.ns = "/"
  PROVE  i = s /\ ~(s <= Len(f) /\ f[s].k = "ns")
<1>1. Len(NsPart(p)) = 0
  BY Zenon, EmptyFacts DEF NsPart
<1>2. i = s /\ s \in Nat
  BY <1>1 DEF Laid
<1>3. CASE p.id = -1
  <2>1. d = s
    BY <1>2, <1>3, FindsId
  <2>2. s <= Len(f) => f[s].k = "json"
    <3>1. Len(f) \in Nat
      BY DEF Laid
    <3> QED
      BY <1>2, <2>1, <3>1, FindsData
  <2> QED
    BY <1>2, <2>2
<1>4. CASE p.id # -1
  <2>1. f[s].k = "digit"
    BY <1>2, <1>4, FindsId
  <2> QED
    BY <1>2, <2>1
<1> QED
  BY <1>3, <1>4

\* Decode gives back any packet within its limits that Encode wrote, whatever the digits
\* of its id and count, and with the attachments still to come.
\* (strconv.Itoa, strings.IndexByte and the parts of the frame in their order.)
THEOREM DecodeUndoesEncode ==
  ASSUME NEW p, Sendable(p)
  PROVE  Decode(Encode(p)) =
           [type |-> p.type, ns |-> p.ns, id |-> p.id, data |-> p.data,
            attachments |-> p.attachments, payloads |-> <<>>]
<1> DEFINE f == Encode(p)
<1>1. PICK s, i, d : Laid(f, p, s, i, d)
  BY EncodeLayout
<1> HIDE DEF f
<1>2. /\ s \in Nat /\ i \in Nat /\ d \in Nat /\ Len(f) \in Nat /\ f # <<>> /\ s >= 2
      /\ s = 2 + Len(CountPart(p))
  BY <1>1 DEF Laid
<1>3. f[1].k = "digit" /\ f[1].v = p.type
  <2>1. f[1] = Token("digit", p.type)
    BY <1>1 DEF Laid
  <2> QED
    BY <2>1, TokenFields
<1>4. ~(f[1].v > BINARY_ACK)
  BY <1>3 DEF Sendable, CONNECT, BINARY_ACK
<1> DEFINE binary == f[1].v \in {BINARY_EVENT, BINARY_ACK}
           dash   == IndexOf(f, "dash", 2)
           start  == IF binary THEN dash + 1 ELSE 2
           hasNs  == start <= Len(f) /\ f[start].k = "ns"
           comma  == IndexOf(f, "comma", start)
           idAt   == IF hasNs THEN comma + 1 ELSE start
           data   == IndexNot(f, "digit", idAt)
           counted == dash <= Len(f) /\ dash > 2 /\ IndexNot(f, "digit", 2) = dash
                      /\ Value(f, 2, dash - 1) <= MaxAttachments
           ns == IF ~hasNs THEN "/" ELSE
                   IF comma > Len(f) /\ start < Len(f) THEN "unknown" ELSE f[start].v
           id == IF data > idAt THEN Value(f, idAt, data - 1) ELSE -1
           dt == IF data <= Len(f) THEN f[data].v ELSE Nil
           at == IF binary THEN Value(f, 2, dash - 1) ELSE 0
           bad == \/ f = <<>>
                  \/ f[1].k # "digit" \/ f[1].v > BINARY_ACK
                  \/ binary /\ ~counted
                  \/ data <= Len(f) /\ (data < Len(f) \/ f[data].k # "json")
                  \/ data <= Len(f) /\ Depth(f[data].v) > MaxJSONDepth
<1>5. Decode(f) = IF bad THEN Bad
                  ELSE [type |-> f[1].v, ns |-> ns, id |-> id, data |-> dt,
                        attachments |-> at, payloads |-> <<>>]
  BY Zenon DEF Decode
<1>6. binary <=> IsBinary(p)
  BY Zenon, <1>3 DEF IsBinary
<1>7. start = s /\ (binary => counted) /\ at = p.attachments
  <2>1. CASE IsBinary(p)
    <3>1. /\ dash = s - 1 /\ IndexNot(f, "digit", 2) = dash /\ dash <= Len(f) /\ dash > 2
          /\ dash - 1 = s - 2 /\ Value(f, 2, dash - 1) = p.attachments
      <4>1. /\ dash = s - 1 /\ IndexNot(f, "digit", 2) = s - 1
            /\ s - 1 <= Len(f) /\ s - 1 > 2 /\ Value(f, 2, s - 2) = p.attachments
        BY Zenon, <1>1, <2>1, FindsCount
      <4>2. (s - 1) - 1 = s - 2
        BY <1>2
      <4> HIDE DEF dash
      <4> QED
        BY Zenon, <4>1, <4>2
    <3>2. p.attachments <= MaxAttachments
      BY DEF Sendable
    <3> HIDE DEF dash, binary
    <3>3. binary
      BY <1>6, <2>1
    <3>4. dash + 1 = s
      BY <1>2, <3>1
    <3> QED
      BY Zenon, <3>1, <3>2, <3>3, <3>4
  <2>2. CASE ~IsBinary(p)
    <3>1. p.attachments = 0
      BY <2>2 DEF Sendable
    <3>2. Len(CountPart(p)) = 0
      BY Zenon, <2>2, EmptyFacts DEF CountPart
    <3>3. s = 2
      BY <1>2, <3>2
    <3> HIDE DEF dash, binary
    <3> QED
      BY Zenon, <1>6, <2>2, <3>1, <3>3
  <2> QED
    BY <2>1, <2>2
<1> HIDE DEF start, counted, at, binary
<1>8. ns = p.ns /\ idAt = i
  <2>1. CASE p.ns = "/"
    <3>1. i = s /\ ~(s <= Len(f) /\ f[s].k = "ns")
      BY Zenon, <1>1, <2>1, FindsNoNs
    <3>2. ~hasNs
      BY Zenon, <1>7, <3>1
    <3> HIDE DEF hasNs, comma
    <3> QED
      BY Zenon, <1>7, <2>1, <3>1, <3>2
  <2>2. CASE p.ns # "/"
    <3>1. /\ s <= Len(f) /\ f[s].k = "ns" /\ f[s].v = p.ns
          /\ IndexOf(f, "comma", s) = s + 1 /\ s + 1 <= Len(f) /\ i = s + 2
      BY Zenon, <1>1, <2>2, FindsNs
    <3>2. hasNs /\ comma = s + 1
      BY Zenon, <1>7, <3>1
    <3>3. (s + 1) + 1 = i /\ ~(s + 1 > Len(f))
      BY <1>2, <3>1
    <3> HIDE DEF hasNs, comma
    <3> QED
      BY Zenon, <1>7, <3>1, <3>2, <3>3
  <2> QED
    BY <2>1, <2>2
<1> HIDE DEF ns, idAt
<1>9. data = d
  <2>1. IndexNot(f, "digit", i) = d
    BY <1>1, FindsId
  <2> QED
    BY Zenon, <1>8, <2>1
<1> HIDE DEF data
<1>10. id = p.id
  <2>1. CASE p.id = -1
    <3>1. d = i
      BY <1>1, <2>1, FindsId
    <3>2. ~(data > idAt)
      BY <1>2, <1>8, <1>9, <3>1
    <3> QED
      BY Zenon, <2>1, <3>2
  <2>2. CASE p.id # -1
    <3>1. d > i /\ Value(f, i, d - 1) = p.id
      BY Zenon, <1>1, <2>2, FindsId
    <3> QED
      BY Zenon, <1>8, <1>9, <3>1
  <2> QED
    BY Zenon, <2>1, <2>2
<1> HIDE DEF id
<1>11. dt = p.data /\ (d <= Len(f) => d = Len(f) /\ f[d].k = "json" /\ f[d].v = p.data)
  <2>1. CASE p.data = Nil
    <3>1. d = Len(f) + 1
      BY Zenon, <1>1, <2>1, FindsData
    <3>2. ~(d <= Len(f))
      BY <1>2, <3>1
    <3> QED
      BY Zenon, <1>9, <2>1, <3>2
  <2>2. CASE p.data # Nil
    <3>1. d = Len(f) /\ f[d].k = "json" /\ f[d].v = p.data
      BY Zenon, <1>1, <2>2, FindsData
    <3>2. d <= Len(f)
      BY <1>2, <3>1
    <3> QED
      BY Zenon, <1>9, <3>1, <3>2
  <2> QED
    BY Zenon, <2>1, <2>2
<1> HIDE DEF dt
<1>12. ~bad
  <2>1. ~(Depth(p.data) > MaxJSONDepth)
    BY DEF Sendable
  <2> QED
    BY <1>2, <1>3, <1>4, <1>7, <1>9, <1>11, <2>1
<1> HIDE DEF bad
<1>13. Decode(f) = [type |-> p.type, ns |-> p.ns, id |-> p.id, data |-> p.data,
                    attachments |-> p.attachments, payloads |-> <<>>]
  BY Zenon, <1>3, <1>5, <1>7, <1>8, <1>10, <1>11, <1>12
<1> QED
  BY <1>13 DEF f

-------------------------------------------------------------------------------
(* Values, deconstructed and put together again.                           *)

\* A sequence has a length and its indices are those up to it.
LEMMA Lengths ==
  ASSUME NEW s, IsSequence(s)
  PROVE  Len(s) \in Nat /\ DOMAIN s = 1 .. Len(s)
<1>1. s \in Seq({s[i] : i \in DOMAIN s})
  BY DEF IsSequence
<1> DEFINE T == {s[i] : i \in DOMAIN s}
<1> HIDE DEF T
<1>2. s \in Seq(T)
  BY <1>1 DEF T
<1> QED
  BY <1>2

\* A path that begins with an index.
LEMMA IndexedPath ==
  ASSUME NEW i, NEW q, IsSequence(q)
  PROVE  /\ Head(<<i>> \o q) = i /\ Tail(<<i>> \o q) = q
<1> DEFINE T == {q[j] : j \in DOMAIN q} \union {i}
           a == <<i>>
<1>1. q \in Seq(T)
  <2> DEFINE U == {q[j] : j \in DOMAIN q}
  <2>1. q \in Seq(U)
    BY DEF IsSequence
  <2>2. U \subseteq T
    OBVIOUS
  <2> HIDE DEF T, U
  <2> QED
    BY <2>1, <2>2
<1>2. a \in Seq(T) /\ Len(a) = 1 /\ a[1] = i
  <2>1. i \in T
    OBVIOUS
  <2> HIDE DEF T
  <2> QED
    BY <2>1, SingleFacts
<1> HIDE DEF T, a
<1>3. /\ Len(q) \in Nat /\ Len(a \o q) = Len(q) + 1 /\ (a \o q)[1] = i
      /\ \A j \in 1 .. Len(q) : (a \o q)[j + 1] = q[j]
  <2>1. Len(q) \in Nat
    BY <1>1
  <2> DEFINE b == a \o q
  <2>2. b \in Seq(T) /\ Len(b) = Len(a) + Len(q) /\ Piece(b, Len(a) + 1, q)
    BY Zenon, <1>1, <1>2, PieceNext
  <2>3. Piece(b, 1, a)
    <3>1. Piece(a, 1, a) /\ 1 \in Nat \ {0}
      BY <1>2 DEF Piece
    <3> QED
      BY Zenon, <1>1, <1>2, <3>1, PieceKept
  <2> HIDE DEF b
  <2>4. Len(b) = Len(q) + 1
    BY <1>2, <2>1, <2>2
  <2>5. b[1] = i
    BY <1>2, <2>3 DEF Piece
  <2>6. ASSUME NEW j \in 1 .. Len(q) PROVE b[j + 1] = q[j]
    <3>1. Len(a) + 1 - 1 + j = j + 1
      BY <1>2, <2>1
    <3> QED
      BY <2>2, <3>1 DEF Piece
  <2> QED
    BY <2>1, <2>4, <2>5, <2>6 DEF b
<1>4. a \o q \in Seq(T) /\ a \o q # <<>>
  BY <1>1, <1>2
<1> DEFINE b == a \o q
<1> HIDE DEF b
<1>5. /\ b \in Seq(T) /\ b # <<>> /\ Len(b) = Len(q) + 1 /\ b[1] = i
      /\ \A j \in 1 .. Len(q) : b[j + 1] = q[j]
  BY <1>3, <1>4 DEF b
<1>6. Head(b) = i
  BY <1>5
<1>7. Tail(b) \in Seq(T) /\ Len(Tail(b)) = Len(q) /\ \A j \in 1 .. Len(q) : Tail(b)[j] = b[j + 1]
  BY <1>3, <1>5, HeadTailProperties
<1> DEFINE t == Tail(b)
<1> HIDE DEF t
<1>8. t = q
  <2>1. t \in Seq(T) /\ Len(t) = Len(q) /\ \A j \in 1 .. Len(q) : t[j] = q[j]
    BY <1>5, <1>7 DEF t
  <2> QED
    BY <1>1, <2>1, SeqEqual
<1> QED
  BY <1>6, <1>8 DEF t, b, a

\* The arguments of a message.
Values(values) == IsSequence(values) /\ \A i \in DOMAIN values : IsValue(values[i])

\* The leaves of an array are those of its values.
LEMMA ArrayFacts ==
  ASSUME NEW values, Values(values)
  PROVE  LET tree == Array(values) IN
         /\ tree = [path \in DOMAIN tree |-> tree[path]]
         /\ \A i \in DOMAIN values : \A q \in DOMAIN values[i] :
              <<i>> \o q \in DOMAIN tree /\ tree[<<i>> \o q] = values[i][q]
              /\ Head(<<i>> \o q) = i /\ Tail(<<i>> \o q) = q
         /\ \A p \in DOMAIN tree :
              \E i \in DOMAIN values : \E q \in DOMAIN values[i] : p = <<i>> \o q
         /\ \A p \in DOMAIN tree : IsLeaf(tree[p])
<1> DEFINE tree == Array(values)
           paths == UNION {{<<i>> \o p : p \in DOMAIN values[i]} : i \in DOMAIN values}
<1>1. tree = [p \in paths |-> values[Head(p)][Tail(p)]]
  BY Zenon DEF Array
<1>2. ASSUME NEW i \in DOMAIN values, NEW q \in DOMAIN values[i]
      PROVE  Head(<<i>> \o q) = i /\ Tail(<<i>> \o q) = q
  <2>1. IsSequence(q)
    BY DEF Values, IsValue
  <2> QED
    BY <2>1, IndexedPath
<1>3. \A i \in DOMAIN values : \A q \in DOMAIN values[i] : <<i>> \o q \in paths
  OBVIOUS
<1>4. \A p \in paths : \E i \in DOMAIN values : \E q \in DOMAIN values[i] : p = <<i>> \o q
  OBVIOUS
<1> HIDE DEF paths, tree
<1>5. DOMAIN tree = paths /\ \A p \in paths : tree[p] = values[Head(p)][Tail(p)]
  BY <1>1
<1>6. tree = [path \in DOMAIN tree |-> tree[path]]
  BY Zenon, <1>1, <1>5
<1>7. ASSUME NEW i \in DOMAIN values, NEW q \in DOMAIN values[i]
      PROVE  tree[<<i>> \o q] = values[i][q]
  <2> DEFINE p == <<i>> \o q
  <2>1. p \in paths /\ Head(p) = i /\ Tail(p) = q
    BY <1>2, <1>3
  <2> HIDE DEF p
  <2>2. tree[p] = values[i][q]
    BY <1>5, <2>1
  <2> QED
    BY <2>2 DEF p
<1>8. ASSUME NEW p \in DOMAIN tree PROVE IsLeaf(tree[p])
  <2>1. PICK i \in DOMAIN values : \E q \in DOMAIN values[i] : p = <<i>> \o q
    BY <1>4, <1>5
  <2>2. PICK q \in DOMAIN values[i] : p = <<i>> \o q
    BY <2>1
  <2>3. tree[p] = values[i][q]
    BY Zenon, <1>7, <2>2
  <2>4. IsLeaf(values[i][q])
    BY DEF Values, IsValue
  <2> QED
    BY Zenon, <2>3, <2>4
<1>9. /\ tree = [path \in DOMAIN tree |-> tree[path]]
      /\ \A i \in DOMAIN values : \A q \in DOMAIN values[i] :
           <<i>> \o q \in DOMAIN tree /\ tree[<<i>> \o q] = values[i][q]
           /\ Head(<<i>> \o q) = i /\ Tail(<<i>> \o q) = q
      /\ \A p \in DOMAIN tree :
           \E i \in DOMAIN values : \E q \in DOMAIN values[i] : p = <<i>> \o q
      /\ \A p \in DOMAIN tree : IsLeaf(tree[p])
  BY Zenon, <1>2, <1>3, <1>4, <1>5, <1>6, <1>7, <1>8
<1> QED
  BY Zenon, <1>9 DEF tree

\* An array has as many leaves as its values together.
LEMMA ArrayFinite ==
  ASSUME NEW values, Values(values)
  PROVE  IsFiniteSet(DOMAIN Array(values))
<1> DEFINE Of(i) == {<<i>> \o p : p \in DOMAIN values[i]}
           paths == UNION {Of(i) : i \in DOMAIN values}
<1>1. ASSUME NEW i \in DOMAIN values PROVE IsFiniteSet(Of(i))
  <2> DEFINE g == [p \in DOMAIN values[i] |-> <<i>> \o p]
  <2>1. g \in Surjection(DOMAIN values[i], Of(i))
    BY DEF Surjection
  <2>2. IsFiniteSet(DOMAIN values[i])
    BY DEF Values, IsValue
  <2> HIDE DEF g, Of
  <2> QED
    BY Zenon, <2>1, <2>2, FS_Surjection
<1>2. IsFiniteSet({Of(i) : i \in DOMAIN values})
  <2>1. IsFiniteSet(DOMAIN values)
    <3>1. Len(values) \in Nat /\ DOMAIN values = 1 .. Len(values)
      BY Lengths DEF Values
    <3>2. 1 \in Int /\ Len(values) \in Int
      BY <3>1
    <3> QED
      BY <3>1, <3>2, FS_Interval
  <2> DEFINE g == [i \in DOMAIN values |-> Of(i)]
             R == {Of(i) : i \in DOMAIN values}
  <2>2. g \in Surjection(DOMAIN values, R)
    <3> HIDE DEF Of
    <3> QED
      BY DEF Surjection
  <2> HIDE DEF g, R
  <2>3. IsFiniteSet(R)
    BY Zenon, <2>1, <2>2, FS_Surjection
  <2> QED
    BY <2>3 DEF R
<1>3. IsFiniteSet(paths)
  <2> DEFINE R == {Of(i) : i \in DOMAIN values}
  <2>1. \A X \in R : IsFiniteSet(X)
    <3> HIDE DEF Of
    <3> QED
      BY <1>1
  <2>2. IsFiniteSet(R)
    BY <1>2
  <2> HIDE DEF R
  <2>3. IsFiniteSet(UNION R)
    BY Zenon, <2>1, <2>2, FS_UNION
  <2> QED
    BY <2>3 DEF R
<1>4. DOMAIN Array(values) = paths
  BY DEF Array
<1> QED
  BY <1>3, <1>4

\* A value, or an array of any number of values.
Tree(tree) ==
  /\ tree = [path \in DOMAIN tree |-> tree[path]] /\ IsFiniteSet(DOMAIN tree)
  /\ \A path \in DOMAIN tree : IsLeaf(tree[path])

\* There is one attachment for each []byte value.
LEMMA BuffersFacts ==
  ASSUME NEW tree, Tree(tree), NEW num
  PROVE  /\ IsSequence(Buffers(tree, num))
         /\ Len(Buffers(tree, num)) = Cardinality(BytesIn(tree))
         /\ Cardinality(BytesIn(tree)) \in Nat
<1> DEFINE n == Cardinality(BytesIn(tree))
           b == Buffers(tree, num)
           T == {b[i] : i \in 1 .. n}
           g(i) == tree[CHOOSE p \in BytesIn(tree) : num[p] = i - 1].v
<1>1. n \in Nat
  <2>1. BytesIn(tree) \in SUBSET (DOMAIN tree) /\ IsFiniteSet(DOMAIN tree)
    BY DEF BytesIn, Tree
  <2>2. IsFiniteSet(BytesIn(tree))
    BY Zenon, <2>1, FS_Subset
  <2> QED
    BY Zenon, <2>2, FS_CardinalityType
<1>2. b = [i \in 1 .. n |-> g(i)]
  BY DEF Buffers
<1> HIDE DEF n, b, g
<1>3. DOMAIN b = 1 .. n /\ b \in [1 .. n -> T]
  BY <1>2
<1>4. b \in Seq(T) /\ Len(b) = n
  <2> HIDE DEF T
  <2> QED
    BY <1>1, <1>3
<1>5. T = {b[i] : i \in DOMAIN b}
  BY <1>3
<1>6. IsSequence(b)
  BY Zenon, <1>4, <1>5 DEF IsSequence
<1> QED
  BY Zenon, <1>1, <1>4, <1>6 DEF n, b

\* What a placeholder is put back for is what it was put for, however the []byte
\* values were numbered.  (deconstructNode and reconstructNode.)
THEOREM ReconstructUndoesDeconstruct ==
  ASSUME NEW tree, Tree(tree), NEW num \in Numberings(tree)
  PROVE  SameValues(tree, Reconstruct(Deconstruct(tree, num), Buffers(tree, num)))
<1> DEFINE d == Deconstruct(tree, num)
           b == Buffers(tree, num)
           n == Cardinality(BytesIn(tree))
           r == Reconstruct(d, b)
<1>1. n \in Nat /\ Len(b) = n
  BY Zenon, BuffersFacts
<1>2. /\ \A p \in BytesIn(tree) : num[p] \in 0 .. n - 1
      /\ \A p, q \in BytesIn(tree) : num[p] = num[q] => p = q
  BY DEF Numberings
<1>3. DOMAIN d = DOMAIN tree
      /\ \A p \in DOMAIN tree : d[p] = IF p \in BytesIn(tree) THEN Hole(num[p]) ELSE tree[p]
  BY DEF Deconstruct
<1>4. \A i \in 1 .. n : b[i] = tree[CHOOSE p \in BytesIn(tree) : num[p] = i - 1].v
  BY DEF Buffers
<1> HIDE DEF d, b, n
<1>5. DOMAIN r = DOMAIN tree
      /\ \A p \in DOMAIN tree :
           r[p] = IF d[p].kind = "hole" /\ d[p].v \in 0 .. Len(b) - 1
                  THEN Bytes(b[d[p].v + 1]) ELSE d[p]
  BY <1>3 DEF Reconstruct
<1> HIDE DEF r
<1>6. ASSUME NEW p \in DOMAIN tree, tree[p].kind # "hole" PROVE tree[p] = r[p]
  <2>1. CASE p \in BytesIn(tree)
    <3>1. d[p] = Hole(num[p])
      BY <1>3, <2>1
    <3>2. d[p].kind = "hole" /\ d[p].v = num[p]
      BY <3>1 DEF Hole
    <3>3. num[p] \in 0 .. n - 1 /\ num[p] + 1 \in 1 .. n /\ (num[p] + 1) - 1 = num[p]
      BY <1>1, <1>2, <2>1
    <3>4. r[p] = Bytes(b[num[p] + 1])
      BY <1>1, <1>5, <3>2, <3>3
    <3> DEFINE q == CHOOSE q \in BytesIn(tree) : num[q] = num[p]
    <3>5. b[num[p] + 1] = tree[q].v
      <4> DEFINE k == num[p]
      <4> HIDE DEF k
      <4>1. k + 1 \in 1 .. n /\ (k + 1) - 1 = k
        BY <3>3 DEF k
      <4>2. b[k + 1] = tree[CHOOSE q1 \in BytesIn(tree) : num[q1] = (k + 1) - 1].v
        BY Zenon, <1>4, <4>1
      <4> QED
        BY Zenon, <4>1, <4>2 DEF k
    <3>6. q = p
      BY Zenon, <1>2, <2>1
    <3> HIDE DEF q
    <3>7. tree[p] = Bytes(tree[p].v)
      <4>1. tree[p].kind = "bytes"
        BY <2>1 DEF BytesIn
      <4>2. IsLeaf(tree[p])
        BY DEF Tree
      <4> DEFINE l == tree[p]
      <4> HIDE DEF l
      <4>3. l \in {Text(l.v), Bytes(l.v), Hole(l.v)} /\ l.kind = "bytes"
        BY Zenon, <4>1, <4>2 DEF IsLeaf, l
      <4>4. Text(l.v).kind = "text" /\ Hole(l.v).kind = "hole"
        BY DEF Text, Hole
      <4>5. l = Bytes(l.v)
        BY <4>3, <4>4
      <4> QED
        BY <4>5 DEF l
    <3> QED
      BY Zenon, <3>4, <3>5, <3>6, <3>7
  <2>2. CASE p \notin BytesIn(tree)
    <3>1. d[p] = tree[p]
      BY <1>3, <2>2
    <3> QED
      BY <1>5, <1>6, <3>1
  <2> QED
    BY <2>1, <2>2
<1> QED
  BY Zenon, <1>5, <1>6 DEF SameValues, r, d, b

\* An array of values is a tree.
LEMMA ArrayTree ==
  ASSUME NEW values, Values(values)
  PROVE  Tree(Array(values))
BY Zenon, ArrayFacts, ArrayFinite DEF Tree

\* The name of an event followed by its arguments.
Named(name, args) == <<Scalar(Text(name))>> \o args

\* The name of an event is a value before its arguments.
LEMMA NamedValues ==
  ASSUME NEW name, NEW args, Values(args), NEW vs, vs = Named(name, args)
  PROVE  /\ Values(vs) /\ DOMAIN vs = 1 .. Len(args) + 1 /\ Len(args) \in Nat
         /\ vs[1] = Scalar(Text(name))
         /\ \A i \in 1 .. Len(args) : vs[i + 1] = args[i]
<1> DEFINE x == Scalar(Text(name))
           a == <<x>>
           T == {args[i] : i \in DOMAIN args} \union {x}
<1>1. args \in Seq(T)
  <2> DEFINE U == {args[i] : i \in DOMAIN args}
  <2>1. args \in Seq(U) /\ U \subseteq T
    BY DEF IsSequence, Values
  <2> HIDE DEF T, U
  <2> QED
    BY <2>1
<1>2. Len(args) \in Nat /\ DOMAIN args = 1 .. Len(args)
  BY Lengths DEF Values
<1>3. IsValue(x)
  <2>1. DOMAIN x = {<<>>} /\ x = [path \in DOMAIN x |-> x[path]] /\ x[<<>>] = Text(name)
    BY DEF Scalar
  <2>2. IsFiniteSet({<<>>})
    BY FS_Singleton
  <2>3. IsSequence(<<>>)
    BY DEF IsSequence
  <2>4. Text(name).v = name
    BY DEF Text
  <2>5. IsLeaf(Text(name))
    BY Zenon, <2>4 DEF IsLeaf
  <2> HIDE DEF x
  <2> QED
    BY Zenon, <2>1, <2>2, <2>3, <2>5 DEF IsValue
<1>4. \A i \in 1 .. Len(args) : IsValue(args[i])
  BY <1>2 DEF Values
<1>5. x \in T
  OBVIOUS
<1> HIDE DEF x, T
<1>6. a \in Seq(T) /\ Len(a) = 1 /\ a[1] = x
  BY Zenon, <1>5, SingleFacts
<1>15. vs = a \o args
  BY DEF Named, x
<1> HIDE DEF a
<1>7. vs \in Seq(T) /\ Len(vs) = Len(a) + Len(args) /\ Piece(vs, Len(a) + 1, args)
  <2> DEFINE w == a \o args
  <2>1. w \in Seq(T) /\ Len(w) = Len(a) + Len(args) /\ Piece(w, Len(a) + 1, args)
    BY Zenon, <1>1, <1>6, PieceNext
  <2> HIDE DEF w
  <2> QED
    BY Zenon, <1>15, <2>1 DEF w
<1>8. Piece(vs, 1, a)
  <2>1. Piece(a, 1, a) /\ 1 \in Nat \ {0}
    BY <1>6 DEF Piece
  <2>2. Piece(a \o args, 1, a)
    BY Zenon, <1>1, <1>6, <2>1, PieceKept
  <2> QED
    BY Zenon, <1>15, <2>2
<1>9. vs[1] = x
  BY <1>6, <1>8 DEF Piece
<1>10. ASSUME NEW i \in 1 .. Len(args) PROVE vs[i + 1] = args[i]
  <2>1. Len(a) + 1 - 1 + i = i + 1
    BY <1>2, <1>6
  <2> QED
    BY <1>7, <2>1 DEF Piece
<1>11. DOMAIN vs = 1 .. Len(args) + 1
  BY <1>2, <1>6, <1>7
<1>12. ASSUME NEW i \in DOMAIN vs PROVE IsValue(vs[i])
  <2>1. CASE i = 1
    BY Zenon, <1>3, <1>9, <2>1
  <2>2. CASE i # 1
    <3>1. i - 1 \in 1 .. Len(args) /\ (i - 1) + 1 = i
      BY <1>2, <1>11, <2>2
    <3>2. vs[i] = args[i - 1]
      BY <1>10, <3>1
    <3> QED
      BY <1>4, <3>1, <3>2
  <2> QED
    BY <2>1, <2>2
<1>13. IsSequence(vs)
  BY <1>7 DEF IsSequence
<1>14. Values(vs)
  BY Zenon, <1>12, <1>13 DEF Values
<1> QED
  BY Zenon, <1>2, <1>9, <1>10, <1>11, <1>14 DEF x

\* The greatest of a set.
LEMMA MaxIs ==
  ASSUME NEW S, NEW x \in S, S \subseteq Nat, \A y \in S : y <= x
  PROVE  Max(S) = x
<1>1. Max(S) = CHOOSE a \in S : \A b \in S : a >= b
  BY DEF Max
<1>2. \A a \in S : (\A b \in S : a >= b) => a = x
  OBVIOUS
<1>3. x \in S /\ \A b \in S : x >= b
  OBVIOUS
<1> QED
  BY <1>1, <1>2, <1>3

\* For any name and arguments, EventName and EventArgs give back what an event's data
\* was put together from.  (NewEventPacket, EventName and EventArgs.)
THEOREM EventTakenApart ==
  ASSUME NEW name, NEW args, Values(args), NEW data, data = Array(<<Scalar(Text(name))>> \o args)
  PROVE  HasName(data) /\ EventName(data) = name /\ EventArgs(data) = args
<1> DEFINE vs == <<Scalar(Text(name))>> \o args
           x == Scalar(Text(name))
           n == Len(args)
<1>1. /\ Values(vs) /\ DOMAIN vs = 1 .. n + 1 /\ n \in Nat /\ vs[1] = x
      /\ \A i \in 1 .. n : vs[i + 1] = args[i]
  <2>1. vs = Named(name, args)
    BY Zenon DEF Named
  <2> HIDE DEF vs, x
  <2>2. /\ Values(vs) /\ DOMAIN vs = 1 .. Len(args) + 1 /\ Len(args) \in Nat
        /\ vs[1] = Scalar(Text(name)) /\ \A i \in 1 .. Len(args) : vs[i + 1] = args[i]
    BY <2>1, NamedValues
  <2> QED
    BY Zenon, <2>2 DEF x
<1> HIDE DEF vs
<1>2. /\ \A i \in DOMAIN vs : \A q \in DOMAIN vs[i] :
           <<i>> \o q \in DOMAIN data /\ data[<<i>> \o q] = vs[i][q]
           /\ Head(<<i>> \o q) = i /\ Tail(<<i>> \o q) = q
      /\ \A p \in DOMAIN data : \E i \in DOMAIN vs : \E q \in DOMAIN vs[i] : p = <<i>> \o q
  <2> DEFINE tree == Array(vs)
  <2>1. /\ \A i \in DOMAIN vs : \A q \in DOMAIN vs[i] :
             <<i>> \o q \in DOMAIN tree /\ tree[<<i>> \o q] = vs[i][q]
             /\ Head(<<i>> \o q) = i /\ Tail(<<i>> \o q) = q
        /\ \A p \in DOMAIN tree : \E i \in DOMAIN vs : \E q \in DOMAIN vs[i] : p = <<i>> \o q
    BY ONLY <1>1, ArrayFacts, Zenon
  <2>2. data = tree
    BY DEF vs
  <2> HIDE DEF tree
  <2> QED
    BY <2>1, <2>2
<1>3. DOMAIN x = {<<>>} /\ x[<<>>] = Text(name)
  BY DEF Scalar
<1>4. <<1>> \o <<>> = <<1>>
  OBVIOUS
<1> HIDE DEF x, n
<1>5. <<1>> \in DOMAIN data /\ data[<<1>>] = Text(name)
  <2>1. 1 \in DOMAIN vs /\ <<>> \in DOMAIN vs[1] /\ vs[1][<<>>] = Text(name)
    BY <1>1, <1>3
  <2>2. <<1>> \o <<>> \in DOMAIN data /\ data[<<1>> \o <<>>] = vs[1][<<>>]
    BY Zenon, <1>2, <2>1
  <2> QED
    BY Zenon, <1>4, <2>1, <2>2
<1>6. HasName(data) /\ EventName(data) = name
  BY <1>5 DEF HasName, EventName, Text
<1> DEFINE paths == {p \in DOMAIN data : Head(p) > 1}
           heads == {Head(p) : p \in paths}
           last  == IF paths = {} THEN 1 ELSE Max(heads)
           tails(i) == {Tail(p) : p \in {p \in paths : Head(p) = i + 1}}
           arg(i) == [q \in tails(i) |-> data[<<i + 1>> \o q]]
<1>7. EventArgs(data) = [i \in 1 .. last - 1 |-> arg(i)]
  BY Zenon DEF EventArgs
<1>8. ASSUME NEW i \in 1 .. n
      PROVE  /\ IsValue(args[i]) /\ i + 1 \in DOMAIN vs /\ i + 1 > 1 /\ vs[i + 1] = args[i]
             /\ \A q \in DOMAIN args[i] :
                  <<i + 1>> \o q \in paths /\ data[<<i + 1>> \o q] = args[i][q]
                  /\ Head(<<i + 1>> \o q) = i + 1 /\ Tail(<<i + 1>> \o q) = q
  <2>1. i + 1 \in DOMAIN vs /\ i + 1 > 1 /\ vs[i + 1] = args[i]
    BY <1>1
  <2>2. IsValue(args[i])
    BY <2>1, <1>1 DEF Values
  <2> DEFINE j == i + 1
  <2>3. j \in DOMAIN vs /\ j > 1 /\ vs[j] = args[i]
    BY <2>1
  <2> HIDE DEF j
  <2>4. ASSUME NEW q \in DOMAIN args[i]
        PROVE  /\ <<j>> \o q \in paths /\ data[<<j>> \o q] = args[i][q]
               /\ Head(<<j>> \o q) = j /\ Tail(<<j>> \o q) = q
    <3>1. <<j>> \o q \in DOMAIN data /\ data[<<j>> \o q] = vs[j][q]
          /\ Head(<<j>> \o q) = j /\ Tail(<<j>> \o q) = q
      BY Zenon, <1>2, <2>3
    <3>2. Head(<<j>> \o q) > 1
      BY Zenon, <2>3, <3>1
    <3>3. <<j>> \o q \in paths
      BY Zenon, <3>1, <3>2
    <3> QED
      BY Zenon, <2>3, <3>1, <3>3
  <2> QED
    BY Zenon, <2>1, <2>2, <2>4 DEF j
<1>9. \A p \in paths :
        \E i \in 1 .. n : \E q \in DOMAIN args[i] :
          p = <<i + 1>> \o q /\ Head(p) = i + 1 /\ Tail(p) = q
  <2> TAKE p \in paths
  <2>1. PICK j \in DOMAIN vs : \E q \in DOMAIN vs[j] : p = <<j>> \o q
    BY Zenon, <1>2
  <2>2. PICK q \in DOMAIN vs[j] : p = <<j>> \o q
    BY Zenon, <2>1
  <2>3. Head(p) = j /\ Tail(p) = q
    BY Zenon, <1>2, <2>2
  <2>4. j > 1
    BY Zenon, <2>3
  <2>5. j - 1 \in 1 .. n /\ (j - 1) + 1 = j
    BY <1>1, <2>4
  <2>6. vs[j] = args[j - 1]
    <3> DEFINE k == j - 1
    <3>1. k \in 1 .. n /\ k + 1 = j
      BY <2>5
    <3> HIDE DEF k
    <3>2. vs[k + 1] = args[k]
      BY Zenon, <1>1, <3>1
    <3> QED
      BY Zenon, <3>1, <3>2 DEF k
  <2> QED
    BY Zenon, <2>2, <2>3, <2>5, <2>6
<1>10. last - 1 = n
  <2>1. CASE n = 0
    <3>1. paths = {}
      <4>1. 1 .. n = {}
        BY <2>1
      <4> HIDE DEF paths
      <4> QED
        BY <1>9, <4>1
    <3> HIDE DEF paths
    <3> QED
      BY <2>1, <3>1
  <2>2. CASE n # 0
    <3>1. n \in 1 .. n
      BY <1>1, <2>2
    <3>2. PICK q : q \in DOMAIN args[n]
      BY <1>8, <3>1 DEF IsValue
    <3>3. <<n + 1>> \o q \in paths /\ Head(<<n + 1>> \o q) = n + 1
      BY Zenon, <1>8, <3>1, <3>2
    <3>4. n + 1 \in heads /\ paths # {}
      <4> HIDE DEF paths
      <4> QED
        BY Zenon, <3>3
    <3>5. \A y \in heads : y \in Nat /\ y <= n + 1
      <4> SUFFICES ASSUME NEW p \in paths PROVE Head(p) \in Nat /\ Head(p) <= n + 1
        BY Zenon
      <4>1. PICK i \in 1 .. n : Head(p) = i + 1
        BY Zenon, <1>9
      <4> QED
        BY <1>1, <4>1
    <3> HIDE DEF heads, paths
    <3>6. Max(heads) = n + 1
      BY <3>4, <3>5, MaxIs
    <3>7. last = n + 1
      BY Zenon, <3>4, <3>6
    <3> HIDE DEF last
    <3> QED
      BY <1>1, <3>7
  <2> QED
    BY <2>1, <2>2
<1> HIDE DEF paths, last
<1>11. ASSUME NEW i \in 1 .. n PROVE arg(i) = args[i]
  <2>1. tails(i) = DOMAIN args[i]
    <3>1. ASSUME NEW q \in DOMAIN args[i] PROVE q \in tails(i)
      BY Zenon, <1>8
    <3>2. ASSUME NEW q \in tails(i) PROVE q \in DOMAIN args[i]
      <4>1. PICK p \in paths : Head(p) = i + 1 /\ q = Tail(p)
        BY Zenon
      <4>2. PICK k \in 1 .. n : \E q2 \in DOMAIN args[k] : Head(p) = k + 1 /\ Tail(p) = q2
        BY Zenon, <1>9
      <4>3. k = i
        BY <1>1, <4>1, <4>2
      <4> QED
        BY Zenon, <4>1, <4>2, <4>3
    <3> HIDE DEF tails
    <3> QED
      BY Zenon, <3>1, <3>2
  <2>2. args[i] = [q \in DOMAIN args[i] |-> args[i][q]]
    BY Zenon, <1>8 DEF IsValue
  <2>3. ASSUME NEW q \in DOMAIN args[i] PROVE data[<<i + 1>> \o q] = args[i][q]
    BY Zenon, <1>8
  <2> HIDE DEF tails
  <2>4. arg(i) = [q \in DOMAIN args[i] |-> args[i][q]]
    BY Zenon, <2>1, <2>3
  <2> QED
    BY Zenon, <2>2, <2>4
<1>12. args = [i \in 1 .. n |-> args[i]]
  <2>1. IsSequence(args) /\ DOMAIN args = 1 .. n
    BY Lengths DEF Values, n
  <2> DEFINE T == {args[i] : i \in DOMAIN args}
  <2>2. args \in Seq(T)
    BY <2>1 DEF IsSequence
  <2> HIDE DEF T
  <2> QED
    BY <2>1, <2>2
<1> HIDE DEF arg
<1>13. EventArgs(data) = [i \in 1 .. n |-> args[i]]
  BY Zenon, <1>7, <1>10, <1>11
<1> QED
  BY Zenon, <1>6, <1>12, <1>13

\* A packet is the record of its fields (type Packet).
HasFields(p) ==
  p = [type |-> p.type, ns |-> p.ns, id |-> p.id, data |-> p.data,
       attachments |-> p.attachments, payloads |-> p.payloads]

\* What every packet built for a message is.
WellBuilt(p, m) ==
  /\ HasFields(p)
  /\ Sendable(p) /\ IsSequence(p.payloads) /\ Len(p.payloads) = p.attachments
  /\ p.type \in TypesOf(m) /\ p.ns = m.ns /\ p.id = m.id
  /\ SameValues(Original(m), ReconstructedData(p))
  /\ p.type = EVENT => HasName(p.data) /\ EventName(p.data) = m.name /\ EventArgs(p.data) = m.args

\* Made by Packet.
Made(p, type, ns, id, data, payloads) == p = Packet(type, ns, id, data, payloads)

\* A namespace as NewEventPacket and the others are given it.
NotEmpty(ns) == ns # ""

\* Packet keeps what it is given.
LEMMA PacketFields ==
  ASSUME NEW type, NEW ns, NotEmpty(ns), NEW id, NEW data, NEW payloads, NEW p,
         Made(p, type, ns, id, data, payloads)
  PROVE  /\ HasFields(p)
         /\ p.type = type /\ p.ns = ns /\ p.id = id /\ p.data = data
         /\ p.attachments = Len(payloads) /\ p.payloads = payloads
BY DEF Packet, Made, HasFields, NotEmpty

\* The types of a packet, as numbers.
LEMMA TypeNumbers ==
  /\ CONNECT = 0 /\ DISCONNECT = 1 /\ EVENT = 2 /\ ACK = 3 /\ CONNECT_ERROR = 4
  /\ BINARY_EVENT = 5 /\ BINARY_ACK = 6
BY DEF CONNECT, DISCONNECT, EVENT, ACK, CONNECT_ERROR, BINARY_EVENT, BINARY_ACK

\* A packet without binary data, and one with.
LEMMA PlainPacket ==
  ASSUME NEW type \in {EVENT, ACK, CONNECT, CONNECT_ERROR}, NEW tree, NEW p,
         p.type = type, p.data = tree, p.attachments = Len(<<>>), p.payloads = <<>>
  PROVE  /\ p.type \in CONNECT .. BINARY_ACK /\ ~IsBinary(p) /\ p.attachments = 0
         /\ IsSequence(p.payloads) /\ Len(p.payloads) = p.attachments
         /\ SameValues(tree, ReconstructedData(p))
<1>1. p.type \in CONNECT .. BINARY_ACK /\ ~IsBinary(p)
  BY TypeNumbers DEF IsBinary
<1>2. p.attachments = 0
  BY EmptyFacts
<1>3. IsSequence(p.payloads)
  BY DEF IsSequence
<1>4. ReconstructedData(p) = tree
  BY <1>1 DEF ReconstructedData
<1>5. SameValues(tree, tree)
  BY DEF SameValues
<1> QED
  BY Zenon, <1>1, <1>2, <1>3, <1>4, <1>5

\* A packet with binary data has a placeholder for each attachment.
LEMMA BinaryPacket ==
  ASSUME NEW type \in {BINARY_EVENT, BINARY_ACK}, NEW tree, Tree(tree),
         NEW num \in Numberings(tree), NEW p,
         p.type = type, p.data = Deconstruct(tree, num),
         p.payloads = Buffers(tree, num), p.attachments = Len(Buffers(tree, num))
  PROVE  /\ p.type \in CONNECT .. BINARY_ACK /\ IsBinary(p) /\ p.attachments \in Nat
         /\ IsSequence(p.payloads) /\ Len(p.payloads) = p.attachments
         /\ SameValues(tree, ReconstructedData(p))
<1>1. p.type \in CONNECT .. BINARY_ACK /\ IsBinary(p)
  BY TypeNumbers DEF IsBinary
<1>2. /\ IsSequence(Buffers(tree, num)) /\ Len(Buffers(tree, num)) \in Nat
  BY BuffersFacts
<1>3. p.attachments \in Nat /\ IsSequence(p.payloads) /\ Len(p.payloads) = p.attachments
  BY Zenon, <1>2
<1>4. IsComplete(p)
  BY <1>3 DEF IsComplete
<1>5. ReconstructedData(p) = Reconstruct(Deconstruct(tree, num), Buffers(tree, num))
  BY Zenon, <1>1, <1>4 DEF ReconstructedData
<1>6. SameValues(tree, Reconstruct(Deconstruct(tree, num), Buffers(tree, num)))
  BY Zenon, ReconstructUndoesDeconstruct
<1> QED
  BY Zenon, <1>1, <1>3, <1>5, <1>6

\* Packets are built for what they say.  (NewEventPacket, NewAckPacket and the rest.)
LEMMA BuiltWell ==
  ASSUME NEW m \in Messages, NEW p \in Build(m)
  PROVE  WellBuilt(p, m)
<1>1. /\ m.kind \in {"event", "ack", "connect", "refusal"} /\ NotEmpty(m.ns)
      /\ m.id \in Nat \union {-1} /\ (m.kind \notin {"event", "ack"} => m.id = -1)
      /\ m.kind \in {"event", "ack"} => Values(m.args)
      /\ p.attachments <= MaxAttachments /\ ~(Depth(p.data) > MaxJSONDepth)
  <2>1. /\ m.kind \in {"event", "ack", "connect", "refusal"} /\ NotEmpty(m.ns)
        /\ m.id \in Nat \union {-1} /\ (m.kind \notin {"event", "ack"} => m.id = -1)
    BY TransferAssumption DEF NotEmpty
  <2>2. m.kind \in {"event", "ack"} => Values(m.args)
    BY Zenon, TransferAssumption DEF Values
  <2>3. p.attachments <= MaxAttachments /\ ~(Depth(p.data) > MaxJSONDepth)
    BY Zenon, TransferAssumption
  <2> QED
    BY Zenon, <2>1, <2>2, <2>3
<1> DEFINE Fields == HasFields(p) /\ p.ns = m.ns /\ p.id = m.id
           Sound(binary) ==
             /\ p.type \in CONNECT .. BINARY_ACK /\ (IsBinary(p) <=> binary)
             /\ p.attachments \in Nat /\ (~binary => p.attachments = 0)
             /\ IsSequence(p.payloads) /\ Len(p.payloads) = p.attachments
             /\ SameValues(Original(m), ReconstructedData(p))
           Handled == p.type = EVENT =>
             HasName(p.data) /\ EventName(p.data) = m.name /\ EventArgs(p.data) = m.args
<1>2. ASSUME Fields, NEW binary \in BOOLEAN, Sound(binary), p.type \in TypesOf(m), Handled
      PROVE  WellBuilt(p, m)
  <2>1. Sendable(p)
    BY <1>1, <1>2 DEF Sendable
  <2> QED
    BY Zenon, <1>2, <2>1 DEF WellBuilt
<1> DEFINE Is(type, data, payloads) == Made(p, type, m.ns, m.id, data, payloads)
<1>3. ASSUME NEW type \in {EVENT, ACK, CONNECT, CONNECT_ERROR}, NEW tree, Is(type, tree, <<>>),
             Original(m) = tree
      PROVE  Fields /\ Sound(FALSE) /\ p.type = type /\ p.data = tree
  <2>1. Fields /\ p.type = type /\ p.data = tree /\ p.attachments = Len(<<>>) /\ p.payloads = <<>>
    <3>1. NotEmpty(m.ns)
      BY Zenon, <1>1
    <3>2. Made(p, type, m.ns, m.id, tree, <<>>)
      BY Zenon, <1>3
    <3> QED
      BY ONLY <3>1, <3>2, PacketFields
  <2>2. /\ p.type \in CONNECT .. BINARY_ACK /\ ~IsBinary(p) /\ p.attachments = 0
        /\ IsSequence(p.payloads) /\ Len(p.payloads) = p.attachments
        /\ SameValues(tree, ReconstructedData(p))
    BY Zenon, <2>1, PlainPacket
  <2>3. 0 \in Nat
    OBVIOUS
  <2> QED
    BY Zenon, <1>3, <2>1, <2>2, <2>3
<1>4. ASSUME NEW type \in {BINARY_EVENT, BINARY_ACK}, NEW tree, Tree(tree),
             NEW num \in Numberings(tree), Original(m) = tree,
             Is(type, Deconstruct(tree, num), Buffers(tree, num))
      PROVE  Fields /\ Sound(TRUE) /\ p.type = type
  <2>1. /\ Fields /\ p.type = type /\ p.data = Deconstruct(tree, num)
        /\ p.attachments = Len(Buffers(tree, num)) /\ p.payloads = Buffers(tree, num)
    <3>1. NotEmpty(m.ns)
      BY Zenon, <1>1
    <3>2. Made(p, type, m.ns, m.id, Deconstruct(tree, num), Buffers(tree, num))
      BY Zenon, <1>4
    <3> QED
      BY ONLY <3>1, <3>2, PacketFields
  <2>2. /\ p.type \in CONNECT .. BINARY_ACK /\ IsBinary(p) /\ p.attachments \in Nat
        /\ IsSequence(p.payloads) /\ Len(p.payloads) = p.attachments
        /\ SameValues(tree, ReconstructedData(p))
    BY <1>4, <2>1, BinaryPacket
  <2> QED
    BY Zenon, <1>4, <2>1, <2>2
<1> HIDE DEF Fields, Sound, Handled
<1>5. CASE m.kind = "event"
  <2> DEFINE tree == Array(<<Scalar(Text(m.name))>> \o m.args)
  <2>1. Original(m) = tree /\ TypesOf(m) = {EVENT, BINARY_EVENT}
    BY <1>5 DEF Original, TypesOf
  <2>2. Values(m.args)
    BY <1>1, <1>5
  <2>3. Tree(tree)
    <3> DEFINE vs == <<Scalar(Text(m.name))>> \o m.args
    <3>1. vs = Named(m.name, m.args)
      BY Zenon DEF Named
    <3> HIDE DEF vs
    <3>2. Values(vs)
      BY <2>2, <3>1, NamedValues
    <3>3. Tree(Array(vs))
      BY Zenon, <3>2, ArrayTree
    <3> QED
      BY <3>3 DEF vs
  <2>4. /\ BytesIn(tree) = {} => Is(EVENT, tree, <<>>)
        /\ BytesIn(tree) # {} => \E num \in Numberings(tree) :
              Is(BINARY_EVENT, Deconstruct(tree, num), Buffers(tree, num))
    <3>1. p \in NewEventPackets(m.ns, m.name, m.id, m.args)
      BY <1>5 DEF Build
    <3>2. p \in IF BytesIn(tree) = {} THEN {Packet(EVENT, m.ns, m.id, tree, <<>>)}
                ELSE {Packet(BINARY_EVENT, m.ns, m.id, Deconstruct(tree, num), Buffers(tree, num)) :
                        num \in Numberings(tree)}
      BY Zenon, <3>1 DEF NewEventPackets
    <3> HIDE DEF tree
    <3> QED
      BY Zenon, <3>2 DEF Made
  <2>5. ASSUME NEW data, data = tree
        PROVE  HasName(data) /\ EventName(data) = m.name /\ EventArgs(data) = m.args
    BY Zenon, <2>2, <2>5, EventTakenApart
  <2> HIDE DEF tree
  <2>6. CASE BytesIn(tree) = {}
    <3>1. Is(EVENT, tree, <<>>)
      BY Zenon, <2>4, <2>6
    <3>2. Fields /\ Sound(FALSE) /\ p.type = EVENT /\ p.data = tree
      BY Zenon, <1>3, <2>1, <3>1
    <3>3. Handled
      BY Zenon, <2>5, <3>2 DEF Handled
    <3> QED
      BY Zenon, <1>2, <2>1, <3>2, <3>3
  <2>7. CASE BytesIn(tree) # {}
    <3>1. PICK num \in Numberings(tree) : Is(BINARY_EVENT, Deconstruct(tree, num), Buffers(tree, num))
      BY Zenon, <2>4, <2>7
    <3>2. Fields /\ Sound(TRUE) /\ p.type = BINARY_EVENT
      BY Zenon, <1>4, <2>1, <2>3, <3>1
    <3>3. Handled
      BY <3>2, TypeNumbers DEF Handled
    <3> QED
      BY Zenon, <1>2, <2>1, <3>2, <3>3
  <2> QED
    BY Zenon, <2>6, <2>7
<1>6. CASE m.kind = "ack"
  <2> DEFINE tree == Array(m.args)
  <2>1. Original(m) = tree /\ TypesOf(m) = {ACK, BINARY_ACK}
    BY <1>6 DEF Original, TypesOf
  <2>2. Values(m.args)
    BY <1>1, <1>6
  <2>3. Tree(tree)
    BY Zenon, <2>2, ArrayTree
  <2>4. /\ BytesIn(tree) = {} => Is(ACK, tree, <<>>)
        /\ BytesIn(tree) # {} => \E num \in Numberings(tree) :
              Is(BINARY_ACK, Deconstruct(tree, num), Buffers(tree, num))
    <3>1. p \in NewAckPackets(m.ns, m.id, m.args)
      BY <1>6 DEF Build
    <3>2. p \in IF BytesIn(tree) = {} THEN {Packet(ACK, m.ns, m.id, tree, <<>>)}
                ELSE {Packet(BINARY_ACK, m.ns, m.id, Deconstruct(tree, num), Buffers(tree, num)) :
                        num \in Numberings(tree)}
      BY Zenon, <3>1 DEF NewAckPackets
    <3> HIDE DEF tree
    <3> QED
      BY Zenon, <3>2 DEF Made
  <2> HIDE DEF tree
  <2>6. CASE BytesIn(tree) = {}
    <3>1. Is(ACK, tree, <<>>)
      BY Zenon, <2>4, <2>6
    <3>2. Fields /\ Sound(FALSE) /\ p.type = ACK
      BY Zenon, <1>3, <2>1, <3>1
    <3>3. Handled
      BY <3>2, TypeNumbers DEF Handled
    <3> QED
      BY Zenon, <1>2, <2>1, <3>2, <3>3
  <2>7. CASE BytesIn(tree) # {}
    <3>1. PICK num \in Numberings(tree) : Is(BINARY_ACK, Deconstruct(tree, num), Buffers(tree, num))
      BY Zenon, <2>4, <2>7
    <3>2. Fields /\ Sound(TRUE) /\ p.type = BINARY_ACK
      BY Zenon, <1>4, <2>1, <2>3, <3>1
    <3>3. Handled
      BY <3>2, TypeNumbers DEF Handled
    <3> QED
      BY Zenon, <1>2, <2>1, <3>2, <3>3
  <2> QED
    BY Zenon, <2>6, <2>7
<1>7. CASE m.kind = "connect"
  <2>1. Original(m) = Field("sid", Text(m.name)) /\ TypesOf(m) = {CONNECT}
    BY <1>7 DEF Original, TypesOf
  <2>2. Is(CONNECT, Field("sid", Text(m.name)), <<>>)
    BY <1>1, <1>7 DEF Build, NewConnectPacket, Made
  <2>3. Fields /\ Sound(FALSE) /\ p.type = CONNECT
    BY Zenon, <1>3, <2>1, <2>2
  <2>4. Handled
    BY <2>3, TypeNumbers DEF Handled
  <2> QED
    BY Zenon, <1>2, <2>1, <2>3, <2>4
<1>8. CASE m.kind = "refusal"
  <2>1. Original(m) = Field("message", Text(m.name)) /\ TypesOf(m) = {CONNECT_ERROR}
    BY <1>8 DEF Original, TypesOf
  <2>2. Is(CONNECT_ERROR, Field("message", Text(m.name)), <<>>)
    BY <1>1, <1>8 DEF Build, NewConnectErrorPacket, Made
  <2>3. Fields /\ Sound(FALSE) /\ p.type = CONNECT_ERROR
    BY Zenon, <1>3, <2>1, <2>2
  <2>4. Handled
    BY <2>3, TypeNumbers DEF Handled
  <2> QED
    BY Zenon, <1>2, <2>1, <2>3, <2>4
<1> QED
  BY <1>1, <1>5, <1>6, <1>7, <1>8

-------------------------------------------------------------------------------
(* The transfer.                                                           *)

\* The packets that may be sent, the tokens of their frames and their frames.
Built == UNION {Build(m) : m \in Messages}

TokensOf(p) == FrameTokens(p) \union {Token("buffer", p.payloads[i]) : i \in DOMAIN p.payloads}
AllTokens == UNION {TokensOf(p) : p \in Built}
Frames == Seq(AllTokens) \ {<<>>}

\* A packet of which the first k attachments have arrived.
First(p, k) ==
  [type |-> p.type, ns |-> p.ns, id |-> p.id, data |-> p.data,
   attachments |-> p.attachments, payloads |-> SubSeq(p.payloads, 1, k)]

\* What a packet sent is.
LEMMA BuiltFacts ==
  ASSUME NEW p \in Built
  PROVE  /\ HasFields(p) /\ Sendable(p) /\ p.attachments \in Nat
         /\ IsSequence(p.payloads) /\ Len(p.payloads) = p.attachments
         /\ DOMAIN p.payloads = 1 .. p.attachments
<1>1. PICK m \in Messages : p \in Build(m)
  BY DEF Built
<1>2. WellBuilt(p, m)
  BY <1>1, BuiltWell
<1>3. HasFields(p) /\ Sendable(p) /\ IsSequence(p.payloads) /\ Len(p.payloads) = p.attachments
  BY Zenon, <1>2 DEF WellBuilt
<1>4. p.attachments \in Nat
  BY Zenon, <1>3 DEF Sendable
<1>5. DOMAIN p.payloads = 1 .. Len(p.payloads)
  BY <1>3, Lengths
<1> QED
  BY Zenon, <1>3, <1>4, <1>5

\* Attachments are added one by one, up to the packet that was sent.
LEMMA FirstFacts ==
  ASSUME NEW p \in Built, NEW k \in 0 .. p.attachments
  PROVE  /\ IsBinary(First(p, k)) <=> IsBinary(p)
         /\ Len(First(p, k).payloads) = k /\ First(p, k).attachments = p.attachments
         /\ First(p, 0) = [type |-> p.type, ns |-> p.ns, id |-> p.id, data |-> p.data,
                           attachments |-> p.attachments, payloads |-> <<>>]
         /\ First(p, p.attachments) = p
         /\ k < p.attachments =>
              AddAttachment(First(p, k), p.payloads[k + 1]) = First(p, k + 1)
<1> DEFINE s == p.payloads
           n == p.attachments
           T == {s[i] : i \in DOMAIN s}
<1>1. n \in Nat /\ s \in Seq(T) /\ Len(s) = n
  BY Zenon, BuiltFacts DEF IsSequence
<1>2. k \in Nat /\ k <= n
  BY <1>1
<1>3. First(p, k).payloads = SubSeq(s, 1, k) /\ First(p, k).attachments = n
      /\ First(p, k).type = p.type
  BY DEF First
<1>4. IsBinary(First(p, k)) <=> IsBinary(p)
  BY Zenon, <1>3 DEF IsBinary
<1> DEFINE sub == SubSeq(s, 1, k)
<1>5. Len(SubSeq(s, 1, k)) = k
  <2> HIDE DEF s, n, T
  <2>1. Len(SubSeq(s, 1, k)) = IF 1 <= k THEN k - 1 + 1 ELSE 0
    BY <1>1, <1>2, SubSeqProperties
  <2> QED
    BY <1>2, <2>1
<1>6. SubSeq(s, 1, 0) = <<>>
  BY <1>1
<1>7. SubSeq(s, 1, n) = s
  <2> HIDE DEF s, n, T
  <2>1. SubSeq(s, 1, Len(s)) = s
    BY <1>1
  <2> QED
    BY Zenon, <1>1, <2>1
<1>8. First(p, n) = p
  <2>1. HasFields(p)
    BY BuiltFacts
  <2>2. First(p, n) = [type |-> p.type, ns |-> p.ns, id |-> p.id, data |-> p.data,
                       attachments |-> p.attachments, payloads |-> s]
    BY Zenon, <1>7 DEF First
  <2> QED
    BY Zenon, <2>1, <2>2 DEF HasFields
<1>9. First(p, 0) = [type |-> p.type, ns |-> p.ns, id |-> p.id, data |-> p.data,
                     attachments |-> p.attachments, payloads |-> <<>>]
  BY Zenon, <1>6 DEF First
<1>10. ASSUME k < n
       PROVE  AddAttachment(First(p, k), s[k + 1]) = First(p, k + 1)
  <2>1. IsBinary(p)
    <3>1. Sendable(p) /\ n # 0
      BY <1>2, <1>10, BuiltFacts
    <3> QED
      BY Zenon, <3>1 DEF Sendable
  <2>2. Append(SubSeq(s, 1, k), s[k + 1]) = SubSeq(s, 1, k + 1)
    <3> DEFINE j == k + 1
    <3>1. j \in 1 .. Len(s) /\ j - 1 = k
      BY <1>1, <1>2, <1>10
    <3> HIDE DEF s, n, T, j
    <3>2. SubSeq(s, 1, j) = Append(SubSeq(s, 1, j - 1), s[j])
      BY Zenon, <1>1, <3>1, PrefixAppend
    <3> QED
      BY Zenon, <3>1, <3>2 DEF j
  <2> DEFINE f == First(p, k)
             b == s[k + 1]
  <2>3. AddAttachment(f, b) = [f EXCEPT !.payloads = Append(@, b)]
    BY Zenon, <1>4, <2>1 DEF AddAttachment
  <2>4. [f EXCEPT !.payloads = Append(@, b)] =
          [type |-> p.type, ns |-> p.ns, id |-> p.id, data |-> p.data,
           attachments |-> p.attachments, payloads |-> Append(SubSeq(s, 1, k), b)]
    <3> DEFINE w == SubSeq(s, 1, k)
    <3>1. f = [type |-> p.type, ns |-> p.ns, id |-> p.id, data |-> p.data,
               attachments |-> p.attachments, payloads |-> w]
      BY Zenon DEF First
    <3> HIDE DEF w, f, b
    <3>2. [f EXCEPT !.payloads = Append(@, b)] =
            [type |-> p.type, ns |-> p.ns, id |-> p.id, data |-> p.data,
             attachments |-> p.attachments, payloads |-> Append(w, b)]
      BY <3>1
    <3> QED
      BY Zenon, <3>2 DEF w
  <2> QED
    BY Zenon, <2>2, <2>3, <2>4 DEF First
<1> QED
  BY Zenon, <1>3, <1>4, <1>5, <1>8, <1>9, <1>10

\* The frames of a packet.
LEMMA FramesOf ==
  ASSUME NEW p \in Built
  PROVE  LET e == EncodeBinary(p) IN
         /\ e \in Seq(Frames) /\ Len(e) = 1 + p.attachments
         /\ e[1] = Encode(p) /\ IsText(Encode(p))
         /\ \A i \in 1 .. p.attachments : e[1 + i] = <<Token("buffer", p.payloads[i])>>
<1> DEFINE t == Encode(p)
           a == <<t>>
           b == [i \in DOMAIN p.payloads |-> <<Token("buffer", p.payloads[i])>>]
           n == p.attachments
           e == a \o b
<1>1. EncodeBinary(p) = e
  BY Zenon DEF EncodeBinary
<1>2. n \in Nat /\ DOMAIN p.payloads = 1 .. n /\ Sendable(p)
  BY Zenon, BuiltFacts
<1>3. PICK s, i, d : Laid(t, p, s, i, d)
  BY Zenon, <1>2, EncodeLayout
<1>4. t # <<>> /\ t[1] = Token("digit", p.type)
  BY <1>3 DEF Laid
<1>5. IsText(t)
  BY <1>4, TokenFields DEF IsText
<1>6. TokensOf(p) \subseteq AllTokens
  BY DEF AllTokens
<1>7. t \in Frames
  <2> DEFINE F == FrameTokens(p)
  <2>1. t \in Seq(F)
    BY Zenon, <1>2, EncodeLayout
  <2>2. F \subseteq AllTokens
    BY <1>6 DEF TokensOf
  <2> HIDE DEF F, t
  <2>3. t \in Seq(AllTokens)
    BY <2>1, <2>2
  <2> QED
    BY <1>4, <2>3 DEF Frames
<1>8. ASSUME NEW j \in 1 .. n PROVE <<Token("buffer", p.payloads[j])>> \in Frames
  <2> DEFINE x == Token("buffer", p.payloads[j])
  <2>1. x \in AllTokens
    BY <1>2, <1>6 DEF TokensOf
  <2> HIDE DEF x
  <2>2. <<x>> \in Seq(AllTokens) /\ <<x>> # <<>>
    BY <2>1
  <2> QED
    BY <2>2 DEF x, Frames
<1>9. b = [j \in 1 .. n |-> <<Token("buffer", p.payloads[j])>>]
  BY Zenon, <1>2
<1> HIDE DEF n, b, t
<1>10. b \in [1 .. n -> Frames] /\ \A j \in 1 .. n : b[j] = <<Token("buffer", p.payloads[j])>>
  BY <1>8, <1>9
<1>11. b \in Seq(Frames) /\ Len(b) = n
  BY <1>2, <1>10
<1>12. a \in Seq(Frames) /\ Len(a) = 1 /\ a[1] = t
  BY Zenon, <1>7, SingleFacts
<1> HIDE DEF a
<1>13. e \in Seq(Frames) /\ Len(e) = Len(a) + Len(b) /\ Piece(e, Len(a) + 1, b)
  BY Zenon, <1>11, <1>12, PieceNext
<1>14. Piece(e, 1, a)
  <2>1. Piece(a, 1, a) /\ 1 \in Nat \ {0}
    BY <1>12 DEF Piece
  <2> QED
    BY Zenon, <1>11, <1>12, <2>1, PieceKept
<1> HIDE DEF e
<1>15. e \in Seq(Frames) /\ Len(e) = 1 + n /\ e[1] = t
  BY <1>2, <1>11, <1>12, <1>13, <1>14 DEF Piece
<1>16. ASSUME NEW j \in 1 .. n PROVE e[1 + j] = <<Token("buffer", p.payloads[j])>>
  <2>1. Len(a) + 1 - 1 + j = 1 + j
    BY <1>2, <1>12
  <2>2. e[1 + j] = b[j]
    BY <1>11, <1>13, <2>1 DEF Piece
  <2> QED
    BY Zenon, <1>10, <2>2
<1> QED
  BY Zenon, <1>1, <1>5, <1>15, <1>16 DEF t, n

\* No frame has the separator in it.
LEMMA NoSeparator ==
  \A x \in AllTokens : x.k # "sep"
<1> SUFFICES ASSUME NEW p \in Built, NEW x \in TokensOf(p) PROVE x.k # "sep"
  BY DEF AllTokens
<1> DEFINE K == {"digit", "dash", "comma", "ns", "json", "buffer"}
<1>1. \E k \in K : \E v : x = Token(k, v)
  BY DEF TokensOf, FrameTokens, DigitTokens
<1>2. x.k \in K
  BY <1>1, TokenFields
<1> QED
  BY <1>2

\* All the frames of the packets built, the i-th packet's from start[i].
Stream(all, built, start) ==
  /\ all \in Seq(Frames) /\ built \in Seq(Built)
  /\ start \in [1 .. Len(built) + 1 -> Nat \ {0}]
  /\ start[1] = 1 /\ start[Len(built) + 1] = Len(all) + 1
  /\ \A i \in 1 .. Len(built) :
       Piece(all, start[i], EncodeBinary(built[i]))
       /\ start[i + 1] = start[i] + 1 + built[i].attachments

\* done of them are received, the others are on their way.
Line(all, done) ==
  /\ frames \in Seq(Frames) /\ buffer \in Seq(Frames)
  /\ done \in Nat /\ done + Len(frames) + Len(buffer) = Len(all)
  /\ Piece(all, done + 1, frames \o buffer)

\* The packets received, and the one of which k attachments are.
Waiting(built, start, done, k) ==
  LET r == Len(received) IN
  /\ r < Len(built) /\ k \in 0 .. built[r + 1].attachments - 1
  /\ packet = First(built[r + 1], k) /\ done = start[r + 1] + k

\* Whole packets are received in order, and the next one is waited for or begun.
Progress(built, start, done) ==
  LET r == Len(received) IN
  /\ received \in Seq(Built) /\ r <= Len(built)
  /\ \A i \in 1 .. r : received[i] = built[i]
  /\ \/ packet = Bad /\ done + 1 = start[r + 1]
     \/ \E k \in Nat : Waiting(built, start, done, k)

\* One packet is built for each message.
History(built) ==
  /\ emitted \in Seq(Messages) /\ Len(built) = Len(emitted)
  /\ \A i \in 1 .. Len(built) : built[i] \in Build(emitted[i])

\* The four together, for given frames, packets, positions and frames received.
Transfer(all, built, start, done) ==
  Stream(all, built, start) /\ Line(all, done) /\ Progress(built, start, done) /\ History(built)

\* The inductive invariant.  The variables do not hold the frames already received:
\* there are frames and packets of which what they hold is the rest.
TransferInv == \E all, built, start, done : Transfer(all, built, start, done)

\* What reaches to the end of a sequence grows with it.
LEMMA PieceExtends ==
  ASSUME NEW S, NEW s \in Seq(S), NEW x \in Seq(S), NEW e \in Seq(S), NEW at \in Nat \ {0},
         Piece(s, at, x), at - 1 + Len(x) = Len(s)
  PROVE  Piece(s \o e, at, x \o e)
<1> DEFINE long == s \o e
           w == x \o e
<1>1. Len(s) \in Nat /\ Len(x) \in Nat /\ Len(e) \in Nat
  OBVIOUS
<1>2. Len(long) = Len(s) + Len(e) /\ Piece(long, Len(s) + 1, e)
  BY Zenon, PieceNext
<1>3. Piece(long, at, x)
  BY Zenon, PieceKept
<1>4. Len(w) = Len(x) + Len(e) /\ Piece(w, Len(x) + 1, e)
  BY Zenon, PieceNext
<1>5. Piece(w, 1, x)
  <2>1. Piece(x, 1, x) /\ 1 \in Nat \ {0}
    BY DEF Piece
  <2> QED
    BY Zenon, <2>1, PieceKept
<1> HIDE DEF long, w
<1>6. at - 1 + Len(w) <= Len(long)
  BY <1>1, <1>2, <1>4
<1>7. ASSUME NEW i \in 1 .. Len(w) PROVE long[at - 1 + i] = w[i]
  <2>1. CASE i \in 1 .. Len(x)
    <3>1. long[at - 1 + i] = x[i]
      BY <1>3, <2>1 DEF Piece
    <3>2. w[1 - 1 + i] = x[i] /\ 1 - 1 + i = i
      BY <1>5, <2>1 DEF Piece
    <3> QED
      BY <3>1, <3>2
  <2>2. CASE i \notin 1 .. Len(x)
    <3> DEFINE a == Len(s)
               b == Len(x)
               c == Len(e)
               j == i - b
    <3>1. a \in Nat /\ b \in Nat /\ c \in Nat /\ i \in 1 .. b + c /\ at - 1 + b = a
      BY <1>1, <1>4
    <3>2. i \notin 1 .. b
      BY <2>2
    <3> HIDE DEF a, b, c
    <3>3. j \in 1 .. c /\ a + 1 - 1 + j = at - 1 + i /\ b + 1 - 1 + j = i
      BY <3>1, <3>2
    <3> USE DEF a, b, c
    <3> HIDE DEF j
    <3>4. long[Len(s) + 1 - 1 + j] = e[j] /\ w[Len(x) + 1 - 1 + j] = e[j]
      BY <1>2, <1>4, <3>3 DEF Piece
    <3> QED
      BY <3>3, <3>4
  <2> QED
    BY <2>1, <2>2
<1>8. Piece(long, at, w)
  BY <1>6, <1>7 DEF Piece
<1> QED
  BY <1>8 DEF long, w

\* Nothing is built, sent or received at first.
LEMMA StartsEmpty == TransferInit => TransferInv
<1> SUFFICES ASSUME TransferInit PROVE TransferInv
  OBVIOUS
<1> DEFINE start == [i \in 1 .. 1 |-> 1]
<1>1. frames = <<>> /\ buffer = <<>> /\ emitted = <<>> /\ received = <<>> /\ packet = Bad
  BY DEF TransferInit
<1>2. Len(<<>>) = 0 /\ <<>> \o <<>> = <<>>
  OBVIOUS
<1>3. start \in [1 .. 1 -> Nat \ {0}] /\ start[1] = 1
  OBVIOUS
<1> HIDE DEF start
<1>4. Stream(<<>>, <<>>, start)
  BY <1>2, <1>3 DEF Stream
<1>5. Line(<<>>, 0)
  BY <1>1, <1>2 DEF Line, Piece
<1>6. Progress(<<>>, start, 0)
  BY <1>1, <1>2, <1>3 DEF Progress
<1>7. History(<<>>)
  BY <1>1, <1>2 DEF History
<1> QED
  BY Zenon, <1>4, <1>5, <1>6, <1>7 DEF TransferInv, Transfer

\* The frames of one more packet.
LEMMA StreamGrows ==
  ASSUME NEW all, NEW built, NEW start, Stream(all, built, start), NEW p \in Built
  PROVE  \E next : Stream(all \o EncodeBinary(p), Append(built, p), next)
                   /\ \A i \in 1 .. Len(built) + 1 : next[i] = start[i]
<1> DEFINE e == EncodeBinary(p)
           n == Len(built)
           c == Append(built, p)
           long == all \o e
           next == [i \in 1 .. n + 2 |->
                      IF i <= n + 1 THEN start[i] ELSE Len(all) + 2 + p.attachments]
<1>1. /\ all \in Seq(Frames) /\ built \in Seq(Built) /\ n \in Nat /\ Len(all) \in Nat
      /\ start \in [1 .. n + 1 -> Nat \ {0}] /\ start[1] = 1 /\ start[n + 1] = Len(all) + 1
  BY DEF Stream
<1>2. e \in Seq(Frames) /\ Len(e) = 1 + p.attachments /\ p.attachments \in Nat
  BY Zenon, FramesOf, BuiltFacts
<1>3. /\ c \in Seq(Built) /\ Len(c) = n + 1 /\ c[n + 1] = p /\ \A i \in 1 .. n : c[i] = built[i]
  BY <1>1
<1> HIDE DEF e, c
<1>4. long \in Seq(Frames) /\ Len(long) = Len(all) + Len(e) /\ Piece(long, Len(all) + 1, e)
  BY Zenon, <1>1, <1>2, PieceNext
<1>5. ASSUME NEW x \in Seq(Frames), NEW at \in Nat \ {0}, Piece(all, at, x)
      PROVE  Piece(long, at, x)
  BY Zenon, <1>1, <1>2, <1>5, PieceKept
<1> HIDE DEF long, n
<1>6. next \in [1 .. n + 2 -> Nat \ {0}] /\ \A i \in 1 .. n + 1 : next[i] = start[i]
  <2>1. Len(all) + 2 + p.attachments \in Nat \ {0}
    BY <1>1, <1>2
  <2>2. \A i \in 1 .. n + 2 : i <= n + 1 => start[i] \in Nat \ {0}
    BY <1>1
  <2>3. \A i \in 1 .. n + 1 : i \in 1 .. n + 2 /\ i <= n + 1
    BY <1>1
  <2> QED
    BY <2>1, <2>2, <2>3
<1>7. next[n + 2] = Len(all) + 2 + p.attachments
  <2>1. n + 2 \in 1 .. n + 2 /\ ~(n + 2 <= n + 1)
    BY <1>1
  <2> QED
    BY <2>1
<1> HIDE DEF next
<1>8. ASSUME NEW i \in 1 .. n + 1
      PROVE  Piece(long, next[i], EncodeBinary(c[i])) /\ next[i + 1] = next[i] + 1 + c[i].attachments
  <2>1. CASE i \in 1 .. n
    <3>1. c[i] = built[i] /\ built[i] \in Built /\ i + 1 \in 1 .. n + 1
      BY <1>1, <1>3, <2>1 DEF n
    <3>2. Piece(all, start[i], EncodeBinary(built[i]))
          /\ start[i + 1] = start[i] + 1 + built[i].attachments
      BY <2>1 DEF Stream, n
    <3>3. EncodeBinary(built[i]) \in Seq(Frames)
      BY Zenon, <3>1, FramesOf
    <3>4. start[i] \in Nat \ {0}
      BY <1>1
    <3>5. Piece(long, start[i], EncodeBinary(built[i]))
      BY Zenon, <1>5, <3>2, <3>3, <3>4
    <3>6. next[i] = start[i] /\ next[i + 1] = start[i + 1]
      BY <1>6, <3>1
    <3> QED
      BY Zenon, <3>1, <3>2, <3>5, <3>6
  <2>2. CASE i = n + 1
    <3>1. c[i] = p /\ next[i] = Len(all) + 1 /\ i + 1 = n + 2
      BY <1>1, <1>3, <1>6, <2>2
    <3>2. next[i + 1] = next[i] + 1 + p.attachments
      <4> DEFINE g == p.attachments
      <4>1. g \in Nat /\ next[n + 2] = Len(all) + 2 + g
        BY <1>2, <1>7
      <4> HIDE DEF g
      <4>2. next[i + 1] = next[i] + 1 + g
        BY <1>1, <3>1, <4>1
      <4> QED
        BY <4>2 DEF g
    <3> QED
      BY Zenon, <1>4, <3>1, <3>2 DEF e
  <2>3. i \in 1 .. n \/ i = n + 1
    BY <1>1
  <2> QED
    BY <2>1, <2>2, <2>3
<1>9. next[1] = 1 /\ next[Len(c) + 1] = Len(long) + 1
  <2>1. 1 \in 1 .. n + 1 /\ Len(c) + 1 = n + 2
    BY <1>1, <1>3
  <2> DEFINE g == p.attachments
  <2>2. g \in Nat /\ next[n + 2] = Len(all) + 2 + g /\ Len(e) = 1 + g
    BY <1>2, <1>7
  <2> HIDE DEF g
  <2>3. Len(long) + 1 = Len(all) + 2 + g
    BY <1>1, <1>4, <2>2
  <2>4. next[1] = start[1]
    BY <1>6, <2>1
  <2> QED
    BY <1>1, <2>1, <2>2, <2>3, <2>4
<1>10. Stream(long, c, next)
  <2>1. Len(c) + 1 = n + 2 /\ Len(c) = n + 1
    BY <1>1, <1>3
  <2> QED
    BY <1>3, <1>4, <1>6, <1>8, <1>9, <2>1 DEF Stream
<1> QED
  BY Zenon, <1>6, <1>10 DEF long, c, e, n

\* A message emitted adds its packet and its frames behind all others.
LEMMA EmitKeeps ==
  ASSUME TransferInv, NEW m \in Messages, Emit(m)
  PROVE  TransferInv'
<1>1. PICK all, built, start, done : Transfer(all, built, start, done)
  BY Zenon DEF TransferInv
<1>2. Stream(all, built, start) /\ Line(all, done) /\ Progress(built, start, done) /\ History(built)
  BY Zenon, <1>1 DEF Transfer
<1>3. PICK p \in Build(m) : buffer' = buffer \o EncodeBinary(p)
  BY DEF Emit
<1>4. p \in Built
  BY DEF Built
<1> DEFINE e == EncodeBinary(p)
           long == all \o e
           c == Append(built, p)
<1>5. PICK next : Stream(long, c, next) /\ \A i \in 1 .. Len(built) + 1 : next[i] = start[i]
  <2>1. Stream(all, built, start)
    BY <1>2
  <2> QED
    BY ONLY <1>4, <2>1, StreamGrows
<1>6. e \in Seq(Frames)
  BY Zenon, <1>4, FramesOf
<1>7. frames' = frames /\ packet' = packet /\ received' = received /\ emitted' = Append(emitted, m)
  BY DEF Emit
<1>8. /\ all \in Seq(Frames) /\ built \in Seq(Built) /\ Len(built) \in Nat /\ Len(all) \in Nat
  BY <1>2 DEF Stream
<1>9. /\ Len(c) = Len(built) + 1 /\ c[Len(built) + 1] = p
      /\ \A i \in 1 .. Len(built) : c[i] = built[i]
  BY <1>4, <1>8
<1> HIDE DEF e, c
<1>10. Line(long, done)'
  <2> DEFINE line == frames \o buffer
  <2>1. /\ frames \in Seq(Frames) /\ buffer \in Seq(Frames) /\ done \in Nat
        /\ done + Len(frames) + Len(buffer) = Len(all) /\ Piece(all, done + 1, line)
    BY <1>2 DEF Line
  <2>2. buffer' = buffer \o e
    BY <1>3 DEF e
  <2>3. buffer' \in Seq(Frames) /\ Len(buffer') = Len(buffer) + Len(e)
    BY <1>6, <2>1, <2>2
  <2>4. line \in Seq(Frames) /\ Len(line) = Len(frames) + Len(buffer)
    BY <2>1
  <2>5. frames' \o buffer' = line \o e
    <3>1. frames \o (buffer \o e) = (frames \o buffer) \o e
      <4>1. e \in Seq(Frames) /\ buffer \in Seq(Frames) /\ frames \in Seq(Frames)
        BY <1>6, <2>1
      <4> QED
        BY ONLY <4>1
    <3> QED
      BY <1>7, <2>2, <3>1
  <2> HIDE DEF line
  <2>6. Len(long) = Len(all) + Len(e)
    BY Zenon, <1>6, <1>8, PieceNext
  <2> DEFINE w == line \o e
  <2>9. Piece(long, done + 1, w)
    <3>1. done + 1 \in Nat \ {0} /\ ((done + 1) - 1) + Len(line) = Len(all)
      BY <2>1, <2>4
    <3>2. all \in Seq(Frames) /\ line \in Seq(Frames) /\ Piece(all, done + 1, line)
      BY <1>8, <2>1, <2>4
    <3> DEFINE at == done + 1
    <3>3. at \in Nat \ {0} /\ at - 1 + Len(line) = Len(all) /\ Piece(all, at, line)
      BY Zenon, <3>1, <3>2 DEF at
    <3> HIDE DEF at
    <3>4. Piece(all \o e, at, line \o e)
      BY ONLY <1>6, <3>2, <3>3, PieceExtends
    <3> QED
      BY <3>4 DEF at
  <2> HIDE DEF long
  <2>10. done + Len(frames') + Len(buffer') = Len(long)
    <3>1. Len(frames) \in Nat /\ Len(buffer) \in Nat /\ Len(e) \in Nat
      BY <1>6, <2>1
    <3>2. Len(frames') = Len(frames)
      BY <1>7
    <3>3. done \in Nat /\ Len(all) \in Nat
      BY <1>8, <2>1
    <3>4. done + Len(frames) + (Len(buffer) + Len(e)) = Len(all) + Len(e)
      BY <2>1, <3>1, <3>3
    <3> QED
      BY <2>3, <2>6, <3>2, <3>4
  <2> QED
    BY <1>7, <2>1, <2>3, <2>5, <2>9, <2>10 DEF Line, w
<1>11. Progress(c, next, done)'
  <2> DEFINE r == Len(received)
  <2>1. received \in Seq(Built) /\ r \in Nat /\ r <= Len(built) /\ \A i \in 1 .. r : received[i] = built[i]
    BY <1>2 DEF Progress
  <2>2. r + 1 \in 1 .. Len(built) + 1 /\ next[r + 1] = start[r + 1]
    BY <1>5, <1>8, <2>1
  <2>3. r <= Len(c) /\ \A i \in 1 .. r : received[i] = c[i]
    BY <1>8, <1>9, <2>1
  <2>4. CASE packet = Bad /\ done + 1 = start[r + 1]
    BY <1>7, <2>1, <2>2, <2>3, <2>4 DEF Progress
  <2>5. CASE \E k \in Nat : Waiting(built, start, done, k)
    <3>1. PICK k \in Nat : Waiting(built, start, done, k)
      BY <2>5
    <3>2. /\ r < Len(built) /\ k \in 0 .. built[r + 1].attachments - 1
          /\ packet = First(built[r + 1], k) /\ done = start[r + 1] + k
      BY <3>1 DEF Waiting
    <3>3. r < Len(c) /\ c[r + 1] = built[r + 1]
      BY <1>8, <1>9, <2>1, <3>2
    <3>4. Waiting(c, next, done, k)'
      BY <1>7, <2>2, <3>2, <3>3 DEF Waiting
    <3> QED
      BY <1>7, <2>1, <2>3, <3>4 DEF Progress
  <2> QED
    BY <1>2, <2>4, <2>5 DEF Progress
<1>12. History(c)'
  <2>1. emitted \in Seq(Messages) /\ Len(built) = Len(emitted)
        /\ \A i \in 1 .. Len(built) : built[i] \in Build(emitted[i])
    BY <1>2 DEF History
  <2>2. /\ emitted' \in Seq(Messages) /\ Len(emitted') = Len(emitted) + 1
        /\ emitted'[Len(emitted) + 1] = m /\ \A i \in 1 .. Len(emitted) : emitted'[i] = emitted[i]
    BY <1>7, <2>1
  <2>3. ASSUME NEW i \in 1 .. Len(built) + 1 PROVE c[i] \in Build(emitted'[i])
    <3>1. CASE i \in 1 .. Len(built)
      BY <1>9, <2>1, <2>2, <3>1
    <3>2. CASE i = Len(built) + 1
      BY <1>9, <2>1, <2>2, <3>2
    <3> QED
      BY <1>8, <3>1, <3>2
  <2> QED
    BY <1>9, <2>1, <2>2, <2>3 DEF History
<1>13. Stream(long, c, next)'
  BY <1>5
<1> QED
  BY Zenon, <1>10, <1>11, <1>12, <1>13 DEF TransferInv, Transfer

\* A poll or a write takes the frames out of the buffer as they are.
LEMMA SendKeeps ==
  ASSUME TransferInv, Poll \/ WriteFrames
  PROVE  TransferInv'
<1>1. PICK all, built, start, done : Transfer(all, built, start, done)
  BY Zenon DEF TransferInv
<1>2. Stream(all, built, start) /\ Line(all, done) /\ Progress(built, start, done) /\ History(built)
  BY Zenon, <1>1 DEF Transfer
<1>3. /\ frames \in Seq(Frames) /\ buffer \in Seq(Frames) /\ done \in Nat
      /\ done + Len(frames) + Len(buffer) = Len(all) /\ Piece(all, done + 1, frames \o buffer)
  BY <1>2 DEF Line
<1>4. frames' = frames \o buffer /\ buffer' = <<>> /\ UNCHANGED <<emitted, packet, received>>
  <2>1. CASE Poll
    <3>1. buffer # <<>> /\ frames' = frames \o DecodePayload(EncodePayload(buffer))
          /\ buffer' = <<>> /\ UNCHANGED <<emitted, packet, received>>
      BY <2>1 DEF Poll
    <3>2. buffer \in Seq(Seq(AllTokens)) /\ \A i \in 1 .. Len(buffer) : buffer[i] # <<>>
      BY <1>3 DEF Frames
    <3>3. DecodePayload(EncodePayload(buffer)) = buffer
      BY Zenon, <3>1, <3>2, NoSeparator, SplitUndoesJoin
    <3> QED
      BY Zenon, <3>1, <3>3
  <2>2. CASE WriteFrames
    BY <2>2 DEF WriteFrames
  <2> QED
    BY <2>1, <2>2
<1>5. Line(all, done)'
  <2> DEFINE line == frames \o buffer
  <2>1. line \in Seq(Frames) /\ Len(line) = Len(frames) + Len(buffer)
    BY <1>3
  <2>2. line \o <<>> = line
    BY <1>3
  <2>3. Len(<<>>) = 0 /\ <<>> \in Seq(Frames)
    BY EmptyFacts
  <2>4. done + Len(line) + 0 = Len(all)
    <3>1. Len(frames) \in Nat /\ Len(buffer) \in Nat
      BY <1>3
    <3> QED
      BY <1>3, <2>1, <3>1
  <2>5. frames' = line /\ buffer' = <<>>
    BY <1>4
  <2> HIDE DEF line
  <2>6. Piece(all, done + 1, line)
    BY <1>3 DEF line
  <2>7. frames' \o buffer' = line /\ done + Len(frames') + Len(buffer') = Len(all)
        /\ frames' \in Seq(Frames) /\ buffer' \in Seq(Frames)
    BY Zenon, <2>1, <2>2, <2>3, <2>4, <2>5
  <2> QED
    BY Zenon, <1>3, <2>6, <2>7 DEF Line
<1>6. Progress(built, start, done)'
  BY <1>2, <1>4 DEF Progress, Waiting
<1>7. History(built)'
  BY <1>2, <1>4 DEF History
<1>8. Stream(all, built, start)'
  BY <1>2
<1> QED
  BY Zenon, <1>5, <1>6, <1>7, <1>8 DEF TransferInv, Transfer

\* The next frame to be received.
LEMMA NextFrame ==
  ASSUME NEW all \in Seq(Frames), NEW done, Line(all, done), frames # <<>>,
         frames' = Tail(frames), UNCHANGED buffer
  PROVE  /\ Head(frames) = all[done + 1] /\ done + 1 <= Len(all)
         /\ Line(all, done + 1)'
<1> DEFINE line == frames \o buffer
           rest == Tail(frames)
<1>1. /\ frames \in Seq(Frames) /\ buffer \in Seq(Frames) /\ done \in Nat
      /\ done + Len(frames) + Len(buffer) = Len(all) /\ Piece(all, done + 1, line)
  BY DEF Line
<1>2. /\ Len(frames) \in Nat \ {0} /\ Len(buffer) \in Nat /\ Len(all) \in Nat
      /\ Len(rest) = Len(frames) - 1 /\ rest \in Seq(Frames) /\ Head(frames) = frames[1]
  BY <1>1
<1>3. \A i \in 1 .. Len(frames) - 1 : rest[i] = frames[i + 1]
  BY <1>1, <1>2
<1>4. /\ Len(line) = Len(frames) + Len(buffer) /\ Piece(line, Len(frames) + 1, buffer)
  BY Zenon, <1>1, PieceNext
<1>5. Piece(line, 1, frames)
  <2>1. Piece(frames, 1, frames) /\ 1 \in Nat \ {0}
    BY <1>2 DEF Piece
  <2> QED
    BY Zenon, <1>1, <2>1, PieceKept
<1> DEFINE short == rest \o buffer
<1>6. /\ Len(short) = Len(rest) + Len(buffer) /\ Piece(short, Len(rest) + 1, buffer)
  BY Zenon, <1>1, <1>2, PieceNext
<1>7. Piece(short, 1, rest)
  <2>1. Piece(rest, 1, rest) /\ 1 \in Nat \ {0}
    <3> HIDE DEF rest
    <3>1. Len(rest) \in Nat
      BY <1>2
    <3> QED
      BY <3>1 DEF Piece
  <2> QED
    BY Zenon, <1>1, <1>2, <2>1, PieceKept
<1> HIDE DEF line, short, rest
<1>8. ASSUME NEW i \in 1 .. Len(line) PROVE all[done + i] = line[i]
  <2>1. done + 1 - 1 + i = done + i
    BY <1>1, <1>2, <1>4
  <2> QED
    BY <1>1, <2>1 DEF Piece
<1>9. \A i \in 1 .. Len(frames) : line[i] = frames[i]
  <2> TAKE i \in 1 .. Len(frames)
  <2>1. 1 - 1 + i = i
    BY <1>2
  <2> QED
    BY <1>5, <2>1 DEF Piece
<1>10. Head(frames) = all[done + 1] /\ done + 1 <= Len(all)
  <2>1. 1 \in 1 .. Len(frames) /\ 1 \in 1 .. Len(line)
    BY <1>2, <1>4
  <2>2. all[done + 1] = line[1] /\ line[1] = frames[1]
    BY <1>8, <1>9, <2>1
  <2>3. done + 1 <= Len(all)
    BY <1>1, <1>2
  <2> QED
    BY <1>2, <2>2, <2>3
<1>11. ASSUME NEW i \in 1 .. Len(short) PROVE short[i] = line[i + 1]
  <2>1. CASE i \in 1 .. Len(rest)
    <3>1. 1 - 1 + i = i /\ i + 1 \in 1 .. Len(frames) /\ i \in 1 .. Len(frames) - 1
      BY <1>2, <2>1
    <3>2. short[i] = rest[i]
      BY <1>7, <2>1, <3>1 DEF Piece
    <3> QED
      BY <1>3, <1>9, <3>1, <3>2
  <2>2. CASE i \notin 1 .. Len(rest)
    <3> DEFINE j == i - Len(rest)
    <3>1. /\ j \in 1 .. Len(buffer) /\ Len(rest) + 1 - 1 + j = i
          /\ Len(frames) + 1 - 1 + j = i + 1
      BY <1>2, <1>6, <2>2
    <3> HIDE DEF j
    <3>2. short[i] = buffer[j] /\ line[i + 1] = buffer[j]
      BY <1>4, <1>6, <3>1 DEF Piece
    <3> QED
      BY <3>2
  <2> QED
    BY <2>1, <2>2
<1>14. (done + 1) + Len(rest) + Len(buffer) = Len(all) /\ done + 1 \in Nat
  <2> DEFINE a == Len(frames)
             b == Len(buffer)
             c == Len(rest)
             n == Len(all)
  <2>1. a \in Nat /\ b \in Nat /\ c = a - 1 /\ done \in Nat /\ done + a + b = n
    BY Zenon, <1>1, <1>2
  <2> HIDE DEF a, b, c, n
  <2>2. (done + 1) + c + b = n /\ done + 1 \in Nat
    BY <2>1
  <2> QED
    BY Zenon, <2>2 DEF a, b, c, n
<1>12. Piece(all, (done + 1) + 1, short)
  <2>1. (((done + 1) + 1) - 1) + Len(short) <= Len(all)
    <3>1. Len(rest) \in Nat /\ Len(buffer) \in Nat /\ Len(short) = Len(rest) + Len(buffer)
          /\ Len(all) \in Nat
      BY <1>2, <1>6
    <3> QED
      BY ONLY <1>14, <3>1
  <2>2. ASSUME NEW i \in 1 .. Len(short) PROVE all[(((done + 1) + 1) - 1) + i] = short[i]
    <3>1. (((done + 1) + 1) - 1) + i = done + (i + 1) /\ i + 1 \in 1 .. Len(line)
      BY <1>1, <1>2, <1>4, <1>6
    <3>2. all[done + (i + 1)] = line[i + 1]
      BY <1>8, <3>1
    <3> QED
      BY <1>11, <3>1, <3>2
  <2> QED
    BY Zenon, <2>1, <2>2 DEF Piece
<1>13. frames' = rest /\ buffer' = buffer
  BY DEF rest
<1>15. Line(all, done + 1)'
  BY Zenon, <1>1, <1>2, <1>12, <1>13, <1>14 DEF Line, short
<1> QED
  BY <1>10, <1>15

\* The text frame and the attachments of the i-th packet.
LEMMA FrameOf ==
  ASSUME NEW all, NEW built, NEW start, Stream(all, built, start), NEW i \in 1 .. Len(built)
  PROVE  /\ built[i] \in Built /\ start[i] \in Nat \ {0}
         /\ all[start[i]] = Encode(built[i]) /\ IsText(all[start[i]])
         /\ \A j \in 1 .. built[i].attachments :
              all[start[i] + j] = <<Token("buffer", built[i].payloads[j])>>
              /\ ~IsText(all[start[i] + j])
<1> DEFINE p == built[i]
           e == EncodeBinary(p)
           n == p.attachments
           at == start[i]
<1>1. p \in Built /\ at \in Nat \ {0} /\ Piece(all, at, e)
  BY DEF Stream
<1>2. /\ Len(e) = 1 + n /\ e[1] = Encode(p) /\ IsText(Encode(p)) /\ n \in Nat
      /\ \A j \in 1 .. n : e[1 + j] = <<Token("buffer", p.payloads[j])>>
  BY Zenon, <1>1, FramesOf, BuiltFacts
<1> HIDE DEF p, e, n, at
<1>3. all[at] = Encode(p)
  <2>1. 1 \in 1 .. Len(e) /\ at - 1 + 1 = at
    BY <1>1, <1>2
  <2> QED
    BY <1>1, <1>2, <2>1 DEF Piece
<1>4. ASSUME NEW j \in 1 .. n
      PROVE  all[at + j] = <<Token("buffer", p.payloads[j])>> /\ ~IsText(all[at + j])
  <2>1. 1 + j \in 1 .. Len(e) /\ at - 1 + (1 + j) = at + j
    BY <1>1, <1>2
  <2> DEFINE x == Token("buffer", p.payloads[j])
  <2>2. all[at + j] = <<x>>
    <3>1. all[at + j] = e[1 + j]
      BY <1>1, <2>1 DEF Piece
    <3> QED
      BY Zenon, <1>2, <3>1
  <2>3. x.k = "buffer"
    BY TokenFields
  <2> HIDE DEF x
  <2>4. <<x>>[1] = x
    OBVIOUS
  <2>5. ~IsText(all[at + j])
    BY Zenon, <2>2, <2>3, <2>4 DEF IsText
  <2> QED
    BY Zenon, <2>2, <2>5 DEF x
<1> QED
  BY Zenon, <1>1, <1>2, <1>3, <1>4 DEF p, n, at

\* Collecting a packet's text frame or the k-th of its attachments.
LEMMA CollectKeeps ==
  ASSUME NEW all, NEW built, NEW start, Stream(all, built, start), NEW done \in Nat,
         received \in Seq(Built), Len(received) < Len(built),
         \A i \in 1 .. Len(received) : received[i] = built[i],
         NEW k \in 0 .. built[Len(received) + 1].attachments,
         done + 1 = start[Len(received) + 1] + k,
         Collect(First(built[Len(received) + 1], k))
  PROVE  Progress(built, start, done + 1)'
<1> DEFINE r == Len(received)
           p == built[r + 1]
           n == p.attachments
           f == First(p, k)
<1>1. r \in Nat /\ Len(built) \in Nat /\ r < Len(built) /\ r + 1 \in 1 .. Len(built)
  BY DEF Stream
<1>2. p \in Built
  BY <1>1, FrameOf
<1>3. n \in Nat /\ Sendable(p)
  BY Zenon, <1>2, BuiltFacts
<1>4. start[r + 1] \in Nat \ {0} /\ start[(r + 1) + 1] = start[r + 1] + 1 + n
  BY <1>1 DEF Stream
<1>5. /\ IsBinary(f) <=> IsBinary(p)
      /\ Len(f.payloads) = k /\ f.attachments = n /\ First(p, n) = p
  BY Zenon, <1>2, FirstFacts
<1>6. IsComplete(f) <=> k = n
  <2>1. k \in Nat /\ k <= n
    BY <1>3
  <2>2. ~IsBinary(p) => n = 0
    BY Zenon, <1>3 DEF Sendable
  <2>3. IsComplete(f) <=> (IsBinary(p) => k >= n)
    BY Zenon, <1>5 DEF IsComplete
  <2> HIDE DEF n, p
  <2> QED
    BY <1>3, <2>1, <2>2, <2>3
<1>7. /\ IsComplete(f) => packet' = Bad /\ received' = Append(received, f)
      /\ ~IsComplete(f) => packet' = f /\ received' = received
  BY Zenon DEF Collect
<1>8. done + 1 = start[r + 1] + k /\ k \in Nat
  BY <1>3
<1>9. \A i \in 1 .. r : received[i] = built[i]
  OBVIOUS
<1>10. CASE k = n
  <2>1. packet' = Bad /\ received' = Append(received, p)
    BY Zenon, <1>5, <1>6, <1>7, <1>10
  <2> HIDE DEF p, n, f
  <2>2. /\ received' \in Seq(Built) /\ Len(received') = r + 1 /\ received'[r + 1] = p
        /\ \A i \in 1 .. r : received'[i] = received[i]
    BY <1>2, <2>1
  <2>3. ASSUME NEW i \in 1 .. r + 1 PROVE received'[i] = built[i]
    <3>1. CASE i = r + 1
      BY <2>2, <3>1 DEF p
    <3>2. CASE i \in 1 .. r
      BY <1>9, <2>2, <3>2
    <3> QED
      BY <1>1, <3>1, <3>2
  <2>4. (done + 1) + 1 = start[(r + 1) + 1]
    <3> DEFINE s == start[r + 1]
    <3>1. s \in Nat /\ start[(r + 1) + 1] = s + 1 + n /\ done + 1 = s + k /\ done \in Nat
      BY <1>4, <1>8
    <3> HIDE DEF s
    <3> QED
      BY <1>3, <1>10, <3>1
  <2>5. r + 1 <= Len(built)
    BY <1>1
  <2> HIDE DEF r
  <2> QED
    BY <2>1, <2>2, <2>3, <2>4, <2>5 DEF Progress
<1>11. CASE k # n
  <2>1. packet' = f /\ received' = received
    BY Zenon, <1>6, <1>7, <1>11
  <2>2. k \in 0 .. n - 1
    BY <1>3, <1>11
  <2> HIDE DEF n
  <2>3. Waiting(built, start, done + 1, k)'
    BY <1>1, <1>8, <2>1, <2>2 DEF Waiting, n
  <2> HIDE DEF p, f
  <2> QED
    BY <1>1, <1>8, <1>9, <2>1, <2>3 DEF Progress
<1> QED
  BY <1>10, <1>11

\* A frame received is the next one of the packet that is being collected.
LEMMA ReceiveKeeps ==
  ASSUME TransferInv, ReceiveText \/ ReceiveAttachment
  PROVE  TransferInv'
<1>1. PICK all, built, start, done : Transfer(all, built, start, done)
  BY Zenon DEF TransferInv
<1>2. Stream(all, built, start) /\ Line(all, done) /\ Progress(built, start, done) /\ History(built)
  BY Zenon, <1>1 DEF Transfer
<1> DEFINE r == Len(received)
           p == built[r + 1]
           head == Head(frames)
<1>3. frames # <<>> /\ frames' = Tail(frames) /\ UNCHANGED <<emitted, buffer>>
  BY DEF ReceiveText, ReceiveAttachment, Collect
<1>4. /\ all \in Seq(Frames) /\ Len(built) \in Nat /\ Len(all) \in Nat
      /\ start \in [1 .. Len(built) + 1 -> Nat \ {0}] /\ start[Len(built) + 1] = Len(all) + 1
  BY <1>2 DEF Stream
<1>5. head = all[done + 1] /\ done + 1 <= Len(all) /\ Line(all, done + 1)'
  BY <1>2, <1>3, <1>4, NextFrame
<1>6. done \in Nat
  BY <1>2 DEF Line
<1>7. received \in Seq(Built) /\ r \in Nat /\ r <= Len(built) /\ \A i \in 1 .. r : received[i] = built[i]
  BY <1>2 DEF Progress
<1>8. Progress(built, start, done + 1)'
  <2>1. CASE packet = Bad /\ done + 1 = start[r + 1]
    <3>1. r < Len(built)
      <4>1. r # Len(built)
        BY <1>4, <1>5, <1>6, <2>1
      <4> QED
        BY <1>4, <1>7, <4>1
    <3>2. r + 1 \in 1 .. Len(built)
      BY <1>4, <1>7, <3>1
    <3>3. p \in Built /\ start[r + 1] \in Nat \ {0}
          /\ all[start[r + 1]] = Encode(p) /\ IsText(all[start[r + 1]])
      BY <1>2, <3>2, FrameOf
    <3>4. head = Encode(p) /\ IsText(head)
      BY Zenon, <1>5, <2>1, <3>3
    <3>5. Collect(Decode(Encode(p)))
      BY Zenon, <3>4 DEF ReceiveText, ReceiveAttachment
    <3>6. Sendable(p) /\ p.attachments \in Nat
      BY Zenon, <3>3, BuiltFacts
    <3>7. 0 \in 0 .. p.attachments
      BY <3>6
    <3>8. Decode(Encode(p)) = First(p, 0)
      <4>1. p \in Built /\ 0 \in 0 .. p.attachments
        BY Zenon, <3>3, <3>7
      <4>2. First(p, 0) = [type |-> p.type, ns |-> p.ns, id |-> p.id, data |-> p.data,
                           attachments |-> p.attachments, payloads |-> <<>>]
        BY Zenon, <4>1, FirstFacts
      <4> HIDE DEF p
      <4> QED
        BY Zenon, <3>6, <4>2, DecodeUndoesEncode
    <3>9. Collect(First(p, 0))
      BY Zenon, <3>5, <3>8
    <3>10. done + 1 = start[r + 1] + 0
      BY <2>1, <3>3
    <3> QED
      BY Zenon, <1>2, <1>6, <1>7, <3>1, <3>7, <3>9, <3>10, CollectKeeps
  <2>2. CASE \E k \in Nat : Waiting(built, start, done, k)
    <3>1. PICK k \in Nat : Waiting(built, start, done, k)
      BY <2>2
    <3> DEFINE n == p.attachments
    <3>2. r < Len(built) /\ k \in 0 .. n - 1 /\ packet = First(p, k) /\ done = start[r + 1] + k
      BY <3>1 DEF Waiting
    <3>3. r + 1 \in 1 .. Len(built)
      BY <1>4, <1>7, <3>2
    <3>4. /\ p \in Built /\ start[r + 1] \in Nat \ {0}
          /\ \A j \in 1 .. n :
               all[start[r + 1] + j] = <<Token("buffer", p.payloads[j])>>
               /\ ~IsText(all[start[r + 1] + j])
      BY Zenon, <1>2, <3>3, FrameOf
    <3>5. n \in Nat
      BY Zenon, <3>4, BuiltFacts
    <3> HIDE DEF n
    <3>6. /\ k + 1 \in 1 .. n /\ k \in 0 .. n /\ k + 1 \in 0 .. n /\ k < n
      BY <3>2, <3>5
    <3>7. done + 1 = start[r + 1] + (k + 1)
      BY <3>2, <3>4
    <3>8. head = <<Token("buffer", p.payloads[k + 1])>> /\ ~IsText(head)
      BY Zenon, <1>5, <3>4, <3>6, <3>7
    <3>9. head[1].v = p.payloads[k + 1]
      <4> DEFINE x == Token("buffer", p.payloads[k + 1])
      <4>1. x.v = p.payloads[k + 1]
        BY TokenFields
      <4> HIDE DEF x, head
      <4>2. <<x>>[1] = x
        OBVIOUS
      <4>3. head = <<x>>
        BY <3>8 DEF x
      <4> QED
        BY Zenon, <4>1, <4>2, <4>3
    <3>10. Collect(AddAttachment(packet, head[1].v))
      BY Zenon, <3>8 DEF ReceiveText, ReceiveAttachment
    <3>11. AddAttachment(First(p, k), p.payloads[k + 1]) = First(p, k + 1)
      BY Zenon, <3>4, <3>6, FirstFacts DEF n
    <3>12. Collect(First(p, k + 1))
      BY Zenon, <3>2, <3>9, <3>10, <3>11
    <3> DEFINE j == k + 1
    <3>13. j \in 0 .. p.attachments /\ done + 1 = start[r + 1] + j /\ Collect(First(p, j))
      BY Zenon, <3>6, <3>7, <3>12 DEF n
    <3> HIDE DEF j
    <3> QED
      BY Zenon, <1>2, <1>6, <1>7, <3>2, <3>13, CollectKeeps
  <2> QED
    BY Zenon, <1>2, <2>1, <2>2 DEF Progress
<1>9. History(built)'
  BY <1>2, <1>3 DEF History
<1>10. Stream(all, built, start)'
  BY <1>2
<1> QED
  BY Zenon, <1>5, <1>8, <1>9, <1>10 DEF TransferInv, Transfer

\* Every step keeps the invariant.
LEMMA TransferKeeps == TransferInv /\ [TransferNext]_transferVars => TransferInv'
<1> SUFFICES ASSUME TransferInv, [TransferNext]_transferVars PROVE TransferInv'
  OBVIOUS
<1>1. CASE \E m \in Messages : Emit(m)
  BY <1>1, EmitKeeps
<1>2. CASE Poll \/ WriteFrames
  BY <1>2, SendKeeps
<1>3. CASE ReceiveText \/ ReceiveAttachment
  BY <1>3, ReceiveKeeps
<1>4. CASE UNCHANGED transferVars
  <2>1. UNCHANGED <<emitted, buffer, frames, packet, received>>
    BY <1>4 DEF transferVars
  <2>2. PICK all, built, start, done : Transfer(all, built, start, done)
    BY Zenon DEF TransferInv
  <2>3. Stream(all, built, start) /\ Line(all, done) /\ Progress(built, start, done) /\ History(built)
    BY Zenon, <2>2 DEF Transfer
  <2>4. Line(all, done)'
    BY <2>1, <2>3 DEF Line
  <2>5. Progress(built, start, done)'
    BY <2>1, <2>3 DEF Progress, Waiting
  <2>6. History(built)' /\ Stream(all, built, start)'
    BY <2>1, <2>3 DEF History
  <2> QED
    BY Zenon, <2>4, <2>5, <2>6 DEF TransferInv, Transfer
<1> QED
  BY <1>1, <1>2, <1>3, <1>4 DEF TransferNext

\* What arrived is what was built for what was sent.
LEMMA ReceivedWell ==
  ASSUME TransferInv, NEW i \in DOMAIN received
  PROVE  WellBuilt(received[i], emitted[i])
<1>1. PICK all, built, start, done : Transfer(all, built, start, done)
  BY Zenon DEF TransferInv
<1>2. Progress(built, start, done) /\ History(built)
  BY Zenon, <1>1 DEF Transfer
<1>3. /\ received \in Seq(Built) /\ Len(received) <= Len(built)
      /\ \A j \in 1 .. Len(received) : received[j] = built[j]
  BY <1>2 DEF Progress
<1>4. /\ emitted \in Seq(Messages) /\ Len(built) = Len(emitted)
      /\ \A j \in 1 .. Len(built) : built[j] \in Build(emitted[j])
  BY <1>2 DEF History
<1>5. i \in 1 .. Len(received) /\ i \in 1 .. Len(built)
  <2>1. Len(received) \in Nat /\ DOMAIN received = 1 .. Len(received) /\ Len(emitted) \in Nat
    BY <1>3, <1>4
  <2> QED
    BY <1>3, <1>4, <2>1
<1>6. received[i] \in Build(emitted[i]) /\ emitted[i] \in Messages
  BY <1>3, <1>4, <1>5
<1> QED
  BY Zenon, <1>6, BuiltWell

\* For any messages and any number of them, over polls and WebSocket frames in any
\* order, every packet received in full has the kind, the namespace, the id and the
\* values of the message sent at its place.
\* (Encode, Decode, deconstructNode, reconstructNode, AddAttachment, IsComplete.)
THEOREM PacketsReassembled == TransferSpec => []Reassembled
<1>1. TransferInv => Reassembled
  <2> SUFFICES ASSUME TransferInv, NEW i \in DOMAIN received
               PROVE  /\ received[i].type \in TypesOf(emitted[i])
                      /\ received[i].ns = emitted[i].ns /\ received[i].id = emitted[i].id
                      /\ SameValues(Original(emitted[i]), ReconstructedData(received[i]))
    BY Zenon DEF Reassembled
  <2> QED
    BY Zenon, ReceivedWell DEF WellBuilt
<1> QED
  BY <1>1, StartsEmpty, TransferKeeps, PTL DEF TransferSpec

\* For any messages, the handler of an event without binary data gets the name and
\* the arguments that the sender gave.  (NewEventPacket, EventName and EventArgs.)
THEOREM HandlersServed == TransferSpec => []HandlersGetArguments
<1>1. TransferInv => HandlersGetArguments
  <2> SUFFICES ASSUME TransferInv, NEW i \in DOMAIN received, received[i].type = EVENT
               PROVE  /\ HasName(received[i].data)
                      /\ EventName(received[i].data) = emitted[i].name
                      /\ EventArgs(received[i].data) = emitted[i].args
    BY Zenon DEF HandlersGetArguments
  <2> QED
    BY Zenon, ReceivedWell DEF WellBuilt
<1> QED
  BY <1>1, StartsEmpty, TransferKeeps, PTL DEF TransferSpec

===============================================================================
