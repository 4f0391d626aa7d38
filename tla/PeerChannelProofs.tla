-------------------------- MODULE PeerChannelProofs --------------------------
(***************************************************************************)
(* Proofs about PeerChannel while its ends are in touch (InTouchSpec): its  *)
(* types, that a sender forgets no message before the other end has it,    *)
(* and that both directions of a link implement ReliableDelivery, up to    *)
(* the group layer if the report holds what a packet completes.  The module begins with arithmetic on  *)
(* a circle and with what the two loops of a consumed packet compute; the  *)
(* inductive invariant then says of each direction where the send queue,   *)
(* the receive queue and the packets in flight stand in one stream of      *)
(* fragments.                                                              *)
(***************************************************************************)
EXTENDS PeerChannel, FiniteSetTheorems, NaturalsInduction, WellFoundedInduction, TLAPS

(***************************************************************************)
(* Numbers on a circle                                                     *)
(***************************************************************************)
LEMMA Least ==
  ASSUME NEW S \in SUBSET Nat, S # {}
  PROVE  \E i \in S : \A j \in S : ~(j < i)
<1> DEFINE R == {p \in Nat \X Nat : p[1] < p[2]}
<1>1. IsWellFoundedOn(R, Nat)
  BY NatLessThanWellFounded DEF OpToRel
<1>2. \E i \in S : \A j \in S : ~(<<j, i>> \in R)
  <2> HIDE DEF R
  <2> QED BY <1>1, WFMin
<1> QED BY <1>2

LEMMA Division ==
  ASSUME NEW m \in Nat \ {0}, NEW x \in Nat
  PROVE  /\ x = m * (x \div m) + (x % m)
         /\ x % m \in 0..m-1 /\ x \div m \in Nat
OBVIOUS

LEMMA OneRemainder ==
  ASSUME NEW m \in Nat \ {0}, NEW p \in Nat, NEW q \in Nat,
         NEW s \in 0..m-1, NEW t \in 0..m-1, p <= q, m * q + s = m * p + t
  PROVE  s = t
<1>1. CASE p = q
  BY <1>1
<1>2. CASE p < q
  <2>1. PICK d \in Nat : q = p + d /\ d >= 1
    BY <1>2
  <2> DEFINE a == m * p
             b == m * d
             c == m * q
  <2>2. a \in Nat /\ b \in Nat /\ c \in Nat /\ b >= m /\ c = a + b /\ c + s = a + t
    BY <2>1
  <2> HIDE DEF a, b, c
  <2> QED BY <2>2
<1> QED BY <1>1, <1>2

LEMMA Remainder ==
  ASSUME NEW m \in Nat \ {0}, NEW q \in Nat, NEW s \in 0..m-1
  PROVE  (m * q + s) % m = s
<1> DEFINE x == m * q + s
           p == x \div m
           t == x % m
<1>1. x \in Nat
  OBVIOUS
<1>2. x = m * p + t /\ t \in 0..m-1 /\ p \in Nat
  BY <1>1, Division
<1> HIDE DEF p, t
<1>3. s = t
  BY <1>2, OneRemainder
<1> QED BY <1>3 DEF t

(* A step of less than a round. *)
LEMMA Onward ==
  ASSUME NEW m \in Nat \ {0}, NEW x \in Nat, NEW d \in 0..m-1
  PROVE  (x + d) % m = IF (x % m) + d < m THEN (x % m) + d ELSE (x % m) + d - m
<1> DEFINE q == x \div m
           s == x % m
           z == s + d
           a == m * q
<1>1. x = m * q + s /\ q \in Nat /\ s \in 0..m-1
  BY Division
<1>2. a \in Nat /\ m * (q + 1) = a + m /\ x = a + s
  BY <1>1
<1> HIDE DEF q, s
<1>3. x + d = a + z /\ z \in Nat
  BY <1>1, <1>2
<1> HIDE DEF a
<1>4. CASE z < m
  <2>1. (m * q + z) % m = z
    <3>1. z \in 0..m-1
      BY <1>3, <1>4
    <3> HIDE DEF z
    <3> QED BY <1>1, <3>1, Remainder
  <2> QED BY <2>1, <1>3, <1>4 DEF a, s
<1>5. CASE z >= m
  <2> DEFINE y == z - m
  <2>1. y \in 0..m-1 /\ x + d = m * (q + 1) + y
    BY <1>1, <1>2, <1>3, <1>5
  <2> HIDE DEF y, z
  <2>2. (m * (q + 1) + y) % m = y
    <3>1. q + 1 \in Nat
      BY <1>1
    <3> QED BY <2>1, <3>1, Remainder, Zenon
  <2>3. (x + d) % m = y
    BY <2>1, <2>2
  <2>4. y = s + d - m /\ ~(s + d < m)
    BY <1>1, <1>5 DEF y, z
  <2> QED BY <2>3, <2>4 DEF s
<1> QED BY <1>1, <1>4, <1>5 DEF s

(* Whole rounds change nothing. *)
LEMMA Rounds ==
  ASSUME NEW m \in Nat \ {0}, NEW x \in Nat, NEW k \in Nat
  PROVE  (m * k + x) % m = x % m
<1> DEFINE q == x \div m
           s == x % m
           a == m * q
           b == m * (k + q)
           c == m * k
<1>1. x = a + s /\ q \in Nat /\ s \in 0..m-1
  BY Division
<1> HIDE DEF q, s
<1>2. a \in Nat /\ c \in Nat /\ b = a + c
  BY <1>1
<1> HIDE DEF a, b, c
<1>3. c + x = b + s
  BY <1>1, <1>2
<1>4. (m * (k + q) + s) % m = s
  BY <1>1, Remainder
<1> QED BY <1>3, <1>4 DEF b, c, s

(* A circle whose size divides that of another one runs with it. *)
LEMMA Nested ==
  ASSUME NEW m \in Nat \ {0}, NEW n \in Nat \ {0}, m % n = 0, NEW x \in Nat
  PROVE  (x % m) % n = x % n
<1> DEFINE t == m \div n
           q == x \div m
           s == x % m
<1>1. m = n * t /\ t \in Nat
  BY Division
<1>2. x = m * q + s /\ q \in Nat /\ s \in Nat
  BY Division
<1> HIDE DEF t, q, s
<1>3. m * q = n * (t * q) /\ t * q \in Nat
  BY <1>1, <1>2
<1>4. (n * (t * q) + s) % n = s % n
  BY <1>2, <1>3, Rounds
<1> QED BY <1>2, <1>3, <1>4 DEF s

LEMMA AheadOf ==
  ASSUME NEW m \in Nat \ {0}, NEW a \in 0..m-1, NEW b \in 0..m-1
  PROVE  Ahead(a, b, m) = IF a <= b THEN b - a ELSE b + m - a
<1>1. CASE a <= b
  <2>1. Ahead(a, b, m) = (m * 1 + (b - a)) % m
    BY <1>1 DEF Ahead
  <2> QED BY <1>1, <2>1, Remainder
<1>2. CASE a > b
  <2>1. Ahead(a, b, m) = (m * 0 + (b + m - a)) % m
    BY <1>2 DEF Ahead
  <2> QED BY <1>2, <2>1, Remainder
<1> QED BY <1>1, <1>2

(* What lies less than a round ahead, and less than a round behind. *)
LEMMA AheadBy ==
  ASSUME NEW m \in Nat \ {0}, NEW x \in Nat, NEW d \in 0..m-1
  PROVE  Ahead(x % m, (x + d) % m, m) = d
<1> DEFINE u == x % m
           v == (x + d) % m
<1>1. u \in 0..m-1 /\ v \in 0..m-1
  BY Division
<1>3. v = IF u + d < m THEN u + d ELSE u + d - m
  BY Onward, Zenon
<1> HIDE DEF u, v
<1>2. Ahead(u, v, m) = d
  BY <1>1, <1>3, AheadOf
<1> QED BY <1>2 DEF u, v

LEMMA BehindBy ==
  ASSUME NEW m \in Nat \ {0}, NEW x \in Nat, NEW d \in 1..m
  PROVE  Ahead((x + d) % m, x % m, m) = m - d
<1> DEFINE u == x % m
           v == (x + d) % m
<1>1. u \in 0..m-1 /\ v \in 0..m-1
  BY Division
<1>2. CASE d = m
  <2>1. u = v
    <3>1. (m * 1 + x) % m = x % m
      BY Rounds
    <3> QED BY <3>1, <1>2
  <2> HIDE DEF u, v
  <2>2. Ahead(v, u, m) = 0
    BY <1>1, <2>1, AheadOf
  <2> QED BY <1>2, <2>2 DEF u, v
<1>3. CASE d < m
  <2>1. v = IF u + d < m THEN u + d ELSE u + d - m
    <3>1. d \in 0..m-1
      BY <1>3
    <3> QED BY <3>1, Onward, Zenon
  <2> HIDE DEF u, v
  <2>2. Ahead(v, u, m) = m - d
    BY <1>1, <1>3, <2>1, AheadOf
  <2> QED BY <2>2 DEF u, v
<1> QED BY <1>2, <1>3

LEMMA Apart ==
  ASSUME NEW m \in Nat \ {0}, NEW x \in Nat, NEW y \in Nat, x < y, y < x + m
  PROVE  x % m # y % m
<1> DEFINE d == y - x
           u == x % m
           v == (x + d) % m
<1>1. y = x + d /\ d \in 1..m-1 /\ x + d = y
  OBVIOUS
<1>2. u \in 0..m-1
  BY Division
<1>4. v = IF u + d < m THEN u + d ELSE u + d - m
  <2>1. d \in 0..m-1
    BY <1>1
  <2> HIDE DEF d
  <2> QED BY <2>1, Onward, Zenon
<1>3. y % m = v
  BY <1>1
<1> HIDE DEF d, u, v
<1> QED BY <1>1, <1>2, <1>3, <1>4 DEF u

(***************************************************************************)
(* The loops of a consumed packet                                          *)
(***************************************************************************)
Accepting(x, records) ==
    CHOOSE after : after = [i \in 0..Len(records) |->
        IF i = 0 THEN x ELSE AcceptRecord(after[i - 1], records[i])]

LEMMA AcceptingSteps ==
  ASSUME NEW x, NEW records, Len(records) \in Nat
  PROVE  /\ AcceptRecords(x, records) = Accepting(x, records)[Len(records)]
         /\ Accepting(x, records)[0] = x
         /\ \A i \in 1..Len(records) :
               Accepting(x, records)[i] = AcceptRecord(Accepting(x, records)[i - 1], records[i])
<1> DEFINE Runs(n, f) == f = [i \in 0..n |-> IF i = 0 THEN x ELSE AcceptRecord(f[i - 1], records[i])]
           Bad == {n \in Nat : ~\E f : Runs(n, f)}
<1>1. Bad = {}
  <2> SUFFICES ASSUME Bad # {} PROVE FALSE
    OBVIOUS
  <2>1. PICK m \in Bad : \A j \in Bad : ~(j < m)
    BY Least
  <2>2. m # 0
    <3>1. Runs(0, [i \in 0..0 |-> x])
      OBVIOUS
    <3> QED BY <3>1
  <2>3. PICK f : Runs(m - 1, f)
    BY <2>1, <2>2
  <2> DEFINE g == [i \in 0..m |-> IF i < m THEN f[i] ELSE AcceptRecord(f[m - 1], records[m])]
  <2>4. ASSUME NEW i \in 0..m PROVE g[i] = IF i = 0 THEN x ELSE AcceptRecord(g[i - 1], records[i])
    BY <2>2, <2>3, <2>4
  <2>5. Runs(m, g)
    BY <2>4
  <2> QED BY <2>5, <2>1
<1>2. \E f : Runs(Len(records), f)
  BY <1>1
<1>3. Accepting(x, records) = CHOOSE f : Runs(Len(records), f)
  BY Zenon DEF Accepting
<1>4. Runs(Len(records), Accepting(x, records))
  <2> HIDE DEF Runs
  <2> QED BY <1>2, <1>3, Zenon
<1>5. AcceptRecords(x, records) = Accepting(x, records)[Len(records)]
  BY Zenon DEF AcceptRecords, Accepting
<1> HIDE DEF Accepting
<1> QED BY <1>4, <1>5

Handing(x) ==
    CHOOSE upTo : upTo = [i \in 0..Len(Waiting(x)) |->
        IF i = 0 THEN <<>>
        ELSE IF Waiting(x)[i].short
             THEN Append(upTo[i - 1], IF Waiting(x)[i].part <= i THEN Waiting(x)[i].message ELSE 0)
             ELSE upTo[i - 1]]

LEMMA HandingExists ==
  ASSUME NEW w, Len(w) \in Nat
  PROVE  \E upTo : upTo = [i \in 0..Len(w) |->
        IF i = 0 THEN <<>>
        ELSE IF w[i].short
             THEN Append(upTo[i - 1], IF w[i].part <= i THEN w[i].message ELSE 0)
             ELSE upTo[i - 1]]
<1> DEFINE One(s, i) == IF w[i].short
                        THEN Append(s, IF w[i].part <= i THEN w[i].message ELSE 0) ELSE s
           Runs(n, f) == f = [i \in 0..n |-> IF i = 0 THEN <<>> ELSE One(f[i - 1], i)]
           Bad == {n \in Nat : ~\E f : Runs(n, f)}
<1>1. Bad = {}
  <2> HIDE DEF One
  <2> SUFFICES ASSUME Bad # {} PROVE FALSE
    OBVIOUS
  <2>1. PICK m \in Bad : \A j \in Bad : ~(j < m)
    BY Least
  <2>2. m # 0
    <3>1. Runs(0, [i \in 0..0 |-> <<>>])
      OBVIOUS
    <3> QED BY <3>1
  <2>3. PICK f : Runs(m - 1, f)
    <3>1. m - 1 \in Nat /\ m - 1 < m
      BY <2>2
    <3>2. m - 1 \notin Bad
      BY <2>1, <3>1
    <3> QED BY <3>1, <3>2
  <2> DEFINE g == [i \in 0..m |-> IF i < m THEN f[i] ELSE One(f[m - 1], m)]
  <2>4. ASSUME NEW i \in 0..m PROVE g[i] = IF i = 0 THEN <<>> ELSE One(g[i - 1], i)
    BY <2>2, <2>3, <2>4
  <2>5. Runs(m, g)
    BY <2>4
  <2> QED BY <2>5, <2>1
<1>2. \E f : Runs(Len(w), f)
  BY <1>1
<1> QED BY <1>2, Zenon

LEMMA HandingSteps ==
  ASSUME NEW x, Len(Waiting(x)) \in Nat
  PROVE  /\ Messages(x) = Handing(x)[Len(Waiting(x))]
         /\ Handing(x)[0] = <<>>
         /\ \A i \in 1..Len(Waiting(x)) :
               Handing(x)[i] =
                   IF Waiting(x)[i].short
                   THEN Append(Handing(x)[i - 1],
                               IF Waiting(x)[i].part <= i THEN Waiting(x)[i].message ELSE 0)
                   ELSE Handing(x)[i - 1]
<1>1. Messages(x) = Handing(x)[Len(Waiting(x))]
  BY Zenon DEF Messages, Handing
<1>2. Handing(x) = [i \in 0..Len(Waiting(x)) |->
        IF i = 0 THEN <<>>
        ELSE IF Waiting(x)[i].short
             THEN Append(Handing(x)[i - 1], IF Waiting(x)[i].part <= i THEN Waiting(x)[i].message ELSE 0)
             ELSE Handing(x)[i - 1]]
  <2> DEFINE w == Waiting(x)
             P(upTo) == upTo = [i \in 0..Len(w) |->
                 IF i = 0 THEN <<>>
                 ELSE IF w[i].short
                      THEN Append(upTo[i - 1], IF w[i].part <= i THEN w[i].message ELSE 0)
                      ELSE upTo[i - 1]]
  <2>1. Handing(x) = CHOOSE upTo : P(upTo)
    BY Zenon DEF Handing
  <2>2. \E upTo : P(upTo)
    <3> HIDE DEF w
    <3>1. Len(w) \in Nat
      BY DEF w
    <3> QED BY <3>1, HandingExists, Zenon
  <2>3. P(CHOOSE upTo : P(upTo))
    <3> HIDE DEF P
    <3> QED BY <2>2, Zenon
  <2> QED BY <2>1, <2>3, Zenon
<1> HIDE DEF Handing
<1> DEFINE w == Waiting(x)
           f == Handing(x)
           One(s, i) == IF w[i].short
                        THEN Append(s, IF w[i].part <= i THEN w[i].message ELSE 0)
                        ELSE s
<1>3. /\ Len(w) \in Nat
      /\ f = [i \in 0..Len(w) |-> IF i = 0 THEN <<>> ELSE One(f[i - 1], i)]
  BY <1>2, Zenon
<1> HIDE DEF w, f, One
<1>4. /\ f[0] = <<>>
      /\ \A i \in 1..Len(w) : f[i] = One(f[i - 1], i)
  BY <1>3
<1> QED BY <1>1, <1>4, Zenon DEF w, f, One

(***************************************************************************)
(* Bounds                                                                  *)
(***************************************************************************)
LEMMA MaxOf ==
  ASSUME NEW S \in SUBSET Nat, S # {}, NEW b \in Nat, \A i \in S : i <= b
  PROVE  Max(S) \in S /\ \A i \in S : i <= Max(S)
<1> DEFINE B == {c \in Nat : \A i \in S : i <= c}
<1>1. PICK c \in B : \A j \in B : ~(j < c)
  BY Least
<1>2. c \in S
  <2> SUFFICES ASSUME c \notin S PROVE FALSE
    OBVIOUS
  <2>1. c # 0
    <3>1. PICK i \in S : TRUE
      OBVIOUS
    <3> QED BY <1>1, <3>1
  <2>2. c - 1 \in B
    BY <1>1, <2>1
  <2> QED BY <1>1, <2>2
<1>3. \E x \in S : \A y \in S : x >= y
  BY <1>1, <1>2
<1>4. Max(S) \in S /\ \A y \in S : Max(S) >= y
  BY <1>3, Zenon DEF Max
<1> QED BY <1>4

LEMMA Sizes ==
  /\ RingSize \in Nat \ {0} /\ AckHistory \in Nat \ {0} /\ ReliableSlots \in Nat \ {0}
  /\ OutboundSlots \in Nat \ {0} /\ ReportCapacity \in Nat \ {0} /\ PeerBurst \in Nat \ {0}
  /\ MaxLag \in Nat \ {0} /\ PacketModulus \in Nat \ {0} /\ MessageModulus \in Nat \ {0}
  /\ HostMessages \in Nat \ {0} /\ PeerMessages \in Nat \ {0}
  /\ RingSize < PacketModulus /\ PacketModulus % RingSize = 0
  /\ ReliableSlots < MessageModulus /\ MessageModulus % ReliableSlots = 0
  /\ PeerBurst <= ReliableSlots
  /\ 2 * MaxLag <= RingSize
<1>1. MaxLag <= RingSize \div 2
  BY PeerAssumption
<1>2. RingSize \in Nat
  BY ChannelAssumption
<1>3. 2 * (RingSize \div 2) <= RingSize
  BY <1>2
<1>4. PICK n : n \in Lengths /\ n \in Nat \ {0} /\ PeerBurst + n - 1 <= ReliableSlots
  BY ChannelAssumption, PeerAssumption
<1> QED BY <1>1, <1>3, <1>4, ChannelAssumption, PeerAssumption

LEMMA LongestMessage ==
  Max(Lengths) \in Nat \ {0} /\ \A n \in Lengths : n <= Max(Lengths)
<1>1. \A n \in Lengths : n <= ReliableSlots
  BY Sizes, ChannelAssumption, PeerAssumption
<1> QED BY <1>1, Sizes, MaxOf, ChannelAssumption

LEMMA MostMessages ==
  MaxMessages \in Nat \ {0} /\ HostMessages <= MaxMessages /\ PeerMessages <= MaxMessages
<1> DEFINE S == {HostMessages, PeerMessages}
<1>1. S \in SUBSET Nat /\ S # {} /\ \A i \in S : i <= HostMessages + PeerMessages
  BY Sizes
<1>2. HostMessages + PeerMessages \in Nat
  BY Sizes
<1>3. Max(S) \in S /\ \A i \in S : i <= Max(S)
  <2> HIDE DEF S
  <2> QED BY <1>1, <1>2, MaxOf
<1> QED BY <1>3, Sizes DEF MaxMessages

(***************************************************************************)
(* The stream of fragments an end has queued                               *)
(***************************************************************************)
(* How many messages the first i fragments complete. *)
Closed(Q, i) ==
    IF i = 0 THEN 0 ELSE IF Q[i].short THEN Q[i].message ELSE Q[i].message - 1

(* Each message is a run of fragments that ends with the only short one,   *)
(* and messages follow one another in the order they were accepted.        *)
Stream(Q, count) ==
    /\ Q \in Seq(Fragment) /\ Len(Q) >= 1
    /\ \A i \in 1..Len(Q) : /\ Q[i].sequence = i % MessageModulus
                            /\ Q[i].message = Closed(Q, i - 1) + 1
                            /\ Q[i].part <= i
                            /\ ~Q[i].short => PeerBurst + Q[i].part <= ReliableSlots
    /\ \A i, j \in 0..Len(Q) :
          i <= j => Closed(Q, i) <= Closed(Q, j) /\ Closed(Q, j) <= Closed(Q, i) + (j - i)
    /\ \A i, j \in 1..Len(Q) : i < j /\ Q[i].short => Q[j].part <= j - i
    /\ \A i \in 0..Len(Q), j \in 1..Len(Q) :
          i < j /\ (\A k \in i + 1 .. j - 1 : ~Q[k].short) => j - i <= Q[j].part
    /\ Q[Len(Q)].short /\ Q[Len(Q)].message = count
    /\ \A m \in 1..count : \E i \in 1..Len(Q) : Q[i].short /\ Q[i].message = m

(* The fragments of one more message. *)
Split(Q, message, n) ==
    [i \in 1..n |-> [sequence |-> (Len(Q) + i) % MessageModulus, message |-> message,
                     part |-> i, short |-> i = n]]

LEMMA SplitTyped ==
  ASSUME NEW N \in Nat, NEW message \in 1..MaxMessages, NEW n \in Lengths \cup {1}, NEW i \in 1..n
  PROVE  [sequence |-> (N + i) % MessageModulus, message |-> message,
          part |-> i, short |-> i = n] \in Fragment
<1>1. (N + i) % MessageModulus \in 0..MessageModulus - 1
  <2>1. N + i \in Nat /\ MessageModulus \in Nat \ {0}
    BY Sizes, ChannelAssumption
  <2> QED BY <2>1, Division
<1>2. i \in 1..Max(Lengths)
  BY LongestMessage, ChannelAssumption
<1> DEFINE s == (N + i) % MessageModulus
<1> HIDE DEF s
<1> QED BY <1>1, <1>2 DEF Fragment, s

LEMMA StreamStarts ==
  Stream(Split(<<>>, Establish, 1), Establish)
<1> DEFINE Q == Split(<<>>, Establish, 1)
<1>1. 1 \in 1..MaxMessages
  BY MostMessages
<1>2. Q = [i \in 1..1 |-> [sequence |-> i % MessageModulus, message |-> 1, part |-> i, short |-> i = 1]]
  BY DEF Split, Establish
<1> HIDE DEF Q
<1>3. \A i \in 1..1 : Q[i] \in Fragment
  <2>1. [sequence |-> (0 + 1) % MessageModulus, message |-> 1, part |-> 1, short |-> 1 = 1] \in Fragment
    BY <1>1, SplitTyped
  <2> QED BY <1>2, <2>1
<1>4. Q \in Seq(Fragment) /\ Len(Q) = 1
  BY <1>2, <1>3
<1>5. Q[1].sequence = 1 % MessageModulus /\ Q[1].message = 1 /\ Q[1].part = 1 /\ Q[1].short
  <2>1. Q[1] = [sequence |-> 1 % MessageModulus, message |-> 1, part |-> 1, short |-> 1 = 1]
    BY <1>2
  <2>2. Q[1].short = (1 = 1)
    BY <2>1
  <2>3. Q[1].short
    BY <2>2, Zenon
  <2> QED BY <2>1, <2>3
<1>6. Closed(Q, 0) = 0 /\ Closed(Q, 1) = 1
  BY <1>5 DEF Closed
<1> QED BY <1>4, <1>5, <1>6 DEF Stream, Establish, Q

LEMMA StreamGrows ==
  ASSUME NEW Q, NEW count \in Nat, Stream(Q, count), count + 1 <= MaxMessages,
         NEW n \in Lengths \cup {1}
  PROVE  /\ Stream(Q \o Split(Q, count + 1, n), count + 1)
         /\ Len(Q \o Split(Q, count + 1, n)) = Len(Q) + n
         /\ \A i \in 1..Len(Q) : (Q \o Split(Q, count + 1, n))[i] = Q[i]
         /\ \A i \in 1..n : (Q \o Split(Q, count + 1, n))[Len(Q) + i] = Split(Q, count + 1, n)[i]
         /\ Split(Q, count + 1, n) \in Seq(Fragment) /\ Len(Split(Q, count + 1, n)) = n
<1> DEFINE N == Len(Q)
           T == Split(Q, count + 1, n)
           P == Q \o T
<1>1. N \in Nat /\ N >= 1 /\ n \in Nat \ {0} /\ Q \in Seq(Fragment)
  BY ChannelAssumption DEF Stream
<1>17. /\ Q[N].short /\ Q[N].message = count
       /\ \A m \in 1..count : \E i \in 1..N : Q[i].short /\ Q[i].message = m
  BY DEF Stream
<1>2. T = [i \in 1..n |-> [sequence |-> (N + i) % MessageModulus, message |-> count + 1,
                          part |-> i, short |-> i = n]]
  BY DEF Split
<1>3. \A i \in 1..n : T[i] \in Fragment
  BY <1>1, <1>2, SplitTyped, MostMessages
<1>4. T \in Seq(Fragment) /\ Len(T) = n
  BY <1>1, <1>2, <1>3
<1> HIDE DEF T
<1>5. /\ P \in Seq(Fragment) /\ Len(P) = N + n
      /\ \A i \in 1..N : P[i] = Q[i]
      /\ \A i \in 1..n : P[N + i] = T[i]
  BY <1>1, <1>4
<1> HIDE DEF P
<1>6. \A i \in N + 1 .. N + n : /\ P[i].sequence = i % MessageModulus
                                /\ P[i].message = count + 1
                                /\ P[i].part = i - N
                                /\ P[i].short <=> i = N + n
  <2> SUFFICES ASSUME NEW i \in N + 1 .. N + n
               PROVE  /\ P[i].sequence = i % MessageModulus
                      /\ P[i].message = count + 1
                      /\ P[i].part = i - N
                      /\ P[i].short <=> i = N + n
    OBVIOUS
  <2>1. PICK k \in 1..n : i = N + k
    <3>1. i - N \in 1..n /\ i = N + (i - N)
      BY <1>1
    <3> QED BY <3>1
  <2>2. P[i] = T[k] /\ (k = n <=> i = N + n)
    <3>1. P[N + k] = T[k]
      BY <1>5, <2>1
    <3> QED BY <1>1, <2>1, <3>1
  <2>3. T[k] = [sequence |-> (N + k) % MessageModulus, message |-> count + 1,
                part |-> k, short |-> k = n]
    BY <1>2
  <2>4. P[i].sequence = i % MessageModulus /\ P[i].message = count + 1 /\ P[i].part = k
    BY <2>1, <2>2, <2>3
  <2>5. P[i].short = (k = n)
    BY <2>2, <2>3
  <2>6. P[i].short <=> k = n
    BY <2>5, Zenon
  <2>7. k = n <=> i = N + n
    BY <1>1, <2>1
  <2>8. k = i - N
    BY <1>1, <2>1
  <2> QED BY <2>4, <2>6, <2>7, <2>8, Zenon
<1>7. \A i \in 0..N : Closed(P, i) = Closed(Q, i)
  BY <1>1, <1>5 DEF Closed
<1>8. \A i \in N + 1 .. N + n : Closed(P, i) = IF i = N + n THEN count + 1 ELSE count
  BY <1>1, <1>6 DEF Closed
<1>9. Closed(P, N) = count
  <2>1. N \in 0..N /\ N # 0
    BY <1>1
  <2>2. Closed(Q, N) = count
    BY <1>17, <2>1 DEF Closed
  <2> QED BY <1>7, <2>1, <2>2
<1>10. \A i \in 1..N + n : /\ P[i].sequence = i % MessageModulus
                           /\ P[i].message = Closed(P, i - 1) + 1
                           /\ P[i].part <= i
                           /\ ~P[i].short => PeerBurst + P[i].part <= ReliableSlots
  <2> SUFFICES ASSUME NEW i \in 1..N + n
               PROVE  /\ P[i].sequence = i % MessageModulus
                      /\ P[i].message = Closed(P, i - 1) + 1
                      /\ P[i].part <= i
                      /\ ~P[i].short => PeerBurst + P[i].part <= ReliableSlots
    OBVIOUS
  <2>1. CASE i <= N
    <3>1. i \in 1..N /\ i - 1 \in 0..N
      BY <1>1, <2>1
    <3>2. P[i] = Q[i] /\ Closed(P, i - 1) = Closed(Q, i - 1)
      BY <1>5, <1>7, <3>1
    <3> QED BY <3>1, <3>2 DEF Stream
  <2>2. CASE i > N
    <3>1. i \in N + 1 .. N + n
      BY <1>1, <2>2
    <3>2. Closed(P, i - 1) = count
      <4>1. CASE i - 1 = N
        BY <1>9, <4>1
      <4>2. CASE i - 1 # N
        <5>1. i - 1 \in N + 1 .. N + n /\ i - 1 # N + n
          BY <1>1, <3>1, <4>2
        <5> QED BY <1>8, <5>1
      <4> QED BY <4>1, <4>2
    <3>3. i # N + n => PeerBurst + (i - N) <= ReliableSlots
      <4> SUFFICES ASSUME i # N + n PROVE PeerBurst + (i - N) <= ReliableSlots
        OBVIOUS
      <4>1. n \in Lengths /\ i - N <= n - 1
        BY <1>1, <3>1
      <4> QED BY <1>1, <3>1, <4>1, Sizes, PeerAssumption
    <3> QED BY <1>1, <1>6, <3>1, <3>2, <3>3
  <2> QED BY <1>1, <2>1, <2>2
<1>11. ASSUME NEW i \in 0..N + n, NEW j \in 0..N + n, i <= j
       PROVE  Closed(P, i) <= Closed(P, j) /\ Closed(P, j) <= Closed(P, i) + (j - i)
  <2>1. \A k \in 0..N : /\ Closed(P, k) \in Int /\ Closed(P, k) <= count
                        /\ count <= Closed(P, k) + (N - k)
    <3> TAKE k \in 0..N
    <3>1. Closed(Q, k) \in Int
      <4>1. k # 0 => Q[k] \in Fragment
        BY <1>1
      <4>2. k # 0 => Q[k].message \in Int
        BY <4>1, MostMessages DEF Fragment
      <4> QED BY <4>2 DEF Closed
    <3>2. N \in 0..N /\ k <= N
      BY <1>1
    <3>3. Closed(Q, k) <= Closed(Q, N) /\ Closed(Q, N) <= Closed(Q, k) + (N - k)
      BY <3>2 DEF Stream
    <3> QED BY <1>7, <1>9, <3>1, <3>2, <3>3
  <2>2. CASE j <= N
    <3>1. i \in 0..N /\ j \in 0..N
      BY <1>1, <1>11, <2>2
    <3> QED BY <1>7, <1>11, <3>1 DEF Stream
  <2>3. CASE i <= N /\ j > N
    <3>1. i \in 0..N /\ j \in N + 1 .. N + n
      BY <1>1, <2>3
    <3>2. Closed(P, j) = IF j = N + n THEN count + 1 ELSE count
      BY <1>8, <3>1
    <3>3. Closed(P, i) \in Int /\ Closed(P, i) <= count /\ count <= Closed(P, i) + (N - i)
      BY <2>1, <3>1
    <3> QED BY <1>1, <3>1, <3>2, <3>3
  <2>4. CASE i > N
    <3>1. i \in N + 1 .. N + n /\ j \in N + 1 .. N + n
      BY <1>1, <1>11, <2>4
    <3> QED BY <1>1, <1>8, <1>11, <3>1
  <2> QED BY <1>1, <2>2, <2>3, <2>4
<1>12. ASSUME NEW i \in 1..N + n, NEW j \in 1..N + n, i < j, P[i].short
       PROVE  P[j].part <= j - i
  <2>1. CASE j <= N
    <3>1. i \in 1..N /\ j \in 1..N
      BY <1>1, <1>12, <2>1
    <3> QED BY <1>5, <1>12, <3>1 DEF Stream
  <2>2. CASE j > N
    <3>1. j \in N + 1 .. N + n
      BY <1>1, <2>2
    <3>2. i <= N
      <4> SUFFICES ASSUME i > N PROVE FALSE
        BY <1>1
      <4>1. i \in N + 1 .. N + n /\ i # N + n
        BY <1>1, <1>12
      <4> QED BY <1>6, <1>12, <4>1
    <3> QED BY <1>1, <1>6, <3>1, <3>2
  <2> QED BY <1>1, <2>1, <2>2
<1>13. ASSUME NEW i \in 0..N + n, NEW j \in 1..N + n, i < j, \A k \in i + 1 .. j - 1 : ~P[k].short
       PROVE  j - i <= P[j].part
  <2>1. CASE j <= N
    <3>1. i \in 0..N /\ j \in 1..N
      BY <1>1, <1>13, <2>1
    <3>2. \A k \in i + 1 .. j - 1 : ~Q[k].short
      <4> TAKE k \in i + 1 .. j - 1
      <4>1. k \in 1..N
        BY <1>1, <3>1
      <4> QED BY <1>5, <1>13, <4>1
    <3> QED BY <1>5, <1>13, <3>1, <3>2 DEF Stream
  <2>2. CASE j > N
    <3>1. j \in N + 1 .. N + n
      BY <1>1, <2>2
    <3>2. i >= N
      <4> SUFFICES ASSUME i < N PROVE FALSE
        BY <1>1
      <4>1. N \in i + 1 .. j - 1
        BY <1>1, <3>1
      <4>2. P[N].short
        <5>1. N \in 1..N
          BY <1>1
        <5> QED BY <1>5, <1>17, <5>1
      <4> QED BY <1>13, <4>1, <4>2
    <3> QED BY <1>1, <1>6, <3>1, <3>2
  <2> QED BY <1>1, <2>1, <2>2
<1>14. P[N + n].short /\ P[N + n].message = count + 1
  BY <1>1, <1>6
<1>15. ASSUME NEW m \in 1..count + 1 PROVE \E i \in 1..N + n : P[i].short /\ P[i].message = m
  <2>1. CASE m = count + 1
    BY <1>1, <1>14, <2>1
  <2>2. CASE m # count + 1
    <3>1. PICK i \in 1..N : Q[i].short /\ Q[i].message = m
      <4>1. m \in 1..count
        BY <2>2
      <4> QED BY <1>17, <4>1
    <3> QED BY <1>1, <1>5, <3>1
  <2> QED BY <2>1, <2>2
<1>16. Stream(P, count + 1)
  BY <1>1, <1>5, <1>10, <1>11, <1>12, <1>13, <1>14, <1>15 DEF Stream
<1> QED BY <1>4, <1>5, <1>16 DEF P, T

(***************************************************************************)
(* One direction of the link                                               *)
(***************************************************************************)
(* x is the end that sends, y the end that receives; out are the datagrams *)
(* from x to y, back those from y to x, d what y has handed up.  Of the    *)
(* stream Q, the first g fragments have left the send queue, the first r   *)
(* were drained and the first h have been heard; the records of the i-th   *)
(* datagram follow the first f[i] fragments.                               *)
Datagram == [head : 0..PacketModulus - 1, ack : Ack, records : Seq(Fragment)]

(* s is what of Q comes after its first g elements. *)
Suffix(s, Q, g) ==
    /\ s \in Seq(Fragment) /\ Len(s) = Len(Q) - g
    /\ \A i \in 1..Len(Q) - g : s[i] = Q[g + i]

Sending(e, x, Q, g) ==
    /\ g \in 0..Len(Q) /\ Suffix(x.outbound, Q, g)
    /\ x.nextSequence = (Len(Q) + 1) % MessageModulus
    /\ x.sentCount \in 0..PeerBurst /\ x.sentCount <= Len(Q) - g
    /\ x.awaiting => x.sentCount >= 1
    /\ e = "host" => x.sentCount <= 1
    /\ e = "peer" /\ ~x.awaiting => x.sentCount = 0

(* What was heard is a run of the stream: what was drained, and a part of  *)
(* one message.                                                            *)
Receiving(x, y, d, Q, g, r, h) ==
    /\ r \in 0..h /\ h \in g..g + x.sentCount
    /\ y.held = {Q[i] : i \in r + 1 .. h}
    /\ \A i \in r + 1 .. h : ~Q[i].short
    /\ r > 0 => Q[r].short
    /\ IF y.started THEN y.next = (r + 1) % MessageModulus ELSE h = 0
    /\ d = [k \in 1..Closed(Q, r) |-> k]

(* How far the newest packet of x is ahead of packet n. *)
Behind(x, n) == Ahead(n % RingSize, x.head % RingSize, RingSize)

(* A datagram carries records that follow the first a fragments.  They     *)
(* were the prefix of the send queue when it left: g fragments have left   *)
(* the queue since, u have been sent, and the head is late by so much.     *)
Carrying(p, Q, a, g, u, h, late) ==
    Len(p.records) > 0 =>
       /\ a <= g /\ a + Len(p.records) <= u /\ Len(p.records) <= PeerBurst
       /\ \A k \in 1..Len(p.records) : p.records[k] = Q[a + k]
       /\ u - a <= PeerBurst * (late + 1)
       /\ ~Reorder => h <= a + Len(p.records)

Travelling(x, out, Q, g, h, f) ==
    /\ f \in [1..Len(out) -> Nat]
    /\ \A i \in 1..Len(out) :
          Carrying(out[i], Q, f[i], g, g + x.sentCount, h, Behind(x, out[i].head))
    /\ ~Reorder =>
          \A i, j \in 1..Len(out) :
             i < j /\ Len(out[i].records) > 0 /\ Len(out[j].records) > 0
                => f[i] + Len(out[i].records) <= f[j] + Len(out[j].records)

Lagging(x, y, out, back) ==
    /\ Behind(x, y.receiveHead) <= MaxLag
    /\ \A i \in 1..Len(back) : Behind(x, back[i].ack.base) <= MaxLag
    /\ \A i \in 1..Len(out) : Behind(x, out[i].head) <= MaxLag

(* Whether a number on the ring reads as the packet the prefix first left  *)
(* in or a later one.                                                      *)
Reached(x, n) == Ahead(x.sentInPacket % RingSize, n, RingSize) < RingSize \div 2

(* Whatever reads so carries the prefix, or says that it was heard.        *)
Covering(x, y, out, back, g, h, f) ==
    x.awaiting =>
       /\ \A i \in 1..Len(out) :
             Reached(x, out[i].head % RingSize)
                => f[i] = g /\ Len(out[i].records) = x.sentCount
       /\ \A i \in 1..Len(back) :
             back[i].ack.ring /\ Reached(x, back[i].ack.base) => h = g + x.sentCount
       /\ y.ring /\ Reached(x, y.receiveHead % RingSize) => h = g + x.sentCount

Placed(e, x, y, out, back, d, count, Q, g, r, h, f) ==
    /\ Stream(Q, count) /\ Sending(e, x, Q, g) /\ Receiving(x, y, d, Q, g, r, h)
    /\ Travelling(x, out, Q, g, h, f)
    /\ Lagging(x, y, out, back) /\ Covering(x, y, out, back, g, h, f)

Direction(e, x, y, out, back, d, count) ==
    \E Q, g, r, h, f : Placed(e, x, y, out, back, d, count, Q, g, r, h, f)

(* The fields each role of an end looks at. *)
SameSender(x, z) ==
    /\ x.head = z.head /\ x.outbound = z.outbound /\ x.nextSequence = z.nextSequence
    /\ x.sentInPacket = z.sentInPacket /\ x.sentCount = z.sentCount /\ x.awaiting = z.awaiting
SameReceiver(y, z) ==
    /\ y.receiveHead = z.receiveHead /\ y.ring = z.ring
    /\ y.held = z.held /\ y.started = z.started /\ y.next = z.next

LEMMA OnlyRoles ==
  ASSUME NEW e, NEW x, NEW y, NEW x2, NEW y2, NEW out, NEW back, NEW d, NEW count,
         Direction(e, x, y, out, back, d, count), SameSender(x2, x), SameReceiver(y2, y)
  PROVE  Direction(e, x2, y2, out, back, d, count)
<1>1. PICK Q, g, r, h, f : Placed(e, x, y, out, back, d, count, Q, g, r, h, f)
  BY DEF Direction
<1>2. Sending(e, x2, Q, g) /\ Receiving(x2, y2, d, Q, g, r, h)
  BY <1>1 DEF Placed, Sending, Receiving, SameSender, SameReceiver
<1>3. \A n : Behind(x2, n) = Behind(x, n) /\ (Reached(x2, n) <=> Reached(x, n))
  BY DEF Behind, Reached, SameSender
<1>4. Travelling(x2, out, Q, g, h, f)
  BY <1>1, <1>3 DEF Placed, Travelling, SameSender
<1>5. Lagging(x2, y2, out, back)
  BY <1>1, <1>3 DEF Placed, Lagging, SameReceiver
<1>6. Covering(x2, y2, out, back, g, h, f)
  BY <1>1, <1>3 DEF Placed, Covering, SameSender, SameReceiver
<1>7. Placed(e, x2, y2, out, back, d, count, Q, g, r, h, f)
  BY <1>1, <1>2, <1>4, <1>5, <1>6 DEF Placed
<1> QED BY <1>7 DEF Direction

(***************************************************************************)
(* Datagrams that are gone                                                 *)
(***************************************************************************)
Thinned(v, w) ==
    \E m \in [1..Len(v) -> 1..Len(w)] :
       /\ \A i, j \in 1..Len(v) : i < j => m[i] < m[j]
       /\ \A i \in 1..Len(v) : v[i] = w[m[i]]

LEMMA AllThere ==
  ASSUME NEW T, NEW w \in Seq(T)
  PROVE  Thinned(w, w)
<1> DEFINE m == [i \in 1..Len(w) |-> i]
<1>1. m \in [1..Len(w) -> 1..Len(w)]
  OBVIOUS
<1> QED BY <1>1 DEF Thinned

LEMMA OneGone ==
  ASSUME NEW T, NEW w \in Seq(T), NEW i \in 1..Len(w)
  PROVE  /\ RemoveAt(w, i) \in Seq(T) /\ Thinned(RemoveAt(w, i), w)
<1> DEFINE v == RemoveAt(w, i)
           n == Len(w)
           m == [k \in 1..n - 1 |-> IF k < i THEN k ELSE k + 1]
           A == SubSeq(w, 1, i - 1)
           B == SubSeq(w, i + 1, n)
<1>1. n \in Nat /\ i \in 1..n
  OBVIOUS
<1>2. A \in Seq(T) /\ Len(A) = i - 1 /\ \A k \in 1..i - 1 : A[k] = w[k]
  BY <1>1
<1>3. B \in Seq(T) /\ Len(B) = n - i /\ \A k \in 1..n - i : B[k] = w[i + k]
  BY <1>1
<1>8. v = A \o B
  BY DEF RemoveAt
<1> HIDE DEF A, B, v
<1>4. v \in Seq(T) /\ Len(v) = n - 1
  BY <1>1, <1>2, <1>3, <1>8
<1>5. ASSUME NEW k \in 1..n - 1 PROVE v[k] = w[m[k]]
  <2>1. CASE k < i
    <3>1. v[k] = A[k]
      BY <1>1, <1>2, <1>3, <1>8, <2>1
    <3> QED BY <1>2, <2>1, <3>1
  <2>2. CASE k >= i
    <3>1. PICK l \in 1..n - i : k = (i - 1) + l
      <4>1. k - (i - 1) \in 1..n - i /\ k = (i - 1) + (k - (i - 1))
        BY <1>1, <2>2
      <4> QED BY <4>1
    <3>2. v[k] = B[l]
      BY <1>1, <1>2, <1>3, <1>8, <3>1
    <3>3. m[k] = i + l
      BY <1>1, <2>2, <3>1
    <3> QED BY <1>3, <3>1, <3>2, <3>3
  <2> QED BY <1>1, <2>1, <2>2
<1>6. m \in [1..Len(v) -> 1..Len(w)]
  BY <1>1, <1>4
<1>7. \A k, j \in 1..Len(v) : k < j => m[k] < m[j]
  BY <1>1, <1>4
<1>9. Thinned(v, w)
  BY <1>4, <1>5, <1>6, <1>7 DEF Thinned
<1> QED BY <1>4, <1>9 DEF v

LEMMA NewestGone ==
  ASSUME NEW T, NEW w \in Seq(T), NEW p \in T
  PROVE  Thinned(w, Append(w, p))
<1> DEFINE v == Append(w, p)
           m == [k \in 1..Len(w) |-> k]
<1>1. Len(w) \in Nat /\ Len(v) = Len(w) + 1 /\ \A k \in 1..Len(w) : v[k] = w[k]
  OBVIOUS
<1> HIDE DEF v
<1>2. m \in [1..Len(w) -> 1..Len(v)]
  BY <1>1
<1>3. Thinned(w, v)
  BY <1>1, <1>2 DEF Thinned
<1> QED BY <1>3 DEF v

LEMMA Thinning ==
  ASSUME NEW e, NEW x, NEW y, NEW out \in Seq(Datagram), NEW back \in Seq(Datagram), NEW d, NEW count,
         NEW out2 \in Seq(Datagram), NEW back2 \in Seq(Datagram),
         Direction(e, x, y, out, back, d, count), Thinned(out2, out), Thinned(back2, back)
  PROVE  Direction(e, x, y, out2, back2, d, count)
<1>1. PICK Q, g, r, h, f : Placed(e, x, y, out, back, d, count, Q, g, r, h, f)
  BY DEF Direction
<1>2. PICK m \in [1..Len(out2) -> 1..Len(out)] :
         /\ \A i, j \in 1..Len(out2) : i < j => m[i] < m[j]
         /\ \A i \in 1..Len(out2) : out2[i] = out[m[i]]
  BY DEF Thinned
<1>3. \A i \in 1..Len(back2) : \E j \in 1..Len(back) : back2[i] = back[j]
  BY DEF Thinned
<1> DEFINE f2 == [i \in 1..Len(out2) |-> f[m[i]]]
<1>4. f2 \in [1..Len(out2) -> Nat] /\ \A i \in 1..Len(out2) : f2[i] = f[m[i]] /\ m[i] \in 1..Len(out)
  BY <1>1, <1>2 DEF Placed, Travelling
<1> HIDE DEF f2
<1>5. Travelling(x, out2, Q, g, h, f2)
  <2>1. \A i \in 1..Len(out2) :
          Carrying(out2[i], Q, f2[i], g, g + x.sentCount, h, Behind(x, out2[i].head))
    BY <1>1, <1>2, <1>4 DEF Placed, Travelling
  <2>2. ASSUME ~Reorder, NEW i \in 1..Len(out2), NEW j \in 1..Len(out2),
               i < j, Len(out2[i].records) > 0, Len(out2[j].records) > 0
        PROVE  f2[i] + Len(out2[i].records) <= f2[j] + Len(out2[j].records)
    <3>1. m[i] < m[j] /\ m[i] \in 1..Len(out) /\ m[j] \in 1..Len(out)
          /\ out2[i] = out[m[i]] /\ out2[j] = out[m[j]]
      BY <1>2, <1>4, <2>2
    <3> QED BY <1>1, <1>4, <2>2, <3>1 DEF Placed, Travelling
  <2> QED BY <1>4, <2>1, <2>2 DEF Travelling
<1>6. Lagging(x, y, out2, back2)
  BY <1>1, <1>2, <1>3, <1>4 DEF Placed, Lagging
<1>7. Covering(x, y, out2, back2, g, h, f2)
  <2> SUFFICES ASSUME x.awaiting
               PROVE  /\ \A i \in 1..Len(out2) :
                            Reached(x, out2[i].head % RingSize)
                               => f2[i] = g /\ Len(out2[i].records) = x.sentCount
                      /\ \A i \in 1..Len(back2) :
                            back2[i].ack.ring /\ Reached(x, back2[i].ack.base) => h = g + x.sentCount
                      /\ y.ring /\ Reached(x, y.receiveHead % RingSize) => h = g + x.sentCount
    BY DEF Covering
  <2>1. Covering(x, y, out, back, g, h, f)
    BY <1>1 DEF Placed
  <2>2. ASSUME NEW i \in 1..Len(out2), Reached(x, out2[i].head % RingSize)
        PROVE  f2[i] = g /\ Len(out2[i].records) = x.sentCount
    <3>1. out2[i] = out[m[i]] /\ f2[i] = f[m[i]] /\ m[i] \in 1..Len(out)
      BY <1>2, <1>4
    <3>2. Reached(x, out[m[i]].head % RingSize)
      BY <2>2, <3>1
    <3>3. f[m[i]] = g /\ Len(out[m[i]].records) = x.sentCount
      BY <2>1, <3>1, <3>2 DEF Covering
    <3> QED BY <3>1, <3>3
  <2>3. ASSUME NEW i \in 1..Len(back2), back2[i].ack.ring, Reached(x, back2[i].ack.base)
        PROVE  h = g + x.sentCount
    BY <1>3, <2>1, <2>3 DEF Covering
  <2> QED BY <2>1, <2>2, <2>3 DEF Covering
<1>8. Placed(e, x, y, out2, back2, d, count, Q, g, r, h, f2)
  BY <1>1, <1>5, <1>6, <1>7 DEF Placed
<1> QED BY <1>8 DEF Direction

(***************************************************************************)
(* What the sending end does to its direction                              *)
(***************************************************************************)
LEMMA Shifted ==
  ASSUME NEW m \in Nat \ {0}, NEW x \in Nat, NEW c \in Nat
  PROVE  ((x % m) + c) % m = (x + c) % m
<1> DEFINE q == x \div m
           s == x % m
           z == s + c
           a == m * q
<1>1. x = a + s /\ q \in Nat /\ s \in Nat /\ a \in Nat
  BY Division
<1> HIDE DEF q, s
<1>2. z \in Nat
  BY <1>1
<1>3. x + c = a + z
  BY <1>1
<1> HIDE DEF z
<1>4. (m * q + z) % m = z % m
  BY <1>1, <1>2, Rounds
<1> QED BY <1>3, <1>4 DEF z, s

LEMMA QueueGrows ==
  ASSUME NEW s, NEW Q \in Seq(Fragment), NEW g \in 0..Len(Q), Suffix(s, Q, g),
         NEW T \in Seq(Fragment)
  PROVE  Suffix(s \o T, Q \o T, g)
<1> DEFINE N == Len(Q)
           n == Len(T)
           a == N - g
           S == s \o T
           P == Q \o T
<1>1. /\ a \in Nat /\ Len(s) = a /\ s \in Seq(Fragment) /\ n \in Nat /\ N \in Nat
      /\ \A i \in 1..a : s[i] = Q[g + i]
  BY DEF Suffix
<1>2. /\ S \in Seq(Fragment) /\ Len(S) = a + n
      /\ \A i \in 1..a : S[i] = s[i]
      /\ \A i \in 1..n : S[a + i] = T[i]
  <2>1. /\ s \o T \in Seq(Fragment) /\ Len(s \o T) = Len(s) + Len(T)
        /\ \A i \in 1..Len(s) : (s \o T)[i] = s[i]
        /\ \A i \in 1..Len(T) : (s \o T)[Len(s) + i] = T[i]
    <3> HIDE DEF a, S, n, N
    <3> QED BY <1>1
  <2>2. Len(s) = a /\ Len(T) = n
    BY <1>1
  <2> HIDE DEF a, n
  <2> QED BY <2>1, <2>2, Zenon DEF S
<1>3. /\ Len(P) = N + n
      /\ \A i \in 1..N : P[i] = Q[i]
      /\ \A i \in 1..n : P[N + i] = T[i]
  OBVIOUS
<1> HIDE DEF S, P
<1>4. ASSUME NEW i \in 1..N + n - g PROVE S[i] = P[g + i]
  <2>1. CASE i <= a
    <3>1. i \in 1..a /\ g + i \in 1..N
      BY <1>1, <2>1
    <3> QED BY <1>1, <1>2, <1>3, <3>1
  <2>2. CASE i > a
    <3>1. PICK k \in 1..n : i = a + k
      <4>1. i - a \in 1..n /\ i = a + (i - a)
        BY <1>1, <2>2
      <4> QED BY <4>1
    <3>2. S[i] = T[k]
      BY <1>2, <3>1
    <3>3. g + i = N + k
      BY <1>1, <3>1
    <3>4. P[N + k] = T[k]
      BY <1>3
    <3> QED BY <3>2, <3>3, <3>4
  <2> QED BY <1>1, <2>1, <2>2
<1>5. Len(P) - g = N + n - g /\ Len(S) = N + n - g
  BY <1>1, <1>2, <1>3
<1>6. Suffix(S, P, g)
  BY <1>2, <1>4, <1>5 DEF Suffix
<1> QED BY <1>6 DEF S, P

LEMMA EnqueueSplits ==
  ASSUME NEW x \in End, NEW Q \in Seq(Fragment), NEW message, NEW n \in Nat \ {0},
         x.nextSequence = (Len(Q) + 1) % MessageModulus
  PROVE  /\ Enqueue(x, message, n).outbound = x.outbound \o Split(Q, message, n)
         /\ Enqueue(x, message, n).nextSequence = (Len(Q) + n + 1) % MessageModulus
<1> DEFINE N == Len(Q)
           mm == MessageModulus
           T == [i \in 1..n |-> [sequence |-> (x.nextSequence + i - 1) % mm, message |-> message,
                                part |-> i, short |-> i = n]]
<1>1. N \in Nat /\ mm \in Nat \ {0}
  BY Sizes
<1>2. ASSUME NEW i \in 1..n PROVE (x.nextSequence + i - 1) % mm = (N + i) % mm
  <2>1. i - 1 \in Nat /\ N + 1 \in Nat
    BY <1>1
  <2>2. (((N + 1) % mm) + (i - 1)) % mm = (N + 1 + (i - 1)) % mm
    BY <1>1, <2>1, Shifted, Zenon
  <2>3. x.nextSequence + i - 1 = ((N + 1) % mm) + (i - 1)
    <3>1. (N + 1) % mm \in Nat
      BY <1>1, <2>1, Division
    <3> DEFINE u == (N + 1) % mm
    <3>2. u \in Nat /\ x.nextSequence = u
      BY <3>1
    <3> HIDE DEF u
    <3>3. x.nextSequence + i - 1 = u + (i - 1)
      BY <2>1, <3>2
    <3> QED BY <3>3 DEF u
  <2>4. N + 1 + (i - 1) = N + i
    BY <1>1
  <2> QED BY <2>2, <2>3, <2>4
<1>3. T = Split(Q, message, n)
  BY <1>2, Zenon DEF Split
<1>4. (x.nextSequence + n) % mm = (N + n + 1) % mm
  <2>1. (((N + 1) % mm) + n) % mm = (N + 1 + n) % mm
    <3>1. N + 1 \in Nat /\ n \in Nat
      BY <1>1
    <3> QED BY <1>1, <3>1, Shifted, Zenon
  <2>2. N + 1 + n = N + n + 1
    BY <1>1
  <2> QED BY <2>1, <2>2
<1>5. Enqueue(x, message, n) = [x EXCEPT !.outbound = @ \o T, !.nextSequence = (@ + n) % mm]
  BY Zenon DEF Enqueue
<1> HIDE DEF T, mm
<1>6. Enqueue(x, message, n) = [x EXCEPT
          !.outbound = x.outbound \o Split(Q, message, n), !.nextSequence = (N + n + 1) % mm]
  BY <1>3, <1>4, <1>5
<1>7. {"outbound", "nextSequence"} \subseteq DOMAIN x
  BY DEF End
<1> HIDE DEF N
<1> DEFINE P == x.outbound \o Split(Q, message, n)
<1> HIDE DEF P
<1>8. [x EXCEPT !.outbound = P, !.nextSequence = (N + n + 1) % mm].outbound = P
      /\ [x EXCEPT !.outbound = P, !.nextSequence = (N + n + 1) % mm].nextSequence = (N + n + 1) % mm
  BY DEF End
<1> QED BY <1>6, <1>8 DEF P, N, mm

LEMMA AcceptMoves ==
  ASSUME NEW e \in Ends, NEW x \in End, NEW y, NEW out \in Seq(Datagram), NEW back, NEW d, NEW count \in Nat,
         count + 1 <= MaxMessages, NEW n \in Lengths \cup {1},
         Direction(e, x, y, out, back, d, count),
         NEW x2, x2.head = x.head, x2.sentInPacket = x.sentInPacket, x2.sentCount = x.sentCount,
         x2.outbound = Enqueue(x, count + 1, n).outbound,
         x2.nextSequence = Enqueue(x, count + 1, n).nextSequence,
         x2.awaiting = x.awaiting \/ (~x2.awaiting /\ e = "host")
  PROVE  Direction(e, x2, y, out, back, d, count + 1)
<1>1. PICK Q, g, r, h, f : Placed(e, x, y, out, back, d, count, Q, g, r, h, f)
  BY DEF Direction
<1> DEFINE N == Len(Q)
           T == Split(Q, count + 1, n)
           P == Q \o T
<1>2. N \in Nat /\ n \in Nat \ {0} /\ Q \in Seq(Fragment) /\ Stream(Q, count)
  BY <1>1, ChannelAssumption, SMTT(30) DEF Placed, Stream
<1>3. /\ Stream(P, count + 1) /\ Len(P) = N + n
      /\ \A i \in 1..N : P[i] = Q[i]
      /\ \A i \in 1..n : P[N + i] = T[i]
  BY <1>2, StreamGrows, SMTT(30)
<1>4. T \in Seq(Fragment) /\ Len(T) = n
  BY <1>2, StreamGrows
<1> HIDE DEF T, P
<1>5. /\ x2.outbound = x.outbound \o T
      /\ x2.nextSequence = (N + n + 1) % MessageModulus
  <2>1. x.nextSequence = (N + 1) % MessageModulus
    BY <1>1 DEF Placed, Sending
  <2>2. /\ Enqueue(x, count + 1, n).outbound = x.outbound \o Split(Q, count + 1, n)
        /\ Enqueue(x, count + 1, n).nextSequence = (Len(Q) + n + 1) % MessageModulus
    <3>1. Q \in Seq(Fragment) /\ n \in Nat \ {0} /\ x.nextSequence = (Len(Q) + 1) % MessageModulus
      BY <1>2, <2>1
    <3> QED BY <3>1, EnqueueSplits, Zenon
  <2> QED BY <2>2 DEF T
<1>6. g \in 0..N /\ Suffix(x.outbound, Q, g)
  BY <1>1 DEF Placed, Sending
<1>7. Suffix(x2.outbound, P, g)
  <2>1. Suffix(x.outbound \o T, Q \o T, g)
    BY <1>2, <1>4, <1>6, QueueGrows, Zenon
  <2> QED BY <1>5, <2>1 DEF P
<1>8. Sending(e, x2, P, g)
  <2>1. Sending(e, x, Q, g)
    BY <1>1 DEF Placed
  <2>2. g \in 0..Len(P)
    BY <1>2, <1>3, <1>6
  <2>3. x2.nextSequence = (Len(P) + 1) % MessageModulus
    BY <1>3, <1>5
  <2>4. x2.sentCount \in 0..PeerBurst /\ x2.sentCount <= Len(P) - g
    BY <1>2, <1>3, <1>6, <2>1, Sizes DEF Sending
  <2>5. /\ x2.awaiting => x2.sentCount >= 1
        /\ e = "host" => x2.sentCount <= 1
        /\ e = "peer" /\ ~x2.awaiting => x2.sentCount = 0
    BY <2>1 DEF Sending
  <2> QED BY <1>7, <2>2, <2>3, <2>4, <2>5 DEF Sending
<1>9. r \in 0..N /\ h \in 0..N /\ r <= h /\ g + x.sentCount <= N
  BY <1>1, <1>2, Sizes DEF Placed, Receiving, Sending
<1>10. Receiving(x2, y, d, P, g, r, h)
  <2>1. Receiving(x, y, d, Q, g, r, h)
    BY <1>1 DEF Placed
  <2>2. \A i \in r + 1 .. h : P[i] = Q[i]
    BY <1>3, <1>9
  <2>3. {P[i] : i \in r + 1 .. h} = {Q[i] : i \in r + 1 .. h}
    BY <2>2
  <2>4. Closed(P, r) = Closed(Q, r) /\ (r > 0 => P[r] = Q[r])
    BY <1>3, <1>9 DEF Closed
  <2> QED BY <2>1, <2>2, <2>3, <2>4 DEF Receiving
<1>11. \A k : Behind(x2, k) = Behind(x, k) /\ (Reached(x2, k) <=> Reached(x, k))
  BY DEF Behind, Reached
<1>12. Travelling(x2, out, P, g, h, f)
  <2>1. Travelling(x, out, Q, g, h, f)
    BY <1>1 DEF Placed
  <2>2. ASSUME NEW i \in 1..Len(out)
        PROVE  Carrying(out[i], P, f[i], g, g + x.sentCount, h, Behind(x, out[i].head))
    <3>1. Carrying(out[i], Q, f[i], g, g + x.sentCount, h, Behind(x, out[i].head)) /\ f[i] \in Nat
      BY <2>1 DEF Travelling
    <3>2. Len(out[i].records) \in Nat /\ x.sentCount \in Nat
      BY SMTT(30) DEF Datagram, End
    <3>3. ASSUME NEW k \in 1..Len(out[i].records) PROVE out[i].records[k] = P[f[i] + k]
      <4> DEFINE c == Len(out[i].records)
                 a == f[i]
      <4>1. c \in Nat /\ a \in Nat /\ k \in 1..c /\ a + c <= g + x.sentCount /\ g + x.sentCount <= N
            /\ g \in Nat /\ out[i].records[k] = Q[a + k]
        BY <1>6, <1>9, <3>1, <3>2, <3>3 DEF Carrying
      <4> HIDE DEF c, a
      <4>2. a + k \in 1..N
        BY <1>2, <3>2, <4>1, SMTT(30)
      <4>3. out[i].records[k] = P[a + k]
        BY <1>3, <4>1, <4>2
      <4> QED BY <4>3 DEF a
    <3> QED BY <3>1, <3>3 DEF Carrying
  <2>3. x2.sentCount = x.sentCount
    OBVIOUS
  <2> QED BY <1>11, <2>1, <2>2, <2>3 DEF Travelling
<1>13. Lagging(x2, y, out, back)
  BY <1>1, <1>11 DEF Placed, Lagging
<1>14. Covering(x2, y, out, back, g, h, f)
  BY <1>1, <1>11 DEF Placed, Covering
<1>15. Placed(e, x2, y, out, back, d, count + 1, P, g, r, h, f)
  BY <1>3, <1>8, <1>10, <1>12, <1>13, <1>14 DEF Placed
<1> QED BY <1>15 DEF Direction

(***************************************************************************)
(* Acknowledgements                                                        *)
(***************************************************************************)
LEMMA Small ==
  ASSUME NEW m \in Nat \ {0}, NEW s \in 0..m-1
  PROVE  s % m = s
<1>1. (m * 0 + s) % m = s
  BY Remainder
<1>2. m * 0 + s = s
  OBVIOUS
<1> QED BY <1>1, <1>2

LEMMA Added ==
  ASSUME NEW T, NEW w \in Seq(T), NEW p \in T
  PROVE  /\ Append(w, p) \in Seq(T) /\ Len(Append(w, p)) = Len(w) + 1
         /\ \A i \in 1..Len(w) : Append(w, p)[i] = w[i]
         /\ Append(w, p)[Len(w) + 1] = p
OBVIOUS

(* The receiving end publishes what it has. *)
LEMMA NewsLeaves ==
  ASSUME NEW e, NEW x, NEW y, y.receiveHead \in 0..PacketModulus - 1,
         NEW out, NEW back \in Seq(Datagram), NEW d, NEW count, NEW p \in Datagram,
         p.ack = Published(y), Direction(e, x, y, out, back, d, count)
  PROVE  Direction(e, x, y, out, Append(back, p), d, count)
<1>1. PICK Q, g, r, h, f : Placed(e, x, y, out, back, d, count, Q, g, r, h, f)
  BY DEF Direction
<1> DEFINE back2 == Append(back, p)
<1>2. /\ Len(back2) = Len(back) + 1 /\ Len(back) \in Nat
      /\ \A i \in 1..Len(back) : back2[i] = back[i]
      /\ back2[Len(back) + 1] = p
  BY Added
<1> HIDE DEF back2
<1>3. \A i \in 1..Len(back2) : back2[i] = p \/ \E j \in 1..Len(back) : back2[i] = back[j]
  <2> TAKE i \in 1..Len(back2)
  <2>1. CASE i = Len(back) + 1
    BY <1>2, <2>1
  <2>2. CASE i # Len(back) + 1
    <3>1. i \in 1..Len(back)
      BY <1>2, <2>2
    <3> QED BY <1>2, <3>1
  <2> QED BY <2>1, <2>2
<1>4. p.ack.ring = y.ring /\ p.ack.base = y.receiveHead % RingSize
  BY DEF Published
<1>5. Behind(x, p.ack.base) = Behind(x, y.receiveHead)
  <2>1. RingSize \in Nat \ {0} /\ y.receiveHead \in Nat
    BY Sizes
  <2> DEFINE b == y.receiveHead % RingSize
  <2>2. b \in 0..RingSize - 1
    BY <2>1, Division
  <2>3. b % RingSize = b
    <3> HIDE DEF b
    <3> QED BY <2>1, <2>2, Small
  <2>4. p.ack.base % RingSize = y.receiveHead % RingSize
    BY <1>4, <2>3
  <2> QED BY <2>4, Zenon DEF Behind
<1>6. Lagging(x, y, out, back2)
  <2>1. Lagging(x, y, out, back)
    BY <1>1 DEF Placed
  <2> QED BY <1>3, <1>5, <2>1 DEF Lagging
<1>7. Covering(x, y, out, back2, g, h, f)
  <2>1. Covering(x, y, out, back, g, h, f)
    BY <1>1 DEF Placed
  <2>2. ASSUME x.awaiting, NEW i \in 1..Len(back2), back2[i].ack.ring, Reached(x, back2[i].ack.base)
        PROVE  h = g + x.sentCount
    <3>1. CASE back2[i] = p
      <4>1. y.ring /\ Reached(x, y.receiveHead % RingSize)
        BY <1>4, <2>2, <3>1, Zenon
      <4> QED BY <2>1, <2>2, <4>1 DEF Covering
    <3>2. CASE \E j \in 1..Len(back) : back2[i] = back[j]
      BY <2>1, <2>2, <3>2 DEF Covering
    <3> QED BY <1>3, <3>1, <3>2
  <2> QED BY <2>1, <2>2 DEF Covering
<1>8. Placed(e, x, y, out, back2, d, count, Q, g, r, h, f)
  BY <1>1, <1>6, <1>7 DEF Placed
<1> QED BY <1>8 DEF Direction, back2

LEMMA Rest ==
  ASSUME NEW T, NEW s \in Seq(T), NEW c \in 0..Len(s)
  PROVE  /\ SubSeq(s, c + 1, Len(s)) \in Seq(T) /\ Len(SubSeq(s, c + 1, Len(s))) = Len(s) - c
         /\ \A i \in 1..Len(s) - c : SubSeq(s, c + 1, Len(s))[i] = s[c + i]
OBVIOUS

LEMMA QueueShrinks ==
  ASSUME NEW s, NEW Q \in Seq(Fragment), NEW g \in 0..Len(Q), Suffix(s, Q, g),
         NEW c \in 0..Len(Q) - g
  PROVE  Suffix(SubSeq(s, c + 1, Len(s)), Q, g + c)
<1> DEFINE N == Len(Q)
           t == SubSeq(s, c + 1, Len(s))
<1>1. s \in Seq(Fragment) /\ Len(s) = N - g /\ N \in Nat /\ \A i \in 1..N - g : s[i] = Q[g + i]
  BY DEF Suffix
<1>2. /\ t \in Seq(Fragment) /\ Len(t) = (N - g) - c
      /\ \A i \in 1..(N - g) - c : t[i] = s[c + i]
  <2>1. c \in 0..Len(s)
    BY <1>1
  <2>2. t \in Seq(Fragment) /\ Len(t) = Len(s) - c
    BY <1>1, <2>1, Rest, Zenon
  <2>3. \A i \in 1..Len(s) - c : t[i] = s[c + i]
    BY <1>1, <2>1, Rest, Zenon
  <2> QED BY <1>1, <2>2, <2>3, Zenon
<1> HIDE DEF t
<1>3. Len(t) = N - (g + c)
  BY <1>1, <1>2
<1>4. ASSUME NEW i \in 1..N - (g + c) PROVE t[i] = Q[(g + c) + i]
  <2>1. i \in 1..(N - g) - c /\ c + i \in 1..N - g /\ g + (c + i) = (g + c) + i
    BY <1>1
  <2>2. t[i] = s[c + i] /\ s[c + i] = Q[g + (c + i)]
    BY <1>1, <1>2, <2>1
  <2> QED BY <2>1, <2>2
<1>5. Suffix(t, Q, g + c)
  BY <1>2, <1>3, <1>4 DEF Suffix
<1> QED BY <1>5 DEF t

(* What an acknowledgement retires has been heard. *)
LEMMA NewsArrives ==
  ASSUME NEW e, NEW x \in End, NEW y, NEW out \in Seq(Datagram), NEW back, NEW d, NEW count,
         NEW i \in 1..Len(back), Direction(e, x, y, out, back, d, count)
  PROVE  Direction(e, ApplyAcknowledgement(x, back[i].ack), y, out, back, d, count)
<1> DEFINE c == x.sentCount
           x2 == [x EXCEPT !.outbound = SubSeq(@, x.sentCount + 1, Len(@)),
                           !.sentCount = 0, !.awaiting = FALSE]
<1>1. CASE ~(x.awaiting /\ Covers(back[i].ack, x.sentInPacket) /\ c \in 1..Len(x.outbound))
  <2>1. ApplyAcknowledgement(x, back[i].ack) = x
    BY <1>1, Zenon DEF ApplyAcknowledgement
  <2> QED BY <2>1
<1>2. CASE x.awaiting /\ Covers(back[i].ack, x.sentInPacket) /\ c \in 1..Len(x.outbound)
  <2>1. ApplyAcknowledgement(x, back[i].ack) = x2
    BY <1>2, Zenon DEF ApplyAcknowledgement
  <2>2. /\ x2.outbound = SubSeq(x.outbound, c + 1, Len(x.outbound))
        /\ x2.sentCount = 0 /\ x2.awaiting = FALSE /\ x2.head = x.head
        /\ x2.nextSequence = x.nextSequence
    BY DEF End
  <2> HIDE DEF x2
  <2>3. PICK Q, g, r, h, f : Placed(e, x, y, out, back, d, count, Q, g, r, h, f)
    BY DEF Direction
  <2>4. h = g + c
    <3>1. back[i].ack.ring /\ Reached(x, back[i].ack.base)
      BY <1>2 DEF Covers, Reached
    <3> QED BY <1>2, <2>3, <3>1 DEF Placed, Covering
  <2>5. Q \in Seq(Fragment) /\ Len(Q) \in Nat
    BY <2>3 DEF Placed, Stream
  <2>6. /\ g \in 0..Len(Q) /\ Suffix(x.outbound, Q, g) /\ x.nextSequence = (Len(Q) + 1) % MessageModulus
        /\ c \in 0..Len(Q) - g
    <3>1. Sending(e, x, Q, g)
      BY <2>3 DEF Placed
    <3> QED BY <1>2, <2>5, <3>1, Sizes DEF Sending, Suffix
  <2>7. Suffix(x2.outbound, Q, g + c)
    BY <2>2, <2>5, <2>6, QueueShrinks, Zenon
  <2>8. Sending(e, x2, Q, g + c)
    <3>1. g + c \in 0..Len(Q) /\ 0 \in 0..PeerBurst /\ 0 <= Len(Q) - (g + c)
      BY <2>5, <2>6, Sizes
    <3> HIDE DEF c
    <3> QED BY <2>2, <2>6, <2>7, <3>1 DEF Sending
  <2>9. Receiving(x2, y, d, Q, g + c, r, h)
    <3>1. Receiving(x, y, d, Q, g, r, h)
      BY <2>3 DEF Placed
    <3>2. h \in g + c .. (g + c) + x2.sentCount
      BY <2>2, <2>4, <2>5, <2>6
    <3> QED BY <3>1, <3>2 DEF Receiving
  <2>10. \A n : Behind(x2, n) = Behind(x, n)
    BY <2>2 DEF Behind
  <2>11. Travelling(x2, out, Q, g + c, h, f)
    <3>1. Travelling(x, out, Q, g, h, f)
      BY <2>3 DEF Placed
    <3>2. (g + c) + x2.sentCount = g + x.sentCount
      BY <2>2, <2>5, <2>6
    <3>3. ASSUME NEW k \in 1..Len(out)
          PROVE  Carrying(out[k], Q, f[k], g + c, g + x.sentCount, h, Behind(x, out[k].head))
      <4>1. Carrying(out[k], Q, f[k], g, g + x.sentCount, h, Behind(x, out[k].head)) /\ f[k] \in Nat
        BY <3>1 DEF Travelling
      <4>2. f[k] <= g => f[k] <= g + c
        BY <2>5, <2>6, <4>1
      <4> QED BY <4>1, <4>2 DEF Carrying
    <3> HIDE DEF c
    <3> QED BY <2>10, <3>1, <3>2, <3>3 DEF Travelling
  <2>12. Lagging(x2, y, out, back)
    BY <2>3, <2>10 DEF Placed, Lagging
  <2>13. Covering(x2, y, out, back, g + c, h, f)
    BY <2>2 DEF Covering
  <2>14. Placed(e, x2, y, out, back, d, count, Q, g + c, r, h, f)
    BY <2>3, <2>8, <2>9, <2>11, <2>12, <2>13 DEF Placed
  <2>15. Direction(e, x2, y, out, back, d, count)
    BY <2>14 DEF Direction
  <2> QED BY <2>1, <2>15
<1> QED BY <1>1, <1>2

(***************************************************************************)
(* A packet leaves                                                         *)
(***************************************************************************)
LEMMA NextOnRing ==
  ASSUME NEW m \in Nat, m >= 2, NEW a \in 0..m-1, NEW x \in Nat, Ahead(a, x % m, m) < m - 1
  PROVE  Ahead(a, (x + 1) % m, m) = Ahead(a, x % m, m) + 1
<1> DEFINE u == x % m
           v == (x + 1) % m
<1>1. u \in 0..m-1 /\ v \in 0..m-1
  <2>1. m \in Nat \ {0} /\ x + 1 \in Nat
    OBVIOUS
  <2> QED BY <2>1, Division
<1>2. v = IF u + 1 < m THEN u + 1 ELSE u + 1 - m
  <2>1. m \in Nat \ {0} /\ 1 \in 0..m-1
    OBVIOUS
  <2> QED BY <2>1, Onward, Zenon
<1>3. Ahead(a, u, m) < m - 1
  OBVIOUS
<1> HIDE DEF u, v
<1>4. m \in Nat \ {0}
  OBVIOUS
<1>5. Ahead(a, v, m) = Ahead(a, u, m) + 1
  <2>1. Ahead(a, u, m) = IF a <= u THEN u - a ELSE u + m - a
    BY <1>1, <1>4, AheadOf
  <2>2. Ahead(a, v, m) = IF a <= v THEN v - a ELSE v + m - a
    BY <1>1, <1>4, AheadOf
  <2> QED BY <1>1, <1>2, <1>3, <2>1, <2>2
<1> QED BY <1>5 DEF u, v

LEMMA Opposite ==
  ASSUME NEW m \in Nat \ {0}, NEW a \in 0..m-1, NEW b \in 0..m-1, Ahead(a, b, m) >= 1
  PROVE  Ahead(b, a, m) = m - Ahead(a, b, m)
<1>1. Ahead(a, b, m) = IF a <= b THEN b - a ELSE b + m - a
  BY AheadOf
<1>2. Ahead(b, a, m) = IF b <= a THEN a - b ELSE a + m - b
  BY AheadOf
<1> QED BY <1>1, <1>2

LEMMA OnRing ==
  ASSUME NEW n \in Nat
  PROVE  /\ n % RingSize \in 0..RingSize - 1
         /\ (n % RingSize) % RingSize = n % RingSize
         /\ (n % PacketModulus) % RingSize = n % RingSize
<1>1. RingSize \in Nat \ {0} /\ PacketModulus \in Nat \ {0} /\ PacketModulus % RingSize = 0
  BY Sizes
<1>2. n % RingSize \in 0..RingSize - 1
  BY <1>1, Division
<1>3. (n % RingSize) % RingSize = n % RingSize
  <2> DEFINE b == n % RingSize
  <2>1. b \in 0..RingSize - 1
    BY <1>2
  <2> HIDE DEF b
  <2>2. b % RingSize = b
    BY <1>1, <2>1, Small
  <2> QED BY <2>2 DEF b
<1>4. (n % PacketModulus) % RingSize = n % RingSize
  BY <1>1, Nested
<1> QED BY <1>2, <1>3, <1>4

LEMMA BehindTyped ==
  ASSUME NEW x, x.head \in Nat, NEW n \in Nat
  PROVE  Behind(x, n) \in 0..RingSize - 1
<1> DEFINE a == n % RingSize
           b == x.head % RingSize
           R == RingSize
<1>1. a \in 0..R - 1 /\ b \in 0..R - 1 /\ R \in Nat \ {0}
  BY OnRing, Sizes
<1>2. Behind(x, n) = Ahead(a, b, R)
  BY DEF Behind
<1> HIDE DEF a, b, R
<1>3. Ahead(a, b, R) \in 0..R - 1
  BY <1>1, AheadOf
<1> QED BY <1>2, <1>3 DEF R

(* One more packet has left. *)
LEMMA HeadMoves ==
  ASSUME NEW x, x.head \in Nat, NEW x2, x2.head = (x.head + 1) % PacketModulus,
         NEW n \in Nat, Behind(x, n) < MaxLag
  PROVE  /\ Behind(x2, n) = Behind(x, n) + 1
         /\ Ahead(x2.head % RingSize, n % RingSize, RingSize) >= RingSize \div 2
<1> DEFINE a == n % RingSize
           R == RingSize
           b == x2.head % RingSize
<1>1. R \in Nat /\ R >= 2 /\ a \in 0..R - 1 /\ Behind(x, n) < R - 1
  <2>1. a \in 0..R - 1
    BY OnRing
  <2>2. Behind(x, n) \in 0..R - 1
    BY BehindTyped
  <2> HIDE DEF a
  <2> QED BY <2>1, <2>2, Sizes
<1>2. b = (x.head + 1) % R
  BY OnRing
<1>3. Behind(x, n) = Ahead(a, x.head % R, R)
  BY DEF Behind
<1>8. Behind(x, n) \in 0..R - 1 /\ MaxLag <= R \div 2
  BY BehindTyped, PeerAssumption
<1>9. b \in 0..R - 1
  <2>1. x.head + 1 \in Nat
    OBVIOUS
  <2> QED BY <1>2, <2>1, OnRing
<1> HIDE DEF a, b, R
<1>4. Ahead(a, (x.head + 1) % R, R) = Ahead(a, x.head % R, R) + 1
  BY <1>1, <1>3, NextOnRing, Zenon
<1>5. Ahead(a, b, R) = Behind(x, n) + 1
  BY <1>2, <1>3, <1>4, Zenon
<1>6. Ahead(b, a, R) = R - (Behind(x, n) + 1)
  <2>1. R \in Nat \ {0} /\ Ahead(a, b, R) >= 1
    BY <1>1, <1>5, <1>8
  <2> QED BY <1>1, <1>5, <1>9, <2>1, Opposite
<1>7. Ahead(b, a, R) >= R \div 2
  <2>1. Behind(x, n) + 1 <= MaxLag
    BY <1>8, Sizes
  <2>2. R \div 2 \in Nat /\ 2 * (R \div 2) <= R
    BY <1>1
  <2> QED BY <1>1, <1>6, <1>8, <2>1, <2>2, Sizes
<1>10. Behind(x2, n) = Ahead(a, b, R)
  BY DEF Behind, a, b, R
<1> QED BY <1>5, <1>7, <1>10 DEF a, b, R

LEMMA OneMore ==
  ASSUME NEW a \in Nat, NEW b \in Nat
  PROVE  a * (b + 1) = a * b + a /\ a * b \in Nat
OBVIOUS

(* What a stamp writes, and what the packet then carries. *)
LEMMA StampFields ==
  ASSUME NEW x \in End, NEW c \in Nat
  PROVE  LET x2 == Stamp(x, c)
             fresh == x.outbound # <<>> /\ ~x.awaiting
         IN  /\ x2 \in End /\ x2.head = (x.head + 1) % PacketModulus
             /\ x2.outbound = x.outbound /\ x2.nextSequence = x.nextSequence
             /\ (fresh => x2.sentInPacket = x2.head /\ x2.sentCount = c)
             /\ (~fresh => x2.sentInPacket = x.sentInPacket /\ x2.sentCount = x.sentCount)
             /\ (x2.awaiting <=> fresh \/ x.awaiting)
             /\ SameReceiver(x2, x) /\ Published(x2) = Published(x)
<1> DEFINE x2 == Stamp(x, c)
           b == (x.head + 1) % PacketModulus
           fresh == x.outbound # <<>> /\ ~x.awaiting
           sent == IF fresh THEN b ELSE x.sentInPacket
           much == IF fresh THEN c ELSE x.sentCount
           on == fresh \/ x.awaiting
<1>1. b \in 0..PacketModulus - 1
  <2>1. x.head + 1 \in Nat /\ PacketModulus \in Nat \ {0}
    BY Sizes DEF End
  <2> QED BY <2>1, Division
<1>2. x2 = [x EXCEPT !.head = b, !.sentInPacket = sent, !.sentCount = much, !.awaiting = on]
  BY DEF Stamp
<1>3. sent \in 0..PacketModulus - 1 /\ much \in Nat /\ on \in BOOLEAN
  BY <1>1 DEF End
<1>4. /\ fresh => sent = b /\ much = c
      /\ ~fresh => sent = x.sentInPacket /\ much = x.sentCount
      /\ on <=> fresh \/ x.awaiting
  OBVIOUS
<1> HIDE DEF x2, b, sent, much, on, fresh
<1>5. x2 \in End
  BY <1>1, <1>2, <1>3 DEF End
<1>6. /\ x2.head = b /\ x2.sentInPacket = sent /\ x2.sentCount = much /\ x2.awaiting = on
      /\ x2.outbound = x.outbound /\ x2.nextSequence = x.nextSequence
      /\ x2.receiveHead = x.receiveHead /\ x2.ring = x.ring /\ x2.received = x.received
      /\ x2.held = x.held /\ x2.started = x.started /\ x2.next = x.next
  BY <1>2 DEF End
<1>7. SameReceiver(x2, x) /\ Published(x2) = Published(x)
  BY <1>6 DEF SameReceiver, Published
<1>8. x2.awaiting <=> fresh \/ x.awaiting
  BY <1>4, <1>6, Zenon
<1>9. /\ x2 \in End /\ x2.head = b
      /\ x2.outbound = x.outbound /\ x2.nextSequence = x.nextSequence
      /\ (fresh => x2.sentInPacket = x2.head /\ x2.sentCount = c)
      /\ (~fresh => x2.sentInPacket = x.sentInPacket /\ x2.sentCount = x.sentCount)
      /\ (x2.awaiting <=> fresh \/ x.awaiting)
      /\ SameReceiver(x2, x) /\ Published(x2) = Published(x)
  BY <1>4, <1>5, <1>6, <1>7, <1>8, Zenon
<1> QED BY <1>9, Zenon DEF x2, b, fresh

LEMMA PublishedTyped ==
  ASSUME NEW x \in End
  PROVE  Published(x) \in Ack
<1>1. x.receiveHead % RingSize \in 0..RingSize - 1
  <2>1. x.receiveHead \in Nat
    BY Sizes DEF End
  <2> QED BY <2>1, OnRing
<1>2. x.ring \in BOOLEAN /\ x.received \in [1..AckHistory -> BOOLEAN]
  BY DEF End
<1> DEFINE b == x.receiveHead % RingSize
           w == IF Contiguous(x.received) THEN <<>> ELSE x.received
<1>3. w \in {<<>>} \cup [1..AckHistory -> BOOLEAN]
  BY <1>2
<1>4. Published(x) = [ring |-> x.ring, base |-> b, received |-> w]
  BY DEF Published
<1> HIDE DEF b, w
<1> QED BY <1>1, <1>2, <1>3, <1>4 DEF Ack, b

(* The first c of a queue. *)
LEMMA Prefix ==
  ASSUME NEW T, NEW s \in Seq(T), NEW c \in 0..Len(s)
  PROVE  /\ SubSeq(s, 1, c) \in Seq(T) /\ Len(SubSeq(s, 1, c)) = c
         /\ \A i \in 1..c : SubSeq(s, 1, c)[i] = s[i]
OBVIOUS

LEMMA PacketTyped ==
  ASSUME NEW x \in End, x.awaiting => x.sentCount \in 0..Len(x.outbound)
  PROVE  /\ Packet(x) \in Datagram /\ Packet(x).head = x.head /\ Packet(x).ack = Published(x)
         /\ x.awaiting => /\ Len(Packet(x).records) = x.sentCount
                          /\ \A i \in 1..x.sentCount : Packet(x).records[i] = x.outbound[i]
         /\ ~x.awaiting => Packet(x).records = <<>>
<1> DEFINE s == IF x.awaiting THEN SubSeq(x.outbound, 1, x.sentCount) ELSE <<>>
<1>1. Packet(x) = [head |-> x.head, ack |-> Published(x), records |-> s]
  BY DEF Packet
<1>2. CASE x.awaiting
  <2>1. x.outbound \in Seq(Fragment) /\ x.sentCount \in 0..Len(x.outbound)
    BY <1>2 DEF End
  <2>2. s \in Seq(Fragment) /\ Len(s) = x.sentCount
    BY <1>2, <2>1, Prefix, Zenon
  <2>3. \A i \in 1..x.sentCount : s[i] = x.outbound[i]
    BY <1>2, <2>1, Prefix, Zenon
  <2> HIDE DEF s
  <2>4. Packet(x) \in Datagram
    BY <1>1, <2>2, PublishedTyped DEF Datagram, End
  <2> QED BY <1>1, <1>2, <2>2, <2>3, <2>4
<1>3. CASE ~x.awaiting
  <2>1. s = <<>>
    BY <1>3
  <2>2. s \in Seq(Fragment)
    BY <2>1
  <2> HIDE DEF s
  <2>3. Packet(x) \in Datagram
    BY <1>1, <2>2, PublishedTyped DEF Datagram, End
  <2> QED BY <1>1, <1>3, <2>1, <2>3
<1> QED BY <1>2, <1>3

(* The sender knows enough of the other end to send once more. *)
Near(x, y, out, back) ==
    /\ Behind(x, y.receiveHead) < MaxLag
    /\ \A i \in 1..Len(back) : Behind(x, back[i].ack.base) < MaxLag
    /\ \A i \in 1..Len(out) : Behind(x, out[i].head) < MaxLag

LEMMA PacketLeaves ==
  ASSUME NEW e \in Ends, NEW x \in End, NEW y, y.receiveHead \in 0..PacketModulus - 1,
         NEW out \in Seq(Datagram), NEW back \in Seq(Datagram), NEW d, NEW count,
         NEW c \in 1..PeerBurst, e = "host" => c = 1, c <= Len(x.outbound) \/ c = 1,
         Direction(e, x, y, out, back, d, count), Near(x, y, out, back)
  PROVE  /\ Direction(e, Stamp(x, c), y, Append(out, Packet(Stamp(x, c))), back, d, count)
         /\ Packet(Stamp(x, c)) \in Datagram
<1>1. PICK Q, g, r, h, f : Placed(e, x, y, out, back, d, count, Q, g, r, h, f)
  BY DEF Direction
<1> DEFINE x2 == Stamp(x, c)
           p == Packet(x2)
           out2 == Append(out, p)
           n == Len(out)
           N == Len(Q)
           fresh == x.outbound # <<>> /\ ~x.awaiting
           f2 == [i \in 1..n + 1 |-> IF i <= n THEN f[i] ELSE g]
           u == g + x.sentCount
           u2 == g + x2.sentCount
<1>2. /\ x2 \in End /\ x2.head = (x.head + 1) % PacketModulus
      /\ x2.outbound = x.outbound /\ x2.nextSequence = x.nextSequence
      /\ (fresh => x2.sentInPacket = x2.head /\ x2.sentCount = c)
      /\ (~fresh => x2.sentInPacket = x.sentInPacket /\ x2.sentCount = x.sentCount)
      /\ (x2.awaiting <=> fresh \/ x.awaiting)
  <2>1. c \in Nat
    BY Sizes
  <2> QED BY <2>1, StampFields
<1>3. /\ Sending(e, x, Q, g) /\ Receiving(x, y, d, Q, g, r, h) /\ Travelling(x, out, Q, g, h, f)
      /\ Q \in Seq(Fragment) /\ N \in Nat /\ n \in Nat /\ g \in 0..N /\ Suffix(x.outbound, Q, g)
      /\ x.sentCount \in 0..PeerBurst /\ x.sentCount <= N - g
  BY <1>1 DEF Placed, Stream, Sending
<1>4. x.outbound \in Seq(Fragment) /\ Len(x.outbound) = N - g /\ \A i \in 1..N - g : x.outbound[i] = Q[g + i]
  BY <1>3 DEF Suffix
<1>5. fresh => c \in 1..N - g
  BY <1>4, Sizes
<1>6. /\ x2.sentCount \in 0..PeerBurst /\ x2.sentCount <= N - g
      /\ u <= u2 /\ u2 <= u + PeerBurst
      /\ e = "host" => x2.sentCount <= 1
  <2>1. CASE fresh
    <3>1. x2.sentCount = c
      BY <1>2, <2>1
    <3>2. e = "host" => x.sentCount <= 1 /\ c = 1
      BY <1>3 DEF Sending
    <3>3. e = "peer" => x.sentCount = 0
      BY <1>3, <2>1 DEF Sending
    <3>4. e = "host" \/ e = "peer"
      BY DEF Ends
    <3> QED BY <1>3, <1>5, <2>1, <3>1, <3>2, <3>3, <3>4, Sizes
  <2>2. CASE ~fresh
    <3>1. x2.sentCount = x.sentCount
      BY <1>2, <2>2
    <3> QED BY <1>3, <3>1, Sizes DEF Sending
  <2> QED BY <2>1, <2>2
<1> HIDE DEF x2, fresh
<1>7. x2.awaiting => x2.sentCount >= 1
  <2>1. fresh => x2.sentCount = c
    BY <1>2
  <2>2. ~fresh /\ x2.awaiting => x.awaiting /\ x2.sentCount = x.sentCount
    BY <1>2
  <2>3. x.awaiting => x.sentCount >= 1
    BY <1>3 DEF Sending
  <2> QED BY <2>1, <2>2, <2>3
<1>8. Sending(e, x2, Q, g)
  <2>1. e = "peer" /\ ~x2.awaiting => x2.sentCount = 0
    <3>1. ~x2.awaiting => ~x.awaiting /\ x2.sentCount = x.sentCount
      BY <1>2
    <3> QED BY <1>3, <3>1 DEF Sending
  <2>2. x2.nextSequence = (Len(Q) + 1) % MessageModulus
    BY <1>2, <1>3 DEF Sending
  <2> QED BY <1>2, <1>3, <1>6, <1>7, <2>1, <2>2 DEF Sending
<1>9. Receiving(x2, y, d, Q, g, r, h)
  <2>1. h \in g..u
    BY <1>3 DEF Receiving
  <2>2. h \in g..u2
    BY <1>3, <1>6, <2>1
  <2> QED BY <1>3, <2>2 DEF Receiving
<1>10. /\ p \in Datagram /\ p.head = x2.head /\ p.ack = Published(x2)
       /\ x2.awaiting => /\ Len(p.records) = x2.sentCount
                         /\ \A i \in 1..x2.sentCount : p.records[i] = x2.outbound[i]
       /\ ~x2.awaiting => p.records = <<>>
  <2>1. x2.awaiting => x2.sentCount \in 0..Len(x2.outbound)
    BY <1>2, <1>3, <1>4, <1>6
  <2> QED BY <1>2, <2>1, PacketTyped, Zenon
<1> HIDE DEF p
<1>11. /\ Len(out2) = n + 1 /\ out2[n + 1] = p
       /\ \A i \in 1..n : out2[i] = out[i]
  BY <1>10
<1>12. /\ f2 \in [1..n + 1 -> Nat] /\ f2[n + 1] = g /\ f \in [1..n -> Nat]
       /\ \A i \in 1..n : f2[i] = f[i]
  BY <1>3 DEF Travelling
<1> HIDE DEF out2, f2
<1>13. ASSUME NEW a \in Nat, Behind(x, a) < MaxLag
       PROVE  /\ Behind(x2, a) = Behind(x, a) + 1
              /\ Ahead(x2.head % RingSize, a % RingSize, RingSize) >= RingSize \div 2
  <2>1. x.head \in Nat
    BY Sizes DEF End
  <2> QED BY <1>2, <1>13, <2>1, HeadMoves
<1>14. /\ \A i \in 1..Len(back) : back[i].ack.base \in Nat /\ back[i].ack.base % RingSize = back[i].ack.base
       /\ \A i \in 1..n : out[i].head \in Nat
       /\ y.receiveHead \in Nat /\ x2.head \in Nat /\ x.head \in Nat
  <2>1. \A i \in 1..Len(back) : back[i].ack.base \in 0..RingSize - 1
    <3> TAKE i \in 1..Len(back)
    <3>1. back[i] \in Datagram
      OBVIOUS
    <3>2. back[i].ack \in Ack
      BY <3>1 DEF Datagram
    <3> QED BY <3>2 DEF Ack
  <2>2. \A b \in 0..RingSize - 1 : b % RingSize = b /\ b \in Nat
    BY Small, Sizes
  <2>3. \A i \in 1..n : out[i].head \in Nat
    <3> TAKE i \in 1..n
    <3>1. out[i] \in Datagram
      OBVIOUS
    <3> QED BY <3>1, Sizes DEF Datagram
  <2>4. y.receiveHead \in Nat /\ x2.head \in Nat /\ x.head \in Nat
    BY <1>2, Sizes DEF End
  <2> QED BY <2>1, <2>2, <2>3, <2>4
<1>15. Behind(x2, x2.head) = 0 /\ Ahead(x2.head % RingSize, x2.head % RingSize, RingSize) = 0
  <2> DEFINE b == x2.head % RingSize
             R == RingSize
  <2>1. b \in 0..R - 1 /\ R \in Nat \ {0}
    BY <1>14, OnRing, Sizes
  <2>2. Behind(x2, x2.head) = Ahead(b, b, R)
    BY DEF Behind
  <2> HIDE DEF b, R
  <2>3. Ahead(b, b, R) = 0
    BY <2>1, AheadOf
  <2> QED BY <2>2, <2>3 DEF b, R
<1>16. Travelling(x2, out2, Q, g, h, f2)
  <2>1. ASSUME NEW i \in 1..n
        PROVE  Carrying(out2[i], Q, f2[i], g, u2, h, Behind(x2, out2[i].head))
    <3> DEFINE late == Behind(x, out[i].head)
               k == Len(out[i].records)
    <3>1. Carrying(out[i], Q, f[i], g, u, h, late) /\ f[i] \in Nat
      BY <1>3 DEF Travelling
    <3>2. Behind(x2, out[i].head) = late + 1 /\ late \in Nat
      <4>1. Behind(x, out[i].head) < MaxLag
        BY DEF Near
      <4>2. Behind(x, out[i].head) \in 0..RingSize - 1
        BY <1>14, BehindTyped
      <4> QED BY <1>13, <1>14, <4>1, <4>2
    <3> HIDE DEF late
    <3>3. PeerBurst * ((late + 1) + 1) = PeerBurst * (late + 1) + PeerBurst /\ PeerBurst * (late + 1) \in Nat
      <4>1. late + 1 \in Nat /\ PeerBurst \in Nat
        BY <3>2, Sizes
      <4> QED BY <4>1, OneMore
    <3>4. Len(out[i].records) \in Nat
      BY DEF Datagram
    <3> DEFINE B == PeerBurst * (late + 1)
               a == f[i]
    <3>5. Len(out[i].records) > 0 => a + k <= u2 /\ u2 - a <= PeerBurst * ((late + 1) + 1)
      <4> SUFFICES ASSUME Len(out[i].records) > 0
                   PROVE  a + k <= u2 /\ u2 - a <= PeerBurst * ((late + 1) + 1)
        OBVIOUS
      <4>1. a + k <= u /\ u - a <= B
        BY <3>1 DEF Carrying
      <4>5. B \in Nat
        BY <3>3, Zenon
      <4>6. u \in Nat /\ u2 \in Nat
        <5>1. x.sentCount \in Nat /\ x2.sentCount \in Nat
          BY <1>2 DEF End
        <5>2. g \in Nat
          BY <1>3
        <5> QED BY <5>1, <5>2
      <4>2. B \in Nat /\ k \in Nat /\ a \in Nat /\ u \in Nat /\ u2 \in Nat
        BY <3>1, <3>4, <4>5, <4>6, Zenon
      <4>3. PeerBurst * ((late + 1) + 1) = B + PeerBurst
        BY <3>3
      <4> HIDE DEF B, k, a, u, u2
      <4>4. a + k <= u2 /\ u2 - a <= B + PeerBurst
        BY <1>6, <4>1, <4>2, Sizes
      <4> QED BY <4>3, <4>4
    <3>6. Carrying(out[i], Q, f[i], g, u2, h, late + 1)
      BY <3>1, <3>5 DEF Carrying
    <3> QED BY <1>11, <1>12, <3>2, <3>6
  <2>2. Carrying(p, Q, g, g, u2, h, Behind(x2, p.head))
    <3> SUFFICES ASSUME Len(p.records) > 0 PROVE Carrying(p, Q, g, g, u2, h, Behind(x2, p.head))
      BY DEF Carrying
    <3>1. x2.awaiting /\ Len(p.records) = x2.sentCount
      BY <1>10
    <3>2. \A k \in 1..x2.sentCount : p.records[k] = Q[g + k]
      BY <1>2, <1>3, <1>4, <1>6, <1>10, <3>1
    <3>3. h <= g + x2.sentCount
      BY <1>3, <1>9 DEF Receiving
    <3>4. PeerBurst * (0 + 1) = PeerBurst /\ u2 - g = x2.sentCount
      BY <1>3, <1>6, Sizes
    <3>5. Behind(x2, p.head) = 0
      BY <1>10, <1>15
    <3> QED BY <1>3, <1>6, <3>1, <3>2, <3>3, <3>4, <3>5 DEF Carrying
  <2>3. \A i \in 1..n + 1 : Carrying(out2[i], Q, f2[i], g, u2, h, Behind(x2, out2[i].head))
    <3> TAKE i \in 1..n + 1
    <3>1. CASE i \in 1..n
      BY <2>1, <3>1
    <3>2. CASE i = n + 1
      BY <1>11, <1>12, <2>2, <3>2
    <3> QED BY <1>3, <3>1, <3>2
  <2>4. ASSUME ~Reorder, NEW i \in 1..n + 1, NEW j \in 1..n + 1, i < j,
               Len(out2[i].records) > 0, Len(out2[j].records) > 0
        PROVE  f2[i] + Len(out2[i].records) <= f2[j] + Len(out2[j].records)
    <3>1. i \in 1..n
      BY <1>3, <2>4
    <3>2. CASE j \in 1..n
      <4>1. f[i] + Len(out[i].records) <= f[j] + Len(out[j].records)
        BY <1>3, <1>11, <2>4, <3>1, <3>2 DEF Travelling
      <4> QED BY <1>11, <1>12, <3>1, <3>2, <4>1
    <3>3. CASE j = n + 1
      <4>1. f2[j] + Len(out2[j].records) = u2
        <5>1. Len(p.records) = x2.sentCount
          BY <1>10, <1>11, <2>4, <3>3
        <5> QED BY <1>11, <1>12, <3>3, <5>1
      <4>2. f2[i] + Len(out2[i].records) <= u2
        BY <2>1, <2>4, <3>1 DEF Carrying
      <4> QED BY <4>1, <4>2
    <3> QED BY <1>3, <3>2, <3>3
  <2> HIDE DEF u2
  <2>5. Len(out2) = n + 1 /\ u2 = g + x2.sentCount
    BY <1>11 DEF u2
  <2> HIDE DEF n
  <2> QED BY <1>12, <2>3, <2>4, <2>5 DEF Travelling
<1>17. Lagging(x2, y, out2, back)
  <2>1. Behind(x2, y.receiveHead) <= MaxLag
    <3>1. Behind(x, y.receiveHead) < MaxLag /\ Behind(x, y.receiveHead) \in 0..RingSize - 1
      BY <1>14, BehindTyped DEF Near
    <3> QED BY <1>13, <1>14, <3>1, Sizes
  <2>2. ASSUME NEW i \in 1..Len(back) PROVE Behind(x2, back[i].ack.base) <= MaxLag
    <3>1. Behind(x, back[i].ack.base) < MaxLag /\ Behind(x, back[i].ack.base) \in 0..RingSize - 1
      BY <1>14, BehindTyped DEF Near
    <3> QED BY <1>13, <1>14, <3>1, Sizes, SMTT(30)
  <2>3. ASSUME NEW i \in 1..n + 1 PROVE Behind(x2, out2[i].head) <= MaxLag
    <3>1. CASE i \in 1..n
      <4>1. Behind(x, out[i].head) < MaxLag /\ Behind(x, out[i].head) \in 0..RingSize - 1
        BY <1>14, <3>1, BehindTyped DEF Near
      <4>2. Behind(x2, out[i].head) <= MaxLag
        BY <1>13, <1>14, <3>1, <4>1, Sizes
      <4> QED BY <1>11, <3>1, <4>2
    <3>2. CASE i = n + 1
      BY <1>10, <1>11, <1>15, <3>2, Sizes
    <3> QED BY <1>3, <3>1, <3>2
  <2> QED BY <1>11, <2>1, <2>2, <2>3 DEF Lagging
<1>18. Covering(x2, y, out2, back, g, h, f2)
  <2> SUFFICES ASSUME x2.awaiting
               PROVE  /\ \A i \in 1..Len(out2) :
                            Reached(x2, out2[i].head % RingSize)
                               => f2[i] = g /\ Len(out2[i].records) = x2.sentCount
                      /\ \A i \in 1..Len(back) :
                            back[i].ack.ring /\ Reached(x2, back[i].ack.base) => h = g + x2.sentCount
                      /\ y.ring /\ Reached(x2, y.receiveHead % RingSize) => h = g + x2.sentCount
    BY DEF Covering
  <2>1. f2[n + 1] = g /\ Len(out2[n + 1].records) = x2.sentCount
    BY <1>10, <1>11, <1>12
  <2>2. CASE fresh
    <3>1. ASSUME NEW a \in Nat, Behind(x, a) < MaxLag PROVE ~Reached(x2, a % RingSize)
      <4>1. Ahead(x2.head % RingSize, a % RingSize, RingSize) >= RingSize \div 2
        BY <1>13, <3>1
      <4>2. x2.sentInPacket = x2.head
        BY <1>2, <2>2
      <4> DEFINE b == Ahead(x2.head % RingSize, a % RingSize, RingSize)
      <4>3. b \in Int
        <5> DEFINE v == x2.head % RingSize
                   w == a % RingSize
        <5>1. v \in 0..RingSize - 1 /\ w \in 0..RingSize - 1 /\ RingSize \in Nat \ {0}
          BY <1>14, OnRing, Sizes
        <5> DEFINE R == RingSize
        <5>2. v \in 0..R - 1 /\ w \in 0..R - 1 /\ R \in Nat \ {0}
          BY <5>1
        <5> HIDE DEF v, w, R
        <5>3. Ahead(v, w, R) = IF v <= w THEN w - v ELSE w + R - v
          BY <5>2, AheadOf
        <5>4. Ahead(v, w, R) \in Int
          BY <5>2, <5>3
        <5> QED BY <5>4 DEF v, w, R
      <4>4. RingSize \div 2 \in Int
        BY Sizes
      <4> HIDE DEF b
      <4>5. ~(b < RingSize \div 2)
        BY <4>1, <4>3, <4>4 DEF b
      <4> QED BY <4>2, <4>5 DEF Reached, b
    <3>2. \A i \in 1..n : ~Reached(x2, out2[i].head % RingSize)
      BY <1>11, <1>14, <3>1 DEF Near
    <3>3. \A i \in 1..Len(back) : ~Reached(x2, back[i].ack.base)
      BY <1>14, <3>1 DEF Near
    <3>4. ~Reached(x2, y.receiveHead % RingSize)
      BY <1>14, <3>1 DEF Near
    <3>5. \A i \in 1..Len(out2) : i \in 1..n \/ i = n + 1
      BY <1>3, <1>11
    <3> QED BY <2>1, <3>2, <3>3, <3>4, <3>5
  <2>3. CASE ~fresh
    <3>1. x.awaiting /\ x2.sentInPacket = x.sentInPacket /\ x2.sentCount = x.sentCount
      BY <1>2, <2>3
    <3>2. \A a : Reached(x2, a) <=> Reached(x, a)
      BY <3>1 DEF Reached
    <3>3. Covering(x, y, out, back, g, h, f)
      BY <1>1 DEF Placed
    <3>4. \A i \in 1..n : Reached(x2, out2[i].head % RingSize)
                             => f2[i] = g /\ Len(out2[i].records) = x2.sentCount
      BY <1>11, <1>12, <3>1, <3>2, <3>3 DEF Covering
    <3>5. \A i \in 1..Len(out2) : i \in 1..n \/ i = n + 1
      BY <1>3, <1>11
    <3> QED BY <2>1, <3>1, <3>2, <3>3, <3>4, <3>5 DEF Covering
  <2> QED BY <2>2, <2>3
<1>19. Placed(e, x2, y, out2, back, d, count, Q, g, r, h, f2)
  BY <1>1, <1>8, <1>9, <1>16, <1>17, <1>18 DEF Placed
<1>20. Direction(e, x2, y, out2, back, d, count)
  BY <1>19 DEF Direction
<1> QED BY <1>10, <1>20 DEF x2, p, out2

(***************************************************************************)
(* Records arrive                                                          *)
(***************************************************************************)
(* What z needs of the stream: the sequence of each fragment.              *)
Numbered(Q) == Q \in Seq(Fragment) /\ \A i \in 1..Len(Q) : Q[i].sequence = i % MessageModulus

(* z drains from fragment r + 1 on and holds the fragments up to k. *)
Filled(z, Q, r, k) ==
    /\ z.held = {Q[i] : i \in r + 1 .. k}
    /\ IF z.started THEN z.next = (r + 1) % MessageModulus ELSE k = 0

Later(a, b) == IF a < b THEN b ELSE a

(* The fields no record touches. *)
SameLink(z, y) == SameSender(z, y) /\ z.receiveHead = y.receiveHead /\ z.ring = y.ring

LEMMA AcceptTyped ==
  ASSUME NEW z \in End, NEW record \in Fragment
  PROVE  AcceptRecord(z, record) \in End /\ SameLink(AcceptRecord(z, record), z)
<1> DEFINE next == IF z.started THEN z.next ELSE record.sequence
           slot == record.sequence % ReliableSlots
           clash == {s \in z.held : s.sequence % ReliableSlots = slot}
           held == IF \/ Ahead(next, record.sequence, MessageModulus) >= ReliableSlots
                      \/ \E s \in clash : s.sequence = record.sequence
                   THEN z.held ELSE (z.held \ clash) \cup {record}
<1>1. next \in 0..MessageModulus - 1
  BY DEF End, Fragment
<1>2. held \in SUBSET Fragment
  BY DEF End
<1>3. AcceptRecord(z, record) = [z EXCEPT !.started = TRUE, !.next = next, !.held = held]
  BY DEF AcceptRecord
<1> HIDE DEF next, held
<1> DEFINE w == [z EXCEPT !.started = TRUE, !.next = next, !.held = held]
<1>4. w \in End
  BY <1>1, <1>2 DEF End
<1>5. SameLink(w, z)
  BY DEF SameLink, SameSender, End
<1> QED BY <1>3, <1>4, <1>5

LEMMA OneAccepted ==
  ASSUME NEW z \in End, NEW Q, Numbered(Q), NEW r \in Nat, NEW k \in Nat, Filled(z, Q, r, k),
         r <= k, k <= Len(Q), k <= r + ReliableSlots,
         NEW j \in 1..Len(Q), j <= k + 1, j <= r + ReliableSlots,
         r + 1 <= j + (MessageModulus - ReliableSlots)
  PROVE  Filled(AcceptRecord(z, Q[j]), Q, r, Later(k, j))
<1> DEFINE mm == MessageModulus
           S == ReliableSlots
           N == Len(Q)
           record == Q[j]
           next == IF z.started THEN z.next ELSE record.sequence
           slot == record.sequence % S
           clash == {s \in z.held : s.sequence % S = slot}
           far == Ahead(next, record.sequence, mm) >= S
           here == \E s \in clash : s.sequence = record.sequence
           held == IF far \/ here THEN z.held ELSE (z.held \ clash) \cup {record}
<1>1. /\ mm \in Nat \ {0} /\ S \in Nat \ {0} /\ S < mm /\ mm % S = 0
      /\ N \in Nat /\ Q \in Seq(Fragment) /\ \A i \in 1..N : Q[i].sequence = i % mm
  BY Sizes DEF Numbered
<1>2. z.held = {Q[i] : i \in r + 1 .. k} /\ IF z.started THEN z.next = (r + 1) % mm ELSE k = 0
  BY DEF Filled
<1>3. record.sequence = j % mm /\ record \in Fragment
  BY <1>1
<1>4. next = (r + 1) % mm
  <2>1. CASE z.started
    BY <1>2, <2>1
  <2>2. CASE ~z.started
    <3>1. r + 1 = j
      BY <1>2, <2>2
    <3> QED BY <1>3, <2>2, <3>1
  <2> QED BY <2>1, <2>2
<1>5. AcceptRecord(z, record) = [z EXCEPT !.started = TRUE, !.next = next, !.held = held]
  BY DEF AcceptRecord
<1>6. held = {Q[i] : i \in r + 1 .. Later(k, j)}
  <2> HIDE DEF next
  <2>1. CASE j <= r
    <3>1. far
      <4> DEFINE d == r + 1 - j
      <4>1. d \in 1..mm /\ mm - d >= S /\ j \in Nat
        BY <1>1, <2>1
      <4>2. r + 1 = j + d
        OBVIOUS
      <4> HIDE DEF d, mm, S
      <4>3. Ahead((j + d) % mm, j % mm, mm) = mm - d
        BY <1>1, <4>1, BehindBy, Zenon
      <4> QED BY <1>3, <1>4, <4>1, <4>2, <4>3
    <3>2. Later(k, j) = k
      BY <2>1 DEF Later
    <3> QED BY <1>2, <3>1, <3>2
  <2>2. CASE j >= r + 1 /\ j <= k
    <3>1. record \in z.held
      BY <1>2, <2>2
    <3>2. here
      BY <3>1
    <3>3. Later(k, j) = k
      BY <2>2 DEF Later
    <3> QED BY <1>2, <3>2, <3>3
  <2>3. CASE j = k + 1
    <3>1. ~far
      <4> DEFINE d == j - (r + 1)
      <4>1. d \in 0..mm-1 /\ d < S /\ j = (r + 1) + d /\ r + 1 \in Nat
        BY <1>1, <2>3
      <4> HIDE DEF d, mm, S
      <4>2. Ahead((r + 1) % mm, ((r + 1) + d) % mm, mm) = d
        BY <1>1, <4>1, AheadBy, Zenon
      <4>3. Ahead(next, record.sequence, mm) = d
        BY <1>3, <1>4, <4>1, <4>2
      <4>4. ~(d >= S)
        BY <1>1, <4>1
      <4> QED BY <4>3, <4>4
    <3>2. ASSUME NEW i \in r + 1 .. k PROVE Q[i].sequence % S # slot
      <4>1. i \in 1..N /\ i < j /\ j < i + S /\ i \in Nat /\ j \in Nat
        BY <1>1, <2>3
      <4> HIDE DEF mm, S, N
      <4>2. i % S # j % S
        BY <1>1, <4>1, Apart
      <4>3. (i % mm) % S = i % S /\ (j % mm) % S = j % S
        BY <1>1, <4>1, Nested
      <4>4. Q[i].sequence = i % mm
        BY <1>1, <4>1
      <4> QED BY <1>3, <4>2, <4>3, <4>4
    <3>3. clash = {}
      BY <1>2, <3>2
    <3>4. held = z.held \cup {record}
      <4>1. ~here
        BY <3>3
      <4> HIDE DEF far, here, clash
      <4> QED BY <3>1, <3>3, <4>1
    <3>5. Later(k, j) = k + 1
      BY <2>3 DEF Later
    <3>6. r + 1 .. k + 1 = (r + 1 .. k) \cup {k + 1}
      OBVIOUS
    <3> HIDE DEF held
    <3> QED BY <1>2, <2>3, <3>4, <3>5, <3>6
  <2> QED BY <2>1, <2>2, <2>3
<1> HIDE DEF next, held
<1>7. [z EXCEPT !.started = TRUE, !.next = next, !.held = held].held = held
      /\ [z EXCEPT !.started = TRUE, !.next = next, !.held = held].next = next
      /\ [z EXCEPT !.started = TRUE, !.next = next, !.held = held].started
  BY DEF End
<1> QED BY <1>4, <1>5, <1>6, <1>7 DEF Filled

LEMMA AllAccepted ==
  ASSUME NEW z \in End, NEW Q, Numbered(Q), NEW r \in Nat, NEW k \in Nat, Filled(z, Q, r, k),
         r <= k, k <= Len(Q), k <= r + ReliableSlots,
         NEW records \in Seq(Fragment), NEW a \in Nat, a <= k,
         a + Len(records) <= Len(Q), a + Len(records) <= r + ReliableSlots,
         r <= a + (MessageModulus - ReliableSlots),
         \A i \in 1..Len(records) : records[i] = Q[a + i]
  PROVE  /\ AcceptRecords(z, records) \in End /\ SameLink(AcceptRecords(z, records), z)
         /\ Filled(AcceptRecords(z, records), Q, r, Later(k, a + Len(records)))
<1> DEFINE n == Len(records)
           after(i) == Accepting(z, records)[i]
           Good(i) == /\ after(i) \in End /\ SameLink(after(i), z)
                      /\ Filled(after(i), Q, r, Later(k, a + i))
           Bad == {i \in 0..n : ~Good(i)}
<1>1. /\ n \in Nat /\ AcceptRecords(z, records) = after(n) /\ after(0) = z
      /\ \A i \in 1..n : after(i) = AcceptRecord(after(i - 1), records[i])
  BY AcceptingSteps
<1> HIDE DEF after
<1>2. Good(0)
  <2>1. Later(k, a + 0) = k
    BY DEF Later
  <2> QED BY <1>1, <2>1 DEF SameLink, SameSender
<1>3. ASSUME NEW i \in 1..n, Good(i - 1) PROVE Good(i)
  <2> DEFINE w == after(i - 1)
             l == Later(k, a + (i - 1))
             j == a + i
  <2>1. w \in End /\ SameLink(w, z) /\ Filled(w, Q, r, l)
    BY <1>3
  <2>2. l \in Nat /\ r <= l /\ l <= Len(Q) /\ l <= r + ReliableSlots /\ j <= l + 1 /\ Later(l, j) = Later(k, j)
    BY <1>1, Sizes DEF Later, Numbered
  <2>3. j \in 1..Len(Q) /\ j <= r + ReliableSlots /\ r + 1 <= j + (MessageModulus - ReliableSlots)
    <3> DEFINE late == MessageModulus - ReliableSlots
               N == Len(Q)
    <3>1. late \in Nat /\ ReliableSlots \in Nat
      BY Sizes
    <3>2. N \in Nat
      BY DEF Numbered
    <3>3. n \in Nat /\ a + n <= N /\ a + n <= r + ReliableSlots /\ r <= a + late
      BY <1>1
    <3>4. i \in 1..n
      OBVIOUS
    <3> HIDE DEF n, late, N
    <3>5. j \in 1..N /\ j <= r + ReliableSlots /\ r + 1 <= j + late
      BY <3>1, <3>2, <3>3, <3>4
    <3> QED BY <3>5 DEF late, N
  <2>4. records[i] = Q[j] /\ Q[j] \in Fragment
    BY <2>3 DEF Numbered
  <2>5. after(i) = AcceptRecord(w, Q[j])
    BY <1>1, <2>4
  <2> HIDE DEF w, l, j
  <2>6. Filled(AcceptRecord(w, Q[j]), Q, r, Later(l, j))
    BY <2>1, <2>2, <2>3, OneAccepted
  <2>7. AcceptRecord(w, Q[j]) \in End /\ SameLink(AcceptRecord(w, Q[j]), w)
    BY <2>1, <2>4, AcceptTyped
  <2>8. SameLink(after(i), z)
    BY <2>1, <2>5, <2>7 DEF SameLink, SameSender
  <2>9. Filled(after(i), Q, r, Later(k, j)) /\ after(i) \in End
    BY <2>2, <2>5, <2>6, <2>7, Zenon
  <2> QED BY <2>8, <2>9 DEF j
<1>4. Bad = {}
  <2> HIDE DEF Good
  <2> SUFFICES ASSUME Bad # {} PROVE FALSE
    OBVIOUS
  <2>1. Bad \in SUBSET Nat
    BY <1>1
  <2>2. PICK i \in Bad : \A j \in Bad : ~(j < i)
    BY <2>1, Least
  <2>3. i # 0
    BY <1>2, <2>2
  <2>4. i \in 1..n /\ i - 1 \in 0..n /\ i - 1 < i
    BY <1>1, <2>2, <2>3
  <2>5. Good(i - 1)
    BY <2>2, <2>4
  <2> QED BY <1>3, <2>2, <2>4, <2>5
<1>5. Good(n)
  BY <1>1, <1>4
<1> QED BY <1>1, <1>5

(***************************************************************************)
(* What is drained                                                         *)
(***************************************************************************)
LEMMA Distinct ==
  ASSUME NEW Q, Numbered(Q), NEW i \in 1..Len(Q), NEW j \in 1..Len(Q), i < j, j < i + MessageModulus
  PROVE  Q[i].sequence # Q[j].sequence /\ Q[i] # Q[j]
<1>1. MessageModulus \in Nat \ {0} /\ i \in Nat /\ j \in Nat
  BY Sizes DEF Numbered
<1>2. i % MessageModulus # j % MessageModulus
  BY <1>1, Apart
<1>3. Q[i].sequence = i % MessageModulus /\ Q[j].sequence = j % MessageModulus
  BY DEF Numbered
<1> QED BY <1>2, <1>3

LEMMA WaitingRun ==
  ASSUME NEW z \in End, NEW Q, Numbered(Q), NEW r \in Nat, NEW k \in Nat, Filled(z, Q, r, k),
         r <= k, k <= Len(Q), k <= r + ReliableSlots
  PROVE  Waiting(z) = [i \in 1..k - r |-> Q[r + i]]
<1> DEFINE mm == MessageModulus
           S == ReliableSlots
           L == k - r
           At(i) == {f \in z.held : f.sequence = (z.next + i - 1) % mm}
           unbroken == {n \in 0..S : \A i \in 1..n : At(i) # {}}
<1>1. /\ mm \in Nat \ {0} /\ S \in Nat \ {0} /\ S < mm /\ L \in Nat /\ L <= S
      /\ Len(Q) \in Nat /\ \A i \in 1..Len(Q) : Q[i].sequence = i % mm
  BY Sizes DEF Numbered
<1>2. z.held = {Q[i] : i \in r + 1 .. k} /\ (z.started => z.next = (r + 1) % mm) /\ (~z.started => k = 0)
  BY DEF Filled
<1>3. ASSUME NEW i \in 1..L + 1, z.started
      PROVE  At(i) = {f \in z.held : f.sequence = (r + i) % mm}
  <2>1. ((r + 1) % mm) + (i - 1) = z.next + i - 1
    <3> DEFINE v == (r + 1) % mm
    <3>1. v \in Nat /\ z.next = v
      <4>1. r + 1 \in Nat
        OBVIOUS
      <4> QED BY <1>1, <1>2, <1>3, <4>1, Division
    <3> HIDE DEF v
    <3>2. v + (i - 1) = z.next + i - 1
      BY <3>1, <1>1
    <3> QED BY <3>2 DEF v
  <2>2. (((r + 1) % mm) + (i - 1)) % mm = ((r + 1) + (i - 1)) % mm
    <3>1. r + 1 \in Nat /\ i - 1 \in Nat
      BY <1>1
    <3> QED BY <1>1, <3>1, Shifted, Zenon
  <2>3. (r + 1) + (i - 1) = r + i
    BY <1>1
  <2>4. (z.next + i - 1) % mm = (r + i) % mm
    BY <2>1, <2>2, <2>3
  <2> QED BY <2>4
<1>4. ASSUME NEW i \in 1..L PROVE At(i) = {Q[r + i]}
  <2>1. z.started
    BY <1>1, <1>2
  <2>2. r + i \in r + 1 .. k /\ r + i \in 1..Len(Q) /\ i \in 1..L + 1
    BY <1>1
  <2>3. Q[r + i] \in z.held /\ Q[r + i].sequence = (r + i) % mm
    BY <1>1, <1>2, <2>2
  <2>4. ASSUME NEW f \in z.held, f.sequence = (r + i) % mm PROVE f = Q[r + i]
    <3>1. PICK j \in r + 1 .. k : f = Q[j]
      BY <1>2
    <3>2. j \in 1..Len(Q) /\ j < (r + i) + mm /\ r + i < j + mm
      BY <1>1, <2>2, SMTT(30)
    <3>3. ~(j < r + i)
      BY <2>2, <2>3, <2>4, <3>1, <3>2, Distinct
    <3>4. ~(r + i < j)
      BY <2>2, <2>3, <2>4, <3>1, <3>2, Distinct
    <3>5. j = r + i
      <4>1. j \in Nat /\ r + i \in Nat
        BY <1>1
      <4> QED BY <3>3, <3>4, <4>1
    <3> QED BY <3>1, <3>5
  <2>5. At(i) = {f \in z.held : f.sequence = (r + i) % mm}
    BY <1>3, <2>1, <2>2
  <2> HIDE DEF At
  <2> QED BY <2>3, <2>4, <2>5
<1>5. At(L + 1) = {}
  <2>1. CASE z.started
    <3> SUFFICES ASSUME NEW f \in z.held, f.sequence = (r + (L + 1)) % mm PROVE FALSE
      <4>1. At(L + 1) = {f \in z.held : f.sequence = (r + (L + 1)) % mm}
        <5>1. L + 1 \in 1..L + 1
          BY <1>1
        <5> HIDE DEF L, At
        <5> QED BY <1>3, <2>1, <5>1
      <4> HIDE DEF At
      <4> QED BY <4>1
    <3>1. PICK j \in r + 1 .. k : f = Q[j]
      BY <1>2
    <3>2. j \in 1..Len(Q) /\ j \in Nat /\ k + 1 \in Nat /\ j < k + 1 /\ k + 1 < j + mm /\ r + (L + 1) = k + 1
      <4>1. r + (L + 1) = k + 1
        OBVIOUS
      <4>2. k - r <= S /\ S < mm /\ mm \in Nat /\ S \in Nat
        BY <1>1
      <4>3. j \in Nat /\ j >= r + 1 /\ j <= k
        OBVIOUS
      <4> HIDE DEF mm, S, L
      <4>4. k + 1 < j + mm
        BY <4>2, <4>3
      <4>5. j \in 1..Len(Q)
        BY <1>1, <4>3
      <4> QED BY <4>1, <4>3, <4>4, <4>5
    <3>3. j % mm # (k + 1) % mm
      <4> HIDE DEF mm
      <4> QED BY <1>1, <3>2, Apart
    <3>4. f.sequence = j % mm
      BY <1>1, <3>1, <3>2
    <3> QED BY <3>2, <3>3, <3>4
  <2>2. CASE ~z.started
    <3>1. z.held = {}
      BY <1>2, <2>2
    <3> QED BY <3>1
  <2> QED BY <2>1, <2>2
<1> HIDE DEF At
<1>6. unbroken = 0..L
  <2>1. ASSUME NEW n \in 0..L PROVE n \in unbroken
    <3>1. \A i \in 1..n : i \in 1..L
      BY <1>1
    <3>2. \A i \in 1..n : At(i) # {}
      BY <1>4, <3>1
    <3>3. n \in 0..S
      BY <1>1
    <3> QED BY <3>2, <3>3
  <2>2. ASSUME NEW n \in unbroken PROVE n \in 0..L
    <3>1. n \in 0..S /\ \A i \in 1..n : At(i) # {}
      OBVIOUS
    <3>2. ~(L + 1 \in 1..n)
      BY <1>5, <3>1
    <3> QED BY <1>1, <3>1, <3>2
  <2> QED BY <2>1, <2>2
<1>7. Max(unbroken) = L
  <2>1. 0..L \in SUBSET Nat /\ 0..L # {} /\ \A i \in 0..L : i <= L
    <3>1. L \in Nat
      BY <1>1
    <3> HIDE DEF L
    <3>2. 0 \in 0..L
      BY <3>1
    <3>3. \A i \in 0..L : i <= L /\ i \in Nat
      BY <3>1
    <3> QED BY <3>2, <3>3
  <2>2. Max(0..L) \in 0..L /\ \A i \in 0..L : i <= Max(0..L)
    BY <1>1, <2>1, MaxOf, Zenon
  <2>3. L \in 0..L
    BY <1>1
  <2>4. L <= Max(0..L) /\ Max(0..L) <= L /\ Max(0..L) \in Nat
    BY <2>1, <2>2, <2>3
  <2>5. Max(0..L) = L
    <3> DEFINE v == Max(0..L)
    <3>1. v \in Nat /\ L <= v /\ v <= L
      BY <2>4
    <3> HIDE DEF v, L
    <3>2. v = L
      BY <1>1, <3>1
    <3> QED BY <3>2 DEF v
  <2> QED BY <1>6, <2>5, Zenon
<1>8. Waiting(z) = [i \in 1..Max(unbroken) |-> CHOOSE f \in At(i) : TRUE]
  BY Zenon DEF Waiting, At
<1>9. \A i \in 1..L : (CHOOSE f \in At(i) : TRUE) = Q[r + i]
  <2> TAKE i \in 1..L
  <2>1. At(i) = {Q[r + i]}
    BY <1>4
  <2> QED BY <2>1
<1> HIDE DEF L, unbroken
<1>10. Waiting(z) = [i \in 1..L |-> Q[r + i]]
  BY <1>7, <1>8, <1>9, Zenon
<1> QED BY <1>10 DEF L

(* No short fragment, no message completed. *)
LEMMA NoneClosed ==
  ASSUME NEW Q, NEW count, Stream(Q, count), NEW r \in Nat, NEW k \in Nat, r <= k, k <= Len(Q),
         \A i \in r + 1 .. k : ~Q[i].short
  PROVE  Closed(Q, k) = Closed(Q, r)
<1> DEFINE Bad == {i \in r..k : Closed(Q, i) # Closed(Q, r)}
<1>1. Bad = {}
  <2> SUFFICES ASSUME Bad # {} PROVE FALSE
    OBVIOUS
  <2>1. Bad \in SUBSET Nat
    OBVIOUS
  <2>2. PICK i \in Bad : \A j \in Bad : ~(j < i)
    BY <2>1, Least
  <2>3. i # r
    BY <2>2
  <2>4. i \in r + 1 .. k /\ i - 1 \in r..k /\ i - 1 < i
    BY <2>2, <2>3
  <2>5. Closed(Q, i - 1) = Closed(Q, r)
    BY <2>2, <2>4
  <2>6. i \in 1..Len(Q) /\ Q \in Seq(Fragment) /\ i # 0 /\ ~Q[i].short
    BY <2>4 DEF Stream
  <2>7. Q[i].message = Closed(Q, i - 1) + 1
    BY <2>6 DEF Stream
  <2>8. Closed(Q, i) = Q[i].message - 1 /\ Q[i].message \in Int
    <3>1. Q[i] \in Fragment
      BY <2>6
    <3>2. Q[i].message \in Int
      BY <3>1, MostMessages DEF Fragment
    <3> QED BY <2>6, <3>2 DEF Closed
  <2>9. Closed(Q, r) \in Int
    <3>1. CASE r = 0
      BY <3>1 DEF Closed
    <3>2. CASE r # 0
      <4>1. r \in 1..Len(Q)
        BY <2>6, <3>2
      <4>2. Q[r] \in Fragment
        BY <2>6, <4>1
      <4>3. Q[r].message \in Int
        BY <4>2, MostMessages DEF Fragment
      <4> QED BY <3>2, <4>3 DEF Closed
    <3> QED BY <3>1, <3>2
  <2>10. Closed(Q, i) = Closed(Q, r)
    BY <2>5, <2>7, <2>8, <2>9
  <2> QED BY <2>2, <2>10
<1> QED BY <1>1

LEMMA ClosedTyped ==
  ASSUME NEW Q \in Seq(Fragment), NEW i \in 0..Len(Q)
  PROVE  Closed(Q, i) \in Nat
<1>1. CASE i = 0
  BY <1>1 DEF Closed
<1>2. CASE i # 0
  <2>1. i \in 1..Len(Q)
    BY <1>2
  <2>2. Q[i] \in Fragment
    BY <2>1
  <2>3. Q[i].message \in Nat /\ Q[i].message >= 1
    BY <2>2, MostMessages DEF Fragment
  <2> QED BY <1>2, <2>3 DEF Closed
<1> QED BY <1>1, <1>2

(* The drain takes everything up to the last short fragment. *)
LEMMA Drained ==
  ASSUME NEW z \in End, NEW Q, Numbered(Q), NEW r \in Nat, NEW k \in Nat, Filled(z, Q, r, k),
         r <= k, k <= Len(Q), k <= r + ReliableSlots
  PROVE  \E q \in r..k : /\ Drain(z) \in End /\ SameLink(Drain(z), z) /\ Filled(Drain(z), Q, q, k)
                         /\ Drain(z).started = z.started
                         /\ q > r => Q[q].short
                         /\ \A i \in q + 1 .. k : ~Q[i].short
<1> DEFINE W == Waiting(z)
           n == k - r
           S == {0} \cup {i \in DOMAIN W : W[i].short}
           L == DrainedLength(z)
           taken == SubSeq(W, 1, L)
           q == r + L
           mm == MessageModulus
<1>1. /\ W = [i \in 1..n |-> Q[r + i]] /\ n \in Nat /\ mm \in Nat \ {0} /\ Q \in Seq(Fragment)
      /\ n <= ReliableSlots /\ ReliableSlots < mm
  <2>1. W = [i \in 1..n |-> Q[r + i]]
    BY WaitingRun
  <2>2. Q \in Seq(Fragment)
    BY DEF Numbered
  <2>3. n \in Nat /\ n <= ReliableSlots /\ mm \in Nat \ {0} /\ ReliableSlots < mm
    BY Sizes
  <2> QED BY <2>1, <2>2, <2>3
<1>2. \A i \in 1..n : r + i \in 1..Len(Q) /\ Q[r + i] \in Fragment
  <2> TAKE i \in 1..n
  <2>1. r + i \in 1..Len(Q)
    BY <1>1
  <2> QED BY <1>1, <2>1
<1>3. DrainedLength(z) = Max(S)
  BY DEF DrainedLength
<1> HIDE DEF W
<1>4. W \in Seq(Fragment) /\ Len(W) = n /\ DOMAIN W = 1..n /\ \A i \in 1..n : W[i] = Q[r + i]
  <2> HIDE DEF n
  <2> QED BY <1>1, <1>2
<1>5. L \in S /\ \A i \in S : i <= L
  <2>1. S \in SUBSET Nat /\ S # {} /\ \A i \in S : i <= n
    <3>1. 0 \in S
      OBVIOUS
    <3>2. \A i \in S : i \in Nat /\ i <= n
      <4> HIDE DEF n
      <4>1. \A i \in DOMAIN W : i \in Nat /\ i <= n
        BY <1>1, <1>4
      <4> QED BY <1>1, <4>1
    <3> HIDE DEF S, n
    <3> QED BY <3>1, <3>2
  <2> HIDE DEF S, n
  <2> QED BY <1>1, <1>3, <2>1, MaxOf
<1>6. L \in 0..n /\ (L > 0 => Q[q].short)
  <2> HIDE DEF n, L
  <2>1. L = 0 \/ (L \in 1..n /\ W[L].short)
    BY <1>4, <1>5
  <2> QED BY <1>1, <1>4, <2>1 DEF n
<1>7. q \in r..k /\ (q > r => Q[q].short)
  BY <1>6
<1>8. ASSUME NEW i \in q + 1 .. k PROVE ~Q[i].short
  <2> DEFINE j == i - r
  <2>1. j \in 1..n /\ j > L /\ r + j = i
    BY <1>6, <1>7
  <2> HIDE DEF j, n, L
  <2>2. j \notin S
    BY <1>5, <1>6, <2>1
  <2>3. ~W[j].short
    BY <1>4, <2>1, <2>2
  <2> QED BY <1>4, <2>1, <2>3
<1> HIDE DEF L, S
<1>9. taken \in Seq(Fragment) /\ Len(taken) = L /\ \A i \in 1..L : taken[i] = Q[r + i]
  <2>1. L \in 0..Len(W)
    BY <1>4, <1>6
  <2>2. taken \in Seq(Fragment) /\ Len(taken) = L
    BY <1>4, <2>1, Prefix, Zenon
  <2>3. \A i \in 1..L : taken[i] = W[i]
    BY <1>4, <2>1, Prefix, Zenon
  <2>4. \A i \in 1..L : i \in 1..n
    BY <1>1, <1>6
  <2> QED BY <1>4, <2>2, <2>3, <2>4
<1> DEFINE gone == {taken[i] : i \in DOMAIN taken}
           next == (z.next + Len(taken)) % mm
           held == z.held \ gone
           w == [z EXCEPT !.next = next, !.held = held]
<1>10. Drain(z) = w
  BY Zenon DEF Drain, W, L
<1>11. gone = {Q[i] : i \in r + 1 .. q}
  <2>1. DOMAIN taken = 1..L
    BY <1>9
  <2> HIDE DEF taken
  <2>2. \A i \in 1..L : r + i \in r + 1 .. q
    BY <1>6
  <2>3. \A i \in r + 1 .. q : i - r \in 1..L /\ r + (i - r) = i
    BY <1>6
  <2>4. gone \subseteq {Q[i] : i \in r + 1 .. q}
    BY <1>9, <2>1, <2>2
  <2>5. {Q[i] : i \in r + 1 .. q} \subseteq gone
    BY <1>9, <2>1, <2>3, SMTT(30)
  <2> QED BY <2>4, <2>5
<1>12. held = {Q[i] : i \in q + 1 .. k}
  <2>1. z.held = {Q[i] : i \in r + 1 .. k}
    BY DEF Filled
  <2>2. ASSUME NEW i \in r + 1 .. q, NEW j \in q + 1 .. k PROVE Q[i] # Q[j]
    <3> DEFINE v == q
    <3>1. v \in r..k /\ i \in r + 1 .. v /\ j \in v + 1 .. k
      BY <1>7
    <3>3. Len(Q) \in Nat /\ ReliableSlots \in Nat /\ mm \in Nat /\ ReliableSlots < mm
      BY <1>1, Sizes
    <3> HIDE DEF q, v, mm
    <3>2. i \in 1..Len(Q) /\ j \in 1..Len(Q) /\ i < j /\ j < i + mm
      BY <3>1, <3>3
    <3> QED BY <3>2, Distinct DEF mm
  <2>3. r + 1 .. k = (r + 1 .. q) \cup (q + 1 .. k)
    BY <1>7
  <2> QED BY <1>11, <2>1, <2>2, <2>3
<1>13. next \in 0..mm-1 /\ (z.started => next = (q + 1) % mm)
  <2>1. z.next \in Nat /\ L \in Nat
    BY <1>1, <1>6 DEF End
  <2>2. next = (z.next + L) % mm
    BY <1>9
  <2>3. next \in 0..mm-1
    <3>1. z.next + L \in Nat
      BY <2>1
    <3> QED BY <1>1, <2>2, <3>1, Division
  <2>4. ASSUME z.started PROVE next = (q + 1) % mm
    <3>1. z.next = (r + 1) % mm
      BY <2>4 DEF Filled
    <3>2. r + 1 \in Nat
      OBVIOUS
    <3> HIDE DEF next
    <3>3. (((r + 1) % mm) + L) % mm = ((r + 1) + L) % mm
      BY <1>1, <2>1, <3>2, Shifted, Zenon
    <3>4. (r + 1) + L = q + 1
      BY <2>1
    <3> QED BY <2>2, <3>1, <3>3, <3>4
  <2> QED BY <2>3, <2>4
<1>14. held \in SUBSET Fragment
  BY DEF End
<1> HIDE DEF next, held
<1>15. w \in End /\ w.started = z.started /\ w.next = next /\ w.held = held
  BY <1>13, <1>14 DEF End
<1>16. SameLink(w, z)
  BY DEF SameLink, SameSender, End
<1>17. Filled(w, Q, q, k)
  <2>1. ~z.started => k = 0
    BY DEF Filled
  <2> QED BY <1>12, <1>13, <1>15, <2>1 DEF Filled
<1> HIDE DEF w, q
<1> QED BY <1>7, <1>8, <1>10, <1>15, <1>16, <1>17

(***************************************************************************)
(* What is handed up                                                       *)
(***************************************************************************)
Run(b, c) == [m \in 1..c |-> b + m]

LEMMA RunTyped ==
  ASSUME NEW b \in Nat, NEW c \in Nat
  PROVE  Run(b, c) \in Seq(Nat) /\ Len(Run(b, c)) = c /\ \A m \in 1..c : Run(b, c)[m] = b + m
BY DEF Run

LEMMA RunGrows ==
  ASSUME NEW b \in Nat, NEW c \in Nat
  PROVE  Append(Run(b, c), b + c + 1) = Run(b, c + 1)
<1> DEFINE s == Run(b, c)
           t == Run(b, c + 1)
<1>1. /\ s \in Seq(Nat) /\ Len(s) = c /\ \A m \in 1..c : s[m] = b + m
      /\ t \in Seq(Nat) /\ Len(t) = c + 1 /\ \A m \in 1..c + 1 : t[m] = b + m
  <2>1. c + 1 \in Nat
    OBVIOUS
  <2> QED BY <2>1, RunTyped, Zenon
<1> HIDE DEF s, t
<1> DEFINE w == Append(s, b + c + 1)
<1>2. w \in Seq(Nat) /\ Len(w) = c + 1 /\ (\A m \in 1..c : w[m] = s[m]) /\ w[c + 1] = b + c + 1
  BY <1>1
<1> HIDE DEF w
<1>3. \A m \in 1..c + 1 : w[m] = t[m]
  <2> TAKE m \in 1..c + 1
  <2>1. CASE m = c + 1
    BY <1>1, <1>2, <2>1
  <2>2. CASE m # c + 1
    <3>1. m \in 1..c
      BY <2>2
    <3> QED BY <1>1, <1>2, <3>1
  <2> QED BY <2>1, <2>2
<1>4. w = t
  BY <1>1, <1>2, <1>3
<1> QED BY <1>4 DEF w, s, t

LEMMA RunJoins ==
  ASSUME NEW b \in Nat, NEW c \in Nat
  PROVE  Run(0, b) \o Run(b, c) = Run(0, b + c)
<1> DEFINE s == Run(0, b)
           t == Run(b, c)
           u == Run(0, b + c)
<1>1. /\ s \in Seq(Nat) /\ Len(s) = b /\ \A m \in 1..b : s[m] = 0 + m
      /\ t \in Seq(Nat) /\ Len(t) = c /\ \A m \in 1..c : t[m] = b + m
      /\ u \in Seq(Nat) /\ Len(u) = b + c /\ \A m \in 1..b + c : u[m] = 0 + m
  <2>1. b + c \in Nat /\ 0 \in Nat
    OBVIOUS
  <2> QED BY <2>1, RunTyped, Zenon
<1> HIDE DEF s, t, u
<1> DEFINE w == s \o t
<1>2. /\ w \in Seq(Nat) /\ Len(w) = b + c
      /\ \A m \in 1..b : w[m] = s[m]
      /\ \A m \in 1..c : w[b + m] = t[m]
  BY <1>1
<1> HIDE DEF w
<1>3. \A m \in 1..b + c : w[m] = u[m]
  <2> TAKE m \in 1..b + c
  <2>1. CASE m <= b
    <3>1. m \in 1..b
      BY <2>1
    <3> QED BY <1>1, <1>2, <3>1
  <2>2. CASE m > b
    <3>1. PICK l \in 1..c : m = b + l
      <4>1. m - b \in 1..c /\ m = b + (m - b)
        BY <2>2
      <4> QED BY <4>1
    <3>2. w[m] = b + l
      BY <1>1, <1>2, <3>1
    <3>3. u[m] = 0 + m
      BY <1>1
    <3> QED BY <3>1, <3>2, <3>3
  <2> QED BY <2>1, <2>2
<1>4. w = u
  BY <1>1, <1>2, <1>3
<1> QED BY <1>4 DEF w, s, t, u

(* The messages handed up are those the drained fragments complete. *)
LEMMA HandedUp ==
  ASSUME NEW z, NEW Q, NEW count, Stream(Q, count), NEW r \in Nat, NEW k \in Nat,
         r <= k, k <= Len(Q), r > 0 => Q[r].short,
         Waiting(z) = [i \in 1..k - r |-> Q[r + i]]
  PROVE  /\ Closed(Q, r) \in Nat /\ Closed(Q, k) \in Nat /\ Closed(Q, r) <= Closed(Q, k)
         /\ Messages(z) = Run(Closed(Q, r), Closed(Q, k) - Closed(Q, r))
<1> DEFINE W == Waiting(z)
           n == k - r
           b == Closed(Q, r)
           C(i) == Closed(Q, r + i)
           H(i) == Handing(z)[i]
           Good(i) == H(i) = Run(b, C(i) - b)
           Bad == {i \in 0..n : ~Good(i)}
<1>1. Q \in Seq(Fragment) /\ n \in Nat
  BY DEF Stream
<1>2. \A i \in 1..n : r + i \in 1..Len(Q) /\ Q[r + i] \in Fragment
  <2> TAKE i \in 1..n
  <2>1. r + i \in 1..Len(Q)
    BY <1>1
  <2> QED BY <1>1, <2>1
<1>3. Len(W) = n /\ \A i \in 1..n : W[i] = Q[r + i]
  <2>1. W = [i \in 1..n |-> Q[r + i]]
    OBVIOUS
  <2> HIDE DEF n, W
  <2>2. W \in Seq(Fragment)
    BY <1>1, <1>2, <2>1
  <2> QED BY <1>1, <2>1, <2>2
<1>4. \A i \in 0..n : C(i) \in Nat /\ b <= C(i) /\ b \in Nat
  <2> TAKE i \in 0..n
  <2>1. r \in 0..Len(Q) /\ r + i \in 0..Len(Q) /\ r <= r + i
    BY <1>1
  <2>2. Closed(Q, r) <= Closed(Q, r + i)
    BY <2>1 DEF Stream
  <2> QED BY <1>1, <2>1, <2>2, ClosedTyped
<1>5. /\ Messages(z) = H(n) /\ H(0) = <<>>
      /\ \A i \in 1..n : H(i) = IF W[i].short
                                THEN Append(H(i - 1), IF W[i].part <= i THEN W[i].message ELSE 0)
                                ELSE H(i - 1)
  <2>1. Len(Waiting(z)) \in Nat
    BY <1>1, <1>3
  <2>2. Len(Waiting(z)) = n
    BY <1>3
  <2>3. /\ Messages(z) = Handing(z)[Len(Waiting(z))]
        /\ Handing(z)[0] = <<>>
        /\ \A i \in 1..Len(Waiting(z)) :
              Handing(z)[i] =
                  IF Waiting(z)[i].short
                  THEN Append(Handing(z)[i - 1],
                              IF Waiting(z)[i].part <= i THEN Waiting(z)[i].message ELSE 0)
                  ELSE Handing(z)[i - 1]
    BY <2>1, HandingSteps
  <2> QED BY <2>2, <2>3, Zenon
<1> HIDE DEF H, W
<1>6. Good(0)
  <2>1. r + 0 = r /\ b - b = 0
    <3>1. b \in Nat
      BY <1>1, <1>4
    <3> QED BY <3>1
  <2>2. C(0) - b = 0
    BY <2>1
  <2>3. Run(b, 0) = <<>>
    BY DEF Run
  <2> QED BY <1>5, <2>2, <2>3
<1>7. ASSUME NEW i \in 1..n, Good(i - 1) PROVE Good(i)
  <2> DEFINE s == Q[r + i]
             c == C(i - 1)
  <2>1. r + i \in 1..Len(Q) /\ (r + i) - 1 = r + (i - 1) /\ s \in Fragment /\ W[i] = s /\ i - 1 \in 0..n
    BY <1>1, <1>2, <1>3
  <2>2. s.message = c + 1
    BY <2>1 DEF Stream
  <2>3. c \in Nat /\ b <= c /\ b \in Nat
    BY <1>4, <2>1
  <2>4. C(i) = IF s.short THEN s.message ELSE s.message - 1
    <3>1. r + i # 0
      BY <2>1
    <3> QED BY <3>1 DEF Closed
  <2>5. H(i - 1) = Run(b, c - b)
    BY <1>7
  <2>6. s.part <= i
    <3>1. CASE r = 0
      <4>1. s.part <= r + i
        BY <2>1 DEF Stream
      <4> QED BY <3>1, <4>1
    <3>2. CASE r # 0
      <4>1. r \in 1..Len(Q) /\ r < r + i /\ Q[r].short
        BY <1>1, <3>2
      <4>2. s.part <= (r + i) - r
        BY <2>1, <4>1 DEF Stream
      <4> QED BY <4>2
    <3> QED BY <3>1, <3>2
  <2>7. CASE s.short
    <3>1. H(i) = Append(Run(b, c - b), c + 1)
      BY <1>5, <2>1, <2>2, <2>5, <2>6, <2>7
    <3>2. c - b \in Nat /\ b + (c - b) + 1 = c + 1 /\ (c - b) + 1 = (c + 1) - b
      BY <2>3
    <3>3. Append(Run(b, c - b), b + (c - b) + 1) = Run(b, (c - b) + 1)
      BY <2>3, <3>2, RunGrows
    <3>4. C(i) = c + 1
      BY <2>2, <2>4, <2>7
    <3> QED BY <3>1, <3>2, <3>3, <3>4
  <2>8. CASE ~s.short
    <3>1. H(i) = Run(b, c - b)
      BY <1>5, <2>1, <2>5, <2>8
    <3>2. C(i) = c
      BY <2>2, <2>3, <2>4, <2>8
    <3> QED BY <3>1, <3>2
  <2> QED BY <2>7, <2>8
<1>8. Bad = {}
  <2> HIDE DEF Good
  <2> SUFFICES ASSUME Bad # {} PROVE FALSE
    OBVIOUS
  <2>1. Bad \in SUBSET Nat
    BY <1>1
  <2>2. PICK i \in Bad : \A j \in Bad : ~(j < i)
    BY <2>1, Least
  <2>3. i # 0
    BY <1>6, <2>2
  <2>4. i \in 1..n /\ i - 1 \in 0..n /\ i - 1 < i
    BY <1>1, <2>2, <2>3
  <2>5. Good(i - 1)
    BY <2>2, <2>4
  <2> QED BY <1>7, <2>2, <2>4, <2>5
<1>9. Good(n) /\ n \in 0..n
  BY <1>1, <1>8
<1>10. r + n = k
  OBVIOUS
<1> HIDE DEF n
<1>11. C(n) = Closed(Q, k)
  BY <1>10
<1> QED BY <1>4, <1>5, <1>9, <1>11

(***************************************************************************)
(* A packet arrives                                                        *)
(***************************************************************************)
LEMMA SequenceFields ==
  ASSUME NEW y \in End, NEW head \in 0..PacketModulus - 1
  PROVE  LET z == RecordSequence(y, head)
         IN  /\ z \in End /\ SameSender(z, y)
             /\ z.held = y.held /\ z.started = y.started /\ z.next = y.next
             /\ z.receiveHead = head \/ (y.ring /\ z.receiveHead = y.receiveHead)
<1> DEFINE advance == Ahead(y.receiveHead, head, PacketModulus)
           none == [i \in 1..AckHistory |-> FALSE]
           moved == [i \in 1..AckHistory |-> i = advance \/ (i > advance /\ y.received[i - advance])]
           z == RecordSequence(y, head)
<1>1. y.received \in [1..AckHistory -> BOOLEAN] /\ y.ring \in BOOLEAN
  BY DEF End
<1>2. none \in [1..AckHistory -> BOOLEAN]
  OBVIOUS
<1>3. moved \in [1..AckHistory -> BOOLEAN]
  <2>1. \A i \in 1..AckHistory : (i = advance \/ (i > advance /\ y.received[i - advance])) \in BOOLEAN
    BY Zenon
  <2> HIDE DEF advance
  <2> QED BY <2>1
<1>4. \/ z = [y EXCEPT !.ring = TRUE, !.receiveHead = head, !.received = none]
      \/ y.ring /\ z = y
      \/ z = [y EXCEPT !.receiveHead = head, !.received = moved]
  BY <1>1 DEF RecordSequence
<1> HIDE DEF z, none, moved
<1>5. CASE z = [y EXCEPT !.ring = TRUE, !.receiveHead = head, !.received = none]
  <2>1. z \in End
    BY <1>2, <1>5 DEF End
  <2>2. /\ SameSender(z, y) /\ z.receiveHead = head
        /\ z.held = y.held /\ z.started = y.started /\ z.next = y.next
    BY <1>5 DEF End, SameSender
  <2> QED BY <2>1, <2>2 DEF z
<1>6. CASE y.ring /\ z = y
  BY <1>6 DEF SameSender, z
<1>7. CASE z = [y EXCEPT !.receiveHead = head, !.received = moved]
  <2>1. z \in End
    BY <1>3, <1>7 DEF End
  <2>2. /\ SameSender(z, y) /\ z.receiveHead = head
        /\ z.held = y.held /\ z.started = y.started /\ z.next = y.next
    BY <1>7 DEF End, SameSender
  <2> QED BY <2>1, <2>2 DEF z
<1> QED BY <1>4, <1>5, <1>6, <1>7

LEMMA ApplyTyped ==
  ASSUME NEW x \in End, NEW y \in End, NEW ack, SameSender(y, x)
  PROVE  /\ ApplyAcknowledgement(y, ack) \in End /\ SameReceiver(ApplyAcknowledgement(y, ack), y)
         /\ SameSender(ApplyAcknowledgement(y, ack), ApplyAcknowledgement(x, ack))
<1> DEFINE go(z) == z.awaiting /\ Covers(ack, z.sentInPacket) /\ z.sentCount \in 1..Len(z.outbound)
           left(z) == SubSeq(z.outbound, z.sentCount + 1, Len(z.outbound))
           after(z) == [z EXCEPT !.outbound = left(z), !.sentCount = 0, !.awaiting = FALSE]
<1>1. (go(x) <=> go(y)) /\ left(x) = left(y)
  BY DEF SameSender
<1>2. ASSUME NEW z \in End, go(z) PROVE left(z) \in Seq(Fragment)
  <2>1. z.outbound \in Seq(Fragment) /\ z.sentCount \in 0..Len(z.outbound)
    BY <1>2 DEF End
  <2> QED BY <2>1, Rest, Zenon
<1>3. \A z : ApplyAcknowledgement(z, ack) = IF go(z) THEN after(z) ELSE z
  BY Zenon DEF ApplyAcknowledgement
<1>4. CASE go(x)
  <2>1. go(y)
    BY <1>1, <1>4, Zenon
  <2>2. left(x) \in Seq(Fragment) /\ left(y) \in Seq(Fragment)
    BY <1>2, <1>4, <2>1
  <2>3. ApplyAcknowledgement(x, ack) = after(x) /\ ApplyAcknowledgement(y, ack) = after(y)
    BY <1>3, <1>4, <2>1, Zenon
  <2> HIDE DEF left, go
  <2>4. after(y) \in End
    BY <2>2 DEF End
  <2>5. SameReceiver(after(y), y) /\ SameSender(after(y), after(x))
    BY <1>1 DEF SameReceiver, SameSender, End
  <2> QED BY <2>3, <2>4, <2>5
<1>5. CASE ~go(x)
  <2>1. ~go(y)
    BY <1>1, <1>5, Zenon
  <2>2. ApplyAcknowledgement(x, ack) = x /\ ApplyAcknowledgement(y, ack) = y
    BY <1>3, <1>5, <2>1, Zenon
  <2> QED BY <2>2 DEF SameReceiver
<1> QED BY <1>4, <1>5

LEMMA Monotone ==
  ASSUME NEW a \in Nat, NEW b \in Nat, NEW c \in Nat, b <= c
  PROVE  a * b <= a * c
<1>1. PICK d \in Nat : c = b + d
  <2>1. c - b \in Nat /\ c = b + (c - b)
    OBVIOUS
  <2> QED BY <2>1
<1>2. a * (b + d) = a * b + a * d /\ a * b \in Nat /\ a * d \in Nat
  BY <1>1
<1> QED BY <1>1, <1>2

(* The records of a packet are inside the window, or at most old ones. *)
LEMMA RecordsFit ==
  ASSUME NEW Q, NEW count, Stream(Q, count), NEW g \in Nat, NEW u \in Nat, NEW r \in Nat, NEW h \in Nat,
         g <= h, h <= u, u <= g + PeerBurst, u <= Len(Q), r <= h, \A i \in r + 1 .. h : ~Q[i].short
  PROVE  /\ u <= r + ReliableSlots
         /\ \A p \in Datagram, a \in Nat, late \in Nat :
               /\ Len(p.records) > 0 /\ late <= MaxLag /\ Carrying(p, Q, a, g, u, h, late)
               => r <= a + (MessageModulus - ReliableSlots)
<1>1. u <= r + ReliableSlots
  <2>1. CASE h = r
    BY <2>1, Sizes
  <2>2. CASE h > r
    <3>1. Q \in Seq(Fragment) /\ h \in 1..Len(Q) /\ r \in 0..Len(Q) /\ h \in r + 1 .. h
      BY <2>2 DEF Stream
    <3>2. \A i \in r + 1 .. h - 1 : ~Q[i].short
      OBVIOUS
    <3>3. h - r <= Q[h].part
      BY <2>2, <3>1, <3>2 DEF Stream
    <3>4. PeerBurst + Q[h].part <= ReliableSlots
      BY <3>1 DEF Stream
    <3>5. Q[h].part \in Nat
      <4>1. Q[h] \in Fragment
        BY <3>1
      <4> QED BY <4>1, LongestMessage DEF Fragment
    <3> QED BY <3>3, <3>4, <3>5, Sizes
  <2> QED BY <2>1, <2>2
<1>2. ASSUME NEW p \in Datagram, NEW a \in Nat, NEW late \in Nat,
             Len(p.records) > 0, late <= MaxLag, Carrying(p, Q, a, g, u, h, late)
      PROVE  r <= a + (MessageModulus - ReliableSlots)
  <2>1. /\ Len(p.records) <= PeerBurst /\ u - a <= PeerBurst * (late + 1)
        /\ ~Reorder => h <= a + Len(p.records)
    BY <1>2 DEF Carrying
  <2>2. Len(p.records) \in Nat
    BY DEF Datagram
  <2>3. PeerBurst * (Overtaking + 1) + ReliableSlots <= MessageModulus
    BY PeerAssumption
  <2>4. CASE Reorder
    <3>1. PeerBurst * (MaxLag + 1) + ReliableSlots <= MessageModulus
      BY <2>3, <2>4 DEF Overtaking
    <3>2. PeerBurst * (late + 1) <= PeerBurst * (MaxLag + 1)
      <4>1. late + 1 \in Nat /\ MaxLag + 1 \in Nat /\ late + 1 <= MaxLag + 1 /\ PeerBurst \in Nat
        BY <1>2, Sizes
      <4> QED BY <4>1, Monotone
    <3> DEFINE A == PeerBurst * (late + 1)
               B == PeerBurst * (MaxLag + 1)
    <3>3. A \in Nat /\ B \in Nat
      <4>1. late + 1 \in Nat /\ MaxLag + 1 \in Nat /\ PeerBurst \in Nat
        BY Sizes
      <4> QED BY <4>1
    <3>4. u - a <= A /\ A <= B /\ B + ReliableSlots <= MessageModulus
      BY <2>1, <3>1, <3>2
    <3> HIDE DEF A, B
    <3> QED BY <3>3, <3>4, Sizes
  <2>5. CASE ~Reorder
    <3>1. PeerBurst + ReliableSlots <= MessageModulus
      <4>1. PeerBurst * (0 + 1) = PeerBurst /\ Overtaking = 0
        BY <2>5, Sizes DEF Overtaking
      <4> QED BY <2>3, <4>1
    <3> QED BY <2>1, <2>2, <2>5, <3>1, Sizes
  <2> QED BY <2>4, <2>5
<1> QED BY <1>1, <1>2

LEMMA PacketArrives ==
  ASSUME NEW e \in Ends, NEW x, x.head \in Nat, x.sentCount \in Nat, NEW y \in End,
         NEW out \in Seq(Datagram), NEW back, NEW d, NEW count,
         NEW i \in 1..Len(out), ~Reorder => i = 1,
         Direction(e, x, y, out, back, d, count)
  PROVE  LET z == Receive(y, out[i])
         IN  /\ Direction(e, x, Drain(z), out, back, d \o Messages(z), count)
             /\ Drain(z) \in End
             /\ SameSender(Drain(z), ApplyAcknowledgement(y, out[i].ack))
             /\ Len(Messages(z)) \in Nat /\ Len(Messages(z)) <= PeerBurst /\ Messages(z) \in Seq(Nat)
<1>1. PICK Q, g, r, h, f : Placed(e, x, y, out, back, d, count, Q, g, r, h, f)
  BY DEF Direction
<1> DEFINE p == out[i]
           n == Len(p.records)
           u == g + x.sentCount
           a == IF n > 0 THEN f[i] ELSE h
           h2 == Later(h, a + n)
           z1 == RecordSequence(y, p.head)
           z0 == ApplyAcknowledgement(z1, p.ack)
           z == AcceptRecords(z0, p.records)
           z2 == Drain(z)
<1>2. /\ p \in Datagram /\ p.records \in Seq(Fragment) /\ n \in Nat /\ p.head \in 0..PacketModulus - 1
  <2>1. p \in Datagram
    OBVIOUS
  <2> HIDE DEF p
  <2> QED BY <2>1 DEF Datagram
<1>3. /\ Stream(Q, count) /\ Numbered(Q) /\ Q \in Seq(Fragment) /\ Len(Q) \in Nat
      /\ g \in Nat /\ u \in Nat /\ u <= g + PeerBurst /\ u <= Len(Q)
  <2>1. Stream(Q, count) /\ Sending(e, x, Q, g)
    BY <1>1 DEF Placed
  <2>2. Q \in Seq(Fragment) /\ Numbered(Q)
    BY <2>1 DEF Stream, Numbered
  <2>3. g \in 0..Len(Q) /\ x.sentCount \in 0..PeerBurst /\ x.sentCount <= Len(Q) - g
    BY <2>1 DEF Sending
  <2> QED BY <2>1, <2>2, <2>3, Sizes
<1>4. /\ r \in Nat /\ h \in Nat /\ r <= h /\ g <= h /\ h <= u /\ h <= Len(Q)
      /\ y.held = {Q[k] : k \in r + 1 .. h}
      /\ \A k \in r + 1 .. h : ~Q[k].short
      /\ (r > 0 => Q[r].short)
      /\ IF y.started THEN y.next = (r + 1) % MessageModulus ELSE h = 0
      /\ d = [k \in 1..Closed(Q, r) |-> k]
  <2>1. Receiving(x, y, d, Q, g, r, h)
    BY <1>1 DEF Placed
  <2>2. h \in g..u /\ r \in 0..h
    BY <2>1 DEF Receiving
  <2>3. r \in Nat /\ h \in Nat /\ r <= h /\ g <= h /\ h <= u /\ h <= Len(Q)
    BY <1>3, <2>2
  <2> HIDE DEF u
  <2> QED BY <2>1, <2>3 DEF Receiving
<1>5. /\ f \in [1..Len(out) -> Nat]
      /\ \A j \in 1..Len(out) : Carrying(out[j], Q, f[j], g, u, h, Behind(x, out[j].head))
      /\ ~Reorder =>
          \A j, k \in 1..Len(out) :
             j < k /\ Len(out[j].records) > 0 /\ Len(out[k].records) > 0
                => f[j] + Len(out[j].records) <= f[k] + Len(out[k].records)
  BY <1>1 DEF Placed, Travelling
<1>6. Carrying(p, Q, f[i], g, u, h, Behind(x, p.head)) /\ f[i] \in Nat
      /\ (n > 0 => f[i] <= g /\ f[i] + n <= u /\ n <= PeerBurst)
  <2>1. Carrying(p, Q, f[i], g, u, h, Behind(x, p.head)) /\ f[i] \in Nat
    BY <1>5
  <2> HIDE DEF p, u
  <2> QED BY <2>1 DEF Carrying
<1>7. a \in Nat /\ a <= h /\ a + n <= u /\ h2 \in Nat /\ h <= h2 /\ h2 <= u /\ h2 <= Len(Q) /\ a + n <= h2
  <2>1. a \in Nat /\ a <= h /\ a + n <= u
    <3> HIDE DEF p, n, u
    <3> QED BY <1>2, <1>3, <1>4, <1>6
  <2> HIDE DEF a, n, u
  <2> QED BY <1>2, <1>3, <1>4, <2>1 DEF Later
<1>8. u <= r + ReliableSlots /\ r <= a + (MessageModulus - ReliableSlots)
  <2> HIDE DEF p, u
  <2>1. /\ u <= r + ReliableSlots
        /\ \A w \in Datagram, b \in Nat, late \in Nat :
              /\ Len(w.records) > 0 /\ late <= MaxLag /\ Carrying(w, Q, b, g, u, h, late)
              => r <= b + (MessageModulus - ReliableSlots)
    BY <1>3, <1>4, RecordsFit
  <2>2. CASE n > 0
    <3>1. Behind(x, p.head) \in Nat /\ Behind(x, p.head) <= MaxLag
      <4>1. p.head \in Nat
        BY <1>2, Sizes
      <4>2. Behind(x, p.head) <= MaxLag
        BY <1>1 DEF Placed, Lagging, p
      <4>3. Behind(x, p.head) \in 0..RingSize - 1
        BY <4>1, BehindTyped
      <4> QED BY <4>2, <4>3, Sizes
    <3>2. r <= f[i] + (MessageModulus - ReliableSlots)
      BY <1>2, <1>6, <2>1, <2>2, <3>1
    <3> QED BY <2>1, <2>2, <3>2
  <2>3. CASE ~(n > 0)
    <3>1. a = h
      BY <2>3
    <3>2. r <= h /\ h \in Nat /\ r \in Nat
      BY <1>3, <1>4
    <3>3. 0 <= MessageModulus - ReliableSlots /\ MessageModulus - ReliableSlots \in Nat
      BY Sizes
    <3> HIDE DEF a
    <3> QED BY <2>1, <3>1, <3>2, <3>3
  <2> QED BY <2>2, <2>3
<1>9. \A k \in 1..n : p.records[k] = Q[a + k]
  <2> HIDE DEF p, u
  <2> QED BY <1>2, <1>6 DEF Carrying
<1>10. /\ z1 \in End /\ SameSender(z1, y)
       /\ z1.held = y.held /\ z1.started = y.started /\ z1.next = y.next
       /\ z1.receiveHead = p.head \/ (y.ring /\ z1.receiveHead = y.receiveHead)
  <2> HIDE DEF p
  <2> QED BY <1>2, SequenceFields
<1> HIDE DEF z1
<1>11. /\ z0 \in End /\ SameReceiver(z0, z1)
       /\ SameSender(z0, ApplyAcknowledgement(y, p.ack))
  <2> HIDE DEF p
  <2> QED BY <1>10, ApplyTyped
<1> HIDE DEF z0
<1>12. Filled(z0, Q, r, h)
  BY <1>4, <1>10, <1>11 DEF Filled, SameReceiver
<1>13. z \in End /\ SameLink(z, z0) /\ Filled(z, Q, r, h2)
  <2>1. /\ a + Len(p.records) <= Len(Q) /\ a + Len(p.records) <= r + ReliableSlots
        /\ h <= Len(Q) /\ h <= r + ReliableSlots
        /\ \A k \in 1..Len(p.records) : p.records[k] = Q[a + k]
    <3> HIDE DEF p, a, u, h2
    <3> QED BY <1>2, <1>3, <1>4, <1>7, <1>8, <1>9, Sizes
  <2> HIDE DEF p, a
  <2>2. /\ AcceptRecords(z0, p.records) \in End /\ SameLink(AcceptRecords(z0, p.records), z0)
        /\ Filled(AcceptRecords(z0, p.records), Q, r, Later(h, a + Len(p.records)))
    BY <1>2, <1>3, <1>4, <1>7, <1>8, <1>11, <1>12, <2>1, AllAccepted
  <2> QED BY <2>2
<1>14. Receive(y, p) = z
  BY DEF Receive, z0, z1
<1> HIDE DEF z
<1>15. r <= h2 /\ h2 <= Len(Q) /\ h2 <= r + ReliableSlots
  <2> HIDE DEF h2, u
  <2> QED BY <1>3, <1>4, <1>7, <1>8, Sizes
<1>16. Waiting(z) = [k \in 1..h2 - r |-> Q[r + k]]
  <2> HIDE DEF h2
  <2> QED BY <1>3, <1>4, <1>7, <1>13, <1>15, WaitingRun, SMTT(30)
<1>17. PICK q \in r..h2 : /\ z2 \in End /\ SameLink(z2, z) /\ Filled(z2, Q, q, h2)
                          /\ z2.started = z.started
                          /\ q > r => Q[q].short
                          /\ \A k \in q + 1 .. h2 : ~Q[k].short
  <2> HIDE DEF h2
  <2>1. /\ z \in End /\ Numbered(Q) /\ r \in Nat /\ h2 \in Nat /\ Filled(z, Q, r, h2)
        /\ r <= h2 /\ h2 <= Len(Q) /\ h2 <= r + ReliableSlots
    BY <1>3, <1>4, <1>7, <1>13, <1>15, Zenon
  <2>2. \E q \in r..h2 : /\ Drain(z) \in End /\ SameLink(Drain(z), z) /\ Filled(Drain(z), Q, q, h2)
                         /\ Drain(z).started = z.started
                         /\ q > r => Q[q].short
                         /\ \A k \in q + 1 .. h2 : ~Q[k].short
    BY <2>1, Drained
  <2> QED BY <2>2, Zenon
<1> HIDE DEF z2
<1>18. q \in Nat /\ q <= h2 /\ q <= Len(Q) /\ (q > 0 => Q[q].short)
  <2> HIDE DEF h2
  <2> QED BY <1>3, <1>4, <1>7, <1>17
<1>19. /\ Closed(Q, r) \in Nat /\ Closed(Q, h2) \in Nat /\ Closed(Q, r) <= Closed(Q, h2)
       /\ Messages(z) = Run(Closed(Q, r), Closed(Q, h2) - Closed(Q, r))
  <2> HIDE DEF h2
  <2>1. /\ Stream(Q, count) /\ r \in Nat /\ h2 \in Nat
        /\ r <= h2 /\ h2 <= Len(Q) /\ (r > 0 => Q[r].short)
        /\ Waiting(z) = [k \in 1..h2 - r |-> Q[r + k]]
    BY <1>3, <1>4, <1>7, <1>15, <1>16, Zenon
  <2> QED BY <2>1, HandedUp
<1>20. Closed(Q, h) = Closed(Q, r) /\ Closed(Q, q) = Closed(Q, h2)
  <2> HIDE DEF h2
  <2>1. Closed(Q, h) = Closed(Q, r)
    BY <1>3, <1>4, NoneClosed
  <2>2. Closed(Q, h2) = Closed(Q, q)
    BY <1>3, <1>7, <1>17, <1>18, NoneClosed
  <2> QED BY <2>1, <2>2
<1>21. d \o Messages(z) = [k \in 1..Closed(Q, q) |-> k]
  <2> DEFINE b == Closed(Q, r)
             c == Closed(Q, h2)
  <2>1. b \in Nat /\ c \in Nat /\ b <= c /\ Messages(z) = Run(b, c - b)
    BY <1>19
  <2>2. d = Run(0, b)
    BY <1>4, <2>1 DEF Run
  <2>3. Closed(Q, q) = c
    BY <1>20
  <2> HIDE DEF b, c
  <2>4. c - b \in Nat /\ b + (c - b) = c
    BY <2>1
  <2>5. Run(0, b) \o Run(b, c - b) = Run(0, b + (c - b))
    BY <2>1, <2>4, RunJoins
  <2>6. Run(0, c) = [k \in 1..c |-> k]
    BY <2>1 DEF Run
  <2> QED BY <2>1, <2>2, <2>3, <2>4, <2>5, <2>6
<1>22. Len(Messages(z)) \in Nat /\ Len(Messages(z)) <= PeerBurst /\ Messages(z) \in Seq(Nat)
  <2> DEFINE b == Closed(Q, r)
             c == Closed(Q, h2)
  <2>1. b \in Nat /\ c \in Nat /\ b <= c /\ Messages(z) = Run(b, c - b)
    BY <1>19
  <2>2. c <= Closed(Q, h) + (h2 - h)
    <3>1. h \in 0..Len(Q) /\ h2 \in 0..Len(Q) /\ h <= h2
      <4> HIDE DEF h2
      <4> QED BY <1>3, <1>4, <1>7
    <3> HIDE DEF h2
    <3> QED BY <1>3, <3>1 DEF Stream
  <2>3. h2 <= h + PeerBurst
    <3> HIDE DEF h2, u
    <3> QED BY <1>3, <1>4, <1>7, Sizes
  <2>4. Closed(Q, h) = b
    BY <1>20
  <2> HIDE DEF b, c
  <2>5. c - b \in Nat /\ c - b <= PeerBurst
    <3> HIDE DEF h2
    <3> QED BY <1>4, <1>7, <2>1, <2>2, <2>3, <2>4, Sizes
  <2>6. Run(b, c - b) \in Seq(Nat) /\ Len(Run(b, c - b)) = c - b
    BY <2>1, <2>5, RunTyped
  <2> QED BY <2>1, <2>5, <2>6
<1>23. Receiving(x, z2, d \o Messages(z), Q, g, q, h2)
  <2>1. q \in 0..h2 /\ h2 \in g..u
    <3> HIDE DEF h2, u
    <3> QED BY <1>3, <1>4, <1>7, <1>18
  <2>2. z2.held = {Q[k] : k \in q + 1 .. h2}
        /\ IF z2.started THEN z2.next = (q + 1) % MessageModulus ELSE h2 = 0
    BY <1>17 DEF Filled
  <2> HIDE DEF h2
  <2> QED BY <1>17, <1>18, <1>21, <2>1, <2>2 DEF Receiving
<1>24. Travelling(x, out, Q, g, h2, f)
  <2>1. ASSUME NEW j \in 1..Len(out)
        PROVE  Carrying(out[j], Q, f[j], g, u, h2, Behind(x, out[j].head))
    <3>1. Carrying(out[j], Q, f[j], g, u, h, Behind(x, out[j].head)) /\ f[j] \in Nat
      BY <1>5
    <3>2. ASSUME ~Reorder, Len(out[j].records) > 0 PROVE h2 <= f[j] + Len(out[j].records)
      <4> DEFINE v == f[j] + Len(out[j].records)
      <4>1. h <= v
        BY <3>1, <3>2 DEF Carrying
      <4>2. Len(out[j].records) \in Nat
        BY DEF Datagram
      <4>3. v \in Nat
        BY <3>1, <4>2
      <4>4. a + n <= v
        <5>1. i = 1
          BY <3>2
        <5>2. CASE ~(n > 0)
          <6>1. a + n = h
            <7> HIDE DEF n
            <7> QED BY <1>2, <1>4, <5>2
          <6> QED BY <4>1, <6>1
        <5>3. CASE n > 0 /\ j = i
          BY <5>3, <4>3
        <5>4. CASE n > 0 /\ j # i
          <6>1. i < j
            BY <5>1, <5>4
          <6>2. f[i] + Len(out[i].records) <= v
            BY <1>5, <3>2, <5>4, <6>1
          <6> QED BY <5>4, <6>2
        <5> QED BY <5>2, <5>3, <5>4
      <4> HIDE DEF v, a, n
      <4>5. h2 <= v
        BY <1>4, <4>1, <4>3, <4>4 DEF Later
      <4> QED BY <4>5 DEF v
    <3> HIDE DEF h2, u
    <3> QED BY <3>1, <3>2 DEF Carrying
  <2> HIDE DEF h2
  <2> QED BY <1>5, <2>1 DEF Travelling
<1>25. z2.receiveHead = p.head \/ (y.ring /\ z2.receiveHead = y.receiveHead)
  BY <1>10, <1>11, <1>13, <1>17 DEF SameLink, SameReceiver
<1>26. Lagging(x, z2, out, back)
  <2>1. Lagging(x, y, out, back)
    BY <1>1 DEF Placed
  <2>2. Behind(x, p.head) <= MaxLag /\ Behind(x, y.receiveHead) <= MaxLag
    BY <2>1 DEF Lagging
  <2>3. Behind(x, z2.receiveHead) <= MaxLag
    BY <1>25, <2>2
  <2> QED BY <2>1, <2>3 DEF Lagging
<1>27. Covering(x, z2, out, back, g, h2, f)
  <2> SUFFICES ASSUME x.awaiting
               PROVE  /\ \A j \in 1..Len(out) :
                            Reached(x, out[j].head % RingSize)
                               => f[j] = g /\ Len(out[j].records) = x.sentCount
                      /\ \A j \in 1..Len(back) :
                            back[j].ack.ring /\ Reached(x, back[j].ack.base) => h2 = g + x.sentCount
                      /\ z2.ring /\ Reached(x, z2.receiveHead % RingSize) => h2 = g + x.sentCount
    BY DEF Covering
  <2>1. /\ \A j \in 1..Len(out) :
             Reached(x, out[j].head % RingSize)
                => f[j] = g /\ Len(out[j].records) = x.sentCount
        /\ \A j \in 1..Len(back) :
             back[j].ack.ring /\ Reached(x, back[j].ack.base) => h = g + x.sentCount
        /\ y.ring /\ Reached(x, y.receiveHead % RingSize) => h = g + x.sentCount
    BY <1>1 DEF Placed, Covering
  <2>2. x.sentCount >= 1
    BY <1>1 DEF Placed, Sending
  <2>3. h = u => h2 = u
    <3> HIDE DEF h2, u
    <3> QED BY <1>3, <1>4, <1>7
  <2>4. ASSUME Reached(x, p.head % RingSize) PROVE h2 = u
    <3>1. f[i] = g /\ n = x.sentCount
      BY <2>1, <2>4
    <3>2. a + n = u
      BY <2>2, <3>1
    <3> HIDE DEF h2, u, a, n
    <3> QED BY <1>3, <1>7, <3>2
  <2>5. \A j \in 1..Len(back) :
             back[j].ack.ring /\ Reached(x, back[j].ack.base) => h2 = u
    <3> HIDE DEF h2
    <3> QED BY <2>1, <2>3
  <2>6. z2.ring /\ Reached(x, z2.receiveHead % RingSize) => h2 = u
    <3> HIDE DEF h2, p
    <3>1. CASE z2.receiveHead = p.head
      BY <2>4, <3>1
    <3>2. CASE y.ring /\ z2.receiveHead = y.receiveHead
      BY <2>1, <2>3, <3>2
    <3> QED BY <1>25, <3>1, <3>2
  <2> HIDE DEF h2
  <2> QED BY <2>1, <2>5, <2>6
<1>28. Placed(e, x, z2, out, back, d \o Messages(z), count, Q, g, q, h2, f)
  <2> HIDE DEF h2
  <2> QED BY <1>1, <1>23, <1>24, <1>26, <1>27 DEF Placed
<1>29. Direction(e, x, z2, out, back, d \o Messages(z), count)
  BY <1>28 DEF Direction
<1>30. SameSender(z2, ApplyAcknowledgement(y, p.ack))
  BY <1>11, <1>13, <1>17 DEF SameLink, SameSender
<1> QED BY <1>14, <1>17, <1>22, <1>29, <1>30, Zenon DEF z2, p

(***************************************************************************)
(* What a direction says                                                   *)
(***************************************************************************)
LEMMA Others ==
  /\ \A e \in Ends : Other(e) \in Ends /\ Other(e) # e /\ Other(Other(e)) = e
  /\ \A e, w \in Ends : w = e \/ w = Other(e)
BY DEF Ends, Other

(* d hands up the messages up to some count in order, each of them once. *)
CountsTo(d, count) == \E n \in 0..count : d = [k \in 1..n |-> k]

(* Each message is in the queue of its sender or has been handed up. *)
Kept(x, d, count) ==
    \A m \in 1..count :
       \/ \E i \in DOMAIN x.outbound : x.outbound[i].message = m
       \/ \E k \in DOMAIN d : d[k] = m

(* The drained part of the stream is what was handed up. *)
LEMMA DirectionGives ==
  ASSUME NEW e, NEW x, x.sentCount \in Nat, NEW y, NEW out, NEW back, NEW d, NEW count \in Nat,
         Direction(e, x, y, out, back, d, count)
  PROVE  /\ CountsTo(d, count)
         /\ Cardinality(y.held) <= ReliableSlots
         /\ Kept(x, d, count)
<1>1. PICK Q, g, r, h, f : Placed(e, x, y, out, back, d, count, Q, g, r, h, f)
  BY DEF Direction
<1>2. /\ Stream(Q, count) /\ Q \in Seq(Fragment) /\ Len(Q) \in Nat /\ Len(Q) >= 1
      /\ \A m \in 1..count : \E i \in 1..Len(Q) : Q[i].short /\ Q[i].message = m
      /\ Q[Len(Q)].short /\ Q[Len(Q)].message = count
  BY <1>1 DEF Placed, Stream
<1>3. g \in 0..Len(Q) /\ Suffix(x.outbound, Q, g) /\ x.sentCount \in 0..PeerBurst /\ x.sentCount <= Len(Q) - g
  BY <1>1 DEF Placed, Sending
<1>4. /\ r \in 0..h /\ h \in g..g + x.sentCount /\ y.held = {Q[i] : i \in r + 1 .. h}
      /\ \A i \in r + 1 .. h : ~Q[i].short
      /\ d = [k \in 1..Closed(Q, r) |-> k]
  BY <1>1 DEF Placed, Receiving
<1>5. r \in Nat /\ h \in Nat /\ g \in Nat /\ r <= h /\ h <= Len(Q) /\ g <= h
  BY <1>2, <1>3, <1>4
<1>6. Closed(Q, r) \in Nat /\ Closed(Q, r) <= count
  <2>1. Closed(Q, Len(Q)) = count
    BY <1>2 DEF Closed
  <2>2. r \in 0..Len(Q) /\ Len(Q) \in 0..Len(Q) /\ r <= Len(Q)
    BY <1>2, <1>5
  <2>3. Closed(Q, r) <= Closed(Q, Len(Q))
    BY <1>2, <2>2 DEF Stream
  <2> QED BY <1>2, <2>1, <2>2, <2>3, ClosedTyped
<1>7. CountsTo(d, count)
  <2>1. Closed(Q, r) \in 0..count
    BY <1>6
  <2> QED BY <1>4, <2>1 DEF CountsTo
<1>8. Cardinality(y.held) <= ReliableSlots
  <2> DEFINE I == r + 1 .. h
             q == [i \in I |-> Q[i]]
  <2>1. h <= r + ReliableSlots
    <3> DEFINE u == g + x.sentCount
    <3>1. u \in Nat /\ h <= u /\ u <= g + PeerBurst /\ u <= Len(Q)
      BY <1>2, <1>3, <1>4, <1>5, Sizes
    <3> HIDE DEF u
    <3>2. u <= r + ReliableSlots
      BY <1>2, <1>4, <1>5, <3>1, RecordsFit
    <3> QED BY <1>5, <3>1, <3>2, Sizes
  <2>2. IsFiniteSet(I) /\ Cardinality(I) = h - r
    <3>1. r + 1 \in Int /\ h \in Int
      BY <1>5
    <3>2. IsFiniteSet(I) /\ Cardinality(I) = IF r + 1 > h THEN 0 ELSE h - (r + 1) + 1
      BY <3>1, FS_Interval
    <3> QED BY <1>5, <3>2
  <2>3. q \in Surjection(I, y.held)
    BY <1>4 DEF Surjection
  <2>4. IsFiniteSet(y.held) /\ Cardinality(y.held) <= Cardinality(I)
    <3> HIDE DEF I, q
    <3> QED BY <2>2, <2>3, FS_Surjection
  <2>5. Cardinality(y.held) \in Nat
    BY <2>4, FS_CardinalityType
  <2> HIDE DEF I
  <2> QED BY <1>5, <2>1, <2>2, <2>4, <2>5, Sizes
<1>9. ASSUME NEW m \in 1..count
      PROVE  \/ \E i \in DOMAIN x.outbound : x.outbound[i].message = m
             \/ \E k \in DOMAIN d : d[k] = m
  <2>1. PICK i \in 1..Len(Q) : Q[i].short /\ Q[i].message = m
    BY <1>2
  <2>2. CASE i > g
    <3>1. /\ x.outbound \in Seq(Fragment) /\ Len(x.outbound) = Len(Q) - g
          /\ \A k \in 1..Len(Q) - g : x.outbound[k] = Q[g + k]
      BY <1>3 DEF Suffix
    <3>2. i - g \in 1..Len(Q) - g /\ g + (i - g) = i
      BY <1>2, <1>5, <2>2
    <3>3. x.outbound[i - g] = Q[i]
      BY <3>1, <3>2
    <3>4. i - g \in DOMAIN x.outbound
      BY <3>1, <3>2
    <3> QED BY <2>1, <3>3, <3>4
  <2>3. CASE i <= g
    <3>1. i <= r
      BY <1>2, <1>4, <1>5, <2>1, <2>3
    <3>2. i \in 0..Len(Q) /\ r \in 0..Len(Q) /\ i # 0
      BY <1>2, <1>5
    <3>3. Closed(Q, i) = m
      BY <2>1, <3>2 DEF Closed
    <3>4. Closed(Q, i) <= Closed(Q, r)
      BY <1>2, <3>1, <3>2 DEF Stream
    <3>5. m \in 1..Closed(Q, r)
      BY <1>6, <3>3, <3>4
    <3> QED BY <1>4, <3>5
  <2> QED BY <1>2, <1>5, <2>2, <2>3
<1> QED BY <1>7, <1>8, <1>9 DEF Kept

(* A message joins the queue. *)
LEMMA EnqueueTyped ==
  ASSUME NEW e, NEW x \in End, NEW y, NEW out, NEW back, NEW d, NEW count \in Nat,
         count + 1 <= MaxMessages, NEW n \in Lengths \cup {1},
         Direction(e, x, y, out, back, d, count)
  PROVE  LET z == Enqueue(x, count + 1, n)
         IN  /\ z \in End /\ Len(z.outbound) = Len(x.outbound) + n /\ SameReceiver(z, x)
             /\ z.head = x.head /\ z.sentInPacket = x.sentInPacket /\ z.sentCount = x.sentCount
             /\ z.awaiting = x.awaiting
<1>1. PICK Q : Stream(Q, count) /\ x.nextSequence = (Len(Q) + 1) % MessageModulus
  BY DEF Direction, Placed, Sending
<1> DEFINE z == Enqueue(x, count + 1, n)
           T == Split(Q, count + 1, n)
<1>2. Q \in Seq(Fragment) /\ n \in Nat \ {0} /\ Len(Q) \in Nat
  BY <1>1, ChannelAssumption, SMTT(30) DEF Stream
<1>3. T \in Seq(Fragment) /\ Len(T) = n
  BY <1>1, StreamGrows
<1>4. z.outbound = x.outbound \o T /\ z.nextSequence = (Len(Q) + n + 1) % MessageModulus
  BY <1>1, <1>2, EnqueueSplits, Zenon
<1>5. PICK o, s : z = [x EXCEPT !.outbound = o, !.nextSequence = s]
  BY DEF Enqueue
<1> HIDE DEF z, T
<1>6. /\ z.outbound = o /\ z.nextSequence = s /\ SameReceiver(z, x)
      /\ z.head = x.head /\ z.sentInPacket = x.sentInPacket /\ z.sentCount = x.sentCount
      /\ z.awaiting = x.awaiting
  BY <1>5 DEF End, SameReceiver
<1>7. o \in Seq(Fragment) /\ Len(o) = Len(x.outbound) + n
  <2>1. x.outbound \in Seq(Fragment)
    BY DEF End
  <2>2. o = x.outbound \o T
    BY <1>4, <1>6
  <2> DEFINE b == x.outbound
  <2>3. b \in Seq(Fragment) /\ T \in Seq(Fragment)
    BY <1>3, <2>1
  <2> HIDE DEF b
  <2>4. b \o T \in Seq(Fragment) /\ Len(b \o T) = Len(b) + Len(T)
    BY <2>3
  <2> QED BY <1>3, <2>2, <2>4 DEF b
<1>8. s \in 0..MessageModulus - 1
  <2>1. Len(Q) + n + 1 \in Nat /\ MessageModulus \in Nat \ {0}
    BY <1>2, Sizes
  <2> QED BY <1>4, <1>6, <2>1, Division
<1>9. z \in End
  BY <1>5, <1>7, <1>8 DEF End
<1> QED BY <1>6, <1>7, <1>9 DEF z

(***************************************************************************)
(* The inductive invariant                                                 *)
(***************************************************************************)
Typed ==
    /\ ends \in [Ends -> End]
    /\ \A e \in Ends : Len(ends[e].outbound) <= OutboundSlots
    /\ wire \in [Ends -> Seq(Datagram)]
    /\ dispatched \in [Ends -> Seq(Nat)]
    /\ accepted \in [Ends -> 1..MaxMessages]
    /\ stage \in {"connecting", "connected"}
    /\ ready \in BOOLEAN /\ owed \in [Ends -> BOOLEAN]

(* The direction in which e sends. *)
Flow(e) ==
    Direction(e, ends[e], ends[Other(e)], wire[Other(e)], wire[e],
              dispatched[Other(e)], accepted[e])

ChannelInv == Typed /\ \A e \in Ends : Flow(e)

LEMMA Both ==
  ASSUME ChannelInv, NEW e \in Ends, NEW w, w = Other(e)
  PROVE  /\ w \in Ends /\ w # e /\ Other(w) = e /\ \A k \in Ends : k = e \/ k = w
         /\ ends[e] \in End /\ ends[w] \in End
         /\ wire[e] \in Seq(Datagram) /\ wire[w] \in Seq(Datagram)
         /\ dispatched[e] \in Seq(Nat) /\ dispatched[w] \in Seq(Nat)
         /\ accepted[e] \in Nat /\ accepted[w] \in Nat
         /\ accepted[e] \in 1..MaxMessages /\ accepted[w] \in 1..MaxMessages
         /\ Direction(e, ends[e], ends[w], wire[w], wire[e], dispatched[w], accepted[e])
         /\ Direction(w, ends[w], ends[e], wire[e], wire[w], dispatched[e], accepted[w])
<1>1. w \in Ends /\ w # e /\ Other(w) = e /\ \A k \in Ends : k = e \/ k = w
  BY Others
<1>2. /\ ends[e] \in End /\ ends[w] \in End
      /\ wire[e] \in Seq(Datagram) /\ wire[w] \in Seq(Datagram)
      /\ dispatched[e] \in Seq(Nat) /\ dispatched[w] \in Seq(Nat)
      /\ accepted[e] \in 1..MaxMessages /\ accepted[w] \in 1..MaxMessages
  BY <1>1 DEF ChannelInv, Typed
<1>3. Flow(e) /\ Flow(w)
  BY <1>1 DEF ChannelInv
<1>4. accepted[e] \in Nat /\ accepted[w] \in Nat
  BY <1>2, MostMessages
<1> QED BY <1>1, <1>2, <1>3, <1>4 DEF Flow

(* What both ends are after one of them moved. *)
LEMMA Renewed ==
  ASSUME NEW e \in Ends, NEW w, w = Other(e), Typed,
         NEW x \in End, NEW y \in End, ends' \in [Ends -> End], ends'[e] = x, ends'[w] = y,
         Len(x.outbound) <= OutboundSlots, Len(y.outbound) <= OutboundSlots,
         wire' \in [Ends -> Seq(Datagram)], dispatched' \in [Ends -> Seq(Nat)],
         accepted' \in [Ends -> 1..MaxMessages],
         stage' \in {"connecting", "connected"}, ready' \in BOOLEAN, owed' \in [Ends -> BOOLEAN],
         Direction(e, x, y, wire'[w], wire'[e], dispatched'[w], accepted'[e]),
         Direction(w, y, x, wire'[e], wire'[w], dispatched'[e], accepted'[w])
  PROVE  ChannelInv'
<1>1. w \in Ends /\ w # e /\ Other(w) = e /\ \A k \in Ends : k = e \/ k = w
  BY Others
<1>2. Typed'
  BY <1>1 DEF Typed
<1>3. Flow(e)' /\ Flow(w)'
  BY <1>1 DEF Flow
<1> QED BY <1>1, <1>2, <1>3 DEF ChannelInv

LEMMA AfterEnqueue ==
  ASSUME ChannelInv, NEW e \in Ends, NEW n \in Lengths \cup {1},
         accepted[e] + 1 <= MaxMessages, Len(ends[e].outbound) + n <= OutboundSlots,
         NEW z, \/ z = Enqueue(ends[e], accepted[e] + 1, n)
                \/ e = "host" /\ z = [Enqueue(ends[e], accepted[e] + 1, n) EXCEPT !.awaiting = FALSE],
         ends' = [ends EXCEPT ![e] = z], accepted' = [accepted EXCEPT ![e] = @ + 1],
         wire' = wire, dispatched' = dispatched,
         stage' \in {"connecting", "connected"}, ready' \in BOOLEAN, owed' \in [Ends -> BOOLEAN]
  PROVE  ChannelInv'
<1> DEFINE w == Other(e)
           x == ends[e]
           y == ends[w]
           count == accepted[e]
           q == Enqueue(x, count + 1, n)
<1>1. /\ w \in Ends /\ w # e /\ Other(w) = e /\ \A k \in Ends : k = e \/ k = w
      /\ x \in End /\ y \in End
      /\ wire[e] \in Seq(Datagram) /\ wire[w] \in Seq(Datagram)
      /\ count \in Nat /\ count \in 1..MaxMessages
      /\ Direction(e, x, y, wire[w], wire[e], dispatched[w], count)
      /\ Direction(w, y, x, wire[e], wire[w], dispatched[e], accepted[w])
  BY Both
<1>2. count + 1 <= MaxMessages
  OBVIOUS
<1>3. /\ q \in End /\ Len(q.outbound) = Len(x.outbound) + n /\ SameReceiver(q, x)
      /\ q.head = x.head /\ q.sentInPacket = x.sentInPacket /\ q.sentCount = x.sentCount
      /\ q.awaiting = x.awaiting
  <2> HIDE DEF x, y, count, w
  <2> QED BY <1>1, <1>2, EnqueueTyped
<1>4. z = q \/ (e = "host" /\ z = [q EXCEPT !.awaiting = FALSE])
  OBVIOUS
<1> HIDE DEF q
<1>5. /\ z \in End /\ z.outbound = q.outbound /\ z.nextSequence = q.nextSequence
      /\ z.head = q.head /\ z.sentInPacket = q.sentInPacket /\ z.sentCount = q.sentCount
      /\ z.awaiting = q.awaiting \/ (~z.awaiting /\ e = "host")
      /\ SameReceiver(z, q)
  <2>1. CASE z = q
    BY <1>3, <2>1 DEF SameReceiver
  <2>2. CASE e = "host" /\ z = [q EXCEPT !.awaiting = FALSE]
    BY <1>3, <2>2 DEF SameReceiver, End
  <2> QED BY <1>4, <2>1, <2>2
<1>6. SameReceiver(z, x) /\ SameSender(y, y)
  BY <1>3, <1>5 DEF SameReceiver, SameSender
<1>7. Direction(e, z, y, wire[w], wire[e], dispatched[w], count + 1)
  <2>1. /\ z.head = x.head /\ z.sentInPacket = x.sentInPacket /\ z.sentCount = x.sentCount
        /\ z.outbound = Enqueue(x, count + 1, n).outbound
        /\ z.nextSequence = Enqueue(x, count + 1, n).nextSequence
        /\ z.awaiting = x.awaiting \/ (~z.awaiting /\ e = "host")
    BY <1>3, <1>5 DEF q
  <2> HIDE DEF x, y, count, w
  <2> QED BY <1>1, <1>2, <2>1, AcceptMoves
<1>8. Direction(w, y, z, wire[e], wire[w], dispatched[e], accepted[w])
  <2> HIDE DEF x, y, count, w
  <2> QED BY <1>1, <1>6, OnlyRoles
<1>9. /\ ends' \in [Ends -> End] /\ ends'[e] = z /\ ends'[w] = y
      /\ accepted' \in [Ends -> 1..MaxMessages] /\ accepted'[e] = count + 1
      /\ accepted'[w] = accepted[w]
  BY <1>1, <1>2, <1>5, MostMessages DEF ChannelInv, Typed
<1>10. Len(z.outbound) <= OutboundSlots /\ Len(y.outbound) <= OutboundSlots
  BY <1>1, <1>3, <1>5 DEF ChannelInv, Typed
<1>11. Typed /\ wire' \in [Ends -> Seq(Datagram)] /\ dispatched' \in [Ends -> Seq(Nat)]
  BY DEF ChannelInv, Typed
<1>12. /\ Direction(e, z, y, wire'[w], wire'[e], dispatched'[w], accepted'[e])
       /\ Direction(w, y, z, wire'[e], wire'[w], dispatched'[e], accepted'[w])
  BY <1>7, <1>8, <1>9
<1>13. w = Other(e)
  OBVIOUS
<1> HIDE DEF w, y
<1> QED BY <1>1, <1>5, <1>9, <1>10, <1>11, <1>12, <1>13, Renewed

LEMMA NotFar ==
  ASSUME ChannelInv, NEW e \in Ends, NEW w, w = Other(e), Lag(e) < MaxLag
  PROVE  Near(ends[e], ends[w], wire[w], wire[e])
<1> DEFINE x == ends[e]
           y == ends[w]
           out == wire[w]
           back == wire[e]
           heads == {y.receiveHead} \cup {back[i].ack.base : i \in DOMAIN back}
                    \cup {out[i].head : i \in DOMAIN out}
           S == {Behind(x, h) : h \in heads}
<1>1. /\ x \in End /\ y \in End /\ out \in Seq(Datagram) /\ back \in Seq(Datagram)
  <2> HIDE DEF x, y, out, back
  <2> QED BY Both DEF x, y, out, back
<1>2. Lag(e) = Max(S)
  BY DEF Lag, Behind
<1>3. Max(S) < MaxLag
  BY <1>2
<1> HIDE DEF x, y, out, back
<1>4. DOMAIN out = 1..Len(out) /\ DOMAIN back = 1..Len(back)
  BY <1>1
<1>5. y.receiveHead \in Nat /\ x.head \in Nat
  BY <1>1, Sizes DEF End
<1>6. \A i \in 1..Len(out) : out[i].head \in Nat
  <2> TAKE i \in 1..Len(out)
  <2>1. out[i] \in Datagram
    BY <1>1
  <2> QED BY <2>1, Sizes DEF Datagram
<1>7. \A i \in 1..Len(back) : back[i].ack.base \in Nat
  <2> TAKE i \in 1..Len(back)
  <2>1. back[i] \in Datagram
    BY <1>1
  <2>2. back[i].ack \in Ack
    BY <2>1 DEF Datagram
  <2> QED BY <2>2, Sizes DEF Ack
<1>8. \A h \in heads : h \in Nat
  BY <1>4, <1>5, <1>6, <1>7
<1> DEFINE H == heads
<1> HIDE DEF heads
<1>9. S \in SUBSET Nat /\ S # {} /\ \A v \in S : v <= RingSize
  <2>1. \A h \in heads : Behind(x, h) \in 0..RingSize - 1
    BY <1>5, <1>8, BehindTyped
  <2>2. y.receiveHead \in heads
    BY DEF heads
  <2> QED BY <2>1, <2>2, Sizes
<1>10. \A v \in S : v <= Max(S)
  <2>1. RingSize \in Nat
    BY Sizes
  <2> HIDE DEF S
  <2> QED BY <1>9, <2>1, MaxOf
<1>11. \A h \in heads : Behind(x, h) < MaxLag
  <2> TAKE h \in heads
  <2>1. Behind(x, h) \in S
    OBVIOUS
  <2>2. Behind(x, h) <= Max(S) /\ Behind(x, h) \in Nat /\ Max(S) \in Nat
    <3>1. Max(S) \in S
      <4>1. RingSize \in Nat
        BY Sizes
      <4> HIDE DEF S
      <4> QED BY <1>9, <4>1, MaxOf
    <3> HIDE DEF S
    <3> QED BY <1>9, <1>10, <2>1, <3>1
  <2> HIDE DEF S
  <2> QED BY <1>3, <2>2, Sizes
<1>12. /\ y.receiveHead \in heads
       /\ \A i \in 1..Len(back) : back[i].ack.base \in heads
       /\ \A i \in 1..Len(out) : out[i].head \in heads
  BY <1>4 DEF heads
<1>13. Near(x, y, out, back)
  BY <1>11, <1>12 DEF Near
<1> QED BY <1>13 DEF x, y, out, back

LEMMA AfterSend ==
  ASSUME ChannelInv, NEW e \in Ends, NEW w, w = Other(e), Lag(e) < MaxLag, NEW c \in 1..PeerBurst,
         e = "host" => c = 1, c <= Len(ends[e].outbound) \/ c = 1,
         NEW z, z = Stamp(ends[e], c),
         NEW v, v = Append(wire[w], Packet(z)) \/ v = wire[w],
         ends' = [ends EXCEPT ![e] = z], wire' = [wire EXCEPT ![w] = v],
         accepted' = accepted, dispatched' = dispatched,
         stage' \in {"connecting", "connected"}, ready' \in BOOLEAN, owed' \in [Ends -> BOOLEAN]
  PROVE  ChannelInv'
<1> DEFINE x == ends[e]
           y == ends[w]
           out == wire[w]
           back == wire[e]
           p == Packet(z)
<1>1. /\ w \in Ends /\ w # e /\ Other(w) = e /\ \A k \in Ends : k = e \/ k = w
      /\ x \in End /\ y \in End /\ out \in Seq(Datagram) /\ back \in Seq(Datagram)
      /\ Direction(e, x, y, out, back, dispatched[w], accepted[e])
      /\ Direction(w, y, x, back, out, dispatched[e], accepted[w])
  <2> HIDE DEF x, y, out, back
  <2> QED BY Both DEF x, y, out, back
<1>2. Near(x, y, out, back)
  <2> HIDE DEF x, y, out, back
  <2> QED BY NotFar DEF x, y, out, back
<1>3. y.receiveHead \in 0..PacketModulus - 1 /\ x.receiveHead \in 0..PacketModulus - 1
  BY <1>1 DEF End
<1>4. c \in Nat
  BY Sizes
<1>5. z = Stamp(x, c) /\ (v = Append(out, p) \/ v = out)
  OBVIOUS
<1>6. c <= Len(x.outbound) \/ c = 1
  OBVIOUS
<1> HIDE DEF x, y, out, back
<1>7. Direction(e, z, y, Append(out, p), back, dispatched[w], accepted[e]) /\ p \in Datagram
  <2>1. /\ Direction(e, Stamp(x, c), y, Append(out, Packet(Stamp(x, c))), back, dispatched[w], accepted[e])
        /\ Packet(Stamp(x, c)) \in Datagram
    BY <1>1, <1>2, <1>3, <1>6, PacketLeaves
  <2> QED BY <1>5, <2>1
<1>8. /\ z \in End /\ z.outbound = x.outbound /\ SameReceiver(z, x) /\ Published(z) = Published(x)
  <2>1. /\ Stamp(x, c) \in End /\ Stamp(x, c).outbound = x.outbound
        /\ SameReceiver(Stamp(x, c), x) /\ Published(Stamp(x, c)) = Published(x)
    BY <1>1, <1>4, StampFields, Zenon
  <2> QED BY <1>5, <2>1
<1>9. p.ack = Published(x) /\ SameSender(y, y)
  BY <1>8 DEF Packet, SameSender
<1>10. Direction(w, y, z, back, Append(out, p), dispatched[e], accepted[w])
  <2>1. Direction(w, y, x, back, Append(out, p), dispatched[e], accepted[w])
    BY <1>1, <1>3, <1>7, <1>9, NewsLeaves
  <2> QED BY <1>8, <1>9, <2>1, OnlyRoles
<1>11. Append(out, p) \in Seq(Datagram)
  BY <1>1, <1>7, Added
<1>16. v \in Seq(Datagram) /\ Thinned(v, Append(out, p)) /\ Thinned(back, back)
  <2>1. Thinned(out, Append(out, p)) /\ Thinned(Append(out, p), Append(out, p)) /\ Thinned(back, back)
    BY <1>1, <1>7, <1>11, AllThere, NewestGone
  <2> QED BY <1>1, <1>5, <1>11, <2>1
<1>17. /\ Direction(e, z, y, v, back, dispatched[w], accepted[e])
       /\ Direction(w, y, z, back, v, dispatched[e], accepted[w])
  BY <1>1, <1>7, <1>10, <1>11, <1>16, Thinning
<1>12. /\ ends \in [Ends -> End] /\ wire \in [Ends -> Seq(Datagram)]
       /\ accepted \in [Ends -> 1..MaxMessages] /\ dispatched \in [Ends -> Seq(Nat)]
       /\ Typed
       /\ Len(x.outbound) <= OutboundSlots /\ Len(y.outbound) <= OutboundSlots
  BY <1>1 DEF ChannelInv, Typed, x, y
<1>13. wire' = [wire EXCEPT ![w] = v]
  OBVIOUS
<1>14. /\ ends' \in [Ends -> End] /\ ends'[e] = z /\ ends'[w] = y
       /\ wire' \in [Ends -> Seq(Datagram)] /\ wire'[w] = v /\ wire'[e] = back
  <2>1. ends' \in [Ends -> End] /\ ends'[e] = z /\ ends'[w] = y
    BY <1>1, <1>8, <1>12 DEF y
  <2>2. wire' \in [Ends -> Seq(Datagram)] /\ wire'[w] = v /\ wire'[e] = back
    BY <1>1, <1>12, <1>13, <1>16 DEF back
  <2> QED BY <2>1, <2>2
<1>15. /\ Direction(e, z, y, wire'[w], wire'[e], dispatched'[w], accepted'[e])
       /\ Direction(w, y, z, wire'[e], wire'[w], dispatched'[e], accepted'[w])
       /\ Len(z.outbound) <= OutboundSlots
       /\ accepted' \in [Ends -> 1..MaxMessages] /\ dispatched' \in [Ends -> Seq(Nat)]
  BY <1>8, <1>12, <1>14, <1>17
<1> HIDE DEF p
<1> QED BY <1>1, <1>8, <1>12, <1>14, <1>15, Renewed

LEMMA QueueNeverGrows ==
  ASSUME NEW x \in End, NEW ack
  PROVE  Len(ApplyAcknowledgement(x, ack).outbound) <= Len(x.outbound)
<1> DEFINE o == x.outbound
           c == x.sentCount
<1>1. o \in Seq(Fragment) /\ Len(o) \in Nat
  BY DEF End
<1>2. CASE x.awaiting /\ Covers(ack, x.sentInPacket) /\ c \in 1..Len(o)
  <2>1. ApplyAcknowledgement(x, ack) =
          [x EXCEPT !.outbound = SubSeq(@, x.sentCount + 1, Len(@)), !.sentCount = 0, !.awaiting = FALSE]
    BY <1>2 DEF ApplyAcknowledgement
  <2>2. ApplyAcknowledgement(x, ack).outbound = SubSeq(o, c + 1, Len(o))
    BY <2>1 DEF End
  <2>3. c \in 0..Len(o)
    BY <1>1, <1>2
  <2> HIDE DEF o, c
  <2>4. Len(SubSeq(o, c + 1, Len(o))) = Len(o) - c
    BY <1>1, <2>3, Rest
  <2>5. Len(ApplyAcknowledgement(x, ack).outbound) <= Len(o)
    BY <1>1, <2>2, <2>3, <2>4
  <2> QED BY <2>5 DEF o
<1>3. CASE ~(x.awaiting /\ Covers(ack, x.sentInPacket) /\ c \in 1..Len(o))
  <2>1. ApplyAcknowledgement(x, ack) = x
    BY <1>3 DEF ApplyAcknowledgement
  <2> QED BY <1>1, <2>1
<1> QED BY <1>2, <1>3

LEMMA AfterConsume ==
  ASSUME ChannelInv, NEW e \in Ends, NEW i \in 1..Len(wire[e]), ~Reorder => i = 1,
         NEW rest \in Seq(Datagram), Thinned(rest, wire[e]),
         NEW z, z = Receive(ends[e], wire[e][i]),
         ends' = [ends EXCEPT ![e] = Drain(z)], wire' = [wire EXCEPT ![e] = rest],
         dispatched' = [dispatched EXCEPT ![e] = @ \o Messages(z)], accepted' = accepted,
         stage' \in {"connecting", "connected"}, ready' \in BOOLEAN, owed' \in [Ends -> BOOLEAN]
  PROVE  ChannelInv'
<1> DEFINE w == Other(e)
           x == ends[e]
           y == ends[w]
           in == wire[e]
           out == wire[w]
           d == dispatched[e]
           u == Drain(z)
           ms == Messages(z)
           news == ApplyAcknowledgement(x, in[i].ack)
<1>1. /\ w \in Ends /\ w # e /\ Other(w) = e /\ \A k \in Ends : k = e \/ k = w
      /\ x \in End /\ y \in End /\ out \in Seq(Datagram) /\ in \in Seq(Datagram) /\ d \in Seq(Nat)
      /\ Direction(e, x, y, out, in, dispatched[w], accepted[e])
      /\ Direction(w, y, x, in, out, d, accepted[w])
  <2> HIDE DEF x, y, out, in, w, d
  <2> QED BY Both DEF x, y, out, in, w, d
<1>2. i \in 1..Len(in) /\ z = Receive(x, in[i]) /\ Thinned(rest, in) /\ w = Other(e)
  OBVIOUS
<1>3. y.head \in Nat /\ y.sentCount \in Nat
  <2> HIDE DEF x, y, out, in, w, d
  <2>1. y \in End
    BY <1>1
  <2> QED BY <2>1, Sizes DEF End
<1> HIDE DEF x, y, out, in, w, d
<1>4. /\ Direction(w, y, u, in, out, d \o ms, accepted[w])
      /\ u \in End /\ SameSender(u, news)
      /\ ms \in Seq(Nat)
  <2>1. /\ Direction(w, y, Drain(Receive(x, in[i])), in, out, d \o Messages(Receive(x, in[i])), accepted[w])
        /\ Drain(Receive(x, in[i])) \in End
        /\ SameSender(Drain(Receive(x, in[i])), ApplyAcknowledgement(x, in[i].ack))
        /\ Messages(Receive(x, in[i])) \in Seq(Nat)
    BY <1>1, <1>2, <1>3, PacketArrives, Zenon
  <2> QED BY <1>2, <2>1
<1>5. Direction(e, news, y, out, in, dispatched[w], accepted[e])
  <2> HIDE DEF news
  <2> QED BY <1>1, <1>2, NewsArrives DEF news
<1> HIDE DEF u, ms, news
<1>6. SameReceiver(y, y) /\ Thinned(out, out)
  BY <1>1, AllThere DEF SameReceiver
<1>7. Direction(e, u, y, out, rest, dispatched[w], accepted[e])
  <2>1. Direction(e, u, y, out, in, dispatched[w], accepted[e])
    BY <1>4, <1>5, <1>6, OnlyRoles
  <2> QED BY <1>1, <1>2, <1>6, <2>1, Thinning
<1>8. Direction(w, y, u, rest, out, d \o ms, accepted[w])
  BY <1>1, <1>2, <1>4, <1>6, Thinning
<1>9. d \o ms \in Seq(Nat)
  BY <1>1, <1>4
<1>10. /\ ends \in [Ends -> End] /\ wire \in [Ends -> Seq(Datagram)]
       /\ accepted \in [Ends -> 1..MaxMessages] /\ dispatched \in [Ends -> Seq(Nat)]
       /\ Typed
       /\ Len(x.outbound) <= OutboundSlots /\ Len(y.outbound) <= OutboundSlots
  BY <1>1 DEF ChannelInv, Typed, x, y
<1>11. Len(u.outbound) <= OutboundSlots
  <2>1. u.outbound = news.outbound
    BY <1>4 DEF SameSender
  <2>2. Len(news.outbound) <= Len(x.outbound)
    BY <1>1, QueueNeverGrows DEF news
  <2>3. Len(u.outbound) \in Nat /\ Len(x.outbound) \in Nat
    <3>1. x \in End /\ u \in End
      BY <1>1, <1>4
    <3>2. x.outbound \in Seq(Fragment) /\ u.outbound \in Seq(Fragment)
      BY <3>1 DEF End
    <3> QED BY <3>2
  <2> QED BY <1>10, <2>1, <2>2, <2>3, Sizes
<1>12. ends' \in [Ends -> End] /\ ends'[e] = u /\ ends'[w] = y
  <2>1. ends' = [ends EXCEPT ![e] = u]
    BY DEF u
  <2> QED BY <1>1, <1>4, <1>10, <2>1 DEF y
<1>13. wire' \in [Ends -> Seq(Datagram)] /\ wire'[e] = rest /\ wire'[w] = out
  BY <1>1, <1>10 DEF out
<1>14. dispatched' \in [Ends -> Seq(Nat)] /\ dispatched'[e] = d \o ms /\ dispatched'[w] = dispatched[w]
  <2> DEFINE v == d \o ms
  <2>1. dispatched' = [dispatched EXCEPT ![e] = v] /\ v \in Seq(Nat)
    BY <1>9 DEF d, ms
  <2> HIDE DEF v
  <2>2. dispatched' \in [Ends -> Seq(Nat)] /\ dispatched'[e] = v /\ dispatched'[w] = dispatched[w]
    BY <1>1, <1>10, <2>1
  <2> QED BY <2>2 DEF v
<1>15. /\ Direction(e, u, y, wire'[w], wire'[e], dispatched'[w], accepted'[e])
       /\ Direction(w, y, u, wire'[e], wire'[w], dispatched'[e], accepted'[w])
       /\ accepted' \in [Ends -> 1..MaxMessages]
  BY <1>7, <1>8, <1>10, <1>12, <1>13, <1>14
<1> QED BY <1>1, <1>2, <1>4, <1>10, <1>11, <1>12, <1>13, <1>14, <1>15, Renewed

LEMMA AfterLoss ==
  ASSUME ChannelInv, NEW e \in Ends, NEW rest \in Seq(Datagram), Thinned(rest, wire[e]),
         wire' = [wire EXCEPT ![e] = rest],
         UNCHANGED <<ends, stage, ready, owed, accepted, dispatched>>
  PROVE  ChannelInv'
<1> DEFINE w == Other(e)
           x == ends[e]
           y == ends[w]
           in == wire[e]
           out == wire[w]
<1>1. /\ w \in Ends /\ w # e /\ Other(w) = e /\ \A k \in Ends : k = e \/ k = w
      /\ x \in End /\ y \in End /\ out \in Seq(Datagram) /\ in \in Seq(Datagram)
      /\ Direction(e, x, y, out, in, dispatched[w], accepted[e])
      /\ Direction(w, y, x, in, out, dispatched[e], accepted[w])
  <2> HIDE DEF x, y, out, in, w
  <2> QED BY Both DEF x, y, out, in, w
<1>2. Thinned(rest, in) /\ w = Other(e) /\ Typed
  BY DEF ChannelInv
<1>3. Thinned(out, out)
  BY <1>1, AllThere
<1>4. /\ ends' \in [Ends -> End] /\ ends'[e] = x /\ ends'[w] = y
      /\ wire' \in [Ends -> Seq(Datagram)] /\ wire'[e] = rest /\ wire'[w] = out
      /\ Len(x.outbound) <= OutboundSlots /\ Len(y.outbound) <= OutboundSlots
      /\ accepted' \in [Ends -> 1..MaxMessages] /\ dispatched' \in [Ends -> Seq(Nat)]
      /\ stage' \in {"connecting", "connected"} /\ ready' \in BOOLEAN /\ owed' \in [Ends -> BOOLEAN]
  BY <1>1, <1>2 DEF Typed
<1> HIDE DEF x, y, out, in, w
<1>5. /\ Direction(e, x, y, out, rest, dispatched[w], accepted[e])
      /\ Direction(w, y, x, rest, out, dispatched[e], accepted[w])
  BY <1>1, <1>2, <1>3, Thinning
<1>6. /\ Direction(e, x, y, wire'[w], wire'[e], dispatched'[w], accepted'[e])
      /\ Direction(w, y, x, wire'[e], wire'[w], dispatched'[e], accepted'[w])
  BY <1>4, <1>5
<1> QED BY <1>1, <1>2, <1>4, <1>6, Renewed

LEMMA FreshTyped ==
  FreshEnd \in End /\ FreshEnd.nextSequence = 1 % MessageModulus
<1>1. 0 \in 0..PacketModulus - 1 /\ 1 \in 0..MessageModulus - 1 /\ 0 \in 0..MessageModulus - 1
  BY Sizes
<1>2. 1 % MessageModulus = 1
  BY <1>1, Sizes, Small
<1>3. [i \in 1..AckHistory |-> FALSE] \in [1..AckHistory -> BOOLEAN]
  OBVIOUS
<1>4. <<>> \in Seq(Fragment) /\ {} \in SUBSET Fragment
  OBVIOUS
<1>5. FreshEnd \in End
  BY <1>1, <1>3, <1>4 DEF FreshEnd, End
<1> QED BY <1>2, <1>5 DEF FreshEnd

LEMMA FirstEnd ==
  LET x == Enqueue(FreshEnd, Establish, 1)
  IN  /\ x \in End /\ Len(x.outbound) = 1
      /\ \A e \in Ends : Direction(e, x, x, <<>>, <<>>, <<>>, 1)
<1> DEFINE x == Enqueue(FreshEnd, Establish, 1)
           T == Split(<<>>, Establish, 1)
<1>1. Stream(T, 1) /\ T \in Seq(Fragment)
  BY StreamStarts DEF Establish, Stream
<1>2. Len(T) = 1
  BY DEF Split
<1>3. /\ x.outbound = <<>> \o T /\ x.nextSequence = (Len(T) + 1) % MessageModulus
  <2>1. <<>> \in Seq(Fragment) /\ Len(<<>>) = 0
    OBVIOUS
  <2>2. FreshEnd.nextSequence = (0 + 1) % MessageModulus /\ FreshEnd \in End
    BY FreshTyped
  <2>3. FreshEnd.outbound = <<>> /\ 1 \in Nat \ {0}
    BY DEF FreshEnd
  <2> DEFINE E == <<>>
  <2>4. E \in Seq(Fragment) /\ FreshEnd.nextSequence = (Len(E) + 1) % MessageModulus
    BY <2>1, <2>2
  <2>5. /\ x.outbound = FreshEnd.outbound \o Split(E, Establish, 1)
        /\ x.nextSequence = (Len(E) + 1 + 1) % MessageModulus
    <3> HIDE DEF E
    <3> QED BY <2>2, <2>3, <2>4, EnqueueSplits, Zenon
  <2>6. x.outbound = <<>> \o T /\ x.nextSequence = (0 + 1 + 1) % MessageModulus
    <3> HIDE DEF x
    <3> QED BY <2>1, <2>3, <2>5
  <2>7. Len(T) + 1 = 0 + 1 + 1
    <3> HIDE DEF T
    <3> QED BY <1>2
  <2> HIDE DEF x, T
  <2> QED BY <2>6, <2>7
<1>4. PICK o, s : x = [FreshEnd EXCEPT !.outbound = o, !.nextSequence = s]
  BY DEF Enqueue
<1> HIDE DEF x, T
<1>5. x.outbound = T
  BY <1>1, <1>3
<1>6. x.outbound = o /\ x.nextSequence = s
  BY <1>4, FreshTyped DEF End
<1>7. x \in End
  <2>1. s \in 0..MessageModulus - 1
    BY <1>2, <1>3, <1>6, Sizes, Division
  <2>2. o \in Seq(Fragment)
    BY <1>1, <1>5, <1>6
  <2> QED BY <1>4, <2>1, <2>2, FreshTyped DEF End
<1>8. /\ x.head = 0 /\ x.receiveHead = 0 /\ ~x.ring /\ x.sentCount = 0 /\ ~x.awaiting
      /\ ~x.started /\ x.held = {}
  BY <1>4 DEF FreshEnd
<1>9. ASSUME NEW e \in Ends
      PROVE  Direction(e, x, x, <<>>, <<>>, <<>>, 1)
  <2>1. Sending(e, x, T, 0)
    <3>1. Suffix(x.outbound, T, 0)
      BY <1>1, <1>2, <1>5 DEF Suffix
    <3> QED BY <1>2, <1>3, <1>8, <3>1, Sizes DEF Sending
  <2>2. Receiving(x, x, <<>>, T, 0, 0, 0)
    <3>1. Closed(T, 0) = 0
      BY DEF Closed
    <3>2. <<>> = [k \in 1..Closed(T, 0) |-> k]
      BY <3>1
    <3> QED BY <1>8, <3>2 DEF Receiving
  <2> DEFINE f == [i \in 1..0 |-> 0]
  <2>3. Travelling(x, <<>>, T, 0, 0, f)
    BY DEF Travelling
  <2>4. Lagging(x, x, <<>>, <<>>)
    <3>1. 0 \in 0..RingSize - 1 /\ 0 % RingSize = 0
      BY Sizes, Small
    <3>2. Ahead(0, 0, RingSize) = 0
      BY <3>1, Sizes, AheadOf
    <3>3. Behind(x, x.receiveHead) = 0
      BY <1>8, <3>1, <3>2 DEF Behind
    <3> QED BY <3>3, Sizes DEF Lagging
  <2>5. Covering(x, x, <<>>, <<>>, 0, 0, f)
    BY <1>8 DEF Covering
  <2>6. Placed(e, x, x, <<>>, <<>>, <<>>, 1, T, 0, 0, 0, f)
    BY <1>1, <2>1, <2>2, <2>3, <2>4, <2>5 DEF Placed
  <2> QED BY <2>6 DEF Direction
<1> QED BY <1>2, <1>5, <1>7, <1>9 DEF x

LEMMA InitSafe ==
  Init => ChannelInv
<1> SUFFICES ASSUME Init PROVE ChannelInv
  OBVIOUS
<1> DEFINE x == Enqueue(FreshEnd, Establish, 1)
<1>1. /\ x \in End /\ Len(x.outbound) = 1
      /\ \A e \in Ends : Direction(e, x, x, <<>>, <<>>, <<>>, 1)
  BY FirstEnd, Zenon
<1>2. ends = [e \in Ends |-> x]
  BY DEF Init
<1> HIDE DEF x
<1>3. Typed
  <2>1. ends \in [Ends -> End] /\ \A e \in Ends : Len(ends[e].outbound) <= OutboundSlots
    <3>1. ends \in [Ends -> End]
      BY <1>1, <1>2, Zenon
    <3>2. \A e \in Ends : ends[e] = x
      BY <1>2
    <3>3. 1 <= OutboundSlots
      BY Sizes
    <3> QED BY <1>1, <3>1, <3>2, <3>3
  <2>2. <<>> \in Seq(Datagram) /\ <<>> \in Seq(Nat)
    OBVIOUS
  <2>3. wire \in [Ends -> Seq(Datagram)] /\ dispatched \in [Ends -> Seq(Nat)]
    BY <2>2 DEF Init
  <2>4. accepted \in [Ends -> 1..MaxMessages]
    BY MostMessages DEF Init
  <2>5. /\ stage \in {"connecting", "connected"} /\ ready \in BOOLEAN /\ owed \in [Ends -> BOOLEAN]
    BY DEF Init
  <2> QED BY <2>1, <2>3, <2>4, <2>5 DEF Typed
<1>4. ASSUME NEW e \in Ends PROVE Flow(e)
  BY <1>1, <1>2, Others DEF Init, Flow
<1> QED BY <1>3, <1>4 DEF ChannelInv

(* A received packet, at either end. *)
LEMMA ConsumeMoves ==
  ASSUME ChannelInv, NEW e \in Ends, NEW i \in Arriving(e), NEW rest, Consume(e, wire[e][i], rest)
  PROVE  LET z == Receive(ends[e], wire[e][i])
         IN  /\ i \in 1..Len(wire[e]) /\ (~Reorder => i = 1)
             /\ Messages(z) \in Seq(Nat)
             /\ Len(Messages(z)) \in Nat /\ Len(Messages(z)) <= PeerBurst
             /\ ends' = [ends EXCEPT ![e] = Drain(z)] /\ wire' = [wire EXCEPT ![e] = rest]
             /\ dispatched' = [dispatched EXCEPT ![e] = @ \o Messages(z)]
             /\ accepted' = accepted
             /\ stage' \in {"connecting", "connected"} /\ ready' \in BOOLEAN /\ owed' \in [Ends -> BOOLEAN]
<1>1. "host" \in Ends /\ "peer" \in Ends
  BY DEF Ends
<1>2. /\ stage \in {"connecting", "connected"} /\ ready \in BOOLEAN
      /\ owed \in [Ends -> BOOLEAN] /\ wire \in [Ends -> Seq(Datagram)]
      /\ dispatched \in [Ends -> Seq(Nat)]
  BY DEF ChannelInv, Typed
<1>3. i \in 1..Len(wire[e]) /\ (~Reorder => i = 1)
  <2>1. DOMAIN wire[e] = 1..Len(wire[e])
    BY <1>2
  <2> QED BY <2>1 DEF Arriving
<1> DEFINE z == Receive(ends[e], wire[e][i])
<1>4. Len(Messages(z)) \in Nat /\ Len(Messages(z)) <= PeerBurst /\ Messages(z) \in Seq(Nat)
  <2> DEFINE w == Other(e)
             x == ends[e]
             y == ends[w]
             in == wire[e]
             out == wire[w]
  <2>1. /\ w \in Ends /\ x \in End /\ y \in End /\ in \in Seq(Datagram)
        /\ Direction(w, y, x, in, out, dispatched[e], accepted[w])
    <3> HIDE DEF w, x, y, in, out
    <3> QED BY Both DEF w, x, y, in, out
  <2>2. i \in 1..Len(in) /\ z = Receive(x, in[i])
    BY <1>3
  <2> HIDE DEF w, x, y, in, out, z
  <2>3. y.head \in Nat /\ y.sentCount \in Nat
    BY <2>1, Sizes DEF End
  <2>4. /\ Len(Messages(Receive(x, in[i]))) \in Nat /\ Len(Messages(Receive(x, in[i]))) <= PeerBurst
        /\ Messages(Receive(x, in[i])) \in Seq(Nat)
    BY <1>3, <2>1, <2>2, <2>3, PacketArrives, Zenon
  <2> QED BY <2>2, <2>4
<1>5. /\ ends' = [ends EXCEPT ![e] = Drain(z)] /\ wire' = [wire EXCEPT ![e] = rest]
      /\ dispatched' = [dispatched EXCEPT ![e] = @ \o Messages(z)]
      /\ accepted' = accepted
      /\ stage' \in {"connecting", "connected"} /\ ready' \in BOOLEAN /\ owed' \in [Ends -> BOOLEAN]
  <2>1. CASE e = "host"
    <3>1. /\ ends' = [ends EXCEPT !["host"] = Drain(z)] /\ wire' = [wire EXCEPT !["host"] = rest]
          /\ dispatched' = [dispatched EXCEPT !["host"] = @ \o Messages(z)]
          /\ accepted' = accepted
          /\ stage' \in {"connecting", "connected"} /\ ready' \in BOOLEAN
          /\ owed' = [owed EXCEPT !["host"] = TRUE]
      BY <1>2, <2>1 DEF Consume, HostConsume
    <3> HIDE DEF z
    <3> QED BY <1>1, <1>2, <2>1, <3>1
  <2>2. CASE e = "peer"
    <3> HIDE DEF z
    <3>1. /\ ends' = [ends EXCEPT !["peer"] = Drain(z)] /\ wire' = [wire EXCEPT !["peer"] = rest]
          /\ dispatched' = [dispatched EXCEPT !["peer"] = @ \o Messages(z)]
          /\ accepted' = accepted /\ stage' = stage /\ ready' = ready
          /\ owed' = [owed EXCEPT !["peer"] = TRUE]
      BY <2>2 DEF Consume, PeerConsume, z
    <3> QED BY <1>1, <1>2, <2>2, <3>1
  <2> QED BY <2>1, <2>2 DEF Ends
<1> HIDE DEF z
<1> QED BY <1>3, <1>4, <1>5 DEF z

LEMMA SendMoves ==
  ASSUME ChannelInv, InTouch, NEW e \in Ends, NEW c \in Nat, ends' = [ends EXCEPT ![e] = Stamp(@, c)]
  PROVE  Lag(e) < MaxLag
<1> DEFINE x == ends[e]
<1>1. x \in End /\ ends \in [Ends -> End]
  BY DEF ChannelInv, Typed
<1>2. ends'[e] = Stamp(x, c)
  BY <1>1
<1> HIDE DEF x
<1>3. Stamp(x, c).head = (x.head + 1) % PacketModulus
  BY <1>1, StampFields, Zenon
<1>4. x.head \in 0..PacketModulus - 1 /\ PacketModulus \in Nat /\ 1 < PacketModulus
  BY <1>1, Sizes DEF End
<1>5. (x.head + 1) % PacketModulus # x.head
  <2>1. CASE x.head + 1 < PacketModulus
    <3>1. (x.head + 1) % PacketModulus = x.head + 1
      BY <1>4, <2>1, Small
    <3> QED BY <1>4, <3>1
  <2>2. CASE x.head + 1 = PacketModulus
    <3>1. PacketModulus % PacketModulus = 0
      BY <1>4
    <3> QED BY <1>4, <2>2, <3>1
  <2> QED BY <1>4, <2>1, <2>2
<1>6. ends'[e].head # ends[e].head
  BY <1>2, <1>3, <1>5 DEF x
<1> QED BY <1>6 DEF InTouch, Sends

LEMMA NextSafe ==
  ChannelInv /\ [Next /\ InTouch]_vars => ChannelInv'
<1> SUFFICES ASSUME ChannelInv, [Next /\ InTouch]_vars PROVE ChannelInv'
  OBVIOUS
<1>1. Typed
  BY DEF ChannelInv
<1>2. "host" \in Ends /\ "peer" \in Ends /\ Other("host") = "peer" /\ Other("peer") = "host"
  BY DEF Ends, Other
<1>3. \A e \in Ends : accepted[e] \in Nat /\ Len(ends[e].outbound) \in Nat
  <2> TAKE e \in Ends
  <2>1. ends[e] \in End /\ accepted[e] \in 1..MaxMessages
    BY <1>1 DEF Typed
  <2>2. ends[e].outbound \in Seq(Fragment)
    BY <2>1 DEF End
  <2> QED BY <2>1, <2>2, MostMessages
<1>4. /\ stage \in {"connecting", "connected"} /\ ready \in BOOLEAN
      /\ owed \in [Ends -> BOOLEAN] /\ wire \in [Ends -> Seq(Datagram)]
      /\ dispatched \in [Ends -> Seq(Nat)]
  BY <1>1 DEF Typed
<1>5. ASSUME NEW n \in Lengths, HostEnqueue(n) PROVE ChannelInv'
  <2>1. n \in Lengths \cup {1} /\ n \in Nat
    BY ChannelAssumption
  <2>2. accepted["host"] + 1 <= MaxMessages
    BY <1>2, <1>3, <1>5, MostMessages, Sizes DEF HostEnqueue
  <2> DEFINE z == Enqueue(ends["host"], accepted["host"] + 1, n)
  <2>3. /\ Len(ends["host"].outbound) + n <= OutboundSlots
        /\ ends' = [ends EXCEPT !["host"] = z] /\ accepted' = [accepted EXCEPT !["host"] = @ + 1]
        /\ wire' = wire /\ dispatched' = dispatched
        /\ stage' \in {"connecting", "connected"} /\ ready' \in BOOLEAN /\ owed' \in [Ends -> BOOLEAN]
    BY <1>2, <1>4, <1>5 DEF HostEnqueue
  <2> QED BY <1>2, <2>1, <2>2, <2>3, AfterEnqueue
<1>6. ASSUME NEW n \in Lengths, PeerEnqueue(n) PROVE ChannelInv'
  <2>1. n \in Lengths \cup {1} /\ n \in Nat
    BY ChannelAssumption
  <2>2. accepted["peer"] + 1 <= MaxMessages
    BY <1>2, <1>3, <1>6, MostMessages, Sizes DEF PeerEnqueue
  <2> DEFINE z == Enqueue(ends["peer"], accepted["peer"] + 1, n)
  <2>3. /\ Len(ends["peer"].outbound) + n <= OutboundSlots
        /\ ends' = [ends EXCEPT !["peer"] = z] /\ accepted' = [accepted EXCEPT !["peer"] = @ + 1]
        /\ wire' = wire /\ dispatched' = dispatched
        /\ stage' \in {"connecting", "connected"} /\ ready' \in BOOLEAN /\ owed' \in [Ends -> BOOLEAN]
    BY <1>2, <1>4, <1>6 DEF PeerEnqueue
  <2> QED BY <1>2, <2>1, <2>2, <2>3, AfterEnqueue
<1>7. CASE HostAnswerRepeatedConnect
  <2>1. 1 \in Lengths \cup {1}
    OBVIOUS
  <2>2. accepted["host"] + 1 <= MaxMessages /\ Len(ends["host"].outbound) + 1 <= OutboundSlots
    <3>1. accepted["host"] < HostMessages /\ Len(ends["host"].outbound) < OutboundSlots
      BY <1>7 DEF HostAnswerRepeatedConnect
    <3> QED BY <1>2, <1>3, <3>1, MostMessages, Sizes
  <2> DEFINE z == [Enqueue(ends["host"], accepted["host"] + 1, 1) EXCEPT !.awaiting = FALSE]
  <2>3. /\ ends' = [ends EXCEPT !["host"] = z] /\ accepted' = [accepted EXCEPT !["host"] = @ + 1]
        /\ wire' = wire /\ dispatched' = dispatched
        /\ stage' \in {"connecting", "connected"} /\ ready' \in BOOLEAN /\ owed' \in [Ends -> BOOLEAN]
    BY <1>2, <1>4, <1>7 DEF HostAnswerRepeatedConnect
  <2> QED BY <1>2, <2>1, <2>2, <2>3, AfterEnqueue
<1>8. ASSUME HostService, InTouch PROVE ChannelInv'
  <2> DEFINE z == Stamp(ends["host"], 1)
             v == IF Len(wire["peer"]) < WireToPeer THEN Append(wire["peer"], Packet(z)) ELSE wire["peer"]
  <2>1. /\ ends' = [ends EXCEPT !["host"] = z]
        /\ wire' = [wire EXCEPT !["peer"] = v]
        /\ accepted' = accepted /\ dispatched' = dispatched
        /\ stage' \in {"connecting", "connected"} /\ ready' \in BOOLEAN /\ owed' \in [Ends -> BOOLEAN]
    BY <1>2, <1>4, <1>8 DEF HostService, Sent
  <2>2. 1 \in 1..PeerBurst /\ 1 \in Nat
    BY Sizes
  <2>3. Lag("host") < MaxLag
    BY <1>2, <1>8, <2>1, <2>2, SendMoves
  <2>4. v = Append(wire["peer"], Packet(z)) \/ v = wire["peer"]
    OBVIOUS
  <2> HIDE DEF v
  <2> QED BY <1>2, <2>1, <2>2, <2>3, <2>4, AfterSend
<1>9. ASSUME PeerSend, InTouch PROVE ChannelInv'
  <2>1. PICK c \in 1..PeerBurst :
          /\ c <= Len(ends["peer"].outbound) \/ c = 1
          /\ ends' = [ends EXCEPT !["peer"] = Stamp(ends["peer"], c)]
          /\ wire' = Sent("host", Packet(Stamp(ends["peer"], c)), WireToHost)
    BY <1>9 DEF PeerSend
  <2> DEFINE z == Stamp(ends["peer"], c)
             v == IF Len(wire["host"]) < WireToHost THEN Append(wire["host"], Packet(z)) ELSE wire["host"]
  <2>2. /\ accepted' = accepted /\ dispatched' = dispatched
        /\ stage' \in {"connecting", "connected"} /\ ready' \in BOOLEAN /\ owed' \in [Ends -> BOOLEAN]
    BY <1>2, <1>4, <1>9 DEF PeerSend
  <2>3. ends' = [ends EXCEPT !["peer"] = z] /\ wire' = [wire EXCEPT !["host"] = v] /\ c \in Nat
    BY <2>1, Sizes DEF Sent
  <2>4. Lag("peer") < MaxLag
    BY <1>2, <1>9, <2>3, SendMoves
  <2>5. v = Append(wire["host"], Packet(z)) \/ v = wire["host"]
    OBVIOUS
  <2> HIDE DEF v
  <2>6. c <= Len(ends["peer"].outbound) \/ c = 1
    BY <2>1
  <2> QED BY <1>2, <2>2, <2>3, <2>4, <2>5, <2>6, AfterSend
<1>10. ASSUME NEW e \in Ends, NEW i \in Arriving(e), NEW rest \in Seq(Datagram),
              Thinned(rest, wire[e]), Consume(e, wire[e][i], rest)
       PROVE  ChannelInv'
  <2>1. /\ i \in 1..Len(wire[e]) /\ (~Reorder => i = 1)
        /\ ends' = [ends EXCEPT ![e] = Drain(Receive(ends[e], wire[e][i]))]
        /\ wire' = [wire EXCEPT ![e] = rest]
        /\ dispatched' = [dispatched EXCEPT ![e] = @ \o Messages(Receive(ends[e], wire[e][i]))]
        /\ accepted' = accepted
        /\ stage' \in {"connecting", "connected"} /\ ready' \in BOOLEAN /\ owed' \in [Ends -> BOOLEAN]
    BY <1>10, ConsumeMoves, Zenon
  <2> DEFINE z == Receive(ends[e], wire[e][i])
  <2>2. /\ ends' = [ends EXCEPT ![e] = Drain(z)] /\ wire' = [wire EXCEPT ![e] = rest]
        /\ dispatched' = [dispatched EXCEPT ![e] = @ \o Messages(z)]
        /\ accepted' = accepted
        /\ stage' \in {"connecting", "connected"} /\ ready' \in BOOLEAN /\ owed' \in [Ends -> BOOLEAN]
    BY <2>1
  <2> HIDE DEF z
  <2>3. z = Receive(ends[e], wire[e][i])
    BY DEF z
  <2>4. i \in 1..Len(wire[e]) /\ (~Reorder => i = 1)
    BY <2>1
  <2>5. rest \in Seq(Datagram) /\ Thinned(rest, wire[e])
    BY <1>10
  <2> QED BY <2>2, <2>3, <2>4, <2>5, AfterConsume
<1>11. ASSUME NEW e \in Ends, Deliver(e) PROVE ChannelInv'
  <2>1. PICK i \in Arriving(e) : Consume(e, wire[e][i], RemoveAt(wire[e], i))
    BY <1>11 DEF Deliver
  <2>2. i \in 1..Len(wire[e]) /\ wire[e] \in Seq(Datagram)
    BY <1>4 DEF Arriving
  <2>3. RemoveAt(wire[e], i) \in Seq(Datagram) /\ Thinned(RemoveAt(wire[e], i), wire[e])
    BY <2>2, OneGone
  <2> QED BY <1>10, <2>1, <2>3
<1>12. ASSUME NEW e \in Ends, DeliverTwice(e) PROVE ChannelInv'
  <2>1. PICK i \in Arriving(e) : Consume(e, wire[e][i], wire[e])
    BY <1>12 DEF DeliverTwice
  <2>2. wire[e] \in Seq(Datagram) /\ Thinned(wire[e], wire[e])
    BY <1>4, AllThere
  <2> QED BY <1>10, <2>1, <2>2
<1>13. ASSUME NEW e \in Ends, Lose(e) PROVE ChannelInv'
  <2>1. PICK i \in DOMAIN wire[e] : wire' = [wire EXCEPT ![e] = RemoveAt(@, i)]
    BY <1>13 DEF Lose
  <2>2. i \in 1..Len(wire[e]) /\ wire[e] \in Seq(Datagram)
    BY <1>4
  <2> DEFINE rest == RemoveAt(wire[e], i)
  <2>3. rest \in Seq(Datagram) /\ Thinned(rest, wire[e])
    BY <2>2, OneGone
  <2>4. wire' = [wire EXCEPT ![e] = rest]
    BY <2>1
  <2>5. UNCHANGED <<ends, stage, ready, owed, accepted, dispatched>>
    BY <1>13 DEF Lose
  <2> HIDE DEF rest
  <2> QED BY <2>3, <2>4, <2>5, AfterLoss
<1>14. CASE UNCHANGED vars
  BY <1>14 DEF vars, ChannelInv, Typed, Flow
<1> QED BY <1>5, <1>6, <1>7, <1>8, <1>9, <1>11, <1>12, <1>13, <1>14 DEF Next

(***************************************************************************)
(* What the invariant says of the exchange                                 *)
(***************************************************************************)
LEMMA InvGives ==
  ASSUME ChannelInv, NEW e \in Ends, NEW w, w = Other(e)
  PROVE  /\ CountsTo(dispatched[w], accepted[e])
         /\ Cardinality(ends[w].held) <= ReliableSlots
         /\ \A m \in 1..accepted[e] :
               \/ \E i \in DOMAIN ends[e].outbound : ends[e].outbound[i].message = m
               \/ m \in ToSet(dispatched[w])
<1> DEFINE x == ends[e]
           y == ends[w]
           in == wire[e]
           out == wire[w]
           d == dispatched[w]
           count == accepted[e]
<1>1. x \in End /\ count \in Nat /\ Direction(e, x, y, out, in, d, count)
  <2> HIDE DEF x, y, in, out, d, count
  <2> QED BY Both DEF x, y, in, out, d, count
<1> HIDE DEF x, y, in, out, d, count
<1>2. x.sentCount \in Nat
  BY <1>1 DEF End
<1>3. /\ CountsTo(d, count)
      /\ Cardinality(y.held) <= ReliableSlots
      /\ Kept(x, d, count)
  BY <1>1, <1>2, DirectionGives
<1>4. \A m : (\E k \in DOMAIN d : d[k] = m) => m \in ToSet(d)
  BY DEF ToSet
<1>5. \A m \in 1..count :
        \/ \E i \in DOMAIN x.outbound : x.outbound[i].message = m
        \/ m \in ToSet(d)
  BY <1>3, <1>4 DEF Kept
<1> QED BY <1>3, <1>5 DEF x, y, d, count

(* What the host reported are messages. *)
ReportTyped == reported \in Seq(0..MaxMessages)

LEMMA InvTyped ==
  ChannelInv /\ ReportTyped => TypeOK
<1> SUFFICES ASSUME ChannelInv, ReportTyped PROVE TypeOK
  OBVIOUS
<1>1. Typed
  BY DEF ChannelInv
<1>2. DOMAIN ends = Ends
  BY <1>1 DEF Typed
<1>3. ASSUME NEW e \in Ends
      PROVE  /\ ends[e] \in End
             /\ Len(ends[e].outbound) <= OutboundSlots
             /\ Cardinality(ends[e].held) <= ReliableSlots
             /\ wire[e] \in Seq([head : 0..PacketModulus - 1, ack : Ack, records : Seq(Fragment)])
             /\ dispatched[e] \in Seq(0..MaxMessages)
  <2> DEFINE w == Other(e)
  <2>1. w \in Ends /\ e = Other(w)
    BY Others
  <2> HIDE DEF w
  <2>2. /\ CountsTo(dispatched[e], accepted[w])
        /\ Cardinality(ends[e].held) <= ReliableSlots
    BY <2>1, InvGives
  <2>3. accepted[w] \in 1..MaxMessages
    BY <1>1, <2>1 DEF Typed
  <2>4. dispatched[e] \in Seq(0..MaxMessages)
    <3>1. PICK n \in 0..accepted[w] : dispatched[e] = [k \in 1..n |-> k]
      BY <2>2 DEF CountsTo
    <3> DEFINE S == 0..MaxMessages
    <3>2. n \in Nat /\ \A k \in 1..n : k \in S
      BY <2>3, <3>1, MostMessages
    <3> HIDE DEF S
    <3>3. [k \in 1..n |-> k] \in Seq(S)
      BY <3>2
    <3> QED BY <3>1, <3>3 DEF S
  <2> QED BY <1>1, <2>2, <2>4 DEF Typed, Datagram
<1> QED BY <1>1, <1>2, <1>3 DEF TypeOK, Typed, ReportTyped

LEMMA InvHeard ==
  ChannelInv => NothingRetiredUnheard
<1> SUFFICES ASSUME ChannelInv, NEW e \in Ends, NEW m \in 1..accepted[e]
             PROVE  \/ \E i \in DOMAIN ends[e].outbound : ends[e].outbound[i].message = m
                    \/ m \in ToSet(dispatched[Other(e)])
  BY DEF NothingRetiredUnheard
<1> DEFINE w == Other(e)
<1>1. w = Other(e)
  OBVIOUS
<1> HIDE DEF w
<1>2. \/ \E i \in DOMAIN ends[e].outbound : ends[e].outbound[i].message = m
      \/ m \in ToSet(dispatched[w])
  BY <1>1, InvGives
<1> QED BY <1>1, <1>2

(* What one step does to the direction in which e sends.                   *)
LEMMA FlowMoves ==
  ASSUME ChannelInv, [Next]_vars, NEW e \in Ends, NEW w, w = Other(e)
  PROVE  \/ accepted'[e] = accepted[e] + 1 /\ dispatched'[w] = dispatched[w]
         \/ /\ accepted'[e] = accepted[e]
            /\ \E s \in Seq(Nat) : dispatched'[w] = dispatched[w] \o s
<1>1. /\ Typed /\ w \in Ends /\ "host" \in Ends /\ "peer" \in Ends
  BY Others DEF ChannelInv, Ends
<1>2. /\ dispatched[w] \in Seq(Nat) /\ dispatched[w] \o <<>> = dispatched[w] /\ <<>> \in Seq(Nat)
  <2>1. dispatched[w] \in Seq(Nat)
    BY <1>1 DEF Typed
  <2> DEFINE d == dispatched[w]
  <2> HIDE DEF d
  <2>2. d \in Seq(Nat) => d \o <<>> = d
    OBVIOUS
  <2> QED BY <2>1, <2>2 DEF d
<1>3. CASE accepted' = accepted /\ dispatched' = dispatched
  BY <1>2, <1>3
<1>4. ASSUME NEW k \in Ends, accepted' = [accepted EXCEPT ![k] = @ + 1], dispatched' = dispatched
      PROVE  \/ accepted'[e] = accepted[e] + 1 /\ dispatched'[w] = dispatched[w]
             \/ accepted'[e] = accepted[e] /\ dispatched'[w] = dispatched[w] \o <<>>
  <2>1. accepted \in [Ends -> 1..MaxMessages]
    BY <1>1 DEF Typed
  <2>2. accepted'[e] = accepted[e] + 1 \/ accepted'[e] = accepted[e]
    BY <1>4, <2>1
  <2> QED BY <1>2, <1>4, <2>2
<1>5. ASSUME NEW k \in Ends, NEW i \in Arriving(k), NEW rest, Consume(k, wire[k][i], rest)
      PROVE  /\ accepted'[e] = accepted[e]
             /\ \E s \in Seq(Nat) : dispatched'[w] = dispatched[w] \o s
  <2> DEFINE ms == Messages(Receive(ends[k], wire[k][i]))
  <2>1. /\ ms \in Seq(Nat) /\ dispatched' = [dispatched EXCEPT ![k] = @ \o ms] /\ accepted' = accepted
    BY <1>5, ConsumeMoves, Zenon
  <2> HIDE DEF ms
  <2>2. CASE k = w
    <3> DEFINE v == dispatched[w] \o ms
    <3>1. dispatched' = [dispatched EXCEPT ![w] = v]
      BY <2>1, <2>2
    <3> HIDE DEF v
    <3>2. dispatched'[w] = v
      BY <1>1, <3>1 DEF Typed
    <3> QED BY <2>1, <3>2 DEF v
  <2>3. CASE k # w
    <3>1. dispatched'[w] = dispatched[w]
      BY <1>1, <2>1, <2>3 DEF Typed
    <3> QED BY <1>2, <2>1, <3>1
  <2> QED BY <2>2, <2>3
<1>6. ASSUME NEW n \in Lengths, HostEnqueue(n) \/ PeerEnqueue(n)
      PROVE  \E k \in Ends : accepted' = [accepted EXCEPT ![k] = @ + 1] /\ dispatched' = dispatched
  BY <1>1, <1>6 DEF HostEnqueue, PeerEnqueue
<1>7. ASSUME HostAnswerRepeatedConnect
      PROVE  \E k \in Ends : accepted' = [accepted EXCEPT ![k] = @ + 1] /\ dispatched' = dispatched
  BY <1>1, <1>7 DEF HostAnswerRepeatedConnect
<1>8. ASSUME HostService \/ PeerSend \/ (\E k \in Ends : Lose(k)) \/ UNCHANGED vars
      PROVE  accepted' = accepted /\ dispatched' = dispatched
  BY <1>8 DEF HostService, PeerSend, Lose, vars
<1>9. ASSUME NEW k \in Ends, Deliver(k) \/ DeliverTwice(k)
      PROVE  \E i \in Arriving(k) : \E rest : Consume(k, wire[k][i], rest)
  BY <1>9 DEF Deliver, DeliverTwice
<1> QED BY <1>2, <1>3, <1>4, <1>5, <1>6, <1>7, <1>8, <1>9 DEF Next

AllCounted == \A e \in Ends : CountsTo(dispatched[Other(e)], accepted[e])

LEMMA InvCounts ==
  ChannelInv => AllCounted
<1> SUFFICES ASSUME ChannelInv, NEW e \in Ends
             PROVE  CountsTo(dispatched[Other(e)], accepted[e])
  BY DEF AllCounted
<1> DEFINE w == Other(e)
<1>1. w = Other(e)
  OBVIOUS
<1> HIDE DEF w
<1>2. CountsTo(dispatched[w], accepted[e])
  BY <1>1, InvGives
<1> QED BY <1>1, <1>2

LEMMA InvCountsNext ==
  ChannelInv' => AllCounted'
BY InvCounts, PTL

LEMMA FlowAdvances ==
  ASSUME ChannelInv, ChannelInv', [Next]_vars, NEW e \in Ends, NEW w, w = Other(e)
  PROVE  \/ accepted'[e] = accepted[e] + 1 /\ dispatched'[w] = dispatched[w]
         \/ /\ \E n \in Len(dispatched[w]) + 1 .. accepted[e] : dispatched'[w] = [k \in 1..n |-> k]
            /\ accepted'[e] = accepted[e]
         \/ accepted'[e] = accepted[e] /\ dispatched'[w] = dispatched[w]
<1>1. CASE accepted'[e] = accepted[e] + 1 /\ dispatched'[w] = dispatched[w]
  BY <1>1
<1>2. ASSUME accepted'[e] = accepted[e],
             NEW s \in Seq(Nat), dispatched'[w] = dispatched[w] \o s
      PROVE  \/ \E n \in Len(dispatched[w]) + 1 .. accepted[e] : dispatched'[w] = [k \in 1..n |-> k]
             \/ dispatched'[w] = dispatched[w]
  <2> DEFINE d == dispatched[w]
             c == dispatched'[w]
             count == accepted[e]
  <2>1. CountsTo(d, count)
    BY InvGives
  <2>2. CountsTo(c, count)
    <3>1. AllCounted'
      BY InvCountsNext
    <3>2. CountsTo(dispatched'[w], accepted'[e])
      BY <3>1 DEF AllCounted
    <3> QED BY <1>2, <3>2
  <2>3. count \in Nat /\ d \in Seq(Nat)
    <3> HIDE DEF d, count
    <3> QED BY Both DEF d, count
  <2>4. c = d \o s
    BY <1>2
  <2> HIDE DEF d, c, count
  <2>5. PICK m \in 0..count : d = [k \in 1..m |-> k]
    BY <2>1 DEF CountsTo
  <2>6. PICK n \in 0..count : c = [k \in 1..n |-> k]
    BY <2>2 DEF CountsTo
  <2>7. Len(d) = m /\ Len(c) = n /\ m \in Nat /\ n \in Nat
    <3>1. m \in Nat /\ n \in Nat
      BY <2>3
    <3> QED BY <2>5, <2>6, <3>1
  <2>8. Len(c) = Len(d) + Len(s) /\ Len(s) \in Nat
    BY <2>3, <2>4
  <2>9. CASE n = m
    <3>1. c = d
      BY <2>5, <2>6, <2>9
    <3> QED BY <3>1 DEF c, d
  <2>10. CASE n # m
    <3>1. n \in Len(d) + 1 .. count
      BY <2>3, <2>7, <2>8, <2>10
    <3>2. \E j \in Len(d) + 1 .. count : c = [k \in 1..j |-> k]
      BY <2>6, <3>1
    <3> QED BY <3>2 DEF c, d, count
  <2> QED BY <2>9, <2>10
<1> QED BY <1>1, <1>2, FlowMoves

(***************************************************************************)
(* What the host hands to the group layer                                  *)
(***************************************************************************)

(* One step of the report: a packet's messages, up to its capacity. *)
LEMMA ReportMoves ==
  ASSUME ChannelInv, [Next]_vars
  PROVE  \/ reported' = reported /\ dispatched'["host"] = dispatched["host"]
         \/ \E ms \in Seq(Nat) :
               /\ Len(ms) <= PeerBurst
               /\ dispatched'["host"] = dispatched["host"] \o ms
               /\ reported' = reported \o SubSeq(ms, 1, Min({Len(ms), ReportCapacity}))
<1>1. "host" \in Ends /\ "peer" \in Ends /\ dispatched \in [Ends -> Seq(Nat)]
  BY DEF ChannelInv, Typed, Ends
<1>2. ASSUME NEW k \in Ends, NEW i \in Arriving(k), NEW rest, Consume(k, wire[k][i], rest), k = "host"
      PROVE  \E ms \in Seq(Nat) :
               /\ Len(ms) <= PeerBurst
               /\ dispatched'["host"] = dispatched["host"] \o ms
               /\ reported' = reported \o SubSeq(ms, 1, Min({Len(ms), ReportCapacity}))
  <2> DEFINE ms == Messages(Receive(ends[k], wire[k][i]))
  <2>1. /\ ms \in Seq(Nat) /\ Len(ms) <= PeerBurst
        /\ dispatched' = [dispatched EXCEPT ![k] = @ \o ms]
    BY <1>2, ConsumeMoves, Zenon
  <2>2. reported' = reported \o SubSeq(ms, 1, Min({Len(ms), ReportCapacity}))
    BY <1>2 DEF Consume, HostConsume
  <2> HIDE DEF ms
  <2>3. dispatched'["host"] = dispatched["host"] \o ms
    <3> DEFINE v == dispatched["host"] \o ms
    <3>1. dispatched' = [dispatched EXCEPT !["host"] = v]
      BY <1>2, <2>1
    <3> HIDE DEF v
    <3>2. dispatched'["host"] = v
      BY <1>1, <3>1
    <3> QED BY <3>2 DEF v
  <2> QED BY <2>1, <2>2, <2>3
<1>3. ASSUME NEW k \in Ends, NEW i \in Arriving(k), NEW rest, Consume(k, wire[k][i], rest), k # "host"
      PROVE  reported' = reported /\ dispatched'["host"] = dispatched["host"]
  <2>1. reported' = reported
    BY <1>3 DEF Consume, PeerConsume
  <2> DEFINE v == dispatched["peer"] \o Messages(Receive(ends["peer"], wire[k][i]))
  <2>2. k = "peer"
    BY <1>3 DEF Ends
  <2>3. dispatched' = [dispatched EXCEPT !["peer"] = v]
    BY <1>3, <2>2 DEF Consume, PeerConsume
  <2> HIDE DEF v
  <2> QED BY <1>1, <2>1, <2>3
<1>4. ASSUME NEW k \in Ends, Deliver(k) \/ DeliverTwice(k)
      PROVE  \E i \in Arriving(k) : \E rest : Consume(k, wire[k][i], rest)
  BY <1>4 DEF Deliver, DeliverTwice
<1>5. ASSUME \/ \E n \in Lengths : HostEnqueue(n) \/ PeerEnqueue(n)
             \/ HostAnswerRepeatedConnect \/ HostService \/ PeerSend
             \/ \E k \in Ends : Lose(k)
             \/ UNCHANGED vars
      PROVE  reported' = reported /\ dispatched'["host"] = dispatched["host"]
  BY <1>5 DEF HostEnqueue, PeerEnqueue, HostAnswerRepeatedConnect, HostService, PeerSend, Lose, vars
<1> QED BY <1>2, <1>3, <1>4, <1>5 DEF Next

LEMMA ReportKeepsType ==
  ASSUME ChannelInv, ChannelInv', [Next]_vars, ReportTyped
  PROVE  ReportTyped'
<1> DEFINE S == 0..MaxMessages
<1>1. reported \in Seq(S)
  BY DEF ReportTyped
<1>2. CASE reported' = reported
  BY <1>2 DEF ReportTyped
<1>3. ASSUME NEW ms \in Seq(Nat), dispatched'["host"] = dispatched["host"] \o ms,
             reported' = reported \o SubSeq(ms, 1, Min({Len(ms), ReportCapacity}))
      PROVE  ReportTyped'
  <2> DEFINE d == dispatched["host"]
             c == dispatched'["host"]
             L == Len(ms)
             j == Min({L, ReportCapacity})
  <2>1. d \in Seq(Nat)
    BY DEF ChannelInv, Typed, Ends
  <2>2. PICK n \in 0..accepted'["peer"] : c = [k \in 1..n |-> k]
    <3>1. AllCounted'
      BY InvCountsNext
    <3> QED BY <3>1, Others DEF AllCounted, CountsTo, Ends, Other
  <2>3. accepted'["peer"] \in 1..MaxMessages
    BY DEF ChannelInv, Typed, Ends
  <2>4. c = d \o ms
    BY <1>3
  <2>5. L \in Nat /\ ReportCapacity \in Nat
    BY Sizes
  <2> HIDE DEF c, d, L
  <2>6. Len(c) = n /\ n <= MaxMessages /\ \A k \in 1..n : c[k] = k
    BY <2>2, <2>3, MostMessages
  <2>7. \A k \in 1..L : ms[k] \in S
    <3> TAKE k \in 1..L
    <3>1. Len(d) \in Nat /\ c[Len(d) + k] = ms[k] /\ Len(d) + k \in 1..Len(c)
      BY <2>1, <2>4, <2>5 DEF L
    <3> QED BY <2>2, <2>3, <2>6, <3>1, MostMessages
  <2>8. j \in 0..L
    <3>1. CASE L <= ReportCapacity
      <4>1. j = L
        BY <2>5, <3>1 DEF Min
      <4> QED BY <2>5, <4>1
    <3>2. CASE ~(L <= ReportCapacity)
      <4>1. j = ReportCapacity
        BY <2>5, <3>2 DEF Min
      <4> QED BY <2>5, <3>2, <4>1
    <3> QED BY <3>1, <3>2
  <2> DEFINE bodies == SubSeq(ms, 1, j)
  <2>11. reported' = reported \o bodies
    BY <1>3 DEF L
  <2> HIDE DEF j, S
  <2>9. bodies \in Seq(S)
    BY <2>5, <2>7, <2>8 DEF L
  <2> HIDE DEF bodies
  <2>10. reported' \in Seq(S)
    BY <1>1, <2>9, <2>11 DEF S
  <2> QED BY <2>10 DEF ReportTyped, S
<1> QED BY <1>2, <1>3, ReportMoves

(* As long as the report holds a packet's messages, all of them are        *)
(* reported.                                                               *)
ReportWhole == reported = dispatched["host"]

LEMMA ReportStaysWhole ==
  ASSUME ReportHolds, ChannelInv, [Next]_vars, ReportWhole
  PROVE  ReportWhole'
<1>1. ASSUME NEW ms \in Seq(Nat), Len(ms) <= PeerBurst,
             dispatched'["host"] = dispatched["host"] \o ms,
             reported' = reported \o SubSeq(ms, 1, Min({Len(ms), ReportCapacity}))
      PROVE  ReportWhole'
  <2> DEFINE L == Len(ms)
  <2>1. L \in Nat /\ L <= ReportCapacity /\ ReportCapacity \in Nat
    BY <1>1, Sizes DEF ReportHolds
  <2> HIDE DEF L
  <2>2. Min({L, ReportCapacity}) = L
    BY <2>1 DEF Min
  <2>3. SubSeq(ms, 1, Len(ms)) = ms
    BY <1>1
  <2>4. reported' = reported \o ms
    BY <1>1, <2>2, <2>3 DEF L
  <2> QED BY <1>1, <2>4 DEF ReportWhole
<1>2. CASE reported' = reported /\ dispatched'["host"] = dispatched["host"]
  BY <1>2 DEF ReportWhole
<1> QED BY <1>1, <1>2, ReportMoves

(***************************************************************************)
(* The theorems                                                            *)
(***************************************************************************)
LEMMA InvHolds ==
  InTouchSpec => []ChannelInv
<1>1. Init => ChannelInv
  BY InitSafe
<1>2. ChannelInv /\ [Next /\ InTouch]_vars => ChannelInv'
  BY NextSafe
<1> QED BY <1>1, <1>2, PTL DEF InTouchSpec

LEMMA StepInTouch ==
  [Next /\ InTouch]_vars => [Next]_vars
OBVIOUS

(* Heads, bases and sequences keep their widths however often they wrap,   *)
(* the send queue stays inside kOutboundSlots and what accept_records      *)
(* files inside kReliableSlots, a message half received included.          *)
THEOREM ChannelTyped ==
  InTouchSpec => []TypeOK
<1>1. Init => ReportTyped
  BY DEF Init, ReportTyped
<1>2. ChannelInv /\ ChannelInv' /\ [Next /\ InTouch]_vars /\ ReportTyped => ReportTyped'
  BY StepInTouch, ReportKeepsType
<1>3. ChannelInv /\ ReportTyped => TypeOK
  BY InvTyped
<1> QED BY <1>1, <1>2, <1>3, InvHolds, PTL DEF InTouchSpec

(* While the ends are in touch, apply_acknowledgement retires no record    *)
(* that was not heard: each message an end accepted is still queued there  *)
(* or was drained at the other end.  The hypothesis is what service does   *)
(* not check; without it the run channel_outage retires a message.         *)
THEOREM NothingForgotten ==
  InTouchSpec => []NothingRetiredUnheard
<1>1. ChannelInv => NothingRetiredUnheard
  BY InvHeard
<1> QED BY <1>1, InvHolds, PTL

(* The exchange implements the reliable delivery of what the group layer   *)
(* queues: the peer hands it up in order and once.                         *)
THEOREM PeerIsServed ==
  InTouchSpec => DeliversToPeer
<1>1. Init => HostToPeer!Init
  BY DEF Init, HostToPeer!Init, Ends
<1>2. ChannelInv /\ ChannelInv' /\ [Next /\ InTouch]_vars => [HostToPeer!Next]_HostToPeer!vars
  <2> SUFFICES ASSUME ChannelInv, ChannelInv', [Next]_vars
               PROVE  [HostToPeer!Next]_HostToPeer!vars
    BY StepInTouch
  <2>1. "host" \in Ends /\ "peer" = Other("host")
    BY DEF Ends, Other
  <2>2. \/ accepted'["host"] = accepted["host"] + 1 /\ dispatched'["peer"] = dispatched["peer"]
        \/ /\ \E n \in Len(dispatched["peer"]) + 1 .. accepted["host"] :
                  dispatched'["peer"] = [k \in 1..n |-> k]
           /\ accepted'["host"] = accepted["host"]
        \/ accepted'["host"] = accepted["host"] /\ dispatched'["peer"] = dispatched["peer"]
    BY <2>1, FlowAdvances
  <2> QED BY <2>2 DEF HostToPeer!Next, HostToPeer!Accept, HostToPeer!Dispatch, HostToPeer!vars
<1> QED BY <1>1, <1>2, InvHolds, PTL DEF InTouchSpec, DeliversToPeer, HostToPeer!Spec

(* The other direction, as far as the link itself: what apply_message sees *)
(* is what the peer sent, in order and once, whatever the report drops.    *)
PeerToLink == INSTANCE ReliableDelivery
                 WITH accepted <- accepted["peer"], dispatched <- dispatched["host"]

LEMMA LinkAdvances ==
  ChannelInv /\ ChannelInv' /\ [Next /\ InTouch]_vars => [PeerToLink!Next]_PeerToLink!vars
<1> SUFFICES ASSUME ChannelInv, ChannelInv', [Next]_vars
             PROVE  [PeerToLink!Next]_PeerToLink!vars
  BY StepInTouch
<1>1. "peer" \in Ends /\ "host" = Other("peer")
  BY DEF Ends, Other
<1>2. \/ accepted'["peer"] = accepted["peer"] + 1 /\ dispatched'["host"] = dispatched["host"]
      \/ /\ \E n \in Len(dispatched["host"]) + 1 .. accepted["peer"] :
                dispatched'["host"] = [k \in 1..n |-> k]
         /\ accepted'["peer"] = accepted["peer"]
      \/ accepted'["peer"] = accepted["peer"] /\ dispatched'["host"] = dispatched["host"]
  BY <1>1, FlowAdvances
<1> QED BY <1>2 DEF PeerToLink!Next, PeerToLink!Accept, PeerToLink!Dispatch, PeerToLink!vars

(* consume_established drains what the peer sent in order and once, for    *)
(* packets of any number of records that fit the window.                   *)
THEOREM LinkIsServed ==
  InTouchSpec => PeerToLink!Spec
<1>1. Init => PeerToLink!Init
  BY DEF Init, PeerToLink!Init, Ends
<1> QED BY <1>1, LinkAdvances, InvHolds, PTL DEF InTouchSpec, PeerToLink!Spec

(* The group layer gets all of it, in order and once, if no packet carries *)
(* more records than the report of kMessageReportCapacity has entries.     *)
(* read_queue admits longer packets: then the rest is drained and lost,    *)
(* and this does not hold.                                                 *)
THEOREM HostIsServed ==
  ASSUME ReportHolds
  PROVE  InTouchSpec => DeliversToHost
<1>1. Init => PeerToHost!Init /\ ReportWhole
  BY DEF Init, PeerToHost!Init, Ends, ReportWhole
<1>2. ChannelInv /\ [Next /\ InTouch]_vars /\ ReportWhole => ReportWhole'
  BY StepInTouch, ReportStaysWhole
<1>3. ChannelInv /\ ChannelInv' /\ [Next /\ InTouch]_vars /\ ReportWhole /\ ReportWhole'
        => [PeerToHost!Next]_PeerToHost!vars
  <2> SUFFICES ASSUME [PeerToLink!Next]_PeerToLink!vars, ReportWhole, ReportWhole'
               PROVE  [PeerToHost!Next]_PeerToHost!vars
    BY LinkAdvances
  <2> QED BY DEF ReportWhole, PeerToLink!Next, PeerToLink!Accept, PeerToLink!Dispatch, PeerToLink!vars,
                 PeerToHost!Next, PeerToHost!Accept, PeerToHost!Dispatch, PeerToHost!vars
<1> QED BY <1>1, <1>2, <1>3, InvHolds, PTL DEF InTouchSpec, DeliversToHost, PeerToHost!Spec
=============================================================================
