--------------------------- MODULE IoWorkerProofs ---------------------------
(***************************************************************************)
(* The IO worker.  Its rings, for any sizes and any wrap of their counters,*)
(* implement queues of chunks.  Its channel and eventfd, for any set of    *)
(* senders, any capacity and any number of packets, with writes to the     *)
(* eventfd that may fail or not, lose no wakeup.  Its test for public      *)
(* destinations agrees with that of the XDP program on every address.      *)
(***************************************************************************)
EXTENDS Xsk, IoWakeup, PublicAddress, TLAPS

-----------------------------------------------------------------------------
(* Sequences. *)
LEMMA FunctionIsSeq ==
  ASSUME NEW S, NEW n \in Nat, NEW s \in [1..n -> S]
  PROVE  s \in Seq(S) /\ Len(s) = n
OBVIOUS

LEMMA SameSeq ==
  ASSUME NEW S, NEW s \in Seq(S), NEW t \in Seq(S), Len(s) = Len(t),
         \A k \in 1..Len(s) : s[k] = t[k]
  PROVE  s = t
OBVIOUS

LEMMA SeqHas ==
  ASSUME NEW S, NEW s \in Seq(S)
  PROVE  /\ Len(s) \in Nat /\ \A k \in 1..Len(s) : s[k] \in S
         /\ Len(s) = 0 <=> s = <<>>
OBVIOUS

LEMMA ConcatIs ==
  ASSUME NEW S, NEW s \in Seq(S), NEW t \in Seq(S)
  PROVE  /\ s \o t \in Seq(S) /\ Len(s \o t) = Len(s) + Len(t)
         /\ \A k \in 1..Len(s) : (s \o t)[k] = s[k]
         /\ \A k \in 1..Len(t) : (s \o t)[Len(s) + k] = t[k]
OBVIOUS

LEMMA SubSeqIs ==
  ASSUME NEW S, NEW s \in Seq(S), NEW m \in 1..(Len(s) + 1), NEW n \in 0..Len(s), m <= n + 1
  PROVE  /\ SubSeq(s, m, n) \in Seq(S) /\ Len(SubSeq(s, m, n)) = n - m + 1
         /\ \A k \in 1..(n - m + 1) : SubSeq(s, m, n)[k] = s[m + k - 1]
OBVIOUS

LEMMA AppendIs ==
  ASSUME NEW S, NEW s \in Seq(S), NEW x \in S
  PROVE  /\ Append(s, x) \in Seq(S) /\ Len(Append(s, x)) = Len(s) + 1
         /\ Append(s, x)[Len(s) + 1] = x /\ \A k \in 1..Len(s) : Append(s, x)[k] = s[k]
OBVIOUS

LEMMA TailIs ==
  ASSUME NEW S, NEW s \in Seq(S), s # <<>>
  PROVE  /\ Tail(s) \in Seq(S) /\ Len(Tail(s)) = Len(s) - 1 /\ Head(s) = s[1]
         /\ \A k \in 1..(Len(s) - 1) : Tail(s)[k] = s[k + 1]
OBVIOUS

LEMMA SingleIs ==
  ASSUME NEW S, NEW x \in S
  PROVE  <<x>> \in Seq(S) /\ Len(<<x>>) = 1 /\ <<x>>[1] = x
OBVIOUS

-----------------------------------------------------------------------------
(* Arithmetic. *)

(* The remainder of a division is unique. *)
LEMMA RemainderBounds ==
  ASSUME NEW n \in Nat \ {0}, NEW x \in Int
  PROVE  x % n \in 0..(n - 1) /\ x = n * (x \div n) + (x % n) /\ x \div n \in Int
OBVIOUS

LEMMA MultipleIsFar ==
  ASSUME NEW n \in Nat \ {0}, NEW q \in Int, NEW r \in Int, q # r
  PROVE  n * q - n * r >= n \/ n * r - n * q >= n
<1>1. CASE q > r
  <2>1. n * (q - r) >= n BY <1>1
  <2> QED BY <2>1
<1>2. CASE q < r
  <2>1. n * (r - q) >= n BY <1>2
  <2> QED BY <2>1
<1> QED BY <1>1, <1>2

LEMMA RemainderUnique ==
  ASSUME NEW n \in Nat \ {0}, NEW q \in Int, NEW r \in 0..(n - 1), NEW x \in Int, x = n * q + r
  PROVE  x % n = r
<1> DEFINE p == x \div n
           s == x % n
<1>1. s \in 0..(n - 1) /\ x = n * p + s /\ p \in Int BY RemainderBounds, Zenon
<1> HIDE DEF p, s
<1>2. n * q \in Int /\ n * p \in Int BY <1>1
<1>3. n * p - n * q = r - s BY <1>1, <1>2
<1>4. p = q BY <1>1, <1>2, <1>3, MultipleIsFar
<1> QED BY <1>1, <1>4 DEF s

LEMMA RemainderShifts ==
  ASSUME NEW n \in Nat \ {0}, NEW m \in Int, NEW x \in Int
  PROVE  (x + n * m) % n = x % n
<1> DEFINE p == x \div n
           s == x % n
<1>1. s \in 0..(n - 1) /\ x = n * p + s /\ p \in Int BY RemainderBounds, Zenon
<1> HIDE DEF p, s
<1>2. n * (p + m) = n * p + n * m BY <1>1
<1>3. x + n * m = n * (p + m) + s /\ x + n * m \in Int BY <1>1, <1>2
<1> DEFINE y == x + n * m
<1>4. y = n * (p + m) + s /\ y \in Int /\ p + m \in Int BY <1>1, <1>3
<1> HIDE DEF y
<1>5. y % n = s BY <1>1, <1>4, RemainderUnique
<1> QED BY <1>5, Zenon DEF s, y

LEMMA RemaindersDiffer ==
  ASSUME NEW n \in Nat \ {0}, NEW x \in Int, NEW y \in Int, x < y, y - x < n
  PROVE  x % n # y % n
<1> DEFINE p == x \div n
           q == y \div n
<1>1. /\ x = n * p + (x % n) /\ p \in Int /\ x % n \in 0..(n - 1)
      /\ y = n * q + (y % n) /\ q \in Int /\ y % n \in 0..(n - 1)
  BY RemainderBounds, Zenon
<1> HIDE DEF p, q
<1>2. ASSUME x % n = y % n PROVE FALSE
  <2>1. n * p \in Int /\ n * q \in Int BY <1>1
  <2>2. y - x = n * q - n * p BY <1>1, <1>2, <2>1
  <2>3. p # q BY <2>1, <2>2
  <2> QED BY <1>1, <2>1, <2>2, <2>3, MultipleIsFar
<1> QED BY <1>2, Zenon

-----------------------------------------------------------------------------
(* The counters. *)
Counter == 0..(Wrap - 1)

LEMMA Sizes ==
  /\ RingSize \in Nat \ {0} /\ Wrap \in Nat \ {0} /\ RingSize < Wrap
  /\ RxChunks \in Nat /\ RxChunks <= RingSize /\ ChunkCount \in Nat
  /\ ChunkCount - RxChunks \in 0..RingSize
BY XskAssumption

LEMMA CounterWraps ==
  /\ \A x \in Counter : x % Wrap = x
  /\ \A x \in Wrap..(2 * Wrap - 1) : x % Wrap = x - Wrap
  /\ \A x \in (-Wrap)..(-1) : x % Wrap = x + Wrap
<1>1. Wrap \in Nat \ {0} BY Sizes, Zenon
<1>2. ASSUME NEW x \in Counter PROVE x % Wrap = x
  <2>1. x = Wrap * 0 + x /\ x \in 0..(Wrap - 1) BY <1>1 DEF Counter
  <2> QED BY <1>1, <2>1, RemainderUnique
<1>3. ASSUME NEW x \in Wrap..(2 * Wrap - 1) PROVE x % Wrap = x - Wrap
  <2>1. x = Wrap * 1 + (x - Wrap) /\ x - Wrap \in 0..(Wrap - 1) /\ x \in Int BY <1>1
  <2> QED BY <1>1, <2>1, RemainderUnique
<1>4. ASSUME NEW x \in (-Wrap)..(-1) PROVE x % Wrap = x + Wrap
  <2>1. x = Wrap * (-1) + (x + Wrap) /\ x + Wrap \in 0..(Wrap - 1) /\ x \in Int BY <1>1
  <2> QED BY <1>1, <2>1, RemainderUnique
<1> QED BY <1>2, <1>3, <1>4, Zenon

LEMMA MinusIs ==
  ASSUME NEW a \in Counter, NEW b \in Counter
  PROVE  Minus(a, b) = (IF b <= a THEN a - b ELSE a - b + Wrap) /\ Minus(a, b) \in Counter
<1>1. Wrap \in Nat \ {0} BY Sizes, Zenon
<1>2. CASE b <= a
  <2>1. a - b \in Counter BY <1>1, <1>2 DEF Counter
  <2> QED BY <1>2, <2>1, CounterWraps, Zenon DEF Minus
<1>3. CASE ~(b <= a)
  <2>1. a - b \in (-Wrap)..(-1) /\ a - b + Wrap \in Counter BY <1>1, <1>3 DEF Counter
  <2> QED BY <1>3, <2>1, CounterWraps, Zenon DEF Minus
<1> QED BY <1>2, <1>3, Zenon

LEMMA PlusIs ==
  ASSUME NEW a \in Counter, NEW n \in Counter
  PROVE  /\ Plus(a, n) = (IF a + n < Wrap THEN a + n ELSE a + n - Wrap) /\ Plus(a, n) \in Counter
         /\ Minus(Plus(a, n), a) = n /\ Minus(a + n, a) = n
<1>1. Wrap \in Nat \ {0} BY Sizes, Zenon
<1>2. Plus(a, n) = (IF a + n < Wrap THEN a + n ELSE a + n - Wrap) /\ Plus(a, n) \in Counter
  <2>1. CASE a + n < Wrap
    <3>1. a + n \in Counter BY <1>1, <2>1 DEF Counter
    <3> QED BY <2>1, <3>1, CounterWraps, Zenon DEF Plus
  <2>2. CASE ~(a + n < Wrap)
    <3> DEFINE x == a + n
    <3>1. x \in Wrap..(2 * Wrap - 1) /\ x - Wrap \in Counter /\ ~(x < Wrap)
      BY <1>1, <2>2 DEF Counter
    <3>2. Plus(a, n) = x % Wrap BY Zenon DEF Plus
    <3> HIDE DEF x
    <3>3. Plus(a, n) = x - Wrap BY <3>1, <3>2, CounterWraps, Zenon
    <3>4. Plus(a, n) = (IF x < Wrap THEN x ELSE x - Wrap) /\ Plus(a, n) \in Counter
      BY <3>1, <3>3, Zenon
    <3> QED BY <1>1, <3>4 DEF x, Counter
  <2> QED BY <2>1, <2>2, Zenon
<1>3. Minus(Plus(a, n), a) = n
  <2>1. Minus(Plus(a, n), a) = IF a <= Plus(a, n) THEN Plus(a, n) - a ELSE Plus(a, n) - a + Wrap
    BY <1>2, MinusIs, Zenon
  <2> QED BY <1>1, <1>2, <2>1 DEF Counter
<1>4. Minus(a + n, a) = n
  <2>1. (a + n) - a = n BY <1>1 DEF Counter
  <2> QED BY <2>1, CounterWraps, Zenon DEF Minus
<1> QED BY <1>2, <1>3, <1>4, Zenon

(* Positions in a ring do not notice the wrap. *)
LEMMA PositionWraps ==
  ASSUME NEW x \in Int
  PROVE  (x - Wrap) % RingSize = x % RingSize /\ x % RingSize \in 0..(RingSize - 1)
<1> DEFINE m == Wrap \div RingSize
<1>1. RingSize \in Nat \ {0} /\ Wrap \in Nat BY Sizes, Zenon
<1>2. Wrap % RingSize = 0 BY XskAssumption, Zenon
<1>3. Wrap = RingSize * m + (Wrap % RingSize) /\ m \in Int BY <1>1, RemainderBounds
<1> HIDE DEF m
<1>4. RingSize * (-m) = -Wrap /\ -m \in Int BY <1>1, <1>2, <1>3
<1>5. (x + RingSize * (-m)) % RingSize = x % RingSize BY <1>1, <1>4, RemainderShifts, Zenon
<1>6. x + RingSize * (-m) = x - Wrap BY <1>1, <1>4, Zenon
<1>7. x % RingSize \in 0..(RingSize - 1) BY <1>1, RemainderBounds, Zenon
<1> QED BY <1>5, <1>6, <1>7, Zenon

(* Three indexes in line. *)
LEMMA InLine ==
  ASSUME NEW a \in Counter, NEW b \in Counter, NEW c \in Counter, Minus(b, a) + Minus(c, b) < Wrap
  PROVE  /\ Minus(c, a) = Minus(b, a) + Minus(c, b)
         /\ b = a + Minus(b, a) \/ b = a + Minus(b, a) - Wrap
<1>1. Wrap \in Nat \ {0} BY Sizes, Zenon
<1>2. /\ Minus(b, a) = (IF a <= b THEN b - a ELSE b - a + Wrap)
      /\ Minus(c, b) = (IF b <= c THEN c - b ELSE c - b + Wrap)
      /\ Minus(c, a) = (IF a <= c THEN c - a ELSE c - a + Wrap)
  BY MinusIs, Zenon
<1> QED BY <1>1, <1>2 DEF Counter

-----------------------------------------------------------------------------
(* The rings. *)
IsRing(r) ==
  /\ DOMAIN r = {"slot", "producer", "consumer"} /\ r.slot \in [0..(RingSize - 1) -> Int]
  /\ r.producer \in Counter /\ r.consumer \in Counter

(* A sequence that is two others one after the other. *)
LEMMA Joined ==
  ASSUME NEW s \in Seq(Int), NEW t \in Seq(Int), NEW u \in Seq(Int), Len(u) = Len(s) + Len(t),
         \A k \in 1..Len(s) : u[k] = s[k], \A k \in 1..Len(t) : u[Len(s) + k] = t[k]
  PROVE  u = s \o t
<1>1. /\ s \o t \in Seq(Int) /\ Len(s \o t) = Len(s) + Len(t)
      /\ \A k \in 1..Len(s) : (s \o t)[k] = s[k]
      /\ \A k \in 1..Len(t) : (s \o t)[Len(s) + k] = t[k]
  BY ConcatIs, SMTT(30)
<1>2. ASSUME NEW k \in 1..Len(u) PROVE u[k] = (s \o t)[k]
  <2>1. CASE k <= Len(s) BY <1>1, <2>1
  <2>2. CASE ~(k <= Len(s))
    <3>1. k - Len(s) \in 1..Len(t) /\ Len(s) + (k - Len(s)) = k BY <2>2
    <3> QED BY <1>1, <2>2, <3>1, Zenon
  <2> QED BY <2>1, <2>2, Zenon
<1> QED BY <1>1, <1>2, SameSeq, Zenon

(* What Slots reads. *)
LEMMA SlotsAre ==
  ASSUME NEW r, IsRing(r), NEW a \in Counter, NEW b, Minus(b, a) \in Counter
  PROVE  /\ Slots(r, a, b) \in Seq(Int) /\ Len(Slots(r, a, b)) = Minus(b, a)
         /\ \A k \in 1..Minus(b, a) : Slots(r, a, b)[k] = r.slot[(a + k - 1) % RingSize]
<1> DEFINE n == Minus(b, a)
           s == Slots(r, a, b)
<1>1. n \in Nat /\ a \in Nat BY Sizes DEF Counter
<1>2. s = [k \in 1..n |-> r.slot[(a + k - 1) % RingSize]] BY Zenon DEF Slots
<1> HIDE DEF n, s
<1>3. \A k \in 1..n : r.slot[(a + k - 1) % RingSize] \in Int
  <2>1. \A k \in 1..n : a + k - 1 \in Int BY <1>1
  <2>2. \A k \in 1..n : (a + k - 1) % RingSize \in 0..(RingSize - 1) BY <2>1, PositionWraps, Zenon
  <2> QED BY <2>2, Zenon DEF IsRing
<1>4. s \in [1..n -> Int] BY <1>2, <1>3, Zenon
<1>5. s \in Seq(Int) /\ Len(s) = n BY <1>1, <1>4, FunctionIsSeq, Zenon
<1> QED BY <1>2, <1>5, Zenon DEF n, s

LEMMA SlotAt ==
  ASSUME NEW r, IsRing(r), NEW a \in Counter, NEW b, Minus(b, a) \in Counter,
         NEW k \in 1..Minus(b, a)
  PROVE  Slots(r, a, b)[k] = r.slot[(a + k - 1) % RingSize]
BY SlotsAre

LEMMA SameSlots ==
  ASSUME NEW r, NEW r2, r2.slot = r.slot, NEW a, NEW b
  PROVE  Slots(r2, a, b) = Slots(r, a, b)
BY Zenon DEF Slots

LEMMA SlotsSplit ==
  ASSUME NEW r, IsRing(r), NEW a \in Counter, NEW b \in Counter, NEW c \in Counter,
         Minus(b, a) + Minus(c, b) < Wrap
  PROVE  /\ Slots(r, a, c) = Slots(r, a, b) \o Slots(r, b, c)
         /\ Minus(c, a) = Minus(b, a) + Minus(c, b)
<1> DEFINE s == Slots(r, a, b)
           t == Slots(r, b, c)
           u == Slots(r, a, c)
           n == Minus(b, a)
           m == Minus(c, b)
<1>0. n \in Counter /\ m \in Counter /\ Minus(c, a) \in Counter BY MinusIs, Zenon
<1>1. Minus(c, a) = n + m /\ (b = a + n \/ b = a + n - Wrap) BY InLine, Zenon
<1>2. s \in Seq(Int) /\ Len(s) = n /\ \A k \in 1..n : s[k] = r.slot[(a + k - 1) % RingSize]
  BY <1>0, SlotsAre
<1>3. t \in Seq(Int) /\ Len(t) = m /\ \A k \in 1..m : t[k] = r.slot[(b + k - 1) % RingSize]
  BY <1>0, SlotsAre
<1>4. /\ u \in Seq(Int) /\ Len(u) = n + m
      /\ \A k \in 1..(n + m) : u[k] = r.slot[(a + k - 1) % RingSize]
  BY <1>0, <1>1, SlotsAre
<1> HIDE DEF s, t, u, n, m
<1>5. n \in Nat /\ m \in Nat /\ a \in Nat /\ Wrap \in Nat BY <1>0, Sizes DEF Counter
<1>6. ASSUME NEW k \in 1..m PROVE u[n + k] = t[k]
  <2>1. n + k \in 1..(n + m) BY <1>5
  <2>2. (a + (n + k) - 1) % RingSize = (b + k - 1) % RingSize
    <3> DEFINE x == a + (n + k) - 1
    <3>1. x \in Int /\ (b + k - 1 = x \/ b + k - 1 = x - Wrap) BY <1>1, <1>5
    <3>2. (x - Wrap) % RingSize = x % RingSize BY <3>1, PositionWraps, Zenon
    <3> QED BY <3>1, <3>2, Zenon
  <2> QED BY <1>3, <1>4, <2>1, <2>2, Zenon
<1>7. ASSUME NEW k \in 1..n PROVE u[k] = s[k]
  <2>1. k \in 1..(n + m) BY <1>5
  <2> QED BY <1>2, <1>4, <2>1, Zenon
<1>8. u = s \o t BY <1>2, <1>3, <1>4, <1>6, <1>7, Joined, Zenon
<1> QED BY <1>1, <1>8, Zenon DEF s, t, u, n, m

LEMMA NoSlots ==
  ASSUME NEW r, IsRing(r), NEW a \in Counter
  PROVE  Slots(r, a, a) = <<>>
<1>1. Minus(a, a) = 0 /\ Minus(a, a) \in Counter BY MinusIs, Sizes DEF Counter
<1>2. Slots(r, a, a) \in Seq(Int) /\ Len(Slots(r, a, a)) = 0 BY <1>1, SlotsAre, Zenon
<1> QED BY <1>2, SeqHas, Zenon

(* Put writes a sequence after index b, and touches nothing between a and  *)
(* b as long as the ring has room for both.                                *)
Written(r, r2, b, cs) ==
  /\ IsRing(r2) /\ r2.producer = r.producer /\ r2.consumer = r.consumer
  /\ Slots(r2, b, Plus(b, Len(cs))) = cs
  /\ \A a \in Counter : Minus(b, a) + Len(cs) <= RingSize => Slots(r2, a, b) = Slots(r, a, b)

LEMMA PutWrites ==
  ASSUME NEW r, IsRing(r), NEW b \in Counter, NEW cs \in Seq(Int), Len(cs) <= RingSize,
         NEW r2, r2 = Put(r, b, cs)
  PROVE  Written(r, r2, b, cs)
<1> DEFINE At(k) == (b + k - 1) % RingSize
           n == Len(cs)
           new == [i \in DOMAIN r.slot |->
                     IF \E k \in 1..n : At(k) = i
                     THEN cs[CHOOSE k \in 1..n : At(k) = i] ELSE r.slot[i]]
<1>1. RingSize \in Nat \ {0} /\ Wrap \in Nat /\ RingSize < Wrap /\ b \in Nat /\ n \in Nat
  BY Sizes DEF Counter
<1>2. r2 = [r EXCEPT !.slot = new] BY Zenon DEF Put
<1>3. DOMAIN r.slot = 0..(RingSize - 1) /\ r.slot \in [0..(RingSize - 1) -> Int] BY Zenon DEF IsRing
<1>4. \A k \in 1..n : At(k) \in 0..(RingSize - 1)
  <2>1. \A k \in 1..n : b + k - 1 \in Int BY <1>1
  <2> QED BY <2>1, PositionWraps, Zenon
<1>5. \A j, k \in 1..n : At(j) = At(k) => j = k
  <2>1. ASSUME NEW j \in 1..n, NEW k \in 1..n, j < k PROVE At(j) # At(k)
    <3>1. /\ b + j - 1 \in Int /\ b + k - 1 \in Int /\ b + j - 1 < b + k - 1
          /\ (b + k - 1) - (b + j - 1) < RingSize
      BY <1>1, <2>1
    <3> QED BY <1>1, <3>1, RemaindersDiffer, Zenon
  <2> QED BY <1>1, <2>1
<1>6. \A k \in 1..n : (CHOOSE j \in 1..n : At(j) = At(k)) = k BY <1>5, Zenon
<1>7. \A k \in 1..n : new[At(k)] = cs[k]
  BY <1>3, <1>4, <1>6, Zenon
<1>8. \A i \in 0..(RingSize - 1) : (\A k \in 1..n : At(k) # i) => new[i] = r.slot[i]
  BY <1>3, Zenon
<1>9. new \in [0..(RingSize - 1) -> Int]
  <2>1. \A k \in 1..n : cs[k] \in Int BY <1>1
  <2>2. ASSUME NEW i \in 0..(RingSize - 1) PROVE new[i] \in Int
    <3>1. CASE \E k \in 1..n : At(k) = i BY <1>7, <2>1, <3>1, Zenon
    <3>2. CASE \A k \in 1..n : At(k) # i BY <1>3, <1>8, <3>2, Zenon
    <3> QED BY <3>1, <3>2, Zenon
  <2>3. DOMAIN new = 0..(RingSize - 1) BY <1>3, Zenon
  <2>4. new = [i \in 0..(RingSize - 1) |-> new[i]] BY <2>3, Zenon
  <2> HIDE DEF new
  <2> QED BY <2>2, <2>4, Zenon
<1> HIDE DEF new
<1>10. /\ IsRing(r2) /\ r2.producer = r.producer /\ r2.consumer = r.consumer /\ r2.slot = new
  BY <1>2, <1>9, Zenon DEF IsRing
<1>11. Slots(r2, b, Plus(b, n)) = cs
  <2> DEFINE s == Slots(r2, b, Plus(b, n))
  <2>1. n \in Counter BY <1>1 DEF Counter
  <2>2. Minus(Plus(b, n), b) = n BY <2>1, PlusIs, Zenon
  <2>3. /\ s \in Seq(Int) /\ Len(s) = n
        /\ \A k \in 1..n : s[k] = r2.slot[(b + k - 1) % RingSize]
    BY <1>10, <2>1, <2>2, SlotsAre
  <2> HIDE DEF s
  <2>4. \A k \in 1..n : s[k] = cs[k] BY <1>7, <1>10, <2>3, Zenon
  <2>5. s = cs BY <2>3, <2>4, SameSeq, Zenon
  <2> QED BY <2>5, Zenon DEF s
<1>12. ASSUME NEW a \in Counter, Minus(b, a) + n <= RingSize
       PROVE  Slots(r2, a, b) = Slots(r, a, b)
  <2> DEFINE m == Minus(b, a)
             s == Slots(r2, a, b)
             t == Slots(r, a, b)
  <2>0. m \in Counter BY MinusIs, Zenon
  <2>1. s \in Seq(Int) /\ Len(s) = m /\ \A k \in 1..m : s[k] = r2.slot[(a + k - 1) % RingSize]
    BY <1>10, <2>0, SlotsAre
  <2>2. t \in Seq(Int) /\ Len(t) = m /\ \A k \in 1..m : t[k] = r.slot[(a + k - 1) % RingSize]
    BY <2>0, SlotsAre
  <2>3. b = a + m \/ b = a + m - Wrap
    <3>1. m = (IF a <= b THEN b - a ELSE b - a + Wrap) BY MinusIs, Zenon
    <3> QED BY <1>1, <3>1 DEF Counter
  <2>4. m + n <= RingSize BY <1>12, Zenon
  <2> HIDE DEF m, s, t
  <2>5. m \in Nat /\ a \in Nat BY <1>1, <2>0 DEF Counter
  <2>6. ASSUME NEW k \in 1..m PROVE s[k] = t[k]
    <3> DEFINE x == a + k - 1
    <3>0. x \in Int BY <2>5
    <3>1. x \in Int /\ x % RingSize \in 0..(RingSize - 1) BY <3>0, PositionWraps, Zenon
    <3>2. ASSUME NEW j \in 1..n PROVE At(j) # x % RingSize
      <4> DEFINE y == a + m + j - 1
      <4>1. y \in Int /\ x < y /\ y - x < RingSize BY <1>1, <2>4, <2>5
      <4>2. x % RingSize # y % RingSize BY <1>1, <3>1, <4>1, RemaindersDiffer, Zenon
      <4>3. b + j - 1 = y \/ b + j - 1 = y - Wrap BY <1>1, <2>3, <2>5
      <4>4. (y - Wrap) % RingSize = y % RingSize BY <4>1, PositionWraps, Zenon
      <4>5. At(j) = y % RingSize BY <4>3, <4>4, Zenon
      <4> QED BY <4>2, <4>5, Zenon
    <3>3. new[x % RingSize] = r.slot[x % RingSize] BY <1>8, <3>1, <3>2, Zenon
    <3> QED BY <1>10, <2>1, <2>2, <3>3, Zenon
  <2>7. s = t BY <2>1, <2>2, <2>6, SameSeq, Zenon
  <2> QED BY <2>7, Zenon DEF s, t
<1> QED BY <1>10, <1>11, <1>12, Zenon DEF Written

-----------------------------------------------------------------------------
(* The queues between the indexes.                                         *)

(* A sequence cut after its first n elements. *)
LEMMA CutAt ==
  ASSUME NEW s \in Seq(Int), NEW t \in Seq(Int), NEW u, u = s \o t
  PROVE  SubSeq(u, 1, Len(s)) = s /\ SubSeq(u, Len(s) + 1, Len(u)) = t
<1> DEFINE n == Len(s)
           m == Len(t)
           v == SubSeq(u, 1, n)
           w == SubSeq(u, n + 1, Len(u))
<1>1. n \in Nat /\ m \in Nat BY SeqHas, Zenon
<1>2. /\ u \in Seq(Int) /\ Len(u) = n + m
      /\ \A k \in 1..n : u[k] = s[k]
      /\ \A k \in 1..m : u[n + k] = t[k]
  BY ConcatIs
<1>3. v \in Seq(Int) /\ Len(v) = n /\ \A k \in 1..n : v[k] = u[k]
  <2>1. 1 \in 1..(Len(u) + 1) /\ n \in 0..Len(u) /\ 1 <= n + 1 BY <1>1, <1>2
  <2>2. /\ v \in Seq(Int) /\ Len(v) = n - 1 + 1
        /\ \A k \in 1..(n - 1 + 1) : v[k] = u[1 + k - 1]
    BY <1>2, <2>1, SubSeqIs
  <2> HIDE DEF v
  <2> QED BY <1>1, <2>2
<1>4. w \in Seq(Int) /\ Len(w) = m /\ \A k \in 1..m : w[k] = u[n + k]
  <2> DEFINE i == n + 1
             j == Len(u)
  <2>1. i \in 1..(Len(u) + 1) /\ j \in 0..Len(u) /\ i <= j + 1 BY <1>1, <1>2
  <2>2. w = SubSeq(u, i, j) BY Zenon
  <2> HIDE DEF i, j, w
  <2>3. /\ w \in Seq(Int) /\ Len(w) = j - i + 1
        /\ \A k \in 1..(j - i + 1) : w[k] = u[i + k - 1]
    BY <1>2, <2>1, <2>2, SubSeqIs
  <2>4. j - i + 1 = m /\ \A k \in 1..m : i + k - 1 = n + k BY <1>1, <1>2 DEF i, j
  <2> QED BY <2>3, <2>4, Zenon
<1> HIDE DEF v, w, n, m
<1>5. v = s
  <2>1. \A k \in 1..n : v[k] = s[k] BY <1>2, <1>3, Zenon
  <2> QED BY <1>3, <2>1, SameSeq, Zenon DEF n
<1>6. w = t
  <2>1. \A k \in 1..m : w[k] = t[k] BY <1>2, <1>4, Zenon
  <2> QED BY <1>4, <2>1, SameSeq, Zenon DEF m
<1> QED BY <1>5, <1>6, Zenon DEF v, w, n

(* n elements are taken from the queue between a and b. *)
Taken(r, a, b, n) ==
  LET s == Slots(r, a, b)
      p == Plus(a, n)
  IN  /\ p \in Counter /\ Minus(b, p) = Minus(b, a) - n
      /\ Slots(r, a, a + n) = SubSeq(s, 1, n) /\ Slots(r, p, b) = SubSeq(s, n + 1, Len(s))
      /\ SubSeq(s, 1, n) \in Seq(Int) /\ Len(SubSeq(s, 1, n)) = n
      /\ s \in Seq(Int) /\ Len(s) = Minus(b, a)

LEMMA TakeSlots ==
  ASSUME NEW r, IsRing(r), NEW a \in Counter, NEW b \in Counter, NEW n \in 0..Minus(b, a)
  PROVE  Taken(r, a, b, n)
<1> DEFINE p == Plus(a, n)
           s == Slots(r, a, b)
           u == Slots(r, a, p)
           v == Slots(r, p, b)
<1>1. Minus(b, a) = (IF a <= b THEN b - a ELSE b - a + Wrap) /\ Minus(b, a) \in Counter
  BY MinusIs, Zenon
<1>2. Wrap \in Nat \ {0} BY Sizes, Zenon
<1>3. n \in Counter /\ n <= Minus(b, a) BY <1>1, <1>2 DEF Counter
<1>4. /\ p = (IF a + n < Wrap THEN a + n ELSE a + n - Wrap) /\ p \in Counter
      /\ Minus(p, a) = n /\ Minus(a + n, a) = n
  BY <1>3, PlusIs, Zenon
<1> HIDE DEF p
<1>5. Minus(b, p) = (IF p <= b THEN b - p ELSE b - p + Wrap) /\ Minus(b, p) \in Counter
  BY <1>4, MinusIs, Zenon
<1>6. Minus(b, p) = Minus(b, a) - n BY <1>1, <1>2, <1>3, <1>4, <1>5 DEF Counter
<1>7. Minus(p, a) + Minus(b, p) < Wrap BY <1>1, <1>2, <1>3, <1>4, <1>6 DEF Counter
<1>8. s = u \o v
  <2>1. p \in Counter BY <1>4, Zenon
  <2> QED BY <1>7, <2>1, SlotsSplit, Zenon
<1>9. Slots(r, a, a + n) = u BY <1>4, Zenon DEF Slots
<1>10. u \in Seq(Int) /\ Len(u) = n BY <1>3, <1>4, SlotsAre, Zenon
<1>11. v \in Seq(Int) BY <1>4, <1>5, SlotsAre, Zenon
<1>12. s \in Seq(Int) /\ Len(s) = Minus(b, a) BY <1>1, SlotsAre, Zenon
<1> HIDE DEF s, u, v
<1>13. SubSeq(s, 1, n) = u /\ SubSeq(s, n + 1, Len(s)) = v BY <1>8, <1>10, <1>11, CutAt
<1> QED BY <1>4, <1>6, <1>9, <1>10, <1>12, <1>13, Zenon DEF Taken, p, s, u, v

(* cs is written behind the queue from a to b, in a ring in which another  *)
(* queue, from c to a, is before it.                                       *)
Added(r, r2, c, a, b, cs) ==
  LET p == Plus(b, Len(cs))
  IN  /\ IsRing(r2) /\ r2.producer = r.producer /\ r2.consumer = r.consumer
      /\ p \in Counter /\ Minus(p, a) = Minus(b, a) + Len(cs)
      /\ Slots(r2, a, p) = Slots(r, a, b) \o cs /\ Slots(r2, c, a) = Slots(r, c, a)

LEMMA AddSlots ==
  ASSUME NEW r, IsRing(r), NEW c \in Counter, NEW a \in Counter, NEW b \in Counter,
         NEW cs \in Seq(Int), Minus(a, c) + Minus(b, a) + Len(cs) <= RingSize,
         NEW r2, r2 = Put(r, b, cs)
  PROVE  Added(r, r2, c, a, b, cs)
<1> DEFINE n == Len(cs)
           p == Plus(b, n)
<1>1. RingSize \in Nat \ {0} /\ Wrap \in Nat \ {0} /\ RingSize < Wrap BY Sizes, Zenon
<1>2. Minus(a, c) \in Counter /\ Minus(b, a) \in Counter /\ n \in Nat BY MinusIs
<1> HIDE DEF n
<1>3. /\ n <= RingSize /\ Minus(b, a) + n <= RingSize /\ Minus(a, c) + Minus(b, a) < Wrap
      /\ n \in Counter /\ Minus(b, a) + n < Wrap
  BY <1>1, <1>2 DEF Counter, n
<1>4. Written(r, r2, b, cs) BY <1>3, PutWrites, Zenon DEF n
<1>5. p \in Counter /\ Minus(p, b) = n BY <1>3, PlusIs, Zenon
<1>6. Minus(b, c) = Minus(a, c) + Minus(b, a) BY <1>3, InLine
<1>7. /\ IsRing(r2) /\ r2.producer = r.producer /\ r2.consumer = r.consumer
      /\ Slots(r2, b, p) = cs /\ Slots(r2, a, b) = Slots(r, a, b)
      /\ Slots(r2, c, b) = Slots(r, c, b)
  BY <1>3, <1>4, <1>6, Zenon DEF Written, n
<1> HIDE DEF p
<1>8. Slots(r2, a, p) = Slots(r2, a, b) \o Slots(r2, b, p) /\ Minus(p, a) = Minus(b, a) + n
  <2>1. Minus(b, a) + Minus(p, b) < Wrap BY <1>3, <1>5, Zenon
  <2>2. p \in Counter /\ IsRing(r2) BY <1>5, <1>7, Zenon
  <2>3. /\ Slots(r2, a, p) = Slots(r2, a, b) \o Slots(r2, b, p)
        /\ Minus(p, a) = Minus(b, a) + Minus(p, b)
    BY <2>1, <2>2, SlotsSplit, ZenonT(30)
  <2> QED BY <1>5, <2>3, Zenon
<1>9. Slots(r2, c, a) = Slots(r, c, a)
  <2> DEFINE s == Slots(r, c, a)
             t == Slots(r2, c, a)
             u == Slots(r, a, b)
  <2>1. Slots(r, c, b) = s \o u /\ Slots(r2, c, b) = t \o Slots(r2, a, b)
    <3>1. Minus(a, c) + Minus(b, a) < Wrap /\ IsRing(r2) BY <1>3, <1>7, Zenon
    <3>2. Slots(r, c, b) = s \o u BY <3>1, SlotsSplit, Zenon
    <3>3. Slots(r2, c, b) = t \o Slots(r2, a, b) BY <3>1, SlotsSplit, Zenon
    <3> QED BY <3>2, <3>3, Zenon
  <2>2. s \in Seq(Int) /\ t \in Seq(Int) /\ u \in Seq(Int) BY <1>2, <1>7, SlotsAre, Zenon
  <2>3. s \o u = t \o u BY <1>7, <2>1, Zenon
  <2> HIDE DEF s, t, u
  <2>4. Len(s) = Len(t)
    <3>1. Len(s) = Minus(a, c) /\ Len(t) = Minus(a, c) BY <1>2, <1>7, SlotsAre, Zenon DEF s, t
    <3> QED BY <3>1, Zenon
  <2>5. SubSeq(s \o u, 1, Len(s)) = s /\ SubSeq(t \o u, 1, Len(t)) = t BY <2>2, CutAt, Zenon
  <2>6. s = t BY <2>3, <2>4, <2>5, Zenon
  <2> QED BY <2>6, Zenon DEF s, t
<1> QED BY <1>5, <1>7, <1>8, <1>9, Zenon DEF Added, p, n

-----------------------------------------------------------------------------
(* The inductive invariant: the chunks for receiving in their three queues *)
(* are as many as were given to the socket, those for sending in their     *)
(* five places no more, and so every queue fits its ring.                  *)
RxIs(f, r, c, p) ==
  /\ IsRing(f) /\ IsRing(r) /\ c \in Counter /\ p \in Counter
  /\ Minus(f.producer, f.consumer) + Minus(p, f.producer) + Minus(r.producer, c) = RxChunks

TxIs(t, d, p, c, free, out) ==
  /\ IsRing(t) /\ IsRing(d) /\ p \in Counter /\ c \in Counter
  /\ free \in Seq(Int) /\ out \in Seq(Int)
  /\ Len(free) + Minus(p, t.producer) + Minus(t.producer, t.consumer) + Len(out)
       + Minus(d.producer, c) <= ChunkCount - RxChunks

RxInv == RxIs(fill, rx, rx_consumer, fill_producer)
TxInv == TxIs(tx, completion, tx_producer, completion_consumer, free_tx, flight)
BatchInv == batch \in Nat /\ (pc = "queue" => batch \in 1..Len(free_tx))

RingsInv == RxInv /\ TxInv /\ BatchInv

(* The queues as functions of the rings. *)
Filled(f) == Slots(f, f.consumer, f.producer)
Held(r, c) == Slots(r, c, r.producer)
Pending(f, p) == Slots(f, f.producer, p)

LEMMA RxCounts ==
  ASSUME NEW f, NEW r, NEW c, NEW p, RxIs(f, r, c, p)
  PROVE  /\ Minus(f.producer, f.consumer) \in Nat /\ Minus(p, f.producer) \in Nat
         /\ Minus(r.producer, c) \in Nat
         /\ Minus(f.producer, f.consumer) + Minus(p, f.producer) + Minus(r.producer, c) <= RingSize
         /\ RingSize \in Nat \ {0} /\ Wrap \in Nat \ {0} /\ RingSize < Wrap
<1>1. /\ Minus(f.producer, f.consumer) \in Counter /\ Minus(p, f.producer) \in Counter
      /\ Minus(r.producer, c) \in Counter
  BY MinusIs, Zenon DEF RxIs, IsRing
<1> QED BY <1>1, Sizes DEF Counter, RxIs

LEMMA ConsumeRings ==
  ASSUME NEW f, NEW r, NEW c, NEW p, RxIs(f, r, c, p), NEW n \in 0..Minus(r.producer, c),
         NEW f2, f2 = Put(f, p, Slots(r, c, c + n))
  PROVE  /\ RxIs(f2, r, Plus(c, n), Plus(p, n)) /\ Filled(f2) = Filled(f)
         /\ Pending(f2, Plus(p, n)) = Pending(f, p) \o SubSeq(Held(r, c), 1, n)
         /\ Held(r, Plus(c, n)) = SubSeq(Held(r, c), n + 1, Len(Held(r, c)))
         /\ Len(Held(r, c)) = Minus(r.producer, c)
<1> DEFINE cs == Slots(r, c, c + n)
<1>1. /\ IsRing(f) /\ IsRing(r) /\ c \in Counter /\ p \in Counter
      /\ f.producer \in Counter /\ f.consumer \in Counter /\ r.producer \in Counter
  BY Zenon DEF RxIs, IsRing
<1>2. Taken(r, c, r.producer, n) BY <1>1, TakeSlots, Zenon
<1>3. /\ cs = SubSeq(Held(r, c), 1, n) /\ cs \in Seq(Int) /\ Len(cs) = n
      /\ Plus(c, n) \in Counter /\ Minus(r.producer, Plus(c, n)) = Minus(r.producer, c) - n
      /\ Held(r, Plus(c, n)) = SubSeq(Held(r, c), n + 1, Len(Held(r, c)))
      /\ Len(Held(r, c)) = Minus(r.producer, c)
  BY <1>2, Zenon DEF Taken, Held
<1>4. f2 = Put(f, p, cs) BY Zenon
<1> HIDE DEF cs
<1>5. Minus(f.producer, f.consumer) + Minus(p, f.producer) + Len(cs) <= RingSize
  BY <1>3, RxCounts
<1>6. Added(f, f2, f.consumer, f.producer, p, cs) BY <1>1, <1>3, <1>4, <1>5, AddSlots, Zenon
<1>7. /\ IsRing(f2) /\ f2.producer = f.producer /\ f2.consumer = f.consumer
      /\ Plus(p, n) \in Counter /\ Minus(Plus(p, n), f.producer) = Minus(p, f.producer) + n
      /\ Pending(f2, Plus(p, n)) = Pending(f, p) \o cs /\ Filled(f2) = Filled(f)
  BY <1>3, <1>6, Zenon DEF Added, Pending, Filled
<1>8. RxIs(f2, r, Plus(c, n), Plus(p, n))
  <2>1. Minus(f.producer, f.consumer) + Minus(p, f.producer) + Minus(r.producer, c) = RxChunks
    BY Zenon DEF RxIs
  <2>2. Minus(f2.producer, f2.consumer) + Minus(Plus(p, n), f2.producer)
          + Minus(r.producer, Plus(c, n)) = RxChunks
    BY <1>3, <1>7, <2>1, RxCounts
  <2> QED BY <1>1, <1>3, <1>7, <2>2, Zenon DEF RxIs
<1> QED BY <1>3, <1>7, <1>8, Zenon

(* The queue of what is written but not published joins the published one. *)
Published(r, r2, p) ==
  /\ IsRing(r2) /\ Filled(r2) = Filled(r) \o Pending(r, p) /\ Pending(r2, p) = <<>>
  /\ Minus(p, r2.producer) = 0
  /\ Minus(r2.producer, r2.consumer) = Minus(r.producer, r.consumer) + Minus(p, r.producer)

LEMMA PublishSlots ==
  ASSUME NEW r, IsRing(r), NEW p \in Counter, NEW r2, r2 = [r EXCEPT !.producer = p],
         Minus(r.producer, r.consumer) + Minus(p, r.producer) < Wrap
  PROVE  Published(r, r2, p)
<1> DEFINE a == r.consumer
           b == r.producer
<1>1. a \in Counter /\ b \in Counter /\ Minus(b, a) + Minus(p, b) < Wrap BY Zenon DEF IsRing
<1>2. IsRing(r2) /\ r2.producer = p /\ r2.consumer = a /\ r2.slot = r.slot BY Zenon DEF IsRing
<1> HIDE DEF a, b
<1>3. Slots(r, a, p) = Slots(r, a, b) \o Slots(r, b, p) /\ Minus(p, a) = Minus(b, a) + Minus(p, b)
  BY <1>1, SlotsSplit, Zenon
<1>4. Slots(r2, a, p) = Slots(r, a, p) BY <1>2 DEF Slots
<1>5. Filled(r2) = Filled(r) \o Pending(r, p) BY <1>2, <1>3, <1>4, Zenon DEF Filled, Pending, a, b
<1>6. Pending(r2, p) = <<>> BY <1>2, NoSlots, Zenon DEF Pending
<1>7. Minus(p, p) = 0 BY MinusIs, Sizes DEF Counter
<1> QED BY <1>2, <1>3, <1>5, <1>6, <1>7, Zenon DEF Published, a, b

LEMMA ReturnRings ==
  ASSUME NEW f, NEW r, NEW c, NEW p, RxIs(f, r, c, p), NEW f2, f2 = [f EXCEPT !.producer = p]
  PROVE  /\ RxIs(f2, r, c, p) /\ Filled(f2) = Filled(f) \o Pending(f, p) /\ Pending(f2, p) = <<>>
<1>1. IsRing(f) /\ p \in Counter BY Zenon DEF RxIs
<1>2. Minus(f.producer, f.consumer) + Minus(p, f.producer) < Wrap BY RxCounts
<1>3. Published(f, f2, p) BY <1>1, <1>2, PublishSlots, Zenon
<1>4. RxIs(f2, r, c, p)
  <2>1. Minus(f.producer, f.consumer) + Minus(p, f.producer) + Minus(r.producer, c) = RxChunks
    BY Zenon DEF RxIs
  <2>2. Minus(f2.producer, f2.consumer) + Minus(p, f2.producer) + Minus(r.producer, c) = RxChunks
    BY <1>3, <2>1, RxCounts DEF Published
  <2> QED BY <1>3, <2>2, Zenon DEF RxIs, Published
<1> QED BY <1>3, <1>4, Zenon DEF Published

LEMMA ReleaseRings ==
  ASSUME NEW f, NEW r, NEW c, NEW p, RxIs(f, r, c, p), NEW r2, r2 = [r EXCEPT !.consumer = c]
  PROVE  RxIs(f, r2, c, p) /\ Held(r2, c) = Held(r, c)
<1>1. IsRing(r2) /\ r2.producer = r.producer /\ r2.slot = r.slot BY Zenon DEF RxIs, IsRing
<1>2. Held(r2, c) = Held(r, c) BY <1>1 DEF Held, Slots
<1> QED BY <1>1, <1>2, Zenon DEF RxIs

(* What is at the head of a queue, and the queue behind it. *)
LEMMA HeadOfSlots ==
  ASSUME NEW r, IsRing(r), NEW a \in Counter, NEW b \in Counter, a # b
  PROVE  LET s == Slots(r, a, b)
         IN  /\ s # <<>> /\ Head(s) \in Int /\ Slots(r, a, a + 1) = <<Head(s)>>
             /\ Head(s) = r.slot[a % RingSize]
             /\ Plus(a, 1) \in Counter /\ Slots(r, Plus(a, 1), b) = Tail(s)
             /\ Minus(b, Plus(a, 1)) = Minus(b, a) - 1 /\ Minus(b, a) >= 1
<1> DEFINE s == Slots(r, a, b)
<1>1. Minus(b, a) \in Counter /\ Minus(b, a) >= 1 /\ Minus(b, a) \in Nat /\ a \in Nat
  <2>1. Minus(b, a) = (IF a <= b THEN b - a ELSE b - a + Wrap) /\ Minus(b, a) \in Counter
    BY MinusIs, Zenon
  <2> QED BY <2>1, Sizes DEF Counter
<1>2. Taken(r, a, b, 1)
  <2>1. 1 \in 0..Minus(b, a) BY <1>1
  <2> QED BY <2>1, TakeSlots, Zenon
<1>3. /\ Plus(a, 1) \in Counter /\ Minus(b, Plus(a, 1)) = Minus(b, a) - 1
      /\ Slots(r, a, a + 1) = SubSeq(s, 1, 1) /\ Slots(r, Plus(a, 1), b) = SubSeq(s, 2, Len(s))
      /\ s \in Seq(Int) /\ Len(s) = Minus(b, a)
  BY <1>2 DEF Taken
<1>4. s[1] = r.slot[a % RingSize]
  <2>1. 1 \in 1..Minus(b, a) /\ a + 1 - 1 = a BY <1>1
  <2>2. s[1] = r.slot[(a + 1 - 1) % RingSize] BY <1>1, <2>1, SlotAt
  <2> QED BY <2>1, <2>2, Zenon
<1> HIDE DEF s
<1>5. s # <<>> /\ Head(s) = s[1] /\ Head(s) \in Int /\ Tail(s) = SubSeq(s, 2, Len(s))
  <2> DEFINE n == Len(s)
             t == SubSeq(s, 2, n)
  <2>1. s # <<>> /\ n \in Nat /\ n >= 1 /\ s[1] \in Int
    <3>1. 1 \in 1..Len(s) BY <1>1, <1>3
    <3> QED BY <1>1, <1>3, <3>1, SeqHas
  <2>2. /\ Tail(s) \in Seq(Int) /\ Len(Tail(s)) = n - 1 /\ Head(s) = s[1]
        /\ \A k \in 1..(n - 1) : Tail(s)[k] = s[k + 1]
    BY <1>3, <2>1, TailIs, Zenon
  <2>3. t \in Seq(Int) /\ Len(t) = n - 2 + 1 /\ \A k \in 1..(n - 2 + 1) : t[k] = s[2 + k - 1]
    <3>1. 2 \in 1..(n + 1) /\ n \in 0..n /\ 2 <= n + 1 BY <2>1
    <3> QED BY <1>3, <3>1, SubSeqIs, Zenon
  <2> HIDE DEF t, n
  <2>4. Len(t) = Len(Tail(s)) /\ \A k \in 1..Len(t) : t[k] = Tail(s)[k]
    <3>1. n - 2 + 1 = n - 1 /\ \A k \in 1..(n - 1) : 2 + k - 1 = k + 1 BY <2>1
    <3> QED BY <2>2, <2>3, <3>1
  <2>5. t = Tail(s) BY <2>2, <2>3, <2>4, SameSeq, Zenon
  <2> QED BY <2>1, <2>2, <2>5, Zenon DEF t, n
<1>6. SubSeq(s, 1, 1) = <<Head(s)>>
  <2> DEFINE x == Head(s)
             t == SubSeq(s, 1, 1)
  <2>1. <<x>> \in Seq(Int) /\ Len(<<x>>) = 1 /\ <<x>>[1] = x BY <1>5, SingleIs, Zenon
  <2>2. t \in Seq(Int) /\ Len(t) = 1 - 1 + 1 /\ \A k \in 1..(1 - 1 + 1) : t[k] = s[1 + k - 1]
    <3>1. 1 \in 1..(Len(s) + 1) /\ 1 \in 0..Len(s) /\ 1 <= 1 + 1 BY <1>1, <1>3
    <3> QED BY <1>3, <3>1, SubSeqIs, Zenon
  <2> HIDE DEF x, t
  <2>3. Len(t) = 1 /\ t[1] = x BY <1>5, <2>2 DEF x
  <2>4. \A k \in 1..Len(t) : t[k] = <<x>>[k] BY <2>1, <2>3
  <2>5. t = <<x>> BY <2>1, <2>2, <2>3, <2>4, SameSeq, Zenon
  <2> QED BY <2>5, Zenon DEF x, t
<1> QED BY <1>1, <1>3, <1>4, <1>5, <1>6, Zenon DEF s

LEMMA AppendIsConcat ==
  ASSUME NEW s \in Seq(Int), NEW x \in Int
  PROVE  Append(s, x) = s \o <<x>>
<1> DEFINE y == <<x>>
           t == Append(s, x)
           u == s \o y
<1>1. y \in Seq(Int) /\ Len(y) = 1 /\ y[1] = x BY SingleIs, Zenon
<1>2. /\ t \in Seq(Int) /\ Len(t) = Len(s) + 1 /\ t[Len(s) + 1] = x
      /\ \A k \in 1..Len(s) : t[k] = s[k]
  BY AppendIs
<1> HIDE DEF y, t
<1>3. t = s \o y
  <2>1. \A k \in 1..Len(y) : t[Len(s) + k] = y[k] BY <1>1, <1>2
  <2> QED BY <1>1, <1>2, <2>1, Joined, Zenon
<1> QED BY <1>3, Zenon DEF y, t

(* One chunk added to a queue. *)
AddedOne(r, r2, a, x) ==
  /\ IsRing(r2) /\ Minus(r2.producer, a) = Minus(r.producer, a) + 1
  /\ Held(r2, a) = Append(Held(r, a), x)

Produced(r, r2, x) == r2 = [Put(r, r.producer, <<x>>) EXCEPT !.producer = Plus(@, 1)]

LEMMA AddOne ==
  ASSUME NEW r, IsRing(r), NEW a \in Counter, NEW x \in Int, Minus(r.producer, a) < RingSize,
         NEW r2, Produced(r, r2, x)
  PROVE  AddedOne(r, r2, a, x)
<1> DEFINE b == r.producer
           cs == <<x>>
           r1 == Put(r, b, cs)
<1>1. b \in Counter /\ cs \in Seq(Int) /\ Len(cs) = 1 /\ Minus(b, a) \in Counter /\ Minus(a, a) = 0
  <2>1. b \in Counter BY Zenon DEF IsRing
  <2>2. Minus(b, a) \in Counter /\ Minus(a, a) = (IF a <= a THEN a - a ELSE a - a + Wrap)
    BY <2>1, MinusIs, Zenon
  <2>3. Minus(a, a) = 0 BY <2>2 DEF Counter
  <2> QED BY <2>1, <2>2, <2>3, SingleIs, Zenon
<1>2. r2 = [r1 EXCEPT !.producer = Plus(r1.producer, 1)] BY Zenon DEF Produced
<1>3. Minus(b, a) < RingSize BY Zenon
<1>4. r1 = Put(r, b, cs) BY Zenon
<1>5. b = r.producer BY Zenon
<1> HIDE DEF b, cs, r1
<1>6. Minus(a, a) + Minus(b, a) + Len(cs) <= RingSize BY <1>1, <1>3, Sizes DEF Counter
<1>7. Added(r, r1, a, a, b, cs) BY <1>1, <1>4, <1>6, AddSlots, Zenon
<1>8. /\ IsRing(r1) /\ r1.producer = b /\ Plus(b, 1) \in Counter
      /\ Minus(Plus(b, 1), a) = Minus(b, a) + 1 /\ Slots(r1, a, Plus(b, 1)) = Slots(r, a, b) \o cs
  BY <1>1, <1>5, <1>7, Zenon DEF Added
<1>9. IsRing(r2) /\ r2.producer = Plus(b, 1) /\ r2.slot = r1.slot BY <1>2, <1>8, Zenon DEF IsRing
<1>10. Slots(r2, a, Plus(b, 1)) = Slots(r, a, b) \o cs
  <2>1. Slots(r2, a, Plus(b, 1)) = Slots(r1, a, Plus(b, 1)) BY <1>9, SameSlots
  <2> QED BY <1>8, <2>1, Zenon
<1>11. Slots(r, a, b) \in Seq(Int) BY <1>1, SlotsAre, Zenon
<1>12. Append(Slots(r, a, b), x) = Slots(r, a, b) \o <<x>> BY <1>11, AppendIsConcat, Zenon
<1> QED BY <1>5, <1>8, <1>9, <1>10, <1>12, Zenon DEF AddedOne, Held, cs

Consumed(f, f2) == f2 = [f EXCEPT !.consumer = Plus(@, 1)]

Receives(f, f2, r, r2, c, p) ==
  /\ RxIs(f2, r2, c, p) /\ Filled(f) # <<>> /\ Filled(f2) = Tail(Filled(f))
  /\ Held(r2, c) = Append(Held(r, c), Head(Filled(f))) /\ Pending(f2, p) = Pending(f, p)

LEMMA ReceiveRings ==
  ASSUME NEW f, NEW r, NEW c, NEW p, RxIs(f, r, c, p), f.consumer # f.producer,
         NEW r2, r2 = [Put(r, r.producer, Slots(f, f.consumer, f.consumer + 1))
                         EXCEPT !.producer = Plus(@, 1)],
         NEW f2, Consumed(f, f2)
  PROVE  Receives(f, f2, r, r2, c, p)
<1> DEFINE x == Head(Filled(f))
<1>1. /\ IsRing(f) /\ IsRing(r) /\ c \in Counter /\ p \in Counter
      /\ f.producer \in Counter /\ f.consumer \in Counter
  BY Zenon DEF RxIs, IsRing
<1>2. /\ Filled(f) # <<>> /\ x \in Int /\ Slots(f, f.consumer, f.consumer + 1) = <<x>>
      /\ Plus(f.consumer, 1) \in Counter
      /\ Slots(f, Plus(f.consumer, 1), f.producer) = Tail(Filled(f))
      /\ Minus(f.producer, Plus(f.consumer, 1)) = Minus(f.producer, f.consumer) - 1
      /\ Minus(f.producer, f.consumer) >= 1
  BY <1>1, HeadOfSlots DEF Filled
<1> HIDE DEF x
<1>3. Minus(r.producer, c) < RingSize BY <1>2, RxCounts
<1>4. Produced(r, r2, x) BY <1>2, Zenon DEF Produced
<1>5. AddedOne(r, r2, c, x)
  <2>1. IsRing(r) /\ c \in Counter /\ x \in Int BY <1>1, <1>2, Zenon
  <2> QED BY <1>3, <1>4, <2>1, AddOne, Zenon
<1>6. /\ IsRing(f2) /\ f2.consumer = Plus(f.consumer, 1) /\ f2.producer = f.producer
      /\ f2.slot = f.slot
  BY <1>1, <1>2, Zenon DEF IsRing, Consumed
<1>7. Filled(f2) = Tail(Filled(f))
  <2>1. Filled(f2) = Slots(f2, Plus(f.consumer, 1), f.producer) BY <1>6, Zenon DEF Filled
  <2>2. Filled(f2) = Slots(f, Plus(f.consumer, 1), f.producer) BY <1>6, <2>1, SameSlots
  <2> QED BY <1>2, <2>2, Zenon
<1>8. Pending(f2, p) = Pending(f, p)
  <2>1. Pending(f2, p) = Slots(f2, f.producer, p) BY <1>6, Zenon DEF Pending
  <2>2. Slots(f2, f.producer, p) = Slots(f, f.producer, p) BY <1>6, SameSlots
  <2> QED BY <2>1, <2>2, Zenon DEF Pending
<1>9. RxIs(f2, r2, c, p)
  <2>1. Minus(f.producer, f.consumer) + Minus(p, f.producer) + Minus(r.producer, c) = RxChunks
    BY Zenon DEF RxIs
  <2>2. Minus(f2.producer, f2.consumer) + Minus(p, f2.producer) + Minus(r2.producer, c) = RxChunks
    BY <1>2, <1>5, <1>6, <2>1, RxCounts DEF AddedOne
  <2> QED BY <1>1, <1>5, <1>6, <2>2, Zenon DEF RxIs, AddedOne
<1> QED BY <1>2, <1>5, <1>7, <1>8, <1>9, Zenon DEF AddedOne, Receives, x

-----------------------------------------------------------------------------
(* The chunks for sending. *)
LEMMA TxCounts ==
  ASSUME NEW t, NEW d, NEW p, NEW c, NEW free, NEW out, TxIs(t, d, p, c, free, out)
  PROVE  /\ Minus(t.producer, t.consumer) \in Nat /\ Minus(p, t.producer) \in Nat
         /\ Minus(d.producer, c) \in Nat /\ Len(free) \in Nat /\ Len(out) \in Nat
         /\ Len(free) + Minus(p, t.producer) + Minus(t.producer, t.consumer) + Len(out)
              + Minus(d.producer, c) <= RingSize
         /\ RingSize \in Nat \ {0} /\ Wrap \in Nat \ {0} /\ RingSize < Wrap
         /\ ChunkCount - RxChunks \in Int
<1>1. /\ Minus(t.producer, t.consumer) \in Counter /\ Minus(p, t.producer) \in Counter
      /\ Minus(d.producer, c) \in Counter
  BY MinusIs, Zenon DEF TxIs, IsRing
<1>2. Len(free) \in Nat /\ Len(out) \in Nat BY SeqHas, Zenon DEF TxIs
<1> QED BY <1>1, <1>2, Sizes DEF Counter, TxIs

LEMMA FrontAndRest ==
  ASSUME NEW s \in Seq(Int), NEW n \in 0..Len(s)
  PROVE  /\ SubSeq(s, 1, n) \in Seq(Int) /\ Len(SubSeq(s, 1, n)) = n
         /\ SubSeq(s, n + 1, Len(s)) \in Seq(Int) /\ Len(SubSeq(s, n + 1, Len(s))) = Len(s) - n
<1> DEFINE m == Len(s)
           i == n + 1
<1>1. m \in Nat /\ n \in 0..m BY SeqHas, Zenon
<1>2. SubSeq(s, 1, n) \in Seq(Int) /\ Len(SubSeq(s, 1, n)) = n - 1 + 1
  <2>1. 1 \in 1..(m + 1) /\ 1 <= n + 1 BY <1>1
  <2> QED BY <1>1, <2>1, SubSeqIs, Zenon
<1>3. SubSeq(s, i, m) \in Seq(Int) /\ Len(SubSeq(s, i, m)) = m - i + 1
  <2>1. i \in 1..(m + 1) /\ m \in 0..m /\ i <= m + 1 BY <1>1
  <2> HIDE DEF i
  <2> QED BY <2>1, SubSeqIs, Zenon
<1>4. n - 1 + 1 = n /\ m - i + 1 = m - n BY <1>1
<1> QED BY <1>2, <1>3, <1>4, Zenon

LEMMA PrepareRings ==
  ASSUME NEW t, NEW d, NEW p, NEW c, NEW free, NEW out, TxIs(t, d, p, c, free, out),
         NEW n \in 1..Len(free), NEW t2, t2 = Put(t, p, SubSeq(free, 1, n))
  PROVE  /\ TxIs(t2, d, Plus(p, n), c, SubSeq(free, n + 1, Len(free)), out)
         /\ Filled(t2) = Filled(t)
         /\ Pending(t2, Plus(p, n)) = Pending(t, p) \o SubSeq(free, 1, n)
<1> DEFINE cs == SubSeq(free, 1, n)
           rest == SubSeq(free, n + 1, Len(free))
<1>1. /\ IsRing(t) /\ IsRing(d) /\ p \in Counter /\ c \in Counter
      /\ t.producer \in Counter /\ t.consumer \in Counter
      /\ free \in Seq(Int) /\ Len(free) \in Nat /\ out \in Seq(Int)
  BY DEF TxIs, IsRing
<1>2. cs \in Seq(Int) /\ Len(cs) = n /\ rest \in Seq(Int) /\ Len(rest) = Len(free) - n
  BY <1>1, FrontAndRest
<1>4. t2 = Put(t, p, cs) BY Zenon
<1> HIDE DEF cs, rest
<1>5. Minus(t.producer, t.consumer) + Minus(p, t.producer) + Len(cs) <= RingSize
  <2>1. /\ Minus(t.producer, t.consumer) \in Nat /\ Minus(p, t.producer) \in Nat
        /\ Minus(d.producer, c) \in Nat /\ Len(free) \in Nat /\ Len(out) \in Nat
        /\ Len(free) + Minus(p, t.producer) + Minus(t.producer, t.consumer) + Len(out)
             + Minus(d.producer, c) <= RingSize
        /\ RingSize \in Nat
    BY TxCounts, Zenon
  <2>2. Len(cs) = n /\ n \in Nat /\ n <= Len(free) BY <1>1, <1>2
  <2> QED BY <2>1, <2>2
<1>6. Added(t, t2, t.consumer, t.producer, p, cs) BY <1>1, <1>2, <1>4, <1>5, AddSlots, Zenon
<1>7. /\ IsRing(t2) /\ t2.producer = t.producer /\ t2.consumer = t.consumer
      /\ Plus(p, n) \in Counter /\ Minus(Plus(p, n), t.producer) = Minus(p, t.producer) + n
      /\ Pending(t2, Plus(p, n)) = Pending(t, p) \o cs /\ Filled(t2) = Filled(t)
  BY <1>2, <1>6, Zenon DEF Added, Pending, Filled
<1>8. TxIs(t2, d, Plus(p, n), c, rest, out)
  <2>1. Len(free) + Minus(p, t.producer) + Minus(t.producer, t.consumer) + Len(out)
          + Minus(d.producer, c) <= ChunkCount - RxChunks
    BY Zenon DEF TxIs
  <2>2. Len(rest) + Minus(Plus(p, n), t2.producer) + Minus(t2.producer, t2.consumer)
          + Len(out) + Minus(d.producer, c) <= ChunkCount - RxChunks
    BY <1>2, <1>7, <2>1, TxCounts
  <2> QED BY <1>1, <1>2, <1>7, <2>2, Zenon DEF TxIs
<1> QED BY <1>7, <1>8, Zenon DEF cs, rest

LEMMA PublishRings ==
  ASSUME NEW t, NEW d, NEW p, NEW c, NEW free, NEW out, TxIs(t, d, p, c, free, out),
         NEW t2, t2 = [t EXCEPT !.producer = p]
  PROVE  /\ TxIs(t2, d, p, c, free, out)
         /\ Filled(t2) = Filled(t) \o Pending(t, p) /\ Pending(t2, p) = <<>>
<1>1. IsRing(t) /\ p \in Counter /\ t.producer \in Counter /\ t.consumer \in Counter
  BY Zenon DEF TxIs, IsRing
<1>2. Minus(t.producer, t.consumer) + Minus(p, t.producer) < Wrap BY TxCounts
<1>3. Published(t, t2, p) BY <1>1, <1>2, PublishSlots, Zenon
<1>4. TxIs(t2, d, p, c, free, out)
  <2>1. Len(free) + Minus(p, t.producer) + Minus(t.producer, t.consumer) + Len(out)
          + Minus(d.producer, c) <= ChunkCount - RxChunks
    BY Zenon DEF TxIs
  <2>2. Len(free) + Minus(p, t2.producer) + Minus(t2.producer, t2.consumer) + Len(out)
          + Minus(d.producer, c) <= ChunkCount - RxChunks
    BY <1>3, <2>1, TxCounts DEF Published
  <2> QED BY <1>3, <2>2, Zenon DEF TxIs, Published
<1> QED BY <1>3, <1>4, Zenon DEF Published

Sends(t, t2, d, p, c, free, out) ==
  /\ TxIs(t2, d, p, c, free, Append(out, t.slot[t.consumer % RingSize]))
  /\ Filled(t) # <<>> /\ Head(Filled(t)) = t.slot[t.consumer % RingSize]
  /\ Filled(t2) = Tail(Filled(t)) /\ Pending(t2, p) = Pending(t, p)

LEMMA SendRings ==
  ASSUME NEW t, NEW d, NEW p, NEW c, NEW free, NEW out, TxIs(t, d, p, c, free, out),
         t.consumer # t.producer, NEW t2, t2 = [t EXCEPT !.consumer = Plus(@, 1)]
  PROVE  Sends(t, t2, d, p, c, free, out)
<1> DEFINE x == Head(Filled(t))
<1>1. /\ IsRing(t) /\ IsRing(d) /\ p \in Counter /\ c \in Counter
      /\ t.producer \in Counter /\ t.consumer \in Counter
      /\ free \in Seq(Int) /\ out \in Seq(Int)
  BY Zenon DEF TxIs, IsRing
<1>2. /\ Filled(t) # <<>> /\ x \in Int /\ x = t.slot[t.consumer % RingSize]
      /\ Plus(t.consumer, 1) \in Counter
      /\ Slots(t, Plus(t.consumer, 1), t.producer) = Tail(Filled(t))
      /\ Minus(t.producer, Plus(t.consumer, 1)) = Minus(t.producer, t.consumer) - 1
  BY <1>1, HeadOfSlots DEF Filled
<1> HIDE DEF x
<1>3. /\ IsRing(t2) /\ t2.consumer = Plus(t.consumer, 1) /\ t2.producer = t.producer
      /\ t2.slot = t.slot
  BY <1>1, <1>2, Zenon DEF IsRing
<1>4. Filled(t2) = Tail(Filled(t))
  <2>1. Filled(t2) = Slots(t2, Plus(t.consumer, 1), t.producer) BY <1>3, Zenon DEF Filled
  <2>2. Filled(t2) = Slots(t, Plus(t.consumer, 1), t.producer) BY <1>3, <2>1, Zenon DEF Slots
  <2> QED BY <1>2, <2>2, Zenon
<1>5. Pending(t2, p) = Pending(t, p) BY <1>3 DEF Pending, Slots
<1>6. Append(out, x) \in Seq(Int) /\ Len(Append(out, x)) = Len(out) + 1
  BY <1>1, <1>2, AppendIs, Zenon
<1>7. TxIs(t2, d, p, c, free, Append(out, x))
  <2>1. Len(free) + Minus(p, t.producer) + Minus(t.producer, t.consumer) + Len(out)
          + Minus(d.producer, c) <= ChunkCount - RxChunks
    BY Zenon DEF TxIs
  <2> DEFINE n == Len(Append(out, x))
  <2>2. n = Len(out) + 1 BY <1>6, Zenon
  <2> HIDE DEF n
  <2>3. Len(free) + Minus(p, t2.producer) + Minus(t2.producer, t2.consumer) + n
          + Minus(d.producer, c) <= ChunkCount - RxChunks
    <3>1. /\ Minus(t.producer, t.consumer) \in Nat /\ Minus(p, t.producer) \in Nat
          /\ Minus(d.producer, c) \in Nat /\ Len(free) \in Nat /\ Len(out) \in Nat
          /\ ChunkCount - RxChunks \in Int
      BY TxCounts, Zenon
    <3> QED BY <1>2, <1>3, <2>1, <2>2, <3>1
  <2> QED BY <1>1, <1>3, <1>6, <2>3, Zenon DEF TxIs, n
<1> QED BY <1>2, <1>4, <1>5, <1>7, Zenon DEF Sends, x

LEMMA WithoutIs ==
  ASSUME NEW s \in Seq(Int), NEW k \in 1..Len(s)
  PROVE  Without(s, k) \in Seq(Int) /\ Len(Without(s, k)) = Len(s) - 1 /\ s[k] \in Int
<1> DEFINE m == Len(s)
           i == k - 1
           u == SubSeq(s, 1, i)
           v == SubSeq(s, k + 1, m)
<1>1. m \in Nat /\ k \in 1..m /\ i \in 0..m /\ s[k] \in Int BY SeqHas
<1>2. u \in Seq(Int) /\ Len(u) = i
  <2> HIDE DEF i
  <2> QED BY <1>1, FrontAndRest, Zenon
<1>3. v \in Seq(Int) /\ Len(v) = m - k
  <2>1. k \in 0..m BY <1>1
  <2> QED BY <2>1, FrontAndRest, Zenon
<1> HIDE DEF u, v
<1>4. u \o v \in Seq(Int) /\ Len(u \o v) = Len(u) + Len(v) BY <1>2, <1>3, ConcatIs, Zenon
<1>5. Without(s, k) = u \o v BY Zenon DEF Without, u, v
<1>6. Len(u) + Len(v) = m - 1 BY <1>1, <1>2, <1>3
<1> QED BY <1>1, <1>4, <1>5, <1>6, Zenon

Completes(t, d, d2, p, c, free, out, k) ==
  TxIs(t, d2, p, c, free, Without(out, k)) /\ Held(d2, c) = Append(Held(d, c), out[k])

LEMMA CompleteRings ==
  ASSUME NEW t, NEW d, NEW p, NEW c, NEW free, NEW out, TxIs(t, d, p, c, free, out),
         NEW k \in 1..Len(out),
         NEW d2, Produced(d, d2, out[k])
  PROVE  Completes(t, d, d2, p, c, free, out, k)
<1> DEFINE x == out[k]
           n == Len(Without(out, k))
<1>1. /\ IsRing(t) /\ IsRing(d) /\ p \in Counter /\ c \in Counter
      /\ free \in Seq(Int) /\ out \in Seq(Int)
  BY Zenon DEF TxIs
<1>2. Without(out, k) \in Seq(Int) /\ n = Len(out) - 1 /\ x \in Int BY <1>1, WithoutIs, Zenon
<1>3. Minus(d.producer, c) < RingSize
  <2>1. Len(out) >= 1 BY <1>1, SeqHas
  <2> QED BY <2>1, TxCounts
<1>4. Produced(d, d2, x) BY Zenon
<1> HIDE DEF x, n
<1>5. AddedOne(d, d2, c, x) BY <1>1, <1>2, <1>3, <1>4, AddOne, Zenon
<1>6. TxIs(t, d2, p, c, free, Without(out, k))
  <2>1. Len(free) + Minus(p, t.producer) + Minus(t.producer, t.consumer) + Len(out)
          + Minus(d.producer, c) <= ChunkCount - RxChunks
    BY Zenon DEF TxIs
  <2>2. Len(free) + Minus(p, t.producer) + Minus(t.producer, t.consumer) + n
          + Minus(d2.producer, c) <= ChunkCount - RxChunks
    <3>1. /\ Minus(t.producer, t.consumer) \in Nat /\ Minus(p, t.producer) \in Nat
          /\ Minus(d.producer, c) \in Nat /\ Len(free) \in Nat /\ Len(out) \in Nat
          /\ ChunkCount - RxChunks \in Int
      BY TxCounts, Zenon
    <3>2. Minus(d2.producer, c) = Minus(d.producer, c) + 1 BY <1>5, Zenon DEF AddedOne
    <3> QED BY <1>2, <2>1, <3>1, <3>2
  <2> QED BY <1>1, <1>2, <1>5, <2>2, Zenon DEF TxIs, AddedOne, n
<1> QED BY <1>5, <1>6, Zenon DEF AddedOne, Completes, x

LEMMA ReclaimRings ==
  ASSUME NEW t, NEW d, NEW p, NEW c, NEW free, NEW out, TxIs(t, d, p, c, free, out)
  PROVE  TxIs(t, d, p, d.producer, free \o Held(d, c), out) /\ Held(d, d.producer) = <<>>
<1> DEFINE s == Held(d, c)
<1>1. /\ IsRing(t) /\ IsRing(d) /\ p \in Counter /\ c \in Counter /\ d.producer \in Counter
      /\ free \in Seq(Int) /\ out \in Seq(Int)
  BY Zenon DEF TxIs, IsRing
<1>2. s \in Seq(Int) /\ Len(s) = Minus(d.producer, c)
  <2>1. Minus(d.producer, c) \in Counter BY <1>1, MinusIs, Zenon
  <2> QED BY <1>1, <2>1, SlotsAre, Zenon DEF Held
<1> HIDE DEF s
<1>3. free \o s \in Seq(Int) /\ Len(free \o s) = Len(free) + Minus(d.producer, c)
  BY <1>1, <1>2, ConcatIs, Zenon
<1>4. Minus(d.producer, d.producer) = 0
  <2>1. \A x \in Counter : Minus(x, x) = 0 BY MinusIs, Sizes DEF Counter
  <2> QED BY <1>1, <2>1, Zenon
<1>5. TxIs(t, d, p, d.producer, free \o s, out)
  <2>1. Len(free) + Minus(p, t.producer) + Minus(t.producer, t.consumer) + Len(out)
          + Minus(d.producer, c) <= ChunkCount - RxChunks
    BY Zenon DEF TxIs
  <2>2. Len(free \o s) + Minus(p, t.producer) + Minus(t.producer, t.consumer) + Len(out)
          + Minus(d.producer, d.producer) <= ChunkCount - RxChunks
    BY <1>3, <1>4, <2>1, TxCounts, SMTT(30)
  <2> QED BY <1>1, <1>3, <2>2, Zenon DEF TxIs
<1>6. Held(d, d.producer) = <<>> BY <1>1, NoSlots, Zenon DEF Held
<1> QED BY <1>5, <1>6, Zenon DEF s

LEMMA ConsumeRing ==
  ASSUME NEW t, NEW d, NEW p, NEW c, NEW free, NEW out, TxIs(t, d, p, c, free, out),
         NEW d2, d2 = [d EXCEPT !.consumer = c]
  PROVE  TxIs(t, d2, p, c, free, out) /\ Held(d2, c) = Held(d, c)
<1>1. IsRing(d2) /\ d2.producer = d.producer /\ d2.slot = d.slot BY Zenon DEF TxIs, IsRing
<1>2. Held(d2, c) = Held(d, c) BY <1>1 DEF Held, Slots
<1> QED BY <1>1, <1>2, Zenon DEF TxIs

-----------------------------------------------------------------------------
(* The steps of the socket are steps of the queues. *)
LEMMA Views ==
  /\ InFill = Filled(fill) /\ InRx = Held(rx, rx_consumer)
  /\ Returning = Pending(fill, fill_producer)
  /\ InTx = Filled(tx) /\ InCompletion = Held(completion, completion_consumer)
  /\ Ready = Pending(tx, tx_producer)
BY Zenon DEF InFill, InRx, InTx, InCompletion, Returning, Ready, Filled, Held, Pending

LEMMA ViewsAfter ==
  /\ InFill' = Filled(fill') /\ InRx' = Held(rx', rx_consumer')
  /\ Returning' = Pending(fill', fill_producer')
  /\ InTx' = Filled(tx') /\ InCompletion' = Held(completion', completion_consumer')
  /\ Ready' = Pending(tx', tx_producer')
BY Zenon DEF InFill, InRx, InTx, InCompletion, Returning, Ready, Filled, Held, Pending, Slots, Minus

LEMMA InvAfter ==
  /\ RxInv' <=> RxIs(fill', rx', rx_consumer', fill_producer')
  /\ TxInv' <=> TxIs(tx', completion', tx_producer', completion_consumer', free_tx', flight')
BY Zenon DEF RxInv, TxInv, RxIs, TxIs, IsRing, Counter, Minus

RxQueues == <<InFill, InRx, Returning>>
TxQueues == <<free_tx, Ready, InTx, flight, InCompletion>>

LEMMA RxStays ==
  ASSUME RxInv, UNCHANGED <<fill, rx, rx_consumer, fill_producer>>
  PROVE  RxInv' /\ UNCHANGED RxQueues
<1>1. RxInv' BY InvAfter, Zenon DEF RxInv
<1>2. UNCHANGED RxQueues BY Views, ViewsAfter, Zenon DEF RxQueues
<1> QED BY <1>1, <1>2, Zenon

LEMMA TxStays ==
  ASSUME TxInv, UNCHANGED <<tx, completion, tx_producer, completion_consumer, free_tx, flight>>
  PROVE  TxInv' /\ UNCHANGED TxQueues
<1>1. TxInv' BY InvAfter, Zenon DEF TxInv
<1>2. UNCHANGED TxQueues BY Views, ViewsAfter, Zenon DEF TxQueues
<1> QED BY <1>1, <1>2, Zenon

QueueStep == RingsInv' /\ [Queues!Next]_(Queues!queues)

LEMMA NothingTaken ==
  ASSUME NEW s \in Seq(Int), NEW n, n = 0, NEW t \in Seq(Int)
  PROVE  SubSeq(s, 1, n) = <<>> /\ SubSeq(s, n + 1, Len(s)) = s /\ t \o <<>> = t
<1> DEFINE u == SubSeq(s, 1, n)
           v == SubSeq(s, n + 1, Len(s))
<1>1. n \in 0..Len(s) /\ Len(s) \in Nat BY SeqHas
<1>2. /\ u \in Seq(Int) /\ Len(u) = n /\ v \in Seq(Int) /\ Len(v) = Len(s) - n
  BY <1>1, FrontAndRest, Zenon
<1>3. u = <<>> BY <1>2, SeqHas, Zenon
<1>4. \A k \in 1..Len(s) : v[k] = s[k]
  <2> DEFINE i == n + 1
             j == Len(s)
  <2>1. i \in 1..(Len(s) + 1) /\ j \in 0..Len(s) /\ i <= j + 1 BY <1>1
  <2>2. v = SubSeq(s, i, j) BY Zenon
  <2> HIDE DEF i, j, v
  <2>3. \A k \in 1..(j - i + 1) : v[k] = s[i + k - 1] BY <2>1, <2>2, SubSeqIs, Zenon
  <2>4. j - i + 1 = Len(s) /\ \A k \in 1..Len(s) : i + k - 1 = k BY <1>1 DEF i, j
  <2> QED BY <2>3, <2>4, Zenon
<1> HIDE DEF u, v
<1>5. v = s
  <2>1. Len(v) = Len(s) BY <1>1, <1>2
  <2> QED BY <1>2, <1>4, <2>1, SameSeq, Zenon
<1>6. t = t \o <<>>
  <2> DEFINE e == <<>>
  <2>1. e \in Seq(Int) /\ Len(e) = 0 OBVIOUS
  <2> HIDE DEF e
  <2>2. Len(t) \in Nat BY SeqHas, Zenon
  <2>3. t = t \o e BY <2>1, <2>2, Joined
  <2> QED BY <2>3, Zenon DEF e
<1> QED BY <1>3, <1>5, <1>6, Zenon DEF u, v

LEMMA ReceiveWithStep ==
  ASSUME RingsInv, ReceiveWith
  PROVE  QueueStep
<1> DEFINE n == Least(Minus(rx.producer, rx_consumer), BatchSize)
<1>1. RxInv /\ TxInv /\ RxIs(fill, rx, rx_consumer, fill_producer) BY Zenon DEF RingsInv, RxInv
<1>2. n \in 0..Minus(rx.producer, rx_consumer)
  BY <1>1, RxCounts, XskAssumption DEF Least
<1>3. /\ fill' = Put(fill, fill_producer, Slots(rx, rx_consumer, rx_consumer + n))
      /\ fill_producer' = Plus(fill_producer, n) /\ rx_consumer' = Plus(rx_consumer, n)
      /\ rx' = rx /\ batch' = 0 /\ pc' # "queue"
      /\ UNCHANGED <<tx, completion, tx_producer, completion_consumer, free_tx, flight>>
  BY Zenon DEF ReceiveWith
<1> HIDE DEF n
<1>4. /\ RxIs(fill', rx, Plus(rx_consumer, n), Plus(fill_producer, n))
      /\ Filled(fill') = Filled(fill)
      /\ Pending(fill', Plus(fill_producer, n))
           = Pending(fill, fill_producer) \o SubSeq(Held(rx, rx_consumer), 1, n)
      /\ Held(rx, Plus(rx_consumer, n))
           = SubSeq(Held(rx, rx_consumer), n + 1, Len(Held(rx, rx_consumer)))
      /\ Len(Held(rx, rx_consumer)) = Minus(rx.producer, rx_consumer)
  BY <1>1, <1>2, <1>3, ConsumeRings
<1>5. /\ RxInv' /\ InFill' = InFill /\ Returning' = Returning \o SubSeq(InRx, 1, n)
      /\ InRx' = SubSeq(InRx, n + 1, Len(InRx)) /\ n \in 0..Len(InRx)
  BY <1>2, <1>3, <1>4, Views, ViewsAfter, InvAfter, Zenon
<1>6. TxInv' /\ UNCHANGED TxQueues BY <1>1, <1>3, TxStays, Zenon
<1>7. BatchInv' BY <1>3, Zenon DEF BatchInv
<1>8. CASE n = 0
  <2>1. InRx \in Seq(Int) /\ Returning \in Seq(Int)
    <3>1. /\ Minus(rx.producer, rx_consumer) \in Counter
          /\ Minus(fill_producer, fill.producer) \in Counter
          /\ IsRing(rx) /\ IsRing(fill) /\ rx_consumer \in Counter /\ fill.producer \in Counter
      BY <1>1, MinusIs, Zenon DEF RxIs, IsRing
    <3> QED BY <3>1, SlotsAre, Zenon DEF InRx, Returning
  <2>2. /\ SubSeq(InRx, 1, n) = <<>> /\ SubSeq(InRx, n + 1, Len(InRx)) = InRx
        /\ Returning \o <<>> = Returning
    BY <1>8, <2>1, NothingTaken, Zenon
  <2>4. UNCHANGED RxQueues BY <1>5, <2>2, Zenon DEF RxQueues
  <2> QED BY <1>5, <1>6, <1>7, <2>4, Zenon
       DEF QueueStep, RingsInv, Queues!queues, RxQueues, TxQueues
<1>9. CASE n # 0
  <2>1. n \in 1..Len(InRx) BY <1>5, <1>9
  <2>2. Queues!Consume(n) BY <1>5, <1>6, Zenon DEF Queues!Consume, TxQueues
  <2>3. Queues!Next BY <2>1, <2>2, Zenon DEF Queues!Next
  <2> QED BY <1>5, <1>6, <1>7, <2>3, Zenon DEF QueueStep, RingsInv
<1> QED BY <1>8, <1>9, Zenon

LEMMA ReturnFillStep ==
  ASSUME RingsInv, ReturnFill
  PROVE  QueueStep
<1>1. RxInv /\ TxInv /\ RxIs(fill, rx, rx_consumer, fill_producer) BY Zenon DEF RingsInv, RxInv
<1>2. /\ fill' = [fill EXCEPT !.producer = fill_producer] /\ pc' # "queue" /\ batch' = batch
      /\ UNCHANGED <<rx, rx_consumer, fill_producer>>
      /\ UNCHANGED <<tx, completion, tx_producer, completion_consumer, free_tx, flight>>
  BY Zenon DEF ReturnFill, own
<1>3. /\ RxIs(fill', rx, rx_consumer, fill_producer) /\ Pending(fill', fill_producer) = <<>>
      /\ Filled(fill') = Filled(fill) \o Pending(fill, fill_producer)
  BY <1>1, <1>2, ReturnRings, Zenon
<1>4. RxInv' /\ InFill' = InFill \o Returning /\ Returning' = <<>> /\ InRx' = InRx
  BY <1>2, <1>3, Views, ViewsAfter, InvAfter, Zenon
<1>5. TxInv' /\ UNCHANGED TxQueues BY <1>1, <1>2, TxStays, Zenon
<1>6. BatchInv' BY <1>2, Zenon DEF RingsInv, BatchInv
<1>7. Queues!Return BY <1>4, <1>5, Zenon DEF Queues!Return, TxQueues
<1> QED BY <1>4, <1>5, <1>6, <1>7, Zenon DEF QueueStep, RingsInv, Queues!Next

LEMMA KernelReceiveStep ==
  ASSUME RingsInv, KernelReceive
  PROVE  QueueStep
<1>1. RxInv /\ TxInv /\ RxIs(fill, rx, rx_consumer, fill_producer) BY Zenon DEF RingsInv, RxInv
<1>2. /\ fill.consumer # fill.producer
      /\ rx' = [Put(rx, rx.producer, Slots(fill, fill.consumer, fill.consumer + 1))
                  EXCEPT !.producer = Plus(@, 1)]
      /\ fill' = [fill EXCEPT !.consumer = Plus(@, 1)]
      /\ UNCHANGED <<rx_consumer, fill_producer, pc, batch>>
      /\ UNCHANGED <<tx, completion, tx_producer, completion_consumer, free_tx, flight>>
  BY Zenon DEF KernelReceive, own
<1>3. Receives(fill, fill', rx, rx', rx_consumer, fill_producer)
  <2>1. Consumed(fill, fill') BY <1>2, Zenon DEF Consumed
  <2> QED BY <1>1, <1>2, <2>1, ReceiveRings, Zenon
<1>4. /\ RxInv' /\ InFill # <<>> /\ InFill' = Tail(InFill) /\ InRx' = Append(InRx, Head(InFill))
      /\ Returning' = Returning
  BY <1>2, <1>3, Views, ViewsAfter, InvAfter, Zenon DEF Receives
<1>5. TxInv' /\ UNCHANGED TxQueues BY <1>1, <1>2, TxStays, Zenon
<1>6. BatchInv' BY <1>2, Zenon DEF RingsInv, BatchInv
<1>7. Queues!Receive BY <1>4, <1>5, Zenon DEF Queues!Receive, TxQueues
<1> QED BY <1>4, <1>5, <1>6, <1>7, Zenon DEF QueueStep, RingsInv, Queues!Next

LEMMA QueueFramesStep ==
  ASSUME RingsInv, QueueFrames
  PROVE  QueueStep
<1>1. /\ RxInv /\ TxInv /\ batch \in 1..Len(free_tx) /\ batch \in Nat
      /\ TxIs(tx, completion, tx_producer, completion_consumer, free_tx, flight)
  BY Zenon DEF RingsInv, TxInv, BatchInv, QueueFrames
<1>2. /\ tx' = Put(tx, tx_producer, SubSeq(free_tx, 1, batch))
      /\ tx_producer' = Plus(tx_producer, batch)
      /\ free_tx' = SubSeq(free_tx, batch + 1, Len(free_tx))
      /\ UNCHANGED <<completion, completion_consumer, flight, batch>> /\ pc' # "queue"
      /\ UNCHANGED <<fill, rx, rx_consumer, fill_producer>>
  BY Zenon DEF QueueFrames
<1>3. /\ TxIs(tx', completion, Plus(tx_producer, batch), completion_consumer,
              SubSeq(free_tx, batch + 1, Len(free_tx)), flight)
      /\ Filled(tx') = Filled(tx)
      /\ Pending(tx', Plus(tx_producer, batch))
           = Pending(tx, tx_producer) \o SubSeq(free_tx, 1, batch)
  BY <1>1, <1>2, PrepareRings
<1>4. /\ TxInv' /\ InTx' = InTx /\ Ready' = Ready \o SubSeq(free_tx, 1, batch)
      /\ InCompletion' = InCompletion
  BY <1>2, <1>3, Views, ViewsAfter, InvAfter, Zenon
<1>5. RxInv' /\ UNCHANGED RxQueues BY <1>1, <1>2, RxStays, Zenon
<1>6. BatchInv' BY <1>1, <1>2, Zenon DEF BatchInv
<1>7. Queues!Prepare(batch) BY <1>2, <1>4, <1>5, Zenon DEF Queues!Prepare, RxQueues
<1>8. Queues!Next BY <1>1, <1>7, Zenon DEF Queues!Next
<1> QED BY <1>4, <1>5, <1>6, <1>8, Zenon DEF QueueStep, RingsInv

LEMMA PublishTxStep ==
  ASSUME RingsInv, PublishTx
  PROVE  QueueStep
<1>1. /\ RxInv /\ TxInv /\ TxIs(tx, completion, tx_producer, completion_consumer, free_tx, flight)
  BY Zenon DEF RingsInv, TxInv
<1>2. /\ tx' = [tx EXCEPT !.producer = tx_producer] /\ pc' # "queue" /\ batch' = batch
      /\ UNCHANGED <<completion, tx_producer, completion_consumer, free_tx, flight>>
      /\ UNCHANGED <<fill, rx, rx_consumer, fill_producer>>
  BY Zenon DEF PublishTx, own
<1>3. /\ TxIs(tx', completion, tx_producer, completion_consumer, free_tx, flight)
      /\ Filled(tx') = Filled(tx) \o Pending(tx, tx_producer) /\ Pending(tx', tx_producer) = <<>>
  BY <1>1, <1>2, PublishRings, Zenon
<1>4. TxInv' /\ InTx' = InTx \o Ready /\ Ready' = <<>> /\ InCompletion' = InCompletion
  BY <1>2, <1>3, Views, ViewsAfter, InvAfter, Zenon
<1>5. RxInv' /\ UNCHANGED RxQueues BY <1>1, <1>2, RxStays, Zenon
<1>6. BatchInv' BY <1>2, Zenon DEF RingsInv, BatchInv
<1>7. Queues!Publish BY <1>2, <1>4, <1>5, Zenon DEF Queues!Publish, RxQueues
<1> QED BY <1>4, <1>5, <1>6, <1>7, Zenon DEF QueueStep, RingsInv, Queues!Next

LEMMA KernelSendStep ==
  ASSUME RingsInv, KernelSend
  PROVE  QueueStep
<1>1. /\ RxInv /\ TxInv /\ TxIs(tx, completion, tx_producer, completion_consumer, free_tx, flight)
  BY Zenon DEF RingsInv, TxInv
<1>2. /\ tx.consumer # tx.producer /\ tx' = [tx EXCEPT !.consumer = Plus(@, 1)]
      /\ flight' = Append(flight, tx.slot[tx.consumer % RingSize])
      /\ UNCHANGED <<completion, tx_producer, completion_consumer, free_tx, pc, batch>>
      /\ UNCHANGED <<fill, rx, rx_consumer, fill_producer>>
  BY Zenon DEF KernelSend, own
<1>3. Sends(tx, tx', completion, tx_producer, completion_consumer, free_tx, flight)
  BY <1>1, <1>2, SendRings, Zenon
<1>4. /\ TxInv' /\ InTx # <<>> /\ InTx' = Tail(InTx) /\ flight' = Append(flight, Head(InTx))
      /\ Ready' = Ready /\ InCompletion' = InCompletion
  BY <1>2, <1>3, Views, ViewsAfter, InvAfter, Zenon DEF Sends
<1>5. RxInv' /\ UNCHANGED RxQueues BY <1>1, <1>2, RxStays, Zenon
<1>6. BatchInv' BY <1>2, Zenon DEF RingsInv, BatchInv
<1>7. Queues!Send BY <1>2, <1>4, <1>5, Zenon DEF Queues!Send, RxQueues
<1> QED BY <1>4, <1>5, <1>6, <1>7, Zenon DEF QueueStep, RingsInv, Queues!Next

LEMMA KernelCompleteStep ==
  ASSUME RingsInv, NEW k \in 1..Len(flight), KernelComplete(k)
  PROVE  QueueStep
<1>1. /\ RxInv /\ TxInv /\ TxIs(tx, completion, tx_producer, completion_consumer, free_tx, flight)
  BY Zenon DEF RingsInv, TxInv
<1>2. /\ completion' = [Put(completion, completion.producer, <<flight[k]>>)
                          EXCEPT !.producer = Plus(@, 1)]
      /\ flight' = Without(flight, k)
      /\ UNCHANGED <<tx, tx_producer, completion_consumer, free_tx, pc, batch>>
      /\ UNCHANGED <<fill, rx, rx_consumer, fill_producer>>
  BY Zenon DEF KernelComplete, own
<1>3. Completes(tx, completion, completion', tx_producer, completion_consumer, free_tx, flight, k)
  <2>1. Produced(completion, completion', flight[k]) BY <1>2, Zenon DEF Produced
  <2> QED BY <1>1, <2>1, CompleteRings, Zenon
<1>4. TxInv' /\ InCompletion' = Append(InCompletion, flight[k]) /\ Ready' = Ready /\ InTx' = InTx
  BY <1>2, <1>3, Views, ViewsAfter, InvAfter, Zenon DEF Completes
<1>5. RxInv' /\ UNCHANGED RxQueues BY <1>1, <1>2, RxStays, Zenon
<1>6. BatchInv' BY <1>2, Zenon DEF RingsInv, BatchInv
<1>7. Queues!Complete(k)
  BY <1>2, <1>4, <1>5, Zenon DEF Queues!Complete, Queues!Without, Without, RxQueues
<1>8. Queues!Next BY <1>7, Zenon DEF Queues!Next
<1> QED BY <1>4, <1>5, <1>6, <1>8, Zenon DEF QueueStep, RingsInv

LEMMA ReclaimStep ==
  ASSUME RingsInv, Reclaim
  PROVE  QueueStep
<1>1. /\ RxInv /\ TxInv /\ TxIs(tx, completion, tx_producer, completion_consumer, free_tx, flight)
  BY Zenon DEF RingsInv, TxInv
<1>2. /\ free_tx' = free_tx \o Held(completion, completion_consumer)
      /\ completion_consumer' = completion.producer /\ pc' # "queue" /\ batch' = batch
      /\ UNCHANGED <<tx, completion, tx_producer, flight>>
      /\ UNCHANGED <<fill, rx, rx_consumer, fill_producer>>
  BY Zenon DEF Reclaim, rings, Held
<1>3. /\ TxIs(tx, completion, tx_producer, completion.producer,
              free_tx \o Held(completion, completion_consumer), flight)
      /\ Held(completion, completion.producer) = <<>>
  BY <1>1, ReclaimRings, Zenon
<1>4. /\ TxInv' /\ free_tx' = free_tx \o InCompletion /\ InCompletion' = <<>>
      /\ Ready' = Ready /\ InTx' = InTx
  BY <1>2, <1>3, Views, ViewsAfter, InvAfter, Zenon
<1>5. RxInv' /\ UNCHANGED RxQueues BY <1>1, <1>2, RxStays, Zenon
<1>6. BatchInv' BY <1>2, Zenon DEF RingsInv, BatchInv
<1>7. Queues!Reclaim BY <1>2, <1>4, <1>5, Zenon DEF Queues!Reclaim, RxQueues
<1> QED BY <1>4, <1>5, <1>6, <1>7, Zenon DEF QueueStep, RingsInv, Queues!Next

(* A step of which the queues see nothing. *)
LEMMA StutterStep ==
  ASSUME RxInv', TxInv', BatchInv', UNCHANGED RxQueues, UNCHANGED TxQueues
  PROVE  QueueStep
BY Zenon DEF QueueStep, RingsInv, Queues!queues, RxQueues, TxQueues

LEMMA ReleaseRxStep ==
  ASSUME RingsInv, ReleaseRx
  PROVE  QueueStep
<1>1. RxInv /\ TxInv /\ RxIs(fill, rx, rx_consumer, fill_producer) BY Zenon DEF RingsInv, RxInv
<1>2. /\ rx' = [rx EXCEPT !.consumer = rx_consumer] /\ pc' # "queue" /\ batch' = batch
      /\ UNCHANGED <<fill, rx_consumer, fill_producer>>
      /\ UNCHANGED <<tx, completion, tx_producer, completion_consumer, free_tx, flight>>
  BY Zenon DEF ReleaseRx, own
<1>3. RxIs(fill, rx', rx_consumer, fill_producer) /\ Held(rx', rx_consumer) = Held(rx, rx_consumer)
  BY <1>1, <1>2, ReleaseRings
<1>4. RxInv' /\ UNCHANGED RxQueues BY <1>2, <1>3, Views, ViewsAfter, InvAfter, Zenon DEF RxQueues
<1>5. TxInv' /\ UNCHANGED TxQueues BY <1>1, <1>2, TxStays, Zenon
<1>6. BatchInv' BY <1>2, Zenon DEF RingsInv, BatchInv
<1> QED BY <1>4, <1>5, <1>6, StutterStep, Zenon

LEMMA ConsumeCompletionStep ==
  ASSUME RingsInv, ConsumeCompletion
  PROVE  QueueStep
<1>1. /\ RxInv /\ TxInv /\ TxIs(tx, completion, tx_producer, completion_consumer, free_tx, flight)
  BY Zenon DEF RingsInv, TxInv
<1>2. /\ completion' = [completion EXCEPT !.consumer = completion_consumer]
      /\ pc' # "queue" /\ batch' = batch
      /\ UNCHANGED <<tx, tx_producer, completion_consumer, free_tx, flight>>
      /\ UNCHANGED <<fill, rx, rx_consumer, fill_producer>>
  BY Zenon DEF ConsumeCompletion, own
<1>3. /\ TxIs(tx, completion', tx_producer, completion_consumer, free_tx, flight)
      /\ Held(completion', completion_consumer) = Held(completion, completion_consumer)
  BY <1>1, <1>2, ConsumeRing
<1>4. TxInv' /\ UNCHANGED TxQueues BY <1>2, <1>3, Views, ViewsAfter, InvAfter, Zenon DEF TxQueues
<1>5. RxInv' /\ UNCHANGED RxQueues BY <1>1, <1>2, RxStays, Zenon
<1>6. BatchInv' BY <1>2, Zenon DEF RingsInv, BatchInv
<1> QED BY <1>4, <1>5, <1>6, StutterStep, Zenon

(* The steps that touch no ring. *)
LEMMA OwnStep ==
  ASSUME RingsInv, UNCHANGED <<rings, own, flight>>, BatchInv'
  PROVE  QueueStep
<1>1. /\ UNCHANGED <<fill, rx, rx_consumer, fill_producer>>
      /\ UNCHANGED <<tx, completion, tx_producer, completion_consumer, free_tx, flight>>
  BY Zenon DEF rings, own
<1>2. RxInv' /\ UNCHANGED RxQueues BY <1>1, RxStays, Zenon DEF RingsInv
<1>3. TxInv' /\ UNCHANGED TxQueues BY <1>1, TxStays, Zenon DEF RingsInv
<1> QED BY <1>2, <1>3, StutterStep, Zenon

LEMMA CapacityStep ==
  ASSUME RingsInv, NEW big \in BOOLEAN, Capacity(big)
  PROVE  QueueStep
<1> DEFINE n == TxBatchCapacity(batch, Len(free_tx), tx.producer, tx.consumer)
<1>1. /\ batch \in Nat /\ Len(free_tx) \in Nat /\ Minus(tx.producer, tx.consumer) \in Nat
      /\ RingSize \in Nat
  BY TxCounts, Zenon DEF RingsInv, TxInv, BatchInv
<1>2. n \in 0..Len(free_tx) BY <1>1 DEF TxBatchCapacity, Least
<1>3. UNCHANGED <<rings, own, flight>> BY Zenon DEF Capacity
<1>4. free_tx' = free_tx BY <1>3, Zenon DEF own
<1>5. (pc' = "transmit" /\ batch' = 0) \/ (n # 0 /\ pc' = "queue" /\ batch' = n)
  BY Zenon DEF Capacity
<1> HIDE DEF n
<1>6. BatchInv' BY <1>1, <1>2, <1>4, <1>5 DEF BatchInv
<1> QED BY <1>3, <1>6, OwnStep, Zenon

LEMMA StepSimulates == RingsInv /\ [Next]_vars => QueueStep
<1> SUFFICES ASSUME RingsInv, [Next]_vars PROVE QueueStep
  BY Zenon
<1>1. batch \in Nat BY Zenon DEF RingsInv, BatchInv
<1>2. CASE IoStep
  <2>1. CASE ReceiveWith BY <2>1, ReceiveWithStep, Zenon
  <2>2. CASE ReleaseRx BY <2>2, ReleaseRxStep, Zenon
  <2>3. CASE ReturnFill BY <2>3, ReturnFillStep, Zenon
  <2>4. CASE Reclaim BY <2>4, ReclaimStep, Zenon
  <2>5. CASE ConsumeCompletion BY <2>5, ConsumeCompletionStep, Zenon
  <2>6. CASE QueueFrames BY <2>6, QueueFramesStep, Zenon
  <2>7. CASE PublishTx BY <2>7, PublishTxStep, Zenon
  <2>8. CASE Poll
    <3>1. UNCHANGED <<rings, own, flight>> /\ BatchInv' BY <1>1, <2>8, Zenon DEF Poll, BatchInv
    <3> QED BY <3>1, OwnStep, Zenon
  <2>9. ASSUME NEW n \in 0..BatchSize, TakeFrames(n) PROVE QueueStep
    <3>1. UNCHANGED <<rings, own, flight>> /\ BatchInv'
      BY <2>9, XskAssumption DEF TakeFrames, BatchInv
    <3> QED BY <3>1, OwnStep, Zenon
  <2>10. ASSUME NEW big \in BOOLEAN, Capacity(big) PROVE QueueStep BY <2>10, CapacityStep, Zenon
  <2>11. ASSUME NEW sendto \in {"ok", "again", "error"}, Kick(sendto) PROVE QueueStep
    <3>1. UNCHANGED <<rings, own, flight>> /\ BatchInv' BY <2>11, Zenon DEF Kick, BatchInv
    <3> QED BY <3>1, OwnStep, Zenon
  <2> QED
    BY <1>2, <2>1, <2>2, <2>3, <2>4, <2>5, <2>6, <2>7, <2>8, <2>9, <2>10, <2>11, Zenon DEF IoStep
<1>3. CASE KernelStep
  <2>1. CASE KernelSend BY <2>1, KernelSendStep, Zenon
  <2>2. CASE KernelSleep
    <3>1. UNCHANGED <<rings, own, flight>> /\ UNCHANGED <<pc, batch>> BY <2>2, Zenon DEF KernelSleep
    <3>2. BatchInv' BY <3>1, Zenon DEF RingsInv, BatchInv, own
    <3> QED BY <3>1, <3>2, OwnStep, Zenon
  <2>3. ASSUME NEW k \in 1..Len(flight), KernelComplete(k) PROVE QueueStep
    BY <2>3, KernelCompleteStep, Zenon
  <2> QED BY <1>3, <2>1, <2>2, <2>3, Zenon DEF KernelStep
<1>4. CASE KernelReceive BY <1>4, KernelReceiveStep, Zenon
<1>5. CASE UNCHANGED vars
  <2>1. UNCHANGED <<rings, own, flight>> /\ UNCHANGED <<pc, batch>> BY <1>5, Zenon DEF vars
  <2>2. BatchInv' BY <2>1, Zenon DEF RingsInv, BatchInv, own
  <2> QED BY <2>1, <2>2, OwnStep, Zenon
<1> QED BY <1>2, <1>3, <1>4, <1>5, Zenon DEF Next

(* The sequence of the numbers from a on, n of them, lists their set. *)
LEMMA ListsInterval ==
  ASSUME NEW a \in Nat, NEW n \in Nat, NEW s, s = [k \in 1..n |-> a + k - 1]
  PROVE  Queues!Lists(s, a..(a + n - 1)) /\ s \in Seq(Int) /\ Len(s) = n
<1> DEFINE S == a..(a + n - 1)
<1>1. s \in [1..n -> S] /\ s \in [1..n -> Int] OBVIOUS
<1>2. \A i, j \in 1..n : s[i] = s[j] => i = j OBVIOUS
<1>3. \A c \in S : \E k \in 1..n : s[k] = c
  <2>1. SUFFICES ASSUME NEW c \in S PROVE \E k \in 1..n : s[k] = c
    BY Zenon
  <2>2. c - a + 1 \in 1..n /\ s[c - a + 1] = c OBVIOUS
  <2> QED BY <2>2, Zenon
<1> HIDE DEF S
<1>4. s \in Seq(S) /\ s \in Seq(Int) /\ Len(s) = n BY <1>1, FunctionIsSeq, Zenon
<1>5. Queues!Lists(s, S) BY <1>2, <1>3, <1>4, Zenon DEF Queues!Lists
<1> QED BY <1>4, <1>5, Zenon DEF S

LEMMA EmptyRing == IsRing(Empty) /\ Empty.producer = 0 /\ Empty.consumer = 0 /\ 0 \in Counter
BY Sizes DEF IsRing, Empty, Counter

LEMMA InitSimulates == Init => RingsInv /\ Queues!Init
<1> SUFFICES ASSUME Init PROVE RingsInv /\ Queues!Init
  BY Zenon
<1> DEFINE n == RxChunks
           m == ChunkCount - RxChunks
           cs == [k \in 1..n |-> k - 1]
           f0 == Put(Empty, 0, cs)
<1>1. n \in Nat /\ m \in Nat /\ n <= RingSize /\ m <= RingSize /\ RingSize \in Nat /\ n \in Counter
      /\ Wrap \in Nat
  BY Sizes DEF Counter
<1>2. Queues!Lists(cs, 0..(n - 1)) /\ cs \in Seq(Int) /\ Len(cs) = n
  <2>1. cs = [k \in 1..n |-> 0 + k - 1] /\ 0 + n - 1 = n - 1 BY <1>1
  <2> HIDE DEF cs, n
  <2> QED BY <1>1, <2>1, ListsInterval
<1>3. /\ Queues!Lists(free_tx, RxChunks..(ChunkCount - 1))
      /\ free_tx \in Seq(Int) /\ Len(free_tx) = m
  <2>1. free_tx = [k \in 1..m |-> RxChunks + k - 1] BY Zenon DEF Init
  <2>2. RxChunks + m - 1 = ChunkCount - 1 BY Sizes
  <2> HIDE DEF m
  <2> QED BY <1>1, <2>1, <2>2, ListsInterval
<1>4. fill = [f0 EXCEPT !.producer = n] BY Zenon DEF Init
<1>5. f0 = Put(Empty, 0, cs) BY Zenon
<1>6. /\ rx = Empty /\ tx = Empty /\ completion = Empty
      /\ rx_consumer = 0 /\ fill_producer = n /\ tx_producer = 0 /\ completion_consumer = 0
      /\ flight = <<>> /\ batch = 0 /\ pc # "queue"
  BY Zenon DEF Init
<1>7. Minus(0, 0) = 0 /\ Minus(n, n) = 0 /\ Minus(n, 0) = n /\ Plus(0, n) = n
  BY <1>1, EmptyRing, MinusIs, PlusIs DEF Counter
<1> HIDE DEF cs, f0, n, m
<1>8. Written(Empty, f0, 0, cs) BY <1>1, <1>2, <1>5, EmptyRing, PutWrites, Zenon
<1>9. /\ IsRing(fill) /\ fill.producer = n /\ fill.consumer = 0 /\ fill.slot = f0.slot
      /\ Slots(f0, 0, n) = cs
  BY <1>1, <1>2, <1>4, <1>7, <1>8, EmptyRing, Zenon DEF Written, IsRing
<1>10. InFill = cs
  <2>1. InFill = Slots(fill, 0, n) BY <1>9, Zenon DEF InFill
  <2>2. Slots(fill, 0, n) = Slots(f0, 0, n) BY <1>9, Zenon DEF Slots
  <2> QED BY <1>9, <2>1, <2>2, Zenon
<1>11. Returning = <<>> BY <1>1, <1>6, <1>9, NoSlots, Zenon DEF Returning
<1>12. Slots(Empty, 0, 0) = <<>> BY EmptyRing, NoSlots, Zenon
<1>13. InRx = <<>> /\ InTx = <<>> /\ InCompletion = <<>> /\ Ready = <<>>
  BY <1>6, <1>12, EmptyRing, Zenon DEF InRx, InTx, InCompletion, Ready
<1>14. Queues!Init
  BY <1>2, <1>3, <1>6, <1>10, <1>11, <1>13, Zenon DEF Queues!Init, n
<1>15. RxInv BY <1>1, <1>6, <1>7, <1>9, EmptyRing DEF RxInv, RxIs, n
<1>16. TxInv
  <2>1. <<>> \in Seq(Int) /\ Len(<<>>) = 0 OBVIOUS
  <2>2. Len(free_tx) <= ChunkCount - RxChunks BY <1>1, <1>3 DEF m
  <2>3. Len(free_tx) \in Nat BY <1>1, <1>3, Zenon
  <2> QED BY <1>3, <1>6, <1>7, <2>1, <2>2, <2>3, EmptyRing DEF TxInv, TxIs
<1>17. BatchInv BY <1>6, Zenon DEF BatchInv
<1> QED BY <1>14, <1>15, <1>16, <1>17, Zenon DEF RingsInv

(* The rings of an Xsk, with counters that wrap and accesses that          *)
(* interleave with the kernel's, implement the queues of UmemQueues: each  *)
(* chunk has one owner and keeps its place in line, for every ring size,   *)
(* number of chunks and batch size that xsk.rs may be configured with.     *)
THEOREM RingsImplementQueues == Spec => ImplementsQueues
<1>1. Init => RingsInv /\ Queues!Init BY InitSimulates, Zenon
<1>2. RingsInv /\ [Next]_vars => RingsInv' /\ [Queues!Next]_(Queues!queues)
  BY StepSimulates, Zenon DEF QueueStep
<1> QED BY <1>1, <1>2, PTL DEF Spec, ImplementsQueues, Queues!Spec

-----------------------------------------------------------------------------
(* The wakeup of the IO worker. *)
(* The variables start in their types. *)
LEMMA TypeInit == WakeupInit => TypeOK
<1> SUFFICES ASSUME WakeupInit PROVE TypeOK
  BY Zenon
<1>1. /\ channel \in Seq(Senders) /\ Len(channel) <= ChannelCapacity /\ eventfd \in Nat
      /\ items \in Nat
  BY IoWakeupAssumption DEF WakeupInit
<1>2. pending \in BOOLEAN /\ worked \in BOOLEAN /\ failed \in BOOLEAN
  BY Zenon DEF WakeupInit
<1>3. /\ spc \in [Senders -> {"idle", "notify", "write", "reset"}]
      /\ ipc \in {"receive", "transmit", "poll", "drain", "clear"}
  BY Zenon DEF WakeupInit
<1> QED
  BY <1>1, <1>2, <1>3, Zenon DEF TypeOK

(* Every step keeps the variables in their types. *)
LEMMA TypeStep == TypeOK /\ [WakeupNext]_wakeup_vars => TypeOK'
<1> SUFFICES ASSUME TypeOK, [WakeupNext]_wakeup_vars PROVE TypeOK'
  BY Zenon
<1> USE DEF TypeOK
<1>1. ASSUME NEW s \in Senders, TrySend(s) PROVE TypeOK'
  <2>1. channel' \in Seq(Senders) /\ Len(channel') <= ChannelCapacity
    BY <1>1, IoWakeupAssumption, SMTT(30) DEF TrySend
  <2> QED BY <1>1, <2>1 DEF TrySend
<1>2. ASSUME NEW s \in Senders, Notify(s) PROVE TypeOK'
  <2>1. CASE Swap(s) BY <2>1, Zenon DEF Swap
  <2>2. CASE Write(s) BY <2>2 DEF Write
  <2>3. CASE WriteFails(s) BY <2>3, Zenon DEF WriteFails
  <2>4. CASE Reset(s) BY <2>4, Zenon DEF Reset
  <2> QED BY <1>2, <2>1, <2>2, <2>3, <2>4, Zenon DEF Notify
<1>3. ASSUME NEW found \in BOOLEAN, Receive(found) PROVE TypeOK'
  BY <1>3, Zenon DEF Receive
<1>4. ASSUME NEW sent \in BOOLEAN, Transmit(sent) PROVE TypeOK'
  <2>1. channel' = Tail(channel) /\ channel # <<>>
    BY <1>4, Zenon DEF Transmit
  <2>2. channel' \in Seq(Senders) /\ Len(channel') = Len(channel) - 1
    BY <2>1
  <2>3. Len(channel') <= ChannelCapacity
    BY <2>2, IoWakeupAssumption
  <2>4. (worked \/ sent) \in BOOLEAN
    BY Zenon
  <2> QED BY <1>4, <2>2, <2>3, <2>4, Zenon DEF Transmit
<1>5. CASE RoundEnds BY <1>5, Zenon DEF RoundEnds
<1>6. CASE PollWake BY <1>6, Zenon DEF PollWake
<1>7. CASE PollOther BY <1>7, Zenon DEF PollOther
<1>8. CASE Drain BY <1>8, Zenon DEF Drain
<1>9. CASE ClearPending BY <1>9, Zenon DEF ClearPending
<1>10. CASE UNCHANGED wakeup_vars BY <1>10, Zenon DEF wakeup_vars
<1> QED
  BY <1>1, <1>2, <1>3, <1>4, <1>5, <1>6, <1>7, <1>8, <1>9, <1>10, Zenon DEF WakeupNext, WorkerStep

(* The variables of the wakeup protocol keep their types, whatever the     *)
(* senders and the IO worker do.                                           *)
THEOREM TypeCorrect == WakeupSpec => []TypeOK
<1> QED
  BY TypeInit, TypeStep, PTL DEF WakeupSpec

-----------------------------------------------------------------------------
(* Every step keeps the wakeup unique.  Swap is the step that takes the    *)
(* right to write, and only when nobody holds it; Write hands it to the    *)
(* eventfd, Drain to the IO worker, ClearPending and Reset give it up.     *)
LEMMA OneWakeupStep == TypeOK /\ OneWakeup /\ [WakeupNext]_wakeup_vars => OneWakeup'
<1> SUFFICES ASSUME TypeOK, OneWakeup, [WakeupNext]_wakeup_vars PROVE OneWakeup'
  BY Zenon
<1> USE DEF TypeOK, OneWakeup, Writing
<1>1. ASSUME NEW s \in Senders, TrySend(s) PROVE OneWakeup'
  BY <1>1, Zenon DEF TrySend
<1>2. ASSUME NEW s \in Senders, Notify(s) PROVE OneWakeup'
  <2>1. CASE Swap(s) BY <2>1, Zenon DEF Swap
  <2>2. CASE Write(s) BY <2>2 DEF Write
  <2>3. CASE WriteFails(s) BY <2>3, Zenon DEF WriteFails
  <2>4. CASE Reset(s) BY <2>4, Zenon DEF Reset
  <2> QED BY <1>2, <2>1, <2>2, <2>3, <2>4, Zenon DEF Notify
<1>3. ASSUME NEW found \in BOOLEAN, Receive(found) PROVE OneWakeup'
  BY <1>3, Zenon DEF Receive
<1>4. ASSUME NEW sent \in BOOLEAN, Transmit(sent) PROVE OneWakeup'
  BY <1>4, Zenon DEF Transmit
<1>5. CASE RoundEnds BY <1>5, Zenon DEF RoundEnds
<1>6. CASE PollWake BY <1>6 DEF PollWake
<1>7. CASE PollOther BY <1>7, Zenon DEF PollOther
<1>8. CASE Drain BY <1>8 DEF Drain
<1>9. CASE ClearPending BY <1>9, Zenon DEF ClearPending
<1>10. CASE UNCHANGED wakeup_vars BY <1>10, Zenon DEF wakeup_vars
<1> QED
  BY <1>1, <1>2, <1>3, <1>4, <1>5, <1>6, <1>7, <1>8, <1>9, <1>10, Zenon DEF WakeupNext, WorkerStep

(* The pending flag of IoWakeup stands for exactly one wakeup: the eventfd *)
(* never counts beyond one, and no two senders write to it.                *)
THEOREM OneWakeupAlways == WakeupSpec => []OneWakeup
<1>1. WakeupInit => OneWakeup
  BY DEF WakeupInit, OneWakeup, Writing
<1>2. TypeOK /\ OneWakeup /\ [WakeupNext]_wakeup_vars => TypeOK' /\ OneWakeup'
  BY TypeStep, OneWakeupStep, Zenon
<1> QED
  BY <1>1, <1>2, TypeInit, PTL DEF WakeupSpec

-----------------------------------------------------------------------------
(* Only a sender whose write has failed resets the flag. *)
ResetsAreFailures == \A s \in Senders : spc[s] = "reset" => failed

(* The inductive invariant.  NoLostWakeup needs OneWakeup where a sender   *)
(* finds the flag set and skips its write: someone else's wakeup is then   *)
(* still to come, or in the eventfd; and it needs ResetsAreFailures where  *)
(* that someone gives up.                                                  *)
WakeupInv == TypeOK /\ OneWakeup /\ ResetsAreFailures /\ NoLostWakeup

LEMMA WakeupStep == WakeupInv /\ [WakeupNext]_wakeup_vars => ResetsAreFailures' /\ NoLostWakeup'
<1> SUFFICES ASSUME WakeupInv, [WakeupNext]_wakeup_vars PROVE ResetsAreFailures' /\ NoLostWakeup'
  BY Zenon
<1> USE DEF WakeupInv, TypeOK, ResetsAreFailures, NoLostWakeup
<1>1. ASSUME NEW s \in Senders, TrySend(s) PROVE ResetsAreFailures' /\ NoLostWakeup'
  BY <1>1, Zenon DEF TrySend
<1>2. ASSUME NEW s \in Senders, Notify(s) PROVE ResetsAreFailures' /\ NoLostWakeup'
  <2>1. CASE Swap(s)
    <3>1. ResetsAreFailures' BY <2>1, Zenon DEF Swap
    <3>2. CASE ~pending BY <2>1, <3>1, <3>2, Zenon DEF Swap
    <3>3. CASE pending
      <4>1. eventfd = 1 \/ ipc = "clear" \/ \E t \in Senders : Writing(t)
        BY <3>3, Zenon DEF OneWakeup
      <4>2. ASSUME NEW t \in Senders, Writing(t) PROVE NoLostWakeup'
        BY <4>2, <2>1, <3>3, Zenon DEF Writing, Swap
      <4> QED BY <2>1, <3>1, <4>1, <4>2 DEF Swap
    <3> QED BY <3>2, <3>3, Zenon
  <2>2. CASE Write(s) BY <2>2 DEF Write
  <2>3. CASE WriteFails(s) BY <2>3, Zenon DEF WriteFails
  <2>4. CASE Reset(s) BY <2>4, Zenon DEF Reset
  <2> QED BY <1>2, <2>1, <2>2, <2>3, <2>4, Zenon DEF Notify
<1>3. ASSUME NEW found \in BOOLEAN, Receive(found) PROVE ResetsAreFailures' /\ NoLostWakeup'
  BY <1>3, Zenon DEF Receive
<1>4. ASSUME NEW sent \in BOOLEAN, Transmit(sent) PROVE ResetsAreFailures' /\ NoLostWakeup'
  BY <1>4, Zenon DEF Transmit
<1>5. CASE RoundEnds BY <1>5, Zenon DEF RoundEnds
<1>6. CASE PollWake BY <1>6, Zenon DEF PollWake
<1>7. CASE PollOther BY <1>7, Zenon DEF PollOther
<1>8. CASE Drain BY <1>8, Zenon DEF Drain
<1>9. CASE ClearPending BY <1>9, Zenon DEF ClearPending
<1>10. CASE UNCHANGED wakeup_vars BY <1>10, Zenon DEF wakeup_vars
<1> QED
  BY <1>1, <1>2, <1>3, <1>4, <1>5, <1>6, <1>7, <1>8, <1>9, <1>10, Zenon DEF WakeupNext, WorkerStep

(* No packet is left to a sleeping IO worker: while it is in poll with a   *)
(* packet in its channel, the eventfd is readable or a sender has still to *)
(* write, unless a write has failed.                                       *)
THEOREM WakeupsAreNotLost == WakeupSpec => []NoLostWakeup
<1>1. WakeupInit => WakeupInv
  <2>1. WakeupInit => OneWakeup /\ ResetsAreFailures /\ NoLostWakeup
    BY DEF WakeupInit, OneWakeup, Writing, ResetsAreFailures, NoLostWakeup
  <2> QED BY <2>1, TypeInit, Zenon DEF WakeupInv
<1>2. WakeupInv /\ [WakeupNext]_wakeup_vars => WakeupInv'
  BY TypeStep, OneWakeupStep, WakeupStep, Zenon DEF WakeupInv
<1>3. WakeupInv => NoLostWakeup
  BY Zenon DEF WakeupInv
<1> QED
  BY <1>1, <1>2, <1>3, PTL DEF WakeupSpec

-----------------------------------------------------------------------------
(* The public destinations. *)

(* is_public_v4 and is_public_destination accept the same IPv4 addresses. *)
THEOREM PublicV4Agrees ==
  \A a, b, c, d \in Byte : IsPublicV4(a, b, c, d) <=> IsPublicDestinationV4(a, b, c, d)
BY DEF Byte, IsPublicV4, IsPublicDestinationV4, IsPrivate

(* A segment's value gives its two bytes. *)
LEMMA SegmentBytes ==
  ASSUME NEW h \in Byte, NEW l \in Byte, NEW x \in Byte, NEW y \in Byte
  PROVE  256 * h + l = 256 * x + y <=> h = x /\ l = y
BY DEF Byte

LEMMA HighByte ==
  ASSUME NEW h \in Byte, NEW l \in Byte
  PROVE  (256 * h + l) \div 256 = h
BY DEF Byte

(* The mask of a segment acts on one of its bytes. *)
LEMMA MaskedLow ==
  ASSUME NEW h \in Byte, NEW l \in Byte
  PROVE  Masked(256 * h + l, 64) = 256 * h + Masked(l, 64)
<1>1. (256 * h + l) % 64 = l % 64 BY DEF Byte
<1> QED BY <1>1 DEF Byte, Masked

LEMMA MaskedLowByte ==
  ASSUME NEW l \in Byte
  PROVE  Masked(l, 64) \in Byte
<1>1. l % 64 \in 0..63 /\ l % 64 <= l BY DEF Byte
<1> QED BY <1>1 DEF Byte, Masked

LEMMA MaskedHigh ==
  ASSUME NEW h \in Byte, NEW l \in Byte
  PROVE  Masked(256 * h + l, 512) = 256 * Masked(h, 2)
<1>1. h = 2 * (h \div 2) + (h % 2) /\ h % 2 \in 0..1 /\ h \div 2 \in Nat BY DEF Byte
<1>2. (256 * h + l) % 512 = 256 * (h % 2) + l
  <2> DEFINE q == h \div 2
             r == h % 2
  <2>1. 256 * h + l = 512 * q + (256 * r + l) BY <1>1 DEF Byte
  <2>2. 256 * r + l \in 0..511 BY <1>1 DEF Byte
  <2>3. q \in Nat BY <1>1, Zenon
  <2> HIDE DEF q, r
  <2> QED BY <2>1, <2>2, <2>3 DEF r
<1> QED BY <1>1, <1>2 DEF Byte, Masked

LEMMA SegmentIs ==
  ASSUME NEW s \in V6Bytes, NEW k \in 0..7, NEW x \in Byte, NEW y \in Byte
  PROVE  Segment(s, k) = 256 * x + y <=> s[2 * k] = x /\ s[2 * k + 1] = y
<1>1. 2 * k \in 0..15 /\ 2 * k + 1 \in 0..15 OBVIOUS
<1>2. s[2 * k] \in Byte /\ s[2 * k + 1] \in Byte BY <1>1, Zenon DEF V6Bytes
<1> DEFINE h == s[2 * k]
           l == s[2 * k + 1]
<1>3. Segment(s, k) = 256 * h + l BY Zenon DEF Segment
<1> HIDE DEF h, l
<1>4. h \in Byte /\ l \in Byte BY <1>2, Zenon DEF h, l
<1>5. 256 * h + l = 256 * x + y <=> h = x /\ l = y BY <1>4, SegmentBytes
<1> QED BY <1>3, <1>5, Zenon DEF h, l

(* A segment is zero if its bytes are. *)
LEMMA ZeroBytes ==
  ASSUME NEW s \in V6Bytes, NEW last \in 0..7
  PROVE  ZeroSegments(s, last) <=> Zero(s, 0, 2 * last + 1)
<1>1. \A i \in 0..15 : s[i] \in Byte BY Zenon DEF V6Bytes
<1>2. \A k \in 0..7 : Segment(s, k) = 0 <=> s[2 * k] = 0 /\ s[2 * k + 1] = 0
  <2> SUFFICES ASSUME NEW k \in 0..7
               PROVE  Segment(s, k) = 0 <=> s[2 * k] = 0 /\ s[2 * k + 1] = 0
    BY Zenon
  <2>1. 0 \in Byte BY DEF Byte
  <2>2. Segment(s, k) = 256 * 0 + 0 <=> s[2 * k] = 0 /\ s[2 * k + 1] = 0 BY <2>1, SegmentIs
  <2> QED BY <2>2
<1>3. ASSUME ZeroSegments(s, last), NEW i \in 0..(2 * last + 1) PROVE s[i] = 0
  <2>1. PICK k \in 0..last : i = 2 * k \/ i = 2 * k + 1
    <3>1. i \div 2 \in 0..last /\ (i = 2 * (i \div 2) \/ i = 2 * (i \div 2) + 1) OBVIOUS
    <3> QED BY <3>1, Zenon
  <2>2. Segment(s, k) = 0 BY <1>3, Zenon DEF ZeroSegments
  <2>3. k \in 0..7 OBVIOUS
  <2> QED BY <1>2, <2>1, <2>2, <2>3
<1>4. ASSUME Zero(s, 0, 2 * last + 1), NEW k \in 0..last PROVE Segment(s, k) = 0
  <2>1. 2 * k \in 0..(2 * last + 1) /\ 2 * k + 1 \in 0..(2 * last + 1) OBVIOUS
  <2>2. s[2 * k] = 0 /\ s[2 * k + 1] = 0 BY <1>4, <2>1, Zenon DEF Zero
  <2>3. k \in 0..7 OBVIOUS
  <2> QED BY <1>2, <2>2, <2>3, Zenon
<1> QED BY <1>3, <1>4, Zenon DEF Zero, ZeroSegments

(* is_public_v6, which reads bytes, and is_public_destination, which reads *)
(* segments, accept the same IPv6 addresses.                               *)
THEOREM PublicV6Agrees == \A s \in V6Bytes : IsPublicV6(s) <=> IsPublicDestinationV6(s)
<1> SUFFICES ASSUME NEW s \in V6Bytes PROVE IsPublicV6(s) <=> IsPublicDestinationV6(s)
  BY Zenon
<1>1. {0, 1, 2, 13, 32, 184, 255} \subseteq Byte /\ \A i \in 0..15 : s[i] \in Byte
  BY DEF Byte, V6Bytes
<1>2. /\ Segment(s, 0) = 256 * s[0] + s[1] /\ Segment(s, 1) = 256 * s[2] + s[3]
      /\ Segment(s, 2) = 256 * s[4] + s[5] /\ Segment(s, 3) = 256 * s[6] + s[7]
      /\ Segment(s, 5) = 256 * s[10] + s[11] /\ Segment(s, 7) = 256 * s[14] + s[15]
  BY DEF Segment
<1>3. IsUnspecifiedV6(s) <=> ZeroSegments(s, 7) BY ZeroBytes DEF IsUnspecifiedV6
<1>4. IsLoopbackV6(s) <=> ZeroSegments(s, 6) /\ Segment(s, 7) = 1
  <2>1. ZeroSegments(s, 6) <=> Zero(s, 0, 13) BY ZeroBytes
  <2>2. Segment(s, 7) = 256 * 0 + 1 <=> s[2 * 7] = 0 /\ s[2 * 7 + 1] = 1 BY <1>1, SegmentIs
  <2>3. Zero(s, 0, 14) <=> Zero(s, 0, 13) /\ s[14] = 0 BY DEF Zero
  <2> QED BY <2>1, <2>2, <2>3 DEF IsLoopbackV6
<1>5. s[0] = 255 <=> Segment(s, 0) \div 256 = 255 BY <1>1, <1>2, HighByte
<1>6. /\ Masked(Segment(s, 0), 64) = 256 * s[0] + Masked(s[1], 64)
      /\ Masked(Segment(s, 0), 512) = 256 * Masked(s[0], 2)
      /\ Masked(s[1], 64) \in Byte
  BY <1>1, <1>2, MaskedLow, MaskedHigh, MaskedLowByte
<1>7. s[0] = 254 /\ Masked(s[1], 64) = 128 <=> Masked(Segment(s, 0), 64) = 65152
  <2> DEFINE h == s[0]
             l == Masked(s[1], 64)
  <2>1. 254 \in Byte /\ 128 \in Byte BY DEF Byte
  <2>2. h \in Byte /\ l \in Byte BY <1>1, <1>6
  <2> HIDE DEF h, l
  <2>3. 256 * h + l = 256 * 254 + 128 <=> h = 254 /\ l = 128 BY <2>1, <2>2, SegmentBytes
  <2> QED BY <1>6, <2>3 DEF h, l
<1>8. s[0] = 254 /\ Masked(s[1], 64) = 192 <=> Masked(Segment(s, 0), 64) = 65216
  <2> DEFINE h == s[0]
             l == Masked(s[1], 64)
  <2>1. 254 \in Byte /\ 192 \in Byte BY DEF Byte
  <2>2. h \in Byte /\ l \in Byte BY <1>1, <1>6
  <2> HIDE DEF h, l
  <2>3. 256 * h + l = 256 * 254 + 192 <=> h = 254 /\ l = 192 BY <2>1, <2>2, SegmentBytes
  <2> QED BY <1>6, <2>3 DEF h, l
<1>9. Masked(s[0], 2) = 252 <=> Masked(Segment(s, 0), 512) = 64512
  <2>1. Masked(s[0], 2) \in Int BY <1>1 DEF Byte, Masked
  <2> QED BY <1>6, <2>1, SMTT(30)
<1>10. Zero(s, 0, 9) /\ s[10] = 255 /\ s[11] = 255
       <=> ZeroSegments(s, 4) /\ Segment(s, 5) = 65535
  <2>1. ZeroSegments(s, 4) <=> Zero(s, 0, 9) BY ZeroBytes
  <2>2. Segment(s, 5) = 256 * 255 + 255 <=> s[2 * 5] = 255 /\ s[2 * 5 + 1] = 255 BY <1>1, SegmentIs
  <2> QED BY <2>1, <2>2
<1>11. s[0] = 1 /\ s[1] = 0 /\ Zero(s, 2, 7)
       <=> Segment(s, 0) = 256 /\ Segment(s, 1) = 0 /\ Segment(s, 2) = 0 /\ Segment(s, 3) = 0
  <2>1. Zero(s, 2, 7) <=> s[2] = 0 /\ s[3] = 0 /\ s[4] = 0 /\ s[5] = 0 /\ s[6] = 0 /\ s[7] = 0
    BY DEF Zero
  <2>2. Segment(s, 0) = 256 * 1 + 0 <=> s[2 * 0] = 1 /\ s[2 * 0 + 1] = 0 BY <1>1, SegmentIs
  <2>3. Segment(s, 1) = 256 * 0 + 0 <=> s[2 * 1] = 0 /\ s[2 * 1 + 1] = 0 BY <1>1, SegmentIs
  <2>4. Segment(s, 2) = 256 * 0 + 0 <=> s[2 * 2] = 0 /\ s[2 * 2 + 1] = 0 BY <1>1, SegmentIs
  <2>5. Segment(s, 3) = 256 * 0 + 0 <=> s[2 * 3] = 0 /\ s[2 * 3 + 1] = 0 BY <1>1, SegmentIs
  <2> QED BY <2>1, <2>2, <2>3, <2>4, <2>5
<1>12. Segment(s, 0) = 256 * 32 + 1 <=> s[2 * 0] = 32 /\ s[2 * 0 + 1] = 1 BY <1>1, SegmentIs
<1>13. Segment(s, 1) = 256 * 13 + 184 <=> s[2 * 1] = 13 /\ s[2 * 1 + 1] = 184 BY <1>1, SegmentIs
<1>14. Segment(s, 1) = 256 * 0 + 2 <=> s[2 * 1] = 0 /\ s[2 * 1 + 1] = 2 BY <1>1, SegmentIs
<1>15. Segment(s, 2) = 256 * 0 + 0 <=> s[2 * 2] = 0 /\ s[2 * 2 + 1] = 0 BY <1>1, SegmentIs
<1> QED
  BY <1>3, <1>4, <1>5, <1>7, <1>8, <1>9, <1>10, <1>11, <1>12, <1>13, <1>14, <1>15
  DEF IsPublicV6, IsPublicDestinationV6
=============================================================================
