--------------------------- MODULE RecorderProofs ---------------------------
(***************************************************************************)
(* The waveform recorder, for any number of supplies, any channels and any *)
(* size of its buffers: what is read out after an acquisition is the       *)
(* samples around its trigger, in both buffers.  The types of the source   *)
(* of setpoints and of the recorder together are here too.                 *)
(***************************************************************************)
EXTENDS MCStreams, PsStreamProofs, FiniteSetTheorems, TLAPS

-----------------------------------------------------------------------------
(* Places of the circular buffers *)

Places == 0 .. Capacity - 1

(* A place of a ring that counts on, from behind the last to the first.    *)
Around(x, n) == IF x < n THEN x ELSE x - n

(* So many places ahead of the place b, or behind it.                      *)
Ahead(b, x) == Around(b + x, Capacity)
Behind(b, x) == IF x <= b THEN b - x ELSE b - x + Capacity

LEMMA CapacityPositive == Capacity \in Nat \ {0}
BY RecorderSuppliesAssumption, RecorderCapacityAssumption

LEMMA WrappedAround ==
  ASSUME NEW n \in Nat \ {0}, NEW x \in 0 .. 2 * n - 1
  PROVE  x % n = Around(x, n)
<1> DEFINE q == x \div n
           r == x % n
<1>1. q \in Nat /\ r \in 0 .. n - 1 /\ x = q * n + r
  OBVIOUS
<1>2. q \in {0, 1}
  <2>1. ASSUME q \notin {0, 1}
        PROVE  FALSE
    <3> DEFINE k == q - 2
    <3>1. k \in Nat /\ q = 2 + k
      BY <1>1, <2>1
    <3> HIDE DEF k, q
    <3>2. q * n = 2 * n + k * n /\ k * n \in Nat
      BY <3>1
    <3>3. QED
      BY <1>1, <3>2
  <2>2. QED
    BY <2>1
<1> HIDE DEF q, r
<1>3. r = Around(x, n)
  <2>1. CASE q = 0
    BY <1>1, <2>1 DEF Around
  <2>2. CASE q = 1
    BY <1>1, <2>2 DEF Around
  <2>3. QED
    BY <1>2, <2>1, <2>2
<1>4. QED
  BY <1>3 DEF r

(* Up to three times around, as for what is read out.                      *)
LEMMA WrappedTwice ==
  ASSUME NEW n \in Nat \ {0}, NEW x \in 0 .. 3 * n - 1
  PROVE  x % n = IF x < n THEN x ELSE Around(x - n, n)
<1>1. CASE x < 2 * n
  <2>1. x % n = Around(x, n)
    BY <1>1, WrappedAround
  <2>2. QED
    BY <1>1, <2>1 DEF Around
<1>2. CASE x >= 2 * n
  <2> DEFINE q == x \div n
             r == x % n
  <2>1. q \in Nat /\ r \in 0 .. n - 1 /\ x = q * n + r
    OBVIOUS
  <2> HIDE DEF q, r
  <2>2. q = 2
    <3>1. ASSUME q < 2
          PROVE  FALSE
      <4>1. q = 0 \/ q = 1
        BY <2>1, <3>1
      <4>2. q * n <= n
        BY <4>1
      <4>3. QED
        BY <1>2, <2>1, <4>2
    <3>2. ASSUME q > 2
          PROVE  FALSE
      <4> DEFINE k == q - 3
      <4>1. k \in Nat /\ q = 3 + k
        BY <2>1, <3>2
      <4> HIDE DEF k
      <4>2. q * n = 3 * n + k * n /\ k * n \in Nat
        BY <4>1
      <4>3. QED
        BY <2>1, <4>2
    <3>3. QED
      BY <2>1, <3>1, <3>2
  <2>3. r = x - 2 * n
    BY <2>1, <2>2
  <2>4. QED
    BY <1>2, <2>1, <2>3 DEF r, Around
<1>3. QED
  BY <1>1, <1>2

LEMMA PlacesAhead ==
  ASSUME NEW b \in Places
  PROVE  /\ \A x \in 0 .. Capacity : (b + x) % Capacity = Ahead(b, x) /\ Ahead(b, x) \in Places
         /\ \A x \in 1 .. Capacity : Behind(b, x) \in Places
         /\ \A x, y \in 0 .. Capacity - 1 : Ahead(b, x) = Ahead(b, y) => x = y
         /\ \A x \in 0 .. Capacity - 1, y \in 1 .. Capacity :
              x + y < Capacity => Ahead(b, x) # Behind(b, y)
<1> USE CapacityPositive
<1>1. ASSUME NEW x \in 0 .. Capacity
      PROVE  (b + x) % Capacity = Ahead(b, x) /\ Ahead(b, x) \in Places
  <2>1. b + x \in 0 .. 2 * Capacity - 1
    BY DEF Places
  <2>2. (b + x) % Capacity = Around(b + x, Capacity)
    BY <2>1, WrappedAround
  <2>3. QED
    BY <2>1, <2>2 DEF Ahead, Around, Places
<1>2. \A x \in 1 .. Capacity : Behind(b, x) \in Places
  BY DEF Behind, Places
<1>3. \A x, y \in 0 .. Capacity - 1 : Ahead(b, x) = Ahead(b, y) => x = y
  BY DEF Ahead, Around, Places
<1>4. \A x \in 0 .. Capacity - 1, y \in 1 .. Capacity :
        x + y < Capacity => Ahead(b, x) # Behind(b, y)
  BY DEF Ahead, Around, Behind, Places
<1>5. QED
  BY <1>1, <1>2, <1>3, <1>4

(* What was ahead is behind when the base has moved on.                    *)
LEMMA PlacesMove ==
  ASSUME NEW b \in Places, NEW k \in 1 .. Capacity
  PROVE  /\ \A x \in 1 .. Capacity : x <= k => Behind(Ahead(b, k), x) = Ahead(b, k - x)
         /\ \A x \in 1 .. Capacity :
              x > k => Behind(Ahead(b, k), x) = Behind(b, x - k)
         /\ Behind(Ahead(b, k), k) = b
<1> USE CapacityPositive
<1>1. \A x \in 1 .. Capacity : x <= k => Behind(Ahead(b, k), x) = Ahead(b, k - x)
  BY DEF Ahead, Around, Behind, Places
<1>2. \A x \in 1 .. Capacity : x > k => Behind(Ahead(b, k), x) = Behind(b, x - k)
  BY DEF Ahead, Around, Behind, Places
<1>3. Behind(Ahead(b, k), k) = b
  BY DEF Ahead, Around, Behind, Places
<1>4. QED
  BY <1>1, <1>2, <1>3

-----------------------------------------------------------------------------
(* Products *)

LEMMA ProductGrows ==
  ASSUME NEW a \in Nat, NEW b \in Nat, NEW k \in Nat, a <= b
  PROVE  a * k <= b * k /\ a * k \in Nat /\ b * k \in Nat
<1> DEFINE d == b - a
<1>1. d \in Nat /\ b = a + d
  OBVIOUS
<1> HIDE DEF d
<1>2. b * k = a * k + d * k /\ d * k \in Nat /\ a * k \in Nat
  BY <1>1
<1>3. QED
  BY <1>2

(* The word j of the sample s back is one of the last m samples.           *)
LEMMA WordsBack ==
  ASSUME NEW k \in Nat \ {0}, NEW m \in Nat, NEW s \in 1 .. m, NEW j \in 0 .. k - 1
  PROVE  /\ s * k - j \in 1 .. m * k
         /\ (s - 1) * k = s * k - k
         /\ s > 1 => s * k - j > k
<1>1. (s - 1) * k = s * k - k
  OBVIOUS
<1>2. s * k <= m * k /\ m * k \in Nat
  BY ProductGrows
<1>3. (s - 1) * k \in Nat
  BY ProductGrows
<1>4. s > 1 => 1 * k <= (s - 1) * k
  <2>1. 1 \in Nat /\ s - 1 \in Nat /\ k \in Nat /\ (s > 1 => 1 <= s - 1)
    OBVIOUS
  <2>2. QED
    BY <2>1, ProductGrows
<1>5. s * k \in Nat /\ m * k \in Nat
  BY <1>2, ProductGrows
<1> DEFINE sk == s * k
           mk == m * k
<1>6. s * k - j \in 1 .. m * k
  <2>1. sk \in Nat /\ mk \in Nat /\ sk <= mk /\ sk - k >= 0
    BY <1>1, <1>2, <1>3, <1>5
  <2> HIDE DEF sk, mk
  <2>2. sk - j \in 1 .. mk
    BY <2>1
  <2>3. QED
    BY <2>2 DEF sk, mk
<1>7. s > 1 => s * k - j > k
  <2>1. sk \in Nat /\ (s > 1 => k <= sk - k)
    BY <1>1, <1>4, <1>5
  <2> HIDE DEF sk
  <2>2. s > 1 => sk - j > k
    BY <2>1
  <2>3. QED
    BY <2>2 DEF sk
<1>8. QED
  BY <1>1, <1>6, <1>7

LEMMA Divided ==
  ASSUME NEW n \in Nat, NEW k \in Nat \ {0}
  PROVE  /\ n \div k \in Nat /\ n % k \in 0 .. k - 1
         /\ n = (n \div k) * k + (n % k)
<1> DEFINE q == n \div k
           r == n % k
<1>1. q \in Nat /\ r \in 0 .. k - 1 /\ n = q * k + r
  OBVIOUS
<1>2. QED
  BY <1>1

-----------------------------------------------------------------------------
(* Channels and their places in a sample *)

RankIn(channels, c) == Cardinality({d \in channels : d < c})
ChannelIn(channels, j) == CHOOSE d \in channels : RankIn(channels, d) = j

LEMMA ChannelsFinite ==
  ASSUME NEW A \in SUBSET RecorderChannels
  PROVE  /\ IsFiniteSet(A) /\ Cardinality(A) \in 0 .. RecorderSupplies
         /\ \A T \in SUBSET A : /\ IsFiniteSet(T) /\ Cardinality(T) \in 0 .. Cardinality(A)
                                /\ Cardinality(T) = Cardinality(A) => T = A
         /\ A # {} <=> Cardinality(A) >= 1
<1> USE RecorderSuppliesAssumption
<1>1. IsFiniteSet(RecorderChannels) /\ Cardinality(RecorderChannels) = RecorderSupplies
  <2>1. 0 \in Int /\ RecorderSupplies - 1 \in Int
    OBVIOUS
  <2>2. IsFiniteSet(0 .. RecorderSupplies - 1)
        /\ Cardinality(0 .. RecorderSupplies - 1)
             = IF 0 > RecorderSupplies - 1 THEN 0 ELSE RecorderSupplies - 1 - 0 + 1
    BY <2>1, FS_Interval
  <2>3. QED
    BY <2>2 DEF RecorderChannels
<1>2. IsFiniteSet(A) /\ Cardinality(A) <= RecorderSupplies
  BY <1>1, FS_Subset
<1>3. Cardinality(A) \in Nat
  BY <1>2, FS_CardinalityType
<1>4. ASSUME NEW T \in SUBSET A
      PROVE  /\ IsFiniteSet(T) /\ Cardinality(T) \in 0 .. Cardinality(A)
             /\ Cardinality(T) = Cardinality(A) => T = A
  <2>1. IsFiniteSet(T) /\ Cardinality(T) <= Cardinality(A)
        /\ (Cardinality(A) = Cardinality(T) => A = T)
    BY <1>2, FS_Subset
  <2>2. Cardinality(T) \in Nat
    BY <2>1, FS_CardinalityType
  <2>3. QED
    BY <1>3, <2>1, <2>2
<1>5. A # {} <=> Cardinality(A) >= 1
  <2>1. Cardinality(A) = 0 <=> A = {}
    BY <1>2, FS_EmptySet
  <2>2. QED
    BY <1>3, <2>1
<1>6. QED
  BY <1>2, <1>3, <1>4, <1>5

(* Going up through the channels, the rank counts those in the set, each   *)
(* of which can be told from its rank.                                     *)
LEMMA Ranks ==
  ASSUME NEW A \in SUBSET RecorderChannels
  PROVE  /\ RankIn(A, 0) = 0 /\ RankIn(A, RecorderSupplies) = Cardinality(A)
         /\ \A c \in 0 .. RecorderSupplies :
              /\ RankIn(A, c) \in 0 .. Cardinality(A)
              /\ c \in A => /\ RankIn(A, c + 1) = RankIn(A, c) + 1
                            /\ RankIn(A, c) < Cardinality(A)
                            /\ ChannelIn(A, RankIn(A, c)) = c
              /\ c \notin A => RankIn(A, c + 1) = RankIn(A, c)
<1> USE RecorderSuppliesAssumption
<1> DEFINE Below(c) == {d \in A : d < c}
<1>1. \A d \in A : d \in 0 .. RecorderSupplies - 1
  BY DEF RecorderChannels
<1>2. RankIn(A, 0) = 0
  <2>1. Below(0) = {}
    BY <1>1
  <2>2. QED
    BY <2>1, FS_EmptySet DEF RankIn
<1>3. RankIn(A, RecorderSupplies) = Cardinality(A)
  <2>1. Below(RecorderSupplies) = A
    BY <1>1
  <2>2. QED
    BY <2>1 DEF RankIn
<1>4. ASSUME NEW c \in Int
      PROVE  /\ RankIn(A, c) \in 0 .. Cardinality(A) /\ IsFiniteSet(Below(c))
             /\ c \in A => /\ RankIn(A, c + 1) = RankIn(A, c) + 1
                           /\ RankIn(A, c) < Cardinality(A)
             /\ c \notin A => RankIn(A, c + 1) = RankIn(A, c)
  <2>1. RankIn(A, c) \in 0 .. Cardinality(A) /\ IsFiniteSet(Below(c))
    <3>1. Below(c) \in SUBSET A
      OBVIOUS
    <3>2. QED
      BY <3>1, ChannelsFinite DEF RankIn
  <2>2. CASE c \in A
    <3>1. Below(c + 1) = Below(c) \cup {c} /\ c \notin Below(c)
      <4>1. \A d \in A : d < c + 1 <=> d < c \/ d = c
        BY <1>1
      <4>2. ~(c < c)
        OBVIOUS
      <4>3. QED
        BY <2>2, <4>1, <4>2, Zenon
    <3>2. Cardinality(Below(c) \cup {c}) = Cardinality(Below(c)) + 1
      BY <2>1, <3>1, FS_AddElement
    <3>3. RankIn(A, c + 1) = RankIn(A, c) + 1
      BY <3>1, <3>2 DEF RankIn
    <3>4. RankIn(A, c + 1) \in 0 .. Cardinality(A)
      <4>1. Below(c + 1) \in SUBSET A
        OBVIOUS
      <4>2. QED
        BY <4>1, ChannelsFinite DEF RankIn
    <3>5. Cardinality(A) \in Nat
      BY ChannelsFinite
    <3>6. QED
      BY <2>1, <2>2, <3>3, <3>4, <3>5
  <2>3. CASE c \notin A
    <3>1. \A d \in A : d < c + 1 <=> d < c
      BY <1>1, <2>3
    <3>2. Below(c + 1) = Below(c)
      BY <3>1, Zenon
    <3>3. QED
      BY <2>1, <2>3, <3>2 DEF RankIn
  <2>4. QED
    BY <2>2, <2>3, <2>1
<1>5. ASSUME NEW c \in A, NEW d \in A, c < d
      PROVE  RankIn(A, c) < RankIn(A, d)
  <2>1. c \in Int /\ d \in Int /\ c + 1 \in Int
    BY <1>1
  <2>2. RankIn(A, c + 1) = RankIn(A, c) + 1 /\ RankIn(A, c) \in 0 .. Cardinality(A)
    BY <1>4, <2>1
  <2>3. Below(c + 1) \in SUBSET Below(d) /\ IsFiniteSet(Below(d))
    <3>1. \A e \in A : e < c + 1 => e < d
      BY <1>1, <1>5, <2>1
    <3>2. Below(c + 1) \in SUBSET Below(d)
      BY <3>1, Zenon
    <3>3. QED
      BY <1>4, <2>1, <3>2
  <2>4. Cardinality(Below(c + 1)) <= Cardinality(Below(d))
    BY <2>3, FS_Subset
  <2>5. RankIn(A, d) \in 0 .. Cardinality(A) /\ RankIn(A, c + 1) <= RankIn(A, d)
    BY <1>4, <2>1, <2>4 DEF RankIn
  <2>6. Cardinality(A) \in Nat
    BY ChannelsFinite
  <2>7. QED
    BY <2>2, <2>5, <2>6
<1>6. ASSUME NEW c \in A
      PROVE  ChannelIn(A, RankIn(A, c)) = c
  <2> DEFINE e == ChannelIn(A, RankIn(A, c))
  <2>1. e \in A /\ RankIn(A, e) = RankIn(A, c)
    BY DEF ChannelIn
  <2> HIDE DEF e
  <2>2. c \in Int /\ e \in Int
    BY <1>1, <2>1
  <2>3. RankIn(A, c) \in 0 .. Cardinality(A) /\ Cardinality(A) \in Nat
    <3>1. RankIn(A, c) \in 0 .. Cardinality(A)
      BY <1>4, <2>2
    <3>2. QED
      BY <3>1, ChannelsFinite
  <2>4. ~(e < c)
    BY <1>5, <2>1, <2>3
  <2>5. ~(c < e)
    BY <1>5, <2>1, <2>3
  <2>6. e = c
    BY <2>2, <2>4, <2>5
  <2>7. QED
    BY <2>6 DEF e
<1> HIDE DEF Below
<1>7. \A c \in 0 .. RecorderSupplies : c \in Int
  OBVIOUS
<1>8. QED
  BY <1>2, <1>3, <1>4, <1>6, <1>7

-----------------------------------------------------------------------------
(* What the buffers hold *)

(* The words of the sample under way, of the cycle c, that have come.      *)
Begun(buffer, b, A, k, c, offset) ==
  \A j \in 0 .. k - 1 : j < offset => buffer[Ahead(b, j)] = <<c, ChannelIn(A, j)>>

(* The last m samples, those before the place b.                           *)
Held(buffer, b, A, k, samples, m) ==
  \A s \in 1 .. m, j \in 0 .. k - 1 :
    s <= Len(samples)
      => buffer[Behind(b, s * k - j)]
           = <<samples[Len(samples) + 1 - s], ChannelIn(A, j)>>

(* A word stored where its channel belongs in the sample under way.        *)
LEMMA WordStored ==
  ASSUME NEW b \in Places, NEW A, NEW k \in Nat \ {0}, NEW m \in Nat, (m + 1) * k <= Capacity,
         NEW offset \in 0 .. k - 1, NEW W, NEW buffer \in [Places -> W], NEW samples, NEW c,
         Begun(buffer, b, A, k, c, offset), Held(buffer, b, A, k, samples, m),
         NEW stored,
         stored = [buffer EXCEPT ![(b + offset) % Capacity] = <<c, ChannelIn(A, offset)>>]
  PROVE  Begun(stored, b, A, k, c, offset + 1) /\ Held(stored, b, A, k, samples, m)
<1> USE CapacityPositive
<1>1. (m + 1) * k = m * k + k /\ m * k \in Nat
  OBVIOUS
<1>2. k \in 1 .. Capacity /\ m * k + k <= Capacity /\ offset \in 0 .. Capacity - 1
  <2> DEFINE mk == m * k
  <2>1. mk \in Nat /\ mk + k <= Capacity
    BY <1>1
  <2> HIDE DEF mk
  <2>2. k \in 1 .. Capacity /\ offset \in 0 .. Capacity - 1
    BY <2>1
  <2>3. QED
    BY <2>1, <2>2 DEF mk
<1> DEFINE here == Ahead(b, offset)
<1>3. (b + offset) % Capacity = here /\ here \in Places
  BY <1>2, PlacesAhead
<1>4. stored = [buffer EXCEPT ![here] = <<c, ChannelIn(A, offset)>>]
  BY <1>3
<1> HIDE DEF here
<1>5. stored[here] = <<c, ChannelIn(A, offset)>>
      /\ \A p \in Places : p # here => stored[p] = buffer[p]
  BY <1>3, <1>4
<1>6. ASSUME NEW j \in 0 .. k - 1, j < offset + 1
      PROVE  stored[Ahead(b, j)] = <<c, ChannelIn(A, j)>>
  <2>1. CASE j = offset
    BY <1>5, <2>1 DEF here
  <2>2. CASE j # offset
    <3>1. j < offset /\ j \in 0 .. Capacity - 1
      BY <1>2, <1>6, <2>2
    <3>2. Ahead(b, j) # here /\ Ahead(b, j) \in Places
      BY <1>2, <2>2, <3>1, PlacesAhead DEF here
    <3>3. buffer[Ahead(b, j)] = <<c, ChannelIn(A, j)>>
      BY <3>1 DEF Begun
    <3>4. QED
      BY <1>5, <3>2, <3>3
  <2>3. QED
    BY <2>1, <2>2
<1>7. ASSUME NEW s \in 1 .. m, NEW j \in 0 .. k - 1, s <= Len(samples)
      PROVE  stored[Behind(b, s * k - j)]
               = <<samples[Len(samples) + 1 - s], ChannelIn(A, j)>>
  <2> DEFINE y == s * k - j
  <2>1. y \in 1 .. m * k
    BY WordsBack
  <2> HIDE DEF y
  <2>2. y \in 1 .. Capacity /\ offset + y < Capacity
    <3> DEFINE mk == m * k
    <3>1. mk \in Nat /\ mk + k <= Capacity /\ y \in 1 .. mk
      BY <1>1, <1>2, <2>1
    <3> HIDE DEF mk
    <3>2. QED
      BY <3>1
  <2>3. Behind(b, y) \in Places /\ Behind(b, y) # here
    BY <1>2, <2>2, PlacesAhead DEF here
  <2>4. buffer[Behind(b, y)] = <<samples[Len(samples) + 1 - s], ChannelIn(A, j)>>
    BY <1>7 DEF Held, y
  <2>5. stored[Behind(b, y)] = buffer[Behind(b, y)]
    BY <1>5, <2>3
  <2>6. QED
    BY <2>4, <2>5 DEF y
<1>8. QED
  BY <1>6, <1>7 DEF Begun, Held

(* A sample that is complete is the last one before the next place.        *)
LEMMA SampleHeld ==
  ASSUME NEW b \in Places, NEW A, NEW k \in Nat \ {0}, NEW m \in Nat, (m + 1) * k <= Capacity,
         NEW buffer, NEW S, NEW samples \in Seq(S), NEW c \in S,
         Begun(buffer, b, A, k, c, k), Held(buffer, b, A, k, samples, m)
  PROVE  Held(buffer, (b + k) % Capacity, A, k, Append(samples, c), m + 1)
<1> USE CapacityPositive
<1> DEFINE more == Append(samples, c)
           n == Len(samples)
           b2 == Ahead(b, k)
           mk == m * k
<1>1. (m + 1) * k = mk + k /\ mk \in Nat
  OBVIOUS
<1>2. k \in 1 .. Capacity /\ mk + k <= Capacity
  <2>1. mk \in Nat /\ mk + k <= Capacity
    BY <1>1
  <2> HIDE DEF mk
  <2>2. QED
    BY <2>1
<1>3. /\ n \in Nat /\ Len(more) = n + 1 /\ more[n + 1] = c
      /\ \A i \in 1 .. n : more[i] = samples[i]
  OBVIOUS
<1>4. (b + k) % Capacity = b2
  BY <1>2, PlacesAhead
<1> HIDE DEF more, n, b2
<1>5. ASSUME NEW s \in 1 .. m + 1, NEW j \in 0 .. k - 1, s <= Len(more)
      PROVE  buffer[Behind(b2, s * k - j)] = <<more[Len(more) + 1 - s], ChannelIn(A, j)>>
  <2> DEFINE y == s * k - j
  <2>1. y \in 1 .. (m + 1) * k /\ (s > 1 => y > k) /\ (s - 1) * k = s * k - k
    <3>1. m + 1 \in Nat
      OBVIOUS
    <3>2. QED
      BY <3>1, WordsBack
  <2>2. y \in 1 .. Capacity
    <3>1. y \in 1 .. mk + k /\ mk \in Nat /\ mk + k <= Capacity
      BY <1>1, <1>2, <2>1
    <3> HIDE DEF y, mk
    <3>2. QED
      BY <3>1
  <2>3. CASE s = 1
    <3>1. y = k - j /\ more[Len(more) + 1 - s] = c
      BY <1>3, <2>3
    <3>2. Behind(b2, y) = Ahead(b, j)
      <4>1. y <= k /\ k - y = j
        BY <3>1
      <4>2. Behind(b2, y) = Ahead(b, k - y)
        BY <1>2, <2>2, <4>1, PlacesMove DEF b2
      <4>3. QED
        BY <4>1, <4>2
    <3>3. buffer[Ahead(b, j)] = <<c, ChannelIn(A, j)>>
      BY DEF Begun
    <3>4. QED
      BY <3>1, <3>2, <3>3
  <2>4. CASE s > 1
    <3>1. Behind(b2, y) = Behind(b, y - k)
      BY <1>2, <2>1, <2>2, <2>4, PlacesMove DEF b2
    <3>2. y - k = (s - 1) * k - j
      <4> DEFINE sk == s * k
                 tk == (s - 1) * k
      <4>1. y = sk - j /\ tk = sk - k /\ sk \in Int
        BY <2>1
      <4> HIDE DEF sk, tk, y
      <4>2. y - k = tk - j
        BY <4>1
      <4>3. QED
        BY <4>2 DEF tk
    <3>3. s - 1 \in 1 .. m /\ s - 1 <= n /\ more[Len(more) + 1 - s] = samples[n + 1 - (s - 1)]
      <4>1. s - 1 \in 1 .. m /\ s - 1 <= n
        BY <1>3, <1>5, <2>4
      <4>2. Len(more) + 1 - s = n + 1 - (s - 1) /\ n + 1 - (s - 1) \in 1 .. n
        BY <1>3, <2>4, <4>1
      <4>3. QED
        BY <1>3, <4>1, <4>2
    <3>4. buffer[Behind(b, (s - 1) * k - j)] = <<samples[n + 1 - (s - 1)], ChannelIn(A, j)>>
      BY <3>3 DEF Held, n
    <3>5. QED
      BY <3>1, <3>2, <3>3, <3>4
  <2>5. QED
    BY <2>3, <2>4
<1>6. QED
  BY <1>4, <1>5 DEF Held, more

LEMMA FewerHeld ==
  ASSUME NEW buffer, NEW b, NEW A, NEW k, NEW samples, NEW m \in Int, NEW n \in Int, n <= m,
         Held(buffer, b, A, k, samples, m)
  PROVE  Held(buffer, b, A, k, samples, n)
BY DEF Held

Fetched(buffer, first, k, pre, post) ==
  [offset \in 0 .. (pre + post) * k - 1 |->
     buffer[(first + offset + Capacity - pre * k) % Capacity]]
Shown(A, samples, at, k, pre, post) ==
  [offset \in 0 .. (pre + post) * k - 1 |->
     <<samples[at + 1 - pre + (offset \div k)], ChannelIn(A, offset % k)>>]

(* The samples around a trigger: in what is read from as many words before *)
(* the place where the first sample after it begins.                       *)
LEMMA AroundTrigger ==
  ASSUME NEW b \in Places, NEW A, NEW k \in Nat \ {0}, NEW pre \in Nat, NEW post \in Nat \ {0},
         (pre + post) * k <= Capacity,
         NEW buffer, NEW samples, NEW at \in Nat, at >= pre, Len(samples) = at + post,
         Held(buffer, b, A, k, samples, pre + post),
         NEW first, first = Behind(b, post * k)
  PROVE  Fetched(buffer, first, k, pre, post) = Shown(A, samples, at, k, pre, post)
<1> USE CapacityPositive
<1> SUFFICES ASSUME NEW offset \in 0 .. (pre + post) * k - 1
             PROVE  buffer[(first + offset + Capacity - pre * k) % Capacity]
                      = <<samples[at + 1 - pre + (offset \div k)], ChannelIn(A, offset % k)>>
  BY Zenon DEF Fetched, Shown
<1> DEFINE t == offset \div k
           j == offset % k
           s == pre + post - t
           y == s * k - j
           x == first + offset + Capacity - pre * k
           rk == pre * k
           pk == post * k
           tk == t * k
<1>1. (pre + post) * k = rk + pk /\ rk \in Nat /\ pk \in Nat /\ pk >= 1
  <2>1. (pre + post) * k = rk + pk /\ rk \in Nat /\ pk \in Nat
    OBVIOUS
  <2>2. 1 * k <= post * k
    <3>1. 1 \in Nat /\ post \in Nat /\ k \in Nat /\ 1 <= post
      OBVIOUS
    <3>2. QED
      BY <3>1, ProductGrows
  <2>3. QED
    BY <2>1, <2>2
<1>2. offset \in Nat
  <2>1. offset \in 0 .. rk + pk - 1
    BY <1>1
  <2> HIDE DEF rk, pk
  <2>2. QED
    BY <2>1
<1>3. t \in Nat /\ j \in 0 .. k - 1 /\ offset = t * k + j
  BY <1>2, Divided
<1>4. offset < rk + pk /\ rk + pk <= Capacity
  <2> DEFINE w == (pre + post) * k
  <2>1. w = rk + pk /\ w \in Int /\ offset \in 0 .. w - 1 /\ w <= Capacity
    BY <1>1
  <2> HIDE DEF w, rk, pk
  <2>2. offset < w
    BY <2>1
  <2>3. QED
    BY <2>1, <2>2
<1> HIDE DEF t, j
<1>5. t < pre + post
  <2>1. SUFFICES ASSUME pre + post <= t
                 PROVE  FALSE
    BY <1>3
  <2>2. (pre + post) * k <= t * k
    <3>1. pre + post \in Nat /\ k \in Nat
      OBVIOUS
    <3>2. QED
      BY <1>3, <2>1, <3>1, ProductGrows
  <2>3. tk \in Nat /\ offset = tk + j /\ rk + pk <= tk
    BY <1>1, <1>3, <2>2
  <2> HIDE DEF rk, pk, tk
  <2>4. QED
    BY <1>1, <1>2, <1>3, <1>4, <2>3
<1>6. s \in 1 .. pre + post /\ s <= Len(samples)
      /\ Len(samples) + 1 - s = at + 1 - pre + t
  BY <1>3, <1>5
<1>7. y = rk + pk - offset
  <2>1. s * k = rk + pk - tk
    <3>1. t \in Int /\ pre \in Int /\ post \in Int /\ k \in Int
      BY <1>3
    <3>2. (pre + post - t) * k = pre * k + post * k - t * k
      BY <3>1
    <3>3. QED
      BY <3>2
  <2>2. offset = tk + j /\ tk \in Int /\ s * k \in Int
    BY <1>3, <1>6
  <2> DEFINE sk == s * k
  <2>3. sk = rk + pk - tk /\ y = sk - j
    BY <2>1
  <2> HIDE DEF rk, pk, tk, sk, y
  <2>4. QED
    BY <1>1, <1>3, <2>2, <2>3
<1>8. x % Capacity = Behind(b, y)
  <2>1. first = Behind(b, pk) /\ x = first + offset + Capacity - rk
    OBVIOUS
  <2> HIDE DEF rk, pk, x, y
  <2>2. x \in 0 .. 3 * Capacity - 1 /\ y \in 1 .. Capacity
    BY <1>1, <1>2, <1>4, <1>7, <2>1 DEF Behind, Places
  <2>3. x % Capacity = IF x < Capacity THEN x ELSE Around(x - Capacity, Capacity)
    BY <2>2, WrappedTwice
  <2>4. QED
    BY <1>1, <1>2, <1>4, <1>7, <2>1, <2>2, <2>3 DEF Behind, Around, Places
<1>9. buffer[Behind(b, y)] = <<samples[Len(samples) + 1 - s], ChannelIn(A, j)>>
  BY <1>3, <1>6 DEF Held
<1> HIDE DEF y, s
<1>10. QED
  BY <1>6, <1>8, <1>9 DEF t, j

(* What is asked for fits the buffers in the end.                          *)
LEMMA CountsFit ==
  ASSUME NEW a \in Nat \ {0}, NEW p \in Nat \ {0}, NEW k \in 1 .. Capacity,
         NEW counts, counts = FitCounts(a, p, Capacity \div k)
  PROVE  /\ counts.pre \in 0 .. Capacity /\ counts.post \in 1 .. Capacity
         /\ (counts.pre + counts.post) * k <= Capacity
<1> USE CapacityPositive
<1> DEFINE n == Capacity \div k
<1>1. n \in Nat /\ Capacity % k \in 0 .. k - 1 /\ Capacity = n * k + (Capacity % k)
      /\ k \in Nat \ {0}
  <2>1. Capacity \in Nat /\ k \in Nat \ {0}
    OBVIOUS
  <2>2. QED
    BY <2>1, Divided
<1>2. counts = FitCounts(a, p, n)
  OBVIOUS
<1> HIDE DEF n
<1>3. n * k <= Capacity /\ n >= 1 /\ n <= Capacity
  <2> DEFINE nk == n * k
             r == Capacity % k
  <2>1. nk \in Nat /\ r \in 0 .. k - 1 /\ Capacity = nk + r
    BY <1>1
  <2>2. n = 0 => nk = 0
    BY <1>1
  <2>3. n * 1 <= nk
    <3>1. 1 <= k /\ 1 \in Nat /\ k \in Nat
      BY <1>1
    <3>2. 1 * n <= k * n
      BY <1>1, <3>1, ProductGrows
    <3>3. QED
      BY <1>1, <3>2
  <2> HIDE DEF nk, r
  <2>4. nk <= Capacity /\ n >= 1 /\ n <= Capacity
    BY <1>1, <2>1, <2>2, <2>3
  <2>5. QED
    BY <2>4 DEF nk
<1>4. counts.pre \in Nat /\ counts.post \in Nat \ {0} /\ counts.pre + counts.post <= n
  <2>1. CASE TooMany(a, p, n)
    <3>1. counts.pre = n \div 2 /\ counts.post = n - n \div 2
      BY <1>2, <2>1 DEF FitCounts
    <3>2. n \div 2 \in Nat /\ n \div 2 < n
      BY <1>1, <1>3
    <3>3. QED
      BY <1>1, <3>1, <3>2
  <2>2. CASE ~TooMany(a, p, n)
    <3>1. counts.pre = a /\ counts.post = p
      BY <1>2, <2>2 DEF FitCounts
    <3>2. a + p <= n
      BY <1>1, <2>2 DEF TooMany
    <3>3. QED
      BY <3>1, <3>2
  <2>3. QED
    BY <2>1, <2>2
<1>5. (counts.pre + counts.post) * k <= n * k
  <2>1. counts.pre + counts.post \in Nat /\ k \in Nat
    BY <1>1, <1>4
  <2>2. QED
    BY <1>1, <1>4, <2>1, ProductGrows
<1>6. counts.pre \in 0 .. Capacity /\ counts.post \in 1 .. Capacity
  BY <1>1, <1>3, <1>4
<1>7. (counts.pre + counts.post) * k <= Capacity
  <2> DEFINE w == (counts.pre + counts.post) * k
             nk == n * k
  <2>1. w \in Nat /\ nk \in Nat /\ w <= nk /\ nk <= Capacity
    <3>1. counts.pre + counts.post \in Nat /\ k \in Nat /\ n \in Nat
      BY <1>1, <1>4
    <3>2. w \in Nat /\ nk \in Nat
      BY <3>1
    <3>3. QED
      BY <1>3, <1>5, <3>2
  <2> HIDE DEF w, nk
  <2>2. w <= Capacity
    BY <2>1
  <2>3. QED
    BY <2>2 DEF w
<1>8. QED
  BY <1>6, <1>7

-----------------------------------------------------------------------------
(* The invariant *)

Window == acq.pre + acq.post

(* An acquisition the recorder was armed for once.                         *)
Recording == recorderState # "IDLE" /\ ~rearmed

RankOf(channel) == RankIn(activeChannels, channel)
HeldIn(buffer, m) == Held(buffer, baseAddress, activeChannels, acq.channels, sampled, m)
BegunIn(buffer, offset) ==
  Begun(buffer, baseAddress, activeChannels, acq.channels, cycle, offset)

(* What was asked for fits the buffers, and the registers say the same.    *)
AcqInv ==
  /\ acq.channels = Cardinality(activeChannels)
  /\ activeChannels # {} =>
       /\ acq.pre \in Nat /\ acq.post \in Nat \ {0}
       /\ Window * acq.channels <= Capacity
       /\ pretriggerRemainingInit = acq.pre - 2
       /\ posttriggerRemainingInit = acq.post - 2
  /\ arming \/ recorderState # "IDLE" \/ whole => activeChannels # {}
  /\ arming \/ recorderState # "IDLE" => ~whole
  /\ arming /\ recorderState # "IDLE" => rearmed
  /\ Recording => channelCount = acq.channels

(* The counters of any acquisition, also one that is armed again.          *)
CounterInv ==
  /\ recorderState # "IDLE" =>
       /\ channelCount >= 1 /\ rxRemaining >= -1
       /\ rxOffset + rxRemaining = channelCount - 2
       /\ posttriggerRemaining >= -1
       /\ txChannel <= (IF stream = "tx" THEN next ELSE 0)
  /\ recorderState = "FILL" => pretriggerRemaining >= -2 /\ ~triggered
  /\ txClean => rxClean

(* A sample takes a word of readbacks, and those of a cycle come in it.    *)
SamplesInv ==
  /\ stream = "rx" => cycle <= MaxCycles
  /\ atTrigger <= Len(sampled)
  /\ Len(sampled) <= (cycle - 1) * RecorderSupplies + (IF stream = "rx" THEN next ELSE 0)

(* How far it is: samples before the trigger, and from the trigger on.     *)
ProgressInv ==
  /\ Recording =>
       /\ recorderState = "FILL" => pretriggerRemaining = acq.pre - 2 - Len(sampled)
       /\ recorderState \in {"FILL", "ARMED"} => posttriggerRemaining = acq.post - 2
       /\ recorderState = "ARMED" =>
            /\ Len(sampled) >= acq.pre
            /\ triggered => atTrigger = Len(sampled)
       /\ recorderState = "FINISH" =>
            /\ atTrigger >= acq.pre
            /\ Len(sampled) - atTrigger \in 1 .. acq.post - 1
            /\ posttriggerRemaining = acq.post - 2 - (Len(sampled) - atTrigger)
            /\ triggerLocation = Behind(baseAddress, (Len(sampled) - atTrigger) * acq.channels)
  /\ whole =>
       /\ atTrigger >= acq.pre
       /\ Len(sampled) = atTrigger + acq.post
       /\ triggerLocation = Behind(baseAddress, acq.post * acq.channels)

(* Readbacks: those of the sample under way are those of the channels      *)
(* below the next one.                                                     *)
ReadbacksInv ==
  /\ Recording /\ rxClean =>
       /\ rxOffset = IF stream = "rx" /\ RankOf(next) < acq.channels THEN RankOf(next) ELSE 0
       /\ BegunIn(rxBuf, rxOffset) /\ HeldIn(rxBuf, Window - 1)
  /\ whole /\ rxClean => HeldIn(rxBuf, Window)

(* Setpoints: they are there before the first readback of their sample.    *)
SetpointsInv ==
  /\ Recording /\ txClean =>
       /\ txChannel = IF stream = "tx" THEN next ELSE 0
       /\ txOffset = IF stream = "tx" THEN RankOf(next)
                     ELSE IF RankOf(next) < acq.channels THEN acq.channels ELSE 0
       /\ BegunIn(txBuf, txOffset) /\ HeldIn(txBuf, Window - 1)
  /\ whole /\ txClean => HeldIn(txBuf, Window)

RecorderInv ==
  /\ RecorderTypeOK /\ AcqInv /\ CounterInv /\ SamplesInv /\ ProgressInv
  /\ ReadbacksInv /\ SetpointsInv

LEMMA RecorderInitInv == RecorderInit => RecorderInv
<1> SUFFICES ASSUME RecorderInit PROVE RecorderInv
  OBVIOUS
<1> USE CapacityPositive, RecorderSuppliesAssumption, RecorderBoundsAssumption,
        RecorderCapacityAssumption DEF RecorderInit
<1>1. /\ {full, triggered, arming, rearmed, whole, rxClean, txClean} \subseteq BOOLEAN
      /\ ~rearmed /\ ~whole /\ ~txClean /\ ~rxClean /\ ~arming /\ ~triggered
  BY Zenon
<1>2. txBuf \in [Places -> Words] /\ rxBuf \in [Places -> Words]
  BY DEF Words, NoWordYet, Places
<1>3. 0 \in RecorderChannels /\ 0 \in 0 .. OffsetRange - 1
  BY OffsetRangeAssumption DEF RecorderChannels
<1>4. 0 \in 0 .. MaxCycles * RecorderSupplies
  <2>1. MaxCycles * RecorderSupplies \in Nat
    OBVIOUS
  <2>2. QED
    BY <2>1
<1>5. sampled \in Seq(1 .. MaxCycles) /\ Len(sampled) = 0
  OBVIOUS
<1>6. RecorderTypeOK
  BY <1>1, <1>2, <1>3, <1>4, <1>5 DEF RecorderTypeOK, Places
<1>7. AcqInv
  BY FS_EmptySet DEF AcqInv, Recording
<1>8. CounterInv
  BY <1>1 DEF CounterInv
<1>9. SamplesInv
  <2>1. (1 - 1) * RecorderSupplies = 0
    OBVIOUS
  <2>2. QED
    BY <1>5, <2>1 DEF SamplesInv
<1>10. ProgressInv /\ ReadbacksInv /\ SetpointsInv
  BY DEF ProgressInv, ReadbacksInv, SetpointsInv, Recording
<1>11. QED
  BY <1>6, <1>7, <1>8, <1>9, <1>10 DEF RecorderInv

(* The numbers of an acquisition that is recorded, or has been.            *)
LEMMA AcqFacts ==
  ASSUME RecorderInv
  PROVE  /\ activeChannels \in SUBSET RecorderChannels
         /\ acq.channels = Cardinality(activeChannels) /\ acq.channels \in 0 .. RecorderSupplies
         /\ Recording \/ whole =>
              /\ acq.channels \in Nat \ {0} /\ acq.channels \in 1 .. Capacity
              /\ acq.pre \in Nat /\ acq.post \in Nat \ {0}
              /\ Window - 1 \in Nat /\ (Window - 1) + 1 = Window
              /\ Window * acq.channels <= Capacity
<1>1. activeChannels \in SUBSET RecorderChannels /\ acq.channels = Cardinality(activeChannels)
  BY DEF RecorderInv, RecorderTypeOK, AcqInv
<1>2. acq.channels \in 0 .. RecorderSupplies
      /\ (activeChannels # {} => acq.channels >= 1)
  BY <1>1, ChannelsFinite
<1>3. Recording \/ whole => activeChannels # {}
  BY DEF RecorderInv, AcqInv, Recording
<1>4. ASSUME Recording \/ whole
      PROVE  /\ acq.channels \in Nat \ {0} /\ acq.channels \in 1 .. Capacity
             /\ acq.pre \in Nat /\ acq.post \in Nat \ {0}
             /\ Window - 1 \in Nat /\ (Window - 1) + 1 = Window
             /\ Window * acq.channels <= Capacity
  <2>1. /\ acq.pre \in Nat /\ acq.post \in Nat \ {0}
        /\ Window * acq.channels <= Capacity
    BY <1>3, <1>4 DEF RecorderInv, AcqInv
  <2>2. acq.channels \in Nat \ {0} /\ acq.channels \in 1 .. Capacity
    BY <1>2, <1>3, <1>4, CapacityPositive, RecorderSuppliesAssumption, RecorderCapacityAssumption
  <2>3. Window - 1 \in Nat /\ (Window - 1) + 1 = Window
    BY <2>1 DEF Window
  <2>4. QED
    BY <2>1, <2>2, <2>3
<1>5. QED
  BY <1>1, <1>2, <1>4

(* A word of a stream: the next one of its packet, or of the next one.     *)
LEMMA StreamMoves ==
  ASSUME RecorderTypeOK, NextWord
  PROVE  /\ cycle \in 1 .. MaxCycles /\ next \in Nat /\ next + 1 \in 1 .. RecorderSupplies
         /\ next' \in RecorderChannels /\ cycle' \in 1 .. MaxCycles + 1 /\ stream' \in {"tx", "rx"}
         /\ \/ /\ next + 1 < RecorderSupplies /\ next' = next + 1 /\ UNCHANGED <<cycle, stream>>
            \/ /\ next + 1 = RecorderSupplies /\ next' = 0 /\ stream = "tx" /\ stream' = "rx"
               /\ cycle' = cycle
            \/ /\ next + 1 = RecorderSupplies /\ next' = 0 /\ stream = "rx" /\ stream' = "tx"
               /\ cycle' = cycle + 1
<1> USE RecorderSuppliesAssumption, RecorderBoundsAssumption
<1>1. /\ next \in 0 .. RecorderSupplies - 1 /\ cycle \in 1 .. MaxCycles + 1
      /\ stream \in {"tx", "rx"} /\ cycle <= MaxCycles
  BY DEF RecorderTypeOK, RecorderChannels, NextWord
<1>2. (next + 1) % RecorderSupplies = Around(next + 1, RecorderSupplies)
  <2>1. next + 1 \in 0 .. 2 * RecorderSupplies - 1
    BY <1>1
  <2>2. QED
    BY <2>1, WrappedAround
<1>3. next' = IF next + 1 < RecorderSupplies THEN next + 1 ELSE 0
  BY <1>1, <1>2 DEF NextWord, Around
<1>4. QED
  BY <1>1, <1>3 DEF NextWord, RecorderChannels

(* One sample more at most for a word of readbacks.                        *)
LEMMA SamplesCounted ==
  ASSUME RecorderInv
  PROVE  /\ Len(sampled) \in Nat /\ atTrigger <= Len(sampled)
         /\ Len(sampled) <= MaxCycles * RecorderSupplies
<1> USE RecorderSuppliesAssumption, RecorderBoundsAssumption
<1>1. /\ next \in 0 .. RecorderSupplies - 1 /\ cycle \in 1 .. MaxCycles + 1
      /\ sampled \in Seq(1 .. MaxCycles) /\ Len(sampled) \in Nat
  BY DEF RecorderInv, RecorderTypeOK, RecorderChannels
<1> DEFINE n == Len(sampled)
           u == (cycle - 1) * RecorderSupplies
           m == MaxCycles * RecorderSupplies
<1>2. u \in Int /\ n <= u + (IF stream = "rx" THEN next ELSE 0) /\ atTrigger <= n
  BY <1>1 DEF RecorderInv, SamplesInv
<1>3. CASE stream = "rx"
  <2>1. cycle \in Nat /\ cycle <= MaxCycles
    BY <1>1, <1>3 DEF RecorderInv, SamplesInv
  <2>2. cycle * RecorderSupplies = u + RecorderSupplies
    BY <1>1
  <2>3. cycle * RecorderSupplies <= m /\ m \in Nat
    BY <2>1, ProductGrows
  <2>4. u + RecorderSupplies <= m /\ m \in Nat
    BY <2>2, <2>3
  <2> HIDE DEF u, m, n
  <2>5. n <= m
    BY <1>1, <1>2, <1>3, <2>4 DEF n
  <2>6. QED
    BY <1>1, <1>2, <2>5 DEF n, m
<1>4. CASE stream # "rx"
  <2>1. cycle - 1 \in Nat /\ cycle - 1 <= MaxCycles
    BY <1>1
  <2>2. u <= m /\ m \in Nat
    BY <2>1, ProductGrows
  <2> HIDE DEF u, m, n
  <2>3. n <= m
    BY <1>1, <1>2, <1>4, <2>2 DEF n
  <2>4. QED
    BY <1>1, <1>2, <2>3 DEF n, m
<1>5. QED
  BY <1>3, <1>4

(* A stream that goes on by a word.                                        *)
LEMMA CountsMove ==
  ASSUME RecorderInv, NextWord,
         Len(sampled') = Len(sampled) + (IF stream = "rx" /\ sampled' # sampled THEN 1 ELSE 0),
         atTrigger' = atTrigger
  PROVE  SamplesInv'
<1> USE RecorderSuppliesAssumption, RecorderBoundsAssumption
<1>1. /\ next \in 0 .. RecorderSupplies - 1 /\ cycle \in 1 .. MaxCycles
      /\ Len(sampled) \in Nat /\ atTrigger \in Int /\ stream \in {"tx", "rx"}
  <2>1. RecorderTypeOK
    BY DEF RecorderInv
  <2>2. cycle \in 1 .. MaxCycles
    BY <2>1, StreamMoves
  <2>3. atTrigger \in Int
    <3>1. MaxCycles * RecorderSupplies \in Nat
      OBVIOUS
    <3>2. QED
      BY <2>1, <3>1 DEF RecorderTypeOK
  <2>4. QED
    BY <2>1, <2>2, <2>3 DEF RecorderTypeOK, RecorderChannels
<1> DEFINE n == Len(sampled)
           n2 == Len(sampled')
           u == (cycle - 1) * RecorderSupplies
           u2 == (cycle' - 1) * RecorderSupplies
<1>2. /\ u \in Int /\ n <= u + (IF stream = "rx" THEN next ELSE 0) /\ atTrigger <= n
      /\ n2 = n + (IF stream = "rx" /\ sampled' # sampled THEN 1 ELSE 0)
  BY <1>1 DEF RecorderInv, SamplesInv
<1>3. \/ /\ next + 1 < RecorderSupplies /\ next' = next + 1 /\ cycle' = cycle /\ stream' = stream
      \/ /\ next + 1 = RecorderSupplies /\ next' = 0 /\ stream = "tx" /\ stream' = "rx"
         /\ cycle' = cycle
      \/ /\ next + 1 = RecorderSupplies /\ next' = 0 /\ stream = "rx" /\ stream' = "tx"
         /\ cycle' = cycle + 1
  BY StreamMoves DEF RecorderInv
<1>4. (cycle' = cycle => u2 = u) /\ (cycle' = cycle + 1 => u2 = u + RecorderSupplies)
  BY <1>1
<1> HIDE DEF u, u2, n, n2
<1>5. n2 \in Nat /\ n <= n2 /\ n2 <= n + 1 /\ (stream = "tx" => n2 = n)
  BY <1>1, <1>2 DEF n
<1>6. n2 <= u2 + (IF stream' = "rx" THEN next' ELSE 0) /\ atTrigger <= n2
  <2>1. n \in Int
    BY <1>1 DEF n
  <2>2. atTrigger <= n2
    BY <1>1, <1>2, <1>5, <2>1
  <2>3. CASE stream = "tx"
    BY <1>1, <1>2, <1>3, <1>4, <1>5, <2>1, <2>3
  <2>4. CASE stream = "rx"
    BY <1>1, <1>2, <1>3, <1>4, <1>5, <2>1, <2>4
  <2>5. QED
    BY <1>1, <2>2, <2>3, <2>4
<1>7. stream' = "rx" => cycle' <= MaxCycles
  BY <1>1, <1>3
<1>8. QED
  BY <1>6, <1>7 DEF SamplesInv, n2, u2

-----------------------------------------------------------------------------
(* The streams *)

(* A setpoint is stored in its place of the sample under way.              *)
LEMMA SetpointKept == RecorderInv /\ TxWord => RecorderInv'
<1> SUFFICES ASSUME RecorderInv, TxWord PROVE RecorderInv'
  OBVIOUS
<1> USE RecorderSuppliesAssumption
<1>1. /\ stream = "tx" /\ NextWord
      /\ UNCHANGED <<registerVars, channelCount, recorderState, full, triggered,
                     counterVars, addressVars, readbackVars, requestVars, acq, commandVars,
                     historyVars>>
  BY DEF TxWord
<1>2. /\ cycle \in 1 .. MaxCycles /\ next \in Nat /\ next + 1 \in 1 .. RecorderSupplies
      /\ next' \in RecorderChannels /\ cycle' \in 1 .. MaxCycles + 1 /\ stream' \in {"tx", "rx"}
      /\ cycle' = cycle
      /\ \/ next + 1 < RecorderSupplies /\ next' = next + 1 /\ stream' = "tx"
         \/ next + 1 = RecorderSupplies /\ next' = 0 /\ stream' = "rx"
  <2>1. RecorderTypeOK
    BY DEF RecorderInv
  <2>2. QED
    BY <1>1, <2>1, StreamMoves
<1>3. UNCHANGED <<activeChannels, pretriggerRemainingInit, posttriggerRemainingInit,
                  channelCount, recorderState, full, triggered, pretriggerRemaining,
                  posttriggerRemaining, rxRemaining, rxOffset, rxBuf, baseAddress,
                  triggerLocation, activeChannelBitmap, pretriggerCount, posttriggerCount,
                  acq, arming, commands, sampled, atTrigger, rearmed, whole, rxClean, txClean>>
  BY <1>1 DEF registerVars, counterVars, addressVars, readbackVars, requestVars, commandVars,
              historyVars
<1>4. recorderState # "IDLE" =>
        /\ txChannel' = IF next = RecorderSupplies - 1 THEN 0 ELSE txChannel + 1
        /\ next \in activeChannels /\ txChannel = next =>
             /\ txBuf' = [txBuf EXCEPT ![(baseAddress + txOffset) % Capacity] = <<cycle, next>>]
             /\ txOffset' = (txOffset + 1) % OffsetRange
        /\ next \notin activeChannels /\ txChannel = next => txOffset' = txOffset /\ txBuf' = txBuf
  BY DEF TxWord, Store, OffsetAfterSkipped
<1>5. txOffset' \in 0 .. OffsetRange - 1
  <2>1. txOffset \in 0 .. OffsetRange - 1
    BY DEF RecorderInv, RecorderTypeOK
  <2>2. (txOffset + 1) % OffsetRange \in 0 .. OffsetRange - 1
    BY <2>1, OffsetRangeAssumption
  <2>3. txOffset' \in {txOffset, (txOffset + 1) % OffsetRange}
    BY DEF TxWord, OffsetAfterSkipped, setpointVars
  <2>4. QED
    BY <2>1, <2>2, <2>3
<1>6. txBuf' \in [Places -> Words]
  <2>1. txBuf \in [Places -> Words]
    BY DEF RecorderInv, RecorderTypeOK, Places
  <2>2. <<cycle, next>> \in Words
    BY <1>2 DEF Words, RecorderChannels
  <2>3. Store(txBuf, txOffset) \in [Places -> Words]
    BY <2>1, <2>2 DEF Store
  <2>4. txBuf' \in {txBuf, Store(txBuf, txOffset)}
    BY DEF TxWord, setpointVars
  <2>5. QED
    BY <2>1, <2>3, <2>4
<1>7. /\ txChannel' \in RecorderChannels
      /\ recorderState # "IDLE" => txChannel' <= (IF stream' = "tx" THEN next' ELSE 0)
  <2>1. txChannel \in 0 .. RecorderSupplies - 1
    BY DEF RecorderInv, RecorderTypeOK, RecorderChannels
  <2>2. CASE recorderState = "IDLE"
    BY <2>1, <2>2 DEF TxWord, setpointVars, RecorderChannels
  <2>3. CASE recorderState # "IDLE"
    <3>1. txChannel <= next
      BY <1>1, <2>3 DEF RecorderInv, CounterInv
    <3>2. QED
      BY <1>2, <1>4, <2>1, <2>3, <3>1 DEF RecorderChannels
  <2>4. QED
    BY <2>2, <2>3
<1>8. RecorderTypeOK'
  BY <1>2, <1>3, <1>5, <1>6, <1>7 DEF RecorderInv, RecorderTypeOK, Places
<1>9. AcqInv'
  BY <1>3 DEF RecorderInv, AcqInv, Recording, Window
<1>10. CounterInv'
  BY <1>3, <1>7 DEF RecorderInv, CounterInv
<1>11. SamplesInv'
  BY <1>1, <1>3, CountsMove
<1>12. ProgressInv'
  BY <1>3 DEF RecorderInv, ProgressInv, Recording
<1>13. RankOf(0) = 0
  BY AcqFacts, Ranks DEF RankOf
<1>14. ReadbacksInv'
  <2>1. CASE Recording /\ rxClean
    <3>1. /\ rxOffset = 0 /\ BegunIn(rxBuf, 0) /\ HeldIn(rxBuf, Window - 1)
          /\ acq.channels \in Nat \ {0} /\ ~whole
      BY <1>1, <2>1, AcqFacts DEF RecorderInv, ReadbacksInv, AcqInv, Recording
    <3>2. rxOffset' = IF stream' = "rx" /\ RankOf(next)' < acq'.channels THEN RankOf(next)' ELSE 0
      BY <1>2, <1>3, <1>13, <3>1 DEF RankOf
    <3>3. BegunIn(rxBuf, rxOffset)' /\ HeldIn(rxBuf, Window - 1)' /\ ~whole'
      BY <1>2, <1>3, <3>1 DEF BegunIn, HeldIn, Window
    <3>4. QED
      BY <3>2, <3>3 DEF ReadbacksInv
  <2>2. CASE ~(Recording /\ rxClean)
    BY <1>3, <2>2 DEF RecorderInv, ReadbacksInv, Recording, HeldIn, Window
  <2>3. QED
    BY <2>1, <2>2
<1>15. SetpointsInv'
  <2>1. CASE Recording /\ txClean
    <3> DEFINE k == acq.channels
    <3>1. /\ txChannel = next /\ txOffset = RankOf(next) /\ BegunIn(txBuf, RankOf(next))
          /\ HeldIn(txBuf, Window - 1) /\ ~whole /\ recorderState # "IDLE"
      BY <1>1, <2>1 DEF RecorderInv, SetpointsInv, AcqInv, Recording
    <3>2. /\ k \in Nat \ {0} /\ k = Cardinality(activeChannels) /\ k <= RecorderSupplies
          /\ Window - 1 \in Nat /\ (Window - 1 + 1) * k <= Capacity
          /\ activeChannels \in SUBSET RecorderChannels
      BY <2>1, AcqFacts
    <3>3. /\ RankOf(next) \in 0 .. k /\ RankOf(RecorderSupplies) = k
          /\ next \in activeChannels => /\ RankOf(next + 1) = RankOf(next) + 1
                                        /\ RankOf(next) < k
                                        /\ ChannelIn(activeChannels, RankOf(next)) = next
          /\ next \notin activeChannels => RankOf(next + 1) = RankOf(next)
      <4>1. next \in 0 .. RecorderSupplies
        BY <1>2
      <4>2. QED
        BY <3>2, <4>1, Ranks DEF RankOf
    <3> HIDE DEF k
    <3>4. txOffset' = RankOf(next + 1) /\ BegunIn(txBuf', RankOf(next + 1))
          /\ HeldIn(txBuf', Window - 1)
      <4>1. CASE next \in activeChannels
        <5>1. txBuf' = [txBuf EXCEPT ![(baseAddress + RankOf(next)) % Capacity]
                          = <<cycle, ChannelIn(activeChannels, RankOf(next))>>]
          BY <1>4, <3>1, <3>3, <4>1
        <5>2. BegunIn(txBuf', RankOf(next) + 1) /\ HeldIn(txBuf', Window - 1)
          <6>1. baseAddress \in Places /\ txBuf \in [Places -> Words]
            BY DEF RecorderInv, RecorderTypeOK, Places
          <6>2. RankOf(next) \in 0 .. k - 1
            BY <3>2, <3>3, <4>1
          <6>3. /\ Begun(txBuf, baseAddress, activeChannels, k, cycle, RankOf(next))
                /\ Held(txBuf, baseAddress, activeChannels, k, sampled, Window - 1)
            BY <3>1 DEF BegunIn, HeldIn, k
          <6>4. /\ Begun(txBuf', baseAddress, activeChannels, k, cycle, RankOf(next) + 1)
                /\ Held(txBuf', baseAddress, activeChannels, k, sampled, Window - 1)
            BY <3>2, <5>1, <6>1, <6>2, <6>3, WordStored
          <6>5. QED
            BY <6>4 DEF BegunIn, HeldIn, k
        <5>3. txOffset' = RankOf(next) + 1
          <6>1. txOffset' = (RankOf(next) + 1) % OffsetRange
            BY <1>4, <3>1, <4>1
          <6>2. RankOf(next) + 1 \in 0 .. OffsetRange - 1
            BY <3>2, <3>3, <4>1, OffsetRangeAssumption
          <6>3. QED
            BY <6>1, <6>2, OffsetRangeAssumption, WrappedAround DEF Around
        <5>4. QED
          BY <3>3, <4>1, <5>2, <5>3
      <4>2. CASE next \notin activeChannels
        BY <1>4, <3>1, <3>3, <4>2
      <4>3. QED
        BY <4>1, <4>2
    <3>5. txChannel' = IF stream' = "tx" THEN next' ELSE 0
      BY <1>2, <1>4, <3>1
    <3>6. txOffset' = IF stream' = "tx" THEN RankOf(next)'
                      ELSE IF RankOf(next)' < acq'.channels THEN acq'.channels ELSE 0
      <4>1. RankOf(next)' = RankOf(next')
        BY <1>3 DEF RankOf
      <4>2. acq' = acq
        BY <1>3
      <4>3. CASE stream' = "tx"
        BY <1>2, <3>4, <4>1, <4>3
      <4>4. CASE stream' # "tx"
        <5>1. RankOf(next') = 0 /\ txOffset' = k /\ stream' = "rx"
          BY <1>2, <1>13, <3>3, <3>4, <4>4
        <5>2. QED
          BY <3>2, <4>1, <4>2, <5>1 DEF k
      <4>5. QED
        BY <4>3, <4>4
    <3>7. BegunIn(txBuf, txOffset)' /\ HeldIn(txBuf, Window - 1)' /\ ~whole'
      BY <1>2, <1>3, <3>1, <3>4 DEF BegunIn, HeldIn, Window
    <3>8. QED
      BY <3>5, <3>6, <3>7 DEF SetpointsInv
  <2>2. CASE ~Recording /\ recorderState # "IDLE"
    BY <1>3, <2>2 DEF RecorderInv, SetpointsInv, AcqInv, Recording
  <2>3. CASE recorderState # "IDLE" /\ ~txClean
    BY <1>3, <2>3 DEF RecorderInv, SetpointsInv
  <2>4. CASE recorderState = "IDLE"
    <3>1. txBuf' = txBuf
      BY <2>4 DEF TxWord, setpointVars
    <3>2. QED
      BY <1>3, <2>4, <3>1 DEF RecorderInv, SetpointsInv, Recording, HeldIn, Window
  <2>5. QED
    BY <2>1, <2>2, <2>3, <2>4
<1>16. QED
  BY <1>8, <1>9, <1>10, <1>11, <1>12, <1>14, <1>15 DEF RecorderInv

(* What a readback leaves alone, and the word that comes after it.         *)
LEMMA ReadbackMoves ==
  ASSUME RecorderInv, RxWord
  PROVE  /\ stream = "rx"
         /\ UNCHANGED <<activeChannels, pretriggerRemainingInit, posttriggerRemainingInit,
                        channelCount, triggered, txChannel, txBuf, activeChannelBitmap,
                        pretriggerCount, posttriggerCount, acq, arming, commands, atTrigger,
                        rearmed, rxClean, txClean>>
         /\ cycle \in 1 .. MaxCycles /\ next \in Nat /\ next + 1 \in 1 .. RecorderSupplies
         /\ next' \in RecorderChannels /\ cycle' \in 1 .. MaxCycles + 1
         /\ \/ /\ next + 1 < RecorderSupplies /\ next' = next + 1 /\ stream' = "rx"
               /\ cycle' = cycle
            \/ next + 1 = RecorderSupplies /\ next' = 0 /\ stream' = "tx" /\ cycle' = cycle + 1
         /\ recorderState # "IDLE" => txChannel = 0
<1>1. /\ stream = "rx" /\ NextWord
      /\ UNCHANGED <<registerVars, channelCount, triggered, txChannel, txBuf,
                     requestVars, acq, commandVars, atTrigger, rearmed, rxClean, txClean>>
  BY DEF RxWord
<1>2. RecorderTypeOK
  BY DEF RecorderInv
<1>3. /\ cycle \in 1 .. MaxCycles /\ next \in Nat /\ next + 1 \in 1 .. RecorderSupplies
      /\ next' \in RecorderChannels /\ cycle' \in 1 .. MaxCycles + 1
      /\ \/ /\ next + 1 < RecorderSupplies /\ next' = next + 1 /\ stream' = "rx"
            /\ cycle' = cycle
         \/ next + 1 = RecorderSupplies /\ next' = 0 /\ stream' = "tx" /\ cycle' = cycle + 1
  BY <1>1, <1>2, StreamMoves
<1>4. recorderState # "IDLE" => txChannel = 0
  BY <1>1, <1>2, RecorderSuppliesAssumption
     DEF RecorderInv, CounterInv, RecorderTypeOK, RecorderChannels
<1>5. QED
  BY <1>1, <1>3, <1>4 DEF registerVars, requestVars, commandVars

(* The rank of the next channel goes up with those to be recorded.         *)
LEMMA RankMoves ==
  ASSUME RecorderInv, RxWord
  PROVE  /\ RankOf(next) \in 0 .. acq.channels /\ acq.channels \in Nat /\ RankOf(0) = 0
         /\ RankOf(next)' = RankOf(next') /\ RankOf(RecorderSupplies) = acq.channels
         /\ next \in activeChannels =>
              /\ RankOf(next + 1) = RankOf(next) + 1 /\ RankOf(next) < acq.channels
              /\ ChannelIn(activeChannels, RankOf(next)) = next
         /\ next \notin activeChannels => RankOf(next + 1) = RankOf(next)
<1>1. /\ activeChannels \in SUBSET RecorderChannels /\ acq.channels = Cardinality(activeChannels)
      /\ acq.channels \in Nat
  BY AcqFacts
<1>2. next \in 0 .. RecorderSupplies /\ activeChannels' = activeChannels
  BY ReadbackMoves, RecorderSuppliesAssumption
<1>3. QED
  BY <1>1, <1>2, Ranks DEF RankOf

LEMMA IgnoredKept == RecorderInv /\ RxWord /\ RxIgnored => RecorderInv'
<1> SUFFICES ASSUME RecorderInv, RxWord, RxIgnored PROVE RecorderInv'
  OBVIOUS
<1>1. /\ recorderState = "IDLE" \/ next \notin activeChannels
      /\ UNCHANGED <<recorderState, full, pretriggerRemaining, posttriggerRemaining,
                     baseAddress, triggerLocation, rxRemaining, rxOffset, rxBuf, txOffset,
                     sampled, whole>>
  BY DEF RxIgnored, counterVars, addressVars, readbackVars
<1>2. RecorderTypeOK'
  <2>1. /\ next' \in RecorderChannels /\ cycle' \in 1 .. MaxCycles + 1
        /\ stream' \in {"tx", "rx"}
    BY ReadbackMoves
  <2>2. UNCHANGED <<activeChannels, pretriggerRemainingInit, posttriggerRemainingInit,
                    channelCount, triggered, txChannel, txBuf, activeChannelBitmap,
                    pretriggerCount, posttriggerCount, acq, arming, commands, atTrigger,
                    rearmed, rxClean, txClean>>
    BY ReadbackMoves
  <2>3. QED
    BY <1>1, <2>1, <2>2, SMTT(30) DEF RecorderInv, RecorderTypeOK
<1>3. AcqInv'
  BY <1>1, ReadbackMoves DEF RecorderInv, AcqInv, Recording, Window
<1>4. CounterInv'
  <2>1. recorderState # "IDLE" => txChannel' <= (IF stream' = "tx" THEN next' ELSE 0)
    BY ReadbackMoves
  <2>2. QED
    BY <1>1, <2>1, ReadbackMoves DEF RecorderInv, CounterInv
<1>5. SamplesInv'
  <2>1. NextWord /\ atTrigger' = atTrigger
    BY ReadbackMoves DEF RxWord
  <2>2. Len(sampled') = Len(sampled) + 0
    BY <1>1, SamplesCounted
  <2>3. QED
    BY <1>1, <2>1, <2>2, CountsMove
<1>6. ProgressInv'
  BY <1>1, ReadbackMoves DEF RecorderInv, ProgressInv, Recording
<1>7. Recording =>
        /\ RankOf(next + 1) = RankOf(next)
        /\ stream' = "rx" => RankOf(next)' = RankOf(next)
        /\ stream' = "tx" => RankOf(next)' = 0 /\ RankOf(next) = acq.channels
        /\ ~whole
  BY <1>1, ReadbackMoves, RankMoves DEF Recording, RecorderInv, AcqInv
<1>8. ReadbacksInv'
  <2>1. CASE Recording /\ rxClean
    <3>1. /\ rxOffset = IF RankOf(next) < acq.channels THEN RankOf(next) ELSE 0
          /\ BegunIn(rxBuf, rxOffset) /\ HeldIn(rxBuf, Window - 1)
      BY <2>1, ReadbackMoves DEF RecorderInv, ReadbacksInv
    <3>2. /\ rxOffset' = IF stream' = "rx" /\ RankOf(next)' < acq'.channels
                         THEN RankOf(next)' ELSE 0
          /\ stream' = "tx" => rxOffset = 0
      <4>1. acq' = acq /\ rxOffset' = rxOffset
        BY <1>1, ReadbackMoves
      <4>2. CASE stream' = "rx"
        BY <1>7, <2>1, <3>1, <4>1, <4>2
      <4>3. CASE stream' = "tx"
        BY <1>7, <2>1, <3>1, <4>1, <4>3, RankMoves
      <4>4. QED
        BY <4>2, <4>3, ReadbackMoves
    <3>3. BegunIn(rxBuf, rxOffset)'
      <4>1. CASE cycle' = cycle
        BY <1>1, <3>1, <4>1, ReadbackMoves DEF BegunIn
      <4>2. CASE rxOffset = 0
        BY <1>1, <4>2 DEF BegunIn, Begun
      <4>3. QED
        BY <3>2, <4>1, <4>2, ReadbackMoves
    <3>4. HeldIn(rxBuf, Window - 1)'
      BY <1>1, <3>1, ReadbackMoves DEF HeldIn, Window
    <3>5. ~whole'
      BY <1>1, <1>7, <2>1
    <3>6. QED
      BY <3>2, <3>3, <3>4, <3>5 DEF ReadbacksInv
  <2>2. CASE ~(Recording /\ rxClean)
    BY <1>1, <2>2, ReadbackMoves DEF RecorderInv, ReadbacksInv, Recording, HeldIn, Window
  <2>3. QED
    BY <2>1, <2>2
<1>9. SetpointsInv'
  <2>1. CASE Recording /\ txClean
    <3>1. /\ txOffset = IF RankOf(next) < acq.channels THEN acq.channels ELSE 0
          /\ BegunIn(txBuf, txOffset) /\ HeldIn(txBuf, Window - 1)
      BY <2>1, ReadbackMoves DEF RecorderInv, SetpointsInv
    <3>2. /\ txOffset' = IF stream' = "tx" THEN RankOf(next)'
                         ELSE IF RankOf(next)' < acq'.channels THEN acq'.channels ELSE 0
          /\ stream' = "tx" => txOffset = 0
      <4>1. acq' = acq /\ txOffset' = txOffset
        BY <1>1, ReadbackMoves
      <4>2. CASE stream' = "rx"
        BY <1>7, <2>1, <3>1, <4>1, <4>2
      <4>3. CASE stream' = "tx"
        BY <1>7, <2>1, <3>1, <4>1, <4>3, RankMoves
      <4>4. QED
        BY <4>2, <4>3, ReadbackMoves
    <3>3. BegunIn(txBuf, txOffset)'
      <4>1. CASE cycle' = cycle
        BY <1>1, <3>1, <4>1, ReadbackMoves DEF BegunIn
      <4>2. CASE txOffset = 0
        BY <1>1, <4>2 DEF BegunIn, Begun
      <4>3. QED
        BY <3>2, <4>1, <4>2, ReadbackMoves
    <3>4. HeldIn(txBuf, Window - 1)'
      BY <1>1, <3>1, ReadbackMoves DEF HeldIn, Window
    <3>5. txChannel' = IF stream' = "tx" THEN next' ELSE 0
      BY <2>1, ReadbackMoves DEF Recording
    <3>6. ~whole'
      BY <1>1, <1>7, <2>1
    <3>7. QED
      BY <3>2, <3>3, <3>4, <3>5, <3>6 DEF SetpointsInv
  <2>2. CASE ~(Recording /\ txClean)
    BY <1>1, <2>2, ReadbackMoves DEF RecorderInv, SetpointsInv, Recording, HeldIn, Window
  <2>3. QED
    BY <2>1, <2>2
<1>10. QED
  BY <1>2, <1>3, <1>4, <1>5, <1>6, <1>8, <1>9 DEF RecorderInv

(* A readback stored by an undisturbed recorder is one more of its sample. *)
LEMMA ReadbackStored ==
  ASSUME RecorderInv, RxWord, Recording, rxClean, next \in activeChannels,
         rxBuf' = Store(rxBuf, rxOffset)
  PROVE  /\ rxOffset = RankOf(next)
         /\ BegunIn(rxBuf', RankOf(next) + 1) /\ HeldIn(rxBuf', Window - 1)
<1> DEFINE k == acq.channels
<1>1. /\ rxOffset = RankOf(next) /\ BegunIn(rxBuf, RankOf(next)) /\ HeldIn(rxBuf, Window - 1)
  BY ReadbackMoves, RankMoves DEF RecorderInv, ReadbacksInv
<1>2. /\ k \in Nat \ {0} /\ Window - 1 \in Nat /\ (Window - 1 + 1) * k <= Capacity
  BY AcqFacts
<1> HIDE DEF k
<1>3. rxBuf' = [rxBuf EXCEPT ![(baseAddress + RankOf(next)) % Capacity]
                  = <<cycle, ChannelIn(activeChannels, RankOf(next))>>]
  BY <1>1, RankMoves DEF Store
<1>4. baseAddress \in Places /\ rxBuf \in [Places -> Words]
  BY DEF RecorderInv, RecorderTypeOK, Places
<1>5. RankOf(next) \in 0 .. k - 1
  BY RankMoves DEF k
<1>6. /\ Begun(rxBuf, baseAddress, activeChannels, k, cycle, RankOf(next))
      /\ Held(rxBuf, baseAddress, activeChannels, k, sampled, Window - 1)
  BY <1>1 DEF BegunIn, HeldIn, k
<1>7. /\ Begun(rxBuf', baseAddress, activeChannels, k, cycle, RankOf(next) + 1)
      /\ Held(rxBuf', baseAddress, activeChannels, k, sampled, Window - 1)
  BY <1>2, <1>3, <1>4, <1>5, <1>6, WordStored
<1>8. QED
  BY <1>1, <1>7 DEF BegunIn, HeldIn, k

LEMMA StoredTyped ==
  ASSUME RecorderInv, RxWord
  PROVE  Store(rxBuf, rxOffset) \in [Places -> Words]
<1>1. rxBuf \in [Places -> Words]
  BY DEF RecorderInv, RecorderTypeOK, Places
<1>2. <<cycle, next>> \in Words
  <2>1. cycle \in 1 .. MaxCycles
    BY ReadbackMoves
  <2>2. next \in RecorderChannels
    BY DEF RecorderInv, RecorderTypeOK
  <2>3. QED
    BY <2>1, <2>2 DEF Words
<1>3. QED
  BY <1>1, <1>2 DEF Store

LEMMA StoredKept == RecorderInv /\ RxWord /\ RxStored => RecorderInv'
<1> SUFFICES ASSUME RecorderInv, RxWord, RxStored PROVE RecorderInv'
  OBVIOUS
<1> USE RecorderSuppliesAssumption
<1>1. /\ recorderState # "IDLE" /\ next \in activeChannels /\ ~(rxRemaining < 0)
      /\ rxBuf' = Store(rxBuf, rxOffset)
      /\ rxOffset' = rxOffset + 1 /\ rxRemaining' = rxRemaining - 1
      /\ UNCHANGED <<recorderState, full, pretriggerRemaining, posttriggerRemaining,
                     baseAddress, triggerLocation, txOffset, sampled, whole>>
  BY DEF RxStored, rxDone, counterVars, addressVars
<1>2. /\ rxOffset \in 0 .. RecorderSupplies - 1 /\ rxRemaining \in -2 .. RecorderSupplies - 2
      /\ channelCount \in 0 .. RecorderSupplies
      /\ rxOffset + rxRemaining = channelCount - 2
  BY <1>1 DEF RecorderInv, RecorderTypeOK, CounterInv, RecorderChannels
<1>3. /\ rxOffset' \in RecorderChannels /\ rxRemaining' \in -1 .. RecorderSupplies - 2
      /\ rxOffset' + rxRemaining' = channelCount - 2 /\ rxOffset + 1 < channelCount
  BY <1>1, <1>2 DEF RecorderChannels
<1>4. RecorderTypeOK'
  <2>1. rxBuf' \in [0 .. Capacity - 1 -> Words]
    BY <1>1, StoredTyped DEF Places
  <2>2. rxRemaining' \in -2 .. RecorderSupplies - 2
    BY <1>3
  <2>3. /\ next' \in RecorderChannels /\ cycle' \in 1 .. MaxCycles + 1
        /\ stream' \in {"tx", "rx"}
    BY ReadbackMoves
  <2>4. UNCHANGED <<activeChannels, pretriggerRemainingInit, posttriggerRemainingInit,
                    channelCount, triggered, txChannel, txBuf, activeChannelBitmap,
                    pretriggerCount, posttriggerCount, acq, arming, commands, atTrigger,
                    rearmed, rxClean, txClean>>
    BY ReadbackMoves
  <2>5. rxOffset' \in RecorderChannels
    BY <1>3
  <2>6. UNCHANGED <<recorderState, full, pretriggerRemaining, posttriggerRemaining,
                    baseAddress, triggerLocation, txOffset, sampled, whole>>
    BY <1>1
  <2>7. QED
    BY <2>1, <2>2, <2>3, <2>4, <2>5, <2>6, SMTT(30) DEF RecorderInv, RecorderTypeOK
<1>5. AcqInv'
  BY <1>1, ReadbackMoves DEF RecorderInv, AcqInv, Recording, Window
<1>6. CounterInv'
  <2>1. txChannel' <= (IF stream' = "tx" THEN next' ELSE 0)
    BY <1>1, ReadbackMoves
  <2>2. rxRemaining' >= -1 /\ rxOffset' + rxRemaining' = channelCount' - 2
    BY <1>3, ReadbackMoves
  <2>3. QED
    BY <1>1, <2>1, <2>2, ReadbackMoves DEF RecorderInv, CounterInv
<1>7. SamplesInv'
  <2>1. NextWord /\ atTrigger' = atTrigger
    BY ReadbackMoves DEF RxWord
  <2>2. Len(sampled') = Len(sampled) + 0
    BY <1>1, SamplesCounted
  <2>3. QED
    BY <1>1, <2>1, <2>2, CountsMove
<1>8. ProgressInv'
  BY <1>1, ReadbackMoves DEF RecorderInv, ProgressInv, Recording
<1>9. ~whole'
  BY <1>1 DEF RecorderInv, AcqInv
(* Of the channels to come there is one at least, so the packet goes on.   *)
<1>10. Recording /\ rxClean =>
         /\ rxOffset = RankOf(next) /\ RankOf(next) + 1 < acq.channels
         /\ next' = next + 1 /\ stream' = "rx" /\ cycle' = cycle
         /\ RankOf(next)' = RankOf(next) + 1
  <2>1. SUFFICES ASSUME Recording, rxClean
                 PROVE  /\ rxOffset = RankOf(next) /\ RankOf(next) + 1 < acq.channels
                        /\ next' = next + 1 /\ stream' = "rx" /\ cycle' = cycle
                        /\ RankOf(next)' = RankOf(next) + 1
    OBVIOUS
  <2>2. rxOffset = RankOf(next) /\ channelCount = acq.channels
    BY <1>1, <2>1, ReadbackStored DEF RecorderInv, AcqInv
  <2>3. RankOf(next + 1) < acq.channels /\ RankOf(next + 1) = RankOf(next) + 1
    BY <1>1, <1>3, <2>2, RankMoves
  <2>4. next + 1 # RecorderSupplies
    <3>1. SUFFICES ASSUME next + 1 = RecorderSupplies
                   PROVE  FALSE
      OBVIOUS
    <3>2. RankOf(next + 1) = acq.channels /\ acq.channels \in Nat
      BY <3>1, RankMoves
    <3>3. QED
      BY <2>3, <3>2
  <2>5. QED
    BY <2>2, <2>3, <2>4, ReadbackMoves, RankMoves
<1>11. ReadbacksInv'
  <2>1. CASE Recording /\ rxClean
    <3>1. BegunIn(rxBuf', RankOf(next) + 1) /\ HeldIn(rxBuf', Window - 1)
      BY <1>1, <2>1, ReadbackStored
    <3>2. rxOffset' = RankOf(next) + 1
      BY <1>1, <1>10, <2>1
    <3>3. BegunIn(rxBuf, rxOffset)' /\ HeldIn(rxBuf, Window - 1)'
      BY <1>1, <1>10, <2>1, <3>1, <3>2, ReadbackMoves DEF BegunIn, HeldIn, Window
    <3>4. rxOffset' = IF stream' = "rx" /\ RankOf(next)' < acq'.channels
                      THEN RankOf(next)' ELSE 0
      BY <1>10, <2>1, <3>2, ReadbackMoves
    <3>5. QED
      BY <1>9, <3>3, <3>4 DEF ReadbacksInv
  <2>2. CASE ~(Recording /\ rxClean)
    BY <1>1, <1>9, <2>2, ReadbackMoves DEF ReadbacksInv, Recording
  <2>3. QED
    BY <2>1, <2>2
<1>12. SetpointsInv'
  <2>1. CASE Recording /\ txClean
    <3>1. rxClean
      BY <2>1 DEF RecorderInv, CounterInv
    <3>2. /\ txOffset = IF RankOf(next) < acq.channels THEN acq.channels ELSE 0
          /\ BegunIn(txBuf, txOffset) /\ HeldIn(txBuf, Window - 1)
      BY <2>1, ReadbackMoves DEF RecorderInv, SetpointsInv
    <3>3. txOffset = acq.channels
      BY <1>1, <3>2, RankMoves
    <3>4. /\ txOffset' = IF stream' = "tx" THEN RankOf(next)'
                         ELSE IF RankOf(next)' < acq'.channels THEN acq'.channels ELSE 0
          /\ txChannel' = IF stream' = "tx" THEN next' ELSE 0
      <4>1. /\ stream' = "rx" /\ RankOf(next)' < acq.channels /\ acq' = acq
            /\ txOffset' = txOffset /\ txChannel' = 0
        BY <1>1, <1>10, <2>1, <3>1, ReadbackMoves
      <4>2. QED
        BY <3>3, <4>1
    <3>5. BegunIn(txBuf, txOffset)' /\ HeldIn(txBuf, Window - 1)'
      BY <1>1, <1>10, <2>1, <3>1, <3>2, ReadbackMoves DEF BegunIn, HeldIn, Window
    <3>6. QED
      BY <1>9, <3>4, <3>5 DEF SetpointsInv
  <2>2. CASE ~(Recording /\ txClean)
    BY <1>1, <1>9, <2>2, ReadbackMoves DEF SetpointsInv, Recording
  <2>3. QED
    BY <2>1, <2>2
<1>13. QED
  BY <1>4, <1>5, <1>6, <1>7, <1>8, <1>11, <1>12 DEF RecorderInv

(* The readback that completes a sample: the base moves on, and the sample *)
(* is behind it, in both buffers.                                          *)
LEMMA SampleStored ==
  ASSUME RecorderInv, RxWord, Recording, rxClean, RxSample
  PROVE  /\ baseAddress' = Ahead(baseAddress, acq.channels) /\ RankOf(next) + 1 = acq.channels
         /\ HeldIn(rxBuf, Window)'
         /\ txClean => HeldIn(txBuf, Window)'
<1> DEFINE k == acq.channels
<1>1. /\ next \in activeChannels /\ rxRemaining < 0 /\ rxBuf' = Store(rxBuf, rxOffset)
      /\ baseAddress' = (baseAddress + channelCount) % Capacity
      /\ sampled' = Append(sampled, cycle)
  BY DEF RxSample, rxDone
<1>2. /\ k \in Nat \ {0} /\ k \in 1 .. Capacity /\ Window - 1 \in Nat
      /\ (Window - 1) + 1 = Window /\ ((Window - 1) + 1) * k <= Capacity
      /\ channelCount = k
  BY AcqFacts DEF RecorderInv, AcqInv
<1>3. /\ rxOffset = RankOf(next)
      /\ BegunIn(rxBuf', RankOf(next) + 1) /\ HeldIn(rxBuf', Window - 1)
  BY <1>1, ReadbackStored
<1>4. RankOf(next) + 1 = k
  <2>1. rxRemaining \in Int /\ rxRemaining >= -1 /\ rxOffset + rxRemaining = channelCount - 2
    BY DEF RecorderInv, CounterInv, RecorderTypeOK, Recording
  <2>2. RankOf(next) \in Int /\ k \in Int
    BY <1>2, RankMoves
  <2>3. QED
    BY <1>1, <1>2, <1>3, <2>1, <2>2
<1>5. /\ baseAddress \in Places /\ sampled \in Seq(1 .. MaxCycles) /\ cycle \in 1 .. MaxCycles
  BY ReadbackMoves DEF RecorderInv, RecorderTypeOK, Places
<1>6. baseAddress' = (baseAddress + k) % Capacity /\ baseAddress' = Ahead(baseAddress, k)
  <2>1. k \in 0 .. Capacity
    BY <1>2
  <2>2. QED
    BY <1>1, <1>2, <1>5, <2>1, PlacesAhead
<1>7. acq' = acq /\ activeChannels' = activeChannels /\ txBuf' = txBuf
  BY ReadbackMoves
<1> HIDE DEF k
<1>8. HeldIn(rxBuf, Window)'
  <2>1. /\ Begun(rxBuf', baseAddress, activeChannels, k, cycle, k)
        /\ Held(rxBuf', baseAddress, activeChannels, k, sampled, Window - 1)
    BY <1>3, <1>4 DEF BegunIn, HeldIn, k
  <2>2. Held(rxBuf', (baseAddress + k) % Capacity, activeChannels, k, Append(sampled, cycle),
             (Window - 1) + 1)
    BY <1>2, <1>5, <2>1, SampleHeld
  <2>3. Held(rxBuf', baseAddress', activeChannels, k, sampled', Window)
    BY <1>1, <1>2, <1>6, <2>2
  <2>4. QED
    BY <1>7, <2>3 DEF HeldIn, Window, k
<1>9. ASSUME txClean
      PROVE  HeldIn(txBuf, Window)'
  <2>1. /\ txOffset = IF RankOf(next) < k THEN k ELSE 0
        /\ BegunIn(txBuf, txOffset) /\ HeldIn(txBuf, Window - 1)
    BY <1>9, ReadbackMoves DEF RecorderInv, SetpointsInv, k
  <2>2. txOffset = k
    BY <1>1, <2>1, RankMoves DEF k
  <2>3. /\ Begun(txBuf, baseAddress, activeChannels, k, cycle, k)
        /\ Held(txBuf, baseAddress, activeChannels, k, sampled, Window - 1)
    BY <2>1, <2>2 DEF BegunIn, HeldIn, k
  <2>4. Held(txBuf, (baseAddress + k) % Capacity, activeChannels, k, Append(sampled, cycle),
             (Window - 1) + 1)
    BY <1>2, <1>5, <2>3, SampleHeld
  <2>5. Held(txBuf, baseAddress', activeChannels, k, sampled', Window)
    BY <1>1, <1>2, <1>6, <2>4
  <2>6. QED
    BY <1>7, <2>5 DEF HeldIn, Window, k
<1>10. QED
  BY <1>4, <1>6, <1>8, <1>9 DEF k

(* A sample before the trigger, or the one that awaits it, or one after    *)
(* it: how far the acquisition is.                                         *)
LEMMA SampleProgress ==
  ASSUME RecorderInv, RxWord, RxSample, Recording
  PROVE  ProgressInv'
<1> DEFINE n == Len(sampled)
           k == acq.channels
<1>1. /\ k \in 1 .. Capacity /\ acq.pre \in Nat /\ acq.post \in Nat \ {0}
      /\ Window * k <= Capacity /\ channelCount = k /\ ~whole /\ ~rearmed /\ k \in Nat \ {0}
  BY AcqFacts DEF RecorderInv, AcqInv, Recording
<1>2. n \in Nat /\ Len(sampled') = n + 1
  <2>1. sampled \in Seq(1 .. MaxCycles) /\ cycle \in 1 .. MaxCycles
        /\ sampled' = Append(sampled, cycle)
    BY ReadbackMoves DEF RecorderInv, RecorderTypeOK, RxSample
  <2>2. QED
    BY <2>1
<1>3. baseAddress \in Places /\ baseAddress' = Ahead(baseAddress, k)
  <2>1. /\ baseAddress \in Places /\ baseAddress' = (baseAddress + k) % Capacity
    BY <1>1 DEF RxSample, RecorderInv, RecorderTypeOK, Places
  <2>2. k \in 0 .. Capacity
    BY <1>1
  <2>3. QED
    BY <2>1, <2>2, PlacesAhead
<1>4. /\ acq' = acq /\ rearmed' = rearmed /\ triggered' = triggered /\ atTrigger' = atTrigger
  BY ReadbackMoves
<1>5. /\ recorderState \in {"FILL", "ARMED", "FINISH"}
      /\ pretriggerRemaining \in Int /\ posttriggerRemaining \in Int /\ triggered \in BOOLEAN
  BY DEF RecorderInv, RecorderTypeOK, Recording
<1>6. /\ recorderState = "FILL" => pretriggerRemaining = acq.pre - 2 - n
      /\ recorderState \in {"FILL", "ARMED"} => posttriggerRemaining = acq.post - 2
      /\ recorderState = "ARMED" => n >= acq.pre /\ (triggered => atTrigger = n)
      /\ recorderState = "FINISH" =>
           /\ atTrigger >= acq.pre /\ n - atTrigger \in 1 .. acq.post - 1
           /\ posttriggerRemaining = acq.post - 2 - (n - atTrigger)
           /\ triggerLocation = Behind(baseAddress, (n - atTrigger) * k)
  BY DEF RecorderInv, ProgressInv
<1>7. recorderState = "FILL" => ~triggered
  BY DEF RecorderInv, CounterInv
<1>8. atTrigger \in Int
  <2>1. MaxCycles * RecorderSupplies \in Nat
    BY RecorderSuppliesAssumption, RecorderBoundsAssumption
  <2>2. QED
    BY <2>1 DEF RecorderInv, RecorderTypeOK
<1> HIDE DEF n, k
<1>9. CASE FillBuffers
  <2>1. /\ recorderState = "FILL" /\ pretriggerRemaining' = pretriggerRemaining - 1
        /\ posttriggerRemaining' = posttriggerRemaining /\ whole' = whole
        /\ recorderState' = IF pretriggerRemaining < 0 THEN "ARMED" ELSE "FILL"
    BY <1>9 DEF FillBuffers, pretriggerDone
  <2>2. /\ pretriggerRemaining' = acq.pre - 2 - (n + 1)
        /\ pretriggerRemaining < 0 => n + 1 >= acq.pre
    BY <1>1, <1>2, <1>5, <1>6, <2>1, SMTT(30)
  <2>3. QED
    BY <1>1, <1>2, <1>4, <1>6, <1>7, <2>1, <2>2 DEF ProgressInv
<1>10. CASE Await
  <2>1. /\ recorderState = "ARMED" /\ ~triggered /\ recorderState' = "ARMED"
        /\ posttriggerRemaining' = posttriggerRemaining /\ whole' = whole
    BY <1>10 DEF Await, counterVars
  <2>2. n + 1 >= acq.pre
    BY <1>1, <1>2, <1>6, <2>1
  <2>3. QED
    BY <1>1, <1>2, <1>4, <1>6, <2>1, <2>2 DEF ProgressInv
<1>11. CASE Finish
  <2> DEFINE p == n + 1 - atTrigger
  <2>1. /\ recorderState = "FINISH" \/ (recorderState = "ARMED" /\ triggered)
        /\ triggerLocation' = IF recorderState = "ARMED" THEN baseAddress ELSE triggerLocation
        /\ posttriggerRemaining' = posttriggerRemaining - 1
        /\ IF posttriggerRemaining < 0 THEN recorderState' = "IDLE" /\ whole' = ~rearmed
           ELSE recorderState' = "FINISH" /\ whole' = whole
    BY <1>11 DEF Finish, posttriggerDone
  <2>2. /\ p \in 1 .. acq.post /\ posttriggerRemaining = acq.post - 2 - (p - 1)
        /\ atTrigger >= acq.pre
    BY <1>1, <1>2, <1>5, <1>6, <1>8, <2>1
  <2>3. triggerLocation' = Behind(baseAddress', p * k)
    <3>1. CASE recorderState = "ARMED"
      <4>1. p = 1 /\ 1 * k = k
        BY <1>1, <1>2, <1>6, <1>8, <2>1, <3>1
      <4>2. Behind(Ahead(baseAddress, k), k) = baseAddress
        BY <1>1, <1>3, PlacesMove
      <4>3. QED
        BY <1>3, <2>1, <3>1, <4>1, <4>2
    <3>2. CASE recorderState = "FINISH"
      <4>1. /\ n - atTrigger = p - 1 /\ p \in 2 .. acq.post
        BY <1>1, <1>2, <1>6, <1>8, <3>2
      <4> HIDE DEF p
      <4>2. triggerLocation' = Behind(baseAddress, (p - 1) * k)
        BY <1>6, <2>1, <3>2, <4>1
      <4>3. (p - 1) * k = p * k - k
        BY <1>1, <4>1
      <4>4. p * k \in 1 .. Capacity /\ p * k > k
        <5> DEFINE pk == p * k
                   wk == Window * k
                   k2 == 2 * k
        <5>1. p \in Nat /\ Window \in Nat /\ p <= Window /\ k \in Nat /\ 2 \in Nat /\ 2 <= p
          BY <1>1, <4>1 DEF Window
        <5>2. pk <= wk /\ k2 <= pk /\ pk \in Nat /\ wk \in Nat
          BY <5>1, ProductGrows
        <5>3. wk <= Capacity /\ k2 = k + k
          BY <1>1
        <5> HIDE DEF pk, wk, k2
        <5>4. pk \in 1 .. Capacity /\ pk > k
          BY <1>1, <5>2, <5>3, CapacityPositive
        <5>5. QED
          BY <5>4 DEF pk
      <4>5. Behind(Ahead(baseAddress, k), p * k) = Behind(baseAddress, p * k - k)
        BY <1>1, <1>3, <4>4, PlacesMove
      <4>6. QED
        BY <1>3, <4>2, <4>3, <4>5
    <3>3. QED
      BY <2>1, <3>1, <3>2
  <2>4. p = Len(sampled') - atTrigger' /\ atTrigger' >= acq'.pre /\ acq'.channels = k
    <3>1. p = Len(sampled') - atTrigger'
      <4>1. atTrigger' = atTrigger
        BY <1>4
      <4>2. Len(sampled') = n + 1
        BY <1>2
      <4>3. QED
        BY <1>2, <1>8, <4>1, <4>2
    <3>2. atTrigger' >= acq'.pre /\ acq'.channels = k
      BY <1>4, <2>2 DEF k
    <3>3. QED
      BY <3>1, <3>2
  <2> HIDE DEF p
  <2>5. CASE posttriggerRemaining < 0
    <3>1. p = acq.post /\ recorderState' = "IDLE"
      BY <1>1, <2>1, <2>2, <2>5
    <3>2. Len(sampled') = atTrigger' + acq'.post
      BY <1>1, <1>2, <1>4, <1>8, <2>4, <3>1
    <3>3. QED
      BY <1>4, <2>3, <2>4, <3>1, <3>2 DEF ProgressInv, Recording
  <2>6. CASE ~(posttriggerRemaining < 0)
    <3>1. /\ p \in 1 .. acq.post - 1 /\ recorderState' = "FINISH" /\ ~whole'
          /\ posttriggerRemaining' = acq.post - 2 - p
      BY <1>1, <1>5, <2>1, <2>2, <2>6
    <3>2. QED
      BY <1>4, <2>3, <2>4, <3>1 DEF ProgressInv, Recording
  <2>7. QED
    BY <2>5, <2>6
<1>12. QED
  BY <1>9, <1>10, <1>11 DEF RxSample

LEMMA SampleKept == RecorderInv /\ RxWord /\ RxSample => RecorderInv'
<1> SUFFICES ASSUME RecorderInv, RxWord, RxSample PROVE RecorderInv'
  OBVIOUS
<1> USE RecorderSuppliesAssumption, CapacityPositive
<1>1. /\ recorderState # "IDLE" /\ next \in activeChannels /\ rxRemaining < 0
      /\ rxBuf' = Store(rxBuf, rxOffset) /\ rxOffset' = 0 /\ txOffset' = 0
      /\ rxRemaining' = channelCount - 2
      /\ baseAddress' = (baseAddress + channelCount) % Capacity
      /\ sampled' = Append(sampled, cycle)
      /\ FillBuffers \/ Await \/ Finish
  BY DEF RxSample, rxDone, NextRxOffset
<1>2. /\ UNCHANGED <<activeChannels, pretriggerRemainingInit, posttriggerRemainingInit,
                     channelCount, triggered, txChannel, txBuf, activeChannelBitmap,
                     pretriggerCount, posttriggerCount, acq, arming, commands, atTrigger,
                     rearmed, rxClean, txClean>>
      /\ next' \in RecorderChannels /\ cycle' \in 1 .. MaxCycles + 1
      /\ stream' \in {"tx", "rx"} /\ cycle \in 1 .. MaxCycles
  BY ReadbackMoves
<1>3. /\ recorderState \in {"FILL", "ARMED", "FINISH"}
      /\ channelCount \in 1 .. RecorderSupplies
      /\ posttriggerRemaining \in -1 .. Capacity - 2
      /\ recorderState = "FILL" => pretriggerRemaining >= -2
      /\ pretriggerRemaining \in -3 .. Capacity - 2
      /\ sampled \in Seq(1 .. MaxCycles) /\ baseAddress \in 0 .. Capacity - 1
  BY <1>1 DEF RecorderInv, RecorderTypeOK, CounterInv
<1>4. Len(sampled) \in Nat /\ sampled' \in Seq(1 .. MaxCycles) /\ Len(sampled') = Len(sampled) + 1
      /\ sampled' # sampled
  <2>1. Len(sampled) \in Nat /\ sampled' \in Seq(1 .. MaxCycles)
        /\ Len(sampled') = Len(sampled) + 1
    BY <1>1, <1>2, <1>3
  <2>2. QED
    BY <2>1
<1>5. baseAddress' \in 0 .. Capacity - 1
  BY <1>1, <1>3, CapacityPositive
(* What each of the three cases of a complete sample does.                 *)
<1>6. /\ recorderState' \in {"IDLE", "FILL", "ARMED", "FINISH"}
      /\ pretriggerRemaining' \in -3 .. Capacity - 2
      /\ posttriggerRemaining' \in -2 .. Capacity - 2
      /\ recorderState' # "IDLE" => posttriggerRemaining' >= -1
      /\ recorderState' = "FILL" => pretriggerRemaining' >= -2 /\ recorderState = "FILL"
      /\ triggerLocation' \in 0 .. Capacity - 1
  <2>1. triggerLocation \in 0 .. Capacity - 1
    BY DEF RecorderInv, RecorderTypeOK
  <2>2. CASE FillBuffers
    <3>1. /\ recorderState = "FILL" /\ pretriggerRemaining' = pretriggerRemaining - 1
          /\ UNCHANGED <<posttriggerRemaining, triggerLocation>>
          /\ recorderState' = IF pretriggerRemaining < 0 THEN "ARMED" ELSE "FILL"
      BY <2>2 DEF FillBuffers, pretriggerDone
    <3>2. /\ pretriggerRemaining' \in -3 .. Capacity - 2
          /\ recorderState' = "FILL" => pretriggerRemaining' >= -2
          /\ posttriggerRemaining' \in -2 .. Capacity - 2 /\ posttriggerRemaining' >= -1
      BY <1>3, <3>1
    <3>3. QED
      BY <2>1, <3>1, <3>2
  <2>3. CASE Await
    <3>1. /\ recorderState' = "ARMED" /\ triggerLocation' = baseAddress
          /\ UNCHANGED <<pretriggerRemaining, posttriggerRemaining>>
      BY <2>3 DEF Await, counterVars
    <3>2. posttriggerRemaining' \in -2 .. Capacity - 2 /\ posttriggerRemaining' >= -1
      BY <1>3, <3>1
    <3>3. QED
      BY <1>3, <3>1, <3>2
  <2>4. CASE Finish
    <3>1. /\ recorderState # "FILL"
          /\ triggerLocation' = IF recorderState = "ARMED" THEN baseAddress ELSE triggerLocation
          /\ posttriggerRemaining' = posttriggerRemaining - 1
          /\ pretriggerRemaining' = pretriggerRemaining
          /\ recorderState' = IF posttriggerRemaining < 0 THEN "IDLE" ELSE "FINISH"
      BY <2>4 DEF Finish, posttriggerDone
    <3>2. /\ posttriggerRemaining' \in -2 .. Capacity - 2
          /\ ~(posttriggerRemaining < 0) => posttriggerRemaining' >= -1
      BY <1>3, <3>1
    <3>3. triggerLocation' \in 0 .. Capacity - 1
      BY <1>3, <2>1, <3>1
    <3>4. QED
      BY <1>3, <3>1, <3>2, <3>3
  <2>5. QED
    BY <1>1, <2>2, <2>3, <2>4
<1>7. /\ full' \in BOOLEAN /\ whole' \in BOOLEAN
      /\ whole' => ~rearmed /\ recorderState' = "IDLE"
  <2>1. full \in BOOLEAN /\ whole \in BOOLEAN /\ ~whole
    BY <1>1 DEF RecorderInv, RecorderTypeOK, AcqInv
  <2>2. \/ full' = full /\ whole' = whole
        \/ full' = TRUE /\ whole' = ~rearmed /\ recorderState' = "IDLE"
    BY <1>1 DEF FillBuffers, Await, Finish
  <2>3. CASE full' = full /\ whole' = whole
    BY <2>1, <2>3
  <2>4. CASE full' = TRUE /\ whole' = ~rearmed /\ recorderState' = "IDLE"
    <3>1. full' \in BOOLEAN /\ whole' \in BOOLEAN
      BY <2>4, Zenon
    <3>2. whole' => ~rearmed
      BY <2>4
    <3>3. QED
      BY <2>4, <3>1, <3>2
  <2>5. QED
    BY <2>2, <2>3, <2>4
<1>8. RecorderTypeOK'
  <2>1. rxBuf' \in [0 .. Capacity - 1 -> Words]
    BY <1>1, StoredTyped DEF Places
  <2>2. rxRemaining' \in -2 .. RecorderSupplies - 2
    BY <1>1, <1>3
  <2>3. rxOffset' \in RecorderChannels /\ txOffset' \in 0 .. OffsetRange - 1
    BY <1>1, OffsetRangeAssumption DEF RecorderChannels
  <2>4. posttriggerRemaining' \in -3 .. Capacity - 2
    BY <1>6
  <2>5. /\ sampled' \in Seq(1 .. MaxCycles) /\ baseAddress' \in 0 .. Capacity - 1
        /\ full' \in BOOLEAN /\ whole' \in BOOLEAN
    BY <1>4, <1>5, <1>7, Zenon
  <2>6. /\ recorderState' \in {"IDLE", "FILL", "ARMED", "FINISH"}
        /\ pretriggerRemaining' \in -3 .. Capacity - 2
        /\ triggerLocation' \in 0 .. Capacity - 1
    BY <1>6
  <2>7. QED
    BY <1>2, <2>1, <2>2, <2>3, <2>4, <2>5, <2>6 DEF RecorderInv, RecorderTypeOK
<1>9. Recording' \/ whole' => Recording
  <2>1. /\ rearmed' = rearmed /\ (whole' => ~rearmed) /\ recorderState # "IDLE"
    <3>1. rearmed' = rearmed
      BY <1>2
    <3>2. recorderState # "IDLE"
      BY <1>1
    <3>3. QED
      BY <1>7, <3>1, <3>2
  <2>2. QED
    BY <2>1 DEF Recording
<1>10. AcqInv'
  <2>1. /\ activeChannels # {} /\ (Recording => channelCount = acq.channels)
        /\ arming => rearmed
    BY <1>1 DEF RecorderInv, AcqInv
  <2>2. /\ acq.channels = Cardinality(activeChannels) /\ acq.pre \in Nat /\ acq.post \in Nat \ {0}
        /\ Window * acq.channels <= Capacity /\ pretriggerRemainingInit = acq.pre - 2
        /\ posttriggerRemainingInit = acq.post - 2
    BY <1>1, <2>1 DEF RecorderInv, AcqInv
  <2>3. UNCHANGED <<activeChannels, acq, pretriggerRemainingInit, posttriggerRemainingInit,
                    channelCount>>
    BY <1>2
  <2>4. /\ arming' => rearmed' /\ ~whole'
        /\ recorderState' # "IDLE" => ~whole'
    <3>1. arming' = arming /\ rearmed' = rearmed
      BY <1>2
    <3>2. arming => rearmed
      BY <2>1
    <3>3. QED
      BY <1>7, <3>1, <3>2
  <2>5. Recording' => channelCount' = acq'.channels
    BY <1>9, <2>1, <2>3
  <2>6. /\ acq'.channels = Cardinality(activeChannels') /\ activeChannels' # {}
        /\ acq'.pre \in Nat /\ acq'.post \in Nat \ {0}
        /\ (acq'.pre + acq'.post) * acq'.channels <= Capacity
        /\ pretriggerRemainingInit' = acq'.pre - 2 /\ posttriggerRemainingInit' = acq'.post - 2
    BY <2>1, <2>2, <2>3 DEF Window
  <2>7. QED
    BY <2>4, <2>5, <2>6, Zenon DEF AcqInv, Window
<1>11. CounterInv'
  <2>1. txChannel' <= (IF stream' = "tx" THEN next' ELSE 0)
    BY <1>1, ReadbackMoves
  <2>2. /\ rxRemaining' >= -1 /\ rxOffset' + rxRemaining' = channelCount' - 2
        /\ channelCount' >= 1
    BY <1>1, <1>2, <1>3
  <2>3. recorderState' = "FILL" => ~triggered'
    BY <1>2, <1>6 DEF RecorderInv, CounterInv
  <2>4. txClean' => rxClean'
    BY <1>2 DEF RecorderInv, CounterInv
  <2>5. QED
    BY <1>6, <2>1, <2>2, <2>3, <2>4 DEF CounterInv
<1>12. SamplesInv'
  <2>1. NextWord /\ atTrigger' = atTrigger /\ stream = "rx"
    BY ReadbackMoves DEF RxWord
  <2>2. QED
    BY <1>4, <2>1, CountsMove
<1>13. ProgressInv'
  <2>1. CASE Recording
    BY <2>1, SampleProgress
  <2>2. CASE ~Recording
    BY <1>9, <2>2, Zenon DEF ProgressInv
  <2>3. QED
    BY <2>1, <2>2
<1>14. ASSUME Recording
       PROVE  /\ acq.channels \in Nat \ {0} /\ RankOf(next) + 1 = acq.channels
                  => /\ (stream' = "rx" => RankOf(next)' = acq.channels)
                     /\ (stream' = "tx" => RankOf(next)' = 0 /\ next' = 0)
              /\ acq.channels \in Nat \ {0}
              /\ Window' \in Int /\ Window' - 1 \in Int /\ Window' - 1 <= Window'
              /\ RankOf(next) \in Int
  <2>1. acq.channels \in Nat \ {0} /\ Window \in Int /\ Window' = Window
    BY <1>2, <1>14, AcqFacts DEF Window
  <2>2. RankOf(next + 1) = RankOf(next) + 1 /\ RankOf(next) \in Int /\ RankOf(0) = 0
        /\ RankOf(next)' = RankOf(next')
    BY <1>1, <2>1, RankMoves
  <2>3. QED
    BY <2>1, <2>2, ReadbackMoves
<1>15. ReadbacksInv'
  <2>1. CASE Recording /\ rxClean
    <3>1. HeldIn(rxBuf, Window)' /\ RankOf(next) + 1 = acq.channels
      BY <2>1, SampleStored
    <3>2. HeldIn(rxBuf, Window - 1)'
      BY <1>14, <2>1, <3>1, FewerHeld DEF HeldIn
    <3>3. BegunIn(rxBuf, rxOffset)'
      BY <1>1 DEF BegunIn, Begun
    <3>4. rxOffset' = IF stream' = "rx" /\ RankOf(next)' < acq'.channels
                      THEN RankOf(next)' ELSE 0
      BY <1>1, <1>2, <1>14, <2>1, <3>1
    <3>5. QED
      BY <3>1, <3>2, <3>3, <3>4 DEF ReadbacksInv
  <2>2. CASE ~(Recording /\ rxClean)
    BY <1>2, <1>9, <2>2 DEF ReadbacksInv
  <2>3. QED
    BY <2>1, <2>2
<1>16. SetpointsInv'
  <2>1. CASE Recording /\ txClean
    <3>1. HeldIn(txBuf, Window)' /\ RankOf(next) + 1 = acq.channels
      BY <2>1, SampleStored DEF RecorderInv, CounterInv
    <3>2. HeldIn(txBuf, Window - 1)'
      BY <1>14, <2>1, <3>1, FewerHeld DEF HeldIn
    <3>3. BegunIn(txBuf, txOffset)'
      BY <1>1 DEF BegunIn, Begun
    <3>4. txOffset' = IF stream' = "tx" THEN RankOf(next)'
                      ELSE IF RankOf(next)' < acq'.channels THEN acq'.channels ELSE 0
      <4>1. CASE stream' = "tx"
        BY <1>1, <1>14, <2>1, <3>1, <4>1
      <4>2. CASE stream' = "rx"
        BY <1>1, <1>2, <1>14, <2>1, <3>1, <4>2
      <4>3. QED
        BY <1>2, <4>1, <4>2
    <3>5. txChannel' = IF stream' = "tx" THEN next' ELSE 0
      BY <1>1, <1>2, ReadbackMoves
    <3>6. QED
      BY <3>1, <3>2, <3>3, <3>4, <3>5 DEF SetpointsInv
  <2>2. CASE ~(Recording /\ txClean)
    BY <1>2, <1>9, <2>2 DEF SetpointsInv
  <2>3. QED
    BY <2>1, <2>2
<1>17. QED
  BY <1>8, <1>10, <1>11, <1>12, <1>13, <1>15, <1>16 DEF RecorderInv

(* Readbacks that do not come leave the sample to begin with the next ones.*)
LEMMA LossKept == RecorderInv /\ LoseReadbacks => RecorderInv'
<1> SUFFICES ASSUME RecorderInv, LoseReadbacks PROVE RecorderInv'
  OBVIOUS
<1> USE RecorderSuppliesAssumption, RecorderBoundsAssumption
<1>1. /\ stream = "rx" /\ next = 0 /\ cycle <= MaxCycles /\ stream' = "tx" /\ cycle' = cycle + 1
      /\ ~txClean' /\ txClean' \in BOOLEAN
      /\ UNCHANGED <<next, gatewareVars, requestVars, acq, commandVars, sampled,
                     atTrigger, rearmed, whole, rxClean>>
  BY DEF LoseReadbacks
<1>2. UNCHANGED <<activeChannels, pretriggerRemainingInit, posttriggerRemainingInit,
                  channelCount, recorderState, full, triggered, pretriggerRemaining,
                  posttriggerRemaining, rxRemaining, txChannel, rxOffset, txOffset,
                  baseAddress, triggerLocation, txBuf, rxBuf, activeChannelBitmap,
                  pretriggerCount, posttriggerCount, acq, arming, commands, next, sampled,
                  atTrigger, rearmed, whole, rxClean>>
  BY <1>1 DEF gatewareVars, registerVars, counterVars, addressVars, setpointVars,
              readbackVars, requestVars, commandVars
<1>3. cycle' \in 1 .. MaxCycles + 1 /\ cycle \in Int
  BY <1>1 DEF RecorderInv, RecorderTypeOK
<1>4. RecorderTypeOK'
  BY <1>1, <1>2, <1>3 DEF RecorderInv, RecorderTypeOK
<1>5. AcqInv'
  BY <1>2 DEF RecorderInv, AcqInv, Recording, Window
<1>6. CounterInv'
  BY <1>1, <1>2 DEF RecorderInv, CounterInv
<1>7. SamplesInv'
  <2> DEFINE u == (cycle - 1) * RecorderSupplies
             u2 == (cycle' - 1) * RecorderSupplies
  <2>1. u2 = u + RecorderSupplies /\ u \in Int
    BY <1>1, <1>3
  <2>2. Len(sampled) <= u + 0 /\ Len(sampled) \in Nat /\ atTrigger <= Len(sampled)
    BY <1>1, SamplesCounted DEF RecorderInv, SamplesInv
  <2> HIDE DEF u, u2
  <2>3. Len(sampled) <= u2 + 0
    BY <2>1, <2>2
  <2>4. QED
    BY <1>1, <1>2, <2>2, <2>3 DEF SamplesInv, u2
<1>8. ProgressInv'
  BY <1>2 DEF RecorderInv, ProgressInv, Recording
<1>9. ReadbacksInv'
  <2>1. RankOf(0) = 0 /\ (Recording => acq.channels >= 1)
    BY AcqFacts, Ranks DEF RankOf
  <2>2. Recording /\ rxClean => rxOffset = 0 /\ HeldIn(rxBuf, Window - 1)
    BY <1>1, <2>1 DEF RecorderInv, ReadbacksInv
  <2>3. rxOffset = 0 => BegunIn(rxBuf, rxOffset)'
    BY <1>2 DEF BegunIn, Begun
  <2>4. /\ HeldIn(rxBuf, Window - 1) => HeldIn(rxBuf, Window - 1)'
        /\ HeldIn(rxBuf, Window) => HeldIn(rxBuf, Window)'
    BY <1>2 DEF HeldIn, Window
  <2>5. Recording' = Recording
    BY <1>2 DEF Recording
  <2>6. QED
    BY <1>1, <1>2, <2>2, <2>3, <2>4, <2>5 DEF RecorderInv, ReadbacksInv
<1>10. SetpointsInv'
  BY <1>1 DEF SetpointsInv
<1>11. QED
  BY <1>4, <1>5, <1>6, <1>7, <1>8, <1>9, <1>10 DEF RecorderInv

-----------------------------------------------------------------------------
(* Triggers and commands *)

(* What the buffers hold stays while the recorder rests where it is.       *)
LEMMA BuffersKept ==
  ASSUME RecorderInv,
         UNCHANGED <<activeChannels, rxOffset, txChannel, txOffset, baseAddress, txBuf, rxBuf,
                     acq, cycle, stream, next, sampled, rearmed, whole, rxClean, txClean>>,
         recorderState' \in {recorderState, "IDLE"}
  PROVE  ReadbacksInv' /\ SetpointsInv'
<1>1. Recording' => Recording
  BY DEF Recording
<1>2. /\ HeldIn(rxBuf, Window - 1)' = HeldIn(rxBuf, Window - 1)
      /\ HeldIn(rxBuf, Window)' = HeldIn(rxBuf, Window)
      /\ BegunIn(rxBuf, rxOffset)' = BegunIn(rxBuf, rxOffset)
      /\ HeldIn(txBuf, Window - 1)' = HeldIn(txBuf, Window - 1)
      /\ HeldIn(txBuf, Window)' = HeldIn(txBuf, Window)
      /\ BegunIn(txBuf, txOffset)' = BegunIn(txBuf, txOffset)
      /\ RankOf(next)' = RankOf(next)
  BY DEF HeldIn, BegunIn, Window, RankOf
<1>3. ReadbacksInv'
  BY <1>1, <1>2 DEF RecorderInv, ReadbacksInv
<1>4. SetpointsInv'
  BY <1>1, <1>2 DEF RecorderInv, SetpointsInv
<1>5. QED
  BY <1>3, <1>4

(* A trigger comes between two samples, or in one that then comes after it.*)
LEMMA TriggerKept ==
  ASSUME RecorderInv,
         UNCHANGED <<activeChannels, pretriggerRemainingInit, posttriggerRemainingInit,
                     channelCount, recorderState, full, pretriggerRemaining,
                     posttriggerRemaining, rxRemaining, txChannel, rxOffset, txOffset,
                     baseAddress, triggerLocation, txBuf, rxBuf, activeChannelBitmap,
                     pretriggerCount, posttriggerCount, acq, arming, cycle, stream, next,
                     sampled, rearmed, whole, rxClean, txClean>>,
         commands' \in 0 .. MaxCommands,
         \/ triggered' = triggered /\ atTrigger' = atTrigger
         \/ recorderState = "ARMED" /\ triggered' = TRUE
            /\ atTrigger' = (IF triggered THEN atTrigger ELSE Len(sampled))
  PROVE  RecorderInv'
<1>1. /\ atTrigger' \in 0 .. MaxCycles * RecorderSupplies /\ atTrigger' <= Len(sampled)
      /\ triggered' \in BOOLEAN
  <2>1. /\ Len(sampled) \in Nat /\ Len(sampled) <= MaxCycles * RecorderSupplies
        /\ atTrigger \in 0 .. MaxCycles * RecorderSupplies /\ atTrigger <= Len(sampled)
    BY SamplesCounted DEF RecorderInv, RecorderTypeOK
  <2> DEFINE m == MaxCycles * RecorderSupplies
  <2>2. m \in Nat
    BY RecorderSuppliesAssumption, RecorderBoundsAssumption
  <2> HIDE DEF m
  <2>3. Len(sampled) \in 0 .. m
    BY <2>1, <2>2 DEF m
  <2>4. atTrigger' \in {atTrigger, Len(sampled)}
    OBVIOUS
  <2>5. triggered' \in BOOLEAN
    <3>1. triggered \in BOOLEAN
      BY DEF RecorderInv, RecorderTypeOK
    <3>2. triggered' = triggered \/ triggered' = TRUE
      OBVIOUS
    <3>3. QED
      BY <3>1, <3>2
  <2>6. QED
    BY <2>1, <2>3, <2>4, <2>5 DEF m
<1>2. RecorderTypeOK'
  BY <1>1, SMTT(30) DEF RecorderInv, RecorderTypeOK
<1>3. AcqInv'
  BY DEF RecorderInv, AcqInv, Recording, Window
<1>4. CounterInv'
  BY DEF RecorderInv, CounterInv
<1>5. SamplesInv'
  BY <1>1 DEF RecorderInv, SamplesInv
<1>6. ProgressInv'
  <2>1. CASE triggered' = triggered /\ atTrigger' = atTrigger
    BY <2>1 DEF RecorderInv, ProgressInv, Recording
  <2>2. CASE recorderState = "ARMED" /\ atTrigger' = (IF triggered THEN atTrigger ELSE Len(sampled))
    <3>1. Recording =>
            /\ posttriggerRemaining = acq.post - 2 /\ Len(sampled) >= acq.pre
            /\ triggered => atTrigger = Len(sampled)
      BY <2>2 DEF RecorderInv, ProgressInv
    <3>2. Recording => atTrigger' = Len(sampled)
      BY <2>2, <3>1
    <3>3. ~whole' /\ Recording' = Recording
      BY <2>2 DEF RecorderInv, AcqInv, Recording
    <3>4. QED
      BY <2>2, <3>1, <3>2, <3>3 DEF ProgressInv
  <2>3. QED
    BY <2>1, <2>2
<1>7. ReadbacksInv' /\ SetpointsInv'
  BY BuffersKept
<1>8. QED
  BY <1>2, <1>3, <1>4, <1>5, <1>6, <1>7 DEF RecorderInv

(* A command of an IOC, or a write of the idle recorder's control register *)
(* that clears its count of channels, or one that stops it.                *)
LEMMA CommandKept ==
  ASSUME RecorderInv,
         UNCHANGED <<activeChannels, pretriggerRemainingInit, posttriggerRemainingInit,
                     triggered, pretriggerRemaining, posttriggerRemaining, txChannel, rxOffset,
                     txOffset, baseAddress, triggerLocation, txBuf, rxBuf, acq, arming, cycle,
                     stream, next, sampled, atTrigger, rearmed, whole, rxClean, txClean>>,
         \/ UNCHANGED <<recorderState, channelCount, rxRemaining>>
         \/ recorderState' = "IDLE" /\ UNCHANGED <<channelCount, rxRemaining>>
         \/ /\ recorderState = "IDLE" /\ recorderState' = "IDLE"
            /\ channelCount' = 0 /\ rxRemaining' = -2,
         full' \in BOOLEAN, commands' \in 0 .. MaxCommands,
         activeChannelBitmap' \subseteq RecorderChannels,
         pretriggerCount' \in Int, posttriggerCount' \in Int
  PROVE  RecorderInv'
<1>1. /\ channelCount' \in 0 .. RecorderSupplies /\ rxRemaining' \in -2 .. RecorderSupplies - 2
      /\ recorderState' \in {"IDLE", "FILL", "ARMED", "FINISH"}
  <2>1. /\ channelCount \in 0 .. RecorderSupplies /\ rxRemaining \in -2 .. RecorderSupplies - 2
        /\ recorderState \in {"IDLE", "FILL", "ARMED", "FINISH"}
    BY DEF RecorderInv, RecorderTypeOK
  <2>2. /\ channelCount' \in {0, channelCount} /\ rxRemaining' \in {-2, rxRemaining}
        /\ recorderState' \in {"IDLE", recorderState}
    OBVIOUS
  <2>3. QED
    BY <2>1, <2>2, RecorderSuppliesAssumption
<1>2. recorderState' # "IDLE" =>
        /\ recorderState' = recorderState /\ channelCount' = channelCount
        /\ rxRemaining' = rxRemaining
  OBVIOUS
<1>3. RecorderTypeOK'
  BY <1>1 DEF RecorderInv, RecorderTypeOK
<1>4. AcqInv'
  BY <1>2 DEF RecorderInv, AcqInv, Recording, Window
<1>5. CounterInv'
  BY <1>2 DEF RecorderInv, CounterInv
<1>6. SamplesInv'
  BY DEF RecorderInv, SamplesInv
<1>7. ProgressInv'
  BY <1>2 DEF RecorderInv, ProgressInv, Recording
<1>8. ReadbacksInv' /\ SetpointsInv'
  <2>1. recorderState' \in {recorderState, "IDLE"}
    OBVIOUS
  <2>2. QED
    BY <2>1, BuffersKept
<1>9. QED
  BY <1>3, <1>4, <1>5, <1>6, <1>7, <1>8 DEF RecorderInv

(* What the recorder is armed with fits its buffers.                       *)
LEMMA PrepareKept == RecorderInv /\ PrepareArm => RecorderInv'
<1> SUFFICES ASSUME RecorderInv, PrepareArm PROVE RecorderInv'
  OBVIOUS
<1> USE RecorderSuppliesAssumption, RecorderCapacityAssumption
<1> DEFINE bitmap == IF activeChannelBitmap = {} THEN {0} ELSE activeChannelBitmap
           k == Cardinality(bitmap)
           counts == FitCounts(AtLeastOne(pretriggerCount), AtLeastOne(posttriggerCount),
                               Capacity \div k)
<1>1. /\ NextCommand /\ arming' = TRUE /\ activeChannelBitmap' = bitmap
      /\ pretriggerCount' = counts.pre /\ posttriggerCount' = counts.post
      /\ activeChannels' = bitmap
      /\ pretriggerRemainingInit' = counts.pre - 2
      /\ posttriggerRemainingInit' = counts.post - 2
      /\ acq' = [channels |-> k, pre |-> counts.pre, post |-> counts.post]
      /\ whole' = FALSE
      /\ rearmed' = (rearmed \/ recorderState # "IDLE")
      /\ UNCHANGED <<channelCount, recorderState, full, triggered, counterVars,
                     addressVars, setpointVars, readbackVars, cycleVars, sampled,
                     atTrigger, rxClean, txClean>>
  BY DEF PrepareArm
<1>2. UNCHANGED <<channelCount, recorderState, full, triggered, pretriggerRemaining,
                  posttriggerRemaining, rxRemaining, txChannel, rxOffset, txOffset, baseAddress,
                  triggerLocation, txBuf, rxBuf, cycle, stream, next, sampled,
                  atTrigger, rxClean, txClean>>
  BY <1>1 DEF counterVars, addressVars, setpointVars, readbackVars, cycleVars
<1>3. bitmap \in SUBSET RecorderChannels /\ bitmap # {}
  <2>1. 0 \in RecorderChannels
    BY DEF RecorderChannels
  <2>2. activeChannelBitmap \in SUBSET RecorderChannels
    BY DEF RecorderInv, RecorderTypeOK
  <2>3. CASE activeChannelBitmap = {}
    BY <2>1, <2>3
  <2>4. CASE activeChannelBitmap # {}
    BY <2>2, <2>4
  <2>5. QED
    BY <2>3, <2>4
<1> HIDE DEF bitmap
<1>4. k \in 1 .. Capacity /\ k \in 0 .. RecorderSupplies
  <2>1. k \in 0 .. RecorderSupplies /\ k >= 1
    BY <1>3, ChannelsFinite
  <2> HIDE DEF k
  <2>2. QED
    BY <2>1
<1>5. /\ AtLeastOne(pretriggerCount) \in Nat \ {0} /\ AtLeastOne(posttriggerCount) \in Nat \ {0}
  BY DEF AtLeastOne, RecorderInv, RecorderTypeOK
<1>6. /\ counts.pre \in 0 .. Capacity /\ counts.post \in 1 .. Capacity
      /\ (counts.pre + counts.post) * k <= Capacity
  <2> HIDE DEF k
  <2>1. QED
    BY <1>4, <1>5, CountsFit
<1> HIDE DEF counts, k
<1>7. /\ acq'.channels = k /\ acq'.pre = counts.pre /\ acq'.post = counts.post
      /\ commands' \in 0 .. MaxCommands
  <2>1. acq'.channels = k /\ acq'.pre = counts.pre /\ acq'.post = counts.post
    BY <1>1
  <2>2. commands' \in 0 .. MaxCommands
    BY <1>1, RecorderBoundsAssumption DEF NextCommand, RecorderInv, RecorderTypeOK
  <2>3. QED
    BY <2>1, <2>2
<1>8. /\ arming' \in BOOLEAN /\ whole' \in BOOLEAN /\ rearmed' \in BOOLEAN
      /\ arming' /\ ~whole' /\ (recorderState' # "IDLE" => rearmed')
  <2>1. arming' \in BOOLEAN /\ whole' \in BOOLEAN /\ rearmed' \in BOOLEAN
    BY <1>1, Zenon
  <2>2. recorderState' = recorderState
    BY <1>2
  <2>3. QED
    BY <1>1, <2>1, <2>2
<1>9. RecorderTypeOK'
  <2>1. /\ pretriggerRemainingInit' \in -2 .. Capacity - 2
        /\ posttriggerRemainingInit' \in -2 .. Capacity - 2
        /\ pretriggerCount' \in Int /\ posttriggerCount' \in Int
        /\ acq'.pre \in 0 .. Capacity /\ acq'.post \in 0 .. Capacity
        /\ acq'.channels \in 0 .. RecorderSupplies
    BY <1>1, <1>4, <1>6, <1>7
  <2>2. /\ activeChannels' \subseteq RecorderChannels
        /\ activeChannelBitmap' \subseteq RecorderChannels
    BY <1>1, <1>3
  <2>3. QED
    BY <1>2, <1>7, <1>8, <2>1, <2>2 DEF RecorderInv, RecorderTypeOK
<1>10. ~Recording'
  BY <1>8 DEF Recording
<1>11. AcqInv'
  <2>1. /\ acq'.channels = Cardinality(activeChannels') /\ activeChannels' # {}
        /\ acq'.pre \in Nat /\ acq'.post \in Nat \ {0}
        /\ (acq'.pre + acq'.post) * acq'.channels <= Capacity
        /\ pretriggerRemainingInit' = acq'.pre - 2 /\ posttriggerRemainingInit' = acq'.post - 2
    <3>1. acq'.channels = Cardinality(activeChannels') /\ activeChannels' # {}
      BY <1>1, <1>3, <1>7 DEF k
    <3>2. /\ acq'.pre \in Nat /\ acq'.post \in Nat \ {0}
          /\ pretriggerRemainingInit' = acq'.pre - 2 /\ posttriggerRemainingInit' = acq'.post - 2
      BY <1>1, <1>6, <1>7
    <3>3. (acq'.pre + acq'.post) * acq'.channels <= Capacity
      BY <1>6, <1>7
    <3>4. QED
      BY <3>1, <3>2, <3>3
  <2>2. QED
    BY <1>8, <1>10, <2>1, Zenon DEF AcqInv, Window
<1>12. CounterInv'
  BY <1>2 DEF RecorderInv, CounterInv
<1>13. SamplesInv'
  BY <1>2 DEF RecorderInv, SamplesInv
<1>14. ProgressInv' /\ ReadbacksInv' /\ SetpointsInv'
  BY <1>8, <1>10, Zenon DEF ProgressInv, ReadbacksInv, SetpointsInv
<1>15. QED
  BY <1>9, <1>11, <1>12, <1>13, <1>14 DEF RecorderInv

(* The recorder starts with nothing recorded, between two samples or where *)
(* it is noted that it does not.                                           *)
LEMMA StartKept == RecorderInv /\ StartArm => RecorderInv'
<1> SUFFICES ASSUME RecorderInv, StartArm PROVE RecorderInv'
  OBVIOUS
<1> USE RecorderSuppliesAssumption, RecorderCapacityAssumption
<1>1. /\ arming /\ arming' = FALSE /\ ~whole /\ activeChannels # {}
      /\ UNCHANGED <<activeChannelBitmap, pretriggerCount, posttriggerCount, acq, commands,
                     cycle, stream, next>>
  BY DEF StartArm, requestVars, cycleVars, RecorderInv, AcqInv
<1>2. arming' \in BOOLEAN
  BY <1>1, Zenon
<1>3. CASE recorderState # "IDLE"
  <2>1. UNCHANGED <<activeChannels, pretriggerRemainingInit, posttriggerRemainingInit,
                    channelCount, recorderState, full, triggered, pretriggerRemaining,
                    posttriggerRemaining, rxRemaining, txChannel, rxOffset, txOffset,
                    baseAddress, triggerLocation, txBuf, rxBuf, sampled, atTrigger, rearmed,
                    whole, rxClean, txClean>>
    BY <1>3 DEF StartArm, gatewareVars, historyVars, registerVars, counterVars, addressVars,
                setpointVars, readbackVars
  <2>2. RecorderTypeOK'
    BY <1>1, <1>2, <2>1 DEF RecorderInv, RecorderTypeOK
  <2>3. AcqInv'
    BY <1>1, <2>1 DEF RecorderInv, AcqInv, Recording, Window
  <2>4. CounterInv'
    BY <1>1, <2>1 DEF RecorderInv, CounterInv
  <2>5. SamplesInv'
    BY <1>1, <2>1 DEF RecorderInv, SamplesInv
  <2>6. ProgressInv'
    BY <1>1, <2>1 DEF RecorderInv, ProgressInv, Recording
  <2>7. ReadbacksInv' /\ SetpointsInv'
    BY <1>1, <2>1, BuffersKept
  <2>8. QED
    BY <2>2, <2>3, <2>4, <2>5, <2>6, <2>7 DEF RecorderInv
<1>4. CASE recorderState = "IDLE"
  <2>1. /\ recorderState' = "FILL" /\ channelCount' = acq.channels
        /\ rxRemaining' = acq.channels - 2
        /\ pretriggerRemaining' = pretriggerRemainingInit
        /\ posttriggerRemaining' = posttriggerRemainingInit
        /\ txChannel' = 0 /\ txOffset' = 0 /\ rxOffset' = 0
        /\ sampled' = <<>> /\ atTrigger' = 0
        /\ UNCHANGED <<activeChannels, pretriggerRemainingInit, posttriggerRemainingInit, full,
                       baseAddress, triggerLocation, txBuf, rxBuf, whole>>
    BY <1>4 DEF StartArm, registerVars, addressVars
  <2>2. /\ triggered' = FALSE /\ rearmed' = FALSE
        /\ rxClean' = (stream = "tx" \/ next = 0)
        /\ txClean' = (stream = "tx" /\ next = 0)
    BY <1>4 DEF StartArm
  <2>3. {triggered', rearmed', rxClean', txClean'} \subseteq BOOLEAN
    BY <2>2, Zenon
  <2>4. /\ acq.channels = Cardinality(activeChannels)
        /\ acq.channels \in 1 .. RecorderSupplies
        /\ acq.pre \in Nat /\ acq.post \in Nat \ {0}
        /\ pretriggerRemainingInit = acq.pre - 2 /\ posttriggerRemainingInit = acq.post - 2
        /\ acq.pre \in 0 .. Capacity /\ acq.post \in 0 .. Capacity
    <3>1. /\ acq.channels = Cardinality(activeChannels)
          /\ activeChannels \in SUBSET RecorderChannels
          /\ acq.pre \in Nat /\ acq.post \in Nat \ {0}
          /\ pretriggerRemainingInit = acq.pre - 2 /\ posttriggerRemainingInit = acq.post - 2
          /\ acq.pre \in 0 .. Capacity /\ acq.post \in 0 .. Capacity
      BY <1>1 DEF RecorderInv, AcqInv, RecorderTypeOK
    <3>2. acq.channels \in 0 .. RecorderSupplies /\ acq.channels >= 1
      BY <1>1, <3>1, ChannelsFinite
    <3>3. acq.channels \in 1 .. RecorderSupplies
      BY <3>2
    <3>4. QED
      BY <3>1, <3>3
  <2>5. /\ next \in 0 .. RecorderSupplies - 1 /\ cycle \in 1 .. MaxCycles + 1
        /\ stream \in {"tx", "rx"}
    BY DEF RecorderInv, RecorderTypeOK, RecorderChannels
  <2>6. RecorderTypeOK'
    <3>1. /\ pretriggerRemaining' \in -3 .. Capacity - 2 /\ rxRemaining' \in -2 .. RecorderSupplies - 2
          /\ posttriggerRemaining' \in -3 .. Capacity - 2 /\ channelCount' \in 0 .. RecorderSupplies
      <4>1. /\ pretriggerRemaining' = acq.pre - 2 /\ posttriggerRemaining' = acq.post - 2
            /\ rxRemaining' = acq.channels - 2 /\ channelCount' = acq.channels
        BY <2>1, <2>4
      <4>2. Capacity \in Nat /\ RecorderSupplies \in Nat
        OBVIOUS
      <4>3. pretriggerRemaining' \in -3 .. Capacity - 2 /\ posttriggerRemaining' \in -3 .. Capacity - 2
        <5>1. acq.pre \in 0 .. Capacity /\ acq.post \in 0 .. Capacity
          BY <2>4
        <5>2. QED
          BY <4>1, <4>2, <5>1
      <4>4. rxRemaining' \in -2 .. RecorderSupplies - 2 /\ channelCount' \in 0 .. RecorderSupplies
        <5>1. acq.channels \in 1 .. RecorderSupplies
          BY <2>4
        <5>2. QED
          BY <4>1, <4>2, <5>1
      <4>5. QED
        BY <4>3, <4>4
    <3>2. /\ 0 \in RecorderChannels /\ 0 \in 0 .. OffsetRange - 1 /\ <<>> \in Seq(1 .. MaxCycles)
      BY OffsetRangeAssumption DEF RecorderChannels
    <3>3. 0 \in 0 .. MaxCycles * RecorderSupplies
      <4>1. MaxCycles * RecorderSupplies \in Nat
        BY RecorderBoundsAssumption
      <4>2. QED
        BY <4>1
    <3>4. QED
      BY <1>1, <1>2, <2>1, <2>3, <3>1, <3>2, <3>3 DEF RecorderInv, RecorderTypeOK
  <2>7. AcqInv'
    <3>1. ~arming' /\ ~whole'
      BY <1>1, <2>1
    <3>2. UNCHANGED <<activeChannels, acq, pretriggerRemainingInit, posttriggerRemainingInit>>
          /\ activeChannels # {} /\ channelCount' = acq.channels
      BY <1>1, <2>1
    <3>3. QED
      BY <3>1, <3>2 DEF RecorderInv, AcqInv, Window
  <2>8. CounterInv'
    <3>1. /\ channelCount' >= 1 /\ rxRemaining' >= -1
          /\ rxOffset' + rxRemaining' = channelCount' - 2 /\ posttriggerRemaining' >= -1
          /\ pretriggerRemaining' >= -2
      BY <2>1, <2>4
    <3>2. txChannel' <= (IF stream' = "tx" THEN next' ELSE 0)
      BY <1>1, <2>1, <2>5
    <3>3. ~triggered' /\ (txClean' => rxClean')
      BY <2>2
    <3>4. QED
      BY <3>1, <3>2, <3>3 DEF CounterInv
  <2>9. SamplesInv'
    <3> DEFINE u == (cycle - 1) * RecorderSupplies
    <3>1. cycle - 1 \in Nat /\ u \in Nat
      BY <2>5, ProductGrows
    <3>2. u' = u /\ Len(sampled') = 0 /\ atTrigger' = 0 /\ next' = next /\ stream' = stream
          /\ cycle' = cycle
      BY <1>1, <2>1
    <3>3. stream = "rx" => cycle <= MaxCycles
      BY DEF RecorderInv, SamplesInv
    <3>4. Len(sampled') <= u + (IF stream = "rx" THEN next ELSE 0)
      <4> HIDE DEF u
      <4>1. QED
        BY <2>5, <3>1, <3>2
    <3>5. QED
      BY <3>2, <3>3, <3>4 DEF SamplesInv
  <2>10. Len(sampled') = 0 /\ ~whole' /\ acq' = acq
    BY <1>1, <2>1
  <2>11. ProgressInv'
    BY <2>1, <2>4, <2>10 DEF ProgressInv
  <2>12. RankOf(0)' = 0 /\ HeldIn(rxBuf, Window - 1)' /\ HeldIn(txBuf, Window - 1)'
         /\ BegunIn(rxBuf, rxOffset)' /\ BegunIn(txBuf, txOffset)'
    <3>1. RankOf(0)' = 0
      BY <2>1, AcqFacts, Ranks DEF RankOf
    <3>2. \A m \in Int : \A s \in 1 .. m : ~(s <= 0)
      OBVIOUS
    <3>3. Window' - 1 \in Int
      BY <2>4, <2>10 DEF Window
    <3>4. HeldIn(rxBuf, Window - 1)' /\ HeldIn(txBuf, Window - 1)'
      BY <2>10, <3>2, <3>3 DEF HeldIn, Held
    <3>5. BegunIn(rxBuf, rxOffset)' /\ BegunIn(txBuf, txOffset)'
      BY <2>1 DEF BegunIn, Begun
    <3>6. QED
      BY <3>1, <3>4, <3>5
  <2>13. ReadbacksInv'
    <3>1. rxClean' => stream = "tx" \/ next = 0
      BY <2>2
    <3>2. rxClean' => rxOffset' = IF stream' = "rx" /\ RankOf(next)' < acq'.channels
                                  THEN RankOf(next)' ELSE 0
      <4>1. CASE stream = "tx"
        BY <1>1, <2>1, <4>1
      <4>2. CASE next = 0
        <5>1. RankOf(next)' = 0
          BY <1>1, <2>12, <4>2 DEF RankOf
        <5>2. QED
          BY <2>1, <5>1
      <4>3. QED
        BY <3>1, <4>1, <4>2
    <3>3. QED
      BY <2>10, <2>12, <3>2 DEF ReadbacksInv
  <2>14. SetpointsInv'
    <3>1. txClean' => stream = "tx" /\ next = 0
      BY <2>2
    <3>2. stream = "tx" /\ next = 0
            => /\ txChannel' = IF stream' = "tx" THEN next' ELSE 0
               /\ txOffset' = IF stream' = "tx" THEN RankOf(next)'
                              ELSE IF RankOf(next)' < acq'.channels THEN acq'.channels ELSE 0
      <4>1. next = 0 => RankOf(next)' = 0
        BY <1>1, <2>12 DEF RankOf
      <4>2. QED
        BY <1>1, <2>1, <4>1
    <3>3. QED
      BY <2>10, <2>12, <3>1, <3>2 DEF SetpointsInv
  <2>15. QED
    BY <2>6, <2>7, <2>8, <2>9, <2>11, <2>13, <2>14 DEF RecorderInv
<1>5. QED
  BY <1>3, <1>4

(* A command of an IOC, other than to arm the recorder: it changes what is  *)
(* asked for, stops the recorder, or takes it by surprise when it is idle.  *)
LEMMA CommandCounted ==
  ASSUME RecorderInv, NextCommand
  PROVE  commands' \in 0 .. MaxCommands
BY RecorderBoundsAssumption DEF NextCommand, RecorderInv, RecorderTypeOK

(* Every step keeps the invariant.                                         *)
LEMMA RecorderSteps == RecorderInv /\ [RecorderNext]_recorderVars => RecorderInv'
<1> SUFFICES ASSUME RecorderInv, [RecorderNext]_recorderVars PROVE RecorderInv'
  OBVIOUS
<1>1. /\ full \in BOOLEAN /\ commands \in 0 .. MaxCommands
      /\ activeChannelBitmap \subseteq RecorderChannels
      /\ pretriggerCount \in Int /\ posttriggerCount \in Int
  BY DEF RecorderInv, RecorderTypeOK
<1>2. CASE TxWord
  BY <1>2, SetpointKept
<1>3. CASE RxWord
  <2>1. RxIgnored \/ RxStored \/ RxSample
    BY <1>3 DEF RxWord
  <2>2. QED
    BY <1>3, <2>1, IgnoredKept, StoredKept, SampleKept
<1>4. CASE LoseReadbacks
  BY <1>4, LossKept
<1>5. CASE Trigger
  <2>1. /\ recorderState = "ARMED" /\ ~triggered /\ triggered' = TRUE
        /\ atTrigger' = Len(sampled)
    BY <1>5 DEF Trigger
  <2>2. UNCHANGED <<activeChannels, pretriggerRemainingInit, posttriggerRemainingInit,
                    channelCount, recorderState, full, pretriggerRemaining,
                    posttriggerRemaining, rxRemaining, txChannel, rxOffset, txOffset,
                    baseAddress, triggerLocation, txBuf, rxBuf, activeChannelBitmap,
                    pretriggerCount, posttriggerCount, acq, arming, commands, cycle, stream,
                    next, sampled, rearmed, whole, rxClean, txClean>>
    BY <1>5 DEF Trigger, registerVars, counterVars, addressVars, setpointVars, readbackVars,
                requestVars, commandVars, cycleVars
  <2>3. commands' \in 0 .. MaxCommands
    BY <1>1, <2>2
  <2>4. QED
    BY <2>1, <2>2, <2>3, TriggerKept
<1>6. ASSUME NEW bitmap \in Bitmaps, SetChannelMask(bitmap)
      PROVE  RecorderInv'
  <2>1. /\ NextCommand /\ activeChannelBitmap' = bitmap
        /\ UNCHANGED <<gatewareVars, arming, pretriggerCount, posttriggerCount, acq, cycleVars,
                       historyVars>>
    BY <1>6 DEF SetChannelMask
  <2>2. UNCHANGED <<activeChannels, pretriggerRemainingInit, posttriggerRemainingInit,
                    channelCount, recorderState, full, triggered, pretriggerRemaining,
                    posttriggerRemaining, rxRemaining, txChannel, rxOffset, txOffset,
                    baseAddress, triggerLocation, txBuf, rxBuf, pretriggerCount,
                    posttriggerCount, acq, arming, cycle, stream, next, sampled, atTrigger,
                    rearmed, whole, rxClean, txClean>>
    BY <2>1 DEF gatewareVars, registerVars, counterVars, addressVars, setpointVars,
                readbackVars, cycleVars, historyVars
  <2>3. activeChannelBitmap' \subseteq RecorderChannels
    BY <2>1, RequestsAssumption
  <2>4. /\ commands' \in 0 .. MaxCommands /\ full' \in BOOLEAN
        /\ pretriggerCount' \in Int /\ posttriggerCount' \in Int
    BY <1>1, <2>1, <2>2, CommandCounted
  <2>5. QED
    BY <2>2, <2>3, <2>4, CommandKept
<1>7. ASSUME NEW n \in Counts, SetPretriggerCount(n) \/ SetPosttriggerCount(n)
      PROVE  RecorderInv'
  <2>1. /\ NextCommand /\ pretriggerCount' \in {pretriggerCount, n}
        /\ posttriggerCount' \in {posttriggerCount, n}
        /\ UNCHANGED <<gatewareVars, arming, activeChannelBitmap, acq, cycleVars, historyVars>>
    BY <1>7 DEF SetPretriggerCount, SetPosttriggerCount
  <2>2. UNCHANGED <<activeChannels, pretriggerRemainingInit, posttriggerRemainingInit,
                    channelCount, recorderState, full, triggered, pretriggerRemaining,
                    posttriggerRemaining, rxRemaining, txChannel, rxOffset, txOffset,
                    baseAddress, triggerLocation, txBuf, rxBuf, activeChannelBitmap, acq,
                    arming, cycle, stream, next, sampled, atTrigger, rearmed, whole, rxClean,
                    txClean>>
    BY <2>1 DEF gatewareVars, registerVars, counterVars, addressVars, setpointVars,
                readbackVars, cycleVars, historyVars
  <2>3. pretriggerCount' \in Int /\ posttriggerCount' \in Int
    BY <1>1, <2>1, RequestsAssumption
  <2>4. /\ commands' \in 0 .. MaxCommands /\ full' \in BOOLEAN
        /\ activeChannelBitmap' \subseteq RecorderChannels
    BY <1>1, <2>1, <2>2, CommandCounted
  <2>5. QED
    BY <2>2, <2>3, <2>4, CommandKept
<1>8. CASE PrepareArm
  BY <1>8, PrepareKept
<1>9. CASE StartArm
  BY <1>9, StartKept
<1>10. CASE Disarm
  <2>1. /\ NextCommand
        /\ UNCHANGED <<activeChannels, pretriggerRemainingInit, posttriggerRemainingInit,
                       triggered, full, pretriggerRemaining, posttriggerRemaining, txChannel,
                       rxOffset, txOffset, baseAddress, triggerLocation, txBuf, rxBuf,
                       activeChannelBitmap, pretriggerCount, posttriggerCount, acq, arming,
                       cycle, stream, next, sampled, atTrigger, rearmed, whole, rxClean,
                       txClean>>
    BY <1>10 DEF Disarm, registerVars, counterVars, addressVars, setpointVars, requestVars,
                 cycleVars, historyVars
  <2>2. \/ recorderState' = "IDLE" /\ UNCHANGED <<channelCount, rxRemaining>>
        \/ recorderState = "IDLE" /\ recorderState' = "IDLE" /\ channelCount' = 0
           /\ rxRemaining' = -2
    BY <1>10 DEF Disarm
  <2>3. /\ commands' \in 0 .. MaxCommands /\ full' \in BOOLEAN
        /\ activeChannelBitmap' \subseteq RecorderChannels
        /\ pretriggerCount' \in Int /\ posttriggerCount' \in Int
    BY <1>1, <2>1, CommandCounted
  <2>4. QED
    BY <2>1, <2>2, <2>3, CommandKept
<1>11. CASE psRecorderSoftTrigger
  <2>1. /\ NextCommand
        /\ UNCHANGED <<activeChannels, pretriggerRemainingInit, posttriggerRemainingInit,
                       recorderState, full, pretriggerRemaining, posttriggerRemaining, txChannel,
                       rxOffset, txOffset, baseAddress, triggerLocation, txBuf, rxBuf,
                       activeChannelBitmap, pretriggerCount, posttriggerCount, acq, arming,
                       cycle, stream, next, sampled, rearmed, whole, rxClean, txClean>>
    BY <1>11 DEF psRecorderSoftTrigger, registerVars, counterVars, addressVars, setpointVars,
                 requestVars, cycleVars
  <2>2. /\ commands' \in 0 .. MaxCommands /\ full' \in BOOLEAN
        /\ activeChannelBitmap' \subseteq RecorderChannels
        /\ pretriggerCount' \in Int /\ posttriggerCount' \in Int
    BY <1>1, <2>1, CommandCounted
  <2>3. CASE recorderState = "IDLE"
    <3>1. /\ channelCount' = 0 /\ rxRemaining' = -2 /\ recorderState' = "IDLE"
          /\ UNCHANGED <<triggered, atTrigger>>
      BY <1>11, <2>1, <2>3 DEF psRecorderSoftTrigger
    <3>2. QED
      BY <2>1, <2>2, <2>3, <3>1, CommandKept
  <2>4. CASE recorderState # "IDLE" /\ recorderState # "ARMED"
    <3>1. UNCHANGED <<channelCount, rxRemaining, atTrigger>>
      BY <1>11, <2>4 DEF psRecorderSoftTrigger
    <3>2. triggered' = triggered
      <4>1. triggered \in BOOLEAN
        BY DEF RecorderInv, RecorderTypeOK
      <4>2. triggered' = (triggered \/ recorderState = "ARMED")
        BY <1>11, <2>4 DEF psRecorderSoftTrigger
      <4>3. QED
        BY <2>4, <4>1, <4>2, Zenon
    <3>3. QED
      BY <2>1, <2>2, <3>1, <3>2, CommandKept
  <2>5. CASE recorderState = "ARMED"
    <3>1. /\ UNCHANGED <<channelCount, rxRemaining>>
          /\ atTrigger' = (IF triggered THEN atTrigger ELSE Len(sampled))
      BY <1>11, <2>5 DEF psRecorderSoftTrigger
    <3>2. triggered' = (triggered \/ recorderState = "ARMED")
      BY <1>11, <2>5 DEF psRecorderSoftTrigger
    <3>3. triggered' = TRUE
      BY <2>5, <3>2, Zenon
    <3>4. QED
      BY <2>1, <2>2, <2>5, <3>1, <3>3, TriggerKept
  <2>6. QED
    BY <2>3, <2>4, <2>5
<1>12. CASE ClearFull
  <2>1. /\ NextCommand /\ recorderState = "IDLE" /\ recorderState' = "IDLE"
        /\ channelCount' = 0 /\ rxRemaining' = -2
        /\ UNCHANGED <<activeChannels, pretriggerRemainingInit, posttriggerRemainingInit,
                       triggered, pretriggerRemaining, posttriggerRemaining, txChannel, rxOffset,
                       txOffset, baseAddress, triggerLocation, txBuf, rxBuf,
                       activeChannelBitmap, pretriggerCount, posttriggerCount, acq, arming,
                       cycle, stream, next, sampled, atTrigger, rearmed, whole, rxClean,
                       txClean>>
    BY <1>12 DEF ClearFull, registerVars, counterVars, addressVars, setpointVars, requestVars,
                 cycleVars, historyVars
  <2>2. full' = FALSE
    BY <1>12 DEF ClearFull
  <2>3. full' \in BOOLEAN
    BY <2>2, Zenon
  <2>4. /\ commands' \in 0 .. MaxCommands /\ activeChannelBitmap' \subseteq RecorderChannels
        /\ pretriggerCount' \in Int /\ posttriggerCount' \in Int
    BY <1>1, <2>1, CommandCounted
  <2>5. QED
    BY <2>1, <2>3, <2>4, CommandKept
<1>13. CASE UNCHANGED recorderVars
  <2>1. UNCHANGED <<activeChannels, pretriggerRemainingInit, posttriggerRemainingInit,
                    channelCount, recorderState, full, triggered, pretriggerRemaining,
                    posttriggerRemaining, rxRemaining, txChannel, rxOffset, txOffset,
                    baseAddress, triggerLocation, txBuf, rxBuf, activeChannelBitmap,
                    pretriggerCount, posttriggerCount, acq, arming, commands, cycle, stream,
                    next, sampled, atTrigger, rearmed, whole, rxClean, txClean>>
    BY <1>13 DEF recorderVars, gatewareVars, registerVars, counterVars, addressVars,
                 setpointVars, readbackVars, requestVars, commandVars, cycleVars, historyVars
  <2>2. /\ commands' \in 0 .. MaxCommands /\ full' \in BOOLEAN
        /\ activeChannelBitmap' \subseteq RecorderChannels
        /\ pretriggerCount' \in Int /\ posttriggerCount' \in Int
    BY <1>1, <2>1
  <2>3. QED
    BY <2>1, <2>2, CommandKept
<1>14. QED
  BY <1>2, <1>3, <1>4, <1>5, <1>6, <1>7, <1>8, <1>9, <1>10, <1>11, <1>12, <1>13
  DEF RecorderNext

(* The buffers of an acquisition that is complete, as they are read out.   *)
LEMMA FetchedAroundTrigger ==
  ASSUME RecorderInv, whole, NEW buffer, HeldIn(buffer, Window)
  PROVE  psRecorderFetch(buffer) = Waveform
<1> DEFINE k == acq.channels
           pre == acq.pre
           post == acq.post
<1>1. /\ k \in Nat \ {0} /\ pre \in Nat /\ post \in Nat \ {0}
      /\ (pre + post) * k <= Capacity
  BY AcqFacts DEF Window
<1>2. /\ atTrigger >= pre /\ Len(sampled) = atTrigger + post
      /\ triggerLocation = Behind(baseAddress, post * k)
  BY DEF RecorderInv, ProgressInv
<1>3. baseAddress \in Places /\ atTrigger \in Nat
  <2>1. baseAddress \in Places
    BY DEF RecorderInv, RecorderTypeOK, Places
  <2>2. atTrigger \in Nat
    BY DEF RecorderInv, RecorderTypeOK
  <2>3. QED
    BY <2>1, <2>2
<1>4. Held(buffer, baseAddress, activeChannels, k, sampled, pre + post)
  BY DEF HeldIn, Window
<1> HIDE DEF k, pre, post
<1>5. Fetched(buffer, triggerLocation, k, pre, post)
        = Shown(activeChannels, sampled, atTrigger, k, pre, post)
  BY <1>1, <1>2, <1>3, <1>4, AroundTrigger
<1>6. psRecorderFetch(buffer) = Fetched(buffer, triggerLocation, k, pre, post)
  BY DEF psRecorderFetch, dataLocation, dataCount, Fetched, k, pre, post
<1>7. Waveform = Shown(activeChannels, sampled, atTrigger, k, pre, post)
  BY DEF Waveform, Rank, dataCount, Shown, ChannelIn, RankIn, k, pre, post
<1>8. QED
  BY <1>5, <1>6, <1>7

LEMMA RecorderInvAroundTrigger == RecorderInv => SamplesAroundTrigger
<1> SUFFICES ASSUME RecorderInv PROVE SamplesAroundTrigger
  OBVIOUS
<1>1. ASSUME whole, rxClean
      PROVE  psRecorderFetch(rxBuf) = Waveform
  BY <1>1, FetchedAroundTrigger DEF RecorderInv, ReadbacksInv
<1>2. ASSUME whole, txClean
      PROVE  psRecorderFetch(txBuf) = Waveform
  BY <1>2, FetchedAroundTrigger DEF RecorderInv, SetpointsInv
<1>3. QED
  BY <1>1, <1>2 DEF SamplesAroundTrigger, ReadbacksAroundTrigger, SetpointsAroundTrigger

-----------------------------------------------------------------------------
(* Registers, counters and addresses keep to their ranges, however often   *)
(* the recorder is armed, stopped and triggered (fofbRecorder.v:60-221).   *)
THEOREM RecorderTypeCorrect == RecorderSpec => []RecorderTypeOK
<1>1. RecorderInv => RecorderTypeOK
  BY DEF RecorderInv
<1>2. QED
  BY <1>1, RecorderInitInv, RecorderSteps, PTL DEF RecorderSpec

(* What psRecorderFetch reads after an acquisition is the samples around   *)
(* its trigger, in both buffers, whatever the channels, the counts and the *)
(* size of the buffers, wherever the trigger comes and however often the   *)
(* buffers wrap (fofbRecorder.v:120-221, psWaveformRecorder.c:77-114).     *)
THEOREM RecordsAroundTrigger == RecorderSpec => []SamplesAroundTrigger
BY RecorderInitInv, RecorderSteps, RecorderInvAroundTrigger, PTL DEF RecorderSpec

-----------------------------------------------------------------------------
(* The source of setpoints and the recorder together *)

LEMMA StreamsParts == StreamsSpec => Spec /\ RecorderSpec
<1>1. StreamsInit => Init /\ RecorderInit
  BY DEF StreamsInit
<1>2. [StreamsNext]_<<vars, recorderVars, part>>
        => [Next]_vars /\ [RecorderNext]_recorderVars
  BY DEF StreamsNext
<1>3. QED
  BY <1>1, <1>2, PTL DEF StreamsSpec, Spec, RecorderSpec

(* Every register of the source and of the recorder keeps to its range, as *)
(* long as the sampling instants are more than a packet apart (psAWG.v,    *)
(* psMUX.v, fofbRecorder.v).                                               *)
THEOREM StreamsTypeCorrect ==
  ASSUME Steady
  PROVE  StreamsSpec => []StreamsTypeOK
<1>1. TypeOK /\ RecorderTypeOK => StreamsTypeOK
  BY DEF StreamsTypeOK
<1>2. QED
  BY <1>1, StreamsParts, TypeCorrect, RecorderTypeCorrect, PTL
=============================================================================
