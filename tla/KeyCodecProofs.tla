--------------------------- MODULE KeyCodecProofs ---------------------------
(***************************************************************************)
(* Proofs about KeyCodec: what the checksums are worth, for every number a *)
(* client sends and for messages of every length.                          *)
(***************************************************************************)
EXTENDS MCKeyCodec, FiniteSetTheorems, WellFoundedInduction, TLAPS

-----------------------------------------------------------------------------
(* Keys *)

\* A byte, by the four pairs of its bits.
LEMMA PairsOf ==
  ASSUME NEW k \in Byte
  PROVE  /\ \A i \in 0 .. 3 : Pair(k, i) \in 0 .. 3
         /\ k = 64 * Pair(k, 3) + 16 * Pair(k, 2) + 4 * Pair(k, 1) + Pair(k, 0)
<1>1. Pow2[1] = 1 /\ Pow2[3] = 4 /\ Pow2[5] = 16 /\ Pow2[7] = 64
  BY DEF Pow2
<1>2. /\ Pair(k, 0) = k % 4 /\ Pair(k, 1) = (k \div 4) % 4
      /\ Pair(k, 2) = (k \div 16) % 4 /\ Pair(k, 3) = (k \div 64) % 4
  BY <1>1 DEF Pair, Byte
<1>3. \A i \in 0 .. 3 : i = 0 \/ i = 1 \/ i = 2 \/ i = 3
  OBVIOUS
<1>4. \A x \in Byte : x % 4 \in 0 .. 3 /\ (x \div 4) % 4 \in 0 .. 3
                      /\ (x \div 16) % 4 \in 0 .. 3 /\ (x \div 64) % 4 \in 0 .. 3
  BY DEF Byte
<1>5. \A i \in 0 .. 3 : Pair(k, i) \in 0 .. 3
  BY <1>2, <1>3, <1>4
<1>6. k = 64 * ((k \div 64) % 4) + 16 * ((k \div 16) % 4) + 4 * ((k \div 4) % 4) + (k % 4)
  BY DEF Byte
<1>7. QED
  BY <1>2, <1>5, <1>6

\* Pairs make a byte.
LEMMA PairsMake ==
  ASSUME NEW x \in 0 .. 3, NEW y \in 0 .. 3, NEW z \in 0 .. 3, NEW w \in 0 .. 3
  PROVE  LET k == 64 * x + 16 * y + 4 * z + w
         IN /\ k \in Byte /\ Pair(k, 3) = x /\ Pair(k, 2) = y /\ Pair(k, 1) = z /\ Pair(k, 0) = w
<1> DEFINE k == 64 * x + 16 * y + 4 * z + w
<1>1. Pow2[1] = 1 /\ Pow2[3] = 4 /\ Pow2[5] = 16 /\ Pow2[7] = 64
  BY DEF Pow2
<1>2. /\ Pair(k, 0) = k % 4 /\ Pair(k, 1) = (k \div 4) % 4
      /\ Pair(k, 2) = (k \div 16) % 4 /\ Pair(k, 3) = (k \div 64) % 4
  BY <1>1 DEF Pair
<1>3. QED
  BY <1>2 DEF Byte

Joined(x, y, z, w) == 64 * x + 16 * y + 4 * z + w

\* The check of a byte made of four pairs.
LEMMA CheckOfPairs ==
  ASSUME NEW x \in 0 .. 3, NEW y \in 0 .. 3, NEW z \in 0 .. 3, NEW w \in 0 .. 3
  PROVE  keybus_key_crc_ok(Joined(x, y, z, w)) <=> (x + y + z) % 4 = w
<1> DEFINE k == 64 * x + 16 * y + 4 * z + w
<1>1. Pair(k, 3) = x /\ Pair(k, 2) = y /\ Pair(k, 1) = z /\ Pair(k, 0) = w
  BY PairsMake
<1> HIDE DEF k
<1>2. keybus_key_crc_ok(k) <=> (x + y + z) % 4 = w
  BY <1>1 DEF keybus_key_crc_ok
<1>3. QED
  BY <1>2 DEF k, Joined

\* One wrong bit makes one of the pairs another one, and the check fails.
LEMMA MisreadFails ==
  ASSUME NEW x \in 0 .. 3, NEW y \in 0 .. 3, NEW z \in 0 .. 3, NEW w \in 0 .. 3, NEW i \in 0 .. 7,
         NEW k, k = Joined(x, y, z, w), (x + y + z) % 4 = w
  PROVE  ~keybus_key_crc_ok(Misread(k, i))
<1>1. k = 64 * x + 16 * y + 4 * z + w /\ k \in Nat
  BY DEF Joined
<1>2. CASE i = 0
  <2>1. Misread(k, i) = k + (IF (k \div 1) % 2 = 1 THEN -1 ELSE 1)
    BY <1>1, <1>2 DEF Misread, BitAt, Pow2
  <2>2. (k \div 1) % 2 = w % 2
    BY <1>1
  <2>3. PICK e \in (0 .. 3) \ {w} : e = w + (IF w % 2 = 1 THEN -1 ELSE 1)
    OBVIOUS
  <2>4. Misread(k, i) = Joined(x, y, z, e)
    BY <1>1, <2>1, <2>2, <2>3 DEF Joined
  <2>5. (x + y + z) % 4 # e
    BY <2>3
  <2>6. QED
    BY <2>3, <2>4, <2>5, CheckOfPairs
<1>3. CASE i = 1
  <2>1. Misread(k, i) = k + (IF (k \div 2) % 2 = 1 THEN -2 ELSE 2)
    BY <1>1, <1>3 DEF Misread, BitAt, Pow2
  <2>2. (k \div 2) % 2 = (w \div 2)
    BY <1>1
  <2>3. PICK e \in (0 .. 3) \ {w} : e = w + (IF w \div 2 = 1 THEN -2 ELSE 2)
    OBVIOUS
  <2>4. Misread(k, i) = Joined(x, y, z, e)
    BY <1>1, <2>1, <2>2, <2>3 DEF Joined
  <2>5. (x + y + z) % 4 # e
    BY <2>3
  <2>6. QED
    BY <2>3, <2>4, <2>5, CheckOfPairs
<1>4. CASE i = 2
  <2>1. Misread(k, i) = k + (IF (k \div 4) % 2 = 1 THEN -4 ELSE 4)
    BY <1>1, <1>4 DEF Misread, BitAt, Pow2
  <2>2. (k \div 4) % 2 = z % 2
    BY <1>1
  <2>3. PICK e \in (0 .. 3) \ {z} : e = z + (IF z % 2 = 1 THEN -1 ELSE 1)
    OBVIOUS
  <2>4. Misread(k, i) = Joined(x, y, e, w)
    BY <1>1, <2>1, <2>2, <2>3 DEF Joined
  <2>5. (x + y + e) % 4 # w
    BY <2>3
  <2>6. QED
    BY <2>3, <2>4, <2>5, CheckOfPairs
<1>5. CASE i = 3
  <2>1. Misread(k, i) = k + (IF (k \div 8) % 2 = 1 THEN -8 ELSE 8)
    BY <1>1, <1>5 DEF Misread, BitAt, Pow2
  <2>2. (k \div 8) % 2 = (z \div 2)
    BY <1>1
  <2>3. PICK e \in (0 .. 3) \ {z} : e = z + (IF z \div 2 = 1 THEN -2 ELSE 2)
    OBVIOUS
  <2>4. Misread(k, i) = Joined(x, y, e, w)
    BY <1>1, <2>1, <2>2, <2>3 DEF Joined
  <2>5. (x + y + e) % 4 # w
    BY <2>3
  <2>6. QED
    BY <2>3, <2>4, <2>5, CheckOfPairs
<1>6. CASE i = 4
  <2>1. Misread(k, i) = k + (IF (k \div 16) % 2 = 1 THEN -16 ELSE 16)
    BY <1>1, <1>6 DEF Misread, BitAt, Pow2
  <2>2. (k \div 16) % 2 = y % 2
    BY <1>1
  <2>3. PICK e \in (0 .. 3) \ {y} : e = y + (IF y % 2 = 1 THEN -1 ELSE 1)
    OBVIOUS
  <2>4. Misread(k, i) = Joined(x, e, z, w)
    BY <1>1, <2>1, <2>2, <2>3 DEF Joined
  <2>5. (x + e + z) % 4 # w
    BY <2>3
  <2>6. QED
    BY <2>3, <2>4, <2>5, CheckOfPairs
<1>7. CASE i = 5
  <2>1. Misread(k, i) = k + (IF (k \div 32) % 2 = 1 THEN -32 ELSE 32)
    BY <1>1, <1>7 DEF Misread, BitAt, Pow2
  <2>2. (k \div 32) % 2 = (y \div 2)
    BY <1>1
  <2>3. PICK e \in (0 .. 3) \ {y} : e = y + (IF y \div 2 = 1 THEN -2 ELSE 2)
    OBVIOUS
  <2>4. Misread(k, i) = Joined(x, e, z, w)
    BY <1>1, <2>1, <2>2, <2>3 DEF Joined
  <2>5. (x + e + z) % 4 # w
    BY <2>3
  <2>6. QED
    BY <2>3, <2>4, <2>5, CheckOfPairs
<1>8. CASE i = 6
  <2>1. Misread(k, i) = k + (IF (k \div 64) % 2 = 1 THEN -64 ELSE 64)
    BY <1>1, <1>8 DEF Misread, BitAt, Pow2
  <2>2. (k \div 64) % 2 = x % 2
    BY <1>1
  <2>3. PICK e \in (0 .. 3) \ {x} : e = x + (IF x % 2 = 1 THEN -1 ELSE 1)
    OBVIOUS
  <2>4. Misread(k, i) = Joined(e, y, z, w)
    BY <1>1, <2>1, <2>2, <2>3 DEF Joined
  <2>5. (e + y + z) % 4 # w
    BY <2>3
  <2>6. QED
    BY <2>3, <2>4, <2>5, CheckOfPairs
<1>9. CASE i = 7
  <2>1. Misread(k, i) = k + (IF (k \div 128) % 2 = 1 THEN -128 ELSE 128)
    BY <1>1, <1>9 DEF Misread, BitAt, Pow2
  <2>2. (k \div 128) % 2 = (x \div 2)
    BY <1>1
  <2>3. PICK e \in (0 .. 3) \ {x} : e = x + (IF x \div 2 = 1 THEN -2 ELSE 2)
    OBVIOUS
  <2>4. Misread(k, i) = Joined(e, y, z, w)
    BY <1>1, <2>1, <2>2, <2>3 DEF Joined
  <2>5. (e + y + z) % 4 # w
    BY <2>3
  <2>6. QED
    BY <2>3, <2>4, <2>5, CheckOfPairs
<1>10. QED
  BY <1>2, <1>3, <1>4, <1>5, <1>6, <1>7, <1>8, <1>9

\* With the checksum, six bits of a code make a byte that passes the check.
LEMMA ChecksumFits ==
  ASSUME NEW c0 \in Byte
  PROVE  \E x, y, z, w \in 0 .. 3 :
           /\ WithChecksum(c0) = Joined(x, y, z, w)
           /\ (x + y + z) % 4 = w
           /\ (4 * c0) % 256 = 64 * x + 16 * y + 4 * z
<1> DEFINE t == Pair(c0, 3)
           x == Pair(c0, 2)
           y == Pair(c0, 1)
           z == Pair(c0, 0)
           w == (x + y + z) % 4
<1>1. /\ t \in 0 .. 3 /\ x \in 0 .. 3 /\ y \in 0 .. 3 /\ z \in 0 .. 3
      /\ c0 = 64 * t + 16 * x + 4 * y + z
  BY PairsOf
<1>2. WithChecksum(c0) = ((4 * c0) % 256) + w
  BY DEF WithChecksum
<1> HIDE DEF t, x, y, z
<1>3. w \in 0 .. 3
  BY <1>1
<1>4. (4 * c0) % 256 = 64 * x + 16 * y + 4 * z
  BY <1>1
<1> HIDE DEF w
<1>5. WithChecksum(c0) = 64 * x + 16 * y + 4 * z + w
  BY <1>1, <1>2, <1>3, <1>4
<1>6. (x + y + z) % 4 = w
  BY DEF w
<1>7. QED
  BY <1>1, <1>3, <1>4, <1>5, <1>6 DEF Joined

\* A key press code is a byte whatever the byte it is made of.
LEMMA KeyOfByte == ASSUME NEW c0 \in Byte PROVE KeyOf(c0) \in Byte
BY DEF KeyOf, Byte, Star, Hash

CodecInv == c \in Int /\ msg \in Seq(Byte) /\ Len(msg) >= 4

\* Whatever byte a client sends, what is written passes the check of a peripheral's
\* byte and, with one bit of it wrong, fails it.
LEMMA KeysAreChecked ==
  ASSUME CodecInv
  PROVE  KeysChecked
<1> SUFFICES ASSUME c \in Byte
             PROVE  LET key == keybus_add_crc(c)
                    IN /\ keybus_key_crc_ok(key)
                       /\ c \in (0 .. 63) \ {Star, Hash} => key \div 4 = c
                       /\ \A i \in 0 .. 7 : ~keybus_key_crc_ok(Misread(key, i))
  BY DEF KeysChecked
<1> DEFINE key == keybus_add_crc(c)
           d   == KeyOf(c)
<1>1. key = WithChecksum(d) /\ d \in Byte
  BY KeyOfByte DEF keybus_add_crc
<1>2. PICK x, y, z, w \in 0 .. 3 :
        key = Joined(x, y, z, w) /\ (x + y + z) % 4 = w /\ (4 * d) % 256 = 64 * x + 16 * y + 4 * z
  <2> HIDE DEF d
  <2>1. QED
    BY <1>1, ChecksumFits
<1>3. c \in (0 .. 63) \ {Star, Hash} => d = c
  BY DEF KeyOf
<1> HIDE DEF key, d
<1>4. keybus_key_crc_ok(key)
  BY <1>2, CheckOfPairs
<1>5. c \in (0 .. 63) \ {Star, Hash} => key \div 4 = c
  <2>1. SUFFICES ASSUME c \in 0 .. 63, d = c PROVE key \div 4 = c
    BY <1>3
  <2>2. 4 * c = 64 * x + 16 * y + 4 * z
    BY <1>2, <2>1
  <2>3. QED
    BY <1>2, <2>1, <2>2 DEF Joined
<1>6. \A i \in 0 .. 7 : ~keybus_key_crc_ok(Misread(key, i))
  BY <1>2, MisreadFails
<1>7. QED
  BY <1>4, <1>5, <1>6 DEF key

\* A number and its remainder have the same last three pairs and the same code.
LEMMA OfRemainder ==
  ASSUME NEW n \in Int
  PROVE  WithChecksum(n) = WithChecksum(n % 256)
<1> DEFINE q == n \div 256
           r == n % 256
<1>1. q \in Int /\ r \in 0 .. 255 /\ n = 256 * q + r
  OBVIOUS
<1>2. Pow2[1] = 1 /\ Pow2[3] = 4 /\ Pow2[5] = 16
  BY DEF Pow2
<1>3. \A x : /\ Pair(x, 0) = (x \div 1) % 4 /\ Pair(x, 1) = (x \div 4) % 4
             /\ Pair(x, 2) = (x \div 16) % 4
  BY <1>2 DEF Pair
<1> HIDE DEF q, r
<1>4. (n \div 1) % 4 = (r \div 1) % 4
  BY <1>1
<1>5. (n \div 4) % 4 = (r \div 4) % 4
  BY <1>1
<1>6. (n \div 16) % 4 = (r \div 16) % 4
  BY <1>1
<1>7. (4 * n) % 256 = (4 * r) % 256
  BY <1>1
<1>8. WithChecksum(n) = WithChecksum(r)
  BY <1>3, <1>4, <1>5, <1>6, <1>7 DEF WithChecksum
<1>9. QED
  BY <1>8 DEF r

\* The keys each client makes of a byte, compared one kind of byte at a time.
LEMMA ClientsDoAgree ==
  ASSUME CodecInv
  PROVE  ClientsAgree
<1>1. c \in Byte => TcpKey(c) = MqttStringKey(c)
  <2>1. \A d \in Digit : KeyOf(d - 48) = d - 48
    BY DEF KeyOf, Star, Hash, Digit
  <2>2. QED
    BY <2>1 DEF TcpKey, MqttStringKey, keybus_add_crc
<1>2. c \in Byte \ Digit => TcpKey(c) = MqttArrayKey(c)
  BY DEF TcpKey, MqttArrayKey
<1>3. c % 256 \notin {Star, Hash} => MqttArrayKey(c) = MqttArrayKey(c % 256)
  <2>1. SUFFICES ASSUME c % 256 \notin {Star, Hash}
                 PROVE  MqttArrayKey(c) = MqttArrayKey(c % 256)
    OBVIOUS
  <2>2. c \in Int
    BY DEF CodecInv
  <2>3. c # Star /\ c # Hash
    BY <2>1 DEF Star, Hash
  <2>4. KeyOf(c) = c /\ KeyOf(c % 256) = c % 256
    BY <2>1, <2>3 DEF KeyOf
  <2>5. QED
    BY <2>2, <2>4, OfRemainder DEF MqttArrayKey
<1>4. QED
  BY <1>1, <1>2, <1>3 DEF ClientsAgree

-----------------------------------------------------------------------------
(* Messages *)

Picked(s) == CHOOSE x \in s : TRUE

\* F goes through every set of D, one element after the other, as H says.
Folded(F, H, D) ==
  \A s \in D : F[s] = IF s = {} THEN 0 ELSE H[Picked(s)][F[s \ {Picked(s)}]]

\* A set of numbers has a least one.
LEMMA LeastOf ==
  ASSUME NEW S \in SUBSET Nat, S # {}
  PROVE  \E x \in S : \A y \in S : x <= y
<1> DEFINE Less == {ss \in Nat \X Nat : ss[1] < ss[2]}
<1>1. IsWellFoundedOn(Less, Nat)
  BY NatLessThanWellFounded DEF OpToRel
<1>2. PICK x \in S : \A y \in S : ~ (<<y, x>> \in Less)
  <2> HIDE DEF Less
  <2>1. QED
    BY <1>1, WFMin
<1>3. ASSUME NEW y \in S PROVE x <= y
  <2>1. ~ (<<y, x>> \in Less) /\ x \in Nat /\ y \in Nat
    BY <1>2
  <2>2. QED
    BY <2>1
<1>4. QED
  BY <1>3

Level(S, m) == {s \in SUBSET S : Cardinality(s) <= m}

\* What remains without an element that is picked is smaller.
LEMMA PickedFacts ==
  ASSUME NEW S, IsFiniteSet(S), NEW s \in SUBSET S
  PROVE  /\ IsFiniteSet(s) /\ Cardinality(s) \in Nat /\ (Cardinality(s) = 0 <=> s = {})
         /\ Cardinality(s) <= Cardinality(S)
         /\ s # {} => /\ Picked(s) \in S /\ s \ {Picked(s)} \in SUBSET S
                      /\ Cardinality(s \ {Picked(s)}) = Cardinality(s) - 1
<1>1. IsFiniteSet(s) /\ Cardinality(s) <= Cardinality(S)
  BY FS_Subset
<1>2. Cardinality(s) \in Nat /\ (Cardinality(s) = 0 <=> s = {})
  BY <1>1, FS_CardinalityType, FS_EmptySet
<1>3. ASSUME s # {}
      PROVE  /\ Picked(s) \in S /\ s \ {Picked(s)} \in SUBSET S
             /\ Cardinality(s \ {Picked(s)}) = Cardinality(s) - 1
  <2>1. Picked(s) \in s
    BY <1>3 DEF Picked
  <2>2. QED
    BY <1>1, <2>1, FS_RemoveElement
<1>4. QED
  BY <1>1, <1>2, <1>3

\* A fold over a finite set is defined: a function of its subsets that takes the chosen
\* element off each exists for every size, one size at a time.
LEMMA FoldExists ==
  ASSUME NEW S, IsFiniteSet(S), NEW H \in [S -> [Int -> Int]]
  PROVE  \E F \in [SUBSET S -> Int] : Folded(F, H, SUBSET S)
<1> DEFINE Good(m) == \E F \in [Level(S, m) -> Int] : Folded(F, H, Level(S, m))
           Bad     == {m \in Nat : ~Good(m)}
<1>1. Good(0)
  <2> DEFINE F == [s \in Level(S, 0) |-> 0]
  <2>1. ASSUME NEW s \in Level(S, 0)
        PROVE  s = {}
    <3>1. s \in SUBSET S /\ Cardinality(s) <= 0
      BY DEF Level
    <3>2. Cardinality(s) \in Nat /\ (Cardinality(s) = 0 <=> s = {})
      BY <3>1, PickedFacts
    <3>3. QED
      BY <3>1, <3>2
  <2>2. F \in [Level(S, 0) -> Int] /\ Folded(F, H, Level(S, 0))
    BY <2>1 DEF Folded
  <2>3. QED
    BY <2>2
<1>2. ASSUME NEW m \in Nat, Good(m)
      PROVE  Good(m + 1)
  <2>1. PICK G \in [Level(S, m) -> Int] : Folded(G, H, Level(S, m))
    BY <1>2
  <2> DEFINE F == [s \in Level(S, m + 1) |->
                     IF s = {} THEN 0 ELSE H[Picked(s)][G[s \ {Picked(s)}]]]
  <2>2. ASSUME NEW s \in Level(S, m + 1), s # {}
        PROVE  /\ Picked(s) \in S /\ s \ {Picked(s)} \in Level(S, m)
               /\ s \ {Picked(s)} \in Level(S, m + 1)
    <3>1. s \in SUBSET S /\ Cardinality(s) <= m + 1
      BY DEF Level
    <3>2. /\ Picked(s) \in S /\ s \ {Picked(s)} \in SUBSET S /\ Cardinality(s) \in Nat
          /\ Cardinality(s \ {Picked(s)}) = Cardinality(s) - 1
      BY <2>2, <3>1, PickedFacts
    <3>3. Cardinality(s \ {Picked(s)}) <= m /\ Cardinality(s \ {Picked(s)}) <= m + 1
      BY <3>1, <3>2
    <3>4. QED
      BY <3>2, <3>3 DEF Level
  <2>3. F \in [Level(S, m + 1) -> Int]
    BY <2>2
  <2>4. \A s \in Level(S, m) : s \in Level(S, m + 1) /\ F[s] = G[s]
    <3>1. ASSUME NEW s \in Level(S, m)
          PROVE  s \in Level(S, m + 1)
      <4>1. s \in SUBSET S /\ Cardinality(s) <= m
        BY DEF Level
      <4>2. Cardinality(s) \in Nat
        BY <4>1, PickedFacts
      <4>3. QED
        BY <4>1, <4>2 DEF Level
    <3>2. QED
      BY <2>1, <3>1 DEF Folded
  <2>5. \A s \in Level(S, m + 1) : F[s] = IF s = {} THEN 0 ELSE H[Picked(s)][G[s \ {Picked(s)}]]
    OBVIOUS
  <2> HIDE DEF F
  <2>6. Folded(F, H, Level(S, m + 1))
    BY <2>2, <2>4, <2>5 DEF Folded
  <2>7. QED
    BY <2>3, <2>6
<1> HIDE DEF Good
<1>3. Bad = {}
  <2>1. SUFFICES ASSUME Bad # {} PROVE FALSE
    OBVIOUS
  <2>2. PICK m \in Bad : \A k \in Bad : m <= k
    BY <2>1, LeastOf
  <2>3. m # 0 /\ m - 1 \in Nat
    BY <1>1
  <2>4. Good(m - 1)
    BY <2>2, <2>3
  <2>5. Good((m - 1) + 1)
    BY <1>2, <2>3, <2>4
  <2>6. QED
    BY <2>3, <2>5
<1>4. Cardinality(S) \in Nat
  BY FS_CardinalityType
<1>5. Good(Cardinality(S))
  BY <1>3, <1>4
<1>6. Level(S, Cardinality(S)) = SUBSET S
  BY PickedFacts DEF Level
<1>7. QED
  BY <1>5, <1>6 DEF Good

\* The sum of the bytes before the checksum, as the handler takes them off one by one, and
\* its remainder, as the tool adds them up.
SumOver(f, S)       == MapThenSumSet(LAMBDA i : f[i], S)
RemainderOver(f, S) == FoldSet(LAMBDA i, sum : (sum + f[i]) % 256, 0, S)

\* Taking the remainder at each byte or once at the end comes to the same.
LEMMA SumsAgree ==
  ASSUME NEW S, IsFiniteSet(S), NEW f, \A i \in S : f[i] \in Int
  PROVE  SumOver(f, S) \in Int /\ RemainderOver(f, S) = SumOver(f, S) % 256
<1> DEFINE Sum(g) == [s \in SUBSET S |-> IF s = {} THEN 0 ELSE f[Picked(s)] + g[s \ {Picked(s)}]]
           Rem(g) == [s \in SUBSET S |->
                        IF s = {} THEN 0 ELSE (g[s \ {Picked(s)}] + f[Picked(s)]) % 256]
           A == CHOOSE g : g = Sum(g)
           B == CHOOSE g : g = Rem(g)
<1>1. SumOver(f, S) = A[S]
  BY DEF SumOver, MapThenSumSet, MapThenFoldSet, Picked
<1>2. RemainderOver(f, S) = B[S]
  BY DEF RemainderOver, FoldSet, MapThenFoldSet, Picked
<1> HIDE DEF Sum, Rem
<1>3. A = Sum(A)
  <2> DEFINE H == [i \in S |-> [v \in Int |-> f[i] + v]]
  <2>1. H \in [S -> [Int -> Int]]
    OBVIOUS
  <2>2. PICK F \in [SUBSET S -> Int] : Folded(F, H, SUBSET S)
    BY <2>1, FoldExists
  <2>3. ASSUME NEW s \in SUBSET S
        PROVE  F[s] = IF s = {} THEN 0 ELSE f[Picked(s)] + F[s \ {Picked(s)}]
    <3>1. s # {} => Picked(s) \in S /\ s \ {Picked(s)} \in SUBSET S
      BY DEF Picked
    <3>2. F[s] = IF s = {} THEN 0 ELSE H[Picked(s)][F[s \ {Picked(s)}]]
      BY <2>2 DEF Folded
    <3>3. QED
      BY <3>1, <3>2
  <2>4. F = Sum(F)
    BY <2>3 DEF Sum
  <2>5. QED
    BY <2>4
<1>4. B = Rem(B)
  <2> DEFINE H == [i \in S |-> [v \in Int |-> (v + f[i]) % 256]]
  <2>1. H \in [S -> [Int -> Int]]
    <3>1. \A i \in S, v \in Int : (v + f[i]) % 256 \in Int
      OBVIOUS
    <3>2. QED
      BY <3>1
  <2>2. PICK F \in [SUBSET S -> Int] : Folded(F, H, SUBSET S)
    BY <2>1, FoldExists
  <2>3. ASSUME NEW s \in SUBSET S
        PROVE  F[s] = IF s = {} THEN 0 ELSE (F[s \ {Picked(s)}] + f[Picked(s)]) % 256
    <3>1. s # {} => Picked(s) \in S /\ s \ {Picked(s)} \in SUBSET S
      BY DEF Picked
    <3>2. F[s] = IF s = {} THEN 0 ELSE H[Picked(s)][F[s \ {Picked(s)}]]
      BY <2>2 DEF Folded
    <3>3. QED
      BY <3>1, <3>2
  <2>4. F = Rem(F)
    BY <2>3 DEF Rem
  <2>5. QED
    BY <2>4
<1> HIDE DEF A, B
<1>5. \A s \in SUBSET S : /\ A[s] = IF s = {} THEN 0 ELSE f[Picked(s)] + A[s \ {Picked(s)}]
                          /\ B[s] = IF s = {} THEN 0 ELSE (B[s \ {Picked(s)}] + f[Picked(s)]) % 256
  BY <1>3, <1>4 DEF Sum, Rem
<1> DEFINE Fine(s) == A[s] \in Int /\ B[s] = A[s] % 256
           Sizes   == {Cardinality(s) : s \in {t \in SUBSET S : ~Fine(t)}}
<1>6. Sizes = {}
  <2>1. SUFFICES ASSUME Sizes # {} PROVE FALSE
    OBVIOUS
  <2>2. Sizes \in SUBSET Nat
    <3>1. \A s \in SUBSET S : Cardinality(s) \in Nat
      BY PickedFacts
    <3>2. QED
      BY <3>1
  <2>3. PICK m \in Sizes : \A k \in Sizes : m <= k
    <3> HIDE DEF Sizes
    <3>1. QED
      BY <2>1, <2>2, LeastOf
  <2>4. PICK s \in SUBSET S : ~Fine(s) /\ Cardinality(s) = m
    BY <2>3
  <2>5. s # {}
    <3>1. SUFFICES ASSUME s = {} PROVE Fine(s)
      BY <2>4
    <3>2. A[s] = 0 /\ B[s] = 0
      BY <1>5, <3>1
    <3>3. QED
      BY <3>2
  <2> DEFINE r == s \ {Picked(s)}
  <2>6. Picked(s) \in S /\ r \in SUBSET S /\ Cardinality(r) = m - 1 /\ m \in Nat
    BY <2>4, <2>5, PickedFacts
  <2>7. A[s] = f[Picked(s)] + A[r] /\ B[s] = (B[r] + f[Picked(s)]) % 256
    BY <1>5, <2>5
  <2> HIDE DEF r
  <2>8. Fine(r)
    <3>1. SUFFICES ASSUME ~Fine(r) PROVE FALSE
      OBVIOUS
    <3>2. m - 1 \in Sizes
      BY <2>6, <3>1
    <3>3. m <= m - 1
      BY <2>3, <3>2
    <3>4. QED
      BY <2>6, <3>3
  <2>9. f[Picked(s)] \in Int
    BY <2>6
  <2>10. \A u, v \in Int : ((u % 256) + v) % 256 = (v + u) % 256
    OBVIOUS
  <2>11. Fine(s)
    <3>1. PICK u \in Int : A[r] = u /\ B[r] = u % 256
      BY <2>8
    <3>2. PICK v \in Int : f[Picked(s)] = v
      BY <2>9
    <3>3. A[s] = v + u /\ B[s] = ((u % 256) + v) % 256
      BY <2>7, <3>1, <3>2
    <3>4. v + u \in Int
      OBVIOUS
    <3>5. QED
      BY <2>10, <3>3, <3>4
  <2>12. QED
    BY <2>4, <2>11
<1>7. Fine(S)
  BY <1>6
<1>8. QED
  BY <1>1, <1>2, <1>7

\* The tool for key codes computes what the device writes, and the handler accepts the
\* messages whose checksum byte is the one the tool for checksums computes.
LEMMA ToolsDoAgree ==
  ASSUME CodecInv
  PROVE  ToolsAgree
<1>1. c \in Byte \ {Star, Hash} => keybus_add_crc(c) = KeyTool(c)
  <2>1. SUFFICES ASSUME c \in Byte, KeyOf(c) = c PROVE WithChecksum(c) = KeyTool(c)
    BY DEF KeyOf, keybus_add_crc
  <2> DEFINE s == ((c \div 16) % 4) + ((c \div 4) % 4) + (c % 4)
  <2>2. Pair(c, 0) = c % 4 /\ Pair(c, 1) = (c \div 4) % 4 /\ Pair(c, 2) = (c \div 16) % 4
    BY <2>1 DEF Pair, Pow2, Byte
  <2>3. WithChecksum(c) = ((4 * c) % 256) + (s % 4) /\ KeyTool(c) = (4 * c + (s % 4)) % 256
    BY <2>2 DEF WithChecksum, KeyTool
  <2>4. s \in Int
    BY <2>1 DEF Byte
  <2> HIDE DEF s
  <2>5. \A t \in 0 .. 3 : ((4 * c) % 256) + t = (4 * c + t) % 256
    BY <2>1 DEF Byte
  <2>6. QED
    BY <2>3, <2>4, <2>5
<1>2. msg[1] \notin {5, 17} =>
        (keybus_handler_check_crc(msg) <= 0 <=> msg[Len(msg) - 1] = CheckTool(msg))
  <2>1. SUFFICES ASSUME msg[1] \notin {5, 17}
                 PROVE  CrcLeft(msg) % 256 <= 0 <=> msg[Len(msg) - 1] = CheckTool(msg)
    BY DEF keybus_handler_check_crc
  <2> DEFINE S == 1 .. Len(msg) - 2
             A == SumOver(msg, S)
  <2>2. Len(msg) \in Nat /\ Len(msg) >= 4 /\ \A i \in 1 .. Len(msg) : msg[i] \in Byte
    BY DEF CodecInv
  <2>3. IsFiniteSet(S) /\ \A i \in S : msg[i] \in Int
    <3>1. Len(msg) - 2 \in Int
      BY <2>2
    <3>2. \A a, b \in Int : IsFiniteSet(a .. b)
      BY FS_Interval
    <3>3. ASSUME NEW i \in S
          PROVE  msg[i] \in Int
      <4>1. i \in 1 .. Len(msg)
        BY <2>2
      <4>2. msg[i] \in Byte
        BY <2>2, <4>1
      <4>3. \A x \in Byte : x \in Int
        BY DEF Byte
      <4>4. QED
        BY ONLY <4>2, <4>3
    <3>4. QED
      BY <3>1, <3>2, <3>3
  <2>4. A \in Int /\ CheckTool(msg) = A % 256
    <3>1. CheckTool(msg) = RemainderOver(msg, S)
      BY DEF CheckTool, RemainderOver
    <3> HIDE DEF S
    <3>2. QED
      BY <2>3, <3>1, SumsAgree
  <2>5. CrcLeft(msg) = msg[Len(msg) - 1] - A
    BY DEF CrcLeft, SumOver
  <2>6. PICK m \in Byte : msg[Len(msg) - 1] = m
    BY <2>2
  <2> HIDE DEF A, S
  <2>7. (m - A) % 256 <= 0 <=> m = A % 256
    BY <2>4, <2>6 DEF Byte
  <2>8. QED
    BY <2>4, <2>5, <2>6, <2>7
<1>3. QED
  BY <1>1, <1>2 DEF ToolsAgree

-----------------------------------------------------------------------------
(* Reports *)

\* After the ninth bit a byte begins every eight bits.
LEMMA BytesOf255 ==
  ASSUME NEW bits \in 0 .. 255
  PROVE  BytesBegun(bits) \in 1 .. 33
<1> DEFINE S == {n \in 1 .. bits : ByteEnds(n)}
           f == [n \in S |-> IF n = 8 THEN 0 ELSE 1 + ((n - 9) \div 8)]
<1>1. ASSUME NEW n \in S
      PROVE  n \in 8 .. 255 /\ (n # 8 => (n - 9) % 8 = 0 /\ n >= 9)
  BY DEF ByteEnds
<1>2. f \in [S -> 0 .. 31]
  <2>1. ASSUME NEW n \in S
        PROVE  f[n] \in 0 .. 31
    BY <1>1
  <2>2. QED
    BY <2>1
<1>3. ASSUME NEW m \in S, NEW n \in S, f[m] = f[n]
      PROVE  m = n
  <2>1. \A k \in 8 .. 255 : k # 8 /\ k >= 9 /\ (k - 9) % 8 = 0 => k = 9 + 8 * ((k - 9) \div 8)
    OBVIOUS
  <2>2. CASE m = 8
    <3>1. n = 8
      BY <1>1, <1>3, <2>2
    <3>2. QED
      BY <2>2, <3>1
  <2>3. CASE n = 8
    <3>1. m = 8
      BY <1>1, <1>3, <2>3
    <3>2. QED
      BY <2>3, <3>1
  <2>4. CASE m # 8 /\ n # 8
    <3>1. (m - 9) \div 8 = (n - 9) \div 8
      BY <1>1, <1>3, <2>4
    <3>2. QED
      BY <1>1, <2>1, <2>4, <3>1
  <2>5. QED
    BY <2>2, <2>3, <2>4
<1> HIDE DEF f, S
<1>4. f \in Injection(S, 0 .. 31)
  BY <1>2, <1>3 DEF Injection, IsInjective
<1>5. IsFiniteSet(0 .. 31) /\ Cardinality(0 .. 31) = 32
  <2>1. /\ IsFiniteSet(0 .. 31)
        /\ Cardinality(0 .. 31) = IF 0 > 31 THEN 0 ELSE 31 - 0 + 1
    <3>1. 0 \in Int /\ 31 \in Int
      OBVIOUS
    <3>2. QED
      BY <3>1, FS_Interval, Zenon
  <2>2. QED
    BY <2>1
<1>6. IsFiniteSet(S) /\ Cardinality(S) <= 32
  BY <1>4, <1>5, FS_Injection
<1>7. Cardinality(S) \in Nat
  BY <1>6, FS_CardinalityType
<1>8. BytesBegun(bits) = 1 + Cardinality(S)
  BY DEF BytesBegun, S
<1>9. QED
  BY <1>6, <1>7, <1>8

\* No report the counter allows is longer than the buffer a client copies it into.
LEMMA ReportsDoFit ==
  ReportsFit
<1>1. SUFFICES ASSUME c \in 0 .. 255
               PROVE  TextSize(BytesBegun(c)) <= 128 /\ BinarySize(BytesBegun(c)) <= 128
  BY DEF ReportsFit
<1>2. PICK b \in 1 .. 33 : BytesBegun(c) = b
  BY <1>1, BytesOf255
<1>3. QED
  BY <1>2 DEF TextSize, BinarySize

-----------------------------------------------------------------------------
(* The bytes and the messages of the runs *)

\* MCKeyCodec's c is a number, and its msg a message of at least four bytes.
THEOREM CodecIndInv == Spec => []CodecInv
<1>1. Init => CodecInv
  <2>1. SUFFICES ASSUME Init PROVE CodecInv
    OBVIOUS
  <2>2. msg \in [1 .. 4 -> Byte]
    <3>1. \E m \in [1 .. 4 -> MsgBytes] : msg = m
      BY <2>1 DEF Init
    <3>2. QED
      BY <3>1, CodecAssumption
  <2>3. Len(msg) = 4 /\ msg \in Seq(Byte)
    <3>1. msg = [i \in 1 .. 4 |-> msg[i]] /\ \A i \in 1 .. 4 : msg[i] \in Byte
      BY <2>2
    <3>2. QED
      BY <3>1
  <2>4. QED
    BY <2>1, <2>3 DEF Init, CodecInv
<1>2. CodecInv /\ [Next]_<<c, msg>> => CodecInv'
  <2>1. SUFFICES ASSUME CodecInv, [Next]_<<c, msg>> PROVE CodecInv'
    OBVIOUS
  <2>2. CASE NextNumber
    BY <2>1, <2>2 DEF NextNumber, CodecInv
  <2>3. CASE LongerMessage
    <3>1. PICK b \in Byte : msg' = Append(msg, b) /\ c' = c
      BY <2>3, CodecAssumption DEF LongerMessage
    <3>2. QED
      BY <2>1, <3>1 DEF CodecInv
  <2>4. CASE UNCHANGED <<c, msg>>
    BY <2>1, <2>4 DEF CodecInv
  <2>5. QED
    BY <2>1, <2>2, <2>3, <2>4 DEF Next
<1>3. QED
  BY <1>1, <1>2, PTL DEF Spec

\* Whatever character or number a client sends, the byte written to the bus
\* passes the check of keybus_key_crc_ok, gives the key code back, and fails the check
\* with any one bit misread (keybus_add_crc and keybus_key_crc_ok, keybus_handler.c).
THEOREM CodecKeysChecked == Spec => []KeysChecked
<1>1. CodecInv => KeysChecked
  BY KeysAreChecked
<1>2. QED
  BY <1>1, CodecIndInv, PTL

\* The TCP line, the MQTT string and the MQTT array write the same byte for the same
\* character, and a number its remainder (tcp_client.c, mqtt.c).
THEOREM CodecClientsAgree == Spec => []ClientsAgree
<1>1. CodecInv => ClientsAgree
  BY ClientsDoAgree
<1>2. QED
  BY <1>1, CodecIndInv, PTL

\* The device and the repository's tools compute the same key bytes, and
\* keybus_handler_check_crc accepts exactly the messages whose checksum byte is that of
\* utils/checkcrc.py, however long the message is.
THEOREM CodecToolsAgree == Spec => []ToolsAgree
<1>1. CodecInv => ToolsAgree
  BY ToolsDoAgree
<1>2. QED
  BY <1>1, CodecIndInv, PTL

\* A message of at most 255 bits fits into the report buffer in both modes
\* (dsc_tcp_dispatch_msg and the 128 bytes of msg_buf).
THEOREM CodecReportsFit == Spec => []ReportsFit
<1>1. ReportsFit
  BY ReportsDoFit
<1>2. QED
  BY <1>1, PTL
=============================================================================
