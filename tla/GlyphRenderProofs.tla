------------------------- MODULE GlyphRenderProofs --------------------------
(***************************************************************************)
(* For every set of glyphs and requests, and every picture of squares of   *)
(* the largest size: a glyph and its slot in the cache point at each       *)
(* other, whatever is refused, pushed out, or freed (CacheInv), and each   *)
(* request is drawn as it was asked for (DrawnInv).                        *)
(*                                                                         *)
(* A new glyph must not be put on the slot of another one, which would     *)
(* then point at a slot that is not its own.  When slots are handed out    *)
(* this takes that no glyph starts behind the count (BelowCount), though   *)
(* one may reach behind it.                                                *)
(*                                                                         *)
(* That no upload writes over another glyph is shown in two halves: the    *)
(* slots of two glyphs are apart (RunsApart), because what is pushed out   *)
(* for a square is all that has a slot in it (EvictedApart); and squares   *)
(* without a common slot are without a common pixel (SquaresApart),        *)
(* because the bits of a slot that choose its column and its row           *)
(* determine it, and those of a square's first slot are zero within it     *)
(* (Nested, Decode).                                                       *)
(***************************************************************************)
EXTENDS GlyphRender, SequenceTheorems, WellFoundedInduction, TLAPS

(* No glyph starts at a slot that was not handed out.                      *)
BelowCount == \A i \in Slots : glyphs[i] # NoGlyph => i < count

CacheInv == CacheTypeOK /\ BackPointers /\ BelowCount

-----------------------------------------------------------------------------
(* Sizes and slots.                                                        *)

LEMMA Products ==
  ASSUME NEW c \in Nat \ {0}, NEW q \in Nat, NEW r \in Nat, q * c < r * c
  PROVE  q * c + c <= r * c
<1>1. CASE q >= r
  <2>1. PICK d \in Nat : q = r + d
    <3>1. q - r \in Nat /\ q = r + (q - r)
      BY <1>1
    <3> QED BY <3>1
  <2>2. q * c = r * c + d * c /\ d * c \in Nat /\ r * c \in Nat
    BY <2>1
  <2> QED BY <2>2
<1>2. CASE q < r
  <2>1. PICK d \in Nat : r = q + 1 + d
    <3>1. r - q - 1 \in Nat /\ r = q + 1 + (r - q - 1)
      BY <1>2
    <3> QED BY <3>1
  <2>2. r * c = q * c + c + d * c /\ d * c \in Nat /\ q * c \in Nat
    BY <2>1
  <2> QED BY <2>2
<1> QED BY <1>1, <1>2

(* c * (n \div c) is the last multiple of c up to n.                       *)
LEMMA Quotient ==
  ASSUME NEW n \in Nat, NEW c \in Nat \ {0}
  PROVE  /\ n \div c \in Nat
         /\ (n \div c) * c \in Nat
         /\ (n \div c) * c <= n
         /\ n < (n \div c) * c + c
         /\ n % c = 0 => (n \div c) * c = n
<1>1. n \div c \in Nat /\ n = (c * (n \div c)) + (n % c) /\ n % c \in 0 .. c - 1
  OBVIOUS
<1>2. (n \div c) * c = c * (n \div c) /\ (n \div c) * c \in Nat
  BY <1>1
<1> QED BY <1>1, <1>2

LEMMA Counts ==
  ASSUME NEW s \in GlyphSizes
  PROVE  /\ s \in Nat \ {0}
         /\ SizeToCount(s) \in Nat \ {0}
         /\ GLYPH_CACHE_SIZE \in Nat
         /\ (GLYPH_CACHE_SIZE \div SizeToCount(s)) * SizeToCount(s) = GLYPH_CACHE_SIZE
<1>1. s \in Nat \ {0} /\ s >= GLYPH_MIN_SIZE /\ GLYPH_MIN_SIZE \in Nat \ {0}
  <2>1. s \in 0 .. GLYPH_MAX_SIZE
    BY DEF GlyphSizes
  <2> QED BY <2>1, SizeAssumption
<1>2. s \div GLYPH_MIN_SIZE \in Nat \ {0}
  <2> DEFINE d == s \div GLYPH_MIN_SIZE
  <2>1. d \in Nat /\ s < d * GLYPH_MIN_SIZE + GLYPH_MIN_SIZE
    BY <1>1, Quotient
  <2>2. d # 0
    BY <1>1, <2>1
  <2> QED BY <2>1, <2>2
<1>3. SizeToCount(s) \in Nat \ {0}
  <2> DEFINE d == s \div GLYPH_MIN_SIZE
  <2> HIDE DEF d
  <2>1. d \in Nat \ {0} => d * d \in Nat \ {0}
    OBVIOUS
  <2> QED BY <1>2, <2>1 DEF SizeToCount, d
<1>4. GLYPH_CACHE_SIZE \in Nat
  <2>1. /\ CACHE_PICTURE_SIZE * CACHE_PICTURE_SIZE \in Nat
        /\ GLYPH_MIN_SIZE * GLYPH_MIN_SIZE \in Nat \ {0}
    BY SizeAssumption
  <2> QED BY <2>1, Quotient DEF GLYPH_CACHE_SIZE
<1>5. GLYPH_CACHE_SIZE % SizeToCount(s) = 0
  BY SizeAssumption
<1> QED BY <1>1, <1>3, <1>4, <1>5, Quotient

(* The least of some natural numbers is one of them.                       *)
LEMMA MinIn ==
  ASSUME NEW S \in SUBSET Nat, S # {}
  PROVE  Min(S) \in S /\ \A y \in S : Min(S) <= y
<1>1. PICK m \in S : \A y \in S : <<y, m>> \notin OpToRel(<, Nat)
  BY NatLessThanWellFounded, WFMin
<1>2. \A y \in S : ~ (y < m)
  BY <1>1 DEF OpToRel
<1>3. \A y \in S : m <= y
  BY <1>2
<1> QED BY <1>3 DEF Min

-----------------------------------------------------------------------------
(* Every second bit.                                                       *)

(* SecondBits as it is for the numbers up to n.                            *)
BitsUpTo(n, f) ==
  /\ f \in [0 .. n -> Nat]
  /\ \A k \in 0 .. n : f[k] = IF k = 0 THEN 0 ELSE (k % 2) + 2 * f[k \div 4]

LEMMA BitsExist == \A n \in Nat : \E f : BitsUpTo(n, f)
<1> DEFINE Bad == {n \in Nat : ~ \E f : BitsUpTo(n, f)}
<1> SUFFICES ASSUME Bad # {} PROVE FALSE
  OBVIOUS
<1>1. PICK m \in Bad : \A y \in Bad : m <= y
  BY MinIn
<1>2. m \in Nat /\ ~ \E f : BitsUpTo(m, f)
  OBVIOUS
<1>3. CASE m = 0
  <2>1. BitsUpTo(0, [k \in 0 .. 0 |-> 0])
    BY DEF BitsUpTo
  <2> QED BY <1>2, <1>3, <2>1
<1>4. CASE m # 0
  <2>1. m - 1 \in Nat /\ m - 1 \notin Bad
    BY <1>1, <1>2, <1>4
  <2>2. PICK f : BitsUpTo(m - 1, f)
    BY <2>1
  <2> DEFINE e == [k \in 0 .. m |-> IF k = m THEN (m % 2) + 2 * f[m \div 4] ELSE f[k]]
  <2> HIDE DEF Bad
  <2>3. \A k \in 0 .. m - 1 : f[k] \in Nat
    BY <2>2 DEF BitsUpTo
  <2>4. \A k \in 0 .. m : k # 0 => k \div 4 \in 0 .. m - 1 /\ k % 2 \in 0 .. 1
    BY <1>2, <1>4
  <2>5. \A k \in 0 .. m : e[k] \in Nat
    <3> TAKE k \in 0 .. m
    <3>1. k = m \/ k \in 0 .. m - 1
      BY <1>2
    <3>2. m \div 4 \in 0 .. m - 1 /\ m % 2 \in 0 .. 1
      BY <1>2, <1>4
    <3>3. f[m \div 4] \in Nat
      BY <2>3, <3>2
    <3>4. (m % 2) + 2 * f[m \div 4] \in Nat
      BY <3>2, <3>3
    <3> QED BY <2>3, <3>1, <3>4
  <2>6. \A k \in 0 .. m : e[k] = IF k = 0 THEN 0 ELSE (k % 2) + 2 * e[k \div 4]
    <3> TAKE k \in 0 .. m
    <3>1. k = m \/ k \in 0 .. m - 1
      BY <1>2
    <3>2. k # 0 => e[k \div 4] = f[k \div 4]
      <4>1. k # 0 => k \div 4 \in 0 .. m /\ k \div 4 # m
        BY <1>2, <2>4
      <4> QED BY <4>1
    <3>3. CASE k = m
      BY <1>2, <1>4, <3>2, <3>3
    <3>4. CASE k # m
      BY <2>2, <3>1, <3>2, <3>4 DEF BitsUpTo
    <3> QED BY <3>3, <3>4
  <2>7. BitsUpTo(m, e)
    BY <2>5, <2>6 DEF BitsUpTo
  <2> QED BY <1>2, <2>7
<1> QED BY <1>3, <1>4

LEMMA BitsAgree ==
  ASSUME NEW n \in Nat, NEW f, BitsUpTo(n, f), NEW m \in Nat, NEW g, BitsUpTo(m, g)
  PROVE  \A k \in Nat : k <= n /\ k <= m => f[k] = g[k]
<1> DEFINE Bad == {k \in Nat : k <= n /\ k <= m /\ f[k] # g[k]}
<1> SUFFICES ASSUME Bad # {} PROVE FALSE
  OBVIOUS
<1>1. PICK k \in Bad : \A y \in Bad : k <= y
  BY MinIn
<1>2. k \in 0 .. n /\ k \in 0 .. m /\ f[k] # g[k] /\ k \in Nat
  OBVIOUS
<1>3. k # 0
  BY <1>2 DEF BitsUpTo
<1>4. k \div 4 \in Nat /\ k \div 4 < k
  BY <1>2, <1>3
<1>5. f[k \div 4] = g[k \div 4]
  <2>1. k \div 4 \notin Bad
    BY <1>1, <1>4
  <2> QED BY <1>2, <1>4, <2>1
<1> QED BY <1>2, <1>3, <1>5 DEF BitsUpTo

LEMMA SecondBitsDef ==
  SecondBits = [n \in Nat |-> IF n = 0 THEN 0 ELSE (n % 2) + 2 * SecondBits[n \div 4]]
<1> DEFINE F == [n \in Nat |-> (CHOOSE f : BitsUpTo(n, f))[n]]
<1>1. \A n \in Nat : F[n] = IF n = 0 THEN 0 ELSE (n % 2) + 2 * F[n \div 4]
  <2> TAKE n \in Nat
  <2>1. PICK f : BitsUpTo(n, f) /\ f = CHOOSE h : BitsUpTo(n, h)
    BY BitsExist
  <2>2. F[n] = f[n]
    BY <2>1
  <2>3. f[n] = IF n = 0 THEN 0 ELSE (n % 2) + 2 * f[n \div 4]
    <3>1. n \in 0 .. n
      OBVIOUS
    <3> QED BY <2>1, <3>1 DEF BitsUpTo
  <2>4. n \div 4 \in Nat /\ n \div 4 <= n
    OBVIOUS
  <2>5. PICK g : BitsUpTo(n \div 4, g) /\ g = CHOOSE h : BitsUpTo(n \div 4, h)
    BY <2>4, BitsExist
  <2>6. F[n \div 4] = g[n \div 4]
    BY <2>4, <2>5
  <2>7. g[n \div 4] = f[n \div 4]
    BY <2>1, <2>4, <2>5, BitsAgree
  <2> QED BY <2>2, <2>3, <2>6, <2>7
<1>2. F = [n \in Nat |-> IF n = 0 THEN 0 ELSE (n % 2) + 2 * F[n \div 4]]
  <2> HIDE DEF F
  <2>1. F \in [Nat -> {F[n] : n \in Nat}]
    BY DEF F
  <2> QED BY <1>1, <2>1
<1> HIDE DEF F
<1> QED BY <1>2 DEF SecondBits

LEMMA SecondBitsType == \A n \in Nat : SecondBits[n] \in Nat
<1> DEFINE Bad == {n \in Nat : SecondBits[n] \notin Nat}
<1> SUFFICES ASSUME Bad # {} PROVE FALSE
  OBVIOUS
<1>1. PICK n \in Bad : \A y \in Bad : n <= y
  BY MinIn
<1>2. n \in Nat /\ SecondBits[n] \notin Nat
  OBVIOUS
<1>3. SecondBits[n] = IF n = 0 THEN 0 ELSE (n % 2) + 2 * SecondBits[n \div 4]
  BY <1>2, SecondBitsDef
<1>4. n # 0 /\ n \div 4 \in Nat /\ n \div 4 < n /\ n % 2 \in 0 .. 1
  BY <1>2, <1>3
<1>5. SecondBits[n \div 4] \in Nat
  <2>1. n \div 4 \notin Bad
    BY <1>1, <1>4
  <2> QED BY <1>4, <2>1
<1> QED BY <1>2, <1>3, <1>4, <1>5

(* A slot of four, and the one that is left when its two bits are dropped. *)
LEMMA SecondBitsOf ==
  ASSUME NEW n \in Nat, NEW b \in 0 .. 3
  PROVE  /\ SecondBits[0] = 0
         /\ SecondBits[4 * n + b] = (b % 2) + 2 * SecondBits[n]
         /\ SecondBits[(4 * n + b) \div 2] = (b \div 2) + 2 * SecondBits[n \div 2]
<1>1. \A k \in Nat : SecondBits[k] = IF k = 0 THEN 0 ELSE (k % 2) + 2 * SecondBits[k \div 4]
  BY SecondBitsDef
<1>2. SecondBits[0] = 0
  BY <1>1
<1>3. \A k \in Nat, c \in 0 .. 3 : SecondBits[4 * k + c] = (c % 2) + 2 * SecondBits[k]
  <2> TAKE k \in Nat, c \in 0 .. 3
  <2>1. 4 * k + c \in Nat /\ (4 * k + c) % 2 = c % 2 /\ (4 * k + c) \div 4 = k
    OBVIOUS
  <2>2. SecondBits[k] \in Nat
    BY SecondBitsType
  <2>3. CASE 4 * k + c = 0
    <3>1. k = 0 /\ c = 0
      BY <2>3
    <3> QED BY <3>1, <1>2
  <2>4. CASE 4 * k + c # 0
    BY <1>1, <2>1, <2>4
  <2> QED BY <2>3, <2>4
<1>4. PICK k \in Nat, j \in 0 .. 1 : n = 2 * k + j
  <2>1. n \div 2 \in Nat /\ n % 2 \in 0 .. 1 /\ n = 2 * (n \div 2) + (n % 2)
    OBVIOUS
  <2> QED BY <2>1
<1>5. (4 * n + b) \div 2 = 4 * k + (2 * j + (b \div 2)) /\ n \div 2 = k
  BY <1>4
<1>6. 2 * j + (b \div 2) \in 0 .. 3 /\ (2 * j + (b \div 2)) % 2 = b \div 2
  OBVIOUS
<1>7. SecondBits[(4 * n + b) \div 2] = (b \div 2) + 2 * SecondBits[k]
  BY <1>3, <1>5, <1>6
<1> QED BY <1>2, <1>3, <1>5, <1>7

(* Bits above and below an even place come apart.                          *)
LEMMA BitsSplitOnce ==
  ASSUME NEW d \in Nat \ {0},
         \A q \in Nat, r \in 0 .. d * d - 1 :
           /\ SecondBits[d * d * q + r] = d * SecondBits[q] + SecondBits[r]
           /\ SecondBits[(d * d * q + r) \div 2] = d * SecondBits[q \div 2] + SecondBits[r \div 2]
           /\ SecondBits[r] \in 0 .. d - 1 /\ SecondBits[r \div 2] \in 0 .. d - 1,
         NEW q \in Nat, NEW r \in 0 .. (2 * d) * (2 * d) - 1
  PROVE  /\ SecondBits[(2 * d) * (2 * d) * q + r] = (2 * d) * SecondBits[q] + SecondBits[r]
         /\ SecondBits[((2 * d) * (2 * d) * q + r) \div 2]
              = (2 * d) * SecondBits[q \div 2] + SecondBits[r \div 2]
         /\ SecondBits[r] \in 0 .. 2 * d - 1 /\ SecondBits[r \div 2] \in 0 .. 2 * d - 1
<1> DEFINE c == d * d
<1>1. c \in Nat \ {0} /\ (2 * d) * (2 * d) = 4 * c /\ c * q \in Nat
  OBVIOUS
<1>2. (2 * d) * (2 * d) * q = 4 * (c * q)
  BY <1>1
<1>3. \A k \in Nat, t \in 0 .. c - 1 :
        /\ SecondBits[c * k + t] = d * SecondBits[k] + SecondBits[t]
        /\ SecondBits[(c * k + t) \div 2] = d * SecondBits[k \div 2] + SecondBits[t \div 2]
        /\ SecondBits[t] \in 0 .. d - 1 /\ SecondBits[t \div 2] \in 0 .. d - 1
  OBVIOUS
<1> HIDE DEF c
<1>4. PICK t \in 0 .. c - 1, b \in 0 .. 3 : r = 4 * t + b
  <2>1. r \in 0 .. 4 * c - 1
    BY <1>1
  <2>2. r \div 4 \in 0 .. c - 1 /\ r % 4 \in 0 .. 3 /\ r = 4 * (r \div 4) + (r % 4)
    BY <1>1, <2>1
  <2> QED BY <2>2
<1>5. 4 * (c * q) + r = 4 * (c * q + t) + b /\ c * q + t \in Nat
  BY <1>1, <1>4
<1>6. /\ SecondBits[4 * (c * q + t) + b] = (b % 2) + 2 * SecondBits[c * q + t]
      /\ SecondBits[(4 * (c * q + t) + b) \div 2] = (b \div 2) + 2 * SecondBits[(c * q + t) \div 2]
  BY <1>5, SecondBitsOf
<1>7. /\ SecondBits[4 * t + b] = (b % 2) + 2 * SecondBits[t]
      /\ SecondBits[(4 * t + b) \div 2] = (b \div 2) + 2 * SecondBits[t \div 2]
  <2>1. t \in Nat
    BY <1>1
  <2> QED BY <2>1, SecondBitsOf
<1>8. b % 2 \in 0 .. 1 /\ b \div 2 \in 0 .. 1
  BY <1>4
<1>9. SecondBits[q] \in Nat /\ SecondBits[q \div 2] \in Nat
  <2>1. q \div 2 \in Nat
    OBVIOUS
  <2> QED BY <2>1, SecondBitsType
<1>10. \A k \in Nat : d * k \in Nat /\ (2 * d) * k = 2 * (d * k)
  OBVIOUS
<1>11. /\ SecondBits[c * q + t] = d * SecondBits[q] + SecondBits[t]
       /\ SecondBits[(c * q + t) \div 2] = d * SecondBits[q \div 2] + SecondBits[t \div 2]
       /\ SecondBits[t] \in 0 .. d - 1 /\ SecondBits[t \div 2] \in 0 .. d - 1
  BY <1>3, <1>4
<1>12. SecondBits[4 * (c * q) + r] = (2 * d) * SecondBits[q] + SecondBits[r]
  BY <1>4, <1>5, <1>6, <1>7, <1>8, <1>9, <1>10, <1>11
<1>13. SecondBits[(4 * (c * q) + r) \div 2] = (2 * d) * SecondBits[q \div 2] + SecondBits[r \div 2]
  BY <1>4, <1>5, <1>6, <1>7, <1>8, <1>9, <1>10, <1>11
<1>14. SecondBits[r] \in 0 .. 2 * d - 1 /\ SecondBits[r \div 2] \in 0 .. 2 * d - 1
  BY <1>4, <1>7, <1>8, <1>11
<1> QED BY <1>2, <1>12, <1>13, <1>14

BitsSplit(d) ==
  \A q \in Nat, r \in 0 .. d * d - 1 :
    /\ SecondBits[d * d * q + r] = d * SecondBits[q] + SecondBits[r]
    /\ SecondBits[(d * d * q + r) \div 2] = d * SecondBits[q \div 2] + SecondBits[r \div 2]
    /\ SecondBits[r] \in 0 .. d - 1 /\ SecondBits[r \div 2] \in 0 .. d - 1

LEMMA BitsSplitDoubling ==
  ASSUME NEW d \in Doublings
  PROVE  BitsSplit(d)
<1>1. \A e \in Nat \ {0} : BitsSplit(e) => BitsSplit(2 * e)
  <2> SUFFICES ASSUME NEW e \in Nat \ {0}, BitsSplit(e), NEW q \in Nat,
                      NEW r \in 0 .. (2 * e) * (2 * e) - 1
               PROVE  /\ SecondBits[(2 * e) * (2 * e) * q + r] = (2 * e) * SecondBits[q] + SecondBits[r]
                      /\ SecondBits[((2 * e) * (2 * e) * q + r) \div 2]
                           = (2 * e) * SecondBits[q \div 2] + SecondBits[r \div 2]
                      /\ SecondBits[r] \in 0 .. 2 * e - 1 /\ SecondBits[r \div 2] \in 0 .. 2 * e - 1
    BY DEF BitsSplit
  <2> QED BY BitsSplitOnce DEF BitsSplit
<1>2. BitsSplit(1)
  <2> SUFFICES ASSUME NEW q \in Nat, NEW r \in 0 .. 1 * 1 - 1
               PROVE  /\ SecondBits[1 * 1 * q + r] = 1 * SecondBits[q] + SecondBits[r]
                      /\ SecondBits[(1 * 1 * q + r) \div 2] = 1 * SecondBits[q \div 2] + SecondBits[r \div 2]
                      /\ SecondBits[r] \in 0 .. 1 - 1 /\ SecondBits[r \div 2] \in 0 .. 1 - 1
    BY DEF BitsSplit
  <2>1. r = 0 /\ 1 * 1 * q + r = q /\ 0 \div 2 = 0
    OBVIOUS
  <2>2. SecondBits[0] = 0
    BY SecondBitsOf, 0 \in Nat, 0 \in 0 .. 3
  <2>3. SecondBits[q] \in Nat /\ SecondBits[q \div 2] \in Nat
    <3>1. q \div 2 \in Nat
      OBVIOUS
    <3> QED BY <3>1, SecondBitsType
  <2> QED BY <2>1, <2>2, <2>3
<1>3. BitsSplit(2)
  BY <1>1, <1>2, 2 * 1 = 2
<1>4. BitsSplit(4)
  BY <1>1, <1>3, 2 * 2 = 4
<1>5. BitsSplit(8)
  BY <1>1, <1>4, 2 * 4 = 8
<1>6. BitsSplit(16)
  BY <1>1, <1>5, 2 * 8 = 16
<1>7. BitsSplit(32)
  BY <1>1, <1>6, 2 * 16 = 32
<1>8. BitsSplit(64)
  BY <1>1, <1>7, 2 * 32 = 64
<1>9. BitsSplit(128)
  BY <1>1, <1>8, 2 * 64 = 128
<1>10. BitsSplit(256)
  BY <1>1, <1>9, 2 * 128 = 256
<1> QED BY <1>2, <1>3, <1>4, <1>5, <1>6, <1>7, <1>8, <1>9, <1>10 DEF Doublings

(* The two halves of the bits make the number.                             *)
LEMMA BitsDetermine ==
  ASSUME NEW n \in Nat, NEW m \in Nat,
         SecondBits[n] = SecondBits[m], SecondBits[n \div 2] = SecondBits[m \div 2]
  PROVE  n = m
<1> DEFINE Bad == {k \in Nat : \E j \in Nat :
                     /\ k # j /\ SecondBits[k] = SecondBits[j]
                     /\ SecondBits[k \div 2] = SecondBits[j \div 2]}
<1> SUFFICES ASSUME Bad # {} PROVE FALSE
  OBVIOUS
<1>1. PICK k \in Bad : \A y \in Bad : k <= y
  BY MinIn
<1>2. PICK j \in Nat : /\ k \in Nat /\ k # j /\ SecondBits[k] = SecondBits[j]
                       /\ SecondBits[k \div 2] = SecondBits[j \div 2]
  OBVIOUS
<1>3. \A x \in Nat : x \div 4 \in Nat /\ x % 4 \in 0 .. 3 /\ x = 4 * (x \div 4) + (x % 4)
  OBVIOUS
<1>4. PICK a \in Nat, b \in 0 .. 3 : k = 4 * a + b
  BY <1>2, <1>3
<1>5. PICK c \in Nat, e \in 0 .. 3 : j = 4 * c + e
  BY <1>2, <1>3
<1>6. /\ (b % 2) + 2 * SecondBits[a] = (e % 2) + 2 * SecondBits[c]
      /\ (b \div 2) + 2 * SecondBits[a \div 2] = (e \div 2) + 2 * SecondBits[c \div 2]
  <2>1. /\ SecondBits[k] = (b % 2) + 2 * SecondBits[a]
        /\ SecondBits[k \div 2] = (b \div 2) + 2 * SecondBits[a \div 2]
    BY <1>4, SecondBitsOf
  <2>2. /\ SecondBits[j] = (e % 2) + 2 * SecondBits[c]
        /\ SecondBits[j \div 2] = (e \div 2) + 2 * SecondBits[c \div 2]
    BY <1>5, SecondBitsOf
  <2> QED BY <1>2, <2>1, <2>2
<1>7. /\ SecondBits[a] \in Nat /\ SecondBits[c] \in Nat
      /\ SecondBits[a \div 2] \in Nat /\ SecondBits[c \div 2] \in Nat
  <2>1. a \div 2 \in Nat /\ c \div 2 \in Nat
    BY <1>4, <1>5
  <2> QED BY <2>1, SecondBitsType
<1>8. b % 2 \in 0 .. 1 /\ e % 2 \in 0 .. 1 /\ b \div 2 \in 0 .. 1 /\ e \div 2 \in 0 .. 1
  BY <1>4, <1>5
<1>9. /\ b % 2 = e % 2 /\ b \div 2 = e \div 2
      /\ SecondBits[a] = SecondBits[c] /\ SecondBits[a \div 2] = SecondBits[c \div 2]
  <2>1. \A p, q \in 0 .. 1, x, y \in Nat : p + 2 * x = q + 2 * y => p = q /\ x = y
    OBVIOUS
  <2> QED BY <1>6, <1>7, <1>8, <2>1
<1>10. b = e
  BY <1>4, <1>5, <1>9
<1>11. a # c
  BY <1>2, <1>4, <1>5, <1>10
<1>12. a \in Bad /\ c \in Bad
  BY <1>9, <1>11
<1>13. k <= a
  BY <1>1, <1>12
<1>14. k = 0 /\ b = 0 /\ a = 0
  BY <1>4, <1>13
<1>15. c \in Nat /\ j = 4 * c /\ c # 0
  BY <1>5, <1>10, <1>11, <1>14
<1> DEFINE Zeros == {x \in Nat : x # 0 /\ SecondBits[x] = SecondBits[0]
                                 /\ SecondBits[x \div 2] = SecondBits[0 \div 2]}
<1>16. Zeros # {}
  BY <1>2, <1>14, <1>15
<1>17. PICK z \in Zeros : \A y \in Zeros : z <= y
  BY <1>16, MinIn
<1> HIDE DEF Bad
<1>18. PICK u \in Nat, v \in 0 .. 3 : z = 4 * u + v
  BY <1>3, <1>17
<1>19. /\ SecondBits[0] = 0 /\ SecondBits[0 \div 2] = 0
  BY SecondBitsOf, 0 \in Nat, 0 \in 0 .. 3, 0 \div 2 = 0
<1>20. /\ (v % 2) + 2 * SecondBits[u] = 0
       /\ (v \div 2) + 2 * SecondBits[u \div 2] = 0
  BY <1>17, <1>18, <1>19, SecondBitsOf
<1>21. SecondBits[u] \in Nat /\ SecondBits[u \div 2] \in Nat
  <2>1. u \div 2 \in Nat
    BY <1>18
  <2> QED BY <2>1, <1>18, SecondBitsType
<1>22. v % 2 \in 0 .. 1 /\ v \div 2 \in 0 .. 1
  BY <1>18
<1>23. v = 0 /\ SecondBits[u] = 0 /\ SecondBits[u \div 2] = 0
  <2>1. v % 2 = 0 /\ v \div 2 = 0 /\ SecondBits[u] = 0 /\ SecondBits[u \div 2] = 0
    BY <1>20, <1>21, <1>22
  <2> QED BY <1>18, <2>1
<1>24. u # 0 /\ u < z
  BY <1>17, <1>18, <1>23
<1>25. u \in Zeros
  BY <1>18, <1>19, <1>23, <1>24
<1> QED BY <1>17, <1>18, <1>24, <1>25

-----------------------------------------------------------------------------
(* Slots and pixels, in units of GLYPH_MIN_SIZE.                           *)

LEMMA DivMod ==
  ASSUME NEW n \in Nat, NEW c \in Nat \ {0}
  PROVE  n \div c \in Nat /\ n % c \in 0 .. c - 1 /\ n = (c * (n \div c)) + (n % c)
OBVIOUS

LEMMA DivUnique ==
  ASSUME NEW c \in Nat \ {0}, NEW q \in Nat, NEW r \in 0 .. c - 1
  PROVE  (c * q + r) \div c = q /\ (c * q + r) % c = r
<1> DEFINE n == c * q + r
<1>1. n \in Nat /\ q * c = c * q /\ c * q \in Nat
  OBVIOUS
<1>2. /\ n \div c \in Nat /\ n % c \in 0 .. c - 1 /\ n = c * (n \div c) + (n % c)
  BY <1>1
<1> DEFINE p == n \div c
<1>3. PICK m \in 0 .. c - 1 : m = n % c
  BY <1>2
<1>4. p \in Nat /\ n = c * p + m /\ p * c = c * p /\ c * p \in Nat
  BY <1>2, <1>3
<1> HIDE DEF p
<1>5. n = c * q + r
  OBVIOUS
<1> HIDE DEF n
<1>6. ~ (p * c < q * c)
  <2>1. ASSUME p * c < q * c PROVE FALSE
    <3>1. p * c + c <= q * c
      BY <1>4, <2>1, Products
    <3> QED BY <1>1, <1>4, <1>5, <3>1
  <2> QED BY <2>1
<1>7. ~ (q * c < p * c)
  <2>1. ASSUME q * c < p * c PROVE FALSE
    <3>1. q * c + c <= p * c
      BY <1>4, <2>1, Products
    <3> QED BY <1>1, <1>4, <1>5, <3>1
  <2> QED BY <2>1
<1>8. c * p = c * q
  BY <1>1, <1>4, <1>6, <1>7
<1>9. p = q /\ m = r
  BY <1>1, <1>4, <1>5, <1>8
<1> QED BY <1>3, <1>9 DEF n, p

LEMMA Less ==
  ASSUME NEW c \in Nat \ {0}, NEW a \in Nat, NEW b \in Nat
  PROVE  c * a < c * b <=> a < b
<1>1. ASSUME a < b PROVE c * a < c * b
  <2>1. PICK d \in Nat : b = a + 1 + d
    <3>1. b - a - 1 \in Nat /\ b = a + 1 + (b - a - 1)
      BY <1>1
    <3> QED BY <3>1
  <2>2. c * b = c * a + c + c * d /\ c * d \in Nat /\ c * a \in Nat
    BY <2>1
  <2> QED BY <2>2
<1>2. ASSUME ~ (a < b) PROVE ~ (c * a < c * b)
  <2>1. PICK d \in Nat : a = b + d
    <3>1. a - b \in Nat /\ a = b + (a - b)
      BY <1>2
    <3> QED BY <3>1
  <2>2. c * a = c * b + c * d /\ c * d \in Nat /\ c * b \in Nat
    BY <2>1
  <2> QED BY <2>2
<1> QED BY <1>1, <1>2

LEMMA DoublingsNest ==
  ASSUME NEW d \in Doublings, NEW e \in Doublings, d <= e
  PROVE  \E m \in Doublings : e = d * m
<1>1. CASE d = 1
  BY <1>1 DEF Doublings
<1>2. CASE d = 2
  BY <1>2 DEF Doublings
<1>3. CASE d = 4
  BY <1>3 DEF Doublings
<1>4. CASE d = 8
  BY <1>4 DEF Doublings
<1>5. CASE d \in {16, 32, 64, 128, 256}
  BY <1>5 DEF Doublings
<1> QED BY <1>1, <1>2, <1>3, <1>4, <1>5 DEF Doublings

LEMMA Picture ==
  /\ GLYPH_RATIO_SIZE \in Doublings
  /\ GLYPH_MAX_SIZE = GLYPH_MIN_SIZE * GLYPH_RATIO_SIZE
  /\ PerRow \in Nat
  /\ CACHE_PICTURE_SIZE = GLYPH_MAX_SIZE * PerRow
  /\ GLYPH_CACHE_SIZE = (GLYPH_RATIO_SIZE * PerRow) * (GLYPH_RATIO_SIZE * PerRow)
<1> DEFINE n == GLYPH_MIN_SIZE
           p == PerRow
<1>1. n \in Nat \ {0} /\ CACHE_PICTURE_SIZE \in Nat
  BY SizeAssumption
<1>2. PICK r \in Doublings : GLYPH_MAX_SIZE = n * r
  BY SizeAssumption DEF GlyphSizes
<1>3. r \in Nat \ {0}
  BY DEF Doublings
<1>4. GLYPH_RATIO_SIZE = r
  <2>1. (n * r + 0) \div n = r
    BY <1>1, <1>3, DivUnique
  <2>2. n * r + 0 = n * r
    BY <1>1, <1>3
  <2> QED BY <1>2, <2>1, <2>2 DEF GLYPH_RATIO_SIZE
<1>5. GLYPH_MAX_SIZE \in Nat \ {0}
  BY <1>1, <1>2, <1>3
<1>6. p \in Nat /\ CACHE_PICTURE_SIZE = p * GLYPH_MAX_SIZE
  BY <1>1, <1>5, SizeAssumption, Quotient DEF PerRow
<1> DEFINE w == r * p
<1>7. w \in Nat
  BY <1>3, <1>6
<1> HIDE DEF p, n
<1>8. CACHE_PICTURE_SIZE = n * w
  BY <1>1, <1>2, <1>3, <1>6
<1> HIDE DEF w
<1>9. CACHE_PICTURE_SIZE * CACHE_PICTURE_SIZE = (n * n) * (w * w) + 0
  BY <1>1, <1>7, <1>8
<1>10. n * n \in Nat \ {0} /\ w * w \in Nat /\ 0 \in 0 .. n * n - 1
  BY <1>1, <1>7
<1>11. ((n * n) * (w * w) + 0) \div (n * n) = w * w
  BY <1>10, DivUnique
<1>12. GLYPH_CACHE_SIZE = w * w
  BY <1>9, <1>11 DEF GLYPH_CACHE_SIZE, n
<1>13. CACHE_PICTURE_SIZE = GLYPH_MAX_SIZE * p
  BY <1>5, <1>6
<1> QED BY <1>2, <1>4, <1>6, <1>12, <1>13 DEF n, p, w

LEMMA SizeIs ==
  ASSUME NEW s \in GlyphSizes
  PROVE  \E d \in Doublings : /\ s = GLYPH_MIN_SIZE * d
                              /\ SizeToCount(s) = d * d
                              /\ d <= GLYPH_RATIO_SIZE
<1> DEFINE n == GLYPH_MIN_SIZE
           r == GLYPH_RATIO_SIZE
<1>1. n \in Nat \ {0} /\ r \in Nat
  BY SizeAssumption, Picture DEF Doublings
<1>2. PICK d \in Doublings : s = n * d
  BY DEF GlyphSizes
<1>3. d \in Nat \ {0}
  BY DEF Doublings
<1>4. s <= n * r
  BY Picture DEF GlyphSizes
<1> HIDE DEF n, r
<1>5. ~ (r < d)
  <2>1. ~ (n * r < n * d)
    BY <1>1, <1>2, <1>3, <1>4
  <2> QED BY <1>1, <1>3, <2>1, Less
<1>6. (n * d + 0) \div n = d
  BY <1>1, <1>3, DivUnique
<1>7. s \div n = d
  BY <1>1, <1>2, <1>3, <1>6
<1> QED BY <1>1, <1>2, <1>3, <1>5, <1>7 DEF SizeToCount, n, r

(* Where a square is in a picture of m by m squares in each of PerRow by   *)
(* PerRow large ones.                                                      *)
Column(m, q) == m * ((q \div (m * m)) % PerRow) + SecondBits[q % (m * m)]
Row(m, q) == m * ((q \div (m * m)) \div PerRow) + SecondBits[(q % (m * m)) \div 2]

LEMMA PosIs ==
  ASSUME NEW i \in Slots
  PROVE  /\ Pos[i].x = GLYPH_MIN_SIZE * Column(GLYPH_RATIO_SIZE, i)
         /\ Pos[i].y = GLYPH_MIN_SIZE * Row(GLYPH_RATIO_SIZE, i)
<1> DEFINE r == GLYPH_RATIO_SIZE
           n == GLYPH_MIN_SIZE
           a == i \div (r * r)
           w == i % (r * r)
<1>1. /\ r \in Nat \ {0} /\ n \in Nat /\ PerRow \in Nat \ {0} /\ i \in Nat
      /\ GLYPH_MAX_SIZE = n * r
  <2>1. r \in Nat \ {0} /\ n \in Nat /\ PerRow \in Nat /\ GLYPH_MAX_SIZE = n * r
    BY Picture, SizeAssumption DEF Doublings
  <2>2. PerRow # 0
    <3>1. CASE PerRow = 0
      <4>1. GLYPH_CACHE_SIZE = 0
        BY <2>1, <3>1, Picture
      <4> QED BY <4>1 DEF Slots
    <3> QED BY <3>1
  <2>3. i \in Nat
    BY DEF Slots
  <2> QED BY <2>1, <2>2, <2>3
<1>2. r * r \in Nat \ {0}
  BY <1>1
<1>3. a \in Nat /\ w \in Nat
  <2> HIDE DEF r
  <2> DEFINE c == r * r
  <2>1. c \in Nat \ {0} /\ i \in Nat
    BY <1>1, <1>2
  <2> HIDE DEF c
  <2>2. i \div c \in Nat /\ i % c \in 0 .. c - 1
    BY <2>1
  <2> QED BY <2>1, <2>2 DEF c
<1>4. a % PerRow \in Nat /\ a \div PerRow \in Nat /\ w \div 2 \in Nat
  <2> HIDE DEF a, w
  <2> QED BY <1>1, <1>3
<1>5. SecondBits[w] \in Nat /\ SecondBits[w \div 2] \in Nat
  BY <1>3, <1>4, SecondBitsType
<1>6. /\ Pos[i].x = (a % PerRow) * GLYPH_MAX_SIZE + n * SecondBits[w]
      /\ Pos[i].y = (a \div PerRow) * GLYPH_MAX_SIZE + n * SecondBits[w \div 2]
  BY DEF Pos, Squared
<1>7. Column(r, i) = r * (a % PerRow) + SecondBits[w] /\ Row(r, i) = r * (a \div PerRow) + SecondBits[w \div 2]
  BY DEF Column, Row
<1>8. \A k, y \in Nat : k * (n * r) + n * y = n * (r * k + y)
  BY <1>1
<1> DEFINE k == a % PerRow
           l == a \div PerRow
           y == SecondBits[w]
           z == SecondBits[w \div 2]
<1>9. /\ Pos[i].x = k * (n * r) + n * y
      /\ Pos[i].y = l * (n * r) + n * z
  BY <1>1, <1>6
<1>10. k \in Nat /\ l \in Nat /\ y \in Nat /\ z \in Nat
  BY <1>4, <1>5
<1> HIDE DEF k, l, y, z
<1>11. Pos[i].x = n * (r * k + y) /\ Pos[i].y = n * (r * l + z)
  BY <1>8, <1>9, <1>10
<1> QED BY <1>7, <1>11 DEF k, l, y, z

(* A place among small squares is one among larger ones, and the rest.     *)
LEMMA Nested ==
  ASSUME NEW d \in Doublings, NEW m \in Doublings, NEW i \in Nat, PerRow \in Nat \ {0}
  PROVE  /\ i \div (d * d) \in Nat /\ i % (d * d) \in 0 .. d * d - 1
         /\ i = (d * d) * (i \div (d * d)) + (i % (d * d))
         /\ Column(d * m, i) = d * Column(m, i \div (d * d)) + SecondBits[i % (d * d)]
         /\ Row(d * m, i) = d * Row(m, i \div (d * d)) + SecondBits[(i % (d * d)) \div 2]
         /\ SecondBits[i % (d * d)] \in 0 .. d - 1
         /\ SecondBits[(i % (d * d)) \div 2] \in 0 .. d - 1
<1> DEFINE D == d * d
           M == m * m
           C == (d * m) * (d * m)
           a == i \div C
           w == i % C
           b == w \div D
           t == w % D
<1>1. d \in Nat \ {0} /\ m \in Nat \ {0} /\ PerRow \in Nat \ {0}
  BY DEF Doublings
<1>2. D \in Nat \ {0} /\ M \in Nat \ {0} /\ C = D * M /\ C \in Nat \ {0}
  BY <1>1
<1> HIDE DEF C, D, M
<1>3. a \in Nat /\ w \in 0 .. C - 1 /\ i = C * a + w
  BY <1>2, DivMod
<1> HIDE DEF a, w
<1>4. w \in Nat
  BY <1>2, <1>3
<1>5. b \in Nat /\ t \in 0 .. D - 1 /\ w = D * b + t
  BY <1>2, <1>4
<1> HIDE DEF b, t
<1>6. b \in 0 .. M - 1
  <2>1. D * b \in Nat /\ D * M \in Nat
    BY <1>2, <1>5
  <2>2. D * b < D * M
    BY <1>2, <1>3, <1>5, <2>1
  <2>3. b < M
    BY <1>2, <1>5, <2>2, Less
  <2> QED BY <1>2, <1>5, <2>3
<1> DEFINE q == M * a + b
<1>7. q \in Nat /\ i = D * q + t
  <2>1. C * a = D * (M * a)
    BY <1>2, <1>3
  <2>2. M * a \in Nat
    BY <1>2, <1>3
  <2>3. D * (M * a + b) = D * (M * a) + D * b
    BY <1>2, <1>5, <2>2
  <2>4. D * (M * a) \in Nat /\ D * b \in Nat
    BY <1>2, <1>5, <2>2
  <2> QED BY <1>2, <1>3, <1>5, <2>1, <2>2, <2>3, <2>4
<1>8. q \div M = a /\ q % M = b
  BY <1>2, <1>3, <1>6, DivUnique
<1> HIDE DEF q
<1>9. i \div D = q /\ i % D = t
  BY <1>2, <1>5, <1>7, DivUnique
<1>10. /\ SecondBits[w] = d * SecondBits[b] + SecondBits[t]
       /\ SecondBits[w \div 2] = d * SecondBits[b \div 2] + SecondBits[t \div 2]
       /\ SecondBits[t] \in 0 .. d - 1 /\ SecondBits[t \div 2] \in 0 .. d - 1
  BY <1>5, BitsSplitDoubling DEF BitsSplit, D
<1>11. SecondBits[b] \in Nat /\ SecondBits[b \div 2] \in Nat
  <2>1. b \div 2 \in Nat
    BY <1>5
  <2> QED BY <1>5, <2>1, SecondBitsType
<1>12. \A p, x \in Nat : (d * m) * p + (d * x) = d * (m * p + x)
  BY <1>1
<1>13. /\ Column(d * m, i) = (d * m) * (a % PerRow) + (d * SecondBits[b] + SecondBits[t])
       /\ Row(d * m, i) = (d * m) * (a \div PerRow) + (d * SecondBits[b \div 2] + SecondBits[t \div 2])
  BY <1>10 DEF Column, Row, C, a, w
<1>14. /\ Column(m, q) = m * (a % PerRow) + SecondBits[b]
       /\ Row(m, q) = m * (a \div PerRow) + SecondBits[b \div 2]
  BY <1>8 DEF Column, Row, M
<1>15. a % PerRow \in Nat /\ a \div PerRow \in Nat
  BY <1>1, <1>3
<1> DEFINE k == a % PerRow
           l == a \div PerRow
           x == SecondBits[b]
           y == SecondBits[b \div 2]
           f == SecondBits[t]
           g == SecondBits[t \div 2]
<1>16. /\ Column(d * m, i) = (d * m) * k + (d * x + f) /\ Column(m, q) = m * k + x
       /\ Row(d * m, i) = (d * m) * l + (d * y + g) /\ Row(m, q) = m * l + y
  BY <1>13, <1>14
<1>17. k \in Nat /\ l \in Nat /\ x \in Nat /\ y \in Nat /\ f \in Nat /\ g \in Nat
  BY <1>10, <1>11, <1>15
<1> HIDE DEF k, l, x, y, f, g
<1>18. /\ (d * m) * k + (d * x + f) = d * (m * k + x) + f
       /\ (d * m) * l + (d * y + g) = d * (m * l + y) + g
  <2>1. /\ (d * m) * k + (d * x) = d * (m * k + x)
        /\ (d * m) * l + (d * y) = d * (m * l + y)
    BY <1>12, <1>17
  <2>2. /\ (d * m) * k \in Nat /\ d * x \in Nat /\ (d * m) * l \in Nat /\ d * y \in Nat
    BY <1>1, <1>17
  <2> QED BY <1>17, <2>1, <2>2
<1>19. /\ Column(d * m, i) = d * Column(m, q) + f
       /\ Row(d * m, i) = d * Row(m, q) + g
  BY <1>16, <1>18
<1>20. f \in 0 .. d - 1 /\ g \in 0 .. d - 1
  BY <1>10 DEF f, g
<1>21. i \div (d * d) = q /\ i % (d * d) = t
  BY <1>9 DEF D
<1> QED BY <1>5, <1>7, <1>19, <1>20, <1>21 DEF f, g, D

(* The place of a square as the column and the row of a large one, and     *)
(* those within.                                                           *)
LEMMA Places ==
  ASSUME NEW m \in Doublings, NEW q \in Nat, PerRow \in Nat \ {0}
  PROVE  \E k \in 0 .. PerRow - 1, l \in Nat, b \in 0 .. m * m - 1 :
           /\ q = (m * m) * (PerRow * l + k) + b
           /\ Column(m, q) = m * k + SecondBits[b] /\ SecondBits[b] \in 0 .. m - 1
           /\ Row(m, q) = m * l + SecondBits[b \div 2] /\ SecondBits[b \div 2] \in 0 .. m - 1
<1> DEFINE M == m * m
           a == q \div M
           b == q % M
           k == a % PerRow
           l == a \div PerRow
<1>1. m \in Nat \ {0} /\ M \in Nat \ {0}
  BY DEF Doublings
<1>2. Column(m, q) = m * k + SecondBits[b] /\ Row(m, q) = m * l + SecondBits[b \div 2]
  BY DEF Column, Row
<1> HIDE DEF M
<1>3. a \in Nat /\ b \in 0 .. M - 1 /\ q = M * a + b
  BY <1>1, DivMod
<1> HIDE DEF a, b
<1>4. k \in 0 .. PerRow - 1 /\ l \in Nat /\ a = PerRow * l + k
  BY <1>3, DivMod
<1> HIDE DEF k, l
<1>5. SecondBits[b] \in 0 .. m - 1 /\ SecondBits[b \div 2] \in 0 .. m - 1
  <2>1. BitsSplit(m) /\ 0 \in Nat
    BY BitsSplitDoubling
  <2> QED BY <1>3, <2>1 DEF BitsSplit, M
<1>6. q = M * (PerRow * l + k) + b
  BY <1>3, <1>4
<1> QED BY <1>2, <1>3, <1>4, <1>5, <1>6 DEF M

LEMMA PlaceTypes ==
  ASSUME NEW m \in Doublings, NEW q \in Nat, PerRow \in Nat \ {0}
  PROVE  Column(m, q) \in Nat /\ Row(m, q) \in Nat
<1>1. PICK k \in 0 .. PerRow - 1, l \in Nat, b \in 0 .. m * m - 1 :
        /\ q = (m * m) * (PerRow * l + k) + b
        /\ Column(m, q) = m * k + SecondBits[b] /\ SecondBits[b] \in 0 .. m - 1
        /\ Row(m, q) = m * l + SecondBits[b \div 2] /\ SecondBits[b \div 2] \in 0 .. m - 1
  BY Places
<1>2. m \in Nat
  BY DEF Doublings
<1> QED BY <1>1, <1>2

(* ... of an index at which such a square starts.                          *)
LEMMA NestedStart ==
  ASSUME NEW d \in Doublings, NEW m \in Doublings, NEW i \in Nat, PerRow \in Nat \ {0},
         i % (d * d) = 0
  PROVE  /\ i \div (d * d) \in Nat
         /\ Column(d * m, i) = d * Column(m, i \div (d * d))
         /\ Row(d * m, i) = d * Row(m, i \div (d * d))
<1>1. /\ i \div (d * d) \in Nat /\ i % (d * d) \in 0 .. d * d - 1
      /\ i = (d * d) * (i \div (d * d)) + (i % (d * d))
      /\ Column(d * m, i) = d * Column(m, i \div (d * d)) + SecondBits[i % (d * d)]
      /\ Row(d * m, i) = d * Row(m, i \div (d * d)) + SecondBits[(i % (d * d)) \div 2]
      /\ SecondBits[i % (d * d)] \in 0 .. d - 1
      /\ SecondBits[(i % (d * d)) \div 2] \in 0 .. d - 1
  BY Nested
<1>2. SecondBits[0] = 0 /\ SecondBits[0 \div 2] = 0
  BY SecondBitsOf, 0 \in Nat, 0 \in 0 .. 3, 0 \div 2 = 0
<1> DEFINE q == i \div (d * d)
<1>3. q \in Nat /\ Column(d * m, i) = d * Column(m, q) + 0 /\ Row(d * m, i) = d * Row(m, q) + 0
  BY <1>1, <1>2
<1> HIDE DEF q
<1>4. Column(m, q) \in Nat /\ Row(m, q) \in Nat
  BY <1>3, PlaceTypes
<1>5. \A z \in Nat : d * z + 0 = d * z
  BY DEF Doublings
<1>6. Column(d * m, i) = d * Column(m, q) /\ Row(d * m, i) = d * Row(m, q)
  BY <1>3, <1>4, <1>5
<1> QED BY <1>3, <1>6 DEF q

LEMMA Decode ==
  ASSUME NEW m \in Doublings, NEW q \in Nat, NEW r \in Nat, PerRow \in Nat \ {0},
         Column(m, q) = Column(m, r), Row(m, q) = Row(m, r)
  PROVE  q = r
<1>1. PICK k \in 0 .. PerRow - 1, l \in Nat, b \in 0 .. m * m - 1 :
        /\ q = (m * m) * (PerRow * l + k) + b
        /\ Column(m, q) = m * k + SecondBits[b] /\ SecondBits[b] \in 0 .. m - 1
        /\ Row(m, q) = m * l + SecondBits[b \div 2] /\ SecondBits[b \div 2] \in 0 .. m - 1
  BY Places
<1>2. PICK h \in 0 .. PerRow - 1, n \in Nat, c \in 0 .. m * m - 1 :
        /\ r = (m * m) * (PerRow * n + h) + c
        /\ Column(m, r) = m * h + SecondBits[c] /\ SecondBits[c] \in 0 .. m - 1
        /\ Row(m, r) = m * n + SecondBits[c \div 2] /\ SecondBits[c \div 2] \in 0 .. m - 1
  BY Places
<1>3. m \in Nat \ {0} /\ k \in Nat /\ h \in Nat
  BY DEF Doublings
<1>4. \A u, v \in Nat, x, y \in 0 .. m - 1 : m * u + x = m * v + y => u = v /\ x = y
  <2> TAKE u \in Nat, v \in Nat, x \in 0 .. m - 1, y \in 0 .. m - 1
  <2>1. (m * u + x) \div m = u /\ (m * u + x) % m = x
    BY <1>3, DivUnique
  <2>2. (m * v + y) \div m = v /\ (m * v + y) % m = y
    BY <1>3, DivUnique
  <2> QED BY <2>1, <2>2
<1>5. k = h /\ SecondBits[b] = SecondBits[c]
  <2>1. m * k + SecondBits[b] = m * h + SecondBits[c]
    BY <1>1, <1>2
  <2> QED BY <1>1, <1>2, <1>3, <1>4, <2>1
<1>6. l = n /\ SecondBits[b \div 2] = SecondBits[c \div 2]
  <2>1. m * l + SecondBits[b \div 2] = m * n + SecondBits[c \div 2]
    BY <1>1, <1>2
  <2> QED BY <1>1, <1>2, <1>4, <2>1
<1>7. b \in Nat /\ c \in Nat
  BY <1>3
<1>8. b = c
  BY <1>5, <1>6, <1>7, BitsDetermine
<1> QED BY <1>1, <1>2, <1>5, <1>6, <1>8

LEMMA InGrid ==
  ASSUME NEW m \in Doublings, NEW q \in Nat, PerRow \in Nat \ {0},
         q < (m * PerRow) * (m * PerRow)
  PROVE  Column(m, q) \in 0 .. m * PerRow - 1 /\ Row(m, q) \in 0 .. m * PerRow - 1
<1>1. PICK k \in 0 .. PerRow - 1, l \in Nat, b \in 0 .. m * m - 1 :
        /\ q = (m * m) * (PerRow * l + k) + b
        /\ Column(m, q) = m * k + SecondBits[b] /\ SecondBits[b] \in 0 .. m - 1
        /\ Row(m, q) = m * l + SecondBits[b \div 2] /\ SecondBits[b \div 2] \in 0 .. m - 1
  BY Places
<1>2. m \in Nat \ {0} /\ k \in Nat /\ k < PerRow
  BY DEF Doublings
<1> DEFINE M == m * m
           P == PerRow
<1>3. M \in Nat \ {0} /\ P \in Nat \ {0}
  BY <1>2
<1>4. l < P
  <2>1. (m * P) * (m * P) = M * (P * P)
    BY <1>2, <1>3
  <2>2. q = M * (P * l + k) + b /\ b \in Nat
    BY <1>1, <1>2
  <2> HIDE DEF M, P
  <2>3. P * l \in Nat /\ P * l + k \in Nat /\ P * P \in Nat
    BY <1>2, <1>3
  <2>4. M * (P * l + k) < M * (P * P)
    <3>1. M * (P * l + k) \in Nat /\ M * (P * P) \in Nat
      BY <1>3, <2>3
    <3> QED BY <2>1, <2>2, <3>1 DEF P
  <2>5. P * l + k < P * P
    BY <1>3, <2>3, <2>4, Less
  <2>6. P * l < P * P
    BY <1>2, <2>3, <2>5
  <2> QED BY <1>3, <2>6, Less
<1>5. \A j \in Nat, x \in 0 .. m - 1 : j < PerRow => m * j + x \in 0 .. m * PerRow - 1
  <2> TAKE j \in Nat, x \in 0 .. m - 1
  <2> HAVE j < PerRow
  <2>1. m * j < m * PerRow /\ m * j \in Nat /\ m * PerRow \in Nat
    BY <1>2, Less
  <2>2. j * m < PerRow * m
    BY <1>2, <2>1
  <2>3. j * m + m <= PerRow * m
    BY <1>2, <2>2, Products
  <2>4. j * m = m * j /\ PerRow * m = m * PerRow
    BY <1>2
  <2> QED BY <1>2, <2>1, <2>3, <2>4
<1>6. Column(m, q) = m * k + SecondBits[b] /\ Row(m, q) = m * l + SecondBits[b \div 2]
  BY <1>1
<1>7. m * k + SecondBits[b] \in 0 .. m * PerRow - 1
  BY <1>1, <1>2, <1>5
<1>8. m * l + SecondBits[b \div 2] \in 0 .. m * PerRow - 1
  BY <1>1, <1>4, <1>5
<1> QED BY <1>6, <1>7, <1>8

(* Two squares that touch, one of which is aligned for the other: on each  *)
(* axis they are in the same place of the larger one's grid.               *)
LEMMA SamePlace ==
  ASSUME NEW d \in Nat \ {0}, NEW k \in Nat \ {0}, NEW a \in Nat, NEW c \in Nat, NEW x \in Nat,
         NEW f \in 0 .. d * k - 1, d * a = (d * k) * c + f,
         ~ (d * a + d <= (d * k) * x), ~ ((d * k) * x + d * k <= d * a)
  PROVE  c = x
<1> DEFINE e == d * k
<1>1. e \in Nat \ {0} /\ f \in 0 .. e - 1
  OBVIOUS
<1>2. d * a = e * c + f /\ ~ (d * a + d <= e * x) /\ ~ (e * x + e <= d * a)
  OBVIOUS
<1>3. e * x = d * (k * x)
  OBVIOUS
<1> HIDE DEF e
<1>4. e * c \in Nat /\ e * x \in Nat /\ d * a \in Nat /\ k * x \in Nat
  BY <1>1
<1>5. c <= x
  <2>1. e * c < e * x + e
    BY <1>1, <1>2, <1>4
  <2>2. e * x + e = e * (x + 1)
    BY <1>1
  <2>3. c < x + 1
    BY <1>1, <2>1, <2>2, Less
  <2> QED BY <2>3
<1>6. x <= c
  <2>1. d * a + d = d * (a + 1)
    OBVIOUS
  <2>2. d * (k * x) < d * (a + 1)
    BY <1>2, <1>3, <1>4, <2>1
  <2>3. k * x < a + 1
    BY <1>4, <2>2, Less
  <2>4. ~ (a < k * x)
    BY <1>4, <2>3
  <2>5. ~ (d * a < d * (k * x))
    BY <1>4, <2>4, Less
  <2>6. e * x < e * c + e
    BY <1>1, <1>2, <1>3, <1>4, <2>5
  <2>7. e * c + e = e * (c + 1)
    BY <1>1
  <2>8. x < c + 1
    BY <1>1, <2>6, <2>7, Less
  <2> QED BY <2>8
<1> QED BY <1>5, <1>6

LEMMA PerRowPositive ==
  ASSUME NEW i \in Slots
  PROVE  PerRow \in Nat \ {0} /\ i \in Nat
<1>1. PerRow # 0
  <2>1. CASE PerRow = 0
    <3>1. GLYPH_RATIO_SIZE \in Nat
      BY Picture DEF Doublings
    <3>2. GLYPH_CACHE_SIZE = 0
      BY <2>1, <3>1, Picture
    <3> QED BY <3>2 DEF Slots
  <2> QED BY <2>1
<1> QED BY <1>1, Picture DEF Slots

Aligned(i, s) == Masked(i, s) = i

(* An aligned square is where its number says.                             *)
LEMMA AlignedAt ==
  ASSUME NEW i \in Slots, NEW d \in Doublings, NEW s \in GlyphSizes,
         s = GLYPH_MIN_SIZE * d, SizeToCount(s) = d * d, Aligned(i, s)
  PROVE  i = (d * d) * (i \div (d * d)) /\ i % (d * d) = 0 /\ i \div (d * d) \in Nat
<1> DEFINE c == d * d
<1>1. c \in Nat \ {0} /\ i \in Nat
  BY PerRowPositive DEF Doublings
<1>2. (i \div c) * c = i
  BY DEF Aligned, Masked
<1> HIDE DEF c
<1>3. i \div c \in Nat /\ i % c \in 0 .. c - 1 /\ i = (c * (i \div c)) + (i % c)
  BY <1>1, DivMod
<1>4. (i \div c) * c = c * (i \div c) /\ c * (i \div c) \in Nat
  BY <1>1, <1>3
<1> QED BY <1>2, <1>3, <1>4 DEF c

(* A square of the picture lies in it.                                     *)
LEMMA SquareInPicture ==
  ASSUME NEW i \in Slots, NEW s \in GlyphSizes, Aligned(i, s)
  PROVE  /\ Pos[i].x \in Nat /\ Pos[i].x + s <= CACHE_PICTURE_SIZE
         /\ Pos[i].y \in Nat /\ Pos[i].y + s <= CACHE_PICTURE_SIZE
<1>1. PICK d \in Doublings : /\ s = GLYPH_MIN_SIZE * d /\ SizeToCount(s) = d * d
                             /\ d <= GLYPH_RATIO_SIZE
  BY SizeIs
<1>2. GLYPH_RATIO_SIZE \in Doublings
  BY Picture
<1>3. PICK m \in Doublings : GLYPH_RATIO_SIZE = d * m
  BY <1>1, <1>2, DoublingsNest
<1> DEFINE q == i \div (d * d)
           P == PerRow
           n == GLYPH_MIN_SIZE
<1>4. PerRow \in Nat \ {0} /\ i \in Nat /\ d \in Nat \ {0} /\ m \in Nat \ {0} /\ n \in Nat \ {0}
  BY PerRowPositive, SizeAssumption DEF Doublings
<1>5. i = (d * d) * q /\ i % (d * d) = 0 /\ q \in Nat
  BY <1>1, AlignedAt
<1>6. i < (d * m * P) * (d * m * P)
  BY <1>3, Picture DEF Slots
<1>8. /\ Column(d * m, i) = d * Column(m, q)
      /\ Row(d * m, i) = d * Row(m, q)
  BY <1>4, <1>5, NestedStart
<1> HIDE DEF q, P
<1>9. q < (m * P) * (m * P)
  <2> DEFINE D == d * d
             W == (m * P) * (m * P)
  <2>1. D \in Nat \ {0} /\ W \in Nat
    BY <1>4 DEF P
  <2>2. (d * m * P) * (d * m * P) = D * W
    <3> DEFINE z == m * P
    <3>1. z \in Nat /\ d * m * P = d * z
      BY <1>4 DEF P
    <3> HIDE DEF z
    <3>2. (d * z) * (d * z) = (d * d) * (z * z)
      BY <1>4, <3>1
    <3> QED BY <3>1, <3>2 DEF z
  <2>3. D * q < D * W
    BY <1>5, <1>6, <2>2
  <2> HIDE DEF D, W
  <2>4. q < W
    BY <1>5, <2>1, <2>3, Less
  <2> QED BY <2>4 DEF W
<1>10. Column(m, q) \in 0 .. m * P - 1 /\ Row(m, q) \in 0 .. m * P - 1
  BY <1>4, <1>5, <1>9, InGrid DEF P
<1>11. CACHE_PICTURE_SIZE = n * (d * (m * P))
  <2>1. CACHE_PICTURE_SIZE = (n * (d * m)) * P
    BY <1>3, Picture DEF P
  <2> QED BY <1>4, <2>1 DEF P
<1>12. \A c \in 0 .. m * P - 1 :
         /\ n * (d * c) \in Nat
         /\ n * (d * c) + n * d <= n * (d * (m * P))
  <2> TAKE c \in 0 .. m * P - 1
  <2> DEFINE z == m * P
             w == n * d
  <2>1. z \in Nat /\ c \in Nat /\ c < z /\ w \in Nat \ {0}
    BY <1>4 DEF P
  <2>2. n * (d * c) = c * w /\ n * (d * z) = z * w
    BY <1>4, <2>1
  <2> HIDE DEF z, w
  <2>3. w * c < w * z
    BY <2>1, Less
  <2>4. w * c = c * w /\ w * z = z * w
    BY <2>1
  <2>5. c * w + w <= z * w /\ c * w \in Nat
    BY <2>1, <2>3, <2>4, Products
  <2> QED BY <2>2, <2>5 DEF w, z
<1>13. /\ Pos[i].x = n * (d * Column(m, q))
       /\ Pos[i].y = n * (d * Row(m, q))
  BY <1>3, <1>8, PosIs
<1> QED BY <1>1, <1>10, <1>11, <1>12, <1>13

(* Squares that have no slot in common have no pixel in common.            *)
LEMMA SquaresApart ==
  ASSUME NEW i \in Slots, NEW j \in Slots, NEW s \in GlyphSizes, NEW t \in GlyphSizes,
         Aligned(i, s), Aligned(j, t), s <= t, Run(i, s) \intersect Run(j, t) = {}
  PROVE  Apart(Pos[i].x, s, Pos[j].x, t) \/ Apart(Pos[i].y, s, Pos[j].y, t)
<1>1. PICK d \in Doublings : /\ s = GLYPH_MIN_SIZE * d /\ SizeToCount(s) = d * d
                             /\ d <= GLYPH_RATIO_SIZE
  BY SizeIs
<1>2. PICK e \in Doublings : /\ t = GLYPH_MIN_SIZE * e /\ SizeToCount(t) = e * e
                             /\ e <= GLYPH_RATIO_SIZE
  BY SizeIs
<1> DEFINE n == GLYPH_MIN_SIZE
<1>3. n \in Nat \ {0} /\ d \in Nat \ {0} /\ e \in Nat \ {0} /\ i \in Nat /\ j \in Nat
      /\ PerRow \in Nat \ {0}
  BY PerRowPositive, SizeAssumption DEF Doublings
<1>4. d <= e
  <2>1. ~ (n * e < n * d)
    BY <1>1, <1>2, <1>3
  <2> QED BY <1>3, <2>1, Less
<1>5. PICK k \in Doublings : e = d * k
  BY <1>4, DoublingsNest
<1>6. PICK m \in Doublings : GLYPH_RATIO_SIZE = e * m
  BY <1>2, Picture, DoublingsNest
<1>7. PICK w \in Doublings : GLYPH_RATIO_SIZE = d * w
  BY <1>1, Picture, DoublingsNest
<1> DEFINE R == GLYPH_RATIO_SIZE
           a == i \div (d * d)
           p == i \div (e * e)
           f == i % (e * e)
           q == j \div (e * e)
<1>9. /\ Column(R, i) = d * Column(w, a) /\ Row(R, i) = d * Row(w, a) /\ a \in Nat
  <2>1. i % (d * d) = 0
    BY <1>1, AlignedAt
  <2> QED BY <1>3, <1>7, <2>1, NestedStart
<1>10. /\ p \in Nat /\ f \in 0 .. e * e - 1 /\ i = (e * e) * p + f
       /\ Column(R, i) = e * Column(m, p) + SecondBits[f]
       /\ Row(R, i) = e * Row(m, p) + SecondBits[f \div 2]
       /\ SecondBits[f] \in 0 .. e - 1 /\ SecondBits[f \div 2] \in 0 .. e - 1
  <2>1. /\ i \div (e * e) \in Nat /\ i % (e * e) \in 0 .. e * e - 1
        /\ i = (e * e) * (i \div (e * e)) + (i % (e * e))
        /\ Column(e * m, i) = e * Column(m, i \div (e * e)) + SecondBits[i % (e * e)]
        /\ Row(e * m, i) = e * Row(m, i \div (e * e)) + SecondBits[(i % (e * e)) \div 2]
        /\ SecondBits[i % (e * e)] \in 0 .. e - 1
        /\ SecondBits[(i % (e * e)) \div 2] \in 0 .. e - 1
    BY <1>3, Nested
  <2> QED BY <1>6, <2>1
<1>11. /\ q \in Nat /\ j = (e * e) * q
       /\ Column(R, j) = e * Column(m, q) /\ Row(R, j) = e * Row(m, q)
  <2>1. j = (e * e) * q /\ j % (e * e) = 0 /\ q \in Nat
    BY <1>2, AlignedAt
  <2> QED BY <1>3, <1>6, <2>1, NestedStart
<1>12. p # q
  <2>1. SUFFICES ASSUME p = q PROVE FALSE
    OBVIOUS
  <2>2. i = j + f /\ f \in Nat /\ f < e * e
    BY <1>3, <1>10, <1>11, <2>1
  <2>3. i \in Run(j, t)
    <3> HIDE DEF f
    <3>1. e * e \in Nat
      BY <1>3
    <3> QED BY <1>2, <1>3, <2>2, <3>1 DEF Run
  <2>4. i \in Run(i, s)
    <3>1. d * d \in Nat \ {0}
      BY <1>3
    <3> QED BY <1>1, <1>3, <3>1 DEF Run
  <2> QED BY <2>3, <2>4
<1> HIDE DEF R, p, q, a, f
<1>13. /\ Column(w, a) \in Nat /\ Row(w, a) \in Nat /\ Column(m, p) \in Nat /\ Row(m, p) \in Nat
       /\ Column(m, q) \in Nat /\ Row(m, q) \in Nat
  BY <1>3, <1>9, <1>10, <1>11, PlaceTypes
<1>14. /\ Pos[i].x = n * Column(R, i) /\ Pos[i].y = n * Row(R, i)
       /\ Pos[j].x = n * Column(R, j) /\ Pos[j].y = n * Row(R, j)
  BY PosIs DEF R
<1> SUFFICES ASSUME ~ Apart(Pos[i].x, s, Pos[j].x, t), ~ Apart(Pos[i].y, s, Pos[j].y, t)
             PROVE  FALSE
  OBVIOUS
<1>15. \A x, y \in Nat : x <= y => n * x <= n * y
  <2> TAKE x \in Nat, y \in Nat
  <2>1. ~ (y < x) => ~ (n * y < n * x)
    BY <1>3, Less
  <2>2. n * x \in Nat /\ n * y \in Nat
    BY <1>3
  <2> QED BY <2>1, <2>2
<1>16. \A x, y \in Nat : ~ Apart(n * x, s, n * y, t) => ~ (x + d <= y) /\ ~ (y + e <= x)
  <2> TAKE x \in Nat, y \in Nat
  <2>1. n * (x + d) = n * x + s /\ n * (y + e) = n * y + t
    BY <1>1, <1>2, <1>3
  <2>2. x + d <= y => n * x + s <= n * y
    BY <1>3, <1>15, <2>1
  <2>3. y + e <= x => n * y + t <= n * x
    BY <1>3, <1>15, <2>1
  <2> QED BY <2>2, <2>3 DEF Apart
<1>17. /\ Column(R, i) \in Nat /\ Row(R, i) \in Nat /\ Column(R, j) \in Nat /\ Row(R, j) \in Nat
  <2>1. \A z \in Nat : d * z \in Nat /\ e * z \in Nat
    BY <1>3
  <2> QED BY <1>9, <1>11, <1>13, <2>1
<1>18. /\ ~ (Column(R, i) + d <= Column(R, j)) /\ ~ (Column(R, j) + e <= Column(R, i))
       /\ ~ (Row(R, i) + d <= Row(R, j)) /\ ~ (Row(R, j) + e <= Row(R, i))
  BY <1>14, <1>16, <1>17
<1>19. k \in Nat \ {0}
  BY DEF Doublings
<1>20. \A u, v, x \in Nat : \A y \in 0 .. d * k - 1 :
         /\ d * u = (d * k) * v + y
         /\ ~ (d * u + d <= (d * k) * x) /\ ~ ((d * k) * x + d * k <= d * u)
         => v = x
  BY <1>3, <1>19, SamePlace
<1>21. \A u, v, x \in Nat : \A y \in 0 .. e - 1 :
         /\ d * u = e * v + y
         /\ ~ (d * u + d <= e * x) /\ ~ (e * x + e <= d * u)
         => v = x
  BY <1>5, <1>20
<1>22. Column(m, p) = Column(m, q)
  <2> DEFINE u == Column(w, a)
             v == Column(m, p)
             x == Column(m, q)
             y == SecondBits[f]
  <2>1. u \in Nat /\ v \in Nat /\ x \in Nat /\ y \in 0 .. e - 1
    BY <1>10, <1>13
  <2>2. d * u = e * v + y /\ ~ (d * u + d <= e * x) /\ ~ (e * x + e <= d * u)
    BY <1>9, <1>10, <1>11, <1>18
  <2> HIDE DEF u, v, x, y
  <2>3. v = x
    BY <1>21, <2>1, <2>2
  <2> QED BY <2>3 DEF v, x
<1>23. Row(m, p) = Row(m, q)
  <2> DEFINE u == Row(w, a)
             v == Row(m, p)
             x == Row(m, q)
             y == SecondBits[f \div 2]
  <2>1. u \in Nat /\ v \in Nat /\ x \in Nat /\ y \in 0 .. e - 1
    BY <1>10, <1>13
  <2>2. d * u = e * v + y /\ ~ (d * u + d <= e * x) /\ ~ (e * x + e <= d * u)
    BY <1>9, <1>10, <1>11, <1>18
  <2> HIDE DEF u, v, x, y
  <2>3. v = x
    BY <1>21, <2>1, <2>2
  <2> QED BY <2>3 DEF v, x
<1> QED BY <1>3, <1>10, <1>11, <1>12, <1>22, <1>23, Decode

-----------------------------------------------------------------------------
(* The slots of squares.                                                   *)

(* The square around a slot lies in the picture, and starts at or before   *)
(* that slot.                                                              *)
LEMMA MaskedSlots ==
  ASSUME NEW e \in Slots, NEW s \in GlyphSizes
  PROVE  /\ Masked(e, s) \in Slots
         /\ Run(Masked(e, s), s) \subseteq Slots
         /\ Masked(e, s) \in Run(Masked(e, s), s)
<1> DEFINE c == SizeToCount(s)
           q == e \div c
           k == GLYPH_CACHE_SIZE \div c
<1>1. /\ c \in Nat \ {0} /\ GLYPH_CACHE_SIZE \in Nat /\ e \in Nat /\ e < GLYPH_CACHE_SIZE
      /\ k * c = GLYPH_CACHE_SIZE
  BY Counts DEF Slots
<1>2. q \in Nat /\ k \in Nat /\ q * c \in Nat /\ q * c <= e
  BY <1>1, Quotient
<1>3. Masked(e, s) = q * c /\ Run(Masked(e, s), s) = q * c .. q * c + c - 1
  BY DEF Masked, Run
<1> HIDE DEF c, q, k
<1>4. q * c + c <= GLYPH_CACHE_SIZE
  <2>1. q * c < k * c
    BY <1>1, <1>2
  <2> QED BY <2>1, <1>1, <1>2, Products
<1> QED BY <1>1, <1>2, <1>3, <1>4 DEF Slots

(* The square around a slot lies in the larger one around it.              *)
LEMMA MaskedNest ==
  ASSUME NEW i \in Nat, NEW s \in GlyphSizes, NEW t \in GlyphSizes, s <= t
  PROVE  /\ i \in Run(Masked(i, s), s)
         /\ Run(Masked(i, s), s) \subseteq Run(Masked(i, t), t)
<1>1. PICK d \in Doublings : s = GLYPH_MIN_SIZE * d /\ SizeToCount(s) = d * d
  BY SizeIs
<1>2. PICK e \in Doublings : t = GLYPH_MIN_SIZE * e /\ SizeToCount(t) = e * e
  BY SizeIs
<1>3. GLYPH_MIN_SIZE \in Nat \ {0} /\ d \in Nat \ {0} /\ e \in Nat \ {0}
  BY SizeAssumption DEF Doublings
<1>4. d <= e
  <2>1. ~ (GLYPH_MIN_SIZE * e < GLYPH_MIN_SIZE * d)
    BY <1>1, <1>2, <1>3
  <2> QED BY <1>3, <2>1, Less
<1>5. PICK k \in Doublings : e = d * k
  BY <1>4, DoublingsNest
<1> DEFINE c == d * d
           n == k * k
           a == i \div (c * n)
           w == i % (c * n)
           b == w \div c
           u == w % c
<1>6. c \in Nat \ {0} /\ n \in Nat \ {0} /\ e * e = c * n /\ c * n \in Nat \ {0}
  BY <1>3, <1>5 DEF Doublings
<1>7. SizeToCount(s) = c /\ SizeToCount(t) = c * n
  BY <1>1, <1>2, <1>6
<1> HIDE DEF c, n
<1>8. a \in Nat /\ w \in 0 .. (c * n) - 1 /\ i = ((c * n) * a) + w
  BY <1>6, DivMod
<1> HIDE DEF a, w
<1>9. w \in Nat
  BY <1>6, <1>8
<1>10. b \in Nat /\ u \in 0 .. c - 1 /\ w = (c * b) + u
  BY <1>6, <1>9, DivMod
<1> HIDE DEF b, u
<1>11. c * b \in Nat /\ b * c = c * b /\ n * c = c * n
  BY <1>6, <1>10
<1>12. (b * c) + c <= n * c
  <2>1. b * c < n * c
    BY <1>6, <1>8, <1>10, <1>11
  <2> QED BY <1>6, <1>10, <2>1, Products
<1> DEFINE q == (n * a) + b
           z == (c * n) * a
<1>13. /\ q \in Nat /\ c * q = z + (c * b) /\ z \in Nat /\ q * c = c * q /\ i = (c * q) + u
       /\ a * (c * n) = z
  <2>1. n * a \in Nat /\ z = c * (n * a)
    BY <1>6, <1>8
  <2>2. q \in Nat /\ c * q = (c * (n * a)) + (c * b)
    BY <1>6, <1>10, <2>1
  <2>3. z \in Nat /\ a * (c * n) = z
    BY <1>6, <1>8
  <2>4. q * c = c * q
    BY <1>6, <2>2
  <2> QED BY <1>8, <1>10, <1>11, <2>1, <2>2, <2>3, <2>4
<1> HIDE DEF q
<1>14. i \div c = q
  BY <1>6, <1>10, <1>13, DivUnique
<1>15. Masked(i, s) = c * q
  BY <1>7, <1>13, <1>14 DEF Masked
<1>16. Masked(i, t) = z
  BY <1>7, <1>13 DEF Masked, a
<1> HIDE DEF z
<1>17. c * n \in Nat /\ c \in Nat
  BY <1>6
<1> DEFINE x == c * q
           y == c * n
<1>18. /\ x \in Nat /\ y \in Nat /\ x >= z /\ x + c <= z + y /\ i = x + u
  BY <1>6, <1>11, <1>12, <1>13, <1>17
<1>19. Run(Masked(i, s), s) = x .. x + c - 1 /\ Run(Masked(i, t), t) = z .. z + y - 1
  BY <1>7, <1>15, <1>16 DEF Run
<1> HIDE DEF x, y
<1> QED BY <1>10, <1>13, <1>17, <1>18, <1>19

(* A slot is in one square of a size only.                                 *)
LEMMA MaskedUnique ==
  ASSUME NEW j \in Nat, NEW t \in GlyphSizes, Aligned(j, t), NEW i \in Run(j, t)
  PROVE  i \in Nat /\ Masked(i, t) = j
<1> DEFINE c == SizeToCount(t)
           q == j \div c
<1>1. c \in Nat \ {0}
  BY Counts
<1>2. q * c = j /\ i \in j .. j + c - 1
  BY DEF Aligned, Masked, Run
<1> HIDE DEF c
<1>3. q \in Nat
  BY <1>1, Quotient
<1> HIDE DEF q
<1>4. PICK u \in 0 .. c - 1 : i = j + u
  <2>1. i - j \in 0 .. c - 1 /\ i = j + (i - j)
    BY <1>1, <1>2
  <2> QED BY <2>1
<1>5. i = (c * q) + u /\ c * q = q * c
  BY <1>1, <1>2, <1>3, <1>4
<1>6. i \div c = q
  BY <1>1, <1>3, <1>4, <1>5, DivUnique
<1>7. i \in Nat
  BY <1>1, <1>4
<1> QED BY <1>2, <1>6, <1>7 DEF Masked, c

(* What Masked returns is aligned.                                         *)
LEMMA MaskedAligned ==
  ASSUME NEW q \in Nat, NEW s \in GlyphSizes
  PROVE  Aligned(q * SizeToCount(s), s)
<1> DEFINE c == SizeToCount(s)
<1>1. c \in Nat \ {0}
  BY Counts
<1> HIDE DEF c
<1>2. 0 \in 0 .. c - 1 /\ (c * q) + 0 = q * c
  BY <1>1
<1>3. (q * c) \div c = q
  BY <1>1, <1>2, DivUnique
<1> QED BY <1>3 DEF Aligned, Masked, c

(* Two squares that have a slot in common: the smaller one lies in the     *)
(* other, whose start is that of each slot in either.                      *)
LEMMA SquaresNest ==
  ASSUME NEW i \in Nat, NEW j \in Nat, NEW s \in GlyphSizes, NEW t \in GlyphSizes,
         Aligned(i, s), Aligned(j, t), s <= t, Run(i, s) \intersect Run(j, t) # {}
  PROVE  Run(i, s) \subseteq Run(j, t)
<1>1. PICK x \in Run(i, s) : x \in Run(j, t)
  OBVIOUS
<1>2. x \in Nat /\ Masked(x, s) = i /\ Masked(x, t) = j
  BY <1>1, MaskedUnique
<1> QED BY <1>2, MaskedNest

LEMMA SizeOfWanted ==
  ASSUME NEW g \in Glyphs, Wanted(g)
  PROVE  Size(g) \in GlyphSizes /\ Extent[g] <= Size(g)
<1>1. GlyphSizes \subseteq Nat
  BY Counts
<1>2. GLYPH_MAX_SIZE \in {s \in GlyphSizes : Extent[g] <= s}
  BY SizeAssumption DEF Wanted
<1>3. {s \in GlyphSizes : Extent[g] <= s} \in SUBSET Nat
  BY <1>1
<1> QED BY <1>2, <1>3, MinIn DEF Size

-----------------------------------------------------------------------------
(* The steps of the cache.                                                 *)

(* What a glyph_priv says of a glyph in the cache.                         *)
LEMMA PrivOfCached ==
  ASSUME CacheTypeOK, NEW g \in Glyphs, priv[g] # None
  PROVE  priv[g].size \in GlyphSizes /\ priv[g].index \in Slots
BY DEF CacheTypeOK

(* A glyph that is put on an empty slot, or on one that is emptied, leaves *)
(* all pointers in pairs.                                                  *)
LEMMA PlacePairs ==
  ASSUME CacheTypeOK, BackPointers,
         NEW g \in Glyphs, Wanted(g), NEW index \in Slots, NEW emptied \in SUBSET Slots,
         glyphs[index] = NoGlyph \/ index \in emptied,
         Place(g, index, emptied)
  PROVE  /\ priv' \in [Glyphs -> {None} \union [size : GlyphSizes, index : Slots]]
         /\ glyphs' \in [Slots -> Glyphs \union {NoGlyph}]
         /\ BackPointers'
         /\ \A i \in Slots : glyphs'[i] # NoGlyph => i = index \/ glyphs[i] # NoGlyph
<1>1. Size(g) \in GlyphSizes
  BY SizeOfWanted
<1>2. [size |-> Size(g), index |-> index] # None
  BY <1>1, Counts DEF None
<1>3. g # NoGlyph /\ priv[g] = None
  BY ExtentAssumption DEF Wanted
<1>4. /\ priv' \in [Glyphs -> {None} \union [size : GlyphSizes, index : Slots]]
      /\ glyphs' \in [Slots -> Glyphs \union {NoGlyph}]
  BY <1>1 DEF CacheTypeOK, Place
<1>5. ASSUME NEW h \in Cached'
      PROVE  glyphs'[priv'[h].index] = h
  <2>1. h \in Glyphs /\ priv'[h] # None
    BY DEF Cached
  <2>2. CASE h = g
    <3>1. priv'[g].index = index
      BY <2>2 DEF Place
    <3> QED BY <2>2, <3>1 DEF Place
  <2>3. CASE h # g
    <3>1. priv'[h] = priv[h] /\ priv[h] # None /\ \A i \in emptied : glyphs[i] # h
      BY <2>1, <2>3 DEF Place
    <3>2. glyphs[priv[h].index] = h /\ priv[h].index \in Slots
      BY <2>1, <3>1, PrivOfCached DEF BackPointers, Cached
    <3>3. priv[h].index # index /\ priv[h].index \notin emptied
      BY <2>1, <3>1, <3>2, ExtentAssumption
    <3> QED BY <3>1, <3>2, <3>3 DEF Place
  <2> QED BY <2>2, <2>3
<1>6. ASSUME NEW i \in Slots, glyphs'[i] # NoGlyph
      PROVE  /\ priv'[glyphs'[i]] # None /\ priv'[glyphs'[i]].index = i
             /\ i = index \/ glyphs[i] # NoGlyph
  <2>1. CASE i = index
    BY <2>1, <1>2 DEF Place
  <2>2. CASE i # index
    <3>1. glyphs'[i] = glyphs[i] /\ i \notin emptied
      BY <1>6, <2>2 DEF Place
    <3>2. glyphs[i] \in Glyphs /\ priv[glyphs[i]] # None /\ priv[glyphs[i]].index = i
      BY <1>6, <3>1 DEF BackPointers, CacheTypeOK
    <3>3. \A j \in emptied : glyphs[j] # glyphs[i]
      BY <3>1, <3>2, ExtentAssumption DEF BackPointers
    <3>4. priv'[glyphs[i]] = priv[glyphs[i]]
      BY <1>3, <3>2, <3>3 DEF Place
    <3> QED BY <3>1, <3>2, <3>4, ExtentAssumption
  <2> QED BY <2>1, <2>2
<1> QED BY <1>4, <1>5, <1>6 DEF BackPointers

(* Slots that are handed out lie in the picture, behind all that were.     *)
LEMMA HandedSlots ==
  ASSUME CacheTypeOK, NEW g \in Glyphs, Wanted(g), Handed(g) < GLYPH_CACHE_SIZE
  PROVE  /\ Handed(g) \in Slots /\ count <= Handed(g)
         /\ Handed(g) + SizeToCount(Size(g)) \in 0 .. GLYPH_CACHE_SIZE
         /\ Handed(g) < Handed(g) + SizeToCount(Size(g))
<1> DEFINE c == SizeToCount(Size(g))
           q == (count + c - 1) \div c
           k == GLYPH_CACHE_SIZE \div c
<1>1. /\ c \in Nat \ {0} /\ GLYPH_CACHE_SIZE \in Nat /\ k * c = GLYPH_CACHE_SIZE
      /\ count \in Nat
  BY SizeOfWanted, Counts DEF CacheTypeOK
<1>2. Handed(g) = q * c
  BY DEF Handed
<1> HIDE DEF c
<1>3. count + c - 1 \in Nat
  BY <1>1
<1>4. q \in Nat /\ k \in Nat /\ q * c \in Nat /\ count + c - 1 < q * c + c
  BY <1>1, <1>3, Quotient
<1> HIDE DEF q, k
<1>5. q * c + c <= k * c
  BY <1>1, <1>2, <1>4, Products
<1> QED BY <1>1, <1>2, <1>4, <1>5 DEF Slots, c

(* When no slots are left for a glyph, none of its squares starts behind   *)
(* the count.                                                              *)
LEMMA EvictedBelow ==
  ASSUME CacheTypeOK, NEW g \in Glyphs, Wanted(g), Handed(g) >= GLYPH_CACHE_SIZE,
         NEW e \in Slots
  PROVE  Masked(e, Size(g)) < count
<1> DEFINE c == SizeToCount(Size(g))
           q == (count + c - 1) \div c
           r == e \div c
<1>1. /\ c \in Nat \ {0} /\ GLYPH_CACHE_SIZE \in Nat /\ count \in Nat
      /\ e \in Nat /\ e < GLYPH_CACHE_SIZE
  BY SizeOfWanted, Counts DEF CacheTypeOK, Slots
<1>2. Handed(g) = q * c /\ Masked(e, Size(g)) = r * c
  BY DEF Handed, Masked
<1> HIDE DEF c
<1>3. count + c - 1 \in Nat
  BY <1>1
<1>4. q \in Nat /\ q * c \in Nat /\ q * c <= count + c - 1
  BY <1>1, <1>3, Quotient
<1>5. r \in Nat /\ r * c \in Nat /\ r * c <= e
  BY <1>1, Quotient
<1> HIDE DEF q, r
<1>6. r * c < q * c
  BY <1>1, <1>2, <1>4, <1>5
<1>7. r * c + c <= q * c
  BY <1>1, <1>4, <1>5, <1>6, Products
<1> QED BY <1>1, <1>2, <1>4, <1>5, <1>7

(* What is pushed out for a glyph lies in the picture, and includes what   *)
(* starts where the glyph goes.                                            *)
LEMMA EvictedProperties ==
  ASSUME NEW e \in Slots, NEW s \in GlyphSizes
  PROVE  /\ EvictedSlots(e, s) \subseteq Slots
         /\ glyphs[Masked(e, s)] # NoGlyph => Masked(e, s) \in EvictedSlots(e, s)
<1>1. GlyphSizes \subseteq Nat
  BY Counts
<1>2. CASE /\ Occupied(e, s) # {}
           /\ priv[glyphs[Around(e, s)]].size >= Min(Occupied(e, s))
  <2>1. EvictedSlots(e, s) = {Around(e, s)}
    BY <1>2 DEF EvictedSlots
  <2>2. Occupied(e, s) \in SUBSET Nat /\ \A t \in Occupied(e, s) : t \in GlyphSizes /\ t >= s
    BY <1>1 DEF Occupied
  <2>3. Min(Occupied(e, s)) \in Occupied(e, s) /\ \A t \in Occupied(e, s) : Min(Occupied(e, s)) <= t
    BY <1>2, <2>2, MinIn
  <2>4. Around(e, s) \in Slots
    BY <2>2, <2>3, MaskedSlots DEF Around
  <2>5. ASSUME glyphs[Masked(e, s)] # NoGlyph
        PROVE  Around(e, s) = Masked(e, s)
    <3>1. s \in Occupied(e, s)
      BY <1>1, <2>5 DEF Occupied
    <3>2. Min(Occupied(e, s)) = s
      BY <1>1, <2>2, <2>3, <3>1
    <3> QED BY <3>2 DEF Around
  <2> QED BY <2>1, <2>4, <2>5
<1>3. CASE ~ (/\ Occupied(e, s) # {}
              /\ priv[glyphs[Around(e, s)]].size >= Min(Occupied(e, s)))
  <2>1. EvictedSlots(e, s) = {i \in Run(Masked(e, s), s) : glyphs[i] # NoGlyph}
    BY <1>3 DEF EvictedSlots
  <2> QED BY <2>1, MaskedSlots
<1> QED BY <1>2, <1>3

(* __glyph_cache, whether it finds memory or not.                          *)
LEMMA CacheKeeps ==
  ASSUME CacheInv, NEW g \in Glyphs, NEW malloced \in BOOLEAN, Cache(g, malloced)
  PROVE  CacheInv'
<1>1. Wanted(g) /\ Size(g) \in GlyphSizes /\ count \in Nat
  BY SizeOfWanted, Counts DEF Cache, CacheInv, CacheTypeOK
<1>2. CASE CacheFresh(g, malloced)
  <2>1. /\ Handed(g) \in Slots /\ count <= Handed(g) /\ count' \in 0 .. GLYPH_CACHE_SIZE
        /\ Handed(g) < count' /\ behind' = behind
    BY <1>1, <1>2, HandedSlots DEF CacheFresh, CacheInv
  <2>2. glyphs[Handed(g)] = NoGlyph
    <3>1. ~ (Handed(g) < count)
      BY <1>1, <2>1 DEF Slots
    <3> QED BY <2>1, <3>1 DEF CacheInv, BelowCount
  <2>3. CASE malloced
    <3>1. Place(g, Handed(g), {})
      BY <1>2, <2>3 DEF CacheFresh
    <3>2. /\ priv' \in [Glyphs -> {None} \union [size : GlyphSizes, index : Slots]]
          /\ glyphs' \in [Slots -> Glyphs \union {NoGlyph}] /\ BackPointers'
          /\ \A i \in Slots : glyphs'[i] # NoGlyph => i = Handed(g) \/ glyphs[i] # NoGlyph
      BY <1>1, <2>1, <2>2, <3>1, PlacePairs DEF CacheInv
    <3>3. BelowCount'
      BY <1>1, <2>1, <3>2 DEF CacheInv, BelowCount, Slots
    <3> QED BY <2>1, <3>2, <3>3 DEF CacheInv, CacheTypeOK
  <2>4. CASE ~ malloced
    <3>1. UNCHANGED <<priv, glyphs>>
      BY <1>2, <2>4 DEF CacheFresh
    <3>2. BelowCount'
      BY <1>1, <2>1, <3>1 DEF CacheInv, BelowCount, Slots
    <3> QED BY <2>1, <3>1, <3>2 DEF CacheInv, CacheTypeOK, BackPointers, Cached
  <2> QED BY <2>3, <2>4
<1>3. ASSUME NEW e \in Slots, CacheEvict(g, e, malloced)
      PROVE  CacheInv'
  <2> DEFINE index == Masked(e, Size(g))
             emptied == EvictedSlots(e, Size(g))
  <2>1. /\ index \in Slots /\ emptied \subseteq Slots
        /\ glyphs[index] = NoGlyph \/ index \in emptied
    BY <1>1, MaskedSlots, EvictedProperties
  <2>2. index < count /\ count' = count
    BY <1>1, <1>3, EvictedBelow DEF CacheEvict, CacheInv
  <2>3. CASE malloced
    <3>1. Place(g, index, emptied)
      BY <1>3, <2>3 DEF CacheEvict
    <3>2. behind' \in BOOLEAN
      BY <1>3, <2>3 DEF CacheEvict
    <3> HIDE DEF index, emptied
    <3>3. /\ priv' \in [Glyphs -> {None} \union [size : GlyphSizes, index : Slots]]
          /\ glyphs' \in [Slots -> Glyphs \union {NoGlyph}] /\ BackPointers'
          /\ \A i \in Slots : glyphs'[i] # NoGlyph => i = index \/ glyphs[i] # NoGlyph
      BY <1>1, <2>1, <3>1, PlacePairs DEF CacheInv
    <3>4. BelowCount'
      BY <2>2, <3>3 DEF CacheInv, BelowCount
    <3> QED BY <2>2, <3>2, <3>3, <3>4 DEF CacheInv, CacheTypeOK
  <2>4. CASE ~ malloced
    <3>1. UNCHANGED cacheVars
      BY <1>3, <2>4 DEF CacheEvict, cacheVars
    <3> QED BY <3>1 DEF cacheVars, CacheInv, CacheTypeOK, BackPointers, Cached, BelowCount
  <2> QED BY <2>3, <2>4
<1> QED BY <1>2, <1>3 DEF Cache, Evictable

-----------------------------------------------------------------------------
(* The squares of the glyphs.                                              *)

RunOf(g) == Run(priv[g].index, priv[g].size)

(* A glyph fits its square, which starts where squares of its size do.     *)
Sized ==
  \A g \in Cached : Extent[g] <= priv[g].size /\ Aligned(priv[g].index, priv[g].size)

(* As long as no glyph was put behind the count, none reaches behind it,   *)
(* and no slot is in the squares of two.                                   *)
RunsBelow == \A g \in Cached : priv[g].index + SizeToCount(priv[g].size) <= count
RunsApart == \A g, h \in Cached : g # h => RunOf(g) \intersect RunOf(h) = {}

SquaresInv == Sized /\ (~ behind => RunsBelow /\ RunsApart)

LEMMA CachedFacts ==
  ASSUME CacheTypeOK, BackPointers, Sized, NEW g \in Cached
  PROVE  /\ g \in Glyphs /\ priv[g].size \in GlyphSizes /\ priv[g].size \in Nat
         /\ priv[g].index \in Slots /\ priv[g].index \in Nat
         /\ glyphs[priv[g].index] = g /\ g # NoGlyph
         /\ Extent[g] \in Nat /\ Extent[g] <= priv[g].size
         /\ Aligned(priv[g].index, priv[g].size)
         /\ priv[g].index \in RunOf(g)
<1>1. /\ g \in Glyphs /\ priv[g].size \in GlyphSizes /\ priv[g].index \in Slots
      /\ glyphs[priv[g].index] = g
  BY PrivOfCached DEF Cached, BackPointers
<1>2. priv[g].index \in Nat /\ SizeToCount(priv[g].size) \in Nat \ {0} /\ priv[g].size \in Nat
  BY <1>1, Counts DEF Slots
<1>3. priv[g].index \in RunOf(g)
  BY <1>2 DEF RunOf, Run
<1> QED BY <1>1, <1>2, <1>3, ExtentAssumption DEF Sized

LEMMA MaskedFacts ==
  ASSUME NEW e \in Slots, NEW s \in GlyphSizes
  PROVE  /\ e \in Nat /\ Masked(e, s) \in Slots /\ Masked(e, s) \in Nat
         /\ Aligned(Masked(e, s), s) /\ Masked(e, s) \in Run(Masked(e, s), s)
<1>1. e \in Nat /\ Masked(e, s) \in Nat /\ Masked(e, s) \in Slots
      /\ Masked(e, s) \in Run(Masked(e, s), s)
  BY MaskedSlots DEF Slots
<1>2. e \div SizeToCount(s) \in Nat
  BY <1>1, Counts, Quotient
<1>3. Aligned((e \div SizeToCount(s)) * SizeToCount(s), s)
  BY <1>2, MaskedAligned
<1> QED BY <1>1, <1>3 DEF Masked

(* The slot of a glyph that is pushed out, or is not, is in its square.    *)
LEMMA AroundFacts ==
  ASSUME CacheTypeOK, BackPointers, Sized, NEW e \in Slots, NEW s \in GlyphSizes,
         Occupied(e, s) # {}
  PROVE  /\ Min(Occupied(e, s)) \in GlyphSizes /\ Min(Occupied(e, s)) >= s
         /\ \A t \in Occupied(e, s) : Min(Occupied(e, s)) <= t
         /\ Around(e, s) \in Slots
         /\ glyphs[Around(e, s)] \in Cached
         /\ priv[glyphs[Around(e, s)]].index = Around(e, s)
<1>1. GlyphSizes \subseteq Nat
  BY Counts
<1>2. Occupied(e, s) \in SUBSET Nat
  BY <1>1 DEF Occupied
<1>3. Min(Occupied(e, s)) \in Occupied(e, s) /\ \A t \in Occupied(e, s) : Min(Occupied(e, s)) <= t
  BY <1>2, MinIn
<1>4. /\ Min(Occupied(e, s)) \in GlyphSizes /\ Min(Occupied(e, s)) >= s
      /\ glyphs[Around(e, s)] # NoGlyph
  BY <1>3 DEF Occupied, Around
<1>5. Around(e, s) \in Slots
  BY <1>4, MaskedFacts DEF Around
<1>6. glyphs[Around(e, s)] \in Glyphs
  BY <1>4, <1>5 DEF CacheTypeOK
<1> QED BY <1>3, <1>4, <1>5, <1>6 DEF BackPointers, Cached

(* What stays when a square is emptied has no slot in it.                  *)
LEMMA EvictedApart ==
  ASSUME CacheTypeOK, BackPointers, Sized, RunsApart,
         NEW e \in Slots, NEW s \in GlyphSizes,
         NEW h \in Cached, \A i \in EvictedSlots(e, s) : glyphs[i] # h
  PROVE  RunOf(h) \intersect Run(Masked(e, s), s) = {}
<1> DEFINE t == priv[h].size
           j == priv[h].index
           m == Masked(e, s)
           r == Min(Occupied(e, s))
           a == Around(e, s)
           f == glyphs[a]
<1> SUFFICES ASSUME RunOf(h) \intersect Run(m, s) # {} PROVE FALSE
  OBVIOUS
<1>1. /\ t \in GlyphSizes /\ j \in Nat /\ glyphs[j] = h /\ h # NoGlyph /\ Aligned(j, t)
      /\ j \in Run(j, t) /\ RunOf(h) = Run(j, t) /\ t \in Nat
  BY CachedFacts DEF RunOf
<1>2. e \in Nat /\ m \in Nat /\ Aligned(m, s) /\ m \in Run(m, s)
  BY MaskedFacts
<1>3. s \in Nat
  BY Counts
<1>4. ASSUME Occupied(e, s) # {}
      PROVE  /\ r \in GlyphSizes /\ r \in Nat /\ r >= s
             /\ \A u \in Occupied(e, s) : r <= u
             /\ a \in Slots /\ a \in Nat /\ f \in Cached /\ priv[f].index = a
             /\ a = Masked(e, r) /\ Aligned(a, r) /\ a \in Run(a, r)
             /\ priv[f].size \in GlyphSizes /\ Aligned(a, priv[f].size)
             /\ a \in RunOf(f) /\ RunOf(f) = Run(a, priv[f].size)
  <2>1. /\ r \in GlyphSizes /\ r >= s /\ \A u \in Occupied(e, s) : r <= u
        /\ a \in Slots /\ f \in Cached /\ priv[f].index = a
    BY <1>4, AroundFacts
  <2>2. a = Masked(e, r) /\ r \in Nat
    BY <2>1, Counts DEF Around
  <2>3. a \in Nat /\ Aligned(a, r) /\ a \in Run(a, r)
    BY <2>1, <2>2, MaskedFacts
  <2>4. priv[f].size \in GlyphSizes /\ Aligned(a, priv[f].size) /\ a \in RunOf(f)
    BY <2>1, CachedFacts
  <2> QED BY <2>1, <2>2, <2>3, <2>4 DEF RunOf
<1> HIDE DEF t, j, m, r, a, f
<1>5. CASE Occupied(e, s) # {} /\ priv[f].size >= r
  <2>1. EvictedSlots(e, s) = {a}
    BY <1>5 DEF EvictedSlots, f, a, r
  <2>2. f # h
    BY <2>1 DEF f
  <2>3. Run(m, s) \subseteq Run(a, r)
    BY <1>2, <1>4, <1>5, <1>3, MaskedNest DEF m
  <2>4. Run(a, r) \subseteq RunOf(f)
    <3>1. r <= priv[f].size
      BY <1>4, <1>5, Counts
    <3>2. Run(a, r) \intersect Run(a, priv[f].size) # {}
      BY <1>4, <1>5
    <3> QED BY <1>4, <1>5, <3>1, <3>2, SquaresNest
  <2>5. RunOf(h) \intersect RunOf(f) = {}
    BY <1>4, <1>5, <2>2 DEF RunsApart
  <2> QED BY <2>3, <2>4, <2>5
<1>6. CASE ~ (Occupied(e, s) # {} /\ priv[f].size >= r)
  <2>1. EvictedSlots(e, s) = {i \in Run(m, s) : glyphs[i] # NoGlyph}
    BY <1>6 DEF EvictedSlots, f, a, r, m
  <2>2. CASE ~ (s <= t)
    <3>1. t <= s
      BY <1>1, <1>3, <2>2
    <3>2. Run(j, t) \subseteq Run(m, s)
      BY <1>1, <1>2, <3>1, SquaresNest
    <3>3. j \in EvictedSlots(e, s)
      BY <1>1, <2>1, <3>2
    <3> QED BY <1>1, <3>3
  <2>3. CASE s <= t
    <3>1. Run(m, s) \subseteq Run(j, t)
      <4>1. Run(m, s) \intersect Run(j, t) # {}
        BY <1>1
      <4> QED BY <1>1, <1>2, <2>3, <4>1, SquaresNest
    <3>2. e \in Run(m, s)
      BY <1>2, <1>3, MaskedNest DEF m
    <3>3. Masked(e, t) = j
      BY <1>1, <3>1, <3>2, MaskedUnique
    <3>4. t \in Occupied(e, s)
      BY <1>1, <1>3, <2>3, <3>3 DEF Occupied
    <3>5. r <= t
      BY <1>4, <3>4
    <3>6. a \in Run(j, t)
      <4>1. Run(Masked(e, r), r) \subseteq Run(Masked(e, t), t)
        BY <1>1, <1>2, <1>4, <3>4, <3>5, MaskedNest
      <4> QED BY <1>4, <3>3, <3>4, <4>1
    <3>7. f = h
      BY <1>1, <1>4, <3>4, <3>6 DEF RunsApart
    <3>8. priv[f].size >= r
      BY <1>1, <1>4, <3>4, <3>5, <3>7 DEF t
    <3> QED BY <1>6, <3>4, <3>8
  <2> QED BY <2>2, <2>3
<1> QED BY <1>5, <1>6

(* A glyph goes to its square, others lose theirs.                         *)
LEMMA PlaceCached ==
  ASSUME CacheTypeOK, NEW g \in Glyphs, Wanted(g),
         NEW index \in Slots, NEW emptied \in SUBSET Slots, Place(g, index, emptied)
  PROVE  /\ priv'[g].size = Size(g) /\ priv'[g].index = index
         /\ \A h \in Cached' : h # g =>
              h \in Cached /\ priv'[h] = priv[h] /\ \A i \in emptied : glyphs[i] # h
<1>1. priv'[g] = [size |-> Size(g), index |-> index]
  BY DEF Place
<1>2. ASSUME NEW h \in Cached', h # g
      PROVE  h \in Cached /\ priv'[h] = priv[h] /\ \A i \in emptied : glyphs[i] # h
  <2>1. h \in Glyphs /\ priv'[h] # None
    BY DEF Cached
  <2> QED BY <1>2, <2>1 DEF Place, Cached
<1> QED BY <1>1, <1>2

LEMMA PlaceSquares ==
  ASSUME CacheTypeOK, BackPointers, SquaresInv, NEW g \in Glyphs, Wanted(g),
         NEW index \in Slots, NEW emptied \in SUBSET Slots, Place(g, index, emptied),
         Aligned(index, Size(g)),
         behind \in BOOLEAN, count \in Nat, count' \in Nat,
         behind => behind', count <= count',
         ~ behind' => index + SizeToCount(Size(g)) <= count',
         ~ behind' => \A h \in Cached : (\A i \in emptied : glyphs[i] # h) =>
                        RunOf(h) \intersect Run(index, Size(g)) = {}
  PROVE  SquaresInv'
<1>1. Size(g) \in GlyphSizes /\ Extent[g] <= Size(g)
  BY SizeOfWanted
<1>2. /\ priv'[g].size = Size(g) /\ priv'[g].index = index
      /\ \A h \in Cached' : h # g =>
           h \in Cached /\ priv'[h] = priv[h] /\ \A i \in emptied : glyphs[i] # h
  BY PlaceCached
<1>3. ASSUME NEW h \in Cached'
      PROVE  Extent[h] <= priv'[h].size /\ Aligned(priv'[h].index, priv'[h].size)
  <2>1. CASE h = g
    BY <1>1, <1>2, <2>1
  <2>2. CASE h # g
    BY <1>2, <2>2 DEF SquaresInv, Sized
  <2> QED BY <2>1, <2>2
<1>4. ASSUME ~ behind' PROVE RunsBelow'
  <2> SUFFICES ASSUME NEW h \in Cached'
               PROVE  priv'[h].index + SizeToCount(priv'[h].size) <= count'
    BY DEF RunsBelow, SizeToCount
  <2>1. CASE h = g
    BY <1>2, <1>4, <2>1
  <2>2. CASE h # g
    <3>1. h \in Cached /\ priv'[h] = priv[h]
      BY <1>2, <2>2
    <3>2. priv[h].index + SizeToCount(priv[h].size) <= count
      BY <1>4, <3>1 DEF SquaresInv, RunsBelow
    <3>3. priv[h].index \in Nat /\ SizeToCount(priv[h].size) \in Nat
      BY <3>1, CachedFacts, Counts DEF SquaresInv
    <3> QED BY <3>1, <3>2, <3>3
  <2> QED BY <2>1, <2>2
<1>5. ASSUME ~ behind' PROVE RunsApart'
  <2>1. \A h \in Cached' : h # g => h \in Cached /\ RunOf(h)' = RunOf(h)
    BY <1>2 DEF RunOf, Run, SizeToCount
  <2>2. RunOf(g)' = Run(index, Size(g))
    BY <1>2 DEF RunOf, Run, SizeToCount
  <2>3. \A h \in Cached' : h # g => RunOf(h)' \intersect RunOf(g)' = {}
    BY <1>2, <1>5, <2>1, <2>2
  <2>4. ASSUME NEW f \in Cached', NEW h \in Cached', f # h
        PROVE  RunOf(f)' \intersect RunOf(h)' = {}
    <3>1. CASE f = g
      BY <2>3, <2>4, <3>1
    <3>2. CASE h = g
      BY <2>3, <2>4, <3>2
    <3>3. CASE f # g /\ h # g
      BY <1>5, <2>1, <2>4, <3>3 DEF SquaresInv, RunsApart
    <3> QED BY <3>1, <3>2, <3>3
  <2> QED BY <2>4 DEF RunsApart
<1>6. Sized'
  BY <1>3 DEF Sized, Aligned, Masked, SizeToCount
<1> QED BY <1>4, <1>5, <1>6 DEF SquaresInv

LEMMA CacheSquares ==
  ASSUME CacheInv, SquaresInv, NEW g \in Glyphs, NEW malloced \in BOOLEAN, Cache(g, malloced)
  PROVE  SquaresInv'
<1>1. /\ Wanted(g) /\ Size(g) \in GlyphSizes /\ count \in Nat /\ behind \in BOOLEAN
      /\ GLYPH_CACHE_SIZE \in Nat
  BY SizeOfWanted, Counts DEF Cache, CacheInv, CacheTypeOK
<1>2. ASSUME UNCHANGED priv, behind' = behind, count' \in Nat, count <= count'
      PROVE  SquaresInv'
  <2>1. Cached' = Cached /\ \A h : RunOf(h)' = RunOf(h)
    BY <1>2 DEF Cached, RunOf, Run, SizeToCount
  <2>2. Sized'
    BY <1>2, <2>1 DEF SquaresInv, Sized, Aligned, Masked, SizeToCount
  <2>3. ASSUME ~ behind' PROVE RunsApart'
    BY <1>2, <2>1, <2>3 DEF SquaresInv, RunsApart
  <2>4. ASSUME ~ behind' PROVE RunsBelow'
    <3> SUFFICES ASSUME NEW h \in Cached
                 PROVE  priv[h].index + SizeToCount(priv[h].size) <= count'
      BY <1>2, <2>1 DEF RunsBelow, SizeToCount
    <3>1. priv[h].index + SizeToCount(priv[h].size) <= count
      BY <1>2, <2>4 DEF SquaresInv, RunsBelow
    <3>2. priv[h].index \in Nat /\ SizeToCount(priv[h].size) \in Nat
      BY CachedFacts, Counts DEF SquaresInv, CacheInv
    <3> QED BY <1>1, <1>2, <3>1, <3>2
  <2> QED BY <2>2, <2>3, <2>4 DEF SquaresInv
<1>3. CASE CacheFresh(g, malloced)
  <2> DEFINE c == SizeToCount(Size(g))
  <2>1. /\ Handed(g) \in Slots /\ count <= Handed(g) /\ count' = Handed(g) + c
        /\ count' \in 0 .. GLYPH_CACHE_SIZE
        /\ Handed(g) < count' /\ behind' = behind
    BY <1>1, <1>3, HandedSlots DEF CacheFresh, CacheInv
  <2>2. Handed(g) \in Nat /\ count' \in Nat /\ count <= count' /\ c \in Nat \ {0}
    BY <1>1, <2>1, Counts DEF Slots
  <2>3. CASE malloced
    <3>1. Place(g, Handed(g), {})
      BY <1>3, <2>3 DEF CacheFresh
    <3>2. Aligned(Handed(g), Size(g))
      <4>1. (count + c - 1) \in Nat
        BY <1>1, <2>2
      <4> HIDE DEF c
      <4>2. (count + c - 1) \div c \in Nat
        BY <2>2, <4>1
      <4> USE DEF c
      <4> QED BY <1>1, <4>2, MaskedAligned DEF Handed
    <3>3. ASSUME ~ behind', NEW h \in Cached
          PROVE  RunOf(h) \intersect Run(Handed(g), Size(g)) = {}
      <4>1. priv[h].index + SizeToCount(priv[h].size) <= count
        BY <2>1, <3>3 DEF SquaresInv, RunsBelow
      <4>2. priv[h].index \in Nat /\ SizeToCount(priv[h].size) \in Nat
        BY CachedFacts, Counts DEF SquaresInv, CacheInv
      <4> HIDE DEF c
      <4>3. \A x \in RunOf(h) : x \in Int /\ x < Handed(g)
        BY <1>1, <2>1, <2>2, <4>1, <4>2 DEF RunOf, Run
      <4>4. \A x \in Run(Handed(g), Size(g)) : ~ (x < Handed(g))
        BY <2>2 DEF Run, c
      <4> QED BY <4>3, <4>4
    <3> QED BY <1>1, <2>1, <2>2, <3>1, <3>2, <3>3, PlaceSquares DEF CacheInv
  <2>4. CASE ~ malloced
    <3>1. UNCHANGED priv
      BY <1>3, <2>4 DEF CacheFresh
    <3> QED BY <1>2, <2>1, <2>2, <3>1
  <2> QED BY <2>3, <2>4
<1>4. ASSUME NEW e \in Slots, CacheEvict(g, e, malloced)
      PROVE  SquaresInv'
  <2> DEFINE index == Masked(e, Size(g))
             emptied == EvictedSlots(e, Size(g))
             c == SizeToCount(Size(g))
  <2>1. /\ index \in Slots /\ index \in Nat /\ emptied \subseteq Slots
        /\ Aligned(index, Size(g)) /\ c \in Nat
    BY <1>1, MaskedFacts, EvictedProperties, Counts
  <2>2. count' = count
    BY <1>4 DEF CacheEvict
  <2>3. CASE malloced
    <3>1. Place(g, index, emptied) /\ behind' = (behind \/ index + c > count)
      BY <1>4, <2>3 DEF CacheEvict
    <3>2. ASSUME ~ behind', NEW h \in Cached, \A i \in emptied : glyphs[i] # h
          PROVE  RunOf(h) \intersect Run(index, Size(g)) = {}
      <4>1. RunsApart
        BY <3>1, <3>2 DEF SquaresInv
      <4> QED BY <1>1, <3>2, <4>1, EvictedApart DEF CacheInv, SquaresInv
    <3> HIDE DEF index, emptied
    <3>3. ~ behind' => index + c <= count'
      <4> HIDE DEF c
      <4>1. ~ behind' => ~ (index + c > count)
        BY <3>1, Zenon
      <4> QED BY <1>1, <2>1, <2>2, <4>1
    <3> QED BY <1>1, <2>1, <2>2, <3>1, <3>2, <3>3, PlaceSquares DEF CacheInv
  <2>4. CASE ~ malloced
    <3>1. UNCHANGED priv /\ behind' = behind
      BY <1>4, <2>4 DEF CacheEvict
    <3> QED BY <1>1, <1>2, <2>2, <3>1
  <2> QED BY <2>3, <2>4
<1> QED BY <1>3, <1>4 DEF Cache, Evictable

(* glyph_cache_remove.                                                     *)
LEMMA RemoveKeeps ==
  ASSUME CacheInv, NEW g \in Glyphs, Remove(g)
  PROVE  CacheInv'
<1>1. /\ priv[g] # None /\ priv[g].index \in Slots /\ glyphs[priv[g].index] = g
      /\ priv \in [Glyphs -> {None} \union [size : GlyphSizes, index : Slots]]
      /\ glyphs \in [Slots -> Glyphs \union {NoGlyph}]
  BY PrivOfCached DEF Remove, CacheInv, CacheTypeOK, BackPointers, Cached
<1>2. /\ \A h \in Glyphs : priv'[h] = IF h = g THEN None ELSE priv[h]
      /\ \A i \in Slots : glyphs'[i] = IF i = priv[g].index THEN NoGlyph ELSE glyphs[i]
      /\ count' = count /\ behind' = behind
  BY <1>1 DEF Remove
<1>3. CacheTypeOK'
  BY <1>1 DEF Remove, CacheInv, CacheTypeOK
<1>4. ASSUME NEW h \in Cached'
      PROVE  glyphs'[priv'[h].index] = h
  <2>1. h \in Glyphs /\ h # g /\ priv'[h] = priv[h] /\ priv[h] # None
    BY <1>2 DEF Cached
  <2>2. priv[h].index \in Slots /\ glyphs[priv[h].index] = h
    BY <2>1, PrivOfCached DEF CacheInv, BackPointers, Cached
  <2> QED BY <1>1, <1>2, <2>1, <2>2
<1>5. ASSUME NEW i \in Slots, glyphs'[i] # NoGlyph
      PROVE  priv'[glyphs'[i]] # None /\ priv'[glyphs'[i]].index = i
  <2>1. i # priv[g].index /\ glyphs'[i] = glyphs[i]
    BY <1>2, <1>5
  <2>2. /\ glyphs[i] \in Glyphs /\ priv[glyphs[i]] # None
        /\ priv[glyphs[i]].index = i
    BY <1>1, <1>5, <2>1 DEF CacheInv, BackPointers
  <2> QED BY <1>2, <2>1, <2>2
<1>6. BelowCount'
  BY <1>2 DEF CacheInv, BelowCount
<1> QED BY <1>3, <1>4, <1>5, <1>6 DEF CacheInv, BackPointers

LEMMA RemoveSquares ==
  ASSUME CacheInv, SquaresInv, NEW g \in Glyphs, Remove(g)
  PROVE  SquaresInv'
<1>1. /\ \A h \in Cached' : h \in Cached /\ priv'[h] = priv[h]
      /\ count' = count /\ behind' = behind
  BY DEF Remove, Cached, CacheInv, CacheTypeOK
<1>2. \A h \in Cached' : RunOf(h)' = RunOf(h)
  BY <1>1 DEF RunOf, Run, SizeToCount
<1>3. Sized'
  BY <1>1 DEF SquaresInv, Sized, Aligned, Masked, SizeToCount
<1>4. ASSUME ~ behind' PROVE RunsBelow'
  BY <1>1, <1>4 DEF SquaresInv, RunsBelow, SizeToCount
<1>5. ASSUME ~ behind' PROVE RunsApart'
  BY <1>1, <1>2, <1>5 DEF SquaresInv, RunsApart
<1> QED BY <1>3, <1>4, <1>5 DEF SquaresInv

-----------------------------------------------------------------------------
(* The pixels of the glyphs.                                               *)

(* As long as no glyph was put behind the count, a glyph in the cache has  *)
(* its pixels there, or they could not be uploaded.                        *)
Shown == ~ behind => Cached \subseteq intact \union failed

(* Glyphs whose squares have no slot in common do not write over another.  *)
LEMMA GlyphsApart ==
  ASSUME CacheInv, SquaresInv, ~ behind, NEW g \in Cached, NEW h \in Cached, g # h
  PROVE  ~ WritesOver(g, Pos[priv[g].index], h, Pos[priv[h].index])
<1> DEFINE i == priv[g].index
           s == priv[g].size
           j == priv[h].index
           t == priv[h].size
<1>1. /\ s \in GlyphSizes /\ i \in Slots /\ Aligned(i, s) /\ RunOf(g) = Run(i, s)
      /\ Extent[g] \in Nat /\ s \in Nat /\ Extent[g] <= s
  BY CachedFacts DEF CacheInv, SquaresInv, RunOf
<1>2. /\ t \in GlyphSizes /\ j \in Slots /\ Aligned(j, t) /\ RunOf(h) = Run(j, t)
      /\ Extent[h] \in Nat /\ t \in Nat /\ Extent[h] <= t
  BY CachedFacts DEF CacheInv, SquaresInv, RunOf
<1>3. Run(i, s) \intersect Run(j, t) = {} /\ Run(j, t) \intersect Run(i, s) = {}
  BY <1>1, <1>2 DEF SquaresInv, RunsApart
<1> DEFINE p == Pos[i]
           q == Pos[j]
<1>4. p.x \in Nat /\ p.y \in Nat /\ q.x \in Nat /\ q.y \in Nat
  BY <1>1, <1>2, SquareInPicture
<1> HIDE DEF i, s, j, t
<1>5. Apart(p.x, s, q.x, t) \/ Apart(p.y, s, q.y, t)
  <2>1. CASE s <= t
    BY <1>1, <1>2, <1>3, <2>1, SquaresApart
  <2>2. CASE t <= s
    <3>1. Apart(q.x, t, p.x, s) \/ Apart(q.y, t, p.y, s)
      BY <1>1, <1>2, <1>3, <2>2, SquaresApart
    <3> QED BY <3>1 DEF Apart
  <2> QED BY <1>1, <1>2, <2>1, <2>2
<1> HIDE DEF p, q
<1>6. Apart(p.x, Extent[g], q.x, Extent[h]) \/ Apart(p.y, Extent[g], q.y, Extent[h])
  BY <1>1, <1>2, <1>4, <1>5 DEF Apart
<1> QED BY <1>6 DEF WritesOver, p, q, i, j

LEMMA GlyphInPicture ==
  ASSUME CacheInv, SquaresInv, NEW g \in Cached
  PROVE  InPicture(g, Pos[priv[g].index])
<1> DEFINE i == priv[g].index
           s == priv[g].size
<1>1. /\ s \in GlyphSizes /\ i \in Slots /\ Aligned(i, s)
      /\ Extent[g] \in Nat /\ s \in Nat /\ Extent[g] <= s
  BY CachedFacts DEF CacheInv, SquaresInv
<1> DEFINE p == Pos[i]
<1>2. /\ p.x \in Nat /\ p.y \in Nat
      /\ p.x + s <= CACHE_PICTURE_SIZE /\ p.y + s <= CACHE_PICTURE_SIZE
      /\ CACHE_PICTURE_SIZE \in Nat
  BY <1>1, SquareInPicture, SizeAssumption
<1> HIDE DEF p, s
<1>3. p.x + Extent[g] <= CACHE_PICTURE_SIZE /\ p.y + Extent[g] <= CACHE_PICTURE_SIZE
  BY <1>1, <1>2
<1> QED BY <1>3 DEF InPicture, p

(* Cached glyphs lie in the picture, next to each other.                   *)
GlyphsFit ==
  /\ \A g \in Cached : InPicture(g, Pos[priv[g].index])
  /\ ~ behind => \A g, h \in Cached :
       g # h => ~ WritesOver(g, Pos[priv[g].index], h, Pos[priv[h].index])

LEMMA Fit == CacheInv /\ SquaresInv => GlyphsFit
BY GlyphsApart, GlyphInPicture DEF GlyphsFit

LEMMA UploadShown ==
  ASSUME CacheInv, SquaresInv, Shown, CacheInv', SquaresInv', NEW g \in Glyphs,
         NEW uploaded \in BOOLEAN, Cache(g, TRUE), Upload(g, uploaded)
  PROVE  Shown'
<1> SUFFICES ASSUME ~ behind', NEW h \in Cached'
             PROVE  h \in intact' \union failed'
  BY DEF Shown
<1>1. PICK index \in Slots, emptied \in SUBSET Slots : Place(g, index, emptied)
  <2>1. Wanted(g) /\ Size(g) \in GlyphSizes
    BY SizeOfWanted DEF Cache
  <2>2. CASE CacheFresh(g, TRUE)
    BY <2>1, <2>2, HandedSlots DEF CacheFresh, CacheInv
  <2>3. ASSUME NEW e \in Slots, CacheEvict(g, e, TRUE)
        PROVE  \E i \in Slots, emptied \in SUBSET Slots : Place(g, i, emptied)
    BY <2>1, <2>3, MaskedSlots, EvictedProperties DEF CacheEvict
  <2> QED BY <2>2, <2>3 DEF Cache, Evictable
<1>2. Wanted(g) /\ CacheTypeOK
  BY DEF Cache, CacheInv
<1>3. ~ behind
  <2>1. CacheFresh(g, TRUE) => behind' = behind
    BY DEF CacheFresh
  <2>2. \A e : CacheEvict(g, e, TRUE) => (behind => behind')
    BY DEF CacheEvict
  <2> QED BY <2>1, <2>2 DEF Cache
<1>4. h # g => h \in Cached /\ priv'[h] = priv[h]
  BY <1>1, <1>2, PlaceCached
<1>5. h \in Glyphs /\ h \in {f \in Glyphs : priv'[f] # None}
  BY DEF Cached
<1>6. g \in Cached'
  <2>1. priv'[g] = [size |-> Size(g), index |-> index]
    BY <1>1 DEF Place
  <2>2. [size |-> Size(g), index |-> index] # None
    BY <1>2, SizeOfWanted, Counts DEF None
  <2> QED BY <2>1, <2>2 DEF Cached
<1>7. GlyphsFit'
  BY Fit, PTL
<1>8. CASE h = g
  <2>1. CASE uploaded
    <3>1. InPicture(g, Pos[priv'[g].index])
      BY <1>6, <1>7 DEF GlyphsFit, InPicture
    <3> QED BY <1>8, <2>1, <3>1 DEF Upload
  <2>2. CASE ~ uploaded
    BY <1>8, <2>2 DEF Upload
  <2> QED BY <2>1, <2>2
<1>9. CASE h # g
  <2>1. h \in intact \/ h \in failed
    BY <1>3, <1>4, <1>9 DEF Shown
  <2>2. ~ WritesOver(g, Pos[priv'[g].index], h, Pos[priv'[h].index])
    BY <1>6, <1>9, <1>7 DEF GlyphsFit, WritesOver, Apart
  <2> QED BY <1>5, <1>9, <2>1, <2>2 DEF Upload
<1> QED BY <1>8, <1>9

-----------------------------------------------------------------------------
(* Where glyphs come to.                                                   *)

Strings == Seq([off : Int, glyph : Glyphs])

(* The origins of the first n glyphs of a string.                          *)
Origins(s, n, x) ==
  /\ x \in [1 .. n -> Int]
  /\ \A j \in 1 .. n :
       x[j] = s[j].off + IF j = 1 THEN 0 ELSE x[j - 1] + Advance[s[j - 1].glyph]

LEMMA StringOf ==
  ASSUME NEW s \in Strings
  PROVE  /\ Len(s) \in Nat /\ DOMAIN s = 1 .. Len(s)
         /\ \A j \in 1 .. Len(s) :
              /\ s[j].off \in Int /\ s[j].glyph \in Glyphs
              /\ Advance[s[j].glyph] \in Int /\ Left[s[j].glyph] \in Int
              /\ Extent[s[j].glyph] \in Nat
<1> DEFINE R == [off : Int, glyph : Glyphs]
<1>1. s \in Seq(R)
  BY DEF Strings
<1>2. \A r \in R : r.off \in Int /\ r.glyph \in Glyphs
  OBVIOUS
<1> HIDE DEF R
<1>3. Len(s) \in Nat /\ DOMAIN s = 1 .. Len(s) /\ \A j \in 1 .. Len(s) : s[j] \in R
  BY <1>1
<1> QED BY <1>2, <1>3, MetricsAssumption, ExtentAssumption

LEMMA OriginsExist ==
  ASSUME NEW s \in Strings
  PROVE  \A n \in Nat : n <= Len(s) => \E x : Origins(s, n, x)
<1> DEFINE Bad == {n \in Nat : n <= Len(s) /\ ~ \E x : Origins(s, n, x)}
<1> SUFFICES ASSUME Bad # {} PROVE FALSE
  OBVIOUS
<1>1. PICK m \in Bad : \A y \in Bad : m <= y
  BY MinIn
<1>2. m \in Nat /\ m <= Len(s) /\ ~ \E x : Origins(s, m, x)
  OBVIOUS
<1>3. CASE m = 0
  <2>1. Origins(s, 0, [j \in 1 .. 0 |-> 0])
    BY DEF Origins
  <2> QED BY <1>2, <1>3, <2>1
<1>4. CASE m # 0
  <2>1. m - 1 \in Nat /\ ~ (m <= m - 1) /\ m - 1 <= Len(s)
    <3>1. Len(s) \in Nat
      BY StringOf
    <3> QED BY <1>2, <1>4, <3>1
  <2>2. m - 1 \notin Bad
    BY <1>1, <2>1
  <2>3. PICK x : Origins(s, m - 1, x)
    BY <2>1, <2>2
  <2> HIDE DEF Bad
  <2> DEFINE z == s[m].off + IF m = 1 THEN 0 ELSE x[m - 1] + Advance[s[m - 1].glyph]
             y == [j \in 1 .. m |-> IF j = m THEN z ELSE x[j]]
  <2>4. \A j \in 1 .. m - 1 : x[j] \in Int
    BY <2>3 DEF Origins
  <2>5. z \in Int
    <3>1. m \in 1 .. Len(s) /\ s[m].off \in Int
      BY <1>2, <1>4, StringOf
    <3>2. m # 1 => m - 1 \in 1 .. m - 1 /\ m - 1 \in 1 .. Len(s)
      BY <1>2, <1>4, StringOf
    <3>3. m # 1 => x[m - 1] + Advance[s[m - 1].glyph] \in Int
      BY <2>4, <3>2, StringOf
    <3> QED BY <3>1, <3>3
  <2>6. y \in [1 .. m -> Int]
    BY <1>2, <2>4, <2>5
  <2>7. ASSUME NEW j \in 1 .. m
        PROVE  y[j] = s[j].off + IF j = 1 THEN 0 ELSE y[j - 1] + Advance[s[j - 1].glyph]
    <3>1. j # 1 => y[j - 1] = x[j - 1]
      BY <1>2
    <3>2. CASE j = m
      BY <3>1, <3>2
    <3>3. CASE j # m
      <4>1. j \in 1 .. m - 1 /\ y[j] = x[j]
        BY <1>2, <3>3
      <4>2. x[j] = s[j].off + IF j = 1 THEN 0 ELSE x[j - 1] + Advance[s[j - 1].glyph]
        BY <2>3, <4>1 DEF Origins
      <4> QED BY <3>1, <4>1, <4>2
    <3> QED BY <3>2, <3>3
  <2>8. Origins(s, m, y)
    BY <2>6, <2>7 DEF Origins
  <2> QED BY <1>2, <2>8
<1> QED BY <1>3, <1>4

LEMMA PenType ==
  ASSUME NEW s \in Strings, NEW i \in DOMAIN s
  PROVE  Pen(s, i) \in Int
<1> DEFINE P(x) == x = [j \in DOMAIN s |->
                         s[j].off + IF j = 1 THEN 0 ELSE x[j - 1] + Advance[s[j - 1].glyph]]
<1>1. PICK o : P(o)
  <2>1. Len(s) \in Nat /\ DOMAIN s = 1 .. Len(s)
    BY StringOf
  <2>2. PICK o : Origins(s, Len(s), o)
    BY <2>1, OriginsExist
  <2>3. P(o)
    BY <2>1, <2>2 DEF Origins
  <2> QED BY <2>3
<1> DEFINE c == CHOOSE x : P(x)
<1>2. P(c)
  BY <1>1
<1>3. Pen(s, i) = c[i]
  BY DEF Pen
<1> HIDE DEF c
<1>4. Len(s) \in Nat /\ DOMAIN s = 1 .. Len(s)
  BY StringOf
<1>5. \A j \in 1 .. Len(s) :
        c[j] = s[j].off + IF j = 1 THEN 0 ELSE c[j - 1] + Advance[s[j - 1].glyph]
  BY <1>2, <1>4
<1> HIDE DEF P
<1> DEFINE Bad == {j \in Nat : j \in 1 .. Len(s) /\ c[j] \notin Int}
<1>6. Bad = {}
  <2> SUFFICES ASSUME Bad # {} PROVE FALSE
    OBVIOUS
  <2>1. PICK m \in Bad : \A y \in Bad : m <= y
    BY MinIn
  <2>2. m \in 1 .. Len(s) /\ c[m] \notin Int
    OBVIOUS
  <2>3. m # 1 => m - 1 \in 1 .. Len(s) /\ c[m - 1] \in Int
    BY <1>4, <2>1, <2>2
  <2>4. s[m].off \in Int /\ (m # 1 => Advance[s[m - 1].glyph] \in Int)
    BY <2>2, <2>3, StringOf
  <2>5. CASE m = 1
    <3>1. c[m] = s[m].off + 0
      BY <1>5, <2>2, <2>5
    <3> QED BY <2>2, <2>4, <3>1
  <2>6. CASE m # 1
    <3>1. c[m] = s[m].off + (c[m - 1] + Advance[s[m - 1].glyph])
      BY <1>5, <2>2, <2>6
    <3> QED BY <2>2, <2>3, <2>4, <2>6, <3>1
  <2> QED BY <2>5, <2>6
<1>7. i \in Nat /\ i \in 1 .. Len(s)
  BY <1>4
<1> QED BY <1>3, <1>6, <1>7

(* The least and the largest of some integers are among them.              *)
LEMMA LeastOf ==
  ASSUME NEW n \in Nat \ {0}, NEW f, \A j \in 1 .. n : f[j] \in Int
  PROVE  \E i \in 1 .. n : \A j \in 1 .. n : f[i] <= f[j]
<1> DEFINE Least(m) == \E i \in 1 .. m : \A j \in 1 .. m : f[i] <= f[j]
           Bad == {m \in Nat : m # 0 /\ m <= n /\ ~ Least(m)}
<1>1. Bad = {}
  <2> SUFFICES ASSUME Bad # {} PROVE FALSE
    OBVIOUS
  <2>1. PICK m \in Bad : \A y \in Bad : m <= y
    BY MinIn
  <2>2. m \in Nat /\ m # 0 /\ m <= n /\ ~ Least(m)
    OBVIOUS
  <2>3. CASE m = 1
    BY <2>2, <2>3
  <2>4. CASE m # 1
    <3>1. m - 1 \in Nat /\ m - 1 # 0 /\ m - 1 <= n /\ ~ (m <= m - 1)
      BY <2>2, <2>4
    <3>2. Least(m - 1)
      BY <2>1, <3>1
    <3>3. PICK i \in 1 .. m - 1 : \A j \in 1 .. m - 1 : f[i] <= f[j]
      BY <3>2
    <3>4. /\ i \in 1 .. m /\ m \in 1 .. m /\ f[i] \in Int /\ f[m] \in Int
          /\ \A j \in 1 .. m : f[j] \in Int /\ (j \in 1 .. m - 1 \/ j = m)
      BY <2>2, <3>1
    <3>5. CASE f[i] <= f[m]
      BY <2>2, <3>3, <3>4, <3>5
    <3>6. CASE f[m] < f[i]
      <4>1. \A j \in 1 .. m : f[m] <= f[j]
        BY <3>3, <3>4, <3>6
      <4> QED BY <2>2, <3>4, <4>1
    <3> QED BY <3>4, <3>5, <3>6
  <2> QED BY <2>3, <2>4
<1> QED BY <1>1

LEMMA MinMax ==
  ASSUME NEW n \in Nat \ {0}, NEW f, \A j \in 1 .. n : f[j] \in Int
  PROVE  /\ Min({f[j] : j \in 1 .. n}) \in Int /\ Max({f[j] : j \in 1 .. n}) \in Int
         /\ \A j \in 1 .. n : /\ Min({f[k] : k \in 1 .. n}) <= f[j]
                              /\ f[j] <= Max({f[k] : k \in 1 .. n})
<1> DEFINE S == {f[j] : j \in 1 .. n}
           e == [j \in 1 .. n |-> 0 - f[j]]
<1>1. PICK a \in 1 .. n : \A j \in 1 .. n : f[a] <= f[j]
  BY LeastOf
<1>2. PICK b \in 1 .. n : \A j \in 1 .. n : e[b] <= e[j]
  <2>1. \A j \in 1 .. n : e[j] \in Int
    OBVIOUS
  <2> HIDE DEF e
  <2> QED BY <2>1, LeastOf
<1>3. \A j \in 1 .. n : f[j] <= f[b]
  <2> TAKE j \in 1 .. n
  <2>1. e[b] <= e[j] /\ e[b] = 0 - f[b] /\ e[j] = 0 - f[j] /\ f[b] \in Int /\ f[j] \in Int
    BY <1>2
  <2> QED BY <2>1
<1>4. S \subseteq Int /\ f[a] \in S /\ f[b] \in S /\ \A j \in 1 .. n : f[j] \in S
  OBVIOUS
<1>5. (\A y \in S : f[a] <= y) /\ (\A y \in S : f[b] >= y)
  BY <1>1, <1>3
<1> HIDE DEF S
<1>6. Min(S) \in S /\ \A y \in S : Min(S) <= y
  BY <1>4, <1>5 DEF Min
<1>7. Max(S) \in S /\ \A y \in S : Max(S) >= y
  BY <1>4, <1>5 DEF Max
<1>8. \A j \in 1 .. n : Min(S) <= f[j] /\ f[j] <= Max(S)
  BY <1>4, <1>6, <1>7
<1> QED BY <1>4, <1>6, <1>7, <1>8 DEF S

(* The extents of a string are around each of its glyphs.                  *)
LEMMA ExtentsAround ==
  ASSUME NEW s \in Strings, NEW i \in DOMAIN s
  PROVE  /\ GlyphExtents(s).x1 \in Int /\ GlyphExtents(s).x2 \in Int
         /\ Edge(s, i) \in Int /\ Extent[s[i].glyph] \in Nat /\ s[1].off \in Int
         /\ GlyphExtents(s).x1 <= Edge(s, i)
         /\ Edge(s, i) + Extent[s[i].glyph] <= GlyphExtents(s).x2
<1> DEFINE n == Len(s)
           l == [j \in 1 .. n |-> Edge(s, j)]
           r == [j \in 1 .. n |-> Edge(s, j) + Extent[s[j].glyph]]
<1>1. n \in Nat \ {0} /\ DOMAIN s = 1 .. n /\ 1 \in 1 .. n
  BY StringOf
<1>2. \A j \in 1 .. n : Edge(s, j) \in Int /\ Edge(s, j) + Extent[s[j].glyph] \in Int
  <2> TAKE j \in 1 .. n
  <2>1. Pen(s, j) \in Int
    BY <1>1, PenType
  <2> QED BY <2>1, StringOf DEF Edge
<1>3. GlyphExtents(s).x1 = Min({l[j] : j \in 1 .. n}) /\ GlyphExtents(s).x2 = Max({r[j] : j \in 1 .. n})
  <2>1. {l[j] : j \in 1 .. n} = {Edge(s, j) : j \in DOMAIN s}
    BY <1>1
  <2>2. {r[j] : j \in 1 .. n} = {Edge(s, j) + Extent[s[j].glyph] : j \in DOMAIN s}
    BY <1>1
  <2> QED BY <2>1, <2>2 DEF GlyphExtents
<1>4. l[i] = Edge(s, i) /\ r[i] = Edge(s, i) + Extent[s[i].glyph]
  BY <1>1
<1>5. \A j \in 1 .. n : l[j] \in Int /\ r[j] \in Int
  BY <1>2
<1> HIDE DEF l, r
<1>6. /\ Min({l[j] : j \in 1 .. n}) \in Int
      /\ \A j \in 1 .. n : Min({l[k] : k \in 1 .. n}) <= l[j]
  BY <1>1, <1>5, MinMax
<1>7. /\ Max({r[j] : j \in 1 .. n}) \in Int
      /\ \A j \in 1 .. n : r[j] <= Max({r[k] : k \in 1 .. n})
  BY <1>1, <1>5, MinMax
<1>8. s[1].off \in Int /\ Extent[s[i].glyph] \in Nat
  BY <1>1, StringOf
<1> QED BY <1>1, <1>2, <1>3, <1>4, <1>6, <1>7, <1>8

-----------------------------------------------------------------------------
(* The requests.                                                           *)

(* What is left to preload is made of glyphs.                              *)
Inv == TypeOK /\ CacheInv /\ rest \in Seq([off : Int, glyph : Glyphs])

LEMMA HeadGlyph ==
  ASSUME Inv, rest # <<>>
  PROVE  Head(rest).glyph \in Glyphs /\ Tail(rest) \in Seq([off : Int, glyph : Glyphs])
<1>1. Head(rest) \in [off : Int, glyph : Glyphs]
  BY HeadTailProperties DEF Inv
<1> QED BY <1>1, HeadTailProperties DEF Inv

LEMMA InitInv == Init => Inv
<1> SUFFICES ASSUME Init PROVE Inv
  OBVIOUS
<1>1. GLYPH_CACHE_SIZE \in Nat
  BY SizeAssumption, Counts
<1>2. CacheTypeOK
  <2>1. /\ priv = [g \in Glyphs |-> None] /\ glyphs = [i \in Slots |-> NoGlyph]
        /\ count = 0 /\ behind = FALSE
    BY DEF Init, CacheInit
  <2>2. count \in 0 .. GLYPH_CACHE_SIZE
    BY <1>1, <2>1
  <2>3. priv \in [Glyphs -> {None} \union [size : GlyphSizes, index : Slots]]
    BY <2>1
  <2>4. glyphs \in [Slots -> Glyphs \union {NoGlyph}]
    BY <2>1
  <2> QED BY <2>1, <2>2, <2>3, <2>4 DEF CacheTypeOK
<1>3. BackPointers /\ BelowCount
  BY DEF Init, CacheInit, BackPointers, Cached, BelowCount
<1>4. rest \in Seq([off : Int, glyph : Glyphs])
  BY EmptySeq DEF Init
<1>5. TypeOK
  BY <1>2 DEF Init, TypeOK
<1> QED BY <1>2, <1>3, <1>4, <1>5 DEF Inv, CacheInv

(* A step that leaves the cache alone.                                     *)
LEMMA CacheUnchanged ==
  ASSUME CacheInv, UNCHANGED cacheVars
  PROVE  CacheInv'
BY DEF cacheVars, CacheInv, CacheTypeOK, BackPointers, Cached, BelowCount

LEMMA NextInv == Inv /\ [Next]_vars => Inv'
<1> SUFFICES ASSUME Inv, [Next]_vars PROVE Inv'
  OBVIOUS
<1>1. ASSUME NEW r \in Requests, Request(r) PROVE Inv'
  <2>1. CacheInv'
    BY <1>1, CacheUnchanged DEF Request, Inv
  <2> QED BY <1>1, <2>1, RequestAssumption DEF Request, Inv, TypeOK, CacheInv
<1>2. CASE Preloaded
  <2>1. CacheInv'
    BY <1>2, CacheUnchanged DEF Preloaded, Inv
  <2> QED BY <1>2, <2>1, HeadGlyph DEF Preloaded, Inv, TypeOK, CacheInv
<1>3. CASE PreloadTooLarge \/ Accelerated \/ Refused \/ Unaccel \/ Lost
  <2>1. /\ UNCHANGED <<cacheVars, masked, rest, intact, failed>>
        /\ pc' \in {"idle", "preload", "software", "done", "lost"}
    BY <1>3 DEF PreloadTooLarge, Accelerated, Refused, Unaccel, Lost
  <2>2. CacheInv'
    BY <2>1, CacheUnchanged DEF Inv
  <2> QED BY <2>1, <2>2 DEF Inv, TypeOK, CacheInv
<1>4. CASE PreloadFails
  <2>1. CacheInv'
    BY <1>4, HeadGlyph, CacheKeeps DEF PreloadFails, Inv
  <2> QED BY <1>4, <2>1 DEF PreloadFails, Inv, TypeOK, CacheInv
<1>5. ASSUME NEW uploaded \in BOOLEAN, Preload(uploaded) PROVE Inv'
  <2>1. Head(rest).glyph \in Glyphs /\ Tail(rest) \in Seq([off : Int, glyph : Glyphs])
    BY <1>5, HeadGlyph DEF Preload
  <2>2. CacheInv'
    BY <1>5, <2>1, CacheKeeps DEF Preload, Inv
  <2>3. intact' \subseteq Glyphs /\ failed' \subseteq Glyphs
    BY <1>5, <2>1 DEF Preload, Upload, Inv, TypeOK
  <2>4. UNCHANGED <<pc, masked>> /\ rest' = Tail(rest)
    BY <1>5 DEF Preload
  <2> QED BY <2>1, <2>2, <2>3, <2>4 DEF Inv, TypeOK, CacheInv
<1>6. CASE Return
  <2>1. CacheInv'
    BY <1>6, CacheUnchanged DEF Return, Inv
  <2> QED BY <1>6, <2>1, EmptySeq DEF Return, Inv, TypeOK, CacheInv
<1>7. ASSUME NEW g \in Glyphs, UnrealizeGlyph(g) PROVE Inv'
  <2>1. CacheInv'
    BY <1>7, RemoveKeeps DEF UnrealizeGlyph, Inv
  <2>2. /\ UNCHANGED <<pc, masked, rest>>
        /\ intact' \subseteq Glyphs /\ failed' \subseteq Glyphs
    BY <1>7 DEF UnrealizeGlyph, request, Inv, TypeOK
  <2> QED BY <2>1, <2>2 DEF Inv, TypeOK, CacheInv
<1>8. CASE UNCHANGED vars
  <2>1. CacheInv'
    BY <1>8, CacheUnchanged DEF vars, Inv
  <2> QED BY <1>8, <2>1 DEF vars, request, Inv, TypeOK, CacheInv
<1> QED BY <1>1, <1>2, <1>3, <1>4, <1>5, <1>6, <1>7, <1>8 DEF Next

-----------------------------------------------------------------------------
(* What comes to the destination.                                          *)

(* A glyph that comes through a mask around all of them, and one that      *)
(* comes through its own.                                                  *)
InMask(s, i, own) ==
  Seen(s[i].glyph, own, Edge(s, i) - GlyphExtents(s).x1,
       GlyphExtents(s).x2 - GlyphExtents(s).x1, GlyphExtents(s).x1,
       0 + GlyphExtents(s).x1 - s[1].off)
Alone(s, i) ==
  Seen(s[i].glyph, TRUE, 0, Extent[s[i].glyph], Edge(s, i), 0 + Edge(s, i) - s[1].off)

InPlace(s, i, d) ==
  /\ d.glyph = s[i].glyph /\ d.whole
  /\ d.at = Edge(s, i)
  /\ d.source = 0 + Edge(s, i) - s[1].off

LEMMA BothInPlace ==
  ASSUME NEW s \in Strings, NEW i \in DOMAIN s, NEW own
  PROVE  /\ InPlace(s, i, InMask(s, i, own)) /\ InMask(s, i, own).own = own
         /\ InPlace(s, i, Alone(s, i)) /\ Alone(s, i).own = TRUE
<1> DEFINE l == GlyphExtents(s).x1
           r == GlyphExtents(s).x2
           e == Edge(s, i)
           w == Extent[s[i].glyph]
           o == s[1].off
<1>1. l \in Int /\ r \in Int /\ e \in Int /\ w \in Nat /\ o \in Int /\ l <= e /\ e + w <= r
  BY ExtentsAround
<1> DEFINE m == InMask(s, i, own)
           a == Alone(s, i)
<1>2. /\ m.glyph = s[i].glyph /\ m.own = own /\ m.at = l + (e - l)
      /\ m.source = (0 + l - o) + (e - l)
      /\ m.whole = (0 <= e - l /\ (e - l) + w <= r - l)
  BY DEF InMask, Seen
<1>3. /\ a.glyph = s[i].glyph /\ a.own = TRUE /\ a.at = e + 0
      /\ a.source = (0 + e - o) + 0
      /\ a.whole = (0 <= 0 /\ 0 + w <= w)
  BY DEF Alone, Seen
<1> HIDE DEF l, r, w, o, m, a, e
<1>4. /\ 0 <= e - l /\ (e - l) + w <= r - l
      /\ l + (e - l) = e /\ (0 + l - o) + (e - l) = 0 + e - o
  BY <1>1
<1>5. 0 <= 0 /\ 0 + w <= w /\ e + 0 = e /\ (0 + e - o) + 0 = 0 + e - o
  BY <1>1
<1>6. m.whole /\ a.whole
  BY <1>2, <1>3, <1>4, <1>5, Zenon
<1>7. m.at = e /\ m.source = 0 + e - o /\ a.at = e /\ a.source = 0 + e - o
  BY <1>2, <1>3, <1>4, <1>5
<1>8. InPlace(s, i, m) /\ InPlace(s, i, a)
  BY <1>2, <1>3, <1>6, <1>7 DEF InPlace, e, o
<1> QED BY <1>2, <1>3, <1>8 DEF m, a

DrawnInv == SquaresInv /\ Shown /\ string \in Strings /\ GlyphsDrawn

LEMMA InitDrawn == Init => DrawnInv
<1> SUFFICES ASSUME Init PROVE DrawnInv
  OBVIOUS
<1>1. Cached = {}
  BY DEF Init, CacheInit, Cached
<1>2. string \in Strings
  BY EmptySeq DEF Init, Strings
<1>3. pc = "idle"
  BY DEF Init
<1> QED BY <1>1, <1>2, <1>3
        DEF DrawnInv, SquaresInv, Sized, RunsBelow, RunsApart, Shown, GlyphsDrawn

(* Steps that leave alone where the glyphs are.                            *)
LEMMA StillShown ==
  ASSUME SquaresInv, Shown, UNCHANGED <<cacheVars, intact, failed>>
  PROVE  SquaresInv' /\ Shown'
BY DEF cacheVars, SquaresInv, Sized, RunsBelow, RunsApart, RunOf, Run, SizeToCount,
       Aligned, Masked, Cached, Shown

LEMMA DrawnIn ==
  ASSUME Inv, DrawnInv,
         Accelerated \/ Unaccel
  PROVE  GlyphsDrawn'
<1>1. string' = string /\ behind' = behind /\ failed' = failed /\ string \in Strings
  BY DEF Accelerated, Unaccel, cacheVars, DrawnInv
<1>2. \A i \in Visible(string) : i \in DOMAIN string
  BY DEF Visible
<1>3. CASE Accelerated
  <2>1. drawn' = [i \in Visible(string) |-> InMask(string, i, string[i].glyph \in intact)]
    BY <1>3 DEF Accelerated, InMask
  <2>2. ASSUME NEW i \in Visible(string)
        PROVE  /\ InPlace(string, i, drawn'[i])
               /\ drawn'[i].own \/ drawn'[i].glyph \in failed \/ behind
    <3> DEFINE own == string[i].glyph \in intact
    <3>1. drawn'[i] = InMask(string, i, own) /\ i \in DOMAIN string
      BY <1>2, <2>1, <2>2
    <3>2. InPlace(string, i, InMask(string, i, own)) /\ InMask(string, i, own).own = own
      BY <1>1, <3>1, BothInPlace
    <3>3. string[i].glyph \in Cached
      <4>1. i \in 1 .. Len(string) /\ string[i].glyph \in Glyphs
        BY <1>1, <3>1, StringOf
      <4>2. HasPixels(string[i].glyph)
        BY <2>2 DEF Visible
      <4> QED BY <1>3, <3>1, <4>1, <4>2 DEF Accelerated, Assembled, Cached
    <3>4. own \/ string[i].glyph \in failed \/ behind
      BY <3>3 DEF DrawnInv, Shown
    <3>5. drawn'[i].glyph = string[i].glyph
      BY <3>1, <3>2 DEF InPlace
    <3>6. InPlace(string, i, drawn'[i])
      BY <3>1, <3>2
    <3>7. drawn'[i].own = own
      BY <3>1, <3>2
    <3> HIDE DEF own
    <3> QED BY <3>4, <3>5, <3>6, <3>7
  <2>3. DOMAIN drawn' = Visible(string)
    BY <2>1
  <2> QED BY <1>1, <2>2, <2>3 DEF GlyphsDrawn, InPlace
<1>4. CASE Unaccel
  <2>1. drawn' = [i \in Visible(string) |->
                    IF masked THEN InMask(string, i, TRUE) ELSE Alone(string, i)]
    BY <1>4 DEF Unaccel, InMask, Alone
  <2>2. ASSUME NEW i \in Visible(string)
        PROVE  InPlace(string, i, drawn'[i]) /\ drawn'[i].own
    <3>1. i \in DOMAIN string
      BY <1>2, <2>2
    <3>2. /\ InPlace(string, i, InMask(string, i, TRUE)) /\ InMask(string, i, TRUE).own
          /\ InPlace(string, i, Alone(string, i)) /\ Alone(string, i).own
      BY <1>1, <3>1, BothInPlace
    <3> QED BY <2>1, <2>2, <3>2
  <2>3. DOMAIN drawn' = Visible(string)
    BY <2>1
  <2> QED BY <1>1, <2>2, <2>3 DEF GlyphsDrawn, InPlace
<1> QED BY <1>3, <1>4

LEMMA NextDrawn == Inv /\ Inv' /\ DrawnInv /\ [Next]_vars => DrawnInv'
<1> SUFFICES ASSUME Inv, Inv', DrawnInv, [Next]_vars PROVE DrawnInv'
  OBVIOUS
<1>1. ASSUME NEW r \in Requests, Request(r) PROVE DrawnInv'
  <2>1. SquaresInv' /\ Shown'
    BY <1>1, StillShown DEF Request, DrawnInv
  <2>2. string' \in Strings /\ pc' # "done"
    BY <1>1, RequestAssumption DEF Request, Strings
  <2> QED BY <2>1, <2>2 DEF DrawnInv, GlyphsDrawn
<1>2. CASE Preloaded \/ PreloadTooLarge \/ Refused \/ Lost
  <2>1. SquaresInv' /\ Shown'
    BY <1>2, StillShown DEF Preloaded, PreloadTooLarge, Refused, Lost, DrawnInv
  <2>2. string' = string /\ pc' # "done"
    BY <1>2 DEF Preloaded, PreloadTooLarge, Refused, Lost
  <2> QED BY <2>1, <2>2 DEF DrawnInv, GlyphsDrawn
<1>3. CASE Return
  <2>1. SquaresInv' /\ Shown'
    BY <1>3, StillShown DEF Return, DrawnInv
  <2>2. string' \in Strings /\ pc' # "done"
    BY <1>3, EmptySeq DEF Return, Strings
  <2> QED BY <2>1, <2>2 DEF DrawnInv, GlyphsDrawn
<1>4. CASE PreloadFails
  <2> DEFINE g == Head(rest).glyph
  <2>1. g \in Glyphs /\ Cache(g, FALSE)
    BY <1>4, HeadGlyph DEF PreloadFails
  <2>2. SquaresInv'
    BY <2>1, CacheSquares DEF Inv, DrawnInv
  <2> HIDE DEF g
  <2>3. priv' = priv /\ behind' = behind
    BY <2>1 DEF Cache, CacheFresh, CacheEvict
  <2>4. string' = string /\ pc' # "done" /\ intact' = intact /\ failed' = failed
    BY <1>4 DEF PreloadFails
  <2>5. Shown'
    BY <2>3, <2>4 DEF DrawnInv, Shown, Cached
  <2> QED BY <2>2, <2>4, <2>5 DEF DrawnInv, GlyphsDrawn
<1>5. ASSUME NEW uploaded \in BOOLEAN, Preload(uploaded) PROVE DrawnInv'
  <2> DEFINE g == Head(rest).glyph
  <2>1. g \in Glyphs /\ Cache(g, TRUE) /\ Upload(g, uploaded)
    BY <1>5, HeadGlyph DEF Preload
  <2> HIDE DEF g
  <2>2. SquaresInv'
    BY <2>1, CacheSquares DEF Inv, DrawnInv
  <2>3. Shown'
    BY <2>1, <2>2, UploadShown DEF Inv, DrawnInv
  <2>4. string' = string /\ pc' # "done"
    BY <1>5 DEF Preload
  <2> QED BY <2>2, <2>3, <2>4 DEF DrawnInv, GlyphsDrawn
<1>6. CASE Accelerated \/ Unaccel
  <2>1. SquaresInv' /\ Shown'
    BY <1>6, StillShown DEF Accelerated, Unaccel, DrawnInv
  <2>2. string' = string
    BY <1>6 DEF Accelerated, Unaccel
  <2>3. GlyphsDrawn'
    BY <1>6, DrawnIn
  <2> QED BY <2>1, <2>2, <2>3 DEF DrawnInv
<1>7. ASSUME NEW g \in Glyphs, UnrealizeGlyph(g) PROVE DrawnInv'
  <2>1. /\ Remove(g) /\ intact' = intact \ {g} /\ failed' = failed \ {g}
        /\ string' = string /\ pc' # "done"
    BY <1>7 DEF UnrealizeGlyph, request
  <2>2. SquaresInv'
    BY <2>1, RemoveSquares DEF Inv, DrawnInv
  <2>3. behind' = behind /\ \A h \in Cached' : h \in Cached /\ h # g
    BY <2>1 DEF Remove, Cached, Inv, CacheInv, CacheTypeOK
  <2>4. Shown'
    BY <2>1, <2>3 DEF DrawnInv, Shown
  <2> QED BY <2>1, <2>2, <2>4 DEF DrawnInv, GlyphsDrawn
<1>8. CASE UNCHANGED vars
  <2>1. SquaresInv' /\ Shown'
    BY <1>8, StillShown DEF vars, DrawnInv
  <2>2. UNCHANGED <<pc, string, drawn, failed, behind>>
    BY <1>8 DEF vars, request, cacheVars
  <2>3. GlyphsDrawn'
    BY <2>2 DEF DrawnInv, GlyphsDrawn
  <2>4. string' \in Strings
    BY <2>2 DEF DrawnInv
  <2> QED BY <2>1, <2>3, <2>4 DEF DrawnInv
<1> QED BY <1>1, <1>2, <1>3, <1>4, <1>5, <1>6, <1>7, <1>8 DEF Next

-----------------------------------------------------------------------------
THEOREM InvCorrect == Spec => []Inv
BY InitInv, NextInv, PTL DEF Spec

(* However glyphs are cached, pushed out and freed, and whether there was  *)
(* memory or not: the slot of a cached glyph names it, and each slot that  *)
(* names a glyph is that glyph's own (glyph_cache.c).                      *)
THEOREM BackPointersCorrect == Spec => []BackPointers
<1>1. Inv => BackPointers
  BY DEF Inv, CacheInv
<1> QED BY <1>1, InvCorrect, PTL

(* No glyph starts behind the slots that were handed out, where it would   *)
(* be written over without being pushed out: only the rest of its square   *)
(* may be there (glyph_cache.c:239, :269).                                 *)
THEOREM BelowCountCorrect == Spec => []BelowCount
<1>1. Inv => BelowCount
  BY DEF Inv, CacheInv
<1> QED BY <1>1, InvCorrect, PTL

(* Every glyph of a request comes to its pen position in full, with the    *)
(* part of the source that belongs there and its own pixels, through       *)
(* whatever the cache pushed out, wrote over or could not find memory for, *)
(* whether the engine drew it or the server (etnaviv_Glyphs); granted are  *)
(* a failed upload, and a glyph behind the slots that were handed out.     *)
THEOREM GlyphsDrawnCorrect == Spec => []GlyphsDrawn
<1>1. Init => Inv /\ DrawnInv
  BY InitInv, InitDrawn
<1>2. Inv /\ DrawnInv /\ [Next]_vars => (Inv /\ DrawnInv)'
  BY NextInv, NextDrawn
<1>3. Inv /\ DrawnInv => GlyphsDrawn
  BY DEF DrawnInv
<1> QED BY <1>1, <1>2, <1>3, PTL DEF Spec

(* As long as no glyph was put behind the count, the squares of two glyphs *)
(* of the cache have no slot in common (glyph_cache.c:250, :291).          *)
THEOREM RunsApartCorrect == Spec => [](~ behind => RunsApart)
<1>1. Init => Inv /\ DrawnInv
  BY InitInv, InitDrawn
<1>2. Inv /\ DrawnInv /\ [Next]_vars => (Inv /\ DrawnInv)'
  BY NextInv, NextDrawn
<1>3. Inv /\ DrawnInv => (~ behind => RunsApart)
  BY DEF DrawnInv, SquaresInv
<1> QED BY <1>1, <1>2, <1>3, PTL DEF Spec

=============================================================================
