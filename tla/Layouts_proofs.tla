--------------------------- MODULE Layouts_proofs ---------------------------
(***************************************************************************)
(* Where numbers are put and where they are looked for: the rows of the KV *)
(* cache (kv_cache_write, whatever the order of its threads), what         *)
(* flash_attention makes of them, for every size of wave, tile, head and   *)
(* context, and the bits of the packed blocks of the quantised formats.    *)
(***************************************************************************)
EXTENDS FlashAttention, BlockFormats, SequenceTheorems, TLAPS

-----------------------------------------------------------------------------
(* Arithmetic: quotients, remainders and numbers written in mixed radix.   *)
LEMMA MulLess ==
  ASSUME NEW a \in Nat, NEW b \in Nat, NEW n \in Nat \ {0}
  PROVE  /\ a < b => a * n + n <= b * n
         /\ a <= b => a * n <= b * n
         /\ a * n \in Nat
<1>1. ASSUME NEW c \in Nat, NEW k \in Nat PROVE c * k \in Nat
  BY <1>1
<1>2. CASE a <= b
  <2>1. (b - a) * n \in Nat
    BY <1>1, <1>2
  <2>2. b * n = a * n + (b - a) * n
    BY <1>2
  <2>3. a < b => (b - a - 1) * n \in Nat /\ (b - a) * n = (b - a - 1) * n + n
    BY <1>1
  <2> QED BY <1>1, <2>1, <2>2, <2>3
<1> QED BY <1>1, <1>2

LEMMA Quotient ==
  ASSUME NEW p \in Nat, NEW n \in Nat \ {0}
  PROVE  /\ p \div n \in Nat /\ p % n \in 0 .. n - 1
         /\ p = (p \div n) * n + (p % n)
  OBVIOUS

(* The digits of a number are determined by it.                            *)
LEMMA Digits ==
  ASSUME NEW n \in Nat \ {0}, NEW a \in Nat, NEW b \in Nat,
         NEW r \in 0 .. n - 1, NEW s \in 0 .. n - 1, a * n + r = b * n + s
  PROVE  a = b /\ r = s
<1>1. ~(a < b) /\ ~(b < a)
  BY MulLess
<1> QED BY <1>1

LEMMA QuotientOf ==
  ASSUME NEW n \in Nat \ {0}, NEW a \in Nat, NEW r \in 0 .. n - 1
  PROVE  (a * n + r) \div n = a /\ (a * n + r) % n = r
<1>1. a * n + r \in Nat
  BY MulLess
<1> DEFINE x == a * n + r
<1> HIDE DEF x
<1>2. x \in Nat
  BY <1>1 DEF x
<1>3. x \div n \in Nat /\ x % n \in 0 .. n - 1 /\ x = (x \div n) * n + (x % n)
  BY <1>2, Quotient
<1>4. x = a * n + r
  BY DEF x
<1>5. x \div n = a /\ x % n = r
  BY <1>3, <1>4, Digits
<1> QED BY <1>5 DEF x

-----------------------------------------------------------------------------
(* The layout: the stride of a head, and in it a number whose digits are   *)
(* the tile, the dimension and the place in the tile.                      *)
Places == 0 .. MaxSeq - 1

(* n rows end with a tile within the stride, or no other head follows.     *)
Within(n) == n <= (MaxSeq \div Tile) * Tile
Fits(n)   == Within(n) \/ KvHeads = 1

LEMMA PlaceDigits ==
  ASSUME NEW p \in Places
  PROVE  /\ p \in Nat /\ p \div Tile \in Nat /\ p % Tile \in 0 .. Tile - 1
         /\ p = (p \div Tile) * Tile + (p % Tile)
<1>1. MaxSeq \in Nat /\ Tile \in Nat \ {0} /\ p \in Nat
  BY LayoutAssumption DEF Places
<1> QED BY <1>1, Quotient

LEMMA ReadIndexDigits ==
  ASSUME NEW p \in Places, NEW d \in Dims
  PROVE  /\ ReadIndex(p, d) = ((p \div Tile) * HeadDim + d) * Tile + (p % Tile)
         /\ ReadIndex(p, d) \in Nat
<1> DEFINE q == p \div Tile
           o == p % Tile
<1>1. d \in Nat /\ HeadDim \in Nat \ {0} /\ Tile \in Nat \ {0}
  BY LayoutAssumption DEF Dims
<1>2. q \in Nat /\ o \in Nat
  BY PlaceDigits, LayoutAssumption
<1>3. ReadIndex(p, d) = q * Tile * HeadDim + d * Tile + o
  BY DEF ReadIndex
<1> HIDE DEF q, o
<1>5. q * HeadDim + d \in Nat
  BY <1>1, <1>2, MulLess
<1>4. q * Tile * HeadDim + d * Tile + o = (q * HeadDim + d) * Tile + o
  BY <1>1, <1>2
<1>6. (q * HeadDim + d) * Tile + o \in Nat
  BY <1>1, <1>2, <1>5, MulLess
<1> QED BY <1>3, <1>4, <1>6 DEF q, o

(* Within a head no two elements share an index.                           *)
LEMMA ReadIndexApart ==
  ASSUME NEW p1 \in Places, NEW d1 \in Dims, NEW p2 \in Places, NEW d2 \in Dims,
         ReadIndex(p1, d1) = ReadIndex(p2, d2)
  PROVE  p1 = p2 /\ d1 = d2
<1> DEFINE q1 == p1 \div Tile
           q2 == p2 \div Tile
<1>1. /\ Tile \in Nat \ {0} /\ HeadDim \in Nat \ {0}
      /\ d1 \in 0 .. HeadDim - 1 /\ d2 \in 0 .. HeadDim - 1
  BY LayoutAssumption DEF Dims
<1>2. /\ p1 % Tile \in 0 .. Tile - 1 /\ p2 % Tile \in 0 .. Tile - 1
      /\ q1 \in Nat /\ q2 \in Nat
      /\ (q1 * HeadDim + d1) * Tile + (p1 % Tile) = (q2 * HeadDim + d2) * Tile + (p2 % Tile)
  BY PlaceDigits, ReadIndexDigits
<1> HIDE DEF q1, q2
<1>3. q1 * HeadDim + d1 \in Nat /\ q2 * HeadDim + d2 \in Nat
  BY <1>1, <1>2, MulLess
<1>4. q1 * HeadDim + d1 = q2 * HeadDim + d2 /\ p1 % Tile = p2 % Tile
  BY <1>1, <1>2, <1>3, Digits
<1>5. q1 = q2 /\ d1 = d2
  BY <1>1, <1>2, <1>4, Digits
<1> QED BY <1>4, <1>5, PlaceDigits DEF q1, q2

Stride == MaxSeq * HeadDim

LEMMA StrideIs == Stride \in Nat \ {0}
<1>1. MaxSeq \in Nat /\ HeadDim \in Nat \ {0} /\ 1 <= MaxSeq
  BY LayoutAssumption
<1>2. MaxSeq * HeadDim \in Nat /\ 0 * HeadDim + HeadDim <= MaxSeq * HeadDim
  BY <1>1, MulLess
<1> QED BY <1>1, <1>2 DEF Stride

(* The tiles that are whole lie within the stride of their head.           *)
LEMMA ReadIndexWithin ==
  ASSUME NEW p \in Places, Within(p + 1), NEW d \in Dims
  PROVE  ReadIndex(p, d) \in 0 .. Stride - 1
<1> DEFINE q == p \div Tile
           k == MaxSeq \div Tile
           x == q * HeadDim + d
           y == k * HeadDim
<1>1. /\ Tile \in Nat \ {0} /\ HeadDim \in Nat \ {0} /\ MaxSeq \in Nat
      /\ d \in 0 .. HeadDim - 1 /\ p \in Nat
  BY LayoutAssumption DEF Dims, Places
<1>2. k \in Nat /\ MaxSeq = k * Tile + (MaxSeq % Tile) /\ MaxSeq % Tile \in Nat
  <2>1. MaxSeq % Tile \in 0 .. Tile - 1 /\ k \in Nat /\ MaxSeq = k * Tile + (MaxSeq % Tile)
    BY <1>1, Quotient
  <2> HIDE DEF k
  <2> QED BY <1>1, <2>1
<1>3. /\ q \in Nat /\ p % Tile \in 0 .. Tile - 1 /\ p = q * Tile + (p % Tile)
      /\ p < k * Tile
  <2>1. k * Tile \in Nat
    <3> HIDE DEF k
    <3> QED BY <1>1, <1>2, MulLess
  <2> QED BY <1>1, <2>1, PlaceDigits DEF Within
<1>4. ReadIndex(p, d) = x * Tile + (p % Tile) /\ ReadIndex(p, d) \in Nat
  BY ReadIndexDigits
<1> HIDE DEF q, k
<1>5. q < k
  <2>1. q * Tile \in Nat /\ k * Tile \in Nat
    BY <1>1, <1>2, <1>3, MulLess
  <2>2. ~(k <= q)
    BY <1>1, <1>2, <1>3, <2>1, MulLess
  <2> QED BY <1>2, <1>3, <2>2
<1>6. x \in Nat /\ y \in Nat /\ x < y
  <2>1. q * HeadDim + HeadDim <= k * HeadDim /\ q * HeadDim \in Nat /\ k * HeadDim \in Nat
    BY <1>1, <1>2, <1>3, <1>5, MulLess
  <2> QED BY <1>1, <2>1
<1> HIDE DEF x
<1>7. x * Tile + Tile <= y * Tile /\ x * Tile \in Nat /\ y * Tile \in Nat
  <2> HIDE DEF y
  <2> QED BY <1>1, <1>6, MulLess
<1>8. y * Tile <= Stride
  <2>1. k * Tile \in Nat /\ k * Tile <= MaxSeq
    BY <1>1, <1>2, MulLess
  <2>2. (k * Tile) * HeadDim <= MaxSeq * HeadDim
    BY <1>1, <2>1, MulLess
  <2>3. y * Tile = (k * Tile) * HeadDim
    BY <1>1, <1>2 DEF y
  <2> QED BY <2>2, <2>3 DEF Stride
<1>9. Stride \in Nat
  BY StrideIs
<1> HIDE DEF y
<1> QED BY <1>1, <1>3, <1>4, <1>7, <1>8, <1>9

LEMMA WriteIndexIs ==
  ASSUME NEW h \in Heads, NEW p \in Places, NEW d \in Dims
  PROVE  WriteIndex(h, p, d) = h * Stride + ReadIndex(p, d)
<1> DEFINE s == (p \div Tile) * Tile * HeadDim
           o == p % Tile
<1>1. /\ h \in Nat /\ MaxSeq \in Nat /\ HeadDim \in Nat \ {0} /\ Tile \in Nat \ {0}
      /\ d \in Nat
  BY LayoutAssumption DEF Heads, Dims
<1>2. s \in Nat /\ o \in Nat /\ d * Tile \in Nat
  <2> DEFINE q == p \div Tile
  <2>1. q \in Nat /\ o \in Nat
    BY <1>1, PlaceDigits
  <2> HIDE DEF q
  <2>2. q * Tile \in Nat /\ d * Tile \in Nat
    BY <1>1, <2>1, MulLess
  <2>3. q * Tile * HeadDim \in Nat
    BY <1>1, <2>2, MulLess
  <2> QED BY <2>1, <2>2, <2>3 DEF q
<1>3. /\ WriteIndex(h, p, d) = h * MaxSeq * HeadDim + s + d * Tile + o
      /\ ReadIndex(p, d) = s + d * Tile + o
  BY DEF WriteIndex, ReadIndex
<1> HIDE DEF s, o
<1>4. h * MaxSeq * HeadDim = h * Stride
  BY <1>1 DEF Stride
<1>5. h * Stride \in Nat
  BY <1>1, StrideIs, MulLess
<1> QED BY <1>2, <1>3, <1>4, <1>5

(* No two elements of the cache share an index.                            *)
LEMMA IndexApart ==
  ASSUME NEW h1 \in Heads, NEW p1 \in Places, NEW d1 \in Dims, Fits(p1 + 1),
         NEW h2 \in Heads, NEW p2 \in Places, NEW d2 \in Dims, Fits(p2 + 1),
         WriteIndex(h1, p1, d1) = WriteIndex(h2, p2, d2)
  PROVE  h1 = h2 /\ p1 = p2 /\ d1 = d2
<1>1. h1 * Stride + ReadIndex(p1, d1) = h2 * Stride + ReadIndex(p2, d2)
  BY WriteIndexIs
<1>2. h1 = h2 /\ ReadIndex(p1, d1) = ReadIndex(p2, d2)
  <2>1. CASE KvHeads = 1
    <3>1. h1 = 0 /\ h2 = 0 /\ 0 * Stride = 0
      BY <2>1, StrideIs DEF Heads
    <3>2. ReadIndex(p1, d1) \in Nat /\ ReadIndex(p2, d2) \in Nat
      BY ReadIndexDigits
    <3> QED BY <1>1, <3>1, <3>2
  <2>2. CASE KvHeads # 1
    <3>1. Within(p1 + 1) /\ Within(p2 + 1)
      BY <2>2 DEF Fits
    <3>2. ReadIndex(p1, d1) \in 0 .. Stride - 1 /\ ReadIndex(p2, d2) \in 0 .. Stride - 1
      BY <3>1, ReadIndexWithin
    <3>3. h1 \in Nat /\ h2 \in Nat
      BY DEF Heads
    <3> QED BY <1>1, <3>2, <3>3, StrideIs, Digits
  <2> QED BY <2>1, <2>2
<1> QED BY <1>2, ReadIndexApart

(* The indices of whole tiles are in the buffer.                           *)
LEMMA IndexInBuffer ==
  ASSUME NEW h \in Heads, NEW p \in Places, Within(p + 1), NEW d \in Dims
  PROVE  WriteIndex(h, p, d) < BufferSize
<1>1. h \in Nat /\ KvHeads \in Nat /\ h < KvHeads /\ MaxSeq \in Nat /\ HeadDim \in Nat
  BY LayoutAssumption DEF Heads
<1>2. h * Stride + Stride <= KvHeads * Stride /\ h * Stride \in Nat /\ KvHeads * Stride \in Nat
  BY <1>1, StrideIs, MulLess
<1>3. ReadIndex(p, d) \in 0 .. Stride - 1 /\ Stride \in Nat
  BY ReadIndexWithin, StrideIs
<1>4. WriteIndex(h, p, d) < KvHeads * Stride
  BY <1>2, <1>3, WriteIndexIs
<1>5. BufferSize = KvHeads * Stride
  BY <1>1 DEF BufferSize, Stride
<1> QED BY <1>4, <1>5

-----------------------------------------------------------------------------
(* kv_cache_write.  Thread <<c, n>> has written the elements n, n + Wave,  *)
(* n + 2 * Wave, ... it has passed, of the row pos.                        *)
Holds(b, h, p, d) == LET i == WriteIndex(h, p, d)
                     IN  i \in DOMAIN b /\ b[i] = <<h, p, d>>

Turns(t, k) == t[2] + k * Wave     \* the element of turn k of thread t

Thread(b, p, t, e) ==              \* thread t, in row p, is at element e
  /\ t[2] \in 0 .. Wave - 1
  /\ \E m \in Nat :
       /\ e = Turns(t, m)
       /\ Fits(p + 1) => \A k \in Nat : k < m /\ Turns(t, k) < Elements =>
            Holds(b, Turns(t, k) \div HeadDim, p, Turns(t, k) % HeadDim)

(* The first n rows, m of which are written completely.                    *)
Buffer(b, n) == \A i \in DOMAIN b : \E h \in Heads, p \in Places, d \in Dims :
                                     p < n /\ i = WriteIndex(h, p, d)
WrittenRows(b, m, n) ==
  Fits(n) => \A p \in 0 .. m - 1, h \in Heads, d \in Dims : Holds(b, h, p, d)

Dispatched ==
  threads # << >> =>
    /\ pos < MaxSeq
    /\ \A n \in 0 .. Wave - 1 : <<0, n>> \in DOMAIN threads
    /\ \A t \in DOMAIN threads : Thread(kvBuffer, pos, t, threads[t])

KvInv ==
  /\ pos \in 0 .. MaxSeq
  /\ Buffer(kvBuffer, Begun)
  /\ WrittenRows(kvBuffer, pos, Begun)
  /\ Dispatched

LEMMA FewerFit ==
  ASSUME NEW m \in Nat, NEW n \in Nat, m <= n
  PROVE  (Within(n) => Within(m)) /\ (Fits(n) => Fits(m))
<1> DEFINE w == (MaxSeq \div Tile) * Tile
<1>1. w \in Nat
  <2>1. MaxSeq \div Tile \in Nat /\ Tile \in Nat \ {0}
    BY LayoutAssumption, Quotient
  <2> QED BY <2>1, MulLess
<1> HIDE DEF w
<1>2. n <= w => m <= w
  BY <1>1
<1> QED BY <1>2 DEF Within, Fits, w

(* The elements of a row are the pairs of a head and a dimension.          *)
LEMMA ElementDigits ==
  ASSUME NEW e \in Nat, e < Elements
  PROVE  e \div HeadDim \in Heads /\ e % HeadDim \in Dims
<1> DEFINE q == e \div HeadDim
<1>1. HeadDim \in Nat \ {0} /\ KvHeads \in Nat \ {0}
  BY LayoutAssumption
<1>2. q \in Nat /\ e % HeadDim \in 0 .. HeadDim - 1 /\ e = q * HeadDim + (e % HeadDim)
  BY <1>1, Quotient
<1> HIDE DEF q
<1>3. q * HeadDim < KvHeads * HeadDim /\ q * HeadDim \in Nat /\ KvHeads * HeadDim \in Nat
  BY <1>1, <1>2, MulLess DEF Elements
<1>4. ~(KvHeads <= q)
  BY <1>1, <1>2, <1>3, MulLess
<1> QED BY <1>1, <1>2, <1>4 DEF Heads, Dims, q

LEMMA ElementOf ==
  ASSUME NEW h \in Heads, NEW d \in Dims
  PROVE  /\ h * HeadDim + d \in Nat /\ h * HeadDim + d < Elements
         /\ (h * HeadDim + d) \div HeadDim = h
         /\ (h * HeadDim + d) % HeadDim = d
<1>1. /\ HeadDim \in Nat \ {0} /\ KvHeads \in Nat \ {0} /\ h \in Nat /\ h < KvHeads
      /\ d \in 0 .. HeadDim - 1
  BY LayoutAssumption DEF Heads, Dims
<1>2. h * HeadDim + HeadDim <= KvHeads * HeadDim /\ h * HeadDim \in Nat
  BY <1>1, MulLess
<1>3. KvHeads * HeadDim \in Nat
  BY <1>1, MulLess
<1> QED BY <1>1, <1>2, <1>3, QuotientOf DEF Elements

LEMMA KvInitInv == KvInit => KvInv
  BY LayoutAssumption DEF KvInit, KvInv, Buffer, WrittenRows, Dispatched, Begun

Stored(b, h, p, d) ==
  LET j == WriteIndex(h, p, d)
  IN  [i \in DOMAIN b \cup {j} |-> IF i = j THEN <<h, p, d>> ELSE b[i]]

(* A write leaves what the buffer holds alone.                             *)
LEMMA HoldsKept ==
  ASSUME NEW b,
         NEW h \in Heads, NEW p \in Places, NEW d \in Dims, Fits(p + 1),
         NEW h1 \in Heads, NEW p1 \in Places, NEW d1 \in Dims, Fits(p1 + 1)
  PROVE  /\ Holds(Stored(b, h1, p1, d1), h1, p1, d1)
         /\ Holds(b, h, p, d) => Holds(Stored(b, h1, p1, d1), h, p, d)
<1> DEFINE i0 == WriteIndex(h, p, d)
           i1 == WriteIndex(h1, p1, d1)
           b1 == Stored(b, h1, p1, d1)
<1>1. i0 = i1 => <<h, p, d>> = <<h1, p1, d1>>
  BY IndexApart
<1>2. /\ Holds(b, h, p, d) <=> i0 \in DOMAIN b /\ b[i0] = <<h, p, d>>
      /\ Holds(b1, h, p, d) <=> i0 \in DOMAIN b1 /\ b1[i0] = <<h, p, d>>
      /\ Holds(b1, h1, p1, d1) <=> i1 \in DOMAIN b1 /\ b1[i1] = <<h1, p1, d1>>
  BY DEF Holds
<1>3. /\ DOMAIN b1 = DOMAIN b \cup {i1}
      /\ b1[i1] = <<h1, p1, d1>>
      /\ \A i \in DOMAIN b : i # i1 => b1[i] = b[i]
  BY DEF Stored
<1> HIDE DEF i0, i1, b1
<1> QED BY <1>1, <1>2, <1>3 DEF b1

(* ... and so a turn of one thread what the others have done.              *)
LEMMA ThreadKept ==
  ASSUME NEW b, NEW p \in Places, NEW t, NEW e, Thread(b, p, t, e),
         NEW h1 \in Heads, NEW d1 \in Dims
  PROVE  Thread(Stored(b, h1, p, d1), p, t, e)
<1> DEFINE b1 == Stored(b, h1, p, d1)
<1>1. PICK m \in Nat :
        /\ e = Turns(t, m)
        /\ Fits(p + 1) => \A k \in Nat : k < m /\ Turns(t, k) < Elements =>
             Holds(b, Turns(t, k) \div HeadDim, p, Turns(t, k) % HeadDim)
  BY DEF Thread
<1>2. ASSUME Fits(p + 1), NEW k \in Nat, k < m, Turns(t, k) < Elements
      PROVE  Holds(b1, Turns(t, k) \div HeadDim, p, Turns(t, k) % HeadDim)
  <2>1. Turns(t, k) \in Nat
    BY LayoutAssumption, MulLess DEF Thread, Turns
  <2>2. Turns(t, k) \div HeadDim \in Heads /\ Turns(t, k) % HeadDim \in Dims
    BY <1>2, <2>1, ElementDigits
  <2>3. Holds(b, Turns(t, k) \div HeadDim, p, Turns(t, k) % HeadDim)
    BY <1>1, <1>2
  <2> QED BY <1>2, <2>2, <2>3, HoldsKept
<1> QED BY <1>1, <1>2 DEF Thread

LEMMA ThreadTurn ==
  ASSUME NEW b, NEW p \in Places, NEW t, NEW e, Thread(b, p, t, e), e < Elements
  PROVE  /\ e \div HeadDim \in Heads /\ e % HeadDim \in Dims
         /\ Thread(Stored(b, e \div HeadDim, p, e % HeadDim), p, t, e + Wave)
<1> DEFINE h1 == e \div HeadDim
           d1 == e % HeadDim
           b1 == Stored(b, h1, p, d1)
<1>1. PICK m \in Nat :
        /\ e = Turns(t, m)
        /\ Fits(p + 1) => \A k \in Nat : k < m /\ Turns(t, k) < Elements =>
             Holds(b, Turns(t, k) \div HeadDim, p, Turns(t, k) % HeadDim)
  BY DEF Thread
<1>2. e \in Nat /\ t[2] \in 0 .. Wave - 1
  BY <1>1, LayoutAssumption, MulLess DEF Thread, Turns
<1>3. h1 \in Heads /\ d1 \in Dims
  BY <1>2, ElementDigits
<1>4. e + Wave = Turns(t, m + 1)
  BY <1>1, <1>2, LayoutAssumption DEF Turns
<1>5. ASSUME Fits(p + 1), NEW k \in Nat, k < m + 1, Turns(t, k) < Elements
      PROVE  Holds(b1, Turns(t, k) \div HeadDim, p, Turns(t, k) % HeadDim)
  <2>1. CASE k = m
    BY <1>1, <1>3, <1>5, <2>1, HoldsKept
  <2>2. CASE k < m
    <3>1. Turns(t, k) \in Nat
      BY LayoutAssumption, MulLess DEF Thread, Turns
    <3>2. Turns(t, k) \div HeadDim \in Heads /\ Turns(t, k) % HeadDim \in Dims
      BY <1>5, <3>1, ElementDigits
    <3>3. Holds(b, Turns(t, k) \div HeadDim, p, Turns(t, k) % HeadDim)
      BY <1>1, <1>5, <2>2
    <3> QED BY <1>3, <1>5, <3>2, <3>3, HoldsKept
  <2> QED BY <1>5, <2>1, <2>2
<1>6. Thread(b1, p, t, e + Wave)
  <2> HIDE DEF b1
  <2> QED BY <1>2, <1>4, <1>5 DEF Thread
<1> QED BY <1>3, <1>6

LEMMA DispatchInv == KvInv /\ DispatchKvCacheWrite => KvInv'
<1> SUFFICES ASSUME KvInv, DispatchKvCacheWrite PROVE KvInv'
  OBVIOUS
<1> DEFINE new == Workgroups \X (0 .. Wave - 1)
<1>1. /\ threads' = [t \in new |-> t[2]] /\ pos < MaxSeq
      /\ pos' = pos /\ kvBuffer' = kvBuffer
  BY DEF DispatchKvCacheWrite
<1>2. ASSUME NEW n \in 0 .. Wave - 1 PROVE <<0, n>> \in new
  <2> DEFINE e == Elements + Wave - 1
             q == e \div Wave
  <2>1. Elements \in Nat \ {0} /\ Wave \in Nat \ {0}
    <3>1. KvHeads \in Nat \ {0} /\ HeadDim \in Nat \ {0}
      BY LayoutAssumption
    <3>2. KvHeads * HeadDim \in Nat /\ 0 * HeadDim + HeadDim <= KvHeads * HeadDim
      BY <3>1, MulLess
    <3> QED BY <3>1, <3>2, LayoutAssumption DEF Elements
  <2>2. e \in Nat /\ e >= Wave
    BY <2>1
  <2> HIDE DEF e
  <2>3. q \in Nat /\ e % Wave \in 0 .. Wave - 1 /\ e = q * Wave + (e % Wave)
    BY <2>1, <2>2, Quotient
  <2> HIDE DEF q
  <2>4. q # 0
    BY <2>1, <2>2, <2>3
  <2>5. Workgroups = 0 .. q - 1
    BY DEF Workgroups, q, e
  <2> QED BY <2>3, <2>4, <2>5
<1>3. ASSUME NEW t \in new PROVE Thread(kvBuffer, pos, t, t[2])
  <2>1. t[2] \in 0 .. Wave - 1 /\ t[2] = Turns(t, 0)
    BY LayoutAssumption DEF Turns
  <2>2. \A k \in Nat : ~(k < 0)
    OBVIOUS
  <2>3. 0 \in Nat
    OBVIOUS
  <2> QED BY <2>1, <2>2, <2>3 DEF Thread
<1> HIDE DEF new
<1>4. Dispatched'
  <2>1. DOMAIN threads' = new /\ \A t \in new : threads'[t] = t[2]
    BY <1>1
  <2>2. \A t \in DOMAIN threads' : Thread(kvBuffer', pos', t, threads'[t])
    BY <1>1, <1>3, <2>1
  <2> QED BY <1>1, <1>2, <2>1, <2>2 DEF Dispatched
<1>5. Begun = pos /\ Begun' \in {pos, pos + 1}
  BY <1>1 DEF Begun, DispatchKvCacheWrite
<1>6. pos \in Nat /\ Buffer(kvBuffer, pos) /\ WrittenRows(kvBuffer, pos, pos)
  BY <1>5, LayoutAssumption DEF KvInv, Begun, DispatchKvCacheWrite
<1>7. Buffer(kvBuffer, pos + 1) /\ WrittenRows(kvBuffer, pos, pos + 1)
  <2>1. \A p \in Places : p < pos => p < pos + 1
    BY <1>6 DEF Places
  <2>2. Fits(pos + 1) => Fits(pos)
    BY <1>6, FewerFit
  <2> QED BY <1>6, <2>1, <2>2 DEF Buffer, WrittenRows
<1>8. Buffer(kvBuffer', Begun') /\ WrittenRows(kvBuffer', pos', Begun') /\ pos' \in 0 .. MaxSeq
  BY <1>1, <1>5, <1>6, <1>7 DEF KvInv
<1> QED BY <1>4, <1>8 DEF KvInv, Buffer, WrittenRows, Holds

LEMMA BufferStored ==
  ASSUME NEW b, NEW n, Buffer(b, n),
         NEW h \in Heads, NEW p \in Places, p < n, NEW d \in Dims
  PROVE  Buffer(Stored(b, h, p, d), n)
  BY DEF Buffer, Stored

LEMMA RowsStored ==
  ASSUME NEW b, NEW p \in Places, WrittenRows(b, p, p + 1),
         NEW h \in Heads, NEW d \in Dims
  PROVE  WrittenRows(Stored(b, h, p, d), p, p + 1)
<1> SUFFICES ASSUME Fits(p + 1), NEW p0 \in 0 .. p - 1, NEW h0 \in Heads, NEW d0 \in Dims
             PROVE  Holds(Stored(b, h, p, d), h0, p0, d0)
  BY DEF WrittenRows
<1>1. p0 \in Places /\ Fits(p0 + 1)
  <2>1. p0 \in Nat /\ p \in Nat /\ p0 + 1 <= p + 1
    BY LayoutAssumption DEF Places
  <2> QED BY <2>1, FewerFit, LayoutAssumption DEF Places
<1>2. Holds(b, h0, p0, d0)
  BY DEF WrittenRows
<1> QED BY <1>1, <1>2, HoldsKept

LEMMA WriteElementInv ==
  ASSUME KvInv, NEW t \in DOMAIN threads, WriteElement(t)
  PROVE  KvInv'
<1> DEFINE e == threads[t]
           b1 == Stored(kvBuffer, e \div HeadDim, pos, e % HeadDim)
<1>1. /\ e < Elements /\ pos' = pos /\ threads' = [threads EXCEPT ![t] = @ + Wave]
      /\ kvBuffer' = b1
  BY DEF WriteElement, Looping, Stored
<1>2. threads # << >>
  OBVIOUS
<1>3. /\ pos \in Places /\ pos \in 0 .. MaxSeq
      /\ \A n \in 0 .. Wave - 1 : <<0, n>> \in DOMAIN threads
      /\ \A u \in DOMAIN threads : Thread(kvBuffer, pos, u, threads[u])
  BY <1>2, LayoutAssumption DEF KvInv, Dispatched, Places
<1>4. /\ e \div HeadDim \in Heads /\ e % HeadDim \in Dims
      /\ Thread(b1, pos, t, e + Wave)
  BY <1>1, <1>3, ThreadTurn
<1>5. Buffer(b1, pos + 1) /\ WrittenRows(b1, pos, pos + 1)
  <2>1. Begun = pos + 1 /\ pos < pos + 1
    BY <1>2, <1>3 DEF Begun, Places
  <2> QED BY <1>3, <1>4, <2>1, BufferStored, RowsStored DEF KvInv
<1>6. \A u \in DOMAIN threads : Thread(b1, pos, u, threads[u])
  BY <1>3, <1>4, ThreadKept
<1> HIDE DEF b1
<1>7. \A u \in DOMAIN threads' : Thread(kvBuffer', pos', u, threads'[u])
  BY <1>1, <1>4, <1>6
<1>8. \A n \in 0 .. Wave - 1 : <<0, n>> \in DOMAIN threads'
  BY <1>1, <1>3
<1>9. Dispatched'
  <2>1. pos' < MaxSeq
    BY <1>1, <1>3, LayoutAssumption DEF Places
  <2> QED BY <1>7, <1>8, <2>1 DEF Dispatched
<1>10. Buffer(kvBuffer', Begun') /\ WrittenRows(kvBuffer', pos', Begun') /\ pos' \in 0 .. MaxSeq
  <2>1. DOMAIN threads' = DOMAIN threads
    BY <1>1
  <2>2. threads' # << >>
    BY <2>1
  <2>3. Begun' = pos + 1
    BY <1>1, <2>2 DEF Begun
  <2> QED BY <1>1, <1>3, <1>5, <2>3
<1> QED BY <1>9, <1>10 DEF KvInv, Buffer, WrittenRows, Holds

(* When all threads are done, the row is there.                            *)
LEMMA WaitInv == KvInv /\ Wait => KvInv'
<1> SUFFICES ASSUME KvInv, Wait PROVE KvInv'
  OBVIOUS
<1>1. threads # << >> /\ Done /\ threads' = << >> /\ pos' = pos + 1 /\ kvBuffer' = kvBuffer
  BY DEF Wait
<1>2. /\ pos < MaxSeq /\ pos \in Nat
      /\ \A n \in 0 .. Wave - 1 : <<0, n>> \in DOMAIN threads
      /\ \A t \in DOMAIN threads : Thread(kvBuffer, pos, t, threads[t])
  BY <1>1, LayoutAssumption DEF KvInv, Dispatched
<1>3. ASSUME Fits(pos + 1), NEW h \in Heads, NEW d \in Dims PROVE Holds(kvBuffer, h, pos, d)
  <2> DEFINE e == h * HeadDim + d
             n == e % Wave
             k == e \div Wave
             t == <<0, n>>
  <2>1. e \in Nat /\ e < Elements /\ e \div HeadDim = h /\ e % HeadDim = d
    BY ElementOf
  <2> HIDE DEF e
  <2>2. n \in 0 .. Wave - 1 /\ k \in Nat /\ e = k * Wave + n
    BY <2>1, LayoutAssumption, Quotient
  <2>3. t \in DOMAIN threads /\ Thread(kvBuffer, pos, t, threads[t]) /\ ~Looping(t)
    BY <1>1, <1>2, <2>2 DEF Done
  <2>4. t[2] = n
    OBVIOUS
  <2> HIDE DEF n, k, t
  <2>5. PICK m \in Nat :
          /\ threads[t] = Turns(t, m)
          /\ Fits(pos + 1) => \A j \in Nat : j < m /\ Turns(t, j) < Elements =>
               Holds(kvBuffer, Turns(t, j) \div HeadDim, pos, Turns(t, j) % HeadDim)
    BY <2>3 DEF Thread
  <2>6. Turns(t, k) = e
    BY <2>2, <2>4, LayoutAssumption, MulLess DEF Turns
  <2>7. Elements \in Nat
    BY LayoutAssumption, MulLess DEF Elements
  <2>8. n + m * Wave >= Elements /\ m * Wave \in Nat /\ k * Wave \in Nat
    BY <2>2, <2>3, <2>4, <2>5, <2>7, LayoutAssumption, MulLess DEF Looping, Turns
  <2>9. ~(m <= k)
    BY <2>1, <2>2, <2>7, <2>8, LayoutAssumption, MulLess
  <2>10. Holds(kvBuffer, e \div HeadDim, pos, e % HeadDim)
    BY <1>3, <2>1, <2>2, <2>5, <2>6, <2>9
  <2> QED BY <2>1, <2>10
<1>4. Buffer(kvBuffer, pos + 1) /\ WrittenRows(kvBuffer, pos + 1, pos + 1)
  <2>1. Begun = pos + 1
    BY <1>1 DEF Begun
  <2> QED BY <1>2, <1>3, <2>1 DEF KvInv, WrittenRows
<1>5. pos + 1 \in 0 .. MaxSeq
  BY <1>2, LayoutAssumption
<1>6. Begun' = pos + 1
  BY <1>1 DEF Begun
<1>7. Buffer(kvBuffer', Begun') /\ WrittenRows(kvBuffer', pos', Begun')
  BY <1>1, <1>4, <1>6
<1> QED BY <1>1, <1>5, <1>7 DEF KvInv, Dispatched, Buffer, WrittenRows, Holds

LEMMA KvStepInv == KvInv /\ [KvNext]_kvVars => KvInv'
<1>1. KvInv /\ UNCHANGED kvVars => KvInv'
  BY DEF kvVars, KvInv, Dispatched, Begun
<1> QED BY <1>1, DispatchInv, WriteElementInv, WaitInv DEF KvNext

LEMMA KvAlways == KvSpec => []KvInv
  BY KvInitInv, KvStepInv, PTL DEF KvSpec

LEMMA KvInvImplies == KvInv => RowsKept /\ ReadsBack
<1> SUFFICES ASSUME KvInv PROVE RowsKept /\ ReadsBack
  OBVIOUS
<1>1. /\ InStride \/ KvHeads = 1 <=> Fits(Begun)
      /\ InStride <=> Within(Begun)
      /\ pos \in Nat /\ pos <= MaxSeq /\ Begun \in Nat
  BY LayoutAssumption DEF InStride, Fits, Within, KvInv, Begun
<1>2. RowsKept
  <2>1. ASSUME Within(Begun), NEW i \in DOMAIN kvBuffer PROVE i < BufferSize
    <3>1. PICK h \in Heads, p \in Places, d \in Dims : p < Begun /\ i = WriteIndex(h, p, d)
      BY DEF KvInv, Buffer
    <3>2. p \in Nat /\ p + 1 <= Begun
      BY <1>1, <3>1 DEF Places
    <3>3. Within(p + 1)
      BY <1>1, <2>1, <3>2, FewerFit
    <3> QED BY <3>1, <3>3, IndexInBuffer
  <2> QED BY <1>1, <2>1 DEF KvInv, WrittenRows, Holds, RowsKept
<1>3. ReadsBack
  <2> SUFFICES ASSUME Fits(Begun), NEW p \in 0 .. pos - 1, NEW d \in Dims
               PROVE  ReadIndex(p, d) \in DOMAIN kvBuffer /\ kvBuffer[ReadIndex(p, d)] = <<0, p, d>>
    BY <1>1 DEF ReadsBack
  <2>1. 0 \in Heads
    BY LayoutAssumption DEF Heads
  <2>2. Holds(kvBuffer, 0, p, d)
    BY <2>1 DEF KvInv, WrittenRows
  <2>3. WriteIndex(0, p, d) = ReadIndex(p, d)
    <3>1. p \in Places
      BY <1>1, LayoutAssumption DEF Places
    <3>2. 0 * Stride = 0 /\ ReadIndex(p, d) \in Nat
      BY <3>1, StrideIs, ReadIndexDigits
    <3> QED BY <2>1, <3>1, <3>2, WriteIndexIs
  <2> QED BY <2>2, <2>3 DEF Holds
<1> QED BY <1>2, <1>3

-----------------------------------------------------------------------------
(* flash_attention leaves the cache alone, so that AttnSpec is, for the    *)
(* cache, a specification of kv_cache_write.                               *)
LEMMA AttnWrites == [AttnNext]_attnVars => [KvNext]_kvVars
<1> SUFFICES ASSUME [AttnNext]_attnVars PROVE [KvNext]_kvVars
  OBVIOUS
<1>1. CASE WriteRow
  BY <1>1 DEF WriteRow, KvNext
<1>2. CASE ((\E t \in DOMAIN threads : WriteElement(t)) \/ Wait) /\ UNCHANGED flashVars
  BY <1>2 DEF KvNext
<1>3. CASE DispatchFlashAttn \/ StartWorkgroup
  BY <1>3 DEF DispatchFlashAttn, StartWorkgroup
<1>4. ASSUME NEW t \in DOMAIN kvTile, (t[2] = 0 /\ AccumulateTile(t[1])) \/ WriteOut(t)
      PROVE  [KvNext]_kvVars
  BY <1>4 DEF AccumulateTile, WriteOut
<1>5. CASE UNCHANGED attnVars
  BY <1>5 DEF attnVars
<1> QED BY <1>1, <1>2, <1>3, <1>4, <1>5 DEF AttnNext

LEMMA AttnKv == AttnSpec => []KvInv
<1>1. AttnInit => KvInit
  BY DEF AttnInit
<1> QED BY <1>1, AttnWrites, KvInitInv, KvStepInv, PTL DEF AttnSpec

(* Whatever the order of the threads of all workgroups, and although every *)
(* workgroup does the same work, the rows written before stay what they    *)
(* are, inside the buffer, up to the last position of a whole tile.        *)
THEOREM CacheRowsKept == AttnSpec => []RowsKept
  BY AttnKv, KvInvImplies, PTL

(* ... and flash_attention finds those of head 0 where it looks for them.  *)
THEOREM CacheReadsBack == AttnSpec => []ReadsBack
  BY AttnKv, KvInvImplies, PTL

-----------------------------------------------------------------------------
(* flash_attention.  Chunks say which rows have been handed out, InStep    *)
(* that a workgroup is at one tile until its first thread is done with the *)
(* tiles, Causal what a thread has accumulated so far, Inside where its    *)
(* output went.                                                            *)
Chunks ==
  /\ seqLen \in Nat /\ start \in Nat /\ remaining \in Nat
  /\ IF seqLen = 0 THEN start = 0 /\ remaining = 0 ELSE start + remaining = Rows
  /\ remaining > 0 => \E m \in Nat : start = m * Wave
  /\ \A r \in 0 .. start - 1 : \E t \in DOMAIN kvTile : Row(t) = r

Started(t) == /\ t = <<t[1], t[2]>> /\ t[1] \in Nat /\ t[2] \in 0 .. Wave - 1
              /\ t[1] < start
              /\ \E m \in Nat : t[1] = m * Wave
Threads == /\ DOMAIN attended = DOMAIN kvTile
           /\ \A t \in DOMAIN kvTile : Started(t) /\ <<t[1], 0>> \in DOMAIN kvTile

InStep ==
  \A t \in DOMAIN kvTile :
    /\ kvTile[t] \in Nat
    /\ kvTile[t] < KvTiles \/ kvTile[<<t[1], 0>>] < KvTiles =>
         kvTile[t] = kvTile[<<t[1], 0>>]

Upto(r, k) == {j \in 0 .. r : j < k * KvTile /\ j < seqLen}
Causal == \A t \in DOMAIN kvTile : Valid(t) => attended[t] = Upto(Row(t), kvTile[t])

Inside == \A i \in out : \E t \in DOMAIN kvTile, j \in 0 .. HeadDim - 1 :
                           Valid(t) /\ i = Row(t) * HeadDim + j

FlashInv == Chunks /\ Threads /\ InStep /\ Causal /\ Inside

LEMMA TileFacts ==
  ASSUME seqLen \in Nat
  PROVE  /\ KvTiles \in Nat /\ KvTiles * KvTile \in Nat
         /\ seqLen <= KvTiles * KvTile
<1> DEFINE x == seqLen + KvTile - 1
           q == x \div KvTile
<1>1. KvTile \in Nat \ {0} /\ x \in Nat
  BY AttentionAssumption
<1> HIDE DEF x
<1>2. q \in Nat /\ x % KvTile \in 0 .. KvTile - 1 /\ x = q * KvTile + (x % KvTile)
  BY <1>1, Quotient
<1> HIDE DEF q
<1>3. q * KvTile \in Nat
  BY <1>1, <1>2, MulLess
<1>4. seqLen <= q * KvTile
  BY <1>1, <1>2, <1>3 DEF x
<1> QED BY <1>2, <1>3, <1>4 DEF KvTiles, q, x

LEMMA StartedFacts ==
  ASSUME FlashInv, NEW t \in DOMAIN kvTile
  PROVE  /\ t = <<t[1], t[2]>> /\ t[1] \in Nat /\ t[2] \in 0 .. Wave - 1 /\ t[2] \in Nat
         /\ Row(t) \in Nat /\ t[1] < start /\ start \in Nat /\ start <= Rows
         /\ \E m \in Nat : t[1] = m * Wave
<1>1. /\ t = <<t[1], t[2]>> /\ t[1] \in Nat /\ t[2] \in 0 .. Wave - 1 /\ t[1] < start
      /\ \E m \in Nat : t[1] = m * Wave
  BY DEF FlashInv, Threads, Started
<1>2. start \in Nat /\ start <= Rows
  BY AttentionAssumption DEF FlashInv, Chunks
<1>3. t[2] \in Nat
  BY <1>1, LayoutAssumption
<1>4. t[1] + t[2] \in Nat
  BY <1>1, <1>3
<1> QED BY <1>1, <1>2, <1>3, <1>4 DEF Row

LEMMA FlashInitInv == AttnInit => FlashInv
<1> SUFFICES ASSUME AttnInit PROVE FlashInv
  OBVIOUS
<1>1. /\ seqLen = 0 /\ start = 0 /\ remaining = 0 /\ out = {}
      /\ DOMAIN kvTile = {} /\ DOMAIN attended = {}
  BY DEF AttnInit
<1> QED BY <1>1 DEF FlashInv, Chunks, Threads, InStep, Causal, Inside

LEMMA FlashKept == FlashInv /\ UNCHANGED flashVars => FlashInv'
  BY DEF FlashInv, flashVars, Chunks, Threads, Started, InStep, Causal, Inside, Upto,
         Valid, Row, KvTiles

LEMMA FlashDispatch ==
  ASSUME FlashInv, KvInv, DispatchFlashAttn
  PROVE  FlashInv'
<1>1. /\ seqLen' = pos /\ start' = 0 /\ remaining' = Rows /\ out' = {}
      /\ DOMAIN kvTile' = {} /\ DOMAIN attended' = {} /\ seqLen < pos
  BY DEF DispatchFlashAttn
<1>2. pos \in Nat /\ pos # 0 /\ Rows \in Nat
  BY <1>1, LayoutAssumption, AttentionAssumption DEF KvInv, FlashInv, Chunks
<1>3. Chunks'
  <2>1. 0 = 0 * Wave /\ 0 \in Nat
    BY LayoutAssumption
  <2> QED BY <1>1, <1>2, <2>1 DEF Chunks
<1> QED BY <1>1, <1>3 DEF FlashInv, Threads, InStep, Causal, Inside

LEMMA FlashStart ==
  ASSUME FlashInv, StartWorkgroup
  PROVE  FlashInv'
<1> DEFINE chunk == Min2(remaining, Wave)
           team  == Team(start)
<1>1. /\ remaining > 0 /\ start' = start + chunk /\ remaining' = remaining - chunk
      /\ kvTile' = [t \in DOMAIN kvTile \cup team |-> IF t \in team THEN 0 ELSE kvTile[t]]
      /\ attended' = [t \in DOMAIN attended \cup team |->
                        IF t \in team THEN {} ELSE attended[t]]
      /\ seqLen' = seqLen /\ out' = out
  BY DEF StartWorkgroup, StartThreads
<1>2. Wave \in Nat \ {0} /\ start \in Nat /\ remaining \in Nat /\ seqLen \in Nat /\ seqLen # 0
  BY <1>1, LayoutAssumption DEF FlashInv, Chunks
<1>3. /\ chunk \in Nat /\ chunk \in 1 .. Wave /\ chunk <= remaining
      /\ chunk < Wave => chunk = remaining
  BY <1>1, <1>2 DEF Min2
<1> HIDE DEF chunk
<1>4. PICK m \in Nat : start = m * Wave
  BY <1>1 DEF FlashInv, Chunks
<1>5. \A t \in team : t = <<start, t[2]>> /\ t[1] = start /\ t[2] \in 0 .. Wave - 1
  BY DEF Team
<1>6. \A n \in 0 .. Wave - 1 : <<start, n>> \in team
  BY DEF Team
<1> HIDE DEF team
<1>7. DOMAIN kvTile' = DOMAIN kvTile \cup team /\ DOMAIN attended' = DOMAIN attended \cup team
  BY <1>1
<1>8. Chunks'
  <2>1. remaining' > 0 => start' = (m + 1) * Wave
    BY <1>1, <1>2, <1>3, <1>4
  <2>2. ASSUME NEW r \in 0 .. start' - 1
        PROVE  \E t \in DOMAIN kvTile' : Row(t) = r
    <3>1. CASE r < start
      BY <1>2, <1>7, <3>1 DEF FlashInv, Chunks
    <3>2. CASE r >= start
      <4>1. r - start \in 0 .. Wave - 1
        BY <1>1, <1>2, <1>3, <3>2
      <4>2. <<start, r - start>> \in DOMAIN kvTile'
        BY <1>6, <1>7, <4>1
      <4>3. Row(<<start, r - start>>) = r
        BY <1>2, <4>1, <3>2 DEF Row
      <4> QED BY <4>2, <4>3
    <3> QED BY <1>2, <3>1, <3>2
  <2>3. start' + remaining' = Rows /\ start' \in Nat /\ remaining' \in Nat
    BY <1>1, <1>2, <1>3 DEF FlashInv, Chunks
  <2>4. remaining' > 0 => \E k \in Nat : start' = k * Wave
    <3>1. m + 1 \in Nat
      OBVIOUS
    <3> QED BY <2>1, <3>1
  <2> QED BY <1>1, <1>2, <2>2, <2>3, <2>4 DEF Chunks, Row
<1>9. Threads'
  <2>1. ASSUME NEW t \in DOMAIN kvTile' PROVE Started(t)' /\ <<t[1], 0>> \in DOMAIN kvTile'
    <3>1. CASE t \in team
      BY <1>1, <1>2, <1>3, <1>4, <1>5, <1>6, <1>7, <3>1 DEF Started
    <3>2. CASE t \in DOMAIN kvTile
      <4>1. Started(t) /\ <<t[1], 0>> \in DOMAIN kvTile
        BY <3>2 DEF FlashInv, Threads
      <4> QED BY <1>1, <1>2, <1>3, <1>7, <4>1 DEF Started
    <3> QED BY <1>7, <3>1, <3>2
  <2> QED BY <1>7, <2>1 DEF FlashInv, Threads
<1>10. \A t \in DOMAIN kvTile : t \notin team /\ <<t[1], 0>> \in DOMAIN kvTile \ team
  <2>1. ASSUME NEW t \in DOMAIN kvTile
        PROVE  t[1] \in Nat /\ t[1] < start /\ <<t[1], 0>> \in DOMAIN kvTile
    BY DEF FlashInv, Threads, Started
  <2>2. \A t : t[1] \in Nat /\ t[1] < start => t \notin team
    BY <1>2, <1>5
  <2>3. \A t \in DOMAIN kvTile : <<t[1], 0>> \notin team
    BY <2>1, <2>2
  <2> QED BY <2>1, <2>2, <2>3
<1>11. /\ \A t \in team : kvTile'[t] = 0 /\ attended'[t] = {} /\ kvTile'[<<t[1], 0>>] = 0
       /\ \A t \in DOMAIN kvTile : /\ kvTile'[t] = kvTile[t]
                                   /\ attended'[t] = attended[t]
                                   /\ kvTile'[<<t[1], 0>>] = kvTile[<<t[1], 0>>]
  <2>1. \A t \in team : <<t[1], 0>> \in team
    BY <1>2, <1>5, <1>6
  <2>2. DOMAIN attended = DOMAIN kvTile
    BY DEF FlashInv, Threads
  <2> QED BY <1>1, <1>10, <2>1, <2>2
<1>12. InStep'
  <2>1. KvTiles' = KvTiles
    BY <1>1 DEF KvTiles
  <2>2. ASSUME NEW t \in team
        PROVE  kvTile'[t] \in Nat /\ kvTile'[t] = kvTile'[<<t[1], 0>>]
    <3>1. kvTile'[t] = 0 /\ kvTile'[<<t[1], 0>>] = 0
      BY <1>11
    <3> QED BY <3>1
  <2>3. \A t \in DOMAIN kvTile :
          /\ kvTile'[t] \in Nat
          /\ kvTile'[t] < KvTiles \/ kvTile'[<<t[1], 0>>] < KvTiles =>
               kvTile'[t] = kvTile'[<<t[1], 0>>]
    BY <1>11 DEF FlashInv, InStep
  <2> QED BY <1>7, <2>1, <2>2, <2>3 DEF InStep
<1>13. Causal'
  <2>1. ASSUME NEW t \in DOMAIN kvTile', Valid(t)'
        PROVE  attended'[t] = Upto(Row(t), kvTile[t])'
    <3>1. CASE t \in team
      <4>1. kvTile'[t] = 0 /\ attended'[t] = {}
        BY <1>11, <3>1
      <4>2. \A j \in Nat : ~(j < 0 * KvTile)
        BY AttentionAssumption
      <4>3. {j \in 0 .. Row(t) : j < 0 * KvTile /\ j < seqLen'} = {}
        BY <4>2
      <4> QED BY <4>1, <4>3 DEF Upto, Row
    <3>2. CASE t \in DOMAIN kvTile
      <4>1. Valid(t)
        BY <1>1, <2>1 DEF Valid
      <4>2. attended[t] = Upto(Row(t), kvTile[t])
        BY <3>2, <4>1 DEF FlashInv, Causal
      <4> QED BY <1>1, <1>11, <3>2, <4>2 DEF Upto, Row
    <3> QED BY <1>7, <3>1, <3>2
  <2> QED BY <2>1 DEF Causal
<1>14. Inside'
  BY <1>1, <1>7 DEF FlashInv, Inside, Valid, Row
<1> QED BY <1>8, <1>9, <1>12, <1>13, <1>14 DEF FlashInv

LEMMA FlashTile ==
  ASSUME FlashInv, NEW t0 \in DOMAIN kvTile, t0[2] = 0, AccumulateTile(t0[1])
  PROVE  FlashInv'
<1> DEFINE c    == t0[1]
           k    == kvTile[<<c, 0>>]
           tile == k * KvTile .. Min2((k + 1) * KvTile, seqLen) - 1
           team == Team(c)
<1>1. /\ k < KvTiles
      /\ kvTile' = [t \in DOMAIN kvTile |-> IF t \in team THEN k + 1 ELSE kvTile[t]]
      /\ attended' = [t \in DOMAIN attended |->
                        IF t \in team /\ Valid(t)
                        THEN attended[t] \cup (tile \cap Unmasked(t)) ELSE attended[t]]
      /\ UNCHANGED <<seqLen, start, remaining, out>>
  BY DEF AccumulateTile
<1>2. /\ \A t \in DOMAIN kvTile : t \in team <=> t[1] = c
      /\ <<c, 0>> \in DOMAIN kvTile /\ k \in Nat /\ KvTiles' = KvTiles
  <2>1. ASSUME NEW t \in DOMAIN kvTile PROVE t \in team <=> t[1] = c
    <3>1. t = <<t[1], t[2]>> /\ t[2] \in 0 .. Wave - 1
      BY DEF FlashInv, Threads, Started
    <3> QED BY <3>1 DEF Team
  <2>2. <<c, 0>> \in DOMAIN kvTile
    BY DEF FlashInv, Threads
  <2> QED BY <1>1, <2>1, <2>2 DEF FlashInv, InStep, KvTiles
<1> HIDE DEF c, team, k
<1>3. DOMAIN kvTile' = DOMAIN kvTile /\ DOMAIN attended' = DOMAIN kvTile
  BY <1>1 DEF FlashInv, Threads
<1>4. Chunks'
  BY <1>1, <1>3 DEF FlashInv, Chunks, Row
<1>5. Threads'
  BY <1>1, <1>3 DEF FlashInv, Threads, Started
<1>6. \A t \in DOMAIN kvTile : /\ t[1] = c => kvTile'[t] = k + 1 /\ kvTile[t] = k
                               /\ t[1] # c => kvTile'[t] = kvTile[t]
                               /\ <<t[1], 0>> \in DOMAIN kvTile
  <2>1. \A t \in DOMAIN kvTile : t[1] = c => kvTile[t] = k
    BY <1>1 DEF FlashInv, InStep, k
  <2> QED BY <1>1, <1>2, <2>1 DEF FlashInv, Threads
<1>7. InStep'
  <2>1. ASSUME NEW t \in DOMAIN kvTile
        PROVE  /\ kvTile'[t] \in Nat
               /\ kvTile'[t] < KvTiles \/ kvTile'[<<t[1], 0>>] < KvTiles =>
                    kvTile'[t] = kvTile'[<<t[1], 0>>]
    <3>1. <<t[1], 0>>[1] = t[1] /\ <<t[1], 0>> \in DOMAIN kvTile
      BY <1>6
    <3>2. CASE t[1] = c
      <4>1. kvTile'[t] = k + 1 /\ kvTile'[<<t[1], 0>>] = k + 1
        BY <1>6, <3>1, <3>2
      <4> QED BY <1>2, <4>1
    <3>3. CASE t[1] # c
      <4>1. kvTile'[t] = kvTile[t] /\ kvTile'[<<t[1], 0>>] = kvTile[<<t[1], 0>>]
        BY <1>6, <3>1, <3>3
      <4> QED BY <4>1 DEF FlashInv, InStep
    <3> QED BY <3>2, <3>3
  <2> QED BY <1>2, <1>3, <2>1 DEF InStep
<1>8. Causal'
  <2>1. ASSUME NEW t \in DOMAIN kvTile, Valid(t)
        PROVE  attended'[t] = Upto(Row(t), kvTile'[t])
    <3>1. attended[t] = Upto(Row(t), kvTile[t])
      BY <2>1 DEF FlashInv, Causal
    <3>2. CASE t[1] = c
      <4>1. attended'[t] = Upto(Row(t), k) \cup (tile \cap (0 .. Row(t)))
        BY <1>1, <1>2, <1>3, <1>6, <2>1, <3>1, <3>2 DEF Unmasked
      <4>2. k * KvTile \in Nat /\ (k + 1) * KvTile = k * KvTile + KvTile /\ KvTile \in Nat
        BY <1>2, AttentionAssumption, MulLess
      <4>3. seqLen \in Nat /\ Row(t) \in Nat
        BY StartedFacts DEF FlashInv, Chunks
      <4>4. Upto(Row(t), k) \cup (tile \cap (0 .. Row(t))) = Upto(Row(t), k + 1)
        BY <1>2, <4>2, <4>3 DEF Upto, Min2
      <4> QED BY <1>6, <3>2, <4>1, <4>4
    <3>3. CASE t[1] # c
      BY <1>1, <1>2, <1>3, <1>6, <3>1, <3>3
    <3> QED BY <3>2, <3>3
  <2>2. ASSUME NEW t \in DOMAIN kvTile', Valid(t)'
        PROVE  (attended[t] = Upto(Row(t), kvTile[t]))'
    <3>1. Valid(t) /\ t \in DOMAIN kvTile
      BY <1>1, <1>3, <2>2 DEF Valid
    <3> QED BY <1>1, <2>1, <3>1 DEF Upto, Row
  <2> QED BY <2>2 DEF Causal
<1>9. Inside'
  BY <1>1, <1>3 DEF FlashInv, Inside, Valid, Row
<1> QED BY <1>4, <1>5, <1>7, <1>8, <1>9 DEF FlashInv

LEMMA FlashWriteOut ==
  ASSUME FlashInv, NEW t0 \in DOMAIN kvTile, WriteOut(t0)
  PROVE  FlashInv'
<1>1. /\ kvTile[t0] = KvTiles
      /\ kvTile' = [kvTile EXCEPT ![t0] = KvTiles + 1]
      /\ out' = IF Valid(t0)
                THEN out \cup {Row(t0) * HeadDim + i : i \in Slice(t0)} ELSE out
      /\ UNCHANGED <<seqLen, start, remaining, attended>>
  BY DEF WriteOut
<1>2. /\ DOMAIN kvTile' = DOMAIN kvTile /\ KvTiles' = KvTiles /\ KvTiles \in Nat
      /\ kvTile'[t0] = KvTiles + 1
      /\ \A t \in DOMAIN kvTile : t # t0 => kvTile'[t] = kvTile[t]
  BY <1>1, TileFacts DEF KvTiles, FlashInv, Chunks
<1>3. Chunks'
  BY <1>1, <1>2 DEF FlashInv, Chunks, Row
<1>4. Threads'
  BY <1>1, <1>2 DEF FlashInv, Threads, Started
<1>5. InStep'
  <2>1. ASSUME NEW t \in DOMAIN kvTile
        PROVE  /\ kvTile'[t] \in Nat
               /\ kvTile'[t] < KvTiles \/ kvTile'[<<t[1], 0>>] < KvTiles =>
                    kvTile'[t] = kvTile'[<<t[1], 0>>]
    <3> DEFINE u == <<t[1], 0>>
    <3>1. /\ u \in DOMAIN kvTile /\ kvTile[t] \in Nat /\ kvTile[u] \in Nat
          /\ kvTile[t] < KvTiles \/ kvTile[u] < KvTiles => kvTile[t] = kvTile[u]
      BY DEF FlashInv, InStep, Threads
    <3> HIDE DEF u
    <3>2. /\ kvTile'[t] \in Nat
          /\ kvTile'[t] < KvTiles \/ kvTile'[u] < KvTiles => kvTile'[t] = kvTile'[u]
      BY <1>1, <1>2, <3>1
    <3> QED BY <3>2 DEF u
  <2> QED BY <1>2, <2>1 DEF InStep
<1>6. Causal'
  <2>1. ASSUME NEW r \in Nat PROVE Upto(r, KvTiles + 1) = Upto(r, KvTiles)
    <3>1. seqLen \in Nat /\ KvTiles * KvTile \in Nat /\ seqLen <= KvTiles * KvTile
      BY TileFacts DEF FlashInv, Chunks
    <3>2. (KvTiles + 1) * KvTile = KvTiles * KvTile + KvTile /\ KvTile \in Nat
      BY <1>2, AttentionAssumption
    <3> QED BY <3>1, <3>2 DEF Upto
  <2>2. \A t \in DOMAIN kvTile : Row(t) \in Nat
    BY StartedFacts
  <2>3. ASSUME NEW t \in DOMAIN kvTile, Valid(t)
        PROVE  attended'[t] = Upto(Row(t), kvTile'[t])
    <3>1. attended[t] = Upto(Row(t), kvTile[t])
      BY <2>3 DEF FlashInv, Causal
    <3> QED BY <1>1, <1>2, <2>1, <2>2, <3>1
  <2>4. ASSUME NEW t \in DOMAIN kvTile', Valid(t)'
        PROVE  (attended[t] = Upto(Row(t), kvTile[t]))'
    <3>1. Valid(t) /\ t \in DOMAIN kvTile
      BY <1>1, <1>2, <2>4 DEF Valid
    <3> QED BY <1>1, <2>3, <3>1 DEF Upto, Row
  <2> QED BY <2>4 DEF Causal
<1>7. Inside'
  <2>1. ASSUME NEW i \in out'
        PROVE  \E t \in DOMAIN kvTile, j \in 0 .. HeadDim - 1 :
                 Valid(t) /\ i = Row(t) * HeadDim + j
    <3>1. CASE i \in out
      BY <3>1 DEF FlashInv, Inside
    <3>2. CASE Valid(t0) /\ \E j \in Slice(t0) : i = Row(t0) * HeadDim + j
      <4>1. PICK j \in Slice(t0) : i = Row(t0) * HeadDim + j
        BY <3>2
      <4>2. PerThread \in Nat
        BY LayoutAssumption, Quotient DEF PerThread
      <4>3. t0[2] * PerThread \in Nat
        BY <4>2, StartedFacts
      <4>4. j \in 0 .. HeadDim - 1
        BY <4>1, <4>3, LayoutAssumption DEF Slice
      <4> QED BY <3>2, <4>1, <4>4
    <3> QED BY <1>1, <2>1, <3>1, <3>2
  <2>2. ASSUME NEW t, Valid(t) PROVE Valid(t)'
    BY <1>1, <2>2 DEF Valid, Row
  <2> QED BY <1>2, <2>1, <2>2 DEF Inside, Row
<1> QED BY <1>3, <1>4, <1>5, <1>6, <1>7 DEF FlashInv

LEMMA FlashStepInv == KvInv /\ FlashInv /\ [AttnNext]_attnVars => FlashInv'
<1> SUFFICES ASSUME KvInv, FlashInv, [AttnNext]_attnVars PROVE FlashInv'
  OBVIOUS
<1>1. CASE UNCHANGED flashVars
  BY <1>1, FlashKept
<1>2. CASE DispatchFlashAttn
  BY <1>2, FlashDispatch
<1>3. CASE StartWorkgroup
  BY <1>3, FlashStart
<1>4. ASSUME NEW t \in DOMAIN kvTile, (t[2] = 0 /\ AccumulateTile(t[1])) \/ WriteOut(t)
      PROVE  FlashInv'
  BY <1>4, FlashTile, FlashWriteOut
<1>5. WriteRow \/ UNCHANGED attnVars => UNCHANGED flashVars
  BY DEF WriteRow, attnVars
<1> QED BY <1>1, <1>2, <1>3, <1>4, <1>5 DEF AttnNext

LEMMA AttnAlways == AttnSpec => []FlashInv
<1>1. AttnInit => KvInv /\ FlashInv
  BY FlashInitInv, KvInitInv DEF AttnInit
<1>2. KvInv /\ FlashInv /\ [AttnNext]_attnVars => (KvInv /\ FlashInv)'
  BY FlashStepInv, AttnWrites, KvStepInv
<1> QED BY <1>1, <1>2, PTL DEF AttnSpec

(* No row of the output is computed by two workgroups and, once all have   *)
(* been started, none is left out; what is written stays inside the buffer *)
(* if the rows fill the workgroups or the cache is no longer than they are.*)
THEOREM AttentionRowsOnce == AttnSpec => []RowsOnce
<1>1. FlashInv => RowsOnce
  <2> SUFFICES ASSUME FlashInv PROVE RowsOnce
    OBVIOUS
  <2>1. ASSUME NEW t \in DOMAIN kvTile, NEW u \in DOMAIN kvTile, Row(t) = Row(u) PROVE t = u
    <3>1. /\ t = <<t[1], t[2]>> /\ t[2] \in 0 .. Wave - 1
          /\ u = <<u[1], u[2]>> /\ u[2] \in 0 .. Wave - 1
          /\ (\E m \in Nat : t[1] = m * Wave) /\ (\E m \in Nat : u[1] = m * Wave)
      BY StartedFacts
    <3>2. PICK m \in Nat, n \in Nat : t[1] = m * Wave /\ u[1] = n * Wave
      BY <3>1
    <3>3. m * Wave + t[2] = n * Wave + u[2]
      BY <2>1, <3>2 DEF Row
    <3>4. m = n /\ t[2] = u[2]
      BY <3>1, <3>3, LayoutAssumption, Digits
    <3> QED BY <3>1, <3>2, <3>4
  <2>2. ASSUME seqLen > 0, remaining = 0, NEW r \in 0 .. Rows - 1
        PROVE  \E t \in DOMAIN kvTile : Row(t) = r
    BY <2>2, AttentionAssumption DEF FlashInv, Chunks
  <2>3. ASSUME Rows % Wave = 0 \/ seqLen <= Rows, NEW i \in out
        PROVE  i < Rows * HeadDim
    <3>1. PICK t \in DOMAIN kvTile, j \in 0 .. HeadDim - 1 :
            Valid(t) /\ i = Row(t) * HeadDim + j
      BY DEF FlashInv, Inside
    <3>2. /\ t[1] \in Nat /\ t[2] \in 0 .. Wave - 1 /\ t[1] < start /\ start <= Rows
          /\ \E m \in Nat : t[1] = m * Wave
      BY StartedFacts
    <3>3. Row(t) \in Nat /\ Row(t) < Rows
      <4>1. CASE seqLen <= Rows
        <5>1. Row(t) \in Nat /\ Row(t) < seqLen /\ seqLen \in Nat
          BY <3>1, StartedFacts DEF Valid, FlashInv, Chunks
        <5> QED BY <4>1, <5>1, AttentionAssumption
      <4>2. CASE Rows % Wave = 0
        <5> DEFINE n == Rows \div Wave
        <5>1. n \in Nat /\ Rows = n * Wave + (Rows % Wave)
          BY LayoutAssumption, AttentionAssumption, Quotient
        <5> HIDE DEF n
        <5>2. n * Wave \in Nat /\ Rows = n * Wave
          BY <4>2, <5>1, LayoutAssumption, MulLess
        <5>3. PICK m \in Nat : t[1] = m * Wave
          BY <3>2
        <5>4. m * Wave < n * Wave /\ m * Wave \in Nat
          BY <3>2, <5>2, <5>3, AttentionAssumption DEF FlashInv, Chunks
        <5>5. ~(n <= m)
          BY <5>1, <5>2, <5>4, LayoutAssumption, MulLess
        <5>6. m * Wave + Wave <= n * Wave
          BY <5>1, <5>5, LayoutAssumption, MulLess
        <5> QED BY <3>2, <5>2, <5>3, <5>4, <5>6, LayoutAssumption DEF Row
      <4> QED BY <2>3, <4>1, <4>2
    <3>4. /\ Row(t) * HeadDim + HeadDim <= Rows * HeadDim
          /\ Row(t) * HeadDim \in Nat /\ Rows * HeadDim \in Nat
      BY <3>3, LayoutAssumption, AttentionAssumption, MulLess
    <3> QED BY <3>1, <3>4, LayoutAssumption
  <2> QED BY <2>1, <2>2, <2>3 DEF RowsOnce
<1> QED BY <1>1, AttnAlways, PTL

(* However the tiles fall, a row that is written has attended to exactly   *)
(* the positions up to its own number.                                     *)
THEOREM AttentionCausalRows == AttnSpec => []CausalRows
<1>1. FlashInv => CausalRows
  <2> SUFFICES ASSUME FlashInv, NEW t \in DOMAIN kvTile, Valid(t), kvTile[t] >= KvTiles
               PROVE  attended[t] = 0 .. Row(t)
    BY DEF CausalRows
  <2>1. attended[t] = Upto(Row(t), kvTile[t])
    BY DEF FlashInv, Causal
  <2>2. /\ seqLen \in Nat /\ KvTiles \in Nat /\ KvTiles * KvTile \in Nat
        /\ seqLen <= KvTiles * KvTile /\ kvTile[t] \in Nat
    BY TileFacts DEF FlashInv, Chunks, InStep
  <2>3. kvTile[t] * KvTile \in Nat /\ seqLen <= kvTile[t] * KvTile
    BY <2>2, AttentionAssumption, MulLess
  <2>4. Row(t) < seqLen /\ Row(t) \in Nat
    BY StartedFacts DEF Valid
  <2> QED BY <2>1, <2>2, <2>3, <2>4 DEF Upto
<1> QED BY <1>1, AttnAlways, PTL

-----------------------------------------------------------------------------
(* BlockFormats: the layout of each format has an inverse.                 *)

\* The field a bit of a block belongs to, and which bit of the field it is: what
\* each class's places say when they are read backwards.
Q4_0Owner(at) ==
    IF at < 16 THEN <<<<"d", 0>>, at + 1>>
    ELSE <<<<"q", 2 * ((at - 16) \div 8) + ((at % 8) \div 4)>>, (at % 4) + 1>>

Q8_0Owner(at) ==
    IF at < 16 THEN <<<<"d", 0>>, at + 1>>
    ELSE <<<<"q", (at - 16) \div 8>>, (at % 8) + 1>>

Q4_KOwner(at) ==
    LET byte == at \div 8
        bit  == at % 8
    IN  IF byte < 2 THEN <<<<"d", 0>>, at + 1>>
        ELSE IF byte < 4 THEN <<<<"dmin", 0>>, at - 15>>
        ELSE IF byte < 8
        THEN <<<<"sc", IF bit < 6 THEN byte - 4 ELSE byte>>, IF bit < 6 THEN bit + 1 ELSE bit - 1>>
        ELSE IF byte < 12
        THEN <<<<"sm", IF bit < 6 THEN byte - 8 ELSE byte - 4>>,
               IF bit < 6 THEN bit + 1 ELSE bit - 1>>
        ELSE IF byte < 16
        THEN <<<<IF bit < 4 THEN "sc" ELSE "sm", byte - 8>>, (bit % 4) + 1>>
        ELSE <<<<"q", 64 * ((byte - 16) \div 32) + 32 * (bit \div 4) + ((byte - 16) % 32)>>,
               (bit % 4) + 1>>

Q5_KOwner(at) ==
    LET byte == at \div 8
        bit  == at % 8
    IN  IF byte < 2 THEN <<<<"d", 0>>, at + 1>>
        ELSE IF byte < 8 THEN <<<<"dmin", 0>>, at - 15>>
        ELSE IF byte < 16
        THEN IF bit < 4 THEN <<<<"sc", 2 * (byte - 8)>>, bit + 1>>
             ELSE <<<<"sm", 2 * (byte - 8) + 1>>, bit - 3>>
        ELSE IF byte < 48 THEN <<<<"q", 8 * (byte - 16) + bit>>, 5>>
        ELSE <<<<"q", 2 * (byte - 48) + (bit \div 4)>>, (bit % 4) + 1>>

Q6_KOwner(at) ==
    LET byte == at \div 8
        bit  == at % 8
    IN  IF byte < 128 THEN <<<<"q", 2 * byte + (bit \div 4)>>, (bit % 4) + 1>>
        ELSE IF byte < 192 THEN <<<<"q", 4 * (byte - 128) + (bit \div 2)>>, (bit % 2) + 5>>
        ELSE IF byte < 208 THEN <<<<"sc", byte - 192>>, bit + 1>>
        ELSE <<<<"d", 0>>, at - 1663>>

Q8_KOwner(at) ==
    LET byte == at \div 8
    IN  IF byte < 4 THEN <<<<"d", 0>>, at + 1>>
        ELSE IF byte < 260 THEN <<<<"q", byte - 4>>, (at % 8) + 1>>
        ELSE <<<<"sum", (byte - 260) \div 2>>, (at % 16) + 1>>

Owner(f, at) ==
    IF f = "Q4_0" THEN Q4_0Owner(at) ELSE IF f = "Q8_0" THEN Q8_0Owner(at)
    ELSE IF f = "Q4_K" THEN Q4_KOwner(at) ELSE IF f = "Q5_K" THEN Q5_KOwner(at)
    ELSE IF f = "Q6_K" THEN Q6_KOwner(at) ELSE Q8_KOwner(at)

LastBit(f) == 8 * getBlockSize(f) - 1

\* The places of a field lie inside the block, and each belongs to that field.
Owned(f, kind, i) ==
    LET at == CreateQuantization(f, kind, i)
    IN  \A b \in DOMAIN at : /\ at[b] \in 0 .. LastBit(f)
                             /\ Owner(f, at[b]) = <<<<kind, i>>, b>>

LEMMA ConcatAt ==
    ASSUME NEW s1 \in Seq(Int), NEW s2 \in Seq(Int)
    PROVE  /\ s1 \o s2 \in Seq(Int)
           /\ Len(s1 \o s2) = Len(s1) + Len(s2)
           /\ \A b \in 1 .. Len(s1) : (s1 \o s2)[b] = s1[b]
           /\ \A b \in 1 .. Len(s2) : (s1 \o s2)[Len(s1) + b] = s2[b]
<1>1. \A b \in 1 .. Len(s1) : (s1 \o s2)[b] = s1[b]
  BY ConcatProperties
<1>2. ASSUME NEW b \in 1 .. Len(s2) PROVE (s1 \o s2)[Len(s1) + b] = s2[b]
  <2>1. Len(s1) + b \in 1 .. Len(s1) + Len(s2) /\ ~(Len(s1) + b <= Len(s1))
        /\ Len(s1) + b - Len(s1) = b
    BY LenProperties
  <2> QED BY <2>1, ConcatProperties
<1> QED BY <1>1, <1>2, ConcatProperties

LEMMA Q4_0Owned ==
    /\ Owned("Q4_0", "d", 0)
    /\ \A i \in 0 .. 31 : Owned("Q4_0", "q", i)
<1>a. LastBit("Q4_0") = 143
  <2>1. getBlockSize("Q4_0") = 18
    BY Zenon DEF getBlockSize
  <2> QED BY <2>1 DEF LastBit
<1>b. \A at : Owner("Q4_0", at) = Q4_0Owner(at)
  BY DEF Owner
<1>1. Owned("Q4_0", "d", 0)
  <2> DEFINE s == Bits(0, 0, 16)
  <2>1. CreateQuantization("Q4_0", "d", 0) = s
    BY Zenon DEF CreateQuantization, Q4_0Quantization
  <2>2. DOMAIN s = 1 .. 16
    BY DEF Bits
  <2>a. \A b \in 1 .. 16 : s[b] = b - 1
    BY DEF Bits
  <2> HIDE DEF s
  <2>3. ASSUME NEW b \in 1 .. 16
        PROVE  /\ b - 1 \in 0 .. 143
               /\ Q4_0Owner(b - 1) = <<<<"d", 0>>, b>>
    BY DEF Q4_0Owner
  <2>4. ASSUME NEW b \in 1 .. 16
        PROVE  s[b] \in 0 .. LastBit("Q4_0") /\ Owner("Q4_0", s[b]) = <<<<"d", 0>>, b>>
    <3>1. s[b] = b - 1
      BY <2>a
    <3>2. s[b] \in 0 .. LastBit("Q4_0")
      BY <1>a, <3>1, <2>3
    <3>3. Q4_0Owner(s[b]) = <<<<"d", 0>>, b>>
      BY <3>1, <2>3
    <3> QED BY <1>b, <3>2, <3>3
  <2> QED BY <2>1, <2>2, <2>4, Zenon DEF Owned
<1>2. ASSUME NEW i \in 0 .. 31 PROVE Owned("Q4_0", "q", i)
  <2> DEFINE s == Bits(2 + i \div 2, 4 * (i % 2), 4)
  <2>1. CreateQuantization("Q4_0", "q", i) = s
    BY Zenon DEF CreateQuantization, Q4_0Quantization
  <2>2. DOMAIN s = 1 .. 4
    BY DEF Bits
  <2>a. \A b \in 1 .. 4 : s[b] = 8 * (2 + i \div 2) + (4 * (i % 2)) + b - 1
    BY DEF Bits
  <2> HIDE DEF s
  <2>3. ASSUME NEW b \in 1 .. 4
        PROVE  /\ 8 * (2 + i \div 2) + (4 * (i % 2)) + b - 1 \in 0 .. 143
               /\ Q4_0Owner(8 * (2 + i \div 2) + (4 * (i % 2)) + b - 1) = <<<<"q", i>>, b>>
    BY DEF Q4_0Owner
  <2>4. ASSUME NEW b \in 1 .. 4
        PROVE  s[b] \in 0 .. LastBit("Q4_0") /\ Owner("Q4_0", s[b]) = <<<<"q", i>>, b>>
    <3>1. s[b] = 8 * (2 + i \div 2) + (4 * (i % 2)) + b - 1
      BY <2>a
    <3>2. s[b] \in 0 .. LastBit("Q4_0")
      BY <1>a, <3>1, <2>3
    <3>3. Q4_0Owner(s[b]) = <<<<"q", i>>, b>>
      BY <3>1, <2>3
    <3> QED BY <1>b, <3>2, <3>3
  <2> QED BY <2>1, <2>2, <2>4, Zenon DEF Owned
<1> QED BY <1>1, <1>2

LEMMA Q8_0Owned ==
    /\ Owned("Q8_0", "d", 0)
    /\ \A i \in 0 .. 31 : Owned("Q8_0", "q", i)
<1>a. LastBit("Q8_0") = 271
  <2>1. getBlockSize("Q8_0") = 34
    BY Zenon DEF getBlockSize
  <2> QED BY <2>1 DEF LastBit
<1>b. \A at : Owner("Q8_0", at) = Q8_0Owner(at)
  BY DEF Owner
<1>1. Owned("Q8_0", "d", 0)
  <2> DEFINE s == Bits(0, 0, 16)
  <2>1. CreateQuantization("Q8_0", "d", 0) = s
    BY Zenon DEF CreateQuantization, Q8_0Quantization
  <2>2. DOMAIN s = 1 .. 16
    BY DEF Bits
  <2>a. \A b \in 1 .. 16 : s[b] = b - 1
    BY DEF Bits
  <2> HIDE DEF s
  <2>3. ASSUME NEW b \in 1 .. 16
        PROVE  /\ b - 1 \in 0 .. 271
               /\ Q8_0Owner(b - 1) = <<<<"d", 0>>, b>>
    BY DEF Q8_0Owner
  <2>4. ASSUME NEW b \in 1 .. 16
        PROVE  s[b] \in 0 .. LastBit("Q8_0") /\ Owner("Q8_0", s[b]) = <<<<"d", 0>>, b>>
    <3>1. s[b] = b - 1
      BY <2>a
    <3>2. s[b] \in 0 .. LastBit("Q8_0")
      BY <1>a, <3>1, <2>3
    <3>3. Q8_0Owner(s[b]) = <<<<"d", 0>>, b>>
      BY <3>1, <2>3
    <3> QED BY <1>b, <3>2, <3>3
  <2> QED BY <2>1, <2>2, <2>4, Zenon DEF Owned
<1>2. ASSUME NEW i \in 0 .. 31 PROVE Owned("Q8_0", "q", i)
  <2> DEFINE s == Bits(2 + i, 0, 8)
  <2>1. CreateQuantization("Q8_0", "q", i) = s
    BY Zenon DEF CreateQuantization, Q8_0Quantization
  <2>2. DOMAIN s = 1 .. 8
    BY DEF Bits
  <2>a. \A b \in 1 .. 8 : s[b] = 8 * (2 + i) + b - 1
    BY DEF Bits
  <2> HIDE DEF s
  <2>3. ASSUME NEW b \in 1 .. 8
        PROVE  /\ 8 * (2 + i) + b - 1 \in 0 .. 271
               /\ Q8_0Owner(8 * (2 + i) + b - 1) = <<<<"q", i>>, b>>
    BY DEF Q8_0Owner
  <2>4. ASSUME NEW b \in 1 .. 8
        PROVE  s[b] \in 0 .. LastBit("Q8_0") /\ Owner("Q8_0", s[b]) = <<<<"q", i>>, b>>
    <3>1. s[b] = 8 * (2 + i) + b - 1
      BY <2>a
    <3>2. s[b] \in 0 .. LastBit("Q8_0")
      BY <1>a, <3>1, <2>3
    <3>3. Q8_0Owner(s[b]) = <<<<"q", i>>, b>>
      BY <3>1, <2>3
    <3> QED BY <1>b, <3>2, <3>3
  <2> QED BY <2>1, <2>2, <2>4, Zenon DEF Owned
<1> QED BY <1>1, <1>2

LEMMA Q4_KOwned ==
    /\ Owned("Q4_K", "d", 0)
    /\ Owned("Q4_K", "dmin", 0)
    /\ \A i \in 0 .. 7 : Owned("Q4_K", "sc", i)
    /\ \A i \in 0 .. 7 : Owned("Q4_K", "sm", i)
    /\ \A i \in 0 .. 255 : Owned("Q4_K", "q", i)
<1>a. LastBit("Q4_K") = 1151
  <2>1. getBlockSize("Q4_K") = 144
    BY Zenon DEF getBlockSize
  <2> QED BY <2>1 DEF LastBit
<1>b. \A at : Owner("Q4_K", at) = Q4_KOwner(at)
  BY DEF Owner
<1>1. Owned("Q4_K", "d", 0)
  <2> DEFINE s == Bits(0, 0, 16)
  <2>1. CreateQuantization("Q4_K", "d", 0) = s
    BY Zenon DEF CreateQuantization, Q4_KQuantization
  <2>2. DOMAIN s = 1 .. 16
    BY DEF Bits
  <2>a. \A b \in 1 .. 16 : s[b] = b - 1
    BY DEF Bits
  <2> HIDE DEF s
  <2>3. ASSUME NEW b \in 1 .. 16
        PROVE  /\ b - 1 \in 0 .. 1151
               /\ Q4_KOwner(b - 1) = <<<<"d", 0>>, b>>
    BY DEF Q4_KOwner
  <2>4. ASSUME NEW b \in 1 .. 16
        PROVE  s[b] \in 0 .. LastBit("Q4_K") /\ Owner("Q4_K", s[b]) = <<<<"d", 0>>, b>>
    <3>1. s[b] = b - 1
      BY <2>a
    <3>2. s[b] \in 0 .. LastBit("Q4_K")
      BY <1>a, <3>1, <2>3
    <3>3. Q4_KOwner(s[b]) = <<<<"d", 0>>, b>>
      BY <3>1, <2>3
    <3> QED BY <1>b, <3>2, <3>3
  <2> QED BY <2>1, <2>2, <2>4, Zenon DEF Owned
<1>2. Owned("Q4_K", "dmin", 0)
  <2> DEFINE s == Bits(2, 0, 16)
  <2>1. CreateQuantization("Q4_K", "dmin", 0) = s
    BY Zenon DEF CreateQuantization, Q4_KQuantization
  <2>2. DOMAIN s = 1 .. 16
    BY DEF Bits
  <2>a. \A b \in 1 .. 16 : s[b] = b + 15
    BY DEF Bits
  <2> HIDE DEF s
  <2>3. ASSUME NEW b \in 1 .. 16
        PROVE  /\ b + 15 \in 0 .. 1151
               /\ Q4_KOwner(b + 15) = <<<<"dmin", 0>>, b>>
    BY DEF Q4_KOwner
  <2>4. ASSUME NEW b \in 1 .. 16
        PROVE  s[b] \in 0 .. LastBit("Q4_K") /\ Owner("Q4_K", s[b]) = <<<<"dmin", 0>>, b>>
    <3>1. s[b] = b + 15
      BY <2>a
    <3>2. s[b] \in 0 .. LastBit("Q4_K")
      BY <1>a, <3>1, <2>3
    <3>3. Q4_KOwner(s[b]) = <<<<"dmin", 0>>, b>>
      BY <3>1, <2>3
    <3> QED BY <1>b, <3>2, <3>3
  <2> QED BY <2>1, <2>2, <2>4, Zenon DEF Owned
<1>3. ASSUME NEW i \in 0 .. 7 PROVE Owned("Q4_K", "sc", i)
  <2>1. CASE i < 4
    <3> DEFINE s == Bits(4 + i, 0, 6)
    <3>1. CreateQuantization("Q4_K", "sc", i) = s
      BY <2>1, Zenon DEF CreateQuantization, Q4_KQuantization
    <3>2. DOMAIN s = 1 .. 6
      BY DEF Bits
    <3>a. \A b \in 1 .. 6 : s[b] = 8 * (4 + i) + b - 1
      BY DEF Bits
    <3> HIDE DEF s
    <3>3. ASSUME NEW b \in 1 .. 6
          PROVE  /\ 8 * (4 + i) + b - 1 \in 0 .. 1151
                 /\ Q4_KOwner(8 * (4 + i) + b - 1) = <<<<"sc", i>>, b>>
      BY <2>1 DEF Q4_KOwner
    <3>4. ASSUME NEW b \in 1 .. 6
          PROVE  s[b] \in 0 .. LastBit("Q4_K") /\ Owner("Q4_K", s[b]) = <<<<"sc", i>>, b>>
      <4>1. s[b] = 8 * (4 + i) + b - 1
        BY <3>a
      <4>2. s[b] \in 0 .. LastBit("Q4_K")
        BY <1>a, <4>1, <3>3
      <4>3. Q4_KOwner(s[b]) = <<<<"sc", i>>, b>>
        BY <4>1, <3>3
      <4> QED BY <1>b, <4>2, <4>3
    <3> QED BY <3>1, <3>2, <3>4, Zenon DEF Owned
  <2>2. CASE ~(i < 4)
    <3> DEFINE s1 == Bits(8 + i, 0, 4)
              s2 == Bits(i, 6, 2)
              s == s1 \o s2
    <3>1. CreateQuantization("Q4_K", "sc", i) = s
      BY <2>2, Zenon DEF CreateQuantization, Q4_KQuantization
    <3>2. /\ s1 \in Seq(Int) /\ Len(s1) = 4
          /\ \A b \in 1 .. 4 : s1[b] = 8 * (8 + i) + b - 1
      BY DEF Bits
    <3>3. /\ s2 \in Seq(Int) /\ Len(s2) = 2
          /\ \A b \in 1 .. 2 : s2[b] = 8 * i + 6 + b - 1
      BY DEF Bits
    <3> HIDE DEF s1, s2
    <3>c. s = s1 \o s2
      OBVIOUS
    <3> HIDE DEF s
    <3>d. /\ s \in Seq(Int) /\ Len(s) = Len(s1) + Len(s2)
          /\ \A b \in 1 .. Len(s1) : s[b] = s1[b]
          /\ \A b \in 1 .. Len(s2) : s[Len(s1) + b] = s2[b]
      BY <3>2, <3>3, <3>c, ConcatAt
    <3>4. /\ s \in Seq(Int) /\ Len(s) = 6
          /\ \A b \in 1 .. 4 : s[b] = s1[b]
          /\ \A b \in 1 .. 2 : s[4 + b] = s2[b]
      BY <3>2, <3>3, <3>d
    <3>5. ASSUME NEW b \in 1 .. 4
          PROVE  /\ 8 * (8 + i) + b - 1 \in 0 .. 1151
                 /\ Q4_KOwner(8 * (8 + i) + b - 1) = <<<<"sc", i>>, b>>
      BY <2>2 DEF Q4_KOwner
    <3>6. ASSUME NEW b \in 1 .. 2
          PROVE  /\ 8 * i + 6 + b - 1 \in 0 .. 1151
                 /\ Q4_KOwner(8 * i + 6 + b - 1) = <<<<"sc", i>>, 4 + b>>
      BY <2>2 DEF Q4_KOwner
    <3>7. ASSUME NEW b \in 1 .. 6
          PROVE  s[b] \in 0 .. LastBit("Q4_K") /\ Owner("Q4_K", s[b]) = <<<<"sc", i>>, b>>
      <4>1. CASE b <= 4
        <5>1. b \in 1 .. 4
          BY <4>1
        <5>2. s[b] = 8 * (8 + i) + b - 1
          BY <5>1, <3>2, <3>4
        <5> QED BY <1>a, <1>b, <5>1, <5>2, <3>5
      <4>2. CASE b > 4
        <5>1. PICK c \in 1 .. 2 : b = 4 + c
          BY <4>2
        <5>2. s[b] = 8 * i + 6 + c - 1
          BY <5>1, <3>3, <3>4
        <5> QED BY <1>a, <1>b, <5>1, <5>2, <3>6
      <4> QED BY <4>1, <4>2
    <3>8. DOMAIN s = 1 .. 6
      BY <3>4
    <3> QED BY <3>1, <3>7, <3>8, Zenon DEF Owned
  <2> QED BY <2>1, <2>2
<1>4. ASSUME NEW i \in 0 .. 7 PROVE Owned("Q4_K", "sm", i)
  <2>1. CASE i < 4
    <3> DEFINE s == Bits(8 + i, 0, 6)
    <3>1. CreateQuantization("Q4_K", "sm", i) = s
      BY <2>1, Zenon DEF CreateQuantization, Q4_KQuantization
    <3>2. DOMAIN s = 1 .. 6
      BY DEF Bits
    <3>a. \A b \in 1 .. 6 : s[b] = 8 * (8 + i) + b - 1
      BY DEF Bits
    <3> HIDE DEF s
    <3>3. ASSUME NEW b \in 1 .. 6
          PROVE  /\ 8 * (8 + i) + b - 1 \in 0 .. 1151
                 /\ Q4_KOwner(8 * (8 + i) + b - 1) = <<<<"sm", i>>, b>>
      BY <2>1 DEF Q4_KOwner
    <3>4. ASSUME NEW b \in 1 .. 6
          PROVE  s[b] \in 0 .. LastBit("Q4_K") /\ Owner("Q4_K", s[b]) = <<<<"sm", i>>, b>>
      <4>1. s[b] = 8 * (8 + i) + b - 1
        BY <3>a
      <4>2. s[b] \in 0 .. LastBit("Q4_K")
        BY <1>a, <4>1, <3>3
      <4>3. Q4_KOwner(s[b]) = <<<<"sm", i>>, b>>
        BY <4>1, <3>3
      <4> QED BY <1>b, <4>2, <4>3
    <3> QED BY <3>1, <3>2, <3>4, Zenon DEF Owned
  <2>2. CASE ~(i < 4)
    <3> DEFINE s1 == Bits(8 + i, 4, 4)
              s2 == Bits(4 + i, 6, 2)
              s == s1 \o s2
    <3>1. CreateQuantization("Q4_K", "sm", i) = s
      BY <2>2, Zenon DEF CreateQuantization, Q4_KQuantization
    <3>2. /\ s1 \in Seq(Int) /\ Len(s1) = 4
          /\ \A b \in 1 .. 4 : s1[b] = 8 * (8 + i) + 4 + b - 1
      BY DEF Bits
    <3>3. /\ s2 \in Seq(Int) /\ Len(s2) = 2
          /\ \A b \in 1 .. 2 : s2[b] = 8 * (4 + i) + 6 + b - 1
      BY DEF Bits
    <3> HIDE DEF s1, s2
    <3>c. s = s1 \o s2
      OBVIOUS
    <3> HIDE DEF s
    <3>d. /\ s \in Seq(Int) /\ Len(s) = Len(s1) + Len(s2)
          /\ \A b \in 1 .. Len(s1) : s[b] = s1[b]
          /\ \A b \in 1 .. Len(s2) : s[Len(s1) + b] = s2[b]
      BY <3>2, <3>3, <3>c, ConcatAt
    <3>4. /\ s \in Seq(Int) /\ Len(s) = 6
          /\ \A b \in 1 .. 4 : s[b] = s1[b]
          /\ \A b \in 1 .. 2 : s[4 + b] = s2[b]
      BY <3>2, <3>3, <3>d
    <3>5. ASSUME NEW b \in 1 .. 4
          PROVE  /\ 8 * (8 + i) + 4 + b - 1 \in 0 .. 1151
                 /\ Q4_KOwner(8 * (8 + i) + 4 + b - 1) = <<<<"sm", i>>, b>>
      BY <2>2 DEF Q4_KOwner
    <3>6. ASSUME NEW b \in 1 .. 2
          PROVE  /\ 8 * (4 + i) + 6 + b - 1 \in 0 .. 1151
                 /\ Q4_KOwner(8 * (4 + i) + 6 + b - 1) = <<<<"sm", i>>, 4 + b>>
      BY <2>2 DEF Q4_KOwner
    <3>7. ASSUME NEW b \in 1 .. 6
          PROVE  s[b] \in 0 .. LastBit("Q4_K") /\ Owner("Q4_K", s[b]) = <<<<"sm", i>>, b>>
      <4>1. CASE b <= 4
        <5>1. b \in 1 .. 4
          BY <4>1
        <5>2. s[b] = 8 * (8 + i) + 4 + b - 1
          BY <5>1, <3>2, <3>4
        <5> QED BY <1>a, <1>b, <5>1, <5>2, <3>5
      <4>2. CASE b > 4
        <5>1. PICK c \in 1 .. 2 : b = 4 + c
          BY <4>2
        <5>2. s[b] = 8 * (4 + i) + 6 + c - 1
          BY <5>1, <3>3, <3>4
        <5> QED BY <1>a, <1>b, <5>1, <5>2, <3>6
      <4> QED BY <4>1, <4>2
    <3>8. DOMAIN s = 1 .. 6
      BY <3>4
    <3> QED BY <3>1, <3>7, <3>8, Zenon DEF Owned
  <2> QED BY <2>1, <2>2
<1>5. ASSUME NEW i \in 0 .. 255 PROVE Owned("Q4_K", "q", i)
  <2> DEFINE s == Bits(16 + (i \div 64) * 32 + (i % 32), 4 * ((i \div 32) % 2), 4)
  <2>1. CreateQuantization("Q4_K", "q", i) = s
    BY Zenon DEF CreateQuantization, Q4_KQuantization
  <2>2. DOMAIN s = 1 .. 4
    BY DEF Bits
  <2>a. \A b \in 1 .. 4 : s[b] = 8 * (16 + (i \div 64) * 32 + (i % 32)) + (4 * ((i \div 32) % 2)) + b - 1
    BY DEF Bits
  <2> HIDE DEF s
  <2>3. ASSUME NEW b \in 1 .. 4
        PROVE  /\ 8 * (16 + (i \div 64) * 32 + (i % 32)) + (4 * ((i \div 32) % 2)) + b - 1 \in 0 .. 1151
               /\ Q4_KOwner(8 * (16 + (i \div 64) * 32 + (i % 32)) + (4 * ((i \div 32) % 2)) + b - 1) = <<<<"q", i>>, b>>
    <3>1. PICK p \in 0 .. 3, q \in 0 .. 1, r \in 0 .. 31 : i = 64 * p + 32 * q + r
      BY i = 64 * (i \div 64) + 32 * ((i \div 32) % 2) + (i % 32)
    <3>2. i \div 64 = p /\ (i \div 32) % 2 = q /\ i % 32 = r
      BY <3>1
    <3> DEFINE at == 8 * (16 + p * 32 + r) + 4 * q + b - 1
    <3>3. at \in 128 .. 1151 /\ at \div 8 - 16 = 32 * p + r /\ at % 8 = 4 * q + b - 1
      OBVIOUS
    <3> HIDE DEF at
    <3>4. Q4_KOwner(at) = <<<<"q", i>>, b>>
      BY <3>1, <3>3 DEF Q4_KOwner
    <3> QED BY <3>2, <3>3, <3>4 DEF at
  <2>4. ASSUME NEW b \in 1 .. 4
        PROVE  s[b] \in 0 .. LastBit("Q4_K") /\ Owner("Q4_K", s[b]) = <<<<"q", i>>, b>>
    <3>1. s[b] = 8 * (16 + (i \div 64) * 32 + (i % 32)) + (4 * ((i \div 32) % 2)) + b - 1
      BY <2>a
    <3>2. s[b] \in 0 .. LastBit("Q4_K")
      BY <1>a, <3>1, <2>3
    <3>3. Q4_KOwner(s[b]) = <<<<"q", i>>, b>>
      BY <3>1, <2>3
    <3> QED BY <1>b, <3>2, <3>3
  <2> QED BY <2>1, <2>2, <2>4, Zenon DEF Owned
<1> QED BY <1>1, <1>2, <1>3, <1>4, <1>5

LEMMA Q5_KOwned ==
    /\ Owned("Q5_K", "d", 0)
    /\ Owned("Q5_K", "dmin", 0)
    /\ \A i \in {0, 2, 4, 6} : Owned("Q5_K", "sc", i)
    /\ \A i \in {1, 3, 5, 7} : Owned("Q5_K", "sm", i)
    /\ \A i \in 0 .. 255 : Owned("Q5_K", "q", i)
<1>a. LastBit("Q5_K") = 1407
  <2>1. getBlockSize("Q5_K") = 176
    BY Zenon DEF getBlockSize
  <2> QED BY <2>1 DEF LastBit
<1>b. \A at : Owner("Q5_K", at) = Q5_KOwner(at)
  BY DEF Owner
<1>1. Owned("Q5_K", "d", 0)
  <2> DEFINE s == Bits(0, 0, 16)
  <2>1. CreateQuantization("Q5_K", "d", 0) = s
    BY Zenon DEF CreateQuantization, Q5_KQuantization
  <2>2. DOMAIN s = 1 .. 16
    BY DEF Bits
  <2>a. \A b \in 1 .. 16 : s[b] = b - 1
    BY DEF Bits
  <2> HIDE DEF s
  <2>3. ASSUME NEW b \in 1 .. 16
        PROVE  /\ b - 1 \in 0 .. 1407
               /\ Q5_KOwner(b - 1) = <<<<"d", 0>>, b>>
    BY DEF Q5_KOwner
  <2>4. ASSUME NEW b \in 1 .. 16
        PROVE  s[b] \in 0 .. LastBit("Q5_K") /\ Owner("Q5_K", s[b]) = <<<<"d", 0>>, b>>
    <3>1. s[b] = b - 1
      BY <2>a
    <3>2. s[b] \in 0 .. LastBit("Q5_K")
      BY <1>a, <3>1, <2>3
    <3>3. Q5_KOwner(s[b]) = <<<<"d", 0>>, b>>
      BY <3>1, <2>3
    <3> QED BY <1>b, <3>2, <3>3
  <2> QED BY <2>1, <2>2, <2>4, Zenon DEF Owned
<1>2. Owned("Q5_K", "dmin", 0)
  <2> DEFINE s == Bits(2, 0, 16)
  <2>1. CreateQuantization("Q5_K", "dmin", 0) = s
    BY Zenon DEF CreateQuantization, Q5_KQuantization
  <2>2. DOMAIN s = 1 .. 16
    BY DEF Bits
  <2>a. \A b \in 1 .. 16 : s[b] = b + 15
    BY DEF Bits
  <2> HIDE DEF s
  <2>3. ASSUME NEW b \in 1 .. 16
        PROVE  /\ b + 15 \in 0 .. 1407
               /\ Q5_KOwner(b + 15) = <<<<"dmin", 0>>, b>>
    BY DEF Q5_KOwner
  <2>4. ASSUME NEW b \in 1 .. 16
        PROVE  s[b] \in 0 .. LastBit("Q5_K") /\ Owner("Q5_K", s[b]) = <<<<"dmin", 0>>, b>>
    <3>1. s[b] = b + 15
      BY <2>a
    <3>2. s[b] \in 0 .. LastBit("Q5_K")
      BY <1>a, <3>1, <2>3
    <3>3. Q5_KOwner(s[b]) = <<<<"dmin", 0>>, b>>
      BY <3>1, <2>3
    <3> QED BY <1>b, <3>2, <3>3
  <2> QED BY <2>1, <2>2, <2>4, Zenon DEF Owned
<1>3. ASSUME NEW i \in {0, 2, 4, 6} PROVE Owned("Q5_K", "sc", i)
  <2> DEFINE s == Bits(8 + i \div 2, 0, 4)
  <2>1. CreateQuantization("Q5_K", "sc", i) = s
    BY Zenon DEF CreateQuantization, Q5_KQuantization
  <2>2. DOMAIN s = 1 .. 4
    BY DEF Bits
  <2>a. \A b \in 1 .. 4 : s[b] = 8 * (8 + i \div 2) + b - 1
    BY DEF Bits
  <2> HIDE DEF s
  <2>3. ASSUME NEW b \in 1 .. 4
        PROVE  /\ 8 * (8 + i \div 2) + b - 1 \in 0 .. 1407
               /\ Q5_KOwner(8 * (8 + i \div 2) + b - 1) = <<<<"sc", i>>, b>>
    BY DEF Q5_KOwner
  <2>4. ASSUME NEW b \in 1 .. 4
        PROVE  s[b] \in 0 .. LastBit("Q5_K") /\ Owner("Q5_K", s[b]) = <<<<"sc", i>>, b>>
    <3>1. s[b] = 8 * (8 + i \div 2) + b - 1
      BY <2>a
    <3>2. s[b] \in 0 .. LastBit("Q5_K")
      BY <1>a, <3>1, <2>3
    <3>3. Q5_KOwner(s[b]) = <<<<"sc", i>>, b>>
      BY <3>1, <2>3
    <3> QED BY <1>b, <3>2, <3>3
  <2> QED BY <2>1, <2>2, <2>4, Zenon DEF Owned
<1>4. ASSUME NEW i \in {1, 3, 5, 7} PROVE Owned("Q5_K", "sm", i)
  <2> DEFINE s == Bits(8 + i \div 2, 4, 4)
  <2>1. CreateQuantization("Q5_K", "sm", i) = s
    BY Zenon DEF CreateQuantization, Q5_KQuantization
  <2>2. DOMAIN s = 1 .. 4
    BY DEF Bits
  <2>a. \A b \in 1 .. 4 : s[b] = 8 * (8 + i \div 2) + 4 + b - 1
    BY DEF Bits
  <2> HIDE DEF s
  <2>3. ASSUME NEW b \in 1 .. 4
        PROVE  /\ 8 * (8 + i \div 2) + 4 + b - 1 \in 0 .. 1407
               /\ Q5_KOwner(8 * (8 + i \div 2) + 4 + b - 1) = <<<<"sm", i>>, b>>
    BY DEF Q5_KOwner
  <2>4. ASSUME NEW b \in 1 .. 4
        PROVE  s[b] \in 0 .. LastBit("Q5_K") /\ Owner("Q5_K", s[b]) = <<<<"sm", i>>, b>>
    <3>1. s[b] = 8 * (8 + i \div 2) + 4 + b - 1
      BY <2>a
    <3>2. s[b] \in 0 .. LastBit("Q5_K")
      BY <1>a, <3>1, <2>3
    <3>3. Q5_KOwner(s[b]) = <<<<"sm", i>>, b>>
      BY <3>1, <2>3
    <3> QED BY <1>b, <3>2, <3>3
  <2> QED BY <2>1, <2>2, <2>4, Zenon DEF Owned
<1>5. ASSUME NEW i \in 0 .. 255 PROVE Owned("Q5_K", "q", i)
  <2> DEFINE s1 == Bits(48 + i \div 2, 4 * (i % 2), 4)
            s2 == Bits(16 + i \div 8, i % 8, 1)
            s == s1 \o s2
  <2>1. CreateQuantization("Q5_K", "q", i) = s
    BY Zenon DEF CreateQuantization, Q5_KQuantization
  <2>2. /\ s1 \in Seq(Int) /\ Len(s1) = 4
        /\ \A b \in 1 .. 4 : s1[b] = 8 * (48 + i \div 2) + (4 * (i % 2)) + b - 1
    BY DEF Bits
  <2>3. /\ s2 \in Seq(Int) /\ Len(s2) = 1
        /\ \A b \in 1 .. 1 : s2[b] = 8 * (16 + i \div 8) + (i % 8) + b - 1
    BY DEF Bits
  <2> HIDE DEF s1, s2
  <2>c. s = s1 \o s2
    OBVIOUS
  <2> HIDE DEF s
  <2>d. /\ s \in Seq(Int) /\ Len(s) = Len(s1) + Len(s2)
        /\ \A b \in 1 .. Len(s1) : s[b] = s1[b]
        /\ \A b \in 1 .. Len(s2) : s[Len(s1) + b] = s2[b]
    BY <2>2, <2>3, <2>c, ConcatAt
  <2>4. /\ s \in Seq(Int) /\ Len(s) = 5
        /\ \A b \in 1 .. 4 : s[b] = s1[b]
        /\ \A b \in 1 .. 1 : s[4 + b] = s2[b]
    BY <2>2, <2>3, <2>d
  <2>5. ASSUME NEW b \in 1 .. 4
        PROVE  /\ 8 * (48 + i \div 2) + (4 * (i % 2)) + b - 1 \in 0 .. 1407
               /\ Q5_KOwner(8 * (48 + i \div 2) + (4 * (i % 2)) + b - 1) = <<<<"q", i>>, b>>
    BY DEF Q5_KOwner
  <2>6. ASSUME NEW b \in 1 .. 1
        PROVE  /\ 8 * (16 + i \div 8) + (i % 8) + b - 1 \in 0 .. 1407
               /\ Q5_KOwner(8 * (16 + i \div 8) + (i % 8) + b - 1) = <<<<"q", i>>, 4 + b>>
    BY DEF Q5_KOwner
  <2>7. ASSUME NEW b \in 1 .. 5
        PROVE  s[b] \in 0 .. LastBit("Q5_K") /\ Owner("Q5_K", s[b]) = <<<<"q", i>>, b>>
    <3>1. CASE b <= 4
      <4>1. b \in 1 .. 4
        BY <3>1
      <4>2. s[b] = 8 * (48 + i \div 2) + (4 * (i % 2)) + b - 1
        BY <4>1, <2>2, <2>4
      <4> QED BY <1>a, <1>b, <4>1, <4>2, <2>5
    <3>2. CASE b > 4
      <4>1. PICK c \in 1 .. 1 : b = 4 + c
        BY <3>2
      <4>2. s[b] = 8 * (16 + i \div 8) + (i % 8) + c - 1
        BY <4>1, <2>3, <2>4
      <4> QED BY <1>a, <1>b, <4>1, <4>2, <2>6
    <3> QED BY <3>1, <3>2
  <2>8. DOMAIN s = 1 .. 5
    BY <2>4
  <2> QED BY <2>1, <2>7, <2>8, Zenon DEF Owned
<1> QED BY <1>1, <1>2, <1>3, <1>4, <1>5

LEMMA Q6_KOwned ==
    /\ Owned("Q6_K", "d", 0)
    /\ \A i \in 0 .. 15 : Owned("Q6_K", "sc", i)
    /\ \A i \in 0 .. 255 : Owned("Q6_K", "q", i)
<1>a. LastBit("Q6_K") = 1679
  <2>1. getBlockSize("Q6_K") = 210
    BY Zenon DEF getBlockSize
  <2> QED BY <2>1 DEF LastBit
<1>b. \A at : Owner("Q6_K", at) = Q6_KOwner(at)
  BY DEF Owner
<1>1. Owned("Q6_K", "d", 0)
  <2> DEFINE s == Bits(208, 0, 16)
  <2>1. CreateQuantization("Q6_K", "d", 0) = s
    BY Zenon DEF CreateQuantization, Q6_KQuantization
  <2>2. DOMAIN s = 1 .. 16
    BY DEF Bits
  <2>a. \A b \in 1 .. 16 : s[b] = b + 1663
    BY DEF Bits
  <2> HIDE DEF s
  <2>3. ASSUME NEW b \in 1 .. 16
        PROVE  /\ b + 1663 \in 0 .. 1679
               /\ Q6_KOwner(b + 1663) = <<<<"d", 0>>, b>>
    BY DEF Q6_KOwner
  <2>4. ASSUME NEW b \in 1 .. 16
        PROVE  s[b] \in 0 .. LastBit("Q6_K") /\ Owner("Q6_K", s[b]) = <<<<"d", 0>>, b>>
    <3>1. s[b] = b + 1663
      BY <2>a
    <3>2. s[b] \in 0 .. LastBit("Q6_K")
      BY <1>a, <3>1, <2>3
    <3>3. Q6_KOwner(s[b]) = <<<<"d", 0>>, b>>
      BY <3>1, <2>3
    <3> QED BY <1>b, <3>2, <3>3
  <2> QED BY <2>1, <2>2, <2>4, Zenon DEF Owned
<1>2. ASSUME NEW i \in 0 .. 15 PROVE Owned("Q6_K", "sc", i)
  <2> DEFINE s == Bits(192 + i, 0, 8)
  <2>1. CreateQuantization("Q6_K", "sc", i) = s
    BY Zenon DEF CreateQuantization, Q6_KQuantization
  <2>2. DOMAIN s = 1 .. 8
    BY DEF Bits
  <2>a. \A b \in 1 .. 8 : s[b] = 8 * (192 + i) + b - 1
    BY DEF Bits
  <2> HIDE DEF s
  <2>3. ASSUME NEW b \in 1 .. 8
        PROVE  /\ 8 * (192 + i) + b - 1 \in 0 .. 1679
               /\ Q6_KOwner(8 * (192 + i) + b - 1) = <<<<"sc", i>>, b>>
    BY DEF Q6_KOwner
  <2>4. ASSUME NEW b \in 1 .. 8
        PROVE  s[b] \in 0 .. LastBit("Q6_K") /\ Owner("Q6_K", s[b]) = <<<<"sc", i>>, b>>
    <3>1. s[b] = 8 * (192 + i) + b - 1
      BY <2>a
    <3>2. s[b] \in 0 .. LastBit("Q6_K")
      BY <1>a, <3>1, <2>3
    <3>3. Q6_KOwner(s[b]) = <<<<"sc", i>>, b>>
      BY <3>1, <2>3
    <3> QED BY <1>b, <3>2, <3>3
  <2> QED BY <2>1, <2>2, <2>4, Zenon DEF Owned
<1>3. ASSUME NEW i \in 0 .. 255 PROVE Owned("Q6_K", "q", i)
  <2> DEFINE s1 == Bits(i \div 2, 4 * (i % 2), 4)
            s2 == Bits(128 + i \div 4, 2 * (i % 4), 2)
            s == s1 \o s2
  <2>1. CreateQuantization("Q6_K", "q", i) = s
    BY Zenon DEF CreateQuantization, Q6_KQuantization
  <2>2. /\ s1 \in Seq(Int) /\ Len(s1) = 4
        /\ \A b \in 1 .. 4 : s1[b] = 8 * (i \div 2) + (4 * (i % 2)) + b - 1
    BY DEF Bits
  <2>3. /\ s2 \in Seq(Int) /\ Len(s2) = 2
        /\ \A b \in 1 .. 2 : s2[b] = 8 * (128 + i \div 4) + (2 * (i % 4)) + b - 1
    BY DEF Bits
  <2> HIDE DEF s1, s2
  <2>c. s = s1 \o s2
    OBVIOUS
  <2> HIDE DEF s
  <2>d. /\ s \in Seq(Int) /\ Len(s) = Len(s1) + Len(s2)
        /\ \A b \in 1 .. Len(s1) : s[b] = s1[b]
        /\ \A b \in 1 .. Len(s2) : s[Len(s1) + b] = s2[b]
    BY <2>2, <2>3, <2>c, ConcatAt
  <2>4. /\ s \in Seq(Int) /\ Len(s) = 6
        /\ \A b \in 1 .. 4 : s[b] = s1[b]
        /\ \A b \in 1 .. 2 : s[4 + b] = s2[b]
    BY <2>2, <2>3, <2>d
  <2>5. ASSUME NEW b \in 1 .. 4
        PROVE  /\ 8 * (i \div 2) + (4 * (i % 2)) + b - 1 \in 0 .. 1679
               /\ Q6_KOwner(8 * (i \div 2) + (4 * (i % 2)) + b - 1) = <<<<"q", i>>, b>>
    BY DEF Q6_KOwner
  <2>6. ASSUME NEW b \in 1 .. 2
        PROVE  /\ 8 * (128 + i \div 4) + (2 * (i % 4)) + b - 1 \in 0 .. 1679
               /\ Q6_KOwner(8 * (128 + i \div 4) + (2 * (i % 4)) + b - 1) = <<<<"q", i>>, 4 + b>>
    BY DEF Q6_KOwner
  <2>7. ASSUME NEW b \in 1 .. 6
        PROVE  s[b] \in 0 .. LastBit("Q6_K") /\ Owner("Q6_K", s[b]) = <<<<"q", i>>, b>>
    <3>1. CASE b <= 4
      <4>1. b \in 1 .. 4
        BY <3>1
      <4>2. s[b] = 8 * (i \div 2) + (4 * (i % 2)) + b - 1
        BY <4>1, <2>2, <2>4
      <4> QED BY <1>a, <1>b, <4>1, <4>2, <2>5
    <3>2. CASE b > 4
      <4>1. PICK c \in 1 .. 2 : b = 4 + c
        BY <3>2
      <4>2. s[b] = 8 * (128 + i \div 4) + (2 * (i % 4)) + c - 1
        BY <4>1, <2>3, <2>4
      <4> QED BY <1>a, <1>b, <4>1, <4>2, <2>6
    <3> QED BY <3>1, <3>2
  <2>8. DOMAIN s = 1 .. 6
    BY <2>4
  <2> QED BY <2>1, <2>7, <2>8, Zenon DEF Owned
<1> QED BY <1>1, <1>2, <1>3

LEMMA Q8_KOwned ==
    /\ Owned("Q8_K", "d", 0)
    /\ \A i \in 0 .. 255 : Owned("Q8_K", "q", i)
    /\ \A i \in 0 .. 15 : Owned("Q8_K", "sum", i)
<1>a. LastBit("Q8_K") = 2335
  <2>1. getBlockSize("Q8_K") = 292
    BY Zenon DEF getBlockSize
  <2> QED BY <2>1 DEF LastBit
<1>b. \A at : Owner("Q8_K", at) = Q8_KOwner(at)
  BY DEF Owner
<1>1. Owned("Q8_K", "d", 0)
  <2> DEFINE s == Bits(0, 0, 32)
  <2>1. CreateQuantization("Q8_K", "d", 0) = s
    BY Zenon DEF CreateQuantization, Q8_KQuantization
  <2>2. DOMAIN s = 1 .. 32
    BY DEF Bits
  <2>a. \A b \in 1 .. 32 : s[b] = b - 1
    BY DEF Bits
  <2> HIDE DEF s
  <2>3. ASSUME NEW b \in 1 .. 32
        PROVE  /\ b - 1 \in 0 .. 2335
               /\ Q8_KOwner(b - 1) = <<<<"d", 0>>, b>>
    BY DEF Q8_KOwner
  <2>4. ASSUME NEW b \in 1 .. 32
        PROVE  s[b] \in 0 .. LastBit("Q8_K") /\ Owner("Q8_K", s[b]) = <<<<"d", 0>>, b>>
    <3>1. s[b] = b - 1
      BY <2>a
    <3>2. s[b] \in 0 .. LastBit("Q8_K")
      BY <1>a, <3>1, <2>3
    <3>3. Q8_KOwner(s[b]) = <<<<"d", 0>>, b>>
      BY <3>1, <2>3
    <3> QED BY <1>b, <3>2, <3>3
  <2> QED BY <2>1, <2>2, <2>4, Zenon DEF Owned
<1>2. ASSUME NEW i \in 0 .. 255 PROVE Owned("Q8_K", "q", i)
  <2> DEFINE s == Bits(4 + i, 0, 8)
  <2>1. CreateQuantization("Q8_K", "q", i) = s
    BY Zenon DEF CreateQuantization, Q8_KQuantization
  <2>2. DOMAIN s = 1 .. 8
    BY DEF Bits
  <2>a. \A b \in 1 .. 8 : s[b] = 8 * (4 + i) + b - 1
    BY DEF Bits
  <2> HIDE DEF s
  <2>3. ASSUME NEW b \in 1 .. 8
        PROVE  /\ 8 * (4 + i) + b - 1 \in 0 .. 2335
               /\ Q8_KOwner(8 * (4 + i) + b - 1) = <<<<"q", i>>, b>>
    BY DEF Q8_KOwner
  <2>4. ASSUME NEW b \in 1 .. 8
        PROVE  s[b] \in 0 .. LastBit("Q8_K") /\ Owner("Q8_K", s[b]) = <<<<"q", i>>, b>>
    <3>1. s[b] = 8 * (4 + i) + b - 1
      BY <2>a
    <3>2. s[b] \in 0 .. LastBit("Q8_K")
      BY <1>a, <3>1, <2>3
    <3>3. Q8_KOwner(s[b]) = <<<<"q", i>>, b>>
      BY <3>1, <2>3
    <3> QED BY <1>b, <3>2, <3>3
  <2> QED BY <2>1, <2>2, <2>4, Zenon DEF Owned
<1>3. ASSUME NEW i \in 0 .. 15 PROVE Owned("Q8_K", "sum", i)
  <2> DEFINE s == Bits(260 + 2 * i, 0, 16)
  <2>1. CreateQuantization("Q8_K", "sum", i) = s
    BY Zenon DEF CreateQuantization, Q8_KQuantization
  <2>2. DOMAIN s = 1 .. 16
    BY DEF Bits
  <2>a. \A b \in 1 .. 16 : s[b] = 16 * i + b + 2079
    BY DEF Bits
  <2> HIDE DEF s
  <2>3. ASSUME NEW b \in 1 .. 16
        PROVE  /\ 16 * i + b + 2079 \in 0 .. 2335
               /\ Q8_KOwner(16 * i + b + 2079) = <<<<"sum", i>>, b>>
    BY DEF Q8_KOwner
  <2>4. ASSUME NEW b \in 1 .. 16
        PROVE  s[b] \in 0 .. LastBit("Q8_K") /\ Owner("Q8_K", s[b]) = <<<<"sum", i>>, b>>
    <3>1. s[b] = 16 * i + b + 2079
      BY <2>a
    <3>2. s[b] \in 0 .. LastBit("Q8_K")
      BY <1>a, <3>1, <2>3
    <3>3. Q8_KOwner(s[b]) = <<<<"sum", i>>, b>>
      BY <3>1, <2>3
    <3> QED BY <1>b, <3>2, <3>3
  <2> QED BY <2>1, <2>2, <2>4, Zenon DEF Owned
<1> QED BY <1>1, <1>2, <1>3

-----------------------------------------------------------------------------
(* BlockFormats: the decoder's places are the encoder's.                   *)

Decoded(f, kind, i) == cpuDequantToFloat(f, kind, i) = CreateQuantization(f, kind, i)

LEMMA Q4_0Decoded == Decoded("Q4_0", "d", 0) /\ \A i \in 0 .. 31 : Decoded("Q4_0", "q", i)
<1>1. Decoded("Q4_0", "d", 0)
  BY Zenon DEF Decoded, cpuDequantToFloat, CreateQuantization, DecodeQ4_0, Q4_0Quantization
<1>2. ASSUME NEW i \in 0 .. 31 PROVE Decoded("Q4_0", "q", i)
  <2>1. CreateQuantization("Q4_0", "q", i) = Bits(2 + i \div 2, 4 * (i % 2), 4)
    BY Zenon DEF CreateQuantization, Q4_0Quantization
  <2>2. cpuDequantToFloat("Q4_0", "q", i) = DecodeQ4_0("q", i)
    BY Zenon DEF cpuDequantToFloat
  <2>3. CASE i % 2 = 0
    BY <2>1, <2>2, <2>3 DEF Decoded, DecodeQ4_0
  <2>4. CASE i % 2 = 1
    BY <2>1, <2>2, <2>4 DEF Decoded, DecodeQ4_0
  <2> QED BY <2>3, <2>4
<1> QED BY <1>1, <1>2

LEMMA Q8_0Decoded == Decoded("Q8_0", "d", 0) /\ \A i \in 0 .. 31 : Decoded("Q8_0", "q", i)
BY Zenon DEF Decoded, cpuDequantToFloat, CreateQuantization, DecodeQ8_0, Q8_0Quantization

LEMMA Q4_KDecoded ==
    /\ Decoded("Q4_K", "d", 0) /\ Decoded("Q4_K", "dmin", 0)
    /\ \A i \in 0 .. 7 : Decoded("Q4_K", "sc", i) /\ Decoded("Q4_K", "sm", i)
    /\ \A i \in 0 .. 255 : Decoded("Q4_K", "q", i)
<1> USE DEF Decoded
<1>1. Decoded("Q4_K", "d", 0) /\ Decoded("Q4_K", "dmin", 0)
  BY Zenon DEF cpuDequantToFloat, CreateQuantization, DecodeQ4_K, Q4_KQuantization
<1>2. ASSUME NEW i \in 0 .. 7 PROVE Decoded("Q4_K", "sc", i) /\ Decoded("Q4_K", "sm", i)
  <2>1. 4 + i + 4 = 8 + i /\ 4 + i - 4 = i
    OBVIOUS
  <2>2. CASE i < 4
    <3>1. /\ cpuDequantToFloat("Q4_K", "sc", i) = Bits(4 + i, 0, 6)
          /\ cpuDequantToFloat("Q4_K", "sm", i) = Bits(4 + i + 4, 0, 6)
      BY <2>2, Zenon DEF cpuDequantToFloat, DecodeQ4_K
    <3>2. /\ CreateQuantization("Q4_K", "sc", i) = Bits(4 + i, 0, 6)
          /\ CreateQuantization("Q4_K", "sm", i) = Bits(8 + i, 0, 6)
      BY <2>2, Zenon DEF CreateQuantization, Q4_KQuantization
    <3> QED BY <2>1, <3>1, <3>2, Zenon
  <2>3. CASE ~(i < 4)
    <3>1. /\ cpuDequantToFloat("Q4_K", "sc", i) = Bits(4 + i + 4, 0, 4) \o Bits(4 + i - 4, 6, 2)
          /\ cpuDequantToFloat("Q4_K", "sm", i) = Bits(4 + i + 4, 4, 4) \o Bits(4 + i, 6, 2)
      BY <2>3, Zenon DEF cpuDequantToFloat, DecodeQ4_K
    <3>2. /\ CreateQuantization("Q4_K", "sc", i) = Bits(8 + i, 0, 4) \o Bits(i, 6, 2)
          /\ CreateQuantization("Q4_K", "sm", i) = Bits(8 + i, 4, 4) \o Bits(4 + i, 6, 2)
      BY <2>3, Zenon DEF CreateQuantization, Q4_KQuantization
    <3> QED BY <2>1, <3>1, <3>2, Zenon
  <2> QED BY <2>2, <2>3
<1>3. ASSUME NEW i \in 0 .. 255 PROVE Decoded("Q4_K", "q", i)
  <2> DEFINE shift == IF (i \div 32) % 2 = 0 THEN 0 ELSE 4
             first == 16 + ((i \div 32) \div 2) * 32 + (i % 32)
  <2>1. cpuDequantToFloat("Q4_K", "q", i) = Bits(first, shift, 4)
    BY Zenon DEF cpuDequantToFloat, DecodeQ4_K
  <2>2. CreateQuantization("Q4_K", "q", i)
            = Bits(16 + (i \div 64) * 32 + (i % 32), 4 * ((i \div 32) % 2), 4)
    BY Zenon DEF CreateQuantization, Q4_KQuantization
  <2>3. shift = 4 * ((i \div 32) % 2) /\ (i \div 32) \div 2 = i \div 64
    OBVIOUS
  <2>4. first = 16 + (i \div 64) * 32 + (i % 32)
    BY <2>3
  <2> HIDE DEF shift, first
  <2> QED BY <2>1, <2>2, <2>3, <2>4, Zenon
<1> QED BY <1>1, <1>2, <1>3

LEMMA Q6_KDecoded ==
    /\ Decoded("Q6_K", "d", 0) /\ \A i \in 0 .. 15 : Decoded("Q6_K", "sc", i)
    /\ \A i \in 0 .. 255 : Decoded("Q6_K", "q", i)
<1> USE DEF Decoded
<1>1. Decoded("Q6_K", "d", 0) /\ \A i \in 0 .. 15 : Decoded("Q6_K", "sc", i)
  BY Zenon DEF cpuDequantToFloat, CreateQuantization, DecodeQ6_K, Q6_KQuantization
<1>2. ASSUME NEW i \in 0 .. 255 PROVE Decoded("Q6_K", "q", i)
  <2> DEFINE low == IF i % 2 = 0 THEN 0 ELSE 4
  <2>1. cpuDequantToFloat("Q6_K", "q", i)
            = Bits(i \div 2, low, 4) \o Bits(128 + i \div 4, (i % 4) * 2, 2)
    BY Zenon DEF cpuDequantToFloat, DecodeQ6_K
  <2>2. CreateQuantization("Q6_K", "q", i)
            = Bits(i \div 2, 4 * (i % 2), 4) \o Bits(128 + i \div 4, 2 * (i % 4), 2)
    BY Zenon DEF CreateQuantization, Q6_KQuantization
  <2>3. low = 4 * (i % 2) /\ (i % 4) * 2 = 2 * (i % 4)
    OBVIOUS
  <2> HIDE DEF low
  <2> QED BY <2>1, <2>2, <2>3, Zenon
<1> QED BY <1>1, <1>2

LEMMA Q8_KDecoded == Decoded("Q8_K", "d", 0) /\ \A i \in 0 .. 255 : Decoded("Q8_K", "q", i)
<1>1. Decoded("Q8_K", "d", 0)
  BY Zenon DEF Decoded, cpuDequantToFloat, CreateQuantization, DecodeQ8_K, Q8_KQuantization
<1>2. ASSUME NEW i \in 0 .. 255 PROVE Decoded("Q8_K", "q", i)
  BY Zenon DEF Decoded, cpuDequantToFloat, CreateQuantization, DecodeQ8_K, Q8_KQuantization
<1> QED BY <1>1, <1>2

-----------------------------------------------------------------------------
(* BlockFormats: what CompressTile has put into the block.                 *)

\* A field CompressTile writes: it owns its places, and the decoder, where it
\* reads the field at all, reads it there.
Faithful(f, x) ==
    /\ x = <<x[1], x[2]>>
    /\ Owned(f, x[1], x[2])
    /\ f # "Q5_K" /\ x[1] # "sum" => Decoded(f, x[1], x[2])

LEMMA FormatShapes ==
    /\ SubBlocks("Q4_0") = 1 /\ SubBlocks("Q8_0") = 1 /\ SubBlocks("Q4_K") = 8
    /\ SubBlocks("Q5_K") = 8 /\ SubBlocks("Q6_K") = 16 /\ SubBlocks("Q8_K") = 1
    /\ \A f \in {"Q4_0", "Q8_0"} : getBlockElements(f) = 32
    /\ \A f \in {"Q4_K", "Q5_K", "Q6_K", "Q8_K"} : getBlockElements(f) = 256
<1>1. SubBlocks("Q4_0") = 1 /\ SubBlocks("Q8_0") = 1 /\ SubBlocks("Q8_K") = 1
  BY Zenon DEF SubBlocks
<1>2. SubBlocks("Q4_K") = 8 /\ SubBlocks("Q5_K") = 8 /\ SubBlocks("Q6_K") = 16
  BY Zenon DEF SubBlocks
<1> QED BY <1>1, <1>2 DEF getBlockElements

LEMMA TailShapes ==
    /\ \A f \in {"Q4_0", "Q8_0", "Q5_K", "Q6_K"} : TailFields(f) = {}
    /\ TailFields("Q4_K") = {"sc", "sm"} \X (0 .. 7)
    /\ TailFields("Q8_K") = {"sum"} \X (0 .. 15)
<1>1. /\ TailFields("Q4_0") = {} /\ TailFields("Q8_0") = {}
      /\ TailFields("Q5_K") = {} /\ TailFields("Q6_K") = {}
  BY Zenon DEF TailFields
<1>2. TailFields("Q4_K") = {"sc", "sm"} \X (0 .. 7) /\ TailFields("Q8_K") = {"sum"} \X (0 .. 15)
  BY Zenon DEF TailFields
<1> QED BY <1>1, <1>2

LEMMA SubBlockShapes ==
    ASSUME NEW f, NEW sb
    PROVE  LET n == getBlockElements(f) \div SubBlocks(f)
               own == {<<"q", e>> : e \in sb * n .. (sb + 1) * n - 1}
           IN  /\ f = "Q6_K" => SubBlockFields(f, sb) = own \cup {<<"sc", sb>>}
               /\ f = "Q5_K" => SubBlockFields(f, sb)
                                    = own \cup {<<IF sb % 2 = 0 THEN "sc" ELSE "sm", sb>>}
               /\ f \notin {"Q5_K", "Q6_K"} => SubBlockFields(f, sb) = own
<1> DEFINE n == getBlockElements(f) \div SubBlocks(f)
           own == {<<"q", e>> : e \in sb * n .. (sb + 1) * n - 1}
           more == CASE f = "Q6_K" -> {<<"sc", sb>>}
                     [] f = "Q5_K" -> {<<IF sb % 2 = 0 THEN "sc" ELSE "sm", sb>>}
                     [] OTHER -> {}
<1>1. SubBlockFields(f, sb) = own \cup more
  BY Zenon DEF SubBlockFields
<1>2. f = "Q6_K" => more = {<<"sc", sb>>}
  BY Zenon
<1>3. f = "Q5_K" => more = {<<IF sb % 2 = 0 THEN "sc" ELSE "sm", sb>>}
  BY Zenon
<1>4. f \notin {"Q5_K", "Q6_K"} => more = {}
  BY Zenon
<1> HIDE DEF own, more
<1>5. f \notin {"Q5_K", "Q6_K"} => SubBlockFields(f, sb) = own
  BY <1>1, <1>4
<1> QED BY <1>1, <1>2, <1>3, <1>5 DEF own

LEMMA SubBlockKinds ==
    ASSUME NEW f \in Formats, NEW sb \in 0 .. SubBlocks(f) - 1, NEW x \in SubBlockFields(f, sb)
    PROVE  \/ \E i \in 0 .. getBlockElements(f) - 1 : x = <<"q", i>>
           \/ f = "Q6_K" /\ x = <<"sc", sb>>
           \/ f = "Q5_K" /\ x = <<IF sb % 2 = 0 THEN "sc" ELSE "sm", sb>>
<1> DEFINE n == getBlockElements(f) \div SubBlocks(f)
           own == {<<"q", e>> : e \in sb * n .. (sb + 1) * n - 1}
<1>1. CASE x \in own
  <2>1. PICK e \in sb * n .. (sb + 1) * n - 1 : x = <<"q", e>>
    BY <1>1
  <2>2. CASE f \in {"Q4_0", "Q8_0"}
    <3>1. sb = 0 /\ n = 32 /\ getBlockElements(f) = 32
      BY <2>2, FormatShapes
    <3> QED BY <2>1, <3>1
  <2>3. CASE f = "Q8_K"
    <3>1. sb = 0 /\ n = 256 /\ getBlockElements(f) = 256
      BY <2>3, FormatShapes
    <3> QED BY <2>1, <3>1
  <2>4. CASE f \in {"Q4_K", "Q5_K"}
    <3>1. sb \in 0 .. 7 /\ n = 32 /\ getBlockElements(f) = 256
      BY <2>4, FormatShapes
    <3> QED BY <2>1, <3>1
  <2>5. CASE f = "Q6_K"
    <3>1. sb \in 0 .. 15 /\ n = 16 /\ getBlockElements(f) = 256
      BY <2>5, FormatShapes
    <3> QED BY <2>1, <3>1
  <2> QED BY <2>2, <2>3, <2>4, <2>5, FormatsAssumption
<1>2. CASE x \notin own
  <2> HIDE DEF own
  <2>1. \/ f = "Q6_K" /\ x \in {<<"sc", sb>>}
        \/ f = "Q5_K" /\ x \in {<<IF sb % 2 = 0 THEN "sc" ELSE "sm", sb>>}
    BY <1>2, SubBlockShapes DEF own
  <2> QED BY <2>1
<1> QED BY <1>1, <1>2

LEMMA StageKinds ==
    ASSUME NEW f \in Formats, NEW s \in 0 .. SubBlocks(f) + 1, NEW x \in StageFields(f, s)
    PROVE  \/ x = <<"d", 0>>
           \/ f \in {"Q4_K", "Q5_K"} /\ x = <<"dmin", 0>>
           \/ x \in TailFields(f)
           \/ \E sb \in 0 .. SubBlocks(f) - 1 : x \in SubBlockFields(f, sb)
<1>0. SubBlocks(f) \in Nat
  BY FormatShapes, FormatsAssumption
<1>1. CASE s = 0
  BY <1>1, Zenon DEF StageFields, HeadFields
<1>2. CASE s # 0 /\ s <= SubBlocks(f)
  <2>1. x \in SubBlockFields(f, s - 1)
    BY <1>2 DEF StageFields
  <2>2. s - 1 \in 0 .. SubBlocks(f) - 1
    BY <1>0, <1>2
  <2> QED BY <2>1, <2>2, Zenon
<1>3. CASE s # 0 /\ ~(s <= SubBlocks(f))
  BY <1>3 DEF StageFields
<1> QED BY <1>1, <1>2, <1>3

LEMMA StageFieldsFaithful ==
    ASSUME NEW f \in Formats, NEW s \in 0 .. SubBlocks(f) + 1, NEW x \in StageFields(f, s)
    PROVE  Faithful(f, x)
<1>1. CASE f = "Q4_0"
  <2>1. x = <<"d", 0>> \/ \E i \in 0 .. 31 : x = <<"q", i>>
    BY <1>1, FormatShapes, TailShapes, StageKinds, SubBlockKinds
  <2> QED BY <1>1, <2>1, Q4_0Owned, Q4_0Decoded DEF Faithful
<1>2. CASE f = "Q8_0"
  <2>1. x = <<"d", 0>> \/ \E i \in 0 .. 31 : x = <<"q", i>>
    BY <1>2, FormatShapes, TailShapes, StageKinds, SubBlockKinds
  <2> QED BY <1>2, <2>1, Q8_0Owned, Q8_0Decoded DEF Faithful
<1>3. CASE f = "Q4_K"
  <2>1. \/ x = <<"d", 0>> \/ x = <<"dmin", 0>>
        \/ \E i \in 0 .. 7 : x = <<"sc", i>> \/ x = <<"sm", i>>
        \/ \E i \in 0 .. 255 : x = <<"q", i>>
    BY <1>3, FormatShapes, TailShapes, StageKinds, SubBlockKinds
  <2> QED BY <1>3, <2>1, Q4_KOwned, Q4_KDecoded DEF Faithful
<1>4. CASE f = "Q5_K"
  <2>1. \/ x = <<"d", 0>> \/ x = <<"dmin", 0>>
        \/ \E i \in {0, 2, 4, 6} : x = <<"sc", i>>
        \/ \E i \in {1, 3, 5, 7} : x = <<"sm", i>>
        \/ \E i \in 0 .. 255 : x = <<"q", i>>
    BY <1>4, FormatShapes, TailShapes, StageKinds, SubBlockKinds
  <2> QED BY <1>4, <2>1, Q5_KOwned DEF Faithful
<1>5. CASE f = "Q6_K"
  <2>1. \/ x = <<"d", 0>> \/ \E i \in 0 .. 15 : x = <<"sc", i>>
        \/ \E i \in 0 .. 255 : x = <<"q", i>>
    BY <1>5, FormatShapes, TailShapes, StageKinds, SubBlockKinds
  <2> QED BY <1>5, <2>1, Q6_KOwned, Q6_KDecoded DEF Faithful
<1>6. CASE f = "Q8_K"
  <2>1. \/ x = <<"d", 0>> \/ \E i \in 0 .. 15 : x = <<"sum", i>>
        \/ \E i \in 0 .. 255 : x = <<"q", i>>
    BY <1>6, FormatShapes, TailShapes, StageKinds, SubBlockKinds
  <2> QED BY <1>6, <2>1, Q8_KOwned, Q8_KDecoded DEF Faithful
<1> QED BY <1>1, <1>2, <1>3, <1>4, <1>5, <1>6, FormatsAssumption

\* The encoder's places of a field.
PlacesOf(f, x) == CreateQuantization(f, x[1], x[2])

LEMMA WrittenOwned ==
    ASSUME NEW f \in Formats, NEW s \in 0 .. SubBlocks(f) + 1
    PROVE  /\ \A at \in DOMAIN Written(f, s) : at \in 0 .. LastBit(f) /\ Written(f, s)[at] = Owner(f, at)
           /\ \A x \in StageFields(f, s) : \A b \in DOMAIN PlacesOf(f, x) :
                 PlacesOf(f, x)[b] \in DOMAIN Written(f, s)
<1> DEFINE bits == UNION {{<<PlacesOf(f, x)[b], x, b>> : b \in DOMAIN PlacesOf(f, x)} :
                          x \in StageFields(f, s)}
           pick(at) == CHOOSE w \in bits : w[1] = at
<1>1. Written(f, s) = [at \in {w[1] : w \in bits} |-> <<pick(at)[2], pick(at)[3]>>]
  BY Zenon DEF Written, PlacesOf
<1>2. ASSUME NEW w \in bits
      PROVE  w[1] \in 0 .. LastBit(f) /\ <<w[2], w[3]>> = Owner(f, w[1])
  <2>0. PICK x \in StageFields(f, s) : \E b \in DOMAIN PlacesOf(f, x) : w = <<PlacesOf(f, x)[b], x, b>>
    BY Zenon
  <2>1. PICK b \in DOMAIN PlacesOf(f, x) : w = <<PlacesOf(f, x)[b], x, b>>
    BY <2>0
  <2>2. Faithful(f, x)
    BY StageFieldsFaithful
  <2>3. PlacesOf(f, x)[b] \in 0 .. LastBit(f) /\ Owner(f, PlacesOf(f, x)[b]) = <<<<x[1], x[2]>>, b>>
    BY <2>2 DEF Faithful, Owned, PlacesOf
  <2> QED BY <2>1, <2>2, <2>3 DEF Faithful
<1>3. ASSUME NEW x \in StageFields(f, s), NEW b \in DOMAIN PlacesOf(f, x)
      PROVE  <<PlacesOf(f, x)[b], x, b>> \in bits
  OBVIOUS
<1> HIDE DEF bits
<1>4. ASSUME NEW at \in DOMAIN Written(f, s)
      PROVE  at \in 0 .. LastBit(f) /\ Written(f, s)[at] = Owner(f, at)
  <2>1. \E w \in bits : w[1] = at
    BY <1>1, <1>4
  <2>2. pick(at) \in bits /\ pick(at)[1] = at
    BY <2>1
  <2>3. Written(f, s)[at] = <<pick(at)[2], pick(at)[3]>>
    BY <1>1, <1>4
  <2> HIDE DEF pick
  <2> QED BY <1>2, <2>2, <2>3
<1>5. ASSUME NEW x \in StageFields(f, s), NEW b \in DOMAIN PlacesOf(f, x)
      PROVE  PlacesOf(f, x)[b] \in DOMAIN Written(f, s)
  <2>1. <<PlacesOf(f, x)[b], x, b>>[1] \in {w[1] : w \in bits}
    BY <1>3
  <2> QED BY <1>1, <2>1
<1> QED BY <1>4, <1>5

\* Every bit written so far is held by the field that owns it, and every field
\* of an earlier stage has all its bits in the block.
PackedInv ==
    /\ format \in Formats \cup {""}
    /\ format = "" => stage = 0 /\ packed = <<>>
    /\ format # "" =>
          /\ stage \in 0 .. SubBlocks(format) + 2
          /\ \A at \in DOMAIN packed : at \in 0 .. LastBit(format) /\ packed[at] = Owner(format, at)
          /\ \A s \in 0 .. stage - 1 : \A x \in StageFields(format, s) :
                \A b \in DOMAIN PlacesOf(format, x) : PlacesOf(format, x)[b] \in DOMAIN packed

LEMMA BlockSizeInt == \A f \in Formats : getBlockSize(f) \in Int
<1>1. /\ getBlockSize("Q4_0") = 18 /\ getBlockSize("Q8_0") = 34 /\ getBlockSize("Q4_K") = 144
      /\ getBlockSize("Q5_K") = 176 /\ getBlockSize("Q6_K") = 210 /\ getBlockSize("Q8_K") = 292
  BY Zenon DEF getBlockSize
<1> QED BY <1>1, FormatsAssumption

LEMMA SubBlocksNat == \A f \in Formats : SubBlocks(f) \in Nat
BY FormatShapes, FormatsAssumption

LEMMA NextStage ==
    ASSUME NEW n \in Nat, NEW s \in 0 .. n + 2, s <= n + 1
    PROVE  s \in 0 .. n + 1 /\ s + 1 \in 0 .. n + 2 /\ 0 .. s + 1 - 1 = 0 .. s
OBVIOUS

LEMMA FirstStage == ASSUME NEW n \in Nat PROVE 0 \in 0 .. n + 2 /\ 0 .. 0 - 1 = {}
OBVIOUS

LEMMA PackedInvStep ==
    ASSUME PackedInv, [FormatNext]_formatVars PROVE PackedInv'
<1>1. CASE BeginBlock
  <2>1. format' \in Formats /\ stage' = 0 /\ packed' = <<>>
    BY <1>1 DEF BeginBlock
  <2>2. format' # "" /\ SubBlocks(format') \in Nat
    BY <2>1, FormatsAssumption, SubBlocksNat
  <2>3. DOMAIN packed' = {}
    BY <2>1
  <2>4. stage' = 0
    BY <2>1
  <2>5. 0 .. stage' - 1 = {} /\ stage' \in 0 .. SubBlocks(format') + 2
    BY <2>2, <2>4, FirstStage, Zenon
  <2> QED BY <2>1, <2>2, <2>3, <2>5, Zenon DEF PackedInv
<1>2. CASE CompressStage
  <2> DEFINE new == Written(format, stage)
  <2>0. format # "" /\ stage <= SubBlocks(format) + 1 /\ format' = format /\ stage' = stage + 1
    BY <1>2 DEF CompressStage
  <2>1. packed' = [at \in DOMAIN new \cup DOMAIN packed |->
                     IF at \in DOMAIN new THEN new[at] ELSE packed[at]]
    BY <1>2 DEF CompressStage
  <2>2. format \in Formats /\ stage \in 0 .. SubBlocks(format) + 2
    BY <2>0, Zenon DEF PackedInv
  <2>a. SubBlocks(format) \in Nat
    BY <2>2, SubBlocksNat
  <2>b. /\ stage \in 0 .. SubBlocks(format) + 1 /\ stage + 1 \in 0 .. SubBlocks(format) + 2
        /\ 0 .. stage + 1 - 1 = 0 .. stage
    BY <2>0, <2>2, <2>a, NextStage, Zenon
  <2>3. /\ \A at \in DOMAIN new : at \in 0 .. LastBit(format) /\ new[at] = Owner(format, at)
        /\ \A x \in StageFields(format, stage) : \A b \in DOMAIN PlacesOf(format, x) :
              PlacesOf(format, x)[b] \in DOMAIN new
    BY <2>2, <2>b, WrittenOwned
  <2> HIDE DEF new
  <2>4. ASSUME NEW at \in DOMAIN packed'
        PROVE  at \in 0 .. LastBit(format) /\ packed'[at] = Owner(format, at)
    BY <2>0, <2>1, <2>3 DEF PackedInv
  <2>5. ASSUME NEW s \in 0 .. stage, NEW x \in StageFields(format, s),
               NEW b \in DOMAIN PlacesOf(format, x)
        PROVE  PlacesOf(format, x)[b] \in DOMAIN packed'
    <3>1. CASE s = stage
      BY <3>1, <2>1, <2>3
    <3>2. CASE s \in 0 .. stage - 1
      BY <3>2, <2>0, <2>1 DEF PackedInv
    <3> QED BY <2>2, <2>a, <3>1, <3>2
  <2>6. stage' \in 0 .. SubBlocks(format') + 2
    <3>1. stage' = stage + 1 /\ format' = format
      BY <2>0
    <3> QED BY <3>1, <2>b
  <2>7. 0 .. stage' - 1 = 0 .. stage
    <3>1. stage' = stage + 1
      BY <2>0
    <3> QED BY <3>1, <2>b
  <2> QED BY <2>0, <2>2, <2>4, <2>5, <2>6, <2>7 DEF PackedInv
<1>3. CASE UNCHANGED formatVars
  BY <1>3 DEF formatVars, PackedInv
<1> QED BY <1>1, <1>2, <1>3 DEF FormatNext

LEMMA PackedInvReadsBack == PackedInv => ReadsBackBlock
<1> SUFFICES ASSUME PackedInv PROVE ReadsBackBlock
  OBVIOUS
<1>1. CASE format = ""
  <2>0. stage = 0 /\ packed = <<>>
    BY <1>1, Zenon DEF PackedInv
  <2>1. 0 .. stage - 1 = {}
    BY <2>0
  <2>2. DOMAIN packed = {}
    BY <2>0
  <2> QED BY <2>1, <2>2, Zenon DEF ReadsBackBlock
<1>2. CASE format # ""
  <2>1. format \in Formats /\ SubBlocks(format) \in Nat /\ stage \in 0 .. SubBlocks(format) + 2
    BY <1>2, SubBlocksNat DEF PackedInv
  <2>2. getBlockSize(format) \in Int
    BY <2>1, BlockSizeInt
  <2>3. \A at \in DOMAIN packed : at < 8 * getBlockSize(format)
    <3>1. \A at \in DOMAIN packed : at \in 0 .. LastBit(format)
      BY <1>2, Zenon DEF PackedInv
    <3> QED BY <3>1, <2>2 DEF LastBit
  <2>4. ASSUME NEW s \in 0 .. stage - 1, NEW x \in StageFields(format, s)
        PROVE  /\ HeldAt(x, CreateQuantization(format, x[1], x[2]))
               /\ format # "Q5_K" /\ x[1] # "sum" =>
                     HeldAt(x, cpuDequantToFloat(format, x[1], x[2]))
    <3>1. Faithful(format, x)
      BY <2>1, StageFieldsFaithful
    <3>2. ASSUME NEW b \in DOMAIN PlacesOf(format, x)
          PROVE  /\ PlacesOf(format, x)[b] \in DOMAIN packed
                 /\ packed[PlacesOf(format, x)[b]] = <<x, b>>
      <4>1. PlacesOf(format, x)[b] \in DOMAIN packed
        BY <1>2 DEF PackedInv
      <4>2. Owner(format, PlacesOf(format, x)[b]) = <<x, b>>
        BY <3>1 DEF Faithful, Owned, PlacesOf
      <4> QED BY <1>2, <4>1, <4>2 DEF PackedInv
    <3>3. HeldAt(x, PlacesOf(format, x))
      BY <3>2 DEF HeldAt
    <3> QED BY <3>1, <3>3 DEF Faithful, Decoded, PlacesOf
  <2> QED BY <2>3, <2>4 DEF ReadsBackBlock
<1> QED BY <1>1, <1>2

\* Whatever formats are packed, in whatever order: a block of theirs stays inside
\* its bytes, no number of it is overwritten by a later one, and the decoder reads
\* every number from where the encoder put it (CompressTile and cpuDequantToFloat).
THEOREM ReadsBackAlways == FormatSpec => []ReadsBackBlock
<1>1. FormatInit => PackedInv
  BY DEF FormatInit, PackedInv
<1>2. PackedInv /\ [FormatNext]_formatVars => PackedInv'
  BY PackedInvStep
<1> QED BY <1>1, <1>2, PackedInvReadsBack, PTL DEF FormatSpec
=============================================================================
