----------------------------- MODULE RingProofs -----------------------------
(***************************************************************************)
(* The three buffers of the channel, for any capacity: push() and pop()    *)
(* keep the indices as far apart as the buffer has elements, across the    *)
(* wrap-around too, and are Append, Head and Tail of its contents.         *)
(***************************************************************************)
EXTENDS Ring, Integers, TLAPS

\* A size_t counts to a multiple of a capacity that is a power of two.
CapacityOK(n) ==
    /\ n \in Nat /\ SizeMax \in Nat
    /\ HasSingleBit(n) => SizeMax % n = 0 /\ SizeMax > n

\* The indices of buffer b for elements of S are in range, and as far apart as it
\* has elements.
RingOK(b, n, S) ==
    /\ b \in [m_head : Nat, m_tail : Nat, m_num : Nat, m_array : [0..(Slots(n) - 1) -> S]]
    /\ IF HasSingleBit(n)
       THEN /\ b.m_head < SizeMax /\ b.m_tail < SizeMax /\ b.m_num = 0
            /\ Length(b, n) <= n
       ELSE /\ b.m_head < Slots(n) /\ b.m_num <= Slots(n)
            /\ b.m_tail = IF b.m_head + b.m_num < Slots(n)
                          THEN b.m_head + b.m_num ELSE b.m_head + b.m_num - Slots(n)
-----------------------------------------------------------------------------
(* Arithmetic.                                                             *)

\* A remainder is determined by any quotient that leaves one.
LEMMA ModUnique ==
    ASSUME NEW c \in Nat \ {0}, NEW q \in Int, NEW r \in 0..(c - 1)
    PROVE  (c * q + r) % c = r
  OBVIOUS

\* Division with remainder.
LEMMA DivMod ==
    ASSUME NEW c \in Nat \ {0}, NEW a \in Nat
    PROVE  /\ a % c \in 0..(c - 1)
           /\ \E q \in Nat : a = c * q + (a % c)
  <1>1. a = c * (a \div c) + (a % c)
    OBVIOUS
  <1>2. a \div c \in Nat
    OBVIOUS
  <1>3. a % c \in 0..(c - 1)
    OBVIOUS
  <1>4. QED
    BY <1>1, <1>2, <1>3, Zenon

\* The remainder after a step of less than c.
LEMMA ModPlus ==
    ASSUME NEW c \in Nat \ {0}, NEW a \in Nat, NEW j \in 0..(c - 1)
    PROVE  (a + j) % c = IF (a % c) + j < c THEN (a % c) + j ELSE (a % c) + j - c
  <1>1. PICK q \in Nat, r \in 0..(c - 1) : a = c * q + r /\ r = a % c
    BY DivMod, Zenon
  <1>2. PICK p \in Nat : p = c * q
    OBVIOUS
  <1>3. a = p + r
    BY <1>1, <1>2
  <1>4. CASE r + j < c
    <2>1. r + j \in 0..(c - 1) /\ q \in Int /\ a + j = p + (r + j)
      BY <1>3, <1>4
    <2>2. (c * q + (r + j)) % c = r + j
      BY <2>1, ModUnique, Zenon
    <2>3. QED
      BY <1>1, <1>2, <1>4, <2>1, <2>2, Zenon
  <1>5. CASE ~(r + j < c)
    <2>1. r + j - c \in 0..(c - 1) /\ q + 1 \in Int
      BY <1>5
    <2>2. c * (q + 1) = p + c
      BY <1>2
    <2>3. (c * (q + 1) + (r + j - c)) % c = r + j - c
      BY <2>1, ModUnique, Zenon
    <2>4. a + j = (p + c) + (r + j - c)
      BY <1>3
    <2>5. QED
      BY <1>1, <1>5, <2>2, <2>3, <2>4
  <1>6. QED
    BY <1>4, <1>5

\* Within c successive indices no slot comes twice.
LEMMA ModDistinct ==
    ASSUME NEW c \in Nat \ {0}, NEW a \in Nat, NEW j \in 0..(c - 1), NEW k \in 0..(c - 1),
           (a + j) % c = (a + k) % c
    PROVE  j = k
  <1>1. PICK r \in 0..(c - 1) : r = a % c
    BY DivMod, Zenon
  <1>2. /\ (a + j) % c = IF r + j < c THEN r + j ELSE r + j - c
        /\ (a + k) % c = IF r + k < c THEN r + k ELSE r + k - c
    BY <1>1, ModPlus, Zenon
  <1>3. (IF r + j < c THEN r + j ELSE r + j - c) = (IF r + k < c THEN r + k ELSE r + k - c)
    BY <1>2, Zenon
  <1>4. QED
    BY <1>3

\* A multiple of c does not change the slot.
LEMMA ModMultiple ==
    ASSUME NEW c \in Nat \ {0}, NEW s \in Nat, s % c = 0, NEW a \in Nat
    PROVE  (s + a) % c = a % c
  <1>1. PICK q \in Nat, r \in 0..(c - 1) : a = c * q + r /\ r = a % c
    BY DivMod, Zenon
  <1>2. PICK m \in Nat : s = c * m + (s % c)
    BY DivMod, Zenon
  <1>3. c * (m + q) = c * m + c * q
    OBVIOUS
  <1>4. PICK p \in Nat, u \in Nat : p = c * q /\ u = c * m
    OBVIOUS
  <1>5. s = u /\ a = p + r /\ c * (m + q) = u + p
    BY <1>1, <1>2, <1>3, <1>4
  <1>6. s + a = (u + p) + r /\ m + q \in Int
    BY <1>5
  <1>7. (c * (m + q) + r) % c = r
    BY <1>6, ModUnique, Zenon
  <1>8. QED
    BY <1>1, <1>5, <1>6, <1>7

\* How far apart two indices are that count modulo s.
LEMMA Gap ==
    ASSUME NEW s \in Nat \ {0}, NEW h \in 0..(s - 1), NEW t \in 0..(s - 1)
    PROVE  (t + s - h) % s = IF t >= h THEN t - h ELSE t + s - h
  <1>1. CASE t >= h
    <2>1. t - h \in 0..(s - 1) /\ t + s - h = s * 1 + (t - h)
      BY <1>1
    <2>2. (s * 1 + (t - h)) % s = t - h
      BY <2>1, ModUnique
    <2>3. QED
      BY <1>1, <2>1, <2>2
  <1>2. CASE ~(t >= h)
    <2>1. t + s - h \in 0..(s - 1) /\ t + s - h = s * 0 + (t + s - h)
      BY <1>2
    <2>2. (s * 0 + (t + s - h)) % s = t + s - h
      BY <2>1, ModUnique
    <2>3. QED
      BY <1>2, <2>1, <2>2
  <1>3. QED
    BY <1>1, <1>2
-----------------------------------------------------------------------------
(* The buffers.                                                            *)

\* Capacities: a channel without capacity has one slot and is not masked.
LEMMA Capacities ==
    ASSUME NEW n, CapacityOK(n)
    PROVE  /\ n \in Nat /\ Slots(n) \in Nat \ {0}
           /\ HasSingleBit(n) =>
                /\ n \in Nat \ {0} /\ Slots(n) = n
                /\ SizeMax \in Nat \ {0} /\ SizeMax % n = 0 /\ SizeMax > n
           /\ n # 0 => Slots(n) = n
  <1>1. n \in Nat /\ SizeMax \in Nat
    BY DEF CapacityOK
  <1>2. ~HasSingleBit(0)
    BY DEF HasSingleBit
  <1>3. HasSingleBit(n) => SizeMax % n = 0 /\ SizeMax > n
    BY DEF CapacityOK
  <1>4. QED
    BY <1>1, <1>2, <1>3 DEF Slots

\* A buffer is constructed empty.
LEMMA RingStarts ==
    ASSUME NEW n, CapacityOK(n), NEW S, empty_slot \in S
    PROVE  RingOK(RingInit(n), n, S) /\ empty(RingInit(n), n)
  <1>. DEFINE b == RingInit(n)
  <1>1. /\ Slots(n) \in Nat \ {0}
        /\ HasSingleBit(n) => n \in Nat /\ SizeMax \in Nat \ {0}
    BY Capacities
  <1>2. /\ b.m_head = 0 /\ b.m_tail = 0 /\ b.m_num = 0
        /\ b \in [m_head : Nat, m_tail : Nat, m_num : Nat, m_array : [0..(Slots(n) - 1) -> S]]
    BY DEF RingInit
  <1>3. HasSingleBit(n) => Length(b, n) = 0
    BY <1>1, <1>2, Gap DEF Length
  <1>4. QED
    BY <1>1, <1>2, <1>3 DEF RingOK, empty

\* The number of elements, and where the next one goes.
LEMMA RingLength ==
    ASSUME NEW n, CapacityOK(n), NEW S, NEW b, RingOK(b, n, S)
    PROVE  /\ Length(b, n) \in 0..Slots(n)
           /\ empty(b, n) <=> Length(b, n) = 0
           /\ full(b, n) <=> Length(b, n) = Slots(n)
           /\ Index(b.m_head, n) = b.m_head % Slots(n)
           /\ Index(b.m_tail, n) =
                (b.m_head + Length(b, n)) % Slots(n)
  <1>. DEFINE c == Slots(n)
  <1>0. /\ b.m_head \in Nat /\ b.m_tail \in Nat /\ b.m_num \in Nat
        /\ n \in Nat /\ c \in Nat \ {0}
    BY Capacities DEF RingOK
  <1>1. CASE HasSingleBit(n)
    <2>1. /\ SizeMax \in Nat \ {0} /\ SizeMax % c = 0 /\ c = n
          /\ b.m_head \in 0..(SizeMax - 1) /\ b.m_tail \in 0..(SizeMax - 1)
      BY <1>0, <1>1, Capacities DEF RingOK
    <2>2. PICK h \in 0..(SizeMax - 1), t \in 0..(SizeMax - 1) : h = b.m_head /\ t = b.m_tail
      BY <2>1
    <2>3. Length(b, n) = IF t >= h THEN t - h ELSE t + SizeMax - h
      BY <1>1, <2>1, <2>2, Gap, Zenon DEF Length
    <2>4. Length(b, n) <= c /\ Length(b, n) = (t + SizeMax - h) % SizeMax
      BY <1>1, <2>1, <2>2 DEF RingOK, Length
    <2>5. Length(b, n) \in 0..c
      BY <1>0, <2>1, <2>3, <2>4
    <2>6. empty(b, n) <=> Length(b, n) = 0
      BY <1>1, <2>1, <2>2, <2>3 DEF empty
    <2>7. full(b, n) <=> Length(b, n) = c
      BY <1>1, <2>1, <2>2, <2>4 DEF full
    <2>8. t % c = (h + Length(b, n)) % c
      <3>1. CASE t >= h
        <4>1. h + Length(b, n) = t
          BY <2>1, <2>3, <3>1
        <4>2. QED
          BY <4>1
      <3>2. CASE ~(t >= h)
        <4>1. h + Length(b, n) = SizeMax + t /\ t \in Nat
          BY <2>1, <2>3, <3>2
        <4>2. (SizeMax + t) % c = t % c
          BY <1>0, <2>1, <4>1, ModMultiple, Zenon
        <4>3. QED
          BY <4>1, <4>2
      <3>3. QED
        BY <3>1, <3>2
    <2>9. Index(b.m_head, n) = b.m_head % c /\ Index(b.m_tail, n) = t % c
      BY <1>1, <2>1, <2>2 DEF Index
    <2>10. QED
      BY <2>2, <2>5, <2>6, <2>7, <2>8, <2>9
  <1>2. CASE ~HasSingleBit(n)
    <2>1. /\ Length(b, n) = b.m_num /\ Length(b, n) \in 0..c /\ b.m_head \in 0..(c - 1)
          /\ b.m_tail = IF b.m_head + b.m_num < c
                          THEN b.m_head + b.m_num ELSE b.m_head + b.m_num - c
      BY <1>0, <1>2 DEF RingOK, Length
    <2>2. (empty(b, n) <=> Length(b, n) = 0) /\ (full(b, n) <=> Length(b, n) = c)
      BY <1>2, <2>1 DEF empty, full
    <2>3. Index(b.m_head, n) = b.m_head /\ Index(b.m_tail, n) = b.m_tail
      BY <1>2 DEF Index
    <2>4. PICK h \in 0..(c - 1), m \in 0..c : h = b.m_head /\ m = b.m_num
      BY <1>0, <2>1
    <2>5. h % c = h
      BY <1>0, <2>4
    <2>6. (h + m) % c = IF h + m < c THEN h + m ELSE h + m - c
      <3>1. CASE m = c
        <4>1. h + m = c * 1 + h /\ h + m - c = h /\ ~(h + m < c) /\ 1 \in Int
          BY <1>0, <2>4, <3>1
        <4>2. (c * 1 + h) % c = h
          BY <1>0, <4>1, ModUnique, Zenon
        <4>3. QED
          BY <4>1, <4>2, Zenon
      <3>2. CASE m # c
        <4>1. m \in 0..(c - 1) /\ h \in Nat
          BY <1>0, <2>4, <3>2
        <4>2. (h + m) % c = IF (h % c) + m < c THEN (h % c) + m ELSE (h % c) + m - c
          BY <1>0, <4>1, ModPlus, Zenon
        <4>3. QED
          BY <2>5, <4>2
      <3>3. QED
        BY <3>1, <3>2
    <2>7. QED
      BY <2>1, <2>2, <2>3, <2>4, <2>5, <2>6
  <1>3. QED
    BY <1>1, <1>2

\* How an index advances.
LEMMA Advancing ==
    ASSUME NEW n, CapacityOK(n), NEW k \in Nat
    PROVE  /\ n = 0 => Slots(n) = 1 /\ Advance(k, n) = k
           /\ HasSingleBit(n) => Advance(k, n) = (k + 1) % SizeMax
           /\ n # 0 /\ ~HasSingleBit(n) =>
                Advance(k, n) = IF k + 1 >= Slots(n) THEN 0 ELSE k + 1
  <1>1. HasSingleBit(n) => n # 0
    BY Capacities
  <1>2. QED
    BY <1>1 DEF Slots, Advance

\* The slot after the first one.
LEMMA RingAdvance ==
    ASSUME NEW n, CapacityOK(n), NEW S, NEW b, RingOK(b, n, S), NEW x \in Nat
    PROVE  (Advance(b.m_head, n) + x) % Slots(n)
              = (b.m_head + 1 + x) % Slots(n)
  <1>. DEFINE c == Slots(n)
  <1>0. n \in Nat /\ c \in Nat \ {0} /\ b.m_head \in Nat
    BY Capacities DEF RingOK
  <1>1. PICK h \in Nat : h = b.m_head
    BY <1>0
  <1>2. CASE n = 0
    <2>1. c = 1 /\ Advance(h, n) = h
      BY <1>2, Advancing
    <2>2. h + x \in Nat /\ h + 1 + x \in Nat /\ 1 \in Nat \ {0}
      OBVIOUS
    <2>3. (h + x) % 1 \in 0..(1 - 1) /\ (h + 1 + x) % 1 \in 0..(1 - 1)
      BY <2>2, DivMod, Zenon
    <2>4. (h + x) % 1 = (h + 1 + x) % 1
      BY <2>3
    <2>5. QED
      BY <1>1, <2>1, <2>4
  <1>3. CASE HasSingleBit(n)
    <2>1. /\ SizeMax \in Nat \ {0} /\ SizeMax % c = 0 /\ h + 1 <= SizeMax /\ n # 0
      BY <1>0, <1>1, <1>3, Capacities DEF RingOK
    <2>2. Advance(h, n) = (h + 1) % SizeMax
      BY <1>3, Advancing
    <2>3. CASE h + 1 < SizeMax
      <3>1. (h + 1) % SizeMax = h + 1
        BY <2>1, <2>3
      <3>2. QED
        BY <1>1, <2>2, <3>1
    <2>4. CASE ~(h + 1 < SizeMax)
      <3>1. h + 1 = SizeMax /\ SizeMax % SizeMax = 0
        BY <2>1, <2>4
      <3>2. Advance(h, n) = 0 /\ 0 + x = x
        BY <2>2, <3>1
      <3>3. (SizeMax + x) % c = x % c
        BY <1>0, <2>1, ModMultiple, Zenon
      <3>4. QED
        BY <1>1, <3>1, <3>2, <3>3
    <2>5. QED
      BY <2>3, <2>4
  <1>4. CASE n # 0 /\ ~HasSingleBit(n)
    <2>1. h < c /\ Advance(h, n) = IF h + 1 >= c THEN 0 ELSE h + 1
      BY <1>0, <1>1, <1>4, Advancing, Zenon DEF RingOK
    <2>2. CASE h + 1 >= c
      <3>1. h + 1 = c /\ c % c = 0 /\ Advance(h, n) = 0 /\ 0 + x = x /\ c \in Nat
        BY <1>0, <2>1, <2>2
      <3>2. (c + x) % c = x % c
        BY <1>0, <3>1, ModMultiple, Zenon
      <3>3. QED
        BY <1>1, <3>1, <3>2
    <2>3. CASE ~(h + 1 >= c)
      BY <1>1, <2>1, <2>3
    <2>4. QED
      BY <2>2, <2>3
  <1>5. QED
    BY <1>2, <1>3, <1>4, Zenon

\* The indices after a push() into a buffer that is not full.
LEMMA RingPush ==
    ASSUME NEW n, CapacityOK(n), NEW S, NEW b, RingOK(b, n, S), ~full(b, n),
           NEW v \in S
    PROVE  LET q == push(b, v, n) IN
           /\ RingOK(q, n, S)
           /\ Length(q, n) = Length(b, n) + 1
           /\ q.m_head = b.m_head
           /\ q.m_array = [b.m_array EXCEPT
                ![(b.m_head + Length(b, n)) % Slots(n)] = v]
  <1>. DEFINE c == Slots(n)
              q == push(b, v, n)
  <1>1. n \in Nat /\ c \in Nat \ {0} /\ Length(b, n) \in 0..c /\ Length(b, n) < c
    <2>1. n \in Nat /\ c \in Nat \ {0} /\ Length(b, n) \in 0..c /\ Length(b, n) # c
      BY Capacities, RingLength
    <2>2. QED
      BY <2>1
  <1>2. /\ b \in [m_head : Nat, m_tail : Nat, m_num : Nat, m_array : [0..(c - 1) -> S]]
        /\ Index(b.m_tail, n) = (b.m_head + Length(b, n)) % c
    BY RingLength DEF RingOK
  <1>3. PICK h \in Nat, t \in Nat, m \in Nat : h = b.m_head /\ t = b.m_tail /\ m = b.m_num
    BY <1>2
  <1>4. q.m_head = h /\ q.m_tail = Advance(t, n) /\ q.m_num = Count(b, m + 1, n)
    BY <1>2, <1>3 DEF push
  <1>5. q.m_array = [b.m_array EXCEPT ![Index(t, n)] = v]
    BY <1>2, <1>3 DEF push
  <1>6. q.m_tail \in Nat /\ q.m_num \in Nat
           => q \in [m_head : Nat, m_tail : Nat, m_num : Nat, m_array : [0..(c - 1) -> S]]
    <2>1. q.m_array \in [0..(c - 1) -> S]
      BY <1>2, <1>5, Zenon
    <2>2. QED
      BY <1>2, <1>3, <1>4, <2>1, Zenon DEF push
  <1>7. CASE HasSingleBit(n)
    <2>1. /\ SizeMax \in Nat \ {0} /\ c = n /\ c < SizeMax
          /\ h \in 0..(SizeMax - 1) /\ t \in 0..(SizeMax - 1) /\ m = 0
      BY <1>1, <1>3, <1>7, Capacities DEF RingOK
    <2>2. Length(b, n) = IF t >= h THEN t - h ELSE t + SizeMax - h
      BY <1>3, <1>7, <2>1, Gap, Zenon DEF Length
    <2>3. PICK u \in 0..(SizeMax - 1) : /\ u = q.m_tail
                                        /\ u = IF t + 1 < SizeMax THEN t + 1 ELSE 0
      <3>1. (t + 1) % SizeMax = IF t + 1 < SizeMax THEN t + 1 ELSE 0
        BY <2>1
      <3>2. Advance(t, n) = (t + 1) % SizeMax
        BY <1>7, Advancing
      <3>3. QED
        BY <1>4, <2>1, <3>1, <3>2
    <2>4. Length(q, n) = IF u >= h THEN u - h ELSE u + SizeMax - h
      BY <1>4, <1>7, <2>1, <2>3, Gap DEF Length
    <2>5. Length(q, n) = Length(b, n) + 1 /\ Length(q, n) <= n
      BY <1>1, <2>1, <2>2, <2>3, <2>4
    <2>6. q.m_num = 0 /\ q.m_tail \in Nat
      BY <1>3, <1>4, <1>7, <2>1, <2>3 DEF Count
    <2>7. RingOK(q, n, S)
      BY <1>4, <1>6, <1>7, <2>1, <2>3, <2>5, <2>6 DEF RingOK
    <2>8. QED
      BY <1>2, <1>3, <1>4, <1>5, <2>5, <2>7, Zenon
  <1>8. CASE ~HasSingleBit(n)
    <2>1. /\ Length(b, n) = m /\ h < c
          /\ t = IF h + m < c THEN h + m ELSE h + m - c
      BY <1>3, <1>8 DEF RingOK, Length
    <2>2. q.m_num = m + 1 /\ Length(q, n) = m + 1
      BY <1>4, <1>8 DEF Count, Length
    <2>3. Advance(t, n) = IF h + (m + 1) < c THEN h + (m + 1) ELSE h + (m + 1) - c
      <3>1. CASE n = 0
        <4>1. c = 1 /\ Advance(t, n) = t
          BY <3>1, Advancing
        <4>2. m = 0 /\ h = 0 /\ t = 0
          BY <1>1, <2>1, <4>1
        <4>3. QED
          BY <4>1, <4>2
      <3>2. CASE n # 0
        <4>1. Advance(t, n) = IF t + 1 >= c THEN 0 ELSE t + 1
          BY <1>8, <3>2, Advancing
        <4>2. QED
          BY <1>1, <2>1, <4>1
      <3>3. QED
        BY <3>1, <3>2
    <2>4. q.m_tail \in Nat /\ q.m_num \in Nat /\ q.m_num <= c
      BY <1>1, <1>4, <2>1, <2>2, <2>3
    <2>5. q.m_tail = IF q.m_head + q.m_num < c
                     THEN q.m_head + q.m_num ELSE q.m_head + q.m_num - c
      BY <1>4, <2>2, <2>3
    <2>6. RingOK(q, n, S)
      BY <1>4, <1>6, <1>8, <2>1, <2>4, <2>5, Zenon DEF RingOK
    <2>7. QED
      BY <1>2, <1>3, <1>4, <1>5, <2>1, <2>2, <2>6, Zenon
  <1>9. QED
    BY <1>7, <1>8

\* The indices after a pop() from a buffer that is not empty.
LEMMA RingPop ==
    ASSUME NEW n, CapacityOK(n), NEW S, NEW b, RingOK(b, n, S), ~empty(b, n),
           empty_slot \in S
    PROVE  LET q == pop(b, n) IN
           /\ RingOK(q, n, S)
           /\ Length(q, n) = Length(b, n) - 1
           /\ q.m_head = Advance(b.m_head, n)
           /\ q.m_array = [b.m_array EXCEPT ![b.m_head % Slots(n)] = empty_slot]
  <1>. DEFINE c == Slots(n)
              q == pop(b, n)
  <1>1. n \in Nat /\ c \in Nat \ {0} /\ Length(b, n) \in 0..c /\ Length(b, n) > 0
    <2>1. n \in Nat /\ c \in Nat \ {0} /\ Length(b, n) \in 0..c /\ Length(b, n) # 0
      BY Capacities, RingLength
    <2>2. QED
      BY <2>1
  <1>2. /\ b \in [m_head : Nat, m_tail : Nat, m_num : Nat, m_array : [0..(c - 1) -> S]]
        /\ Index(b.m_head, n) = b.m_head % c
    BY RingLength DEF RingOK
  <1>3. PICK h \in Nat, t \in Nat, m \in Nat : h = b.m_head /\ t = b.m_tail /\ m = b.m_num
    BY <1>2
  <1>4. q.m_head = Advance(h, n) /\ q.m_tail = t /\ q.m_num = Count(b, m - 1, n)
    BY <1>2, <1>3 DEF pop
  <1>5. q.m_array = [b.m_array EXCEPT ![Index(h, n)] = empty_slot]
    BY <1>2, <1>3 DEF pop
  <1>6. q.m_head \in Nat /\ q.m_num \in Nat
           => q \in [m_head : Nat, m_tail : Nat, m_num : Nat, m_array : [0..(c - 1) -> S]]
    <2>1. q.m_array \in [0..(c - 1) -> S]
      BY <1>2, <1>5, Zenon
    <2>2. QED
      BY <1>2, <1>3, <1>4, <2>1, Zenon DEF pop
  <1>7. CASE HasSingleBit(n)
    <2>1. /\ SizeMax \in Nat \ {0} /\ c = n /\ c < SizeMax
          /\ h \in 0..(SizeMax - 1) /\ t \in 0..(SizeMax - 1) /\ m = 0
      BY <1>1, <1>3, <1>7, Capacities DEF RingOK
    <2>2. Length(b, n) = IF t >= h THEN t - h ELSE t + SizeMax - h
      BY <1>3, <1>7, <2>1, Gap, Zenon DEF Length
    <2>3. PICK u \in 0..(SizeMax - 1) : /\ u = q.m_head
                                        /\ u = IF h + 1 < SizeMax THEN h + 1 ELSE 0
      <3>1. (h + 1) % SizeMax = IF h + 1 < SizeMax THEN h + 1 ELSE 0
        BY <2>1
      <3>2. Advance(h, n) = (h + 1) % SizeMax
        BY <1>7, Advancing
      <3>3. QED
        BY <1>4, <2>1, <3>1, <3>2
    <2>4. Length(q, n) = IF t >= u THEN t - u ELSE t + SizeMax - u
      BY <1>4, <1>7, <2>1, <2>3, Gap DEF Length
    <2>5. Length(q, n) = Length(b, n) - 1 /\ Length(q, n) <= n
      BY <1>1, <2>1, <2>2, <2>3, <2>4
    <2>6. q.m_num = 0 /\ q.m_head \in Nat
      BY <1>3, <1>4, <1>7, <2>1, <2>3 DEF Count
    <2>7. RingOK(q, n, S)
      BY <1>4, <1>6, <1>7, <2>1, <2>3, <2>5, <2>6 DEF RingOK
    <2>8. QED
      BY <1>2, <1>3, <1>4, <1>5, <2>5, <2>7, Zenon
  <1>8. CASE ~HasSingleBit(n)
    <2>1. /\ Length(b, n) = m /\ h < c
          /\ t = IF h + m < c THEN h + m ELSE h + m - c
      BY <1>3, <1>8 DEF RingOK, Length
    <2>2. q.m_num = m - 1 /\ Length(q, n) = m - 1
      BY <1>4, <1>8 DEF Count, Length
    <2>3. PICK u \in 0..(c - 1) : /\ u = Advance(h, n)
                                  /\ t = IF u + (m - 1) < c THEN u + (m - 1) ELSE u + (m - 1) - c
      <3>1. CASE n = 0
        <4>1. c = 1 /\ Advance(h, n) = h
          BY <3>1, Advancing
        <4>2. m = 1 /\ h = 0 /\ t = 0
          BY <1>1, <2>1, <4>1
        <4>3. QED
          BY <4>1, <4>2
      <3>2. CASE n # 0
        <4>1. Advance(h, n) = IF h + 1 >= c THEN 0 ELSE h + 1
          BY <1>8, <3>2, Advancing
        <4>2. QED
          BY <1>1, <2>1, <4>1
      <3>3. QED
        BY <3>1, <3>2
    <2>4. q.m_head \in Nat /\ q.m_head < c /\ q.m_num \in Nat /\ q.m_num <= c
      BY <1>1, <1>4, <2>1, <2>2, <2>3
    <2>5. q.m_tail = IF q.m_head + q.m_num < c
                     THEN q.m_head + q.m_num ELSE q.m_head + q.m_num - c
      BY <1>4, <2>2, <2>3
    <2>6. RingOK(q, n, S)
      BY <1>4, <1>6, <1>8, <2>1, <2>4, <2>5, Zenon DEF RingOK
    <2>7. QED
      BY <1>2, <1>3, <1>4, <1>5, <2>1, <2>2, <2>6, Zenon
  <1>9. QED
    BY <1>7, <1>8
\* Sequences with the same elements are equal.
LEMMA SameElements ==
    ASSUME NEW S, NEW s \in Seq(S), NEW t \in Seq(S), Len(s) = Len(t),
           \A k \in 1..Len(s) : s[k] = t[k]
    PROVE  s = t
  OBVIOUS

\* The contents of a buffer are a sequence.
LEMMA ContentsSeq ==
    ASSUME NEW n, CapacityOK(n), NEW S, NEW b, RingOK(b, n, S)
    PROVE  /\ Contents(b, n) \in Seq(S)
           /\ Len(Contents(b, n)) = Length(b, n)
           /\ \A k \in 1..Length(b, n) :
                 /\ (b.m_head + k - 1) % Slots(n) \in 0..(Slots(n) - 1)
                 /\ Contents(b, n)[k] = b.m_array[(b.m_head + k - 1) % Slots(n)]
  <1>. DEFINE c == Slots(n)
  <1>1. /\ c \in Nat \ {0} /\ b.m_head \in Nat /\ b.m_array \in [0..(c - 1) -> S]
        /\ Length(b, n) \in Nat
    <2>1. Length(b, n) \in 0..c
      BY RingLength
    <2>2. QED
      BY <2>1, Capacities DEF RingOK
  <1>2. \A k \in 1..Length(b, n) : (b.m_head + k - 1) % c \in 0..(c - 1)
    <2>1. TAKE k \in 1..Length(b, n)
    <2>2. b.m_head + k - 1 \in Nat
      BY <1>1, <2>1
    <2>3. QED
      BY <1>1, <2>2, DivMod, Zenon
  <1>3. \A k \in 1..Length(b, n) : b.m_array[(b.m_head + k - 1) % c] \in S
    BY <1>1, <1>2, Zenon
  <1>4. Contents(b, n) \in [1..Length(b, n) -> S]
    BY <1>3, Zenon DEF Contents
  <1>5. Contents(b, n) \in Seq(S) /\ Len(Contents(b, n)) = Length(b, n)
    BY <1>1, <1>4
  <1>6. QED
    BY <1>2, <1>5, Zenon DEF Contents

\* An empty buffer has no contents.
LEMMA EmptyContents ==
    ASSUME NEW n, CapacityOK(n), NEW S, NEW b, RingOK(b, n, S)
    PROVE  empty(b, n) <=> Contents(b, n) = <<>>
  <1>1. /\ Contents(b, n) \in Seq(S)
        /\ Len(Contents(b, n)) = Length(b, n)
        /\ empty(b, n) <=> Length(b, n) = 0
    BY ContentsSeq, RingLength
  <1>2. QED
    BY <1>1

\* push() appends.
LEMMA PushAppends ==
    ASSUME NEW n, CapacityOK(n), NEW S, NEW b, RingOK(b, n, S), ~full(b, n),
           NEW v \in S
    PROVE  Contents(push(b, v, n), n) = Append(Contents(b, n), v)
  <1>. DEFINE c == Slots(n)
              q == push(b, v, n)
  <1>1. PICK len \in 0..(c - 1), h \in Nat : len = Length(b, n) /\ h = b.m_head
    <2>1. Length(b, n) \in 0..c /\ Length(b, n) # c /\ c \in Nat
      BY Capacities, RingLength, Zenon
    <2>2. b.m_head \in Nat
      BY DEF RingOK
    <2>3. QED
      BY <2>1, <2>2
  <1>2. /\ RingOK(q, n, S) /\ Length(q, n) = len + 1 /\ q.m_head = h
        /\ q.m_array = [b.m_array EXCEPT ![(h + len) % c] = v]
    <2>1. /\ RingOK(q, n, S) /\ Length(q, n) = Length(b, n) + 1 /\ q.m_head = b.m_head
          /\ q.m_array = [b.m_array EXCEPT ![(b.m_head + Length(b, n)) % c] = v]
      BY RingPush
    <2>2. QED
      BY <1>1, <2>1, Zenon
  <1>. HIDE DEF q
  <1>3. /\ Contents(b, n) \in Seq(S) /\ Len(Contents(b, n)) = len
        /\ \A k \in 1..len : Contents(b, n)[k] = b.m_array[(h + k - 1) % c]
    BY <1>1, ContentsSeq
  <1>4. /\ Contents(q, n) \in Seq(S) /\ Len(Contents(q, n)) = len + 1
        /\ \A k \in 1..(len + 1) : (h + k - 1) % c \in 0..(c - 1)
                                   /\ Contents(q, n)[k] = q.m_array[(h + k - 1) % c]
    <2>0. RingOK(q, n, S)
      BY <1>2
    <2>1. /\ Contents(q, n) \in Seq(S) /\ Len(Contents(q, n)) = Length(q, n)
          /\ \A k \in 1..Length(q, n) : (q.m_head + k - 1) % c \in 0..(c - 1)
                                         /\ Contents(q, n)[k] = q.m_array[(q.m_head + k - 1) % c]
      BY <2>0, ContentsSeq
    <2>2. QED
      BY <1>2, <2>1, Zenon
  <1>5. b.m_array \in [0..(c - 1) -> S] /\ c \in Nat \ {0}
    BY Capacities DEF RingOK
  <1>6. \A k \in 1..len : Contents(q, n)[k] = Contents(b, n)[k]
    <2>1. TAKE k \in 1..len
    <2>2. k - 1 \in 0..(c - 1) /\ k \in 1..(len + 1) /\ h + (k - 1) = h + k - 1 /\ k - 1 # len
      BY <1>1, <1>5, <2>1
    <2>3. (h + k - 1) % c # (h + len) % c
      BY <1>5, <2>2, ModDistinct, Zenon
    <2>4. q.m_array[(h + k - 1) % c] = b.m_array[(h + k - 1) % c]
      BY <1>2, <1>4, <1>5, <2>2, <2>3, Zenon
    <2>5. QED
      BY <1>3, <1>4, <2>2, <2>4, Zenon
  <1>7. Contents(q, n)[len + 1] = v
    <2>1. h + (len + 1) - 1 = h + len /\ len + 1 \in 1..(len + 1)
      OBVIOUS
    <2>2. q.m_array[(h + len) % c] = v
      BY <1>2, <1>4, <1>5, <2>1
    <2>3. QED
      BY <1>4, <2>1, <2>2
  <1>8. /\ Append(Contents(b, n), v) \in Seq(S) /\ Len(Append(Contents(b, n), v)) = len + 1
        /\ \A k \in 1..(len + 1) : Append(Contents(b, n), v)[k] = Contents(q, n)[k]
    BY <1>3, <1>6, <1>7
  <1>9. QED
    BY <1>4, <1>8, SameElements, Zenon DEF q

\* front() is the first element and pop() removes it.
LEMMA PopTakesHead ==
    ASSUME NEW n, CapacityOK(n), NEW S, NEW b, RingOK(b, n, S), ~empty(b, n),
           empty_slot \in S
    PROVE  /\ Contents(b, n) # <<>>
           /\ front(b, n) = Head(Contents(b, n))
           /\ Contents(pop(b, n), n) = Tail(Contents(b, n))
  <1>. DEFINE c == Slots(n)
              q == pop(b, n)
  <1>1. PICK len \in 1..c, h \in Nat : len = Length(b, n) /\ h = b.m_head
    <2>1. Length(b, n) \in 0..c /\ Length(b, n) # 0 /\ c \in Nat
      BY Capacities, RingLength
    <2>2. b.m_head \in Nat
      BY DEF RingOK
    <2>3. QED
      BY <2>1, <2>2
  <1>2. /\ RingOK(q, n, S) /\ Length(q, n) = len - 1 /\ q.m_head = Advance(h, n)
        /\ q.m_array = [b.m_array EXCEPT ![h % c] = empty_slot]
    BY <1>1, RingPop, Zenon
  <1>. HIDE DEF q
  <1>3. /\ Contents(b, n) \in Seq(S) /\ Len(Contents(b, n)) = len
        /\ \A k \in 1..len : (h + k - 1) % c \in 0..(c - 1)
                             /\ Contents(b, n)[k] = b.m_array[(h + k - 1) % c]
    BY <1>1, ContentsSeq
  <1>4. /\ Contents(q, n) \in Seq(S) /\ Len(Contents(q, n)) = len - 1
        /\ \A k \in 1..(len - 1) : Contents(q, n)[k] = q.m_array[(Advance(h, n) + k - 1) % c]
    <2>0. RingOK(q, n, S)
      BY <1>2
    <2>1. /\ Contents(q, n) \in Seq(S) /\ Len(Contents(q, n)) = Length(q, n)
          /\ \A k \in 1..Length(q, n) : Contents(q, n)[k] = q.m_array[(q.m_head + k - 1) % c]
      BY <2>0, ContentsSeq
    <2>2. QED
      BY <1>2, <2>1, Zenon
  <1>5. b.m_array \in [0..(c - 1) -> S] /\ c \in Nat \ {0}
    BY Capacities DEF RingOK
  <1>6. \A k \in 1..(len - 1) : Contents(q, n)[k] = Contents(b, n)[k + 1]
    <2>1. TAKE k \in 1..(len - 1)
    <2>2. /\ k - 1 \in Nat /\ k + 1 \in 1..len /\ k \in 0..(c - 1) /\ 0 \in 0..(c - 1) /\ k # 0
          /\ h + (k + 1) - 1 = h + k /\ h + 1 + (k - 1) = h + k /\ h + 0 = h
      BY <1>1, <1>5, <2>1
    <2>3. (Advance(h, n) + (k - 1)) % c = (h + 1 + (k - 1)) % c
      BY <1>1, <2>2, RingAdvance, Zenon
    <2>4. Advance(h, n) + (k - 1) = Advance(h, n) + k - 1
      <3>1. Advance(h, n) \in Nat
        BY <1>2 DEF RingOK
      <3>2. QED
        BY <2>1, <3>1
    <2>5. (h + k) % c # h % c
      BY <1>5, <2>2, ModDistinct, Zenon
    <2>6. Contents(q, n)[k] = q.m_array[(h + k) % c]
      BY <1>4, <2>1, <2>2, <2>3, <2>4
    <2>7. /\ Contents(b, n)[k + 1] = b.m_array[(h + k) % c] /\ (h + k) % c \in 0..(c - 1)
      BY <1>3, <2>2
    <2>8. QED
      BY <1>2, <1>5, <2>5, <2>6, <2>7, Zenon
  <1>7. front(b, n) = Contents(b, n)[1]
    <2>1. Index(h, n) = h % c
      BY <1>1, RingLength
    <2>2. 1 \in 1..len /\ h + 1 - 1 = h
      BY <1>1, <1>5
    <2>3. QED
      BY <1>1, <1>3, <2>1, <2>2 DEF front
  <1>8. /\ Contents(b, n) # <<>> /\ Head(Contents(b, n)) = Contents(b, n)[1]
        /\ Tail(Contents(b, n)) \in Seq(S) /\ Len(Tail(Contents(b, n))) = len - 1
        /\ \A k \in 1..(len - 1) : Tail(Contents(b, n))[k] = Contents(b, n)[k + 1]
    BY <1>1, <1>3
  <1>9. Contents(q, n) = Tail(Contents(b, n))
    BY <1>4, <1>6, <1>8, SameElements
  <1>10. QED
    BY <1>7, <1>8, <1>9 DEF q
=============================================================================
