----------------------------- MODULE VmmProofs -----------------------------
(***************************************************************************)
(* The page tables implement the flat map, for tables of any size, any     *)
(* memory map and any calls that keep to CallsOK, wherever a handler       *)
(* interrupts MemoryMap, and whenever memory runs out.                     *)
(***************************************************************************)
EXTENDS Vmm, FiniteSetTheorems, TLAPS

-----------------------------------------------------------------------------
(* Virtual addresses are numbers of four digits *)

(* Quotient and remainder, *)
LEMMA DivMod ==
  ASSUME NEW b \in Nat \ {0}, NEW x \in Nat
  PROVE  /\ x \div b \in Nat /\ x % b \in 0 .. b - 1
         /\ x = b * (x \div b) + (x % b)
  OBVIOUS

(* which are the only ones. *)
LEMMA DivModUnique ==
  ASSUME NEW b \in Nat \ {0}, NEW q \in Nat, NEW r \in 0 .. b - 1, NEW x \in Nat, x = b * q + r
  PROVE  x % b = r /\ x \div b = q
<1>1. x \div b \in Nat /\ x % b \in 0 .. b - 1 /\ x = b * (x \div b) + (x % b)
  BY DivMod
<1>2. b * (q - (x \div b)) = (x % b) - r
  BY <1>1
<1>. QED
  BY <1>1, <1>2

(* Dividing twice is dividing by the product. *)
LEMMA DivDiv ==
  ASSUME NEW a \in Nat \ {0}, NEW b \in Nat \ {0}, NEW x \in Nat
  PROVE  (x \div a) \div b = x \div (a * b)
<1> DEFINE y == x \div a
           q == y \div b
           s == x % a
           r == y % b
           w == a * r + s
<1>1. y \in Nat /\ s \in 0 .. a - 1 /\ x = a * y + s
  BY DivMod
<1>2. q \in Nat /\ r \in 0 .. b - 1 /\ y = b * q + r
  BY <1>1, DivMod
<1> HIDE DEF y, q, s, r
<1>3. a * r \in Nat /\ a * r <= a * (b - 1)
  BY <1>2
<1>4. a * b \in Nat \ {0} /\ a * (b - 1) = a * b - a
  OBVIOUS
<1>5. w \in 0 .. a * b - 1
  BY <1>1, <1>3, <1>4
<1>6. x = (a * b) * q + w
  <2>1. a * (b * q + r) = (a * b) * q + a * r
    BY <1>2
  <2>2. (a * b) * q \in Nat
    BY <1>2, <1>4
  <2>. QED
    BY <1>1, <1>2, <1>3, <2>1, <2>2
<1> HIDE DEF w
<1>7. x \div (a * b) = q
  BY <1>2, <1>4, <1>5, <1>6, DivModUnique
<1>. QED
  BY <1>7 DEF y, q

(* The digits of an address above those that index the tables of a level
   and of the levels below it: they say which table it goes through. *)
P(v, l) ==
  CASE l = 4 -> 0
    [] l = 3 -> v \div (N * N * N)
    [] l = 2 -> v \div (N * N)
    [] l = 1 -> v \div N
    [] l = 0 -> v

Levels == 1 .. 4

LEMMA Sizes == N \in Nat \ {0} /\ N * N \in Nat \ {0} /\ N * N * N \in Nat \ {0}
BY VmmAssumption

LEMMA Digits ==
  ASSUME NEW v \in Virt, NEW l \in Levels
  PROVE  /\ P(v, l) \in Nat /\ P(v, l - 1) \in Nat /\ IndexAt(v, l) \in Index
         /\ P(v, l - 1) = N * P(v, l) + IndexAt(v, l)
<1>1. v \in Nat /\ N \in Nat \ {0}
  BY Sizes DEF Virt
<1> DEFINE m2 == N * N
           m3 == N * N * N
<1>2. m2 \in Nat \ {0} /\ m3 \in Nat \ {0} /\ m3 = m2 * N
  BY Sizes
<1>3. (v \div N) \div N = v \div m2
  BY <1>1, DivDiv
<1>4. (v \div m2) \div N = v \div m3
  BY <1>1, <1>2, DivDiv
<1> HIDE DEF m2, m3
<1>5. CASE l = 1
  <2>1. v \div N \in Nat /\ v % N \in 0 .. N - 1 /\ v = N * (v \div N) + (v % N)
    BY <1>1, DivMod
  <2>. QED
    BY <1>1, <1>5, <2>1 DEF P, IndexAt, Index
<1>6. CASE l = 2
  <2> DEFINE x == v \div N
  <2>1. x \in Nat
    BY <1>1, DivMod
  <2>2. x \div N \in Nat /\ x % N \in 0 .. N - 1 /\ x = N * (x \div N) + (x % N)
    BY <1>1, <2>1, DivMod
  <2>. QED
    BY <1>3, <1>6, <2>1, <2>2 DEF P, IndexAt, Index, m2
<1>7. CASE l = 3
  <2> DEFINE x == v \div m2
  <2>1. x \in Nat
    BY <1>1, <1>2, DivMod
  <2>2. x \div N \in Nat /\ x % N \in 0 .. N - 1 /\ x = N * (x \div N) + (x % N)
    BY <1>1, <2>1, DivMod
  <2>. QED
    BY <1>4, <1>7, <2>1, <2>2 DEF P, IndexAt, Index, m2, m3
<1>8. CASE l = 4
  <2> DEFINE x == v \div m3
             r == v % m3
  <2>1. x \in Nat /\ r \in 0 .. m3 - 1 /\ v = m3 * x + r
    BY <1>1, <1>2, DivMod
  <2>2. v < m3 * N
    BY <1>1 DEF Virt, m3
  <2> HIDE DEF x, r
  <2>3. x < N
    <3>1. ASSUME x >= N PROVE FALSE
      <4>1. m3 * x >= m3 * N
        BY <1>1, <1>2, <2>1, <3>1
      <4>. QED
        BY <1>1, <1>2, <2>1, <2>2, <4>1
    <3>. QED
      BY <1>1, <2>1, <3>1
  <2>4. P(v, l) = 0 /\ P(v, l - 1) = x /\ IndexAt(v, l) = x
    BY <1>8 DEF P, IndexAt, x, m3
  <2>. QED
    BY <1>1, <2>1, <2>3, <2>4 DEF Index
<1>. QED
  BY <1>5, <1>6, <1>7, <1>8 DEF Levels

(* Two addresses have a digit more in common where they have the same index. *)
LEMMA SameDigits ==
  ASSUME NEW v \in Virt, NEW w \in Virt, NEW l \in Levels
  PROVE  P(v, l - 1) = P(w, l - 1) <=> P(v, l) = P(w, l) /\ IndexAt(v, l) = IndexAt(w, l)
<1> DEFINE pv == P(v, l)
           pw == P(w, l)
           iv == IndexAt(v, l)
           iw == IndexAt(w, l)
           x == P(v, l - 1)
           y == P(w, l - 1)
<1>1. /\ pv \in Nat /\ pw \in Nat /\ x \in Nat /\ y \in Nat /\ iv \in 0 .. N - 1 /\ iw \in 0 .. N - 1
      /\ x = N * pv + iv /\ y = N * pw + iw /\ N \in Nat \ {0}
  BY Digits, Sizes DEF Index
<1> HIDE DEF pv, pw, iv, iw, x, y
<1>2. x % N = iv /\ x \div N = pv /\ y % N = iw /\ y \div N = pw
  BY <1>1, DivModUnique
<1>3. x = y <=> pv = pw /\ iv = iw
  BY <1>1, <1>2
<1>. QED
  BY <1>3 DEF pv, pw, iv, iw, x, y

(* At the top all are alike; what is alike below is alike above. *)
LEMMA Above ==
  ASSUME NEW v \in Virt, NEW w \in Virt, NEW l \in 0 .. 4, NEW m \in l .. 4, P(v, l) = P(w, l)
  PROVE  P(v, m) = P(w, m)
<1>1. P(v, 4) = P(w, 4)
  BY DEF P
<1>2. P(v, 0) = P(w, 0) => P(v, 1) = P(w, 1)
  BY SameDigits DEF Levels
<1>3. P(v, 1) = P(w, 1) => P(v, 2) = P(w, 2)
  <2>1. 2 \in Levels /\ 2 - 1 = 1
    BY DEF Levels
  <2>. QED
    BY <2>1, SameDigits
<1>4. P(v, 2) = P(w, 2) => P(v, 3) = P(w, 3)
  <2>1. 3 \in Levels /\ 3 - 1 = 2
    BY DEF Levels
  <2>. QED
    BY <2>1, SameDigits
<1>5. l \in {0, 1, 2, 3, 4} /\ m \in {0, 1, 2, 3, 4} /\ l <= m
  OBVIOUS
<1>. QED
  BY <1>1, <1>2, <1>3, <1>4, <1>5

Scales(a, b, m) ==
  /\ a \in Nat \ {0} /\ b \in Nat \ {0} /\ m \in Nat \ {0} /\ b = a * N
  /\ \E c \in Nat \ {0} : m = b * c
SomeDigit(a, b, m, v, i) == \E w \in 0 .. m - 1 : w \div a = N * (v \div b) + i

(* A digit may be any. *)
LEMMA OtherDigit ==
  ASSUME NEW a, NEW b, NEW m, Scales(a, b, m), NEW v \in 0 .. m - 1, NEW i \in Index
  PROVE  SomeDigit(a, b, m, v, i)
<1>0. PICK c \in Nat \ {0} : m = b * c
  BY DEF Scales
<1> DEFINE q == v \div b
           w == b * q + a * i
           x == N * q + i
<1>1. /\ N \in Nat \ {0} /\ i \in 0 .. N - 1 /\ v \in Nat /\ b = a * N /\ m = b * c
      /\ a \in Nat \ {0} /\ b \in Nat \ {0} /\ m \in Nat \ {0}
  BY <1>0, Sizes DEF Index, Scales
<1>2. q \in Nat /\ v % b \in 0 .. b - 1 /\ v = b * q + (v % b)
  BY <1>1, DivMod
<1> HIDE DEF q
<1>3. b * q \in Nat /\ b * q <= v
  BY <1>1, <1>2
<1>4. a * i \in Nat /\ a * i <= b - a
  <2>1. a * i <= a * (N - 1)
    BY <1>1
  <2>2. a * (N - 1) = a * N - a
    BY <1>1
  <2>. QED
    BY <1>1, <2>1, <2>2
<1>5. q < c
  <2>1. ASSUME q >= c PROVE FALSE
    <3>1. b * q >= b * c
      BY <1>1, <1>2, <2>1
    <3>. QED
      BY <1>1, <1>3, <3>1
  <2>. QED
    BY <1>2, <2>1
<1>6. w \in 0 .. m - 1
  <2>1. b * (q + 1) <= b * c
    BY <1>1, <1>2, <1>5
  <2>2. b * (q + 1) = b * q + b
    BY <1>1, <1>2
  <2>. QED
    BY <1>1, <1>3, <1>4, <2>1, <2>2
<1>7. x \in Nat /\ w = a * x + 0
  <2>1. x \in Nat
    BY <1>1, <1>2
  <2>2. (a * N) * q = a * (N * q) /\ a * (N * q + i) = a * (N * q) + a * i
    BY <1>1, <1>2
  <2>. QED
    BY <1>1, <2>1, <2>2
<1> HIDE DEF w, x
<1>8. w \div a = x
  <2>1. 0 \in 0 .. a - 1 /\ w \in Nat
      BY <1>1, <1>6
  <2>. QED
    BY <1>1, <1>7, <2>1, DivModUnique
<1>. QED
  BY <1>6, <1>8 DEF x, q, SomeDigit

LEMMA AnyDigit ==
  ASSUME NEW v \in Virt, NEW l \in Levels, NEW i \in Index
  PROVE  \E w \in Virt : P(w, l) = P(v, l) /\ IndexAt(w, l) = i
<1>1. SUFFICES \E w \in Virt : P(w, l - 1) = N * P(v, l) + i
  <2>1. ASSUME NEW w \in Virt, P(w, l - 1) = N * P(v, l) + i
        PROVE  P(w, l) = P(v, l) /\ IndexAt(w, l) = i
    <3> DEFINE x == P(w, l - 1)
               pv == P(v, l)
               pw == P(w, l)
               iw == IndexAt(w, l)
    <3>1. /\ x \in Nat /\ pv \in Nat /\ pw \in Nat /\ iw \in 0 .. N - 1 /\ i \in 0 .. N - 1
          /\ x = N * pv + i /\ x = N * pw + iw /\ N \in Nat \ {0}
      BY <2>1, Digits, Sizes DEF Index
    <3> HIDE DEF x, pv, pw, iw
    <3>2. x % N = i /\ x \div N = pv /\ x % N = iw /\ x \div N = pw
      BY <3>1, DivModUnique, SMTT(60)
    <3>3. pw = pv /\ iw = i
      BY <3>2
    <3>. QED
      BY <3>3 DEF pv, pw, iw
  <2>. QED
    BY <2>1
<1> DEFINE m2 == N * N
           m3 == N * N * N
           m4 == N * N * N * N
<1>2. /\ N \in Nat \ {0} /\ m4 \in Nat \ {0}
      /\ Scales(1, N, m4) /\ Scales(N, m2, m4) /\ Scales(m2, m3, m4) /\ Scales(m3, m4, m4)
  <2>1. /\ 1 \in Nat \ {0} /\ N \in Nat \ {0} /\ m2 \in Nat \ {0} /\ m3 \in Nat \ {0}
        /\ m4 \in Nat \ {0} /\ N = 1 * N /\ m4 = N * m3 /\ m4 = m2 * m2 /\ m4 = m3 * N
        /\ m4 = m4 * 1
    BY Sizes
  <2>2. m2 = N * N /\ m3 = m2 * N /\ m4 = m3 * N
    OBVIOUS
  <2> HIDE DEF m2, m3, m4
  <2>. QED
    BY <2>1, <2>2 DEF Scales
<1>3. Virt = 0 .. m4 - 1 /\ v \in 0 .. m4 - 1 /\ v \in Nat
  BY DEF Virt
<1> HIDE DEF m2, m3, m4
<1>4. CASE l = 1
  <2>0. SomeDigit(1, N, m4, v, i)
    BY <1>2, <1>3, OtherDigit
  <2>1. PICK w \in Virt : w \div 1 = N * (v \div N) + i
    BY <1>3, <2>0 DEF SomeDigit
  <2>2. w \div 1 = w
    BY DEF Virt
  <2>. QED
    BY <1>4, <2>1, <2>2 DEF P
<1>5. CASE l = 2
  <2>0. SomeDigit(N, m2, m4, v, i)
    BY <1>2, <1>3, OtherDigit
  <2>1. \E w \in Virt : w \div N = N * (v \div m2) + i
    BY <1>3, <2>0 DEF SomeDigit
  <2>. QED
    BY <1>5, <2>1 DEF P, m2
<1>6. CASE l = 3
  <2>0. SomeDigit(m2, m3, m4, v, i)
    BY <1>2, <1>3, OtherDigit
  <2>1. \E w \in Virt : w \div m2 = N * (v \div m3) + i
    BY <1>3, <2>0 DEF SomeDigit
  <2>. QED
    BY <1>6, <2>1 DEF P, m2, m3
<1>7. CASE l = 4
  <2>0. SomeDigit(m3, m4, m4, v, i)
    BY <1>2, <1>3, OtherDigit
  <2>1. PICK w \in Virt : w \div m3 = N * (v \div m4) + i
    BY <1>3, <2>0 DEF SomeDigit
  <2>2. v \div m4 = 0
    <3> DEFINE q == v \div m4
    <3>1. q \in Nat /\ v % m4 \in 0 .. m4 - 1 /\ v = m4 * q + (v % m4)
      BY <1>2, <1>3, DivMod
    <3> HIDE DEF q
    <3>2. q >= 1 => m4 * q >= m4
      BY <1>2, <3>1
    <3>3. q = 0
      BY <1>2, <1>3, <3>1, <3>2
    <3>. QED
      BY <3>3 DEF q
  <2>3. P(w, 3) = N * P(v, 4) + i
    BY <2>1, <2>2 DEF P, m3
  <2>. QED
    BY <1>7, <2>3
<1>. QED
  BY <1>4, <1>5, <1>6, <1>7 DEF Levels

-----------------------------------------------------------------------------
(* The walk of tables p with root r for address v: the table it goes        *)
(* through at a level, and the entry it reads there.                        *)

Entry == [present : BOOLEAN, phys : Nat, large : BOOLEAN]
Tables == [Frames -> [Index -> Entry]]
Roots == Frames \union {NULL}

Down(e) == IF e.present /\ ~e.large THEN e.phys ELSE NULL
EntryIn(p, t, v, l) == IF t \in Frames THEN p[t][IndexAt(v, l)] ELSE Zero
T3(p, r, v) == Down(EntryIn(p, r, v, 4))
T2(p, r, v) == Down(EntryIn(p, T3(p, r, v), v, 3))
T1(p, r, v) == Down(EntryIn(p, T2(p, r, v), v, 2))
T(p, r, v, l) ==
  CASE l = 4 -> r
    [] l = 3 -> T3(p, r, v)
    [] l = 2 -> T2(p, r, v)
    [] l = 1 -> T1(p, r, v)
E(p, r, v, l) == EntryIn(p, T(p, r, v, l), v, l)

LEMMA Down1 ==
  ASSUME NEW p, NEW r, NEW v
  PROVE  /\ T(p, r, v, 4) = r
         /\ T(p, r, v, 3) = Down(E(p, r, v, 4))
         /\ T(p, r, v, 2) = Down(E(p, r, v, 3))
         /\ T(p, r, v, 1) = Down(E(p, r, v, 2))
BY DEF T, E, T1, T2, T3

LEMMA FourLevels ==
  ASSUME NEW l \in Levels
  PROVE  l \in {1, 2, 3, 4} /\ (l = 1 \/ l - 1 \in Levels) /\ l - 1 \in 0 .. 4
BY DEF Levels

LEMMA FramesTyped == Frames \subseteq Nat \ {NULL} /\ NULL \notin Frames
BY VmmAssumption DEF Frames, NULL

LEMMA NullZero ==
  ASSUME NEW p, NEW r, NEW v, NEW l, T(p, r, v, l) = NULL
  PROVE  E(p, r, v, l) = Zero
BY FramesTyped DEF E, EntryIn

LEMMA EntryTyped ==
  ASSUME NEW p \in Tables, NEW r, NEW v \in Virt, NEW l \in Levels
  PROVE  E(p, r, v, l) \in Entry
<1>1. IndexAt(v, l) \in Index
  BY Digits
<1>2. Zero \in Entry
  BY DEF Zero, Entry
<1>. QED
  BY <1>1, <1>2 DEF E, EntryIn, Tables

(* Below an empty entry there is nothing. *)
LEMMA NothingBelow ==
  ASSUME NEW p, NEW r, NEW v, NEW l \in Levels, E(p, r, v, l) = Zero, NEW m \in Levels, m < l
  PROVE  T(p, r, v, m) = NULL /\ E(p, r, v, m) = Zero
<1>1. Down(Zero) = NULL
  BY DEF Down, Zero
<1>2. /\ E(p, r, v, 4) = Zero => T(p, r, v, 3) = NULL /\ E(p, r, v, 3) = Zero
      /\ E(p, r, v, 3) = Zero => T(p, r, v, 2) = NULL /\ E(p, r, v, 2) = Zero
      /\ E(p, r, v, 2) = Zero => T(p, r, v, 1) = NULL /\ E(p, r, v, 1) = Zero
  BY <1>1, Down1, NullZero
<1>3. l \in {1, 2, 3, 4} /\ m \in {1, 2, 3, 4}
  BY FourLevels
<1>. QED
  BY <1>2, <1>3

(* Addresses alike above a level go through the same table there, and read
   the same entry when they are alike above the next. *)
LEMMA SameTable ==
  ASSUME NEW p, NEW r, NEW v \in Virt, NEW w \in Virt, NEW l \in Levels, P(v, l) = P(w, l)
  PROVE  T(p, r, v, l) = T(p, r, w, l)
<1>1. T(p, r, v, 4) = T(p, r, w, 4)
  BY Down1
<1>2. ASSUME NEW m \in {1, 2, 3}, P(v, m) = P(w, m), T(p, r, v, m + 1) = T(p, r, w, m + 1)
      PROVE  T(p, r, v, m) = T(p, r, w, m)
  <2>1. m + 1 \in Levels /\ (m + 1) - 1 = m
    BY DEF Levels
  <2>2. IndexAt(v, m + 1) = IndexAt(w, m + 1)
    BY <1>2, <2>1, SameDigits
  <2>3. E(p, r, v, m + 1) = E(p, r, w, m + 1)
    BY <1>2, <2>2 DEF E, EntryIn
  <2>. QED
    BY <2>3, Down1
<1>3. l \in {1, 2, 3, 4}
  BY FourLevels
<1>4. \A m \in {1, 2, 3} : P(v, m) = P(w, m) => P(v, m + 1) = P(w, m + 1)
  <2>1. ASSUME NEW m \in {1, 2, 3}, P(v, m) = P(w, m) PROVE P(v, m + 1) = P(w, m + 1)
    <3>1. m + 1 \in Levels /\ (m + 1) - 1 = m
      BY DEF Levels
    <3>. QED
      BY <2>1, <3>1, SameDigits
  <2>. QED
    BY <2>1
<1>5. P(v, 3) = P(w, 3) => T(p, r, v, 3) = T(p, r, w, 3)
  BY <1>1, <1>2
<1>6. P(v, 2) = P(w, 2) => T(p, r, v, 2) = T(p, r, w, 2)
  BY <1>2, <1>4, <1>5
<1>7. P(v, 1) = P(w, 1) => T(p, r, v, 1) = T(p, r, w, 1)
  BY <1>2, <1>4, <1>6
<1>. QED
  BY <1>1, <1>3, <1>5, <1>6, <1>7

LEMMA SameEntry ==
  ASSUME NEW p, NEW r, NEW v \in Virt, NEW w \in Virt, NEW l \in Levels, P(v, l - 1) = P(w, l - 1)
  PROVE  E(p, r, v, l) = E(p, r, w, l)
<1>1. P(v, l) = P(w, l) /\ IndexAt(v, l) = IndexAt(w, l)
  BY SameDigits
<1>. QED
  BY <1>1, SameTable DEF E, EntryIn

-----------------------------------------------------------------------------
(* Well-formed tables: no table is under two entries; a large page is where *)
(* a large page is asked for, a table of pages where a small one is.        *)

Injective(p, r) ==
  \A v, w \in Virt : \A l, m \in Levels :
    T(p, r, v, l) = T(p, r, w, m) /\ T(p, r, v, l) # NULL => l = m /\ P(v, l) = P(w, l)
AskedFor(v, large) == \E a \in Calls : a.large = large /\ P(a.virt, 1) = P(v, 1)
LargeRight(p, r) ==
  \A v \in Virt : \A l \in Levels :
    E(p, r, v, l).large => E(p, r, v, l).present /\ l = 2 /\ AskedFor(v, TRUE)
SmallRight(p, r) ==
  \A v \in Virt : T(p, r, v, 1) # NULL => AskedFor(v, FALSE)
LinksRight(p, r) ==
  \A v \in Virt : \A l \in Levels :
    l > 1 /\ E(p, r, v, l).present /\ ~E(p, r, v, l).large => E(p, r, v, l).phys # NULL
WellFormed(p, r) ==
  /\ p \in Tables /\ r \in Roots
  /\ \A v \in Virt : \A l \in Levels : T(p, r, v, l) \in Roots
  /\ Injective(p, r)
  /\ LargeRight(p, r)
  /\ SmallRight(p, r)
  /\ LinksRight(p, r)

(* What writing the entry that u reads at level l changes: *)
Write(p, q, r, u, l, e) ==
  /\ p \in Tables /\ Injective(p, r) /\ u \in Virt /\ l \in Levels /\ e \in Entry
  /\ T(p, r, u, l) \in Frames
  /\ q = [p EXCEPT ![T(p, r, u, l)][IndexAt(u, l)] = e]

(* of the addresses that still come to the table they came to, those that
   are alike above the next level read the new entry; *)
LEMMA EntryWritten ==
  ASSUME NEW p, NEW q, NEW r, NEW u, NEW l, NEW e, Write(p, q, r, u, l, e),
         NEW v \in Virt, NEW m \in Levels, T(q, r, v, m) = T(p, r, v, m)
  PROVE  E(q, r, v, m) = IF m = l /\ P(v, l - 1) = P(u, l - 1) THEN e ELSE E(p, r, v, m)
<1> DEFINE t == T(p, r, u, l)
           k == IndexAt(u, l)
           s == T(p, r, v, m)
           j == IndexAt(v, m)
<1>1. p \in Tables /\ u \in Virt /\ l \in Levels /\ e \in Entry /\ t \in Frames /\ q = [p EXCEPT ![t][k] = e]
  BY DEF Write
<1>2. k \in Index /\ j \in Index
  BY <1>1, Digits
<1>4. /\ E(q, r, v, m) = IF s \in Frames THEN q[s][j] ELSE Zero
      /\ E(p, r, v, m) = IF s \in Frames THEN p[s][j] ELSE Zero
  BY DEF E, EntryIn
<1>5. (s = t /\ j = k) <=> (m = l /\ P(v, l - 1) = P(u, l - 1))
  <2>1. s = t => m = l /\ P(v, l) = P(u, l)
    BY <1>1, FramesTyped DEF Write, Injective
  <2>2. m = l /\ P(v, l) = P(u, l) => s = t
    BY <1>1, SameTable
  <2>3. P(v, l - 1) = P(u, l - 1) <=> P(v, l) = P(u, l) /\ IndexAt(v, l) = IndexAt(u, l)
    BY <1>1, SameDigits
  <2>. QED
    BY <2>1, <2>2, <2>3
<1> HIDE DEF s, t, j, k
<1>3. /\ q[t][k] = e
      /\ \A ss \in Frames : \A jj \in Index : ss # t \/ jj # k => q[ss][jj] = p[ss][jj]
  BY <1>1, <1>2 DEF Tables
<1>. QED
  BY <1>1, <1>2, <1>3, <1>4, <1>5

(* and the others come to the tables they came to, *)
LEMMA WriteBeside ==
  ASSUME NEW p, NEW q, NEW r, NEW u, NEW l, NEW e, Write(p, q, r, u, l, e),
         NEW v \in Virt, NEW m \in Levels, m >= l \/ P(v, l - 1) # P(u, l - 1)
  PROVE  T(q, r, v, m) = T(p, r, v, m)
<1> DEFINE Ok(mm) == mm >= l \/ P(v, l - 1) # P(u, l - 1)
<1>1. l \in Levels
  BY DEF Write
<1>2. T(q, r, v, 4) = T(p, r, v, 4)
  BY Down1
<1>3. ASSUME NEW mm \in {1, 2, 3}, Ok(mm), T(q, r, v, mm + 1) = T(p, r, v, mm + 1)
      PROVE  T(q, r, v, mm) = T(p, r, v, mm)
  <2>1. mm + 1 \in Levels
    BY DEF Levels
  <2>2. ~(mm + 1 = l /\ P(v, l - 1) = P(u, l - 1))
    BY <1>1, <1>3 DEF Levels
  <2>3. E(q, r, v, mm + 1) = E(p, r, v, mm + 1)
    BY <1>3, <2>1, <2>2, EntryWritten
  <2>. QED
    BY <2>3, Down1
<1>4. \A mm \in {1, 2, 3} : Ok(mm) => Ok(mm + 1)
  BY <1>1 DEF Levels
<1>5. Ok(m) /\ m \in {1, 2, 3, 4}
  BY FourLevels
<1> HIDE DEF Ok
<1>6. Ok(3) => T(q, r, v, 3) = T(p, r, v, 3)
  BY <1>2, <1>3
<1>7. Ok(2) => T(q, r, v, 2) = T(p, r, v, 2)
  BY <1>3, <1>4, <1>6
<1>8. Ok(1) => T(q, r, v, 1) = T(p, r, v, 1)
  BY <1>3, <1>4, <1>7
<1>. QED
  BY <1>2, <1>5, <1>6, <1>7, <1>8

(* as those that are alike come to what the new entry leads to. *)
LEMMA WriteUnder ==
  ASSUME NEW p, NEW q, NEW r, NEW u, NEW l, NEW e, Write(p, q, r, u, l, e), l > 1,
         NEW v \in Virt, P(v, l - 1) = P(u, l - 1)
  PROVE  T(q, r, v, l - 1) = Down(e)
<1>1. l \in {2, 3, 4} /\ l \in Levels
  BY DEF Write, Levels
<1>2. T(q, r, v, l) = T(p, r, v, l)
  BY <1>1, WriteBeside
<1>3. E(q, r, v, l) = e
  BY <1>1, <1>2, EntryWritten
<1>. QED
  BY <1>1, <1>3, Down1

LEMMA WriteTyped ==
  ASSUME NEW p, NEW q, NEW r, NEW u, NEW l, NEW e, Write(p, q, r, u, l, e)
  PROVE  /\ q \in Tables
         /\ \A f \in Frames : f # T(p, r, u, l) => q[f] = p[f]
<1>1. IndexAt(u, l) \in Index
  BY Digits DEF Write
<1>. QED
  BY <1>1 DEF Write, Tables

(* Linking an empty frame n under an empty entry adds one table, *)
Table(n) == [present |-> TRUE, phys |-> n, large |-> FALSE]
Unused(p, r, n) == \A v \in Virt : \A m \in Levels : T(p, r, v, m) # n
Link(p, q, r, u, l, n) ==
  /\ WellFormed(p, r)
  /\ u \in Virt /\ l \in {2, 3, 4}
  /\ T(p, r, u, l) # NULL /\ ~E(p, r, u, l).present
  /\ n \in Frames /\ Unused(p, r, n) /\ p[n] = EmptyTable
  /\ l = 2 => AskedFor(u, FALSE)
  /\ Write(p, q, r, u, l, Table(n))

LEMMA Linked ==
  ASSUME NEW p, NEW q, NEW r, NEW u, NEW l, NEW n, Link(p, q, r, u, l, n),
         NEW v \in Virt, NEW m \in Levels
  PROVE  /\ T(q, r, v, m) = IF m = l - 1 /\ P(v, l - 1) = P(u, l - 1) THEN n ELSE T(p, r, v, m)
         /\ E(q, r, v, m) = IF m = l /\ P(v, l - 1) = P(u, l - 1) THEN Table(n) ELSE E(p, r, v, m)
<1> DEFINE Alike == P(v, l - 1) = P(u, l - 1)
<1>1. /\ l \in {2, 3, 4} /\ l \in Levels /\ l - 1 \in Levels /\ u \in Virt
      /\ Write(p, q, r, u, l, Table(n)) /\ n \in Frames /\ p \in Tables
  BY DEF Link, WellFormed, Levels
<1>2. CASE m >= l \/ ~Alike
  <2>1. T(q, r, v, m) = T(p, r, v, m)
    BY <1>1, <1>2, WriteBeside
  <2>2. E(q, r, v, m) = IF m = l /\ Alike THEN Table(n) ELSE E(p, r, v, m)
    BY <1>1, <2>1, EntryWritten
  <2>. QED
    BY <1>1, <1>2, <2>1, <2>2
<1>3. CASE m < l /\ Alike
  <2>1. T(q, r, v, l - 1) = n
    <3>1. Down(Table(n)) = n
      BY DEF Down, Table
    <3>. QED
      BY <1>1, <1>3, <3>1, WriteUnder
  <2>2. T(p, r, v, l - 1) = NULL /\ E(p, r, v, l - 1) = Zero
    <3>1. E(p, r, v, l) = E(p, r, u, l)
      BY <1>1, <1>3, SameEntry
    <3>2. ~E(p, r, v, l).present
      BY <3>1 DEF Link
    <3>3. Down(E(p, r, v, l)) = NULL
      BY <3>2 DEF Down
    <3>4. T(p, r, v, l - 1) = NULL
      BY <1>1, <3>3, Down1
    <3>. QED
      BY <3>4, NullZero
  <2>3. E(q, r, v, l - 1) = Zero
    <3>1. IndexAt(v, l - 1) \in Index
      BY <1>1, Digits
    <3>2. n # T(p, r, u, l)
      BY <1>1 DEF Link, Unused
    <3>3. q[n] = EmptyTable
      BY <1>1, <3>2, WriteTyped DEF Link
    <3>. QED
      BY <1>1, <2>1, <3>1, <3>3 DEF E, EntryIn, EmptyTable
  <2>4. CASE m = l - 1
    BY <1>1, <1>3, <2>1, <2>2, <2>3, <2>4
  <2>5. CASE m < l - 1
    <3>1. T(p, r, v, m) = NULL /\ E(p, r, v, m) = Zero
      BY <1>1, <2>2, <2>5, NothingBelow
    <3>2. T(q, r, v, m) = NULL /\ E(q, r, v, m) = Zero
      BY <1>1, <2>3, <2>5, NothingBelow
    <3>. QED
      BY <1>1, <2>5, <3>1, <3>2 DEF Levels
  <2>. QED
    BY <1>1, <1>3, <2>4, <2>5 DEF Levels
<1>. QED
  BY <1>1, <1>2, <1>3 DEF Levels

(* and the tables stay well formed. *)
LEMMA LinkedWell ==
  ASSUME NEW p, NEW q, NEW r, NEW u, NEW l, NEW n, Link(p, q, r, u, l, n)
  PROVE  WellFormed(q, r)
<1> DEFINE In(v, m) == m = l - 1 /\ P(v, l - 1) = P(u, l - 1)
<1>1. /\ l \in {2, 3, 4} /\ l \in Levels /\ l - 1 \in Levels /\ u \in Virt /\ n \in Frames
      /\ WellFormed(p, r) /\ Unused(p, r, n) /\ n # NULL
  BY FramesTyped DEF Link, Levels
<1>2. q \in Tables /\ r \in Roots
  BY <1>1, WriteTyped DEF Link, WellFormed
<1>3. ASSUME NEW v \in Virt, NEW m \in Levels
      PROVE  T(q, r, v, m) = IF In(v, m) THEN n ELSE T(p, r, v, m)
  BY <1>3, Linked
<1>4. ASSUME NEW v \in Virt, NEW m \in Levels
      PROVE  E(q, r, v, m) = IF m = l /\ P(v, l - 1) = P(u, l - 1) THEN Table(n) ELSE E(p, r, v, m)
  BY <1>4, Linked
<1>5. \A v \in Virt : \A m \in Levels : T(q, r, v, m) \in Roots
  BY <1>1, <1>3 DEF WellFormed, Roots
<1>6. Injective(q, r)
  <2>1. SUFFICES ASSUME NEW v \in Virt, NEW w \in Virt, NEW k \in Levels, NEW m \in Levels,
                        T(q, r, v, k) = T(q, r, w, m), T(q, r, v, k) # NULL
                 PROVE  k = m /\ P(v, k) = P(w, k)
    BY DEF Injective
  <2>2. In(v, k) <=> In(w, m)
    BY <1>1, <1>3, <2>1 DEF Unused
  <2>3. CASE In(v, k)
    BY <2>2, <2>3
  <2>4. CASE ~In(v, k)
    <3>1. T(p, r, v, k) = T(p, r, w, m) /\ T(p, r, v, k) # NULL
      BY <1>3, <2>1, <2>2, <2>4
    <3>. QED
      BY <1>1, <3>1 DEF WellFormed, Injective
  <2>. QED
    BY <2>3, <2>4
<1>7. LargeRight(q, r)
  <2>1. SUFFICES ASSUME NEW v \in Virt, NEW m \in Levels, E(q, r, v, m).large
                 PROVE  E(q, r, v, m).present /\ m = 2 /\ AskedFor(v, TRUE)
    BY DEF LargeRight
  <2>2. E(q, r, v, m) = E(p, r, v, m)
    BY <1>4, <2>1 DEF Table
  <2>. QED
    BY <1>1, <2>1, <2>2 DEF WellFormed, LargeRight
<1>8. SmallRight(q, r)
  <2>1. SUFFICES ASSUME NEW v \in Virt, T(q, r, v, 1) # NULL PROVE AskedFor(v, FALSE)
    BY DEF SmallRight
  <2>2. CASE In(v, 1)
    <3>1. l = 2 /\ l - 1 = 1
      BY <1>1, <2>2
    <3>2. AskedFor(u, FALSE) /\ P(v, 1) = P(u, 1)
      BY <2>2, <3>1 DEF Link
    <3>. QED
      BY <3>2 DEF AskedFor
  <2>3. CASE ~In(v, 1)
    <3>1. 1 \in Levels
      BY DEF Levels
    <3>2. T(p, r, v, 1) # NULL
      BY <1>3, <2>1, <2>3, <3>1
    <3>. QED
      BY <1>1, <3>2 DEF WellFormed, SmallRight
  <2>. QED
    BY <2>2, <2>3
<1>9. LinksRight(q, r)
  BY <1>1, <1>4 DEF WellFormed, LinksRight, Table
<1>. QED
  BY <1>2, <1>5, <1>6, <1>7, <1>8, <1>9 DEF WellFormed

(* What MemoryMap's callers ask for fits together. *)
Low(a) == IF a.large THEN 2 ELSE 1
Page(a) == [present |-> TRUE, phys |-> a.phys, large |-> a.large]

LEMMA CallTyped ==
  ASSUME NEW a \in Calls
  PROVE  /\ a \in Call /\ a.virt \in Virt /\ a.phys \in Nat /\ a.large \in BOOLEAN
         /\ Low(a) \in Levels /\ Low(a) \in {1, 2} /\ Page(a) \in Entry
BY VmmAssumption DEF CallsOK, Call, Low, Levels, Page, Entry

LEMMA LowDigits ==
  ASSUME NEW v PROVE P(v, 0) = v /\ P(v, 1) = v \div N
BY DEF P

(* A page is asked for large or small, *)
LEMMA OneSize ==
  ASSUME NEW a \in Calls, NEW large, AskedFor(a.virt, large)
  PROVE  a.large = large
<1>1. PICK b \in Calls : b.large = large /\ P(b.virt, 1) = P(a.virt, 1)
  BY DEF AskedFor
<1>2. a.virt \div N = b.virt \div N
  BY <1>1, LowDigits
<1>. QED
  BY <1>1, <1>2, VmmAssumption DEF CallsOK

(* and always the same one. *)
LEMMA OnePage ==
  ASSUME NEW a \in Calls, NEW b \in Calls, Low(a) = Low(b),
         P(a.virt, Low(a) - 1) = P(b.virt, Low(a) - 1)
  PROVE  Page(a) = Page(b)
<1>0. a.virt \in Virt /\ b.virt \in Virt /\ a.phys \in Nat /\ b.phys \in Nat
  BY CallTyped
<1>1. a.large = b.large
  BY CallTyped DEF Low
<1>2. Covers(a, a.virt) /\ Covers(b, a.virt)
  <2>1. CASE a.large
    <3>1. Low(a) - 1 = 1 /\ b.large
      BY <1>1, <2>1 DEF Low
    <3>2. a.virt \div N = b.virt \div N
      BY <3>1, LowDigits
    <3>. QED
      BY <2>1, <3>1, <3>2 DEF Covers
  <2>2. CASE ~a.large
    <3>1. Low(a) - 1 = 0 /\ ~b.large
      BY <1>1, <2>2 DEF Low
    <3>2. a.virt = b.virt
      BY <3>1, LowDigits
    <3>. QED
      BY <2>2, <3>1, <3>2 DEF Covers
  <2>. QED
    BY <2>1, <2>2
<1>3. Target(a, a.virt) = Target(b, a.virt)
  BY <1>0, <1>2, VmmAssumption DEF CallsOK
<1>4. a.virt % N \in Nat
  BY <1>0, Sizes DEF Virt
<1>5. a.phys = b.phys
  BY <1>0, <1>1, <1>3, <1>4 DEF Target
<1>. QED
  BY <1>1, <1>5 DEF Page

(* Setting the entry of call a changes no table. *)
Fill(p, q, r, a) ==
  /\ WellFormed(p, r)
  /\ a \in Calls
  /\ Write(p, q, r, a.virt, Low(a), Page(a))
Filling(a, v, m) == m = Low(a) /\ P(v, Low(a) - 1) = P(a.virt, Low(a) - 1)

LEMMA Filled ==
  ASSUME NEW p, NEW q, NEW r, NEW a, Fill(p, q, r, a), NEW v \in Virt, NEW m \in Levels
  PROVE  /\ T(q, r, v, m) = T(p, r, v, m)
         /\ E(q, r, v, m) = IF Filling(a, v, m) THEN Page(a) ELSE E(p, r, v, m)
<1> DEFINE u == a.virt
           l == Low(a)
<1>1. /\ l \in {1, 2} /\ l \in Levels /\ u \in Virt /\ a \in Calls
      /\ Write(p, q, r, u, l, Page(a)) /\ WellFormed(p, r)
  BY CallTyped DEF Fill
<1> HIDE DEF u, l
<1>2. T(q, r, v, m) = T(p, r, v, m)
  <2>1. CASE m >= l \/ P(v, l - 1) # P(u, l - 1)
    BY <1>1, <2>1, WriteBeside
  <2>2. CASE m < l /\ P(v, l - 1) = P(u, l - 1)
    <3>1. l = 2 /\ m = 1 /\ l - 1 = 1
      BY <1>1, <2>2 DEF Levels
    <3>2. a.large
      BY <3>1 DEF Low, l
    <3>3. Down(Page(a)) = NULL
      BY <3>2 DEF Down, Page
    <3>4. T(q, r, v, 1) = NULL
      BY <1>1, <2>2, <3>1, <3>3, WriteUnder
    <3>5. ASSUME T(p, r, v, 1) # NULL PROVE FALSE
      <4>1. AskedFor(v, FALSE)
        BY <1>1, <3>5 DEF WellFormed, SmallRight
      <4>2. AskedFor(a.virt, FALSE)
        BY <2>2, <3>1, <4>1 DEF AskedFor, u
      <4>. QED
        BY <1>1, <3>2, <4>2, OneSize
    <3>. QED
      BY <3>1, <3>4, <3>5
  <2>. QED
    BY <1>1, <2>1, <2>2 DEF Levels
<1>3. E(q, r, v, m) = IF m = l /\ P(v, l - 1) = P(u, l - 1) THEN Page(a) ELSE E(p, r, v, m)
  BY <1>1, <1>2, EntryWritten
<1>. QED
  BY <1>2, <1>3 DEF Filling, u, l

(* What is right of the tables depends on which there are. *)
LEMMA SameTablesWell ==
  ASSUME NEW p, NEW q, NEW r, WellFormed(p, r),
         \A v \in Virt : \A m \in Levels : T(q, r, v, m) = T(p, r, v, m)
  PROVE  /\ \A v \in Virt : \A m \in Levels : T(q, r, v, m) \in Roots
         /\ Injective(q, r)
         /\ SmallRight(q, r)
<1>1. \A v \in Virt : \A m \in Levels : T(q, r, v, m) \in Roots
  BY DEF WellFormed
<1>2. Injective(q, r)
  BY DEF WellFormed, Injective
<1>3. SmallRight(q, r)
  <2>1. 1 \in Levels
    BY DEF Levels
  <2>. QED
    BY <2>1 DEF WellFormed, SmallRight
<1>. QED
  BY <1>1, <1>2, <1>3

LEMMA FilledWell ==
  ASSUME NEW p, NEW q, NEW r, NEW a, Fill(p, q, r, a)
  PROVE  WellFormed(q, r)
<1>1. a \in Calls /\ WellFormed(p, r) /\ q \in Tables /\ a.virt \in Virt
  BY WriteTyped, CallTyped DEF Fill
<1>2. \A v \in Virt : \A m \in Levels : T(q, r, v, m) = T(p, r, v, m)
  BY Filled
<1>3. 1 \in Levels
  BY DEF Levels
<1>4. /\ \A v \in Virt : \A m \in Levels : T(q, r, v, m) \in Roots
      /\ Injective(q, r)
      /\ SmallRight(q, r)
  BY <1>1, <1>2, <1>3, SameTablesWell
<1>5. LargeRight(q, r)
  <2>1. SUFFICES ASSUME NEW v \in Virt, NEW m \in Levels, E(q, r, v, m).large
                 PROVE  E(q, r, v, m).present /\ m = 2 /\ AskedFor(v, TRUE)
    BY DEF LargeRight
  <2>2. E(q, r, v, m) = IF Filling(a, v, m) THEN Page(a) ELSE E(p, r, v, m)
    BY Filled
  <2>3. CASE Filling(a, v, m)
    <3>1. a.large /\ E(q, r, v, m).present
      BY <2>1, <2>2, <2>3 DEF Page
    <3>2. m = 2 /\ P(v, 1) = P(a.virt, 1)
      BY <2>3, <3>1 DEF Filling, Low
    <3>3. a.large = TRUE
      BY <1>1, <3>1, CallTyped
    <3>. QED
      BY <1>1, <3>1, <3>2, <3>3 DEF AskedFor
  <2>4. CASE ~Filling(a, v, m)
    BY <1>1, <2>1, <2>2, <2>4 DEF WellFormed, LargeRight
  <2>. QED
    BY <2>3, <2>4
<1>6. LinksRight(q, r)
  <2>1. SUFFICES ASSUME NEW v \in Virt, NEW m \in Levels, m > 1,
                        E(q, r, v, m).present, ~E(q, r, v, m).large
                 PROVE  E(q, r, v, m).phys # NULL
    BY DEF LinksRight
  <2>2. ~Filling(a, v, m)
    <3>1. ASSUME Filling(a, v, m) PROVE FALSE
      <4>1. E(q, r, v, m) = Page(a)
        BY <3>1, Filled
      <4>2. ~a.large
        BY <2>1, <4>1 DEF Page
      <4>. QED
        BY <2>1, <3>1, <4>2 DEF Filling, Low
    <3>. QED
      BY <3>1
  <2>3. E(q, r, v, m) = E(p, r, v, m)
    BY <2>2, Filled
  <2>. QED
    BY <1>1, <2>1, <2>3 DEF WellFormed, LinksRight
<1>. QED
  BY <1>1, <1>4, <1>5, <1>6 DEF WellFormed

(* Clearing a frame that no walk goes through changes nothing, *)
Clear(p, q, r, n) ==
  /\ p \in Tables /\ n \in Frames /\ Unused(p, r, n)
  /\ q = [p EXCEPT ![n] = EmptyTable]

LEMMA Cleared ==
  ASSUME NEW p, NEW q, NEW r, NEW n, Clear(p, q, r, n), NEW v \in Virt, NEW m \in Levels
  PROVE  T(q, r, v, m) = T(p, r, v, m) /\ E(q, r, v, m) = E(p, r, v, m)
<1>1. \A f \in Frames : f # n => q[f] = p[f]
  BY DEF Clear, Tables
<1>2. ASSUME NEW k \in Levels, T(q, r, v, k) = T(p, r, v, k)
      PROVE  E(q, r, v, k) = E(p, r, v, k)
  BY <1>1, <1>2 DEF E, EntryIn, Clear, Unused
<1>3. 1 \in Levels /\ 2 \in Levels /\ 3 \in Levels /\ 4 \in Levels /\ m \in {1, 2, 3, 4}
  BY FourLevels DEF Levels
<1>4. T(q, r, v, 4) = T(p, r, v, 4) /\ E(q, r, v, 4) = E(p, r, v, 4)
  <2>1. T(q, r, v, 4) = T(p, r, v, 4)
    BY Down1
  <2>. QED
    BY <1>2, <1>3, <2>1
<1>5. T(q, r, v, 3) = T(p, r, v, 3) /\ E(q, r, v, 3) = E(p, r, v, 3)
  <2>1. T(q, r, v, 3) = T(p, r, v, 3)
    BY <1>4, Down1
  <2>. QED
    BY <1>2, <1>3, <2>1
<1>6. T(q, r, v, 2) = T(p, r, v, 2) /\ E(q, r, v, 2) = E(p, r, v, 2)
  <2>1. T(q, r, v, 2) = T(p, r, v, 2)
    BY <1>5, Down1
  <2>. QED
    BY <1>2, <1>3, <2>1
<1>7. T(q, r, v, 1) = T(p, r, v, 1) /\ E(q, r, v, 1) = E(p, r, v, 1)
  <2>1. T(q, r, v, 1) = T(p, r, v, 1)
    BY <1>6, Down1
  <2>. QED
    BY <1>2, <1>3, <2>1
<1>. QED
  BY <1>3, <1>4, <1>5, <1>6, <1>7

LEMMA EmptyTyped ==
  ASSUME NEW p \in Tables, NEW n \in Frames
  PROVE  [p EXCEPT ![n] = EmptyTable] \in Tables
<1>1. EmptyTable \in [Index -> Entry]
  BY DEF EmptyTable, Zero, Entry
<1>. QED
  BY <1>1 DEF Tables

LEMMA ClearedWell ==
  ASSUME NEW p, NEW q, NEW r, WellFormed(p, r), NEW n, Clear(p, q, r, n)
  PROVE  WellFormed(q, r)
<1>1. p \in Tables /\ q \in Tables
  BY EmptyTyped DEF Clear
<1>2. \A v \in Virt : \A m \in Levels :
        T(q, r, v, m) = T(p, r, v, m) /\ E(q, r, v, m) = E(p, r, v, m)
  BY Cleared
<1>3. LargeRight(q, r)
  BY <1>2 DEF WellFormed, LargeRight
<1>4. LinksRight(q, r)
  BY <1>2 DEF WellFormed, LinksRight
<1>. QED
  BY <1>1, <1>2, <1>3, <1>4, SameTablesWell DEF WellFormed

(* as a map with an empty root, or none, has no other table. *)
LEMMA EmptyMap ==
  ASSUME NEW p \in Tables, NEW r \in Roots, r # NULL => p[r] = EmptyTable
  PROVE  /\ WellFormed(p, r)
         /\ \A v \in Virt : \A m \in Levels :
              /\ T(p, r, v, m) = IF m = 4 THEN r ELSE NULL
              /\ E(p, r, v, m) = Zero
<1>1. ASSUME NEW v \in Virt, NEW m \in Levels
      PROVE  T(p, r, v, m) = (IF m = 4 THEN r ELSE NULL) /\ E(p, r, v, m) = Zero
  <2>1. 4 \in Levels
    BY DEF Levels
  <2>2. IndexAt(v, 4) \in Index
    BY <2>1, Digits
  <2>3. T(p, r, v, 4) = r /\ E(p, r, v, 4) = Zero
    BY <2>2, Down1, FramesTyped DEF E, EntryIn, EmptyTable
  <2>. QED
    BY <2>1, <2>3, NothingBelow DEF Levels
<1>2. Injective(p, r)
  <2>1. SUFFICES ASSUME NEW v \in Virt, NEW w \in Virt, NEW k \in Levels, NEW m \in Levels,
                        T(p, r, v, k) = T(p, r, w, m), T(p, r, v, k) # NULL
                 PROVE  k = m /\ P(v, k) = P(w, k)
    BY DEF Injective
  <2>2. k = 4 /\ m = 4
    BY <1>1, <2>1
  <2>. QED
    BY <2>2 DEF P
<1>3. LargeRight(p, r) /\ SmallRight(p, r)
  <2>1. 1 \in Levels /\ ~Zero.large
    BY DEF Levels, Zero
  <2>2. \A v \in Virt : T(p, r, v, 1) = NULL
    BY <1>1, <2>1
  <2>. QED
    BY <1>1, <2>1, <2>2 DEF LargeRight, SmallRight
<1>4. \A v \in Virt : \A m \in Levels : T(p, r, v, m) \in Roots
  BY <1>1 DEF Roots
<1>5. LinksRight(p, r)
  BY <1>1 DEF LinksRight, Zero
<1>. QED
  BY <1>1, <1>2, <1>3, <1>4, <1>5 DEF WellFormed

-----------------------------------------------------------------------------
(* The inductive invariant *)

Labels == {"start", "init", "idle", "walk", "link", "return", "fault"}
Typed ==
  /\ taken \in 0 .. Len(FrameSeq)
  /\ entry \in Nat \ {0} /\ page \in Nat
  /\ pc \in [Contexts -> Labels]
  /\ call \in [Contexts -> Call]
  /\ level \in [Contexts -> Levels]
  /\ table \in [Contexts -> Roots]
  /\ new \in [Contexts -> Roots]

(* Start-up is alone until it has set kernelPML4, and is over then. *)
Phases ==
  /\ pml4 = NULL <=> pc[Main] = "start"
  /\ pml4 = NULL => taken = 0
  /\ kernelPML4 \in {NULL, pml4}
  /\ kernelPML4 = NULL => \A c \in Contexts \ {Main} : pc[c] = "idle"
  /\ kernelPML4 # NULL => \A c \in Contexts : pc[c] \notin {"start", "init"}

(* A call is where its walk leads: at the table of its level, about to link
   a table it has made under an entry that is still empty, or back with its
   page mapped. *)
Busy(at) == at \in {"walk", "link"}
Mapped(p, r, a) == E(p, r, a.virt, Low(a)) = Page(a)
Walking(p, r, a, l, t) ==
  a \in Calls /\ l \in Levels /\ l >= Low(a) /\ t # NULL /\ t = T(p, r, a.virt, l)
Linking(p, r, a, l, n) ==
  /\ l > Low(a) /\ ~E(p, r, a.virt, l).present
  /\ n \in Frames /\ p[n] = EmptyTable /\ Unused(p, r, n)
Going(p, r, at, a, l, t, n) ==
  /\ Busy(at) => Walking(p, r, a, l, t)
  /\ at = "link" => Linking(p, r, a, l, n)
  /\ at # "link" => n = NULL
  /\ at = "return" => a \in Calls /\ Mapped(p, r, a)
Walks ==
  \A c \in Contexts : Going(pte, pml4, pc[c], call[c], level[c], table[c], new[c])
Mine ==
  kernelPML4 # NULL => \A c \in Contexts : Busy(pc[c]) => call[c] \in CallsOf[c]

(* A frame that was given is in one place. *)
Given(k) == { FrameSeq[i] : i \in 1 .. k }
HasTable(p, r, f) == \E v \in Virt : \E m \in Levels : T(p, r, v, m) = f
Apart == \A c, d \in Contexts : new[c] = new[d] /\ new[c] # NULL => c = d
Owned ==
  /\ \A v \in Virt : \A m \in Levels : T(pte, pml4, v, m) \in Given(taken) \union {NULL}
  /\ \A c \in Contexts : new[c] \in Given(taken) \union {NULL}
  /\ \A f \in Given(taken) : HasTable(pte, pml4, f) \/ \E c \in Contexts : new[c] = f

(* What InitPaging has asked for is mapped, or being mapped. *)
Asked(a, e, k) ==
  \E i \in DOMAIN MemMap : \E j \in 0 .. MemMap[i].length - 1 :
    a = InitCall(MemMap[i], j) /\ (i < e \/ (i = e /\ j < k))
Started ==
  \A a \in InitCalls :
    \/ Mapped(pte, pml4, a)
    \/ kernelPML4 = NULL /\ ~Asked(a, entry, page)
    \/ kernelPML4 = NULL /\ Busy(pc[Main]) /\ a = call[Main]
    \/ kernelPML4 = NULL /\ pc[Main] = "fault"

Inv ==
  /\ Typed
  /\ WellFormed(pte, pml4)
  /\ Phases
  /\ Walks
  /\ Mine
  /\ Apart
  /\ Owned
  /\ Started

-----------------------------------------------------------------------------
(* What it rests on *)

LEMMA Constants ==
  /\ Main \in Contexts /\ Calls \subseteq Call /\ InitCalls \subseteq Calls
  /\ \A c \in Contexts : CallsOf[c] \subseteq Calls
  /\ 0 \in Virt /\ NoCall \in Call
<1>1. 0 \in Virt
  <2>1. N * N * N * N \in Nat \ {0}
    BY VmmAssumption
  <2>. QED
    BY <2>1 DEF Virt
<1>2. NoCall \in Call
  BY <1>1 DEF NoCall, Call
<1>. QED
  BY <1>1, <1>2, VmmAssumption DEF CallsOK, Calls

LEMMA Fresh ==
  ASSUME NEW k \in Nat, k < Len(FrameSeq)
  PROVE  /\ FrameSeq[k + 1] \in Frames /\ FrameSeq[k + 1] # NULL
         /\ FrameSeq[k + 1] \notin Given(k)
         /\ Given(k + 1) = Given(k) \union {FrameSeq[k + 1]}
<1>1. k + 1 \in DOMAIN FrameSeq /\ DOMAIN FrameSeq = 1 .. Len(FrameSeq)
  BY VmmAssumption
<1>2. FrameSeq[k + 1] \in Frames
  BY <1>1 DEF Frames
<1>3. FrameSeq[k + 1] \notin Given(k)
  <2>1. SUFFICES ASSUME NEW i \in 1 .. k, FrameSeq[i] = FrameSeq[k + 1] PROVE FALSE
    BY DEF Given
  <2>2. i \in DOMAIN FrameSeq /\ i # k + 1
    BY <1>1
  <2>. QED
    BY <1>1, <2>1, <2>2, VmmAssumption
<1>4. 1 .. k + 1 = (1 .. k) \union {k + 1}
  OBVIOUS
<1>. QED
  BY <1>2, <1>3, <1>4, FramesTyped DEF Given

LEMMA GivenFrames ==
  ASSUME NEW k \in 0 .. Len(FrameSeq) PROVE Given(k) \subseteq Frames
BY VmmAssumption DEF Given, Frames

(* A context that walks is at the table its address goes through. *)
LEMMA AtTable ==
  ASSUME Inv, NEW c \in Contexts, Busy(pc[c])
  PROVE  /\ call[c] \in Calls /\ level[c] \in Levels /\ Low(call[c]) \in {1, 2}
         /\ level[c] >= Low(call[c]) /\ Lowest(c) = Low(call[c])
         /\ table[c] = T(pte, pml4, call[c].virt, level[c]) /\ table[c] \in Frames
         /\ Slot(c) = IndexAt(call[c].virt, level[c]) /\ Slot(c) \in Index
         /\ Found(c) = E(pte, pml4, call[c].virt, level[c]) /\ Found(c) \in Entry
         /\ call[c].virt \in Virt
<1>1. Walking(pte, pml4, call[c], level[c], table[c])
  BY DEF Inv, Walks, Going
<1>2. /\ call[c] \in Calls /\ level[c] \in Levels /\ level[c] >= Low(call[c])
      /\ table[c] = T(pte, pml4, call[c].virt, level[c]) /\ table[c] # NULL
  BY <1>1 DEF Walking
<1>3. call[c].virt \in Virt /\ Low(call[c]) \in {1, 2}
  BY <1>2, CallTyped
<1>4. table[c] \in Frames
  BY <1>2, <1>3 DEF Inv, WellFormed, Roots
<1>5. Slot(c) = IndexAt(call[c].virt, level[c]) /\ Slot(c) \in Index
  BY <1>2, <1>3, Digits DEF Slot
<1>6. Found(c) = E(pte, pml4, call[c].virt, level[c])
  BY <1>2, <1>4, <1>5 DEF Found, E, EntryIn
<1>7. Found(c) \in Entry
  BY <1>2, <1>3, <1>6, EntryTyped DEF Inv, WellFormed
<1>. QED
  BY <1>2, <1>3, <1>4, <1>5, <1>6, <1>7 DEF Lowest, Low

(* Two walks differ from the top. *)
LEMMA Elsewhere ==
  ASSUME Inv, NEW c \in Contexts, NEW d \in Contexts, c # d, Busy(pc[c]), Busy(pc[d])
  PROVE  P(call[c].virt, 3) # P(call[d].virt, 3)
<1>1. kernelPML4 # NULL
  BY DEF Inv, Phases, Busy
<1>2. call[c] \in CallsOf[c] /\ call[d] \in CallsOf[d]
  BY <1>1 DEF Inv, Mine
<1>3. IndexAt(call[c].virt, 4) # IndexAt(call[d].virt, 4)
  BY <1>2, VmmAssumption DEF CallsOK
<1>4. \A v : P(v, 3) = v \div (N * N * N)
  BY DEF P
<1>5. \A v : IndexAt(v, 4) = v \div (N * N * N)
  BY DEF IndexAt
<1>. QED
  BY <1>3, <1>4, <1>5

LEMMA StillGoing ==
  ASSUME NEW p, NEW q, NEW r, NEW at, NEW a, NEW l, NEW t, NEW n, Going(p, r, at, a, l, t, n),
         Busy(at) => T(q, r, a.virt, l) = T(p, r, a.virt, l) /\ E(q, r, a.virt, l) = E(p, r, a.virt, l),
         at = "link" => q[n] = p[n] /\ Unused(q, r, n),
         \A b \in Calls : Mapped(p, r, b) => Mapped(q, r, b)
  PROVE  Going(q, r, at, a, l, t, n)
BY DEF Going, Busy, Walking, Linking

(* What is mapped stays mapped. *)
LEMMA ClearedMapped ==
  ASSUME NEW p, NEW q, NEW r, NEW n, Clear(p, q, r, n), NEW b \in Calls, Mapped(p, r, b)
  PROVE  Mapped(q, r, b)
<1>1. b.virt \in Virt /\ Low(b) \in Levels
  BY CallTyped
<1>. QED
  BY <1>1, Cleared DEF Mapped

LEMMA LinkedMapped ==
  ASSUME NEW p, NEW q, NEW r, NEW u, NEW l, NEW n, Link(p, q, r, u, l, n),
         NEW b \in Calls, Mapped(p, r, b)
  PROVE  Mapped(q, r, b)
<1>1. b.virt \in Virt /\ Low(b) \in Levels /\ u \in Virt /\ l \in Levels
  BY CallTyped DEF Link, Levels
<1>2. ~(Low(b) = l /\ P(b.virt, l - 1) = P(u, l - 1))
  <2>1. ASSUME Low(b) = l, P(b.virt, l - 1) = P(u, l - 1) PROVE FALSE
    <3>1. E(p, r, b.virt, l) = E(p, r, u, l)
      BY <1>1, <2>1, SameEntry
    <3>. QED
      BY <2>1, <3>1 DEF Link, Mapped, Page
  <2>. QED
    BY <2>1
<1>3. E(q, r, b.virt, Low(b)) = E(p, r, b.virt, Low(b))
  BY <1>1, <1>2, Linked
<1>. QED
  BY <1>3 DEF Mapped

LEMMA FilledMapped ==
  ASSUME NEW p, NEW q, NEW r, NEW a, Fill(p, q, r, a), NEW b \in Calls, Mapped(p, r, b)
  PROVE  Mapped(q, r, b)
<1>1. b.virt \in Virt /\ Low(b) \in Levels /\ a \in Calls
  BY CallTyped DEF Fill
<1>2. E(q, r, b.virt, Low(b)) = IF Filling(a, b.virt, Low(b)) THEN Page(a) ELSE E(p, r, b.virt, Low(b))
  BY <1>1, Filled
<1>3. Filling(a, b.virt, Low(b)) => Page(a) = Page(b)
  BY <1>1, OnePage DEF Filling
<1>. QED
  BY <1>2, <1>3 DEF Mapped

-----------------------------------------------------------------------------
(* Start-up *)

LEMMA Starts == Init => Inv
<1> SUFFICES ASSUME Init PROVE Inv
  OBVIOUS
<1>1. pte \in Tables
  <2>1. EmptyTable \in [Index -> Entry]
    BY DEF EmptyTable, Zero, Entry
  <2>. QED
    BY <2>1 DEF Init, Tables
<1>2. /\ WellFormed(pte, pml4)
      /\ \A v \in Virt : \A m \in Levels : T(pte, pml4, v, m) = NULL
  BY <1>1, EmptyMap DEF Init, Roots
<1>3. Typed
  <2>1. Len(FrameSeq) \in Nat
    BY VmmAssumption
  <2>2. 4 \in Levels /\ NULL \in Roots
    BY DEF Levels, Roots
  <2>. QED
    BY <2>1, <2>2, Constants DEF Typed, Init, Labels
<1>4. Phases
  BY Constants DEF Phases, Init
<1>5. Walks
  BY DEF Walks, Going, Busy, Init
<1>6. Mine /\ Apart
  BY DEF Mine, Apart, Init
<1>7. Owned
  BY <1>2 DEF Owned, Given, Init
<1>8. Started
  <2>1. ASSUME NEW a PROVE ~Asked(a, 1, 0)
    <3>1. ASSUME NEW i \in DOMAIN MemMap, NEW j \in 0 .. MemMap[i].length - 1
          PROVE  ~(i < 1 \/ (i = 1 /\ j < 0))
      <4>1. i \in Nat /\ i >= 1
        BY VmmAssumption
      <4>. QED
        BY <4>1
    <3>. QED
      BY <3>1 DEF Asked
  <2>. QED
    BY <2>1 DEF Started, Init
<1>. QED
  BY <1>2, <1>3, <1>4, <1>5, <1>6, <1>7, <1>8 DEF Inv

LEMMA InitPml4Step ==
  ASSUME Inv, InitPml4
  PROVE  Inv'
<1> DEFINE n == NextFrame
<1>1. /\ pml4 = NULL /\ taken = 0 /\ kernelPML4 = NULL /\ pc[Main] = "start"
      /\ \A c \in Contexts : pc[c] \in {"start", "idle"}
  BY Constants DEF InitPml4, Inv, Phases
<1>2. /\ n \in Frames /\ n # NULL /\ Given(0) = {} /\ Given(1) = {n}
      /\ pte \in Tables /\ WellFormed(pte, NULL) /\ 0 < Len(FrameSeq)
  <2>1. 0 < Len(FrameSeq)
    BY <1>1 DEF InitPml4, AllocatePage
  <2>2. Given(0) = {}
    BY DEF Given
  <2>3. /\ FrameSeq[0 + 1] \in Frames /\ FrameSeq[0 + 1] # NULL
        /\ Given(0 + 1) = Given(0) \union {FrameSeq[0 + 1]}
    BY <2>1, Fresh
  <2>4. 0 + 1 = 1 /\ n = FrameSeq[1]
    BY <1>1 DEF NextFrame
  <2>5. n \in Frames /\ n # NULL /\ Given(1) = {n}
    BY <2>2, <2>3, <2>4
  <2>. QED
    BY <1>1, <2>1, <2>2, <2>5 DEF Inv, WellFormed
<1>3. /\ pte' = [pte EXCEPT ![n] = EmptyTable] /\ pml4' = n /\ taken' = 1
      /\ pc' = [pc EXCEPT ![Main] = "init"]
      /\ UNCHANGED << kernelPML4, entry, page, call, level, table, new >>
  BY <1>1 DEF InitPml4, AllocatePage, Goto, walk
<1> HIDE DEF n
<1>4. pte' \in Tables /\ pte'[n] = EmptyTable
  BY <1>2, <1>3, EmptyTyped DEF Tables
<1>5. /\ WellFormed(pte', pml4')
      /\ \A v \in Virt : \A m \in Levels : T(pte', pml4', v, m) = IF m = 4 THEN n ELSE NULL
  <2>1. /\ WellFormed(pte', n)
        /\ \A v \in Virt : \A m \in Levels : T(pte', n, v, m) = IF m = 4 THEN n ELSE NULL
    BY <1>2, <1>4, EmptyMap DEF Roots
  <2>. QED
    BY <1>3, <2>1
<1>6. \A v \in Virt : \A m \in Levels : E(pte, NULL, v, m) = Zero
  BY <1>2, EmptyMap DEF Roots
<1>7. \A c \in Contexts : new[c] = NULL
  BY <1>1 DEF Inv, Walks, Going
<1>8. \A c \in Contexts : pc'[c] \in {"init", "idle"} /\ (c # Main => pc'[c] = pc[c])
  <2>1. pc \in [Contexts -> Labels]
    BY DEF Inv, Typed
  <2>2. \A c \in Contexts : c # Main => pc[c] = "idle"
    BY <1>1 DEF Inv, Phases
  <2>. QED
    BY <1>3, <2>1, <2>2, Constants
<1>9. Typed'
  BY <1>2, <1>3, Constants DEF Inv, Typed, Labels
<1>10. Phases'
  BY <1>1, <1>2, <1>3, <1>8, Constants DEF Inv, Typed, Phases
<1>11. Walks'
  BY <1>3, <1>7, <1>8 DEF Walks, Going, Busy
<1>12. Mine' /\ Apart'
  BY <1>1, <1>3, <1>7 DEF Mine, Apart
<1>13. Owned'
  <2>1. HasTable(pte', pml4', n)
    <3>1. 4 \in Levels
      BY DEF Levels
    <3>. QED
      BY <1>5, <3>1, Constants DEF HasTable
  <2>. QED
    BY <1>2, <1>3, <1>5, <1>7, <2>1 DEF Owned
<1>14. Started'
  <2>1. ASSUME NEW a \in InitCalls PROVE ~Asked(a, entry, page)
    <3>1. a \in Calls /\ a.virt \in Virt /\ Low(a) \in Levels
      BY Constants, CallTyped
    <3>2. ~Mapped(pte, NULL, a)
      BY <1>6, <3>1 DEF Mapped, Page, Zero
    <3>. QED
      BY <1>1, <3>2 DEF Inv, Started, Busy
  <2>. QED
    BY <1>1, <1>3, <2>1 DEF Started
<1>. QED
  BY <1>5, <1>9, <1>10, <1>11, <1>12, <1>13, <1>14 DEF Inv

(* A walk begins at the root. *)
LEMMA Entered ==
  ASSUME NEW p, NEW r, NEW a \in Calls, r # NULL
  PROVE  Going(p, r, "walk", a, 4, r, NULL)
<1>1. 4 \in Levels /\ 4 >= Low(a)
  BY CallTyped DEF Levels
<1>. QED
  BY <1>1, Down1 DEF Going, Busy, Walking

LEMMA Entries ==
  ASSUME NEW i \in DOMAIN MemMap
  PROVE  i \in Nat \ {0} /\ i <= Len(MemMap) /\ MemMap[i].length \in Nat
<1> DEFINE S == [base : Nat, length : Nat, type : {KERNEL, "other"}]
<1>1. \A s \in S : s.length \in Nat
  OBVIOUS
<1>2. MemMap \in Seq(S)
  BY VmmAssumption
<1> HIDE DEF S
<1>3. i \in 1 .. Len(MemMap) /\ Len(MemMap) \in Nat /\ MemMap[i] \in S
  BY <1>2
<1>. QED
  BY <1>1, <1>3

(* A turn of the loops asks for the next page, or goes to the next entry. *)
LEMMA AskedNext ==
  ASSUME NEW a, NEW e \in Nat, NEW k \in Nat, k < MemMap[e].length, Asked(a, e, k + 1)
  PROVE  Asked(a, e, k) \/ a = InitCall(MemMap[e], k)
<1>0. PICK i \in DOMAIN MemMap : \E j \in 0 .. MemMap[i].length - 1 :
        a = InitCall(MemMap[i], j) /\ (i < e \/ (i = e /\ j < k + 1))
  BY DEF Asked
<1>1. PICK j \in 0 .. MemMap[i].length - 1 :
        a = InitCall(MemMap[i], j) /\ (i < e \/ (i = e /\ j < k + 1))
  BY <1>0
<1>2. j \in Nat
  BY Entries
<1>3. j < k \/ j = k \/ i < e
  BY <1>1, <1>2
<1>. QED
  BY <1>1, <1>3 DEF Asked

LEMMA AskedEntry ==
  ASSUME NEW a, NEW e \in Nat, NEW k \in Nat, ~(k < MemMap[e].length), Asked(a, e + 1, 0)
  PROVE  Asked(a, e, k)
<1>0. PICK i \in DOMAIN MemMap : \E j \in 0 .. MemMap[i].length - 1 :
        a = InitCall(MemMap[i], j) /\ (i < e + 1 \/ (i = e + 1 /\ j < 0))
  BY DEF Asked
<1>1. PICK j \in 0 .. MemMap[i].length - 1 :
        a = InitCall(MemMap[i], j) /\ (i < e + 1 \/ (i = e + 1 /\ j < 0))
  BY <1>0
<1>2. i \in Nat /\ j \in Nat /\ MemMap[i].length \in Nat /\ j < MemMap[i].length
  BY Entries
<1>3. i < e \/ i = e
  BY <1>1, <1>2
<1>4. i = e => j < k
  BY <1>2
<1>. QED
  BY <1>1, <1>3, <1>4 DEF Asked

LEMMA InitMapStep ==
  ASSUME Inv, InitMap
  PROVE  Inv'
<1>1. /\ pc[Main] = "init" /\ kernelPML4 = NULL /\ pml4 # NULL /\ new[Main] = NULL
      /\ entry \in Nat /\ page \in Nat /\ entry \in DOMAIN MemMap
      /\ UNCHANGED << pte, taken, pml4, kernelPML4, new >>
      /\ pc \in [Contexts -> Labels]
  <2>1. entry \in DOMAIN MemMap
    <3>1. entry \in Nat /\ entry <= Len(MemMap) /\ entry # 0
      BY DEF Inv, Typed, InitMap
    <3>. QED
      BY <3>1, VmmAssumption
  <2>2. pc[Main] = "init"
    BY DEF InitMap
  <2>3. UNCHANGED << pte, taken, pml4, kernelPML4, new >>
    BY DEF InitMap, Enter, walk
  <2>. QED
    BY <2>1, <2>2, <2>3, Constants DEF Inv, Typed, Phases, Walks, Going
<1>2. \A a \in InitCalls : Mapped(pte, pml4, a) \/ ~Asked(a, entry, page)
  BY <1>1 DEF Inv, Started, Busy
<1>3. CASE page < MemMap[entry].length
  <2> DEFINE a == InitCall(MemMap[entry], page)
  <2>1. /\ page' = page + 1 /\ entry' = entry
        /\ call' = [call EXCEPT ![Main] = a] /\ level' = [level EXCEPT ![Main] = 4]
        /\ table' = [table EXCEPT ![Main] = pml4] /\ pc' = [pc EXCEPT ![Main] = "walk"]
    BY <1>3 DEF InitMap, Enter, Goto
  <2>2. a \in InitCalls /\ a \in Calls /\ a \in Call
    <3>1. page \in 0 .. MemMap[entry].length - 1
      BY <1>1, <1>3, Entries
    <3>2. a \in InitCalls
      BY <1>1, <3>1 DEF InitCalls
    <3>. QED
      BY <3>2, Constants
  <2> HIDE DEF a
  <2>3. Typed'
    <3>1. 4 \in Levels /\ pml4 \in Roots
      BY DEF Levels, Inv, WellFormed
    <3>2. "walk" \in Labels
      BY DEF Labels
    <3>3. call' \in [Contexts -> Call] /\ level' \in [Contexts -> Levels]
      BY <2>1, <2>2, <3>1 DEF Inv, Typed
    <3>4. table' \in [Contexts -> Roots] /\ pc' \in [Contexts -> Labels]
      BY <2>1, <3>1, <3>2 DEF Inv, Typed
    <3>5. taken' \in 0 .. Len(FrameSeq) /\ new' \in [Contexts -> Roots]
      BY <1>1 DEF Inv, Typed
    <3>. QED
      BY <1>1, <2>1, <3>3, <3>4, <3>5 DEF Inv, Typed
  <2>4. Phases' /\ Mine' /\ Apart' /\ Owned' /\ WellFormed(pte, pml4)'
    BY <1>1, <2>1, Constants DEF Inv, Phases, Mine, Apart, Owned
  <2>5. Walks'
    <3>1. SUFFICES ASSUME NEW d \in Contexts
                   PROVE  Going(pte, pml4, pc[d], call[d], level[d], table[d], new[d])'
      BY DEF Walks
    <3>2. CASE d = Main
      <4>1. Going(pte, pml4, "walk", a, 4, pml4, NULL)
        BY <1>1, <2>2, Entered
      <4>. QED
        BY <1>1, <2>1, <3>2, <4>1, Constants DEF Inv, Typed
    <3>3. CASE d # Main
      BY <1>1, <2>1, <3>3, Constants DEF Inv, Typed, Walks
    <3>. QED
      BY <3>2, <3>3
  <2>6. Started'
    <3>1. call'[Main] = a /\ pc'[Main] = "walk"
      BY <1>1, <2>1, Constants DEF Inv, Typed
    <3>2. ASSUME NEW b \in InitCalls, Asked(b, entry', page') PROVE Mapped(pte, pml4, b) \/ b = a
      <4>1. Asked(b, entry, page) \/ b = InitCall(MemMap[entry], page)
        BY <1>1, <1>3, <2>1, <3>2, AskedNext
      <4>. QED
        BY <1>2, <4>1 DEF a
    <3>. QED
      BY <1>1, <3>1, <3>2 DEF Started, Busy
  <2>. QED
    BY <2>3, <2>4, <2>5, <2>6 DEF Inv
<1>4. CASE ~(page < MemMap[entry].length)
  <2>1. page' = 0 /\ entry' = entry + 1 /\ UNCHANGED << pc, call, level, table >>
    BY <1>4 DEF InitMap, walk
  <2>2. Typed' /\ Phases' /\ Walks' /\ Mine' /\ Apart' /\ Owned' /\ WellFormed(pte, pml4)'
    BY <1>1, <2>1 DEF Inv, Typed, Phases, Walks, Mine, Apart, Owned
  <2>3. Started'
    <3>1. ASSUME NEW b \in InitCalls, Asked(b, entry', page') PROVE Mapped(pte, pml4, b)
      <4>1. Asked(b, entry, page)
        BY <1>1, <1>4, <2>1, <3>1, AskedEntry
      <4>. QED
        BY <1>2, <4>1
    <3>. QED
      BY <1>1, <3>1 DEF Started
  <2>. QED
    BY <2>2, <2>3 DEF Inv
<1>. QED
  BY <1>3, <1>4

LEMMA InitDoneStep ==
  ASSUME Inv, InitDone
  PROVE  Inv'
<1>1. /\ pc[Main] = "init" /\ kernelPML4 = NULL /\ pml4 # NULL
      /\ entry \in Nat /\ page \in Nat /\ entry > Len(MemMap)
      /\ kernelPML4' = pml4 /\ pc' = [pc EXCEPT ![Main] = "idle"]
      /\ UNCHANGED << pte, taken, pml4, entry, page, call, level, table, new >>
      /\ pc \in [Contexts -> Labels]
  BY Constants DEF InitDone, Goto, walk, Inv, Typed, Phases
<1>2. \A c \in Contexts : pc'[c] = "idle"
  BY <1>1, Constants DEF Inv, Phases
<1>3. Typed'
  BY <1>1, <1>2, Constants DEF Inv, Typed, Labels
<1>4. Phases' /\ Mine' /\ Apart' /\ Owned' /\ WellFormed(pte, pml4)'
  BY <1>1, <1>2, Constants DEF Inv, Phases, Mine, Busy, Apart, Owned
<1>5. Walks'
  <2>1. \A c \in Contexts : new[c] = NULL
    BY <1>1 DEF Inv, Phases, Walks, Going
  <2>. QED
    BY <1>1, <1>2, <2>1 DEF Walks, Going, Busy
<1>6. Started'
  <2>1. ASSUME NEW a \in InitCalls PROVE Asked(a, entry, page)
    <3>1. PICK i \in DOMAIN MemMap : \E j \in 0 .. MemMap[i].length - 1 : a = InitCall(MemMap[i], j)
      BY DEF InitCalls
    <3>2. i < entry
      <4>1. i \in Nat /\ i <= Len(MemMap) /\ Len(MemMap) \in Nat
        BY Entries, VmmAssumption
      <4>. QED
        BY <1>1, <4>1
    <3>. QED
      BY <3>1, <3>2 DEF Asked
  <2>2. \A a \in InitCalls : Mapped(pte, pml4, a)
    BY <1>1, <2>1 DEF Inv, Started, Busy
  <2>. QED
    BY <1>1, <2>2 DEF Started
<1>. QED
  BY <1>3, <1>4, <1>5, <1>6 DEF Inv

-----------------------------------------------------------------------------
(* MemoryMap *)

LEMMA BeginStep ==
  ASSUME Inv, NEW c \in Contexts, Begin(c)
  PROVE  Inv'
<1>1. PICK a \in CallsOf[c] : Enter(c, kernelPML4, a)
  BY DEF Begin
<1>2. /\ pc[c] = "idle" /\ kernelPML4 = pml4 /\ pml4 # NULL /\ new[c] = NULL /\ a \in Calls /\ a \in Call
      /\ UNCHANGED << pte, taken, pml4, kernelPML4, entry, page, new >>
      /\ call' = [call EXCEPT ![c] = a] /\ level' = [level EXCEPT ![c] = 4]
      /\ table' = [table EXCEPT ![c] = pml4] /\ pc' = [pc EXCEPT ![c] = "walk"]
  BY <1>1, Constants DEF Begin, Enter, Goto, Inv, Phases, Walks, Going
<1>3. /\ call' \in [Contexts -> Call] /\ level' \in [Contexts -> Levels]
      /\ table' \in [Contexts -> Roots] /\ pc' \in [Contexts -> Labels]
  <2>1. 4 \in Levels /\ pml4 \in Roots /\ "walk" \in Labels
    BY DEF Levels, Inv, WellFormed, Labels
  <2>. QED
    BY <1>2, <2>1 DEF Inv, Typed
<1>4. Typed'
  BY <1>2, <1>3 DEF Inv, Typed
<1>5. /\ pc'[c] = "walk" /\ call'[c] = a /\ level'[c] = 4 /\ table'[c] = pml4
      /\ \A d \in Contexts : d # c =>
           pc'[d] = pc[d] /\ call'[d] = call[d] /\ level'[d] = level[d] /\ table'[d] = table[d]
  BY <1>2 DEF Inv, Typed
<1>6. Phases'
  BY <1>2, <1>5, Constants DEF Inv, Phases
<1>7. Mine'
  BY <1>1, <1>2, <1>5 DEF Inv, Mine
<1>8. Walks'
  <2>1. SUFFICES ASSUME NEW d \in Contexts
                 PROVE  Going(pte, pml4, pc[d], call[d], level[d], table[d], new[d])'
    BY DEF Walks
  <2>2. CASE d = c
    <3>1. Going(pte, pml4, "walk", a, 4, pml4, NULL)
      BY <1>2, Entered
    <3>. QED
      BY <1>2, <1>5, <2>2, <3>1
  <2>3. CASE d # c
    BY <1>2, <1>5, <2>3 DEF Inv, Walks
  <2>. QED
    BY <2>2, <2>3
<1>9. Apart' /\ Owned' /\ WellFormed(pte, pml4)'
  BY <1>2 DEF Inv, Apart, Owned
<1>10. Started'
  BY <1>2 DEF Inv, Started
<1>. QED
  BY <1>4, <1>6, <1>7, <1>8, <1>9, <1>10 DEF Inv

(* A context that goes on with its call changes nothing for start-up. *)
LEMMA SamePhase ==
  ASSUME Inv, NEW c \in Contexts, pc[c] \in {"walk", "link"},
         pc'[c] \in {"walk", "link", "return", "fault"},
         \A d \in Contexts : d # c => pc'[d] = pc[d],
         pml4' = pml4, kernelPML4' = kernelPML4,
         Busy(pc'[c]) => call'[c] = call[c],
         \A d \in Contexts : d # c => call'[d] = call[d]
  PROVE  Phases' /\ Mine'
<1>1. Phases'
  <2>1. pml4 # NULL
    BY Constants DEF Inv, Phases
  <2>2. kernelPML4 = NULL => c = Main
    BY DEF Inv, Phases
  <2>3. pc'[Main] # "start"
    BY <2>1, Constants DEF Inv, Phases
  <2>. QED
    BY <2>1, <2>2, <2>3, Constants DEF Inv, Phases
<1>2. Mine'
  BY DEF Inv, Mine, Busy
<1>. QED
  BY <1>1, <1>2

LEMMA DescendStep ==
  ASSUME Inv, NEW c \in Contexts, Descend(c)
  PROVE  Inv'
<1> DEFINE a == call[c]
           l == level[c]
<1>1. /\ pc[c] = "walk" /\ Found(c).present /\ l > Lowest(c)
      /\ UNCHANGED << pte, taken, pml4, kernelPML4, entry, page, pc, call, new >>
      /\ table' = [table EXCEPT ![c] = Found(c).phys] /\ level' = [level EXCEPT ![c] = l - 1]
  BY DEF Descend
<1>2. /\ a \in Calls /\ l \in Levels /\ Low(a) \in {1, 2} /\ Lowest(c) = Low(a) /\ a.virt \in Virt
      /\ Found(c) = E(pte, pml4, a.virt, l)
  BY <1>1, AtTable DEF Busy
<1>3. l - 1 \in Levels /\ l > 1
  BY <1>1, <1>2 DEF Levels
<1>4. ~Found(c).large
  <2>1. ASSUME Found(c).large PROVE FALSE
    <3>1. l = 2 /\ AskedFor(a.virt, TRUE)
      BY <1>2, <2>1 DEF Inv, WellFormed, LargeRight
    <3>2. a.large
      BY <1>2, <3>1, OneSize
    <3>. QED
      BY <1>1, <1>2, <3>1, <3>2 DEF Low
  <2>. QED
    BY <2>1
<1>5. /\ Found(c).phys = T(pte, pml4, a.virt, l - 1) /\ Found(c).phys # NULL
      /\ Found(c).phys \in Roots
  <2>1. Found(c).phys # NULL
    BY <1>1, <1>2, <1>3, <1>4 DEF Inv, WellFormed, LinksRight
  <2>2. Down(Found(c)) = Found(c).phys
    BY <1>1, <1>4 DEF Down
  <2>3. l \in {2, 3, 4}
    BY <1>2, <1>3 DEF Levels
  <2>4. T(pte, pml4, a.virt, l - 1) = Down(E(pte, pml4, a.virt, l))
    BY <2>3, Down1
  <2>5. T(pte, pml4, a.virt, l - 1) \in Roots
    BY <1>2, <1>3 DEF Inv, WellFormed
  <2>. QED
    BY <1>2, <2>1, <2>2, <2>4, <2>5
<1>6. Typed'
  BY <1>1, <1>3, <1>5 DEF Inv, Typed
<1>7. Walks'
  <2>1. SUFFICES ASSUME NEW d \in Contexts
                 PROVE  Going(pte, pml4, pc[d], call[d], level[d], table[d], new[d])'
    BY DEF Walks
  <2>2. CASE d = c
    <3>1. level'[c] = l - 1 /\ table'[c] = Found(c).phys
      BY <1>1 DEF Inv, Typed
    <3>2. Walking(pte, pml4, a, l - 1, Found(c).phys)
      <4>1. l - 1 >= Low(a)
        BY <1>1, <1>2 DEF Levels
      <4>. QED
        BY <1>2, <1>3, <1>5, <4>1 DEF Walking
    <3>3. new[c] = NULL
      BY <1>1 DEF Inv, Walks, Going
    <3>4. Going(pte, pml4, "walk", a, l - 1, Found(c).phys, NULL)
      BY <3>2 DEF Going
    <3>. QED
      BY <1>1, <2>2, <3>1, <3>3, <3>4
  <2>3. CASE d # c
    BY <1>1, <2>3 DEF Inv, Typed, Walks
  <2>. QED
    BY <2>2, <2>3
<1>8. Phases' /\ Mine' /\ Apart' /\ Owned' /\ Started' /\ WellFormed(pte, pml4)'
  BY <1>1 DEF Inv, Phases, Mine, Apart, Owned, Started
<1>. QED
  BY <1>6, <1>7, <1>8 DEF Inv

LEMMA ReturnStep ==
  ASSUME Inv, NEW c \in Contexts, Return(c)
  PROVE  Inv'
<1> DEFINE to == IF kernelPML4 = NULL THEN "init" ELSE "idle"
<1>1. /\ pc[c] = "return" /\ pc' = [pc EXCEPT ![c] = to]
      /\ call' = [call EXCEPT ![c] = NoCall] /\ level' = [level EXCEPT ![c] = 4]
      /\ table' = [table EXCEPT ![c] = NULL]
      /\ UNCHANGED << pte, taken, pml4, kernelPML4, entry, page, new >>
  BY DEF Return, Goto
<1>2. /\ call' \in [Contexts -> Call] /\ level' \in [Contexts -> Levels]
      /\ table' \in [Contexts -> Roots] /\ pc' \in [Contexts -> Labels]
  <2>1. 4 \in Levels /\ NULL \in Roots /\ to \in Labels
    BY DEF Levels, Roots, Labels
  <2>. QED
    BY <1>1, <2>1, Constants DEF Inv, Typed
<1>3. Typed'
  BY <1>1, <1>2 DEF Inv, Typed
<1>4. /\ pc'[c] = to /\ to \in {"init", "idle"}
      /\ \A d \in Contexts : d # c =>
           pc'[d] = pc[d] /\ call'[d] = call[d] /\ level'[d] = level[d] /\ table'[d] = table[d]
  BY <1>1 DEF Inv, Typed
<1>5. /\ kernelPML4 = NULL => c = Main /\ to = "init"
      /\ kernelPML4 # NULL => to = "idle"
  BY <1>1 DEF Inv, Phases
<1> HIDE DEF to
<1>6. Phases'
  BY <1>1, <1>4, <1>5, Constants DEF Inv, Phases
<1>7. Walks'
  <2>1. SUFFICES ASSUME NEW d \in Contexts
                 PROVE  Going(pte, pml4, pc[d], call[d], level[d], table[d], new[d])'
    BY DEF Walks
  <2>2. CASE d = c
    <3>1. new[c] = NULL
      BY <1>1 DEF Inv, Walks, Going
    <3>. QED
      BY <1>1, <1>4, <2>2, <3>1 DEF Going, Busy
  <2>3. CASE d # c
    BY <1>1, <1>4, <2>3 DEF Inv, Walks
  <2>. QED
    BY <2>2, <2>3
<1>8. Mine' /\ Apart' /\ Owned' /\ WellFormed(pte, pml4)'
  BY <1>1, <1>4 DEF Inv, Mine, Busy, Apart, Owned
<1>9. Started'
  BY <1>1, <1>4, <1>5, Constants DEF Inv, Started, Busy
<1>. QED
  BY <1>3, <1>6, <1>7, <1>8, <1>9 DEF Inv

(* A table is made in a frame that is nowhere yet; *)
LEMMA MakeTableStep ==
  ASSUME Inv, NEW c \in Contexts, MakeTable(c)
  PROVE  Inv'
<1> DEFINE n == NextFrame
<1>1. /\ pc[c] = "walk" /\ level[c] > Lowest(c) /\ ~Found(c).present
      /\ UNCHANGED << kernelPML4, entry, page, call, level, table >>
      /\ pc \in [Contexts -> Labels] /\ new[c] = NULL
  BY DEF MakeTable, Inv, Typed, Walks, Going
<1>2. CASE Exhausted(c)
  <2>1. UNCHANGED << pte, taken, pml4, new >> /\ pc' = [pc EXCEPT ![c] = "fault"]
    BY <1>2 DEF Exhausted, Goto
  <2>2. pc'[c] = "fault" /\ pc' \in [Contexts -> Labels] /\ \A d \in Contexts : d # c => pc'[d] = pc[d]
    BY <1>1, <2>1 DEF Labels
  <2>3. Phases' /\ Mine'
    BY <1>1, <2>1, <2>2, SamePhase DEF Busy
  <2>4. Walks'
    <3>1. SUFFICES ASSUME NEW d \in Contexts
                   PROVE  Going(pte, pml4, pc[d], call[d], level[d], table[d], new[d])'
      BY DEF Walks
    <3>2. CASE d = c
      BY <1>1, <2>1, <2>2, <3>2 DEF Going, Busy
    <3>3. CASE d # c
      BY <1>1, <2>1, <2>2, <3>3 DEF Inv, Walks
    <3>. QED
      BY <3>2, <3>3
  <2>5. Typed' /\ Apart' /\ Owned' /\ WellFormed(pte, pml4)'
    BY <1>1, <2>1, <2>2 DEF Inv, Typed, Apart, Owned
  <2>6. Started'
    <3>1. kernelPML4 = NULL => c = Main
      BY <1>1 DEF Inv, Phases
    <3>. QED
      BY <1>1, <2>1, <2>2, <3>1 DEF Inv, Started
  <2>. QED
    BY <2>3, <2>4, <2>5, <2>6 DEF Inv
<1>3. CASE ~Exhausted(c)
  <2>1. /\ taken < Len(FrameSeq) /\ taken' = taken + 1 /\ pml4' = pml4
        /\ pte' = [pte EXCEPT ![n] = EmptyTable]
        /\ pc' = [pc EXCEPT ![c] = "link"] /\ new' = [new EXCEPT ![c] = n]
    BY <1>3 DEF MakeTable, AllocatePage, Goto
  <2>2. /\ taken \in Nat /\ taken \in 0 .. Len(FrameSeq) /\ taken + 1 \in 0 .. Len(FrameSeq)
        /\ new \in [Contexts -> Roots]
    BY <2>1, VmmAssumption DEF Inv, Typed
  <2>3. /\ n \in Frames /\ n # NULL /\ n \notin Given(taken)
        /\ Given(taken + 1) = Given(taken) \union {n}
    BY <2>1, <2>2, Fresh DEF NextFrame
  <2> HIDE DEF n
  <2>4. Unused(pte, pml4, n)
    BY <2>3 DEF Inv, Owned, Unused
  <2>5. Clear(pte, pte', pml4, n)
    BY <2>1, <2>3, <2>4 DEF Clear, Inv, WellFormed
  <2>6. \A v \in Virt : \A m \in Levels :
          T(pte', pml4, v, m) = T(pte, pml4, v, m) /\ E(pte', pml4, v, m) = E(pte, pml4, v, m)
    BY <2>5, Cleared
  <2>7. /\ pc'[c] = "link" /\ new'[c] = n /\ pc' \in [Contexts -> Labels] /\ new' \in [Contexts -> Roots]
        /\ \A d \in Contexts : d # c => pc'[d] = pc[d] /\ new'[d] = new[d]
    BY <1>1, <2>1, <2>2, <2>3 DEF Labels, Roots
  <2>8. Phases' /\ Mine'
    BY <1>1, <2>1, <2>7, SamePhase
  <2>9. WellFormed(pte, pml4)'
    BY <2>1, <2>5, ClearedWell DEF Inv
  <2>10. Typed'
    BY <1>1, <2>1, <2>2, <2>7 DEF Inv, Typed
  <2>11. \A b \in Calls : Mapped(pte, pml4, b) => Mapped(pte', pml4, b)
    BY <2>5, ClearedMapped
  <2>12. Unused(pte', pml4, n) /\ pte'[n] = EmptyTable /\ \A f \in Frames : f # n => pte'[f] = pte[f]
    BY <2>1, <2>3, <2>4, <2>6 DEF Unused, Inv, WellFormed, Tables
  <2>13. Walks'
    <3>1. SUFFICES ASSUME NEW d \in Contexts
                   PROVE  Going(pte', pml4, pc'[d], call[d], level[d], table[d], new'[d])
      BY <1>1, <2>1 DEF Walks
    <3>2. Busy(pc[d]) => /\ T(pte', pml4, call[d].virt, level[d]) = T(pte, pml4, call[d].virt, level[d])
                         /\ E(pte', pml4, call[d].virt, level[d]) = E(pte, pml4, call[d].virt, level[d])
      BY <2>6, AtTable
    <3>3. Going(pte, pml4, pc[d], call[d], level[d], table[d], new[d])
      BY DEF Inv, Walks
    <3>4. CASE d = c
      <4>1. Walking(pte', pml4, call[c], level[c], table[c])
        BY <1>1, <3>2, <3>3, <3>4 DEF Going, Busy, Walking
      <4>2. Linking(pte', pml4, call[c], level[c], n)
        <5>1. level[c] > Low(call[c]) /\ ~E(pte, pml4, call[c].virt, level[c]).present
          BY <1>1, AtTable DEF Busy
        <5>. QED
          BY <1>1, <2>3, <2>12, <3>2, <3>4, <5>1 DEF Busy, Linking
      <4>. QED
        BY <2>7, <3>4, <4>1, <4>2 DEF Going
    <3>5. CASE d # c
      <4>1. pc[d] = "link" => pte'[new[d]] = pte[new[d]] /\ Unused(pte', pml4, new[d])
        <5>1. ASSUME pc[d] = "link" PROVE pte'[new[d]] = pte[new[d]] /\ Unused(pte', pml4, new[d])
          <6>1. new[d] \in Frames /\ Unused(pte, pml4, new[d])
            BY <3>3, <5>1 DEF Going, Linking
          <6>2. new[d] # n
            BY <2>3, <6>1, FramesTyped DEF Inv, Owned
          <6>. QED
            BY <2>6, <2>12, <6>1, <6>2 DEF Unused
        <5>. QED
          BY <5>1
      <4>2. Going(pte', pml4, pc[d], call[d], level[d], table[d], new[d])
        BY <2>11, <3>2, <3>3, <4>1, StillGoing
      <4>. QED
        BY <2>7, <3>5, <4>2
    <3>. QED
      BY <3>4, <3>5
  <2>14. Apart'
    <3>1. \A d \in Contexts : new[d] # n
      BY <2>3 DEF Inv, Owned
    <3>. QED
      BY <2>7, <3>1 DEF Inv, Apart
  <2>15. Owned'
    <3>1. \A f \in Given(taken) : HasTable(pte', pml4, f) \/ \E d \in Contexts : new'[d] = f
      <4>1. SUFFICES ASSUME NEW f \in Given(taken), ~HasTable(pte', pml4, f)
                     PROVE  \E d \in Contexts : new'[d] = f
        OBVIOUS
      <4>2. ~HasTable(pte, pml4, f)
        BY <2>6, <4>1 DEF HasTable
      <4>3. PICK d \in Contexts : new[d] = f
        BY <4>2 DEF Inv, Owned
      <4>4. f # NULL
        BY <2>2, GivenFrames, FramesTyped
      <4>. QED
        BY <1>1, <2>7, <4>3, <4>4
    <3>2. \A d \in Contexts : new'[d] \in Given(taken + 1) \union {NULL}
      BY <2>3, <2>7 DEF Inv, Owned
    <3>3. \A v \in Virt : \A m \in Levels : T(pte', pml4, v, m) \in Given(taken + 1) \union {NULL}
      BY <2>3, <2>6 DEF Inv, Owned
    <3>. QED
      BY <2>1, <2>3, <2>7, <3>1, <3>2, <3>3 DEF Owned
  <2>16. Started'
    <3>1. \A a \in InitCalls : Mapped(pte, pml4, a) => Mapped(pte', pml4, a)
      BY <2>11, Constants
    <3>2. kernelPML4 = NULL => c = Main
      BY <1>1 DEF Inv, Phases
    <3>. QED
      BY <1>1, <2>1, <2>7, <3>1, <3>2 DEF Inv, Started, Busy
  <2>. QED
    BY <2>8, <2>9, <2>10, <2>13, <2>14, <2>15, <2>16 DEF Inv
<1>. QED
  BY <1>2, <1>3

(* linked, it is under one entry; *)
LEMMA LinkTableLinks ==
  ASSUME Inv, NEW c \in Contexts, LinkTable(c)
  PROVE  Link(pte, pte', pml4, call[c].virt, level[c], new[c])
<1> DEFINE a == call[c]
           l == level[c]
           n == new[c]
<1>1. pc[c] = "link" /\ Busy(pc[c])
  BY DEF LinkTable, Busy
<1>2. Linking(pte, pml4, a, l, n)
  BY <1>1 DEF Inv, Walks, Going
<1>3. /\ a \in Calls /\ l \in Levels /\ Low(a) \in {1, 2} /\ a.virt \in Virt
      /\ table[c] = T(pte, pml4, a.virt, l) /\ table[c] \in Frames
      /\ Slot(c) = IndexAt(a.virt, l) /\ Slot(c) \in Index
      /\ Found(c) = E(pte, pml4, a.virt, l)
  BY <1>1, AtTable
<1>4. l \in {2, 3, 4} /\ (l = 2 => AskedFor(a.virt, FALSE))
  <2>1. l > Low(a)
    BY <1>2 DEF Linking
  <2>2. l = 2 => a.large = FALSE
    BY <1>3, <2>1, CallTyped DEF Low
  <2>3. l = 2 => AskedFor(a.virt, FALSE)
    BY <1>3, <2>2 DEF AskedFor
  <2>4. l \in {2, 3, 4}
    BY <1>3, <2>1 DEF Levels
  <2>. QED
    BY <2>3, <2>4
<1>5. ~Found(c).present /\ ~Found(c).large /\ Found(c) \in Entry
  <2>1. ~Found(c).present
    BY <1>2, <1>3 DEF Linking
  <2>2. ~Found(c).large
    BY <1>3, <2>1 DEF Inv, WellFormed, LargeRight
  <2>. QED
    BY <1>1, <2>1, <2>2, AtTable
<1>6. pte' = [pte EXCEPT ![table[c]][Slot(c)] = Table(n)]
  <2>1. pte' = [pte EXCEPT ![table[c]][Slot(c)] =
                  [present |-> TRUE, phys |-> n, large |-> @.large]]
    BY DEF LinkTable
  <2>2. pte[table[c]][Slot(c)].large = FALSE
    BY <1>5 DEF Found, Entry
  <2>. QED
    BY <2>1, <2>2 DEF Table
<1>7. n \in Frames /\ Unused(pte, pml4, n) /\ pte[n] = EmptyTable /\ ~E(pte, pml4, a.virt, l).present
  BY <1>2 DEF Linking
<1>8. Table(n) \in Entry
  BY <1>7, FramesTyped DEF Table, Entry
<1>9. Write(pte, pte', pml4, a.virt, l, Table(n))
  BY <1>3, <1>6, <1>8 DEF Write, Inv, WellFormed
<1>. QED
  BY <1>3, <1>4, <1>7, <1>9, FramesTyped DEF Link, Inv

LEMMA LinkTableStep ==
  ASSUME Inv, NEW c \in Contexts, LinkTable(c)
  PROVE  Inv'
<1> DEFINE u == call[c].virt
           l == level[c]
           n == new[c]
           In(v, m) == m = l - 1 /\ P(v, l - 1) = P(u, l - 1)
<1>1. /\ pc[c] = "link" /\ Busy(pc[c])
      /\ table' = [table EXCEPT ![c] = n] /\ level' = [level EXCEPT ![c] = l - 1]
      /\ new' = [new EXCEPT ![c] = NULL] /\ pc' = [pc EXCEPT ![c] = "walk"]
      /\ UNCHANGED << taken, pml4, kernelPML4, entry, page, call >>
  BY DEF LinkTable, Goto, Busy
<1>2. Link(pte, pte', pml4, u, l, n)
  BY LinkTableLinks
<1>3. /\ u \in Virt /\ l \in {2, 3, 4} /\ l \in Levels /\ l - 1 \in Levels /\ l - 1 \in 0 .. 3
      /\ n \in Frames /\ n # NULL /\ Unused(pte, pml4, n) /\ n \in Roots
      /\ call[c] \in Calls /\ l > Low(call[c]) /\ Low(call[c]) \in {1, 2}
  <2>1. Linking(pte, pml4, call[c], l, n)
    BY <1>1 DEF Inv, Walks, Going
  <2>. QED
    BY <1>1, <1>2, <2>1, FramesTyped, AtTable DEF Link, Linking, Levels, Roots
<1>4. ASSUME NEW v \in Virt, NEW m \in Levels
      PROVE  /\ T(pte', pml4, v, m) = IF In(v, m) THEN n ELSE T(pte, pml4, v, m)
             /\ E(pte', pml4, v, m) = IF m = l /\ P(v, l - 1) = P(u, l - 1) THEN Table(n) ELSE E(pte, pml4, v, m)
  BY <1>2, Linked
<1>5. /\ pc'[c] = "walk" /\ new'[c] = NULL /\ level'[c] = l - 1 /\ table'[c] = n
      /\ \A d \in Contexts : d # c =>
           pc'[d] = pc[d] /\ new'[d] = new[d] /\ level'[d] = level[d] /\ table'[d] = table[d]
  BY <1>1 DEF Inv, Typed
<1>6. /\ pc' \in [Contexts -> Labels] /\ new' \in [Contexts -> Roots]
      /\ level' \in [Contexts -> Levels] /\ table' \in [Contexts -> Roots]
  <2>1. "walk" \in Labels /\ NULL \in Roots
    BY DEF Labels, Roots
  <2>. QED
    BY <1>1, <1>3, <2>1 DEF Inv, Typed
<1>7. Typed'
  BY <1>1, <1>6 DEF Inv, Typed
<1>8. Phases' /\ Mine'
  BY <1>1, <1>5, SamePhase
<1>9. WellFormed(pte, pml4)'
  BY <1>1, <1>2, LinkedWell
<1>10. \A b \in Calls : Mapped(pte, pml4, b) => Mapped(pte', pml4, b)
  BY <1>2, LinkedMapped
<1>11. \A f \in Frames : f # T(pte, pml4, u, l) => pte'[f] = pte[f]
  BY <1>2, WriteTyped DEF Link
<1> HIDE DEF u, l, n
<1>12. Walks'
  <2>1. SUFFICES ASSUME NEW d \in Contexts
                 PROVE  Going(pte', pml4, pc'[d], call[d], level'[d], table'[d], new'[d])
    BY <1>1 DEF Walks
  <2>2. CASE d = c
    <3>1. T(pte', pml4, u, l - 1) = n
      BY <1>3, <1>4
    <3>2. l - 1 >= Low(call[c])
      BY <1>3
    <3>3. Walking(pte', pml4, call[c], l - 1, n)
      BY <1>3, <3>1, <3>2 DEF Walking, u
    <3>. QED
      BY <1>5, <2>2, <3>3 DEF Going
  <2>3. CASE d # c
    <3>1. Going(pte, pml4, pc[d], call[d], level[d], table[d], new[d])
      BY DEF Inv, Walks
    <3>2. Busy(pc[d]) => /\ T(pte', pml4, call[d].virt, level[d]) = T(pte, pml4, call[d].virt, level[d])
                         /\ E(pte', pml4, call[d].virt, level[d]) = E(pte, pml4, call[d].virt, level[d])
      <4>1. SUFFICES ASSUME Busy(pc[d])
                     PROVE  /\ T(pte', pml4, call[d].virt, level[d]) = T(pte, pml4, call[d].virt, level[d])
                            /\ E(pte', pml4, call[d].virt, level[d]) = E(pte, pml4, call[d].virt, level[d])
        OBVIOUS
      <4>2. call[d].virt \in Virt /\ level[d] \in Levels
        BY <4>1, AtTable
      <4>3. P(call[d].virt, 3) # P(u, 3)
        BY <1>1, <2>3, <4>1, Elsewhere DEF u
      <4>4. P(call[d].virt, l - 1) # P(u, l - 1)
        <5>1. 3 \in l - 1 .. 4 /\ l - 1 \in 0 .. 4
          BY <1>3
        <5>. QED
          BY <1>3, <4>2, <4>3, <5>1, Above
      <4>. QED
        BY <1>4, <4>2, <4>4
    <3>3. pc[d] = "link" => pte'[new[d]] = pte[new[d]] /\ Unused(pte', pml4, new[d])
      <4>1. SUFFICES ASSUME pc[d] = "link"
                     PROVE  pte'[new[d]] = pte[new[d]] /\ Unused(pte', pml4, new[d])
        OBVIOUS
      <4>2. new[d] \in Frames /\ Unused(pte, pml4, new[d]) /\ new[d] # NULL
        BY <3>1, <4>1, FramesTyped DEF Going, Linking
      <4>3. new[d] # n
        BY <2>3, <4>2 DEF Inv, Apart, n
      <4>4. Unused(pte', pml4, new[d])
        BY <1>4, <4>2, <4>3 DEF Unused
      <4>5. new[d] # T(pte, pml4, u, l)
        BY <1>3, <4>2 DEF Unused
      <4>. QED
        BY <1>11, <4>2, <4>4, <4>5
    <3>4. Going(pte', pml4, pc[d], call[d], level[d], table[d], new[d])
      BY <1>10, <3>1, <3>2, <3>3, StillGoing
    <3>. QED
      BY <1>5, <2>3, <3>4
  <2>. QED
    BY <2>2, <2>3
<1>13. Apart'
  BY <1>5 DEF Inv, Apart
<1>14. Owned'
  <2>1. \A v \in Virt : \A m \in Levels : T(pte', pml4, v, m) \in Given(taken) \union {NULL}
    <3>1. n \in Given(taken) \union {NULL}
      BY DEF Inv, Owned, n
    <3>. QED
      BY <1>4, <3>1 DEF Inv, Owned
  <2>2. \A d \in Contexts : new'[d] \in Given(taken) \union {NULL}
    BY <1>5 DEF Inv, Owned
  <2>3. \A f \in Given(taken) : HasTable(pte', pml4, f) \/ \E d \in Contexts : new'[d] = f
    <3>1. SUFFICES ASSUME NEW f \in Given(taken)
                   PROVE  HasTable(pte', pml4, f) \/ \E d \in Contexts : new'[d] = f
      OBVIOUS
    <3>2. f # NULL
      BY GivenFrames, FramesTyped DEF Inv, Typed
    <3>3. CASE HasTable(pte, pml4, f)
      <4>1. PICK v \in Virt : \E m \in Levels : T(pte, pml4, v, m) = f
        BY <3>3 DEF HasTable
      <4>2. PICK m \in Levels : T(pte, pml4, v, m) = f
        BY <4>1
      <4>3. ~In(v, m)
        <5>1. ASSUME In(v, m) PROVE FALSE
          <6>1. E(pte, pml4, v, l) = E(pte, pml4, u, l)
            BY <1>3, <5>1, SameEntry
          <6>2. ~E(pte, pml4, v, l).present
            BY <1>2, <6>1 DEF Link, u, l, n
          <6>3. T(pte, pml4, v, l - 1) = Down(E(pte, pml4, v, l))
            BY <1>3, Down1
          <6>4. T(pte, pml4, v, l - 1) = NULL
            BY <6>2, <6>3 DEF Down
          <6>. QED
            BY <3>2, <4>2, <5>1, <6>4
        <5>. QED
          BY <5>1
      <4>4. T(pte', pml4, v, m) = f
        BY <1>4, <4>2, <4>3
      <4>. QED
        BY <4>4 DEF HasTable
    <3>4. CASE ~HasTable(pte, pml4, f)
      <4>1. PICK d \in Contexts : new[d] = f
        BY <3>4 DEF Inv, Owned
      <4>2. CASE d = c
        <5>1. T(pte', pml4, u, l - 1) = n
          BY <1>3, <1>4
        <5>. QED
          BY <1>3, <4>1, <4>2, <5>1 DEF HasTable, n
      <4>3. CASE d # c
        BY <1>5, <4>1, <4>3
      <4>. QED
        BY <4>2, <4>3
    <3>. QED
      BY <3>3, <3>4
  <2>. QED
    BY <1>1, <2>1, <2>2, <2>3 DEF Owned
<1>15. Started'
  <2>1. \A a \in InitCalls : Mapped(pte, pml4, a) => Mapped(pte', pml4, a)
    BY <1>10, Constants
  <2>2. kernelPML4 = NULL => c = Main
    BY <1>1 DEF Inv, Phases
  <2>. QED
    BY <1>1, <1>5, <2>1, <2>2 DEF Inv, Started, Busy
<1>. QED
  BY <1>7, <1>8, <1>9, <1>12, <1>13, <1>14, <1>15 DEF Inv

(* and the last entry maps the page that was asked for. *)
LEMMA SetEntryFills ==
  ASSUME Inv, NEW c \in Contexts, SetEntry(c)
  PROVE  Fill(pte, pte', pml4, call[c])
<1> DEFINE a == call[c]
           l == level[c]
<1>1. Busy(pc[c]) /\ l = Lowest(c)
  BY DEF SetEntry, Busy
<1>2. /\ a \in Calls /\ l = Low(a) /\ l \in Levels /\ a.virt \in Virt
      /\ table[c] = T(pte, pml4, a.virt, l) /\ table[c] \in Frames
      /\ Slot(c) = IndexAt(a.virt, l)
      /\ Found(c) = E(pte, pml4, a.virt, l) /\ Found(c) \in Entry
  BY <1>1, AtTable
<1>3. (Found(c).large \/ a.large) = a.large
  <2>1. Found(c).large => AskedFor(a.virt, TRUE)
    BY <1>2 DEF Inv, WellFormed, LargeRight
  <2>2. Found(c).large => a.large = TRUE
    BY <1>2, <2>1, OneSize
  <2>3. Found(c).large \in BOOLEAN /\ a.large \in BOOLEAN
    BY <1>2, CallTyped DEF Entry
  <2>. QED
    BY <2>2, <2>3
<1>4. pte' = [pte EXCEPT ![table[c]][Slot(c)] = Page(a)]
  <2>1. pte' = [pte EXCEPT ![table[c]][Slot(c)] =
                  [present |-> TRUE, phys |-> a.phys, large |-> @.large \/ a.large]]
    BY DEF SetEntry
  <2>2. (pte[table[c]][Slot(c)].large \/ a.large) = a.large
    BY <1>3 DEF Found
  <2>. QED
    BY <2>1, <2>2 DEF Page
<1>5. Page(a) \in Entry
  BY <1>2, CallTyped
<1>6. Write(pte, pte', pml4, a.virt, Low(a), Page(a))
  BY <1>2, <1>4, <1>5 DEF Write, Inv, WellFormed
<1>. QED
  BY <1>2, <1>6 DEF Fill, Inv

LEMMA SetEntryStep ==
  ASSUME Inv, NEW c \in Contexts, SetEntry(c)
  PROVE  Inv'
<1> DEFINE a == call[c]
<1>1. /\ pc[c] = "walk" /\ Busy(pc[c]) /\ pc' = [pc EXCEPT ![c] = "return"]
      /\ UNCHANGED << taken, pml4, kernelPML4, entry, page, call, level, table, new >>
      /\ new[c] = NULL
  BY DEF SetEntry, Goto, walk, Busy, Inv, Walks, Going
<1>2. Fill(pte, pte', pml4, a) /\ a \in Calls /\ a.virt \in Virt /\ Low(a) \in Levels
      /\ Low(a) \in {1, 2}
  BY SetEntryFills, CallTyped DEF Fill
<1>3. pc'[c] = "return" /\ pc' \in [Contexts -> Labels] /\ \A d \in Contexts : d # c => pc'[d] = pc[d]
  BY <1>1 DEF Inv, Typed, Labels
<1>4. ASSUME NEW v \in Virt, NEW m \in Levels
      PROVE  /\ T(pte', pml4, v, m) = T(pte, pml4, v, m)
             /\ E(pte', pml4, v, m) = IF Filling(a, v, m) THEN Page(a) ELSE E(pte, pml4, v, m)
  BY <1>2, Filled
<1>5. Typed'
  BY <1>1, <1>3 DEF Inv, Typed
<1>6. Phases' /\ Mine'
  BY <1>1, <1>3, SamePhase DEF Busy
<1>7. WellFormed(pte, pml4)'
  BY <1>1, <1>2, FilledWell
<1>8. \A b \in Calls : Mapped(pte, pml4, b) => Mapped(pte', pml4, b)
  BY <1>2, FilledMapped
<1>9. Mapped(pte', pml4, a)
  BY <1>2, <1>4 DEF Mapped, Filling
<1>10. \A f \in Frames : f # T(pte, pml4, a.virt, Low(a)) => pte'[f] = pte[f]
  BY <1>2, WriteTyped DEF Fill
<1> HIDE DEF a
<1>11. Walks'
  <2>1. SUFFICES ASSUME NEW d \in Contexts
                 PROVE  Going(pte', pml4, pc'[d], call[d], level[d], table[d], new[d])
    BY <1>1 DEF Walks
  <2>2. CASE d = c
    BY <1>1, <1>2, <1>3, <1>9, <2>2 DEF Going, Busy, a
  <2>3. CASE d # c
    <3>1. Going(pte, pml4, pc[d], call[d], level[d], table[d], new[d])
      BY DEF Inv, Walks
    <3>2. Busy(pc[d]) => /\ T(pte', pml4, call[d].virt, level[d]) = T(pte, pml4, call[d].virt, level[d])
                         /\ E(pte', pml4, call[d].virt, level[d]) = E(pte, pml4, call[d].virt, level[d])
      <4>1. SUFFICES ASSUME Busy(pc[d])
                     PROVE  /\ T(pte', pml4, call[d].virt, level[d]) = T(pte, pml4, call[d].virt, level[d])
                            /\ E(pte', pml4, call[d].virt, level[d]) = E(pte, pml4, call[d].virt, level[d])
        OBVIOUS
      <4>2. call[d].virt \in Virt /\ level[d] \in Levels
        BY <4>1, AtTable
      <4>3. P(call[d].virt, 3) # P(a.virt, 3)
        BY <1>1, <2>3, <4>1, Elsewhere DEF a
      <4>4. P(call[d].virt, Low(a) - 1) # P(a.virt, Low(a) - 1)
        <5>1. 3 \in Low(a) - 1 .. 4 /\ Low(a) - 1 \in 0 .. 4
          BY <1>2
        <5>. QED
          BY <1>2, <4>2, <4>3, <5>1, Above
      <4>. QED
        BY <1>4, <4>2, <4>4 DEF Filling
    <3>3. pc[d] = "link" => pte'[new[d]] = pte[new[d]] /\ Unused(pte', pml4, new[d])
      <4>1. SUFFICES ASSUME pc[d] = "link"
                     PROVE  pte'[new[d]] = pte[new[d]] /\ Unused(pte', pml4, new[d])
        OBVIOUS
      <4>2. new[d] \in Frames /\ Unused(pte, pml4, new[d])
        BY <3>1, <4>1 DEF Going, Linking
      <4>3. Unused(pte', pml4, new[d])
        BY <1>4, <4>2 DEF Unused
      <4>4. new[d] # T(pte, pml4, a.virt, Low(a))
        BY <1>2, <4>2 DEF Unused
      <4>. QED
        BY <1>10, <4>2, <4>3, <4>4
    <3>4. Going(pte', pml4, pc[d], call[d], level[d], table[d], new[d])
      BY <1>8, <3>1, <3>2, <3>3, StillGoing
    <3>. QED
      BY <1>3, <2>3, <3>4
  <2>. QED
    BY <2>2, <2>3
<1>12. Apart'
  BY <1>1 DEF Inv, Apart
<1>13. Owned'
  <2>1. \A f : HasTable(pte, pml4, f) => HasTable(pte', pml4, f)
    BY <1>4 DEF HasTable
  <2>. QED
    BY <1>1, <1>4, <2>1 DEF Inv, Owned
<1>14. Started'
  <2>1. \A b \in InitCalls : Mapped(pte, pml4, b) => Mapped(pte', pml4, b)
    BY <1>8, Constants
  <2>2. kernelPML4 = NULL => c = Main
    BY <1>1 DEF Inv, Phases
  <2>3. \A b \in InitCalls : b = a => Mapped(pte', pml4, b)
    BY <1>9
  <2>. QED
    BY <1>1, <1>3, <2>1, <2>2, <2>3 DEF Inv, Started, Busy, a
<1>. QED
  BY <1>5, <1>6, <1>7, <1>11, <1>12, <1>13, <1>14 DEF Inv

LEMMA Keeps ==
  ASSUME Inv, [Next]_vars
  PROVE  Inv'
<1>1. CASE UNCHANGED vars
  BY <1>1 DEF vars, walk, Inv, Typed, Phases, Walks, Mine, Apart, Owned, Started
<1>2. ASSUME NEW c \in Contexts, Step(c) PROVE Inv'
  BY <1>2, BeginStep, DescendStep, MakeTableStep, LinkTableStep, SetEntryStep, ReturnStep DEF Step
<1>. QED
  BY <1>1, <1>2, InitPml4Step, InitMapStep, InitDoneStep DEF Next

(* The invariant holds, for every value of the constants. *)
THEOREM Invariant == Spec => []Inv
BY Starts, Keeps, PTL DEF Spec

-----------------------------------------------------------------------------
(* What the processor reads in the tables *)

Tr(p, r, v) ==
  IF E(p, r, v, 2).present /\ E(p, r, v, 2).large THEN E(p, r, v, 2).phys + (v % N)
  ELSE IF E(p, r, v, 1).present THEN E(p, r, v, 1).phys ELSE NONE

LEMMA Translated ==
  ASSUME WellFormed(pte, pml4), NEW v \in Virt
  PROVE  Translate(v) = Tr(pte, pml4, v)
<1> DEFINE e(l) == E(pte, pml4, v, l)
<1>1. \A t, l : At(t, v, l) = EntryIn(pte, t, v, l)
  BY DEF At, EntryIn
<1>2. ~e(4).large /\ ~e(3).large
  <2>1. 4 \in Levels /\ 3 \in Levels
    BY DEF Levels
  <2>. QED
    BY <2>1, 4 # 2, 3 # 2 DEF WellFormed, LargeRight
<1>3. At(pml4, v, 4) = e(4)
  BY <1>1, Down1 DEF E
<1>4. Below(e(4)) = T(pte, pml4, v, 3)
  BY <1>2, Down1 DEF Below, Down
<1>5. At(Below(e(4)), v, 3) = e(3)
  BY <1>1, <1>4 DEF E
<1>6. Below(e(3)) = T(pte, pml4, v, 2)
  BY <1>2, Down1 DEF Below, Down
<1>7. At(Below(e(3)), v, 2) = e(2)
  BY <1>1, <1>6 DEF E
<1>8. ~(e(2).present /\ e(2).large) => At(Below(e(2)), v, 1) = e(1)
  <2>1. SUFFICES ASSUME ~(e(2).present /\ e(2).large) PROVE At(Below(e(2)), v, 1) = e(1)
    OBVIOUS
  <2>2. Below(e(2)) = Down(e(2))
    BY <2>1 DEF Below, Down
  <2>3. Below(e(2)) = T(pte, pml4, v, 1)
    BY <2>2, Down1
  <2>. QED
    BY <1>1, <2>3 DEF E
<1> HIDE DEF e
<1>9. Translate(v) = IF e(2).present /\ e(2).large THEN e(2).phys + (v % N)
                     ELSE IF e(1).present THEN e(1).phys ELSE NONE
  BY <1>3, <1>5, <1>7, <1>8 DEF Translate
<1>. QED
  BY <1>9 DEF Tr, e

(* A call that is mapped is what the processor finds. *)
LEMMA MappedRead ==
  ASSUME NEW p, NEW r, WellFormed(p, r), NEW a \in Calls, Mapped(p, r, a),
         NEW v \in Virt, Covers(a, v)
  PROVE  Tr(p, r, v) = Target(a, v)
<1>1. a.virt \in Virt /\ 1 \in Levels /\ 2 \in Levels
  BY CallTyped DEF Levels
<1>2. CASE a.large
  <2>1. P(v, 2 - 1) = P(a.virt, 2 - 1)
    <3>1. P(v, 1) = P(a.virt, 1)
      BY <1>2, LowDigits DEF Covers
    <3>2. 2 - 1 = 1
      OBVIOUS
    <3>. QED
      BY <3>1, <3>2
  <2>2. E(p, r, v, 2) = E(p, r, a.virt, 2)
    BY <1>1, <2>1, SameEntry
  <2>3. E(p, r, v, 2) = Page(a)
    BY <1>2, <2>2 DEF Mapped, Low
  <2>. QED
    BY <1>2, <2>3 DEF Tr, Page, Target
<1>3. CASE ~a.large
  <2>1. v = a.virt /\ E(p, r, v, 1) = Page(a)
    BY <1>3 DEF Covers, Mapped, Low
  <2>2. ~(E(p, r, v, 2).present /\ E(p, r, v, 2).large)
    <3>1. ASSUME E(p, r, v, 2).large PROVE FALSE
      <4>1. T(p, r, v, 1) = NULL
        BY <3>1, Down1 DEF Down
      <4>2. E(p, r, v, 1) = Zero
        BY <4>1, NullZero
      <4>. QED
        BY <2>1, <4>2 DEF Page, Zero
    <3>. QED
      BY <3>1
  <2>. QED
    BY <1>3, <2>1, <2>2 DEF Tr, Page, Target
<1>. QED
  BY <1>2, <1>3

(* MemoryMap returns with the page it was asked for in the map, wherever a
   handler interrupted its walk and whatever that mapped. *)
THEOREM CallsMapped == Spec => []MapsAsAsked
<1>1. Inv => MapsAsAsked
  <2>1. SUFFICES ASSUME Inv, NEW c \in Contexts, pc[c] = "return",
                        NEW v \in Virt, Covers(call[c], v)
                 PROVE  Translate(v) = Target(call[c], v)
    BY DEF MapsAsAsked
  <2>2. call[c] \in Calls /\ Mapped(pte, pml4, call[c])
    BY <2>1 DEF Inv, Walks, Going
  <2>3. Tr(pte, pml4, v) = Target(call[c], v)
    BY <2>1, <2>2, MappedRead DEF Inv
  <2>. QED
    BY <2>1, <2>3, Translated DEF Inv
<1>. QED
  BY <1>1, Invariant, PTL

(* When the kernel loads its own map, every page of the memory map is in it
   where the loops of InitPaging put it, and it stays. *)
THEOREM DirectMap == Spec => []DirectMapStays
<1>1. Inv => DirectMapStays
  <2>1. SUFFICES ASSUME Inv, kernelPML4 # NULL, NEW a \in InitCalls
                 PROVE  Translate(a.virt) = a.phys
    BY DEF DirectMapStays
  <2>2. Mapped(pte, pml4, a)
    BY <2>1 DEF Inv, Started
  <2>3. ~a.large
    BY DEF InitCalls, InitCall
  <2>4. a \in Calls /\ a.virt \in Virt /\ Covers(a, a.virt)
    BY <2>3, Constants, CallTyped DEF Covers
  <2>5. Tr(pte, pml4, a.virt) = Target(a, a.virt)
    BY <2>1, <2>2, <2>4, MappedRead DEF Inv
  <2>6. Translate(a.virt) = Tr(pte, pml4, a.virt)
    BY <2>1, <2>4, Translated DEF Inv
  <2>. QED
    BY <2>3, <2>5, <2>6 DEF Target
<1>. QED
  BY <1>1, Invariant, PTL

-----------------------------------------------------------------------------
(* The flat map *)

LEMMA LinkedRead ==
  ASSUME NEW p, NEW q, NEW r, NEW u, NEW l, NEW n, Link(p, q, r, u, l, n), NEW v \in Virt
  PROVE  Tr(q, r, v) = Tr(p, r, v)
<1>1. l \in {2, 3, 4} /\ l \in Levels /\ u \in Virt /\ 1 \in Levels /\ 2 \in Levels
  BY DEF Link, Levels
<1>2. E(q, r, v, 1) = E(p, r, v, 1)
  BY <1>1, Linked
<1>3. CASE l = 2 /\ P(v, l - 1) = P(u, l - 1)
  <2>1. E(q, r, v, 2) = Table(n)
    BY <1>1, <1>3, Linked
  <2>2. E(p, r, v, 2) = E(p, r, u, 2)
    BY <1>1, <1>3, SameEntry
  <2>3. ~E(p, r, v, 2).present
    BY <1>3, <2>2 DEF Link
  <2>. QED
    BY <1>2, <2>1, <2>3 DEF Tr, Table
<1>4. CASE ~(l = 2 /\ P(v, l - 1) = P(u, l - 1))
  <2>1. E(q, r, v, 2) = E(p, r, v, 2)
    BY <1>1, <1>4, Linked
  <2>. QED
    BY <1>2, <2>1 DEF Tr
<1>. QED
  BY <1>3, <1>4

LEMMA FilledRead ==
  ASSUME NEW p, NEW q, NEW r, NEW a, Fill(p, q, r, a), NEW v \in Virt
  PROVE  Tr(q, r, v) = IF Covers(a, v) THEN Target(a, v) ELSE Tr(p, r, v)
<1>1. a \in Calls /\ a.virt \in Virt /\ Low(a) \in Levels /\ 1 \in Levels /\ 2 \in Levels
  BY CallTyped DEF Fill, Levels
<1>2. CASE Covers(a, v)
  <2>1. Mapped(q, r, a)
    BY <1>1, Filled DEF Mapped, Filling
  <2>2. WellFormed(q, r)
    BY FilledWell
  <2>. QED
    BY <1>1, <1>2, <2>1, <2>2, MappedRead
<1>3. CASE ~Covers(a, v)
  <2>1. P(v, Low(a) - 1) # P(a.virt, Low(a) - 1)
    <3>1. a.large => Low(a) - 1 = 1
      BY DEF Low
    <3>2. ~a.large => Low(a) - 1 = 0
      BY DEF Low
    <3>. QED
      BY <1>3, <3>1, <3>2, LowDigits DEF Covers
  <2>2. E(q, r, v, 1) = E(p, r, v, 1) /\ E(q, r, v, 2) = E(p, r, v, 2)
    BY <1>1, <2>1, Filled DEF Filling
  <2>. QED
    BY <1>3, <2>2 DEF Tr
<1>. QED
  BY <1>2, <1>3

LEMMA MakeTableClears ==
  ASSUME Inv, NEW c \in Contexts, MakeTable(c)
  PROVE  pml4' = pml4 /\ (pte' = pte \/ Clear(pte, pte', pml4, NextFrame))
<1>1. CASE Exhausted(c)
  BY <1>1 DEF Exhausted
<1>2. CASE ~Exhausted(c)
  <2>1. taken < Len(FrameSeq) /\ pml4' = pml4 /\ pte' = [pte EXCEPT ![NextFrame] = EmptyTable]
    BY <1>2 DEF MakeTable, AllocatePage
  <2>2. NextFrame \in Frames /\ NextFrame # NULL /\ NextFrame \notin Given(taken)
    BY <2>1, Fresh, VmmAssumption DEF NextFrame, Inv, Typed
  <2>3. Unused(pte, pml4, NextFrame)
    BY <2>2 DEF Inv, Owned, Unused
  <2>. QED
    BY <2>1, <2>2, <2>3 DEF Clear, Inv, WellFormed
<1>. QED
  BY <1>1, <1>2

FlatInv == \A v \in Virt : Translate(v) = Tr(pte, pml4, v)

(* The tables implement the flat map: at every moment, with a walk of each
   context anywhere, the processor sees the pages of the calls that have set
   their entry, and making, linking and clearing tables changes none. *)
THEOREM FlatMap == Spec => KeepsPromise
<1>1. Init => Promise!Init
  <2>1. SUFFICES ASSUME Init, NEW v \in Virt PROVE Translate(v) = NONE
    BY DEF Promise!Init, Promise!Virt, Virt, Promise!NONE, NONE
  <2>2. Inv
    BY <2>1, Starts
  <2>3. 1 \in Levels /\ 2 \in Levels /\ pml4 = NULL
    BY <2>1 DEF Init, Levels
  <2>4. E(pte, pml4, v, 1) = Zero /\ E(pte, pml4, v, 2) = Zero
    BY <2>2, <2>3, EmptyMap DEF Inv, WellFormed
  <2>. QED
    BY <2>2, <2>4, Translated DEF Inv, Tr, Zero
<1>2. Inv => FlatInv
  BY Translated DEF Inv, FlatInv
<1>3. Inv /\ FlatInv /\ FlatInv' /\ [Next]_vars => [Promise!Next]_[v \in Virt |-> Translate(v)]
  <2>1. SUFFICES ASSUME Inv, FlatInv, FlatInv', [Next]_vars
                 PROVE  Promise!Next \/ UNCHANGED [v \in Virt |-> Translate(v)]
    OBVIOUS
  <2>2. CASE \A v \in Virt : Tr(pte', pml4', v) = Tr(pte, pml4, v)
    BY <2>1, <2>2 DEF FlatInv
  <2>3. CASE pte' = pte /\ pml4' = pml4
    BY <2>2, <2>3
  <2>4. ASSUME InitPml4 PROVE \A v \in Virt : Tr(pte', pml4', v) = Tr(pte, pml4, v)
    <3>1. pml4 = NULL /\ pte \in Tables /\ taken = 0
      BY <2>1, <2>4 DEF InitPml4, Inv, Phases, WellFormed
    <3>2. /\ taken < Len(FrameSeq) /\ pte' = [pte EXCEPT ![NextFrame] = EmptyTable]
          /\ pml4' = NextFrame
      BY <2>4 DEF InitPml4, AllocatePage
    <3>3. NextFrame \in Frames
      BY <2>1, <3>2, Fresh DEF NextFrame, Inv, Typed
    <3>4. pte' \in Tables /\ pte'[NextFrame] = EmptyTable
      BY <3>1, <3>2, <3>3, EmptyTyped DEF Tables
    <3>5. \A v \in Virt : \A m \in Levels : E(pte, NULL, v, m) = Zero
      BY <3>1, EmptyMap DEF Roots
    <3>6. \A v \in Virt : \A m \in Levels : E(pte', NextFrame, v, m) = Zero
      BY <3>3, <3>4, EmptyMap DEF Roots
    <3>7. 1 \in Levels /\ 2 \in Levels
      BY DEF Levels
    <3>. QED
      BY <3>1, <3>2, <3>5, <3>6, <3>7 DEF Tr
  <2>5. ASSUME NEW c \in Contexts, MakeTable(c)
        PROVE  \A v \in Virt : Tr(pte', pml4', v) = Tr(pte, pml4, v)
    <3>1. pml4' = pml4 /\ (pte' = pte \/ Clear(pte, pte', pml4, NextFrame))
      BY <2>1, <2>5, MakeTableClears
    <3>2. 1 \in Levels /\ 2 \in Levels
      BY DEF Levels
    <3>. QED
      BY <3>1, <3>2, Cleared DEF Tr
  <2>6. ASSUME NEW c \in Contexts, LinkTable(c)
        PROVE  \A v \in Virt : Tr(pte', pml4', v) = Tr(pte, pml4, v)
    <3>1. Link(pte, pte', pml4, call[c].virt, level[c], new[c])
      BY <2>1, <2>6, LinkTableLinks
    <3>2. pml4' = pml4
      BY <2>6 DEF LinkTable
    <3>. QED
      BY <3>1, <3>2, LinkedRead
  <2>7. ASSUME NEW c \in Contexts, SetEntry(c) PROVE Promise!Next
    <3>1. Fill(pte, pte', pml4, call[c]) /\ call[c] \in Calls
      BY <2>1, <2>7, SetEntryFills DEF Fill
    <3>2. pml4' = pml4
      BY <2>7 DEF SetEntry
    <3>3. ASSUME NEW v \in Virt
          PROVE  Translate(v)' = IF Covers(call[c], v) THEN Target(call[c], v) ELSE Translate(v)
      <4>1. Tr(pte', pml4, v) = IF Covers(call[c], v) THEN Target(call[c], v) ELSE Tr(pte, pml4, v)
        BY <3>1, FilledRead
      <4>. QED
        BY <2>1, <3>2, <4>1 DEF FlatInv
    <3>4. Promise!Map(call[c])
      BY <3>3 DEF Promise!Map, Promise!Virt, Virt, Promise!Covers, Covers, Promise!Target, Target
    <3>. QED
      BY <3>1, <3>4 DEF Promise!Next
  <2>8. InitMap \/ InitDone \/ UNCHANGED vars => pte' = pte /\ pml4' = pml4
    BY DEF InitMap, InitDone, vars
  <2>9. ASSUME NEW c \in Contexts, Begin(c) \/ Descend(c) \/ Return(c)
        PROVE  pte' = pte /\ pml4' = pml4
    BY <2>9 DEF Begin, Descend, Return
  <2>. QED
    BY <2>1, <2>2, <2>3, <2>4, <2>5, <2>6, <2>7, <2>8, <2>9 DEF Next, Step
<1>. QED
  BY <1>1, <1>2, <1>3, Invariant, PTL DEF Spec, KeepsPromise, Promise!Spec

-----------------------------------------------------------------------------
(* The tree *)

(* The tables of a level are the ones that hang under the level above. *)
Of(l) == { T(pte, pml4, v, l) : v \in Virt } \ {NULL}

LEMMA OfUnder ==
  ASSUME WellFormed(pte, pml4), NEW l \in {2, 3, 4}
  PROVE  Under(Of(l)) = Of(l - 1)
<1>1. l \in Levels /\ l - 1 \in Levels /\ l > 1
  BY DEF Levels
<1>2. ASSUME NEW x \in Under(Of(l)) PROVE x \in Of(l - 1)
  <2>1. PICK i \in Links(Of(l)) : x = pte[i[1]][i[2]].phys
    BY <1>2 DEF Under
  <2>2. i[1] \in Of(l) /\ i[2] \in Index /\ pte[i[1]][i[2]].present /\ ~pte[i[1]][i[2]].large
    BY <2>1 DEF Links
  <2>3. PICK v \in Virt : i[1] = T(pte, pml4, v, l)
    BY <2>2 DEF Of
  <2>4. PICK w \in Virt : P(w, l) = P(v, l) /\ IndexAt(w, l) = i[2]
    BY <1>1, <2>2, AnyDigit
  <2>5. T(pte, pml4, w, l) = i[1] /\ i[1] \in Frames
    <3>1. T(pte, pml4, w, l) = i[1]
      BY <1>1, <2>3, <2>4, SameTable
    <3>. QED
      BY <1>1, <2>2, <3>1 DEF Of, WellFormed, Roots
  <2>6. E(pte, pml4, w, l) = pte[i[1]][i[2]]
    BY <2>4, <2>5 DEF E, EntryIn
  <2>7. x # NULL
    BY <1>1, <2>1, <2>2, <2>6 DEF WellFormed, LinksRight
  <2>8. T(pte, pml4, w, l - 1) = x
    <3>1. Down(E(pte, pml4, w, l)) = x
      BY <2>1, <2>2, <2>6 DEF Down
    <3>. QED
      BY <3>1, Down1
  <2>. QED
    BY <2>7, <2>8 DEF Of
<1>3. ASSUME NEW x \in Of(l - 1) PROVE x \in Under(Of(l))
  <2>1. PICK v \in Virt : x = T(pte, pml4, v, l - 1) /\ x # NULL
    BY <1>3 DEF Of
  <2>2. x = Down(E(pte, pml4, v, l))
    BY <2>1, Down1
  <2>3. E(pte, pml4, v, l).present /\ ~E(pte, pml4, v, l).large /\ x = E(pte, pml4, v, l).phys
    BY <2>1, <2>2 DEF Down
  <2> DEFINE t == T(pte, pml4, v, l)
             k == IndexAt(v, l)
  <2>4. t # NULL /\ t \in Frames /\ k \in Index
    <3>1. t # NULL
      BY <2>3, NullZero DEF Zero
    <3>. QED
      BY <1>1, <3>1, Digits DEF WellFormed, Roots
  <2>5. E(pte, pml4, v, l) = pte[t][k]
    BY <2>4 DEF E, EntryIn
  <2>6. t \in Of(l)
    BY <2>4 DEF Of
  <2> HIDE DEF t, k
  <2>7. << t, k >> \in Links(Of(l))
    BY <2>3, <2>4, <2>5, <2>6 DEF Links
  <2>. QED
    BY <2>3, <2>5, <2>7 DEF Under
<1>. QED
  BY <1>2, <1>3

LEMMA TablesOf ==
  ASSUME WellFormed(pte, pml4)
  PROVE  Tables4 = Of(4) /\ Tables3 = Of(3) /\ Tables2 = Of(2) /\ Tables1 = Of(1)
<1>1. Tables4 = Of(4)
  BY Down1, Constants DEF Tables4, Of
<1>2. 4 - 1 = 3 /\ 3 - 1 = 2 /\ 2 - 1 = 1
  OBVIOUS
<1>3. Under(Of(4)) = Of(3)
  BY <1>2, OfUnder
<1>4. Under(Of(3)) = Of(2)
  BY <1>2, OfUnder
<1>5. Under(Of(2)) = Of(1)
  BY <1>2, OfUnder
<1>. QED
  BY <1>1, <1>3, <1>4, <1>5 DEF Tables3, Tables2, Tables1

(* An entry that holds a table is that of one address, a level down. *)
LEMMA LinkOf ==
  ASSUME WellFormed(pte, pml4), NEW i \in Links(Of(4) \union Of(3) \union Of(2))
  PROVE  \E w \in Virt : \E l \in {2, 3, 4} :
           /\ i = << T(pte, pml4, w, l), IndexAt(w, l) >>
           /\ pte[i[1]][i[2]].phys = T(pte, pml4, w, l - 1)
           /\ T(pte, pml4, w, l - 1) # NULL
<1>1. /\ i \in (Of(4) \union Of(3) \union Of(2)) \X Index
      /\ pte[i[1]][i[2]].present /\ ~pte[i[1]][i[2]].large
  BY DEF Links
<1>2. PICK l \in {2, 3, 4} : i[1] \in Of(l)
  BY <1>1
<1>3. l \in Levels /\ l > 1
  BY DEF Levels
<1>4. PICK v \in Virt : i[1] = T(pte, pml4, v, l) /\ i[1] # NULL
  BY <1>2 DEF Of
<1>5. PICK w \in Virt : P(w, l) = P(v, l) /\ IndexAt(w, l) = i[2]
  BY <1>1, <1>3, AnyDigit
<1>6. T(pte, pml4, w, l) = i[1] /\ i[1] \in Frames
  <2>1. T(pte, pml4, w, l) = i[1]
    BY <1>3, <1>4, <1>5, SameTable
  <2>. QED
    BY <1>3, <1>4, <2>1 DEF WellFormed, Roots
<1>7. E(pte, pml4, w, l) = pte[i[1]][i[2]]
  BY <1>5, <1>6 DEF E, EntryIn
<1>8. pte[i[1]][i[2]].phys # NULL
  BY <1>1, <1>3, <1>7 DEF WellFormed, LinksRight
<1>9. T(pte, pml4, w, l - 1) = pte[i[1]][i[2]].phys
  <2>1. Down(E(pte, pml4, w, l)) = pte[i[1]][i[2]].phys
    BY <1>1, <1>7 DEF Down
  <2>. QED
    BY <2>1, Down1
<1>10. i = << i[1], i[2] >>
  BY <1>1
<1>. QED
  BY <1>5, <1>6, <1>8, <1>9, <1>10

(* There are as many entries with a table as tables below the top. *)
LEMMA OneEntryEach ==
  ASSUME WellFormed(pte, pml4)
  PROVE  LET links == Links(Of(4) \union Of(3) \union Of(2))
             below == Of(3) \union Of(2) \union Of(1)
         IN  /\ IsFiniteSet(links) /\ IsFiniteSet(below)
             /\ Cardinality(below) = Cardinality(links)
<1> DEFINE links == Links(Of(4) \union Of(3) \union Of(2))
           below == Of(3) \union Of(2) \union Of(1)
           f == [i \in links |-> pte[i[1]][i[2]].phys]
<1>1. IsFiniteSet(links)
  <2>1. IsFiniteSet(Frames)
    <3>1. Len(FrameSeq) \in Nat /\ FrameSeq \in [1 .. Len(FrameSeq) -> Frames] /\ DOMAIN FrameSeq = 1 .. Len(FrameSeq)
      BY VmmAssumption DEF Frames
    <3>2. FrameSeq \in Surjection(1 .. Len(FrameSeq), Frames)
      BY <3>1 DEF Surjection, Frames
    <3>. QED
      BY <3>1, <3>2, FS_Interval, FS_Surjection
  <2>2. IsFiniteSet(Index)
    BY Sizes, FS_Interval DEF Index
  <2>3. IsFiniteSet(Frames \X Index)
    BY <2>1, <2>2, FS_Product
  <2>4. \A l \in Levels : Of(l) \subseteq Frames
    BY DEF Of, WellFormed, Roots
  <2>5. links \subseteq Frames \X Index
    <3>1. 4 \in Levels /\ 3 \in Levels /\ 2 \in Levels
      BY DEF Levels
    <3>. QED
      BY <2>4, <3>1 DEF Links
  <2>. QED
    BY <2>3, <2>5, FS_Subset
<1>2. ASSUME NEW i \in links PROVE f[i] \in below
  <2>1. PICK w \in Virt, l \in {2, 3, 4} :
          pte[i[1]][i[2]].phys = T(pte, pml4, w, l - 1) /\ T(pte, pml4, w, l - 1) # NULL
    BY <1>2, LinkOf
  <2>2. f[i] \in Of(l - 1)
    BY <2>1 DEF Of
  <2>3. l - 1 \in {1, 2, 3}
    OBVIOUS
  <2>. QED
    BY <2>2, <2>3
<1>3. ASSUME NEW i \in links, NEW j \in links, f[i] = f[j] PROVE i = j
  <2>1. PICK v \in Virt, l \in {2, 3, 4} :
          /\ i = << T(pte, pml4, v, l), IndexAt(v, l) >>
          /\ f[i] = T(pte, pml4, v, l - 1) /\ T(pte, pml4, v, l - 1) # NULL
    BY <1>3, LinkOf
  <2>2. PICK w \in Virt, m \in {2, 3, 4} :
          /\ j = << T(pte, pml4, w, m), IndexAt(w, m) >>
          /\ f[j] = T(pte, pml4, w, m - 1) /\ T(pte, pml4, w, m - 1) # NULL
    BY <1>3, LinkOf
  <2>3. l \in Levels /\ m \in Levels /\ l - 1 \in Levels /\ m - 1 \in Levels
    BY DEF Levels
  <2>4. l - 1 = m - 1 /\ P(v, l - 1) = P(w, l - 1)
    BY <1>3, <2>1, <2>2, <2>3 DEF WellFormed, Injective
  <2>5. l = m
    BY <2>4
  <2>6. P(v, l) = P(w, l) /\ IndexAt(v, l) = IndexAt(w, l)
    BY <2>3, <2>4, SameDigits
  <2>7. T(pte, pml4, v, l) = T(pte, pml4, w, l)
    BY <2>3, <2>6, SameTable
  <2>. QED
    BY <2>1, <2>2, <2>5, <2>6, <2>7
<1>4. ASSUME NEW x \in below PROVE \E i \in links : f[i] = x
  <2>1. PICK l \in {2, 3, 4} : x \in Of(l - 1)
    <3>1. 4 - 1 = 3 /\ 3 - 1 = 2 /\ 2 - 1 = 1
      OBVIOUS
    <3>. QED
      BY <1>4, <3>1
  <2>2. x \in Under(Of(l))
    BY <2>1, OfUnder
  <2>3. PICK i \in Links(Of(l)) : x = pte[i[1]][i[2]].phys
    BY <2>2 DEF Under
  <2>4. i \in links
    BY <2>3 DEF Links
  <2>. QED
    BY <2>3, <2>4
<1>5. f \in [links -> below]
  BY <1>2
<1> HIDE DEF links, below, f
<1>6. f \in Injection(links, below)
  BY <1>3, <1>5 DEF Injection, IsInjective
<1>7. f \in Surjection(links, below)
  BY <1>4, <1>5 DEF Surjection
<1>8. f \in Bijection(links, below)
  BY <1>6, <1>7 DEF Bijection
<1>9. ExistsBijection(links, below)
  BY <1>8 DEF ExistsBijection
<1>10. IsFiniteSet(below) /\ Cardinality(below) = Cardinality(links)
  BY <1>1, <1>9, FS_Bijection
<1>. QED
  BY <1>1, <1>10 DEF links, below

(* The page tables are a tree of all frames taken: each hangs under one
   entry, or one walk is about to link it; none is lost, none shared. *)
THEOREM Tree == Spec => []TablesAreATree
<1> DEFINE tables == Tables4 \union Tables3 \union Tables2 \union Tables1
           making == { new[c] : c \in Contexts } \ {NULL}
           given == { FrameSeq[i] : i \in 1 .. taken }
<1>1. ASSUME Inv
      PROVE  TablesAreATree
  <2>1. Tables4 = Of(4) /\ Tables3 = Of(3) /\ Tables2 = Of(2) /\ Tables1 = Of(1)
    BY <1>1, TablesOf DEF Inv
  <2>2. given = Given(taken) /\ NULL \notin given
    BY <1>1, GivenFrames, FramesTyped DEF Given, Inv, Typed
  <2>3. ASSUME NEW x PROVE x \in tables <=> x # NULL /\ HasTable(pte, pml4, x)
    <3>1. x \in tables <=> \E m \in {1, 2, 3, 4} : x \in Of(m)
      BY <2>1
    <3>2. Levels = {1, 2, 3, 4}
      BY DEF Levels
    <3>. QED
      BY <3>1, <3>2 DEF Of, HasTable
  <2>4. tables \union making = given
    <3>1. ASSUME NEW x \in tables PROVE x \in given
      BY <1>1, <2>2, <2>3, <3>1 DEF Inv, Owned, HasTable
    <3>2. ASSUME NEW x \in making PROVE x \in given
      BY <1>1, <2>2, <3>2 DEF Inv, Owned
    <3>3. ASSUME NEW x \in given PROVE x \in tables \union making
      <4>1. x # NULL /\ x \in Given(taken)
        BY <2>2, <3>3
      <4>. QED
        BY <1>1, <2>3, <4>1 DEF Inv, Owned
    <3>. QED
      BY <3>1, <3>2, <3>3
  <2>5. tables \intersect making = {}
    <3>1. SUFFICES ASSUME NEW x \in tables, NEW c \in Contexts, new[c] = x, x # NULL PROVE FALSE
      OBVIOUS
    <3>2. Unused(pte, pml4, new[c])
      BY <1>1, <3>1 DEF Inv, Walks, Going, Linking
    <3>. QED
      BY <2>3, <3>1, <3>2 DEF Unused, HasTable
  <2>6. Cardinality(tables) =
          Cardinality(Tables4) + Cardinality(Links(Tables4 \union Tables3 \union Tables2))
    <3> DEFINE below == Of(3) \union Of(2) \union Of(1)
               links == Links(Of(4) \union Of(3) \union Of(2))
    <3>1. IsFiniteSet(links) /\ IsFiniteSet(below) /\ Cardinality(below) = Cardinality(links)
      BY <1>1, OneEntryEach DEF Inv
    <3>2. IsFiniteSet(Of(4))
      <4>1. Of(4) \subseteq {pml4}
        BY Down1 DEF Of
      <4>. QED
        BY <4>1, FS_Singleton, FS_Subset
    <3>3. Of(4) \cap below = {}
      <4>1. SUFFICES ASSUME NEW x \in Of(4), NEW m \in {1, 2, 3}, x \in Of(m) PROVE FALSE
        OBVIOUS
      <4>2. PICK v \in Virt : x = T(pte, pml4, v, 4) /\ x # NULL
        BY DEF Of
      <4>3. PICK w \in Virt : x = T(pte, pml4, w, m)
        BY <4>1 DEF Of
      <4>4. 4 \in Levels /\ m \in Levels /\ m # 4
        BY DEF Levels
      <4>. QED
        BY <1>1, <4>2, <4>3, <4>4 DEF Inv, WellFormed, Injective
    <3>4. tables = Of(4) \cup below
      BY <2>1
    <3>5. links = Links(Tables4 \union Tables3 \union Tables2)
      BY <2>1
    <3> HIDE DEF below, links, tables
    <3>6. /\ Cardinality(Of(4)) \in Nat /\ Cardinality(below) \in Nat /\ Cardinality({}) = 0
          /\ Cardinality(Of(4) \cup below) =
               Cardinality(Of(4)) + Cardinality(below) - Cardinality(Of(4) \cap below)
      BY <3>1, <3>2, FS_Union, FS_CardinalityType, FS_EmptySet
    <3>7. Cardinality(Of(4) \cap below) = 0
      BY <3>3, <3>6
    <3>8. Cardinality(tables) = Cardinality(Of(4)) + Cardinality(links)
      BY <3>1, <3>4, <3>6, <3>7
    <3>. QED
      BY <2>1, <3>5, <3>8
  <2>7. \A c, d \in Contexts : new[c] = new[d] /\ new[c] # NULL => c = d
    BY <1>1 DEF Inv, Apart
  <2>. QED
    BY <2>4, <2>5, <2>6, <2>7 DEF TablesAreATree
<1>2. Inv => TablesAreATree
  BY <1>1
<1>. QED
  BY <1>2, Invariant, PTL
=============================================================================
