---------------------------- MODULE Codecs_proofs ----------------------------
(***************************************************************************)
(* What the codecs of values and payloads do, for every table and every    *)
(* input: what is encoded is read back, and of a payload that was cut only *)
(* what is whole is read.                                                  *)
(*                                                                         *)
(* The recursive functions of Codecs (the walk over items, the walk over   *)
(* entries, the digits of a number) are reached through LeastElement of    *)
(* Order_proofs: induction as the search for a least counterexample.       *)
(***************************************************************************)
EXTENDS Codecs, Order_proofs

-----------------------------------------------------------------------------
(* Sequences put together.                                                 *)

\* Concatenation, with the place of each element.
IsConcat(S, j, s, w) ==
  /\ j \in Seq(S) /\ Len(j) = Len(s) + Len(w)
  /\ \A i \in 1..Len(s) : j[i] = s[i]
  /\ \A i \in 1..Len(w) : j[Len(s) + i] = w[i]

\* What is concatenated is at such places.
LEMMA Concatenation ==
  ASSUME NEW S, NEW s \in Seq(S), NEW w \in Seq(S)
  PROVE  IsConcat(S, s \o w, s, w)
BY DEF IsConcat

\* Where the parts of a sequence end once they are put together.
IsEnds(p, s) ==
  /\ p \in [0..Len(s) -> Nat]
  /\ p[0] = 0
  /\ \A k \in 1..Len(s) : p[k] = p[k - 1] + Len(s[k])

\* Every sequence of sequences has such ends.
LEMMA EndsExist ==
  ASSUME NEW S, NEW s \in Seq(Seq(S))
  PROVE  \E p : IsEnds(p, s)
<1> DEFINE n == Len(s)
           step == [k \in 0..n |-> [a \in Nat |-> IF k = 0 THEN 0 ELSE a + Len(s[k])]]
<1>1. n \in Nat /\ 0 \in Nat /\ 0 <= n
  OBVIOUS
<1>2. step \in [0..n -> [Nat -> Nat]]
  <2>1. ASSUME NEW k \in 0..n, NEW a \in Nat PROVE (IF k = 0 THEN 0 ELSE a + Len(s[k])) \in Nat
    <3>1. CASE k # 0
      <4>1. k \in 1..n
        BY <3>1
      <4>2. s[k] \in Seq(S)
        BY <4>1
      <4>3. Len(s[k]) \in Nat
        BY <4>2
      <4>4. QED
        BY <3>1, <4>3
    <3>2. QED
      BY <3>1
  <2>2. QED
    BY <2>1
<1>3. PICK p : Runs(Nat, 0, n, 0, step, p)
  <2>1. CanRun(Nat, 0, n, 0, step)
    <3> HIDE DEF step, n
    <3>1. QED
      BY <1>1, <1>2 DEF CanRun
  <2> HIDE DEF step, n
  <2>2. QED
    BY <2>1, Recursion
<1>4. p \in [0..n -> Nat] /\ p[0] = 0 /\ \A k \in 1..n : p[k] = step[k][p[k - 1]]
  <2> HIDE DEF step, n
  <2>1. QED
    BY <1>3 DEF Runs
<1>5. ASSUME NEW k \in 1..n PROVE p[k] = p[k - 1] + Len(s[k])
  <2>1. k \in 0..n /\ k # 0 /\ k - 1 \in 0..n
    BY <1>1
  <2>2. p[k] = step[k][p[k - 1]]
    <3> HIDE DEF step
    <3>1. QED
      BY <1>4
  <2>3. p[k - 1] \in Nat
    BY <1>4, <2>1
  <2>4. QED
    BY <2>1, <2>2, <2>3
<1>6. QED
  BY <1>4, <1>5 DEF IsEnds

\* The parts of a sequence put together.
LEMMA FlattenIs ==
  ASSUME NEW S, NEW s \in Seq(Seq(S)), NEW p, IsEnds(p, s)
  PROVE  /\ FlattenSeq(s) \in Seq(S)
         /\ Len(FlattenSeq(s)) = p[Len(s)]
         /\ \A k \in 1..Len(s) : p[k] <= p[Len(s)]
         /\ \A k \in 1..Len(s) : \A j \in 1..Len(s[k]) : FlattenSeq(s)[p[k - 1] + j] = s[k][j]
<1> DEFINE n == Len(s)
<1>0. n \in Nat
  OBVIOUS
<1>1. CASE n = 0
  BY <1>1 DEF FlattenSeq, IsEnds
<1>2. CASE n # 0
  <2> DEFINE step == [k \in 1..n |-> [a \in Seq(S) |-> a \o s[k]]]
             Flat(f) == f = [i \in 1..n |-> IF i = 1 THEN s[i] ELSE f[i - 1] \o s[i]]
  <2>1. 1 \in Nat /\ 1 <= n /\ s[1] \in Seq(S)
    BY <1>0, <1>2
  <2>2. step \in [1..n -> [Seq(S) -> Seq(S)]]
    <3>1. ASSUME NEW k \in 1..n, NEW a \in Seq(S) PROVE a \o s[k] \in Seq(S)
      <4>1. s[k] \in Seq(S)
        OBVIOUS
      <4>2. QED
        BY <4>1
    <3>2. QED
      BY <3>1
  <2>3. PICK g : Runs(Seq(S), 1, n, s[1], step, g)
    <3>1. CanRun(Seq(S), 1, n, s[1], step)
      <4> HIDE DEF step, n
      <4>1. QED
        BY <1>0, <2>1, <2>2 DEF CanRun
    <3> HIDE DEF step, n
    <3>2. QED
      BY <3>1, Recursion
  <2>4. Flat(g)
    <3>0. g \in [1..n -> Seq(S)] /\ g[1] = s[1] /\ \A k \in 2..n : g[k] = step[k][g[k - 1]]
      <4> HIDE DEF step, n
      <4>1. QED
        BY <2>3 DEF Runs
    <3>1. ASSUME NEW k \in 1..n PROVE g[k] = IF k = 1 THEN s[k] ELSE g[k - 1] \o s[k]
      <4>1. IF k = 1 THEN g[k] = s[1] ELSE g[k] = step[k][g[k - 1]]
        <5> HIDE DEF step
        <5>1. k # 1 => k \in 2..n
          BY <1>0
        <5>2. QED
          BY <3>0, <5>1
      <4>2. ASSUME k # 1 PROVE step[k][g[k - 1]] = g[k - 1] \o s[k]
        <5>1. k - 1 \in 1..n
          BY <1>0, <4>2
        <5>2. g[k - 1] \in Seq(S)
          BY <3>0, <5>1
        <5>3. QED
          BY <5>2
      <4> HIDE DEF step
      <4>3. QED
        BY <4>1, <4>2
    <3> HIDE DEF n
    <3>2. QED
      BY <3>0, <3>1
  <2> DEFINE f == CHOOSE h : Flat(h)
  <2>5. Flat(f)
    <3> HIDE DEF Flat
    <3>1. QED
      BY <2>4
  <2>6. FlattenSeq(s) = f[n]
    BY <1>2 DEF FlattenSeq
  <2>7. ASSUME NEW k \in 1..n PROVE f[k] = IF k = 1 THEN s[1] ELSE f[k - 1] \o s[k]
    <3> HIDE DEF f
    <3>1. QED
      BY <2>5
  <2>8. /\ \A k \in 0..n : p[k] \in Nat /\ p[0] = 0
        /\ \A k \in 1..n : p[k] = p[k - 1] + Len(s[k])
        /\ \A k \in 1..n : s[k] \in Seq(S) /\ Len(s[k]) \in Nat
    <3>1. p \in [0..n -> Nat] /\ p[0] = 0 /\ \A k \in 1..n : p[k] = p[k - 1] + Len(s[k])
      BY DEF IsEnds
    <3>2. ASSUME NEW k \in 1..n PROVE s[k] \in Seq(S) /\ Len(s[k]) \in Nat
      OBVIOUS
    <3> HIDE DEF n
    <3>3. QED
      BY <3>1, <3>2
  <2> HIDE DEF f, n, step, Flat
  <2> DEFINE Good(k) == /\ f[k] \in Seq(S) /\ Len(f[k]) = p[k]
                        /\ \A i \in 1..k : p[i] <= p[k]
                        /\ \A i \in 1..k : \A j \in 1..Len(s[i]) : f[k][p[i - 1] + j] = s[i][j]
             T == {k \in 1..n : ~Good(k)}
  <2>9. Good(1)
    <3>1. f[1] = s[1]
      BY <1>0, <1>2, <2>7
    <3>2. p[1] = Len(s[1]) /\ p[0] = 0 /\ s[1] \in Seq(S)
      <4>1. 1 \in 1..n
        BY <1>0, <1>2
      <4>2. p[1] = p[1 - 1] + Len(s[1]) /\ p[0] = 0 /\ Len(s[1]) \in Nat
        BY <2>8, <4>1
      <4>3. QED
        BY <2>8, <4>1, <4>2
    <3>3. ASSUME NEW i \in 1..1 PROVE p[i] <= p[1] /\ \A j \in 1..Len(s[i]) : f[1][p[i - 1] + j] = s[i][j]
      <4>1. i = 1 /\ p[i - 1] = 0 /\ p[1] \in Nat
        BY <3>2
      <4>2. QED
        BY <3>1, <4>1
    <3>4. QED
      BY <3>1, <3>2, <3>3
  <2>10. ASSUME NEW k \in 1..n, k # 1, Good(k - 1) PROVE Good(k)
    <3> DEFINE m == k - 1
               c == f[m] \o s[k]
    <3>1. m \in 1..n /\ m \in 0..n /\ \A i \in 1..k : i = k \/ i \in 1..m
      BY <1>0, <2>10
    <3>2. f[k] = c
      BY <2>7, <2>10
    <3>3. s[k] \in Seq(S) /\ p[k] = p[m] + Len(s[k]) /\ p[m] \in Nat /\ Len(s[k]) \in Nat
      BY <2>8, <3>1
    <3>4. f[m] \in Seq(S) /\ Len(f[m]) = p[m]
      BY <2>10
    <3>5. /\ c \in Seq(S) /\ Len(c) = p[m] + Len(s[k])
          /\ \A i \in 1..p[m] : c[i] = f[m][i]
          /\ \A i \in 1..Len(s[k]) : c[p[m] + i] = s[k][i]
      <4> DEFINE u == f[m]
                 v == s[k]
      <4>1. /\ u \o v \in Seq(S) /\ Len(u \o v) = Len(u) + Len(v)
            /\ \A i \in 1..Len(u) : (u \o v)[i] = u[i]
            /\ \A i \in 1..Len(v) : (u \o v)[Len(u) + i] = v[i]
        <5>1. u \in Seq(S) /\ v \in Seq(S)
          BY <3>3, <3>4
        <5> HIDE DEF u, v
        <5>2. QED
          BY <5>1, ConcatIs
      <4>2. Len(u) = p[m] /\ c = u \o v
        BY <3>4
      <4> DEFINE w == u \o v
      <4> HIDE DEF w
      <4>3. QED
        BY <4>1, <4>2 DEF w
    <3> HIDE DEF c
    <3>6. ASSUME NEW i \in 1..k
          PROVE  p[i] <= p[k] /\ \A j \in 1..Len(s[i]) : c[p[i - 1] + j] = s[i][j]
      <4>1. CASE i = k
        BY <3>3, <3>5, <4>1
      <4>2. CASE i # k
        <5>1. i \in 1..m /\ i \in 1..n /\ i - 1 \in 0..n
          BY <4>2, <3>1, <1>0
        <5>2. p[i] <= p[m] /\ \A j \in 1..Len(s[i]) : f[m][p[i - 1] + j] = s[i][j]
          BY <2>10, <5>1
        <5>3. p[i] = p[i - 1] + Len(s[i]) /\ p[i - 1] \in Nat /\ Len(s[i]) \in Nat
          BY <2>8, <5>1
        <5> HIDE DEF m
        <5>4. ASSUME NEW j \in 1..Len(s[i]) PROVE p[i - 1] + j \in 1..p[m]
          <6>1. j \in Nat /\ 1 <= j /\ j <= Len(s[i])
            BY <5>3
          <6>2. QED
            BY <3>3, <5>2, <5>3, <6>1
        <5>5. p[i] <= p[k]
          BY <3>3, <5>2, <5>3
        <5>6. QED
          BY <3>5, <5>2, <5>4, <5>5
      <4>3. QED
        BY <4>1, <4>2
    <3>7. QED
      BY <3>2, <3>3, <3>5, <3>6
  <2>11. ASSUME T # {} PROVE FALSE
    <3>1. T \in SUBSET Nat
      BY <1>0
    <3>2. PICK m \in T : \A k \in T : m <= k
      <4> HIDE DEF T
      <4>1. QED
        BY <2>11, <3>1, LeastElement
    <3>3. m \in 1..n /\ ~Good(m)
      OBVIOUS
    <3>4. m # 1
      BY <2>9, <3>3
    <3>5. m - 1 \in 1..n /\ ~(m <= m - 1)
      BY <1>0, <3>3, <3>4
    <3>6. Good(m - 1)
      <4> HIDE DEF Good
      <4>1. QED
        BY <3>2, <3>5
    <3>7. Good(m)
      <4> HIDE DEF Good
      <4>1. QED
        BY <2>10, <3>3, <3>4, <3>6
    <3>8. QED
      BY <3>3, <3>7
  <2>12. Good(n)
    <3>1. n \in 1..n
      BY <1>0, <1>2
    <3> HIDE DEF Good
    <3>2. QED
      BY <2>11, <3>1
  <2>13. QED
    BY <2>6, <2>12 DEF n
<1>3. QED
  BY <1>1, <1>2

-----------------------------------------------------------------------------
(* Bytes and the numbers made of them.                                     *)

\* What the ranges of numbers are.
LEMMA U16MaxIs == U16_MAX \in Nat /\ U16_MAX = 256 * 255 + 255
BY DEF U16_MAX

\* The bounds of U16, Byte and Digit as inequalities.
LEMMA U16Def == \A n : n \in U16 <=> n \in Int /\ 0 <= n /\ n <= U16_MAX
<1>1. U16_MAX \in Nat
  BY U16MaxIs
<1>2. QED
  BY <1>1 DEF U16

\* The bytes, as inequalities.
LEMMA ByteDef == \A n : n \in Byte <=> n \in Int /\ 0 <= n /\ n <= 255
BY DEF Byte

\* The digits, as inequalities.
LEMMA DigitDef == \A n : n \in Digit <=> n \in Int /\ 48 <= n /\ n <= 57
BY DEF Digit

\* An element of a sequence over S is in S.
LEMMA ElementOf ==
  ASSUME NEW S, NEW s \in Seq(S), NEW i \in 1..Len(s)
  PROVE  s[i] \in S
OBVIOUS

\* Two bytes hold what they were made of.
LEMMA HalvesAre ==
  ASSUME NEW n \in U16
  PROVE  /\ n \div 256 \in Byte /\ n % 256 \in Byte
         /\ 256 * (n \div 256) + (n % 256) = n
<1>1. n \in Int /\ 0 <= n /\ n <= 256 * 255 + 255
  BY U16Def, U16MaxIs
<1>2. n \div 256 \in Int /\ 0 <= n \div 256 /\ n \div 256 <= 255
  BY <1>1
<1>3. n % 256 \in Int /\ 0 <= n % 256 /\ n % 256 <= 255 /\ 256 * (n \div 256) + (n % 256) = n
  BY <1>1
<1>4. QED
  BY <1>2, <1>3, ByteDef

\* A number as two bytes, and two bytes as a number.
LEMMA Be16Is ==
  ASSUME NEW n \in U16
  PROVE  /\ be16(n) \in Bytes /\ Len(be16(n)) = 2 /\ be16(n) # <<>>
         /\ be16(n)[1] = n \div 256 /\ be16(n)[2] = n % 256
         /\ u16_at(be16(n), 1) = n
<1>1. be16(n) \in Bytes /\ Len(be16(n)) = 2 /\ be16(n)[1] = n \div 256 /\ be16(n)[2] = n % 256
  BY HalvesAre DEF be16, Bytes
<1>2. u16_at(be16(n), 1) = 256 * (n \div 256) + (n % 256)
  BY <1>1 DEF u16_at
<1>3. be16(n) # <<>>
  BY <1>1
<1>4. QED
  BY <1>1, <1>2, <1>3, HalvesAre

\* Two bytes read as a number of 16 bits have the first as its high byte.
LEMMA U16Is ==
  ASSUME NEW data \in Bytes, NEW i \in 1..Len(data) - 1
  PROVE  /\ data[i] \in Byte /\ data[i + 1] \in Byte /\ u16_at(data, i) \in U16
         /\ u16_at(data, i) \div 256 = data[i] /\ u16_at(data, i) % 256 = data[i + 1]
<1>1. data[i] \in Byte /\ data[i + 1] \in Byte
  BY DEF Bytes
<1>2. PICK a, b : a = data[i] /\ b = data[i + 1]
  OBVIOUS
<1>3. u16_at(data, i) = 256 * a + b
  BY <1>2, Zenon DEF u16_at
<1>4. a \in Int /\ b \in Int /\ 0 <= a /\ a <= 255 /\ 0 <= b /\ b <= 255
  BY <1>1, <1>2, ByteDef
<1>5. 256 * a + b \in U16
  BY <1>4, U16Def, U16MaxIs
<1>6. (256 * a + b) \div 256 = a /\ (256 * a + b) % 256 = b
  BY <1>4
<1>7. QED
  BY <1>1, <1>2, <1>3, <1>5, <1>6, Zenon

-----------------------------------------------------------------------------
(* Numbers and their digits.                                               *)

\* The digits of a number.
IsWidth(n, w) ==
  /\ w \in 1..5
  /\ Decimal(n) \in Seq(Digit) /\ Len(Decimal(n)) = w
  /\ \A i \in 1..w : Decimal(n)[i] = 48 + ((n \div Powers[w + 1 - i]) % 10)
  /\ w = 1 \/ Powers[w] <= n
  /\ w = 5 \/ n < Powers[w + 1]

\* Each power of ten is ten times the one before.
LEMMA PowersAre ==
  /\ Powers \in [1..5 -> Nat \ {0}]
  /\ \A k \in 1..4 : Powers[k + 1] = 10 * Powers[k]
  /\ Powers[1] = 1
BY DEF Powers

\* Decimal writes a number in as many digits as it takes, without a leading
\* zero.
LEMMA DecimalIs ==
  ASSUME NEW n \in Nat
  PROVE  \E w : IsWidth(n, w)
<1> DEFINE W == {1} \cup {w \in 1..5 : Powers[w] <= n}
           m == Max(W)
<1>1. \A w \in 1..5 : Powers[w] \in Nat
  BY PowersAre
<1>2. W \in SUBSET Nat /\ W # {} /\ \A w \in W : w <= 5
  OBVIOUS
<1>3. m \in W /\ \A w \in W : w <= m
  <2> HIDE DEF W
  <2>1. QED
    BY <1>2, MaxIs
<1>4. Decimal(n) = [i \in 1..m |-> 48 + ((n \div Powers[m + 1 - i]) % 10)]
  BY DEF Decimal
<1> HIDE DEF m
<1>5. m \in 1..5 /\ (m = 1 \/ Powers[m] <= n)
  BY <1>3
<1>6. ASSUME m # 5 PROVE n < Powers[m + 1]
  <2>1. m + 1 \in 1..5 /\ m + 1 \notin W
    BY <1>3, <1>5, <1>6
  <2>2. ~(Powers[m + 1] <= n)
    BY <2>1
  <2> HIDE DEF W
  <2>3. QED
    BY <1>1, <2>1, <2>2
<1> HIDE DEF W
<1>7. m = 5 \/ n < Powers[m + 1]
  BY <1>6
<1>8. ASSUME NEW i \in 1..m PROVE 48 + ((n \div Powers[m + 1 - i]) % 10) \in Digit
  <2>1. m + 1 - i \in 1..5
    BY <1>5
  <2>2. Powers[m + 1 - i] \in Nat \ {0}
    BY <2>1, PowersAre
  <2>3. PICK d \in Nat \ {0} : d = Powers[m + 1 - i]
    BY <2>2
  <2>4. 48 <= 48 + ((n \div d) % 10) /\ 48 + ((n \div d) % 10) <= 57
    OBVIOUS
  <2>5. QED
    BY <2>3, <2>4, DigitDef
<1> DEFINE D(i) == 48 + ((n \div Powers[m + 1 - i]) % 10)
<1>9. \A i \in 1..m : Decimal(n)[i] = D(i)
  <2> HIDE DEF D
  <2>1. QED
    BY <1>4 DEF D
<1>10. Decimal(n) \in Seq(Digit) /\ Len(Decimal(n)) = m
  <2>1. \A i \in 1..m : D(i) \in Digit
    BY <1>8
  <2>2. Decimal(n) = [i \in 1..m |-> D(i)]
    BY <1>4
  <2> HIDE DEF D
  <2>3. m \in Nat
    BY <1>5
  <2>4. QED
    BY <2>1, <2>2, <2>3
<1>11. IsWidth(n, m)
  BY <1>5, <1>7, <1>9, <1>10, Zenon DEF IsWidth
<1>12. QED
  BY <1>11

\* Reading digits.
Follows(d, u) ==
  LET n == 10 * u + d - 48 IN IF n < TooBig THEN n ELSE TooBig

\* TooBig is beyond 16 bits.
LEMMA TooBigIs == TooBig \in Nat /\ U16_MAX < TooBig
<1>1. U16_MAX \in Nat
  BY U16MaxIs
<1>2. QED
  BY <1>1 DEF TooBig

\* Reading one more digit stays below the number that counts as too big.
LEMMA FollowsIs == \A d \in Digit, a \in 0..TooBig : Follows(d, a) \in 0..TooBig
<1>1. ASSUME NEW d \in Digit, NEW a \in 0..TooBig PROVE Follows(d, a) \in 0..TooBig
  <2>1. d \in Int /\ 48 <= d /\ a \in Nat /\ TooBig \in Nat
    BY DigitDef, TooBigIs
  <2>2. PICK n \in Nat : n = 10 * a + d - 48
    BY <2>1
  <2>3. Follows(d, a) = IF n < TooBig THEN n ELSE TooBig
    BY <2>2 DEF Follows
  <2>4. QED
    BY <2>1, <2>2, <2>3
<1>2. QED
  BY <1>1

\* Reading a text digit by digit.
LEMMA NumberRuns ==
  ASSUME NEW digits \in Seq(Digit)
  PROVE  \E u \in [0..Len(digits) -> 0..TooBig] :
           /\ u[0] = 0 /\ Number(digits) = u[Len(digits)]
           /\ \A i \in 1..Len(digits) : u[i] = Follows(digits[i], u[i - 1])
<1> DEFINE N == Len(digits)
           S == 0..TooBig
           step == [k \in 0..N |-> [a \in S |-> IF k = 0 THEN 0 ELSE Follows(digits[k], a)]]
           Upto(f) == f = [i \in 0..N |-> IF i = 0 THEN 0
                                         ELSE LET n == 10 * f[i - 1] + digits[i] - 48
                                              IN  IF n < TooBig THEN n ELSE TooBig]
           u == CHOOSE f : Upto(f)
<1>1. N \in Nat /\ \A i \in 1..N : digits[i] \in Digit
  OBVIOUS
<1>2. \A d \in Digit, a \in S : Follows(d, a) \in S
  BY FollowsIs
<1>3. CanRun(S, 0, N, 0, step)
  <2>1. 0 \in S
    BY TooBigIs
  <2>2. \A k \in 0..N : \A a \in S : (IF k = 0 THEN 0 ELSE Follows(digits[k], a)) \in S
    <3> HIDE DEF N, S
    <3>1. \A k \in 0..N : k # 0 => k \in 1..N
      BY <1>1
    <3>2. QED
      BY <1>1, <1>2, <2>1, <3>1
  <2> HIDE DEF S, N
  <2>3. step \in [0..N -> [S -> S]]
    BY <2>2
  <2> HIDE DEF step
  <2>4. QED
    BY <1>1, <2>1, <2>3 DEF CanRun
<1>4. \E f : Upto(f)
  <2>1. PICK g : Runs(S, 0, N, 0, step, g)
    <3> HIDE DEF step, S, N
    <3>1. QED
      BY <1>3, Recursion
  <2>2. g \in [0..N -> S] /\ g[0] = 0 /\ \A k \in 1..N : g[k] = step[k][g[k - 1]]
    <3> HIDE DEF step, S, N
    <3>1. QED
      BY <2>1 DEF Runs
  <2>3. \A k \in 1..N : k - 1 \in 0..N /\ k \in 0..N /\ k # 0
    BY <1>1
  <2>4. \A k \in 1..N : g[k - 1] \in S
    <3> HIDE DEF S, N
    <3>1. QED
      BY <2>2, <2>3
  <2>5. \A k \in 1..N : g[k] = Follows(digits[k], g[k - 1])
    <3> HIDE DEF S, N
    <3>1. QED
      BY <2>2, <2>3, <2>4
  <2>6. \A k \in 0..N : k = 0 \/ k \in 1..N
    BY <1>1
  <2> HIDE DEF N, S, step
  <2>7. Upto(g)
    BY <2>2, <2>5, <2>6 DEF Follows
  <2>8. QED
    BY <2>7
<1>5. Upto(u)
  <2> HIDE DEF Upto
  <2>1. QED
    BY <1>4
<1>6. Number(digits) = u[N]
  BY DEF Number
<1>7. u = [i \in 0..N |-> u[i]] /\ u[0] = 0 /\ \A i \in 1..N : u[i] = Follows(digits[i], u[i - 1])
  <2>1. \A k \in 1..N : k \in 0..N /\ k # 0
    BY <1>1
  <2>2. 0 \in 0..N
    BY <1>1
  <2> HIDE DEF N, u
  <2>3. u = [i \in 0..N |-> u[i]] /\ u[0] = 0
    BY <1>5, <2>2
  <2>4. QED
    BY <1>5, <2>1, <2>3 DEF Follows
<1>8. Runs(S, 0, N, 0, step, u)
  <2>1. \A k \in 0 + 1..N : k \in 0..N /\ k # 0 /\ k \in 1..N
    BY <1>1
  <2> HIDE DEF N, S, u
  <2>2. \A k \in 0 + 1..N : u[k - 1] \in S => u[k] = step[k][u[k - 1]]
    BY <1>7, <2>1
  <2> HIDE DEF step
  <2>3. QED
    BY <1>3, <1>7, <2>2, RunsToo
<1>9. u \in [0..N -> S]
  <2> HIDE DEF N, S, u, step
  <2>1. QED
    BY <1>8 DEF Runs
<1>10. QED
  <2> HIDE DEF u
  <2>1. QED
    BY <1>6, <1>7, <1>9

\* Dividing by a power of ten drops the last digits.
LEMMA Tens ==
  ASSUME NEW n \in Nat, NEW k \in 1..4
  PROVE  n \div Powers[k + 1] = (n \div Powers[k]) \div 10
<1>1. Powers[1] = 1 /\ Powers[2] = 10 /\ Powers[3] = 100 /\ Powers[4] = 1000 /\ Powers[5] = 10000
  BY DEF Powers
<1>2. /\ n \div 10 = (n \div 1) \div 10
      /\ n \div 100 = (n \div 10) \div 10
      /\ n \div 1000 = (n \div 100) \div 10
      /\ n \div 10000 = (n \div 1000) \div 10
  OBVIOUS
<1>3. k = 1 \/ k = 2 \/ k = 3 \/ k = 4
  OBVIOUS
<1>4. QED
  BY <1>1, <1>2, <1>3

\* A number is read back from its digits.
LEMMA NumberOfDecimal ==
  ASSUME NEW n \in U16
  PROVE  Number(Decimal(n)) = n
<1>1. n \in Nat /\ n <= U16_MAX /\ n < TooBig
  <2>1. n \in Int /\ 0 <= n /\ n <= U16_MAX
    BY U16Def
  <2>2. U16_MAX \in Nat /\ TooBig \in Nat /\ U16_MAX < TooBig
    BY TooBigIs, U16MaxIs
  <2>3. QED
    BY <2>1, <2>2
<1>2. PICK w : IsWidth(n, w)
  BY <1>1, DecimalIs
<1> DEFINE d == Decimal(n)
           Q(i) == n \div Powers[w + 1 - i]
<1>3. /\ w \in 1..5 /\ d \in Seq(Digit) /\ Len(d) = w
      /\ \A i \in 1..w : d[i] = 48 + (Q(i) % 10)
      /\ w = 5 \/ n < Powers[w + 1]
  BY <1>2 DEF IsWidth
<1>4. PICK u \in [0..w -> 0..TooBig] :
        /\ u[0] = 0 /\ Number(d) = u[w]
        /\ \A i \in 1..w : u[i] = Follows(d[i], u[i - 1])
  <2>1. \E u \in [0..Len(d) -> 0..TooBig] :
          /\ u[0] = 0 /\ Number(d) = u[Len(d)]
          /\ \A i \in 1..Len(d) : u[i] = Follows(d[i], u[i - 1])
    <3> HIDE DEF d
    <3>1. QED
      BY <1>3, NumberRuns
  <2> HIDE DEF d, Q
  <2>2. QED
    BY <1>3, <2>1
<1> HIDE DEF d
<1>5. \A i \in 1..w : Q(i) \in Nat /\ Q(i) <= n
  <2>1. ASSUME NEW i \in 1..w PROVE Q(i) \in Nat /\ Q(i) <= n
    <3>1. w + 1 - i \in 1..5
      BY <1>3
    <3>2. PICK p \in Nat \ {0} : p = Powers[w + 1 - i]
      BY <3>1, PowersAre
    <3>3. n \div p \in Nat /\ n \div p <= n
      BY <1>1
    <3>4. QED
      BY <3>2, <3>3
  <2>2. QED
    BY <2>1
<1>6. Q(1) <= 9
  <2>1. w + 1 - 1 = w /\ w \in 1..5
    BY <1>3
  <2>2. CASE w = 5
    <3>1. Q(1) = n \div 10000
      BY <2>2 DEF Powers
    <3>2. n <= 256 * 255 + 255
      BY <1>1, U16MaxIs
    <3> HIDE DEF Q
    <3>3. QED
      BY <1>1, <3>1, <3>2
  <2>3. CASE w # 5
    <3>1. PICK p \in Nat \ {0} : p = Powers[w]
      BY <2>1, PowersAre
    <3>2. n < 10 * p
      <4>1. w \in 1..4
        BY <2>1, <2>3
      <4>2. Powers[w + 1] = 10 * p
        BY <3>1, <4>1, PowersAre
      <4>3. QED
        BY <1>3, <2>3, <4>2
    <3>3. n \div p <= 9
      <4>1. PICK q \in Nat : q = n \div p
        BY <1>1
      <4>2. p * q <= n
        BY <1>1, <4>1
      <4>3. q >= 10 => p * q >= p * 10
        BY <4>1
      <4>4. QED
        BY <1>1, <3>2, <4>1, <4>2, <4>3
    <3>4. QED
      BY <2>1, <3>1, <3>3
  <2>4. QED
    BY <2>2, <2>3
<1>7. \A i \in 1..w : i # 1 => Q(i - 1) = Q(i) \div 10
  <2>1. ASSUME NEW i \in 1..w, i # 1 PROVE Q(i - 1) = Q(i) \div 10
    <3>1. w + 1 - i \in 1..4 /\ w + 1 - (i - 1) = (w + 1 - i) + 1
      BY <1>3, <2>1
    <3>2. n \div Powers[(w + 1 - i) + 1] = (n \div Powers[w + 1 - i]) \div 10
      BY <1>1, <3>1, Tens
    <3>3. QED
      BY <3>1, <3>2
  <2>2. QED
    BY <2>1
<1> HIDE DEF Q
<1>8. \A i \in 1..w : Follows(d[i], IF i = 1 THEN 0 ELSE Q(i - 1)) = Q(i)
  <2>1. ASSUME NEW i \in 1..w PROVE Follows(d[i], IF i = 1 THEN 0 ELSE Q(i - 1)) = Q(i)
    <3>1. PICK q \in Nat : q = Q(i) /\ q <= n
      BY <1>5
    <3>2. d[i] = 48 + (q % 10)
      BY <1>3, <3>1
    <3>3. PICK b \in Nat : b = (IF i = 1 THEN 0 ELSE Q(i - 1)) /\ b = q \div 10
      <4>1. CASE i = 1
        <5>1. q <= 9
          BY <1>6, <3>1, <4>1
        <5>2. q \div 10 = 0
          BY <5>1
        <5>3. QED
          BY <4>1, <5>2
      <4>2. CASE i # 1
        <5>1. Q(i - 1) = q \div 10
          BY <1>7, <3>1, <4>2
        <5>2. QED
          BY <4>2, <5>1
      <4>3. QED
        BY <4>1, <4>2
    <3>4. 10 * b + (48 + (q % 10)) - 48 = q
      <4>1. b = q \div 10
        BY <3>3
      <4>2. 10 * (q \div 10) + (q % 10) = q
        OBVIOUS
      <4>3. QED
        BY <4>1, <4>2
    <3>5. q < TooBig
      BY <1>1, <3>1, TooBigIs
    <3>6. Follows(48 + (q % 10), b) = q
      BY <3>4, <3>5 DEF Follows
    <3>7. QED
      BY <3>1, <3>2, <3>3, <3>6
  <2>2. QED
    BY <2>1
<1>9. u[w] = Q(w)
  <2> DEFINE T == {i \in 1..w : u[i] # Q(i)}
  <2>1. SUFFICES ASSUME T # {} PROVE FALSE
    <3>1. w \in 1..w
      BY <1>3
    <3>2. QED
      BY <3>1
  <2>2. T \in SUBSET Nat
    OBVIOUS
  <2>3. PICK i \in T : \A j \in T : i <= j
    <3> HIDE DEF T
    <3>1. QED
      BY <2>1, <2>2, LeastElement
  <2>4. i \in 1..w /\ u[i] # Q(i)
    OBVIOUS
  <2>5. u[i - 1] = IF i = 1 THEN 0 ELSE Q(i - 1)
    <3>1. CASE i = 1
      BY <1>4, <3>1
    <3>2. CASE i # 1
      <4>1. i - 1 \in 1..w /\ ~(i <= i - 1)
        BY <1>3, <2>4, <3>2
      <4>2. i - 1 \notin T
        BY <2>3, <4>1
      <4>3. QED
        BY <3>2, <4>1, <4>2
    <3>3. QED
      BY <3>1, <3>2
  <2>6. u[i] = Follows(d[i], u[i - 1])
    BY <1>4, <2>4
  <2>7. QED
    BY <1>8, <2>4, <2>5, <2>6
<1>10. Q(w) = n
  <2>1. w + 1 - w = 1
    BY <1>3
  <2>2. Q(w) = n \div 1
    BY <2>1, PowersAre DEF Q
  <2>3. QED
    BY <1>1, <2>2
<1>11. QED
  BY <1>4, <1>9, <1>10 DEF d

\* Reading a number gives one that is small enough, or none.
LEMMA FromStrIs ==
  ASSUME NEW text \in Bytes, NEW max \in Nat
  PROVE  \/ from_str(text, max) = <<>>
         \/ \E m \in Nat : m <= max /\ from_str(text, max) = <<m>>
<1> DEFINE digits == IF text # <<>> /\ text[1] = Plus THEN Tail(text) ELSE text
<1>1. CASE ~(IsDigits(digits) /\ Number(digits) <= max)
  <2>1. from_str(text, max) = <<>>
    BY <1>1 DEF from_str
  <2>2. QED
    BY <2>1
<1>2. CASE IsDigits(digits) /\ Number(digits) <= max
  <2>1. from_str(text, max) = <<Number(digits)>>
    BY <1>2 DEF from_str
  <2>2. digits \in Seq(Digit)
    <3>1. digits \in Seq(Byte)
      BY DEF Bytes
    <3> HIDE DEF digits
    <3>2. ToSet(digits) \subseteq Digit
      BY <1>2 DEF IsDigits
    <3>3. \A i \in 1..Len(digits) : digits[i] \in Digit
      BY <3>1, <3>2 DEF ToSet
    <3>4. QED
      BY <3>1, <3>3
  <2>3. Number(digits) \in Nat
    <3> HIDE DEF digits
    <3>1. PICK u \in [0..Len(digits) -> 0..TooBig] : Number(digits) = u[Len(digits)]
      BY <2>2, NumberRuns
    <3>2. Len(digits) \in 0..Len(digits)
      BY <2>2
    <3>3. u[Len(digits)] \in 0..TooBig
      BY <3>1, <3>2
    <3>4. TooBig \in Nat
      BY TooBigIs
    <3>5. QED
      BY <3>1, <3>3, <3>4
  <2>4. QED
    BY <1>2, <2>1, <2>3
<1>3. QED
  BY <1>1, <1>2

\* The digits of a number are read as that number.
LEMMA FromDecimal ==
  ASSUME NEW n \in U16, NEW max \in Nat, n <= max
  PROVE  from_str(Decimal(n), max) = <<n>> /\ Decimal(n) \in Bytes
<1>1. n \in Nat
  BY U16Def
<1>2. PICK w : IsWidth(n, w)
  BY <1>1, DecimalIs
<1>3. w \in 1..5 /\ Decimal(n) \in Seq(Digit) /\ Len(Decimal(n)) = w
  BY <1>2 DEF IsWidth
<1>4. Decimal(n) # <<>> /\ Decimal(n)[1] \in Digit
  BY <1>3
<1>5. Decimal(n)[1] # Plus
  BY <1>4, DigitDef DEF Plus
<1>6. ToSet(Decimal(n)) \subseteq Digit
  BY <1>3 DEF ToSet
<1>7. Number(Decimal(n)) = n
  BY NumberOfDecimal
<1>8. from_str(Decimal(n), max) = <<n>>
  BY <1>4, <1>5, <1>6, <1>7 DEF from_str, IsDigits
<1>9. Decimal(n) \in Bytes
  <2>1. \A b \in Digit : b \in Byte
    BY DigitDef, ByteDef
  <2>2. QED
    BY <1>3, <2>1 DEF Bytes
<1>10. QED
  BY <1>8, <1>9

-----------------------------------------------------------------------------
(* Values by width: what encodes, and what is read back.                   *)

\* What encoding gives.
LEMMA EncodeByte ==
  ASSUME NEW value \in Bytes
  PROVE  \/ encode(1, value) = <<>>
         \/ \E m \in Byte : encode(1, value) = <<m>> /\ from_str(value, 255) = <<m>>
<1>1. encode(1, value) = from_str(value, 255)
  BY DEF encode
<1>2. QED
  BY <1>1, FromStrIs, ByteDef

\* A value of two bytes.
LEMMA EncodePair ==
  ASSUME NEW value \in Bytes
  PROVE  \/ encode(2, value) = <<>>
         \/ \E m \in U16 : encode(2, value) = be16(m) /\ from_str(value, U16_MAX) = <<m>>
<1>1. encode(2, value) = OrEmpty(EachTo(be16, from_str(value, U16_MAX)))
  BY DEF encode
<1>2. CASE from_str(value, U16_MAX) = <<>>
  <2>1. EachTo(be16, <<>>) = <<>>
    BY DEF EachTo
  <2>2. QED
    BY <1>1, <1>2, <2>1 DEF OrEmpty
<1>3. ASSUME NEW m \in Nat, m <= U16_MAX, from_str(value, U16_MAX) = <<m>>
      PROVE  m \in U16 /\ encode(2, value) = be16(m)
  <2>1. m \in U16
    BY <1>3, U16Def
  <2>2. EachTo(be16, <<m>>) = <<be16(m)>>
    BY DEF EachTo
  <2>3. OrEmpty(<<be16(m)>>) = be16(m)
    BY DEF OrEmpty
  <2>4. QED
    BY <1>1, <1>3, <2>1, <2>2, <2>3
<1>4. U16_MAX \in Nat
  BY U16MaxIs
<1>5. QED
  BY <1>2, <1>3, <1>4, FromStrIs

\* A value of another width is filled up with NULs or cut.
LEMMA EncodeText ==
  ASSUME NEW value \in Bytes, NEW length \in Nat \ {0, 1, 2, 4}
  PROVE  /\ encode(length, value) = Resize(value, length)
         /\ encode(length, value) \in Bytes /\ Len(encode(length, value)) = length
         /\ encode(length, value) # <<>>
<1>1. encode(length, value) = Resize(value, length)
  BY DEF encode
<1>2. \A i \in 1..length : (IF i <= Len(value) THEN value[i] ELSE 0) \in Byte
  <2>1. \A i \in 1..Len(value) : value[i] \in Byte
    BY DEF Bytes
  <2>2. 0 \in Byte /\ Len(value) \in Nat
    BY ByteDef DEF Bytes
  <2>3. QED
    BY <2>1, <2>2
<1>3. Resize(value, length) \in Bytes /\ Len(Resize(value, length)) = length
  BY <1>2 DEF Resize, Bytes
<1>4. QED
  BY <1>1, <1>3

\* A text is read up to its NUL.
LEMMA BeforeNulIs ==
  ASSUME NEW value \in Bytes
  PROVE  \E n \in 0..Len(value) :
           /\ BeforeNul(value) = SubSeq(value, 1, n)
           /\ BeforeNul(value) \in Bytes /\ Len(BeforeNul(value)) = n
           /\ \A i \in 1..n : value[i] # 0 /\ BeforeNul(value)[i] = value[i]
           /\ n = Len(value) \/ value[n + 1] = 0
<1> DEFINE T == {i \in DOMAIN value : value[i] = 0} \cup {Len(value) + 1}
           m == Min(T)
<1>1. DOMAIN value = 1..Len(value) /\ Len(value) \in Nat /\ \A i \in 1..Len(value) : value[i] \in Byte
  BY DEF Bytes
<1>2. T \in SUBSET Nat /\ T # {}
  BY <1>1
<1>3. m \in T /\ \A i \in T : m <= i
  <2> HIDE DEF T
  <2>1. QED
    BY <1>2, MinIs
<1>4. BeforeNul(value) = SubSeq(value, 1, m - 1)
  BY DEF BeforeNul
<1> HIDE DEF m
<1>5. m \in 1..Len(value) + 1 /\ (m = Len(value) + 1 \/ value[m] = 0)
  BY <1>1, <1>3
<1>6. ASSUME NEW i \in 1..m - 1 PROVE i \in 1..Len(value) /\ value[i] # 0
  <2>1. i \in 1..Len(value) /\ ~(m <= i)
    BY <1>1, <1>5
  <2>2. i \notin T
    BY <1>3, <2>1
  <2>3. QED
    BY <1>1, <2>1, <2>2
<1> HIDE DEF T
<1>7. PICK n \in 0..Len(value) : n = m - 1 /\ n + 1 = m
  <2>1. m - 1 \in 0..Len(value) /\ (m - 1) + 1 = m
    BY <1>1, <1>5
  <2>2. QED
    BY <2>1
<1>8. SubSeq(value, 1, n) \in Bytes /\ Len(SubSeq(value, 1, n)) = n
      /\ \A i \in 1..n : SubSeq(value, 1, n)[i] = value[i]
  BY <1>7 DEF Bytes
<1>9. n = Len(value) \/ value[n + 1] = 0
  BY <1>1, <1>5, <1>7
<1>10. QED
  BY <1>4, <1>6, <1>7, <1>8, <1>9

\* Texts that agree up to the NUL that ends them are read alike.
LEMMA BeforeNulUnique ==
  ASSUME NEW value \in Bytes, NEW text \in Bytes, Len(text) <= Len(value),
         \A i \in 1..Len(text) : text[i] # 0 /\ value[i] = text[i],
         Len(text) = Len(value) \/ value[Len(text) + 1] = 0
  PROVE  BeforeNul(value) = text
<1>1. PICK n \in 0..Len(value) :
           /\ BeforeNul(value) \in Bytes /\ Len(BeforeNul(value)) = n
           /\ \A i \in 1..n : value[i] # 0 /\ BeforeNul(value)[i] = value[i]
           /\ n = Len(value) \/ value[n + 1] = 0
  BY BeforeNulIs
<1>2. Len(text) \in Nat /\ Len(value) \in Nat
  BY DEF Bytes
<1>3. n = Len(text)
  <2>1. ASSUME n < Len(text) PROVE FALSE
    <3>1. n + 1 \in 1..Len(text)
      BY <1>2, <2>1
    <3>2. value[n + 1] # 0 /\ n # Len(value)
      BY <1>2, <2>1, <3>1
    <3>3. QED
      BY <1>1, <3>2
  <2>2. ASSUME Len(text) < n PROVE FALSE
    <3>1. Len(text) + 1 \in 1..n
      BY <1>2, <2>2
    <3>2. value[Len(text) + 1] # 0 /\ Len(text) # Len(value)
      BY <1>1, <1>2, <2>2, <3>1
    <3>3. QED
      BY <3>2
  <2>3. QED
    BY <1>2, <2>1, <2>2
<1>4. \A i \in 1..n : BeforeNul(value)[i] = text[i]
  BY <1>1, <1>3
<1>5. QED
  BY <1>1, <1>3, <1>4 DEF Bytes

\* What a device makes of the bytes it is sent is a value it can send again.
LEMMA StoredByte ==
  ASSUME NEW m \in Byte
  PROVE  /\ format_value(<<m>>) = Decimal(m) /\ encode(1, Decimal(m)) = <<m>>
         /\ Stored(1, format_value(<<m>>))
<1>1. format_value(<<m>>) = Decimal(m)
  BY DEF format_value
<1>2. m \in U16 /\ m <= 255 /\ m \in Nat
  BY ByteDef, U16Def, U16MaxIs
<1>3. from_str(Decimal(m), 255) = <<m>> /\ Decimal(m) \in Bytes
  BY <1>2, FromDecimal
<1>4. encode(1, Decimal(m)) = <<m>>
  BY <1>3 DEF encode
<1>5. <<m>> # <<>>
  OBVIOUS
<1>6. QED
  BY <1>1, <1>3, <1>4, <1>5 DEF Stored

\* So with two bytes.
LEMMA StoredPair ==
  ASSUME NEW m \in U16
  PROVE  /\ format_value(be16(m)) = Decimal(m) /\ encode(2, Decimal(m)) = be16(m)
         /\ Stored(2, format_value(be16(m)))
<1>1. Len(be16(m)) = 2 /\ u16_at(be16(m), 1) = m /\ be16(m) # <<>>
  BY Be16Is
<1>2. format_value(be16(m)) = Decimal(m)
  BY <1>1 DEF format_value
<1>3. m <= U16_MAX /\ U16_MAX \in Nat
  BY U16Def, U16MaxIs
<1>4. from_str(Decimal(m), U16_MAX) = <<m>> /\ Decimal(m) \in Bytes
  BY <1>3, FromDecimal
<1>5. encode(2, Decimal(m)) = be16(m)
  <2>1. encode(2, Decimal(m)) = OrEmpty(EachTo(be16, <<m>>))
    BY <1>4 DEF encode
  <2>2. EachTo(be16, <<m>>) = <<be16(m)>>
    BY DEF EachTo
  <2>3. OrEmpty(<<be16(m)>>) = be16(m)
    BY DEF OrEmpty
  <2>4. QED
    BY <2>1, <2>2, <2>3
<1>6. QED
  BY <1>1, <1>2, <1>4, <1>5 DEF Stored

\* And with a text.
LEMMA StoredText ==
  ASSUME NEW value \in Bytes, NEW length \in Nat \ {0, 1, 2, 4}, Len(value) = length
  PROVE  format_value(value) = BeforeNul(value) /\ Stored(length, format_value(value))
<1>1. format_value(value) = BeforeNul(value)
  BY DEF format_value
<1>2. PICK n \in 0..Len(value) :
           /\ BeforeNul(value) \in Bytes /\ Len(BeforeNul(value)) = n
           /\ \A i \in 1..n : value[i] # 0 /\ BeforeNul(value)[i] = value[i]
           /\ n = Len(value) \/ value[n + 1] = 0
  BY BeforeNulIs
<1> DEFINE text == BeforeNul(value)
           again == encode(length, text)
<1>3. again = Resize(text, length) /\ again \in Bytes /\ Len(again) = length /\ again # <<>>
  BY <1>2, EncodeText
<1>4. \A i \in 1..length : again[i] = IF i <= Len(text) THEN text[i] ELSE 0
  BY <1>3 DEF Resize
<1> HIDE DEF text, again
<1>5. BeforeNul(again) = text
  <2>1. text \in Bytes /\ Len(text) <= Len(again) /\ n \in Nat /\ Len(text) = n /\ n <= length
    BY <1>2, <1>3 DEF text
  <2>2. \A i \in 1..Len(text) : text[i] # 0 /\ again[i] = text[i]
    BY <1>2, <1>4, <2>1 DEF text
  <2>3. Len(text) = Len(again) \/ again[Len(text) + 1] = 0
    BY <1>3, <1>4, <2>1
  <2>4. QED
    BY <1>3, <2>1, <2>2, <2>3, BeforeNulUnique
<1>6. format_value(again) = BeforeNul(again)
  BY <1>3 DEF format_value
<1>7. text \in Bytes
  BY <1>2 DEF text
<1>8. Stored(length, text)
  BY <1>3, <1>5, <1>6, <1>7 DEF Stored, again
<1>9. QED
  BY <1>1, <1>8 DEF text

-----------------------------------------------------------------------------
(* Addresses: four numbers and three dots.                                 *)

\* The elements of a set of three numbers, in order.
LEMMA ThirdOfThree ==
  ASSUME NEW T \in SUBSET Nat, IsFiniteSet(T), Cardinality(T) = 3
  PROVE  /\ Nth(T, 1) \in T /\ Nth(T, 2) \in T /\ Nth(T, 3) \in T
         /\ Nth(T, 1) < Nth(T, 2) /\ Nth(T, 2) < Nth(T, 3)
<1> DEFINE f == [x \in T |-> x]
           rank(x) == Rank(T, f, x)
<1>1. Keyed(T, f)
  BY DEF Keyed
<1>2. \A x \in T : {y \in T : f[y] < f[x]} = {y \in T : y < x}
  OBVIOUS
<1>3. Ranked(T, f)
  <2> HIDE DEF f
  <2>1. QED
    BY <1>1, Ranks
<1>4. \A x, y \in T : x < y => rank(x) < rank(y)
  <2>1. \A x, y \in T : x < y => f[x] < f[y]
    OBVIOUS
  <2> HIDE DEF f
  <2>2. QED
    BY <1>3, <2>1 DEF Ranked
<1>5. \A k \in 1..3 : \E x \in T : rank(x) = k - 1
  <2> HIDE DEF f
  <2>1. QED
    BY <1>3 DEF Ranked
<1> HIDE DEF f
<1>6. \A k \in 1..3 : Nth(T, k) \in T /\ rank(Nth(T, k)) = k - 1
  <2> HIDE DEF rank
  <2>1. ASSUME NEW k \in 1..3 PROVE Nth(T, k) \in T /\ rank(Nth(T, k)) = k - 1
    <3>1. Nth(T, k) = CHOOSE n \in T : rank(n) = k - 1
      <4> DEFINE card(n) == Cardinality({m \in T : m < n})
      <4>1. \A n \in T : card(n) = rank(n)
        BY <1>2 DEF rank, Rank
      <4>2. Nth(T, k) = CHOOSE n \in T : card(n) = k - 1
        BY DEF Nth
      <4> HIDE DEF card
      <4>3. QED
        BY <4>1, <4>2
    <3>2. \E x \in T : rank(x) = k - 1
      BY <1>5
    <3>3. QED
      BY <3>1, <3>2
  <2>2. QED
    BY <2>1
<1> HIDE DEF rank
<1>7. PICK a \in T, b \in T, c \in T : a = Nth(T, 1) /\ b = Nth(T, 2) /\ c = Nth(T, 3)
  <2>1. Nth(T, 1) \in T /\ Nth(T, 2) \in T /\ Nth(T, 3) \in T
    BY <1>6
  <2>2. QED
    BY <2>1, Zenon
<1>8. rank(a) = 0 /\ rank(b) = 1 /\ rank(c) = 2
  BY <1>6, <1>7
<1>9. a < b
  <2>1. ~(b < a) /\ a # b
    BY <1>4, <1>8
  <2>2. QED
    BY <2>1
<1>10. b < c
  <2>1. ~(c < b) /\ b # c
    BY <1>4, <1>8
  <2>2. QED
    BY <2>1
<1>11. QED
  BY <1>7, <1>9, <1>10

Three(T, a, b, c) ==
  a \in Nat /\ b \in Nat /\ c \in Nat /\ a < b /\ b < c /\ T = {a, b, c}

\* Three numbers in their order are the three that Nth picks.
LEMMA ThreeInOrder ==
  ASSUME NEW T, NEW a, NEW b, NEW c, Three(T, a, b, c)
  PROVE  /\ Nth(T, 1) = a /\ Nth(T, 2) = b /\ Nth(T, 3) = c
         /\ IsFiniteSet(T) /\ Cardinality(T) = 3
<1>4. a \in Nat /\ b \in Nat /\ c \in Nat /\ a < b /\ b < c /\ T = {a, b, c}
  BY DEF Three
<1>1. IsFiniteSet(T) /\ Cardinality(T) = 3
  <2>1. IsFiniteSet({}) /\ Cardinality({}) = 0
    BY FS_EmptySet
  <2>2. IsFiniteSet({} \cup {a}) /\ Cardinality({} \cup {a}) = 1
    BY <1>4, <2>1, FS_AddElement
  <2>3. IsFiniteSet({} \cup {a} \cup {b}) /\ Cardinality({} \cup {a} \cup {b}) = 2
    BY <1>4, <2>2, FS_AddElement
  <2>4. IsFiniteSet({} \cup {a} \cup {b} \cup {c}) /\ Cardinality({} \cup {a} \cup {b} \cup {c}) = 3
    BY <1>4, <2>3, FS_AddElement
  <2>5. T = {} \cup {a} \cup {b} \cup {c}
    BY <1>4
  <2>6. QED
    BY <2>4, <2>5
<1>2. /\ Nth(T, 1) \in T /\ Nth(T, 2) \in T /\ Nth(T, 3) \in T
      /\ Nth(T, 1) < Nth(T, 2) /\ Nth(T, 2) < Nth(T, 3)
  <2>1. T \in SUBSET Nat
    BY <1>4
  <2>2. QED
    BY <1>1, <2>1, ThirdOfThree
<1>3. QED
  BY <1>1, <1>2, <1>4

\* A part of a text around one of its places.
LEMMA AroundIs ==
  ASSUME NEW S, NEW text \in Seq(S), NEW d \in 1..Len(text), NEW b \in d..Len(text)
  PROVE  SubSeq(text, 1, b) = Append(SubSeq(text, 1, d - 1), text[d]) \o SubSeq(text, d + 1, b)
OBVIOUS

Octets == [1..4 -> Byte]

\* An address that is read is printed as it was.
LEMMA DottedOfIpv4 ==
  ASSUME NEW text \in Bytes
  PROVE  \/ Ipv4(text) = <<>>
         \/ \E o \in Octets : Ipv4(text) = <<o>> /\ Dotted(o) = text
<1> DEFINE dots == {i \in DOMAIN text : text[i] = Dot}
           First(k) == IF k = 1 THEN 1 ELSE Nth(dots, k - 1) + 1
           Final(k) == IF k = 4 THEN Len(text) ELSE Nth(dots, k) - 1
           parts == [k \in 1..4 |-> SubSeq(text, First(k), Final(k))]
           IsOctet(f) == IsDigits(f) /\ Number(f) \in Byte /\ f = Decimal(Number(f))
           o == [k \in 1..4 |-> Number(parts[k])]
           C == Cardinality(dots) = 3 /\ \A k \in 1..4 : IsOctet(parts[k])
<1>1. Ipv4(text) = IF C THEN <<o>> ELSE <<>>
  BY DEF Ipv4
<1>2. ASSUME C PROVE o \in Octets /\ Dotted(o) = text
  <2>1. \A k \in 1..4 : Number(parts[k]) \in Byte /\ parts[k] = Decimal(Number(parts[k]))
    BY <1>2
  <2>2. o \in Octets
    <3> HIDE DEF parts
    <3>1. QED
      BY <2>1 DEF Octets
  <2>3. \A k \in 1..4 : Decimal(o[k]) = parts[k]
    <3> HIDE DEF parts
    <3>1. QED
      BY <2>1
  <2> DEFINE n == Len(text)
  <2>4. n \in Nat /\ dots \in SUBSET (1..n) /\ dots \in SUBSET Nat /\ DOMAIN text = 1..n
    BY DEF Bytes
  <2>5. IsFiniteSet(dots)
    <3>1. IsFiniteSet(1..n)
      BY <2>4, FS_Interval
    <3> HIDE DEF dots, n
    <3>2. QED
      BY <2>4, <3>1, FS_Subset
  <2>6. PICK a \in dots, b \in dots, c \in dots :
          a = Nth(dots, 1) /\ b = Nth(dots, 2) /\ c = Nth(dots, 3) /\ a < b /\ b < c
    <3> HIDE DEF dots
    <3>1. /\ Nth(dots, 1) \in dots /\ Nth(dots, 2) \in dots /\ Nth(dots, 3) \in dots
          /\ Nth(dots, 1) < Nth(dots, 2) /\ Nth(dots, 2) < Nth(dots, 3)
      BY <1>2, <2>4, <2>5, ThirdOfThree
    <3>2. QED
      BY <3>1, Zenon
  <2>7. text[a] = Dot /\ text[b] = Dot /\ text[c] = Dot
        /\ a \in 1..n /\ b \in 1..n /\ c \in 1..n
    BY <2>4
  <2>8. /\ parts[1] = SubSeq(text, 1, a - 1)
        /\ parts[2] = SubSeq(text, a + 1, b - 1)
        /\ parts[3] = SubSeq(text, b + 1, c - 1)
        /\ parts[4] = SubSeq(text, c + 1, n)
    <3>1. First(1) = 1 /\ First(2) = a + 1 /\ First(3) = b + 1 /\ First(4) = c + 1
      <4> HIDE DEF dots
      <4>1. QED
        BY <2>6
    <3>2. Final(1) = a - 1 /\ Final(2) = b - 1 /\ Final(3) = c - 1 /\ Final(4) = n
      <4> HIDE DEF dots
      <4>1. QED
        BY <2>6
    <3> HIDE DEF First, Final
    <3>3. \A k \in 1..4 : parts[k] = SubSeq(text, First(k), Final(k))
      OBVIOUS
    <3> HIDE DEF parts
    <3>4. 1 \in 1..4 /\ 2 \in 1..4 /\ 3 \in 1..4 /\ 4 \in 1..4
      OBVIOUS
    <3>5. QED
      BY <3>1, <3>2, <3>3, <3>4, Zenon
  <2> HIDE DEF parts, dots
  <2>9. a \in 1..b - 1 /\ b \in 1..c - 1 /\ b - 1 \in a..n /\ c - 1 \in b..n
    BY <2>4, <2>6, <2>7
  <2>10. SubSeq(text, 1, n) = Append(SubSeq(text, 1, c - 1), Dot) \o parts[4]
    <3>1. n \in c..n
      BY <2>4, <2>7
    <3>2. QED
      BY <2>7, <2>8, <3>1, AroundIs DEF Bytes
  <2>11. SubSeq(text, 1, c - 1) = Append(SubSeq(text, 1, b - 1), Dot) \o parts[3]
    BY <2>7, <2>8, <2>9, AroundIs DEF Bytes
  <2>12. SubSeq(text, 1, b - 1) = Append(parts[1], Dot) \o parts[2]
    BY <2>7, <2>8, <2>9, AroundIs DEF Bytes
  <2>13. SubSeq(text, 1, n) = text
    BY DEF Bytes
  <2>14. Dotted(o) = parts[1] \o <<Dot>> \o parts[2] \o <<Dot>> \o parts[3] \o <<Dot>> \o parts[4]
    <3>1. Decimal(o[1]) = parts[1] /\ Decimal(o[2]) = parts[2]
          /\ Decimal(o[3]) = parts[3] /\ Decimal(o[4]) = parts[4]
      BY <2>3
    <3> HIDE DEF o
    <3>2. QED
      BY <3>1, Zenon DEF Dotted
  <2>15. \A s : s \in Bytes => s \o <<Dot>> = Append(s, Dot)
    BY DEF Bytes
  <2>16. QED
    <3>1. parts[1] \in Bytes
      BY <2>8, <2>9 DEF Bytes
    <3>2. parts[1] \o <<Dot>> = Append(parts[1], Dot)
      BY <2>15, <3>1
    <3>3. SubSeq(text, 1, b - 1) \in Bytes /\ SubSeq(text, 1, c - 1) \in Bytes
      BY <2>9 DEF Bytes
    <3>4. parts[1] \o <<Dot>> \o parts[2] = SubSeq(text, 1, b - 1)
      BY <2>12, <3>2
    <3>5. SubSeq(text, 1, b - 1) \o <<Dot>> \o parts[3] = SubSeq(text, 1, c - 1)
      BY <2>11, <2>15, <3>3
    <3>6. SubSeq(text, 1, c - 1) \o <<Dot>> \o parts[4] = text
      BY <2>10, <2>13, <2>15, <3>3
    <3>7. QED
      BY <2>2, <2>14, <3>4, <3>5, <3>6, Zenon
<1>3. QED
  <2> HIDE DEF C, o
  <2>1. QED
    BY <1>1, <1>2

\* A part of a sequence that agrees with another is that one.
IsPart(part, text, p, w, first, final) ==
  /\ text \in Bytes /\ part \in Bytes /\ w = Len(part) /\ p \in Nat
  /\ first = p + 1 /\ final = p + w /\ final <= Len(text)
  /\ \A i \in 1..w : text[p + i] = part[i]

IsCut(part, text, first, final) == part = SubSeq(text, first, final)

\* Such a part is what SubSeq cuts out.
LEMMA PartIs ==
  ASSUME NEW text, NEW part, NEW w, NEW p, NEW first, NEW final,
         IsPart(part, text, p, w, first, final)
  PROVE  IsCut(part, text, first, final)
<1> USE DEF IsPart, Bytes
<1> DEFINE s == SubSeq(text, first, final)
<1>1. s \in Bytes /\ Len(s) = w
  OBVIOUS
<1>2. \A i \in 1..w : s[i] = text[p + i]
  OBVIOUS
<1>3. part \in Bytes /\ Len(part) = w /\ \A i \in 1..w : part[i] = text[p + i]
  OBVIOUS
<1> HIDE DEF s, IsPart
<1>4. s = part
  BY <1>1, <1>2, <1>3
<1>5. QED
  BY <1>4 DEF s, IsCut

\* Two texts with a dot between them.
IsJoin(j, s, w, p, q) ==
  /\ j \in Bytes /\ Len(j) = p + 1 + q
  /\ \A i \in 1..p : j[i] = s[i]
  /\ j[p + 1] = Dot
  /\ \A i \in 1..q : j[p + 1 + i] = w[i]

\* Where the characters of two texts with a dot between them are.
LEMMA JoinIs ==
  ASSUME NEW s \in Bytes, NEW w \in Bytes, NEW p, NEW q, p = Len(s), q = Len(w)
  PROVE  IsJoin(s \o <<Dot>> \o w, s, w, p, q)
<1> DEFINE a == s \o <<Dot>>
           j == a \o w
<1>1. p \in Nat /\ q \in Nat /\ Dot \in Byte
  BY ByteDef DEF Bytes, Dot
<1>2. a \in Bytes /\ Len(a) = p + 1 /\ a[p + 1] = Dot /\ \A i \in 1..p : a[i] = s[i]
  BY <1>1 DEF Bytes
<1> HIDE DEF a
<1>3. /\ j \in Bytes /\ Len(j) = Len(a) + Len(w)
      /\ \A i \in 1..Len(a) : j[i] = a[i]
      /\ \A i \in 1..Len(w) : j[Len(a) + i] = w[i]
  <2>1. IsConcat(Byte, j, a, w)
    BY <1>2, Concatenation, Zenon DEF Bytes
  <2> HIDE DEF j
  <2>2. QED
    BY <2>1 DEF IsConcat, Bytes
<1> HIDE DEF j
<1>4. p + 1 \in 1..Len(a) /\ \A i \in 1..p : i \in 1..Len(a)
  BY <1>1, <1>2
<1>5. IsJoin(j, s, w, p, q)
  BY <1>1, <1>2, <1>3, <1>4 DEF IsJoin
<1>6. QED
  BY <1>5 DEF a, j

\* The digits of a byte.
LEMMA OctetIs ==
  ASSUME NEW m \in Byte
  PROVE  /\ Decimal(m) \in Bytes /\ Len(Decimal(m)) \in Nat \ {0}
         /\ \A i \in 1..Len(Decimal(m)) : Decimal(m)[i] # Dot
         /\ IsDigits(Decimal(m)) /\ Number(Decimal(m)) = m
<1>1. m \in U16 /\ m \in Nat /\ m <= 255
  BY ByteDef, U16Def, U16MaxIs
<1>2. PICK w : IsWidth(m, w)
  BY <1>1, DecimalIs
<1>3. w \in 1..5 /\ Decimal(m) \in Seq(Digit) /\ Len(Decimal(m)) = w
  BY <1>2 DEF IsWidth
<1>4. Number(Decimal(m)) = m /\ Decimal(m) \in Bytes
  BY <1>1, NumberOfDecimal, FromDecimal
<1>5. \A i \in 1..Len(Decimal(m)) : Decimal(m)[i] \in Digit
  BY <1>3
<1>6. Dot \notin Digit
  BY DigitDef DEF Dot
<1>7. IsDigits(Decimal(m))
  BY <1>3 DEF IsDigits, ToSet
<1>8. QED
  BY <1>3, <1>4, <1>5, <1>6, <1>7

\* Four texts with dots between them.
Joined(d) == d[1] \o <<Dot>> \o d[2] \o <<Dot>> \o d[3] \o <<Dot>> \o d[4]

Undotted(d) == d \in [1..4 -> Bytes] /\ \A k \in 1..4 : \A i \in 1..Len(d[k]) : d[k][i] # Dot

InFour(text, d) ==
  \E a, b, c \in 1..Len(text) :
    /\ text \in Bytes /\ a < b /\ b < c
    /\ {i \in DOMAIN text : text[i] = Dot} = {a, b, c}
    /\ d[1] = SubSeq(text, 1, a - 1) /\ d[2] = SubSeq(text, a + 1, b - 1)
    /\ d[3] = SubSeq(text, b + 1, c - 1) /\ d[4] = SubSeq(text, c + 1, Len(text))

\* Such a text falls into its four parts at its three dots.
LEMMA FourParts ==
  ASSUME NEW d, Undotted(d), NEW text, text = Joined(d)
  PROVE  InFour(text, d)
<1> DEFINE j1 == d[1] \o <<Dot>> \o d[2]
           j2 == j1 \o <<Dot>> \o d[3]
<1>1. PICK d1 \in Bytes, d2 \in Bytes, d3 \in Bytes, d4 \in Bytes :
        d1 = d[1] /\ d2 = d[2] /\ d3 = d[3] /\ d4 = d[4]
  <2>1. d[1] \in Bytes /\ d[2] \in Bytes /\ d[3] \in Bytes /\ d[4] \in Bytes
    BY DEF Undotted
  <2>2. QED
    BY <2>1, Zenon
<1>2. PICK w1 \in Nat, w2 \in Nat, w3 \in Nat, w4 \in Nat :
        w1 = Len(d1) /\ w2 = Len(d2) /\ w3 = Len(d3) /\ w4 = Len(d4)
  <2>1. Len(d1) \in Nat /\ Len(d2) \in Nat /\ Len(d3) \in Nat /\ Len(d4) \in Nat
    BY DEF Bytes
  <2>2. QED
    BY <2>1, Zenon
<1>3. Dot \in Byte
  BY ByteDef DEF Dot
<1> DEFINE v1 == w1 + 1 + w2
           v2 == v1 + 1 + w3
<1>4. IsJoin(j1, d1, d2, w1, w2)
  <2>1. j1 = d1 \o <<Dot>> \o d2
    BY <1>1, Zenon
  <2>2. IsJoin(d1 \o <<Dot>> \o d2, d1, d2, w1, w2)
    BY <1>2, JoinIs, Zenon
  <2>3. QED
    BY <2>1, <2>2, Zenon
<1>5. IsJoin(j2, j1, d3, v1, w3)
  <2>1. j2 = j1 \o <<Dot>> \o d3
    BY <1>1, Zenon
  <2>2. j1 \in Bytes /\ v1 = Len(j1)
    BY <1>4 DEF IsJoin
  <2> HIDE DEF j1, v1
  <2>3. IsJoin(j1 \o <<Dot>> \o d3, j1, d3, v1, w3)
    BY <1>2, <2>2, JoinIs, Zenon
  <2>4. QED
    BY <2>1, <2>3, Zenon
<1>6. IsJoin(text, j2, d4, v2, w4)
  <2>1. text = j2 \o <<Dot>> \o d4
    BY <1>1, Zenon DEF Joined
  <2>2. j2 \in Bytes /\ v2 = Len(j2)
    BY <1>5 DEF IsJoin
  <2> HIDE DEF j2, v2
  <2>3. IsJoin(j2 \o <<Dot>> \o d4, j2, d4, v2, w4)
    BY <1>2, <2>2, JoinIs, Zenon
  <2>4. QED
    BY <2>1, <2>3, Zenon
<1> HIDE DEF j1, j2
<1> DEFINE a == w1 + 1
           b == w1 + w2 + 2
           c == w1 + w2 + w3 + 3
           n == w1 + w2 + w3 + w4 + 3
<1>7. /\ Len(text) = n
      /\ \A i \in 1..w1 : text[i] = d1[i]
      /\ text[a] = Dot
      /\ \A i \in 1..w2 : text[a + i] = d2[i]
      /\ text[b] = Dot
      /\ \A i \in 1..w3 : text[b + i] = d3[i]
      /\ text[c] = Dot
      /\ \A i \in 1..w4 : text[c + i] = d4[i]
  <2>1. Len(text) = n /\ text[c] = Dot /\ \A i \in 1..w4 : text[c + i] = d4[i]
    <3>1. v2 + 1 + w4 = n /\ v2 + 1 = c
      OBVIOUS
    <3> HIDE DEF v2, n, c
    <3>2. QED
      BY <1>6, <3>1 DEF IsJoin
  <2>2. text[b] = Dot /\ \A i \in 1..w3 : text[b + i] = d3[i]
    <3>1. v1 + 1 = b /\ b \in 1..v2 /\ \A i \in 1..w3 : b + i \in 1..v2
      OBVIOUS
    <3> HIDE DEF v1, v2, b
    <3>2. QED
      BY <1>5, <1>6, <3>1 DEF IsJoin
  <2>3. \A i \in 1..v1 : text[i] = j1[i]
    <3>1. \A i \in 1..v1 : i \in 1..v2
      OBVIOUS
    <3> HIDE DEF v1, v2
    <3>2. QED
      BY <1>5, <1>6, <3>1 DEF IsJoin
  <2>4. text[a] = Dot /\ \A i \in 1..w2 : text[a + i] = d2[i]
    <3>1. a \in 1..v1 /\ \A i \in 1..w2 : a + i \in 1..v1
      OBVIOUS
    <3> HIDE DEF v1
    <3>2. QED
      BY <1>4, <2>3, <3>1 DEF IsJoin
  <2>5. \A i \in 1..w1 : text[i] = d1[i]
    <3>1. \A i \in 1..w1 : i \in 1..v1
      OBVIOUS
    <3> HIDE DEF v1
    <3>2. QED
      BY <1>4, <2>3, <3>1 DEF IsJoin
  <2>6. QED
    BY <2>1, <2>2, <2>4, <2>5
<1> HIDE DEF v1, v2
<1>77. text \in Bytes
  BY <1>6 DEF IsJoin
<1>8. a \in 1..n /\ b \in 1..n /\ c \in 1..n /\ a < b /\ b < c
  OBVIOUS
<1>9. d1 = SubSeq(text, 1, a - 1) /\ d2 = SubSeq(text, a + 1, b - 1)
      /\ d3 = SubSeq(text, b + 1, c - 1) /\ d4 = SubSeq(text, c + 1, Len(text))
  <2>1. /\ a - 1 <= Len(text) /\ b - 1 <= Len(text) /\ c - 1 <= Len(text) /\ n <= Len(text)
        /\ a - 1 = 0 + w1 /\ b - 1 = a + w2 /\ c - 1 = b + w3 /\ n = c + w4
        /\ a \in Nat /\ b \in Nat /\ c \in Nat
    <3>1. Len(text) = n
      BY <1>7
    <3>2. QED
      BY <3>1
  <2>2. \A i \in 1..w1 : text[0 + i] = d1[i]
    <3>1. \A i \in 1..w1 : 0 + i = i
      OBVIOUS
    <3>2. QED
      BY <1>7, <3>1, Zenon
  <2> HIDE DEF a, b, c, n
  <2>8. 0 \in Nat /\ 1 = 0 + 1 /\ text \in Bytes
    BY <1>77
  <2>3. IsCut(d1, text, 1, a - 1)
    <3>1. IsPart(d1, text, 0, w1, 1, a - 1)
      BY <1>2, <1>7, <2>1, <2>2, <2>8, Zenon DEF IsPart
    <3>2. QED
      BY <3>1, PartIs, Zenon
  <2>4. IsCut(d2, text, a + 1, b - 1)
    <3>1. IsPart(d2, text, a, w2, a + 1, b - 1)
      BY <1>2, <1>7, <2>1, <2>2, <2>8, Zenon DEF IsPart
    <3>2. QED
      BY <3>1, PartIs, Zenon
  <2>5. IsCut(d3, text, b + 1, c - 1)
    <3>1. IsPart(d3, text, b, w3, b + 1, c - 1)
      BY <1>2, <1>7, <2>1, <2>2, <2>8, Zenon DEF IsPart
    <3>2. QED
      BY <3>1, PartIs, Zenon
  <2>6. IsCut(d4, text, c + 1, n)
    <3>1. IsPart(d4, text, c, w4, c + 1, n)
      BY <1>2, <1>7, <2>1, <2>2, <2>8, Zenon DEF IsPart
    <3>2. QED
      BY <3>1, PartIs, Zenon
  <2>7. QED
    BY <1>7, <2>3, <2>4, <2>5, <2>6, Zenon DEF IsCut
<1>10. \A k \in 1..4 : \A i \in 1..Len(d[k]) : d[k][i] # Dot
  BY DEF Undotted
<1>11. /\ \A i \in 1..w1 : d1[i] # Dot
       /\ \A i \in 1..w2 : d2[i] # Dot
       /\ \A i \in 1..w3 : d3[i] # Dot
       /\ \A i \in 1..w4 : d4[i] # Dot
  <2>1. 1 \in 1..4 /\ 2 \in 1..4 /\ 3 \in 1..4 /\ 4 \in 1..4
    OBVIOUS
  <2>2. QED
    BY <1>1, <1>2, <1>10, <2>1, Zenon
<1>12. ASSUME NEW i \in 1..n, text[i] = Dot PROVE i \in {a, b, c}
  <2>1. CASE i < a
    <3>1. i \in 1..w1
      BY <2>1
    <3>2. QED
      BY <1>7, <1>11, <1>12, <3>1
  <2>2. CASE a < i /\ i < b
    <3>1. PICK m \in 1..w2 : i = a + m
      <4>1. i - a \in 1..w2 /\ i = a + (i - a)
        BY <2>2
      <4>2. QED
        BY <4>1
    <3> HIDE DEF a, b, c, n
    <3>2. QED
      BY <1>7, <1>11, <1>12, <3>1, Zenon
  <2>3. CASE b < i /\ i < c
    <3>1. PICK m \in 1..w3 : i = b + m
      <4>1. i - b \in 1..w3 /\ i = b + (i - b)
        BY <2>3
      <4>2. QED
        BY <4>1
    <3> HIDE DEF a, b, c, n
    <3>2. QED
      BY <1>7, <1>11, <1>12, <3>1, Zenon
  <2>4. CASE c < i
    <3>1. PICK m \in 1..w4 : i = c + m
      <4>1. i - c \in 1..w4 /\ i = c + (i - c)
        BY <2>4
      <4>2. QED
        BY <4>1
    <3> HIDE DEF a, b, c, n
    <3>2. QED
      BY <1>7, <1>11, <1>12, <3>1, Zenon
  <2>5. QED
    BY <2>1, <2>2, <2>3, <2>4
<1>13. DOMAIN text = 1..n
  BY <1>7, <1>77 DEF Bytes
<1> HIDE DEF a, b, c, n
<1>14. {i \in DOMAIN text : text[i] = Dot} = {a, b, c}
  BY <1>7, <1>8, <1>12, <1>13
<1>15. QED
  <2>1. a \in 1..Len(text) /\ b \in 1..Len(text) /\ c \in 1..Len(text)
    BY <1>7, <1>8
  <2>2. d[1] = SubSeq(text, 1, a - 1) /\ d[2] = SubSeq(text, a + 1, b - 1)
        /\ d[3] = SubSeq(text, b + 1, c - 1) /\ d[4] = SubSeq(text, c + 1, Len(text))
    BY <1>1, <1>9, Zenon
  <2>3. QED
    BY <1>77, <1>8, <1>14, <2>1, <2>2, Zenon DEF InFour

\* Four bytes.
LEMMA OctetsAre ==
  ASSUME NEW o \in Octets
  PROVE  o \in Bytes /\ Len(o) = 4 /\ o # <<>>
<1>1. o = <<o[1], o[2], o[3], o[4]>>
  BY DEF Octets
<1>2. o[1] \in Byte /\ o[2] \in Byte /\ o[3] \in Byte /\ o[4] \in Byte
  BY DEF Octets
<1>3. \A w, x, y, z \in Byte : <<w, x, y, z>> \in Bytes /\ Len(<<w, x, y, z>>) = 4
  BY DEF Bytes
<1>4. o \in Bytes /\ Len(o) = 4
  BY <1>1, <1>2, <1>3, Zenon
<1>5. QED
  BY <1>4

\* An address that is printed is read back.
LEMMA Ipv4OfDotted ==
  ASSUME NEW o \in Octets
  PROVE  Ipv4(Dotted(o)) = <<o>> /\ Dotted(o) \in Bytes
<1> DEFINE text == Dotted(o)
           d == [k \in 1..4 |-> Decimal(o[k])]
           dots == {i \in DOMAIN text : text[i] = Dot}
           First(k) == IF k = 1 THEN 1 ELSE Nth(dots, k - 1) + 1
           Final(k) == IF k = 4 THEN Len(text) ELSE Nth(dots, k) - 1
           parts == [k \in 1..4 |-> SubSeq(text, First(k), Final(k))]
           IsOctet(f) == IsDigits(f) /\ Number(f) \in Byte /\ f = Decimal(Number(f))
           C == Cardinality(dots) = 3 /\ \A k \in 1..4 : IsOctet(parts[k])
           read == [k \in 1..4 |-> Number(parts[k])]
<1>1. Ipv4(text) = IF C THEN <<read>> ELSE <<>>
  BY DEF Ipv4
<1>2. \A k \in 1..4 : o[k] \in Byte
  BY DEF Octets
<1>3. \A k \in 1..4 : /\ d[k] \in Bytes /\ \A i \in 1..Len(d[k]) : d[k][i] # Dot
                      /\ IsDigits(d[k]) /\ Number(d[k]) = o[k] /\ d[k] = Decimal(o[k])
  <2>1. \A k \in 1..4 : d[k] = Decimal(o[k])
    OBVIOUS
  <2> HIDE DEF d
  <2>2. QED
    BY <1>2, <2>1, OctetIs
<1>4. d \in [1..4 -> Bytes]
  <2>1. \A k \in 1..4 : Decimal(o[k]) \in Bytes
    BY <1>3
  <2>2. QED
    BY <2>1
<1>5. text = Joined(d)
  <2>1. d[1] = Decimal(o[1]) /\ d[2] = Decimal(o[2]) /\ d[3] = Decimal(o[3]) /\ d[4] = Decimal(o[4])
    OBVIOUS
  <2> HIDE DEF d
  <2>2. QED
    BY <2>1, Zenon DEF Dotted, Joined
<1> HIDE DEF text, d
<1>6. PICK a, b, c \in 1..Len(text) :
           /\ text \in Bytes /\ a < b /\ b < c
           /\ {i \in DOMAIN text : text[i] = Dot} = {a, b, c}
           /\ d[1] = SubSeq(text, 1, a - 1) /\ d[2] = SubSeq(text, a + 1, b - 1)
           /\ d[3] = SubSeq(text, b + 1, c - 1) /\ d[4] = SubSeq(text, c + 1, Len(text))
  <2>1. Undotted(d)
    BY <1>3, <1>4 DEF Undotted
  <2>2. InFour(text, d)
    BY <1>5, <2>1, FourParts
  <2>3. QED
    BY <2>2 DEF InFour
<1>7. /\ Nth(dots, 1) = a /\ Nth(dots, 2) = b /\ Nth(dots, 3) = c
      /\ Cardinality(dots) = 3
  <2>1. a \in Nat /\ b \in Nat /\ c \in Nat /\ a < b /\ b < c
    BY <1>6 DEF Bytes
  <2>2. dots = {a, b, c}
    BY <1>6, Zenon
  <2> HIDE DEF dots
  <2>3. Three(dots, a, b, c)
    BY <2>1, <2>2 DEF Three
  <2>4. QED
    BY <2>3, ThreeInOrder
<1>8. \A k \in 1..4 : parts[k] = d[k]
  <2>1. First(1) = 1 /\ First(2) = a + 1 /\ First(3) = b + 1 /\ First(4) = c + 1
    <3> HIDE DEF dots
    <3>1. QED
      BY <1>7
  <2>2. Final(1) = a - 1 /\ Final(2) = b - 1 /\ Final(3) = c - 1 /\ Final(4) = Len(text)
    <3> HIDE DEF dots
    <3>1. QED
      BY <1>7
  <2> HIDE DEF First, Final, dots
  <2>3. \A k \in 1..4 : parts[k] = SubSeq(text, First(k), Final(k))
    OBVIOUS
  <2> HIDE DEF parts
  <2>4. 1 \in 1..4 /\ 2 \in 1..4 /\ 3 \in 1..4 /\ 4 \in 1..4
    OBVIOUS
  <2>5. parts[1] = d[1] /\ parts[2] = d[2] /\ parts[3] = d[3] /\ parts[4] = d[4]
    BY <1>6, <2>1, <2>2, <2>3, <2>4, Zenon
  <2>6. \A k \in 1..4 : k = 1 \/ k = 2 \/ k = 3 \/ k = 4
    OBVIOUS
  <2>7. QED
    BY <2>5, <2>6, Zenon
<1> HIDE DEF parts, dots
<1>9. \A k \in 1..4 : IsOctet(parts[k])
  BY <1>2, <1>3, <1>8, Zenon
<1>10. \A k \in 1..4 : Number(parts[k]) = o[k]
  BY <1>3, <1>8, Zenon
<1>11. read = o
  BY <1>10 DEF Octets
<1> HIDE DEF read, IsOctet
<1>12. C
  BY <1>7, <1>9, Zenon
<1>13. QED
  BY <1>1, <1>6, <1>11, <1>12 DEF text

\* An address as bytes.
LEMMA StoredAddress ==
  ASSUME NEW o \in Octets
  PROVE  /\ format_value(o) = Dotted(o) /\ encode(4, Dotted(o)) = o
         /\ Stored(4, format_value(o))
<1>1. o \in Bytes /\ Len(o) = 4 /\ o # <<>>
  BY OctetsAre
<1>2. format_value(o) = Dotted(o)
  BY <1>1 DEF format_value
<1>3. encode(4, Dotted(o)) = o
  <2>1. encode(4, Dotted(o)) = OrEmpty(<<o>>)
    BY Ipv4OfDotted DEF encode
  <2>2. OrEmpty(<<o>>) = o
    BY DEF OrEmpty
  <2>3. QED
    BY <2>1, <2>2
<1>4. QED
  BY <1>1, <1>2, <1>3, Ipv4OfDotted DEF Stored

\* What encodes as an address is four bytes.
LEMMA EncodeAddress ==
  ASSUME NEW value \in Bytes
  PROVE  \/ encode(4, value) = <<>>
         \/ \E o \in Octets : encode(4, value) = o /\ Ipv4(value) = <<o>> /\ Dotted(o) = value
<1>1. encode(4, value) = OrEmpty(Ipv4(value))
  BY DEF encode
<1>2. ASSUME Ipv4(value) = <<>> PROVE encode(4, value) = <<>>
  BY <1>1, <1>2 DEF OrEmpty
<1>3. ASSUME NEW o, Ipv4(value) = <<o>> PROVE encode(4, value) = o
  BY <1>1, <1>3 DEF OrEmpty
<1>4. QED
  BY <1>2, <1>3, DottedOfIpv4

-----------------------------------------------------------------------------
(* Values of any width.                                                     *)

Width == Nat \ {0}

\* What encodes fills the width of its parameter.
LEMMA EncodeIs ==
  ASSUME NEW value \in Bytes, NEW length \in Width
  PROVE  /\ encode(length, value) \in Bytes
         /\ encode(length, value) = <<>> \/ Len(encode(length, value)) = length
<1>1. CASE length = 1
  <2>1. \A m \in Byte : <<m>> \in Bytes /\ Len(<<m>>) = 1
    BY DEF Bytes
  <2>2. <<>> \in Bytes
    BY DEF Bytes
  <2>3. QED
    BY <1>1, <2>1, <2>2, EncodeByte
<1>2. CASE length = 2
  <2>1. <<>> \in Bytes
    BY DEF Bytes
  <2>2. QED
    BY <1>2, <2>1, EncodePair, Be16Is
<1>3. CASE length = 4
  <2>1. \A o \in Octets : o \in Bytes /\ Len(o) = 4
    BY OctetsAre
  <2>2. <<>> \in Bytes
    BY DEF Bytes
  <2>3. QED
    BY <1>3, <2>1, <2>2, EncodeAddress
<1>4. CASE length \notin {1, 2, 4}
  <2>1. length \in Nat \ {0, 1, 2, 4}
    BY <1>4 DEF Width
  <2>2. QED
    BY <2>1, EncodeText
<1>5. QED
  BY <1>1, <1>2, <1>3, <1>4

\* Whatever bytes a device is sent, the value it makes of them it can send.
LEMMA FormatIs ==
  ASSUME NEW value \in Bytes, NEW length \in Width, Len(value) = length
  PROVE  Stored(length, format_value(value))
<1>1. CASE length = 1
  <2>1. \E m \in Byte : value = <<m>>
    BY <1>1 DEF Bytes
  <2>2. QED
    BY <1>1, <2>1, StoredByte
<1>2. CASE length = 2
  <2>1. \E m \in U16 : value = be16(m)
    <3>1. 1 \in 1..Len(value) - 1 /\ 1 + 1 = 2
      BY <1>2
    <3>2. u16_at(value, 1) \in U16 /\ u16_at(value, 1) \div 256 = value[1] /\ u16_at(value, 1) % 256 = value[2]
      BY <3>1, U16Is
    <3>3. be16(u16_at(value, 1)) = <<value[1], value[2]>>
      BY <3>2 DEF be16
    <3>4. value = <<value[1], value[2]>>
      BY <1>2 DEF Bytes
    <3>5. QED
      BY <3>2, <3>3, <3>4
  <2>2. QED
    BY <1>2, <2>1, StoredPair
<1>3. CASE length = 4
  <2>1. value \in Octets
    BY <1>3 DEF Octets, Bytes
  <2>2. QED
    BY <1>3, <2>1, StoredAddress
<1>4. CASE length \notin {1, 2, 4}
  <2>1. length \in Nat \ {0, 1, 2, 4}
    BY <1>4 DEF Width
  <2>2. QED
    BY <2>1, StoredText
<1>5. QED
  BY <1>1, <1>2, <1>3, <1>4

-----------------------------------------------------------------------------
(* Values a user supplies.                                                 *)

\* A value without NULs that fits is kept.
LEMMA FittingIsKept ==
  ASSUME NEW value \in Seq(Byte \ {0}), NEW length \in Width, FitsWidth(length, value)
  PROVE  /\ encode(length, value) # <<>>
         /\ format_value(encode(length, value)) =
              IF length \in {1, 2} THEN Decimal(Number(value)) ELSE value
<1>0. value \in Bytes
  BY DEF Bytes
<1>1. ASSUME NEW max \in Nat, parses_as_unsigned(value, max)
      PROVE  from_str(value, max) = <<Number(value)>>
  <2>1. ~(value # <<>> /\ value[1] = Plus) /\ from_str(value, max) # <<>>
    BY <1>1 DEF parses_as_unsigned
  <2>2. QED
    BY <2>1 DEF from_str
<1>2. CASE length = 1
  <2>1. from_str(value, 255) = <<Number(value)>>
    BY <1>1, <1>2 DEF FitsWidth
  <2>2. encode(1, value) = <<Number(value)>>
    BY <2>1 DEF encode
  <2>3. PICK m \in Byte : encode(1, value) = <<m>>
    BY <1>0, <2>2, EncodeByte
  <2>4. m = Number(value)
    BY <2>2, <2>3
  <2>5. format_value(<<m>>) = Decimal(m) /\ <<m>> # <<>>
    BY StoredByte
  <2>6. encode(length, value) = <<m>>
    BY <1>2, <2>2, <2>4
  <2>7. length \in {1, 2}
    BY <1>2
  <2>8. QED
    BY <2>4, <2>5, <2>6, <2>7
<1>3. CASE length = 2
  <2>1. from_str(value, U16_MAX) = <<Number(value)>>
    <3>1. U16_MAX \in Nat
      BY U16MaxIs
    <3>2. parses_as_unsigned(value, U16_MAX)
      BY <1>3 DEF FitsWidth
    <3>3. QED
      BY <1>1, <3>1, <3>2
  <2>2. PICK m \in U16 : encode(2, value) = be16(m) /\ from_str(value, U16_MAX) = <<m>>
    <3>1. encode(2, value) = OrEmpty(EachTo(be16, <<Number(value)>>))
      BY <2>1 DEF encode
    <3>2. OrEmpty(EachTo(be16, <<Number(value)>>)) = be16(Number(value))
      <4>1. EachTo(be16, <<Number(value)>>) = <<be16(Number(value))>>
        BY DEF EachTo
      <4>2. OrEmpty(<<be16(Number(value))>>) = be16(Number(value))
        BY DEF OrEmpty
      <4>3. QED
        BY <4>1, <4>2
    <3>3. be16(Number(value)) # <<>>
      BY DEF be16
    <3>4. QED
      BY <1>0, <3>1, <3>2, <3>3, EncodePair
  <2>3. m = Number(value)
    BY <2>1, <2>2
  <2>4. format_value(be16(m)) = Decimal(m) /\ be16(m) # <<>>
    BY StoredPair, Be16Is
  <2>5. QED
    BY <1>3, <2>2, <2>3, <2>4
<1>4. CASE length = 4
  <2>1. Ipv4(value) # <<>>
    BY <1>4 DEF FitsWidth
  <2>2. PICK o \in Octets : Ipv4(value) = <<o>> /\ Dotted(o) = value
    BY <1>0, <2>1, DottedOfIpv4
  <2>3. encode(4, value) = o /\ o # <<>> /\ format_value(o) = value
    BY <2>2, StoredAddress, OctetsAre
  <2>4. QED
    BY <1>4, <2>3
<1>5. CASE length \notin {1, 2, 4}
  <2>1. length \in Nat \ {0, 1, 2, 4} /\ Len(value) <= length
    BY <1>5 DEF Width, FitsWidth
  <2> DEFINE e == encode(length, value)
  <2>2. e = Resize(value, length) /\ e \in Bytes /\ Len(e) = length /\ e # <<>>
    BY <1>0, <2>1, EncodeText
  <2>3. \A i \in 1..length : e[i] = IF i <= Len(value) THEN value[i] ELSE 0
    BY <2>2 DEF Resize
  <2>4. format_value(e) = BeforeNul(e)
    <3> HIDE DEF e
    <3>1. QED
      BY <2>1, <2>2 DEF format_value
  <2> HIDE DEF e
  <2>5. Len(value) \in Nat /\ \A i \in 1..Len(value) : value[i] # 0
    OBVIOUS
  <2>6. \A i \in 1..Len(value) : value[i] # 0 /\ e[i] = value[i]
    BY <2>1, <2>3, <2>5
  <2>7. Len(value) = Len(e) \/ e[Len(value) + 1] = 0
    BY <2>1, <2>2, <2>3, <2>5
  <2>8. BeforeNul(e) = value
    BY <1>0, <2>1, <2>2, <2>6, <2>7, BeforeNulUnique
  <2>9. QED
    BY <1>5, <2>2, <2>4, <2>8 DEF e
<1>6. QED
  BY <1>2, <1>3, <1>4, <1>5

\* What a value means once it is cut to the width of its parameter.
LEMMA TextMeans ==
  ASSUME NEW value \in Bytes, NEW length \in Nat \ {0, 1, 2, 4}
  PROVE  format_value(encode(length, value))
           = BeforeNul(SubSeq(value, 1, Min({Len(value), length})))
<1> DEFINE e == encode(length, value)
           m == Min({Len(value), length})
           cut == SubSeq(value, 1, m)
<1>1. e = Resize(value, length) /\ e \in Bytes /\ Len(e) = length /\ e # <<>>
  BY EncodeText
<1>2. \A i \in 1..length : e[i] = IF i <= Len(value) THEN value[i] ELSE 0
  BY <1>1 DEF Resize
<1> HIDE DEF e
<1>3. format_value(e) = BeforeNul(e)
  BY <1>1 DEF format_value
<1>4. Len(value) \in Nat /\ length \in Nat
  BY DEF Bytes
<1>5. m \in Nat /\ m <= Len(value) /\ m <= length /\ (m = Len(value) \/ m = length)
  <2>1. {Len(value), length} \in SUBSET Nat /\ {Len(value), length} # {}
    BY <1>4
  <2>2. m \in {Len(value), length} /\ \A n \in {Len(value), length} : m <= n
    BY <2>1, MinIs
  <2> HIDE DEF m
  <2>3. QED
    BY <1>4, <2>2
<1> HIDE DEF m
<1>6. cut \in Bytes /\ Len(cut) = m /\ \A i \in 1..m : cut[i] = value[i]
  BY <1>5 DEF Bytes
<1> HIDE DEF cut
<1>7. PICK n \in 0..Len(cut) :
           /\ BeforeNul(cut) \in Bytes /\ Len(BeforeNul(cut)) = n
           /\ \A i \in 1..n : cut[i] # 0 /\ BeforeNul(cut)[i] = cut[i]
           /\ n = Len(cut) \/ cut[n + 1] = 0
  BY <1>6, BeforeNulIs
<1> DEFINE text == BeforeNul(cut)
<1> HIDE DEF text
<1>8. text \in Bytes /\ Len(text) = n /\ n \in Nat /\ n <= m
  BY <1>5, <1>6, <1>7 DEF text
<1>9. \A i \in 1..Len(text) : text[i] # 0 /\ e[i] = text[i]
  <2>1. ASSUME NEW i \in 1..n PROVE text[i] # 0 /\ e[i] = text[i]
    <3>1. i \in 1..m /\ i \in 1..length /\ i <= Len(value)
      BY <1>4, <1>5, <1>8
    <3>2. text[i] = cut[i] /\ cut[i] # 0 /\ cut[i] = value[i] /\ e[i] = value[i]
      BY <1>2, <1>6, <1>7, <3>1 DEF text
    <3>3. QED
      BY <3>2
  <2>2. QED
    BY <1>8, <2>1
<1>10. Len(text) = Len(e) \/ e[Len(text) + 1] = 0
  <2>1. CASE n # m
    <3>1. n + 1 \in 1..m /\ n + 1 \in 1..length /\ n + 1 <= Len(value)
      BY <1>4, <1>5, <1>8, <2>1
    <3>2. cut[n + 1] = 0 /\ cut[n + 1] = value[n + 1] /\ e[n + 1] = value[n + 1]
      BY <1>2, <1>6, <1>7, <2>1, <3>1
    <3>3. QED
      BY <1>8, <3>2
  <2>2. CASE n = m /\ m # length
    <3>1. n + 1 \in 1..length /\ ~(n + 1 <= Len(value))
      BY <1>4, <1>5, <2>2
    <3>2. QED
      BY <1>2, <1>8, <3>1
  <2>3. QED
    BY <1>1, <1>8, <2>1, <2>2
<1>11. BeforeNul(e) = text
  BY <1>1, <1>5, <1>8, <1>9, <1>10, BeforeNulUnique
<1>12. QED
  BY <1>3, <1>11 DEF e, text, cut, m

-----------------------------------------------------------------------------
(* MAC addresses.                                                          *)

\* A hexadecimal digit is written back in lower case.
LowerCase(c) == IF c \in 65..90 THEN c + 32 ELSE c

\* Reading and writing one hexadecimal digit.
LEMMA NibbleIs ==
  ASSUME NEW c \in Byte, IsHex(c)
  PROVE  \E h \in 0..15 : hex_nibble(c) = <<h>> /\ HexDigits(h) = LowerCase(c)
<1>1. CASE c \in Digit
  <2>0. c \in Digit /\ c \notin 97..102 /\ c \notin 65..70
    BY <1>1 DEF Digit
  <2>1. hex_nibble(c) = <<c - 48>>
    BY <2>0, Zenon DEF hex_nibble
  <2>2. c - 48 \in 0..15 /\ HexDigits(c - 48) = LowerCase(c)
    BY <1>1 DEF HexDigits, LowerCase, Digit
  <2>3. QED
    BY <2>1, <2>2
<1>2. CASE c \in 97..102
  <2>1. hex_nibble(c) = <<c - 87>>
    BY <1>2 DEF hex_nibble, Digit
  <2>2. c - 87 \in 0..15 /\ HexDigits(c - 87) = LowerCase(c)
    BY <1>2 DEF HexDigits, LowerCase
  <2>3. QED
    BY <2>1, <2>2
<1>3. CASE c \in 65..70
  <2>1. hex_nibble(c) = <<c - 55>>
    BY <1>3 DEF hex_nibble, Digit
  <2>2. c - 55 \in 0..15 /\ HexDigits(c - 55) = LowerCase(c)
    BY <1>3 DEF HexDigits, LowerCase
  <2>3. QED
    BY <2>1, <2>2
<1>4. c \in Digit \/ c \in 97..102 \/ c \in 65..70
  BY DEF IsHex, hex_nibble
<1>5. QED
  BY <1>1, <1>2, <1>3, <1>4

\* An address is printed as it was typed, in lower case.
LEMMA MacTextIs ==
  ASSUME NEW text \in Bytes, Mac(text) # <<>>
  PROVE  MacText(Mac(text)[1]) = [i \in DOMAIN text |-> LowerCase(text[i])]
<1> DEFINE N(i) == hex_nibble(text[i])[1]
           mac == [k \in 1..MAC_LEN |-> 16 * N(3 * k - 2) + N(3 * k - 1)]
<1>1. /\ Len(text) = 17 /\ mac = Mac(text)[1]
      /\ \A k \in 1..6 : IsHex(text[3 * k - 2]) /\ IsHex(text[3 * k - 1])
      /\ \A k \in 1..5 : text[3 * k] = 58
  BY DEF Mac, MAC_STR_LEN, MAC_LEN, Colon
<1>2. \A i \in 1..17 : text[i] \in Byte
  <2>1. Len(text) = 17
    BY <1>1
  <2>2. QED
    BY <2>1, ElementOf, Zenon DEF Bytes
<1>3. ASSUME NEW k \in 1..6
      PROVE  /\ N(3 * k - 2) \in 0..15 /\ HexDigits(N(3 * k - 2)) = LowerCase(text[3 * k - 2])
             /\ N(3 * k - 1) \in 0..15 /\ HexDigits(N(3 * k - 1)) = LowerCase(text[3 * k - 1])
  <2>1. 3 * k - 2 \in 1..17 /\ 3 * k - 1 \in 1..17
    OBVIOUS
  <2>2. IsHex(text[3 * k - 2]) /\ IsHex(text[3 * k - 1])
    BY <1>1
  <2>3. PICK h \in 0..15 : hex_nibble(text[3 * k - 2]) = <<h>> /\ HexDigits(h) = LowerCase(text[3 * k - 2])
    BY <1>2, <2>1, <2>2, NibbleIs
  <2>4. PICK l \in 0..15 : hex_nibble(text[3 * k - 1]) = <<l>> /\ HexDigits(l) = LowerCase(text[3 * k - 1])
    BY <1>2, <2>1, <2>2, NibbleIs
  <2>5. QED
    BY <2>3, <2>4
<1> DEFINE hex == hex_encode(mac)
<1>4. ASSUME NEW k \in 1..6
      PROVE  hex[2 * k - 1] = HexDigits(N(3 * k - 2)) /\ hex[2 * k] = HexDigits(N(3 * k - 1))
  <2>1. Len(mac) = 6 /\ mac[k] = 16 * N(3 * k - 2) + N(3 * k - 1)
    BY DEF MAC_LEN
  <2>2. PICK h \in 0..15, l \in 0..15 : h = N(3 * k - 2) /\ l = N(3 * k - 1)
    BY <1>3
  <2>3. mac[k] \div 16 = h /\ mac[k] % 16 = l
    <3>1. mac[k] = 16 * h + l
      BY <2>1, <2>2, Zenon
    <3> HIDE DEF mac
    <3>2. (16 * h + l) \div 16 = h /\ (16 * h + l) % 16 = l
      OBVIOUS
    <3>3. QED
      BY <3>1, <3>2, Zenon
  <2>4. 2 * k - 1 \in 1..12 /\ 2 * k \in 1..12 /\ (2 * k - 1) % 2 = 1 /\ (2 * k) % 2 # 1
        /\ (2 * k) \div 2 = k /\ (2 * k + 1) \div 2 = k
    OBVIOUS
  <2> HIDE DEF mac
  <2>5. \A i \in 1..12 : hex[i] = LET byte == mac[(i + 1) \div 2]
                                  IN  HexDigits(IF i % 2 = 1 THEN byte \div 16 ELSE byte % 16)
    BY <2>1 DEF hex_encode
  <2> HIDE DEF hex
  <2>6. hex[2 * k - 1] = HexDigits(mac[k] \div 16)
    BY <2>4, <2>5
  <2>7. hex[2 * k] = HexDigits(mac[k] % 16)
    BY <2>4, <2>5
  <2>8. QED
    BY <2>2, <2>3, <2>6, <2>7
<1>5. MacText(mac) = [i \in 1..17 |-> IF i % 3 = 0 THEN 58 ELSE hex[i - i \div 3]]
  BY DEF MacText, MAC_STR_LEN, Colon
<1> HIDE DEF hex, N, mac
<1>6. ASSUME NEW i \in 1..17
      PROVE  (IF i % 3 = 0 THEN 58 ELSE hex[i - i \div 3]) = LowerCase(text[i])
  <2>1. CASE i % 3 = 0
    <3>1. i \div 3 \in 1..5 /\ i = 3 * (i \div 3)
      BY <2>1
    <3>2. text[i] = 58
      BY <1>1, <3>1
    <3>3. QED
      BY <2>1, <3>2 DEF LowerCase
  <2>2. CASE i % 3 = 1
    <3>1. PICK k \in 1..6 : i = 3 * k - 2
      <4>1. i \div 3 + 1 \in 1..6 /\ i = 3 * (i \div 3 + 1) - 2
        BY <2>2
      <4>2. QED
        BY <4>1
    <3>2. i - i \div 3 = 2 * k - 1
      BY <3>1
    <3>3. QED
      BY <1>3, <1>4, <2>2, <3>1, <3>2
  <2>3. CASE i % 3 = 2
    <3>1. PICK k \in 1..6 : i = 3 * k - 1
      <4>1. i \div 3 + 1 \in 1..6 /\ i = 3 * (i \div 3 + 1) - 1
        BY <2>3
      <4>2. QED
        BY <4>1
    <3>2. i - i \div 3 = 2 * k
      BY <3>1
    <3>3. QED
      BY <1>3, <1>4, <2>3, <3>1, <3>2
  <2>4. QED
    BY <2>1, <2>2, <2>3
<1>7. DOMAIN text = 1..17
  BY <1>1 DEF Bytes
<1>8. QED
  BY <1>1, <1>5, <1>6, <1>7

-----------------------------------------------------------------------------
(* Payloads: a head, and chunks behind it; walks through what is left of them.*)

\* What grows step by step grows.
LEMMA Monotone ==
  ASSUME NEW n \in Nat, NEW f \in [0..n -> Nat], \A k \in 1..n : f[k - 1] <= f[k],
         NEW i \in 0..n, NEW j \in 0..n, i <= j
  PROVE  f[i] <= f[j]
<1> DEFINE T == {k \in 0..n : i <= k /\ ~(f[i] <= f[k])}
<1>1. SUFFICES ASSUME T # {} PROVE FALSE
  OBVIOUS
<1>2. T \in SUBSET Nat
  OBVIOUS
<1>3. PICK k \in T : \A l \in T : k <= l
  <2> HIDE DEF T
  <2>1. QED
    BY <1>1, <1>2, LeastElement
<1>4. k \in 0..n /\ i <= k /\ ~(f[i] <= f[k]) /\ k \in Nat
  OBVIOUS
<1>5. k # i
  BY <1>4
<1>6. k - 1 \in 0..n /\ i <= k - 1 /\ ~(k <= k - 1) /\ k \in 1..n
  BY <1>4, <1>5
<1>7. k - 1 \notin T
  BY <1>3, <1>6
<1>8. f[i] <= f[k - 1]
  BY <1>6, <1>7
<1>9. f[k - 1] <= f[k]
  BY <1>6
<1>10. f[i] \in Nat /\ f[k - 1] \in Nat /\ f[k] \in Nat
  BY <1>4, <1>6
<1> HIDE DEF T
<1>11. QED
  BY <1>4, <1>8, <1>9, <1>10

\* What an item is made of.
IsItem(i) == i.offset \in U16 /\ i.value \in Bytes /\ Len(i.value) \in U16

IsChunk(c, i) ==
  /\ c \in Bytes /\ Len(c) = 4 + Len(i.value)
  /\ 256 * c[1] + c[2] = i.offset
  /\ 256 * c[3] + c[4] = Len(i.value)
  /\ \A j \in 1..Len(i.value) : c[4 + j] = i.value[j]

\* The bytes an item is sent as hold its offset, its width and its value.
LEMMA ChunkIs ==
  ASSUME NEW i, IsItem(i), NEW h, h = be16(i.offset) \o be16(Len(i.value))
  PROVE  IsChunk(h \o i.value, i)
<1> DEFINE a == be16(i.offset)
           b == be16(Len(i.value))
           v == i.value
           c == h \o v
<1>1. a \in Bytes /\ Len(a) = 2 /\ u16_at(a, 1) = i.offset
  BY Be16Is DEF IsItem
<1>2. b \in Bytes /\ Len(b) = 2 /\ u16_at(b, 1) = Len(v)
  BY Be16Is DEF IsItem
<1>3. IsConcat(Byte, h, a, b)
  BY <1>1, <1>2, Concatenation, Zenon DEF Bytes
<1>4. v \in Bytes /\ Len(v) \in Nat
  BY DEF IsItem, Bytes
<1> HIDE DEF a, b, v
<1>5. h \in Bytes /\ Len(h) = 4 /\ h[1] = a[1] /\ h[2] = a[2] /\ h[3] = b[1] /\ h[4] = b[2]
  BY <1>1, <1>2, <1>3 DEF IsConcat, Bytes
<1>6. IsConcat(Byte, c, h, v)
  BY <1>4, <1>5, Concatenation, Zenon DEF Bytes
<1> HIDE DEF c
<1>7. c \in Bytes /\ Len(c) = 4 + Len(v) /\ c[1] = a[1] /\ c[2] = a[2] /\ c[3] = b[1] /\ c[4] = b[2]
      /\ \A j \in 1..Len(v) : c[4 + j] = v[j]
  BY <1>4, <1>5, <1>6 DEF IsConcat, Bytes
<1>8. 256 * a[1] + a[2] = i.offset /\ 256 * b[1] + b[2] = Len(v)
  BY <1>1, <1>2 DEF u16_at
<1>9. IsChunk(c, i)
  BY <1>7, <1>8 DEF IsChunk, v
<1>10. QED
  BY <1>9 DEF c, v

\* A payload: a head, and chunks behind it.
Layout(full, q, chunks, p) ==
  /\ full \in Bytes /\ q \in Nat /\ chunks \in Seq(Bytes) /\ IsEnds(p, chunks)
  /\ Len(full) = q + p[Len(chunks)]
  /\ \A k \in 1..Len(chunks) : p[k] <= p[Len(chunks)]
  /\ \A k \in 1..Len(chunks) : \A j \in 1..Len(chunks[k]) : full[q + p[k - 1] + j] = chunks[k][j]

\* A head with chunks behind it is laid out so.
LEMMA LayoutOf ==
  ASSUME NEW head \in Bytes, NEW chunks \in Seq(Bytes)
  PROVE  /\ \E p : Layout(head \o FlattenSeq(chunks), Len(head), chunks, p)
         /\ \A i \in 1..Len(head) : (head \o FlattenSeq(chunks))[i] = head[i]
<1> DEFINE rest == FlattenSeq(chunks)
           full == head \o rest
<1>1. PICK p : IsEnds(p, chunks)
  BY EndsExist DEF Bytes
<1>2. /\ rest \in Bytes /\ Len(rest) = p[Len(chunks)]
      /\ \A k \in 1..Len(chunks) : p[k] <= p[Len(chunks)]
      /\ \A k \in 1..Len(chunks) : \A j \in 1..Len(chunks[k]) : rest[p[k - 1] + j] = chunks[k][j]
  BY <1>1, FlattenIs DEF Bytes
<1> HIDE DEF rest
<1>3. IsConcat(Byte, full, head, rest)
  BY <1>2, Concatenation, Zenon DEF Bytes
<1> HIDE DEF full
<1>4. /\ full \in Bytes /\ Len(full) = Len(head) + Len(rest)
      /\ \A i \in 1..Len(head) : full[i] = head[i]
      /\ \A i \in 1..Len(rest) : full[Len(head) + i] = rest[i]
  BY <1>3 DEF IsConcat, Bytes
<1>5. Len(head) \in Nat
  BY DEF Bytes
<1>6. ASSUME NEW k \in 1..Len(chunks), NEW j \in 1..Len(chunks[k])
      PROVE  full[Len(head) + p[k - 1] + j] = chunks[k][j]
  <2>1. /\ k \in 0..Len(chunks) /\ k - 1 \in 0..Len(chunks) /\ p[k] = p[k - 1] + Len(chunks[k])
        /\ p[k - 1] \in Nat /\ p[k] \in Nat /\ Len(chunks) \in Nat /\ p[Len(chunks)] \in Nat
    BY <1>1 DEF IsEnds
  <2>2. Len(chunks[k]) \in Nat
    BY DEF Bytes
  <2>3. p[k] <= Len(rest)
    BY <1>2
  <2>4. p[k - 1] + j \in 1..Len(rest)
    BY <1>2, <2>1, <2>2, <2>3
  <2>5. full[Len(head) + (p[k - 1] + j)] = rest[p[k - 1] + j]
    BY <1>4, <2>4
  <2>6. Len(head) + (p[k - 1] + j) = Len(head) + p[k - 1] + j
    BY <1>5, <2>1
  <2>7. QED
    BY <1>2, <2>5, <2>6
<1>7. Layout(full, Len(head), chunks, p)
  BY <1>1, <1>2, <1>4, <1>5, <1>6 DEF Layout
<1>8. QED
  BY <1>4, <1>7 DEF full, rest

\* A walk through what was laid out in parts that end at ends, but of which only
\* the first n bytes are left: it is at the ends of the parts as long as these
\* are within, and beyond the bytes then.
Walks(n, m, ends, most, at) ==
  /\ n \in Nat /\ m \in Nat /\ most \in Nat
  /\ ends \in [0..m -> Nat] /\ \A k \in 1..m : ends[k - 1] <= ends[k]
  /\ at \in [0..most -> Nat] /\ \A k \in 1..most : at[k - 1] < at[k]
  /\ at[0] = ends[0] /\ ends[0] <= n + 1 /\ n + 1 <= ends[m]
  /\ \A k \in 0..m : ends[k] <= n + 1 => k <= most
  /\ \A k \in 1..m : k <= most /\ at[k - 1] = ends[k - 1] =>
       at[k] = ends[k] \/ (at[k] > n + 1 /\ ends[k] > n + 1)

Walked(n, m, ends, at, w) ==
  /\ w \in 0..m /\ ends[w] <= n + 1
  /\ \A k \in 0..w : at[k] = ends[k]
  /\ \A k \in w + 1..m : ends[k] > n + 1

\* The walk stops after the last part that is whole.
LEMMA WalkIs ==
  ASSUME NEW n, NEW m, NEW ends, NEW most, NEW at, Walks(n, m, ends, most, at)
  PROVE  LET w == Max({k \in 0..most : at[k] <= n + 1})
         IN  w \in 0..most /\ Walked(n, m, ends, at, w)
<1> USE DEF Walks
<1> DEFINE T == {k \in 0..m : ends[k] <= n + 1}
           A == {k \in 0..most : at[k] <= n + 1}
<1>1. T \in SUBSET Nat /\ 0 \in T /\ \A k \in T : k <= m
  OBVIOUS
<1>2. PICK w \in T : \A k \in T : k <= w
  <2> HIDE DEF T
  <2>1. m \in Nat
    OBVIOUS
  <2> HIDE DEF Walks
  <2>2. QED
    BY <1>1, <2>1, MaxIs
<1>3. w \in 0..m /\ ends[w] <= n + 1 /\ w <= most /\ w \in Nat
  BY <1>2
<1>4. \A k \in w + 1..m : ends[k] > n + 1
  <2>1. ASSUME NEW k \in w + 1..m PROVE ends[k] > n + 1
    <3>1. k \in 0..m /\ ~(k <= w) /\ ends[k] \in Nat
      BY <1>3
    <3>2. k \notin T
      <4> HIDE DEF T
      <4>1. QED
        BY <1>2, <3>1
    <3>3. QED
      BY <3>1, <3>2
  <2>2. QED
    BY <2>1
<1>5. \A k \in 0..w : ends[k] <= n + 1
  <2>1. ASSUME NEW k \in 0..w PROVE ends[k] <= n + 1
    <3>1. k \in 0..m /\ k <= w
      BY <1>3
    <3>2. ends[k] <= ends[w]
      BY <1>3, <3>1, Monotone
    <3>3. ends[k] \in Nat /\ ends[w] \in Nat
      BY <1>3, <3>1
    <3>4. QED
      BY <1>3, <3>2, <3>3
  <2>2. QED
    BY <2>1
<1>6. \A k \in 0..w : at[k] = ends[k]
  <2> DEFINE B == {k \in 0..w : at[k] # ends[k]}
  <2>1. B \in SUBSET Nat
    OBVIOUS
  <2>2. ASSUME B # {} PROVE FALSE
    <3>1. PICK k \in B : \A l \in B : k <= l
      <4> HIDE DEF B, Walks
      <4>1. QED
        BY <2>1, <2>2, LeastElement
    <3>2. k \in 0..w /\ at[k] # ends[k] /\ k # 0
      OBVIOUS
    <3>3. k \in 1..m /\ k <= most /\ k - 1 \in 0..w /\ ~(k <= k - 1)
      BY <1>3, <3>2
    <3>4. at[k - 1] = ends[k - 1]
      BY <3>1, <3>3
    <3>5. ends[k] <= n + 1 /\ ends[k] \in Nat
      BY <1>5, <3>2, <3>3
    <3> HIDE DEF B
    <3>6. QED
      BY <3>2, <3>3, <3>4, <3>5
  <2>3. QED
    BY <2>2
<1>7. ASSUME NEW j \in A PROVE j <= w
  <2>1. j \in 0..most /\ at[j] <= n + 1
    OBVIOUS
  <2>2. ASSUME w < j PROVE FALSE
    <3>1. w + 1 \in 0..most /\ w + 1 <= j /\ w + 1 \in 1..most /\ w \in 0..most
      BY <1>3, <2>1, <2>2
    <3>2. at[w + 1] <= at[j]
      <4>1. \A k \in 1..most : at[k - 1] <= at[k]
        <5>1. \A k \in 1..most : k \in 0..most /\ k - 1 \in 0..most
          OBVIOUS
        <5>2. QED
          BY <5>1
      <4>2. QED
        BY <2>1, <3>1, <4>1, Monotone
    <3>3. at[w + 1] \in Nat /\ at[j] \in Nat
      BY <2>1, <3>1
    <3>4. at[w + 1] <= n + 1
      BY <2>1, <3>2, <3>3
    <3>5. at[w] = ends[w]
      BY <1>3, <1>6
    <3>6. CASE w < m
      <4>1. w + 1 \in 1..m /\ (w + 1) - 1 = w /\ w + 1 <= most /\ w + 1 \in w + 1..m
        BY <1>3, <3>1, <3>6
      <4>2. at[w + 1] = ends[w + 1] \/ at[w + 1] > n + 1
        BY <3>5, <4>1
      <4>3. ends[w + 1] > n + 1
        BY <1>4, <4>1
      <4>4. QED
        BY <3>3, <3>4, <4>2, <4>3
    <3>7. CASE w = m
      <4>1. (w + 1) - 1 = w
        BY <1>3
      <4>2. at[w] < at[w + 1]
        BY <3>1, <4>1
      <4>3. at[w] \in Nat /\ n + 1 <= at[w]
        BY <3>1, <3>5, <3>7
      <4>4. QED
        BY <3>3, <3>4, <4>2, <4>3
    <3>8. QED
      BY <1>3, <3>6, <3>7
  <2>3. QED
    BY <1>3, <2>1, <2>2
<1>8. Max(A) = w
  <2>1. w \in A /\ A \in SUBSET Int
    <3>1. w \in 0..most
      BY <1>3
    <3>2. at[w] <= n + 1
      BY <1>3, <1>6
    <3>3. QED
      BY <3>1, <3>2
  <2> HIDE DEF A, Walks
  <2>2. QED
    BY <1>7, <2>1, MaxUnique
<1>9. Walked(n, m, ends, at, w)
  BY <1>3, <1>4, <1>6 DEF Walked
<1>10. w \in 0..most
  BY <1>3
<1>11. QED
  BY <1>8, <1>9, <1>10

\* A path follows the same step from each place to the next.
Path(N, pos, nxt, f) ==
  f \in [0..N -> Nat] /\ f[0] = pos /\ \A k \in 1..N : f[k] = nxt[f[k - 1]]

Stepping(N, pos, nxt, f) ==
  /\ f = [k \in 0..N |-> f[k]] /\ f[0] = pos
  /\ \A k \in 1..N : f[k - 1] \in Nat => f[k] = nxt[f[k - 1]]

\* Two paths with the same steps go through the same places.
LEMMA PathIs ==
  ASSUME NEW N \in Nat, NEW pos \in Nat, NEW nxt \in [Nat -> Nat]
  PROVE  /\ \E g : Path(N, pos, nxt, g)
         /\ \A f : Stepping(N, pos, nxt, f) => Path(N, pos, nxt, f)
<1> DEFINE step == [k \in 0..N |-> nxt]
<1>1. CanRun(Nat, 0, N, pos, step)
  BY DEF CanRun
<1>2. \A k \in 0 + 1..N : step[k] = nxt /\ k \in 1..N
  OBVIOUS
<1>3. \A k \in 1..N : k \in 0 + 1..N
  OBVIOUS
<1> HIDE DEF step
<1>4. PICK g : Runs(Nat, 0, N, pos, step, g)
  BY <1>1, Recursion
<1>5. Path(N, pos, nxt, g)
  BY <1>2, <1>3, <1>4 DEF Runs, Path
<1>6. ASSUME NEW f, Stepping(N, pos, nxt, f)
      PROVE  Path(N, pos, nxt, f)
  <2>1. \A k \in 0 + 1..N : f[k - 1] \in Nat => f[k] = step[k][f[k - 1]]
    BY <1>2, <1>6 DEF Stepping
  <2>2. Runs(Nat, 0, N, pos, step, f)
    <3>1. f = [k \in 0..N |-> f[k]] /\ f[0] = pos
      BY <1>6 DEF Stepping
    <3>2. QED
      BY <1>1, <3>1, <2>1, RunsToo
  <2>3. QED
    BY <1>2, <1>3, <2>2 DEF Runs, Path
<1>7. QED
  BY <1>5, <1>6

-----------------------------------------------------------------------------
(* Items of a get and of a set.                                            *)

\* Where the item behind the one at i starts.
NextItem(data, i) == i + 4 + (IF i + 3 <= Len(data) THEN u16_at(data, i + 2) ELSE 0)

\* Each item starts behind the one before it.
LEMMA NextItemIs ==
  ASSUME NEW data \in Bytes, NEW i \in Nat
  PROVE  NextItem(data, i) \in Nat /\ i + 4 <= NextItem(data, i)
<1>0. Len(data) \in Nat
  BY DEF Bytes
<1>1. CASE i + 3 <= Len(data)
  <2>1. i + 2 \in 1..Len(data) - 1
    BY <1>0, <1>1
  <2>2. u16_at(data, i + 2) \in U16
    BY <2>1, U16Is
  <2>3. u16_at(data, i + 2) \in Int /\ 0 <= u16_at(data, i + 2)
    BY <2>2, U16Def
  <2>4. PICK u \in Nat : u = u16_at(data, i + 2)
    BY <2>3
  <2>5. NextItem(data, i) = i + 4 + u
    BY <1>1, <2>4 DEF NextItem
  <2>6. QED
    BY <2>5
<1>2. CASE ~(i + 3 <= Len(data))
  <2>1. NextItem(data, i) = i + 4 + 0
    BY <1>2 DEF NextItem
  <2>2. QED
    BY <2>1
<1>3. QED
  BY <1>1, <1>2

ItemsWalk(data, pos, most, at) ==
  /\ at \in [0..most -> Nat] /\ at[0] = pos
  /\ \A k \in 1..most : at[k] = NextItem(data, at[k - 1])

ItemsOf(data, at, w) ==
  [k \in 1..w |-> [offset |-> u16_at(data, at[k - 1]),
                   value |-> SubSeq(data, at[k - 1] + 4, at[k] - 1)]]

ItemsRead(data, pos, count, at, w) ==
  /\ Items(data, pos, count).items = ItemsOf(data, at, w)
  /\ Items(data, pos, count).end =
       IF w = count THEN "Complete"
       ELSE IF at[w] + 3 > Len(data) THEN "TruncatedHeader"
       ELSE "ItemExceedsPayload"

\* Items reads along such a path, as far as it stays inside the data.
LEMMA ItemsRun ==
  ASSUME NEW data \in Bytes, NEW pos \in Nat, NEW count \in Nat,
         NEW most \in Nat, most = Min({count, Len(data)})
  PROVE  \E at, w : /\ ItemsWalk(data, pos, most, at)
                    /\ w = Max({k \in 0..most : at[k] <= Len(data) + 1})
                    /\ ItemsRead(data, pos, count, at, w)
<1> DEFINE nxt == [i \in Nat |-> NextItem(data, i)]
           Upto(f) == f = [k \in 0..most |->
                             IF k = 0 THEN pos
                             ELSE LET i == f[k - 1]
                                  IN  i + 4 + (IF i + 3 <= Len(data) THEN u16_at(data, i + 2) ELSE 0)]
           at == CHOOSE f : Upto(f)
<1>1. nxt \in [Nat -> Nat] /\ \A i \in Nat : nxt[i] = NextItem(data, i)
  BY NextItemIs
<1> HIDE DEF nxt
<1>2. \A k \in 0..most : k = 0 \/ k \in 1..most
  OBVIOUS
<1>3. \A k \in 1..most : k \in 0..most /\ k # 0 /\ k - 1 \in 0..most
  OBVIOUS
<1>4. 0 \in 0..most
  OBVIOUS
<1>5. \E f : Upto(f)
  <2>1. PICK g : Path(most, pos, nxt, g)
    BY <1>1, PathIs
  <2>2. g \in [0..most -> Nat] /\ g[0] = pos /\ \A k \in 1..most : g[k] = nxt[g[k - 1]]
    BY <2>1 DEF Path
  <2>3. \A k \in 1..most : g[k] = NextItem(data, g[k - 1])
    BY <1>1, <1>3, <2>2
  <2>4. Upto(g)
    BY <1>2, <1>3, <2>2, <2>3 DEF NextItem
  <2>5. QED
    BY <2>4
<1>6. Upto(at)
  <2> HIDE DEF Upto
  <2>1. QED
    BY <1>5
<1>7. /\ at = [k \in 0..most |-> at[k]] /\ at[0] = pos
      /\ \A k \in 1..most : at[k] = NextItem(data, at[k - 1])
  <2> HIDE DEF at
  <2>1. at = [k \in 0..most |-> at[k]] /\ at[0] = pos
    BY <1>4, <1>6
  <2>2. QED
    BY <1>3, <1>6, <2>1 DEF NextItem
<1>8. ItemsWalk(data, pos, most, at)
  <2> HIDE DEF at, Upto
  <2>1. \A k \in 1..most : at[k - 1] \in Nat => at[k] = nxt[at[k - 1]]
    BY <1>1, <1>7
  <2>2. Stepping(most, pos, nxt, at)
    BY <1>7, <2>1 DEF Stepping
  <2>3. Path(most, pos, nxt, at)
    BY <1>1, <2>2, PathIs
  <2>4. QED
    BY <1>7, <2>3 DEF ItemsWalk, Path
<1> DEFINE w == Max({k \in 0..most : at[k] <= Len(data) + 1})
<1>9. ItemsRead(data, pos, count, at, w)
  BY DEF Items, ItemsOf, ItemsRead
<1>10. QED
  BY <1>8, <1>9

\* What is left of bytes that were cut.
Prefix(data, full) ==
  data \in Bytes /\ Len(data) <= Len(full) /\ \A i \in 1..Len(data) : data[i] = full[i]

Chunked(chunks, items) ==
  /\ items \in Seq([offset : U16, value : Bytes]) /\ Len(items) = Len(chunks)
  /\ \A k \in 1..Len(chunks) : IsChunk(chunks[k], items[k])

\* Parts of two bytes and more end at least twice as far.
LEMMA EndsGrow ==
  ASSUME NEW m \in Nat, NEW f \in [0..m -> Nat], \A k \in 1..m : f[k - 1] + 2 <= f[k]
  PROVE  \A k \in 0..m : 2 * k <= f[k]
<1> DEFINE T == {k \in 0..m : ~(2 * k <= f[k])}
<1>1. T \in SUBSET Nat
  OBVIOUS
<1>2. ASSUME T # {} PROVE FALSE
  <2>1. PICK k \in T : \A l \in T : k <= l
    <3> HIDE DEF T
    <3>1. QED
      BY <1>1, <1>2, LeastElement
  <2>2. k \in 0..m /\ ~(2 * k <= f[k]) /\ f[k] \in Nat
    OBVIOUS
  <2>3. k # 0
    BY <2>2
  <2>4. k - 1 \in 0..m /\ ~(k <= k - 1) /\ k \in 1..m
    BY <2>2, <2>3
  <2>5. k - 1 \notin T
    BY <2>1, <2>4
  <2>6. 2 * (k - 1) <= f[k - 1] /\ f[k - 1] \in Nat
    BY <2>4, <2>5
  <2>7. f[k - 1] + 2 <= f[k]
    BY <2>4
  <2> HIDE DEF T
  <2>8. QED
    BY <2>2, <2>6, <2>7
<1>3. QED
  BY <1>2

\* An item of which there may not be all.
Begun(data, a, c) == \A j \in 1..Len(c) : a + j <= Len(data) => data[a + j] = c[j]

ReadAt(data, i, e, item) ==
  /\ i + 3 <= Len(data) => NextItem(data, i) = e
  /\ ~(i + 3 <= Len(data)) => NextItem(data, i) > Len(data) + 1
  /\ e <= Len(data) + 1 => u16_at(data, i) = item.offset /\ SubSeq(data, i + 4, e - 1) = item.value

\* Reading one item of those that were laid out.
LEMMA ReadChunk ==
  ASSUME NEW data \in Bytes, NEW c, NEW item, IsChunk(c, item), item.value \in Bytes,
         NEW a \in Nat, Begun(data, a, c),
         NEW i, i = a + 1, NEW e, e = i + Len(c)
  PROVE  i \in Nat /\ e \in Nat /\ i + 4 <= e /\ ReadAt(data, i, e, item)
<1>1. PICK n, v, w : n = Len(data) /\ v = item.value /\ w = Len(v)
  OBVIOUS
<1>2. n \in Nat /\ w \in Nat /\ v \in Bytes
  BY <1>1 DEF Bytes
<1>3. /\ Len(c) = 4 + w /\ 256 * c[1] + c[2] = item.offset /\ 256 * c[3] + c[4] = w
      /\ \A j \in 1..w : c[4 + j] = v[j]
  BY <1>1 DEF IsChunk
<1>4. i \in Nat /\ e \in Nat /\ e = i + 4 + w
  BY <1>2, <1>3
<1>5. \A j \in 1..4 + w : a + j <= n => data[a + j] = c[j]
  BY <1>1, <1>3 DEF Begun
<1>6. ASSUME i + 3 <= n PROVE NextItem(data, i) = e
  <2>1. 3 \in 1..4 + w /\ 4 \in 1..4 + w /\ a + 3 <= n /\ a + 4 <= n
    BY <1>2, <1>6
  <2>2. data[a + 3] = c[3] /\ data[a + 4] = c[4]
    BY <1>5, <2>1
  <2>3. i + 2 = a + 3 /\ i + 2 + 1 = a + 4
    OBVIOUS
  <2>4. u16_at(data, i + 2) = w
    BY <1>3, <2>2, <2>3 DEF u16_at
  <2>5. NextItem(data, i) = i + 4 + u16_at(data, i + 2)
    BY <1>1, <1>6 DEF NextItem
  <2>6. QED
    BY <1>4, <2>4, <2>5
<1>7. ASSUME ~(i + 3 <= n) PROVE NextItem(data, i) > n + 1
  <2>1. NextItem(data, i) = i + 4 + 0
    BY <1>1, <1>7 DEF NextItem
  <2>2. QED
    BY <1>2, <1>7, <2>1
<1>8. ASSUME e <= n + 1
      PROVE  u16_at(data, i) = item.offset /\ SubSeq(data, i + 4, e - 1) = v
  <2>1. 1 \in 1..4 + w /\ 2 \in 1..4 + w /\ a + 1 <= n /\ a + 2 <= n
    BY <1>2, <1>4, <1>8
  <2>2. data[a + 1] = c[1] /\ data[a + 2] = c[2]
    BY <1>5, <2>1
  <2>3. i + 1 = a + 2
    OBVIOUS
  <2>4. u16_at(data, i) = item.offset
    BY <1>3, <2>2, <2>3 DEF u16_at
  <2>5. ASSUME NEW j \in 1..w PROVE data[i + 3 + j] = v[j]
    <3>1. 4 + j \in 1..4 + w /\ a + (4 + j) <= n /\ a + (4 + j) = i + 3 + j
      BY <1>2, <1>4, <1>8
    <3>2. data[i + 3 + j] = c[4 + j]
      BY <1>5, <3>1
    <3>3. QED
      BY <1>3, <3>2
  <2>6. i + 3 \in Nat /\ i + 4 = (i + 3) + 1 /\ e - 1 = (i + 3) + w /\ e - 1 <= n
    BY <1>2, <1>4, <1>8
  <2>7. IsPart(v, data, i + 3, w, i + 4, e - 1)
    BY <1>1, <1>2, <2>5, <2>6 DEF IsPart
  <2>8. IsCut(v, data, i + 4, e - 1)
    BY <2>7, PartIs, Zenon
  <2>9. QED
    BY <2>4, <2>8 DEF IsCut
<1>9. i + 4 <= e
  BY <1>2, <1>4
<1>10. ReadAt(data, i, e, item)
  BY <1>1, <1>6, <1>7, <1>8 DEF ReadAt
<1>11. QED
  BY <1>4, <1>9, <1>10

\* How the walk ends is told by the first item that is not whole.
LEMMA BegunAt ==
  ASSUME NEW full, NEW q, NEW chunks, NEW p, Layout(full, q, chunks, p),
         NEW data, Prefix(data, full), NEW k \in 1..Len(chunks), NEW a, a = q + p[k - 1]
  PROVE  /\ Begun(data, a, chunks[k]) /\ a \in Nat /\ chunks[k] \in Bytes
         /\ q \in Nat /\ p[k] = p[k - 1] + Len(chunks[k]) /\ p[k - 1] \in Nat /\ p[k] \in Nat
<1>1. PICK c : c = chunks[k]
  OBVIOUS
<1>2. chunks \in Seq(Bytes) /\ IsEnds(p, chunks) /\ q \in Nat
  BY DEF Layout
<1>3. c \in Bytes
  BY <1>1, <1>2, ElementOf
<1>4. p[k - 1] \in Nat /\ p[k] \in Nat /\ p[k] = p[k - 1] + Len(c)
  <2>1. Len(chunks) \in Nat
    BY <1>2
  <2>2. k \in 0..Len(chunks) /\ k - 1 \in 0..Len(chunks)
    BY <2>1
  <2>3. QED
    BY <1>1, <1>2, <2>2 DEF IsEnds
<1>5. \A j \in 1..Len(c) : full[a + j] = c[j]
  BY <1>1 DEF Layout
<1>6. a \in Nat
  BY <1>2, <1>4
<1>7. ASSUME NEW j \in 1..Len(c), a + j <= Len(data) PROVE data[a + j] = c[j]
  <2>1. Len(data) \in Nat /\ Len(c) \in Nat
    BY <1>3 DEF Prefix, Bytes
  <2>2. a + j \in 1..Len(data)
    BY <1>6, <1>7, <2>1
  <2>3. data[a + j] = full[a + j]
    BY <2>2 DEF Prefix
  <2>4. QED
    BY <1>5, <2>3
<1>8. Begun(data, a, c)
  BY <1>7 DEF Begun
<1>9. QED
  BY <1>1, <1>2, <1>3, <1>4, <1>6, <1>8

\* What is read of items of which some bytes may be cut off: those that are
\* whole, and whether there are others.
ReadUpTo(data, full, read, items, w) ==
  /\ w \in 0..Len(items)
  /\ read = [k \in 1..w |-> items[k]]
  /\ w = Len(items) <=> Len(data) = Len(full)

\* Of items laid out one behind the other, of which a part has arrived, Items
\* reads those that are whole.
LEMMA ItemsAre ==
  ASSUME NEW full, NEW q, NEW chunks, NEW p, Layout(full, q, chunks, p),
         NEW items, Chunked(chunks, items), NEW data, Prefix(data, full), q <= Len(data),
         NEW pos, pos = q + 1, NEW m, m = Len(items)
  PROVE  \E w : /\ ReadUpTo(data, full, Items(data, pos, m).items, items, w)
                /\ Items(data, pos, m).end = "Complete" <=> w = m
                /\ Items(data, pos, m).end \in {"Complete", "TruncatedHeader", "ItemExceedsPayload"}
<1>1. /\ m \in Nat /\ m = Len(chunks) /\ q \in Nat /\ p \in [0..m -> Nat] /\ p[0] = 0
      /\ Len(full) = q + p[m]
  <2>1. chunks \in Seq(Bytes) /\ m = Len(chunks)
    BY DEF Layout, Chunked
  <2>2. QED
    BY <2>1 DEF Layout, IsEnds
<1>2. PICK n : n = Len(data)
  OBVIOUS
<1>3. n \in Nat /\ data \in Bytes /\ n <= q + p[m] /\ q <= n
  BY <1>1, <1>2 DEF Prefix, Bytes
<1>4. PICK most \in Nat : most = Min({m, n}) /\ most <= m /\ most <= n /\ (most = m \/ most = n)
  <2>1. Min({m, n}) \in {m, n} /\ \A x \in {m, n} : Min({m, n}) <= x
    BY <1>1, <1>3, MinIs
  <2>2. QED
    BY <1>1, <1>3, <2>1
<1> DEFINE ends == [k \in 0..m |-> q + 1 + p[k]]
<1>5. ends \in [0..m -> Nat] /\ \A k \in 0..m : ends[k] = q + 1 + p[k] /\ p[k] \in Nat
  BY <1>1
<1> HIDE DEF ends
<1>6. ASSUME NEW k \in 1..m
      PROVE  /\ ends[k] \in Nat /\ ends[k - 1] \in Nat /\ ends[k - 1] + 4 <= ends[k]
             /\ ReadAt(data, ends[k - 1], ends[k], items[k])
  <2>1. PICK a, c, i, e : a = q + p[k - 1] /\ c = chunks[k] /\ i = ends[k - 1] /\ e = ends[k]
    OBVIOUS
  <2>2. k \in 1..Len(chunks) /\ k \in 0..m /\ k - 1 \in 0..m
    BY <1>1
  <2>3. Begun(data, a, c) /\ a \in Nat /\ p[k] = p[k - 1] + Len(c) /\ p[k - 1] \in Nat /\ c \in Bytes
    BY <2>1, <2>2, BegunAt
  <2>4. IsChunk(c, items[k]) /\ items[k].value \in Bytes
    <3>1. items \in Seq([offset : U16, value : Bytes]) /\ IsChunk(c, items[k]) /\ k \in 1..Len(items)
      BY <2>1, <2>2 DEF Chunked
    <3>2. items[k] \in [offset : U16, value : Bytes]
      BY <3>1, ElementOf
    <3>3. QED
      BY <3>1, <3>2
  <2>5. i = a + 1 /\ e = i + Len(c)
    <3>1. Len(c) \in Nat
      BY <2>3 DEF Bytes
    <3>2. i = q + 1 + p[k - 1] /\ e = q + 1 + p[k]
      BY <1>5, <2>1, <2>2
    <3>3. PICK x, y, z : x = p[k - 1] /\ y = p[k] /\ z = Len(c)
      OBVIOUS
    <3>4. a = q + x /\ i = q + 1 + x /\ e = q + 1 + y /\ y = x + z /\ x \in Nat /\ z \in Nat /\ q \in Nat
      BY <1>1, <2>1, <2>3, <3>1, <3>2, <3>3
    <3>5. i = a + 1 /\ e = i + z
      BY <3>4
    <3>6. QED
      BY <3>3, <3>5
  <2>6. i \in Nat /\ e \in Nat /\ i + 4 <= e /\ ReadAt(data, i, e, items[k])
    BY <1>3, <2>3, <2>4, <2>5, ReadChunk
  <2>7. QED
    BY <2>1, <2>6
<1>7. PICK at, w : /\ ItemsWalk(data, pos, most, at)
                   /\ w = Max({k \in 0..most : at[k] <= Len(data) + 1})
                   /\ ItemsRead(data, pos, m, at, w)
  <2>1. pos \in Nat /\ most = Min({m, Len(data)})
    BY <1>1, <1>2, <1>4
  <2>2. QED
    BY <1>1, <1>3, <2>1, ItemsRun
<1>8. w = Max({k \in 0..most : at[k] <= n + 1}) /\ ItemsRead(data, pos, m, at, w)
  BY <1>2, <1>7
<1>9. at \in [0..most -> Nat] /\ at[0] = pos /\ \A k \in 1..most : at[k] = NextItem(data, at[k - 1])
  BY <1>7 DEF ItemsWalk
<1>10. Walks(n, m, ends, most, at)
  <2>1. \A k \in 1..m : ends[k - 1] <= ends[k]
    <3>1. ASSUME NEW k \in 1..m PROVE ends[k - 1] <= ends[k]
      <4>1. ends[k] \in Nat /\ ends[k - 1] \in Nat /\ ends[k - 1] + 4 <= ends[k]
        BY <1>6
      <4>2. QED
        BY <4>1
    <3>2. QED
      BY <3>1
  <2>2. ASSUME NEW k \in 1..most PROVE at[k - 1] < at[k]
    <3>1. k \in 0..most /\ k - 1 \in 0..most
      OBVIOUS
    <3>2. at[k - 1] \in Nat /\ at[k] \in Nat /\ at[k] = NextItem(data, at[k - 1])
      BY <1>9, <3>1
    <3>3. at[k - 1] + 4 <= at[k]
      BY <1>3, <3>2, NextItemIs
    <3>4. QED
      BY <3>2, <3>3
  <2>3. at[0] = ends[0] /\ ends[0] <= n + 1 /\ n + 1 <= ends[m]
    <3>1. 0 \in 0..m /\ m \in 0..m
      BY <1>1
    <3>2. ends[0] = q + 1 + 0 /\ ends[m] = q + 1 + p[m] /\ p[m] \in Nat
      BY <1>1, <1>5, <3>1
    <3>3. QED
      BY <1>1, <1>3, <1>9, <3>2
  <2>4. \A k \in 0..m : ends[k] <= n + 1 => k <= most
    <3>1. \A k \in 1..m : p[k - 1] + 2 <= p[k]
      <4>1. ASSUME NEW k \in 1..m PROVE p[k - 1] + 2 <= p[k]
        <5>1. k \in 0..m /\ k - 1 \in 0..m
          BY <1>1
        <5>2. ends[k - 1] + 4 <= ends[k] /\ ends[k] = q + 1 + p[k] /\ ends[k - 1] = q + 1 + p[k - 1]
              /\ p[k] \in Nat /\ p[k - 1] \in Nat
          BY <1>5, <1>6, <5>1
        <5>3. QED
          BY <1>1, <5>2
      <4>2. QED
        BY <4>1
    <3>2. \A k \in 0..m : 2 * k <= p[k]
      BY <1>1, <3>1, EndsGrow
    <3>3. ASSUME NEW k \in 0..m, ends[k] <= n + 1 PROVE k <= most
      <4>1. ends[k] = q + 1 + p[k] /\ p[k] \in Nat /\ 2 * k <= p[k]
        BY <1>5, <3>2
      <4>2. k <= n /\ k <= m
        BY <1>1, <1>3, <3>3, <4>1
      <4>3. QED
        BY <1>4, <4>2
    <3>4. QED
      BY <3>3
  <2>5. ASSUME NEW k \in 1..m, k <= most /\ at[k - 1] = ends[k - 1]
        PROVE  at[k] = ends[k] \/ (at[k] > n + 1 /\ ends[k] > n + 1)
    <3>1. k \in 1..most
      BY <1>1, <2>5
    <3>2. at[k] = NextItem(data, ends[k - 1])
      BY <1>9, <2>5, <3>1
    <3>3. ends[k] \in Nat /\ ends[k - 1] \in Nat /\ ends[k - 1] + 4 <= ends[k]
      BY <1>6
    <3>4. ends[k - 1] + 3 <= n => at[k] = ends[k]
      BY <1>2, <1>6, <3>2 DEF ReadAt
    <3>5. ~(ends[k - 1] + 3 <= n) => at[k] > n + 1
      BY <1>2, <1>6, <3>2 DEF ReadAt
    <3>6. ~(ends[k - 1] + 3 <= n) => ends[k] > n + 1
      BY <1>3, <3>3
    <3>7. QED
      BY <3>4, <3>5, <3>6
  <2>6. QED
    BY <1>1, <1>3, <1>4, <1>5, <1>9, <2>1, <2>2, <2>3, <2>4, <2>5 DEF Walks
<1>11. w \in 0..most /\ Walked(n, m, ends, at, w)
  BY <1>8, <1>10, WalkIs
<1>12. /\ w \in 0..m /\ ends[w] <= n + 1 /\ \A k \in 0..w : at[k] = ends[k]
       /\ \A k \in w + 1..m : ends[k] > n + 1
  BY <1>11 DEF Walked
<1>13. ASSUME NEW k \in 1..w
       PROVE  [offset |-> u16_at(data, at[k - 1]),
               value |-> SubSeq(data, at[k - 1] + 4, at[k] - 1)] = items[k]
  <2>1. k \in 1..m /\ k \in 0..w /\ k - 1 \in 0..w /\ k \in 0..m /\ w \in 0..m /\ k <= w
    BY <1>1, <1>12
  <2>2. ends[k] <= n + 1
    <3>1. \A j \in 1..m : ends[j - 1] <= ends[j]
      BY <1>10 DEF Walks
    <3>2. ends[k] <= ends[w]
      BY <1>1, <1>5, <2>1, <3>1, Monotone
    <3>3. ends[k] \in Nat /\ ends[w] \in Nat
      BY <1>5, <2>1
    <3>4. QED
      BY <1>3, <1>12, <3>2, <3>3
  <2>3. ReadAt(data, ends[k - 1], ends[k], items[k])
    BY <1>6, <2>1
  <2>4. /\ u16_at(data, ends[k - 1]) = items[k].offset
        /\ SubSeq(data, ends[k - 1] + 4, ends[k] - 1) = items[k].value
    BY <1>2, <2>2, <2>3 DEF ReadAt
  <2>5. items[k] \in [offset : U16, value : Bytes]
    <3>1. items \in Seq([offset : U16, value : Bytes]) /\ k \in 1..Len(items)
      BY <1>1, <2>1 DEF Chunked
    <3>2. QED
      BY <3>1, ElementOf
  <2>6. at[k - 1] = ends[k - 1] /\ at[k] = ends[k]
    BY <1>12, <2>1
  <2>7. items[k] = [offset |-> items[k].offset, value |-> items[k].value]
    BY <2>5
  <2>8. QED
    BY <2>4, <2>6, <2>7
<1>14. ItemsOf(data, at, w) = [k \in 1..w |-> items[k]]
  BY <1>13 DEF ItemsOf
<1>15. w = m <=> n = Len(full)
  <2>1. ASSUME w = m PROVE n = Len(full)
    <3>1. ends[m] <= n + 1 /\ ends[m] = q + 1 + p[m] /\ p[m] \in Nat
      BY <1>1, <1>5, <1>12, <2>1
    <3>2. QED
      BY <1>1, <1>3, <3>1
  <2>2. ASSUME n = Len(full), w # m PROVE FALSE
    <3>1. m \in w + 1..m /\ m \in 0..m
      BY <1>1, <1>12, <2>2
    <3>2. ends[m] > n + 1 /\ ends[m] = q + 1 + p[m] /\ p[m] \in Nat
      BY <1>5, <1>12, <3>1
    <3>3. QED
      BY <1>1, <1>3, <2>2, <3>2
  <2>3. QED
    BY <2>1, <2>2
<1>16. ReadUpTo(data, full, Items(data, pos, m).items, items, w)
  BY <1>1, <1>2, <1>8, <1>12, <1>14, <1>15 DEF ReadUpTo, ItemsRead
<1>17. QED
  BY <1>8, <1>16 DEF ItemsRead

-----------------------------------------------------------------------------
(* Requests and replies.                                                   *)

\* A list of all elements of a set, each once.
Lists(s, T) ==
  /\ s \in Seq(T) /\ Len(s) = Cardinality(T)
  /\ \A x \in T : \E k \in 1..Len(s) : s[k] = x
  /\ \A j, k \in 1..Len(s) : s[j] = s[k] => j = k

\* InOrder lists the elements of a set by their offsets.
LEMMA InOrderIs ==
  ASSUME NEW items, IsFiniteSet(items), \A i \in items : i.offset \in Int,
         \A i, j \in items : i.offset = j.offset => i = j
  PROVE  Lists(InOrder(items), items)
<1> DEFINE f == [i \in items |-> i.offset]
           c == Cardinality(items)
           rank(i) == Cardinality({j \in items : j.offset < i.offset})
           s == InOrder(items)
<1>1. \A i \in items : Rank(items, f, i) = rank(i)
  <2>1. ASSUME NEW i \in items PROVE Rank(items, f, i) = rank(i)
    <3>1. {y \in items : f[y] < f[i]} = {j \in items : j.offset < i.offset}
      OBVIOUS
    <3>2. QED
      BY <3>1 DEF Rank
  <2>2. QED
    BY <2>1
<1>2. Ranked(items, f)
  <2>1. Keyed(items, f)
    BY DEF Keyed
  <2> HIDE DEF f
  <2>2. QED
    BY <2>1, Ranks
<1>3. c \in Nat
  BY <1>2 DEF Ranked
<1>4. \A i \in items : rank(i) \in 0..c - 1
  <2> HIDE DEF f, rank
  <2>1. QED
    BY <1>1, <1>2 DEF Ranked
<1>5. \A i, j \in items : rank(i) = rank(j) => i = j
  <2>1. ASSUME NEW i \in items, NEW j \in items, rank(i) = rank(j), i # j PROVE FALSE
    <3>1. f[i] < f[j] \/ f[j] < f[i]
      BY <2>1
    <3>2. Rank(items, f, i) < Rank(items, f, j) \/ Rank(items, f, j) < Rank(items, f, i)
      <4> HIDE DEF f, rank
      <4>1. QED
        BY <1>2, <3>1 DEF Ranked
    <3>3. rank(i) < rank(j) \/ rank(j) < rank(i)
      <4> HIDE DEF f, rank
      <4>1. QED
        BY <1>1, <3>2
    <3>4. rank(i) \in Int
      <4> HIDE DEF rank
      <4>1. QED
        BY <1>3, <1>4
    <3> HIDE DEF rank
    <3>5. QED
      BY <2>1, <3>3, <3>4
  <2> HIDE DEF rank
  <2>2. QED
    BY <2>1
<1>6. \A k \in 1..c : \E i \in items : rank(i) = k - 1
  <2> HIDE DEF f, rank
  <2>1. QED
    BY <1>1, <1>2 DEF Ranked
<1>7. s = [k \in 1..c |-> CHOOSE i \in items : rank(i) = k - 1]
  BY DEF InOrder
<1> HIDE DEF rank, s
<1>8. \A k \in 1..c : s[k] \in items /\ rank(s[k]) = k - 1
  <2>1. ASSUME NEW k \in 1..c PROVE s[k] \in items /\ rank(s[k]) = k - 1
    <3>1. s[k] = CHOOSE i \in items : rank(i) = k - 1
      BY <1>7
    <3>2. QED
      BY <1>6, <3>1
  <2>2. QED
    BY <2>1
<1>9. s \in Seq(items) /\ Len(s) = c
  <2>1. s \in [1..c -> items]
    BY <1>7, <1>8
  <2>2. QED
    BY <1>3, <2>1
<1>10. \A x \in items : \E k \in 1..c : s[k] = x
  <2>1. ASSUME NEW x \in items PROVE \E k \in 1..c : s[k] = x
    <3>1. PICK r : r = rank(x)
      OBVIOUS
    <3>2. r \in 0..c - 1
      BY <1>4, <3>1
    <3>3. r + 1 \in 1..c /\ (r + 1) - 1 = r
      BY <1>3, <3>2
    <3>4. s[r + 1] \in items /\ rank(s[r + 1]) = r
      BY <1>8, <3>3
    <3>5. s[r + 1] = x
      BY <1>5, <3>1, <3>4
    <3>6. QED
      BY <3>3, <3>5
  <2>2. QED
    BY <2>1
<1>11. \A j, k \in 1..c : s[j] = s[k] => j = k
  <2>1. ASSUME NEW j \in 1..c, NEW k \in 1..c, s[j] = s[k] PROVE j = k
    <3>1. j - 1 = k - 1
      BY <1>8, <2>1
    <3>2. QED
      BY <1>3, <3>1
  <2>2. QED
    BY <2>1
<1>12. Lists(s, items)
  BY <1>9, <1>10, <1>11 DEF Lists
<1>13. QED
  BY <1>12 DEF s

Headed(full, q, m, chunks) ==
  (\E p : Layout(full, q + 2, chunks, p)) /\ u16_at(full, q + 1) = m

\* The count in front of the items.
LEMMA HeadIs ==
  ASSUME NEW head \in Bytes, NEW m \in U16, NEW chunks \in Seq(Bytes), NEW q, q = Len(head),
         NEW full, full = head \o be16(m) \o FlattenSeq(chunks)
  PROVE  Headed(full, q, m, chunks)
<1> DEFINE b == be16(m)
           h == head \o b
<1>1. b \in Bytes /\ Len(b) = 2 /\ u16_at(b, 1) = m
  BY Be16Is
<1> HIDE DEF b
<1>2. IsConcat(Byte, h, head, b)
  BY <1>1, Concatenation, Zenon DEF Bytes
<1>3. q \in Nat
  BY DEF Bytes
<1>4. full = h \o FlattenSeq(chunks)
  BY DEF h, b
<1> HIDE DEF h
<1>5. h \in Bytes /\ Len(h) = q + 2 /\ \A i \in 1..2 : h[q + i] = b[i]
  BY <1>1, <1>2 DEF IsConcat, Bytes
<1>6. /\ \E p : Layout(h \o FlattenSeq(chunks), Len(h), chunks, p)
      /\ \A i \in 1..Len(h) : (h \o FlattenSeq(chunks))[i] = h[i]
  BY <1>5, LayoutOf
<1>7. /\ \E p : Layout(full, q + 2, chunks, p)
      /\ \A i \in 1..q + 2 : full[i] = h[i]
  BY <1>4, <1>5, <1>6
<1>8. full[q + 1] = b[1] /\ full[q + 2] = b[2]
  <2>1. q + 1 \in 1..q + 2 /\ q + 2 \in 1..q + 2 /\ 1 \in 1..2 /\ 2 \in 1..2
    BY <1>3
  <2>2. full[q + 1] = h[q + 1] /\ full[q + 2] = h[q + 2] /\ h[q + 1] = b[1] /\ h[q + 2] = b[2]
    BY <1>5, <1>7, <2>1
  <2>3. QED
    BY <2>2
<1>9. q + 1 + 1 = q + 2
  BY <1>3
<1>10. u16_at(full, q + 1) = m
  <2>1. u16_at(full, q + 1) = 256 * full[q + 1] + full[q + 2]
    BY <1>9 DEF u16_at
  <2>2. 256 * b[1] + b[2] = m
    BY <1>1 DEF u16_at
  <2>3. QED
    BY <1>8, <2>1, <2>2
<1>11. QED
  BY <1>7, <1>10 DEF Headed

ItemRecord == [offset : U16, value : Bytes]

\* Items and what they look like in a payload.
IsItems(items) ==
  /\ items \in Seq(ItemRecord)
  /\ \A k \in 1..Len(items) : Len(items[k].value) \in U16

\* Item gives for each item a chunk of that kind.
LEMMA ItemsChunked ==
  ASSUME NEW items, IsItems(items), NEW chunks, chunks = EachTo(Item, items)
  PROVE  chunks \in Seq(Bytes) /\ Len(chunks) = Len(items) /\ Chunked(chunks, items)
<1>1. items \in Seq(ItemRecord) /\ Len(items) \in Nat /\ DOMAIN items = 1..Len(items)
  BY DEF IsItems
<1>2. chunks = [k \in 1..Len(items) |-> Item(items[k])]
  BY <1>1 DEF EachTo
<1>3. ASSUME NEW k \in 1..Len(items) PROVE chunks[k] \in Bytes /\ IsChunk(chunks[k], items[k])
  <2>1. items[k] \in ItemRecord /\ Len(items[k].value) \in U16
    BY <1>1, ElementOf DEF IsItems
  <2>2. PICK i : i = items[k]
    OBVIOUS
  <2>3. IsItem(i)
    BY <2>1, <2>2 DEF IsItem, ItemRecord
  <2>4. PICK h : h = be16(i.offset) \o be16(Len(i.value))
    OBVIOUS
  <2>5. IsChunk(h \o i.value, i)
    BY <2>3, <2>4, ChunkIs
  <2>6. Item(i) = h \o i.value
    BY <2>4, Zenon DEF Item
  <2>7. chunks[k] = Item(i)
    BY <1>2, <2>2
  <2>8. IsChunk(chunks[k], items[k])
    BY <2>2, <2>5, <2>6, <2>7
  <2>9. QED
    BY <2>8 DEF IsChunk
<1>4. chunks \in [1..Len(items) -> Bytes]
  BY <1>2, <1>3
<1>5. chunks \in Seq(Bytes) /\ Len(chunks) = Len(items)
  BY <1>1, <1>4
<1>6. Chunked(chunks, items)
  BY <1>1, <1>3, <1>5 DEF Chunked, ItemRecord
<1>7. QED
  BY <1>5, <1>6

\* Items read one by one are all the items.
LEMMA AllRead ==
  ASSUME NEW items \in Seq(ItemRecord), NEW read, read = [k \in 1..Len(items) |-> items[k]]
  PROVE  read = items
OBVIOUS

\* What the client makes of what it receives of an answer to get.
LEMMA ReplyRead ==
  ASSUME NEW items, IsItems(items), NEW m \in U16, m = Len(items),
         NEW full, full = be16(m) \o FlattenSeq(EachTo(Item, items)),
         NEW data, Prefix(data, full)
  PROVE  /\ parse_response(data).status \in
              {"ok", "PayloadTooShort", "TruncatedHeader", "ItemExceedsPayload"}
         /\ parse_response(data).status # "ok" => parse_response(data).config = <<>>
         /\ parse_response(data).status = "ok" =>
              Len(data) = Len(full) /\ parse_response(data).config = MapOf(EachTo(Entry, items))
<1> DEFINE chunks == EachTo(Item, items)
           head == be16(m)
<1>1. chunks \in Seq(Bytes) /\ Len(chunks) = Len(items) /\ Chunked(chunks, items)
  BY ItemsChunked
<1>2. head \in Bytes /\ Len(head) = 2 /\ u16_at(head, 1) = m
  BY Be16Is
<1> HIDE DEF chunks, head
<1>3. PICK p : Layout(head \o FlattenSeq(chunks), Len(head), chunks, p)
  BY <1>1, <1>2, LayoutOf
<1>4. full = head \o FlattenSeq(chunks)
  BY DEF head, chunks
<1>5. Layout(full, 2, chunks, p)
  BY <1>2, <1>3, <1>4
<1>6. full[1] = head[1] /\ full[2] = head[2]
  <2>1. \A i \in 1..Len(head) : (head \o FlattenSeq(chunks))[i] = head[i]
    BY <1>1, <1>2, LayoutOf
  <2>2. \A i \in 1..2 : full[i] = head[i]
    <3>1. PICK whole : whole = head \o FlattenSeq(chunks)
      OBVIOUS
    <3>2. \A i \in 1..2 : whole[i] = head[i]
      BY <1>2, <2>1, <3>1
    <3>3. full = whole
      BY <1>4, <3>1, Zenon
    <3>4. QED
      BY <3>2, <3>3
  <2>3. 1 \in 1..2 /\ 2 \in 1..2
    OBVIOUS
  <2>4. QED
    BY <2>2, <2>3, Zenon
<1>7. CASE Len(data) < 2
  BY <1>7 DEF parse_response
<1>8. CASE ~(Len(data) < 2)
  <2>1. Len(data) \in Nat /\ 2 <= Len(data)
    BY <1>8 DEF Prefix, Bytes
  <2>2. u16_at(data, 1) = m
    <3>1. data[1] = full[1] /\ data[2] = full[2]
      <4>1. 1 \in 1..Len(data) /\ 2 \in 1..Len(data)
        BY <2>1
      <4>2. QED
        BY <4>1 DEF Prefix
    <3>2. 256 * head[1] + head[2] = m
      BY <1>2 DEF u16_at
    <3>3. QED
      BY <1>6, <3>1, <3>2 DEF u16_at
  <2>3. PICK w : /\ ReadUpTo(data, full, Items(data, 3, m).items, items, w)
                 /\ Items(data, 3, m).end = "Complete" <=> w = m
                 /\ Items(data, 3, m).end \in {"Complete", "TruncatedHeader", "ItemExceedsPayload"}
    <3>1. 3 = 2 + 1
      OBVIOUS
    <3>2. QED
      BY <1>1, <1>5, <2>1, <3>1, ItemsAre
  <2>4. PICK walk : walk = Items(data, 3, m)
    OBVIOUS
  <2>5. parse_response(data) = IF walk.end = "Complete"
                               THEN [status |-> "ok", config |-> MapOf(EachTo(Entry, walk.items))]
                               ELSE [status |-> walk.end, config |-> <<>>]
    BY <1>8, <2>2, <2>4 DEF parse_response
  <2>6. CASE walk.end = "Complete"
    <3>1. w = m /\ Len(data) = Len(full) /\ walk.items = [k \in 1..Len(items) |-> items[k]]
      BY <2>3, <2>4, <2>6 DEF ReadUpTo
    <3>2. walk.items = items
      BY <3>1, AllRead DEF IsItems
    <3>3. QED
      BY <2>5, <2>6, <3>1, <3>2
  <2>7. CASE walk.end # "Complete"
    BY <2>3, <2>4, <2>5, <2>7
  <2>8. QED
    BY <2>6, <2>7
<1>9. QED
  BY <1>7, <1>8

\* The credentials are 32 bytes.
LEMMA CredentialsAre == Credentials \in Bytes /\ Len(Credentials) = 32
<1>1. \A i \in 1..32 : (IF i <= Len(<<>>) THEN <<>>[i] ELSE 0) \in Byte
  BY ByteDef
<1>2. Credentials = [i \in 1..32 |-> IF i <= Len(<<>>) THEN <<>>[i] ELSE 0]
  BY DEF Credentials, CREDENTIAL_FIELDS, Resize
<1>3. Credentials \in [1..32 -> Byte]
  BY <1>1, <1>2
<1>4. ASSUME NEW n \in Nat, NEW s \in [1..n -> Byte] PROVE s \in Seq(Byte) /\ Len(s) = n
  OBVIOUS
<1>5. 32 \in Nat
  OBVIOUS
<1>6. QED
  BY <1>3, <1>4, <1>5, Zenon DEF Bytes

\* Parts of four bytes.
LEMMA EndsByFour ==
  ASSUME NEW m \in Nat, NEW f \in [0..m -> Nat], f[0] = 0, \A k \in 1..m : f[k] = f[k - 1] + 4
  PROVE  \A k \in 0..m : f[k] = 4 * k
<1> DEFINE T == {k \in 0..m : f[k] # 4 * k}
<1>1. T \in SUBSET Nat
  OBVIOUS
<1>2. ASSUME T # {} PROVE FALSE
  <2>1. PICK k \in T : \A l \in T : k <= l
    <3> HIDE DEF T
    <3>1. QED
      BY <1>1, <1>2, LeastElement
  <2>2. k \in 0..m /\ f[k] # 4 * k
    OBVIOUS
  <2>3. k # 0
    BY <2>2
  <2>4. k - 1 \in 0..m /\ ~(k <= k - 1) /\ k \in 1..m
    BY <2>2, <2>3
  <2>5. k - 1 \notin T
    BY <2>1, <2>4
  <2>6. f[k - 1] = 4 * (k - 1)
    BY <2>4, <2>5
  <2>7. f[k] = f[k - 1] + 4
    BY <2>4
  <2> HIDE DEF T
  <2>8. QED
    BY <2>2, <2>6, <2>7
<1>3. QED
  BY <1>2

\* The four bytes that ask for a row.
LEMMA HeaderIs ==
  ASSUME NEW row, row.offset \in U16, row.length \in U16, NEW c, c = Header(row)
  PROVE  c \in Bytes /\ Len(c) = 4 /\ 256 * c[1] + c[2] = row.offset
<1> DEFINE a == be16(row.offset)
           b == be16(row.length)
<1>1. a \in Bytes /\ Len(a) = 2 /\ u16_at(a, 1) = row.offset /\ b \in Bytes /\ Len(b) = 2
  BY Be16Is
<1>2. IsConcat(Byte, a \o b, a, b)
  BY <1>1, Concatenation, Zenon DEF Bytes
<1>3. c = a \o b
  BY DEF Header
<1> HIDE DEF a, b
<1>4. IsConcat(Byte, c, a, b)
  BY <1>2, <1>3, Zenon
<1>5. c \in Bytes /\ Len(c) = 4 /\ c[1] = a[1] /\ c[2] = a[2]
  BY <1>1, <1>4 DEF IsConcat, Bytes
<1>6. QED
  BY <1>1, <1>5 DEF u16_at

\* A request names the offsets of its rows.
Requestable(rows, m) ==
  /\ m \in U16 /\ m = Len(rows) /\ DOMAIN rows = 1..m
  /\ \A k \in 1..m : rows[k].offset \in U16 /\ rows[k].length \in U16

Requests(payload, rows, m) ==
  /\ ~(Len(payload) < CREDENTIAL_FIELDS + 2)
  /\ Count(payload) = m
  /\ Offsets(payload, FirstItem, m) = [k \in 1..m |-> rows[k].offset]

\* The device reads the offsets a request names.
LEMMA OffsetsRead ==
  ASSUME NEW rows, NEW m, Requestable(rows, m),
         NEW payload, payload = Credentials \o be16(m) \o FlattenSeq(EachTo(Header, rows))
  PROVE  Requests(payload, rows, m)
<1>0. /\ m \in U16 /\ m = Len(rows) /\ DOMAIN rows = 1..m
      /\ \A k \in 1..m : rows[k].offset \in U16 /\ rows[k].length \in U16
  BY DEF Requestable
<1> DEFINE chunks == EachTo(Header, rows)
<1>1. m \in Nat
  BY <1>0, U16Def
<1>2. chunks = [k \in 1..m |-> Header(rows[k])]
  BY <1>0 DEF EachTo
<1>3. \A k \in 1..m : /\ chunks[k] \in Bytes /\ Len(chunks[k]) = 4
                      /\ 256 * chunks[k][1] + chunks[k][2] = rows[k].offset
  <2>1. ASSUME NEW k \in 1..m
        PROVE  chunks[k] \in Bytes /\ Len(chunks[k]) = 4 /\ 256 * chunks[k][1] + chunks[k][2] = rows[k].offset
    <3>1. PICK row, c : row = rows[k] /\ c = Header(row) /\ c = chunks[k]
      BY <1>2
    <3>2. row.offset \in U16 /\ row.length \in U16
      BY <1>0, <3>1
    <3>3. c \in Bytes /\ Len(c) = 4 /\ 256 * c[1] + c[2] = row.offset
      BY <3>1, <3>2, HeaderIs
    <3>4. QED
      BY <3>1, <3>3
  <2>2. QED
    BY <2>1
<1>4. chunks \in Seq(Bytes) /\ Len(chunks) = m
  <2>1. chunks \in [1..m -> Bytes]
    BY <1>2, <1>3
  <2> HIDE DEF chunks
  <2>2. QED
    BY <1>1, <2>1
<1>5. payload = Credentials \o be16(m) \o FlattenSeq(chunks)
  OBVIOUS
<1> HIDE DEF chunks
<1>6. /\ \E p : Layout(payload, 34, chunks, p)
      /\ u16_at(payload, 33) = m
  <2>1. PICK q : q = Len(Credentials)
    OBVIOUS
  <2>2. Headed(payload, q, m, chunks)
    <3>1. Credentials \in Bytes
      BY CredentialsAre
    <3>2. QED
      BY <1>0, <1>4, <1>5, <2>1, <3>1, HeadIs
  <2>3. q + 2 = 34 /\ q + 1 = 33
    BY <2>1, CredentialsAre
  <2>4. QED
    BY <2>2, <2>3 DEF Headed
<1>7. PICK p : Layout(payload, 34, chunks, p)
  BY <1>6
<1>8. /\ Len(payload) = 34 + p[m] /\ p \in [0..m -> Nat] /\ p[0] = 0
      /\ \A k \in 1..m : p[k] = p[k - 1] + Len(chunks[k])
      /\ \A k \in 1..m : \A j \in 1..Len(chunks[k]) : payload[34 + p[k - 1] + j] = chunks[k][j]
  BY <1>4, <1>7 DEF Layout, IsEnds
<1>9. \A k \in 0..m : p[k] = 4 * k
  <2>1. \A k \in 1..m : p[k] = p[k - 1] + 4
    BY <1>3, <1>8
  <2>2. QED
    BY <1>1, <1>8, <2>1, EndsByFour
<1>10. Len(payload) = 34 + 4 * m
  <2>1. m \in 0..m
    BY <1>1
  <2>2. QED
    BY <1>8, <1>9, <2>1
<1>11. ASSUME NEW k \in 1..m PROVE u16_at(payload, 35 + 4 * (k - 1)) = rows[k].offset
  <2>1. k - 1 \in 0..m
    BY <1>1
  <2>2. p[k - 1] = 4 * (k - 1)
    BY <1>9, <2>1
  <2>3. payload[34 + p[k - 1] + 1] = chunks[k][1] /\ payload[34 + p[k - 1] + 2] = chunks[k][2]
    <3>1. 1 \in 1..Len(chunks[k]) /\ 2 \in 1..Len(chunks[k])
      BY <1>3
    <3>2. QED
      BY <1>8, <3>1
  <2>4. 35 + 4 * (k - 1) = 34 + p[k - 1] + 1 /\ 35 + 4 * (k - 1) + 1 = 34 + p[k - 1] + 2
    BY <1>1, <2>2
  <2>5. u16_at(payload, 35 + 4 * (k - 1)) = 256 * payload[34 + p[k - 1] + 1] + payload[34 + p[k - 1] + 2]
    BY <2>4 DEF u16_at
  <2>6. QED
    BY <1>3, <2>3, <2>5
<1>12. Min({m, (Len(payload) + 1 - 35) \div 4}) = m
  <2>1. (Len(payload) + 1 - 35) \div 4 = m
    <3>1. Len(payload) + 1 - 35 = 4 * m
      BY <1>1, <1>10
    <3>2. (4 * m) \div 4 = m
      BY <1>1
    <3>3. QED
      BY <3>1, <3>2
  <2>2. {m, m} \in SUBSET Nat /\ {m, m} # {}
    BY <1>1
  <2>3. Min({m, m}) = m
    BY <2>2, MinIs
  <2>4. QED
    BY <2>1, <2>3
<1>13. Offsets(payload, 35, m) = [k \in 1..m |-> rows[k].offset]
  BY <1>11, <1>12 DEF Offsets
<1>14. FirstItem = 35 /\ CREDENTIAL_FIELDS + 2 = 34 /\ Count(payload) = m
  BY <1>6 DEF FirstItem, CREDENTIAL_FIELDS, Count
<1>15. ~(Len(payload) < CREDENTIAL_FIELDS + 2)
  BY <1>1, <1>10, <1>14
<1>16. QED
  BY <1>13, <1>14, <1>15 DEF Requests

\* A part from the start is a prefix.
LEMMA CutIsPrefix ==
  ASSUME NEW full \in Bytes, NEW n \in 0..Len(full)
  PROVE  Prefix(SubSeq(full, 1, n), full) /\ Prefix(full, full)
<1> DEFINE cut == SubSeq(full, 1, n)
<1>1. Len(full) \in Nat /\ n <= Len(full) /\ n \in Nat
  BY DEF Bytes
<1>2. cut \in Seq(Byte) /\ Len(cut) = n /\ \A i \in 1..n : cut[i] = full[i]
  BY <1>1 DEF Bytes
<1> HIDE DEF cut
<1>3. Prefix(cut, full)
  BY <1>1, <1>2 DEF Prefix, Bytes
<1>4. Prefix(full, full)
  BY <1>1 DEF Prefix
<1>5. QED
  BY <1>3, <1>4 DEF cut

\* A walk that ends with the last item it was to read has room for all of them.
LEMMA CompleteWalk ==
  ASSUME NEW data \in Bytes, NEW pos \in Nat, NEW count \in Nat, pos <= Len(data) + 1,
         Items(data, pos, count).end = "Complete"
  PROVE  count <= Len(data) /\ \E at : ItemsWalk(data, pos, count, at) /\ at[count] <= Len(data) + 1
<1>1. Len(data) \in Nat
  BY DEF Bytes
<1>2. PICK most \in Nat : most = Min({count, Len(data)}) /\ most <= Len(data)
  <2>1. Min({count, Len(data)}) \in {count, Len(data)} /\ \A x \in {count, Len(data)} : Min({count, Len(data)}) <= x
    BY <1>1, MinIs
  <2>2. QED
    BY <1>1, <2>1
<1>3. PICK at, w : /\ ItemsWalk(data, pos, most, at)
                   /\ w = Max({k \in 0..most : at[k] <= Len(data) + 1})
                   /\ ItemsRead(data, pos, count, at, w)
  BY <1>2, ItemsRun
<1>4. w = count
  BY <1>3 DEF ItemsRead
<1>5. w \in 0..most /\ at[w] <= Len(data) + 1
  <2> DEFINE A == {k \in 0..most : at[k] <= Len(data) + 1}
  <2>1. A \in SUBSET Nat /\ A # {} /\ \A k \in A : k <= most
    <3>1. at[0] <= Len(data) + 1 /\ 0 \in 0..most
      BY <1>3 DEF ItemsWalk
    <3>2. QED
      BY <3>1
  <2> HIDE DEF A
  <2>2. Max(A) \in A
    BY <1>2, <2>1, MaxIs
  <2>3. QED
    BY <1>3, <2>2 DEF A
<1>6. most = count /\ count <= Len(data)
  <2>1. most <= count
    <3>1. Min({count, Len(data)}) <= count
      BY <1>1, MinIs
    <3>2. QED
      BY <1>2, <3>1
  <2>2. QED
    BY <1>1, <1>2, <1>4, <1>5, <2>1
<1>7. QED
  BY <1>3, <1>4, <1>5, <1>6

\* What a count without items, and an item without its bytes, are taken for.
Unreadable(data) ==
  parse_response(data).status \in {"PayloadTooShort", "TruncatedHeader", "ItemExceedsPayload"}
    /\ parse_response(data).config = <<>>

\* A walk that is not complete fails.
LEMMA NotComplete ==
  ASSUME NEW data, 2 <= Len(data) => Items(data, 3, u16_at(data, 1)).end # "Complete", Len(data) \in Nat
  PROVE  Unreadable(data)
<1>1. CASE Len(data) < 2
  BY <1>1 DEF parse_response, Unreadable
<1>2. CASE ~(Len(data) < 2)
  <2>1. PICK walk : walk = Items(data, 3, u16_at(data, 1))
    OBVIOUS
  <2>2. walk.end # "Complete"
    BY <1>2, <2>1
  <2>3. walk.end \in {"Complete", "TruncatedHeader", "ItemExceedsPayload"}
    BY <2>1 DEF Items
  <2>4. parse_response(data) = [status |-> walk.end, config |-> <<>>]
    BY <1>2, <2>1, <2>2 DEF parse_response
  <2>5. QED
    BY <2>2, <2>3, <2>4 DEF Unreadable
<1>3. QED
  BY <1>1, <1>2

\* A count of 65535 without items is refused.
LEMMA OversizedCount ==
  ASSUME NEW data, Prefix(data, be16(U16_MAX))
  PROVE  Unreadable(data)
<1>1. U16_MAX \in U16 /\ U16_MAX \in Nat /\ 2 < U16_MAX
  <2>1. U16_MAX \in Nat /\ 2 < U16_MAX
    BY U16MaxIs
  <2>2. QED
    BY <2>1, U16Def
<1>2. PICK b : b = be16(U16_MAX)
  OBVIOUS
<1>3. b \in Bytes /\ Len(b) = 2 /\ u16_at(b, 1) = U16_MAX
  BY <1>1, <1>2, Be16Is
<1>4. data \in Bytes /\ Len(data) \in Nat /\ Len(data) <= 2
  BY <1>2, <1>3 DEF Prefix, Bytes
<1>5. ASSUME 2 <= Len(data), Items(data, 3, u16_at(data, 1)).end = "Complete" PROVE FALSE
  <2>1. Len(data) = 2 /\ 1 \in 1..Len(data) /\ 2 \in 1..Len(data)
    <3>1. ASSUME NEW n \in Nat, n <= 2, 2 <= n PROVE n = 2 /\ 1 \in 1..n /\ 2 \in 1..n
      BY <3>1
    <3>2. QED
      BY <1>4, <1>5, <3>1, Zenon
  <2>2. data[1] = b[1] /\ data[2] = b[2]
    BY <1>2, <2>1 DEF Prefix
  <2>3. u16_at(data, 1) = U16_MAX
    BY <1>3, <2>2 DEF u16_at
  <2>4. Items(data, 3, U16_MAX).end = "Complete"
    BY <1>5, <2>3
  <2>5. 3 <= Len(data) + 1 /\ 3 \in Nat
    BY <2>1
  <2>6. U16_MAX <= Len(data)
    BY <1>1, <1>4, <2>4, <2>5, CompleteWalk
  <2>7. QED
    BY <1>1, <2>1, <2>6
<1>6. QED
  BY <1>4, <1>5, NotComplete

\* So is an item that is longer than the reply.
LEMMA LengthExceedsPayload ==
  ASSUME NEW data, Prefix(data, be16(1) \o be16(0) \o be16(1000))
  PROVE  Unreadable(data)
<1>1. 1 \in U16 /\ 0 \in U16 /\ 1000 \in U16
  BY U16Def, U16MaxIs
<1> DEFINE a == be16(1)
           b == be16(0)
           c == be16(1000)
           d == a \o b
           full == d \o c
<1>2. Prefix(data, full)
  OBVIOUS
<1>3. /\ a \in Bytes /\ Len(a) = 2 /\ u16_at(a, 1) = 1 /\ b \in Bytes /\ Len(b) = 2
      /\ c \in Bytes /\ Len(c) = 2 /\ u16_at(c, 1) = 1000
  BY <1>1, Be16Is
<1> HIDE DEF a, b, c
<1>4. full \in Bytes /\ Len(full) = 6 /\ full[1] = a[1] /\ full[2] = a[2] /\ full[5] = c[1] /\ full[6] = c[2]
  <2>1. IsConcat(Byte, d, a, b)
    BY <1>3, Concatenation, Zenon DEF Bytes
  <2> HIDE DEF d
  <2>2. d \in Bytes /\ Len(d) = 4 /\ d[1] = a[1] /\ d[2] = a[2]
    BY <1>3, <2>1 DEF IsConcat, Bytes
  <2>3. IsConcat(Byte, full, d, c)
    BY <1>3, <2>2, Concatenation, Zenon DEF Bytes
  <2> HIDE DEF full
  <2>4. QED
    BY <1>3, <2>2, <2>3 DEF IsConcat, Bytes
<1> HIDE DEF full
<1>5. data \in Bytes /\ Len(data) \in Nat /\ Len(data) <= 6
  BY <1>2, <1>4 DEF Prefix, Bytes
<1>6. ASSUME 2 <= Len(data), Items(data, 3, u16_at(data, 1)).end = "Complete" PROVE FALSE
  <2>1. u16_at(data, 1) = 1
    <3>1. 1 \in 1..Len(data) /\ 2 \in 1..Len(data)
      BY <1>5, <1>6
    <3>2. data[1] = a[1] /\ data[2] = a[2]
      BY <1>2, <1>4, <3>1 DEF Prefix
    <3>3. QED
      BY <1>3, <3>2 DEF u16_at
  <2>2. Items(data, 3, 1).end = "Complete"
    BY <1>6, <2>1
  <2>3. 3 <= Len(data) + 1 /\ 3 \in Nat /\ 1 \in Nat
    BY <1>5, <1>6
  <2>4. PICK at : ItemsWalk(data, 3, 1, at) /\ at[1] <= Len(data) + 1
    BY <1>5, <2>2, <2>3, CompleteWalk
  <2>5. at[1] = NextItem(data, 3)
    <3>1. at[0] = 3 /\ \A k \in 1..1 : at[k] = NextItem(data, at[k - 1])
      BY <2>4 DEF ItemsWalk
    <3>2. at[1] = NextItem(data, at[1 - 1])
      BY <3>1
    <3>3. 1 - 1 = 0
      OBVIOUS
    <3>4. QED
      BY <3>1, <3>2, <3>3
  <2>6. CASE Len(data) < 6
    <3>1. NextItem(data, 3) = 3 + 4 + 0
      BY <1>5, <2>6 DEF NextItem
    <3>2. QED
      BY <1>5, <2>4, <2>5, <2>6, <3>1
  <2>7. CASE Len(data) = 6
    <3>1. 5 \in 1..Len(data) /\ 6 \in 1..Len(data)
      BY <2>7
    <3>2. data[5] = c[1] /\ data[6] = c[2]
      BY <1>2, <1>4, <3>1 DEF Prefix
    <3>3. u16_at(data, 5) = 1000
      BY <1>3, <3>2 DEF u16_at
    <3>4. NextItem(data, 3) = 3 + 4 + u16_at(data, 3 + 2)
      BY <2>7 DEF NextItem
    <3>5. 3 + 2 = 5
      OBVIOUS
    <3>6. NextItem(data, 3) = 7 + 1000
      BY <3>3, <3>4, <3>5
    <3>7. QED
      BY <2>4, <2>5, <2>7, <3>6
  <2>8. QED
    <3>1. ASSUME NEW n \in Nat, n <= 6 PROVE n < 6 \/ n = 6
      BY <3>1
    <3>2. QED
      BY <1>5, <2>6, <2>7, <3>1, Zenon
<1>7. QED
  BY <1>5, <1>6, NotComplete

-----------------------------------------------------------------------------
(* TLVs.                                                                   *)

\* Where the entry behind the one at i starts.
NextEntry(data, i) == i + 2 + (IF i < Len(data) THEN data[i + 1] ELSE 0)

\* Each entry starts behind the one before it.
LEMMA NextEntryIs ==
  ASSUME NEW data \in Bytes, NEW i \in Nat
  PROVE  NextEntry(data, i) \in Nat /\ i + 2 <= NextEntry(data, i)
<1>0. Len(data) \in Nat
  BY DEF Bytes
<1>1. CASE i < Len(data)
  <2>1. i + 1 \in 1..Len(data) /\ data \in Seq(Byte)
    BY <1>0, <1>1 DEF Bytes
  <2>2. data[i + 1] \in Byte
    BY <2>1, ElementOf
  <2>3. data[i + 1] \in Int /\ 0 <= data[i + 1]
    BY <2>2, ByteDef
  <2>4. PICK u \in Nat : u = data[i + 1]
    BY <2>3
  <2>5. NextEntry(data, i) = i + 2 + u
    BY <1>1, <2>4 DEF NextEntry
  <2>6. QED
    BY <2>5
<1>2. CASE ~(i < Len(data))
  <2>1. NextEntry(data, i) = i + 2 + 0
    BY <1>2 DEF NextEntry
  <2>2. QED
    BY <2>1
<1>3. QED
  BY <1>1, <1>2

EntriesWalk(data, most, at) ==
  /\ at \in [0..most -> Nat] /\ at[0] = 1
  /\ \A k \in 1..most : at[k] = NextEntry(data, at[k - 1])

EntriesOf(data, at, w) ==
  [k \in 1..w |-> [tag |-> data[at[k - 1]], value |-> SubSeq(data, at[k - 1] + 2, at[k] - 1)]]

\* decode reads along such a path, as far as it stays inside the data.
LEMMA EntriesRun ==
  ASSUME NEW data \in Bytes
  PROVE  \E most \in Nat : \E at, w :
           /\ most = Len(data) \div 2
           /\ EntriesWalk(data, most, at)
           /\ w = Max({k \in 0..most : at[k] <= Len(data) + 1})
           /\ decode(data) = EntriesOf(data, at, w)
<1> DEFINE nxt == [i \in Nat |-> NextEntry(data, i)]
           most == Len(data) \div 2
           Upto(f) == f = [k \in 0..most |->
                             IF k = 0 THEN 1
                             ELSE LET i == f[k - 1]
                                  IN  i + 2 + (IF i < Len(data) THEN data[i + 1] ELSE 0)]
           at == CHOOSE f : Upto(f)
<1>0. most \in Nat
  BY DEF Bytes
<1>1. nxt \in [Nat -> Nat] /\ \A i \in Nat : nxt[i] = NextEntry(data, i)
  BY NextEntryIs
<1>2. at = Starts(data)
  BY DEF Starts
<1> HIDE DEF nxt, most
<1>3. \A k \in 0..most : k = 0 \/ k \in 1..most
  BY <1>0
<1>4. \A k \in 1..most : k \in 0..most /\ k # 0 /\ k - 1 \in 0..most
  BY <1>0
<1>5. 0 \in 0..most
  BY <1>0
<1>6. \E f : Upto(f)
  <2>1. PICK g : Path(most, 1, nxt, g)
    BY <1>0, <1>1, PathIs
  <2>2. g \in [0..most -> Nat] /\ g[0] = 1 /\ \A k \in 1..most : g[k] = nxt[g[k - 1]]
    BY <2>1 DEF Path
  <2>3. \A k \in 1..most : g[k] = NextEntry(data, g[k - 1])
    BY <1>1, <1>4, <2>2
  <2>4. Upto(g)
    BY <1>3, <1>4, <2>2, <2>3 DEF NextEntry
  <2>5. QED
    BY <2>4
<1>7. Upto(at)
  <2> HIDE DEF Upto
  <2>1. QED
    BY <1>6
<1>8. /\ at = [k \in 0..most |-> at[k]] /\ at[0] = 1
      /\ \A k \in 1..most : at[k] = NextEntry(data, at[k - 1])
  <2> HIDE DEF at
  <2>1. at = [k \in 0..most |-> at[k]] /\ at[0] = 1
    BY <1>5, <1>7
  <2>2. QED
    BY <1>4, <1>7, <2>1 DEF NextEntry
<1> HIDE DEF at, Upto
<1>9. EntriesWalk(data, most, at)
  <2>1. \A k \in 1..most : at[k - 1] \in Nat => at[k] = nxt[at[k - 1]]
    BY <1>1, <1>8
  <2>2. Stepping(most, 1, nxt, at)
    BY <1>8, <2>1 DEF Stepping
  <2>3. Path(most, 1, nxt, at)
    BY <1>0, <1>1, <2>2, PathIs
  <2>4. QED
    BY <1>8, <2>3 DEF EntriesWalk, Path
<1> DEFINE w == Max({k \in 0..most : at[k] <= Len(data) + 1})
<1>10. decode(data) = EntriesOf(data, at, w)
  <2>1. DOMAIN at = 0..most
    BY <1>8
  <2>2. decode(data) = EntriesOf(data, at, Max({k \in DOMAIN at : at[k] <= Len(data) + 1}))
    BY <1>2 DEF decode, EntriesOf
  <2>3. QED
    BY <2>1, <2>2
<1>11. QED
  BY <1>0, <1>9, <1>10 DEF most

TlvRecord == [tag : Byte, value : Bytes]

IsTlv(c, e) ==
  /\ c \in Bytes /\ Len(c) = 2 + Len(e.value)
  /\ c[1] = e.tag /\ c[2] = Len(e.value)
  /\ \A j \in 1..Len(e.value) : c[2 + j] = e.value[j]

Tlvs(chunks, entries) ==
  /\ entries \in Seq(TlvRecord) /\ Len(entries) = Len(chunks)
  /\ \A k \in 1..Len(chunks) : IsTlv(chunks[k], entries[k])

\* What is written of a value.
FitsIn(f, value) ==
  /\ f \in Bytes /\ Len(f) \in 0..255
  /\ Len(value) <= 255 => f = value

\* Fit keeps what one byte can count.
LEMMA FitIs ==
  ASSUME NEW value \in Bytes
  PROVE  FitsIn(Fit(value), value)
<1>1. PICK l, n, f : l = Len(value) /\ n = Min({l, 255}) /\ f = SubSeq(value, 1, n)
  OBVIOUS
<1>2. l \in Nat /\ value \in Seq(Byte) /\ Len(value) = l
  BY <1>1 DEF Bytes
<1>3. n \in {l, 255} /\ \A x \in {l, 255} : n <= x
  BY <1>1, <1>2, MinIs
<1>4. n \in Nat /\ n <= l /\ n <= 255 /\ (l <= 255 => n = l)
  BY <1>2, <1>3
<1>5. f \in Seq(Byte) /\ Len(f) = n /\ \A i \in 1..n : f[i] = value[i]
  <2>1. ASSUME NEW t \in Seq(Byte), NEW b \in 0..Len(t)
        PROVE  /\ SubSeq(t, 1, b) \in Seq(Byte) /\ Len(SubSeq(t, 1, b)) = b
               /\ \A i \in 1..b : SubSeq(t, 1, b)[i] = t[i]
    OBVIOUS
  <2>2. n \in 0..Len(value)
    BY <1>2, <1>4
  <2>3. /\ SubSeq(value, 1, n) \in Seq(Byte) /\ Len(SubSeq(value, 1, n)) = n
        /\ \A i \in 1..n : SubSeq(value, 1, n)[i] = value[i]
    BY <1>2, <2>1, <2>2, Zenon
  <2>4. f = SubSeq(value, 1, n)
    BY <1>1
  <2>5. QED
    BY <2>3, <2>4, Zenon
<1>6. ASSUME l <= 255 PROVE f = value
  BY <1>2, <1>4, <1>5, <1>6
<1>7. Fit(value) = f
  BY <1>1 DEF Fit
<1>8. f \in Bytes /\ Len(f) \in 0..255 /\ (Len(value) <= 255 => f = value)
  <2>1. f \in Bytes
    BY <1>5 DEF Bytes
  <2>2. Len(f) \in 0..255
    BY <1>4, <1>5
  <2>3. QED
    BY <1>1, <1>6, <2>1, <2>2
<1>9. QED
  BY <1>7, <1>8 DEF FitsIn

Tlv(tag, value) == [tag |-> tag, value |-> Fit(value)]

\* encode_into writes tag, width and value.
LEMMA TlvIs ==
  ASSUME NEW tag \in Byte, NEW value \in Bytes
  PROVE  IsTlv(encode_into(tag, value), Tlv(tag, value)) /\ Tlv(tag, value) \in TlvRecord
<1>1. PICK f : f = Fit(value)
  OBVIOUS
<1>2. f \in Bytes /\ Len(f) \in 0..255
  BY <1>1, FitIs DEF FitsIn
<1>3. PICK n \in Byte : n = Len(f)
  BY <1>2 DEF Byte
<1>4. PICK h : h = <<tag, n>>
  OBVIOUS
<1>5. h \in Seq(Byte) /\ Len(h) = 2 /\ h[1] = tag /\ h[2] = n
  BY <1>4
<1>6. PICK c : c = h \o f
  OBVIOUS
<1>7. f \in Seq(Byte)
  BY <1>2 DEF Bytes
<1>8. IsConcat(Byte, c, h, f)
  BY <1>5, <1>6, <1>7, Concatenation, Zenon
<1>9. c \in Bytes /\ Len(c) = 2 + Len(f) /\ c[1] = tag /\ c[2] = Len(f)
      /\ \A j \in 1..Len(f) : c[2 + j] = f[j]
  BY <1>3, <1>5, <1>7, <1>8 DEF IsConcat, Bytes
<1>10. encode_into(tag, value) = c
  BY <1>1, <1>3, <1>4, <1>6 DEF encode_into
<1>11. Tlv(tag, value) = [tag |-> tag, value |-> f]
  BY <1>1 DEF Tlv
<1>12. IsTlv(c, [tag |-> tag, value |-> f])
  BY <1>9 DEF IsTlv
<1>13. QED
  BY <1>2, <1>10, <1>11, <1>12 DEF TlvRecord

EntryAt(data, i, e, entry) ==
  /\ i < Len(data) => NextEntry(data, i) = e
  /\ ~(i < Len(data)) => NextEntry(data, i) > Len(data) + 1
  /\ e <= Len(data) + 1 => data[i] = entry.tag /\ SubSeq(data, i + 2, e - 1) = entry.value

\* Reading one entry of those that were laid out.
LEMMA ReadTlv ==
  ASSUME NEW data \in Bytes, NEW c, NEW entry, IsTlv(c, entry), entry.value \in Bytes,
         NEW a \in Nat, Begun(data, a, c),
         NEW i, i = a + 1, NEW e, e = i + Len(c)
  PROVE  i \in Nat /\ e \in Nat /\ i + 2 <= e /\ EntryAt(data, i, e, entry)
<1>1. PICK n, v, w : n = Len(data) /\ v = entry.value /\ w = Len(v)
  OBVIOUS
<1>2. n \in Nat /\ w \in Nat /\ v \in Bytes
  BY <1>1 DEF Bytes
<1>3. /\ Len(c) = 2 + w /\ c[1] = entry.tag /\ c[2] = w
      /\ \A j \in 1..w : c[2 + j] = v[j]
  BY <1>1 DEF IsTlv
<1>4. i \in Nat /\ e \in Nat /\ e = i + 2 + w
  BY <1>2, <1>3
<1>5. \A j \in 1..2 + w : a + j <= n => data[a + j] = c[j]
  BY <1>1, <1>3 DEF Begun
<1>6. ASSUME i < n PROVE NextEntry(data, i) = e
  <2>1. 2 \in 1..2 + w /\ a + 2 <= n /\ i + 1 = a + 2
    BY <1>2, <1>6
  <2>2. data[i + 1] = w
    BY <1>3, <1>5, <2>1
  <2>3. NextEntry(data, i) = i + 2 + data[i + 1]
    BY <1>1, <1>6 DEF NextEntry
  <2>4. QED
    BY <1>4, <2>2, <2>3
<1>7. ASSUME ~(i < n) PROVE NextEntry(data, i) > n + 1
  <2>1. NextEntry(data, i) = i + 2 + 0
    BY <1>1, <1>7 DEF NextEntry
  <2>2. QED
    BY <1>2, <1>4, <1>7, <2>1
<1>8. ASSUME e <= n + 1
      PROVE  data[i] = entry.tag /\ SubSeq(data, i + 2, e - 1) = v
  <2>1. 1 \in 1..2 + w /\ a + 1 <= n
    BY <1>2, <1>4, <1>8
  <2>2. data[i] = entry.tag
    BY <1>3, <1>5, <2>1
  <2>3. ASSUME NEW j \in 1..w PROVE data[i + 1 + j] = v[j]
    <3>1. 2 + j \in 1..2 + w /\ a + (2 + j) <= n /\ a + (2 + j) = i + 1 + j
      BY <1>2, <1>4, <1>8
    <3>2. data[i + 1 + j] = c[2 + j]
      BY <1>5, <3>1
    <3>3. QED
      BY <1>3, <3>2
  <2>4. i + 1 \in Nat /\ i + 2 = (i + 1) + 1 /\ e - 1 = (i + 1) + w /\ e - 1 <= n
    BY <1>2, <1>4, <1>8
  <2>5. IsPart(v, data, i + 1, w, i + 2, e - 1)
    BY <1>1, <1>2, <2>3, <2>4 DEF IsPart
  <2>6. IsCut(v, data, i + 2, e - 1)
    BY <2>5, PartIs, Zenon
  <2>7. QED
    BY <2>2, <2>6 DEF IsCut
<1>9. i + 2 <= e
  BY <1>2, <1>4
<1>10. EntryAt(data, i, e, entry)
  BY <1>1, <1>6, <1>7, <1>8 DEF EntryAt
<1>11. QED
  BY <1>4, <1>9, <1>10

\* Entries of which some bytes may be cut off: those that are whole are read.
LEMMA EntriesAre ==
  ASSUME NEW full, NEW chunks, NEW p, Layout(full, 0, chunks, p),
         NEW entries, Tlvs(chunks, entries), NEW data, Prefix(data, full)
  PROVE  \E w : ReadUpTo(data, full, decode(data), entries, w)
<1> DEFINE m == Len(entries)
<1>1. /\ m \in Nat /\ m = Len(chunks) /\ p \in [0..m -> Nat] /\ p[0] = 0
      /\ Len(full) = p[m]
  <2>1. chunks \in Seq(Bytes) /\ m = Len(chunks)
    BY DEF Layout, Tlvs
  <2>2. m \in Nat /\ p \in [0..m -> Nat] /\ p[0] = 0 /\ Len(full) = 0 + p[m]
    BY <2>1 DEF Layout, IsEnds
  <2>3. m \in 0..m
    BY <2>2
  <2>4. p[m] \in Nat
    BY <2>2, <2>3
  <2>5. QED
    BY <2>1, <2>2, <2>4
<1> HIDE DEF m
<1>2. PICK n : n = Len(data)
  OBVIOUS
<1>3. n \in Nat /\ data \in Bytes /\ n <= p[m]
  BY <1>1, <1>2 DEF Prefix, Bytes
<1> DEFINE ends == [k \in 0..m |-> 1 + p[k]]
<1>4. ends \in [0..m -> Nat] /\ \A k \in 0..m : ends[k] = 1 + p[k] /\ p[k] \in Nat
  BY <1>1
<1> HIDE DEF ends
<1>5. ASSUME NEW k \in 1..m
      PROVE  /\ ends[k] \in Nat /\ ends[k - 1] \in Nat /\ ends[k - 1] + 2 <= ends[k]
             /\ EntryAt(data, ends[k - 1], ends[k], entries[k])
  <2>1. PICK a, c, i, e : a = 0 + p[k - 1] /\ c = chunks[k] /\ i = ends[k - 1] /\ e = ends[k]
    OBVIOUS
  <2>2. k \in 1..Len(chunks) /\ k \in 0..m /\ k - 1 \in 0..m
    BY <1>1
  <2>3. Begun(data, a, c) /\ a \in Nat /\ p[k] = p[k - 1] + Len(c) /\ p[k - 1] \in Nat /\ c \in Bytes
    BY <2>1, <2>2, BegunAt
  <2>4. IsTlv(c, entries[k]) /\ entries[k].value \in Bytes
    <3>1. entries \in Seq(TlvRecord) /\ IsTlv(c, entries[k]) /\ k \in 1..Len(entries)
      BY <2>1, <2>2 DEF Tlvs
    <3>2. entries[k] \in TlvRecord
      BY <3>1, ElementOf
    <3>3. QED
      BY <3>1, <3>2 DEF TlvRecord
  <2>5. i = a + 1 /\ e = i + Len(c)
    <3>1. Len(c) \in Nat
      BY <2>3 DEF Bytes
    <3>2. i = 1 + p[k - 1] /\ e = 1 + p[k]
      BY <1>4, <2>1, <2>2
    <3>3. PICK x, y, z : x = p[k - 1] /\ y = p[k] /\ z = Len(c)
      OBVIOUS
    <3>4. a = 0 + x /\ i = 1 + x /\ e = 1 + y /\ y = x + z /\ x \in Nat /\ z \in Nat
      BY <2>1, <2>3, <3>1, <3>2, <3>3
    <3>5. i = a + 1 /\ e = i + z
      BY <3>4
    <3>6. QED
      BY <3>3, <3>5
  <2>6. i \in Nat /\ e \in Nat /\ i + 2 <= e /\ EntryAt(data, i, e, entries[k])
    BY <1>3, <2>3, <2>4, <2>5, ReadTlv
  <2>7. QED
    BY <2>1, <2>6
<1>6. PICK most \in Nat : \E at, w :
           /\ most = Len(data) \div 2
           /\ EntriesWalk(data, most, at)
           /\ w = Max({k \in 0..most : at[k] <= Len(data) + 1})
           /\ decode(data) = EntriesOf(data, at, w)
  BY <1>3, EntriesRun
<1>7. PICK at, w : /\ most = n \div 2 /\ EntriesWalk(data, most, at)
                   /\ w = Max({k \in 0..most : at[k] <= n + 1})
                   /\ decode(data) = EntriesOf(data, at, w)
  BY <1>2, <1>6
<1>8. at \in [0..most -> Nat] /\ at[0] = 1 /\ \A k \in 1..most : at[k] = NextEntry(data, at[k - 1])
  BY <1>7 DEF EntriesWalk
<1>9. Walks(n, m, ends, most, at)
  <2>1. \A k \in 1..m : ends[k - 1] <= ends[k]
    <3>1. ASSUME NEW k \in 1..m PROVE ends[k - 1] <= ends[k]
      <4>1. ends[k] \in Nat /\ ends[k - 1] \in Nat /\ ends[k - 1] + 2 <= ends[k]
        BY <1>5
      <4>2. QED
        BY <4>1
    <3>2. QED
      BY <3>1
  <2>2. ASSUME NEW k \in 1..most PROVE at[k - 1] < at[k]
    <3>1. k \in 0..most /\ k - 1 \in 0..most
      OBVIOUS
    <3>2. at[k - 1] \in Nat /\ at[k] \in Nat /\ at[k] = NextEntry(data, at[k - 1])
      BY <1>8, <3>1
    <3>3. at[k - 1] + 2 <= at[k]
      BY <1>3, <3>2, NextEntryIs
    <3>4. QED
      BY <3>2, <3>3
  <2>3. at[0] = ends[0] /\ ends[0] <= n + 1 /\ n + 1 <= ends[m]
    <3>1. 0 \in 0..m /\ m \in 0..m
      BY <1>1
    <3>2. ends[0] = 1 + 0 /\ ends[m] = 1 + p[m] /\ p[m] \in Nat
      BY <1>1, <1>4, <3>1
    <3>3. QED
      BY <1>3, <1>8, <3>2
  <2>4. \A k \in 0..m : ends[k] <= n + 1 => k <= most
    <3>1. \A k \in 1..m : p[k - 1] + 2 <= p[k]
      <4>1. ASSUME NEW k \in 1..m PROVE p[k - 1] + 2 <= p[k]
        <5>1. k \in 0..m /\ k - 1 \in 0..m
          BY <1>1
        <5>2. ends[k - 1] + 2 <= ends[k] /\ ends[k] = 1 + p[k] /\ ends[k - 1] = 1 + p[k - 1]
              /\ p[k] \in Nat /\ p[k - 1] \in Nat
          BY <1>4, <1>5, <5>1
        <5>3. QED
          BY <5>2
      <4>2. QED
        BY <4>1
    <3>2. \A k \in 0..m : 2 * k <= p[k]
      BY <1>1, <3>1, EndsGrow
    <3>3. ASSUME NEW k \in 0..m, ends[k] <= n + 1 PROVE k <= most
      <4>1. PICK x : x = p[k]
        OBVIOUS
      <4>2. ends[k] = 1 + x /\ x \in Nat /\ 2 * k <= x
        BY <1>4, <3>2, <4>1
      <4>3. 2 * k <= n /\ k \in Nat
        BY <1>1, <1>3, <3>3, <4>2
      <4>4. most = n \div 2
        BY <1>7
      <4>5. QED
        BY <1>3, <4>3, <4>4
    <3>4. QED
      BY <3>3
  <2>5. ASSUME NEW k \in 1..m, k <= most /\ at[k - 1] = ends[k - 1]
        PROVE  at[k] = ends[k] \/ (at[k] > n + 1 /\ ends[k] > n + 1)
    <3>1. k \in 1..most
      BY <1>1, <2>5
    <3>2. at[k] = NextEntry(data, ends[k - 1])
      BY <1>8, <2>5, <3>1
    <3>3. ends[k] \in Nat /\ ends[k - 1] \in Nat /\ ends[k - 1] + 2 <= ends[k]
      BY <1>5
    <3>4. ends[k - 1] < n => at[k] = ends[k]
      BY <1>2, <1>5, <3>2 DEF EntryAt
    <3>5. ~(ends[k - 1] < n) => at[k] > n + 1
      BY <1>2, <1>5, <3>2 DEF EntryAt
    <3>6. ~(ends[k - 1] < n) => ends[k] > n + 1
      BY <1>3, <3>3
    <3>7. QED
      BY <3>4, <3>5, <3>6
  <2>6. QED
    BY <1>1, <1>3, <1>4, <1>8, <2>1, <2>2, <2>3, <2>4, <2>5 DEF Walks
<1>10. w \in 0..most /\ Walked(n, m, ends, at, w)
  BY <1>7, <1>9, WalkIs
<1>11. /\ w \in 0..m /\ ends[w] <= n + 1 /\ \A k \in 0..w : at[k] = ends[k]
       /\ \A k \in w + 1..m : ends[k] > n + 1
  BY <1>10 DEF Walked
<1>12. ASSUME NEW k \in 1..w
       PROVE  [tag |-> data[at[k - 1]], value |-> SubSeq(data, at[k - 1] + 2, at[k] - 1)] = entries[k]
  <2>1. k \in 1..m /\ k \in 0..w /\ k - 1 \in 0..w /\ k \in 0..m /\ w \in 0..m /\ k <= w
    BY <1>1, <1>11
  <2>2. ends[k] <= n + 1
    <3>1. \A j \in 1..m : ends[j - 1] <= ends[j]
      BY <1>9 DEF Walks
    <3>2. ends[k] <= ends[w]
      BY <1>1, <1>4, <2>1, <3>1, Monotone
    <3>3. ends[k] \in Nat /\ ends[w] \in Nat
      BY <1>4, <2>1
    <3>4. QED
      BY <1>3, <1>11, <3>2, <3>3
  <2>3. EntryAt(data, ends[k - 1], ends[k], entries[k])
    BY <1>5, <2>1
  <2>4. /\ data[ends[k - 1]] = entries[k].tag
        /\ SubSeq(data, ends[k - 1] + 2, ends[k] - 1) = entries[k].value
    BY <1>2, <2>2, <2>3 DEF EntryAt
  <2>5. entries[k] \in TlvRecord
    <3>1. entries \in Seq(TlvRecord) /\ k \in 1..Len(entries)
      BY <1>1, <2>1 DEF Tlvs, m
    <3>2. QED
      BY <3>1, ElementOf
  <2>6. at[k - 1] = ends[k - 1] /\ at[k] = ends[k]
    BY <1>11, <2>1
  <2>7. entries[k] = [tag |-> entries[k].tag, value |-> entries[k].value]
    BY <2>5 DEF TlvRecord
  <2>8. QED
    BY <2>4, <2>6, <2>7
<1>13. EntriesOf(data, at, w) = [k \in 1..w |-> entries[k]]
  BY <1>12 DEF EntriesOf
<1>14. w = m <=> n = Len(full)
  <2>1. ASSUME w = m PROVE n = Len(full)
    <3>1. m \in 0..m
      BY <1>1
    <3>2. ends[m] <= n + 1 /\ ends[m] = 1 + p[m] /\ p[m] \in Nat
      BY <1>4, <1>11, <2>1, <3>1
    <3>3. QED
      BY <1>1, <1>3, <3>2
  <2>2. ASSUME n = Len(full), w # m PROVE FALSE
    <3>1. m \in w + 1..m /\ m \in 0..m
      BY <1>1, <1>11, <2>2
    <3>2. ends[m] > n + 1 /\ ends[m] = 1 + p[m] /\ p[m] \in Nat
      BY <1>4, <1>11, <3>1
    <3>3. QED
      BY <1>1, <1>3, <2>2, <3>2
  <2>3. QED
    BY <2>1, <2>2
<1>15. ReadUpTo(data, full, decode(data), entries, w)
  BY <1>2, <1>7, <1>11, <1>13, <1>14 DEF ReadUpTo, m
<1>16. QED
  BY <1>15

-----------------------------------------------------------------------------
(* Payloads of TLVs, and their fields.                                     *)

\* A payload of entries.
PayloadOf(full, entries) ==
  \E chunks, p : Layout(full, 0, chunks, p) /\ Tlvs(chunks, entries)

\* Entries put together; one entry; none.
LEMMA ManyWritten ==
  ASSUME NEW chunks \in Seq(Bytes), NEW entries, Tlvs(chunks, entries)
  PROVE  PayloadOf(FlattenSeq(chunks), entries)
<1>1. PICK p : IsEnds(p, chunks)
  BY EndsExist DEF Bytes
<1>2. PICK full : full = FlattenSeq(chunks)
  OBVIOUS
<1>3. /\ full \in Bytes /\ Len(full) = p[Len(chunks)]
      /\ \A k \in 1..Len(chunks) : p[k] <= p[Len(chunks)]
      /\ \A k \in 1..Len(chunks) : \A j \in 1..Len(chunks[k]) : full[p[k - 1] + j] = chunks[k][j]
  BY <1>1, <1>2, FlattenIs DEF Bytes
<1>4. Len(full) = 0 + p[Len(chunks)]
  <2>1. Len(full) \in Nat
    BY <1>3 DEF Bytes
  <2>2. QED
    BY <1>3, <2>1
<1>5. ASSUME NEW k \in 1..Len(chunks), NEW j \in 1..Len(chunks[k])
      PROVE  full[0 + p[k - 1] + j] = chunks[k][j]
  <2>1. k - 1 \in 0..Len(chunks)
    OBVIOUS
  <2>2. p[k - 1] \in Nat
    BY <1>1, <2>1 DEF IsEnds
  <2>3. 0 + p[k - 1] + j = p[k - 1] + j
    BY <2>2
  <2>4. QED
    BY <1>3, <2>3
<1>6. Layout(full, 0, chunks, p)
  BY <1>1, <1>3, <1>4, <1>5 DEF Layout
<1>7. QED
  BY <1>2, <1>6 DEF PayloadOf

\* One TLV written is a payload of one.
LEMMA OneWritten ==
  ASSUME NEW tag \in Byte, NEW value \in Bytes
  PROVE  PayloadOf(encode_into(tag, value), <<Tlv(tag, value)>>)
<1>1. PICK c, e : c = encode_into(tag, value) /\ e = Tlv(tag, value)
  OBVIOUS
<1>2. IsTlv(c, e) /\ e \in TlvRecord
  BY <1>1, TlvIs
<1>3. c \in Bytes /\ Len(c) \in Nat
  BY <1>2 DEF IsTlv, Bytes
<1> DEFINE chunks == <<c>>
           p == [k \in 0..1 |-> IF k = 0 THEN 0 ELSE Len(c)]
<1>4. chunks \in Seq(Bytes) /\ Len(chunks) = 1 /\ chunks[1] = c
  BY <1>3
<1>5. <<e>> \in Seq(TlvRecord) /\ Len(<<e>>) = 1 /\ <<e>>[1] = e
  BY <1>2
<1>6. p \in [0..1 -> Nat] /\ p[0] = 0 /\ p[1] = Len(c)
  BY <1>3
<1> HIDE DEF chunks, p
<1>7. \A k \in 1..1 : k = 1 /\ k - 1 = 0
  OBVIOUS
<1>8. IsEnds(p, chunks)
  <2>1. p[1] = p[0] + Len(c)
    BY <1>3, <1>6
  <2>2. QED
    BY <1>4, <1>6, <1>7, <2>1 DEF IsEnds
<1>9. Layout(c, 0, chunks, p)
  <2>1. Len(c) = 0 + p[1] /\ p[1] <= p[1]
    BY <1>3, <1>6
  <2>2. \A j \in 1..Len(c) : 0 + p[0] + j = j
    BY <1>6
  <2>3. QED
    BY <1>3, <1>4, <1>7, <1>8, <2>1, <2>2 DEF Layout
<1>10. Tlvs(chunks, <<e>>)
  BY <1>2, <1>4, <1>5, <1>7 DEF Tlvs
<1>11. QED
  BY <1>1, <1>9, <1>10 DEF PayloadOf

\* Nothing written is a payload of none.
LEMMA NoneWritten ==
  PayloadOf(<<>>, <<>>)
<1> DEFINE p == [k \in 0..0 |-> 0]
<1>1. p \in [0..0 -> Nat] /\ p[0] = 0
  OBVIOUS
<1> HIDE DEF p
<1>2. <<>> \in Seq(Bytes) /\ Len(<<>>) = 0 /\ <<>> \in Bytes /\ <<>> \in Seq(TlvRecord)
  BY DEF Bytes
<1>3. 1..0 = {}
  OBVIOUS
<1>4. IsEnds(p, <<>>)
  BY <1>1, <1>2, <1>3 DEF IsEnds
<1>5. Layout(<<>>, 0, <<>>, p)
  BY <1>1, <1>2, <1>3, <1>4 DEF Layout
<1>6. Tlvs(<<>>, <<>>)
  BY <1>2, <1>3 DEF Tlvs
<1>7. QED
  BY <1>5, <1>6 DEF PayloadOf

\* Such a payload is bytes.
LEMMA WrittenIs ==
  ASSUME NEW full, NEW entries, PayloadOf(full, entries)
  PROVE  full \in Bytes /\ entries \in Seq(TlvRecord)
BY DEF PayloadOf, Layout, Tlvs

\* What decode reads of a part of such a payload.
LEMMA ReadWritten ==
  ASSUME NEW full, NEW entries, PayloadOf(full, entries), NEW data, Prefix(data, full)
  PROVE  \E w : ReadUpTo(data, full, decode(data), entries, w)
<1>1. PICK chunks, p : Layout(full, 0, chunks, p) /\ Tlvs(chunks, entries)
  BY DEF PayloadOf
<1>2. QED
  BY <1>1, EntriesAre

\* One entry of a tag is the first and the last of it.
OnlyAt(entries, tag, j) ==
  j \in 1..Len(entries) /\ \A k \in 1..Len(entries) : entries[k].tag = tag <=> k = j

Sole(data, tag, widths, value) ==
  FirstOf(data, tag, widths) = value /\ LastOf(data, tag, widths) = value

SoleAt(data, tag, widths, entries, j, w) ==
  Sole(data, tag, widths,
       IF j <= w /\ Len(entries[j].value) \in widths THEN <<entries[j].value>> ELSE <<>>)

\* A tag that occurs once has its value, or none yet.
LEMMA SoleIs ==
  ASSUME NEW data, NEW full, NEW entries, Len(entries) \in Nat, NEW w,
         ReadUpTo(data, full, decode(data), entries, w),
         NEW tag, NEW j, OnlyAt(entries, tag, j), NEW widths
  PROVE  SoleAt(data, tag, widths, entries, j, w)
<1>1. PICK m \in Nat : m = Len(entries)
  OBVIOUS
<1>2. PICK read : read = decode(data)
  OBVIOUS
<1>3. w \in 0..m /\ read = [k \in 1..w |-> entries[k]]
  BY <1>1, <1>2 DEF ReadUpTo
<1>4. j \in 1..m /\ \A k \in 1..m : entries[k].tag = tag <=> k = j
  BY <1>1 DEF OnlyAt
<1>5. DOMAIN read = 1..w /\ \A k \in 1..w : read[k] = entries[k] /\ k \in 1..m
  BY <1>3
<1>6. CASE j <= w /\ Len(entries[j].value) \in widths
  <2>1. j \in 1..w
    BY <1>4, <1>6
  <2>2. Tagged(read, tag, widths) = {j}
    BY <1>4, <1>5, <1>6, <2>1 DEF Tagged
  <2>3. {j} \in SUBSET Int /\ j \in {j} /\ \A n \in {j} : n <= j /\ j <= n
    BY <1>4
  <2>4. Max({j}) = j /\ Min({j}) = j
    BY <2>3, MaxUnique, MinUnique
  <2>5. read[j].value = entries[j].value
    BY <1>5, <2>1
  <2>6. FirstOf(data, tag, widths) = <<entries[j].value>>
    BY <1>2, <2>2, <2>4, <2>5 DEF FirstOf
  <2>7. LastOf(data, tag, widths) = <<entries[j].value>>
    BY <1>2, <2>2, <2>4, <2>5 DEF LastOf
  <2>8. QED
    BY <1>6, <2>6, <2>7 DEF Sole, SoleAt
<1>7. CASE ~(j <= w /\ Len(entries[j].value) \in widths)
  <2>1. Tagged(read, tag, widths) = {}
    <3>1. ASSUME NEW k \in 1..w, read[k].tag = tag, Len(read[k].value) \in widths PROVE FALSE
      <4>1. k = j
        BY <1>4, <1>5, <3>1
      <4>2. k <= w
        BY <1>3
      <4>3. QED
        BY <1>5, <1>7, <3>1, <4>1, <4>2
    <3>2. QED
      BY <1>5, <3>1 DEF Tagged
  <2>2. FirstOf(data, tag, widths) = <<>> /\ LastOf(data, tag, widths) = <<>>
    BY <1>2, <2>1 DEF FirstOf, LastOf
  <2>3. QED
    BY <1>7, <2>2 DEF Sole, SoleAt
<1>8. QED
  BY <1>6, <1>7

\* A tag that does not occur has none.
LEMMA NoneIs ==
  ASSUME NEW data, NEW full, NEW entries, Len(entries) \in Nat, NEW w,
         ReadUpTo(data, full, decode(data), entries, w),
         NEW tag, \A k \in 1..Len(entries) : entries[k].tag # tag, NEW widths
  PROVE  Sole(data, tag, widths, <<>>)
<1>1. PICK read : read = decode(data)
  OBVIOUS
<1>2. w \in 0..Len(entries) /\ read = [k \in 1..w |-> entries[k]]
  BY <1>1 DEF ReadUpTo
<1>3. DOMAIN read = 1..w /\ \A k \in 1..w : read[k] = entries[k] /\ k \in 1..Len(entries)
  BY <1>2
<1>4. Tagged(read, tag, widths) = {}
  BY <1>3 DEF Tagged
<1>5. FirstOf(data, tag, widths) = <<>> /\ LastOf(data, tag, widths) = <<>>
  BY <1>1, <1>4 DEF FirstOf, LastOf
<1>6. QED
  BY <1>5 DEF Sole
=============================================================================
