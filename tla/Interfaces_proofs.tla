--------------------------- MODULE Interfaces_proofs ---------------------------
(***************************************************************************)
(* The order of names and the listing of interfaces, for any names: where  *)
(* the tokens at one place are of one kind names are totally ordered, so   *)
(* that a listing has one order, whatever order they were reported in.     *)
(*                                                                         *)
(* A comparison is a function c on pairs.  Comparisons are composed as in  *)
(* the code: one after the other, by what elements are taken for (their    *)
(* keys), and place by place.                                              *)
(***************************************************************************)
EXTENDS Interfaces, Order_proofs, SequenceTheorems

-----------------------------------------------------------------------------
(* Comparisons.                                                            *)

\* c compares the elements of T: less, as much or greater, alike from both
\* sides, and transitively.
Compares(c, T) ==
  /\ \A x, y \in T : c[<<x, y>>] \in {-1, 0, 1} /\ c[<<y, x>>] = -c[<<x, y>>]
  /\ \A x, y, z \in T : c[<<x, y>>] <= 0 /\ c[<<y, z>>] <= 0 => c[<<x, z>>] <= 0

\* Nothing else is as much as an element.
Separates(c, T) == \A x, y \in T : c[<<x, y>>] = 0 => x = y

\* What compares as much is interchangeable.
LEMMA Interchange ==
  ASSUME NEW T, NEW c, Compares(c, T), NEW x \in T, NEW y \in T, NEW z \in T
  PROVE  /\ c[<<x, y>>] = 0 /\ c[<<y, z>>] = 0 => c[<<x, z>>] = 0
         /\ c[<<x, y>>] = -1 /\ c[<<y, z>>] <= 0 => c[<<x, z>>] = -1
         /\ c[<<x, y>>] <= 0 /\ c[<<y, z>>] = -1 => c[<<x, z>>] = -1
<1>1. /\ c[<<x, y>>] \in {-1, 0, 1} /\ c[<<y, z>>] \in {-1, 0, 1} /\ c[<<x, z>>] \in {-1, 0, 1}
      /\ c[<<y, x>>] = -c[<<x, y>>] /\ c[<<z, y>>] = -c[<<y, z>>] /\ c[<<z, x>>] = -c[<<x, z>>]
  BY DEF Compares
<1>2. /\ c[<<x, y>>] <= 0 /\ c[<<y, z>>] <= 0 => c[<<x, z>>] <= 0
      /\ c[<<z, y>>] <= 0 /\ c[<<y, x>>] <= 0 => c[<<z, x>>] <= 0
      /\ c[<<y, z>>] <= 0 /\ c[<<z, x>>] <= 0 => c[<<y, x>>] <= 0
      /\ c[<<z, x>>] <= 0 /\ c[<<x, y>>] <= 0 => c[<<z, y>>] <= 0
  BY DEF Compares
<1>3. CASE c[<<x, y>>] = 0 /\ c[<<y, z>>] = 0
  BY <1>1, <1>2, <1>3
<1>4. CASE c[<<x, y>>] = -1 /\ c[<<y, z>>] <= 0
  BY <1>1, <1>2, <1>4
<1>5. CASE c[<<x, y>>] <= 0 /\ c[<<y, z>>] = -1
  BY <1>1, <1>2, <1>5
<1>6. QED
  BY <1>3, <1>4, <1>5

\* Numbers.
LEMMA NumbersCompare ==
  LET c == [p \in Nat \X Nat |-> cmp(p[1], p[2])] IN Compares(c, Nat) /\ Separates(c, Nat)
BY DEF cmp, Compares, Separates

\* One comparison after the other compares.
LEMMA ThenCompares ==
  ASSUME NEW T, NEW c, NEW d, Compares(c, T), Compares(d, T),
         NEW e, \A x, y \in T : e[<<x, y>>] = then_with(c[<<x, y>>], d[<<x, y>>])
  PROVE  Compares(e, T) /\ (Separates(d, T) => Separates(e, T))
<1>1. ASSUME NEW x \in T, NEW y \in T
      PROVE  e[<<x, y>>] \in {-1, 0, 1} /\ e[<<y, x>>] = -e[<<x, y>>]
  <2>1. /\ c[<<x, y>>] \in {-1, 0, 1} /\ c[<<y, x>>] = -c[<<x, y>>]
        /\ d[<<x, y>>] \in {-1, 0, 1} /\ d[<<y, x>>] = -d[<<x, y>>]
    BY DEF Compares
  <2>2. e[<<x, y>>] = then_with(c[<<x, y>>], d[<<x, y>>]) /\ e[<<y, x>>] = then_with(c[<<y, x>>], d[<<y, x>>])
    OBVIOUS
  <2>3. QED
    BY <2>1, <2>2 DEF then_with
<1>2. ASSUME NEW x \in T, NEW y \in T, NEW z \in T, e[<<x, y>>] <= 0, e[<<y, z>>] <= 0
      PROVE  e[<<x, z>>] <= 0
  <2>1. /\ e[<<x, y>>] = then_with(c[<<x, y>>], d[<<x, y>>])
        /\ e[<<y, z>>] = then_with(c[<<y, z>>], d[<<y, z>>])
        /\ e[<<x, z>>] = then_with(c[<<x, z>>], d[<<x, z>>])
    OBVIOUS
  <2>2. /\ c[<<x, y>>] \in {-1, 0, 1} /\ c[<<y, z>>] \in {-1, 0, 1} /\ c[<<x, z>>] \in {-1, 0, 1}
    BY DEF Compares
  <2>3. c[<<x, y>>] <= 0 /\ c[<<y, z>>] <= 0
    BY <1>2, <2>1, <2>2 DEF then_with
  <2>4. CASE c[<<x, y>>] = -1 \/ c[<<y, z>>] = -1
    <3>1. c[<<x, z>>] = -1
      BY <2>3, <2>4, Interchange
    <3>2. QED
      BY <2>1, <3>1 DEF then_with
  <2>5. CASE c[<<x, y>>] = 0 /\ c[<<y, z>>] = 0
    <3>1. c[<<x, z>>] = 0
      BY <2>5, Interchange
    <3>2. d[<<x, y>>] <= 0 /\ d[<<y, z>>] <= 0
      BY <1>2, <2>1, <2>5 DEF then_with
    <3>3. d[<<x, z>>] <= 0
      BY <3>2 DEF Compares
    <3>4. QED
      BY <2>1, <3>1, <3>3 DEF then_with
  <2>6. QED
    BY <2>2, <2>3, <2>4, <2>5
<1>3. ASSUME Separates(d, T) PROVE Separates(e, T)
  <2>1. ASSUME NEW x \in T, NEW y \in T, e[<<x, y>>] = 0 PROVE d[<<x, y>>] = 0
    <3>1. e[<<x, y>>] = then_with(c[<<x, y>>], d[<<x, y>>]) /\ c[<<x, y>>] \in {-1, 0, 1}
      BY DEF Compares
    <3>2. QED
      BY <2>1, <3>1 DEF then_with
  <2>2. QED
    BY <1>3, <2>1 DEF Separates
<1>4. QED
  BY <1>1, <1>2, <1>3 DEF Compares

\* So does the comparison of what elements are taken for.
LEMMA KeysCompare ==
  ASSUME NEW T, NEW U, NEW c, Compares(c, U), NEW key \in [T -> U],
         NEW d, \A x, y \in T : d[<<x, y>>] = c[<<key[x], key[y]>>]
  PROVE  Compares(d, T)
<1>1. \A x \in T : key[x] \in U
  OBVIOUS
<1>2. ASSUME NEW x \in T, NEW y \in T
      PROVE  d[<<x, y>>] \in {-1, 0, 1} /\ d[<<y, x>>] = -d[<<x, y>>]
  <2>1. PICK a, b : a = key[x] /\ b = key[y]
    OBVIOUS
  <2>2. d[<<x, y>>] = c[<<a, b>>] /\ d[<<y, x>>] = c[<<b, a>>] /\ a \in U /\ b \in U
    BY <1>1, <2>1
  <2>3. QED
    BY <2>2 DEF Compares
<1>3. ASSUME NEW x \in T, NEW y \in T, NEW z \in T, d[<<x, y>>] <= 0, d[<<y, z>>] <= 0
      PROVE  d[<<x, z>>] <= 0
  <2>1. PICK a, b, e : a = key[x] /\ b = key[y] /\ e = key[z]
    OBVIOUS
  <2>2. /\ d[<<x, y>>] = c[<<a, b>>] /\ d[<<y, z>>] = c[<<b, e>>] /\ d[<<x, z>>] = c[<<a, e>>]
        /\ a \in U /\ b \in U /\ e \in U
    BY <1>1, <2>1
  <2>3. c[<<a, b>>] <= 0 /\ c[<<b, e>>] <= 0
    BY <1>3, <2>2
  <2>4. QED
    BY <2>2, <2>3 DEF Compares
<1>4. QED
  BY <1>2, <1>3 DEF Compares

-----------------------------------------------------------------------------
(* Comparison element by element.                                          *)

LexF(c, s, t) ==
  LET differ == {k \in 1..Min({Len(s), Len(t)}) : c[<<s[k], t[k]>>] # 0}
  IN  IF differ = {} THEN cmp(Len(s), Len(t)) ELSE c[<<s[Min(differ)], t[Min(differ)]>>]

\* They agree before place m.
AgreeTo(c, s, t, m) == \A k \in 1..m - 1 : c[<<s[k], t[k]>>] = 0

\* Place m decides, the place after the last of one of them by its absence.
Decides(c, s, t, m) ==
  /\ m \in 1..Len(s) + 1 /\ m \in 1..Len(t) + 1 /\ AgreeTo(c, s, t, m)
  /\ IF m <= Len(s) /\ m <= Len(t) THEN c[<<s[m], t[m]>>] # 0 ELSE TRUE

Decided(c, s, t, m) ==
  IF m <= Len(s) /\ m <= Len(t) THEN c[<<s[m], t[m]>>] ELSE cmp(Len(s), Len(t))

\* Some place decides.
LEMMA LexDecides ==
  ASSUME NEW T, NEW c, NEW s \in Seq(T), NEW t \in Seq(T)
  PROVE  \E m \in Nat : Decides(c, s, t, m) /\ LexF(c, s, t) = Decided(c, s, t, m)
<1> DEFINE least == Min({Len(s), Len(t)})
           differ == {k \in 1..least : c[<<s[k], t[k]>>] # 0}
<1>1. Len(s) \in Nat /\ Len(t) \in Nat
  OBVIOUS
<1>2. least \in {Len(s), Len(t)} /\ least <= Len(s) /\ least <= Len(t)
  BY <1>1, MinIs, {Len(s), Len(t)} # {}, {Len(s), Len(t)} \in SUBSET Nat
<1>3. CASE differ = {}
  <2>1. \A k \in 1..least : c[<<s[k], t[k]>>] = 0
    BY <1>3
  <2>2. LexF(c, s, t) = cmp(Len(s), Len(t))
    BY <1>3 DEF LexF
  <2> HIDE DEF least, differ
  <2>3. PICK m \in Nat : m = least + 1
    BY <1>1, <1>2
  <2>4. m - 1 = least /\ ~(m <= Len(s) /\ m <= Len(t)) /\ m \in 1..Len(s) + 1 /\ m \in 1..Len(t) + 1
    BY <1>1, <1>2, <2>3
  <2>5. AgreeTo(c, s, t, m)
    BY <2>1, <2>4 DEF AgreeTo
  <2>6. Decides(c, s, t, m)
    BY <2>4, <2>5 DEF Decides
  <2>7. QED
    BY <2>2, <2>4, <2>6 DEF Decided
<1>4. CASE differ # {}
  <2>1. LexF(c, s, t) = c[<<s[Min(differ)], t[Min(differ)]>>]
    BY <1>4 DEF LexF
  <2>2. PICK m : m = Min(differ)
    OBVIOUS
  <2>3. differ \in SUBSET Nat
    BY <1>1, <1>2
  <2>4. m \in differ /\ \A n \in differ : m <= n
    <3> HIDE DEF differ
    <3>1. QED
      BY <1>4, <2>2, <2>3, MinIs
  <2>5. m \in 1..least /\ c[<<s[m], t[m]>>] # 0 /\ m \in Nat
    BY <1>1, <1>2, <2>4
  <2>6. ASSUME NEW k \in 1..m - 1 PROVE c[<<s[k], t[k]>>] = 0
    <3>1. k \in 1..least /\ ~(m <= k)
      BY <1>1, <1>2, <2>5
    <3>2. k \notin differ
      BY <2>4, <3>1
    <3>3. QED
      BY <3>1, <3>2
  <2> HIDE DEF least, differ
  <2>7. m \in 1..Len(s) + 1 /\ m \in 1..Len(t) + 1 /\ m <= Len(s) /\ m <= Len(t)
    BY <1>1, <1>2, <2>5
  <2>8. QED
    BY <2>1, <2>2, <2>5, <2>6, <2>7 DEF Decides, AgreeTo, Decided
<1>5. QED
  BY <1>3, <1>4

\* Only one place does.
LEMMA OneDecides ==
  ASSUME NEW T, NEW c, NEW s \in Seq(T), NEW t \in Seq(T), NEW m, NEW n,
         Decides(c, s, t, m), Decides(c, s, t, n)
  PROVE  m = n
<1>1. Len(s) \in Nat /\ Len(t) \in Nat
  OBVIOUS
<1>2. m \in 1..Len(s) + 1 /\ m \in 1..Len(t) + 1 /\ n \in 1..Len(s) + 1 /\ n \in 1..Len(t) + 1
  BY DEF Decides
<1>3. CASE m < n
  <2>1. m <= Len(s) /\ m <= Len(t) /\ m \in 1..n - 1
    BY <1>1, <1>2, <1>3
  <2>2. QED
    BY <2>1 DEF Decides, AgreeTo
<1>4. CASE n < m
  <2>1. n <= Len(s) /\ n <= Len(t) /\ n \in 1..m - 1
    BY <1>1, <1>2, <1>4
  <2>2. QED
    BY <2>1 DEF Decides, AgreeTo
<1>5. QED
  BY <1>1, <1>2, <1>3, <1>4

\* Place by place, where the sequences are decided is what decides.
LEMMA LexIs ==
  ASSUME NEW T, NEW c, NEW s \in Seq(T), NEW t \in Seq(T), NEW m, Decides(c, s, t, m)
  PROVE  LexF(c, s, t) = Decided(c, s, t, m)
BY LexDecides, OneDecides

\* What the sequences of S have at place k.
AtPlace(S, k) == {s[k] : s \in {s \in S : k \in DOMAIN s}}

PlacesCompare(c, S) == \A k \in Nat : Compares(c, AtPlace(S, k))

\* An element at a place is one of those there.
LEMMA AtPlaceIs ==
  ASSUME NEW T, NEW S \in SUBSET Seq(T), NEW s \in S, NEW k \in Nat, 1 <= k, k <= Len(s)
  PROVE  s[k] \in AtPlace(S, k)
<1>1. k \in DOMAIN s
  BY Len(s) \in Nat
<1>2. QED
  BY <1>1 DEF AtPlace

\* From the other side the same place decides the other way.
LEMMA DecidesBack ==
  ASSUME NEW T, NEW c, NEW S \in SUBSET Seq(T), PlacesCompare(c, S),
         NEW s \in S, NEW t \in S, NEW m, Decides(c, s, t, m)
  PROVE  /\ Decides(c, t, s, m)
         /\ Decided(c, s, t, m) \in {-1, 0, 1}
         /\ Decided(c, t, s, m) = -Decided(c, s, t, m)
<1>1. Len(s) \in Nat /\ Len(t) \in Nat /\ m \in Nat /\ 1 <= m /\ m <= Len(s) + 1 /\ m <= Len(t) + 1
  BY DEF Decides
<1>2. ASSUME NEW k \in Nat, 1 <= k, k <= Len(s), k <= Len(t)
      PROVE  c[<<s[k], t[k]>>] \in {-1, 0, 1} /\ c[<<t[k], s[k]>>] = -c[<<s[k], t[k]>>]
  <2>1. s[k] \in AtPlace(S, k) /\ t[k] \in AtPlace(S, k)
    BY <1>2, AtPlaceIs
  <2>2. QED
    BY <2>1 DEF PlacesCompare, Compares
<1>3. ASSUME NEW k \in 1..m - 1 PROVE c[<<t[k], s[k]>>] = 0
  <2>1. k \in Nat /\ 1 <= k /\ k <= Len(s) /\ k <= Len(t)
    BY <1>1
  <2>2. c[<<s[k], t[k]>>] = 0
    BY DEF Decides, AgreeTo
  <2>3. QED
    BY <1>2, <2>1, <2>2
<1>4. CASE m <= Len(s) /\ m <= Len(t)
  <2>1. c[<<s[m], t[m]>>] # 0
    BY <1>4 DEF Decides
  <2>2. c[<<s[m], t[m]>>] \in {-1, 0, 1} /\ c[<<t[m], s[m]>>] = -c[<<s[m], t[m]>>]
    BY <1>1, <1>2, <1>4
  <2>3. m \in 1..Len(s) + 1 /\ m \in 1..Len(t) + 1
    BY <1>1
  <2>4. c[<<t[m], s[m]>>] # 0
    BY <2>1, <2>2
  <2>5. Decides(c, t, s, m)
    BY <1>3, <1>4, <2>3, <2>4 DEF Decides, AgreeTo
  <2>6. QED
    BY <1>4, <2>2, <2>5 DEF Decided
<1>5. CASE ~(m <= Len(s) /\ m <= Len(t))
  <2>1. m \in 1..Len(s) + 1 /\ m \in 1..Len(t) + 1
    BY <1>1
  <2>2. Decides(c, t, s, m)
    BY <1>3, <1>5, <2>1 DEF Decides, AgreeTo
  <2>3. Decided(c, s, t, m) = cmp(Len(s), Len(t)) /\ Decided(c, t, s, m) = cmp(Len(t), Len(s))
    BY <1>5 DEF Decided
  <2>4. cmp(Len(s), Len(t)) \in {-1, 0, 1} /\ cmp(Len(t), Len(s)) = -cmp(Len(s), Len(t))
    BY <1>1 DEF cmp
  <2>5. QED
    BY <2>2, <2>3, <2>4
<1>6. QED
  BY <1>4, <1>5

\* How a sequence can come to be no greater: by a lesser element, or by its end.
LEMMA NoGreater ==
  ASSUME NEW T, NEW c, NEW S \in SUBSET Seq(T), PlacesCompare(c, S),
         NEW s \in S, NEW t \in S, NEW m, Decides(c, s, t, m), Decided(c, s, t, m) <= 0
  PROVE  \/ m <= Len(s) /\ m <= Len(t) /\ c[<<s[m], t[m]>>] = -1
         \/ m = Len(s) + 1 /\ Len(s) <= Len(t)
<1>1. Len(s) \in Nat /\ Len(t) \in Nat /\ m \in Nat /\ 1 <= m /\ m <= Len(s) + 1 /\ m <= Len(t) + 1
  BY DEF Decides
<1>2. CASE m <= Len(s) /\ m <= Len(t)
  <2>1. s[m] \in AtPlace(S, m) /\ t[m] \in AtPlace(S, m)
    BY <1>1, <1>2, AtPlaceIs
  <2>2. c[<<s[m], t[m]>>] \in {-1, 0, 1}
    BY <1>1, <2>1 DEF PlacesCompare, Compares
  <2>3. c[<<s[m], t[m]>>] # 0 /\ c[<<s[m], t[m]>>] <= 0
    BY <1>2 DEF Decides, Decided
  <2>4. QED
    BY <1>2, <2>2, <2>3
<1>3. CASE ~(m <= Len(s) /\ m <= Len(t))
  <2>1. cmp(Len(s), Len(t)) <= 0
    BY <1>3 DEF Decided
  <2>2. Len(s) <= Len(t)
    BY <1>1, <2>1 DEF cmp
  <2>3. QED
    BY <1>1, <1>3, <2>2
<1>4. QED
  BY <1>2, <1>3

\* Agreement is transitive.
LEMMA AgreeBoth ==
  ASSUME NEW T, NEW c, NEW S \in SUBSET Seq(T), PlacesCompare(c, S),
         NEW s \in S, NEW t \in S, NEW u \in S, NEW m \in Nat, AgreeTo(c, s, t, m), AgreeTo(c, t, u, m),
         m <= Len(s) + 1, m <= Len(t) + 1, m <= Len(u) + 1
  PROVE  AgreeTo(c, s, u, m)
<1>1. ASSUME NEW k \in 1..m - 1 PROVE c[<<s[k], u[k]>>] = 0
  <2>1. /\ k \in Nat /\ 1 <= k /\ k <= Len(s) /\ k <= Len(t) /\ k <= Len(u)
    BY Len(s) \in Nat, Len(t) \in Nat, Len(u) \in Nat
  <2>2. s[k] \in AtPlace(S, k) /\ t[k] \in AtPlace(S, k) /\ u[k] \in AtPlace(S, k)
    BY <2>1, AtPlaceIs
  <2>3. Compares(c, AtPlace(S, k))
    BY <2>1 DEF PlacesCompare
  <2>4. c[<<s[k], t[k]>>] = 0 /\ c[<<t[k], u[k]>>] = 0
    BY DEF AgreeTo
  <2>5. QED
    BY <2>2, <2>3, <2>4, Interchange
<1>2. QED
  BY <1>1 DEF AgreeTo

\* The two first places where one is less decide between them.
LEMMA LexTransitive ==
  ASSUME NEW T, NEW c, NEW S \in SUBSET Seq(T), PlacesCompare(c, S),
         NEW s \in S, NEW t \in S, NEW u \in S, LexF(c, s, t) <= 0, LexF(c, t, u) <= 0
  PROVE  LexF(c, s, u) <= 0
<1>0. Len(s) \in Nat /\ Len(t) \in Nat /\ Len(u) \in Nat /\ s \in Seq(T) /\ t \in Seq(T) /\ u \in Seq(T)
  OBVIOUS
<1>1. PICK m \in Nat : Decides(c, s, t, m) /\ LexF(c, s, t) = Decided(c, s, t, m)
  BY <1>0, LexDecides
<1>2. PICK n \in Nat : Decides(c, t, u, n) /\ LexF(c, t, u) = Decided(c, t, u, n)
  BY <1>0, LexDecides
<1>3. \/ m <= Len(s) /\ m <= Len(t) /\ c[<<s[m], t[m]>>] = -1
      \/ m = Len(s) + 1 /\ Len(s) <= Len(t)
  BY <1>1, NoGreater
<1>4. \/ n <= Len(t) /\ n <= Len(u) /\ c[<<t[n], u[n]>>] = -1
      \/ n = Len(t) + 1 /\ Len(t) <= Len(u)
  BY <1>2, NoGreater
<1>5. 1 <= m /\ 1 <= n /\ m <= Len(s) + 1 /\ m <= Len(t) + 1 /\ n <= Len(t) + 1 /\ n <= Len(u) + 1
  BY <1>0, <1>1, <1>2 DEF Decides
<1>6. ASSUME NEW k \in Nat, 1 <= k, k <= Len(s), k <= Len(t), k <= Len(u),
             c[<<s[k], t[k]>>] <= 0, c[<<t[k], u[k]>>] <= 0,
             c[<<s[k], t[k]>>] = -1 \/ c[<<t[k], u[k]>>] = -1
      PROVE  c[<<s[k], u[k]>>] = -1
  <2>1. s[k] \in AtPlace(S, k) /\ t[k] \in AtPlace(S, k) /\ u[k] \in AtPlace(S, k)
    BY <1>6, AtPlaceIs
  <2>2. Compares(c, AtPlace(S, k))
    BY DEF PlacesCompare
  <2>3. QED
    BY <1>6, <2>1, <2>2, Interchange
<1>7. ASSUME NEW k \in Nat, k <= m, k <= n PROVE AgreeTo(c, s, t, k) /\ AgreeTo(c, t, u, k)
  <2>1. \A j \in 1..k - 1 : j \in 1..m - 1 /\ j \in 1..n - 1
    BY <1>7
  <2>2. QED
    BY <1>1, <1>2, <2>1 DEF Decides, AgreeTo
<1>8. ASSUME NEW k \in Nat, 1 <= k, k <= m, k <= n, k <= Len(s), k <= Len(u), c[<<s[k], u[k]>>] = -1
      PROVE  LexF(c, s, u) <= 0
  <2>1. AgreeTo(c, s, u, k)
    <3>1. AgreeTo(c, s, t, k) /\ AgreeTo(c, t, u, k)
      BY <1>7, <1>8
    <3>2. k <= Len(s) + 1 /\ k <= Len(t) + 1 /\ k <= Len(u) + 1
      BY <1>0, <1>5, <1>8
    <3>3. QED
      BY <3>1, <3>2, AgreeBoth
  <2>2. k \in 1..Len(s) + 1 /\ k \in 1..Len(u) + 1
    BY <1>0, <1>8
  <2>3. Decides(c, s, u, k)
    BY <1>8, <2>1, <2>2 DEF Decides
  <2>4. LexF(c, s, u) = -1
    BY <1>0, <1>8, <2>3, LexIs DEF Decided
  <2>5. QED
    BY <2>4
<1>9. CASE m <= Len(s) /\ m < n
  <2>1. m <= Len(t) /\ m <= Len(u) /\ c[<<s[m], t[m]>>] = -1
    BY <1>0, <1>3, <1>5, <1>9
  <2>2. m \in 1..n - 1
    BY <1>5, <1>9
  <2>3. c[<<t[m], u[m]>>] = 0
    BY <1>2, <2>2 DEF Decides, AgreeTo
  <2>4. c[<<s[m], u[m]>>] = -1
    BY <1>5, <1>6, <1>9, <2>1, <2>3
  <2>5. QED
    BY <1>5, <1>8, <1>9, <2>1, <2>4
<1>10. CASE m <= Len(s) /\ m = n
  <2>1. m <= Len(t) /\ m <= Len(u) /\ c[<<s[m], t[m]>>] = -1 /\ c[<<t[m], u[m]>>] = -1
    BY <1>0, <1>3, <1>4, <1>5, <1>10
  <2>2. c[<<s[m], u[m]>>] = -1
    <3>1. m \in Nat /\ 1 <= m /\ c[<<s[m], t[m]>>] <= 0 /\ c[<<t[m], u[m]>>] <= 0
      BY <1>5, <2>1
    <3>2. QED
      BY <1>6, <1>10, <2>1, <3>1
  <2>3. QED
    BY <1>5, <1>8, <1>10, <2>1, <2>2
<1>11. CASE n < m
  <2>1. n <= Len(s) /\ n <= Len(t) /\ n <= Len(u) /\ c[<<t[n], u[n]>>] = -1
    BY <1>0, <1>3, <1>4, <1>5, <1>11
  <2>2. n \in 1..m - 1
    BY <1>5, <1>11
  <2>3. c[<<s[n], t[n]>>] = 0
    BY <1>1, <2>2 DEF Decides, AgreeTo
  <2>4. c[<<s[n], u[n]>>] = -1
    BY <1>5, <1>6, <2>1, <2>3
  <2>5. QED
    BY <1>5, <1>8, <1>11, <2>1, <2>4
<1>12. CASE m = Len(s) + 1 /\ m <= n
  <2>1. Len(s) <= Len(u)
    BY <1>0, <1>5, <1>12
  <2>2. AgreeTo(c, s, u, m)
    BY <1>0, <1>5, <1>7, <1>12, AgreeBoth
  <2>3. m \in 1..Len(s) + 1 /\ m \in 1..Len(u) + 1 /\ ~(m <= Len(s))
    BY <1>0, <1>5, <1>12
  <2>4. Decides(c, s, u, m)
    BY <2>2, <2>3 DEF Decides
  <2>5. LexF(c, s, u) = cmp(Len(s), Len(u))
    BY <1>0, <2>3, <2>4, LexIs DEF Decided
  <2>6. QED
    BY <1>0, <2>1, <2>5 DEF cmp
<1>13. QED
  BY <1>0, <1>3, <1>5, <1>9, <1>10, <1>11, <1>12

\* Comparing element by element compares.
LEMMA LexCompares ==
  ASSUME NEW T, NEW c, NEW S \in SUBSET Seq(T), PlacesCompare(c, S),
         NEW d, \A s, t \in S : d[<<s, t>>] = LexF(c, s, t)
  PROVE  Compares(d, S)
<1>1. ASSUME NEW s \in S, NEW t \in S PROVE d[<<s, t>>] \in {-1, 0, 1} /\ d[<<t, s>>] = -d[<<s, t>>]
  <2>1. s \in Seq(T) /\ t \in Seq(T)
    OBVIOUS
  <2>2. PICK m \in Nat : Decides(c, s, t, m) /\ LexF(c, s, t) = Decided(c, s, t, m)
    BY <2>1, LexDecides
  <2>3. /\ Decides(c, t, s, m) /\ Decided(c, s, t, m) \in {-1, 0, 1}
        /\ Decided(c, t, s, m) = -Decided(c, s, t, m)
    BY <2>2, DecidesBack
  <2>4. LexF(c, t, s) = Decided(c, t, s, m)
    BY <2>1, <2>3, LexIs
  <2>5. QED
    BY <2>2, <2>3, <2>4
<1>2. ASSUME NEW s \in S, NEW t \in S, NEW u \in S, d[<<s, t>>] <= 0, d[<<t, u>>] <= 0
      PROVE  d[<<s, u>>] <= 0
  <2>1. LexF(c, s, t) <= 0 /\ LexF(c, t, u) <= 0
    BY <1>2
  <2>2. LexF(c, s, u) <= 0
    BY <2>1, LexTransitive
  <2>3. QED
    BY <2>2
<1>3. QED
  BY <1>1, <1>2 DEF Compares

\* If it does so by elements that nothing else is as much as, nothing else is as
\* much as a sequence.
LEMMA LexSeparates ==
  ASSUME NEW T, NEW c, Separates(c, T), NEW s \in Seq(T), NEW t \in Seq(T), LexF(c, s, t) = 0
  PROVE  s = t
<1>1. PICK m \in Nat : Decides(c, s, t, m) /\ LexF(c, s, t) = Decided(c, s, t, m)
  BY LexDecides
<1>2. Len(s) \in Nat /\ Len(t) \in Nat /\ m <= Len(s) + 1 /\ m <= Len(t) + 1
  BY <1>1 DEF Decides
<1>3. ~(m <= Len(s) /\ m <= Len(t))
  BY <1>1 DEF Decides, Decided
<1>4. cmp(Len(s), Len(t)) = 0
  BY <1>1, <1>3 DEF Decided
<1>5. Len(s) = Len(t)
  BY <1>2, <1>4 DEF cmp
<1>6. ASSUME NEW k \in 1..Len(s) PROVE s[k] = t[k]
  <2>1. k \in 1..m - 1
    BY <1>2, <1>3, <1>5
  <2>2. c[<<s[k], t[k]>>] = 0
    BY <1>1, <2>1 DEF Decides, AgreeTo
  <2>3. s[k] \in T /\ t[k] \in T
    BY <1>5
  <2>4. QED
    BY <2>2, <2>3 DEF Separates
<1>7. QED
  BY <1>5, <1>6

-----------------------------------------------------------------------------
(* Names, piece by piece.                                                  *)

Texts == Seq(Nat)
Parts == Texts \ {<<>>}

\* What is compared of two sequences, and that its least place is one of it.
LEMMA Common ==
  ASSUME NEW T, NEW s \in Seq(T), NEW t \in Seq(T)
  PROVE  /\ \A k \in 1..Min({Len(s), Len(t)}) : k \in DOMAIN s /\ k \in DOMAIN t
         /\ \A D \in SUBSET (1..Min({Len(s), Len(t)})) : D # {} => Min(D) \in D
<1>1. Len(s) \in Nat /\ Len(t) \in Nat
  OBVIOUS
<1>2. PICK b : b = Min({Len(s), Len(t)})
  OBVIOUS
<1>3. b \in {Len(s), Len(t)} /\ b <= Len(s) /\ b <= Len(t)
  BY <1>1, <1>2, MinIs, {Len(s), Len(t)} # {}, {Len(s), Len(t)} \in SUBSET Nat
<1>4. \A k \in 1..b : k \in DOMAIN s /\ k \in DOMAIN t
  BY <1>1, <1>3
<1>5. ASSUME NEW D \in SUBSET (1..b), D # {} PROVE Min(D) \in D
  <2>1. D \in SUBSET Nat
    BY <1>1, <1>3
  <2>2. QED
    BY <1>5, <2>1, MinIs
<1>6. QED
  BY <1>2, <1>4, <1>5

bytes == [p \in Nat \X Nat |-> cmp(p[1], p[2])]
slices == [p \in Texts \X Texts |-> slice_cmp(p[1], p[2])]

\* Texts are compared byte by byte.
LEMMA SliceIs ==
  ASSUME NEW s \in Texts, NEW t \in Texts
  PROVE  slice_cmp(s, t) = LexF(bytes, s, t)
<1> DEFINE shared == 1..Min({Len(s), Len(t)})
           differ == {k \in shared : cmp(s[k], t[k]) # 0}
<1>1. \A k \in shared : k \in DOMAIN s /\ k \in DOMAIN t
  BY Common DEF Texts
<1>2. differ # {} => Min(differ) \in differ
  <2>1. \A D \in SUBSET shared : D # {} => Min(D) \in D
    BY Common DEF Texts
  <2>2. differ \in SUBSET shared
    OBVIOUS
  <2> HIDE DEF differ, shared
  <2>3. QED
    BY <2>1, <2>2
<1>3. \A k \in shared : bytes[<<s[k], t[k]>>] = cmp(s[k], t[k])
  <2> HIDE DEF shared
  <2>1. QED
    BY <1>1 DEF Texts, bytes
<1>4. differ = {k \in shared : bytes[<<s[k], t[k]>>] # 0}
  BY <1>3
<1>5. slice_cmp(s, t) = IF differ = {} THEN cmp(Len(s), Len(t)) ELSE cmp(s[Min(differ)], t[Min(differ)])
  BY DEF slice_cmp, lex
<1>6. LexF(bytes, s, t) = IF differ = {} THEN cmp(Len(s), Len(t)) ELSE bytes[<<s[Min(differ)], t[Min(differ)]>>]
  BY <1>4 DEF LexF
<1>7. differ # {} => Min(differ) \in shared
  BY <1>2
<1> HIDE DEF differ, shared
<1>8. QED
  BY <1>3, <1>5, <1>6, <1>7

\* Texts compared byte by byte are ordered, and different ones differ.
LEMMA SlicesCompare == Compares(slices, Texts) /\ Separates(slices, Texts)
<1>1. PlacesCompare(bytes, Texts)
  <2>1. ASSUME NEW k \in Nat PROVE Compares(bytes, AtPlace(Texts, k))
    <3>1. AtPlace(Texts, k) \subseteq Nat
      BY DEF AtPlace, Texts
    <3>2. Compares(bytes, Nat)
      BY NumbersCompare DEF bytes
    <3> HIDE DEF bytes
    <3>3. QED
      BY <3>1, <3>2 DEF Compares
  <2>2. QED
    BY <2>1 DEF PlacesCompare
<1>2. \A s, t \in Texts : slices[<<s, t>>] = LexF(bytes, s, t)
  BY SliceIs DEF slices
<1>3. Compares(slices, Texts)
  BY <1>1, <1>2, LexCompares DEF Texts
<1>4. Separates(slices, Texts)
  <2>1. Separates(bytes, Nat)
    BY NumbersCompare DEF bytes
  <2>2. QED
    BY <1>2, <2>1, LexSeparates DEF Texts, Separates
<1>5. QED
  BY <1>3, <1>4

Ends(s, Class) == {i \in DOMAIN s : i = Len(s) \/ ~({s[i], s[i + 1]} \subseteq Class)}

\* b has the places where the pieces of s end, in order.
Bounds(s, Class, b) ==
  LET n == Len(Pieces(s, Class))
  IN  /\ n \in Nat /\ b \in [0..n -> 0..Len(s)] /\ b[0] = 0
      /\ \A k \in 1..n : b[k] \in Ends(s, Class)
      /\ \A j, k \in 0..n : j < k => b[j] < b[k]
      /\ \A i \in Ends(s, Class) : \E k \in 1..n : b[k] = i
      /\ Pieces(s, Class) = [k \in 1..n |-> SubSeq(s, b[k - 1] + 1, b[k])]

\* The pieces of every text have bounds.
LEMMA PiecesBounded ==
  ASSUME NEW Class, NEW s \in Texts
  PROVE  \E b : Bounds(s, Class, b)
<1> DEFINE ends == Ends(s, Class)
           n == Cardinality(ends)
           Upto(i) == {j \in ends : j <= i}
           End(k) == CHOOSE i \in ends \cup {0} : Cardinality({j \in ends : j <= i}) = k
           b == [k \in 0..n |-> End(k)]
           id == [i \in ends |-> i]
<1>1. Len(s) \in Nat /\ DOMAIN s = 1..Len(s)
  BY DEF Texts
<1>2. ends \in SUBSET (1..Len(s)) /\ IsFiniteSet(ends)
  <2>1. ends \in SUBSET (1..Len(s))
    BY <1>1 DEF Ends
  <2> HIDE DEF ends
  <2>2. IsFiniteSet(1..Len(s))
    BY <1>1, FS_Interval
  <2>3. QED
    BY <2>1, <2>2, FS_Subset
<1>3. Ranked(ends, id)
  <2> HIDE DEF ends
  <2>1. Keyed(ends, id)
    BY <1>1, <1>2 DEF Keyed
  <2>2. QED
    BY <2>1, Ranks
<1>4. n \in Nat
  <2> HIDE DEF ends, id
  <2>1. QED
    BY <1>3 DEF Ranked
<1>5. ASSUME NEW i \in ends
      PROVE  Cardinality(Upto(i)) = Rank(ends, id, i) + 1 /\ Rank(ends, id, i) \in 0..n - 1
  <2> HIDE DEF ends
  <2>1. Rank(ends, id, i) \in 0..n - 1
    <3> HIDE DEF id
    <3>1. QED
      BY <1>3 DEF Ranked
  <2> DEFINE below == {j \in ends : j < i}
  <2>2. Rank(ends, id, i) = Cardinality(below)
    <3>1. {j \in ends : id[j] < id[i]} = below
      OBVIOUS
    <3>2. QED
      BY <3>1 DEF Rank
  <2>3. Upto(i) = below \cup {i} /\ i \notin below /\ below \in SUBSET ends
    <3>1. \A j \in ends : j \in Int
      BY <1>1, <1>2
    <3>2. \A j \in ends : j <= i <=> (j < i \/ j = i)
      BY <3>1
    <3>3. ~(i < i) /\ i <= i
      BY <3>1
    <3>4. Upto(i) = below \cup {i}
      BY <3>2, <3>3
    <3>5. QED
      BY <3>3, <3>4
  <2> HIDE DEF below, id, Upto
  <2>4. IsFiniteSet(below)
    BY <1>2, <2>3, FS_Subset
  <2>5. Cardinality(below \cup {i}) = Cardinality(below) + 1
    BY <2>3, <2>4, FS_AddElement
  <2>6. QED
    BY <2>1, <2>2, <2>3, <2>5
<1>6. Cardinality(Upto(0)) = 0
  <2>1. Upto(0) = {}
    BY <1>1, <1>2
  <2>2. QED
    BY <2>1, FS_EmptySet
<1>7. ASSUME NEW k \in 0..n PROVE End(k) \in ends \cup {0} /\ Cardinality(Upto(End(k))) = k
  <2>1. \E i \in ends \cup {0} : Cardinality(Upto(i)) = k
    <3>1. CASE k = 0
      <4> HIDE DEF Upto
      <4>1. QED
        BY <1>6, <3>1
    <3>2. CASE k # 0
      <4>1. k \in 1..n
        BY <1>4, <3>2
      <4>2. PICK i \in ends : Rank(ends, id, i) = k - 1
        <5> HIDE DEF ends, id
        <5>1. QED
          BY <1>3, <4>1 DEF Ranked
      <4>3. Cardinality(Upto(i)) = k
        <5> HIDE DEF ends, id, Upto
        <5>1. QED
          BY <1>4, <1>5, <4>2
      <4>4. QED
        BY <4>3
    <3>3. QED
      BY <3>1, <3>2
  <2> HIDE DEF ends
  <2>2. QED
    BY <2>1
<1>8. ASSUME NEW i \in ends \cup {0}, NEW j \in ends \cup {0}, i < j
      PROVE  Cardinality(Upto(i)) < Cardinality(Upto(j))
  <2>1. j \in ends
    BY <1>1, <1>2, <1>8
  <2>2. CASE i = 0
    <3> HIDE DEF ends, id, Upto
    <3>1. QED
      BY <1>4, <1>5, <1>6, <2>1, <2>2
  <2>3. CASE i # 0
    <3>1. i \in ends
      BY <2>3
    <3>2. Rank(ends, id, i) < Rank(ends, id, j)
      <4>1. id[i] < id[j]
        BY <1>8, <2>1, <3>1
      <4> HIDE DEF ends, id
      <4>2. QED
        BY <1>3, <2>1, <3>1, <4>1 DEF Ranked
    <3> HIDE DEF ends, id, Upto
    <3>3. QED
      BY <1>4, <1>5, <2>1, <3>1, <3>2
  <2>4. QED
    BY <2>2, <2>3
<1>9. ASSUME NEW i \in ends \cup {0}, NEW j \in ends \cup {0}, Cardinality(Upto(i)) = Cardinality(Upto(j))
      PROVE  i = j
  <2>1. i \in Int /\ j \in Int
    BY <1>1, <1>2
  <2>2. ~(i < j) /\ ~(j < i)
    <3>1. \A k \in 0..n : ~(k < k)
      BY <1>4
    <3>2. Cardinality(Upto(i)) \in 0..n
      <4>1. CASE i = 0
        <5> HIDE DEF Upto
        <5>1. QED
          BY <1>4, <1>6, <4>1
      <4>2. CASE i # 0
        <5>1. i \in ends
          BY <4>2
        <5> HIDE DEF ends, id, Upto
        <5>2. QED
          BY <1>4, <1>5, <5>1
      <4>3. QED
        BY <4>1, <4>2
    <3> HIDE DEF ends, Upto
    <3>3. QED
      BY <1>8, <1>9, <3>1, <3>2
  <2>3. QED
    BY <2>1, <2>2
<1>10. Pieces(s, Class) = [k \in 1..n |-> SubSeq(s, End(k - 1) + 1, End(k))]
  BY DEF Pieces, Ends
<1>11. \A k \in 0..n : b[k] = End(k) /\ b[k] \in ends \cup {0} /\ Cardinality(Upto(b[k])) = k
  <2> HIDE DEF ends, End, Upto
  <2>1. QED
    BY <1>7
<1>12. Len(Pieces(s, Class)) = n
  <2> HIDE DEF ends, End
  <2>1. QED
    BY <1>4, <1>10
<1>13. Pieces(s, Class) = [k \in 1..n |-> SubSeq(s, b[k - 1] + 1, b[k])]
  <2>1. \A k \in 1..n : k \in 0..n /\ k - 1 \in 0..n
    BY <1>4
  <2>2. \A k \in 1..n : End(k) = b[k] /\ End(k - 1) = b[k - 1]
    BY <1>11, <2>1
  <2> HIDE DEF b, End
  <2>3. QED
    BY <1>10, <2>2
<1> HIDE DEF End, b
<1>14. b \in [0..n -> 0..Len(s)]
  <2>1. b = [k \in 0..n |-> b[k]]
    BY DEF b
  <2> HIDE DEF ends, Upto
  <2>2. QED
    BY <1>1, <1>2, <1>11, <2>1
<1>15. b[0] = 0
  <2>1. 0 \in 0..n
    BY <1>4
  <2> HIDE DEF ends, Upto
  <2>2. QED
    BY <1>6, <1>9, <1>11, <2>1
<1>16. ASSUME NEW k \in 1..n PROVE b[k] \in ends
  <2>1. k \in 0..n /\ k # 0
    BY <1>4
  <2>2. b[k] # 0
    <3> HIDE DEF ends, Upto
    <3>1. QED
      BY <1>6, <1>11, <2>1
  <2> HIDE DEF ends, Upto
  <2>3. QED
    BY <1>11, <2>1, <2>2
<1>17. ASSUME NEW j \in 0..n, NEW k \in 0..n, j < k PROVE b[j] < b[k]
  <2>1. Cardinality(Upto(b[j])) = j /\ Cardinality(Upto(b[k])) = k /\ b[j] \in ends \cup {0} /\ b[k] \in ends \cup {0}
    BY <1>11
  <2>2. b[j] \in Int /\ b[k] \in Int
    BY <1>1, <1>2, <2>1
  <2>3. ~(b[k] < b[j]) /\ b[j] # b[k]
    <3> HIDE DEF ends, Upto
    <3>1. ~(k < j) /\ j # k
      BY <1>4, <1>17
    <3>2. QED
      BY <1>8, <2>1, <3>1
  <2>4. QED
    BY <2>2, <2>3
<1>18. ASSUME NEW i \in ends PROVE \E k \in 1..n : b[k] = i
  <2> DEFINE k == Cardinality(Upto(i))
  <2>1. k \in 1..n
    <3> HIDE DEF ends, id, Upto
    <3>1. QED
      BY <1>4, <1>5
  <2>2. k \in 0..n
    BY <1>4, <2>1
  <2>3. Cardinality(Upto(b[k])) = k /\ b[k] \in ends \cup {0}
    <3> HIDE DEF k, ends, Upto
    <3>1. QED
      BY <1>11, <2>2
  <2>4. b[k] = i
    <3> HIDE DEF ends, Upto
    <3>1. QED
      BY <1>9, <2>3
  <2>5. QED
    BY <2>1, <2>4
<1>19. Bounds(s, Class, b)
  <2> HIDE DEF n
  <2>1. QED
    BY <1>4, <1>12, <1>13, <1>14, <1>15, <1>16, <1>17, <1>18 DEF Bounds
<1>20. QED
  BY <1>19

\* The part of a text from one place to another.
LEMMA PartIs ==
  ASSUME NEW s \in Texts, NEW i \in 1..Len(s), NEW j \in i..Len(s)
  PROVE  /\ SubSeq(s, i, j) \in Parts /\ Len(SubSeq(s, i, j)) = j - i + 1
         /\ \A k \in 1..j - i + 1 : SubSeq(s, i, j)[k] = s[i + k - 1]
         /\ SubSeq(s, i, j)[1] = s[i]
<1>1. Len(s) \in Nat
  BY DEF Texts
<1>2. /\ SubSeq(s, i, j) \in Texts /\ Len(SubSeq(s, i, j)) = j - i + 1
      /\ \A k \in 1..j - i + 1 : SubSeq(s, i, j)[k] = s[i + k - 1]
  <2>1. i \in Int /\ j \in Int /\ i <= j
    BY <1>1
  <2>2. \A k \in i..j : s[k] \in Nat
    BY <1>1 DEF Texts
  <2>3. PICK p : p = SubSeq(s, i, j)
    OBVIOUS
  <2>4. p \in Seq(Nat)
    BY <2>1, <2>2, <2>3, SubSeqProperties, Zenon
  <2>5. Len(p) = IF i <= j THEN j - i + 1 ELSE 0
    BY <2>1, <2>2, <2>3, SubSeqProperties, Zenon
  <2>6. \A k \in 1..j - i + 1 : p[k] = s[i + k - 1]
    BY <1>1, <2>1, <2>3 DEF Texts
  <2>7. QED
    BY <2>1, <2>3, <2>4, <2>5, <2>6 DEF Texts
<1>3. j - i + 1 \in Nat /\ 1 <= j - i + 1 /\ 1 \in 1..j - i + 1 /\ i + 1 - 1 = i
  BY <1>1
<1>4. SubSeq(s, i, j) # <<>>
  BY <1>2, <1>3
<1>5. QED
  BY <1>2, <1>3, <1>4 DEF Parts

\* The pieces of a text are texts, and none is empty.
LEMMA PiecesAre ==
  ASSUME NEW Class, NEW s \in Texts
  PROVE  /\ Pieces(s, Class) \in Seq(Parts)
         /\ s # <<>> => Pieces(s, Class) # <<>> /\ Pieces(s, Class)[1][1] = s[1]
<1> DEFINE n == Len(Pieces(s, Class))
<1>1. PICK b : Bounds(s, Class, b)
  BY PiecesBounded
<1>2. /\ n \in Nat /\ b \in [0..n -> 0..Len(s)] /\ b[0] = 0
      /\ \A j, k \in 0..n : j < k => b[j] < b[k]
      /\ \A i \in Ends(s, Class) : \E k \in 1..n : b[k] = i
      /\ Pieces(s, Class) = [k \in 1..n |-> SubSeq(s, b[k - 1] + 1, b[k])]
  BY <1>1 DEF Bounds
<1> HIDE DEF n
<1>3. Len(s) \in Nat
  BY DEF Texts
<1>4. ASSUME NEW k \in 1..n PROVE b[k - 1] + 1 \in 1..Len(s) /\ b[k] \in b[k - 1] + 1..Len(s)
  <2>1. k \in 0..n /\ k - 1 \in 0..n /\ k - 1 < k
    BY <1>2
  <2>2. b[k - 1] \in 0..Len(s) /\ b[k] \in 0..Len(s) /\ b[k - 1] < b[k]
    BY <1>2, <2>1
  <2>3. QED
    BY <1>3, <2>2
<1>5. \A k \in 1..n : SubSeq(s, b[k - 1] + 1, b[k]) \in Parts
  BY <1>4, PartIs
<1>6. Pieces(s, Class) \in Seq(Parts)
  BY <1>2, <1>5
<1>7. ASSUME s # <<>> PROVE Pieces(s, Class) # <<>> /\ Pieces(s, Class)[1][1] = s[1]
  <2>1. Len(s) \in DOMAIN s
    BY <1>3, <1>7 DEF Texts
  <2>2. Len(s) \in Ends(s, Class)
    BY <2>1 DEF Ends
  <2>3. n # 0 /\ 1 \in 1..n
    BY <1>2, <2>2
  <2>4. Pieces(s, Class)[1] = SubSeq(s, b[0] + 1, b[1])
    <3>1. \A k \in 1..n : Pieces(s, Class)[k] = SubSeq(s, b[k - 1] + 1, b[k])
      BY <1>2, Zenon
    <3>2. Pieces(s, Class)[1] = SubSeq(s, b[1 - 1] + 1, b[1])
      BY <2>3, <3>1, Zenon
    <3>3. 1 - 1 = 0
      OBVIOUS
    <3>4. QED
      BY <3>2, <3>3, Zenon
  <2>5. b[0] + 1 = 1 /\ 1 \in 1..Len(s) /\ b[1] \in 1..Len(s)
    BY <1>2, <1>3, <1>4, <2>3
  <2>6. SubSeq(s, 1, b[1])[1] = s[1]
    BY <2>5, PartIs
  <2>7. Pieces(s, Class)[1][1] = s[1]
    BY <2>4, <2>5, <2>6
  <2>8. Pieces(s, Class) # <<>>
    <3>1. Len(Pieces(s, Class)) # 0
      BY <2>3 DEF n
    <3> HIDE DEF n
    <3>2. QED
      BY <3>1, Len(<<>>) = 0
  <2>9. QED
    BY <2>7, <2>8
<1>8. QED
  BY <1>6, <1>7

-----------------------------------------------------------------------------
(* Runs of digits.                                                         *)

\* What is left of a run is not empty.
LEMMA StripIs ==
  ASSUME NEW run \in Parts
  PROVE  strip_leading_zeros(run) \in Parts
<1> DEFINE kept == {i \in 1..Len(run) : run[i] # 48 \/ i = Len(run)}
<1>1. Len(run) \in Nat /\ Len(run) # 0
  BY DEF Parts, Texts
<1>2. Len(run) \in kept /\ kept \in SUBSET Nat
  BY <1>1
<1>3. PICK i : i = Min(kept)
  OBVIOUS
<1>4. i \in kept
  <2> HIDE DEF kept
  <2>1. QED
    BY <1>2, <1>3, MinIs
<1>5. i \in 1..Len(run) /\ Len(run) \in i..Len(run)
  BY <1>1, <1>4
<1>6. SubSeq(run, i, Len(run)) \in Parts
  BY <1>5, PartIs DEF Parts
<1>7. QED
  BY <1>3, <1>6 DEF strip_leading_zeros

\* A digit stands for all of them.
Leading(x) == IF x[1] \in Digit THEN 48 ELSE x[1]

Value(x) == IF x[1] \in Digit THEN strip_leading_zeros(x) ELSE <<>>

values == [p \in Parts \X Parts |-> by_value(p[1], p[2])]

\* A part of a name has a first byte, and what is compared of it is a number or a text.
LEMMA FirstIs ==
  ASSUME NEW x \in Parts
  PROVE  x[1] \in Nat /\ Leading(x) \in Nat /\ Value(x) \in Texts /\ Len(Value(x)) \in Nat
<1>1. x[1] \in Nat
  BY DEF Parts, Texts
<1>2. strip_leading_zeros(x) \in Texts /\ <<>> \in Texts
  BY StripIs DEF Parts, Texts
<1>3. Value(x) \in Texts
  BY <1>2 DEF Value
<1>4. QED
  BY <1>1, <1>3 DEF Leading, Texts

\* The three comparisons by_value is made of.
LEMMA ByValueIs ==
  ASSUME NEW l \in Parts, NEW r \in Parts
  PROVE  by_value(l, r) = then_with(cmp(Leading(l), Leading(r)),
                            then_with(cmp(Len(Value(l)), Len(Value(r))), slice_cmp(Value(l), Value(r))))
<1>1. l[1] \in Nat /\ r[1] \in Nat
  BY FirstIs
<1>2. CASE l[1] \in Digit /\ r[1] \in Digit
  <2>1. Value(l) = strip_leading_zeros(l) /\ Value(r) = strip_leading_zeros(r)
    BY <1>2 DEF Value
  <2>2. by_value(l, r) = then_with(cmp(Len(Value(l)), Len(Value(r))), slice_cmp(Value(l), Value(r)))
    BY <1>2, <2>1 DEF by_value
  <2>3. cmp(Leading(l), Leading(r)) = 0
    BY <1>2 DEF Leading, cmp
  <2>4. QED
    BY <2>2, <2>3 DEF then_with
<1>3. CASE ~(l[1] \in Digit /\ r[1] \in Digit)
  <2>1. by_value(l, r) = cmp(l[1], r[1])
    BY <1>3 DEF by_value
  <2>2. cmp(l[1], r[1]) = cmp(Leading(l), Leading(r))
    BY <1>1, <1>3 DEF Leading, cmp, Digit
  <2>3. CASE cmp(Leading(l), Leading(r)) # 0
    BY <2>1, <2>2, <2>3 DEF then_with
  <2>4. CASE cmp(Leading(l), Leading(r)) = 0
    <3>1. l[1] \notin Digit /\ r[1] \notin Digit
      BY <1>1, <1>3, <2>4 DEF Leading, cmp, Digit
    <3>2. Value(l) = <<>> /\ Value(r) = <<>>
      BY <3>1 DEF Value
    <3>3. <<>> \in Texts /\ Len(<<>>) = 0
      BY DEF Texts
    <3>4. slice_cmp(<<>>, <<>>) = -slice_cmp(<<>>, <<>>) /\ slice_cmp(<<>>, <<>>) \in {-1, 0, 1}
      BY <3>3, SlicesCompare DEF Compares, slices
    <3>5. slice_cmp(<<>>, <<>>) = 0 /\ cmp(Len(<<>>), Len(<<>>)) = 0
      BY <3>3, <3>4 DEF cmp
    <3>6. QED
      BY <2>1, <2>2, <2>4, <3>2, <3>5 DEF then_with
  <2>5. QED
    BY <2>3, <2>4
<1>4. QED
  BY <1>2, <1>3

\* Digits by their value, other bytes as they are.
LEMMA ValuesCompare == Compares(values, Parts)
<1> DEFINE class == [x \in Parts |-> Leading(x)]
           length == [x \in Parts |-> Len(Value(x))]
           value == [x \in Parts |-> Value(x)]
           c == [p \in Parts \X Parts |-> cmp(Leading(p[1]), Leading(p[2]))]
           d == [p \in Parts \X Parts |-> cmp(Len(Value(p[1])), Len(Value(p[2])))]
           e == [p \in Parts \X Parts |-> slice_cmp(Value(p[1]), Value(p[2]))]
           f == [p \in Parts \X Parts |-> then_with(d[p], e[p])]
<1>1. class \in [Parts -> Nat] /\ length \in [Parts -> Nat] /\ value \in [Parts -> Texts]
  BY FirstIs
<1>2. Compares(c, Parts)
  <2>1. \A x, y \in Parts : c[<<x, y>>] = bytes[<<class[x], class[y]>>]
    BY FirstIs DEF bytes
  <2>2. Compares(bytes, Nat)
    BY NumbersCompare DEF bytes
  <2> HIDE DEF c, class
  <2>3. QED
    BY <1>1, <2>1, <2>2, KeysCompare
<1>3. Compares(d, Parts)
  <2>1. \A x, y \in Parts : d[<<x, y>>] = bytes[<<length[x], length[y]>>]
    BY FirstIs DEF bytes
  <2>2. Compares(bytes, Nat)
    BY NumbersCompare DEF bytes
  <2> HIDE DEF d, length
  <2>3. QED
    BY <1>1, <2>1, <2>2, KeysCompare
<1>4. Compares(e, Parts)
  <2>1. \A x, y \in Parts : e[<<x, y>>] = slices[<<value[x], value[y]>>]
    BY FirstIs DEF slices
  <2> HIDE DEF e, value
  <2>2. QED
    BY <1>1, <2>1, SlicesCompare, KeysCompare
<1>5. Compares(f, Parts)
  <2>1. \A x, y \in Parts : f[<<x, y>>] = then_with(d[<<x, y>>], e[<<x, y>>])
    OBVIOUS
  <2> HIDE DEF d, e, f
  <2>2. QED
    BY <1>3, <1>4, <2>1, ThenCompares
<1>6. \A x, y \in Parts : values[<<x, y>>] = then_with(c[<<x, y>>], f[<<x, y>>])
  BY ByValueIs DEF values
<1> HIDE DEF c, f
<1>7. QED
  BY <1>2, <1>5, <1>6, ThenCompares

-----------------------------------------------------------------------------
(* Tokens.                                                                 *)

tokens == [p \in Texts \X Texts |-> token_cmp(p[1], p[2])]

\* A token is compared run by run.
LEMMA TokenIs ==
  ASSUME NEW l \in Texts, NEW r \in Texts
  PROVE  token_cmp(l, r) = LexF(values, Pieces(l, Digit), Pieces(r, Digit))
<1>1. PICK s, t : s = Pieces(l, Digit) /\ t = Pieces(r, Digit)
  OBVIOUS
<1>2. s \in Seq(Parts) /\ t \in Seq(Parts)
  BY <1>1, PiecesAre
<1> DEFINE shared == 1..Min({Len(s), Len(t)})
           differ == {k \in shared : by_value(s[k], t[k]) # 0}
<1>3. \A k \in shared : k \in DOMAIN s /\ k \in DOMAIN t
  BY <1>2, Common
<1>4. \A k \in shared : values[<<s[k], t[k]>>] = by_value(s[k], t[k])
  <2> HIDE DEF shared
  <2>1. \A k \in shared : s[k] \in Parts /\ t[k] \in Parts
    BY <1>2, <1>3
  <2>2. QED
    BY <2>1 DEF values
<1>5. differ = {k \in shared : values[<<s[k], t[k]>>] # 0}
  BY <1>4
<1>6. differ # {} => Min(differ) \in shared
  <2>1. \A D \in SUBSET shared : D # {} => Min(D) \in D
    BY <1>2, Common
  <2>2. differ \in SUBSET shared
    OBVIOUS
  <2> HIDE DEF differ, shared
  <2>3. QED
    BY <2>1, <2>2
<1>7. token_cmp(l, r) = IF differ = {} THEN cmp(Len(s), Len(t)) ELSE by_value(s[Min(differ)], t[Min(differ)])
  BY <1>1 DEF token_cmp, lex
<1>8. LexF(values, s, t) = IF differ = {} THEN cmp(Len(s), Len(t)) ELSE values[<<s[Min(differ)], t[Min(differ)]>>]
  BY <1>5 DEF LexF
<1> HIDE DEF differ, shared
<1>9. QED
  BY <1>1, <1>4, <1>6, <1>7, <1>8

\* Tokens compared as digits and other runs are ordered.
LEMMA TokensCompare == Compares(tokens, Texts)
<1> DEFINE S == Seq(Parts)
           key == [s \in Texts |-> Pieces(s, Digit)]
           runs == [p \in S \X S |-> LexF(values, p[1], p[2])]
<1>1. PlacesCompare(values, S)
  <2>1. ASSUME NEW k \in Nat PROVE Compares(values, AtPlace(S, k))
    <3>1. AtPlace(S, k) \subseteq Parts
      BY DEF AtPlace
    <3> HIDE DEF S
    <3>2. QED
      BY <3>1, ValuesCompare DEF Compares
  <2> HIDE DEF S
  <2>2. QED
    BY <2>1 DEF PlacesCompare
<1>2. Compares(runs, S)
  <2>1. \A s, t \in S : runs[<<s, t>>] = LexF(values, s, t)
    OBVIOUS
  <2>2. S \in SUBSET Seq(Parts)
    OBVIOUS
  <2> HIDE DEF runs, S
  <2>3. QED
    BY <1>1, <2>1, <2>2, LexCompares
<1>3. key \in [Texts -> S]
  BY PiecesAre
<1>4. \A s, t \in Texts : tokens[<<s, t>>] = runs[<<key[s], key[t]>>]
  <2>1. ASSUME NEW s \in Texts, NEW t \in Texts PROVE tokens[<<s, t>>] = runs[<<key[s], key[t]>>]
    <3>1. key[s] = Pieces(s, Digit) /\ key[t] = Pieces(t, Digit) /\ key[s] \in S /\ key[t] \in S
      BY <1>3
    <3>2. runs[<<key[s], key[t]>>] = LexF(values, Pieces(s, Digit), Pieces(t, Digit))
      BY <3>1
    <3>3. tokens[<<s, t>>] = token_cmp(s, t)
      BY DEF tokens
    <3>4. QED
      BY <3>2, <3>3, TokenIs
  <2>2. QED
    BY <2>1
<1> HIDE DEF key, runs, S
<1>5. QED
  BY <1>2, <1>3, <1>4, KeysCompare

\* Where two parts begin differently that decides.
LEMMA FirstDecides ==
  ASSUME NEW l \in Parts, NEW r \in Parts
  PROVE  /\ l[1] # r[1] => slice_cmp(l, r) = cmp(l[1], r[1])
         /\ Leading(l) # Leading(r) => token_cmp(l, r) = cmp(Leading(l), Leading(r))
<1>1. l \in Texts /\ r \in Texts /\ l[1] \in Nat /\ r[1] \in Nat /\ Len(l) \in Nat /\ Len(r) \in Nat /\ 1 <= Len(l) /\ 1 <= Len(r)
  BY DEF Parts, Texts
<1>2. ASSUME l[1] # r[1] PROVE slice_cmp(l, r) = cmp(l[1], r[1])
  <2>1. bytes[<<l[1], r[1]>>] = cmp(l[1], r[1]) /\ cmp(l[1], r[1]) # 0
    BY <1>1, <1>2 DEF bytes, cmp
  <2>2. Decides(bytes, l, r, 1)
    BY <1>1, <2>1 DEF Decides, AgreeTo
  <2>3. LexF(bytes, l, r) = cmp(l[1], r[1])
    BY <1>1, <2>1, <2>2, LexIs DEF Decided, Texts
  <2>4. QED
    BY <1>1, <2>3, SliceIs
<1>3. ASSUME Leading(l) # Leading(r) PROVE token_cmp(l, r) = cmp(Leading(l), Leading(r))
  <2>1. PICK s, t : s = Pieces(l, Digit) /\ t = Pieces(r, Digit)
    OBVIOUS
  <2>2. s \in Seq(Parts) /\ t \in Seq(Parts) /\ s # <<>> /\ t # <<>> /\ s[1][1] = l[1] /\ t[1][1] = r[1]
    BY <1>1, <2>1, PiecesAre DEF Parts
  <2>3. Len(s) \in Nat /\ Len(t) \in Nat /\ 1 <= Len(s) /\ 1 <= Len(t) /\ s[1] \in Parts /\ t[1] \in Parts
    BY <2>2
  <2>4. Leading(s[1]) = Leading(l) /\ Leading(t[1]) = Leading(r)
    BY <2>2 DEF Leading
  <2>5. cmp(Leading(l), Leading(r)) # 0
    BY <1>3, FirstIs DEF cmp
  <2>6. values[<<s[1], t[1]>>] = cmp(Leading(l), Leading(r))
    <3>1. values[<<s[1], t[1]>>] = by_value(s[1], t[1])
      BY <2>3 DEF values
    <3>2. QED
      BY <2>3, <2>4, <2>5, <3>1, ByValueIs DEF then_with
  <2>7. Decides(values, s, t, 1)
    BY <2>3, <2>5, <2>6 DEF Decides, AgreeTo
  <2>8. LexF(values, s, t) = cmp(Leading(l), Leading(r))
    BY <2>2, <2>3, <2>6, <2>7, LexIs DEF Decided
  <2>9. QED
    BY <1>1, <2>1, <2>8, TokenIs
<1>4. QED
  BY <1>2, <1>3

-----------------------------------------------------------------------------
(* Names.                                                                  *)

\* Of the tokens among some parts either all are identifiers or none is.
Alike(K) ==
  \/ \A x \in K : x[1] \in Alphanumeric => is_hex_identifier(x)
  \/ \A x \in K : x[1] \in Alphanumeric => ~is_hex_identifier(x)

orders == [p \in Parts \X Parts |-> TokenOrder(p[1], p[2])]

\* What is compared of a token beyond its beginning, and of a separator.
Body(x) == IF x[1] \in Alphanumeric THEN x ELSE <<>>

\* Nothing compares as equal to nothing, in either way.
LEMMA NothingCompares ==
  slice_cmp(<<>>, <<>>) = 0 /\ token_cmp(<<>>, <<>>) = 0
<1>1. <<>> \in Texts
  BY DEF Texts
<1>2. slice_cmp(<<>>, <<>>) \in {-1, 0, 1} /\ slice_cmp(<<>>, <<>>) = -slice_cmp(<<>>, <<>>)
  BY <1>1, SlicesCompare DEF Compares, slices
<1>3. token_cmp(<<>>, <<>>) \in {-1, 0, 1} /\ token_cmp(<<>>, <<>>) = -token_cmp(<<>>, <<>>)
  BY <1>1, TokensCompare DEF Compares, tokens
<1>4. QED
  BY <1>2, <1>3

\* Bytes that are not both of tokens.
LEMMA SeparatorIs ==
  ASSUME NEW x \in Parts, NEW y \in Parts, ~({x[1], y[1]} \subseteq Alphanumeric)
  PROVE  /\ TokenOrder(x, y) = cmp(x[1], y[1])
         /\ cmp(x[1], y[1]) = cmp(Leading(x), Leading(y))
         /\ cmp(x[1], y[1]) = 0 => Body(x) = <<>> /\ Body(y) = <<>>
<1>1. x[1] \in Nat /\ y[1] \in Nat
  BY FirstIs
<1>2. TokenOrder(x, y) = cmp(x[1], y[1])
  BY DEF TokenOrder
<1>3. x[1] \notin Alphanumeric \/ y[1] \notin Alphanumeric
  OBVIOUS
<1>4. x[1] \notin Digit \/ y[1] \notin Digit
  BY <1>3 DEF Alphanumeric
<1>5. cmp(x[1], y[1]) = cmp(Leading(x), Leading(y))
  BY <1>1, <1>4 DEF Leading, cmp, Digit
<1>6. ASSUME cmp(x[1], y[1]) = 0 PROVE Body(x) = <<>> /\ Body(y) = <<>>
  <2>1. x[1] = y[1]
    BY <1>1, <1>6 DEF cmp
  <2>2. QED
    BY <1>3, <2>1 DEF Body
<1>7. QED
  BY <1>2, <1>5, <1>6

\* Identifiers among themselves, and other tokens among themselves.
LEMMA TokenOrderIs ==
  ASSUME NEW x \in Parts, NEW y \in Parts
  PROVE  /\ (/\ x[1] \in Alphanumeric => is_hex_identifier(x)
             /\ y[1] \in Alphanumeric => is_hex_identifier(y))
            => TokenOrder(x, y) = then_with(cmp(x[1], y[1]), slice_cmp(Body(x), Body(y)))
         /\ (/\ x[1] \in Alphanumeric => ~is_hex_identifier(x)
             /\ y[1] \in Alphanumeric => ~is_hex_identifier(y))
            => TokenOrder(x, y) = then_with(cmp(Leading(x), Leading(y)), token_cmp(Body(x), Body(y)))
<1>1. x[1] \in Nat /\ y[1] \in Nat /\ Leading(x) \in Nat /\ Leading(y) \in Nat
  BY FirstIs
<1>2. CASE ~({x[1], y[1]} \subseteq Alphanumeric)
  <2>1. PICK c : c = cmp(x[1], y[1])
    OBVIOUS
  <2>2. TokenOrder(x, y) = c /\ c = cmp(Leading(x), Leading(y)) /\ (c = 0 => Body(x) = <<>> /\ Body(y) = <<>>)
    BY <1>2, <2>1, SeparatorIs
  <2>3. CASE c = 0
    BY <2>1, <2>2, <2>3, NothingCompares DEF then_with
  <2>4. CASE c # 0
    BY <2>1, <2>2, <2>4 DEF then_with
  <2>5. QED
    BY <2>3, <2>4
<1>3. CASE {x[1], y[1]} \subseteq Alphanumeric
  <2>1. x[1] \in Alphanumeric /\ y[1] \in Alphanumeric /\ Body(x) = x /\ Body(y) = y
    BY <1>3 DEF Body
  <2>2. ASSUME is_hex_identifier(x), is_hex_identifier(y)
        PROVE  TokenOrder(x, y) = then_with(cmp(x[1], y[1]), slice_cmp(x, y))
    <3>1. TokenOrder(x, y) = slice_cmp(x, y)
      BY <1>3, <2>2 DEF TokenOrder
    <3>2. CASE x[1] = y[1]
      BY <1>1, <3>1, <3>2 DEF then_with, cmp
    <3>3. CASE x[1] # y[1]
      <4>1. slice_cmp(x, y) = cmp(x[1], y[1])
        BY <3>3, FirstDecides
      <4>2. cmp(x[1], y[1]) # 0
        BY <1>1, <3>3 DEF cmp
      <4>3. QED
        BY <3>1, <4>1, <4>2 DEF then_with
    <3>4. QED
      BY <3>2, <3>3
  <2>3. ASSUME ~is_hex_identifier(x)
        PROVE  TokenOrder(x, y) = then_with(cmp(Leading(x), Leading(y)), token_cmp(x, y))
    <3>1. TokenOrder(x, y) = token_cmp(x, y)
      BY <1>3, <2>3 DEF TokenOrder
    <3>2. CASE Leading(x) = Leading(y)
      BY <1>1, <3>1, <3>2 DEF then_with, cmp
    <3>3. CASE Leading(x) # Leading(y)
      <4>1. token_cmp(x, y) = cmp(Leading(x), Leading(y))
        BY <3>3, FirstDecides
      <4>2. cmp(Leading(x), Leading(y)) # 0
        BY <1>1, <3>3 DEF cmp
      <4>3. QED
        BY <3>1, <4>1, <4>2 DEF then_with
    <3>4. QED
      BY <3>2, <3>3
  <2>4. QED
    BY <2>1, <2>2, <2>3
<1>4. QED
  BY <1>2, <1>3

\* Parts that are alike are ordered.
LEMMA OrdersCompare ==
  ASSUME NEW K \in SUBSET Parts, Alike(K)
  PROVE  Compares(orders, K)
<1> DEFINE first == [x \in K |-> x[1]]
           leading == [x \in K |-> Leading(x)]
           body == [x \in K |-> Body(x)]
           a == [p \in K \X K |-> cmp(p[1][1], p[2][1])]
           b == [p \in K \X K |-> slice_cmp(Body(p[1]), Body(p[2]))]
           c == [p \in K \X K |-> cmp(Leading(p[1]), Leading(p[2]))]
           d == [p \in K \X K |-> token_cmp(Body(p[1]), Body(p[2]))]
<1>1. first \in [K -> Nat] /\ leading \in [K -> Nat]
  BY FirstIs
<1>2. \A x \in K : Body(x) \in Texts
  BY DEF Body, Parts, Texts
<1>3. body \in [K -> Texts]
  BY <1>2
<1>4. Compares(bytes, Nat)
  BY NumbersCompare DEF bytes
<1>5. \A x, y \in K : orders[<<x, y>>] = TokenOrder(x, y)
  BY DEF orders
<1>6. CASE \A x \in K : x[1] \in Alphanumeric => is_hex_identifier(x)
  <2>1. Compares(a, K)
    <3>1. \A x, y \in K : a[<<x, y>>] = bytes[<<first[x], first[y]>>]
      BY FirstIs DEF bytes
    <3> HIDE DEF a, first
    <3>2. QED
      BY <1>1, <1>4, <3>1, KeysCompare
  <2>2. Compares(b, K)
    <3>1. \A x, y \in K : b[<<x, y>>] = slices[<<body[x], body[y]>>]
      BY <1>2 DEF slices
    <3> HIDE DEF b, body
    <3>2. QED
      BY <1>3, <3>1, SlicesCompare, KeysCompare
  <2>3. \A x, y \in K : orders[<<x, y>>] = then_with(a[<<x, y>>], b[<<x, y>>])
    BY <1>5, <1>6, TokenOrderIs
  <2> HIDE DEF a, b
  <2>4. QED
    BY <2>1, <2>2, <2>3, ThenCompares
<1>7. CASE \A x \in K : x[1] \in Alphanumeric => ~is_hex_identifier(x)
  <2>1. Compares(c, K)
    <3>1. \A x, y \in K : c[<<x, y>>] = bytes[<<leading[x], leading[y]>>]
      BY FirstIs DEF bytes
    <3> HIDE DEF c, leading
    <3>2. QED
      BY <1>1, <1>4, <3>1, KeysCompare
  <2>2. Compares(d, K)
    <3>1. \A x, y \in K : d[<<x, y>>] = tokens[<<body[x], body[y]>>]
      BY <1>2 DEF tokens
    <3> HIDE DEF d, body
    <3>2. QED
      BY <1>3, <3>1, TokensCompare, KeysCompare
  <2>3. \A x, y \in K : orders[<<x, y>>] = then_with(c[<<x, y>>], d[<<x, y>>])
    BY <1>5, <1>7, TokenOrderIs
  <2> HIDE DEF c, d
  <2>4. QED
    BY <2>1, <2>2, <2>3, ThenCompares
<1>8. QED
  BY <1>6, <1>7 DEF Alike

\* Names are compared token by token.
LEMMA ByTokensIs ==
  ASSUME NEW l \in Texts, NEW r \in Texts
  PROVE  ByTokens(l, r) = LexF(orders, Pieces(l, Alphanumeric), Pieces(r, Alphanumeric))
<1>1. PICK s, t : s = Pieces(l, Alphanumeric) /\ t = Pieces(r, Alphanumeric)
  OBVIOUS
<1>2. s \in Seq(Parts) /\ t \in Seq(Parts)
  BY <1>1, PiecesAre
<1> DEFINE shared == 1..Min({Len(s), Len(t)})
           differ == {k \in shared : TokenOrder(s[k], t[k]) # 0}
<1>3. \A k \in shared : k \in DOMAIN s /\ k \in DOMAIN t
  BY <1>2, Common
<1>4. \A k \in shared : orders[<<s[k], t[k]>>] = TokenOrder(s[k], t[k])
  <2> HIDE DEF shared
  <2>1. \A k \in shared : s[k] \in Parts /\ t[k] \in Parts
    BY <1>2, <1>3
  <2>2. QED
    BY <2>1 DEF orders
<1>5. differ = {k \in shared : orders[<<s[k], t[k]>>] # 0}
  BY <1>4
<1>6. differ # {} => Min(differ) \in shared
  <2>1. \A D \in SUBSET shared : D # {} => Min(D) \in D
    BY <1>2, Common
  <2>2. differ \in SUBSET shared
    OBVIOUS
  <2> HIDE DEF differ, shared
  <2>3. QED
    BY <2>1, <2>2
<1>7. ByTokens(l, r) = IF differ = {} THEN cmp(Len(s), Len(t)) ELSE TokenOrder(s[Min(differ)], t[Min(differ)])
  BY <1>1 DEF ByTokens, lex
<1>8. LexF(orders, s, t) = IF differ = {} THEN cmp(Len(s), Len(t)) ELSE orders[<<s[Min(differ)], t[Min(differ)]>>]
  BY <1>5 DEF LexF
<1> HIDE DEF differ, shared
<1>9. QED
  BY <1>1, <1>4, <1>6, <1>7, <1>8

\* At no place do some of the names have an identifier and others another token.
Uniform(N) ==
  \A k \in Nat : Alike(AtPlace({Pieces(n, Alphanumeric) : n \in N}, k))

names == [p \in Texts \X Texts |-> iface_cmp(p[1], p[2])]

\* Such names are totally ordered.
LEMMA NamesCompare ==
  ASSUME NEW N \in SUBSET Texts, Uniform(N)
  PROVE  Compares(names, N) /\ Separates(names, N)
<1> DEFINE S == {Pieces(n, Alphanumeric) : n \in N}
           key == [n \in N |-> Pieces(n, Alphanumeric)]
           parts == [p \in S \X S |-> LexF(orders, p[1], p[2])]
           byTokens == [p \in N \X N |-> ByTokens(p[1], p[2])]
<1>1. S \in SUBSET Seq(Parts)
  BY PiecesAre
<1>2. PlacesCompare(orders, S)
  <2>1. ASSUME NEW k \in Nat PROVE Compares(orders, AtPlace(S, k))
    <3>1. Alike(AtPlace(S, k))
      BY DEF Uniform
    <3> HIDE DEF S
    <3>2. AtPlace(S, k) \in SUBSET Parts
      BY <1>1 DEF AtPlace
    <3>3. QED
      BY <3>1, <3>2, OrdersCompare
  <2> HIDE DEF S
  <2>2. QED
    BY <2>1 DEF PlacesCompare
<1>3. Compares(parts, S)
  <2>1. \A s, t \in S : parts[<<s, t>>] = LexF(orders, s, t)
    OBVIOUS
  <2> HIDE DEF parts, S
  <2>2. QED
    BY <1>1, <1>2, <2>1, LexCompares
<1>4. key \in [N -> S]
  OBVIOUS
<1>5. Compares(byTokens, N)
  <2>1. ASSUME NEW x \in N, NEW y \in N PROVE byTokens[<<x, y>>] = parts[<<key[x], key[y]>>]
    <3>1. key[x] = Pieces(x, Alphanumeric) /\ key[y] = Pieces(y, Alphanumeric) /\ key[x] \in S /\ key[y] \in S
      OBVIOUS
    <3>2. parts[<<key[x], key[y]>>] = LexF(orders, Pieces(x, Alphanumeric), Pieces(y, Alphanumeric))
      BY <3>1
    <3>3. byTokens[<<x, y>>] = ByTokens(x, y)
      OBVIOUS
    <3>4. QED
      BY <3>2, <3>3, ByTokensIs
  <2> HIDE DEF key, parts, S, byTokens
  <2>2. QED
    BY <1>3, <1>4, <2>1, KeysCompare
<1>6. Compares(slices, N) /\ Separates(slices, N)
  BY SlicesCompare DEF Compares, Separates
<1>7. \A x, y \in N : names[<<x, y>>] = then_with(byTokens[<<x, y>>], slices[<<x, y>>])
  BY DEF names, slices, iface_cmp
<1> HIDE DEF byTokens
<1>8. QED
  BY <1>5, <1>6, <1>7, ThenCompares

-----------------------------------------------------------------------------
(* The sort.                                                               *)

\* p is s with x put after its first k elements.
IsInserted(p, s, x, k) ==
  /\ Len(p) = Len(s) + 1
  /\ \A i \in 1..k : p[i] = s[i]
  /\ p[k + 1] = x
  /\ \A i \in k + 1..Len(s) : p[i + 1] = s[i]

\* InsertAt does what IsInserted says.
LEMMA InsertAtIs ==
  ASSUME NEW R, NEW s \in Seq(R), NEW x \in R, NEW k \in 0..Len(s)
  PROVE  InsertAt(s, k + 1, x) \in Seq(R) /\ IsInserted(InsertAt(s, k + 1, x), s, x, k)
<1>1. Len(s) \in Nat /\ k \in Nat /\ k <= Len(s)
  OBVIOUS
<1>2. PICK a : a = SubSeq(s, 1, k)
  OBVIOUS
<1>3. PICK b : b = SubSeq(s, k + 1, Len(s))
  OBVIOUS
<1>4. a \in Seq(R) /\ Len(a) = k /\ \A i \in 1..k : a[i] = s[i]
  BY <1>1, <1>2
<1>5. b \in Seq(R) /\ Len(b) = Len(s) - k
  BY <1>1, <1>3
<1>6. \A i \in 1..Len(s) - k : b[i] = s[k + i]
  BY <1>1, <1>3
<1>7. PICK c : c = a \o <<x>>
  OBVIOUS
<1>8. c \in Seq(R) /\ Len(c) = k + 1 /\ c[k + 1] = x /\ \A i \in 1..k : c[i] = s[i]
  BY <1>1, <1>4, <1>7
<1>9. PICK p : p = c \o b
  OBVIOUS
<1>10. p \in Seq(R) /\ Len(p) = Len(s) + 1
  <2>1. p \in Seq(R) /\ Len(p) = Len(c) + Len(b)
    <3>1. c \in Seq(R) /\ b \in Seq(R)
      BY <1>5, <1>8
    <3>2. c \o b \in Seq(R) /\ Len(c \o b) = Len(c) + Len(b)
      BY <3>1, ConcatIs, Zenon
    <3>3. QED
      BY <1>9, <3>2
  <2>2. QED
    BY <1>1, <1>5, <1>8, <2>1
<1>11. p[k + 1] = x /\ \A i \in 1..k : p[i] = s[i]
  BY <1>1, <1>5, <1>8, <1>9
<1>12. ASSUME NEW i \in k + 1..Len(s) PROVE p[i + 1] = s[i]
  <2>1. i - k \in 1..Len(s) - k /\ i + 1 = Len(c) + (i - k) /\ k + (i - k) = i
    BY <1>1, <1>8
  <2>2. b[i - k] = s[i]
    BY <1>6, <2>1
  <2>3. p[Len(c) + (i - k)] = b[i - k]
    BY <1>5, <1>8, <1>9, <2>1
  <2>4. QED
    BY <2>1, <2>2, <2>3
<1>13. p = InsertAt(s, k + 1, x)
  <2>1. (k + 1) - 1 = k
    BY <1>1
  <2>2. QED
    BY <1>2, <1>3, <1>7, <1>9, <2>1 DEF InsertAt
<1>14. QED
  BY <1>10, <1>11, <1>12, <1>13 DEF IsInserted

\* Insert puts x before all that follow it and after one that does not.
Goes(x, s, k) ==
  /\ k \in 0..Len(s)
  /\ k > 0 => iface_cmp(x.name, s[k].name) # -1
  /\ \A i \in k + 1..Len(s) : iface_cmp(x.name, s[i].name) = -1

\* Insert finds such a place, and puts x there.
LEMMA InsertIs ==
  ASSUME NEW R, NEW s \in Seq(R), NEW x \in R
  PROVE  Insert(s, x) \in Seq(R) /\ \E k : Goes(x, s, k) /\ IsInserted(Insert(s, x), s, x, k)
<1> DEFINE B == {i \in DOMAIN s : iface_cmp(x.name, s[i].name) # -1}
           T == {0} \cup B
<1>1. Len(s) \in Nat /\ DOMAIN s = 1..Len(s)
  OBVIOUS
<1>2. T \in SUBSET Nat /\ T # {} /\ \A n \in T : n <= Len(s)
  BY <1>1
<1>3. PICK k : k = Max(T)
  OBVIOUS
<1>4. k \in T /\ \A n \in T : n <= k
  <2> HIDE DEF T
  <2>1. QED
    BY <1>1, <1>2, <1>3, MaxIs
<1>5. k \in 0..Len(s)
  BY <1>1, <1>2, <1>4
<1>6. k > 0 => iface_cmp(x.name, s[k].name) # -1
  BY <1>4
<1>7. ASSUME NEW i \in k + 1..Len(s) PROVE iface_cmp(x.name, s[i].name) = -1
  <2>1. i \in DOMAIN s /\ ~(i <= k)
    BY <1>1, <1>5
  <2>2. i \notin T
    BY <1>4, <2>1
  <2>3. QED
    BY <2>1, <2>2
<1>8. Insert(s, x) = InsertAt(s, k + 1, x)
  BY <1>3 DEF Insert
<1> HIDE DEF T
<1>9. QED
  BY <1>5, <1>6, <1>7, <1>8, InsertAtIs DEF Goes

\* All that is in a sequence.
Elements(s) == {s[i] : i \in 1..Len(s)}

\* Inserting adds an element and loses none.
LEMMA InsertedElements ==
  ASSUME NEW R, NEW s \in Seq(R), NEW x, NEW p, NEW k \in 0..Len(s), IsInserted(p, s, x, k)
  PROVE  Elements(p) = Elements(s) \cup {x}
<1>1. Len(s) \in Nat /\ k \in Nat /\ k <= Len(s) /\ Len(p) = Len(s) + 1
  BY DEF IsInserted
<1>2. ASSUME NEW i \in 1..Len(p) PROVE p[i] \in Elements(s) \cup {x}
  <2>1. CASE i \in 1..k
    <3>1. p[i] = s[i] /\ i \in 1..Len(s)
      BY <1>1, <2>1 DEF IsInserted
    <3>2. QED
      BY <3>1 DEF Elements
  <2>2. CASE i = k + 1
    BY <2>2 DEF IsInserted
  <2>3. CASE i > k + 1
    <3>1. i - 1 \in k + 1..Len(s) /\ (i - 1) + 1 = i /\ i - 1 \in 1..Len(s)
      BY <1>1, <2>3
    <3>2. p[i] = s[i - 1]
      BY <3>1 DEF IsInserted
    <3>3. QED
      BY <3>1, <3>2 DEF Elements
  <2>4. QED
    BY <1>1, <2>1, <2>2, <2>3
<1>3. ASSUME NEW i \in 1..Len(s) PROVE s[i] \in Elements(p)
  <2>1. CASE i \in 1..k
    <3>1. p[i] = s[i] /\ i \in 1..Len(p)
      BY <1>1, <2>1 DEF IsInserted
    <3>2. QED
      BY <3>1 DEF Elements
  <2>2. CASE i \in k + 1..Len(s)
    <3>1. p[i + 1] = s[i] /\ i + 1 \in 1..Len(p)
      BY <1>1, <2>2 DEF IsInserted
    <3>2. QED
      BY <3>1 DEF Elements
  <2>3. QED
    BY <1>1, <2>1, <2>2
<1>4. x \in Elements(p)
  <2>1. p[k + 1] = x /\ k + 1 \in 1..Len(p)
    BY <1>1 DEF IsInserted
  <2>2. QED
    BY <2>1 DEF Elements
<1>5. Elements(p) \subseteq Elements(s) \cup {x}
  BY <1>2 DEF Elements
<1>6. Elements(s) \subseteq Elements(p)
  BY <1>3 DEF Elements
<1>7. QED
  BY <1>4, <1>5, <1>6

\* Each is listed before those it is less than.
Ascending(s) == \A i, j \in 1..Len(s) : i < j => iface_cmp(s[i].name, s[j].name) = -1

\* An interface put where it goes into an ascending list, where its name is new
\* and names are ordered.
LEMMA AscendingStays ==
  ASSUME NEW R, NEW s \in Seq(R), NEW x \in R, NEW p, NEW k, Goes(x, s, k), IsInserted(p, s, x, k),
         NEW N, \A y \in R : y.name \in N, Compares(names, N), Separates(names, N), N \subseteq Texts,
         Ascending(s), \A i \in 1..Len(s) : s[i].name # x.name
  PROVE  Ascending(p)
<1>1. Len(s) \in Nat /\ k \in Nat /\ k <= Len(s) /\ Len(p) = Len(s) + 1
  BY DEF IsInserted, Goes
<1>2. \A m, n \in N : names[<<m, n>>] = iface_cmp(m, n)
  BY DEF names
<1>3. \A i \in 1..Len(s) : s[i].name \in N
  OBVIOUS
<1>4. \A i \in k + 1..Len(s) : iface_cmp(x.name, s[i].name) = -1
  BY DEF Goes
<1>5. ASSUME NEW i \in 1..k PROVE iface_cmp(s[i].name, x.name) = -1
  <2>1. k \in 1..Len(s) /\ i \in 1..Len(s) /\ i <= k
    BY <1>1
  <2>2. PICK a, b, c : a = s[i].name /\ b = s[k].name /\ c = x.name
    OBVIOUS
  <2>3. a \in N /\ b \in N /\ c \in N /\ b # c
    BY <1>3, <2>1, <2>2
  <2>4. names[<<c, b>>] # -1
    BY <1>2, <2>1, <2>2, <2>3 DEF Goes
  <2>5. names[<<b, c>>] = -1
    <3>1. names[<<b, c>>] \in {-1, 0, 1} /\ names[<<c, b>>] = -names[<<b, c>>] /\ names[<<b, c>>] # 0
      BY <2>3 DEF Compares, Separates
    <3>2. QED
      BY <2>4, <3>1
  <2>6. CASE i = k
    BY <1>2, <2>2, <2>3, <2>5, <2>6
  <2>7. CASE i < k
    <3>1. names[<<a, b>>] = -1
      BY <1>2, <2>1, <2>2, <2>3, <2>7 DEF Ascending
    <3>2. names[<<a, c>>] = -1
      BY <2>3, <2>5, <3>1, Interchange
    <3>3. QED
      BY <1>2, <2>2, <2>3, <3>2
  <2>8. QED
    BY <2>1, <2>6, <2>7
<1>6. ASSUME NEW i \in 1..Len(p), NEW j \in 1..Len(p), i < j
      PROVE  iface_cmp(p[i].name, p[j].name) = -1
  <2>1. CASE j <= k
    <3>1. i \in 1..k /\ j \in 1..k /\ i \in 1..Len(s) /\ j \in 1..Len(s)
      BY <1>1, <1>6, <2>1
    <3>2. p[i] = s[i] /\ p[j] = s[j]
      BY <3>1 DEF IsInserted
    <3>3. QED
      BY <1>6, <3>1, <3>2 DEF Ascending
  <2>2. CASE j = k + 1
    <3>1. i \in 1..k
      BY <1>1, <1>6, <2>2
    <3>2. p[i] = s[i] /\ p[j] = x
      BY <2>2, <3>1 DEF IsInserted
    <3>3. QED
      BY <1>5, <3>1, <3>2
  <2>3. CASE j > k + 1
    <3>1. j - 1 \in k + 1..Len(s) /\ (j - 1) + 1 = j /\ j - 1 \in 1..Len(s)
      BY <1>1, <2>3
    <3>2. p[j] = s[j - 1]
      BY <3>1 DEF IsInserted
    <3>3. CASE i <= k
      <4>1. i \in 1..k /\ i \in 1..Len(s) /\ i < j - 1
        BY <1>1, <2>3, <3>3
      <4>2. p[i] = s[i]
        BY <4>1 DEF IsInserted
      <4>3. QED
        BY <3>1, <3>2, <4>1, <4>2 DEF Ascending
    <3>4. CASE i = k + 1
      <4>1. p[i] = x
        BY <3>4 DEF IsInserted
      <4>2. QED
        BY <1>4, <3>1, <3>2, <4>1
    <3>5. CASE i > k + 1
      <4>1. i - 1 \in k + 1..Len(s) /\ (i - 1) + 1 = i /\ i - 1 \in 1..Len(s) /\ i - 1 < j - 1
        BY <1>1, <1>6, <3>5
      <4>2. p[i] = s[i - 1]
        BY <4>1 DEF IsInserted
      <4>3. QED
        BY <3>1, <3>2, <4>1, <4>2 DEF Ascending
    <3>6. QED
      BY <1>1, <3>3, <3>4, <3>5
  <2>4. QED
    BY <1>1, <2>1, <2>2, <2>3
<1>7. QED
  BY <1>6 DEF Ascending

\* How the sort goes: one interface after the other is inserted.
SortRun(R, ifs, f) ==
  /\ f \in [0..Len(ifs) -> Seq(R)] /\ f[0] = <<>>
  /\ \A k \in 1..Len(ifs) : f[k] = Insert(f[k - 1], ifs[k])

\* The sort has such a course, and ends where that does.
LEMMA SortRuns ==
  ASSUME NEW R, NEW ifs \in Seq(R)
  PROVE  \E f : SortRun(R, ifs, f) /\ sort_by(ifs) = f[Len(ifs)]
<1> DEFINE n == Len(ifs)
           step == [k \in 0..n |-> [s \in Seq(R) |-> IF k = 0 THEN <<>> ELSE Insert(s, ifs[k])]]
           Upto(f) == f = [k \in 0..n |-> IF k = 0 THEN <<>> ELSE Insert(f[k - 1], ifs[k])]
           u == CHOOSE f : Upto(f)
<1>1. n \in Nat /\ <<>> \in Seq(R) /\ \A k \in 1..n : ifs[k] \in R
  OBVIOUS
<1>2. CanRun(Seq(R), 0, n, <<>>, step)
  <2>1. ASSUME NEW k \in 0..n, NEW s \in Seq(R)
        PROVE  (IF k = 0 THEN <<>> ELSE Insert(s, ifs[k])) \in Seq(R)
    <3>1. CASE k # 0
      <4>1. ifs[k] \in R
        BY <1>1, <3>1
      <4>2. QED
        BY <3>1, <4>1, InsertIs
    <3>2. QED
      BY <1>1, <3>1
  <2>2. step \in [0..n -> [Seq(R) -> Seq(R)]]
    BY <2>1
  <2> HIDE DEF step, n
  <2>3. QED
    BY <1>1, <2>2 DEF CanRun
<1>3. \A k \in 1..n : k \in 0..n /\ k # 0 /\ k - 1 \in 0..n
  BY <1>1
<1>4. \A k \in 1..n, s \in Seq(R) : step[k][s] = Insert(s, ifs[k])
  BY <1>3
<1> HIDE DEF n, step
<1>5. \E g : Upto(g)
  <2>1. PICK g : Runs(Seq(R), 0, n, <<>>, step, g)
    BY <1>2, Recursion
  <2>2. g \in [0..n -> Seq(R)] /\ g[0] = <<>> /\ \A k \in 1..n : g[k] = step[k][g[k - 1]]
    BY <2>1 DEF Runs
  <2>3. \A k \in 1..n : g[k] = Insert(g[k - 1], ifs[k])
    BY <1>3, <1>4, <2>2
  <2>4. \A k \in 0..n : k = 0 \/ k \in 1..n
    BY <1>1
  <2>5. Upto(g)
    BY <2>2, <2>3, <2>4
  <2>6. QED
    BY <2>5
<1>6. Upto(u)
  <2> HIDE DEF Upto
  <2>1. QED
    BY <1>5
<1>7. sort_by(ifs) = u[n]
  BY DEF sort_by, n
<1> HIDE DEF u
<1>8. 0 \in 0..n
  BY <1>1
<1>9. u = [k \in 0..n |-> u[k]] /\ u[0] = <<>> /\ \A k \in 1..n : u[k] = Insert(u[k - 1], ifs[k])
  BY <1>3, <1>6, <1>8
<1>10. \A k \in 0 + 1..n : u[k - 1] \in Seq(R) => u[k] = step[k][u[k - 1]]
  <2>1. \A k \in 0 + 1..n : k \in 1..n
    BY <1>1
  <2>2. QED
    BY <1>4, <1>9, <2>1
<1>11. Runs(Seq(R), 0, n, <<>>, step, u)
  BY <1>2, <1>9, <1>10, RunsToo
<1>12. SortRun(R, ifs, u)
  <2>1. u \in [0..n -> Seq(R)]
    BY <1>11 DEF Runs
  <2>2. QED
    BY <1>9, <2>1 DEF SortRun, n
<1>13. QED
  BY <1>7, <1>12 DEF n

\* No two have the same name.
Distinct(s) == \A i, j \in 1..Len(s) : i # j => s[i].name # s[j].name

\* A sort keeps what it sorts.
LEMMA SortKeeps ==
  ASSUME NEW R, NEW ifs \in Seq(R)
  PROVE  /\ sort_by(ifs) \in Seq(R) /\ Len(sort_by(ifs)) = Len(ifs)
         /\ Elements(sort_by(ifs)) = Elements(ifs)
<1>1. PICK f : SortRun(R, ifs, f) /\ sort_by(ifs) = f[Len(ifs)]
  BY SortRuns
<1>2. Len(ifs) \in Nat /\ \A k \in 1..Len(ifs) : ifs[k] \in R
  OBVIOUS
<1>3. \A k \in 0..Len(ifs) : f[k] \in Seq(R)
  BY <1>1 DEF SortRun
<1> DEFINE Some(k) == {ifs[i] : i \in 1..k}
           G == {k \in 0..Len(ifs) : Len(f[k]) = k /\ Elements(f[k]) = Some(k)}
<1>4. 0 \in G
  <2>1. f[0] = <<>> /\ 0 \in 0..Len(ifs) /\ Len(<<>>) = 0
    BY <1>1, <1>2 DEF SortRun
  <2>2. Elements(<<>>) = {} /\ Some(0) = {}
    BY <2>1 DEF Elements
  <2>3. QED
    BY <2>1, <2>2
<1>5. ASSUME NEW k \in 1..Len(ifs), k - 1 \in G PROVE k \in G
  <2>1. k \in 0..Len(ifs) /\ k - 1 \in 0..Len(ifs) /\ (k - 1) + 1 = k
    BY <1>2
  <2>2. Len(f[k - 1]) = k - 1 /\ Elements(f[k - 1]) = Some(k - 1)
    BY <1>5
  <2>3. f[k - 1] \in Seq(R) /\ ifs[k] \in R /\ f[k] = Insert(f[k - 1], ifs[k])
    BY <1>1, <1>2, <1>3, <2>1 DEF SortRun
  <2>4. PICK j : Goes(ifs[k], f[k - 1], j) /\ IsInserted(f[k], f[k - 1], ifs[k], j)
    BY <2>3, InsertIs
  <2>5. j \in 0..Len(f[k - 1])
    BY <2>4 DEF Goes
  <2>6. Elements(f[k]) = Elements(f[k - 1]) \cup {ifs[k]}
    BY <2>3, <2>4, <2>5, InsertedElements
  <2>7. Len(f[k]) = k
    BY <2>1, <2>2, <2>4 DEF IsInserted
  <2>8. Some(k) = Some(k - 1) \cup {ifs[k]}
    <3>1. \A i \in 1..k : i \in 1..k - 1 \/ i = k
      OBVIOUS
    <3>2. \A i \in 1..k - 1 : i \in 1..k
      OBVIOUS
    <3>3. k \in 1..k
      OBVIOUS
    <3>4. QED
      BY <3>1, <3>2, <3>3
  <2> HIDE DEF Some
  <2>9. QED
    BY <2>1, <2>2, <2>6, <2>7, <2>8
<1>6. Len(ifs) \in G
  <2> HIDE DEF G
  <2>1. \A k \in 0..Len(ifs) : k \in G
    BY <1>2, <1>4, <1>5, Climb
  <2>2. QED
    BY <1>2, <2>1
<1>7. Len(ifs) \in 0..Len(ifs)
  BY <1>2
<1>8. QED
  BY <1>1, <1>3, <1>6, <1>7 DEF Elements

\* Interfaces of which no two have the same name come out ascending.
LEMMA SortAscends ==
  ASSUME NEW R, NEW ifs \in Seq(R), Distinct(ifs),
         NEW N \in SUBSET Texts, Uniform(N), \A y \in R : y.name \in N
  PROVE  Ascending(sort_by(ifs))
<1>1. PICK f : SortRun(R, ifs, f) /\ sort_by(ifs) = f[Len(ifs)]
  BY SortRuns
<1>2. Len(ifs) \in Nat /\ \A k \in 1..Len(ifs) : ifs[k] \in R
  OBVIOUS
<1>3. \A k \in 0..Len(ifs) : f[k] \in Seq(R)
  BY <1>1 DEF SortRun
<1>4. Compares(names, N) /\ Separates(names, N)
  BY NamesCompare
<1> DEFINE Some(k) == {ifs[i] : i \in 1..k}
           G == {k \in 0..Len(ifs) : Ascending(f[k]) /\ Elements(f[k]) = Some(k)}
<1>5. 0 \in G
  <2>1. f[0] = <<>> /\ 0 \in 0..Len(ifs) /\ Len(<<>>) = 0
    BY <1>1, <1>2 DEF SortRun
  <2>2. Elements(<<>>) = {} /\ Some(0) = {} /\ Ascending(<<>>)
    BY <2>1 DEF Elements, Ascending
  <2>3. QED
    BY <2>1, <2>2
<1>6. ASSUME NEW k \in 1..Len(ifs), k - 1 \in G PROVE k \in G
  <2>1. k \in 0..Len(ifs) /\ k - 1 \in 0..Len(ifs) /\ (k - 1) + 1 = k
    BY <1>2
  <2>2. Ascending(f[k - 1]) /\ Elements(f[k - 1]) = Some(k - 1)
    BY <1>6
  <2>3. f[k - 1] \in Seq(R) /\ ifs[k] \in R /\ f[k] = Insert(f[k - 1], ifs[k])
    BY <1>1, <1>2, <1>3, <2>1 DEF SortRun
  <2>4. PICK j : Goes(ifs[k], f[k - 1], j) /\ IsInserted(f[k], f[k - 1], ifs[k], j)
    BY <2>3, InsertIs
  <2>5. j \in 0..Len(f[k - 1])
    BY <2>4 DEF Goes
  <2>6. Elements(f[k]) = Elements(f[k - 1]) \cup {ifs[k]}
    BY <2>3, <2>4, <2>5, InsertedElements
  <2>7. ASSUME NEW i \in 1..Len(f[k - 1]) PROVE f[k - 1][i].name # ifs[k].name
    <3>1. f[k - 1][i] \in Some(k - 1)
      BY <2>2 DEF Elements
    <3>2. PICK m \in 1..k - 1 : f[k - 1][i] = ifs[m]
      BY <3>1
    <3>3. m \in 1..Len(ifs) /\ m # k
      BY <1>2
    <3>4. QED
      BY <3>2, <3>3 DEF Distinct
  <2>8. Ascending(f[k])
    BY <1>4, <2>2, <2>3, <2>4, <2>7, AscendingStays
  <2>9. Some(k) = Some(k - 1) \cup {ifs[k]}
    <3>1. \A i \in 1..k : i \in 1..k - 1 \/ i = k
      OBVIOUS
    <3>2. \A i \in 1..k - 1 : i \in 1..k
      OBVIOUS
    <3>3. k \in 1..k
      OBVIOUS
    <3>4. QED
      BY <3>1, <3>2, <3>3
  <2> HIDE DEF Some
  <2>10. QED
    BY <2>1, <2>2, <2>6, <2>8, <2>9
<1>7. Len(ifs) \in G
  <2> HIDE DEF G
  <2>1. \A k \in 0..Len(ifs) : k \in G
    BY <1>2, <1>5, <1>6, Climb
  <2>2. QED
    BY <1>2, <2>1
<1>8. QED
  BY <1>1, <1>7

\* Of two ascending lists of the same, where they first differ one would be both
\* less and greater.
LEMMA OneIsMissing ==
  ASSUME NEW R, NEW s \in Seq(R), NEW t \in Seq(R), NEW N, N \subseteq Texts,
         Compares(names, N), \A y \in R : y.name \in N,
         Ascending(s), Ascending(t), Elements(s) = Elements(t), NEW m \in 1..Len(s),
         \A i \in 1..m - 1 : i \in 1..Len(t) /\ s[i] = t[i]
  PROVE  m \in 1..Len(t) /\ (s[m] # t[m] => iface_cmp(t[m].name, s[m].name) = -1)
<1>1. Len(s) \in Nat /\ Len(t) \in Nat
  OBVIOUS
<1>2. \A x \in R : iface_cmp(x.name, x.name) # -1
  <2>1. ASSUME NEW x \in R PROVE iface_cmp(x.name, x.name) # -1
    <3>1. PICK n \in N : n = x.name
      OBVIOUS
    <3>2. names[<<n, n>>] \in {-1, 0, 1} /\ names[<<n, n>>] = -names[<<n, n>>]
      BY DEF Compares
    <3>3. names[<<n, n>>] = iface_cmp(n, n)
      BY DEF names
    <3>4. QED
      BY <3>1, <3>2, <3>3
  <2>2. QED
    BY <2>1
<1>3. s[m] \in Elements(t)
  BY DEF Elements
<1>4. PICK j \in 1..Len(t) : s[m] = t[j]
  BY <1>3 DEF Elements
<1>5. ~(j < m)
  <2>1. ASSUME j < m PROVE FALSE
    <3>1. j \in 1..m - 1 /\ j \in 1..Len(s)
      BY <1>1, <1>4, <2>1
    <3>2. s[j] = s[m]
      BY <1>4, <3>1
    <3>3. iface_cmp(s[j].name, s[m].name) = -1
      BY <2>1, <3>1 DEF Ascending
    <3>4. s[m] \in R
      OBVIOUS
    <3>5. QED
      BY <1>2, <3>2, <3>3, <3>4
  <2>2. QED
    BY <2>1
<1>6. m \in 1..Len(t)
  BY <1>1, <1>4, <1>5
<1>7. ASSUME s[m] # t[m] PROVE iface_cmp(t[m].name, s[m].name) = -1
  <2>1. m < j
    BY <1>1, <1>4, <1>5, <1>7
  <2>2. QED
    BY <1>4, <1>6, <2>1 DEF Ascending
<1>8. QED
  BY <1>6, <1>7

\* There is one ascending sequence of given interfaces.
LEMMA OneOrder ==
  ASSUME NEW R, NEW s \in Seq(R), NEW t \in Seq(R), NEW N \in SUBSET Texts, Uniform(N),
         \A y \in R : y.name \in N,
         Ascending(s), Ascending(t), Elements(s) = Elements(t)
  PROVE  s = t
<1>1. Compares(names, N)
  BY NamesCompare
<1>2. Len(s) \in Nat /\ Len(t) \in Nat
  OBVIOUS
<1> DEFINE G == {k \in Nat : \A i \in 1..k : (i \in 1..Len(s) <=> i \in 1..Len(t)) /\ (i \in 1..Len(s) => s[i] = t[i])}
<1>3. 0 \in G
  OBVIOUS
<1>4. ASSUME NEW m \in Nat, m # 0, m - 1 \in G PROVE m \in G
  <2>1. m \in Nat /\ 1 <= m
    BY <1>4
  <2>2. \A i \in 1..m - 1 : (i \in 1..Len(s) <=> i \in 1..Len(t)) /\ (i \in 1..Len(s) => s[i] = t[i])
    BY <1>4
  <2>3. ASSUME m \in 1..Len(s) PROVE m \in 1..Len(t) /\ (s[m] # t[m] => iface_cmp(t[m].name, s[m].name) = -1)
    <3>1. \A i \in 1..m - 1 : i \in 1..Len(t) /\ s[i] = t[i]
      BY <1>2, <2>1, <2>2, <2>3
    <3>2. QED
      BY <1>1, <2>3, <3>1, OneIsMissing
  <2>4. ASSUME m \in 1..Len(t) PROVE m \in 1..Len(s) /\ (t[m] # s[m] => iface_cmp(s[m].name, t[m].name) = -1)
    <3>1. \A i \in 1..m - 1 : i \in 1..Len(s) /\ t[i] = s[i]
      BY <1>2, <2>1, <2>2, <2>4
    <3>2. QED
      BY <1>1, <2>4, <3>1, OneIsMissing
  <2>5. ASSUME m \in 1..Len(s) PROVE s[m] = t[m]
    <3>1. SUFFICES ASSUME s[m] # t[m] PROVE FALSE
      OBVIOUS
    <3>2. m \in 1..Len(t)
      BY <2>3, <2>5
    <3>3. PICK a, b : a = s[m].name /\ b = t[m].name
      OBVIOUS
    <3>4. a \in N /\ b \in N
      BY <2>5, <3>2, <3>3
    <3>5. iface_cmp(b, a) = -1 /\ iface_cmp(a, b) = -1
      BY <2>3, <2>4, <2>5, <3>1, <3>2, <3>3
    <3>6. names[<<a, b>>] = -1 /\ names[<<b, a>>] = -1
      BY <3>4, <3>5 DEF names
    <3>7. QED
      BY <1>1, <3>4, <3>6 DEF Compares
  <2>6. \A i \in 1..m : i \in 1..m - 1 \/ i = m
    BY <2>1
  <2>7. QED
    BY <2>2, <2>3, <2>4, <2>5, <2>6
<1>5. PICK n \in Nat : n >= Len(s) /\ n >= Len(t)
  BY <1>2
<1>6. n \in G
  <2> HIDE DEF G
  <2>1. \A k \in 1..n : k - 1 \in G => k \in G
    BY <1>4
  <2>2. \A k \in 0..n : k \in G
    BY <1>3, <2>1, Climb
  <2>3. QED
    BY <2>2
<1>7. \A i \in 1..n : (i \in 1..Len(s) <=> i \in 1..Len(t)) /\ (i \in 1..Len(s) => s[i] = t[i])
  BY <1>6
<1>8. Len(s) = Len(t)
  BY <1>2, <1>5, <1>7
<1>9. \A i \in 1..Len(s) : s[i] = t[i]
  BY <1>2, <1>5, <1>7
<1>10. QED
  BY <1>8, <1>9

-----------------------------------------------------------------------------
(* The enumeration.                                                        *)

UsableOf(host, n) == {k \in 1..n : Usable(host[k])}

Listed(host, n) == {NetInterface(host[k]) : k \in UsableOf(host, n)}

\* No two interfaces that are listed have the same name.
NamesDiffer(host) ==
  \A i, j \in UsableOf(host, Len(host)) : i # j => host[i].name # host[j].name

Kept(out, iface) == IF Usable(iface) THEN Append(out, NetInterface(iface)) ELSE out

\* How the filter goes.
FilterRun(R, host, f) ==
  /\ f \in [0..Len(host) -> Seq(R)] /\ f[0] = <<>>
  /\ \A k \in 1..Len(host) : f[k] = Kept(f[k - 1], host[k])

\* The filter has such a course, and what it ends with is sorted.
LEMMA FilterRuns ==
  ASSUME NEW H, NEW host \in Seq(H), NEW R, Listed(host, Len(host)) \subseteq R
  PROVE  \E f : FilterRun(R, host, f) /\ enumerate(host) = sort_by(f[Len(host)])
<1> DEFINE n == Len(host)
           step == [k \in 0..n |-> [s \in Seq(R) |-> IF k = 0 THEN <<>> ELSE Kept(s, host[k])]]
           Upto(f) == f = [k \in 0..n |-> IF k = 0 THEN <<>>
                                          ELSE IF Usable(host[k])
                                               THEN Append(f[k - 1], NetInterface(host[k]))
                                               ELSE f[k - 1]]
           u == CHOOSE f : Upto(f)
<1>1. n \in Nat /\ <<>> \in Seq(R)
  OBVIOUS
<1>2. \A k \in 1..n : Usable(host[k]) => NetInterface(host[k]) \in R
  BY DEF Listed, UsableOf
<1>3. CanRun(Seq(R), 0, n, <<>>, step)
  <2>1. ASSUME NEW k \in 0..n, NEW s \in Seq(R)
        PROVE  (IF k = 0 THEN <<>> ELSE Kept(s, host[k])) \in Seq(R)
    <3>1. CASE k # 0
      <4>1. k \in 1..n
        BY <1>1, <3>1
      <4>2. Usable(host[k]) => NetInterface(host[k]) \in R
        BY <1>2, <4>1
      <4>3. PICK e : e = NetInterface(host[k])
        OBVIOUS
      <4>4. Kept(s, host[k]) = IF Usable(host[k]) THEN Append(s, e) ELSE s
        BY <4>3 DEF Kept
      <4>5. QED
        BY <3>1, <4>2, <4>3, <4>4
    <3>2. QED
      BY <1>1, <3>1
  <2>2. step \in [0..n -> [Seq(R) -> Seq(R)]]
    BY <2>1
  <2> HIDE DEF step, n
  <2>3. QED
    BY <1>1, <2>2 DEF CanRun
<1>4. \A k \in 1..n : k \in 0..n /\ k # 0 /\ k - 1 \in 0..n
  BY <1>1
<1>5. \A k \in 1..n, s \in Seq(R) : step[k][s] = Kept(s, host[k])
  BY <1>4
<1> HIDE DEF n, step
<1>6. \E g : Upto(g)
  <2>1. PICK g : Runs(Seq(R), 0, n, <<>>, step, g)
    BY <1>3, Recursion
  <2>2. g \in [0..n -> Seq(R)] /\ g[0] = <<>> /\ \A k \in 1..n : g[k] = step[k][g[k - 1]]
    BY <2>1 DEF Runs
  <2>3. \A k \in 1..n : g[k] = IF Usable(host[k]) THEN Append(g[k - 1], NetInterface(host[k])) ELSE g[k - 1]
    BY <1>4, <1>5, <2>2 DEF Kept
  <2>4. \A k \in 0..n : k = 0 \/ k \in 1..n
    BY <1>1
  <2>5. Upto(g)
    BY <2>2, <2>3, <2>4
  <2>6. QED
    BY <2>5
<1>7. Upto(u)
  <2> HIDE DEF Upto
  <2>1. QED
    BY <1>6
<1>8. enumerate(host) = sort_by(u[n])
  BY DEF enumerate, n
<1> HIDE DEF u
<1>9. 0 \in 0..n
  BY <1>1
<1>10. u = [k \in 0..n |-> u[k]] /\ u[0] = <<>> /\ \A k \in 1..n : u[k] = Kept(u[k - 1], host[k])
  <2>1. u = [k \in 0..n |-> u[k]] /\ u[0] = <<>>
    BY <1>7, <1>9
  <2>2. QED
    BY <1>4, <1>7, <2>1 DEF Kept
<1>11. \A k \in 0 + 1..n : u[k - 1] \in Seq(R) => u[k] = step[k][u[k - 1]]
  <2>1. \A k \in 0 + 1..n : k \in 1..n
    BY <1>1
  <2>2. QED
    BY <1>5, <1>10, <2>1
<1>12. Runs(Seq(R), 0, n, <<>>, step, u)
  BY <1>3, <1>10, <1>11, RunsToo
<1>13. FilterRun(R, host, u)
  <2>1. u \in [0..n -> Seq(R)]
    BY <1>12 DEF Runs
  <2>2. QED
    BY <1>10, <2>1 DEF FilterRun, n
<1>14. QED
  BY <1>8, <1>13 DEF n

\* What the filter has let through so far.
Through(R, host, s, k) ==
  /\ s \in Seq(R) /\ Len(s) <= k /\ Elements(s) = Listed(host, k)
  /\ NamesDiffer(host) => Distinct(s)

\* One more interface reported is let through or not.
LEMMA FilterStep ==
  ASSUME NEW H, NEW host \in Seq(H), NEW R, Listed(host, Len(host)) \subseteq R,
         NEW k \in 1..Len(host), NEW s, Through(R, host, s, k - 1)
  PROVE  Through(R, host, Kept(s, host[k]), k)
<1>1. Len(host) \in Nat /\ k \in Nat /\ s \in Seq(R) /\ Len(s) \in Nat /\ Len(s) <= k - 1 /\ (k - 1) + 1 = k
  BY DEF Through
<1>2. \A i \in 1..k : i \in 1..k - 1 \/ i = k
  OBVIOUS
<1>3. \A i \in 1..k - 1 : i \in 1..k /\ i # k /\ i \in 1..Len(host)
  BY <1>1
<1>4. CASE ~Usable(host[k])
  <2>1. Kept(s, host[k]) = s
    BY <1>4 DEF Kept
  <2>2. UsableOf(host, k) = UsableOf(host, k - 1)
    BY <1>2, <1>3, <1>4 DEF UsableOf
  <2>3. Len(s) <= k
    BY <1>1
  <2>4. QED
    BY <2>1, <2>2, <2>3 DEF Through, Listed
<1>5. CASE Usable(host[k])
  <2>1. PICK e : e = NetInterface(host[k])
    OBVIOUS
  <2>2. PICK p : p = Append(s, e)
    OBVIOUS
  <2>3. Kept(s, host[k]) = p
    BY <1>5, <2>1, <2>2 DEF Kept
  <2>4. UsableOf(host, k) = UsableOf(host, k - 1) \cup {k}
    BY <1>2, <1>3, <1>5 DEF UsableOf
  <2>5. Listed(host, k) = Listed(host, k - 1) \cup {e}
    BY <2>1, <2>4 DEF Listed
  <2>6. e \in R
    BY <1>5, <2>1 DEF Listed, UsableOf
  <2>7. p \in Seq(R) /\ Len(p) = Len(s) + 1 /\ p[Len(s) + 1] = e
    BY <1>1, <2>2, <2>6
  <2>8. \A i \in 1..Len(s) : p[i] = s[i]
    BY <1>1, <2>2, <2>6
  <2>9. \A i \in 1..Len(p) : i \in 1..Len(s) \/ i = Len(s) + 1
    BY <1>1, <2>7
  <2>10. (\A i \in 1..Len(s) : i \in 1..Len(p)) /\ Len(s) + 1 \in 1..Len(p)
    BY <1>1, <2>7
  <2>11. Elements(p) = Elements(s) \cup {e}
    BY <2>7, <2>8, <2>9, <2>10 DEF Elements
  <2>12. ASSUME NamesDiffer(host) PROVE Distinct(p)
    <3>1. Distinct(s)
      BY <2>12 DEF Through
    <3>2. ASSUME NEW i \in 1..Len(s) PROVE s[i].name # e.name
      <4>1. s[i] \in Listed(host, k - 1)
        BY DEF Through, Elements
      <4>2. PICK j \in UsableOf(host, k - 1) : s[i] = NetInterface(host[j])
        BY <4>1 DEF Listed
      <4>3. j \in UsableOf(host, Len(host)) /\ k \in UsableOf(host, Len(host)) /\ j # k
        BY <1>3, <1>5, <4>2 DEF UsableOf
      <4>4. host[j].name # host[k].name
        BY <2>12, <4>3 DEF NamesDiffer
      <4>5. s[i].name = host[j].name /\ e.name = host[k].name
        BY <2>1, <4>2 DEF NetInterface
      <4>6. QED
        BY <4>4, <4>5
    <3>3. QED
      BY <2>7, <2>8, <2>9, <3>1, <3>2 DEF Distinct
  <2>13. QED
    BY <1>1, <2>3, <2>5, <2>7, <2>11, <2>12 DEF Through
<1>6. QED
  BY <1>4, <1>5

\* The listing has what is usable, each once.
LEMMA FilterIs ==
  ASSUME NEW H, NEW host \in Seq(H), NEW R, Listed(host, Len(host)) \subseteq R
  PROVE  \E s : Through(R, host, s, Len(host)) /\ enumerate(host) = sort_by(s)
<1>1. PICK f : FilterRun(R, host, f) /\ enumerate(host) = sort_by(f[Len(host)])
  BY FilterRuns
<1>2. Len(host) \in Nat
  OBVIOUS
<1> DEFINE G == {k \in 0..Len(host) : Through(R, host, f[k], k)}
<1>3. 0 \in G
  <2>1. f[0] = <<>> /\ 0 \in 0..Len(host)
    BY <1>1, <1>2 DEF FilterRun
  <2>2. <<>> \in Seq(R) /\ Len(<<>>) = 0 /\ Len(<<>>) <= 0 /\ 1..0 = {}
    OBVIOUS
  <2>3. Elements(<<>>) = {} /\ UsableOf(host, 0) = {} /\ Distinct(<<>>)
    BY <2>2 DEF Elements, UsableOf, Distinct
  <2>4. Listed(host, 0) = {}
    BY <2>3 DEF Listed
  <2>5. Through(R, host, <<>>, 0)
    BY <2>2, <2>3, <2>4, Zenon DEF Through
  <2>6. QED
    BY <2>1, <2>5
<1>4. ASSUME NEW k \in 1..Len(host), k - 1 \in G PROVE k \in G
  <2>1. f[k] = Kept(f[k - 1], host[k])
    BY <1>1 DEF FilterRun
  <2>2. Through(R, host, f[k - 1], k - 1)
    BY <1>4
  <2>3. Through(R, host, f[k], k)
    BY <2>1, <2>2, FilterStep
  <2>4. k \in 0..Len(host)
    OBVIOUS
  <2>5. QED
    BY <2>3, <2>4
<1>5. Len(host) \in G
  <2> HIDE DEF G
  <2>1. \A k \in 0..Len(host) : k \in G
    BY <1>2, <1>3, <1>4, Climb
  <2>2. QED
    BY <1>2, <2>1
<1>6. QED
  BY <1>1, <1>5

\* It is no longer than what was reported, and nothing is made up or left out.
LEMMA EnumerateIs ==
  ASSUME NEW H, NEW host \in Seq(H), NEW R, Listed(host, Len(host)) \subseteq R
  PROVE  /\ enumerate(host) \in Seq(R) /\ Len(enumerate(host)) <= Len(host)
         /\ Elements(enumerate(host)) = Listed(host, Len(host))
<1>1. PICK s : Through(R, host, s, Len(host)) /\ enumerate(host) = sort_by(s)
  BY FilterIs
<1>2. s \in Seq(R) /\ Len(s) <= Len(host) /\ Elements(s) = Listed(host, Len(host))
  BY <1>1 DEF Through
<1>3. sort_by(s) \in Seq(R) /\ Len(sort_by(s)) = Len(s) /\ Elements(sort_by(s)) = Elements(s)
  BY <1>2, SortKeeps
<1>4. QED
  BY <1>1, <1>2, <1>3

\* Where tokens of one place are of one kind the listing ascends.
LEMMA EnumerateAscends ==
  ASSUME NEW H, NEW host \in Seq(H), NEW R, Listed(host, Len(host)) \subseteq R,
         NEW N \in SUBSET Texts, Uniform(N), \A y \in R : y.name \in N, NamesDiffer(host)
  PROVE  Ascending(enumerate(host))
<1>1. PICK s : Through(R, host, s, Len(host)) /\ enumerate(host) = sort_by(s)
  BY FilterIs
<1>2. s \in Seq(R) /\ Distinct(s)
  BY <1>1 DEF Through
<1>3. Ascending(sort_by(s))
  BY <1>2, SortAscends
<1>4. QED
  BY <1>1, <1>3

-----------------------------------------------------------------------------
(* Names without and with identifiers.                                     *)

\* At no place does one of the names have an identifier and another one some
\* other token.
Unmixed(N) ==
  \A m, n \in N :
    \A k \in DOMAIN Pieces(m, Alphanumeric) \cap DOMAIN Pieces(n, Alphanumeric) :
      LET x == Pieces(m, Alphanumeric)[k]
          y == Pieces(n, Alphanumeric)[k]
      IN  {x[1], y[1]} \subseteq Alphanumeric => (is_hex_identifier(x) <=> is_hex_identifier(y))

\* Names without mixed places have at each place what one order compares.
LEMMA UnmixedIsUniform == ASSUME NEW N, Unmixed(N) PROVE Uniform(N)
<1> SUFFICES ASSUME NEW k \in Nat PROVE Alike(AtPlace({Pieces(n, Alphanumeric) : n \in N}, k))
  BY DEF Uniform
<1> DEFINE K == AtPlace({Pieces(n, Alphanumeric) : n \in N}, k)
<1>1. \A x \in K : \E n \in N : k \in DOMAIN Pieces(n, Alphanumeric) /\ x = Pieces(n, Alphanumeric)[k]
  BY DEF AtPlace
<1>2. ASSUME NEW x \in K, NEW y \in K, x[1] \in Alphanumeric, y[1] \in Alphanumeric
      PROVE  is_hex_identifier(x) <=> is_hex_identifier(y)
  <2>1. PICK m \in N : k \in DOMAIN Pieces(m, Alphanumeric) /\ x = Pieces(m, Alphanumeric)[k]
    BY <1>1
  <2>2. PICK n \in N : k \in DOMAIN Pieces(n, Alphanumeric) /\ y = Pieces(n, Alphanumeric)[k]
    BY <1>1
  <2>3. QED
    BY <1>2, <2>1, <2>2 DEF Unmixed
<1> HIDE DEF K
<1>3. Alike(K)
  BY <1>2 DEF Alike
<1>4. QED
  BY <1>3 DEF K

-----------------------------------------------------------------------------
(* The number a run of digits denotes.                                     *)

DigitRuns == Seq(Digit) \ {<<>>}

\* How a number is read, digit by digit.
NumberRun(run, f) ==
  /\ f \in [0..Len(run) -> Nat] /\ f[0] = 0
  /\ \A k \in 1..Len(run) : f[k] = 10 * f[k - 1] + (run[k] - 48)

\* A run of digits is a part of a name, of nothing but digits.
LEMMA DigitRunIs ==
  ASSUME NEW run \in DigitRuns
  PROVE  /\ run \in Parts /\ Len(run) \in Nat /\ Len(run) >= 1
         /\ \A k \in 1..Len(run) : run[k] \in Digit /\ run[k] - 48 \in 0..9
<1>1. run \in Seq(Digit) /\ run # <<>>
  BY DEF DigitRuns
<1>2. \A k \in 1..Len(run) : run[k] \in Digit
  BY <1>1
<1>3. \A d \in Digit : d \in Nat /\ d - 48 \in 0..9
  BY DEF Digit
<1>4. Len(run) \in Nat /\ Len(run) >= 1
  BY <1>1
<1>5. run \in Seq(Nat)
  BY <1>1, <1>3
<1>6. QED
  BY <1>1, <1>2, <1>3, <1>4, <1>5 DEF Parts, Texts

\* The number of a run is what reading its digits ends with.
LEMMA NumberRuns ==
  ASSUME NEW run \in DigitRuns
  PROVE  \E f : NumberRun(run, f) /\ NumberOf(run) = f[Len(run)]
<1> DEFINE n == Len(run)
           step == [k \in 0..n |-> [s \in Nat |-> IF k = 0 THEN 0 ELSE 10 * s + (run[k] - 48)]]
           Upto(f) == f = [k \in 0..n |-> IF k = 0 THEN 0 ELSE 10 * f[k - 1] + (run[k] - 48)]
           u == CHOOSE f : Upto(f)
<1>1. n \in Nat /\ \A k \in 1..n : run[k] - 48 \in Nat
  BY DigitRunIs
<1>2. CanRun(Nat, 0, n, 0, step)
  <2>1. ASSUME NEW k \in 0..n, NEW s \in Nat
        PROVE  (IF k = 0 THEN 0 ELSE 10 * s + (run[k] - 48)) \in Nat
    <3>1. CASE k # 0
      <4>1. run[k] - 48 \in Nat
        BY <1>1, <3>1
      <4>2. QED
        BY <3>1, <4>1
    <3>2. QED
      BY <3>1
  <2>2. step \in [0..n -> [Nat -> Nat]]
    BY <2>1
  <2>3. n \in Nat /\ 0 \in Nat /\ 0 <= n
    BY <1>1
  <2> HIDE DEF step, n
  <2>4. QED
    BY <2>2, <2>3, Zenon DEF CanRun
<1>3. \A k \in 1..n : k \in 0..n /\ k # 0 /\ k - 1 \in 0..n
  BY <1>1
<1>4. \A k \in 1..n, s \in Nat : step[k][s] = 10 * s + (run[k] - 48)
  BY <1>3
<1> HIDE DEF n, step
<1>5. \E g : Upto(g)
  <2>1. PICK g : Runs(Nat, 0, n, 0, step, g)
    BY <1>2, Recursion
  <2>2. g \in [0..n -> Nat] /\ g[0] = 0 /\ \A k \in 1..n : g[k] = step[k][g[k - 1]]
    BY <2>1 DEF Runs
  <2>3. \A k \in 1..n : g[k] = 10 * g[k - 1] + (run[k] - 48)
    BY <1>3, <1>4, <2>2
  <2>4. \A k \in 0..n : k = 0 \/ k \in 1..n
    BY <1>1
  <2>5. Upto(g)
    BY <2>2, <2>3, <2>4
  <2>6. QED
    BY <2>5
<1>6. Upto(u)
  <2> HIDE DEF Upto
  <2>1. QED
    BY <1>5
<1>7. NumberOf(run) = u[n]
  BY DEF NumberOf, n
<1> HIDE DEF u
<1>8. 0 \in 0..n
  BY <1>1
<1>9. u = [k \in 0..n |-> u[k]] /\ u[0] = 0 /\ \A k \in 1..n : u[k] = 10 * u[k - 1] + (run[k] - 48)
  BY <1>3, <1>6, <1>8
<1>10. \A k \in 0 + 1..n : u[k - 1] \in Nat => u[k] = step[k][u[k - 1]]
  <2>1. \A k \in 0 + 1..n : k \in 1..n
    BY <1>1
  <2>2. QED
    BY <1>4, <1>9, <2>1
<1>11. Runs(Nat, 0, n, 0, step, u)
  BY <1>2, <1>9, <1>10, RunsToo
<1>12. NumberRun(run, u)
  <2>1. u \in [0..n -> Nat]
    BY <1>11 DEF Runs
  <2>2. QED
    BY <1>9, <2>1 DEF NumberRun, n
<1>13. QED
  BY <1>7, <1>12 DEF n

\* Leading zeros add nothing.
LEMMA ZerosAddNothing ==
  ASSUME NEW run \in DigitRuns, NEW i \in 1..Len(run), \A k \in 1..i - 1 : run[k] = 48
  PROVE  /\ SubSeq(run, i, Len(run)) \in DigitRuns
         /\ NumberOf(SubSeq(run, i, Len(run))) = NumberOf(run)
<1>1. PICK n, r : n = Len(run) /\ r = SubSeq(run, i, n)
  OBVIOUS
<1>2. n \in Nat /\ i \in 1..n /\ run \in Parts /\ \A k \in 1..n : run[k] \in Digit
  BY <1>1, DigitRunIs
<1>3. i \in 1..Len(run) /\ n \in i..Len(run) /\ run \in Texts
  BY <1>1, <1>2 DEF Parts
<1>4. r \in Parts /\ Len(r) = n - i + 1 /\ \A k \in 1..n - i + 1 : r[k] = run[i + k - 1]
  BY <1>1, <1>3, PartIs
<1>5. r \in DigitRuns
  <2>1. \A k \in 1..n - i + 1 : i + k - 1 \in 1..n
    BY <1>2
  <2>2. \A k \in 1..Len(r) : r[k] \in Digit
    BY <1>2, <1>4, <2>1
  <2>3. r \in Seq(Digit)
    BY <1>4, <2>2 DEF Parts, Texts
  <2>4. QED
    BY <1>4, <2>3 DEF DigitRuns, Parts
<1>6. PICK f : NumberRun(run, f) /\ NumberOf(run) = f[n]
  BY <1>1, NumberRuns
<1>7. PICK g : NumberRun(r, g) /\ NumberOf(r) = g[n - i + 1]
  BY <1>4, <1>5, NumberRuns
<1>8. f[0] = 0 /\ \A k \in 1..n : f[k] = 10 * f[k - 1] + (run[k] - 48)
  BY <1>1, <1>6 DEF NumberRun
<1>9. g[0] = 0 /\ \A k \in 1..n - i + 1 : g[k] = 10 * g[k - 1] + (r[k] - 48)
  BY <1>4, <1>7 DEF NumberRun
<1>10. f[i - 1] = 0
  <2> DEFINE G == {k \in 0..i - 1 : f[k] = 0}
  <2>1. 0 \in G
    BY <1>2, <1>8
  <2>2. ASSUME NEW k \in 1..i - 1, k - 1 \in G PROVE k \in G
    <3>1. f[k] = 10 * f[k - 1] + (run[k] - 48) /\ run[k] = 48 /\ f[k - 1] = 0
      BY <1>2, <1>8, <2>2
    <3>2. QED
      BY <1>2, <3>1
  <2>3. i - 1 \in Nat
    BY <1>2
  <2> HIDE DEF G
  <2>4. \A k \in 0..i - 1 : k \in G
    BY <2>1, <2>2, <2>3, Climb
  <2>5. QED
    BY <2>3, <2>4 DEF G
<1>11. g[n - i + 1] = f[n]
  <2> DEFINE G == {k \in 0..n - i + 1 : g[k] = f[i - 1 + k]}
  <2>1. 0 \in G
    BY <1>2, <1>9, <1>10
  <2>2. ASSUME NEW k \in 1..n - i + 1, k - 1 \in G PROVE k \in G
    <3>1. i - 1 + k \in 1..n /\ i - 1 + k - 1 = i - 1 + (k - 1) /\ i + k - 1 = i - 1 + k /\ k \in 0..n - i + 1
      BY <1>2
    <3>2. f[i - 1 + k] = 10 * f[i - 1 + (k - 1)] + (run[i - 1 + k] - 48)
      BY <1>8, <3>1
    <3>3. g[k] = 10 * g[k - 1] + (run[i - 1 + k] - 48)
      BY <1>4, <1>9, <3>1
    <3>4. g[k - 1] = f[i - 1 + (k - 1)]
      BY <2>2
    <3>5. g[k] = f[i - 1 + k]
      BY <3>2, <3>3, <3>4
    <3>6. QED
      BY <3>1, <3>5
  <2>3. n - i + 1 \in Nat /\ i - 1 + (n - i + 1) = n
    BY <1>2
  <2> HIDE DEF G
  <2>4. \A k \in 0..n - i + 1 : k \in G
    BY <2>1, <2>2, <2>3, Climb
  <2>5. QED
    BY <2>3, <2>4 DEF G
<1>12. QED
  BY <1>1, <1>5, <1>6, <1>7, <1>11

\* A run without its leading zeros denotes the same, and begins with a zero
\* only if that is all there is.
LEMMA StripKeeps ==
  ASSUME NEW run \in DigitRuns
  PROVE  LET s == strip_leading_zeros(run)
         IN  s \in DigitRuns /\ NumberOf(s) = NumberOf(run) /\ (Len(s) > 1 => s[1] # 48)
<1> DEFINE kept == {i \in 1..Len(run) : run[i] # 48 \/ i = Len(run)}
<1>1. Len(run) \in Nat /\ Len(run) >= 1 /\ run \in Texts
  BY DigitRunIs DEF Parts
<1>2. Len(run) \in kept /\ kept \in SUBSET Nat
  BY <1>1
<1>3. PICK i : i = Min(kept)
  OBVIOUS
<1>4. i \in kept /\ \A k \in kept : i <= k
  <2> HIDE DEF kept
  <2>1. QED
    BY <1>2, <1>3, MinIs
<1>5. strip_leading_zeros(run) = SubSeq(run, i, Len(run))
  BY <1>3 DEF strip_leading_zeros
<1>6. i \in 1..Len(run) /\ (run[i] # 48 \/ i = Len(run))
  BY <1>4
<1>7. \A k \in 1..i - 1 : run[k] = 48
  <2>1. ASSUME NEW k \in 1..i - 1 PROVE run[k] = 48
    <3>1. k \in 1..Len(run) /\ ~(i <= k) /\ k # Len(run)
      BY <1>1, <1>6
    <3>2. k \notin kept
      BY <1>4, <3>1
    <3>3. QED
      BY <3>1, <3>2
  <2>2. QED
    BY <2>1
<1> HIDE DEF kept
<1>8. SubSeq(run, i, Len(run)) \in DigitRuns /\ NumberOf(SubSeq(run, i, Len(run))) = NumberOf(run)
  BY <1>6, <1>7, ZerosAddNothing
<1>9. Len(SubSeq(run, i, Len(run))) = Len(run) - i + 1 /\ SubSeq(run, i, Len(run))[1] = run[i]
  <2>1. Len(run) \in i..Len(run)
    BY <1>1, <1>6
  <2>2. QED
    BY <1>1, <1>6, <2>1, PartIs
<1>10. Len(SubSeq(run, i, Len(run))) > 1 => SubSeq(run, i, Len(run))[1] # 48
  BY <1>1, <1>6, <1>9
<1>11. QED
  BY <1>5, <1>8, <1>10

\* A number that is less at some place stays so when as many digits follow.
LEMMA LessStays ==
  ASSUME NEW m \in DigitRuns, NEW n \in DigitRuns, NEW f, NEW g, NumberRun(m, f), NumberRun(n, g),
         NEW d \in Nat, Len(n) = Len(m) + d, NEW i \in 0..Len(m), f[i] < g[i + d]
  PROVE  f[Len(m)] < g[Len(n)]
<1>1. PICK p, q : p = Len(m) /\ q = Len(n)
  OBVIOUS
<1>2. p \in Nat /\ q \in Nat /\ q = p + d /\ i \in 0..p
  BY <1>1, DigitRunIs
<1>3. \A k \in 1..p : f[k] = 10 * f[k - 1] + (m[k] - 48) /\ m[k] - 48 \in 0..9
  BY <1>1, DigitRunIs DEF NumberRun
<1>4. \A k \in 1..q : g[k] = 10 * g[k - 1] + (n[k] - 48) /\ n[k] - 48 \in 0..9
  BY <1>1, DigitRunIs DEF NumberRun
<1>5. (\A k \in 0..p : f[k] \in Nat) /\ (\A k \in 0..q : g[k] \in Nat)
  BY <1>1 DEF NumberRun
<1> DEFINE G == {k \in 0..p - i : f[i + k] < g[i + k + d]}
<1>6. 0 \in G
  BY <1>2
<1>7. ASSUME NEW k \in 1..p - i, k - 1 \in G PROVE k \in G
  <2>1. PICK a, b : a = i + k /\ b = i + k + d
    OBVIOUS
  <2>2. a \in 1..p /\ b \in 1..q /\ a - 1 = i + (k - 1) /\ b - 1 = i + (k - 1) + d /\ a - 1 \in 0..p /\ b - 1 \in 0..q
    BY <1>2, <2>1
  <2>3. f[a] = 10 * f[a - 1] + (m[a] - 48) /\ m[a] - 48 \in 0..9
    BY <1>3, <2>2
  <2>4. g[b] = 10 * g[b - 1] + (n[b] - 48) /\ n[b] - 48 \in 0..9
    BY <1>4, <2>2
  <2>5. f[a - 1] < g[b - 1] /\ f[a - 1] \in Nat /\ g[b - 1] \in Nat
    BY <1>5, <1>7, <2>2
  <2>6. f[a] < g[b]
    <3>1. PICK x, y, u, v : x = f[a - 1] /\ y = g[b - 1] /\ u = m[a] - 48 /\ v = n[b] - 48
      OBVIOUS
    <3>2. x \in Nat /\ y \in Nat /\ x < y /\ u \in 0..9 /\ v \in 0..9
      BY <2>3, <2>4, <2>5, <3>1
    <3>3. 10 * x + u < 10 * y + v
      BY <3>2
    <3>4. QED
      BY <2>3, <2>4, <3>1, <3>3
  <2>7. k \in 0..p - i
    BY <1>2
  <2>8. QED
    BY <2>1, <2>6, <2>7
<1>8. p - i \in Nat /\ i + (p - i) = p /\ i + (p - i) + d = q
  BY <1>2
<1> HIDE DEF G
<1>9. \A k \in 0..p - i : k \in G
  BY <1>6, <1>7, <1>8, Climb
<1>10. p - i \in G
  BY <1>8, <1>9
<1>11. f[i + (p - i)] < g[i + (p - i) + d]
  BY <1>10 DEF G
<1>12. QED
  BY <1>1, <1>8, <1>11

\* A number with fewer digits is smaller, unless the other begins with a zero.
LEMMA ShorterIsLess ==
  ASSUME NEW m \in DigitRuns, NEW n \in DigitRuns, Len(m) < Len(n), n[1] # 48
  PROVE  NumberOf(m) < NumberOf(n)
<1>1. PICK f : NumberRun(m, f) /\ NumberOf(m) = f[Len(m)]
  BY NumberRuns
<1>2. PICK g : NumberRun(n, g) /\ NumberOf(n) = g[Len(n)]
  BY NumberRuns
<1>3. PICK p, q : p = Len(m) /\ q = Len(n)
  OBVIOUS
<1>4. p \in Nat /\ q \in Nat /\ p < q /\ 1 <= p
  BY <1>3, DigitRunIs
<1>5. \A k \in 1..q : g[k] = 10 * g[k - 1] + (n[k] - 48) /\ n[k] - 48 \in 0..9
  BY <1>2, <1>3, DigitRunIs DEF NumberRun
<1>6. \A k \in 0..q : g[k] \in Nat
  BY <1>2, <1>3 DEF NumberRun
<1> DEFINE G == {k \in 0..q - 1 : g[k + 1] >= 1}
<1>7. 0 \in G
  <2>1. g[1] = 10 * g[0] + (n[1] - 48) /\ n[1] - 48 \in 0..9 /\ g[0] \in Nat
    BY <1>4, <1>5, <1>6
  <2>2. n[1] \in Nat
    <3>1. n \in Parts
      BY DigitRunIs
    <3>2. QED
      BY <3>1, FirstIs
  <2>3. g[1] >= 1
    BY <2>1, <2>2
  <2>4. QED
    BY <1>4, <2>3
<1>8. ASSUME NEW k \in 1..q - 1, k - 1 \in G PROVE k \in G
  <2>1. k + 1 \in 1..q /\ k + 1 - 1 = k /\ k - 1 + 1 = k /\ k \in 0..q - 1 /\ k \in 0..q
    BY <1>4
  <2>2. g[k + 1] = 10 * g[k] + (n[k + 1] - 48) /\ n[k + 1] - 48 \in 0..9 /\ g[k] \in Nat
    BY <1>5, <1>6, <2>1
  <2>3. g[k] >= 1
    BY <1>8, <2>1
  <2>4. g[k + 1] >= 1
    <3>1. PICK x, v : x = g[k] /\ v = n[k + 1] - 48
      OBVIOUS
    <3>2. x \in Nat /\ x >= 1 /\ v \in 0..9
      BY <2>2, <2>3, <3>1
    <3>3. 10 * x + v >= 1
      BY <3>2
    <3>4. QED
      BY <2>2, <3>1, <3>3
  <2>5. QED
    BY <2>1, <2>4
<1>9. q - 1 \in Nat
  BY <1>4
<1>10. PICK d \in Nat : d = q - p
  BY <1>4
<1>11. d - 1 \in 0..q - 1 /\ d - 1 + 1 = 0 + d /\ Len(n) = Len(m) + d /\ 0 \in 0..Len(m)
  BY <1>3, <1>4, <1>10
<1>12. g[d - 1 + 1] >= 1
  <2> HIDE DEF G
  <2>1. \A k \in 0..q - 1 : k \in G
    BY <1>7, <1>8, <1>9, Climb
  <2>2. QED
    BY <1>11, <2>1 DEF G
<1>13. f[0] = 0 /\ g[0 + d] >= 1
  BY <1>1, <1>11, <1>12 DEF NumberRun
<1>14. f[0] < g[0 + d]
  <2>1. 0 + d \in 0..q
    BY <1>4, <1>10
  <2>2. g[0 + d] \in Nat
    BY <1>6, <2>1
  <2>3. QED
    BY <1>13, <2>2
<1>15. f[Len(m)] < g[Len(n)]
  BY <1>1, <1>2, <1>10, <1>11, <1>14, LessStays
<1>16. QED
  BY <1>1, <1>2, <1>15

\* Of two numbers with as many digits the first digit that differs decides.
LEMMA FirstDifference ==
  ASSUME NEW m \in DigitRuns, NEW n \in DigitRuns, Len(m) = Len(n), NEW d \in 1..Len(m),
         \A k \in 1..d - 1 : m[k] = n[k], m[d] < n[d]
  PROVE  NumberOf(m) < NumberOf(n)
<1>1. PICK f : NumberRun(m, f) /\ NumberOf(m) = f[Len(m)]
  BY NumberRuns
<1>2. PICK g : NumberRun(n, g) /\ NumberOf(n) = g[Len(n)]
  BY NumberRuns
<1>3. PICK p : p = Len(m)
  OBVIOUS
<1>4. p \in Nat /\ d \in 1..p
  BY <1>3, DigitRunIs
<1>5. f[0] = 0 /\ \A k \in 1..p : f[k] = 10 * f[k - 1] + (m[k] - 48) /\ m[k] - 48 \in 0..9
  BY <1>1, <1>3, DigitRunIs DEF NumberRun
<1>6. g[0] = 0 /\ \A k \in 1..p : g[k] = 10 * g[k - 1] + (n[k] - 48) /\ n[k] - 48 \in 0..9
  BY <1>2, <1>3, DigitRunIs DEF NumberRun
<1>7. \A k \in 0..p : f[k] \in Nat
  BY <1>1, <1>3 DEF NumberRun
<1> DEFINE G == {k \in 0..d - 1 : f[k] = g[k]}
<1>8. 0 \in G
  BY <1>4, <1>5, <1>6
<1>9. ASSUME NEW k \in 1..d - 1, k - 1 \in G PROVE k \in G
  <2>1. k \in 1..p /\ k \in 0..d - 1
    BY <1>4
  <2>2. f[k] = 10 * f[k - 1] + (m[k] - 48) /\ g[k] = 10 * g[k - 1] + (n[k] - 48) /\ m[k] = n[k]
    BY <1>5, <1>6, <2>1
  <2>3. f[k - 1] = g[k - 1]
    BY <1>9
  <2>4. f[k] = g[k]
    BY <2>2, <2>3
  <2>5. QED
    BY <2>1, <2>4
<1>10. d - 1 \in Nat /\ d - 1 \in 0..d - 1 /\ d - 1 \in 0..p
  BY <1>4
<1>11. f[d - 1] = g[d - 1]
  <2> HIDE DEF G
  <2>1. \A k \in 0..d - 1 : k \in G
    BY <1>8, <1>9, <1>10, Climb
  <2>2. QED
    BY <1>10, <2>1 DEF G
<1>12. f[d] < g[d + 0]
  <2>1. m[d] \in Nat /\ n[d] \in Nat
    <3>1. m \in Texts /\ n \in Texts
      BY DigitRunIs DEF Parts
    <3>2. QED
      BY <1>3, <1>4, <3>1 DEF Texts
  <2>2. PICK x, u, v : x = f[d - 1] /\ u = m[d] /\ v = n[d]
    OBVIOUS
  <2>3. x \in Nat /\ u \in Nat /\ v \in Nat /\ u < v
    BY <1>7, <1>10, <2>1, <2>2
  <2>4. f[d] = 10 * x + (u - 48) /\ g[d] = 10 * x + (v - 48)
    BY <1>4, <1>5, <1>6, <1>11, <2>2
  <2>5. 10 * x + (u - 48) < 10 * x + (v - 48)
    BY <2>3
  <2>6. d + 0 = d
    BY <1>4
  <2>7. QED
    BY <2>4, <2>5, <2>6
<1>13. d \in 0..Len(m) /\ Len(n) = Len(m) + 0 /\ 0 \in Nat
  BY <1>3, <1>4
<1>14. f[Len(m)] < g[Len(n)]
  BY <1>1, <1>2, <1>12, <1>13, LessStays
<1>15. QED
  BY <1>1, <1>2, <1>14

\* Without leading zeros, the comparison by length and then by digits is that
\* of the numbers.
LEMMA DigitsCompare ==
  ASSUME NEW m \in DigitRuns, NEW n \in DigitRuns,
         Len(m) > 1 => m[1] # 48, Len(n) > 1 => n[1] # 48, NumberOf(m) < NumberOf(n)
  PROVE  then_with(cmp(Len(m), Len(n)), slice_cmp(m, n)) = -1
<1>1. m \in Texts /\ n \in Texts /\ Len(m) \in Nat /\ Len(n) \in Nat /\ Len(m) >= 1 /\ Len(n) >= 1
  BY DigitRunIs DEF Parts
<1>2. NumberOf(m) \in Nat /\ NumberOf(n) \in Nat
  <2>1. \A r \in DigitRuns : NumberOf(r) \in Nat
    <3>1. ASSUME NEW r \in DigitRuns PROVE NumberOf(r) \in Nat
      <4>1. PICK f : NumberRun(r, f) /\ NumberOf(r) = f[Len(r)]
        BY NumberRuns
      <4>2. Len(r) \in 0..Len(r)
        BY DigitRunIs
      <4>3. QED
        BY <4>1, <4>2 DEF NumberRun
    <3>2. QED
      BY <3>1
  <2>2. QED
    BY <2>1
<1>3. CASE Len(m) < Len(n)
  BY <1>1, <1>3 DEF cmp, then_with
<1>4. CASE Len(n) < Len(m)
  <2>1. m[1] # 48
    BY <1>1, <1>4
  <2>2. NumberOf(n) < NumberOf(m)
    BY <1>4, <2>1, ShorterIsLess
  <2>3. QED
    BY <1>2, <2>2
<1>5. CASE Len(m) = Len(n)
  <2>1. cmp(Len(m), Len(n)) = 0
    BY <1>1, <1>5 DEF cmp
  <2>2. slice_cmp(m, n) = LexF(bytes, m, n)
    BY <1>1, SliceIs
  <2>3. PICK d \in Nat : Decides(bytes, m, n, d) /\ LexF(bytes, m, n) = Decided(bytes, m, n, d)
    BY <1>1, LexDecides DEF Texts
  <2>4. d \in 1..Len(m) + 1 /\ \A k \in 1..d - 1 : bytes[<<m[k], n[k]>>] = 0
    BY <2>3 DEF Decides, AgreeTo
  <2>5. \A k \in 1..Len(m) : m[k] \in Nat /\ n[k] \in Nat
    BY <1>1, <1>5 DEF Texts
  <2>6. \A k \in 1..Len(m) : bytes[<<m[k], n[k]>>] = cmp(m[k], n[k])
    BY <2>5 DEF bytes
  <2>7. ASSUME NEW k \in 1..d - 1 PROVE m[k] = n[k]
    <3>1. k \in 1..Len(m)
      BY <1>1, <2>4
    <3>2. cmp(m[k], n[k]) = 0
      BY <2>4, <2>6, <3>1
    <3>3. QED
      BY <3>2 DEF cmp
  <2>8. CASE d = Len(m) + 1
    <3>1. \A k \in 1..Len(m) : m[k] = n[k]
      BY <1>1, <2>7, <2>8
    <3>2. m = n
      BY <1>1, <1>5, <3>1 DEF Texts
    <3>3. QED
      BY <1>2, <3>2
  <2>9. CASE d # Len(m) + 1
    <3>1. d \in 1..Len(m) /\ d <= Len(m) /\ d <= Len(n) /\ d \in 1..Len(n)
      BY <1>1, <1>5, <2>4, <2>9
    <3>2. Decided(bytes, m, n, d) = cmp(m[d], n[d]) /\ cmp(m[d], n[d]) # 0
      BY <2>3, <2>6, <3>1 DEF Decided, Decides
    <3>3. ~(n[d] < m[d])
      <4>1. ASSUME n[d] < m[d] PROVE FALSE
        <5>1. \A k \in 1..d - 1 : n[k] = m[k]
          BY <2>7
        <5>2. NumberOf(n) < NumberOf(m)
          BY <1>5, <3>1, <4>1, <5>1, FirstDifference
        <5>3. QED
          BY <1>2, <5>2
      <4>2. QED
        BY <4>1
    <3>4. cmp(m[d], n[d]) = -1
      BY <2>5, <3>1, <3>2, <3>3 DEF cmp
    <3>5. slice_cmp(m, n) = -1
      BY <2>2, <2>3, <3>2, <3>4
    <3>6. QED
      BY <2>1, <3>5 DEF then_with
  <2>10. QED
    BY <2>8, <2>9
<1>6. QED
  BY <1>1, <1>3, <1>4, <1>5

\* A run that denotes a smaller number compares as less.
LEMMA ByNumber ==
  ASSUME NEW l \in DigitRuns, NEW r \in DigitRuns, NumberOf(l) < NumberOf(r)
  PROVE  by_value(l, r) = -1
<1>1. PICK m, n : m = strip_leading_zeros(l) /\ n = strip_leading_zeros(r)
  OBVIOUS
<1>2. /\ m \in DigitRuns /\ n \in DigitRuns /\ NumberOf(m) < NumberOf(n)
      /\ Len(m) > 1 => m[1] # 48
      /\ Len(n) > 1 => n[1] # 48
  BY <1>1, StripKeeps
<1>3. l[1] \in Digit /\ r[1] \in Digit
  BY DigitRunIs
<1>4. by_value(l, r) = then_with(cmp(Len(m), Len(n)), slice_cmp(m, n))
  BY <1>1, <1>3 DEF by_value
<1>5. QED
  BY <1>2, <1>4, DigitsCompare

-----------------------------------------------------------------------------
(* Where two texts part.                                                   *)

\* Piece K of s, from a + 1 to p, has place i.
PieceAt(s, Class, K, i, a, p) ==
  /\ K \in 1..Len(Pieces(s, Class)) /\ a \in 0..i - 1 /\ p \in i..Len(s)
  /\ Pieces(s, Class)[K] = SubSeq(s, a + 1, p)
  /\ p \in Ends(s, Class) /\ \A e \in Ends(s, Class) : e <= a \/ p <= e

\* So has piece K of t, and the pieces before are the same.
Part(s, t, Class, K, i, a, p, q) ==
  /\ PieceAt(s, Class, K, i, a, p) /\ PieceAt(t, Class, K, i, a, q)
  /\ \A k \in 1..K - 1 : Pieces(s, Class)[k] = Pieces(t, Class)[k]

\* Both have place i, up to which they are the same, and a byte of the class there.
AlikeTo(s, t, Class, i) ==
  /\ i \in 1..Len(s) /\ i \in 1..Len(t) /\ s[i] \in Class /\ t[i] \in Class
  /\ \A k \in 1..i - 1 : s[k] = t[k]

\* Every place is in a piece.
LEMMA PieceOf ==
  ASSUME NEW Class, NEW s \in Texts, NEW b, Bounds(s, Class, b), NEW i \in 1..Len(s)
  PROVE  \E K \in 1..Len(Pieces(s, Class)) : PieceAt(s, Class, K, i, b[K - 1], b[K])
<1>1. PICK n, P : n = Len(Pieces(s, Class)) /\ P = Pieces(s, Class)
  OBVIOUS
<1>2. Len(s) \in Nat /\ DOMAIN s = 1..Len(s)
  BY DEF Texts
<1>3. /\ n \in Nat /\ b \in [0..n -> 0..Len(s)] /\ b[0] = 0
      /\ \A k \in 1..n : b[k] \in Ends(s, Class)
      /\ \A j, k \in 0..n : j < k => b[j] < b[k]
      /\ \A e \in Ends(s, Class) : \E k \in 1..n : b[k] = e
      /\ P = [k \in 1..n |-> SubSeq(s, b[k - 1] + 1, b[k])]
  BY <1>1 DEF Bounds
<1>4. \A k \in 0..n : b[k] \in 0..Len(s)
  BY <1>3
<1> DEFINE G == {k \in 1..n : i <= b[k]}
<1>5. Len(s) \in Ends(s, Class)
  BY <1>2 DEF Ends
<1>6. PICK z \in 1..n : b[z] = Len(s)
  BY <1>3, <1>5
<1>7. z \in G /\ G \in SUBSET Nat
  BY <1>2, <1>6
<1>8. PICK K \in G : \A k \in G : K <= k
  <2> HIDE DEF G
  <2>1. QED
    BY <1>7, LeastElement
<1>9. K \in 1..n /\ i <= b[K]
  OBVIOUS
<1>10. b[K - 1] < i
  <2>1. K - 1 \in 0..n /\ (K - 1 = 0 \/ (K - 1 \in 1..n /\ ~(K <= K - 1)))
    BY <1>3, <1>9
  <2>2. CASE K - 1 = 0
    BY <1>2, <1>3, <2>2
  <2>3. CASE K - 1 \in 1..n /\ ~(K <= K - 1)
    <3>1. K - 1 \notin G
      BY <1>8, <2>3
    <3>2. ~(i <= b[K - 1])
      BY <2>3, <3>1
    <3>3. b[K - 1] \in 0..Len(s)
      BY <1>4, <2>1
    <3>4. QED
      BY <1>2, <3>2, <3>3
  <2>4. QED
    BY <2>1, <2>2, <2>3
<1> HIDE DEF G
<1>11. K \in 0..n /\ K - 1 \in 0..n /\ b[K] \in 0..Len(s) /\ b[K - 1] \in 0..Len(s)
  BY <1>3, <1>4, <1>9
<1>12. \A e \in Ends(s, Class) : e <= b[K - 1] \/ b[K] <= e
  <2>1. ASSUME NEW e \in Ends(s, Class) PROVE e <= b[K - 1] \/ b[K] <= e
    <3>1. PICK j \in 1..n : b[j] = e
      BY <1>3
    <3>2. j \in Nat /\ K \in Nat /\ j \in 0..n
      BY <1>3, <1>9
    <3>3. j < K - 1 \/ j = K - 1 \/ j = K \/ K < j
      BY <3>2
    <3>4. b[j] \in 0..Len(s)
      BY <1>4, <3>2
    <3>5. (j < K - 1 => b[j] < b[K - 1]) /\ (K < j => b[K] < b[j])
      BY <1>3, <1>11, <3>2
    <3>6. QED
      BY <1>11, <3>1, <3>3, <3>4, <3>5
  <2>2. QED
    BY <2>1
<1>13. b[K - 1] \in 0..i - 1 /\ b[K] \in i..Len(s)
  BY <1>2, <1>9, <1>10, <1>11
<1>14. P[K] = SubSeq(s, b[K - 1] + 1, b[K]) /\ b[K] \in Ends(s, Class)
  BY <1>3, <1>9, Zenon
<1>15. PieceAt(s, Class, K, i, b[K - 1], b[K])
  BY <1>1, <1>9, <1>12, <1>13, <1>14, Zenon DEF PieceAt
<1>16. QED
  BY <1>1, <1>9, <1>15

\* Up to that place pieces end at the same places.
LEMMA EndsAgree ==
  ASSUME NEW Class, NEW s \in Texts, NEW t \in Texts, NEW i, AlikeTo(s, t, Class, i),
         NEW e \in Ends(s, Class), e < i
  PROVE  e \in Ends(t, Class)
<1>1. Len(s) \in Nat /\ Len(t) \in Nat /\ DOMAIN s = 1..Len(s) /\ DOMAIN t = 1..Len(t)
  BY DEF Texts
<1>2. i \in 1..Len(s) /\ i \in 1..Len(t) /\ s[i] \in Class /\ t[i] \in Class /\ \A k \in 1..i - 1 : s[k] = t[k]
  BY DEF AlikeTo
<1>3. e \in 1..Len(s) /\ (e = Len(s) \/ ~({s[e], s[e + 1]} \subseteq Class))
  BY <1>1 DEF Ends
<1>4. e \in 1..i - 1 /\ e # Len(s) /\ e \in 1..Len(t) /\ (e + 1 = i \/ e + 1 \in 1..i - 1)
  <2>1. PICK x, y : x = Len(s) /\ y = Len(t)
    OBVIOUS
  <2>2. x \in Nat /\ y \in Nat /\ e \in 1..x /\ i \in 1..x /\ i \in 1..y
    BY <1>1, <1>2, <1>3, <2>1, Zenon
  <2>3. e \in 1..i - 1 /\ e # x /\ e \in 1..y /\ (e + 1 = i \/ e + 1 \in 1..i - 1)
    BY <2>2
  <2>4. QED
    BY <2>1, <2>3
<1>5. s[e] = t[e] /\ (s[e + 1] = t[e + 1] \/ (s[e + 1] \in Class /\ t[e + 1] \in Class))
  BY <1>2, <1>4
<1>6. ~({t[e], t[e + 1]} \subseteq Class)
  BY <1>3, <1>4, <1>5
<1>7. QED
  BY <1>1, <1>4, <1>6 DEF Ends

\* The pieces of texts that begin alike have the same bounds so far.
LEMMA BoundsAgree ==
  ASSUME NEW Class, NEW s \in Texts, NEW t \in Texts, NEW i, AlikeTo(s, t, Class, i),
         NEW b, NEW c, Bounds(s, Class, b), Bounds(t, Class, c),
         NEW k \in 0..Len(Pieces(s, Class)), b[k] < i
  PROVE  k \in 0..Len(Pieces(t, Class)) /\ c[k] = b[k]
<1>1. PICK n, m : n = Len(Pieces(s, Class)) /\ m = Len(Pieces(t, Class))
  OBVIOUS
<1>2. Len(s) \in Nat /\ Len(t) \in Nat /\ i \in Nat
  BY DEF Texts, AlikeTo
<1>3. /\ n \in Nat /\ b \in [0..n -> 0..Len(s)] /\ b[0] = 0
      /\ \A j \in 1..n : b[j] \in Ends(s, Class)
      /\ \A j, l \in 0..n : j < l => b[j] < b[l]
      /\ \A e \in Ends(s, Class) : \E j \in 1..n : b[j] = e
  BY <1>1 DEF Bounds
<1>4. /\ m \in Nat /\ c \in [0..m -> 0..Len(t)] /\ c[0] = 0
      /\ \A j \in 1..m : c[j] \in Ends(t, Class)
      /\ \A j, l \in 0..m : j < l => c[j] < c[l]
      /\ \A e \in Ends(t, Class) : \E j \in 1..m : c[j] = e
  BY <1>1 DEF Bounds
<1>5. (\A j \in 0..n : b[j] \in Nat) /\ (\A j \in 0..m : c[j] \in Nat)
  BY <1>2, <1>3, <1>4
<1>6. AlikeTo(t, s, Class, i)
  BY DEF AlikeTo
<1> DEFINE G == {j \in 0..n : b[j] < i => j \in 0..m /\ c[j] = b[j]}
<1>7. 0 \in G
  BY <1>3, <1>4
<1>8. ASSUME NEW j \in 1..n, j - 1 \in G PROVE j \in G
  <2>1. j \in 0..n /\ j - 1 \in 0..n /\ j - 1 < j
    BY <1>3
  <2>2. ASSUME b[j] < i PROVE j \in 0..m /\ c[j] = b[j]
    <3>1. b[j - 1] < b[j] /\ b[j - 1] \in Nat /\ b[j] \in Nat
      BY <1>3, <1>5, <2>1
    <3>2. b[j - 1] < i
      BY <1>2, <2>2, <3>1
    <3>3. j - 1 \in 0..m /\ c[j - 1] = b[j - 1]
      BY <1>8, <3>2
    <3>4. b[j] \in Ends(s, Class)
      BY <1>3
    <3>5. b[j] \in Ends(t, Class)
      BY <2>2, <3>4, EndsAgree
    <3>6. PICK l \in 1..m : c[l] = b[j]
      BY <1>4, <3>5
    <3>7. l \in 0..m /\ c[j - 1] < c[l]
      BY <1>4, <3>1, <3>3, <3>6
    <3>8. ~(l < j - 1) /\ l # j - 1
      <4>1. l < j - 1 => c[l] < c[j - 1]
        BY <1>4, <3>3, <3>7
      <4>2. c[l] \in Nat /\ c[j - 1] \in Nat
        BY <1>5, <3>3, <3>7
      <4>3. QED
        BY <3>7, <4>1, <4>2
    <3>9. j <= l /\ j \in 0..m /\ j \in 1..m
      BY <1>3, <1>4, <3>3, <3>7, <3>8
    <3>10. c[j] <= b[j]
      <4>1. j < l => c[j] < c[l]
        BY <1>4, <3>7, <3>9
      <4>2. j = l \/ j < l
        BY <1>4, <3>9
      <4>3. c[j] \in Nat
        BY <1>5, <3>9
      <4>4. QED
        BY <3>1, <3>6, <4>1, <4>2, <4>3
    <3>11. c[j - 1] < c[j] /\ c[j] \in Nat
      BY <1>4, <1>5, <2>1, <3>3, <3>9
    <3>12. c[j] \in Ends(t, Class) /\ c[j] < i
      BY <1>2, <1>4, <2>2, <3>1, <3>9, <3>10, <3>11
    <3>13. c[j] \in Ends(s, Class)
      BY <1>6, <3>12, EndsAgree
    <3>14. PICK z \in 1..n : b[z] = c[j]
      BY <1>3, <3>13
    <3>15. z \in 0..n /\ b[j - 1] < b[z]
      BY <1>3, <3>3, <3>11, <3>14
    <3>16. ~(z < j - 1) /\ z # j - 1
      BY <1>3, <1>5, <2>1, <3>15
    <3>17. j <= z
      BY <1>3, <2>1, <3>15, <3>16
    <3>18. b[j] <= c[j]
      <4>1. j < z => b[j] < b[z]
        BY <1>3, <2>1, <3>15
      <4>2. j = z \/ j < z
        BY <1>3, <3>17
      <4>3. QED
        BY <3>1, <3>14, <4>1, <4>2, <3>11
    <3>19. QED
      BY <3>1, <3>9, <3>10, <3>11, <3>18
  <2>3. QED
    BY <2>1, <2>2
<1> HIDE DEF G
<1>9. \A j \in 0..n : j \in G
  BY <1>3, <1>7, <1>8, Climb
<1>10. k \in G
  BY <1>1, <1>9
<1>11. QED
  BY <1>1, <1>10 DEF G

\* The same part of both.
LEMMA SamePart ==
  ASSUME NEW s \in Texts, NEW t \in Texts, NEW i \in Nat, i <= Len(s), i <= Len(t),
         \A k \in 1..i : s[k] = t[k], NEW a \in 1..i, NEW p \in a..i
  PROVE  SubSeq(s, a, p) = SubSeq(t, a, p)
<1>1. PICK x, y : x = SubSeq(s, a, p) /\ y = SubSeq(t, a, p)
  OBVIOUS
<1>2. Len(s) \in Nat /\ Len(t) \in Nat
  BY DEF Texts
<1>3. a \in 1..Len(s) /\ p \in a..Len(s) /\ a \in 1..Len(t) /\ p \in a..Len(t)
  BY <1>2
<1>4. x \in Texts /\ Len(x) = p - a + 1 /\ \A k \in 1..p - a + 1 : x[k] = s[a + k - 1]
  BY <1>1, <1>3, PartIs DEF Parts
<1>5. y \in Texts /\ Len(y) = p - a + 1 /\ \A k \in 1..p - a + 1 : y[k] = t[a + k - 1]
  BY <1>1, <1>3, PartIs DEF Parts
<1>6. \A k \in 1..p - a + 1 : a + k - 1 \in 1..i
  OBVIOUS
<1>7. \A k \in 1..p - a + 1 : x[k] = y[k]
  BY <1>4, <1>5, <1>6
<1>8. x = y
  <2>1. x \in Seq(Nat) /\ y \in Seq(Nat) /\ Len(x) = Len(y)
    BY <1>4, <1>5 DEF Texts
  <2>2. \A k \in 1..Len(x) : x[k] = y[k]
    BY <1>4, <1>7
  <2>3. QED
    BY <2>1, <2>2
<1>9. QED
  BY <1>1, <1>8

\* The place where they may differ is in a piece of both that begins at the
\* same place, after the same pieces.
LEMMA TextsPart ==
  ASSUME NEW Class, NEW s \in Texts, NEW t \in Texts, NEW i, AlikeTo(s, t, Class, i)
  PROVE  \E K, a, p, q : Part(s, t, Class, K, i, a, p, q)
<1>1. PICK b : Bounds(s, Class, b)
  BY PiecesBounded
<1>2. PICK c : Bounds(t, Class, c)
  BY PiecesBounded
<1>3. PICK n, m : n = Len(Pieces(s, Class)) /\ m = Len(Pieces(t, Class))
  OBVIOUS
<1>4. i \in 1..Len(s) /\ i \in 1..Len(t) /\ Len(s) \in Nat /\ Len(t) \in Nat /\ AlikeTo(t, s, Class, i)
  BY DEF AlikeTo, Texts
<1>5. PICK K \in 1..n : PieceAt(s, Class, K, i, b[K - 1], b[K])
  BY <1>1, <1>3, <1>4, PieceOf
<1>6. PICK L \in 1..m : PieceAt(t, Class, L, i, c[L - 1], c[L])
  BY <1>2, <1>3, <1>4, PieceOf
<1>7. /\ n \in Nat /\ b \in [0..n -> 0..Len(s)] /\ \A j, k \in 0..n : j < k => b[j] < b[k]
      /\ Pieces(s, Class) = [k \in 1..n |-> SubSeq(s, b[k - 1] + 1, b[k])]
  BY <1>1, <1>3 DEF Bounds
<1>8. /\ m \in Nat /\ c \in [0..m -> 0..Len(t)] /\ \A j, k \in 0..m : j < k => c[j] < c[k]
      /\ Pieces(t, Class) = [k \in 1..m |-> SubSeq(t, c[k - 1] + 1, c[k])]
  BY <1>2, <1>3 DEF Bounds
<1>9. b[K - 1] \in 0..i - 1 /\ b[K] \in i..Len(s) /\ c[L - 1] \in 0..i - 1 /\ c[L] \in i..Len(t)
  BY <1>5, <1>6 DEF PieceAt
<1>10. K - 1 \in 0..n /\ K \in 0..n /\ L - 1 \in 0..m /\ L \in 0..m
  BY <1>7, <1>8
<1>11. K - 1 \in 0..m /\ c[K - 1] = b[K - 1]
  <2>1. b[K - 1] < i
    BY <1>4, <1>9
  <2>2. QED
    BY <1>1, <1>2, <1>3, <1>10, <2>1, BoundsAgree
<1>12. L - 1 \in 0..n /\ b[L - 1] = c[L - 1]
  <2>1. c[L - 1] < i
    BY <1>4, <1>9
  <2>2. QED
    BY <1>1, <1>2, <1>3, <1>4, <1>10, <2>1, BoundsAgree
<1>13. ~(K <= L - 1)
  <2>1. (K = L - 1 => b[K] = b[L - 1]) /\ (K < L - 1 => b[K] < b[L - 1])
    BY <1>7, <1>10, <1>12
  <2>2. K = L - 1 \/ K < L - 1 \/ ~(K <= L - 1)
    BY <1>7, <1>8
  <2>3. QED
    BY <1>4, <1>9, <1>12, <2>1, <2>2
<1>14. ~(L <= K - 1)
  <2>1. (L = K - 1 => c[L] = c[K - 1]) /\ (L < K - 1 => c[L] < c[K - 1])
    BY <1>8, <1>10, <1>11
  <2>2. L = K - 1 \/ L < K - 1 \/ ~(L <= K - 1)
    BY <1>7, <1>8
  <2>3. QED
    BY <1>4, <1>9, <1>11, <2>1, <2>2
<1>15. K = L
  BY <1>7, <1>8, <1>13, <1>14
<1>16. ASSUME NEW k \in 1..K - 1 PROVE Pieces(s, Class)[k] = Pieces(t, Class)[k]
  <2>1. k \in 0..n /\ k - 1 \in 0..n /\ k \in 1..n /\ k \in 1..m /\ k - 1 < k /\ (k = K - 1 \/ k < K - 1)
    BY <1>7, <1>8, <1>15
  <2>2. b[k] < i
    <3>1. k < K - 1 => b[k] < b[K - 1]
      BY <1>7, <1>10, <2>1
    <3>2. b[k] \in 0..Len(s)
      BY <1>7, <2>1
    <3>3. QED
      BY <1>4, <1>9, <2>1, <3>1, <3>2
  <2>3. b[k - 1] < b[k] /\ b[k - 1] \in 0..Len(s) /\ b[k] \in 0..Len(s)
    BY <1>7, <2>1
  <2>4. b[k - 1] < i
    BY <1>4, <2>2, <2>3
  <2>5. c[k] = b[k]
    BY <1>1, <1>2, <1>3, <2>1, <2>2, BoundsAgree
  <2>6. c[k - 1] = b[k - 1]
    BY <1>1, <1>2, <1>3, <2>1, <2>4, BoundsAgree
  <2>7. Pieces(s, Class)[k] = SubSeq(s, b[k - 1] + 1, b[k]) /\ Pieces(t, Class)[k] = SubSeq(t, c[k - 1] + 1, c[k])
    BY <1>7, <1>8, <2>1, Zenon
  <2>8. SubSeq(s, b[k - 1] + 1, b[k]) = SubSeq(t, b[k - 1] + 1, b[k])
    <3>1. PICK u, v : u = b[k - 1] + 1 /\ v = b[k]
      OBVIOUS
    <3>2. i - 1 \in Nat /\ i - 1 <= Len(s) /\ i - 1 <= Len(t) /\ u \in 1..i - 1 /\ v \in u..i - 1
      BY <1>4, <2>2, <2>3, <3>1
    <3>3. \A j \in 1..i - 1 : s[j] = t[j]
      BY DEF AlikeTo
    <3>4. SubSeq(s, u, v) = SubSeq(t, u, v)
      BY <3>2, <3>3, SamePart
    <3>5. QED
      BY <3>1, <3>4
  <2>9. QED
    BY <2>5, <2>6, <2>7, <2>8
<1>17. Part(s, t, Class, K, i, b[K - 1], b[K], c[K])
  <2>1. PieceAt(t, Class, K, i, b[K - 1], c[K])
    BY <1>6, <1>12, <1>15
  <2>2. QED
    BY <1>5, <1>16, <2>1 DEF Part
<1>18. QED
  BY <1>17

-----------------------------------------------------------------------------
(* Names that differ in a number.                                          *)

\* Where a run of digits ends.
LEMMA RunEndIs ==
  ASSUME NEW s \in Texts, NEW i \in 1..Len(s), NEW z \in i..Len(s),
         \A j \in i..z : s[j] \in Digit, z = Len(s) \/ s[z + 1] \notin Digit
  PROVE  RunEnd(s, i, Digit) = z + 1
<1> DEFINE past == {j \in i..(Len(s) + 1) : j > Len(s) \/ s[j] \notin Digit}
<1>1. Len(s) \in Nat /\ i \in Nat /\ z \in Nat /\ i <= z /\ z <= Len(s)
  BY DEF Texts
<1>2. z + 1 \in past
  <2>1. z + 1 \in i..(Len(s) + 1)
    BY <1>1
  <2>2. z = Len(s) => z + 1 > Len(s)
    BY <1>1
  <2>3. QED
    BY <2>1, <2>2
<1>3. past \in SUBSET Nat
  BY <1>1
<1>4. \A j \in past : ~(j <= z)
  <2>1. ASSUME NEW j \in past, j <= z PROVE FALSE
    <3>1. j \in i..z /\ ~(j > Len(s))
      BY <1>1, <2>1
    <3>2. QED
      BY <3>1
  <2>2. QED
    BY <2>1
<1>5. RunEnd(s, i, Digit) = Min(past)
  BY DEF RunEnd
<1> HIDE DEF past
<1>6. Min(past) \in past /\ Min(past) <= z + 1
  BY <1>2, <1>3, MinIs
<1>7. PICK m : m = Min(past)
  OBVIOUS
<1>8. m \in Nat /\ ~(m <= z) /\ m <= z + 1
  BY <1>3, <1>4, <1>6, <1>7
<1>9. m = z + 1
  BY <1>1, <1>8
<1>10. QED
  BY <1>5, <1>7, <1>9

\* Within a piece that has a byte of the class at i all bytes from i are of it.
LEMMA PieceInClass ==
  ASSUME NEW Class, NEW s \in Texts, NEW K, NEW i \in 1..Len(s), NEW a, NEW p,
         PieceAt(s, Class, K, i, a, p), s[i] \in Class
  PROVE  /\ \A j \in a + 1..p : s[j] \in Class
         /\ p = Len(s) \/ s[p + 1] \notin Class
<1>1. Len(s) \in Nat /\ DOMAIN s = 1..Len(s) /\ i \in Nat /\ i >= 1
  BY DEF Texts
<1>2. a \in 0..i - 1 /\ p \in i..Len(s) /\ p \in Ends(s, Class) /\ \A e \in Ends(s, Class) : e <= a \/ p <= e
  BY DEF PieceAt
<1>3. a \in Nat /\ p \in Nat /\ a < i /\ i <= p /\ p <= Len(s)
  BY <1>1, <1>2
<1>4. ASSUME NEW j \in a + 1..p - 1 PROVE s[j] \in Class /\ s[j + 1] \in Class
  <2>1. j \in 1..Len(s) /\ ~(j <= a) /\ ~(p <= j)
    BY <1>1, <1>3
  <2>2. j \notin Ends(s, Class)
    BY <1>2, <2>1
  <2>3. {s[j], s[j + 1]} \subseteq Class
    BY <1>1, <2>1, <2>2 DEF Ends
  <2>4. QED
    BY <2>3
<1>5. ASSUME NEW j \in a + 1..p PROVE s[j] \in Class
  <2>1. CASE j < p
    <3>1. j \in a + 1..p - 1
      BY <1>3, <2>1
    <3>2. QED
      BY <1>4, <3>1
  <2>2. CASE j = p /\ i < p
    <3>1. p - 1 \in a + 1..p - 1 /\ p - 1 + 1 = p
      BY <1>3, <2>2
    <3>2. s[p - 1 + 1] \in Class
      BY <1>4, <3>1
    <3>3. QED
      BY <2>2, <3>1, <3>2
  <2>3. CASE j = p /\ i = p
    BY <2>3
  <2>4. QED
    BY <1>3, <2>1, <2>2, <2>3
<1>6. p = Len(s) \/ s[p + 1] \notin Class
  <2>1. p = Len(s) \/ ~({s[p], s[p + 1]} \subseteq Class)
    BY <1>2 DEF Ends
  <2>2. p \in a + 1..p
    BY <1>3
  <2>3. s[p] \in Class
    BY <1>5, <2>2
  <2>4. QED
    BY <2>1, <2>3
<1>7. QED
  BY <1>5, <1>6

\* Sequences of the same numbers are the same.
LEMMA SameNumbers ==
  ASSUME NEW r \in Seq(Nat), NEW t \in Seq(Nat), Len(r) = Len(t),
         \A k \in 1..Len(r) : r[k] = t[k]
  PROVE  r = t
  OBVIOUS

\* A piece of a piece of a name: a run of digits from its first to its last.
Token(s, i, K, a, p, M, u) ==
  /\ PieceAt(s, Alphanumeric, K, i, a, p)
  /\ PieceAt(SubSeq(s, a + 1, p), Digit, M, i - a, i - a - 1, u)

\* Such a piece of the class of digits is a run of them, ending where the run does.
LEMMA RunOf ==
  ASSUME NEW s \in Texts, NEW i \in 1..Len(s), s[i] \in Digit,
         NEW K, NEW a, NEW p, NEW M, NEW u, Token(s, i, K, a, p, M, u)
  PROVE  LET run == Pieces(SubSeq(s, a + 1, p), Digit)[M]
         IN  run \in DigitRuns /\ run = SubSeq(s, i, RunEnd(s, i, Digit) - 1)
<1>1. Len(s) \in Nat /\ i \in Nat /\ i >= 1 /\ i <= Len(s)
  BY DEF Texts
<1>2. PieceAt(s, Alphanumeric, K, i, a, p)
  BY DEF Token
<1>3. a \in Nat /\ p \in Nat /\ a < i /\ i <= p /\ p <= Len(s)
  <2>1. a \in 0..i - 1 /\ p \in i..Len(s)
    BY <1>2 DEF PieceAt
  <2>2. QED
    BY <1>1, <2>1
<1>4. PICK x, h : x = SubSeq(s, a + 1, p) /\ h = i - a
  OBVIOUS
<1>5. a + 1 \in 1..Len(s) /\ p \in a + 1..Len(s)
  BY <1>1, <1>3
<1>6. x \in Texts /\ Len(x) = p - a /\ \A k \in 1..p - a : x[k] = s[a + k]
  <2>1. x \in Parts /\ Len(x) = p - (a + 1) + 1 /\ \A k \in 1..p - (a + 1) + 1 : x[k] = s[a + 1 + k - 1]
    BY <1>4, <1>5, PartIs
  <2>2. p - (a + 1) + 1 = p - a /\ \A k \in 1..p - a : a + 1 + k - 1 = a + k
    BY <1>3
  <2>3. \A k \in 1..p - a : x[k] = s[a + k]
    BY <2>1, <2>2
  <2>4. QED
    BY <2>1, <2>2, <2>3 DEF Parts
<1>7. h \in Nat /\ 1 <= h /\ h <= p - a /\ a + h = i
  BY <1>1, <1>3, <1>4
<1>8. h \in 1..p - a /\ h \in 1..Len(x) /\ x[h] \in Digit
  BY <1>6, <1>7, p - a \in Nat
<1>9. PieceAt(x, Digit, M, h, h - 1, u)
  BY <1>4 DEF Token
<1>10. u \in h..Len(x) /\ Pieces(x, Digit)[M] = SubSeq(x, h - 1 + 1, u)
  BY <1>9 DEF PieceAt
<1>11. (\A j \in h - 1 + 1..u : x[j] \in Digit) /\ (u = Len(x) \/ x[u + 1] \notin Digit)
  BY <1>6, <1>8, <1>9, PieceInClass
<1>12. h - 1 + 1 = h /\ u \in Nat /\ h <= u /\ u <= p - a
  BY <1>6, <1>7, <1>10
<1>13. PICK z : z = a + u
  OBVIOUS
<1>14. z \in Nat /\ z \in i..Len(s) /\ z - i + 1 = u - h + 1 /\ z <= p
  BY <1>1, <1>3, <1>7, <1>12, <1>13
<1>15. ASSUME NEW j \in i..z PROVE s[j] \in Digit
  <2>1. j - a \in h..u /\ j - a \in 1..p - a /\ a + (j - a) = j
    BY <1>1, <1>3, <1>7, <1>12, <1>13
  <2>2. QED
    BY <1>6, <1>11, <1>12, <2>1
<1>16. z = Len(s) \/ s[z + 1] \notin Digit
  <2>1. CASE u < p - a
    <3>1. u + 1 \in 1..p - a /\ a + (u + 1) = z + 1 /\ u # Len(x)
      BY <1>3, <1>6, <1>12, <1>13, <2>1
    <3>2. QED
      BY <1>6, <1>11, <3>1
  <2>2. CASE u = p - a
    <3>1. z = p
      BY <1>3, <1>13, <2>2
    <3>2. s[i] \in Alphanumeric
      BY DEF Alphanumeric
    <3>3. p = Len(s) \/ s[p + 1] \notin Alphanumeric
      BY <1>2, <3>2, PieceInClass
    <3>4. QED
      BY <3>1, <3>3 DEF Alphanumeric
  <2>3. QED
    BY <1>3, <1>12, <2>1, <2>2
<1>17. RunEnd(s, i, Digit) = z + 1 /\ z + 1 - 1 = z
  BY <1>14, <1>15, <1>16, RunEndIs
<1>18. PICK r : r = SubSeq(x, h, u)
  OBVIOUS
<1>19. r \in Parts /\ Len(r) = u - h + 1 /\ \A k \in 1..u - h + 1 : r[k] = x[h + k - 1]
  BY <1>6, <1>8, <1>10, <1>18, PartIs
<1>20. PICK t : t = SubSeq(s, i, z)
  OBVIOUS
<1>21. t \in Parts /\ Len(t) = z - i + 1 /\ \A k \in 1..z - i + 1 : t[k] = s[i + k - 1]
  BY <1>14, <1>20, PartIs
<1>22. \A k \in 1..u - h + 1 : h + k - 1 \in 1..p - a /\ a + (h + k - 1) = i + k - 1 /\ i + k - 1 \in i..z
  BY <1>1, <1>3, <1>7, <1>12, <1>13
<1>23. \A k \in 1..u - h + 1 : r[k] = t[k] /\ t[k] \in Digit
  BY <1>6, <1>14, <1>15, <1>19, <1>21, <1>22
<1>24. r \in Seq(Nat) /\ t \in Seq(Nat) /\ Len(r) = Len(t) /\ r # <<>>
  BY <1>14, <1>19, <1>21 DEF Parts, Texts
<1>25. \A k \in 1..Len(r) : r[k] = t[k] /\ r[k] \in Digit
  BY <1>19, <1>23
<1>26. r = t
  <2>1. \A k \in 1..Len(r) : r[k] = t[k]
    BY <1>25
  <2>2. QED
    BY <1>24, <2>1, SameNumbers
<1>27. r \in DigitRuns
  <2>1. r \in Seq(Digit)
    BY <1>24, <1>25
  <2>2. QED
    BY <1>24, <2>1 DEF DigitRuns
<1>28. Pieces(x, Digit)[M] = r
  BY <1>10, <1>12, <1>18
<1>29. r = SubSeq(s, i, RunEnd(s, i, Digit) - 1)
  <2>1. PICK e : e = RunEnd(s, i, Digit)
    OBVIOUS
  <2>2. e - 1 = z
    BY <1>14, <1>17, <2>1
  <2>3. QED
    BY <1>20, <1>26, <2>1, <2>2
<1>30. QED
  BY <1>4, <1>27, <1>28, <1>29

\* A number begins where no digit is before.
Begins(s, i) == i \in 1..Len(s) /\ s[i] \in Digit /\ (i > 1 => s[i - 1] \notin Digit)

\* Two names that are the same up to where a number begins in both have it at
\* the same place: of their tokens, and of the pieces of those.
SamePlace(l, r, i, K, a, p, q, M, u, v) ==
  /\ Part(l, r, Alphanumeric, K, i, a, p, q)
  /\ Part(SubSeq(l, a + 1, p), SubSeq(r, a + 1, q), Digit, M, i - a, i - a - 1, u, v)

\* x is the part of s from a + 1 to p and has place i of s.
PartOf(s, i, a, p, x) ==
  /\ x \in Parts /\ i - a \in 1..Len(x)
  /\ \A k \in 1..i - a : x[k] = s[a + k]
  /\ a \in Nat /\ a < i /\ a + 1 \in DOMAIN s /\ p \in DOMAIN s

\* The piece at a place has that place.
LEMMA InPart ==
  ASSUME NEW s \in Texts, NEW i \in 1..Len(s), NEW K, NEW a, NEW p,
         PieceAt(s, Alphanumeric, K, i, a, p)
  PROVE  PartOf(s, i, a, p, SubSeq(s, a + 1, p))
<1>1. Len(s) \in Nat /\ i \in Nat /\ i >= 1 /\ i <= Len(s) /\ DOMAIN s = 1..Len(s)
  BY DEF Texts
<1>2. a \in 0..i - 1 /\ p \in i..Len(s)
  BY DEF PieceAt
<1>3. a \in Nat /\ p \in Nat /\ a < i /\ i <= p /\ p <= Len(s)
  BY <1>1, <1>2
<1>4. a + 1 \in 1..Len(s) /\ p \in a + 1..Len(s) /\ p \in 1..Len(s)
  BY <1>1, <1>3
<1>5. PICK x : x = SubSeq(s, a + 1, p)
  OBVIOUS
<1>6. x \in Parts /\ Len(x) = p - (a + 1) + 1 /\ \A k \in 1..p - (a + 1) + 1 : x[k] = s[a + 1 + k - 1]
  BY <1>4, <1>5, PartIs
<1>7. p - (a + 1) + 1 = p - a /\ i - a \in 1..p - a /\ \A k \in 1..i - a : k \in 1..p - a /\ a + 1 + k - 1 = a + k
  BY <1>3
<1>8. \A k \in 1..i - a : x[k] = s[a + k]
  BY <1>6, <1>7
<1>9. i - a \in 1..Len(x)
  BY <1>6, <1>7
<1>10. PartOf(s, i, a, p, x)
  BY <1>1, <1>3, <1>4, <1>6, <1>8, <1>9 DEF PartOf
<1>11. QED
  BY <1>5, <1>10

\* In two names that are the same up to a number, the number is in the same piece.
LEMMA SamePlaces ==
  ASSUME NEW l \in Texts, NEW r \in Texts, NEW i, Begins(l, i), Begins(r, i),
         \A k \in 1..i - 1 : l[k] = r[k]
  PROVE  \E K, a, p, q, M, u, v : SamePlace(l, r, i, K, a, p, q, M, u, v)
<1>1. i \in 1..Len(l) /\ i \in 1..Len(r) /\ l[i] \in Digit /\ r[i] \in Digit /\ Len(l) \in Nat /\ Len(r) \in Nat /\ i \in Nat
  BY DEF Begins, Texts
<1>2. AlikeTo(l, r, Alphanumeric, i)
  BY <1>1 DEF AlikeTo, Alphanumeric
<1>3. PICK K, a, p, q : Part(l, r, Alphanumeric, K, i, a, p, q)
  BY <1>2, TextsPart
<1>4. PieceAt(l, Alphanumeric, K, i, a, p) /\ PieceAt(r, Alphanumeric, K, i, a, q)
  BY <1>3 DEF Part
<1>5. PICK x, y, h : x = SubSeq(l, a + 1, p) /\ y = SubSeq(r, a + 1, q) /\ h = i - a
  OBVIOUS
<1>6. x \in Parts /\ h \in 1..Len(x) /\ (\A k \in 1..h : x[k] = l[a + k]) /\ a \in Nat /\ a < i
  <2>1. PartOf(l, i, a, p, x)
    BY <1>1, <1>4, <1>5, InPart
  <2>2. QED
    BY <1>5, <2>1 DEF PartOf
<1>7. y \in Parts /\ h \in 1..Len(y) /\ (\A k \in 1..h : y[k] = r[a + k])
  <2>1. PartOf(r, i, a, q, y)
    BY <1>1, <1>4, <1>5, InPart
  <2>2. QED
    BY <1>5, <2>1 DEF PartOf
<1>8. x \in Texts /\ y \in Texts /\ h \in Nat /\ h >= 1 /\ a + h = i
  BY <1>1, <1>5, <1>6, <1>7 DEF Parts
<1>9. AlikeTo(x, y, Digit, h)
  <2>1. h \in 1..h /\ \A k \in 1..h - 1 : k \in 1..h /\ a + k \in 1..i - 1
    BY <1>6, <1>8
  <2>2. \A k \in 1..h - 1 : x[k] = y[k]
    BY <1>6, <1>7, <2>1
  <2>3. x[h] \in Digit /\ y[h] \in Digit
    BY <1>1, <1>6, <1>7, <1>8, <2>1
  <2>4. QED
    BY <1>6, <1>7, <2>2, <2>3 DEF AlikeTo
<1>10. PICK M, e, u, v : Part(x, y, Digit, M, h, e, u, v)
  BY <1>8, <1>9, TextsPart
<1>11. e = h - 1
  <2>1. e \in 0..h - 1 /\ u \in h..Len(x) /\ \A d \in Ends(x, Digit) : d <= e \/ u <= d
    BY <1>10 DEF Part, PieceAt
  <2>2. CASE h = 1
    BY <1>8, <2>1, <2>2
  <2>3. CASE h # 1
    <3>1. h - 1 \in 1..h /\ h - 1 + 1 = h /\ a + (h - 1) = i - 1 /\ i > 1
      BY <1>6, <1>8, <2>3
    <3>2. x[h - 1] = l[i - 1]
      BY <1>6, <3>1
    <3>3. x[h - 1] \notin Digit
      BY <3>1, <3>2 DEF Begins
    <3>4. h - 1 \in DOMAIN x
      BY <1>6, <1>8, <3>1 DEF Texts
    <3>5. h - 1 \in Ends(x, Digit)
      BY <3>3, <3>4 DEF Ends
    <3>6. QED
      BY <1>8, <2>1, <3>5
  <2>4. QED
    BY <2>2, <2>3
<1>12. SamePlace(l, r, i, K, a, p, q, M, u, v)
  BY <1>3, <1>5, <1>10, <1>11 DEF SamePlace
<1>13. QED
  BY <1>12

\* Nothing is less than itself.
LEMMA SelfCompares ==
  /\ \A x \in Parts : values[<<x, x>>] = 0
  /\ \A x \in Parts : orders[<<x, x>>] = 0
<1>1. ASSUME NEW x \in Parts PROVE values[<<x, x>>] = 0
  <2>1. values[<<x, x>>] \in {-1, 0, 1} /\ values[<<x, x>>] = -values[<<x, x>>]
    BY ValuesCompare DEF Compares
  <2>2. QED
    BY <2>1
<1>2. ASSUME NEW x \in Parts PROVE orders[<<x, x>>] = 0
  <2>1. orders[<<x, x>>] = TokenOrder(x, x) /\ x \in Texts /\ x[1] \in Nat
    BY FirstIs DEF orders, Parts
  <2>2. cmp(x[1], x[1]) = 0
    BY <2>1 DEF cmp
  <2>3. slice_cmp(x, x) \in {-1, 0, 1} /\ slice_cmp(x, x) = -slice_cmp(x, x)
    BY <2>1, SlicesCompare DEF Compares, slices
  <2>4. token_cmp(x, x) \in {-1, 0, 1} /\ token_cmp(x, x) = -token_cmp(x, x)
    BY <2>1, TokensCompare DEF Compares, tokens
  <2>5. slice_cmp(x, x) = 0 /\ token_cmp(x, x) = 0
    BY <2>3, <2>4
  <2>6. QED
    BY <2>1, <2>2, <2>5 DEF TokenOrder
<1>3. QED
  BY <1>1, <1>2

\* Where the pieces before are the same the first that differ decide.
LEMMA PieceDecides ==
  ASSUME NEW c, \A x \in Parts : c[<<x, x>>] = 0, NEW s \in Seq(Parts), NEW t \in Seq(Parts),
         NEW m \in 1..Len(s), m \in 1..Len(t), \A k \in 1..m - 1 : s[k] = t[k], c[<<s[m], t[m]>>] = -1
  PROVE  LexF(c, s, t) = -1
<1>1. Len(s) \in Nat /\ Len(t) \in Nat /\ m \in Nat
  OBVIOUS
<1>2. AgreeTo(c, s, t, m)
  <2>1. ASSUME NEW k \in 1..m - 1 PROVE c[<<s[k], t[k]>>] = 0
    <3>1. k \in 1..Len(s)
      BY <1>1
    <3>2. s[k] \in Parts /\ s[k] = t[k]
      BY <3>1
    <3>3. QED
      BY <3>2
  <2>2. QED
    BY <2>1 DEF AgreeTo
<1>3. m \in 1..Len(s) + 1 /\ m \in 1..Len(t) + 1 /\ m <= Len(s) /\ m <= Len(t)
  BY <1>1
<1>4. Decides(c, s, t, m) /\ Decided(c, s, t, m) = -1
  BY <1>2, <1>3 DEF Decides, Decided
<1>5. QED
  BY <1>4, LexIs

\* Of two names that are no identifiers, nor have one, and are the same up to
\* where they have different numbers, that with the smaller number is less.
LEMMA SmallerNumberIsLess ==
  ASSUME NEW l \in Texts, NEW r \in Texts, SmallerNumber(l, r),
         \A i, j \in DOMAIN l : ~is_hex_identifier(SubSeq(l, i, j)),
         \A i, j \in DOMAIN r : ~is_hex_identifier(SubSeq(r, i, j))
  PROVE  iface_cmp(l, r) = -1
<1>1. Len(l) \in Nat /\ Len(r) \in Nat
  BY DEF Texts
<1>2. PICK w : w = Min({Len(l), Len(r)})
  OBVIOUS
<1>3. w \in Nat /\ w <= Len(l) /\ w <= Len(r)
  BY <1>1, <1>2, MinIs, {Len(l), Len(r)} # {}, {Len(l), Len(r)} \in SUBSET Nat
<1>4. PICK i \in 1..w :
        /\ l[i] \in Digit /\ r[i] \in Digit
        /\ i > 1 => l[i - 1] \notin Digit
        /\ SubSeq(l, 1, i - 1) = SubSeq(r, 1, i - 1)
        /\ NumberOf(SubSeq(l, i, RunEnd(l, i, Digit) - 1)) < NumberOf(SubSeq(r, i, RunEnd(r, i, Digit) - 1))
  BY <1>2 DEF SmallerNumber
<1>5. i \in 1..Len(l) /\ i \in 1..Len(r) /\ i \in Nat
  BY <1>1, <1>3
<1>6. ASSUME NEW k \in 1..i - 1 PROVE l[k] = r[k]
  <2>1. 1 \in 1..Len(l) /\ 1 \in 1..Len(r) /\ i - 1 \in 1..Len(l) /\ i - 1 \in 1..Len(r) /\ k \in 1..i - 1 - 1 + 1 /\ 1 + k - 1 = k
    BY <1>1, <1>5
  <2>2. SubSeq(l, 1, i - 1)[k] = l[1 + k - 1] /\ SubSeq(r, 1, i - 1)[k] = r[1 + k - 1]
    BY <2>1, PartIs
  <2>3. QED
    BY <1>4, <2>1, <2>2
<1>7. Begins(l, i)
  BY <1>4, <1>5 DEF Begins
<1>8. Begins(r, i)
  <2>1. ASSUME i > 1 PROVE r[i - 1] \notin Digit
    <3>1. i - 1 \in 1..i - 1
      BY <1>5, <2>1
    <3>2. QED
      BY <1>4, <1>6, <2>1, <3>1
  <2>2. QED
    BY <1>4, <1>5, <2>1 DEF Begins
<1>9. PICK K, a, p, q, M, u, v : SamePlace(l, r, i, K, a, p, q, M, u, v)
  BY <1>6, <1>7, <1>8, SamePlaces
<1>10. PICK x, y : x = SubSeq(l, a + 1, p) /\ y = SubSeq(r, a + 1, q)
  OBVIOUS
<1>11. /\ Part(l, r, Alphanumeric, K, i, a, p, q)
       /\ Part(x, y, Digit, M, i - a, i - a - 1, u, v)
  BY <1>9, <1>10 DEF SamePlace
<1>12. x \in Parts /\ a + 1 \in DOMAIN l /\ p \in DOMAIN l
  <2>1. PartOf(l, i, a, p, x)
    BY <1>5, <1>10, <1>11, InPart DEF Part
  <2>2. QED
    BY <2>1 DEF PartOf
<1>13. y \in Parts
  <2>1. PartOf(r, i, a, q, y)
    BY <1>5, <1>10, <1>11, InPart DEF Part
  <2>2. QED
    BY <2>1 DEF PartOf
<1>14. token_cmp(x, y) = -1
  <2>1. PICK s, t : s = Pieces(x, Digit) /\ t = Pieces(y, Digit)
    OBVIOUS
  <2>2. s \in Seq(Parts) /\ t \in Seq(Parts) /\ x \in Texts /\ y \in Texts
    BY <1>12, <1>13, <2>1, PiecesAre DEF Parts
  <2>3. M \in 1..Len(s) /\ M \in 1..Len(t) /\ \A k \in 1..M - 1 : s[k] = t[k]
    BY <1>11, <2>1 DEF Part, PieceAt
  <2>4. Token(l, i, K, a, p, M, u) /\ Token(r, i, K, a, q, M, v)
    BY <1>10, <1>11 DEF Token, Part
  <2>5. s[M] \in DigitRuns /\ s[M] = SubSeq(l, i, RunEnd(l, i, Digit) - 1)
    BY <1>4, <1>5, <1>10, <2>1, <2>4, RunOf
  <2>6. t[M] \in DigitRuns /\ t[M] = SubSeq(r, i, RunEnd(r, i, Digit) - 1)
    BY <1>4, <1>5, <1>10, <2>1, <2>4, RunOf
  <2>7. by_value(s[M], t[M]) = -1
    BY <1>4, <2>5, <2>6, ByNumber
  <2>8. s[M] \in Parts /\ t[M] \in Parts
    BY <2>5, <2>6, DigitRunIs
  <2>9. values[<<s[M], t[M]>>] = -1
    BY <2>7, <2>8 DEF values
  <2>10. LexF(values, s, t) = -1
    BY <2>2, <2>3, <2>9, SelfCompares, PieceDecides
  <2>11. QED
    BY <2>1, <2>2, <2>10, TokenIs
<1>15. TokenOrder(x, y) = -1
  <2>1. x[1] \in Alphanumeric /\ y[1] \in Alphanumeric
    <3>1. l[i] \in Alphanumeric /\ r[i] \in Alphanumeric
      BY <1>4 DEF Alphanumeric
    <3>2. (\A j \in a + 1..p : l[j] \in Alphanumeric) /\ (\A j \in a + 1..q : r[j] \in Alphanumeric)
      BY <1>5, <1>11, <3>1, PieceInClass DEF Part
    <3>3. a \in 0..i - 1 /\ p \in i..Len(l) /\ q \in i..Len(r)
      BY <1>11 DEF Part, PieceAt
    <3>4. a + 1 \in a + 1..p /\ a + 1 \in a + 1..q /\ a + 1 \in 1..Len(l) /\ a + 1 \in 1..Len(r) /\ p \in a + 1..Len(l) /\ q \in a + 1..Len(r)
      BY <1>1, <1>5, <3>3
    <3>5. x[1] = l[a + 1] /\ y[1] = r[a + 1]
      BY <1>10, <3>4, PartIs
    <3>6. QED
      BY <3>2, <3>4, <3>5
  <2>2. ~is_hex_identifier(x)
    BY <1>10, <1>12
  <2>3. QED
    BY <1>14, <2>1, <2>2 DEF TokenOrder
<1>16. ByTokens(l, r) = -1
  <2>1. PICK s, t : s = Pieces(l, Alphanumeric) /\ t = Pieces(r, Alphanumeric)
    OBVIOUS
  <2>2. s \in Seq(Parts) /\ t \in Seq(Parts)
    BY <2>1, PiecesAre
  <2>3. K \in 1..Len(s) /\ K \in 1..Len(t) /\ \A k \in 1..K - 1 : s[k] = t[k]
    BY <1>11, <2>1 DEF Part, PieceAt
  <2>4. s[K] = x /\ t[K] = y
    BY <1>10, <1>11, <2>1 DEF Part, PieceAt
  <2>5. orders[<<s[K], t[K]>>] = -1
    BY <1>12, <1>13, <1>15, <2>4 DEF orders
  <2>6. LexF(orders, s, t) = -1
    BY <2>2, <2>3, <2>5, SelfCompares, PieceDecides
  <2>7. QED
    BY <2>1, <2>6, ByTokensIs
<1>17. QED
  BY <1>16 DEF iface_cmp, then_with
=============================================================================
