-------------------------- MODULE QualityLoopProofs --------------------------
(***************************************************************************)
(* Proofs about QualityLoop: what is retrieved over the floor, what goes   *)
(* into the baseline, and which signals a window gives, for golden sets,   *)
(* grids, traffic and windows of any size.                                 *)
(*                                                                         *)
(* In order: products and the test of two proportions; counting in bags;   *)
(* retrieval; summaries; samples and the walk over two of them; the        *)
(* invariants of the loop; findings; theorems; the gate; the sweep.        *)
(***************************************************************************)
EXTENDS QualityLoop, FiniteSetTheorems, FunctionTheorems, SequenceTheorems,
        WellFoundedInduction, TLAPS

(* Products.                                                               *)

LEMMA TimesMonotone ==
    ASSUME NEW x \in Nat, NEW y \in Nat, NEW c \in Nat, x <= y
    PROVE  x * c <= y * c /\ x * c \in Nat /\ y * c \in Nat
<1>1. PICK k \in Nat : y = x + k
  <2>1. y - x \in Nat /\ y = x + (y - x)
    OBVIOUS
  <2> QED
    BY <2>1
<1>2. y * c = x * c + k * c /\ x * c \in Nat /\ k * c \in Nat
  BY <1>1
<1> QED
  BY <1>2

LEMMA TimesCancels ==
    ASSUME NEW x \in Nat, NEW y \in Nat, NEW c \in Nat \ {0}, x * c <= y * c
    PROVE  x <= y
<1> SUFFICES ASSUME y < x PROVE FALSE
  OBVIOUS
<1>1. PICK k \in Nat : x = y + (k + 1)
  <2>1. x - y - 1 \in Nat /\ x = y + ((x - y - 1) + 1)
    OBVIOUS
  <2> QED
    BY <2>1
<1>2. x * c = y * c + k * c + c /\ y * c \in Nat /\ k * c \in Nat
  BY <1>1
<1> QED
  BY <1>2

LEMMA Square == ASSUME NEW x \in Nat, NEW y \in Nat, x <= y PROVE x * x <= y * y
<1>1. x * x <= y * x /\ x * y <= y * y /\ x * y = y * x
  BY TimesMonotone
<1>2. x * x \in Nat /\ x * y \in Nat /\ y * y \in Nat
  OBVIOUS
<1> QED
  BY <1>1, <1>2

\* A fraction grows when its numerator gains at least what its denominator
\* gains: g * g / p against (g + d * m) * (g + d * m) / (p + d).
LEMMA GapOutgrows ==
    ASSUME NEW g \in Nat, NEW m \in Nat, NEW p \in Nat, NEW d \in Nat, g <= m * p
    PROVE  (g * g) * (p + d) <= ((g + d * m) * (g + d * m)) * p
<1>1. g * g <= (m * p) * g /\ g * g \in Nat /\ (m * p) * g \in Nat
  BY TimesMonotone
<1>2. (g * g) * d <= ((m * p) * g) * d
  BY <1>1, TimesMonotone
<1> DEFINE e == d * m
<1>3. ((m * p) * g) * d = (g * e) * p
  <2>1. (m * p) * g = (g * m) * p
    OBVIOUS
  <2>2. ((g * m) * p) * d = (g * (d * m)) * p
    OBVIOUS
  <2> QED
    BY <2>1, <2>2
<1>4. e \in Nat /\ g * e \in Nat /\ e * e \in Nat /\ (g * e) * p \in Nat /\ (e * e) * p \in Nat
  OBVIOUS
<1>5. (g + e) * (g + e) = g * g + g * e + g * e + e * e
  OBVIOUS
<1> HIDE DEF e
<1>6. (g * g + g * e + g * e + e * e) * p
        = (g * g) * p + (g * e) * p + (g * e) * p + (e * e) * p
  BY <1>1, <1>4
<1>7. (g * g) * (p + d) = (g * g) * p + (g * g) * d
  BY <1>1
<1>8. (g * g) * p \in Nat /\ (g * g) * d \in Nat
  BY <1>1
<1>9. (g * g) * (p + d) <= ((g + e) * (g + e)) * p
  BY <1>2, <1>3, <1>4, <1>5, <1>6, <1>7, <1>8
<1> QED
  BY <1>9 DEF e


LEMMA BarKept ==
    ASSUME NEW G \in Nat, NEW H \in Nat, NEW X \in Nat, NEW Y \in Nat,
           NEW p \in Nat \ {0}, NEW r \in Nat, NEW q \in Nat, NEW s \in Nat,
           G * r <= H * p, s <= q, (Y * p) * q <= G * X
    PROVE  (Y * r) * s <= H * X
<1>1. G * r \in Nat /\ H * p \in Nat /\ G * X \in Nat /\ H * X \in Nat
      /\ Y * p \in Nat /\ Y * r \in Nat /\ (Y * p) * q \in Nat /\ (Y * p) * s \in Nat
      /\ (Y * r) * s \in Nat
  OBVIOUS
<1>2. (G * r) * X <= (H * p) * X
  BY <1>1, TimesMonotone
<1>3. ((Y * p) * q) * r <= (G * X) * r
  BY <1>1, TimesMonotone
<1>4. (Y * p) * s <= (Y * p) * q
  <2>1. s * (Y * p) <= q * (Y * p)
    BY <1>1, TimesMonotone
  <2>2. s * (Y * p) = (Y * p) * s /\ q * (Y * p) = (Y * p) * q
    OBVIOUS
  <2> QED
    BY <2>1, <2>2
<1>5. ((Y * p) * s) * r <= ((Y * p) * q) * r
  BY <1>1, <1>4, TimesMonotone
<1>6. ((Y * p) * s) * r = ((Y * r) * s) * p
  <2>1. ((Y * p) * s) * r = ((p * Y) * s) * r /\ ((p * Y) * s) * r = p * ((Y * s) * r)
    OBVIOUS
  <2>2. ((Y * r) * s) * p = p * ((Y * s) * r)
    <3>1. (Y * r) * s = (Y * s) * r
      OBVIOUS
    <3> QED
      BY <3>1
  <2> QED
    BY <2>1, <2>2
<1>7. (G * X) * r = (G * r) * X /\ (H * p) * X = (H * X) * p
  OBVIOUS
<1>8. ((Y * r) * s) * p <= (H * X) * p
  <2>1. /\ ((Y * p) * s) * r \in Nat /\ ((Y * p) * q) * r \in Nat
        /\ (G * X) * r \in Nat /\ (H * p) * X \in Nat
    BY <1>1
  <2> QED
    BY <1>2, <1>3, <1>5, <1>6, <1>7, <2>1
<1> QED
  BY <1>1, <1>8, TimesCancels

-----------------------------------------------------------------------------
(* The test of two proportions.                                            *)

Bars == [num : Nat, den : Nat]

LEMMA TheBars == Z_WARN \in Bars /\ Z_ALERT \in Bars
  BY DEF Z_WARN, Z_ALERT, Bars

\* The products of the test, grouped.
LEMMA Grouped ==
    ASSUME NEW a \in Nat, NEW n \in Nat, NEW b \in Nat, NEW m \in Nat, NEW bar \in Bars,
           a <= n, b <= m
    PROVE  ProportionAtLeast(a, n, b, m, bar)
             <=> /\ n > 0 /\ m > 0
                 /\ a * m > b * n
                 /\ ((bar.num * n * m) * (a + b)) * (n + m - (a + b))
                      <= ((a * m - b * n) * (a * m - b * n)) * ((n + m) * bar.den)
<1> DEFINE g == a * m - b * n
           p == a + b
<1>1. bar.num \in Nat /\ bar.den \in Nat
  BY DEF Bars
<1>2. g \in Int /\ p \in Nat /\ n + m - p \in Nat /\ a * m \in Nat /\ b * n \in Nat
  OBVIOUS
<1>3. g > 0 <=> a * m > b * n
  BY <1>2
<1>4. ProportionAtLeast(a, n, b, m, bar)
        <=> /\ n > 0 /\ m > 0 /\ g > 0
            /\ g * g * (n + m) * bar.den >= bar.num * n * m * p * (n + m - p)
  BY DEF ProportionAtLeast
<1> HIDE DEF g, p
<1>5. g * g * (n + m) * bar.den = (g * g) * ((n + m) * bar.den)
  <2>1. g * g \in Int /\ n + m \in Int
    BY <1>2
  <2> DEFINE gg == g * g
             w == n + m
  <2> HIDE DEF gg, w
  <2>2. gg * w * bar.den = gg * (w * bar.den)
    BY <1>1, <2>1 DEF gg, w
  <2> QED
    BY <2>2 DEF gg, w
<1>6. bar.num * n * m * p * (n + m - p) = ((bar.num * n * m) * p) * (n + m - p)
  OBVIOUS
<1>7. /\ (g * g) * ((n + m) * bar.den) \in Int
      /\ ((bar.num * n * m) * p) * (n + m - p) \in Int
  BY <1>1, <1>2
<1>8. ProportionAtLeast(a, n, b, m, bar)
        <=> /\ n > 0 /\ m > 0
            /\ a * m > b * n
            /\ ((bar.num * n * m) * p) * (n + m - p) <= (g * g) * ((n + m) * bar.den)
  BY <1>3, <1>4, <1>5, <1>6, <1>7
<1> QED
  BY <1>8 DEF g, p

\* The test that fires for a count fires for a higher one.
LEMMA RateGrows ==
    ASSUME NEW a \in Nat, NEW n \in Nat, NEW b \in Nat, NEW m \in Nat, NEW d \in Nat,
           NEW bar \in Bars, a + d <= n, b <= m, ProportionAtLeast(a, n, b, m, bar)
    PROVE  ProportionAtLeast(a + d, n, b, m, bar)
<1> DEFINE g == a * m - b * n
           p == a + b
           q == n + m - (a + b)
           Y == bar.num * n * m
           X == (n + m) * bar.den
<1>1. bar.num \in Nat /\ bar.den \in Nat
  BY DEF Bars
<1>2. /\ n > 0 /\ m > 0 /\ a * m > b * n
      /\ (Y * p) * q <= (g * g) * X
  BY Grouped
<1>3. a * m \in Nat /\ b * n \in Nat /\ b * m \in Nat /\ d * m \in Nat
  OBVIOUS
<1>4. g \in Nat /\ g > 0 /\ g <= a * m
  BY <1>2, <1>3
<1>5. a > 0
  BY <1>2, <1>3
<1>6. p \in Nat \ {0} /\ q \in Nat /\ p + d \in Nat /\ n + m - ((a + d) + b) \in Nat
      /\ n + m - ((a + d) + b) <= q /\ (a + d) + b = p + d
  BY <1>5
<1>7. m * p = a * m + b * m
  OBVIOUS
<1>8. g <= m * p
  BY <1>3, <1>4, <1>7
<1>9. (a + d) * m = a * m + d * m
  OBVIOUS
<1>10. (a + d) * m - b * n = g + d * m /\ (a + d) * m > b * n
  BY <1>2, <1>3, <1>9
<1>11. Y \in Nat /\ X \in Nat
  BY <1>1
<1> HIDE DEF g, p, q, X, Y
<1>12. (g * g) * (p + d) <= ((g + d * m) * (g + d * m)) * p
  BY <1>4, <1>6, <1>8, GapOutgrows
<1>13. g * g \in Nat /\ (g + d * m) * (g + d * m) \in Nat
  BY <1>3, <1>4
<1>14. (Y * (p + d)) * (n + m - ((a + d) + b)) <= ((g + d * m) * (g + d * m)) * X
  BY <1>2, <1>6, <1>11, <1>12, <1>13, BarKept
<1>15. (Y * ((a + d) + b)) * (n + m - ((a + d) + b))
         <= (((a + d) * m - b * n) * ((a + d) * m - b * n)) * X
  BY <1>6, <1>10, <1>14
<1> QED
  BY <1>2, <1>10, <1>15, Grouped DEF X, Y

\* Counting the other queries of both samples gives the same test, with the
\* samples in each other's place.
LEMMA Complement ==
    ASSUME NEW a \in Nat, NEW n \in Nat, NEW b \in Nat, NEW m \in Nat, NEW bar \in Bars,
           a <= n, b <= m
    PROVE  ProportionAtLeast(a, n, b, m, bar)
             <=> ProportionAtLeast(m - b, m, n - a, n, bar)
<1>1. bar.num \in Nat /\ bar.den \in Nat
  BY DEF Bars
<1>2. m - b \in Nat /\ n - a \in Nat /\ m - b <= m /\ n - a <= n
  OBVIOUS
<1>3. a * m \in Nat /\ b * n \in Nat /\ m * n \in Nat /\ m * n = n * m
  OBVIOUS
<1>4. (m - b) * n = m * n - b * n /\ (n - a) * m = n * m - a * m
  OBVIOUS
<1>5. /\ (m - b) * n - (n - a) * m = a * m - b * n
      /\ (m - b) * n > (n - a) * m <=> a * m > b * n
  BY <1>3, <1>4
<1>6. /\ (m - b) + (n - a) = n + m - (a + b)
      /\ m + n - ((m - b) + (n - a)) = a + b
      /\ (m + n) * bar.den = (n + m) * bar.den
  BY <1>1
<1>7. bar.num * m * n = bar.num * n * m
  BY <1>1
<1>8. ((bar.num * n * m) * (n + m - (a + b))) * (a + b)
        = ((bar.num * n * m) * (a + b)) * (n + m - (a + b))
  <2> DEFINE Y == bar.num * n * m
             p == a + b
             q == n + m - p
  <2>1. Y \in Int /\ p \in Int /\ q \in Int
    BY <1>1
  <2> HIDE DEF Y, p, q
  <2>2. (Y * q) * p = (Y * p) * q
    BY <2>1
  <2> QED
    BY <2>2 DEF Y, p, q
<1>9. ((bar.num * m * n) * ((m - b) + (n - a))) * (m + n - ((m - b) + (n - a)))
        = ((bar.num * n * m) * (a + b)) * (n + m - (a + b))
  BY <1>6, <1>7, <1>8
<1>10. (((m - b) * n - (n - a) * m) * ((m - b) * n - (n - a) * m)) * ((m + n) * bar.den)
         = ((a * m - b * n) * (a * m - b * n)) * ((n + m) * bar.den)
  BY <1>5, <1>6
<1>11. ProportionAtLeast(m - b, m, n - a, n, bar)
         <=> /\ m > 0 /\ n > 0
             /\ (m - b) * n > (n - a) * m
             /\ ((bar.num * m * n) * ((m - b) + (n - a))) * (m + n - ((m - b) + (n - a)))
                  <= (((m - b) * n - (n - a) * m) * ((m - b) * n - (n - a) * m))
                       * ((m + n) * bar.den)
  BY <1>2, Grouped
<1>12. ProportionAtLeast(a, n, b, m, bar)
         <=> /\ n > 0 /\ m > 0
             /\ a * m > b * n
             /\ ((bar.num * n * m) * (a + b)) * (n + m - (a + b))
                  <= ((a * m - b * n) * (a * m - b * n)) * ((n + m) * bar.den)
  BY Grouped
<1> QED
  BY <1>5, <1>9, <1>10, <1>11, <1>12

\* The test that fires against a count fires against a lower one.
LEMMA RateAgainstLess ==
    ASSUME NEW a \in Nat, NEW n \in Nat, NEW b \in Nat, NEW m \in Nat, NEW d \in Nat,
           NEW bar \in Bars, a <= n, b + d <= m, ProportionAtLeast(a, n, b + d, m, bar)
    PROVE  ProportionAtLeast(a, n, b, m, bar)
<1>1. b + d \in Nat /\ n - a \in Nat /\ m - (b + d) \in Nat /\ n - a <= n
      /\ (m - (b + d)) + d = m - b /\ (m - (b + d)) + d <= m /\ b <= m
  OBVIOUS
<1>2. ProportionAtLeast(m - (b + d), m, n - a, n, bar)
  BY <1>1, Complement
<1>3. ProportionAtLeast((m - (b + d)) + d, m, n - a, n, bar)
  BY <1>1, <1>2, RateGrows
<1>4. ProportionAtLeast(m - b, m, n - a, n, bar)
  BY <1>1, <1>3
<1> QED
  BY <1>1, <1>4, Complement


-----------------------------------------------------------------------------
(* Counting the queries of a bag.                                          *)

FiniteBag(bag) == IsABag(bag) /\ IsFiniteSet(Queries(bag, DOMAIN bag))

LEMMA InQueries ==
    ASSUME NEW bag, NEW records, NEW q
    PROVE  q \in Queries(bag, records)
             <=> \E r \in records : \E i \in 1..bag[r] : q = <<r, i>>
  BY DEF Queries

LEMMA TallyFacts ==
    ASSUME NEW bag, FiniteBag(bag), NEW S, NEW T, S \subseteq T, T \subseteq DOMAIN bag
    PROVE  /\ IsFiniteSet(Queries(bag, S)) /\ IsFiniteSet(Queries(bag, T))
           /\ Tally(bag, S) \in Nat /\ Tally(bag, T) \in Nat
           /\ Tally(bag, S) <= Tally(bag, T)
<1>1. /\ Queries(bag, S) \subseteq Queries(bag, T)
      /\ Queries(bag, T) \subseteq Queries(bag, DOMAIN bag)
  BY DEF Queries
<1>2. IsFiniteSet(Queries(bag, T))
  BY <1>1, FS_Subset DEF FiniteBag
<1> QED
  BY <1>1, <1>2, FS_Subset, FS_CardinalityType DEF Tally

\* One more query counts once, among the records it belongs to.
LEMMA QueryAdded ==
    ASSUME NEW bag, FiniteBag(bag), NEW r, NEW new, new = bag (+) SetToBag({r}), NEW T
    PROVE  /\ FiniteBag(new) /\ DOMAIN new = DOMAIN bag \cup {r}
           /\ Tally(new, T \cap DOMAIN new)
                = Tally(bag, T \cap DOMAIN bag) + (IF r \in T THEN 1 ELSE 0)
<1> DEFINE c == IF r \in DOMAIN bag THEN bag[r] ELSE 0
           D == DOMAIN new
<1>1. /\ DOMAIN new = DOMAIN bag \cup {r}
      /\ \A x \in D : new[x] = IF x = r THEN c + 1 ELSE bag[x]
      /\ c \in Nat
      /\ \A x \in DOMAIN bag : bag[x] \in Nat \ {0}
  <2>1. \A x \in DOMAIN bag : bag[x] \in Nat \ {0}
    BY DEF FiniteBag, IsABag
  <2>2. new = [x \in DOMAIN bag \cup {r} |->
                  (IF x \in DOMAIN bag THEN bag[x] ELSE 0) + (IF x \in {r} THEN 1 ELSE 0)]
    BY DEF (+), SetToBag
  <2>3. DOMAIN new = DOMAIN bag \cup {r} /\ c \in Nat
    BY <2>1, <2>2
  <2>4. ASSUME NEW x \in D PROVE new[x] = IF x = r THEN c + 1 ELSE bag[x]
    <3>1. new[x] = (IF x \in DOMAIN bag THEN bag[x] ELSE 0) + (IF x \in {r} THEN 1 ELSE 0)
      BY <2>2
    <3>2. CASE x = r
      BY <3>1, <3>2
    <3>3. CASE x # r
      <4>1. x \in DOMAIN bag /\ bag[x] \in Nat
        BY <2>1, <2>3, <3>3
      <4> QED
        BY <3>1, <3>3, <4>1
    <3> QED
      BY <3>2, <3>3
  <2> QED
    BY <2>1, <2>3, <2>4
<1>2. IsABag(new)
  <2>1. \A x \in D : new[x] \in {n \in Nat : n > 0}
    BY <1>1
  <2>2. new = [x \in D |-> new[x]]
    BY DEF (+)
  <2> QED
    BY <2>1, <2>2 DEF IsABag
<1>c. c = IF r \in DOMAIN bag THEN bag[r] ELSE 0
  OBVIOUS
<1> HIDE DEF c, D
<1>d. D = DOMAIN bag \cup {r}
  BY <1>1 DEF D
<1>3. ASSUME NEW R
      PROVE  Queries(new, R \cap D)
               = Queries(bag, R \cap DOMAIN bag) \cup (IF r \in R THEN {<<r, c + 1>>} ELSE {})
  <2>1. ASSUME NEW q \in Queries(new, R \cap D)
        PROVE  q \in Queries(bag, R \cap DOMAIN bag) \cup (IF r \in R THEN {<<r, c + 1>>} ELSE {})
    <3>1. PICK x \in R \cap D : \E i \in 1..new[x] : q = <<x, i>>
      BY <2>1, InQueries
    <3>2. PICK i \in 1..new[x] : q = <<x, i>>
      BY <3>1
    <3>3. CASE x = r /\ i = c + 1
      BY <3>1, <3>2, <3>3
    <3>4. CASE ~(x = r /\ i = c + 1)
      <4>1. x \in DOMAIN bag /\ i \in 1..bag[x]
        BY <1>1, <1>c, <1>d, <3>1, <3>2, <3>4
      <4> QED
        BY <3>1, <3>2, <4>1, InQueries
    <3> QED
      BY <3>3, <3>4
  <2>2. ASSUME NEW q \in Queries(bag, R \cap DOMAIN bag)
        PROVE  q \in Queries(new, R \cap D)
    <3>1. PICK x \in R \cap DOMAIN bag : \E i \in 1..bag[x] : q = <<x, i>>
      BY <2>2, InQueries
    <3>2. PICK i \in 1..bag[x] : q = <<x, i>>
      BY <3>1
    <3>3. x \in R \cap D /\ i \in 1..new[x]
      BY <1>1, <1>c, <1>d, <3>1, <3>2
    <3> QED
      BY <3>2, <3>3, InQueries
  <2>3. ASSUME r \in R PROVE <<r, c + 1>> \in Queries(new, R \cap D)
    <3>1. r \in R \cap D /\ c + 1 \in 1..new[r]
      BY <1>1, <1>d, <2>3
    <3> QED
      BY <3>1, InQueries
  <2> QED
    BY <2>1, <2>2, <2>3
<1>4. ASSUME NEW R PROVE <<r, c + 1>> \notin Queries(bag, R \cap DOMAIN bag)
  <2> SUFFICES ASSUME NEW x \in R \cap DOMAIN bag, NEW i \in 1..bag[x], <<r, c + 1>> = <<x, i>>
               PROVE  FALSE
    BY InQueries
  <2>1. r = x /\ c + 1 = i
    OBVIOUS
  <2> QED
    BY <1>1, <1>c, <2>1
<1>5. ASSUME NEW R
      PROVE  /\ IsFiniteSet(Queries(new, R \cap D))
             /\ Tally(new, R \cap D)
                  = Tally(bag, R \cap DOMAIN bag) + (IF r \in R THEN 1 ELSE 0)
  <2>1. IsFiniteSet(Queries(bag, R \cap DOMAIN bag)) /\ Tally(bag, R \cap DOMAIN bag) \in Nat
    BY TallyFacts
  <2>2. CASE r \in R
    <3> DEFINE S == Queries(bag, R \cap DOMAIN bag)
    <3>1. Queries(new, R \cap D) = S \cup {<<r, c + 1>>} /\ <<r, c + 1>> \notin S
      BY <1>3, <1>4, <2>2
    <3>2. IsFiniteSet(S) /\ Cardinality(S) = Tally(bag, R \cap DOMAIN bag)
      BY <2>1 DEF Tally
    <3> HIDE DEF S
    <3>3. /\ IsFiniteSet(S \cup {<<r, c + 1>>})
          /\ Cardinality(S \cup {<<r, c + 1>>}) = Cardinality(S) + 1
      BY <3>1, <3>2, FS_AddElement
    <3> QED
      BY <2>2, <3>1, <3>2, <3>3 DEF Tally
  <2>3. CASE r \notin R
    <3>1. Queries(new, R \cap D) = Queries(bag, R \cap DOMAIN bag)
      BY <1>3, <2>3
    <3> QED
      BY <2>1, <2>3, <3>1 DEF Tally
  <2> QED
    BY <2>2, <2>3
<1>6. IsFiniteSet(Queries(new, DOMAIN new))
  <2>1. IsFiniteSet(Queries(new, D \cap D))
    BY <1>5
  <2>2. D \cap D = DOMAIN new
    BY DEF D
  <2> QED
    BY <2>1, <2>2
<1> QED
  BY <1>1, <1>2, <1>5, <1>6 DEF FiniteBag, D

LEMMA TotalAdded ==
    ASSUME NEW bag, FiniteBag(bag), NEW r, NEW new, new = bag (+) SetToBag({r})
    PROVE  Total(new) = Total(bag) + 1
<1>1. DOMAIN new = DOMAIN bag \cup {r}
  BY QueryAdded
<1>2. ASSUME NEW S, r \in S
      PROVE  Tally(new, S \cap DOMAIN new) = Tally(bag, S \cap DOMAIN bag) + 1
  BY <1>2, QueryAdded
<1>3. Tally(new, DOMAIN new \cap DOMAIN new) = Tally(bag, DOMAIN new \cap DOMAIN bag) + 1
  BY <1>1, <1>2
<1>4. DOMAIN new \cap DOMAIN new = DOMAIN new /\ DOMAIN new \cap DOMAIN bag = DOMAIN bag
  BY <1>1
<1> QED
  BY <1>3, <1>4 DEF Total

\* One query less.
LEMMA QueryRemoved ==
    ASSUME NEW bag, FiniteBag(bag), NEW r \in DOMAIN bag,
           NEW new, new = bag (-) SetToBag({r}), NEW T
    PROVE  /\ FiniteBag(new) /\ DOMAIN new \subseteq DOMAIN bag
           /\ Tally(bag, T \cap DOMAIN bag)
                = Tally(new, T \cap DOMAIN new) + (IF r \in T THEN 1 ELSE 0)
<1> DEFINE D == DOMAIN bag
           E == DOMAIN new
<1>1. \A x \in D : bag[x] \in Nat \ {0}
  BY DEF FiniteBag, IsABag
<1>2. /\ E = {x \in D : x = r => bag[r] > 1}
      /\ \A x \in E : new[x] = IF x = r THEN bag[r] - 1 ELSE bag[x]
      /\ new = [x \in E |-> new[x]]
  <2> DEFINE B == [x \in D |-> IF x \in {r} THEN bag[x] - SetToBag({r})[x] ELSE bag[x]]
  <2>1. new = [x \in {d \in DOMAIN B : B[d] > 0} |-> B[x]]
    BY DEF (-), SetToBag
  <2>2. DOMAIN B = D /\ \A x \in D : B[x] = IF x = r THEN bag[r] - 1 ELSE bag[x]
    BY DEF SetToBag
  <2> HIDE DEF B
  <2> QED
    BY <1>1, <2>1, <2>2
<1> HIDE DEF E
<1>3. \A x \in E : new[x] \in Nat \ {0}
  BY <1>1, <1>2
<1>4. IsABag(new)
  <2>1. \A x \in E : new[x] \in {n \in Nat : n > 0}
    BY <1>3
  <2> QED
    BY <1>2, <2>1 DEF IsABag, E
<1>5. ASSUME NEW R
      PROVE  Queries(new, R \cap E) = Queries(bag, R \cap D) \ {<<r, bag[r]>>}
  <2>1. ASSUME NEW q \in Queries(new, R \cap E)
        PROVE  q \in Queries(bag, R \cap D) /\ q # <<r, bag[r]>>
    <3>1. PICK x \in R \cap E : \E i \in 1..new[x] : q = <<x, i>>
      BY <2>1, InQueries
    <3>2. PICK i \in 1..new[x] : q = <<x, i>>
      BY <3>1
    <3>3. x \in R \cap D /\ i \in 1..bag[x] /\ ~(x = r /\ i = bag[r])
      BY <1>1, <1>2, <3>1, <3>2
    <3>4. q \in Queries(bag, R \cap D)
      BY <3>2, <3>3, InQueries
    <3>5. q # <<r, bag[r]>>
      BY <3>2, <3>3
    <3> QED
      BY <3>4, <3>5
  <2>2. ASSUME NEW q \in Queries(bag, R \cap D), q # <<r, bag[r]>>
        PROVE  q \in Queries(new, R \cap E)
    <3>1. PICK x \in R \cap D : \E i \in 1..bag[x] : q = <<x, i>>
      BY <2>2, InQueries
    <3>2. PICK i \in 1..bag[x] : q = <<x, i>>
      BY <3>1
    <3>3. ~(x = r /\ i = bag[r])
      BY <2>2, <3>2
    <3>4. x \in R \cap E /\ i \in 1..new[x]
      BY <1>1, <1>2, <3>1, <3>2, <3>3
    <3> QED
      BY <3>2, <3>4, InQueries
  <2> QED
    BY <2>1, <2>2
<1>6. ASSUME NEW R
      PROVE  <<r, bag[r]>> \in Queries(bag, R \cap D) <=> r \in R
  <2>1. ASSUME r \in R PROVE <<r, bag[r]>> \in Queries(bag, R \cap D)
    <3>1. r \in R \cap D /\ bag[r] \in 1..bag[r]
      BY <1>1, <2>1
    <3> QED
      BY <3>1, InQueries
  <2>2. ASSUME <<r, bag[r]>> \in Queries(bag, R \cap D) PROVE r \in R
    <3>1. PICK x \in R \cap D : \E i \in 1..bag[x] : <<r, bag[r]>> = <<x, i>>
      BY <2>2, InQueries
    <3> QED
      BY <3>1
  <2> QED
    BY <2>1, <2>2
<1>7. ASSUME NEW R
      PROVE  /\ IsFiniteSet(Queries(new, R \cap E))
             /\ Tally(bag, R \cap D)
                  = Tally(new, R \cap E) + (IF r \in R THEN 1 ELSE 0)
  <2>1. IsFiniteSet(Queries(bag, R \cap D)) /\ Tally(bag, R \cap D) \in Nat
    BY TallyFacts
  <2> DEFINE S == Queries(bag, R \cap D)
  <2> HIDE DEF S
  <2>2. IsFiniteSet(S \ {<<r, bag[r]>>})
        /\ Cardinality(S \ {<<r, bag[r]>>})
             = IF <<r, bag[r]>> \in S THEN Cardinality(S) - 1 ELSE Cardinality(S)
    BY <2>1, FS_RemoveElement DEF S
  <2>3. Queries(new, R \cap E) = S \ {<<r, bag[r]>>}
        /\ (<<r, bag[r]>> \in S <=> r \in R)
    BY <1>5, <1>6 DEF S
  <2>4. Cardinality(S) = Tally(bag, R \cap D)
    BY DEF S, Tally
  <2>5. Tally(new, R \cap E) = Cardinality(S \ {<<r, bag[r]>>})
    BY <2>3 DEF Tally
  <2>6. IsFiniteSet(Queries(new, R \cap E))
    BY <2>2, <2>3
  <2> HIDE DEF D
  <2>7. CASE r \in R
    BY <2>1, <2>2, <2>3, <2>4, <2>5, <2>6, <2>7
  <2>8. CASE r \notin R
    BY <2>1, <2>2, <2>3, <2>4, <2>5, <2>6, <2>8
  <2> QED
    BY <2>7, <2>8
<1>8. IsFiniteSet(Queries(new, DOMAIN new))
  <2>1. IsFiniteSet(Queries(new, E \cap E)) /\ E \cap E = DOMAIN new
    BY <1>7 DEF E
  <2> QED
    BY <2>1
<1> QED
  BY <1>2, <1>4, <1>7, <1>8 DEF FiniteBag, E


\* The bag of the records of some cases counts every case once: its queries
\* and the cases can be paired.
LEMMA RecordsCounted ==
    ASSUME NEW scored, IsFiniteSet(scored), NEW scores
    PROVE  /\ FiniteBag(RecordsOf(scored, scores))
           /\ DOMAIN RecordsOf(scored, scores) = {scores[c].record : c \in scored}
           /\ Total(RecordsOf(scored, scores)) = Cardinality(scored)
<1> DEFINE bag == RecordsOf(scored, scores)
           D == {scores[c].record : c \in scored}
           Fiber(r) == {c \in scored : scores[c].record = r}
           F == [r \in D |-> CHOOSE f : f \in Bijection(1..Cardinality(Fiber(r)), Fiber(r))]
           Q == Queries(bag, D)
           G == [q \in Q |-> F[q[1]][q[2]]]
<1>1. DOMAIN bag = D /\ \A r \in D : bag[r] = Cardinality(Fiber(r))
  BY DEF RecordsOf
<1>2. bag = [r \in D |-> bag[r]]
  BY DEF RecordsOf
<1>3. ASSUME NEW r \in D
      PROVE  /\ bag[r] \in Nat \ {0}
             /\ F[r] \in [1..bag[r] -> Fiber(r)]
             /\ \A i, j \in 1..bag[r] : F[r][i] = F[r][j] => i = j
             /\ \A c \in Fiber(r) : \E i \in 1..bag[r] : F[r][i] = c
  <2>1. IsFiniteSet(Fiber(r)) /\ Fiber(r) # {}
    BY FS_Subset
  <2>2. Cardinality(Fiber(r)) \in Nat \ {0} /\ ExistsBijection(1..Cardinality(Fiber(r)), Fiber(r))
    BY <2>1, FS_CardinalityType, FS_EmptySet
  <2>3. \E f : f \in Bijection(1..Cardinality(Fiber(r)), Fiber(r))
    BY <2>2 DEF ExistsBijection
  <2>4. F[r] = CHOOSE f : f \in Bijection(1..Cardinality(Fiber(r)), Fiber(r))
    BY <1>3
  <2> HIDE DEF F, Fiber
  <2>5. F[r] \in Bijection(1..Cardinality(Fiber(r)), Fiber(r))
    BY <2>3, <2>4
  <2>6. bag[r] = Cardinality(Fiber(r))
    BY <1>1, <1>3 DEF Fiber
  <2>7. F[r] \in Bijection(1..bag[r], Fiber(r))
    BY <2>5, <2>6
  <2> QED
    BY <2>2, <2>6, <2>7, Fun_BijectionProperties
<1>f. \A r, c : c \in Fiber(r) <=> c \in scored /\ scores[c].record = r
  OBVIOUS
<1> HIDE DEF F, D, bag, Fiber
<1>4. IsABag(bag)
  <2>1. \A r \in D : bag[r] \in {n \in Nat : n > 0}
    BY <1>3
  <2> QED
    BY <1>1, <1>2, <2>1 DEF IsABag
<1>5. ASSUME NEW q \in Q
      PROVE  q[1] \in D /\ q[2] \in 1..bag[q[1]] /\ q = <<q[1], q[2]>>
  <2>1. PICK r \in D : \E i \in 1..bag[r] : q = <<r, i>>
    BY InQueries
  <2> QED
    BY <2>1
<1>6. ASSUME NEW q \in Q
      PROVE  F[q[1]][q[2]] \in scored /\ scores[F[q[1]][q[2]]].record = q[1]
  <2>1. F[q[1]] \in [1..bag[q[1]] -> Fiber(q[1])]
    BY <1>3, <1>5
  <2>2. F[q[1]][q[2]] \in Fiber(q[1])
    BY <1>5, <2>1
  <2> QED
    BY <1>f, <2>2
<1>7. G \in [Q -> scored]
  BY <1>6
<1>8. ASSUME NEW q \in Q, NEW r \in Q, G[q] = G[r] PROVE q = r
  <2>1. F[q[1]][q[2]] = F[r[1]][r[2]]
    BY <1>8
  <2>2. q[1] = r[1]
    BY <1>6, <2>1
  <2>3. \A i, j \in 1..bag[q[1]] : F[q[1]][i] = F[q[1]][j] => i = j
    BY <1>3, <1>5
  <2>4. q[2] \in 1..bag[q[1]] /\ r[2] \in 1..bag[q[1]]
    BY <1>5, <2>2
  <2>5. q[2] = r[2]
    BY <2>1, <2>2, <2>3, <2>4
  <2> QED
    BY <1>5, <2>2, <2>5
<1>9. ASSUME NEW c \in scored PROVE \E q \in Q : G[q] = c
  <2> DEFINE r == scores[c].record
  <2>1. r \in D /\ c \in Fiber(r)
    BY <1>f DEF D
  <2>2. PICK i \in 1..bag[r] : F[r][i] = c
    BY <1>3, <2>1
  <2>3. <<r, i>> \in Q
    BY <2>1, InQueries
  <2>4. G[<<r, i>>] = c
    BY <2>2, <2>3
  <2> QED
    BY <2>3, <2>4
<1> HIDE DEF G, Q
<1>10. G \in Injection(Q, scored) /\ G \in Surjection(Q, scored)
  BY <1>7, <1>8, <1>9, Fun_IsInj, Fun_IsSurj
<1>11. IsFiniteSet(Q) /\ Cardinality(Q) = Cardinality(scored)
  BY <1>10, FS_Injection
<1> QED
  BY <1>1, <1>4, <1>11 DEF FiniteBag, Total, Tally, Q, bag, D

-----------------------------------------------------------------------------
(* Retrieval.                                                              *)

Settings == ConfigOf(DOMAIN Ranked, Nat, Nat \ {0}, Nat)

\* What is over the floor is found, though the bar of the best hit may be
\* higher: the best hit itself is over both.
LEMMA SearchFacts ==
    ASSUME NEW config \in Settings, NEW question \in DOMAIN Ranked[config.size]
    PROVE  /\ Len(Retrieve(question, config)) \in Nat
           /\ Len(Retrieve(question, config)) = 0 <=> Retrieve(question, config) = <<>>
           /\ Retrieve(question, config) = <<>>
                <=> \A c \in Range(Ranked[config.size][question]) : c.sim < config.floor
           /\ Retrieve(question, config) # <<>> => Retrieve(question, config)[1].sim \in Int
<1> DEFINE ranked == Ranked[config.size][question]
           R == Range(ranked)
           m == IF config.top_k < Len(ranked) THEN config.top_k ELSE Len(ranked)
           nearest == SubSeq(ranked, 1, m)
           bar == Threshold(nearest, config.floor)
           kept == {i \in DOMAIN nearest : 100 * nearest[i].sim >= bar}
           hits == SubSeq(nearest, 1, Cardinality(kept))
<1>1. /\ config.size \in DOMAIN Ranked /\ config.top_k \in Nat \ {0} /\ config.floor \in Nat
      /\ RATIO \in 0..100
  BY RetrievalAssumption DEF Settings, ConfigOf
<1>2. /\ ranked \in Seq(R)
      /\ \A i, j \in DOMAIN ranked :
            ranked[i].sim \in Int /\ (i <= j => ranked[i].sim >= ranked[j].sim)
  BY <1>1, RankedAssumption
<1>3. Retrieve(question, config) = hits
  BY DEF Retrieve, Search
<1> HIDE DEF ranked, R
<1>4. /\ Len(ranked) \in Nat /\ DOMAIN ranked = 1..Len(ranked)
      /\ m \in 0..Len(ranked) /\ (Len(ranked) # 0 => m # 0)
  BY <1>1, <1>2, LenProperties
<1>5. /\ nearest \in Seq(R) /\ Len(nearest) = m /\ DOMAIN nearest = 1..m
      /\ \A i \in 1..m : nearest[i] = ranked[i] /\ i \in DOMAIN ranked
  <2> HIDE DEF m
  <2>1. m \in Nat /\ m <= Len(ranked)
    BY <1>4
  <2>2. \A i \in 1..m : ranked[i] \in R
    BY <1>2, <1>4, <2>1, ElementOfSeq
  <2>3. /\ nearest \in Seq(R) /\ Len(nearest) = m
        /\ \A i \in 1..m : nearest[i] = ranked[i]
    BY <1>2, <2>1, <2>2
  <2> HIDE DEF nearest
  <2>4. DOMAIN nearest = 1..m
    BY <2>3, LenProperties
  <2> QED
    BY <1>4, <2>1, <2>3, <2>4
<1> HIDE DEF m, nearest
<1>6. /\ IsFiniteSet(kept) /\ Cardinality(kept) \in 0..m
      /\ Cardinality(kept) = 0 <=> kept = {}
  <2>1. IsFiniteSet(1..m) /\ Cardinality(1..m) = m /\ kept \in SUBSET (1..m)
    <3>1. m \in Nat /\ kept \in SUBSET (1..m)
      BY <1>4, <1>5
    <3>2. IsFiniteSet(1..m) /\ Cardinality(1..m) = IF 1 > m THEN 0 ELSE m - 1 + 1
      BY <3>1, FS_Interval
    <3> HIDE DEF kept
    <3> QED
      BY <3>1, <3>2
  <2> HIDE DEF kept
  <2>2. IsFiniteSet(kept) /\ Cardinality(kept) <= m /\ Cardinality(kept) \in Nat
    BY <2>1, FS_Subset, FS_CardinalityType
  <2> QED
    BY <1>4, <2>2, FS_EmptySet
<1>7. /\ Len(hits) = Cardinality(kept)
      /\ hits = <<>> <=> Cardinality(kept) = 0
      /\ hits # <<>> => hits[1] = nearest[1] /\ 1 \in 1..m
  <2> DEFINE n == Cardinality(kept)
  <2>1. n \in 0..m /\ m \in Nat
    BY <1>4, <1>6
  <2> HIDE DEF kept, n
  <2>2. \A i \in 1..n : nearest[i] \in R
    BY <1>5, <2>1, ElementOfSeq
  <2>3. hits \in Seq(R) /\ Len(hits) = n /\ \A i \in 1..n : hits[i] = nearest[i]
    BY <1>5, <2>1, <2>2 DEF n
  <2> HIDE DEF hits
  <2> QED
    BY <2>1, <2>3, EmptySeq DEF n
<1>8. ASSUME NEW c \in R, c.sim >= config.floor PROVE kept # {}
  <2>1. PICK j \in DOMAIN ranked : c = ranked[j]
    BY DEF R, Range
  <2>2. 1 \in DOMAIN ranked /\ m >= 1 /\ 1 <= j
    BY <1>4, <2>1
  <2>3. ranked[1].sim \in Int /\ ranked[1].sim >= config.floor /\ c.sim \in Int
    BY <1>1, <1>2, <1>8, <2>1, <2>2
  <2>4. nearest[1] = ranked[1] /\ 1 \in DOMAIN nearest
    BY <1>4, <1>5, <2>2
  <2> DEFINE sim == ranked[1].sim
  <2>5. RATIO * sim <= 100 * sim /\ RATIO * sim \in Int
    <3>1. sim \in Nat /\ RATIO \in Nat /\ RATIO <= 100
      BY <1>1, <2>3
    <3> HIDE DEF sim
    <3> QED
      BY <3>1, TimesMonotone
  <2>6. bar <= 100 * sim
    BY <1>1, <2>3, <2>4, <2>5 DEF Threshold
  <2>7. 1 \in kept
    <3>1. 100 * nearest[1].sim = 100 * sim
      BY <2>4
    <3>2. bar \in Int
      BY <1>1, <2>4, <2>5 DEF Threshold
    <3> HIDE DEF bar
    <3> QED
      BY <2>3, <2>4, <2>6, <3>1, <3>2
  <2> QED
    BY <2>7
<1>9. ASSUME NEW i \in kept PROVE ~(\A c \in R : c.sim < config.floor)
  <2>1. i \in 1..m /\ 100 * ranked[i].sim >= bar /\ i \in DOMAIN ranked
        /\ ranked[i].sim \in Int
    BY <1>2, <1>5
  <2>2. ranked[i] \in R
    BY <2>1 DEF R, Range
  <2>3. bar \in Int /\ (nearest # <<>> => RATIO * nearest[1].sim \in Int)
    <3>1. nearest # <<>> => nearest[1].sim \in Int
      BY <1>2, <1>4, <1>5, <2>1
    <3>2. nearest # <<>> => RATIO * nearest[1].sim \in Int
      BY <1>1, <3>1
    <3> QED
      BY <1>1, <3>2 DEF Threshold
  <2>4. bar >= config.floor * 100
    <3>1. CASE RATIO > 0 /\ nearest # <<>> /\ RATIO * nearest[1].sim > config.floor * 100
      BY <1>1, <2>3, <3>1 DEF Threshold
    <3>2. CASE ~(RATIO > 0 /\ nearest # <<>> /\ RATIO * nearest[1].sim > config.floor * 100)
      BY <1>1, <2>3, <3>2 DEF Threshold
    <3> QED
      BY <3>1, <3>2
  <2> HIDE DEF bar
  <2>5. ranked[i].sim >= config.floor
    BY <1>1, <2>1, <2>3, <2>4
  <2> QED
    BY <1>1, <2>1, <2>2, <2>5
<1>s. hits # <<>> => hits[1].sim \in Int
  BY <1>2, <1>5, <1>7
<1>10. kept = {} <=> \A c \in R : c.sim < config.floor
  <2>1. \A c \in R : c.sim \in Int
    BY <1>2 DEF R, Range
  <2> QED
    BY <1>1, <1>8, <1>9, <2>1
<1> HIDE DEF hits, kept
<1>11. /\ Len(hits) \in Nat /\ (Len(hits) = 0 <=> hits = <<>>)
       /\ hits = <<>> <=> \A c \in R : c.sim < config.floor
  BY <1>6, <1>7, <1>10
<1> QED
  BY <1>3, <1>s, <1>11 DEF R, ranked

\* A record measures what was retrieved, if anything was.
LEMMA RecordFacts ==
    ASSUME NEW config \in Settings, NEW question \in DOMAIN Ranked[config.size],
           NEW answer, NEW r, r = QueryRecord(Retrieve(question, config), answer)
    PROVE  r.top_similarity \in Int /\ r.retrieved_chunks \in Nat
<1> DEFINE hits == Retrieve(question, config)
<1>1. Len(hits) \in Nat /\ (hits # <<>> => hits[1].sim \in Int)
  BY SearchFacts
<1> HIDE DEF hits
<1>2. /\ r.top_similarity = IF hits = <<>> THEN 0 ELSE hits[1].sim
      /\ r.retrieved_chunks = Len(hits)
  BY DEF QueryRecord, hits
<1> QED
  BY <1>1, <1>2


-----------------------------------------------------------------------------
(* Summaries.                                                              *)

Refused(bag) == {r \in DOMAIN bag : r.refused}
Ungrounded(bag) == {r \in DOMAIN bag : r.retrieved_chunks = 0}

LEMMA SummaryCounts ==
    ASSUME NEW bag
    PROVE  /\ Summarise(bag).n = Total(bag)
           /\ Summarise(bag).refused = Tally(bag, Refused(bag))
           /\ Summarise(bag).ungrounded = Tally(bag, Ungrounded(bag))
  BY DEF Summarise, Refused, Ungrounded

LEMMA SummaryBounds ==
    ASSUME NEW bag, FiniteBag(bag)
    PROVE  /\ Summarise(bag).n \in Nat
           /\ Summarise(bag).refused \in 0..Summarise(bag).n
           /\ Summarise(bag).ungrounded \in 0..Summarise(bag).n
<1>1. /\ Refused(bag) \subseteq DOMAIN bag
      /\ Ungrounded(bag) \subseteq DOMAIN bag
  BY DEF Refused, Ungrounded
<1>2. /\ Tally(bag, Refused(bag)) \in Nat /\ Total(bag) \in Nat
      /\ Tally(bag, Refused(bag)) <= Total(bag)
  BY <1>1, TallyFacts DEF Total
<1>3. /\ Tally(bag, Ungrounded(bag)) \in Nat
      /\ Tally(bag, Ungrounded(bag)) <= Total(bag)
  BY <1>1, TallyFacts DEF Total
<1> QED
  BY <1>2, <1>3, SummaryCounts

\* The records of the cases of the golden set that were scored.
LEMMA BaselineCounts ==
    ASSUME NEW scored, IsFiniteSet(scored), scored # {}, NEW scores,
           \A c \in scored : scores[c].record.retrieved_chunks = 0 => scores[c].record.refused
    PROVE  LET b == Summarise(RecordsOf(scored, scores))
           IN  /\ b.n \in Nat \ {0} /\ b.n = Cardinality(scored)
               /\ b.refused \in Nat /\ b.ungrounded \in Nat
               /\ b.ungrounded <= b.refused /\ b.refused <= b.n
<1> DEFINE bag == RecordsOf(scored, scores)
<1>1. /\ FiniteBag(bag)
      /\ DOMAIN bag = {scores[c].record : c \in scored}
      /\ Total(bag) = Cardinality(scored)
  BY RecordsCounted
<1> HIDE DEF bag
<1>2. Cardinality(scored) \in Nat \ {0}
  BY FS_CardinalityType, FS_EmptySet
<1>3. Ungrounded(bag) \subseteq Refused(bag) /\ Refused(bag) \subseteq DOMAIN bag
  BY <1>1 DEF Ungrounded, Refused
<1>4. Tally(bag, Ungrounded(bag)) <= Tally(bag, Refused(bag))
  BY <1>1, <1>3, TallyFacts
<1> QED
  BY <1>1, <1>2, <1>4, SummaryCounts, SummaryBounds DEF bag

-----------------------------------------------------------------------------
(* Extremes of finite sets.                                                *)

LEMMA LeastNatural ==
    ASSUME NEW T \in SUBSET Nat, T # {}
    PROVE  \E x \in T : \A y \in T : x <= y
<1>1. \E R : IsWellFoundedOn(R, Nat) /\ \A x, y \in Nat : <<x, y>> \in R <=> x < y
  <2>1. IsWellFoundedOn(OpToRel(<, Nat), Nat)
    BY NatLessThanWellFounded
  <2>2. \A x, y \in Nat : <<x, y>> \in OpToRel(<, Nat) <=> x < y
    BY DEF OpToRel
  <2> QED
    BY <2>1, <2>2, Zenon
<1>2. PICK R : IsWellFoundedOn(R, Nat) /\ \A x, y \in Nat : <<x, y>> \in R <=> x < y
  BY <1>1
<1>3. IsWellFoundedOn(R, Nat) /\ T \subseteq Nat
  BY <1>2
<1>4. \E x \in T : \A y \in T : ~(<<y, x>> \in R)
  BY <1>3, WFMin, Zenon
<1>5. PICK x \in T : \A y \in T : ~(<<y, x>> \in R)
  BY <1>4
<1>6. ASSUME NEW y \in T PROVE x <= y
  <2>1. x \in Nat /\ y \in Nat /\ ~(<<y, x>> \in R)
    BY <1>3, <1>5
  <2>2. ~(y < x)
    BY <1>2, <2>1
  <2> QED
    BY <2>1, <2>2
<1> QED
  BY <1>6

\* A strict order on a finite set has a maximal element: one with the fewest
\* elements over it.
LEMMA Maximal ==
    ASSUME NEW S, IsFiniteSet(S), S # {}, NEW R,
           \A x \in S : <<x, x>> \notin R,
           \A x, y, z \in S : <<x, y>> \in R /\ <<y, z>> \in R => <<x, z>> \in R
    PROVE  \E x \in S : \A y \in S : <<x, y>> \notin R
<1> DEFINE Over(x) == {y \in S : <<x, y>> \in R}
           T == {k \in Nat : \E x \in S : k = Cardinality(Over(x))}
<1>1. ASSUME NEW x \in S PROVE IsFiniteSet(Over(x)) /\ Cardinality(Over(x)) \in Nat
  BY FS_Subset, FS_CardinalityType
<1>2. T \in SUBSET Nat /\ T # {}
  <2>1. PICK x \in S : TRUE
    OBVIOUS
  <2>2. Cardinality(Over(x)) \in T
    BY <1>1
  <2> QED
    BY <2>2
<1>3. PICK k \in T : \A j \in T : k <= j
  BY <1>2, LeastNatural
<1>4. PICK x \in S : k = Cardinality(Over(x))
  OBVIOUS
<1>5. ASSUME NEW y \in S, <<x, y>> \in R PROVE FALSE
  <2>1. Over(y) \in SUBSET Over(x) /\ y \in Over(x) /\ y \notin Over(y)
    BY <1>5
  <2>2. IsFiniteSet(Over(x)) /\ Cardinality(Over(x)) \in Nat /\ Cardinality(Over(y)) \in T
    BY <1>1
  <2>3. Cardinality(Over(x)) <= Cardinality(Over(y))
    BY <1>3, <1>4, <2>2
  <2> HIDE DEF Over, T
  <2>4. /\ Cardinality(Over(y)) <= Cardinality(Over(x))
        /\ Cardinality(Over(x)) = Cardinality(Over(y)) => Over(x) = Over(y)
    BY <2>1, <2>2, FS_Subset
  <2>5. Cardinality(Over(y)) \in Nat
    BY <1>1
  <2>6. Cardinality(Over(x)) = Cardinality(Over(y))
    BY <2>2, <2>3, <2>4, <2>5
  <2> QED
    BY <2>1, <2>4, <2>6
<1> QED
  BY <1>5

LEMMA ExtremesOf ==
    ASSUME NEW S, IsFiniteSet(S), S \subseteq Int, S # {}
    PROVE  /\ \E x \in S : \A y \in S : y <= x
           /\ \E x \in S : \A y \in S : x <= y
<1> DEFINE R == {p \in S \X S : p[1] < p[2]}
           Q == {p \in S \X S : p[1] > p[2]}
<1>1. \A x, y \in S : <<x, y>> \in R <=> x < y
  OBVIOUS
<1>2. \A x, y \in S : <<x, y>> \in Q <=> x > y
  OBVIOUS
<1> HIDE DEF R, Q
<1>3. /\ \A x \in S : <<x, x>> \notin R /\ <<x, x>> \notin Q
      /\ \A x, y, z \in S : <<x, y>> \in R /\ <<y, z>> \in R => <<x, z>> \in R
      /\ \A x, y, z \in S : <<x, y>> \in Q /\ <<y, z>> \in Q => <<x, z>> \in Q
  BY <1>1, <1>2
<1>4. \E x \in S : \A y \in S : <<x, y>> \notin R
  BY <1>3, Maximal
<1>5. \E x \in S : \A y \in S : <<x, y>> \notin Q
  BY <1>3, Maximal
<1>6. \E x \in S : \A y \in S : y <= x
  <2>1. PICK x \in S : \A y \in S : <<x, y>> \notin R
    BY <1>4
  <2>2. ASSUME NEW y \in S PROVE y <= x
    <3>1. x \in Int /\ y \in Int
      OBVIOUS
    <3>2. <<x, y>> \notin R
      BY <2>1
    <3>3. ~(x < y)
      BY <1>1, <3>2
    <3> QED
      BY <3>1, <3>3
  <2> QED
    BY <2>2
<1>7. \E x \in S : \A y \in S : x <= y
  <2>1. PICK x \in S : \A y \in S : <<x, y>> \notin Q
    BY <1>5
  <2>2. ASSUME NEW y \in S PROVE x <= y
    <3>1. x \in Int /\ y \in Int
      OBVIOUS
    <3>2. <<x, y>> \notin Q
      BY <2>1
    <3>3. ~(x > y)
      BY <1>2, <3>2
    <3> QED
      BY <3>1, <3>3
  <2> QED
    BY <2>2
<1> QED
  BY <1>6, <1>7

LEMMA MaxOf ==
    ASSUME NEW S \in SUBSET Int, NEW m \in S, \A x \in S : x <= m
    PROVE  Max(S) = m
<1>1. m \in S /\ \A y \in S : m >= y
  OBVIOUS
<1>2. Max(S) \in S /\ \A y \in S : Max(S) >= y
  BY <1>1, Zenon DEF Max
<1>3. m \in Int /\ Max(S) \in Int /\ m >= Max(S) /\ Max(S) >= m
  BY <1>1, <1>2
<1> QED
  BY <1>3

LEMMA MinOf ==
    ASSUME NEW S \in SUBSET Int, NEW m \in S, \A x \in S : m <= x
    PROVE  Min(S) = m
<1>1. m \in S /\ \A y \in S : m <= y
  OBVIOUS
<1>2. Min(S) \in S /\ \A y \in S : Min(S) <= y
  BY <1>1, Zenon DEF Min
<1>3. m \in Int /\ Min(S) \in Int /\ m <= Min(S) /\ Min(S) <= m
  BY <1>1, <1>2
<1> QED
  BY <1>3

-----------------------------------------------------------------------------
(* Samples.                                                                *)

Sample(a) == FiniteBag(a) /\ DOMAIN a \subseteq Int /\ DOMAIN a # {}

LEMMA FiniteDomain == ASSUME NEW bag, FiniteBag(bag) PROVE IsFiniteSet(DOMAIN bag)
<1> DEFINE D == DOMAIN bag
           Q == Queries(bag, D)
           f == [q \in Q |-> q[1]]
<1>1. \A r \in D : bag[r] \in Nat \ {0}
  BY DEF FiniteBag, IsABag
<1>2. ASSUME NEW q \in Q PROVE q[1] \in D
  BY InQueries
<1>3. ASSUME NEW r \in D PROVE \E q \in Q : f[q] = r
  <2>1. 1 \in 1..bag[r]
    BY <1>1
  <2>2. <<r, 1>> \in Q
    BY <2>1, InQueries
  <2>3. f[<<r, 1>>] = r
    BY <2>2
  <2> QED
    BY <2>2, <2>3
<1>4. f \in Surjection(Q, D)
  <2>1. f \in [Q -> D]
    BY <1>2
  <2> HIDE DEF f, Q, D
  <2> QED
    BY <1>3, <2>1, Fun_IsSurj
<1>5. IsFiniteSet(Q)
  BY DEF FiniteBag
<1> HIDE DEF f, Q
<1> QED
  BY <1>4, <1>5, FS_Surjection

LEMMA TallyGrows ==
    ASSUME NEW bag, FiniteBag(bag), NEW S, NEW T, S \subseteq T, T \subseteq DOMAIN bag,
           NEW r \in T, r \notin S
    PROVE  Tally(bag, S) < Tally(bag, T)
<1>1. /\ IsFiniteSet(Queries(bag, S)) /\ IsFiniteSet(Queries(bag, T))
      /\ Tally(bag, S) \in Nat /\ Tally(bag, T) \in Nat
  BY TallyFacts
<1>2. Queries(bag, S) \in SUBSET Queries(bag, T)
  BY DEF Queries
<1>3. <<r, 1>> \in Queries(bag, T)
  <2>1. bag[r] \in Nat \ {0}
    BY DEF FiniteBag, IsABag
  <2>2. 1 \in 1..bag[r]
    BY <2>1
  <2> QED
    BY <2>2, InQueries
<1>4. <<r, 1>> \notin Queries(bag, S)
  BY InQueries
<1>5. /\ Cardinality(Queries(bag, S)) <= Cardinality(Queries(bag, T))
      /\ Cardinality(Queries(bag, T)) = Cardinality(Queries(bag, S))
           => Queries(bag, T) = Queries(bag, S)
  BY <1>1, <1>2, FS_Subset
<1> QED
  BY <1>1, <1>3, <1>4, <1>5 DEF Tally

LEMMA AtMostFacts ==
    ASSUME NEW a, Sample(a), NEW v \in Int
    PROVE  /\ Total(a) \in Nat \ {0}
           /\ AtMost(a, v) \in 0..Total(a)
           /\ \A u \in Int : v <= u => AtMost(a, v) <= AtMost(a, u)
           /\ \A u \in DOMAIN a : v < u => AtMost(a, v) < AtMost(a, u)
           /\ \A u \in DOMAIN a : u <= v => AtMost(a, v) > 0
           /\ AtMost(a, v) = Total(a) <=> \A u \in DOMAIN a : u <= v
<1> DEFINE D == DOMAIN a
           Low(u) == {x \in D : x <= u}
<1>1. FiniteBag(a) /\ D \subseteq Int /\ D # {}
  BY DEF Sample
<1>2. \A u : AtMost(a, u) = Tally(a, Low(u)) /\ Low(u) \subseteq D
  BY DEF AtMost
<1>3. \A u \in Int : \A x \in D : x \in Low(u) <=> x <= u
  OBVIOUS
<1>4. Total(a) = Tally(a, D)
  BY DEF Total
<1> HIDE DEF Low
<1>5. ASSUME NEW S \in SUBSET D, NEW T \in SUBSET D, S \subseteq T
      PROVE  Tally(a, S) \in Nat /\ Tally(a, T) \in Nat /\ Tally(a, S) <= Tally(a, T)
  BY <1>1, <1>5, TallyFacts
<1>6. ASSUME NEW S \in SUBSET D, NEW T \in SUBSET D, S \subseteq T, NEW x \in T, x \notin S
      PROVE  Tally(a, S) < Tally(a, T)
  BY <1>1, <1>6, TallyGrows
<1>7. Tally(a, {}) \in Nat /\ Total(a) \in Nat \ {0}
  <2>1. Tally(a, {}) \in Nat /\ Tally(a, D) \in Nat
    BY <1>5
  <2>2. Tally(a, {}) < Tally(a, D)
    BY <1>1, <1>6
  <2> QED
    BY <1>4, <2>1, <2>2
<1>8. AtMost(a, v) \in 0..Total(a)
  <2>1. Tally(a, Low(v)) \in Nat /\ Tally(a, Low(v)) <= Tally(a, D)
    BY <1>2, <1>5
  <2> QED
    BY <1>2, <1>4, <1>7, <2>1
<1>9. ASSUME NEW u \in Int, v <= u PROVE AtMost(a, v) <= AtMost(a, u)
  <2>1. Low(v) \subseteq Low(u)
    BY <1>1, <1>2, <1>3, <1>9
  <2> QED
    BY <1>2, <1>5, <2>1
<1>10. ASSUME NEW u \in D, v < u PROVE AtMost(a, v) < AtMost(a, u)
  <2>1. Low(v) \subseteq Low(u) /\ u \in Low(u) /\ u \notin Low(v)
    BY <1>1, <1>2, <1>3, <1>10
  <2> QED
    BY <1>2, <1>6, <2>1
<1>11. ASSUME NEW u \in D, u <= v PROVE AtMost(a, v) > 0
  <2>1. u \in Low(v)
    BY <1>1, <1>3, <1>11
  <2>2. Tally(a, {}) < Tally(a, Low(v))
    BY <1>2, <1>6, <2>1
  <2> QED
    BY <1>2, <1>7, <1>8, <2>2
<1>12. AtMost(a, v) = Total(a) <=> \A u \in D : u <= v
  <2>1. ASSUME \A u \in D : u <= v PROVE AtMost(a, v) = Total(a)
    <3>1. Low(v) = D
      BY <1>1, <1>2, <1>3, <2>1
    <3> QED
      BY <1>2, <1>4, <3>1
  <2>2. ASSUME NEW u \in D, ~(u <= v) PROVE AtMost(a, v) # Total(a)
    <3>1. u \notin Low(v)
      BY <1>1, <1>3, <2>2
    <3>2. Tally(a, Low(v)) < Tally(a, D)
      BY <1>2, <1>6, <3>1
    <3>3. Tally(a, Low(v)) \in Nat /\ Tally(a, D) \in Nat
      BY <1>2, <1>5
    <3> QED
      BY <1>2, <1>4, <3>2, <3>3
  <2> QED
    BY <2>1, <2>2
<1> QED
  BY <1>7, <1>8, <1>9, <1>10, <1>11, <1>12

\* The value at a position of the sorted list is the least one that so many
\* values are at most.
LEMMA SortedFacts ==
    ASSUME NEW a, Sample(a), NEW i \in 1..Total(a)
    PROVE  /\ Sorted(a, i) \in DOMAIN a
           /\ AtMost(a, Sorted(a, i)) >= i
           /\ \A u \in DOMAIN a : AtMost(a, u) >= i => Sorted(a, i) <= u
<1> DEFINE D == DOMAIN a
           V == {v \in D : AtMost(a, v) >= i}
<1>1. FiniteBag(a) /\ D \subseteq Int /\ D # {}
  BY DEF Sample
<1>2. IsFiniteSet(D)
  BY <1>1, FiniteDomain
<1>3. PICK k \in D : \A y \in D : y <= k
  <2> HIDE DEF D
  <2> QED
    BY <1>1, <1>2, ExtremesOf
<1>4. AtMost(a, k) = Total(a) /\ Total(a) \in Nat
  BY <1>1, <1>3, AtMostFacts
<1>5. V # {} /\ V \subseteq Int /\ IsFiniteSet(V)
  <2>1. k \in V
    BY <1>3, <1>4
  <2> HIDE DEF D
  <2> QED
    BY <1>1, <1>2, <2>1, FS_Subset
<1>6. PICK v \in V : \A y \in V : v <= y
  <2> HIDE DEF V
  <2> QED
    BY <1>5, ExtremesOf
<1>7. Min(V) = v
  <2> HIDE DEF V
  <2> QED
    BY <1>5, <1>6, MinOf
<1>8. Sorted(a, i) = v
  BY <1>7 DEF Sorted
<1> QED
  BY <1>6, <1>8

\* The value behind those that are at most v is the least one above v.
LEMMA NextSorted ==
    ASSUME NEW a, Sample(a), NEW v \in Int, AtMost(a, v) # Total(a)
    PROVE  LET s == Sorted(a, AtMost(a, v) + 1)
           IN  s \in DOMAIN a /\ s > v /\ \A u \in DOMAIN a : u > v => s <= u
<1> DEFINE n == AtMost(a, v)
           s == Sorted(a, n + 1)
<1>1. DOMAIN a \subseteq Int
  BY DEF Sample
<1>2. n \in Nat /\ Total(a) \in Nat /\ n < Total(a)
  BY AtMostFacts
<1>3. n + 1 \in 1..Total(a)
  BY <1>2
<1>4. /\ s \in DOMAIN a /\ AtMost(a, s) >= n + 1
      /\ \A u \in DOMAIN a : AtMost(a, u) >= n + 1 => s <= u
  <2> HIDE DEF n
  <2> QED
    BY <1>3, SortedFacts
<1>5. s \in Int /\ AtMost(a, s) \in Int
  BY <1>1, <1>4, AtMostFacts
<1>6. s > v
  <2>1. s <= v => AtMost(a, s) <= n
    BY <1>5, AtMostFacts
  <2> HIDE DEF s
  <2>2. ~(s <= v)
    BY <1>2, <1>4, <1>5, <2>1
  <2> QED
    BY <1>5, <2>2
<1>7. ASSUME NEW u \in DOMAIN a, u > v PROVE s <= u
  <2>1. u \in Int /\ v < u
    BY <1>1, <1>7
  <2>2. n < AtMost(a, u) /\ AtMost(a, u) \in Int
    BY <2>1, AtMostFacts
  <2>3. AtMost(a, u) >= n + 1
    BY <1>2, <2>2
  <2> QED
    BY <1>4, <2>3
<1> QED
  BY <1>4, <1>6, <1>7

-----------------------------------------------------------------------------
(* The walk over two sorted samples.                                       *)

Samples(a, b) == Sample(a) /\ Sample(b)
Values(a, b) == DOMAIN a \cup DOMAIN b
Positions(a, b) == (0..Total(a)) \X (0..Total(b))
Exhausted(a, b, p) == p[1] = Total(a) \/ p[2] = Total(b)
ValueAt(a, b, p) == Min({Sorted(a, p[1] + 1), Sorted(b, p[2] + 1)})
Past(a, b, v) == <<AtMost(a, v), AtMost(b, v)>>
GapAt(a, b, v) == Gap(a, b, AtMost(a, v), AtMost(b, v))

\* The walk reaches the values that neither sample ends before.
Reached(a, b, v) == (\E u \in DOMAIN a : v <= u) /\ (\E u \in DOMAIN b : v <= u)
ToCome(a, b, p) == {v \in Values(a, b) : Reached(a, b, v) /\ ValueAt(a, b, p) <= v}

Turn(a, b, f) ==
    [p \in Positions(a, b) |->
        IF Exhausted(a, b, p)
          THEN 0
          ELSE Max({GapAt(a, b, ValueAt(a, b, p)), f[Past(a, b, ValueAt(a, b, p))]})]

LEMMA WalkIs ==
    ASSUME NEW a, NEW b
    PROVE  KsStatistic(a, b) =
             IF Total(a) = 0 \/ Total(b) = 0 THEN 0
             ELSE (CHOOSE f : f = Turn(a, b, f))[<<0, 0>>]
  BY DEF KsStatistic, Turn, Positions, Exhausted, ValueAt, GapAt, Past

LEMMA SamplesFacts ==
    ASSUME NEW a, NEW b, Samples(a, b)
    PROVE  /\ Sample(a) /\ Sample(b) /\ Total(a) \in Nat \ {0} /\ Total(b) \in Nat \ {0}
           /\ DOMAIN a \subseteq Int /\ DOMAIN b \subseteq Int
           /\ Values(a, b) \subseteq Int /\ IsFiniteSet(Values(a, b))
           /\ \A v \in Int : Past(a, b, v) \in Positions(a, b) /\ GapAt(a, b, v) \in Nat
<1>1. Sample(a) /\ Sample(b) /\ DOMAIN a \subseteq Int /\ DOMAIN b \subseteq Int
  BY DEF Samples, Sample
<1>2. IsFiniteSet(Values(a, b))
  <2>1. IsFiniteSet(DOMAIN a) /\ IsFiniteSet(DOMAIN b)
    BY <1>1, FiniteDomain DEF Sample
  <2> QED
    BY <2>1, FS_Union DEF Values
<1>3. Total(a) \in Nat \ {0} /\ Total(b) \in Nat \ {0}
  <2>1. 0 \in Int
    OBVIOUS
  <2> QED
    BY <1>1, <2>1, AtMostFacts
<1>4. ASSUME NEW v \in Int
      PROVE  Past(a, b, v) \in Positions(a, b) /\ GapAt(a, b, v) \in Nat
  <2>1. AtMost(a, v) \in 0..Total(a) /\ AtMost(b, v) \in 0..Total(b)
    BY <1>1, AtMostFacts
  <2> DEFINE d == AtMost(a, v) * Total(b) - AtMost(b, v) * Total(a)
  <2>2. d \in Int
    BY <1>3, <2>1
  <2>3. GapAt(a, b, v) = IF d < 0 THEN -d ELSE d
    BY DEF GapAt, Gap
  <2> HIDE DEF d
  <2>4. GapAt(a, b, v) \in Nat
    BY <2>2, <2>3
  <2> QED
    BY <2>1, <2>4 DEF Past, Positions
<1> QED
  BY <1>1, <1>2, <1>3, <1>4 DEF Values

\* While neither sample is exhausted, the walk reaches the value it is at.
LEMMA ValueFacts ==
    ASSUME NEW a, NEW b, Samples(a, b), NEW p \in Positions(a, b), ~Exhausted(a, b, p)
    PROVE  LET s == Sorted(a, p[1] + 1)
               t == Sorted(b, p[2] + 1)
               v == ValueAt(a, b, p)
           IN  /\ s \in DOMAIN a /\ t \in DOMAIN b
               /\ v \in {s, t} /\ v <= s /\ v <= t
               /\ v \in Values(a, b) /\ v \in Int /\ Reached(a, b, v)
<1> DEFINE s == Sorted(a, p[1] + 1)
           t == Sorted(b, p[2] + 1)
           v == ValueAt(a, b, p)
<1>1. p[1] + 1 \in 1..Total(a) /\ p[2] + 1 \in 1..Total(b)
  <2>1. p[1] \in 0..Total(a) /\ p[2] \in 0..Total(b) /\ p[1] # Total(a) /\ p[2] # Total(b)
    BY DEF Positions, Exhausted
  <2> QED
    BY <2>1, SamplesFacts
<1>2. s \in DOMAIN a /\ t \in DOMAIN b
  BY <1>1, SamplesFacts, SortedFacts
<1>3. s \in Int /\ t \in Int
  BY <1>2, SamplesFacts
<1>4. v = Min({s, t})
  BY DEF ValueAt
<1> HIDE DEF s, t, v
<1>5. v \in {s, t} /\ v <= s /\ v <= t /\ v \in Int
  <2>1. CASE s <= t
    BY <1>3, <1>4, <2>1, MinOf
  <2>2. CASE ~(s <= t)
    BY <1>3, <1>4, <2>2, MinOf
  <2> QED
    BY <2>1, <2>2
<1>6. Reached(a, b, v) /\ v \in Values(a, b)
  BY <1>2, <1>5 DEF Reached, Values
<1> QED
  BY <1>2, <1>5, <1>6 DEF s, t, v

\* The next position is behind the value of this one, and its own value is the
\* next one of both samples.
LEMMA NextFacts ==
    ASSUME NEW a, NEW b, Samples(a, b), NEW p \in Positions(a, b), ~Exhausted(a, b, p)
    PROVE  LET v == ValueAt(a, b, p)
               q == Past(a, b, v)
           IN  /\ q \in Positions(a, b) /\ v \in Int /\ v \in ToCome(a, b, p)
               /\ Exhausted(a, b, q) => ToCome(a, b, p) = {v}
               /\ ~Exhausted(a, b, q) =>
                     /\ ValueAt(a, b, q) > v
                     /\ ToCome(a, b, p) = {v} \cup ToCome(a, b, q)
<1> DEFINE v == ValueAt(a, b, p)
           q == Past(a, b, v)
           w == ValueAt(a, b, q)
<1>1. v \in Int /\ v \in Values(a, b) /\ Reached(a, b, v)
  BY ValueFacts
<1> HIDE DEF v
<1>2. /\ q \in Positions(a, b) /\ q[1] = AtMost(a, v) /\ q[2] = AtMost(b, v)
      /\ DOMAIN a \subseteq Int /\ DOMAIN b \subseteq Int /\ Values(a, b) \subseteq Int
      /\ Sample(a) /\ Sample(b)
  <2>1. q[1] = AtMost(a, v) /\ q[2] = AtMost(b, v)
    BY DEF Past
  <2> HIDE DEF q
  <2> QED
    BY <1>1, <2>1, SamplesFacts DEF q
<1>3. ToCome(a, b, p) = {u \in Values(a, b) : Reached(a, b, u) /\ v <= u}
  BY DEF ToCome, v
<1>4. v \in ToCome(a, b, p)
  BY <1>1, <1>3
<1> HIDE DEF q
<1>5. ASSUME Exhausted(a, b, q) PROVE ToCome(a, b, p) = {v}
  <2>1. (\A x \in DOMAIN a : x <= v) \/ (\A x \in DOMAIN b : x <= v)
    BY <1>1, <1>2, <1>5, AtMostFacts DEF Exhausted
  <2>2. ASSUME NEW u \in ToCome(a, b, p) PROVE u = v
    <3>1. u \in Int /\ v <= u /\ Reached(a, b, u)
      BY <1>2, <1>3
    <3>2. PICK x \in DOMAIN a : u <= x
      BY <3>1 DEF Reached
    <3>3. PICK y \in DOMAIN b : u <= y
      BY <3>1 DEF Reached
    <3>4. x \in Int /\ y \in Int /\ (x <= v \/ y <= v)
      BY <1>2, <2>1
    <3> QED
      BY <1>1, <3>1, <3>2, <3>3, <3>4
  <2> QED
    BY <1>4, <2>2
<1>6. ASSUME ~Exhausted(a, b, q)
      PROVE  w > v /\ ToCome(a, b, p) = {v} \cup ToCome(a, b, q)
  <2> DEFINE s == Sorted(a, q[1] + 1)
             t == Sorted(b, q[2] + 1)
  <2>1. AtMost(a, v) # Total(a) /\ AtMost(b, v) # Total(b)
    BY <1>2, <1>6 DEF Exhausted
  <2>2. s \in DOMAIN a /\ s > v /\ \A u \in DOMAIN a : u > v => s <= u
    <3>1. s = Sorted(a, AtMost(a, v) + 1)
      BY <1>2
    <3> HIDE DEF s
    <3> QED
      BY <1>1, <1>2, <2>1, <3>1, NextSorted
  <2>3. t \in DOMAIN b /\ t > v /\ \A u \in DOMAIN b : u > v => t <= u
    <3>1. t = Sorted(b, AtMost(b, v) + 1)
      BY <1>2
    <3> HIDE DEF t
    <3> QED
      BY <1>1, <1>2, <2>1, <3>1, NextSorted
  <2>4. w \in {s, t} /\ w <= s /\ w <= t /\ w \in Int
    BY <1>2, <1>6, ValueFacts
  <2>5. ToCome(a, b, q) = {u \in Values(a, b) : Reached(a, b, u) /\ w <= u}
    BY DEF ToCome
  <2>6. s \in Int /\ t \in Int
    BY <1>2, <2>2, <2>3
  <2> HIDE DEF s, t, w
  <2>7. w > v
    BY <2>2, <2>3, <2>4
  <2>8. ASSUME NEW u \in ToCome(a, b, p), u # v PROVE u \in ToCome(a, b, q)
    <3>1. u \in Int /\ u > v /\ u \in Values(a, b) /\ Reached(a, b, u)
      BY <1>1, <1>2, <1>3, <2>8
    <3>2. s <= u \/ t <= u
      BY <2>2, <2>3, <3>1 DEF Values
    <3>3. w <= u
      BY <2>4, <2>6, <3>1, <3>2
    <3> QED
      BY <2>5, <3>1, <3>3
  <2>9. ASSUME NEW u \in ToCome(a, b, q) PROVE u \in ToCome(a, b, p)
    <3>1. u \in Int /\ w <= u /\ u \in Values(a, b) /\ Reached(a, b, u)
      BY <1>2, <2>5
    <3>2. v <= u
      BY <1>1, <2>4, <2>7, <3>1
    <3> QED
      BY <1>3, <3>1, <3>2
  <2> QED
    BY <1>4, <2>7, <2>8, <2>9
<1> QED
  BY <1>1, <1>2, <1>4, <1>5, <1>6 DEF v, q

\* What the walk returns from a position: the largest gap that is to come.
Closed(a, b) ==
    [p \in Positions(a, b) |->
        IF Exhausted(a, b, p) THEN 0 ELSE Max({GapAt(a, b, u) : u \in ToCome(a, b, p)})]

LEMMA LargestGap ==
    ASSUME NEW a, NEW b, Samples(a, b), NEW S, S \subseteq Values(a, b), S # {}
    PROVE  /\ \E v \in S : \A u \in S : GapAt(a, b, u) <= GapAt(a, b, v)
           /\ \A u \in S : GapAt(a, b, u) \in Nat
           /\ \A v \in S : (\A u \in S : GapAt(a, b, u) <= GapAt(a, b, v))
                              => Max({GapAt(a, b, u) : u \in S}) = GapAt(a, b, v)
<1> DEFINE g(u) == GapAt(a, b, u)
           R == {e \in S \X S : g(e[1]) < g(e[2])}
<1>1. IsFiniteSet(S) /\ \A u \in S : g(u) \in Nat
  <2>1. IsFiniteSet(Values(a, b)) /\ \A u \in Values(a, b) : g(u) \in Nat
    BY SamplesFacts
  <2> QED
    BY <2>1, FS_Subset
<1>2. \A x, y \in S : <<x, y>> \in R <=> g(x) < g(y)
  OBVIOUS
<1> HIDE DEF g, R
<1>3. \A x \in S : <<x, x>> \notin R
  BY <1>1, <1>2
<1>4. \A x, y, z \in S : <<x, y>> \in R /\ <<y, z>> \in R => <<x, z>> \in R
  BY <1>1, <1>2
<1>5. PICK v \in S : \A y \in S : <<v, y>> \notin R
  BY <1>1, <1>3, <1>4, Maximal
<1>6. \A u \in S : g(u) <= g(v)
  <2> SUFFICES ASSUME NEW u \in S PROVE g(u) <= g(v)
    OBVIOUS
  <2>1. ~(g(v) < g(u)) /\ g(v) \in Nat /\ g(u) \in Nat
    BY <1>1, <1>2, <1>5
  <2> QED
    BY <2>1
<1>7. ASSUME NEW x \in S, \A u \in S : g(u) <= g(x) PROVE Max({g(u) : u \in S}) = g(x)
  <2> DEFINE G == {g(u) : u \in S}
  <2>1. G \in SUBSET Int /\ g(x) \in G /\ \A y \in G : y <= g(x)
    BY <1>1, <1>7
  <2> HIDE DEF G
  <2>2. Max(G) = g(x)
    BY <2>1, MaxOf
  <2> QED
    BY <2>2 DEF G
<1> QED
  BY <1>1, <1>6, <1>7 DEF g

LEMMA ClosedIsAWalk ==
    ASSUME NEW a, NEW b, Samples(a, b)
    PROVE  Closed(a, b) = Turn(a, b, Closed(a, b))
<1> DEFINE c == Closed(a, b)
           g(u) == GapAt(a, b, u)
<1>1. \A p \in Positions(a, b) :
         c[p] = IF Exhausted(a, b, p) THEN 0 ELSE Max({g(u) : u \in ToCome(a, b, p)})
  BY DEF Closed
<1> HIDE DEF c
<1>2. ASSUME NEW p \in Positions(a, b), ~Exhausted(a, b, p)
      PROVE  c[p] = Max({g(ValueAt(a, b, p)), c[Past(a, b, ValueAt(a, b, p))]})
  <2> DEFINE v == ValueAt(a, b, p)
             q == Past(a, b, v)
             S == ToCome(a, b, p)
             T == ToCome(a, b, q)
  <2>1. /\ q \in Positions(a, b) /\ v \in S
        /\ Exhausted(a, b, q) => S = {v}
        /\ ~Exhausted(a, b, q) => S = {v} \cup T /\ ValueAt(a, b, q) \in T
    <3>1. /\ q \in Positions(a, b) /\ v \in S
          /\ Exhausted(a, b, q) => S = {v}
          /\ ~Exhausted(a, b, q) => S = {v} \cup T
      BY <1>2, NextFacts
    <3> HIDE DEF q, S
    <3>2. ~Exhausted(a, b, q) => ValueAt(a, b, q) \in T
      BY <3>1, NextFacts
    <3> QED
      BY <3>1, <3>2
  <2>2. S \subseteq Values(a, b) /\ T \subseteq Values(a, b) /\ \A u \in S : g(u) \in Nat
    <3>1. S \subseteq Values(a, b) /\ T \subseteq Values(a, b)
      BY DEF ToCome
    <3>2. \A u \in Values(a, b) : g(u) \in Nat
      BY SamplesFacts
    <3> QED
      BY <3>1, <3>2
  <2>3. /\ c[p] = Max({g(u) : u \in S})
        /\ c[q] = IF Exhausted(a, b, q) THEN 0 ELSE Max({g(u) : u \in T})
    BY <1>1, <1>2, <2>1
  <2>4. ASSUME NEW x \in S, \A u \in S : g(u) <= g(x) PROVE c[p] = g(x)
    <3> HIDE DEF S, T, q, v, g
    <3>1. S # {}
      BY <2>1
    <3>2. Max({GapAt(a, b, u) : u \in S}) = GapAt(a, b, x)
      BY <2>2, <2>4, <3>1, LargestGap DEF g
    <3> QED
      BY <2>3, <3>2 DEF g
  <2> HIDE DEF v, q, S, T
  <2>5. CASE Exhausted(a, b, q)
    <3>1. g(v) \in Nat /\ c[p] = g(v) /\ c[q] = 0
      BY <2>1, <2>2, <2>3, <2>4, <2>5
    <3>2. Max({g(v), c[q]}) = g(v)
      <4> HIDE DEF g, v
      <4> QED
        BY <3>1, MaxOf
    <3> QED
      BY <3>1, <3>2 DEF v, q
  <2>6. CASE ~Exhausted(a, b, q)
    <3>1. T # {} /\ S = {v} \cup T
      BY <2>1, <2>6
    <3>2. PICK x \in T : \A u \in T : GapAt(a, b, u) <= GapAt(a, b, x)
      BY <2>2, <3>1, LargestGap
    <3>3. Max({GapAt(a, b, u) : u \in T}) = GapAt(a, b, x)
      BY <2>2, <3>1, <3>2, LargestGap
    <3>4. c[q] = g(x) /\ \A u \in T : g(u) <= g(x)
      BY <2>3, <2>6, <3>2, <3>3
    <3>5. g(v) \in Nat /\ g(x) \in Nat
      BY <2>2, <3>1
    <3> HIDE DEF g
    <3>6. CASE g(v) <= g(x)
      <4>1. c[p] = g(x)
        BY <2>4, <3>1, <3>4, <3>6
      <4>2. Max({g(v), c[q]}) = g(x)
        BY <3>4, <3>5, <3>6, MaxOf
      <4> QED
        BY <4>1, <4>2 DEF v, q
    <3>7. CASE ~(g(v) <= g(x))
      <4>1. \A u \in T : g(u) \in Nat
        BY <2>2, <3>1
      <4>2. c[p] = g(v)
        BY <2>4, <3>1, <3>4, <3>5, <3>7, <4>1
      <4>3. Max({g(v), c[q]}) = g(v)
        BY <3>4, <3>5, <3>7, MaxOf
      <4> QED
        BY <4>2, <4>3 DEF v, q
    <3> QED
      BY <3>6, <3>7
  <2> QED
    BY <2>5, <2>6
<1>3. Turn(a, b, c) = [p \in Positions(a, b) |->
          IF Exhausted(a, b, p) THEN 0
          ELSE Max({g(ValueAt(a, b, p)), c[Past(a, b, ValueAt(a, b, p))]})]
  BY DEF Turn
<1>4. c = [p \in Positions(a, b) |-> c[p]]
  BY DEF c, Closed
<1>5. \A p \in Positions(a, b) :
         c[p] = IF Exhausted(a, b, p) THEN 0
                ELSE Max({g(ValueAt(a, b, p)), c[Past(a, b, ValueAt(a, b, p))]})
  BY <1>1, <1>2
<1>6. c = Turn(a, b, c)
  BY <1>3, <1>4, <1>5
<1> QED
  BY <1>6 DEF c

\* The values of the positions grow along the walk and are finitely many, so
\* that its definition has one solution.
LEMMA OneWalk ==
    ASSUME NEW a, NEW b, Samples(a, b), NEW f, NEW h, f = Turn(a, b, f), h = Turn(a, b, h),
           NEW p0 \in Positions(a, b)
    PROVE  f[p0] = h[p0]
<1> DEFINE Differ(p) == p \in Positions(a, b) /\ f[p] # h[p]
           T == {v \in Values(a, b) : \E p : Differ(p) /\ ~Exhausted(a, b, p)
                                              /\ v = ValueAt(a, b, p)}
<1>1. ASSUME NEW p \in Positions(a, b)
      PROVE  /\ Exhausted(a, b, p) => f[p] = 0 /\ h[p] = 0
             /\ ~Exhausted(a, b, p) =>
                   LET v == ValueAt(a, b, p)
                   IN  /\ f[p] = Max({GapAt(a, b, v), f[Past(a, b, v)]})
                       /\ h[p] = Max({GapAt(a, b, v), h[Past(a, b, v)]})
  <2>1. Turn(a, b, f)[p] = f[p] /\ Turn(a, b, h)[p] = h[p]
    OBVIOUS
  <2> QED
    BY <2>1 DEF Turn
<1>2. ASSUME NEW p, Differ(p)
      PROVE  ~Exhausted(a, b, p) /\ ValueAt(a, b, p) \in T /\ ValueAt(a, b, p) \in Int
  <2>1. ~Exhausted(a, b, p)
    BY <1>1, <1>2
  <2>2. ValueAt(a, b, p) \in Values(a, b) /\ ValueAt(a, b, p) \in Int
    BY <1>2, <2>1, ValueFacts
  <2> QED
    BY <1>2, <2>1, <2>2
<1>3. IsFiniteSet(T) /\ T \subseteq Int
  <2>1. T \subseteq Values(a, b) /\ IsFiniteSet(Values(a, b)) /\ Values(a, b) \subseteq Int
    BY SamplesFacts
  <2> HIDE DEF T
  <2> QED
    BY <2>1, FS_Subset
<1>4. SUFFICES ASSUME Differ(p0) PROVE FALSE
  OBVIOUS
<1>5. T # {}
  BY <1>2, <1>4
<1>6. PICK v \in T : \A y \in T : y <= v
  <2> HIDE DEF T
  <2> QED
    BY <1>3, <1>5, ExtremesOf
<1>7. PICK p : Differ(p) /\ ~Exhausted(a, b, p) /\ v = ValueAt(a, b, p)
  OBVIOUS
<1> DEFINE q == Past(a, b, v)
<1>8. q \in Positions(a, b) /\ (~Exhausted(a, b, q) => ValueAt(a, b, q) > v) /\ v \in Int
  BY <1>7, NextFacts
<1> HIDE DEF q
<1>9. f[q] = h[q]
  <2> SUFFICES ASSUME Differ(q) PROVE FALSE
    BY <1>8
  <2>1. ~Exhausted(a, b, q) /\ ValueAt(a, b, q) \in T /\ ValueAt(a, b, q) \in Int
    BY <1>2
  <2> QED
    BY <1>6, <1>8, <2>1
<1>10. /\ f[p] = Max({GapAt(a, b, v), f[q]})
       /\ h[p] = Max({GapAt(a, b, v), h[q]})
  BY <1>1, <1>7 DEF q
<1> QED
  BY <1>7, <1>9, <1>10

LEMMA WalkReturns ==
    ASSUME NEW a, NEW b, Samples(a, b)
    PROVE  /\ <<0, 0>> \in Positions(a, b) /\ ~Exhausted(a, b, <<0, 0>>)
           /\ KsStatistic(a, b) = Max({GapAt(a, b, u) : u \in ToCome(a, b, <<0, 0>>)})
<1> DEFINE w == CHOOSE f : f = Turn(a, b, f)
           o == <<0, 0>>
<1>1. w = Turn(a, b, w)
  BY ClosedIsAWalk
<1>2. Total(a) \in Nat \ {0} /\ Total(b) \in Nat \ {0}
  BY SamplesFacts
<1>3. KsStatistic(a, b) = w[o]
  BY <1>2, WalkIs
<1>4. o \in Positions(a, b) /\ ~Exhausted(a, b, o)
  BY <1>2 DEF Positions, Exhausted
<1> HIDE DEF w, o
<1>5. w[o] = Closed(a, b)[o]
  <2>1. Closed(a, b) = Turn(a, b, Closed(a, b))
    BY ClosedIsAWalk
  <2> QED
    BY <1>1, <1>4, <2>1, OneWalk
<1> QED
  BY <1>3, <1>4, <1>5 DEF Closed, o

LEMMA GapTurned ==
    ASSUME NEW a, NEW b, Samples(a, b), NEW v \in Int
    PROVE  GapAt(a, b, v) = GapAt(b, a, v)
<1> DEFINE i == AtMost(a, v)
           j == AtMost(b, v)
           n == Total(a)
           m == Total(b)
<1>1. i \in Nat /\ j \in Nat /\ n \in Nat /\ m \in Nat
  <2>1. Sample(a) /\ Sample(b)
    BY DEF Samples
  <2> QED
    BY <2>1, AtMostFacts
<1>2. /\ GapAt(a, b, v) = IF i * m - j * n < 0 THEN -(i * m - j * n) ELSE i * m - j * n
      /\ GapAt(b, a, v) = IF j * n - i * m < 0 THEN -(j * n - i * m) ELSE j * n - i * m
  BY DEF GapAt, Gap
<1> HIDE DEF i, j, n, m
<1>3. i * m \in Int /\ j * n \in Int
  BY <1>1
<1> DEFINE x == i * m
           y == j * n
<1> HIDE DEF x, y
<1>4. (IF x - y < 0 THEN -(x - y) ELSE x - y) = (IF y - x < 0 THEN -(y - x) ELSE y - x)
  <2>1. x \in Int /\ y \in Int
    BY <1>3 DEF x, y
  <2> QED
    BY <2>1
<1> QED
  BY <1>2, <1>4 DEF x, y

\* Behind the last value of a sample the gap only closes.
LEMMA GapCloses ==
    ASSUME NEW a, NEW b, Samples(a, b), NEW x \in DOMAIN b, \A u \in DOMAIN a : u < x
    PROVE  \E l \in DOMAIN a : /\ l <= x
                               /\ GapAt(a, b, x) <= GapAt(a, b, l)
<1>1. /\ Sample(a) /\ Sample(b) /\ x \in Int /\ DOMAIN a \subseteq Int
      /\ DOMAIN a # {} /\ IsFiniteSet(DOMAIN a)
  <2>1. Sample(a) /\ Sample(b)
    BY DEF Samples
  <2> QED
    BY <2>1, FiniteDomain DEF Sample
<1>2. PICK l \in DOMAIN a : \A u \in DOMAIN a : u <= l
  BY <1>1, ExtremesOf
<1>3. l \in Int /\ l <= x /\ \A u \in DOMAIN a : u <= x
  BY <1>1
<1> DEFINE n == Total(a)
           m == Total(b)
           j == AtMost(b, l)
           k == AtMost(b, x)
<1>4. AtMost(a, l) = n /\ AtMost(a, x) = n
  BY <1>1, <1>2, <1>3, AtMostFacts
<1>5. n \in Nat /\ m \in Nat /\ j \in 0..m /\ k \in 0..m /\ j <= k
  BY <1>1, <1>3, AtMostFacts
<1>6. /\ GapAt(a, b, l) = IF n * m - j * n < 0 THEN -(n * m - j * n) ELSE n * m - j * n
      /\ GapAt(a, b, x) = IF n * m - k * n < 0 THEN -(n * m - k * n) ELSE n * m - k * n
  BY <1>4 DEF GapAt, Gap
<1> HIDE DEF n, m, j, k
<1>7. /\ j * n <= k * n /\ k * n <= m * n /\ m * n = n * m
      /\ j * n \in Nat /\ k * n \in Nat /\ n * m \in Nat
  <2>1. j \in Nat /\ k \in Nat /\ k <= m /\ n * m \in Nat /\ m * n = n * m
    BY <1>5
  <2> QED
    BY <1>5, <2>1, TimesMonotone
<1> DEFINE x1 == j * n
           x2 == k * n
           y == n * m
<1>8. x1 \in Nat /\ x2 \in Nat /\ y \in Nat /\ x1 <= x2 /\ x2 <= y
  BY <1>7
<1> HIDE DEF x1, x2, y
<1>9. (IF y - x2 < 0 THEN -(y - x2) ELSE y - x2) <= (IF y - x1 < 0 THEN -(y - x1) ELSE y - x1)
  BY <1>8
<1> QED
  BY <1>3, <1>6, <1>9 DEF x1, x2, y

\* The walk leaves out no larger gap than the largest it has met.
LEMMA LargestIsReached ==
    ASSUME NEW a, NEW b, Samples(a, b), NEW x \in Values(a, b)
    PROVE  \E l \in Values(a, b) : Reached(a, b, l) /\ GapAt(a, b, x) <= GapAt(a, b, l)
<1>1. /\ DOMAIN a \subseteq Int /\ DOMAIN b \subseteq Int /\ x \in Int
      /\ \A v \in Values(a, b) : GapAt(a, b, v) \in Nat /\ GapAt(a, b, v) = GapAt(b, a, v)
      /\ Samples(b, a)
  <2>1. \A v \in Int : GapAt(a, b, v) \in Nat /\ GapAt(a, b, v) = GapAt(b, a, v)
    BY SamplesFacts, GapTurned
  <2>2. DOMAIN a \subseteq Int /\ DOMAIN b \subseteq Int /\ Values(a, b) \subseteq Int
    BY SamplesFacts
  <2> QED
    BY <2>1, <2>2 DEF Samples
<1>2. CASE Reached(a, b, x)
  <2>1. GapAt(a, b, x) <= GapAt(a, b, x)
    BY <1>1
  <2> QED
    BY <1>2, <2>1
<1>3. CASE ~\E u \in DOMAIN a : x <= u
  <2>1. \A u \in DOMAIN a : u < x
    BY <1>1, <1>3
  <2>2. x \in DOMAIN b
    <3>1. x \notin DOMAIN a
      BY <1>1, <2>1
    <3> QED
      BY <3>1 DEF Values
  <2>3. PICK l \in DOMAIN a : l <= x /\ GapAt(a, b, x) <= GapAt(a, b, l)
    BY <2>1, <2>2, GapCloses
  <2>4. Reached(a, b, l) /\ l \in Values(a, b)
    BY <1>1, <2>2, <2>3 DEF Reached, Values
  <2> QED
    BY <2>3, <2>4
<1>4. CASE ~\E u \in DOMAIN b : x <= u
  <2>1. \A u \in DOMAIN b : u < x
    BY <1>1, <1>4
  <2>2. x \in DOMAIN a
    <3>1. x \notin DOMAIN b
      BY <1>1, <2>1
    <3> QED
      BY <3>1 DEF Values
  <2>3. PICK l \in DOMAIN b : l <= x /\ GapAt(b, a, x) <= GapAt(b, a, l)
    BY <1>1, <2>1, <2>2, GapCloses
  <2>4. Reached(a, b, l) /\ l \in Values(a, b)
    BY <1>1, <2>2, <2>3 DEF Reached, Values
  <2>5. GapAt(a, b, x) = GapAt(b, a, x) /\ GapAt(a, b, l) = GapAt(b, a, l)
    BY <1>1, <2>4
  <2> QED
    BY <2>3, <2>4, <2>5
<1> QED
  BY <1>2, <1>3, <1>4 DEF Reached

\* The walk starts at the least value of both samples.
LEMMA StartsAtTheLeast ==
    ASSUME NEW a, NEW b, Samples(a, b), NEW v \in Values(a, b)
    PROVE  ValueAt(a, b, <<0, 0>>) <= v
<1>1. <<0, 0>> \in Positions(a, b) /\ ~Exhausted(a, b, <<0, 0>>)
  BY WalkReturns
<1> DEFINE x == ValueAt(a, b, <<0, 0>>)
           s == Sorted(a, 1)
           t == Sorted(b, 1)
<1>2. /\ s \in DOMAIN a /\ t \in DOMAIN b /\ x \in Int /\ x <= s /\ x <= t
  <2>1. <<0, 0>>[1] + 1 = 1 /\ <<0, 0>>[2] + 1 = 1
    OBVIOUS
  <2> QED
    BY <1>1, <2>1, ValueFacts
<1>3. /\ DOMAIN a \subseteq Int /\ DOMAIN b \subseteq Int /\ Sample(a) /\ Sample(b)
      /\ v \in Int /\ 1 \in 1..Total(a) /\ 1 \in 1..Total(b)
  BY SamplesFacts
<1> HIDE DEF x
<1>4. ASSUME NEW c, Sample(c), 1 \in 1..Total(c), v \in DOMAIN c
      PROVE  Sorted(c, 1) <= v
  <2>1. AtMost(c, v) > 0 /\ AtMost(c, v) \in Int
    <3>1. v <= v
      BY <1>3
    <3> QED
      BY <1>3, <1>4, <3>1, AtMostFacts
  <2>2. AtMost(c, v) >= 1
    BY <2>1
  <2> QED
    BY <1>4, <2>2, SortedFacts
<1>5. s <= v \/ t <= v
  BY <1>3, <1>4 DEF Values
<1>6. s \in Int /\ t \in Int
  BY <1>2, <1>3
<1> HIDE DEF s, t
<1>7. x <= v
  BY <1>2, <1>3, <1>5, <1>6
<1> QED
  BY <1>7 DEF x

\* What ks_statistic returns is the largest gap between the two samples.
LEMMA KsIsLargest ==
    ASSUME NEW a, NEW b, Samples(a, b)
    PROVE  KsStatistic(a, b) = Max({GapAt(a, b, v) : v \in Values(a, b)})
<1> DEFINE S == ToCome(a, b, <<0, 0>>)
           V == Values(a, b)
<1>1. S = {v \in V : Reached(a, b, v)}
  BY StartsAtTheLeast DEF ToCome
<1>2. KsStatistic(a, b) = Max({GapAt(a, b, v) : v \in S})
  BY WalkReturns
<1>3. V # {} /\ V \subseteq V
  BY DEF Samples, Sample, Values
<1> HIDE DEF S, V
<1>4. PICK x \in V : \A u \in V : GapAt(a, b, u) <= GapAt(a, b, x)
  BY <1>3, LargestGap DEF V
<1>5. PICK l \in V : Reached(a, b, l) /\ GapAt(a, b, x) <= GapAt(a, b, l)
  BY LargestIsReached DEF V
<1>6. \A u \in V : GapAt(a, b, u) \in Nat
  BY <1>3, LargestGap DEF V
<1>7. \A u \in V : GapAt(a, b, u) <= GapAt(a, b, l)
  <2> SUFFICES ASSUME NEW u \in V PROVE GapAt(a, b, u) <= GapAt(a, b, l)
    OBVIOUS
  <2>1. GapAt(a, b, u) \in Nat /\ GapAt(a, b, x) \in Nat /\ GapAt(a, b, l) \in Nat
    BY <1>6
  <2>2. GapAt(a, b, u) <= GapAt(a, b, x)
    BY <1>4
  <2> QED
    BY <1>5, <2>1, <2>2
<1>8. l \in S /\ S \subseteq V
  BY <1>1, <1>5
<1>9. Max({GapAt(a, b, v) : v \in S}) = GapAt(a, b, l)
  <2>1. \A u \in S : GapAt(a, b, u) <= GapAt(a, b, l)
    BY <1>7, <1>8
  <2>2. S \subseteq Values(a, b) /\ S # {}
    BY <1>8 DEF V
  <2> QED
    BY <1>8, <2>1, <2>2, LargestGap
<1>10. Max({GapAt(a, b, v) : v \in V}) = GapAt(a, b, l)
  BY <1>3, <1>7, LargestGap DEF V
<1> QED
  BY <1>2, <1>9, <1>10 DEF V

LEMMA KsOfItself == ASSUME NEW a, Sample(a) PROVE KsStatistic(a, a) = 0
<1>1. Samples(a, a) /\ Values(a, a) = DOMAIN a /\ DOMAIN a # {} /\ DOMAIN a \subseteq Int
  BY DEF Samples, Values, Sample
<1>2. ASSUME NEW v \in DOMAIN a PROVE GapAt(a, a, v) = 0
  <2> DEFINE x == AtMost(a, v) * Total(a)
  <2>1. GapAt(a, a, v) = IF x - x < 0 THEN -(x - x) ELSE x - x
    BY DEF GapAt, Gap
  <2>2. x \in Int
    <3>1. AtMost(a, v) \in Int /\ Total(a) \in Int
      BY <1>1, AtMostFacts
    <3> QED
      BY <3>1
  <2> HIDE DEF x
  <2> QED
    BY <2>1, <2>2
<1>3. {GapAt(a, a, v) : v \in DOMAIN a} = {0}
  BY <1>1, <1>2
<1>4. Max({0}) = 0
  BY MaxOf
<1> QED
  BY <1>1, <1>3, <1>4, KsIsLargest

-----------------------------------------------------------------------------
(* The loop.                                                               *)

\* The baseline is made of the grounded cases, and whatever had retrieved
\* nothing was refused.
BaselineInv ==
    baseline # None =>
        /\ baseline.stats.n \in Nat \ {0}
        /\ baseline.stats.n = Cardinality(Grounded(Cases))
        /\ baseline.stats.refused \in Nat /\ baseline.stats.ungrounded \in Nat
        /\ baseline.stats.ungrounded <= baseline.stats.refused
        /\ baseline.stats.refused <= baseline.stats.n

\* A record of the window says whether the query was refused.
RecordsSayRefused ==
    \A r \in DOMAIN window : "refused" \in DOMAIN r /\ r = [f \in DOMAIN r |-> r[f]]

LoopInv ==
    /\ LoopTypeOK
    /\ RecordsSayRefused
    /\ FiniteBag(window)
    /\ BaselineInv

LEMMA GoldenFacts ==
    ASSUME LoopTypeOK
    PROVE  /\ IsFiniteSet(Cases)
           /\ settings \in Settings
           /\ Loadable(golden) =>
                /\ \A c, k \in Cases : c.id = k.id => c = k
                /\ \A c \in Cases : c.question \in DOMAIN Ranked[settings.size]
<1>1. golden \in GoldenFiles /\ settings \in Configs
  BY DEF LoopTypeOK
<1>2. golden \in Seq(Range(golden)) /\ DOMAIN golden = 1..Len(golden) /\ Len(golden) \in Nat
  BY <1>1, GoldenAssumption, LenProperties
<1>3. IsFiniteSet(Cases)
  <2>1. golden \in [1..Len(golden) -> Range(golden)]
    BY <1>2
  <2>2. golden \in Surjection(1..Len(golden), Range(golden))
    BY <2>1, Fun_RangeProperties
  <2>3. IsFiniteSet(1..Len(golden))
    BY <1>2, FS_Interval
  <2> QED
    BY <2>2, <2>3, FS_Surjection DEF Cases
<1>4. settings \in Settings
  BY <1>1, ConfigAssumption DEF Settings
<1>5. settings.size \in DOMAIN Ranked
  BY <1>4 DEF Settings, ConfigOf
<1>6. ASSUME Loadable(golden), NEW c \in Cases
      PROVE  /\ c.question \in DOMAIN Ranked[settings.size]
             /\ \A k \in Cases : c.id = k.id => c = k
  <2>1. PICK i \in DOMAIN golden : c = golden[i]
    BY DEF Cases, Range
  <2>2. c.question # None
    BY <1>6, <2>1 DEF Loadable
  <2>3. c.question \in DOMAIN Ranked[settings.size] \cup {None}
    BY <1>1, <1>5, QuestionAssumption DEF Cases
  <2>4. ASSUME NEW k \in Cases, c.id = k.id PROVE c = k
    <3>1. PICK j \in DOMAIN golden : k = golden[j]
      BY DEF Cases, Range
    <3>2. i = j
      BY <1>6, <2>1, <2>4, <3>1 DEF Loadable
    <3> QED
      BY <2>1, <3>1, <3>2
  <2> QED
    BY <2>2, <2>3, <2>4
<1> QED
  BY <1>3, <1>4, <1>6


LEMMA EmptyWindow == FiniteBag(EmptyBag) /\ Total(EmptyBag) = 0 /\ DOMAIN EmptyBag = {}
<1>1. DOMAIN EmptyBag = {} /\ EmptyBag = [x \in {} |-> 1]
  BY DEF EmptyBag, SetToBag
<1>2. IsABag(EmptyBag)
  BY <1>1 DEF IsABag
<1>3. Queries(EmptyBag, DOMAIN EmptyBag) = {}
  BY <1>1 DEF Queries
<1> QED
  BY <1>1, <1>2, <1>3, FS_EmptySet DEF FiniteBag, Total, Tally

LEMMA LoopInvInit == LoopInit => LoopInv
<1> SUFFICES ASSUME LoopInit PROVE LoopInv
  OBVIOUS
<1>1. /\ golden \in GoldenFiles /\ settings \in Configs /\ version \in PromptVersions
      /\ served = None /\ baseline = None /\ evaluated = None
      /\ window = EmptyBag /\ versions = {} /\ changes = 0
  BY DEF LoopInit, Configs
<1>2. LoopTypeOK
  BY <1>1, EmptyWindow, LoopBoundAssumption DEF LoopTypeOK, FiniteBag
<1> QED
  BY <1>1, <1>2, EmptyWindow DEF LoopInv, BaselineInv, RecordsSayRefused

LEMMA TuneStep == LoopInv /\ Tune => LoopInv'
<1> SUFFICES ASSUME LoopInv, Tune PROVE LoopInv'
  OBVIOUS
<1>1. /\ changes < MaxChanges /\ changes' = changes + 1
      /\ UNCHANGED <<golden, version, served, baseline, evaluated, window, versions>>
      /\ \E p \in Best(BuildGrid(GridPoints), Cases) : settings' = p
  BY DEF Tune, Change
<1>2. settings' \in Configs
  BY <1>1 DEF Best, BuildGrid, Configs
<1>3. LoopTypeOK'
  BY <1>1, <1>2, LoopBoundAssumption
     DEF LoopInv, LoopTypeOK, Queries, Total, Tally, Served, Configs
<1> QED
  BY <1>1, <1>3 DEF LoopInv, BaselineInv, RecordsSayRefused, FiniteBag, Cases

LEMMA RepromptStep == \A v \in PromptVersions : LoopInv /\ Reprompt(v) => LoopInv'
<1> SUFFICES ASSUME NEW v \in PromptVersions, LoopInv, Reprompt(v) PROVE LoopInv'
  OBVIOUS
<1>1. /\ changes < MaxChanges /\ changes' = changes + 1 /\ version' = v
      /\ UNCHANGED <<golden, settings, served, baseline, evaluated, window, versions>>
  BY DEF Reprompt, Change
<1>2. LoopTypeOK'
  BY <1>1, LoopBoundAssumption DEF LoopInv, LoopTypeOK
<1> QED
  BY <1>1, <1>2 DEF LoopInv, BaselineInv, RecordsSayRefused, FiniteBag, Cases

\* Cases found by their ids are found by being grounded, where ids are distinct.
LEMMA ScoredById ==
    ASSUME NEW scores, \A c, k \in DOMAIN scores : c.id = k.id => c = k,
           \A c \in DOMAIN scores : scores[c].case_id = c.id
    PROVE  Answerable(scores) = Grounded(DOMAIN scores)
<1> DEFINE G == Grounded(DOMAIN scores)
           scored == Answerable(scores)
<1>1. scored = {c \in DOMAIN scores : scores[c].case_id \in {k.id : k \in G}}
  BY DEF Answerable, ScoredAs
<1>2. G \subseteq DOMAIN scores
  BY DEF Grounded
<1> HIDE DEF G, scored
<1>3. ASSUME NEW c \in scored PROVE c \in G
  <2>1. c \in DOMAIN scores /\ c.id \in {k.id : k \in G}
    BY <1>1
  <2>2. PICK k \in G : c.id = k.id
    BY <2>1
  <2> QED
    BY <1>2, <2>1, <2>2
<1>4. ASSUME NEW c \in G PROVE c \in scored
  BY <1>1, <1>2
<1> QED
  BY <1>3, <1>4 DEF G, scored

\* An evaluation scores the grounded cases of a file whose ids are distinct,
\* and its records refuse wherever they retrieve nothing.
LEMMA EvaluateStep == LoopInv /\ Evaluate => LoopInv'
<1> SUFFICES ASSUME LoopInv, Evaluate PROVE LoopInv'
  OBVIOUS
<1>1. /\ changes < MaxChanges /\ changes' = changes + 1 /\ Loadable(golden)
      /\ UNCHANGED <<golden, settings, version, served, window, versions>>
  BY DEF Evaluate, Change
<1>2. PICK answers \in [Cases -> {"right", "wrong", "refusal"}] :
          LET hits   == [c \in Cases |-> Retrieve(c.question, settings)]
              scores == [c \in Cases |-> ScoreCase(c, hits[c], answers[c])]
              scored == Answerable(scores)
          IN  /\ \A c \in Cases : answers[c] \in Answers(hits[c])
              /\ scored # {}
              /\ baseline' = [stats   |-> Summarise(RecordsOf(scored, scores)),
                              version |-> version]
              /\ evaluated' = [records |-> RecordsOf(scored, scores),
                               passed  |-> Breaches(EvalSummary(scores)) = {}]
  BY DEF Evaluate
<1> DEFINE hits   == [c \in Cases |-> Retrieve(c.question, settings)]
           scores == [c \in Cases |-> ScoreCase(c, hits[c], answers[c])]
           scored == Answerable(scores)
<1>3. /\ \A c \in Cases : answers[c] \in Answers(hits[c])
      /\ scored # {}
      /\ baseline' = [stats |-> Summarise(RecordsOf(scored, scores)), version |-> version]
      /\ evaluated' = [records |-> RecordsOf(scored, scores),
                       passed  |-> Breaches(EvalSummary(scores)) = {}]
  BY <1>2
<1>4. /\ IsFiniteSet(Cases) /\ settings \in Settings
      /\ \A c, k \in Cases : c.id = k.id => c = k
      /\ \A c \in Cases : c.question \in DOMAIN Ranked[settings.size]
  BY <1>1, GoldenFacts DEF LoopInv
<1>5. DOMAIN scores = Cases /\ \A c \in Cases : scores[c] = ScoreCase(c, hits[c], answers[c])
  OBVIOUS
<1>6. \A c \in Cases : hits[c] = Retrieve(c.question, settings)
  OBVIOUS
<1> HIDE DEF hits, scores
<1>7. \A c \in Cases : scores[c].case_id = c.id
                       /\ scores[c].record = QueryRecord(hits[c], answers[c])
  <2> SUFFICES ASSUME NEW c \in Cases
               PROVE  /\ scores[c].case_id = c.id
                      /\ scores[c].record = QueryRecord(hits[c], answers[c])
    OBVIOUS
  <2> DEFINE s == ScoreCase(c, hits[c], answers[c])
  <2>1. scores[c] = s
    BY <1>5
  <2>2. s.case_id = c.id /\ s.record = QueryRecord(hits[c], answers[c])
    BY DEF ScoreCase
  <2> HIDE DEF s
  <2> QED
    BY <2>1, <2>2
<1>8. scored = Grounded(Cases)
  BY <1>4, <1>5, <1>7, ScoredById
<1> HIDE DEF scored
<1>9. scored \subseteq Cases /\ IsFiniteSet(scored)
  BY <1>4, <1>8, FS_Subset DEF Grounded
<1>10. ASSUME NEW c \in scored
       PROVE  scores[c].record.retrieved_chunks = 0 => scores[c].record.refused
  <2>1. /\ scores[c].record.refused = (answers[c] = "refusal")
        /\ scores[c].record.retrieved_chunks = Len(hits[c])
    <3> DEFINE x == QueryRecord(hits[c], answers[c])
    <3>1. x.refused = (answers[c] = "refusal") /\ x.retrieved_chunks = Len(hits[c])
      BY DEF QueryRecord
    <3>2. scores[c].record = x
      BY <1>7, <1>9
    <3> HIDE DEF x
    <3> QED
      BY <3>1, <3>2
  <2>2. Len(hits[c]) = 0 => hits[c] = <<>>
    <3>1. c \in Cases /\ c.question \in DOMAIN Ranked[settings.size]
      BY <1>4, <1>9
    <3>2. hits[c] = Retrieve(c.question, settings)
      BY <1>6, <3>1
    <3>3. Len(Retrieve(c.question, settings)) = 0 <=> Retrieve(c.question, settings) = <<>>
      BY <1>4, <3>1, SearchFacts
    <3> QED
      BY <3>2, <3>3
  <2>3. hits[c] = <<>> => answers[c] = "refusal"
    BY <1>3, <1>9 DEF Answers
  <2> QED
    BY <2>1, <2>2, <2>3
<1>11. LET b == Summarise(RecordsOf(scored, scores))
       IN  /\ b.n \in Nat \ {0} /\ b.n = Cardinality(scored)
           /\ b.refused \in Nat /\ b.ungrounded \in Nat
           /\ b.ungrounded <= b.refused /\ b.refused <= b.n
  BY <1>3, <1>9, <1>10, BaselineCounts
<1>12. baseline'.stats = Summarise(RecordsOf(scored, scores))
       /\ baseline'.version = version /\ evaluated'.passed \in BOOLEAN
  BY <1>3
<1>13. BaselineInv'
  BY <1>1, <1>8, <1>11, <1>12 DEF BaselineInv, Cases
<1>14. LoopTypeOK'
  <2>1. baseline'.stats.n > 0
    BY <1>11, <1>12
  <2> QED
    BY <1>1, <1>12, <2>1, LoopBoundAssumption DEF LoopInv, LoopTypeOK
<1> QED
  BY <1>1, <1>13, <1>14 DEF LoopInv, RecordsSayRefused, FiniteBag

LEMMA DeployStep ==
    \A floor \in FloorsInEnv \cup {settings.floor} : LoopInv /\ Deploy(floor) => LoopInv'
<1> SUFFICES ASSUME NEW floor \in FloorsInEnv \cup {settings.floor}, LoopInv, Deploy(floor)
             PROVE  LoopInv'
  OBVIOUS
<1>1. /\ changes < MaxChanges /\ changes' = changes + 1
      /\ served' = [config |-> [settings EXCEPT !.floor = floor], version |-> version]
      /\ UNCHANGED <<golden, settings, version, baseline, evaluated, window, versions>>
  BY DEF Deploy, Change
<1>2. settings \in Configs /\ settings \in Settings
  BY GoldenFacts DEF LoopInv, LoopTypeOK
<1>3. [settings EXCEPT !.floor = floor] \in Served
  <2>1. CASE floor \in FloorsInEnv
    BY <1>2, <2>1 DEF Served
  <2>2. CASE floor = settings.floor
    <3>1. [settings EXCEPT !.floor = floor] = settings
      BY <1>2, <2>2 DEF Settings, ConfigOf
    <3> QED
      BY <1>2, <3>1 DEF Served
  <2> QED
    BY <2>1, <2>2
<1>4. served'.config \in Served /\ served'.version \in PromptVersions
  BY <1>1, <1>3 DEF LoopInv, LoopTypeOK
<1>5. LoopTypeOK'
  BY <1>1, <1>4, LoopBoundAssumption DEF LoopInv, LoopTypeOK
<1> QED
  BY <1>1, <1>5 DEF LoopInv, BaselineInv, RecordsSayRefused, FiniteBag, Cases

LEMMA QueryStep == \A q, k : LoopInv /\ Query(q, k) => LoopInv'
<1> SUFFICES ASSUME NEW q, NEW k, LoopInv, Query(q, k) PROVE LoopInv'
  OBVIOUS
<1>1. /\ served # None /\ Total(window) < MaxWindow
      /\ versions' = versions \cup {served.version}
      /\ UNCHANGED <<golden, settings, version, served, baseline, evaluated, changes>>
      /\ \E hits, answer : window' = window (+) SetToBag({QueryRecord(hits, answer)})
  BY DEF Query
<1>2. PICK hits, answer : window' = window (+) SetToBag({QueryRecord(hits, answer)})
  BY <1>1
<1> DEFINE r == QueryRecord(hits, answer)
<1>3. "refused" \in DOMAIN r /\ r = [f \in DOMAIN r |-> r[f]]
  BY DEF QueryRecord
<1> HIDE DEF r
<1>4. FiniteBag(window) /\ window' = window (+) SetToBag({r})
  BY <1>2 DEF r, LoopInv
<1>5. FiniteBag(window)' /\ DOMAIN window' = DOMAIN window \cup {r}
  BY <1>4, QueryAdded DEF FiniteBag
<1>6. Total(window') = Total(window) + 1
  BY <1>4, TotalAdded
<1>7. Total(window) \in Nat
  BY <1>4, TallyFacts DEF Total
<1>8. LoopTypeOK'
  BY <1>1, <1>5, <1>6, <1>7, LoopBoundAssumption
     DEF LoopInv, LoopTypeOK, FiniteBag, Total, Tally, Queries
<1> QED
  BY <1>1, <1>3, <1>5, <1>8 DEF LoopInv, BaselineInv, RecordsSayRefused, Cases

LEMMA NextWindowStep == LoopInv /\ NextWindow => LoopInv'
<1> SUFFICES ASSUME LoopInv, NextWindow PROVE LoopInv'
  OBVIOUS
<1>1. /\ window' = EmptyBag /\ versions' = {}
      /\ UNCHANGED <<golden, settings, version, served, baseline, evaluated, changes>>
  BY DEF NextWindow
<1>2. IsABag(window') /\ Total(window') = 0 /\ FiniteBag(window') /\ DOMAIN window' = {}
  BY <1>1, EmptyWindow DEF FiniteBag
<1>3. LoopTypeOK'
  BY <1>1, <1>2, LoopBoundAssumption DEF LoopInv, LoopTypeOK, Total, Tally, Queries
<1> QED
  BY <1>1, <1>2, <1>3 DEF LoopInv, BaselineInv, RecordsSayRefused, FiniteBag, Cases, Queries

LEMMA LoopInvNext == LoopInv /\ [LoopNext]_loopVars => LoopInv'
<1> SUFFICES ASSUME LoopInv, [LoopNext]_loopVars PROVE LoopInv'
  OBVIOUS
<1>1. CASE Operate
  BY <1>1, TuneStep, RepromptStep, EvaluateStep, DeployStep DEF Operate
<1>2. CASE Traffic
  BY <1>2, QueryStep, NextWindowStep DEF Traffic
<1>3. CASE UNCHANGED loopVars
  BY <1>3 DEF loopVars, LoopInv, LoopTypeOK, RecordsSayRefused, FiniteBag, BaselineInv, Cases
<1> QED
  BY <1>1, <1>2, <1>3 DEF LoopNext

LEMMA LoopInvariant == LoopSpec => []LoopInv
  BY LoopInvInit, LoopInvNext, PTL DEF LoopSpec


\* Every record says how near the nearest chunk was and how many were used.
Measured(bag) ==
    \A r \in DOMAIN bag : r.top_similarity \in Int /\ r.retrieved_chunks \in Nat

LEMMA SimilaritiesAreASample ==
    ASSUME NEW bag, FiniteBag(bag), DOMAIN bag # {}, Measured(bag)
    PROVE  Sample(Summarise(bag).similarities)
<1> DEFINE D == DOMAIN bag
           V == {r.top_similarity : r \in D}
           At(v) == {r \in D : r.top_similarity = v}
           a == [v \in V |-> Tally(bag, At(v))]
<1>1. Summarise(bag).similarities = a
  BY DEF Summarise
<1>2. IsFiniteSet(D)
  BY FiniteDomain
<1>3. V \subseteq Int /\ V # {}
  BY DEF Measured
<1>4. IsFiniteSet(V)
  <2> DEFINE f == [r \in D |-> r.top_similarity]
  <2>1. f \in [D -> V] /\ \A v \in V : \E r \in D : f[r] = v
    OBVIOUS
  <2> HIDE DEF f, D, V
  <2>2. f \in Surjection(D, V)
    BY <2>1, Fun_IsSurj
  <2> QED
    BY <1>2, <2>2, FS_Surjection
<1>5. ASSUME NEW v \in V PROVE Tally(bag, At(v)) \in 1..Total(bag)
  <2>0. Total(bag) = Tally(bag, D)
    BY DEF Total
  <2>1. PICK r \in D : r \in At(v)
    OBVIOUS
  <2>2. At(v) \subseteq D /\ {} \subseteq D /\ {} \subseteq At(v)
    OBVIOUS
  <2> HIDE DEF At
  <2>3. /\ Tally(bag, {}) \in Nat /\ Tally(bag, At(v)) \in Nat /\ Tally(bag, D) \in Nat
        /\ Tally(bag, At(v)) <= Tally(bag, D)
    BY <2>2, TallyFacts
  <2>4. Tally(bag, {}) < Tally(bag, At(v))
    BY <2>1, <2>2, TallyGrows
  <2> QED
    BY <2>0, <2>3, <2>4
<1>6. DOMAIN a = V /\ \A v \in V : a[v] = Tally(bag, At(v))
  OBVIOUS
<1>7. a = [v \in V |-> a[v]]
  OBVIOUS
<1>8. Total(bag) \in Nat
  BY TallyFacts DEF Total
<1> HIDE DEF a, V, At, D
<1>9. \A v \in V : a[v] \in 1..Total(bag)
  BY <1>5, <1>6
<1>10. IsABag(a)
  <2>1. \A v \in V : a[v] \in {n \in Nat : n > 0}
    BY <1>8, <1>9
  <2> QED
    BY <1>6, <1>7, <2>1 DEF IsABag
<1>11. IsFiniteSet(Queries(a, DOMAIN a))
  <2>1. IsFiniteSet(V \X (1..Total(bag)))
    <3>1. IsFiniteSet(1..Total(bag))
      BY <1>8, FS_Interval
    <3> QED
      BY <1>4, <3>1, FS_Product
  <2>2. Queries(a, DOMAIN a) \subseteq V \X (1..Total(bag))
    BY <1>6, <1>8, <1>9 DEF Queries
  <2> QED
    BY <2>1, <2>2, FS_Subset
<1> QED
  BY <1>1, <1>3, <1>6, <1>10, <1>11 DEF Sample, FiniteBag

LEMMA ChunksCounted ==
    ASSUME NEW bag, FiniteBag(bag), Measured(bag)
    PROVE  Summarise(bag).chunks \in Nat
<1> DEFINE Q == Queries(bag, DOMAIN bag)
           Of(q) == {q} \X (1..q[1].retrieved_chunks)
           P == {Of(q) : q \in Q}
<1>1. Summarise(bag).chunks = Cardinality(UNION P)
  BY DEF Summarise, Retrieved
<1>2. ASSUME NEW q \in Q PROVE IsFiniteSet(Of(q))
  <2>1. q[1] \in DOMAIN bag
    BY InQueries
  <2>2. q[1].retrieved_chunks \in Nat
    BY <2>1 DEF Measured
  <2>3. IsFiniteSet({q})
    BY FS_Singleton
  <2> DEFINE k == q[1].retrieved_chunks
  <2>4. IsFiniteSet(1..k)
    <3> HIDE DEF k
    <3> QED
      BY <2>2, FS_Interval DEF k
  <2> HIDE DEF k
  <2> QED
    BY <2>3, <2>4, FS_Product DEF k
<1>3. IsFiniteSet(P)
  <2> DEFINE f == [q \in Q |-> Of(q)]
  <2>1. f \in [Q -> P] /\ \A x \in P : \E q \in Q : f[q] = x
    OBVIOUS
  <2>2. IsFiniteSet(Q)
    BY DEF FiniteBag
  <2> HIDE DEF f, Q, P
  <2>3. f \in Surjection(Q, P)
    BY <2>1, Fun_IsSurj
  <2> QED
    BY <2>2, <2>3, FS_Surjection
<1>4. \A x \in P : IsFiniteSet(x)
  BY <1>2
<1> HIDE DEF P
<1>5. IsFiniteSet(UNION P)
  BY <1>3, <1>4, FS_UNION
<1> QED
  BY <1>1, <1>5, FS_CardinalityType

-----------------------------------------------------------------------------
(* What the monitor compares.                                              *)

\* A baseline sums up the records of the run it is from, as the window is
\* summed up, and both were measured.
ComparedInv ==
    /\ Measured(window)
    /\ baseline # None =>
          /\ FiniteBag(evaluated.records) /\ DOMAIN evaluated.records # {}
          /\ Measured(evaluated.records)
          /\ baseline.stats = Summarise(evaluated.records)

LEMMA ComparedAfterEvaluate == LoopInv /\ ComparedInv /\ Evaluate => ComparedInv'
<1> SUFFICES ASSUME LoopInv, ComparedInv, Evaluate PROVE ComparedInv'
  OBVIOUS
<1>1. Loadable(golden) /\ window' = window
  BY DEF Evaluate
<1>2. PICK answers \in [Cases -> {"right", "wrong", "refusal"}] :
          LET hits   == [c \in Cases |-> Retrieve(c.question, settings)]
              scores == [c \in Cases |-> ScoreCase(c, hits[c], answers[c])]
              scored == Answerable(scores)
          IN  /\ scored # {}
              /\ baseline' = [stats   |-> Summarise(RecordsOf(scored, scores)),
                              version |-> version]
              /\ evaluated' = [records |-> RecordsOf(scored, scores),
                               passed  |-> Breaches(EvalSummary(scores)) = {}]
  BY DEF Evaluate
<1> DEFINE hits   == [c \in Cases |-> Retrieve(c.question, settings)]
           scores == [c \in Cases |-> ScoreCase(c, hits[c], answers[c])]
           scored == Answerable(scores)
           bag    == RecordsOf(scored, scores)
<1>3. /\ scored # {} /\ baseline'.stats = Summarise(bag)
      /\ evaluated' = [records |-> bag, passed |-> Breaches(EvalSummary(scores)) = {}]
  BY <1>2
<1>4. evaluated'.records = bag
  <2> HIDE DEF bag
  <2> QED
    BY <1>3
<1>5. /\ IsFiniteSet(Cases) /\ settings \in Settings
      /\ \A c \in Cases : c.question \in DOMAIN Ranked[settings.size]
  BY <1>1, GoldenFacts DEF LoopInv
<1>6. \A c \in Cases : scores[c].record = QueryRecord(Retrieve(c.question, settings), answers[c])
  <2> SUFFICES ASSUME NEW c \in Cases
               PROVE  scores[c].record
                        = QueryRecord(Retrieve(c.question, settings), answers[c])
    OBVIOUS
  <2> DEFINE s == ScoreCase(c, Retrieve(c.question, settings), answers[c])
  <2>1. scores[c] = s
    OBVIOUS
  <2>2. s.record = QueryRecord(Retrieve(c.question, settings), answers[c])
    BY DEF ScoreCase
  <2> HIDE DEF s, scores
  <2> QED
    BY <2>1, <2>2
<1>7. scored \subseteq Cases
  BY DEF Answerable, ScoredAs
<1> HIDE DEF hits, scores, scored
<1>8. IsFiniteSet(scored)
  BY <1>5, <1>7, FS_Subset
<1>9. FiniteBag(bag) /\ DOMAIN bag = {scores[c].record : c \in scored}
  BY <1>8, RecordsCounted
<1> HIDE DEF bag
<1>10. Measured(bag)
  <2> SUFFICES ASSUME NEW r \in DOMAIN bag
               PROVE  r.top_similarity \in Int /\ r.retrieved_chunks \in Nat
    BY DEF Measured
  <2>1. PICK c \in scored : r = scores[c].record
    BY <1>9
  <2> QED
    BY <1>5, <1>6, <1>7, <2>1, RecordFacts
<1>11. DOMAIN bag # {}
  BY <1>3, <1>9
<1> QED
  BY <1>1, <1>3, <1>4, <1>9, <1>10, <1>11
     DEF ComparedInv, FiniteBag, Measured

LEMMA ComparedAfterQuery ==
    ASSUME LoopInv, ComparedInv, NEW question \in Questions, NEW k \in Nat \ {0},
           Query(question, k)
    PROVE  ComparedInv'
<1> DEFINE config == [served.config EXCEPT !.top_k = k]
<1>1. /\ served # None /\ UNCHANGED <<baseline, evaluated>>
      /\ \E answer : window' = window (+) SetToBag({QueryRecord(Retrieve(question, config), answer)})
  BY DEF Query
<1>2. config \in Settings /\ question \in DOMAIN Ranked[config.size]
  <2>1. served.config \in Served
    BY <1>1 DEF LoopInv, LoopTypeOK
  <2>2. Served \subseteq Settings
    BY ConfigAssumption DEF Served, Settings, ConfigOf
  <2>3. served.config \in Settings
    BY <2>1, <2>2
  <2>4. config \in Settings /\ config.size \in DOMAIN Ranked
    BY <2>3 DEF Settings, ConfigOf
  <2> QED
    BY <2>4, QuestionAssumption
<1> HIDE DEF config
<1>3. PICK answer : window' = window (+) SetToBag({QueryRecord(Retrieve(question, config), answer)})
  BY <1>1
<1> DEFINE r == QueryRecord(Retrieve(question, config), answer)
<1>4. r.top_similarity \in Int /\ r.retrieved_chunks \in Nat
  BY <1>2, RecordFacts
<1> HIDE DEF r
<1>5. DOMAIN window' = DOMAIN window \cup {r}
  <2>1. FiniteBag(window) /\ window' = window (+) SetToBag({r})
    BY <1>3 DEF r, LoopInv
  <2> QED
    BY <2>1, QueryAdded
<1>6. Measured(window)'
  BY <1>4, <1>5 DEF ComparedInv, Measured
<1> QED
  BY <1>1, <1>6 DEF ComparedInv

LEMMA ComparedInvariant == LoopSpec => []ComparedInv
<1>1. LoopInit => ComparedInv
  <2> SUFFICES ASSUME LoopInit PROVE ComparedInv
    OBVIOUS
  <2>1. window = EmptyBag /\ baseline = None
    BY DEF LoopInit
  <2> QED
    BY <2>1, EmptyWindow DEF ComparedInv, Measured
<1>2. LoopInv /\ ComparedInv /\ [LoopNext]_loopVars => ComparedInv'
  <2> SUFFICES ASSUME LoopInv, ComparedInv, [LoopNext]_loopVars PROVE ComparedInv'
    OBVIOUS
  <2>1. CASE Evaluate
    BY <2>1, ComparedAfterEvaluate
  <2>2. CASE UNCHANGED <<baseline, evaluated, window>>
    BY <2>2 DEF ComparedInv, Measured, FiniteBag
  <2>3. CASE NextWindow
    <3>1. window' = EmptyBag /\ UNCHANGED <<baseline, evaluated>>
      BY <2>3 DEF NextWindow
    <3> QED
      BY <3>1, EmptyWindow DEF ComparedInv, Measured
  <2>4. ASSUME NEW question \in Questions,
               NEW k \in RequestTopKs \cup
                   {IF served = None THEN DEFAULTS.top_k ELSE served.config.top_k},
               Query(question, k)
        PROVE  ComparedInv'
    <3>1. served # None /\ served.config \in Served
      BY <2>4 DEF Query, LoopInv, LoopTypeOK
    <3>2. Served \subseteq Settings
      BY ConfigAssumption DEF Served, Settings, ConfigOf
    <3>3. served.config.top_k \in Nat \ {0}
      BY <3>1, <3>2 DEF Settings, ConfigOf
    <3>4. k \in Nat \ {0}
      BY <2>4, <3>1, <3>3, RequestAssumption
    <3> QED
      BY <2>4, <3>4, ComparedAfterQuery
  <2>5. \/ Evaluate \/ NextWindow \/ UNCHANGED <<baseline, evaluated, window>>
        \/ \E q \in Questions : \E k \in RequestTopKs \cup
              {IF served = None THEN DEFAULTS.top_k ELSE served.config.top_k} : Query(q, k)
    BY DEF LoopNext, Operate, Traffic, Tune, Reprompt, Deploy, loopVars
  <2> QED
    BY <2>1, <2>2, <2>3, <2>4, <2>5
<1> QED
  BY <1>1, <1>2, LoopInvariant, PTL DEF LoopSpec

\* A window that is scored holds queries, and was measured as the baseline was.
LEMMA ScoredFacts ==
    ASSUME LoopInv, ComparedInv, Scored
    PROVE  /\ Sample(Summarise(window).similarities)
           /\ Sample(baseline.stats.similarities)
           /\ Summarise(window).n \in Nat \ {0} /\ Summarise(window).n >= MIN_WINDOW
           /\ Summarise(window).chunks \in Nat
<1>1. /\ FiniteBag(window) /\ Measured(window)
      /\ FiniteBag(evaluated.records) /\ Measured(evaluated.records)
      /\ DOMAIN evaluated.records # {}
      /\ baseline.stats = Summarise(evaluated.records)
  BY DEF LoopInv, ComparedInv, Scored
<1>2. Summarise(window).n = Total(window) /\ Total(window) \in Nat
      /\ Total(window) >= MIN_WINDOW
  BY <1>1, SummaryCounts, TallyFacts DEF Total, Scored
<1>3. DOMAIN window # {}
  <2> SUFFICES ASSUME DOMAIN window = {} PROVE FALSE
    OBVIOUS
  <2>1. Queries(window, DOMAIN window) = {}
    BY DEF Queries
  <2>2. Total(window) = 0
    BY <2>1, FS_EmptySet DEF Total, Tally
  <2> QED
    BY <1>2, <2>2, DriftAssumption
<1>4. Sample(Summarise(window).similarities) /\ Sample(Summarise(evaluated.records).similarities)
  BY <1>1, <1>3, SimilaritiesAreASample
<1>5. Summarise(window).chunks \in Nat
  BY <1>1, ChunksCounted
<1> QED
  BY <1>1, <1>2, <1>4, <1>5, DriftAssumption

-----------------------------------------------------------------------------
(* Findings.                                                               *)

LEMMA FindingFacts ==
    ASSUME NEW signal, NEW warned, NEW alert
    PROVE  /\ \A f \in Finding(signal, warned, alert) : f.signal = signal
           /\ Finding(signal, warned, alert) # {} <=> warned
           /\ \A f \in Finding(signal, warned, alert) :
                 f.severity = IF alert THEN "alert" ELSE "warn"
<1> DEFINE found == [signal |-> signal, severity |-> IF alert THEN "alert" ELSE "warn"]
<1>1. Finding(signal, warned, alert) = IF warned THEN {found} ELSE {}
  BY DEF Finding
<1>2. found.signal = signal /\ found.severity = IF alert THEN "alert" ELSE "warn"
  OBVIOUS
<1> HIDE DEF found
<1>3. CASE warned
  BY <1>1, <1>2, <1>3
<1>4. CASE ~warned
  BY <1>1, <1>4
<1> QED
  BY <1>3, <1>4

\* In a window that is large enough, the findings that carry a rate's signal
\* are the ones its own test makes.
LEMMA RateFindings ==
    ASSUME NEW b, NEW w, NEW v, NEW vs, w.n \in Int, w.n >= MIN_WINDOW
    PROVE  LET findings == Compare(b, w, v, vs)
           IN  /\ {f \in findings : f.signal = "refusal_rate"}
                    = Finding("refusal_rate",
                              ProportionAtLeast(w.refused, w.n, b.refused, b.n, Z_WARN),
                              ProportionAtLeast(w.refused, w.n, b.refused, b.n, Z_ALERT))
               /\ {f \in findings : f.signal = "ungrounded_rate"}
                    = Finding("ungrounded_rate",
                              ProportionAtLeast(w.ungrounded, w.n, b.ungrounded, b.n, Z_WARN),
                              ProportionAtLeast(w.ungrounded, w.n, b.ungrounded, b.n, Z_ALERT))
               /\ {f \in findings : f.signal = "window"} = {}
<1> DEFINE refusal ==
               Finding("refusal_rate",
                       ProportionAtLeast(w.refused, w.n, b.refused, b.n, Z_WARN),
                       ProportionAtLeast(w.refused, w.n, b.refused, b.n, Z_ALERT))
           ungrounded ==
               Finding("ungrounded_rate",
                       ProportionAtLeast(w.ungrounded, w.n, b.ungrounded, b.n, Z_WARN),
                       ProportionAtLeast(w.ungrounded, w.n, b.ungrounded, b.n, Z_ALERT))
           d == KsStatistic(w.similarities, b.similarities)
           similarity ==
               Finding("top_similarity",
                       KsAtLeast(d, Total(w.similarities), Total(b.similarities), KS_WARN),
                       KsAtLeast(d, Total(w.similarities), Total(b.similarities), KS_ALERT))
           chunks ==
               Finding("retrieved_chunks",
                       b.chunks > 0 /\ 4 * w.chunks * b.n <= 3 * b.chunks * w.n,
                       5 * w.chunks * b.n <= 3 * b.chunks * w.n)
           prompts == Finding("prompt_version", vs \ {v} # {}, FALSE)
<1>1. Compare(b, w, v, vs)
        = ((((refusal \cup ungrounded) \cup similarity) \cup chunks) \cup prompts)
  <2>1. ~(w.n < MIN_WINDOW)
    BY DriftAssumption
  <2> QED
    BY <2>1 DEF Compare
<1>2. /\ \A f \in refusal : f.signal = "refusal_rate"
      /\ \A f \in ungrounded : f.signal = "ungrounded_rate"
      /\ \A f \in similarity : f.signal = "top_similarity"
      /\ \A f \in chunks : f.signal = "retrieved_chunks"
      /\ \A f \in prompts : f.signal = "prompt_version"
  <2>1. \A f \in refusal : f.signal = "refusal_rate"
    BY FindingFacts
  <2>2. \A f \in ungrounded : f.signal = "ungrounded_rate"
    BY FindingFacts
  <2>3. \A f \in similarity : f.signal = "top_similarity"
    BY FindingFacts
  <2>4. \A f \in chunks : f.signal = "retrieved_chunks"
    BY FindingFacts
  <2>5. \A f \in prompts : f.signal = "prompt_version"
    BY FindingFacts
  <2> QED
    BY <2>1, <2>2, <2>3, <2>4, <2>5
<1> HIDE DEF refusal, ungrounded, similarity, chunks, prompts
<1> DEFINE findings == Compare(b, w, v, vs)
<1>3. {f \in findings : f.signal = "refusal_rate"} = refusal
  BY <1>1, <1>2
<1>4. {f \in findings : f.signal = "ungrounded_rate"} = ungrounded
  BY <1>1, <1>2
<1>5. {f \in findings : f.signal = "window"} = {}
  BY <1>1, <1>2
<1> QED
  BY <1>3, <1>4, <1>5 DEF refusal, ungrounded

LEMMA SignalPresent ==
    ASSUME NEW findings, NEW signal
    PROVE  signal \in Signals(findings) <=> {f \in findings : f.signal = signal} # {}
  BY DEF Signals

LEMMA RateSignals ==
    ASSUME NEW b, NEW w, NEW v, NEW vs, w.n \in Int, w.n >= MIN_WINDOW
    PROVE  LET signals == Signals(Compare(b, w, v, vs))
           IN  /\ "refusal_rate" \in signals
                    <=> ProportionAtLeast(w.refused, w.n, b.refused, b.n, Z_WARN)
               /\ "ungrounded_rate" \in signals
                    <=> ProportionAtLeast(w.ungrounded, w.n, b.ungrounded, b.n, Z_WARN)
<1> DEFINE findings == Compare(b, w, v, vs)
<1>1. /\ {f \in findings : f.signal = "refusal_rate"}
           = Finding("refusal_rate",
                     ProportionAtLeast(w.refused, w.n, b.refused, b.n, Z_WARN),
                     ProportionAtLeast(w.refused, w.n, b.refused, b.n, Z_ALERT))
      /\ {f \in findings : f.signal = "ungrounded_rate"}
           = Finding("ungrounded_rate",
                     ProportionAtLeast(w.ungrounded, w.n, b.ungrounded, b.n, Z_WARN),
                     ProportionAtLeast(w.ungrounded, w.n, b.ungrounded, b.n, Z_ALERT))
  BY RateFindings
<1> HIDE DEF findings
<1>2. /\ {f \in findings : f.signal = "refusal_rate"} # {}
           <=> ProportionAtLeast(w.refused, w.n, b.refused, b.n, Z_WARN)
      /\ {f \in findings : f.signal = "ungrounded_rate"} # {}
           <=> ProportionAtLeast(w.ungrounded, w.n, b.ungrounded, b.n, Z_WARN)
  BY <1>1, FindingFacts
<1>3. /\ "refusal_rate" \in Signals(findings)
           <=> {f \in findings : f.signal = "refusal_rate"} # {}
      /\ "ungrounded_rate" \in Signals(findings)
           <=> {f \in findings : f.signal = "ungrounded_rate"} # {}
  BY SignalPresent
<1> QED
  BY <1>2, <1>3 DEF findings

-----------------------------------------------------------------------------
(* Theorems.                                                               *)

\* However the checkout is tuned, prompted, deployed and measured, what is
\* served is a configuration of the grid or its floor's override, a baseline
\* names a prompt version and is never empty, and no window outgrows its bound
\* (config.py, run_sweep.py, runner.py, check_drift.py).
THEOREM LoopTyped == LoopSpec => []LoopTypeOK
<1>1. LoopInv => LoopTypeOK
  BY DEF LoopInv
<1> QED
  BY <1>1, LoopInvariant, PTL

\* The baseline counts every grounded case of the golden file once and no
\* other: ids are distinct in a file that load_cases accepts, so finding scores
\* by their ids and taking the ids of the grounded cases are the same choice
\* (runner.py, metrics.py, drift.py).
THEOREM BaselineAnswerable == LoopSpec => []OnlyAnswerableInBaseline
<1>1. LoopInv => OnlyAnswerableInBaseline
  BY DEF LoopInv, BaselineInv, OnlyAnswerableInBaseline
<1> QED
  BY <1>1, LoopInvariant, PTL

\* A live query is ungrounded just when everything stored for it lies under the
\* floor: the relative bar of search never empties a list that the floor left
\* something in, because the best hit is over both (vectorstore.py).
THEOREM FloorDecides == LoopSpec => []GroundedByFloorAlone
<1>1. ASSUME LoopInv, served # None, NEW q \in Questions
      PROVE  (Retrieve(q, served.config) = <<>>)
               = (\A c \in Range(Ranked[served.config.size][q]) :
                     c.sim < served.config.floor)
  <2>1. served.config \in Served
    BY <1>1 DEF LoopInv, LoopTypeOK
  <2>2. served.config \in Settings
    <3>1. CASE served.config \in Configs
      BY <3>1, ConfigAssumption DEF Settings
    <3>2. CASE \E c \in Configs : \E f \in FloorsInEnv :
                  served.config = [c EXCEPT !.floor = f]
      <4>1. PICK c \in Configs : \E f \in FloorsInEnv :
                  served.config = [c EXCEPT !.floor = f]
        BY <3>2
      <4>2. PICK f \in FloorsInEnv : served.config = [c EXCEPT !.floor = f]
        BY <4>1
      <4>3. c \in Settings /\ f \in Nat
        BY ConfigAssumption DEF Settings
      <4> QED
        BY <4>2, <4>3 DEF Settings, ConfigOf
    <3> QED
      BY <2>1, <3>1, <3>2 DEF Served
  <2> DEFINE config == served.config
  <2>3. config \in Settings /\ q \in DOMAIN Ranked[config.size]
    <3>1. config.size \in DOMAIN Ranked
      BY <2>2 DEF Settings, ConfigOf
    <3> QED
      BY <2>2, <3>1, QuestionAssumption
  <2> HIDE DEF config
  <2>4. Retrieve(q, config) = <<>>
          <=> \A c \in Range(Ranked[config.size][q]) : c.sim < config.floor
    BY <2>3, SearchFacts
  <2> QED
    BY <2>4 DEF config
<1>2. LoopInv => GroundedByFloorAlone
  BY <1>1 DEF GroundedByFloorAlone
<1> QED
  BY <1>2, LoopInvariant, PTL


\* "What separates users left the subject from the corpus has a hole": where
\* every refusal retrieved nothing, the ungrounded rate of the window has risen
\* at least as far above the baseline's as the refusal rate has, so its signal
\* is raised whenever the refusal signal is, and diagnose blames neither the
\* corpus nor the retriever (drift.py).
THEOREM BlameNeedsContext == LoopSpec => []BlamedOnlyWithContext
<1> DEFINE w == Summarise(window)
           b == baseline.stats
           signals == Signals(FindingsOf(window))
<1>1. ASSUME LoopInv, Scored, \A r \in DOMAIN window : r.refused => r.retrieved_chunks = 0
      PROVE  "refusal_rate" \in signals => "ungrounded_rate" \in signals
  <2>1. FiniteBag(window) /\ BaselineInv /\ baseline # None
    BY <1>1 DEF LoopInv, Scored
  <2>2. w.n \in Nat /\ w.refused \in 0..w.n /\ w.ungrounded \in 0..w.n
    BY <2>1, SummaryBounds
  <2>3. w.n >= MIN_WINDOW
    BY <1>1, SummaryCounts DEF Scored
  <2>4. w.refused <= w.ungrounded
    <3>1. Refused(window) \subseteq Ungrounded(window)
          /\ Ungrounded(window) \subseteq DOMAIN window
      BY <1>1 DEF Refused, Ungrounded
    <3>2. Tally(window, Refused(window)) <= Tally(window, Ungrounded(window))
      BY <2>1, <3>1, TallyFacts
    <3> QED
      BY <3>2, SummaryCounts
  <2>5. /\ b.n \in Nat /\ b.refused \in Nat /\ b.ungrounded \in Nat
        /\ b.ungrounded <= b.refused /\ b.refused <= b.n
    BY <2>1 DEF BaselineInv
  <2>6. /\ "refusal_rate" \in signals
             <=> ProportionAtLeast(w.refused, w.n, b.refused, b.n, Z_WARN)
        /\ "ungrounded_rate" \in signals
             <=> ProportionAtLeast(w.ungrounded, w.n, b.ungrounded, b.n, Z_WARN)
    BY <2>2, <2>3, RateSignals DEF FindingsOf
  <2> HIDE DEF w, b, signals
  <2>7. ASSUME ProportionAtLeast(w.refused, w.n, b.refused, b.n, Z_WARN)
        PROVE  ProportionAtLeast(w.ungrounded, w.n, b.ungrounded, b.n, Z_WARN)
    <3> DEFINE n == w.n
               x == w.refused
               y == w.ungrounded
               m == b.n
               p == b.refused
               q == b.ungrounded
    <3>1. /\ n \in Nat /\ x \in Nat /\ y \in Nat /\ x <= y /\ y <= n
          /\ m \in Nat /\ p \in Nat /\ q \in Nat /\ q <= p /\ p <= m
      BY <2>2, <2>4, <2>5
    <3>2. ProportionAtLeast(x, n, p, m, Z_WARN)
      BY <2>7
    <3> HIDE DEF n, x, y, m, p, q
    <3>3. ProportionAtLeast(y, n, p, m, Z_WARN)
      <4>1. y - x \in Nat /\ x + (y - x) = y
        BY <3>1
      <4>2. ProportionAtLeast(x + (y - x), n, p, m, Z_WARN)
        BY <3>1, <3>2, <4>1, RateGrows, TheBars
      <4> QED
        BY <4>1, <4>2
    <3>4. ProportionAtLeast(y, n, q, m, Z_WARN)
      <4>1. p - q \in Nat /\ q + (p - q) = p
        BY <3>1
      <4>2. ProportionAtLeast(y, n, q + (p - q), m, Z_WARN)
        BY <3>3, <4>1
      <4> QED
        BY <3>1, <4>1, <4>2, RateAgainstLess, TheBars
    <3> QED
      BY <3>4 DEF n, y, m, q
  <2> QED
    BY <2>6, <2>7
<1>2. ASSUME LoopInv PROVE BlamedOnlyWithContext
  <2> SUFFICES ASSUME Scored, \A r \in DOMAIN window : r.refused => r.retrieved_chunks = 0
               PROVE  Diagnose(baseline.stats, Summarise(window), FindingsOf(window))
                         \notin {"content gap", "retrieval regression"}
    BY DEF BlamedOnlyWithContext
  <2>1. "refusal_rate" \in signals => "ungrounded_rate" \in signals
    BY <1>1, <1>2
  <2> DEFINE fell == w.similarity * b.n < b.similarity * w.n
  <2>2. Diagnose(b, w, FindingsOf(window))
          = IF signals = {} THEN "no drift"
            ELSE IF "window" \in signals THEN "not enough traffic"
            ELSE IF "refusal_rate" \in signals /\ "retrieved_chunks" \in signals
                      /\ ~("ungrounded_rate" \in signals) THEN "retrieval regression"
            ELSE IF "refusal_rate" \in signals /\ "ungrounded_rate" \in signals
                   THEN "off-topic"
            ELSE IF "refusal_rate" \in signals /\ "top_similarity" \in signals /\ fell
                   THEN "off-topic"
            ELSE IF "refusal_rate" \in signals /\ ~("top_similarity" \in signals)
                   THEN "content gap"
            ELSE IF "top_similarity" \in signals /\ ~("refusal_rate" \in signals)
                   THEN "corpus or model changed"
            ELSE "see findings"
    BY DEF Diagnose
  <2> HIDE DEF fell, signals, w, b
  <2>3. Diagnose(b, w, FindingsOf(window)) \notin {"content gap", "retrieval regression"}
    BY <2>1, <2>2
  <2> QED
    BY <2>3 DEF w, b
<1>3. LoopInv => BlamedOnlyWithContext
  BY <1>2
<1> QED
  BY <1>3, LoopInvariant, PTL


\* A query of the window that was not refused, refused after all: one more
\* refusal, and as many queries.
LEMMA OneMoreRefused ==
    ASSUME NEW bag, FiniteBag(bag), NEW r \in DOMAIN bag, ~r.refused,
           NEW r2, r2.refused, NEW worse,
           worse = (bag (-) SetToBag({r})) (+) SetToBag({r2})
    PROVE  /\ FiniteBag(worse)
           /\ Total(worse) = Total(bag)
           /\ Summarise(worse).refused = Summarise(bag).refused + 1
<1> DEFINE less == bag (-) SetToBag({r})
<1>1. /\ FiniteBag(less) /\ DOMAIN less \subseteq DOMAIN bag
      /\ worse = less (+) SetToBag({r2})
  BY QueryRemoved
<1>2. ASSUME NEW S, r \in S PROVE Tally(bag, S \cap DOMAIN bag) = Tally(less, S \cap DOMAIN less) + 1
  BY <1>2, QueryRemoved
<1>3. ASSUME NEW S, r \notin S PROVE Tally(bag, S \cap DOMAIN bag) = Tally(less, S \cap DOMAIN less)
  <2>1. Tally(bag, S \cap DOMAIN bag) = Tally(less, S \cap DOMAIN less) + 0
    BY <1>3, QueryRemoved
  <2>2. Tally(less, S \cap DOMAIN less) \in Nat
    BY <1>1, TallyFacts
  <2> QED
    BY <2>1, <2>2
<1> HIDE DEF less
<1>4. FiniteBag(worse) /\ DOMAIN worse = DOMAIN less \cup {r2}
  BY <1>1, QueryAdded
<1>5. ASSUME NEW S, r2 \in S PROVE Tally(worse, S \cap DOMAIN worse) = Tally(less, S \cap DOMAIN less) + 1
  BY <1>1, <1>5, QueryAdded
<1> DEFINE All == DOMAIN bag \cup {r2}
           T == {x \in All : x.refused}
<1>6. /\ r \in All /\ r2 \in All /\ r \notin T /\ r2 \in T
      /\ All \cap DOMAIN bag = DOMAIN bag /\ All \cap DOMAIN worse = DOMAIN worse
      /\ T \cap DOMAIN bag = Refused(bag) /\ T \cap DOMAIN worse = Refused(worse)
  BY <1>1, <1>4 DEF Refused
<1> HIDE DEF All, T
<1>7. Total(worse) = Total(bag)
  <2>1. /\ Tally(bag, All \cap DOMAIN bag) = Tally(less, All \cap DOMAIN less) + 1
        /\ Tally(worse, All \cap DOMAIN worse) = Tally(less, All \cap DOMAIN less) + 1
    BY <1>2, <1>5, <1>6
  <2> QED
    BY <1>6, <2>1 DEF Total
<1>8. Tally(worse, Refused(worse)) = Tally(bag, Refused(bag)) + 1
  <2>1. /\ Tally(bag, T \cap DOMAIN bag) = Tally(less, T \cap DOMAIN less)
        /\ Tally(worse, T \cap DOMAIN worse) = Tally(less, T \cap DOMAIN less) + 1
    BY <1>3, <1>5, <1>6
  <2> QED
    BY <1>6, <2>1
<1> QED
  BY <1>4, <1>7, <1>8, SummaryCounts

\* Refusing one more of the same queries never silences the refusal signal nor
\* lowers its severity: as the refusals of the window grow, the square of the
\* gap grows at least as fast as the pooled variance it is measured in
\* (two_proportion_z and compare, drift.py).
THEOREM RefusalsMonotone == LoopSpec => []MoreRefusalsNeverQuieter
<1>1. ASSUME LoopInv, Scored, SeveritiesOf("refusal_rate", window) # {},
             NEW r \in DOMAIN window, ~r.refused,
             NEW worse, worse = (window (-) SetToBag({r}))
                                   (+) SetToBag({[r EXCEPT !.refused = TRUE]})
      PROVE  LET now == SeveritiesOf("refusal_rate", window)
                 then == SeveritiesOf("refusal_rate", worse)
             IN  then # {} /\ ("alert" \in now => "alert" \in then)
  <2>1. FiniteBag(window) /\ BaselineInv /\ baseline # None
    BY <1>1 DEF LoopInv, Scored
  <2>2. [r EXCEPT !.refused = TRUE].refused
    <3>1. "refused" \in DOMAIN r /\ r = [f \in DOMAIN r |-> r[f]]
      BY <1>1 DEF LoopInv, RecordsSayRefused
    <3> QED
      BY <3>1
  <2>3. /\ FiniteBag(worse) /\ Total(worse) = Total(window)
        /\ Summarise(worse).refused = Summarise(window).refused + 1
    <3> DEFINE r2 == [r EXCEPT !.refused = TRUE]
    <3>1. r2.refused /\ worse = (window (-) SetToBag({r})) (+) SetToBag({r2})
      BY <1>1, <2>2
    <3> HIDE DEF r2
    <3> QED
      BY <1>1, <2>1, <3>1, OneMoreRefused
  <2> DEFINE n == Summarise(window).n
             a == Summarise(window).refused
             m == baseline.stats.n
             b == baseline.stats.refused
  <2>4. /\ n \in Nat /\ a \in Nat /\ n >= MIN_WINDOW
        /\ Summarise(worse).n = n /\ Summarise(worse).refused = a + 1 /\ a + 1 <= n
    <3>1. n \in Nat /\ a \in 0..n
      BY <2>1, SummaryBounds
    <3>2. Summarise(worse).n = n
      BY <2>3, SummaryCounts
    <3>3. Summarise(worse).refused <= Summarise(worse).n
      BY <2>3, SummaryBounds
    <3>4. n >= MIN_WINDOW
      BY <1>1, SummaryCounts DEF Scored
    <3> QED
      BY <2>3, <3>1, <3>2, <3>3, <3>4
  <2>5. m \in Nat /\ b \in Nat /\ b <= m
    BY <2>1 DEF BaselineInv
  <2>6. SeveritiesOf("refusal_rate", window)
          = {f.severity : f \in Finding("refusal_rate",
                                        ProportionAtLeast(a, n, b, m, Z_WARN),
                                        ProportionAtLeast(a, n, b, m, Z_ALERT))}
    <3>1. {g \in FindingsOf(window) : g.signal = "refusal_rate"}
            = Finding("refusal_rate",
                      ProportionAtLeast(a, n, b, m, Z_WARN),
                      ProportionAtLeast(a, n, b, m, Z_ALERT))
      BY <2>4, RateFindings DEF FindingsOf
    <3> QED
      BY <3>1 DEF SeveritiesOf
  <2>7. SeveritiesOf("refusal_rate", worse)
          = {f.severity : f \in Finding("refusal_rate",
                                        ProportionAtLeast(a + 1, n, b, m, Z_WARN),
                                        ProportionAtLeast(a + 1, n, b, m, Z_ALERT))}
    <3> DEFINE s == Summarise(worse)
    <3>1. s.n = n /\ s.refused = a + 1
      BY <2>4
    <3>2. {g \in FindingsOf(worse) : g.signal = "refusal_rate"}
            = Finding("refusal_rate",
                      ProportionAtLeast(s.refused, s.n, b, m, Z_WARN),
                      ProportionAtLeast(s.refused, s.n, b, m, Z_ALERT))
      BY <2>4, <3>1, RateFindings DEF FindingsOf
    <3>3. {g \in FindingsOf(worse) : g.signal = "refusal_rate"}
            = Finding("refusal_rate",
                      ProportionAtLeast(a + 1, n, b, m, Z_WARN),
                      ProportionAtLeast(a + 1, n, b, m, Z_ALERT))
      BY <3>1, <3>2
    <3> QED
      BY <3>3 DEF SeveritiesOf
  <2> DEFINE now == SeveritiesOf("refusal_rate", window)
             then == SeveritiesOf("refusal_rate", worse)
  <2>8. /\ now # {} => ProportionAtLeast(a, n, b, m, Z_WARN)
        /\ "alert" \in now => ProportionAtLeast(a, n, b, m, Z_ALERT)
    <3> DEFINE F == Finding("refusal_rate",
                            ProportionAtLeast(a, n, b, m, Z_WARN),
                            ProportionAtLeast(a, n, b, m, Z_ALERT))
    <3>1. /\ F # {} <=> ProportionAtLeast(a, n, b, m, Z_WARN)
          /\ \A f \in F : f.severity = IF ProportionAtLeast(a, n, b, m, Z_ALERT)
                                         THEN "alert" ELSE "warn"
      BY FindingFacts
    <3>2. now = {f.severity : f \in F}
      BY <2>6
    <3> HIDE DEF F, now, n, a, m, b
    <3> QED
      BY <3>1, <3>2
  <2>9. /\ ProportionAtLeast(a + 1, n, b, m, Z_WARN) => then # {}
        /\ ProportionAtLeast(a + 1, n, b, m, Z_ALERT) /\ then # {} => "alert" \in then
    <3> DEFINE F == Finding("refusal_rate",
                            ProportionAtLeast(a + 1, n, b, m, Z_WARN),
                            ProportionAtLeast(a + 1, n, b, m, Z_ALERT))
    <3>1. /\ F # {} <=> ProportionAtLeast(a + 1, n, b, m, Z_WARN)
          /\ \A f \in F : f.severity = IF ProportionAtLeast(a + 1, n, b, m, Z_ALERT)
                                         THEN "alert" ELSE "warn"
      BY FindingFacts
    <3>2. then = {f.severity : f \in F}
      BY <2>7
    <3> HIDE DEF F, then, n, a, m, b
    <3> QED
      BY <3>1, <3>2
  <2> HIDE DEF n, a, m, b
  <2>10. /\ ProportionAtLeast(a, n, b, m, Z_WARN) => ProportionAtLeast(a + 1, n, b, m, Z_WARN)
         /\ ProportionAtLeast(a, n, b, m, Z_ALERT) => ProportionAtLeast(a + 1, n, b, m, Z_ALERT)
    BY <2>4, <2>5, RateGrows, TheBars
  <2> QED
    BY <1>1, <2>8, <2>9, <2>10
<1>2. LoopInv => MoreRefusalsNeverQuieter
  BY <1>1 DEF MoreRefusalsNeverQuieter
<1> QED
  BY <1>2, LoopInvariant, PTL


\* The walk of ks_statistic over both sorted samples, past ties and until one
\* is exhausted, meets the largest gap between their distributions: the values
\* of its positions grow, and behind the last value of a sample the gap only
\* closes (ks_statistic, drift.py).
THEOREM KsGapLargest == LoopSpec => []KsIsLargestGap
<1>1. LoopInv /\ ComparedInv => KsIsLargestGap
  <2> SUFFICES ASSUME LoopInv, ComparedInv, Scored
               PROVE  LET a == Summarise(window).similarities
                          b == baseline.stats.similarities
                      IN  KsStatistic(a, b) = Max({Gap(a, b, AtMost(a, v), AtMost(b, v)) :
                                                      v \in DOMAIN a \cup DOMAIN b})
    BY DEF KsIsLargestGap
  <2> DEFINE a == Summarise(window).similarities
             b == baseline.stats.similarities
  <2>1. Samples(a, b)
    BY ScoredFacts DEF Samples
  <2> HIDE DEF a, b
  <2>2. KsStatistic(a, b) = Max({GapAt(a, b, v) : v \in Values(a, b)})
    BY <2>1, KsIsLargest
  <2> QED
    BY <2>2 DEF GapAt, Values, a, b
<1> QED
  BY <1>1, LoopInvariant, ComparedInvariant, PTL

\* A summary compared with itself, under the same prompts.
LEMMA NothingFound ==
    ASSUME NEW w, NEW v, w.n \in Nat \ {0}, w.n >= MIN_WINDOW,
           w.refused \in Nat, w.ungrounded \in Nat, w.chunks \in Nat, Sample(w.similarities)
    PROVE  Compare(w, w, v, {v}) = {}
<1> DEFINE s == w.similarities
           n == w.n
           c == w.chunks
<1>1. ASSUME NEW x \in Nat, NEW bar PROVE ~ProportionAtLeast(x, n, x, n, bar)
  <2>1. x * n \in Int /\ x * n - x * n = 0
    OBVIOUS
  <2> QED
    BY <2>1 DEF ProportionAtLeast
<1>2. KsStatistic(s, s) = 0
  BY KsOfItself
<1>3. ~KsAtLeast(0, Total(s), Total(s), KS_WARN)
  <2> DEFINE k == Total(s)
  <2>1. k \in Nat \ {0}
    <3>1. 0 \in Int
      OBVIOUS
    <3> QED
      BY <3>1, AtMostFacts
  <2> HIDE DEF k
  <2>2. KS_WARN.num = 461041 /\ KS_WARN.den = 250000
    BY DEF KS_WARN
  <2>3. 0 * 0 * KS_WARN.den = 0
    BY <2>2
  <2>4. KS_WARN.num * (k + k) * k * k > 0
    <3> DEFINE y == 461041 * (k + k)
    <3>1. y \in Nat /\ y > 0
      BY <2>1
    <3> HIDE DEF y
    <3>2. y * k > 0 /\ y * k \in Nat
      BY <2>1, <3>1
    <3>3. y * k * k > 0
      BY <2>1, <3>2
    <3> QED
      BY <2>2, <3>3 DEF y
  <2>5. KS_WARN.num * (k + k) * k * k \in Int
    BY <2>1, <2>2
  <2>6. ~(0 * 0 * KS_WARN.den >= KS_WARN.num * (k + k) * k * k)
    BY <2>3, <2>4, <2>5
  <2> QED
    BY <2>6 DEF KsAtLeast, k
<1>4. ~(c > 0 /\ 4 * c * n <= 3 * c * n)
  <2> SUFFICES ASSUME c > 0 PROVE ~(4 * c * n <= 3 * c * n)
    OBVIOUS
  <2> DEFINE y == c * n
  <2>1. y \in Nat /\ 4 * c * n = 4 * y /\ 3 * c * n = 3 * y
    OBVIOUS
  <2>2. y > 0
    OBVIOUS
  <2> HIDE DEF y
  <2> QED
    BY <2>1, <2>2
<1>5. \A signal, alert : Finding(signal, FALSE, alert) = {}
  BY DEF Finding
<1>6. /\ ProportionAtLeast(w.refused, n, w.refused, n, Z_WARN) = FALSE
      /\ ProportionAtLeast(w.ungrounded, n, w.ungrounded, n, Z_WARN) = FALSE
      /\ KsAtLeast(KsStatistic(s, s), Total(s), Total(s), KS_WARN) = FALSE
      /\ (c > 0 /\ 4 * c * n <= 3 * c * n) = FALSE
      /\ ({v} \ {v} # {}) = FALSE
  <2>1. /\ ~ProportionAtLeast(w.refused, n, w.refused, n, Z_WARN)
        /\ ~ProportionAtLeast(w.ungrounded, n, w.ungrounded, n, Z_WARN)
    BY <1>1
  <2>2. ~KsAtLeast(KsStatistic(s, s), Total(s), Total(s), KS_WARN)
    BY <1>2, <1>3
  <2>3. (ProportionAtLeast(w.refused, n, w.refused, n, Z_WARN)) \in BOOLEAN
    BY DEF ProportionAtLeast
  <2>4. (ProportionAtLeast(w.ungrounded, n, w.ungrounded, n, Z_WARN)) \in BOOLEAN
    BY DEF ProportionAtLeast
  <2>5. (KsAtLeast(KsStatistic(s, s), Total(s), Total(s), KS_WARN)) \in BOOLEAN
    BY DEF KsAtLeast
  <2> QED
    BY <1>4, <2>1, <2>2, <2>3, <2>4, <2>5
<1>7. ~(n < MIN_WINDOW)
  BY DriftAssumption
<1>8. Compare(w, w, v, {v})
        = Finding("refusal_rate", FALSE,
                  ProportionAtLeast(w.refused, n, w.refused, n, Z_ALERT))
          \cup Finding("ungrounded_rate", FALSE,
                       ProportionAtLeast(w.ungrounded, n, w.ungrounded, n, Z_ALERT))
          \cup Finding("top_similarity", FALSE,
                       KsAtLeast(KsStatistic(s, s), Total(s), Total(s), KS_ALERT))
          \cup Finding("retrieved_chunks", FALSE, 5 * c * n <= 3 * c * n)
          \cup Finding("prompt_version", FALSE, FALSE)
  BY <1>6, <1>7, Zenon DEF Compare
<1> QED
  BY <1>5, <1>8

\* A window that repeats the measured cases under the measured prompts is
\* reported as no drift, whatever was measured: both summaries are then the
\* same, so no rate has grown, the distributions have no gap, as many chunks
\* are retrieved, and no signal is left to explain (compare and diagnose,
\* drift.py).
THEOREM SteadyIsQuiet == LoopSpec => []SteadyTrafficQuiet
<1>1. LoopInv /\ ComparedInv => SteadyTrafficQuiet
  <2> SUFFICES ASSUME LoopInv, ComparedInv, Scored,
                      versions = {baseline.version}, window = evaluated.records
               PROVE  Diagnose(baseline.stats, Summarise(window), FindingsOf(window)) = "no drift"
    BY DEF SteadyTrafficQuiet
  <2> DEFINE w == Summarise(window)
  <2>1. baseline.stats = w /\ FiniteBag(window)
    BY DEF LoopInv, ComparedInv, Scored
  <2>2. /\ w.n \in Nat \ {0} /\ w.n >= MIN_WINDOW /\ w.chunks \in Nat
        /\ Sample(w.similarities)
    BY ScoredFacts
  <2>3. w.refused \in Nat /\ w.ungrounded \in Nat
    <3>1. w.n \in Nat /\ w.refused \in 0..w.n /\ w.ungrounded \in 0..w.n
      BY <2>1, SummaryBounds
    <3> HIDE DEF w
    <3> QED
      BY <3>1
  <2>4. FindingsOf(window) = Compare(w, w, baseline.version, {baseline.version})
    BY <2>1 DEF FindingsOf
  <2> HIDE DEF w
  <2>5. FindingsOf(window) = {}
    BY <2>2, <2>3, <2>4, NothingFound
  <2>6. Signals({}) = {}
    BY DEF Signals
  <2> QED
    BY <2>5, <2>6 DEF Diagnose
<1> QED
  BY <1>1, LoopInvariant, ComparedInvariant, PTL


-----------------------------------------------------------------------------
(* The gate.                                                               *)

\* The refused records count the cases that were refused.
LEMMA RefusalsCounted ==
    ASSUME NEW scored, IsFiniteSet(scored), NEW scores
    PROVE  Summarise(RecordsOf(scored, scores)).refused
             = Cardinality({c \in scored : scores[c].record.refused})
<1> DEFINE bag == RecordsOf(scored, scores)
           some == {c \in scored : scores[c].record.refused}
           part == RecordsOf(some, scores)
<1>1. /\ DOMAIN bag = {scores[c].record : c \in scored}
      /\ \A r \in DOMAIN bag : bag[r] = Cardinality({c \in scored : scores[c].record = r})
  BY DEF RecordsOf
<1>2. /\ DOMAIN part = {scores[c].record : c \in some}
      /\ \A r \in DOMAIN part : part[r] = Cardinality({c \in some : scores[c].record = r})
  BY DEF RecordsOf
<1>3. IsFiniteSet(some) /\ Total(part) = Cardinality(some)
  <2>1. IsFiniteSet(some)
    BY FS_Subset
  <2> HIDE DEF some
  <2> QED
    BY <2>1, RecordsCounted
<1> HIDE DEF bag, part
<1>4. DOMAIN part = Refused(bag)
  BY <1>1, <1>2 DEF Refused
<1>5. ASSUME NEW r \in DOMAIN part PROVE part[r] = bag[r]
  <2>1. r \in DOMAIN bag /\ r.refused
    BY <1>4, <1>5 DEF Refused
  <2>2. {c \in some : scores[c].record = r} = {c \in scored : scores[c].record = r}
    BY <2>1
  <2> QED
    BY <1>1, <1>2, <1>5, <2>1, <2>2
<1>6. Queries(part, DOMAIN part) = Queries(bag, Refused(bag))
  BY <1>4, <1>5 DEF Queries
<1>7. Tally(bag, Refused(bag)) = Cardinality(some)
  BY <1>3, <1>6 DEF Total, Tally
<1> QED
  BY <1>7, SummaryCounts DEF bag

LEMMA RateReached ==
    ASSUME NEW c \in Nat, NEW t \in Nat \ {0}, Rate(c, t) >= 8000
    PROVE  15999 * t <= 20000 * c
<1> DEFINE x == 20000 * c + t
           y == 2 * t
           q == x \div y
<1>1. x \in Nat /\ y \in Nat \ {0}
  OBVIOUS
<1>2. q >= 8000
  BY DEF Rate
<1> HIDE DEF x, y
<1>3. q \in Nat /\ x = y * q + (x % y) /\ x % y \in Nat
  BY <1>1
<1>4. y * q = q * y /\ 8000 \in Nat /\ q * y \in Nat
  BY <1>1, <1>3
<1> HIDE DEF q
<1>5. 8000 * y <= q * y
  BY <1>1, <1>2, <1>3, <1>4, TimesMonotone
<1>6. 8000 * y <= x
  BY <1>1, <1>3, <1>4, <1>5
<1> QED
  BY <1>6 DEF x, y

\* A run that passed had at least so many correct cases.
LEMMA GatePassed ==
    ASSUME NEW scores, Breaches(EvalSummary(scores)) = {},
           IsFiniteSet(DOMAIN scores), DOMAIN scores # {}
    PROVE  15999 * Cardinality(DOMAIN scores)
             <= 20000 * Cardinality({c \in DOMAIN scores : scores[c].correct})
<1> DEFINE right == {c \in DOMAIN scores : scores[c].correct}
           t == Cardinality(DOMAIN scores)
           n == Cardinality(right)
<1>1. EvalSummary(scores).accuracy = Rate(n, t)
  BY DEF EvalSummary
<1>2. t \in Nat \ {0} /\ n \in Nat
  <2>1. IsFiniteSet(right)
    BY FS_Subset
  <2> QED
    BY <2>1, FS_CardinalityType, FS_EmptySet
<1>3. "accuracy" \in DOMAIN Floors /\ Floors.accuracy = 8000
  BY DEF Floors
<1>4. ~(EvalSummary(scores).accuracy < 8000)
  <2> DEFINE s == EvalSummary(scores)
  <2> HIDE DEF s
  <2>1. Breaches(s) = {}
    BY DEF s
  <2> QED
    BY <1>3, <2>1 DEF Breaches, s
<1> HIDE DEF n, t
<1>5. Rate(n, t) \in Int
  <2> DEFINE x == 20000 * n + t
             y == 2 * t
  <2>1. x \in Nat /\ y \in Nat \ {0}
    BY <1>2
  <2> HIDE DEF x, y
  <2>2. x \div y \in Int
    BY <2>1
  <2> QED
    BY <1>2, <2>2 DEF Rate, x, y
<1>6. Rate(n, t) >= 8000
  BY <1>1, <1>4, <1>5
<1>7. 15999 * t <= 20000 * n
  BY <1>2, <1>6, RateReached
<1> QED
  BY <1>7 DEF n, t

\* The refusal cases do not outnumber the grounded ones by more than a quarter.
Balanced(cases) ==
    4 * Cardinality(cases \ Grounded(cases)) <= 5 * Cardinality(Grounded(cases))

\* Where the two kinds of cases are balanced, a run that passed refused at most
\* half of the grounded ones: a case that is refused though it is grounded is
\* not correct.
LEMMA PassedAnswers ==
    ASSUME NEW scores, IsFiniteSet(DOMAIN scores), Balanced(DOMAIN scores),
           Grounded(DOMAIN scores) # {}, Breaches(EvalSummary(scores)) = {},
           \A c \in Grounded(DOMAIN scores) : scores[c].record.refused => ~scores[c].correct
    PROVE  2 * Cardinality({c \in Grounded(DOMAIN scores) : scores[c].record.refused})
             <= Cardinality(Grounded(DOMAIN scores))
<1> DEFINE D == DOMAIN scores
           G == Grounded(D)
           right == {c \in D : scores[c].correct}
           refused == {c \in G : scores[c].record.refused}
<1>1. G \subseteq D /\ refused \subseteq D /\ right \subseteq D /\ refused \cap right = {}
      /\ D = G \cup (D \ G) /\ G \cap (D \ G) = {}
  BY DEF Grounded
<1>2. 15999 * Cardinality(D) <= 20000 * Cardinality(right)
  BY <1>1, GatePassed
<1>3. 4 * Cardinality(D \ G) <= 5 * Cardinality(G)
  BY DEF Balanced
<1> HIDE DEF D, G, right, refused
<1>4. IsFiniteSet(D)
  BY DEF D
<1>5. /\ IsFiniteSet(G) /\ IsFiniteSet(D \ G) /\ IsFiniteSet(right) /\ IsFiniteSet(refused)
      /\ IsFiniteSet(refused \cup right)
  <2>1. D \ G \subseteq D /\ refused \cup right \subseteq D
    BY <1>1
  <2> QED
    BY <1>1, <1>4, <2>1, FS_Subset
<1>6. /\ Cardinality(D) \in Nat /\ Cardinality(G) \in Nat /\ Cardinality(D \ G) \in Nat
      /\ Cardinality(right) \in Nat /\ Cardinality(refused) \in Nat
  BY <1>4, <1>5, FS_CardinalityType
<1>7. Cardinality(D) = Cardinality(G) + Cardinality(D \ G)
  <2>1. Cardinality(G \cup (D \ G))
          = Cardinality(G) + Cardinality(D \ G) - Cardinality(G \cap (D \ G))
    BY <1>5, FS_Union
  <2>2. Cardinality(G \cap (D \ G)) = 0
    BY <1>1, FS_EmptySet
  <2>3. Cardinality(G \cup (D \ G)) = Cardinality(D)
    BY <1>1
  <2> QED
    BY <1>6, <2>1, <2>2, <2>3
<1>8. Cardinality(refused) + Cardinality(right) <= Cardinality(D)
  <2>1. Cardinality(refused \cup right)
          = Cardinality(refused) + Cardinality(right) - Cardinality(refused \cap right)
    BY <1>5, FS_Union
  <2>2. Cardinality(refused \cap right) = 0
    BY <1>1, FS_EmptySet
  <2>3. Cardinality(refused \cup right) <= Cardinality(D)
    <3>1. refused \cup right \subseteq D
      BY <1>1
    <3> QED
      BY <1>4, <3>1, FS_Subset
  <2> QED
    BY <1>6, <2>1, <2>2, <2>3
<1>9. 2 * Cardinality(refused) <= Cardinality(G)
  BY <1>2, <1>3, <1>6, <1>7, <1>8
<1> QED
  BY <1>9 DEF refused, G, D

\* A window of eight or more refusals is significant against a baseline that
\* refused at most half.
LEMMA BlackoutSignificant ==
    ASSUME NEW n \in Nat, n >= 8, NEW m \in Nat \ {0}, NEW b \in Nat, 2 * b <= m
    PROVE  ProportionAtLeast(n, n, b, m, Z_WARN)
<1> DEFINE c == m - b
           k == n + b
<1>1. /\ c \in Nat \ {0} /\ b + c = m /\ m <= 2 * c /\ b <= m /\ k \in Nat
      /\ n + m - k = c
  OBVIOUS
<1>2. n * m - b * n = n * c
  <2>1. n * m = n * b + n * c
    BY <1>1
  <2>2. n * b = b * n /\ n * b \in Nat /\ n * c \in Nat
    BY <1>1
  <2> QED
    BY <2>1, <2>2
<1> DEFINE g == n * c
<1>3. g \in Nat /\ g > 0
  <2>1. n \in Nat \ {0}
    OBVIOUS
  <2> HIDE DEF c
  <2> QED
    BY <1>1, <2>1
<1>4. n * m > b * n
  <2>1. n * m \in Int /\ b * n \in Int
    OBVIOUS
  <2> QED
    BY <1>2, <1>3, <2>1
<1>5. 4802 * k <= 625 * (n * (n + m))
  <2>1. 8 * (n + m) <= n * (n + m)
    BY TimesMonotone
  <2>2. n * (n + m) \in Nat
    OBVIOUS
  <2>3. 4802 * k <= 5000 * (n + m)
    BY <1>1
  <2> QED
    BY <2>1, <2>2, <2>3
<1> HIDE DEF c, k, g
<1>6. Z_WARN = [num |-> 2401, den |-> 625] /\ Z_WARN \in Bars
  BY TheBars DEF Z_WARN
<1>7. ((2401 * n * m) * k) * c <= (g * g) * ((n + m) * 625)
  <2> DEFINE e == n * (n + m)
             f == n * c
  <2>1. e \in Nat /\ f \in Nat /\ k \in Nat /\ m \in Nat /\ c \in Nat
    BY <1>1
  <2>2. ((2401 * n * m) * k) * c = (m * (2401 * k)) * f
    BY <2>1 DEF f
  <2>3. (g * g) * ((n + m) * 625) = (c * (625 * e)) * f
    BY <2>1 DEF e, f, g
  <2> HIDE DEF e, f
  <2>4. m * (2401 * k) <= c * (625 * e)
    <3>1. m * (2401 * k) <= (2 * c) * (2401 * k)
      BY <1>1, <2>1, TimesMonotone
    <3>2. (2 * c) * (2401 * k) = (4802 * k) * c
      BY <2>1
    <3>3. (4802 * k) * c <= (625 * e) * c
      <4>1. 4802 * k <= 625 * e
        BY <1>5 DEF e
      <4>2. 4802 * k \in Nat /\ 625 * e \in Nat /\ c \in Nat
        BY <2>1
      <4> QED
        BY <4>1, <4>2, TimesMonotone
    <3>4. (625 * e) * c = c * (625 * e)
      BY <2>1
    <3>5. m * (2401 * k) \in Nat /\ (4802 * k) * c \in Nat /\ (625 * e) * c \in Nat
      BY <2>1
    <3> QED
      BY <3>1, <3>2, <3>3, <3>4, <3>5
  <2>5. m * (2401 * k) \in Nat /\ c * (625 * e) \in Nat
    BY <2>1
  <2>6. (m * (2401 * k)) * f <= (c * (625 * e)) * f
    BY <2>1, <2>4, <2>5, TimesMonotone
  <2> QED
    BY <2>2, <2>3, <2>6
<1>8. ((Z_WARN.num * n * m) * (n + b)) * (n + m - (n + b))
        <= ((n * m - b * n) * (n * m - b * n)) * ((n + m) * Z_WARN.den)
  <2>1. n * m - b * n = g
    BY <1>2 DEF g
  <2>2. n + b = k /\ n + m - (n + b) = c
    BY <1>1 DEF k
  <2>3. Z_WARN.num = 2401 /\ Z_WARN.den = 625
    BY <1>6
  <2> QED
    BY <1>7, <2>1, <2>2, <2>3
<1>9. n \in Nat /\ m \in Nat /\ b \in Nat /\ n <= n /\ b <= m /\ n > 0 /\ m > 0
  BY <1>1
<1>10. ASSUME NEW a \in Nat, a <= n
       PROVE  ProportionAtLeast(a, n, b, m, Z_WARN)
                <=> /\ n > 0 /\ m > 0
                    /\ a * m > b * n
                    /\ ((Z_WARN.num * n * m) * (a + b)) * (n + m - (a + b))
                         <= ((a * m - b * n) * (a * m - b * n)) * ((n + m) * Z_WARN.den)
  BY <1>9, <1>10, Grouped, TheBars
<1> QED
  BY <1>4, <1>8, <1>9, <1>10, Zenon

BalancedGolden == \A file \in GoldenFiles : Balanced(Range(file))

\* A baseline from a run that passed refused at most half of its cases.
PassedInv ==
    (baseline # None /\ evaluated.passed) => 2 * baseline.stats.refused <= baseline.stats.n

LEMMA PassedAfterEvaluate ==
    ASSUME BalancedGolden, LoopInv, Evaluate
    PROVE  PassedInv'
<1>1. Loadable(golden) /\ golden' = golden
  BY DEF Evaluate
<1>2. PICK answers \in [Cases -> {"right", "wrong", "refusal"}] :
          LET hits   == [c \in Cases |-> Retrieve(c.question, settings)]
              scores == [c \in Cases |-> ScoreCase(c, hits[c], answers[c])]
              scored == Answerable(scores)
          IN  /\ scored # {}
              /\ baseline' = [stats   |-> Summarise(RecordsOf(scored, scores)),
                              version |-> version]
              /\ evaluated' = [records |-> RecordsOf(scored, scores),
                               passed  |-> Breaches(EvalSummary(scores)) = {}]
  BY DEF Evaluate
<1> DEFINE hits   == [c \in Cases |-> Retrieve(c.question, settings)]
           scores == [c \in Cases |-> ScoreCase(c, hits[c], answers[c])]
           scored == Answerable(scores)
           bag    == RecordsOf(scored, scores)
<1>3. /\ scored # {}
      /\ baseline' = [stats |-> Summarise(bag), version |-> version]
      /\ evaluated' = [records |-> bag, passed |-> Breaches(EvalSummary(scores)) = {}]
  BY <1>2
<1>4. DOMAIN scores = Cases
  OBVIOUS
<1>5. ASSUME NEW c \in Cases
      PROVE  /\ scores[c].case_id = c.id
             /\ c.grounded /\ scores[c].record.refused => ~scores[c].correct
  <2> DEFINE h == hits[c]
             s == ScoreCase(c, h, answers[c])
             r == QueryRecord(h, answers[c])
  <2>1. scores[c] = s
    OBVIOUS
  <2> HIDE DEF scores, h
  <2>2. /\ s.case_id = c.id /\ s.record = r
        /\ s.correct = IF c.grounded
                         THEN /\ ExpectedRetrieved(c, h)
                              /\ answers[c] = "right" \/ (answers[c] = "wrong" /\ ~c.keywords)
                         ELSE answers[c] = "refusal"
    BY DEF ScoreCase
  <2>3. r.refused = (answers[c] = "refusal")
    BY DEF QueryRecord
  <2> HIDE DEF s, r
  <2> QED
    BY <2>1, <2>2, <2>3
<1>6. IsFiniteSet(Cases) /\ \A c, k \in Cases : c.id = k.id => c = k
  BY <1>1, GoldenFacts DEF LoopInv
<1>7. Balanced(Cases)
  BY DEF BalancedGolden, LoopInv, LoopTypeOK, Cases
<1> HIDE DEF hits, scores
<1>8. scored = Grounded(Cases)
  BY <1>4, <1>5, <1>6, ScoredById
<1>9. IsFiniteSet(scored) /\ \A c \in scored : c \in Cases /\ c.grounded
  BY <1>6, <1>8, FS_Subset DEF Grounded
<1> HIDE DEF scored, bag
<1>10. baseline'.stats = Summarise(bag) /\ evaluated'.passed = (Breaches(EvalSummary(scores)) = {})
  BY <1>3
<1>11. /\ Summarise(bag).refused = Cardinality({c \in scored : scores[c].record.refused})
       /\ Summarise(bag).n = Cardinality(scored)
  BY <1>9, RefusalsCounted, RecordsCounted, SummaryCounts DEF bag
<1>12. ASSUME Breaches(EvalSummary(scores)) = {}
       PROVE  2 * Cardinality({c \in scored : scores[c].record.refused}) <= Cardinality(scored)
  <2>1. \A c \in scored : scores[c].record.refused => ~scores[c].correct
    BY <1>5, <1>9
  <2>2. scored = Grounded(DOMAIN scores) /\ IsFiniteSet(DOMAIN scores) /\ Balanced(DOMAIN scores)
    BY <1>4, <1>6, <1>7, <1>8
  <2> QED
    BY <1>3, <1>12, <2>1, <2>2, PassedAnswers
<1> QED
  BY <1>10, <1>11, <1>12 DEF PassedInv

\* A service that refuses everything is noticed, if the run its baseline is from
\* had passed the gate, where a window holds at least eight queries and the two
\* kinds of golden cases are balanced, as they are in evals/golden.jsonl: the gate
\* lets at most half of the grounded cases be refused, and against that rate
\* eight refusals are significant (Thresholds, metrics.py; compare, drift.py).
THEOREM BlackoutIsNoticed ==
    ASSUME BalancedGolden, MIN_WINDOW >= 8
    PROVE  LoopSpec => []BlackoutNoticed
<1>1. LoopInit => PassedInv
  BY DEF LoopInit, PassedInv
<1>2. LoopInv /\ PassedInv /\ [LoopNext]_loopVars => PassedInv'
  <2> SUFFICES ASSUME LoopInv, PassedInv, [LoopNext]_loopVars PROVE PassedInv'
    OBVIOUS
  <2>1. CASE Evaluate
    BY <2>1, PassedAfterEvaluate
  <2>2. CASE UNCHANGED <<baseline, evaluated>>
    BY <2>2 DEF PassedInv
  <2>3. Evaluate \/ UNCHANGED <<baseline, evaluated>>
    BY DEF LoopNext, Operate, Traffic, Tune, Reprompt, Deploy, Query, NextWindow, loopVars
  <2> QED
    BY <2>1, <2>2, <2>3
<1>3. LoopInv /\ PassedInv => BlackoutNoticed
  <2> SUFFICES ASSUME LoopInv, PassedInv, Scored, evaluated.passed,
                      \A r \in DOMAIN window : r.refused
               PROVE  "refusal_rate" \in Signals(FindingsOf(window))
    BY DEF BlackoutNoticed
  <2> DEFINE w == Summarise(window)
             b == baseline.stats
  <2>1. FiniteBag(window) /\ w.n = Total(window) /\ Total(window) \in Nat
        /\ Total(window) >= MIN_WINDOW
    BY SummaryCounts, TallyFacts DEF LoopInv, Scored, Total
  <2>2. w.refused = w.n
    <3>1. Refused(window) = DOMAIN window
      BY DEF Refused
    <3> QED
      BY <2>1, <3>1, SummaryCounts DEF Total
  <2>3. /\ b.n \in Nat \ {0} /\ b.refused \in Nat /\ 2 * b.refused <= b.n
    BY DEF LoopInv, BaselineInv, PassedInv, Scored
  <2> HIDE DEF w, b
  <2>4. w.n \in Nat /\ w.n >= 8 /\ w.n >= MIN_WINDOW
    BY <2>1, DriftAssumption
  <2>5. ProportionAtLeast(w.refused, w.n, b.refused, b.n, Z_WARN)
    BY <2>2, <2>3, <2>4, BlackoutSignificant
  <2>6. "refusal_rate" \in Signals(Compare(b, w, baseline.version, versions))
    BY <2>4, <2>5, RateSignals
  <2> QED
    BY <2>6 DEF FindingsOf, w, b
<1> QED
  BY <1>1, <1>2, <1>3, LoopInvariant, PTL DEF LoopSpec

-----------------------------------------------------------------------------
(* The sweep.                                                              *)

\* The first rate of the sweep counts the questions whose answer can be right,
\* and those that say nothing of what an answer must hold.
LEMMA SweepCounts ==
    ASSUME NEW p, LoopTypeOK
    PROVE  /\ IsFiniteSet(CanAnswer(p)) /\ Cardinality(CanAnswer(p)) \in Nat
           /\ EvaluatePoint(p, Cases)[1]
                = Cardinality(CanAnswer(p)) + Cardinality({c \in Grounded(Cases) : ~c.keywords})
           /\ IsFiniteSet({c \in Grounded(Cases) : ~c.keywords})
<1> DEFINE G == Grounded(Cases)
           found == [c \in Cases |-> Retrieve(c.question, p)]
           A == CanAnswer(p)
           B == {c \in G : ~c.keywords}
           C == {c \in G : Facts(found[c]) \/ ~c.keywords}
<1>1. IsFiniteSet(Cases) /\ G \subseteq Cases
  BY GoldenFacts DEF Grounded
<1>2. IsFiniteSet(G)
  BY <1>1, FS_Subset
<1>3. \A hits : "right" \in Answers(hits) <=> Facts(hits)
  <2> SUFFICES ASSUME NEW hits PROVE "right" \in Answers(hits) <=> Facts(hits)
    OBVIOUS
  <2>1. CASE hits = <<>>
    <3>1. Range(hits) = {}
      BY <2>1 DEF Range
    <3>2. ~Facts(hits)
      BY <3>1 DEF Facts
    <3> QED
      BY <2>1, <3>2 DEF Answers
  <2>2. CASE hits # <<>>
    BY <2>2 DEF Answers
  <2> QED
    BY <2>1, <2>2
<1>4. A = {c \in G : c.keywords /\ Facts(found[c])}
  <2>1. \A c \in G : found[c] = Retrieve(c.question, p)
    BY <1>1
  <2>2. A = {c \in G : c.keywords /\ "right" \in Answers(Retrieve(c.question, p))}
    BY DEF CanAnswer
  <2> HIDE DEF A, found, G
  <2> QED
    BY <1>3, <2>1, <2>2
<1>5. C = A \cup B /\ A \cap B = {} /\ A \subseteq G /\ B \subseteq G
  <2> HIDE DEF A, found, G
  <2> QED
    BY <1>4
<1> DEFINE hitsCounted == Cardinality({c \in G : ExpectedRetrieved(c, found[c])})
           refusalsCounted == Cardinality({c \in Cases \ G : found[c] = <<>>})
           chunksCounted == -MapThenSumSet(LAMBDA c : Len(found[c]), G)
<1>6. EvaluatePoint(p, Cases)
        = <<Cardinality(C), hitsCounted, refusalsCounted, chunksCounted>>
  BY DEF EvaluatePoint
<1> HIDE DEF A, B, C, G, found, hitsCounted, refusalsCounted, chunksCounted
<1>7. EvaluatePoint(p, Cases)[1] = Cardinality(C)
  BY <1>6
<1>8. IsFiniteSet(A) /\ IsFiniteSet(B)
  BY <1>2, <1>5, FS_Subset
<1>9. Cardinality(A \cup B) = Cardinality(A) + Cardinality(B) - Cardinality(A \cap B)
  BY <1>8, FS_Union
<1>10. Cardinality(A) \in Nat /\ Cardinality(B) \in Nat /\ Cardinality(A \cap B) = 0
  BY <1>5, <1>8, FS_CardinalityType, FS_EmptySet
<1>11. Cardinality(C) = Cardinality(A) + Cardinality(B)
  BY <1>5, <1>9, <1>10
<1> QED
  BY <1>7, <1>8, <1>10, <1>11 DEF A, B, G

KeepsAnswers ==
    (settings' # settings /\ settings \in BuildGrid(GridPoints))
      => Cardinality(CanAnswer(settings')) >= Cardinality(CanAnswer(settings))

\* Only the sweep changes the settings, and the point it puts first can answer
\* at least as many of the golden questions as any other point of the grid: the
\* answerable count leads its score, and the questions that list no keywords
\* add the same to the count of every point (sweep.py).
THEOREM TuneKeeps == LoopSpec => TuneKeepsAnswers
<1>1. ASSUME LoopInv, Tune, settings \in BuildGrid(GridPoints)
      PROVE  Cardinality(CanAnswer(settings')) >= Cardinality(CanAnswer(settings))
  <2> DEFINE s == settings
  <2>1. PICK p \in Best(BuildGrid(GridPoints), Cases) : settings' = p
    BY <1>1 DEF Tune
  <2>2. ~Better(EvaluatePoint(s, Cases), EvaluatePoint(p, Cases))
    BY <1>1, <2>1 DEF Best
  <2> DEFINE a == EvaluatePoint(s, Cases)
             b == EvaluatePoint(p, Cases)
             n == Cardinality({c \in Grounded(Cases) : ~c.keywords})
  <2>3. ~(a[1] > b[1])
    <3> HIDE DEF a, b
    <3> QED
      BY <2>2 DEF Better, a, b
  <2>4. /\ Cardinality(CanAnswer(s)) \in Nat /\ a[1] = Cardinality(CanAnswer(s)) + n
        /\ Cardinality(CanAnswer(p)) \in Nat /\ b[1] = Cardinality(CanAnswer(p)) + n
        /\ n \in Nat
    BY <1>1, SweepCounts, FS_CardinalityType DEF LoopInv
  <2> HIDE DEF a, b, n
  <2>5. Cardinality(CanAnswer(p)) >= Cardinality(CanAnswer(s))
    BY <2>3, <2>4
  <2> QED
    BY <2>1, <2>5
<1>2. ASSUME LoopInv, [LoopNext]_loopVars PROVE [KeepsAnswers]_loopVars
  <2>1. Tune \/ settings' = settings
    BY <1>2 DEF LoopNext, Operate, Traffic, Reprompt, Evaluate, Deploy, Query, NextWindow,
                loopVars
  <2> QED
    BY <1>1, <1>2, <2>1 DEF KeepsAnswers
<1>3. LoopInv /\ [LoopNext]_loopVars => [KeepsAnswers]_loopVars
  BY <1>2
<1>4. LoopSpec => [][KeepsAnswers]_loopVars
  BY <1>3, LoopInvariant, PTL DEF LoopSpec
<1>5. [][KeepsAnswers]_loopVars => TuneKeepsAnswers
  BY DEF KeepsAnswers, TuneKeepsAnswers
<1> QED
  BY <1>4, <1>5
=============================================================================
