---------------------------- MODULE NumberLemmas ----------------------------
(***************************************************************************)
(* Induction over the natural numbers, division, and sums over finite sets, *)
(* for the proofs about the other modules.                                  *)
(*                                                                          *)
(* The induction theorems of the library take an operator as a parameter.   *)
(* Induction is stated here for a set of numbers instead: a predicate P is  *)
(* proved of every number with D == { n \in Nat : P(n) }. It follows from   *)
(* the well-foundedness of < (WFMin), which has no such parameter.          *)
(***************************************************************************)
EXTENDS Integers, FiniteSets, FiniteSetsExt, FiniteSetTheorems, WellFoundedInduction, TLAPS

LessThan == { p \in Nat \X Nat : p[1] < p[2] }

(* Every set of natural numbers but the empty one has a least element.      *)
LEMMA Least ==
  ASSUME NEW S \in SUBSET Nat, S # {}
  PROVE  \E m \in S : \A n \in S : m <= n
<1>1. PICK m \in S : \A n \in S : ~ (<<n, m>> \in LessThan)
  <2>1. IsWellFoundedOn(LessThan, Nat)
    BY NatLessThanWellFounded DEF OpToRel, LessThan
  <2> QED BY <2>1, WFMin
<1>2. \A n \in S : <<n, m>> \in LessThan <=> n < m
  BY DEF LessThan
<1>3. ASSUME NEW n \in S PROVE m <= n
  <2>1. m \in Nat /\ n \in Nat
    OBVIOUS
  <2>2. ~ (n < m)
    BY <1>1, <1>2
  <2> QED BY <2>1, <2>2
<1> QED BY <1>3

(* Induction over a set of numbers, from the least number outside it.       *)
LEMMA Induction ==
  ASSUME NEW D, 0 \in D, \A n \in Nat : n \in D => n + 1 \in D
  PROVE  Nat \subseteq D
<1> SUFFICES ASSUME ~ (Nat \subseteq D) PROVE FALSE
  OBVIOUS
<1> DEFINE Not == { n \in Nat : n \notin D }
<1>1. PICK m \in Not : \A n \in Not : m <= n
  <2>1. Not \in SUBSET Nat /\ Not # {}
    OBVIOUS
  <2> HIDE DEF Not
  <2> QED BY <2>1, Least
<1>2. m \in Nat /\ m # 0 /\ m \notin D
  OBVIOUS
<1>3. m - 1 \in Nat /\ m - 1 \notin Not
  BY <1>1, <1>2
<1>4. m \in D
  BY <1>2, <1>3
<1> QED BY <1>2, <1>4

----------------------------------------------------------------------------
(* Division with remainder.                                                 *)

LEMMA DivMod ==
  ASSUME NEW a \in Nat \ {0}, NEW y \in Int
  PROVE  y \div a \in Int /\ y % a \in 0 .. a - 1 /\ y = a * (y \div a) + (y % a)
  OBVIOUS

(* Quotient and remainder are the only ones.                                *)
LEMMA DivModUnique ==
  ASSUME NEW a \in Nat \ {0}, NEW q \in Int, NEW r \in 0 .. a - 1
  PROVE  (a * q + r) % a = r /\ (a * q + r) \div a = q
  OBVIOUS

(* A multiple leaves no remainder.                                          *)
LEMMA MultipleMod ==
  ASSUME NEW a \in Nat \ {0}, NEW q \in Int
  PROVE  (a * q) % a = 0
  OBVIOUS

(* A number without a remainder is a multiple.                              *)
LEMMA Divides ==
  ASSUME NEW a \in Nat \ {0}, NEW y \in Int, y % a = 0
  PROVE  \E q \in Int : y = a * q
<1> DEFINE q == y \div a
<1>1. q \in Int /\ y = a * q + (y % a)
  BY DivMod
<1> HIDE DEF q
<1>2. a * q \in Int
  BY <1>1
<1>3. y = a * q
  BY <1>1, <1>2
<1> QED BY <1>1, <1>3

(* A multiple more or less does not change the remainder.                   *)
LEMMA ModPlus ==
  ASSUME NEW a \in Nat \ {0}, NEW y \in Int, NEW k \in Int
  PROVE  (y + a * k) % a = y % a
<1> DEFINE q == y \div a
           r == y % a
<1>1. q \in Int /\ r \in 0 .. a - 1 /\ y = a * q + r
  BY DivMod
<1> HIDE DEF q, r
<1>2. y + a * k = a * (q + k) + r
  BY <1>1
<1>3. (a * (q + k) + r) % a = r
  BY <1>1, DivModUnique
<1>4. (a * q + r) % a = r
  BY <1>1, DivModUnique
<1> QED BY <1>1, <1>2, <1>3, <1>4

(* Rounding up to a multiple, the way ALIGN_UP and its like do.             *)
LEMMA RoundUp ==
  ASSUME NEW a \in Nat \ {0}, NEW x \in Nat, NEW z, z = ((x + a - 1) \div a) * a
  PROVE  z \in Nat /\ z >= x /\ z <= x + a - 1 /\ z % a = 0
<1> DEFINE y == x + a - 1
           q == y \div a
           r == y % a
<1>1. q \in Int /\ r \in 0 .. a - 1 /\ y = a * q + r
  <2>1. y \in Int
    OBVIOUS
  <2> HIDE DEF y
  <2> QED BY <2>1, DivMod
<1>2. z = a * q
  BY <1>1
<1> HIDE DEF q, r
<1>3. (a * q) % a = 0 /\ a * q \in Int
  BY <1>1, MultipleMod
<1>4. a * q = x + a - 1 - r
  BY <1>1, <1>3
<1> QED BY <1>1, <1>2, <1>3, <1>4

(* A header, and behind it the first address aligned to al, in a page: the  *)
(* address is at 0 in its page, or at al when al is smaller than the page.  *)
LEMMA AlignedBehind ==
  ASSUME NEW page \in Nat \ {0}, NEW hdr \in Nat \ {0}, NEW al \in Nat \ {0}, hdr <= al,
         NEW k \in Nat,
         NEW o, o = ((page * k + hdr + al - 1) \div al) * al - hdr - page * k
  PROVE  /\ o \in Nat /\ o < al
         /\ al % page = 0 => (o + hdr) % page = 0
         /\ page % al = 0 => (o + hdr) % page \in {al, 0}
<1> DEFINE base == page * k
           z == ((base + hdr + al - 1) \div al) * al
<1>1. base \in Nat
  OBVIOUS
<1>2. z \in Nat /\ z >= base + hdr /\ z <= base + hdr + al - 1 /\ z % al = 0
  <2>1. base + hdr \in Nat
    BY <1>1
  <2> HIDE DEF base
  <2> QED BY <2>1, RoundUp
<1>3. o = z - hdr - base
  OBVIOUS
<1> HIDE DEF z
<1>4. o \in Nat /\ o < al /\ o + hdr = z - base
  <2> HIDE DEF base
  <2> QED BY <1>1, <1>2, <1>3
<1>5. PICK m \in Int : z = al * m
  <2>1. z \in Int /\ z % al = 0
    BY <1>2
  <2> QED BY <2>1, Divides
<1>6. ASSUME al % page = 0 PROVE (z - base) % page = 0
  <2>1. PICK q \in Int : al = page * q
    <3>1. al \in Int
      OBVIOUS
    <3> QED BY <1>6, <3>1, Divides
  <2>2. z - base = page * (q * m - k)
    BY <1>5, <2>1
  <2>3. q * m - k \in Int
    BY <1>5, <2>1
  <2> QED BY <2>2, <2>3, MultipleMod
<1>7. ASSUME page % al = 0 PROVE (z - base) % page \in {al, 0}
  <2>1. PICK q \in Int : page = al * q
    <3>1. page \in Int
      OBVIOUS
    <3> QED BY <1>7, <3>1, Divides
  <2> DEFINE n == q * k
  <2>2. base = al * n /\ n \in Int
    BY <2>1
  <2> HIDE DEF n, base
  <2>3. m = n + 1
    <3>1. al * m > al * n /\ al * m < al * n + 2 * al
      BY <1>2, <1>5, <2>2
    <3>2. m > n /\ m < n + 2
      BY <1>5, <2>2, <3>1
    <3> QED BY <1>5, <2>2, <3>2
  <2>4. z - base = al
    BY <1>5, <2>2, <2>3
  <2>5. al % page \in {al, 0}
    <3>1. CASE al = page
      <4>1. (al * 1) % al = 0
        BY MultipleMod
      <4> QED BY <3>1, <4>1
    <3>2. CASE al # page
      <4>1. q >= 1
        BY <2>1
      <4>2. al < page
        BY <2>1, <3>2, <4>1
      <4>3. (page * 0 + al) % page = al
        BY <4>2, DivModUnique
      <4> QED BY <4>3
    <3> QED BY <3>1, <3>2
  <2> QED BY <2>4, <2>5
<1> QED BY <1>4, <1>6, <1>7

(* The first n numbers.                                                     *)
LEMMA Interval ==
  ASSUME NEW n \in Nat
  PROVE  /\ IsFiniteSet(1 .. n) /\ Cardinality(1 .. n) = n
         /\ IsFiniteSet(0 .. n - 1) /\ Cardinality(0 .. n - 1) = n
<1>1. n \in Int /\ n - 1 \in Int /\ 0 \in Int /\ 1 \in Int
  OBVIOUS
<1>2. IsFiniteSet(1 .. n) /\ Cardinality(1 .. n) = IF 1 > n THEN 0 ELSE n - 1 + 1
  BY <1>1, FS_Interval
<1>3. IsFiniteSet(0 .. n - 1) /\ Cardinality(0 .. n - 1) = IF 0 > n - 1 THEN 0 ELSE (n - 1) - 0 + 1
  BY <1>1, FS_Interval
<1> QED BY <1>2, <1>3

----------------------------------------------------------------------------
(* The sum of f over S, as the fold of the community modules computes it.   *)
Sum(f, S) == MapThenSumSet(LAMBDA p : f[p], S)

Pick(s) == CHOOSE x \in s : TRUE

(* The function by which the fold is defined: one element is added to the   *)
(* sum of the others.                                                       *)
SumOn(f, S, g) ==
  g = [s \in SUBSET S |-> IF s = {} THEN 0 ELSE f[Pick(s)] + g[s \ {Pick(s)}]]

(* Sum, by the recursive function it chooses.                               *)
LEMMA SumDef ==
  ASSUME NEW f, NEW S
  PROVE  Sum(f, S) = (CHOOSE g : SumOn(f, S, g))[S]
  BY DEF Sum, SumOn, Pick, MapThenSumSet, MapThenFoldSet

(* Pick takes an element.                                                   *)
LEMMA PickIn == \A s : s # {} => Pick(s) \in s
  BY DEF Pick

(* Taking an element out of a finite set, as the inductions below do.       *)
LEMMA OneLess ==
  ASSUME NEW S, IsFiniteSet(S), NEW s \in SUBSET S, NEW x \in s, NEW n \in Nat,
         Cardinality(s) = n + 1
  PROVE  s \ {x} \in SUBSET S /\ IsFiniteSet(s \ {x}) /\ Cardinality(s \ {x}) = n
<1>1. IsFiniteSet(s)
  BY FS_Subset
<1>2. IsFiniteSet(s) => Cardinality(s \ {x}) = IF x \in s THEN Cardinality(s) - 1 ELSE Cardinality(s)
  BY FS_RemoveElement, Zenon
<1>3. IsFiniteSet(s \ {x})
  BY <1>1, FS_Subset
<1> QED BY <1>1, <1>2, <1>3

(* Subsets of a finite set are finite, and only the empty one has no        *)
(* element.                                                                 *)
LEMMA SubsetSize ==
  ASSUME NEW S, IsFiniteSet(S), NEW s \in SUBSET S
  PROVE  /\ IsFiniteSet(s) /\ Cardinality(s) \in Nat /\ Cardinality(s) <= Cardinality(S)
         /\ Cardinality(s) = 0 <=> s = {}
  BY FS_Subset, FS_CardinalityType, FS_EmptySet

(* The function exists: it can be built up to sets of n elements for all n. *)
LEMMA SumExists ==
  ASSUME NEW f, NEW S, IsFiniteSet(S)
  PROVE  \E g : SumOn(f, S, g)
<1> DEFINE Small(n) == { s \in SUBSET S : Cardinality(s) <= n }
           Upto(n, g) ==
             g = [s \in Small(n) |-> IF s = {} THEN 0 ELSE f[Pick(s)] + g[s \ {Pick(s)}]]
           D == { n \in Nat : \E g : Upto(n, g) }
<1>1. 0 \in D
  <2>1. Small(0) = {{}}
    BY SubsetSize, FS_EmptySet
  <2>2. Upto(0, [s \in {{}} |-> 0])
    BY <2>1
  <2> QED BY <2>2
<1>2. ASSUME NEW n \in Nat, n \in D PROVE n + 1 \in D
  <2>1. PICK g : Upto(n, g)
    BY <1>2
  <2> DEFINE h == [s \in Small(n + 1) |-> IF s = {} THEN 0 ELSE f[Pick(s)] + g[s \ {Pick(s)}]]
  <2>2. ASSUME NEW s \in Small(n + 1), s # {}
        PROVE  s \ {Pick(s)} \in Small(n) /\ h[s \ {Pick(s)}] = g[s \ {Pick(s)}]
    <3> DEFINE r == s \ {Pick(s)}
               m == Cardinality(s) - 1
    <3>1. Cardinality(s) \in Nat \ {0} /\ Cardinality(s) <= n + 1
      BY <2>2, SubsetSize
    <3>2. m \in Nat /\ Cardinality(s) = m + 1 /\ m <= n
      BY <3>1
    <3> HIDE DEF m
    <3>3. r \in SUBSET S /\ Cardinality(r) = m
      <4>1. s \in SUBSET S /\ Pick(s) \in s
        BY <2>2, PickIn
      <4> QED BY <3>2, <4>1, OneLess
    <3>4. r \in Small(n) /\ r \in Small(n + 1)
      BY <3>2, <3>3
    <3> HIDE DEF r
    <3>5. h[r] = IF r = {} THEN 0 ELSE f[Pick(r)] + g[r \ {Pick(r)}]
      BY <3>4
    <3>6. g[r] = IF r = {} THEN 0 ELSE f[Pick(r)] + g[r \ {Pick(r)}]
      BY <2>1, <3>4
    <3>7. h[r] = g[r]
      BY <3>5, <3>6
    <3> QED BY <3>4, <3>7 DEF r
  <2>3. Upto(n + 1, h)
    <3>1. \A s \in Small(n + 1) :
            (IF s = {} THEN 0 ELSE f[Pick(s)] + g[s \ {Pick(s)}])
              = (IF s = {} THEN 0 ELSE f[Pick(s)] + h[s \ {Pick(s)}])
      BY <2>2
    <3> QED BY <3>1
  <2>4. \E k : Upto(n + 1, k)
    <3> HIDE DEF h, Upto
    <3> QED BY <2>3
  <2> HIDE DEF Upto
  <2> QED BY <2>4
<1>3. Cardinality(S) \in Nat
  BY FS_CardinalityType
<1>4. Cardinality(S) \in D
  <2> HIDE DEF D
  <2> QED BY <1>1, <1>2, <1>3, Induction
<1>5. Small(Cardinality(S)) = SUBSET S
  BY SubsetSize
<1> QED BY <1>4, <1>5 DEF SumOn

(* The sum is the value of such a function.                                 *)
LEMMA SumIs ==
  ASSUME NEW f, NEW S, IsFiniteSet(S)
  PROVE  \E g : SumOn(f, S, g) /\ Sum(f, S) = g[S]
<1> DEFINE g == CHOOSE g : SumOn(f, S, g)
<1>1. SumOn(f, S, g)
  BY SumExists
<1> HIDE DEF g
<1>2. Sum(f, S) = g[S]
  BY SumDef DEF g
<1> QED BY <1>1, <1>2

(* One step of the recursion.                                               *)
LEMMA SumOnStep ==
  ASSUME NEW f, NEW S, NEW g, SumOn(f, S, g), NEW s \in SUBSET S
  PROVE  /\ s = {} => g[s] = 0
         /\ s # {} => g[s] = f[Pick(s)] + g[s \ {Pick(s)}]
<1>1. g[s] = IF s = {} THEN 0 ELSE f[Pick(s)] + g[s \ {Pick(s)}]
  BY DEF SumOn
<1> QED BY <1>1

(* The sums of integers are integers.                                       *)
LEMMA SumOnType ==
  ASSUME NEW f, NEW S, IsFiniteSet(S), \A x \in S : f[x] \in Int, NEW g, SumOn(f, S, g),
         NEW s \in SUBSET S
  PROVE  g[s] \in Int
<1> DEFINE D == { n \in Nat : \A r \in SUBSET S : Cardinality(r) = n => g[r] \in Int }
<1>1. 0 \in D
  <2>1. g[{}] = 0
    BY SumOnStep
  <2> QED BY <2>1, SubsetSize
<1>2. ASSUME NEW n \in Nat, n \in D PROVE n + 1 \in D
  <2> SUFFICES ASSUME NEW r \in SUBSET S, Cardinality(r) = n + 1 PROVE g[r] \in Int
    OBVIOUS
  <2>1. r # {}
    BY SubsetSize
  <2>2. Pick(r) \in r
    BY <2>1, PickIn
  <2>3. g[r \ {Pick(r)}] \in Int
    BY <1>2, <2>2, OneLess
  <2>4. g[r] = f[Pick(r)] + g[r \ {Pick(r)}]
    BY <2>1, SumOnStep
  <2>5. f[Pick(r)] \in Int
    BY <2>2
  <2> QED BY <2>3, <2>4, <2>5
<1>3. Nat \subseteq D
  <2> HIDE DEF D
  <2> QED BY <1>1, <1>2, Induction
<1> QED BY <1>3, SubsetSize

(* Whichever element is taken out first, the sum is the same.               *)
LEMMA SumOnTake ==
  ASSUME NEW f, NEW S, IsFiniteSet(S), \A x \in S : f[x] \in Int, NEW g, SumOn(f, S, g),
         NEW s \in SUBSET S, NEW x \in s
  PROVE  g[s] = f[x] + g[s \ {x}]
<1> DEFINE D == { n \in Nat : \A r \in SUBSET S : Cardinality(r) = n =>
                                \A y \in r : g[r] = f[y] + g[r \ {y}] }
<1>1. 0 \in D
  BY SubsetSize
<1>2. ASSUME NEW n \in Nat, n \in D PROVE n + 1 \in D
  <2> SUFFICES ASSUME NEW r \in SUBSET S, Cardinality(r) = n + 1, NEW y \in r
               PROVE  g[r] = f[y] + g[r \ {y}]
    OBVIOUS
  <2> DEFINE c == Pick(r)
  <2>1. c \in r /\ g[r] = f[c] + g[r \ {c}]
    BY PickIn, SumOnStep
  <2> HIDE DEF c
  <2>2. CASE y = c
    BY <2>1, <2>2
  <2>3. CASE y # c
    <3>1. r \ {c} \in SUBSET S /\ Cardinality(r \ {c}) = n /\ y \in r \ {c}
      BY <2>1, <2>3, OneLess
    <3>2. r \ {y} \in SUBSET S /\ Cardinality(r \ {y}) = n /\ c \in r \ {y}
      BY <2>1, <2>3, OneLess
    <3>3. g[r \ {c}] = f[y] + g[(r \ {c}) \ {y}]
      BY <1>2, <3>1
    <3>4. g[r \ {y}] = f[c] + g[(r \ {y}) \ {c}]
      BY <1>2, <3>2
    <3>5. (r \ {c}) \ {y} = (r \ {y}) \ {c} /\ (r \ {c}) \ {y} \in SUBSET S
      OBVIOUS
    <3>6. f[y] \in Int /\ f[c] \in Int /\ g[(r \ {c}) \ {y}] \in Int
      BY <2>1, <3>5, SumOnType
    <3> DEFINE z == g[(r \ {c}) \ {y}]
               a == f[y]
               b == f[c]
    <3>7. g[r] = b + (a + z) /\ g[r \ {y}] = b + z
      BY <2>1, <3>3, <3>4, <3>5
    <3>8. a \in Int /\ b \in Int /\ z \in Int
      BY <3>6
    <3> HIDE DEF a, b, z
    <3>9. b + (a + z) = a + (b + z)
      BY <3>8
    <3>10. g[r] = a + g[r \ {y}]
      BY <3>7, <3>9
    <3> QED BY <3>10 DEF a
  <2> QED BY <2>2, <2>3
<1>3. Nat \subseteq D
  <2> HIDE DEF D
  <2> QED BY <1>1, <1>2, Induction
<1> QED BY <1>3, SubsetSize

(* The sums of two functions that agree on the smaller set.                 *)
Agree(f, h, S) == \A x \in S : h[x] = f[x]

(* Where f and h agree, so do their sums, also as parts of different sets.  *)
LEMMA SumOnSame ==
  ASSUME NEW f, NEW h, NEW S, NEW T, IsFiniteSet(T), S \subseteq T, Agree(f, h, S),
         NEW g, SumOn(f, S, g), NEW k, SumOn(h, T, k), NEW s \in SUBSET S
  PROVE  g[s] = k[s]
<1> DEFINE D == { n \in Nat : \A r \in SUBSET S : Cardinality(r) = n => g[r] = k[r] }
<1> IsFiniteSet(S)
  BY FS_Subset
<1>1. 0 \in D
  <2>1. g[{}] = 0
    BY SumOnStep
  <2>2. k[{}] = 0
    BY SumOnStep
  <2> QED BY <2>1, <2>2, SubsetSize
<1>2. ASSUME NEW n \in Nat, n \in D PROVE n + 1 \in D
  <2> SUFFICES ASSUME NEW r \in SUBSET S, Cardinality(r) = n + 1 PROVE g[r] = k[r]
    OBVIOUS
  <2>1. r \in SUBSET T /\ r # {}
    BY SubsetSize
  <2>2. Pick(r) \in r
    BY <2>1, PickIn
  <2>3. r \ {Pick(r)} \in SUBSET S /\ Cardinality(r \ {Pick(r)}) = n
    <3> HIDE DEF D
    <3> QED BY <2>2, OneLess
  <2>4. g[r \ {Pick(r)}] = k[r \ {Pick(r)}] /\ h[Pick(r)] = f[Pick(r)]
    BY <1>2, <2>2, <2>3 DEF Agree
  <2>5. g[r] = f[Pick(r)] + g[r \ {Pick(r)}]
    BY <2>1, SumOnStep
  <2>6. k[r] = h[Pick(r)] + k[r \ {Pick(r)}]
    <3> HIDE DEF D
    <3>1. k[r] = IF r = {} THEN 0 ELSE h[Pick(r)] + k[r \ {Pick(r)}]
      BY <2>1 DEF SumOn
    <3> QED BY <2>1, <3>1
  <2> QED BY <2>4, <2>5, <2>6
<1>3. Nat \subseteq D
  <2> HIDE DEF D
  <2> QED BY <1>1, <1>2, Induction
<1> QED BY <1>3, SubsetSize

----------------------------------------------------------------------------
(* What is used of sums.                                                    *)

LEMMA SumEmpty == \A f : Sum(f, {}) = 0
<1> TAKE f
<1>1. PICK g : SumOn(f, {}, g) /\ Sum(f, {}) = g[{}]
  BY SumIs, FS_EmptySet
<1> QED BY <1>1, SumOnStep

(* The sum of integers is an integer.                                       *)
LEMMA SumType ==
  ASSUME NEW f, NEW S, IsFiniteSet(S), \A x \in S : f[x] \in Int
  PROVE  Sum(f, S) \in Int
<1>1. PICK g : SumOn(f, S, g) /\ Sum(f, S) = g[S]
  BY SumIs
<1> QED BY <1>1, SumOnType

(* A sum depends on the values at the elements of its set only.             *)
LEMMA SumSame ==
  ASSUME NEW f, NEW h, NEW S, IsFiniteSet(S), \A x \in S : h[x] = f[x]
  PROVE  Sum(f, S) = Sum(h, S)
<1>1. PICK g : SumOn(f, S, g) /\ Sum(f, S) = g[S]
  BY SumIs
<1>2. PICK k : SumOn(h, S, k) /\ Sum(h, S) = k[S]
  BY SumIs
<1>3. S \subseteq S /\ S \in SUBSET S /\ Agree(f, h, S)
  BY DEF Agree
<1>4. g[S] = k[S]
  BY <1>1, <1>2, <1>3, SumOnSame
<1> QED BY <1>1, <1>2, <1>4

(* One element more, or one element less.                                   *)
LEMMA SumRemove ==
  ASSUME NEW f, NEW S, IsFiniteSet(S), \A x \in S : f[x] \in Int, NEW e \in S
  PROVE  Sum(f, S) = f[e] + Sum(f, S \ {e})
<1>1. PICK g : SumOn(f, S, g) /\ Sum(f, S) = g[S]
  BY SumIs
<1>2. S \ {e} \subseteq S /\ IsFiniteSet(S \ {e})
  BY FS_Subset
<1>3. PICK k : SumOn(f, S \ {e}, k) /\ Sum(f, S \ {e}) = k[S \ {e}]
  BY <1>2, SumIs
<1>4. k[S \ {e}] = g[S \ {e}]
  <2>1. Agree(f, f, S \ {e}) /\ S \ {e} \in SUBSET (S \ {e})
    BY DEF Agree
  <2> QED BY <1>1, <1>2, <1>3, <2>1, SumOnSame
<1>5. g[S] = f[e] + g[S \ {e}]
  BY <1>1, SumOnTake
<1> QED BY <1>1, <1>3, <1>4, <1>5

(* A new element adds its value.                                            *)
LEMMA SumAdd ==
  ASSUME NEW f, NEW S, IsFiniteSet(S), NEW e, e \notin S, \A x \in S \cup {e} : f[x] \in Int
  PROVE  Sum(f, S \cup {e}) = f[e] + Sum(f, S)
<1>1. IsFiniteSet(S \cup {e}) /\ (S \cup {e}) \ {e} = S
  BY FS_AddElement
<1> QED BY <1>1, SumRemove

(* A function that is changed at one element only.                          *)
LEMMA SumChange ==
  ASSUME NEW S, IsFiniteSet(S), NEW f, NEW h, NEW e \in S,
         \A x \in S : f[x] \in Int /\ h[x] \in Int,
         \A x \in S \ {e} : h[x] = f[x]
  PROVE  Sum(h, S) = Sum(f, S) + h[e] - f[e]
<1>1. IsFiniteSet(S \ {e})
  BY FS_Subset
<1>2. Sum(f, S \ {e}) = Sum(h, S \ {e}) /\ Sum(f, S \ {e}) \in Int
  BY <1>1, SumSame, SumType
<1>3. Sum(f, S) = f[e] + Sum(f, S \ {e})
  BY SumRemove
<1>4. Sum(h, S) = h[e] + Sum(h, S \ {e})
  BY SumRemove
<1> QED BY <1>2, <1>3, <1>4

(* A sum of natural numbers is no less than the sum over a part of the set  *)
(* of numbers no larger.                                                    *)
LEMMA SumMonotone ==
  ASSUME NEW T, IsFiniteSet(T), NEW f, NEW h, NEW S \in SUBSET T,
         \A x \in T : f[x] \in Int /\ h[x] \in Nat,
         \A x \in S : f[x] <= h[x]
  PROVE  Sum(f, S) <= Sum(h, T)
<1> DEFINE D == { n \in Nat : \A r \in SUBSET T : Cardinality(r) = n =>
                                Sum(f, r \cap S) <= Sum(h, r) }
<1>1. 0 \in D
  <2>1. Sum(f, {}) <= Sum(h, {})
    BY SumEmpty
  <2>2. \A r \in SUBSET T : Cardinality(r) = 0 => r = {} /\ r \cap S = {}
    BY SubsetSize
  <2> QED BY <2>1, <2>2
<1>2. ASSUME NEW n \in Nat, n \in D PROVE n + 1 \in D
  <2> SUFFICES ASSUME NEW r \in SUBSET T, Cardinality(r) = n + 1
               PROVE  Sum(f, r \cap S) <= Sum(h, r)
    OBVIOUS
  <2>1. PICK e \in r : TRUE
    BY SubsetSize
  <2> DEFINE q == r \ {e}
  <2>2. q \in SUBSET T /\ Cardinality(q) = n
    <3> HIDE DEF D
    <3> QED BY <2>1, OneLess
  <2>3. Sum(f, q \cap S) <= Sum(h, q)
    BY <1>2, <2>2
  <2>4. /\ IsFiniteSet(r) /\ IsFiniteSet(q) /\ IsFiniteSet(r \cap S) /\ IsFiniteSet(q \cap S)
    BY FS_Subset
  <2>5. Sum(h, r) = h[e] + Sum(h, q)
    <3>1. \A x \in r : h[x] \in Int
      OBVIOUS
    <3> QED BY <2>1, <2>4, <3>1, SumRemove
  <2>6. Sum(h, q) \in Int /\ Sum(f, q \cap S) \in Int /\ h[e] \in Nat /\ f[e] \in Int
    <3>1. \A x \in q : h[x] \in Int
      OBVIOUS
    <3>2. \A x \in q \cap S : f[x] \in Int
      OBVIOUS
    <3> QED BY <2>1, <2>4, <3>1, <3>2, SumType
  <2>7. CASE e \in S
    <3>1. q \cap S = (r \cap S) \ {e} /\ e \in r \cap S
      BY <2>1, <2>7
    <3>2. \A x \in r \cap S : f[x] \in Int
      OBVIOUS
    <3>3. Sum(f, r \cap S) = f[e] + Sum(f, q \cap S)
      <4> HIDE DEF D, q
      <4> QED BY <2>4, <3>1, <3>2, SumRemove
    <3>4. f[e] <= h[e]
      BY <2>7
    <3> QED BY <2>3, <2>5, <2>6, <3>3, <3>4
  <2>8. CASE e \notin S
    <3>1. q \cap S = r \cap S
      BY <2>8
    <3> QED BY <2>3, <2>5, <2>6, <3>1
  <2> QED BY <2>7, <2>8
<1>3. Nat \subseteq D
  <2> HIDE DEF D
  <2> QED BY <1>1, <1>2, Induction
<1>4. Cardinality(T) \in Nat /\ T \in SUBSET T /\ T \cap S = S
  BY FS_CardinalityType
<1> QED BY <1>3, <1>4

(* Zeros add up to zero.                                                    *)
LEMMA SumZero ==
  ASSUME NEW S, IsFiniteSet(S), NEW f, \A x \in S : f[x] = 0
  PROVE  Sum(f, S) = 0
<1> DEFINE D == { n \in Nat : \A r \in SUBSET S : Cardinality(r) = n => Sum(f, r) = 0 }
<1>1. 0 \in D
  BY SubsetSize, SumEmpty
<1>2. ASSUME NEW n \in Nat, n \in D PROVE n + 1 \in D
  <2> SUFFICES ASSUME NEW r \in SUBSET S, Cardinality(r) = n + 1 PROVE Sum(f, r) = 0
    OBVIOUS
  <2>1. PICK e \in r : TRUE
    BY SubsetSize
  <2>2. r \ {e} \in SUBSET S /\ Cardinality(r \ {e}) = n /\ IsFiniteSet(r)
    <3> HIDE DEF D
    <3> QED BY <2>1, OneLess, FS_Subset
  <2>3. Sum(f, r \ {e}) = 0
    BY <1>2, <2>2
  <2>4. Sum(f, r) = f[e] + Sum(f, r \ {e})
    <3>1. \A x \in r : f[x] \in Int
      OBVIOUS
    <3> HIDE DEF D
    <3> QED BY <2>1, <2>2, <3>1, SumRemove
  <2> QED BY <2>3, <2>4
<1>3. Nat \subseteq D
  <2> HIDE DEF D
  <2> QED BY <1>1, <1>2, Induction
<1> QED BY <1>3, FS_CardinalityType

=============================================================================
