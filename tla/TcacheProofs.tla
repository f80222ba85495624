---------------------------- MODULE TcacheProofs ----------------------------
(***************************************************************************)
(* The per-thread caches, proved for any number of threads, places, bins    *)
(* and sizes.                                                               *)
(*                                                                         *)
(* The lists of a cache are first related to sequences (IsList): following  *)
(* the mangled links from a head gives the sequence, and a block put behind *)
(* a link, or taken from it, gives the sequence with that block more or     *)
(* less. The invariant then says of every bin of every thread that it is    *)
(* such a list, and of every place that it has at most one holder.          *)
(***************************************************************************)
EXTENDS Tcache, NumberLemmas

(* What the proofs use of the constants.                                    *)
LEMMA Constants ==
  /\ IsFiniteSet(Places) /\ Cardinality(Places) \in Nat /\ NULL \notin Places
  /\ Garbage \notin Places /\ Garbage # NULL
  /\ Count \in Nat /\ MaxBytes \in Nat /\ SmallBins \subseteq Bins
  /\ \A s \in Sizes : s \in Nat /\ (s < MaxBytes => TcIndex[s] \in Bins)
  /\ \A nb \in Requests : nb \in Sizes
  /\ \A s, u \in Sizes : s < MaxBytes /\ u < MaxBytes /\ TcIndex[s] \in SmallBins
                           /\ TcIndex[s] = TcIndex[u] => s = u
<1>1. IsFiniteSet(Places)
  BY TcacheAssumption
<1>2. Cardinality(Places) \in Nat
  BY <1>1, FS_CardinalityType
<1> QED BY <1>1, <1>2, TcacheAssumption

(* The k-th block of s, or NULL behind its end (and for k = 0).             *)
At(s, k) == IF k \in 1 .. Len(s) THEN s[k] ELSE NULL

(* The links lead from h along s to NULL, each mangled with its own place.  *)
IsList(nx, h, s) ==
  /\ s \in Seq(Places)
  /\ \A j, k \in 1 .. Len(s) : s[j] = s[k] => j = k
  /\ h = At(s, 1)
  /\ \A k \in 1 .. Len(s) : nx[s[k]] = Protect(s[k], At(s, k + 1))

(* A link read with the address it was mangled with is the pointer.         *)
LEMMA RevealProtect == \A nx, p, q : nx[p] = Protect(p, q) => Reveal(nx, p) = q
BY DEF Reveal, Protect

(* A sequence without repetition is no longer than there are places.        *)
LEMMA ListLength ==
  ASSUME NEW s \in Seq(Places), \A j, k \in 1 .. Len(s) : s[j] = s[k] => j = k
  PROVE  Len(s) \in Nat /\ Cardinality(Places) \in Nat /\ Len(s) <= Cardinality(Places)
<1> DEFINE n == Len(s)
           c == Cardinality(Places)
<1>1. n \in Nat /\ c \in Nat /\ s \in [1 .. n -> Places] /\ IsFiniteSet(Places)
  <2>1. n \in Nat /\ s \in [1 .. n -> Places]
    OBVIOUS
  <2> QED BY <2>1, Constants
<1>2. IsFiniteSet(1 .. n) /\ Cardinality(1 .. n) = n
  BY <1>1, Interval
<1>3. ~ (c < n)
  <2> SUFFICES ASSUME c < n PROVE FALSE
    OBVIOUS
  <2>1. \E x, y \in 1 .. n : x # y /\ s[x] = s[y]
    <3> HIDE DEF n
    <3> QED BY <1>1, <1>2, FS_PigeonHole
  <2> QED BY <2>1
<1> QED BY <1>1, <1>3

(* The walk along the links is a recursive function; this is its value.     *)
Walk(nx, h, p) ==
  p = [k \in 0 .. Cardinality(Places) |->
         IF k = 0 THEN h ELSE IF p[k - 1] \in Places THEN Reveal(nx, p[k - 1]) ELSE p[k - 1]]

(* Along a list the walk passes its blocks and then stays at NULL.          *)
LEMMA WalkExists ==
  ASSUME NEW nx, NEW h, NEW s, IsList(nx, h, s)
  PROVE  Walk(nx, h, [k \in 0 .. Cardinality(Places) |-> At(s, k + 1)])
<1> DEFINE N == Cardinality(Places)
           w == [k \in 0 .. N |-> At(s, k + 1)]
           step(k) == IF k = 0 THEN h ELSE IF w[k - 1] \in Places THEN Reveal(nx, w[k - 1]) ELSE w[k - 1]
<1>1. s \in Seq(Places) /\ Len(s) \in Nat /\ N \in Nat
  BY ListLength DEF IsList
<1>2. ASSUME NEW k \in 0 .. N PROVE w[k] = step(k)
  <2>1. CASE k = 0
    BY <2>1 DEF IsList
  <2>2. CASE k # 0
    <3>1. k - 1 \in 0 .. N /\ (k - 1) + 1 = k
      BY <1>1, <2>2
    <3>2. w[k - 1] = At(s, k)
      BY <3>1
    <3>3. CASE k \in 1 .. Len(s)
      <4>1. At(s, k) = s[k] /\ s[k] \in Places
        BY <1>1, <3>3 DEF At
      <4>2. Reveal(nx, s[k]) = At(s, k + 1)
        BY <3>3, RevealProtect DEF IsList
      <4> QED BY <2>2, <3>2, <4>1, <4>2
    <3>4. CASE k \notin 1 .. Len(s)
      <4>1. At(s, k) = NULL /\ At(s, k + 1) = NULL /\ NULL \notin Places
        BY <1>1, <2>2, <3>4, Constants DEF At
      <4> QED BY <2>2, <3>2, <4>1
    <3> QED BY <3>3, <3>4
  <2> QED BY <2>1, <2>2
<1>3. w = [k \in 0 .. N |-> step(k)]
  BY <1>2
<1> QED BY <1>3 DEF Walk

(* There is only one walk, by induction over its length.                    *)
LEMMA WalkUnique ==
  ASSUME NEW nx, NEW h, NEW p, Walk(nx, h, p), NEW w, Walk(nx, h, w), Cardinality(Places) \in Nat
  PROVE  \A k \in 0 .. Cardinality(Places) : p[k] = w[k]
<1> DEFINE N == Cardinality(Places)
           D == { k \in Nat : k \in 0 .. N => p[k] = w[k] }
<1>1. 0 \in D
  BY DEF Walk
<1>2. ASSUME NEW k \in Nat, k \in D PROVE k + 1 \in D
  <2> SUFFICES ASSUME k + 1 \in 0 .. N PROVE p[k + 1] = w[k + 1]
    OBVIOUS
  <2>1. k \in 0 .. N /\ p[k] = w[k] /\ (k + 1) - 1 = k /\ k + 1 # 0
    BY <1>2
  <2>2. p[k + 1] = IF p[k] \in Places THEN Reveal(nx, p[k]) ELSE p[k]
    BY <2>1 DEF Walk
  <2>3. w[k + 1] = IF w[k] \in Places THEN Reveal(nx, w[k]) ELSE w[k]
    BY <2>1 DEF Walk
  <2> QED BY <2>1, <2>2, <2>3
<1>3. Nat \subseteq D
  <2> HIDE DEF D
  <2> QED BY <1>1, <1>2, Induction
<1> QED BY <1>3

(* Chain gives the sequence back.                                           *)
LEMMA ChainIs ==
  ASSUME NEW nx, NEW h, NEW s, IsList(nx, h, s)
  PROVE  Chain(nx, h) = s
<1> DEFINE N == Cardinality(Places)
           w == [k \in 0 .. N |-> At(s, k + 1)]
           p == CHOOSE p : Walk(nx, h, p)
           n == Cardinality({ k \in DOMAIN p : p[k] \in Places })
<1>1. Chain(nx, h) = [k \in 1 .. n |-> p[k - 1]]
  BY DEF Chain, Walk
<1>2. Walk(nx, h, w)
  BY WalkExists
<1>3. Walk(nx, h, p)
  BY <1>2
<1>4. s \in Seq(Places) /\ Len(s) \in Nat /\ N \in Nat /\ Len(s) <= N
  BY ListLength DEF IsList
<1> HIDE DEF p
<1>5. DOMAIN p = 0 .. N /\ \A k \in 0 .. N : p[k] = At(s, k + 1)
  <2>1. \A k \in 0 .. N : p[k] = w[k]
    BY <1>2, <1>3, <1>4, WalkUnique
  <2>2. DOMAIN p = 0 .. N
    BY <1>3 DEF Walk
  <2> QED BY <2>1, <2>2
<1>6. { k \in DOMAIN p : p[k] \in Places } = 0 .. Len(s) - 1
  <2>1. ASSUME NEW k \in 0 .. N PROVE p[k] \in Places <=> k \in 0 .. Len(s) - 1
    <3>1. p[k] = At(s, k + 1)
      BY <1>5
    <3>2. CASE k + 1 \in 1 .. Len(s)
      <4>1. s[k + 1] \in Places
        BY <1>4, <3>2
      <4> QED BY <1>4, <3>1, <3>2, <4>1 DEF At
    <3>3. CASE k + 1 \notin 1 .. Len(s)
      BY <1>4, <3>1, <3>3, Constants DEF At
    <3> QED BY <3>2, <3>3
  <2> QED BY <1>4, <1>5, <2>1
<1>7. n = Len(s)
  BY <1>4, <1>6, Interval
<1> HIDE DEF n
<1>8. \A k \in 1 .. Len(s) : p[k - 1] = s[k]
  <2> SUFFICES ASSUME NEW k \in 1 .. Len(s) PROVE p[k - 1] = s[k]
    OBVIOUS
  <2>1. k - 1 \in 0 .. N /\ (k - 1) + 1 = k
    BY <1>4
  <2> QED BY <1>5, <2>1 DEF At
<1>9. s = [k \in 1 .. Len(s) |-> s[k]]
  BY <1>4
<1> QED BY <1>1, <1>7, <1>8, <1>9

----------------------------------------------------------------------------
(* The invariant.                                                           *)

CacheRecords == [state : {"inactive", "disabled", "live"}, at : Places \cup {NULL},
                 slots : [Bins -> Nat], heads : [Bins -> Places \cup {NULL}]]
OpRecords    == [kind : {"none", "malloc", "memalign", "free", "init", "shutdown"}, nb : Nat,
                 mem : Places \cup {NULL}, tmp : [Bins -> Places \cup {NULL}]]

TypeOK ==
  /\ cache \in [Threads -> CacheRecords] /\ op \in [Threads -> OpRecords]
  /\ pc \in [Threads -> {"idle", "arena", "free", "shutdown"}]
  /\ DOMAIN next = Places /\ key \subseteq Places
  /\ DOMAIN out \subseteq Places /\ DOMAIN live \subseteq Places
  /\ \A p \in DOMAIN out : out[p] \in Sizes

(* What a thread does agrees with what it remembers of it, and a cache that *)
(* is not live is one of the two dummies.                                   *)
Phase(t) ==
  /\ pc[t] = "idle" => op[t].kind = "none"
  /\ pc[t] = "arena" => op[t].kind \in {"malloc", "memalign", "init"}
  /\ pc[t] = "arena" /\ op[t].kind # "init" => op[t].nb \in Requests
  /\ pc[t] = "free" => op[t].kind = "free"
  /\ pc[t] = "shutdown" => op[t].kind = "shutdown" /\ ~ Enabled(t) /\ op[t].mem \in Places
  /\ op[t].kind = "init" => ~ Enabled(t)
  /\ op[t].kind \in {"free", "init"} => op[t].mem \in Places
  /\ Enabled(t) => cache[t].at \in Places
  /\ ~ Enabled(t) => \A i \in Bins : cache[t].slots[i] = 0 /\ cache[t].heads[i] = NULL

(* The head of t's list i, also while the cache is being shut down.         *)
HeadOf(t, i) == IF pc[t] = "shutdown" THEN op[t].tmp[i] ELSE cache[t].heads[i]

(* lst gives the blocks of every bin, and role what every place is used     *)
(* for: a block of the program, in a bin, the struct of a cache, or being   *)
(* freed; own is the thread whose it is.                                    *)
InBin(role, own, p, t, i) == role[p] = "bin" /\ own[p] = t /\ TcIndex[out[p]] = i

Lists(lst) == \A t \in Threads, i \in Bins : IsList(next, HeadOf(t, i), lst[t][i])
Slots(lst) == \A t \in Threads, i \in Bins : Enabled(t) => cache[t].slots[i] + Len(lst[t][i]) = Count
Sorted(lst) ==
  \A t \in Threads, i \in Bins \ SmallBins : \A j, k \in 1 .. Len(lst[t][i]) :
     j < k => out[lst[t][i][j]] <= out[lst[t][i][k]]
Members(lst, role, own) ==
  \A t \in Threads, i \in Bins, p \in Places : p \in Range(lst[t][i]) <=> InBin(role, own, p, t, i)
Holder(role, own, p) ==
  /\ p \in DOMAIN out <=> role[p] \in {"live", "bin", "struct", "freed"}
  /\ p \in DOMAIN live <=> role[p] = "live"
  /\ role[p] \in {"bin", "struct", "freed"} => own[p] \in Threads
  /\ role[p] = "bin" => p \in key /\ out[p] < MaxBytes
  /\ \A t \in Threads :
       /\ p \in StructOf(t) <=> role[p] = "struct" /\ own[p] = t
       /\ p \in BeingFreed(t) <=> role[p] = "freed" /\ own[p] = t
Holders(role, own) == \A p \in Places : Holder(role, own, p)

Held(lst, role, own) ==
  Lists(lst) /\ Slots(lst) /\ Sorted(lst) /\ Members(lst, role, own) /\ Holders(role, own)

CacheInv == TypeOK /\ (\A t \in Threads : Phase(t)) /\ \E lst, role, own : Held(lst, role, own)

----------------------------------------------------------------------------
(* Lists that change.                                                       *)

(* s with e put behind its n-th block, and s without its n-th block.        *)
Ins(s, n, e) == [k \in 1 .. Len(s) + 1 |-> IF k <= n THEN s[k] ELSE IF k = n + 1 THEN e ELSE s[k - 1]]
Del(s, n)    == [k \in 1 .. Len(s) - 1 |-> IF k < n THEN s[k] ELSE s[k + 1]]

(* Their blocks, in their order.                                            *)
LEMMA InsIs ==
  ASSUME NEW s \in Seq(Places), NEW n \in 0 .. Len(s), NEW e \in Places
  PROVE  /\ Ins(s, n, e) \in Seq(Places) /\ Len(Ins(s, n, e)) = Len(s) + 1
         /\ \A k \in 1 .. n : Ins(s, n, e)[k] = s[k]
         /\ Ins(s, n, e)[n + 1] = e
         /\ \A k \in n + 1 .. Len(s) : Ins(s, n, e)[k + 1] = s[k]
         /\ Range(Ins(s, n, e)) = Range(s) \cup {e}
<1> DEFINE r == Ins(s, n, e)
           m == Len(s) + 1
<1>1. Len(s) \in Nat /\ m \in Nat /\ n \in Nat /\ n <= Len(s) /\ s \in [1 .. Len(s) -> Places]
  OBVIOUS
<1>2. \A k \in 1 .. m : r[k] = IF k <= n THEN s[k] ELSE IF k = n + 1 THEN e ELSE s[k - 1]
  BY DEF Ins
<1>3. r \in [1 .. m -> Places]
  <2>1. ASSUME NEW k \in 1 .. m
        PROVE  (IF k <= n THEN s[k] ELSE IF k = n + 1 THEN e ELSE s[k - 1]) \in Places
    <3>1. k <= n => k \in 1 .. Len(s)
      BY <1>1
    <3>2. ~ (k <= n) /\ k # n + 1 => k - 1 \in 1 .. Len(s)
      BY <1>1
    <3> QED BY <1>1, <3>1, <3>2
  <2> QED BY <2>1 DEF Ins
<1>4. r \in Seq(Places) /\ Len(r) = m
  BY <1>1, <1>3
<1> HIDE DEF r
<1>5. \A k \in 1 .. n : r[k] = s[k]
  BY <1>1, <1>2
<1>6. r[n + 1] = e
  BY <1>1, <1>2
<1>7. \A k \in n + 1 .. Len(s) : r[k + 1] = s[k]
  BY <1>1, <1>2
<1>8. Range(r) = Range(s) \cup {e}
  <2>1. Range(r) = { r[k] : k \in 1 .. m } /\ Range(s) = { s[k] : k \in 1 .. Len(s) }
    BY <1>1, <1>3 DEF Range
  <2>2. ASSUME NEW k \in 1 .. m PROVE r[k] \in Range(s) \cup {e}
    <3>1. k \in 1 .. n \/ k = n + 1 \/ (k - 1 \in n + 1 .. Len(s) /\ (k - 1) + 1 = k)
      BY <1>1
    <3>2. CASE k \in 1 .. n
      BY <1>1, <1>5, <2>1, <3>2
    <3>3. CASE k - 1 \in n + 1 .. Len(s) /\ (k - 1) + 1 = k
      <4>1. r[k] = s[k - 1]
        BY <1>7, <3>3
      <4>2. k - 1 \in 1 .. Len(s)
        BY <1>1, <3>3
      <4> QED BY <2>1, <4>1, <4>2
    <3> QED BY <1>6, <3>1, <3>2, <3>3
  <2>3. ASSUME NEW k \in 1 .. Len(s) PROVE s[k] \in Range(r)
    <3>1. k \in 1 .. m /\ k + 1 \in 1 .. m /\ (k \in 1 .. n \/ k \in n + 1 .. Len(s))
      BY <1>1
    <3> QED BY <1>5, <1>7, <2>1, <3>1
  <2>4. n + 1 \in 1 .. m
    BY <1>1
  <2> QED BY <1>6, <2>1, <2>2, <2>3, <2>4
<1> QED BY <1>4, <1>5, <1>6, <1>7, <1>8 DEF r

(* The same for the sequence without its n-th block.                        *)
LEMMA DelIs ==
  ASSUME NEW s \in Seq(Places), NEW n \in 1 .. Len(s)
  PROVE  /\ Del(s, n) \in Seq(Places) /\ Len(Del(s, n)) = Len(s) - 1
         /\ \A k \in 1 .. n - 1 : Del(s, n)[k] = s[k]
         /\ \A k \in n .. Len(s) - 1 : Del(s, n)[k] = s[k + 1]
         /\ Range(s) = Range(Del(s, n)) \cup {s[n]}
         /\ (\A j, k \in 1 .. Len(s) : s[j] = s[k] => j = k) => s[n] \notin Range(Del(s, n))
<1> DEFINE r == Del(s, n)
           m == Len(s) - 1
<1>1. Len(s) \in Nat /\ m \in Nat /\ n \in Nat /\ n <= Len(s) /\ 1 <= n /\ s \in [1 .. Len(s) -> Places]
  OBVIOUS
<1>2. \A k \in 1 .. m : r[k] = IF k < n THEN s[k] ELSE s[k + 1]
  BY DEF Del
<1>3. r \in [1 .. m -> Places]
  <2>1. ASSUME NEW k \in 1 .. m
        PROVE  (IF k < n THEN s[k] ELSE s[k + 1]) \in Places
    <3>1. k \in 1 .. Len(s) /\ k + 1 \in 1 .. Len(s)
      BY <1>1
    <3> QED BY <1>1, <3>1
  <2> QED BY <2>1 DEF Del
<1>4. r \in Seq(Places) /\ Len(r) = m
  <2> HIDE DEF r, m
  <2> QED BY <1>1, <1>3
<1> HIDE DEF r
<1>5. \A k \in 1 .. n - 1 : r[k] = s[k]
  BY <1>1, <1>2
<1>6. \A k \in n .. Len(s) - 1 : r[k] = s[k + 1]
  BY <1>1, <1>2
<1>7. Range(r) = { r[k] : k \in 1 .. m } /\ Range(s) = { s[k] : k \in 1 .. Len(s) }
  BY <1>1, <1>3 DEF Range
<1>8. \A k \in 1 .. m : \E j \in 1 .. Len(s) : j # n /\ r[k] = s[j]
  <2> SUFFICES ASSUME NEW k \in 1 .. m PROVE \E j \in 1 .. Len(s) : j # n /\ r[k] = s[j]
    OBVIOUS
  <2>1. CASE k < n
    BY <1>1, <1>2, <2>1
  <2>2. CASE ~ (k < n)
    <3>1. k + 1 \in 1 .. Len(s) /\ k + 1 # n
      BY <1>1, <2>2
    <3> QED BY <1>2, <2>2, <3>1
  <2> QED BY <2>1, <2>2
<1>9. Range(s) = Range(r) \cup {s[n]}
  <2>1. ASSUME NEW k \in 1 .. Len(s), k # n PROVE s[k] \in Range(r)
    <3>1. k \in 1 .. n - 1 \/ (k - 1 \in n .. Len(s) - 1 /\ (k - 1) + 1 = k)
      BY <1>1, <2>1
    <3>2. CASE k \in 1 .. n - 1
      <4>1. k \in 1 .. m
        BY <1>1, <3>2
      <4> QED BY <1>5, <1>7, <3>2, <4>1
    <3>3. CASE k - 1 \in n .. Len(s) - 1 /\ (k - 1) + 1 = k
      <4>1. k - 1 \in 1 .. m /\ r[k - 1] = s[k]
        BY <1>1, <1>6, <3>3
      <4> QED BY <1>7, <4>1
    <3> QED BY <3>1, <3>2, <3>3
  <2> QED BY <1>7, <1>8, <2>1
<1>10. (\A j, k \in 1 .. Len(s) : s[j] = s[k] => j = k) => s[n] \notin Range(r)
  BY <1>7, <1>8
<1> QED BY <1>4, <1>5, <1>6, <1>9, <1>10 DEF r

(* A list whose links are left alone stays a list.                          *)
LEMMA SameList ==
  ASSUME NEW nx, NEW nx2, NEW h, NEW s, IsList(nx, h, s), \A p \in Range(s) : nx2[p] = nx[p]
  PROVE  IsList(nx2, h, s)
BY DEF IsList, Range

(* The list with e behind the block of link ep, and the links that makes:   *)
(* those that tcache_put_n writes.                                          *)
LEMMA InsList ==
  ASSUME NEW nx, DOMAIN nx = Places, NEW h, NEW s, IsList(nx, h, s), NEW n \in 0 .. Len(s),
         NEW e \in Places, e \notin Range(s), NEW nx2, DOMAIN nx2 = Places,
         nx2[e] = Protect(e, At(s, n + 1)), n # 0 => nx2[s[n]] = Protect(s[n], e),
         \A p \in Range(s) : n = 0 \/ p # s[n] => nx2[p] = nx[p]
  PROVE  IsList(nx2, IF n = 0 THEN e ELSE h, Ins(s, n, e))
<1> DEFINE r == Ins(s, n, e)
           h2 == IF n = 0 THEN e ELSE h
<1>1. /\ s \in Seq(Places) /\ Len(s) \in Nat /\ n \in Nat /\ n <= Len(s)
      /\ \A j, k \in 1 .. Len(s) : s[j] = s[k] => j = k
      /\ h = At(s, 1) /\ \A k \in 1 .. Len(s) : nx[s[k]] = Protect(s[k], At(s, k + 1))
      /\ \A k \in 1 .. Len(s) : s[k] \in Range(s)
  BY DEF IsList, Range
<1>2. /\ r \in Seq(Places) /\ Len(r) = Len(s) + 1
      /\ \A k \in 1 .. n : r[k] = s[k]
      /\ r[n + 1] = e
      /\ \A k \in n + 1 .. Len(s) : r[k + 1] = s[k]
  <2>1. s \in Seq(Places) /\ n \in 0 .. Len(s) /\ e \in Places
    BY <1>1
  <2> HIDE DEF r
  <2>2. r \in Seq(Places) /\ Len(r) = Len(s) + 1
    BY <2>1, InsIs DEF r
  <2>3. r[n + 1] = e
    BY <2>1, InsIs DEF r
  <2>4. \A k \in 1 .. n : r[k] = s[k]
    BY <2>1, InsIs DEF r
  <2>5. \A k \in n + 1 .. Len(s) : r[k + 1] = s[k]
    BY <2>1, InsIs DEF r
  <2> QED BY <2>2, <2>3, <2>4, <2>5
<1> HIDE DEF r
<1>3. \A k \in 1 .. Len(s) + 1 : \/ k \in 1 .. n /\ r[k] = s[k] /\ k \in 1 .. Len(s)
                                 \/ k = n + 1 /\ r[k] = e
                                 \/ k - 1 \in n + 1 .. Len(s) /\ k - 1 \in 1 .. Len(s) /\ r[k] = s[k - 1]
  <2> SUFFICES ASSUME NEW k \in 1 .. Len(s) + 1, ~ (k \in 1 .. n), k # n + 1
               PROVE  k - 1 \in n + 1 .. Len(s) /\ k - 1 \in 1 .. Len(s) /\ r[k] = s[k - 1]
    BY <1>1, <1>2
  <2>1. k - 1 \in n + 1 .. Len(s) /\ (k - 1) + 1 = k /\ k - 1 \in 1 .. Len(s)
    BY <1>1
  <2>2. r[(k - 1) + 1] = s[k - 1]
    BY <1>2, <2>1
  <2> QED BY <2>1, <2>2
<1>4. ASSUME NEW j \in 1 .. Len(r), NEW k \in 1 .. Len(r), r[j] = r[k] PROVE j = k
  <2>1. j \in 1 .. Len(s) + 1 /\ k \in 1 .. Len(s) + 1
    BY <1>2
  <2>2. CASE r[j] = e
    <3>1. j = n + 1
      BY <1>1, <1>3, <2>1, <2>2
    <3>2. k = n + 1
      <4>1. r[k] = e
        BY <1>4, <2>2
      <4> QED BY <1>1, <1>3, <2>1, <4>1
    <3> QED BY <3>1, <3>2
  <2>3. CASE r[j] # e
    <3>1. j # n + 1 /\ k # n + 1
      BY <1>2, <1>4, <2>3
    <3>2. CASE j \in 1 .. n /\ k \in 1 .. n
      BY <1>1, <1>3, <1>4, <2>1, <3>1, <3>2
    <3>3. CASE j \notin 1 .. n /\ k \notin 1 .. n
      <4>1. j - 1 \in 1 .. Len(s) /\ k - 1 \in 1 .. Len(s) /\ s[j - 1] = s[k - 1]
        BY <1>3, <1>4, <2>1, <3>1, <3>3
      <4>2. j - 1 = k - 1
        BY <1>1, <4>1
      <4> QED BY <4>2
    <3>4. CASE j \in 1 .. n /\ k \notin 1 .. n
      <4>1. j \in 1 .. Len(s) /\ k - 1 \in n + 1 .. Len(s) /\ k - 1 \in 1 .. Len(s) /\ s[j] = s[k - 1]
        BY <1>3, <1>4, <2>1, <3>1, <3>4
      <4>2. j = k - 1
        BY <1>1, <4>1
      <4> QED BY <1>1, <3>4, <4>1, <4>2
    <3>5. CASE j \notin 1 .. n /\ k \in 1 .. n
      <4>1. k \in 1 .. Len(s) /\ j - 1 \in n + 1 .. Len(s) /\ j - 1 \in 1 .. Len(s) /\ s[k] = s[j - 1]
        BY <1>3, <1>4, <2>1, <3>1, <3>5
      <4>2. k = j - 1
        BY <1>1, <4>1
      <4> QED BY <1>1, <3>5, <4>1, <4>2
    <3> QED BY <3>2, <3>3, <3>4, <3>5
  <2> QED BY <2>2, <2>3
<1>5. h2 = At(r, 1)
  <2>1. CASE n = 0
    BY <1>1, <1>2, <2>1 DEF At
  <2>2. CASE n # 0
    <3>1. 1 \in 1 .. n /\ 1 \in 1 .. Len(s) /\ 1 \in 1 .. Len(r)
      BY <1>1, <1>2, <2>2
    <3> QED BY <1>1, <1>2, <2>2, <3>1 DEF At
  <2> QED BY <2>1, <2>2
<1>6. ASSUME NEW k \in 1 .. Len(r) PROVE nx2[r[k]] = Protect(r[k], At(r, k + 1))
  <2>0. k \in 1 .. Len(s) + 1
    BY <1>2
  <2>1. CASE k \in 1 .. n /\ k # n
    <3>1. k \in 1 .. Len(s) /\ k + 1 \in 1 .. n /\ k + 1 \in 1 .. Len(s) /\ k + 1 \in 1 .. Len(r)
      BY <1>1, <1>2, <2>1
    <3>2. At(r, k + 1) = At(s, k + 1)
      BY <1>2, <3>1 DEF At
    <3>3. s[k] # s[n]
      BY <1>1, <2>1, <3>1
    <3> QED BY <1>1, <1>2, <2>1, <3>1, <3>2, <3>3
  <2>2. CASE k = n
    <3>1. n # 0 /\ k \in 1 .. n /\ k + 1 \in 1 .. Len(r) /\ At(r, k + 1) = e
      BY <1>1, <1>2, <2>0, <2>2 DEF At
    <3> QED BY <1>2, <2>2, <3>1
  <2>3. CASE k = n + 1
    <3>1. At(r, k + 1) = At(s, n + 1)
      <4>1. CASE n = Len(s)
        BY <1>1, <1>2, <2>3, <4>1 DEF At
      <4>2. CASE n # Len(s)
        <5>1. n + 1 \in n + 1 .. Len(s) /\ n + 1 \in 1 .. Len(s) /\ k + 1 \in 1 .. Len(r)
          BY <1>1, <1>2, <2>3, <4>2
        <5> QED BY <1>2, <2>3, <5>1 DEF At
      <4> QED BY <4>1, <4>2
    <3> QED BY <1>2, <2>3, <3>1
  <2>4. CASE k - 1 \in n + 1 .. Len(s)
    <3>1. k - 1 \in 1 .. Len(s) /\ (k - 1) + 1 = k /\ r[k] = s[k - 1]
      BY <1>1, <1>2, <2>4
    <3>2. n # 0 => s[k - 1] # s[n]
      <4> SUFFICES ASSUME n # 0 PROVE s[k - 1] # s[n]
        OBVIOUS
      <4>1. n \in 1 .. Len(s) /\ k - 1 # n
        BY <1>1, <2>4
      <4> QED BY <1>1, <3>1, <4>1
    <3>3. nx2[s[k - 1]] = Protect(s[k - 1], At(s, k))
      BY <1>1, <3>1, <3>2
    <3>4. At(r, k + 1) = At(s, k)
      <4>1. CASE k = Len(s) + 1
        BY <1>1, <1>2, <4>1 DEF At
      <4>2. CASE k # Len(s) + 1
        <5>1. k \in n + 1 .. Len(s) /\ k \in 1 .. Len(s) /\ k + 1 \in 1 .. Len(r)
          <6>1. k \in Int /\ k <= Len(s) /\ n + 1 <= k
            <7>1. k \in Int /\ k <= Len(s) + 1
              BY <1>1, <2>0
            <7>2. n + 1 <= k - 1
              BY <1>1, <2>4
            <7>3. Len(s) \in Nat /\ n \in Nat
              BY <1>1
            <7> QED BY <4>2, <7>1, <7>2, <7>3
          <6> QED BY <1>1, <1>2, <6>1
        <5> QED BY <1>2, <5>1 DEF At
      <4> QED BY <4>1, <4>2
    <3> QED BY <3>1, <3>3, <3>4
  <2> QED BY <1>3, <2>0, <2>1, <2>2, <2>3, <2>4
<1> QED BY <1>2, <1>4, <1>5, <1>6 DEF IsList, r

(* The list without its n-th block, as tcache_get_n makes it.               *)
LEMMA DelList ==
  ASSUME NEW nx, DOMAIN nx = Places, NEW h, NEW s, IsList(nx, h, s), NEW n \in 1 .. Len(s),
         NEW nx2, n # 1 => nx2[s[n - 1]] = Protect(s[n - 1], At(s, n + 1)),
         \A p \in Range(s) \ {s[n]} : n = 1 \/ p # s[n - 1] => nx2[p] = nx[p]
  PROVE  IsList(nx2, IF n = 1 THEN At(s, 2) ELSE h, Del(s, n))
<1> DEFINE r == Del(s, n)
           h2 == IF n = 1 THEN At(s, 2) ELSE h
<1>1. /\ s \in Seq(Places) /\ Len(s) \in Nat /\ n \in Nat /\ n <= Len(s) /\ 1 <= n
      /\ \A j, k \in 1 .. Len(s) : s[j] = s[k] => j = k
      /\ h = At(s, 1) /\ \A k \in 1 .. Len(s) : nx[s[k]] = Protect(s[k], At(s, k + 1))
      /\ \A k \in 1 .. Len(s) : s[k] \in Range(s)
  BY DEF IsList, Range
<1>2. /\ r \in Seq(Places) /\ Len(r) = Len(s) - 1
      /\ \A k \in 1 .. n - 1 : r[k] = s[k]
      /\ \A k \in n .. Len(s) - 1 : r[k] = s[k + 1]
  <2>1. s \in Seq(Places) /\ n \in 1 .. Len(s)
    BY <1>1
  <2> QED BY <2>1, DelIs
<1> HIDE DEF r
<1>3. \A k \in 1 .. Len(r) : \/ k \in 1 .. n - 1 /\ r[k] = s[k] /\ k \in 1 .. Len(s)
                             \/ k \in n .. Len(s) - 1 /\ k + 1 \in 1 .. Len(s) /\ r[k] = s[k + 1]
  BY <1>1, <1>2
<1>4. ASSUME NEW j \in 1 .. Len(r), NEW k \in 1 .. Len(r), r[j] = r[k] PROVE j = k
  <2>1. CASE j \in 1 .. n - 1 /\ k \in 1 .. n - 1
    BY <1>1, <1>2, <1>3, <1>4, <2>1
  <2>2. CASE j \in n .. Len(s) - 1 /\ k \in n .. Len(s) - 1
    <3>1. j + 1 \in 1 .. Len(s) /\ k + 1 \in 1 .. Len(s) /\ s[j + 1] = s[k + 1]
      BY <1>1, <1>2, <1>4, <2>2
    <3>2. j + 1 = k + 1
      BY <1>1, <3>1
    <3> QED BY <3>2
  <2>3. CASE j \in 1 .. n - 1 /\ k \in n .. Len(s) - 1
    <3>1. j \in 1 .. Len(s) /\ k + 1 \in 1 .. Len(s) /\ s[j] = s[k + 1] /\ j # k + 1
      BY <1>1, <1>2, <1>4, <2>3
    <3> QED BY <1>1, <3>1
  <2>4. CASE j \in n .. Len(s) - 1 /\ k \in 1 .. n - 1
    <3>1. k \in 1 .. Len(s) /\ j + 1 \in 1 .. Len(s) /\ s[k] = s[j + 1] /\ k # j + 1
      BY <1>1, <1>2, <1>4, <2>4
    <3> QED BY <1>1, <3>1
  <2> QED BY <1>3, <2>1, <2>2, <2>3, <2>4
<1>5. h2 = At(r, 1)
  <2>1. CASE n = 1
    BY <1>1, <1>2, <2>1 DEF At
  <2>2. CASE n # 1
    BY <1>1, <1>2, <2>2 DEF At
  <2> QED BY <2>1, <2>2
<1>6. ASSUME NEW k \in 1 .. Len(r) PROVE nx2[r[k]] = Protect(r[k], At(r, k + 1))
  <2>0. k \in 1 .. Len(s) - 1
    BY <1>2
  <2>1. CASE k \in 1 .. n - 1 /\ k # n - 1
    <3>1. k \in 1 .. Len(s) /\ k + 1 \in 1 .. n - 1 /\ k + 1 \in 1 .. Len(s) /\ k + 1 \in 1 .. Len(r)
      BY <1>1, <1>2, <2>1
    <3>2. At(r, k + 1) = At(s, k + 1)
      BY <1>2, <3>1 DEF At
    <3>3. s[k] # s[n - 1] /\ s[k] # s[n]
      <4>1. n - 1 \in 1 .. Len(s) /\ k # n - 1 /\ k # n
        BY <1>1, <2>1
      <4> QED BY <1>1, <3>1, <4>1
    <3>4. nx2[s[k]] = nx[s[k]]
      BY <1>1, <3>1, <3>3
    <3> QED BY <1>1, <1>2, <2>1, <3>1, <3>2, <3>4
  <2>2. CASE k = n - 1
    <3>1. n # 1 /\ k \in 1 .. n - 1 /\ r[k] = s[n - 1]
      BY <1>1, <1>2, <2>0, <2>2
    <3>2. At(r, k + 1) = At(s, n + 1)
      BY <1>1, <1>2, <2>2 DEF At
    <3> QED BY <3>1, <3>2
  <2>3. CASE k \in n .. Len(s) - 1
    <3>1. k + 1 \in 1 .. Len(s) /\ r[k] = s[k + 1]
      BY <1>1, <1>2, <1>3, <2>0, <2>3
    <3>2. s[k + 1] # s[n] /\ (n # 1 => s[k + 1] # s[n - 1])
      <4>1. n \in 1 .. Len(s) /\ k + 1 # n /\ k + 1 # n - 1 /\ (n # 1 => n - 1 \in 1 .. Len(s))
        BY <1>1, <2>3
      <4> QED BY <1>1, <3>1, <4>1
    <3>3. nx2[s[k + 1]] = Protect(s[k + 1], At(s, (k + 1) + 1))
      BY <1>1, <3>1, <3>2
    <3>4. At(r, k + 1) = At(s, (k + 1) + 1)
      BY <1>1, <1>2, <2>3 DEF At
    <3> QED BY <3>1, <3>3, <3>4
  <2> QED BY <1>3, <2>0, <2>1, <2>2, <2>3
<1> QED BY <1>2, <1>4, <1>5, <1>6 DEF IsList, r

----------------------------------------------------------------------------
(* tcache_put_n and tcache_get_n.                                           *)

(* A view, field by field.                                                  *)
Fields(st, at, sl, hd, nx, ky) ==
  [c |-> [state |-> st, at |-> at, slots |-> sl, heads |-> hd], next |-> nx, key |-> ky]

(* The words of the block itself: its key and its link, and the counter.    *)
Mark(w, e, v)   == [w EXCEPT !.key = @ \cup {e}, !.next[e] = v]
Unmark(w, e, v) == [w EXCEPT !.key = @ \ {e}, !.next[e] = v]
Refill(w, i)    == [w EXCEPT !.c.slots[i] = @ + 1]

(* The fields after Mark.                                                   *)
LEMMA MarkIs ==
  ASSUME NEW st, NEW at, NEW sl, NEW hd, NEW nx, NEW ky, NEW e, NEW v
  PROVE  Mark(Fields(st, at, sl, hd, nx, ky), e, v) =
           Fields(st, at, sl, hd, [nx EXCEPT ![e] = v], ky \cup {e})
<1> DEFINE w == Fields(st, at, sl, hd, nx, ky)
           a == [w EXCEPT !.key = @ \cup {e}]
<1>1. a = Fields(st, at, sl, hd, nx, ky \cup {e})
  BY DEF Fields
<1>2. Mark(w, e, v) = [a EXCEPT !.next[e] = v]
  BY DEF Mark
<1> HIDE DEF a
<1>3. [a EXCEPT !.next[e] = v] = Fields(st, at, sl, hd, [nx EXCEPT ![e] = v], ky \cup {e})
  BY <1>1 DEF Fields
<1> QED BY <1>2, <1>3

(* The fields after Unmark.                                                 *)
LEMMA UnmarkIs ==
  ASSUME NEW st, NEW at, NEW sl, NEW hd, NEW nx, NEW ky, NEW e, NEW v
  PROVE  Unmark(Fields(st, at, sl, hd, nx, ky), e, v) =
           Fields(st, at, sl, hd, [nx EXCEPT ![e] = v], ky \ {e})
<1> DEFINE w == Fields(st, at, sl, hd, nx, ky)
           a == [w EXCEPT !.key = @ \ {e}]
           k2 == ky \ {e}
<1>1. a = Fields(st, at, sl, hd, nx, k2)
  BY DEF Fields
<1>2. Unmark(w, e, v) = [a EXCEPT !.next[e] = v]
  BY DEF Unmark
<1> HIDE DEF a, k2
<1>3. [a EXCEPT !.next[e] = v] = Fields(st, at, sl, hd, [nx EXCEPT ![e] = v], k2)
  BY <1>1 DEF Fields
<1> QED BY <1>2, <1>3 DEF k2

(* The fields after Refill.                                                 *)
LEMMA RefillIs ==
  ASSUME NEW st, NEW at, NEW sl, NEW hd, NEW nx, NEW ky, NEW i
  PROVE  Refill(Fields(st, at, sl, hd, nx, ky), i) =
           Fields(st, at, [sl EXCEPT ![i] = @ + 1], hd, nx, ky)
BY DEF Refill, Fields

(* f with another value at x.                                               *)
Upd(f, x, v) == [f EXCEPT ![x] = v]

(* What Upd gives at x, and elsewhere.                                      *)
LEMMA UpdIs ==
  ASSUME NEW f, NEW x \in DOMAIN f, NEW v
  PROVE  /\ DOMAIN Upd(f, x, v) = DOMAIN f /\ Upd(f, x, v)[x] = v
         /\ \A y \in DOMAIN f \ {x} : Upd(f, x, v)[y] = f[y]
BY DEF Upd

(* The fields they leave: at the head, and behind the link of ep.            *)
HeadPut(st, at, sl, hd, nx, ky, i, e) ==
  Fields(st, at, Upd(sl, i, sl[i] - 1), Upd(hd, i, e), Upd(nx, e, Protect(e, hd[i])), ky \cup {e})
LinkPut(st, at, sl, hd, nx, ky, i, e, ep) ==
  Fields(st, at, Upd(sl, i, sl[i] - 1), hd,
         Upd(Upd(nx, e, Protect(e, Reveal(nx, ep))), ep, Protect(ep, e)), ky \cup {e})
HeadGet(st, at, sl, hd, nx, ky, i) ==
  Fields(st, at, Upd(sl, i, sl[i] + 1), Upd(hd, i, Reveal(nx, hd[i])),
         Upd(nx, hd[i], UserData), ky \ {hd[i]})
LinkGet(st, at, sl, hd, nx, ky, i, ep) ==
  LET e == Reveal(nx, ep)
  IN Fields(st, at, Upd(sl, i, sl[i] + 1), hd,
            Upd(Upd(nx, ep, Protect(ep, Reveal(nx, e))), e, UserData), ky \ {e})

(* Putting a block writes these fields, at the head and behind a link.      *)
LEMMA PutAtHead ==
  ASSUME NEW st, NEW at, NEW sl, NEW hd, NEW nx, NEW ky, NEW i, NEW e
  PROVE  tcache_put_n(Fields(st, at, sl, hd, nx, ky), e, i, NULL) =
           HeadPut(st, at, sl, hd, nx, ky, i, e)
<1> DEFINE w == Fields(st, at, sl, hd, nx, ky)
           v == Protect(e, hd[i])
           w1 == Mark(w, e, v)
           n1 == [nx EXCEPT ![e] = v]
<1>1. ReadLink(w, i, NULL) = hd[i]
  BY DEF ReadLink, Fields
<1>2. tcache_put_n(w, e, i, NULL) = [WriteLink(w1, i, NULL, e) EXCEPT !.c.slots[i] = @ - 1]
  BY <1>1 DEF tcache_put_n, Mark
<1>3. w1 = Fields(st, at, sl, hd, n1, ky \cup {e})
  BY MarkIs
<1> HIDE DEF w1, n1
<1>4. WriteLink(w1, i, NULL, e) = Fields(st, at, sl, [hd EXCEPT ![i] = e], n1, ky \cup {e})
  BY <1>3 DEF WriteLink, Fields
<1>5. [WriteLink(w1, i, NULL, e) EXCEPT !.c.slots[i] = @ - 1] =
        Fields(st, at, [sl EXCEPT ![i] = @ - 1], [hd EXCEPT ![i] = e], n1, ky \cup {e})
  BY <1>4 DEF Fields
<1> QED BY <1>2, <1>5 DEF n1, Upd, HeadPut

(* Behind a block, tcache_put_n changes that block's link, mangled.         *)
LEMMA PutBehind ==
  ASSUME NEW st, NEW at, NEW sl, NEW hd, NEW nx, NEW ky, NEW i, NEW e, NEW ep, ep # NULL
  PROVE  tcache_put_n(Fields(st, at, sl, hd, nx, ky), e, i, ep) =
           LinkPut(st, at, sl, hd, nx, ky, i, e, ep)
<1> DEFINE w == Fields(st, at, sl, hd, nx, ky)
           v == Protect(e, Reveal(nx, ep))
           w1 == Mark(w, e, v)
           n1 == [nx EXCEPT ![e] = v]
<1>1. ReadLink(w, i, ep) = Reveal(nx, ep)
  BY DEF ReadLink, Fields
<1>2. tcache_put_n(w, e, i, ep) = [WriteLink(w1, i, ep, e) EXCEPT !.c.slots[i] = @ - 1]
  BY <1>1 DEF tcache_put_n, Mark
<1>3. w1 = Fields(st, at, sl, hd, n1, ky \cup {e})
  BY MarkIs
<1> HIDE DEF w1, n1
<1>4. WriteLink(w1, i, ep, e) = Fields(st, at, sl, hd, [n1 EXCEPT ![ep] = Protect(ep, e)], ky \cup {e})
  BY <1>3 DEF WriteLink, Fields
<1>5. [WriteLink(w1, i, ep, e) EXCEPT !.c.slots[i] = @ - 1] =
        Fields(st, at, [sl EXCEPT ![i] = @ - 1], hd, [n1 EXCEPT ![ep] = Protect(ep, e)], ky \cup {e})
  BY <1>4 DEF Fields
<1> QED BY <1>2, <1>5 DEF n1, Upd, LinkPut

(* And taking one out.                                                      *)
LEMMA GetAtHead ==
  ASSUME NEW st, NEW at, NEW sl, NEW hd, NEW nx, NEW ky, NEW i
  PROVE  tcache_get_n(Fields(st, at, sl, hd, nx, ky), i, NULL) =
           HeadGet(st, at, sl, hd, nx, ky, i)
<1> DEFINE w == Fields(st, at, sl, hd, nx, ky)
           w1 == WriteLink(w, i, NULL, Reveal(nx, hd[i]))
           h2 == [hd EXCEPT ![i] = Reveal(nx, hd[i])]
           sl2 == [sl EXCEPT ![i] = @ + 1]
<1>1. ReadLink(w, i, NULL) = hd[i] /\ w.next = nx
  BY DEF ReadLink, Fields
<1>2. tcache_get_n(w, i, NULL) = Unmark(Refill(w1, i), hd[i], UserData)
  BY <1>1 DEF tcache_get_n, Unmark, Refill
<1>3. w1 = Fields(st, at, sl, h2, nx, ky)
  BY DEF WriteLink, Fields
<1> HIDE DEF w1, h2
<1>4. Refill(w1, i) = Fields(st, at, sl2, h2, nx, ky)
  BY <1>3, RefillIs
<1> HIDE DEF sl2
<1>5. Unmark(Refill(w1, i), hd[i], UserData) = Fields(st, at, sl2, h2, [nx EXCEPT ![hd[i]] = UserData], ky \ {hd[i]})
  BY <1>4, UnmarkIs
<1> QED BY <1>2, <1>5 DEF h2, sl2, Upd, HeadGet

(* tcache_get_n with the link of a block.                                   *)
LEMMA GetBehind ==
  ASSUME NEW st, NEW at, NEW sl, NEW hd, NEW nx, NEW ky, NEW i, NEW ep, ep # NULL
  PROVE  tcache_get_n(Fields(st, at, sl, hd, nx, ky), i, ep) =
           LinkGet(st, at, sl, hd, nx, ky, i, ep)
<1> DEFINE w == Fields(st, at, sl, hd, nx, ky)
           e == Reveal(nx, ep)
           n1 == [nx EXCEPT ![ep] = Protect(ep, Reveal(nx, e))]
           w1 == WriteLink(w, i, ep, Reveal(nx, e))
           sl2 == [sl EXCEPT ![i] = @ + 1]
<1>1. ReadLink(w, i, ep) = e /\ w.next = nx
  BY DEF ReadLink, Fields
<1>2. tcache_get_n(w, i, ep) = Unmark(Refill(w1, i), e, UserData)
  BY <1>1 DEF tcache_get_n, Unmark, Refill
<1>3. w1 = Fields(st, at, sl, hd, n1, ky)
  BY DEF WriteLink, Fields
<1> HIDE DEF w1, n1
<1>4. Refill(w1, i) = Fields(st, at, sl2, hd, n1, ky)
  BY <1>3, RefillIs
<1> HIDE DEF sl2
<1>5. Unmark(Refill(w1, i), e, UserData) = Fields(st, at, sl2, hd, [n1 EXCEPT ![e] = UserData], ky \ {e})
  BY <1>4, UnmarkIs
<1> QED BY <1>2, <1>5 DEF n1, sl2, Upd, LinkGet

(* A thread's view, in that form.                                           *)
LEMMA ViewFields ==
  ASSUME NEW t, cache[t] \in CacheRecords
  PROVE  View(t) = Fields(cache[t].state, cache[t].at, cache[t].slots, cache[t].heads, next, key)
<1>1. cache[t] = [state |-> cache[t].state, at |-> cache[t].at, slots |-> cache[t].slots,
                  heads |-> cache[t].heads]
  BY DEF CacheRecords
<1> QED BY <1>1 DEF View, Fields

(* What a link leads to: the head to the first block, the n-th block to the *)
(* next one.                                                                *)
LEMMA ReadList ==
  ASSUME NEW w, NEW i, NEW s, IsList(w.next, w.c.heads[i], s), NEW n \in 0 .. Len(s)
  PROVE  ReadLink(w, i, At(s, n)) = At(s, n + 1)
<1> DEFINE nx == w.next
<1>1. /\ s \in Seq(Places) /\ Len(s) \in Nat /\ w.c.heads[i] = At(s, 1)
      /\ \A k \in 1 .. Len(s) : nx[s[k]] = Protect(s[k], At(s, k + 1))
  BY DEF IsList
<1>2. nx = w.next
  OBVIOUS
<1> HIDE DEF nx
<1>3. CASE n = 0
  <2>1. At(s, n) = NULL
    BY <1>3 DEF At
  <2> QED BY <1>1, <1>2, <1>3, <2>1 DEF ReadLink
<1>4. CASE n # 0
  <2>1. n \in 1 .. Len(s) /\ At(s, n) = s[n] /\ s[n] \in Places
    BY <1>1, <1>4 DEF At
  <2>2. s[n] # NULL /\ Reveal(nx, s[n]) = At(s, n + 1)
    BY <1>1, <2>1, Constants, RevealProtect
  <2> QED BY <1>2, <2>1, <2>2 DEF ReadLink
<1> QED BY <1>3, <1>4

(* A view v that has e behind the n-th block of list s, or its n-th block   *)
(* taken out, and is else as it was.                                        *)
Inserted(v, st, at, sl, hd, nx, ky, i, s, n, e) ==
  \E hd2, nx2 :
     /\ hd2 \in [Bins -> Places \cup {NULL}]
     /\ v = Fields(st, at, Upd(sl, i, sl[i] - 1), hd2, nx2, ky \cup {e})
     /\ IsList(nx2, hd2[i], Ins(s, n, e)) /\ \A j \in Bins \ {i} : hd2[j] = hd[j]
     /\ DOMAIN nx2 = Places /\ \A p \in Places \ {e} : p \notin Range(s) => nx2[p] = nx[p]
Removed(v, st, at, sl, hd, nx, ky, i, s, n) ==
  \E hd2, nx2 :
     /\ hd2 \in [Bins -> Places \cup {NULL}]
     /\ v = Fields(st, at, Upd(sl, i, sl[i] + 1), hd2, nx2, ky \ {s[n]})
     /\ IsList(nx2, hd2[i], Del(s, n)) /\ \A j \in Bins \ {i} : hd2[j] = hd[j]
     /\ DOMAIN nx2 = Places /\ \A p \in Places : p \notin Range(s) => nx2[p] = nx[p]

(* Putting e behind the n-th block of a list.                               *)
LEMMA PutList ==
  ASSUME NEW st, NEW at, NEW sl, NEW hd \in [Bins -> Places \cup {NULL}], NEW nx, DOMAIN nx = Places,
         NEW ky, NEW i \in Bins, NEW s, IsList(nx, hd[i], s), NEW n \in 0 .. Len(s),
         NEW e \in Places, e \notin Range(s)
  PROVE  Inserted(tcache_put_n(Fields(st, at, sl, hd, nx, ky), e, i, At(s, n)),
                  st, at, sl, hd, nx, ky, i, s, n, e)
<1>1. /\ s \in Seq(Places) /\ Len(s) \in Nat /\ n \in Nat
      /\ \A j, k \in 1 .. Len(s) : s[j] = s[k] => j = k
      /\ hd[i] = At(s, 1)
      /\ \A k \in 1 .. Len(s) : nx[s[k]] = Protect(s[k], At(s, k + 1))
  BY DEF IsList
<1>2. \A p \in Range(s) : p # e
  OBVIOUS
<1>3. CASE n = 0
  <2> DEFINE hd2 == Upd(hd, i, e)
             nx2 == Upd(nx, e, Protect(e, hd[i]))
  <2>1. tcache_put_n(Fields(st, at, sl, hd, nx, ky), e, i, At(s, n)) =
          Fields(st, at, Upd(sl, i, sl[i] - 1), hd2, nx2, ky \cup {e})
    <3>1. At(s, n) = NULL
      BY <1>3 DEF At
    <3>2. tcache_put_n(Fields(st, at, sl, hd, nx, ky), e, i, NULL) =
            Fields(st, at, Upd(sl, i, sl[i] - 1), hd2, nx2, ky \cup {e})
      <4>1. tcache_put_n(Fields(st, at, sl, hd, nx, ky), e, i, NULL) = HeadPut(st, at, sl, hd, nx, ky, i, e)
        BY PutAtHead
      <4> QED BY <4>1 DEF HeadPut
    <3> QED BY <3>1, <3>2
  <2>2. /\ hd2 \in [Bins -> Places \cup {NULL}] /\ hd2[i] = e /\ \A j \in Bins \ {i} : hd2[j] = hd[j]
        /\ DOMAIN nx2 = Places /\ nx2[e] = Protect(e, hd[i]) /\ \A q \in Places \ {e} : nx2[q] = nx[q]
    BY DEF Upd
  <2> HIDE DEF hd2, nx2
  <2>3. IsList(nx2, IF n = 0 THEN e ELSE hd[i], Ins(s, n, e))
    <3>1. nx2[e] = Protect(e, At(s, n + 1))
      BY <1>1, <1>3, <2>2
    <3>2. \A p \in Range(s) : nx2[p] = nx[p]
      <4>1. Range(s) \subseteq Places
        BY <1>1 DEF Range
      <4> QED BY <2>2, <4>1
    <3> QED BY <1>3, <2>2, <3>1, <3>2, InsList
  <2>4. IsList(nx2, hd2[i], Ins(s, n, e))
    BY <1>3, <2>2, <2>3
  <2> QED BY <2>1, <2>2, <2>4 DEF Inserted
<1>4. CASE n # 0
  <2> DEFINE ep == s[n]
             n1 == Upd(nx, e, Protect(e, Reveal(nx, ep)))
             nx2 == Upd(n1, ep, Protect(ep, e))
  <2>0. n \in 1 .. Len(s) /\ At(s, n) = ep /\ ep \in Places /\ ep \in Range(s) /\ ep # NULL /\ ep # e
    <3>1. n \in 1 .. Len(s)
      BY <1>1, <1>4
    <3> QED BY <1>1, <3>1, Constants DEF At, Range
  <2>1. tcache_put_n(Fields(st, at, sl, hd, nx, ky), e, i, At(s, n)) =
          Fields(st, at, Upd(sl, i, sl[i] - 1), hd, nx2, ky \cup {e})
    <3>1. tcache_put_n(Fields(st, at, sl, hd, nx, ky), e, i, ep) =
            Fields(st, at, Upd(sl, i, sl[i] - 1), hd, nx2, ky \cup {e})
      <4>1. tcache_put_n(Fields(st, at, sl, hd, nx, ky), e, i, ep) = LinkPut(st, at, sl, hd, nx, ky, i, e, ep)
        BY <2>0, PutBehind
      <4> QED BY <4>1 DEF LinkPut
    <3> QED BY <2>0, <3>1
  <2>2. Reveal(nx, ep) = At(s, n + 1)
    BY <1>1, <2>0, RevealProtect
  <2> HIDE DEF ep
  <2>3. DOMAIN n1 = Places /\ n1[e] = Protect(e, At(s, n + 1)) /\ \A q \in Places \ {e} : n1[q] = nx[q]
    BY <2>2 DEF Upd
  <2> HIDE DEF n1
  <2>4. /\ DOMAIN nx2 = Places /\ nx2[ep] = Protect(ep, e) /\ nx2[e] = Protect(e, At(s, n + 1))
        /\ \A q \in Places \ {e} : q # ep => nx2[q] = nx[q]
    BY <2>0, <2>3 DEF Upd
  <2> HIDE DEF nx2
  <2>5. IsList(nx2, IF n = 0 THEN e ELSE hd[i], Ins(s, n, e))
    <3>1. nx2[s[n]] = Protect(s[n], e) /\ \A p \in Range(s) : p # s[n] => nx2[p] = nx[p]
      <4>1. Range(s) \subseteq Places
        BY <1>1 DEF Range
      <4> QED BY <2>4, <4>1 DEF ep
    <3> QED BY <1>4, <2>4, <3>1, InsList
  <2>6. IsList(nx2, hd[i], Ins(s, n, e))
    BY <1>4, <2>5
  <2>7. \A q \in Places \ {e} : q \notin Range(s) => nx2[q] = nx[q]
    BY <2>0, <2>4
  <2> QED BY <2>1, <2>4, <2>6, <2>7 DEF Inserted
<1> QED BY <1>3, <1>4

(* Taking out the block behind the n-th of a list.                          *)
LEMMA GetList ==
  ASSUME NEW st, NEW at, NEW sl, NEW hd \in [Bins -> Places \cup {NULL}], NEW nx, DOMAIN nx = Places,
         NEW ky, NEW i \in Bins, NEW s, IsList(nx, hd[i], s), NEW n \in 0 .. Len(s) - 1
  PROVE  Removed(tcache_get_n(Fields(st, at, sl, hd, nx, ky), i, At(s, n)),
                 st, at, sl, hd, nx, ky, i, s, n + 1)
<1> DEFINE e == s[n + 1]
<1>1. /\ s \in Seq(Places) /\ Len(s) \in Nat /\ n \in Nat /\ n + 1 \in 1 .. Len(s)
      /\ \A j, k \in 1 .. Len(s) : s[j] = s[k] => j = k
      /\ hd[i] = At(s, 1)
      /\ \A k \in 1 .. Len(s) : nx[s[k]] = Protect(s[k], At(s, k + 1))
  BY DEF IsList
<1>2. e \in Places /\ Range(s) \subseteq Places /\ e \in Range(s) /\ Reveal(nx, e) = At(s, n + 2)
  <2>1. e \in Places /\ Range(s) \subseteq Places /\ e \in Range(s)
    BY <1>1 DEF Range
  <2>2. nx[e] = Protect(e, At(s, (n + 1) + 1)) /\ (n + 1) + 1 = n + 2
    BY <1>1
  <2> QED BY <2>1, <2>2, RevealProtect
<1>3. At(s, n + 2) \in Places \cup {NULL}
  BY <1>1 DEF At
<1>4. CASE n = 0
  <2> DEFINE hd2 == Upd(hd, i, Reveal(nx, e))
             nx2 == Upd(nx, e, UserData)
  <2>1. At(s, n) = NULL /\ hd[i] = e
    BY <1>1, <1>4 DEF At
  <2>2. tcache_get_n(Fields(st, at, sl, hd, nx, ky), i, At(s, n)) =
          Fields(st, at, Upd(sl, i, sl[i] + 1), hd2, nx2, ky \ {e})
    <3>1. tcache_get_n(Fields(st, at, sl, hd, nx, ky), i, NULL) = HeadGet(st, at, sl, hd, nx, ky, i)
      BY GetAtHead
    <3> HIDE DEF e
    <3> QED BY <2>1, <3>1 DEF HeadGet
  <2> HIDE DEF e
  <2>3. /\ hd2 \in [Bins -> Places \cup {NULL}] /\ hd2[i] = At(s, n + 2) /\ \A j \in Bins \ {i} : hd2[j] = hd[j]
        /\ DOMAIN nx2 = Places /\ \A q \in Places \ {e} : nx2[q] = nx[q]
    BY <1>2, <1>3 DEF Upd
  <2> HIDE DEF hd2, nx2
  <2>4. IsList(nx2, IF n + 1 = 1 THEN At(s, 2) ELSE hd[i], Del(s, n + 1))
    <3>1. \A p \in Range(s) \ {s[n + 1]} : nx2[p] = nx[p]
      BY <1>2, <2>3 DEF e
    <3>2. n + 1 = 1
      BY <1>4
    <3> QED BY <1>1, <3>1, <3>2, DelList
  <2>5. IsList(nx2, hd2[i], Del(s, n + 1))
    BY <1>4, <2>3, <2>4
  <2> QED BY <1>2, <2>2, <2>3, <2>5 DEF e, Removed
<1>5. CASE n # 0
  <2> DEFINE ep == s[n]
             n1 == Upd(nx, ep, Protect(ep, Reveal(nx, e)))
             nx2 == Upd(n1, e, UserData)
  <2>0. n \in 1 .. Len(s) /\ At(s, n) = ep /\ ep \in Places /\ ep \in Range(s) /\ ep # NULL /\ ep # e
    <3>1. n \in 1 .. Len(s) /\ n # n + 1
      BY <1>1, <1>5
    <3> QED BY <1>1, <3>1, Constants DEF At, Range
  <2>1. Reveal(nx, ep) = e
    <3>1. nx[ep] = Protect(ep, At(s, n + 1)) /\ At(s, n + 1) = e
      BY <1>1, <2>0 DEF At
    <3> QED BY <3>1, RevealProtect
  <2> HIDE DEF e, ep
  <2>2. tcache_get_n(Fields(st, at, sl, hd, nx, ky), i, At(s, n)) =
          Fields(st, at, Upd(sl, i, sl[i] + 1), hd, nx2, ky \ {e})
    <3>1. tcache_get_n(Fields(st, at, sl, hd, nx, ky), i, ep) = LinkGet(st, at, sl, hd, nx, ky, i, ep)
      BY <2>0, GetBehind
    <3> QED BY <2>0, <2>1, <3>1 DEF LinkGet
  <2>3. /\ DOMAIN n1 = Places /\ n1[ep] = Protect(ep, At(s, n + 2))
        /\ \A q \in Places \ {ep} : n1[q] = nx[q]
    BY <1>2, <2>0 DEF Upd
  <2> HIDE DEF n1
  <2>4. /\ DOMAIN nx2 = Places /\ nx2[ep] = Protect(ep, At(s, n + 2))
        /\ \A q \in Places \ {e} : q # ep => nx2[q] = nx[q]
    BY <1>2, <2>0, <2>3 DEF Upd
  <2> HIDE DEF nx2
  <2>5. IsList(nx2, IF n + 1 = 1 THEN At(s, 2) ELSE hd[i], Del(s, n + 1))
    <3>1. (n + 1) - 1 = n /\ (n + 1) + 1 = n + 2 /\ n + 1 \in 1 .. Len(s)
      BY <1>1
    <3>2. nx2[s[(n + 1) - 1]] = Protect(s[(n + 1) - 1], At(s, (n + 1) + 1))
      BY <2>4, <3>1 DEF ep
    <3>3. \A p \in Range(s) \ {s[n + 1]} : p # s[(n + 1) - 1] => nx2[p] = nx[p]
      BY <1>2, <2>4, <3>1 DEF e, ep
    <3>4. n + 1 # 1 /\ IsList(nx, hd[i], s)
      BY <1>1, <1>5
    <3>5. \A p \in Range(s) \ {s[n + 1]} : n + 1 = 1 \/ p # s[(n + 1) - 1] => nx2[p] = nx[p]
      BY <3>3, <3>4
    <3> QED BY <3>1, <3>2, <3>4, <3>5, DelList
  <2>6. IsList(nx2, hd[i], Del(s, n + 1))
    <3>1. n + 1 # 1
      BY <1>1, <1>5
    <3> QED BY <2>5, <3>1
  <2>7. \A q \in Places : q \notin Range(s) => nx2[q] = nx[q]
    BY <1>2, <2>0, <2>4
  <2> QED BY <2>2, <2>4, <2>6, <2>7 DEF e, Removed
<1> QED BY <1>4, <1>5

----------------------------------------------------------------------------
(* Searches, and several blocks put at once.                                *)

(* Where a search stops: in front of the first of the blocks that stop it.  *)
LEMMA FirstStop ==
  ASSUME NEW m \in Nat, NEW stop \in SUBSET (1 .. m), NEW n, n = IF stop = {} THEN m ELSE Min(stop) - 1
  PROVE  n \in 0 .. m /\ (\A k \in 1 .. n : k \notin stop) /\ (n < m => n + 1 \in stop)
<1>1. CASE stop = {}
  BY <1>1
<1>2. CASE stop # {}
  <2>1. PICK x \in stop : \A y \in stop : x <= y
    BY <1>2, Least
  <2>2. Min(stop) \in stop /\ \A y \in stop : Min(stop) <= y
    BY <2>1 DEF Min
  <2> DEFINE b == Min(stop)
  <2>3. n = b - 1 /\ b \in 1 .. m /\ b \in stop /\ \A y \in stop : b <= y
    BY <1>2, <2>2
  <2> HIDE DEF b
  <2>4. n \in 0 .. m /\ n + 1 \in stop
    BY <2>3
  <2>5. ASSUME NEW k \in 1 .. n PROVE k \notin stop
    BY <2>3, <2>4
  <2> QED BY <2>4, <2>5
<1> QED BY <1>1, <1>2

(* Of a list of large blocks: in front of the first of at least nb.         *)
LEMMA LocationIs ==
  ASSUME NEW w, NEW i, NEW nb, NEW s \in Seq(Places), List(w, i) = s
  PROVE  \E n \in 0 .. Len(s) :
           /\ LocationLarge(w, i, nb) = At(s, n)
           /\ \A k \in 1 .. n : out[s[k]] < nb
           /\ n < Len(s) => ~ (out[s[n + 1]] < nb)
<1> DEFINE stop == { k \in 1 .. Len(s) : ~ (out[s[k]] < nb) }
           n == IF stop = {} THEN Len(s) ELSE Min(stop) - 1
<1>1. LocationLarge(w, i, nb) = IF n = 0 THEN NULL ELSE s[n]
  BY DEF LocationLarge, LinkBefore
<1>2. Len(s) \in Nat /\ stop \in SUBSET (1 .. Len(s))
  OBVIOUS
<1>3. n \in 0 .. Len(s) /\ (\A k \in 1 .. n : k \notin stop) /\ (n < Len(s) => n + 1 \in stop)
  <2> HIDE DEF stop
  <2> QED BY <1>2, FirstStop
<1> HIDE DEF n
<1>4. LocationLarge(w, i, nb) = At(s, n)
  BY <1>1, <1>2, <1>3 DEF At
<1>5. (\A k \in 1 .. n : out[s[k]] < nb) /\ (n < Len(s) => ~ (out[s[n + 1]] < nb))
  BY <1>2, <1>3
<1> QED BY <1>3, <1>4, <1>5

(* What memalign passes: smaller blocks, and those of the size that are not *)
(* aligned.                                                                 *)
Passed(p, nb) == out[p] < nb \/ (out[p] = nb /\ p \notin Aligned)

(* tcache_get_align passes the blocks that are too small or not aligned, up *)
(* to the first that is neither.                                            *)
LEMMA AlignLinkIs ==
  ASSUME NEW w, NEW nb, NEW s \in Seq(Places), List(w, TcIndex[nb]) = s
  PROVE  \E n \in 0 .. Len(s) :
           /\ AlignLink(w, nb) = At(s, n)
           /\ \A k \in 1 .. n : Passed(s[k], nb)
           /\ n < Len(s) => ~ Passed(s[n + 1], nb)
<1> DEFINE stop == { k \in 1 .. Len(s) : ~ Passed(s[k], nb) }
           n == IF stop = {} THEN Len(s) ELSE Min(stop) - 1
<1>1. AlignLink(w, nb) = IF n = 0 THEN NULL ELSE s[n]
  BY DEF AlignLink, LinkBefore, Passed
<1>2. Len(s) \in Nat /\ stop \in SUBSET (1 .. Len(s))
  OBVIOUS
<1>3. n \in 0 .. Len(s) /\ (\A k \in 1 .. n : k \notin stop) /\ (n < Len(s) => n + 1 \in stop)
  <2> HIDE DEF stop
  <2> QED BY <1>2, FirstStop
<1> HIDE DEF n
<1>4. AlignLink(w, nb) = At(s, n)
  BY <1>1, <1>2, <1>3 DEF At
<1>5. (\A k \in 1 .. n : Passed(s[k], nb)) /\ (n < Len(s) => ~ Passed(s[n + 1], nb))
  BY <1>2, <1>3
<1> QED BY <1>3, <1>4, <1>5

(* PutAll goes through these views.                                         *)
Puts(w, i, q, n, x) ==
  x = [k \in 0 .. n |-> IF k = 0 THEN w ELSE tcache_put_n(x[k - 1], q[k], i, NULL)]

(* The recursive function exists, whatever the number of blocks.            *)
LEMMA PutsExist ==
  ASSUME NEW w, NEW i, NEW q, NEW m \in Nat
  PROVE  \E x : Puts(w, i, q, m, x)
<1> DEFINE D == { n \in Nat : \E x : Puts(w, i, q, n, x) }
           step(x, k) == tcache_put_n(x[k - 1], q[k], i, NULL)
<1>1. 0 \in D
  <2>1. Puts(w, i, q, 0, [k \in 0 .. 0 |-> w])
    BY DEF Puts
  <2> QED BY <2>1
<1>2. ASSUME NEW n \in Nat, n \in D PROVE n + 1 \in D
  <2>1. PICK x : Puts(w, i, q, n, x)
    BY <1>2
  <2> DEFINE y == [k \in 0 .. n + 1 |-> IF k = n + 1 THEN step(x, n + 1) ELSE x[k]]
  <2>2. x[0] = w /\ \A k \in 1 .. n : x[k] = step(x, k)
    BY <2>1 DEF Puts
  <2>3. \A k \in 0 .. n : y[k] = x[k]
    OBVIOUS
  <2>4. y[n + 1] = step(x, n + 1)
    OBVIOUS
  <2>5. ASSUME NEW k \in 0 .. n + 1 PROVE y[k] = IF k = 0 THEN w ELSE step(y, k)
    <3> HIDE DEF y
    <3>1. CASE k = 0
      BY <2>2, <2>3, <3>1
    <3>2. CASE k \in 1 .. n
      <4>1. k - 1 \in 0 .. n /\ k \in 0 .. n
        BY <3>2
      <4>2. y[k] = step(x, k) /\ y[k - 1] = x[k - 1]
        BY <2>2, <2>3, <3>2, <4>1
      <4> QED BY <3>2, <4>2
    <3>3. CASE k = n + 1
      <4>1. k - 1 = n /\ n \in 0 .. n
        BY <3>3
      <4>2. y[k - 1] = x[k - 1]
        BY <2>3, <4>1
      <4> QED BY <2>4, <3>3, <4>2
    <3> QED BY <3>1, <3>2, <3>3
  <2>6. y = [k \in 0 .. n + 1 |-> IF k = 0 THEN w ELSE step(y, k)]
    <3> DEFINE z == [k \in 0 .. n + 1 |-> IF k = 0 THEN w ELSE step(y, k)]
    <3>1. y = [k \in 0 .. n + 1 |-> y[k]]
      OBVIOUS
    <3> HIDE DEF y
    <3> QED BY <2>5, <3>1
  <2>7. Puts(w, i, q, n + 1, y)
    <3> HIDE DEF y
    <3> QED BY <2>6 DEF Puts
  <2> QED BY <2>7
<1>3. Nat \subseteq D
  <2> HIDE DEF D
  <2> QED BY <1>1, <1>2, Induction
<1> QED BY <1>3

(* PutAll is the last of its values.                                        *)
LEMMA PutAllPuts ==
  ASSUME NEW w, NEW i, NEW q, Len(q) \in Nat
  PROVE  \E x : /\ PutAll(w, i, q) = x[Len(q)] /\ x[0] = w
                /\ \A k \in 1 .. Len(q) : x[k] = tcache_put_n(x[k - 1], q[k], i, NULL)
<1> DEFINE x == CHOOSE x : Puts(w, i, q, Len(q), x)
<1>1. PutAll(w, i, q) = x[Len(q)]
  BY DEF PutAll, Puts
<1>2. Puts(w, i, q, Len(q), x)
  BY PutsExist
<1> HIDE DEF x
<1>3. x[0] = w /\ \A k \in 1 .. Len(q) : x[k] = tcache_put_n(x[k - 1], q[k], i, NULL)
  BY <1>2 DEF Puts
<1> QED BY <1>1, <1>3

(* The blocks of q up to the k-th.                                          *)
FirstOf(q, k) == { q[j] : j \in 1 .. k }

(* A view v with the first k blocks of q put at the head of list s, the last *)
(* of which is the first of the list.                                       *)
StackedAs(v, st, at, sl, hd, nx, ky, i, s, q, k, hd2, nx2, l) ==
  /\ v = Fields(st, at, Upd(sl, i, sl[i] - k), hd2, nx2, ky \cup FirstOf(q, k))
  /\ IsList(nx2, hd2[i], l) /\ Range(l) = Range(s) \cup FirstOf(q, k)
  /\ Len(l) = Len(s) + k /\ (k > 0 => l[1] = q[k])
  /\ \A j \in Bins \ {i} : hd2[j] = hd[j]
  /\ DOMAIN nx2 = Places /\ \A p \in Places : p \notin Range(l) => nx2[p] = nx[p]
Stacked(v, st, at, sl, hd, nx, ky, i, s, q, k) ==
  \E hd2, nx2, l :
     /\ hd2 \in [Bins -> Places \cup {NULL}]
     /\ StackedAs(v, st, at, sl, hd, nx, ky, i, s, q, k, hd2, nx2, l)

(* What PutAll makes of a view.                                             *)
LEMMA PutAllList ==
  ASSUME NEW st, NEW at, NEW sl \in [Bins -> Int], NEW hd \in [Bins -> Places \cup {NULL}], NEW nx,
         DOMAIN nx = Places, NEW ky, NEW i \in Bins, NEW s, IsList(nx, hd[i], s),
         NEW q \in Seq(Places), \A j, k \in 1 .. Len(q) : q[j] = q[k] => j = k,
         \A k \in 1 .. Len(q) : q[k] \notin Range(s)
  PROVE  Stacked(PutAll(Fields(st, at, sl, hd, nx, ky), i, q), st, at, sl, hd, nx, ky, i, s, q, Len(q))
<1> DEFINE w == Fields(st, at, sl, hd, nx, ky)
           P(v, k) == Stacked(v, st, at, sl, hd, nx, ky, i, s, q, k)
<1>1. Len(q) \in Nat /\ s \in Seq(Places) /\ Len(s) \in Nat
  BY DEF IsList
<1>2. PICK x : /\ PutAll(w, i, q) = x[Len(q)] /\ x[0] = w
               /\ \A k \in 1 .. Len(q) : x[k] = tcache_put_n(x[k - 1], q[k], i, NULL)
  <2> HIDE DEF w
  <2> QED BY <1>1, PutAllPuts
<1> DEFINE D == { k \in Nat : k <= Len(q) => P(x[k], k) }
<1>3. 0 \in D
  <2>1. FirstOf(q, 0) = {}
    BY DEF FirstOf
  <2>2. Upd(sl, i, sl[i] - 0) = sl
    BY DEF Upd
  <2>3. x[0] = Fields(st, at, Upd(sl, i, sl[i] - 0), hd, nx, ky \cup FirstOf(q, 0))
    <3>1. ky \cup FirstOf(q, 0) = ky
      BY <2>1
    <3> QED BY <1>2, <2>2, <3>1
  <2>4. P(x[0], 0)
    <3> HIDE DEF w
    <3>1. StackedAs(x[0], st, at, sl, hd, nx, ky, i, s, q, 0, hd, nx, s)
      BY <1>1, <2>1, <2>3 DEF StackedAs
    <3> QED BY <3>1 DEF Stacked
  <2> HIDE DEF P
  <2> QED BY <2>4
<1>4. ASSUME NEW k \in Nat, k \in D PROVE k + 1 \in D
  <2> DEFINE e == q[k + 1]
             sl1 == Upd(sl, i, sl[i] - k)
             ky1 == ky \cup FirstOf(q, k)
  <2> SUFFICES ASSUME k + 1 <= Len(q) PROVE P(x[k + 1], k + 1)
    <3> HIDE DEF P
    <3> QED OBVIOUS
  <2>1. P(x[k], k)
    <3> HIDE DEF P
    <3> QED BY <1>1, <1>4
  <2>2. PICK hd1, nx1, l1 :
            /\ hd1 \in [Bins -> Places \cup {NULL}]
            /\ StackedAs(x[k], st, at, sl, hd, nx, ky, i, s, q, k, hd1, nx1, l1)
    BY <2>1 DEF Stacked
  <2>3. /\ x[k] = Fields(st, at, sl1, hd1, nx1, ky1)
        /\ IsList(nx1, hd1[i], l1) /\ Range(l1) = Range(s) \cup FirstOf(q, k)
        /\ Len(l1) = Len(s) + k
        /\ \A j \in Bins \ {i} : hd1[j] = hd[j]
        /\ DOMAIN nx1 = Places /\ \A p \in Places : p \notin Range(l1) => nx1[p] = nx[p]
    BY <2>2 DEF StackedAs
  <2>4. k + 1 \in 1 .. Len(q) /\ (k + 1) - 1 = k /\ e \in Places
    BY <1>1
  <2>5. e \notin Range(l1)
    <3>1. \A j \in 1 .. k : j \in 1 .. Len(q) /\ j # k + 1
      BY <2>4
    <3>2. e \notin FirstOf(q, k)
      BY <2>4, <3>1 DEF FirstOf
    <3> QED BY <2>3, <2>4, <3>2
  <2>6. x[k + 1] = tcache_put_n(Fields(st, at, sl1, hd1, nx1, ky1), e, i, NULL)
    BY <1>2, <2>3, <2>4
  <2>7. l1 \in Seq(Places) /\ Len(l1) \in Nat /\ At(l1, 0) = NULL
    BY <2>3 DEF IsList, At
  <2>8. IsList(nx1, hd1[i], l1) /\ DOMAIN nx1 = Places
    BY <2>3
  <2> HIDE DEF e, sl1, ky1
  <2>9. Inserted(tcache_put_n(Fields(st, at, sl1, hd1, nx1, ky1), e, i, At(l1, 0)),
                 st, at, sl1, hd1, nx1, ky1, i, l1, 0, e)
    <3>1. 0 \in 0 .. Len(l1)
      BY <2>7
    <3> QED BY <2>2, <2>4, <2>5, <2>8, <3>1, PutList
  <2>10. PICK hd2, nx2 :
           /\ hd2 \in [Bins -> Places \cup {NULL}]
           /\ tcache_put_n(Fields(st, at, sl1, hd1, nx1, ky1), e, i, At(l1, 0)) =
                Fields(st, at, Upd(sl1, i, sl1[i] - 1), hd2, nx2, ky1 \cup {e})
           /\ IsList(nx2, hd2[i], Ins(l1, 0, e)) /\ \A j \in Bins \ {i} : hd2[j] = hd1[j]
           /\ DOMAIN nx2 = Places /\ \A p \in Places \ {e} : p \notin Range(l1) => nx2[p] = nx1[p]
    BY <2>9 DEF Inserted
  <2> DEFINE l == Ins(l1, 0, e)
  <2>11. Range(l) = Range(l1) \cup {e} /\ Len(l) = Len(l1) + 1 /\ l[1] = e
    <3>1. 0 \in 0 .. Len(l1) /\ l1 \in Seq(Places) /\ e \in Places /\ 0 + 1 = 1
      BY <2>4, <2>7
    <3>2. Range(l) = Range(l1) \cup {e}
      BY <3>1, InsIs
    <3>3. Len(l) = Len(l1) + 1
      BY <3>1, InsIs
    <3>4. l[0 + 1] = e
      BY <3>1, InsIs
    <3> QED BY <3>1, <3>2, <3>3, <3>4
  <2>12. FirstOf(q, k + 1) = FirstOf(q, k) \cup {e}
    <3>1. 1 .. k + 1 = (1 .. k) \cup {k + 1}
      OBVIOUS
    <3> QED BY <3>1 DEF FirstOf, e
  <2>13. Upd(sl1, i, sl1[i] - 1) = Upd(sl, i, sl[i] - (k + 1))
    <3>1. sl1[i] - 1 = sl[i] - (k + 1)
      BY DEF sl1, Upd
    <3>2. \A a, b : Upd(Upd(sl, i, a), i, b) = Upd(sl, i, b)
      BY DEF Upd
    <3> QED BY <3>1, <3>2 DEF sl1
  <2>14. ky1 \cup {e} = ky \cup FirstOf(q, k + 1)
    BY <2>12 DEF ky1
  <2>15. x[k + 1] = Fields(st, at, Upd(sl, i, sl[i] - (k + 1)), hd2, nx2, ky \cup FirstOf(q, k + 1))
    BY <2>6, <2>7, <2>10, <2>13, <2>14
  <2>16. Range(l) = Range(s) \cup FirstOf(q, k + 1)
    BY <2>3, <2>11, <2>12
  <2>17. Len(l) = Len(s) + (k + 1)
    BY <1>1, <2>3, <2>11
  <2>18. IsList(nx2, hd2[i], l) /\ DOMAIN nx2 = Places /\ l[1] = q[k + 1]
    BY <2>10, <2>11 DEF e
  <2>19. \A j \in Bins \ {i} : hd2[j] = hd[j]
    BY <2>3, <2>10
  <2>20. \A p \in Places : p \notin Range(l) => nx2[p] = nx[p]
    BY <2>3, <2>10, <2>11
  <2> HIDE DEF l
  <2>21. StackedAs(x[k + 1], st, at, sl, hd, nx, ky, i, s, q, k + 1, hd2, nx2, l)
    BY <2>15, <2>16, <2>17, <2>18, <2>19, <2>20 DEF StackedAs
  <2> QED BY <2>10, <2>21 DEF Stacked
<1>5. Nat \subseteq D
  <2> HIDE DEF D
  <2> QED BY <1>3, <1>4, Induction
<1>6. P(x[Len(q)], Len(q))
  <2> HIDE DEF P
  <2> QED BY <1>1, <1>5
<1> HIDE DEF P
<1>7. P(PutAll(w, i, q), Len(q))
  BY <1>2, <1>6
<1> QED BY <1>7 DEF P

----------------------------------------------------------------------------
(* What a step leaves as it was.                                            *)

LEMMA GiveIs ==
  ASSUME NEW f, NEW p, NEW n
  PROVE  /\ DOMAIN Give(f, p, n) = DOMAIN f \cup {p} /\ Give(f, p, n)[p] = n
         /\ \A q \in DOMAIN f \ {p} : Give(f, p, n)[q] = f[q]
BY DEF Give

(* What Drop leaves.                                                        *)
LEMMA DropIs ==
  ASSUME NEW f, NEW p
  PROVE  DOMAIN Drop(f, p) = DOMAIN f \ {p} /\ \A q \in DOMAIN f \ {p} : Drop(f, p)[q] = f[q]
BY DEF Drop

(* A thread that does nothing keeps its phase, its heads and what it holds  *)
(* besides.                                                                 *)
Idles(u) == pc'[u] = pc[u] /\ op'[u] = op[u] /\ cache'[u] = cache[u]

(* An idle thread stays in its phase.                                       *)
LEMMA IdlePhase ==
  ASSUME NEW u \in Threads, Idles(u), Phase(u)
  PROVE  Phase(u)'
BY DEF Phase, Enabled, Idles

(* An idle thread holds what it held.                                       *)
LEMMA IdleHolds ==
  ASSUME NEW u \in Threads, Idles(u)
  PROVE  /\ StructOf(u)' = StructOf(u) /\ BeingFreed(u)' = BeingFreed(u) /\ Enabled(u)' = Enabled(u)
         /\ \A j \in Bins : HeadOf(u, j)' = HeadOf(u, j) /\ cache'[u].slots[j] = cache[u].slots[j]
BY DEF StructOf, BeingFreed, Enabled, HeadOf, Idles

(* The lists with l in place of the one of thread t's bin i.                *)
Replaced(lst, t, i, l) ==
  [u \in Threads |-> [j \in Bins |-> IF u = t /\ j = i THEN l ELSE lst[u][j]]]

(* N are the places whose use changes: they come from and go to list i of   *)
(* thread t, or from and to where no list is.                               *)
OneBin(lst, role, own, t, i, l, role2, own2, N) ==
  /\ \A p \in Places \ N : role2[p] = role[p] /\ own2[p] = own[p]
  /\ \A p \in Places \ N : p \in DOMAIN out => out'[p] = out[p]
  /\ \A p \in Places \ N : p \notin Range(lst[t][i]) => next'[p] = next[p]
  /\ \A p \in N : role[p] = "bin" => own[p] = t /\ TcIndex[out[p]] = i
  /\ \A p \in N : role2[p] = "bin" => own2[p] = t /\ TcIndex[out'[p]] = i
  /\ \A p \in N : p \in Range(l) <=> role2[p] = "bin"
  /\ \A p \in Places \ N : p \in Range(l) <=> p \in Range(lst[t][i])
  /\ \A u \in Threads, j \in Bins : u # t \/ j # i => HeadOf(u, j)' = HeadOf(u, j)
  /\ IsList(next', HeadOf(t, i)', l)
  /\ i \notin SmallBins => \A j, k \in 1 .. Len(l) : j < k => out'[l[j]] <= out'[l[k]]

(* The blocks of a sequence.                                                *)
LEMMA RangeIs ==
  ASSUME NEW s \in Seq(Places)
  PROVE  Range(s) = { s[k] : k \in 1 .. Len(s) } /\ Range(s) \subseteq Places
BY DEF Range

(* When one bin changes, the lists stay lists, sorted, and agree with what  *)
(* the places are used for.                                                 *)
LEMMA OneBinStep ==
  ASSUME NEW lst, NEW role, NEW own, Lists(lst), Members(lst, role, own), Sorted(lst),
         \A p \in Places : role[p] = "bin" => p \in DOMAIN out,
         NEW t \in Threads, NEW i \in Bins, NEW l, NEW role2, NEW own2, NEW N \in SUBSET Places,
         OneBin(lst, role, own, t, i, l, role2, own2, N), NEW lst2, lst2 = Replaced(lst, t, i, l)
  PROVE  Lists(lst2)' /\ Members(lst2, role2, own2)' /\ Sorted(lst2)'
<1>1. \A u \in Threads, j \in Bins : lst2[u][j] = IF u = t /\ j = i THEN l ELSE lst[u][j]
  BY DEF Replaced
<1>2. \A u \in Threads, j \in Bins : IsList(next, HeadOf(u, j), lst[u][j])
  BY DEF Lists
<1>3. \A u \in Threads, j \in Bins, p \in Places : p \in Range(lst[u][j]) <=> InBin(role, own, p, u, j)
  BY DEF Members
<1>4. \A u \in Threads, j \in Bins : lst[u][j] \in Seq(Places)
  BY <1>2 DEF IsList
<1>5. ASSUME NEW u \in Threads, NEW j \in Bins, u # t \/ j # i, NEW p \in Range(lst[u][j])
      PROVE  p \in Places /\ p \notin N /\ p \notin Range(lst[t][i]) /\ p \in DOMAIN out
  <2>1. p \in Places /\ lst[t][i] \in Seq(Places)
    BY <1>4, <1>5, RangeIs
  <2>2. role[p] = "bin" /\ own[p] = u /\ TcIndex[out[p]] = j
    BY <1>3, <1>5, <2>1 DEF InBin
  <2>3. p \notin N
    BY <1>5, <2>2 DEF OneBin
  <2>4. p \notin Range(lst[t][i])
    BY <1>3, <1>5, <2>1, <2>2 DEF InBin
  <2> QED BY <2>1, <2>2, <2>3, <2>4
<1>6. Lists(lst2)'
  <2>1. ASSUME NEW u \in Threads, NEW j \in Bins PROVE IsList(next', HeadOf(u, j)', lst2[u][j])
    <3>1. CASE u = t /\ j = i
      BY <1>1, <3>1 DEF OneBin
    <3>2. CASE u # t \/ j # i
      <4>1. \A p \in Range(lst[u][j]) : next'[p] = next[p]
        BY <1>5, <3>2 DEF OneBin
      <4>2. IsList(next', HeadOf(u, j), lst[u][j])
        BY <1>2, <4>1, SameList
      <4>3. HeadOf(u, j)' = HeadOf(u, j)
        BY <3>2 DEF OneBin
      <4>4. lst2[u][j] = lst[u][j]
        BY <1>1, <3>2
      <4> QED BY <4>2, <4>3, <4>4
    <3> QED BY <3>1, <3>2
  <2> QED BY <2>1 DEF Lists
<1>7. Members(lst2, role2, own2)'
  <2>1. ASSUME NEW u \in Threads, NEW j \in Bins, NEW p \in Places
        PROVE  p \in Range(lst2[u][j]) <=> role2[p] = "bin" /\ own2[p] = u /\ TcIndex[out'[p]] = j
    <3>1. CASE u = t /\ j = i
      <4>1. lst2[u][j] = l
        BY <1>1, <3>1
      <4>2. CASE p \in N
        BY <3>1, <4>1, <4>2 DEF OneBin
      <4>3. CASE p \notin N
        <5>1. p \in Range(l) <=> InBin(role, own, p, t, i)
          BY <1>3, <4>3 DEF OneBin
        <5>2. role2[p] = role[p] /\ own2[p] = own[p] /\ (role[p] = "bin" => out'[p] = out[p])
          BY <4>3 DEF OneBin
        <5> QED BY <3>1, <4>1, <5>1, <5>2 DEF InBin
      <4> QED BY <4>2, <4>3
    <3>2. CASE u # t \/ j # i
      <4>1. lst2[u][j] = lst[u][j]
        BY <1>1, <3>2
      <4>2. CASE p \in N
        <5>1. p \notin Range(lst[u][j])
          BY <1>5, <3>2, <4>2
        <5>2. role2[p] = "bin" => own2[p] = t /\ TcIndex[out'[p]] = i
          BY <4>2 DEF OneBin
        <5> QED BY <3>2, <4>1, <5>1, <5>2
      <4>3. CASE p \notin N
        <5>1. p \in Range(lst[u][j]) <=> InBin(role, own, p, u, j)
          BY <1>3
        <5>2. role2[p] = role[p] /\ own2[p] = own[p] /\ (role[p] = "bin" => out'[p] = out[p])
          BY <4>3 DEF OneBin
        <5> QED BY <4>1, <5>1, <5>2 DEF InBin
      <4> QED BY <4>2, <4>3
    <3> QED BY <3>1, <3>2
  <2> QED BY <2>1 DEF Members, InBin
<1>8. Sorted(lst2)'
  <2>1. ASSUME NEW u \in Threads, NEW b \in Bins \ SmallBins, NEW j \in 1 .. Len(lst2[u][b]),
               NEW k \in 1 .. Len(lst2[u][b]), j < k
        PROVE  out'[lst2[u][b][j]] <= out'[lst2[u][b][k]]
    <3>1. CASE u = t /\ b = i
      BY <1>1, <2>1, <3>1 DEF OneBin
    <3>2. CASE u # t \/ b # i
      <4>1. lst2[u][b] = lst[u][b]
        BY <1>1, <3>2
      <4>2. lst[u][b][j] \in Range(lst[u][b]) /\ lst[u][b][k] \in Range(lst[u][b])
        BY <1>4, <4>1, RangeIs
      <4>3. out'[lst[u][b][j]] = out[lst[u][b][j]] /\ out'[lst[u][b][k]] = out[lst[u][b][k]]
        BY <1>5, <3>2, <4>2 DEF OneBin
      <4>4. out[lst[u][b][j]] <= out[lst[u][b][k]]
        BY <2>1, <4>1 DEF Sorted
      <4> QED BY <4>1, <4>3, <4>4
    <3> QED BY <3>1, <3>2
  <2> QED BY <2>1 DEF Sorted
<1> QED BY <1>6, <1>7, <1>8

(* Places N whose use changes while all lists stay.                         *)
NoBin(role, own, role2, own2, N) ==
  /\ \A p \in Places \ N : role2[p] = role[p] /\ own2[p] = own[p]
  /\ \A p \in Places \ N : p \in DOMAIN out => out'[p] = out[p]
  /\ \A p \in N : role[p] # "bin" /\ role2[p] # "bin"
  /\ next' = next
  /\ \A u \in Threads, j \in Bins : HeadOf(u, j)' = HeadOf(u, j)

(* The same when no bin changes.                                            *)
LEMMA NoBinStep ==
  ASSUME NEW lst, NEW role, NEW own, Lists(lst), Members(lst, role, own), Sorted(lst),
         \A p \in Places : role[p] = "bin" => p \in DOMAIN out,
         NEW role2, NEW own2, NEW N \in SUBSET Places, NoBin(role, own, role2, own2, N)
  PROVE  Lists(lst)' /\ Members(lst, role2, own2)' /\ Sorted(lst)'
<1>1. Lists(lst)'
  BY DEF Lists, NoBin
<1>2. \A u \in Threads, j \in Bins, p \in Places : p \in Range(lst[u][j]) <=> InBin(role, own, p, u, j)
  BY DEF Members
<1>3. \A u \in Threads, j \in Bins : lst[u][j] \in Seq(Places)
  BY DEF Lists, IsList
<1>4. Members(lst, role2, own2)'
  <2>1. ASSUME NEW u \in Threads, NEW j \in Bins, NEW p \in Places
        PROVE  p \in Range(lst[u][j]) <=> role2[p] = "bin" /\ own2[p] = u /\ TcIndex[out'[p]] = j
    <3>1. CASE p \in N
      BY <1>2, <3>1 DEF NoBin, InBin
    <3>2. CASE p \notin N
      <4>1. role2[p] = role[p] /\ own2[p] = own[p] /\ (role[p] = "bin" => out'[p] = out[p])
        BY <3>2 DEF NoBin
      <4> QED BY <1>2, <4>1 DEF InBin
    <3> QED BY <3>1, <3>2
  <2> QED BY <2>1 DEF Members, InBin
<1>5. Sorted(lst)'
  <2>1. ASSUME NEW u \in Threads, NEW b \in Bins, NEW k \in 1 .. Len(lst[u][b])
        PROVE  out'[lst[u][b][k]] = out[lst[u][b][k]]
    <3>1. lst[u][b][k] \in Range(lst[u][b]) /\ lst[u][b][k] \in Places
      BY <1>3, RangeIs
    <3>2. role[lst[u][b][k]] = "bin"
      BY <1>2, <3>1 DEF InBin
    <3> QED BY <3>1, <3>2 DEF NoBin
  <2> QED BY <2>1 DEF Sorted
<1> QED BY <1>1, <1>4, <1>5

(* Every place outside N is held as before.                                 *)
HeldAsBefore(role, own, role2, own2, N) ==
  \A p \in Places \ N :
     /\ role2[p] = role[p] /\ own2[p] = own[p]
     /\ p \in DOMAIN out' <=> p \in DOMAIN out
     /\ p \in DOMAIN live' <=> p \in DOMAIN live
     /\ role[p] = "bin" => p \in key' /\ out'[p] = out[p]
     /\ \A u \in Threads : /\ p \in StructOf(u)' <=> p \in StructOf(u)
                           /\ p \in BeingFreed(u)' <=> p \in BeingFreed(u)

(* Every place keeps one holder when those outside N keep theirs and those  *)
(* in N get a new one.                                                      *)
LEMMA HoldersStep ==
  ASSUME NEW role, NEW own, Holders(role, own), NEW role2, NEW own2, NEW N \in SUBSET Places,
         HeldAsBefore(role, own, role2, own2, N), \A p \in N : Holder(role2, own2, p)'
  PROVE  Holders(role2, own2)'
<1>1. ASSUME NEW p \in Places \ N PROVE Holder(role2, own2, p)'
  <2>1. Holder(role, own, p)
    BY DEF Holders
  <2>2. /\ role2[p] = role[p] /\ own2[p] = own[p]
        /\ p \in DOMAIN out' <=> p \in DOMAIN out
        /\ p \in DOMAIN live' <=> p \in DOMAIN live
        /\ role[p] = "bin" => p \in key' /\ out'[p] = out[p]
        /\ \A u \in Threads : /\ p \in StructOf(u)' <=> p \in StructOf(u)
                              /\ p \in BeingFreed(u)' <=> p \in BeingFreed(u)
    BY DEF HeldAsBefore
  <2> QED BY <2>1, <2>2 DEF Holder
<1> QED BY <1>1 DEF Holders

(* The invariant with its witnesses, and what it says of places in bins.    *)
Known(lst, role, own) == TypeOK /\ (\A t \in Threads : Phase(t)) /\ Held(lst, role, own)

(* The invariant after a step, from its parts.                              *)
LEMMA KnownStep ==
  ASSUME NEW lst, NEW role, NEW own, TypeOK', \A u \in Threads : Phase(u)',
         Lists(lst)', Slots(lst)', Sorted(lst)', Members(lst, role, own)', Holders(role, own)'
  PROVE  CacheInv'
BY DEF CacheInv, Held

(* A cached block is one the arenas have handed out.                        *)
LEMMA BinsOut ==
  ASSUME NEW lst, NEW role, NEW own, Known(lst, role, own)
  PROVE  \A p \in Places : role[p] = "bin" => p \in DOMAIN out
BY DEF Known, Held, Holders, Holder

(* A step that moves no block between uses and leaves cache and links.      *)
LEMMA QuietStep ==
  ASSUME NEW lst, NEW role, NEW own, Known(lst, role, own), TypeOK',
         \A u \in Threads : Phase(u)', next' = next, out' = out, DOMAIN live' = DOMAIN live,
         \A p \in Places : role[p] = "bin" => p \in key',
         \A u \in Threads : /\ StructOf(u)' = StructOf(u) /\ BeingFreed(u)' = BeingFreed(u)
                            /\ \A j \in Bins : HeadOf(u, j)' = HeadOf(u, j)
                            /\ Enabled(u)' => Enabled(u) /\ cache'[u].slots = cache[u].slots
  PROVE  CacheInv'
<1>1. NoBin(role, own, role, own, {})
  BY DEF NoBin
<1>2. Lists(lst) /\ Members(lst, role, own) /\ Sorted(lst) /\ Slots(lst) /\ Holders(role, own)
  BY DEF Known, Held
<1>3. Lists(lst)' /\ Members(lst, role, own)' /\ Sorted(lst)'
  BY <1>1, <1>2, BinsOut, NoBinStep
<1>4. Slots(lst)'
  BY <1>2 DEF Slots, Enabled
<1>5. Holders(role, own)'
  <2>1. HeldAsBefore(role, own, role, own, {})
    BY DEF HeldAsBefore
  <2> QED BY <1>2, <2>1, HoldersStep
<1> QED BY <1>3, <1>4, <1>5, KnownStep

(* What a thread remembers of the calls it makes.                           *)
NoTmp            == [i \in Bins |-> NULL]
OpMalloc(k, n)   == [NoOp EXCEPT !.kind = k, !.nb = n]
OpFree(p)        == [NoOp EXCEPT !.kind = "free", !.mem = p]
OpShutdown(p, h) == [NoOp EXCEPT !.kind = "shutdown", !.mem = p, !.tmp = h]

(* The records op has.                                                      *)
LEMMA OpsAre ==
  /\ NoOp \in OpRecords /\ NoOp.kind = "none"
  /\ \A k \in {"malloc", "memalign"}, n \in Nat :
       OpMalloc(k, n) \in OpRecords /\ OpMalloc(k, n).kind = k /\ OpMalloc(k, n).nb = n
  /\ \A p \in Places : OpFree(p) \in OpRecords /\ OpFree(p).kind = "free" /\ OpFree(p).mem = p
  /\ \A p \in Places, h \in [Bins -> Places \cup {NULL}] :
       /\ OpShutdown(p, h) \in OpRecords /\ OpShutdown(p, h).kind = "shutdown"
       /\ OpShutdown(p, h).mem = p /\ OpShutdown(p, h).tmp = h
<1>1. NoTmp \in [Bins -> Places \cup {NULL}]
  BY DEF NoTmp
<1>2. NoOp = [kind |-> "none", nb |-> 0, mem |-> NULL, tmp |-> NoTmp]
  BY DEF NoOp, NoTmp
<1>3. NoOp \in OpRecords /\ NoOp.kind = "none"
  BY <1>1, <1>2 DEF OpRecords
<1>4. ASSUME NEW k \in {"malloc", "memalign"}, NEW n \in Nat
      PROVE  OpMalloc(k, n) \in OpRecords /\ OpMalloc(k, n).kind = k /\ OpMalloc(k, n).nb = n
  <2> DEFINE a == [NoOp EXCEPT !.kind = k]
             b == [a EXCEPT !.nb = n]
  <2>1. a = [kind |-> k, nb |-> 0, mem |-> NULL, tmp |-> NoTmp]
    BY <1>2
  <2>2. OpMalloc(k, n) = b
    BY DEF OpMalloc
  <2> HIDE DEF a
  <2>3. b = [kind |-> k, nb |-> n, mem |-> NULL, tmp |-> NoTmp]
    BY <2>1
  <2> QED BY <1>1, <2>2, <2>3 DEF OpRecords
<1>5. ASSUME NEW p \in Places
      PROVE  OpFree(p) \in OpRecords /\ OpFree(p).kind = "free" /\ OpFree(p).mem = p
  <2> DEFINE a == [NoOp EXCEPT !.kind = "free"]
             b == [a EXCEPT !.mem = p]
  <2>1. a = [kind |-> "free", nb |-> 0, mem |-> NULL, tmp |-> NoTmp]
    BY <1>2
  <2>2. OpFree(p) = b
    BY DEF OpFree
  <2> HIDE DEF a
  <2>3. b = [kind |-> "free", nb |-> 0, mem |-> p, tmp |-> NoTmp]
    BY <2>1
  <2> QED BY <1>1, <2>2, <2>3 DEF OpRecords
<1>6. ASSUME NEW p \in Places, NEW h \in [Bins -> Places \cup {NULL}]
      PROVE  /\ OpShutdown(p, h) \in OpRecords /\ OpShutdown(p, h).kind = "shutdown"
             /\ OpShutdown(p, h).mem = p /\ OpShutdown(p, h).tmp = h
  <2> DEFINE a == [NoOp EXCEPT !.kind = "shutdown"]
             b == [a EXCEPT !.mem = p]
             c == [b EXCEPT !.tmp = h]
  <2>1. a = [kind |-> "shutdown", nb |-> 0, mem |-> NULL, tmp |-> NoTmp]
    BY <1>2
  <2>2. OpShutdown(p, h) = c
    BY DEF OpShutdown
  <2> HIDE DEF a
  <2>3. b = [kind |-> "shutdown", nb |-> 0, mem |-> p, tmp |-> NoTmp]
    BY <2>1
  <2> HIDE DEF b
  <2>4. c = [kind |-> "shutdown", nb |-> 0, mem |-> p, tmp |-> h]
    BY <2>3
  <2> QED BY <2>2, <2>4 DEF OpRecords
<1> QED BY <1>3, <1>4, <1>5, <1>6

(* malloc or memalign goes to an arena; it has moved nothing yet.           *)
LEMMA CacheMissStep ==
  ASSUME NEW lst, NEW role, NEW own, Known(lst, role, own), NEW t \in Threads,
         NEW kind \in {"malloc", "memalign"}, NEW nb \in Requests, CacheMiss(t, kind, nb)
  PROVE  CacheInv'
<1>1. /\ pc[t] = "idle" /\ pc' = [pc EXCEPT ![t] = "arena"]
      /\ op' = [op EXCEPT ![t] = OpMalloc(kind, nb)]
      /\ UNCHANGED <<cache, next, key, out, live>>
  BY DEF CacheMiss, Step, OpMalloc
<1>2. TypeOK /\ (\A u \in Threads : Phase(u)) /\ Held(lst, role, own)
  BY DEF Known
<1>3. OpMalloc(kind, nb) \in OpRecords /\ OpMalloc(kind, nb).kind = kind /\ OpMalloc(kind, nb).nb = nb
  <2>1. nb \in Nat
    BY Constants
  <2> QED BY <2>1, OpsAre
<1>4. TypeOK'
  BY <1>1, <1>2, <1>3 DEF TypeOK
<1>5. \A u \in Threads : u # t => Idles(u)
  BY <1>1, <1>2 DEF TypeOK, Idles
<1>6. pc'[t] = "arena" /\ op'[t].kind = kind /\ op'[t].nb = nb
  BY <1>1, <1>2, <1>3 DEF TypeOK
<1>7. Phase(t)'
  BY <1>1, <1>2, <1>6 DEF Phase, Enabled
<1>8. \A u \in Threads : Phase(u)'
  BY <1>2, <1>5, <1>7, IdlePhase
<1>9. op[t].kind = "none"
  BY <1>1, <1>2 DEF Phase
<1>10. /\ StructOf(t)' = StructOf(t) /\ BeingFreed(t)' = BeingFreed(t)
       /\ \A j \in Bins : HeadOf(t, j)' = HeadOf(t, j)
  BY <1>1, <1>6, <1>9 DEF StructOf, BeingFreed, HeadOf, Enabled
<1>11. \A p \in Places : role[p] = "bin" => p \in key'
  BY <1>1, <1>2 DEF Held, Holders, Holder
<1>12. \A u \in Threads : Enabled(u)' => Enabled(u) /\ cache'[u].slots = cache[u].slots
  BY <1>1 DEF Enabled
<1>13. \A u \in Threads : /\ StructOf(u)' = StructOf(u) /\ BeingFreed(u)' = BeingFreed(u)
                          /\ \A j \in Bins : HeadOf(u, j)' = HeadOf(u, j)
  BY <1>5, <1>10, IdleHolds
<1> QED BY <1>1, <1>4, <1>8, <1>11, <1>12, <1>13, QuietStep

(* In a thread that is not shutting its cache down, the lists of the cache  *)
(* are those of the invariant; no list is longer than tcache_count.         *)
LEMMA Lookup ==
  ASSUME NEW lst, NEW role, NEW own, Known(lst, role, own), NEW t \in Threads, pc[t] # "shutdown",
         NEW i \in Bins
  PROVE  /\ IsList(next, cache[t].heads[i], lst[t][i]) /\ List(View(t), i) = lst[t][i]
         /\ lst[t][i] \in Seq(Places) /\ Len(lst[t][i]) <= Count
         /\ ~ Enabled(t) => lst[t][i] = <<>>
<1>1. IsList(next, cache[t].heads[i], lst[t][i])
  BY DEF Known, Held, Lists, HeadOf
<1>2. View(t).next = next /\ View(t).c.heads[i] = cache[t].heads[i]
  BY DEF View
<1>3. List(View(t), i) = lst[t][i]
  BY <1>1, <1>2, ChainIs DEF List
<1>4. lst[t][i] \in Seq(Places) /\ Len(lst[t][i]) \in Nat
  BY <1>1 DEF IsList
<1>5. CASE Enabled(t)
  <2>1. cache[t].slots[i] \in Nat /\ cache[t].slots[i] + Len(lst[t][i]) = Count
    BY <1>5 DEF Known, Held, Slots, TypeOK, CacheRecords
  <2> QED BY <1>1, <1>3, <1>4, <1>5, <2>1, Constants
<1>6. CASE ~ Enabled(t)
  <2>1. cache[t].heads[i] = NULL
    BY <1>6 DEF Known, Phase
  <2>2. Len(lst[t][i]) = 0
    BY <1>1, <1>4, <2>1, Constants DEF IsList, At
  <2>3. lst[t][i] = <<>>
    BY <1>4, <2>2
  <2> QED BY <1>1, <1>3, <1>4, <2>2, <2>3, Constants
<1> QED BY <1>5, <1>6

(* The step of a thread that ends its call.                                 *)
LEMMA FinishIs ==
  ASSUME TypeOK, NEW t \in Threads, Finish(t)
  PROVE  /\ pc'[t] = "idle" /\ op'[t] = NoOp /\ op'[t].kind = "none"
         /\ pc' \in [Threads -> {"idle", "arena", "free", "shutdown"}] /\ op' \in [Threads -> OpRecords]
         /\ \A u \in Threads \ {t} : pc'[u] = pc[u] /\ op'[u] = op[u]
<1>1. pc' = [pc EXCEPT ![t] = "idle"] /\ op' = [op EXCEPT ![t] = NoOp]
  BY DEF Finish
<1>2. NoOp \in OpRecords /\ NoOp.kind = "none"
  BY OpsAre
<1> HIDE DEF NoOp
<1> QED BY <1>1, <1>2 DEF TypeOK

(* role (or own) with another value for p.                                  *)
Except(f, p, r) == [q \in Places |-> IF q = p THEN r ELSE f[q]]

(* One place, in no bin before or after, changes its use.                   *)
OneMoves(role, own, p, r, o) ==
  /\ role[p] # "bin" /\ r # "bin" /\ next' = next
  /\ \A q \in Places \ {p} :
       /\ q \in DOMAIN out' <=> q \in DOMAIN out
       /\ q \in DOMAIN live' <=> q \in DOMAIN live
       /\ q \in DOMAIN out => out'[q] = out[q]
       /\ role[q] = "bin" => q \in key'
       /\ \A u \in Threads : /\ q \in StructOf(u)' <=> q \in StructOf(u)
                             /\ q \in BeingFreed(u)' <=> q \in BeingFreed(u)
  /\ \A u \in Threads, j \in Bins : HeadOf(u, j)' = HeadOf(u, j)
  /\ p \in DOMAIN out' <=> r \in {"live", "struct", "freed"}
  /\ p \in DOMAIN live' <=> r = "live"
  /\ r \in {"struct", "freed"} => o \in Threads
  /\ \A u \in Threads : /\ p \in StructOf(u)' <=> r = "struct" /\ o = u
                        /\ p \in BeingFreed(u)' <=> r = "freed" /\ o = u

(* One place comes to another use, neither of them in a bin.                *)
LEMMA MoveStep ==
  ASSUME NEW lst, NEW role, NEW own, Known(lst, role, own), TypeOK', \A u \in Threads : Phase(u)',
         Slots(lst)', NEW p \in Places, NEW r, NEW o, OneMoves(role, own, p, r, o)
  PROVE  CacheInv'
<1> DEFINE role2 == Except(role, p, r)
           own2 == Except(own, p, o)
<1>1. /\ role2[p] = r /\ own2[p] = o
      /\ \A q \in Places \ {p} : role2[q] = role[q] /\ own2[q] = own[q]
  BY DEF Except
<1> HIDE DEF role2, own2
<1>2. Lists(lst) /\ Members(lst, role, own) /\ Sorted(lst) /\ Holders(role, own)
  BY DEF Known, Held
<1>3. NoBin(role, own, role2, own2, {p})
  BY <1>1 DEF NoBin, OneMoves
<1>4. Lists(lst)' /\ Members(lst, role2, own2)' /\ Sorted(lst)'
  BY <1>2, <1>3, BinsOut, NoBinStep
<1>5. Holders(role2, own2)'
  <2>1. HeldAsBefore(role, own, role2, own2, {p})
    <3>1. \A q \in Places : role[q] = "bin" => q \in DOMAIN out
      BY BinsOut
    <3> QED BY <1>1, <3>1 DEF HeldAsBefore, OneMoves
  <2>2. Holder(role2, own2, p)'
    BY <1>1 DEF Holder, OneMoves
  <2> QED BY <1>2, <2>1, <2>2, HoldersStep
<1> QED BY <1>4, <1>5, KnownStep

(* Where nothing of a cache changes, neither does what its thread holds.    *)
LEMMA SameCache ==
  ASSUME NEW lst, NEW role, NEW own, Known(lst, role, own), cache' = cache
  PROVE  Slots(lst)' /\ \A u \in Threads : Enabled(u)' <=> Enabled(u)
BY DEF Known, Held, Slots, Enabled

(* malloc or memalign is given a chunk by an arena.                         *)
LEMMA ArenaServesStep ==
  ASSUME NEW lst, NEW role, NEW own, Known(lst, role, own), NEW t \in Threads, ArenaServes(t)
  PROVE  CacheInv'
<1>1. /\ pc[t] = "arena" /\ op[t].kind \in {"malloc", "memalign"} /\ Finish(t)
      /\ UNCHANGED <<cache, next, key>>
  BY DEF ArenaServes, ForCaller
<1>2. PICK p \in Places, s \in Fitting(op[t].nb) :
        p \notin DOMAIN out /\ out' = Give(out, p, s) /\ live' = Give(live, p, op[t].nb)
  BY DEF ArenaServes, Free
<1>3. TypeOK /\ (\A u \in Threads : Phase(u)) /\ Holders(role, own)
  BY DEF Known, Held
<1>4. /\ pc'[t] = "idle" /\ op'[t].kind = "none"
      /\ pc' \in [Threads -> {"idle", "arena", "free", "shutdown"}] /\ op' \in [Threads -> OpRecords]
      /\ \A u \in Threads \ {t} : pc'[u] = pc[u] /\ op'[u] = op[u]
  BY <1>1, <1>3, FinishIs
<1>5. /\ DOMAIN out' = DOMAIN out \cup {p} /\ out'[p] = s /\ \A q \in DOMAIN out \ {p} : out'[q] = out[q]
      /\ DOMAIN live' = DOMAIN live \cup {p}
  <2>1. DOMAIN out' = DOMAIN out \cup {p} /\ out'[p] = s /\ \A q \in DOMAIN out \ {p} : out'[q] = out[q]
    BY <1>2 DEF Give
  <2>2. DOMAIN live' = DOMAIN live \cup {p}
    BY <1>2, GiveIs
  <2> QED BY <2>1, <2>2
<1>6. TypeOK'
  <2>1. s \in Sizes
    BY DEF Fitting
  <2> QED BY <1>1, <1>2, <1>3, <1>4, <1>5, <2>1 DEF TypeOK
<1>7. \A u \in Threads : u # t => Idles(u)
  BY <1>1, <1>4 DEF Idles
<1>8. Phase(t)'
  BY <1>1, <1>3, <1>4 DEF Phase, Enabled
<1>9. \A u \in Threads : Phase(u)'
  BY <1>3, <1>7, <1>8, IdlePhase
<1>10. /\ StructOf(t)' = StructOf(t) /\ BeingFreed(t)' = BeingFreed(t)
       /\ \A j \in Bins : HeadOf(t, j)' = HeadOf(t, j)
  BY <1>1, <1>4 DEF StructOf, BeingFreed, HeadOf, Enabled
<1>11. \A u \in Threads : /\ StructOf(u)' = StructOf(u) /\ BeingFreed(u)' = BeingFreed(u)
                          /\ \A j \in Bins : HeadOf(u, j)' = HeadOf(u, j)
  BY <1>7, <1>10, IdleHolds
<1>12. Holder(role, own, p) /\ role[p] \notin {"live", "bin", "struct", "freed"}
  BY <1>2, <1>3 DEF Holders, Holder
<1>13. \A u \in Threads : p \notin StructOf(u) /\ p \notin BeingFreed(u)
  BY <1>12 DEF Holder
<1>14. \A q \in Places : role[q] = "bin" => q \in key'
  BY <1>1, <1>3 DEF Holders, Holder
<1>15. OneMoves(role, own, p, "live", own[p])
  BY <1>1, <1>5, <1>11, <1>12, <1>13, <1>14 DEF OneMoves
<1> QED BY <1>1, <1>6, <1>9, <1>15, SameCache, MoveStep

(* ... or is not.                                                           *)
LEMMA ArenaFailsStep ==
  ASSUME NEW lst, NEW role, NEW own, Known(lst, role, own), NEW t \in Threads, ArenaFails(t)
  PROVE  CacheInv'
<1>1. /\ pc[t] = "arena" /\ op[t].kind \in {"malloc", "memalign"} /\ Finish(t)
      /\ UNCHANGED <<cache, next, key, out, live>>
  BY DEF ArenaFails, ForCaller
<1>2. TypeOK /\ (\A u \in Threads : Phase(u)) /\ Holders(role, own)
  BY DEF Known, Held
<1>3. /\ pc'[t] = "idle" /\ op'[t].kind = "none"
      /\ pc' \in [Threads -> {"idle", "arena", "free", "shutdown"}] /\ op' \in [Threads -> OpRecords]
      /\ \A u \in Threads \ {t} : pc'[u] = pc[u] /\ op'[u] = op[u]
  BY <1>1, <1>2, FinishIs
<1>4. TypeOK'
  BY <1>1, <1>2, <1>3 DEF TypeOK
<1>5. \A u \in Threads : u # t => Idles(u)
  BY <1>1, <1>3 DEF Idles
<1>6. Phase(t)'
  BY <1>1, <1>2, <1>3 DEF Phase, Enabled
<1>7. \A u \in Threads : Phase(u)'
  BY <1>2, <1>5, <1>6, IdlePhase
<1>8. /\ StructOf(t)' = StructOf(t) /\ BeingFreed(t)' = BeingFreed(t)
      /\ \A j \in Bins : HeadOf(t, j)' = HeadOf(t, j)
  BY <1>1, <1>3 DEF StructOf, BeingFreed, HeadOf, Enabled
<1>9. \A u \in Threads : /\ StructOf(u)' = StructOf(u) /\ BeingFreed(u)' = BeingFreed(u)
                         /\ \A j \in Bins : HeadOf(u, j)' = HeadOf(u, j)
  BY <1>5, <1>8, IdleHolds
<1>10. \A q \in Places : role[q] = "bin" => q \in key'
  BY <1>1, <1>2 DEF Holders, Holder
<1>11. \A u \in Threads : Enabled(u)' => Enabled(u) /\ cache'[u].slots = cache[u].slots
  BY <1>1 DEF Enabled
<1> QED BY <1>1, <1>4, <1>7, <1>9, <1>10, <1>11, QuietStep

(* The program gives a block back.                                          *)
LEMMA CallFreeStep ==
  ASSUME NEW lst, NEW role, NEW own, Known(lst, role, own), NEW t \in Threads, NEW p \in DOMAIN live,
         CallFree(t, p)
  PROVE  CacheInv'
<1>1. /\ pc[t] = "idle" /\ pc' = [pc EXCEPT ![t] = "free"] /\ op' = [op EXCEPT ![t] = OpFree(p)]
      /\ live' = Drop(live, p) /\ key' \in {key \cup {p}, key \ {p}}
      /\ UNCHANGED <<cache, next, out>>
  BY DEF CallFree, Step, OpFree
<1>2. TypeOK /\ (\A u \in Threads : Phase(u)) /\ Holders(role, own)
  BY DEF Known, Held
<1>3. p \in Places /\ OpFree(p) \in OpRecords /\ OpFree(p).kind = "free" /\ OpFree(p).mem = p
  <2>1. p \in Places
    BY <1>2 DEF TypeOK
  <2> QED BY <2>1, OpsAre
<1>4. DOMAIN live' = DOMAIN live \ {p}
  BY <1>1, DropIs
<1>5. TypeOK'
  BY <1>1, <1>2, <1>3, <1>4 DEF TypeOK
<1>6. \A u \in Threads : u # t => Idles(u)
  BY <1>1, <1>2 DEF TypeOK, Idles
<1>7. pc'[t] = "free" /\ op'[t].kind = "free" /\ op'[t].mem = p /\ op[t].kind = "none"
  BY <1>1, <1>2, <1>3 DEF TypeOK, Phase
<1>8. Phase(t)'
  BY <1>1, <1>2, <1>3, <1>7 DEF Phase, Enabled
<1>9. \A u \in Threads : Phase(u)'
  BY <1>2, <1>6, <1>8, IdlePhase
<1>10. /\ StructOf(t)' = StructOf(t) /\ BeingFreed(t) = {} /\ BeingFreed(t)' = {p}
       /\ \A j \in Bins : HeadOf(t, j)' = HeadOf(t, j)
  BY <1>1, <1>7 DEF StructOf, BeingFreed, HeadOf, Enabled
<1>11. \A u \in Threads : /\ StructOf(u)' = StructOf(u) /\ (u # t => BeingFreed(u)' = BeingFreed(u))
                          /\ \A j \in Bins : HeadOf(u, j)' = HeadOf(u, j)
  BY <1>6, <1>10, IdleHolds
<1>12. Holder(role, own, p) /\ role[p] = "live" /\ p \in DOMAIN out
  BY <1>2, <1>3 DEF Holders, Holder
<1>13. \A u \in Threads : p \notin StructOf(u) /\ p \notin BeingFreed(u)
  BY <1>12 DEF Holder
<1>14. \A q \in Places : role[q] = "bin" => q \in key'
  <2>1. \A q \in Places : role[q] = "bin" => q \in key
    BY <1>2 DEF Holders, Holder
  <2> QED BY <1>1, <1>12, <2>1
<1>15. OneMoves(role, own, p, "freed", t)
  BY <1>1, <1>4, <1>10, <1>11, <1>12, <1>13, <1>14 DEF OneMoves
<1> QED BY <1>1, <1>3, <1>5, <1>9, <1>15, SameCache, MoveStep

(* What free frees is nobody's else.                                        *)
LEMMA FreedIs ==
  ASSUME NEW lst, NEW role, NEW own, Known(lst, role, own), NEW t \in Threads,
         op[t].kind \in {"free", "init"}
  PROVE  /\ op[t].mem \in Places /\ role[op[t].mem] = "freed" /\ own[op[t].mem] = t
         /\ op[t].mem \in DOMAIN out /\ op[t].mem \notin DOMAIN live /\ BeingFreed(t) = {op[t].mem}
         /\ \A u \in Threads : op[t].mem \notin StructOf(u)
         /\ \A u \in Threads \ {t} : op[t].mem \notin BeingFreed(u)
<1> DEFINE p == op[t].mem
<1>1. p \in Places /\ BeingFreed(t) = {p}
  BY DEF Known, Phase, BeingFreed
<1>2. Holder(role, own, p)
  BY <1>1 DEF Known, Held, Holders
<1> HIDE DEF p
<1>3. p \in BeingFreed(t)
  BY <1>1
<1>4. role[p] = "freed" /\ own[p] = t
  BY <1>2, <1>3 DEF Holder
<1>5. /\ p \in DOMAIN out /\ p \notin DOMAIN live
      /\ \A u \in Threads : p \notin StructOf(u)
      /\ \A u \in Threads \ {t} : p \notin BeingFreed(u)
  BY <1>2, <1>4 DEF Holder
<1> QED BY <1>1, <1>4, <1>5 DEF p

(* free gives the chunk to its arena.                                       *)
LEMMA FreeToArenaStep ==
  ASSUME NEW lst, NEW role, NEW own, Known(lst, role, own), NEW t \in Threads, FreeToArena(t)
  PROVE  CacheInv'
<1> DEFINE p == op[t].mem
<1>1. /\ pc[t] = "free" /\ Finish(t) /\ out' = Drop(out, p) /\ key' = key \ {p}
      /\ UNCHANGED <<cache, next, live>>
  BY DEF FreeToArena
<1>2. TypeOK /\ (\A u \in Threads : Phase(u)) /\ Holders(role, own)
  BY DEF Known, Held
<1>3. op[t].kind = "free"
  BY <1>1, <1>2 DEF Phase
<1>4. /\ p \in Places /\ role[p] = "freed" /\ p \in DOMAIN out /\ p \notin DOMAIN live
      /\ BeingFreed(t) = {p} /\ \A u \in Threads : p \notin StructOf(u)
      /\ \A u \in Threads \ {t} : p \notin BeingFreed(u)
  BY <1>3, FreedIs
<1> HIDE DEF p
<1>5. /\ pc'[t] = "idle" /\ op'[t].kind = "none"
      /\ pc' \in [Threads -> {"idle", "arena", "free", "shutdown"}] /\ op' \in [Threads -> OpRecords]
      /\ \A u \in Threads \ {t} : pc'[u] = pc[u] /\ op'[u] = op[u]
  BY <1>1, <1>2, FinishIs
<1>6. DOMAIN out' = DOMAIN out \ {p} /\ \A q \in DOMAIN out \ {p} : out'[q] = out[q]
  BY <1>1, DropIs
<1>7. TypeOK'
  BY <1>1, <1>2, <1>5, <1>6 DEF TypeOK
<1>8. \A u \in Threads : u # t => Idles(u)
  BY <1>1, <1>5 DEF Idles
<1>9. Phase(t)'
  BY <1>1, <1>2, <1>5 DEF Phase, Enabled
<1>10. \A u \in Threads : Phase(u)'
  BY <1>2, <1>8, <1>9, IdlePhase
<1>11. /\ StructOf(t)' = StructOf(t) /\ BeingFreed(t)' = {}
       /\ \A j \in Bins : HeadOf(t, j)' = HeadOf(t, j)
  BY <1>1, <1>5 DEF StructOf, BeingFreed, HeadOf, Enabled
<1>12. \A u \in Threads : /\ StructOf(u)' = StructOf(u) /\ (u # t => BeingFreed(u)' = BeingFreed(u))
                          /\ \A j \in Bins : HeadOf(u, j)' = HeadOf(u, j)
  BY <1>8, <1>11, IdleHolds
<1>13. \A q \in Places : role[q] = "bin" => q \in key'
  <2>1. \A q \in Places : role[q] = "bin" => q \in key
    BY <1>2 DEF Holders, Holder
  <2> QED BY <1>1, <1>4, <2>1
<1>14. OneMoves(role, own, p, "none", t)
  BY <1>1, <1>4, <1>6, <1>11, <1>12, <1>13 DEF OneMoves
<1> QED BY <1>1, <1>4, <1>7, <1>10, <1>14, SameCache, MoveStep

(* A dummy and a fresh cache.                                               *)
LEMMA CachesAre ==
  /\ Disabled \in CacheRecords /\ Disabled.state = "disabled"
  /\ \A i \in Bins : Disabled.slots[i] = 0 /\ Disabled.heads[i] = NULL
  /\ \A p \in Places : /\ Fresh(p) \in CacheRecords /\ Fresh(p).state = "live" /\ Fresh(p).at = p
                       /\ \A i \in Bins : Fresh(p).slots[i] = Count /\ Fresh(p).heads[i] = NULL
BY Constants DEF Disabled, Dummy, Fresh, CacheRecords

(* free finds the key in a block that is not cached, and goes on.           *)
LEMMA VerifyStep ==
  ASSUME NEW lst, NEW role, NEW own, Known(lst, role, own), NEW t \in Threads, Verify(t)
  PROVE  CacheInv'
<1> DEFINE p == op[t].mem
           lists == { List(View(t), i) : i \in Bins }
<1>1. /\ pc[t] = "free" /\ UNCHANGED <<cache, next, out, live, op>>
      /\ ~ (\E s \in lists : Len(s) > Count \/ p \in Range(s)) => key' = key \ {p} /\ UNCHANGED pc
  BY DEF Verify
<1>2. TypeOK /\ (\A u \in Threads : Phase(u)) /\ Holders(role, own) /\ Members(lst, role, own)
  BY DEF Known, Held
<1>3. p \in Places /\ role[p] = "freed"
  <2>1. op[t].kind = "free"
    BY <1>1, <1>2 DEF Phase
  <2> QED BY <2>1, FreedIs
<1>4. \A s \in lists : ~ (Len(s) > Count \/ p \in Range(s))
  <2>1. ASSUME NEW i \in Bins PROVE ~ (Len(List(View(t), i)) > Count \/ p \in Range(List(View(t), i)))
    <3>1. List(View(t), i) = lst[t][i] /\ lst[t][i] \in Seq(Places) /\ Len(lst[t][i]) <= Count
      BY <1>1, Lookup
    <3>2. p \notin Range(lst[t][i])
      BY <1>2, <1>3 DEF Members, InBin
    <3>3. Len(lst[t][i]) \in Nat
      BY <3>1
    <3> QED BY <3>1, <3>2, <3>3, Constants
  <2> QED BY <2>1
<1>5. key' = key \ {p} /\ pc' = pc
  BY <1>1, <1>4
<1>6. TypeOK'
  BY <1>1, <1>2, <1>5 DEF TypeOK
<1>7. \A u \in Threads : Idles(u)
  BY <1>1, <1>5 DEF Idles
<1>8. \A u \in Threads : Phase(u)'
  BY <1>2, <1>7, IdlePhase
<1>9. \A u \in Threads : /\ StructOf(u)' = StructOf(u) /\ BeingFreed(u)' = BeingFreed(u)
                         /\ \A j \in Bins : HeadOf(u, j)' = HeadOf(u, j)
  BY <1>7, IdleHolds
<1>10. \A q \in Places : role[q] = "bin" => q \in key'
  <2>1. \A q \in Places : role[q] = "bin" => q \in key
    BY <1>2 DEF Holders, Holder
  <2> QED BY <1>3, <1>5, <2>1
<1>11. \A u \in Threads : Enabled(u)' => Enabled(u) /\ cache'[u].slots = cache[u].slots
  BY <1>1 DEF Enabled
<1> QED BY <1>1, <1>6, <1>8, <1>9, <1>10, <1>11, QuietStep

(* The first free of a thread asks an arena for a cache.                    *)
OpInit(o) == [o EXCEPT !.kind = "init", !.nb = StructSize]

(* What StartInit makes of op.                                              *)
LEMMA OpInitIs ==
  ASSUME NEW o \in OpRecords
  PROVE  OpInit(o) \in OpRecords /\ OpInit(o).kind = "init" /\ OpInit(o).mem = o.mem
<1> DEFINE a == [o EXCEPT !.kind = "init"]
           b == [a EXCEPT !.nb = StructSize]
<1>1. StructSize \in Nat
  BY TcacheAssumption
<1>2. a \in OpRecords /\ a.kind = "init" /\ a.mem = o.mem
  BY DEF OpRecords
<1>3. OpInit(o) = b
  BY DEF OpInit
<1> HIDE DEF a
<1>4. b \in OpRecords /\ b.kind = a.kind /\ b.mem = a.mem
  BY <1>1, <1>2 DEF OpRecords
<1> QED BY <1>2, <1>3, <1>4

(* free finds no cache yet: the thread has the disabled one, and asks an    *)
(* arena for its own.                                                       *)
LEMMA StartInitStep ==
  ASSUME NEW lst, NEW role, NEW own, Known(lst, role, own), NEW t \in Threads, StartInit(t)
  PROVE  CacheInv'
<1>1. /\ pc[t] = "free" /\ Inactive(t) /\ cache' = [cache EXCEPT ![t] = Disabled]
      /\ UNCHANGED <<next, key, out, live>>
      /\ \/ UNCHANGED <<pc, op>>
         \/ pc' = [pc EXCEPT ![t] = "arena"] /\ op' = [op EXCEPT ![t] = OpInit(op[t])]
  <2>1. Count # 0 => op' = [op EXCEPT ![t].kind = "init", ![t].nb = StructSize]
    BY DEF StartInit
  <2>2. [op EXCEPT ![t].kind = "init", ![t].nb = StructSize] = [op EXCEPT ![t] = OpInit(op[t])]
    BY DEF OpInit
  <2> QED BY <2>1, <2>2 DEF StartInit
<1>2. TypeOK /\ (\A u \in Threads : Phase(u)) /\ Holders(role, own)
  BY DEF Known, Held
<1>3. op[t].kind = "free" /\ op[t].mem \in Places /\ ~ Enabled(t)
  BY <1>1, <1>2 DEF Phase, Inactive, Enabled
<1>4. /\ OpInit(op[t]) \in OpRecords /\ OpInit(op[t]).kind = "init" /\ OpInit(op[t]).mem = op[t].mem
  BY <1>2, OpInitIs DEF TypeOK
<1>5. TypeOK'
  BY <1>1, <1>2, <1>4, CachesAre DEF TypeOK
<1>6. \A u \in Threads : u # t => Idles(u)
  BY <1>1, <1>2 DEF TypeOK, Idles
<1>7. /\ cache'[t] = Disabled /\ op'[t].mem = op[t].mem
      /\ \/ pc'[t] = "free" /\ op'[t].kind = "free"
         \/ pc'[t] = "arena" /\ op'[t].kind = "init"
  BY <1>1, <1>2, <1>3, <1>4 DEF TypeOK
<1>8. Enabled(t)' = FALSE
  BY <1>7, CachesAre DEF Enabled
<1>9. Phase(t)'
  BY <1>3, <1>7, <1>8, CachesAre DEF Phase
<1>10. \A u \in Threads : Phase(u)'
  BY <1>2, <1>6, <1>9, IdlePhase
<1>11. /\ StructOf(t)' = StructOf(t) /\ BeingFreed(t)' = BeingFreed(t)
       /\ \A j \in Bins : HeadOf(t, j)' = HeadOf(t, j)
  <2>1. \A j \in Bins : cache[t].heads[j] = NULL /\ cache'[t].heads[j] = NULL
    BY <1>2, <1>3, <1>7, CachesAre DEF Phase
  <2> QED BY <1>1, <1>3, <1>7, <1>8, <2>1 DEF StructOf, BeingFreed, HeadOf
<1>12. \A u \in Threads : /\ StructOf(u)' = StructOf(u) /\ BeingFreed(u)' = BeingFreed(u)
                          /\ \A j \in Bins : HeadOf(u, j)' = HeadOf(u, j)
  BY <1>6, <1>11, IdleHolds
<1>13. \A q \in Places : role[q] = "bin" => q \in key'
  BY <1>1, <1>2 DEF Holders, Holder
<1>14. \A u \in Threads : Enabled(u)' => Enabled(u) /\ cache'[u].slots = cache[u].slots
  BY <1>6, <1>8 DEF Enabled, Idles
<1> QED BY <1>1, <1>5, <1>10, <1>12, <1>13, <1>14, QuietStep

(* The cache is there, or there was no memory for it, and free goes on.     *)
LEMMA InitEndsStep ==
  ASSUME NEW lst, NEW role, NEW own, Known(lst, role, own), NEW t \in Threads, InitEnds(t)
  PROVE  CacheInv'
<1>1. /\ pc[t] = "arena" /\ pc' = [pc EXCEPT ![t] = "free"] /\ op[t].kind = "init"
      /\ op' = [op EXCEPT ![t].kind = "free"] /\ UNCHANGED <<next, key, live>>
  BY DEF InitEnds, Step
<1>2. TypeOK /\ (\A u \in Threads : Phase(u)) /\ Holders(role, own) /\ Slots(lst)
  BY DEF Known, Held
<1>3. op[t].mem \in Places /\ ~ Enabled(t)
  BY <1>1, <1>2 DEF Phase
<1>4. /\ op' \in [Threads -> OpRecords] /\ op'[t].kind = "free" /\ op'[t].mem = op[t].mem
      /\ pc' \in [Threads -> {"idle", "arena", "free", "shutdown"}] /\ pc'[t] = "free"
      /\ \A u \in Threads \ {t} : pc'[u] = pc[u] /\ op'[u] = op[u]
  BY <1>1, <1>2 DEF TypeOK, OpRecords
<1>5. \A q \in Places : role[q] = "bin" => q \in key'
  BY <1>1, <1>2 DEF Holders, Holder
<1>6. \A j \in Bins : cache[t].heads[j] = NULL
  BY <1>2, <1>3 DEF Phase
<1>7. StructOf(t) = {} /\ BeingFreed(t)' = BeingFreed(t)
  BY <1>1, <1>3, <1>4 DEF StructOf, BeingFreed
<1>8. CASE UNCHANGED <<cache, out>>
  <2>1. TypeOK'
    BY <1>1, <1>2, <1>4, <1>8 DEF TypeOK
  <2>2. \A u \in Threads : u # t => Idles(u)
    BY <1>4, <1>8 DEF Idles
  <2>3. Phase(t)'
    BY <1>2, <1>3, <1>4, <1>8 DEF Phase, Enabled
  <2>4. \A u \in Threads : Phase(u)'
    BY <1>2, <2>2, <2>3, IdlePhase
  <2>5. StructOf(t)' = StructOf(t) /\ \A j \in Bins : HeadOf(t, j)' = HeadOf(t, j)
    BY <1>1, <1>4, <1>8 DEF StructOf, HeadOf, Enabled
  <2>6. \A u \in Threads : /\ StructOf(u)' = StructOf(u) /\ BeingFreed(u)' = BeingFreed(u)
                           /\ \A j \in Bins : HeadOf(u, j)' = HeadOf(u, j)
    BY <1>7, <2>2, <2>5, IdleHolds
  <2>7. \A u \in Threads : Enabled(u)' => Enabled(u) /\ cache'[u].slots = cache[u].slots
    BY <1>8 DEF Enabled
  <2> QED BY <1>1, <1>5, <1>8, <2>1, <2>4, <2>6, <2>7, QuietStep
<1>9. CASE \E p \in Places, s \in Fitting(StructSize) :
             /\ Free(p) /\ out' = Give(out, p, s) /\ cache' = [cache EXCEPT ![t] = Fresh(p)]
  <2>1. PICK p \in Places, s \in Fitting(StructSize) :
          /\ p \notin DOMAIN out /\ out' = Give(out, p, s) /\ cache' = [cache EXCEPT ![t] = Fresh(p)]
    BY <1>9 DEF Free
  <2>2. DOMAIN out' = DOMAIN out \cup {p} /\ out'[p] = s /\ \A q \in DOMAIN out \ {p} : out'[q] = out[q]
    BY <2>1 DEF Give
  <2>3. /\ cache' \in [Threads -> CacheRecords] /\ cache'[t].state = "live" /\ cache'[t].at = p
        /\ \A j \in Bins : cache'[t].slots[j] = Count /\ cache'[t].heads[j] = NULL
        /\ \A u \in Threads \ {t} : cache'[u] = cache[u]
    BY <1>2, <2>1, CachesAre DEF TypeOK
  <2>4. TypeOK'
    <3>1. s \in Sizes
      BY DEF Fitting
    <3> QED BY <1>1, <1>2, <1>4, <2>2, <2>3, <3>1 DEF TypeOK
  <2>5. \A u \in Threads : u # t => Idles(u)
    BY <1>4, <2>3 DEF Idles
  <2>6. Enabled(t)' = TRUE
    BY <2>3 DEF Enabled
  <2>7. Phase(t)'
    BY <1>3, <1>4, <2>3, <2>6 DEF Phase
  <2>8. \A u \in Threads : Phase(u)'
    BY <1>2, <2>5, <2>7, IdlePhase
  <2>9. StructOf(t)' = {p} /\ \A j \in Bins : HeadOf(t, j)' = HeadOf(t, j)
    BY <1>1, <1>4, <1>6, <2>3, <2>6 DEF StructOf, HeadOf
  <2>10. \A u \in Threads : /\ (u # t => StructOf(u)' = StructOf(u)) /\ BeingFreed(u)' = BeingFreed(u)
                            /\ \A j \in Bins : HeadOf(u, j)' = HeadOf(u, j)
    BY <1>7, <2>5, <2>9, IdleHolds
  <2>11. Slots(lst)'
    <3>1. ASSUME NEW i \in Bins PROVE cache'[t].slots[i] + Len(lst[t][i]) = Count
      <4>1. lst[t][i] = <<>>
        BY <1>1, <1>3, Lookup
      <4>2. Len(lst[t][i]) = 0
        BY <4>1
      <4> QED BY <2>3, <4>2, Constants
    <3>2. ASSUME NEW u \in Threads \ {t}, NEW i \in Bins, Enabled(u)'
          PROVE  cache'[u].slots[i] + Len(lst[u][i]) = Count
      <4>1. Enabled(u)
        BY <2>3, <3>2 DEF Enabled
      <4> QED BY <1>2, <2>3, <4>1 DEF Slots
    <3> QED BY <3>1, <3>2 DEF Slots
  <2>12. Holder(role, own, p) /\ role[p] \notin {"live", "bin", "struct", "freed"} /\ p \notin DOMAIN live
    BY <1>2, <2>1 DEF Holders, Holder
  <2>13. \A u \in Threads : p \notin StructOf(u) /\ p \notin BeingFreed(u)
    BY <2>12 DEF Holder
  <2>14. OneMoves(role, own, p, "struct", t)
    BY <1>1, <1>5, <1>7, <2>2, <2>9, <2>10, <2>12, <2>13 DEF OneMoves
  <2> QED BY <2>4, <2>8, <2>11, <2>14, MoveStep
<1> QED BY <1>8, <1>9 DEF InitEnds

(* A thread ends: its cache is put aside.                                   *)
LEMMA ShutdownStep ==
  ASSUME NEW lst, NEW role, NEW own, Known(lst, role, own), NEW t \in Threads, Shutdown(t)
  PROVE  CacheInv'
<1>1. /\ pc[t] = "idle" /\ cache' = [cache EXCEPT ![t] = Disabled]
      /\ UNCHANGED <<next, key, out, live>>
      /\ \/ /\ Enabled(t) /\ pc' = [pc EXCEPT ![t] = "shutdown"]
            /\ op' = [op EXCEPT ![t] = OpShutdown(cache[t].at, cache[t].heads)]
         \/ ~ Enabled(t) /\ UNCHANGED <<pc, op>>
  BY DEF Shutdown, OpShutdown
<1>2. TypeOK /\ (\A u \in Threads : Phase(u)) /\ Holders(role, own)
  BY DEF Known, Held
<1>3. op[t].kind = "none" /\ (Enabled(t) => cache[t].at \in Places)
  BY <1>1, <1>2 DEF Phase
<1>4. cache'[t] = Disabled /\ cache' \in [Threads -> CacheRecords] /\ Enabled(t)' = FALSE
      /\ \A u \in Threads \ {t} : cache'[u] = cache[u]
  BY <1>1, <1>2, CachesAre DEF TypeOK, Enabled
<1>5. CASE Enabled(t)
  <2> DEFINE o == OpShutdown(cache[t].at, cache[t].heads)
  <2>1. pc' = [pc EXCEPT ![t] = "shutdown"] /\ op' = [op EXCEPT ![t] = o]
    BY <1>1, <1>5
  <2>2. o \in OpRecords /\ o.kind = "shutdown" /\ o.mem = cache[t].at /\ o.tmp = cache[t].heads
    <3>1. cache[t].at \in Places /\ cache[t].heads \in [Bins -> Places \cup {NULL}]
      BY <1>2, <1>3, <1>5 DEF TypeOK, CacheRecords
    <3> QED BY <3>1, OpsAre
  <2> HIDE DEF o
  <2>3. /\ TypeOK' /\ pc'[t] = "shutdown" /\ op'[t] = o
        /\ \A u \in Threads : u # t => Idles(u)
    BY <1>1, <1>2, <1>4, <2>1, <2>2 DEF TypeOK, Idles
  <2>4. Phase(t)'
    BY <1>3, <1>4, <1>5, <2>2, <2>3, CachesAre DEF Phase
  <2>5. \A u \in Threads : Phase(u)'
    BY <1>2, <2>3, <2>4, IdlePhase
  <2>6. /\ StructOf(t)' = StructOf(t) /\ BeingFreed(t)' = BeingFreed(t)
        /\ \A j \in Bins : HeadOf(t, j)' = HeadOf(t, j)
    BY <1>1, <1>3, <1>4, <1>5, <2>2, <2>3 DEF StructOf, BeingFreed, HeadOf
  <2>7. \A u \in Threads : /\ StructOf(u)' = StructOf(u) /\ BeingFreed(u)' = BeingFreed(u)
                           /\ \A j \in Bins : HeadOf(u, j)' = HeadOf(u, j)
    BY <2>3, <2>6, IdleHolds
  <2>8. \A q \in Places : role[q] = "bin" => q \in key'
    BY <1>1, <1>2 DEF Holders, Holder
  <2>9. \A u \in Threads : Enabled(u)' => Enabled(u) /\ cache'[u].slots = cache[u].slots
    BY <1>4 DEF Enabled
  <2> QED BY <1>1, <2>3, <2>5, <2>7, <2>8, <2>9, QuietStep
<1>6. CASE ~ Enabled(t)
  <2>1. pc' = pc /\ op' = op
    BY <1>1, <1>6
  <2>2. TypeOK' /\ \A u \in Threads : u # t => Idles(u)
    BY <1>1, <1>2, <1>4, <2>1 DEF TypeOK, Idles
  <2>3. Phase(t)'
    BY <1>1, <1>2, <1>3, <1>4, <2>1, CachesAre DEF Phase
  <2>4. \A u \in Threads : Phase(u)'
    BY <1>2, <2>2, <2>3, IdlePhase
  <2>5. \A j \in Bins : cache[t].heads[j] = NULL /\ cache'[t].heads[j] = NULL
    BY <1>2, <1>4, <1>6, CachesAre DEF Phase
  <2>6. /\ StructOf(t)' = StructOf(t) /\ BeingFreed(t)' = BeingFreed(t)
        /\ \A j \in Bins : HeadOf(t, j)' = HeadOf(t, j)
    BY <1>1, <1>4, <1>6, <2>1, <2>5 DEF StructOf, BeingFreed, HeadOf
  <2>7. \A u \in Threads : /\ StructOf(u)' = StructOf(u) /\ BeingFreed(u)' = BeingFreed(u)
                           /\ \A j \in Bins : HeadOf(u, j)' = HeadOf(u, j)
    BY <2>2, <2>6, IdleHolds
  <2>8. \A q \in Places : role[q] = "bin" => q \in key'
    BY <1>1, <1>2 DEF Holders, Holder
  <2>9. \A u \in Threads : Enabled(u)' => Enabled(u) /\ cache'[u].slots = cache[u].slots
    BY <1>4 DEF Enabled
  <2> QED BY <1>1, <2>2, <2>4, <2>7, <2>8, <2>9, QuietStep
<1> QED BY <1>5, <1>6

(* Its lists are empty, and the struct goes back.                           *)
LEMMA ShutdownEndsStep ==
  ASSUME NEW lst, NEW role, NEW own, Known(lst, role, own), NEW t \in Threads, ShutdownEnds(t)
  PROVE  CacheInv'
<1> DEFINE p == op[t].mem
<1>1. /\ pc[t] = "shutdown" /\ Finish(t) /\ out' = Drop(out, p) /\ \A i \in Bins : op[t].tmp[i] = NULL
      /\ UNCHANGED <<cache, next, key, live>>
  BY DEF ShutdownEnds
<1>2. TypeOK /\ (\A u \in Threads : Phase(u)) /\ Holders(role, own)
  BY DEF Known, Held
<1>3. op[t].kind = "shutdown" /\ ~ Enabled(t) /\ p \in Places
  BY <1>1, <1>2 DEF Phase
<1>4. StructOf(t) = {p}
  BY <1>1, <1>3 DEF StructOf
<1> HIDE DEF p
<1>5. Holder(role, own, p) /\ role[p] = "struct" /\ own[p] = t
  BY <1>2, <1>3, <1>4 DEF Holders, Holder
<1>6. /\ p \notin DOMAIN live /\ \A u \in Threads : p \notin BeingFreed(u)
      /\ \A u \in Threads \ {t} : p \notin StructOf(u)
  BY <1>5 DEF Holder
<1>7. /\ pc'[t] = "idle" /\ op'[t].kind = "none"
      /\ pc' \in [Threads -> {"idle", "arena", "free", "shutdown"}] /\ op' \in [Threads -> OpRecords]
      /\ \A u \in Threads \ {t} : pc'[u] = pc[u] /\ op'[u] = op[u]
  BY <1>1, <1>2, FinishIs
<1>8. DOMAIN out' = DOMAIN out \ {p} /\ \A q \in DOMAIN out \ {p} : out'[q] = out[q]
  BY <1>1, DropIs
<1>9. TypeOK'
  BY <1>1, <1>2, <1>7, <1>8 DEF TypeOK
<1>10. \A u \in Threads : u # t => Idles(u)
  BY <1>1, <1>7 DEF Idles
<1>11. Phase(t)'
  BY <1>1, <1>2, <1>7 DEF Phase, Enabled
<1>12. \A u \in Threads : Phase(u)'
  BY <1>2, <1>10, <1>11, IdlePhase
<1>13. /\ StructOf(t)' = {} /\ BeingFreed(t)' = BeingFreed(t)
       /\ \A j \in Bins : HeadOf(t, j)' = HeadOf(t, j)
  <2>1. \A j \in Bins : cache[t].heads[j] = NULL
    BY <1>2, <1>3 DEF Phase
  <2> QED BY <1>1, <1>3, <1>7, <2>1 DEF StructOf, BeingFreed, HeadOf, Enabled
<1>14. \A u \in Threads : /\ (u # t => StructOf(u)' = StructOf(u)) /\ BeingFreed(u)' = BeingFreed(u)
                          /\ \A j \in Bins : HeadOf(u, j)' = HeadOf(u, j)
  BY <1>10, <1>13, IdleHolds
<1>15. \A q \in Places : role[q] = "bin" => q \in key'
  BY <1>1, <1>2 DEF Holders, Holder
<1>16. OneMoves(role, own, p, "none", t)
  BY <1>1, <1>4, <1>5, <1>6, <1>8, <1>13, <1>14, <1>15 DEF OneMoves
<1> QED BY <1>1, <1>3, <1>9, <1>12, <1>16, SameCache, MoveStep

(* One bin of one thread changes.                                           *)
LEMMA BinStep ==
  ASSUME NEW lst, NEW role, NEW own, Known(lst, role, own), TypeOK', \A u \in Threads : Phase(u)',
         NEW t \in Threads, NEW i \in Bins, NEW l, NEW role2, NEW own2, NEW N \in SUBSET Places,
         OneBin(lst, role, own, t, i, l, role2, own2, N), HeldAsBefore(role, own, role2, own2, N),
         \A p \in N : Holder(role2, own2, p)', \A u \in Threads \ {t} : cache'[u] = cache[u],
         Enabled(t)' => /\ cache'[t].slots[i] + Len(l) = Count
                        /\ \A j \in Bins \ {i} : cache'[t].slots[j] + Len(lst[t][j]) = Count
  PROVE  CacheInv'
<1>1. Lists(lst) /\ Members(lst, role, own) /\ Sorted(lst) /\ Holders(role, own) /\ Slots(lst)
  BY DEF Known, Held
<1> DEFINE lst2 == Replaced(lst, t, i, l)
<1>2. \A u \in Threads, j \in Bins : lst2[u][j] = IF u = t /\ j = i THEN l ELSE lst[u][j]
  BY DEF Replaced
<1>3. Lists(lst2)' /\ Members(lst2, role2, own2)' /\ Sorted(lst2)'
  BY <1>1, BinsOut, OneBinStep
<1> HIDE DEF lst2
<1>4. Slots(lst2)'
  <2>1. ASSUME NEW u \in Threads, NEW j \in Bins, Enabled(u)'
        PROVE  cache'[u].slots[j] + Len(lst2[u][j]) = Count
    <3>1. CASE u = t
      BY <1>2, <2>1, <3>1
    <3>2. CASE u # t
      <4>1. cache'[u] = cache[u] /\ lst2[u][j] = lst[u][j]
        BY <1>2, <3>2
      <4>2. Enabled(u)
        BY <2>1, <4>1 DEF Enabled
      <4> QED BY <1>1, <4>1, <4>2 DEF Slots
    <3> QED BY <3>1, <3>2
  <2> QED BY <2>1 DEF Slots
<1>5. Holders(role2, own2)'
  BY <1>1, HoldersStep
<1> QED BY <1>3, <1>4, <1>5, KnownStep

(* Lists sorted by size stay so.                                            *)
LEMMA InsSorted ==
  ASSUME NEW s \in Seq(Places), NEW n \in 0 .. Len(s), NEW e \in Places, NEW f,
         \A p \in Range(s) : f[p] \in Nat, f[e] \in Nat,
         \A j, k \in 1 .. Len(s) : j < k => f[s[j]] <= f[s[k]],
         \A k \in 1 .. n : f[s[k]] <= f[e], n < Len(s) => f[e] <= f[s[n + 1]]
  PROVE  \A j, k \in 1 .. Len(Ins(s, n, e)) : j < k => f[Ins(s, n, e)[j]] <= f[Ins(s, n, e)[k]]
<1> DEFINE l == Ins(s, n, e)
<1>1. /\ Len(s) \in Nat /\ n \in Nat /\ n <= Len(s) /\ Len(l) = Len(s) + 1
      /\ \A k \in 1 .. n : l[k] = s[k]
      /\ l[n + 1] = e
      /\ \A k \in n + 1 .. Len(s) : l[k + 1] = s[k]
  BY InsIs
<1>2. \A k \in 1 .. Len(s) : s[k] \in Range(s)
  BY DEF Range
<1>3. \A k \in 1 .. Len(s) : f[s[k]] \in Nat
  BY <1>2
<1> HIDE DEF l
<1>4. \A k \in n + 2 .. Len(s) + 1 : l[k] = s[k - 1]
  <2>1. ASSUME NEW k \in n + 2 .. Len(s) + 1 PROVE l[k] = s[k - 1]
    <3>1. k - 1 \in n + 1 .. Len(s) /\ (k - 1) + 1 = k
      BY <1>1
    <3> QED BY <1>1, <3>1
  <2> QED BY <2>1
<1>5. \A k \in n + 1 .. Len(s) : f[e] <= f[s[k]]
  <2>1. ASSUME NEW k \in n + 1 .. Len(s) PROVE f[e] <= f[s[k]]
    <3>1. n + 1 \in 1 .. Len(s) /\ k \in 1 .. Len(s) /\ n < Len(s)
      BY <1>1
    <3>2. f[s[n + 1]] <= f[s[k]]
      <4>1. CASE k = n + 1
        BY <1>3, <3>1, <4>1
      <4>2. CASE n + 1 < k
        BY <3>1, <4>2
      <4> QED BY <1>1, <4>1, <4>2
    <3>3. f[e] <= f[s[n + 1]] /\ f[s[n + 1]] \in Nat /\ f[s[k]] \in Nat
      BY <1>3, <3>1
    <3> QED BY <3>2, <3>3
  <2> QED BY <2>1
<1> SUFFICES ASSUME NEW j \in 1 .. Len(l), NEW k \in 1 .. Len(l), j < k PROVE f[l[j]] <= f[l[k]]
  BY DEF l
<1>6. CASE k <= n
  BY <1>1, <1>6
<1>7. CASE k = n + 1
  BY <1>1, <1>7
<1>8. CASE k > n + 1 /\ j = n + 1
  <2>1. k \in n + 2 .. Len(s) + 1 /\ k - 1 \in n + 1 .. Len(s)
    BY <1>1, <1>8
  <2> QED BY <1>1, <1>4, <1>5, <1>8, <2>1
<1>9. CASE k > n + 1 /\ j > n + 1
  <2>1. /\ k \in n + 2 .. Len(s) + 1 /\ j \in n + 2 .. Len(s) + 1
        /\ k - 1 \in 1 .. Len(s) /\ j - 1 \in 1 .. Len(s) /\ j - 1 < k - 1
    BY <1>1, <1>9
  <2> QED BY <1>4, <2>1
<1>10. CASE k > n + 1 /\ j <= n
  <2>1. k \in n + 2 .. Len(s) + 1 /\ k - 1 \in 1 .. Len(s) /\ j \in 1 .. Len(s) /\ j < k - 1 /\ j \in 1 .. n
    BY <1>1, <1>10
  <2> QED BY <1>1, <1>4, <2>1
<1> QED BY <1>1, <1>6, <1>7, <1>8, <1>9, <1>10

(* A block less does not disturb the order.                                 *)
LEMMA DelSorted ==
  ASSUME NEW s \in Seq(Places), NEW n \in 1 .. Len(s), NEW f,
         \A j, k \in 1 .. Len(s) : j < k => f[s[j]] <= f[s[k]]
  PROVE  \A j, k \in 1 .. Len(Del(s, n)) : j < k => f[Del(s, n)[j]] <= f[Del(s, n)[k]]
<1> DEFINE l == Del(s, n)
<1>1. /\ Len(s) \in Nat /\ n \in Nat /\ n <= Len(s) /\ 1 <= n /\ Len(l) = Len(s) - 1
      /\ \A k \in 1 .. n - 1 : l[k] = s[k]
      /\ \A k \in n .. Len(s) - 1 : l[k] = s[k + 1]
  BY DelIs
<1> HIDE DEF l
<1> SUFFICES ASSUME NEW j \in 1 .. Len(l), NEW k \in 1 .. Len(l), j < k PROVE f[l[j]] <= f[l[k]]
  BY DEF l
<1>2. CASE k < n
  BY <1>1, <1>2
<1>3. CASE j < n /\ n <= k
  <2>1. j \in 1 .. n - 1 /\ k \in n .. Len(s) - 1 /\ k + 1 \in 1 .. Len(s) /\ j \in 1 .. Len(s) /\ j < k + 1
    BY <1>1, <1>3
  <2> QED BY <1>1, <2>1
<1>4. CASE n <= j
  <2>1. /\ j \in n .. Len(s) - 1 /\ k \in n .. Len(s) - 1 /\ k + 1 \in 1 .. Len(s) /\ j + 1 \in 1 .. Len(s)
        /\ j + 1 < k + 1
    BY <1>1, <1>4
  <2> QED BY <1>1, <2>1
<1> QED BY <1>1, <1>2, <1>3, <1>4

(* The sizes of cached blocks.                                              *)
LEMMA InList ==
  ASSUME NEW lst, NEW role, NEW own, Known(lst, role, own), NEW t \in Threads, NEW i \in Bins,
         NEW p \in Range(lst[t][i])
  PROVE  /\ p \in Places /\ role[p] = "bin" /\ own[p] = t /\ TcIndex[out[p]] = i /\ p \in DOMAIN out
         /\ out[p] \in Sizes /\ out[p] \in Nat /\ out[p] < MaxBytes /\ p \in key
<1>1. lst[t][i] \in Seq(Places)
  BY DEF Known, Held, Lists, IsList
<1>2. p \in Places
  BY <1>1, RangeIs
<1>3. role[p] = "bin" /\ own[p] = t /\ TcIndex[out[p]] = i
  BY <1>2 DEF Known, Held, Members, InBin
<1>4. p \in DOMAIN out /\ out[p] < MaxBytes /\ p \in key
  BY <1>2, <1>3 DEF Known, Held, Holders, Holder
<1>5. out[p] \in Sizes
  BY <1>4 DEF Known, TypeOK
<1> QED BY <1>2, <1>3, <1>4, <1>5, Constants

(* Where a block of size b goes into list s: behind smaller ones only.      *)
LEMMA PutPlace ==
  ASSUME NEW lst, NEW role, NEW own, Known(lst, role, own), NEW t \in Threads, pc[t] # "shutdown",
         NEW i \in Bins, NEW b \in Nat
  PROVE  \E n \in 0 .. Len(lst[t][i]) :
           /\ (IF i \in SmallBins THEN NULL ELSE LocationLarge(View(t), i, b)) = At(lst[t][i], n)
           /\ i \notin SmallBins => /\ \A k \in 1 .. n : out[lst[t][i][k]] <= b
                                    /\ n < Len(lst[t][i]) => b <= out[lst[t][i][n + 1]]
<1> DEFINE s == lst[t][i]
<1>1. s \in Seq(Places) /\ List(View(t), i) = s
  BY Lookup
<1>2. \A k \in 1 .. Len(s) : out[s[k]] \in Nat
  <2>1. \A k \in 1 .. Len(s) : s[k] \in Range(s)
    BY DEF Range
  <2> QED BY <2>1, InList
<1> HIDE DEF s
<1>3. CASE i \in SmallBins
  <2>1. 0 \in 0 .. Len(s) /\ At(s, 0) = NULL
    BY <1>1 DEF At
  <2> QED BY <1>3, <2>1 DEF s
<1>4. CASE i \notin SmallBins
  <2> DEFINE w == View(t)
  <2>1. List(w, i) = s
    BY <1>1
  <2> HIDE DEF w
  <2>2. PICK n \in 0 .. Len(s) : /\ LocationLarge(w, i, b) = At(s, n)
                                 /\ \A k \in 1 .. n : out[s[k]] < b
                                 /\ n < Len(s) => ~ (out[s[n + 1]] < b)
    BY <1>1, <2>1, LocationIs
  <2>3. Len(s) \in Nat /\ n \in Nat
    BY <1>1
  <2>4. \A k \in 1 .. n : out[s[k]] <= b
    BY <1>2, <2>2, <2>3
  <2>5. n < Len(s) => b <= out[s[n + 1]]
    <3>1. n < Len(s) => out[s[n + 1]] \in Nat
      BY <1>2, <2>3
    <3> QED BY <2>2, <3>1
  <2> QED BY <1>4, <2>2, <2>4, <2>5 DEF s, w
<1> QED BY <1>3, <1>4

(* free puts the block in the cache.                                        *)
LEMMA CachePutStep ==
  ASSUME NEW lst, NEW role, NEW own, Known(lst, role, own), NEW t \in Threads, CachePut(t)
  PROVE  CacheInv'
<1>0. SUFFICES ASSUME NEW p, p = op[t].mem, NEW b, b = out[p], NEW i, i = TcIndex[b], NEW s, s = lst[t][i],
                      NEW c, c = cache[t], NEW w, w = Put(View(t), p)
               PROVE  CacheInv'
  OBVIOUS
<1>1. /\ pc[t] = "free" /\ Finish(t) /\ b < MaxBytes /\ c.slots[i] # 0
      /\ cache' = [cache EXCEPT ![t] = w.c] /\ next' = w.next /\ key' = w.key
      /\ UNCHANGED <<out, live>>
  BY <1>0 DEF CachePut, Cacheable, HasSlot, Commit
<1>2. TypeOK /\ (\A u \in Threads : Phase(u)) /\ Holders(role, own) /\ Slots(lst) /\ Sorted(lst)
      /\ Members(lst, role, own)
  BY DEF Known, Held
<1>3. op[t].kind = "free" /\ pc[t] # "shutdown"
  BY <1>1, <1>2 DEF Phase
<1>4. /\ p \in Places /\ role[p] = "freed" /\ own[p] = t /\ p \in DOMAIN out /\ p \notin DOMAIN live
      /\ BeingFreed(t) = {p} /\ (\A u \in Threads : p \notin StructOf(u))
      /\ \A u \in Threads \ {t} : p \notin BeingFreed(u)
  BY <1>0, <1>3, FreedIs
<1>5. b \in Sizes /\ b \in Nat /\ i \in Bins
  <2>1. b \in Sizes
    BY <1>0, <1>2, <1>4 DEF TypeOK
  <2> QED BY <1>0, <1>1, <2>1, Constants
<1>6. c \in CacheRecords /\ c.slots \in [Bins -> Nat] /\ c.heads \in [Bins -> Places \cup {NULL}]
      /\ DOMAIN next = Places
  BY <1>0, <1>2 DEF TypeOK, CacheRecords
<1>7. Enabled(t) /\ c.at \in Places
  BY <1>0, <1>1, <1>2, <1>5 DEF Phase
<1>8. IsList(next, c.heads[i], s) /\ s \in Seq(Places)
  BY <1>0, <1>3, <1>5, Lookup
<1>9. p \notin Range(s)
  BY <1>0, <1>4, <1>5, InList
<1>10. PICK n \in 0 .. Len(s) :
         /\ (IF i \in SmallBins THEN NULL ELSE LocationLarge(View(t), i, b)) = At(s, n)
         /\ i \notin SmallBins => /\ \A k \in 1 .. n : out[s[k]] <= b
                                  /\ n < Len(s) => b <= out[s[n + 1]]
  BY <1>0, <1>3, <1>5, PutPlace
<1>11. w = tcache_put_n(Fields(c.state, c.at, c.slots, c.heads, next, key), p, i, At(s, n))
  BY <1>0, <1>6, <1>10, ViewFields DEF Put
<1>12. Inserted(w, c.state, c.at, c.slots, c.heads, next, key, i, s, n, p)
  BY <1>4, <1>5, <1>6, <1>8, <1>9, <1>11, PutList
<1>13. PICK hd2, nx2 :
         /\ hd2 \in [Bins -> Places \cup {NULL}]
         /\ w = Fields(c.state, c.at, Upd(c.slots, i, c.slots[i] - 1), hd2, nx2, key \cup {p})
         /\ IsList(nx2, hd2[i], Ins(s, n, p)) /\ \A j \in Bins \ {i} : hd2[j] = c.heads[j]
         /\ DOMAIN nx2 = Places /\ \A q \in Places \ {p} : q \notin Range(s) => nx2[q] = next[q]
  BY <1>12 DEF Inserted
<1> DEFINE l == Ins(s, n, p)
           sl == Upd(c.slots, i, c.slots[i] - 1)
<1>14. sl \in [Bins -> Nat] /\ sl[i] = c.slots[i] - 1 /\ \A j \in Bins \ {i} : sl[j] = c.slots[j]
  <2>1. c.slots[i] \in Nat /\ c.slots[i] # 0
    BY <1>1, <1>5, <1>6
  <2> QED BY <1>5, <1>6, <2>1 DEF Upd
<1>15. /\ cache' \in [Threads -> CacheRecords] /\ cache'[t].state = "live" /\ cache'[t].at = c.at
       /\ cache'[t].slots = sl /\ cache'[t].heads = hd2 /\ \A u \in Threads \ {t} : cache'[u] = cache[u]
       /\ next' = nx2 /\ key' = key \cup {p}
  <2>1. c.state = "live"
    BY <1>0, <1>7 DEF Enabled
  <2> HIDE DEF sl
  <2>2. w.c = [state |-> "live", at |-> c.at, slots |-> sl, heads |-> hd2] /\ w.next = nx2
        /\ w.key = key \cup {p}
    BY <1>13, <2>1 DEF Fields, sl
  <2>3. w.c \in CacheRecords
    <3>1. hd2 \in [Bins -> Places \cup {NULL}]
      BY <1>13
    <3> QED BY <1>7, <1>14, <2>2, <3>1 DEF CacheRecords
  <2> QED BY <1>1, <1>2, <2>2, <2>3 DEF TypeOK
<1>16. /\ Len(l) = Len(s) + 1 /\ Range(l) = Range(s) \cup {p} /\ Len(s) \in Nat /\ l \in Seq(Places)
  <2>1. Len(s) \in Nat
    BY <1>8
  <2>2. Len(l) = Len(s) + 1
    BY <1>4, <1>8, InsIs
  <2>3. Range(l) = Range(s) \cup {p}
    BY <1>4, <1>8, InsIs
  <2>4. l \in Seq(Places)
    BY <1>4, <1>8, InsIs
  <2> QED BY <2>1, <2>2, <2>3, <2>4
<1>17. i \notin SmallBins => \A j, k \in 1 .. Len(l) : j < k => out[l[j]] <= out[l[k]]
  <2>1. SUFFICES ASSUME i \notin SmallBins PROVE \A j, k \in 1 .. Len(l) : j < k => out[l[j]] <= out[l[k]]
    OBVIOUS
  <2>2. \A q \in Range(s) : out[q] \in Nat
    BY <1>0, <1>5, InList
  <2>3. \A j, k \in 1 .. Len(s) : j < k => out[s[j]] <= out[s[k]]
    <3>1. \A j, k \in 1 .. Len(lst[t][i]) : j < k => out[lst[t][i][j]] <= out[lst[t][i][k]]
      BY <1>2, <1>5, <2>1 DEF Sorted
    <3>2. s = lst[t][i]
      BY <1>0
    <3> QED BY <3>1, <3>2
  <2>4. /\ \A k \in 1 .. n : out[s[k]] <= out[p]
        /\ n < Len(s) => out[p] <= out[s[n + 1]]
        /\ out[p] \in Nat
    BY <1>0, <1>5, <1>10, <2>1
  <2>5. \A j, k \in 1 .. Len(Ins(s, n, p)) : j < k => out[Ins(s, n, p)[j]] <= out[Ins(s, n, p)[k]]
    BY <1>4, <1>8, <2>2, <2>3, <2>4, InsSorted
  <2> QED BY <2>5 DEF l
<1> HIDE DEF l, sl
<1>18. /\ pc'[t] = "idle" /\ op'[t].kind = "none"
       /\ pc' \in [Threads -> {"idle", "arena", "free", "shutdown"}] /\ op' \in [Threads -> OpRecords]
       /\ \A u \in Threads \ {t} : pc'[u] = pc[u] /\ op'[u] = op[u]
  BY <1>1, <1>2, FinishIs
<1>19. TypeOK'
  BY <1>1, <1>2, <1>4, <1>13, <1>15, <1>18 DEF TypeOK
<1>20. \A u \in Threads : u # t => Idles(u)
  BY <1>15, <1>18 DEF Idles
<1>21. Enabled(t)'
  BY <1>15 DEF Enabled
<1>22. Phase(t)'
  BY <1>7, <1>15, <1>18, <1>21 DEF Phase
<1>23. \A u \in Threads : Phase(u)'
  BY <1>2, <1>20, <1>22, IdlePhase
<1>24. /\ StructOf(t)' = StructOf(t) /\ BeingFreed(t)' = {}
       /\ HeadOf(t, i)' = hd2[i] /\ \A j \in Bins \ {i} : HeadOf(t, j)' = HeadOf(t, j)
  <2>1. StructOf(t)' = StructOf(t)
    BY <1>0, <1>7, <1>15, <1>21 DEF StructOf
  <2>2. BeingFreed(t)' = {}
    BY <1>18 DEF BeingFreed
  <2>3. \A j \in Bins : HeadOf(t, j)' = hd2[j] /\ HeadOf(t, j) = c.heads[j]
    BY <1>0, <1>3, <1>15, <1>18 DEF HeadOf
  <2>4. HeadOf(t, i)' = hd2[i]
    BY <1>5, <2>3
  <2>5. ASSUME NEW j \in Bins \ {i} PROVE HeadOf(t, j)' = HeadOf(t, j)
    BY <1>13, <2>3
  <2> QED BY <2>1, <2>2, <2>4, <2>5
<1>25. \A u \in Threads \ {t} : /\ StructOf(u)' = StructOf(u) /\ BeingFreed(u)' = BeingFreed(u)
                                /\ \A j \in Bins : HeadOf(u, j)' = HeadOf(u, j)
  BY <1>20, IdleHolds
<1> DEFINE role2 == Except(role, p, "bin")
<1>26. role2[p] = "bin" /\ \A q \in Places \ {p} : role2[q] = role[q]
  BY <1>4 DEF Except
<1> HIDE DEF role2
<1>27. OneBin(lst, role, own, t, i, l, role2, own, {p})
  <2>1. \A u \in Threads, j \in Bins : u # t \/ j # i => HeadOf(u, j)' = HeadOf(u, j)
    BY <1>24, <1>25
  <2>2. IsList(next', HeadOf(t, i)', l)
    BY <1>13, <1>15, <1>24 DEF l
  <2>3. TcIndex[out'[p]] = i
    BY <1>0, <1>1
  <2>4. \A q \in Places \ {p} : q \notin Range(lst[t][i]) => next'[q] = next[q]
    BY <1>0, <1>13, <1>15
  <2>5. Range(l) = Range(lst[t][i]) \cup {p}
    BY <1>0, <1>16
  <2> QED BY <1>1, <1>4, <1>17, <1>26, <2>1, <2>2, <2>3, <2>4, <2>5 DEF OneBin
<1>28. HeldAsBefore(role, own, role2, own, {p})
  <2>1. \A q \in Places : role[q] = "bin" => q \in key'
    BY <1>2, <1>15 DEF Holders, Holder
  <2> QED BY <1>1, <1>4, <1>24, <1>25, <1>26, <2>1 DEF HeldAsBefore
<1>29. Holder(role2, own, p)'
  <2>1. p \in key' /\ out'[p] < MaxBytes
    BY <1>0, <1>1, <1>15
  <2>2. \A u \in Threads : p \notin StructOf(u)' /\ p \notin BeingFreed(u)'
    BY <1>4, <1>24, <1>25
  <2>3. p \in DOMAIN out' /\ p \notin DOMAIN live' /\ own[p] \in Threads
    BY <1>1, <1>4
  <2> QED BY <1>26, <2>1, <2>2, <2>3 DEF Holder
<1>30. /\ cache'[t].slots[i] + Len(l) = Count
       /\ \A j \in Bins \ {i} : cache'[t].slots[j] + Len(lst[t][j]) = Count
  <2>1. \A j \in Bins : c.slots[j] + Len(lst[t][j]) = Count
    BY <1>0, <1>2, <1>7 DEF Slots
  <2>2. c.slots[i] + Len(s) = Count /\ c.slots[i] \in Nat
    BY <1>0, <1>5, <1>6, <2>1
  <2>3. cache'[t].slots[i] + Len(l) = Count
    <3>1. cache'[t].slots[i] = c.slots[i] - 1 /\ Len(l) = Len(s) + 1 /\ Len(s) \in Nat
      BY <1>14, <1>15, <1>16
    <3> DEFINE a == cache'[t].slots[i]
               d == c.slots[i]
               k == Len(l)
               r == Len(s)
    <3>2. a = d - 1 /\ k = r + 1 /\ r \in Nat /\ d \in Nat /\ d + r = Count
      BY <2>2, <3>1
    <3> HIDE DEF a, d, k, r
    <3>3. a + k = Count
      BY <3>2
    <3> QED BY <3>3 DEF a, k
  <2> QED BY <1>14, <1>15, <2>1, <2>3
<1>31. \A u \in Threads \ {t} : cache'[u] = cache[u]
  BY <1>15
<1>32. {p} \in SUBSET Places /\ \A q \in {p} : Holder(role2, own, q)'
  BY <1>4, <1>29
<1> QED BY <1>5, <1>19, <1>23, <1>27, <1>28, <1>30, <1>31, <1>32, BinStep

(* The n-th block's link leads to the block behind it, the head to the      *)
(* first.                                                                   *)
LEMMA ViewLinks ==
  ASSUME NEW t, NEW i, NEW s, IsList(next, cache[t].heads[i], s)
  PROVE  \A n \in 0 .. Len(s) : ReadLink(View(t), i, At(s, n)) = At(s, n + 1)
<1> DEFINE w == View(t)
<1>1. IsList(w.next, w.c.heads[i], s)
  BY DEF View
<1> HIDE DEF w
<1>2. \A n \in 0 .. Len(s) : ReadLink(w, i, At(s, n)) = At(s, n + 1)
  BY <1>1, ReadList
<1> QED BY <1>2 DEF w

(* Where a request for nb looks in the list s: behind the n blocks it passes. *)
Stops(kind, nb, s, n) ==
  /\ kind = "memalign" => /\ \A k \in 1 .. n : Passed(s[k], nb)
                          /\ n < Len(s) => ~ Passed(s[n + 1], nb)
  /\ kind # "memalign" /\ TcIndex[nb] \in SmallBins => n = 0
  /\ kind # "memalign" /\ TcIndex[nb] \notin SmallBins =>
        (\A k \in 1 .. n : out[s[k]] < nb) /\ (n < Len(s) => ~ (out[s[n + 1]] < nb))

(* The link a request looks at is that behind the n-th block of its list,   *)
(* for the n that Stops says, and leads to the block behind that.           *)
LEMMA LinkIs ==
  ASSUME NEW t, NEW kind, NEW nb, NEW s, IsList(next, cache[t].heads[TcIndex[nb]], s)
  PROVE  \E n \in 0 .. Len(s) :
           /\ LinkFor(View(t), kind, nb) = At(s, n) /\ Stops(kind, nb, s, n)
           /\ ReadLink(View(t), TcIndex[nb], LinkFor(View(t), kind, nb)) = At(s, n + 1)
<1> DEFINE i == TcIndex[nb]
           w == View(t)
<1>1. s \in Seq(Places) /\ Len(s) \in Nat
  BY DEF IsList
<1>2. List(w, i) = s
  <2>1. w.next = next /\ w.c.heads[i] = cache[t].heads[i]
    BY DEF View
  <2> QED BY <2>1, ChainIs DEF List
<1>3. \A n \in 0 .. Len(s) : ReadLink(w, i, At(s, n)) = At(s, n + 1)
  <2>1. IsList(next, cache[t].heads[i], s)
    OBVIOUS
  <2> HIDE DEF i
  <2> QED BY <2>1, ViewLinks
<1> HIDE DEF w
<1> SUFFICES \E n \in 0 .. Len(s) : LinkFor(w, kind, nb) = At(s, n) /\ Stops(kind, nb, s, n)
  BY <1>3 DEF w
<1>4. CASE kind = "memalign"
  <2>1. List(w, TcIndex[nb]) = s
    BY <1>2
  <2>2. PICK n \in 0 .. Len(s) : /\ AlignLink(w, nb) = At(s, n)
                                 /\ \A k \in 1 .. n : Passed(s[k], nb)
                                 /\ n < Len(s) => ~ Passed(s[n + 1], nb)
    BY <1>1, <2>1, AlignLinkIs
  <2>3. LinkFor(w, kind, nb) = At(s, n)
    BY <1>4, <2>2 DEF LinkFor
  <2>4. Stops(kind, nb, s, n)
    BY <1>4, <2>2 DEF Stops
  <2> QED BY <2>3, <2>4
<1>5. CASE kind # "memalign" /\ i \in SmallBins
  <2>1. 0 \in 0 .. Len(s) /\ At(s, 0) = NULL
    BY <1>1 DEF At
  <2>2. LinkFor(w, kind, nb) = At(s, 0)
    BY <1>5, <2>1 DEF LinkFor, MallocLink
  <2>3. Stops(kind, nb, s, 0)
    BY <1>5 DEF Stops
  <2> QED BY <2>1, <2>2, <2>3
<1>6. CASE kind # "memalign" /\ i \notin SmallBins
  <2>1. PICK n \in 0 .. Len(s) : /\ LocationLarge(w, i, nb) = At(s, n)
                                 /\ \A k \in 1 .. n : out[s[k]] < nb
                                 /\ n < Len(s) => ~ (out[s[n + 1]] < nb)
    BY <1>1, <1>2, LocationIs
  <2>2. LinkFor(w, kind, nb) = At(s, n)
    BY <1>6, <2>1 DEF LinkFor, MallocLink
  <2>3. Stops(kind, nb, s, n)
    BY <1>6, <2>1 DEF Stops
  <2> QED BY <2>2, <2>3
<1> QED BY <1>4, <1>5, <1>6

(* malloc or memalign is served from the cache.                             *)
LEMMA CacheHitStep ==
  ASSUME NEW lst, NEW role, NEW own, Known(lst, role, own), NEW t \in Threads,
         NEW kind \in {"malloc", "memalign"}, NEW nb \in Requests, CacheHit(t, kind, nb)
  PROVE  CacheInv'
<1>0. SUFFICES ASSUME NEW i, i = TcIndex[nb], NEW s, s = lst[t][i], NEW c, c = cache[t],
                      NEW w, w = tcache_get_n(View(t), i, LinkFor(View(t), kind, nb)),
                      NEW e, e = ReadLink(View(t), i, LinkFor(View(t), kind, nb))
               PROVE  CacheInv'
  OBVIOUS
<1>1. /\ pc[t] = "idle" /\ nb < MaxBytes /\ e # NULL /\ out[e] = nb /\ live' = Give(live, e, nb)
      /\ cache' = [cache EXCEPT ![t] = w.c] /\ next' = w.next /\ key' = w.key
      /\ UNCHANGED <<out, pc, op>>
  BY <1>0 DEF CacheHit, Found, Commit
<1>2. TypeOK /\ (\A u \in Threads : Phase(u)) /\ Holders(role, own) /\ Slots(lst) /\ Sorted(lst)
      /\ Members(lst, role, own)
  BY DEF Known, Held
<1>3. pc[t] # "shutdown" /\ i \in Bins /\ nb \in Nat
  BY <1>0, <1>1, Constants
<1>4. c \in CacheRecords /\ c.slots \in [Bins -> Nat] /\ c.heads \in [Bins -> Places \cup {NULL}]
      /\ DOMAIN next = Places
  BY <1>0, <1>2 DEF TypeOK, CacheRecords
<1>5. IsList(next, c.heads[i], s) /\ s \in Seq(Places) /\ Len(s) \in Nat /\ (~ Enabled(t) => s = <<>>)
  <2>1. IsList(next, c.heads[i], s) /\ s \in Seq(Places) /\ (~ Enabled(t) => s = <<>>)
    BY <1>0, <1>3, Lookup
  <2> QED BY <2>1
<1>6. PICK n \in 0 .. Len(s) : LinkFor(View(t), kind, nb) = At(s, n) /\ e = At(s, n + 1)
  <2>1. IsList(next, cache[t].heads[TcIndex[nb]], s)
    BY <1>0, <1>5
  <2>2. \E n \in 0 .. Len(s) :
          /\ LinkFor(View(t), kind, nb) = At(s, n)
          /\ ReadLink(View(t), TcIndex[nb], LinkFor(View(t), kind, nb)) = At(s, n + 1)
    BY <2>1, LinkIs
  <2> QED BY <1>0, <2>2
<1>7. n + 1 \in 1 .. Len(s) /\ n \in 0 .. Len(s) - 1 /\ e = s[n + 1] /\ e \in Range(s)
  <2>1. n + 1 \in 1 .. Len(s)
    BY <1>1, <1>6 DEF At
  <2>2. n \in 0 .. Len(s) - 1
    BY <1>5, <2>1
  <2> QED BY <1>6, <2>1, <2>2 DEF At, Range
<1>8. Enabled(t) /\ c.at \in Places
  <2>1. s # <<>>
    BY <1>5, <1>7
  <2> QED BY <1>0, <1>2, <1>5, <2>1 DEF Phase
<1>9. e \in Places /\ role[e] = "bin" /\ own[e] = t /\ e \in DOMAIN out
  BY <1>0, <1>3, <1>7, InList
<1>10. Holder(role, own, e)
  BY <1>2, <1>9 DEF Holders
<1>11. w = tcache_get_n(Fields(c.state, c.at, c.slots, c.heads, next, key), i, At(s, n))
  BY <1>0, <1>4, <1>6, ViewFields
<1>12. Removed(w, c.state, c.at, c.slots, c.heads, next, key, i, s, n + 1)
  BY <1>3, <1>4, <1>5, <1>7, <1>11, GetList
<1>13. PICK hd2, nx2 :
         /\ hd2 \in [Bins -> Places \cup {NULL}]
         /\ w = Fields(c.state, c.at, Upd(c.slots, i, c.slots[i] + 1), hd2, nx2, key \ {e})
         /\ IsList(nx2, hd2[i], Del(s, n + 1)) /\ \A j \in Bins \ {i} : hd2[j] = c.heads[j]
         /\ DOMAIN nx2 = Places /\ \A q \in Places : q \notin Range(s) => nx2[q] = next[q]
  BY <1>7, <1>12 DEF Removed
<1> DEFINE l == Del(s, n + 1)
           sl == Upd(c.slots, i, c.slots[i] + 1)
<1>14. sl \in [Bins -> Nat] /\ sl[i] = c.slots[i] + 1 /\ \A j \in Bins \ {i} : sl[j] = c.slots[j]
  <2>1. c.slots[i] \in Nat
    BY <1>3, <1>4
  <2> QED BY <1>3, <1>4, <2>1 DEF Upd
<1>15. /\ cache' \in [Threads -> CacheRecords] /\ cache'[t].state = "live" /\ cache'[t].at = c.at
       /\ cache'[t].slots = sl /\ cache'[t].heads = hd2 /\ \A u \in Threads \ {t} : cache'[u] = cache[u]
       /\ next' = nx2 /\ key' = key \ {e}
  <2>1. c.state = "live"
    BY <1>0, <1>8 DEF Enabled
  <2> HIDE DEF sl
  <2>2. w.c = [state |-> "live", at |-> c.at, slots |-> sl, heads |-> hd2] /\ w.next = nx2
        /\ w.key = key \ {e}
    BY <1>13, <2>1 DEF Fields, sl
  <2>3. w.c \in CacheRecords
    <3>1. hd2 \in [Bins -> Places \cup {NULL}]
      BY <1>13
    <3> QED BY <1>8, <1>14, <2>2, <3>1 DEF CacheRecords
  <2> QED BY <1>1, <1>2, <2>2, <2>3 DEF TypeOK
<1>16. Len(l) = Len(s) - 1 /\ l \in Seq(Places) /\ Range(s) = Range(l) \cup {e} /\ e \notin Range(l)
  <2>1. \A j, k \in 1 .. Len(s) : s[j] = s[k] => j = k
    BY <1>5 DEF IsList
  <2>2. Len(l) = Len(s) - 1
    BY <1>5, <1>7, DelIs
  <2>3. l \in Seq(Places)
    BY <1>5, <1>7, DelIs
  <2>4. Range(s) = Range(l) \cup {s[n + 1]}
    BY <1>5, <1>7, DelIs
  <2>5. s[n + 1] \notin Range(l)
    BY <1>5, <1>7, <2>1, DelIs
  <2> QED BY <1>7, <2>2, <2>3, <2>4, <2>5
<1>17. i \notin SmallBins => \A j, k \in 1 .. Len(l) : j < k => out[l[j]] <= out[l[k]]
  <2>1. SUFFICES ASSUME i \notin SmallBins PROVE \A j, k \in 1 .. Len(l) : j < k => out[l[j]] <= out[l[k]]
    OBVIOUS
  <2>2. \A j, k \in 1 .. Len(s) : j < k => out[s[j]] <= out[s[k]]
    <3>1. \A j, k \in 1 .. Len(lst[t][i]) : j < k => out[lst[t][i][j]] <= out[lst[t][i][k]]
      BY <1>2, <1>3, <2>1 DEF Sorted
    <3>2. s = lst[t][i]
      BY <1>0
    <3> QED BY <3>1, <3>2
  <2> QED BY <1>5, <1>7, <2>2, DelSorted
<1> HIDE DEF l, sl
<1>18. DOMAIN live' = DOMAIN live \cup {e}
  BY <1>1 DEF Give
<1>19. TypeOK'
  BY <1>1, <1>2, <1>9, <1>13, <1>15, <1>18 DEF TypeOK
<1>20. \A u \in Threads : u # t => Idles(u)
  BY <1>1, <1>15 DEF Idles
<1>21. Enabled(t)'
  BY <1>15 DEF Enabled
<1>22. Phase(t)'
  BY <1>1, <1>2, <1>8, <1>15, <1>21 DEF Phase
<1>23. \A u \in Threads : Phase(u)'
  BY <1>2, <1>20, <1>22, IdlePhase
<1>24. /\ StructOf(t)' = StructOf(t) /\ BeingFreed(t)' = BeingFreed(t)
       /\ HeadOf(t, i)' = hd2[i] /\ \A j \in Bins \ {i} : HeadOf(t, j)' = HeadOf(t, j)
  <2>1. StructOf(t)' = StructOf(t)
    BY <1>0, <1>8, <1>15, <1>21 DEF StructOf
  <2>2. BeingFreed(t)' = BeingFreed(t)
    BY <1>1 DEF BeingFreed
  <2>3. \A j \in Bins : HeadOf(t, j)' = hd2[j] /\ HeadOf(t, j) = c.heads[j]
    BY <1>0, <1>1, <1>15 DEF HeadOf
  <2>4. HeadOf(t, i)' = hd2[i]
    BY <1>3, <2>3
  <2>5. ASSUME NEW j \in Bins \ {i} PROVE HeadOf(t, j)' = HeadOf(t, j)
    BY <1>13, <2>3
  <2> QED BY <2>1, <2>2, <2>4, <2>5
<1>25. \A u \in Threads : /\ StructOf(u)' = StructOf(u) /\ BeingFreed(u)' = BeingFreed(u)
                          /\ u # t => \A j \in Bins : HeadOf(u, j)' = HeadOf(u, j)
  BY <1>20, <1>24, IdleHolds
<1> DEFINE role2 == Except(role, e, "live")
<1>26. role2[e] = "live" /\ \A q \in Places \ {e} : role2[q] = role[q]
  BY <1>9 DEF Except
<1> HIDE DEF role2
<1>27. OneBin(lst, role, own, t, i, l, role2, own, {e})
  <2>1. \A u \in Threads, j \in Bins : u # t \/ j # i => HeadOf(u, j)' = HeadOf(u, j)
    BY <1>24, <1>25
  <2>2. IsList(next', HeadOf(t, i)', l)
    BY <1>13, <1>15, <1>24 DEF l
  <2>3. TcIndex[out[e]] = i
    BY <1>0, <1>1
  <2>4. \A q \in Places : q \notin Range(lst[t][i]) => next'[q] = next[q]
    BY <1>0, <1>13, <1>15
  <2>5. Range(lst[t][i]) = Range(l) \cup {e}
    BY <1>0, <1>16
  <2> QED BY <1>1, <1>9, <1>16, <1>17, <1>26, <2>1, <2>2, <2>3, <2>4, <2>5 DEF OneBin
<1>28. HeldAsBefore(role, own, role2, own, {e})
  <2>1. \A q \in Places \ {e} : role[q] = "bin" => q \in key'
    BY <1>2, <1>15 DEF Holders, Holder
  <2> QED BY <1>1, <1>18, <1>25, <1>26, <2>1 DEF HeldAsBefore
<1>29. Holder(role2, own, e)'
  <2>1. \A u \in Threads : e \notin StructOf(u) /\ e \notin BeingFreed(u)
    BY <1>9, <1>10 DEF Holder
  <2>2. \A u \in Threads : e \notin StructOf(u)' /\ e \notin BeingFreed(u)'
    BY <1>25, <2>1
  <2>3. e \in DOMAIN out' /\ e \in DOMAIN live'
    BY <1>1, <1>9, <1>18
  <2> QED BY <1>26, <2>2, <2>3 DEF Holder
<1>30. /\ cache'[t].slots[i] + Len(l) = Count
       /\ \A j \in Bins \ {i} : cache'[t].slots[j] + Len(lst[t][j]) = Count
  <2>1. \A j \in Bins : c.slots[j] + Len(lst[t][j]) = Count
    BY <1>0, <1>2, <1>8 DEF Slots
  <2>2. c.slots[i] + Len(s) = Count /\ c.slots[i] \in Nat
    BY <1>0, <1>3, <1>4, <2>1
  <2>3. cache'[t].slots[i] + Len(l) = Count
    BY <1>5, <1>14, <1>15, <1>16, <2>2, Constants
  <2> QED BY <1>14, <1>15, <2>1, <2>3
<1>31. \A u \in Threads \ {t} : cache'[u] = cache[u]
  BY <1>15
<1>32. {e} \in SUBSET Places /\ \A q \in {e} : Holder(role2, own, q)'
  BY <1>9, <1>29
<1> QED BY <1>3, <1>19, <1>23, <1>27, <1>28, <1>30, <1>31, <1>32, BinStep

(* A thread that shuts its cache down frees the first block of a list.      *)
OpNext(o, i, e) == [o EXCEPT !.tmp[i] = e]

(* What ShutdownEntry makes of op.                                          *)
LEMMA OpNextIs ==
  ASSUME NEW o \in OpRecords, NEW i \in Bins, NEW e \in Places \cup {NULL}
  PROVE  /\ OpNext(o, i, e) \in OpRecords /\ OpNext(o, i, e).kind = o.kind /\ OpNext(o, i, e).mem = o.mem
         /\ OpNext(o, i, e).tmp[i] = e /\ \A j \in Bins \ {i} : OpNext(o, i, e).tmp[j] = o.tmp[j]
BY DEF OpNext, OpRecords

(* tcache_thread_shutdown takes the first block of a list: the place is the *)
(* arena's again, the rest of the list is still the thread's.               *)
LEMMA ShutdownEntryStep ==
  ASSUME NEW lst, NEW role, NEW own, Known(lst, role, own), NEW t \in Threads, ShutdownEntry(t)
  PROVE  CacheInv'
<1>1. PICK i, e, e2 :
        /\ i \in Bins /\ pc[t] = "shutdown" /\ e = op[t].tmp[i] /\ e # NULL /\ e2 = Reveal(next, e)
        /\ op' = [op EXCEPT ![t] = OpNext(op[t], i, e2)] /\ key' = key \ {e} /\ out' = Drop(out, e)
        /\ next' = [next EXCEPT ![e] = UserData] /\ UNCHANGED <<cache, live, pc>>
  BY DEF ShutdownEntry, OpNext
<1>2. TypeOK /\ (\A u \in Threads : Phase(u)) /\ Holders(role, own) /\ Slots(lst) /\ Sorted(lst)
      /\ Members(lst, role, own)
  BY DEF Known, Held
<1>3. op[t].kind = "shutdown" /\ ~ Enabled(t) /\ op[t].mem \in Places
  BY <1>1, <1>2 DEF Phase
<1>4. PICK s : s = lst[t][i]
  OBVIOUS
<1>5. IsList(next, e, s)
  BY <1>1, <1>4 DEF Known, Held, Lists, HeadOf
<1>6. /\ s \in Seq(Places) /\ Len(s) \in Nat /\ e = At(s, 1) /\ (\A j, k \in 1 .. Len(s) : s[j] = s[k] => j = k)
      /\ \A k \in 1 .. Len(s) : next[s[k]] = Protect(s[k], At(s, k + 1))
  BY <1>5 DEF IsList
<1>7. 1 \in 1 .. Len(s) /\ e = s[1] /\ e \in Range(s)
  BY <1>1, <1>6 DEF At, Range
<1>8. e2 = At(s, 2) /\ e2 \in Places \cup {NULL}
  <2>1. next[s[1]] = Protect(s[1], At(s, 1 + 1)) /\ 1 + 1 = 2
    BY <1>6, <1>7
  <2>2. e2 = At(s, 2)
    BY <1>1, <1>7, <2>1, RevealProtect
  <2>3. At(s, 2) \in Places \cup {NULL}
    BY <1>6 DEF At
  <2> QED BY <2>2, <2>3
<1>9. e \in Places /\ role[e] = "bin" /\ own[e] = t /\ e \in DOMAIN out /\ TcIndex[out[e]] = i
  BY <1>1, <1>4, <1>7, InList
<1>10. Holder(role, own, e)
  BY <1>2, <1>9 DEF Holders
<1> DEFINE l == Del(s, 1)
<1>11. Len(l) = Len(s) - 1 /\ l \in Seq(Places) /\ Range(s) = Range(l) \cup {e} /\ e \notin Range(l)
  <2>1. Len(l) = Len(s) - 1
    BY <1>6, <1>7, DelIs
  <2>2. l \in Seq(Places)
    BY <1>6, <1>7, DelIs
  <2>3. Range(s) = Range(l) \cup {s[1]}
    BY <1>6, <1>7, DelIs
  <2>4. s[1] \notin Range(l)
    BY <1>6, <1>7, DelIs
  <2> QED BY <1>7, <2>1, <2>2, <2>3, <2>4
<1>12. DOMAIN next' = Places /\ \A q \in Places \ {e} : next'[q] = next[q]
  BY <1>1, <1>2 DEF TypeOK
<1>13. IsList(next', e2, l)
  <2> DEFINE h == IF 1 = 1 THEN At(s, 2) ELSE e
  <2>1. \A p \in Range(s) \ {s[1]} : next'[p] = next[p]
    <3>1. Range(s) \subseteq Places
      BY <1>6, RangeIs
    <3> QED BY <1>7, <1>12, <3>1
  <2>2. DOMAIN next = Places
    BY <1>2 DEF TypeOK
  <2>3. IsList(next', h, l)
    BY <1>5, <1>7, <2>1, <2>2, DelList
  <2> QED BY <1>8, <2>3
<1>14. /\ DOMAIN out' = DOMAIN out \ {e} /\ \A q \in DOMAIN out \ {e} : out'[q] = out[q]
  BY <1>1 DEF Drop
<1>15. i \notin SmallBins => \A j, k \in 1 .. Len(l) : j < k => out'[l[j]] <= out'[l[k]]
  <2> SUFFICES ASSUME i \notin SmallBins, NEW j \in 1 .. Len(l), NEW k \in 1 .. Len(l), j < k
               PROVE  out'[l[j]] <= out'[l[k]]
    OBVIOUS
  <2>1. \A a, b \in 1 .. Len(s) : a < b => out[s[a]] <= out[s[b]]
    <3>1. \A a, b \in 1 .. Len(lst[t][i]) : a < b => out[lst[t][i][a]] <= out[lst[t][i][b]]
      BY <1>1, <1>2 DEF Sorted
    <3> QED BY <1>4, <3>1
  <2>2. \A a, b \in 1 .. Len(l) : a < b => out[l[a]] <= out[l[b]]
    BY <1>6, <1>7, <2>1, DelSorted
  <2>3. \A q \in Range(l) : out'[q] = out[q]
    <3>1. \A q \in Range(l) : q \in DOMAIN out
      BY <1>1, <1>4, <1>11, InList
    <3> QED BY <1>11, <1>14, <3>1
  <2>4. l[j] \in Range(l) /\ l[k] \in Range(l)
    BY <1>11, RangeIs
  <2> QED BY <2>2, <2>3, <2>4
<1> HIDE DEF l
<1>16. /\ op' \in [Threads -> OpRecords] /\ op'[t].kind = op[t].kind /\ op'[t].mem = op[t].mem
       /\ op'[t].tmp[i] = e2 /\ (\A j \in Bins \ {i} : op'[t].tmp[j] = op[t].tmp[j])
       /\ \A u \in Threads \ {t} : op'[u] = op[u]
  <2> DEFINE o == OpNext(op[t], i, e2)
  <2>1. /\ o \in OpRecords /\ o.kind = op[t].kind /\ o.mem = op[t].mem
        /\ o.tmp[i] = e2 /\ \A j \in Bins \ {i} : o.tmp[j] = op[t].tmp[j]
    <3>1. op[t] \in OpRecords
      BY <1>2 DEF TypeOK
    <3> QED BY <1>1, <1>8, <3>1, OpNextIs
  <2>2. op' = [op EXCEPT ![t] = o]
    BY <1>1
  <2> HIDE DEF o
  <2> QED BY <1>2, <2>1, <2>2 DEF TypeOK
<1>17. TypeOK'
  BY <1>1, <1>2, <1>12, <1>14, <1>16 DEF TypeOK
<1>18. \A u \in Threads : u # t => Idles(u)
  BY <1>1, <1>16 DEF Idles
<1>19. Phase(t)'
  BY <1>1, <1>2, <1>3, <1>16 DEF Phase, Enabled
<1>20. \A u \in Threads : Phase(u)'
  BY <1>2, <1>18, <1>19, IdlePhase
<1>21. /\ StructOf(t)' = StructOf(t) /\ BeingFreed(t)' = BeingFreed(t)
       /\ HeadOf(t, i)' = e2 /\ \A j \in Bins \ {i} : HeadOf(t, j)' = HeadOf(t, j)
  <2>1. StructOf(t)' = StructOf(t)
    BY <1>1, <1>16 DEF StructOf, Enabled
  <2>2. BeingFreed(t)' = BeingFreed(t)
    BY <1>16 DEF BeingFreed
  <2>3. \A j \in Bins : HeadOf(t, j)' = op'[t].tmp[j] /\ HeadOf(t, j) = op[t].tmp[j]
    BY <1>1 DEF HeadOf
  <2>4. HeadOf(t, i)' = e2
    BY <1>1, <1>16, <2>3
  <2>5. ASSUME NEW j \in Bins \ {i} PROVE HeadOf(t, j)' = HeadOf(t, j)
    BY <1>16, <2>3
  <2> QED BY <2>1, <2>2, <2>4, <2>5
<1>22. \A u \in Threads : /\ StructOf(u)' = StructOf(u) /\ BeingFreed(u)' = BeingFreed(u)
                          /\ u # t => \A j \in Bins : HeadOf(u, j)' = HeadOf(u, j)
  BY <1>18, <1>21, IdleHolds
<1> DEFINE role2 == Except(role, e, "none")
<1>23. role2[e] = "none" /\ \A q \in Places \ {e} : role2[q] = role[q]
  BY <1>9 DEF Except
<1> HIDE DEF role2
<1>24. OneBin(lst, role, own, t, i, l, role2, own, {e})
  <2>1. \A u \in Threads, j \in Bins : u # t \/ j # i => HeadOf(u, j)' = HeadOf(u, j)
    BY <1>21, <1>22
  <2>2. IsList(next', HeadOf(t, i)', l)
    BY <1>13, <1>21
  <2>3. Range(lst[t][i]) = Range(l) \cup {e}
    BY <1>4, <1>11
  <2> QED BY <1>9, <1>11, <1>12, <1>14, <1>15, <1>23, <2>1, <2>2, <2>3 DEF OneBin
<1>25. HeldAsBefore(role, own, role2, own, {e})
  <2>1. \A q \in Places \ {e} : role[q] = "bin" => q \in key' /\ q \in DOMAIN out
    BY <1>1, <1>2 DEF Holders, Holder
  <2> QED BY <1>1, <1>14, <1>22, <1>23, <2>1 DEF HeldAsBefore
<1>26. Holder(role2, own, e)'
  <2>1. e \notin DOMAIN live /\ \A u \in Threads : e \notin StructOf(u) /\ e \notin BeingFreed(u)
    BY <1>9, <1>10 DEF Holder
  <2>2. \A u \in Threads : e \notin StructOf(u)' /\ e \notin BeingFreed(u)'
    BY <1>22, <2>1
  <2>3. e \notin DOMAIN out' /\ e \notin DOMAIN live'
    BY <1>1, <1>14, <2>1
  <2> QED BY <1>23, <2>2, <2>3 DEF Holder
<1>27. ~ Enabled(t)' /\ \A u \in Threads \ {t} : cache'[u] = cache[u]
  BY <1>1, <1>3 DEF Enabled
<1>28. {e} \in SUBSET Places /\ \A q \in {e} : Holder(role2, own, q)'
  BY <1>9, <1>26
<1> QED BY <1>1, <1>17, <1>20, <1>24, <1>25, <1>27, <1>28, BinStep

----------------------------------------------------------------------------
(* Stashing: an arena fills the cache while it serves a request.            *)

(* A sequence of some of the places of S, each once.                        *)
LEMMA Permutation ==
  ASSUME NEW S \in SUBSET Places, NEW s \in SetToAllKPermutations(S)
  PROVE  /\ s \in Seq(Places) /\ Len(s) \in Nat
         /\ \A j, k \in 1 .. Len(s) : s[j] = s[k] => j = k
         /\ \A k \in 1 .. Len(s) : s[k] \in S
<1>1. PICK U \in SUBSET S : s \in SetToSeqs(U)
  BY DEF SetToAllKPermutations
<1> DEFINE m == Cardinality(U)
<1>2. s \in [1 .. m -> U] /\ \A j, k \in 1 .. m : j # k => s[j] # s[k]
  BY <1>1 DEF SetToSeqs
<1>3. m \in Nat
  <2>1. IsFiniteSet(U)
    BY Constants, FS_Subset
  <2> QED BY <2>1, FS_CardinalityType
<1> HIDE DEF m
<1>4. s \in Seq(Places) /\ Len(s) = m
  <2>1. s \in [1 .. m -> Places]
    BY <1>2
  <2> QED BY <1>2, <1>3, <2>1
<1> QED BY <1>2, <1>3, <1>4

(* A view v with the blocks A in list s of bin i besides, which take m of   *)
(* its slots; nothing else is touched but the words of the blocks B.        *)
FilledAs(v, st, at, sl, hd, nx, ky, i, s, A, B, m, sl2, hd2, nx2, ky2, l) ==
  /\ v = Fields(st, at, sl2, hd2, nx2, ky2)
  /\ sl2[i] = sl[i] - m /\ \A j \in Bins \ {i} : sl2[j] = sl[j]
  /\ IsList(nx2, hd2[i], l) /\ Range(l) = Range(s) \cup A /\ Len(l) = Len(s) + m
  /\ \A j \in Bins \ {i} : hd2[j] = hd[j]
  /\ DOMAIN nx2 = Places /\ \A p \in Places \ B : p \notin Range(s) => nx2[p] = nx[p]
  /\ A \subseteq ky2 /\ ky2 \subseteq ky \cup B /\ ky \ B \subseteq ky2
Filled(v, st, at, sl, hd, nx, ky, i, s, A, B, m) ==
  \E hd2, sl2, nx2, ky2, l :
     /\ hd2 \in [Bins -> Places \cup {NULL}] /\ sl2 \in [Bins -> Int]
     /\ FilledAs(v, st, at, sl, hd, nx, ky, i, s, A, B, m, sl2, hd2, nx2, ky2, l)

(* All chunks that were found go to the cache.                              *)
LEMMA FillAll ==
  ASSUME NEW st, NEW at, NEW sl \in [Bins -> Int], NEW hd \in [Bins -> Places \cup {NULL}], NEW nx,
         DOMAIN nx = Places, NEW ky, NEW i \in Bins, NEW s, IsList(nx, hd[i], s),
         NEW q \in Seq(Places), \A j, k \in 1 .. Len(q) : q[j] = q[k] => j = k,
         \A k \in 1 .. Len(q) : q[k] \notin Range(s), NEW B, Range(q) \subseteq B
  PROVE  Filled(PutAll(Fields(st, at, sl, hd, nx, ky), i, q), st, at, sl, hd, nx, ky, i, s,
                Range(q), B, Len(q))
<1> DEFINE v == PutAll(Fields(st, at, sl, hd, nx, ky), i, q)
           k == Len(q)
           sl2 == Upd(sl, i, sl[i] - k)
           ky2 == ky \cup FirstOf(q, k)
<1>1. Stacked(v, st, at, sl, hd, nx, ky, i, s, q, k)
  BY PutAllList
<1>2. FirstOf(q, k) = Range(q)
  BY DEF FirstOf, Range
<1>3. sl2 \in [Bins -> Int] /\ sl2[i] = sl[i] - k /\ \A j \in Bins \ {i} : sl2[j] = sl[j]
  <2>1. sl[i] - k \in Int
    OBVIOUS
  <2> QED BY <2>1 DEF Upd
<1> HIDE DEF v, k
<1>4. PICK hd2, nx2, l :
        /\ hd2 \in [Bins -> Places \cup {NULL}]
        /\ StackedAs(v, st, at, sl, hd, nx, ky, i, s, q, k, hd2, nx2, l)
  BY <1>1 DEF Stacked
<1>5. /\ v = Fields(st, at, sl2, hd2, nx2, ky2)
      /\ IsList(nx2, hd2[i], l) /\ Range(l) = Range(s) \cup Range(q) /\ Len(l) = Len(s) + k
      /\ \A j \in Bins \ {i} : hd2[j] = hd[j]
      /\ DOMAIN nx2 = Places /\ \A p \in Places : p \notin Range(l) => nx2[p] = nx[p]
  BY <1>2, <1>4 DEF StackedAs
<1>6. Range(q) \subseteq ky2 /\ ky2 \subseteq ky \cup B /\ ky \ B \subseteq ky2
  BY <1>2
<1> HIDE DEF sl2, ky2
<1>7. FilledAs(v, st, at, sl, hd, nx, ky, i, s, Range(q), B, k, sl2, hd2, nx2, ky2, l)
  BY <1>3, <1>5, <1>6 DEF FilledAs
<1> QED BY <1>3, <1>4, <1>7 DEF Filled, v, k

(* All but the last, which is taken out again.                              *)
LEMMA FillBack ==
  ASSUME NEW st, NEW at, NEW sl \in [Bins -> Int], NEW hd \in [Bins -> Places \cup {NULL}], NEW nx,
         DOMAIN nx = Places, NEW ky, NEW i \in Bins, NEW s, IsList(nx, hd[i], s),
         NEW q \in Seq(Places), \A j, k \in 1 .. Len(q) : q[j] = q[k] => j = k,
         \A k \in 1 .. Len(q) : q[k] \notin Range(s), Len(q) > 0
  PROVE  LET v == PutAll(Fields(st, at, sl, hd, nx, ky), i, q)
         IN /\ v.c.heads[i] = q[Len(q)]
            /\ Filled(tcache_get_n(v, i, NULL), st, at, sl, hd, nx, ky, i, s,
                      Range(q) \ {q[Len(q)]}, Range(q), Len(q) - 1)
<1> DEFINE v == PutAll(Fields(st, at, sl, hd, nx, ky), i, q)
           k == Len(q)
           x == q[k]
           sl1 == Upd(sl, i, sl[i] - k)
           ky1 == ky \cup FirstOf(q, k)
<1>1. k \in Nat /\ k > 0 /\ x \in Range(q) /\ s \in Seq(Places) /\ Len(s) \in Nat
  BY DEF Range, IsList
<1>2. FirstOf(q, k) = Range(q)
  BY DEF FirstOf, Range
<1>3. sl1 \in [Bins -> Int] /\ sl1[i] = sl[i] - k /\ \A j \in Bins \ {i} : sl1[j] = sl[j]
  BY <1>1 DEF Upd
<1>4. Stacked(v, st, at, sl, hd, nx, ky, i, s, q, k)
  BY PutAllList
<1>5. PICK hd1, nx1, l1 :
        /\ hd1 \in [Bins -> Places \cup {NULL}]
        /\ StackedAs(v, st, at, sl, hd, nx, ky, i, s, q, k, hd1, nx1, l1)
  BY <1>4 DEF Stacked
<1>6. /\ v = Fields(st, at, sl1, hd1, nx1, ky1)
      /\ IsList(nx1, hd1[i], l1) /\ Range(l1) = Range(s) \cup Range(q) /\ Len(l1) = Len(s) + k
      /\ \A j \in Bins \ {i} : hd1[j] = hd[j]
      /\ DOMAIN nx1 = Places /\ \A p \in Places : p \notin Range(l1) => nx1[p] = nx[p]
      /\ l1[1] = x
  BY <1>1, <1>2, <1>5 DEF StackedAs
<1> HIDE DEF sl1, ky1, k
<1>7. /\ l1 \in Seq(Places) /\ Len(l1) \in Nat /\ 1 \in 1 .. Len(l1) /\ 0 \in 0 .. Len(l1) - 1
      /\ hd1[i] = At(l1, 1) /\ \A a, b \in 1 .. Len(l1) : l1[a] = l1[b] => a = b
  <2>1. l1 \in Seq(Places) /\ hd1[i] = At(l1, 1) /\ \A a, b \in 1 .. Len(l1) : l1[a] = l1[b] => a = b
    BY <1>6 DEF IsList
  <2>2. Len(l1) = Len(s) + k /\ Len(s) \in Nat /\ k \in Nat /\ k > 0
    BY <1>1, <1>6
  <2>3. Len(l1) \in Nat /\ 1 \in 1 .. Len(l1) /\ 0 \in 0 .. Len(l1) - 1
    BY <2>2
  <2> QED BY <2>1, <2>3
<1>8. v.c.heads[i] = x
  <2>1. v.c.heads = hd1
    BY <1>6 DEF Fields
  <2> QED BY <1>6, <1>7, <2>1 DEF At
<1> DEFINE g == tcache_get_n(v, i, NULL)
<1>9. Removed(g, st, at, sl1, hd1, nx1, ky1, i, l1, 1)
  <2> DEFINE F == Fields(st, at, sl1, hd1, nx1, ky1)
  <2>1. Removed(tcache_get_n(F, i, At(l1, 0)), st, at, sl1, hd1, nx1, ky1, i, l1, 0 + 1)
    BY <1>5, <1>6, <1>7, GetList
  <2>2. At(l1, 0) = NULL
    BY <1>7 DEF At
  <2> QED BY <1>6, <2>1, <2>2
<1> HIDE DEF g
<1> DEFINE l == Del(l1, 1)
           sl2 == Upd(sl1, i, sl1[i] + 1)
           ky2 == ky1 \ {x}
<1>10. PICK hd2, nx2 :
         /\ hd2 \in [Bins -> Places \cup {NULL}]
         /\ g = Fields(st, at, sl2, hd2, nx2, ky2)
         /\ IsList(nx2, hd2[i], l) /\ \A j \in Bins \ {i} : hd2[j] = hd1[j]
         /\ DOMAIN nx2 = Places /\ \A p \in Places : p \notin Range(l1) => nx2[p] = nx1[p]
  <2>1. \E hd2, nx2 :
          /\ hd2 \in [Bins -> Places \cup {NULL}]
          /\ g = Fields(st, at, sl2, hd2, nx2, ky1 \ {l1[1]})
          /\ IsList(nx2, hd2[i], l) /\ \A j \in Bins \ {i} : hd2[j] = hd1[j]
          /\ DOMAIN nx2 = Places /\ \A p \in Places : p \notin Range(l1) => nx2[p] = nx1[p]
    BY <1>9 DEF Removed
  <2>2. ky2 = ky1 \ {l1[1]}
    BY <1>6
  <2> HIDE DEF l, sl2, ky2
  <2> QED BY <2>1, <2>2
<1>11. sl2 \in [Bins -> Int] /\ sl2[i] = sl[i] - (k - 1) /\ \A j \in Bins \ {i} : sl2[j] = sl[j]
  <2>1. sl2[i] = sl1[i] + 1 /\ sl2 \in [Bins -> Int] /\ \A j \in Bins \ {i} : sl2[j] = sl1[j]
    BY <1>3 DEF Upd
  <2>2. sl[i] \in Int
    OBVIOUS
  <2> QED BY <1>1, <1>3, <2>1, <2>2
<1>12. Range(l) = Range(s) \cup (Range(q) \ {x}) /\ Len(l) = Len(s) + (k - 1)
  <2>1. Len(l) = Len(l1) - 1
    BY <1>7, DelIs
  <2>2. Range(l1) = Range(l) \cup {l1[1]}
    BY <1>7, DelIs
  <2>3. l1[1] \notin Range(l)
    BY <1>7, DelIs
  <2>4. x \notin Range(s)
    BY <1>1 DEF x, k
  <2> HIDE DEF l
  <2>5. Len(l) = Len(s) + (k - 1)
    BY <1>1, <1>6, <2>1
  <2>6. Range(l) = Range(s) \cup (Range(q) \ {x})
    BY <1>6, <2>2, <2>3, <2>4
  <2> QED BY <2>5, <2>6
<1>13. Range(q) \ {x} \subseteq ky2 /\ ky2 \subseteq ky \cup Range(q) /\ ky \ Range(q) \subseteq ky2
  BY <1>1, <1>2 DEF ky1
<1>14. \A p \in Places \ Range(q) : p \notin Range(s) => nx2[p] = nx[p]
  BY <1>6, <1>10
<1>15. \A j \in Bins \ {i} : hd2[j] = hd[j]
  BY <1>6, <1>10
<1> HIDE DEF l, sl2, ky2, x
<1>16. FilledAs(g, st, at, sl, hd, nx, ky, i, s, Range(q) \ {x}, Range(q), k - 1, sl2, hd2, nx2, ky2, l)
  BY <1>10, <1>11, <1>12, <1>13, <1>14, <1>15 DEF FilledAs
<1>17. Filled(g, st, at, sl, hd, nx, ky, i, s, Range(q) \ {x}, Range(q), k - 1)
  BY <1>10, <1>11, <1>16 DEF Filled
<1> QED BY <1>8, <1>17 DEF g, k, x

(* The cache c that malloc works on, which is t's or one it makes at P, and *)
(* the chunks o that are then out.                                          *)
Made(lst, t, v, nb, c, o, P) ==
  /\ c \in CacheRecords /\ \A j \in Bins : c.heads[j] = cache[t].heads[j]
  /\ c.state = "live" => /\ c.at \in Places /\ {c.at} = StructOf(t) \cup P
                         /\ \A j \in Bins : c.slots[j] + Len(lst[t][j]) = Count
  /\ c.state # "live" => StructOf(t) = {} /\ P = {} /\ \A j \in Bins : c.slots[j] = 0 /\ c.heads[j] = NULL
  /\ P \subseteq Places \ (DOMAIN out \cup {v})
  /\ DOMAIN o = DOMAIN out \cup {v} \cup P
  /\ o[v] = nb /\ (\A q \in DOMAIN out : o[q] = out[q]) /\ \A q \in P : o[q] = StructSize

(* Whether the thread had a cache, gets one or gets none, Made holds of it. *)
LEMMA NewCachesMade ==
  ASSUME NEW lst, NEW role, NEW own, Known(lst, role, own), NEW t \in Threads, pc[t] = "arena",
         NEW v \in Places \ DOMAIN out, NEW nb, NEW n \in NewCaches(t, Give(out, v, nb))
  PROVE  \E P : Made(lst, t, v, nb, n.c, n.out, P)
<1>1. cache[t] \in CacheRecords /\ Phase(t) /\ Slots(lst)
  BY DEF Known, TypeOK, Held
<1> DEFINE o == Give(out, v, nb)
<1>2. DOMAIN o = DOMAIN out \cup {v} /\ o[v] = nb /\ \A q \in DOMAIN out : o[q] = out[q]
  BY DEF Give
<1> HIDE DEF o
<1>3. n \in NewCaches(t, o)
  BY DEF o
<1>4. StructOf(t) = IF Enabled(t) THEN {cache[t].at} ELSE {}
  BY DEF StructOf
<1>5. CASE ~ Inactive(t)
  <2>1. n.c = cache[t] /\ n.out = o
    BY <1>3, <1>5 DEF NewCaches
  <2>2. CASE Enabled(t)
    <3>1. cache[t].state = "live" /\ cache[t].at \in Places /\ {cache[t].at} = StructOf(t)
      BY <1>1, <1>4, <2>2 DEF Phase, Enabled
    <3>2. \A j \in Bins : cache[t].slots[j] + Len(lst[t][j]) = Count
      BY <1>1, <2>2 DEF Slots
    <3>3. Made(lst, t, v, nb, n.c, n.out, {})
      BY <1>1, <1>2, <2>1, <3>1, <3>2 DEF Made
    <3> QED BY <3>3
  <2>3. CASE ~ Enabled(t)
    <3>1. /\ cache[t].state # "live" /\ StructOf(t) = {}
          /\ \A j \in Bins : cache[t].slots[j] = 0 /\ cache[t].heads[j] = NULL
      BY <1>1, <1>4, <2>3 DEF Phase, Enabled
    <3>2. Made(lst, t, v, nb, n.c, n.out, {})
      BY <1>1, <1>2, <2>1, <3>1 DEF Made
    <3> QED BY <3>2
  <2> QED BY <2>2, <2>3
<1>6. CASE Inactive(t)
  <2>1. ~ Enabled(t) /\ StructOf(t) = {}
    BY <1>4, <1>6 DEF Inactive, Enabled
  <2>2. \A j \in Bins : cache[t].heads[j] = NULL
    BY <1>1, <2>1 DEF Phase
  <2>3. CASE n = [c |-> Disabled, out |-> o]
    <3>1. n.c = Disabled /\ n.out = o
      BY <2>3
    <3>2. Made(lst, t, v, nb, n.c, n.out, {})
      BY <1>2, <2>1, <2>2, <3>1, CachesAre DEF Made
    <3> QED BY <3>2
  <2>4. CASE \E p \in Places \ DOMAIN o : n = [c |-> Fresh(p), out |-> Give(o, p, StructSize)]
    <3>1. PICK p \in Places \ DOMAIN o : n = [c |-> Fresh(p), out |-> Give(o, p, StructSize)]
      BY <2>4
    <3>2. n.c = Fresh(p) /\ n.out = Give(o, p, StructSize)
      BY <3>1
    <3> DEFINE o2 == n.out
    <3>3. DOMAIN o2 = DOMAIN o \cup {p} /\ o2[p] = StructSize /\ \A q \in DOMAIN o : o2[q] = o[q]
      BY <3>2 DEF Give
    <3>4. \A j \in Bins : Fresh(p).slots[j] + Len(lst[t][j]) = Count
      <4>1. ASSUME NEW j \in Bins PROVE Fresh(p).slots[j] + Len(lst[t][j]) = Count
        <5>1. lst[t][j] = <<>>
          BY <2>1, Lookup
        <5>2. Len(lst[t][j]) = 0
          BY <5>1
        <5> QED BY <5>2, CachesAre, Constants
      <4> QED BY <4>1
    <3> HIDE DEF o2
    <3>5. Made(lst, t, v, nb, Fresh(p), o2, {p})
      BY <1>2, <2>1, <2>2, <3>3, <3>4, CachesAre DEF Made
    <3> QED BY <3>2, <3>5 DEF o2
  <2> QED BY <1>3, <1>6, <2>3, <2>4 DEF NewCaches
<1> QED BY <1>5, <1>6

(* What a stash comes to: the program has x, the cache A, and both are new. *)
Stashed(lst, t, nb, i, v, c, o, P, S, x, A, w, m) ==
  /\ op[t].kind = "malloc" /\ Finish(t) /\ nb \in Requests /\ nb < MaxBytes
  /\ i \in SmallBins /\ TcIndex[nb] = i /\ v \in Places \ DOMAIN out /\ Made(lst, t, v, nb, c, o, P)
  /\ S \in SUBSET Places /\ S \cap DOMAIN o = {} /\ x \in S \cup {v} /\ A = (S \cup {v}) \ {x}
  /\ m \in Nat /\ m <= c.slots[i]
  /\ Filled(w, c.state, c.at, c.slots, c.heads, next, key, i, lst[t][i], A, S \cup {v}, m)
  /\ cache' = [cache EXCEPT ![t] = w.c] /\ next' = w.next /\ key' = w.key /\ live' = Give(live, x, nb)
  /\ out' = [p \in DOMAIN o \cup S |-> IF p \in S THEN nb ELSE o[p]]

(* Stash leaves the invariant true.                                         *)
LEMMA StashEnd ==
  ASSUME NEW lst, NEW role, NEW own, Known(lst, role, own), NEW t \in Threads, pc[t] = "arena",
         NEW nb, NEW i, NEW v, NEW c, NEW o, NEW P, NEW S, NEW x, NEW A, NEW w, NEW m,
         Stashed(lst, t, nb, i, v, c, o, P, S, x, A, w, m)
  PROVE  CacheInv'
<1>0. /\ op[t].kind = "malloc" /\ Finish(t) /\ nb \in Requests /\ nb < MaxBytes
      /\ i \in SmallBins /\ TcIndex[nb] = i /\ v \in Places \ DOMAIN out /\ Made(lst, t, v, nb, c, o, P)
      /\ S \in SUBSET Places /\ S \cap DOMAIN o = {} /\ x \in S \cup {v} /\ A = (S \cup {v}) \ {x}
      /\ m \in Nat /\ m <= c.slots[i]
      /\ Filled(w, c.state, c.at, c.slots, c.heads, next, key, i, lst[t][i], A, S \cup {v}, m)
      /\ cache' = [cache EXCEPT ![t] = w.c] /\ next' = w.next /\ key' = w.key /\ live' = Give(live, x, nb)
      /\ out' = [p \in DOMAIN o \cup S |-> IF p \in S THEN nb ELSE o[p]]
  BY DEF Stashed
<1> USE <1>0
<1>1. TypeOK /\ (\A u \in Threads : Phase(u)) /\ Holders(role, own) /\ Members(lst, role, own)
  BY DEF Known, Held
<1>2. /\ c \in CacheRecords /\ (\A j \in Bins : c.heads[j] = cache[t].heads[j])
      /\ c.state = "live" => /\ c.at \in Places /\ {c.at} = StructOf(t) \cup P
                             /\ \A j \in Bins : c.slots[j] + Len(lst[t][j]) = Count
      /\ c.state # "live" => StructOf(t) = {} /\ P = {} /\ \A j \in Bins : c.slots[j] = 0 /\ c.heads[j] = NULL
      /\ P \subseteq Places /\ P \cap DOMAIN out = {} /\ v \notin P
      /\ DOMAIN o = DOMAIN out \cup {v} \cup P
      /\ o[v] = nb /\ (\A q \in DOMAIN out : o[q] = out[q]) /\ \A q \in P : o[q] = StructSize
  BY DEF Made
<1>3. i \in Bins /\ nb \in Sizes /\ nb \in Nat /\ StructSize \in Sizes
  BY Constants, TcacheAssumption
<1>4. c.slots \in [Bins -> Nat] /\ c.heads \in [Bins -> Places \cup {NULL}]
  BY <1>2 DEF CacheRecords
<1> DEFINE s == lst[t][i]
           B == S \cup {v}
<1>5. PICK hd2, sl2, nx2, ky2, l :
        /\ hd2 \in [Bins -> Places \cup {NULL}] /\ sl2 \in [Bins -> Int]
        /\ FilledAs(w, c.state, c.at, c.slots, c.heads, next, key, i, s, A, B, m, sl2, hd2, nx2, ky2, l)
  BY DEF Filled
<1>6. /\ w = Fields(c.state, c.at, sl2, hd2, nx2, ky2)
      /\ sl2[i] = c.slots[i] - m /\ (\A j \in Bins \ {i} : sl2[j] = c.slots[j])
      /\ IsList(nx2, hd2[i], l) /\ Range(l) = Range(s) \cup A /\ Len(l) = Len(s) + m
      /\ \A j \in Bins \ {i} : hd2[j] = c.heads[j]
      /\ DOMAIN nx2 = Places /\ (\A p \in Places \ B : p \notin Range(s) => nx2[p] = next[p])
      /\ A \subseteq ky2 /\ ky2 \subseteq key \cup B /\ key \ B \subseteq ky2
  BY <1>5 DEF FilledAs
<1>7. S \subseteq Places /\ S \cap DOMAIN out = {} /\ v \notin S /\ S \cap P = {} /\ v \in Places
      /\ v \notin DOMAIN out
  BY <1>2
<1>8. /\ DOMAIN out' = DOMAIN out \cup B \cup P /\ (\A q \in B : out'[q] = nb)
      /\ (\A q \in DOMAIN out : out'[q] = out[q]) /\ \A q \in P : out'[q] = StructSize
  <2>1. DOMAIN out' = DOMAIN o \cup S /\ \A q \in DOMAIN o \cup S : out'[q] = IF q \in S THEN nb ELSE o[q]
    OBVIOUS
  <2> QED BY <1>2, <1>7, <2>1
<1>9. DOMAIN live' = DOMAIN live \cup {x}
  BY DEF Give
<1>10. sl2 \in [Bins -> Nat]
  <2>1. sl2[i] \in Nat
    BY <1>3, <1>4, <1>6
  <2>2. \A j \in Bins : sl2[j] \in Nat
    BY <1>4, <1>6, <2>1
  <2> QED BY <1>5, <2>2
<1>11. /\ cache' \in [Threads -> CacheRecords] /\ cache'[t].state = c.state /\ cache'[t].at = c.at
       /\ cache'[t].slots = sl2 /\ cache'[t].heads = hd2 /\ (\A u \in Threads \ {t} : cache'[u] = cache[u])
       /\ next' = nx2 /\ key' = ky2
  <2>1. w.c = [state |-> c.state, at |-> c.at, slots |-> sl2, heads |-> hd2] /\ w.next = nx2 /\ w.key = ky2
    BY <1>6 DEF Fields
  <2>2. w.c \in CacheRecords
    BY <1>2, <1>5, <1>10, <2>1 DEF CacheRecords
  <2> QED BY <1>1, <2>1, <2>2 DEF TypeOK
<1>12. /\ pc'[t] = "idle" /\ op'[t].kind = "none"
       /\ pc' \in [Threads -> {"idle", "arena", "free", "shutdown"}] /\ op' \in [Threads -> OpRecords]
       /\ \A u \in Threads \ {t} : pc'[u] = pc[u] /\ op'[u] = op[u]
  BY <1>1, FinishIs
<1>13. TypeOK'
  <2>1. key' \subseteq Places
    BY <1>1, <1>6, <1>7, <1>11 DEF TypeOK
  <2>2. DOMAIN out' \subseteq Places /\ \A q \in DOMAIN out' : out'[q] \in Sizes
    BY <1>1, <1>2, <1>3, <1>7, <1>8 DEF TypeOK
  <2>3. DOMAIN live' \subseteq Places
    BY <1>1, <1>7, <1>9 DEF TypeOK
  <2> QED BY <1>6, <1>11, <1>12, <2>1, <2>2, <2>3 DEF TypeOK
<1>14. \A u \in Threads : u # t => Idles(u)
  BY <1>11, <1>12 DEF Idles
<1>15. Enabled(t)' <=> c.state = "live"
  BY <1>11 DEF Enabled
<1>16. c.state # "live" => \A j \in Bins : sl2[j] = 0 /\ hd2[j] = NULL
  <2> SUFFICES ASSUME c.state # "live" PROVE \A j \in Bins : sl2[j] = 0 /\ hd2[j] = NULL
    OBVIOUS
  <2>1. m = 0 /\ sl2[i] = 0 /\ \A j \in Bins \ {i} : sl2[j] = 0 /\ hd2[j] = NULL
    BY <1>2, <1>3, <1>6
  <2>2. hd2[i] = NULL
    <3>1. ~ Enabled(t)
      BY <1>2, <1>1 DEF StructOf
    <3>2. s = <<>>
      BY <1>3, <3>1, Lookup
    <3>3. Len(s) = 0
      BY <3>2
    <3> HIDE DEF s
    <3>4. Len(l) = 0
      BY <1>6, <2>1, <3>3
    <3>5. hd2[i] = At(l, 1)
      BY <1>6 DEF IsList
    <3> QED BY <3>4, <3>5 DEF At
  <2> QED BY <2>1, <2>2
<1>17. Phase(t)'
  BY <1>2, <1>11, <1>12, <1>15, <1>16 DEF Phase
<1>18. \A u \in Threads : Phase(u)'
  BY <1>1, <1>14, <1>17, IdlePhase
<1>19. /\ StructOf(t)' = StructOf(t) \cup P /\ BeingFreed(t)' = {} /\ BeingFreed(t) = {}
       /\ HeadOf(t, i)' = hd2[i] /\ \A j \in Bins \ {i} : HeadOf(t, j)' = HeadOf(t, j)
  <2>1. StructOf(t)' = IF c.state = "live" THEN {c.at} ELSE {}
    BY <1>11, <1>12, <1>15 DEF StructOf
  <2>2. StructOf(t)' = StructOf(t) \cup P
    BY <1>2, <2>1
  <2>3. BeingFreed(t)' = {} /\ BeingFreed(t) = {}
    BY <1>12 DEF BeingFreed
  <2>4. \A j \in Bins : HeadOf(t, j)' = hd2[j] /\ HeadOf(t, j) = cache[t].heads[j]
    BY <1>11, <1>12 DEF HeadOf
  <2>5. HeadOf(t, i)' = hd2[i]
    BY <1>3, <2>4
  <2>6. ASSUME NEW j \in Bins \ {i} PROVE HeadOf(t, j)' = HeadOf(t, j)
    BY <1>2, <1>6, <2>4
  <2> QED BY <2>2, <2>3, <2>5, <2>6
<1>20. \A u \in Threads \ {t} : /\ StructOf(u)' = StructOf(u) /\ BeingFreed(u)' = BeingFreed(u)
                                /\ \A j \in Bins : HeadOf(u, j)' = HeadOf(u, j)
  BY <1>14, IdleHolds
<1> DEFINE N == B \cup P
           role2 == [q \in Places |-> IF q = x THEN "live" ELSE IF q \in A THEN "bin"
                                      ELSE IF q \in P THEN "struct" ELSE role[q]]
           own2 == [q \in Places |-> IF q \in N THEN t ELSE own[q]]
<1>21. /\ N \subseteq Places /\ N = A \cup {x} \cup P /\ x \notin A /\ x \notin P /\ A \cap P = {}
       /\ N \cap DOMAIN out = {} /\ x \in Places /\ A \subseteq Places
  BY <1>2, <1>7
<1>22. /\ role2[x] = "live" /\ (\A q \in A : role2[q] = "bin") /\ (\A q \in P : role2[q] = "struct")
       /\ (\A q \in Places \ N : role2[q] = role[q] /\ own2[q] = own[q]) /\ \A q \in N : own2[q] = t
  <2>1. \A q \in Places : role2[q] = IF q = x THEN "live" ELSE IF q \in A THEN "bin"
                                     ELSE IF q \in P THEN "struct" ELSE role[q]
    OBVIOUS
  <2>2. \A q \in Places : own2[q] = IF q \in N THEN t ELSE own[q]
    OBVIOUS
  <2> HIDE DEF role2, own2, N
  <2> QED BY <1>21, <2>1, <2>2
<1> HIDE DEF N, role2, own2
<1>23. \A q \in N : /\ role[q] \notin {"live", "bin", "struct", "freed"} /\ q \notin DOMAIN live
                    /\ \A u \in Threads : q \notin StructOf(u) /\ q \notin BeingFreed(u)
  <2>1. ASSUME NEW q \in N
        PROVE  /\ role[q] \notin {"live", "bin", "struct", "freed"} /\ q \notin DOMAIN live
               /\ \A u \in Threads : q \notin StructOf(u) /\ q \notin BeingFreed(u)
    <3>1. Holder(role, own, q) /\ q \notin DOMAIN out
      BY <1>1, <1>21 DEF Holders
    <3> QED BY <3>1 DEF Holder
  <2> QED BY <2>1
<1>24. \A q \in N : q \notin Range(s)
  BY <1>3, <1>23, InList
<1>25. OneBin(lst, role, own, t, i, l, role2, own2, N)
  <2>1. \A u \in Threads, j \in Bins : u # t \/ j # i => HeadOf(u, j)' = HeadOf(u, j)
    BY <1>19, <1>20
  <2>2. IsList(next', HeadOf(t, i)', l)
    BY <1>6, <1>11, <1>19
  <2>3. \A p \in Places \ N : p \notin Range(s) => next'[p] = next[p]
    BY <1>6, <1>11, <1>21
  <2>4. \A p \in N : role2[p] = "bin" => own2[p] = t /\ TcIndex[out'[p]] = i
    BY <1>8, <1>21, <1>22
  <2>5. \A p \in N : p \in Range(l) <=> role2[p] = "bin"
    BY <1>6, <1>21, <1>22, <1>24
  <2>6. \A p \in Places \ N : p \in Range(l) <=> p \in Range(s)
    BY <1>6, <1>21
  <2> QED BY <1>8, <1>22, <1>23, <2>1, <2>2, <2>3, <2>4, <2>5, <2>6 DEF OneBin
<1>26. HeldAsBefore(role, own, role2, own2, N)
  <2>1. ASSUME NEW q \in Places \ N, role[q] = "bin" PROVE q \in key' /\ out'[q] = out[q]
    <3>1. Holder(role, own, q)
      BY <1>1 DEF Holders
    <3>2. q \in key /\ q \in DOMAIN out
      BY <2>1, <3>1 DEF Holder
    <3> QED BY <1>6, <1>8, <1>11, <3>2 DEF N
  <2>2. ASSUME NEW q \in Places \ N, NEW u \in Threads
        PROVE  /\ q \in StructOf(u)' <=> q \in StructOf(u)
               /\ q \in BeingFreed(u)' <=> q \in BeingFreed(u)
    BY <1>19, <1>20, <1>21
  <2>3. \A q \in Places \ N : /\ q \in DOMAIN out' <=> q \in DOMAIN out
                              /\ q \in DOMAIN live' <=> q \in DOMAIN live
    BY <1>8, <1>9, <1>21
  <2> QED BY <1>22, <2>1, <2>2, <2>3 DEF HeldAsBefore
<1>27. ASSUME NEW q \in N PROVE Holder(role2, own2, q)'
  <2>1. q \in DOMAIN out' /\ own2[q] = t
    BY <1>8, <1>21, <1>22
  <2>2. \A u \in Threads : q \notin BeingFreed(u)'
    BY <1>19, <1>20, <1>23
  <2>3. \A u \in Threads : q \in StructOf(u)' <=> u = t /\ q \in P
    BY <1>19, <1>20, <1>23
  <2>4. q \in DOMAIN live' <=> q = x
    BY <1>9, <1>23
  <2>5. CASE q = x
    BY <1>21, <1>22, <2>1, <2>2, <2>3, <2>4, <2>5 DEF Holder
  <2>6. CASE q \in A
    <3>1. q \in key' /\ out'[q] < MaxBytes
      BY <1>6, <1>8, <1>11, <2>6
    <3> QED BY <1>21, <1>22, <2>1, <2>2, <2>3, <2>4, <2>6, <3>1 DEF Holder
  <2>7. CASE q \in P
    BY <1>21, <1>22, <2>1, <2>2, <2>3, <2>4, <2>7 DEF Holder
  <2> QED BY <1>21, <2>5, <2>6, <2>7
<1>28. Enabled(t)' => /\ cache'[t].slots[i] + Len(l) = Count
                      /\ \A j \in Bins \ {i} : cache'[t].slots[j] + Len(lst[t][j]) = Count
  <2> SUFFICES ASSUME c.state = "live"
               PROVE  /\ cache'[t].slots[i] + Len(l) = Count
                      /\ \A j \in Bins \ {i} : cache'[t].slots[j] + Len(lst[t][j]) = Count
    BY <1>15
  <2>1. c.slots[i] + Len(s) = Count /\ c.slots[i] \in Nat /\ Len(s) \in Nat
    <3>1. s \in Seq(Places)
      BY <1>3, Lookup
    <3> QED BY <1>2, <1>3, <1>4, <3>1
  <2> HIDE DEF s
  <2>2. cache'[t].slots[i] + Len(l) = Count
    <3> DEFINE a == cache'[t].slots[i]
               d == c.slots[i]
               k == Len(l)
               r == Len(s)
    <3>1. a = d - m /\ k = r + m /\ r \in Nat /\ d \in Nat /\ d + r = Count
      BY <1>6, <1>11, <2>1
    <3> HIDE DEF a, d, k, r
    <3>2. a + k = Count
      BY <3>1
    <3> QED BY <3>2 DEF a, k
  <2> QED BY <1>2, <1>6, <1>11, <2>2
<1> QED BY <1>3, <1>11, <1>13, <1>18, <1>21, <1>25, <1>26, <1>27, <1>28, BinStep

(* Stash, the caller having v and the arena's other chunks being s: c is the *)
(* thread's cache, o what the arenas have handed out without s.              *)
MoreChunks(o, s) == s \in SetToAllKPermutations({ p \in Places : p \notin DOMAIN o })
Handed(o, nb, s) == out' = [p \in DOMAIN o \cup Range(s) |-> IF p \in Range(s) THEN nb ELSE o[p]]
Keeps(t, nb, i, v, c, o, w, s) ==
  /\ MoreChunks(o, s) /\ Handed(o, nb, s) /\ Len(s) <= c.slots[i]
  /\ Commit(t, PutAll(w, i, s)) /\ live' = Give(live, v, nb)
Returns(t, nb, i, v, c, o, w, s) ==
  LET last == PutAll(w, i, <<v>> \o s)
  IN /\ MoreChunks(o, s) /\ Handed(o, nb, s) /\ Len(s) < c.slots[i]
     /\ Commit(t, tcache_get_n(last, i, NULL)) /\ live' = Give(live, last.c.heads[i], nb)

AnyStashed(lst, t) ==
  \E nb, i, v, c, o, P, S, x, A, w, m : Stashed(lst, t, nb, i, v, c, o, P, S, x, A, w, m)

(* What both cases of Stash start from. *)
Taking(lst, t, nb, i, v, c, o, P) ==
  /\ op[t].kind = "malloc" /\ Finish(t) /\ nb \in Requests /\ nb < MaxBytes
  /\ i \in SmallBins /\ TcIndex[nb] = i /\ v \in Places \ DOMAIN out /\ Made(lst, t, v, nb, c, o, P)

(* The chunks found are new to the list they are put on. *)
LEMMA Taken ==
  ASSUME NEW lst, NEW role, NEW own, Known(lst, role, own), NEW t \in Threads, pc[t] = "arena",
         NEW nb, NEW i, NEW v, NEW c, NEW o, NEW P, Taking(lst, t, nb, i, v, c, o, P),
         NEW s, MoreChunks(o, s)
  PROVE  /\ i \in Bins /\ c.slots \in [Bins -> Int] /\ c.slots[i] \in Nat
         /\ c.heads \in [Bins -> Places \cup {NULL}] /\ DOMAIN next = Places
         /\ IsList(next, c.heads[i], lst[t][i]) /\ v \in Places /\ v \notin Range(lst[t][i])
         /\ s \in Seq(Places) /\ Len(s) \in Nat /\ (\A j, k \in 1 .. Len(s) : s[j] = s[k] => j = k)
         /\ \A k \in 1 .. Len(s) : s[k] # v /\ s[k] \notin Range(lst[t][i])
         /\ Range(s) \in SUBSET Places /\ Range(s) \cap DOMAIN o = {} /\ v \notin Range(s)
<1>1. /\ nb \in Requests /\ nb < MaxBytes /\ i \in SmallBins /\ v \in Places \ DOMAIN out
      /\ Made(lst, t, v, nb, c, o, P) /\ TypeOK
  BY DEF Taking, Known
<1>2. /\ c \in CacheRecords /\ c.slots \in [Bins -> Nat] /\ c.heads \in [Bins -> Places \cup {NULL}]
      /\ (\A j \in Bins : c.heads[j] = cache[t].heads[j]) /\ DOMAIN o = DOMAIN out \cup {v} \cup P
  BY <1>1 DEF Made, CacheRecords
<1>3. i \in Bins
  BY <1>1, Constants
<1>4. IsList(next, c.heads[i], lst[t][i]) /\ c.slots[i] \in Nat /\ DOMAIN next = Places
  <2>1. IsList(next, cache[t].heads[i], lst[t][i])
    BY <1>3, Lookup
  <2> QED BY <1>1, <1>2, <1>3, <2>1 DEF TypeOK
<1>5. \A p \in Range(lst[t][i]) : p \in DOMAIN out
  BY <1>3, InList
<1> DEFINE U == { p \in Places : p \notin DOMAIN o }
<1>6. /\ s \in Seq(Places) /\ Len(s) \in Nat /\ (\A j, k \in 1 .. Len(s) : s[j] = s[k] => j = k)
      /\ \A k \in 1 .. Len(s) : s[k] \in U
  <2>1. U \in SUBSET Places /\ s \in SetToAllKPermutations(U)
    BY DEF MoreChunks
  <2> HIDE DEF U
  <2> QED BY <2>1, Permutation
<1>7. Range(s) = { s[k] : k \in 1 .. Len(s) }
  BY <1>6, RangeIs
<1>8. \A k \in 1 .. Len(s) : s[k] # v /\ s[k] \notin Range(lst[t][i]) /\ s[k] \in Places /\ s[k] \notin DOMAIN o
  BY <1>2, <1>5, <1>6
<1>9. Range(s) \in SUBSET Places /\ Range(s) \cap DOMAIN o = {} /\ v \notin Range(s)
  BY <1>7, <1>8
<1> QED BY <1>1, <1>2, <1>3, <1>4, <1>5, <1>6, <1>8, <1>9

(* From a small bin: v for the caller, the others for the cache. *)
LEMMA Keeping ==
  ASSUME NEW lst, NEW role, NEW own, Known(lst, role, own), NEW t \in Threads, pc[t] = "arena",
         NEW nb, NEW i, NEW v, NEW c, NEW o, NEW P, Taking(lst, t, nb, i, v, c, o, P), NEW s,
         Keeps(t, nb, i, v, c, o, Fields(c.state, c.at, c.slots, c.heads, next, key), s)
  PROVE  AnyStashed(lst, t)
<1> DEFINE F == Fields(c.state, c.at, c.slots, c.heads, next, key)
           q == lst[t][i]
           z == PutAll(F, i, s)
           S == Range(s)
<1>1. MoreChunks(o, s) /\ Handed(o, nb, s) /\ Len(s) <= c.slots[i] /\ Commit(t, z) /\ live' = Give(live, v, nb)
  BY DEF Keeps
<1>2. /\ i \in Bins /\ c.slots \in [Bins -> Int] /\ c.slots[i] \in Nat
      /\ c.heads \in [Bins -> Places \cup {NULL}] /\ DOMAIN next = Places
      /\ IsList(next, c.heads[i], q) /\ v \in Places /\ v \notin Range(q)
      /\ s \in Seq(Places) /\ Len(s) \in Nat /\ (\A j, k \in 1 .. Len(s) : s[j] = s[k] => j = k)
      /\ \A k \in 1 .. Len(s) : s[k] # v /\ s[k] \notin Range(q)
      /\ Range(s) \in SUBSET Places /\ Range(s) \cap DOMAIN o = {} /\ v \notin Range(s)
  BY <1>1, Taken
<1>3. Range(s) \subseteq S \cup {v}
  OBVIOUS
<1> HIDE DEF q, S
<1>4. Filled(z, c.state, c.at, c.slots, c.heads, next, key, i, q, Range(s), S \cup {v}, Len(s))
  BY <1>2, <1>3, FillAll
<1> HIDE DEF z
<1>5. Filled(z, c.state, c.at, c.slots, c.heads, next, key, i, lst[t][i], S, S \cup {v}, Len(s))
  BY <1>4 DEF S, q
<1>6. cache' = [cache EXCEPT ![t] = z.c] /\ next' = z.next /\ key' = z.key
  BY <1>1 DEF Commit
<1>7. /\ S \in SUBSET Places /\ S \cap DOMAIN o = {} /\ v \in S \cup {v} /\ S = (S \cup {v}) \ {v}
      /\ out' = [p \in DOMAIN o \cup S |-> IF p \in S THEN nb ELSE o[p]]
  <2>1. S \in SUBSET Places /\ S \cap DOMAIN o = {} /\ v \notin S
    BY <1>2 DEF S
  <2>2. out' = [p \in DOMAIN o \cup S |-> IF p \in S THEN nb ELSE o[p]]
    BY <1>1 DEF Handed, S
  <2> QED BY <2>1, <2>2
<1>8. Stashed(lst, t, nb, i, v, c, o, P, S, v, S, z, Len(s))
  BY <1>1, <1>2, <1>5, <1>6, <1>7 DEF Stashed, Taking
<1> QED BY <1>8 DEF AnyStashed

(* From the unsorted list: v goes to the cache first, and the last one put  *)
(* there is taken out again for the caller.                                 *)
LEMMA Returning ==
  ASSUME NEW lst, NEW role, NEW own, Known(lst, role, own), NEW t \in Threads, pc[t] = "arena",
         NEW nb, NEW i, NEW v, NEW c, NEW o, NEW P, Taking(lst, t, nb, i, v, c, o, P), NEW s,
         Returns(t, nb, i, v, c, o, Fields(c.state, c.at, c.slots, c.heads, next, key), s)
  PROVE  AnyStashed(lst, t)
<1> DEFINE F == Fields(c.state, c.at, c.slots, c.heads, next, key)
           l == lst[t][i]
           q == <<v>> \o s
           y == PutAll(F, i, q)
           z == tcache_get_n(y, i, NULL)
           S == Range(s)
           x == q[Len(q)]
<1>1. /\ MoreChunks(o, s) /\ Handed(o, nb, s) /\ Len(s) < c.slots[i] /\ Commit(t, z)
      /\ live' = Give(live, y.c.heads[i], nb)
  BY DEF Returns
<1>2. /\ i \in Bins /\ c.slots \in [Bins -> Int] /\ c.slots[i] \in Nat
      /\ c.heads \in [Bins -> Places \cup {NULL}] /\ DOMAIN next = Places
      /\ IsList(next, c.heads[i], l) /\ v \in Places /\ v \notin Range(l)
      /\ s \in Seq(Places) /\ Len(s) \in Nat /\ (\A j, k \in 1 .. Len(s) : s[j] = s[k] => j = k)
      /\ \A k \in 1 .. Len(s) : s[k] # v /\ s[k] \notin Range(l)
      /\ Range(s) \in SUBSET Places /\ Range(s) \cap DOMAIN o = {} /\ v \notin Range(s)
  BY <1>1, Taken
<1> HIDE DEF l, y, z, F
<1>3. /\ q \in Seq(Places) /\ Len(q) = Len(s) + 1 /\ q[1] = v
      /\ \A k \in 2 .. Len(q) : q[k] = s[k - 1]
  <2>1. q \in Seq(Places) /\ Len(q) = Len(s) + 1
    BY <1>2
  <2>2. q[1] = v
    BY <1>2
  <2>3. \A k \in 2 .. Len(q) : q[k] = s[k - 1]
    BY <1>2, <2>1
  <2> QED BY <2>1, <2>2, <2>3
<1> HIDE DEF q, x
<1>4. S = { s[k] : k \in 1 .. Len(s) } /\ Range(q) = { q[k] : k \in 1 .. Len(q) }
  BY <1>2, <1>3, RangeIs
<1> HIDE DEF S
<1>5. \A k \in 1 .. Len(q) : k = 1 \/ (k \in 2 .. Len(q) /\ k - 1 \in 1 .. Len(s) /\ q[k] = s[k - 1])
  BY <1>2, <1>3
<1>6. Range(q) = S \cup {v}
  <2>1. ASSUME NEW k \in 1 .. Len(q) PROVE q[k] \in S \cup {v}
    BY <1>3, <1>4, <1>5
  <2>2. ASSUME NEW k \in 1 .. Len(s) PROVE s[k] \in Range(q)
    <3>1. k + 1 \in 2 .. Len(q) /\ k + 1 \in 1 .. Len(q) /\ (k + 1) - 1 = k
      BY <1>2, <1>3
    <3> QED BY <1>3, <1>4, <3>1
  <2>3. 1 \in 1 .. Len(q)
    BY <1>2, <1>3
  <2> QED BY <1>3, <1>4, <2>1, <2>2, <2>3
<1>7. \A j, k \in 1 .. Len(q) : q[j] = q[k] => j = k
  <2> SUFFICES ASSUME NEW j \in 1 .. Len(q), NEW k \in 1 .. Len(q), q[j] = q[k], j < k PROVE FALSE
    BY <1>2, <1>3
  <2>1. k \in 2 .. Len(q) /\ k - 1 \in 1 .. Len(s) /\ q[k] = s[k - 1]
    BY <1>2, <1>3
  <2>2. CASE j = 1
    BY <1>2, <1>3, <2>1, <2>2
  <2>3. CASE j # 1
    <3>1. j \in 2 .. Len(q) /\ j - 1 \in 1 .. Len(s) /\ j - 1 # k - 1
      BY <1>2, <1>3, <2>3
    <3>2. q[j] = s[j - 1]
      BY <1>3, <3>1
    <3> QED BY <1>2, <2>1, <3>1, <3>2
  <2> QED BY <2>2, <2>3
<1>8. \A k \in 1 .. Len(q) : q[k] \notin Range(l)
  BY <1>2, <1>3, <1>5
<1>9. Len(q) > 0 /\ Len(q) - 1 = Len(s) /\ x \in Range(q)
  <2>1. Len(q) > 0 /\ Len(q) - 1 = Len(s) /\ Len(q) \in 1 .. Len(q)
    BY <1>2, <1>3
  <2> QED BY <1>4, <2>1 DEF x
<1>10. /\ y.c.heads[i] = q[Len(q)]
       /\ Filled(tcache_get_n(y, i, NULL), c.state, c.at, c.slots, c.heads, next, key, i, l,
                 Range(q) \ {q[Len(q)]}, Range(q), Len(q) - 1)
  BY <1>2, <1>3, <1>7, <1>8, <1>9, FillBack DEF y, F
<1>11. y.c.heads[i] = x /\ Filled(z, c.state, c.at, c.slots, c.heads, next, key, i, lst[t][i],
                                  (S \cup {v}) \ {x}, S \cup {v}, Len(s))
  <2>1. Filled(z, c.state, c.at, c.slots, c.heads, next, key, i, l, Range(q) \ {x}, Range(q), Len(q) - 1)
    BY <1>10 DEF x, z
  <2>2. Filled(z, c.state, c.at, c.slots, c.heads, next, key, i, l, (S \cup {v}) \ {x}, S \cup {v}, Len(s))
    BY <1>6, <1>9, <2>1
  <2> QED BY <1>10, <2>2 DEF x, l
<1>12. cache' = [cache EXCEPT ![t] = z.c] /\ next' = z.next /\ key' = z.key /\ live' = Give(live, x, nb)
  BY <1>1, <1>11 DEF Commit
<1>13. /\ S \in SUBSET Places /\ S \cap DOMAIN o = {} /\ x \in S \cup {v}
       /\ out' = [p \in DOMAIN o \cup S |-> IF p \in S THEN nb ELSE o[p]]
  <2>1. S \in SUBSET Places /\ S \cap DOMAIN o = {}
    BY <1>2 DEF S
  <2>2. out' = [p \in DOMAIN o \cup S |-> IF p \in S THEN nb ELSE o[p]]
    BY <1>1 DEF Handed, S
  <2> QED BY <1>6, <1>9, <2>1, <2>2
<1>14. Len(s) \in Nat /\ Len(s) <= c.slots[i]
  BY <1>1, <1>2
<1>15. Stashed(lst, t, nb, i, v, c, o, P, S, x, (S \cup {v}) \ {x}, z, Len(s))
  BY <1>11, <1>12, <1>13, <1>14 DEF Stashed, Taking
<1> QED BY <1>15 DEF AnyStashed

(* malloc is given a chunk by an arena, which finds more of its size. *)
LEMMA StashIs ==
  ASSUME NEW lst, NEW role, NEW own, Known(lst, role, own), NEW t \in Threads, Stash(t)
  PROVE  AnyStashed(lst, t)
<1>1. /\ pc[t] = "arena" /\ op[t].kind = "malloc" /\ op[t].nb < MaxBytes
      /\ TcIndex[op[t].nb] \in SmallBins /\ Finish(t) /\ Phase(t)
  BY DEF Stash, Known, Held
<1>2. op[t].nb \in Requests
  BY <1>1 DEF Phase
<1>3. \E v, n, s : /\ v \in Places \ DOMAIN out /\ n \in NewCaches(t, Give(out, v, op[t].nb))
                   /\ \/ Keeps(t, op[t].nb, TcIndex[op[t].nb], v, n.c, n.out, [View(t) EXCEPT !.c = n.c], s)
                      \/ Returns(t, op[t].nb, TcIndex[op[t].nb], v, n.c, n.out, [View(t) EXCEPT !.c = n.c], s)
  <2>1. PICK v \in { p \in Places : Free(p) } : \E n \in NewCaches(t, Give(out, v, op[t].nb)) :
        \E s \in SetToAllKPermutations({ p \in Places : p \notin DOMAIN n.out }) :
          LET nb   == op[t].nb
              i    == TcIndex[nb]
              w    == [View(t) EXCEPT !.c = n.c]
              o    == [p \in DOMAIN n.out \cup Range(s) |-> IF p \in Range(s) THEN nb ELSE n.out[p]]
              room == n.c.slots[i]
              last == PutAll(w, i, <<v>> \o s)
          IN /\ out' = o
             /\ \/ /\ Len(s) <= room
                   /\ Commit(t, PutAll(w, i, s)) /\ live' = Give(live, v, nb)
                \/ /\ Len(s) < room
                   /\ Commit(t, tcache_get_n(last, i, NULL))
                   /\ live' = Give(live, last.c.heads[i], nb)
    BY DEF Stash
  <2>2. v \in Places \ DOMAIN out
    BY DEF Free
  <2> QED BY <2>1, <2>2 DEF Keeps, Returns, MoreChunks, Handed
<1>4. PICK v, n, s : /\ v \in Places \ DOMAIN out /\ n \in NewCaches(t, Give(out, v, op[t].nb))
                     /\ \/ Keeps(t, op[t].nb, TcIndex[op[t].nb], v, n.c, n.out, [View(t) EXCEPT !.c = n.c], s)
                        \/ Returns(t, op[t].nb, TcIndex[op[t].nb], v, n.c, n.out, [View(t) EXCEPT !.c = n.c], s)
  BY <1>3
<1>5. PICK P : Made(lst, t, v, op[t].nb, n.c, n.out, P)
  BY <1>1, <1>4, NewCachesMade
<1>6. [View(t) EXCEPT !.c = n.c] = Fields(n.c.state, n.c.at, n.c.slots, n.c.heads, next, key)
  <2> DEFINE c == n.c
  <2>1. c \in CacheRecords
    BY <1>5 DEF Made
  <2> HIDE DEF c
  <2>2. c = [state |-> c.state, at |-> c.at, slots |-> c.slots, heads |-> c.heads]
    BY <2>1 DEF CacheRecords
  <2>3. [View(t) EXCEPT !.c = c] = [c |-> c, next |-> next, key |-> key]
    BY DEF View
  <2>4. [View(t) EXCEPT !.c = c] = Fields(c.state, c.at, c.slots, c.heads, next, key)
    BY <2>2, <2>3 DEF Fields
  <2> QED BY <2>4 DEF c
<1>7. Taking(lst, t, op[t].nb, TcIndex[op[t].nb], v, n.c, n.out, P)
  BY <1>1, <1>2, <1>4, <1>5 DEF Taking
<1>8. \E nb, i, c, o :
        /\ Taking(lst, t, nb, i, v, c, o, P)
        /\ \/ Keeps(t, nb, i, v, c, o, Fields(c.state, c.at, c.slots, c.heads, next, key), s)
           \/ Returns(t, nb, i, v, c, o, Fields(c.state, c.at, c.slots, c.heads, next, key), s)
  BY <1>4, <1>6, <1>7
<1>9. PICK nb, i, c, o :
        /\ Taking(lst, t, nb, i, v, c, o, P)
        /\ \/ Keeps(t, nb, i, v, c, o, Fields(c.state, c.at, c.slots, c.heads, next, key), s)
           \/ Returns(t, nb, i, v, c, o, Fields(c.state, c.at, c.slots, c.heads, next, key), s)
  BY <1>8
<1>10. CASE Keeps(t, nb, i, v, c, o, Fields(c.state, c.at, c.slots, c.heads, next, key), s)
  BY <1>1, <1>9, <1>10, Keeping
<1>11. CASE Returns(t, nb, i, v, c, o, Fields(c.state, c.at, c.slots, c.heads, next, key), s)
  BY <1>1, <1>9, <1>11, Returning
<1> QED BY <1>9, <1>10, <1>11

(* malloc is given a chunk by an arena, which fills the cache with more.    *)
LEMMA StashStep ==
  ASSUME NEW lst, NEW role, NEW own, Known(lst, role, own), NEW t \in Threads, Stash(t)
  PROVE  CacheInv'
<1>1. pc[t] = "arena"
  BY DEF Stash
<1>2. PICK nb, i, v, c, o, P, S, x, A, w, m : Stashed(lst, t, nb, i, v, c, o, P, S, x, A, w, m)
  BY StashIs DEF AnyStashed
<1> QED BY <1>1, <1>2, StashEnd

----------------------------------------------------------------------------
(* The invariant holds always.                                              *)

LEMMA InitCache == Init => CacheInv
<1> SUFFICES ASSUME Init PROVE CacheInv
  OBVIOUS
<1> DEFINE lst == [t \in Threads |-> [i \in Bins |-> <<>>]]
           role == [p \in Places |-> "none"]
           own == [p \in Places |-> NULL]
           none == Dummy("inactive")
<1>1. /\ none \in CacheRecords /\ none.state = "inactive"
      /\ \A i \in Bins : none.slots[i] = 0 /\ none.heads[i] = NULL
  BY DEF Dummy, CacheRecords
<1> HIDE DEF none
<1>2. /\ cache = [t \in Threads |-> none] /\ pc = [t \in Threads |-> "idle"]
      /\ op = [t \in Threads |-> NoOp] /\ DOMAIN next = Places /\ key = {}
      /\ DOMAIN out = {} /\ DOMAIN live = {}
  BY DEF Init, none
<1>3. \A t \in Threads : cache[t] = none /\ pc[t] = "idle" /\ op[t] = NoOp
  BY <1>2
<1>4. TypeOK
  BY <1>1, <1>2, OpsAre DEF TypeOK
<1>5. \A t \in Threads : Phase(t) /\ ~ Enabled(t) /\ StructOf(t) = {} /\ BeingFreed(t) = {}
  BY <1>1, <1>3, OpsAre DEF Phase, Enabled, StructOf, BeingFreed
<1>6. \A t \in Threads, i \in Bins : HeadOf(t, i) = NULL /\ lst[t][i] = <<>>
  BY <1>1, <1>3 DEF HeadOf
<1>7. \A p \in Places : role[p] = "none"
  OBVIOUS
<1> HIDE DEF lst, role, own
<1>8. Lists(lst)
  <2>1. IsList(next, NULL, <<>>)
    BY DEF IsList, At
  <2> QED BY <1>6, <2>1 DEF Lists
<1>9. Slots(lst)
  BY <1>5 DEF Slots
<1>10. Sorted(lst)
  BY <1>6 DEF Sorted
<1>11. Members(lst, role, own)
  <2>1. Range(<<>>) = {}
    BY DEF Range
  <2> QED BY <1>6, <1>7, <2>1 DEF Members, InBin
<1>12. Holders(role, own)
  BY <1>2, <1>5, <1>7 DEF Holders, Holder
<1> QED BY <1>4, <1>5, <1>8, <1>9, <1>10, <1>11, <1>12 DEF CacheInv, Held

(* A step of a thread, whichever it is. *)
LEMMA ThreadStep ==
  ASSUME NEW lst, NEW role, NEW own, Known(lst, role, own), NEW t \in Threads, Call(t) \/ Continue(t)
  PROVE  CacheInv'
<1>1. CASE Call(t)
  <2>1. CASE \E kind \in {"malloc", "memalign"}, nb \in Requests : CacheHit(t, kind, nb) \/ CacheMiss(t, kind, nb)
    BY <2>1, CacheHitStep, CacheMissStep
  <2>2. CASE \E p \in DOMAIN live : CallFree(t, p)
    BY <2>2, CallFreeStep
  <2>3. CASE Shutdown(t)
    BY <2>3, ShutdownStep
  <2> QED BY <1>1, <2>1, <2>2, <2>3 DEF Call
<1>2. CASE Continue(t)
  <2>1. CASE ArenaServes(t)
    BY <2>1, ArenaServesStep
  <2>2. CASE ArenaFails(t)
    BY <2>2, ArenaFailsStep
  <2>3. CASE Stash(t)
    BY <2>3, StashStep
  <2>4. CASE Verify(t)
    BY <2>4, VerifyStep
  <2>5. CASE CachePut(t)
    BY <2>5, CachePutStep
  <2>6. CASE StartInit(t)
    BY <2>6, StartInitStep
  <2>7. CASE InitEnds(t)
    BY <2>7, InitEndsStep
  <2>8. CASE FreeToArena(t)
    BY <2>8, FreeToArenaStep
  <2>9. CASE ShutdownEntry(t)
    BY <2>9, ShutdownEntryStep
  <2>10. CASE ShutdownEnds(t)
    BY <2>10, ShutdownEndsStep
  <2> QED BY <1>2, <2>1, <2>2, <2>3, <2>4, <2>5, <2>6, <2>7, <2>8, <2>9, <2>10 DEF Continue
<1> QED BY <1>1, <1>2

(* The invariant is inductive.                                              *)
LEMMA NextCache == CacheInv /\ [Next]_vars => CacheInv'
<1> SUFFICES ASSUME CacheInv, [Next]_vars PROVE CacheInv'
  OBVIOUS
<1>1. PICK lst, role, own : Known(lst, role, own)
  BY DEF CacheInv, Known
<1>2. CASE Next
  <2>1. PICK t \in Threads : Call(t) \/ Continue(t)
    BY <1>2 DEF Next
  <2> QED BY <1>1, <2>1, ThreadStep
<1>3. CASE UNCHANGED vars
  <2>1. TypeOK' /\ \A t \in Threads : Phase(t)'
    BY <1>3 DEF CacheInv, TypeOK, Phase, Enabled, vars
  <2>2. Held(lst, role, own)'
    BY <1>1, <1>3 DEF Known, Held, Lists, Slots, Sorted, Members, InBin, Holders, Holder, HeadOf, Enabled,
       StructOf, BeingFreed, vars
  <2> QED BY <2>1, <2>2 DEF CacheInv
<1> QED BY <1>2, <1>3

(* The caches are lists of distinct blocks that nothing else holds, in      *)
(* every state of every run.                                                *)
THEOREM AlwaysCacheInv == Spec => []CacheInv
BY InitCache, NextCache, PTL DEF Spec

(* free never takes a block the program owns for one that is cached: the    *)
(* walk of tcache_double_free_verify does not find it (malloc.c:3161-3186). *)
THEOREM AlwaysNoFalseAlarm == Spec => []NoFalseAlarm
<1>1. CacheInv => NoFalseAlarm
  BY DEF CacheInv, TypeOK, NoFalseAlarm
<1> QED BY <1>1, AlwaysCacheInv, PTL

----------------------------------------------------------------------------
(* What the invariant says of the model's own sets.                         *)

(* What a thread's cache holds, also while it is being shut down, are the   *)
(* places that have the role of a cached block and are the thread's.        *)
LEMMA CachedIs ==
  ASSUME NEW lst, NEW role, NEW own, Known(lst, role, own), NEW t \in Threads
  PROVE  /\ CachedBy(t) = { p \in Places : role[p] = "bin" /\ own[p] = t }
         /\ \A p \in CachedBy(t) : TcIndex[out[p]] \in Bins /\ p \in Range(lst[t][TcIndex[out[p]]])
<1> DEFINE mine == { p \in Places : role[p] = "bin" /\ own[p] = t }
<1>1. \A p \in mine : TcIndex[out[p]] \in Bins /\ p \in Range(lst[t][TcIndex[out[p]]])
  <2> SUFFICES ASSUME NEW p \in mine PROVE TcIndex[out[p]] \in Bins /\ p \in Range(lst[t][TcIndex[out[p]]])
    OBVIOUS
  <2>1. Holder(role, own, p) /\ p \in Places /\ role[p] = "bin" /\ own[p] = t
    BY DEF Known, Held, Holders
  <2>2. p \in DOMAIN out /\ out[p] < MaxBytes
    BY <2>1 DEF Holder
  <2>3. TcIndex[out[p]] \in Bins
    BY <2>2, Constants DEF Known, TypeOK
  <2> QED BY <2>1, <2>3 DEF Known, Held, Members, InBin
<1>2. \A i \in Bins : Range(lst[t][i]) \subseteq mine
  BY InList
<1> DEFINE all == UNION { Range(lst[t][i]) : i \in Bins }
<1>3. all = mine
  <2> HIDE DEF mine
  <2>1. mine \subseteq all
    BY <1>1
  <2>2. all \subseteq mine
    BY <1>2
  <2> QED BY <2>1, <2>2
<1>4. CASE pc[t] # "shutdown"
  <2>1. \A i \in Bins : List(View(t), i) = lst[t][i]
    BY <1>4, Lookup
  <2>2. Listed(t) = all
    BY <2>1 DEF Listed
  <2>3. Unfreed(t) = {}
    BY <1>4 DEF Unfreed
  <2> HIDE DEF all
  <2>4. CachedBy(t) = all
    BY <2>2, <2>3 DEF CachedBy
  <2> QED BY <1>1, <1>3, <2>4
<1>5. CASE pc[t] = "shutdown"
  <2>1. \A i \in Bins : List(View(t), i) = <<>>
    <3>1. \A i \in Bins : cache[t].heads[i] = NULL
      BY <1>5 DEF Known, Phase
    <3>2. IsList(next, NULL, <<>>)
      BY DEF IsList, At
    <3>3. Chain(next, NULL) = <<>>
      BY <3>2, ChainIs
    <3> QED BY <3>1, <3>3 DEF List, View
  <2>2. \A i \in Bins : Chain(next, op[t].tmp[i]) = lst[t][i]
    <3>1. \A i \in Bins : IsList(next, op[t].tmp[i], lst[t][i])
      BY <1>5 DEF Known, Held, Lists, HeadOf
    <3> QED BY <3>1, ChainIs
  <2>3. Listed(t) = {}
    <3>1. Range(<<>>) = {}
      BY DEF Range
    <3> QED BY <2>1, <3>1 DEF Listed
  <2>4. Unfreed(t) = all
    BY <1>5, <2>2 DEF Unfreed
  <2> HIDE DEF all
  <2>5. CachedBy(t) = all
    BY <2>3, <2>4 DEF CachedBy
  <2> QED BY <1>1, <1>3, <2>5
<1> QED BY <1>4, <1>5

(* num_slots and the list are complements; the last link is NULL.           *)
LEMMA HasSlotsAgree == CacheInv => SlotsAgree
<1> SUFFICES ASSUME CacheInv, NEW t \in Threads, NEW i \in Bins, Enabled(t)
             PROVE  LET s == List(View(t), i)
                    IN /\ cache[t].slots[i] + Len(s) = Count
                       /\ s # <<>> => Reveal(next, Last(s)) = NULL
  BY DEF SlotsAgree
<1>1. PICK lst, role, own : Known(lst, role, own)
  BY DEF CacheInv, Known
<1>2. pc[t] # "shutdown"
  BY <1>1 DEF Known, Phase
<1> DEFINE s == lst[t][i]
<1>3. List(View(t), i) = s /\ IsList(next, cache[t].heads[i], s)
  BY <1>1, <1>2, Lookup
<1>4. cache[t].slots[i] + Len(s) = Count
  BY <1>1 DEF Known, Held, Slots
<1> HIDE DEF s
<1>5. ASSUME s # <<>> PROVE Reveal(next, Last(s)) = NULL
  <2>1. s \in Seq(Places) /\ Len(s) \in 1 .. Len(s) /\ Len(s) + 1 \notin 1 .. Len(s)
    BY <1>3, <1>5 DEF IsList
  <2>2. next[s[Len(s)]] = Protect(s[Len(s)], At(s, Len(s) + 1)) /\ At(s, Len(s) + 1) = NULL
    BY <1>3, <2>1 DEF IsList, At
  <2> QED BY <2>2, RevealProtect DEF Last
<1> QED BY <1>3, <1>4, <1>5

(* Every cached block has the key.                                          *)
LEMMA HasKeys == CacheInv => CachedCarryKey
<1> SUFFICES ASSUME CacheInv, NEW t \in Threads, NEW p \in CachedBy(t) PROVE p \in key
  BY DEF CachedCarryKey, Cached
<1>1. PICK lst, role, own : Known(lst, role, own)
  BY DEF CacheInv, Known
<1>2. p \in Places /\ role[p] = "bin"
  BY <1>1, CachedIs
<1> QED BY <1>1, <1>2 DEF Known, Held, Holders, Holder

(* Disjoint finite sets. *)
LEMMA SizeOfThree ==
  ASSUME NEW A, NEW B, NEW C, NEW S, IsFiniteSet(S), A \subseteq S, B \subseteq S, C \subseteq S,
         A \cap B = {}, A \cap C = {}, B \cap C = {}
  PROVE  Cardinality(A \cup B \cup C) = Cardinality(B) + Cardinality(C) + Cardinality(A)
<1>1. IsFiniteSet(A) /\ IsFiniteSet(B) /\ IsFiniteSet(C) /\ IsFiniteSet(A \cup B)
  BY FS_Subset
<1>2. /\ Cardinality(A) \in Nat /\ Cardinality(B) \in Nat /\ Cardinality(C) \in Nat
      /\ Cardinality(A \cup B) \in Nat
  BY <1>1, FS_CardinalityType
<1>3. Cardinality({}) = 0
  BY FS_EmptySet
<1>4. Cardinality(A \cup B) = Cardinality(A) + Cardinality(B) - Cardinality(A \cap B)
  BY <1>1, FS_Union
<1>5. (A \cup B) \cap C = {}
  OBVIOUS
<1>6. Cardinality((A \cup B) \cup C) = Cardinality(A \cup B) + Cardinality(C) - Cardinality((A \cup B) \cap C)
  BY <1>1, FS_Union
<1>7. Cardinality(A \cap B) = 0 /\ Cardinality((A \cup B) \cap C) = 0
  BY <1>3, <1>5
<1> QED BY <1>2, <1>4, <1>6, <1>7

(* What the threads hold and the program owns are disjoint, and are all     *)
(* that the arenas have handed out.                                         *)
LEMMA HasNothingLost == CacheInv => NothingLost
<1> SUFFICES ASSUME CacheInv PROVE NothingLost
  OBVIOUS
<1>1. PICK lst, role, own : Known(lst, role, own)
  BY DEF CacheInv, Known
<1> DEFINE held(t) == CachedBy(t) \cup StructOf(t) \cup BeingFreed(t)
           Of(r, t) == { p \in Places : role[p] = r /\ own[p] = t }
<1>2. \A p \in Places : Holder(role, own, p)
  BY <1>1 DEF Known, Held, Holders
<1>3. \A t \in Threads : /\ CachedBy(t) = Of("bin", t) /\ StructOf(t) = Of("struct", t)
                         /\ BeingFreed(t) = Of("freed", t)
  <2> SUFFICES ASSUME NEW t \in Threads
               PROVE  /\ CachedBy(t) = Of("bin", t) /\ StructOf(t) = Of("struct", t)
                      /\ BeingFreed(t) = Of("freed", t)
    OBVIOUS
  <2>1. CachedBy(t) = Of("bin", t)
    BY <1>1, CachedIs
  <2>2. StructOf(t) \subseteq Places /\ BeingFreed(t) \subseteq Places
    BY <1>1 DEF Known, Phase, StructOf, BeingFreed
  <2>3. StructOf(t) = Of("struct", t)
    BY <1>2, <2>2 DEF Holder
  <2>4. BeingFreed(t) = Of("freed", t)
    BY <1>2, <2>2 DEF Holder
  <2> QED BY <2>1, <2>3, <2>4
<1>4. \A t \in Threads : held(t) = Of("bin", t) \cup Of("struct", t) \cup Of("freed", t)
  BY <1>3
<1>5. \A t \in Threads : \A p \in held(t) : p \in Places /\ own[p] = t /\ role[p] \in {"bin", "struct", "freed"}
  BY <1>4
<1>6. DOMAIN out = DOMAIN live \cup UNION { held(t) : t \in Threads }
  <2>1. DOMAIN out \subseteq Places /\ DOMAIN live \subseteq Places
    BY <1>1 DEF Known, TypeOK
  <2>2. ASSUME NEW p \in DOMAIN out, p \notin DOMAIN live PROVE \E t \in Threads : p \in held(t)
    <3>1. role[p] \in {"bin", "struct", "freed"} /\ own[p] \in Threads
      BY <1>2, <2>1, <2>2 DEF Holder
    <3> QED BY <1>4, <2>1, <3>1
  <2>3. ASSUME NEW t \in Threads, NEW p \in held(t) PROVE p \in DOMAIN out
    <3> HIDE DEF held
    <3> QED BY <1>2, <1>5 DEF Holder
  <2>4. ASSUME NEW p \in DOMAIN live PROVE p \in DOMAIN out
    BY <1>2, <2>1 DEF Holder
  <2> HIDE DEF held
  <2> QED BY <2>2, <2>3, <2>4
<1>7. ASSUME NEW t \in Threads
      PROVE  /\ held(t) \cap DOMAIN live = {}
             /\ \A u \in Threads \ {t} : held(t) \cap held(u) = {}
             /\ Cardinality(held(t)) = Cardinality(StructOf(t)) + Cardinality(BeingFreed(t))
                  + Cardinality(CachedBy(t))
  <2>1. held(t) \cap DOMAIN live = {}
    <3> HIDE DEF held
    <3> QED BY <1>2, <1>5 DEF Holder
  <2>2. \A u \in Threads \ {t} : held(t) \cap held(u) = {}
    <3> HIDE DEF held
    <3> QED BY <1>5
  <2>3. /\ IsFiniteSet(Places) /\ CachedBy(t) \subseteq Places /\ StructOf(t) \subseteq Places
        /\ BeingFreed(t) \subseteq Places /\ CachedBy(t) \cap StructOf(t) = {}
        /\ CachedBy(t) \cap BeingFreed(t) = {} /\ StructOf(t) \cap BeingFreed(t) = {}
    BY <1>3, Constants
  <2> QED BY <2>1, <2>2, <2>3, SizeOfThree
<1> QED BY <1>6, <1>7 DEF NothingLost

(* The slots agree with the lists, which end; every chunk an arena has      *)
(* handed out is in one place and none is forgotten; every cached block     *)
(* carries the key (malloc.c:3014-3059, 3188-3219).                         *)
THEOREM AlwaysCachesSound == Spec => []CachesSound
<1>1. CacheInv => CachesSound
  BY HasSlotsAgree, HasNothingLost, HasKeys DEF CachesSound
<1> QED BY <1>1, AlwaysCacheInv, PTL

----------------------------------------------------------------------------
(* What a step may do.                                                      *)

(* A block new to the program is of the size it asked for, or one unit      *)
(* larger.                                                                  *)
NewFits == \A p \in DOMAIN live' \ DOMAIN live : out'[p] >= live'[p] /\ out'[p] <= live'[p] + 1

(* One block goes to the program, large enough and not too large.           *)
LEMMA GivenFits ==
  ASSUME NEW x, NEW nb \in Nat, live' = Give(live, x, nb), out'[x] \in Nat, out'[x] >= nb, out'[x] <= nb + 1
  PROVE  NewFits
<1>1. DOMAIN live' = DOMAIN live \cup {x} /\ live'[x] = nb
  BY DEF Give
<1> QED BY <1>1 DEF NewFits

(* No block does.                                                           *)
LEMMA NothingNewFits == DOMAIN live' \subseteq DOMAIN live => NewFits
BY DEF NewFits

(* From the cache a block is of the exact size.                             *)
LEMMA HitFits ==
  ASSUME NEW t \in Threads, NEW kind \in {"malloc", "memalign"}, NEW nb \in Requests, CacheHit(t, kind, nb)
  PROVE  NewFits
<1> DEFINE e == ReadLink(View(t), TcIndex[nb], LinkFor(View(t), kind, nb))
<1>1. live' = Give(live, e, nb) /\ out' = out /\ out[e] = nb
  BY DEF CacheHit, Found
<1>2. nb \in Nat
  BY Constants
<1> HIDE DEF e
<1>3. out'[e] \in Nat /\ out'[e] >= nb /\ out'[e] <= nb + 1
  BY <1>1, <1>2
<1> QED BY <1>1, <1>2, <1>3, GivenFits

(* From an arena it is of the size asked for, or one unit larger.           *)
LEMMA ServesFits ==
  ASSUME NEW lst, NEW role, NEW own, Known(lst, role, own), NEW t \in Threads, ArenaServes(t)
  PROVE  NewFits
<1>1. PICK p \in Places, s \in Fitting(op[t].nb) : out' = Give(out, p, s) /\ live' = Give(live, p, op[t].nb)
  BY DEF ArenaServes
<1>2. op[t].nb \in Nat
  BY DEF Known, TypeOK, OpRecords
<1>3. out'[p] = s /\ s \in Nat /\ s >= op[t].nb /\ s <= op[t].nb + 1
  BY <1>1, Constants DEF Give, Fitting
<1> QED BY <1>1, <1>2, <1>3, GivenFits

(* Also when the arena takes it back from the cache it has just filled.     *)
LEMMA StashFits ==
  ASSUME NEW lst, NEW role, NEW own, Known(lst, role, own), NEW t \in Threads, Stash(t)
  PROVE  NewFits
<1>1. PICK nb, i, v, c, o, P, S, x, A, w, m : Stashed(lst, t, nb, i, v, c, o, P, S, x, A, w, m)
  BY StashIs DEF AnyStashed
<1>2. /\ live' = Give(live, x, nb) /\ nb \in Requests /\ x \in S \cup {v}
      /\ out' = [p \in DOMAIN o \cup S |-> IF p \in S THEN nb ELSE o[p]]
      /\ Made(lst, t, v, nb, c, o, P)
  BY <1>1 DEF Stashed
<1>3. v \in DOMAIN o /\ o[v] = nb /\ nb \in Nat
  BY <1>2, Constants DEF Made
<1>4. out'[x] = nb
  BY <1>2, <1>3
<1>5. out'[x] \in Nat /\ out'[x] >= nb /\ out'[x] <= nb + 1
  BY <1>3, <1>4
<1> QED BY <1>2, <1>3, <1>5, GivenFits

(* The blocks a program gets hold what it asked for, and waste at most what *)
(* an arena would: a cache gives only blocks of the exact size              *)
(* (malloc.c:3299-3321).                                                    *)
THEOREM AlwaysFitsRequest == Spec => FitsRequest
<1>1. CacheInv /\ [Next]_vars => [NewFits]_vars
  <2> SUFFICES ASSUME CacheInv, Next PROVE NewFits
    OBVIOUS
  <2>1. PICK lst, role, own : Known(lst, role, own)
    BY DEF CacheInv, Known
  <2>2. PICK t \in Threads : Call(t) \/ Continue(t)
    BY DEF Next
  <2>3. CASE \E kind \in {"malloc", "memalign"}, nb \in Requests : CacheHit(t, kind, nb)
    BY <2>3, HitFits
  <2>4. CASE ArenaServes(t)
    BY <2>1, <2>4, ServesFits
  <2>5. CASE Stash(t)
    BY <2>1, <2>5, StashFits
  <2>6. CASE \/ \E kind \in {"malloc", "memalign"}, nb \in Requests : CacheMiss(t, kind, nb)
             \/ Shutdown(t) \/ ArenaFails(t) \/ Verify(t) \/ CachePut(t) \/ StartInit(t) \/ InitEnds(t)
             \/ FreeToArena(t) \/ ShutdownEntry(t) \/ ShutdownEnds(t)
    <3>1. live' = live
      BY <2>6 DEF CacheMiss, Shutdown, ArenaFails, Verify, CachePut, StartInit, InitEnds, FreeToArena,
         ShutdownEntry, ShutdownEnds
    <3> QED BY <3>1, NothingNewFits
  <2>7. CASE \E p \in DOMAIN live : CallFree(t, p)
    <3>1. DOMAIN live' \subseteq DOMAIN live
      BY <2>7 DEF CallFree, Drop
    <3> QED BY <3>1, NothingNewFits
  <2> QED BY <2>2, <2>3, <2>4, <2>5, <2>6, <2>7 DEF Call, Continue
<1> QED BY <1>1, AlwaysCacheInv, PTL DEF Spec, FitsRequest, NewFits

(* A thread goes from the program to an arena only when its cache misses.   *)
LEMMA OnlyMiss ==
  ASSUME TypeOK, Next, NEW t \in Threads, pc[t] = "idle", pc'[t] = "arena"
  PROVE  \E kind \in {"malloc", "memalign"}, nb \in Requests : CacheMiss(t, kind, nb)
<1>1. PICK u \in Threads : Call(u) \/ Continue(u)
  BY DEF Next
<1>2. pc \in [Threads -> {"idle", "arena", "free", "shutdown"}]
  BY DEF TypeOK
<1>3. CASE \E kind \in {"malloc", "memalign"}, nb \in Requests : CacheMiss(u, kind, nb)
  <2>1. pc' = [pc EXCEPT ![u] = "arena"]
    BY <1>3 DEF CacheMiss, Step
  <2>2. u = t
    BY <1>2, <2>1
  <2> QED BY <1>3, <2>2
<1>4. CASE \/ \E kind \in {"malloc", "memalign"}, nb \in Requests : CacheHit(u, kind, nb)
           \/ \E p \in DOMAIN live : CallFree(u, p)
           \/ Shutdown(u)
  <2>1. pc' = pc \/ pc' = [pc EXCEPT ![u] = "free"] \/ pc' = [pc EXCEPT ![u] = "shutdown"]
    BY <1>4 DEF CacheHit, CallFree, Shutdown, Step
  <2> QED BY <1>2, <2>1
<1>5. CASE Continue(u)
  <2>1. pc[u] # "idle" /\ (pc' = pc \/ \E to : pc' = [pc EXCEPT ![u] = to])
    <3>1. CASE StartInit(u)
      BY <3>1 DEF StartInit
    <3>2. CASE Verify(u)
      BY <3>2 DEF Verify
    <3>3. CASE ~ StartInit(u) /\ ~ Verify(u)
      BY <1>5, <3>3 DEF Continue, ArenaServes, ArenaFails, Stash, CachePut, InitEnds, FreeToArena,
         ShutdownEntry, ShutdownEnds, Step, Finish
    <3> QED BY <3>1, <3>2, <3>3
  <2>2. u # t
    BY <2>1
  <2> QED BY <1>2, <2>1, <2>2
<1> QED BY <1>1, <1>3, <1>4, <1>5 DEF Call

(* Where a request looks, nothing that would serve it is behind the block   *)
(* the link leads to, unless that block does too.                           *)
LEMMA FoundIfThere ==
  ASSUME NEW lst, NEW role, NEW own, Known(lst, role, own), NEW t \in Threads, pc[t] # "shutdown",
         NEW kind \in {"malloc", "memalign"}, NEW nb \in Requests, NEW p \in CachedBy(t),
         out[p] = nb, kind = "memalign" => p \in Aligned
  PROVE  nb < MaxBytes /\ Found(View(t), kind, nb)
<1>1. p \in Places /\ role[p] = "bin" /\ TcIndex[out[p]] \in Bins /\ p \in Range(lst[t][TcIndex[out[p]]])
  BY CachedIs
<1>2. nb < MaxBytes /\ nb \in Nat
  BY <1>1, Constants DEF Known, Held, Holders, Holder
<1>3. TcIndex[nb] \in Bins /\ p \in Range(lst[t][TcIndex[nb]])
  BY <1>1
<1> SUFFICES ASSUME NEW i \in Bins, TcIndex[nb] = i, NEW s, s = lst[t][i]
             PROVE  Found(View(t), kind, nb)
  BY <1>2, <1>3
<1>4. IsList(next, cache[t].heads[TcIndex[nb]], s) /\ s \in Seq(Places)
  BY Lookup
<1>5. PICK n \in 0 .. Len(s) :
        /\ Stops(kind, nb, s, n)
        /\ ReadLink(View(t), TcIndex[nb], LinkFor(View(t), kind, nb)) = At(s, n + 1)
  <2>1. \E n \in 0 .. Len(s) :
          /\ LinkFor(View(t), kind, nb) = At(s, n) /\ Stops(kind, nb, s, n)
          /\ ReadLink(View(t), TcIndex[nb], LinkFor(View(t), kind, nb)) = At(s, n + 1)
    BY <1>4, LinkIs
  <2> QED BY <2>1
<1>6. PICK k \in 1 .. Len(s) : s[k] = p
  BY <1>3, <1>4, RangeIs
<1>7. k > n
  <2> SUFFICES ASSUME k <= n PROVE FALSE
    BY <1>4
  <2>1. k \in 1 .. n
    BY <1>4
  <2>2. ~ (out[p] < nb) /\ (kind = "memalign" => ~ Passed(p, nb))
    BY <1>2 DEF Passed
  <2> QED BY <1>4, <1>5, <1>6, <2>1, <2>2 DEF Stops
<1>8. n + 1 \in 1 .. Len(s) /\ n < Len(s) /\ n + 1 <= k
  BY <1>4, <1>7
<1>9. PICK e : e = s[n + 1]
  OBVIOUS
<1>10. e \in Range(lst[t][i]) /\ e \in Places
  BY <1>4, <1>8, <1>9, RangeIs
<1>11. TcIndex[out[e]] = i /\ out[e] \in Sizes /\ out[e] \in Nat /\ out[e] < MaxBytes
  BY <1>10, InList
<1>12. out[e] = nb
  <2>1. CASE i \in SmallBins
    BY <1>2, <1>11, <2>1, Constants
  <2>2. CASE i \notin SmallBins
    <3>1. out[e] <= out[p]
      <4>1. CASE n + 1 = k
        BY <1>6, <1>9, <1>11, <4>1
      <4>2. CASE n + 1 < k
        BY <1>6, <1>8, <1>9, <2>2, <4>2 DEF Known, Held, Sorted
      <4> QED BY <1>4, <1>8, <4>1, <4>2
    <3>2. ~ (out[e] < nb)
      BY <1>5, <1>8, <1>9, <2>2 DEF Stops, Passed
    <3> QED BY <1>2, <1>11, <3>1, <3>2
  <2> QED BY <2>1, <2>2
<1>13. kind = "memalign" => e \in Aligned
  BY <1>5, <1>8, <1>9, <1>12 DEF Stops, Passed
<1>14. e # NULL /\ ReadLink(View(t), TcIndex[nb], LinkFor(View(t), kind, nb)) = e
  BY <1>5, <1>8, <1>9, <1>10, Constants DEF At
<1> QED BY <1>12, <1>13, <1>14 DEF Found

(* A request goes to an arena only when its thread's cache has no block of  *)
(* that size and alignment: the sorted lists of large blocks, and the walk  *)
(* past blocks that are not aligned, hide none (malloc.c:3103-3143,         *)
(* 3299-3321).                                                              *)
THEOREM AlwaysNothingOverlooked == Spec => NothingOverlooked
<1> DEFINE Missing(t) == \A p \in CachedBy(t) :
                           out[p] # op'[t].nb \/ (op'[t].kind = "memalign" /\ p \notin Aligned)
           Looked == \A t \in Threads : pc[t] = "idle" /\ pc'[t] = "arena" => Missing(t)
<1>1. CacheInv /\ [Next]_vars => [Looked]_vars
  <2> SUFFICES ASSUME CacheInv, Next, NEW t \in Threads, pc[t] = "idle", pc'[t] = "arena",
                      NEW p \in CachedBy(t), out[p] = op'[t].nb, op'[t].kind = "memalign" => p \in Aligned
               PROVE  FALSE
    OBVIOUS
  <2>1. PICK lst, role, own : Known(lst, role, own)
    BY DEF CacheInv, Known
  <2>2. PICK kind \in {"malloc", "memalign"}, nb \in Requests : CacheMiss(t, kind, nb)
    BY OnlyMiss DEF CacheInv
  <2>3. op' = [op EXCEPT ![t] = OpMalloc(kind, nb)] /\ (nb < MaxBytes => ~ Found(View(t), kind, nb))
    BY <2>2 DEF CacheMiss, OpMalloc
  <2>4. op'[t].kind = kind /\ op'[t].nb = nb
    <3>1. nb \in Nat /\ op \in [Threads -> OpRecords]
      BY Constants DEF CacheInv, TypeOK
    <3> QED BY <2>3, <3>1, OpsAre
  <2>5. nb < MaxBytes /\ Found(View(t), kind, nb)
    BY <2>1, <2>4, FoundIfThere
  <2> QED BY <2>3, <2>5
<1> QED BY <1>1, AlwaysCacheInv, PTL DEF Spec, NothingOverlooked

=============================================================================
