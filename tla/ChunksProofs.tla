---------------------------- MODULE ChunksProofs ----------------------------
(***************************************************************************)
(* What the operations of Chunks keep: the memory of an arena stays tiled   *)
(* by its chunks, with boundary tags that agree, and its bins hold the free *)
(* ones. Proved for any memory.                                             *)
(***************************************************************************)
EXTENDS Chunks, NumberLemmas, SequenceTheorems

Header == [size : Nat, pinuse : BOOLEAN, prev : Nat]

(* The headers of an arena: c, by address. A chunk ends where the next one  *)
(* can begin; that of size 0, the last fencepost of a heap, takes one unit. *)
End(c, p)  == p + c[p].size
Span(c, p) == <<p, IF c[p].size = 0 THEN p + 1 ELSE p + c[p].size>>

(* F are the free chunks and X those in use, by the program or a call. G is *)
(* the set of the intervals of memory a chunk may be.                       *)
Place(p, n)    == p \in Nat \ {0} /\ n \in Nat
Headers(c)     == DOMAIN c \subseteq Nat \ {0} /\ c \in [DOMAIN c -> Header]
Ordered(c)     == \A p, q \in DOMAIN c : p < q => End(c, p) <= q
Within(c, G)   == \A p \in DOMAIN c : Span(c, p) \in G
Parts(c, top, F, X) ==
  /\ top \in DOMAIN c /\ F \subseteq DOMAIN c \ {top} /\ X \subseteq DOMAIN c \ {top} /\ F \cap X = {}
  /\ c[top].size >= 2
FreeTags(c, top, F) ==
  \A p \in F : /\ c[p].size >= 2 /\ c[p].pinuse
               /\ End(c, p) \in DOMAIN c \ {top}
               /\ ~ c[End(c, p)].pinuse /\ c[End(c, p)].prev = c[p].size
UsedTags(c, X) ==
  \A p \in X : c[p].size >= 2 /\ End(c, p) \in DOMAIN c /\ c[End(c, p)].pinuse
Follows(c, top, S) ==
  \A p \in S : End(c, p) = top \/ (c[End(c, p)].size > 0 /\ End(c, End(c, p)) \in DOMAIN c)
PrevTags(c, top, F) ==
  \A q \in DOMAIN c : ~ c[q].pinuse =>
    q # top /\ q - c[q].prev \in F /\ c[q - c[q].prev].size = c[q].prev
Fences(c, S) ==
  \A p \in S : /\ c[p].size < 2 \/ (End(c, p) \in DOMAIN c /\ c[End(c, p)].size = 0)
               /\ End(c, p) \in DOMAIN c \/ c[p].size = 1
LastFences(c, S) ==
  \A p \in DOMAIN c : c[p].size = 0 =>
    /\ c[p].pinuse /\ c[p].prev \in {1, 2}
    /\ p - c[p].prev \in S /\ c[p - c[p].prev].size = c[p].prev

Tiled(c, top, F, X, G) ==
  /\ Headers(c) /\ Ordered(c) /\ Within(c, G) /\ Parts(c, top, F, X)
  /\ FreeTags(c, top, F) /\ UsedTags(c, X) /\ Follows(c, top, F \cup X) /\ PrevTags(c, top, F)
  /\ Fences(c, DOMAIN c \ (F \cup X \cup {top})) /\ LastFences(c, DOMAIN c \ (F \cup X \cup {top}))

(* Parts of an interval, and two that meet, are intervals as well.          *)
Closed(G) ==
  /\ \A a, b, d, e \in Nat : <<a, e>> \in G /\ a <= b /\ b < d /\ d <= e => <<b, d>> \in G
  /\ \A a, b, d \in Nat : <<a, b>> \in G /\ <<b, d>> \in G => <<a, d>> \in G

(* The fields of a header.                                                  *)
LEMMA Fields ==
  ASSUME NEW c, Headers(c)
  PROVE  \A p \in DOMAIN c : /\ p \in Nat /\ p > 0 /\ c[p].size \in Nat /\ c[p].prev \in Nat
                            /\ c[p].pinuse \in BOOLEAN /\ End(c, p) \in Nat /\ End(c, p) = p + c[p].size
                            /\ c[p] = [size |-> c[p].size, pinuse |-> c[p].pinuse, prev |-> c[p].prev]
BY DEF Headers, Header, End

(* A chunk begins nowhere but at its own header.                            *)
LEMMA NoneInside ==
  ASSUME NEW c, Headers(c), Ordered(c), NEW p \in DOMAIN c, NEW q \in DOMAIN c, p <= q, q < End(c, p)
  PROVE  q = p
BY DEF Headers, Header, Ordered, End

(* Two chunks that end at one place are one, if none of them is empty.      *)
LEMMA SameEnd ==
  ASSUME NEW c, Headers(c), Ordered(c), NEW p \in DOMAIN c, NEW q \in DOMAIN c,
         End(c, p) = End(c, q), c[p].size > 0, c[q].size > 0
  PROVE  p = q
BY DEF Headers, Header, Ordered, End

(* What the clear bit of a chunk says.                                      *)
LEMMA FreeBefore ==
  ASSUME NEW c, NEW top, NEW F, NEW X, NEW G, Tiled(c, top, F, X, G),
         NEW p \in DOMAIN c, c[p].size > 0, End(c, p) \in DOMAIN c, ~ c[End(c, p)].pinuse
  PROVE  p \in F
<1>1. PICK q \in F : q = End(c, p) - c[End(c, p)].prev /\ c[q].size = c[End(c, p)].prev
  BY DEF Tiled, PrevTags
<1>2. q \in DOMAIN c /\ End(c, q) = End(c, p) /\ c[q].size > 0
  BY <1>1 DEF Tiled, Parts, FreeTags, End, Headers, Header
<1> QED BY <1>1, <1>2, SameEnd DEF Tiled

----------------------------------------------------------------------------
(* The operations on headers, as functions from c.                          *)
NewHead(c, p, n, b) ==
  [q \in DOMAIN c \cup {p} |->
     IF q # p THEN c[q]
     ELSE [size |-> n, pinuse |-> b, prev |-> IF p \in DOMAIN c THEN c[p].prev ELSE 0]]
UsedHead(c, p, n) ==
  [q \in DOMAIN c \cup {p} |->
     IF q # p THEN c[q]
     ELSE [size |-> n, pinuse |-> TRUE, prev |-> IF p \in DOMAIN c THEN c[p].prev ELSE 0]]
Foot(c, p, n)   == [c EXCEPT ![p + n].prev = n]
SetBit(c, q)    == [c EXCEPT ![q].pinuse = TRUE, ![q].prev = 0]
ClearBit(c, q)  == [c EXCEPT ![q].pinuse = FALSE]
Without(c, q)   == [p \in DOMAIN c \ {q} |-> c[p]]

(* What each of them leaves.                                                *)
LEMMA OldHeadOk ==
  ASSUME NEW c, Headers(c), NEW p \in DOMAIN c, NEW n \in Nat, NEW b \in BOOLEAN,
         NEW d, d = NewHead(c, p, n, b)
  PROVE  /\ Headers(d) /\ DOMAIN d = DOMAIN c
         /\ d[p] = [size |-> n, pinuse |-> b, prev |-> c[p].prev]
         /\ \A q \in DOMAIN c \ {p} : d[q] = c[q]
<1>1. c[p].prev \in Nat /\ DOMAIN c \cup {p} = DOMAIN c
  BY DEF Headers, Header
<1>2. d = [q \in DOMAIN c |-> IF q # p THEN c[q] ELSE [size |-> n, pinuse |-> b, prev |-> c[p].prev]]
  BY <1>1 DEF NewHead
<1>3. d \in [DOMAIN c -> Header]
  BY <1>1, <1>2 DEF Headers, Header
<1> QED BY <1>2, <1>3 DEF Headers

(* set_head of a chunk with PREV_INUSE set changes its size and bit only.   *)
LEMMA UsedHeadOk ==
  ASSUME NEW c, Headers(c), NEW p \in DOMAIN c, NEW n \in Nat, NEW d, d = UsedHead(c, p, n)
  PROVE  /\ Headers(d) /\ DOMAIN d = DOMAIN c
         /\ d[p].size = n /\ d[p].pinuse /\ d[p].prev = c[p].prev
         /\ \A q \in DOMAIN c \ {p} : d[q] = c[q]
<1>1. c[p].prev \in Nat /\ DOMAIN c \cup {p} = DOMAIN c
  BY DEF Headers, Header
<1>2. d = [q \in DOMAIN c |-> IF q # p THEN c[q] ELSE [size |-> n, pinuse |-> TRUE, prev |-> c[p].prev]]
  BY <1>1 DEF UsedHead
<1>3. [size |-> n, pinuse |-> TRUE, prev |-> c[p].prev] \in Header
  BY <1>1 DEF Header
<1>4. d \in [DOMAIN c -> Header]
  BY <1>2, <1>3 DEF Headers
<1>5. d[p] = [size |-> n, pinuse |-> TRUE, prev |-> c[p].prev] /\ \A q \in DOMAIN c \ {p} : d[q] = c[q]
  BY <1>2
<1>6. d[p].size = n /\ d[p].pinuse /\ d[p].prev = c[p].prev
  BY <1>5
<1> QED BY <1>4, <1>5, <1>6 DEF Headers

(* set_head where no header was gives one with an empty footer in front.    *)
LEMMA FreshHeadOk ==
  ASSUME NEW c, Headers(c), NEW p, p \notin DOMAIN c, NEW n, Place(p, n), NEW d, d = UsedHead(c, p, n)
  PROVE  /\ Headers(d) /\ \A q : q \in DOMAIN d <=> q \in DOMAIN c \/ q = p
         /\ d[p].size = n /\ d[p].pinuse /\ d[p].prev = 0
         /\ \A q \in DOMAIN c : d[q] = c[q]
<1>1. d = [q \in DOMAIN c \cup {p} |-> IF q # p THEN c[q] ELSE [size |-> n, pinuse |-> TRUE, prev |-> 0]]
  BY DEF UsedHead
<1>2. [size |-> n, pinuse |-> TRUE, prev |-> 0] \in Header
  BY DEF Header, Place
<1>3. d \in [DOMAIN c \cup {p} -> Header]
  BY <1>1, <1>2 DEF Headers
<1>4. d[p] = [size |-> n, pinuse |-> TRUE, prev |-> 0] /\ \A q \in DOMAIN c : d[q] = c[q]
  BY <1>1
<1>5. d[p].size = n /\ d[p].pinuse /\ d[p].prev = 0
  BY <1>4
<1> QED BY <1>3, <1>4, <1>5 DEF Headers, Place

(* set_foot writes the prev_size of the chunk behind and nothing else.      *)
LEMMA FootOk ==
  ASSUME NEW c, Headers(c), NEW p, NEW n \in Nat, p + n \in DOMAIN c, NEW d, d = Foot(c, p, n)
  PROVE  /\ Headers(d) /\ DOMAIN d = DOMAIN c
         /\ d[p + n] = [size |-> c[p + n].size, pinuse |-> c[p + n].pinuse, prev |-> n]
         /\ \A q \in DOMAIN c \ {p + n} : d[q] = c[q]
<1> DEFINE r == p + n
<1>1. d = [c EXCEPT ![r].prev = n] /\ r \in DOMAIN c
  BY DEF Foot
<1> HIDE DEF r
<1>2. c[r] \in Header
  BY <1>1 DEF Headers
<1>3. d \in [DOMAIN c -> Header]
  BY <1>1, <1>2 DEF Headers, Header
<1>4. DOMAIN d = DOMAIN c
         /\ d[r] = [size |-> c[r].size, pinuse |-> c[r].pinuse, prev |-> n]
         /\ \A q \in DOMAIN c \ {r} : d[q] = c[q]
  BY <1>1, <1>2 DEF Headers, Header
<1> QED BY <1>3, <1>4 DEF Headers, r

(* set_inuse_bit_at_offset: the word in front becomes user data.            *)
LEMMA SetBitOk ==
  ASSUME NEW c, Headers(c), NEW r \in DOMAIN c, NEW d, d = SetBit(c, r)
  PROVE  /\ Headers(d) /\ DOMAIN d = DOMAIN c
         /\ d[r].size = c[r].size /\ d[r].pinuse /\ d[r].prev = 0
         /\ \A q \in DOMAIN c \ {r} : d[q] = c[q]
<1>2. c[r] \in Header
  BY DEF Headers
<1>3. d \in [DOMAIN c -> Header]
  BY <1>2 DEF Headers, Header, SetBit
<1>4. DOMAIN d = DOMAIN c
         /\ d[r] = [size |-> c[r].size, pinuse |-> TRUE, prev |-> 0]
         /\ \A q \in DOMAIN c \ {r} : d[q] = c[q]
  BY <1>2 DEF Headers, Header, SetBit
<1>5. d[r].size = c[r].size /\ d[r].pinuse /\ d[r].prev = 0
  BY <1>4
<1> QED BY <1>3, <1>4, <1>5 DEF Headers

(* clear_inuse_bit_at_offset changes one bit.                               *)
LEMMA ClearBitOk ==
  ASSUME NEW c, Headers(c), NEW r \in DOMAIN c, NEW d, d = ClearBit(c, r)
  PROVE  /\ Headers(d) /\ DOMAIN d = DOMAIN c
         /\ d[r].size = c[r].size /\ ~ d[r].pinuse /\ d[r].prev = c[r].prev
         /\ \A q \in DOMAIN c \ {r} : d[q] = c[q]
<1>2. c[r] \in Header
  BY DEF Headers
<1>3. d \in [DOMAIN c -> Header]
  BY <1>2 DEF Headers, Header, ClearBit
<1>4. DOMAIN d = DOMAIN c
         /\ d[r] = [size |-> c[r].size, pinuse |-> FALSE, prev |-> c[r].prev]
         /\ \A q \in DOMAIN c \ {r} : d[q] = c[q]
  BY <1>2 DEF Headers, Header, ClearBit
<1>5. d[r].size = c[r].size /\ ~ d[r].pinuse /\ d[r].prev = c[r].prev
  BY <1>4
<1> QED BY <1>3, <1>4, <1>5 DEF Headers

(* A header that becomes data of the chunk before it is gone; no other.     *)
LEMMA WithoutOk ==
  ASSUME NEW c, Headers(c), NEW r, NEW d, d = Without(c, r)
  PROVE  /\ Headers(d) /\ DOMAIN d = DOMAIN c \ {r}
         /\ \A q \in DOMAIN c \ {r} : d[q] = c[q]
BY DEF Without, Headers, Header

(* A chunk is taken from its list: the bit behind it is set.                *)
Use(c, v) == SetBit(c, End(c, v))

(* A free chunk whose bit behind is set is one in use; the tags still       *)
(* agree.                                                                   *)
LEMMA UseIs ==
  ASSUME NEW c, NEW top, NEW F, NEW X, NEW G, Tiled(c, top, F, X, G), NEW v \in F
  PROVE  /\ Tiled(Use(c, v), top, F \ {v}, X \cup {v}, G)
         /\ DOMAIN Use(c, v) = DOMAIN c /\ \A q \in DOMAIN c : Use(c, v)[q].size = c[q].size
<1> DEFINE d == Use(c, v)
           n == End(c, v)
           D == DOMAIN c
<1>0. Headers(c) /\ \A p \in D : /\ p \in Nat /\ p > 0 /\ c[p].size \in Nat /\ c[p].prev \in Nat
                            /\ c[p].pinuse \in BOOLEAN /\ End(c, p) \in Nat /\ End(c, p) = p + c[p].size
  BY Fields DEF Tiled
<1>1. v \in D \ {top} /\ n \in D \ {top} /\ n > v /\ ~ c[n].pinuse /\ c[n].prev = c[v].size /\ c[v].size >= 2
  BY <1>0 DEF Tiled, Parts, FreeTags
<1>2. DOMAIN d = D /\ d[n] = [size |-> c[n].size, pinuse |-> TRUE, prev |-> 0]
      /\ \A q \in D \ {n} : d[q] = c[q]
  BY <1>1 DEF Use, SetBit, Tiled, Headers, Header
<1>3. \A q \in D : d[q].size = c[q].size /\ End(d, q) = End(c, q) /\ Span(d, q) = Span(c, q)
  BY <1>2 DEF End, Span
<1>4. c[n].size > 0
  BY <1>0, <1>1 DEF Tiled, LastFences
<1> HIDE DEF d
<1>5. Headers(d) /\ Ordered(d) /\ Within(d, G)
  <2>1. Headers(d)
    <3>1. d \in [D -> Header]
      <4>1. d = [q \in D |-> d[q]]
        BY DEF d, Use, SetBit, Tiled, Headers
      <4>2. \A q \in D : d[q] \in Header
        <5>1. d[n] \in Header
          BY <1>0, <1>1, <1>2 DEF Header
        <5>2. \A q \in D \ {n} : d[q] \in Header
          BY <1>2 DEF Tiled, Headers
        <5> QED BY <5>1, <5>2
      <4> QED BY <4>1, <4>2
    <3> QED BY <3>1, <1>0, <1>2 DEF Headers
  <2>2. Ordered(d) /\ Within(d, G)
    BY <1>2, <1>3 DEF Tiled, Ordered, Within
  <2> QED BY <2>1, <2>2
<1>6. Parts(d, top, F \ {v}, X \cup {v})
  BY <1>1, <1>2, <1>3 DEF Tiled, Parts
<1>7. \A p \in F \ {v} : End(c, p) # n
  BY <1>0, <1>1, SameEnd DEF Tiled, Parts, FreeTags
<1>8. FreeTags(d, top, F \ {v})
  <2> SUFFICES ASSUME NEW p \in F \ {v}
               PROVE  /\ d[p].size >= 2 /\ d[p].pinuse /\ End(d, p) \in D \ {top}
                      /\ ~ d[End(d, p)].pinuse /\ d[End(d, p)].prev = d[p].size
    BY <1>2 DEF FreeTags
  <2>1. /\ p \in D /\ c[p].size >= 2 /\ c[p].pinuse /\ End(c, p) \in D \ {top}
        /\ ~ c[End(c, p)].pinuse /\ c[End(c, p)].prev = c[p].size
    BY DEF Tiled, Parts, FreeTags
  <2> QED BY <2>1, <1>2, <1>3, <1>7
<1>9. UsedTags(d, X \cup {v})
  <2> SUFFICES ASSUME NEW p \in X \cup {v}
               PROVE  d[p].size >= 2 /\ End(d, p) \in D /\ d[End(d, p)].pinuse
    BY <1>2 DEF UsedTags
  <2>1. p \in D /\ c[p].size >= 2 /\ End(c, p) \in D /\ (c[End(c, p)].pinuse \/ p = v)
    BY <1>1 DEF Tiled, Parts, UsedTags
  <2> QED BY <2>1, <1>2, <1>3
<1>10. Follows(d, top, (F \ {v}) \cup (X \cup {v}))
  <2> SUFFICES ASSUME NEW p \in F \cup X
               PROVE  End(d, p) = top \/ (d[End(d, p)].size > 0 /\ End(d, End(d, p)) \in D)
    BY <1>2 DEF Follows
  <2>1. p \in D /\ End(c, p) \in D /\ (End(c, p) = top \/ (c[End(c, p)].size > 0 /\ End(c, End(c, p)) \in D))
    BY DEF Tiled, Parts, FreeTags, UsedTags, Follows
  <2> QED BY <2>1, <1>3
<1>11. PrevTags(d, top, F \ {v})
  <2> SUFFICES ASSUME NEW q \in D, ~ d[q].pinuse
               PROVE  q # top /\ q - d[q].prev \in F \ {v} /\ d[q - d[q].prev].size = d[q].prev
    BY <1>2 DEF PrevTags
  <2>1. q # n /\ d[q] = c[q]
    BY <1>2
  <2>2. q # top /\ q - c[q].prev \in F /\ c[q - c[q].prev].size = c[q].prev
    BY <2>1 DEF Tiled, PrevTags
  <2>3. q - c[q].prev # v
    BY <2>1, <2>2, <1>0, <1>1
  <2>4. q - c[q].prev \in D
    BY <2>2 DEF Tiled, Parts
  <2> QED BY <1>3, <2>1, <2>2, <2>3, <2>4
<1>12. DOMAIN d \ ((F \ {v}) \cup (X \cup {v}) \cup {top}) = D \ (F \cup X \cup {top})
  BY <1>2
<1>13. Fences(d, D \ (F \cup X \cup {top})) /\ LastFences(d, D \ (F \cup X \cup {top}))
  BY <1>0, <1>1, <1>2, <1>3, <1>4 DEF Tiled, Fences, LastFences
<1> HIDE DEF n
<1>20. Tiled(d, top, F \ {v}, X \cup {v}, G)
  BY <1>5, <1>6, <1>8, <1>9, <1>10, <1>11, <1>12, <1>13 DEF Tiled
<1> QED BY <1>2, <1>3, <1>20 DEF d

----------------------------------------------------------------------------
(* A chunk in use is cut in two.                                            *)
Split(c, p, n) == UsedHead(NewHead(c, p, n, c[p].pinuse), p + n, c[p].size - n)

(* A chunk in use cut in two is two chunks in use.                          *)
LEMMA SplitIs ==
  ASSUME NEW c, NEW top, NEW F, NEW X, NEW G, Tiled(c, top, F, X, G), Closed(G),
         NEW p \in X, NEW n \in Nat, n >= 2, c[p].size - n >= 2
  PROVE  /\ Tiled(Split(c, p, n), top, F, X \cup {p + n}, G) /\ p + n \notin DOMAIN c
         /\ \A q : q \in DOMAIN Split(c, p, n) <=> q \in DOMAIN c \/ q = p + n
         /\ \A q \in DOMAIN c \ {p} : Split(c, p, n)[q].size = c[q].size
         /\ Split(c, p, n)[p].size = n /\ Split(c, p, n)[p + n].size = c[p].size - n
         /\ (Split(c, p, n)[p].pinuse <=> c[p].pinuse) /\ Split(c, p, n)[p + n].pinuse
<1> DEFINE d == Split(c, p, n)
           r == p + n
           D == DOMAIN c
           S == D \ (F \cup X \cup {top})
<1>0. Headers(c) /\ \A q \in D : /\ q \in Nat /\ q > 0 /\ c[q].size \in Nat /\ c[q].prev \in Nat
                            /\ c[q].pinuse \in BOOLEAN /\ End(c, q) \in Nat /\ End(c, q) = q + c[q].size
  BY Fields DEF Tiled
<1>1. /\ p \in D \ {top} /\ End(c, p) \in D /\ c[End(c, p)].pinuse
      /\ r \in Nat /\ r > p /\ r < End(c, p) /\ r # top
      /\ c[p].size - n \in Nat /\ r + (c[p].size - n) = End(c, p)
  BY <1>0, NoneInside DEF Tiled, Parts, UsedTags
<1>2. r \notin D
  BY <1>0, <1>1, NoneInside DEF Tiled
<1>3. Headers(d) /\ DOMAIN d = D \cup {r}
      /\ d[p] = [size |-> n, pinuse |-> c[p].pinuse, prev |-> c[p].prev]
      /\ d[r].size = c[p].size - n /\ d[r].pinuse /\ d[r].prev = 0
      /\ \A q \in D \ {p} : d[q] = c[q]
  <2> DEFINE c1 == NewHead(c, p, n, c[p].pinuse)
             m == c[p].size - n
  <2>1. /\ Headers(c) /\ p \in D /\ c[p].pinuse \in BOOLEAN /\ r \in Nat \ {0} /\ m \in Nat
        /\ d = UsedHead(c1, r, m)
    BY <1>0, <1>1 DEF Split
  <2>2. /\ Headers(c1) /\ DOMAIN c1 = D
        /\ c1[p] = [size |-> n, pinuse |-> c[p].pinuse, prev |-> c[p].prev]
        /\ \A q \in D \ {p} : c1[q] = c[q]
    BY ONLY <2>1, OldHeadOk, n \in Nat
  <2> HIDE DEF c1, d, r, m
  <2>3. /\ Headers(d) /\ DOMAIN d = D \cup {r} /\ d[r].size = m /\ d[r].pinuse /\ d[r].prev = 0
        /\ \A q \in D : d[q] = c1[q]
    <3>1. Headers(c1) /\ d = UsedHead(c1, r, m) /\ r \notin DOMAIN c1 /\ Place(r, m)
      BY ONLY <2>1, <2>2, <1>2 DEF Place
    <3>2. /\ Headers(d) /\ \A q : q \in DOMAIN d <=> q \in DOMAIN c1 \/ q = r
          /\ d[r].size = m /\ d[r].pinuse /\ d[r].prev = 0
          /\ \A q \in DOMAIN c1 : d[q] = c1[q]
      BY ONLY <3>1, FreshHeadOk
    <3> QED BY ONLY <2>2, <3>2
  <2> QED BY ONLY <2>1, <2>2, <2>3 DEF m
<1>4. End(d, p) = r /\ End(d, r) = End(c, p) /\ \A q \in D \ {p} : End(d, q) = End(c, q) /\ Span(d, q) = Span(c, q)
  BY <1>1, <1>2, <1>3 DEF End, Span
<1>5. c[p].size >= 2 /\ c[p].size = n + (c[p].size - n)
  BY <1>0, <1>1
<1> HIDE DEF d, r
<1>7. Ordered(d)
  <2> SUFFICES ASSUME NEW q \in D \cup {r}, NEW u \in D \cup {r}, q < u PROVE End(d, q) <= u
    BY <1>3 DEF Ordered
  <2>1. CASE q \in D \ {p} /\ u \in D
    BY <1>4, <2>1 DEF Tiled, Ordered
  <2>2. CASE q = p /\ u \in D
    <3>1. End(c, p) <= u
      BY <1>1, <2>2 DEF Tiled, Ordered
    <3> QED BY <1>0, <1>1, <1>4, <2>2, <3>1
  <2>3. CASE q \in D \ {p} /\ u = r
    <3>1. q < p
      BY <1>0, <1>1, <2>3 DEF Tiled, Ordered
    <3> QED BY <1>0, <1>1, <1>4, <2>3, <3>1 DEF Tiled, Ordered
  <2>4. CASE q = p /\ u = r
    BY <1>1, <1>4, <2>4
  <2>5. CASE q = r /\ u \in D
    <3>1. p < u
      BY <1>0, <1>1, <2>5
    <3> QED BY <1>1, <1>4, <2>5, <3>1 DEF Tiled, Ordered
  <2> QED BY <1>1, <2>1, <2>2, <2>3, <2>4, <2>5
<1>8. Within(d, G)
  <2>1. Span(c, p) = <<p, End(c, p)>> /\ Span(c, p) \in G
    BY <1>0, <1>1, <1>5 DEF Span, Tiled, Within
  <2>2. <<p, r>> \in G /\ <<r, End(c, p)>> \in G
    BY <1>0, <1>1, <2>1 DEF Closed
  <2>3. Span(d, p) = <<p, r>> /\ Span(d, r) = <<r, End(c, p)>>
    BY <1>1, <1>3, <1>4, <1>5 DEF Span, End
  <2> QED BY <1>3, <1>4, <2>2, <2>3 DEF Within, Tiled
<1>9. Parts(d, top, F, X \cup {r})
  BY <1>1, <1>2, <1>3 DEF Tiled, Parts
<1>10. FreeTags(d, top, F)
  <2>1. p \notin F /\ F \subseteq D
    BY DEF Tiled, Parts
  <2> SUFFICES ASSUME NEW q \in F
               PROVE  /\ d[q].size >= 2 /\ d[q].pinuse /\ End(d, q) \in D \ {top}
                      /\ ~ d[End(d, q)].pinuse /\ d[End(d, q)].prev = d[q].size
    BY <1>3 DEF FreeTags
  <2>2. /\ c[q].size >= 2 /\ c[q].pinuse /\ End(c, q) \in D \ {top}
        /\ ~ c[End(c, q)].pinuse /\ c[End(c, q)].prev = c[q].size
    BY DEF Tiled, FreeTags
  <2> QED BY <1>3, <1>4, <2>1, <2>2
<1>11. UsedTags(d, X \cup {r})
  <2> SUFFICES ASSUME NEW q \in X \cup {r}
               PROVE  d[q].size >= 2 /\ End(d, q) \in D \cup {r} /\ d[End(d, q)].pinuse
    BY <1>3 DEF UsedTags
  <2>1. q \in X => q \in D /\ c[q].size >= 2 /\ End(c, q) \in D /\ c[End(c, q)].pinuse
    BY DEF Tiled, Parts, UsedTags
  <2>2. CASE q \in X \ {p}
    BY <1>3, <1>4, <2>1, <2>2
  <2>3. CASE q = p
    BY <1>3, <1>4, <2>3
  <2>4. CASE q = r
    BY <1>1, <1>3, <1>4, <2>4
  <2> QED BY <2>2, <2>3, <2>4
<1>12. Follows(d, top, F \cup (X \cup {r}))
  <2> SUFFICES ASSUME NEW q \in F \cup X \cup {r}
               PROVE  End(d, q) = top \/ (d[End(d, q)].size > 0 /\ End(d, End(d, q)) \in D \cup {r})
    BY <1>3 DEF Follows
  <2>1. \A u \in F \cup X : u \in D /\ End(c, u) \in D
                            /\ (End(c, u) = top \/ (c[End(c, u)].size > 0 /\ End(c, End(c, u)) \in D))
    BY DEF Tiled, Parts, FreeTags, UsedTags, Follows
  <2>2. CASE q = p
    BY <1>1, <1>3, <1>4, <2>2
  <2>3. CASE q = r
    <3>1. End(c, p) # p
      BY <1>0, <1>1
    <3> QED BY <1>1, <1>3, <1>4, <2>1, <2>3, <3>1
  <2>4. CASE q \in (F \cup X) \ {p}
    <3>1. CASE End(c, q) = p
      BY <1>1, <1>3, <1>4, <2>1, <2>4, <3>1
    <3>2. CASE End(c, q) # p
      BY <1>3, <1>4, <2>1, <2>4, <3>2
    <3> QED BY <3>1, <3>2
  <2> QED BY <2>2, <2>3, <2>4
<1>13. PrevTags(d, top, F)
  <2> SUFFICES ASSUME NEW q \in D, ~ d[q].pinuse
               PROVE  q # top /\ q - d[q].prev \in F /\ d[q - d[q].prev].size = d[q].prev
    BY <1>3 DEF PrevTags
  <2>1. ~ c[q].pinuse /\ d[q].prev = c[q].prev
    BY <1>3
  <2>2. q # top /\ q - c[q].prev \in F /\ c[q - c[q].prev].size = c[q].prev
    BY <2>1 DEF Tiled, PrevTags
  <2>3. q - c[q].prev \in D \ {p}
    BY <2>2 DEF Tiled, Parts
  <2> QED BY <1>3, <2>1, <2>2, <2>3
<1>14. (D \cup {r}) \ (F \cup (X \cup {r}) \cup {top}) = S /\ p \notin S /\ S \subseteq D
  BY <1>2
<1>15. Fences(d, S)
  <2> SUFFICES ASSUME NEW q \in S
               PROVE  /\ d[q].size < 2 \/ (End(d, q) \in D \cup {r} /\ d[End(d, q)].size = 0)
                      /\ End(d, q) \in D \cup {r} \/ d[q].size = 1
    BY <1>3 DEF Fences
  <2>1. /\ c[q].size < 2 \/ (End(c, q) \in D /\ c[End(c, q)].size = 0)
        /\ End(c, q) \in D \/ c[q].size = 1
    BY DEF Tiled, Fences
  <2> QED BY <1>3, <1>4, <1>5, <1>14, <2>1
<1>16. LastFences(d, S)
  <2> SUFFICES ASSUME NEW q \in D \cup {r}, d[q].size = 0
               PROVE  /\ d[q].pinuse /\ d[q].prev \in {1, 2}
                      /\ q - d[q].prev \in S /\ d[q - d[q].prev].size = d[q].prev
    BY <1>3 DEF LastFences
  <2>1. q \in D \ {p} /\ c[q].size = 0
    BY <1>3
  <2> QED BY <1>3, <1>14, <2>1 DEF Tiled, LastFences
<1>20. Tiled(d, top, F, X \cup {r}, G)
  BY <1>2, <1>3, <1>7, <1>8, <1>9, <1>10, <1>11, <1>12, <1>13, <1>14, <1>15, <1>16 DEF Tiled
<1>21. d[p].size = n /\ (d[p].pinuse <=> c[p].pinuse)
  BY <1>0, <1>1, <1>3
<1> QED BY <1>2, <1>3, <1>20, <1>21 DEF d, r

----------------------------------------------------------------------------
(* A chunk in use and the one behind it, in use as well, become one.        *)
Join(c, p, q) == NewHead(Without(c, q), p, c[p].size + c[q].size, c[p].pinuse)

(* Two neighbours in use joined are one chunk in use.                       *)
LEMMA JoinIs ==
  ASSUME NEW c, NEW top, NEW F, NEW X, NEW G, Tiled(c, top, F, X, G), Closed(G),
         NEW p \in X, NEW q \in X, q = End(c, p)
  PROVE  /\ Tiled(Join(c, p, q), top, F, X \ {q}, G)
         /\ \A u : u \in DOMAIN Join(c, p, q) <=> u \in DOMAIN c /\ u # q
         /\ \A u \in DOMAIN c \ {p, q} : Join(c, p, q)[u].size = c[u].size
         /\ Join(c, p, q)[p].size = c[p].size + c[q].size
         /\ (Join(c, p, q)[p].pinuse <=> c[p].pinuse)
<1> DEFINE d == Join(c, p, q)
           D == DOMAIN c
           S == D \ (F \cup X \cup {top})
<1>0. Headers(c) /\ \A u \in D : /\ u \in Nat /\ u > 0 /\ c[u].size \in Nat /\ c[u].prev \in Nat
                            /\ c[u].pinuse \in BOOLEAN /\ End(c, u) \in Nat /\ End(c, u) = u + c[u].size
  BY Fields DEF Tiled
<1>1. /\ p \in D \ {top} /\ q \in D \ {top} /\ q > p /\ End(c, q) \in D /\ c[End(c, q)].pinuse
      /\ c[p].size >= 2 /\ c[q].size >= 2 /\ c[q].pinuse /\ End(c, q) > q
  BY <1>0 DEF Tiled, Parts, UsedTags
<1>2. p + (c[p].size + c[q].size) = End(c, q) /\ c[p].size + c[q].size \in Nat
  BY <1>0, <1>1
<1>3. Headers(d) /\ DOMAIN d = D \ {q}
      /\ d[p] = [size |-> c[p].size + c[q].size, pinuse |-> c[p].pinuse, prev |-> c[p].prev]
      /\ \A u \in D \ {p, q} : d[u] = c[u]
  <2> DEFINE c1 == Without(c, q)
  <2>0. Headers(c)
    BY <1>0
  <2>1. Headers(c1) /\ DOMAIN c1 = D \ {q} /\ \A u \in D \ {q} : c1[u] = c[u]
    BY ONLY <2>0, WithoutOk
  <2>2. d = NewHead(c1, p, c[p].size + c[q].size, c[p].pinuse)
    BY DEF Join
  <2> HIDE DEF c1, d
  <2>3. /\ p \in DOMAIN c1 /\ c[p].pinuse \in BOOLEAN
        /\ Headers(c1) /\ c[p].size + c[q].size \in Nat
    BY <1>0, <1>1, <1>2, <2>1
  <2>4. /\ Headers(d) /\ DOMAIN d = DOMAIN c1
        /\ d[p] = [size |-> c[p].size + c[q].size, pinuse |-> c[p].pinuse, prev |-> c1[p].prev]
        /\ \A u \in DOMAIN c1 \ {p} : d[u] = c1[u]
    BY ONLY <2>2, <2>3, OldHeadOk, SMT
  <2> QED BY ONLY <2>1, <2>3, <2>4
<1>4. End(d, p) = End(c, q) /\ \A u \in D \ {p, q} : End(d, u) = End(c, u) /\ Span(d, u) = Span(c, u)
  BY <1>2, <1>3 DEF End, Span
<1>5. \A u \in D \ {p} : c[u].size > 0 => End(c, u) # q
  BY <1>0, <1>1, SameEnd DEF Tiled
<1> HIDE DEF d
<1>7. Ordered(d)
  <2> SUFFICES ASSUME NEW u \in D \ {q}, NEW v \in D \ {q}, u < v PROVE End(d, u) <= v
    BY <1>3 DEF Ordered
  <2>1. CASE u # p
    BY <1>4, <2>1 DEF Tiled, Ordered
  <2>2. CASE u = p
    <3>1. q <= v /\ q # v
      BY <1>1, <2>2 DEF Tiled, Ordered
    <3>2. q < v
      BY <1>0, <1>1, <3>1
    <3> QED BY <1>1, <1>4, <2>2, <3>2 DEF Tiled, Ordered
  <2> QED BY <2>1, <2>2
<1>8. Within(d, G)
  <2>1. Span(c, p) = <<p, q>> /\ Span(c, q) = <<q, End(c, q)>> /\ Span(c, p) \in G /\ Span(c, q) \in G
    BY <1>0, <1>1 DEF Span, Tiled, Within
  <2>2. <<p, End(c, q)>> \in G
    BY <1>0, <1>1, <2>1 DEF Closed
  <2>3. Span(d, p) = <<p, End(c, q)>>
    BY <1>0, <1>1, <1>2, <1>3 DEF Span
  <2> QED BY <1>3, <1>4, <2>2, <2>3 DEF Within, Tiled
<1>9. Parts(d, top, F, X \ {q})
  <2>1. p \notin F /\ q \notin F
    BY DEF Tiled, Parts
  <2> QED BY <1>0, <1>1, <1>3, <2>1 DEF Tiled, Parts
<1>10. FreeTags(d, top, F)
  <2>1. p \notin F /\ q \notin F /\ F \subseteq D
    BY DEF Tiled, Parts
  <2> SUFFICES ASSUME NEW u \in F
               PROVE  /\ d[u].size >= 2 /\ d[u].pinuse /\ End(d, u) \in (D \ {q}) \ {top}
                      /\ ~ d[End(d, u)].pinuse /\ d[End(d, u)].prev = d[u].size
    BY <1>3 DEF FreeTags
  <2>2. /\ c[u].size >= 2 /\ c[u].pinuse /\ End(c, u) \in D \ {top}
        /\ ~ c[End(c, u)].pinuse /\ c[End(c, u)].prev = c[u].size
    BY DEF Tiled, FreeTags
  <2>3. End(c, u) # q
    BY <1>1, <2>2
  <2> QED BY <1>3, <1>4, <2>1, <2>2, <2>3
<1>11. UsedTags(d, X \ {q})
  <2> SUFFICES ASSUME NEW u \in X \ {q}
               PROVE  d[u].size >= 2 /\ End(d, u) \in D \ {q} /\ d[End(d, u)].pinuse
    BY <1>3 DEF UsedTags
  <2>1. u \in D /\ c[u].size >= 2 /\ End(c, u) \in D /\ c[End(c, u)].pinuse
    BY DEF Tiled, Parts, UsedTags
  <2>2. CASE u # p
    <3>0. c[u].size > 0
      BY <1>0, <2>1
    <3>1. End(c, u) # q
      BY <1>5, <2>1, <2>2, <3>0
    <3> QED BY <1>3, <1>4, <2>1, <2>2, <3>1
  <2>3. CASE u = p
    <3>1. End(c, q) # q /\ End(c, q) # p
      BY <1>0, <1>1
    <3>2. d[End(c, q)] = c[End(c, q)]
      BY <1>1, <1>3, <3>1
    <3> QED BY <1>0, <1>1, <1>3, <1>4, <2>3, <3>1, <3>2
  <2> QED BY <2>2, <2>3
<1>12. Follows(d, top, F \cup (X \ {q}))
  <2> SUFFICES ASSUME NEW u \in (F \cup X) \ {q}
               PROVE  End(d, u) = top \/ (d[End(d, u)].size > 0 /\ End(d, End(d, u)) \in D \ {q})
    BY <1>3, q \notin F DEF Follows, Tiled, Parts
  <2>1. \A v \in F \cup X : v \in D /\ c[v].size >= 2 /\ End(c, v) \in D
                            /\ (End(c, v) = top \/ (c[End(c, v)].size > 0 /\ End(c, End(c, v)) \in D))
    BY DEF Tiled, Parts, FreeTags, UsedTags, Follows
  <2>2. CASE u = p
    <3>1. End(c, q) # q /\ End(c, q) # p
      BY <1>0, <1>1
    <3>2. End(c, q) = top \/ (c[End(c, q)].size > 0 /\ End(c, End(c, q)) \in D)
      BY <2>1
    <3>3. c[End(c, q)].size > 0 => End(c, End(c, q)) # q
      BY <1>1, <1>5, <3>1
    <3> QED BY <1>1, <1>3, <1>4, <2>2, <3>1, <3>2, <3>3
  <2>3. CASE u # p
    <3>0. u \in D \ {p, q} /\ c[u].size > 0
      BY <1>0, <2>1, <2>3
    <3>1. End(c, u) # q /\ u \in D \ {p, q}
      BY <1>5, <3>0
    <3>2. CASE End(c, u) = p
      <4>1. d[p].size > 0 /\ End(d, p) \in D \ {q}
        BY <1>0, <1>1, <1>2, <1>3, <1>4
      <4> QED BY <1>4, <3>1, <3>2, <4>1
    <3>3. CASE End(c, u) # p
      <4>1. End(c, u) \in D \ {p, q}
        BY <2>1, <3>1, <3>3
      <4>2. c[End(c, u)].size > 0 => End(c, End(c, u)) # q
        BY <1>5, <4>1
      <4> QED BY <1>3, <1>4, <2>1, <3>1, <4>1, <4>2
    <3> QED BY <3>2, <3>3
  <2> QED BY <2>2, <2>3
<1>13. PrevTags(d, top, F)
  <2> SUFFICES ASSUME NEW u \in D \ {q}, ~ d[u].pinuse
               PROVE  u # top /\ u - d[u].prev \in F /\ d[u - d[u].prev].size = d[u].prev
    BY <1>3 DEF PrevTags
  <2>1. ~ c[u].pinuse /\ d[u].prev = c[u].prev
    BY <1>3
  <2>2. u # top /\ u - c[u].prev \in F /\ c[u - c[u].prev].size = c[u].prev
    BY <2>1 DEF Tiled, PrevTags
  <2>3. u - c[u].prev \in D \ {p, q}
    BY <2>2 DEF Tiled, Parts
  <2> QED BY <1>3, <2>1, <2>2, <2>3
<1>14. (D \ {q}) \ (F \cup (X \ {q}) \cup {top}) = S /\ p \notin S /\ q \notin S /\ S \subseteq D
  OBVIOUS
<1>15. Fences(d, S)
  <2> SUFFICES ASSUME NEW u \in S
               PROVE  /\ d[u].size < 2 \/ (End(d, u) \in D \ {q} /\ d[End(d, u)].size = 0)
                      /\ End(d, u) \in D \ {q} \/ d[u].size = 1
    BY <1>3 DEF Fences
  <2>1. /\ c[u].size < 2 \/ (End(c, u) \in D /\ c[End(c, u)].size = 0)
        /\ End(c, u) \in D \/ c[u].size = 1
    BY DEF Tiled, Fences
  <2>2. End(c, u) # q
    <3>1. u < q => End(c, u) <= p \/ u = p
      BY <1>0, <1>1, <1>14 DEF Tiled, Ordered
    <3> QED BY <1>0, <1>1, <1>14, <3>1
  <2> QED BY <1>0, <1>1, <1>3, <1>4, <1>14, <2>1, <2>2
<1>16. LastFences(d, S)
  <2> SUFFICES ASSUME NEW u \in D \ {q}, d[u].size = 0
               PROVE  /\ d[u].pinuse /\ d[u].prev \in {1, 2}
                      /\ u - d[u].prev \in S /\ d[u - d[u].prev].size = d[u].prev
    BY <1>3 DEF LastFences
  <2>1. u # p
    BY <1>0, <1>1, <1>3
  <2> QED BY <1>3, <1>14, <2>1 DEF Tiled, LastFences
<1> QED BY <1>3, <1>7, <1>8, <1>9, <1>10, <1>11, <1>12, <1>13, <1>14, <1>15, <1>16 DEF Tiled, d

----------------------------------------------------------------------------
(* A chunk in use, with neighbours in use, becomes free.                    *)
FreeUsed(c, p) == Foot(UsedHead(ClearBit(c, End(c, p)), p, c[p].size), p, c[p].size)

(* A chunk in use between two others is freed: bit and footer behind it.    *)
LEMMA FreeUsedIs ==
  ASSUME NEW c, NEW top, NEW F, NEW X, NEW G, Tiled(c, top, F, X, G),
         NEW p \in X, c[p].pinuse, End(c, p) # top, End(c, p) \notin F
  PROVE  /\ Tiled(FreeUsed(c, p), top, F \cup {p}, X \ {p}, G)
         /\ DOMAIN FreeUsed(c, p) = DOMAIN c /\ \A q \in DOMAIN c : FreeUsed(c, p)[q].size = c[q].size
<1> DEFINE d == FreeUsed(c, p)
           n == End(c, p)
           D == DOMAIN c
           S == D \ (F \cup X \cup {top})
<1>0. Headers(c) /\ \A u \in D : /\ u \in Nat /\ u > 0 /\ c[u].size \in Nat /\ c[u].prev \in Nat
                            /\ c[u].pinuse \in BOOLEAN /\ End(c, u) \in Nat /\ End(c, u) = u + c[u].size
  BY Fields DEF Tiled
<1>1. /\ p \in D \ {top} /\ n \in D \ {top} /\ n > p /\ n = p + c[p].size /\ c[p].size >= 2
      /\ c[n].pinuse /\ c[n].size > 0
  BY <1>0 DEF Tiled, Parts, UsedTags, Follows
<1>2. Headers(d) /\ DOMAIN d = D /\ d[p].size = c[p].size /\ d[p].pinuse /\ d[p].prev = c[p].prev
      /\ d[n].size = c[n].size /\ ~ d[n].pinuse /\ d[n].prev = c[p].size
      /\ \A u \in D \ {p, n} : d[u] = c[u]
  <2> DEFINE c1 == ClearBit(c, n)
             m  == c[p].size
             c2 == UsedHead(c1, p, m)
  <2>1. p # n /\ D \cup {p} = D /\ p \in Nat \ {0}
    BY <1>0, <1>1
  <2>2. Headers(c1) /\ DOMAIN c1 = D /\ c1[n].size = c[n].size /\ ~ c1[n].pinuse
        /\ \A u \in D \ {n} : c1[u] = c[u]
    BY <1>0, <1>1, ClearBitOk
  <2> HIDE DEF c1
  <2>3. c2 = UsedHead(c1, p, m) /\ p \in DOMAIN c1 /\ m \in Nat /\ Headers(c1)
    BY <1>0, <1>1, <2>2
  <2>4. d = Foot(c2, p, m)
    BY DEF FreeUsed, c1, c2
  <2> HIDE DEF c2, d, n, m
  <2>5. /\ Headers(c2) /\ DOMAIN c2 = D
        /\ c2[p].size = m /\ c2[p].pinuse /\ c2[p].prev = c1[p].prev
        /\ \A u \in D \ {p} : c2[u] = c1[u]
    <3>1. /\ Headers(c2) /\ DOMAIN c2 = DOMAIN c1
          /\ c2[p].size = m /\ c2[p].pinuse /\ c2[p].prev = c1[p].prev
          /\ \A u \in DOMAIN c1 \ {p} : c2[u] = c1[u]
      BY ONLY <2>3, UsedHeadOk
    <3> QED BY ONLY <2>2, <3>1
  <2>6. n = p + m /\ n \in D
    BY <1>1 DEF n, m
  <2>7. /\ Headers(d) /\ DOMAIN d = D
        /\ d[n] = [size |-> c2[n].size, pinuse |-> c2[n].pinuse, prev |-> m]
        /\ \A u \in D \ {n} : d[u] = c2[u]
    BY ONLY <2>3, <2>4, <2>5, <2>6, FootOk
  <2>8. d[n].size = c[n].size /\ ~ d[n].pinuse /\ d[n].prev = m
    BY ONLY <2>1, <2>2, <2>5, <2>6, <2>7
  <2>9. d[p] = c2[p] /\ c1[p] = c[p] /\ \A u \in D \ {p, n} : d[u] = c[u]
    BY ONLY <2>1, <2>2, <2>3, <2>5, <2>6, <2>7
  <2> QED BY ONLY <2>5, <2>7, <2>8, <2>9 DEF m
<1>3. \A u \in D : d[u].size = c[u].size /\ End(d, u) = End(c, u) /\ Span(d, u) = Span(c, u)
                   /\ (u # n => (d[u].pinuse <=> c[u].pinuse) /\ d[u].prev = c[u].prev)
  <2>1. \A u \in D : d[u].size = c[u].size
    BY <1>2
  <2> QED BY <1>2, <2>1 DEF End, Span
<1> HIDE DEF d
<1>5. Ordered(d) /\ Within(d, G)
  BY <1>2, <1>3 DEF Tiled, Ordered, Within
<1>6. Parts(d, top, F \cup {p}, X \ {p})
  BY <1>1, <1>2, <1>3 DEF Tiled, Parts
<1>7. FreeTags(d, top, F \cup {p})
  <2> SUFFICES ASSUME NEW u \in F \cup {p}
               PROVE  /\ d[u].size >= 2 /\ d[u].pinuse /\ End(d, u) \in D \ {top}
                      /\ ~ d[End(d, u)].pinuse /\ d[End(d, u)].prev = d[u].size
    BY <1>2 DEF FreeTags
  <2>1. CASE u = p
    BY <1>1, <1>2, <1>3, <2>1
  <2>2. CASE u \in F
    <3>1. /\ u \in D /\ c[u].size >= 2 /\ c[u].pinuse /\ End(c, u) \in D \ {top}
          /\ ~ c[End(c, u)].pinuse /\ c[End(c, u)].prev = c[u].size
      BY <2>2 DEF Tiled, Parts, FreeTags
    <3>2. u # n /\ End(c, u) # n
      BY <1>1, <2>2, <3>1
    <3> QED BY <1>3, <3>1, <3>2
  <2> QED BY <2>1, <2>2
<1>8. UsedTags(d, X \ {p})
  <2> SUFFICES ASSUME NEW u \in X \ {p}
               PROVE  d[u].size >= 2 /\ End(d, u) \in D /\ d[End(d, u)].pinuse
    BY <1>2 DEF UsedTags
  <2>1. u \in D /\ c[u].size >= 2 /\ End(c, u) \in D /\ c[End(c, u)].pinuse
    BY DEF Tiled, Parts, UsedTags
  <2>2. End(c, u) # n
    <3>1. u # p /\ c[u].size > 0 /\ c[p].size > 0
      BY <1>0, <1>1, <2>1
    <3> QED BY <1>1, <2>1, <3>1, SameEnd DEF Tiled
  <2> QED BY <1>3, <2>1, <2>2
<1>9. Follows(d, top, (F \cup {p}) \cup (X \ {p}))
  <2> SUFFICES ASSUME NEW u \in F \cup X
               PROVE  End(d, u) = top \/ (d[End(d, u)].size > 0 /\ End(d, End(d, u)) \in D)
    BY <1>2 DEF Follows
  <2>1. u \in D /\ End(c, u) \in D /\ (End(c, u) = top \/ (c[End(c, u)].size > 0 /\ End(c, End(c, u)) \in D))
    BY DEF Tiled, Parts, FreeTags, UsedTags, Follows
  <2> QED BY <1>3, <2>1
<1>10. PrevTags(d, top, F \cup {p})
  <2> SUFFICES ASSUME NEW u \in D, ~ d[u].pinuse
               PROVE  u # top /\ u - d[u].prev \in F \cup {p} /\ d[u - d[u].prev].size = d[u].prev
    BY <1>2 DEF PrevTags
  <2>1. CASE u = n
    BY <1>0, <1>1, <1>2, <2>1
  <2>2. CASE u # n
    <3>1. ~ c[u].pinuse /\ d[u].prev = c[u].prev
      BY <1>3, <2>2
    <3>2. u # top /\ u - c[u].prev \in F /\ c[u - c[u].prev].size = c[u].prev
      BY <3>1 DEF Tiled, PrevTags
    <3>3. u - c[u].prev \in D
      BY <3>2 DEF Tiled, Parts
    <3> QED BY <1>3, <3>1, <3>2, <3>3
  <2> QED BY <2>1, <2>2
<1>11. D \ ((F \cup {p}) \cup (X \ {p}) \cup {top}) = S /\ S \subseteq D
  OBVIOUS
<1>12. Fences(d, S)
  BY <1>2, <1>3 DEF Tiled, Fences
<1>13. LastFences(d, S)
  <2> SUFFICES ASSUME NEW u \in D, d[u].size = 0
               PROVE  /\ d[u].pinuse /\ d[u].prev \in {1, 2}
                      /\ u - d[u].prev \in S /\ d[u - d[u].prev].size = d[u].prev
    BY <1>2 DEF LastFences
  <2>1. u # n /\ c[u].size = 0
    BY <1>0, <1>1, <1>3
  <2> QED BY <1>3, <1>11, <2>1 DEF Tiled, LastFences
<1> HIDE DEF n
<1> QED BY <1>2, <1>5, <1>6, <1>7, <1>8, <1>9, <1>10, <1>11, <1>12, <1>13 DEF Tiled, d

----------------------------------------------------------------------------
(* A chunk in use in front of top becomes part of it.                       *)
ToTop(c, p, top) == UsedHead(Without(c, top), p, c[p].size + c[top].size)

(* A chunk in use in front of top becomes part of it.                       *)
LEMMA ToTopIs ==
  ASSUME NEW c, NEW top, NEW F, NEW X, NEW G, Tiled(c, top, F, X, G), Closed(G),
         NEW p \in X, c[p].pinuse, End(c, p) = top
  PROVE  /\ Tiled(ToTop(c, p, top), p, F, X \ {p}, G)
         /\ \A u : u \in DOMAIN ToTop(c, p, top) <=> u \in DOMAIN c /\ u # top
         /\ \A u \in DOMAIN c \ {p, top} : ToTop(c, p, top)[u].size = c[u].size
         /\ ToTop(c, p, top)[p].size = c[p].size + c[top].size
<1> DEFINE d == ToTop(c, p, top)
           D == DOMAIN c
           S == D \ (F \cup X \cup {top})
<1>0. Headers(c) /\ \A u \in D : /\ u \in Nat /\ u > 0 /\ c[u].size \in Nat /\ c[u].prev \in Nat
                            /\ c[u].pinuse \in BOOLEAN /\ End(c, u) \in Nat /\ End(c, u) = u + c[u].size
  BY Fields DEF Tiled
<1>1. /\ p \in D \ {top} /\ top \in D /\ top > p /\ c[p].size >= 2 /\ c[top].size >= 2 /\ End(c, top) > top
      /\ c[top].pinuse /\ p \notin F /\ top \notin F /\ top \notin X
  BY <1>0 DEF Tiled, Parts, UsedTags
<1>2. p + (c[p].size + c[top].size) = End(c, top) /\ c[p].size + c[top].size \in Nat
  BY <1>0, <1>1
<1>3. Headers(d) /\ DOMAIN d = D \ {top}
      /\ d[p].size = c[p].size + c[top].size /\ d[p].pinuse /\ d[p].prev = c[p].prev
      /\ \A u \in D \ {p, top} : d[u] = c[u]
  <2> DEFINE c1 == Without(c, top)
  <2>0. Headers(c)
    BY <1>0
  <2>1. Headers(c1) /\ DOMAIN c1 = D \ {top} /\ \A u \in D \ {top} : c1[u] = c[u]
    BY ONLY <2>0, WithoutOk
  <2>2. d = UsedHead(c1, p, c[p].size + c[top].size)
    BY DEF ToTop
  <2> HIDE DEF c1, d
  <2>3. p \in DOMAIN c1 /\ Headers(c1) /\ c[p].size + c[top].size \in Nat
    BY <1>0, <1>1, <1>2, <2>1
  <2>4. /\ Headers(d) /\ DOMAIN d = DOMAIN c1
        /\ d[p].size = c[p].size + c[top].size /\ d[p].pinuse /\ d[p].prev = c1[p].prev
        /\ \A u \in DOMAIN c1 \ {p} : d[u] = c1[u]
    BY ONLY <2>2, <2>3, UsedHeadOk, SMT
  <2> QED BY ONLY <2>1, <2>3, <2>4
<1>4. End(d, p) = End(c, top) /\ \A u \in D \ {p, top} : End(d, u) = End(c, u) /\ Span(d, u) = Span(c, u)
  BY <1>2, <1>3 DEF End, Span
<1>5. \A u \in D \ {p} : c[u].size > 0 => End(c, u) # top
  BY <1>0, <1>1, SameEnd DEF Tiled
<1>6. \A u \in D : c[u].size = 0 => End(c, u) # top
  BY <1>0, <1>1
<1> HIDE DEF d
<1>7. Ordered(d)
  <2> SUFFICES ASSUME NEW u \in D \ {top}, NEW v \in D \ {top}, u < v PROVE End(d, u) <= v
    BY <1>3 DEF Ordered
  <2>1. CASE u # p
    BY <1>4, <2>1 DEF Tiled, Ordered
  <2>2. CASE u = p
    <3>1. top <= v
      BY <1>1, <2>2 DEF Tiled, Ordered
    <3>2. top < v
      BY <1>0, <1>1, <3>1
    <3> QED BY <1>1, <1>4, <2>2, <3>2 DEF Tiled, Ordered
  <2> QED BY <2>1, <2>2
<1>8. Within(d, G)
  <2>1. Span(c, p) = <<p, top>> /\ Span(c, top) = <<top, End(c, top)>> /\ Span(c, p) \in G /\ Span(c, top) \in G
    BY <1>0, <1>1 DEF Span, Tiled, Within
  <2>2. <<p, End(c, top)>> \in G
    BY <1>0, <1>1, <2>1 DEF Closed
  <2>3. Span(d, p) = <<p, End(c, top)>>
    BY <1>0, <1>1, <1>2, <1>3 DEF Span
  <2> QED BY <1>3, <1>4, <2>2, <2>3 DEF Within, Tiled
<1>9. Parts(d, p, F, X \ {p})
  BY <1>0, <1>1, <1>2, <1>3 DEF Tiled, Parts
<1>10. FreeTags(d, p, F)
  <2> SUFFICES ASSUME NEW u \in F
               PROVE  /\ d[u].size >= 2 /\ d[u].pinuse /\ End(d, u) \in (D \ {top}) \ {p}
                      /\ ~ d[End(d, u)].pinuse /\ d[End(d, u)].prev = d[u].size
    BY <1>3 DEF FreeTags
  <2>1. /\ u \in D \ {p, top} /\ c[u].size >= 2 /\ c[u].pinuse /\ End(c, u) \in D \ {top}
        /\ ~ c[End(c, u)].pinuse /\ c[End(c, u)].prev = c[u].size
    BY <1>1 DEF Tiled, Parts, FreeTags
  <2> QED BY <1>3, <1>4, <2>1
<1>11. UsedTags(d, X \ {p})
  <2> SUFFICES ASSUME NEW u \in X \ {p}
               PROVE  d[u].size >= 2 /\ End(d, u) \in D \ {top} /\ d[End(d, u)].pinuse
    BY <1>3 DEF UsedTags
  <2>1. u \in D \ {p, top} /\ c[u].size >= 2 /\ c[u].size > 0 /\ End(c, u) \in D /\ c[End(c, u)].pinuse
    BY <1>0, <1>1 DEF Tiled, Parts, UsedTags
  <2>2. End(c, u) # top
    BY <1>5, <2>1
  <2> QED BY <1>3, <1>4, <2>1, <2>2
<1>12. Follows(d, p, F \cup (X \ {p}))
  <2> SUFFICES ASSUME NEW u \in (F \cup X) \ {p}
               PROVE  End(d, u) = p \/ (d[End(d, u)].size > 0 /\ End(d, End(d, u)) \in D \ {top})
    BY <1>1, <1>3 DEF Follows
  <2>1. /\ u \in D \ {p, top} /\ c[u].size >= 2 /\ c[u].size > 0 /\ End(c, u) \in D
        /\ (End(c, u) = top \/ (c[End(c, u)].size > 0 /\ End(c, End(c, u)) \in D))
    BY <1>0, <1>1 DEF Tiled, Parts, FreeTags, UsedTags, Follows
  <2>2. End(c, u) # top /\ c[End(c, u)].size > 0 /\ End(c, End(c, u)) \in D
    BY <1>5, <2>1
  <2>3. CASE End(c, u) # p
    BY <1>3, <1>4, <1>5, <2>1, <2>2, <2>3
  <2> QED BY <1>4, <2>1, <2>3
<1>13. PrevTags(d, p, F)
  <2> SUFFICES ASSUME NEW u \in D \ {top}, ~ d[u].pinuse
               PROVE  u # p /\ u - d[u].prev \in F /\ d[u - d[u].prev].size = d[u].prev
    BY <1>3 DEF PrevTags
  <2>1. u # p /\ ~ c[u].pinuse /\ d[u].prev = c[u].prev
    BY <1>3
  <2>2. u - c[u].prev \in F /\ c[u - c[u].prev].size = c[u].prev
    BY <2>1 DEF Tiled, PrevTags
  <2>3. u - c[u].prev \in D \ {p, top}
    BY <1>1, <2>2 DEF Tiled, Parts
  <2> QED BY <1>3, <2>1, <2>2, <2>3
<1>14. (D \ {top}) \ (F \cup (X \ {p}) \cup {p}) = S /\ p \notin S /\ top \notin S /\ S \subseteq D
  BY <1>1
<1>15. Fences(d, S)
  <2> SUFFICES ASSUME NEW u \in S
               PROVE  /\ d[u].size < 2 \/ (End(d, u) \in D \ {top} /\ d[End(d, u)].size = 0)
                      /\ End(d, u) \in D \ {top} \/ d[u].size = 1
    BY <1>3 DEF Fences
  <2>1. /\ c[u].size < 2 \/ (End(c, u) \in D /\ c[End(c, u)].size = 0)
        /\ End(c, u) \in D \/ c[u].size = 1
    BY DEF Tiled, Fences
  <2>2. End(c, u) # top
    BY <1>0, <1>5, <1>6, <1>14
  <2> QED BY <1>0, <1>1, <1>3, <1>4, <1>14, <2>1, <2>2
<1>16. LastFences(d, S)
  <2> SUFFICES ASSUME NEW u \in D \ {top}, d[u].size = 0
               PROVE  /\ d[u].pinuse /\ d[u].prev \in {1, 2}
                      /\ u - d[u].prev \in S /\ d[u - d[u].prev].size = d[u].prev
    BY <1>3 DEF LastFences
  <2>1. u # p
    BY <1>0, <1>1, <1>3
  <2> QED BY <1>1, <1>3, <1>14, <2>1 DEF Tiled, LastFences
<1> QED BY <1>3, <1>7, <1>8, <1>9, <1>10, <1>11, <1>12, <1>13, <1>14, <1>15, <1>16 DEF Tiled, d

----------------------------------------------------------------------------
(* The bottom of top becomes a chunk in use.                                *)
TakeTop(c, top, n) == UsedHead(UsedHead(c, top, n), top + n, c[top].size - n)

(* The bottom of top becomes a chunk in use.                                *)
LEMMA TakeTopIs ==
  ASSUME NEW c, NEW top, NEW F, NEW X, NEW G, Tiled(c, top, F, X, G), Closed(G),
         NEW n \in Nat, n >= 2, c[top].size - n >= 2
  PROVE  /\ Tiled(TakeTop(c, top, n), top + n, F, X \cup {top}, G) /\ top + n \notin DOMAIN c
         /\ \A q : q \in DOMAIN TakeTop(c, top, n) <=> q \in DOMAIN c \/ q = top + n
         /\ \A q \in DOMAIN c \ {top} : TakeTop(c, top, n)[q].size = c[q].size
         /\ TakeTop(c, top, n)[top].size = n /\ TakeTop(c, top, n)[top + n].size = c[top].size - n
<1> DEFINE d == TakeTop(c, top, n)
           r == top + n
           m == c[top].size - n
           D == DOMAIN c
           S == D \ (F \cup X \cup {top})
<1>0. Headers(c) /\ \A q \in D : /\ q \in Nat /\ q > 0 /\ c[q].size \in Nat /\ c[q].prev \in Nat
                            /\ c[q].pinuse \in BOOLEAN /\ End(c, q) \in Nat /\ End(c, q) = q + c[q].size
  BY Fields DEF Tiled
<1>1. /\ top \in D /\ top \notin F /\ top \notin X /\ c[top].pinuse
      /\ r \in Nat \ {0} /\ r > top /\ r < End(c, top) /\ m \in Nat /\ m >= 2 /\ r + m = End(c, top) /\ c[top].size > 0
  BY <1>0 DEF Tiled, Parts, PrevTags
<1>2. r \notin D
  BY <1>0, <1>1, NoneInside DEF Tiled
<1>3. Headers(d) /\ DOMAIN d = D \cup {r}
      /\ d[top].size = n /\ d[top].pinuse /\ d[top].prev = c[top].prev
      /\ d[r].size = m /\ d[r].pinuse /\ d[r].prev = 0
      /\ \A q \in D \ {top} : d[q] = c[q]
  <2> DEFINE c1 == UsedHead(c, top, n)
  <2>1. d = UsedHead(c1, r, m)
    BY DEF TakeTop
  <2>2. Headers(c) /\ top \in D /\ m \in Nat /\ r \in Nat \ {0}
    BY <1>0, <1>1
  <2> HIDE DEF c1, d, r, m
  <2>3. /\ Headers(c1) /\ DOMAIN c1 = D
        /\ c1[top].size = n /\ c1[top].pinuse /\ c1[top].prev = c[top].prev
        /\ \A q \in D \ {top} : c1[q] = c[q]
    BY ONLY <2>2, UsedHeadOk, n \in Nat DEF c1
  <2>4. r \notin DOMAIN c1 /\ Headers(c1) /\ Place(r, m)
    BY ONLY <1>2, <2>2, <2>3 DEF Place
  <2>5. /\ Headers(d) /\ (\A q : q \in DOMAIN d <=> q \in DOMAIN c1 \/ q = r) /\ d[r].size = m /\ d[r].pinuse /\ d[r].prev = 0
        /\ \A q \in DOMAIN c1 : d[q] = c1[q]
    BY ONLY <2>1, <2>4, FreshHeadOk
  <2> QED BY ONLY <2>2, <2>3, <2>5
<1>4. End(d, top) = r /\ End(d, r) = End(c, top) /\ \A q \in D \ {top} : End(d, q) = End(c, q) /\ Span(d, q) = Span(c, q)
  BY <1>1, <1>2, <1>3 DEF End, Span
<1> HIDE DEF d, r, m
<1>7. Ordered(d)
  <2> SUFFICES ASSUME NEW q \in D \cup {r}, NEW u \in D \cup {r}, q < u PROVE End(d, q) <= u
    BY <1>3 DEF Ordered
  <2>1. CASE q \in D \ {top} /\ u \in D
    BY <1>4, <2>1 DEF Tiled, Ordered
  <2>2. CASE q = top /\ u \in D
    <3>1. End(c, top) <= u
      BY <1>1, <2>2 DEF Tiled, Ordered
    <3> QED BY <1>0, <1>1, <1>4, <2>2, <3>1
  <2>3. CASE q \in D \ {top} /\ u = r
    <3>1. q < top
      BY <1>0, <1>1, <2>3 DEF Tiled, Ordered
    <3> QED BY <1>0, <1>1, <1>4, <2>3, <3>1 DEF Tiled, Ordered
  <2>4. CASE q = top /\ u = r
    BY <1>1, <1>4, <2>4
  <2>5. CASE q = r /\ u \in D
    <3>1. top < u
      BY <1>0, <1>1, <2>5
    <3> QED BY <1>1, <1>4, <2>5, <3>1 DEF Tiled, Ordered
  <2> QED BY <1>1, <2>1, <2>2, <2>3, <2>4, <2>5
<1>8. Within(d, G)
  <2>1. Span(c, top) = <<top, End(c, top)>> /\ Span(c, top) \in G
    BY <1>0, <1>1 DEF Span, Tiled, Within
  <2>2. <<top, r>> \in G /\ <<r, End(c, top)>> \in G
    BY <1>0, <1>1, <2>1 DEF Closed
  <2>3. Span(d, top) = <<top, r>> /\ Span(d, r) = <<r, End(c, top)>>
    BY <1>1, <1>3, <1>4 DEF Span, End
  <2> QED BY <1>3, <1>4, <2>2, <2>3 DEF Within, Tiled
<1>9. Parts(d, r, F, X \cup {top})
  BY <1>1, <1>2, <1>3 DEF Tiled, Parts
<1>10. FreeTags(d, r, F)
  <2> SUFFICES ASSUME NEW q \in F
               PROVE  /\ d[q].size >= 2 /\ d[q].pinuse /\ End(d, q) \in (D \cup {r}) \ {r}
                      /\ ~ d[End(d, q)].pinuse /\ d[End(d, q)].prev = d[q].size
    BY <1>3 DEF FreeTags
  <2>2. /\ q \in D \ {top} /\ c[q].size >= 2 /\ c[q].pinuse /\ End(c, q) \in D \ {top}
        /\ ~ c[End(c, q)].pinuse /\ c[End(c, q)].prev = c[q].size
    BY <1>1 DEF Tiled, Parts, FreeTags
  <2> QED BY <1>2, <1>3, <1>4, <2>2
<1>11. UsedTags(d, X \cup {top})
  <2> SUFFICES ASSUME NEW q \in X \cup {top}
               PROVE  d[q].size >= 2 /\ End(d, q) \in D \cup {r} /\ d[End(d, q)].pinuse
    BY <1>3 DEF UsedTags
  <2>1. q \in X => q \in D \ {top} /\ c[q].size >= 2 /\ End(c, q) \in D /\ c[End(c, q)].pinuse
    BY DEF Tiled, Parts, UsedTags
  <2>2. CASE q \in X
    <3>1. CASE End(c, q) = top
      BY <1>1, <1>3, <1>4, <2>1, <2>2, <3>1
    <3>2. CASE End(c, q) # top
      BY <1>3, <1>4, <2>1, <2>2, <3>2
    <3> QED BY <3>1, <3>2
  <2>3. CASE q = top
    BY <1>3, <1>4, <2>3
  <2> QED BY <2>2, <2>3
<1>12. Follows(d, r, F \cup (X \cup {top}))
  <2> SUFFICES ASSUME NEW q \in F \cup X \cup {top}
               PROVE  End(d, q) = r \/ (d[End(d, q)].size > 0 /\ End(d, End(d, q)) \in D \cup {r})
    BY <1>3 DEF Follows
  <2>1. CASE q = top
    BY <1>4, <2>1
  <2>2. CASE q \in F \cup X
    <3>1. q \in D \ {top} /\ End(c, q) \in D
          /\ (End(c, q) = top \/ (c[End(c, q)].size > 0 /\ End(c, End(c, q)) \in D))
      BY <1>1, <2>2 DEF Tiled, Parts, FreeTags, UsedTags, Follows
    <3>2. CASE End(c, q) = top
      BY <1>3, <1>4, <3>1, <3>2
    <3>3. CASE End(c, q) # top
      BY <1>3, <1>4, <3>1, <3>3
    <3> QED BY <3>2, <3>3
  <2> QED BY <2>1, <2>2
<1>13. PrevTags(d, r, F)
  <2> SUFFICES ASSUME NEW q \in D \cup {r}, ~ d[q].pinuse
               PROVE  q # r /\ q - d[q].prev \in F /\ d[q - d[q].prev].size = d[q].prev
    BY <1>3 DEF PrevTags
  <2>1. q # r /\ q # top /\ ~ c[q].pinuse /\ d[q].prev = c[q].prev
    BY <1>3
  <2>2. q - c[q].prev \in F /\ c[q - c[q].prev].size = c[q].prev
    BY <2>1 DEF Tiled, PrevTags
  <2>3. q - c[q].prev \in D \ {top}
    BY <1>1, <2>2 DEF Tiled, Parts
  <2> QED BY <1>3, <2>1, <2>2, <2>3
<1>14. (D \cup {r}) \ (F \cup (X \cup {top}) \cup {r}) = S /\ top \notin S /\ S \subseteq D
  BY <1>2
<1>15. Fences(d, S)
  <2> SUFFICES ASSUME NEW q \in S
               PROVE  /\ d[q].size < 2 \/ (End(d, q) \in D \cup {r} /\ d[End(d, q)].size = 0)
                      /\ End(d, q) \in D \cup {r} \/ d[q].size = 1
    BY <1>3 DEF Fences
  <2>1. /\ c[q].size < 2 \/ (End(c, q) \in D /\ c[End(c, q)].size = 0)
        /\ End(c, q) \in D \/ c[q].size = 1
    BY DEF Tiled, Fences
  <2> QED BY <1>0, <1>1, <1>3, <1>4, <1>14, <2>1
<1>16. LastFences(d, S)
  <2> SUFFICES ASSUME NEW q \in D \cup {r}, d[q].size = 0
               PROVE  /\ d[q].pinuse /\ d[q].prev \in {1, 2}
                      /\ q - d[q].prev \in S /\ d[q - d[q].prev].size = d[q].prev
    BY <1>3 DEF LastFences
  <2>1. q \in D \ {top} /\ c[q].size = 0
    BY <1>1, <1>3
  <2> QED BY <1>3, <1>14, <2>1 DEF Tiled, LastFences
<1>20. Tiled(d, r, F, X \cup {top}, G)
  BY <1>3, <1>7, <1>8, <1>9, <1>10, <1>11, <1>12, <1>13, <1>14, <1>15, <1>16 DEF Tiled
<1> QED BY <1>2, <1>3, <1>20 DEF d, r, m

----------------------------------------------------------------------------
(* Top ends elsewhere, in memory H.                                         *)
LEMMA SizeTopIs ==
  ASSUME NEW c, NEW top, NEW F, NEW X, NEW G, Tiled(c, top, F, X, G), NEW H,
         NEW n \in Nat, n >= 2, \A u \in DOMAIN c : u > top => top + n <= u,
         <<top, top + n>> \in H, \A u \in DOMAIN c \ {top} : Span(c, u) \in H
  PROVE  /\ Tiled(UsedHead(c, top, n), top, F, X, H)
         /\ DOMAIN UsedHead(c, top, n) = DOMAIN c /\ UsedHead(c, top, n)[top].size = n
         /\ \A q \in DOMAIN c \ {top} : UsedHead(c, top, n)[q].size = c[q].size
<1> DEFINE d == UsedHead(c, top, n)
           D == DOMAIN c
           S == D \ (F \cup X \cup {top})
<1>0. Headers(c) /\ \A q \in D : /\ q \in Nat /\ q > 0 /\ c[q].size \in Nat /\ c[q].prev \in Nat
                            /\ c[q].pinuse \in BOOLEAN /\ End(c, q) \in Nat /\ End(c, q) = q + c[q].size
  BY Fields DEF Tiled
<1>1. top \in D /\ top \notin F /\ top \notin X /\ c[top].pinuse /\ c[top].size > 0
  BY <1>0 DEF Tiled, Parts, PrevTags
<1>2. Headers(c) /\ top \in D /\ d = UsedHead(c, top, n)
  BY <1>0, <1>1
<1> HIDE DEF d
<1>3. /\ Headers(d) /\ DOMAIN d = D /\ d[top].size = n /\ d[top].pinuse /\ d[top].prev = c[top].prev
      /\ \A q \in D \ {top} : d[q] = c[q]
  BY ONLY <1>2, n \in Nat, UsedHeadOk
<1>4. End(d, top) = top + n /\ \A q \in D \ {top} : End(d, q) = End(c, q) /\ Span(d, q) = Span(c, q)
  BY <1>3 DEF End, Span
<1>5. Ordered(d)
  BY <1>0, <1>1, <1>3, <1>4 DEF Tiled, Ordered
<1>6. Within(d, H)
  <2>1. Span(d, top) = <<top, top + n>>
    BY <1>3 DEF Span
  <2> QED BY <1>3, <1>4, <2>1 DEF Within
<1>7. Parts(d, top, F, X)
  BY <1>1, <1>3 DEF Tiled, Parts
<1>8. FreeTags(d, top, F)
  BY <1>1, <1>3, <1>4 DEF Tiled, Parts, FreeTags
<1>9. UsedTags(d, X)
  BY <1>1, <1>3, <1>4 DEF Tiled, Parts, UsedTags
<1>10. Follows(d, top, F \cup X)
  <2> SUFFICES ASSUME NEW q \in F \cup X
               PROVE  End(d, q) = top \/ (d[End(d, q)].size > 0 /\ End(d, End(d, q)) \in D)
    BY <1>3 DEF Follows
  <2>1. q \in D \ {top} /\ End(c, q) \in D
        /\ (End(c, q) = top \/ (c[End(c, q)].size > 0 /\ End(c, End(c, q)) \in D))
    BY <1>1 DEF Tiled, Parts, FreeTags, UsedTags, Follows
  <2> QED BY <1>3, <1>4, <2>1
<1>11. PrevTags(d, top, F)
  <2> SUFFICES ASSUME NEW q \in D, ~ d[q].pinuse
               PROVE  q # top /\ q - d[q].prev \in F /\ d[q - d[q].prev].size = d[q].prev
    BY <1>3 DEF PrevTags
  <2>1. q # top /\ ~ c[q].pinuse /\ d[q].prev = c[q].prev
    BY <1>3
  <2>2. q - c[q].prev \in F /\ c[q - c[q].prev].size = c[q].prev
    BY <2>1 DEF Tiled, PrevTags
  <2>3. q - c[q].prev \in D \ {top}
    BY <1>1, <2>2 DEF Tiled, Parts
  <2> QED BY <1>3, <2>1, <2>2, <2>3
<1>12. Fences(d, S)
  <2> SUFFICES ASSUME NEW q \in S
               PROVE  /\ d[q].size < 2 \/ (End(d, q) \in D /\ d[End(d, q)].size = 0)
                      /\ End(d, q) \in D \/ d[q].size = 1
    BY <1>3 DEF Fences
  <2>1. /\ c[q].size < 2 \/ (End(c, q) \in D /\ c[End(c, q)].size = 0)
        /\ End(c, q) \in D \/ c[q].size = 1
    BY DEF Tiled, Fences
  <2> QED BY <1>0, <1>1, <1>3, <1>4, <2>1
<1>13. LastFences(d, S)
  <2> SUFFICES ASSUME NEW q \in D, d[q].size = 0
               PROVE  /\ d[q].pinuse /\ d[q].prev \in {1, 2}
                      /\ q - d[q].prev \in S /\ d[q - d[q].prev].size = d[q].prev
    BY <1>3 DEF LastFences
  <2>1. q \in D \ {top} /\ c[q].size = 0
    BY <1>1, <1>3
  <2> QED BY <1>3, <2>1 DEF Tiled, LastFences
<1> QED BY <1>3, <1>5, <1>6, <1>7, <1>8, <1>9, <1>10, <1>11, <1>12, <1>13 DEF Tiled, d

(* A footer behind a chunk in use is no footer.                             *)
LEMMA MarkIs ==
  ASSUME NEW c, NEW top, NEW F, NEW X, NEW G, Tiled(c, top, F, X, G),
         NEW r \in DOMAIN c, c[r].pinuse, c[r].size > 0
  PROVE  /\ Tiled(SetBit(c, r), top, F, X, G)
         /\ DOMAIN SetBit(c, r) = DOMAIN c
         /\ \A q \in DOMAIN c : SetBit(c, r)[q].size = c[q].size /\ (SetBit(c, r)[q].pinuse <=> c[q].pinuse)
<1> DEFINE d == SetBit(c, r)
           D == DOMAIN c
           S == D \ (F \cup X \cup {top})
<1>1. Headers(c) /\ d = SetBit(c, r)
  BY DEF Tiled
<1> HIDE DEF d
<1>2. /\ Headers(d) /\ DOMAIN d = D /\ d[r].size = c[r].size /\ d[r].pinuse /\ d[r].prev = 0
      /\ \A q \in D \ {r} : d[q] = c[q]
  BY ONLY <1>1, r \in DOMAIN c, SetBitOk
<1>3. \A q \in D : /\ d[q].size = c[q].size /\ (d[q].pinuse <=> c[q].pinuse) /\ (q # r => d[q].prev = c[q].prev)
                   /\ End(d, q) = End(c, q) /\ Span(d, q) = Span(c, q)
  BY <1>2 DEF End, Span
<1>4. Ordered(d) /\ Within(d, G) /\ Parts(d, top, F, X)
  BY <1>2, <1>3 DEF Tiled, Ordered, Within, Parts
<1>5. FreeTags(d, top, F) /\ UsedTags(d, X) /\ Follows(d, top, F \cup X)
  <2>1. FreeTags(d, top, F)
    BY <1>2, <1>3 DEF Tiled, Parts, FreeTags
  <2>2. UsedTags(d, X)
    BY <1>2, <1>3 DEF Tiled, Parts, UsedTags
  <2>3. Follows(d, top, F \cup X)
    BY <1>2, <1>3 DEF Tiled, Parts, FreeTags, UsedTags, Follows
  <2> QED BY <2>1, <2>2, <2>3
<1>6. PrevTags(d, top, F)
  <2> SUFFICES ASSUME NEW q \in D, ~ d[q].pinuse
               PROVE  q # top /\ q - d[q].prev \in F /\ d[q - d[q].prev].size = d[q].prev
    BY <1>2 DEF PrevTags
  <2>1. q # r /\ ~ c[q].pinuse /\ d[q].prev = c[q].prev
    BY <1>3
  <2>2. q # top /\ q - c[q].prev \in F /\ c[q - c[q].prev].size = c[q].prev
    BY <2>1 DEF Tiled, PrevTags
  <2>3. q - c[q].prev \in D
    BY <2>2 DEF Tiled, Parts
  <2> QED BY <1>3, <2>1, <2>2, <2>3
<1>7. Fences(d, S)
  BY <1>2, <1>3 DEF Tiled, Fences
<1>8. LastFences(d, S)
  <2> SUFFICES ASSUME NEW q \in D, d[q].size = 0
               PROVE  /\ d[q].pinuse /\ d[q].prev \in {1, 2}
                      /\ q - d[q].prev \in S /\ d[q - d[q].prev].size = d[q].prev
    BY <1>2 DEF LastFences
  <2>1. q # r /\ c[q].size = 0
    BY <1>3
  <2> QED BY <1>3, <2>1 DEF Tiled, LastFences
<1> QED BY <1>2, <1>4, <1>5, <1>6, <1>7, <1>8 DEF Tiled, d

----------------------------------------------------------------------------
(* A chunk in use in front of top takes n in all, with the bottom of top.   *)
GrowIntoTop(c, p, top, n) ==
  UsedHead(NewHead(Without(c, top), p, n, c[p].pinuse), p + n, c[p].size + c[top].size - n)

(* A chunk in use in front of top grows or shrinks, as in _int_realloc.     *)
LEMMA GrowIntoTopIs ==
  ASSUME NEW c, NEW top, NEW F, NEW X, NEW G, Tiled(c, top, F, X, G), Closed(G),
         NEW p \in X, End(c, p) = top, NEW n \in Nat, n >= 2, c[p].size + c[top].size - n >= 2
  PROVE  /\ Tiled(GrowIntoTop(c, p, top, n), p + n, F, X, G)
         /\ \A u : u \in DOMAIN GrowIntoTop(c, p, top, n) <=> (u \in DOMAIN c /\ u # top) \/ u = p + n
         /\ \A u \in DOMAIN c \ {p, top} : GrowIntoTop(c, p, top, n)[u].size = c[u].size
         /\ GrowIntoTop(c, p, top, n)[p].size = n
         /\ GrowIntoTop(c, p, top, n)[p + n].size = c[p].size + c[top].size - n
<1> DEFINE d == GrowIntoTop(c, p, top, n)
           r == p + n
           m == c[p].size + c[top].size - n
           D == DOMAIN c
           S == D \ (F \cup X \cup {top})
<1>0. Headers(c) /\ \A u \in D : /\ u \in Nat /\ u > 0 /\ c[u].size \in Nat /\ c[u].prev \in Nat
                            /\ c[u].pinuse \in BOOLEAN /\ End(c, u) \in Nat /\ End(c, u) = u + c[u].size
  BY Fields DEF Tiled
<1>1. /\ p \in D \ {top} /\ top \in D /\ top > p /\ c[p].size >= 2 /\ c[top].size >= 2 /\ End(c, top) > top
      /\ c[top].pinuse /\ p \notin F /\ top \notin F /\ top \notin X
  BY <1>0 DEF Tiled, Parts, UsedTags
<1>2. /\ r \in Nat \ {0} /\ r > p /\ r < End(c, top) /\ m \in Nat /\ m >= 2 /\ r + m = End(c, top)
  BY <1>0, <1>1
<1>3. r \notin D \ {top}
  <2> SUFFICES ASSUME r \in D, r # top PROVE FALSE
    OBVIOUS
  <2>1. CASE r < top
    <3>1. p <= r /\ r < End(c, p)
      BY <1>0, <1>1, <1>2, <2>1
    <3>2. r = p
      BY <1>0, <1>1, <3>1, NoneInside DEF Tiled
    <3> QED BY <1>0, <1>1, <1>2, <3>2
  <2>2. CASE r > top
    <3>1. top <= r /\ r < End(c, top)
      BY <1>0, <1>1, <1>2, <2>2
    <3>2. r = top
      BY <1>0, <1>1, <3>1, NoneInside DEF Tiled
    <3> QED BY <1>0, <1>1, <1>2, <2>2, <3>2
  <2> QED BY <1>0, <1>1, <1>2, <2>1, <2>2
<1>4. Headers(d) /\ DOMAIN d = (D \ {top}) \cup {r}
      /\ d[p].size = n /\ (d[p].pinuse <=> c[p].pinuse) /\ d[p].prev = c[p].prev
      /\ d[r].size = m /\ d[r].pinuse /\ d[r].prev = 0
      /\ \A u \in D \ {p, top} : d[u] = c[u]
  <2> DEFINE b  == c[p].pinuse
             c1 == Without(c, top)
             c2 == NewHead(c1, p, n, b)
  <2>0. Headers(c) /\ b \in BOOLEAN /\ n \in Nat
    BY <1>0, <1>1
  <2>1. Headers(c1) /\ DOMAIN c1 = D \ {top} /\ \A u \in D \ {top} : c1[u] = c[u]
    BY ONLY <2>0, WithoutOk
  <2>2. d = UsedHead(c2, r, m)
    BY DEF GrowIntoTop
  <2> HIDE DEF c1
  <2>3. p \in DOMAIN c1 /\ Headers(c1)
    BY <1>0, <1>1, <1>2, <2>1
  <2> HIDE DEF b
  <2>4. /\ Headers(c2) /\ DOMAIN c2 = DOMAIN c1
        /\ c2[p] = [size |-> n, pinuse |-> b, prev |-> c1[p].prev]
        /\ \A u \in DOMAIN c1 \ {p} : c2[u] = c1[u]
    BY ONLY <2>0, <2>3, OldHeadOk, SMT
  <2> HIDE DEF c2, d, r, m
  <2>5. r \notin DOMAIN c2 /\ Headers(c2) /\ Place(r, m)
    BY ONLY <1>2, <1>3, <2>1, <2>3, <2>4 DEF Place
  <2>6. /\ Headers(d) /\ (\A q : q \in DOMAIN d <=> q \in DOMAIN c2 \/ q = r) /\ d[r].size = m /\ d[r].pinuse /\ d[r].prev = 0
        /\ \A q \in DOMAIN c2 : d[q] = c2[q]
    BY ONLY <2>2, <2>5, FreshHeadOk
  <2>7. d[p] = c2[p] /\ c1[p] = c[p]
    BY ONLY <2>1, <2>3, <2>4, <2>6
  <2>8. d[p].size = n /\ (d[p].pinuse <=> c[p].pinuse) /\ d[p].prev = c[p].prev
    BY ONLY <2>4, <2>7 DEF b
  <2>9. \A u \in D \ {p, top} : d[u] = c[u]
    BY ONLY <2>1, <2>4, <2>6
  <2>10. DOMAIN d = (D \ {top}) \cup {r}
    BY ONLY <2>1, <2>4, <2>6
  <2> QED BY ONLY <2>6, <2>8, <2>9, <2>10
<1>5. End(d, p) = r /\ End(d, r) = End(c, top)
      /\ \A u \in D \ {p, top} : End(d, u) = End(c, u) /\ Span(d, u) = Span(c, u)
  BY <1>1, <1>2, <1>3, <1>4 DEF End, Span
<1>6. \A u \in D \ {p} : End(c, u) # top
  <2>1. \A u \in D \ {p} : c[u].size > 0 => End(c, u) # top
    BY <1>0, <1>1, SameEnd DEF Tiled
  <2> QED BY <1>0, <1>1, <2>1
<1> HIDE DEF d, r, m
<1>7. Ordered(d)
  <2> SUFFICES ASSUME NEW u \in (D \ {top}) \cup {r}, NEW v \in (D \ {top}) \cup {r}, u < v PROVE End(d, u) <= v
    BY <1>4 DEF Ordered
  <2>1. \A w \in D \ {p, top} : (w > p => End(c, top) <= w) /\ (w < p => End(c, w) <= p)
    <3> SUFFICES ASSUME NEW w \in D \ {p, top} PROVE (w > p => End(c, top) <= w) /\ (w < p => End(c, w) <= p)
      OBVIOUS
    <3>1. w > p => top <= w
      BY <1>1 DEF Tiled, Ordered
    <3>2. w > top => End(c, top) <= w
      BY <1>1 DEF Tiled, Ordered
    <3>3. w < p => End(c, w) <= p
      BY <1>1 DEF Tiled, Ordered
    <3> QED BY <1>0, <1>1, <3>1, <3>2, <3>3
  <2>2. CASE u \in D \ {p, top} /\ v \in D \ {p, top}
    BY <1>5, <2>2 DEF Tiled, Ordered
  <2>3. CASE u \in D \ {p, top} /\ v \in {p, r}
    <3>1. u < p
      BY <1>0, <1>1, <1>2, <2>1, <2>3
    <3> QED BY <1>0, <1>1, <1>2, <1>5, <2>1, <2>3, <3>1
  <2>4. CASE u \in {p, r} /\ v \in D \ {p, top}
    BY <1>0, <1>1, <1>2, <1>5, <2>1, <2>4
  <2>5. CASE u \in {p, r} /\ v \in {p, r}
    BY <1>0, <1>1, <1>2, <1>5, <2>5
  <2> QED BY <2>2, <2>3, <2>4, <2>5
<1>8. Within(d, G)
  <2>1. Span(c, p) = <<p, top>> /\ Span(c, top) = <<top, End(c, top)>> /\ Span(c, p) \in G /\ Span(c, top) \in G
    BY <1>0, <1>1 DEF Span, Tiled, Within
  <2>2. <<p, End(c, top)>> \in G
    BY <1>0, <1>1, <2>1 DEF Closed
  <2>3. <<p, r>> \in G /\ <<r, End(c, top)>> \in G
    BY <1>0, <1>1, <1>2, <2>2 DEF Closed
  <2>4. Span(d, p) = <<p, r>> /\ Span(d, r) = <<r, End(c, top)>>
    BY <1>2, <1>4, <1>5 DEF Span, End
  <2> QED BY <1>4, <1>5, <2>3, <2>4 DEF Within, Tiled
<1>9. Parts(d, r, F, X)
  BY <1>0, <1>1, <1>2, <1>3, <1>4 DEF Tiled, Parts
<1>10. FreeTags(d, r, F)
  <2> SUFFICES ASSUME NEW u \in F
               PROVE  /\ d[u].size >= 2 /\ d[u].pinuse /\ End(d, u) \in ((D \ {top}) \cup {r}) \ {r}
                      /\ ~ d[End(d, u)].pinuse /\ d[End(d, u)].prev = d[u].size
    BY <1>4 DEF FreeTags
  <2>1. /\ u \in D \ {p, top} /\ c[u].size >= 2 /\ c[u].pinuse /\ End(c, u) \in D \ {top}
        /\ ~ c[End(c, u)].pinuse /\ c[End(c, u)].prev = c[u].size
    BY <1>1 DEF Tiled, Parts, FreeTags
  <2> QED BY <1>3, <1>4, <1>5, <2>1
<1>11. UsedTags(d, X)
  <2> SUFFICES ASSUME NEW u \in X
               PROVE  d[u].size >= 2 /\ End(d, u) \in (D \ {top}) \cup {r} /\ d[End(d, u)].pinuse
    BY <1>4 DEF UsedTags
  <2>1. CASE u = p
    BY <1>4, <1>5, <2>1
  <2>2. CASE u # p
    <3>1. u \in D \ {p, top} /\ c[u].size >= 2 /\ End(c, u) \in D \ {top} /\ c[End(c, u)].pinuse
      BY <1>1, <1>6, <2>2 DEF Tiled, Parts, UsedTags
    <3> QED BY <1>4, <1>5, <3>1
  <2> QED BY <2>1, <2>2
<1>12. Follows(d, r, F \cup X)
  <2> SUFFICES ASSUME NEW u \in F \cup X
               PROVE  End(d, u) = r \/ (d[End(d, u)].size > 0 /\ End(d, End(d, u)) \in (D \ {top}) \cup {r})
    BY <1>4 DEF Follows
  <2>1. CASE u = p
    BY <1>5, <2>1
  <2>2. CASE u # p
    <3>1. /\ u \in D \ {p, top} /\ End(c, u) \in D \ {top}
          /\ c[End(c, u)].size > 0 /\ End(c, End(c, u)) \in D
      BY <1>1, <1>6, <2>2 DEF Tiled, Parts, FreeTags, UsedTags, Follows
    <3>2. CASE End(c, u) = p
      BY <1>4, <1>5, <3>1, <3>2
    <3>3. CASE End(c, u) # p
      BY <1>4, <1>5, <1>6, <3>1, <3>3
    <3> QED BY <3>2, <3>3
  <2> QED BY <2>1, <2>2
<1>13. PrevTags(d, r, F)
  <2> SUFFICES ASSUME NEW u \in (D \ {top}) \cup {r}, ~ d[u].pinuse
               PROVE  u # r /\ u - d[u].prev \in F /\ d[u - d[u].prev].size = d[u].prev
    BY <1>4 DEF PrevTags
  <2>1. u # r /\ u \in D \ {top} /\ ~ c[u].pinuse /\ d[u].prev = c[u].prev
    BY <1>3, <1>4
  <2>2. u - c[u].prev \in F /\ c[u - c[u].prev].size = c[u].prev
    BY <2>1 DEF Tiled, PrevTags
  <2>3. u - c[u].prev \in D \ {p, top}
    BY <1>1, <2>2 DEF Tiled, Parts
  <2> QED BY <1>4, <2>1, <2>2, <2>3
<1>14. ((D \ {top}) \cup {r}) \ (F \cup X \cup {r}) = S /\ p \notin S /\ top \notin S /\ r \notin S /\ S \subseteq D
  BY <1>1, <1>3
<1>15. Fences(d, S)
  <2> SUFFICES ASSUME NEW u \in S
               PROVE  /\ d[u].size < 2 \/ (End(d, u) \in (D \ {top}) \cup {r} /\ d[End(d, u)].size = 0)
                      /\ End(d, u) \in (D \ {top}) \cup {r} \/ d[u].size = 1
    BY <1>4 DEF Fences
  <2>1. /\ c[u].size < 2 \/ (End(c, u) \in D /\ c[End(c, u)].size = 0)
        /\ End(c, u) \in D \/ c[u].size = 1
    BY DEF Tiled, Fences
  <2>2. End(c, u) # top
    BY <1>6, <1>14
  <2> QED BY <1>0, <1>1, <1>4, <1>5, <1>14, <2>1, <2>2
<1>16. LastFences(d, S)
  <2> SUFFICES ASSUME NEW u \in (D \ {top}) \cup {r}, d[u].size = 0
               PROVE  /\ d[u].pinuse /\ d[u].prev \in {1, 2}
                      /\ u - d[u].prev \in S /\ d[u - d[u].prev].size = d[u].prev
    BY <1>4 DEF LastFences
  <2>1. u # p /\ u # r
    BY <1>2, <1>4
  <2> QED BY <1>1, <1>4, <1>14, <2>1 DEF Tiled, LastFences
<1>20. Tiled(d, r, F, X, G)
  BY <1>4, <1>7, <1>8, <1>9, <1>10, <1>11, <1>12, <1>13, <1>14, <1>15, <1>16 DEF Tiled
<1> QED BY <1>4, <1>20 DEF d, r, m

----------------------------------------------------------------------------
(* A new top at b, of size n; two fenceposts end the old one, and what is   *)
(* left of it is a chunk in use, unless it is too small for one.            *)
Fenced(c, top, b, n) ==
  UsedHead(UsedHead(UsedHead(UsedHead(c, b, n), top, c[top].size - 2),
                    top + (c[top].size - 2), 1), top + (c[top].size - 2) + 1, 1)

(* The headers sysmalloc leaves when top moves: two fenceposts end the old. *)
LEMMA FencedOk ==
  ASSUME NEW c, Headers(c), NEW top \in DOMAIN c, NEW b \in Nat \ {0}, NEW n \in Nat, NEW left \in Nat,
         c[top].size = left + 2, b \notin DOMAIN c, NEW d, d = Fenced(c, top, b, n),
         \A u \in DOMAIN c \ {top} : u < top \/ u >= top + left + 2, b < top \/ b >= top + left + 2
  PROVE  /\ Headers(d) /\ (\A q : q \in DOMAIN d <=> q \in DOMAIN c \/ q = b \/ q = top + left \/ q = top + left + 1)
         /\ d[b].size = n /\ d[b].pinuse
         /\ d[top + left].size = 1 /\ d[top + left].pinuse
         /\ d[top + left + 1].size = 1 /\ d[top + left + 1].pinuse
         /\ left > 0 => d[top].size = left /\ (d[top].pinuse)
         /\ \A u \in DOMAIN c \ {top} : d[u] = c[u]
<1> DEFINE e1 == top + left
           e2 == top + left + 1
           c1 == UsedHead(c, b, n)
           c2 == UsedHead(c1, top, left)
           c3 == UsedHead(c2, e1, 1)
<1>1. /\ top \in Nat \ {0} /\ e1 \in Nat \ {0} /\ e2 \in Nat \ {0} /\ e1 # e2 /\ 1 \in Nat
      /\ b # e1 /\ b # e2 /\ b # top /\ e2 # top /\ (e1 = top <=> left = 0)
      /\ \A u \in DOMAIN c \ {top} : u # e1 /\ u # e2
      /\ e1 \notin DOMAIN c \ {top} /\ e2 \notin DOMAIN c
  BY DEF Headers
<1>2. d = UsedHead(c3, e2, 1)
  <2>1. c[top].size - 2 = left
    OBVIOUS
  <2> QED BY <2>1 DEF Fenced
<1> HIDE DEF e1, e2, c1, c2, c3
<1>3. /\ Headers(c1) /\ (\A q : q \in DOMAIN c1 <=> q \in DOMAIN c \/ q = b) /\ c1[b].size = n /\ c1[b].pinuse
      /\ \A u \in DOMAIN c : c1[u] = c[u]
  <2>1. Place(b, n)
    BY DEF Place
  <2> QED BY <2>1, FreshHeadOk DEF c1
<1>4. /\ Headers(c2) /\ DOMAIN c2 = DOMAIN c1 /\ c2[top].size = left /\ c2[top].pinuse
      /\ \A u \in DOMAIN c1 \ {top} : c2[u] = c1[u]
  <2>1. Headers(c1) /\ top \in DOMAIN c1 /\ left \in Nat /\ c2 = UsedHead(c1, top, left)
    BY <1>3 DEF c2
  <2> QED BY ONLY <2>1, UsedHeadOk
<1>5. /\ Headers(c3) /\ (\A q : q \in DOMAIN c3 <=> q \in DOMAIN c2 \/ q = e1) /\ c3[e1].size = 1 /\ c3[e1].pinuse
      /\ \A u \in DOMAIN c2 \ {e1} : c3[u] = c2[u]
  <2> DEFINE one == 1
  <2>1. Headers(c2) /\ one \in Nat /\ c3 = UsedHead(c2, e1, one) /\ e1 \in Nat \ {0} /\ one = 1
    BY <1>1, <1>4 DEF c3
  <2> HIDE DEF one
  <2>2. CASE e1 \in DOMAIN c2
    <3>1. /\ Headers(c3) /\ DOMAIN c3 = DOMAIN c2 /\ c3[e1].size = one /\ c3[e1].pinuse
          /\ \A u \in DOMAIN c2 \ {e1} : c3[u] = c2[u]
      BY ONLY <2>1, <2>2, UsedHeadOk
    <3> QED BY <2>1, <2>2, <3>1
  <2>3. CASE e1 \notin DOMAIN c2
    <3>1. /\ Headers(c3) /\ (\A q : q \in DOMAIN c3 <=> q \in DOMAIN c2 \/ q = e1) /\ c3[e1].size = one /\ c3[e1].pinuse
          /\ \A u \in DOMAIN c2 : c3[u] = c2[u]
      <4>1. Place(e1, one)
        BY <2>1 DEF Place
      <4> QED BY ONLY <2>1, <2>3, <4>1, FreshHeadOk
    <3> QED BY <2>1, <2>3, <3>1
  <2> QED BY <2>2, <2>3
<1>6. /\ Headers(d) /\ (\A q : q \in DOMAIN d <=> q \in DOMAIN c3 \/ q = e2) /\ d[e2].size = 1 /\ d[e2].pinuse
      /\ \A u \in DOMAIN c3 : d[u] = c3[u]
  <2> DEFINE one == 1
  <2>1. /\ Headers(c3) /\ one \in Nat /\ d = UsedHead(c3, e2, one) /\ e2 \in Nat \ {0} /\ one = 1
        /\ e2 \notin DOMAIN c3
    BY <1>1, <1>2, <1>3, <1>4, <1>5
  <2> HIDE DEF one
  <2>2. /\ Headers(d) /\ (\A q : q \in DOMAIN d <=> q \in DOMAIN c3 \/ q = e2) /\ d[e2].size = one /\ d[e2].pinuse
        /\ \A u \in DOMAIN c3 : d[u] = c3[u]
    <3>1. Place(e2, one)
      BY <2>1 DEF Place
    <3> QED BY ONLY <2>1, <3>1, FreshHeadOk
  <2> QED BY <2>1, <2>2
<1>7. \A q : q \in DOMAIN d <=> q \in DOMAIN c \/ q = b \/ q = e1 \/ q = e2
  BY <1>3, <1>4, <1>5, <1>6
<1>8. \A u \in DOMAIN c \ {top} : d[u] = c[u]
  BY <1>1, <1>3, <1>4, <1>5, <1>6
<1>9. d[b].size = n /\ d[b].pinuse
  <2>1. d[b] = c1[b]
    BY <1>1, <1>3, <1>4, <1>5, <1>6
  <2> QED BY <1>3, <2>1
<1>10. d[e1].size = 1 /\ d[e1].pinuse
  <2>1. d[e1] = c3[e1]
    BY <1>5, <1>6
  <2> QED BY <1>5, <2>1
<1>11. ASSUME left > 0 PROVE d[top].size = left /\ d[top].pinuse
  <2>1. d[top] = c2[top]
    BY <1>1, <1>3, <1>4, <1>5, <1>6, <1>11
  <2> QED BY <1>4, <2>1
<1> QED BY <1>6, <1>7, <1>8, <1>9, <1>10, <1>11 DEF e1, e2

(* The old top, if two units or more of it are left.                        *)
LeftTop(c, top) == IF c[top].size >= 4 THEN {top} ELSE {}

(* Other chunks stay, and new ones lie at b or in what was top.             *)
TopMoved(c, top, b, n, d) ==
  /\ \A u \in DOMAIN d : u \in DOMAIN c \/ u = b \/ (top <= u /\ u < End(c, top))
  /\ \A u \in DOMAIN c \ {top} : u \in DOMAIN d /\ d[u].size = c[u].size
  /\ d[b].size = n /\ (c[top].size >= 4 => d[top].size = c[top].size - 2)

(* When top moves, the memory stays tiled, what is left of the old in use.  *)
LEMMA FencedIs ==
  ASSUME NEW c, NEW top, NEW F, NEW X, NEW G, Tiled(c, top, F, X, G), Closed(G),
         NEW b \in Nat \ {0}, b \notin DOMAIN c, NEW n \in Nat, n >= 2, <<b, b + n>> \in G,
         \A u \in DOMAIN c : End(c, u) <= b \/ b + n <= u,
         NEW d, d = Fenced(c, top, b, n), NEW Y, Y = X \cup LeftTop(c, top)
  PROVE  Tiled(d, b, F, Y, G) /\ TopMoved(c, top, b, n, d)
<1> USE DEF LeftTop
<1> DEFINE D == DOMAIN c
           left == c[top].size - 2
           e1 == top + left
           e2 == top + left + 1
           E == D \cup {b, e1, e2}
           S == D \ (F \cup X \cup {top})
           T == E \ (F \cup Y \cup {b})
<1>0. Headers(c) /\ \A u \in D : /\ u \in Nat /\ u > 0 /\ c[u].size \in Nat /\ c[u].prev \in Nat
                            /\ c[u].pinuse \in BOOLEAN /\ End(c, u) \in Nat /\ End(c, u) = u + c[u].size
  BY Fields DEF Tiled
<1>1. /\ top \in D /\ left \in Nat /\ top \notin F /\ top \notin X /\ c[top].pinuse /\ c[top].size = left + 2
      /\ e1 \in Nat /\ e2 \in Nat /\ e1 >= top /\ e2 = e1 + 1 /\ End(c, top) = e2 + 1
      /\ F \subseteq D /\ X \subseteq D /\ (c[top].size >= 4 <=> left >= 2) /\ e1 = top + left
  BY <1>0 DEF Tiled, Parts, PrevTags
<1>2. \A u \in D \ {top} : (u < top /\ End(c, u) <= top) \/ (u > top /\ u >= e2 + 1 /\ End(c, u) >= u)
  BY <1>0, <1>1 DEF Tiled, Ordered
<1>3. b < top \/ b >= e2 + 1
  BY <1>0, <1>1
<1> HIDE DEF left
<1>4. /\ Headers(d) /\ DOMAIN d = E
      /\ d[b].size = n /\ d[b].pinuse
      /\ d[e1].size = 1 /\ d[e1].pinuse /\ d[e2].size = 1 /\ d[e2].pinuse
      /\ left > 0 => d[top].size = left /\ (d[top].pinuse)
      /\ \A u \in D \ {top} : d[u] = c[u]
  <2>1. \A u \in D \ {top} : u < top \/ u >= top + left + 2
    BY <1>0, <1>1, <1>2
  <2>2. b < top \/ b >= top + left + 2
    BY <1>0, <1>1, <1>3
  <2>3. d = Fenced(c, top, b, n)
    OBVIOUS
  <2>4. c[top].size = left + 2 /\ left \in Nat /\ top \in D /\ Headers(c)
    BY <1>0, <1>1
  <2>5. b \in Nat \ {0} /\ b \notin D /\ n \in Nat
    OBVIOUS
  <2>6. /\ Headers(d)
        /\ (\A q : q \in DOMAIN d <=> q \in DOMAIN c \/ q = b \/ q = top + left \/ q = top + left + 1)
        /\ d[b].size = n /\ d[b].pinuse
        /\ d[top + left].size = 1 /\ d[top + left].pinuse
        /\ d[top + left + 1].size = 1 /\ d[top + left + 1].pinuse
        /\ left > 0 => d[top].size = left /\ (d[top].pinuse)
        /\ \A u \in DOMAIN c \ {top} : d[u] = c[u]
    BY ONLY <2>1, <2>2, <2>3, <2>4, <2>5, FencedOk, SMTT(60)
  <2>7. DOMAIN d = E
    BY <2>6
  <2> QED BY <2>6, <2>7
<1>5. e1 \notin D \ {top} /\ e2 \notin D /\ b # e1 /\ b # e2 /\ b # top
  BY <1>0, <1>1, <1>2, <1>3
<1> HIDE DEF e1, e2
<1>6. /\ End(d, b) = b + n /\ End(d, e1) = e2 /\ End(d, e2) = End(c, top) /\ (left > 0 => End(d, top) = e1)
      /\ \A u \in D \ {top} : End(d, u) = End(c, u) /\ Span(d, u) = Span(c, u)
  <2>1. \A u \in D \ {top} : End(d, u) = End(c, u) /\ Span(d, u) = Span(c, u)
    BY <1>4 DEF End, Span
  <2>2. End(d, b) = b + n /\ End(d, e1) = e1 + 1 /\ End(d, e2) = e2 + 1 /\ (left > 0 => End(d, top) = top + left)
    BY <1>4 DEF End
  <2> QED BY <1>1, <2>1, <2>2
<1>7. Ordered(d)
  <2> SUFFICES ASSUME NEW u \in E, NEW v \in E, u < v PROVE End(d, u) <= v
    BY <1>4 DEF Ordered
  <2>0. \A w \in {top, e1, e2} : /\ w >= top /\ w <= e2 /\ (w # top \/ left > 0 => End(d, w) <= e2 + 1)
                                 /\ (left = 0 /\ w = top => w = e1)
    <3>1. /\ top >= top /\ top <= e2 /\ (left > 0 => End(d, top) <= e2 + 1) /\ (left = 0 => top = e1)
      BY <1>0, <1>1, <1>6
    <3>2. e1 >= top /\ e1 <= e2 /\ End(d, e1) <= e2 + 1
      BY <1>0, <1>1, <1>6
    <3>3. e2 >= top /\ e2 <= e2 /\ End(d, e2) <= e2 + 1 /\ e2 # top
      BY <1>0, <1>1, <1>6
    <3> QED BY <3>1, <3>2, <3>3
  <2>1. CASE u = b
    <3>1. CASE v \in D \ {top}
      <4>1. End(c, v) <= b \/ b + n <= v
        BY <3>1
      <4> QED BY <1>0, <1>6, <2>1, <3>1, <4>1
    <3>2. CASE v \in {top, e1, e2}
      <4>1. b < top
        BY <1>0, <1>1, <1>3, <2>0, <2>1, <3>2
      <4>2. b + n <= top
        BY <1>0, <1>1, <4>1
      <4> QED BY <1>0, <1>1, <1>6, <2>0, <2>1, <3>2, <4>2
    <3> QED BY <2>1, <3>1, <3>2
  <2>2. CASE u \in D \ {top}
    <3>1. CASE v \in D \ {top}
      BY <1>6, <2>2, <3>1 DEF Tiled, Ordered
    <3>2. CASE v \in {top, e1, e2}
      BY <1>0, <1>1, <1>2, <1>6, <2>0, <2>2, <3>2
    <3>3. CASE v = b
      BY <1>0, <1>6, <2>2, <3>3
    <3> QED BY <2>2, <3>1, <3>2, <3>3
  <2>3. CASE u \in {top, e1, e2}
    <3>1. CASE v \in D \ {top}
      BY <1>0, <1>1, <1>2, <1>6, <2>0, <2>3, <3>1
    <3>2. CASE v \in {top, e1, e2}
      <4>1. CASE u = top /\ left > 0
        BY <1>0, <1>1, <1>6, <3>2, <4>1
      <4>2. CASE u = e1
        BY <1>0, <1>1, <1>6, <3>2, <4>2
      <4>3. CASE u = e2
        BY <1>0, <1>1, <1>6, <3>2, <4>3
      <4> QED BY <1>1, <2>0, <2>3, <4>1, <4>2, <4>3
    <3>3. CASE v = b
      BY <1>0, <1>1, <1>3, <1>6, <2>0, <2>3, <3>3
    <3> QED BY <2>3, <3>1, <3>2, <3>3
  <2> QED BY <2>1, <2>2, <2>3
<1>8. Within(d, G)
  <2>1. Span(c, top) = <<top, End(c, top)>> /\ Span(c, top) \in G
    BY <1>0, <1>1 DEF Span, Tiled, Within
  <2>2. <<e1, e2>> \in G /\ <<e2, e2 + 1>> \in G /\ (left > 0 => <<top, e1>> \in G)
    BY <1>0, <1>1, <2>1 DEF Closed
  <2>3. Span(d, e1) = <<e1, e2>> /\ Span(d, e2) = <<e2, e2 + 1>> /\ Span(d, b) = <<b, b + n>>
    BY <1>1, <1>4 DEF Span
  <2>4. left > 0 => Span(d, top) = <<top, e1>>
    BY <1>1, <1>4 DEF Span
  <2>5. left = 0 => top = e1
    BY <1>0, <1>1
  <2> QED BY <1>1, <1>4, <1>6, <2>2, <2>3, <2>4, <2>5 DEF Within, Tiled
<1>9. Parts(d, b, F, Y)
  BY <1>1, <1>4, <1>5 DEF Tiled, Parts
<1>10. FreeTags(d, b, F)
  <2> SUFFICES ASSUME NEW q \in F
               PROVE  /\ d[q].size >= 2 /\ d[q].pinuse /\ End(d, q) \in E \ {b}
                      /\ ~ d[End(d, q)].pinuse /\ d[End(d, q)].prev = d[q].size
    BY <1>4 DEF FreeTags
  <2>2. /\ q \in D \ {top} /\ c[q].size >= 2 /\ c[q].pinuse /\ End(c, q) \in D \ {top}
        /\ ~ c[End(c, q)].pinuse /\ c[End(c, q)].prev = c[q].size
    BY <1>1 DEF Tiled, Parts, FreeTags
  <2> QED BY <1>4, <1>6, <2>2
<1>11. UsedTags(d, Y)
  <2> SUFFICES ASSUME NEW q \in Y
               PROVE  d[q].size >= 2 /\ End(d, q) \in E /\ d[End(d, q)].pinuse
    BY <1>4 DEF UsedTags
  <2>1. d[top].pinuse
    <3>1. left = 0 => top = e1
      BY <1>0, <1>1
    <3> QED BY <1>1, <1>4, <3>1
  <2>2. CASE q \in X
    <3>1. q \in D \ {top} /\ c[q].size >= 2 /\ End(c, q) \in D /\ c[End(c, q)].pinuse
      BY <1>1, <2>2 DEF Tiled, Parts, UsedTags
    <3>2. CASE End(c, q) = top
      BY <1>1, <1>4, <1>6, <2>1, <3>1, <3>2
    <3>3. CASE End(c, q) # top
      BY <1>4, <1>6, <3>1, <3>3
    <3> QED BY <3>2, <3>3
  <2>3. CASE q = top /\ left >= 2
    BY <1>1, <1>4, <1>6, <2>3
  <2> QED BY <1>1, <2>2, <2>3
<1>12. Follows(d, b, F \cup Y)
  <2> SUFFICES ASSUME NEW q \in F \cup Y
               PROVE  d[End(d, q)].size > 0 /\ End(d, End(d, q)) \in E
    BY <1>4 DEF Follows
  <2>1. d[top].size > 0 /\ End(d, top) \in E
    <3>1. left = 0 => top = e1
      BY <1>0, <1>1
    <3> QED BY <1>1, <1>4, <1>6, <3>1
  <2>2. CASE q \in F \cup X
    <3>1. q \in D \ {top} /\ End(c, q) \in D
          /\ (End(c, q) = top \/ (c[End(c, q)].size > 0 /\ End(c, End(c, q)) \in D))
      BY <1>1, <2>2 DEF Tiled, Parts, FreeTags, UsedTags, Follows
    <3>2. CASE End(c, q) = top
      BY <1>6, <2>1, <3>1, <3>2
    <3>3. CASE End(c, q) # top
      BY <1>4, <1>6, <3>1, <3>3
    <3> QED BY <3>2, <3>3
  <2>3. CASE q = top /\ left >= 2
    BY <1>1, <1>4, <1>6, <2>3
  <2> QED BY <1>1, <2>2, <2>3
<1>13. PrevTags(d, b, F)
  <2> SUFFICES ASSUME NEW q \in E, ~ d[q].pinuse
               PROVE  q # b /\ q - d[q].prev \in F /\ d[q - d[q].prev].size = d[q].prev
    BY <1>4 DEF PrevTags
  <2>1. left = 0 => top = e1
    BY <1>0, <1>1
  <2>2. q # b /\ q \in D \ {top} /\ ~ c[q].pinuse /\ d[q].prev = c[q].prev
    BY <1>1, <1>4, <2>1
  <2>3. q - c[q].prev \in F /\ c[q - c[q].prev].size = c[q].prev
    BY <2>2 DEF Tiled, PrevTags
  <2>4. q - c[q].prev \in D \ {top}
    BY <1>1, <2>3 DEF Tiled, Parts
  <2> QED BY <1>4, <2>2, <2>3, <2>4
<1>14. T \subseteq S \cup {e1, e2, top} /\ S \subseteq T /\ top \notin S /\ (top \in T => left < 2)
  BY <1>0, <1>1
<1>15. Fences(d, T)
  <2> SUFFICES ASSUME NEW q \in T
               PROVE  /\ d[q].size < 2 \/ (End(d, q) \in E /\ d[End(d, q)].size = 0)
                      /\ End(d, q) \in E \/ d[q].size = 1
    BY <1>4 DEF Fences
  <2>1. CASE q \in S
    <3>1. /\ c[q].size < 2 \/ (End(c, q) \in D /\ c[End(c, q)].size = 0)
          /\ End(c, q) \in D \/ c[q].size = 1
      BY <2>1 DEF Tiled, Fences
    <3>2. q \in D \ {top} /\ c[top].size # 0
      BY <1>0, <1>1, <2>1
    <3> QED BY <1>4, <1>6, <3>1, <3>2
  <2>2. CASE q \in {e1, e2}
    BY <1>4, <2>2
  <2>3. CASE q = top /\ left = 1
    BY <1>4, <2>3
  <2>4. CASE q = top /\ left = 0
    BY <1>0, <1>1, <1>4, <2>4
  <2> QED BY <1>1, <1>14, <2>1, <2>2, <2>3, <2>4
<1>16. LastFences(d, T)
  <2> SUFFICES ASSUME NEW q \in E, d[q].size = 0
               PROVE  /\ d[q].pinuse /\ d[q].prev \in {1, 2}
                      /\ q - d[q].prev \in T /\ d[q - d[q].prev].size = d[q].prev
    BY <1>4 DEF LastFences
  <2>0. left = 0 => top = e1
    BY <1>0, <1>1
  <2>1. q \in D \ {top} /\ c[q].size = 0
    BY <1>1, <1>4, <2>0
  <2>2. /\ c[q].pinuse /\ c[q].prev \in {1, 2}
        /\ q - c[q].prev \in S /\ c[q - c[q].prev].size = c[q].prev
    BY <2>1 DEF Tiled, LastFences
  <2> QED BY <1>4, <1>14, <2>1, <2>2
<1>20. Tiled(d, b, F, Y, G)
  BY <1>4, <1>7, <1>8, <1>9, <1>10, <1>11, <1>12, <1>13, <1>15, <1>16 DEF Tiled
<1>21. /\ (\A u \in E : u \in D \/ u = b \/ (top <= u /\ u < End(c, top)))
       /\ (\A u \in D \ {top} : u \in E /\ d[u].size = c[u].size)
  BY <1>0, <1>1, <1>4
<1>22. d[b].size = n /\ (c[top].size >= 4 => d[top].size = c[top].size - 2)
  BY <1>0, <1>1, <1>4
<1> QED BY <1>4, <1>20, <1>21, <1>22 DEF E, TopMoved

(* The first top.                                                           *)
LEMMA FirstTopIs ==
  ASSUME NEW b \in Nat \ {0}, NEW n \in Nat, n >= 2, NEW G, <<b, b + n>> \in G,
         NEW d, DOMAIN d = {b}, Headers(d), d[b].size = n, d[b].pinuse
  PROVE  Tiled(d, b, {}, {}, G)
<1>1. Ordered(d) /\ Parts(d, b, {}, {}) /\ FreeTags(d, b, {}) /\ UsedTags(d, {}) /\ PrevTags(d, b, {})
  BY DEF Ordered, Parts, FreeTags, UsedTags, PrevTags
<1>2. Within(d, G)
  BY DEF Within, Span
<1>3. DOMAIN d \ ({} \cup {} \cup {b}) = {} /\ {} \cup {} = {}
  OBVIOUS
<1>4. Follows(d, b, {}) /\ Fences(d, {}) /\ LastFences(d, {})
  BY DEF Follows, Fences, LastFences
<1> QED BY <1>1, <1>2, <1>3, <1>4 DEF Tiled

(* Other memory.                                                            *)
LEMMA MemoryChanges ==
  ASSUME NEW c, NEW top, NEW F, NEW X, NEW G, Tiled(c, top, F, X, G), NEW H, Within(c, H)
  PROVE  Tiled(c, top, F, X, H)
BY DEF Tiled


----------------------------------------------------------------------------
(* The lists. Every free chunk is on one of them, once; in a bin it is the  *)
(* bin of its size.                                                         *)
Lists(bins, F) ==
  /\ bins \in [1 .. NBins -> Seq(F)]
  /\ \A p \in F : \E i \in 1 .. NBins : \E k \in 1 .. Len(bins[i]) : bins[i][k] = p
  /\ \A i, j \in 1 .. NBins : \A k \in 1 .. Len(bins[i]) : \A l \in 1 .. Len(bins[j]) :
       bins[i][k] = bins[j][l] => i = j /\ k = l
InBin(c, p, i)    == c[p].size \in Sizes /\ BinIndex[c[p].size] = i
Sorted(c, bins) ==
  \A i \in 2 .. NBins : \A k \in 1 .. Len(bins[i]) : InBin(c, bins[i][k], i)

(* Lists without what was in one place, or with a chunk in a new place.     *)
Removed(s, m, t) ==
  Len(t) = Len(s) - 1 /\ \A k \in 1 .. Len(t) : t[k] = IF k < m THEN s[k] ELSE s[k + 1]
Inserted(s, m, e, t) ==
  Len(t) = Len(s) + 1 /\ \A k \in 1 .. Len(t) : t[k] = IF k < m THEN s[k] ELSE IF k = m THEN e ELSE s[k - 1]

(* Lists without one of their chunks hold all the others, once, sorted.     *)
LEMMA RemovedIs ==
  ASSUME NEW F, NEW bins, Lists(bins, F), NEW c, Sorted(c, bins),
         NEW i \in 1 .. NBins, NEW m \in 1 .. Len(bins[i]), NEW new, DOMAIN new = 1 .. NBins,
         \A j \in 1 .. NBins : j # i => new[j] = bins[j],
         NEW T, new[i] \in Seq(T), Removed(bins[i], m, new[i]), new = [j \in 1 .. NBins |-> new[j]]
  PROVE  Lists(new, F \ {bins[i][m]}) /\ Sorted(c, new)
<1> DEFINE p == bins[i][m]
           at(k) == IF k < m THEN k ELSE k + 1
<1>0. \A j, h \in 1 .. NBins : \A k \in 1 .. Len(bins[j]) : \A l \in 1 .. Len(bins[h]) :
        bins[j][k] = bins[h][l] => j = h /\ k = l
  BY DEF Lists
<1>1. \A j \in 1 .. NBins : bins[j] \in Seq(F) /\ Len(bins[j]) \in Nat /\ Len(new[j]) \in Nat
  <2>1. \A j \in 1 .. NBins : bins[j] \in Seq(F)
    BY DEF Lists
  <2>2. \A j \in 1 .. NBins : Len(bins[j]) \in Nat
    BY <2>1
  <2>3. Len(new[i]) \in Nat
    OBVIOUS
  <2>4. \A j \in 1 .. NBins : j # i => Len(new[j]) \in Nat
    BY <2>2
  <2> QED BY <2>1, <2>2, <2>3, <2>4
<1>2. \A k \in 1 .. Len(new[i]) : at(k) \in 1 .. Len(bins[i]) /\ at(k) # m /\ new[i][k] = bins[i][at(k)]
  BY <1>1 DEF Removed
<1>3. \A k, l \in 1 .. Len(new[i]) : at(k) = at(l) => k = l
  BY <1>1, m \in Int
<1>4. \A k \in 1 .. Len(bins[i]) : k # m => \E l \in 1 .. Len(new[i]) : at(l) = k
  <2> SUFFICES ASSUME NEW k \in 1 .. Len(bins[i]), k # m PROVE \E l \in 1 .. Len(new[i]) : at(l) = k
    OBVIOUS
  <2>1. Len(new[i]) = Len(bins[i]) - 1
    BY DEF Removed
  <2>2. CASE k < m
    BY <1>1, <2>1, <2>2
  <2>3. CASE k > m
    <3>1. k - 1 \in 1 .. Len(new[i]) /\ at(k - 1) = k
      BY <1>1, <2>1, <2>3
    <3> QED BY <3>1
  <2> QED BY <2>2, <2>3, m \in Int
<1> HIDE DEF at
<1>5. \A j \in 1 .. NBins : \A k \in 1 .. Len(new[j]) :
        \E l \in 1 .. Len(bins[j]) : new[j][k] = bins[j][l] /\ (j = i => l = at(k) /\ l # m) /\ (j # i => l = k)
  BY <1>1, <1>2
<1>6. \A j \in 1 .. NBins : \A k \in 1 .. Len(new[j]) : new[j][k] \in F \ {p}
  <2> SUFFICES ASSUME NEW j \in 1 .. NBins, NEW k \in 1 .. Len(new[j]) PROVE new[j][k] \in F \ {p}
    OBVIOUS
  <2>1. PICK l \in 1 .. Len(bins[j]) : new[j][k] = bins[j][l] /\ (j = i => l = at(k) /\ l # m)
    BY <1>5
  <2>2. bins[j][l] \in F
    BY <1>1
  <2>3. bins[j][l] # p
    BY <1>0, <2>1
  <2> QED BY <2>1, <2>2, <2>3
<1>7. new \in [1 .. NBins -> Seq(F \ {p})]
  <2> SUFFICES ASSUME NEW j \in 1 .. NBins PROVE new[j] \in Seq(F \ {p})
    OBVIOUS
  <2>1. new[j] = [k \in 1 .. Len(new[j]) |-> new[j][k]]
    <3>1. CASE j = i
      BY <3>1
    <3>2. CASE j # i
      BY <1>1, <3>2
    <3> QED BY <3>1, <3>2
  <2> QED BY <1>1, <1>6, <2>1
<1>8. \A q \in F \ {p} : \E j \in 1 .. NBins : \E k \in 1 .. Len(new[j]) : new[j][k] = q
  <2> SUFFICES ASSUME NEW q \in F, q # p PROVE \E j \in 1 .. NBins : \E k \in 1 .. Len(new[j]) : new[j][k] = q
    OBVIOUS
  <2>1. PICK j \in 1 .. NBins : \E k \in 1 .. Len(bins[j]) : bins[j][k] = q
    BY DEF Lists
  <2>2. PICK k \in 1 .. Len(bins[j]) : bins[j][k] = q
    BY <2>1
  <2>3. CASE j # i
    BY <2>2, <2>3
  <2>4. CASE j = i
    <3>1. PICK l \in 1 .. Len(new[i]) : at(l) = k
      BY <1>4, <2>2, <2>4
    <3> QED BY <1>2, <2>2, <2>4, <3>1
  <2> QED BY <2>3, <2>4
<1>9. \A j, h \in 1 .. NBins : \A k \in 1 .. Len(new[j]) : \A l \in 1 .. Len(new[h]) :
        new[j][k] = new[h][l] => j = h /\ k = l
  <2> SUFFICES ASSUME NEW j \in 1 .. NBins, NEW h \in 1 .. NBins, NEW k \in 1 .. Len(new[j]), NEW l \in 1 .. Len(new[h]),
                      new[j][k] = new[h][l]
               PROVE  j = h /\ k = l
    OBVIOUS
  <2>1. PICK k1 \in 1 .. Len(bins[j]) : new[j][k] = bins[j][k1] /\ (j = i => k1 = at(k)) /\ (j # i => k1 = k)
    BY <1>5
  <2>2. PICK l1 \in 1 .. Len(bins[h]) : new[h][l] = bins[h][l1] /\ (h = i => l1 = at(l)) /\ (h # i => l1 = l)
    BY <1>5
  <2>3. j = h /\ k1 = l1
    <3>1. j \in 1 .. NBins /\ h \in 1 .. NBins /\ k1 \in 1 .. Len(bins[j]) /\ l1 \in 1 .. Len(bins[h])
          /\ bins[j][k1] = bins[h][l1]
      BY <2>1, <2>2
    <3> QED BY ONLY <1>0, <3>1
  <2> QED BY <1>3, <2>1, <2>2, <2>3
<1>10. Sorted(c, new)
  <2> SUFFICES ASSUME NEW j \in 2 .. NBins, NEW k \in 1 .. Len(new[j]) PROVE InBin(c, new[j][k], j)
    BY DEF Sorted
  <2>1. j \in 1 .. NBins
    OBVIOUS
  <2>2. PICK l \in 1 .. Len(bins[j]) : new[j][k] = bins[j][l]
    BY <1>5, <2>1
  <2> QED BY <2>2 DEF Sorted
<1> QED BY <1>7, <1>8, <1>9, <1>10 DEF Lists

(* Lists with a chunk put in its bin hold it and all the others, once.      *)
LEMMA InsertedIs ==
  ASSUME NEW F, NEW bins, Lists(bins, F), NEW c, Sorted(c, bins), NEW p, p \notin F,
         NEW i \in 1 .. NBins, NEW m \in 1 .. Len(bins[i]) + 1, NEW new, DOMAIN new = 1 .. NBins,
         \A j \in 1 .. NBins : j # i => new[j] = bins[j], i = 1 \/ InBin(c, p, i),
         NEW T, new[i] \in Seq(T), Inserted(bins[i], m, p, new[i]), new = [j \in 1 .. NBins |-> new[j]]
  PROVE  Lists(new, F \cup {p}) /\ Sorted(c, new)
<1> DEFINE at(k) == IF k < m THEN k ELSE k + 1
<1>0. \A j, h \in 1 .. NBins : \A k \in 1 .. Len(bins[j]) : \A l \in 1 .. Len(bins[h]) :
        bins[j][k] = bins[h][l] => j = h /\ k = l
  BY DEF Lists
<1>1. \A j \in 1 .. NBins : bins[j] \in Seq(F) /\ Len(bins[j]) \in Nat /\ Len(new[j]) \in Nat
  <2>1. \A j \in 1 .. NBins : bins[j] \in Seq(F)
    BY DEF Lists
  <2>2. \A j \in 1 .. NBins : Len(bins[j]) \in Nat
    BY <2>1
  <2>3. Len(new[i]) \in Nat
    OBVIOUS
  <2>4. \A j \in 1 .. NBins : j # i => Len(new[j]) \in Nat
    BY <2>2
  <2> QED BY <2>1, <2>2, <2>3, <2>4
<1>2. \A k \in 1 .. Len(bins[i]) : at(k) \in 1 .. Len(new[i]) /\ at(k) # m /\ new[i][at(k)] = bins[i][k]
  <2> SUFFICES ASSUME NEW k \in 1 .. Len(bins[i])
               PROVE  at(k) \in 1 .. Len(new[i]) /\ at(k) # m /\ new[i][at(k)] = bins[i][k]
    OBVIOUS
  <2>1. /\ Len(new[i]) = Len(bins[i]) + 1
        /\ \A l \in 1 .. Len(new[i]) : new[i][l] = IF l < m THEN bins[i][l] ELSE IF l = m THEN p ELSE bins[i][l - 1]
    BY DEF Inserted
  <2>2. Len(bins[i]) \in Nat
    BY <1>1
  <2>3. CASE k < m
    BY <2>1, <2>2, <2>3
  <2>4. CASE k >= m
    <3>1. k + 1 \in 1 .. Len(new[i]) /\ at(k) = k + 1 /\ k + 1 > m /\ (k + 1) - 1 = k
      BY <2>1, <2>2, <2>4
    <3> QED BY <2>1, <3>1
  <2> QED BY <2>3, <2>4, m \in Int
<1>3. m \in 1 .. Len(new[i]) /\ new[i][m] = p
  BY <1>1 DEF Inserted
<1>4. \A k \in 1 .. Len(new[i]) : k = m \/ \E l \in 1 .. Len(bins[i]) : at(l) = k
  <2> SUFFICES ASSUME NEW k \in 1 .. Len(new[i]), k # m PROVE \E l \in 1 .. Len(bins[i]) : at(l) = k
    OBVIOUS
  <2>1. Len(new[i]) = Len(bins[i]) + 1
    BY DEF Inserted
  <2>2. CASE k < m
    BY <1>1, <2>1, <2>2
  <2>3. CASE k > m
    <3>1. k - 1 \in 1 .. Len(bins[i]) /\ at(k - 1) = k
      BY <1>1, <2>1, <2>3
    <3> QED BY <3>1
  <2> QED BY <2>2, <2>3, m \in Int
<1> HIDE DEF at
<1>5. \A j \in 1 .. NBins : \A k \in 1 .. Len(new[j]) :
        \/ j = i /\ k = m /\ new[j][k] = p
        \/ \E l \in 1 .. Len(bins[j]) : new[j][k] = bins[j][l] /\ (j = i => k = at(l)) /\ (j # i => l = k)
  <2> SUFFICES ASSUME NEW j \in 1 .. NBins, NEW k \in 1 .. Len(new[j])
               PROVE  \/ j = i /\ k = m /\ new[j][k] = p
                      \/ \E l \in 1 .. Len(bins[j]) : new[j][k] = bins[j][l] /\ (j = i => k = at(l)) /\ (j # i => l = k)
    OBVIOUS
  <2>1. CASE j # i
    BY <2>1
  <2>2. CASE j = i
    BY <1>2, <1>3, <1>4, <2>2
  <2> QED BY <2>1, <2>2
<1>6. \A j \in 1 .. NBins : \A k \in 1 .. Len(new[j]) : new[j][k] \in F \cup {p}
  BY <1>1, <1>5
<1>7. new \in [1 .. NBins -> Seq(F \cup {p})]
  <2> SUFFICES ASSUME NEW j \in 1 .. NBins PROVE new[j] \in Seq(F \cup {p})
    OBVIOUS
  <2>1. new[j] = [k \in 1 .. Len(new[j]) |-> new[j][k]]
    <3>1. CASE j = i
      BY <3>1
    <3>2. CASE j # i
      BY <1>1, <3>2
    <3> QED BY <3>1, <3>2
  <2> QED BY <1>1, <1>6, <2>1
<1>8. \A q \in F \cup {p} : \E j \in 1 .. NBins : \E k \in 1 .. Len(new[j]) : new[j][k] = q
  <2> SUFFICES ASSUME NEW q \in F PROVE \E j \in 1 .. NBins : \E k \in 1 .. Len(new[j]) : new[j][k] = q
    BY <1>3
  <2>1. PICK j \in 1 .. NBins : \E k \in 1 .. Len(bins[j]) : bins[j][k] = q
    BY DEF Lists
  <2>2. PICK k \in 1 .. Len(bins[j]) : bins[j][k] = q
    BY <2>1
  <2>3. CASE j # i
    BY <2>2, <2>3
  <2>4. CASE j = i
    BY <1>2, <2>2, <2>4
  <2> QED BY <2>3, <2>4
<1>9. \A j, h \in 1 .. NBins : \A k \in 1 .. Len(new[j]) : \A l \in 1 .. Len(new[h]) :
        new[j][k] = new[h][l] => j = h /\ k = l
  <2> SUFFICES ASSUME NEW j \in 1 .. NBins, NEW h \in 1 .. NBins, NEW k \in 1 .. Len(new[j]), NEW l \in 1 .. Len(new[h]),
                      new[j][k] = new[h][l]
               PROVE  j = h /\ k = l
    OBVIOUS
  <2>0. \A g \in 1 .. NBins : \A n \in 1 .. Len(bins[g]) : bins[g][n] # p
    BY <1>1
  <2>1. CASE new[j][k] = p
    BY <1>5, <2>0, <2>1
  <2>2. CASE new[j][k] # p
    <3>1. PICK k1 \in 1 .. Len(bins[j]) : new[j][k] = bins[j][k1] /\ (j = i => k = at(k1)) /\ (j # i => k1 = k)
      BY <1>5, <2>2
    <3>2. PICK l1 \in 1 .. Len(bins[h]) : new[h][l] = bins[h][l1] /\ (h = i => l = at(l1)) /\ (h # i => l1 = l)
      BY <1>5, <2>2
    <3>3. j = h /\ k1 = l1
      <4>1. j \in 1 .. NBins /\ h \in 1 .. NBins /\ k1 \in 1 .. Len(bins[j]) /\ l1 \in 1 .. Len(bins[h])
            /\ bins[j][k1] = bins[h][l1]
        BY <3>1, <3>2
      <4> QED BY ONLY <1>0, <4>1
    <3> QED BY <3>1, <3>2, <3>3
  <2> QED BY <2>1, <2>2
<1>10. Sorted(c, new)
  <2> SUFFICES ASSUME NEW j \in 2 .. NBins, NEW k \in 1 .. Len(new[j]) PROVE InBin(c, new[j][k], j)
    BY DEF Sorted
  <2>1. j \in 1 .. NBins /\ j # 1
    OBVIOUS
  <2>2. CASE j = i /\ new[j][k] = p
    BY <2>1, <2>2
  <2>3. CASE \E l \in 1 .. Len(bins[j]) : new[j][k] = bins[j][l]
    BY <2>3 DEF Sorted
  <2> QED BY <1>5, <2>1, <2>2, <2>3
<1> QED BY <1>7, <1>8, <1>9, <1>10 DEF Lists

(* Two sequences one behind the other.                                      *)
LEMMA Joined ==
  ASSUME NEW S, NEW s \in Seq(S), NEW t \in Seq(S), NEW r, r = s \o t
  PROVE  /\ r \in Seq(S) /\ Len(r) = Len(s) + Len(t) /\ Len(r) \in Nat
         /\ \A i \in 1 .. Len(r) : r[i] = IF i <= Len(s) THEN s[i] ELSE t[i - Len(s)]
OBVIOUS

(* Part of a sequence.                                                      *)
LEMMA Part ==
  ASSUME NEW S, NEW s \in Seq(S), NEW m \in Nat \ {0}, NEW n \in Nat, n <= Len(s), m <= n + 1,
         NEW r, r = SubSeq(s, m, n)
  PROVE  r \in Seq(S) /\ Len(r) = n - m + 1 /\ \A i \in 1 .. Len(r) : r[i] = s[m + i - 1]
OBVIOUS

(* The operations on a list.                                                *)
LEMMA FrontIs ==
  ASSUME NEW S, NEW s \in Seq(S), s # <<>>
  PROVE  Front(s) \in Seq(S) /\ Removed(s, Len(s), Front(s)) /\ Last(s) = s[Len(s)] /\ Len(s) \in 1 .. Len(s)
<1>1. Len(s) \in Nat \ {0}
  OBVIOUS
<1> DEFINE r == Front(s)
           n == Len(s) - 1
           m == 1
<1>2. r = SubSeq(s, m, n) /\ n \in Nat /\ m \in Nat \ {0} /\ n <= Len(s) /\ m <= n + 1 /\ m = 1
  BY <1>1 DEF Front
<1> HIDE DEF m, n, r
<1>3. r \in Seq(S) /\ Len(r) = n - m + 1 /\ \A i \in 1 .. Len(r) : r[i] = s[m + i - 1]
  BY ONLY <1>2, s \in Seq(S), Part
<1> QED BY <1>1, <1>2, <1>3 DEF Removed, Last, n, r

(* RemoveFirst of what a sequence holds once takes just that away.          *)
LEMMA RemoveFirstIs ==
  ASSUME NEW S, NEW s \in Seq(S), NEW m \in 1 .. Len(s), \A k \in 1 .. Len(s) : s[k] = s[m] => k = m,
         NEW e, e = s[m]
  PROVE  RemoveFirst(s, e) \in Seq(S) /\ Removed(s, m, RemoveFirst(s, e))
<1> DEFINE front == SubSeq(s, 1, m - 1)
           back  == SubSeq(s, m + 1, Len(s))
           r     == RemoveFirst(s, e)
           one   == 1
           lo    == m - 1
           hi    == m + 1
           n     == Len(s)
<1>1. { i \in 1 .. Len(s) : s[i] = e } = {m}
  OBVIOUS
<1>2. Min({m}) = m
  BY DEF Min
<1>3. r = front \o back
  BY <1>1, <1>2 DEF RemoveFirst, RemoveAt, SelectInSeq
<1>4. /\ one \in Nat \ {0} /\ lo \in Nat /\ hi \in Nat \ {0} /\ n \in Nat /\ lo <= Len(s) /\ one <= lo + 1
      /\ n <= Len(s) /\ hi <= n + 1 /\ one = 1 /\ lo = m - 1 /\ hi = m + 1 /\ n = Len(s)
  OBVIOUS
<1>5. front = SubSeq(s, one, lo) /\ back = SubSeq(s, hi, n)
  OBVIOUS
<1> HIDE DEF front, back, r, one, lo, hi, n
<1>6. front \in Seq(S) /\ Len(front) = lo - one + 1 /\ \A i \in 1 .. Len(front) : front[i] = s[one + i - 1]
  BY ONLY <1>4, <1>5, s \in Seq(S), Part
<1>7. back \in Seq(S) /\ Len(back) = n - hi + 1 /\ \A i \in 1 .. Len(back) : back[i] = s[hi + i - 1]
  BY ONLY <1>4, <1>5, s \in Seq(S), Part
<1>8. /\ r \in Seq(S) /\ Len(r) = Len(front) + Len(back)
      /\ \A i \in 1 .. Len(r) : r[i] = IF i <= Len(front) THEN front[i] ELSE back[i - Len(front)]
  BY ONLY <1>3, <1>6, <1>7, Joined
<1>9. Len(front) = m - 1 /\ Len(back) = Len(s) - m /\ Len(r) = Len(s) - 1
  BY ONLY <1>4, <1>6, <1>7, <1>8, m \in 1 .. Len(s)
<1>10. ASSUME NEW i \in 1 .. Len(r) PROVE r[i] = IF i < m THEN s[i] ELSE s[i + 1]
  <2>1. CASE i < m
    <3>1. i \in 1 .. Len(front) /\ one + i - 1 = i
      BY <1>4, <1>9, <2>1
    <3> QED BY ONLY <1>6, <1>8, <2>1, <3>1, <1>10
  <2>2. CASE i >= m
    <3> DEFINE k == i - Len(front)
    <3>1. k \in 1 .. Len(back) /\ ~ (i <= Len(front)) /\ hi + k - 1 = i + 1 /\ ~ (i < m)
      BY <1>4, <1>9, <2>2
    <3>2. r[i] = back[k]
      BY ONLY <1>8, <3>1, <1>10
    <3> HIDE DEF k
    <3>3. back[k] = s[i + 1]
      BY ONLY <1>7, <3>1
    <3> QED BY <3>1, <3>2, <3>3
  <2>3. i \in Nat /\ m \in Nat
    BY <1>9
  <2> QED BY <2>1, <2>2, <2>3
<1> QED BY <1>8, <1>9, <1>10 DEF Removed, r

(* RemoveFirst of what a sequence does not hold leaves it.                  *)
LEMMA RemoveNothing ==
  ASSUME NEW s, NEW e, \A k \in 1 .. Len(s) : s[k] # e
  PROVE  RemoveFirst(s, e) = s
BY DEF RemoveFirst

(* An element pushed to the front is inserted at 1.                         *)
LEMMA PushIs ==
  ASSUME NEW S, NEW s \in Seq(S), NEW p
  PROVE  <<p>> \o s \in Seq(S \cup {p}) /\ Inserted(s, 1, p, <<p>> \o s)
<1>1. s \in Seq(S \cup {p}) /\ <<p>> \in Seq(S \cup {p}) /\ Len(<<p>>) = 1
  OBVIOUS
<1> QED BY <1>1 DEF Inserted

(* InsertAt inserts.                                                        *)
LEMMA InsertAtIs ==
  ASSUME NEW S, NEW s \in Seq(S), NEW p, NEW m \in 1 .. Len(s) + 1
  PROVE  InsertAt(s, m, p) \in Seq(S \cup {p}) /\ Inserted(s, m, p, InsertAt(s, m, p))
<1> DEFINE front == SubSeq(s, 1, m - 1)
           back  == SubSeq(s, m, Len(s))
           mid   == <<p>>
           end   == mid \o back
           r     == InsertAt(s, m, p)
           U     == S \cup {p}
           one   == 1
           lo    == m - 1
           n     == Len(s)
<1>1. s \in Seq(U) /\ Len(s) \in Nat
  OBVIOUS
<1>2. r = front \o end
  <2>1. r = front \o mid \o back
    BY DEF InsertAt
  <2>2. front \in Seq(U) /\ mid \in Seq(U) /\ back \in Seq(U)
    BY <1>1
  <2> HIDE DEF front, mid, back, r
  <2>3. front \o mid \o back = front \o (mid \o back)
    BY ONLY <2>2, ConcatAssociative
  <2> QED BY <2>1, <2>3
<1>3. mid \in Seq(U) /\ Len(mid) = 1 /\ mid[1] = p
  OBVIOUS
<1>4. /\ one \in Nat \ {0} /\ lo \in Nat /\ m \in Nat \ {0} /\ n \in Nat /\ lo <= Len(s) /\ one <= lo + 1
      /\ n <= Len(s) /\ m <= n + 1 /\ one = 1 /\ lo = m - 1 /\ n = Len(s)
  BY <1>1
<1>5. front = SubSeq(s, one, lo) /\ back = SubSeq(s, m, n) /\ end = mid \o back
  OBVIOUS
<1> HIDE DEF front, back, mid, end, r, U, one, lo, n
<1>6. front \in Seq(U) /\ Len(front) = lo - one + 1 /\ \A i \in 1 .. Len(front) : front[i] = s[one + i - 1]
  BY ONLY <1>1, <1>4, <1>5, Part
<1>7. back \in Seq(U) /\ Len(back) = n - m + 1 /\ \A i \in 1 .. Len(back) : back[i] = s[m + i - 1]
  BY ONLY <1>1, <1>4, <1>5, Part
<1>8. /\ end \in Seq(U) /\ Len(end) = Len(mid) + Len(back)
      /\ \A i \in 1 .. Len(end) : end[i] = IF i <= Len(mid) THEN mid[i] ELSE back[i - Len(mid)]
  <2>1. mid \in Seq(U) /\ back \in Seq(U) /\ end = mid \o back
    BY <1>3, <1>5, <1>7
  <2> QED BY ONLY <2>1, Joined
<1>9. /\ r \in Seq(U) /\ Len(r) = Len(front) + Len(end)
      /\ \A i \in 1 .. Len(r) : r[i] = IF i <= Len(front) THEN front[i] ELSE end[i - Len(front)]
  <2>1. front \in Seq(U) /\ end \in Seq(U) /\ r = front \o end
    BY <1>2, <1>6, <1>8
  <2> QED BY ONLY <2>1, Joined
<1>10. Len(front) = m - 1 /\ Len(back) = Len(s) - m + 1 /\ Len(end) = Len(s) - m + 2 /\ Len(r) = Len(s) + 1
  BY ONLY <1>3, <1>4, <1>6, <1>7, <1>8, <1>9
<1>11. ASSUME NEW i \in 1 .. Len(r) PROVE r[i] = IF i < m THEN s[i] ELSE IF i = m THEN p ELSE s[i - 1]
  <2>0. i \in Nat /\ i <= Len(s) + 1
    BY <1>1, <1>10
  <2>1. CASE i < m
    <3>1. i \in 1 .. Len(front) /\ one + i - 1 = i /\ i <= Len(front)
      BY <1>4, <1>10, <2>1
    <3> QED BY ONLY <1>6, <1>9, <2>1, <3>1, <1>11
  <2>2. CASE i = m
    <3>1. ~ (i <= Len(front)) /\ i - Len(front) = 1 /\ 1 \in 1 .. Len(end) /\ 1 <= Len(mid)
      BY <1>3, <1>4, <1>10, <2>2
    <3>2. r[i] = end[1]
      BY ONLY <1>9, <3>1, <1>11
    <3>3. end[1] = mid[1]
      BY ONLY <1>8, <3>1
    <3> QED BY ONLY <1>3, <2>2, <3>2, <3>3, <1>4
  <2>3. CASE i > m
    <3> DEFINE k == i - Len(front)
    <3>1. ~ (i <= Len(front)) /\ k \in 1 .. Len(end) /\ ~ (k <= Len(mid)) /\ k - Len(mid) \in 1 .. Len(back)
          /\ m + (k - Len(mid)) - 1 = i - 1
      BY <1>3, <1>4, <1>10, <2>0, <2>3
    <3>2. r[i] = end[k]
      BY ONLY <1>9, <3>1, <1>11
    <3> HIDE DEF k
    <3>3. end[k] = back[k - Len(mid)]
      BY ONLY <1>8, <3>1
    <3>4. back[k - Len(mid)] = s[i - 1]
      BY ONLY <1>7, <3>1
    <3> QED BY <2>0, <2>3, <3>2, <3>3, <3>4, <1>4
  <2> QED BY <1>4, <2>0, <2>1, <2>2, <2>3
<1> QED BY <1>9, <1>10, <1>11 DEF Inserted, r, U

----------------------------------------------------------------------------
(* The record of an arena, which Heaps extends.                             *)
ArenaFields == {"chunk", "bins", "binmap", "top", "last", "contig", "sysmem", "brk", "bad"}
IsArena(a)  == ArenaFields \subseteq DOMAIN a /\ a = [x \in DOMAIN a |-> a[x]]
(* Nothing but the fields of S differs.                                     *)
Differs(a, d, S) == DOMAIN d = DOMAIN a /\ d = [x \in DOMAIN a |-> d[x]] /\ \A x \in DOMAIN a \ S : d[x] = a[x]

(* set_head changes the headers as NewHead says.                            *)
LEMMA SetHeadIs ==
  ASSUME NEW a, IsArena(a), NEW p, NEW n, NEW b
  PROVE  Differs(a, SetHead(a, p, n, b), {"chunk"}) /\ SetHead(a, p, n, b).chunk = NewHead(a.chunk, p, n, b)
BY DEF IsArena, ArenaFields, Differs, SetHead, NewHead

(* The second of two sizes written to a header stays.                       *)
LEMMA HeadTwice ==
  ASSUME NEW c, NEW p, NEW m, NEW n
  PROVE  UsedHead(UsedHead(c, p, m), p, n) = UsedHead(c, p, n)
BY DEF UsedHead

(* Headers of different chunks are written and dropped in any order.        *)
LEMMA HeadWithout ==
  ASSUME NEW c, NEW p, NEW t, p # t, NEW n
  PROVE  Without(UsedHead(c, p, n), t) = UsedHead(Without(c, t), p, n)
BY DEF UsedHead, Without

(* The header of a chunk that joins top, written before and after.          *)
LEMMA ToTopHead ==
  ASSUME NEW c, NEW p, NEW t, p # t, NEW m, NEW n
  PROVE  UsedHead(Without(UsedHead(c, p, m), t), p, n) = UsedHead(Without(c, t), p, n)
BY DEF UsedHead, Without

FootAt(c, e, n) == [c EXCEPT ![e].prev = n]

(* set_foot by the address it writes to.                                    *)
LEMMA FootIsAt ==
  ASSUME NEW c, NEW p, NEW n, NEW e, p + n = e
  PROVE  Foot(c, p, n) = FootAt(c, e, n)
BY DEF Foot, FootAt

(* A header and the bit of another chunk are set in any order.              *)
LEMMA HeadSet ==
  ASSUME NEW c, NEW p, NEW n, NEW e, p # e
  PROVE  SetBit(UsedHead(c, p, n), e) = UsedHead(SetBit(c, e), p, n)
BY DEF UsedHead, SetBit

(* A header is set and the bit of another cleared in any order.             *)
LEMMA HeadClear ==
  ASSUME NEW c, NEW p, NEW n, NEW e, p # e
  PROVE  ClearBit(UsedHead(c, p, n), e) = UsedHead(ClearBit(c, e), p, n)
BY DEF UsedHead, ClearBit

(* A header and the footer in front of another are set in any order.        *)
LEMMA HeadFoot ==
  ASSUME NEW c, NEW p, NEW n, NEW e, p # e, NEW m
  PROVE  FootAt(UsedHead(c, p, n), e, m) = UsedHead(FootAt(c, e, m), p, n)
BY DEF UsedHead, FootAt

(* A header is dropped and the bit of another set in any order.             *)
LEMMA WithoutSet ==
  ASSUME NEW c, NEW q, NEW e, q # e
  PROVE  SetBit(Without(c, q), e) = Without(SetBit(c, e), q)
BY DEF Without, SetBit

(* A header is dropped and the bit of another cleared in any order.         *)
LEMMA WithoutClear ==
  ASSUME NEW c, NEW q, NEW e, q # e
  PROVE  ClearBit(Without(c, q), e) = Without(ClearBit(c, e), q)
BY DEF Without, ClearBit

(* A header is dropped and a footer written in any order.                   *)
LEMMA WithoutFoot ==
  ASSUME NEW c, NEW q, NEW e, q # e, NEW m
  PROVE  FootAt(Without(c, q), e, m) = Without(FootAt(c, e, m), q)
BY DEF Without, FootAt

(* Functions from addresses to headers are equal if their fields are.       *)
LEMMA SameHeaders ==
  ASSUME NEW c, Headers(c), NEW d, Headers(d), DOMAIN c = DOMAIN d,
         \A x \in DOMAIN c : c[x].size = d[x].size /\ (c[x].pinuse <=> d[x].pinuse) /\ c[x].prev = d[x].prev
  PROVE  c = d
<1>1. ASSUME NEW x \in DOMAIN c PROVE c[x] = d[x]
  <2>1. c[x] = [size |-> c[x].size, pinuse |-> c[x].pinuse, prev |-> c[x].prev] /\ c[x].pinuse \in BOOLEAN
    BY Fields
  <2>2. d[x] = [size |-> d[x].size, pinuse |-> d[x].pinuse, prev |-> d[x].prev] /\ d[x].pinuse \in BOOLEAN
    BY Fields
  <2>3. c[x].pinuse = d[x].pinuse
    BY <2>1, <2>2
  <2>4. c[x].size = d[x].size /\ c[x].prev = d[x].prev
    OBVIOUS
  <2> QED BY ONLY <2>1, <2>2, <2>3, <2>4
<1>2. c = [x \in DOMAIN c |-> c[x]] /\ d = [x \in DOMAIN d |-> d[x]]
  BY DEF Headers
<1> QED BY <1>1, <1>2

(* Setting a clear bit and clearing it again is undone by the footer.       *)
LEMMA Refoot ==
  ASSUME NEW c, Headers(c), NEW e \in DOMAIN c, ~ c[e].pinuse, NEW p, NEW m \in Nat, e = p + m
  PROVE  Foot(ClearBit(SetBit(c, e), e), p, m) = Foot(c, p, m)
<1> DEFINE c1 == SetBit(c, e)
           c2 == ClearBit(c1, e)
           d == Foot(c2, p, m)
           g == Foot(c, p, m)
<1>0. Headers(c) /\ c1 = SetBit(c, e) /\ c2 = ClearBit(c1, e) /\ d = Foot(c2, p, m) /\ g = Foot(c, p, m)
      /\ m \in Nat /\ e \in DOMAIN c /\ e = p + m
  OBVIOUS
<1> HIDE DEF c1, c2, d, g
<1>1. /\ Headers(c1) /\ DOMAIN c1 = DOMAIN c
      /\ c1[e].size = c[e].size /\ c1[e].pinuse /\ c1[e].prev = 0
      /\ \A q \in DOMAIN c \ {e} : c1[q] = c[q]
  BY ONLY <1>0, SetBitOk
<1>2. /\ Headers(c2) /\ DOMAIN c2 = DOMAIN c1
      /\ c2[e].size = c1[e].size /\ ~ c2[e].pinuse /\ c2[e].prev = c1[e].prev
      /\ \A q \in DOMAIN c1 \ {e} : c2[q] = c1[q]
  BY ONLY <1>0, <1>1, ClearBitOk
<1>3. /\ Headers(d) /\ DOMAIN d = DOMAIN c2
      /\ d[p + m] = [size |-> c2[p + m].size, pinuse |-> c2[p + m].pinuse, prev |-> m]
      /\ \A q \in DOMAIN c2 \ {p + m} : d[q] = c2[q]
  BY ONLY <1>0, <1>1, <1>2, FootOk
<1>4. /\ Headers(g) /\ DOMAIN g = DOMAIN c
      /\ g[p + m] = [size |-> c[p + m].size, pinuse |-> c[p + m].pinuse, prev |-> m]
      /\ \A q \in DOMAIN c \ {p + m} : g[q] = c[q]
  BY ONLY <1>0, FootOk
<1>5. d[e].size = g[e].size /\ (d[e].pinuse <=> g[e].pinuse) /\ d[e].prev = g[e].prev
  BY <1>0, <1>1, <1>2, <1>3, <1>4
<1>6. \A x \in DOMAIN d \ {e} : d[x] = g[x]
  BY <1>0, <1>1, <1>2, <1>3, <1>4
<1>7. \A x \in DOMAIN d : d[x].size = g[x].size /\ (d[x].pinuse <=> g[x].pinuse) /\ d[x].prev = g[x].prev
  BY <1>5, <1>6
<1>8. Headers(d) /\ Headers(g) /\ DOMAIN d = DOMAIN g
  BY <1>1, <1>2, <1>3, <1>4
<1>9. d = g
  BY ONLY <1>7, <1>8, SameHeaders
<1> QED BY <1>0, <1>9

(* What free writes when it merges forward, with and without the detour     *)
(* over a chunk in use.                                                     *)
LEMMA MergeHead ==
  ASSUME NEW c, Headers(c), NEW p, NEW q \in DOMAIN c, NEW e \in DOMAIN c, p # q, p # e, q # e, NEW m, NEW n \in Nat,
         ~ c[e].pinuse, p + n = e
  PROVE  Foot(UsedHead(ClearBit(UsedHead(Without(SetBit(UsedHead(c, p, m), e), q), p, n), e), p, n), p, n)
         = Foot(UsedHead(Without(c, q), p, n), p, n)
<1>1. SetBit(UsedHead(c, p, m), e) = UsedHead(SetBit(c, e), p, m)
  BY HeadSet
<1>2. Without(UsedHead(SetBit(c, e), p, m), q) = UsedHead(Without(SetBit(c, e), q), p, m)
  BY HeadWithout
<1>3. UsedHead(UsedHead(Without(SetBit(c, e), q), p, m), p, n) = UsedHead(Without(SetBit(c, e), q), p, n)
  BY HeadTwice
<1>4. ClearBit(UsedHead(Without(SetBit(c, e), q), p, n), e) = UsedHead(Without(ClearBit(SetBit(c, e), e), q), p, n)
  BY HeadClear, WithoutClear
<1>5. UsedHead(UsedHead(Without(ClearBit(SetBit(c, e), e), q), p, n), p, n)
      = UsedHead(Without(ClearBit(SetBit(c, e), e), q), p, n)
  BY HeadTwice
<1>6. Foot(UsedHead(Without(ClearBit(SetBit(c, e), e), q), p, n), p, n)
      = UsedHead(Without(FootAt(ClearBit(SetBit(c, e), e), e, n), q), p, n)
  BY FootIsAt, HeadFoot, WithoutFoot
<1>7. Foot(UsedHead(Without(c, q), p, n), p, n) = UsedHead(Without(FootAt(c, e, n), q), p, n)
  BY FootIsAt, HeadFoot, WithoutFoot
<1>8. FootAt(ClearBit(SetBit(c, e), e), e, n) = FootAt(c, e, n)
  <2>1. Foot(ClearBit(SetBit(c, e), e), p, n) = Foot(c, p, n)
    BY Refoot
  <2> QED BY <2>1, FootIsAt
<1> QED BY <1>1, <1>2, <1>3, <1>4, <1>5, <1>6, <1>7, <1>8

SetUsed(a, p, n) == SetHead(a, p, n, TRUE)

(* set_head with PREV_INUSE, on the arena.                                  *)
LEMMA SetUsedIs ==
  ASSUME NEW a, IsArena(a), NEW p, NEW n, NEW d, d = SetUsed(a, p, n)
  PROVE  Differs(a, d, {"chunk"}) /\ d.chunk = UsedHead(a.chunk, p, n)
BY DEF IsArena, ArenaFields, Differs, SetUsed, SetHead, UsedHead

(* set_foot, on the arena.                                                  *)
LEMMA SetFootIs ==
  ASSUME NEW a, IsArena(a), NEW p, NEW n, NEW d, d = SetFoot(a, p, n)
  PROVE  Differs(a, d, {"chunk"}) /\ d.chunk = Foot(a.chunk, p, n)
BY DEF IsArena, ArenaFields, Differs, SetFoot, Foot

(* set_inuse_bit_at_offset, on the arena.                                   *)
LEMMA SetInUseIs ==
  ASSUME NEW a, IsArena(a), NEW q, NEW d, d = SetInUseBit(a, q)
  PROVE  Differs(a, d, {"chunk"}) /\ d.chunk = SetBit(a.chunk, q)
BY DEF IsArena, ArenaFields, Differs, SetInUseBit, SetBit

(* clear_inuse_bit_at_offset, on the arena.                                 *)
LEMMA ClearInUseIs ==
  ASSUME NEW a, IsArena(a), NEW q, NEW d, d = ClearInUseBit(a, q)
  PROVE  Differs(a, d, {"chunk"}) /\ d.chunk = ClearBit(a.chunk, q)
BY DEF IsArena, ArenaFields, Differs, ClearInUseBit, ClearBit

(* A header dropped, on the arena.                                          *)
LEMMA DropHeadIs ==
  ASSUME NEW a, IsArena(a), NEW q, NEW d, d = DropHead(a, q)
  PROVE  Differs(a, d, {"chunk"}) /\ d.chunk = Without(a.chunk, q)
BY DEF IsArena, ArenaFields, Differs, DropHead, Without

(* unlink_chunk, on the arena.                                              *)
LEMMA UnlinkIs ==
  ASSUME NEW a, IsArena(a), NEW p, NEW d, d = Unlink(a, p)
  PROVE  Differs(a, d, {"bins"}) /\ d.bins = [i \in DOMAIN a.bins |-> RemoveFirst(a.bins[i], p)]
BY DEF IsArena, ArenaFields, Differs, Unlink

(* A chunk put at the front of a list, on the arena.                        *)
LEMMA PushFrontIs ==
  ASSUME NEW a, IsArena(a), NEW i, NEW p, NEW d, d = PushFront(a, i, p)
  PROVE  Differs(a, d, {"bins"}) /\ d.bins = [a.bins EXCEPT ![i] = <<p>> \o @]
BY DEF IsArena, ArenaFields, Differs, PushFront

(* mark_bin changes the binmap only.                                        *)
LEMMA MarkBinIs ==
  ASSUME NEW a, IsArena(a), NEW i, NEW d, d = MarkBin(a, i)
  PROVE  Differs(a, d, {"binmap"})
BY DEF IsArena, ArenaFields, Differs, MarkBin

(* Two changes, one after the other.                                        *)
LEMMA DiffersTwice ==
  ASSUME NEW a, IsArena(a), NEW d, NEW e, NEW S, NEW T, Differs(a, d, S), Differs(d, e, T)
  PROVE  Differs(a, e, S \cup T) /\ IsArena(d) /\ IsArena(e)
BY DEF IsArena, Differs

(* A change of other fields keeps headers, lists and top.                   *)
LEMMA KeptFields ==
  ASSUME NEW a, IsArena(a), NEW d, NEW S, Differs(a, d, S)
  PROVE  /\ IsArena(d)
         /\ "chunk" \notin S => d.chunk = a.chunk
         /\ "bins" \notin S => d.bins = a.bins
         /\ "top" \notin S => d.top = a.top
BY DEF IsArena, ArenaFields, Differs

(* What Lists says, by place.                                               *)
LEMMA ListedOnce ==
  ASSUME NEW F, NEW bins, Lists(bins, F)
  PROVE  /\ \A i \in 1 .. NBins : bins[i] \in Seq(F) /\ Len(bins[i]) \in Nat
         /\ \A i \in 1 .. NBins : \A k \in 1 .. Len(bins[i]) : bins[i][k] \in F
         /\ \A i, j \in 1 .. NBins : \A k \in 1 .. Len(bins[i]) : \A l \in 1 .. Len(bins[j]) :
              bins[i][k] = bins[j][l] => i = j /\ k = l
<1>1. \A i \in 1 .. NBins : bins[i] \in Seq(F)
  BY DEF Lists
<1>2. \A i \in 1 .. NBins : Len(bins[i]) \in Nat /\ \A k \in 1 .. Len(bins[i]) : bins[i][k] \in F
  BY <1>1
<1> QED BY <1>1, <1>2 DEF Lists

(* Lists stay sorted if the sizes of their chunks stay.                     *)
LEMMA SortedSame ==
  ASSUME NEW F, NEW bins, Lists(bins, F), NEW c, Sorted(c, bins), NEW d, \A q \in F : d[q].size = c[q].size
  PROVE  Sorted(d, bins)
<1> SUFFICES ASSUME NEW i \in 2 .. NBins, NEW k \in 1 .. Len(bins[i]) PROVE InBin(d, bins[i][k], i)
  BY DEF Sorted
<1>1. i \in 1 .. NBins
  OBVIOUS
<1>2. bins[i][k] \in F
  BY <1>1, ListedOnce
<1> QED BY <1>2 DEF Sorted, InBin

(* unlink_chunk takes the chunk off its list and no other.                  *)
LEMMA UnlinkLists ==
  ASSUME NEW F, NEW bins, Lists(bins, F), NEW c, Sorted(c, bins), NEW p \in F,
         NEW new, new = [i \in DOMAIN bins |-> RemoveFirst(bins[i], p)]
  PROVE  Lists(new, F \ {p}) /\ Sorted(c, new)
<1>0. DOMAIN bins = 1 .. NBins
  BY DEF Lists
<1>1. PICK i \in 1 .. NBins : \E k \in 1 .. Len(bins[i]) : bins[i][k] = p
  BY DEF Lists
<1>2. PICK m \in 1 .. Len(bins[i]) : bins[i][m] = p
  BY <1>1
<1>3. bins[i] \in Seq(F) /\ \A k \in 1 .. Len(bins[i]) : bins[i][k] = bins[i][m] => k = m
  BY ListedOnce
<1>4. RemoveFirst(bins[i], p) \in Seq(F) /\ Removed(bins[i], m, RemoveFirst(bins[i], p))
  <2>1. p = bins[i][m] /\ m \in 1 .. Len(bins[i])
    BY <1>2
  <2> QED BY ONLY <1>3, <2>1, RemoveFirstIs
<1>5. ASSUME NEW j \in 1 .. NBins, j # i PROVE RemoveFirst(bins[j], p) = bins[j]
  <2>1. \A k \in 1 .. Len(bins[j]) : bins[j][k] # p
    BY <1>2, <1>5, ListedOnce
  <2> QED BY ONLY <2>1, RemoveNothing
<1>6. /\ DOMAIN new = 1 .. NBins /\ (\A j \in 1 .. NBins : j # i => new[j] = bins[j])
      /\ new[i] = RemoveFirst(bins[i], p) /\ new = [j \in 1 .. NBins |-> new[j]]
  BY <1>0, <1>5
<1>7. new[i] \in Seq(F) /\ Removed(bins[i], m, new[i])
  BY <1>4, <1>6
<1>8. Lists(new, F \ {bins[i][m]}) /\ Sorted(c, new)
  BY ONLY <1>6, <1>7, RemovedIs, Lists(bins, F), Sorted(c, bins), i \in 1 .. NBins, m \in 1 .. Len(bins[i])
<1> QED BY <1>2, <1>8

(* last (bin), taken off its list by _int_malloc.                           *)
LEMMA FrontLists ==
  ASSUME NEW F, NEW bins, Lists(bins, F), NEW c, Sorted(c, bins), NEW i \in 1 .. NBins, bins[i] # <<>>,
         NEW new, new = [bins EXCEPT ![i] = Front(@)], NEW v, v = Last(bins[i])
  PROVE  v \in F /\ Lists(new, F \ {v}) /\ Sorted(c, new) /\ (i > 1 => InBin(c, v, i))
<1>0. DOMAIN bins = 1 .. NBins /\ bins[i] \in Seq(F)
  BY DEF Lists
<1> DEFINE m == Len(bins[i])
           s == bins[i]
<1>1. Front(s) \in Seq(F) /\ Removed(s, Len(s), Front(s)) /\ Last(s) = s[Len(s)] /\ Len(s) \in 1 .. Len(s)
  <2>1. s \in Seq(F) /\ s # <<>>
    BY <1>0
  <2> HIDE DEF s
  <2> QED BY ONLY <2>1, FrontIs
<1>2. /\ DOMAIN new = 1 .. NBins /\ (\A j \in 1 .. NBins : j # i => new[j] = bins[j])
      /\ new[i] = Front(bins[i]) /\ new = [j \in 1 .. NBins |-> new[j]]
  BY <1>0
<1>3. /\ m \in 1 .. Len(bins[i]) /\ new[i] \in Seq(F) /\ Removed(bins[i], m, new[i]) /\ v = bins[i][m]
  BY <1>1, <1>2
<1> HIDE DEF m
<1>4. Lists(new, F \ {bins[i][m]}) /\ Sorted(c, new)
  BY ONLY <1>2, <1>3, RemovedIs, Lists(bins, F), Sorted(c, bins), i \in 1 .. NBins
<1>5. v \in F
  BY <1>3, ListedOnce
<1>6. i > 1 => InBin(c, v, i)
  BY <1>3 DEF Sorted
<1> QED BY <1>3, <1>4, <1>5, <1>6

(* A free chunk put at the front of the unsorted list or of its bin.        *)
LEMMA PushLists ==
  ASSUME NEW F, NEW bins, Lists(bins, F), NEW c, Sorted(c, bins), NEW p, p \notin F,
         NEW i \in 1 .. NBins, i = 1 \/ InBin(c, p, i),
         NEW new, new = [bins EXCEPT ![i] = <<p>> \o @]
  PROVE  Lists(new, F \cup {p}) /\ Sorted(c, new)
<1>0. DOMAIN bins = 1 .. NBins /\ bins[i] \in Seq(F)
  BY DEF Lists
<1> DEFINE m == 1
           T == F \cup {p}
<1>1. <<p>> \o bins[i] \in Seq(T) /\ Inserted(bins[i], m, p, <<p>> \o bins[i])
  BY <1>0, PushIs
<1>2. /\ DOMAIN new = 1 .. NBins /\ (\A j \in 1 .. NBins : j # i => new[j] = bins[j])
      /\ new[i] = <<p>> \o bins[i] /\ new = [j \in 1 .. NBins |-> new[j]]
  BY <1>0
<1>3. m \in 1 .. Len(bins[i]) + 1 /\ new[i] \in Seq(T) /\ Inserted(bins[i], m, p, new[i])
  BY <1>0, <1>1, <1>2
<1>4. p \notin F /\ (i = 1 \/ InBin(c, p, i))
  OBVIOUS
<1> HIDE DEF m, T
<1> QED BY ONLY <1>2, <1>3, <1>4, InsertedIs, Lists(bins, F), Sorted(c, bins), i \in 1 .. NBins

(* A free chunk put where it belongs in its bin.                            *)
LEMMA InsertLists ==
  ASSUME NEW F, NEW bins, Lists(bins, F), NEW c, Sorted(c, bins), NEW p, p \notin F,
         NEW i \in 1 .. NBins, i = 1 \/ InBin(c, p, i), NEW m \in 1 .. Len(bins[i]) + 1,
         NEW new, new = [bins EXCEPT ![i] = InsertAt(@, m, p)]
  PROVE  Lists(new, F \cup {p}) /\ Sorted(c, new)
<1>0. DOMAIN bins = 1 .. NBins /\ bins[i] \in Seq(F)
  BY DEF Lists
<1> DEFINE T == F \cup {p}
<1>1. InsertAt(bins[i], m, p) \in Seq(T) /\ Inserted(bins[i], m, p, InsertAt(bins[i], m, p))
  <2>1. m \in 1 .. Len(bins[i]) + 1
    OBVIOUS
  <2> QED BY <1>0, <2>1, InsertAtIs
<1>2. /\ DOMAIN new = 1 .. NBins /\ (\A j \in 1 .. NBins : j # i => new[j] = bins[j])
      /\ new[i] = InsertAt(bins[i], m, p) /\ new = [j \in 1 .. NBins |-> new[j]]
  BY <1>0
<1>3. m \in 1 .. Len(bins[i]) + 1 /\ new[i] \in Seq(T) /\ Inserted(bins[i], m, p, new[i])
  BY <1>1, <1>2
<1>4. p \notin F /\ (i = 1 \/ InBin(c, p, i))
  OBVIOUS
<1> HIDE DEF T
<1> QED BY ONLY <1>2, <1>3, <1>4, InsertedIs, Lists(bins, F), Sorted(c, bins), i \in 1 .. NBins

Memory(G) == Closed(G) /\ \A b, e \in Nat : <<b, e>> \in G /\ e - b >= 2 => e - b \in Sizes

Sound(a, F, X, G) ==
  IsArena(a) /\ Tiled(a.chunk, a.top, F, X, G) /\ Lists(a.bins, F) /\ Sorted(a.chunk, a.bins)

(* Where a freed chunk is put.                                              *)
Filed(a, p, size) ==
  IF InSmallbinRange(size) THEN MarkBin(PushFront(a, BinIndex[size], p), BinIndex[size])
  ELSE PushFront(a, Unsorted, p)

(* A freed chunk is on one list, the one _int_free_create_chunk chose.      *)
LEMMA FiledIs ==
  ASSUME NEW a, IsArena(a), NEW F, Lists(a.bins, F), NEW c, Sorted(c, a.bins), NEW p, p \notin F,
         NEW size \in Sizes, c[p].size = size, NEW d, d = Filed(a, p, size)
  PROVE  Differs(a, d, {"bins", "binmap"}) /\ IsArena(d) /\ Lists(d.bins, F \cup {p}) /\ Sorted(c, d.bins)
<1>1. BinIndex[size] \in 2 .. NBins /\ BinIndex[size] \in 1 .. NBins /\ 1 \in 1 .. NBins /\ InBin(c, p, BinIndex[size])
  BY ChunksAssumption DEF InBin
<1>2. CASE InSmallbinRange(size)
  <2> DEFINE i == BinIndex[size]
             e == PushFront(a, i, p)
  <2>1. d = MarkBin(e, i) /\ e = PushFront(a, i, p)
    BY <1>2 DEF Filed
  <2>2. i \in 1 .. NBins /\ (i = 1 \/ InBin(c, p, i))
    BY <1>1
  <2> HIDE DEF e, i
  <2>3. Differs(a, e, {"bins"}) /\ e.bins = [a.bins EXCEPT ![i] = <<p>> \o @]
    BY ONLY <2>1, IsArena(a), PushFrontIs
  <2>4. IsArena(e)
    BY ONLY <2>3, IsArena(a), KeptFields
  <2>5. Differs(e, d, {"binmap"})
    BY ONLY <2>1, <2>4, MarkBinIs
  <2>6. Differs(a, d, {"bins"} \cup {"binmap"}) /\ IsArena(d)
    BY ONLY <2>3, <2>5, IsArena(a), DiffersTwice
  <2>7. d.bins = e.bins
    BY ONLY <2>4, <2>5, KeptFields
  <2>8. Lists(e.bins, F \cup {p}) /\ Sorted(c, e.bins)
    BY ONLY <2>2, <2>3, Lists(a.bins, F), Sorted(c, a.bins), p \notin F, PushLists
  <2>9. {"bins"} \cup {"binmap"} = {"bins", "binmap"}
    OBVIOUS
  <2> QED BY <2>6, <2>7, <2>8, <2>9
<1>3. CASE ~ InSmallbinRange(size)
  <2> DEFINE i == 1
  <2>1. d = PushFront(a, i, p)
    BY <1>3 DEF Filed, Unsorted
  <2>2. i \in 1 .. NBins /\ (i = 1 \/ InBin(c, p, i))
    BY <1>1
  <2> HIDE DEF i
  <2>3. Differs(a, d, {"bins"}) /\ d.bins = [a.bins EXCEPT ![i] = <<p>> \o @]
    BY ONLY <2>1, IsArena(a), PushFrontIs
  <2>4. Lists(d.bins, F \cup {p}) /\ Sorted(c, d.bins)
    <3> DEFINE old == a.bins
               new == d.bins
    <3>1. Lists(old, F) /\ Sorted(c, old) /\ p \notin F /\ new = [old EXCEPT ![i] = <<p>> \o @]
      BY <2>3
    <3> HIDE DEF old, new
    <3>2. Lists(new, F \cup {p}) /\ Sorted(c, new)
      BY ONLY <2>2, <3>1, PushLists
    <3> QED BY <3>2 DEF new
  <2>5. Differs(a, d, {"bins", "binmap"}) /\ IsArena(d)
    BY <2>3, KeptFields DEF Differs
  <2> QED BY <2>4, <2>5
<1> QED BY <1>2, <1>3

(* What an operation may do to the rest of an arena whose memory was c0.    *)
FreeFields == {"chunk", "bins", "binmap", "top"}
Leaves(a, c0, d, X) ==
  /\ Differs(a, d, FreeFields)
  /\ \A q \in X : d.chunk[q].size = c0[q].size
  /\ d.top <= a.top /\ End(d.chunk, d.top) = End(c0, a.top)
  /\ (\A q \in DOMAIN c0 : q <= a.top) => \A q \in DOMAIN d.chunk : q <= d.top

(* _int_free_create_chunk, by its cases.                                    *)
LEMMA CreateTop ==
  ASSUME NEW a, IsArena(a), NEW p, NEW sz, p + sz = a.top, NEW d, d = CreateChunk(a, p, sz).av, p # a.top
  PROVE  /\ Differs(a, d, {"chunk", "top"}) /\ d.top = p
         /\ d.chunk = UsedHead(Without(a.chunk, a.top), p, sz + a.chunk[a.top].size)
<1> DEFINE n  == sz + a.chunk[a.top].size
           a1 == DropHead(a, a.top)
           a2 == SetUsed(a1, p, n)
<1>1. d = [a2 EXCEPT !.top = p]
  BY DEF CreateChunk, SizeOf, SetUsed
<1>2. a1 = DropHead(a, a.top) /\ a2 = SetUsed(a1, p, n)
  OBVIOUS
<1> HIDE DEF a1, a2, n
<1>3. Differs(a, a1, {"chunk"}) /\ a1.chunk = Without(a.chunk, a.top) /\ IsArena(a1)
  BY ONLY <1>2, IsArena(a), DropHeadIs, KeptFields
<1>4. Differs(a1, a2, {"chunk"}) /\ a2.chunk = UsedHead(a1.chunk, p, n) /\ IsArena(a2)
  BY ONLY <1>2, <1>3, SetUsedIs, KeptFields
<1>5. Differs(a2, d, {"top"}) /\ d.top = p /\ d.chunk = a2.chunk
  BY <1>1, <1>4 DEF IsArena, ArenaFields, Differs
<1>6. Differs(a, d, {"chunk", "top"})
  BY <1>3, <1>4, <1>5 DEF Differs
<1> QED BY <1>3, <1>4, <1>5, <1>6 DEF n

(* The next chunk is free: it is unlinked and joined.                       *)
LEMMA CreateMerge ==
  ASSUME NEW a, IsArena(a), NEW p, NEW sz, p + sz # a.top, Borders(a, p + sz), NEW d, d = CreateChunk(a, p, sz).av,
         NEW n, n = sz + a.chunk[p + sz].size, NEW q, q = p + sz
  PROVE  \E a1, a2 :
           /\ Differs(a, a1, {"chunk", "bins"}) /\ IsArena(a1)
           /\ a1.bins = [i \in DOMAIN a.bins |-> RemoveFirst(a.bins[i], q)]
           /\ a2 = Filed(a1, p, n)
           /\ (Differs(a1, a2, {"bins", "binmap"}) =>
                 /\ Differs(a, d, {"chunk", "bins", "binmap"}) /\ d.bins = a2.bins
                 /\ d.chunk = Foot(UsedHead(Without(a.chunk, q), p, n), p, n))
<1> DEFINE a0 == Unlink(a, q)
           a1 == DropHead(a0, q)
           a2 == Filed(a1, p, n)
           a3 == SetUsed(a2, p, n)
<1>1. d = SetFoot(a3, p, n)
  BY DEF CreateChunk, SizeOf, SetUsed, Filed
<1>2. a0 = Unlink(a, q) /\ a1 = DropHead(a0, q) /\ a2 = Filed(a1, p, n) /\ a3 = SetUsed(a2, p, n)
  OBVIOUS
<1> HIDE DEF a0, a1, a2, a3
<1>3. Differs(a, a0, {"bins"}) /\ a0.bins = [i \in DOMAIN a.bins |-> RemoveFirst(a.bins[i], q)] /\ IsArena(a0)
  BY ONLY <1>2, IsArena(a), UnlinkIs, KeptFields
<1>4. Differs(a0, a1, {"chunk"}) /\ a1.chunk = Without(a0.chunk, q) /\ IsArena(a1)
  BY ONLY <1>2, <1>3, DropHeadIs, KeptFields
<1>5. a0.chunk = a.chunk /\ a1.bins = a0.bins /\ Differs(a, a1, {"chunk", "bins"})
  BY <1>3, <1>4 DEF IsArena, ArenaFields, Differs
<1>6. ASSUME Differs(a1, a2, {"bins", "binmap"})
      PROVE  /\ Differs(a, d, {"chunk", "bins", "binmap"}) /\ d.bins = a2.bins
             /\ d.chunk = Foot(UsedHead(Without(a.chunk, q), p, n), p, n)
  <2>1. IsArena(a2) /\ a2.chunk = a1.chunk
    BY <1>4, <1>6 DEF IsArena, ArenaFields, Differs
  <2>2. Differs(a2, a3, {"chunk"}) /\ a3.chunk = UsedHead(a2.chunk, p, n) /\ IsArena(a3)
    BY ONLY <1>2, <2>1, SetUsedIs, KeptFields
  <2>3. Differs(a3, d, {"chunk"}) /\ d.chunk = Foot(a3.chunk, p, n) /\ IsArena(d)
    BY ONLY <1>1, <2>2, SetFootIs, KeptFields
  <2>4. Differs(a, d, {"chunk", "bins", "binmap"}) /\ d.bins = a2.bins
    BY <1>5, <1>6, <2>1, <2>2, <2>3 DEF IsArena, ArenaFields, Differs
  <2> QED BY <1>4, <1>5, <2>1, <2>2, <2>3, <2>4
<1> QED BY <1>2, <1>3, <1>4, <1>5, <1>6

(* The next chunk is in use.                                                *)
LEMMA CreateAlone ==
  ASSUME NEW a, IsArena(a), NEW p, NEW sz, p + sz # a.top, ~ Borders(a, p + sz), NEW d, d = CreateChunk(a, p, sz).av,
         NEW q, q = p + sz
  PROVE  \E a1, a2 :
           /\ Differs(a, a1, {"chunk"}) /\ IsArena(a1)
           /\ a1.bins = a.bins
           /\ a2 = Filed(a1, p, sz)
           /\ (Differs(a1, a2, {"bins", "binmap"}) =>
                 /\ Differs(a, d, {"chunk", "bins", "binmap"}) /\ d.bins = a2.bins
                 /\ d.chunk = Foot(UsedHead(ClearBit(a.chunk, q), p, sz), p, sz))
<1> DEFINE a1 == ClearInUseBit(a, q)
           a2 == Filed(a1, p, sz)
           a3 == SetUsed(a2, p, sz)
<1>1. d = SetFoot(a3, p, sz)
  BY DEF CreateChunk, SizeOf, SetUsed, Filed
<1>2. a1 = ClearInUseBit(a, q) /\ a2 = Filed(a1, p, sz) /\ a3 = SetUsed(a2, p, sz)
  OBVIOUS
<1> HIDE DEF a1, a2, a3
<1>3. Differs(a, a1, {"chunk"}) /\ a1.chunk = ClearBit(a.chunk, q) /\ IsArena(a1) /\ a1.bins = a.bins
  BY ONLY <1>2, IsArena(a), ClearInUseIs, KeptFields
<1>6. ASSUME Differs(a1, a2, {"bins", "binmap"})
      PROVE  /\ Differs(a, d, {"chunk", "bins", "binmap"}) /\ d.bins = a2.bins
             /\ d.chunk = Foot(UsedHead(ClearBit(a.chunk, q), p, sz), p, sz)
  <2>1. IsArena(a2) /\ a2.chunk = a1.chunk
    BY <1>3, <1>6 DEF IsArena, ArenaFields, Differs
  <2>2. Differs(a2, a3, {"chunk"}) /\ a3.chunk = UsedHead(a2.chunk, p, sz) /\ IsArena(a3)
    BY ONLY <1>2, <2>1, SetUsedIs, KeptFields
  <2>3. Differs(a3, d, {"chunk"}) /\ d.chunk = Foot(a3.chunk, p, sz) /\ IsArena(d)
    BY ONLY <1>1, <2>2, SetFootIs, KeptFields
  <2>4. Differs(a, d, {"chunk", "bins", "binmap"}) /\ d.bins = a2.bins
    BY <1>3, <1>6, <2>1, <2>2, <2>3 DEF IsArena, ArenaFields, Differs
  <2> QED BY <1>3, <2>1, <2>2, <2>3, <2>4
<1> QED BY <1>2, <1>3, <1>6

(* What the bits around p say.                                              *)
LEMMA AfterUsed ==
  ASSUME NEW c, NEW top, NEW F, NEW X, NEW G, Tiled(c, top, F, X, G), NEW p \in X, NEW q, q = End(c, p), q # top
  PROVE  /\ q \in DOMAIN c /\ End(c, q) \in DOMAIN c /\ c[q].size > 0 /\ c[q].pinuse
         /\ (q \in F <=> ~ c[End(c, q)].pinuse)
<1>1. q \in DOMAIN c /\ c[q].pinuse
  BY DEF Tiled, UsedTags
<1>2. c[q].size > 0 /\ End(c, q) \in DOMAIN c
  BY DEF Tiled, Follows
<1>3. q \in F => ~ c[End(c, q)].pinuse
  BY DEF Tiled, FreeTags
<1>4. ~ c[End(c, q)].pinuse => q \in F
  BY <1>1, <1>2, FreeBefore
<1> QED BY <1>1, <1>2, <1>3, <1>4

(* A chunk of two units or more has a size that can be binned.              *)
LEMMA SizeInSizes ==
  ASSUME NEW c, NEW G, Headers(c), Within(c, G), Memory(G), NEW p \in DOMAIN c, c[p].size >= 2
  PROVE  c[p].size \in Sizes
<1>1. p \in Nat /\ c[p].size \in Nat /\ Span(c, p) \in G
  BY Fields DEF Within
<1>2. Span(c, p) = <<p, p + c[p].size>> /\ p + c[p].size \in Nat /\ (p + c[p].size) - p = c[p].size
  BY <1>1 DEF Span
<1> QED BY <1>1, <1>2 DEF Memory

(* _int_free_create_chunk of a chunk in use: the arena stays sound.         *)
LEMMA CreateChunkIs ==
  ASSUME NEW a, IsArena(a), Headers(a.chunk), NEW p, NEW sz \in Nat, NEW c0, c0 = UsedHead(a.chunk, p, sz),
         NEW F, NEW X, NEW G, Tiled(c0, a.top, F, X, G), Memory(G), p \in X,
         Lists(a.bins, F), Sorted(c0, a.bins), NEW d, d = CreateChunk(a, p, sz).av
  PROVE  (\E H : Sound(d, H, X \ {p}, G)) /\ Leaves(a, c0, d, X \ {p})
<1> DEFINE c   == a.chunk
           top == a.top
           D   == DOMAIN c0
           q   == p + sz
<1>1. Headers(c0) /\ \A u \in D : /\ u \in Nat /\ u > 0 /\ c0[u].size \in Nat /\ c0[u].prev \in Nat
                            /\ c0[u].pinuse \in BOOLEAN /\ End(c0, u) \in Nat /\ End(c0, u) = u + c0[u].size
  BY Fields DEF Tiled
<1>2. /\ p \in D /\ top \in D /\ p # top /\ c0[p].size = sz /\ c0[p].pinuse /\ q = End(c0, p)
      /\ (\A u : u \in D <=> u \in DOMAIN c \/ u = p) /\ (\A u \in D \ {p} : c0[u] = c[u])
  <2>1. p \in D /\ top \in D /\ p # top
    BY DEF Tiled, Parts
  <2>2. c0[p].size = sz /\ c0[p].pinuse /\ (\A u : u \in D <=> u \in DOMAIN c \/ u = p) /\ (\A u \in D \ {p} : c0[u] = c[u])
    BY DEF UsedHead
  <2> QED BY <2>1, <2>2 DEF End
<1>3. q \in D /\ q \in Nat /\ q > p /\ sz >= 2
  BY <1>1, <1>2 DEF Tiled, UsedTags
<1>4. \A u \in X \ {p} : u # top /\ u \in D
  BY DEF Tiled, Parts
<1>5. \A u \in D : u > p => u >= q
  BY <1>1, <1>2, NoneInside DEF Tiled
<1>6. CASE q = top
  <2>1. /\ Differs(a, d, {"chunk", "top"}) /\ d.top = p
        /\ d.chunk = UsedHead(Without(a.chunk, a.top), p, sz + a.chunk[a.top].size)
    BY <1>2, <1>6, CreateTop
  <2>2. d.chunk = ToTop(c0, p, top)
    <3> DEFINE n == sz + a.chunk[a.top].size
    <3>1. n = c0[p].size + c0[top].size
      BY <1>2
    <3>2. UsedHead(Without(UsedHead(c, p, sz), top), p, n) = UsedHead(Without(c, top), p, n)
      BY <1>2, ToTopHead
    <3> QED BY <2>1, <3>1, <3>2 DEF ToTop
  <2> DEFINE e == ToTop(c0, p, top)
  <2>3. End(c0, p) = top /\ Closed(G)
    BY <1>2, <1>6 DEF Memory
  <2>4. /\ Tiled(e, p, F, X \ {p}, G)
        /\ \A u : u \in DOMAIN e <=> u \in DOMAIN c0 /\ u # top
        /\ \A u \in DOMAIN c0 \ {p, top} : e[u].size = c0[u].size
        /\ e[p].size = c0[p].size + c0[top].size
    <3>1. Tiled(c0, a.top, F, X, G) /\ p \in X /\ c0[p].pinuse /\ End(c0, p) = a.top /\ Closed(G)
      BY <1>2, <2>3
    <3> QED BY ONLY <3>1, ToTopIs
  <2>a. d.chunk = e
    BY <2>2
  <2> HIDE DEF e
  <2>5. IsArena(d) /\ d.bins = a.bins
    BY <2>1 DEF IsArena, ArenaFields, Differs
  <2>6. \A u \in F : e[u].size = c0[u].size
    BY <1>2, <2>4 DEF Tiled, Parts
  <2>7. Sorted(e, a.bins)
    BY <2>6, SortedSame
  <2>8. Sound(d, F, X \ {p}, G)
    <3>1. Tiled(d.chunk, d.top, F, X \ {p}, G) /\ Sorted(d.chunk, a.bins) /\ d.bins = a.bins
      BY <2>1, <2>2, <2>4, <2>5, <2>7 DEF e
    <3> QED BY <2>5, <3>1 DEF Sound
  <2>9. Leaves(a, c0, d, X \ {p})
    <3>1. Differs(a, d, FreeFields)
      BY <2>1 DEF Differs, FreeFields
    <3>2. \A u \in X \ {p} : d.chunk[u].size = c0[u].size
      BY <1>4, <2>a, <2>4
    <3>3. d.top <= a.top /\ End(d.chunk, d.top) = End(c0, a.top)
      <4>1. d.chunk[p].size = c0[p].size + c0[top].size /\ d.top = p
        BY <2>1, <2>4, <2>a
      <4>2. End(c0, top) = top + c0[top].size /\ c0[top].size \in Nat /\ c0[p].size \in Nat /\ top = p + c0[p].size
        BY <1>1, <1>2, <1>6
      <4> QED BY <1>1, <1>2, <1>3, <1>6, <4>1, <4>2 DEF End
    <3>4. ASSUME \A u \in DOMAIN c0 : u <= a.top PROVE \A u \in DOMAIN d.chunk : u <= d.top
      BY <1>1, <1>2, <1>5, <1>6, <2>1, <2>4, <2>a, <3>4
    <3> QED BY <3>1, <3>2, <3>3, <3>4 DEF Leaves
  <2> QED BY <2>8, <2>9
<1>7. CASE q # top /\ Borders(a, q)
  <2>1. /\ End(c0, q) \in D /\ c0[q].size > 0 /\ c0[q].pinuse /\ (q \in F <=> ~ c0[End(c0, q)].pinuse)
    BY <1>2, <1>7, AfterUsed
  <2> DEFINE e == End(c0, q)
             n == sz + a.chunk[q].size
  <2>2. e > q /\ e = p + n /\ n \in Nat /\ c0[q].size = c[q].size /\ n = sz + c0[q].size
    BY <1>1, <1>2, <1>3, <2>1
  <2>3. ~ c0[e].pinuse /\ q \in F
    <3>1. InUse(a, q) <=> c[q + c[q].size].pinuse
      BY DEF InUse, PrevInUse, NextOf, SizeOf
    <3>2. q + c[q].size = e /\ c[e] = c0[e]
      BY <1>1, <1>2, <1>3, <2>1, <2>2
    <3> QED BY <1>7, <2>1, <3>1, <3>2 DEF Borders
  <2>4. q \in DOMAIN c /\ e \in DOMAIN c /\ ~ c[e].pinuse
    BY <1>1, <1>2, <1>3, <2>1, <2>2, <2>3
  <2> HIDE DEF e
  <2>5. PICK a1, a2 :
           /\ Differs(a, a1, {"chunk", "bins"}) /\ IsArena(a1)
           /\ a1.bins = [i \in DOMAIN a.bins |-> RemoveFirst(a.bins[i], q)]
           /\ a2 = Filed(a1, p, n)
           /\ (Differs(a1, a2, {"bins", "binmap"}) =>
                 /\ Differs(a, d, {"chunk", "bins", "binmap"}) /\ d.bins = a2.bins
                 /\ d.chunk = Foot(UsedHead(Without(a.chunk, q), p, n), p, n))
    BY <1>7, CreateMerge
  <2> HIDE DEF n, q
  <2>6. PICK m \in {Foot(UsedHead(Without(c, q), p, n), p, n)} : TRUE
    OBVIOUS
  <2> DEFINE u0 == Use(c0, q)
             u1 == Join(u0, p, q)
             u2 == FreeUsed(u1, p)
  <2>d. u0 = Use(c0, q)
    OBVIOUS
  <2> HIDE DEF u0
  <2>7. Tiled(u0, top, F \ {q}, X \cup {q}, G) /\ DOMAIN u0 = D /\ \A u \in D : u0[u].size = c0[u].size
    <3>1. Tiled(c0, a.top, F, X, G)
      OBVIOUS
    <3>2. q \in F
      BY <2>3
    <3> QED BY <3>1, <3>2, <2>d, UseIs
  <2>8. p \in X \cup {q} /\ q \in X \cup {q} /\ q = End(u0, p) /\ Closed(G) /\ q # p
    BY <1>1, <1>2, <1>3, <2>7 DEF End, Memory
  <2>9. /\ Tiled(u1, top, F \ {q}, (X \cup {q}) \ {q}, G)
        /\ \A u : u \in DOMAIN u1 <=> u \in DOMAIN u0 /\ u # q
        /\ \A u \in DOMAIN u0 \ {p, q} : u1[u].size = u0[u].size
        /\ u1[p].size = u0[p].size + u0[q].size
        /\ (u1[p].pinuse <=> u0[p].pinuse)
    BY ONLY <2>7, <2>8, JoinIs
  <2>10. (X \cup {q}) \ {q} = X /\ q \notin X
    BY <2>3 DEF Tiled, Parts
  <2> HIDE DEF u1
  <2>11. Tiled(u1, top, F \ {q}, X, G) /\ u1[p].size = n /\ End(u1, p) = e
    <3>1. Tiled(u1, top, F \ {q}, X, G)
      BY <2>9, <2>10
    <3>2. u1[p].size = n
      BY <1>2, <1>3, <2>2, <2>7, <2>9
    <3> QED BY <2>2, <3>1, <3>2 DEF End
  <2>12. u1[p].pinuse /\ End(u1, p) # top /\ End(u1, p) \notin F \ {q}
    <3>1. u0[p].pinuse
      BY <1>1, <1>2, <1>3, <2>2 DEF u0, Use, SetBit, e
    <3>2. e # top /\ e \notin F
      <4>1. End(c0, q) # top
        BY <2>3 DEF Tiled, FreeTags
      <4>2. e \in F => c0[e].pinuse
        BY DEF Tiled, FreeTags
      <4> QED BY <2>3, <4>1, <4>2 DEF e
    <3> QED BY <2>9, <2>11, <3>1, <3>2
  <2>13. /\ Tiled(u2, top, (F \ {q}) \cup {p}, X \ {p}, G)
         /\ DOMAIN u2 = DOMAIN u1 /\ \A u \in DOMAIN u1 : u2[u].size = u1[u].size
    BY ONLY <2>11, <2>12, p \in X, FreeUsedIs
  <2>14. u2 = Foot(UsedHead(Without(c, q), p, n), p, n)
    <3>1. u2 = Foot(UsedHead(ClearBit(u1, e), p, n), p, n)
      BY <2>11 DEF FreeUsed
    <3>2. u0 = SetBit(c0, e)
      BY DEF u0, Use, e
    <3>3. u1 = UsedHead(Without(u0, q), p, n)
      <4>1. u1 = NewHead(Without(u0, q), p, u0[p].size + u0[q].size, u0[p].pinuse)
        BY DEF u1, Join
      <4>2. u0[p].size + u0[q].size = n /\ u0[p].pinuse = TRUE
        <5>1. u0[p].pinuse = c0[p].pinuse /\ c0[p].pinuse = TRUE
          <6>1. c0[p].pinuse \in BOOLEAN /\ c0[p].pinuse /\ p # e
            BY <1>1, <1>2, <1>3, <2>2
          <6>2. u0[p] = c0[p]
            BY <1>2, <3>2, <6>1 DEF SetBit
          <6> QED BY <6>1, <6>2
        <5>2. u0[p].size = sz /\ u0[q].size = c0[q].size
          BY <1>2, <1>3, <2>7
        <5> QED BY <2>2, <5>1, <5>2
      <4> QED BY <4>1, <4>2 DEF NewHead, UsedHead
    <3>4. c0 = UsedHead(c, p, sz) /\ Headers(c) /\ p # q /\ p # e /\ q # e
      BY <1>1, <1>3, <2>2, <2>4, <2>8 DEF Headers
    <3> QED BY ONLY <2>2, <2>4, <3>1, <3>2, <3>3, <3>4, MergeHead
  <2> HIDE DEF u2
  <2>15. \A u \in DOMAIN u2 : u \in D /\ u # q /\ (u # p => u2[u].size = c0[u].size) /\ (u = p => u2[u].size = n)
    BY <2>7, <2>9, <2>11, <2>13
  <2>16. \A u \in F \ {q} : u2[u].size = c0[u].size
    <3>1. \A u \in F \ {q} : u \in DOMAIN u2
      BY <2>13 DEF Tiled, Parts
    <3>2. p \notin F
      BY DEF Tiled, Parts
    <3> QED BY <2>15, <3>1, <3>2
  <2>17. n \in Sizes /\ u2[p].size = n
    <3>1. p \in DOMAIN u2 /\ Headers(u2) /\ Within(u2, G)
      BY <2>13 DEF Tiled, Parts
    <3>2. u2[p].size = n /\ n >= 2
      BY <1>1, <1>3, <2>1, <2>2, <2>15, <3>1
    <3> QED BY <3>1, <3>2, SizeInSizes
  <2>18. Lists(a1.bins, F \ {q}) /\ Sorted(u2, a1.bins)
    <3>1. Lists(a1.bins, F \ {q}) /\ Sorted(c0, a1.bins)
      BY <2>3, <2>5, UnlinkLists
    <3> QED BY <2>16, <3>1, SortedSame
  <2>19. p \notin F \ {q}
    BY DEF Tiled, Parts
  <2>20. Differs(a1, a2, {"bins", "binmap"}) /\ Lists(a2.bins, (F \ {q}) \cup {p}) /\ Sorted(u2, a2.bins)
    BY ONLY <2>5, <2>17, <2>18, <2>19, FiledIs
  <2>21. Differs(a, d, {"chunk", "bins", "binmap"}) /\ d.bins = a2.bins /\ d.chunk = u2
    BY <2>5, <2>14, <2>20
  <2>22. IsArena(d) /\ d.top = top
    BY <2>21 DEF IsArena, ArenaFields, Differs
  <2>23. Sound(d, (F \ {q}) \cup {p}, X \ {p}, G)
    BY <2>13, <2>20, <2>21, <2>22 DEF Sound
  <2>24. Leaves(a, c0, d, X \ {p})
    <3>1. Differs(a, d, FreeFields)
      BY <2>21 DEF Differs, FreeFields
    <3>2. \A u \in X \ {p} : d.chunk[u].size = c0[u].size
      <4>1. \A u \in X \ {p} : u \in DOMAIN u2
        BY <2>13 DEF Tiled, Parts
      <4> QED BY <2>15, <2>21, <4>1
    <3>3. d.top <= a.top /\ End(d.chunk, d.top) = End(c0, a.top)
      <4>1. top \in DOMAIN u2
        BY <2>13 DEF Tiled, Parts
      <4>2. u2[top].size = c0[top].size
        BY <1>2, <2>15, <4>1
      <4> QED BY <1>1, <1>2, <2>21, <2>22, <4>2 DEF End
    <3>4. ASSUME \A u \in DOMAIN c0 : u <= a.top PROVE \A u \in DOMAIN d.chunk : u <= d.top
      BY <2>15, <2>21, <2>22, <3>4
    <3> QED BY <3>1, <3>2, <3>3, <3>4 DEF Leaves
  <2> QED BY <2>23, <2>24
<1>8. CASE q # top /\ ~ Borders(a, q)
  <2>1. /\ End(c0, q) \in D /\ c0[q].size > 0 /\ c0[q].pinuse /\ (q \in F <=> ~ c0[End(c0, q)].pinuse)
    BY <1>2, <1>8, AfterUsed
  <2>3. q \notin F
    <3>1. InUse(a, q) <=> c[q + c[q].size].pinuse
      BY DEF InUse, PrevInUse, NextOf, SizeOf
    <3>2. q + c[q].size = End(c0, q) /\ c[End(c0, q)] = c0[End(c0, q)]
      BY <1>1, <1>2, <1>3, <2>1
    <3> QED BY <1>8, <2>1, <3>1, <3>2 DEF Borders
  <2>5. PICK a1, a2 :
           /\ Differs(a, a1, {"chunk"}) /\ IsArena(a1)
           /\ a1.bins = a.bins
           /\ a2 = Filed(a1, p, sz)
           /\ (Differs(a1, a2, {"bins", "binmap"}) =>
                 /\ Differs(a, d, {"chunk", "bins", "binmap"}) /\ d.bins = a2.bins
                 /\ d.chunk = Foot(UsedHead(ClearBit(a.chunk, q), p, sz), p, sz))
    BY <1>8, CreateAlone
  <2> DEFINE u2 == FreeUsed(c0, p)
  <2>13. /\ Tiled(u2, top, F \cup {p}, X \ {p}, G)
         /\ DOMAIN u2 = D /\ \A u \in D : u2[u].size = c0[u].size
    BY <1>2, <1>8, <2>3, FreeUsedIs
  <2>14. u2 = Foot(UsedHead(ClearBit(c, q), p, sz), p, sz)
    <3>1. u2 = Foot(UsedHead(ClearBit(c0, q), p, sz), p, sz)
      BY <1>2 DEF FreeUsed
    <3>2. ClearBit(c0, q) = UsedHead(ClearBit(c, q), p, sz)
      BY <1>1, <1>2, <1>3, HeadClear
    <3> QED BY <3>1, <3>2, HeadTwice
  <2> HIDE DEF u2, q
  <2>17. sz \in Sizes /\ u2[p].size = sz
    <3>1. p \in DOMAIN u2 /\ Headers(u2) /\ Within(u2, G)
      BY <1>2, <2>13 DEF Tiled, Parts
    <3>2. u2[p].size = sz
      BY <1>2, <2>13
    <3> QED BY <1>3, <3>1, <3>2, SizeInSizes
  <2>18. Lists(a1.bins, F) /\ Sorted(u2, a1.bins)
    <3>1. \A u \in F : u2[u].size = c0[u].size
      BY <2>13 DEF Tiled, Parts
    <3> QED BY <2>5, <3>1, SortedSame
  <2>19. p \notin F
    BY DEF Tiled, Parts
  <2>20. Differs(a1, a2, {"bins", "binmap"}) /\ Lists(a2.bins, F \cup {p}) /\ Sorted(u2, a2.bins)
    BY ONLY <2>5, <2>17, <2>18, <2>19, FiledIs
  <2>21. Differs(a, d, {"chunk", "bins", "binmap"}) /\ d.bins = a2.bins /\ d.chunk = u2
    BY <2>5, <2>14, <2>20
  <2>22. IsArena(d) /\ d.top = top
    BY <2>21 DEF IsArena, ArenaFields, Differs
  <2>23. Sound(d, F \cup {p}, X \ {p}, G)
    BY <2>13, <2>20, <2>21, <2>22 DEF Sound
  <2>24. Leaves(a, c0, d, X \ {p})
    <3>1. Differs(a, d, FreeFields)
      BY <2>21 DEF Differs, FreeFields
    <3>2. \A u \in X \ {p} : d.chunk[u].size = c0[u].size
      BY <1>4, <2>13, <2>21
    <3>3. d.top <= a.top /\ End(d.chunk, d.top) = End(c0, a.top)
      BY <1>1, <1>2, <2>13, <2>21, <2>22 DEF End
    <3>4. ASSUME \A u \in DOMAIN c0 : u <= a.top PROVE \A u \in DOMAIN d.chunk : u <= d.top
      BY <2>13, <2>21, <2>22, <3>4
    <3> QED BY <3>1, <3>2, <3>3, <3>4 DEF Leaves
  <2> QED BY <2>23, <2>24
<1> QED BY <1>6, <1>7, <1>8

(* The header of a chunk in use behind one in use, written again.           *)
LEMMA SameHead ==
  ASSUME NEW c, Headers(c), NEW p \in DOMAIN c, c[p].pinuse
  PROVE  UsedHead(c, p, c[p].size) = c
<1> DEFINE n == c[p].size
           d == UsedHead(c, p, n)
<1>1. Headers(c) /\ p \in DOMAIN c /\ n \in Nat /\ d = UsedHead(c, p, n)
  BY Fields
<1>2. n = c[p].size
  OBVIOUS
<1> HIDE DEF n, d
<1>3. /\ Headers(d) /\ DOMAIN d = DOMAIN c
      /\ d[p].size = n /\ d[p].pinuse /\ d[p].prev = c[p].prev
      /\ \A q \in DOMAIN c \ {p} : d[q] = c[q]
  BY ONLY <1>1, UsedHeadOk
<1>4. DOMAIN c = DOMAIN d /\ Headers(c) /\ Headers(d)
      /\ \A x \in DOMAIN c : c[x].size = d[x].size /\ (c[x].pinuse <=> d[x].pinuse) /\ c[x].prev = d[x].prev
  BY <1>1, <1>2, <1>3
<1>5. c = d
  BY ONLY <1>4, SameHeaders
<1> QED BY <1>1, <1>2, <1>5

(* A bit set in a header that is dropped does not matter.                   *)
LEMMA WithoutSame ==
  ASSUME NEW c, NEW q
  PROVE  Without(SetBit(c, q), q) = Without(c, q)
BY DEF Without, SetBit

(* _int_free_merge_chunk.                                                   *)
THEOREM MergeChunkIs ==
  ASSUME NEW a, NEW F, NEW X, NEW G, Sound(a, F, X, G), Memory(G), NEW p \in X,
         NEW sz, sz = a.chunk[p].size, NEW d, d = MergeChunk(a, p, sz).av
  PROVE  (\E H : Sound(d, H, X \ {p}, G)) /\ Leaves(a, a.chunk, d, X \ {p})
<1> DEFINE c   == a.chunk
           top == a.top
           D   == DOMAIN c
<1>0. IsArena(a) /\ Tiled(c, top, F, X, G) /\ Lists(a.bins, F) /\ Sorted(c, a.bins) /\ Headers(c) /\ Closed(G)
  BY DEF Sound, Tiled, Memory
<1>1. \A u \in D : /\ u \in Nat /\ u > 0 /\ c[u].size \in Nat /\ c[u].prev \in Nat
                            /\ c[u].pinuse \in BOOLEAN /\ End(c, u) \in Nat /\ End(c, u) = u + c[u].size
  BY <1>0, Fields
<1>2. p \in D /\ top \in D /\ p # top /\ sz \in Nat /\ sz >= 2 /\ X \subseteq D /\ F \subseteq D
      /\ p \notin F /\ top \notin F /\ top \notin X
  BY <1>0, <1>1 DEF Tiled, Parts, UsedTags
<1>3. CASE c[p].pinuse
  <2>1. d = CreateChunk(a, p, sz).av
    BY <1>3 DEF MergeChunk, PrevInUse
  <2>2. c = UsedHead(c, p, sz)
    BY <1>0, <1>2, <1>3, SameHead
  <2> HIDE DEF c
  <2>3. c = a.chunk
    BY DEF c
  <2>4. (\E H : Sound(d, H, X \ {p}, G)) /\ Leaves(a, c, d, X \ {p})
    BY <1>0, <1>2, <2>1, <2>2, <2>3, CreateChunkIs
  <2> QED BY <2>3, <2>4
<1>4. CASE ~ c[p].pinuse
  <2> DEFINE v  == p - c[p].prev
             a0 == Unlink(a, v)
             a1 == DropHead(a0, p)
             n  == p + sz - v
             u0 == Use(c, v)
             u1 == Join(u0, v, p)
  <2>1. d = CreateChunk(a1, v, n).av
    BY <1>4 DEF MergeChunk, PrevInUse, PrevOf
  <2>2. v \in F /\ c[v].size = c[p].prev /\ c[v].pinuse
    BY <1>0, <1>2, <1>4 DEF Tiled, PrevTags, FreeTags
  <2>3. v \in D /\ v < p /\ End(c, v) = p /\ n = c[v].size + sz /\ n \in Nat /\ v # top /\ v \notin X /\ c[v].size >= 2
    BY <1>0, <1>1, <1>2, <2>2 DEF Tiled, FreeTags, Parts
  <2>4. a0 = Unlink(a, v) /\ a1 = DropHead(a0, p) /\ u0 = Use(c, v) /\ u1 = Join(u0, v, p)
    OBVIOUS
  <2> HIDE DEF a0, a1, u0, u1, n, v
  <2>5. Differs(a, a0, {"bins"}) /\ a0.bins = [i \in DOMAIN a.bins |-> RemoveFirst(a.bins[i], v)] /\ IsArena(a0)
    BY ONLY <1>0, <2>4, UnlinkIs, KeptFields
  <2>6. Differs(a0, a1, {"chunk"}) /\ a1.chunk = Without(a0.chunk, p) /\ IsArena(a1)
    BY ONLY <2>4, <2>5, DropHeadIs, KeptFields
  <2>7. a1.chunk = Without(c, p) /\ a1.bins = a0.bins /\ a1.top = top /\ Differs(a, a1, {"chunk", "bins"})
    BY <2>5, <2>6 DEF IsArena, ArenaFields, Differs
  <2>8. Tiled(u0, top, F \ {v}, X \cup {v}, G) /\ DOMAIN u0 = D /\ \A u \in D : u0[u].size = c[u].size
    <3>1. Tiled(c, top, F, X, G) /\ v \in F /\ u0 = Use(c, v)
      BY <1>0, <2>2, <2>4
    <3> HIDE DEF c, D, top
    <3>2. /\ Tiled(Use(c, v), top, F \ {v}, X \cup {v}, G)
          /\ DOMAIN Use(c, v) = DOMAIN c /\ \A q \in DOMAIN c : Use(c, v)[q].size = c[q].size
      BY ONLY <3>1, UseIs
    <3> QED BY <3>1, <3>2 DEF D
  <2>9. v \in X \cup {v} /\ p \in X \cup {v} /\ p = End(u0, v)
    BY <2>3, <2>8 DEF End
  <2>10. /\ Tiled(u1, top, F \ {v}, (X \cup {v}) \ {p}, G)
         /\ \A u : u \in DOMAIN u1 <=> u \in DOMAIN u0 /\ u # p
         /\ \A u \in DOMAIN u0 \ {v, p} : u1[u].size = u0[u].size
         /\ u1[v].size = u0[v].size + u0[p].size
    <3> DEFINE Z == X \cup {v}
               E == F \ {v}
    <3>1. Tiled(u0, top, E, Z, G) /\ Closed(G) /\ v \in Z /\ p \in Z /\ p = End(u0, v)
      BY <1>0, <2>8, <2>9
    <3> HIDE DEF Z, E, top
    <3>2. /\ Tiled(Join(u0, v, p), top, E, Z \ {p}, G)
          /\ \A q : q \in DOMAIN Join(u0, v, p) <=> q \in DOMAIN u0 /\ q # p
          /\ \A q \in DOMAIN u0 \ {v, p} : Join(u0, v, p)[q].size = u0[q].size
          /\ Join(u0, v, p)[v].size = u0[v].size + u0[p].size
      BY ONLY <3>1, JoinIs
    <3> QED BY <2>4, <3>2 DEF Z, E
  <2>11. u1 = UsedHead(a1.chunk, v, n)
    <3>1. u0 = SetBit(c, p)
      BY <2>3, <2>4 DEF Use
    <3>2. Without(u0, p) = Without(c, p)
      BY <3>1, WithoutSame
    <3>3. u0[v].pinuse = TRUE
      <4>1. u0[v] = c[v]
        BY <2>3, <3>1 DEF SetBit
      <4> QED BY <1>1, <2>2, <2>3, <4>1
    <3>4. u0[v].size + u0[p].size = n
      BY <1>2, <2>3, <2>8
    <3> QED BY <2>4, <2>7, <3>2, <3>3, <3>4 DEF Join, NewHead, UsedHead
  <2>12. Headers(a1.chunk)
    <3>1. a1.chunk = Without(c, p)
      BY <2>7
    <3> QED BY <1>0, <3>1, WithoutOk
  <2>13. \A u \in F \ {v} : u1[u].size = c[u].size
    BY <1>2, <2>8, <2>10
  <2>14. Lists(a1.bins, F \ {v}) /\ Sorted(u1, a1.bins)
    <3>1. Lists(a1.bins, F \ {v}) /\ Sorted(c, a1.bins)
      BY <1>0, <2>2, <2>5, <2>7, UnlinkLists
    <3> QED BY <2>13, <3>1, SortedSame
  <2> DEFINE Y == (X \cup {v}) \ {p}
             E == F \ {v}
  <2>15. Tiled(u1, a1.top, E, Y, G) /\ v \in Y /\ Lists(a1.bins, E) /\ Sorted(u1, a1.bins) /\ Y \ {v} = X \ {p}
    BY <2>3, <2>7, <2>10, <2>14
  <2> HIDE DEF Y, E
  <2>16. (\E H : Sound(d, H, Y \ {v}, G)) /\ Leaves(a1, u1, d, Y \ {v})
    BY ONLY <2>1, <2>3, <2>6, <2>11, <2>12, <2>15, Memory(G), CreateChunkIs
  <2>17. Leaves(a, c, d, X \ {p})
    <3>1. Differs(a, d, FreeFields)
      BY <2>7, <2>16 DEF Leaves, Differs, FreeFields
    <3>2. \A u \in X \ {p} : d.chunk[u].size = c[u].size
      <4>1. \A u \in X \ {p} : d.chunk[u].size = u1[u].size
        BY <2>15, <2>16 DEF Leaves
      <4>2. \A u \in X \ {p} : u \in DOMAIN u0 \ {v, p}
        BY <1>2, <2>3, <2>8
      <4> QED BY <1>2, <2>8, <2>10, <4>1, <4>2
    <3>3. d.top <= a.top /\ End(d.chunk, d.top) = End(c, a.top)
      <4>1. u1[top].size = c[top].size
        BY <1>2, <2>3, <2>8, <2>10
      <4> QED BY <2>7, <2>16, <4>1 DEF Leaves, End
    <3>4. ASSUME \A u \in DOMAIN c : u <= a.top PROVE \A u \in DOMAIN d.chunk : u <= d.top
      <4>1. \A u \in DOMAIN u1 : u <= a1.top
        BY <2>7, <2>8, <2>10, <3>4
      <4> QED BY <2>16, <4>1 DEF Leaves
    <3> QED BY <3>1, <3>2, <3>3, <3>4 DEF Leaves
  <2> QED BY <2>15, <2>16, <2>17
<1> QED BY <1>3, <1>4

(* The tests of free hold.                                                  *)
THEOREM FreeChecksHold ==
  ASSUME NEW a, NEW F, NEW X, NEW G, Sound(a, F, X, G), Memory(G), NEW p \in X,
         NEW sz, sz = a.chunk[p].size, a.sysmem \in Int, \A b, f \in Nat : <<b, f>> \in G => f - b <= a.sysmem,
         a.contig => \A q \in DOMAIN a.chunk : q <= a.top
  PROVE  FreeChecks(a, p, sz)
<1> DEFINE c   == a.chunk
           top == a.top
           D   == DOMAIN c
           q   == p + sz
<1>0. IsArena(a) /\ Tiled(c, top, F, X, G) /\ Headers(c) /\ Closed(G)
  BY DEF Sound, Tiled, Memory
<1>1. \A u \in D : /\ u \in Nat /\ u > 0 /\ c[u].size \in Nat /\ c[u].prev \in Nat
                            /\ c[u].pinuse \in BOOLEAN /\ End(c, u) \in Nat /\ End(c, u) = u + c[u].size
  BY <1>0, Fields
<1>2. p \in D /\ top \in D /\ p # top /\ sz \in Nat /\ sz >= 2 /\ q = End(c, p) /\ q \in D /\ c[q].pinuse /\ q \in Nat
  BY <1>0, <1>1 DEF Tiled, Parts, UsedTags
<1>3. a.contig => q < NextOf(a, top)
  BY <1>0, <1>1, <1>2 DEF NextOf, SizeOf, Tiled, Parts
<1>4. c[q].size > 0
  BY <1>0, <1>1, <1>2, AfterUsed DEF Tiled, Parts
<1>5. c[q].size < a.sysmem
  <2>1. Span(c, p) \in G /\ Span(c, q) \in G
    BY <1>0, <1>2 DEF Tiled, Within
  <2>2. Span(c, p) = <<p, q>> /\ Span(c, q) = <<q, q + c[q].size>> /\ q + c[q].size \in Nat /\ p \in Nat
    BY <1>1, <1>2, <1>4 DEF Span
  <2>3. <<p, q + c[q].size>> \in G
    BY <1>0, <1>2, <2>1, <2>2 DEF Closed
  <2> DEFINE e == q + c[q].size
  <2>4. e \in Nat /\ p \in Nat /\ <<p, e>> \in G
    BY <2>2, <2>3
  <2> HIDE DEF e
  <2>5. e - p <= a.sysmem
    BY <2>4, \A b, f \in Nat : <<b, f>> \in G => f - b <= a.sysmem
  <2> USE DEF e
  <2> QED BY <1>1, <1>2, <2>5
<1>6. c[p].pinuse \/ (/\ p - c[p].prev \in D /\ c[p - c[p].prev].size = c[p].prev
                      /\ UnlinkChecks(a, p - c[p].prev))
  <2> SUFFICES ASSUME ~ c[p].pinuse PROVE /\ p - c[p].prev \in D /\ c[p - c[p].prev].size = c[p].prev
                      /\ UnlinkChecks(a, p - c[p].prev)
    OBVIOUS
  <2> DEFINE v == p - c[p].prev
  <2>1. v \in F /\ c[v].size = c[p].prev /\ v \in D
    BY <1>0, <1>2 DEF Tiled, PrevTags, Parts
  <2>2. v + c[v].size = p
    BY <1>1, <1>2, <2>1
  <2>3. UnlinkChecks(a, v)
    BY <1>2, <2>1, <2>2 DEF UnlinkChecks, NextOf, SizeOf
  <2> QED BY <2>1, <2>3
<1>7. q = top \/ InUse(a, q) \/ UnlinkChecks(a, q)
  <2> SUFFICES ASSUME q # top, ~ InUse(a, q) PROVE UnlinkChecks(a, q)
    OBVIOUS
  <2>1. End(c, q) \in D /\ (q \in F <=> ~ c[End(c, q)].pinuse)
    BY <1>0, <1>2, AfterUsed
  <2>2. ~ c[End(c, q)].pinuse
    BY DEF InUse, PrevInUse, NextOf, SizeOf, End
  <2> QED BY <1>0, <2>1, <2>2 DEF UnlinkChecks, NextOf, SizeOf, Tiled, FreeTags, End
<1>8. c[q].size > Hdr \/ (c[q].size = Hdr /\ c[q].pinuse)
  BY <1>1, <1>2, <1>4, ChunksAssumption
<1> QED BY <1>2, <1>3, <1>5, <1>6, <1>7, <1>8 DEF FreeChecks, PrevOf, SizeOf, PrevInUse, TopEnd

(* An arena whose free chunk v is on no list any more.                      *)
Loose(a, v, F, X, G) ==
  IsArena(a) /\ Tiled(a.chunk, a.top, F, X, G) /\ v \in F /\ Lists(a.bins, F \ {v}) /\ Sorted(a.chunk, a.bins)

(* unlink_chunk                                                             *)
LEMMA UnlinkLoose ==
  ASSUME NEW a, NEW F, NEW X, NEW G, Sound(a, F, X, G), NEW v \in F, NEW d, d = Unlink(a, v)
  PROVE  Loose(d, v, F, X, G) /\ Differs(a, d, {"bins"})
<1>1. IsArena(a) /\ Lists(a.bins, F) /\ Sorted(a.chunk, a.bins)
  BY DEF Sound
<1>2. Differs(a, d, {"bins"}) /\ d.bins = [i \in DOMAIN a.bins |-> RemoveFirst(a.bins[i], v)]
  BY <1>1, UnlinkIs
<1>3. IsArena(d) /\ d.chunk = a.chunk /\ d.top = a.top
  BY <1>1, <1>2, KeptFields
<1>4. Lists(d.bins, F \ {v}) /\ Sorted(a.chunk, d.bins)
  BY <1>1, <1>2, UnlinkLists
<1> QED BY <1>2, <1>3, <1>4 DEF Loose, Sound

(* The last chunk of a list is taken off it.                                *)
LEMMA LastLoose ==
  ASSUME NEW a, NEW F, NEW X, NEW G, Sound(a, F, X, G), NEW i \in 1 .. NBins, a.bins[i] # <<>>,
         NEW v, v = Last(a.bins[i]), NEW d, d = [a EXCEPT !.bins[i] = Front(@)]
  PROVE  Loose(d, v, F, X, G) /\ Differs(a, d, {"bins"}) /\ (i > 1 => InBin(a.chunk, v, i))
<1>1. IsArena(a) /\ Lists(a.bins, F) /\ Sorted(a.chunk, a.bins)
  BY DEF Sound
<1>2. Differs(a, d, {"bins"}) /\ d.bins = [a.bins EXCEPT ![i] = Front(@)]
  BY <1>1 DEF IsArena, ArenaFields, Differs
<1>3. IsArena(d) /\ d.chunk = a.chunk /\ d.top = a.top
  BY <1>1, <1>2, KeptFields
<1>4. v \in F /\ Lists(d.bins, F \ {v}) /\ Sorted(a.chunk, d.bins) /\ (i > 1 => InBin(a.chunk, v, i))
  <2> DEFINE old == a.bins
             new == d.bins
             c   == a.chunk
  <2>1. Lists(old, F) /\ Sorted(c, old) /\ old[i] # <<>> /\ new = [old EXCEPT ![i] = Front(@)] /\ v = Last(old[i])
    BY <1>1, <1>2
  <2> HIDE DEF old, new, c
  <2>2. v \in F /\ Lists(new, F \ {v}) /\ Sorted(c, new) /\ (i > 1 => InBin(c, v, i))
    BY ONLY <2>1, i \in 1 .. NBins, FrontLists
  <2> QED BY <2>2 DEF new, c
<1> QED BY <1>2, <1>3, <1>4 DEF Loose, Sound

(* All of a chunk that was taken off its list is used.                      *)
LEMMA UseAllIs ==
  ASSUME NEW a, NEW v, NEW F, NEW X, NEW G, Loose(a, v, F, X, G), NEW q, q = End(a.chunk, v),
         NEW d, d = SetInUseBit(a, q)
  PROVE  Sound(d, F \ {v}, X \cup {v}, G) /\ Leaves(a, a.chunk, d, X \cup {v})
<1> DEFINE c  == a.chunk
           u0 == Use(c, v)
<1>1. IsArena(a) /\ Tiled(c, a.top, F, X, G) /\ v \in F /\ Lists(a.bins, F \ {v}) /\ Sorted(c, a.bins)
  BY DEF Loose
<1>2. Differs(a, d, {"chunk"}) /\ d.chunk = u0
  BY <1>1, SetInUseIs DEF Use
<1>3. IsArena(d) /\ d.bins = a.bins /\ d.top = a.top
  BY <1>1, <1>2, KeptFields
<1>4. Tiled(u0, a.top, F \ {v}, X \cup {v}, G) /\ DOMAIN u0 = DOMAIN c /\ \A u \in DOMAIN c : u0[u].size = c[u].size
  <2> DEFINE top == a.top
  <2> HIDE DEF c, u0, top
  <2>1. Tiled(c, top, F, X, G) /\ v \in F /\ u0 = Use(c, v)
    BY <1>1 DEF top, u0
  <2>2. /\ Tiled(Use(c, v), top, F \ {v}, X \cup {v}, G)
        /\ DOMAIN Use(c, v) = DOMAIN c /\ \A u \in DOMAIN c : Use(c, v)[u].size = c[u].size
    BY ONLY <2>1, UseIs
  <2> QED BY <2>2 DEF u0, top
<1> HIDE DEF u0
<1>5. F \subseteq DOMAIN c /\ X \subseteq DOMAIN c /\ a.top \in DOMAIN c /\ c[a.top].size \in Nat /\ a.top \in Nat
  BY <1>1, Fields DEF Tiled, Parts
<1>6. Sorted(u0, a.bins)
  BY <1>1, <1>4, <1>5, SortedSame
<1>7. Sound(d, F \ {v}, X \cup {v}, G)
  BY <1>2, <1>3, <1>1, <1>4, <1>6 DEF Sound
<1>8. Leaves(a, c, d, X \cup {v})
  <2>1. Differs(a, d, FreeFields)
    BY <1>2 DEF Differs, FreeFields
  <2> QED BY <1>1, <1>2, <1>3, <1>4, <1>5, <2>1 DEF Leaves, End
<1> QED BY <1>7, <1>8

(* The headers that a split leaves.                                         *)
LEMMA CutHead ==
  ASSUME NEW c, Headers(c), NEW e \in DOMAIN c, ~ c[e].pinuse, NEW v, NEW r, v # e, r # e, NEW nb, NEW m \in Nat, e = r + m
  PROVE  Foot(UsedHead(ClearBit(UsedHead(UsedHead(SetBit(c, e), v, nb), r, m), e), r, m), r, m)
         = Foot(UsedHead(UsedHead(c, v, nb), r, m), r, m)
<1>1. ClearBit(UsedHead(UsedHead(SetBit(c, e), v, nb), r, m), e)
      = UsedHead(UsedHead(ClearBit(SetBit(c, e), e), v, nb), r, m)
  BY HeadClear
<1>2. UsedHead(UsedHead(UsedHead(ClearBit(SetBit(c, e), e), v, nb), r, m), r, m)
      = UsedHead(UsedHead(ClearBit(SetBit(c, e), e), v, nb), r, m)
  BY HeadTwice
<1>3. Foot(UsedHead(UsedHead(ClearBit(SetBit(c, e), e), v, nb), r, m), r, m)
      = UsedHead(UsedHead(FootAt(ClearBit(SetBit(c, e), e), e, m), v, nb), r, m)
  BY FootIsAt, HeadFoot
<1>4. Foot(UsedHead(UsedHead(c, v, nb), r, m), r, m) = UsedHead(UsedHead(FootAt(c, e, m), v, nb), r, m)
  BY FootIsAt, HeadFoot
<1>5. FootAt(ClearBit(SetBit(c, e), e), e, m) = FootAt(c, e, m)
  <2>1. Foot(ClearBit(SetBit(c, e), e), r, m) = Foot(c, r, m)
    BY Refoot
  <2> QED BY <2>1, FootIsAt
<1> QED BY <1>1, <1>2, <1>3, <1>4, <1>5

(* A chunk that was taken off its list serves nb: what is left of it is     *)
(* freed, or too small.                                                     *)
THEOREM TakeVictimIs ==
  ASSUME NEW a, NEW v, NEW F, NEW X, NEW G, Loose(a, v, F, X, G), Memory(G),
         NEW nb \in Nat, nb >= 2, a.chunk[v].size >= nb, NEW d, d = TakeVictim(a, v, nb)
  PROVE  (\E H : Sound(d, H, X \cup {v}, G)) /\ Leaves(a, a.chunk, d, X)
         /\ v \notin X /\ d.chunk[v].size >= nb
<1> DEFINE c   == a.chunk
           top == a.top
           D   == DOMAIN c
           m   == c[v].size - nb
           r   == v + nb
           e   == End(c, v)
<1>0. /\ IsArena(a) /\ Tiled(c, top, F, X, G) /\ v \in F /\ Lists(a.bins, F \ {v}) /\ Sorted(c, a.bins)
      /\ Headers(c) /\ Closed(G)
  BY DEF Loose, Tiled, Memory
<1>1. \A u \in D : /\ u \in Nat /\ u > 0 /\ c[u].size \in Nat /\ c[u].prev \in Nat
                            /\ c[u].pinuse \in BOOLEAN /\ End(c, u) \in Nat /\ End(c, u) = u + c[u].size
  BY <1>0, Fields
<1>2. /\ v \in D /\ v # top /\ top \in D /\ v \notin X /\ X \subseteq D /\ top \notin X /\ F \subseteq D /\ top \notin F
      /\ m \in Nat /\ r \in Nat /\ e = r + m /\ e \in D /\ ~ c[e].pinuse /\ c[v].pinuse /\ c[v].size \in Nat
  BY <1>0, <1>1 DEF Tiled, Parts, FreeTags
<1>3. CASE TooSmall(m)
  <2> DEFINE q == NextOf(a, v)
  <2>1. q = End(a.chunk, v) /\ d = SetInUseBit(a, q)
    BY <1>3 DEF NextOf, SizeOf, End, TakeVictim
  <2> HIDE DEF q
  <2>2. Sound(d, F \ {v}, X \cup {v}, G) /\ Leaves(a, a.chunk, d, X \cup {v})
    BY ONLY <2>1, Loose(a, v, F, X, G), UseAllIs
  <2>3. Leaves(a, a.chunk, d, X) /\ d.chunk[v].size = c[v].size
    BY <2>2 DEF Leaves
  <2> QED BY <1>2, <2>2, <2>3
<1>4. CASE ~ TooSmall(m)
  <2>1. m >= 2
    BY <1>2, <1>4, ChunksAssumption DEF TooSmall
  <2> DEFINE a1 == SetUsed(a, v, nb)
             a2 == SetUsed(a1, r, m)
             one == 1
             a3 == PushFront(a2, one, r)
             u0 == Use(c, v)
             u1 == Split(u0, v, nb)
             u2 == FreeUsed(u1, r)
  <2>2. d = SetFoot(a3, r, m)
    BY <1>4 DEF TakeVictim, SizeOf, SetUsed, Unsorted
  <2>3. a1 = SetUsed(a, v, nb) /\ a2 = SetUsed(a1, r, m) /\ a3 = PushFront(a2, one, r) /\ one = 1
        /\ u0 = Use(c, v) /\ u1 = Split(u0, v, nb) /\ u2 = FreeUsed(u1, r)
    OBVIOUS
  <2> HIDE DEF a1, a2, a3, one, u0, u1, u2, c, D, top, m, r, e
  <2>4. Differs(a, a1, {"chunk"}) /\ a1.chunk = UsedHead(a.chunk, v, nb) /\ IsArena(a1)
    BY ONLY <1>0, <2>3, SetUsedIs, KeptFields
  <2>5. Differs(a1, a2, {"chunk"}) /\ a2.chunk = UsedHead(a1.chunk, r, m) /\ IsArena(a2)
    BY ONLY <2>3, <2>4, SetUsedIs, KeptFields
  <2>6. Differs(a2, a3, {"bins"}) /\ a3.bins = [a2.bins EXCEPT ![one] = <<r>> \o @] /\ IsArena(a3)
    <3>1. IsArena(a2) /\ a3 = PushFront(a2, one, r)
      BY <2>3, <2>5
    <3>2. Differs(a2, a3, {"bins"}) /\ a3.bins = [a2.bins EXCEPT ![one] = <<r>> \o @]
      BY ONLY <3>1, PushFrontIs
    <3> QED BY ONLY <3>1, <3>2, KeptFields
  <2>7. Differs(a3, d, {"chunk"}) /\ d.chunk = Foot(a3.chunk, r, m) /\ IsArena(d)
    BY ONLY <2>2, <2>6, SetFootIs, KeptFields
  <2>8. /\ Differs(a, d, {"chunk", "bins"}) /\ d.bins = [a.bins EXCEPT ![one] = <<r>> \o @] /\ d.top = top
        /\ d.chunk = Foot(UsedHead(UsedHead(c, v, nb), r, m), r, m)
    BY <1>0, <2>4, <2>5, <2>6, <2>7 DEF IsArena, ArenaFields, Differs, c, top
  <2>9. Tiled(u0, top, F \ {v}, X \cup {v}, G) /\ DOMAIN u0 = D /\ \A u \in D : u0[u].size = c[u].size
    <3>1. /\ Tiled(Use(c, v), top, F \ {v}, X \cup {v}, G)
          /\ DOMAIN Use(c, v) = DOMAIN c /\ \A q \in DOMAIN c : Use(c, v)[q].size = c[q].size
      BY ONLY <1>0, UseIs
    <3> QED BY <2>3, <3>1 DEF D
  <2> DEFINE E == F \ {v}
             Z == X \cup {v}
  <2>10. v \in Z /\ u0[v].size - nb = m /\ u0[v].size = c[v].size /\ Z \ {r} = Z /\ E \cup {r} = (F \ {v}) \cup {r}
    <3>1. r \notin D
      <4>1. v < r /\ r < e
        BY <1>1, <1>2, <2>1 DEF r
      <4> QED BY <1>0, <1>1, <1>2, <4>1, NoneInside DEF Tiled, e, D, c
    <3> QED BY <1>2, <2>9, <3>1 DEF m, D, c
  <2>11. Tiled(u0, top, E, Z, G) /\ Closed(G) /\ v \in Z /\ nb \in Nat /\ nb >= 2 /\ u0[v].size - nb >= 2
    BY <1>0, <2>1, <2>9, <2>10
  <2> HIDE DEF E, Z
  <2>12. /\ Tiled(u1, top, E, Z \cup {r}, G) /\ r \notin DOMAIN u0
         /\ \A q : q \in DOMAIN u1 <=> q \in DOMAIN u0 \/ q = r
         /\ \A q \in DOMAIN u0 \ {v} : u1[q].size = u0[q].size
         /\ u1[v].size = nb /\ u1[r].size = m /\ u1[r].pinuse
    <3>1. /\ Tiled(Split(u0, v, nb), top, E, Z \cup {v + nb}, G) /\ v + nb \notin DOMAIN u0
          /\ \A q : q \in DOMAIN Split(u0, v, nb) <=> q \in DOMAIN u0 \/ q = v + nb
          /\ \A q \in DOMAIN u0 \ {v} : Split(u0, v, nb)[q].size = u0[q].size
          /\ Split(u0, v, nb)[v].size = nb /\ Split(u0, v, nb)[v + nb].size = u0[v].size - nb
          /\ (Split(u0, v, nb)[v].pinuse <=> u0[v].pinuse) /\ Split(u0, v, nb)[v + nb].pinuse
      BY ONLY <2>11, SplitIs
    <3> QED BY <2>3, <2>10, <3>1 DEF r
  <2>13. r \in Z \cup {r} /\ u1[r].pinuse /\ End(u1, r) = e /\ e # top /\ e \notin E
    <3>1. End(u1, r) = e
      BY <1>2, <2>12 DEF End
    <3>2. e # top /\ e \notin F
      BY <1>0, <1>2 DEF Tiled, FreeTags, e
    <3> QED BY <2>12, <3>1, <3>2 DEF E
  <2>14. /\ Tiled(u2, top, E \cup {r}, (Z \cup {r}) \ {r}, G)
         /\ DOMAIN u2 = DOMAIN u1 /\ \A q \in DOMAIN u1 : u2[q].size = u1[q].size
    <3> DEFINE Y == Z \cup {r}
    <3>1. Tiled(u1, top, E, Y, G) /\ r \in Y /\ u1[r].pinuse /\ End(u1, r) # top /\ End(u1, r) \notin E
      BY <2>12, <2>13
    <3> HIDE DEF Y
    <3>2. /\ Tiled(FreeUsed(u1, r), top, E \cup {r}, Y \ {r}, G)
          /\ DOMAIN FreeUsed(u1, r) = DOMAIN u1 /\ \A q \in DOMAIN u1 : FreeUsed(u1, r)[q].size = u1[q].size
      BY ONLY <3>1, FreeUsedIs
    <3> QED BY <2>3, <3>2 DEF Y
  <2>15. d.chunk = u2
    <3>1. u0 = SetBit(c, e)
      BY <2>3 DEF Use, e
    <3>2. u0[v].pinuse = TRUE
      <4>1. v # e
        BY <1>1, <1>2, <2>1
      <4>2. u0[v] = c[v]
        BY <1>2, <3>1, <4>1 DEF SetBit, D
      <4> QED BY <1>1, <1>2, <4>2
    <3>3. u1 = UsedHead(UsedHead(u0, v, nb), r, m)
      BY <2>3, <2>10, <3>2 DEF Split, NewHead, UsedHead, r
    <3>4. u2 = Foot(UsedHead(ClearBit(u1, e), r, m), r, m)
      BY <2>3, <2>12, <2>13 DEF FreeUsed
    <3>5. v # e /\ r # e /\ Headers(c) /\ e \in DOMAIN c /\ ~ c[e].pinuse /\ m \in Nat /\ e = r + m
      BY <1>0, <1>1, <1>2, <2>1 DEF D
    <3>6. Foot(UsedHead(ClearBit(UsedHead(UsedHead(SetBit(c, e), v, nb), r, m), e), r, m), r, m)
         = Foot(UsedHead(UsedHead(c, v, nb), r, m), r, m)
      BY ONLY <3>5, CutHead
    <3> QED BY <2>8, <3>1, <3>3, <3>4, <3>6
  <2>16. \A u \in D \ {v} : u2[u].size = c[u].size
    BY <2>9, <2>12, <2>14
  <2>17. u2[v].size = nb /\ v \in DOMAIN u2
    BY <1>2, <2>9, <2>12, <2>14
  <2>18. Lists(a.bins, E) /\ Sorted(u2, a.bins)
    <3>1. \A u \in E : u2[u].size = c[u].size
      BY <1>2, <2>16 DEF E
    <3>2. Lists(a.bins, E) /\ Sorted(c, a.bins)
      BY <1>0 DEF E
    <3> QED BY ONLY <3>1, <3>2, SortedSame
  <2>19. Lists(d.bins, E \cup {r}) /\ Sorted(u2, d.bins)
    <3> DEFINE old == a.bins
               new == d.bins
    <3>1. r \notin E /\ one \in 1 .. NBins /\ (one = 1 \/ InBin(u2, r, one)) /\ new = [old EXCEPT ![one] = <<r>> \o @]
      <4>1. r \notin F
        BY <2>12, <2>9, <1>2
      <4>2. 1 \in 1 .. NBins
        <5>1. BinIndex[c[v].size] \in 2 .. NBins
          <6>1. c[v].size \in Sizes
            <7>1. v \in DOMAIN c /\ Headers(c) /\ Within(c, G) /\ c[v].size >= 2
              BY <1>0, <1>2 DEF Tiled, FreeTags, D
            <7> QED BY <7>1, SizeInSizes
          <6> QED BY <6>1, ChunksAssumption
        <5> QED BY <5>1, ChunksAssumption
      <4> QED BY <2>3, <2>8, <4>1, <4>2 DEF E
    <3>2. Lists(old, E) /\ Sorted(u2, old)
      BY <2>18
    <3> HIDE DEF old, new
    <3>3. Lists(new, E \cup {r}) /\ Sorted(u2, new)
      BY ONLY <3>1, <3>2, PushLists
    <3> QED BY <3>3 DEF new
  <2>20. Sound(d, E \cup {r}, X \cup {v}, G)
    <3>1. Z \ {r} = (Z \cup {r}) \ {r} /\ Z = X \cup {v}
      BY DEF Z
    <3> QED BY <2>7, <2>8, <2>10, <2>14, <2>15, <2>19, <3>1 DEF Sound
  <2>21. Leaves(a, c, d, X)
    <3>1. Differs(a, d, FreeFields)
      BY <2>8 DEF Differs, FreeFields
    <3>2. \A u \in X : d.chunk[u].size = c[u].size
      BY <1>2, <2>15, <2>16
    <3>3. d.top <= a.top /\ End(d.chunk, d.top) = End(c, a.top)
      <4>1. u2[top].size = c[top].size /\ top \in Nat
        BY <1>1, <1>2, <2>16
      <4> QED BY <2>8, <2>15, <4>1 DEF End, top
    <3>4. ASSUME \A u \in DOMAIN c : u <= a.top PROVE \A u \in DOMAIN d.chunk : u <= d.top
      <4>1. e <= top
        BY <1>2, <3>4 DEF top, D
      <4>2. r <= top /\ top \in Nat
        BY <1>1, <1>2, <4>1
      <4> QED BY <2>8, <2>9, <2>12, <2>14, <2>15, <3>4, <4>2 DEF top, D
    <3> QED BY <3>1, <3>2, <3>3, <3>4 DEF Leaves
  <2> QED BY <1>2, <2>15, <2>17, <2>20, <2>21 DEF c
<1> QED BY <1>3, <1>4

(* The least element of a set of numbers.                                   *)
LEMMA MinIs ==
  ASSUME NEW S \in SUBSET Nat, S # {}
  PROVE  Min(S) \in S /\ \A n \in S : Min(S) <= n
<1>1. \E m \in S : \A n \in S : m <= n
  BY Least
<1> QED BY <1>1 DEF Min

(* A large bin has a place for every size.                                  *)
LEMMA LargePositionIs ==
  ASSUME NEW a, NEW i, Len(a.bins[i]) \in Nat, NEW sz
  PROVE  LargePosition(a, i, sz) \in 1 .. Len(a.bins[i]) + 1
<1> DEFINE n == Len(a.bins[i])
           S == { k \in 1 .. n : SizeInBin(a, i, k) <= sz }
<1>1. CASE S = {}
  BY <1>1 DEF LargePosition
<1>2. CASE S # {}
  <2> DEFINE k == Min(S)
  <2>1. k \in S
    <3>1. S \in SUBSET Nat
      OBVIOUS
    <3> HIDE DEF S
    <3> QED BY <1>2, <3>1, MinIs
  <2>2. k \in 1 .. n
    BY <2>1
  <2>3. LargePosition(a, i, sz) = IF SizeInBin(a, i, k) = sz THEN k + 1 ELSE k
    BY <1>2 DEF LargePosition
  <2> HIDE DEF k, S
  <2> QED BY <2>2, <2>3
<1> QED BY <1>1, <1>2

(* A chunk of the unsorted list goes to its bin.                            *)
THEOREM PlaceInBinIs ==
  ASSUME NEW a, NEW v, NEW F, NEW X, NEW G, Loose(a, v, F, X, G), Memory(G), NEW d, d = PlaceInBin(a, v)
  PROVE  Sound(d, F, X, G) /\ Differs(a, d, {"bins", "binmap"})
<1> DEFINE c  == a.chunk
           sz == c[v].size
           i  == BinIndex[sz]
           m  == IF InSmallbinRange(sz) THEN 1 ELSE LargePosition(a, i, sz)
           a1 == [a EXCEPT !.bins[i] = InsertAt(@, m, v)]
           E  == F \ {v}
<1>1. IsArena(a) /\ Tiled(c, a.top, F, X, G) /\ v \in F /\ Lists(a.bins, E) /\ Sorted(c, a.bins) /\ v \notin E
      /\ E \cup {v} = F
  BY DEF Loose
<1>2. d = MarkBin(a1, i)
  BY DEF PlaceInBin, SizeOf
<1>3. sz \in Sizes
  <2>1. v \in DOMAIN c /\ Headers(c) /\ Within(c, G) /\ c[v].size >= 2
    BY <1>1 DEF Tiled, FreeTags, Parts
  <2> QED BY <2>1, SizeInSizes
<1>4. i \in 2 .. NBins /\ i \in 1 .. NBins /\ InBin(c, v, i)
  <2>1. BinIndex[sz] \in 2 .. NBins /\ NBins \in Nat
    BY <1>3, ChunksAssumption
  <2> QED BY <1>3, <2>1 DEF InBin
<1>5. m \in 1 .. Len(a.bins[i]) + 1
  <2>1. Len(a.bins[i]) \in Nat
    BY <1>1, <1>4, ListedOnce
  <2>2. LargePosition(a, i, sz) \in 1 .. Len(a.bins[i]) + 1
    <3> HIDE DEF i, sz
    <3> QED BY <2>1, LargePositionIs
  <2> QED BY <2>1, <2>2
<1>6. a1 = [a EXCEPT !.bins[i] = InsertAt(@, m, v)]
  OBVIOUS
<1> HIDE DEF i, m, a1
<1>7. Differs(a, a1, {"bins"}) /\ a1.bins = [a.bins EXCEPT ![i] = InsertAt(@, m, v)]
  BY <1>1, <1>6 DEF IsArena, ArenaFields, Differs
<1>8. IsArena(a1) /\ a1.chunk = c /\ a1.top = a.top
  BY <1>1, <1>7, KeptFields
<1>9. Lists(a1.bins, E \cup {v}) /\ Sorted(c, a1.bins)
  <2> DEFINE old == a.bins
             new == a1.bins
  <2>1. Lists(old, E) /\ Sorted(c, old) /\ v \notin E /\ new = [old EXCEPT ![i] = InsertAt(@, m, v)]
        /\ (i = 1 \/ InBin(c, v, i)) /\ m \in 1 .. Len(old[i]) + 1
    BY <1>1, <1>4, <1>5, <1>7
  <2> HIDE DEF old, new, c, E
  <2>2. Lists(new, E \cup {v}) /\ Sorted(c, new)
    BY ONLY <2>1, <1>4, InsertLists
  <2> QED BY <2>2 DEF new
<1>10. Differs(a1, d, {"binmap"})
  BY <1>2, <1>8, MarkBinIs
<1>11. IsArena(d) /\ d.chunk = a1.chunk /\ d.top = a1.top /\ d.bins = a1.bins
  BY <1>8, <1>10, KeptFields
<1>12. Differs(a, d, {"bins", "binmap"})
  BY <1>7, <1>10 DEF Differs
<1> QED BY <1>1, <1>8, <1>9, <1>11, <1>12 DEF Sound

(* nb are cut from the bottom of top; other chunks stay.                    *)
TopCut(a, d, nb, X) ==
  /\ Differs(a, d, {"chunk", "top"}) /\ d.top = a.top + nb
  /\ d.chunk[a.top].size = nb /\ d.chunk[d.top].size = a.chunk[a.top].size - nb /\ a.top \notin X
  /\ \A u \in X : d.chunk[u].size = a.chunk[u].size
  /\ \A u \in DOMAIN d.chunk : u \in DOMAIN a.chunk \/ u = d.top

(* The bottom of top serves nb.                                             *)
THEOREM TakeFromTopIs ==
  ASSUME NEW a, NEW F, NEW X, NEW G, Sound(a, F, X, G), Closed(G), NEW nb \in Nat, nb >= 2,
         TopSize(a) >= nb + MinSize, NEW d, d = TakeFromTop(a, nb)
  PROVE  Sound(d, F, X \cup {a.top}, G) /\ TopCut(a, d, nb, X)
<1> DEFINE c   == a.chunk
           top == a.top
           r   == top + nb
           m   == c[top].size - nb
           a1  == SetUsed(a, top, nb)
           a2  == SetUsed(a1, r, m)
           u   == TakeTop(c, top, nb)
<1>0. /\ IsArena(a) /\ Tiled(c, top, F, X, G) /\ Lists(a.bins, F) /\ Sorted(c, a.bins) /\ Headers(c)
  BY DEF Sound, Tiled
<1>1. top \in DOMAIN c /\ c[top].size \in Nat /\ m >= 2 /\ top \notin X /\ top \notin F /\ X \subseteq DOMAIN c /\ F \subseteq DOMAIN c
  BY <1>0, Fields, ChunksAssumption DEF Tiled, Parts, TopSize, SizeOf
<1>2. d = [a2 EXCEPT !.top = r] /\ a1 = SetUsed(a, top, nb) /\ a2 = SetUsed(a1, r, m)
  BY DEF TakeFromTop, SetUsed, TopSize, SizeOf
<1>3. u = UsedHead(UsedHead(c, top, nb), r, m)
  BY DEF TakeTop
<1> HIDE DEF a1, a2, m, r, u, c, top
<1>4. Differs(a, a1, {"chunk"}) /\ a1.chunk = UsedHead(a.chunk, top, nb) /\ IsArena(a1)
  BY ONLY <1>0, <1>2, SetUsedIs, KeptFields
<1>5. Differs(a1, a2, {"chunk"}) /\ a2.chunk = UsedHead(a1.chunk, r, m) /\ IsArena(a2)
  BY ONLY <1>2, <1>4, SetUsedIs, KeptFields
<1>6. Differs(a, d, {"chunk", "top"}) /\ d.top = r /\ d.bins = a.bins /\ d.chunk = u /\ IsArena(d)
  BY <1>0, <1>2, <1>3, <1>4, <1>5 DEF IsArena, ArenaFields, Differs, c
<1>7. Tiled(c, top, F, X, G) /\ Closed(G) /\ nb \in Nat /\ nb >= 2 /\ c[top].size - nb >= 2 /\ u = TakeTop(c, top, nb)
  BY <1>0, <1>1 DEF m, u
<1>8. /\ Tiled(u, r, F, X \cup {top}, G) /\ r \notin DOMAIN c
      /\ \A q : q \in DOMAIN u <=> q \in DOMAIN c \/ q = r
      /\ \A q \in DOMAIN c \ {top} : u[q].size = c[q].size
      /\ u[top].size = nb /\ u[r].size = m
  <2>1. /\ Tiled(TakeTop(c, top, nb), top + nb, F, X \cup {top}, G) /\ top + nb \notin DOMAIN c
        /\ \A q : q \in DOMAIN TakeTop(c, top, nb) <=> q \in DOMAIN c \/ q = top + nb
        /\ \A q \in DOMAIN c \ {top} : TakeTop(c, top, nb)[q].size = c[q].size
        /\ TakeTop(c, top, nb)[top].size = nb /\ TakeTop(c, top, nb)[top + nb].size = c[top].size - nb
    BY ONLY <1>7, TakeTopIs
  <2> QED BY <1>7, <2>1 DEF r, m
<1>9. Sorted(u, a.bins)
  <2>1. \A q \in F : u[q].size = c[q].size
    BY <1>1, <1>8
  <2> QED BY <1>0, <2>1, SortedSame
<1>10. Sound(d, F, X \cup {top}, G)
  BY <1>0, <1>6, <1>8, <1>9 DEF Sound
<1> QED BY <1>1, <1>6, <1>8, <1>10 DEF c, r, m, top, TopCut
=============================================================================
