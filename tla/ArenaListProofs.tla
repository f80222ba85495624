-------------------------- MODULE ArenaListProofs --------------------------
(***************************************************************************)
(* The counters, the free list and the circular list of ArenaList, proved   *)
(* for any finite sets of threads and arenas and any number of forks.       *)
(*                                                                          *)
(* IInv is the inductive invariant. A step of thread t is                   *)
(*   - quiet: the thread stays with the arenas that count it (QuietStep),   *)
(*   - a move: one critical section of free_list_lock in which the counters *)
(*     follow the thread to another arena (MoveStep), or                    *)
(*   - one that changes which arenas exist: NewHeap, LinkArena,             *)
(*     PublishArena and fork in the child, each proved on its own.          *)
(***************************************************************************)
EXTENDS ArenaList, TLAPS, FiniteSetTheorems

(* Where a new arena is not on the list yet, where the thread holds          *)
(* list_lock, and where the arena of its call is one of the list.            *)
Unpublished == {"na_list", "na_link", "na_publish"}
HoldsList   == {"na_link", "na_publish", "fk_lock", "fk_fork", "fk_unlock", "fk_done"}
HasArena    == {"lock", "inarena", "unlock", "retry_lock", "gfl_mutex", "na_lock",
                "na_detach", "na_mutex", "fk_lock", "fk_fork", "fk_unlock", "fk_done"}
               \cup (ReusedPCs \ {"ra", "ra_init"}) \cup FreePCs \cup ExitPCs \cup WalkPCs

(* The program counter, the locals and thread_arena of one thread agree with *)
(* each other and with the list of arenas.                                  *)
ThreadInv(t) ==
  /\ pc[t] \in HoldsList => listLock = t
  /\ pc[t] \in HasArena => res[t] \in OnList
  /\ pc[t] \in Unpublished =>
       /\ res[t] \in Arenas \ OnList /\ attached[res[t]] = 1
       /\ next[res[t]] = NoArena <=> pc[t] # "na_publish"
       /\ threadArena[t] = res[t]
  /\ pc[t] \notin Unpublished => threadArena[t] \in OnList \cup {NoArena}
  /\ rep[t] # NoArena => rep[t] = Main /\ pc[t] \in Unpublished \cup {"na_lock", "na_detach"}
  /\ pc[t] \in {"na_lock", "na_detach", "na_mutex"} => threadArena[t] = res[t] /\ res[t] # Main
  /\ pc[t] \in {"lock", "inarena"} /\ ~ tried[t] => threadArena[t] = res[t]
  /\ pc[t] \in Get2PCs \cup {"new_heap"} \cup ReusedPCs => threadArena[t] \in {Main, NoArena}
  /\ pc[t] = "retry_lock" => tried[t]
  /\ pc[t] \in ExitPCs => threadArena[t] = NoArena

(* The list is closed under next, and no two threads create the same arena. *)
ListInv ==
  /\ Main \in OnList
  /\ \A a \in Arenas : next[a] # NoArena => next[a] \in OnList
  /\ nextToUse # NoArena => nextToUse \in OnList
  /\ \A t, u \in Threads : pc[t] \in Unpublished /\ pc[u] \in Unpublished /\ res[t] = res[u] => t = u

FreeInv ==
  /\ FreeListUnused
  /\ NoArenaLost

IInv ==
  /\ TypeOK
  /\ \A t \in Threads : ThreadInv(t)
  /\ ListInv
  /\ AttachedIsCount
  /\ FreeInv

----------------------------------------------------------------------------
(* The free list as a sequence. *)

Distinct(s) == \A i, j \in 1 .. Len(s) : s[i] = s[j] => i = j

(* remove_from_free_list takes one arena out of a list without repetitions. *)
LEMMA RemoveFirstSpec ==
  ASSUME NEW S, NEW s \in Seq(S), NEW e, Distinct(s)
  PROVE  LET r == RemoveFirst(s, e)
         IN /\ r \in Seq(S) /\ Distinct(r)
            /\ \A i \in 1 .. Len(r) : r[i] # e /\ \E k \in 1 .. Len(s) : r[i] = s[k]
            /\ \A k \in 1 .. Len(s) : s[k] # e => \E i \in 1 .. Len(r) : r[i] = s[k]
<1>1. CASE ~ \E i \in 1 .. Len(s) : s[i] = e
  <2>1. RemoveFirst(s, e) = s
    BY <1>1 DEF RemoveFirst, SelectInSeq
  <2> QED BY <1>1, <2>1
<1>2. ASSUME NEW k \in 1 .. Len(s), s[k] = e
      PROVE  LET r == RemoveFirst(s, e)
             IN /\ r \in Seq(S) /\ Distinct(r)
                /\ \A i \in 1 .. Len(r) : r[i] # e /\ \E j \in 1 .. Len(s) : r[i] = s[j]
                /\ \A j \in 1 .. Len(s) : s[j] # e => \E i \in 1 .. Len(r) : r[i] = s[j]
  <2> DEFINE r == SubSeq(s, 1, k - 1) \o SubSeq(s, k + 1, Len(s))
  <2>1. { i \in 1 .. Len(s) : s[i] = e } = {k}
    BY <1>2 DEF Distinct
  <2>2. Min({k}) = k
    BY DEF Min
  <2>3. RemoveFirst(s, e) = r
    BY <1>2, <2>1, <2>2 DEF RemoveFirst, RemoveAt, SelectInSeq
  <2>4. /\ r \in Seq(S) /\ Len(r) = Len(s) - 1
        /\ \A i \in 1 .. Len(r) : r[i] = IF i < k THEN s[i] ELSE s[i + 1]
    <3> DEFINE front == SubSeq(s, 1, k - 1)
               back  == SubSeq(s, k + 1, Len(s))
    <3>1. front \in Seq(S) /\ Len(front) = k - 1 /\ \A i \in 1 .. k - 1 : front[i] = s[i]
      OBVIOUS
    <3>2. /\ back \in Seq(S) /\ Len(back) = Len(s) - k
          /\ \A i \in 1 .. Len(s) - k : back[i] = s[i + k]
      OBVIOUS
    <3>3. r = front \o back
      OBVIOUS
    <3> HIDE DEF r, front, back
    <3>4. r \in Seq(S) /\ Len(r) = Len(s) - 1
      BY <3>1, <3>2, <3>3
    <3>5. ASSUME NEW i \in 1 .. Len(r) PROVE r[i] = IF i < k THEN s[i] ELSE s[i + 1]
      <4>1. CASE i < k
        BY <3>1, <3>2, <3>3, <3>4, <4>1
      <4>2. CASE i >= k
        <5>1. i - (k - 1) \in 1 .. Len(s) - k
          BY <3>4, <4>2
        <5>2. r[i] = back[i - (k - 1)]
          BY <3>1, <3>2, <3>3, <3>4, <4>2
        <5> QED BY <3>2, <4>2, <5>1, <5>2
      <4> QED BY <4>1, <4>2
    <3> QED BY <3>4, <3>5
  <2> HIDE DEF r
  <2>5. Distinct(r)
    <3> DEFINE at(i) == IF i < k THEN i ELSE i + 1
    <3>1. ASSUME NEW i \in 1 .. Len(r)
          PROVE  i \in Int /\ at(i) \in 1 .. Len(s) /\ r[i] = s[at(i)]
      BY <1>2, <2>4
    <3>2. ASSUME NEW i \in 1 .. Len(r), NEW j \in 1 .. Len(r), r[i] = r[j]
          PROVE  i = j
      <4>1. s[at(i)] = s[at(j)] /\ at(i) \in 1 .. Len(s) /\ at(j) \in 1 .. Len(s)
        BY <3>1, <3>2
      <4>2. at(i) = at(j)
        BY <4>1 DEF Distinct
      <4> QED BY <1>2, <3>1, <4>2
    <3> QED BY <3>2 DEF Distinct
  <2>6. ASSUME NEW i \in 1 .. Len(r)
        PROVE  r[i] # e /\ \E j \in 1 .. Len(s) : r[i] = s[j]
    BY <1>2, <2>4 DEF Distinct
  <2>7. ASSUME NEW j \in 1 .. Len(s), s[j] # e
        PROVE  \E i \in 1 .. Len(r) : r[i] = s[j]
    <3>1. CASE j < k
      BY <2>4, <3>1
    <3>2. CASE j > k
      <4>1. j - 1 \in 1 .. Len(r) /\ r[j - 1] = s[j]
        BY <2>4, <3>2
      <4> QED BY <4>1
    <3> QED BY <1>2, <2>7, <3>1, <3>2
  <2> QED BY <2>3, <2>4, <2>5, <2>6, <2>7
<1> QED BY <1>1, <1>2

(* The orders in which the child can push a set of arenas. *)
LEMMA SetToSeqsSpec ==
  ASSUME NEW S, IsFiniteSet(S), NEW s \in SetToSeqs(S)
  PROVE  /\ s \in Seq(S) /\ Distinct(s)
         /\ \A a \in S : \E i \in 1 .. Len(s) : s[i] = a
<1> DEFINE n == Cardinality(S)
<1>1. n \in Nat
  BY FS_CardinalityType
<1>2. s \in [1 .. n -> S] /\ \A i, j \in 1 .. n : i # j => s[i] # s[j]
  BY DEF SetToSeqs
<1>3. s \in Seq(S) /\ Len(s) = n
  BY <1>1, <1>2
<1>4. Distinct(s)
  BY <1>2, <1>3 DEF Distinct
<1>5. IsFiniteSet(1 .. n) /\ Cardinality(1 .. n) = n
  BY <1>1, FS_Interval
<1>6. s \in Injection(1 .. n, S)
  BY <1>2 DEF Injection, IsInjective
<1>7. s \in Surjection(1 .. n, S)
  BY <1>5, <1>6, FS_Injection
<1> QED BY <1>3, <1>4, <1>7 DEF Surjection

----------------------------------------------------------------------------
(* A step of thread t leaves the locals of the others alone ...             *)
OthersIdle(t) ==
  \A u \in Threads \ {t} :
    /\ pc'[u] = pc[u] /\ res'[u] = res[u] /\ rep'[u] = rep[u]
    /\ threadArena'[u] = threadArena[u] /\ tried'[u] = tried[u]

(* ... and takes list_lock from none of them.                               *)
OthersHold(t) == \A u \in Threads \ {t} : pc[u] \in HoldsList => listLock' = u

(* It moves from one arena to another: the counters follow, the list stays. *)
Moves(t) ==
  /\ OthersIdle(t) /\ OthersHold(t)
  /\ next' = next /\ nextToUse' \in {nextToUse} \cup OnList
  /\ pc[t] # "na_publish" /\ pc'[t] # "na_publish"
  /\ pc'[t] \in Unpublished => pc[t] \in Unpublished /\ res'[t] = res[t]
  /\ \A a \in Arenas :
       attached'[a] = attached[a] + (IF a \in OnList \cap CountedBy(t)' THEN 1 ELSE 0)
                                  - (IF a \in OnList \cap CountedBy(t) THEN 1 ELSE 0)

(* It stays with the arenas it is counted by.                               *)
Quiet(t) ==
  /\ OthersIdle(t) /\ OthersHold(t)
  /\ UNCHANGED <<next, attached, freeList>>
  /\ nextToUse' \in {nextToUse} \cup OnList
  /\ pc[t] # "na_publish" /\ pc'[t] # "na_publish"
  /\ pc'[t] \in Unpublished => pc[t] \in Unpublished /\ res'[t] = res[t]
  /\ \A a \in OnList : a \in CountedBy(t)' <=> a \in CountedBy(t)

(* The arenas of the list are those published.                              *)
LEMMA OnListIff ==
  ASSUME NEW a \in Arenas
  PROVE  (a \in OnList <=> Published(a)) /\ (a \in OnList' <=> Published(a)')
  BY DEF OnList

(* Following next from an arena of the list stays on it. *)
LEMMA NextOnList ==
  ASSUME IInv, NEW a \in OnList
  PROVE  a \in Arenas /\ a # NoArena /\ next[a] # NoArena /\ next[a] \in OnList
  BY ArenaAssumption DEF IInv, ListInv, OnList, Published

(* What the other threads rely on, when the list does not shrink.           *)
LEMMA OthersKeep ==
  ASSUME IInv, NEW t \in Threads, NEW u \in Threads \ {t},
         OthersIdle(t), OthersHold(t), OnList \subseteq OnList',
         pc[u] \in Unpublished =>
           res[u] \notin OnList' /\ attached'[res[u]] = 1 /\ next'[res[u]] = next[res[u]]
  PROVE  ThreadInv(u)'
<1>1. ThreadInv(u)
  BY DEF IInv
<1> QED BY <1>1 DEF ThreadInv, OthersIdle, OthersHold

(* The list changes only where next is written or an arena is published. *)
LEMMA SameList ==
  ASSUME NEW t \in Threads, OthersIdle(t), next' = next,
         pc[t] # "na_publish", pc'[t] # "na_publish"
  PROVE  OnList' = OnList
<1>1. ASSUME NEW a \in Arenas PROVE Published(a)' <=> Published(a)
  BY DEF OthersIdle, Published
<1> QED BY <1>1 DEF OnList

(* Finitely many threads are attached to an arena.                          *)
LEMMA AttachedFinite == \A a : IsFiniteSet(AttachedTo(a)) /\ Cardinality(AttachedTo(a)) \in Nat
<1> SUFFICES ASSUME NEW a PROVE IsFiniteSet(AttachedTo(a)) /\ Cardinality(AttachedTo(a)) \in Nat
  OBVIOUS
<1>1. AttachedTo(a) \in SUBSET Threads
  BY DEF AttachedTo
<1> QED BY <1>1, FS_Subset, FS_CardinalityType, ArenaAssumption

(* One more or one fewer thread uses an arena.                              *)
LEMMA CountStep ==
  ASSUME NEW t \in Threads, OthersIdle(t), NEW a
  PROVE  Cardinality(AttachedTo(a))' = Cardinality(AttachedTo(a))
           + (IF a \in CountedBy(t)' THEN 1 ELSE 0) - (IF a \in CountedBy(t) THEN 1 ELSE 0)
<1>1. \A u \in Threads \ {t} : CountedBy(u)' = CountedBy(u)
  BY DEF OthersIdle, CountedBy
<1>2. IsFiniteSet(AttachedTo(a)) /\ Cardinality(AttachedTo(a)) \in Nat
  BY AttachedFinite
<1>3. t \in AttachedTo(a) <=> a \in CountedBy(t)
  BY DEF AttachedTo
<1>4. Cardinality(AttachedTo(a) \cup {t}) = Cardinality(AttachedTo(a))
        + 1 - (IF a \in CountedBy(t) THEN 1 ELSE 0)
  BY <1>2, <1>3, FS_AddElement
<1>5. Cardinality(AttachedTo(a) \ {t}) = Cardinality(AttachedTo(a))
        - (IF a \in CountedBy(t) THEN 1 ELSE 0)
  <2> DEFINE A == AttachedTo(a)
  <2> HIDE DEF A
  <2>1. IsFiniteSet(A) => Cardinality(A \ {t}) = IF t \in A THEN Cardinality(A) - 1 ELSE Cardinality(A)
    BY FS_RemoveElement, Zenon
  <2> QED BY <1>2, <1>3, <2>1 DEF A
<1>6. CASE a \in CountedBy(t)'
  <2>1. AttachedTo(a)' = AttachedTo(a) \cup {t}
    BY <1>1, <1>6 DEF AttachedTo
  <2> QED BY <1>2, <1>4, <1>6, <2>1
<1>7. CASE a \notin CountedBy(t)'
  <2>1. AttachedTo(a)' = AttachedTo(a) \ {t}
    BY <1>1, <1>7 DEF AttachedTo
  <2> QED BY <1>2, <1>5, <1>7, <2>1
<1> QED BY <1>6, <1>7

(* What is left to prove of a move, and of a quiet step. *)
LEMMA MoveStep ==
  ASSUME IInv, NEW t \in Threads, Moves(t), TypeOK', ThreadInv(t)', FreeInv'
  PROVE  IInv'
<1>1. OnList' = OnList
  BY SameList DEF Moves
<1>2. ASSUME NEW u \in Threads PROVE ThreadInv(u)'
  <2>1. CASE u = t
    BY <2>1
  <2>2. CASE u # t
    <3>1. pc[u] \in Unpublished =>
            res[u] \in Arenas /\ res[u] \notin OnList /\ attached[res[u]] = 1
      BY DEF IInv, ThreadInv
    <3>2. pc[u] \in Unpublished => attached'[res[u]] = 1
      BY <3>1 DEF Moves
    <3> QED BY <1>1, <2>2, <3>1, <3>2, OthersKeep DEF Moves
  <2> QED BY <2>1, <2>2
<1>3. ListInv'
  BY <1>1 DEF IInv, ListInv, Moves, OthersIdle
<1>4. AttachedIsCount'
  <2>1. ASSUME NEW a \in Arenas, a \in OnList
        PROVE  attached'[a] = Cardinality(AttachedTo(a))'
    <3>1. attached[a] = Cardinality(AttachedTo(a))
      BY <2>1 DEF IInv, AttachedIsCount, OnList
    <3> QED BY <2>1, <3>1, CountStep DEF Moves
  <2> QED BY <1>1, <2>1, OnListIff DEF AttachedIsCount
<1> QED BY <1>2, <1>3, <1>4 DEF IInv

(* A step that leaves the arenas and their lists alone.                     *)
LEMMA QuietStep ==
  ASSUME IInv, NEW t \in Threads, Quiet(t), TypeOK', ThreadInv(t)'
  PROVE  IInv'
<1>1. OnList' = OnList
  BY SameList DEF Quiet
<1>2. FreeInv'
  <2>1. ASSUME NEW a \in Arenas PROVE Published(a)' <=> Published(a)
    BY <1>1, OnListIff
  <2>2. \A i \in 1 .. Len(freeList) : freeList[i] \in Arenas
    BY DEF IInv, TypeOK
  <2> QED BY <2>1, <2>2 DEF IInv, FreeInv, FreeListUnused, NoArenaLost, Quiet
<1>3. Moves(t)
  <2>1. \A a \in Arenas : attached[a] \in Int
    BY DEF IInv, TypeOK
  <2> QED BY <2>1 DEF Quiet, Moves
<1> QED BY <1>2, <1>3, MoveStep

----------------------------------------------------------------------------
(* The steps that change no counter. *)

(* arena_get, the allocation and its retry. *)
LEMMA MallocQuiet ==
  ASSUME IInv, NEW t \in Threads,
         \/ ArenaGet(t)
         \/ ArenaLock(t)
         \/ Allocated(t)
         \/ MallocUnlock(t)
         \/ Retry(t)
         \/ RetryLock(t)
  PROVE  IInv'
<1> USE ArenaAssumption
    DEF Goto, LockArena, UnlockArena, DropFreeListLock, AvoidArena, locals, locks, arenas, limits,
        Get2PCs, NewPCs, ReusedPCs, FreePCs, ExitPCs, ForkPCs, WalkPCs
<1>1. ThreadInv(t) /\ ListInv /\ TypeOK
  BY DEF IInv
<1>2. \A a \in OnList : a \in Arenas /\ a # NoArena /\ next[a] # NoArena /\ next[a] \in OnList
  BY NextOnList
<1>3. CASE ArenaGet(t)
  <2> USE <1>3 DEF ArenaGet
  <2>1. TypeOK'
    BY <1>1, <1>2 DEF TypeOK, PCs, MallocPCs, ArenaPCs, ThreadInv, ListInv, HasArena
  <2>2. Quiet(t)
    BY <1>1, <1>2 DEF TypeOK, Quiet, OthersIdle, OthersHold, CountedBy, HoldsList, HasArena,
                      IInv, ThreadInv, ListInv, Unpublished
  <2>3. ThreadInv(t)'
    <3>1. OnList' = OnList
      BY <2>2, SameList DEF Quiet
    <3> QED BY <1>1, <1>2, <3>1 DEF ThreadInv, ListInv, TypeOK, HoldsList, HasArena, Unpublished
  <2> QED BY <2>1, <2>2, <2>3, QuietStep
<1>4. CASE ArenaLock(t)
  <2> USE <1>4 DEF ArenaLock
  <2>1. TypeOK'
    BY <1>1, <1>2 DEF TypeOK, PCs, MallocPCs, ArenaPCs, ThreadInv, ListInv, HasArena
  <2>2. Quiet(t)
    BY <1>1, <1>2 DEF TypeOK, Quiet, OthersIdle, OthersHold, CountedBy, HoldsList, HasArena,
                      IInv, ThreadInv, ListInv, Unpublished
  <2>3. ThreadInv(t)'
    <3>1. OnList' = OnList
      BY <2>2, SameList DEF Quiet
    <3> QED BY <1>1, <1>2, <3>1 DEF ThreadInv, ListInv, TypeOK, HoldsList, HasArena, Unpublished
  <2> QED BY <2>1, <2>2, <2>3, QuietStep
<1>5. CASE Allocated(t)
  <2> USE <1>5 DEF Allocated
  <2>1. TypeOK'
    BY <1>1, <1>2 DEF TypeOK, PCs, MallocPCs, ArenaPCs, ThreadInv, ListInv, HasArena
  <2>2. Quiet(t)
    BY <1>1, <1>2 DEF TypeOK, Quiet, OthersIdle, OthersHold, CountedBy, HoldsList, HasArena,
                      IInv, ThreadInv, ListInv, Unpublished
  <2>3. ThreadInv(t)'
    <3>1. OnList' = OnList
      BY <2>2, SameList DEF Quiet
    <3> QED BY <1>1, <1>2, <3>1 DEF ThreadInv, ListInv, TypeOK, HoldsList, HasArena, Unpublished
  <2> QED BY <2>1, <2>2, <2>3, QuietStep
<1>6. CASE MallocUnlock(t)
  <2> USE <1>6 DEF MallocUnlock
  <2>1. TypeOK'
    BY <1>1, <1>2 DEF TypeOK, PCs, MallocPCs, ArenaPCs, ThreadInv, ListInv, HasArena
  <2>2. Quiet(t)
    BY <1>1, <1>2 DEF TypeOK, Quiet, OthersIdle, OthersHold, CountedBy, HoldsList, HasArena,
                      IInv, ThreadInv, ListInv, Unpublished
  <2>3. ThreadInv(t)'
    <3>1. OnList' = OnList
      BY <2>2, SameList DEF Quiet
    <3> QED BY <1>1, <1>2, <3>1 DEF ThreadInv, ListInv, TypeOK, HoldsList, HasArena, Unpublished
  <2> QED BY <2>1, <2>2, <2>3, QuietStep
<1>7. CASE Retry(t)
  <2> USE <1>7 DEF Retry
  <2>1. TypeOK'
    BY <1>1, <1>2 DEF TypeOK, PCs, MallocPCs, ArenaPCs, ThreadInv, ListInv, HasArena
  <2>2. Quiet(t)
    BY <1>1, <1>2 DEF TypeOK, Quiet, OthersIdle, OthersHold, CountedBy, HoldsList, HasArena,
                      IInv, ThreadInv, ListInv, Unpublished
  <2>3. ThreadInv(t)'
    <3>1. OnList' = OnList
      BY <2>2, SameList DEF Quiet
    <3> QED BY <1>1, <1>2, <3>1 DEF ThreadInv, ListInv, TypeOK, HoldsList, HasArena, Unpublished
  <2> QED BY <2>1, <2>2, <2>3, QuietStep
<1>8. CASE RetryLock(t)
  <2> USE <1>8 DEF RetryLock
  <2>1. TypeOK'
    BY <1>1, <1>2 DEF TypeOK, PCs, MallocPCs, ArenaPCs, ThreadInv, ListInv, HasArena
  <2>2. Quiet(t)
    BY <1>1, <1>2 DEF TypeOK, Quiet, OthersIdle, OthersHold, CountedBy, HoldsList, HasArena,
                      IInv, ThreadInv, ListInv, Unpublished
  <2>3. ThreadInv(t)'
    <3>1. OnList' = OnList
      BY <2>2, SameList DEF Quiet
    <3> QED BY <1>1, <1>2, <3>1 DEF ThreadInv, ListInv, TypeOK, HoldsList, HasArena, Unpublished
  <2> QED BY <2>1, <2>2, <2>3, QuietStep
<1> QED BY <1>3, <1>4, <1>5, <1>6, <1>7, <1>8

(* get_free_list but for the removal. *)
LEMMA FreeListQuiet ==
  ASSUME IInv, NEW t \in Threads,
         \/ PeekFreeList(t)
         \/ TakeFreeListLock(t, "gfl_lock", "gfl_pop")
         \/ PopFreeList(t) /\ freeList = <<>>
         \/ TakeFreeArena(t)
  PROVE  IInv'
<1> USE ArenaAssumption
    DEF Goto, LockArena, UnlockArena, DropFreeListLock, AvoidArena, locals, locks, arenas, limits,
        Get2PCs, NewPCs, ReusedPCs, FreePCs, ExitPCs, ForkPCs, WalkPCs
<1>1. ThreadInv(t) /\ ListInv /\ TypeOK
  BY DEF IInv
<1>2. \A a \in OnList : a \in Arenas /\ a # NoArena /\ next[a] # NoArena /\ next[a] \in OnList
  BY NextOnList
<1>3. CASE PeekFreeList(t)
  <2> USE <1>3 DEF PeekFreeList
  <2>1. TypeOK'
    BY <1>1, <1>2 DEF TypeOK, PCs, MallocPCs, ArenaPCs, ThreadInv, ListInv, HasArena
  <2>2. Quiet(t)
    BY <1>1, <1>2 DEF TypeOK, Quiet, OthersIdle, OthersHold, CountedBy, HoldsList, HasArena,
                      IInv, ThreadInv, ListInv, Unpublished
  <2>3. ThreadInv(t)'
    <3>1. OnList' = OnList
      BY <2>2, SameList DEF Quiet
    <3> QED BY <1>1, <1>2, <3>1 DEF ThreadInv, ListInv, TypeOK, HoldsList, HasArena, Unpublished
  <2> QED BY <2>1, <2>2, <2>3, QuietStep
<1>4. CASE TakeFreeListLock(t, "gfl_lock", "gfl_pop")
  <2> USE <1>4 DEF TakeFreeListLock
  <2>1. TypeOK'
    BY <1>1, <1>2 DEF TypeOK, PCs, MallocPCs, ArenaPCs, ThreadInv, ListInv, HasArena
  <2>2. Quiet(t)
    BY <1>1, <1>2 DEF TypeOK, Quiet, OthersIdle, OthersHold, CountedBy, HoldsList, HasArena,
                      IInv, ThreadInv, ListInv, Unpublished
  <2>3. ThreadInv(t)'
    <3>1. OnList' = OnList
      BY <2>2, SameList DEF Quiet
    <3> QED BY <1>1, <1>2, <3>1 DEF ThreadInv, ListInv, TypeOK, HoldsList, HasArena, Unpublished
  <2> QED BY <2>1, <2>2, <2>3, QuietStep
<1>5. CASE PopFreeList(t) /\ freeList = <<>>
  <2> USE <1>5 DEF PopFreeList
  <2>1. TypeOK'
    BY <1>1, <1>2 DEF TypeOK, PCs, MallocPCs, ArenaPCs, ThreadInv, ListInv, HasArena
  <2>2. Quiet(t)
    BY <1>1, <1>2 DEF TypeOK, Quiet, OthersIdle, OthersHold, CountedBy, HoldsList, HasArena,
                      IInv, ThreadInv, ListInv, Unpublished
  <2>3. ThreadInv(t)'
    <3>1. OnList' = OnList
      BY <2>2, SameList DEF Quiet
    <3> QED BY <1>1, <1>2, <3>1 DEF ThreadInv, ListInv, TypeOK, HoldsList, HasArena, Unpublished
  <2> QED BY <2>1, <2>2, <2>3, QuietStep
<1>6. CASE TakeFreeArena(t)
  <2> USE <1>6 DEF TakeFreeArena
  <2>1. TypeOK'
    BY <1>1, <1>2 DEF TypeOK, PCs, MallocPCs, ArenaPCs, ThreadInv, ListInv, HasArena
  <2>2. Quiet(t)
    BY <1>1, <1>2 DEF TypeOK, Quiet, OthersIdle, OthersHold, CountedBy, HoldsList, HasArena,
                      IInv, ThreadInv, ListInv, Unpublished
  <2>3. ThreadInv(t)'
    <3>1. OnList' = OnList
      BY <2>2, SameList DEF Quiet
    <3> QED BY <1>1, <1>2, <3>1 DEF ThreadInv, ListInv, TypeOK, HoldsList, HasArena, Unpublished
  <2> QED BY <2>1, <2>2, <2>3, QuietStep
<1> QED BY <1>3, <1>4, <1>5, <1>6

(* arena_get2. *)
LEMMA ArenaGet2Quiet ==
  ASSUME IInv, NEW t \in Threads,
         \/ ComputeLimit(t)
         \/ ReadNarenas(t)
         \/ CasNarenas(t)
  PROVE  IInv'
<1> USE ArenaAssumption
    DEF Goto, LockArena, UnlockArena, DropFreeListLock, AvoidArena, locals, locks, arenas, limits,
        Get2PCs, NewPCs, ReusedPCs, FreePCs, ExitPCs, ForkPCs, WalkPCs
<1>1. ThreadInv(t) /\ ListInv /\ TypeOK
  BY DEF IInv
<1>2. \A a \in OnList : a \in Arenas /\ a # NoArena /\ next[a] # NoArena /\ next[a] \in OnList
  BY NextOnList
<1>3. CASE ComputeLimit(t)
  <2> USE <1>3 DEF ComputeLimit
  <2>1. TypeOK'
    BY <1>1, <1>2 DEF TypeOK, PCs, MallocPCs, ArenaPCs, ThreadInv, ListInv, HasArena
  <2>2. Quiet(t)
    BY <1>1, <1>2 DEF TypeOK, Quiet, OthersIdle, OthersHold, CountedBy, HoldsList, HasArena,
                      IInv, ThreadInv, ListInv, Unpublished
  <2>3. ThreadInv(t)'
    <3>1. OnList' = OnList
      BY <2>2, SameList DEF Quiet
    <3> QED BY <1>1, <1>2, <3>1 DEF ThreadInv, ListInv, TypeOK, HoldsList, HasArena, Unpublished
  <2> QED BY <2>1, <2>2, <2>3, QuietStep
<1>4. CASE ReadNarenas(t)
  <2> USE <1>4 DEF ReadNarenas
  <2>1. TypeOK'
    BY <1>1, <1>2 DEF TypeOK, PCs, MallocPCs, ArenaPCs, ThreadInv, ListInv, HasArena
  <2>2. Quiet(t)
    BY <1>1, <1>2 DEF TypeOK, Quiet, OthersIdle, OthersHold, CountedBy, HoldsList, HasArena,
                      IInv, ThreadInv, ListInv, Unpublished
  <2>3. ThreadInv(t)'
    <3>1. OnList' = OnList
      BY <2>2, SameList DEF Quiet
    <3> QED BY <1>1, <1>2, <3>1 DEF ThreadInv, ListInv, TypeOK, HoldsList, HasArena, Unpublished
  <2> QED BY <2>1, <2>2, <2>3, QuietStep
<1>5. CASE CasNarenas(t)
  <2> USE <1>5 DEF CasNarenas
  <2>1. TypeOK'
    BY <1>1, <1>2 DEF TypeOK, PCs, MallocPCs, ArenaPCs, ThreadInv, ListInv, HasArena
  <2>2. Quiet(t)
    BY <1>1, <1>2 DEF TypeOK, Quiet, OthersIdle, OthersHold, CountedBy, HoldsList, HasArena,
                      IInv, ThreadInv, ListInv, Unpublished
  <2>3. ThreadInv(t)'
    <3>1. OnList' = OnList
      BY <2>2, SameList DEF Quiet
    <3> QED BY <1>1, <1>2, <3>1 DEF ThreadInv, ListInv, TypeOK, HoldsList, HasArena, Unpublished
  <2> QED BY <2>1, <2>2, <2>3, QuietStep
<1> QED BY <1>3, <1>4, <1>5

(* _int_new_arena outside the list and the counters. *)
LEMMA NewArenaQuiet ==
  ASSUME IInv, NEW t \in Threads,
         \/ NewHeapFails(t)
         \/ TakeListLock(t, "na_list", "na_link")
         \/ TakeFreeListLock(t, "na_lock", "na_detach")
         \/ LockNewArena(t)
  PROVE  IInv'
<1> USE ArenaAssumption
    DEF Goto, LockArena, UnlockArena, DropFreeListLock, AvoidArena, locals, locks, arenas, limits,
        Get2PCs, NewPCs, ReusedPCs, FreePCs, ExitPCs, ForkPCs, WalkPCs
<1>1. ThreadInv(t) /\ ListInv /\ TypeOK
  BY DEF IInv
<1>2. \A a \in OnList : a \in Arenas /\ a # NoArena /\ next[a] # NoArena /\ next[a] \in OnList
  BY NextOnList
<1>3. CASE NewHeapFails(t)
  <2> USE <1>3 DEF NewHeapFails
  <2>1. TypeOK'
    BY <1>1, <1>2 DEF TypeOK, PCs, MallocPCs, ArenaPCs, ThreadInv, ListInv, HasArena
  <2>2. Quiet(t)
    BY <1>1, <1>2 DEF TypeOK, Quiet, OthersIdle, OthersHold, CountedBy, HoldsList, HasArena,
                      IInv, ThreadInv, ListInv, Unpublished
  <2>3. ThreadInv(t)'
    <3>1. OnList' = OnList
      BY <2>2, SameList DEF Quiet
    <3> QED BY <1>1, <1>2, <3>1 DEF ThreadInv, ListInv, TypeOK, HoldsList, HasArena, Unpublished
  <2> QED BY <2>1, <2>2, <2>3, QuietStep
<1>4. CASE TakeListLock(t, "na_list", "na_link")
  <2> USE <1>4 DEF TakeListLock
  <2>1. TypeOK'
    BY <1>1, <1>2 DEF TypeOK, PCs, MallocPCs, ArenaPCs, ThreadInv, ListInv, HasArena
  <2>2. Quiet(t)
    BY <1>1, <1>2 DEF TypeOK, Quiet, OthersIdle, OthersHold, CountedBy, HoldsList, HasArena,
                      IInv, ThreadInv, ListInv, Unpublished
  <2>3. ThreadInv(t)'
    <3>1. OnList' = OnList
      BY <2>2, SameList DEF Quiet
    <3> QED BY <1>1, <1>2, <3>1 DEF ThreadInv, ListInv, TypeOK, HoldsList, HasArena, Unpublished
  <2> QED BY <2>1, <2>2, <2>3, QuietStep
<1>5. CASE TakeFreeListLock(t, "na_lock", "na_detach")
  <2> USE <1>5 DEF TakeFreeListLock
  <2>1. TypeOK'
    BY <1>1, <1>2 DEF TypeOK, PCs, MallocPCs, ArenaPCs, ThreadInv, ListInv, HasArena
  <2>2. Quiet(t)
    BY <1>1, <1>2 DEF TypeOK, Quiet, OthersIdle, OthersHold, CountedBy, HoldsList, HasArena,
                      IInv, ThreadInv, ListInv, Unpublished
  <2>3. ThreadInv(t)'
    <3>1. OnList' = OnList
      BY <2>2, SameList DEF Quiet
    <3> QED BY <1>1, <1>2, <3>1 DEF ThreadInv, ListInv, TypeOK, HoldsList, HasArena, Unpublished
  <2> QED BY <2>1, <2>2, <2>3, QuietStep
<1>6. CASE LockNewArena(t)
  <2> USE <1>6 DEF LockNewArena
  <2>1. TypeOK'
    BY <1>1, <1>2 DEF TypeOK, PCs, MallocPCs, ArenaPCs, ThreadInv, ListInv, HasArena
  <2>2. Quiet(t)
    BY <1>1, <1>2 DEF TypeOK, Quiet, OthersIdle, OthersHold, CountedBy, HoldsList, HasArena,
                      IInv, ThreadInv, ListInv, Unpublished
  <2>3. ThreadInv(t)'
    <3>1. OnList' = OnList
      BY <2>2, SameList DEF Quiet
    <3> QED BY <1>1, <1>2, <3>1 DEF ThreadInv, ListInv, TypeOK, HoldsList, HasArena, Unpublished
  <2> QED BY <2>1, <2>2, <2>3, QuietStep
<1> QED BY <1>3, <1>4, <1>5, <1>6

(* reused_arena but for the attachment. *)
LEMMA ReusedArenaQuiet ==
  ASSUME IInv, NEW t \in Threads,
         \/ StartScan(t)
         \/ InitNextToUse(t)
         \/ TryLockSucceeds(t)
         \/ TryLockFails(t)
         \/ ScanAgain(t)
         \/ WaitForArena(t)
         \/ TakeFreeListLock(t, "ra_lock", "ra_attach")
         \/ SetThreadArena(t)
  PROVE  IInv'
<1> USE ArenaAssumption
    DEF Goto, LockArena, UnlockArena, DropFreeListLock, AvoidArena, locals, locks, arenas, limits,
        Get2PCs, NewPCs, ReusedPCs, FreePCs, ExitPCs, ForkPCs, WalkPCs
<1>1. ThreadInv(t) /\ ListInv /\ TypeOK
  BY DEF IInv
<1>2. \A a \in OnList : a \in Arenas /\ a # NoArena /\ next[a] # NoArena /\ next[a] \in OnList
  BY NextOnList
<1>3. CASE StartScan(t)
  <2> USE <1>3 DEF StartScan
  <2>1. TypeOK'
    BY <1>1, <1>2 DEF TypeOK, PCs, MallocPCs, ArenaPCs, ThreadInv, ListInv, HasArena
  <2>2. Quiet(t)
    BY <1>1, <1>2 DEF TypeOK, Quiet, OthersIdle, OthersHold, CountedBy, HoldsList, HasArena,
                      IInv, ThreadInv, ListInv, Unpublished
  <2>3. ThreadInv(t)'
    <3>1. OnList' = OnList
      BY <2>2, SameList DEF Quiet
    <3> QED BY <1>1, <1>2, <3>1 DEF ThreadInv, ListInv, TypeOK, HoldsList, HasArena, Unpublished
  <2> QED BY <2>1, <2>2, <2>3, QuietStep
<1>4. CASE InitNextToUse(t)
  <2> USE <1>4 DEF InitNextToUse
  <2>1. TypeOK'
    BY <1>1, <1>2 DEF TypeOK, PCs, MallocPCs, ArenaPCs, ThreadInv, ListInv, HasArena
  <2>2. Quiet(t)
    BY <1>1, <1>2 DEF TypeOK, Quiet, OthersIdle, OthersHold, CountedBy, HoldsList, HasArena,
                      IInv, ThreadInv, ListInv, Unpublished
  <2>3. ThreadInv(t)'
    <3>1. OnList' = OnList
      BY <2>2, SameList DEF Quiet
    <3> QED BY <1>1, <1>2, <3>1 DEF ThreadInv, ListInv, TypeOK, HoldsList, HasArena, Unpublished
  <2> QED BY <2>1, <2>2, <2>3, QuietStep
<1>5. CASE TryLockSucceeds(t)
  <2> USE <1>5 DEF TryLockSucceeds
  <2>1. TypeOK'
    BY <1>1, <1>2 DEF TypeOK, PCs, MallocPCs, ArenaPCs, ThreadInv, ListInv, HasArena
  <2>2. Quiet(t)
    BY <1>1, <1>2 DEF TypeOK, Quiet, OthersIdle, OthersHold, CountedBy, HoldsList, HasArena,
                      IInv, ThreadInv, ListInv, Unpublished
  <2>3. ThreadInv(t)'
    <3>1. OnList' = OnList
      BY <2>2, SameList DEF Quiet
    <3> QED BY <1>1, <1>2, <3>1 DEF ThreadInv, ListInv, TypeOK, HoldsList, HasArena, Unpublished
  <2> QED BY <2>1, <2>2, <2>3, QuietStep
<1>6. CASE TryLockFails(t)
  <2> USE <1>6 DEF TryLockFails
  <2>1. TypeOK'
    BY <1>1, <1>2 DEF TypeOK, PCs, MallocPCs, ArenaPCs, ThreadInv, ListInv, HasArena
  <2>2. Quiet(t)
    BY <1>1, <1>2 DEF TypeOK, Quiet, OthersIdle, OthersHold, CountedBy, HoldsList, HasArena,
                      IInv, ThreadInv, ListInv, Unpublished
  <2>3. ThreadInv(t)'
    <3>1. OnList' = OnList
      BY <2>2, SameList DEF Quiet
    <3> QED BY <1>1, <1>2, <3>1 DEF ThreadInv, ListInv, TypeOK, HoldsList, HasArena, Unpublished
  <2> QED BY <2>1, <2>2, <2>3, QuietStep
<1>7. CASE ScanAgain(t)
  <2> USE <1>7 DEF ScanAgain
  <2>1. TypeOK'
    BY <1>1, <1>2 DEF TypeOK, PCs, MallocPCs, ArenaPCs, ThreadInv, ListInv, HasArena
  <2>2. Quiet(t)
    BY <1>1, <1>2 DEF TypeOK, Quiet, OthersIdle, OthersHold, CountedBy, HoldsList, HasArena,
                      IInv, ThreadInv, ListInv, Unpublished
  <2>3. ThreadInv(t)'
    <3>1. OnList' = OnList
      BY <2>2, SameList DEF Quiet
    <3> QED BY <1>1, <1>2, <3>1 DEF ThreadInv, ListInv, TypeOK, HoldsList, HasArena, Unpublished
  <2> QED BY <2>1, <2>2, <2>3, QuietStep
<1>8. CASE WaitForArena(t)
  <2> USE <1>8 DEF WaitForArena
  <2>1. TypeOK'
    BY <1>1, <1>2 DEF TypeOK, PCs, MallocPCs, ArenaPCs, ThreadInv, ListInv, HasArena
  <2>2. Quiet(t)
    BY <1>1, <1>2 DEF TypeOK, Quiet, OthersIdle, OthersHold, CountedBy, HoldsList, HasArena,
                      IInv, ThreadInv, ListInv, Unpublished
  <2>3. ThreadInv(t)'
    <3>1. OnList' = OnList
      BY <2>2, SameList DEF Quiet
    <3> QED BY <1>1, <1>2, <3>1 DEF ThreadInv, ListInv, TypeOK, HoldsList, HasArena, Unpublished
  <2> QED BY <2>1, <2>2, <2>3, QuietStep
<1>9. CASE TakeFreeListLock(t, "ra_lock", "ra_attach")
  <2> USE <1>9 DEF TakeFreeListLock
  <2>1. TypeOK'
    BY <1>1, <1>2 DEF TypeOK, PCs, MallocPCs, ArenaPCs, ThreadInv, ListInv, HasArena
  <2>2. Quiet(t)
    BY <1>1, <1>2 DEF TypeOK, Quiet, OthersIdle, OthersHold, CountedBy, HoldsList, HasArena,
                      IInv, ThreadInv, ListInv, Unpublished
  <2>3. ThreadInv(t)'
    <3>1. OnList' = OnList
      BY <2>2, SameList DEF Quiet
    <3> QED BY <1>1, <1>2, <3>1 DEF ThreadInv, ListInv, TypeOK, HoldsList, HasArena, Unpublished
  <2> QED BY <2>1, <2>2, <2>3, QuietStep
<1>10. CASE SetThreadArena(t)
  <2> USE <1>10 DEF SetThreadArena
  <2>1. TypeOK'
    BY <1>1, <1>2 DEF TypeOK, PCs, MallocPCs, ArenaPCs, ThreadInv, ListInv, HasArena
  <2>2. Quiet(t)
    BY <1>1, <1>2 DEF TypeOK, Quiet, OthersIdle, OthersHold, CountedBy, HoldsList, HasArena,
                      IInv, ThreadInv, ListInv, Unpublished
  <2>3. ThreadInv(t)'
    <3>1. OnList' = OnList
      BY <2>2, SameList DEF Quiet
    <3> QED BY <1>1, <1>2, <3>1 DEF ThreadInv, ListInv, TypeOK, HoldsList, HasArena, Unpublished
  <2> QED BY <2>1, <2>2, <2>3, QuietStep
<1> QED BY <1>3, <1>4, <1>5, <1>6, <1>7, <1>8, <1>9, <1>10

(* The walk over all arenas. *)
LEMMA WalkQuiet ==
  ASSUME IInv, NEW t \in Threads,
         \/ Walk(t)
         \/ WalkLock(t)
         \/ WalkUnlock(t)
         \/ WalkNext(t)
  PROVE  IInv'
<1> USE ArenaAssumption
    DEF Goto, LockArena, UnlockArena, DropFreeListLock, AvoidArena, locals, locks, arenas, limits,
        Get2PCs, NewPCs, ReusedPCs, FreePCs, ExitPCs, ForkPCs, WalkPCs
<1>1. ThreadInv(t) /\ ListInv /\ TypeOK
  BY DEF IInv
<1>2. \A a \in OnList : a \in Arenas /\ a # NoArena /\ next[a] # NoArena /\ next[a] \in OnList
  BY NextOnList
<1>3. CASE Walk(t)
  <2> USE <1>3 DEF Walk
  <2>1. TypeOK'
    BY <1>1, <1>2 DEF TypeOK, PCs, MallocPCs, ArenaPCs, ThreadInv, ListInv, HasArena
  <2>2. Quiet(t)
    BY <1>1, <1>2 DEF TypeOK, Quiet, OthersIdle, OthersHold, CountedBy, HoldsList, HasArena,
                      IInv, ThreadInv, ListInv, Unpublished
  <2>3. ThreadInv(t)'
    <3>1. OnList' = OnList
      BY <2>2, SameList DEF Quiet
    <3> QED BY <1>1, <1>2, <3>1 DEF ThreadInv, ListInv, TypeOK, HoldsList, HasArena, Unpublished
  <2> QED BY <2>1, <2>2, <2>3, QuietStep
<1>4. CASE WalkLock(t)
  <2> USE <1>4 DEF WalkLock
  <2>1. TypeOK'
    BY <1>1, <1>2 DEF TypeOK, PCs, MallocPCs, ArenaPCs, ThreadInv, ListInv, HasArena
  <2>2. Quiet(t)
    BY <1>1, <1>2 DEF TypeOK, Quiet, OthersIdle, OthersHold, CountedBy, HoldsList, HasArena,
                      IInv, ThreadInv, ListInv, Unpublished
  <2>3. ThreadInv(t)'
    <3>1. OnList' = OnList
      BY <2>2, SameList DEF Quiet
    <3> QED BY <1>1, <1>2, <3>1 DEF ThreadInv, ListInv, TypeOK, HoldsList, HasArena, Unpublished
  <2> QED BY <2>1, <2>2, <2>3, QuietStep
<1>5. CASE WalkUnlock(t)
  <2> USE <1>5 DEF WalkUnlock
  <2>1. TypeOK'
    BY <1>1, <1>2 DEF TypeOK, PCs, MallocPCs, ArenaPCs, ThreadInv, ListInv, HasArena
  <2>2. Quiet(t)
    BY <1>1, <1>2 DEF TypeOK, Quiet, OthersIdle, OthersHold, CountedBy, HoldsList, HasArena,
                      IInv, ThreadInv, ListInv, Unpublished
  <2>3. ThreadInv(t)'
    <3>1. OnList' = OnList
      BY <2>2, SameList DEF Quiet
    <3> QED BY <1>1, <1>2, <3>1 DEF ThreadInv, ListInv, TypeOK, HoldsList, HasArena, Unpublished
  <2> QED BY <2>1, <2>2, <2>3, QuietStep
<1>6. CASE WalkNext(t)
  <2> USE <1>6 DEF WalkNext
  <2>1. TypeOK'
    BY <1>1, <1>2 DEF TypeOK, PCs, MallocPCs, ArenaPCs, ThreadInv, ListInv, HasArena
  <2>2. Quiet(t)
    BY <1>1, <1>2 DEF TypeOK, Quiet, OthersIdle, OthersHold, CountedBy, HoldsList, HasArena,
                      IInv, ThreadInv, ListInv, Unpublished
  <2>3. ThreadInv(t)'
    <3>1. OnList' = OnList
      BY <2>2, SameList DEF Quiet
    <3> QED BY <1>1, <1>2, <3>1 DEF ThreadInv, ListInv, TypeOK, HoldsList, HasArena, Unpublished
  <2> QED BY <2>1, <2>2, <2>3, QuietStep
<1> QED BY <1>3, <1>4, <1>5, <1>6

(* free, and threads that start or leave. *)
LEMMA FreeQuiet ==
  ASSUME IInv, NEW t \in Threads,
         \/ Free(t)
         \/ FreeLock(t)
         \/ FreeUnlock(t)
         \/ Spawn(t)
         \/ ThreadExit(t)
         \/ TakeFreeListLock(t, "ex_lock", "ex_detach")
  PROVE  IInv'
<1> USE ArenaAssumption
    DEF Goto, LockArena, UnlockArena, DropFreeListLock, AvoidArena, locals, locks, arenas, limits,
        Get2PCs, NewPCs, ReusedPCs, FreePCs, ExitPCs, ForkPCs, WalkPCs
<1>1. ThreadInv(t) /\ ListInv /\ TypeOK
  BY DEF IInv
<1>2. \A a \in OnList : a \in Arenas /\ a # NoArena /\ next[a] # NoArena /\ next[a] \in OnList
  BY NextOnList
<1>3. CASE Free(t)
  <2> USE <1>3 DEF Free
  <2>1. TypeOK'
    BY <1>1, <1>2 DEF TypeOK, PCs, MallocPCs, ArenaPCs, ThreadInv, ListInv, HasArena
  <2>2. Quiet(t)
    BY <1>1, <1>2 DEF TypeOK, Quiet, OthersIdle, OthersHold, CountedBy, HoldsList, HasArena,
                      IInv, ThreadInv, ListInv, Unpublished
  <2>3. ThreadInv(t)'
    <3>1. OnList' = OnList
      BY <2>2, SameList DEF Quiet
    <3> QED BY <1>1, <1>2, <3>1, OnListIff DEF ThreadInv, ListInv, TypeOK, HoldsList, HasArena, Unpublished
  <2> QED BY <2>1, <2>2, <2>3, QuietStep
<1>4. CASE FreeLock(t)
  <2> USE <1>4 DEF FreeLock
  <2>1. TypeOK'
    BY <1>1, <1>2 DEF TypeOK, PCs, MallocPCs, ArenaPCs, ThreadInv, ListInv, HasArena
  <2>2. Quiet(t)
    BY <1>1, <1>2 DEF TypeOK, Quiet, OthersIdle, OthersHold, CountedBy, HoldsList, HasArena,
                      IInv, ThreadInv, ListInv, Unpublished
  <2>3. ThreadInv(t)'
    <3>1. OnList' = OnList
      BY <2>2, SameList DEF Quiet
    <3> QED BY <1>1, <1>2, <3>1 DEF ThreadInv, ListInv, TypeOK, HoldsList, HasArena, Unpublished
  <2> QED BY <2>1, <2>2, <2>3, QuietStep
<1>5. CASE FreeUnlock(t)
  <2> USE <1>5 DEF FreeUnlock
  <2>1. TypeOK'
    BY <1>1, <1>2 DEF TypeOK, PCs, MallocPCs, ArenaPCs, ThreadInv, ListInv, HasArena
  <2>2. Quiet(t)
    BY <1>1, <1>2 DEF TypeOK, Quiet, OthersIdle, OthersHold, CountedBy, HoldsList, HasArena,
                      IInv, ThreadInv, ListInv, Unpublished
  <2>3. ThreadInv(t)'
    <3>1. OnList' = OnList
      BY <2>2, SameList DEF Quiet
    <3> QED BY <1>1, <1>2, <3>1 DEF ThreadInv, ListInv, TypeOK, HoldsList, HasArena, Unpublished
  <2> QED BY <2>1, <2>2, <2>3, QuietStep
<1>6. CASE Spawn(t)
  <2> USE <1>6 DEF Spawn
  <2>1. TypeOK'
    BY <1>1, <1>2 DEF TypeOK, PCs, MallocPCs, ArenaPCs, ThreadInv, ListInv, HasArena
  <2>2. Quiet(t)
    BY <1>1, <1>2 DEF TypeOK, Quiet, OthersIdle, OthersHold, CountedBy, HoldsList, HasArena,
                      IInv, ThreadInv, ListInv, Unpublished
  <2>3. ThreadInv(t)'
    <3>1. OnList' = OnList
      BY <2>2, SameList DEF Quiet
    <3> QED BY <1>1, <1>2, <3>1 DEF ThreadInv, ListInv, TypeOK, HoldsList, HasArena, Unpublished
  <2> QED BY <2>1, <2>2, <2>3, QuietStep
<1>7. CASE ThreadExit(t)
  <2> USE <1>7 DEF ThreadExit
  <2>1. TypeOK'
    BY <1>1, <1>2 DEF TypeOK, PCs, MallocPCs, ArenaPCs, ThreadInv, ListInv, HasArena
  <2>2. Quiet(t)
    BY <1>1, <1>2 DEF TypeOK, Quiet, OthersIdle, OthersHold, CountedBy, HoldsList, HasArena,
                      IInv, ThreadInv, ListInv, Unpublished
  <2>3. ThreadInv(t)'
    <3>1. OnList' = OnList
      BY <2>2, SameList DEF Quiet
    <3> QED BY <1>1, <1>2, <3>1 DEF ThreadInv, ListInv, TypeOK, HoldsList, HasArena, Unpublished
  <2> QED BY <2>1, <2>2, <2>3, QuietStep
<1>8. CASE TakeFreeListLock(t, "ex_lock", "ex_detach")
  <2> USE <1>8 DEF TakeFreeListLock
  <2>1. TypeOK'
    BY <1>1, <1>2 DEF TypeOK, PCs, MallocPCs, ArenaPCs, ThreadInv, ListInv, HasArena
  <2>2. Quiet(t)
    BY <1>1, <1>2 DEF TypeOK, Quiet, OthersIdle, OthersHold, CountedBy, HoldsList, HasArena,
                      IInv, ThreadInv, ListInv, Unpublished
  <2>3. ThreadInv(t)'
    <3>1. OnList' = OnList
      BY <2>2, SameList DEF Quiet
    <3> QED BY <1>1, <1>2, <3>1 DEF ThreadInv, ListInv, TypeOK, HoldsList, HasArena, Unpublished
  <2> QED BY <2>1, <2>2, <2>3, QuietStep
<1> QED BY <1>3, <1>4, <1>5, <1>6, <1>7, <1>8

(* fork in the parent. *)
LEMMA ForkQuiet ==
  ASSUME IInv, NEW t \in Threads,
         \/ ForkStart(t)
         \/ ForkListLock(t)
         \/ ForkLockNext(t)
         \/ ForkParent(t)
         \/ ForkUnlockNext(t)
         \/ ForkUnlockList(t)
  PROVE  IInv'
<1> USE ArenaAssumption
    DEF Goto, LockArena, UnlockArena, DropFreeListLock, AvoidArena, locals, locks, arenas, limits,
        Get2PCs, NewPCs, ReusedPCs, FreePCs, ExitPCs, ForkPCs, WalkPCs
<1>1. ThreadInv(t) /\ ListInv /\ TypeOK
  BY DEF IInv
<1>2. \A a \in OnList : a \in Arenas /\ a # NoArena /\ next[a] # NoArena /\ next[a] \in OnList
  BY NextOnList
<1>3. CASE ForkStart(t)
  <2> USE <1>3 DEF ForkStart
  <2>1. TypeOK'
    BY <1>1, <1>2 DEF TypeOK, PCs, MallocPCs, ArenaPCs, ThreadInv, ListInv, HasArena
  <2>2. Quiet(t)
    BY <1>1, <1>2 DEF TypeOK, Quiet, OthersIdle, OthersHold, CountedBy, HoldsList, HasArena,
                      IInv, ThreadInv, ListInv, Unpublished
  <2>3. ThreadInv(t)'
    <3>1. OnList' = OnList
      BY <2>2, SameList DEF Quiet
    <3> QED BY <1>1, <1>2, <3>1 DEF ThreadInv, ListInv, TypeOK, HoldsList, HasArena, Unpublished
  <2> QED BY <2>1, <2>2, <2>3, QuietStep
<1>4. CASE ForkListLock(t)
  <2> USE <1>4 DEF ForkListLock
  <2>1. TypeOK'
    BY <1>1, <1>2 DEF TypeOK, PCs, MallocPCs, ArenaPCs, ThreadInv, ListInv, HasArena
  <2>2. Quiet(t)
    BY <1>1, <1>2 DEF TypeOK, Quiet, OthersIdle, OthersHold, CountedBy, HoldsList, HasArena,
                      IInv, ThreadInv, ListInv, Unpublished
  <2>3. ThreadInv(t)'
    <3>1. OnList' = OnList
      BY <2>2, SameList DEF Quiet
    <3> QED BY <1>1, <1>2, <3>1 DEF ThreadInv, ListInv, TypeOK, HoldsList, HasArena, Unpublished
  <2> QED BY <2>1, <2>2, <2>3, QuietStep
<1>5. CASE ForkLockNext(t)
  <2> USE <1>5 DEF ForkLockNext
  <2>1. TypeOK'
    BY <1>1, <1>2 DEF TypeOK, PCs, MallocPCs, ArenaPCs, ThreadInv, ListInv, HasArena
  <2>2. Quiet(t)
    BY <1>1, <1>2 DEF TypeOK, Quiet, OthersIdle, OthersHold, CountedBy, HoldsList, HasArena,
                      IInv, ThreadInv, ListInv, Unpublished
  <2>3. ThreadInv(t)'
    <3>1. OnList' = OnList
      BY <2>2, SameList DEF Quiet
    <3> QED BY <1>1, <1>2, <3>1 DEF ThreadInv, ListInv, TypeOK, HoldsList, HasArena, Unpublished
  <2> QED BY <2>1, <2>2, <2>3, QuietStep
<1>6. CASE ForkParent(t)
  <2> USE <1>6 DEF ForkParent
  <2>1. TypeOK'
    BY <1>1, <1>2 DEF TypeOK, PCs, MallocPCs, ArenaPCs, ThreadInv, ListInv, HasArena
  <2>2. Quiet(t)
    BY <1>1, <1>2 DEF TypeOK, Quiet, OthersIdle, OthersHold, CountedBy, HoldsList, HasArena,
                      IInv, ThreadInv, ListInv, Unpublished
  <2>3. ThreadInv(t)'
    <3>1. OnList' = OnList
      BY <2>2, SameList DEF Quiet
    <3> QED BY <1>1, <1>2, <3>1 DEF ThreadInv, ListInv, TypeOK, HoldsList, HasArena, Unpublished
  <2> QED BY <2>1, <2>2, <2>3, QuietStep
<1>7. CASE ForkUnlockNext(t)
  <2> USE <1>7 DEF ForkUnlockNext
  <2>1. TypeOK'
    BY <1>1, <1>2 DEF TypeOK, PCs, MallocPCs, ArenaPCs, ThreadInv, ListInv, HasArena
  <2>2. Quiet(t)
    BY <1>1, <1>2 DEF TypeOK, Quiet, OthersIdle, OthersHold, CountedBy, HoldsList, HasArena,
                      IInv, ThreadInv, ListInv, Unpublished
  <2>3. ThreadInv(t)'
    <3>1. OnList' = OnList
      BY <2>2, SameList DEF Quiet
    <3> QED BY <1>1, <1>2, <3>1 DEF ThreadInv, ListInv, TypeOK, HoldsList, HasArena, Unpublished
  <2> QED BY <2>1, <2>2, <2>3, QuietStep
<1>8. CASE ForkUnlockList(t)
  <2> USE <1>8 DEF ForkUnlockList
  <2>1. TypeOK'
    BY <1>1, <1>2 DEF TypeOK, PCs, MallocPCs, ArenaPCs, ThreadInv, ListInv, HasArena
  <2>2. Quiet(t)
    BY <1>1, <1>2 DEF TypeOK, Quiet, OthersIdle, OthersHold, CountedBy, HoldsList, HasArena,
                      IInv, ThreadInv, ListInv, Unpublished
  <2>3. ThreadInv(t)'
    <3>1. OnList' = OnList
      BY <2>2, SameList DEF Quiet
    <3> QED BY <1>1, <1>2, <3>1 DEF ThreadInv, ListInv, TypeOK, HoldsList, HasArena, Unpublished
  <2> QED BY <2>1, <2>2, <2>3, QuietStep
<1> QED BY <1>3, <1>4, <1>5, <1>6, <1>7, <1>8

----------------------------------------------------------------------------
(* The steps that move a thread to another arena. *)

(* An arena that counts a thread has a positive counter.                    *)
LEMMA CountedPositive ==
  ASSUME IInv, NEW t \in Threads, NEW a \in OnList, a \in CountedBy(t)
  PROVE  attached[a] > 0
<1>1. attached[a] = Cardinality(AttachedTo(a))
  BY DEF IInv, AttachedIsCount, OnList
<1>2. t \in AttachedTo(a)
  BY DEF AttachedTo
<1>3. AttachedTo(a) # {} /\ IsFiniteSet(AttachedTo(a)) /\ Cardinality(AttachedTo(a)) \in Nat
  BY <1>2, AttachedFinite
<1> QED BY <1>1, <1>3, FS_EmptySet

(* attached_threads is no less than zero.                                   *)
LEMMA NotNegative ==
  ASSUME IInv, NEW a \in OnList
  PROVE  attached[a] >= 0
  BY AttachedFinite DEF IInv, AttachedIsCount, OnList

(* Every element of the free list is an arena of the list, without threads. *)
LEMMA OnFreeList ==
  ASSUME IInv, NEW i \in 1 .. Len(freeList)
  PROVE  freeList[i] \in Arenas /\ freeList[i] \in OnList /\ attached[freeList[i]] = 0
<1>1. freeList[i] \in Arenas
  BY DEF IInv, TypeOK
<1> QED BY <1>1, OnListIff DEF IInv, FreeInv, FreeListUnused

(* How FreeInv is proved after a step. *)
LEMMA FreeInvKept ==
  ASSUME Distinct(freeList'),
         \A i \in 1 .. Len(freeList') : freeList'[i] \in OnList' /\ attached'[freeList'[i]] = 0,
         \A a \in OnList' \ {Main} :
           attached'[a] = 0 => \E i \in 1 .. Len(freeList') : freeList'[i] = a
  PROVE  FreeInv'
<1>1. \A a \in Arenas : Published(a)' <=> a \in OnList'
  BY OnListIff
<1>2. OnList' \subseteq Arenas
  BY DEF OnList
<1> QED BY <1>1, <1>2 DEF FreeInv, FreeListUnused, NoArenaLost, Distinct

(* get_free_list takes the head and detaches the old arena. *)
LEMMA PopStep ==
  ASSUME IInv, NEW t \in Threads, PopFreeList(t), freeList # <<>>
  PROVE  IInv'
<1> DEFINE h == Head(freeList)
           own == threadArena[t]
<1> USE ArenaAssumption
<1>1. ThreadInv(t) /\ TypeOK /\ ListInv /\ Distinct(freeList)
  BY DEF IInv, FreeInv, FreeListUnused, Distinct
<1>2. freeList \in Seq(Arenas) /\ Len(freeList) \in Nat \ {0} /\ h = freeList[1]
  BY <1>1 DEF TypeOK
<1>3. h \in Arenas /\ h \in OnList /\ attached[h] = 0 /\ h # NoArena
  BY <1>2, OnFreeList
<1>4. own \in {Main, NoArena} /\ rep[t] = NoArena /\ pc[t] = "gfl_pop"
  BY <1>1 DEF PopFreeList, Goto, ThreadInv, Get2PCs, Unpublished
<1>5. /\ pc' = [pc EXCEPT ![t] = "gfl_mutex"] /\ res' = [res EXCEPT ![t] = h]
      /\ freeList' = Tail(freeList)
      /\ attached' = Detach([attached EXCEPT ![h] = 1], own)
      /\ UNCHANGED <<threadArena, rep, num, tried, mutex, listLock, next, nextToUse, limits, forks>>
      /\ freeListLock' = NoThread
  BY DEF PopFreeList, Goto, DropFreeListLock
<1>6. CountedBy(t) = {own} \ {NoArena} /\ CountedBy(t)' = {h}
  BY <1>1, <1>4, <1>5 DEF CountedBy, TypeOK, ExitPCs
<1>7. own # h /\ (own = Main => attached[own] > 0)
  BY <1>1, <1>3, <1>4, <1>6, CountedPositive DEF ListInv
<1>8. TypeOK'
  BY <1>1, <1>2, <1>3, <1>4, <1>5 DEF TypeOK, PCs, MallocPCs, Get2PCs, ArenaPCs, limits, Detach
<1>9. Moves(t)
  <2>1. OthersIdle(t) /\ OthersHold(t)
    BY <1>1, <1>5 DEF OthersIdle, OthersHold, TypeOK, IInv, ThreadInv, HoldsList
  <2>2. \A a \in Arenas :
          attached'[a] = attached[a] + (IF a \in OnList \cap CountedBy(t)' THEN 1 ELSE 0)
                                     - (IF a \in OnList \cap CountedBy(t) THEN 1 ELSE 0)
    BY <1>1, <1>3, <1>4, <1>5, <1>6, <1>7 DEF Detach, TypeOK, ListInv
  <2> QED BY <1>1, <1>4, <1>5, <2>1, <2>2 DEF Moves, TypeOK, Unpublished
<1>10. OnList' = OnList
  BY <1>9, SameList DEF Moves
<1>11. ThreadInv(t)'
  BY <1>1, <1>3, <1>4, <1>5, <1>10
     DEF ThreadInv, TypeOK, HoldsList, HasArena, Unpublished, Get2PCs, ReusedPCs, ExitPCs, FreePCs, ListInv
<1>12. FreeInv'
  <2>1. /\ Len(freeList') = Len(freeList) - 1
        /\ \A i \in 1 .. Len(freeList') : freeList'[i] = freeList[i + 1]
    BY <1>2, <1>5
  <2>2. Distinct(freeList')
    BY <1>1, <1>2, <2>1 DEF Distinct
  <2>3. ASSUME NEW i \in 1 .. Len(freeList')
        PROVE  freeList'[i] \in OnList /\ attached'[freeList'[i]] = 0
    <3>1. i + 1 \in 1 .. Len(freeList) /\ freeList[i + 1] # h
      BY <1>1, <1>2, <2>1 DEF Distinct
    <3>2. freeList[i + 1] \in OnList /\ freeList[i + 1] \in Arenas /\ attached[freeList[i + 1]] = 0
      BY <3>1, OnFreeList
    <3> QED BY <1>1, <1>4, <1>5, <1>7, <2>1, <3>1, <3>2 DEF Detach, TypeOK
  <2>4. ASSUME NEW a \in OnList \ {Main}, attached'[a] = 0
        PROVE  \E i \in 1 .. Len(freeList') : freeList'[i] = a
    <3>1. a \in Arenas /\ Published(a)
      BY DEF OnList
    <3>2. a # h /\ attached[a] = 0
      BY <1>1, <1>3, <1>4, <1>5, <1>7, <2>4, <3>1 DEF Detach, TypeOK
    <3>3. PICK k \in 1 .. Len(freeList) : freeList[k] = a
      BY <3>1, <3>2 DEF IInv, FreeInv, NoArenaLost
    <3>4. k - 1 \in 1 .. Len(freeList') /\ freeList'[k - 1] = a
      BY <1>2, <2>1, <3>2, <3>3
    <3> QED BY <3>4
  <2> QED BY <1>10, <2>2, <2>3, <2>4, FreeInvKept
<1> QED BY <1>8, <1>9, <1>11, <1>12, MoveStep

(* detach_arena takes one from the count of that arena only.                *)
LEMMA DetachSpec ==
  ASSUME NEW att \in [Arenas -> Int], NEW a \in Arenas \cup {NoArena}
  PROVE  /\ Detach(att, a) \in [Arenas -> Int]
         /\ \A b \in Arenas : Detach(att, a)[b] = att[b] - (IF b = a THEN 1 ELSE 0)
<1>1. CASE a = NoArena
  BY <1>1, ArenaAssumption DEF Detach
<1>2. CASE a # NoArena
  BY <1>2 DEF Detach
<1> QED BY <1>1, <1>2

(* _int_new_arena detaches the replaced arena. *)
LEMMA DetachStep ==
  ASSUME IInv, NEW t \in Threads, DetachReplaced(t)
  PROVE  IInv'
<1> DEFINE a == res[t]
           old == rep[t]
<1> USE ArenaAssumption
<1>1. ThreadInv(t) /\ TypeOK /\ ListInv /\ Distinct(freeList)
  BY DEF IInv, FreeInv, FreeListUnused, Distinct
<1>2. /\ pc[t] = "na_detach" /\ old \in {Main, NoArena}
      /\ threadArena[t] = a /\ a # Main /\ a \in OnList /\ a \in Arenas /\ a # NoArena
  BY <1>1, NextOnList DEF DetachReplaced, Goto, ThreadInv, HasArena
<1>3. /\ pc' = [pc EXCEPT ![t] = "na_mutex"] /\ rep' = [rep EXCEPT ![t] = NoArena]
      /\ attached' = Detach(attached, old)
      /\ UNCHANGED <<threadArena, res, num, tried, mutex, listLock, next, nextToUse, limits, forks,
                     freeList>>
      /\ freeListLock' = NoThread
  BY DEF DetachReplaced, Goto, DropFreeListLock
<1>4. CountedBy(t) = {a, old} \ {NoArena} /\ CountedBy(t)' = {a}
  BY <1>1, <1>2, <1>3 DEF CountedBy, TypeOK, ExitPCs
<1>5. old = Main => attached[Main] > 0
  BY <1>1, <1>2, <1>4, CountedPositive DEF ListInv
<1>6. TypeOK'
  BY <1>1, <1>2, <1>3 DEF TypeOK, PCs, MallocPCs, NewPCs, ArenaPCs, limits, Detach
<1>7. Moves(t)
  <2>1. OthersIdle(t) /\ OthersHold(t)
    BY <1>1, <1>3 DEF OthersIdle, OthersHold, TypeOK, IInv, ThreadInv, HoldsList
  <2>2. \A b \in Arenas :
          attached'[b] = attached[b] + (IF b \in OnList \cap CountedBy(t)' THEN 1 ELSE 0)
                                     - (IF b \in OnList \cap CountedBy(t) THEN 1 ELSE 0)
    <3>1. \A b \in Arenas : attached[b] \in Int
            /\ attached'[b] = attached[b] - (IF b = old THEN 1 ELSE 0)
      <4>1. old \in Arenas \cup {NoArena} /\ attached \in [Arenas -> Int]
        BY <1>1 DEF TypeOK
      <4> QED BY <1>3, <4>1, DetachSpec
    <3>2. /\ \A b \in OnList : b \in CountedBy(t)' <=> b = a
          /\ \A b \in Arenas : b \in CountedBy(t) <=> b \in {a, old}
          /\ \A b \in Arenas : b = old => b \in OnList /\ b # a
      BY <1>1, <1>2, <1>4 DEF ListInv
    <3> QED BY <1>4, <3>1, <3>2
  <2> QED BY <1>1, <1>2, <1>3, <2>1, <2>2 DEF Moves, TypeOK, Unpublished
<1>8. OnList' = OnList
  BY <1>7, SameList DEF Moves
<1>9. ThreadInv(t)'
  BY <1>1, <1>2, <1>3, <1>8
     DEF ThreadInv, TypeOK, HoldsList, HasArena, Unpublished, Get2PCs, ReusedPCs, ExitPCs, FreePCs, WalkPCs
<1>10. FreeInv'
  <2>1. Distinct(freeList')
    BY <1>1, <1>3
  <2>2. ASSUME NEW i \in 1 .. Len(freeList')
        PROVE  freeList'[i] \in OnList /\ attached'[freeList'[i]] = 0
    <3>1. freeList[i] \in OnList /\ freeList[i] \in Arenas /\ attached[freeList[i]] = 0
      BY <1>3, OnFreeList
    <3> QED BY <1>1, <1>2, <1>3, <1>5, <3>1 DEF Detach, TypeOK
  <2>3. ASSUME NEW b \in OnList \ {Main}, attached'[b] = 0
        PROVE  \E i \in 1 .. Len(freeList') : freeList'[i] = b
    <3>1. b \in Arenas /\ Published(b)
      BY DEF OnList
    <3>2. attached[b] = 0
      BY <1>1, <1>2, <1>3, <2>3, <3>1 DEF Detach, TypeOK
    <3> QED BY <1>3, <3>1, <3>2 DEF IInv, FreeInv, NoArenaLost
  <2> QED BY <1>8, <2>1, <2>2, <2>3, FreeInvKept
<1> QED BY <1>6, <1>7, <1>9, <1>10, MoveStep

(* reused_arena detaches the old arena, attaches the new and takes it off    *)
(* the free list.                                                            *)
LEMMA AttachStep ==
  ASSUME IInv, NEW t \in Threads, AttachReused(t)
  PROVE  IInv'
<1> DEFINE a == res[t]
           own == threadArena[t]
<1> USE ArenaAssumption
<1>1. ThreadInv(t) /\ TypeOK /\ ListInv /\ Distinct(freeList)
  BY DEF IInv, FreeInv, FreeListUnused, Distinct
<1>2. /\ pc[t] = "ra_attach" /\ own \in {Main, NoArena} /\ rep[t] = NoArena
      /\ a \in OnList /\ a \in Arenas /\ a # NoArena
  BY <1>1, NextOnList DEF AttachReused, Goto, ThreadInv, HasArena, ReusedPCs, Unpublished
<1>3. /\ pc' = [pc EXCEPT ![t] = "ra_set"]
      /\ freeList' = RemoveFirst(freeList, a)
      /\ attached' = [Detach(attached, own) EXCEPT ![a] = @ + 1]
      /\ UNCHANGED <<threadArena, res, rep, num, tried, mutex, listLock, next, nextToUse, limits,
                     forks>>
      /\ freeListLock' = NoThread
  BY DEF AttachReused, RemoveFromFreeList, Goto, DropFreeListLock, locals
<1>4. CountedBy(t) = {own} \ {NoArena} /\ CountedBy(t)' = {a}
  BY <1>1, <1>2, <1>3 DEF CountedBy, TypeOK, ExitPCs
<1>5. own = Main => attached[Main] > 0
  BY <1>1, <1>2, <1>4, CountedPositive DEF ListInv
<1>6. /\ freeList' \in Seq(Arenas) /\ Distinct(freeList')
      /\ \A i \in 1 .. Len(freeList') :
           freeList'[i] # a /\ \E k \in 1 .. Len(freeList) : freeList'[i] = freeList[k]
      /\ \A k \in 1 .. Len(freeList) :
           freeList[k] # a => \E i \in 1 .. Len(freeList') : freeList'[i] = freeList[k]
  <2>1. freeList \in Seq(Arenas)
    BY <1>1 DEF TypeOK
  <2> QED BY <1>1, <1>3, <2>1, RemoveFirstSpec
<1>7. TypeOK'
  BY <1>1, <1>2, <1>3, <1>6 DEF TypeOK, PCs, MallocPCs, ReusedPCs, ArenaPCs, NewPCs, limits, Detach,
     FreePCs, ExitPCs
<1>8. \A b \in Arenas :
        attached'[b] = attached[b] + (IF b = a THEN 1 ELSE 0) - (IF b = own THEN 1 ELSE 0)
  <2>1. own \in Arenas \cup {NoArena} /\ attached \in [Arenas -> Int]
    BY <1>1 DEF TypeOK
  <2> QED BY <1>2, <1>3, <2>1, DetachSpec
<1>9. Moves(t)
  <2>1. OthersIdle(t) /\ OthersHold(t)
    BY <1>1, <1>3 DEF OthersIdle, OthersHold, TypeOK, IInv, ThreadInv, HoldsList
  <2>2. \A b \in Arenas :
          attached'[b] = attached[b] + (IF b \in OnList \cap CountedBy(t)' THEN 1 ELSE 0)
                                     - (IF b \in OnList \cap CountedBy(t) THEN 1 ELSE 0)
    BY <1>1, <1>2, <1>4, <1>8 DEF ListInv
  <2> QED BY <1>1, <1>2, <1>3, <2>1, <2>2 DEF Moves, TypeOK, Unpublished
<1>10. OnList' = OnList
  BY <1>9, SameList DEF Moves
<1>11. ThreadInv(t)'
  BY <1>1, <1>2, <1>3, <1>10
     DEF ThreadInv, TypeOK, HoldsList, HasArena, Unpublished, Get2PCs, ReusedPCs, ExitPCs, FreePCs, WalkPCs
<1>12. FreeInv'
  <2>1. ASSUME NEW i \in 1 .. Len(freeList')
        PROVE  freeList'[i] \in OnList /\ attached'[freeList'[i]] = 0
    <3>1. PICK k \in 1 .. Len(freeList) : freeList'[i] = freeList[k] /\ freeList'[i] # a
      BY <1>6
    <3>2. freeList[k] \in OnList /\ freeList[k] \in Arenas /\ attached[freeList[k]] = 0
      BY OnFreeList
    <3>3. freeList[k] # own
      BY <1>2, <1>5, <3>2
    <3> QED BY <1>8, <3>1, <3>2, <3>3
  <2>2. ASSUME NEW b \in OnList \ {Main}, attached'[b] = 0
        PROVE  \E i \in 1 .. Len(freeList') : freeList'[i] = b
    <3>1. b \in Arenas /\ Published(b) /\ b # NoArena
      BY DEF OnList
    <3>2. attached[b] \in Int /\ attached[b] >= 0
      BY <1>1, <3>1, NotNegative DEF TypeOK
    <3>3. b # a /\ attached[b] = 0
      BY <1>2, <1>8, <2>2, <3>1, <3>2
    <3>4. PICK k \in 1 .. Len(freeList) : freeList[k] = b
      BY <3>1, <3>3 DEF IInv, FreeInv, NoArenaLost
    <3> QED BY <1>6, <3>3, <3>4
  <2> QED BY <1>6, <1>10, <2>1, <2>2, FreeInvKept
<1> QED BY <1>7, <1>9, <1>11, <1>12, MoveStep

(* __malloc_arena_thread_freeres: the last thread frees the arena. *)
LEMMA ExitStep ==
  ASSUME IInv, NEW t \in Threads, ExitDetach(t)
  PROVE  IInv'
<1> DEFINE a == res[t]
<1> USE ArenaAssumption
<1>1. ThreadInv(t) /\ TypeOK /\ ListInv /\ Distinct(freeList) /\ freeList \in Seq(Arenas)
  BY DEF IInv, FreeInv, FreeListUnused, Distinct, TypeOK
<1>2. /\ pc[t] = "ex_detach" /\ threadArena[t] = NoArena /\ rep[t] = NoArena
      /\ a \in OnList /\ a \in Arenas /\ a # NoArena
  BY <1>1, NextOnList DEF ExitDetach, Goto, ThreadInv, HasArena, ExitPCs, Unpublished
<1>3. /\ pc' = [pc EXCEPT ![t] = "none"] /\ res' = [res EXCEPT ![t] = NoArena]
      /\ freeList' = IF attached'[a] = 0 THEN <<a>> \o freeList ELSE freeList
      /\ attached' = [attached EXCEPT ![a] = @ - 1]
      /\ UNCHANGED <<threadArena, rep, num, tried, mutex, listLock, next, nextToUse, limits, forks>>
      /\ freeListLock' = NoThread
  BY DEF ExitDetach, Goto, DropFreeListLock
<1>4. CountedBy(t) = {a} /\ CountedBy(t)' = {}
  BY <1>1, <1>2, <1>3 DEF CountedBy, TypeOK, ExitPCs
<1>5. attached[a] > 0
  BY <1>2, <1>4, CountedPositive
<1>6. \A k \in 1 .. Len(freeList) : freeList[k] # a
  BY <1>5, OnFreeList
<1>7. TypeOK'
  BY <1>1, <1>2, <1>3 DEF TypeOK, PCs, ArenaPCs, NewPCs, FreePCs, ExitPCs, WalkPCs, limits
<1>8. \A b \in Arenas : attached'[b] = attached[b] - (IF b = a THEN 1 ELSE 0)
  BY <1>1, <1>2, <1>3 DEF TypeOK
<1>9. Moves(t)
  <2>1. OthersIdle(t) /\ OthersHold(t)
    BY <1>1, <1>3 DEF OthersIdle, OthersHold, TypeOK, IInv, ThreadInv, HoldsList
  <2>2. \A b \in Arenas :
          attached'[b] = attached[b] + (IF b \in OnList \cap CountedBy(t)' THEN 1 ELSE 0)
                                     - (IF b \in OnList \cap CountedBy(t) THEN 1 ELSE 0)
    BY <1>1, <1>2, <1>4, <1>8 DEF TypeOK
  <2> QED BY <1>1, <1>2, <1>3, <2>1, <2>2 DEF Moves, TypeOK, Unpublished
<1>10. OnList' = OnList
  BY <1>9, SameList DEF Moves
<1>11. ThreadInv(t)'
  BY <1>1, <1>2, <1>3, <1>10
     DEF ThreadInv, TypeOK, HoldsList, HasArena, Unpublished, Get2PCs, ReusedPCs, ExitPCs, FreePCs, WalkPCs
<1>12. ASSUME NEW b \in OnList \ {Main}, b # a, attached'[b] = 0
       PROVE  b \in Arenas /\ \E k \in 1 .. Len(freeList) : freeList[k] = b
  <2>1. b \in Arenas /\ Published(b)
    BY DEF OnList
  <2>2. attached[b] = 0
    BY <1>1, <1>8, <1>12, <2>1 DEF TypeOK
  <2> QED BY <2>1, <2>2 DEF IInv, FreeInv, NoArenaLost
<1>13. FreeInv'
  <2>1. CASE attached'[a] # 0
    <3>1. ASSUME NEW i \in 1 .. Len(freeList)
          PROVE  freeList[i] \in OnList /\ attached'[freeList[i]] = 0
      BY <1>6, <1>8, OnFreeList
    <3> QED BY <1>1, <1>3, <1>10, <1>12, <2>1, <3>1, FreeInvKept
  <2>2. CASE attached'[a] = 0
    <3>1. /\ Len(freeList') = Len(freeList) + 1 /\ freeList'[1] = a
          /\ \A i \in 1 .. Len(freeList) : freeList'[i + 1] = freeList[i]
          /\ \A i \in 2 .. Len(freeList') : freeList'[i] = freeList[i - 1]
      BY <1>1, <1>2, <1>3, <2>2
    <3>2. Distinct(freeList')
      BY <1>1, <1>6, <3>1 DEF Distinct
    <3>3. ASSUME NEW i \in 1 .. Len(freeList')
          PROVE  freeList'[i] \in OnList /\ attached'[freeList'[i]] = 0
      <4>1. CASE i = 1
        BY <1>2, <2>2, <3>1, <4>1
      <4>2. CASE i # 1
        <5>1. i - 1 \in 1 .. Len(freeList) /\ freeList'[i] = freeList[i - 1]
          BY <1>1, <3>1, <4>2
        <5>2. freeList[i - 1] \in OnList /\ freeList[i - 1] \in Arenas /\ attached[freeList[i - 1]] = 0
          BY <5>1, OnFreeList
        <5> QED BY <1>6, <1>8, <5>1, <5>2
      <4> QED BY <4>1, <4>2
    <3>4. ASSUME NEW b \in OnList \ {Main}, attached'[b] = 0
          PROVE  \E i \in 1 .. Len(freeList') : freeList'[i] = b
      <4>1. CASE b = a
        BY <1>1, <3>1, <4>1
      <4>2. CASE b # a
        <5>1. PICK k \in 1 .. Len(freeList) : freeList[k] = b
          BY <1>12, <3>4, <4>2
        <5>2. k + 1 \in 1 .. Len(freeList') /\ freeList'[k + 1] = b
          BY <1>1, <3>1, <5>1
        <5> QED BY <5>2
      <4> QED BY <4>1, <4>2
    <3> QED BY <1>10, <3>2, <3>3, <3>4, FreeInvKept
  <2> QED BY <2>1, <2>2
<1> QED BY <1>7, <1>9, <1>11, <1>13, MoveStep

----------------------------------------------------------------------------
(* The steps that bring a new arena onto the list. *)

LEMMA NewHeapStep ==
  ASSUME IInv, NEW t \in Threads, NewHeap(t)
  PROVE  IInv'
<1> DEFINE own == threadArena[t]
<1> USE ArenaAssumption
<1>1. ThreadInv(t) /\ TypeOK /\ ListInv /\ Distinct(freeList)
  BY DEF IInv, FreeInv, FreeListUnused, Distinct
<1>2. PICK a \in Arenas :
        /\ Unborn(a)
        /\ attached' = [attached EXCEPT ![a] = 1]
        /\ rep' = [rep EXCEPT ![t] = own]
        /\ threadArena' = [threadArena EXCEPT ![t] = a]
        /\ res' = [res EXCEPT ![t] = a]
  BY DEF NewHeap
<1>3. /\ pc[t] = "new_heap" /\ pc' = [pc EXCEPT ![t] = "na_list"]
      /\ UNCHANGED <<num, tried, mutex, freeListLock, listLock, freeList, next, limits, nextToUse,
                     forks>>
  BY DEF NewHeap, Goto, locks
<1>4. a # Main /\ next[a] = NoArena /\ attached[a] = 0 /\ a \notin OnList /\ a # NoArena
  BY <1>2 DEF Unborn, OnList, Published
<1>5. own \in {Main, NoArena} /\ rep[t] = NoArena
  BY <1>1, <1>3 DEF ThreadInv, Unpublished
<1>6. TypeOK'
  BY <1>1, <1>2, <1>3, <1>4 DEF TypeOK, PCs, MallocPCs, NewPCs, ArenaPCs, limits
<1>7. OthersIdle(t) /\ OthersHold(t)
  BY <1>1, <1>2, <1>3 DEF OthersIdle, OthersHold, TypeOK, IInv, ThreadInv
<1>8. OnList' = OnList
  BY <1>1, <1>3, <1>7, SameList DEF TypeOK
<1>9. \A u \in Threads : pc[u] \in Unpublished =>
        res[u] \in Arenas /\ res[u] \notin OnList /\ attached[res[u]] = 1 /\ res[u] # a
  BY <1>4 DEF IInv, ThreadInv
<1>10. \A b \in OnList : b \in Arenas /\ b # a /\ attached'[b] = attached[b]
  BY <1>1, <1>2, <1>4 DEF TypeOK, OnList
<1>11. ASSUME NEW u \in Threads PROVE ThreadInv(u)'
  <2>1. CASE u = t
    BY <1>1, <1>2, <1>3, <1>4, <1>5, <1>8, <2>1
       DEF ThreadInv, TypeOK, HoldsList, HasArena, Unpublished, Get2PCs, ReusedPCs, ExitPCs, FreePCs, WalkPCs
  <2>2. CASE u # t
    <3>1. pc[u] \in Unpublished => attached'[res[u]] = 1
      BY <1>1, <1>2, <1>9 DEF TypeOK
    <3> QED BY <1>3, <1>7, <1>8, <1>9, <2>2, <3>1, OthersKeep
  <2> QED BY <2>1, <2>2
<1>12. ListInv'
  BY <1>1, <1>2, <1>3, <1>7, <1>8, <1>9 DEF ListInv, OthersIdle, TypeOK
<1>13. AttachedIsCount'
  <2>1. CountedBy(t) = {own} \ {NoArena} /\ CountedBy(t)' = {a, own} \ {NoArena}
    BY <1>1, <1>2, <1>3, <1>5 DEF CountedBy, TypeOK, ExitPCs
  <2>2. ASSUME NEW b \in OnList PROVE attached'[b] = Cardinality(AttachedTo(b))'
    <3>1. b \in CountedBy(t) <=> b \in CountedBy(t)'
      BY <1>10, <2>1
    <3>2. Cardinality(AttachedTo(b))' = Cardinality(AttachedTo(b))
      BY <1>7, <3>1, CountStep, AttachedFinite
    <3> QED BY <1>10, <3>2 DEF IInv, AttachedIsCount, OnList
  <2> QED BY <1>8, <2>2, OnListIff DEF AttachedIsCount
<1>14. FreeInv'
  <2>1. ASSUME NEW i \in 1 .. Len(freeList')
        PROVE  freeList'[i] \in OnList /\ attached'[freeList'[i]] = 0
    BY <1>3, <1>10, OnFreeList
  <2>2. ASSUME NEW b \in OnList \ {Main}, attached'[b] = 0
        PROVE  \E i \in 1 .. Len(freeList') : freeList'[i] = b
    BY <1>3, <1>10, <2>2, OnListIff DEF IInv, FreeInv, NoArenaLost
  <2> QED BY <1>1, <1>3, <1>8, <2>1, <2>2, FreeInvKept
<1> QED BY <1>6, <1>11, <1>12, <1>13, <1>14 DEF IInv

(* A new arena gets its successor.                                          *)
LEMMA LinkStep ==
  ASSUME IInv, NEW t \in Threads, LinkArena(t)
  PROVE  IInv'
<1> DEFINE a == res[t]
<1> USE ArenaAssumption
<1>1. ThreadInv(t) /\ TypeOK /\ ListInv /\ Distinct(freeList)
  BY DEF IInv, FreeInv, FreeListUnused, Distinct
<1>2. /\ pc[t] = "na_link" /\ pc' = [pc EXCEPT ![t] = "na_publish"]
      /\ next' = [next EXCEPT ![a] = next[Main]]
      /\ UNCHANGED <<locals, threadArena, res, rep, num, tried, mutex, freeListLock, listLock,
                     freeList, attached, limits, nextToUse, forks>>
  BY DEF LinkArena, Goto, locals, locks
<1>3. /\ a \in Arenas /\ a \notin OnList /\ attached[a] = 1 /\ next[a] = NoArena
      /\ threadArena[t] = a /\ listLock = t
  BY <1>1, <1>2 DEF ThreadInv, Unpublished, HoldsList
<1>4. Main \in OnList /\ next[Main] \in OnList /\ next[Main] \in Arenas /\ next[Main] # NoArena
  BY <1>1, NextOnList DEF ListInv
<1>5. TypeOK'
  BY <1>1, <1>2, <1>4 DEF TypeOK, PCs, MallocPCs, NewPCs, ArenaPCs, limits
<1>6. OthersIdle(t) /\ OthersHold(t)
  BY <1>1, <1>2 DEF OthersIdle, OthersHold, TypeOK, IInv, ThreadInv
<1>7. OnList' = OnList
  <2>1. ASSUME NEW b \in Arenas PROVE Published(b)' <=> Published(b)
    <3>1. CASE b = a
      BY <1>1, <1>2, <1>3, <3>1 DEF Published, TypeOK
    <3>2. CASE b # a
      BY <1>1, <1>2, <3>2 DEF Published, TypeOK
    <3> QED BY <3>1, <3>2
  <2> QED BY <2>1 DEF OnList
<1>8. \A u \in Threads \ {t} : pc[u] \in Unpublished =>
        res[u] \in Arenas /\ res[u] \notin OnList /\ attached[res[u]] = 1 /\ res[u] # a
  BY <1>1, <1>2 DEF IInv, ThreadInv, ListInv, Unpublished
<1>9. ASSUME NEW u \in Threads PROVE ThreadInv(u)'
  <2>1. CASE u = t
    BY <1>1, <1>2, <1>3, <1>4, <1>7, <2>1
       DEF ThreadInv, TypeOK, HoldsList, HasArena, Unpublished, Get2PCs, ReusedPCs, ExitPCs, FreePCs, WalkPCs
  <2>2. CASE u # t
    <3>1. pc[u] \in Unpublished => next'[res[u]] = next[res[u]]
      BY <1>1, <1>2, <1>8, <2>2 DEF TypeOK
    <3> QED BY <1>2, <1>6, <1>7, <1>8, <2>2, <3>1, OthersKeep
  <2> QED BY <2>1, <2>2
<1>10. ListInv'
  <2>1. \A b \in Arenas : next'[b] # NoArena => next'[b] \in OnList
    BY <1>1, <1>2, <1>3, <1>4 DEF ListInv, TypeOK
  <2> QED BY <1>1, <1>2, <1>7, <2>1 DEF ListInv, Unpublished, TypeOK
<1>11. AttachedIsCount'
  <2>1. CountedBy(t) = CountedBy(t)'
    BY <1>1, <1>2 DEF CountedBy, TypeOK, ExitPCs
  <2>2. ASSUME NEW b \in OnList PROVE attached'[b] = Cardinality(AttachedTo(b))'
    <3>1. Cardinality(AttachedTo(b))' = Cardinality(AttachedTo(b))
      BY <1>6, <2>1, CountStep, AttachedFinite
    <3> QED BY <1>2, <3>1 DEF IInv, AttachedIsCount, OnList
  <2> QED BY <1>7, <2>2, OnListIff DEF AttachedIsCount
<1>12. FreeInv'
  <2>1. ASSUME NEW i \in 1 .. Len(freeList')
        PROVE  freeList'[i] \in OnList /\ attached'[freeList'[i]] = 0
    BY <1>2, OnFreeList
  <2>2. ASSUME NEW b \in OnList \ {Main}, attached'[b] = 0
        PROVE  \E i \in 1 .. Len(freeList') : freeList'[i] = b
    BY <1>2, <2>2 DEF OnList, IInv, FreeInv, NoArenaLost
  <2> QED BY <1>1, <1>2, <1>7, <2>1, <2>2, FreeInvKept
<1> QED BY <1>5, <1>9, <1>10, <1>11, <1>12 DEF IInv

(* A thread is counted by arenas of the list and by the one it creates.     *)
LEMMA CountedWhere ==
  ASSUME IInv, NEW u \in Threads, NEW a \in CountedBy(u), a \notin OnList
  PROVE  pc[u] \in Unpublished /\ a = res[u]
<1>1. ThreadInv(u) /\ Main \in OnList
  BY DEF IInv, ListInv
<1> QED BY <1>1 DEF ThreadInv, CountedBy, HasArena, ReusedPCs, ExitPCs

(* A new arena becomes reachable.                                           *)
LEMMA PublishStep ==
  ASSUME IInv, NEW t \in Threads, PublishArena(t)
  PROVE  IInv'
<1> DEFINE a == res[t]
<1> USE ArenaAssumption
<1>1. ThreadInv(t) /\ TypeOK /\ ListInv /\ Distinct(freeList)
  BY DEF IInv, FreeInv, FreeListUnused, Distinct
<1>2. /\ pc[t] = "na_publish" /\ pc' = [pc EXCEPT ![t] = "na_lock"]
      /\ next' = [next EXCEPT ![Main] = a]
      /\ listLock' = NoThread
      /\ UNCHANGED <<threadArena, res, rep, num, tried, mutex, freeListLock,
                     freeList, attached, limits, nextToUse, forks>>
  BY DEF PublishArena, Goto, locals
<1>3. /\ a \in Arenas /\ a \notin OnList /\ attached[a] = 1 /\ next[a] # NoArena /\ a # NoArena
      /\ threadArena[t] = a /\ listLock = t
  BY <1>1, <1>2 DEF ThreadInv, Unpublished, HoldsList
<1>4. Main \in OnList /\ Main # a
  BY <1>1, <1>3 DEF ListInv
<1>5. TypeOK'
  BY <1>1, <1>2, <1>3 DEF TypeOK, PCs, MallocPCs, NewPCs, ArenaPCs, limits
<1>6. \A u \in Threads \ {t} : pc[u] \notin HoldsList
  BY <1>3 DEF IInv, ThreadInv
<1>7. OthersIdle(t) /\ OthersHold(t)
  BY <1>1, <1>2, <1>6 DEF OthersIdle, OthersHold, TypeOK
<1>8. OnList' = OnList \cup {a}
  <2>1. ASSUME NEW b \in Arenas PROVE Published(b)' <=> Published(b) \/ b = a
    <3>1. \A u \in Threads : pc'[u] # "na_publish"
      BY <1>1, <1>2, <1>6 DEF HoldsList, TypeOK
    <3>2. \A u \in Threads : pc[u] = "na_publish" => u = t
      BY <1>6 DEF HoldsList
    <3>3. Published(b)' <=> next'[b] # NoArena
      BY <3>1 DEF Published
    <3>4. Published(b) <=> next[b] # NoArena /\ b # a
      BY <1>2, <3>2 DEF Published
    <3> QED BY <1>1, <1>2, <1>3, <1>4, <3>3, <3>4, OnListIff DEF TypeOK
  <2> QED BY <1>3, <2>1 DEF OnList
<1>9. \A u \in Threads \ {t} : pc[u] \in Unpublished =>
        res[u] \in Arenas /\ res[u] \notin OnList /\ attached[res[u]] = 1 /\ res[u] # a
  BY <1>1, <1>2 DEF IInv, ThreadInv, ListInv, Unpublished
<1>10. ASSUME NEW u \in Threads PROVE ThreadInv(u)'
  <2>1. CASE u = t
    BY <1>1, <1>2, <1>3, <1>4, <1>8, <2>1
       DEF ThreadInv, TypeOK, HoldsList, HasArena, Unpublished, Get2PCs, ReusedPCs, ExitPCs, FreePCs, WalkPCs
  <2>2. CASE u # t
    <3>1. pc[u] \in Unpublished => next'[res[u]] = next[res[u]]
      BY <1>1, <1>2, <1>4, <1>9, <2>2 DEF TypeOK
    <3> QED BY <1>2, <1>7, <1>8, <1>9, <2>2, <3>1, OthersKeep
  <2> QED BY <2>1, <2>2
<1>11. ListInv'
  <2>1. \A b \in Arenas : next'[b] # NoArena => next'[b] \in OnList'
    BY <1>1, <1>2, <1>8 DEF ListInv, TypeOK
  <2>2. \A u, v \in Threads :
          pc'[u] \in Unpublished /\ pc'[v] \in Unpublished /\ res'[u] = res'[v] => u = v
    BY <1>1, <1>2 DEF ListInv, Unpublished, TypeOK
  <2> QED BY <1>1, <1>2, <1>8, <2>1, <2>2 DEF ListInv
<1>12. AttachedIsCount'
  <2>1. CountedBy(t) = CountedBy(t)' /\ a \in CountedBy(t)
    BY <1>1, <1>2, <1>3 DEF CountedBy, TypeOK, ExitPCs
  <2>2. \A b : Cardinality(AttachedTo(b))' = Cardinality(AttachedTo(b))
    BY <1>7, <2>1, CountStep, AttachedFinite
  <2>3. AttachedTo(a) = {t}
    <3>1. \A u \in Threads \ {t} : a \notin CountedBy(u)
      BY <1>3, <1>9, CountedWhere
    <3> QED BY <2>1, <3>1 DEF AttachedTo
  <2>4. Cardinality(AttachedTo(a)) = 1
    BY <2>3, FS_Singleton
  <2>5. ASSUME NEW b \in OnList \cup {a} PROVE attached'[b] = Cardinality(AttachedTo(b))'
    BY <1>2, <1>3, <2>2, <2>4 DEF IInv, AttachedIsCount, OnList
  <2> QED BY <1>8, <2>5, OnListIff DEF AttachedIsCount
<1>13. FreeInv'
  <2>1. ASSUME NEW i \in 1 .. Len(freeList')
        PROVE  freeList'[i] \in OnList' /\ attached'[freeList'[i]] = 0
    BY <1>2, <1>8, OnFreeList
  <2>2. ASSUME NEW b \in OnList' \ {Main}, attached'[b] = 0
        PROVE  \E i \in 1 .. Len(freeList') : freeList'[i] = b
    <3>1. b \in OnList
      BY <1>2, <1>3, <1>8, <2>2
    <3> QED BY <1>2, <2>2, <3>1 DEF OnList, IInv, FreeInv, NoArenaLost
  <2> QED BY <1>1, <1>2, <2>1, <2>2, FreeInvKept
<1> QED BY <1>5, <1>10, <1>11, <1>12, <1>13 DEF IInv

----------------------------------------------------------------------------
(* fork in the child: one thread is left, and every counter and the free    *)
(* list are rebuilt from the list of arenas.                                *)

LEMMA ForkChildStep ==
  ASSUME IInv, NEW t \in Threads, ForkChild(t)
  PROVE  IInv'
<1> DEFINE own == threadArena[t]
<1> USE ArenaAssumption
<1>1. ThreadInv(t) /\ TypeOK /\ ListInv
  BY DEF IInv
<1>2. /\ pc[t] = "fk_fork" /\ forks' = forks + 1
      /\ pc' = [u \in Threads |-> IF u = t THEN "idle" ELSE "none"]
      /\ threadArena' = [u \in Threads |-> IF u = t THEN own ELSE NoArena]
      /\ res' = [u \in Threads |-> NoArena] /\ rep' = [u \in Threads |-> NoArena]
      /\ num' = [u \in Threads |-> 0] /\ tried' = [u \in Threads |-> FALSE]
      /\ mutex' = [a \in Arenas |-> IF a \in OnList THEN NoThread ELSE mutex[a]]
      /\ freeListLock' = NoThread /\ listLock' = NoThread
      /\ attached' = [a \in Arenas |-> IF a = own THEN 1 ELSE IF a \in OnList THEN 0 ELSE attached[a]]
      /\ freeList' \in SetToSeqs(OnList \ {own})
      /\ UNCHANGED <<next, limits, nextToUse>>
  BY DEF ForkChild, ChildAttached, ChildUnused
<1>3. OnList \subseteq Arenas /\ own \in OnList \cup {NoArena} /\ NoArena \notin OnList
  BY <1>1, <1>2 DEF OnList, ThreadInv, Unpublished
<1>4. /\ freeList' \in Seq(OnList \ {own}) /\ Distinct(freeList')
      /\ \A a \in OnList \ {own} : \E i \in 1 .. Len(freeList') : freeList'[i] = a
  <2>1. IsFiniteSet(OnList \ {own})
    BY <1>3, FS_Subset
  <2>2. \A fl \in SetToSeqs(OnList \ {own}) :
          /\ fl \in Seq(OnList \ {own}) /\ Distinct(fl)
          /\ \A a \in OnList \ {own} : \E i \in 1 .. Len(fl) : fl[i] = a
    BY <2>1, SetToSeqsSpec
  <2> QED BY <1>2, <2>2
<1>5. freeList' \in Seq(Arenas)
  BY <1>3, <1>4
<1>6. TypeOK'
  BY <1>1, <1>2, <1>3, <1>5
     DEF TypeOK, PCs, ArenaPCs, NewPCs, FreePCs, ExitPCs, WalkPCs, limits
<1>7. OnList' = OnList
  <2>1. listLock = t
    BY <1>1, <1>2 DEF ThreadInv, HoldsList
  <2>2. \A u \in Threads : pc[u] # "na_publish" /\ pc'[u] # "na_publish"
    BY <1>2, <2>1 DEF IInv, ThreadInv, HoldsList
  <2> QED BY <1>2, <2>2 DEF OnList, Published
<1>8. ASSUME NEW u \in Threads PROVE ThreadInv(u)'
  BY <1>2, <1>3, <1>7
     DEF ThreadInv, HoldsList, HasArena, Unpublished, Get2PCs, ReusedPCs, ExitPCs, FreePCs, WalkPCs
<1>9. ListInv'
  BY <1>1, <1>2, <1>7 DEF ListInv, Unpublished
<1>10. \A a \in OnList : attached'[a] = IF a = own THEN 1 ELSE 0
  BY <1>2, <1>3
<1>11. AttachedIsCount'
  <2>1. \A u \in Threads : CountedBy(u)' = IF u = t THEN {own} \ {NoArena} ELSE {}
    BY <1>2 DEF CountedBy, ExitPCs
  <2>2. ASSUME NEW a \in OnList PROVE attached'[a] = Cardinality(AttachedTo(a))'
    <3>1. CASE a = own
      <4>1. AttachedTo(a)' = {t}
        BY <1>3, <2>1, <3>1 DEF AttachedTo
      <4> QED BY <1>10, <3>1, <4>1, FS_Singleton
    <3>2. CASE a # own
      <4>1. AttachedTo(a)' = {}
        BY <1>3, <2>1, <3>2 DEF AttachedTo
      <4> QED BY <1>10, <3>2, <4>1, FS_EmptySet
    <3> QED BY <3>1, <3>2
  <2> QED BY <1>7, <2>2, OnListIff DEF AttachedIsCount
<1>12. FreeInv'
  <2>1. ASSUME NEW i \in 1 .. Len(freeList')
        PROVE  freeList'[i] \in OnList' /\ attached'[freeList'[i]] = 0
    <3>1. freeList'[i] \in OnList \ {own}
      BY <1>4
    <3> QED BY <1>7, <1>10, <3>1
  <2>2. ASSUME NEW a \in OnList' \ {Main}, attached'[a] = 0
        PROVE  \E i \in 1 .. Len(freeList') : freeList'[i] = a
    BY <1>4, <1>7, <1>10, <2>2
  <2> QED BY <1>4, <2>1, <2>2, FreeInvKept
<1> QED BY <1>6, <1>8, <1>9, <1>11, <1>12 DEF IInv

----------------------------------------------------------------------------
(* The invariant of the specification. *)

LEMMA InitInv == Init => IInv
<1> SUFFICES ASSUME Init PROVE IInv
  OBVIOUS
<1> USE ArenaAssumption
<1>1. OnList = {Main}
  BY DEF Init, OnList, Published
<1>2. TypeOK
  BY DEF Init, TypeOK, PCs, ArenaPCs, NewPCs, FreePCs, ExitPCs, WalkPCs
<1>3. ASSUME NEW t \in Threads PROVE ThreadInv(t)
  BY <1>1 DEF Init, ThreadInv, HoldsList, HasArena, Unpublished, Get2PCs, ReusedPCs, ExitPCs, FreePCs, WalkPCs
<1>4. ListInv
  BY <1>1 DEF Init, ListInv, Unpublished
<1>5. AttachedIsCount
  <2>1. AttachedTo(Main) = {InitThread}
    BY DEF Init, AttachedTo, CountedBy, ExitPCs
  <2>2. attached[Main] = Cardinality(AttachedTo(Main))
    BY <2>1, FS_Singleton DEF Init
  <2> QED BY <1>1, <2>2, OnListIff DEF AttachedIsCount
<1>6. FreeInv
  BY <1>1, OnListIff DEF Init, FreeInv, FreeListUnused, NoArenaLost
<1> QED BY <1>2, <1>3, <1>4, <1>5, <1>6 DEF IInv

(* IInv is inductive.                                                       *)
LEMMA StepInv == IInv /\ [Next]_vars => IInv'
<1> SUFFICES ASSUME IInv, [Next]_vars PROVE IInv'
  OBVIOUS
<1>1. ASSUME NEW t \in Threads, Step(t) PROVE IInv'
  <2>1. CASE Malloc(t)
    BY <2>1, MallocQuiet DEF Malloc
  <2>2. CASE GetFreeList(t)
    <3>1. CASE PopFreeList(t) /\ freeList # <<>>
      BY <3>1, PopStep
    <3>2. CASE ~ (PopFreeList(t) /\ freeList # <<>>)
      BY <2>2, <3>2, FreeListQuiet DEF GetFreeList
    <3> QED BY <3>1, <3>2
  <2>3. CASE ArenaGet2(t)
    BY <2>3, ArenaGet2Quiet DEF ArenaGet2
  <2>4. CASE NewArena(t)
    BY <2>4, NewArenaQuiet, NewHeapStep, LinkStep, PublishStep, DetachStep DEF NewArena
  <2>5. CASE ReusedArena(t)
    BY <2>5, ReusedArenaQuiet, AttachStep DEF ReusedArena
  <2>6. CASE FreeCall(t) \/ ThreadFreeres(t) \/ Spawn(t)
    BY <2>6, FreeQuiet, ExitStep DEF FreeCall, ThreadFreeres
  <2>7. CASE Fork(t)
    BY <2>7, ForkQuiet, ForkChildStep DEF Fork
  <2>8. CASE Statistics(t)
    BY <2>8, WalkQuiet DEF Statistics
  <2> QED BY <1>1, <2>1, <2>2, <2>3, <2>4, <2>5, <2>6, <2>7, <2>8 DEF Step
<1>2. CASE UNCHANGED vars
  <2> USE <1>2 DEF vars, locals, locks, arenas, limits
  <2>1. OnList' = OnList
    BY DEF OnList, Published
  <2>2. TypeOK'
    BY DEF IInv, TypeOK
  <2>3. \A t \in Threads : ThreadInv(t)'
    BY <2>1 DEF IInv, ThreadInv
  <2>4. ListInv'
    BY <2>1 DEF IInv, ListInv
  <2>5. AttachedIsCount'
    BY DEF IInv, AttachedIsCount, Published, AttachedTo, CountedBy
  <2>6. FreeInv'
    BY DEF IInv, FreeInv, FreeListUnused, NoArenaLost, Published
  <2> QED BY <2>2, <2>3, <2>4, <2>5, <2>6 DEF IInv
<1> QED BY <1>1, <1>2 DEF Next

(* IInv holds always.                                                       *)
LEMMA AlwaysInv == Spec => []IInv
  BY InitInv, StepInv, PTL DEF Spec

(* No call ever works on a null arena, and every variable keeps its type,   *)
(* whatever the threads do between the lock operations of arena.c.          *)
THEOREM AlwaysTypeOK == Spec => []TypeOK
<1>1. IInv => TypeOK
  BY DEF IInv
<1> QED BY <1>1, AlwaysInv, PTL

(* attached_threads of every arena on the list is the number of threads     *)
(* that use it: the six places of arena.c that write it agree in every      *)
(* interleaving, for any number of threads and arenas, and after fork.      *)
THEOREM AlwaysAttachedIsCount == Spec => []AttachedIsCount
<1>1. IInv => AttachedIsCount
  BY DEF IInv
<1> QED BY <1>1, AlwaysInv, PTL

(* free_list holds each arena at most once, only arenas of the list, and    *)
(* only ones with no thread: the assertions of get_free_list and            *)
(* remove_from_free_list cannot fail.                                       *)
THEOREM AlwaysFreeListUnused == Spec => []FreeListUnused
<1>1. IInv => FreeListUnused
  BY DEF IInv, FreeInv
<1> QED BY <1>1, AlwaysInv, PTL

(* An arena other than main_arena that lost its last thread is on           *)
(* free_list: detach_arena, which puts nothing there, only ever detaches    *)
(* from main_arena.                                                         *)
THEOREM AlwaysNoArenaLost == Spec => []NoArenaLost
<1>1. IInv => NoArenaLost
  BY DEF IInv, FreeInv
<1> QED BY <1>1, AlwaysInv, PTL

(* The assertions of detach_arena and of __malloc_arena_thread_freeres hold: *)
(* a counter is positive whenever a thread is about to take itself off.     *)
THEOREM AlwaysDetachPositive == Spec => []DetachPositive
<1>1. ASSUME IInv PROVE DetachPositive
  <2> SUFFICES ASSUME NEW t \in Threads
               PROVE  /\ pc[t] \in {"gfl_pop", "ra_attach"} /\ threadArena[t] # NoArena
                           => attached[threadArena[t]] > 0
                      /\ pc[t] = "na_detach" /\ rep[t] # NoArena => attached[rep[t]] > 0
                      /\ pc[t] = "ex_detach" => attached[res[t]] > 0
    BY DEF DetachPositive
  <2>1. ThreadInv(t) /\ Main \in OnList
    BY <1>1 DEF IInv, ListInv
  <2>2. ASSUME pc[t] \in {"gfl_pop", "ra_attach"}, threadArena[t] # NoArena
        PROVE  threadArena[t] \in OnList /\ threadArena[t] \in CountedBy(t)
    BY <2>1, <2>2 DEF ThreadInv, Unpublished, CountedBy, ExitPCs
  <2>3. ASSUME pc[t] = "na_detach", rep[t] # NoArena
        PROVE  rep[t] \in OnList /\ rep[t] \in CountedBy(t)
    BY <2>1, <2>3 DEF ThreadInv, CountedBy, ExitPCs
  <2>4. ASSUME pc[t] = "ex_detach" PROVE res[t] \in OnList /\ res[t] \in CountedBy(t)
    BY <2>1, <2>4 DEF ThreadInv, HasArena, CountedBy, ExitPCs
  <2> QED BY <1>1, <2>2, <2>3, <2>4, CountedPositive
<1> QED BY <1>1, AlwaysInv, PTL

(* The traversal of reused_arena, which takes no lock, stays on the list    *)
(* while _int_new_arena inserts into it: a->next is written before          *)
(* main_arena.next.                                                         *)
THEOREM AlwaysScanStaysOnList == Spec => []ScanStaysOnList
<1>1. ASSUME IInv PROVE ScanStaysOnList
  BY <1>1 DEF IInv, ThreadInv, HasArena, OnList, ScanStaysOnList
<1> QED BY <1>1, AlwaysInv, PTL

=============================================================================
