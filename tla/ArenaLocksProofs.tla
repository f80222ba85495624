-------------------------- MODULE ArenaLocksProofs --------------------------
(***************************************************************************)
(* The locks of ArenaList and the number of arenas, proved for any finite   *)
(* sets of threads and arenas, any limit and any number of forks.           *)
(*                                                                          *)
(* Both invariants build on IInv of ArenaListProofs. LocksInv says which    *)
(* mutexes each thread holds at each program counter; the hard case is fork,*)
(* which collects and gives back the mutex of every arena while it walks    *)
(* the circular list: that the walk meets every arena once is a property of *)
(* the list, RingInv. LimitInv adds what a thread between the limit and the *)
(* compare-and-swap of arena_get2 knows.                                    *)
(***************************************************************************)
EXTENDS ArenaListProofs

(* The arenas whose mutex a thread holds. *)
Held(t) == { a \in Arenas : mutex[a] = t }

(* Where a thread holds the mutex of the arena of its call and no other.    *)
InArena == {"inarena", "unlock", "free_unlock", "ra_lock", "ra_attach", "ra_set", "wk_in"}

(* The circular list is one ring: nothing but all of it contains main_arena *)
(* and is closed under next, and no arena is the next one of two.           *)
RingInv ==
  /\ \A S \in SUBSET Arenas :
       Main \in S /\ (\A a \in S \cap OnList : next[a] \in S) => OnList \subseteq S
  /\ \A a, b \in OnList : next[a] = next[b] => a = b
  /\ \A t \in Threads : pc[t] = "na_publish" => next[res[t]] = next[Main]

(* __malloc_fork_lock_parent has locked the list from main_arena up to res. *)
LockedUpTo(t) ==
  \/ Held(t) = {} /\ res[t] = Main
  \/ Main \in Held(t) /\ \A a \in Held(t) : next[a] \in Held(t) \cup {res[t]}

(* __malloc_fork_unlock_parent has unlocked it from main_arena up to res.   *)
Given(t) == OnList \ Held(t)
UnlockedUpTo(t) ==
  /\ res[t] \in Held(t)
  /\ \/ Given(t) = {} /\ res[t] = Main
     \/ /\ Main \in Given(t)
        /\ \E a \in Given(t) : next[a] = res[t]
        /\ \A a \in Given(t) : next[a] \in Given(t) \cup {res[t]}
        /\ \A b \in Given(t) \ {Main} : \E a \in Given(t) : next[a] = b

HeldInv(t) ==
  /\ listLock = t => pc[t] \in HoldsList
  /\ pc[t] \in InArena => Held(t) = {res[t]}
  /\ pc[t] \notin InArena \cup {"fk_lock", "fk_fork", "fk_unlock"} => Held(t) = {}
  /\ pc[t] = "fk_lock" => LockedUpTo(t)
  /\ pc[t] = "fk_fork" => Held(t) = OnList /\ res[t] = Main
  /\ pc[t] = "fk_unlock" => UnlockedUpTo(t)

LocksInv ==
  /\ \A a \in Arenas : mutex[a] # NoThread => a \in OnList
  /\ RingInv
  /\ \A t \in Threads : HeldInv(t)

LimitInv ==
  /\ NarenasBounds
  /\ ArenaMax # 0 =>
       /\ narenasLimit \in {0, ArenaMax}
       /\ \A t \in Threads :
            /\ pc[t] \in {"a2_read", "a2_cas"} => narenasLimit = ArenaMax
            /\ pc[t] = "a2_cas" => num[t] < ArenaMax

----------------------------------------------------------------------------
(* A step of thread t outside fork that writes neither next nor main_arena's *)
(* place in the ring: all three shapes below start from it.                 *)
ForkWalk == {"fk_lock", "fk_fork", "fk_unlock"}

Inside(t) ==
  /\ OthersIdle(t) /\ next' = next
  /\ pc[t] # "na_publish" /\ pc'[t] # "na_publish"

(* It locks and unlocks no arena, and its lock of the list agrees with pc.   *)
Keeps(t) ==
  /\ Inside(t) /\ mutex' = mutex
  /\ pc[t] \notin ForkWalk /\ pc'[t] \notin ForkWalk
  /\ listLock' # listLock => listLock' \in {t, NoThread}
  /\ listLock' = t => pc'[t] \in HoldsList
  /\ pc'[t] \in InArena <=> pc[t] \in InArena
  /\ pc'[t] \in InArena => res'[t] = res[t]

(* It locks the arena of its call, holding nothing else.                    *)
Acquires(t) ==
  /\ Inside(t) /\ LockArena(t, res[t]) /\ listLock' = listLock
  /\ res[t] \in OnList /\ res'[t] = res[t]
  /\ pc[t] \notin InArena \cup ForkWalk \cup HoldsList
  /\ pc'[t] \in InArena

(* It unlocks the arena of its call.                                        *)
Releases(t) ==
  /\ Inside(t) /\ UnlockArena(t, res[t]) /\ listLock' = listLock
  /\ pc[t] \in InArena
  /\ pc'[t] \notin InArena \cup ForkWalk

(* What a step of t must leave alone for the locks of the other threads.    *)
OthersLocked(t) ==
  /\ \A u \in Threads \ {t} : listLock' = u => listLock = u
  /\ \A u \in Threads \ {t}, a \in Arenas : mutex'[a] = u <=> mutex[a] = u

(* What another thread holds is not disturbed.                              *)
LEMMA OthersHeld ==
  ASSUME IInv, LocksInv, NEW t \in Threads, Inside(t), OthersLocked(t),
         NEW u \in Threads \ {t}
  PROVE  HeldInv(u)'
<1>1. OnList' = OnList
  BY SameList DEF Inside
<1>2. Held(u)' = Held(u)
  BY DEF Held, OthersLocked
<1>3. /\ pc'[u] = pc[u] /\ res'[u] = res[u] /\ next' = next
      /\ listLock' = u => listLock = u
  BY DEF Inside, OthersIdle, OthersLocked
<1>4. HeldInv(u)
  BY DEF LocksInv
<1> QED BY <1>1, <1>2, <1>3, <1>4 DEF HeldInv, LockedUpTo, UnlockedUpTo, Given

(* A step inside the ring only has to care for the locks of its thread.     *)
LEMMA InsideStep ==
  ASSUME IInv, LocksInv, NEW t \in Threads, Inside(t), OthersLocked(t), HeldInv(t)',
         \A a \in Arenas : mutex'[a] # NoThread => a \in OnList
  PROVE  LocksInv'
<1>1. OnList' = OnList
  BY SameList DEF Inside
<1>2. RingInv'
  <2>1. \A u \in Threads : pc'[u] = "na_publish" => pc[u] = "na_publish" /\ res'[u] = res[u]
    BY DEF Inside, OthersIdle
  <2> QED BY <1>1, <2>1 DEF RingInv, LocksInv, Inside
<1>3. \A u \in Threads : HeldInv(u)'
  BY OthersHeld
<1> QED BY <1>1, <1>2, <1>3 DEF LocksInv

(* A step that neither takes nor releases a mutex.                          *)
LEMMA KeepsStep ==
  ASSUME IInv, LocksInv, NEW t \in Threads, Keeps(t)
  PROVE  LocksInv'
<1>1. OthersLocked(t)
  BY ArenaAssumption DEF Keeps, OthersLocked
<1>2. HeldInv(t)'
  <2>1. HeldInv(t) /\ Held(t)' = Held(t)
    BY DEF LocksInv, Held, Keeps
  <2> QED BY <2>1 DEF HeldInv, Keeps, ForkWalk
<1> QED BY <1>1, <1>2, InsideStep DEF Keeps, LocksInv

(* A step that takes the mutex of the arena the thread is to use.           *)
LEMMA AcquiresStep ==
  ASSUME IInv, LocksInv, NEW t \in Threads, Acquires(t)
  PROVE  LocksInv'
<1> USE ArenaAssumption
<1>1. mutex \in [Arenas -> Threads \cup {NoThread}] /\ res[t] \in Arenas
  BY DEF IInv, TypeOK, Acquires, OnList
<1>2. mutex[res[t]] = NoThread /\ mutex' = [mutex EXCEPT ![res[t]] = t]
  BY DEF Acquires, LockArena
<1>3. OthersLocked(t)
  BY <1>1, <1>2 DEF OthersLocked, Acquires
<1>4. HeldInv(t)'
  <2>1. HeldInv(t) /\ Held(t) = {}
    BY DEF LocksInv, HeldInv, Acquires, ForkWalk
  <2>2. Held(t)' = {res'[t]}
    BY <1>1, <1>2, <2>1 DEF Held, Acquires
  <2> QED BY <2>1, <2>2 DEF HeldInv, Acquires, InArena, HoldsList
<1>5. \A a \in Arenas : mutex'[a] # NoThread => a \in OnList
  BY <1>1, <1>2 DEF LocksInv, Acquires
<1> QED BY <1>3, <1>4, <1>5, InsideStep DEF Acquires

(* A step that releases the one mutex the thread has.                       *)
LEMMA ReleasesStep ==
  ASSUME IInv, LocksInv, NEW t \in Threads, Releases(t)
  PROVE  LocksInv'
<1> USE ArenaAssumption
<1>1. mutex \in [Arenas -> Threads \cup {NoThread}]
  BY DEF IInv, TypeOK
<1>2. HeldInv(t) /\ Held(t) = {res[t]}
  BY DEF LocksInv, HeldInv, Releases
<1>3. res[t] \in Arenas /\ mutex[res[t]] = t /\ mutex' = [mutex EXCEPT ![res[t]] = NoThread]
  BY <1>2 DEF Held, Releases, UnlockArena
<1>4. OthersLocked(t)
  BY <1>1, <1>3 DEF OthersLocked, Releases
<1>5. HeldInv(t)'
  <2>1. Held(t)' = {}
    BY <1>1, <1>2, <1>3 DEF Held
  <2>2. listLock # t
    BY <1>2 DEF HeldInv, Releases, InArena, HoldsList
  <2> QED BY <2>1, <2>2 DEF HeldInv, Releases, InArena, ForkWalk
<1>6. \A a \in Arenas : mutex'[a] # NoThread => a \in OnList
  BY <1>1, <1>3 DEF LocksInv
<1> QED BY <1>4, <1>5, <1>6, InsideStep DEF Releases

----------------------------------------------------------------------------
(* fork: the walks that lock and unlock every arena of the ring.            *)

(* The ring has main_arena and is closed under next.                        *)
LEMMA Ring ==
  ASSUME IInv, LocksInv, NEW S \in SUBSET OnList,
         Main \in S, \A a \in S : next[a] \in S
  PROVE  S = OnList
<1>1. S \in SUBSET Arenas
  BY DEF OnList
<1> QED BY <1>1 DEF LocksInv, RingInv

(* fork begins: it has list_lock and is to lock the main arena first.       *)
LEMMA ForkListLockStep ==
  ASSUME IInv, LocksInv, NEW t \in Threads, ForkListLock(t)
  PROVE  LocksInv'
<1> USE ArenaAssumption
<1>1. TypeOK /\ HeldInv(t)
  BY DEF IInv, LocksInv
<1>2. /\ pc[t] = "fk_list" /\ pc' = [pc EXCEPT ![t] = "fk_lock"] /\ res' = [res EXCEPT ![t] = Main]
      /\ listLock = NoThread /\ listLock' = t
      /\ UNCHANGED <<threadArena, rep, tried, mutex, next>>
  BY DEF ForkListLock, Goto, arenas
<1>3. Inside(t) /\ OthersLocked(t)
  BY <1>1, <1>2 DEF Inside, OthersIdle, OthersLocked, TypeOK
<1>4. HeldInv(t)'
  <2>1. Held(t)' = {}
    BY <1>1, <1>2 DEF Held, HeldInv, InArena
  <2> QED BY <1>1, <1>2, <2>1 DEF HeldInv, LockedUpTo, TypeOK, InArena, HoldsList
<1> QED BY <1>2, <1>3, <1>4, InsideStep DEF LocksInv

(* The arena just locked is new, and the last one leads back to main_arena. *)
LEMMA ForkLockNextStep ==
  ASSUME IInv, LocksInv, NEW t \in Threads, ForkLockNext(t)
  PROVE  LocksInv'
<1> DEFINE a == res[t]
<1> USE ArenaAssumption
<1>1. TypeOK /\ HeldInv(t) /\ ThreadInv(t) /\ Main \in OnList
  BY DEF IInv, LocksInv, ListInv
<1>2. /\ pc[t] = "fk_lock"
      /\ pc' = [pc EXCEPT ![t] = IF next[a] = Main THEN "fk_fork" ELSE "fk_lock"]
      /\ res' = [res EXCEPT ![t] = next[a]]
      /\ mutex[a] = NoThread /\ mutex' = [mutex EXCEPT ![a] = t]
      /\ UNCHANGED <<threadArena, rep, tried, listLock, next>>
  BY DEF ForkLockNext, Goto, LockArena, arenas
<1>3. a \in OnList /\ a \in Arenas /\ listLock = t
  BY <1>1, <1>2 DEF ThreadInv, HasArena, HoldsList, OnList
<1>4. Inside(t) /\ OthersLocked(t)
  BY <1>1, <1>2, <1>3 DEF Inside, OthersIdle, OthersLocked, TypeOK
<1>5. OnList' = OnList
  BY <1>4, SameList DEF Inside
<1>6. Held(t)' = Held(t) \cup {a} /\ Held(t)' \subseteq OnList
  <2>1. Held(t)' = Held(t) \cup {a}
    BY <1>1, <1>2, <1>3 DEF Held, TypeOK
  <2>2. Held(t) \subseteq OnList
    BY DEF Held, LocksInv
  <2> QED BY <1>3, <2>1, <2>2
<1>7. Main \in Held(t)' /\ \A b \in Held(t)' : next[b] \in Held(t)' \cup {next[a]}
  BY <1>1, <1>2, <1>6 DEF HeldInv, LockedUpTo
<1>8. HeldInv(t)'
  <2>1. CASE next[a] = Main
    <3>1. Held(t)' = OnList
      BY <1>6, <1>7, <2>1, Ring
    <3> QED BY <1>1, <1>2, <1>3, <1>5, <2>1, <3>1 DEF HeldInv, TypeOK, InArena, HoldsList
  <2>2. CASE next[a] # Main
    <3>1. LockedUpTo(t)'
      BY <1>1, <1>2, <1>7 DEF LockedUpTo, TypeOK
    <3> QED BY <1>1, <1>2, <1>3, <2>2, <3>1 DEF HeldInv, TypeOK, InArena, HoldsList
  <2> QED BY <2>1, <2>2
<1>9. \A b \in Arenas : mutex'[b] # NoThread => b \in OnList
  BY <1>1, <1>2, <1>3 DEF LocksInv, TypeOK
<1> QED BY <1>4, <1>8, <1>9, InsideStep

(* The parent goes on after fork: it is to unlock every arena.              *)
LEMMA ForkParentStep ==
  ASSUME IInv, LocksInv, NEW t \in Threads, ForkParent(t)
  PROVE  LocksInv'
<1> USE ArenaAssumption
<1>1. TypeOK /\ HeldInv(t) /\ ThreadInv(t) /\ Main \in OnList
  BY DEF IInv, LocksInv, ListInv
<1>2. /\ pc[t] = "fk_fork" /\ pc' = [pc EXCEPT ![t] = "fk_unlock"]
      /\ UNCHANGED <<threadArena, res, rep, tried, mutex, listLock, next>>
  BY DEF ForkParent, Goto, locals, locks, arenas
<1>3. Inside(t) /\ OthersLocked(t)
  BY <1>1, <1>2 DEF Inside, OthersIdle, OthersLocked, TypeOK
<1>4. OnList' = OnList
  BY <1>3, SameList DEF Inside
<1>5. HeldInv(t)'
  <2>1. Held(t)' = OnList /\ res'[t] = Main /\ Given(t)' = {}
    BY <1>1, <1>2, <1>4 DEF HeldInv, Held, Given
  <2> QED BY <1>1, <1>2, <1>4, <2>1 DEF HeldInv, UnlockedUpTo, TypeOK, ThreadInv, InArena, HoldsList
<1> QED BY <1>2, <1>3, <1>5, InsideStep DEF LocksInv

(* The walk back never meets an arena it has already unlocked, because no   *)
(* arena is the next one of two; when it is back at main_arena, it has met  *)
(* them all.                                                                *)
LEMMA ForkUnlockNextStep ==
  ASSUME IInv, LocksInv, NEW t \in Threads, ForkUnlockNext(t)
  PROVE  LocksInv'
<1> DEFINE a == res[t]
<1> USE ArenaAssumption
<1>1. TypeOK /\ HeldInv(t) /\ ThreadInv(t) /\ Main \in OnList
  BY DEF IInv, LocksInv, ListInv
<1>2. /\ pc[t] = "fk_unlock"
      /\ pc' = [pc EXCEPT ![t] = IF next[a] = Main THEN "fk_done" ELSE "fk_unlock"]
      /\ res' = [res EXCEPT ![t] = next[a]]
      /\ mutex' = [mutex EXCEPT ![a] = NoThread]
      /\ UNCHANGED <<threadArena, rep, tried, listLock, next>>
  BY DEF ForkUnlockNext, Goto, UnlockArena, arenas
<1>3. UnlockedUpTo(t) /\ a \in Held(t) /\ a \in Arenas /\ mutex[a] = t /\ a \in OnList /\ listLock = t
  BY <1>1, <1>2 DEF HeldInv, UnlockedUpTo, Held, LocksInv, ThreadInv, HoldsList
<1>4. Inside(t) /\ OthersLocked(t)
  BY <1>1, <1>2, <1>3 DEF Inside, OthersIdle, OthersLocked, TypeOK
<1>5. OnList' = OnList
  BY <1>4, SameList DEF Inside
<1>6. Held(t)' = Held(t) \ {a} /\ Given(t)' = Given(t) \cup {a} /\ a \notin Given(t)
  <2>1. Held(t)' = Held(t) \ {a}
    BY <1>1, <1>2, <1>3 DEF Held, TypeOK
  <2> QED BY <1>3, <1>5, <2>1 DEF Given
<1>7. /\ Main \in Given(t)'
      /\ \A b \in Given(t)' : next[b] \in Given(t)' \cup {next[a]}
      /\ \A b \in Given(t)' \ {Main} : \E c \in Given(t)' : next[c] = b
  <2>1. CASE Given(t) = {} /\ a = Main
    BY <1>6, <2>1
  <2>2. CASE /\ Main \in Given(t)
             /\ \E b \in Given(t) : next[b] = a
             /\ \A b \in Given(t) : next[b] \in Given(t) \cup {a}
             /\ \A b \in Given(t) \ {Main} : \E c \in Given(t) : next[c] = b
    BY <1>6, <2>2
  <2> QED BY <1>3, <2>1, <2>2 DEF UnlockedUpTo
<1>8. Given(t)' \subseteq OnList
  BY <1>5 DEF Given
<1>9. HeldInv(t)'
  <2>1. CASE next[a] = Main
    <3>1. Given(t)' = OnList
      BY <1>7, <1>8, <2>1, Ring
    <3>2. Held(t)' = {}
      <4>1. \A b \in Arenas : mutex'[b] = t => b \in OnList
        BY <1>1, <1>2, <1>3 DEF LocksInv, TypeOK
      <4> QED BY <1>5, <3>1, <4>1 DEF Given, Held
    <3> QED BY <1>1, <1>2, <2>1, <3>2 DEF HeldInv, TypeOK, InArena, HoldsList
  <2>2. CASE next[a] # Main
    <3>1. next[a] \in OnList
      BY <1>3, NextOnList
    <3>2. next[a] \notin Given(t)'
      <4> SUFFICES ASSUME next[a] \in Given(t)' PROVE FALSE
        OBVIOUS
      <4>1. CASE next[a] = a
        <5>1. Given(t) # {} => \E b \in Given(t) : next[b] = a
          BY <1>3 DEF UnlockedUpTo
        <5>2. PICK b \in Given(t) : next[b] = next[a]
          BY <1>3, <2>2, <4>1, <5>1 DEF UnlockedUpTo
        <5>3. b = a
          BY <1>3, <5>2 DEF Given, LocksInv, RingInv
        <5> QED BY <1>6, <5>3
      <4>2. CASE next[a] # a
        <5>1. next[a] \in Given(t) \ {Main}
          BY <1>6, <2>2, <4>2
        <5>2. PICK b \in Given(t) : next[b] = next[a]
          BY <1>3, <5>1 DEF UnlockedUpTo
        <5>3. b = a
          BY <1>3, <5>2 DEF Given, LocksInv, RingInv
        <5> QED BY <1>6, <5>3
      <4> QED BY <4>1, <4>2
    <3>3. UnlockedUpTo(t)'
      <4>1. res'[t] = next[a] /\ res'[t] \in Held(t)'
        BY <1>1, <1>2, <1>5, <3>1, <3>2 DEF TypeOK, Given
      <4>2. \E b \in Given(t)' : next[b] = res'[t]
        BY <1>6, <4>1
      <4> QED BY <1>2, <1>7, <4>1, <4>2 DEF UnlockedUpTo
    <3> QED BY <1>1, <1>2, <1>3, <2>2, <3>3 DEF HeldInv, TypeOK, InArena, HoldsList
  <2> QED BY <2>1, <2>2
<1>10. \A b \in Arenas : mutex'[b] # NoThread => b \in OnList
  BY <1>1, <1>2 DEF LocksInv, TypeOK
<1> QED BY <1>4, <1>9, <1>10, InsideStep

----------------------------------------------------------------------------
(* The steps that write the ring, and fork in the child.                    *)

(* Who writes next holds list_lock, so no fork is on its way.               *)
LEMMA OthersOutside ==
  ASSUME IInv, LocksInv, NEW t \in Threads, pc[t] \in {"na_link", "na_publish"},
         OthersIdle(t), OthersLocked(t), NEW u \in Threads \ {t}
  PROVE  HeldInv(u)' /\ pc[u] # "na_publish"
<1>1. listLock = t
  BY DEF IInv, ThreadInv, HoldsList
<1>2. pc[u] \notin HoldsList
  BY <1>1 DEF IInv, ThreadInv
<1>3. Held(u)' = Held(u) /\ HeldInv(u)
  BY DEF Held, OthersLocked, LocksInv
<1> QED BY <1>1, <1>2, <1>3 DEF HeldInv, OthersIdle, OthersLocked, HoldsList

(* A new arena is linked, not yet reachable.                                *)
LEMMA LinkLocks ==
  ASSUME IInv, LocksInv, NEW t \in Threads, LinkArena(t)
  PROVE  LocksInv' /\ OnList' = OnList
<1> DEFINE a == res[t]
<1> USE ArenaAssumption
<1>1. TypeOK /\ HeldInv(t) /\ ThreadInv(t) /\ Main \in OnList /\ OnList \subseteq Arenas
  BY DEF IInv, LocksInv, ListInv, OnList
<1>2. /\ pc[t] = "na_link" /\ pc' = [pc EXCEPT ![t] = "na_publish"]
      /\ next' = [next EXCEPT ![a] = next[Main]]
      /\ UNCHANGED <<threadArena, res, rep, tried, mutex, listLock>>
  BY DEF LinkArena, Goto, locals, locks
<1>3. a \in Arenas /\ a \notin OnList /\ listLock = t
  BY <1>1, <1>2 DEF ThreadInv, Unpublished, HoldsList
<1>4. OthersIdle(t) /\ OthersLocked(t)
  BY <1>1, <1>2 DEF OthersIdle, OthersLocked, TypeOK
<1>5. \A u \in Threads \ {t} : HeldInv(u)' /\ pc[u] # "na_publish"
  BY <1>2, <1>4, OthersOutside
<1>6. OnList' = OnList
  <2>1. ASSUME NEW b \in Arenas PROVE Published(b)' <=> Published(b)
    <3>1. CASE b = a
      <4>1. ~ Published(a)
        BY <1>3 DEF OnList
      <4>2. pc'[t] = "na_publish" /\ res'[t] = a
        BY <1>1, <1>2 DEF TypeOK
      <4> QED BY <3>1, <4>1, <4>2 DEF Published
    <3>2. CASE b # a
      <4>1. next'[b] = next[b]
        BY <1>1, <1>2, <3>2 DEF TypeOK
      <4>2. \A u \in Threads : pc'[u] = "na_publish" /\ res'[u] = b <=> pc[u] = "na_publish" /\ res[u] = b
        BY <1>1, <1>2, <3>2 DEF TypeOK
      <4> QED BY <4>1, <4>2 DEF Published
    <3> QED BY <3>1, <3>2
  <2> QED BY <2>1 DEF OnList
<1>7. \A b \in OnList : next'[b] = next[b]
  BY <1>1, <1>2, <1>3 DEF TypeOK
<1>8. RingInv'
  <2>1. next'[a] = next[Main] /\ next'[Main] = next[Main]
    BY <1>1, <1>2, <1>3, <1>7 DEF TypeOK
  <2>2. \A u \in Threads : pc'[u] = "na_publish" => u = t
    BY <1>4, <1>5 DEF OthersIdle
  <2> QED BY <1>2, <1>6, <1>7, <2>1, <2>2 DEF RingInv, LocksInv
<1>9. HeldInv(t)'
  <2>1. Held(t)' = Held(t)
    BY <1>2 DEF Held
  <2> QED BY <1>1, <1>2, <1>3, <2>1 DEF HeldInv, TypeOK, InArena, HoldsList
<1> QED BY <1>2, <1>5, <1>6, <1>8, <1>9 DEF LocksInv

(* The list grows by the arena that PublishArena puts behind main_arena.    *)
LEMMA PublishOnList ==
  ASSUME IInv, NEW t \in Threads, PublishArena(t)
  PROVE  /\ res[t] \in Arenas \ OnList
         /\ OnList' = OnList \cup {res[t]}
<1> DEFINE a == res[t]
<1> USE ArenaAssumption
<1>1. TypeOK /\ ThreadInv(t) /\ Main \in OnList
  BY DEF IInv, ListInv
<1>2. /\ pc[t] = "na_publish" /\ pc' = [pc EXCEPT ![t] = "na_lock"]
      /\ next' = [next EXCEPT ![Main] = a]
      /\ UNCHANGED <<threadArena, res, rep, tried>>
  BY DEF PublishArena, Goto, locals
<1>3. a \in Arenas /\ a \notin OnList /\ next[a] # NoArena /\ a # NoArena /\ listLock = t
  BY <1>1, <1>2 DEF ThreadInv, Unpublished, HoldsList
<1>4. \A u \in Threads : pc[u] = "na_publish" => u = t
  BY <1>3 DEF IInv, ThreadInv, HoldsList
<1>5. \A u \in Threads : pc'[u] # "na_publish"
  BY <1>1, <1>2, <1>4 DEF TypeOK
<1>6. ASSUME NEW b \in Arenas PROVE Published(b)' <=> Published(b) \/ b = a
  <2>1. Published(b)' <=> next'[b] # NoArena
    BY <1>5 DEF Published
  <2>2. Published(b) <=> next[b] # NoArena /\ b # a
    BY <1>2, <1>4 DEF Published
  <2>3. Main # a /\ next[Main] # NoArena
    BY <1>1, <1>3 DEF OnList, Published
  <2> QED BY <1>1, <1>2, <1>3, <2>1, <2>2, <2>3 DEF TypeOK
<1> QED BY <1>3, <1>6 DEF OnList

(* A new arena becomes reachable, its mutex free.                           *)
LEMMA PublishLocks ==
  ASSUME IInv, LocksInv, NEW t \in Threads, PublishArena(t)
  PROVE  LocksInv'
<1> DEFINE a == res[t]
<1> USE ArenaAssumption
<1>1. TypeOK /\ HeldInv(t) /\ ThreadInv(t) /\ Main \in OnList /\ OnList \subseteq Arenas
  BY DEF IInv, LocksInv, ListInv, OnList
<1>2. /\ pc[t] = "na_publish" /\ pc' = [pc EXCEPT ![t] = "na_lock"]
      /\ next' = [next EXCEPT ![Main] = a] /\ listLock' = NoThread
      /\ UNCHANGED <<threadArena, res, rep, tried, mutex>>
  BY DEF PublishArena, Goto, locals
<1>3. a \in Arenas /\ a \notin OnList /\ OnList' = OnList \cup {a} /\ a # Main
  BY <1>1, PublishOnList
<1>4. OthersIdle(t) /\ OthersLocked(t)
  BY <1>1, <1>2 DEF OthersIdle, OthersLocked, TypeOK
<1>5. \A u \in Threads \ {t} : HeldInv(u)' /\ pc[u] # "na_publish"
  BY <1>2, <1>4, OthersOutside
<1>6. /\ next'[Main] = a /\ next'[a] = next[a] /\ next[a] = next[Main]
      /\ \A b \in OnList \ {Main} : next'[b] = next[b]
      /\ \A b \in OnList : next[b] \in OnList
  BY <1>1, <1>2, <1>3, NextOnList DEF TypeOK, LocksInv, RingInv
<1>7. RingInv'
  <2>1. ASSUME NEW S \in SUBSET Arenas, Main \in S,
               \A b \in S \cap OnList' : next'[b] \in S
        PROVE  OnList' \subseteq S
    <3>1. a \in S /\ next[Main] \in S
      BY <1>1, <1>3, <1>6, <2>1
    <3>2. \A b \in S \cap OnList : next[b] \in S
      BY <1>3, <1>6, <2>1, <3>1
    <3>3. OnList \subseteq S
      BY <2>1, <3>2 DEF LocksInv, RingInv
    <3> QED BY <1>3, <3>1, <3>3
  <2>2. ASSUME NEW b \in OnList', NEW c \in OnList', next'[b] = next'[c]
        PROVE  b = c
    <3>1. \A d \in OnList' : next'[d] = IF d = Main THEN a ELSE IF d = a THEN next[Main] ELSE next[d]
      BY <1>3, <1>6
    <3>2. \A d \in OnList' \ {Main} : next'[d] \in OnList
      BY <1>1, <1>3, <1>6, <3>1
    <3>3. CASE b = Main \/ c = Main
      BY <1>3, <2>2, <3>1, <3>2, <3>3
    <3>4. CASE b # Main /\ c # Main
      <4> DEFINE from(d) == IF d = a THEN Main ELSE d
      <4>1. next[from(b)] = next[from(c)] /\ from(b) \in OnList /\ from(c) \in OnList
        BY <1>1, <1>3, <2>2, <3>1, <3>4
      <4>2. from(b) = from(c)
        BY <4>1 DEF LocksInv, RingInv
      <4> QED BY <3>4, <4>2
    <3> QED BY <3>3, <3>4
  <2>3. \A u \in Threads : pc'[u] # "na_publish"
    BY <1>1, <1>2, <1>4, <1>5 DEF OthersIdle, TypeOK
  <2> QED BY <2>1, <2>2, <2>3 DEF RingInv
<1>8. HeldInv(t)'
  <2>1. Held(t)' = Held(t)
    BY <1>2 DEF Held
  <2> QED BY <1>1, <1>2, <2>1 DEF HeldInv, TypeOK, InArena, HoldsList
<1> QED BY <1>2, <1>3, <1>5, <1>7, <1>8 DEF LocksInv

(* In the child every mutex is free: those of the list are set up again, and *)
(* no other arena was locked.                                               *)
LEMMA ForkChildLocks ==
  ASSUME IInv, LocksInv, NEW t \in Threads, ForkChild(t)
  PROVE  LocksInv' /\ OnList' = OnList
<1> USE ArenaAssumption
<1>1. TypeOK /\ ThreadInv(t)
  BY DEF IInv
<1>2. /\ pc[t] = "fk_fork" /\ pc' = [u \in Threads |-> IF u = t THEN "idle" ELSE "none"]
      /\ mutex' = [a \in Arenas |-> IF a \in OnList THEN NoThread ELSE mutex[a]]
      /\ listLock' = NoThread /\ next' = next
  BY DEF ForkChild
<1>3. \A u \in Threads : pc[u] # "na_publish" /\ pc'[u] # "na_publish"
  BY <1>1, <1>2 DEF IInv, ThreadInv, HoldsList
<1>4. OnList' = OnList
  BY <1>2, <1>3 DEF OnList, Published
<1>5. \A a \in Arenas : mutex'[a] = NoThread
  BY <1>2 DEF LocksInv
<1>6. RingInv'
  BY <1>2, <1>3, <1>4 DEF RingInv, LocksInv
<1>7. ASSUME NEW u \in Threads PROVE HeldInv(u)'
  <2>1. Held(u)' = {} /\ listLock' # u
    BY <1>2, <1>5 DEF Held
  <2>2. pc'[u] \in {"idle", "none"}
    BY <1>2
  <2> QED BY <2>1, <2>2 DEF HeldInv, InArena
<1> QED BY <1>4, <1>5, <1>6, <1>7 DEF LocksInv

----------------------------------------------------------------------------
(* Every other step inside the ring has one of the three shapes.            *)

(* It counts no arena, and starts and ends no creation of one.              *)
Steady(t) ==
  /\ Inside(t)
  /\ UNCHANGED <<narenas, narenasLimit, forks>>
  /\ \A u \in Threads \ {t} : num'[u] = num[u]
  /\ t \in Creating' <=> t \in Creating
  /\ pc'[t] \notin {"a2_read", "a2_cas"}

(* The pcs at which an arena is locked name an arena of the list.           *)
LEMMA LocksOnList ==
  ASSUME IInv, NEW t \in Threads,
         pc[t] \in {"lock", "retry_lock", "gfl_mutex", "na_mutex", "ra_try", "ra_wait",
                   "free_lock", "wk_lock"}
  PROVE  res[t] \in OnList
  BY DEF IInv, ThreadInv, HasArena, ReusedPCs, FreePCs, WalkPCs

(* arena_get, the allocation and its retry. *)
LEMMA MallocShape ==
  ASSUME IInv, LocksInv, NEW t \in Threads,
         \/ ArenaGet(t)
         \/ ArenaLock(t)
         \/ Allocated(t)
         \/ MallocUnlock(t)
         \/ Retry(t)
         \/ RetryLock(t)
  PROVE  (Keeps(t) \/ Acquires(t) \/ Releases(t)) /\ Steady(t)
<1> USE DEF Goto, LockArena, UnlockArena, DropFreeListLock, locals, locks, arenas, limits, Creating, Inside
<1>1. TypeOK /\ HeldInv(t) /\ Main \in OnList
  BY DEF IInv, LocksInv, ListInv
<1>2. CASE ArenaGet(t)
  <2> USE <1>2 DEF ArenaGet
  <2>1. OthersIdle(t)
    BY <1>1 DEF OthersIdle, TypeOK
  <2>2. Keeps(t)
    BY <1>1, <2>1 DEF Keeps, ForkWalk, InArena, HoldsList, HeldInv, TypeOK
  <2>3. Steady(t)
    BY <1>1, <2>1 DEF Steady, TypeOK
  <2> QED BY <2>2, <2>3
<1>3. CASE ArenaLock(t)
  <2> USE <1>3 DEF ArenaLock
  <2>1. OthersIdle(t)
    BY <1>1 DEF OthersIdle, TypeOK
  <2>2. Acquires(t)
    BY <1>1, <2>1, LocksOnList DEF Acquires, ForkWalk, InArena, HoldsList, TypeOK
  <2>3. Steady(t)
    BY <1>1, <2>1 DEF Steady, TypeOK
  <2> QED BY <2>2, <2>3
<1>4. CASE Allocated(t)
  <2> USE <1>4 DEF Allocated
  <2>1. OthersIdle(t)
    BY <1>1 DEF OthersIdle, TypeOK
  <2>2. Keeps(t)
    BY <1>1, <2>1 DEF Keeps, ForkWalk, InArena, HoldsList, HeldInv, TypeOK
  <2>3. Steady(t)
    BY <1>1, <2>1 DEF Steady, TypeOK
  <2> QED BY <2>2, <2>3
<1>5. CASE MallocUnlock(t)
  <2> USE <1>5 DEF MallocUnlock
  <2>1. OthersIdle(t)
    BY <1>1 DEF OthersIdle, TypeOK
  <2>2. Releases(t)
    BY <1>1, <2>1 DEF Releases, ForkWalk, InArena, TypeOK
  <2>3. Steady(t)
    BY <1>1, <2>1 DEF Steady, TypeOK
  <2> QED BY <2>2, <2>3
<1>6. CASE Retry(t)
  <2> USE <1>6 DEF Retry
  <2>1. OthersIdle(t)
    BY <1>1 DEF OthersIdle, TypeOK
  <2>2. Releases(t)
    BY <1>1, <2>1 DEF Releases, ForkWalk, InArena, TypeOK
  <2>3. Steady(t)
    BY <1>1, <2>1 DEF Steady, TypeOK
  <2> QED BY <2>2, <2>3
<1>7. CASE RetryLock(t)
  <2> USE <1>7 DEF RetryLock
  <2>1. OthersIdle(t)
    BY <1>1 DEF OthersIdle, TypeOK
  <2>2. Acquires(t)
    BY <1>1, <2>1, LocksOnList DEF Acquires, ForkWalk, InArena, HoldsList, TypeOK
  <2>3. Steady(t)
    BY <1>1, <2>1 DEF Steady, TypeOK
  <2> QED BY <2>2, <2>3
<1> QED BY <1>2, <1>3, <1>4, <1>5, <1>6, <1>7

(* get_free_list. *)
LEMMA GetFreeListShape ==
  ASSUME IInv, LocksInv, NEW t \in Threads,
         \/ PeekFreeList(t)
         \/ TakeFreeListLock(t, "gfl_lock", "gfl_pop")
         \/ PopFreeList(t)
         \/ TakeFreeArena(t)
  PROVE  (Keeps(t) \/ Acquires(t) \/ Releases(t)) /\ Steady(t)
<1> USE DEF Goto, LockArena, UnlockArena, DropFreeListLock, locals, locks, arenas, limits, Creating, Inside
<1>1. TypeOK /\ HeldInv(t) /\ Main \in OnList
  BY DEF IInv, LocksInv, ListInv
<1>2. CASE PeekFreeList(t)
  <2> USE <1>2 DEF PeekFreeList
  <2>1. OthersIdle(t)
    BY <1>1 DEF OthersIdle, TypeOK
  <2>2. Keeps(t)
    BY <1>1, <2>1 DEF Keeps, ForkWalk, InArena, HoldsList, HeldInv, TypeOK
  <2>3. Steady(t)
    BY <1>1, <2>1 DEF Steady, TypeOK
  <2> QED BY <2>2, <2>3
<1>3. CASE TakeFreeListLock(t, "gfl_lock", "gfl_pop")
  <2> USE <1>3 DEF TakeFreeListLock
  <2>1. OthersIdle(t)
    BY <1>1 DEF OthersIdle, TypeOK
  <2>2. Keeps(t)
    BY <1>1, <2>1 DEF Keeps, ForkWalk, InArena, HoldsList, HeldInv, TypeOK
  <2>3. Steady(t)
    BY <1>1, <2>1 DEF Steady, TypeOK
  <2> QED BY <2>2, <2>3
<1>4. CASE PopFreeList(t)
  <2> USE <1>4 DEF PopFreeList
  <2>1. OthersIdle(t)
    BY <1>1 DEF OthersIdle, TypeOK
  <2>2. Keeps(t)
    BY <1>1, <2>1 DEF Keeps, ForkWalk, InArena, HoldsList, HeldInv, TypeOK
  <2>3. Steady(t)
    BY <1>1, <2>1 DEF Steady, TypeOK
  <2> QED BY <2>2, <2>3
<1>5. CASE TakeFreeArena(t)
  <2> USE <1>5 DEF TakeFreeArena
  <2>1. OthersIdle(t)
    BY <1>1 DEF OthersIdle, TypeOK
  <2>2. Acquires(t)
    BY <1>1, <2>1, LocksOnList DEF Acquires, ForkWalk, InArena, HoldsList, TypeOK
  <2>3. Steady(t)
    BY <1>1, <2>1 DEF Steady, TypeOK
  <2> QED BY <2>2, <2>3
<1> QED BY <1>2, <1>3, <1>4, <1>5

(* _int_new_arena, but for the heap and the list. *)
LEMMA NewArenaShape ==
  ASSUME IInv, LocksInv, NEW t \in Threads,
         \/ NewHeap(t)
         \/ TakeListLock(t, "na_list", "na_link")
         \/ TakeFreeListLock(t, "na_lock", "na_detach")
         \/ DetachReplaced(t)
         \/ LockNewArena(t)
  PROVE  (Keeps(t) \/ Acquires(t) \/ Releases(t)) /\ Steady(t)
<1> USE DEF Goto, LockArena, UnlockArena, DropFreeListLock, locals, locks, arenas, limits, Creating, Inside
<1>1. TypeOK /\ HeldInv(t) /\ Main \in OnList
  BY DEF IInv, LocksInv, ListInv
<1>2. CASE NewHeap(t)
  <2> USE <1>2 DEF NewHeap
  <2>1. OthersIdle(t)
    BY <1>1 DEF OthersIdle, TypeOK
  <2>2. Keeps(t)
    BY <1>1, <2>1 DEF Keeps, ForkWalk, InArena, HoldsList, HeldInv, TypeOK
  <2>3. Steady(t)
    BY <1>1, <2>1 DEF Steady, TypeOK
  <2> QED BY <2>2, <2>3
<1>3. CASE TakeListLock(t, "na_list", "na_link")
  <2> USE <1>3 DEF TakeListLock
  <2>1. OthersIdle(t)
    BY <1>1 DEF OthersIdle, TypeOK
  <2>2. Keeps(t)
    BY <1>1, <2>1 DEF Keeps, ForkWalk, InArena, HoldsList, HeldInv, TypeOK
  <2>3. Steady(t)
    BY <1>1, <2>1 DEF Steady, TypeOK
  <2> QED BY <2>2, <2>3
<1>4. CASE TakeFreeListLock(t, "na_lock", "na_detach")
  <2> USE <1>4 DEF TakeFreeListLock
  <2>1. OthersIdle(t)
    BY <1>1 DEF OthersIdle, TypeOK
  <2>2. Keeps(t)
    BY <1>1, <2>1 DEF Keeps, ForkWalk, InArena, HoldsList, HeldInv, TypeOK
  <2>3. Steady(t)
    BY <1>1, <2>1 DEF Steady, TypeOK
  <2> QED BY <2>2, <2>3
<1>5. CASE DetachReplaced(t)
  <2> USE <1>5 DEF DetachReplaced
  <2>1. OthersIdle(t)
    BY <1>1 DEF OthersIdle, TypeOK
  <2>2. Keeps(t)
    BY <1>1, <2>1 DEF Keeps, ForkWalk, InArena, HoldsList, HeldInv, TypeOK
  <2>3. Steady(t)
    BY <1>1, <2>1 DEF Steady, TypeOK
  <2> QED BY <2>2, <2>3
<1>6. CASE LockNewArena(t)
  <2> USE <1>6 DEF LockNewArena
  <2>1. OthersIdle(t)
    BY <1>1 DEF OthersIdle, TypeOK
  <2>2. Acquires(t)
    BY <1>1, <2>1, LocksOnList DEF Acquires, ForkWalk, InArena, HoldsList, TypeOK
  <2>3. Steady(t)
    BY <1>1, <2>1 DEF Steady, TypeOK
  <2> QED BY <2>2, <2>3
<1> QED BY <1>2, <1>3, <1>4, <1>5, <1>6

(* reused_arena. *)
LEMMA ReusedArenaShape ==
  ASSUME IInv, LocksInv, NEW t \in Threads,
         \/ StartScan(t)
         \/ InitNextToUse(t)
         \/ TryLockSucceeds(t)
         \/ TryLockFails(t)
         \/ ScanAgain(t)
         \/ WaitForArena(t)
         \/ TakeFreeListLock(t, "ra_lock", "ra_attach")
         \/ AttachReused(t)
         \/ SetThreadArena(t)
  PROVE  (Keeps(t) \/ Acquires(t) \/ Releases(t)) /\ Steady(t)
<1> USE DEF Goto, LockArena, UnlockArena, DropFreeListLock, locals, locks, arenas, limits, Creating, Inside
<1>1. TypeOK /\ HeldInv(t) /\ Main \in OnList
  BY DEF IInv, LocksInv, ListInv
<1>2. CASE StartScan(t)
  <2> USE <1>2 DEF StartScan
  <2>1. OthersIdle(t)
    BY <1>1 DEF OthersIdle, TypeOK
  <2>2. Keeps(t)
    BY <1>1, <2>1 DEF Keeps, ForkWalk, InArena, HoldsList, HeldInv, TypeOK
  <2>3. Steady(t)
    BY <1>1, <2>1 DEF Steady, TypeOK
  <2> QED BY <2>2, <2>3
<1>3. CASE InitNextToUse(t)
  <2> USE <1>3 DEF InitNextToUse
  <2>1. OthersIdle(t)
    BY <1>1 DEF OthersIdle, TypeOK
  <2>2. Keeps(t)
    BY <1>1, <2>1 DEF Keeps, ForkWalk, InArena, HoldsList, HeldInv, TypeOK
  <2>3. Steady(t)
    BY <1>1, <2>1 DEF Steady, TypeOK
  <2> QED BY <2>2, <2>3
<1>4. CASE TryLockSucceeds(t)
  <2> USE <1>4 DEF TryLockSucceeds
  <2>1. OthersIdle(t)
    BY <1>1 DEF OthersIdle, TypeOK
  <2>2. Acquires(t)
    BY <1>1, <2>1, LocksOnList DEF Acquires, ForkWalk, InArena, HoldsList, TypeOK
  <2>3. Steady(t)
    BY <1>1, <2>1 DEF Steady, TypeOK
  <2> QED BY <2>2, <2>3
<1>5. CASE TryLockFails(t)
  <2> USE <1>5 DEF TryLockFails
  <2>1. OthersIdle(t)
    BY <1>1 DEF OthersIdle, TypeOK
  <2>2. Keeps(t)
    BY <1>1, <2>1 DEF Keeps, ForkWalk, InArena, HoldsList, HeldInv, TypeOK
  <2>3. Steady(t)
    BY <1>1, <2>1 DEF Steady, TypeOK
  <2> QED BY <2>2, <2>3
<1>6. CASE ScanAgain(t)
  <2> USE <1>6 DEF ScanAgain
  <2>1. OthersIdle(t)
    BY <1>1 DEF OthersIdle, TypeOK
  <2>2. Keeps(t)
    BY <1>1, <2>1 DEF Keeps, ForkWalk, InArena, HoldsList, HeldInv, TypeOK
  <2>3. Steady(t)
    BY <1>1, <2>1 DEF Steady, TypeOK
  <2> QED BY <2>2, <2>3
<1>7. CASE WaitForArena(t)
  <2> USE <1>7 DEF WaitForArena
  <2>1. OthersIdle(t)
    BY <1>1 DEF OthersIdle, TypeOK
  <2>2. Acquires(t)
    BY <1>1, <2>1, LocksOnList DEF Acquires, ForkWalk, InArena, HoldsList, TypeOK
  <2>3. Steady(t)
    BY <1>1, <2>1 DEF Steady, TypeOK
  <2> QED BY <2>2, <2>3
<1>8. CASE TakeFreeListLock(t, "ra_lock", "ra_attach")
  <2> USE <1>8 DEF TakeFreeListLock
  <2>1. OthersIdle(t)
    BY <1>1 DEF OthersIdle, TypeOK
  <2>2. Keeps(t)
    BY <1>1, <2>1 DEF Keeps, ForkWalk, InArena, HoldsList, HeldInv, TypeOK
  <2>3. Steady(t)
    BY <1>1, <2>1 DEF Steady, TypeOK
  <2> QED BY <2>2, <2>3
<1>9. CASE AttachReused(t)
  <2> USE <1>9 DEF AttachReused
  <2>1. OthersIdle(t)
    BY <1>1 DEF OthersIdle, TypeOK
  <2>2. Keeps(t)
    BY <1>1, <2>1 DEF Keeps, ForkWalk, InArena, HoldsList, HeldInv, TypeOK
  <2>3. Steady(t)
    BY <1>1, <2>1 DEF Steady, TypeOK
  <2> QED BY <2>2, <2>3
<1>10. CASE SetThreadArena(t)
  <2> USE <1>10 DEF SetThreadArena
  <2>1. OthersIdle(t)
    BY <1>1 DEF OthersIdle, TypeOK
  <2>2. Keeps(t)
    BY <1>1, <2>1 DEF Keeps, ForkWalk, InArena, HoldsList, HeldInv, TypeOK
  <2>3. Steady(t)
    BY <1>1, <2>1 DEF Steady, TypeOK
  <2> QED BY <2>2, <2>3
<1> QED BY <1>2, <1>3, <1>4, <1>5, <1>6, <1>7, <1>8, <1>9, <1>10

(* free, thread exit and thread start. *)
LEMMA FreeShape ==
  ASSUME IInv, LocksInv, NEW t \in Threads,
         \/ Free(t)
         \/ FreeLock(t)
         \/ FreeUnlock(t)
         \/ ThreadExit(t)
         \/ TakeFreeListLock(t, "ex_lock", "ex_detach")
         \/ ExitDetach(t)
         \/ Spawn(t)
  PROVE  (Keeps(t) \/ Acquires(t) \/ Releases(t)) /\ Steady(t)
<1> USE DEF Goto, LockArena, UnlockArena, DropFreeListLock, locals, locks, arenas, limits, Creating, Inside
<1>1. TypeOK /\ HeldInv(t) /\ Main \in OnList
  BY DEF IInv, LocksInv, ListInv
<1>2. CASE Free(t)
  <2> USE <1>2 DEF Free
  <2>1. OthersIdle(t)
    BY <1>1 DEF OthersIdle, TypeOK
  <2>2. Keeps(t)
    BY <1>1, <2>1 DEF Keeps, ForkWalk, InArena, HoldsList, HeldInv, TypeOK
  <2>3. Steady(t)
    BY <1>1, <2>1 DEF Steady, TypeOK
  <2> QED BY <2>2, <2>3
<1>3. CASE FreeLock(t)
  <2> USE <1>3 DEF FreeLock
  <2>1. OthersIdle(t)
    BY <1>1 DEF OthersIdle, TypeOK
  <2>2. Acquires(t)
    BY <1>1, <2>1, LocksOnList DEF Acquires, ForkWalk, InArena, HoldsList, TypeOK
  <2>3. Steady(t)
    BY <1>1, <2>1 DEF Steady, TypeOK
  <2> QED BY <2>2, <2>3
<1>4. CASE FreeUnlock(t)
  <2> USE <1>4 DEF FreeUnlock
  <2>1. OthersIdle(t)
    BY <1>1 DEF OthersIdle, TypeOK
  <2>2. Releases(t)
    BY <1>1, <2>1 DEF Releases, ForkWalk, InArena, TypeOK
  <2>3. Steady(t)
    BY <1>1, <2>1 DEF Steady, TypeOK
  <2> QED BY <2>2, <2>3
<1>5. CASE ThreadExit(t)
  <2> USE <1>5 DEF ThreadExit
  <2>1. OthersIdle(t)
    BY <1>1 DEF OthersIdle, TypeOK
  <2>2. Keeps(t)
    BY <1>1, <2>1 DEF Keeps, ForkWalk, InArena, HoldsList, HeldInv, TypeOK
  <2>3. Steady(t)
    BY <1>1, <2>1 DEF Steady, TypeOK
  <2> QED BY <2>2, <2>3
<1>6. CASE TakeFreeListLock(t, "ex_lock", "ex_detach")
  <2> USE <1>6 DEF TakeFreeListLock
  <2>1. OthersIdle(t)
    BY <1>1 DEF OthersIdle, TypeOK
  <2>2. Keeps(t)
    BY <1>1, <2>1 DEF Keeps, ForkWalk, InArena, HoldsList, HeldInv, TypeOK
  <2>3. Steady(t)
    BY <1>1, <2>1 DEF Steady, TypeOK
  <2> QED BY <2>2, <2>3
<1>7. CASE ExitDetach(t)
  <2> USE <1>7 DEF ExitDetach
  <2>1. OthersIdle(t)
    BY <1>1 DEF OthersIdle, TypeOK
  <2>2. Keeps(t)
    BY <1>1, <2>1 DEF Keeps, ForkWalk, InArena, HoldsList, HeldInv, TypeOK
  <2>3. Steady(t)
    BY <1>1, <2>1 DEF Steady, TypeOK
  <2> QED BY <2>2, <2>3
<1>8. CASE Spawn(t)
  <2> USE <1>8 DEF Spawn
  <2>1. OthersIdle(t)
    BY <1>1 DEF OthersIdle, TypeOK
  <2>2. Keeps(t)
    BY <1>1, <2>1 DEF Keeps, ForkWalk, InArena, HoldsList, HeldInv, TypeOK
  <2>3. Steady(t)
    BY <1>1, <2>1 DEF Steady, TypeOK
  <2> QED BY <2>2, <2>3
<1> QED BY <1>2, <1>3, <1>4, <1>5, <1>6, <1>7, <1>8

(* The statistics. *)
LEMMA WalkShape ==
  ASSUME IInv, LocksInv, NEW t \in Threads,
         \/ Walk(t)
         \/ WalkLock(t)
         \/ WalkUnlock(t)
         \/ WalkNext(t)
  PROVE  (Keeps(t) \/ Acquires(t) \/ Releases(t)) /\ Steady(t)
<1> USE DEF Goto, LockArena, UnlockArena, DropFreeListLock, locals, locks, arenas, limits, Creating, Inside
<1>1. TypeOK /\ HeldInv(t) /\ Main \in OnList
  BY DEF IInv, LocksInv, ListInv
<1>2. CASE Walk(t)
  <2> USE <1>2 DEF Walk
  <2>1. OthersIdle(t)
    BY <1>1 DEF OthersIdle, TypeOK
  <2>2. Keeps(t)
    BY <1>1, <2>1 DEF Keeps, ForkWalk, InArena, HoldsList, HeldInv, TypeOK
  <2>3. Steady(t)
    BY <1>1, <2>1 DEF Steady, TypeOK
  <2> QED BY <2>2, <2>3
<1>3. CASE WalkLock(t)
  <2> USE <1>3 DEF WalkLock
  <2>1. OthersIdle(t)
    BY <1>1 DEF OthersIdle, TypeOK
  <2>2. Acquires(t)
    BY <1>1, <2>1, LocksOnList DEF Acquires, ForkWalk, InArena, HoldsList, TypeOK
  <2>3. Steady(t)
    BY <1>1, <2>1 DEF Steady, TypeOK
  <2> QED BY <2>2, <2>3
<1>4. CASE WalkUnlock(t)
  <2> USE <1>4 DEF WalkUnlock
  <2>1. OthersIdle(t)
    BY <1>1 DEF OthersIdle, TypeOK
  <2>2. Releases(t)
    BY <1>1, <2>1 DEF Releases, ForkWalk, InArena, TypeOK
  <2>3. Steady(t)
    BY <1>1, <2>1 DEF Steady, TypeOK
  <2> QED BY <2>2, <2>3
<1>5. CASE WalkNext(t)
  <2> USE <1>5 DEF WalkNext
  <2>1. OthersIdle(t)
    BY <1>1 DEF OthersIdle, TypeOK
  <2>2. Keeps(t)
    BY <1>1, <2>1 DEF Keeps, ForkWalk, InArena, HoldsList, HeldInv, TypeOK
  <2>3. Steady(t)
    BY <1>1, <2>1 DEF Steady, TypeOK
  <2> QED BY <2>2, <2>3
<1> QED BY <1>2, <1>3, <1>4, <1>5

(* arena_get2, and the heap that cannot be had: no lock is involved.        *)
LEMMA Get2Shape ==
  ASSUME IInv, LocksInv, NEW t \in Threads,
         \/ ComputeLimit(t)
         \/ ReadNarenas(t)
         \/ CasNarenas(t)
         \/ NewHeapFails(t)
  PROVE  Keeps(t)
<1> USE DEF Goto, locals, locks, arenas, limits, Inside
<1>1. TypeOK /\ HeldInv(t)
  BY DEF IInv, LocksInv
<1>2. ASSUME \/ ComputeLimit(t)
             \/ ReadNarenas(t)
      PROVE  Keeps(t)
  <2>1. OthersIdle(t)
    BY <1>1, <1>2 DEF OthersIdle, TypeOK, ComputeLimit, ReadNarenas
  <2> QED BY <1>1, <1>2, <2>1
          DEF Keeps, ForkWalk, InArena, HoldsList, HeldInv, TypeOK, ComputeLimit, ReadNarenas
<1>3. ASSUME \/ CasNarenas(t)
             \/ NewHeapFails(t)
      PROVE  Keeps(t)
  <2>1. OthersIdle(t)
    BY <1>1, <1>3 DEF OthersIdle, TypeOK, CasNarenas, NewHeapFails
  <2> QED BY <1>1, <1>3, <2>1
          DEF Keeps, ForkWalk, InArena, HoldsList, HeldInv, TypeOK, CasNarenas, NewHeapFails
<1> QED BY <1>2, <1>3

(* fork holds and gives back list_lock last.                                *)
LEMMA ForkEndsShape ==
  ASSUME IInv, LocksInv, NEW t \in Threads, ForkStart(t) \/ ForkUnlockList(t)
  PROVE  Keeps(t) /\ Steady(t)
<1> USE DEF Goto, locals, locks, arenas, limits, Inside
<1>1. TypeOK /\ HeldInv(t)
  BY DEF IInv, LocksInv
<1>2. ASSUME ForkStart(t) PROVE Keeps(t) /\ Steady(t)
  <2>1. OthersIdle(t)
    BY <1>1, <1>2 DEF OthersIdle, TypeOK, ForkStart
  <2>2. Keeps(t)
    BY <1>1, <1>2, <2>1 DEF Keeps, ForkWalk, InArena, HoldsList, HeldInv, TypeOK, ForkStart
  <2>3. Steady(t)
    BY <1>1, <1>2, <2>1 DEF Steady, Creating, TypeOK, ForkStart
  <2> QED BY <2>2, <2>3
<1>3. ASSUME ForkUnlockList(t) PROVE Keeps(t) /\ Steady(t)
  <2>1. OthersIdle(t)
    BY <1>1, <1>3 DEF OthersIdle, TypeOK, ForkUnlockList
  <2>2. Keeps(t)
    BY <1>1, <1>3, <2>1, ArenaAssumption
       DEF Keeps, ForkWalk, InArena, HoldsList, TypeOK, ForkUnlockList
  <2>3. Steady(t)
    BY <1>1, <1>3, <2>1 DEF Steady, Creating, TypeOK, ForkUnlockList
  <2> QED BY <2>2, <2>3
<1> QED BY <1>2, <1>3

(* A fork changes nothing that the count of arenas depends on.              *)
LEMMA ForkSteady ==
  ASSUME IInv, NEW t \in Threads,
         \/ ForkListLock(t)
         \/ ForkLockNext(t)
         \/ ForkParent(t)
         \/ ForkUnlockNext(t)
  PROVE  Steady(t)
<1> USE DEF Goto, locals, locks, arenas, limits, Inside, Creating,
            ForkListLock, ForkLockNext, ForkParent, ForkUnlockNext
<1>1. TypeOK
  BY DEF IInv
<1>2. OthersIdle(t)
  BY <1>1 DEF OthersIdle, TypeOK
<1> QED BY <1>1, <1>2 DEF Steady, TypeOK

----------------------------------------------------------------------------
(* The locks.                                                               *)

LEMMA InitLocks == Init => LocksInv
<1> SUFFICES ASSUME Init PROVE LocksInv
  OBVIOUS
<1> USE ArenaAssumption
<1>1. OnList = {Main}
  BY DEF Init, OnList, Published
<1>2. RingInv
  BY <1>1 DEF Init, RingInv
<1>3. ASSUME NEW t \in Threads PROVE HeldInv(t)
  <2>1. Held(t) = {} /\ listLock # t /\ pc[t] \in {"idle", "none"}
    BY DEF Init, Held
  <2> QED BY <2>1 DEF HeldInv, InArena
<1> QED BY <1>2, <1>3 DEF LocksInv, Init

(* The three shapes of a step.                                              *)
LEMMA ShapeStep ==
  ASSUME IInv, LocksInv, NEW t \in Threads, Keeps(t) \/ Acquires(t) \/ Releases(t)
  PROVE  LocksInv'
  BY KeepsStep, AcquiresStep, ReleasesStep

(* LocksInv is inductive, relative to IInv.                                 *)
LEMMA StepLocks == IInv /\ LocksInv /\ [Next]_vars => LocksInv'
<1> SUFFICES ASSUME IInv, LocksInv, [Next]_vars PROVE LocksInv'
  OBVIOUS
<1>1. ASSUME NEW t \in Threads, Step(t) PROVE LocksInv'
  <2>1. CASE Malloc(t)
    BY <2>1, MallocShape, ShapeStep DEF Malloc
  <2>2. CASE GetFreeList(t)
    BY <2>2, GetFreeListShape, ShapeStep DEF GetFreeList
  <2>3. CASE ArenaGet2(t)
    BY <2>3, Get2Shape, ShapeStep DEF ArenaGet2
  <2>4. CASE NewArena(t)
    BY <2>4, Get2Shape, NewArenaShape, ShapeStep, LinkLocks, PublishLocks DEF NewArena
  <2>5. CASE ReusedArena(t)
    BY <2>5, ReusedArenaShape, ShapeStep DEF ReusedArena
  <2>6. CASE FreeCall(t) \/ ThreadFreeres(t) \/ Spawn(t)
    BY <2>6, FreeShape, ShapeStep DEF FreeCall, ThreadFreeres
  <2>7. CASE Fork(t)
    BY <2>7, ForkEndsShape, ShapeStep, ForkListLockStep, ForkLockNextStep, ForkParentStep,
       ForkUnlockNextStep, ForkChildLocks DEF Fork
  <2>8. CASE Statistics(t)
    BY <2>8, WalkShape, ShapeStep DEF Statistics
  <2> QED BY <1>1, <2>1, <2>2, <2>3, <2>4, <2>5, <2>6, <2>7, <2>8 DEF Step
<1>2. CASE UNCHANGED vars
  <2> USE <1>2 DEF vars, locals, locks, arenas, limits
  <2>1. OnList' = OnList /\ \A t \in Threads : Held(t)' = Held(t)
    BY DEF OnList, Published, Held
  <2>2. RingInv'
    BY <2>1 DEF LocksInv, RingInv
  <2>3. \A t \in Threads : HeldInv(t)'
    BY <2>1 DEF LocksInv, HeldInv, LockedUpTo, UnlockedUpTo, Given
  <2> QED BY <2>1, <2>2, <2>3 DEF LocksInv
<1> QED BY <1>1, <1>2 DEF Next

(* LocksInv holds always.                                                   *)
LEMMA AlwaysLocks == Spec => []LocksInv
  BY AlwaysInv, InitLocks, StepLocks, PTL DEF Spec

(* A thread inside an arena owns its mutex, whichever of the six ways it    *)
(* came, and who waits for list_lock or for an arena to work in holds       *)
(* nothing another one could wait for (arena.c:110-113), while forks        *)
(* collect the mutex of every arena.                                        *)
THEOREM AlwaysLocksSafe == Spec => []LocksSafe
<1>1. ASSUME LocksInv PROVE LocksSafe
  <2>1. OwnsMutex
    BY <1>1 DEF LocksInv, HeldInv, Held, InArena, OwnsMutex
  <2>2. ASSUME NEW t \in Threads,
               pc[t] \in {"na_list", "fk_list", "lock", "retry_lock", "gfl_mutex", "na_mutex",
                         "ra_wait", "free_lock", "wk_lock"}
        PROVE  listLock # t /\ \A a \in Arenas : mutex[a] # t
    BY <1>1, <2>2 DEF LocksInv, HeldInv, Held, InArena, HoldsList
  <2> QED BY <2>1, <2>2 DEF LockOrder, LocksSafe
<1> QED BY <1>1, AlwaysLocks, PTL

----------------------------------------------------------------------------
(* The number of arenas.                                                    *)

LEMMA CountsFinite ==
  ASSUME IInv
  PROVE  /\ IsFiniteSet(OnList) /\ IsFiniteSet(Creating)
         /\ Cardinality(OnList) \in Nat /\ Cardinality(Creating) \in Nat
<1>1. OnList \in SUBSET Arenas /\ Creating \in SUBSET Threads
  BY DEF OnList, Creating
<1> QED BY <1>1, FS_Subset, FS_CardinalityType, ArenaAssumption

(* What a step must tell about the limit when it leaves the counts alone.   *)
LEMMA SteadyLimit ==
  ASSUME IInv, LimitInv, NEW t \in Threads, Steady(t)
  PROVE  LimitInv'
<1>1. OnList' = OnList
  BY SameList DEF Steady, Inside
<1>2. Creating' = Creating
  <2>1. \A u \in Threads \ {t} : u \in Creating' <=> u \in Creating
    BY DEF Steady, Inside, OthersIdle, Creating
  <2>2. Creating \subseteq Threads /\ Creating' \subseteq Threads
    BY DEF Creating
  <2> QED BY <2>1, <2>2 DEF Steady
<1>3. NarenasBounds'
  BY <1>1, <1>2 DEF LimitInv, NarenasBounds, Steady
<1>4. \A u \in Threads : pc'[u] \in {"a2_read", "a2_cas"} =>
        pc'[u] = pc[u] /\ num'[u] = num[u]
  BY DEF Steady, Inside, OthersIdle
<1> QED BY <1>3, <1>4 DEF LimitInv, Steady

(* A thread reads narenas, and sets narenas_limit, before it creates        *)
(* anything.                                                                *)
LEMMA ComputeLimitStep ==
  ASSUME IInv, LimitInv, NEW t \in Threads, ComputeLimit(t) \/ ReadNarenas(t)
  PROVE  LimitInv'
<1> USE ArenaAssumption
<1>1. TypeOK
  BY DEF IInv
<1>2. Inside(t) /\ t \notin Creating /\ t \notin Creating' /\ UNCHANGED <<narenas, forks>>
  BY <1>1 DEF ComputeLimit, ReadNarenas, Goto, Inside, OthersIdle, TypeOK, Creating,
              locals, arenas, limits
<1>3. OnList' = OnList /\ Creating' = Creating
  <2>1. OnList' = OnList
    BY <1>2, SameList DEF Inside
  <2>2. \A u \in Threads : u \in Creating' <=> u \in Creating
    BY <1>2 DEF Inside, OthersIdle, Creating
  <2> QED BY <2>1, <2>2 DEF Creating
<1>4. NarenasBounds'
  BY <1>2, <1>3 DEF LimitInv, NarenasBounds
<1>5. CASE ComputeLimit(t)
  BY <1>1, <1>4, <1>5 DEF ComputeLimit, Goto, LimitInv, locals, TypeOK
<1>6. CASE ReadNarenas(t)
  BY <1>1, <1>4, <1>6 DEF ReadNarenas, Goto, BelowLimit, LimitInv, limits, TypeOK
<1> QED BY <1>5, <1>6

(* The compare-and-swap counts the arena its thread is about to create.     *)
LEMMA CasLimit ==
  ASSUME IInv, LimitInv, NEW t \in Threads, CasNarenas(t)
  PROVE  LimitInv'
<1> USE ArenaAssumption
<1>1. TypeOK
  BY DEF IInv
<1>2. /\ pc[t] = "a2_cas"
      /\ pc' = [pc EXCEPT ![t] = IF narenas = num[t] THEN "new_heap" ELSE "a2_read"]
      /\ narenas' = IF narenas = num[t] THEN num[t] + 1 ELSE narenas
      /\ num' = [num EXCEPT ![t] = 0]
      /\ UNCHANGED <<threadArena, res, rep, tried, next, narenasLimit, forks>>
  BY DEF CasNarenas, Goto, arenas
<1>3. OthersIdle(t)
  BY <1>1, <1>2 DEF OthersIdle, TypeOK
<1>4. OnList' = OnList
  BY <1>1, <1>2, <1>3, SameList DEF TypeOK
<1>5. /\ IsFiniteSet(Creating) /\ Cardinality(OnList) \in Nat /\ Cardinality(Creating) \in Nat
      /\ t \notin Creating
  BY <1>2, CountsFinite DEF Creating
<1>6. NarenasBounds'
  <2>1. CASE narenas = num[t]
    <3>1. Creating' = Creating \cup {t}
      BY <1>1, <1>2, <2>1 DEF Creating, TypeOK
    <3>2. Cardinality(Creating') = Cardinality(Creating) + 1
      BY <1>5, <3>1, FS_AddElement
    <3>3. narenas' = narenas + 1 /\ (ArenaMax # 0 => narenas' <= ArenaMax)
      BY <1>1, <1>2, <2>1 DEF LimitInv, TypeOK
    <3> QED BY <1>1, <1>2, <1>4, <1>5, <3>2, <3>3 DEF LimitInv, NarenasBounds, TypeOK
  <2>2. CASE narenas # num[t]
    <3>1. Creating' = Creating
      BY <1>1, <1>2, <2>2 DEF Creating, TypeOK
    <3> QED BY <1>2, <1>4, <2>2, <3>1 DEF LimitInv, NarenasBounds
  <2> QED BY <2>1, <2>2
<1> QED BY <1>1, <1>2, <1>6 DEF LimitInv, TypeOK

(* No memory for the new arena: its number is given back.                   *)
LEMMA NewHeapFailsLimit ==
  ASSUME IInv, LimitInv, NEW t \in Threads, NewHeapFails(t)
  PROVE  LimitInv'
<1> USE ArenaAssumption
<1>1. TypeOK
  BY DEF IInv
<1>2. /\ pc[t] = "new_heap" /\ pc' = [pc EXCEPT ![t] = "idle"]
      /\ narenas' = narenas - 1
      /\ tried' = [tried EXCEPT ![t] = FALSE]
      /\ UNCHANGED <<threadArena, res, rep, num, next, narenasLimit, forks>>
  BY DEF NewHeapFails, Goto, arenas
<1>3. OthersIdle(t)
  BY <1>1, <1>2 DEF OthersIdle, TypeOK
<1>4. OnList' = OnList
  BY <1>1, <1>2, <1>3, SameList DEF TypeOK
<1>5. Creating' = Creating \ {t} /\ t \in Creating
  BY <1>1, <1>2 DEF Creating, TypeOK
<1>6. IsFiniteSet(Creating) /\ Cardinality(OnList) \in Nat /\ Cardinality(Creating) \in Nat
  BY CountsFinite
<1>7. Cardinality(Creating') = Cardinality(Creating) - 1
  <2> DEFINE C == Creating
  <2> HIDE DEF C
  <2>1. IsFiniteSet(C) => Cardinality(C \ {t}) = IF t \in C THEN Cardinality(C) - 1 ELSE Cardinality(C)
    BY FS_RemoveElement, Zenon
  <2> QED BY <1>5, <1>6, <2>1 DEF C
<1>8. NarenasBounds'
  BY <1>1, <1>2, <1>4, <1>6, <1>7 DEF LimitInv, NarenasBounds, TypeOK
<1> QED BY <1>1, <1>2, <1>8 DEF LimitInv, TypeOK

(* Linking the arena leaves the counts alone.                               *)
LEMMA LinkLimit ==
  ASSUME IInv, LocksInv, LimitInv, NEW t \in Threads, LinkArena(t)
  PROVE  LimitInv'
<1>1. TypeOK /\ OnList' = OnList
  BY LinkLocks DEF IInv
<1>2. /\ pc[t] = "na_link" /\ pc' = [pc EXCEPT ![t] = "na_publish"]
      /\ UNCHANGED <<num, narenas, narenasLimit, forks>>
  BY DEF LinkArena, Goto, locals, limits
<1>3. Creating' = Creating
  BY <1>1, <1>2 DEF Creating, TypeOK
<1>4. NarenasBounds'
  BY <1>1, <1>2, <1>3 DEF LimitInv, NarenasBounds
<1> QED BY <1>1, <1>2, <1>4 DEF LimitInv, TypeOK

(* An arena that was being created is now one of the list.                  *)
LEMMA PublishLimit ==
  ASSUME IInv, LimitInv, NEW t \in Threads, PublishArena(t)
  PROVE  LimitInv'
<1> USE ArenaAssumption
<1>1. TypeOK
  BY DEF IInv
<1>2. /\ pc[t] = "na_publish" /\ pc' = [pc EXCEPT ![t] = "na_lock"]
      /\ UNCHANGED <<num, narenas, narenasLimit, forks>>
  BY DEF PublishArena, Goto, locals, limits
<1>3. res[t] \notin OnList /\ OnList' = OnList \cup {res[t]}
  BY PublishOnList
<1>4. Creating' = Creating \ {t} /\ t \in Creating
  BY <1>1, <1>2 DEF Creating, TypeOK
<1>5. /\ IsFiniteSet(OnList) /\ IsFiniteSet(Creating)
      /\ Cardinality(OnList) \in Nat /\ Cardinality(Creating) \in Nat
  BY CountsFinite
<1>6. Cardinality(Creating') = Cardinality(Creating) - 1
  <2> DEFINE C == Creating
  <2> HIDE DEF C
  <2>1. IsFiniteSet(C) => Cardinality(C \ {t}) = IF t \in C THEN Cardinality(C) - 1 ELSE Cardinality(C)
    BY FS_RemoveElement, Zenon
  <2> QED BY <1>4, <1>5, <2>1 DEF C
<1>7. Cardinality(OnList') = Cardinality(OnList) + 1
  BY <1>3, <1>5, FS_AddElement
<1>8. NarenasBounds'
  BY <1>1, <1>2, <1>5, <1>6, <1>7 DEF LimitInv, NarenasBounds, TypeOK
<1> QED BY <1>1, <1>2, <1>8 DEF LimitInv, TypeOK

(* The child keeps the count of the arenas its parent's threads never ended *)
(* creating.                                                                *)
LEMMA ForkChildLimit ==
  ASSUME IInv, LocksInv, LimitInv, NEW t \in Threads, ForkChild(t)
  PROVE  LimitInv'
<1>1. TypeOK /\ OnList' = OnList
  BY ForkChildLocks DEF IInv
<1>2. /\ pc' = [u \in Threads |-> IF u = t THEN "idle" ELSE "none"]
      /\ forks' = forks + 1 /\ UNCHANGED <<narenas, narenasLimit>>
  BY DEF ForkChild, limits
<1>3. Creating' = {}
  BY <1>2 DEF Creating
<1>4. Cardinality(OnList) \in Nat /\ Cardinality(Creating) \in Nat /\ Cardinality(Creating') = 0
  BY <1>3, CountsFinite, FS_EmptySet
<1>5. NarenasBounds'
  BY <1>1, <1>2, <1>4 DEF LimitInv, NarenasBounds, TypeOK
<1> QED BY <1>2, <1>5 DEF LimitInv

(* There is only the main arena at first.                                   *)
LEMMA InitLimit == Init => LimitInv
<1> SUFFICES ASSUME Init PROVE LimitInv
  OBVIOUS
<1> USE ArenaAssumption
<1>1. OnList = {Main} /\ Creating = {}
  BY DEF Init, OnList, Published, Creating
<1>2. Cardinality(OnList) = 1 /\ Cardinality(Creating) = 0
  BY <1>1, FS_Singleton, FS_EmptySet
<1> QED BY <1>2 DEF Init, LimitInv, NarenasBounds

(* LimitInv is inductive, relative to IInv and LocksInv.                    *)
LEMMA StepLimit == IInv /\ LocksInv /\ LimitInv /\ [Next]_vars => LimitInv'
<1> SUFFICES ASSUME IInv, LocksInv, LimitInv, [Next]_vars PROVE LimitInv'
  OBVIOUS
<1>1. ASSUME NEW t \in Threads, Step(t) PROVE LimitInv'
  <2>1. CASE Malloc(t)
    BY <2>1, MallocShape, SteadyLimit DEF Malloc
  <2>2. CASE GetFreeList(t)
    BY <2>2, GetFreeListShape, SteadyLimit DEF GetFreeList
  <2>3. CASE ArenaGet2(t)
    BY <2>3, ComputeLimitStep, CasLimit DEF ArenaGet2
  <2>4. CASE NewArena(t)
    BY <2>4, NewHeapFailsLimit, NewArenaShape, SteadyLimit, LinkLimit, PublishLimit DEF NewArena
  <2>5. CASE ReusedArena(t)
    BY <2>5, ReusedArenaShape, SteadyLimit DEF ReusedArena
  <2>6. CASE FreeCall(t) \/ ThreadFreeres(t) \/ Spawn(t)
    BY <2>6, FreeShape, SteadyLimit DEF FreeCall, ThreadFreeres
  <2>7. CASE Fork(t)
    BY <2>7, ForkEndsShape, ForkSteady, SteadyLimit, ForkChildLimit DEF Fork
  <2>8. CASE Statistics(t)
    BY <2>8, WalkShape, SteadyLimit DEF Statistics
  <2> QED BY <1>1, <2>1, <2>2, <2>3, <2>4, <2>5, <2>6, <2>7, <2>8 DEF Step
<1>2. CASE UNCHANGED vars
  <2> USE <1>2 DEF vars, locals, locks, arenas, limits
  <2>1. OnList' = OnList /\ Creating' = Creating
    BY DEF OnList, Published, Creating
  <2> QED BY <2>1 DEF LimitInv, NarenasBounds
<1> QED BY <1>1, <1>2 DEF Next

(* narenas counts the arenas of the list and those being created, exactly   *)
(* as long as there was no fork, and with arena_max set it never passes it, *)
(* however many threads race through the limit and the compare-and-swap.    *)
THEOREM AlwaysNarenasBounds == Spec => []NarenasBounds
<1>1. Spec => []LimitInv
  BY AlwaysInv, AlwaysLocks, InitLimit, StepLimit, PTL DEF Spec
<1>2. LimitInv => NarenasBounds
  BY DEF LimitInv
<1> QED BY <1>1, <1>2, PTL

=============================================================================
