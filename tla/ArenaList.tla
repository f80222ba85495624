----------------------------- MODULE ArenaList -----------------------------
(***************************************************************************)
(* The arena bookkeeping of upstream-src/arena.c: which thread allocates    *)
(* from which arena, how many threads each arena serves, the free list of   *)
(* arenas nobody uses, the circular list of all arenas that is read without *)
(* a lock, the limit on their number, and fork.                             *)
(*                                                                          *)
(* Every thread runs its own program counter; a step is one lock operation, *)
(* one access to unlocked shared data, or the body of one critical section  *)
(* of free_list_lock (nothing it writes but the list head is read without   *)
(* the lock, and it writes that once).                                      *)
(*                                                                          *)
(* A definition whose name ends in _slip, _undetached, _waits or _empty is  *)
(* a plausible mistake in the one that follows it; nothing uses it but the  *)
(* check of the properties.                                                 *)
(***************************************************************************)
EXTENDS Integers, Sequences, FiniteSets, SequencesExt

CONSTANTS
  Threads,      \* thread slots; a slot whose thread has ended may be reused
  InitThread,   \* the thread that ran __ptmalloc_init
  Arenas,       \* addresses at which a malloc_state can live
  Main,         \* &main_arena
  NoArena,      \* the null mstate
  NoThread,     \* the owner of a free lock
  ArenaMax,     \* mp_.arena_max, 0 when unset
  ArenaTest,    \* mp_.arena_test
  CoreLimit,    \* NARENAS_FROM_NCORES (__get_nprocs ())
  Walkers,      \* bound of the model: threads that ask for statistics
  MaxForks      \* bound of the model: forks followed into the child

ASSUME ArenaAssumption ==
  /\ InitThread \in Threads
  /\ Main \in Arenas
  /\ NoArena \notin Arenas
  /\ NoThread \notin Threads
  /\ IsFiniteSet(Threads) /\ IsFiniteSet(Arenas)
  /\ ArenaMax \in Nat /\ ArenaTest \in Nat /\ MaxForks \in Nat
  /\ CoreLimit \in Nat \ {0}

VARIABLES
  pc,            \* where each thread is
  threadArena,   \* thread_arena, thread local
  res,           \* the arena a call works on: result, a, ar_ptr
  rep,           \* replaced_arena of _int_new_arena until it is detached
  num,           \* n of arena_get2
  tried,         \* the call is the one made through arena_get_retry
  mutex,         \* owner of each arena's mutex
  freeListLock,  \* owner of free_list_lock
  listLock,      \* owner of list_lock
  freeList,      \* free_list with the next_free links, head first
  attached,      \* attached_threads
  next,          \* the circular list of arenas
  narenas, narenasLimit, nextToUse,
  forks          \* forks followed into the child, for MaxForks

locals == <<threadArena, res, rep, num, tried>>
locks  == <<mutex, freeListLock, listLock>>
arenas == <<freeList, attached, next>>
limits == <<narenas, narenasLimit>>
vars   == <<pc, locals, locks, arenas, limits, nextToUse, forks>>

Get2PCs   == {"gfl", "gfl_lock", "gfl_pop", "gfl_mutex", "a2_limit", "a2_read", "a2_cas"}
NewPCs    == {"new_heap", "na_list", "na_link", "na_publish", "na_lock", "na_detach", "na_mutex"}
ReusedPCs == {"ra", "ra_init", "ra_try", "ra_while", "ra_wait", "ra_lock", "ra_attach", "ra_set"}
MallocPCs == {"lock", "inarena", "unlock", "retry", "retry_lock"}
            \cup Get2PCs \cup NewPCs \cup ReusedPCs
FreePCs   == {"free_lock", "free_unlock"}
ExitPCs   == {"ex_lock", "ex_detach"}
ForkPCs   == {"fk_list", "fk_lock", "fk_fork", "fk_unlock", "fk_done"}
WalkPCs   == {"wk_lock", "wk_in", "wk_next"}
PCs       == {"none", "idle"} \cup MallocPCs \cup FreePCs \cup ExitPCs \cup ForkPCs \cup WalkPCs

----------------------------------------------------------------------------
(* main_arena is linked to itself and counts the initial thread. *)
Init ==
  /\ pc = [t \in Threads |-> IF t = InitThread THEN "idle" ELSE "none"]
  /\ threadArena = [t \in Threads |-> IF t = InitThread THEN Main ELSE NoArena]
  /\ res = [t \in Threads |-> NoArena]
  /\ rep = [t \in Threads |-> NoArena]
  /\ num = [t \in Threads |-> 0]
  /\ tried = [t \in Threads |-> FALSE]
  /\ mutex = [a \in Arenas |-> NoThread]
  /\ freeListLock = NoThread /\ listLock = NoThread
  /\ freeList = <<>>
  /\ attached = [a \in Arenas |-> IF a = Main THEN 1 ELSE 0]
  /\ next = [a \in Arenas |-> IF a = Main THEN Main ELSE NoArena]
  /\ narenas = 1 /\ narenasLimit = 0
  /\ nextToUse = NoArena
  /\ forks = 0

Goto(t, from, to) == pc[t] = from /\ pc' = [pc EXCEPT ![t] = to]

(* Lock and unlock of an arena's mutex; a lock is a step only when free. *)
LockArena(t, a)   == mutex[a] = NoThread /\ mutex' = [mutex EXCEPT ![a] = t]
UnlockArena(t, a) == mutex' = [mutex EXCEPT ![a] = NoThread]

(* On the circular list: linked, and main_arena.next was already written. *)
Published(a) == next[a] # NoArena /\ \A u \in Threads : pc[u] = "na_publish" => res[u] # a
Unborn(a)    == a # Main /\ next[a] = NoArena /\ attached[a] = 0

(* detach_arena: the counter of the replaced arena, when there is one. *)
Detach(att, a) == IF a = NoArena THEN att ELSE [att EXCEPT ![a] = @ - 1]

(* One critical section of free_list_lock: a step that takes the lock ... *)
TakeFreeListLock(t, from, to) ==
  /\ Goto(t, from, to)
  /\ freeListLock = NoThread
  /\ freeListLock' = t
  /\ UNCHANGED <<locals, mutex, listLock, arenas, limits, nextToUse, forks>>
(* ... and a body that ends with its release. *)
DropFreeListLock(t) ==
  /\ freeListLock' = NoThread
  /\ UNCHANGED <<mutex, listLock, next, nextToUse, forks, limits>>

----------------------------------------------------------------------------
(* malloc, memalign, calloc: arena_get, the allocation, one retry. *)

(* arena_get: the arena of the thread, or arena_get2 with nothing to avoid. *)
ArenaGet_slip(t) ==
  /\ Goto(t, "idle", "lock")
  /\ res' = [res EXCEPT ![t] = threadArena[t]]
  /\ tried' = [tried EXCEPT ![t] = FALSE]
  /\ UNCHANGED <<threadArena, rep, num, locks, arenas, limits, nextToUse, forks>>

ArenaGet(t) ==
  /\ Goto(t, "idle", IF threadArena[t] # NoArena THEN "lock" ELSE "gfl")
  /\ res' = [res EXCEPT ![t] = threadArena[t]]
  /\ tried' = [tried EXCEPT ![t] = FALSE]
  /\ UNCHANGED <<threadArena, rep, num, locks, arenas, limits, nextToUse, forks>>

ArenaLock(t) ==
  /\ Goto(t, "lock", "inarena")
  /\ LockArena(t, res[t])
  /\ UNCHANGED <<locals, freeListLock, listLock, arenas, limits, nextToUse, forks>>

(* _int_malloc found a chunk, or has failed in the second arena too. *)
Allocated(t) ==
  /\ Goto(t, "inarena", "unlock")
  /\ UNCHANGED <<locals, locks, arenas, limits, nextToUse, forks>>

MallocUnlock(t) ==
  /\ Goto(t, "unlock", "idle")
  /\ UnlockArena(t, res[t])
  /\ res' = [res EXCEPT ![t] = NoArena]
  /\ tried' = [tried EXCEPT ![t] = FALSE]
  /\ UNCHANGED <<threadArena, rep, num, freeListLock, listLock, arenas, limits,
                 nextToUse, forks>>

(* _int_malloc returned null the first time: arena_get_retry gives up the   *)
(* arena, then goes to main_arena, or from main_arena to arena_get2.        *)
Retry_slip(t) ==
  /\ ~ tried[t]
  /\ Goto(t, "inarena", IF res[t] # Main THEN "retry_lock" ELSE "gfl")
  /\ res' = [res EXCEPT ![t] = IF res[t] # Main THEN Main ELSE NoArena]
  /\ tried' = [tried EXCEPT ![t] = TRUE]
  /\ UNCHANGED <<threadArena, rep, num, locks, arenas, limits, nextToUse, forks>>

Retry(t) ==
  /\ ~ tried[t]
  /\ Goto(t, "inarena", IF res[t] # Main THEN "retry_lock" ELSE "gfl")
  /\ UnlockArena(t, res[t])
  /\ res' = [res EXCEPT ![t] = IF res[t] # Main THEN Main ELSE NoArena]
  /\ tried' = [tried EXCEPT ![t] = TRUE]
  /\ UNCHANGED <<threadArena, rep, num, freeListLock, listLock, arenas, limits,
                 nextToUse, forks>>

RetryLock(t) ==
  /\ Goto(t, "retry_lock", "inarena")
  /\ LockArena(t, res[t])
  /\ UNCHANGED <<locals, freeListLock, listLock, arenas, limits, nextToUse, forks>>

(* The arena arena_get2 must avoid: the one just given up in the retry. *)
AvoidArena(t) == IF tried[t] THEN Main ELSE NoArena

----------------------------------------------------------------------------
(* get_free_list: the head is read without the lock, then again with it. *)

PeekFreeList(t) ==
  /\ Goto(t, "gfl", IF freeList # <<>> THEN "gfl_lock" ELSE "a2_limit")
  /\ UNCHANGED <<locals, locks, arenas, limits, nextToUse, forks>>

PopFreeList_slip(t) ==
  /\ Goto(t, "gfl_pop", IF freeList # <<>> THEN "gfl_mutex" ELSE "a2_limit")
  /\ IF freeList = <<>>
     THEN UNCHANGED <<freeList, attached, res>>
     ELSE /\ freeList' = Tail(freeList)
          /\ attached' = Detach(attached, threadArena[t])
          /\ res' = [res EXCEPT ![t] = Head(freeList)]
  /\ DropFreeListLock(t)
  /\ UNCHANGED <<threadArena, rep, num, tried>>

PopFreeList(t) ==
  /\ Goto(t, "gfl_pop", IF freeList # <<>> THEN "gfl_mutex" ELSE "a2_limit")
  /\ IF freeList = <<>>
     THEN UNCHANGED <<freeList, attached, res>>
     ELSE /\ freeList' = Tail(freeList)
          /\ attached' = Detach([attached EXCEPT ![Head(freeList)] = 1], threadArena[t])
          /\ res' = [res EXCEPT ![t] = Head(freeList)]
  /\ DropFreeListLock(t)
  /\ UNCHANGED <<threadArena, rep, num, tried>>

(* No fork sees the thread between the lock and its local assignment. *)
TakeFreeArena(t) ==
  /\ Goto(t, "gfl_mutex", "inarena")
  /\ LockArena(t, res[t])
  /\ threadArena' = [threadArena EXCEPT ![t] = res[t]]
  /\ UNCHANGED <<res, rep, num, tried, freeListLock, listLock, arenas, limits,
                 nextToUse, forks>>

----------------------------------------------------------------------------
(* arena_get2 once the free list was seen empty. *)

ComputeLimit(t) ==
  /\ Goto(t, "a2_limit", "a2_read")
  /\ narenasLimit' = IF narenasLimit # 0 THEN narenasLimit
                     ELSE IF ArenaMax # 0 THEN ArenaMax
                     ELSE IF narenas > ArenaTest THEN CoreLimit ELSE 0
  /\ UNCHANGED <<locals, locks, arenas, narenas, nextToUse, forks>>

(* n <= narenas_limit - 1 in size_t: a limit of 0 wraps to no limit. *)
BelowLimit(n) == narenasLimit = 0 \/ n <= narenasLimit - 1

ReadNarenas(t) ==
  /\ Goto(t, "a2_read", IF BelowLimit(narenas) THEN "a2_cas" ELSE "ra")
  /\ num' = [num EXCEPT ![t] = narenas]
  /\ UNCHANGED <<threadArena, res, rep, tried, locks, arenas, limits, nextToUse, forks>>

CasNarenas(t) ==
  /\ Goto(t, "a2_cas", IF narenas = num[t] THEN "new_heap" ELSE "a2_read")
  /\ narenas' = IF narenas = num[t] THEN num[t] + 1 ELSE narenas
  /\ num' = [num EXCEPT ![t] = 0]
  /\ UNCHANGED <<threadArena, res, rep, tried, locks, arenas, narenasLimit, nextToUse, forks>>

----------------------------------------------------------------------------
(* _int_new_arena *)

(* No heap: arena_get2 returns null, malloc goes on without any arena. *)
NewHeapFails_slip(t) ==
  /\ Goto(t, "new_heap", "idle")
  /\ tried' = [tried EXCEPT ![t] = FALSE]
  /\ UNCHANGED <<threadArena, res, rep, num, locks, arenas, limits, nextToUse, forks>>

NewHeapFails(t) ==
  /\ Goto(t, "new_heap", "idle")
  /\ narenas' = narenas - 1
  /\ tried' = [tried EXCEPT ![t] = FALSE]
  /\ UNCHANGED <<threadArena, res, rep, num, locks, arenas, narenasLimit, nextToUse, forks>>

NewHeap(t) ==
  /\ Goto(t, "new_heap", "na_list")
  /\ \E a \in Arenas :
       /\ Unborn(a)
       /\ attached' = [attached EXCEPT ![a] = 1]
       /\ rep' = [rep EXCEPT ![t] = threadArena[t]]
       /\ threadArena' = [threadArena EXCEPT ![t] = a]
       /\ res' = [res EXCEPT ![t] = a]
  /\ UNCHANGED <<num, tried, locks, freeList, next, limits, nextToUse, forks>>

TakeListLock(t, from, to) ==
  /\ Goto(t, from, to)
  /\ listLock = NoThread
  /\ listLock' = t
  /\ UNCHANGED <<locals, mutex, freeListLock, arenas, limits, nextToUse, forks>>

(* a->next first, then, after the write barrier, main_arena.next. *)
LinkArena_slip(t) ==
  /\ Goto(t, "na_link", "na_publish")
  /\ UNCHANGED <<locals, locks, arenas, limits, nextToUse, forks>>

LinkArena(t) ==
  /\ Goto(t, "na_link", "na_publish")
  /\ next' = [next EXCEPT ![res[t]] = next[Main]]
  /\ UNCHANGED <<locals, locks, freeList, attached, limits, nextToUse, forks>>

PublishArena(t) ==
  /\ Goto(t, "na_publish", "na_lock")
  /\ next' = [next EXCEPT ![Main] = res[t]]
  /\ listLock' = NoThread
  /\ UNCHANGED <<locals, mutex, freeListLock, freeList, attached, limits, nextToUse, forks>>

DetachReplaced(t) ==
  /\ Goto(t, "na_detach", "na_mutex")
  /\ attached' = Detach(attached, rep[t])
  /\ rep' = [rep EXCEPT ![t] = NoArena]
  /\ DropFreeListLock(t)
  /\ UNCHANGED <<threadArena, res, num, tried, freeList>>

LockNewArena(t) ==
  /\ Goto(t, "na_mutex", "inarena")
  /\ LockArena(t, res[t])
  /\ UNCHANGED <<locals, freeListLock, listLock, arenas, limits, nextToUse, forks>>

----------------------------------------------------------------------------
(* reused_arena: next_to_use and the next links are read without a lock. *)

StartScan(t) ==
  /\ Goto(t, "ra", IF nextToUse = NoArena THEN "ra_init" ELSE "ra_try")
  /\ res' = [res EXCEPT ![t] = nextToUse]
  /\ UNCHANGED <<threadArena, rep, num, tried, locks, arenas, limits, nextToUse, forks>>

InitNextToUse(t) ==
  /\ Goto(t, "ra_init", "ra_try")
  /\ nextToUse' = Main
  /\ res' = [res EXCEPT ![t] = Main]
  /\ UNCHANGED <<threadArena, rep, num, tried, locks, arenas, limits, forks>>

TryLockSucceeds(t) ==
  /\ Goto(t, "ra_try", "ra_lock")
  /\ LockArena(t, res[t])
  /\ UNCHANGED <<locals, freeListLock, listLock, arenas, limits, nextToUse, forks>>

TryLockFails(t) ==
  /\ Goto(t, "ra_try", "ra_while")
  /\ mutex[res[t]] # NoThread
  /\ res' = [res EXCEPT ![t] = next[res[t]]]
  /\ UNCHANGED <<threadArena, rep, num, tried, locks, arenas, limits, nextToUse, forks>>

(* while (result != next_to_use), then the step past the arena to avoid. *)
ScanAgain_slip(t) ==
  /\ Goto(t, "ra_while", "ra_try")
  /\ UNCHANGED <<locals, locks, arenas, limits, nextToUse, forks>>

ScanAgain(t) ==
  /\ Goto(t, "ra_while", IF res[t] # nextToUse THEN "ra_try" ELSE "ra_wait")
  /\ res' = IF res[t] = nextToUse /\ res[t] = AvoidArena(t)
            THEN [res EXCEPT ![t] = next[res[t]]] ELSE res
  /\ UNCHANGED <<threadArena, rep, num, tried, locks, arenas, limits, nextToUse, forks>>

WaitForArena(t) ==
  /\ Goto(t, "ra_wait", "ra_lock")
  /\ LockArena(t, res[t])
  /\ UNCHANGED <<locals, freeListLock, listLock, arenas, limits, nextToUse, forks>>

(* remove_from_free_list takes the first occurrence out, if there is one. *)
RemoveFromFreeList(a) == freeList' = RemoveFirst(freeList, a)

AttachReused_undetached(t) ==
  /\ Goto(t, "ra_attach", "ra_set")
  /\ attached' = [attached EXCEPT ![res[t]] = @ + 1]
  /\ RemoveFromFreeList(res[t])
  /\ DropFreeListLock(t)
  /\ UNCHANGED locals

AttachReused_slip(t) ==
  /\ Goto(t, "ra_attach", "ra_set")
  /\ attached' = [Detach(attached, threadArena[t]) EXCEPT ![res[t]] = @ + 1]
  /\ DropFreeListLock(t)
  /\ UNCHANGED <<locals, freeList>>

AttachReused(t) ==
  /\ Goto(t, "ra_attach", "ra_set")
  /\ attached' = [Detach(attached, threadArena[t]) EXCEPT ![res[t]] = @ + 1]
  /\ RemoveFromFreeList(res[t])
  /\ DropFreeListLock(t)
  /\ UNCHANGED locals

SetThreadArena(t) ==
  /\ Goto(t, "ra_set", "inarena")
  /\ threadArena' = [threadArena EXCEPT ![t] = res[t]]
  /\ nextToUse' = next[res[t]]
  /\ UNCHANGED <<res, rep, num, tried, locks, arenas, limits, forks>>

----------------------------------------------------------------------------
(* free and realloc lock the arena the chunk came from, whoever uses it. *)

Free(t) ==
  /\ Goto(t, "idle", "free_lock")
  /\ \E a \in Arenas : Published(a) /\ res' = [res EXCEPT ![t] = a]
  /\ UNCHANGED <<threadArena, rep, num, tried, locks, arenas, limits, nextToUse, forks>>

FreeLock(t) ==
  /\ Goto(t, "free_lock", "free_unlock")
  /\ LockArena(t, res[t])
  /\ UNCHANGED <<locals, freeListLock, listLock, arenas, limits, nextToUse, forks>>

FreeUnlock(t) ==
  /\ Goto(t, "free_unlock", "idle")
  /\ UnlockArena(t, res[t])
  /\ res' = [res EXCEPT ![t] = NoArena]
  /\ UNCHANGED <<threadArena, rep, num, tried, freeListLock, listLock, arenas, limits,
                 nextToUse, forks>>

----------------------------------------------------------------------------
(* Threads start without an arena and end in                               *)
(* __malloc_arena_thread_freeres; the exit of the last one ends the process *)
(* and is left out.                                                         *)

Live(t) == pc[t] \notin ({"none"} \cup ExitPCs)

Spawn(t) ==
  /\ Goto(t, "none", "idle")
  /\ \E u \in Threads : pc[u] = "idle"
  /\ UNCHANGED <<locals, locks, arenas, limits, nextToUse, forks>>

(* thread_arena is read into a local and cleared before the lock. *)
ThreadExit(t) ==
  /\ \E u \in Threads \ {t} : Live(u)
  /\ Goto(t, "idle", IF threadArena[t] = NoArena THEN "none" ELSE "ex_lock")
  /\ res' = [res EXCEPT ![t] = threadArena[t]]
  /\ threadArena' = [threadArena EXCEPT ![t] = NoArena]
  /\ UNCHANGED <<rep, num, tried, locks, arenas, limits, nextToUse, forks>>

ExitDetach_slip(t) ==
  /\ Goto(t, "ex_detach", "none")
  /\ attached' = [attached EXCEPT ![res[t]] = @ - 1]
  /\ res' = [res EXCEPT ![t] = NoArena]
  /\ DropFreeListLock(t)
  /\ UNCHANGED <<threadArena, rep, num, tried, freeList>>

ExitDetach(t) ==
  /\ Goto(t, "ex_detach", "none")
  /\ attached' = [attached EXCEPT ![res[t]] = @ - 1]
  /\ freeList' = IF attached'[res[t]] = 0 THEN <<res[t]>> \o freeList ELSE freeList
  /\ res' = [res EXCEPT ![t] = NoArena]
  /\ DropFreeListLock(t)
  /\ UNCHANGED <<threadArena, rep, num, tried>>

----------------------------------------------------------------------------
(* mallinfo, malloc_stats, malloc_info and malloc_trim go from arena to      *)
(* arena, each with its mutex held, along next but without list_lock, until *)
(* they are back at main_arena.                                             *)

Walk(t) ==
  /\ t \in Walkers
  /\ Goto(t, "idle", "wk_lock")
  /\ res' = [res EXCEPT ![t] = Main]
  /\ UNCHANGED <<threadArena, rep, num, tried, locks, arenas, limits, nextToUse, forks>>

WalkLock(t) ==
  /\ Goto(t, "wk_lock", "wk_in")
  /\ LockArena(t, res[t])
  /\ UNCHANGED <<locals, freeListLock, listLock, arenas, limits, nextToUse, forks>>

WalkUnlock(t) ==
  /\ Goto(t, "wk_in", "wk_next")
  /\ UnlockArena(t, res[t])
  /\ UNCHANGED <<locals, freeListLock, listLock, arenas, limits, nextToUse, forks>>

WalkNext(t) ==
  /\ Goto(t, "wk_next", IF next[res[t]] = Main THEN "idle" ELSE "wk_lock")
  /\ res' = [res EXCEPT ![t] = IF next[res[t]] = Main THEN NoArena ELSE next[res[t]]]
  /\ UNCHANGED <<threadArena, rep, num, tried, locks, arenas, limits, nextToUse, forks>>

----------------------------------------------------------------------------
(* fork: the parent holds list_lock and every arena's mutex around it. *)

ForkStart(t) ==
  /\ forks < MaxForks
  /\ Goto(t, "idle", "fk_list")
  /\ UNCHANGED <<locals, locks, arenas, limits, nextToUse, forks>>

ForkListLock(t) ==
  /\ Goto(t, "fk_list", "fk_lock")
  /\ listLock = NoThread
  /\ listLock' = t
  /\ res' = [res EXCEPT ![t] = Main]
  /\ UNCHANGED <<threadArena, rep, num, tried, mutex, freeListLock, arenas, limits,
                 nextToUse, forks>>

ForkLockNext(t) ==
  /\ Goto(t, "fk_lock", IF next[res[t]] = Main THEN "fk_fork" ELSE "fk_lock")
  /\ LockArena(t, res[t])
  /\ res' = [res EXCEPT ![t] = next[res[t]]]
  /\ UNCHANGED <<threadArena, rep, num, tried, freeListLock, listLock, arenas, limits,
                 nextToUse, forks>>

(* The parent goes on in __malloc_fork_unlock_parent. *)
ForkParent(t) ==
  /\ Goto(t, "fk_fork", "fk_unlock")
  /\ UNCHANGED <<locals, locks, arenas, limits, nextToUse, forks>>

ForkUnlockNext_slip(t) ==
  /\ Goto(t, "fk_unlock", IF next[res[t]] = NoArena THEN "fk_done" ELSE "fk_unlock")
  /\ UnlockArena(t, res[t])
  /\ res' = [res EXCEPT ![t] = next[res[t]]]
  /\ UNCHANGED <<threadArena, rep, num, tried, freeListLock, listLock, arenas, limits,
                 nextToUse, forks>>

ForkUnlockNext(t) ==
  /\ Goto(t, "fk_unlock", IF next[res[t]] = Main THEN "fk_done" ELSE "fk_unlock")
  /\ UnlockArena(t, res[t])
  /\ res' = [res EXCEPT ![t] = next[res[t]]]
  /\ UNCHANGED <<threadArena, rep, num, tried, freeListLock, listLock, arenas, limits,
                 nextToUse, forks>>

ForkUnlockList(t) ==
  /\ Goto(t, "fk_done", "idle")
  /\ listLock' = NoThread
  /\ res' = [res EXCEPT ![t] = NoArena]
  /\ UNCHANGED <<threadArena, rep, num, tried, mutex, freeListLock, arenas, limits,
                 nextToUse, forks>>

(* The arenas on the circular list, from main_arena on. *)
OnList == { a \in Arenas : Published(a) }

(* free_list as __malloc_fork_unlock_child pushes it: the arenas in the order *)
(* of the circular list, without the caller's own, the last one in front.   *)
After(a, own) == IF next[a] = own THEN next[own] ELSE next[a]
ChildFreeList(fl, own) ==
  /\ fl # <<>> => fl[Len(fl)] = IF own = Main THEN next[Main] ELSE Main
  /\ \A i \in 1 .. Len(fl) - 1 : fl[i] = After(fl[i + 1], own)

ChildAttached(own) ==
  [a \in Arenas |-> IF a = own THEN 1 ELSE IF a \in OnList THEN 0 ELSE attached[a]]

ChildUnused(own) == OnList \ {own}

(* The model follows the child: only the forking thread is left in it, and  *)
(* __malloc_fork_unlock_child runs before anything else. An arena another   *)
(* thread was still creating is on no list and keeps its counter.           *)
ForkChild(t) ==
  /\ pc[t] = "fk_fork"
  /\ forks' = forks + 1
  /\ pc' = [u \in Threads |-> IF u = t THEN "idle" ELSE "none"]
  /\ threadArena' = [u \in Threads |-> IF u = t THEN threadArena[t] ELSE NoArena]
  /\ res' = [u \in Threads |-> NoArena]
  /\ rep' = [u \in Threads |-> NoArena]
  /\ num' = [u \in Threads |-> 0]
  /\ tried' = [u \in Threads |-> FALSE]
  /\ mutex' = [a \in Arenas |-> IF a \in OnList THEN NoThread ELSE mutex[a]]
  /\ freeListLock' = NoThread /\ listLock' = NoThread
  /\ attached' = ChildAttached(threadArena[t])
  /\ \E fl \in SetToSeqs(ChildUnused(threadArena[t])) :
       ChildFreeList(fl, threadArena[t]) /\ freeList' = fl
  /\ UNCHANGED <<next, limits, nextToUse>>

----------------------------------------------------------------------------
Malloc(t) ==
  \/ ArenaGet(t) \/ ArenaLock(t) \/ Allocated(t) \/ MallocUnlock(t)
  \/ Retry(t) \/ RetryLock(t)

GetFreeList(t) ==
  \/ PeekFreeList(t) \/ TakeFreeListLock(t, "gfl_lock", "gfl_pop")
  \/ PopFreeList(t) \/ TakeFreeArena(t)

ArenaGet2(t) == ComputeLimit(t) \/ ReadNarenas(t) \/ CasNarenas(t)

NewArena(t) ==
  \/ NewHeapFails(t) \/ NewHeap(t) \/ TakeListLock(t, "na_list", "na_link")
  \/ LinkArena(t) \/ PublishArena(t) \/ TakeFreeListLock(t, "na_lock", "na_detach")
  \/ DetachReplaced(t) \/ LockNewArena(t)

ReusedArena(t) ==
  \/ StartScan(t) \/ InitNextToUse(t) \/ TryLockSucceeds(t) \/ TryLockFails(t)
  \/ ScanAgain(t) \/ WaitForArena(t) \/ TakeFreeListLock(t, "ra_lock", "ra_attach")
  \/ AttachReused(t) \/ SetThreadArena(t)

FreeCall(t) == Free(t) \/ FreeLock(t) \/ FreeUnlock(t)

ThreadFreeres(t) == ThreadExit(t) \/ TakeFreeListLock(t, "ex_lock", "ex_detach") \/ ExitDetach(t)

Statistics(t) == Walk(t) \/ WalkLock(t) \/ WalkUnlock(t) \/ WalkNext(t)

Fork(t) ==
  \/ ForkStart(t) \/ ForkListLock(t) \/ ForkLockNext(t) \/ ForkParent(t)
  \/ ForkUnlockNext(t) \/ ForkUnlockList(t) \/ ForkChild(t)

Step(t) ==
  \/ Malloc(t) \/ GetFreeList(t) \/ ArenaGet2(t) \/ NewArena(t) \/ ReusedArena(t)
  \/ FreeCall(t) \/ ThreadFreeres(t) \/ Statistics(t) \/ Fork(t)
  \/ Spawn(t)

Next == \E t \in Threads : Step(t)

Spec == Init /\ [][Next]_vars

----------------------------------------------------------------------------
(* Where a call dereferences its arena, outside the scan of reused_arena. *)
ArenaPCs == {"lock", "inarena", "unlock", "retry_lock", "gfl_mutex"}
            \cup (NewPCs \ {"new_heap"}) \cup FreePCs \cup ExitPCs \cup WalkPCs

(* Type invariant; no call works on a null arena. *)
TypeOK ==
  /\ pc \in [Threads -> PCs]
  /\ threadArena \in [Threads -> Arenas \cup {NoArena}]
  /\ res \in [Threads -> Arenas \cup {NoArena}]
  /\ rep \in [Threads -> Arenas \cup {NoArena}]
  /\ num \in [Threads -> Int]
  /\ tried \in [Threads -> BOOLEAN]
  /\ mutex \in [Arenas -> Threads \cup {NoThread}]
  /\ freeListLock \in Threads \cup {NoThread}
  /\ listLock \in Threads \cup {NoThread}
  /\ freeList \in Seq(Arenas)
  /\ attached \in [Arenas -> Int]
  /\ next \in [Arenas -> Arenas \cup {NoArena}]
  /\ narenas \in Int /\ narenasLimit \in Nat
  /\ nextToUse \in Arenas \cup {NoArena}
  /\ forks \in Nat
  /\ \A t \in Threads : pc[t] \in ArenaPCs => res[t] # NoArena

(* The arenas whose attached_threads counts thread t. Between the critical  *)
(* section of free_list_lock and the assignment of thread_arena, and in a   *)
(* thread that is leaving, that is the arena of the call; a thread that     *)
(* creates an arena is counted by the new one and, until detach_arena, by   *)
(* the one it leaves.                                                       *)
CountedBy(t) ==
  IF pc[t] \in {"gfl_mutex", "ra_set"} \cup ExitPCs
  THEN {res[t]}
  ELSE {threadArena[t], rep[t]} \ {NoArena}

AttachedTo(a) == { t \in Threads : a \in CountedBy(t) }

(* attached_threads of every arena on the list is the number of threads     *)
(* that really use it, at every point of every interleaving and after fork: *)
(* what the six places that write it (arena.c:202, 616, 641, 706, 795, 897) *)
(* must agree on.                                                           *)
AttachedIsCount ==
  \A a \in Arenas : Published(a) => attached[a] = Cardinality(AttachedTo(a))

(* free_list holds only arenas of the list that no thread uses, each once:  *)
(* the assertions at arena.c:705 and arena.c:731 cannot fail.               *)
FreeListUnused ==
  /\ \A i \in 1 .. Len(freeList) : attached[freeList[i]] = 0 /\ Published(freeList[i])
  /\ \A i, j \in 1 .. Len(freeList) : freeList[i] = freeList[j] => i = j

(* detach_arena and thread exit never take a counter below zero: the        *)
(* assertions at arena.c:611 and arena.c:896.                               *)
DetachPositive ==
  \A t \in Threads :
    /\ pc[t] \in {"gfl_pop", "ra_attach"} /\ threadArena[t] # NoArena
         => attached[threadArena[t]] > 0
    /\ pc[t] = "na_detach" /\ rep[t] # NoArena => attached[rep[t]] > 0
    /\ pc[t] = "ex_detach" => attached[res[t]] > 0

(* No arena but main_arena is ever lost: once its last thread has left, it  *)
(* is on free_list for the next thread. detach_arena relies on being called *)
(* for main_arena only (arena.c:612-615).                                   *)
NoArenaLost ==
  \A a \in Arenas \ {Main} :
    Published(a) /\ attached[a] = 0 => \E i \in 1 .. Len(freeList) : freeList[i] = a

(* A thread inside an arena, or unlocking it, owns its mutex, whatever the  *)
(* way it got there.                                                        *)
OwnsMutex ==
  \A t \in Threads :
    pc[t] \in {"inarena", "unlock", "free_unlock", "ra_lock", "ra_attach", "ra_set", "wk_in"}
      => mutex[res[t]] = t

(* The lock order of arena.c:110-113: a thread that waits for list_lock has *)
(* no arena locked; a thread that waits for an arena to work in, other than *)
(* to fork, has no other arena and no list_lock.                            *)
LockOrder ==
  \A t \in Threads :
    /\ pc[t] \in {"na_list", "fk_list"} => \A a \in Arenas : mutex[a] # t
    /\ pc[t] \in {"lock", "retry_lock", "gfl_mutex", "na_mutex", "ra_wait", "free_lock", "wk_lock"}
         => listLock # t /\ \A a \in Arenas : mutex[a] # t

(* Whoever works in an arena holds its mutex, and nobody can wait for one    *)
(* lock in a way that another waits for him.                                *)
LocksSafe == OwnsMutex /\ LockOrder

(* The unlocked traversals of reused_arena and of the statistics never      *)
(* leave the circular list, although _int_new_arena inserts into it         *)
(* meanwhile (the FIXME at arena.c:763).                                    *)
ScanStaysOnList ==
  \A t \in Threads :
    pc[t] \in (ReusedPCs \ {"ra", "ra_init"}) \cup WalkPCs => res[t] \in Arenas /\ Published(res[t])

Creating == { t \in Threads : pc[t] \in {"new_heap", "na_list", "na_link", "na_publish"} }

(* narenas counts every arena of the list and every arena being created     *)
(* (exactly, until a fork loses arenas other threads were creating), and    *)
(* with arena_max set it never passes that limit.                           *)
NarenasBounds ==
  /\ narenas >= Cardinality(OnList) + Cardinality(Creating)
  /\ forks = 0 => narenas = Cardinality(OnList) + Cardinality(Creating)
  /\ ArenaMax # 0 => narenas <= ArenaMax

----------------------------------------------------------------------------
(* Fairness: the kernel schedules every thread, and a lock that is released *)
(* again and again is eventually obtained by each thread that waits for it. *)
(* Nothing forces a thread to call malloc, to exit or to fork, nor a heap   *)
(* to be available.                                                         *)
Running(t) ==
  \/ ArenaGet2(t) \/ Allocated(t) \/ MallocUnlock(t) \/ PeekFreeList(t) \/ PopFreeList(t)
  \/ NewHeapFails(t) \/ NewHeap(t) \/ LinkArena(t) \/ PublishArena(t) \/ DetachReplaced(t)
  \/ StartScan(t) \/ InitNextToUse(t) \/ TryLockSucceeds(t) \/ TryLockFails(t)
  \/ ScanAgain(t) \/ AttachReused(t) \/ SetThreadArena(t) \/ FreeUnlock(t) \/ ExitDetach(t)
  \/ ForkParent(t) \/ ForkUnlockNext(t) \/ ForkUnlockList(t)
  \/ WalkUnlock(t) \/ WalkNext(t)

Locking(t) ==
  \/ ArenaLock(t) \/ RetryLock(t) \/ TakeFreeArena(t) \/ LockNewArena(t) \/ WaitForArena(t)
  \/ TakeFreeListLock(t, "gfl_lock", "gfl_pop") \/ TakeFreeListLock(t, "na_lock", "na_detach")
  \/ TakeFreeListLock(t, "ra_lock", "ra_attach") \/ TakeFreeListLock(t, "ex_lock", "ex_detach")
  \/ TakeListLock(t, "na_list", "na_link")
  \/ FreeLock(t) \/ ForkListLock(t) \/ ForkLockNext(t) \/ WalkLock(t)

FairSpec ==
  Spec /\ \A t \in Threads : WF_vars(Running(t)) /\ SF_vars(Locking(t))

(* Every fork gets all the locks and gives them back, however many arenas   *)
(* other threads add or use meanwhile.                                      *)
ForkReturns == \A t \in Threads : pc[t] \in ForkPCs ~> pc[t] \notin ForkPCs

(* Every free, every thread exit and every walk over the arenas ends,       *)
(* although other threads add arenas meanwhile.                             *)
FreeReturns ==
  \A t \in Threads : pc[t] \in FreePCs \cup ExitPCs \cup WalkPCs ~> pc[t] \in {"idle", "none"}

(* Every malloc, memalign or calloc call ends, unless other threads keep    *)
(* winning the race on narenas (arena.c:845): the compare-and-swap loop is  *)
(* lock free, not wait free.                                                *)
MallocReturns ==
  \A t \in Threads :
    pc[t] \in MallocPCs ~> \/ pc[t] \notin MallocPCs
                           \/ \E u \in Threads \ {t} : pc[u] = "new_heap"

(* No call and no thread exit waits for ever.                               *)
CallsReturn == FreeReturns /\ MallocReturns
=============================================================================
