------------------------------- MODULE Tcache -------------------------------
(***************************************************************************)
(* The per-thread cache in front of the arenas (malloc.c, USE_TCACHE). A    *)
(* cache belongs to one thread and takes no lock; the blocks in it come     *)
(* from any thread. The arenas are what the models of them show: a call     *)
(* that allocates is given a chunk nobody has, or nothing, and, while the   *)
(* arena is locked, may put more chunks of that size in the caller's cache. *)
(*                                                                          *)
(* The links between cached blocks are mangled with the address of the      *)
(* field that holds them; the head of a list is not. Sizes count units of   *)
(* MALLOC_ALIGNMENT.                                                        *)
(*                                                                          *)
(* A definition whose name ends in _slip (or _anywhere) is a        *)
(* plausible mistake in the one that follows it; nothing uses it but the    *)
(* check of the properties.                                                 *)
(***************************************************************************)
EXTENDS Integers, Sequences, FiniteSets, SequencesExt

CONSTANTS
  Threads,
  Places,       \* addresses at which an arena can have a chunk
  Aligned,      \* those whose block is aligned to what memalign is asked for
  NULL,
  Garbage,      \* what a mangled pointer gives when read with the wrong address
  Sizes,        \* chunk sizes
  Requests,     \* chunk sizes of requests
  TcIndex,      \* csize2tidx and large_csize2tidx: size to bin
  Bins,         \* TCACHE_MAX_BINS bins
  SmallBins,    \* the first of them, one size each
  MaxBytes,     \* mp_.tcache_max_bytes
  Count,        \* mp_.tcache_count
  StructSize    \* chunk size of a tcache_perthread_struct

(* num_slots counts in sixteen bits. *)
MAX_TCACHE_COUNT == 65535

ASSUME TcacheAssumption ==
  /\ IsFiniteSet(Threads) /\ IsFiniteSet(Places) /\ Aligned \subseteq Places
  /\ NULL \notin Places /\ Garbage \notin Places \cup {NULL}
  /\ Requests \subseteq Sizes /\ Sizes \subseteq Nat /\ StructSize \in Sizes
  /\ Count \in Nat /\ Count <= MAX_TCACHE_COUNT /\ MaxBytes \in Nat /\ SmallBins \subseteq Bins
  /\ \A s \in Sizes : s < MaxBytes => TcIndex[s] \in Bins
  /\ \A s, u \in { n \in Sizes : n < MaxBytes } :
       TcIndex[s] \in SmallBins /\ TcIndex[s] = TcIndex[u] => s = u

VARIABLES
  cache,   \* of each thread: whether it is live or one of the two dummies, its
           \* place, num_slots and entries
  next,    \* tcache_entry.next of the block at a place
  key,     \* the places where tcache_entry.key holds tcache_key
  out,     \* chunks the arenas have handed out: place to size
  live,    \* blocks the program owns: place to requested size
  pc, op   \* of each thread: what it does, and for what

vars == <<cache, next, key, out, live, pc, op>>

NoOp == [kind |-> "none", nb |-> 0, mem |-> NULL, tmp |-> [i \in Bins |-> NULL]]

(* The dummies are all zero, so they look like an empty cache that is full. *)
Dummy(s) == [state |-> s, at |-> NULL, slots |-> [i \in Bins |-> 0], heads |-> [i \in Bins |-> NULL]]
Disabled == Dummy("disabled")
Fresh(p) == [state |-> "live", at |-> p, slots |-> [i \in Bins |-> Count], heads |-> [i \in Bins |-> NULL]]

(* The links are mangled; where a block is not cached the words are the     *)
(* program's.                                                               *)
Protect(pos, ptr) == [pos |-> pos, ptr |-> ptr]
UserData == Protect(NULL, Garbage)

Init ==
  /\ cache = [t \in Threads |-> Dummy("inactive")]
  /\ next = [p \in Places |-> Protect(NULL, Garbage)]
  /\ key = {} /\ out = [p \in {} |-> 0] /\ live = [p \in {} |-> 0]
  /\ pc = [t \in Threads |-> "idle"] /\ op = [t \in Threads |-> NoOp]

Drop(f, p)    == [q \in DOMAIN f \ {p} |-> f[q]]
Give(f, p, n) == [q \in DOMAIN f \cup {p} |-> IF q = p THEN n ELSE f[q]]

Inactive(t) == cache[t].state = "inactive"
Enabled(t)  == cache[t].state = "live"

----------------------------------------------------------------------------
(* Lists. w is the thread's view while it works on its cache: the cache,    *)
(* the links and the keys.                                                  *)

View(t) == [c |-> cache[t], next |-> next, key |-> key]
Commit(t, w) == cache' = [cache EXCEPT ![t] = w.c] /\ next' = w.next /\ key' = w.key

Reveal(nx, pos)   == IF nx[pos].pos = pos THEN nx[pos].ptr ELSE Garbage

(* The blocks from a head on, as far as the links lead.                     *)
Chain(nx, head) ==
  LET p[k \in 0 .. Cardinality(Places)] ==
        IF k = 0 THEN head ELSE IF p[k - 1] \in Places THEN Reveal(nx, p[k - 1]) ELSE p[k - 1]
      n == Cardinality({ k \in DOMAIN p : p[k] \in Places })
  IN [k \in 1 .. n |-> p[k - 1]]
List(w, i) == Chain(w.next, w.c.heads[i])

(* ep is the place whose next field is meant, or NULL for the head of the   *)
(* list: only the former is mangled.                                        *)
ReadLink(w, i, ep) == IF ep = NULL THEN w.c.heads[i] ELSE Reveal(w.next, ep)
WriteLink_slip(w, i, ep, e) ==
  IF ep = NULL THEN [w EXCEPT !.c.heads[i] = e]
  ELSE [w EXCEPT !.next[ep] = Protect(e, e)]
WriteLink(w, i, ep, e) ==
  IF ep = NULL THEN [w EXCEPT !.c.heads[i] = e]
  ELSE [w EXCEPT !.next[ep] = Protect(ep, e)]

tcache_put_n(w, e, i, ep) ==
  LET w1 == [w EXCEPT !.key = @ \cup {e}, !.next[e] = Protect(e, ReadLink(w, i, ep))]
  IN [WriteLink(w1, i, ep, e) EXCEPT !.c.slots[i] = @ - 1]

tcache_get_n(w, i, ep) ==
  LET e == ReadLink(w, i, ep)
  IN [WriteLink(w, i, ep, Reveal(w.next, e)) EXCEPT !.c.slots[i] = @ + 1, !.key = @ \ {e},
                                                    !.next[e] = UserData]

(* The link in front of the first block that is not passed.                 *)
LinkBefore(w, i, pass(_)) ==
  LET s == List(w, i)
      stop == { k \in 1 .. Len(s) : ~ pass(s[k]) }
      n == IF stop = {} THEN Len(s) ELSE Min(stop) - 1
  IN IF n = 0 THEN NULL ELSE s[n]

(* tcache_location_large: lists of large blocks go up in size.              *)
LocationLarge_anywhere(w, i, nb) == NULL
LocationLarge(w, i, nb) == LinkBefore(w, i, LAMBDA p : out[p] < nb)

(* Blocks put one after the other at the head of a list. *)
PutAll(w, i, s) ==
  LET x[k \in 0 .. Len(s)] == IF k = 0 THEN w ELSE tcache_put_n(x[k - 1], s[k], i, NULL)
  IN x[Len(s)]

Put(w, e) ==
  LET i == TcIndex[out[e]]
  IN tcache_put_n(w, e, i, IF i \in SmallBins THEN NULL ELSE LocationLarge(w, i, out[e]))

----------------------------------------------------------------------------
(* malloc and memalign *)

Step(t, from, to) == pc[t] = from /\ pc' = [pc EXCEPT ![t] = to]
Finish(t) == pc' = [pc EXCEPT ![t] = "idle"] /\ op' = [op EXCEPT ![t] = NoOp]

(* The link to the block a request takes from the cache, if that is what it *)
(* leads to.                                                                *)
MallocLink(w, nb) ==
  LET i == TcIndex[nb] IN IF i \in SmallBins THEN NULL ELSE LocationLarge(w, i, nb)
AlignLink(w, nb) ==
  LinkBefore(w, TcIndex[nb], LAMBDA p : out[p] < nb \/ (out[p] = nb /\ p \notin Aligned))

LinkFor(w, kind, nb) == IF kind = "memalign" THEN AlignLink(w, nb) ELSE MallocLink(w, nb)

Found_slip(w, kind, nb) == ReadLink(w, TcIndex[nb], LinkFor(w, kind, nb)) # NULL
Found(w, kind, nb) ==
  LET e == ReadLink(w, TcIndex[nb], LinkFor(w, kind, nb))
  IN e # NULL /\ out[e] = nb /\ (kind = "memalign" => e \in Aligned)

CacheHit(t, kind, nb) ==
  /\ pc[t] = "idle" /\ nb < MaxBytes /\ Found(View(t), kind, nb)
  /\ LET w  == View(t)
         ep == LinkFor(w, kind, nb)
         e  == ReadLink(w, TcIndex[nb], ep)
     IN Commit(t, tcache_get_n(w, TcIndex[nb], ep)) /\ live' = Give(live, e, nb)
  /\ UNCHANGED <<out, pc, op>>

CacheMiss(t, kind, nb) ==
  /\ Step(t, "idle", "arena")
  /\ nb < MaxBytes => ~ Found(View(t), kind, nb)
  /\ op' = [op EXCEPT ![t] = [NoOp EXCEPT !.kind = kind, !.nb = nb]]
  /\ UNCHANGED <<cache, next, key, out, live>>

----------------------------------------------------------------------------
(* In an arena, for op.nb. *)

Free(p)       == p \notin DOMAIN out
Fitting(nb)   == { s \in Sizes : nb <= s /\ s <= nb + 1 }
ForCaller(t)  == op[t].kind \in {"malloc", "memalign"}

(* A chunk of the size asked for, or too large to be split. *)
ArenaServes(t) ==
  /\ pc[t] = "arena" /\ ForCaller(t)
  /\ \E p \in Places, s \in Fitting(op[t].nb) :
       /\ Free(p) /\ (op[t].kind = "memalign" => p \in Aligned)
       /\ out' = Give(out, p, s) /\ live' = Give(live, p, op[t].nb)
  /\ Finish(t)
  /\ UNCHANGED <<cache, next, key>>

ArenaFails(t) ==
  /\ pc[t] = "arena" /\ ForCaller(t)
  /\ Finish(t)
  /\ UNCHANGED <<cache, next, key, out, live>>

(* tcache_init (av) inside _int_malloc: a cache, if there is memory for one. *)
NewCaches(t, o) ==
  IF ~ Inactive(t) THEN { [c |-> cache[t], out |-> o] }
  ELSE { [c |-> Disabled, out |-> o] }
       \cup (IF Count = 0 THEN {} ELSE { [c |-> Fresh(p), out |-> Give(o, p, StructSize)] :
                                         p \in Places \ DOMAIN o })

(* Chunks of the same size that the arena finds free go to the cache, while *)
(* it has slots: all but one from a small bin, behind the one that is       *)
(* returned; from the unsorted list every one, until the cache is full or   *)
(* the search ends and one of them is taken out again.                      *)
Stash(t) ==
  /\ pc[t] = "arena" /\ op[t].kind = "malloc" /\ op[t].nb < MaxBytes /\ TcIndex[op[t].nb] \in SmallBins
  /\ \E v \in { p \in Places : Free(p) } :
     \E n \in NewCaches(t, Give(out, v, op[t].nb)) :
     \E s \in SetToAllKPermutations({ p \in Places : p \notin DOMAIN n.out }) :
       LET nb   == op[t].nb
           i    == TcIndex[nb]
           w    == [View(t) EXCEPT !.c = n.c]
           o    == [p \in DOMAIN n.out \cup Range(s) |-> IF p \in Range(s) THEN nb ELSE n.out[p]]
           room == n.c.slots[i]
           last == PutAll(w, i, <<v>> \o s)
       IN /\ out' = o
          /\ \/ /\ Len(s) <= room
                /\ Commit(t, PutAll(w, i, s)) /\ live' = Give(live, v, nb)
             \/ /\ Len(s) < room
                /\ Commit(t, tcache_get_n(last, i, NULL))
                /\ live' = Give(live, last.c.heads[i], nb)
  /\ Finish(t)

----------------------------------------------------------------------------
(* free *)

(* Blocks are freed by any thread. What the program has written where the   *)
(* key is may happen to be the key.                                         *)
CallFree(t, p) ==
  /\ Step(t, "idle", "free")
  /\ op' = [op EXCEPT ![t] = [NoOp EXCEPT !.kind = "free", !.mem = p]]
  /\ live' = Drop(live, p)
  /\ key' = key \cup {p} \/ key' = key \ {p}
  /\ UNCHANGED <<cache, next, out>>

Cacheable(p) == out[p] < MaxBytes

(* tcache_double_free_verify finds e nowhere, clears the key and calls free *)
(* again; otherwise it stops the process.                                   *)
Verify_slip(t) ==
  /\ Step(t, "free", "abort") /\ Cacheable(op[t].mem) /\ op[t].mem \in key
  /\ UNCHANGED <<cache, next, key, out, live, op>>
Verify(t) ==
  /\ pc[t] = "free" /\ Cacheable(op[t].mem) /\ op[t].mem \in key
  /\ LET lists == { List(View(t), i) : i \in Bins }
     IN IF \E s \in lists : Len(s) > Count \/ op[t].mem \in Range(s)
        THEN pc' = [pc EXCEPT ![t] = "abort"] /\ UNCHANGED key
        ELSE key' = key \ {op[t].mem} /\ UNCHANGED pc
  /\ UNCHANGED <<cache, next, out, live, op>>

HasSlot(t, p) == cache[t].slots[TcIndex[out[p]]] # 0

CachePut(t) ==
  /\ pc[t] = "free"
  /\ LET p == op[t].mem
     IN Cacheable(p) /\ p \notin key /\ HasSlot(t, p) /\ Commit(t, Put(View(t), p))
  /\ Finish(t)
  /\ UNCHANGED <<out, live>>

(* tcache_free_init: the cache is disabled while it is being made, and free *)
(* is called again when it is there, or cannot be had.                      *)
StartInit_slip(t) ==
  /\ Step(t, "free", "arena") /\ Inactive(t) /\ Cacheable(op[t].mem) /\ op[t].mem \notin key
  /\ op' = [op EXCEPT ![t].kind = "init", ![t].nb = StructSize]
  /\ UNCHANGED <<cache, next, key, out, live>>
StartInit(t) ==
  /\ pc[t] = "free" /\ Inactive(t) /\ Cacheable(op[t].mem) /\ op[t].mem \notin key
  /\ cache' = [cache EXCEPT ![t] = Disabled]
  /\ IF Count = 0 THEN UNCHANGED <<pc, op>>
     ELSE /\ pc' = [pc EXCEPT ![t] = "arena"]
          /\ op' = [op EXCEPT ![t].kind = "init", ![t].nb = StructSize]
  /\ UNCHANGED <<next, key, out, live>>

InitEnds(t) ==
  /\ Step(t, "arena", "free") /\ op[t].kind = "init"
  /\ \/ \E p \in Places, s \in Fitting(StructSize) :
          /\ Free(p) /\ out' = Give(out, p, s)
          /\ cache' = [cache EXCEPT ![t] = Fresh(p)]
     \/ UNCHANGED <<cache, out>>
  /\ op' = [op EXCEPT ![t].kind = "free"]
  /\ UNCHANGED <<next, key, live>>

(* _int_free_chunk: the chunk goes back to its arena, or to the system. *)
FreeToArena(t) ==
  /\ pc[t] = "free"
  /\ LET p == op[t].mem
     IN /\ Cacheable(p) => p \notin key /\ ~ HasSlot(t, p) /\ ~ Inactive(t)
        /\ out' = Drop(out, p) /\ key' = key \ {p}
  /\ Finish(t)
  /\ UNCHANGED <<cache, next, live>>

----------------------------------------------------------------------------
(* The thread's cache is shut down at its end, entry by entry. Destructors  *)
(* that run later still call malloc and free.                               *)

Shutdown(t) ==
  /\ pc[t] = "idle" /\ cache[t].state # "disabled"
  /\ cache' = [cache EXCEPT ![t] = Disabled]
  /\ IF Enabled(t)
     THEN /\ pc' = [pc EXCEPT ![t] = "shutdown"]
          /\ op' = [op EXCEPT ![t] = [NoOp EXCEPT !.kind = "shutdown", !.mem = cache[t].at,
                                                  !.tmp = cache[t].heads]]
     ELSE UNCHANGED <<pc, op>>
  /\ UNCHANGED <<next, key, out, live>>

ShutdownEntry(t) ==
  /\ pc[t] = "shutdown"
  /\ \E i \in Bins :
       /\ op[t].tmp[i] # NULL /\ \A j \in Bins : j < i => op[t].tmp[j] = NULL
       /\ LET e == op[t].tmp[i]
          IN /\ op' = [op EXCEPT ![t].tmp[i] = Reveal(next, e)]
             /\ key' = key \ {e} /\ out' = Drop(out, e)
             /\ next' = [next EXCEPT ![e] = UserData]
  /\ UNCHANGED <<cache, live, pc>>

ShutdownEnds(t) ==
  /\ pc[t] = "shutdown" /\ \A i \in Bins : op[t].tmp[i] = NULL
  /\ out' = Drop(out, op[t].mem)
  /\ Finish(t)
  /\ UNCHANGED <<cache, next, key, live>>

----------------------------------------------------------------------------
(* What a thread does of its own accord, and what it does to end a call. *)
Call(t) ==
  \/ \E kind \in {"malloc", "memalign"}, nb \in Requests : CacheHit(t, kind, nb) \/ CacheMiss(t, kind, nb)
  \/ \E p \in DOMAIN live : CallFree(t, p)
  \/ Shutdown(t)

Continue(t) ==
  \/ ArenaServes(t) \/ ArenaFails(t) \/ Stash(t)
  \/ Verify(t) \/ CachePut(t) \/ StartInit(t) \/ InitEnds(t) \/ FreeToArena(t)
  \/ ShutdownEntry(t) \/ ShutdownEnds(t)

Next == \E t \in Threads : Call(t) \/ Continue(t)

(* The kernel schedules every thread; no thread need start a call. *)
Spec     == Init /\ [][Next]_vars
FairSpec == Spec /\ \A t \in Threads : WF_vars(Continue(t))

----------------------------------------------------------------------------
(* What a thread has cached: the blocks of its lists and, while it shuts    *)
(* its cache down, those it has still to free.                              *)
Listed(t)   == UNION { Range(List(View(t), i)) : i \in Bins }
Unfreed(t)  == IF pc[t] = "shutdown" THEN UNION { Range(Chain(next, op[t].tmp[i])) : i \in Bins } ELSE {}
CachedBy(t) == Listed(t) \cup Unfreed(t)
Cached == UNION { CachedBy(t) : t \in Threads }
StructOf(t) == IF Enabled(t) THEN {cache[t].at}
               ELSE IF pc[t] = "shutdown" THEN {op[t].mem} ELSE {}
BeingFreed(t) == IF op[t].kind \in {"free", "init"} THEN {op[t].mem} ELSE {}

(* The counter of free slots and the list agree, so that num_slots, of      *)
(* sixteen bits, neither wraps below zero nor past tcache_count; the lists  *)
(* end, and no link was ever read with the wrong address.                   *)
SlotsAgree ==
  \A t \in Threads, i \in Bins : Enabled(t) =>
    LET s == List(View(t), i)
    IN /\ cache[t].slots[i] + Len(s) = Count
       /\ s # <<>> => Reveal(next, Last(s)) = NULL

(* Every chunk an arena has handed out is a block of the program, cached by *)
(* one thread, the struct of one thread's cache, or on its way back; only   *)
(* one of these; and a cache that was shut down has left nothing behind.    *)
NothingLost ==
  LET held(t) == CachedBy(t) \cup StructOf(t) \cup BeingFreed(t)
  IN /\ DOMAIN out = DOMAIN live \cup UNION { held(t) : t \in Threads }
     /\ \A t \in Threads :
          /\ held(t) \cap DOMAIN live = {}
          /\ \A u \in Threads \ {t} : held(t) \cap held(u) = {}
          /\ Cardinality(held(t)) = Cardinality(StructOf(t)) + Cardinality(BeingFreed(t))
               + Cardinality(CachedBy(t))

(* A request goes to an arena only when its thread's cache has no block of  *)
(* that size (and alignment): the sorted lists of large blocks hide none.   *)
NothingOverlooked ==
  [][ \A t \in Threads : pc[t] = "idle" /\ pc'[t] = "arena" =>
        \A p \in CachedBy(t) : out[p] # op'[t].nb \/ (op'[t].kind = "memalign" /\ p \notin Aligned) ]_vars

(* Every cached block carries the key, so that freeing it again in the same *)
(* thread is noticed, and "mark this chunk as in the tcache" (malloc.c:3018) *)
(* stays true until it leaves.                                              *)
CachedCarryKey == Cached \subseteq key

(* Slots, links and keys of every cache stay right together, and each chunk *)
(* taken from an arena is in one place (malloc.c:3014-3059, 3188-3219).     *)
CachesSound == SlotsAgree /\ NothingLost /\ CachedCarryKey

(* The blocks a program gets hold what it asked for, and waste at most what *)
(* an arena would, whether they come from a cache or an arena.              *)
FitsRequest ==
  [][ \A p \in DOMAIN live' \ DOMAIN live :
        out'[p] >= live'[p] /\ out'[p] <= live'[p] + 1 ]_vars

(* A program that frees only what it owns is never stopped, even if its     *)
(* data look like the key.                                                  *)
NoFalseAlarm == \A t \in Threads : pc[t] # "abort"

(* Every call ends: neither the retry after a key that matched by chance    *)
(* nor the one after making, or failing to make, a cache goes on for ever.  *)
CallsEnd == \A t \in Threads : pc[t] # "idle" ~> pc[t] = "idle"
=============================================================================
