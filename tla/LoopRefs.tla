------------------------------ MODULE LoopRefs ------------------------------
(***************************************************************************)
(* The lifetime of one event loop (src/loop.c): pd_loop_create,            *)
(* pd_loop_default, pd_loop_ref, pd_loop_unref with the teardown it starts *)
(* at zero, and the list of watchers the teardown walks.                   *)
(*                                                                         *)
(* With thread safety the body of pd_loop_ref, pd_loop_unref and of the    *)
(* list operations is one critical section, hence one step.  Without it    *)
(* PD_MUTEX_LOCK is not reached, and ref_count++ and ref_count-- are a     *)
(* load and a store.  A reference is a token that one thread holds and     *)
(* that it drops by calling pd_loop_unref (pd_loop_destroy is the same).   *)
(* How the loop is created, and hence whether it is protected, is chosen   *)
(* initially from Configs.                                                 *)
(***************************************************************************)
EXTENDS Integers, Sequences, FiniteSets

CONSTANTS
  Threads,        \* threads that use the loop
  Refs,           \* references to the loop
  NoThread,       \* the holder of a reference that nobody holds
  Watchers,       \* watchers that may be created in the loop
  Configs,            \* how the loop may be created: a set of Creations
  ShareUnprotected,   \* several threads may use a loop without thread safety
  GetAgain,           \* pd_loop_default is called again by later users
  MaxLeft             \* watchers left to the teardown by the last pd_loop_unref

\* pd_loop_create(NULL), pd_loop_create(config) with its
\* enable_thread_safety, or pd_loop_default
Creations == [origin : {"null", "given", "default"}, safety : {-1, 0, 1}]

\* The list operations are single steps, so an unprotected list is only
\* modelled when one thread uses it.
ASSUME RefsAssumption ==
  /\ NoThread \notin Threads
  /\ Refs # {}
  /\ Configs \subseteq Creations
  /\ {ShareUnprotected, GetAgain} \subseteq BOOLEAN
  /\ MaxLeft \in Nat
  /\ ShareUnprotected => Watchers = {}

VARIABLES
  config,    \* how the loop is created
  phase,     \* the pd_loop_t: "none", "live" or "freed"
  refCount,  \* loop->ref_count
  holder,    \* the thread that holds each reference
  list,      \* loop->watchers[0 .. watcher_count - 1]
  wlive,     \* watchers that are allocated
  pc,        \* the API call each thread is in the middle of
  tmp,       \* ref_count as loaded, or i in the teardown's for loop
  arg        \* the reference that call is about

vars == <<config, phase, refCount, holder, list, wlive, pc, tmp, arg>>

\* init_config_defaults on the copy of the configuration, which is zeroed
\* when pd_loop_create gets NULL, as it does from pd_loop_default
EnableThreadSafety ==
  LET copy == IF config.origin = "given" THEN config.safety ELSE 0
  IN  IF copy < 0 THEN 1 ELSE copy

ThreadSafe == EnableThreadSafety # 0

IsDefault == config.origin = "default"

\* Thread t may hand a reference to thread u.
MayShare(t, u) == t = u \/ ThreadSafe \/ ShareUnprotected

Held == {r \in Refs : holder[r] # NoThread}

Holds(t) == \E r \in Refs : holder[r] = t

(***************************************************************************)
(* Type invariant: program counters and the list stay in range, and a      *)
(* protected ref_count never goes below zero.                              *)
(***************************************************************************)
TypeOK ==
  /\ config \in Configs
  /\ phase \in {"none", "live", "freed"}
  /\ refCount \in Int /\ (ThreadSafe => refCount >= 0)
  /\ holder \in [Refs -> Threads \cup {NoThread}]
  /\ list \in Seq(Watchers)
  /\ wlive \subseteq Watchers
  /\ pc \in [Threads -> {"idle", "ref", "unref", "reload", "teardown"}]
  /\ tmp \in [Threads -> Int]
  /\ arg \in [Threads -> Refs]

Init ==
  /\ config \in Configs
  /\ phase = "none"
  /\ refCount = 0
  /\ holder = [r \in Refs |-> NoThread]
  /\ list = <<>>
  /\ wlive = {}
  /\ pc = [t \in Threads |-> "idle"]
  /\ tmp = [t \in Threads |-> 0]
  /\ arg = [t \in Threads |-> CHOOSE r \in Refs : TRUE]

-----------------------------------------------------------------------------
(* Creation *)

\* pd_loop_create: ref_count = 1
LoopCreate(t, r) ==
  /\ ~IsDefault
  /\ phase = "none"
  /\ phase' = "live"
  /\ refCount' = 1
  /\ holder' = [holder EXCEPT ![r] = t]
  /\ UNCHANGED <<config, list, wlive, pc, tmp, arg>>

\* pd_loop_default, under its own mutex: the first call creates the loop and
\* takes one more reference, later calls return default_loop as it is, which
\* is never reset
LoopDefault(t, r) ==
  /\ IsDefault
  /\ pc[t] = "idle"
  /\ r \notin Held
  /\ phase = "none" \/ GetAgain
  /\ phase' = IF phase = "none" THEN "live" ELSE phase
  /\ refCount' = IF phase = "none" THEN 2 ELSE refCount
  /\ holder' = [holder EXCEPT ![r] = t]
  /\ UNCHANGED <<config, list, wlive, pc, tmp, arg>>

-----------------------------------------------------------------------------
(* References *)

\* Mutant: the increment is forgotten
RefNoIncrement(t, r, u) ==
  /\ ThreadSafe
  /\ pc[t] = "idle"
  /\ Holds(t)
  /\ r \notin Held
  /\ holder' = [holder EXCEPT ![r] = u]
  /\ UNCHANGED <<config, phase, refCount, list, wlive, pc, tmp, arg>>

\* pd_loop_ref by t, for a reference that thread u will drop
Ref(t, r, u) ==
  /\ ThreadSafe
  /\ pc[t] = "idle"
  /\ Holds(t)
  /\ r \notin Held
  /\ refCount' = refCount + 1
  /\ holder' = [holder EXCEPT ![r] = u]
  /\ UNCHANGED <<config, phase, list, wlive, pc, tmp, arg>>

\* pd_loop_ref without the mutex: load ref_count ...
RefLoad(t, r) ==
  /\ ~ThreadSafe
  /\ pc[t] = "idle"
  /\ Holds(t)
  /\ r \notin Held
  /\ \A u \in Threads : pc[u] = "ref" => arg[u] # r
  /\ pc' = [pc EXCEPT ![t] = "ref"]
  /\ tmp' = [tmp EXCEPT ![t] = refCount]
  /\ arg' = [arg EXCEPT ![t] = r]
  /\ UNCHANGED <<config, phase, refCount, holder, list, wlive>>

\* Mutant: the store is lost
RefStoreLost(t, u) ==
  /\ pc[t] = "ref"
  /\ MayShare(t, u)
  /\ holder' = [holder EXCEPT ![arg[t]] = u]
  /\ pc' = [pc EXCEPT ![t] = "idle"]
  /\ UNCHANGED <<config, phase, refCount, list, wlive, tmp, arg>>

\* ... and store it incremented
RefStore(t, u) ==
  /\ pc[t] = "ref"
  /\ MayShare(t, u)
  /\ refCount' = tmp[t] + 1
  /\ holder' = [holder EXCEPT ![arg[t]] = u]
  /\ pc' = [pc EXCEPT ![t] = "idle"]
  /\ UNCHANGED <<config, phase, list, wlive, tmp, arg>>

\* The call drops a reference.  The documentation asks that the watchers are
\* destroyed before; the code destroys the ones that are left.
MayDrop(t, r) ==
  /\ pc[t] = "idle"
  /\ holder[r] = t
  /\ Held # {r} \/ Len(list) <= MaxLeft

\* should_destroy is true: the teardown starts with i = 0
Conclude(t, count) ==
  /\ pc' = [pc EXCEPT ![t] = IF count = 0 THEN "teardown" ELSE "idle"]
  /\ tmp' = [tmp EXCEPT ![t] = 0]

\* Mutant: should_destroy is evaluated before the decrement
UnrefTestsFirst(t, r) ==
  /\ ThreadSafe
  /\ MayDrop(t, r)
  /\ refCount' = refCount - 1
  /\ holder' = [holder EXCEPT ![r] = NoThread]
  /\ Conclude(t, refCount)
  /\ UNCHANGED <<config, phase, list, wlive, arg>>

\* Mutant: the loop is destroyed while one reference is left
UnrefTestsOne(t, r) ==
  /\ ThreadSafe
  /\ MayDrop(t, r)
  /\ refCount' = refCount - 1
  /\ holder' = [holder EXCEPT ![r] = NoThread]
  /\ Conclude(t, refCount' - 1)
  /\ UNCHANGED <<config, phase, list, wlive, arg>>

\* pd_loop_unref up to the unlock
Unref(t, r) ==
  /\ ThreadSafe
  /\ MayDrop(t, r)
  /\ refCount' = refCount - 1
  /\ holder' = [holder EXCEPT ![r] = NoThread]
  /\ Conclude(t, refCount - 1)
  /\ UNCHANGED <<config, phase, list, wlive, arg>>

\* pd_loop_unref without the mutex: load ref_count, store it decremented, and
\* compare with zero either the value at hand or a value read again
UnrefLoad(t, r) ==
  /\ ~ThreadSafe
  /\ MayDrop(t, r)
  /\ holder' = [holder EXCEPT ![r] = NoThread]
  /\ pc' = [pc EXCEPT ![t] = "unref"]
  /\ tmp' = [tmp EXCEPT ![t] = refCount]
  /\ UNCHANGED <<config, phase, refCount, list, wlive, arg>>

UnrefStore(t) ==
  /\ pc[t] = "unref"
  /\ refCount' = tmp[t] - 1
  /\ \/ Conclude(t, tmp[t] - 1)
     \/ pc' = [pc EXCEPT ![t] = "reload"] /\ UNCHANGED tmp
  /\ UNCHANGED <<config, phase, holder, list, wlive, arg>>

UnrefReload(t) ==
  /\ pc[t] = "reload"
  /\ Conclude(t, refCount)
  /\ UNCHANGED <<config, phase, refCount, holder, list, wlive, arg>>

-----------------------------------------------------------------------------
(* The teardown, and the list of watchers *)

\* pd_loop_remove_watcher: find the first entry that is w, and shift the
\* later ones down by one; without one it returns PD_ERR_NOT_FOUND
Without(s, w) ==
  IF \E i \in DOMAIN s : s[i] = w
    THEN LET k == CHOOSE i \in DOMAIN s :
                    s[i] = w /\ \A j \in 1..(i - 1) : s[j] # w
         IN  [j \in 1..(Len(s) - 1) |-> IF j < k THEN s[j] ELSE s[j + 1]]
    ELSE s

\* Mutant: the teardown frees the loop without walking the list
TeardownNothing(t) ==
  /\ pc[t] = "teardown"
  /\ tmp[t] < Len(list)
  /\ tmp' = [tmp EXCEPT ![t] = Len(list)]
  /\ UNCHANGED <<config, phase, refCount, holder, list, wlive, pc, arg>>

\* One round of the for loop: pd_watcher_destroy(loop->watchers[i]), which
\* removes that watcher from the list, then i++
TeardownWatcher(t) ==
  /\ pc[t] = "teardown"
  /\ tmp[t] < Len(list)
  /\ LET w == list[tmp[t] + 1]
     IN  /\ list' = Without(list, w)
         /\ wlive' = wlive \ {w}
  /\ tmp' = [tmp EXCEPT ![t] = @ + 1]
  /\ UNCHANGED <<config, phase, refCount, holder, pc, arg>>

\* The end of pd_loop_unref: loop_destroy of the backend, and free(loop)
TeardownFree(t) ==
  /\ pc[t] = "teardown"
  /\ tmp[t] >= Len(list)
  /\ phase' = "freed"
  /\ pc' = [pc EXCEPT ![t] = "idle"]
  /\ UNCHANGED <<config, refCount, holder, list, wlive, tmp, arg>>

\* pd_watcher_create, ending in pd_loop_add_watcher, by a thread that holds
\* a reference; the array grows by doubling
AddWatcher(t, w) ==
  /\ pc[t] = "idle"
  /\ Holds(t)
  /\ w \notin wlive
  /\ list' = Append(list, w)
  /\ wlive' = wlive \cup {w}
  /\ UNCHANGED <<config, phase, refCount, holder, pc, tmp, arg>>

\* pd_watcher_destroy, ending in pd_loop_remove_watcher
RemoveWatcher(t, w) ==
  /\ pc[t] = "idle"
  /\ Holds(t)
  /\ w \in wlive
  /\ list' = Without(list, w)
  /\ wlive' = wlive \ {w}
  /\ UNCHANGED <<config, phase, refCount, holder, pc, tmp, arg>>

Proceed(t) ==
  \/ \E u \in Threads : RefStore(t, u)
  \/ UnrefStore(t)
  \/ UnrefReload(t)
  \/ TeardownWatcher(t)
  \/ TeardownFree(t)

Next ==
  \E t \in Threads :
    \/ \E r \in Refs :
         \/ LoopCreate(t, r)
         \/ LoopDefault(t, r)
         \/ \E u \in Threads : Ref(t, r, u)
         \/ RefLoad(t, r)
         \/ Unref(t, r)
         \/ UnrefLoad(t, r)
    \/ Proceed(t)
    \/ \E w \in Watchers : AddWatcher(t, w) \/ RemoveWatcher(t, w)

Spec == Init /\ [][Next]_vars

\* A thread that is inside pd_loop_ref or pd_loop_unref finishes the call.
FairSpec == Spec /\ \A t \in Threads : WF_vars(Proceed(t))

-----------------------------------------------------------------------------
(* Properties *)

\* ref_count is the number of references held, plus the one pd_loop_default
\* keeps, whenever no thread is between the load and the store of an
\* unprotected update (README: "Reference counting is atomic").
CountMatches ==
  (phase = "live" /\ \A t \in Threads : pc[t] \notin {"ref", "unref"}) =>
    refCount = Cardinality(Held) + (IF IsDefault THEN 1 ELSE 0)

\* A freed loop is out of everybody's reach: no reference to it is held and
\* no thread is inside a call on it, not even one that tears it down a second
\* time (README: "Multiple threads can safely unreference the same loop").
NoUseAfterFree ==
  phase = "freed" =>
    /\ Held = {}
    /\ \A t \in Threads : pc[t] = "idle"

\* pd_loop_unref tears the loop down in one thread only, and only when
\* nobody holds a reference.
TeardownAlone ==
  \A t \in Threads :
    pc[t] = "teardown" =>
      /\ Held = {}
      /\ \A u \in Threads \ {t} : pc[u] = "idle"

\* When the loop is freed its watchers are (pd_loop_unref, "Destroy all
\* watchers"): none is left with watcher->loop dangling.
WatchersDestroyed == phase = "freed" => wlive = {}

\* The default loop persists for the lifetime of the process (README, the
\* section on the default loop).
DefaultPersists == IsDefault => phase # "freed"

\* The loop does not leak: once nobody holds a reference it is freed.
DroppedIsFreed ==
  (~IsDefault /\ phase = "live" /\ Held = {} /\ \A t \in Threads : pc[t] # "ref")
    ~> (phase = "freed")

=============================================================================
