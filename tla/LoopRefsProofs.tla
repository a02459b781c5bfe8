--------------------------- MODULE LoopRefsProofs ---------------------------
(***************************************************************************)
(* Proofs about LoopRefs for any number of threads, references and         *)
(* watchers and every way of creating the loop, under a rule that the      *)
(* repository's documentation does not state: a loop without thread safety *)
(* is used by one thread, and pd_loop_default is called once.  Without it  *)
(* the statements are false (runs LoopRefsShared and LoopRefsDefault).     *)
(***************************************************************************)
EXTENDS LoopRefs, FiniteSetTheorems, SequenceTheorems, TLAPS

\* No thread shares an unprotected loop, and pd_loop_default is called once.
SafeUse == ~ShareUnprotected /\ ~GetAgain

-----------------------------------------------------------------------------
(* The inductive invariant *)

\* The reference pd_loop_default keeps
Kept == IF IsDefault THEN 1 ELSE 0

\* A thread that can still reach the loop
Uses(t) == Holds(t) \/ pc[t] # "idle"

\* Only a live loop is used.  The mutex makes every call but the teardown
\* one step; without it one thread does everything.
Usage ==
  /\ \A t \in Threads : Uses(t) => phase = "live"
  /\ phase # "live" => Held = {}
  /\ ThreadSafe => \A t \in Threads : pc[t] \in {"idle", "teardown"}
  /\ ~ThreadSafe => \A t, u \in Threads : Uses(t) /\ Uses(u) => t = u

\* ref_count counts the references, and one more between the moment a
\* reference is given up and the store of an unprotected pd_loop_unref.
Counting ==
  /\ IsFiniteSet(Held)
  /\ phase = "live" /\ (\A t \in Threads : pc[t] # "unref") =>
       refCount = Cardinality(Held) + Kept
  /\ \A t \in Threads : pc[t] = "unref" =>
       refCount = Cardinality(Held) + Kept + 1
  /\ phase # "live" => refCount = 0
  /\ \A t \in Threads : pc[t] \in {"ref", "unref"} => tmp[t] = refCount
  /\ \A t \in Threads : pc[t] = "ref" => Holds(t) /\ arg[t] \notin Held

\* Only a loop that is nobody's and not the default one is torn down.
Teardown ==
  /\ TeardownAlone
  /\ phase = "freed" \/ (\E t \in Threads : pc[t] = "teardown") => ~IsDefault

\* loop->watchers lists every live watcher once, and the teardown walks it with
\* a natural number.
Listed(s, W) ==
  /\ s \in Seq(Watchers)
  /\ W = {s[i] : i \in DOMAIN s}
  /\ \A i, j \in DOMAIN s : s[i] = s[j] => i = j

Listing ==
  /\ Listed(list, wlive)
  /\ \A t \in Threads : pc[t] = "teardown" => tmp[t] \in Nat

IInv == TypeOK /\ Usage /\ Counting /\ Teardown /\ Listing

-----------------------------------------------------------------------------
(* Lemmas about the references *)

(***************************************************************************)
(* Giving a free reference to a thread adds it to the ones held, and       *)
(* giving one up takes it away: holder[r] = u and holder[r] = NoThread.    *)
(***************************************************************************)
LEMMA Taken ==
  ASSUME TypeOK, Counting, NEW r \in Refs, NEW u \in Threads,
         r \notin Held, holder' = [holder EXCEPT ![r] = u]
  PROVE  /\ Held' = Held \cup {r}
         /\ IsFiniteSet(Held')
         /\ Cardinality(Held') = Cardinality(Held) + 1
         /\ Cardinality(Held) \in Nat
<1>1. Held' = Held \cup {r}
  BY RefsAssumption DEF TypeOK, Held
<1>2. IsFiniteSet(Held)
  BY DEF Counting
<1> QED
  BY <1>1, <1>2, FS_AddElement, FS_CardinalityType

LEMMA Dropped ==
  ASSUME TypeOK, Counting, NEW r \in Refs,
         holder[r] # NoThread, holder' = [holder EXCEPT ![r] = NoThread]
  PROVE  /\ Held' = Held \ {r}
         /\ r \in Held
         /\ IsFiniteSet(Held')
         /\ Cardinality(Held') = Cardinality(Held) - 1
         /\ Cardinality(Held') \in Nat
         /\ Cardinality(Held) \in Nat
<1>1. Held' = Held \ {r} /\ r \in Held
  BY DEF TypeOK, Held
<1>2. IsFiniteSet(Held)
  BY DEF Counting
<1> QED
  BY <1>1, <1>2, FS_RemoveElement, FS_CardinalityType

(***************************************************************************)
(* How the loop was created, and hence whether it is protected and whether *)
(* pd_loop_default keeps a reference, never changes.                       *)
(***************************************************************************)
LEMMA SameCreation ==
  ASSUME [Next]_vars
  PROVE  /\ config' = config
         /\ ThreadSafe' = ThreadSafe
         /\ IsDefault' = IsDefault
         /\ Kept' = Kept
<1>1. config' = config
  BY DEF Next, vars, LoopCreate, LoopDefault, Ref, RefLoad, Unref, UnrefLoad,
         Proceed, RefStore, UnrefStore, UnrefReload, TeardownWatcher,
         TeardownFree, AddWatcher, RemoveWatcher
<1> QED
  BY <1>1 DEF ThreadSafe, EnableThreadSafety, IsDefault, Kept

-----------------------------------------------------------------------------
(* Lemmas about the list of watchers *)

(***************************************************************************)
(* pd_loop_add_watcher and pd_loop_remove_watcher keep every live watcher  *)
(* listed once; removing one shortens the list by one.                     *)
(***************************************************************************)
LEMMA WatcherAdded ==
  ASSUME NEW s, NEW W, Listed(s, W), NEW w \in Watchers, w \notin W
  PROVE  Listed(Append(s, w), W \cup {w})
<1>1. s \in Seq(Watchers)
  BY DEF Listed
<1> DEFINE a == Append(s, w)
<1>2. /\ a \in Seq(Watchers)
      /\ DOMAIN a = 1..(Len(s) + 1)
      /\ DOMAIN s = 1..Len(s)
      /\ Len(s) \in Nat
      /\ \A i \in 1..Len(s) : a[i] = s[i]
      /\ a[Len(s) + 1] = w
  BY <1>1, AppendProperties
<1>3. \A i \in 1..Len(s) : s[i] \in W
  BY <1>2 DEF Listed
<1> HIDE DEF a
<1>4. W \cup {w} = {a[i] : i \in DOMAIN a}
  <2>1. ASSUME NEW x \in W PROVE x \in {a[i] : i \in DOMAIN a}
    BY <1>2 DEF Listed
  <2>2. ASSUME NEW i \in DOMAIN a PROVE a[i] \in W \cup {w}
    BY <1>2, <1>3
  <2> QED
    BY <1>2, <2>1, <2>2
<1>5. ASSUME NEW i \in DOMAIN a, NEW j \in DOMAIN a, a[i] = a[j] PROVE i = j
  BY <1>2, <1>3, <1>5 DEF Listed
<1> QED
  BY <1>2, <1>4, <1>5 DEF Listed, a

LEMMA WatcherRemoved ==
  ASSUME NEW s, NEW W, Listed(s, W), NEW w \in W
  PROVE  /\ Listed(Without(s, w), W \ {w})
         /\ Len(Without(s, w)) = Len(s) - 1
<1>1. /\ s \in Seq(Watchers)
      /\ DOMAIN s = 1..Len(s)
      /\ Len(s) \in Nat
      /\ \A i \in 1..Len(s) : s[i] \in Watchers
  BY ElementOfSeq DEF Listed
<1>2. PICK k \in 1..Len(s) : s[k] = w
  BY <1>1 DEF Listed
<1>3. \A i \in 1..Len(s) : s[i] = w => i = k
  BY <1>1, <1>2 DEF Listed
<1> DEFINE P(i) == s[i] = w /\ \A j \in 1..(i - 1) : s[j] # w
<1>4. P(k)
  BY <1>2, <1>3
<1>5. k = CHOOSE i \in DOMAIN s : P(i)
  BY <1>1, <1>3, <1>4, Zenon
<1> DEFINE a == [j \in 1..(Len(s) - 1) |-> IF j < k THEN s[j] ELSE s[j + 1]]
<1>6. Without(s, w) = a
  BY <1>1, <1>2, <1>5 DEF Without
<1>7. /\ a \in Seq(Watchers)
      /\ Len(a) = Len(s) - 1
      /\ DOMAIN a = 1..(Len(s) - 1)
      /\ \A j \in 1..(Len(s) - 1) : a[j] = IF j < k THEN s[j] ELSE s[j + 1]
  BY <1>1, <1>2
<1> HIDE DEF a
<1>8. W \ {w} = {a[i] : i \in DOMAIN a}
  <2>1. ASSUME NEW x \in W \ {w} PROVE x \in {a[i] : i \in DOMAIN a}
    <3>1. PICK i \in 1..Len(s) : s[i] = x
      BY <1>1 DEF Listed
    <3>2. CASE i < k
      BY <1>2, <1>7, <3>1, <3>2
    <3>3. CASE i > k
      <4>1. i - 1 \in DOMAIN a /\ a[i - 1] = x
        BY <1>2, <1>7, <3>1, <3>3
      <4> QED
        BY <4>1
    <3> QED
      BY <1>2, <3>1, <3>2, <3>3
  <2>2. ASSUME NEW i \in DOMAIN a PROVE a[i] \in W \ {w}
    <3>1. i \in 1..Len(s) /\ i + 1 \in 1..Len(s)
      BY <1>1, <1>7
    <3>2. s[i] \in W /\ s[i + 1] \in W
      BY <1>1, <3>1 DEF Listed
    <3> QED
      BY <1>2, <1>3, <1>7, <3>1, <3>2
  <2> QED
    BY <2>1, <2>2
<1>9. ASSUME NEW i \in DOMAIN a, NEW j \in DOMAIN a, a[i] = a[j] PROVE i = j
  <2> DEFINE At(x) == IF x < k THEN x ELSE x + 1
  <2>1. \A x \in DOMAIN a : At(x) \in DOMAIN s /\ a[x] = s[At(x)]
    BY <1>1, <1>2, <1>7
  <2>2. At(i) = At(j)
    BY <1>9, <2>1 DEF Listed
  <2> QED
    BY <1>1, <1>2, <1>7, <2>2
<1>10. Listed(a, W \ {w})
  BY <1>7, <1>8, <1>9, Zenon DEF Listed
<1> QED
  BY <1>6, <1>7, <1>10

-----------------------------------------------------------------------------
(* Every step preserves the inductive invariant *)

(***************************************************************************)
(* Nobody is left using the loop when the teardown frees it, and nobody    *)
(* else joins in without the mutex: a reference is taken only by a thread  *)
(* that has one.                                                           *)
(***************************************************************************)
LEMMA UsageStep ==
  ASSUME SafeUse, IInv, Next
  PROVE  Usage'
<1> USE DEF SafeUse
<1>0. [Next]_vars
  OBVIOUS
<1>1. ASSUME NEW t \in Threads, NEW r \in Refs, LoopCreate(t, r) PROVE Usage'
  BY <1>0, <1>1, SameCreation
     DEF IInv, TypeOK, Usage, Uses, Holds, Held, LoopCreate
<1>2. ASSUME NEW t \in Threads, NEW r \in Refs, LoopDefault(t, r) PROVE Usage'
  BY <1>0, <1>2, SameCreation
     DEF IInv, TypeOK, Usage, Uses, Holds, Held, LoopDefault
<1>3. ASSUME NEW t \in Threads, NEW r \in Refs, NEW u \in Threads, Ref(t, r, u)
      PROVE  Usage'
  BY <1>0, <1>3, SameCreation DEF IInv, TypeOK, Usage, Uses, Holds, Held, Ref
<1>4. ASSUME NEW t \in Threads, NEW r \in Refs, RefLoad(t, r) PROVE Usage'
  BY <1>0, <1>4, SameCreation
     DEF IInv, TypeOK, Usage, Uses, Holds, Held, RefLoad
<1>5. ASSUME NEW t \in Threads, NEW r \in Refs, Unref(t, r) PROVE Usage'
  BY <1>0, <1>5, SameCreation, RefsAssumption
     DEF IInv, TypeOK, Usage, Uses, Holds, Held,
         Unref, MayDrop, Conclude
<1>6. ASSUME NEW t \in Threads, NEW r \in Refs, UnrefLoad(t, r) PROVE Usage'
  BY <1>0, <1>6, SameCreation, RefsAssumption
     DEF IInv, TypeOK, Usage, Uses, Holds, Held,
         UnrefLoad, MayDrop
<1>7. ASSUME NEW t \in Threads, NEW u \in Threads, RefStore(t, u) PROVE Usage'
  BY <1>0, <1>7, SameCreation, RefsAssumption
     DEF IInv, TypeOK, Usage, Uses, Holds, Held,
         RefStore, MayShare
<1>8. ASSUME NEW t \in Threads, UnrefStore(t) PROVE Usage'
  <2>1. PICK x \in {"idle", "teardown", "reload"} : pc' = [pc EXCEPT ![t] = x]
    BY <1>8 DEF UnrefStore, Conclude
  <2>2. pc[t] = "unref" /\ UNCHANGED <<phase, holder>>
    BY <1>8 DEF UnrefStore
  <2> QED
    BY <1>0, <2>1, <2>2, SameCreation
       DEF IInv, TypeOK, Usage, Uses, Holds, Held
<1>9. ASSUME NEW t \in Threads, UnrefReload(t) PROVE Usage'
  BY <1>0, <1>9, SameCreation, RefsAssumption
     DEF IInv, TypeOK, Usage, Uses, Holds, Held,
         UnrefReload, Conclude
<1>10. ASSUME NEW t \in Threads, TeardownWatcher(t) PROVE Usage'
  BY <1>0, <1>10, SameCreation
     DEF IInv, TypeOK, Usage, Uses, Holds, Held, TeardownWatcher
<1>11. ASSUME NEW t \in Threads, TeardownFree(t) PROVE Usage'
  BY <1>0, <1>11, SameCreation, RefsAssumption
     DEF IInv, TypeOK, Usage, Uses, Holds, Held,
         TeardownFree, Teardown, TeardownAlone
<1>12. ASSUME NEW t \in Threads, NEW w \in Watchers, AddWatcher(t, w)
       PROVE  Usage'
  BY <1>0, <1>12, SameCreation
     DEF IInv, TypeOK, Usage, Uses, Holds, Held, AddWatcher
<1>13. ASSUME NEW t \in Threads, NEW w \in Watchers, RemoveWatcher(t, w)
       PROVE  Usage'
  BY <1>0, <1>13, SameCreation
     DEF IInv, TypeOK, Usage, Uses, Holds, Held, RemoveWatcher
<1> QED
  BY <1>1, <1>2, <1>3, <1>4, <1>5, <1>6, <1>7,
     <1>8, <1>9, <1>10, <1>11, <1>12, <1>13
     DEF Next, Proceed

(***************************************************************************)
(* pd_loop_ref, pd_loop_unref and the two ways of creating the loop keep   *)
(* ref_count equal to the number of references.                            *)
(***************************************************************************)
LEMMA CountingStep ==
  ASSUME SafeUse, IInv, Next
  PROVE  Counting'
<1> USE DEF SafeUse
<1>0. [Next]_vars
  OBVIOUS
<1>1. ASSUME NEW t \in Threads, NEW r \in Refs, LoopCreate(t, r)
      PROVE  Counting'
  <2>1. Held = {} /\ \A v \in Threads : pc[v] = "idle"
    BY <1>1 DEF IInv, Usage, Uses, LoopCreate
  <2>2. Cardinality(Held) = 0
    BY <2>1, FS_EmptySet
  <2>3. IsFiniteSet(Held') /\ Cardinality(Held') = Cardinality(Held) + 1
    BY <1>1, <2>1, Taken DEF IInv, LoopCreate
  <2> QED
    BY <1>0, <1>1, <2>1, <2>2, <2>3, SameCreation
       DEF LoopCreate, Counting, Kept
<1>2. ASSUME NEW t \in Threads, NEW r \in Refs, LoopDefault(t, r)
      PROVE  Counting'
  <2>1. Held = {} /\ \A v \in Threads : pc[v] = "idle"
    BY <1>2 DEF IInv, Usage, Uses, LoopDefault
  <2>2. Cardinality(Held) = 0
    BY <2>1, FS_EmptySet
  <2>3. IsFiniteSet(Held') /\ Cardinality(Held') = Cardinality(Held) + 1
    BY <1>2, <2>1, Taken DEF IInv, LoopDefault
  <2> QED
    BY <1>0, <1>2, <2>1, <2>2, <2>3, SameCreation
       DEF LoopDefault, Counting, Kept
<1>3. ASSUME NEW t \in Threads, NEW r \in Refs, NEW u \in Threads, Ref(t, r, u)
      PROVE  Counting'
  <2>1. /\ phase = "live"
        /\ \A v \in Threads : pc[v] \notin {"ref", "unref"}
    BY <1>3 DEF IInv, Usage, Uses, Ref
  <2>2. /\ IsFiniteSet(Held')
        /\ Cardinality(Held') = Cardinality(Held) + 1
        /\ Cardinality(Held) \in Nat
    BY <1>3, Taken DEF IInv, Ref
  <2> QED
    BY <1>0, <1>3, <2>1, <2>2, SameCreation DEF IInv, Ref, Counting, Kept
<1>4. ASSUME NEW t \in Threads, NEW r \in Refs, RefLoad(t, r) PROVE Counting'
  <2>1. \A v \in Threads \ {t} : pc[v] = "idle"
    BY <1>4 DEF IInv, Usage, Uses, RefLoad
  <2>2. Held' = Held /\ Holds(t)'
    BY <1>4 DEF RefLoad, Held, Holds
  <2> QED
    BY <1>0, <1>4, <2>1, <2>2, SameCreation
       DEF IInv, TypeOK, RefLoad, Counting
<1>5. ASSUME NEW t \in Threads, NEW r \in Refs, Unref(t, r) PROVE Counting'
  <2>1. \A v \in Threads : pc[v] \notin {"ref", "unref"}
    BY <1>5 DEF IInv, Usage, Unref
  <2>2. /\ IsFiniteSet(Held')
        /\ Cardinality(Held') = Cardinality(Held) - 1
        /\ Cardinality(Held) \in Nat
    BY <1>5, Dropped, RefsAssumption DEF IInv, Unref, MayDrop
  <2>3. \A v \in Threads : pc'[v] \notin {"ref", "unref"}
    BY <1>5, <2>1 DEF IInv, TypeOK, Unref, Conclude
  <2>4. phase = "live"
    BY <1>5 DEF IInv, Usage, Uses, Holds, Unref, MayDrop
  <2> QED
    BY <1>0, <1>5, <2>1, <2>2, <2>3, <2>4, SameCreation
       DEF IInv, Unref, Counting, Kept
<1>6. ASSUME NEW t \in Threads, NEW r \in Refs, UnrefLoad(t, r)
      PROVE  Counting'
  <2>1. \A v \in Threads : pc[v] = "idle"
    BY <1>6 DEF IInv, Usage, Uses, Holds, UnrefLoad, MayDrop
  <2>2. /\ IsFiniteSet(Held')
        /\ Cardinality(Held') = Cardinality(Held) - 1
        /\ Cardinality(Held) \in Nat
    BY <1>6, Dropped, RefsAssumption DEF IInv, UnrefLoad, MayDrop
  <2>3. phase = "live"
    BY <1>6 DEF IInv, Usage, Uses, Holds, UnrefLoad, MayDrop
  <2> QED
    BY <1>0, <1>6, <2>1, <2>2, <2>3, SameCreation
       DEF IInv, TypeOK, UnrefLoad, Counting, Kept
<1>7. ASSUME NEW t \in Threads, NEW u \in Threads, RefStore(t, u)
      PROVE  Counting'
  <2>1. \A v \in Threads \ {t} : pc[v] = "idle"
    BY <1>7 DEF IInv, Usage, Uses, RefStore
  <2>2. /\ phase = "live"
        /\ tmp[t] = refCount
        /\ arg[t] \in Refs \ Held
        /\ refCount = Cardinality(Held) + Kept
    BY <1>7, <2>1 DEF IInv, TypeOK, Usage, Uses, Counting, RefStore
  <2>3. /\ IsFiniteSet(Held')
        /\ Cardinality(Held') = Cardinality(Held) + 1
        /\ Cardinality(Held) \in Nat
    BY <1>7, <2>2, Taken DEF IInv, RefStore
  <2>4. \A v \in Threads : pc'[v] = "idle"
    BY <1>7, <2>1 DEF IInv, TypeOK, RefStore
  <2> QED
    BY <1>0, <1>7, <2>2, <2>3, <2>4, SameCreation DEF RefStore, Counting, Kept
<1>8. ASSUME NEW t \in Threads, UnrefStore(t) PROVE Counting'
  <2>1. \A v \in Threads \ {t} : pc[v] = "idle"
    BY <1>8 DEF IInv, Usage, Uses, UnrefStore
  <2>2. Held' = Held /\ phase = "live" /\ phase' = phase
    BY <1>8 DEF IInv, Usage, Uses, UnrefStore, Held
  <2>3. \A v \in Threads : pc'[v] \notin {"ref", "unref"}
    BY <1>8, <2>1 DEF IInv, TypeOK, UnrefStore, Conclude
  <2>4. /\ IsFiniteSet(Held)
        /\ refCount' = Cardinality(Held) + Kept
    BY <1>8, FS_CardinalityType DEF IInv, UnrefStore, Counting, Kept
  <2> QED
    BY <1>0, <2>2, <2>3, <2>4, SameCreation DEF Counting
<1>9. ASSUME NEW t \in Threads, UnrefReload(t) PROVE Counting'
  <2>1. \A v \in Threads \ {t} : pc[v] = "idle"
    BY <1>9 DEF IInv, Usage, Uses, UnrefReload
  <2>2. \A v \in Threads : pc'[v] \notin {"ref", "unref"}
    BY <1>9, <2>1 DEF IInv, TypeOK, UnrefReload, Conclude
  <2>3. \A v \in Threads : pc[v] # "unref"
    BY <1>9, <2>1 DEF UnrefReload
  <2>4. Held' = Held
    BY <1>9 DEF UnrefReload, Held
  <2> QED
    BY <1>0, <1>9, <2>2, <2>3, <2>4, SameCreation
       DEF IInv, UnrefReload, Counting
<1>10. ASSUME NEW t \in Threads, TeardownWatcher(t) PROVE Counting'
  <2>1. Held' = Held /\ \A v \in Threads : Holds(v)' = Holds(v)
    BY <1>10 DEF TeardownWatcher, Held, Holds
  <2> QED
    BY <1>0, <1>10, <2>1, SameCreation
       DEF IInv, TypeOK, TeardownWatcher, Counting
<1>11. ASSUME NEW t \in Threads, TeardownFree(t) PROVE Counting'
  <2>1. /\ Held = {}
        /\ Held' = Held
        /\ \A v \in Threads \ {t} : pc[v] = "idle"
        /\ ~IsDefault
    BY <1>11 DEF IInv, Teardown, TeardownAlone, TeardownFree, Held
  <2>2. phase = "live" /\ \A v \in Threads : pc[v] # "unref"
    BY <1>11, <2>1 DEF IInv, Usage, Uses, TeardownFree
  <2>3. refCount = 0
    BY <2>1, <2>2, FS_EmptySet DEF IInv, Counting, Kept
  <2>4. phase' # "live" /\ \A v \in Threads : pc'[v] = "idle"
    BY <1>11, <2>1 DEF IInv, TypeOK, TeardownFree
  <2> QED
    BY <1>11, <2>1, <2>3, <2>4, FS_EmptySet DEF TeardownFree, Counting
<1>12. ASSUME NEW t \in Threads, NEW w \in Watchers, AddWatcher(t, w)
       PROVE  Counting'
  <2>1. Held' = Held /\ \A v \in Threads : Holds(v)' = Holds(v)
    BY <1>12 DEF AddWatcher, Held, Holds
  <2> QED
    BY <1>0, <1>12, <2>1, SameCreation DEF IInv, AddWatcher, Counting
<1>13. ASSUME NEW t \in Threads, NEW w \in Watchers, RemoveWatcher(t, w)
       PROVE  Counting'
  <2>1. Held' = Held /\ \A v \in Threads : Holds(v)' = Holds(v)
    BY <1>13 DEF RemoveWatcher, Held, Holds
  <2> QED
    BY <1>0, <1>13, <2>1, SameCreation DEF IInv, RemoveWatcher, Counting
<1> QED
  BY <1>1, <1>2, <1>3, <1>4, <1>5, <1>6, <1>7,
     <1>8, <1>9, <1>10, <1>11, <1>12, <1>13
     DEF Next, Proceed

(***************************************************************************)
(* should_destroy is true for one caller of pd_loop_unref only, and for    *)
(* none of the default loop.                                               *)
(***************************************************************************)
LEMMA TeardownStep ==
  ASSUME SafeUse, IInv, Next
  PROVE  Teardown'
<1> USE DEF SafeUse
<1>0. [Next]_vars
  OBVIOUS
<1>1. ASSUME NEW t \in Threads, NEW r \in Refs, LoopCreate(t, r)
      PROVE  Teardown'
  <2>1. \A v \in Threads : pc[v] # "teardown"
    BY <1>1 DEF IInv, Usage, Uses, Teardown, TeardownAlone, Held, Holds,
             LoopCreate
  <2>2. \A v \in Threads : pc'[v] # "teardown"
    BY <1>1, <2>1 DEF IInv, TypeOK, LoopCreate
  <2>3. phase # "freed" /\ phase' # "freed"
    BY <1>1 DEF IInv, TypeOK, Usage, Uses, LoopCreate
  <2> QED
    BY <2>2, <2>3 DEF Teardown, TeardownAlone
<1>2. ASSUME NEW t \in Threads, NEW r \in Refs, LoopDefault(t, r)
      PROVE  Teardown'
  <2>1. \A v \in Threads : pc[v] # "teardown"
    BY <1>2 DEF IInv, Usage, Uses, Teardown, TeardownAlone, Held, Holds,
             LoopDefault
  <2>2. \A v \in Threads : pc'[v] # "teardown"
    BY <1>2, <2>1 DEF IInv, TypeOK, LoopDefault
  <2>3. phase # "freed" /\ phase' # "freed"
    BY <1>2 DEF IInv, TypeOK, Usage, Uses, LoopDefault
  <2> QED
    BY <2>2, <2>3 DEF Teardown, TeardownAlone
<1>3. ASSUME NEW t \in Threads, NEW r \in Refs, NEW u \in Threads, Ref(t, r, u)
      PROVE  Teardown'
  <2>1. \A v \in Threads : pc[v] # "teardown"
    BY <1>3, RefsAssumption
       DEF IInv, Usage, Uses, Teardown, TeardownAlone, Held, Holds,
             Ref
  <2>2. \A v \in Threads : pc'[v] # "teardown"
    BY <1>3, <2>1 DEF IInv, TypeOK, Ref
  <2>3. phase # "freed" /\ phase' # "freed"
    BY <1>3 DEF IInv, TypeOK, Usage, Uses, Ref
  <2> QED
    BY <2>2, <2>3 DEF Teardown, TeardownAlone
<1>4. ASSUME NEW t \in Threads, NEW r \in Refs, RefLoad(t, r) PROVE Teardown'
  <2>1. \A v \in Threads : pc[v] # "teardown"
    BY <1>4, RefsAssumption
       DEF IInv, Usage, Uses, Teardown, TeardownAlone, Held, Holds,
             RefLoad
  <2>2. \A v \in Threads : pc'[v] # "teardown"
    BY <1>4, <2>1 DEF IInv, TypeOK, RefLoad
  <2>3. phase # "freed" /\ phase' # "freed"
    BY <1>4 DEF IInv, TypeOK, Usage, Uses, RefLoad
  <2> QED
    BY <2>2, <2>3 DEF Teardown, TeardownAlone
<1>5. ASSUME NEW t \in Threads, NEW r \in Refs, Unref(t, r) PROVE Teardown'
  <2>1. \A v \in Threads : pc[v] = "idle"
    BY <1>5, RefsAssumption
       DEF IInv, Usage, Teardown, TeardownAlone, Held, Unref, MayDrop
  <2>2. phase = "live" /\ phase' = "live"
    BY <1>5 DEF IInv, Usage, Uses, Holds, Unref, MayDrop
  <2>3. \A v \in Threads \ {t} : pc'[v] = "idle"
    BY <1>5, <2>1 DEF IInv, TypeOK, Unref, Conclude
  <2>4. CASE refCount - 1 = 0
    <3>1. Counting' /\ \A v \in Threads : pc'[v] # "unref"
      BY <1>5, <2>1, CountingStep DEF IInv, TypeOK, Unref, Conclude
    <3>2. IsFiniteSet(Held') /\ Cardinality(Held') + Kept' = 0
      BY <1>5, <2>2, <2>4, <3>1 DEF Unref, Counting
    <3>3. Cardinality(Held') = 0 /\ ~IsDefault'
      BY <3>2, FS_CardinalityType DEF Kept
    <3>4. Held' = {}
      BY <3>2, <3>3, FS_EmptySet
    <3> QED
      BY <2>3, <3>3, <3>4 DEF Teardown, TeardownAlone
  <2>5. CASE refCount - 1 # 0
    <3>1. \A v \in Threads : pc'[v] = "idle"
      BY <1>5, <2>1, <2>5 DEF IInv, TypeOK, Unref, Conclude
    <3> QED
      BY <2>2, <3>1 DEF Teardown, TeardownAlone
  <2> QED
    BY <2>4, <2>5
<1>6. ASSUME NEW t \in Threads, NEW r \in Refs, UnrefLoad(t, r)
      PROVE  Teardown'
  <2>1. \A v \in Threads : pc[v] # "teardown"
    BY <1>6, RefsAssumption
       DEF IInv, Usage, Uses, Teardown, TeardownAlone, Held, Holds,
             UnrefLoad, MayDrop
  <2>2. \A v \in Threads : pc'[v] # "teardown"
    BY <1>6, <2>1 DEF IInv, TypeOK, UnrefLoad
  <2>3. phase # "freed" /\ phase' # "freed"
    BY <1>6 DEF IInv, TypeOK, Usage, Uses, Holds, UnrefLoad, MayDrop
  <2> QED
    BY <2>2, <2>3 DEF Teardown, TeardownAlone
<1>7. ASSUME NEW t \in Threads, NEW u \in Threads, RefStore(t, u)
      PROVE  Teardown'
  <2>1. \A v \in Threads \ {t} : pc[v] = "idle"
    BY <1>7 DEF IInv, Usage, Uses, RefStore
  <2>2. \A v \in Threads : pc'[v] = "idle"
    BY <1>7, <2>1 DEF IInv, TypeOK, RefStore
  <2>3. phase' # "freed"
    BY <1>7 DEF IInv, Usage, Uses, RefStore
  <2> QED
    BY <2>2, <2>3 DEF Teardown, TeardownAlone
<1>8. ASSUME NEW t \in Threads, UnrefStore(t) PROVE Teardown'
  <2>1. \A v \in Threads \ {t} : pc[v] = "idle" /\ pc'[v] = "idle"
    BY <1>8 DEF IInv, TypeOK, Usage, Uses, UnrefStore, Conclude
  <2>2. phase = "live" /\ phase' = "live"
    BY <1>8 DEF IInv, Usage, Uses, UnrefStore
  <2>3. CASE pc'[t] = "teardown"
    <3>1. refCount' = 0
      BY <1>8, <2>3 DEF IInv, TypeOK, UnrefStore, Conclude
    <3>2. Counting' /\ \A v \in Threads : pc'[v] # "unref"
      BY <1>8, <2>1, <2>3, CountingStep
    <3>3. IsFiniteSet(Held') /\ Cardinality(Held') + Kept' = 0
      BY <2>2, <3>1, <3>2 DEF Counting
    <3>4. Cardinality(Held') = 0 /\ ~IsDefault'
      BY <3>3, FS_CardinalityType DEF Kept
    <3>5. Held' = {}
      BY <3>3, <3>4, FS_EmptySet
    <3> QED
      BY <2>1, <3>4, <3>5 DEF Teardown, TeardownAlone
  <2>4. CASE pc'[t] # "teardown"
    BY <2>1, <2>2, <2>4 DEF Teardown, TeardownAlone
  <2> QED
    BY <2>3, <2>4
<1>9. ASSUME NEW t \in Threads, UnrefReload(t) PROVE Teardown'
  <2>1. \A v \in Threads \ {t} : pc[v] = "idle" /\ pc'[v] = "idle"
    BY <1>9 DEF IInv, TypeOK, Usage, Uses, UnrefReload, Conclude
  <2>2. phase = "live" /\ phase' = "live"
    BY <1>9 DEF IInv, Usage, Uses, UnrefReload
  <2>3. CASE pc'[t] = "teardown"
    <3>1. refCount' = 0
      BY <1>9, <2>3 DEF IInv, TypeOK, UnrefReload, Conclude
    <3>2. Counting' /\ \A v \in Threads : pc'[v] # "unref"
      BY <1>9, <2>1, <2>3, CountingStep
    <3>3. IsFiniteSet(Held') /\ Cardinality(Held') + Kept' = 0
      BY <2>2, <3>1, <3>2 DEF Counting
    <3>4. Cardinality(Held') = 0 /\ ~IsDefault'
      BY <3>3, FS_CardinalityType DEF Kept
    <3>5. Held' = {}
      BY <3>3, <3>4, FS_EmptySet
    <3> QED
      BY <2>1, <3>4, <3>5 DEF Teardown, TeardownAlone
  <2>4. CASE pc'[t] # "teardown"
    BY <2>1, <2>2, <2>4 DEF Teardown, TeardownAlone
  <2> QED
    BY <2>3, <2>4
<1>10. ASSUME NEW t \in Threads, TeardownWatcher(t) PROVE Teardown'
  BY <1>0, <1>10, SameCreation
     DEF IInv, Teardown, TeardownAlone, Held, TeardownWatcher
<1>11. ASSUME NEW t \in Threads, TeardownFree(t) PROVE Teardown'
  <2>1. \A v \in Threads : pc'[v] = "idle"
    BY <1>11 DEF IInv, TypeOK, Teardown, TeardownAlone, TeardownFree
  <2>2. ~IsDefault
    BY <1>11 DEF IInv, Teardown, TeardownFree
  <2> QED
    BY <1>0, <2>1, <2>2, SameCreation DEF Teardown, TeardownAlone
<1>12. ASSUME NEW t \in Threads, NEW w \in Watchers, AddWatcher(t, w)
       PROVE  Teardown'
  BY <1>0, <1>12, SameCreation
     DEF IInv, Teardown, TeardownAlone, Held, AddWatcher
<1>13. ASSUME NEW t \in Threads, NEW w \in Watchers, RemoveWatcher(t, w)
       PROVE  Teardown'
  BY <1>0, <1>13, SameCreation
     DEF IInv, Teardown, TeardownAlone, Held, RemoveWatcher
<1> QED
  BY <1>1, <1>2, <1>3, <1>4, <1>5, <1>6, <1>7,
     <1>8, <1>9, <1>10, <1>11, <1>12, <1>13
     DEF Next, Proceed

(***************************************************************************)
(* The list of watchers stays exact.                                       *)
(***************************************************************************)
LEMMA ListingStep ==
  ASSUME IInv, Next
  PROVE  Listing'
<1>1. ASSUME NEW t \in Threads, NEW r \in Refs, LoopCreate(t, r) \/ LoopDefault(t, r)
      PROVE  Listing'
  BY <1>1 DEF IInv, TypeOK, Listing, LoopCreate, LoopDefault
<1>2. ASSUME NEW t \in Threads, NEW r \in Refs,
             (\E u \in Threads : Ref(t, r, u)) \/ RefLoad(t, r)
      PROVE  Listing'
  BY <1>2 DEF IInv, TypeOK, Listing, Ref, RefLoad
<1>3. ASSUME NEW t \in Threads, NEW r \in Refs, Unref(t, r) \/ UnrefLoad(t, r)
      PROVE  Listing'
  <2>1. UNCHANGED <<list, wlive>>
    BY <1>3 DEF Unref, UnrefLoad
  <2>2. CASE Unref(t, r)
    BY <2>1, <2>2 DEF IInv, TypeOK, Listing, Unref, Conclude
  <2>3. CASE UnrefLoad(t, r)
    BY <2>1, <2>3 DEF IInv, TypeOK, Listing, UnrefLoad
  <2> QED
    BY <1>3, <2>2, <2>3
<1>4. ASSUME NEW t \in Threads,
             (\E u \in Threads : RefStore(t, u)) \/ UnrefStore(t) \/ UnrefReload(t)
      PROVE  Listing'
  BY <1>4 DEF IInv, TypeOK, Listing, RefStore, UnrefStore, UnrefReload, Conclude
<1>5. ASSUME NEW t \in Threads, TeardownWatcher(t) PROVE Listing'
  <2>1. /\ tmp[t] \in Nat /\ tmp' = [tmp EXCEPT ![t] = tmp[t] + 1]
        /\ pc' = pc /\ tmp \in [Threads -> Int]
    BY <1>5 DEF IInv, TypeOK, Listing, TeardownWatcher
  <2>2. list[tmp[t] + 1] \in wlive
    BY <1>5, <2>1 DEF IInv, TypeOK, Listing, Listed, TeardownWatcher
  <2>3. Listed(list', wlive')
    BY <1>5, <2>2, WatcherRemoved DEF IInv, Listing, TeardownWatcher
  <2> QED
    BY <2>1, <2>3 DEF IInv, Listing
<1>6. ASSUME NEW t \in Threads, TeardownFree(t) PROVE Listing'
  BY <1>6 DEF IInv, TypeOK, Listing, TeardownFree
<1>7. ASSUME NEW t \in Threads, NEW w \in Watchers, AddWatcher(t, w)
      PROVE  Listing'
  BY <1>7, WatcherAdded DEF IInv, Listing, AddWatcher
<1>8. ASSUME NEW t \in Threads, NEW w \in Watchers, RemoveWatcher(t, w)
      PROVE  Listing'
  BY <1>8, WatcherRemoved DEF IInv, Listing, RemoveWatcher
<1> QED
  BY <1>1, <1>2, <1>3, <1>4, <1>5, <1>6, <1>7, <1>8 DEF Next, Proceed

(***************************************************************************)
(* Every step preserves the type invariant; that a protected ref_count     *)
(* stays non-negative comes from the counting.                             *)
(***************************************************************************)
LEMMA TypeStep ==
  ASSUME SafeUse, IInv, Next
  PROVE  TypeOK'
<1> USE DEF SafeUse
<1>0. [Next]_vars
  OBVIOUS
<1>1. ASSUME NEW t \in Threads, NEW r \in Refs, LoopCreate(t, r) PROVE TypeOK'
  BY <1>0, <1>1, SameCreation DEF IInv, TypeOK, LoopCreate
<1>2. ASSUME NEW t \in Threads, NEW r \in Refs, LoopDefault(t, r)
      PROVE  TypeOK'
  BY <1>0, <1>2, SameCreation DEF IInv, TypeOK, LoopDefault
<1>3. ASSUME NEW t \in Threads, NEW r \in Refs, NEW u \in Threads, Ref(t, r, u)
      PROVE  TypeOK'
  BY <1>0, <1>3, SameCreation DEF IInv, TypeOK, Ref
<1>4. ASSUME NEW t \in Threads, NEW r \in Refs, RefLoad(t, r) PROVE TypeOK'
  BY <1>0, <1>4, SameCreation DEF IInv, TypeOK, RefLoad
<1>5. ASSUME NEW t \in Threads, NEW r \in Refs, Unref(t, r) PROVE TypeOK'
  <2>1. refCount' >= 0
    <3>1. Counting' /\ \A v \in Threads : pc'[v] # "unref"
      BY <1>5, CountingStep DEF IInv, TypeOK, Usage, Unref, Conclude
    <3>2. phase' = "live"
      BY <1>5 DEF IInv, Usage, Uses, Holds, Unref, MayDrop
    <3> QED
      BY <3>1, <3>2, FS_CardinalityType DEF Counting, Kept
  <2> QED
    BY <1>0, <1>5, <2>1, SameCreation DEF IInv, TypeOK, Unref, Conclude
<1>6. ASSUME NEW t \in Threads, NEW r \in Refs, UnrefLoad(t, r) PROVE TypeOK'
  BY <1>0, <1>6, SameCreation DEF IInv, TypeOK, UnrefLoad
<1>7. ASSUME NEW t \in Threads, NEW u \in Threads, RefStore(t, u)
      PROVE  TypeOK'
  <2>1. ~ThreadSafe
    BY <1>7 DEF IInv, Usage, RefStore
  <2> QED
    BY <1>0, <1>7, <2>1, SameCreation DEF IInv, TypeOK, RefStore
<1>8. ASSUME NEW t \in Threads, UnrefStore(t) PROVE TypeOK'
  <2>1. ~ThreadSafe
    BY <1>8 DEF IInv, Usage, UnrefStore
  <2> QED
    BY <1>0, <1>8, <2>1, SameCreation DEF IInv, TypeOK, UnrefStore, Conclude
<1>9. ASSUME NEW t \in Threads, UnrefReload(t) PROVE TypeOK'
  <2>1. ~ThreadSafe
    BY <1>9 DEF IInv, Usage, UnrefReload
  <2> QED
    BY <1>0, <1>9, <2>1, SameCreation DEF IInv, TypeOK, UnrefReload, Conclude
<1>10. ASSUME NEW t \in Threads, TeardownWatcher(t) PROVE TypeOK'
  <2>1. list' \in Seq(Watchers) /\ wlive' \subseteq Watchers
    BY <1>10, ListingStep, ElementOfSeq DEF Listing, Listed
  <2> QED
    BY <1>0, <1>10, <2>1, SameCreation DEF IInv, TypeOK, TeardownWatcher
<1>11. ASSUME NEW t \in Threads, TeardownFree(t) PROVE TypeOK'
  BY <1>0, <1>11, SameCreation DEF IInv, TypeOK, TeardownFree
<1>12. ASSUME NEW t \in Threads, NEW w \in Watchers, AddWatcher(t, w)
       PROVE  TypeOK'
  <2>1. list' \in Seq(Watchers) /\ wlive' \subseteq Watchers
    BY <1>12, ListingStep, ElementOfSeq DEF Listing, Listed
  <2> QED
    BY <1>0, <1>12, <2>1, SameCreation DEF IInv, TypeOK, AddWatcher
<1>13. ASSUME NEW t \in Threads, NEW w \in Watchers, RemoveWatcher(t, w)
       PROVE  TypeOK'
  <2>1. list' \in Seq(Watchers) /\ wlive' \subseteq Watchers
    BY <1>13, ListingStep, ElementOfSeq DEF Listing, Listed
  <2> QED
    BY <1>0, <1>13, <2>1, SameCreation DEF IInv, TypeOK, RemoveWatcher
<1> QED
  BY <1>1, <1>2, <1>3, <1>4, <1>5, <1>6, <1>7,
     <1>8, <1>9, <1>10, <1>11, <1>12, <1>13
     DEF Next, Proceed

(***************************************************************************)
(* The inductive invariant holds in every state of a loop that is used     *)
(* safely.                                                                 *)
(***************************************************************************)
LEMMA Inductive ==
  ASSUME SafeUse
  PROVE  Spec => []IInv
<1>1. Init => IInv
  <2> SUFFICES ASSUME Init PROVE IInv
    OBVIOUS
  <2>1. Held = {} /\ IsFiniteSet(Held) /\ Cardinality(Held) = 0
    BY FS_EmptySet DEF Init, Held
  <2>2. TypeOK
    BY RefsAssumption DEF Init, TypeOK
  <2>3. Usage /\ Counting
    BY <2>1, RefsAssumption DEF Init, Usage, Counting, Uses, Holds
  <2>4. Teardown
    BY DEF Init, Teardown, TeardownAlone
  <2>5. Listing
    BY <2>1, RefsAssumption DEF Init, Listing, Listed
  <2> QED
    BY <2>2, <2>3, <2>4, <2>5 DEF IInv
<1>2. IInv /\ [Next]_vars => IInv'
  <2>1. IInv /\ Next => IInv'
    BY TypeStep, UsageStep, CountingStep, TeardownStep, ListingStep DEF IInv
  <2>2. IInv /\ UNCHANGED vars => IInv'
    BY DEF IInv, vars, TypeOK, Usage, Counting, Teardown, Listing, Uses,
           Holds, Held, ThreadSafe, EnableThreadSafety, IsDefault, Kept,
           TeardownAlone, Listed
  <2> QED
    BY <2>1, <2>2
<1> QED
  BY <1>1, <1>2, PTL DEF Spec

-----------------------------------------------------------------------------
(* Theorems *)

(***************************************************************************)
(* The type invariant holds; in particular ref_count of a protected loop   *)
(* is never negative.                                                      *)
(***************************************************************************)
THEOREM TypeCorrect ==
  ASSUME SafeUse
  PROVE  Spec => []TypeOK
<1>1. IInv => TypeOK
  BY DEF IInv
<1> QED
  BY <1>1, Inductive, PTL

(***************************************************************************)
(* ref_count is the number of references held, whichever threads call      *)
(* pd_loop_ref and pd_loop_unref and in whatever order.                    *)
(***************************************************************************)
THEOREM CountCorrect ==
  ASSUME SafeUse
  PROVE  Spec => []CountMatches
<1>1. IInv => CountMatches
  BY DEF IInv, Counting, CountMatches, Kept
<1> QED
  BY <1>1, Inductive, PTL

(***************************************************************************)
(* When pd_loop_unref frees the loop nobody holds a reference to it and no *)
(* thread is inside a call on it.                                          *)
(***************************************************************************)
THEOREM FreedIsUnused ==
  ASSUME SafeUse
  PROVE  Spec => []NoUseAfterFree
<1>1. IInv => NoUseAfterFree
  BY DEF IInv, Usage, Uses, NoUseAfterFree
<1> QED
  BY <1>1, Inductive, PTL

(***************************************************************************)
(* The loop is torn down by one thread, once, and only when nobody holds a *)
(* reference.                                                              *)
(***************************************************************************)
THEOREM OneTeardown ==
  ASSUME SafeUse
  PROVE  Spec => []TeardownAlone
<1>1. IInv => TeardownAlone
  BY DEF IInv, Teardown
<1> QED
  BY <1>1, Inductive, PTL

=============================================================================
