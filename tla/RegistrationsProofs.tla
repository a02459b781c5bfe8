------------------------- MODULE RegistrationsProofs -------------------------
(***************************************************************************)
(* What the operations on the registration records do, for any array of    *)
(* records: a record is found by a linear search for the first match, and  *)
(* removed by moving the last one into its place.  When both the           *)
(* descriptor and the watcher are keys of the array, as they are between   *)
(* the calls of the backends, the array stands for the set of its records, *)
(* and each operation takes a record out of that set or adds one to it.    *)
(***************************************************************************)
EXTENDS Registrations, SequenceTheorems, WellFoundedInduction, TLAPS

\* The set of the records of an array
Recs(r) == {r[i] : i \in DOMAIN r}

\* No two records name the same descriptor or the same watcher.
Keyed(r) ==
  \A i, j \in DOMAIN r :
    r[i].fd = r[j].fd \/ r[i].watcher = r[j].watcher => i = j

-----------------------------------------------------------------------------
(* The linear searches *)

(***************************************************************************)
(* A non-empty set of natural numbers has a least element, so a search     *)
(* from the start that can succeed finds a first match.                    *)
(***************************************************************************)
LEMMA LeastElement ==
  ASSUME NEW T \in SUBSET Nat, T # {}
  PROVE  \E n \in T : \A m \in T : n <= m
<1> DEFINE R == {p \in Nat \X Nat : p[1] < p[2]}
<1>1. IsWellFoundedOn(R, Nat)
  BY NatLessThanWellFounded DEF OpToRel
<1>2. ASSUME NEW m \in Nat, NEW n \in Nat, m < n PROVE <<m, n>> \in R
  BY <1>2
<1> HIDE DEF R
<1>3. PICK n \in T : \A m \in T : ~(<<m, n>> \in R)
  BY <1>1, WFMin
<1>4. ASSUME NEW m \in T PROVE n <= m
  <2>1. m \in Nat /\ n \in Nat
    OBVIOUS
  <2>2. m < n => <<m, n>> \in R
    BY <1>2, <2>1
  <2> QED
    BY <1>3, <2>1, <2>2
<1> QED
  BY <1>4

(***************************************************************************)
(* The for loops of epoll_watcher_unregister and of the eviction stop at a *)
(* matching record when there is one.                                      *)
(***************************************************************************)
LEMMA OwnRecordFound ==
  ASSUME NEW R, NEW r \in Seq(R), NEW w, Owns(r, w)
  PROVE  OwnRecord(r, w) \in DOMAIN r /\ r[OwnRecord(r, w)].watcher = w
<1> DEFINE T == {i \in DOMAIN r : r[i].watcher = w}
<1>1. T \in SUBSET Nat /\ T # {} /\ DOMAIN r = 1..Len(r)
  BY DEF Owns
<1>2. PICK n \in T : \A m \in T : n <= m
  BY <1>1, LeastElement
<1>3. n \in DOMAIN r /\ r[n].watcher = w /\ \A j \in 1..(n - 1) : r[j].watcher # w
  BY <1>1, <1>2
<1> QED
  BY <1>3, Zenon DEF OwnRecord

\* The record that _epoll_evict_stale_registration drops
Stale(r, fd, w) ==
  CHOOSE i \in DOMAIN r :
    /\ Foreign(r, i, fd, w)
    /\ \A j \in 1..(i - 1) : ~Foreign(r, j, fd, w)

LEMMA StaleRecordFound ==
  ASSUME NEW R, NEW r \in Seq(R), NEW fd, NEW w,
         \E i \in DOMAIN r : Foreign(r, i, fd, w)
  PROVE  /\ Stale(r, fd, w) \in DOMAIN r
         /\ Foreign(r, Stale(r, fd, w), fd, w)
<1> DEFINE T == {i \in DOMAIN r : Foreign(r, i, fd, w)}
<1>1. T \in SUBSET Nat /\ T # {} /\ DOMAIN r = 1..Len(r)
  OBVIOUS
<1>2. PICK n \in T : \A m \in T : n <= m
  BY <1>1, LeastElement
<1>3. /\ n \in DOMAIN r
      /\ Foreign(r, n, fd, w)
      /\ \A j \in 1..(n - 1) : ~Foreign(r, j, fd, w)
  BY <1>1, <1>2
<1> QED
  BY <1>3, Zenon DEF Stale

-----------------------------------------------------------------------------
(* Removing and adding *)

(***************************************************************************)
(* Moving the last record into the place of another removes exactly that   *)
(* one, the last record itself included.                                   *)
(***************************************************************************)
LEMMA RecordRemoved ==
  ASSUME NEW R, NEW r \in Seq(R), Keyed(r), NEW i \in DOMAIN r
  PROVE  /\ RemoveRecord(r, i) \in Seq(R)
         /\ Keyed(RemoveRecord(r, i))
         /\ Recs(RemoveRecord(r, i)) = Recs(r) \ {r[i]}
<1> DEFINE n == Len(r)
           q == RemoveRecord(r, i)
           At(j) == IF j = i THEN n ELSE j
<1>1. /\ n \in Nat
      /\ DOMAIN r = 1..n
      /\ i \in 1..n
      /\ \A j \in 1..n : r[j] \in R
  BY ElementOfSeq
<1>2. /\ q \in Seq(R)
      /\ DOMAIN q = 1..(n - 1)
      /\ \A j \in 1..(n - 1) : q[j] = r[At(j)] /\ At(j) \in 1..n /\ At(j) # i
  BY <1>1 DEF RemoveRecord
<1>3. \A j, k \in 1..(n - 1) : At(j) = At(k) => j = k
  BY <1>1
<1>4. ASSUME NEW j \in 1..n, j # i PROVE \E k \in 1..(n - 1) : At(k) = j
  <2>1. CASE j = n
    <3>1. i \in 1..(n - 1) /\ At(i) = j
      BY <1>1, <1>4, <2>1
    <3> QED
      BY <3>1
  <2>2. CASE j # n
    <3> HIDE DEF n
    <3>1. j \in 1..(n - 1)
      BY <1>1, <2>2
    <3>2. At(j) = j
      BY <1>4
    <3> QED
      BY <3>1, <3>2
  <2> QED
    BY <2>1, <2>2
<1> HIDE DEF q, At
<1>5. Keyed(q)
  BY <1>1, <1>2, <1>3 DEF Keyed
<1>6. Recs(q) = Recs(r) \ {r[i]}
  <2>1. ASSUME NEW j \in DOMAIN q PROVE q[j] \in Recs(r) \ {r[i]}
    BY <1>1, <1>2 DEF Keyed, Recs
  <2>2. ASSUME NEW j \in DOMAIN r, r[j] # r[i] PROVE r[j] \in Recs(q)
    BY <1>1, <1>2, <1>4, <2>2 DEF Recs
  <2> QED
    BY <2>1, <2>2 DEF Recs
<1> QED
  BY <1>2, <1>5, <1>6 DEF q

(***************************************************************************)
(* A successful epoll_watcher_unregister drops the watcher's own record    *)
(* and no other.                                                           *)
(***************************************************************************)
LEMMA OwnRecordRemoved ==
  ASSUME NEW R, NEW r \in Seq(R), Keyed(r), NEW w, Owns(r, w)
  PROVE  /\ RemoveRecord(r, OwnRecord(r, w)) \in Seq(R)
         /\ Keyed(RemoveRecord(r, OwnRecord(r, w)))
         /\ Recs(RemoveRecord(r, OwnRecord(r, w)))
              = {x \in Recs(r) : x.watcher # w}
<1>1. PICK i \in DOMAIN r : i = OwnRecord(r, w) /\ r[i].watcher = w
  BY OwnRecordFound
<1>2. Recs(r) \ {r[i]} = {x \in Recs(r) : x.watcher # w}
  BY <1>1 DEF Keyed, Recs
<1> QED
  BY <1>1, <1>2, RecordRemoved

(***************************************************************************)
(* The eviction drops the record that another watcher has of the           *)
(* descriptor.  It drops one at most; that is all of them when the         *)
(* descriptor is a key.                                                    *)
(***************************************************************************)
LEMMA StaleRecordEvicted ==
  ASSUME NEW R, NEW r \in Seq(R), Keyed(r), NEW fd, NEW w
  PROVE  /\ EvictStale(r, fd, w) \in Seq(R)
         /\ Keyed(EvictStale(r, fd, w))
         /\ Recs(EvictStale(r, fd, w))
              = {x \in Recs(r) : x.fd = fd => x.watcher = w}
<1>1. CASE \E i \in DOMAIN r : Foreign(r, i, fd, w)
  <2>1. PICK i \in DOMAIN r : i = Stale(r, fd, w) /\ Foreign(r, i, fd, w)
    BY <1>1, StaleRecordFound
  <2>2. EvictStale(r, fd, w) = RemoveRecord(r, i)
    BY <1>1, <2>1 DEF EvictStale, Stale
  <2>3. Recs(r) \ {r[i]} = {x \in Recs(r) : x.fd = fd => x.watcher = w}
    BY <2>1 DEF Keyed, Recs, Foreign
  <2> QED
    BY <2>2, <2>3, RecordRemoved
<1>2. CASE ~\E i \in DOMAIN r : Foreign(r, i, fd, w)
  BY <1>2 DEF EvictStale, Recs, Foreign
<1> QED
  BY <1>1, <1>2

(***************************************************************************)
(* Appending a record whose descriptor and watcher are new keeps both      *)
(* keys.                                                                   *)
(***************************************************************************)
LEMMA RecordAdded ==
  ASSUME NEW R, NEW r \in Seq(R), Keyed(r), NEW x \in R,
         \A y \in Recs(r) : y.fd # x.fd /\ y.watcher # x.watcher
  PROVE  /\ Append(r, x) \in Seq(R)
         /\ Keyed(Append(r, x))
         /\ Recs(Append(r, x)) = Recs(r) \cup {x}
<1> DEFINE q == Append(r, x)
<1>1. /\ q \in Seq(R)
      /\ Len(r) \in Nat
      /\ DOMAIN r = 1..Len(r)
      /\ DOMAIN q = 1..(Len(r) + 1)
      /\ \A i \in 1..Len(r) : q[i] = r[i]
      /\ q[Len(r) + 1] = x
  BY AppendProperties
<1>2. \A i \in 1..Len(r) : r[i].fd # x.fd /\ r[i].watcher # x.watcher
  BY <1>1 DEF Recs
<1> HIDE DEF q
<1>3. Keyed(q)
  BY <1>1, <1>2 DEF Keyed
<1>4. Recs(q) = Recs(r) \cup {x}
  <2>1. ASSUME NEW i \in DOMAIN q PROVE q[i] \in Recs(r) \cup {x}
    BY <1>1 DEF Recs
  <2>2. ASSUME NEW i \in DOMAIN r PROVE r[i] \in Recs(q)
    BY <1>1 DEF Recs
  <2>3. x \in Recs(q)
    BY <1>1 DEF Recs
  <2> QED
    BY <2>1, <2>2, <2>3 DEF Recs
<1> QED
  BY <1>1, <1>3, <1>4 DEF q

(***************************************************************************)
(* The records of an array have the type of its elements.                  *)
(***************************************************************************)
LEMMA RecordType ==
  ASSUME NEW R, NEW r \in Seq(R)
  PROVE  Recs(r) \subseteq R
BY ElementOfSeq DEF Recs

(***************************************************************************)
(* A watcher owns a record exactly when one of the records names it, and   *)
(* an array without records is keyed.                                      *)
(***************************************************************************)
LEMMA OwnsRecord ==
  ASSUME NEW r, NEW w
  PROVE  Owns(r, w) <=> \E x \in Recs(r) : x.watcher = w
BY DEF Owns, Recs

LEMMA NoRecords == Keyed(<< >>) /\ Recs(<< >>) = {}
BY DEF Keyed, Recs
==============================================================================
