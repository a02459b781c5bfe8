---------------------------- MODULE Registrations ----------------------------
(***************************************************************************)
(* The registration records that src/platform/epoll.c and                  *)
(* src/platform/kqueue.c keep next to the kernel's set: an unordered array *)
(* of pairs of a descriptor number and the watcher that registered it, as  *)
(* a sequence of records with fields fd and watcher.  Unregistering looks  *)
(* a record up by watcher, registering evicts one by descriptor.           *)
(***************************************************************************)
EXTENDS Naturals, Sequences

\* registrations[i] = registrations[--registration_count]
RemoveRecord(r, i) ==
  [j \in 1..(Len(r) - 1) |-> IF j = i THEN r[Len(r)] ELSE r[j]]

\* The index of the first record that names watcher w, if there is one
Owns(r, w) == \E i \in DOMAIN r : r[i].watcher = w

OwnRecord(r, w) ==
  CHOOSE i \in DOMAIN r :
    /\ r[i].watcher = w
    /\ \A j \in 1..(i - 1) : r[j].watcher # w

Foreign(r, i, fd, w) == r[i].fd = fd /\ r[i].watcher # w

\* Mutant: stale records are not evicted
EvictStaleNever(r, fd, w) == r

\* _epoll_evict_stale_registration: drop the first record of fd that names
\* another watcher
EvictStale(r, fd, w) ==
  IF \E i \in DOMAIN r : Foreign(r, i, fd, w)
    THEN RemoveRecord(r, CHOOSE i \in DOMAIN r :
                           /\ Foreign(r, i, fd, w)
                           /\ \A j \in 1..(i - 1) : ~Foreign(r, j, fd, w))
    ELSE r

=============================================================================
