--------------------------- MODULE WatcherContract ---------------------------
(***************************************************************************)
(* What poll-dancer.h promises about watchers, whatever the backend: an    *)
(* active watcher may be called back, with events of the mask it has at    *)
(* that time or with an error or hang-up, one callback at a time; a        *)
(* stopped or destroyed watcher is not.  The application may use the API   *)
(* at any time, inside a callback too.                                     *)
(***************************************************************************)
CONSTANTS
  Watchers,  \* the watchers an application can have
  None,      \* no watcher
  Masks,     \* the event masks it may ask for
  Always     \* the events reported without being asked for

VARIABLES
  status,  \* "none", "stopped" or "watching"
  mask,    \* the mask last asked for
  running  \* the watcher whose callback runs, and its events

cvars == <<status, mask, running>>

Quiet == [w |-> None, events |-> {}]

Init ==
  /\ status = [w \in Watchers |-> "none"]
  /\ mask = [w \in Watchers |-> {}]
  /\ running = Quiet

Becomes(w, s) == status' = [status EXCEPT ![w] = s]

Create(w, events) ==
  /\ status[w] = "none"
  /\ Becomes(w, "watching")
  /\ mask' = [mask EXCEPT ![w] = events]
  /\ UNCHANGED running

Start(w) ==
  /\ status[w] = "stopped"
  /\ Becomes(w, "watching")
  /\ UNCHANGED <<mask, running>>

Stop(w) ==
  /\ status[w] = "watching"
  /\ Becomes(w, "stopped")
  /\ UNCHANGED <<mask, running>>

Update(w, events) ==
  /\ status[w] = "watching"
  /\ mask' = [mask EXCEPT ![w] = events]
  /\ UNCHANGED <<status, running>>

Destroy(w) ==
  /\ status[w] # "none"
  /\ Becomes(w, "none")
  /\ mask' = [mask EXCEPT ![w] = {}]
  /\ UNCHANGED running

Deliver(w) ==
  /\ running = Quiet
  /\ status[w] = "watching"
  /\ running'.w = w
  /\ running'.events # {}
  /\ running'.events \subseteq mask[w] \cup Always
  /\ UNCHANGED <<status, mask>>

Return ==
  /\ running # Quiet
  /\ running' = Quiet
  /\ UNCHANGED <<status, mask>>

Next ==
  \/ \E w \in Watchers :
       \/ \E events \in Masks : Create(w, events) \/ Update(w, events)
       \/ Start(w)
       \/ Stop(w)
       \/ Destroy(w)
       \/ Deliver(w)
  \/ Return

Spec == Init /\ [][Next]_cvars

=============================================================================
