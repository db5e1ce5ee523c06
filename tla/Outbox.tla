-------------------------------- MODULE Outbox --------------------------------
(***************************************************************************)
(* What the queue of a device and the server promise together about a      *)
(* mutation, whatever the tabs, the network and the database do: it        *)
(* becomes a grade at most once and stays one, it leaves the queue once    *)
(* and for good, and it leaves only after its grade was stored, or after   *)
(* a rollback took back a grade that had been reported as stored.  The     *)
(* second way out is what this code has and sync_handler.go:155 denies.    *)
(***************************************************************************)
EXTENDS Naturals

CONSTANT Mutations

VARIABLES
  queued,     \* mutations the device still keeps
  done,       \* mutations the device has forgotten
  stored,     \* mutations that are grades on the server
  forfeited   \* mutations whose grade a rollback has taken back

vars == <<queued, done, stored, forfeited>>

Entered == queued \union done

(* A device may keep mutations from before.                                *)
Init ==
  /\ queued \in SUBSET Mutations
  /\ done = {} /\ stored = {} /\ forfeited = {}

Enter(m) ==
  /\ m \notin Entered
  /\ queued' = queued \union {m}
  /\ UNCHANGED <<done, stored, forfeited>>

(* One transaction commits: its mutations become grades together.          *)
Store(ms) ==
  /\ ms \subseteq Entered \ stored
  /\ stored' = stored \union ms
  /\ UNCHANGED <<queued, done, forfeited>>

Forfeit(ms) ==
  /\ ms \subseteq Entered \ stored
  /\ forfeited' = forfeited \union ms
  /\ UNCHANGED <<queued, done, stored>>

Leave(ms) ==
  /\ ms \subseteq queued \intersect (stored \union forfeited)
  /\ queued' = queued \ ms
  /\ done' = done \union ms
  /\ UNCHANGED <<stored, forfeited>>

Next ==
  \/ \E m \in Mutations : Enter(m)
  \/ \E ms \in SUBSET Mutations : Store(ms) \/ Forfeit(ms) \/ Leave(ms)

Spec == Init /\ [][Next]_vars

=============================================================================
