--------------------------- MODULE MCOfflineSync ----------------------------
(* One tab and two mutations, one of which at least the server can store.  *)
(* A tab waits for its request, so one is enough; a request that a tab     *)
(* left behind runs beside a new one in MCOfflineTabs.                     *)
EXTENDS OfflineSync
MCMutations == 1..2

MCInit == Init /\ \E m \in Mutations : kind[m] = "ok"
MCSpec == MCInit /\ [][Next]_vars /\ Fairness
=============================================================================
