--------------------------- MODULE MCOfflineTabs ----------------------------
(* Two tabs that share the queue of the device, one mutation, and three    *)
(* requests: one per tab and one left behind.  Tabs and requests are       *)
(* interchangeable.                                                        *)
EXTENDS OfflineSync, TLC
MCMutations == 1..1
MCSymmetry == Permutations(Tabs) \union Permutations(Requests)
=============================================================================
