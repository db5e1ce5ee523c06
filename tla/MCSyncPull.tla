------------------------------ MODULE MCSyncPull ------------------------------
(* One grade, two requests that write it at a time, two teachers and an    *)
(* admin, and a client that pulls while they write.                        *)
EXTENDS SyncPull
=============================================================================
