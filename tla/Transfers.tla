------------------------------ MODULE Transfers ------------------------------
(***************************************************************************)
(* The import of a student's record from another school: ImportStudent     *)
(* (api/internal/interop/portability/handler.go) over users and            *)
(* source_mappings.  The synthetic address is random, so that only the     *)
(* mapping's UNIQUE (school, system, source id, type) recognises a         *)
(* student.  A record without a sourcedId is a new student every time, and *)
(* not modelled.                                                           *)
(***************************************************************************)
EXTENDS Naturals, NoValue

CONSTANTS
  Records,  \* the sourcedIds of records
  Clerks    \* requests at a time

ASSUME NoneIsNoRecord == None \notin Records

VARIABLES
  transfer,     \* [Clerks -> Transferring], the state of a request
  record,       \* [Clerks -> Records \union {None}]
  transferred,  \* [Records -> Nat], committed users made from the record
  known         \* records with a committed mapping

transferVars == <<transfer, record, transferred, known>>

Transferring == {"idle", "provisioned", "mapped", "aborted"}

TransferTypeOK ==
  /\ transfer \in [Clerks -> Transferring]
  /\ record \in [Clerks -> Records \union {None}]
  /\ \A c \in Clerks : transfer[c] = "idle" <=> record[c] = None
  /\ transferred \in [Records -> Nat]
  /\ known \in SUBSET Records

TransferInit ==
  /\ transfer = [c \in Clerks |-> "idle"]
  /\ record = [c \in Clerks |-> None]
  /\ transferred = [x \in Records |-> 0]
  /\ known = {}

(* The lookup finds no mapping and ProvisionUser inserts the student; if   *)
(* it finds one the answer is "already_imported" and nothing happens.      *)
ProvisionTransfer(c, x) ==
  /\ transfer[c] = "idle" /\ x \notin known
  /\ transfer' = [transfer EXCEPT ![c] = "provisioned"]
  /\ record' = [record EXCEPT ![c] = x]
  /\ UNCHANGED <<transferred, known>>

(* UpsertSourceMapping waits for an open transaction with the same key.    *)
RecordHeld(c) ==
  \E d \in Clerks : transfer[d] = "mapped" /\ record[d] = record[c]

MapRecord(c) ==
  /\ transfer[c] = "provisioned" /\ ~ RecordHeld(c)
  /\ record[c] \notin known
  /\ transfer' = [transfer EXCEPT ![c] = "mapped"]
  /\ UNCHANGED <<record, transferred, known>>

(* Variant for mutation testing: a mapping that fails is "non-fatal".      *)
RecordTakenNonFatal(c) ==
  /\ transfer[c] = "provisioned" /\ ~ RecordHeld(c)
  /\ record[c] \in known
  /\ transfer' = [transfer EXCEPT ![c] = "mapped"]
  /\ UNCHANGED <<record, transferred, known>>

(* The upsert's conflict target is the entity, so that a source id taken   *)
(* meanwhile is an error: it is logged, the transaction is lost, and the   *)
(* answer is a 201 all the same.                                           *)
RecordTaken(c) ==
  /\ transfer[c] = "provisioned" /\ ~ RecordHeld(c)
  /\ record[c] \in known
  /\ transfer' = [transfer EXCEPT ![c] = "aborted"]
  /\ UNCHANGED <<record, transferred, known>>

TransferEnds(c) ==
  /\ transfer' = [transfer EXCEPT ![c] = "idle"]
  /\ record' = [record EXCEPT ![c] = None]

CommitTransfer(c) ==
  /\ transfer[c] = "mapped"
  /\ transferred' = [transferred EXCEPT ![record[c]] = @ + 1]
  /\ known' = known \union {record[c]}
  /\ TransferEnds(c)

(* A failed statement, a cancelled request, a commit that is a rollback.   *)
TransferFails(c) ==
  /\ transfer[c] # "idle"
  /\ TransferEnds(c)
  /\ UNCHANGED <<transferred, known>>

TransferNext ==
  \E c \in Clerks :
    \/ \E x \in Records : ProvisionTransfer(c, x)
    \/ MapRecord(c)
    \/ RecordTaken(c)
    \/ CommitTransfer(c)
    \/ TransferFails(c)

TransferSpec == TransferInit /\ [][TransferNext]_transferVars

-----------------------------------------------------------------------------
(* Properties.                                                             *)

(* A record sent twice, also at the same time, makes one student: what     *)
(* stands between two requests that both find no mapping is the database   *)
(* alone, and the error the handler calls non-fatal                        *)
(* (portability/handler.go:351, 400-410).                                  *)
TransferredOnce == \A x \in Records : transferred[x] <= 1

=============================================================================
