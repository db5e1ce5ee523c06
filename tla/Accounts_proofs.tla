--------------------------- MODULE Accounts_proofs ---------------------------
(***************************************************************************)
(* Proofs about Accounts, for any number of people, requests, links and    *)
(* passwords.                                                              *)
(*                                                                         *)
(* OnlyPendingHasLink is not inductive: a deletion leaves the link alone,  *)
(* and that the row has none needs that whoever holds a token has been     *)
(* activated (Holders), which in turn needs it of the requests that are    *)
(* about to issue one (Issuers).  That the handlers implement AccountLife  *)
(* needs the password an activation carries (SecretReady) and that an      *)
(* erased account has none (Erased).                                       *)
(*                                                                         *)
(* DeletedRunsDown needs no more than the types: a step that issues tokens *)
(* was preceded by a read of the row, and no read finds a deleted one.     *)
(***************************************************************************)
EXTENDS Accounts, TLAPS

(* Who holds a token has been activated.                                   *)
Holders ==
  \A p \in People : tokens[p] # {} => account[p] \in {"active", "deleted"}

(* So has the row of a request that has read it as active.                 *)
Issuers ==
  \A r \in AuthRequests :
    op[r] \in {"consent", "issuePair", "issueMfa"} =>
      account[who[r]] \in {"active", "deleted"}

SecretReady ==
  \A r \in AuthRequests : op[r] = "activate" => secret[r] \in Passwords

Erased ==
  \A p \in People :
    account[p] \in {"absent", "pending", "deleted"} => password[p] = None

AccInv ==
  /\ AccTypeOK
  /\ OnlyPendingHasLink
  /\ Holders
  /\ Issuers
  /\ SecretReady
  /\ Erased

USE NoneIsNothing

-----------------------------------------------------------------------------
(* Types.                                                                  *)

LEMMA AccTypeStep == AccTypeOK /\ [AccNext]_accVars => AccTypeOK'
<1> SUFFICES ASSUME AccTypeOK, [AccNext]_accVars
             PROVE  AccTypeOK'
  OBVIOUS
<1> USE DEF AccTypeOK, Stages, Emails, Tokens, Ops
<1>1. ASSUME NEW p \in People, NEW l \in Links, NEW e \in {"given", "none"},
             ProvisionUser(p, l, e)
      PROVE  AccTypeOK'
  BY <1>1 DEF ProvisionUser, NewLink, rowVars, requestVars
<1>2. ASSUME NEW p \in People, NEW l \in Links, ResendActivation(p, l)
      PROVE  AccTypeOK'
  BY <1>2 DEF ResendActivation, NewLink, rowVars, requestVars
<1>3. ASSUME NEW r \in AuthRequests, NEW p \in People, NEW w \in Passwords,
             NEW yes \in BOOLEAN, FindLink(r, p, w, yes)
      PROVE  AccTypeOK'
  BY <1>3 DEF FindLink, Start, rowVars, requestVars
<1>4. ASSUME NEW r \in AuthRequests, NEW p \in People, ReadForLogin(r, p)
      PROVE  AccTypeOK'
  BY <1>4 DEF ReadForLogin, Start, rowVars, requestVars
<1>5. ASSUME NEW r \in AuthRequests, NEW p \in People, ReadForMFALogin(r, p)
      PROVE  AccTypeOK'
  BY <1>5 DEF ReadForMFALogin, Start, rowVars, requestVars
<1>6. ASSUME NEW r \in AuthRequests, NEW p \in People, ReadForRefresh(r, p)
      PROVE  AccTypeOK'
  BY <1>6 DEF ReadForRefresh, Start, rowVars, requestVars
<1>7. ASSUME NEW p \in People, Logout(p) PROVE AccTypeOK'
  BY <1>7 DEF Logout, rowVars, requestVars
<1>8. ASSUME NEW p \in People, NEW k \in Tokens, Expire(p, k) PROVE AccTypeOK'
  BY <1>8 DEF Expire, rowVars, requestVars
<1>9. ASSUME NEW p \in People, UpdateProfile(p) PROVE AccTypeOK'
  BY <1>9 DEF UpdateProfile, rowVars, requestVars
<1>10. ASSUME NEW p \in People, RecordConsent(p) PROVE AccTypeOK'
  BY <1>10 DEF RecordConsent, rowVars, requestVars
<1>11. ASSUME NEW p \in People, EnableTOTP(p) PROVE AccTypeOK'
  BY <1>11 DEF EnableTOTP, rowVars, requestVars
<1>12. ASSUME NEW p \in People, RequestDeletion(p) PROVE AccTypeOK'
  BY <1>12 DEF RequestDeletion, Authenticated, rowVars, requestVars
<1>13. ASSUME NEW r \in AuthRequests, ActivateUser(r) PROVE AccTypeOK'
  <2> USE <1>13 DEF ActivateUser
  <2>1. who[r] \in People /\ secret[r] \in Passwords \union {None}
    OBVIOUS
  <2>2. /\ account' \in [People -> Stages]
        /\ link' \in [People -> Links \union {None}]
        /\ password' \in [People -> Passwords \union {None}]
    BY <2>1
  <2>3. /\ op' \in [AuthRequests -> Ops]
        /\ who' \in [AuthRequests -> People \union {None}]
        /\ secret' \in [AuthRequests -> Passwords \union {None}]
        /\ agreed' \in [AuthRequests -> BOOLEAN]
        /\ \A q \in AuthRequests : op'[q] = "idle" <=> who'[q] = None
    <3>1. CASE agreed[r]
      BY <2>1, <3>1 DEF ThenConsent
    <3>2. CASE ~ agreed[r]
      <4>1. End(r)
        BY <3>2, Zenon DEF ThenConsent
      <4> QED
        BY <2>1, <4>1 DEF End
    <3> QED
      BY <3>1, <3>2
  <2> QED
    BY <2>2, <2>3
<1>14. ASSUME NEW r \in AuthRequests, ConsentAfterActivation(r)
       PROVE  AccTypeOK'
  BY <1>14 DEF ConsentAfterActivation, End, rowVars, requestVars
<1>15. ASSUME NEW r \in AuthRequests, IssueTokens(r) PROVE AccTypeOK'
  BY <1>15 DEF IssueTokens, End, rowVars, requestVars
<1>16. ASSUME NEW r \in AuthRequests, RequestFails(r) PROVE AccTypeOK'
  BY <1>16 DEF RequestFails, End, rowVars, requestVars
<1>17. CASE UNCHANGED accVars
  BY <1>17 DEF accVars, rowVars, requestVars
<1> QED
  BY <1>1, <1>2, <1>3, <1>4, <1>5, <1>6, <1>7, <1>8, <1>9, <1>10, <1>11,
     <1>12, <1>13, <1>14, <1>15, <1>16, <1>17 DEF AccNext, Finish

(* Every variable keeps its type, and a request has a row exactly while it *)
(* is under way (user/handler.go:179-1389, auth/handlers.go:115-733).      *)
THEOREM AccTypeCorrect == AccSpec => []AccTypeOK
<1>1. AccInit => AccTypeOK
  BY DEF AccInit, AccTypeOK, Stages, Emails, Tokens, Ops
<1> QED
  BY <1>1, AccTypeStep, PTL DEF AccSpec

-----------------------------------------------------------------------------
(* The inductive invariant.                                                *)

LEMMA AccInvInit == AccInit => AccInv
<1> SUFFICES ASSUME AccInit PROVE AccInv
  OBVIOUS
<1>1. AccTypeOK
  BY DEF AccInit, AccTypeOK, Stages, Emails, Tokens, Ops
<1> QED
  BY <1>1 DEF AccInit, AccInv, OnlyPendingHasLink, Holders, Issuers,
              SecretReady, Erased

(* The conjuncts apart from the types.                                     *)
AccCore ==
  /\ OnlyPendingHasLink /\ Holders /\ Issuers /\ SecretReady /\ Erased

LEMMA AccCoreStep == AccInv /\ [AccNext]_accVars => AccCore'
<1> SUFFICES ASSUME AccInv, [AccNext]_accVars
             PROVE  AccCore'
  OBVIOUS
<1> USE DEF AccInv, AccCore, AccTypeOK, Stages, Ops, OnlyPendingHasLink,
            Holders, Issuers, SecretReady, Erased
<1>1. ASSUME NEW p \in People, NEW l \in Links, NEW e \in {"given", "none"},
             ProvisionUser(p, l, e)
      PROVE  AccCore'
  BY <1>1 DEF ProvisionUser, NewLink, rowVars, requestVars
<1>2. ASSUME NEW p \in People, NEW l \in Links, ResendActivation(p, l)
      PROVE  AccCore'
  BY <1>2 DEF ResendActivation, NewLink, rowVars, requestVars
<1>3. ASSUME NEW r \in AuthRequests, NEW p \in People, NEW w \in Passwords,
             NEW yes \in BOOLEAN, FindLink(r, p, w, yes)
      PROVE  AccCore'
  BY <1>3 DEF FindLink, Start, rowVars, requestVars
<1>4. ASSUME NEW r \in AuthRequests, NEW p \in People, ReadForLogin(r, p)
      PROVE  AccCore'
  BY <1>4 DEF ReadForLogin, Start, rowVars, requestVars
<1>5. ASSUME NEW r \in AuthRequests, NEW p \in People, ReadForMFALogin(r, p)
      PROVE  AccCore'
  BY <1>5 DEF ReadForMFALogin, Start, rowVars, requestVars
<1>6. ASSUME NEW r \in AuthRequests, NEW p \in People, ReadForRefresh(r, p)
      PROVE  AccCore'
  BY <1>6 DEF ReadForRefresh, Start, rowVars, requestVars
<1>7. ASSUME NEW p \in People, Logout(p) PROVE AccCore'
  BY <1>7 DEF Logout, rowVars, requestVars
<1>8. ASSUME NEW p \in People, NEW k \in Tokens, Expire(p, k) PROVE AccCore'
  BY <1>8 DEF Expire, rowVars, requestVars
<1>9. ASSUME NEW p \in People, UpdateProfile(p) PROVE AccCore'
  BY <1>9 DEF UpdateProfile, rowVars, requestVars
<1>10. ASSUME NEW p \in People, RecordConsent(p) PROVE AccCore'
  BY <1>10 DEF RecordConsent, rowVars, requestVars
<1>11. ASSUME NEW p \in People, EnableTOTP(p) PROVE AccCore'
  BY <1>11 DEF EnableTOTP, rowVars, requestVars
<1>12. ASSUME NEW p \in People, RequestDeletion(p) PROVE AccCore'
  BY <1>12 DEF RequestDeletion, Authenticated, rowVars, requestVars
<1>13. ASSUME NEW r \in AuthRequests, ActivateUser(r) PROVE AccCore'
  BY <1>13 DEF ActivateUser, ThenConsent, End, rowVars, requestVars
<1>14. ASSUME NEW r \in AuthRequests, ConsentAfterActivation(r) PROVE AccCore'
  BY <1>14 DEF ConsentAfterActivation, End, rowVars, requestVars
<1>15. ASSUME NEW r \in AuthRequests, IssueTokens(r) PROVE AccCore'
  BY <1>15 DEF IssueTokens, End, rowVars, requestVars
<1>16. ASSUME NEW r \in AuthRequests, RequestFails(r) PROVE AccCore'
  BY <1>16 DEF RequestFails, End, rowVars, requestVars
<1>17. CASE UNCHANGED accVars
  BY <1>17 DEF accVars, rowVars, requestVars
<1> QED
  BY <1>1, <1>2, <1>3, <1>4, <1>5, <1>6, <1>7, <1>8, <1>9, <1>10, <1>11,
     <1>12, <1>13, <1>14, <1>15, <1>16, <1>17 DEF AccNext, Finish

LEMMA AccInvariant == AccSpec => []AccInv
<1>1. AccInv /\ [AccNext]_accVars => AccInv'
  BY AccTypeStep, AccCoreStep DEF AccInv, AccCore
<1> QED
  BY <1>1, AccInvInit, PTL DEF AccSpec

(* Only an account that waits for its activation has a link                *)
(* (user/handler.go:886, users.sql:35-42).                                 *)
THEOREM LinksOfPending == AccSpec => []OnlyPendingHasLink
<1>1. AccInv => OnlyPendingHasLink
  BY DEF AccInv
<1> QED
  BY <1>1, AccInvariant, PTL

-----------------------------------------------------------------------------
(* Passwords and the life of an account.                                   *)

PasswordKept ==
  \A p \in People :
    account[p] \in {"active", "deleted"} => password'[p] \in {password[p], None}

LEMMA PasswordStep == AccInv /\ [AccNext]_accVars => PasswordKept
<1> SUFFICES ASSUME AccInv, [AccNext]_accVars
             PROVE  PasswordKept
  OBVIOUS
<1> USE DEF AccInv, AccTypeOK, PasswordKept
<1>1. ASSUME NEW p \in People, NEW l \in Links, NEW e \in {"given", "none"},
             ProvisionUser(p, l, e)
      PROVE  PasswordKept
  BY <1>1 DEF ProvisionUser, NewLink, rowVars, requestVars
<1>2. ASSUME NEW p \in People, NEW l \in Links, ResendActivation(p, l)
      PROVE  PasswordKept
  BY <1>2 DEF ResendActivation, NewLink, rowVars, requestVars
<1>3. ASSUME NEW r \in AuthRequests, NEW p \in People, NEW w \in Passwords,
             NEW yes \in BOOLEAN, FindLink(r, p, w, yes)
      PROVE  PasswordKept
  BY <1>3 DEF FindLink, Start, rowVars, requestVars
<1>4. ASSUME NEW r \in AuthRequests, NEW p \in People, ReadForLogin(r, p)
      PROVE  PasswordKept
  BY <1>4 DEF ReadForLogin, Start, rowVars, requestVars
<1>5. ASSUME NEW r \in AuthRequests, NEW p \in People, ReadForMFALogin(r, p)
      PROVE  PasswordKept
  BY <1>5 DEF ReadForMFALogin, Start, rowVars, requestVars
<1>6. ASSUME NEW r \in AuthRequests, NEW p \in People, ReadForRefresh(r, p)
      PROVE  PasswordKept
  BY <1>6 DEF ReadForRefresh, Start, rowVars, requestVars
<1>7. ASSUME NEW p \in People, Logout(p) PROVE PasswordKept
  BY <1>7 DEF Logout, rowVars, requestVars
<1>8. ASSUME NEW p \in People, NEW k \in Tokens, Expire(p, k)
      PROVE  PasswordKept
  BY <1>8 DEF Expire, rowVars, requestVars
<1>9. ASSUME NEW p \in People, UpdateProfile(p) PROVE PasswordKept
  BY <1>9 DEF UpdateProfile, rowVars, requestVars
<1>10. ASSUME NEW p \in People, RecordConsent(p) PROVE PasswordKept
  BY <1>10 DEF RecordConsent, rowVars, requestVars
<1>11. ASSUME NEW p \in People, EnableTOTP(p) PROVE PasswordKept
  BY <1>11 DEF EnableTOTP, rowVars, requestVars
<1>12. ASSUME NEW p \in People, RequestDeletion(p) PROVE PasswordKept
  BY <1>12 DEF RequestDeletion, Authenticated, rowVars, requestVars
<1>13. ASSUME NEW r \in AuthRequests, ActivateUser(r) PROVE PasswordKept
  BY <1>13 DEF ActivateUser, ThenConsent, End, rowVars, requestVars
<1>14. ASSUME NEW r \in AuthRequests, ConsentAfterActivation(r)
       PROVE  PasswordKept
  BY <1>14 DEF ConsentAfterActivation, End, rowVars, requestVars
<1>15. ASSUME NEW r \in AuthRequests, IssueTokens(r) PROVE PasswordKept
  BY <1>15 DEF IssueTokens, End, rowVars, requestVars
<1>16. ASSUME NEW r \in AuthRequests, RequestFails(r) PROVE PasswordKept
  BY <1>16 DEF RequestFails, End, rowVars, requestVars
<1>17. CASE UNCHANGED accVars
  BY <1>17 DEF accVars, rowVars, requestVars
<1> QED
  BY <1>1, <1>2, <1>3, <1>4, <1>5, <1>6, <1>7, <1>8, <1>9, <1>10, <1>11,
     <1>12, <1>13, <1>14, <1>15, <1>16, <1>17 DEF AccNext, Finish

(* The password of an account is set once, whatever activations overlap,   *)
(* and is only ever erased (auth/handlers.go:665, 690).                    *)
THEOREM OnePassword == AccSpec => PasswordSetOnce
<1>1. AccInv /\ [AccNext]_accVars => [PasswordKept]_accVars
  BY PasswordStep
<1> QED
  BY <1>1, AccInvariant, PTL DEF AccSpec, PasswordSetOnce, PasswordKept

LEMMA LifeStep == AccInv /\ [AccNext]_accVars => [Life!LifeNext]_Life!lifeVars
<1> SUFFICES ASSUME AccInv, [AccNext]_accVars
             PROVE  [Life!LifeNext]_Life!lifeVars
  OBVIOUS
<1> USE DEF AccInv, AccTypeOK, Life!lifeVars
<1>1. ASSUME NEW p \in People, NEW l \in Links, NEW e \in {"given", "none"},
             ProvisionUser(p, l, e)
      PROVE  [Life!LifeNext]_Life!lifeVars
  BY <1>1 DEF ProvisionUser, NewLink, rowVars, requestVars, Life!LifeNext,
              Life!Register
<1>2. ASSUME NEW p \in People, NEW l \in Links, ResendActivation(p, l)
      PROVE  [Life!LifeNext]_Life!lifeVars
  BY <1>2 DEF ResendActivation, NewLink, rowVars, requestVars
<1>3. ASSUME NEW r \in AuthRequests, NEW p \in People, NEW w \in Passwords,
             NEW yes \in BOOLEAN, FindLink(r, p, w, yes)
      PROVE  [Life!LifeNext]_Life!lifeVars
  BY <1>3 DEF FindLink, Start, rowVars, requestVars
<1>4. ASSUME NEW r \in AuthRequests, NEW p \in People, ReadForLogin(r, p)
      PROVE  [Life!LifeNext]_Life!lifeVars
  BY <1>4 DEF ReadForLogin, Start, rowVars, requestVars
<1>5. ASSUME NEW r \in AuthRequests, NEW p \in People, ReadForMFALogin(r, p)
      PROVE  [Life!LifeNext]_Life!lifeVars
  BY <1>5 DEF ReadForMFALogin, Start, rowVars, requestVars
<1>6. ASSUME NEW r \in AuthRequests, NEW p \in People, ReadForRefresh(r, p)
      PROVE  [Life!LifeNext]_Life!lifeVars
  BY <1>6 DEF ReadForRefresh, Start, rowVars, requestVars
<1>7. ASSUME NEW p \in People, Logout(p) PROVE [Life!LifeNext]_Life!lifeVars
  BY <1>7 DEF Logout, rowVars, requestVars
<1>8. ASSUME NEW p \in People, NEW k \in Tokens, Expire(p, k)
      PROVE  [Life!LifeNext]_Life!lifeVars
  BY <1>8 DEF Expire, rowVars, requestVars
<1>9. ASSUME NEW p \in People, UpdateProfile(p)
      PROVE  [Life!LifeNext]_Life!lifeVars
  BY <1>9 DEF UpdateProfile, rowVars, requestVars
<1>10. ASSUME NEW p \in People, RecordConsent(p)
       PROVE  [Life!LifeNext]_Life!lifeVars
  BY <1>10 DEF RecordConsent, rowVars, requestVars
<1>11. ASSUME NEW p \in People, EnableTOTP(p)
       PROVE  [Life!LifeNext]_Life!lifeVars
  BY <1>11 DEF EnableTOTP, rowVars, requestVars
<1>12. ASSUME NEW p \in People, RequestDeletion(p)
       PROVE  [Life!LifeNext]_Life!lifeVars
  BY <1>12 DEF RequestDeletion, Authenticated, rowVars, requestVars,
               Life!LifeNext, Life!Erase, Holders, Erased, KeyFree, Stages
<1>13. ASSUME NEW r \in AuthRequests, ActivateUser(r)
       PROVE  [Life!LifeNext]_Life!lifeVars
  BY <1>13 DEF ActivateUser, ThenConsent, End, rowVars, requestVars,
               Life!LifeNext, Life!SetUp, SecretReady, Ops
<1>14. ASSUME NEW r \in AuthRequests, ConsentAfterActivation(r)
       PROVE  [Life!LifeNext]_Life!lifeVars
  BY <1>14 DEF ConsentAfterActivation, End, rowVars, requestVars
<1>15. ASSUME NEW r \in AuthRequests, IssueTokens(r)
       PROVE  [Life!LifeNext]_Life!lifeVars
  BY <1>15 DEF IssueTokens, End, rowVars, requestVars
<1>16. ASSUME NEW r \in AuthRequests, RequestFails(r)
       PROVE  [Life!LifeNext]_Life!lifeVars
  BY <1>16 DEF RequestFails, End, rowVars, requestVars
<1>17. CASE UNCHANGED accVars
  BY <1>17 DEF accVars, rowVars, requestVars
<1> QED
  BY <1>1, <1>2, <1>3, <1>4, <1>5, <1>6, <1>7, <1>8, <1>9, <1>10, <1>11,
     <1>12, <1>13, <1>14, <1>15, <1>16, <1>17 DEF AccNext, Finish

(* The handlers implement AccountLife: registered once, set up once, and   *)
(* erased (user/handler.go:179-1389, auth/handlers.go:634-733).            *)
THEOREM LifeImplemented == AccSpec => LifeSpec
<1>1. AccInit => Life!LifeInit
  BY DEF AccInit, Life!LifeInit
<1> QED
  BY <1>1, AccInvariant, LifeStep, PTL DEF AccSpec, LifeSpec, Life!LifeSpec

-----------------------------------------------------------------------------
(* Sessions of deleted accounts.                                           *)

(* A request that ends, or has not read p as active, issues nothing new;   *)
(* one that issues was in the stage of what it issues.                     *)
LEMMA DeletedStep ==
  ASSUME AccTypeOK, [AccNext]_accVars,
         NEW p \in People, account[p] = "deleted"
  PROVE  RunsDown(p)
<1> USE DEF AccTypeOK, Ops, Tokens, RunsDown, Issuing
<1>1. ASSUME UNCHANGED <<tokens, requestVars>> PROVE RunsDown(p)
  BY <1>1 DEF requestVars
<1>2. ASSUME NEW q \in People, NEW l \in Links, NEW e \in {"given", "none"},
             ProvisionUser(q, l, e) \/ ResendActivation(q, l)
      PROVE  RunsDown(p)
  BY <1>1, <1>2 DEF ProvisionUser, ResendActivation
<1>3. ASSUME NEW q \in People,
             \/ UpdateProfile(q) \/ RecordConsent(q)
             \/ EnableTOTP(q) \/ RequestDeletion(q)
      PROVE  RunsDown(p)
  BY <1>1, <1>3 DEF UpdateProfile, RecordConsent, EnableTOTP, RequestDeletion
<1>4. ASSUME NEW r \in AuthRequests, NEW q \in People, NEW w \in Passwords,
             NEW yes \in BOOLEAN, FindLink(r, q, w, yes)
      PROVE  RunsDown(p)
  BY <1>4 DEF FindLink, Start
<1>5. ASSUME NEW r \in AuthRequests, NEW q \in People, ReadForLogin(r, q)
      PROVE  RunsDown(p)
  <2>1. q # p
    BY <1>5 DEF ReadForLogin
  <2> QED
    BY <1>5, <2>1 DEF ReadForLogin, Start
<1>6. ASSUME NEW r \in AuthRequests, NEW q \in People, ReadForMFALogin(r, q)
      PROVE  RunsDown(p)
  BY <1>6 DEF ReadForMFALogin, Start
<1>7. ASSUME NEW r \in AuthRequests, NEW q \in People, ReadForRefresh(r, q)
      PROVE  RunsDown(p)
  <2>1. q # p
    BY <1>7 DEF ReadForRefresh
  <2> QED
    BY <1>7, <2>1 DEF ReadForRefresh, Start
<1>8. ASSUME NEW q \in People,
             Logout(q) \/ \E k \in Tokens : Expire(q, k)
      PROVE  RunsDown(p)
  BY <1>8 DEF Logout, Expire, requestVars
<1>9. ASSUME NEW r \in AuthRequests, ActivateUser(r) PROVE RunsDown(p)
  <2>1. UNCHANGED tokens /\ op[r] = "activate"
    BY <1>9 DEF ActivateUser
  <2>2. CASE agreed[r]
    BY <1>9, <2>1, <2>2 DEF ActivateUser, ThenConsent
  <2>3. CASE ~ agreed[r]
    <3>1. End(r)
      BY <1>9, <2>3, Zenon DEF ActivateUser, ThenConsent
    <3> QED
      BY <2>1, <3>1 DEF End
  <2> QED
    BY <2>2, <2>3
<1>10. ASSUME NEW r \in AuthRequests,
              ConsentAfterActivation(r) \/ RequestFails(r)
       PROVE  RunsDown(p)
  BY <1>10 DEF ConsentAfterActivation, RequestFails, End
<1>11. ASSUME NEW r \in AuthRequests, IssueTokens(r) PROVE RunsDown(p)
  BY <1>11 DEF IssueTokens, End
<1>12. CASE UNCHANGED accVars
  BY <1>1, <1>12 DEF accVars
<1> HIDE DEF AccTypeOK, RunsDown
<1> QED
  BY <1>2, <1>3, <1>4, <1>5, <1>6, <1>7, <1>8, <1>9, <1>10, <1>11, <1>12
     DEF AccNext, Finish

(* Whoever has been deleted gets no session that was not under way         *)
(* (user/handler.go:1369, auth/handlers.go:315, totp.go:171).              *)
THEOREM DeletedRunDown == AccSpec => DeletedRunsDown
<1>1. AccTypeOK /\ [AccNext]_accVars =>
        [\A p \in People : account[p] = "deleted" => RunsDown(p)]_accVars
  BY DeletedStep
<1> QED
  BY <1>1, AccInvariant, PTL DEF AccSpec, DeletedRunsDown, AccInv

=============================================================================
