------------------------------- MODULE Accounts -------------------------------
(***************************************************************************)
(* The rows of the users table and the handlers that change them:          *)
(* provisioning, activation links, profile, consent, deletion              *)
(* (api/internal/user/handler.go), login, refresh and activation           *)
(* (api/internal/auth/handlers.go) and the second factor                   *)
(* (api/internal/auth/totp.go), over api/db/queries/users.sql.             *)
(*                                                                         *)
(* A handler with one statement is one action: the statement waits for the *)
(* locks of the others and reads the latest version of the row.  Login,    *)
(* refresh and activation run on the bare pool, one transaction per        *)
(* statement, and are requests with a state between a read and what is     *)
(* done with it (a bcrypt hash lies between them).                         *)
(*                                                                         *)
(* All people have one role: the key of the table is (school, email, role) *)
(* with NULLs not distinct, and their addresses differ, so that two rows   *)
(* collide only if neither has an email.                                   *)
(***************************************************************************)
EXTENDS NoValue

CONSTANTS
  People,        \* ids of users
  AuthRequests,  \* login, refresh and activation requests at a time
  Links,         \* activation tokens, as many as are ever generated
  Passwords

ASSUME NoneIsNothing == None \notin People \union Links \union Passwords

VARIABLES
  account,    \* [People -> Stages]: activated_at and is_active
  link,       \* [People -> Links \union {None}]: activation_token
  password,   \* [People -> Passwords \union {None}]: password_hash
  email,      \* [People -> Emails]
  consent,    \* [People -> BOOLEAN]: gdpr_consent_at
  totp,       \* [People -> BOOLEAN]: totp_secret and totp_enabled
  generated,  \* activation tokens generated so far
  tokens,     \* [People -> SUBSET Tokens]: unexpired tokens the user holds
  op,         \* [AuthRequests -> Ops], what the request does next
  who,        \* [AuthRequests -> People \union {None}], the row it has read
  secret,     \* [AuthRequests -> Passwords \union {None}], a new password
  agreed      \* [AuthRequests -> BOOLEAN], gdpr_consent of an activation

rowVars == <<account, link, password, email, consent, totp, generated>>
requestVars == <<op, who, secret, agreed>>
accVars == <<rowVars, tokens, requestVars>>

Stages == {"absent", "pending", "active", "deleted"}
Emails == {"given", "changed", "none"}
Tokens == {"access", "refresh", "mfa"}
Ops == {"idle", "activate", "consent", "issuePair", "issueMfa"}

AccTypeOK ==
  /\ account \in [People -> Stages]
  /\ link \in [People -> Links \union {None}]
  /\ password \in [People -> Passwords \union {None}]
  /\ email \in [People -> Emails]
  /\ consent \in [People -> BOOLEAN]
  /\ totp \in [People -> BOOLEAN]
  /\ generated \in SUBSET Links
  /\ tokens \in [People -> SUBSET Tokens]
  /\ op \in [AuthRequests -> Ops]
  /\ who \in [AuthRequests -> People \union {None}]
  /\ \A r \in AuthRequests : op[r] = "idle" <=> who[r] = None
  /\ secret \in [AuthRequests -> Passwords \union {None}]
  /\ agreed \in [AuthRequests -> BOOLEAN]

AccInit ==
  /\ account = [p \in People |-> "absent"]
  /\ link = [p \in People |-> None]
  /\ password = [p \in People |-> None]
  /\ email = [p \in People |-> "none"]
  /\ consent = [p \in People |-> FALSE]
  /\ totp = [p \in People |-> FALSE]
  /\ generated = {}
  /\ tokens = [p \in People |-> {}]
  /\ op = [r \in AuthRequests |-> "idle"]
  /\ who = [r \in AuthRequests |-> None]
  /\ secret = [r \in AuthRequests |-> None]
  /\ agreed = [r \in AuthRequests |-> FALSE]

-----------------------------------------------------------------------------
(* The secretary: ProvisionUser and ResendActivation.                      *)

(* UNIQUE NULLS NOT DISTINCT (school_id, email, role).                     *)
KeyFree(p, e) ==
  e = "none" =>
    \A q \in People \ {p} : account[q] = "absent" \/ email[q] # "none"

(* generateActivationToken: 32 random bytes, never seen before.            *)
NewLink(p, l) ==
  /\ l \notin generated
  /\ generated' = generated \union {l}
  /\ link' = [link EXCEPT ![p] = l]

ProvisionUser(p, l, e) ==
  /\ account[p] = "absent" /\ KeyFree(p, e)
  /\ NewLink(p, l)
  /\ account' = [account EXCEPT ![p] = "pending"]
  /\ email' = [email EXCEPT ![p] = e]
  /\ UNCHANGED <<password, consent, totp, tokens, requestVars>>

(* Variant for mutation testing: no WHERE activated_at IS NULL.            *)
ResendToAnybody(p, l) ==
  /\ account[p] # "absent"
  /\ NewLink(p, l)
  /\ UNCHANGED <<account, password, email, consent, totp, tokens, requestVars>>

ResendActivation(p, l) ==
  /\ account[p] = "pending"
  /\ NewLink(p, l)
  /\ UNCHANGED <<account, password, email, consent, totp, tokens, requestVars>>

-----------------------------------------------------------------------------
(* Requests on the bare pool.                                              *)

Start(r, p, next) ==
  /\ op[r] = "idle"
  /\ op' = [op EXCEPT ![r] = next]
  /\ who' = [who EXCEPT ![r] = p]

End(r) ==
  /\ op' = [op EXCEPT ![r] = "idle"]
  /\ who' = [who EXCEPT ![r] = None]
  /\ secret' = [secret EXCEPT ![r] = None]
  /\ agreed' = [agreed EXCEPT ![r] = FALSE]

(* 401, 404 or 500: a wrong password or code, a failed statement, a client *)
(* that went away.                                                         *)
RequestFails(r) ==
  /\ op[r] # "idle"
  /\ End(r)
  /\ UNCHANGED <<rowVars, tokens>>

(* HandlePostActivation finds the row by the link of the request.          *)
FindLink(r, p, w, yes) ==
  /\ link[p] # None /\ account[p] = "pending"
  /\ Start(r, p, "activate")
  /\ secret' = [secret EXCEPT ![r] = w]
  /\ agreed' = [agreed EXCEPT ![r] = yes]
  /\ UNCHANGED <<rowVars, tokens>>

ThenConsent(r) ==
  IF agreed[r]
  THEN op' = [op EXCEPT ![r] = "consent"] /\ UNCHANGED <<who, secret, agreed>>
  ELSE End(r)

(* Variant for mutation testing: no WHERE activated_at IS NULL.            *)
ActivateUserAgain(r) ==
  /\ op[r] = "activate"
  /\ account' = [account EXCEPT ![who[r]] = "active"]
  /\ link' = [link EXCEPT ![who[r]] = None]
  /\ password' = [password EXCEPT ![who[r]] = secret[r]]
  /\ ThenConsent(r)
  /\ UNCHANGED <<email, consent, totp, generated, tokens>>

(* ActivateUser goes by the id and asks again for activated_at IS NULL.    *)
(* If there is no such row any more the request fails.                     *)
ActivateUser(r) ==
  /\ op[r] = "activate" /\ account[who[r]] = "pending"
  /\ account' = [account EXCEPT ![who[r]] = "active"]
  /\ link' = [link EXCEPT ![who[r]] = None]
  /\ password' = [password EXCEPT ![who[r]] = secret[r]]
  /\ ThenConsent(r)
  /\ UNCHANGED <<email, consent, totp, generated, tokens>>

(* SetGDPRConsent, a statement of its own whose failure is only logged.    *)
ConsentAfterActivation(r) ==
  /\ op[r] = "consent"
  /\ consent' = [consent EXCEPT ![who[r]] = TRUE]
  /\ End(r)
  /\ UNCHANGED <<account, link, password, email, totp, generated, tokens>>

(* HandleLogin reads the row by its email: active, activated.              *)
ReadForLogin(r, p) ==
  /\ account[p] = "active" /\ email[p] # "none"
  /\ Start(r, p, IF totp[p] THEN "issueMfa" ELSE "issuePair")
  /\ UNCHANGED <<rowVars, tokens, secret, agreed>>

(* HandleMFALogin asks for the token of the first step and for a secret,   *)
(* not for is_active.                                                      *)
ReadForMFALogin(r, p) ==
  /\ "mfa" \in tokens[p] /\ totp[p]
  /\ Start(r, p, "issuePair")
  /\ UNCHANGED <<rowVars, tokens, secret, agreed>>

(* Variant for mutation testing: refresh without the check of is_active.   *)
ReadForRefreshAnyway(r, p) ==
  /\ "refresh" \in tokens[p]
  /\ Start(r, p, "issuePair")
  /\ UNCHANGED <<rowVars, tokens, secret, agreed>>

ReadForRefresh(r, p) ==
  /\ "refresh" \in tokens[p] /\ account[p] = "active"
  /\ Start(r, p, "issuePair")
  /\ UNCHANGED <<rowVars, tokens, secret, agreed>>

(* Tokens are signed, not stored: nothing of the row is read again.        *)
IssueTokens(r) ==
  /\ op[r] \in {"issuePair", "issueMfa"}
  /\ tokens' = [tokens EXCEPT ![who[r]] = @ \union
                  IF op[r] = "issueMfa" THEN {"mfa"}
                                        ELSE {"access", "refresh"}]
  /\ End(r)
  /\ UNCHANGED rowVars

-----------------------------------------------------------------------------
(* The user: requests that need an unexpired access token.  JWTAuth reads  *)
(* nothing but the token.                                                  *)

Authenticated(p) == "access" \in tokens[p]

Logout(p) ==
  /\ tokens[p] \intersect {"access", "refresh"} # {}
  /\ tokens' = [tokens EXCEPT ![p] = @ \ {"access", "refresh"}]
  /\ UNCHANGED <<rowVars, requestVars>>

(* ValidateToken and its like refuse a token whose time has passed.        *)
Expire(p, k) ==
  /\ k \in tokens[p]
  /\ tokens' = [tokens EXCEPT ![p] = @ \ {k}]
  /\ UNCHANGED <<rowVars, requestVars>>

UpdateProfile(p) ==
  /\ Authenticated(p)
  /\ email' = [email EXCEPT ![p] = "changed"]
  /\ UNCHANGED <<account, link, password, consent, totp, generated, tokens,
                 requestVars>>

RecordConsent(p) ==
  /\ Authenticated(p)
  /\ consent' = [consent EXCEPT ![p] = TRUE]
  /\ UNCHANGED <<account, link, password, email, totp, generated, tokens,
                 requestVars>>

(* Handle2FAVerify stores the secret that Handle2FASetup only made up.     *)
EnableTOTP(p) ==
  /\ Authenticated(p)
  /\ totp' = [totp EXCEPT ![p] = TRUE]
  /\ UNCHANGED <<account, link, password, email, consent, generated, tokens,
                 requestVars>>

(* SoftDeleteUser; it breaks the table's key if another row of the role    *)
(* has no email, and the request answers 500.                              *)
RequestDeletion(p) ==
  /\ Authenticated(p) /\ KeyFree(p, "none")
  /\ account' = [account EXCEPT ![p] = "deleted"]
  /\ email' = [email EXCEPT ![p] = "none"]
  /\ password' = [password EXCEPT ![p] = None]
  /\ totp' = [totp EXCEPT ![p] = FALSE]
  /\ UNCHANGED <<link, consent, generated, tokens,
                 requestVars>>

-----------------------------------------------------------------------------
Finish(r) ==
  \/ ActivateUser(r)
  \/ ConsentAfterActivation(r)
  \/ IssueTokens(r)
  \/ RequestFails(r)

AccNext ==
  \/ \E p \in People :
       \/ \E l \in Links :
            \/ \E e \in {"given", "none"} : ProvisionUser(p, l, e)
            \/ ResendActivation(p, l)
       \/ \E r \in AuthRequests :
            \/ \E w \in Passwords, yes \in BOOLEAN : FindLink(r, p, w, yes)
            \/ ReadForLogin(r, p)
            \/ ReadForMFALogin(r, p)
            \/ ReadForRefresh(r, p)
       \/ Logout(p)
       \/ \E k \in Tokens : Expire(p, k)
       \/ UpdateProfile(p)
       \/ RecordConsent(p)
       \/ EnableTOTP(p)
       \/ RequestDeletion(p)
  \/ \E r \in AuthRequests : Finish(r)

AccSpec == AccInit /\ [][AccNext]_accVars

(* A handler ends, and every token has an expiry (jwt.go).                 *)
AccFairness ==
  /\ \A r \in AuthRequests : WF_accVars(Finish(r))
  /\ \A p \in People, k \in Tokens : WF_accVars(Expire(p, k))

AccFairSpec == AccSpec /\ AccFairness

-----------------------------------------------------------------------------
(* Properties.                                                             *)

(* A row has an activation link exactly while it waits for its activation, *)
(* though links are resent while old ones are in use: no link is left that *)
(* could replace the password of a live account (user/handler.go:886,      *)
(* users.sql:33-40, 99-106).                                               *)
OnlyPendingHasLink ==
  \A p \in People : link[p] # None <=> account[p] = "pending"

(* Whatever activations of one account overlap, with the old link or a     *)
(* resent one, one of them sets the password and the others fail           *)
(* (auth/handlers.go:666, 696).                                            *)
PasswordSetOnce ==
  [][\A p \in People :
       account[p] \in {"active", "deleted"} =>
         password'[p] \in {password[p], None}]_accVars

(* Account by account, the handlers implement AccountLife.                 *)
Life == INSTANCE AccountLife WITH stage <- account, key <- password
LifeSpec == Life!LifeSpec

Issuing(p, what) == {r \in AuthRequests : who[r] = p /\ op[r] = what}

RunsDown(p) ==
  /\ Issuing(p, "issueMfa")' \subseteq Issuing(p, "issueMfa")
  /\ Issuing(p, "issueMfa") = {} =>
       /\ "mfa" \in tokens'[p] => "mfa" \in tokens[p]
       /\ "mfa" \notin tokens[p] =>
            /\ Issuing(p, "issuePair")' \subseteq Issuing(p, "issuePair")
            /\ Issuing(p, "issuePair") = {} => tokens'[p] \subseteq tokens[p]

(* The sessions of a deleted account run down in stages, and no stage is   *)
(* entered again: first the logins with a second factor that had read the  *)
(* row before, then the tokens of their first step, then the pairs under   *)
(* way, and from then on the account only loses tokens                     *)
(* (user/handler.go:1369, auth/handlers.go:315, totp.go:171).              *)
DeletedRunsDown ==
  [][\A p \in People : account[p] = "deleted" => RunsDown(p)]_accVars

(* The tokens of a deleted account run out, and no login, refresh or       *)
(* second factor under way or still possible renews them for ever          *)
(* (user/handler.go:1369, auth/handlers.go:315, totp.go:171).              *)
DeletedSessionsEnd ==
  \A p \in People : account[p] = "deleted" ~> tokens[p] = {}

=============================================================================
