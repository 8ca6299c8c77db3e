------------------------- MODULE TenantRegistration ------------------------
(***************************************************************************)
(* Self-service sign-up (server/src/services/registrationService.ts): a    *)
(* PendingRegistration row with a token that is mailed, and the            *)
(* verification that turns it into a Tenant and an API key.  Despite the   *)
(* comment at line 350 there is no transaction: each call of the database  *)
(* is a statement of its own, and requests interleave between them.        *)
(*                                                                         *)
(* One e-mail address with one project name, the case in which tenants can *)
(* be taken for each other.  A call may throw, and a deployment restarts   *)
(* the process, possibly with new terms of service (bounded faults).       *)
(***************************************************************************)
EXTENDS Integers, FiniteSets

CONSTANTS Signups,          \* concurrent calls of createRegistration
          Verifiers,        \* concurrent calls of verifyRegistration
          MaxToken,         \* bound: tokens that are made
          MaxTosVersion,    \* bound: versions of the terms
          MaxSignupFaults   \* bound: calls that throw, and restarts

ASSUME RegistrationAssumption ==
    MaxToken \in Nat /\ MaxTosVersion \in Nat \ {0} /\ MaxSignupFaults \in Nat

VARIABLES pendingRow,     \* the row of the address, or NoRegistration
          tosVersion,     \* TERMS_OF_SERVICE_VERSION of the running process
          lastToken,
          signup,         \* signup[s]: the next call of sign-up s, and its token
          tosAudit,       \* tokens whose acceptance has its audit row
          mailed,         \* tokens that reached the address
          lapsed,         \* tokens whose 24 hours are over
          verifier,       \* verifier[v]: the next call of verification v, and its record
          tenants,        \* Tenant rows, each with its API key or none
          signupFaults,
          repeated,       \* history: tokens verified again beside or after an unfinished one
          keyMissing      \* history: a click found a tenant with no key, nor one on its way

signupVars == <<pendingRow, tosVersion, lastToken, signup, tosAudit, mailed, lapsed,
                verifier, tenants, signupFaults, repeated, keyMissing>>

NoRegistration == [token |-> 0, status |-> "none", tos |-> 0]
NoSignup == [at |-> "idle", token |-> 0]
NoVerify == [at |-> "idle", token |-> 0, tos |-> 0, tenant |-> 0]

SignupInit ==
    /\ pendingRow = NoRegistration /\ tosVersion = 1 /\ lastToken = 0
    /\ signup = [s \in Signups |-> NoSignup]
    /\ tosAudit = {} /\ mailed = {} /\ lapsed = {}
    /\ verifier = [v \in Verifiers |-> NoVerify]
    /\ tenants = {} /\ signupFaults = 0 /\ repeated = {} /\ keyMissing = FALSE

SignupFault == signupFaults < MaxSignupFaults /\ signupFaults' = signupFaults + 1

\* The upsert of createRegistration: whatever the row was, also verified, it is
\* pending again with a new token.
createRegistration(s) ==
    /\ signup[s] = NoSignup /\ lastToken < MaxToken
    /\ lastToken' = lastToken + 1
    /\ pendingRow' = [token |-> lastToken', status |-> "pending", tos |-> tosVersion]
    /\ signup' = [signup EXCEPT ![s] = [at |-> "audit", token |-> lastToken']]
    /\ UNCHANGED <<tosVersion, tosAudit, mailed, lapsed, verifier, tenants, signupFaults,
                   repeated, keyMissing>>

\* Mutant: the mail is sent before the acceptance is on record.
MailThenAudit(s) ==
    \/ /\ signup[s].at = "audit"
       /\ mailed' = mailed \cup {signup[s].token}
       /\ signup' = [signup EXCEPT ![s].at = "mail"] /\ UNCHANGED tosAudit
    \/ /\ signup[s].at = "mail"
       /\ tosAudit' = tosAudit \cup {signup[s].token}
       /\ signup' = [signup EXCEPT ![s] = NoSignup] /\ UNCHANGED mailed

\* The rest of createRegistration: the audit row, then the mail with the link.
AuditThenMail(s) ==
    \/ /\ signup[s].at = "audit"
       /\ tosAudit' = tosAudit \cup {signup[s].token}
       /\ signup' = [signup EXCEPT ![s].at = "mail"] /\ UNCHANGED mailed
    \/ /\ signup[s].at = "mail"
       /\ mailed' = mailed \cup {signup[s].token}
       /\ signup' = [signup EXCEPT ![s] = NoSignup] /\ UNCHANGED tosAudit

FinishSignup(s) ==
    /\ AuditThenMail(s)
    /\ UNCHANGED <<pendingRow, tosVersion, lastToken, lapsed, verifier, tenants,
                   signupFaults, repeated, keyMissing>>

SignupThrows(s) ==
    /\ signup[s] # NoSignup /\ SignupFault
    /\ signup' = [signup EXCEPT ![s] = NoSignup]
    /\ UNCHANGED <<pendingRow, tosVersion, lastToken, tosAudit, mailed, lapsed, verifier,
                   tenants, repeated, keyMissing>>

TokenLapses ==
    /\ pendingRow # NoRegistration /\ pendingRow.token \notin lapsed
    /\ lapsed' = lapsed \cup {pendingRow.token}
    /\ UNCHANGED <<pendingRow, tosVersion, lastToken, signup, tosAudit, mailed, verifier,
                   tenants, signupFaults, repeated, keyMissing>>

Found(t) == t \in mailed /\ pendingRow.token = t

\* A click on a link that was verified already: the first tenant the database
\* finds for address and project, and an active key of it.
RepeatedClick(v, t) ==
    /\ verifier[v] = NoVerify /\ Found(t) /\ pendingRow.status = "verified"
    /\ \E x \in tenants :
         keyMissing' = \/ keyMissing
                       \/ ~x.hasKey /\ \A w \in Verifiers : verifier[w].tenant # x.id
    /\ UNCHANGED <<pendingRow, tosVersion, lastToken, signup, tosAudit, mailed, lapsed,
                   verifier, tenants, signupFaults, repeated>>

\* The checks of a pending record: a lapsed one is to be marked, one with old
\* terms is refused, and any other is provisioned from the copy that was read.
verifyRegistration(v, t) ==
    LET underWay == {w \in Verifiers : verifier[w].token = t /\ verifier[w].at # "expire"}
        begun == {x \in tenants : x.token = t}
    IN
    /\ verifier[v] = NoVerify /\ Found(t) /\ pendingRow.status = "pending"
    /\ t \in lapsed \/ pendingRow.tos = tosVersion
    /\ verifier' = [verifier EXCEPT ![v] =
         [at |-> IF t \in lapsed THEN "expire" ELSE "tenant",
          token |-> t, tos |-> pendingRow.tos, tenant |-> 0]]
    /\ repeated' = IF t \notin lapsed /\ (underWay # {} \/ begun # {})
                   THEN repeated \cup {t} ELSE repeated
    /\ UNCHANGED <<pendingRow, tosVersion, lastToken, signup, tosAudit, mailed, lapsed,
                   tenants, signupFaults, keyMissing>>

CreateTenant(v) ==
    LET id == Cardinality(tenants) + 1 IN
    /\ verifier[v].at = "tenant"
    /\ tenants' = tenants \cup {[id |-> id, token |-> verifier[v].token, hasKey |-> FALSE,
                                 tos |-> verifier[v].tos, under |-> tosVersion]}
    /\ verifier' = [verifier EXCEPT ![v].at = "key", ![v].tenant = id]
    /\ UNCHANGED <<pendingRow, tosVersion, lastToken, signup, tosAudit, mailed, lapsed,
                   signupFaults, repeated, keyMissing>>

CreateApiKey(v) ==
    /\ verifier[v].at = "key"
    /\ tenants' = {[x EXCEPT !.hasKey = @ \/ x.id = verifier[v].tenant] : x \in tenants}
    /\ verifier' = [verifier EXCEPT ![v].at = "mark"]
    /\ UNCHANGED <<pendingRow, tosVersion, lastToken, signup, tosAudit, mailed, lapsed,
                   signupFaults, repeated, keyMissing>>

\* The two updates by token: of a row that was signed up anew since, they find
\* nothing and throw, which changes nothing.
MarkRow(v) ==
    /\ verifier[v].at \in {"mark", "expire"}
    /\ pendingRow' = IF pendingRow.token # verifier[v].token THEN pendingRow
                     ELSE [pendingRow EXCEPT !.status =
                             IF verifier[v].at = "mark" THEN "verified" ELSE "expired"]
    /\ verifier' = [verifier EXCEPT ![v] = NoVerify]
    /\ UNCHANGED <<tosVersion, lastToken, signup, tosAudit, mailed, lapsed, tenants,
                   signupFaults, repeated, keyMissing>>

VerifyThrows(v) ==
    /\ verifier[v] # NoVerify /\ SignupFault
    /\ verifier' = [verifier EXCEPT ![v] = NoVerify]
    /\ UNCHANGED <<pendingRow, tosVersion, lastToken, signup, tosAudit, mailed, lapsed,
                   tenants, repeated, keyMissing>>

\* The process is restarted, with the same or with new terms.
Deploy ==
    /\ SignupFault
    /\ tosVersion' \in {tosVersion, tosVersion + 1} \cap 1 .. MaxTosVersion
    /\ signup' = [s \in Signups |-> NoSignup]
    /\ verifier' = [v \in Verifiers |-> NoVerify]
    /\ UNCHANGED <<pendingRow, lastToken, tosAudit, mailed, lapsed, tenants, repeated,
                   keyMissing>>

SignupNext ==
    \/ \E s \in Signups : createRegistration(s) \/ FinishSignup(s) \/ SignupThrows(s)
    \/ TokenLapses \/ Deploy
    \/ \E v \in Verifiers :
         \/ \E t \in mailed : RepeatedClick(v, t) \/ verifyRegistration(v, t)
         \/ CreateTenant(v) \/ CreateApiKey(v) \/ MarkRow(v) \/ VerifyThrows(v)

SignupSpec == SignupInit /\ [][SignupNext]_signupVars
-----------------------------------------------------------------------------
SignupTypeOK ==
    /\ pendingRow.status \in {"none", "pending", "verified", "expired"}
    /\ lastToken \in 0 .. MaxToken /\ pendingRow.token \in 0 .. lastToken
    /\ tosVersion \in 1 .. MaxTosVersion /\ signupFaults \in 0 .. MaxSignupFaults
    /\ repeated \cup mailed \cup tosAudit \subseteq 1 .. lastToken

\* No tenant comes to be without an acceptance on record, of the terms in force
\* when it was made, however sign-ups, clicks and deployments interleave.
ConsentOnRecord ==
    \A x \in tenants : x.token \in tosAudit /\ x.tos = x.under

\* A link provisions one tenant, as the comment of verifyRegistration says,
\* unless it is clicked while another click is being handled or after one that
\* stopped between the calls: then each click makes a tenant of its own.
OneTenantPerLink ==
    \A t \in 1 .. lastToken : Cardinality({x \in tenants : x.token = t}) > 1 => t \in repeated

\* A registration marked as verified has a tenant with a key, and a later click
\* finds a key, unless a failing call or a restart left a tenant without one or
\* another click is just making a tenant.
VerifiedHasKey ==
    /\ pendingRow.status = "verified" =>
         \E x \in tenants : x.token = pendingRow.token /\ x.hasKey
    /\ keyMissing => signupFaults > 0

\* Sign-up is sound: see the three properties above.
SignupInv == SignupTypeOK /\ ConsentOnRecord /\ OneTenantPerLink /\ VerifiedHasKey
=============================================================================
