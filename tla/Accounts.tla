-------------------------------- MODULE Accounts --------------------------------
(***************************************************************************)
(* Tenants, their API keys, robots and connect links: api/src/routes/      *)
(* onboard.ts and connect.ts over middleware/auth.ts and db/index.ts.  The *)
(* database calls are synchronous, so a handler without an await is        *)
(* atomic, but each statement commits by itself: a crash may keep the      *)
(* first "done" statements of a handler and lose the rest.  Only           *)
(* registering a robot on the chain awaits, and interleaves.               *)
(***************************************************************************)
EXTENDS Integers, FiniteSets

CONSTANTS
    Tenants,        \* ids for tenants
    Robots,         \* ids for robots
    Calls,          \* concurrent requests that register a robot
    Gone,           \* stands for the requests that a crash ended
    NoTenant,       \* the tenant of no row
    StrictProof,    \* config.VRWX_STRICT_PROOF
    TokenTTL,       \* how long a connect link works (10 minutes)
    MaxKeys,        \* bound: API keys of a behaviour
    MaxTime         \* bound: the last moment

KeyIds == 1..MaxKeys

ASSUME AccountsAssumption ==
    /\ NoTenant \notin Tenants
    /\ Gone \notin Calls
    /\ StrictProof \in BOOLEAN
    /\ TokenTTL \in Nat
    /\ MaxKeys \in Nat
    /\ MaxTime \in Nat

VARIABLES
    now,
    up,             \* the process runs
    tenants,        \* rows of tenants
    keyCount,       \* API keys made so far
    apiKeys,        \* rows of api_keys
    robots,         \* rows of robots
    tokens,         \* rows of connect_tokens, by robot
    links,          \* robots whose connectUrl was answered
    shown,          \* how many answers carried each API key
    shownFile,      \* how many answers carried each controller key
    held,           \* API keys that reached a client
    accidents,      \* tenants with a request cut by a crash, or an answer lost
    calls,          \* registrations under way
    pending,        \* registrations sent and not mined: by whom, of which robot
    onChain         \* robots in the IdentityRegistry

dbVars == <<tenants, keyCount, apiKeys, robots, tokens>>
seenVars == <<links, shown, shownFile, held, accidents>>
chainVars == <<calls, pending, onChain>>
accountVars == <<now, up, dbVars, seenVars, chainVars>>

NoKey == [tenant |-> NoTenant, revoked |-> FALSE]
NoRobot == [tenant |-> NoTenant, status |-> "none"]
NoToken ==
    [exists |-> FALSE, apiKey |-> 0, controllerKey |-> FALSE, secrets |-> FALSE,
     downloaded |-> FALSE, expiresAt |-> 0]
Idle == [phase |-> "idle", robot |-> NoTenant]

AccountsInit ==
    /\ now = 0
    /\ up = TRUE
    /\ tenants = {}
    /\ keyCount = 0
    /\ apiKeys = [k \in KeyIds |-> NoKey]
    /\ robots = [r \in Robots |-> NoRobot]
    /\ tokens = [r \in Robots |-> NoToken]
    /\ links = {}
    /\ shown = [k \in KeyIds |-> 0]
    /\ shownFile = [r \in Robots |-> 0]
    /\ held = {}
    /\ accidents = {}
    /\ calls = [c \in Calls |-> Idle]
    /\ pending = {}
    /\ onChain = {}

-------------------------------------------------------------------------------
(* Keys *)

\* validateApiKey, for a key of this tenant that a client can send.
Valid(k, t) == apiKeys[k].tenant = t /\ ~apiKeys[k].revoked

Authenticated(t) == \E k \in held : Valid(k, t)

LiveKeys(t) == {k \in KeyIds : Valid(k, t)}

WithNewKey(keys, t) == [keys EXCEPT ![keyCount + 1] = [tenant |-> t, revoked |-> FALSE]]

Revoked(keys, t) ==
    [k \in KeyIds |-> IF keys[k].tenant = t THEN [keys[k] EXCEPT !.revoked = TRUE] ELSE keys[k]]

\* A plausible slip: the new key is stored first, and revoked with the others.
KeysRotatedLast(t, done) ==
    CASE done = 0 -> apiKeys
      [] done = 1 -> WithNewKey(apiKeys, t)
      [] done = 2 -> Revoked(WithNewKey(apiKeys, t), t)

\* The statements of rotateApiKey, of which "done" were executed.
KeysRotated(t, done) ==
    CASE done = 0 -> apiKeys
      [] done = 1 -> Revoked(apiKeys, t)
      [] done = 2 -> WithNewKey(Revoked(apiKeys, t), t)

\* What an answer leaves with the client, and what happened when there is none.
Answers(t, keys, answered) ==
    /\ shown' = [k \in KeyIds |-> IF k \in keys THEN shown[k] + 1 ELSE shown[k]]
    /\ held' = IF answered THEN held \cup keys ELSE held
    /\ accidents' = IF answered THEN accidents ELSE accidents \cup {t}

-------------------------------------------------------------------------------
(* Onboarding *)

WithRobot(t, r) == [robots EXCEPT ![r] = [tenant |-> t, status |-> "pending"]]

WithToken(r, key, controllerKey) ==
    [tokens EXCEPT ![r] =
        [exists |-> TRUE, apiKey |-> key, controllerKey |-> controllerKey, secrets |-> TRUE,
         downloaded |-> FALSE, expiresAt |-> now + TokenTTL]]

\* createTenant, a tenant and its key: the first two of "done" statements.
CreateTenant(t, done) ==
    /\ tenants' = IF done >= 1 THEN tenants \cup {t} ELSE tenants
    /\ keyCount' = IF done >= 2 THEN keyCount + 1 ELSE keyCount
    /\ apiKeys' = IF done >= 2 THEN WithNewKey(apiKeys, t) ELSE apiKeys

\* POST /v1/onboard: tenant, key, robot and token, and an answer with no secret in it.
Onboard(t, r, done, answered) ==
    /\ t \notin tenants
    /\ robots[r] = NoRobot
    /\ keyCount < MaxKeys
    /\ answered => done = 4
    /\ up' = (done = 4)
    /\ CreateTenant(t, done)
    /\ robots' = IF done >= 3 THEN WithRobot(t, r) ELSE robots
    /\ tokens' = IF done = 4 THEN WithToken(r, keyCount + 1, StrictProof) ELSE tokens
    /\ links' = IF answered THEN links \cup {r} ELSE links
    /\ Answers(t, {}, answered)
    /\ UNCHANGED <<now, shownFile, chainVars>>

\* POST /v1/robots/add: robot and token; the tenant has its key already.  A robot whose
\* id exists is refused with 409.
AddRobot(t, r, done, answered) ==
    /\ Authenticated(t)
    /\ robots[r] = NoRobot
    /\ answered => done = 2
    /\ up' = (done = 2)
    /\ robots' = IF done >= 1 THEN WithRobot(t, r) ELSE robots
    /\ tokens' = IF done = 2 THEN WithToken(r, 0, TRUE) ELSE tokens
    /\ links' = IF answered THEN links \cup {r} ELSE links
    /\ Answers(t, {}, answered)
    /\ UNCHANGED <<now, tenants, keyCount, apiKeys, shownFile, chainVars>>

-------------------------------------------------------------------------------
(* The connect link *)

\* What both GET handlers ask of a link before they look at the secrets.
LinkWorks(r) == r \in links /\ tokens[r].exists /\ now <= tokens[r].expiresAt

KeysOf(r) == {tokens[r].apiKey} \ {0}

ViewedAgain(r) == tokens

Viewed(r) == [tokens EXCEPT ![r].downloaded = TRUE]

Downloaded(r) == [tokens EXCEPT ![r].downloaded = TRUE, ![r].secrets = FALSE]

\* The visit that finds the secrets; every other gets a page without any.
FirstVisit(r) == LinkWorks(r) /\ tokens[r].secrets /\ ~tokens[r].downloaded

\* renderConnectPage: the API key on the page, under "Your API Key" ...
PageKeys(r) == IF FirstVisit(r) THEN KeysOf(r) ELSE {}

\* ... and under "Advanced Options" the button that downloads the key file.  (The button
\* that rotates the key sends none, and is refused.)
OffersKeyFile(r) == StrictProof /\ FirstVisit(r) /\ tokens[r].controllerKey

\* GET /connect/:token shows the API key the first time, and keeps the secrets.  A later
\* visit changes nothing.
ViewPage(r, answered) ==
    /\ FirstVisit(r)
    /\ tokens' = Viewed(r)
    /\ Answers(robots[r].tenant, PageKeys(r), answered)
    /\ UNCHANGED <<now, up, tenants, keyCount, apiKeys, robots, links, shownFile, chainVars>>

\* GET /connect/:token/secrets hands the key file out and forgets it.
DownloadSecrets(r, answered) ==
    /\ LinkWorks(r)
    /\ ~tokens[r].downloaded
    /\ tokens[r].secrets
    /\ tokens' = Downloaded(r)
    /\ shownFile' = IF tokens[r].controllerKey THEN [shownFile EXCEPT ![r] = @ + 1] ELSE shownFile
    /\ Answers(robots[r].tenant, KeysOf(r), answered)
    /\ UNCHANGED <<now, up, tenants, keyCount, apiKeys, robots, links, chainVars>>

\* POST /connect/:token/rotate wants any valid key and a token that is still stored,
\* expired or not.
Rotate(r, done, answered) ==
    LET t == robots[r].tenant
    IN  /\ r \in links
        /\ tokens[r].exists
        /\ \E other \in tenants : Authenticated(other)
        /\ keyCount < MaxKeys
        /\ answered => done = 2
        /\ up' = (done = 2)
        /\ apiKeys' = KeysRotated(t, done)
        /\ keyCount' = IF done = 2 THEN keyCount + 1 ELSE keyCount
        /\ Answers(t, IF done = 2 THEN {keyCount + 1} ELSE {}, answered)
        /\ UNCHANGED <<now, tenants, robots, tokens, links, shownFile, chainVars>>

-------------------------------------------------------------------------------
(* Registration on the chain *)

SetCall(c, phase) == calls' = [calls EXCEPT ![c].phase = phase]

EndCall(c) == calls' = [calls EXCEPT ![c] = Idle]

Registered(r) == robots' = [robots EXCEPT ![r].status = "registered"]

\* POST /v1/robots/register, or the automatic registration of POST /complete, which does
\* not ask the local status and takes any tenant's robot.
StartRegister(c, r) ==
    /\ robots[r] # NoRobot
    /\ \E t \in tenants : Authenticated(t)
    /\ calls[c] = Idle
    /\ calls' = [calls EXCEPT ![c] = [phase |-> "reading", robot |-> r]]
    /\ UNCHANGED <<now, up, dbVars, seenVars, pending, onChain>>

\* await getController: a registered robot only needs its status updated.
ReadController(c) ==
    /\ calls[c].phase = "reading"
    /\ IF calls[c].robot \in onChain
       THEN Registered(calls[c].robot) /\ EndCall(c)
       ELSE SetCall(c, "sending") /\ UNCHANGED robots
    /\ UNCHANGED <<now, up, tenants, keyCount, apiKeys, tokens, seenVars, pending, onChain>>

\* await registerRobot: the gas limit is given, so nothing is estimated.
SendRegister(c) ==
    /\ calls[c].phase = "sending"
    /\ pending' = pending \cup {<<c, calls[c].robot>>}
    /\ SetCall(c, "waiting")
    /\ UNCHANGED <<now, up, dbVars, seenVars, onChain>>

FinishEarly(c) ==
    /\ calls[c].phase \in {"waiting", "mined", "reverted"}
    /\ Registered(calls[c].robot)
    /\ EndCall(c)
    /\ UNCHANGED <<now, up, tenants, keyCount, apiKeys, tokens, seenVars, pending, onChain>>

\* await tx.wait: a transaction that reverted, or any other error, ends the request.
FinishRegister(c) ==
    /\ calls[c].phase = "mined"
    /\ Registered(calls[c].robot)
    /\ EndCall(c)
    /\ UNCHANGED <<now, up, tenants, keyCount, apiKeys, tokens, seenVars, pending, onChain>>

FailRegister(c) ==
    /\ calls[c].phase \in {"reading", "sending", "waiting", "reverted"}
    /\ EndCall(c)
    /\ UNCHANGED <<now, up, dbVars, seenVars, pending, onChain>>

\* IdentityRegistry.registerRobot takes a robot once; the transaction of a request that
\* is gone is mined all the same.
Mine(c, r) ==
    /\ pending' = pending \ {<<c, r>>}
    /\ onChain' = onChain \cup {r}
    /\ calls' = IF c # Gone /\ calls[c] = [phase |-> "waiting", robot |-> r]
                THEN [calls EXCEPT ![c].phase = IF r \in onChain THEN "reverted" ELSE "mined"]
                ELSE calls
    /\ UNCHANGED <<now, up, dbVars, seenVars>>

-------------------------------------------------------------------------------
(* What a tenant is told *)

\* apiKeyAuth lets GET requests under these paths pass before it attaches a tenant.
PublicReads == {"/v1/onboard", "/v1/robot-config"}

RequestTenant(path, k) ==
    IF path \in PublicReads \/ apiKeys[k].revoked THEN NoTenant ELSE apiKeys[k].tenant

\* GET /v1/robots
RobotList(t) ==
    {[robotId |-> r, status |-> robots[r].status] : r \in {q \in Robots : robots[q].tenant = t}}

\* GET /v1/onboard/:tenantId is for the tenant itself, but as none is attached it answers 403.
OnboardStatus(t, k) == IF RequestTenant("/v1/onboard", k) = t THEN RobotList(t) ELSE {}

\* GET /v1/robot-config/:robotId, for everybody: the robots it finds.
Configured == {r \in Robots : robots[r] # NoRobot}

-------------------------------------------------------------------------------
(* The process *)

Crash ==
    /\ up' = FALSE
    /\ UNCHANGED <<now, dbVars, seenVars, chainVars>>

\* initDatabase removes the links that ran out; requests under way are gone.
Purged ==
    [r \in Robots |->
        IF tokens[r].exists /\ tokens[r].expiresAt < now THEN NoToken ELSE tokens[r]]

Restart ==
    /\ ~up
    /\ up' = TRUE
    /\ tokens' = Purged
    /\ calls' = [c \in Calls |-> Idle]
    /\ pending' = {<<Gone, p[2]>> : p \in pending}
    /\ UNCHANGED <<now, tenants, keyCount, apiKeys, robots, seenVars, onChain>>

Tick ==
    /\ now < MaxTime
    /\ now' = now + 1
    /\ UNCHANGED <<up, dbVars, seenVars, chainVars>>

LinkStep(r) ==
    \E answered \in BOOLEAN :
        \/ ViewPage(r, answered)
        \/ DownloadSecrets(r, answered)
        \/ \E done \in 0..2 : Rotate(r, done, answered)

TenantStep(t, r) ==
    \E answered \in BOOLEAN :
        \/ \E done \in 0..4 : Onboard(t, r, done, answered)
        \/ \E done \in 0..2 : AddRobot(t, r, done, answered)

CallStep(c) ==
    \/ \E r \in Robots : StartRegister(c, r)
    \/ ReadController(c)
    \/ SendRegister(c)
    \/ FinishRegister(c)
    \/ FailRegister(c)

Serve ==
    /\ up
    /\ \/ \E r \in Robots : LinkStep(r) \/ \E t \in Tenants : TenantStep(t, r)
       \/ \E c \in Calls : CallStep(c)
       \/ Crash

AccountsNext ==
    \/ Serve
    \/ Restart
    \/ Tick
    \/ \E p \in pending : Mine(p[1], p[2])

AccountsSpec == AccountsInit /\ [][AccountsNext]_accountVars

-------------------------------------------------------------------------------
(* Properties *)

\* A tenant has one key that works, never two: rotating retires every older one.  Only a
\* crash between the two statements of a rotation, or in the middle of onboarding, leaves
\* it with none; and a tenant that was shown a key can get in with the one it holds, and
\* finds a robot there whose configuration it can download, unless an answer was lost
\* (auth.ts 118-216, 327-355; connect.ts 24-81, 142-170; onboard.ts 379-415, 500-536).
OneWorkingKey ==
    \A t \in tenants :
        /\ Cardinality(LiveKeys(t)) <= 1
        /\ t \notin accidents =>
            /\ LiveKeys(t) # {}
            /\ (\E k \in KeyIds : apiKeys[k].tenant = t /\ shown[k] > 0) =>
                \E k \in held :
                    /\ Valid(k, t)
                    /\ \E l \in RobotList(RequestTenant("/v1/robots", k)) : l.robotId \in Configured

\* Every API key and every controller key leaves in at most one answer, by the page, the
\* download or a rotation, whatever crashes and restarts come in between; a controller key
\* that was handed out is not in the database any more; and a page never shows, or offers
\* for download, what has left already (connect.ts 52-64, 104-124, 177-409).
SecretsShownOnce ==
    /\ \A k \in KeyIds : shown[k] <= 1
    /\ \A r \in Robots :
        /\ shownFile[r] <= 1
        /\ shownFile[r] = 1 => ~tokens[r].secrets
        /\ \A k \in PageKeys(r) : shown[k] = 0
        /\ OffersKeyFile(r) => shownFile[r] = 0

\* A robot that a tenant is told is registered is in the IdentityRegistry, however many
\* requests register it at once and whichever transaction wins (onboard.ts 250-296, 326-414,
\* webhook.ts 356-368).
RegisteredIsOnChain ==
    \A t \in Tenants, k \in KeyIds : \A l \in RobotList(t) \cup OnboardStatus(t, k) :
        l.status = "registered" => l.robotId \in onChain
================================================================================
