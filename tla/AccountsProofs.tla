----------------------------- MODULE AccountsProofs -----------------------------
(***************************************************************************)
(* What holds of Accounts for every number of tenants, keys, robots and    *)
(* concurrent registrations, with crashes between any two statements.      *)
(*                                                                         *)
(* Robots: the database calls a robot registered only when the chain has   *)
(* it.  A registration learns that the robot is there either by reading    *)
(* the controller or by waiting for its own transaction; in between it may *)
(* lose its process, and another request or a transaction of a dead one    *)
(* may register the robot first.  The invariant follows the two ways: a    *)
(* request whose transaction was mined has its robot in the registry, and  *)
(* nothing ever leaves the registry.                                       *)
(*                                                                         *)
(* Keys: a tenant has one key that works, and holds it when it was shown   *)
(* it; no secret leaves twice.  The invariant relates four tables: a key   *)
(* made has a tenant and no other was shown; the key behind a link is the  *)
(* tenant's and behind no other link; a link that can still show something *)
(* did not; and a tenant without an accident has a live key, which it      *)
(* holds once any key of its own was shown or revoked.                     *)
(***************************************************************************)
EXTENDS Accounts, FiniteSetTheorems, TLAPS

Phases == {"idle", "reading", "sending", "waiting", "mined", "reverted"}

-------------------------------------------------------------------------------
(* The inductive invariant *)

CallsTypeOK ==
    /\ calls \in [Calls -> [phase : Phases, robot : Robots \cup {NoTenant}]]
    /\ \A c \in Calls : calls[c].phase # "idle" => calls[c].robot \in Robots

RobotsTypeOK ==
    /\ robots \in [Robots ->
            [tenant : Tenants \cup {NoTenant}, status : {"none", "pending", "registered"}]]
    /\ pending \subseteq (Calls \cup {Gone}) \X Robots

RegisteredRobots == \A r \in Robots : robots[r].status = "registered" => r \in onChain

ChainInv ==
    /\ CallsTypeOK
    /\ RobotsTypeOK
    /\ \A c \in Calls : calls[c].phase = "mined" => calls[c].robot \in onChain
    /\ RegisteredRobots

-------------------------------------------------------------------------------
(* Registered robots are on the chain *)

LEMMA ChainInitInv == AccountsInit => ChainInv
BY DEF AccountsInit, ChainInv, CallsTypeOK, RobotsTypeOK, RegisteredRobots, Idle, NoRobot, Phases

LEMMA ChainStepKeeps == ChainInv /\ [AccountsNext]_accountVars => ChainInv'
<1> SUFFICES ASSUME ChainInv, [AccountsNext]_accountVars
    PROVE  ChainInv'
    OBVIOUS
<1> USE DEF ChainInv
<1>0. /\ calls \in [Calls -> [phase : Phases, robot : Robots \cup {NoTenant}]]
      /\ robots \in [Robots ->
            [tenant : Tenants \cup {NoTenant}, status : {"none", "pending", "registered"}]]
      /\ pending \subseteq (Calls \cup {Gone}) \X Robots
    BY DEF CallsTypeOK, RobotsTypeOK
\* The steps that may make a robot, or that leave everything here alone.
<1>1. CASE /\ UNCHANGED <<calls, onChain, pending>>
           /\ \/ UNCHANGED robots
              \/ \E t \in Tenants, r \in Robots : robots' = WithRobot(t, r)
    <2>1. /\ \A r \in Robots : robots'[r].status = "registered" => robots[r].status = "registered"
          /\ robots' \in [Robots ->
                [tenant : Tenants \cup {NoTenant}, status : {"none", "pending", "registered"}]]
        BY <1>0, <1>1 DEF WithRobot
    <2> QED
        BY <1>1, <2>1 DEF CallsTypeOK, RobotsTypeOK, RegisteredRobots
\* The steps that call a robot registered, of which the chain has it.
<1>2. ASSUME NEW c \in Calls, calls[c].phase # "idle", calls[c].robot \in onChain,
             Registered(calls[c].robot), EndCall(c), UNCHANGED <<pending, onChain>>
      PROVE  ChainInv'
    <2> DEFINE r == calls[c].robot
    <2>1. r \in Robots
        BY <1>2 DEF CallsTypeOK
    <2>2. /\ robots' \in [Robots ->
                [tenant : Tenants \cup {NoTenant}, status : {"none", "pending", "registered"}]]
          /\ \A q \in Robots : q # r => robots'[q] = robots[q]
        BY <1>0, <1>2, <2>1 DEF Registered
    <2>3. /\ calls' \in [Calls -> [phase : Phases, robot : Robots \cup {NoTenant}]]
          /\ calls'[c].phase = "idle"
          /\ \A d \in Calls : d # c => calls'[d] = calls[d]
        BY <1>0, <1>2 DEF EndCall, Idle, Phases
    <2> QED
        BY <1>2, <2>1, <2>2, <2>3 DEF CallsTypeOK, RobotsTypeOK, RegisteredRobots
\* The steps of one request that leave the robots and the chain alone.
<1>3. ASSUME NEW c \in Calls, UNCHANGED <<robots, onChain>>,
             pending' \subseteq (Calls \cup {Gone}) \X Robots,
             calls'[c] \in [phase : Phases, robot : Robots \cup {NoTenant}],
             calls' = [calls EXCEPT ![c] = calls'[c]],
             calls'[c].phase # "idle" => calls'[c].robot \in Robots,
             calls'[c].phase = "mined" => calls'[c].robot \in onChain
      PROVE  ChainInv'
    <2>1. /\ calls' \in [Calls -> [phase : Phases, robot : Robots \cup {NoTenant}]]
          /\ \A d \in Calls : d # c => calls'[d] = calls[d]
        BY <1>0, <1>3
    <2> QED
        BY <1>3, <2>1 DEF CallsTypeOK, RobotsTypeOK, RegisteredRobots
<1>4. ASSUME NEW t \in Tenants, NEW r \in Robots, TenantStep(t, r)
      PROVE  ChainInv'
    <2>1. UNCHANGED <<calls, onChain, pending>> /\ (robots' = WithRobot(t, r) \/ robots' = robots)
        BY <1>4 DEF TenantStep, Onboard, AddRobot, chainVars
    <2> QED
        BY <1>1, <2>1
<1>5. ASSUME NEW r \in Robots, LinkStep(r)
      PROVE  ChainInv'
    <2>1. UNCHANGED <<calls, onChain, pending, robots>>
        BY <1>5 DEF LinkStep, ViewPage, DownloadSecrets, Rotate, chainVars
    <2> QED
        BY <1>1, <2>1
<1>6. ASSUME NEW c \in Calls, CallStep(c)
      PROVE  ChainInv'
    <2>1. ASSUME NEW r \in Robots, StartRegister(c, r)
          PROVE  ChainInv'
        BY <1>0, <1>3, <2>1 DEF StartRegister, Phases, dbVars
    <2>2. CASE ReadController(c)
        <3>1. CASE calls[c].robot \in onChain
            BY <1>2, <2>2, <3>1 DEF ReadController
        <3>2. CASE calls[c].robot \notin onChain
            <4>1. calls' = [calls EXCEPT ![c].phase = "sending"] /\ UNCHANGED <<robots, onChain, pending>>
                BY <2>2, <3>2 DEF ReadController, SetCall
            <4>2. calls[c].phase = "reading" /\ calls[c].robot \in Robots
                BY <2>2 DEF ReadController, CallsTypeOK
            <4> QED
                BY <1>0, <1>3, <4>1, <4>2 DEF Phases
        <3> QED
            BY <3>1, <3>2
    <2>3. CASE SendRegister(c)
        <3>1. calls[c].robot \in Robots
            BY <2>3 DEF SendRegister, CallsTypeOK
        <3>2. /\ UNCHANGED <<robots, onChain>>
              /\ calls' = [calls EXCEPT ![c].phase = "waiting"]
            BY <2>3 DEF SendRegister, SetCall, dbVars
        <3>3. pending' \subseteq (Calls \cup {Gone}) \X Robots
            BY <1>0, <2>3, <3>1 DEF SendRegister
        <3>4. /\ calls'[c] \in [phase : Phases, robot : Robots \cup {NoTenant}]
              /\ calls'[c].phase = "waiting"
              /\ calls'[c].robot = calls[c].robot
              /\ calls' = [calls EXCEPT ![c] = calls'[c]]
            BY <1>0, <3>2 DEF Phases
        <3> QED
            BY <1>0, <1>3, <3>1, <3>2, <3>3, <3>4
    <2>4. CASE FinishRegister(c)
        BY <1>2, <2>4 DEF FinishRegister
    <2>5. CASE FailRegister(c)
        BY <1>0, <1>3, <2>5 DEF FailRegister, EndCall, Idle, Phases, dbVars
    <2> QED
        BY <1>6, <2>1, <2>2, <2>3, <2>4, <2>5 DEF CallStep
<1>7. CASE Crash \/ Tick
    BY <1>1, <1>7 DEF Crash, Tick, dbVars, chainVars
<1>8. CASE Restart
    <2>1. /\ calls' \in [Calls -> [phase : Phases, robot : Robots \cup {NoTenant}]]
          /\ \A c \in Calls : calls'[c].phase = "idle"
          /\ UNCHANGED <<robots, onChain>>
        BY <1>8 DEF Restart, Idle, Phases
    <2>2. pending' \subseteq (Calls \cup {Gone}) \X Robots
        BY <1>0, <1>8 DEF Restart
    <2> QED
        BY <2>1, <2>2 DEF CallsTypeOK, RobotsTypeOK, RegisteredRobots
<1>9. ASSUME NEW p \in pending, Mine(p[1], p[2])
      PROVE  ChainInv'
    <2> DEFINE r == p[2]
    <2>1. /\ p[1] \in Calls \cup {Gone}
          /\ r \in Robots
          /\ robots' = robots
          /\ pending' \subseteq (Calls \cup {Gone}) \X Robots
          /\ onChain \subseteq onChain' /\ r \in onChain'
        BY <1>0, <1>9 DEF Mine, dbVars
    <2>2. CASE calls' = calls
        BY <2>1, <2>2 DEF CallsTypeOK, RobotsTypeOK, RegisteredRobots
    <2>3. CASE calls' # calls
        <3>1. PICK phase \in {"reverted", "mined"} :
                /\ p[1] \in Calls
                /\ calls[p[1]].robot = r
                /\ calls' = [calls EXCEPT ![p[1]].phase = phase]
            <4>1. /\ p[1] # Gone
                  /\ calls[p[1]] = [phase |-> "waiting", robot |-> r]
                  /\ calls' = [calls EXCEPT ![p[1]].phase =
                                    IF r \in onChain THEN "reverted" ELSE "mined"]
                BY <1>9, <2>3 DEF Mine
            <4>2. p[1] \in Calls /\ calls[p[1]].robot = r
                BY <2>1, <4>1
            <4>3. CASE r \in onChain
                BY <4>1, <4>2, <4>3
            <4>4. CASE r \notin onChain
                BY <4>1, <4>2, <4>4
            <4> QED
                BY <4>3, <4>4
        <3>2. /\ calls' \in [Calls -> [phase : Phases, robot : Robots \cup {NoTenant}]]
              /\ calls'[p[1]].robot = r
              /\ \A d \in Calls : d # p[1] => calls'[d] = calls[d]
            BY <1>0, <2>1, <3>1 DEF Phases
        <3> HIDE DEF r
        <3> QED
            BY <2>1, <3>1, <3>2 DEF CallsTypeOK, RobotsTypeOK, RegisteredRobots
    <2> QED
        BY <2>2, <2>3
<1>10. CASE UNCHANGED accountVars
    BY <1>1, <1>10 DEF accountVars, dbVars, chainVars
<1> QED
    BY <1>4, <1>5, <1>6, <1>7, <1>8, <1>9, <1>10 DEF AccountsNext, Serve

\* A robot that a tenant is told is registered is in the IdentityRegistry, for any number of
\* concurrent registrations and whatever the crashes leave behind (onboard.ts 250-296).
THEOREM RegisteredStaysOnChain == AccountsSpec => []RegisteredIsOnChain
<1>1. ChainInv => RegisteredIsOnChain
    BY DEF ChainInv, RegisteredRobots, RegisteredIsOnChain, RobotList, OnboardStatus
<1> QED
    BY ChainInitInv, ChainStepKeeps, <1>1, PTL DEF AccountsSpec

-------------------------------------------------------------------------------
(* Keys and secrets: the inductive invariant *)

KeyType == [tenant : Tenants \cup {NoTenant}, revoked : BOOLEAN]

TokenType ==
    [exists : BOOLEAN, apiKey : Nat, controllerKey : BOOLEAN, secrets : BOOLEAN,
     downloaded : BOOLEAN, expiresAt : Nat]

RowsTypeOK ==
    /\ now \in Nat
    /\ tenants \subseteq Tenants
    /\ keyCount \in 0..MaxKeys
    /\ apiKeys \in [KeyIds -> KeyType]
    /\ robots \in [Robots ->
            [tenant : Tenants \cup {NoTenant}, status : {"none", "pending", "registered"}]]
    /\ tokens \in [Robots -> TokenType]
    /\ held \subseteq KeyIds
    /\ shown \in [KeyIds -> Nat]
    /\ shownFile \in [Robots -> Nat]

\* The keys made so far have tenants, and no other was shown.
KeysOwned ==
    \A k \in KeyIds :
        /\ k <= keyCount => apiKeys[k].tenant \in tenants
        /\ k > keyCount => apiKeys[k] = NoKey /\ shown[k] = 0

\* A robot without a tenant was never linked; the key behind a link is the tenant's, and
\* behind no other link.
LinksOwned ==
    /\ \A r \in Robots :
        /\ robots[r].tenant \in tenants \cup {NoTenant}
        /\ robots[r].tenant = NoTenant => tokens[r] = NoToken /\ shownFile[r] = 0
        /\ tokens[r].apiKey <= keyCount
        /\ tokens[r].apiKey # 0 => apiKeys[tokens[r].apiKey].tenant = robots[r].tenant
    /\ \A r, q \in Robots : tokens[r].apiKey = tokens[q].apiKey /\ tokens[r].apiKey # 0 => r = q

OneLiveKey ==
    \A t \in Tenants : \A k, l \in KeyIds : Valid(k, t) /\ Valid(l, t) => k = l

\* A tenant without an accident has a live key, and it holds the live key once it was shown
\* one or had one revoked.
GetsIn ==
    \A t \in tenants \ accidents :
        /\ \E k \in KeyIds : Valid(k, t)
        /\ (\E k \in KeyIds : apiKeys[k].tenant = t /\ (shown[k] > 0 \/ apiKeys[k].revoked)) =>
                Authenticated(t)

\* What a link can still show was not shown.
Unseen ==
    \A r \in Robots :
        /\ tokens[r].apiKey # 0 /\ ~tokens[r].downloaded => shown[tokens[r].apiKey] = 0
        /\ tokens[r].secrets => shownFile[r] = 0

AtMostOnce ==
    /\ \A k \in KeyIds : shown[k] <= 1
    /\ \A r \in Robots : shownFile[r] <= 1

KeysInv ==
    /\ RowsTypeOK
    /\ KeysOwned
    /\ LinksOwned
    /\ OneLiveKey
    /\ GetsIn
    /\ Unseen
    /\ AtMostOnce

-------------------------------------------------------------------------------
(* The tables *)

LEMMA NewKeyIs ==
    ASSUME NEW keys \in [KeyIds -> KeyType], NEW t \in Tenants, keyCount \in 0..MaxKeys,
           keyCount < MaxKeys
    PROVE  /\ keyCount + 1 \in KeyIds
           /\ WithNewKey(keys, t) \in [KeyIds -> KeyType]
           /\ WithNewKey(keys, t)[keyCount + 1] = [tenant |-> t, revoked |-> FALSE]
           /\ \A k \in KeyIds : k # keyCount + 1 => WithNewKey(keys, t)[k] = keys[k]
BY AccountsAssumption DEF KeyIds, KeyType, WithNewKey

LEMMA RevokedIs ==
    ASSUME NEW keys \in [KeyIds -> KeyType], NEW t \in Tenants
    PROVE  /\ Revoked(keys, t) \in [KeyIds -> KeyType]
           /\ \A k \in KeyIds :
                /\ Revoked(keys, t)[k].tenant = keys[k].tenant
                /\ keys[k].tenant = t => Revoked(keys, t)[k].revoked
                /\ keys[k].tenant # t => Revoked(keys, t)[k] = keys[k]
BY DEF KeyType, Revoked

LEMMA KeysInitInv == AccountsInit => KeysInv
<1> SUFFICES ASSUME AccountsInit
             PROVE  KeysInv
    OBVIOUS
<1> USE AccountsAssumption
<1>1. RowsTypeOK
    BY DEF AccountsInit, RowsTypeOK, KeyType, TokenType, NoKey, NoRobot, NoToken
<1>2. KeysOwned
    BY DEF AccountsInit, KeysOwned, KeyIds
<1>3. LinksOwned
    BY DEF AccountsInit, LinksOwned, NoRobot, NoToken
<1>4. OneLiveKey
    BY DEF AccountsInit, OneLiveKey, Valid, NoKey
<1>5. GetsIn /\ Unseen /\ AtMostOnce
    BY DEF AccountsInit, GetsIn, Unseen, AtMostOnce, NoToken
<1> QED
    BY <1>1, <1>2, <1>3, <1>4, <1>5 DEF KeysInv

-------------------------------------------------------------------------------
(* What each step keeps *)

\* A tenant that can send a valid key is one.
LEMMA AuthenticatedExists ==
    ASSUME KeysInv, NEW t \in Tenants, Authenticated(t)
    PROVE  t \in tenants
<1>1. PICK k \in held : apiKeys[k].tenant = t
    BY DEF Authenticated, Valid
<1>2. k \in KeyIds /\ keyCount \in Nat /\ k \in Nat
    BY DEF KeysInv, RowsTypeOK, KeyIds
<1> QED
    BY <1>1, <1>2, AccountsAssumption DEF KeysInv, KeysOwned, NoKey

\* Robots and links come in the same way from an onboarding and from a tenant.
LEMMA NewLinkKeeps ==
    ASSUME KeysInv, RowsTypeOK', NEW t \in tenants', NEW r \in Robots, robots[r] = NoRobot,
           tenants \subseteq tenants', keyCount <= keyCount',
           \A k \in KeyIds : k <= keyCount => apiKeys'[k] = apiKeys[k],
           robots' = robots \/ robots' = WithRobot(t, r),
           NEW key, key # 0 => key > keyCount /\ key <= keyCount' /\ apiKeys'[key].tenant = t,
           NEW file,
           \/ tokens' = tokens
           \/ robots' = WithRobot(t, r) /\ tokens' = WithToken(r, key, file) /\ key \in Nat,
           UNCHANGED <<shown, shownFile>>,
           KeysOwned'
    PROVE  LinksOwned' /\ Unseen' /\ AtMostOnce'
<1>1. /\ robots \in [Robots ->
            [tenant : Tenants \cup {NoTenant}, status : {"none", "pending", "registered"}]]
      /\ tokens \in [Robots -> TokenType]
      /\ keyCount \in Nat /\ keyCount' \in Nat
    BY DEF KeysInv, RowsTypeOK
<1>2. robots[r].tenant = NoTenant /\ tokens[r] = NoToken /\ shownFile[r] = 0
    BY DEF KeysInv, LinksOwned, NoRobot
<1>3. \A q \in Robots : q # r => robots'[q] = robots[q] /\ tokens'[q] = tokens[q]
    BY <1>1 DEF WithRobot, WithToken
<1>4. /\ robots'[r].tenant \in {t, NoTenant}
      /\ robots'[r].tenant = NoTenant => tokens'[r] = NoToken
      /\ tokens'[r].apiKey \in {0, key}
      /\ tokens'[r].apiKey # 0 => robots'[r].tenant = t
    <2>1. CASE tokens' = tokens
        BY <1>1, <1>2, <2>1 DEF WithRobot, NoToken
    <2>2. CASE robots' = WithRobot(t, r) /\ tokens' = WithToken(r, key, file)
        <3>1. t # NoTenant
            BY AccountsAssumption DEF RowsTypeOK
        <3> QED
            BY <1>1, <2>2, <3>1 DEF WithRobot, WithToken
    <2> QED
        BY <2>1, <2>2
<1>5. \A q \in Robots : tokens[q].apiKey \in Nat /\ tokens[q].apiKey <= keyCount
    BY <1>1 DEF KeysInv, LinksOwned, TokenType
<1>6. \A q \in Robots : tokens[q].apiKey # 0 => tokens[q].apiKey \in KeyIds
    BY <1>5, AccountsAssumption DEF KeyIds, KeysInv, RowsTypeOK
<1>7. ASSUME NEW q \in Robots
      PROVE  /\ robots'[q].tenant \in tenants' \cup {NoTenant}
             /\ robots'[q].tenant = NoTenant => tokens'[q] = NoToken /\ shownFile'[q] = 0
             /\ tokens'[q].apiKey <= keyCount'
             /\ tokens'[q].apiKey # 0 => apiKeys'[tokens'[q].apiKey].tenant = robots'[q].tenant
    <2>1. CASE q = r
        BY <1>1, <1>2, <1>4, <2>1
    <2>2. CASE q # r
        BY <1>1, <1>3, <1>5, <1>6, <2>2 DEF KeysInv, LinksOwned
    <2> QED
        BY <2>1, <2>2
<1>8. ASSUME NEW p \in Robots, NEW q \in Robots,
             tokens'[p].apiKey = tokens'[q].apiKey, tokens'[p].apiKey # 0
      PROVE  p = q
    <2>1. CASE p # r /\ q # r
        BY <1>3, <1>8, <2>1 DEF KeysInv, LinksOwned
    <2>2. CASE (p = r) # (q = r)
        BY <1>1, <1>3, <1>4, <1>5, <1>8, <2>2
    <2> QED
        BY <2>1, <2>2
<1>9. LinksOwned'
    BY <1>7, <1>8 DEF LinksOwned
<1>10. Unseen'
    <2> SUFFICES ASSUME NEW q \in Robots
                 PROVE  /\ tokens'[q].apiKey # 0 /\ ~tokens'[q].downloaded =>
                                shown'[tokens'[q].apiKey] = 0
                        /\ tokens'[q].secrets => shownFile'[q] = 0
        BY DEF Unseen
    <2>1. CASE q # r
        BY <1>3, <2>1 DEF KeysInv, Unseen
    <2>2. CASE q = r
        <3>1. tokens'[r].apiKey # 0 => shown[tokens'[r].apiKey] = 0
            <4>1. tokens'[r].apiKey \in Nat /\ keyCount' \in 0..MaxKeys
                BY DEF RowsTypeOK, TokenType
            <4>2. tokens'[r].apiKey # 0 =>
                    /\ tokens'[r].apiKey \in KeyIds
                    /\ tokens'[r].apiKey > keyCount
                BY <1>1, <1>4, <4>1, AccountsAssumption DEF KeyIds
            <4> QED
                BY <4>2 DEF KeysInv, KeysOwned
        <3> QED
            BY <1>2, <1>4, <2>2, <3>1
    <2> QED
        BY <2>1, <2>2
<1>11. AtMostOnce'
    BY DEF KeysInv, AtMostOnce
<1> QED
    BY <1>9, <1>10, <1>11

\* What leaves the keys and their answers alone keeps what is said of keys.
LEMMA SameKeysKeep ==
    ASSUME KeysInv, UNCHANGED <<tenants, keyCount, apiKeys, shown, held>>,
           accidents \subseteq accidents'
    PROVE  KeysOwned' /\ OneLiveKey' /\ GetsIn'
<1>1. KeysOwned'
    BY DEF KeysInv, KeysOwned
<1>2. OneLiveKey'
    BY DEF KeysInv, OneLiveKey, Valid
<1>3. GetsIn'
    BY DEF KeysInv, GetsIn, Authenticated, Valid
<1> QED
    BY <1>1, <1>2, <1>3

\* What an answer without a key changes.
LEMMA AnswersNothing ==
    ASSUME KeysInv, NEW t, NEW answered, Answers(t, {}, answered)
    PROVE  /\ UNCHANGED <<shown, held>>
           /\ accidents \subseteq accidents'
           /\ ~answered => t \in accidents'
BY DEF Answers, KeysInv, RowsTypeOK

\* A robot of a link that works has a tenant.
LEMMA LinkedTenant ==
    ASSUME KeysInv, NEW r \in Robots, tokens[r].exists
    PROVE  robots[r].tenant \in tenants /\ robots[r].tenant \in Tenants
BY DEF KeysInv, RowsTypeOK, LinksOwned, NoToken

LEMMA OnboardKeeps ==
    ASSUME KeysInv, NEW t \in Tenants, NEW r \in Robots, NEW done \in 0..4, NEW answered \in BOOLEAN,
           Onboard(t, r, done, answered)
    PROVE  KeysInv'
<1>0. RowsTypeOK /\ UNCHANGED <<now, shownFile>>
    BY DEF KeysInv, Onboard, CreateTenant
<1>1. UNCHANGED <<shown, held>> /\ accidents \subseteq accidents' /\ (~answered => t \in accidents')
    BY AnswersNothing DEF Onboard, CreateTenant
<1>2. /\ keyCount \in 0..MaxKeys /\ keyCount < MaxKeys
      /\ apiKeys \in [KeyIds -> KeyType]
      /\ t \notin tenants /\ t # NoTenant
      /\ robots[r] = NoRobot
    BY <1>0, AccountsAssumption DEF Onboard, CreateTenant, RowsTypeOK
<1>3. /\ tenants' \in {tenants, tenants \cup {t}}
      /\ robots' = robots \/ robots' = WithRobot(t, r)
    BY DEF Onboard, CreateTenant
<1>4. \/ UNCHANGED <<keyCount, apiKeys>> /\ ~answered /\ done < 2
      \/ /\ keyCount' = keyCount + 1
         /\ apiKeys' = WithNewKey(apiKeys, t)
         /\ tenants' = tenants \cup {t}
    BY DEF Onboard, CreateTenant
<1>5. /\ keyCount + 1 \in KeyIds
      /\ WithNewKey(apiKeys, t) \in [KeyIds -> KeyType]
      /\ WithNewKey(apiKeys, t)[keyCount + 1] = [tenant |-> t, revoked |-> FALSE]
      /\ \A k \in KeyIds : k # keyCount + 1 => WithNewKey(apiKeys, t)[k] = apiKeys[k]
    BY <1>2, NewKeyIs
<1>6. RowsTypeOK'
    <2>1. robots' \in [Robots ->
            [tenant : Tenants \cup {NoTenant}, status : {"none", "pending", "registered"}]]
        BY <1>0, <1>3 DEF RowsTypeOK, WithRobot
    <2>2. tokens' \in [Robots -> TokenType]
        <3>1. now + TokenTTL \in Nat /\ keyCount + 1 \in Nat
            BY <1>0, <1>2, AccountsAssumption DEF RowsTypeOK
        <3>2. tokens' = tokens \/ tokens' = WithToken(r, keyCount + 1, StrictProof)
            BY DEF Onboard, CreateTenant
        <3>3. [exists |-> TRUE, apiKey |-> keyCount + 1, controllerKey |-> StrictProof,
               secrets |-> TRUE, downloaded |-> FALSE, expiresAt |-> now + TokenTTL] \in TokenType
            BY <3>1, AccountsAssumption DEF TokenType
        <3> QED
            BY <1>0, <3>2, <3>3 DEF RowsTypeOK, WithToken
    <2>3. keyCount' \in 0..MaxKeys /\ apiKeys' \in [KeyIds -> KeyType]
        BY <1>2, <1>4, <1>5, AccountsAssumption
    <2>4. tenants' \subseteq Tenants
        BY <1>0, <1>3 DEF RowsTypeOK
    <2> QED
        BY <1>0, <1>1, <2>1, <2>2, <2>3, <2>4 DEF RowsTypeOK
\* No key was the tenant's before.
<1>7. \A k \in KeyIds : apiKeys[k].tenant # t
    BY <1>2, AccountsAssumption DEF KeysInv, KeysOwned, KeyIds, NoKey
<1>8. KeysOwned'
    <2>1. CASE UNCHANGED <<keyCount, apiKeys>>
        BY <1>1, <1>3, <2>1 DEF KeysInv, KeysOwned
    <2>2. CASE keyCount' = keyCount + 1 /\ apiKeys' = WithNewKey(apiKeys, t) /\ tenants' = tenants \cup {t}
        <3> SUFFICES ASSUME NEW k \in KeyIds
                     PROVE  /\ k <= keyCount' => apiKeys'[k].tenant \in tenants'
                            /\ k > keyCount' => apiKeys'[k] = NoKey /\ shown'[k] = 0
            BY DEF KeysOwned
        <3>1. k \in Nat
            BY DEF KeyIds
        <3>2. CASE k = keyCount + 1
            BY <1>2, <1>5, <2>2, <3>2
        <3>3. CASE k # keyCount + 1
            BY <1>1, <1>2, <1>5, <2>2, <3>1, <3>3 DEF KeysInv, KeysOwned
        <3> QED
            BY <3>2, <3>3
    <2> QED
        BY <1>4, <2>1, <2>2
<1>9. OneLiveKey'
    <2>1. \A u \in Tenants : \A k \in KeyIds : Valid(k, u)' => Valid(k, u) \/ (u = t /\ k = keyCount + 1)
        BY <1>4, <1>5 DEF Valid
    <2>2. \A k \in KeyIds : ~Valid(k, t)
        BY <1>7 DEF Valid
    <2> QED
        BY <2>1, <2>2 DEF KeysInv, OneLiveKey
<1>10. GetsIn'
    <2> SUFFICES ASSUME NEW u \in tenants', u \notin accidents'
                 PROVE  /\ \E k \in KeyIds : Valid(k, u)'
                        /\ (\E k \in KeyIds : apiKeys'[k].tenant = u /\ (shown'[k] > 0 \/ apiKeys'[k].revoked)) =>
                                Authenticated(u)'
        BY DEF GetsIn
    <2>1. CASE u = t
        <3>1. answered
            BY <1>1, <2>1
        <3>2. apiKeys' = WithNewKey(apiKeys, t)
            BY <1>4, <3>1
        <3>3. \E k \in KeyIds : Valid(k, t)'
            BY <1>5, <3>2 DEF Valid
        <3>4. shown'[keyCount + 1] = 0
            BY <1>1, <1>2, <1>5 DEF KeysInv, KeysOwned
        <3>5. \A k \in KeyIds : apiKeys'[k].tenant = t => k = keyCount + 1
            BY <1>5, <1>7, <3>2
        <3> QED
            BY <1>5, <2>1, <3>2, <3>3, <3>4, <3>5
    <2>2. CASE u # t
        <3>1. u \in tenants /\ u \notin accidents
            BY <1>1, <1>3, <2>2
        <3>2. \A k \in KeyIds : apiKeys[k].tenant = u => apiKeys'[k] = apiKeys[k]
            <4>1. apiKeys[keyCount + 1] = NoKey
                BY <1>2, <1>5 DEF KeysInv, KeysOwned
            <4>2. u # NoTenant
                BY <3>1, AccountsAssumption, <1>0 DEF RowsTypeOK
            <4> QED
                BY <1>4, <1>5, <4>1, <4>2 DEF NoKey
        <3>3. \A k \in KeyIds : apiKeys'[k].tenant = u => apiKeys'[k] = apiKeys[k]
            BY <1>4, <1>5, <2>2
        <3>4. held \subseteq KeyIds
            BY <1>0 DEF RowsTypeOK
        <3> QED
            BY <1>1, <3>1, <3>2, <3>3, <3>4 DEF KeysInv, GetsIn, Authenticated, Valid
    <2> QED
        BY <2>1, <2>2
<1>11. LinksOwned' /\ Unseen' /\ AtMostOnce'
    <2>1. CASE done = 4
        <3>1. /\ t \in tenants' /\ tenants \subseteq tenants' /\ keyCount' = keyCount + 1
              /\ apiKeys' = WithNewKey(apiKeys, t)
              /\ robots' = WithRobot(t, r)
              /\ tokens' = WithToken(r, keyCount + 1, StrictProof)
            BY <2>1 DEF Onboard, CreateTenant
        <3>2. /\ keyCount <= keyCount'
              /\ \A k \in KeyIds : k <= keyCount => apiKeys'[k] = apiKeys[k]
              /\ keyCount + 1 > keyCount /\ keyCount + 1 <= keyCount'
              /\ apiKeys'[keyCount + 1].tenant = t
              /\ keyCount + 1 \in Nat
            BY <1>2, <1>5, <3>1
        <3> QED
            BY <1>0, <1>1, <1>2, <1>6, <1>8, <3>1, <3>2, NewLinkKeeps
    <2>2. CASE done # 4 /\ t \in tenants'
        <3>1. /\ tenants \subseteq tenants' /\ UNCHANGED tokens
              /\ keyCount <= keyCount'
              /\ \A k \in KeyIds : k <= keyCount => apiKeys'[k] = apiKeys[k]
            BY <1>2, <1>3, <1>4, <1>5, <2>2 DEF Onboard, CreateTenant
        <3> QED
            BY <1>0, <1>1, <1>2, <1>3, <1>6, <1>8, <2>2, <3>1, NewLinkKeeps
    <2>3. CASE t \notin tenants'
        <3>1. UNCHANGED <<tenants, keyCount, apiKeys, robots, tokens>>
            BY <2>3 DEF Onboard, CreateTenant
        <3> QED
            BY <1>0, <1>1, <3>1 DEF KeysInv, LinksOwned, Unseen, AtMostOnce
    <2> QED
        BY <2>1, <2>2, <2>3
<1> QED
    BY <1>6, <1>8, <1>9, <1>10, <1>11 DEF KeysInv

LEMMA AddRobotKeeps ==
    ASSUME KeysInv, NEW t \in Tenants, NEW r \in Robots, NEW done \in 0..2, NEW answered \in BOOLEAN,
           AddRobot(t, r, done, answered)
    PROVE  KeysInv'
<1>0. /\ RowsTypeOK
      /\ UNCHANGED <<now, tenants, keyCount, apiKeys, shownFile>>
      /\ robots[r] = NoRobot
      /\ t \in tenants
    BY AuthenticatedExists DEF KeysInv, AddRobot
<1>1. UNCHANGED <<shown, held>> /\ accidents \subseteq accidents'
    BY AnswersNothing DEF AddRobot
<1>2. KeysOwned' /\ OneLiveKey' /\ GetsIn'
    BY <1>0, <1>1, SameKeysKeep
<1>3. /\ robots' = robots \/ robots' = WithRobot(t, r)
      /\ \/ tokens' = tokens
         \/ robots' = WithRobot(t, r) /\ tokens' = WithToken(r, 0, TRUE)
    <2>1. CASE done = 2
        BY <2>1 DEF AddRobot
    <2>2. CASE done # 2
        BY <2>2 DEF AddRobot
    <2> QED
        BY <2>1, <2>2
<1>4. RowsTypeOK'
    <2>1. robots' \in [Robots ->
            [tenant : Tenants \cup {NoTenant}, status : {"none", "pending", "registered"}]]
        BY <1>0, <1>3 DEF RowsTypeOK, WithRobot
    <2>2. tokens' \in [Robots -> TokenType]
        <3>1. now + TokenTTL \in Nat
            BY <1>0, AccountsAssumption DEF RowsTypeOK
        <3>2. [exists |-> TRUE, apiKey |-> 0, controllerKey |-> TRUE,
               secrets |-> TRUE, downloaded |-> FALSE, expiresAt |-> now + TokenTTL] \in TokenType
            BY <3>1 DEF TokenType
        <3> QED
            BY <1>0, <1>3, <3>2 DEF RowsTypeOK, WithToken
    <2> QED
        BY <1>0, <1>1, <2>1, <2>2 DEF RowsTypeOK
<1>5. LinksOwned' /\ Unseen' /\ AtMostOnce'
    <2>1. keyCount <= keyCount'
        BY <1>0 DEF RowsTypeOK
    <2> QED
        BY <1>0, <1>1, <1>2, <1>3, <1>4, <2>1, NewLinkKeeps
<1> QED
    BY <1>2, <1>4, <1>5 DEF KeysInv

\* The page and the download hand out the key of a link that was not used, and close it.
LEMMA LinkUsedKeeps ==
    ASSUME KeysInv, NEW r \in Robots, NEW answered \in BOOLEAN,
           tokens[r].exists, ~tokens[r].downloaded,
           UNCHANGED <<now, tenants, keyCount, apiKeys, robots>>,
           tokens' \in [Robots -> TokenType],
           tokens'[r].apiKey = tokens[r].apiKey, tokens'[r].downloaded,
           tokens'[r].secrets => tokens[r].secrets /\ UNCHANGED shownFile,
           \A q \in Robots : q # r => tokens'[q] = tokens[q],
           \/ UNCHANGED shownFile
           \/ shownFile' = [shownFile EXCEPT ![r] = @ + 1] /\ tokens[r].secrets,
           Answers(robots[r].tenant, KeysOf(r), answered)
    PROVE  KeysInv'
<1> DEFINE t == robots[r].tenant
<1>0. RowsTypeOK
    BY DEF KeysInv
<1>1. t \in tenants /\ t \in Tenants /\ t # NoTenant
    BY LinkedTenant, AccountsAssumption
<1>2. /\ tokens[r].apiKey \in Nat
      /\ tokens[r].apiKey <= keyCount
      /\ tokens[r].apiKey # 0 => tokens[r].apiKey \in KeyIds
    <2>1. tokens[r].apiKey \in Nat /\ tokens[r].apiKey <= keyCount
        BY <1>0 DEF RowsTypeOK, TokenType, KeysInv, LinksOwned
    <2> QED
        BY <1>0, <2>1, AccountsAssumption DEF RowsTypeOK, KeyIds
\* The only key that may be shown is the tenant's, and was not shown.
<1>3. \A k \in KeysOf(r) : k \in KeyIds /\ k <= keyCount /\ apiKeys[k].tenant = t /\ shown[k] = 0
    BY <1>0, <1>2 DEF KeysOf, KeysInv, LinksOwned, Unseen
<1>4. /\ shown' \in [KeyIds -> Nat]
      /\ \A k \in KeyIds : /\ k \in KeysOf(r) => shown'[k] = 1
                           /\ k \notin KeysOf(r) => shown'[k] = shown[k]
      /\ held \subseteq held' /\ held' \subseteq KeyIds
      /\ accidents \subseteq accidents'
      /\ answered => held' = held \cup KeysOf(r)
      /\ ~answered => t \in accidents'
    BY <1>0, <1>3 DEF Answers, RowsTypeOK
<1>5. /\ shownFile' \in [Robots -> Nat]
      /\ \A q \in Robots : q # r => shownFile'[q] = shownFile[q]
      /\ shownFile'[r] <= 1
    BY <1>0 DEF RowsTypeOK, KeysInv, Unseen, AtMostOnce
<1>6. RowsTypeOK'
    BY <1>0, <1>4, <1>5 DEF RowsTypeOK
<1>7. KeysOwned'
    <2> SUFFICES ASSUME NEW k \in KeyIds
                 PROVE  /\ k <= keyCount => apiKeys[k].tenant \in tenants
                        /\ k > keyCount => apiKeys[k] = NoKey /\ shown'[k] = 0
        BY DEF KeysOwned
    <2>1. k \in Nat /\ keyCount \in Nat
        BY <1>0 DEF RowsTypeOK, KeyIds
    <2> QED
        BY <1>3, <1>4, <2>1 DEF KeysInv, KeysOwned
<1>8. LinksOwned'
    <2>1. \A q \in Robots : tokens'[q].apiKey = tokens[q].apiKey
        OBVIOUS
    <2>2. \A q \in Robots : q # r => shownFile'[q] = shownFile[q] /\ tokens'[q] = tokens[q]
        BY <1>5
    <2> QED
        BY <1>1, <2>1, <2>2 DEF KeysInv, LinksOwned
<1>9. OneLiveKey'
    BY DEF KeysInv, OneLiveKey, Valid
<1>10. GetsIn'
    <2> SUFFICES ASSUME NEW u \in tenants, u \notin accidents'
                 PROVE  /\ \E k \in KeyIds : Valid(k, u)'
                        /\ \A k \in KeyIds :
                            apiKeys[k].tenant = u /\ (shown'[k] > 0 \/ apiKeys[k].revoked) =>
                                Authenticated(u)'
        BY DEF GetsIn
    <2>1. u \notin accidents /\ \E k \in KeyIds : Valid(k, u)
        BY <1>4 DEF KeysInv, GetsIn
    <2>2. Authenticated(u) => Authenticated(u)'
        BY <1>4 DEF Authenticated, Valid
    <2>3. \E k \in KeyIds : Valid(k, u)'
        BY <2>1 DEF Valid
    <2>4. ASSUME NEW k \in KeyIds, apiKeys[k].tenant = u, shown'[k] > 0 \/ apiKeys[k].revoked
          PROVE  Authenticated(u)'
        <3>1. CASE shown[k] > 0 \/ apiKeys[k].revoked
            BY <2>1, <2>2, <2>4, <3>1 DEF KeysInv, GetsIn
        <3>2. CASE k \in KeysOf(r) /\ ~apiKeys[k].revoked
            <4>1. u = t /\ answered
                BY <1>3, <1>4, <2>4, <3>2
            <4>2. k \in held' /\ Valid(k, u)'
                BY <1>4, <2>4, <3>2, <4>1 DEF Valid
            <4> QED
                BY <4>2 DEF Authenticated, Valid
        <3> QED
            BY <1>4, <2>4, <3>1, <3>2
    <2> QED
        BY <2>3, <2>4
<1>11. Unseen'
    <2> SUFFICES ASSUME NEW q \in Robots
                 PROVE  /\ tokens'[q].apiKey # 0 /\ ~tokens'[q].downloaded =>
                                shown'[tokens'[q].apiKey] = 0
                        /\ tokens'[q].secrets => shownFile'[q] = 0
        BY DEF Unseen
    <2>1. CASE q = r
        BY <2>1 DEF KeysInv, Unseen
    <2>2. CASE q # r
        <3>1. tokens[q].apiKey # 0 => tokens[q].apiKey \notin KeysOf(r)
            BY <2>2 DEF KeysInv, LinksOwned, KeysOf
        <3>2. tokens[q].apiKey # 0 => tokens[q].apiKey \in KeyIds
            <4>1. tokens[q].apiKey \in Nat /\ tokens[q].apiKey <= keyCount /\ keyCount \in 0..MaxKeys
                BY <1>0 DEF RowsTypeOK, TokenType, KeysInv, LinksOwned
            <4> QED
                BY <4>1, AccountsAssumption DEF KeyIds
        <3> QED
            BY <1>4, <1>5, <2>2, <3>1, <3>2 DEF KeysInv, Unseen
    <2> QED
        BY <2>1, <2>2
<1>12. AtMostOnce'
    BY <1>4, <1>5 DEF KeysInv, AtMostOnce
<1> QED
    BY <1>6, <1>7, <1>8, <1>9, <1>10, <1>11, <1>12 DEF KeysInv

LEMMA ViewPageKeeps ==
    ASSUME KeysInv, NEW r \in Robots, NEW answered \in BOOLEAN, ViewPage(r, answered)
    PROVE  KeysInv'
<1>1. tokens \in [Robots -> TokenType]
    BY DEF KeysInv, RowsTypeOK
<1>2. /\ tokens' \in [Robots -> TokenType]
      /\ tokens'[r].apiKey = tokens[r].apiKey
      /\ tokens'[r].downloaded
      /\ tokens'[r].secrets = tokens[r].secrets
      /\ \A q \in Robots : q # r => tokens'[q] = tokens[q]
    BY <1>1 DEF ViewPage, FirstVisit, Viewed, TokenType
<1>3. /\ tokens[r].exists /\ ~tokens[r].downloaded
      /\ UNCHANGED <<now, tenants, keyCount, apiKeys, robots, shownFile>>
      /\ Answers(robots[r].tenant, KeysOf(r), answered)
    BY DEF ViewPage, FirstVisit, PageKeys, LinkWorks
<1> QED
    BY <1>2, <1>3, LinkUsedKeeps

LEMMA DownloadKeeps ==
    ASSUME KeysInv, NEW r \in Robots, NEW answered \in BOOLEAN, DownloadSecrets(r, answered)
    PROVE  KeysInv'
<1>1. tokens \in [Robots -> TokenType]
    BY DEF KeysInv, RowsTypeOK
<1>2. /\ tokens' \in [Robots -> TokenType]
      /\ tokens'[r].apiKey = tokens[r].apiKey
      /\ tokens'[r].downloaded
      /\ ~tokens'[r].secrets
      /\ \A q \in Robots : q # r => tokens'[q] = tokens[q]
    BY <1>1 DEF DownloadSecrets, Downloaded, TokenType
<1>3. /\ tokens[r].exists /\ ~tokens[r].downloaded /\ tokens[r].secrets
      /\ UNCHANGED <<now, tenants, keyCount, apiKeys, robots>>
      /\ \/ UNCHANGED shownFile
         \/ shownFile' = [shownFile EXCEPT ![r] = @ + 1]
      /\ Answers(robots[r].tenant, KeysOf(r), answered)
    BY DEF DownloadSecrets, LinkWorks
<1> QED
    BY <1>2, <1>3, LinkUsedKeeps

\* A rotation retires every key of the tenant, and only a rotation that was answered leaves
\* it without an accident.
LEMMA RotateKeeps ==
    ASSUME KeysInv, NEW r \in Robots, NEW done \in 0..2, NEW answered \in BOOLEAN,
           Rotate(r, done, answered)
    PROVE  KeysInv'
<1>0. RowsTypeOK /\ UNCHANGED <<now, tenants, robots, tokens, shownFile>>
    BY DEF KeysInv, Rotate
<1>1. PICK t \in Tenants : t = robots[r].tenant /\ t \in tenants /\ t # NoTenant
    BY LinkedTenant, AccountsAssumption DEF Rotate
<1>2. keyCount \in 0..MaxKeys /\ keyCount < MaxKeys /\ apiKeys \in [KeyIds -> KeyType]
    BY <1>0 DEF RowsTypeOK, Rotate
<1>3. /\ Revoked(apiKeys, t) \in [KeyIds -> KeyType]
      /\ \A k \in KeyIds :
            /\ Revoked(apiKeys, t)[k].tenant = apiKeys[k].tenant
            /\ apiKeys[k].tenant = t => Revoked(apiKeys, t)[k].revoked
            /\ apiKeys[k].tenant # t => Revoked(apiKeys, t)[k] = apiKeys[k]
    BY <1>1, <1>2, RevokedIs
<1>4. PICK keys \in [KeyIds -> KeyType] : keys = Revoked(apiKeys, t)
    BY <1>3
<1>5. /\ keyCount + 1 \in KeyIds
      /\ WithNewKey(keys, t) \in [KeyIds -> KeyType]
      /\ WithNewKey(keys, t)[keyCount + 1] = [tenant |-> t, revoked |-> FALSE]
      /\ \A k \in KeyIds : k # keyCount + 1 => WithNewKey(keys, t)[k] = keys[k]
    BY <1>1, <1>2, NewKeyIs
\* The new key had no tenant, and was not shown.
<1>6. apiKeys[keyCount + 1] = NoKey /\ shown[keyCount + 1] = 0 /\ keyCount + 1 \in Nat
    BY <1>2, <1>5 DEF KeysInv, KeysOwned
<1>7. /\ accidents \subseteq accidents'
      /\ ~answered => t \in accidents'
      /\ held \subseteq held'
      /\ UNCHANGED tenants
    BY <1>1 DEF Rotate, Answers
\* A request that was cut, or could not even begin.
<1>8. ASSUME apiKeys' = apiKeys \/ apiKeys' = keys, keyCount' = keyCount,
             UNCHANGED <<shown, held>>, t \in accidents'
      PROVE  KeysInv'
    <2>0. /\ apiKeys' \in [KeyIds -> KeyType]
          /\ \A k \in KeyIds : /\ apiKeys'[k].tenant = apiKeys[k].tenant
                               /\ apiKeys[k].tenant # t => apiKeys'[k] = apiKeys[k]
                               /\ apiKeys[k].revoked => apiKeys'[k].revoked
        BY <1>2, <1>3, <1>4, <1>8
    <2>1. RowsTypeOK'
        BY <1>0, <1>8, <2>0 DEF RowsTypeOK
    <2>2. KeysOwned'
        BY <1>0, <1>1, <1>8, <2>0 DEF KeysInv, KeysOwned, NoKey
    <2>3. LinksOwned'
        <3>1. \A q \in Robots : tokens[q].apiKey # 0 => tokens[q].apiKey \in KeyIds
            <4>1. \A q \in Robots : tokens[q].apiKey \in Nat /\ tokens[q].apiKey <= keyCount
                BY <1>0 DEF RowsTypeOK, TokenType, KeysInv, LinksOwned
            <4> QED
                BY <1>2, <4>1, AccountsAssumption DEF KeyIds
        <3> QED
            BY <1>0, <1>8, <2>0, <3>1 DEF KeysInv, LinksOwned
    <2>4. OneLiveKey'
        BY <2>0 DEF KeysInv, OneLiveKey, Valid
    <2>5. GetsIn'
        <3> SUFFICES ASSUME NEW u \in tenants, u \notin accidents'
                     PROVE  /\ \E k \in KeyIds : Valid(k, u)'
                            /\ (\E k \in KeyIds : /\ apiKeys'[k].tenant = u
                                                  /\ shown'[k] > 0 \/ apiKeys'[k].revoked) =>
                                    Authenticated(u)'
            BY <1>0 DEF GetsIn
        <3>1. u # t /\ u \notin accidents
            BY <1>7, <1>8
        <3>2. \A k \in KeyIds : apiKeys[k].tenant = u => apiKeys'[k] = apiKeys[k]
            BY <2>0, <3>1
        <3>3. held \subseteq KeyIds
            BY <1>0 DEF RowsTypeOK
        <3> QED
            BY <1>8, <2>0, <3>1, <3>2, <3>3 DEF KeysInv, GetsIn, Authenticated, Valid
    <2>6. Unseen' /\ AtMostOnce'
        BY <1>0, <1>8 DEF KeysInv, Unseen, AtMostOnce
    <2> QED
        BY <2>1, <2>2, <2>3, <2>4, <2>5, <2>6 DEF KeysInv
\* Both statements ran.
<1>9. ASSUME apiKeys' = WithNewKey(keys, t), keyCount' = keyCount + 1,
             Answers(t, {keyCount + 1}, answered)
      PROVE  KeysInv'
    <2>1. /\ apiKeys' \in [KeyIds -> KeyType]
          /\ apiKeys'[keyCount + 1] = [tenant |-> t, revoked |-> FALSE]
          /\ \A k \in KeyIds : k # keyCount + 1 =>
                /\ apiKeys'[k].tenant = apiKeys[k].tenant
                /\ apiKeys[k].tenant = t => apiKeys'[k].revoked
                /\ apiKeys[k].tenant # t => apiKeys'[k] = apiKeys[k]
        BY <1>3, <1>4, <1>5, <1>9
    <2>2. /\ shown' \in [KeyIds -> Nat]
          /\ shown'[keyCount + 1] = 1
          /\ \A k \in KeyIds : k # keyCount + 1 => shown'[k] = shown[k]
          /\ held' \subseteq KeyIds
          /\ answered => keyCount + 1 \in held'
        BY <1>0, <1>5, <1>6, <1>9 DEF Answers, RowsTypeOK
    <2>3. RowsTypeOK'
        BY <1>0, <1>2, <1>9, <2>1, <2>2, AccountsAssumption DEF RowsTypeOK
    <2>4. KeysOwned'
        <3> SUFFICES ASSUME NEW k \in KeyIds
                     PROVE  /\ k <= keyCount' => apiKeys'[k].tenant \in tenants
                            /\ k > keyCount' => apiKeys'[k] = NoKey /\ shown'[k] = 0
            BY <1>0 DEF KeysOwned
        <3>1. k \in Nat
            BY DEF KeyIds
        <3>2. CASE k = keyCount + 1
            BY <1>1, <1>2, <1>9, <2>1, <3>2
        <3>3. CASE k < keyCount + 1
            BY <1>2, <1>9, <2>1, <3>1, <3>3 DEF KeysInv, KeysOwned
        <3>4. CASE k > keyCount + 1
            <4>1. apiKeys[k] = NoKey /\ shown[k] = 0 /\ k # keyCount + 1
                BY <1>2, <3>1, <3>4 DEF KeysInv, KeysOwned
            <4>2. apiKeys'[k] = NoKey /\ shown'[k] = 0
                BY <1>1, <2>1, <2>2, <4>1 DEF NoKey
            <4> QED
                BY <1>2, <1>9, <3>1, <3>4, <4>2
        <3> QED
            BY <1>2, <3>1, <3>2, <3>3, <3>4
    <2>5. \A q \in Robots : /\ tokens[q].apiKey \in Nat
                            /\ tokens[q].apiKey <= keyCount
                            /\ tokens[q].apiKey # keyCount + 1
                            /\ tokens[q].apiKey # 0 => tokens[q].apiKey \in KeyIds
        <3>1. \A q \in Robots : tokens[q].apiKey \in Nat /\ tokens[q].apiKey <= keyCount
            BY <1>0 DEF RowsTypeOK, TokenType, KeysInv, LinksOwned
        <3> QED
            BY <1>2, <3>1, AccountsAssumption DEF KeyIds
    <2>6. LinksOwned'
        <3>1. \A q \in Robots :
                /\ tokens[q].apiKey <= keyCount'
                /\ tokens[q].apiKey # 0 => apiKeys'[tokens[q].apiKey].tenant = robots[q].tenant
            BY <1>2, <1>9, <2>1, <2>5 DEF KeysInv, LinksOwned
        <3> QED
            BY <1>0, <3>1 DEF KeysInv, LinksOwned
    <2>7. OneLiveKey'
        <3>1. \A k \in KeyIds : Valid(k, t)' => k = keyCount + 1
            BY <2>1 DEF Valid
        <3>2. \A u \in Tenants : \A k \in KeyIds : u # t /\ Valid(k, u)' => Valid(k, u)
            BY <2>1 DEF Valid
        <3> QED
            BY <3>1, <3>2 DEF KeysInv, OneLiveKey
    <2>8. GetsIn'
        <3> SUFFICES ASSUME NEW u \in tenants, u \notin accidents'
                     PROVE  /\ \E k \in KeyIds : Valid(k, u)'
                            /\ (\E k \in KeyIds : /\ apiKeys'[k].tenant = u
                                                  /\ shown'[k] > 0 \/ apiKeys'[k].revoked) =>
                                    Authenticated(u)'
            BY <1>0 DEF GetsIn
        <3>1. CASE u = t
            <4>1. answered
                BY <1>7, <3>1
            <4>2. \E k \in held' : k \in KeyIds /\ Valid(k, u)'
                BY <1>5, <2>1, <2>2, <3>1, <4>1 DEF Valid
            <4> QED
                BY <4>2 DEF Authenticated, Valid
        <3>2. CASE u # t
            <4>1. u \notin accidents /\ u # NoTenant
                BY <1>0, <1>7, AccountsAssumption DEF RowsTypeOK
            <4>2. \A k \in KeyIds : apiKeys[k].tenant = u =>
                    k # keyCount + 1 /\ apiKeys'[k] = apiKeys[k]
                BY <1>6, <2>1, <3>2, <4>1 DEF NoKey
            <4>3. \A k \in KeyIds : apiKeys'[k].tenant = u =>
                    apiKeys'[k] = apiKeys[k] /\ shown'[k] = shown[k]
                BY <2>1, <2>2, <3>2
            <4>4. held \subseteq KeyIds
                BY <1>0 DEF RowsTypeOK
            <4> QED
                BY <1>7, <4>1, <4>2, <4>3, <4>4 DEF KeysInv, GetsIn, Authenticated, Valid
        <3> QED
            BY <3>1, <3>2
    <2>9. Unseen' /\ AtMostOnce'
        BY <1>0, <2>2, <2>5 DEF KeysInv, Unseen, AtMostOnce
    <2> QED
        BY <2>3, <2>4, <2>6, <2>7, <2>8, <2>9 DEF KeysInv
<1>10. CASE done = 2
    <2>1. /\ apiKeys' = WithNewKey(keys, t) /\ keyCount' = keyCount + 1
          /\ Answers(t, {keyCount + 1}, answered)
        BY <1>1, <1>4, <1>10 DEF Rotate, KeysRotated
    <2> QED
        BY <1>9, <2>1
<1>11. CASE done # 2
    <2>1. /\ apiKeys' = apiKeys \/ apiKeys' = keys
          /\ keyCount' = keyCount
          /\ Answers(t, {}, answered)
          /\ ~answered
        BY <1>1, <1>4, <1>11 DEF Rotate, KeysRotated
    <2>2. UNCHANGED <<shown, held>> /\ t \in accidents'
        BY <2>1, AnswersNothing
    <2> QED
        BY <1>8, <2>1, <2>2
<1> QED
    BY <1>10, <1>11

\* What a registration, a restart or the clock does to the tables.
LEMMA OtherStepsKeep ==
    ASSUME KeysInv, UNCHANGED <<tenants, keyCount, apiKeys, shown, held, shownFile, accidents>>,
           now' \in Nat,
           robots' \in [Robots ->
            [tenant : Tenants \cup {NoTenant}, status : {"none", "pending", "registered"}]],
           tokens' \in [Robots -> TokenType],
           \A r \in Robots : robots'[r].tenant = robots[r].tenant,
           \A r \in Robots : tokens'[r] = tokens[r] \/ tokens'[r] = NoToken
    PROVE  KeysInv'
<1>1. RowsTypeOK'
    BY DEF KeysInv, RowsTypeOK
<1>2. KeysOwned' /\ OneLiveKey' /\ GetsIn'
    BY SameKeysKeep
<1>3. LinksOwned'
    <2>1. keyCount \in Nat
        BY DEF KeysInv, RowsTypeOK
    <2>2. NoToken.apiKey = 0
        BY DEF NoToken
    <2>3. ASSUME NEW r \in Robots
          PROVE  /\ robots'[r].tenant \in tenants \cup {NoTenant}
                 /\ robots'[r].tenant = NoTenant => tokens'[r] = NoToken /\ shownFile[r] = 0
                 /\ tokens'[r].apiKey <= keyCount
                 /\ tokens'[r].apiKey # 0 => apiKeys[tokens'[r].apiKey].tenant = robots'[r].tenant
        BY <2>1, <2>2 DEF KeysInv, LinksOwned
    <2>4. ASSUME NEW r \in Robots, NEW q \in Robots,
                 tokens'[r].apiKey = tokens'[q].apiKey, tokens'[r].apiKey # 0
          PROVE  r = q
        BY <2>2, <2>4 DEF KeysInv, LinksOwned
    <2> QED
        BY <2>3, <2>4 DEF LinksOwned
<1>4. Unseen' /\ AtMostOnce'
    BY DEF KeysInv, Unseen, AtMostOnce, NoToken
<1> QED
    BY <1>1, <1>2, <1>3, <1>4 DEF KeysInv

LEMMA KeysStepKeeps == KeysInv /\ [AccountsNext]_accountVars => KeysInv'
<1> SUFFICES ASSUME KeysInv, [AccountsNext]_accountVars
             PROVE  KeysInv'
    OBVIOUS
<1>0. /\ now \in Nat
      /\ robots \in [Robots ->
            [tenant : Tenants \cup {NoTenant}, status : {"none", "pending", "registered"}]]
      /\ tokens \in [Robots -> TokenType]
    BY DEF KeysInv, RowsTypeOK
<1>1. ASSUME NEW r \in Robots, LinkStep(r)
      PROVE  KeysInv'
    BY <1>1, ViewPageKeeps, DownloadKeeps, RotateKeeps DEF LinkStep
<1>2. ASSUME NEW t \in Tenants, NEW r \in Robots, TenantStep(t, r)
      PROVE  KeysInv'
    BY <1>2, OnboardKeeps, AddRobotKeeps DEF TenantStep
<1>3. ASSUME UNCHANGED <<tenants, keyCount, apiKeys, shown, held, shownFile, accidents, tokens>>,
             now' \in Nat,
             robots' = robots \/ \E r \in Robots \cup {NoTenant} : Registered(r)
      PROVE  KeysInv'
    <2>1. /\ robots' \in [Robots ->
                [tenant : Tenants \cup {NoTenant}, status : {"none", "pending", "registered"}]]
          /\ \A r \in Robots : robots'[r].tenant = robots[r].tenant
        BY <1>0, <1>3 DEF Registered
    <2> QED
        BY <1>0, <1>3, <2>1, OtherStepsKeep
<1>4. ASSUME NEW c \in Calls, CallStep(c)
      PROVE  KeysInv'
    <2>1. /\ UNCHANGED <<now, tenants, keyCount, apiKeys, shown, held, shownFile, accidents, tokens>>
          /\ robots' = robots \/ Registered(calls[c].robot)
        BY <1>4 DEF CallStep, StartRegister, ReadController, SendRegister, FinishRegister,
            FailRegister, dbVars, seenVars
    <2>2. Registered(calls[c].robot) => robots' = robots \/ \E r \in Robots : Registered(r)
        BY <1>0 DEF Registered
    <2> QED
        BY <1>0, <1>3, <2>1, <2>2
<1>5. CASE Restart
    <2>1. /\ tokens' \in [Robots -> TokenType]
          /\ \A r \in Robots : tokens'[r] = tokens[r] \/ tokens'[r] = NoToken
        BY <1>0, <1>5 DEF Restart, Purged, TokenType, NoToken
    <2>2. UNCHANGED <<now, tenants, keyCount, apiKeys, robots, shown, held, shownFile, accidents>>
        BY <1>5 DEF Restart, seenVars
    <2> QED
        BY <1>0, <2>1, <2>2, OtherStepsKeep
<1>6. ASSUME NEW p \in pending, Mine(p[1], p[2])
      PROVE  KeysInv'
    BY <1>0, <1>3, <1>6 DEF Mine, dbVars, seenVars
<1>7. CASE Tick \/ Crash \/ UNCHANGED accountVars
    BY <1>0, <1>3, <1>7 DEF Tick, Crash, accountVars, dbVars, seenVars
<1> QED
    BY <1>1, <1>2, <1>4, <1>5, <1>6, <1>7 DEF AccountsNext, Serve

-------------------------------------------------------------------------------
(* What holds of keys and secrets *)

LEMMA KeysAlways == AccountsSpec => []KeysInv
BY KeysInitInv, KeysStepKeeps, PTL DEF AccountsSpec

\* An onboarding that went through left a robot.
HasRobot == \A t \in tenants : t \notin accidents => \E r \in Robots : robots[r].tenant = t

LEMMA HasRobotStep == KeysInv /\ HasRobot /\ [AccountsNext]_accountVars => HasRobot'
<1> SUFFICES ASSUME KeysInv, HasRobot, [AccountsNext]_accountVars,
                    NEW t \in tenants', t \notin accidents'
             PROVE  \E own \in Robots : robots'[own].tenant = t
    BY DEF HasRobot
<1>1. /\ robots \in [Robots ->
            [tenant : Tenants \cup {NoTenant}, status : {"none", "pending", "registered"}]]
      /\ tenants \subseteq Tenants
    BY DEF KeysInv, RowsTypeOK
<1>2. ASSUME tenants' = tenants, accidents \subseteq accidents',
             \A r \in Robots : robots[r] # NoRobot => robots'[r].tenant = robots[r].tenant
      PROVE  \E own \in Robots : robots'[own].tenant = t
    <2>1. PICK r \in Robots : robots[r].tenant = t
        BY <1>2 DEF HasRobot
    <2>2. robots[r] # NoRobot
        BY <1>1, <1>2, <2>1, AccountsAssumption DEF NoRobot
    <2> QED
        BY <1>2, <2>1, <2>2
<1>3. \A r : Registered(r) => \A q \in Robots : robots'[q].tenant = robots[q].tenant
    BY <1>1 DEF Registered
<1>4. ASSUME NEW r \in Robots, LinkStep(r)
      PROVE  \E own \in Robots : robots'[own].tenant = t
    BY <1>2, <1>4 DEF LinkStep, ViewPage, DownloadSecrets, Rotate, Answers
<1>5. ASSUME NEW u \in Tenants, NEW r \in Robots, TenantStep(u, r)
      PROVE  \E own \in Robots : robots'[own].tenant = t
    <2>1. ASSUME NEW answered \in BOOLEAN, NEW done \in 0..4, Onboard(u, r, done, answered)
          PROVE  \E own \in Robots : robots'[own].tenant = t
        <3>1. CASE t = u
            <4>1. robots' = WithRobot(u, r)
                BY <2>1, <3>1 DEF Onboard, Answers
            <4> QED
                BY <1>1, <3>1, <4>1 DEF WithRobot
        <3>2. CASE t # u
            <4>1. t \in tenants /\ t \notin accidents
                BY <2>1, <3>2 DEF Onboard, Answers, CreateTenant
            <4>2. PICK q \in Robots : robots[q].tenant = t
                BY <4>1 DEF HasRobot
            <4>3. q # r
                BY <1>1, <2>1, <4>1, <4>2, AccountsAssumption DEF Onboard, NoRobot
            <4>4. robots'[q] = robots[q]
                BY <1>1, <2>1, <4>3 DEF Onboard, WithRobot
            <4> QED
                BY <4>2, <4>4
        <3> QED
            BY <3>1, <3>2
    <2>2. ASSUME NEW answered \in BOOLEAN, NEW done \in 0..2, AddRobot(u, r, done, answered)
          PROVE  \E own \in Robots : robots'[own].tenant = t
        <3>1. \A q \in Robots : robots[q] # NoRobot => robots'[q] = robots[q]
            BY <1>1, <2>2 DEF AddRobot, WithRobot
        <3> QED
            BY <1>2, <2>2, <3>1 DEF AddRobot, Answers
    <2> QED
        BY <1>5, <2>1, <2>2 DEF TenantStep
<1>6. ASSUME NEW c \in Calls, CallStep(c)
      PROVE  \E own \in Robots : robots'[own].tenant = t
    <2>1. UNCHANGED <<tenants, accidents>> /\ (robots' = robots \/ Registered(calls[c].robot))
        BY <1>6 DEF CallStep, StartRegister, ReadController, SendRegister, FinishRegister,
            FailRegister, dbVars, seenVars
    <2> QED
        BY <1>2, <1>3, <2>1
<1>7. CASE Restart \/ Tick \/ Crash \/ UNCHANGED accountVars \/ \E p \in pending : Mine(p[1], p[2])
    <2>1. UNCHANGED <<tenants, accidents, robots>>
        BY <1>7 DEF Restart, Tick, Crash, Mine, accountVars, dbVars, seenVars
    <2> QED
        BY <1>2, <2>1
<1> QED
    BY <1>4, <1>5, <1>6, <1>7 DEF AccountsNext, Serve

LEMMA HasRobotAlways == AccountsSpec => []HasRobot
<1>1. AccountsInit => HasRobot
    BY DEF AccountsInit, HasRobot
<1> QED
    BY <1>1, HasRobotStep, KeysAlways, PTL DEF AccountsSpec

\* A tenant has one key that works, never two, and one that was shown a key gets in with it,
\* and has a robot, for any number of tenants, robots and keys and a crash between any two
\* statements (auth.ts 192-216, 266-355; connect.ts 24-81, 142-170).
THEOREM OneKeyWorks == AccountsSpec => []OneWorkingKey
<1>1. ASSUME KeysInv, NEW t \in tenants
      PROVE  Cardinality(LiveKeys(t)) <= 1
    <2>1. t \in Tenants
        BY <1>1 DEF KeysInv, RowsTypeOK
    <2>2. CASE LiveKeys(t) = {}
        BY <2>2, FS_EmptySet
    <2>3. ASSUME NEW k \in LiveKeys(t)
          PROVE  Cardinality(LiveKeys(t)) <= 1
        <3>1. LiveKeys(t) = {k}
            BY <1>1, <2>1, <2>3 DEF LiveKeys, KeysInv, OneLiveKey
        <3> QED
            BY <3>1, FS_Singleton
    <2> QED
        BY <2>2, <2>3
<1>2. KeysInv /\ HasRobot => OneWorkingKey
    <2> SUFFICES ASSUME KeysInv, HasRobot, NEW t \in tenants, t \notin accidents
                 PROVE  /\ LiveKeys(t) # {}
                        /\ (\E k \in KeyIds : apiKeys[k].tenant = t /\ shown[k] > 0) =>
                                \E k \in held :
                                    /\ Valid(k, t)
                                    /\ \E l \in RobotList(RequestTenant("/v1/robots", k)) :
                                            l.robotId \in Configured
        BY <1>1 DEF OneWorkingKey
    <2>1. /\ LiveKeys(t) # {}
          /\ (\E k \in KeyIds : apiKeys[k].tenant = t /\ shown[k] > 0) => Authenticated(t)
        BY DEF KeysInv, GetsIn, LiveKeys
    <2>2. ASSUME NEW k \in held, Valid(k, t)
          PROVE  \E l \in RobotList(RequestTenant("/v1/robots", k)) : l.robotId \in Configured
        <3>1. RequestTenant("/v1/robots", k) = t
            BY <2>2 DEF Valid, RequestTenant, PublicReads
        <3>2. PICK r \in Robots : robots[r].tenant = t
            BY DEF HasRobot
        <3>3. r \in Configured
            BY <3>2, AccountsAssumption DEF Configured, NoRobot, KeysInv, RowsTypeOK
        <3>4. [robotId |-> r, status |-> robots[r].status] \in RobotList(t)
            BY <3>2 DEF RobotList
        <3> QED
            BY <3>1, <3>3, <3>4
    <2> QED
        BY <2>1, <2>2 DEF Authenticated
<1> QED
    BY <1>2, KeysAlways, HasRobotAlways, PTL

\* No API key and no controller key leaves in two answers, and a controller key that left is
\* not in the database; what a page shows or offers did not leave before (connect.ts 52-64,
\* 104-124, 177-409).
THEOREM SecretsLeaveOnce == AccountsSpec => []SecretsShownOnce
<1>1. KeysInv => SecretsShownOnce
    BY DEF KeysInv, AtMostOnce, Unseen, SecretsShownOnce, PageKeys, OffersKeyFile, FirstVisit,
           KeysOf
<1> QED
    BY <1>1, KeysAlways, PTL

================================================================================
