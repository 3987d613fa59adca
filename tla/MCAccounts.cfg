SPECIFICATION MCSpec
CONSTANTS
    Tenants = {t1, t2}
    Robots = {r1, r2}
    Calls = {c1}
    NoTenant = none
    Gone = gone
    StrictProof = TRUE
    TokenTTL = 0
    MaxKeys = 3
    MaxTime = 1
SYMMETRY Alike
INVARIANTS
    OneWorkingKey
    SecretsShownOnce
    RegisteredIsOnChain
CHECK_DEADLOCK FALSE
