SPECIFICATION FairSpec
CONSTANTS
    None = None
    Reqs = {q1, q2}
    Uids = {seed, u1}
    Names = {n1}
    Secrets = {s1}
    Roles = {admin}
    SeedUid = seed
    SeedName = n1
    SeedSecret = s1
    SeedRole = admin
INVARIANTS
    TypeOK
    Paired
    NoLockCycle
PROPERTIES
    EditsAreAtomic
    RequestsEnd
