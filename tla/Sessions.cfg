SPECIFICATION FairSpec
CONSTANTS
    None = None
    Clients = {c1, c2}
    Uids = {seed, u1}
    Roles = {r1}
    TTL = 1
    SeedUid = seed
    SeedRole = r1
INVARIANTS
    TypeOK
    StaleAuthorityIsBounded
PROPERTIES
    AuthorityNeedsAuthority
    DeletedRolesAreFrozen
    RevocationBites
