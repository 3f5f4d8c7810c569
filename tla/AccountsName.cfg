SPECIFICATION Spec
CONSTANTS
    None = None
    Reqs = {q1, q2}
    Uids = {seed, u1, u2}
    Names = {n1, n2}
    Secrets = {s1}
    Roles = {admin}
    SeedUid = seed
    SeedName = n1
    SeedSecret = s1
    SeedRole = admin
SYMMETRY Symmetry
PROPERTIES
    RegisteredNameWasFree
