SPECIFICATION Spec
CONSTANTS
    None = None
    Guest = Guest
    Projects = {p1}
    Surveys = {s1}
    AnswerIds = {a1, a2}
    Contents = {x, y}
    Users = {}
    Partners = {}
    Admins = {op}
    Clients = {c1}
    Browsers = {c1}
    Uids = {}
    MaxBatch = 2
    MaxImport = 2
    Routes = {"answer/upload"}
SYMMETRY Symmetry
INVARIANTS
    FailedUploadAppliesNothing
