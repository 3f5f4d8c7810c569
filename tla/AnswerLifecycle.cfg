SPECIFICATION FairSpec
CONSTANTS
    None = None
    Guest = Guest
    Projects = {p1}
    Surveys = {s1}
    AnswerIds = {a1, a2}
    Contents = {x}
    Users = {}
    Partners = {}
    Admins = {op}
    Clients = {c1}
    Browsers = {c1}
    Uids = {}
    MaxBatch = 2
    MaxImport = 2
    Routes = {"answer/update", "answer/delete", "answer/restore", "answer/destroy", "answer/upload", "project/create", "project/update", "project/delete", "project/restore", "project/destroy"}
INVARIANTS
    TypeOK
    SnapshotWasPublished
    NoPileUp
PROPERTIES
    RowsKeepIdentity
    TrashIsFrozen
    ClosedSurveyDrains
