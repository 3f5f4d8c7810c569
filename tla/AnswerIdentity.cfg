SPECIFICATION Spec
CONSTANTS
    None = None
    Guest = Guest
    Projects = {p1, p2}
    Surveys = {}
    AnswerIds = {a1}
    Contents = {x}
    Users = {op}
    Partners = {q1}
    Admins = {op}
    Clients = {c1, c2}
    Browsers = {c1}
    Uids = {t1}
    MaxBatch = 1
    MaxImport = 1
    Routes = {"project/create", "partner/create", "partner/delete", "answer/create", "answer/update"}
INVARIANTS
    LastWriterOwnsRow
    HeldIdNamesRow
PROPERTIES
    EditorWasIssued
