# Qoo.IM: a verification project in TLA+

Qoo.IM is a survey and exam server: one Go process (gin, PostgreSQL through
sqlc, files on local disk) that serves a REST API and the API of the SurveyKing
("SK") single-page application. Every HTTP request runs in a goroutine of its
own. Apart from user administration and dictionary deletion no handler opens a
transaction: a request is a sequence of single autocommitted SQL statements and
system calls, and requests interleave between any two of them. The parts that carry state between requests are the tables, the
upload directory, the rate limiter's map and the tokens clients hold.

## Inventory

| part | source | state | operations | hard because |
|---|---|---|---|---|
| answers | `service/answers.go`, `api/sk_public.go`, `api/survey.go`, `api/sk_answers_admin.go` | `t_answer`; the answerId a client holds | save (REST, SK, operator), resume, edit, trash, restore, purge, xlsx upload | read-then-write without a transaction, stale resume ids, lost responses |
| projects | `service/projects.go`, `api/sk_compat.go`, `api/sk_c5.go` | `t_project` | create, update (publish), trash, restore, purge | decide at one moment what answers may be written later |
| public surveys, partners | `service/survey.go`, `api/sk_extras.go` | `t_project_partner` | look up a survey or a token; issue and withdraw partners | uids are not unique, rows vanish between lookup and use |
| rate limiter | `api/middleware_security.go` | map IP -> (tokens, last) | `Allow` | lazy refill, reaping, a limit on the map |
| files, storage | `service/files.go`, `storage/storage.go`, `api/files.go`, `api/sk_admin.go` | `t_file`, objects on disk | upload, read, delete | two stores and no transaction across them, crashes |
| user administration | `service/system.go`, `api/sk_system.go`, `api/sk_c5.go` | `t_user`, `t_account`, `t_user_role` | register; create, update, delete users | lookups before the transaction, row locks on three tables, check-then-insert of names |
| sessions, roles | `service/auth.go`, `auth/*`, `service/system.go` | `t_role`, `t_user_role`; JWTs | login, logout, admission, role edits | roles are signed into a token and not looked up again; edits race the logins and each other |
| reports, export | `service/report.go` | none of its own | paged export, aggregates, xlsx import | LIMIT/OFFSET pages over a changing table |
| question banks, templates, dictionaries | `service/repos.go`, `service/templates.go`, `api/sk_c5.go`, `api/sk_system.go` | `t_repo`, `t_template`, `t_repo_partner`, `t_user_book`, `t_comm_dict(_item)` | CRUD, bulk create, import, unbind | bulk routes that stop half way, a load and a write without a lock, one cascade in a transaction |
| departments, positions | `service/system.go`, `api/sk_system.go` | `t_dept`, `t_position` | CRUD, sort | tree edits without a cycle check |
| listing | `service/listing.go`, list handlers in `api/` | none | page, count | two statements over a changing table, ties in the order, 32-bit offsets |
| AI chat | `ai/provider.go`, `service/ai.go`, `api/ai.go` | a stream per request | stream deltas | cancellation and the final frame |
| start, shutdown | `cmd/server/main.go` | none | checks, graceful shutdown with a deadline | requests killed in flight |

How they interact: a save goes through the rate limiter, looks up the partner
(`t_project_partner`), reads the published survey (`t_project`) and writes
`t_answer`; operators change all three tables at the same time. Attachments are
uploaded through the file service before the answer that names them is saved.

What makes each part correct: an answer stays in its project and with its owner,
only its owner and operators write it, its survey snapshot was really published,
trash is frozen, saves of one session do not pile up, and closing a survey takes
effect; the limiter admits what buckets that never forget would admit; an upload
appears completely or not at all and failures leave nothing behind; a user, its
account and its roles change together, and requests that wait for each other's
rows all end; authority that was taken away is gone after one token lifetime and
does not come back by itself; edits of one row merge, deletions stay deleted and a
dictionary goes with its items; an export misses and repeats no more rows than were
removed and added while it ran.

## Modules

`ProjectStore` and `AnswerStore` hold one operator per SQL statement
(`queries/project.sql`, `survey.sql`, `answer.sql`). A project row keeps `status`,
`is_deleted` and the survey; an answer row keeps project, creator, last writer,
survey snapshot and `content`, which stands for the patchable columns together.
Rows are `unused`, `live` (`is_deleted = 0`), `trashed` or `destroyed`.

`AnswerFlow` composes them into the running server. `slot[s]` is the request
caller `s` has in flight: `pc` names the statement it issues next, the other
fields are the handler's local variables. One action is one statement together
with everything the handler does up to the next one:

| actions | code |
|---|---|
| `SKSaveAnswer`, `RestSubmitAnswer`, `SKAnswerCreate` | the three routes into `Submit` |
| `LookupPartnerStrict`, `LookupPartnerLenient` | the token lookup of saveAnswer and of the REST route |
| `GetPublic`, `ResumeAnswer`, `InsertAnswer` | `AnswerService.Submit` |
| `SKAnswerUpdate`, `AdminUpdateWrite` | `AdminUpdate`, load and write |
| `StartAnswerBatch`, `SoftDeleteLoad`, `SoftDeleteWrite`, `RestoreAnswerStep`, `DestroyAnswerStep` | the batch routes, an id at a time; an error ends the loop (`RequestFails`) |
| `SKAnswerUpload`, `ImportRow`, `ImportDone`, `ImportAborts` | `ImportAnswersXLSX` |
| `ProjectCreate`, `ProjectLoad`, `ProjectUpdateWrite`, `ProjectDeleteWrite`, `ProjectRestore`, `ProjectDestroy` | the project routes; a bulk delete is a sequence of single ones |
| `PartnerCreate`, `PartnerDelete` | partner issue and withdrawal |
| `RequestFails` | any statement fails: 500 |

A response may be lost after its statement committed (`Deliver`). `Browsers` are
the sessions that behave as the SPA does and resend the last answerId; all other
clients send any id, token and project. History variables (`published`, `author`,
`issued`, `everTrashed`, `excused`) only record; no guard reads them.

`TokenBucket` states what the limiter promises, `RateLimiter` is `Allow` with its
map. Tokens are integer units: with `Cost` units to a request, fractions of a
token exist, float rounding does not. `FileShelf` states what the file routes
promise, `FileStore` is `FileService` over `storage.Local` with each system call
and statement as a step that may fail, and `Crash` at any time.

`AccountBook` states what user administration promises: one record per user that a
request changes in one step or not at all. `Accounts` is the code: `slot[r]` is a
request, `pc` the statement it issues next (`count`, `load` before the
transaction, `user`, `acct`, `roles`, `commit` in it, `next` between the ids of a
deletion). A transaction keeps what it wrote in its slot (`hits`, `cleared`,
`added`) until `Commit`; a statement that meets a row another transaction has
written waits, then looks at the row again, as PostgreSQL does at READ COMMITTED.

| actions | code |
|---|---|
| `handleSKRegister`, `handleSKUserCreate`, `handleSKUserUpdate`, `handleSKUserDelete` | the four routes; the guard of the first two keeps an id for each creation (`Room`, a bound) |
| `CountAccounts`, `GetUserByID`, `NextId` | the reads outside the transaction; the loop over ids |
| `InsertUser`, `InsertAccount`, `WriteRoles` | `CreateUser` |
| `WriteUser`, `WriteAccount`, `WriteRoles` | `UpdateUser`, and without roles `DeleteUser` |
| `Commit`, `CommitLost`, `Fail` | `tx.Commit()`, a commit whose answer is lost, `defer tx.Rollback()` |

`Sessions` has the three reads of a login (`handleSKLogin`, `GetUserByID`,
`ListRoleCodesByUser`) and then `Sign`, which reads the clock, tokens that age with `Tick`, the middleware (`Parse`, `requireAdmin`) and the edits
of users and roles behind it, each a load and a write; a deletion visits its ids
one by one. User administration, shown atomic by `Accounts`, is one step here.
`seen` and `ago` are history: whether the user existed and held an admin role at some
time since the login's `GetUserByID`, and the ticks since a login that had seen it so
signed the token.

`Catalog` covers the administrators' other tables. All its routes have one shape,
so a request is a list of tasks (one for each id or row) and a task a list of
statements; the routes differ in the program of a task and in what they do about
an id that is not there (`miss`) and a failed statement (`fail`): stop, skip, or
count it all the same. The route names of the code are definitions on top.

| definitions | code |
|---|---|
| `Load`, `Get`, `Write`, `Drop`, `Insert`, `Refuse`, `Fail` | the statements, with COALESCE and `is_deleted = 0`; a committed statement whose answer is lost is the second disjunct of `Answer` |
| `GetDictByID`, `DeleteDictItemsByCode`, `SweepItems`, `DeleteDict`, `Commit` | `DeleteDictWithItems`: the DELETE takes a snapshot, waits for writers and looks at its rows again |
| `Add`, `Edit`, `Discard`, `DiscardOne`, `Bulk`, `handleSKRepoPick`, `handleSKRepoUnbind`, `handleSKDeptSort` | the shapes of the routes |
| `Restart` | the process stops between any two statements |

`Listing` has every paged list as its page statement and its count, and the two
exports (`ExportProjectAnswers`, `handleSKRepoExport`) as a loop over pages. Other
requests add (`Come`), remove (`Leave`), reorder (`Move`) and re-file (`Rebank`)
rows between the statements. Rows of equal rank come in any order, another one each
time; `Int32` is Go's conversion at a scaled width.

`MC*` modules add symmetry and the bounds that are functions. A definition commented "Bug:" is a plausible mistake
in the definition below it; no specification uses it.

## Runs

| run | shows | bounds |
|---|---|---|
| `AnswerLifecycle` | `SnapshotWasPublished`, `NoPileUp`, `RowsKeepIdentity`, `TrashIsFrozen` with every answer and project route; `ClosedSurveyDrains` under fairness | one session, one operator, one project and survey, two answer rows, lists of two ids |
| `AnswerIdentity` | `LastWriterOwnsRow`, `EditorWasIssued`, `HeldIdNamesRow` | two sessions (one a browser), two projects, one partner without a user or with the operator's id, an operator who edits, one row |
| `AnswerEditAck` | violation: an acknowledged edit that found no row | two operators |
| `AnswerUpload` | violation: a refused upload that left rows | one operator, two rows |
| `RateLimiter` | `WindowBound`, `OverLimitIsFresh`, refinement `BehavesAsBuckets` | three IPs, a map limit of one, six ticks |
| `FileStore` | `NothingHalfWritten`, `RowHasObject`, `NoLitter`, refinement `UploadsAreAtomic`; `StagingDrains`, `DeletedGoesDark` under fairness | two files, a user, an admin, a visitor, batches of two |
| `Accounts` | `Paired`, `NoLockCycle`, refinement `EditsAreAtomic`; `RequestsEnd` under fairness | two requests, the seeded admin and one new user, one password, one role |
| `AccountsName` | violation: a registration of a taken name succeeds | two requests, two new users, two names |
| `Sessions` | `StaleAuthorityIsBounded`, `AuthorityNeedsAuthority`, `DeletedRolesAreFrozen`; `RevocationBites` under fairness | two clients, the seeded admin and one more user, one role, a token of one tick |
| `Catalog` | `EditsMerge`, `DeletedMeansDeleted`, `BulkIsAPrefix`, `CascadeIsWhole` on every table | a request with lists of two beside one with a single id, two rows, two codes |
| `CatalogImport` | violation: a failed dictionary import that left rows | the same |
| `Listing` | `EachRemovalHidesOne`, `EachArrivalRepeatsOne`, `TotalCoversPage`, `PageAskedIsPageServed` | three rows, four ranks, pages of one and two, three changes while a request reads, offsets of three bits |

The bounds are the smallest in which the cases of interest happen: a second row
for a session that lost a response, a second identity or project to confuse a
row with, a second operator to trash what the first edits, a request in flight
on each side of a publication, a third IP to push the map over its limit while
another is idle, a second upload and a reader beside the one that fails, an
update overtaken by a deletion of the same user, a role deleted under an update of
it, an item that changes its code under the deletion of its dictionary, a row that
leaves an exported page and one that comes in. In `Catalog` a row created in the
run can be edited and deleted by the other request, and a list of two can fail at
either place; tables that no statement relates are not mixed (`scope`). In
`Listing` an export in pages of two ends with a short page or with an empty one,
rows can leave and come between its pages, and page 5 overflows the scaled int32. A role that a token outlives needs no more than one tick of lifetime:
it can be taken away before or after the tick, and a login can straddle both the
edit and the tick, also between its last read and `Sign`. The
safety properties of all modules are proved for all
bounds, so the bounds carry weight only for
liveness, the violations and the search for mistakes in the model. Ids are never
reused, so the number of ids bounds the number of inserts; `MaxBatch`,
`MaxImport`, `MaxStep`, `MaxTime`, `MaxTasks` and `MaxChanges` name the other
bounds.

The four violations are disagreements between comments and code:
`AdminUpdate` promises `ErrNotFound` for a row that is gone but ignores the row
count of its write; the answer upload promises not to apply a sheet in part but
inserts row by row; registration promises a 409 for a name that exists, but drops
the error of its count and creates the account in a later transaction, with no
unique index on the name; the dictionary import and the bulk creation of templates
promise one transaction and have none, so the rows before a failed one stay
(`BulkIsAPrefix` says that it is exactly those).

A fifth disagreement has no run. `router.go:410-413` says of `GET /api/file` that
"every uploaded file is publicly readable by id", and the comment of
`handleSKFileGet` (`sk_admin.go:573-574`) that "the only access control today is
"knows the id""; but `serveFileByID`, which both routes call, answers 403 "file is
private" unless `canReadFile` holds (shared, owner or admin). The comments are
older than the gate. `handleDownloadFile` (`files.go:48`), for signed-in users, has
no such gate. The model has the code's rule as guards (`canReadFile` in
`serveFileByID`, none in `DownloadFile`) and states no property of who may read: the
columns it goes by never change after the insert, so nothing could make a check
stale.

Fairness: in `AnswerLifecycle` and `FileStore` weak fairness of `Step(s)` for each caller, which says that the Go
scheduler keeps running a goroutine until its request is answered and that every
statement returns or fails. Nothing is assumed of users: they may never send a
request. A request that fails has also taken its step. `Accounts` needs strong
fairness of `Serve(r)`: a statement that waits for a row is disabled whenever
another transaction has the row, and PostgreSQL serves the waiters of a row in
turn, so one that could run again and again does run. `Sessions` assumes weak
fairness of `Serve(c)` for the same reason as above and that time passes (`Tick`);
not that anybody logs out or that a token is used.

What the properties do not promise: the loss of the object of a row whose insert
committed but reported an error (`doubtful` rows, excused by `RowHasObject` and
`UploadsAreAtomic`), the order of exported rows with equal `create_at`, pages whose
offset exceeds an int32, and the total 0 of handlers that drop the error of the count.
That is what the code does in these cases; the properties say that the damage goes
no further. `StaleAuthorityIsBounded` counts from `Sign`: between `ListRoleCodesByUser`
and `Sign` a login can take any time, and a role revoked or a user deleted in
between gets the full lifetime of a token (`RevocationBites` says that it ends).

## Proofs

All for arbitrary constants, from the ASSUMEs in the modules (`None` is no id; sessions are not operators, but a
partner row may carry any user id, an operator's too; users are not roles; a table
has finitely many rows; a page fits
an int32, as `maxPageSize = 200` does; for the limiter `Idle * Rate >= Burst` and
`0 < Cost <= Burst`, true of both limiters the server creates: 300 s * 5/s >= 10
and 300 s * 20/s >= 40).

* `AnswerFlowProofs`: `AlwaysTyped`, an inductive type invariant that also says
  which local variables a request has filled at each statement (`SlotOK`): a
  resume without an id or an insert without a creator would break the types.
  `TypeCorrect` follows.
* `AnswerFlowSafety`: `RowSteps` characterises once what any step may do to a row
  (insert, update in place, trash, restore, purge); `RowsKeepIdentity` and
  `TrashIsFrozen` follow from it. `SnapshotWasPublished` needs to know of
  snapshots not written yet (`SnapshotInv`: what a request carries was published),
  `EditorWasIssued` of identities (`IssuedInv`: the identity of a save in flight
  is the guest's or was issued for its project unless it came in by the lenient
  route, which never resumes), `NoPileUp` of the request about to insert (`PileUpInv`: a browser past
  its resume holds no live row it made).
* `RateLimiterProofs`: with `Clocked` (no entry and no log entry is ahead of the
  clock) a reaped entry and a full bucket cannot be told apart, because `Idle`
  ticks fill any bucket: that is the step of `BehavesAsBuckets` in which reaping
  stutters. `WindowInv` bounds the admitted calls of a window by what the bucket
  has now.
* `FileStoreProofs`: `IInv` says what is on disk and in `t_file` at every program
  point of an upload, that no two uploads share an id and that a read in flight
  has a row, and once it serves a complete object. The properties are or follow from
  its conjuncts; with it every step maps to a `Put`, a `Take` or
  a stutter of `FileShelf`.

* `AccountsProofs`: `IInv` adds to the types and to `Paired` what a request knows at
  each statement (`Staged`: one that holds its `t_user` row finds the user as it
  left it, absent for a creation and live for an edit; one that matched no row
  works for a deleted user; the account was hit exactly when the user was) and
  that no two requests hold the same `t_user` row (`Exclusive`). Neither `Paired`
  nor the refinement is inductive without them: a commit has to know that nobody
  committed to the same user since its first statement. `NoLockCycle` follows by
  looking at whoever is furthest in the order of the statements;
  `EditsAreAtomic` maps a commit that holds its row to `Apply`, every other end of
  a request to `Drop` and every statement before it to a stutter.
* `SessionsProofs`: `StaleAuthorityIsBounded` is not inductive, since it says nothing
  of how long a token still lives. `Bounded` does: its remaining life and the time
  since its login together never exceed the lifetime; a tick moves one unit from the
  first to the second. `Informed` says what a login has seen when it signs: its user
  since `GetUserByID`, and the admin role if the codes it read have it.
  `Staged` says what a request knows when it writes, `Unborn` that an id nobody has
  been given has no role bindings waiting for it. `AuthorityNeedsAuthority` needs
  both: without power every request under way is a login or a registration
  (`PowerlessRequests`), and a registered user is born without roles.

* `CatalogProofs`: nothing that `Catalog` promises is inductive by itself, because
  each promise is about a reply and is earned over many statements. `Ledger` says
  what a request could reply at any moment: of a deletion, that the ids it has
  listed are not live and stay so; of a creation, that it has listed exactly the
  rows it has made. `Front` says what it knows of the row it works on (the items a
  dictionary's transaction holds carry the code it loaded), `Rest` that the
  tasks it has not begun know nothing and that the ids it will use are free.
  `Distinct` (no id is given to two rows to come) keeps one creation from counting
  another's row, `Disjoint` (no two transactions hold one row) keeps a commit from
  deleting a row that another one has taken. `RestStable`, `FrontStable` and
  `LedgerStable` say what one request's statement does to the others.
* `ListingProofs`: `Pos`, the number of rows ranked before a row, is the place of an
  untied row in every order (`PlacedAt`), and no two untied rows share it
  (`DistinctPlaces`). `EachRemovalHidesOne` and `EachArrivalRepeatsOne` speak of the
  end of an export; `Counting` says the same of any moment. `Missed` has the
  rows below the offset that are not in the sheet, `Again` a pair for each time
  after the first that a row is in the sheet or will be, being above the offset.
  A page changes neither (`PageCounts`: it serves each untied row between the two
  offsets once), a row that goes lets at most one other cross the offset
  downwards (`MissedMore`), one that comes lets at most one cross it upwards
  (`AgainMore`), and at the end every row is below the offset. `Covers` carries
  `TotalCoversPage` from the page to the count; `Asked` and `Int32Fits` give
  `PageAskedIsPageServed` together with `AroundPlace`, which bounds the place of
  a tied row from both sides. `Sheet` picks the rows of a page with `Nth`, the k-th
  of a set of positions, rather than with `SelectSeq`, about which the prover knows
  nothing.

Only model-checked: the liveness properties `ClosedSurveyDrains`, `StagingDrains`,
`DeletedGoesDark`, `RequestsEnd` and `RevocationBites`, since liveness under fairness is out of the
prover's reach. Every invariant and every action property of the passing runs is
proved.

## What is left out, and why

Detail reads and report aggregates are single statements and change nothing; of the
lists, columns and filters are left out, and so are the pickers that read a whole
table in one statement (departments, tags). Partner rows without a project
and answers without a creator, which only rows migrated from SK have, cannot be
made through this server and are not in the initial states. A page reload is a
new session: the client forgets its answerId. The order of a session's own saves
is not modelled beyond one request at a time, and the code does not order them
either. A machine crash that loses unsynced pages is outside `FileStore`, whose
`Crash` is the death of the process. Float rounding in the limiter is left out.
The login that follows a registration only reads. Columns of a user on which
nothing decides (display name, department, status) are left out of `Accounts`.
In `Sessions` passwords are a choice of whether one fits, and in `Catalog` two
columns stand for all: one that other rows refer to and one that is only stored.
The AI chat keeps nothing between requests and copies a provider's stream to the
response. The column scanning of the generated sqlc code, the web bundle, deployment files, the command line,
configuration, logging and xlsx formatting are not modelled.

## Plan

1. Done: answers, projects and partners; rate limiter; files; user administration;
   sessions, tokens and roles; the catalog tables; lists and exports.
2. Done: the proofs of every safety property, the three refinements included.
3. Left to TLC: liveness. A next step would be the ordering of a session's own
   saves, which neither the code nor the model constrains.
