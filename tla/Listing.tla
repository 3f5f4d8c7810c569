------------------------------ MODULE Listing -------------------------------
(***************************************************************************)
(* Lists, pickers and exports.  A list is one statement for the rows of a  *)
(* page (ORDER BY ... LIMIT ... OFFSET) and one that counts; an export is  *)
(* one statement for each page.  Every statement sees the table of its own *)
(* moment, while other requests add, remove and reorder rows.              *)
(*                                                                         *)
(* The table is the rows that pass the route's WHERE (is_deleted, the      *)
(* project, the filters of the query; a list and its count have the same   *)
(* one).  rank is what ORDER BY sorts by: create_at, sometimes after       *)
(* priority, item_order or update_at.  Nothing breaks ties.                *)
(*                                                                         *)
(* Reading changes nothing, so one reader stands for all of them.          *)
(***************************************************************************)
EXTENDS Integers, Sequences, FiniteSets, Functions, TLC

CONSTANTS
    Ids,            \* row ids
    Ranks,          \* values of the sort key
    Pages, Sizes,   \* page numbers and page sizes that are asked for
    defaultPageSize, maxPageSize,
    exportPageSize, \* rows in a page of an export
    Half,           \* 2^31, scaled down
    MaxChanges      \* bound on the changes while a request reads

ASSUME ListingAssumption ==
    /\ IsFiniteSet(Ids)
    /\ Ranks \subseteq Nat /\ Pages \subseteq Int /\ Sizes \subseteq Int
    /\ maxPageSize \in Nat /\ defaultPageSize \in 1..maxPageSize
    /\ exportPageSize \in Nat \ {0}
    /\ Half \in Nat \ {0} /\ maxPageSize < Half
    /\ MaxChanges \in Nat

VARIABLES
    live,   \* the rows of the table
    rank,   \* [Ids -> Ranks]
    bank,   \* the rows of the question bank that handleSKRepoExport is asked for
    slot    \* the request

Table == <<live, rank, bank>>
vars == <<live, rank, bank, slot>>

\* pc is the next statement: of the page, of the count, of the role bindings of the
\* users in a page, of the next page of an export.
Slot == [pc    : {"idle", "rows", "count", "roles", "export", "done"},
         kind  : {"strict", "loose", "users", "picker", "answers", "bank"},
         page  : Nat,            \* after the clamp
         lim   : 0..maxPageSize + exportPageSize,
         off   : Int,            \* the int32 that the statement gets
         out   : Seq(Ids),
         total : Nat,
         error : BOOLEAN,
         gone  : Nat,            \* history: rows removed or moved since
         come  : Nat,            \* history: rows added or moved since
         still : SUBSET Ids]     \* history: rows there since, at a place of their own

Idle == [pc |-> "idle", kind |-> "strict", page |-> 1, lim |-> 0, off |-> 0, out |-> <<>>,
         total |-> 0, error |-> FALSE, gone |-> 0, come |-> 0, still |-> {}]

TypeOK ==
    /\ live \subseteq Ids /\ bank \subseteq Ids
    /\ rank \in [Ids -> Ranks]
    /\ slot \in Slot

Init ==
    /\ live \in SUBSET Ids
    /\ bank \in SUBSET Ids
    /\ rank \in [Ids -> Ranks]
    /\ slot = Idle

-------------------------------------------------------------------------------
(***************************************************************************)
(* What a statement returns.                                               *)
(***************************************************************************)

\* ORDER BY: rows of equal rank come in any order, another one each time.
Orders ==
    {s \in Bijection(1..Cardinality(live), live) :
        \A a, b \in 1..Cardinality(live) : a < b => rank[s[a]] <= rank[s[b]]}

\* LIMIT lim OFFSET off
Cut(s, off, lim) ==
    SubSeq(s, off + 1, IF off + lim < Len(s) THEN off + lim ELSE Len(s))

\* Page.Normalize, pageSize and the same lines in the handlers; what is missing or no
\* number is 0.
NormalPage(page) == IF page < 1 THEN 1 ELSE page

\* Bug: a page may be as large as the client likes.
UnclampedSize(size) == IF size < 1 THEN defaultPageSize ELSE size

NormalSize(size) ==
    IF size < 1 THEN defaultPageSize ELSE IF size > maxPageSize THEN maxPageSize ELSE size

\* int32(n)
Int32(n) == ((n + Half) % (2 * Half)) - Half

\* Bug: pages are counted from 0.
OffsetFromZero(page, size) == page * size

Offset(page, size) == (page - 1) * size

-------------------------------------------------------------------------------
(***************************************************************************)
(* Lists and pickers.                                                      *)
(***************************************************************************)

Ask(kind) ==
    /\ slot.pc = "idle"
    /\ \E p \in Pages, n \in Sizes :
           LET page == NormalPage(p)
               lim  == NormalSize(n)
           IN  slot' = [Idle EXCEPT !.pc = "rows", !.kind = kind, !.page = page, !.lim = lim,
                                    !.off = Int32(Offset(page, lim))]
    /\ UNCHANGED Table

\* Both statements must succeed.  The SK routes call the services of the REST ones.
Projects      == Ask("strict")
Repos         == Ask("strict")
Templates     == Ask("strict")
Dashboards    == Ask("strict")
ListByProject == Ask("strict")
systemRoles   == Ask("strict")
handleSKProjectList  == Projects
handleSKRepoList     == Repos
handleSKTemplateList == Templates
handleSKAnswerList   == ListByProject

\* A third statement loads the roles of the users in the page.
handleSKUserList == Ask("users")

\* The error of the count is dropped: total, _ := ...
handleSKPositionList == Ask("loose")
handleSKDictList     == Ask("loose")
handleSKDictItemList == Ask("loose")
handleSKProjectTrash == Ask("loose")
handleSKAnswerTrash  == Ask("loose")
handleSKProjectPartnerList == Ask("loose")
handleSKRepoPartnerList    == Ask("loose")
handleSKUserBookList       == Ask("loose")

\* The pickers of the project screen: the first 200 rows and no count.
handleSKProjectSelect ==
    /\ slot.pc = "idle"
    /\ slot' = [Idle EXCEPT !.pc = "rows", !.kind = "picker", !.lim = maxPageSize]
    /\ UNCHANGED Table

\* The rows at a place of their own: no other row has the same rank.
Placed == {i \in live : \A j \in live \ {i} : rank[j] # rank[i]}

\* A negative OFFSET is an error.
ListRows ==
    /\ slot.pc = "rows"
    /\ \/ /\ slot.off < 0
          /\ slot' = [slot EXCEPT !.pc = "done", !.error = TRUE]
       \/ /\ slot.off >= 0
          /\ \E o \in Orders :
                 slot' = [slot EXCEPT !.pc = IF slot.kind = "picker" THEN "done" ELSE "count",
                                      !.out = Cut(o, slot.off, slot.lim),
                                      !.gone = 0, !.come = 0, !.still = Placed]
    /\ UNCHANGED Table

\* What follows the count.
Counted(total) ==
    slot' = [slot EXCEPT !.pc = IF slot.kind = "users" /\ slot.out # <<>> THEN "roles" ELSE "done",
                         !.total = total]

\* Bug: the total is that of the page.
CountPage ==
    /\ slot.pc = "count"
    /\ Counted(Len(slot.out))
    /\ UNCHANGED Table

CountRows ==
    /\ slot.pc = "count"
    /\ Counted(Cardinality(live))
    /\ UNCHANGED Table

\* ListUserRolesByUserIDs: without it the users are served without roles.
ListUserRoles ==
    /\ slot.pc = "roles"
    /\ slot' = [slot EXCEPT !.pc = "done"]
    /\ UNCHANGED Table

\* A statement fails.
Fail ==
    /\ \/ /\ slot.pc \in {"rows", "export"} \/ (slot.pc = "count" /\ slot.kind # "loose")
          /\ slot' = [slot EXCEPT !.pc = "done", !.error = TRUE]
       \/ /\ slot.pc = "count" /\ slot.kind = "loose"
          /\ Counted(0)
    /\ UNCHANGED Table

-------------------------------------------------------------------------------
(***************************************************************************)
(* Exports.                                                                *)
(***************************************************************************)

Export(kind) ==
    /\ slot.pc = "idle"
    /\ slot' = [Idle EXCEPT !.pc = "export", !.kind = kind, !.lim = exportPageSize, !.still = Placed]
    /\ UNCHANGED Table

\* The project is in the WHERE of AnswersForExportPage.
ExportProjectAnswers == Export("answers")

\* ListTemplates gives the templates of all banks; the handler takes those of one.
handleSKRepoExport == Export("bank")

\* The k-th of a set of numbers.
Nth(S, k) == CHOOSE n \in S : Cardinality({m \in S : m <= n}) = k

\* The rows of a page that go into the sheet, in the order of the page.
Sheet(got) ==
    LET kept == {n \in DOMAIN got : slot.kind = "bank" => got[n] \in bank}
    IN  [k \in 1..Cardinality(kept) |-> got[Nth(kept, k)]]

\* Bug: the next page begins after what the sheet has so far.
OffsetOfSheet(got) == Len(slot.out) + Len(Sheet(got))

NextOffset(got) == slot.off + exportPageSize

\* Bug: a page that adds less than a page to the sheet is the last one.
ShortInSheet(got) == Len(Sheet(got)) < exportPageSize

LastPage(got) == Len(got) < exportPageSize

\* AnswersForExportPage or ListTemplates, and the loop around it.
ExportPage ==
    /\ slot.pc = "export"
    /\ \E o \in Orders :
           LET got == Cut(o, slot.off, slot.lim)
           IN  slot' = [slot EXCEPT !.out = @ \o Sheet(got),
                                    !.off = NextOffset(got),
                                    !.pc  = IF LastPage(got) THEN "done" ELSE "export"]
    /\ UNCHANGED Table

-------------------------------------------------------------------------------
(***************************************************************************)
(* Other requests change the table, one statement at a time.               *)
(***************************************************************************)

MayChange == slot.pc \notin {"idle", "done"} /\ slot.gone + slot.come < MaxChanges

\* The history of the one who is reading.
Note(gone, come, lost) ==
    slot' = [slot EXCEPT !.gone = @ + gone, !.come = @ + come, !.still = @ \ lost]

At(k) == {j \in live : rank[j] = k}

\* A row is created, or restored at its old place.
Come(i) ==
    /\ MayChange /\ i \notin live
    /\ live' = live \cup {i}
    /\ Note(0, 1, At(rank[i]) \cup {i})
    /\ UNCHANGED <<rank, bank>>

\* A row is deleted or goes to the trash, or an edit takes it out of the filter.
Leave(i) ==
    /\ MayChange /\ i \in live
    /\ live' = live \ {i}
    /\ Note(1, 0, {i})
    /\ UNCHANGED <<rank, bank>>

\* Its priority or item_order is edited.
Move(i) ==
    /\ MayChange /\ i \in live
    /\ \E k \in Ranks \ {rank[i]} :
           /\ rank' = [rank EXCEPT ![i] = k]
           /\ Note(1, 1, At(k) \cup {i})
    /\ UNCHANGED <<live, bank>>

\* A template is picked into the bank or unbound from it; its place stays.  Only the
\* export of the bank looks at it.
Rebank(i) ==
    /\ MayChange /\ i \in live /\ slot.kind = "bank"
    /\ bank' = IF i \in bank THEN bank \ {i} ELSE bank \cup {i}
    /\ Note(0, 0, {i})
    /\ UNCHANGED <<live, rank>>

-------------------------------------------------------------------------------
Arrive ==
    \/ Projects \/ Repos \/ Templates \/ Dashboards \/ ListByProject \/ systemRoles
    \/ handleSKProjectList \/ handleSKRepoList \/ handleSKTemplateList \/ handleSKAnswerList
    \/ handleSKUserList \/ handleSKPositionList \/ handleSKDictList \/ handleSKDictItemList
    \/ handleSKProjectTrash \/ handleSKAnswerTrash \/ handleSKProjectPartnerList
    \/ handleSKRepoPartnerList \/ handleSKUserBookList \/ handleSKProjectSelect
    \/ ExportProjectAnswers \/ handleSKRepoExport

Serve == ListRows \/ CountRows \/ ListUserRoles \/ ExportPage

\* The client has its answer.
Return ==
    /\ slot.pc = "done"
    /\ slot' = Idle
    /\ UNCHANGED Table

Next ==
    \/ Arrive \/ Serve \/ Fail \/ Return
    \/ \E i \in Ids : Come(i) \/ Leave(i) \/ Move(i) \/ Rebank(i)

Spec == Init /\ [][Next]_vars

\* For TLC: the ids are interchangeable.
Symmetry == Permutations(Ids)

-------------------------------------------------------------------------------
(***************************************************************************)
(* Properties                                                              *)
(***************************************************************************)

Times(i) == Cardinality({n \in DOMAIN slot.out : slot.out[n] = i})

Exported == slot.pc = "done" /\ slot.kind \in {"answers", "bank"} /\ ~slot.error

\* Rows that belong into the sheet, were there from its first page to its last, and
\* whose place in the order neither an edit nor a tie left open.
Due == IF slot.kind = "bank" THEN slot.still \cap bank ELSE slot.still

(***************************************************************************)
(* "streams an xlsx of every undeleted answer": a page begins at an        *)
(* OFFSET, so each row that goes away while the export runs can push one   *)
(* other row out of the sheet, and no more.  With nothing removed and no   *)
(* ties the sheet has every row that was there from beginning to end.      *)
(***************************************************************************)
EachRemovalHidesOne ==
    Exported => Cardinality({i \in Due : Times(i) = 0}) <= slot.gone

(***************************************************************************)
(* A row that comes in while the export runs can push one other row into   *)
(* the sheet a second time, and no more.  With none added and no ties the  *)
(* sheet has no row twice.                                                 *)
(***************************************************************************)
EachArrivalRepeatsOne ==
    Exported =>
        Cardinality({x \in Due \X (2..Len(slot.out)) : x[2] <= Times(x[1])}) <= slot.come

(***************************************************************************)
(* The page a client asks for is the page it gets: as long as the offset   *)
(* fits an int32, the n-th row served has (page - 1) * size + n - 1 rows   *)
(* before it, and a page is short only at the end of the table.  (Beyond,  *)
(* the offset wraps: an error, or another page.)                           *)
(***************************************************************************)
PageAskedIsPageServed ==
    [][LET skip == (slot.page - 1) * slot.lim
           out  == slot'.out
           below(i) == Cardinality({j \in live : rank[j] < rank[i]})
           upto(i)  == Cardinality({j \in live : rank[j] <= rank[i]})
       IN  slot.pc = "rows" /\ slot'.pc \in {"count", "done"} /\ ~slot'.error /\ skip < Half
               => /\ Len(out) <= slot.lim
                  /\ Len(out) < slot.lim => skip + Len(out) >= Cardinality(live)
                  /\ \A n \in DOMAIN out : skip + n \in below(out[n]) + 1 .. upto(out[n])]_vars

(***************************************************************************)
(* Rows and total come from two statements.  A list whose count has not    *)
(* silently failed counts at least the rows up to the end of its page, but *)
(* for those removed between the statements.                               *)
(***************************************************************************)
TotalCoversPage ==
    slot.pc = "done" /\ slot.kind \in {"strict", "loose", "users"} /\ ~slot.error /\ slot.out # <<>>
        => \/ slot.off + Len(slot.out) <= slot.total + slot.gone
           \/ slot.kind = "loose" /\ slot.total = 0
=============================================================================
