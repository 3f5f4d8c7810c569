----------------------------- MODULE AccountBook -----------------------------
(***************************************************************************)
(* What user administration promises: a user, its account and its roles    *)
(* are one record, and a request changes it in one step or not at all.     *)
(***************************************************************************)
CONSTANTS Reqs, Uids, Requests, None

VARIABLES
    book,   \* user, account and roles of every id
    todo    \* the request each slot still has to apply

Closed(st) == [st |-> st, name |-> None, secret |-> None, roles |-> {}]

BookInit ==
    /\ \E u \in Uids : \A v \in Uids \ {u} : book[v] = Closed("free")
    /\ todo = [r \in Reqs |-> None]

Ask(r) ==
    /\ todo[r] = None
    /\ \E q \in Requests : todo' = [todo EXCEPT ![r] = q]
    /\ UNCHANGED book

\* Refused, failed or overtaken by a deletion.
Drop(r) ==
    /\ todo[r] # None
    /\ todo' = [todo EXCEPT ![r] = None]
    /\ UNCHANGED book

Open(u, q) ==
    /\ book[u].st = "free"
    /\ q.op \in {"register", "create"}
    /\ book' = [book EXCEPT ![u] = [st |-> "live", name |-> q.name,
                                    secret |-> q.pw, roles |-> q.rids]]

Change(u, q) ==
    /\ book[u].st = "live"
    /\ q.op = "update" /\ q.u = u
    /\ book' = [book EXCEPT ![u] = [st     |-> "live",
                                    name   |-> book[u].name,
                                    secret |-> IF q.pw = None THEN book[u].secret ELSE q.pw,
                                    roles  |-> IF q.set THEN q.rids ELSE book[u].roles]]

Close(u, q) ==
    /\ book[u].st = "live"
    /\ q.op = "delete" /\ q.u = u
    /\ book' = [book EXCEPT ![u] = Closed("deleted")]

Apply(r) ==
    /\ todo[r] # None
    /\ \E u \in Uids : Open(u, todo[r]) \/ Change(u, todo[r]) \/ Close(u, todo[r])
    /\ todo' = [todo EXCEPT ![r] = None]

BookNext == \E r \in Reqs : Ask(r) \/ Drop(r) \/ Apply(r)

BookSpec == BookInit /\ [][BookNext]_<<book, todo>>
=============================================================================
