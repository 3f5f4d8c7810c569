--------------------------- MODULE CatalogProofs ----------------------------
(***************************************************************************)
(* Proofs about Catalog for any tables' contents, any number of requests   *)
(* and lists of any length.                                                *)
(*                                                                         *)
(* The inductive invariant says of every request what it has promised its  *)
(* reply so far (Ledger), what it knows about the row it is working on     *)
(* (Front) and that the tasks it has not begun know nothing yet (Rest).    *)
(* Between requests it says that no two are about to use one id (Distinct) *)
(* and that no two transactions have deleted one row (Disjoint).           *)
(***************************************************************************)
EXTENDS Catalog, SequenceTheorems, FiniteSetTheorems, TLAPS

-----------------------------------------------------------------------------
(***************************************************************************)
(* The inductive invariant.                                                *)
(***************************************************************************)

Dict5 == <<"dict", "items", "sweep", "delete", "commit">>
Dict4 == <<"items", "sweep", "delete", "commit">>
Dict3 == <<"sweep", "delete", "commit">>
Dict2 == <<"delete", "commit">>
Dict1 == <<"commit">>

\* What is left of the statements of a task.
MakeProgs == {<<"insert">>, <<"refuse">>}
PickProgs == {<<"copy", "insert">>}
EditProgs == {<<"load", "load", "write">>, <<"load", "write">>, <<"write">>}
DropProgs == {<<"load", "drop">>, <<"drop">>}
DictProgs == {Dict5, Dict4, Dict3, Dict2, Dict1}

\* A task creates a row, or works on one.
Makes(t) == t.new \in Ids /\ (t.prog \in MakeProgs \/ (t.prog \in PickProgs /\ t.id \in Ids))

Works(t) == t.new = None /\ t.id \in Ids /\ t.prog \in EditProgs \cup DropProgs \cup DictProgs

\* A task that has not begun.
Unbegun(s, t) ==
    /\ t.prog = <<"drop">> => s.fail = "count"
    /\ t.prog \in DictProgs => t.prog = Dict5 /\ t.tab = "dict"

\* The tasks of a request, and the ones after the first.
Rest(s, rws) ==
    /\ s.error = FALSE
    /\ \A n \in DOMAIN s.todo : Makes(s.todo[n]) \/ Works(s.todo[n])
    /\ \A n \in DOMAIN s.todo : n > 1 =>
           /\ Unbegun(s, s.todo[n])
           /\ s.todo[n].new # None => rws[s.todo[n].new].st = "free"

\* The row of t was there when the task loaded it.
Loaded(t, rws) == rws[t.id].st # "free" /\ rws[t.id].tab = t.tab

\* The first task.
Front(s, rws) ==
    LET t == Head(s.todo) IN
    IF s.todo = <<>> THEN s.held = {} /\ s.want = {}
    ELSE /\ t.new # None => rws[t.new].st = "free"
         /\ t.prog = <<"drop">> /\ s.fail # "count" => Loaded(t, rws)
         /\ t.prog \in DictProgs => t.tab = "dict"
         /\ t.prog \in DictProgs \ {Dict5} => Loaded(t, rws)
         /\ t.prog = Dict1 => t.id \in s.held \/ rws[t.id].st # "live"
         /\ t.prog \notin {Dict1, Dict2} => s.held = {}
         /\ \A i \in s.held : /\ rws[i].st = "live"
                              /\ i = t.id \/ (rws[i].tab = "item" /\ rws[i].ref = t.ref)

Dead(i, rws) == rws[i].st \in {"deleted", "gone"}

Listed(s) == {s.done[n] : n \in DOMAIN s.done}

Injective(s) == \A m, n \in DOMAIN s.done : s.done[m] = s.done[n] => m = n

\* A deletion that stops at an error: what it lists is deleted.
Deleting(s, rws) ==
    /\ s.made = {}
    /\ \A n \in DOMAIN s.todo : s.todo[n].new = None /\ s.todo[n].prog \in DropProgs \cup DictProgs
    /\ \A n \in DOMAIN s.done : Dead(s.done[n], rws)

\* A creation that stops at an error: it lists what it has made, each row once.
Creating(s) ==
    /\ s.made = Listed(s) /\ Injective(s)
    /\ Len(s.done) + Len(s.todo) = s.total
    /\ \A n \in DOMAIN s.todo : s.todo[n].new # None /\ s.todo[n].prog \in MakeProgs

Ledger(s, rws) ==
    /\ \A i \in s.made : rws[i].st # "free"
    /\ s.fail = "stop" => /\ s.miss \in {"stop", "skip"}
                          /\ s.miss = "stop" => s.made = {} /\ \A n \in DOMAIN s.todo : s.todo[n].new = None
                          /\ s.miss = "skip" => Deleting(s, rws) \/ Creating(s)

SlotInv(s, rws) ==
    /\ s \in Slot
    /\ Rest(s, rws)
    /\ Front(s, rws)
    /\ Ledger(s, rws)

\* DeletedMeansDeleted and BulkIsAPrefix, for one reply.
SaysDeleted(s, rws) ==
    s.fail = "stop" /\ s.miss = "skip" /\ s.made = {}
        => \A n \in DOMAIN s.done : rws[s.done[n]].st # "live"

SaysMade(s, rws) ==
    s.fail = "stop" /\ s.made # {} =>
        /\ \A i \in s.made : rws[i].st # "free"
        /\ Listed(s) \subseteq s.made /\ Cardinality(Listed(s)) = Len(s.done)
        /\ s.made # Listed(s) => s.error /\ Cardinality(s.made \ Listed(s)) = 1
        /\ ~s.error => Len(s.done) + Len(s.todo) = s.total

Reply(s, rws) == s \in Slot /\ s.todo = <<>> /\ SaysDeleted(s, rws) /\ SaysMade(s, rws)

\* Only a table with is_deleted keeps its deleted rows.
Soft == \A i \in Ids : rows[i].st = "deleted" => rows[i].tab \in SoftTables

\* No id is given to two rows to come.
Distinct ==
    \A r, o \in Requests : \A n \in DOMAIN slot[r].todo, m \in DOMAIN slot[o].todo :
        slot[r].todo[n].new # None /\ slot[r].todo[n].new = slot[o].todo[m].new => r = o /\ n = m

\* No row is deleted by two transactions.
Disjoint == \A r, o \in Requests : r # o => slot[r].held \cap slot[o].held = {}

IInv ==
    /\ scope \in Scopes
    /\ rows \in [Ids -> Row]
    /\ Soft
    /\ slot \in [Requests -> Slot]
    /\ \A r \in Requests : SlotInv(slot[r], rows) /\ Len(slot[r].todo) <= MaxTasks[r]
    /\ Distinct
    /\ Disjoint
    /\ Reply(reply, rows)

-----------------------------------------------------------------------------
(***************************************************************************)
(* The records.                                                            *)
(***************************************************************************)

\* The fields of a slot.
LEMMA SlotFields ==
    ASSUME NEW s \in Slot
    PROVE  /\ s.miss \in Policy /\ s.fail \in Policy
           /\ s.todo \in Seq(Task) /\ s.done \in Seq(Ids)
           /\ s.error \in BOOLEAN /\ s.total \in Nat
           /\ s.want \subseteq Ids /\ s.held \subseteq Ids /\ s.made \subseteq Ids
  BY DEF Slot

\* What Close changes.
LEMMA CloseFields ==
    ASSUME NEW s \in Slot, NEW b \in BOOLEAN, s.todo # <<>>
    PROVE  LET c == Close(s, b)
               t == Head(s.todo)
           IN  /\ c.todo = Tail(s.todo)
               /\ c.done = IF b THEN Append(s.done, IF t.new = None THEN t.id ELSE t.new) ELSE s.done
               /\ c.want = {} /\ c.held = {}
               /\ c.miss = s.miss /\ c.fail = s.fail /\ c.error = s.error
               /\ c.total = s.total /\ c.made = s.made
  BY DEF Slot, Close

LEMMA StopFields ==
    ASSUME NEW s \in Slot
    PROVE  LET c == Stop(s)
           IN  /\ c \in Slot
               /\ c.todo = <<>> /\ c.done = s.done /\ c.error
               /\ c.want = {} /\ c.held = {}
               /\ c.miss = s.miss /\ c.fail = s.fail
               /\ c.total = s.total /\ c.made = s.made
  BY EmptySeq DEF Slot, Stop

LEMMA StepFields ==
    ASSUME NEW s \in Slot, NEW t \in Task, s.todo # <<>>, Len(t.prog) # 1
    PROVE  LET c == Step(s, t)
           IN  /\ c.todo = <<[t EXCEPT !.prog = Tail(t.prog)]>> \o Tail(s.todo) /\ c.done = s.done /\ c.error = s.error
               /\ c.want = s.want /\ c.held = s.held
               /\ c.miss = s.miss /\ c.fail = s.fail
               /\ c.total = s.total /\ c.made = s.made
  BY DEF Slot, Step

\* The parts of a list of tasks.
LEMMA TodoParts ==
    ASSUME NEW s \in Slot, s.todo # <<>>
    PROVE  /\ Len(s.todo) \in Nat \ {0} /\ DOMAIN s.todo = 1..Len(s.todo)
           /\ Head(s.todo) = s.todo[1] /\ Head(s.todo) \in Task
           /\ Tail(s.todo) \in Seq(Task) /\ Len(Tail(s.todo)) = Len(s.todo) - 1
           /\ DOMAIN Tail(s.todo) = 1..(Len(s.todo) - 1)
           /\ \A n \in 1..(Len(s.todo) - 1) : Tail(s.todo)[n] = s.todo[n + 1]
           /\ \A n \in 1..Len(s.todo) : s.todo[n] \in Task
  <1>1. s.todo \in Seq(Task)
    BY SlotFields
  <1> QED
    BY <1>1, HeadTailProperties, LenProperties, ElementOfSeq, EmptySeq

\* A list whose first task is replaced.
LEMMA TodoMoved ==
    ASSUME NEW s \in Slot, s.todo # <<>>, NEW u \in Task
    PROVE  LET l == <<u>> \o Tail(s.todo)
           IN  /\ l \in Seq(Task) /\ l # <<>> /\ Len(l) = Len(s.todo) /\ DOMAIN l = 1..Len(s.todo)
               /\ l[1] = u /\ Head(l) = u
               /\ \A n \in 2..Len(s.todo) : l[n] = s.todo[n]
  <1> DEFINE l == <<u>> \o Tail(s.todo)
  <1>1. <<u>> \in Seq(Task) /\ Len(<<u>>) = 1 /\ <<u>>[1] = u
    OBVIOUS
  <1>2. /\ Tail(s.todo) \in Seq(Task) /\ Len(Tail(s.todo)) = Len(s.todo) - 1
        /\ Len(s.todo) \in Nat \ {0}
        /\ \A n \in 1..(Len(s.todo) - 1) : Tail(s.todo)[n] = s.todo[n + 1]
    BY TodoParts
  <1>3. /\ l \in Seq(Task)
        /\ Len(l) = Len(s.todo)
        /\ \A n \in 1..Len(s.todo) : l[n] = IF n <= 1 THEN <<u>>[n] ELSE Tail(s.todo)[n - 1]
    BY <1>1, <1>2, ConcatProperties
  <1>4. DOMAIN l = 1..Len(s.todo) /\ l # <<>>
    BY <1>2, <1>3, LenProperties, EmptySeq
  <1>5. l[1] = u /\ \A n \in 2..Len(s.todo) : l[n] = s.todo[n]
    BY <1>1, <1>2, <1>3
  <1>6. Head(l) = l[1]
    BY <1>3, <1>4
  <1> QED
    BY <1>3, <1>4, <1>5, <1>6

-----------------------------------------------------------------------------
(***************************************************************************)
(* The programs.                                                           *)
(***************************************************************************)

LEMMA ProgTails ==
    /\ Tail(<<"copy", "insert">>) = <<"insert">>
    /\ Tail(<<"load", "load", "write">>) = <<"load", "write">>
    /\ Tail(<<"load", "write">>) = <<"write">>
    /\ Tail(<<"load", "drop">>) = <<"drop">>
    /\ Tail(Dict5) = Dict4 /\ Tail(Dict4) = Dict3 /\ Tail(Dict3) = Dict2 /\ Tail(Dict2) = Dict1
    /\ Tail(<<"dict", "delete", "commit">>) = Dict2
  BY DEF Dict5, Dict4, Dict3, Dict2, Dict1

Programs == MakeProgs \cup PickProgs \cup EditProgs \cup DropProgs \cup DictProgs

LEMMA ProgTypes ==
    /\ Programs \subseteq Seq(Statements)
    /\ <<>> \notin Programs
  BY DEF Programs, MakeProgs, PickProgs, EditProgs, DropProgs, DictProgs,
         Dict5, Dict4, Dict3, Dict2, Dict1, Statements

\* What the next statement says about the rest.
LEMMA ProgHeads ==
    ASSUME NEW p \in Programs
    PROVE  /\ Head(p) = "insert"  <=> p = <<"insert">>
           /\ Head(p) = "refuse"  <=> p = <<"refuse">>
           /\ Head(p) = "copy"    <=> p = <<"copy", "insert">>
           /\ Head(p) = "load"    <=> p \in {<<"load", "load", "write">>, <<"load", "write">>, <<"load", "drop">>}
           /\ Head(p) = "write"   <=> p = <<"write">>
           /\ Head(p) = "drop"    <=> p = <<"drop">>
           /\ Head(p) = "dict"    <=> p = Dict5
           /\ Head(p) = "items"   <=> p = Dict4
           /\ Head(p) = "sweep"   <=> p = Dict3
           /\ Head(p) = "delete"  <=> p = Dict2
           /\ Head(p) = "commit"  <=> p = Dict1
  BY DEF Programs, MakeProgs, PickProgs, EditProgs, DropProgs, DictProgs,
         Dict5, Dict4, Dict3, Dict2, Dict1

LEMMA ProgLens ==
    ASSUME NEW p \in Programs
    PROVE  Len(p) = 1 <=> p \in {<<"insert">>, <<"refuse">>, <<"write">>, <<"drop">>, Dict1}
  BY DEF Programs, MakeProgs, PickProgs, EditProgs, DropProgs, DictProgs,
         Dict5, Dict4, Dict3, Dict2, Dict1

\* The programs of different kinds are different.
LEMMA ProgKinds ==
    /\ <<"insert">> \in MakeProgs /\ <<"refuse">> \in MakeProgs
    /\ \A p \in MakeProgs : p \notin PickProgs \cup EditProgs \cup DropProgs \cup DictProgs
    /\ \A p \in EditProgs : p \notin PickProgs \cup DropProgs \cup DictProgs
    /\ \A p \in DropProgs : p \notin PickProgs \cup DictProgs
    /\ \A p \in DictProgs : p \notin PickProgs
    /\ <<"drop">> \in DropProgs /\ <<"load", "drop">> \in DropProgs /\ <<"load", "drop">> # <<"drop">>
    /\ \A p \in DictProgs : p \in {Dict5, Dict4, Dict3, Dict2, Dict1}
    /\ Dict5 # Dict4 /\ Dict5 # Dict3 /\ Dict5 # Dict2 /\ Dict5 # Dict1
    /\ Dict4 # Dict2 /\ Dict4 # Dict1 /\ Dict3 # Dict2 /\ Dict3 # Dict1 /\ Dict2 # Dict1
  BY DEF MakeProgs, PickProgs, EditProgs, DropProgs, DictProgs,
         Dict5, Dict4, Dict3, Dict2, Dict1

-----------------------------------------------------------------------------
(***************************************************************************)
(* A request on its own.                                                   *)
(***************************************************************************)

\* The statements and the ids of a task.
LEMMA TaskParts ==
    ASSUME NEW t \in Task, Makes(t) \/ Works(t)
    PROVE  /\ t.prog \in Programs
           /\ (IF t.new = None THEN t.id ELSE t.new) \in Ids
           /\ t.new = None => Works(t)
           /\ t.new # None => Makes(t)
  BY CatalogAssumption DEF Makes, Works, Programs

\* The next task begins with nothing held, and knows nothing.
LEMMA CloseMoves ==
    ASSUME NEW rws, NEW s \in Slot, s.todo # <<>>, NEW b \in BOOLEAN, Rest(s, rws)
    PROVE  LET c == Close(s, b)
           IN  c \in Slot /\ Rest(c, rws) /\ Front(c, rws)
  <1> DEFINE c == Close(s, b)
             t == Head(s.todo)
             x == IF t.new = None THEN t.id ELSE t.new
  <1>1. /\ c.todo = Tail(s.todo) /\ c.done = IF b THEN Append(s.done, x) ELSE s.done
        /\ c.want = {} /\ c.held = {}
        /\ c.miss = s.miss /\ c.fail = s.fail /\ c.error = s.error
        /\ c.total = s.total /\ c.made = s.made
    BY CloseFields
  <1>2. /\ Len(s.todo) \in Nat \ {0} /\ DOMAIN s.todo = 1..Len(s.todo)
        /\ t = s.todo[1] /\ t \in Task
        /\ Tail(s.todo) \in Seq(Task)
        /\ DOMAIN Tail(s.todo) = 1..(Len(s.todo) - 1)
        /\ \A n \in 1..(Len(s.todo) - 1) : Tail(s.todo)[n] = s.todo[n + 1]
    BY TodoParts
  <1>3. x \in Ids
    BY <1>2, TaskParts DEF Rest
  <1>4. c.done \in Seq(Ids)
    BY <1>1, <1>3, AppendProperties, SlotFields
  <1>5. c \in Slot
    BY <1>1, <1>2, <1>4 DEF Slot, Close
  <1>6. \A n \in DOMAIN c.todo : n + 1 \in DOMAIN s.todo /\ n + 1 > 1 /\ c.todo[n] = s.todo[n + 1]
    BY <1>1, <1>2
  <1>7. \A n \in DOMAIN c.todo :
            /\ Makes(c.todo[n]) \/ Works(c.todo[n])
            /\ Unbegun(s, c.todo[n])
            /\ c.todo[n].new # None => rws[c.todo[n].new].st = "free"
    BY <1>6 DEF Rest
  <1>8. Rest(c, rws)
    BY <1>1, <1>7 DEF Rest, Unbegun
  <1>9. ASSUME c.todo # <<>>
        PROVE  Front(c, rws)
    <2>1. 1 \in DOMAIN c.todo /\ Head(c.todo) = c.todo[1]
      BY <1>5, <1>9, TodoParts
    <2> DEFINE u == c.todo[1]
    <2>2. /\ u.new # None => rws[u.new].st = "free"
          /\ u.prog = <<"drop">> => c.fail = "count"
          /\ u.prog \in DictProgs => u.prog = Dict5 /\ u.tab = "dict"
      BY <1>1, <1>7, <2>1 DEF Unbegun
    <2>3. Dict5 # Dict1 /\ Dict1 \in DictProgs
      BY ProgKinds DEF DictProgs
    <2> QED
      BY <1>1, <1>9, <2>1, <2>2, <2>3 DEF Front
  <1>10. ASSUME c.todo = <<>>
         PROVE  Front(c, rws)
    BY <1>1, <1>10 DEF Front
  <1> QED
    BY <1>5, <1>8, <1>9, <1>10

\* The cardinality of what a creation lists.
LEMMA ListedCard ==
    ASSUME NEW s \in Slot, Injective(s)
    PROVE  IsFiniteSet(Listed(s)) /\ Cardinality(Listed(s)) = Len(s.done)
  <1>1. /\ s.done \in Seq(Ids) /\ Len(s.done) \in Nat /\ DOMAIN s.done = 1..Len(s.done)
        /\ s.done \in [1..Len(s.done) -> Ids]
    BY SlotFields, LenProperties
  <1>2. s.done \in Bijection(1..Len(s.done), Listed(s))
    <2>1. s.done \in [1..Len(s.done) -> Listed(s)]
      BY <1>1 DEF Listed
    <2>2. IsInjective(s.done)
      BY <1>1 DEF Injective, IsInjective
    <2>3. \A x \in Listed(s) : \E n \in 1..Len(s.done) : s.done[n] = x
      BY <1>1 DEF Listed
    <2> QED
      BY <2>1, <2>2, <2>3 DEF Bijection, Injection, Surjection
  <1>3. ExistsBijection(1..Len(s.done), Listed(s))
    BY <1>2 DEF ExistsBijection
  <1>4. IsFiniteSet(1..Len(s.done)) /\ Cardinality(1..Len(s.done)) = Len(s.done)
    BY <1>1, FS_Interval
  <1> QED
    BY <1>1, <1>3, <1>4, FS_Bijection, FS_CountingElements

\* A request without an error keeps its word.
LEMMA KeepsWord ==
    ASSUME NEW rws, NEW s \in Slot, Ledger(s, rws)
    PROVE  SaysDeleted(s, rws) /\ SaysMade(s, rws)
  <1>1. SaysDeleted(s, rws)
    <2> SUFFICES ASSUME s.fail = "stop", s.miss = "skip", s.made = {}, NEW n \in DOMAIN s.done
                 PROVE  rws[s.done[n]].st # "live"
      BY DEF SaysDeleted
    <2>1. s.done[n] \in Listed(s)
      BY DEF Listed
    <2> QED
      BY <2>1 DEF Ledger, Deleting, Creating, Dead
  <1>2. ASSUME s.fail = "stop", s.made # {}
        PROVE  Creating(s)
    BY <1>2 DEF Ledger, Deleting
  <1>3. SaysMade(s, rws)
    <2> SUFFICES ASSUME s.fail = "stop", s.made # {}
                 PROVE  /\ \A i \in s.made : rws[i].st # "free"
                        /\ Listed(s) \subseteq s.made /\ Cardinality(Listed(s)) = Len(s.done)
                        /\ s.made # Listed(s) => s.error /\ Cardinality(s.made \ Listed(s)) = 1
                        /\ ~s.error => Len(s.done) + Len(s.todo) = s.total
      BY DEF SaysMade
    <2>1. Creating(s)
      BY <1>2
    <2>2. Cardinality(Listed(s)) = Len(s.done)
      BY <2>1, ListedCard DEF Creating
    <2> QED
      BY <2>1, <2>2 DEF Creating, Ledger
  <1> QED
    BY <1>1, <1>3

LEMMA EndsWell ==
    ASSUME NEW rws, NEW s \in Slot, s.todo = <<>>, Ledger(s, rws)
    PROVE  Reply(s, rws)
  BY KeepsWord DEF Reply

\* A request that stops at an error has listed only what it had done; the statement that
\* failed may have made one row x more.
LEMMA StopsWell ==
    ASSUME NEW rws, NEW s \in Slot, NEW u \in Slot, Ledger(s, rws),
           u.done = s.done, u.fail = s.fail, u.miss = s.miss,
           \/ u.made = s.made
           \/ /\ \E x \in Ids \ s.made : u.made = s.made \cup {x} /\ rws[x].st # "free"
              /\ s.fail = "stop" => Creating(s)
    PROVE  Reply(Stop(u), rws)
  <1> DEFINE made == u.made
  <1>1. PICK c \in Slot : c = Stop(u)
    BY StopFields
  <1>2. /\ c.todo = <<>> /\ c.done = s.done /\ c.error
        /\ c.miss = s.miss /\ c.fail = s.fail /\ c.made = made
    BY <1>1, StopFields
  <1>3. Listed(c) = Listed(s)
    BY <1>2 DEF Listed
  <1>4. SaysDeleted(c, rws)
    <2> SUFFICES ASSUME s.fail = "stop", s.miss = "skip", made = {}, NEW n \in DOMAIN s.done
                 PROVE  rws[s.done[n]].st # "live"
      BY <1>2 DEF SaysDeleted
    <2>1. s.done[n] \in Listed(s)
      BY DEF Listed
    <2>2. s.made = {}
      OBVIOUS
    <2> QED
      BY <2>1, <2>2 DEF Ledger, Deleting, Creating, Dead
  <1>5. SaysMade(c, rws)
    <2> SUFFICES ASSUME s.fail = "stop", made # {}
                 PROVE  /\ \A i \in made : rws[i].st # "free"
                        /\ Listed(s) \subseteq made /\ Cardinality(Listed(s)) = Len(s.done)
                        /\ made # Listed(s) => Cardinality(made \ Listed(s)) = 1
      BY <1>2, <1>3 DEF SaysMade
    <2>1. Creating(s)
      BY DEF Ledger, Deleting
    <2>2. Cardinality(Listed(s)) = Len(s.done) /\ s.made = Listed(s)
      BY <2>1, ListedCard DEF Creating
    <2>3. CASE made = s.made
      BY <2>2, <2>3 DEF Ledger
    <2>4. CASE \E x \in Ids \ s.made : made = s.made \cup {x} /\ rws[x].st # "free"
      <3>1. PICK x \in Ids \ s.made : made = s.made \cup {x} /\ rws[x].st # "free"
        BY <2>4
      <3>2. made \ Listed(s) = {x}
        BY <2>2, <3>1
      <3>3. Cardinality(made \ Listed(s)) = 1
        BY <3>2, FS_Singleton
      <3> QED
        BY <2>2, <3>1, <3>3 DEF Ledger
    <2> QED
      BY <2>3, <2>4
  <1> QED
    BY <1>1, <1>2, <1>4, <1>5 DEF Reply

\* The slot or the reply that a step leaves.
Settled(c, rws) == c \in Slot /\ IF c.todo = <<>> THEN Reply(c, rws) ELSE SlotInv(c, rws)

\* A task is over: the others move up.
LEMMA TasksMoveUp ==
    ASSUME NEW s \in Slot, s.todo # <<>>, NEW l, l = Tail(s.todo)
    PROVE  \A n \in DOMAIN l : n + 1 \in DOMAIN s.todo /\ l[n] = s.todo[n + 1]
  BY TodoParts

\* A task on a row ends; if its id is listed as deleted, the row is.
LEMMA ClosesWell ==
    ASSUME NEW rws, NEW s \in Slot, s.todo # <<>>, Rest(s, rws), Ledger(s, rws), NEW b \in BOOLEAN,
           s.fail = "stop" => Head(s.todo).prog \notin MakeProgs,
           b /\ s.fail = "stop" /\ s.miss = "skip" => Dead(Head(s.todo).id, rws)
    PROVE  Settled(Close(s, b), rws)
  <1> DEFINE t == Head(s.todo)
             x == IF t.new = None THEN t.id ELSE t.new
  <1>1. PICK c \in Slot : c = Close(s, b)
    BY CloseMoves
  <1>2. Rest(c, rws) /\ Front(c, rws)
    BY <1>1, CloseMoves
  <1>3. /\ c.todo = Tail(s.todo) /\ c.done = IF b THEN Append(s.done, x) ELSE s.done
        /\ c.miss = s.miss /\ c.fail = s.fail /\ c.made = s.made
    BY <1>1, CloseFields
  <1>4. /\ \A n \in DOMAIN c.todo : n + 1 \in DOMAIN s.todo /\ c.todo[n] = s.todo[n + 1]
        /\ 1 \in DOMAIN s.todo /\ t = s.todo[1] /\ t \in Task
    BY <1>3, TasksMoveUp, TodoParts
  <1>5. ASSUME s.fail = "stop", s.miss = "skip"
        PROVE  Deleting(c, rws)
    <2>1. Deleting(s, rws)
      BY <1>4, <1>5 DEF Ledger, Creating
    <2>2. x = t.id /\ x \in Ids
      BY <1>4, <2>1, TaskParts DEF Deleting, Rest
    <2>3. \A n \in DOMAIN c.done : Dead(c.done[n], rws)
      <3>1. CASE b
        <4>1. /\ s.done \in Seq(Ids) /\ DOMAIN s.done = 1..Len(s.done) /\ Len(s.done) \in Nat
          BY SlotFields, LenProperties
        <4>2. /\ c.done \in Seq(Ids) /\ Len(c.done) = Len(s.done) + 1
              /\ \A n \in 1..Len(s.done) : c.done[n] = s.done[n]
              /\ c.done[Len(s.done) + 1] = x
          BY <1>3, <2>2, <3>1, <4>1, AppendProperties
        <4>3. DOMAIN c.done = 1..(Len(s.done) + 1)
          BY <4>2, LenProperties
        <4> QED
          BY <1>5, <2>1, <2>2, <3>1, <4>1, <4>2, <4>3 DEF Deleting
      <3>2. CASE ~b
        BY <1>3, <2>1, <3>2 DEF Deleting
      <3> QED
        BY <3>1, <3>2
    <2> QED
      BY <1>3, <1>4, <2>1, <2>3 DEF Deleting
  <1>6. Ledger(c, rws)
    BY <1>3, <1>4, <1>5 DEF Ledger
  <1> QED
    BY <1>1, <1>2, <1>6, EndsWell DEF Settled, SlotInv

\* A statement fails, or a row is not there.
LEMMA ObeysWell ==
    ASSUME NEW rws, NEW s \in Slot, s.todo # <<>>, Rest(s, rws), Ledger(s, rws), NEW policy \in Policy,
           policy = s.fail \/ (policy = s.miss /\ Head(s.todo).prog \notin MakeProgs)
    PROVE  LET c == Obey(s, policy)
           IN  Settled(c, rws) /\ c.held = {} /\ (c.todo = <<>> \/ c.todo = Tail(s.todo))
  <1>1. CASE policy = "stop"
    <2>1. Obey(s, policy) = Stop(s)
      BY <1>1 DEF Obey
    <2>3. Reply(Stop(s), rws)
      BY StopsWell
    <2> QED
      BY <2>1, <2>3, StopFields DEF Settled, Reply
  <1>2. CASE policy # "stop"
    <2>1. PICK b \in BOOLEAN : b = (policy = "count")
      OBVIOUS
    <2>2. Obey(s, policy) = Close(s, b)
      BY <1>2, <2>1 DEF Obey
    <2>3. /\ s.fail = "stop" => Head(s.todo).prog \notin MakeProgs
          /\ ~(b /\ s.fail = "stop" /\ s.miss = "skip")
      BY <1>2, <2>1 DEF Ledger
    <2>4. Settled(Close(s, b), rws)
      BY <2>3, ClosesWell
    <2> QED
      BY <2>2, <2>4, CloseFields
  <1> QED
    BY <1>1, <1>2

\* One task less to do, one more done.
LEMMA OneOver ==
    ASSUME NEW todo, NEW done, NEW todo2, NEW done2, NEW total, Len(done) \in Nat, Len(todo) \in Nat,
           Len(done2) = Len(done) + 1, Len(todo2) = Len(todo) - 1, Len(done) + Len(todo) = total
    PROVE  Len(done2) + Len(todo2) = total
  OBVIOUS

\* The history notes the row of the task.
Credited(s) == [s EXCEPT !.made = s.made \cup {Head(s.todo).new}]

\* The row of a task has been inserted; the answer may have been lost.
LEMMA InsertsWell ==
    ASSUME NEW rws, NEW s \in Slot, s.todo # <<>>, Rest(s, rws), Ledger(s, rws),
           Head(s.todo).new \in Ids, Head(s.todo).new \notin s.made,
           rws[Head(s.todo).new].st # "free",
           Len(Head(s.todo).prog) = 1,
           NEW u, u = Credited(s),
           NEW c, c = Step(u, Head(s.todo)) \/ c = Obey(u, s.fail)
    PROVE  Settled(c, rws) /\ c.held = {} /\ (c.todo = <<>> \/ c.todo = Tail(s.todo))
  <1> DEFINE t == Head(s.todo)
             x == t.new
  <1>1. /\ u \in Slot /\ u.todo = s.todo /\ u.done = s.done /\ u.error = s.error
        /\ u.miss = s.miss /\ u.fail = s.fail /\ u.total = s.total
        /\ u.made = s.made \cup {x}
    BY DEF Slot, Credited
  <1>2. Rest(u, rws)
    BY <1>1 DEF Rest, Unbegun
  <1>3. /\ 1 \in DOMAIN s.todo /\ t = s.todo[1] /\ t \in Task /\ x # None
        /\ Len(s.todo) \in Nat \ {0}
        /\ Tail(s.todo) \in Seq(Task) /\ Len(Tail(s.todo)) = Len(s.todo) - 1
    BY TodoParts, CatalogAssumption
  <1>4. s.fail = "stop" => s.miss = "skip" /\ Creating(s)
    BY <1>3 DEF Ledger, Deleting
  <1>5. \A i \in u.made : rws[i].st # "free"
    BY <1>1 DEF Ledger
  <1>6. ASSUME NEW b \in BOOLEAN, b \/ s.fail # "stop"
        PROVE  Settled(Close(u, b), rws) /\ Close(u, b).held = {} /\ Close(u, b).todo = Tail(s.todo)
    <2>1. PICK d \in Slot : d = Close(u, b)
      BY <1>1, <1>2, CloseMoves
    <2>2. Rest(d, rws) /\ Front(d, rws)
      BY <1>1, <1>2, <2>1, CloseMoves
    <2>3. /\ d.todo = Tail(s.todo) /\ d.done = IF b THEN Append(s.done, x) ELSE s.done
          /\ d.miss = s.miss /\ d.fail = s.fail /\ d.made = u.made /\ d.held = {} /\ d.total = s.total
      <3>1. u.todo # <<>> /\ Head(u.todo) = t
        BY <1>1
      <3>2. /\ d.todo = Tail(u.todo)
            /\ d.done = IF b THEN Append(u.done, IF Head(u.todo).new = None THEN Head(u.todo).id ELSE Head(u.todo).new)
                             ELSE u.done
            /\ d.miss = u.miss /\ d.fail = u.fail /\ d.made = u.made /\ d.held = {} /\ d.total = u.total
        BY <1>1, <2>1, <3>1, CloseFields
      <3> QED
        BY <1>1, <1>3, <3>1, <3>2
    <2>4. ASSUME s.fail = "stop"
          PROVE  Creating(d)
      <3>1. /\ Creating(s) /\ x \notin Listed(s)
        BY <1>4, <2>4 DEF Creating
      <3>2. /\ s.done \in Seq(Ids) /\ DOMAIN s.done = 1..Len(s.done) /\ Len(s.done) \in Nat
        BY SlotFields, LenProperties
      <3>3. d.done = Append(s.done, x)
        BY <1>6, <2>3, <2>4
      <3>4. /\ d.done \in Seq(Ids) /\ Len(d.done) = Len(s.done) + 1
            /\ \A n \in 1..Len(s.done) : d.done[n] = s.done[n]
            /\ d.done[Len(s.done) + 1] = x
        BY <3>2, <3>3, AppendProperties
      <3>5. DOMAIN d.done = 1..(Len(s.done) + 1)
        BY <3>4, LenProperties
      <3>6. \A n \in 1..Len(s.done) : s.done[n] \in Listed(s)
        BY <3>2 DEF Listed
      <3>7. Injective(d)
        <4> SUFFICES ASSUME NEW m \in 1..(Len(s.done) + 1), NEW n \in 1..(Len(s.done) + 1), d.done[m] = d.done[n]
                     PROVE  m = n
          BY <3>5 DEF Injective
        <4>1. \A k \in 1..Len(s.done) : d.done[k] # x
          BY <3>1, <3>4, <3>6
        <4>2. CASE m = Len(s.done) + 1 \/ n = Len(s.done) + 1
          BY <3>2, <3>4, <4>1, <4>2
        <4>3. CASE m \in 1..Len(s.done) /\ n \in 1..Len(s.done)
          <5>1. s.done[m] = s.done[n]
            BY <3>4, <4>3
          <5> QED
            BY <3>1, <3>2, <4>3, <5>1 DEF Injective, Creating
        <4> QED
          BY <3>2, <4>2, <4>3
      <3>8. Listed(d) = Listed(s) \cup {x}
        <4>1. \A y \in Listed(d) : y \in Listed(s) \cup {x}
          BY <3>2, <3>4, <3>5, <3>6 DEF Listed
        <4>2. \A y \in Listed(s) : y \in Listed(d)
          BY <3>2, <3>4, <3>5 DEF Listed
        <4>3. x \in Listed(d)
          BY <3>2, <3>4, <3>5 DEF Listed
        <4> QED
          BY <4>1, <4>2, <4>3
      <3>9. \A n \in DOMAIN d.todo : n + 1 \in DOMAIN s.todo /\ d.todo[n] = s.todo[n + 1]
        BY <2>3, TasksMoveUp
      <3>10. Len(d.done) + Len(d.todo) = d.total
        <4>1. Len(d.todo) = Len(s.todo) - 1 /\ d.total = s.total
          BY <1>3, <2>3
        <4>2. Len(s.done) + Len(s.todo) = s.total
          BY <3>1 DEF Creating
        <4>3. Len(d.done) = Len(s.done) + 1 /\ Len(s.done) \in Nat /\ Len(s.todo) \in Nat
          BY <1>3, <3>2, <3>4
        <4>4. Len(d.done) + Len(d.todo) = s.total
          BY <4>1, <4>2, <4>3, OneOver
        <4> QED
          BY <4>1, <4>4
      <3> QED
        BY <1>1, <2>3, <3>1, <3>7, <3>8, <3>9, <3>10 DEF Creating
    <2>5. Ledger(d, rws)
      BY <1>4, <1>5, <2>3, <2>4 DEF Ledger
    <2> QED
      BY <2>1, <2>2, <2>3, <2>5, EndsWell DEF Settled, SlotInv
  <1>7. CASE c = Step(u, t)
    <2>1. c = Close(u, TRUE)
      BY <1>7 DEF Step
    <2> QED
      BY <1>6, <2>1
  <1>8. CASE c = Obey(u, s.fail) /\ s.fail = "stop"
    <2>1. c = Stop(u) /\ x \in Ids \ s.made
      BY <1>8 DEF Obey
    <2>3. \E y \in Ids \ s.made : u.made = s.made \cup {y} /\ rws[y].st # "free"
      BY <1>1, <2>1
    <2>4. Reply(Stop(u), rws)
      BY <1>1, <1>4, <1>8, <2>3, StopsWell
    <2> QED
      BY <1>1, <2>1, <2>4, StopFields DEF Settled, Reply
  <1>9. CASE c = Obey(u, s.fail) /\ s.fail # "stop"
    <2>1. PICK b \in BOOLEAN : b = (s.fail = "count")
      OBVIOUS
    <2>2. c = Close(u, b)
      BY <1>9, <2>1 DEF Obey
    <2> QED
      BY <1>6, <1>9, <2>2
  <1> QED
    BY <1>7, <1>8, <1>9

\* A statement of a task has worked and another one follows: the task is u now.
Moves(s, c, u) ==
    /\ c \in Slot /\ u \in Task
    /\ c.todo = <<u>> \o Tail(s.todo)
    /\ c.done = s.done /\ c.error = s.error /\ c.miss = s.miss /\ c.fail = s.fail
    /\ c.total = s.total /\ c.made = s.made

LEMMA MovesWell ==
    ASSUME NEW rws, NEW s \in Slot, s.todo # <<>>, Rest(s, rws), Ledger(s, rws), NEW c, NEW u, Moves(s, c, u),
           Makes(u) \/ Works(u), u.new = Head(s.todo).new,
           Head(s.todo).prog \notin MakeProgs,
           Head(s.todo).prog \in DropProgs \cup DictProgs => u.prog \in DropProgs \cup DictProgs
    PROVE  /\ c \in Slot /\ c.todo # <<>> /\ Head(c.todo) = u /\ Rest(c, rws) /\ Ledger(c, rws)
           /\ Len(c.todo) = Len(s.todo) /\ DOMAIN c.todo = DOMAIN s.todo
           /\ \A n \in DOMAIN s.todo : c.todo[n].new = s.todo[n].new
  <1>1. /\ c.todo # <<>> /\ Len(c.todo) = Len(s.todo) /\ DOMAIN c.todo = DOMAIN s.todo
        /\ 1 \in DOMAIN s.todo /\ Head(s.todo) = s.todo[1] /\ DOMAIN s.todo = 1..Len(s.todo)
        /\ Len(s.todo) \in Nat \ {0}
        /\ c.todo[1] = u /\ Head(c.todo) = u
        /\ \A n \in 2..Len(s.todo) : c.todo[n] = s.todo[n]
    BY TodoMoved, TodoParts DEF Moves
  <1>2. \A n \in DOMAIN s.todo : n = 1 \/ (n > 1 /\ c.todo[n] = s.todo[n])
    BY <1>1
  <1>3. Rest(c, rws)
    <2>1. c.error = s.error /\ c.fail = s.fail
      BY DEF Moves
    <2>2. \A n \in DOMAIN s.todo : Makes(c.todo[n]) \/ Works(c.todo[n])
      BY <1>1, <1>2 DEF Rest
    <2>3. \A n \in DOMAIN s.todo :
              n > 1 => Unbegun(c, c.todo[n]) /\ (c.todo[n].new # None => rws[c.todo[n].new].st = "free")
      BY <1>2, <2>1 DEF Rest, Unbegun
    <2> QED
      BY <1>1, <2>1, <2>2, <2>3 DEF Rest
  <1>4. s.fail = "stop" /\ s.miss = "skip" => Deleting(c, rws)
    BY <1>1, <1>2 DEF Ledger, Creating, Deleting, Moves
  <1>5. Ledger(c, rws)
    BY <1>1, <1>2, <1>4 DEF Ledger, Moves
  <1> QED
    BY <1>1, <1>2, <1>3, <1>5 DEF Moves

-----------------------------------------------------------------------------
(***************************************************************************)
(* What one request's statement does to the others.                        *)
(***************************************************************************)

\* A row keeps its table and its id; a deleted row does not change.
Evolves(rws, rws2) ==
    \A i \in Ids : /\ rws[i].st # "free" => rws2[i].st # "free" /\ rws2[i].tab = rws[i].tab
                   /\ Dead(i, rws) => rws2[i] = rws[i]

\* The rows that s is to create after its first task are still to be created.
LEMMA RestStable ==
    ASSUME NEW rws, NEW rws2, NEW s \in Slot, Rest(s, rws),
           \A n \in DOMAIN s.todo : n > 1 /\ s.todo[n].new # None => rws2[s.todo[n].new].st = "free"
    PROVE  Rest(s, rws2)
  BY DEF Rest

\* What is deleted stays deleted, what is made stays made.
LEMMA LedgerStable ==
    ASSUME NEW rws, NEW rws2, NEW s \in Slot, Ledger(s, rws), Evolves(rws, rws2)
    PROVE  Ledger(s, rws2)
  <1>1. \A i \in s.made : rws2[i].st # "free"
    BY SlotFields DEF Ledger, Evolves
  <1>2. ASSUME Deleting(s, rws)
        PROVE  Deleting(s, rws2)
    <2>1. \A n \in DOMAIN s.done : s.done[n] \in Ids
      BY SlotFields, ElementOfSeq, LenProperties
    <2> QED
      BY <1>2, <2>1 DEF Deleting, Evolves, Dead
  <1> QED
    BY <1>1, <1>2 DEF Ledger

\* A row that is held cannot be changed by others; one that was loaded stays in its table.
LEMMA FrontStable ==
    ASSUME NEW rws \in [Ids -> Row], NEW rws2, NEW s \in Slot, Rest(s, rws), Front(s, rws), Evolves(rws, rws2),
           \A i \in s.held : rws2[i] = rws[i],
           \A n \in DOMAIN s.todo : s.todo[n].new # None => rws2[s.todo[n].new].st = "free"
    PROVE  Front(s, rws2)
  <1>1. CASE s.todo = <<>>
    BY <1>1 DEF Front
  <1>2. CASE s.todo # <<>>
    <2> DEFINE t == Head(s.todo)
    <2>1. 1 \in DOMAIN s.todo /\ t = s.todo[1] /\ t \in Task
      BY <1>2, TodoParts
    <2>2. t.prog \in DropProgs \cup DictProgs => t.id \in Ids
      BY <2>1, ProgKinds DEF Rest, Makes, Works
    <2>3. t.prog \in DropProgs \cup DictProgs /\ Loaded(t, rws) => Loaded(t, rws2)
      BY <2>2 DEF Loaded, Evolves
    <2>4. t.prog \in DictProgs /\ Loaded(t, rws) /\ rws[t.id].st # "live" => rws2[t.id].st # "live"
      <3> SUFFICES ASSUME t.id \in Ids, Loaded(t, rws), rws[t.id].st # "live"
                   PROVE  rws2[t.id].st # "live"
        BY <2>2
      <3>1. Dead(t.id, rws)
        BY DEF Loaded, Dead, Row
      <3> QED
        BY <3>1 DEF Evolves
    <2>5. Dict1 \in DictProgs \ {Dict5} /\ <<"drop">> \in DropProgs
      BY ProgKinds DEF DictProgs
    <2>6. \A i \in s.held : /\ rws2[i].st = "live"
                            /\ i = t.id \/ (rws2[i].tab = "item" /\ rws2[i].ref = t.ref)
      BY <1>2 DEF Front
    <2>7. t.prog = Dict1 => t.id \in s.held \/ rws2[t.id].st # "live"
      BY <1>2, <2>4, <2>5 DEF Front
    <2>8. /\ t.prog = <<"drop">> /\ s.fail # "count" => Loaded(t, rws2)
          /\ t.prog \in DictProgs \ {Dict5} => Loaded(t, rws2)
      BY <1>2, <2>3, <2>5 DEF Front
    <2>9. t.new # None => rws2[t.new].st = "free"
      BY <2>1
    <2> QED
      BY <1>2, <2>6, <2>7, <2>8, <2>9 DEF Front
  <1> QED
    BY <1>1, <1>2

\* A request that no other has disturbed.
LEMMA Undisturbed ==
    ASSUME NEW rws \in [Ids -> Row], NEW rws2, NEW s, SlotInv(s, rws), Evolves(rws, rws2),
           \A i \in s.held : rws2[i] = rws[i],
           \A n \in DOMAIN s.todo : s.todo[n].new # None => rws2[s.todo[n].new].st = "free"
    PROVE  SlotInv(s, rws2)
  BY RestStable, LedgerStable, FrontStable DEF SlotInv

\* The ids of the rows to come are ids, of rows that are not there yet.
LEMMA NewsFree ==
    ASSUME NEW rws, NEW s, SlotInv(s, rws), NEW n \in DOMAIN s.todo, s.todo[n].new # None
    PROVE  s.todo[n].new \in Ids /\ rws[s.todo[n].new].st = "free"
  <1>1. s \in Slot /\ s.todo # <<>>
    BY EmptySeq DEF SlotInv
  <1>2. n \in Nat \ {0} /\ s.todo[n] \in Task /\ Head(s.todo) = s.todo[1]
    BY <1>1, TodoParts
  <1>3. s.todo[n].new \in Ids
    BY <1>2 DEF Task
  <1>4. CASE n = 1
    BY <1>1, <1>2, <1>3, <1>4 DEF SlotInv, Front
  <1>5. CASE n # 1
    BY <1>2, <1>3, <1>5 DEF SlotInv, Rest
  <1> QED
    BY <1>4, <1>5

-----------------------------------------------------------------------------
(***************************************************************************)
(* A request moves on.                                                     *)
(***************************************************************************)

\* The ids that c is to use are its own.
Sparse(r, c) ==
    \A n \in DOMAIN c.todo : c.todo[n].new # None =>
        /\ \A m \in DOMAIN c.todo : c.todo[m].new = c.todo[n].new => m = n
        /\ \A o \in Requests \ {r} : \A m \in DOMAIN slot[o].todo : slot[o].todo[m].new # c.todo[n].new

\* So are the rows it holds.
Apart(r, c) == \A o \in Requests \ {r} : c.held \cap slot[o].held = {}

\* An idle request.
LEMMA IdleWell ==
    /\ Idle \in Slot /\ Idle.todo = <<>> /\ Idle.held = {} /\ Len(Idle.todo) = 0 /\ DOMAIN Idle.todo = {}
    /\ \A rws : SlotInv(Idle, rws) /\ Reply(Idle, rws)
  <1>1. /\ Idle.todo = <<>> /\ Idle.done = <<>> /\ Idle.held = {} /\ Idle.want = {} /\ Idle.made = {}
        /\ Idle.error = FALSE /\ Idle.miss = "stop" /\ Idle.fail = "stop"
    BY DEF Idle, Asked
  <1>2. Idle \in Slot
    BY EmptySeq DEF Idle, Asked, Slot, Policy
  <1>3. Len(Idle.todo) = 0 /\ DOMAIN Idle.todo = {}
    BY <1>1
  <1>4. ASSUME NEW rws
        PROVE  SlotInv(Idle, rws) /\ Reply(Idle, rws)
    <2>1. Rest(Idle, rws) /\ Front(Idle, rws) /\ Ledger(Idle, rws)
      BY <1>1, <1>3 DEF Rest, Front, Ledger
    <2> QED
      BY <1>1, <1>2, <2>1, EndsWell DEF SlotInv
  <1> QED
    BY <1>1, <1>2, <1>3, <1>4

\* A step that leaves r with c, and the others undisturbed.
LEMMA Lands ==
    ASSUME IInv, NEW r \in Requests, NEW c, Goto(r, c), Settled(c, rows'),
           rows' \in [Ids -> Row], Soft',
           \A o \in Requests \ {r} : SlotInv(slot[o], rows'),
           Len(c.todo) <= MaxTasks[r], Sparse(r, c), Apart(r, c)
    PROVE  IInv'
  <1> DEFINE d == IF c.todo = <<>> THEN Idle ELSE c
  <1>1. slot \in [Requests -> Slot] /\ d \in Slot
    BY IdleWell DEF IInv, Settled
  <1>2. /\ slot' = [slot EXCEPT ![r] = d] /\ slot'[r] = d
        /\ \A o \in Requests \ {r} : slot'[o] = slot[o]
        /\ reply' = (IF c.todo = <<>> THEN c ELSE Idle) /\ scope' = scope
    BY <1>1 DEF Goto
  <1>3. slot' \in [Requests -> Slot]
    BY <1>1, <1>2
  <1>4. Reply(reply', rows')
    BY <1>2, IdleWell DEF Settled
  <1>5. SlotInv(d, rows')
    BY IdleWell DEF Settled
  <1>6. MaxTasks[r] \in Nat \ {0}
    BY CatalogAssumption
  <1>7. Len(d.todo) <= MaxTasks[r]
    BY <1>6, IdleWell
  <1>8. \A o \in Requests : SlotInv(slot'[o], rows') /\ Len(slot'[o].todo) <= MaxTasks[o]
    BY <1>2, <1>5, <1>7 DEF IInv
  <1>9. Sparse(r, d) /\ Apart(r, d)
    BY IdleWell DEF Sparse, Apart
  <1>10. Distinct'
    <2> SUFFICES ASSUME NEW q \in Requests, NEW o \in Requests,
                        NEW n \in DOMAIN slot'[q].todo, NEW m \in DOMAIN slot'[o].todo,
                        slot'[q].todo[n].new # None, slot'[q].todo[n].new = slot'[o].todo[m].new
                 PROVE  q = o /\ n = m
      BY DEF Distinct
    <2>1. CASE q = r /\ o = r
      BY <1>2, <1>9, <2>1 DEF Sparse
    <2>2. CASE q = r /\ o # r
      BY <1>2, <1>9, <2>2 DEF Sparse
    <2>3. CASE q # r /\ o = r
      BY <1>2, <1>9, <2>3 DEF Sparse
    <2>4. CASE q # r /\ o # r
      BY <1>2, <2>4 DEF IInv, Distinct
    <2> QED
      BY <2>1, <2>2, <2>3, <2>4
  <1>11. Disjoint'
    <2> SUFFICES ASSUME NEW q \in Requests, NEW o \in Requests, q # o
                 PROVE  slot'[q].held \cap slot'[o].held = {}
      BY DEF Disjoint
    <2>1. CASE q = r
      BY <1>2, <1>9, <2>1 DEF Apart
    <2>2. CASE o = r
      <3>1. d.held \cap slot[q].held = {}
        BY <1>9, <2>2 DEF Apart
      <3> QED
        BY <1>2, <2>2, <3>1
    <2>3. CASE q # r /\ o # r
      BY <1>2, <2>3 DEF IInv, Disjoint
    <2> QED
      BY <2>1, <2>2, <2>3
  <1> QED
    BY <1>2, <1>3, <1>4, <1>8, <1>10, <1>11 DEF IInv

\* The list of c is what is left of the list of r, or names the same rows to come.
Shrinks(r, c) ==
    \/ c.todo = <<>>
    \/ c.todo = Tail(slot[r].todo)
    \/ /\ Len(c.todo) = Len(slot[r].todo) /\ DOMAIN c.todo = DOMAIN slot[r].todo
       /\ \A n \in DOMAIN slot[r].todo : c.todo[n].new = slot[r].todo[n].new

LEMMA SparseStays ==
    ASSUME IInv, NEW r \in Requests, slot[r].todo # <<>>, NEW c, Shrinks(r, c)
    PROVE  Sparse(r, c) /\ Len(c.todo) <= MaxTasks[r]
  <1>1. PICK s \in Slot : s = slot[r]
    BY DEF IInv
  <1>2. /\ Len(s.todo) \in Nat \ {0} /\ Len(s.todo) <= MaxTasks[r] /\ MaxTasks[r] \in Nat \ {0}
        /\ s.todo # <<>>
    BY <1>1, TodoParts, CatalogAssumption DEF IInv
  <1>3. CASE c.todo = <<>>
    BY <1>2, <1>3 DEF Sparse
  <1>4. CASE c.todo = Tail(s.todo)
    <2>1. \A n \in DOMAIN c.todo : n + 1 \in DOMAIN s.todo /\ c.todo[n] = s.todo[n + 1] /\ n \in Nat
      BY <1>2, <1>4, TasksMoveUp, TodoParts
    <2>2. Len(c.todo) <= MaxTasks[r]
      <3>1. Len(c.todo) = Len(s.todo) - 1
        BY <1>2, <1>4, TodoParts
      <3> QED
        BY <1>2, <3>1
    <2>3. ASSUME NEW n \in DOMAIN c.todo, c.todo[n].new # None,
                 NEW o \in Requests, NEW m \in DOMAIN slot[o].todo, slot[o].todo[m].new = c.todo[n].new
          PROVE  o = r /\ m = n + 1
      BY <1>1, <2>1, <2>3 DEF IInv, Distinct
    <2>4. ASSUME NEW n \in DOMAIN c.todo, c.todo[n].new # None, NEW m \in DOMAIN c.todo, c.todo[m].new = c.todo[n].new
          PROVE  m = n
      <3>1. m + 1 = n + 1
        BY <1>1, <2>1, <2>4 DEF IInv, Distinct
      <3> QED
        BY <2>1, <3>1
    <2> QED
      BY <2>2, <2>3, <2>4 DEF Sparse
  <1>5. CASE Len(c.todo) = Len(s.todo) /\ DOMAIN c.todo = DOMAIN s.todo
             /\ \A n \in DOMAIN s.todo : c.todo[n].new = s.todo[n].new
    <2>1. Sparse(r, c)
      BY <1>1, <1>5 DEF IInv, Distinct, Sparse
    <2> QED
      BY <1>2, <1>5, <2>1
  <1> QED
    BY <1>1, <1>3, <1>4, <1>5 DEF Shrinks

\* A statement that changes no row.
LEMMA Reads ==
    ASSUME IInv, NEW r \in Requests, slot[r].todo # <<>>, NEW c, Goto(r, c), rows' = rows,
           Settled(c, rows), Shrinks(r, c), Apart(r, c)
    PROVE  IInv'
  <1>1. Sparse(r, c) /\ Len(c.todo) <= MaxTasks[r]
    BY SparseStays
  <1>2. /\ Settled(c, rows') /\ rows' \in [Ids -> Row] /\ Soft'
        /\ \A o \in Requests \ {r} : SlotInv(slot[o], rows')
    BY DEF IInv, Soft
  <1> QED
    BY <1>1, <1>2, Lands

\* A statement that changes rows which the other requests neither hold nor are to create.
LEMMA Changes ==
    ASSUME IInv, NEW r \in Requests, slot[r].todo # <<>>, NEW c, Goto(r, c),
           rows' \in [Ids -> Row], Soft', Evolves(rows, rows'),
           \A o \in Requests \ {r} :
               /\ \A i \in slot[o].held : rows'[i] = rows[i]
               /\ \A n \in DOMAIN slot[o].todo : slot[o].todo[n].new # None => rows'[slot[o].todo[n].new].st = "free",
           Settled(c, rows'), c.todo = <<>> \/ c.todo = Tail(slot[r].todo), c.held = {}
    PROVE  IInv'
  <1>1. Sparse(r, c) /\ Len(c.todo) <= MaxTasks[r]
    BY SparseStays DEF Shrinks
  <1>2. Apart(r, c)
    BY DEF Apart
  <1>3. \A o \in Requests \ {r} : SlotInv(slot[o], rows')
    BY Undisturbed DEF IInv
  <1> QED
    BY <1>1, <1>2, <1>3, Lands

-----------------------------------------------------------------------------
(***************************************************************************)
(* The statements.                                                         *)
(***************************************************************************)

\* A request that is busy, and its task.
LEMMA Current ==
    ASSUME IInv, NEW r \in Requests, Busy(r)
    PROVE  /\ slot[r] \in Slot /\ slot[r].todo # <<>> /\ Head(slot[r].todo) = Cur(r)
           /\ Rest(slot[r], rows) /\ Front(slot[r], rows) /\ Ledger(slot[r], rows)
           /\ Cur(r) \in Task /\ Cur(r).prog \in Programs /\ (Makes(Cur(r)) \/ Works(Cur(r)))
           /\ 1 \in DOMAIN slot[r].todo /\ slot[r].todo[1] = Cur(r)
           /\ Cur(r).prog \notin {Dict1, Dict2} => slot[r].held = {}
           /\ Cur(r).prog \notin MakeProgs \cup PickProgs => Works(Cur(r)) /\ Cur(r).new = None /\ Cur(r).id \in Ids
  <1>1. PICK s \in Slot : s = slot[r]
    BY DEF IInv
  <1>2. s.todo # <<>> /\ Head(s.todo) = Cur(r) /\ Rest(s, rows) /\ Front(s, rows) /\ Ledger(s, rows)
    BY <1>1 DEF IInv, SlotInv, Busy, Cur
  <1>3. Cur(r) \in Task /\ 1 \in DOMAIN s.todo /\ s.todo[1] = Cur(r)
    BY <1>2, TodoParts
  <1>4. Makes(Cur(r)) \/ Works(Cur(r))
    BY <1>2, <1>3 DEF Rest
  <1>5. Cur(r).prog \in Programs
    BY <1>3, <1>4, TaskParts
  <1>6. Cur(r).prog \notin {Dict1, Dict2} => s.held = {}
    BY <1>2 DEF Front
  <1>7. Cur(r).prog \notin MakeProgs \cup PickProgs => Works(Cur(r)) /\ Cur(r).new = None /\ Cur(r).id \in Ids
    BY <1>4 DEF Makes, Works
  <1> QED
    BY <1>1, <1>2, <1>3, <1>4, <1>5, <1>6, <1>7

\* An error, or a row that is not there: nothing happens to the rows.
LEMMA Obeys ==
    ASSUME IInv, NEW r \in Requests, Busy(r), NEW policy, Goto(r, Obey(slot[r], policy)), rows' = rows,
           policy = slot[r].fail \/ (policy = slot[r].miss /\ Cur(r).prog \notin MakeProgs)
    PROVE  IInv'
  <1>1. PICK s \in Slot : s = slot[r]
    BY Current
  <1>2. /\ s.todo # <<>> /\ Rest(s, rows) /\ Ledger(s, rows) /\ policy \in Policy
        /\ policy = s.fail \/ (policy = s.miss /\ Head(s.todo).prog \notin MakeProgs)
    BY <1>1, Current, SlotFields
  <1>3. PICK c : c = Obey(s, policy)
    OBVIOUS
  <1>4. Settled(c, rows) /\ c.held = {} /\ (c.todo = <<>> \/ c.todo = Tail(s.todo))
    BY <1>2, <1>3, ObeysWell
  <1>5. Shrinks(r, c) /\ Apart(r, c) /\ Goto(r, c)
    BY <1>1, <1>3, <1>4 DEF Shrinks, Apart
  <1> QED
    BY <1>1, <1>2, <1>4, <1>5, Reads

LEMMA FailKeeps ==
    ASSUME IInv, NEW r \in Requests, Fail(r)
    PROVE  IInv'
  BY Obeys DEF Fail

LEMMA RefuseKeeps ==
    ASSUME IInv, NEW r \in Requests, Refuse(r)
    PROVE  IInv'
  <1>1. Busy(r) /\ rows' = rows /\ Goto(r, Stop(slot[r]))
    BY DEF Refuse, At
  <1>2. PICK s \in Slot : s = slot[r]
    BY <1>1, Current
  <1>3. s.todo # <<>> /\ Ledger(s, rows)
    BY <1>1, <1>2, Current
  <1>4. PICK c : c = Stop(s)
    OBVIOUS
  <1>5. Reply(c, rows)
    BY <1>3, <1>4, StopsWell
  <1>6. c \in Slot /\ c.todo = <<>> /\ c.held = {}
    BY <1>4, StopFields
  <1>7. Settled(c, rows) /\ Shrinks(r, c) /\ Apart(r, c) /\ Goto(r, c)
    BY <1>1, <1>2, <1>4, <1>5, <1>6 DEF Settled, Shrinks, Apart
  <1> QED
    BY <1>1, <1>2, <1>3, <1>7, Reads

\* A statement has worked and is not the last of its task.
LEMMA StepMoves ==
    ASSUME NEW s \in Slot, s.todo # <<>>, NEW t \in Task, Len(t.prog) # 1, Tail(t.prog) \in Seq(Statements)
    PROVE  LET u == [t EXCEPT !.prog = Tail(t.prog)]
           IN  /\ u \in Task /\ u.prog = Tail(t.prog) /\ u.tab = t.tab /\ u.id = t.id /\ u.new = t.new /\ u.ref = t.ref
               /\ Moves(s, Step(s, t), u)
               /\ Step(s, t).held = s.held /\ Step(s, t).want = s.want
  <1>1. PICK u \in Task : u = [t EXCEPT !.prog = Tail(t.prog)]
    BY DEF Task
  <1>2. u.prog = Tail(t.prog) /\ u.tab = t.tab /\ u.id = t.id /\ u.new = t.new /\ u.ref = t.ref
    BY <1>1 DEF Task
  <1>3. LET c == Step(s, t)
        IN  /\ c.todo = <<u>> \o Tail(s.todo) /\ c.done = s.done /\ c.error = s.error
            /\ c.want = s.want /\ c.held = s.held
            /\ c.miss = s.miss /\ c.fail = s.fail
            /\ c.total = s.total /\ c.made = s.made
    BY <1>1, StepFields
  <1>4. <<u>> \o Tail(s.todo) \in Seq(Task)
    BY TodoMoved
  <1>5. Step(s, t) = [s EXCEPT !.todo = <<u>> \o Tail(s.todo)]
    BY <1>1 DEF Step, Slot
  <1>6. Step(s, t) \in Slot
    BY <1>4, <1>5 DEF Slot
  <1> QED
    BY <1>1, <1>2, <1>3, <1>6 DEF Moves

\* The same in the system: the task of r becomes u, c is the slot.
LEMMA Advances ==
    ASSUME IInv, NEW r \in Requests, Busy(r), NEW c, NEW u, Moves(slot[r], c, u), Goto(r, c), rows' = rows,
           Makes(u) \/ Works(u), u.new = Cur(r).new, Cur(r).prog \notin MakeProgs,
           Cur(r).prog \in DropProgs \cup DictProgs => u.prog \in DropProgs \cup DictProgs,
           Apart(r, c),
           c.todo # <<>> /\ Head(c.todo) = u => Front(c, rows)
    PROVE  IInv'
  <1>1. PICK s \in Slot : s = slot[r]
    BY Current
  <1>2. s.todo # <<>> /\ Rest(s, rows) /\ Ledger(s, rows) /\ Head(s.todo) = Cur(r)
    BY <1>1, Current
  <1>3. /\ c \in Slot /\ c.todo # <<>> /\ Head(c.todo) = u /\ Rest(c, rows) /\ Ledger(c, rows)
        /\ Len(c.todo) = Len(s.todo) /\ DOMAIN c.todo = DOMAIN s.todo
        /\ \A n \in DOMAIN s.todo : c.todo[n].new = s.todo[n].new
    BY <1>1, <1>2, MovesWell
  <1>4. Settled(c, rows) /\ Shrinks(r, c)
    BY <1>1, <1>3 DEF Settled, SlotInv, Shrinks
  <1> QED
    BY <1>1, <1>2, <1>4, Reads

LEMMA LoadProgs ==
    ASSUME NEW p \in {<<"load", "load", "write">>, <<"load", "write">>, <<"load", "drop">>}
    PROVE  /\ p \in EditProgs \cup DropProgs /\ Len(p) # 1
           /\ p \in EditProgs => Tail(p) \in EditProgs
           /\ p \in DropProgs => Tail(p) = <<"drop">>
  <1>1. CASE p = <<"load", "drop">>
    BY <1>1 DEF EditProgs, DropProgs
  <1>2. CASE p = <<"load", "write">>
    BY <1>2 DEF EditProgs, DropProgs
  <1>3. CASE p = <<"load", "load", "write">>
    BY <1>3 DEF EditProgs, DropProgs
  <1> QED
    BY <1>1, <1>2, <1>3

LEMMA LoadKeeps ==
    ASSUME IInv, NEW r \in Requests, Load(r)
    PROVE  IInv'
  <1> DEFINE t == Cur(r)
  <1>1. Busy(r) /\ rows' = rows /\ Head(t.prog) = "load"
    BY DEF Load, At
  <1>2. /\ t \in Task /\ t.prog \in Programs
        /\ slot[r] \in Slot /\ slot[r].todo # <<>>
    BY <1>1, Current
  <1>3. t.prog \in {<<"load", "load", "write">>, <<"load", "write">>, <<"load", "drop">>}
    BY <1>1, <1>2, ProgHeads
  <1>4. /\ t.prog \in EditProgs \cup DropProgs /\ Len(t.prog) # 1
        /\ t.prog \in EditProgs => Tail(t.prog) \in EditProgs
        /\ t.prog \in DropProgs => Tail(t.prog) = <<"drop">>
    BY <1>3, LoadProgs
  <1>5. /\ Works(t) /\ t.new = None /\ slot[r].held = {}
        /\ t.prog \notin MakeProgs \cup DictProgs
    <2>1. t.prog \notin MakeProgs \cup PickProgs \cup DictProgs /\ Dict1 \in DictProgs /\ Dict2 \in DictProgs
      BY <1>4, ProgKinds DEF DictProgs
    <2>2. t.prog \notin {Dict1, Dict2}
      BY <2>1
    <2> QED
      BY <1>1, <2>1, <2>2, Current
  <1>6. CASE ~Found(t)
    <2>1. Goto(r, Obey(slot[r], slot[r].miss))
      BY <1>6 DEF Load
    <2> QED
      BY <1>1, <1>5, <2>1, Obeys
  <1>7. CASE Found(t)
    <2>1. Tail(t.prog) \in Seq(Statements) /\ Tail(t.prog) \in EditProgs \cup DropProgs
      BY <1>4, ProgTypes, ProgKinds DEF Programs
    <2>2. PICK c : c = Step(slot[r], t)
      OBVIOUS
    <2>3. PICK u : u = [t EXCEPT !.prog = Tail(t.prog)]
      OBVIOUS
    <2>4. /\ u.prog = Tail(t.prog) /\ u.tab = t.tab /\ u.id = t.id /\ u.new = t.new
          /\ Moves(slot[r], c, u) /\ c.held = {}
      BY <1>2, <1>4, <1>5, <2>1, <2>2, <2>3, StepMoves
    <2>5. Works(u)
      BY <1>5, <2>1, <2>4 DEF Works
    <2>6. Goto(r, c)
      BY <1>7, <2>2 DEF Load
    <2>7. Loaded(u, rows)
      BY <1>7, <2>4 DEF Found, Loaded
    <2>8. u.prog \notin DictProgs /\ Dict1 \in DictProgs
      BY <2>1, <2>4, ProgKinds DEF DictProgs
    <2>9. ASSUME c.todo # <<>>, Head(c.todo) = u
          PROVE  Front(c, rows)
      BY <1>5, <2>4, <2>7, <2>8, <2>9 DEF Front
    <2>10. Apart(r, c)
      BY <2>4 DEF Apart
    <2>11. t.prog \in DropProgs \cup DictProgs => u.prog \in DropProgs \cup DictProgs
      BY <1>4, <1>5, <2>4, ProgKinds
    <2> QED
      BY <1>1, <1>5, <2>4, <2>5, <2>6, <2>9, <2>10, <2>11, Advances
  <1> QED
    BY <1>6, <1>7

\* A task that has read a column.
LEMMA Copied ==
    ASSUME NEW t \in Task, NEW x \in Vals \cup {None}
    PROVE  \E v \in Task : v = [t EXCEPT !.val = x] /\ v.prog = t.prog /\ v.new = t.new /\ v.id = t.id
  <1>1. PICK v : v = [t EXCEPT !.val = x]
    OBVIOUS
  <1>2. v \in Task
    BY <1>1 DEF Task
  <1>3. v.prog = t.prog /\ v.new = t.new /\ v.id = t.id
    BY <1>1 DEF Task
  <1> QED
    BY <1>1, <1>2, <1>3

LEMMA GetKeeps ==
    ASSUME IInv, NEW r \in Requests, Get(r)
    PROVE  IInv'
  <1> DEFINE t == Cur(r)
  <1>1. Busy(r) /\ rows' = rows /\ Head(t.prog) = "copy"
    BY DEF Get, At
  <1>2. /\ t \in Task /\ t.prog \in Programs /\ (Makes(t) \/ Works(t))
        /\ slot[r] \in Slot /\ slot[r].todo # <<>>
        /\ Front(slot[r], rows) /\ Head(slot[r].todo) = t
    BY <1>1, Current
  <1>3. t.prog = <<"copy", "insert">>
    BY <1>1, <1>2, ProgHeads
  <1>4. t.prog \in PickProgs /\ Len(t.prog) # 1 /\ Tail(t.prog) = <<"insert">>
    BY <1>2, <1>3, ProgLens, ProgTails DEF PickProgs, Dict1
  <1>5. t.prog \notin MakeProgs \cup EditProgs \cup DropProgs \cup DictProgs
    BY <1>4, ProgKinds
  <1>6. Makes(t) /\ t.new \in Ids /\ t.id \in Ids /\ rows[t.new].st = "free" /\ slot[r].held = {}
    <2>1. Makes(t) /\ t.new \in Ids /\ t.id \in Ids
      BY <1>2, <1>5 DEF Makes, Works
    <2>2. t.new # None /\ Dict1 \in DictProgs /\ Dict2 \in DictProgs
      BY <2>1, CatalogAssumption DEF DictProgs
    <2> QED
      BY <1>2, <1>5, <2>1, <2>2 DEF Front
  <1>7. CASE ~Found(t)
    <2>1. Goto(r, Obey(slot[r], slot[r].miss))
      BY <1>7 DEF Get
    <2> QED
      BY <1>1, <1>5, <2>1, Obeys
  <1>8. CASE Found(t)
    <2>1. rows[t.id].val \in Vals \cup {None}
      BY <1>6 DEF IInv, Row
    <2>2. PICK v \in Task : v = [t EXCEPT !.val = rows[t.id].val] /\ v.prog = t.prog /\ v.new = t.new /\ v.id = t.id
      BY <1>2, <2>1, Copied
    <2>3. v.prog = t.prog /\ v.new = t.new /\ v.id = t.id
      BY <2>2
    <2>4. Tail(v.prog) \in Seq(Statements) /\ Tail(v.prog) = <<"insert">> /\ Len(v.prog) # 1
      BY <1>4, <2>3, ProgTypes, ProgKinds DEF Programs
    <2>5. PICK c : c = Step(slot[r], v)
      OBVIOUS
    <2>6. PICK u : u = [v EXCEPT !.prog = Tail(v.prog)]
      OBVIOUS
    <2>7. /\ u.prog = <<"insert">> /\ u.new = t.new
          /\ Moves(slot[r], c, u) /\ c.held = {}
      BY <1>2, <1>6, <2>3, <2>4, <2>5, <2>6, StepMoves
    <2>8. Makes(u)
      BY <1>6, <2>7, ProgKinds DEF Makes
    <2>9. Goto(r, c)
      BY <1>8, <2>2, <2>5 DEF Get
    <2>10. u.prog \notin DictProgs \cup DropProgs /\ Dict1 \in DictProgs /\ u.prog # <<"drop">>
      BY <2>7, ProgKinds DEF DictProgs
    <2>11. ASSUME c.todo # <<>>, Head(c.todo) = u
           PROVE  Front(c, rows)
      BY <1>6, <2>7, <2>10, <2>11 DEF Front
    <2>12. Apart(r, c)
      BY <2>7 DEF Apart
    <2> QED
      BY <1>1, <1>5, <2>7, <2>8, <2>9, <2>11, <2>12, Advances
  <1> QED
    BY <1>7, <1>8

-----------------------------------------------------------------------------
(***************************************************************************)
(* The transaction.                                                        *)
(***************************************************************************)

\* A task that has read the code of its dictionary.
LEMMA Decoded ==
    ASSUME NEW t \in Task, NEW x \in Refs \cup {None}
    PROVE  \E v \in Task : v = [t EXCEPT !.ref = x] /\ v.prog = t.prog /\ v.new = t.new /\ v.id = t.id /\ v.tab = t.tab
  <1>1. PICK v : v = [t EXCEPT !.ref = x]
    OBVIOUS
  <1>2. v \in Task
    BY <1>1 DEF Task
  <1>3. v.prog = t.prog /\ v.new = t.new /\ v.id = t.id /\ v.tab = t.tab
    BY <1>1 DEF Task
  <1> QED
    BY <1>1, <1>2, <1>3

\* A task with another program.
LEMMA Reprogrammed ==
    ASSUME NEW t \in Task, NEW p \in Seq(Statements)
    PROVE  \E v \in Task : v = [t EXCEPT !.prog = p] /\ v.prog = p /\ v.new = t.new /\ v.id = t.id /\ v.tab = t.tab
  <1>1. PICK v : v = [t EXCEPT !.prog = p]
    OBVIOUS
  <1>2. v \in Task
    BY <1>1 DEF Task
  <1>3. v.prog = p /\ v.new = t.new /\ v.id = t.id /\ v.tab = t.tab
    BY <1>1 DEF Task
  <1> QED
    BY <1>1, <1>2, <1>3

\* A step that also takes a snapshot, or rows.
LEMMA Taking ==
    ASSUME NEW s \in Slot, NEW d, NEW u, Moves(s, d, u), NEW I \in SUBSET Ids,
           NEW c, c = [d EXCEPT !.want = I] \/ c = [d EXCEPT !.held = I]
    PROVE  /\ Moves(s, c, u)
           /\ c = [d EXCEPT !.want = I] => c.held = d.held
           /\ c = [d EXCEPT !.held = I] => c.held = I
  <1>1. d \in Slot
    BY DEF Moves
  <1>2. c \in Slot
    BY <1>1 DEF Slot
  <1>3. /\ c = [d EXCEPT !.want = I] => c.held = d.held
        /\ c = [d EXCEPT !.held = I] => c.held = I
    BY <1>1 DEF Slot
  <1>4. Moves(s, c, u)
    BY <1>1, <1>2 DEF Moves, Slot
  <1> QED
    BY <1>3, <1>4

\* The programs of a dictionary's deletion.
LEMMA DictParts ==
    /\ DictProgs \subseteq Programs /\ DictProgs \subseteq Seq(Statements)
    /\ Dict5 \in DictProgs /\ Dict4 \in DictProgs /\ Dict3 \in DictProgs /\ Dict2 \in DictProgs /\ Dict1 \in DictProgs
    /\ Len(Dict5) # 1 /\ Len(Dict4) # 1 /\ Len(Dict3) # 1 /\ Len(Dict2) # 1 /\ Len(Dict1) = 1
    /\ Len(<<"dict", "delete", "commit">>) # 1
    /\ <<"dict", "delete", "commit">> \in Seq(Statements)
    /\ \A p \in DictProgs : p \notin MakeProgs \cup PickProgs \cup EditProgs \cup DropProgs
  <1>1. DictProgs \subseteq Programs
    BY DEF Programs
  <1>2. DictProgs \subseteq Seq(Statements)
    BY <1>1, ProgTypes
  <1>3. /\ Dict5 \in DictProgs /\ Dict4 \in DictProgs /\ Dict3 \in DictProgs /\ Dict2 \in DictProgs
        /\ Dict1 \in DictProgs
    BY DEF DictProgs
  <1>4. /\ Len(Dict5) # 1 /\ Len(Dict4) # 1 /\ Len(Dict3) # 1 /\ Len(Dict2) # 1 /\ Len(Dict1) = 1
        /\ Len(<<"dict", "delete", "commit">>) # 1
    BY DEF Dict5, Dict4, Dict3, Dict2, Dict1
  <1>5. <<"dict", "delete", "commit">> \in Seq(Statements)
    BY DEF Statements
  <1>6. \A p \in DictProgs : p \notin MakeProgs \cup PickProgs \cup EditProgs \cup DropProgs
    BY ProgKinds
  <1> QED
    BY <1>1, <1>2, <1>3, <1>4, <1>5, <1>6

\* What is known while a dictionary is being deleted.
LEMMA InDict ==
    ASSUME IInv, NEW r \in Requests, Busy(r), Cur(r).prog \in DictProgs
    PROVE  /\ slot[r] \in Slot /\ slot[r].todo # <<>>
           /\ Cur(r) \in Task /\ Works(Cur(r)) /\ Cur(r).new = None /\ Cur(r).id \in Ids /\ Cur(r).tab = "dict"
           /\ Cur(r).prog \notin MakeProgs
           /\ Cur(r).prog # Dict5 => Loaded(Cur(r), rows)
           /\ Cur(r).prog \notin {Dict1, Dict2} => slot[r].held = {}
           /\ \A i \in slot[r].held :
                  /\ rows[i].st = "live"
                  /\ i = Cur(r).id \/ (rows[i].tab = "item" /\ rows[i].ref = Cur(r).ref)
           /\ Cur(r).prog = Dict1 => Cur(r).id \in slot[r].held \/ rows[Cur(r).id].st # "live"
  <1>1. Cur(r).prog \notin MakeProgs \cup PickProgs
    BY DictParts
  <1>2. /\ slot[r] \in Slot /\ slot[r].todo # <<>> /\ Cur(r) \in Task
        /\ Works(Cur(r)) /\ Cur(r).new = None /\ Cur(r).id \in Ids
        /\ Front(slot[r], rows) /\ Head(slot[r].todo) = Cur(r)
    BY <1>1, Current
  <1> QED
    BY <1>1, <1>2 DEF Front

LEMMA GetDictByIDKeeps ==
    ASSUME IInv, NEW r \in Requests, GetDictByID(r)
    PROVE  IInv'
  <1> DEFINE t == Cur(r)
  <1>1. Busy(r) /\ rows' = rows /\ Head(t.prog) = "dict"
    BY DEF GetDictByID, At
  <1>2. t.prog = Dict5 /\ t.prog \in DictProgs
    BY <1>1, Current, ProgHeads, DictParts
  <1>3. /\ slot[r] \in Slot /\ slot[r].todo # <<>> /\ t \in Task /\ Works(t) /\ t.new = None
        /\ t.id \in Ids /\ t.tab = "dict" /\ t.prog \notin MakeProgs
        /\ slot[r].held = {}
    BY <1>1, <1>2, InDict, ProgKinds
  <1>4. rows[t.id].ref \in Refs \cup {None}
    BY <1>3 DEF IInv, Row
  <1>5. PICK v \in Task : v = [t EXCEPT !.ref = rows[t.id].ref] /\ v.prog = t.prog /\ v.new = t.new /\ v.id = t.id /\ v.tab = t.tab
    BY <1>3, <1>4, Decoded
  <1>6. CASE ~Found(v)
    <2>1. Goto(r, Obey(slot[r], slot[r].miss))
      BY <1>5, <1>6 DEF GetDictByID
    <2> QED
      BY <1>1, <1>3, <2>1, Obeys
  <1>7. CASE Found(v)
    <2>1. PICK w \in Task : /\ w = IF v.ref # None THEN v ELSE [v EXCEPT !.prog = <<"dict", "delete", "commit">>]
                            /\ w.prog \in {Dict5, <<"dict", "delete", "commit">>}
                            /\ w.new = None /\ w.id = t.id /\ w.tab = t.tab
      <3>1. CASE v.ref # None
        BY <1>2, <1>3, <1>5, <3>1
      <3>2. CASE v.ref = None
        <4>1. PICK w \in Task : /\ w = [v EXCEPT !.prog = <<"dict", "delete", "commit">>]
                                /\ w.prog = <<"dict", "delete", "commit">>
                                /\ w.new = v.new /\ w.id = v.id /\ w.tab = v.tab
          <5>1. PICK p \in Seq(Statements) : p = <<"dict", "delete", "commit">>
            BY DictParts
          <5>2. \E x \in Task : x = [v EXCEPT !.prog = p] /\ x.prog = p /\ x.new = v.new /\ x.id = v.id /\ x.tab = v.tab
            BY Reprogrammed
          <5> QED
            BY <5>1, <5>2
        <4> QED
          BY <1>3, <1>5, <3>2, <4>1
      <3> QED
        BY <3>1, <3>2
    <2>2. /\ Tail(w.prog) \in {Dict4, Dict2} /\ Tail(w.prog) \in Seq(Statements) /\ Len(w.prog) # 1
      BY <2>1, DictParts, ProgTails
    <2>3. PICK c : c = Step(slot[r], w)
      OBVIOUS
    <2>4. PICK u : u = [w EXCEPT !.prog = Tail(w.prog)]
      OBVIOUS
    <2>5. /\ u.prog \in {Dict4, Dict2} /\ u.new = None /\ u.id = t.id /\ u.tab = "dict"
          /\ Moves(slot[r], c, u) /\ c.held = {}
      BY <1>3, <2>1, <2>2, <2>3, <2>4, StepMoves
    <2>6. Works(u) /\ u.prog \in DictProgs /\ u.prog # <<"drop">> /\ u.prog # Dict1
      BY <1>3, <2>5, DictParts, ProgKinds DEF Works
    <2>7. Goto(r, c)
      BY <1>5, <1>7, <2>1, <2>3 DEF GetDictByID
    <2>8. Loaded(u, rows)
      BY <1>3, <1>5, <1>7, <2>5 DEF Found, Loaded
    <2>9. ASSUME c.todo # <<>>, Head(c.todo) = u
          PROVE  Front(c, rows)
      BY <2>5, <2>6, <2>8, <2>9 DEF Front
    <2>10. Apart(r, c)
      BY <2>5 DEF Apart
    <2> QED
      BY <1>1, <1>3, <2>5, <2>6, <2>7, <2>9, <2>10, Advances
  <1> QED
    BY <1>6, <1>7

\* A statement of the transaction has worked: the task is u, whose program is p.
LEMMA DictStep ==
    ASSUME IInv, NEW r \in Requests, Busy(r), Cur(r).prog \in {Dict4, Dict3, Dict2}
    PROVE  LET u == [Cur(r) EXCEPT !.prog = Tail(Cur(r).prog)]
           IN  /\ u.prog = Tail(Cur(r).prog) /\ u.tab = "dict" /\ u.id = Cur(r).id /\ u.new = None /\ u.ref = Cur(r).ref
               /\ u.prog \in {Dict3, Dict2, Dict1} /\ Works(u) /\ Loaded(u, rows)
               /\ Moves(slot[r], Step(slot[r], Cur(r)), u)
               /\ Step(slot[r], Cur(r)).held = slot[r].held
  <1>1. Cur(r).prog \in DictProgs /\ Cur(r).prog # Dict5
    BY DictParts, ProgKinds DEF Dict5, Dict3
  <1>2. /\ slot[r] \in Slot /\ slot[r].todo # <<>> /\ Cur(r) \in Task /\ Cur(r).new = None
        /\ Cur(r).id \in Ids /\ Cur(r).tab = "dict" /\ Loaded(Cur(r), rows)
    BY <1>1, InDict
  <1>3. /\ Tail(Cur(r).prog) \in {Dict3, Dict2, Dict1} /\ Tail(Cur(r).prog) \in Seq(Statements)
        /\ Len(Cur(r).prog) # 1
    BY DictParts, ProgTails
  <1>4. PICK u : u = [Cur(r) EXCEPT !.prog = Tail(Cur(r).prog)]
    OBVIOUS
  <1>5. /\ u.prog = Tail(Cur(r).prog) /\ u.tab = "dict" /\ u.id = Cur(r).id /\ u.new = None /\ u.ref = Cur(r).ref
        /\ Moves(slot[r], Step(slot[r], Cur(r)), u)
        /\ Step(slot[r], Cur(r)).held = slot[r].held
    BY <1>2, <1>3, <1>4, StepMoves
  <1>6. Works(u) /\ Loaded(u, rows)
    BY <1>2, <1>3, <1>5, DictParts DEF Works, Loaded
  <1> QED
    BY <1>3, <1>4, <1>5, <1>6

\* The same when the statement takes rows: which it may hold, and what that says of the row.
LEMMA DictTakes ==
    ASSUME IInv, NEW r \in Requests, Busy(r), Cur(r).prog \in {Dict4, Dict3, Dict2},
           NEW c, NEW u, u = [Cur(r) EXCEPT !.prog = Tail(Cur(r).prog)], Moves(slot[r], c, u),
           Goto(r, c), rows' = rows, Apart(r, c),
           u.prog = Dict1 => u.id \in c.held \/ rows[u.id].st # "live",
           u.prog = Dict3 => c.held = {},
           \A i \in c.held : /\ rows[i].st = "live"
                             /\ i = Cur(r).id \/ (rows[i].tab = "item" /\ rows[i].ref = Cur(r).ref)
    PROVE  IInv'
  <1>1. /\ u.tab = "dict" /\ u.id = Cur(r).id /\ u.new = None /\ u.ref = Cur(r).ref
        /\ u.prog \in {Dict3, Dict2, Dict1} /\ Works(u) /\ Loaded(u, rows)
    BY DictStep
  <1>2. /\ u.prog \in DictProgs /\ u.prog # <<"drop">>
        /\ Cur(r).prog \in DictProgs /\ Cur(r).prog \notin MakeProgs
    <2>1. u.prog \in DictProgs /\ Cur(r).prog \in DictProgs
      BY <1>1, DictParts
    <2> QED
      BY <2>1, ProgKinds
  <1>3. ASSUME c.todo # <<>>, Head(c.todo) = u
        PROVE  Front(c, rows)
    BY <1>1, <1>2, <1>3 DEF Front
  <1>4. Cur(r).new = None
    BY <1>2, InDict
  <1> QED
    BY <1>1, <1>2, <1>3, <1>4, Advances

LEMMA DeleteDictItemsByCodeKeeps ==
    ASSUME IInv, NEW r \in Requests, DeleteDictItemsByCode(r)
    PROVE  IInv'
  <1>1. Busy(r) /\ rows' = rows /\ Head(Cur(r).prog) = "items"
    BY DEF DeleteDictItemsByCode, At
  <1>2. Cur(r).prog = Dict4 /\ slot[r] \in Slot
    BY <1>1, Current, ProgHeads
  <1>3. PICK u : u = [Cur(r) EXCEPT !.prog = Tail(Cur(r).prog)]
    OBVIOUS
  <1>4. PICK d : d = Step(slot[r], Cur(r))
    OBVIOUS
  <1>5. u.prog = Dict3 /\ Moves(slot[r], d, u) /\ d.held = {}
    BY <1>1, <1>2, <1>3, <1>4, DictStep, Current, ProgTails, ProgKinds
  <1>6. PICK I \in SUBSET Ids : I = {i \in Ids : Coded(i, Cur(r).ref)}
    OBVIOUS
  <1>7. PICK c : c = [d EXCEPT !.want = I]
    OBVIOUS
  <1>8. Moves(slot[r], c, u) /\ c.held = {}
    BY <1>2, <1>5, <1>6, <1>7, Taking
  <1>9. Goto(r, c)
    BY <1>4, <1>6, <1>7 DEF DeleteDictItemsByCode
  <1>10. Apart(r, c) /\ u.prog # Dict1
    BY <1>5, <1>8, ProgKinds DEF Apart
  <1> QED
    BY <1>1, <1>2, <1>3, <1>8, <1>9, <1>10, DictTakes

LEMMA SweepItemsKeeps ==
    ASSUME IInv, NEW r \in Requests, SweepItems(r)
    PROVE  IInv'
  <1>1. Busy(r) /\ rows' = rows /\ Head(Cur(r).prog) = "sweep"
    BY DEF SweepItems, At
  <1>2. Cur(r).prog = Dict3 /\ slot[r] \in Slot /\ slot[r].want \subseteq Ids
    BY <1>1, Current, ProgHeads, SlotFields
  <1>3. PICK u : u = [Cur(r) EXCEPT !.prog = Tail(Cur(r).prog)]
    OBVIOUS
  <1>4. PICK d : d = Step(slot[r], Cur(r))
    OBVIOUS
  <1>5. u.prog = Dict2 /\ Moves(slot[r], d, u)
    BY <1>1, <1>2, <1>3, <1>4, DictStep, ProgTails
  <1>6. PICK I \in SUBSET Ids : I = {i \in slot[r].want : Coded(i, Cur(r).ref)}
    BY <1>2
  <1>7. PICK c : c = [d EXCEPT !.held = I]
    OBVIOUS
  <1>8. Moves(slot[r], c, u) /\ c.held = I
    BY <1>2, <1>5, <1>6, <1>7, Taking
  <1>9. Goto(r, c)
    BY <1>4, <1>6, <1>7 DEF SweepItems
  <1>10. Apart(r, c)
    BY <1>6, <1>8 DEF Apart, SweepItems, Unlocked
  <1>11. \A i \in c.held : rows[i].st = "live" /\ rows[i].tab = "item" /\ rows[i].ref = Cur(r).ref
    BY <1>6, <1>8 DEF Coded
  <1>12. u.prog # Dict1 /\ u.prog # Dict3
    BY <1>5, ProgKinds
  <1> QED
    BY <1>1, <1>2, <1>3, <1>8, <1>9, <1>10, <1>11, <1>12, DictTakes

LEMMA DeleteDictKeeps ==
    ASSUME IInv, NEW r \in Requests, DeleteDict(r)
    PROVE  IInv'
  <1> DEFINE t == Cur(r)
  <1>1. Busy(r) /\ rows' = rows /\ Head(t.prog) = "delete" /\ Unlocked(r, {t.id})
    BY DEF DeleteDict, At
  <1>2. t.prog = Dict2
    BY <1>1, Current, ProgHeads
  <1>3. /\ slot[r] \in Slot /\ slot[r].held \subseteq Ids /\ t.id \in Ids /\ Loaded(t, rows)
        /\ \A i \in slot[r].held : /\ rows[i].st = "live"
                                   /\ i = t.id \/ (rows[i].tab = "item" /\ rows[i].ref = t.ref)
    BY <1>1, <1>2, InDict, DictParts, ProgKinds, SlotFields
  <1>4. PICK u : u = [t EXCEPT !.prog = Tail(t.prog)]
    OBVIOUS
  <1>5. PICK d : d = Step(slot[r], t)
    OBVIOUS
  <1>6. u.prog = Dict1 /\ u.id = t.id /\ Moves(slot[r], d, u) /\ d.held = slot[r].held
    BY <1>1, <1>2, <1>4, <1>5, DictStep, ProgTails
  <1>7. PICK I \in SUBSET Ids : I = IF Found(t) THEN d.held \cup {t.id} ELSE d.held
    BY <1>3, <1>6
  <1>8. PICK c : c = [d EXCEPT !.held = I]
    OBVIOUS
  <1>9. Moves(slot[r], c, u) /\ c.held = I
    <2>1. slot[r] \in Slot /\ Moves(slot[r], d, u)
      BY <1>3, <1>6
    <2> QED
      BY <1>8, <2>1, Taking
  <1>10. Goto(r, c)
    BY <1>5, <1>7, <1>8 DEF DeleteDict
  <1>11. Apart(r, c)
    <2> SUFFICES ASSUME NEW o \in Requests \ {r}
                 PROVE  I \cap slot[o].held = {}
      BY <1>9 DEF Apart
    <2>1. slot[r].held \cap slot[o].held = {}
      BY DEF IInv, Disjoint
    <2>2. t.id \notin slot[o].held
      BY <1>1 DEF Unlocked
    <2> QED
      BY <1>6, <1>7, <2>1, <2>2
  <1>12. \A i \in c.held : /\ rows[i].st = "live"
                           /\ i = t.id \/ (rows[i].tab = "item" /\ rows[i].ref = t.ref)
    BY <1>3, <1>6, <1>7, <1>9 DEF Found
  <1>13. t.id \in c.held \/ rows[t.id].st # "live"
    BY <1>3, <1>7, <1>9 DEF Found, Loaded
  <1>14. u.prog # Dict3
    BY <1>6, ProgKinds
  <1> QED
    BY <1>1, <1>2, <1>4, <1>6, <1>9, <1>10, <1>11, <1>12, <1>13, <1>14, DictTakes

-----------------------------------------------------------------------------
(***************************************************************************)
(* The statements that change rows.                                        *)
(***************************************************************************)

\* The last statement of a task on a row; if that is a deletion, the row is deleted.
LEMMA Finishes ==
    ASSUME NEW rws, NEW s \in Slot, s.todo # <<>>, Rest(s, rws), Ledger(s, rws),
           NEW t, t = Head(s.todo), Len(t.prog) = 1, t.prog \notin MakeProgs,
           s.fail = "stop" /\ s.miss = "skip" => Dead(t.id, rws),
           NEW c, c = Step(s, t) \/ c = Obey(s, s.fail)
    PROVE  Settled(c, rws) /\ c.held = {} /\ (c.todo = <<>> \/ c.todo = Tail(s.todo))
  <1>1. CASE c = Step(s, t)
    <2>1. c = Close(s, TRUE)
      BY <1>1 DEF Step
    <2>2. Settled(Close(s, TRUE), rws)
      BY ClosesWell
    <2> QED
      BY <2>1, <2>2, CloseFields
  <1>2. CASE c = Obey(s, s.fail)
    BY <1>2, ObeysWell, SlotFields
  <1> QED
    BY <1>1, <1>2

\* What an UPDATE leaves alone.
LEMMA UpdatedRow ==
    ASSUME NEW row \in Row, NEW t \in Task
    PROVE  LET w == Updated(row, t)
           IN  /\ w \in Row /\ w.st = row.st /\ w.tab = row.tab
               /\ w.ref = Coalesce(t.ref, row.ref) /\ w.val = Coalesce(t.val, row.val)
  <1>1. Coalesce(t.ref, row.ref) \in Refs \cup {None} /\ Coalesce(t.val, row.val) \in Vals \cup {None}
    BY DEF Coalesce, Row, Task
  <1>2. PICK w : w = Updated(row, t)
    OBVIOUS
  <1>3. w = [row EXCEPT !.ref = Coalesce(t.ref, row.ref), !.val = Coalesce(t.val, row.val)]
    BY <1>2 DEF Updated
  <1>4. w \in Row
    BY <1>1, <1>3 DEF Row
  <1>5. w.st = row.st /\ w.tab = row.tab /\ w.ref = Coalesce(t.ref, row.ref) /\ w.val = Coalesce(t.val, row.val)
    BY <1>3 DEF Row
  <1> QED
    BY <1>2, <1>4, <1>5

\* What a DELETE, or UPDATE ... SET is_deleted = 1, leaves alone.
LEMMA DroppedRow ==
    ASSUME NEW row \in Row
    PROVE  LET w == Dropped(row)
           IN  /\ w \in Row /\ w.tab = row.tab /\ w.ref = row.ref /\ w.val = row.val
               /\ w.st = IF row.tab \in SoftTables THEN "deleted" ELSE "gone"
  <1>1. PICK x \in {"free", "live", "deleted", "gone"} : x = IF row.tab \in SoftTables THEN "deleted" ELSE "gone"
    OBVIOUS
  <1>2. PICK w : w = Dropped(row)
    OBVIOUS
  <1>3. w = [row EXCEPT !.st = x]
    BY <1>1, <1>2 DEF Dropped
  <1>4. w \in Row
    BY <1>1, <1>3 DEF Row
  <1>5. w.st = x /\ w.tab = row.tab /\ w.ref = row.ref /\ w.val = row.val
    BY <1>3 DEF Row
  <1> QED
    BY <1>1, <1>2, <1>4, <1>5

\* A change of live rows that keeps their tables.
LEMMA Touches ==
    ASSUME NEW rws \in [Ids -> Row], NEW rws2 \in [Ids -> Row], NEW I \in SUBSET Ids,
           \A i \in I : rws[i].st = "live" /\ rws2[i].st # "free" /\ rws2[i].tab = rws[i].tab,
           \A i \in Ids \ I : rws2[i] = rws[i]
    PROVE  Evolves(rws, rws2)
  BY DEF Evolves, Dead

\* Such a change, as the other requests see it.
LEMMA Spares ==
    ASSUME IInv, NEW r \in Requests, rows' \in [Ids -> Row], NEW I \in SUBSET Ids, Unlocked(r, I),
           \A i \in I : rows[i].st = "live" /\ rows'[i].st # "free" /\ rows'[i].tab = rows[i].tab,
           \A i \in Ids \ I : rows'[i] = rows[i]
    PROVE  /\ Evolves(rows, rows')
           /\ \A o \in Requests \ {r} : \A i \in slot[o].held : rows'[i] = rows[i]
           /\ \A o \in Requests : \A n \in DOMAIN slot[o].todo :
                  slot[o].todo[n].new # None => rows'[slot[o].todo[n].new].st = "free"
           /\ slot[r].held = {} => SlotInv(slot[r], rows')
           /\ Rest(slot[r], rows') /\ Ledger(slot[r], rows')
  <1>1. Evolves(rows, rows')
    BY Touches DEF IInv
  <1>2. \A o \in Requests \ {r} : \A i \in slot[o].held : i \in Ids \ I
    <2> SUFFICES ASSUME NEW o \in Requests \ {r}, NEW i \in slot[o].held
                 PROVE  i \in Ids \ I
      OBVIOUS
    <2>1. i \in Ids
      BY SlotFields DEF IInv
    <2> QED
      BY <2>1 DEF Unlocked
  <1>3. ASSUME NEW o \in Requests, NEW n \in DOMAIN slot[o].todo, slot[o].todo[n].new # None
        PROVE  rows'[slot[o].todo[n].new].st = "free"
    <2>1. slot[o].todo[n].new \in Ids /\ rows[slot[o].todo[n].new].st = "free"
      BY <1>3, NewsFree DEF IInv
    <2> QED
      BY <2>1
  <1>4. ASSUME slot[r].held = {}
        PROVE  SlotInv(slot[r], rows')
    <2>1. SlotInv(slot[r], rows) /\ rows \in [Ids -> Row]
      BY DEF IInv
    <2> QED
      BY <1>1, <1>3, <1>4, <2>1, Undisturbed
  <1>5. slot[r] \in Slot /\ Rest(slot[r], rows) /\ Ledger(slot[r], rows)
    BY DEF IInv, SlotInv
  <1>6. Rest(slot[r], rows')
    BY <1>3, <1>5, RestStable
  <1>7. Ledger(slot[r], rows')
    BY <1>1, <1>5, LedgerStable
  <1> QED
    BY <1>1, <1>2, <1>3, <1>4, <1>6, <1>7

\* The three of them in the system: r has changed the rows of I and is through with its task.
LEMMA Writes ==
    ASSUME IInv, NEW r \in Requests, Busy(r), Len(Cur(r).prog) = 1, Cur(r).prog \notin MakeProgs,
           rows' \in [Ids -> Row], Soft', NEW I \in SUBSET Ids, Unlocked(r, I),
           \A i \in I : rows[i].st = "live" /\ rows'[i].st # "free" /\ rows'[i].tab = rows[i].tab,
           \A i \in Ids \ I : rows'[i] = rows[i],
           Answer(r, slot[r]),
           slot[r].fail = "stop" /\ slot[r].miss = "skip" => Dead(Cur(r).id, rows')
    PROVE  IInv'
  <1>1. PICK s \in Slot : s = slot[r]
    BY Current
  <1>2. s.todo # <<>> /\ Head(s.todo) = Cur(r)
    BY <1>1, Current
  <1>3. /\ Evolves(rows, rows')
        /\ \A o \in Requests \ {r} :
               /\ \A i \in slot[o].held : rows'[i] = rows[i]
               /\ \A n \in DOMAIN slot[o].todo :
                      slot[o].todo[n].new # None => rows'[slot[o].todo[n].new].st = "free"
        /\ Rest(s, rows') /\ Ledger(s, rows')
    BY <1>1, Spares
  <1>4. PICK c : Goto(r, c) /\ (c = Step(s, Cur(r)) \/ c = Obey(s, s.fail))
    BY <1>1 DEF Answer
  <1>5. Settled(c, rows') /\ c.held = {} /\ (c.todo = <<>> \/ c.todo = Tail(s.todo))
    BY <1>1, <1>2, <1>3, <1>4, Finishes
  <1> QED
    BY <1>1, <1>2, <1>3, <1>4, <1>5, Changes

LEMMA WriteKeeps ==
    ASSUME IInv, NEW r \in Requests, Write(r)
    PROVE  IInv'
  <1> DEFINE t == Cur(r)
  <1>1. Busy(r) /\ Head(t.prog) = "write" /\ Unlocked(r, {t.id}) /\ Answer(r, slot[r])
    BY DEF Write, At
  <1>2. t.prog = <<"write">>
    BY <1>1, Current, ProgHeads
  <1>3. t.prog \in EditProgs /\ Len(t.prog) = 1
    BY <1>2 DEF EditProgs
  <1>4. t.prog \notin MakeProgs \cup PickProgs \cup DropProgs \cup DictProgs
    BY <1>3, ProgKinds
  <1>5. /\ t \in Task /\ t.id \in Ids /\ 1 \in DOMAIN slot[r].todo /\ slot[r].todo[1] = t /\ Ledger(slot[r], rows)
    BY <1>1, <1>4, Current
  <1>6. ~(slot[r].fail = "stop" /\ slot[r].miss = "skip")
    BY <1>4, <1>5 DEF Ledger, Deleting, Creating
  <1>7. CASE Found(t)
    <2>1. rows \in [Ids -> Row] /\ rows[t.id] \in Row
      BY <1>5 DEF IInv
    <2>2. PICK w \in Row : w = Updated(rows[t.id], t) /\ w.st = rows[t.id].st /\ w.tab = rows[t.id].tab
      BY <1>5, <2>1, UpdatedRow
    <2>3. rows' = [rows EXCEPT ![t.id] = w]
      BY <1>7, <2>2 DEF Write
    <2>4. rows' \in [Ids -> Row] /\ rows'[t.id] = w /\ \A i \in Ids \ {t.id} : rows'[i] = rows[i]
      BY <1>5, <2>1, <2>3
    <2>5. Soft'
      BY <2>2, <2>4 DEF IInv, Soft
    <2>6. rows[t.id].st = "live" /\ rows'[t.id].st # "free" /\ rows'[t.id].tab = rows[t.id].tab
      BY <1>7, <2>2, <2>4 DEF Found
    <2>7. {t.id} \in SUBSET Ids
      BY <1>5
    <2> QED
      BY <1>1, <1>3, <1>4, <1>6, <2>4, <2>5, <2>6, <2>7, Writes
  <1>8. CASE ~Found(t)
    <2>1. rows' = rows
      BY <1>8 DEF Write
    <2>2. rows' \in [Ids -> Row] /\ Soft'
      BY <2>1 DEF IInv, Soft
    <2>3. {} \in SUBSET Ids /\ Unlocked(r, {})
      BY DEF Unlocked
    <2> QED
      BY <1>1, <1>3, <1>4, <1>6, <2>1, <2>2, <2>3, Writes
  <1> QED
    BY <1>7, <1>8

LEMMA DropKeeps ==
    ASSUME IInv, NEW r \in Requests, Drop(r)
    PROVE  IInv'
  <1> DEFINE t == Cur(r)
  <1>1. Busy(r) /\ Head(t.prog) = "drop" /\ Unlocked(r, {t.id}) /\ Answer(r, slot[r])
    BY DEF Drop, At
  <1>2. t.prog = <<"drop">>
    BY <1>1, Current, ProgHeads
  <1>3. t.prog \in DropProgs /\ Len(t.prog) = 1
    BY <1>2 DEF DropProgs
  <1>4. t.prog \notin MakeProgs \cup PickProgs \cup DictProgs
    BY <1>3, ProgKinds
  <1>5. /\ t.id \in Ids /\ slot[r].todo # <<>> /\ Head(slot[r].todo) = t /\ Front(slot[r], rows)
    BY <1>1, <1>4, Current
  <1>6. slot[r].fail = "stop" => Loaded(t, rows)
    BY <1>2, <1>5 DEF Front
  <1>7. rows \in [Ids -> Row] /\ rows[t.id] \in Row
    BY <1>5 DEF IInv
  <1>8. CASE Found(t)
    <2>1. PICK w \in Row : /\ w = Dropped(rows[t.id]) /\ w.tab = rows[t.id].tab
                           /\ w.st = IF rows[t.id].tab \in SoftTables THEN "deleted" ELSE "gone"
      BY <1>7, DroppedRow
    <2>2. rows' = [rows EXCEPT ![t.id] = w]
      BY <1>8, <2>1 DEF Drop
    <2>3. rows' \in [Ids -> Row] /\ rows'[t.id] = w /\ \A i \in Ids \ {t.id} : rows'[i] = rows[i]
      BY <1>5, <1>7, <2>2
    <2>4. Soft'
      <3> SUFFICES ASSUME NEW i \in Ids, rows'[i].st = "deleted"
                   PROVE  rows'[i].tab \in SoftTables
        BY DEF Soft
      <3>1. CASE i = t.id
        BY <2>1, <2>3, <3>1
      <3>2. CASE i # t.id
        BY <2>3, <3>2 DEF IInv, Soft
      <3> QED
        BY <3>1, <3>2
    <2>5. rows[t.id].st = "live" /\ rows'[t.id].st # "free" /\ rows'[t.id].tab = rows[t.id].tab /\ Dead(t.id, rows')
      BY <1>8, <2>1, <2>3 DEF Found, Dead
    <2>6. {t.id} \in SUBSET Ids
      BY <1>5
    <2> QED
      BY <1>1, <1>3, <1>4, <2>3, <2>4, <2>5, <2>6, Writes
  <1>9. CASE ~Found(t)
    <2>1. rows' = rows
      BY <1>9 DEF Drop
    <2>2. rows' \in [Ids -> Row] /\ Soft'
      BY <2>1 DEF IInv, Soft
    <2>3. {} \in SUBSET Ids /\ Unlocked(r, {})
      BY DEF Unlocked
    <2>4. slot[r].fail = "stop" => Dead(t.id, rows')
      BY <1>6, <1>7, <1>9, <2>1 DEF Loaded, Found, Dead, Row
    <2> QED
      BY <1>1, <1>3, <1>4, <2>1, <2>2, <2>3, <2>4, Writes
  <1> QED
    BY <1>8, <1>9

LEMMA CommitKeeps ==
    ASSUME IInv, NEW r \in Requests, Commit(r)
    PROVE  IInv'
  <1> DEFINE t == Cur(r)
             H == slot[r].held
  <1>1. /\ Busy(r) /\ Head(t.prog) = "commit" /\ Answer(r, slot[r])
        /\ rows' = [i \in Ids |-> IF i \in H THEN Dropped(rows[i]) ELSE rows[i]]
    BY DEF Commit, At
  <1>2. t.prog = Dict1 /\ t.prog \in DictProgs /\ Len(t.prog) = 1
    BY <1>1, Current, ProgHeads, DictParts
  <1>3. /\ t.id \in Ids /\ t.prog \notin MakeProgs /\ Loaded(t, rows) /\ slot[r] \in Slot
        /\ \A i \in H : rows[i].st = "live"
        /\ t.id \in H \/ rows[t.id].st # "live"
    BY <1>1, <1>2, InDict, ProgKinds
  <1>4. H \in SUBSET Ids /\ rows \in [Ids -> Row]
    BY <1>3, SlotFields DEF IInv
  <1>5. \A i \in Ids \ H : rows'[i] = rows[i]
    BY <1>1
  <1>6. \A i \in H : /\ rows'[i] \in Row /\ rows'[i].tab = rows[i].tab
                     /\ rows'[i].st = IF rows[i].tab \in SoftTables THEN "deleted" ELSE "gone"
    <2> SUFFICES ASSUME NEW i \in H
                 PROVE  /\ rows'[i] \in Row /\ rows'[i].tab = rows[i].tab
                        /\ rows'[i].st = IF rows[i].tab \in SoftTables THEN "deleted" ELSE "gone"
      OBVIOUS
    <2>1. rows[i] \in Row /\ rows'[i] = Dropped(rows[i])
      BY <1>1, <1>4
    <2> QED
      BY <2>1, DroppedRow
  <1>7. rows' \in [Ids -> Row]
    <2>1. \A i \in Ids : rows'[i] \in Row
      BY <1>4, <1>5, <1>6
    <2> QED
      BY <1>1, <2>1
  <1>8. Soft'
    <2> SUFFICES ASSUME NEW i \in Ids, rows'[i].st = "deleted"
                 PROVE  rows'[i].tab \in SoftTables
      BY DEF Soft
    <2>1. CASE i \in H
      BY <1>6, <2>1
    <2>2. CASE i \notin H
      BY <1>5, <2>2 DEF IInv, Soft
    <2> QED
      BY <2>1, <2>2
  <1>9. \A i \in H : rows'[i].st # "free"
    BY <1>6
  <1>10. Unlocked(r, H)
    BY DEF Unlocked, IInv, Disjoint
  <1>11. Dead(t.id, rows')
    <2>1. CASE t.id \in H
      BY <1>6, <2>1 DEF Dead
    <2>2. CASE t.id \notin H
      <3>1. rows[t.id].st \in {"deleted", "gone"}
        BY <1>3, <1>4, <2>2 DEF Loaded, Row
      <3> QED
        BY <1>3, <1>5, <2>2, <3>1 DEF Dead
    <2> QED
      BY <2>1, <2>2
  <1> HIDE DEF H
  <1> QED
    BY <1>1, <1>2, <1>3, <1>4, <1>5, <1>6, <1>7, <1>8, <1>9, <1>10, <1>11, Writes

\* A row that is created.
LEMMA StoredRow ==
    ASSUME NEW t \in Task
    PROVE  Stored(t.tab, t.ref, t.val) \in Row /\ Stored(t.tab, t.ref, t.val).st = "live"
  BY DEF Stored, Row, Task

LEMMA InsertKeeps ==
    ASSUME IInv, NEW r \in Requests, Insert(r)
    PROVE  IInv'
  <1> DEFINE t == Cur(r)
  <1>1. Busy(r) /\ Head(t.prog) = "insert"
    BY DEF Insert, At
  <1>2. t.prog = <<"insert">> /\ t.prog \in MakeProgs /\ Len(t.prog) = 1
    BY <1>1, Current, ProgHeads, ProgKinds
  <1>3. /\ t \in Task /\ (Makes(t) \/ Works(t)) /\ slot[r].todo # <<>> /\ Head(slot[r].todo) = t
        /\ Front(slot[r], rows) /\ 1 \in DOMAIN slot[r].todo /\ slot[r].todo[1] = t
        /\ Rest(slot[r], rows) /\ Ledger(slot[r], rows) /\ slot[r] \in Slot
    BY <1>1, Current
  <1>4. t.new \in Ids
    BY <1>2, <1>3, ProgKinds DEF Makes, Works
  <1>5. t.new # None
    BY <1>4, CatalogAssumption
  <1>6. rows[t.new].st = "free"
    BY <1>3, <1>5 DEF Front
  <1>7. rows \in [Ids -> Row]
    BY DEF IInv
  <1>8. PICK w \in Row : w = Stored(t.tab, t.ref, t.val) /\ w.st = "live"
    BY <1>3, StoredRow
  <1>9. rows' = [rows EXCEPT ![t.new] = w]
    BY <1>8 DEF Insert
  <1>10. /\ rows' \in [Ids -> Row] /\ rows'[t.new].st = "live"
         /\ \A i \in Ids \ {t.new} : rows'[i] = rows[i]
    BY <1>4, <1>7, <1>8, <1>9
  <1>11. Soft'
    <2> SUFFICES ASSUME NEW i \in Ids, rows'[i].st = "deleted"
                 PROVE  rows'[i].tab \in SoftTables
      BY DEF Soft
    <2>1. rows'[i] = rows[i]
      BY <1>10
    <2> QED
      BY <2>1 DEF IInv, Soft
  <1>12. Evolves(rows, rows')
    <2> SUFFICES ASSUME NEW i \in Ids, rows[i].st # "free"
                 PROVE  rows'[i] = rows[i]
      BY DEF Evolves, Dead
    <2> QED
      BY <1>6, <1>10
  <1>13. ASSUME NEW o \in Requests \ {r}, NEW i \in slot[o].held
         PROVE  rows'[i] = rows[i]
    <2>1. PICK s \in Slot : s = slot[o]
      BY DEF IInv
    <2>2. i \in s.held /\ i \in Ids /\ Front(s, rows)
      BY <1>13, <2>1, SlotFields DEF IInv, SlotInv
    <2>3. rows[i].st = "live"
      BY <2>2 DEF Front
    <2> QED
      BY <1>6, <1>10, <2>2, <2>3
  <1>14. ASSUME NEW o \in Requests, NEW n \in DOMAIN slot[o].todo, slot[o].todo[n].new # None, o # r \/ n # 1
         PROVE  rows'[slot[o].todo[n].new].st = "free"
    <2>1. slot[o].todo[n].new \in Ids /\ rows[slot[o].todo[n].new].st = "free"
      BY <1>14, NewsFree DEF IInv
    <2>2. slot[o].todo[n].new # t.new
      BY <1>3, <1>14 DEF IInv, Distinct
    <2> QED
      BY <1>10, <2>1, <2>2
  <1>15. PICK s \in Slot : s = slot[r]
    BY <1>3
  <1>16. Rest(s, rows') /\ Ledger(s, rows')
    <2>1. Rest(s, rows) /\ Ledger(s, rows)
      BY <1>3, <1>15
    <2>2. \A n \in DOMAIN s.todo : n > 1 /\ s.todo[n].new # None => rows'[s.todo[n].new].st = "free"
      BY <1>14, <1>15
    <2>3. Rest(s, rows')
      BY <2>1, <2>2, RestStable
    <2> QED
      BY <1>12, <2>1, <2>3, LedgerStable
  <1>17. t.new \notin s.made
    BY <1>3, <1>6, <1>15 DEF Ledger
  <1>18. PICK u : u = Credited(s)
    OBVIOUS
  <1>19. u.fail = s.fail
    BY <1>18 DEF Slot, Credited
  <1>20. Answer(r, u)
    BY <1>3, <1>15, <1>18 DEF Insert, Credited
  <1>21. PICK c : Goto(r, c) /\ (c = Step(u, Head(s.todo)) \/ c = Obey(u, s.fail))
    BY <1>3, <1>15, <1>19, <1>20 DEF Answer
  <1>22. Settled(c, rows') /\ c.held = {} /\ (c.todo = <<>> \/ c.todo = Tail(s.todo))
    <2>1. /\ s.todo # <<>> /\ Head(s.todo).new \in Ids /\ Head(s.todo).new \notin s.made
          /\ rows'[Head(s.todo).new].st # "free" /\ Len(Head(s.todo).prog) = 1
      BY <1>2, <1>3, <1>4, <1>10, <1>15, <1>17
    <2> QED
      BY <1>16, <1>18, <1>21, <2>1, InsertsWell
  <1>23. \A o \in Requests \ {r} :
            /\ \A i \in slot[o].held : rows'[i] = rows[i]
            /\ \A n \in DOMAIN slot[o].todo : slot[o].todo[n].new # None => rows'[slot[o].todo[n].new].st = "free"
    BY <1>13, <1>14
  <1> QED
    BY <1>3, <1>10, <1>11, <1>12, <1>15, <1>21, <1>22, <1>23, Changes

LEMMA RestartKeeps ==
    ASSUME IInv, Restart
    PROVE  IInv'
  <1>1. /\ slot' = [r \in Requests |-> Idle] /\ reply' = Idle /\ rows' = rows /\ scope' = scope
    BY DEF Restart
  <1>2. \A r \in Requests : slot'[r] = Idle
    BY <1>1
  <1>3. slot' \in [Requests -> Slot]
    BY <1>1, IdleWell
  <1>4. \A r \in Requests : SlotInv(slot'[r], rows') /\ Len(slot'[r].todo) <= MaxTasks[r]
    BY <1>2, IdleWell, CatalogAssumption
  <1>5. Distinct' /\ Disjoint'
    BY <1>2, IdleWell DEF Distinct, Disjoint
  <1>6. Reply(reply', rows')
    BY <1>1, IdleWell
  <1> QED
    BY <1>1, <1>3, <1>4, <1>5, <1>6 DEF IInv, Soft

-----------------------------------------------------------------------------
(***************************************************************************)
(* Requests come in.                                                       *)
(***************************************************************************)

\* A task of a new request whose statements' errors are treated as fail says.
Proper(t, fail) ==
    /\ Makes(t) \/ Works(t)
    /\ t.prog = <<"drop">> => fail = "count"
    /\ t.prog \in DictProgs => t.prog = Dict5 /\ t.tab = "dict"
    /\ t.new # None => t.new \in Fresh

\* What the tasks of a new request have in common.
Uniform(todo, miss, fail) ==
    fail = "stop" =>
        /\ miss \in {"stop", "skip"}
        /\ miss = "stop" => \A n \in DOMAIN todo : todo[n].new = None
        /\ miss = "skip" => \/ \A n \in DOMAIN todo : todo[n].new = None /\ todo[n].prog \in DropProgs \cup DictProgs
                            \/ \A n \in DOMAIN todo : todo[n].new # None /\ todo[n].prog \in MakeProgs

LEMMA AskedFields ==
    ASSUME NEW miss \in Policy, NEW fail \in Policy, NEW todo \in Seq(Task), NEW c, c = Asked(miss, fail, todo)
    PROVE  /\ c \in Slot
           /\ c.miss = miss /\ c.fail = fail /\ c.todo = todo /\ c.done = <<>>
           /\ c.want = {} /\ c.held = {} /\ c.total = Len(todo) /\ c.made = {}
  <1>1. <<>> \in Seq(Ids) /\ Len(todo) \in Nat /\ {} \in SUBSET Ids
    BY EmptySeq, LenProperties
  <1>2. c \in Slot
    BY <1>1 DEF Asked, Slot
  <1>3. /\ c.miss = miss /\ c.fail = fail /\ c.todo = todo /\ c.done = <<>>
        /\ c.want = {} /\ c.held = {} /\ c.total = Len(todo) /\ c.made = {}
    BY DEF Asked
  <1> QED
    BY <1>2, <1>3

LEMMA Asks ==
    ASSUME IInv, NEW r \in Requests, NEW miss \in Policy, NEW fail \in Policy, NEW todo \in Seq(Task),
           Start(r, miss, fail, todo), todo # <<>>, Len(todo) <= MaxTasks[r],
           \A n \in DOMAIN todo : Proper(todo[n], fail),
           Uniform(todo, miss, fail),
           \A m, n \in DOMAIN todo : todo[n].new # None /\ todo[m].new = todo[n].new => m = n
    PROVE  IInv'
  <1>1. PICK c : c = Asked(miss, fail, todo)
    OBVIOUS
  <1>2. /\ c \in Slot
        /\ c.miss = miss /\ c.fail = fail /\ c.todo = todo /\ c.done = <<>>
        /\ c.want = {} /\ c.held = {} /\ c.total = Len(todo) /\ c.made = {}
    BY <1>1, AskedFields
  <1>3. Goto(r, c) /\ rows' = rows
    BY <1>1 DEF Start
  <1>4. \A n \in DOMAIN todo : todo[n].new # None =>
            /\ rows[todo[n].new].st = "free"
            /\ \A o \in Requests : \A m \in DOMAIN slot[o].todo : slot[o].todo[m].new # todo[n].new
    BY DEF Proper, Fresh
  <1>5. Rest(c, rows)
    <2>1. c.error = FALSE
      BY <1>1 DEF Asked
    <2> QED
      BY <1>2, <1>4, <2>1 DEF Rest, Proper, Unbegun
  <1>6. Front(c, rows)
    <2>1. 1 \in DOMAIN todo /\ Head(todo) = todo[1]
      BY <1>2, TodoParts
    <2>2. /\ Proper(todo[1], fail)
          /\ todo[1].new # None => rows[todo[1].new].st = "free"
      BY <1>4, <2>1
    <2>3. Dict5 # Dict1 /\ Dict1 \in DictProgs
      BY ProgKinds, DictParts
    <2> QED
      BY <1>2, <2>1, <2>2, <2>3 DEF Front, Proper
  <1>7. Ledger(c, rows)
    <2>1. DOMAIN c.done = {} /\ Len(c.done) = 0 /\ Len(c.todo) \in Nat
      BY <1>2, LenProperties
    <2>2. Listed(c) = {} /\ Injective(c)
      BY <2>1 DEF Listed, Injective
    <2>3. Len(c.done) + Len(c.todo) = c.total
      <3>1. \A l \in Nat : 0 + l = l
        OBVIOUS
      <3>2. 0 + Len(c.todo) = Len(c.todo)
        BY <2>1, <3>1, Zenon
      <3> QED
        BY <1>2, <2>1, <3>2, Zenon
    <2>4. ASSUME fail = "stop", miss = "skip"
          PROVE  Deleting(c, rows) \/ Creating(c)
      BY <1>2, <2>1, <2>2, <2>3, <2>4 DEF Deleting, Creating, Uniform
    <2> QED
      BY <1>2, <2>4 DEF Ledger, Uniform
  <1>8. Settled(c, rows')
    BY <1>2, <1>3, <1>5, <1>6, <1>7 DEF Settled, SlotInv
  <1>9. Sparse(r, c)
    BY <1>2, <1>4 DEF Sparse
  <1>10. Apart(r, c)
    BY <1>2 DEF Apart
  <1>11. /\ rows' \in [Ids -> Row] /\ Soft'
         /\ \A o \in Requests \ {r} : SlotInv(slot[o], rows')
    BY <1>3 DEF IInv, Soft
  <1> QED
    BY <1>2, <1>3, <1>8, <1>9, <1>10, <1>11, Lands

\* A function on 1..k is a list.
LEMMA ListIsSeq ==
    ASSUME NEW k \in Nat \ {0}, NEW T, NEW g \in [1..k -> T]
    PROVE  g \in Seq(T) /\ Len(g) = k /\ g # <<>> /\ DOMAIN g = 1..k
  <1>1. g \in Seq(T)
    BY SeqDef
  <1>2. DOMAIN g = 1..k
    OBVIOUS
  <1>3. Len(g) = k
    BY <1>1, <1>2, LenProperties
  <1>4. g # <<>>
    BY <1>3
  <1> QED
    BY <1>1, <1>2, <1>3, <1>4

\* A list of k things, and of k tasks of one kind.
Lot(l, k, T) == k \in Nat \ {0} /\ l \in [1..k -> T]

Alike(e, k, prog, tab) ==
    \A n \in 1..k : e[n].prog = prog /\ e[n].tab = tab /\ e[n].id \in Ids /\ e[n].new = None

\* The lists that a request can bring.
LEMMA ListParts ==
    ASSUME NEW r \in Requests, NEW S, NEW l \in Lists(r, S)
    PROVE  \E k : k <= MaxTasks[r] /\ Lot(l, k, S)
  <1>1. MaxTasks[r] \in Nat \ {0}
    BY CatalogAssumption
  <1> QED
    BY <1>1 DEF Lists, Lot

LEMMA TaskOfFields ==
    ASSUME NEW prog \in Seq(Statements), NEW tab \in Tables, NEW id \in Ids \cup {None},
           NEW ref \in Refs \cup {None}, NEW val \in Vals \cup {None}, NEW t, t = TaskOf(prog, tab, id, ref, val)
    PROVE  t \in Task /\ t.prog = prog /\ t.tab = tab /\ t.id = id /\ t.new = None /\ t.ref = ref /\ t.val = val
  BY DEF TaskOf, Task

\* The tasks of a list of ids.
LEMMA EachTasks ==
    ASSUME NEW k, NEW l, Lot(l, k, Ids), NEW prog \in Programs, NEW tab \in Tables,
           NEW ref \in Refs \cup {None}, NEW val \in Vals \cup {None}
    PROVE  Lot(Each(l, prog, tab, ref, val), k, Task) /\ Alike(Each(l, prog, tab, ref, val), k, prog, tab)
  <1> DEFINE e == Each(l, prog, tab, ref, val)
  <1>0. k \in Nat \ {0} /\ l \in [1..k -> Ids] /\ prog \in Seq(Statements)
    BY ProgTypes DEF Lot
  <1>1. e = [n \in 1..k |-> TaskOf(prog, tab, l[n], ref, val)]
    BY <1>0 DEF Each
  <1>2. ASSUME NEW n \in 1..k
        PROVE  e[n] \in Task /\ e[n].prog = prog /\ e[n].tab = tab /\ e[n].id \in Ids /\ e[n].new = None
    <2>1. e[n] = TaskOf(prog, tab, l[n], ref, val) /\ l[n] \in Ids
      BY <1>0, <1>1
    <2> HIDE DEF e
    <2>2. PICK i \in Ids : i = l[n]
      BY <2>1
    <2>3. PICK t : t = TaskOf(prog, tab, i, ref, val)
      OBVIOUS
    <2>4. t \in Task
      BY <1>0, <2>3 DEF TaskOf, Task
    <2>5. t.prog = prog /\ t.tab = tab /\ t.id = i /\ t.new = None
      BY <2>3 DEF TaskOf
    <2> QED
      BY <2>1, <2>2, <2>3, <2>4, <2>5
  <1> HIDE DEF e
  <1>3. Lot(e, k, Task) /\ Alike(e, k, prog, tab)
    BY <1>0, <1>1, <1>2 DEF Lot, Alike
  <1> QED
    BY <1>3 DEF e

\* A request that works on rows that are there.
LEMMA AsksForWork ==
    ASSUME IInv, NEW r \in Requests, NEW miss \in Policy, NEW fail \in Policy,
           NEW k, k <= MaxTasks[r], NEW todo, Lot(todo, k, Task), Start(r, miss, fail, todo),
           NEW prog \in EditProgs \cup DropProgs \cup DictProgs, NEW tab, Alike(todo, k, prog, tab),
           prog = <<"drop">> => fail = "count",
           prog \in DictProgs => prog = Dict5 /\ tab = "dict",
           fail = "stop" => miss = "stop" \/ (miss = "skip" /\ prog \in DropProgs \cup DictProgs)
    PROVE  IInv'
  <1>1. todo \in Seq(Task) /\ Len(todo) = k /\ todo # <<>> /\ DOMAIN todo = 1..k
    BY ListIsSeq DEF Lot
  <1>2. \A n \in DOMAIN todo : Proper(todo[n], fail)
    BY <1>1 DEF Proper, Works, Alike
  <1>3. Uniform(todo, miss, fail)
    BY <1>1 DEF Uniform, Alike
  <1>4. \A m, n \in DOMAIN todo : ~(todo[n].new # None)
    BY <1>1 DEF Alike
  <1>5. Len(todo) <= MaxTasks[r]
    BY <1>1
  <1> QED
    BY <1>1, <1>2, <1>3, <1>4, <1>5, Asks

\* A task that is given the id of its row.
LEMMA Named ==
    ASSUME NEW t \in Task, NEW x \in Ids, NEW w, w = [t EXCEPT !.new = x]
    PROVE  w \in Task /\ w.new = x /\ w.prog = t.prog /\ w.id = t.id
  <1>1. w \in Task
    BY DEF Task
  <1>2. w.new = x /\ w.prog = t.prog /\ w.id = t.id
    BY DEF Task
  <1> QED
    BY <1>1, <1>2

\* A request that creates rows.
LEMMA AsksForRows ==
    ASSUME IInv, NEW r \in Requests, NEW fail \in {"stop", "skip"},
           NEW k, k <= MaxTasks[r], NEW list, Lot(list, k, Task), Create(r, fail, list),
           \A n \in 1..k : \/ list[n].prog \in MakeProgs
                           \/ fail = "skip" /\ list[n].prog \in PickProgs /\ list[n].id \in Ids
    PROVE  IInv'
  <1>0. k \in Nat \ {0} /\ list \in [1..k -> Task]
    BY DEF Lot
  <1>1. PICK ids \in Injection(1..k, Fresh) :
            Start(r, "skip", fail, [n \in 1..k |-> [list[n] EXCEPT !.new = ids[n]]])
    <2>1. DOMAIN list = 1..k
      BY <1>0
    <2> QED
      BY <2>1 DEF Create
  <1>2. ids \in [1..k -> Fresh] /\ \A m, n \in 1..k : ids[m] = ids[n] => m = n
    BY <1>1 DEF Injection, IsInjective
  <1>3. PICK todo : todo = [n \in 1..k |-> [list[n] EXCEPT !.new = ids[n]]]
    OBVIOUS
  <1>4. ASSUME NEW n \in 1..k
        PROVE  /\ todo[n] \in Task /\ todo[n].new = ids[n] /\ todo[n].new \in Fresh /\ todo[n].new \in Ids
               /\ todo[n].prog = list[n].prog /\ todo[n].id = list[n].id
    <2>1. list[n] \in Task /\ ids[n] \in Fresh /\ ids[n] \in Ids
      BY <1>0, <1>2 DEF Fresh
    <2>2. todo[n] = [list[n] EXCEPT !.new = ids[n]]
      BY <1>3
    <2> QED
      BY <2>1, <2>2, Named
  <1>5. todo \in [1..k -> Task]
    BY <1>3, <1>4
  <1>6. todo \in Seq(Task) /\ Len(todo) = k /\ todo # <<>> /\ DOMAIN todo = 1..k
    BY <1>0, <1>5, ListIsSeq
  <1>7. Len(todo) <= MaxTasks[r]
    BY <1>6
  <1>8. \A n \in 1..k : todo[n].new # None
    BY <1>4, CatalogAssumption
  <1>9. \A n \in DOMAIN todo : Proper(todo[n], fail)
    <2> SUFFICES ASSUME NEW n \in 1..k
                 PROVE  Proper(todo[n], fail)
      BY <1>6
    <2>1. Makes(todo[n])
      BY <1>4 DEF Makes
    <2>2. todo[n].prog \notin DropProgs \cup DictProgs /\ <<"drop">> \in DropProgs
      BY <1>4, ProgKinds
    <2> QED
      BY <1>4, <2>1, <2>2 DEF Proper
  <1>10. Uniform(todo, "skip", fail)
    BY <1>4, <1>6, <1>8 DEF Uniform
  <1>11. \A m, n \in DOMAIN todo : todo[n].new # None /\ todo[m].new = todo[n].new => m = n
    BY <1>2, <1>4, <1>6
  <1>12. "skip" \in Policy /\ fail \in Policy /\ Start(r, "skip", fail, todo)
    BY <1>1, <1>3 DEF Policy
  <1> QED
    BY <1>6, <1>7, <1>9, <1>10, <1>11, <1>12, Asks

\* A list of one.
LEMMA Single ==
    ASSUME NEW r \in Requests, NEW T, NEW x \in T
    PROVE  \E l, k : k = 1 /\ k <= MaxTasks[r] /\ l = <<x>> /\ Lot(l, k, T) /\ \A n \in 1..k : l[n] = x
  <1>1. MaxTasks[r] \in Nat \ {0} /\ <<x>> \in [1..1 -> T]
    BY CatalogAssumption
  <1>2. PICK l, k : l = <<x>> /\ k = 1
    OBVIOUS
  <1>3. Lot(l, k, T) /\ k <= MaxTasks[r] /\ \A n \in 1..k : l[n] = x
    BY <1>1, <1>2 DEF Lot
  <1> QED
    BY <1>2, <1>3

LEMMA AddKeeps ==
    ASSUME IInv, NEW r \in Requests, NEW tab \in Tables, NEW refs \in SUBSET (Refs \cup {None}), Add(r, tab, refs)
    PROVE  IInv'
  <1>1. PICK ref \in refs : Create(r, "stop", <<TaskOf(<<"insert">>, tab, None, ref, None)>>)
    BY DEF Add
  <1>2. PICK p \in MakeProgs : p = <<"insert">>
    BY ProgKinds
  <1>3. PICK t : t = TaskOf(p, tab, None, ref, None)
    OBVIOUS
  <1>4. /\ p \in Seq(Statements) /\ None \in Ids \cup {None} /\ None \in Vals \cup {None}
        /\ ref \in Refs \cup {None}
    BY ProgTypes DEF Programs
  <1>5. t \in Task /\ t.prog = p
    <2>1. t \in Task
      BY <1>3, <1>4 DEF TaskOf, Task
    <2>2. t.prog = p
      BY <1>3 DEF TaskOf
    <2> QED
      BY <2>1, <2>2
  <1>6. PICK l, k : l = <<t>> /\ k <= MaxTasks[r] /\ Lot(l, k, Task) /\ \A n \in 1..k : l[n] = t
    BY <1>5, Single
  <1>7. Create(r, "stop", l)
    BY <1>1, <1>2, <1>3, <1>6
  <1>8. \A n \in 1..k : l[n].prog \in MakeProgs
    BY <1>5, <1>6
  <1> QED
    BY <1>6, <1>7, <1>8, AsksForRows

LEMMA EditKeeps ==
    ASSUME IInv, NEW r \in Requests, NEW tab \in Tables, NEW prog \in EditProgs, Edit(r, tab, prog)
    PROVE  IInv'
  <1>1. PICK i \in Ids, ref \in Refs \cup {None}, val \in Vals \cup {None} :
            Start(r, "stop", "stop", <<TaskOf(prog, tab, i, ref, val)>>)
    BY DEF Edit
  <1>2. PICK t : t = TaskOf(prog, tab, i, ref, val)
    OBVIOUS
  <1>3. prog \in Seq(Statements)
    BY ProgTypes DEF Programs
  <1>4. t \in Task /\ t.prog = prog /\ t.tab = tab /\ t.id \in Ids /\ t.new = None
    BY <1>2, <1>3, TaskOfFields
  <1>5. PICK l, k : l = <<t>> /\ k <= MaxTasks[r] /\ Lot(l, k, Task) /\ \A n \in 1..k : l[n] = t
    BY <1>4, Single
  <1>6. Alike(l, k, prog, tab)
    BY <1>4, <1>5 DEF Alike
  <1>7. Start(r, "stop", "stop", l) /\ "stop" \in Policy
    BY <1>1, <1>2, <1>5 DEF Policy
  <1>8. prog \notin DictProgs /\ prog # <<"drop">> /\ prog \in EditProgs \cup DropProgs \cup DictProgs
    BY ProgKinds
  <1> QED
    BY <1>5, <1>6, <1>7, <1>8, AsksForWork

\* Requests with a list of ids.
LEMMA EachKeeps ==
    ASSUME IInv, NEW r \in Requests, NEW miss \in Policy, NEW fail \in Policy,
           NEW l \in Lists(r, Ids), NEW prog \in EditProgs \cup DropProgs \cup DictProgs, NEW tab \in Tables,
           NEW ref \in Refs \cup {None}, NEW val \in Vals \cup {None},
           Start(r, miss, fail, Each(l, prog, tab, ref, val)),
           prog = <<"drop">> => fail = "count",
           prog \in DictProgs => prog = Dict5 /\ tab = "dict",
           fail = "stop" => miss = "stop" \/ (miss = "skip" /\ prog \in DropProgs \cup DictProgs)
    PROVE  IInv'
  <1>1. PICK k : k <= MaxTasks[r] /\ Lot(l, k, Ids)
    BY ListParts
  <1>2. PICK e : e = Each(l, prog, tab, ref, val)
    OBVIOUS
  <1>3. prog \in Programs
    BY DEF Programs
  <1>4. Lot(e, k, Task) /\ Alike(e, k, prog, tab)
    BY <1>1, <1>2, <1>3, EachTasks
  <1>5. Start(r, miss, fail, e)
    BY <1>2
  <1> QED
    BY <1>1, <1>4, <1>5, AsksForWork

LEMMA DiscardKeeps ==
    ASSUME IInv, NEW r \in Requests, NEW tab \in Tables, NEW prog, NEW fail, Discard(r, tab, prog, fail),
           \/ prog = <<"load", "drop">> /\ fail = "stop"
           \/ prog = <<"drop">> /\ fail = "count"
           \/ prog = Dict5 /\ tab = "dict" /\ fail = "stop"
    PROVE  IInv'
  <1>1. PICK l \in Lists(r, Ids) : Start(r, "skip", fail, Each(l, prog, tab, None, None))
    BY DEF Discard
  <1>2. /\ prog \in EditProgs \cup DropProgs \cup DictProgs /\ prog \in DropProgs \cup DictProgs
        /\ prog = <<"drop">> => fail = "count"
        /\ prog \in DictProgs => prog = Dict5 /\ tab = "dict"
    BY ProgKinds, DictParts
  <1>3. "skip" \in Policy /\ fail \in Policy /\ None \in Refs \cup {None} /\ None \in Vals \cup {None}
    BY DEF Policy
  <1> QED
    BY <1>1, <1>2, <1>3, EachKeeps

LEMMA DiscardOneKeeps ==
    ASSUME IInv, NEW r \in Requests, NEW tab \in Tables, DiscardOne(r, tab, <<"load", "drop">>)
    PROVE  IInv'
  <1> DEFINE p == <<"load", "drop">>
  <1>1. PICK i \in Ids : Start(r, "stop", "stop", Each(<<i>>, p, tab, None, None))
    BY DEF DiscardOne
  <1>2. <<i>> \in Lists(r, Ids)
    <2>1. MaxTasks[r] \in Nat \ {0} /\ <<i>> \in [1..1 -> Ids]
      BY CatalogAssumption
    <2> QED
      BY <2>1 DEF Lists
  <1>3. /\ p \in EditProgs \cup DropProgs \cup DictProgs /\ p # <<"drop">> /\ p \notin DictProgs
    BY ProgKinds
  <1>4. "stop" \in Policy /\ None \in Refs \cup {None} /\ None \in Vals \cup {None}
    BY DEF Policy
  <1> HIDE DEF p
  <1> QED
    BY <1>1, <1>2, <1>3, <1>4, EachKeeps

LEMMA BulkKeeps ==
    ASSUME IInv, NEW r \in Requests, NEW tab \in Tables, NEW progs \in SUBSET MakeProgs, Bulk(r, tab, progs)
    PROVE  IInv'
  <1> DEFINE S == [prog : progs, tab : {tab}, id : {None}, new : {None}, ref : Refs, val : {None}]
  <1>1. PICK l \in Lists(r, S) : Create(r, "stop", l)
    BY DEF Bulk
  <1>2. PICK k : k <= MaxTasks[r] /\ Lot(l, k, S)
    BY ListParts
  <1>3. progs \subseteq Seq(Statements)
    BY ProgTypes DEF Programs
  <1>4. \A t \in S : t \in Task /\ t.prog \in MakeProgs
    BY <1>3 DEF Task
  <1> HIDE DEF S
  <1>5. Lot(l, k, Task) /\ \A n \in 1..k : l[n].prog \in MakeProgs
    BY <1>2, <1>4 DEF Lot
  <1> QED
    BY <1>1, <1>2, <1>5, AsksForRows

LEMMA PickKeeps ==
    ASSUME IInv, NEW r \in Requests, handleSKRepoPick(r)
    PROVE  IInv'
  <1>1. PICK l \in Lists(r, Ids), ref \in Refs :
            \/ Create(r, "skip", Each(l, <<"copy", "insert">>, "template", ref, None))
            \/ Start(r, "skip", "skip", Each(l, <<"load">> \o TemplateUpdate, "template", ref, None))
    BY DEF handleSKRepoPick
  <1>2. "template" \in Tables /\ ref \in Refs \cup {None} /\ None \in Vals \cup {None} /\ "skip" \in Policy
    BY DEF Tables, Scopes, Policy
  <1>3. CASE Create(r, "skip", Each(l, <<"copy", "insert">>, "template", ref, None))
    <2>1. PICK k : k <= MaxTasks[r] /\ Lot(l, k, Ids)
      BY ListParts
    <2>2. PICK e : e = Each(l, <<"copy", "insert">>, "template", ref, None)
      OBVIOUS
    <2>3. PICK p \in PickProgs : p = <<"copy", "insert">>
      BY DEF PickProgs
    <2>4. p \in Programs
      BY DEF Programs
    <2>5. Lot(e, k, Task) /\ Alike(e, k, p, "template")
      <3>1. e = Each(l, p, "template", ref, None)
        BY <2>2, <2>3
      <3> QED
        BY <1>2, <2>1, <2>4, <3>1, EachTasks
    <2>6. Create(r, "skip", e)
      BY <1>3, <2>2
    <2>7. \A n \in 1..k : e[n].prog \in PickProgs /\ e[n].id \in Ids
      BY <2>5 DEF Alike
    <2> QED
      BY <2>1, <2>5, <2>6, <2>7, AsksForRows
  <1>4. CASE Start(r, "skip", "skip", Each(l, <<"load">> \o TemplateUpdate, "template", ref, None))
    <2>1. PICK p \in EditProgs : p = <<"load">> \o TemplateUpdate
      BY DEF TemplateUpdate, EditProgs
    <2>2. p \notin DictProgs /\ p # <<"drop">> /\ p \in EditProgs \cup DropProgs \cup DictProgs
      BY ProgKinds
    <2>3. Start(r, "skip", "skip", Each(l, p, "template", ref, None))
      BY <1>4, <2>1
    <2> QED
      BY <1>2, <2>2, <2>3, EachKeeps
  <1> QED
    BY <1>1, <1>3, <1>4

LEMMA UnbindKeeps ==
    ASSUME IInv, NEW r \in Requests, handleSKRepoUnbind(r)
    PROVE  IInv'
  <1>1. PICK l \in Lists(r, Ids) : Start(r, "count", "count", Each(l, TemplateUpdate, "template", Empty, None))
    BY DEF handleSKRepoUnbind
  <1>2. /\ "template" \in Tables /\ Empty \in Refs \cup {None} /\ None \in Vals \cup {None} /\ "count" \in Policy
    BY CatalogAssumption DEF Tables, Scopes, Policy
  <1>3. TemplateUpdate \in EditProgs
    BY DEF TemplateUpdate, EditProgs
  <1>4. TemplateUpdate \notin DictProgs /\ TemplateUpdate # <<"drop">> /\ TemplateUpdate \in EditProgs \cup DropProgs \cup DictProgs
    BY <1>3, ProgKinds
  <1> QED
    BY <1>1, <1>2, <1>4, EachKeeps

LEMMA SortKeeps ==
    ASSUME IInv, NEW r \in Requests, handleSKDeptSort(r)
    PROVE  IInv'
  <1>1. PICK l \in Lists(r, Ids), v \in Vals : Start(r, "stop", "count", Each(l, <<"write">>, "dept", None, v))
    BY DEF handleSKDeptSort
  <1>2. /\ "dept" \in Tables /\ None \in Refs \cup {None} /\ v \in Vals \cup {None}
        /\ "stop" \in Policy /\ "count" \in Policy
    BY DEF Tables, Scopes, Policy
  <1>3. PICK p \in EditProgs : p = <<"write">>
    BY DEF EditProgs
  <1>4. p \notin DictProgs /\ p # <<"drop">> /\ p \in EditProgs \cup DropProgs \cup DictProgs
    BY ProgKinds
  <1>5. Start(r, "stop", "count", Each(l, p, "dept", None, v))
    BY <1>1, <1>3
  <1> QED
    BY <1>2, <1>4, <1>5, EachKeeps

\* The tables and the programs of the handlers.
LEMMA TablesAre ==
    Tables = {"template", "repo", "dept", "position", "role", "dict", "item", "book", "partner", "sysinfo"}
  BY DEF Tables, Scopes

LEMMA HandlerProgs ==
    /\ TemplateUpdate \in EditProgs /\ RepoUpdate \in EditProgs /\ UpdateDept \in EditProgs
    /\ <<"load", "write">> \in EditProgs /\ <<"write">> \in EditProgs
    /\ TemplateSoftDelete = <<"load", "drop">> /\ RepoDelete = <<"load", "drop">> /\ DeleteDept = <<"load", "drop">>
    /\ DeleteDictWithItems = Dict5
  BY DEF TemplateUpdate, RepoUpdate, UpdateDept, EditProgs, TemplateSoftDelete, RepoDelete, DeleteDept,
         DeleteDictWithItems, Dict5

LEMMA ArriveKeeps ==
    ASSUME IInv, NEW r \in Requests, Arrive(r)
    PROVE  IInv'
  <1>1. \A tab \in Tables : Add(r, tab, Refs) \/ Add(r, tab, Refs \cup {None}) => IInv'
    <2>1. Refs \in SUBSET (Refs \cup {None}) /\ Refs \cup {None} \in SUBSET (Refs \cup {None})
      OBVIOUS
    <2> QED
      BY <2>1, AddKeeps
  <1>2. \A tab \in Tables, prog \in EditProgs : Edit(r, tab, prog) => IInv'
    BY EditKeeps
  <1>3. \A tab \in Tables : Discard(r, tab, <<"load", "drop">>, "stop") => IInv'
    <2> SUFFICES ASSUME NEW tab \in Tables, Discard(r, tab, <<"load", "drop">>, "stop")
                 PROVE  IInv'
      OBVIOUS
    <2>1. PICK prog : prog = <<"load", "drop">>
      OBVIOUS
    <2>2. Discard(r, tab, prog, "stop")
      BY <2>1
    <2> QED
      BY <2>1, <2>2, DiscardKeeps
  <1>4. \A tab \in Tables : Discard(r, tab, <<"drop">>, "count") => IInv'
    <2> SUFFICES ASSUME NEW tab \in Tables, Discard(r, tab, <<"drop">>, "count")
                 PROVE  IInv'
      OBVIOUS
    <2>1. PICK prog : prog = <<"drop">>
      OBVIOUS
    <2>2. Discard(r, tab, prog, "count")
      BY <2>1
    <2> QED
      BY <2>1, <2>2, DiscardKeeps
  <1>5. Discard(r, "dict", Dict5, "stop") => IInv'
    BY TablesAre, DiscardKeeps
  <1>6. \A tab \in Tables : DiscardOne(r, tab, <<"load", "drop">>) => IInv'
    BY DiscardOneKeeps
  <1>7. \A tab \in Tables : Bulk(r, tab, {<<"insert">>}) \/ Bulk(r, tab, {<<"insert">>, <<"refuse">>}) => IInv'
    <2>1. {<<"insert">>} \in SUBSET MakeProgs /\ {<<"insert">>, <<"refuse">>} \in SUBSET MakeProgs
      BY DEF MakeProgs
    <2> QED
      BY <2>1, BulkKeeps
  <1>8. CASE \/ handleSKTemplateCreate(r) \/ handleSKRepoCreate(r) \/ handleSKRepoPartnerCreate(r)
             \/ handleSKUserBookCreate(r) \/ handleSKDeptCreate(r) \/ handleSKPositionCreate(r) \/ handleSKRoleCreate(r)
             \/ handleSKDictCreate(r) \/ handleSKDictItemCreate(r)
    BY <1>1, <1>8, TablesAre
       DEF handleSKTemplateCreate, handleSKRepoCreate, handleSKRepoPartnerCreate, handleSKUserBookCreate,
           handleSKDeptCreate, handleSKPositionCreate, handleSKRoleCreate, handleSKDictCreate, handleSKDictItemCreate
  <1>9. CASE \/ handleSKTemplateUpdate(r) \/ handleSKRepoUpdate(r) \/ handleSKUserBookUpdate(r)
             \/ handleSKDeptUpdate(r) \/ handleSKPositionUpdate(r) \/ handleSKSystemUpdate(r)
             \/ handleSKDictUpdate(r) \/ handleSKDictItemUpdate(r)
    BY <1>2, <1>9, TablesAre, HandlerProgs
       DEF handleSKTemplateUpdate, handleSKRepoUpdate, handleSKUserBookUpdate, handleSKDeptUpdate,
           handleSKPositionUpdate, handleSKSystemUpdate, handleSKDictUpdate, handleSKDictItemUpdate
  <1>10. CASE \/ handleSKTemplateDelete(r) \/ handleSKRepoDelete(r) \/ handleSKDeptDelete(r) \/ handleSKPositionDelete(r)
    BY <1>3, <1>10, TablesAre, HandlerProgs
       DEF handleSKTemplateDelete, handleSKRepoDelete, handleSKDeptDelete, handleSKPositionDelete
  <1>11. CASE \/ handleSKRepoPartnerDelete(r) \/ handleSKUserBookDelete(r) \/ handleSKDictItemDelete(r)
    BY <1>4, <1>11, TablesAre DEF handleSKRepoPartnerDelete, handleSKUserBookDelete, handleSKDictItemDelete
  <1>12. CASE handleSKDictDelete(r)
    BY <1>5, <1>12, HandlerProgs DEF handleSKDictDelete
  <1>13. CASE handleSKRepoBatchCreate(r) \/ ImportTemplatesXLSX(r) \/ handleSKDictItemImport(r)
    BY <1>7, <1>13, TablesAre DEF handleSKRepoBatchCreate, ImportTemplatesXLSX, handleSKDictItemImport
  <1>14. CASE TemplateRoutes(r) \/ RepoRoutes(r)
    BY <1>1, <1>2, <1>6, <1>14, TablesAre, HandlerProgs DEF TemplateRoutes, RepoRoutes
  <1>15. CASE handleSKRepoPick(r) \/ handleSKRepoUnbind(r) \/ handleSKDeptSort(r)
    BY <1>15, PickKeeps, UnbindKeeps, SortKeeps
  <1> QED
    BY <1>8, <1>9, <1>10, <1>11, <1>12, <1>13, <1>14, <1>15 DEF Arrive

-----------------------------------------------------------------------------
(***************************************************************************)
(* The invariant.                                                          *)
(***************************************************************************)

LEMMA InitHolds ==
    ASSUME Init
    PROVE  IInv
  <1>1. scope \in Scopes /\ slot = [r \in Requests |-> Idle] /\ reply = Idle
    BY DEF Init
  <1>2. \A t \in scope : t \in Tables
    BY <1>1 DEF Tables
  <1>3. \A t \in Tables, v \in Refs : Stored(t, v, None) \in Row /\ Stored(t, v, None).st = "live"
    BY DEF Stored, Row
  <1>4. NoRow \in Row /\ NoRow.st = "free"
    BY DEF NoRow, Row
  <1>5. \A i \in Ids : rows[i] \in Row /\ rows[i].st # "deleted"
    <2> SUFFICES ASSUME NEW i \in Ids
                 PROVE  rows[i] \in Row /\ rows[i].st # "deleted"
      OBVIOUS
    <2>1. rows[i] = NoRow \/ \E t \in scope, v \in Refs : rows[i] = Stored(t, v, None)
      BY DEF Init
    <2> QED
      BY <1>2, <1>3, <1>4, <2>1
  <1>6. rows \in [Ids -> Row]
    <2>1. rows = [i \in Ids |-> rows[i]]
      BY DEF Init
    <2> QED
      BY <1>5, <2>1
  <1>7. Soft
    BY <1>5 DEF Soft
  <1>8. \A r \in Requests : slot[r] = Idle
    BY <1>1
  <1>9. slot \in [Requests -> Slot]
    BY <1>1, IdleWell
  <1>10. \A r \in Requests : SlotInv(slot[r], rows) /\ Len(slot[r].todo) <= MaxTasks[r]
    BY <1>8, IdleWell, CatalogAssumption
  <1>11. Distinct /\ Disjoint
    BY <1>8, IdleWell DEF Distinct, Disjoint
  <1>12. Reply(reply, rows)
    BY <1>1, IdleWell
  <1> QED
    BY <1>1, <1>6, <1>7, <1>9, <1>10, <1>11, <1>12 DEF IInv

LEMMA NextKeeps ==
    ASSUME IInv, [Next]_vars
    PROVE  IInv'
  <1>1. CASE UNCHANGED vars
    BY <1>1 DEF vars, IInv, Soft, Distinct, Disjoint
  <1>2. CASE Restart
    BY <1>2, RestartKeeps
  <1>3. ASSUME NEW r \in Requests, Arrive(r) \/ Serve(r) \/ Fail(r)
        PROVE  IInv'
    <2>1. CASE Arrive(r)
      BY <2>1, ArriveKeeps
    <2>2. CASE Load(r)
      BY <2>2, LoadKeeps
    <2>3. CASE Get(r)
      BY <2>3, GetKeeps
    <2>4. CASE Write(r)
      BY <2>4, WriteKeeps
    <2>5. CASE Drop(r)
      BY <2>5, DropKeeps
    <2>6. CASE Insert(r)
      BY <2>6, InsertKeeps
    <2>7. CASE Refuse(r)
      BY <2>7, RefuseKeeps
    <2>8. CASE GetDictByID(r)
      BY <2>8, GetDictByIDKeeps
    <2>9. CASE DeleteDictItemsByCode(r)
      BY <2>9, DeleteDictItemsByCodeKeeps
    <2>10. CASE SweepItems(r)
      BY <2>10, SweepItemsKeeps
    <2>11. CASE DeleteDict(r)
      BY <2>11, DeleteDictKeeps
    <2>12. CASE Commit(r)
      BY <2>12, CommitKeeps
    <2>13. CASE Fail(r)
      BY <2>13, FailKeeps
    <2> QED
      BY <1>3, <2>1, <2>2, <2>3, <2>4, <2>5, <2>6, <2>7, <2>8, <2>9, <2>10, <2>11, <2>12, <2>13 DEF Serve
  <1> QED
    BY <1>1, <1>2, <1>3 DEF Next

(***************************************************************************)
(* IInv holds in every reachable state: each handler of the tables, each   *)
(* statement it runs, its failure and a restart of the process keep it.    *)
(***************************************************************************)
THEOREM Invariant == Spec => []IInv
  <1>1. Init => IInv
    BY InitHolds
  <1>2. IInv /\ [Next]_vars => IInv'
    BY NextKeeps
  <1> QED
    BY <1>1, <1>2, PTL DEF Spec

-----------------------------------------------------------------------------
(***************************************************************************)
(* What the runs check, for all values of the constants.                   *)
(***************************************************************************)

(***************************************************************************)
(* Rows, tasks and replies have their types, no request holds more tasks   *)
(* than its list had, and no task is left without statements while it      *)
(* still counts as one to do.                                              *)
(***************************************************************************)
THEOREM TypeCorrect == Spec => []TypeOK
  <1>1. IInv => TypeOK
    <2> SUFFICES ASSUME IInv
                 PROVE  TypeOK
      OBVIOUS
    <2>1. ASSUME NEW r \in Requests
          PROVE  /\ slot[r] \in Slot
                 /\ Len(slot[r].todo) <= MaxTasks[r]
                 /\ \A n \in DOMAIN slot[r].todo : slot[r].todo[n].prog # <<>>
      <3>1. PICK s \in Slot : s = slot[r]
        BY DEF IInv
      <3>2. ASSUME NEW n \in DOMAIN s.todo
            PROVE  s.todo[n].prog # <<>>
        <4>1. s.todo # <<>>
          BY <3>2
        <4>2. s.todo[n] \in Task
          BY <3>2, <4>1, TodoParts
        <4>3. Makes(s.todo[n]) \/ Works(s.todo[n])
          BY <3>1, <3>2 DEF IInv, SlotInv, Rest
        <4> QED
          BY <4>2, <4>3, TaskParts, ProgTypes
      <3> QED
        BY <3>1, <3>2 DEF IInv
    <2> QED
      BY <2>1 DEF IInv, TypeOK, Reply
  <1> QED
    BY <1>1, Invariant, PTL

\* Both promises hold of every request and of the reply.
LEMMA Promises ==
    ASSUME IInv, NEW s \in {slot[r] : r \in Requests} \cup {reply}
    PROVE  SaysDeleted(s, rows) /\ SaysMade(s, rows)
  <1>1. CASE s = reply
    BY <1>1 DEF IInv, Reply
  <1>2. CASE \E r \in Requests : s = slot[r]
    BY <1>2, KeepsWord DEF IInv, SlotInv
  <1> QED
    BY <1>1, <1>2

(***************************************************************************)
(* What a bulk deletion (handleSKTemplateDelete, handleSKDictDelete and    *)
(* the like) lists as deleted is not live, however many requests delete    *)
(* and edit the same rows, whichever answers are lost and however often an *)
(* id comes in one list.                                                   *)
(***************************************************************************)
THEOREM NothingListedLives == Spec => []DeletedMeansDeleted
  <1>1. IInv => DeletedMeansDeleted
    BY Promises DEF DeletedMeansDeleted, SaysDeleted
  <1> QED
    BY <1>1, Invariant, PTL

(***************************************************************************)
(* A bulk creation (handleSKRepoBatchCreate, ImportTemplatesXLSX,          *)
(* handleSKDictItemImport) has stored what it lists and at most one row    *)
(* more, the one whose answer was lost; without an error it lists them     *)
(* all, each once.                                                         *)
(***************************************************************************)
THEOREM BulkPrefix == Spec => []BulkIsAPrefix
  <1>1. IInv => BulkIsAPrefix
    BY Promises DEF BulkIsAPrefix, SaysMade, Listed
  <1> QED
    BY <1>1, Invariant, PTL

\* Only the request that a step is about changes.
LEMMA GotoOthers ==
    ASSUME IInv, NEW r \in Requests, NEW c, Goto(r, c), NEW o \in Requests, o # r
    PROVE  slot'[o] = slot[o]
  BY DEF IInv, Goto

\* The last statement of a task: one task less.
LEMMA AnswerMoves ==
    ASSUME IInv, NEW r \in Requests, Busy(r), Len(Cur(r).prog) = 1, Answer(r, slot[r])
    PROVE  slot'[r] # slot[r]
  <1>1. PICK s \in Slot : s = slot[r]
    BY Current
  <1>2. s.todo # <<>> /\ Head(s.todo) = Cur(r)
    BY <1>1, Current
  <1>3. PICK c : Goto(r, c) /\ (c = Step(s, Cur(r)) \/ c = Obey(s, s.fail))
    BY <1>1 DEF Answer
  <1>4. c.todo = <<>> \/ c.todo = Tail(s.todo)
    <2>1. CASE c = Step(s, Cur(r))
      <3>1. c = Close(s, TRUE)
        BY <2>1 DEF Step
      <3> QED
        BY <1>2, <3>1, CloseFields
    <2>2. CASE c = Obey(s, s.fail) /\ s.fail = "stop"
      BY <2>2, StopFields DEF Obey
    <2>3. CASE c = Obey(s, s.fail) /\ s.fail # "stop"
      <3>1. PICK b \in BOOLEAN : b = (s.fail = "count")
        OBVIOUS
      <3>2. c = Close(s, b)
        BY <2>3, <3>1 DEF Obey
      <3> QED
        BY <1>2, <3>2, CloseFields
    <2> QED
      BY <1>3, <2>1, <2>2, <2>3
  <1>5. slot'[r] = IF c.todo = <<>> THEN Idle ELSE c
    BY <1>3 DEF IInv, Goto
  <1>6. slot'[r].todo = <<>> \/ slot'[r].todo = Tail(s.todo)
    BY <1>4, <1>5, IdleWell
  <1>7. Tail(s.todo) # s.todo
    <2>1. PICK l : l = s.todo
      OBVIOUS
    <2>2. Len(Tail(l)) = Len(l) - 1 /\ Len(l) \in Nat
      BY <1>2, <2>1, TodoParts
    <2>3. Tail(l) # l
      BY <2>2
    <2> QED
      BY <2>1, <2>3
  <1> QED
    BY <1>1, <1>2, <1>6, <1>7

\* The statements that change rows, and what they change.
LEMMA RowsChange ==
    ASSUME IInv, Next, rows' # rows
    PROVE  \E r \in Requests : Write(r) \/ Drop(r) \/ Insert(r) \/ Commit(r)
  <1>1. ~Restart
    BY DEF Restart
  <1>2. PICK r \in Requests : Arrive(r) \/ Serve(r) \/ Fail(r)
    BY <1>1 DEF Next
  <1>3. ~Arrive(r)
    BY DEF Arrive, Start, Create, Add, Edit, Discard, DiscardOne, Bulk,
           handleSKTemplateCreate, handleSKTemplateUpdate, handleSKTemplateDelete, TemplateRoutes,
           handleSKRepoCreate, handleSKRepoUpdate, handleSKRepoDelete, RepoRoutes,
           handleSKRepoBatchCreate, ImportTemplatesXLSX, handleSKRepoPick, handleSKRepoUnbind,
           handleSKRepoPartnerCreate, handleSKRepoPartnerDelete,
           handleSKUserBookCreate, handleSKUserBookUpdate, handleSKUserBookDelete,
           handleSKDeptCreate, handleSKDeptUpdate, handleSKDeptDelete, handleSKDeptSort,
           handleSKPositionCreate, handleSKPositionUpdate, handleSKPositionDelete,
           handleSKRoleCreate, handleSKSystemUpdate,
           handleSKDictCreate, handleSKDictUpdate, handleSKDictDelete,
           handleSKDictItemCreate, handleSKDictItemUpdate, handleSKDictItemDelete, handleSKDictItemImport
  <1>4. Serve(r)
    BY <1>2, <1>3 DEF Fail
  <1>5. Write(r) \/ Drop(r) \/ Insert(r) \/ Commit(r)
    BY <1>4 DEF Serve, Load, Get, Refuse, GetDictByID, DeleteDictItemsByCode, SweepItems, DeleteDict
  <1> QED
    BY <1>5

\* An UPDATE changes the row of its task only, and in it what the request has sent.
LEMMA WriteChanges ==
    ASSUME IInv, NEW r \in Requests, Write(r), NEW i \in Ids, rows'[i] # rows[i]
    PROVE  /\ rows[i].st = "live" /\ Sends(r, i)
           /\ rows'[i].ref # rows[i].ref => rows'[i].ref # None /\ Cur(r).ref = rows'[i].ref
           /\ rows'[i].val # rows[i].val => rows'[i].val # None /\ Cur(r).val = rows'[i].val
  <1> DEFINE t == Cur(r)
  <1>1. Busy(r) /\ Head(t.prog) = "write" /\ Answer(r, slot[r]) /\ At(r, "write")
    BY DEF Write, At
  <1>2. t.prog = <<"write">> /\ t \in Task
    BY <1>1, Current, ProgHeads
  <1>3. Len(t.prog) = 1
    BY <1>2
  <1>4. slot'[r] # slot[r]
    BY <1>1, <1>3, AnswerMoves
  <1>5. rows \in [Ids -> Row]
    BY DEF IInv
  <1>6. Found(t) /\ rows' = [rows EXCEPT ![t.id] = Updated(rows[t.id], t)]
    BY DEF Write
  <1>7. i = t.id /\ rows'[i] = Updated(rows[i], t)
    BY <1>5, <1>6
  <1>8. PICK w : w = Updated(rows[i], t)
    OBVIOUS
  <1>9. w.ref = Coalesce(t.ref, rows[i].ref) /\ w.val = Coalesce(t.val, rows[i].val)
    BY <1>2, <1>5, <1>8, UpdatedRow
  <1>10. /\ w.ref # rows[i].ref => t.ref # None /\ t.ref = w.ref
         /\ w.val # rows[i].val => t.val # None /\ t.val = w.val
    BY <1>9 DEF Coalesce
  <1> QED
    BY <1>1, <1>4, <1>6, <1>7, <1>8, <1>10 DEF Sends, Found

\* A DELETE changes live rows only, and not their columns.
LEMMA DropChanges ==
    ASSUME IInv, NEW r \in Requests, Drop(r) \/ Commit(r), NEW i \in Ids, rows'[i] # rows[i]
    PROVE  rows[i].st = "live" /\ rows'[i].ref = rows[i].ref /\ rows'[i].val = rows[i].val
  <1>1. rows \in [Ids -> Row] /\ rows[i] \in Row
    BY DEF IInv
  <1>2. CASE Drop(r)
    <2>1. Found(Cur(r)) /\ rows' = [rows EXCEPT ![Cur(r).id] = Dropped(rows[Cur(r).id])]
      BY <1>2 DEF Drop
    <2>2. i = Cur(r).id /\ rows'[i] = Dropped(rows[i])
      BY <1>1, <2>1
    <2> QED
      BY <1>1, <2>1, <2>2, DroppedRow DEF Found
  <1>3. CASE Commit(r)
    <2>1. rows' = [j \in Ids |-> IF j \in slot[r].held THEN Dropped(rows[j]) ELSE rows[j]] /\ Busy(r)
      BY <1>3 DEF Commit, At
    <2>2. i \in slot[r].held /\ rows'[i] = Dropped(rows[i])
      BY <2>1
    <2>3. slot[r].todo # <<>> /\ Front(slot[r], rows)
      BY <2>1, Current
    <2>4. rows[i].st = "live"
      BY <2>2, <2>3 DEF Front
    <2> QED
      BY <1>1, <2>2, <2>4, DroppedRow
  <1> QED
    BY <1>2, <1>3

\* An INSERT finds its row free.
LEMMA InsertChanges ==
    ASSUME IInv, NEW r \in Requests, Insert(r), NEW i \in Ids, rows'[i] # rows[i]
    PROVE  rows[i].st = "free"
  <1> DEFINE t == Cur(r)
  <1>1. Busy(r) /\ Head(t.prog) = "insert"
    BY DEF Insert, At
  <1>2. /\ t.prog = <<"insert">> /\ (Makes(t) \/ Works(t)) /\ slot[r].todo # <<>> /\ Head(slot[r].todo) = t
        /\ Front(slot[r], rows)
    BY <1>1, Current, ProgHeads
  <1>3. t.new \in Ids
    BY <1>2, ProgKinds DEF Makes, Works
  <1>4. rows[t.new].st = "free"
    BY <1>2, <1>3, CatalogAssumption DEF Front
  <1>5. rows \in [Ids -> Row]
    BY DEF IInv
  <1>6. i = t.new
    BY <1>5 DEF Insert
  <1> QED
    BY <1>4, <1>6

(***************************************************************************)
(* Edits of one row merge: UPDATE .. SET c = COALESCE($n, c) WHERE id = $1 *)
(* AND is_deleted = 0 changes a live row, in the columns the request has   *)
(* sent and to what it has sent, however the loads and the writes of the   *)
(* requests are interleaved; nothing else changes a column.                *)
(***************************************************************************)
THEOREM Merging == Spec => EditsMerge
  <1> DEFINE P == \A i \in Ids : rows'[i] # rows[i] /\ rows[i].st # "free" =>
          /\ rows[i].st = "live"
          /\ rows'[i].ref # rows[i].ref
                => /\ rows'[i].ref # None
                   /\ \E r \in Requests : Sends(r, i) /\ Cur(r).ref = rows'[i].ref
          /\ rows'[i].val # rows[i].val
                => /\ rows'[i].val # None
                   /\ \E r \in Requests : Sends(r, i) /\ Cur(r).val = rows'[i].val
  <1>1. IInv /\ [Next]_vars => [P]_vars
    <2> SUFFICES ASSUME IInv, Next, NEW i \in Ids, rows'[i] # rows[i], rows[i].st # "free"
                 PROVE  /\ rows[i].st = "live"
                        /\ rows'[i].ref # rows[i].ref
                              => /\ rows'[i].ref # None
                                 /\ \E r \in Requests : Sends(r, i) /\ Cur(r).ref = rows'[i].ref
                        /\ rows'[i].val # rows[i].val
                              => /\ rows'[i].val # None
                                 /\ \E r \in Requests : Sends(r, i) /\ Cur(r).val = rows'[i].val
      OBVIOUS
    <2>1. PICK r \in Requests : Write(r) \/ Drop(r) \/ Insert(r) \/ Commit(r)
      BY RowsChange
    <2>2. CASE Write(r)
      BY <2>2, WriteChanges
    <2>3. CASE Drop(r) \/ Commit(r)
      BY <2>3, DropChanges
    <2>4. CASE Insert(r)
      BY <2>4, InsertChanges
    <2> QED
      BY <2>1, <2>2, <2>3, <2>4
  <1>2. Spec => [][P]_vars
    BY <1>1, Invariant, PTL DEF Spec
  <1> QED
    BY <1>2 DEF EditsMerge

\* A commit in its own request.
LEMMA CommitWhole ==
    ASSUME IInv, NEW r \in Requests, Commit(r)
    PROVE  /\ rows'[Cur(r).id].st = "gone"
           /\ \A i \in slot[r].held : i \in Ids /\ rows[i].st = "live" /\ rows'[i].st # "live"
           /\ \A i \in Ids \ slot[r].held : rows'[i] = rows[i]
           /\ \A i \in slot[r].held \ {Cur(r).id} : Coded(i, Cur(r).ref)
  <1> DEFINE t == Cur(r)
             H == slot[r].held
  <1>1. /\ Busy(r) /\ Head(t.prog) = "commit"
        /\ rows' = [i \in Ids |-> IF i \in H THEN Dropped(rows[i]) ELSE rows[i]]
    BY DEF Commit, At
  <1>2. t.prog = Dict1 /\ t.prog \in DictProgs /\ t.prog # Dict5
    BY <1>1, Current, ProgHeads, DictParts, ProgKinds
  <1>3. /\ t.id \in Ids /\ Loaded(t, rows) /\ slot[r] \in Slot /\ t.tab = "dict"
        /\ \A i \in H : rows[i].st = "live" /\ (i = t.id \/ (rows[i].tab = "item" /\ rows[i].ref = t.ref))
        /\ t.id \in H \/ rows[t.id].st # "live"
    BY <1>1, <1>2, InDict
  <1>4. H \subseteq Ids /\ rows \in [Ids -> Row]
    BY <1>3, SlotFields DEF IInv
  <1>5. \A i \in Ids \ H : rows'[i] = rows[i]
    BY <1>1
  <1>6. \A i \in H : rows'[i].st = IF rows[i].tab \in SoftTables THEN "deleted" ELSE "gone"
    <2> SUFFICES ASSUME NEW i \in H
                 PROVE  rows'[i].st = IF rows[i].tab \in SoftTables THEN "deleted" ELSE "gone"
      OBVIOUS
    <2>1. rows[i] \in Row /\ rows'[i] = Dropped(rows[i])
      BY <1>1, <1>4
    <2> QED
      BY <2>1, DroppedRow
  <1>7. rows[t.id].tab \notin SoftTables
    BY <1>3 DEF Loaded, SoftTables
  <1>8. rows'[t.id].st = "gone"
    <2>1. CASE t.id \in H
      BY <1>6, <1>7, <2>1
    <2>2. CASE t.id \notin H
      <3>1. rows[t.id].st \in {"deleted", "gone"} /\ rows[t.id].st # "deleted"
        BY <1>3, <1>4, <1>7, <2>2 DEF Loaded, Row, IInv, Soft
      <3> QED
        BY <1>3, <1>5, <2>2, <3>1
    <2> QED
      BY <2>1, <2>2
  <1>9. \A i \in H : i \in Ids /\ rows[i].st = "live" /\ rows'[i].st # "live"
    BY <1>3, <1>4, <1>6
  <1>10. \A i \in H \ {t.id} : Coded(i, t.ref)
    BY <1>3 DEF Coded
  <1> QED
    BY <1>5, <1>8, <1>9, <1>10

(***************************************************************************)
(* DeleteDictWithItems: when its transaction commits and anything goes,    *)
(* the dictionary goes, every row the transaction has taken goes, and      *)
(* nothing else but items that carry its code at that moment; other        *)
(* requests create, edit and delete items and dictionaries meanwhile.      *)
(***************************************************************************)
THEOREM WholeCascade == Spec => CascadeIsWhole
  <1> DEFINE lost == {i \in Ids : rows[i].st = "live" /\ rows'[i].st # "live"}
             P == \A r \in Requests :
                      At(r, "commit") /\ slot'[r] # slot[r] /\ lost # {}
                          => /\ rows'[Cur(r).id].st = "gone"
                             /\ slot[r].held \subseteq lost
                             /\ \A i \in lost \ {Cur(r).id} : Coded(i, Cur(r).ref)
  <1>1. IInv /\ [Next]_vars => [P]_vars
    <2> SUFFICES ASSUME IInv, Next, NEW r \in Requests, At(r, "commit"), slot'[r] # slot[r], lost # {}
                 PROVE  /\ rows'[Cur(r).id].st = "gone"
                        /\ slot[r].held \subseteq lost
                        /\ \A i \in lost \ {Cur(r).id} : Coded(i, Cur(r).ref)
      OBVIOUS
    <2>1. PICK o \in Requests : Write(o) \/ Drop(o) \/ Insert(o) \/ Commit(o)
      BY RowsChange
    <2>2. \E c : Goto(o, c)
      BY <2>1 DEF Write, Drop, Insert, Commit, Answer
    <2>3. o = r
      BY <2>2, GotoOthers
    <2>4. Commit(r)
      BY <2>1, <2>3 DEF Write, Drop, Insert, At
    <2>5. /\ rows'[Cur(r).id].st = "gone"
          /\ \A i \in slot[r].held : i \in Ids /\ rows[i].st = "live" /\ rows'[i].st # "live"
          /\ \A i \in Ids \ slot[r].held : rows'[i] = rows[i]
          /\ \A i \in slot[r].held \ {Cur(r).id} : Coded(i, Cur(r).ref)
      BY <2>4, CommitWhole
    <2> QED
      BY <2>5
  <1>2. Spec => [][P]_vars
    BY <1>1, Invariant, PTL DEF Spec
  <1> QED
    BY <1>2 DEF CascadeIsWhole
=============================================================================
