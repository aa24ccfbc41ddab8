--------------------------- MODULE Sessions_proofs ---------------------------
(***************************************************************************)
(* Proofs about module Sessions and the tables of module Directory: what   *)
(* is true of the tables, and of what requests have written, locked and    *)
(* still to do, at whatever statement each request is; and that no         *)
(* statement of a handler's plan, whatever the plan, makes it false.       *)
(***************************************************************************)
EXTENDS Directory, SequenceTheorems, TLAPS

(***************************************************************************)
(* What is left of a handler's plan.                                       *)
(***************************************************************************)
IsSeq(p) == p \in Seq({p[i] : i \in 1 .. Len(p)})

StatementFits(s) ==
  /\ s.do \in Checks \cup Writes \cup {"commit"}
  /\ s.do \in Loading \cup {"insert", "update", "erase", "cascade"} => s.x \in Rows
  /\ s.do \in {"find", "refuse"} => s.arg \notin {"ok", "pending"}
  /\ s.do = "insert" => IsRow(s.arg) /\ RowFits(s.x, s.arg)
  /\ s.do = "update" =>
       Fits(s.x, s.arg) /\ ("st" \in DOMAIN s.arg => s.arg.st \in {"live", "deleted"})
  /\ s.do \in {"erase", "cascade"} => s.x \in Users \cup Types \cup Institutions

Ending == {"audit", "commit"}

\* What may come after the statement p[i]: one row is updated, one is removed,
\* with what depends on it, or one is inserted, or an account and a share.
Follows(p, i, j) ==
  /\ p[i].do \in Ending \cup {"update", "cascade"} => p[j].do \in Ending
  /\ p[i].do = "insert" =>
       \/ p[j].do \in Ending
       \/ p[j].do = "insert" /\ p[j].x # p[i].x /\ p[i].x \in Accounts /\ p[j].x \in Shares
  /\ p[i].do = "erase" /\ j # i + 1 => p[j].do \in Ending
  /\ p[i].do = "erase" /\ j = i + 1 => p[j].do = "cascade" /\ p[j].x = p[i].x

PlanFits(p) ==
  /\ IsSeq(p)
  /\ \A i \in 1 .. Len(p) : StatementFits(p[i])
  /\ \A i, j \in 1 .. Len(p) : i < j => Follows(p, i, j)
  /\ p # << >> => p[Len(p)].do = "commit"

\* The rows of statements that are still to be executed are not written yet.
Unwritten(q) ==
  \A i \in 1 .. Len(q.todo) :
    LET s == q.todo[i] IN
    /\ s.do \in {"update", "erase"} => DOMAIN q.writes = {}
    /\ s.do = "cascade" => DOMAIN q.writes \subseteq {s.x}
    /\ s.do = "insert" => s.x \notin DOMAIN q.writes

Inserting(q) == {q.todo[i].x : i \in {i \in 1 .. Len(q.todo) : q.todo[i].do = "insert"}}

\* Nobody else knows of a row that is going to be inserted.
FreshToAll(r) ==
  \A x \in Inserting(req[r]) :
    /\ db[x].st = "absent"
    /\ \A q \in Reqs \ {r} : x \notin DOMAIN req[q].writes \cup Inserting(req[q])

(***************************************************************************)
(* Types, and what is true of one request.                                 *)
(***************************************************************************)
Modes == {"keyshare", "nokey", "update"}

IsReq(q) ==
  /\ DOMAIN q = DOMAIN NewReq
  /\ PlanFits(q.todo)
  /\ (q.answer = "pending") <=> (q.todo # << >>)
  /\ q.answer # "pending" => q.writes = Nothing /\ q.locks = {}
  /\ DOMAIN q.read \cup DOMAIN q.writes \cup q.wrote \subseteq Rows
  /\ q.locks \subseteq Rows \X Modes
  /\ Unwritten(q)

Typed ==
  /\ DOMAIN db = Rows /\ \A x \in Rows : RowFits(x, db[x])
  /\ DOMAIN req = Reqs /\ \A r \in Reqs : IsReq(req[r])
  /\ audited \subseteq committed /\ committed \subseteq Reqs
  /\ DOMAIN met = Reqs /\ \A r \in Reqs : met[r] \subseteq Reqs \ {r}
  /\ \A r \in Reqs : Active(r) => req[r].by \in Users

\* A row written is new, or one of the table that the request has locked.
RowWritten(q, x) ==
  /\ RowFits(x, q.writes[x])
  /\ \/ db[x].st = "absent" /\ IsRow(q.writes[x])
     \/ /\ IsRow(db[x])
        /\ <<x, "update">> \in q.locks \/ <<x, "nokey">> \in q.locks
        /\ ~ IsRow(q.writes[x]) => <<x, "update">> \in q.locks

\* And the rows it has come to refer to are locked too.
RefsLocked(q, x) ==
  \A y \in Refs(x, q.writes[x]) \ Refs(x, db[x]) : <<y, "keyshare">> \in q.locks

WritesFit(r) ==
  \A x \in DOMAIN req[r].writes : RowWritten(req[r], x) /\ RefsLocked(req[r], x)

(***************************************************************************)
(* What two requests have to do with each other.                           *)
(***************************************************************************)
LocksApart(q, r) ==
  \A k \in req[q].locks, l \in req[r].locks : k[1] = l[1] => {k[2], l[2]} \notin Conflict

WritesApart(q, r) == DOMAIN req[q].writes \cap DOMAIN req[r].writes = {}

\* A key that r brings in is none that q has, brings in or gives up.
KeysApart(q, r) ==
  \A x \in DOMAIN req[r].writes, y \in DOMAIN req[q].writes :
    (Keys(x, req[r].writes[x]) \ Keys(x, db[x])) \cap
      (Keys(y, db[y]) \cup Keys(y, req[q].writes[y])) = {}

Apart == \A q, r \in Reqs : q # r => LocksApart(q, r) /\ WritesApart(q, r) /\ KeysApart(q, r)

(***************************************************************************)
(* In the tables as every request would leave them, the constraints hold,  *)
(* but for references to a row whose dependents are about to be removed.   *)
(***************************************************************************)
UniqueSeen(r) ==
  \A x, y \in Rows : x # y => Keys(x, Seen(r, x)) \cap Keys(y, Seen(r, y)) = {}

ReferencesSeen(r) ==
  \A x \in Rows : \A y \in Refs(x, Seen(r, x)) :
    IsRow(Seen(r, y)) \/ (At(r, {"cascade"}) /\ y = Now(r).x)

Consistent ==
  /\ Typed
  /\ \A r \in Reqs : FreshToAll(r) /\ WritesFit(r)
  /\ Apart
  /\ KeysUnique /\ ReferencesHold
  /\ \A r \in Reqs : UniqueSeen(r) /\ ReferencesSeen(r)

-----------------------------------------------------------------------------
(* Rows and what they refer to                                             *)

\* Every identity is of one table.
LEMMA KindsApart ==
  /\ Users \cap Types = {} /\ Users \cap Institutions = {} /\ Users \cap Accounts = {}
  /\ Users \cap Cards = {} /\ Users \cap Shares = {} /\ Types \cap Institutions = {}
  /\ Types \cap Accounts = {} /\ Types \cap Cards = {} /\ Types \cap Shares = {}
  /\ Institutions \cap Accounts = {} /\ Institutions \cap Cards = {}
  /\ Institutions \cap Shares = {} /\ Accounts \cap Cards = {} /\ Accounts \cap Shares = {}
  /\ Cards \cap Shares = {} /\ None \notin Rows
<1> DEFINE kinds == <<Users, Types, Institutions, Accounts, Cards, Shares>>
<1>1. \A i, j \in 1 .. 6 : i # j => kinds[i] \cap kinds[j] = {}
  BY SessionsAssumption
<1>2. /\ kinds[1] = Users /\ kinds[2] = Types /\ kinds[3] = Institutions
      /\ kinds[4] = Accounts /\ kinds[5] = Cards /\ kinds[6] = Shares
  OBVIOUS
<1> HIDE DEF kinds
<1>3. /\ Users \cap Types = {} /\ Users \cap Institutions = {} /\ Users \cap Accounts = {}
      /\ Users \cap Cards = {} /\ Users \cap Shares = {}
  BY <1>1, <1>2
<1>4. /\ Types \cap Institutions = {} /\ Types \cap Accounts = {} /\ Types \cap Cards = {}
      /\ Types \cap Shares = {}
  BY <1>1, <1>2
<1>5. /\ Institutions \cap Accounts = {} /\ Institutions \cap Cards = {}
      /\ Institutions \cap Shares = {} /\ Accounts \cap Cards = {} /\ Accounts \cap Shares = {}
      /\ Cards \cap Shares = {}
  BY <1>1, <1>2
<1> QED BY <1>3, <1>4, <1>5, SessionsAssumption

\* A row that is not in its table has no keys and refers to nothing.
LEMMA NoRowNothing ==
  ASSUME NEW x, NEW row, ~ IsRow(row)
  PROVE  Keys(x, row) = {} /\ Refs(x, row) = {}
BY DEF Keys, Refs

LEMMA StatesApart == ~ IsRow(Absent) /\ ~ IsRow(Gone) /\ Gone.st # "absent"
BY DEF IsRow, Absent, Gone

\* The references of a row that fits its table.
LEMMA ReferencesOf ==
  ASSUME NEW x \in Rows, NEW row, RowFits(x, row), IsRow(row)
  PROVE  /\ "st" \in DOMAIN row
         /\ x \in Accounts =>
              /\ row.owner \in Users /\ row.type \in Types /\ row.inst \in Institutions
              /\ Refs(x, row) = {row.owner, row.type, row.inst}
         /\ x \in Cards =>
              /\ row.account \in Accounts /\ row.inst \in Institutions \cup {None}
              /\ Refs(x, row) = {row.account, row.inst} \ {None}
         /\ x \in Shares =>
              /\ row.account \in Accounts /\ row.user \in Users
              /\ Refs(x, row) = {row.account, row.user}
         /\ x \notin Accounts \cup Cards \cup Shares => Refs(x, row) = {}
<1>1. Columns(x) \subseteq DOMAIN row /\ Fits(x, row)
  BY StatesApart DEF RowFits
<1>2. \A c \in DOMAIN row : c \in {"owner", "user", "account", "type", "inst"} =>
         row[c] \in Referring[c] \/ (x \in Cards /\ c = "inst" /\ row[c] = None)
  BY <1>1 DEF Fits, Referring
<1>3. CASE x \in Accounts
  <2>1. Columns(x) = {"st", "owner", "name", "type", "inst", "title", "label"}
    BY <1>3, KindsApart DEF Columns
  <2>2. row.owner \in Users /\ row.type \in Types /\ row.inst \in Institutions
    BY <1>1, <1>2, <1>3, <2>1, KindsApart DEF Referring
  <2> QED BY <1>1, <1>3, <2>1, <2>2, KindsApart DEF Refs, AccountRefs
<1>4. CASE x \in Cards
  <2>1. Columns(x) = {"st", "account", "inst", "title", "label"}
    BY <1>4, KindsApart DEF Columns
  <2>2. row.account \in Accounts /\ row.inst \in Institutions \cup {None}
    BY <1>1, <1>2, <1>4, <2>1, KindsApart DEF Referring
  <2> QED BY <1>1, <1>4, <2>1, <2>2, KindsApart DEF Refs, CardRefs
<1>5. CASE x \in Shares
  <2>1. Columns(x) = {"st", "account", "user", "level"}
    BY <1>5, KindsApart DEF Columns
  <2>2. row.account \in Accounts /\ row.user \in Users
    BY <1>1, <1>2, <1>5, <2>1, KindsApart DEF Referring
  <2> QED BY <1>1, <1>5, <2>1, <2>2, KindsApart DEF Refs, ShareRefs
<1>6. CASE x \notin Accounts \cup Cards \cup Shares
  <2>1. "st" \in DOMAIN row
    BY <1>1 DEF Columns
  <2> QED BY <2>1, <1>6 DEF Refs
<1> QED BY <1>3, <1>4, <1>5, <1>6

LEMMA ReferencesAreRows ==
  ASSUME NEW x \in Rows, NEW row, RowFits(x, row)
  PROVE  Refs(x, row) \subseteq Rows \ Cards /\ Refs(x, row) \cap Shares = {}
<1>1. CASE ~ IsRow(row)
  BY <1>1, NoRowNothing
<1>2. CASE IsRow(row) /\ x \in Accounts
  BY <1>2, ReferencesOf, KindsApart DEF Rows
<1>3. CASE IsRow(row) /\ x \in Cards
  BY <1>3, ReferencesOf, KindsApart DEF Rows
<1>4. CASE IsRow(row) /\ x \in Shares
  BY <1>4, ReferencesOf, KindsApart DEF Rows
<1> QED BY <1>1, <1>2, <1>3, <1>4, ReferencesOf

-----------------------------------------------------------------------------
(* Plans                                                                   *)

\* What is left after a statement is a plan again, and not nothing before the
\* last commit.
LEMMA RestFits ==
  ASSUME NEW p, PlanFits(p), p # << >>
  PROVE  /\ PlanFits(Tail(p))
         /\ Len(p) \in Nat \ {0} /\ Head(p) = p[1] /\ StatementFits(Head(p))
         /\ Len(Tail(p)) = Len(p) - 1
         /\ \A i \in 1 .. Len(Tail(p)) : Tail(p)[i] = p[i + 1] /\ Follows(p, 1, i + 1)
         /\ Tail(p) = << >> <=> Len(p) = 1
         /\ Head(p).do # "commit" => Tail(p) # << >>
<1> DEFINE S == {p[i] : i \in 1 .. Len(p)}
<1>1. p \in Seq(S)
  BY DEF PlanFits, IsSeq
<1> HIDE DEF S
<1>2. /\ Len(p) \in Nat \ {0} /\ Head(p) = p[1]
      /\ Tail(p) \in Seq(S) /\ Len(Tail(p)) = Len(p) - 1
      /\ \A i \in 1 .. Len(Tail(p)) : Tail(p)[i] = p[i + 1]
  BY <1>1
<1>3. IsSeq(Tail(p))
  <2> DEFINE t == Tail(p)  T == {t[i] : i \in 1 .. Len(t)}
  <2>1. t \in [1 .. Len(t) -> S] /\ Len(t) \in Nat
    <3>1. t \in Seq(S)
      BY <1>2
    <3> HIDE DEF t
    <3> QED BY <3>1, LenProperties
  <2>2. t \in [1 .. Len(t) -> T]
    BY <2>1
  <2> HIDE DEF T, t
  <2>3. t \in Seq(T)
    BY <2>1, <2>2, SeqDef
  <2> QED BY <2>3 DEF IsSeq, T, t
<1>4. Tail(p) = << >> <=> Len(p) = 1
  BY <1>2
<1>5. \A i \in 1 .. Len(Tail(p)) : StatementFits(Tail(p)[i])
  BY <1>2 DEF PlanFits
<1>6. \A i, j \in 1 .. Len(Tail(p)) : i < j => Follows(Tail(p), i, j)
  <2> SUFFICES ASSUME NEW i \in 1 .. Len(Tail(p)), NEW j \in 1 .. Len(Tail(p)), i < j
               PROVE  Follows(Tail(p), i, j)
    OBVIOUS
  <2>1. Follows(p, i + 1, j + 1)
    BY <1>2 DEF PlanFits
  <2> QED BY <1>2, <2>1 DEF Follows
<1>7. Tail(p) # << >> => Tail(p)[Len(Tail(p))].do = "commit"
  BY <1>2 DEF PlanFits
<1>8. \A i \in 1 .. Len(Tail(p)) : Follows(p, 1, i + 1)
  BY <1>2 DEF PlanFits
<1>9. StatementFits(Head(p)) /\ (Head(p).do # "commit" => Tail(p) # << >>)
  BY <1>2, <1>4 DEF PlanFits
<1> QED BY <1>2, <1>3, <1>4, <1>5, <1>6, <1>7, <1>8, <1>9 DEF PlanFits

-----------------------------------------------------------------------------
(* Steps that write nothing                                                *)

LEMMA NothingWritten == DOMAIN Nothing = {}
BY DEF Nothing

LEMMA NoPlanFits == PlanFits(<< >>)
BY DEF PlanFits, IsSeq

\* What a request that has nothing written is, whatever it was.
LEMMA ResetKeeps ==
  ASSUME Consistent, NEW r \in Reqs, NEW q,
         IsReq(q), q.writes = Nothing, q.locks = {},
         q.answer = "pending" => q.by \in Users,
         \A x \in Inserting(q) :
           /\ db[x].st = "absent"
           /\ \A p \in Reqs \ {r} : x \notin DOMAIN req[p].writes \cup Inserting(req[p]),
         req' = [req EXCEPT ![r] = q], db' = db, committed' = committed, audited' = audited,
         DOMAIN met' = Reqs, \A p \in Reqs : met'[p] \subseteq Reqs \ {p}
  PROVE  Consistent'
<1>1. /\ DOMAIN req' = Reqs /\ req'[r] = q
      /\ \A p \in Reqs \ {r} : req'[p] = req[p]
  BY DEF Consistent, Typed
<1>2. Typed'
  <2>1. \A p \in Reqs : IsReq(req'[p])
    BY <1>1 DEF Consistent, Typed
  <2>2. \A p \in Reqs : Active(p)' => req'[p].by \in Users
    BY <1>1 DEF Consistent, Typed, Active
  <2> QED BY <1>1, <2>1, <2>2 DEF Consistent, Typed, RowFits
<1>3. \A p \in Reqs : FreshToAll(p)'
  <2>1. FreshToAll(r)'
    BY <1>1 DEF FreshToAll
  <2>2. ASSUME NEW p \in Reqs \ {r}
        PROVE  FreshToAll(p)'
    <3>1. FreshToAll(p)
      BY DEF Consistent
    <3> QED BY <1>1, <3>1, NothingWritten DEF FreshToAll
  <2> QED BY <2>1, <2>2
<1>4. \A p \in Reqs : WritesFit(p)'
  BY <1>1, NothingWritten DEF Consistent, WritesFit, RowWritten, RefsLocked
<1>5. Apart'
  <2> SUFFICES ASSUME NEW p1 \in Reqs, NEW p2 \in Reqs, p1 # p2
               PROVE  LocksApart(p1, p2)' /\ WritesApart(p1, p2)' /\ KeysApart(p1, p2)'
    BY DEF Apart
  <2>1. LocksApart(p1, p2) /\ WritesApart(p1, p2) /\ KeysApart(p1, p2)
    BY DEF Consistent, Apart
  <2>2. CASE p1 # r /\ p2 # r
    BY <1>1, <2>1, <2>2 DEF LocksApart, WritesApart, KeysApart
  <2>3. CASE p1 = r \/ p2 = r
    BY <1>1, <2>3, NothingWritten DEF LocksApart, WritesApart, KeysApart
  <2> QED BY <2>2, <2>3
<1>6. KeysUnique' /\ ReferencesHold'
  BY DEF Consistent, KeysUnique, ReferencesHold
<1>7. UniqueSeen(r)' /\ ReferencesSeen(r)'
  <2>1. \A x : Seen(r, x)' = db[x]
    BY <1>1, NothingWritten DEF Seen
  <2>2. UniqueSeen(r)'
    BY <2>1 DEF Consistent, UniqueSeen, KeysUnique
  <2>3. ReferencesSeen(r)'
    BY <2>1 DEF Consistent, ReferencesSeen, ReferencesHold
  <2> QED BY <2>2, <2>3
<1>8. ASSUME NEW p \in Reqs \ {r}
      PROVE  UniqueSeen(p)' /\ ReferencesSeen(p)'
  <2>1. \A x : Seen(p, x)' = Seen(p, x)
    BY <1>1 DEF Seen
  <2>2. UniqueSeen(p) /\ ReferencesSeen(p)
    BY DEF Consistent
  <2> QED BY <1>1, <2>1, <2>2 DEF UniqueSeen, ReferencesSeen, At, Active, Now
<1> QED BY <1>2, <1>3, <1>4, <1>5, <1>6, <1>7, <1>8 DEF Consistent

LEMMA AnsweredFits ==
  ASSUME Typed, NEW r \in Reqs, NEW a, a # "pending"
  PROVE  LET q == Answered(r, a) IN
         /\ IsReq(q) /\ q.writes = Nothing /\ q.locks = {}
         /\ q.answer = a /\ q.todo = << >> /\ Inserting(q) = {}
<1> DEFINE q == Answered(r, a)
<1>1. DOMAIN req[r] = DOMAIN NewReq /\ req[r].wrote \subseteq Rows
  BY DEF Typed, IsReq
<1>2. /\ DOMAIN q = DOMAIN NewReq
      /\ q.writes = Nothing /\ q.locks = {} /\ q.answer = a /\ q.todo = << >>
      /\ q.read = Nothing /\ q.wrote \subseteq Rows
  <2>1. CASE r \in committed
    BY <1>1, <2>1 DEF Answered, NewReq
  <2>2. CASE r \notin committed
    BY <2>2 DEF Answered, NewReq
  <2> QED BY <2>1, <2>2
<1> HIDE DEF q
<1>3. Inserting(q) = {} /\ Unwritten(q)
  BY <1>2 DEF Inserting, Unwritten
<1>4. IsReq(q)
  BY <1>2, <1>3, NoPlanFits, NothingWritten DEF IsReq
<1> QED BY <1>2, <1>3, <1>4 DEF q

\* Ending a request, for whatever reason, before its commit.
LEMMA AnsweredKeeps ==
  ASSUME Consistent, NEW r \in Reqs, NEW a, a # "pending", Proceed(r, Answered(r, a))
  PROVE  Consistent'
<1>1. Typed
  BY DEF Consistent
<1> QED BY <1>1, AnsweredFits, ResetKeeps DEF Proceed, Typed

LEMMA VerdictEnds ==
  ASSUME NEW r, NEW s, StatementFits(s), s.do \in Checks
  PROVE  Verdict(r, s) # "pending"
<1>1. \A u, a : OwnerOf(u, a) \in {"ok", "404", "403"}
  BY DEF OwnerOf
<1>2. \A u, t, a : ShareFound(u, t, a) \in {"ok", "404", "422"}
  BY DEF ShareFound
<1>3. \A x, key : Rekey(r, x, key) \in {"ok", "409", "500"}
  BY DEF Rekey
<1>4. s.do \in {"find", "refuse"} => s.arg # "pending"
  BY DEF StatementFits
<1>5. CASE s.do \in {"find", "free", "rekey", "refuse", "free name", "mine", "my account"}
  BY <1>3, <1>4, <1>5 DEF Verdict
<1>6. CASE s.do \in {"rename", "owner", "other", "share", "my card", "orphans"}
  BY <1>1, <1>2, <1>6 DEF Verdict
<1> QED BY <1>5, <1>6 DEF Checks, Loading

\* What a request that goes on to its next statement is still to write.
LEMMA RestUnwritten ==
  ASSUME NEW p, NEW q, PlanFits(p.todo), p.todo # << >>, q.todo = Tail(p.todo)
  PROVE  /\ Inserting(q) \subseteq Inserting(p)
         /\ q.writes = p.writes /\ Unwritten(p) => Unwritten(q)
<1>1. /\ Len(p.todo) \in Nat \ {0} /\ Len(q.todo) = Len(p.todo) - 1
      /\ \A i \in 1 .. Len(q.todo) : q.todo[i] = p.todo[i + 1]
  BY RestFits
<1>2. \A i \in 1 .. Len(q.todo) : i + 1 \in 1 .. Len(p.todo)
  BY <1>1
<1>3. Inserting(q) \subseteq Inserting(p)
  BY <1>1, <1>2 DEF Inserting
<1>4. q.writes = p.writes /\ Unwritten(p) => Unwritten(q)
  BY <1>1, <1>2 DEF Unwritten
<1> QED BY <1>3, <1>4

\* A check that is passed.
LEMMA PassedKeeps ==
  ASSUME Consistent, NEW r \in Reqs, Active(r), Now(r).do \in Checks, NEW q,
         IsReq(q), q.todo = Tail(req[r].todo), q.writes = req[r].writes,
         q.locks = req[r].locks, q.by = req[r].by, q.answer = "pending",
         Proceed(r, q)
  PROVE  Consistent'
<1>1. /\ DOMAIN req' = Reqs /\ req'[r] = q /\ db' = db
      /\ \A p \in Reqs \ {r} : req'[p] = req[p]
      /\ committed' = committed /\ audited' = audited /\ met' = met
  BY DEF Consistent, Typed, Proceed
<1>2. IsReq(req[r]) /\ req[r].todo # << >>
  BY DEF Consistent, Typed, IsReq, Active
<1>3. Inserting(q) \subseteq Inserting(req[r])
  BY <1>2, RestUnwritten DEF IsReq
<1>4. \A p \in Reqs : /\ req'[p].writes = req[p].writes /\ req'[p].locks = req[p].locks
                      /\ Inserting(req'[p]) \subseteq Inserting(req[p])
  BY <1>1, <1>3
<1>5. Typed'
  <2>1. \A p \in Reqs : IsReq(req'[p])
    BY <1>1 DEF Consistent, Typed
  <2>2. \A p \in Reqs : Active(p)' => req'[p].by \in Users
    BY <1>1 DEF Consistent, Typed, Active
  <2> QED BY <1>1, <2>1, <2>2 DEF Consistent, Typed, RowFits
<1>6. \A p \in Reqs : FreshToAll(p)'
  BY <1>1, <1>4 DEF Consistent, FreshToAll
<1>7. \A p \in Reqs : WritesFit(p)'
  BY <1>1, <1>4 DEF Consistent, WritesFit, RowWritten, RefsLocked
<1>8. Apart'
  BY <1>1, <1>4 DEF Consistent, Apart, LocksApart, WritesApart, KeysApart
<1>9. KeysUnique' /\ ReferencesHold'
  BY <1>1 DEF Consistent, KeysUnique, ReferencesHold
<1>10. ASSUME NEW p \in Reqs
       PROVE  UniqueSeen(p)' /\ ReferencesSeen(p)'
  <2>1. \A x : Seen(p, x)' = Seen(p, x)
    BY <1>1, <1>4 DEF Seen
  <2>2. UniqueSeen(p)'
    BY <2>1 DEF Consistent, UniqueSeen
  <2>3. At(p, {"cascade"}) => At(p, {"cascade"})' /\ Now(p)' = Now(p)
    BY <1>1 DEF At, Active, Now, Checks, Loading
  <2>4. ReferencesSeen(p)'
    BY <2>1, <2>3 DEF Consistent, ReferencesSeen
  <2> QED BY <2>2, <2>4
<1> QED BY <1>5, <1>6, <1>7, <1>8, <1>9, <1>10 DEF Consistent

LEMMA ReadKeeps ==
  ASSUME Consistent, NEW r \in Reqs, Read(r)
  PROVE  Consistent'
<1> DEFINE s == Now(r)
           q == [req[r] EXCEPT !.todo = Tail(@),
                   !.read = IF s.do \in Loading THEN Over(@, Only(s.x, db[s.x])) ELSE @]
<1>1. Active(r) /\ s.do \in Checks /\ IsReq(req[r]) /\ req[r].todo # << >>
  BY DEF Consistent, Typed, IsReq, Active, Read, At
<1>2. StatementFits(s) /\ PlanFits(Tail(req[r].todo)) /\ Tail(req[r].todo) # << >>
  BY <1>1, RestFits DEF IsReq, Now, Checks, Loading
<1>3. CASE Verdict(r, s) # "ok"
  BY <1>1, <1>2, <1>3, VerdictEnds, AnsweredKeeps DEF Read
<1>4. CASE Verdict(r, s) = "ok"
  <2>1. /\ DOMAIN q = DOMAIN NewReq
        /\ q.todo = Tail(req[r].todo) /\ q.writes = req[r].writes /\ q.locks = req[r].locks
        /\ q.by = req[r].by /\ q.answer = "pending" /\ q.wrote = req[r].wrote
        /\ q.read = IF s.do \in Loading THEN Over(req[r].read, Only(s.x, db[s.x])) ELSE req[r].read
    BY <1>1 DEF IsReq, NewReq, Active
  <2> HIDE DEF q
  <2>2. DOMAIN q.read \subseteq Rows
    BY <1>1, <1>2, <2>1 DEF IsReq, StatementFits, Over, Only
  <2>3. Unwritten(q)
    BY <1>1, <2>1, RestUnwritten DEF IsReq
  <2>4. IsReq(q)
    BY <1>1, <1>2, <2>1, <2>2, <2>3 DEF IsReq
  <2>5. Proceed(r, q)
    BY <1>4 DEF Read, q
  <2> QED BY <1>1, <2>1, <2>4, <2>5, PassedKeeps
<1> QED BY <1>3, <1>4

-----------------------------------------------------------------------------
(* Writes                                                                  *)

LEMMA OverIs ==
  ASSUME NEW f, NEW g
  PROVE  /\ DOMAIN Over(f, g) = DOMAIN f \cup DOMAIN g
         /\ \A x \in DOMAIN f : Over(f, g)[x] = f[x]
         /\ \A x \in DOMAIN g \ DOMAIN f : Over(f, g)[x] = g[x]
BY DEF Over

LEMMA OnlyIs == ASSUME NEW x, NEW v PROVE DOMAIN Only(x, v) = {x} /\ Only(x, v)[x] = v
BY DEF Only

\* An update leaves a row of the table, and takes none out of it.
LEMMA UpdatedFits ==
  ASSUME NEW r, NEW s, s.x \in Rows, StatementFits(s), s.do = "update",
         IsRow(db[s.x]), RowFits(s.x, db[s.x])
  PROVE  IsRow(Updated(r, s)) /\ RowFits(s.x, Updated(r, s))
<1> DEFINE c == Changes(r, s)  u == Updated(r, s)  old == db[s.x]
<1>1. DOMAIN c \subseteq DOMAIN s.arg /\ \A k \in DOMAIN c : c[k] = s.arg[k]
  BY DEF Changes
<1>2. Fits(s.x, s.arg) /\ ("st" \in DOMAIN s.arg => s.arg.st \in {"live", "deleted"})
  BY DEF StatementFits
<1>3. Columns(s.x) \subseteq DOMAIN old /\ Fits(s.x, old)
  BY StatesApart DEF RowFits
<1>4. "st" \in DOMAIN old /\ old.st \in {"live", "deleted"}
  BY <1>3 DEF Columns, IsRow
<1>5. /\ DOMAIN u = DOMAIN c \cup DOMAIN old
      /\ \A k \in DOMAIN u : u[k] = IF k \in DOMAIN c THEN c[k] ELSE old[k]
  BY DEF Updated, Over
<1>6. "st" \in DOMAIN c => c["st"] \in {"live", "deleted"}
  BY <1>1, <1>2
<1> HIDE DEF c, u, old
<1>7. u["st"] \in {"live", "deleted"}
  BY <1>4, <1>5, <1>6
<1>8. Fits(s.x, u)
  BY <1>1, <1>2, <1>3, <1>5 DEF Fits
<1>9. Columns(s.x) \subseteq DOMAIN u
  BY <1>3, <1>5
<1> QED BY <1>7, <1>8, <1>9 DEF RowFits, IsRow, u

\* What a DELETE cascades to, and what is left of it.
LEMMA DependentsFit ==
  ASSUME Typed, NEW x \in Users \cup Types \cup Institutions, NEW y \in Dependents(x)
  PROVE  /\ y \in Rows \ (Users \cup Types \cup Institutions) /\ IsRow(db[y])
         /\ RowFits(y, LeftBy(y)) /\ Keys(y, LeftBy(y)) = {}
         /\ x \in Users => y \in Accounts \cup Shares /\ LeftBy(y) = Gone
         /\ x \notin Users =>
              /\ x \in Institutions /\ y \in Cards
              /\ IsRow(LeftBy(y)) /\ Refs(y, LeftBy(y)) = {db[y].account}
<1>1. y \in Rows /\ RowFits(y, db[y]) /\ IsRow(db[y])
  BY KindsApart DEF Dependents, Typed, Rows
<1>2. CASE x \in Users
  <2>1. y \in Accounts \cup Shares
    BY <1>2, KindsApart DEF Dependents
  <2>2. LeftBy(y) = Gone
    BY <2>1, KindsApart DEF LeftBy
  <2> QED BY <1>1, <1>2, <2>1, <2>2, KindsApart, StatesApart, NoRowNothing DEF RowFits
<1>3. CASE x \in Institutions
  <2> DEFINE old == db[y]  new == LeftBy(y)
  <2>1. y \in Cards
    BY <1>3, KindsApart DEF Dependents
  <2>2. /\ Columns(y) \subseteq DOMAIN old /\ Fits(y, old) /\ IsRow(old)
    BY <1>1, StatesApart DEF RowFits
  <2>3. Columns(y) = {"st", "account", "inst", "title", "label"}
    BY <2>1, KindsApart DEF Columns
  <2>4. /\ DOMAIN new = DOMAIN old /\ new.inst = None
        /\ \A c \in DOMAIN old \ {"inst"} : new[c] = old[c]
    BY <2>1, <2>2, <2>3 DEF LeftBy
  <2> HIDE DEF new, old
  <2>5. new.st = old.st /\ new.account = old.account
    BY <2>2, <2>3, <2>4
  <2>6. IsRow(new) /\ Fits(y, new) /\ Columns(y) \subseteq DOMAIN new
    BY <2>1, <2>2, <2>4, <2>5 DEF IsRow, Fits
  <2>7. Keys(y, new) = {}
    BY <2>1, KindsApart DEF Keys
  <2>8. RowFits(y, new)
    BY <2>6 DEF RowFits
  <2>9. Refs(y, new) = {new.account, new.inst} \ {None} /\ new.account \in Accounts
    BY <1>1, <2>1, <2>6, <2>8, ReferencesOf
  <2>10. Refs(y, new) = {old.account}
    BY <2>4, <2>5, <2>9, KindsApart DEF Rows
  <2> QED BY <1>1, <1>3, <2>1, <2>6, <2>7, <2>8, <2>10, KindsApart DEF new, old
<1>4. CASE x \in Types
  BY <1>4, KindsApart DEF Dependents
<1> QED BY <1>2, <1>3, <1>4

LEMMA EffectIs ==
  ASSUME NEW r, NEW s
  PROVE  /\ s.do = "insert" => DOMAIN Effect(r, s) = {s.x} /\ Effect(r, s)[s.x] = s.arg
         /\ s.do = "update" => DOMAIN Effect(r, s) \subseteq {s.x}
         /\ s.do = "update" /\ DOMAIN Effect(r, s) # {} =>
              IsRow(db[s.x]) /\ Effect(r, s)[s.x] = Updated(r, s)
         /\ s.do = "erase" => DOMAIN Effect(r, s) \subseteq {s.x}
         /\ s.do = "erase" /\ DOMAIN Effect(r, s) # {} => Effect(r, s)[s.x] = Gone
         /\ s.do = "cascade" =>
              /\ DOMAIN Effect(r, s) = Dependents(s.x)
              /\ \A y \in Dependents(s.x) : Effect(r, s)[y] = LeftBy(y)
         /\ s.do = "audit" => DOMAIN Effect(r, s) = {}
<1>1. s.do = "insert" => DOMAIN Effect(r, s) = {s.x} /\ Effect(r, s)[s.x] = s.arg
  BY OnlyIs DEF Effect
<1>2. s.do = "update" => DOMAIN Effect(r, s) \subseteq {s.x}
  BY OnlyIs, NothingWritten DEF Effect
<1>3. s.do = "update" /\ DOMAIN Effect(r, s) # {} =>
        IsRow(db[s.x]) /\ Effect(r, s)[s.x] = Updated(r, s)
  BY OnlyIs, NothingWritten DEF Effect
<1>4. s.do = "erase" => DOMAIN Effect(r, s) \subseteq {s.x}
  BY OnlyIs, NothingWritten DEF Effect
<1>5. s.do = "erase" /\ DOMAIN Effect(r, s) # {} => Effect(r, s)[s.x] = Gone
  BY OnlyIs, NothingWritten DEF Effect
<1>6. s.do = "cascade" =>
        /\ DOMAIN Effect(r, s) = Dependents(s.x)
        /\ \A y \in Dependents(s.x) : Effect(r, s)[y] = LeftBy(y)
  BY DEF Effect
<1>7. s.do = "audit" => DOMAIN Effect(r, s) = {}
  BY NothingWritten DEF Effect
<1> QED BY <1>1, <1>2, <1>3, <1>4, <1>5, <1>6, <1>7

\* The rows that a statement writes: new to the request, and inserted, or in the
\* table and to be locked.
RowsOf(r, s) ==
  \A x \in DOMAIN Effect(r, s) :
    LET new == Effect(r, s)[x] IN
    /\ x \in Rows \ DOMAIN req[r].writes
    /\ RowFits(x, new)
    /\ \/ s.do = "insert" /\ x = s.x /\ db[x].st = "absent" /\ IsRow(new)
       \/ /\ s.do # "insert" /\ IsRow(db[x])
          /\ RowMode(r, s) \in {"update", "nokey"}
          /\ ~ IsRow(new) => RowMode(r, s) = "update"

LEMMA EffectFits ==
  ASSUME Consistent, NEW r \in Reqs, At(r, Writes)
  PROVE  RowsOf(r, Now(r))
<1> DEFINE s == Now(r)  q == req[r]
<1>1. IsReq(q) /\ q.todo # << >> /\ Typed /\ FreshToAll(r)
  BY DEF Consistent, Typed, IsReq, Active, At
<1>2. s = q.todo[1] /\ Len(q.todo) \in Nat \ {0} /\ StatementFits(s)
  BY <1>1, RestFits DEF IsReq, Now
<1>3. /\ s.do \in {"update", "erase"} => DOMAIN q.writes = {}
      /\ s.do = "cascade" => DOMAIN q.writes \subseteq {s.x}
      /\ s.do = "insert" => s.x \notin DOMAIN q.writes /\ s.x \in Inserting(q)
  BY <1>1, <1>2 DEF IsReq, Unwritten, Inserting
<1>4. s.do \in Writes
  BY DEF At
<1> SUFFICES RowsOf(r, s)
  OBVIOUS
<1> HIDE DEF s, q
<1>5. CASE s.do = "insert"
  <2>1. DOMAIN Effect(r, s) = {s.x} /\ Effect(r, s)[s.x] = s.arg
    BY OnlyIs, <1>5 DEF Effect
  <2>2. s.x \in Rows /\ db[s.x].st = "absent" /\ IsRow(s.arg) /\ RowFits(s.x, s.arg)
    BY <1>1, <1>2, <1>3, <1>5 DEF StatementFits, FreshToAll, q
  <2> QED BY <1>3, <1>5, <2>1, <2>2 DEF RowsOf, q
<1>6. CASE s.do = "update"
  <2>1. CASE IsRow(db[s.x]) /\ DOMAIN Changes(r, s) # {}
    <3>1. DOMAIN Effect(r, s) = {s.x} /\ Effect(r, s)[s.x] = Updated(r, s)
      BY OnlyIs, <1>6, <2>1 DEF Effect
    <3>2. s.x \in Rows /\ RowFits(s.x, db[s.x])
      BY <1>1, <1>2, <1>6 DEF StatementFits, Typed
    <3>3. IsRow(Updated(r, s)) /\ RowFits(s.x, Updated(r, s))
      BY <1>2, <1>6, <2>1, <3>2, UpdatedFits
    <3>4. RowMode(r, s) \in {"update", "nokey"}
      BY <1>6 DEF RowMode
    <3> QED BY <1>3, <1>6, <2>1, <3>1, <3>2, <3>3, <3>4 DEF RowsOf, q
  <2>2. CASE ~ (IsRow(db[s.x]) /\ DOMAIN Changes(r, s) # {})
    <3>1. Effect(r, s) = Nothing
      BY <1>6, <2>2 DEF Effect
    <3> QED BY <3>1, NothingWritten DEF RowsOf
  <2> QED BY <2>1, <2>2
<1>7. CASE s.do = "erase"
  <2>1. CASE IsRow(db[s.x])
    <3>1. DOMAIN Effect(r, s) = {s.x} /\ Effect(r, s)[s.x] = Gone
      BY OnlyIs, <1>7, <2>1 DEF Effect
    <3>2. s.x \in Rows /\ RowFits(s.x, Gone) /\ RowMode(r, s) = "update"
      BY <1>2, <1>7 DEF StatementFits, RowFits, RowMode
    <3> QED BY <1>3, <1>7, <2>1, <3>1, <3>2 DEF RowsOf, q
  <2>2. CASE ~ IsRow(db[s.x])
    <3>1. Effect(r, s) = Nothing
      BY <1>7, <2>2 DEF Effect
    <3> QED BY <3>1, NothingWritten DEF RowsOf
  <2> QED BY <2>1, <2>2
<1>8. CASE s.do = "cascade"
  <2>1. Effect(r, s) = [y \in Dependents(s.x) |-> LeftBy(y)]
    BY <1>8 DEF Effect
  <2>2. s.x \in Users \cup Types \cup Institutions
    BY <1>2, <1>8 DEF StatementFits
  <2>3. RowMode(r, s) = IF s.x \in Institutions THEN "nokey" ELSE "update"
    BY <1>8 DEF RowMode
  <2>4. ASSUME NEW y \in Dependents(s.x)
        PROVE  /\ y \in Rows \ DOMAIN q.writes /\ IsRow(db[y]) /\ RowFits(y, LeftBy(y))
               /\ ~ IsRow(LeftBy(y)) => RowMode(r, s) = "update"
    BY <1>1, <1>3, <1>8, <2>2, <2>3, DependentsFit, KindsApart
  <2> QED BY <1>8, <2>1, <2>3, <2>4 DEF RowsOf, q
<1>9. CASE s.do = "audit"
  <2>1. Effect(r, s) = Nothing
    BY <1>9 DEF Effect
  <2> QED BY <2>1, NothingWritten DEF RowsOf
<1> QED BY <1>4, <1>5, <1>6, <1>7, <1>8, <1>9 DEF Writes

\* The locks that go with it.
LEMMA WantedFits ==
  ASSUME Consistent, NEW r \in Reqs, At(r, Writes), RowsOf(r, Now(r))
  PROVE  LET s == Now(r)  E == Effect(r, s) IN
         /\ Wanted(r, s) \subseteq Rows \X Modes
         /\ \A x \in DOMAIN E :
              /\ s.do # "insert" => <<x, RowMode(r, s)>> \in Wanted(r, s)
              /\ \A y \in Refs(x, E[x]) \ Refs(x, db[x]) : <<y, "keyshare">> \in Wanted(r, s)
              /\ \A y \in Refs(x, E[x]) \ Refs(x, db[x]) : y \in NewRefs(r, s)
              /\ Keys(x, E[x]) \ Keys(x, db[x]) \subseteq NewKeys(r, s)
<1> DEFINE s == Now(r)  E == Effect(r, s)
<1>1. CASE s.do = "audit"
  <2>1. E = Nothing /\ NewRefs(r, s) = {req[r].by} /\ req[r].by \in Users
    BY <1>1 DEF Effect, NewRefs, Consistent, Typed, At
  <2> QED BY <1>1, <2>1, NothingWritten DEF Wanted, Modes, Rows
<1>2. CASE s.do # "audit"
  <2>1. NewRefs(r, s) = UNION {Refs(y, E[y]) \ Refs(y, db[y]) : y \in DOMAIN E}
    BY <1>2 DEF NewRefs
  <2>2. NewKeys(r, s) = UNION {Keys(y, E[y]) \ Keys(y, db[y]) : y \in DOMAIN E}
    BY DEF NewKeys
  <2>3. \A x \in DOMAIN E : x \in Rows /\ RowFits(x, E[x])
    BY DEF RowsOf
  <2>4. \A x \in DOMAIN E : s.do # "insert" => RowMode(r, s) \in Modes
    BY DEF RowsOf, Modes
  <2> HIDE DEF E, s
  <2>5. NewRefs(r, s) \subseteq Rows
    BY <2>1, <2>3, ReferencesAreRows
  <2>6. Wanted(r, s) = {<<z, "keyshare">> : z \in NewRefs(r, s)}
           \cup (IF s.do = "insert" THEN {} ELSE {<<y, RowMode(r, s)>> : y \in DOMAIN E})
    BY DEF Wanted, E
  <2>7. Wanted(r, s) \subseteq Rows \X Modes
    BY <2>3, <2>4, <2>5, <2>6 DEF Modes
  <2>8. \A x \in DOMAIN E : s.do # "insert" => <<x, RowMode(r, s)>> \in Wanted(r, s)
    BY <2>6
  <2>9. \A x \in DOMAIN E : \A y \in Refs(x, E[x]) \ Refs(x, db[x]) :
           y \in NewRefs(r, s) /\ <<y, "keyshare">> \in Wanted(r, s)
    BY <2>1, <2>6
  <2>10. \A x \in DOMAIN E : Keys(x, E[x]) \ Keys(x, db[x]) \subseteq NewKeys(r, s)
    BY <2>2
  <2> QED BY <2>7, <2>8, <2>9, <2>10 DEF E, s
<1> QED BY <1>1, <1>2

\* The request after a write that violates no constraint.
Wrote(r) ==
  LET s == Now(r) IN
  [req[r] EXCEPT !.todo = Tail(@),
                 !.writes = Over(Effect(r, s), @),
                 !.locks = @ \cup Wanted(r, s),
                 !.noted = @ \/ s.do = "audit"]

LEMMA WroteIs ==
  ASSUME Consistent, NEW r \in Reqs, At(r, Writes)
  PROVE  LET s == Now(r)  E == Effect(r, s)  q == Wrote(r) IN
         /\ DOMAIN q = DOMAIN NewReq
         /\ q.todo = Tail(req[r].todo) /\ q.todo # << >> /\ PlanFits(q.todo)
         /\ DOMAIN q.writes = DOMAIN E \cup DOMAIN req[r].writes
         /\ \A x \in DOMAIN E : q.writes[x] = E[x]
         /\ \A x \in DOMAIN req[r].writes : q.writes[x] = req[r].writes[x]
         /\ q.locks = req[r].locks \cup Wanted(r, s)
         /\ q.by = req[r].by /\ q.answer = "pending"
         /\ q.read = req[r].read /\ q.wrote = req[r].wrote
         /\ Inserting(q) \subseteq Inserting(req[r])
<1> DEFINE s == Now(r)  E == Effect(r, s)  q == Wrote(r)
<1>1. IsReq(req[r]) /\ req[r].todo # << >> /\ req[r].answer = "pending"
  BY DEF Consistent, Typed, IsReq, Active, At
<1>2. PlanFits(Tail(req[r].todo)) /\ Tail(req[r].todo) # << >>
  BY <1>1, RestFits DEF IsReq, At, Now, Writes
<1>3. RowsOf(r, s)
  BY EffectFits
<1>4. /\ DOMAIN q = DOMAIN NewReq
      /\ q.todo = Tail(req[r].todo) /\ q.writes = Over(E, req[r].writes)
      /\ q.locks = req[r].locks \cup Wanted(r, s)
      /\ q.by = req[r].by /\ q.answer = "pending"
      /\ q.read = req[r].read /\ q.wrote = req[r].wrote
  BY <1>1 DEF IsReq, NewReq, Wrote
<1>5. DOMAIN E \cap DOMAIN req[r].writes = {}
  BY <1>3 DEF RowsOf
<1> HIDE DEF q, E, s
<1>6. /\ DOMAIN q.writes = DOMAIN E \cup DOMAIN req[r].writes
      /\ \A x \in DOMAIN E : q.writes[x] = E[x]
      /\ \A x \in DOMAIN req[r].writes : q.writes[x] = req[r].writes[x]
  BY <1>4, <1>5 DEF Over
<1>7. Inserting(q) \subseteq Inserting(req[r])
  BY <1>1, <1>4, RestUnwritten DEF IsReq
<1> QED BY <1>2, <1>4, <1>6, <1>7 DEF q, E, s

LEMMA WroteUnwritten ==
  ASSUME Consistent, NEW r \in Reqs, At(r, Writes)
  PROVE  Unwritten(Wrote(r))
<1> DEFINE s == Now(r)  E == Effect(r, s)  q == Wrote(r)  p == req[r].todo
<1>1. IsReq(req[r]) /\ p # << >>
  BY DEF Consistent, Typed, IsReq, Active, At
<1>2. /\ Len(p) \in Nat \ {0} /\ s = p[1]
      /\ Len(Tail(p)) = Len(p) - 1
      /\ \A i \in 1 .. Len(Tail(p)) : Tail(p)[i] = p[i + 1] /\ Follows(p, 1, i + 1)
  BY <1>1, RestFits DEF IsReq, Now
<1>3. q.todo = Tail(p) /\ DOMAIN q.writes = DOMAIN E \cup DOMAIN req[r].writes
  BY WroteIs
<1>4. s.do \in {"insert", "erase"} => DOMAIN E \subseteq {s.x}
  BY OnlyIs, NothingWritten DEF Effect
<1>5. s.do \in Writes
  BY DEF At
<1>6. Unwritten(req[r])
  BY <1>1 DEF IsReq
<1> HIDE DEF s, E, q
<1> SUFFICES ASSUME NEW i \in 1 .. Len(q.todo)
             PROVE  LET t == q.todo[i] IN
                    /\ t.do \in {"update", "erase"} => DOMAIN q.writes = {}
                    /\ t.do = "cascade" => DOMAIN q.writes \subseteq {t.x}
                    /\ t.do = "insert" => t.x \notin DOMAIN q.writes
  BY DEF Unwritten, q
<1>7. /\ q.todo[i] = p[i + 1] /\ i + 1 \in 1 .. Len(p) /\ 1 \in 1 .. Len(p)
      /\ Follows(p, 1, i + 1)
  BY <1>2, <1>3
<1>8. CASE s.do \in {"update", "cascade", "audit"}
  BY <1>2, <1>7, <1>8 DEF Follows, Ending
<1>9. CASE s.do = "insert"
  <2>1. p[i + 1].do \in Ending \/ (p[i + 1].do = "insert" /\ p[i + 1].x # s.x)
    BY <1>2, <1>7, <1>9 DEF Follows
  <2>2. p[i + 1].do = "insert" => p[i + 1].x \notin DOMAIN req[r].writes
    BY <1>6, <1>7 DEF Unwritten
  <2> QED BY <1>3, <1>4, <1>7, <1>9, <2>1, <2>2 DEF Ending
<1>10. CASE s.do = "erase"
  <2>1. p[i + 1].do \in Ending \/ (p[i + 1].do = "cascade" /\ p[i + 1].x = s.x)
    BY <1>2, <1>7, <1>10 DEF Follows
  <2>2. DOMAIN req[r].writes = {}
    BY <1>2, <1>6, <1>7, <1>10 DEF Unwritten
  <2> QED BY <1>3, <1>4, <1>7, <1>10, <2>1, <2>2 DEF Ending
<1> QED BY <1>5, <1>8, <1>9, <1>10 DEF Writes

LEMMA WroteTyped ==
  ASSUME Consistent, NEW r \in Reqs, At(r, Writes)
  PROVE  IsReq(Wrote(r))
<1> DEFINE s == Now(r)  q == Wrote(r)
<1>1. RowsOf(r, s)
  BY EffectFits
<1>2. Wanted(r, s) \subseteq Rows \X Modes
  BY <1>1, WantedFits
<1>3. IsReq(req[r])
  BY DEF Consistent, Typed
<1>4. DOMAIN q.writes \subseteq Rows
  BY <1>1, <1>3, WroteIs DEF RowsOf, IsReq
<1>5. Unwritten(q)
  BY WroteUnwritten
<1> HIDE DEF q
<1>6. /\ DOMAIN q = DOMAIN NewReq /\ q.todo # << >> /\ PlanFits(q.todo)
      /\ q.locks = req[r].locks \cup Wanted(r, s)
      /\ q.answer = "pending" /\ q.read = req[r].read /\ q.wrote = req[r].wrote
  BY WroteIs DEF q
<1> QED BY <1>2, <1>3, <1>4, <1>5, <1>6 DEF IsReq, q

LEMMA WriteKeepsApart ==
  ASSUME Consistent, NEW r \in Reqs, At(r, Writes), Granted(r), ~ Violates(r, Now(r)),
         Proceed(r, Wrote(r))
  PROVE  Apart'
<1> DEFINE s == Now(r)  E == Effect(r, s)  q == Wrote(r)
<1>1. /\ req'[r] = q /\ db' = db
      /\ \A p \in Reqs \ {r} : req'[p] = req[p]
  BY DEF Consistent, Typed, Proceed
<1>2. /\ DOMAIN q.writes = DOMAIN E \cup DOMAIN req[r].writes
      /\ \A x \in DOMAIN E : q.writes[x] = E[x]
      /\ \A x \in DOMAIN req[r].writes : q.writes[x] = req[r].writes[x]
      /\ q.locks = req[r].locks \cup Wanted(r, s)
  BY WroteIs
<1>3. RowsOf(r, s)
  BY EffectFits
<1>4. \A x \in DOMAIN E :
         /\ s.do # "insert" => <<x, RowMode(r, s)>> \in Wanted(r, s)
         /\ Keys(x, E[x]) \ Keys(x, db[x]) \subseteq NewKeys(r, s)
  BY <1>3, WantedFits
<1>5. \A p \in Reqs \ {r} :
         /\ \A w \in Wanted(r, s), l \in req[p].locks : w[1] = l[1] => {w[2], l[2]} \notin Conflict
         /\ ~ Clash(p, r)
  BY DEF Granted, Blocks
<1>6. \A p \in Reqs \ {r} : \A y \in DOMAIN req[p].writes :
         NewKeys(r, s) \cap (Keys(y, db[y]) \cup Keys(y, req[p].writes[y])) = {}
  BY <1>5 DEF Clash
<1>7. \A z \in Rows \ DOMAIN E : Keys(z, Seen(r, z)) \cap NewKeys(r, s) = {}
  BY DEF Violates
<1> HIDE DEF E, s, q
<1>8. ASSUME NEW p \in Reqs \ {r}
      PROVE  /\ LocksApart(p, r)' /\ LocksApart(r, p)'
             /\ WritesApart(p, r)' /\ WritesApart(r, p)'
             /\ KeysApart(p, r)' /\ KeysApart(r, p)'
  <2>1. /\ LocksApart(p, r) /\ LocksApart(r, p) /\ WritesApart(p, r)
        /\ KeysApart(p, r) /\ KeysApart(r, p)
    BY DEF Consistent, Apart
  <2>2. LocksApart(p, r)' /\ LocksApart(r, p)'
    <3> SUFFICES ASSUME NEW k \in req[p].locks, NEW l \in q.locks, k[1] = l[1]
                 PROVE  {k[2], l[2]} \notin Conflict /\ {l[2], k[2]} \notin Conflict
      BY <1>1 DEF LocksApart
    <3>1. {l[2], k[2]} = {k[2], l[2]}
      OBVIOUS
    <3>2. CASE l \in req[r].locks
      BY <2>1, <3>1, <3>2 DEF LocksApart
    <3>3. CASE l \in Wanted(r, s)
      BY <1>5, <3>1, <3>3
    <3> QED BY <1>2, <3>2, <3>3
  <2>3. \A x \in DOMAIN E : x \notin DOMAIN req[p].writes
    <3> SUFFICES ASSUME NEW x \in DOMAIN E, x \in DOMAIN req[p].writes
                 PROVE  FALSE
      OBVIOUS
    <3>1. RowWritten(req[p], x)
      BY DEF Consistent, WritesFit
    <3>2. CASE s.do = "insert"
      <4>1. x \in Inserting(req[r])
        <5>1. s = req[r].todo[1] /\ Len(req[r].todo) \in Nat \ {0}
          BY RestFits DEF Consistent, Typed, IsReq, s, Now, At, Active
        <5> QED BY <1>3, <3>2, <5>1 DEF RowsOf, E, Inserting
      <4> QED BY <4>1 DEF Consistent, FreshToAll
    <3>3. CASE s.do # "insert"
      <4>1. /\ IsRow(db[x]) /\ RowMode(r, s) \in {"update", "nokey"}
            /\ <<x, RowMode(r, s)>> \in Wanted(r, s)
        BY <1>3, <1>4, <3>3 DEF RowsOf, E
      <4>2. <<x, "update">> \in req[p].locks \/ <<x, "nokey">> \in req[p].locks
        BY <3>1, <4>1 DEF RowWritten, IsRow
      <4>3. \A m \in {"update", "nokey"} :
               <<x, m>> \in req[p].locks => {RowMode(r, s), m} \notin Conflict
        BY <1>5, <4>1
      <4>4. \A m, n \in {"update", "nokey"} : {m, n} \in Conflict
        BY DEF Conflict
      <4> QED BY <4>1, <4>2, <4>3, <4>4
    <3> QED BY <3>2, <3>3
  <2>4. WritesApart(p, r)' /\ WritesApart(r, p)'
    BY <1>1, <1>2, <2>1, <2>3 DEF WritesApart
  <2>5. KeysApart(p, r)'
    <3> SUFFICES ASSUME NEW x \in DOMAIN q.writes, NEW y \in DOMAIN req[p].writes
                 PROVE  (Keys(x, q.writes[x]) \ Keys(x, db[x])) \cap
                          (Keys(y, db[y]) \cup Keys(y, req[p].writes[y])) = {}
      BY <1>1 DEF KeysApart
    <3>1. CASE x \in DOMAIN E
      BY <1>2, <1>4, <1>6, <3>1
    <3>2. CASE x \in DOMAIN req[r].writes
      BY <1>2, <2>1, <3>2 DEF KeysApart
    <3> QED BY <1>2, <3>1, <3>2
  <2>6. KeysApart(r, p)'
    <3> SUFFICES ASSUME NEW x \in DOMAIN req[p].writes, NEW y \in DOMAIN q.writes
                 PROVE  (Keys(x, req[p].writes[x]) \ Keys(x, db[x])) \cap
                          (Keys(y, db[y]) \cup Keys(y, q.writes[y])) = {}
      BY <1>1 DEF KeysApart
    <3>1. CASE y \in DOMAIN E
      <4>1. x \in Rows /\ y \in Rows /\ x # y /\ y \notin DOMAIN req[p].writes
        BY <1>3, <2>3, <3>1 DEF Consistent, Typed, IsReq, RowsOf, E
      <4>2. Keys(x, req[p].writes[x]) \cap Keys(y, db[y]) = {}
        BY <4>1 DEF Consistent, UniqueSeen, Seen
      <4>3. Keys(y, E[y]) \ Keys(y, db[y]) \subseteq NewKeys(r, s)
        BY <1>4, <3>1
      <4> QED BY <1>2, <1>6, <3>1, <4>2, <4>3
    <3>2. CASE y \in DOMAIN req[r].writes
      BY <1>2, <2>1, <3>2 DEF KeysApart
    <3> QED BY <1>2, <3>1, <3>2
  <2> QED BY <2>2, <2>4, <2>5, <2>6
<1>9. ASSUME NEW p1 \in Reqs, NEW p2 \in Reqs, p1 # p2
      PROVE  LocksApart(p1, p2)' /\ WritesApart(p1, p2)' /\ KeysApart(p1, p2)'
  <2>1. CASE p1 = r \/ p2 = r
    BY <1>8, <1>9, <2>1
  <2>2. CASE p1 # r /\ p2 # r
    <3>1. LocksApart(p1, p2) /\ WritesApart(p1, p2) /\ KeysApart(p1, p2)
      BY <1>9 DEF Consistent, Apart
    <3> QED BY <1>1, <2>2, <3>1 DEF LocksApart, WritesApart, KeysApart
  <2> QED BY <2>1, <2>2
<1> QED BY <1>9 DEF Apart

\* Only a cascade writes several rows, and they have no keys then.
LEMMA SeveralKeyless ==
  ASSUME Consistent, NEW r \in Reqs, At(r, Writes),
         NEW x \in DOMAIN Effect(r, Now(r))
  PROVE  LET s == Now(r) IN
         /\ s.do # "cascade" => x = s.x
         /\ s.do = "cascade" => Keys(x, Effect(r, s)[x]) = {}
<1> DEFINE s == Now(r)
<1>1. s.do \in Writes /\ StatementFits(s)
  BY RestFits DEF At, Active, Now, Consistent, Typed, IsReq
<1> HIDE DEF s
<1>2. CASE s.do \in {"insert", "update", "erase", "audit"}
  <2>1. DOMAIN Effect(r, s) \subseteq {s.x}
    BY <1>1, <1>2, EffectIs
  <2> QED BY <1>2, <2>1 DEF s
<1>3. CASE s.do = "cascade"
  <2>2. x \in Dependents(s.x) /\ Effect(r, s)[x] = LeftBy(x)
    BY <1>1, <1>3, EffectIs DEF s
  <2>3. Keys(x, LeftBy(x)) = {}
    BY <1>1, <1>3, <2>2, DependentsFit DEF StatementFits, Consistent
  <2> QED BY <1>3, <2>2, <2>3 DEF s
<1> QED BY <1>1, <1>2, <1>3 DEF Writes, s

LEMMA WriteKeepsUnique ==
  ASSUME Consistent, NEW r \in Reqs, At(r, Writes), ~ Violates(r, Now(r)),
         Proceed(r, Wrote(r))
  PROVE  UniqueSeen(r)'
<1> DEFINE s == Now(r)  E == Effect(r, s)
<1>1. req'[r] = Wrote(r) /\ db' = db
  BY DEF Consistent, Typed, Proceed
<1>2. /\ \A x \in DOMAIN E : Seen(r, x)' = E[x] /\ Seen(r, x) = db[x]
      /\ \A x \in Rows \ DOMAIN E : Seen(r, x)' = Seen(r, x)
  BY <1>1, WroteIs, EffectFits DEF Seen, RowsOf
<1>3. \A x \in DOMAIN E : Keys(x, E[x]) \ Keys(x, db[x]) \subseteq NewKeys(r, s)
  BY EffectFits, WantedFits
<1>4. \A z \in Rows \ DOMAIN E : Keys(z, Seen(r, z)) \cap NewKeys(r, s) = {}
  BY DEF Violates
<1>5. \A x, y \in DOMAIN E : x # y => Keys(x, E[x]) = {}
  BY SeveralKeyless
<1>6. \A x, y \in Rows : x # y => Keys(x, Seen(r, x)) \cap Keys(y, Seen(r, y)) = {}
  BY DEF Consistent, UniqueSeen
<1> HIDE DEF E, s
<1>7. ASSUME NEW x \in DOMAIN E, NEW y \in Rows \ DOMAIN E, x \in Rows
      PROVE  Keys(x, E[x]) \cap Keys(y, Seen(r, y)) = {}
  <2>1. x # y /\ Seen(r, x) = db[x]
    BY <1>2
  <2>2. Keys(x, Seen(r, x)) \cap Keys(y, Seen(r, y)) = {}
    BY <1>6, <1>7, <2>1
  <2> QED BY <1>3, <1>4, <2>1, <2>2
<1> QED BY <1>2, <1>5, <1>6, <1>7 DEF UniqueSeen

\* A statement that writes one row: what it comes to refer to is there.
LEMMA WriteKeepsReferences ==
  ASSUME Consistent, NEW r \in Reqs, At(r, Writes), Now(r).do # "cascade",
         ~ Violates(r, Now(r)), Proceed(r, Wrote(r))
  PROVE  ReferencesSeen(r)'
<1> DEFINE s == Now(r)  E == Effect(r, s)  p == req[r].todo
<1>1. req'[r] = Wrote(r) /\ db' = db
  BY DEF Consistent, Typed, Proceed
<1>2. /\ \A x \in DOMAIN E : Seen(r, x)' = E[x] /\ Seen(r, x) = db[x]
      /\ \A x : x \notin DOMAIN E => Seen(r, x)' = Seen(r, x)
  BY <1>1, WroteIs, EffectFits DEF Seen, RowsOf
<1>3. \A x \in Rows : \A y \in Refs(x, Seen(r, x)) : IsRow(Seen(r, y))
  BY DEF Consistent, ReferencesSeen, At
<1>4. \A x \in DOMAIN E : x \in Rows /\ \A y \in Refs(x, E[x]) \ Refs(x, db[x]) : y \in NewRefs(r, s)
  BY EffectFits, WantedFits DEF RowsOf
<1>5. \A z \in NewRefs(r, s) : IsRow(Seen(r, z))
  BY DEF Violates
<1>6. \A x \in DOMAIN E : x = s.x /\ s.do \in {"insert", "update", "erase"}
  <2>1. s.do \in Writes \ {"cascade"}
    BY DEF At
  <2> QED BY <2>1, EffectIs DEF Writes
<1>7. \A x \in DOMAIN E : s.do # "erase" => IsRow(E[x])
  <2>1. s.do = "update" => RowMode(r, s) \in {"update", "nokey"}
    BY DEF RowMode
  <2>2. ASSUME NEW x \in DOMAIN E, s.do = "update"
        PROVE  IsRow(E[x])
    <3>1. x = s.x /\ IsRow(db[s.x]) /\ E[s.x] = Updated(r, s)
      BY <1>6, <2>2, EffectIs
    <3>2. StatementFits(s) /\ s.x \in Rows /\ RowFits(s.x, db[s.x])
      BY <1>4, <3>1, <2>2, RestFits DEF Consistent, Typed, IsReq, Now, At, Active
    <3> QED BY <2>2, <3>1, <3>2, UpdatedFits
  <2>3. ASSUME NEW x \in DOMAIN E, s.do = "insert"
        PROVE  IsRow(E[x])
    BY <2>3, EffectFits DEF RowsOf
  <2> QED BY <1>6, <2>2, <2>3
<1>8. s.do = "erase" => At(r, {"cascade"})' /\ Now(r)'.x = s.x
  <2> SUFFICES ASSUME s.do = "erase"
               PROVE  At(r, {"cascade"})' /\ Now(r)'.x = s.x
    OBVIOUS
  <2>1. PlanFits(p) /\ p # << >> /\ s = p[1]
    BY RestFits DEF Consistent, Typed, IsReq, At, Active, Now
  <2>2. Wrote(r).todo = Tail(p) /\ Wrote(r).answer = "pending" /\ Tail(p) # << >>
    BY WroteIs
  <2>3. Len(p) \in Nat /\ Len(p) > 1 /\ Len(Tail(p)) = Len(p) - 1 /\ Follows(p, 1, 2)
        /\ Tail(p)[1] = p[2] /\ Head(Tail(p)) = Tail(p)[1]
    <3>1. /\ Len(p) \in Nat \ {0} /\ Len(Tail(p)) = Len(p) - 1 /\ Len(p) # 1
          /\ \A i \in 1 .. Len(Tail(p)) : Tail(p)[i] = p[i + 1] /\ Follows(p, 1, i + 1)
      BY <2>1, <2>2, RestFits
    <3>2. PlanFits(Tail(p)) /\ Tail(p) # << >>
      BY <2>1, <2>2, RestFits
    <3>3. Head(Tail(p)) = Tail(p)[1]
      BY <3>2, RestFits
    <3> HIDE DEF p
    <3>4. 1 \in 1 .. Len(Tail(p)) /\ 1 + 1 = 2
      BY <3>1
    <3>5. Tail(p)[1] = p[1 + 1] /\ Follows(p, 1, 1 + 1)
      BY <3>1, <3>4
    <3> QED BY <3>1, <3>3, <3>4, <3>5
  <2>4. Head(Tail(p)).do = "cascade" /\ Head(Tail(p)).x = s.x
    BY <2>1, <2>3 DEF Follows
  <2> QED BY <1>1, <2>2, <2>4 DEF At, Active, Now
<1> HIDE DEF E, s, p
<1> SUFFICES ASSUME NEW x \in Rows, NEW y \in Refs(x, Seen(r, x))'
             PROVE  (IsRow(Seen(r, y)) \/ (At(r, {"cascade"}) /\ y = Now(r).x))'
  BY DEF ReferencesSeen
<1>9. IsRow(Seen(r, y))
  <2>1. CASE x \notin DOMAIN E
    BY <1>2, <1>3, <2>1
  <2>2. CASE x \in DOMAIN E
    BY <1>2, <1>3, <1>4, <1>5, <2>2
  <2> QED BY <2>1, <2>2
<1>10. CASE y \notin DOMAIN E
  BY <1>2, <1>9, <1>10 DEF IsRow
<1>11. CASE y \in DOMAIN E
  BY <1>2, <1>6, <1>7, <1>8, <1>11 DEF IsRow
<1> QED BY <1>10, <1>11

LEMMA DependentsOfUser ==
  ASSUME NEW x \in Users
  PROVE  LET owned == {a \in Accounts : IsRow(db[a]) /\ db[a].owner = x} IN
         Dependents(x) =
           owned \cup {s \in Shares : IsRow(db[s]) /\ (db[s].user = x \/ db[s].account \in owned)}
BY KindsApart DEF Dependents

\* A row of the table that refers to a row being removed is removed with it, or
\* restricts the removal; so does one that refers to a row that goes with it.
LEMMA DependentsOrRestricted ==
  ASSUME Typed, NEW x0 \in Users \cup Types \cup Institutions, ~ Restricted(x0),
         NEW x \in Rows, NEW y \in Refs(x, db[x]), x \notin Dependents(x0)
  PROVE  y # x0 /\ y \notin Dependents(x0)
<1>1. IsRow(db[x]) /\ RowFits(x, db[x])
  BY NoRowNothing DEF Typed
<1>2. x \in Accounts \cup Cards \cup Shares
  BY <1>1, ReferencesOf
<1>3. y \in Rows \ Cards /\ y \notin Shares
  BY <1>1, ReferencesAreRows
<1>4. CASE x \in Accounts
  <2>1. /\ db[x].owner \in Users /\ db[x].type \in Types /\ db[x].inst \in Institutions
        /\ y \in {db[x].owner, db[x].type, db[x].inst}
    BY <1>1, <1>4, ReferencesOf
  <2>2. x0 \notin {db[x].type, db[x].inst}
    BY <1>1, <1>4 DEF Restricted
  <2>3. x0 \in Users => db[x].owner # x0
    BY <1>1, <1>4, DependentsOfUser
  <2>4. y \notin Accounts \cup Cards \cup Shares
    BY <2>1, KindsApart
  <2>5. y \notin Dependents(x0)
    BY <2>4, DependentsFit, KindsApart
  <2> QED BY <2>1, <2>2, <2>3, <2>5, KindsApart
<1>5. CASE x \in Cards
  <2>1. db[x].account \in Accounts /\ y \in {db[x].account, db[x].inst} \ {None}
        /\ db[x].inst \in Institutions \cup {None}
    BY <1>1, <1>5, ReferencesOf
  <2>2. db[x].account \notin Dependents(x0)
    BY <1>1, <1>5 DEF Restricted
  <2>3. x0 \in Institutions => db[x].inst # x0
    BY <1>1, <1>5, KindsApart DEF Dependents
  <2>4. y \in Institutions => y \notin Dependents(x0)
    BY DependentsFit
  <2> QED BY <2>1, <2>2, <2>3, <2>4, KindsApart
<1>6. CASE x \in Shares
  <2>1. /\ db[x].account \in Accounts /\ db[x].user \in Users
        /\ y \in {db[x].account, db[x].user}
    BY <1>1, <1>6, ReferencesOf
  <2>2. x0 \in Users => db[x].user # x0
    BY <1>1, <1>6, DependentsOfUser
  <2>3. x0 \in Users => db[x].account \notin Dependents(x0)
    <3> SUFFICES ASSUME x0 \in Users, db[x].account \in Dependents(x0)
                 PROVE  FALSE
      OBVIOUS
    <3>1. db[x].account \in {a \in Accounts : IsRow(db[a]) /\ db[a].owner = x0}
      BY <2>1, DependentsOfUser, KindsApart
    <3> QED BY <1>1, <1>6, <3>1, DependentsOfUser
  <2>4. x0 \notin Users => db[x].account \notin Dependents(x0)
    BY <2>1, DependentsFit, KindsApart
  <2>5. y \in Users => y \notin Dependents(x0)
    BY DependentsFit
  <2> QED BY <2>1, <2>2, <2>3, <2>4, <2>5, KindsApart
<1> QED BY <1>2, <1>4, <1>5, <1>6

\* After the cascade nothing refers to what is removed.
LEMMA CascadeKeepsReferences ==
  ASSUME Consistent, NEW r \in Reqs, At(r, Writes), Now(r).do = "cascade",
         ~ Violates(r, Now(r)), Proceed(r, Wrote(r))
  PROVE  ReferencesSeen(r)'
<1> DEFINE s == Now(r)  x0 == s.x  D == Dependents(x0)
<1>1. req'[r] = Wrote(r) /\ db' = db
  BY DEF Consistent, Typed, Proceed
<1>2. /\ StatementFits(s) /\ x0 \in Users \cup Types \cup Institutions
      /\ DOMAIN req[r].writes \subseteq {x0}
  <2>1. IsReq(req[r]) /\ req[r].todo # << >>
    BY DEF Consistent, Typed, IsReq, At, Active
  <2>2. s = req[r].todo[1] /\ StatementFits(s) /\ 1 \in 1 .. Len(req[r].todo)
    BY <2>1, RestFits DEF IsReq, Now
  <2> QED BY <2>1, <2>2 DEF IsReq, Unwritten, StatementFits
<1>3. ~ Restricted(x0) /\ Typed
  BY DEF Violates, Consistent
<1>4. DOMAIN Effect(r, s) = D /\ \A y \in D : Effect(r, s)[y] = LeftBy(y)
  BY EffectIs
<1>5. /\ \A y \in D : Seen(r, y)' = LeftBy(y) /\ Seen(r, y) = db[y]
      /\ \A y : y \notin D => Seen(r, y)' = Seen(r, y)
  BY <1>1, <1>4, WroteIs, EffectFits DEF Seen, RowsOf
<1>6. \A y : y # x0 => Seen(r, y) = db[y]
  BY <1>2 DEF Seen
<1>7. \A x \in Rows : \A y \in Refs(x, Seen(r, x)) : IsRow(Seen(r, y)) \/ y = x0
  BY DEF Consistent, ReferencesSeen
<1> HIDE DEF s, x0, D
<1> SUFFICES ASSUME NEW x \in Rows, NEW y \in Refs(x, Seen(r, x))'
             PROVE  IsRow(Seen(r, y))'
  BY DEF ReferencesSeen
<1>8. CASE x \in D
  <2>1. /\ x0 \notin Users /\ x \in Cards /\ y = db[x].account
        /\ IsRow(db[x]) /\ RowFits(x, db[x])
    BY <1>2, <1>3, <1>5, <1>8, DependentsFit, NoRowNothing, StatesApart DEF D, Typed
  <2>2. y \in Accounts /\ y \in Refs(x, db[x])
    BY <2>1, ReferencesOf, KindsApart DEF Rows
  <2>3. y # x0 /\ y \notin D
    BY <1>2, <1>3, <2>1, <2>2, DependentsFit, KindsApart DEF D
  <2>4. IsRow(Seen(r, y))
    BY <1>5, <1>7, <1>8, <2>2, <2>3
  <2> QED BY <1>5, <2>3, <2>4 DEF IsRow
<1>9. CASE x \notin D /\ x # x0
  <2>1. y \in Refs(x, db[x]) /\ Seen(r, x) = db[x]
    BY <1>5, <1>6, <1>9
  <2>2. y # x0 /\ y \notin D
    BY <1>2, <1>3, <1>9, <2>1, DependentsOrRestricted DEF D
  <2> QED BY <1>5, <1>7, <2>1, <2>2 DEF IsRow
<1>10. CASE x = x0
  BY <1>2, <1>10, KindsApart DEF Refs
<1> QED BY <1>8, <1>9, <1>10

LEMMA WriteKeepsRows ==
  ASSUME Consistent, NEW r \in Reqs, At(r, Writes), Proceed(r, Wrote(r))
  PROVE  \A p \in Reqs : FreshToAll(p)' /\ WritesFit(p)'
<1> DEFINE s == Now(r)  E == Effect(r, s)  q == Wrote(r)
<1>1. /\ req'[r] = q /\ db' = db
      /\ \A p \in Reqs \ {r} : req'[p] = req[p]
  BY DEF Consistent, Typed, Proceed
<1>2. /\ DOMAIN q.writes = DOMAIN E \cup DOMAIN req[r].writes
      /\ \A x \in DOMAIN E : q.writes[x] = E[x]
      /\ \A x \in DOMAIN req[r].writes : q.writes[x] = req[r].writes[x]
      /\ q.locks = req[r].locks \cup Wanted(r, s)
      /\ Inserting(q) \subseteq Inserting(req[r])
  BY WroteIs
<1>3. \A x \in DOMAIN E :
        /\ RowFits(x, E[x])
        /\ \/ s.do = "insert" /\ x = s.x /\ db[x].st = "absent" /\ IsRow(E[x])
           \/ /\ s.do # "insert" /\ IsRow(db[x])
              /\ RowMode(r, s) \in {"update", "nokey"}
              /\ ~ IsRow(E[x]) => RowMode(r, s) = "update"
  BY EffectFits DEF RowsOf
<1>4. \A x \in DOMAIN E :
         /\ s.do # "insert" => <<x, RowMode(r, s)>> \in Wanted(r, s)
         /\ \A y \in Refs(x, E[x]) \ Refs(x, db[x]) : <<y, "keyshare">> \in Wanted(r, s)
  BY EffectFits, WantedFits
<1>5. s.do = "insert" => s.x \in Inserting(req[r])
  <2>1. s = req[r].todo[1] /\ Len(req[r].todo) \in Nat \ {0}
    BY RestFits DEF Consistent, Typed, IsReq, Now, At, Active
  <2> HIDE DEF s
  <2> QED BY <2>1 DEF Inserting
<1> HIDE DEF E, s, q
<1>6. FreshToAll(r)'
  BY <1>1, <1>2 DEF Consistent, FreshToAll
<1>7. ASSUME NEW p \in Reqs \ {r}
      PROVE  FreshToAll(p)'
  <2>1. FreshToAll(p)
    BY DEF Consistent
  <2>2. \A x \in DOMAIN E : x \notin Inserting(req[p])
    BY <1>3, <1>5, <2>1 DEF FreshToAll, IsRow
  <2> QED BY <1>1, <1>2, <2>1, <2>2 DEF FreshToAll
<1>8. ASSUME NEW p \in Reqs \ {r}
      PROVE  WritesFit(p)'
  <2>1. WritesFit(p)
    BY DEF Consistent
  <2> QED BY <1>1, <2>1 DEF WritesFit, RowWritten, RefsLocked
<1>9. WritesFit(r)'
  <2> SUFFICES ASSUME NEW x \in DOMAIN q.writes
               PROVE  /\ RowFits(x, q.writes[x])
                      /\ \/ db[x].st = "absent" /\ IsRow(q.writes[x])
                         \/ /\ IsRow(db[x])
                            /\ <<x, "update">> \in q.locks \/ <<x, "nokey">> \in q.locks
                            /\ ~ IsRow(q.writes[x]) => <<x, "update">> \in q.locks
                      /\ \A y \in Refs(x, q.writes[x]) \ Refs(x, db[x]) : <<y, "keyshare">> \in q.locks
    BY <1>1 DEF WritesFit, RowWritten, RefsLocked
  <2>1. CASE x \in DOMAIN E
    BY <1>2, <1>3, <1>4, <2>1
  <2>2. CASE x \in DOMAIN req[r].writes
    <3>1. RowWritten(req[r], x) /\ RefsLocked(req[r], x)
      BY <2>2 DEF Consistent, WritesFit
    <3> QED BY <1>2, <2>2, <3>1 DEF RowWritten, RefsLocked
  <2> QED BY <1>2, <2>1, <2>2
<1> QED BY <1>6, <1>7, <1>8, <1>9

LEMMA WriteKeeps ==
  ASSUME Consistent, NEW r \in Reqs, Write(r)
  PROVE  Consistent'
<1>1. At(r, Writes) /\ Granted(r)
  BY DEF Write
<1>2. CASE Violates(r, Now(r))
  BY <1>2, AnsweredKeeps DEF Write
<1>3. CASE ~ Violates(r, Now(r))
  <2>1. Proceed(r, Wrote(r))
    BY <1>3 DEF Write, Wrote
  <2>2. /\ DOMAIN req' = Reqs /\ req'[r] = Wrote(r) /\ db' = db
        /\ \A p \in Reqs \ {r} : req'[p] = req[p]
        /\ committed' = committed /\ audited' = audited /\ met' = met
    BY <2>1 DEF Consistent, Typed, Proceed
  <2>3. Typed'
    <3>1. \A p \in Reqs : IsReq(req'[p])
      BY <1>1, <2>2, WroteTyped DEF Consistent, Typed
    <3>2. \A p \in Reqs : Active(p)' => req'[p].by \in Users
      BY <1>1, <2>2, WroteIs DEF Consistent, Typed, Active, At
    <3> QED BY <2>2, <3>1, <3>2 DEF Consistent, Typed, RowFits
  <2>4. \A p \in Reqs : FreshToAll(p)' /\ WritesFit(p)'
    BY <1>1, <2>1, WriteKeepsRows
  <2>5. Apart'
    BY <1>1, <1>3, <2>1, WriteKeepsApart
  <2>6. KeysUnique' /\ ReferencesHold'
    BY <2>2 DEF Consistent, KeysUnique, ReferencesHold
  <2>7. UniqueSeen(r)' /\ ReferencesSeen(r)'
    BY <1>1, <1>3, <2>1, WriteKeepsUnique, WriteKeepsReferences, CascadeKeepsReferences
  <2>8. ASSUME NEW p \in Reqs \ {r}
        PROVE  UniqueSeen(p)' /\ ReferencesSeen(p)'
    <3>1. \A x : Seen(p, x)' = Seen(p, x)
      BY <2>2 DEF Seen
    <3>2. UniqueSeen(p) /\ ReferencesSeen(p)
      BY DEF Consistent
    <3> QED BY <2>2, <3>1, <3>2 DEF UniqueSeen, ReferencesSeen, At, Active, Now
  <2> QED BY <2>3, <2>4, <2>5, <2>6, <2>7, <2>8 DEF Consistent
<1> QED BY <1>2, <1>3

-----------------------------------------------------------------------------
(* Commits                                                                 *)

\* The request after a commit.
Committed(r) ==
  LET q == req[r] IN
  [q EXCEPT !.todo = Tail(@), !.read = Nothing, !.writes = Nothing, !.locks = {},
            !.noted = FALSE, !.want = Nothing, !.wrote = @ \cup DOMAIN q.writes,
            !.answer = IF Len(q.todo) = 1 THEN "ok" ELSE @]

\* The tables become what the request has seen.
LEMMA CommitIs ==
  ASSUME Consistent, NEW r \in Reqs, CommitWrites(r)
  PROVE  LET q == Committed(r) IN
         /\ DOMAIN req' = Reqs /\ req'[r] = q /\ \A p \in Reqs \ {r} : req'[p] = req[p]
         /\ DOMAIN db' = Rows /\ \A x \in Rows : db'[x] = Seen(r, x)
         /\ \A x \in Rows \ DOMAIN req[r].writes : db'[x] = db[x]
         /\ IsReq(q) /\ DOMAIN q.writes = {} /\ q.locks = {} /\ q.by = req[r].by
         /\ Inserting(q) \subseteq Inserting(req[r])
         /\ Active(r) /\ ~ At(r, {"cascade"})
<1> DEFINE q == Committed(r)
<1>1. IsReq(req[r]) /\ req[r].todo # << >> /\ req[r].answer = "pending"
  BY DEF Consistent, Typed, IsReq, Active, At, CommitWrites
<1>2. DOMAIN req' = Reqs /\ req'[r] = q /\ \A p \in Reqs \ {r} : req'[p] = req[p]
  BY DEF CommitWrites, Committed, Consistent, Typed
<1>3. /\ DOMAIN q = DOMAIN NewReq
      /\ q.todo = Tail(req[r].todo) /\ q.writes = Nothing /\ q.locks = {} /\ q.read = Nothing
      /\ q.wrote = req[r].wrote \cup DOMAIN req[r].writes /\ q.by = req[r].by
      /\ q.answer = IF Len(req[r].todo) = 1 THEN "ok" ELSE "pending"
  BY <1>1 DEF Committed, IsReq, NewReq
<1>4. PlanFits(q.todo) /\ (q.todo = << >> <=> Len(req[r].todo) = 1)
  BY <1>1, <1>3, RestFits DEF IsReq
<1>5. Unwritten(req[r]) /\ Inserting(q) \subseteq Inserting(req[r])
  BY <1>1, <1>3, RestUnwritten DEF IsReq
<1> HIDE DEF q
<1>6. Unwritten(q)
  BY <1>3, NothingWritten DEF Unwritten
<1>7. IsReq(q)
  BY <1>1, <1>3, <1>4, <1>6, NothingWritten DEF IsReq
<1>8. /\ DOMAIN db' = Rows /\ \A x \in Rows : db'[x] = Seen(r, x)
      /\ \A x \in Rows \ DOMAIN req[r].writes : db'[x] = db[x]
  BY <1>1 DEF CommitWrites, Over, Seen, IsReq, Consistent, Typed
<1>9. Active(r) /\ ~ At(r, {"cascade"})
  BY DEF CommitWrites, At
<1> QED BY <1>2, <1>3, <1>5, <1>7, <1>8, <1>9, NothingWritten DEF q

LEMMA CommitKeepsUnique ==
  ASSUME Consistent, NEW r \in Reqs, CommitWrites(r), NEW p \in Reqs \ {r}
  PROVE  UniqueSeen(p)'
<1>1. /\ \A x \in DOMAIN req[p].writes : Seen(p, x)' = req[p].writes[x] /\ Seen(p, x) = req[p].writes[x]
      /\ \A x \in Rows \ DOMAIN req[p].writes : Seen(p, x)' = Seen(r, x) /\ Seen(p, x) = db[x]
      /\ \A x \in DOMAIN req[r].writes : Seen(r, x) = req[r].writes[x]
      /\ \A x \in Rows \ DOMAIN req[r].writes : Seen(r, x) = db[x]
  BY CommitIs DEF Seen
<1>2. /\ UniqueSeen(p) /\ UniqueSeen(r) /\ KeysApart(p, r) /\ KeysApart(r, p)
      /\ WritesApart(p, r)
      /\ \A x, y \in Rows : x # y => Keys(x, db[x]) \cap Keys(y, db[y]) = {}
  BY DEF Consistent, Apart, KeysUnique
\* one of the rows is p's, the other not
<1>3. ASSUME NEW x \in Rows, NEW y \in Rows, x # y,
             x \in DOMAIN req[p].writes, y \notin DOMAIN req[p].writes
      PROVE  Keys(x, Seen(p, x)') \cap Keys(y, Seen(p, y)') = {}
  <2>1. CASE y \notin DOMAIN req[r].writes
    BY <1>1, <1>2, <1>3, <2>1 DEF UniqueSeen
  <2>2. CASE y \in DOMAIN req[r].writes
    <3>1. /\ (Keys(x, req[p].writes[x]) \ Keys(x, db[x])) \cap Keys(y, req[r].writes[y]) = {}
          /\ (Keys(y, req[r].writes[y]) \ Keys(y, db[y])) \cap
                (Keys(x, db[x]) \cup Keys(x, req[p].writes[x])) = {}
          /\ Keys(x, db[x]) \cap Keys(y, db[y]) = {}
      BY <1>2, <1>3, <2>2 DEF KeysApart
    <3>2. Keys(x, req[p].writes[x]) \cap Keys(y, req[r].writes[y]) = {}
      BY <3>1
    <3> QED BY <1>1, <1>3, <2>2, <3>2
  <2> QED BY <2>1, <2>2
<1>4. ASSUME NEW x \in Rows, NEW y \in Rows, x # y
      PROVE  Keys(x, Seen(p, x)') \cap Keys(y, Seen(p, y)') = {}
  <2>1. CASE x \in DOMAIN req[p].writes /\ y \in DOMAIN req[p].writes
    BY <1>1, <1>2, <1>4, <2>1 DEF UniqueSeen
  <2>2. CASE x \notin DOMAIN req[p].writes /\ y \notin DOMAIN req[p].writes
    BY <1>1, <1>2, <1>4, <2>2 DEF UniqueSeen
  <2>3. CASE x \in DOMAIN req[p].writes /\ y \notin DOMAIN req[p].writes
    BY <1>3, <1>4, <2>3
  <2>4. CASE x \notin DOMAIN req[p].writes /\ y \in DOMAIN req[p].writes
    <3>1. Keys(y, Seen(p, y)') \cap Keys(x, Seen(p, x)') = {}
      BY <1>3, <1>4, <2>4
    <3> QED BY <3>1
  <2> QED BY <2>1, <2>2, <2>3, <2>4
<1> QED BY <1>4 DEF UniqueSeen

\* A row that one request has removed, once its dependents are too, is not one
\* that another request has come to refer to: both have locked it.
LEMMA RemovedNotReferred ==
  ASSUME Consistent, NEW p \in Reqs, NEW r \in Reqs, p # r,
         NEW x \in DOMAIN req[p].writes, NEW y \in Refs(x, req[p].writes[x]),
         y \in DOMAIN req[r].writes, ~ IsRow(req[r].writes[y]),
         At(r, {"cascade"}) => y # Now(r).x
  PROVE  FALSE
<1>1. x \in Rows /\ y \in Rows /\ x \notin DOMAIN req[r].writes
  BY DEF Consistent, Typed, IsReq, Apart, WritesApart
<1>2. RefsLocked(req[p], x) /\ RowWritten(req[r], y) /\ LocksApart(p, r)
  BY DEF Consistent, WritesFit, Apart
<1>3. <<y, "update">> \in req[r].locks
  BY <1>2 DEF RowWritten
<1>4. y \notin Refs(x, db[x])
  <2>1. Seen(r, x) = db[x] /\ Seen(r, y) = req[r].writes[y]
    BY <1>1 DEF Seen
  <2>2. ReferencesSeen(r)
    BY DEF Consistent
  <2> QED BY <1>1, <2>1, <2>2 DEF ReferencesSeen
<1>5. <<y, "keyshare">> \in req[p].locks
  BY <1>2, <1>4 DEF RefsLocked
<1>6. {"keyshare", "update"} \in Conflict
  BY DEF Conflict
<1> QED BY <1>2, <1>3, <1>5, <1>6 DEF LocksApart

LEMMA CommitKeepsReferences ==
  ASSUME Consistent, NEW r \in Reqs, CommitWrites(r), NEW p \in Reqs \ {r}
  PROVE  ReferencesSeen(p)'
<1>1. /\ \A x \in DOMAIN req[p].writes : Seen(p, x)' = req[p].writes[x] /\ Seen(p, x) = req[p].writes[x]
      /\ \A x \in Rows \ DOMAIN req[p].writes : Seen(p, x)' = Seen(r, x) /\ Seen(p, x) = db[x]
      /\ \A x \in DOMAIN req[r].writes : Seen(r, x) = req[r].writes[x]
      /\ \A x \in Rows \ DOMAIN req[r].writes : Seen(r, x) = db[x]
  BY CommitIs DEF Seen
<1>2. \A x \in Rows : \A y \in Refs(x, Seen(r, x)) : IsRow(Seen(r, y))
  BY CommitIs DEF Consistent, ReferencesSeen
<1>3. \A x \in Rows : \A y \in Refs(x, Seen(p, x)) :
         IsRow(Seen(p, y)) \/ (At(p, {"cascade"}) /\ y = Now(p).x)
  BY DEF Consistent, ReferencesSeen
<1>4. ~ At(r, {"cascade"}) /\ (At(p, {"cascade"})' <=> At(p, {"cascade"})) /\ Now(p)' = Now(p)
  BY CommitIs DEF At, Active, Now
<1> SUFFICES ASSUME NEW x \in Rows, NEW y \in Refs(x, Seen(p, x)'),
                    ~ (At(p, {"cascade"}) /\ y = Now(p).x)
             PROVE  IsRow(Seen(p, y)')
  BY <1>4 DEF ReferencesSeen, IsRow
<1>5. y \in Rows
  <2>1. RowFits(x, Seen(p, x)')
    <3>1. \A q \in Reqs : RowFits(x, Seen(q, x))
      BY DEF Consistent, Typed, WritesFit, RowWritten, Seen
    <3> QED BY <1>1, <3>1
  <2> QED BY <2>1, ReferencesAreRows
<1>6. CASE x \in DOMAIN req[p].writes
  <2>1. IsRow(Seen(p, y)) /\ y \in Refs(x, req[p].writes[x])
    BY <1>1, <1>3, <1>6
  <2>2. CASE y \in DOMAIN req[p].writes \/ y \notin DOMAIN req[r].writes
    BY <1>1, <1>5, <2>1, <2>2
  <2>3. CASE y \notin DOMAIN req[p].writes /\ y \in DOMAIN req[r].writes
    <3>1. IsRow(req[r].writes[y])
      BY <1>4, <1>6, <2>1, <2>3, RemovedNotReferred
    <3> QED BY <1>1, <1>5, <2>3, <3>1
  <2> QED BY <2>2, <2>3
<1>7. CASE x \notin DOMAIN req[p].writes /\ x \in DOMAIN req[r].writes
  <2>1. IsRow(Seen(r, y)) /\ y \in Refs(x, req[r].writes[x])
    BY <1>1, <1>2, <1>7
  <2>2. CASE y \notin DOMAIN req[p].writes
    BY <1>1, <1>5, <2>1, <2>2
  <2>3. CASE y \in DOMAIN req[p].writes
    <3>1. IsRow(req[p].writes[y])
      BY <1>7, <2>1, <2>3, RemovedNotReferred
    <3> QED BY <1>1, <2>3, <3>1
  <2> QED BY <2>2, <2>3
<1>8. CASE x \notin DOMAIN req[p].writes /\ x \notin DOMAIN req[r].writes
  <2>1. y \in Refs(x, db[x]) /\ IsRow(Seen(p, y)) /\ IsRow(Seen(r, y))
    BY <1>1, <1>2, <1>3, <1>8
  <2> QED BY <1>1, <1>5, <2>1
<1> QED BY <1>6, <1>7, <1>8

LEMMA CommitKeeps ==
  ASSUME Consistent, NEW r \in Reqs, CommitWrites(r)
  PROVE  Consistent'
<1> DEFINE q == Committed(r)
<1>1. /\ DOMAIN req' = Reqs /\ req'[r] = q /\ \A p \in Reqs \ {r} : req'[p] = req[p]
      /\ DOMAIN db' = Rows /\ \A x \in Rows : db'[x] = Seen(r, x)
      /\ \A x \in Rows \ DOMAIN req[r].writes : db'[x] = db[x]
      /\ IsReq(q) /\ DOMAIN q.writes = {} /\ q.locks = {} /\ q.by = req[r].by
      /\ Inserting(q) \subseteq Inserting(req[r])
      /\ Active(r) /\ ~ At(r, {"cascade"})
  BY CommitIs
<1> HIDE DEF q
<1>2. \A x \in Rows : RowFits(x, Seen(r, x))
  BY DEF Consistent, Typed, WritesFit, RowWritten, Seen
<1>3. Typed'
  <2>1. \A x \in Rows : RowFits(x, db'[x])
    BY <1>1, <1>2
  <2>2. \A p \in Reqs : IsReq(req'[p])
    BY <1>1 DEF Consistent, Typed
  <2>3. \A p \in Reqs : Active(p)' => req'[p].by \in Users
    BY <1>1 DEF Consistent, Typed, Active
  <2>4. audited' \subseteq committed' /\ committed' \subseteq Reqs /\ met' = met
    BY DEF CommitWrites, Consistent, Typed
  <2> QED BY <1>1, <2>1, <2>2, <2>3, <2>4 DEF Consistent, Typed, RowFits
<1>4. \A p \in Reqs : FreshToAll(p)'
  <2> SUFFICES ASSUME NEW p \in Reqs, NEW x \in Inserting(req'[p])
               PROVE  /\ db'[x].st = "absent"
                      /\ \A p2 \in Reqs \ {p} : x \notin DOMAIN req'[p2].writes \cup Inserting(req'[p2])
    BY DEF FreshToAll
  <2>1. x \in Inserting(req[p]) /\ FreshToAll(p)
    BY <1>1 DEF Consistent
  <2>2. x \in Rows /\ x \notin DOMAIN req[p].writes
    BY <2>1 DEF Consistent, Typed, IsReq, PlanFits, StatementFits, Inserting, Unwritten
  <2>3. x \notin DOMAIN req[r].writes
    BY <2>1, <2>2 DEF FreshToAll
  <2> QED BY <1>1, <2>1, <2>2, <2>3 DEF FreshToAll
<1>5. \A p \in Reqs : WritesFit(p)'
  <2>1. ASSUME NEW p \in Reqs \ {r}
        PROVE  WritesFit(p)'
    <3>1. WritesFit(p) /\ \A x \in DOMAIN req[p].writes : db'[x] = db[x]
      BY <1>1 DEF Consistent, Typed, IsReq, Apart, WritesApart
    <3> QED BY <1>1, <3>1 DEF WritesFit, RowWritten, RefsLocked
  <2>2. WritesFit(r)'
    BY <1>1 DEF WritesFit
  <2> QED BY <2>1, <2>2
<1>6. Apart'
  <2> SUFFICES ASSUME NEW p1 \in Reqs, NEW p2 \in Reqs, p1 # p2
               PROVE  LocksApart(p1, p2)' /\ WritesApart(p1, p2)' /\ KeysApart(p1, p2)'
    BY DEF Apart
  <2>1. LocksApart(p1, p2) /\ WritesApart(p1, p2) /\ KeysApart(p1, p2)
    BY DEF Consistent, Apart
  <2>2. CASE p1 = r \/ p2 = r
    BY <1>1, <2>2 DEF LocksApart, WritesApart, KeysApart
  <2>3. CASE p1 # r /\ p2 # r
    <3>1. \A x \in DOMAIN req[p1].writes \cup DOMAIN req[p2].writes : db'[x] = db[x]
      BY <1>1, <2>3 DEF Consistent, Typed, IsReq, Apart, WritesApart
    <3> QED BY <1>1, <2>1, <2>3, <3>1 DEF LocksApart, WritesApart, KeysApart
  <2> QED BY <2>2, <2>3
<1>7. KeysUnique'
  BY <1>1 DEF Consistent, UniqueSeen, KeysUnique
<1>8. ReferencesHold'
  <2>1. \A x \in Rows : \A y \in Refs(x, db'[x]) : y \in Rows
    BY <1>1, <1>2, ReferencesAreRows
  <2>2. ReferencesSeen(r)
    BY DEF Consistent
  <2> QED BY <1>1, <2>1, <2>2 DEF ReferencesSeen, ReferencesHold, IsRow
<1>9. UniqueSeen(r)' /\ ReferencesSeen(r)'
  <2>1. \A x : Seen(r, x)' = db'[x]
    BY <1>1 DEF Seen
  <2>2. UniqueSeen(r)'
    BY <1>7, <2>1 DEF UniqueSeen, KeysUnique
  <2>3. ReferencesSeen(r)'
    BY <1>8, <2>1 DEF ReferencesSeen, ReferencesHold
  <2> QED BY <2>2, <2>3
<1>10. \A p \in Reqs \ {r} : UniqueSeen(p)' /\ ReferencesSeen(p)'
  BY CommitKeepsUnique, CommitKeepsReferences
<1> QED BY <1>3, <1>4, <1>5, <1>6, <1>7, <1>8, <1>9, <1>10 DEF Consistent

=============================================================================
