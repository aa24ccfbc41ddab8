------------------------------ MODULE Sessions ------------------------------
(***************************************************************************)
(* Requests on the tables of users, account types, institutions, accounts, *)
(* cards and shares: the machinery that every handler of these tables runs *)
(* on.  A handler is a plan, the sequence of its SQL statements with what  *)
(* each answers when it does not find what it needs; modules People,       *)
(* Catalogue and Holdings translate the handlers into plans, and module    *)
(* Directory lets them run concurrently.                                   *)
(*                                                                         *)
(* The database is PostgreSQL at READ COMMITTED, as in module              *)
(* TransactionRequests.  A statement takes all the locks it needs at once; *)
(* only a DELETE locks its row first and the rows it cascades to in a step *)
(* of their own.                                                           *)
(*                                                                         *)
(* A row is [st |-> ..] and its columns: st is "absent" (not inserted      *)
(* yet), "live", "deleted" (deleted_at set) or "gone" (removed from the    *)
(* table).  The columns on which nothing depends are two: title stands for *)
(* those that cannot be null, label for the others.                        *)
(***************************************************************************)
EXTENDS Integers, Sequences, FiniteSets, FiniteSetsExt, Functions

CONSTANTS
  Reqs,          \* requests, numbered in the order in which they arrive
  Users, Types, Institutions, Accounts, Cards, Shares,
                 \* identities a row of each table can take
  None,          \* SQL's NULL
  Unfit,         \* a value that the schema of a body accepts and its column cannot hold:
                 \* a number out of range, too long a URL
  Tables         \* database contents to start from

Rows == Users \cup Types \cup Institutions \cup Accounts \cup Cards \cup Shares

ASSUME SessionsAssumption ==
  /\ Reqs \subseteq Nat
  /\ None \notin Rows /\ Unfit \notin Rows \cup {None}
  /\ \A table \in Tables : DOMAIN table = Rows
  /\ LET kinds == <<Users, Types, Institutions, Accounts, Cards, Shares>>
     IN \A i, j \in 1 .. 6 : i # j => kinds[i] \cap kinds[j] = {}

VARIABLES
  db,         \* committed rows
  req,        \* what each request was asked, knows, has written and has locked
  committed,  \* requests that have committed what they were asked
  audited,    \* requests with a committed audit log entry
  met         \* history: met[r] = requests in progress at some moment of r

vars == <<db, req, committed, audited, met>>

Absent == [st |-> "absent"]
Gone == [st |-> "gone"]
IsRow(row) == row.st \in {"live", "deleted"}

\* The function x |-> v; and f, with g where f is not defined.
Only(x, v) == [y \in {x} |-> v]
Over(f, g) == [y \in DOMAIN f \cup DOMAIN g |-> IF y \in DOMAIN f THEN f[y] ELSE g[y]]

-----------------------------------------------------------------------------
(* The schema: what the unique indexes and foreign keys of each table see. *)

\* Deleted users keep their email and username.
UserKeys(row) == {<<"email", row.email>>, <<"username", row.username>>}

TypeKeys(row) == {<<"key", row.key>>}

\* An institution need not have either code.
InstitutionKeys(row) ==
  {k \in {<<"swift", row.swift>>, <<"routing", row.routing>>} : k[2] # None}

\* The names of a user's live accounts differ.
AccountKeys(row) == IF row.st = "live" THEN {<<"name", row.owner, row.name>>} ELSE {}

\* A user has at most one live share of an account.
ShareKeys(row) == IF row.st = "live" THEN {<<"share", row.account, row.user>>} ELSE {}

Keys(x, row) ==
  IF ~ IsRow(row) THEN {}
  ELSE CASE x \in Users -> UserKeys(row)
         [] x \in Types -> TypeKeys(row)
         [] x \in Institutions -> InstitutionKeys(row)
         [] x \in Accounts -> AccountKeys(row)
         [] x \in Shares -> ShareKeys(row)
         [] OTHER -> {}

AccountRefs(row) == {row.owner, row.type, row.inst}
CardRefs(row) == {row.account, row.inst} \ {None}
ShareRefs(row) == {row.account, row.user}

Refs(x, row) ==
  IF ~ IsRow(row) THEN {}
  ELSE CASE x \in Accounts -> AccountRefs(row)
         [] x \in Cards -> CardRefs(row)
         [] x \in Shares -> ShareRefs(row)
         [] OTHER -> {}

\* Which table a foreign key refers to, and the columns of a row of x's table.
Referring == [owner |-> Users, user |-> Users, account |-> Accounts, type |-> Types,
              inst |-> Institutions]
Columns(x) ==
  {"st"} \cup CASE x \in Users -> {"email", "username", "full_name", "admin"}
               [] x \in Types -> {"key", "title", "label"}
               [] x \in Institutions -> {"swift", "routing", "title", "label"}
               [] x \in Accounts -> {"owner", "name", "type", "inst", "title", "label"}
               [] x \in Cards -> {"account", "inst", "title", "label"}
               [] x \in Shares -> {"account", "user", "level"}

PermissionLevel == {"owner", "editor", "viewer"}

\* f names columns of x's table, its foreign keys refer to what they can refer to,
\* and its level is one of the type; a card need not have an institution.
Fits(x, f) ==
  /\ DOMAIN f \subseteq Columns(x)
  /\ \A c \in DOMAIN f \cap DOMAIN Referring :
       f[c] \in Referring[c] \/ (x \in Cards /\ c = "inst" /\ f[c] = None)
  /\ "level" \in DOMAIN f => f.level \in PermissionLevel

\* NOT NULL columns that the body of an update can set to null: the schemas make
\* every field optional, so that null is a value, and the handlers assign it.
Required == {"email", "username", "name", "title"}

\* A column of this name can hold v.
Storable(c, v) == v # Unfit /\ (c \in Required => v # None)

-----------------------------------------------------------------------------
(* Statements                                                              *)

\* Checks: a SELECT, or a test of what was read, and the answer of the handler
\* when it is not satisfied.
Statement(do, x, arg) == [do |-> do, x |-> x, arg |-> arg]
Find(x, err) == Statement("find", x, err)
Free(key) == Statement("free", None, key)
Refuse(err) == Statement("refuse", None, err)

\* Writes.
Insert(x, row) == Statement("insert", x, row)
Update(x, want) == Statement("update", x, want)
SoftDelete(x) == Update(x, [st |-> "deleted"])
Erase(x) == <<Statement("erase", x, None), Statement("cascade", x, None)>>
Audit == Statement("audit", None, None)
Commit == Statement("commit", None, None)

\* Fault: the changes are committed before their entry is written.
AuditAfterCommit == <<Commit, Audit, Commit>>

\* log_event commits what the handler has written along with its own entry.
AuditAndCommit == <<Audit, Commit>>

\* Handlers that commit first write the entry in a second transaction.
CommitThenAudit == <<Commit, Audit, Commit>>

Nothing == [x \in {} |-> Absent]

NewReq == [op |-> "none", by |-> None, x |-> None, want |-> Nothing,
           todo |-> << >>, read |-> Nothing, writes |-> Nothing, locks |-> {},
           noted |-> FALSE, wrote |-> {}, answer |-> "none"]

Active(r) == req[r].answer = "pending"
Now(r) == Head(req[r].todo)
At(r, dos) == Active(r) /\ Now(r).do \in dos

\* The request's own transaction sees what it has written.
Seen(r, x) == IF x \in DOMAIN req[r].writes THEN req[r].writes[x] ELSE db[x]

\* Random UUIDs never collide: an unused identity is taken, whichever.
FreshIn(table) ==
  {x \in table : /\ db[x].st = "absent"
                 /\ \A q \in Reqs : /\ x \notin DOMAIN req[q].writes
                                    /\ \A i \in DOMAIN req[q].todo : req[q].todo[i].x # x}

-----------------------------------------------------------------------------
(* Checks                                                                  *)

\* Fault: the soft-delete filter is forgotten.
ExistsAny(x) == IsRow(db[x])

\* get_by_id: deleted rows are not found.
Exists(x) == db[x].st = "live"

\* email_exists and username_exists, among live users; so get_by_email and
\* get_by_username, exists_share, exists_by_key and the like.
Taken(key) == \E y \in Rows : Exists(y) /\ key \in Keys(y, db[y])

\* A new value of a unique column is looked for only if it is new, and null only
\* in an institution: None has no upper(), and asking for the institution
\* without a routing number fails if there are several.
Rekey(r, x, key) ==
  LET col == key[1]
      unrouted == {i \in Institutions : Exists(i) /\ db[i].routing = None}
  IN
  IF key[2] = req[r].read[x][col] THEN "ok"
  ELSE IF key[2] # None THEN IF Taken(key) THEN "409" ELSE "ok"
  ELSE CASE col = "swift" -> "500"
         [] col = "routing" -> IF unrouted = {} THEN "ok"
                               ELSE IF Cardinality(unrouted) = 1 THEN "409" ELSE "500"
         [] OTHER -> "ok"

\* The query does not join the share to the account: the name of any live
\* account is taken, for a user who has ever had a share.
NameTaken(u, n) ==
  /\ \E a \in Accounts : Exists(a) /\ db[a].name = n
  /\ \E s \in Shares : IsRow(db[s]) /\ db[s].user = u

ShareOf(u, a) == {s \in Shares : Exists(s) /\ db[s].account = a /\ db[s].user = u}

\* require_permission(owner): owning the account while it is live, or the level
\* of the user's live share.
OwnerOf(u, a) ==
  IF Exists(a) /\ db[a].owner = u THEN "ok"
  ELSE IF ShareOf(u, a) = {} THEN "404"
  ELSE IF \E s \in ShareOf(u, a) : db[s].level = "owner" THEN "ok" ELSE "403"

\* The share must be one of the account, and not the user's own as its owner.
ShareFound(u, s, a) ==
  IF ~ Exists(s) \/ db[s].account # a THEN "404"
  ELSE IF db[s].user = u /\ db[s].level = "owner" THEN "422" ELSE "ok"

\* get_by_id_for_user: the card is not deleted; its account may be.
OwnsCard(u, c) == Exists(c) /\ db[db[c].account].owner = u

\* Deleting an institution first sets the foreign key of its accounts to NULL.
HasAccounts(i) == \E a \in Accounts : IsRow(db[a]) /\ db[a].inst = i

\* What a check answers: "ok", or what the request is answered with.
Verdict(r, s) ==
  LET x == s.x
      by == req[r].by
      OrElse(test, err) == IF test THEN "ok" ELSE err
  IN
  CASE s.do = "find" -> OrElse(Exists(x), s.arg)
    [] s.do = "free" -> OrElse(~ Taken(s.arg), "409")
    [] s.do = "rekey" -> Rekey(r, x, s.arg)
    [] s.do = "refuse" -> s.arg
    [] s.do = "free name" -> OrElse(~ NameTaken(by, s.arg), "409")
    \* get_account, whose other answers are 404 too, and then the owner column
    [] s.do = "mine" -> OrElse(Exists(x) /\ db[x].owner = by, "404")
    [] s.do = "my account" -> IF ~ Exists(x) THEN "404" ELSE OrElse(db[x].owner = by, "403")
    \* exists_by_name does not take the argument it is given
    [] s.do = "rename" -> OrElse(s.arg = req[r].read[x].name, "500")
    [] s.do = "owner" -> OwnerOf(by, x)
    [] s.do = "other" -> IF ~ Exists(x) THEN "404" ELSE OrElse(x # by, "422")
    [] s.do = "share" -> ShareFound(by, x, s.arg)
    [] s.do = "my card" -> OrElse(OwnsCard(by, x), "404")
    [] s.do = "orphans" -> OrElse(~ HasAccounts(x), "500")

Loading == {"find", "mine", "my account", "other", "share", "my card"}
Checks == Loading \cup {"refuse", "free", "rekey", "free name", "rename", "owner", "orphans"}

-----------------------------------------------------------------------------
(* What a write does to the rows                                           *)

\* Fault: nulls are taken for columns that were not given.
ChangesGiven(r, s) ==
  [c \in {c \in DOMAIN s.arg : s.arg[c] # None /\ s.arg[c] # req[r].read[s.x][c]} |-> s.arg[c]]

\* An UPDATE names the columns that differ from what the session has read.
Changes(r, s) ==
  [c \in {c \in DOMAIN s.arg : s.arg[c] # req[r].read[s.x][c]} |-> s.arg[c]]

\* Fault: what the row has become wins.
UpdatedNot(r, s) == Over(db[s.x], Changes(r, s))

\* Fault: the UPDATE names every column, as the session has read it.
UpdatedWhole(r, s) == Over(s.arg, req[r].read[s.x])

\* It applies to what the row has become.
Updated(r, s) == Over(Changes(r, s), db[s.x])

\* ON DELETE CASCADE of the accounts and shares of a user, ON DELETE SET NULL of
\* the institution of a card.
Dependents(x) ==
  CASE x \in Users ->
         LET owned == {a \in Accounts : IsRow(db[a]) /\ db[a].owner = x} IN
         owned \cup {s \in Shares : IsRow(db[s]) /\ (db[s].user = x \/ db[s].account \in owned)}
    [] x \in Institutions -> {c \in Cards : IsRow(db[c]) /\ db[c].inst = x}
    [] OTHER -> {}

LeftBy(y) == IF y \in Cards THEN [db[y] EXCEPT !.inst = None] ELSE Gone

\* ON DELETE RESTRICT: an account holds its type and its institution, and a
\* card, deleted or not, its account and so the account's owner.
Restricted(x) ==
  \/ \E a \in Accounts : IsRow(db[a]) /\ x \in {db[a].type, db[a].inst}
  \/ \E c \in Cards : IsRow(db[c]) /\ db[c].account \in Dependents(x)

\* The rows a statement leaves.
Effect(r, s) ==
  CASE s.do = "insert" -> Only(s.x, s.arg)
    [] s.do = "update" /\ IsRow(db[s.x]) /\ DOMAIN Changes(r, s) # {} ->
           Only(s.x, Updated(r, s))
    [] s.do = "erase" /\ IsRow(db[s.x]) -> Only(s.x, Gone)
    [] s.do = "cascade" -> [y \in Dependents(s.x) |-> LeftBy(y)]
    [] OTHER -> Nothing

NewKeys(r, s) ==
  UNION {Keys(y, Effect(r, s)[y]) \ Keys(y, db[y]) : y \in DOMAIN Effect(r, s)}

\* Fault: foreign keys are not looked at.
NoNewRefs(r, s) == {}

\* The rows that foreign keys come to refer to, the acting user's for an entry
\* of the audit log.
NewRefs(r, s) ==
  IF s.do = "audit" THEN {req[r].by}
  ELSE UNION {Refs(y, Effect(r, s)[y]) \ Refs(y, db[y]) : y \in DOMAIN Effect(r, s)}

\* A violated constraint is an IntegrityError, a value out of range a DataError,
\* and no handler catches them.  A row that has left the table fails an UPDATE of
\* it, or the refresh after none.
Violates(r, s) ==
  \/ s.do = "update" /\ ~ IsRow(db[s.x])
  \/ s.do \in {"insert", "update"} /\ \E c \in DOMAIN s.arg : ~ Storable(c, s.arg[c])
  \/ s.do = "cascade" /\ Restricted(s.x)
  \/ \E z \in NewRefs(r, s) : ~ IsRow(Seen(r, z))
  \/ \E z \in Rows \ DOMAIN Effect(r, s) : Keys(z, Seen(r, z)) \cap NewKeys(r, s) # {}

-----------------------------------------------------------------------------
(* Locks                                                                   *)

Conflict == { {"update"}, {"update", "nokey"}, {"update", "keyshare"}, {"nokey"} }

\* Fault: an UPDATE takes the lock of a DELETE.
RowModeStrong(r, s) == "update"

\* PostgreSQL takes the stronger lock on a row whose columns in a full unique
\* index change: only those of users are neither partial nor immutable.
RowMode(r, s) ==
  CASE s.do = "update" ->
         IF {"email", "username"} \cap DOMAIN Changes(r, s) # {} THEN "update" ELSE "nokey"
    [] s.do = "cascade" /\ s.x \in Institutions -> "nokey"
    [] OTHER -> "update"

Wanted(r, s) ==
  {<<z, "keyshare">> : z \in NewRefs(r, s)}
    \cup (IF s.do = "insert" THEN {} ELSE {<<y, RowMode(r, s)>> : y \in DOMAIN Effect(r, s)})

\* Fault: a unique key that another request has written does not stop anybody.
NoClash(q, r) == FALSE

\* A key that another request has written, or is giving up, and has not
\* committed.
Clash(q, r) ==
  \E y \in DOMAIN req[q].writes :
    NewKeys(r, Now(r)) \cap (Keys(y, db[y]) \cup Keys(y, req[q].writes[y])) # {}

Writes == {"insert", "update", "erase", "cascade", "audit"}

Blocks(q, r) ==
  /\ q # r
  /\ At(r, Writes)
  /\ \/ \E w \in Wanted(r, Now(r)), l \in req[q].locks : w[1] = l[1] /\ {w[2], l[2]} \in Conflict
     \/ Clash(q, r)

Granted(r) == \A q \in Reqs : ~ Blocks(q, r)

\* r is among the requests it waits for: it is in every set of requests that has,
\* with r's blockers, their own.
WaitsForItself(r) ==
  \A S \in SUBSET Reqs : (\A x \in S \cup {r}, y \in Reqs : Blocks(y, x) => y \in S) => r \in S

InCycle(r) == ~ Granted(r) /\ WaitsForItself(r)

-----------------------------------------------------------------------------
(* Requests                                                                *)

Meet(r) ==
  LET now == {q \in Reqs \ {r} : Active(q)} IN
  met' = [q \in Reqs |-> IF q = r THEN now
                         ELSE IF q \in now THEN met[q] \cup {r} ELSE met[q]]

\* get_current_user: the token names a user, who must be live.
CurrentUser(u) == IF Exists(u) THEN "ok" ELSE "401"

\* require_admin, after get_current_user.
AdminUser(u) == IF ~ Exists(u) THEN "401" ELSE IF ~ db[u].admin THEN "403" ELSE "ok"

\* The request of user `by` arrives, passes the gate or not, and goes on to its
\* handler.  x and want are the row it is about and the columns it asks for.
Arrive(r, op, by, gate, x, want, plan) ==
  /\ \A q \in Reqs : req[q].answer = "none" <=> q >= r
  /\ req' = [req EXCEPT ![r] =
       IF gate # "ok" THEN [NewReq EXCEPT !.answer = gate]
       ELSE [NewReq EXCEPT !.op = op, !.by = by, !.x = x, !.want = want, !.todo = plan,
                           !.read = IF by = x THEN Only(by, db[by]) ELSE @,
                           !.answer = "pending"]]
  /\ Meet(r)
  /\ UNCHANGED <<db, committed, audited>>

Proceed(r, next) ==
  /\ req' = [req EXCEPT ![r] = next]
  /\ UNCHANGED <<db, committed, audited, met>>

\* Fault: a request that ends before its commit keeps its locks.
AnsweredLocked(r, answer) ==
  IF r \in committed
  THEN [req[r] EXCEPT !.todo = << >>, !.read = Nothing, !.writes = Nothing, !.locks = {},
                      !.noted = FALSE, !.want = Nothing, !.answer = answer]
  ELSE [NewReq EXCEPT !.locks = req[r].locks, !.answer = answer]

\* Fault: a refused request is rolled back and tried again.
AnsweredRetry(r, answer) == [req[r] EXCEPT !.writes = Nothing, !.locks = {}]

\* The end of a request: what is not committed is rolled back, and of a request
\* that has committed nothing nothing is kept.
Answered(r, answer) ==
  IF r \in committed
  THEN [req[r] EXCEPT !.todo = << >>, !.read = Nothing, !.writes = Nothing, !.locks = {},
                      !.noted = FALSE, !.want = Nothing, !.answer = answer]
  ELSE [NewReq EXCEPT !.answer = answer]

\* The session keeps the first version of a row that it has read.
Read(r) ==
  LET s == Now(r)
      verdict == Verdict(r, s)
  IN
  /\ At(r, Checks)
  /\ Proceed(r, IF verdict # "ok" THEN Answered(r, verdict)
                ELSE [req[r] EXCEPT !.todo = Tail(@),
                        !.read = IF s.do \in Loading THEN Over(@, Only(s.x, db[s.x])) ELSE @])

\* A flushed statement, once no other request is in its way.
Write(r) ==
  LET s == Now(r) IN
  /\ At(r, Writes)
  /\ Granted(r)
  /\ Proceed(r, IF Violates(r, s) THEN Answered(r, "500")
                ELSE [req[r] EXCEPT !.todo = Tail(@),
                        !.writes = Over(Effect(r, s), @),
                        !.locks = @ \cup Wanted(r, s),
                        !.noted = @ \/ s.do = "audit"])

CommitWrites(r) ==
  LET q == req[r] IN
  /\ At(r, {"commit"})
  /\ db' = Over(q.writes, db)
  /\ committed' = committed \cup {r}
  /\ audited' = IF q.noted THEN audited \cup {r} ELSE audited
  /\ req' = [req EXCEPT ![r] =
       [q EXCEPT !.todo = Tail(@), !.read = Nothing, !.writes = Nothing, !.locks = {},
                 !.noted = FALSE, !.want = Nothing, !.wrote = @ \cup DOMAIN q.writes,
                 !.answer = IF Len(q.todo) = 1 THEN "ok" ELSE @]]
  /\ UNCHANGED met

\* The process dies, the client goes away, or a statement fails for a reason that
\* is neither in the tables nor in the body, as a User-Agent header that is longer
\* than the column of the audit entry.
Fail(r) == Active(r) /\ Proceed(r, Answered(r, "lost"))

\* PostgreSQL aborts a transaction of every cycle of waits.
BreakDeadlock(r) == InCycle(r) /\ Proceed(r, Answered(r, "deadlock"))

Step(r) == Read(r) \/ Write(r) \/ CommitWrites(r)

=============================================================================
