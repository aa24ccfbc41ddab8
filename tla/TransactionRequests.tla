------------------------ MODULE TransactionRequests ------------------------
(***************************************************************************)
(* The handlers of TransactionService, and delete_account, running         *)
(* concurrently on one account, one SQL statement per step.  Every request *)
(* has a session, hence a database transaction, of its own (get_db).       *)
(*                                                                         *)
(* The database is PostgreSQL at READ COMMITTED: a read sees what is       *)
(* committed, an UPDATE or DELETE waits for the row's lock and then        *)
(* applies to the latest version, an INSERT takes a key-share lock on the  *)
(* account it refers to, and locks last until commit or rollback.          *)
(*                                                                         *)
(* The users are the account's owner throughout, so that no permission     *)
(* check fails; module Ledger covers permissions.  The rows read before    *)
(* the handler's own (token, user, card) are left out.                     *)
(***************************************************************************)
EXTENDS Integers, Sequences, FiniteSets, FiniteSetsExt, SequencesExt, Functions

CONSTANTS
  Reqs,       \* requests, each served once
  Ops,        \* operations they may ask for
  Txns,       \* identities a transaction row can take
  Amounts,    \* amounts a request can carry
  Tables,     \* transactions tables to start from
  NoTxn,      \* parent of a row that is not a part
  Owner,      \* the account's owner
  Acc         \* the account

VARIABLES
  row,        \* committed transactions table
  open,       \* committed: the account is not deleted
  balance,    \* committed accounts.current_balance
  req,        \* what each request knows, has written and has locked
  committed,  \* requests whose rows are committed
  audited,    \* requests with a committed audit log entry
  applied,    \* history: requests whose posting is in the balance
  met         \* history: met[r] = requests in progress at some moment of r

vars == <<row, open, balance, req, committed, audited, applied, met>>

AllOps == {"create", "update", "delete", "split", "join", "close"}
Posting == {"create", "update", "delete"}

RowType(states) == [st : states, amt : Int, parent : Txns \cup {NoTxn}]

Row(m, p) == [st |-> "live", amt |-> m, parent |-> p]
NoRow == [st |-> "absent", amt |-> 0, parent |-> NoTxn]
NoWrites == [t \in {} |-> NoRow]

TopLevelSum(table) ==
  MapThenSumSet(LAMBDA t : table[t].amt,
                {t \in Txns : table[t].st = "live" /\ table[t].parent = NoTxn})

\* snap, seen: the session's Account.current_balance, and what had been posted
\* when it was read.  old: the amount read with the row.  todo: parts still to
\* be written.  writes: uncommitted rows, which are also the rows locked.
\* lock: the lock held on the account row.
NewReq == [pc |-> "new", op |-> "none", tgt |-> NoTxn, amt |-> 0, old |-> 0,
           snap |-> 0, seen |-> {}, delta |-> 0, todo |-> << >>,
           writes |-> NoWrites, lock |-> "none"]

Init ==
  /\ row \in Tables
  /\ open = TRUE
  /\ balance = TopLevelSum(row)
  /\ req = [r \in Reqs |-> NewReq]
  /\ committed = {}
  /\ audited = {}
  /\ applied = {}
  /\ met = [r \in Reqs |-> {}]

\* What earlier requests leave: no amount is zero, a part belongs to a row that
\* is no part itself, and while it is live so is that row.
ASSUME RequestsAssumption ==
  /\ Ops \subseteq AllOps
  /\ Amounts \subseteq Int \ {0}
  /\ NoTxn \notin Txns
  /\ IsFiniteSet(Txns)   \* UUIDs
  /\ \A table \in Tables :
       /\ table \in [Txns -> RowType({"absent", "live", "deleted", "purged"})]
       /\ \A t \in Txns : table[t].st # "absent" =>
            /\ table[t].amt # 0
            /\ table[t].parent # NoTxn =>
                 LET p == table[table[t].parent] IN
                 /\ p.st # "absent" /\ p.parent = NoTxn
                 /\ table[t].st = "live" => p.st = "live"

-----------------------------------------------------------------------------
(* Locks                                                                   *)

Active(r) == req[r].pc \notin {"new", "done"}

\* PostgreSQL's row locks, as far as these statements take them.
Conflict == { {"update"}, {"update", "nokey"}, {"update", "keyshare"}, {"nokey"} }

RowsWanted(r) ==
  CASE req[r].pc = "parts" -> {Head(req[r].todo)}
    [] req[r].pc = "write" -> {req[r].tgt}
    [] OTHER -> {}

LockWanted(r) ==
  CASE req[r].pc = "insert" -> "keyshare"
    [] req[r].pc = "lock" /\ open -> "update"
    [] req[r].pc = "close" -> "nokey"
    [] OTHER -> "none"

Blocks(q, r) ==
  /\ q # r
  /\ \/ RowsWanted(r) \cap DOMAIN req[q].writes # {}
     \/ {LockWanted(r), req[q].lock} \in Conflict

Granted(r) == \A q \in Reqs : ~ Blocks(q, r)

\* r is among the requests it waits for: it is in every set of requests that has,
\* with r's blockers, their own.
WaitsForItself(r) ==
  \A S \in SUBSET Reqs : (\A x \in S \cup {r}, y \in Reqs : Blocks(y, x) => y \in S) => r \in S

InCycle(r) == ~ Granted(r) /\ WaitsForItself(r)

-----------------------------------------------------------------------------
(* Reads: the request arrives with the first statement of its handler.     *)

\* The requests in progress meet each other.
Meet(r) ==
  LET now == {q \in Reqs \ {r} : Active(q)} IN
  met' = [q \in Reqs |-> IF q = r THEN now
                         ELSE IF q \in now THEN met[q] \cup {r} ELSE met[q]]

Arrive(r, next) ==
  /\ req[r].pc = "new"
  /\ req' = [req EXCEPT ![r] = next]
  /\ Meet(r)
  /\ UNCHANGED <<row, open, balance, committed, audited, applied>>

\* create_transaction reads the account and keeps it; 404 if it is deleted.
BeginCreate(r, m) ==
  Arrive(r, [NewReq EXCEPT !.op = "create", !.amt = m, !.delta = m,
                           !.snap = balance, !.seen = applied,
                           !.pc = IF open THEN "insert" ELSE "done"])

\* Fault: the row is used whether it is there or not.
FoundAny(t) == TRUE

\* get_by_id: 404 if there is no such row or it is deleted.
Found(t) == row[t].st = "live"

\* A part cannot be split.
BeginOnRow(r, op, t, m) ==
  Arrive(r, [NewReq EXCEPT !.op = op, !.tgt = t, !.amt = m, !.old = row[t].amt,
                           !.pc = IF ~ Found(t) THEN "done"
                                  ELSE IF op \in {"update", "delete"} THEN "account"
                                  ELSE IF op = "join" THEN "count"
                                  ELSE IF row[t].parent = NoTxn THEN "insert" ELSE "done"])

\* delete_account reads the account (404 if it is deleted).
BeginClose(r) ==
  Arrive(r, [NewReq EXCEPT !.op = "close", !.pc = IF open THEN "close" ELSE "done"])

Begin(r) ==
  \/ "create" \in Ops /\ \E m \in Amounts : BeginCreate(r, m)
  \/ "update" \in Ops /\ \E t \in Txns, m \in Amounts : BeginOnRow(r, "update", t, m)
  \/ \E op \in Ops \cap {"delete", "split", "join"}, t \in Txns : BeginOnRow(r, op, t, 0)
  \/ "close" \in Ops /\ BeginClose(r)

Proceed(r, next) ==
  /\ req' = [req EXCEPT ![r] = next]
  /\ UNCHANGED <<row, open, balance, committed, audited, applied, met>>

\* The account comes into the session with the row, in a statement of its own
\* (selectinload(Transaction.account)), deleted or not.
LoadAccount(r) ==
  /\ req[r].pc = "account"
  /\ Proceed(r, [req[r] EXCEPT !.snap = balance, !.seen = applied,
                               !.pc = IF req[r].op = "delete" THEN "count" ELSE "write"])

\* Fault: a lone part is overlooked (a count above one is asked for).
PartsIfTwo(t) == {c \in Txns : row[c].st = "live" /\ row[c].parent = t
                                /\ \E d \in Txns \ {c} : row[d].st = "live" /\ row[d].parent = t}

\* The live rows that get_children and has_children select.
Parts(t) == {c \in Txns : row[c].st = "live" /\ row[c].parent = t}

\* Fault: the session is not closed, and its database transaction goes on.
Abandoned(r) == [req[r] EXCEPT !.pc = "done"]

\* A request that ends in an error is rolled back and its locks released.
Aborted(r) == [req[r] EXCEPT !.pc = "done", !.writes = NoWrites, !.lock = "none",
                             !.todo = << >>]

\* has_children.
CountParts(r) ==
  /\ req[r].pc = "count"
  /\ Proceed(r, IF Parts(req[r].tgt) # {} THEN [req[r] EXCEPT !.pc = "fetch"]
                ELSE IF req[r].op = "delete" THEN [req[r] EXCEPT !.pc = "write"]
                ELSE Aborted(r))

\* What comes after the parts.
AfterParts(r) == IF req[r].op = "delete" THEN "write" ELSE "commit"

\* Fault: the parts come in any order.
FetchPartsUnordered(r) ==
  /\ req[r].pc = "fetch"
  /\ \E s \in SetToSeqs(Parts(req[r].tgt)) :
       Proceed(r, [req[r] EXCEPT !.todo = s, !.pc = IF s = << >> THEN AfterParts(r) ELSE "parts"])

\* get_children, largest amount first, equal amounts in any order.
FetchParts(r) ==
  /\ req[r].pc = "fetch"
  /\ \E s \in SetToSeqs(Parts(req[r].tgt)) :
       /\ \A i, j \in DOMAIN s : i < j => row[s[i]].amt >= row[s[j]].amt
       /\ Proceed(r, [req[r] EXCEPT !.todo = s,
                        !.pc = IF s = << >> THEN AfterParts(r) ELSE "parts"])

-----------------------------------------------------------------------------
(* Writes: each flushes a statement, and waits for the lock it needs.      *)

\* A flush is followed by a refresh of the written row.  It may or may not
\* reload the account too: that depends on whether the session still holds the
\* account object, and on how far the refresh reaches.
AfterRefresh(r, next) ==
  \E known \in {<<req[r].snap, req[r].seen>>, <<balance, applied>>} :
    Proceed(r, [next EXCEPT !.snap = known[1], !.seen = known[2]])

Written(r, t, new) == [c \in DOMAIN req[r].writes \cup {t} |->
                         IF c = t THEN new ELSE req[r].writes[c]]

\* delete_transaction soft-deletes the part: StaleDataError if it has left the
\* table.  join_split_transaction deletes it: only a warning if it has.
WritePart(r) ==
  LET c == Head(req[r].todo)
      rest == Tail(req[r].todo)
      then == IF rest = << >> THEN AfterParts(r) ELSE "parts"
  IN
  /\ req[r].pc = "parts"
  /\ Granted(r)
  /\ IF req[r].op = "join"
     THEN Proceed(r, [req[r] EXCEPT !.todo = rest, !.pc = then,
            !.writes = IF row[c].st = "purged" THEN @
                       ELSE Written(r, c, [row[c] EXCEPT !.st = "purged"])])
     ELSE IF row[c].st = "purged" THEN Proceed(r, Aborted(r))
     ELSE AfterRefresh(r, [req[r] EXCEPT !.todo = rest, !.pc = then,
            !.writes = Written(r, c, [row[c] EXCEPT !.st = "deleted"])])

\* Fault: the UPDATE writes the whole row as it was read.
WholeRow(r, t) ==
  IF req[r].op = "delete" THEN [row[t] EXCEPT !.st = "deleted"]
  ELSE [row[t] EXCEPT !.st = "live", !.amt = req[r].amt]

\* The UPDATE names the columns that changed, as the session sees them, and the
\* id: it applies to whatever the row has become, short of having left the
\* table, and an amount equal to the one read is not written.
Change(r, t) ==
  IF req[r].op = "delete" THEN [row[t] EXCEPT !.st = "deleted"]
  ELSE IF req[r].amt # req[r].old THEN [row[t] EXCEPT !.amt = req[r].amt]
  ELSE row[t]

\* Fault: an update posts the new amount.
NewAmount(r, t) == IF req[r].op = "delete" THEN - row[t].amt ELSE req[r].amt

\* An update posts the difference from the amount it read, a deletion the
\* amount that its refresh finds.
Delta(r, t) == IF req[r].op = "delete" THEN - row[t].amt ELSE req[r].amt - req[r].old

WriteRow(r) ==
  LET t == req[r].tgt
      delta == Delta(r, t)
  IN
  /\ req[r].pc = "write"
  /\ Granted(r)
  /\ IF row[t].st = "purged" THEN Proceed(r, Aborted(r))
     ELSE AfterRefresh(r, [req[r] EXCEPT !.writes = Written(r, t, Change(r, t)), !.delta = delta,
                             !.pc = IF delta = 0 THEN "commit" ELSE "lock"])

\* A new row's identity is a random UUID: which unused ones are taken makes no
\* difference.
Fresh == {t \in Txns : row[t].st = "absent" /\ \A q \in Reqs : t \notin DOMAIN req[q].writes}
NewRows(n) == CHOOSE new \in SUBSET Fresh : Cardinality(new) = n

InsertRow(r) ==
  /\ req[r].pc = "insert" /\ req[r].op = "create"
  /\ Granted(r)
  /\ Fresh # {}
  /\ \E t \in NewRows(1) :
       AfterRefresh(r, [req[r] EXCEPT !.writes = Written(r, t, Row(req[r].amt, NoTxn)),
                          !.lock = "keyshare", !.pc = "lock"])

\* The parts add up to the amount that was read with the row.
InsertParts(r) ==
  /\ req[r].pc = "insert" /\ req[r].op = "split"
  /\ Granted(r)
  /\ \E n \in 2 .. Cardinality(Fresh) : \E amounts \in [NewRows(n) -> Amounts] :
       /\ SumFunction(amounts) = req[r].old
       /\ Proceed(r, [req[r] EXCEPT !.writes = [c \in NewRows(n) |-> Row(amounts[c], req[r].tgt)],
                        !.lock = "keyshare", !.pc = "commit"])

\* 422: the amounts asked for do not add up.
RejectParts(r) ==
  /\ req[r].pc = "insert" /\ req[r].op = "split"
  /\ Proceed(r, Aborted(r))

\* Fault: the account is locked, deleted or not.
LockAnyAccount(r) ==
  /\ req[r].pc = "lock"
  /\ Granted(r)
  /\ Proceed(r, [req[r] EXCEPT !.lock = "update", !.pc = "commit"])

\* get_for_update waits for the lock, and returns no deleted account: the
\* handler then fails.  The account object is not loaded again.
LockAccount(r) ==
  /\ req[r].pc = "lock"
  /\ Granted(r)
  /\ Proceed(r, IF open THEN [req[r] EXCEPT !.lock = "update", !.pc = "commit"]
                        ELSE Aborted(r))

CloseAccount(r) ==
  /\ req[r].pc = "close"
  /\ Granted(r)
  /\ Proceed(r, [req[r] EXCEPT !.lock = "nokey", !.pc = "commit"])

\* Creating and splitting write the audit entry in a second transaction.
AuditsApart(r) == req[r].op \in {"create", "split"}

\* Fault: a creation forgets the balance.
BalanceDirtyUnlessNew(r) == req[r].lock = "update" /\ req[r].op # "create"

\* The handlers that lock the account are those that change its balance.
BalanceDirty(r) == req[r].lock = "update"

\* The commit flushes the balance computed in the session.
Commit(r) ==
  LET q == req[r] IN
  /\ q.pc = "commit"
  /\ row' = [t \in Txns |-> IF t \in DOMAIN q.writes THEN q.writes[t] ELSE row[t]]
  /\ open' = (open /\ q.op # "close")
  /\ balance' = IF BalanceDirty(r) THEN q.snap + q.delta ELSE balance
  /\ applied' = IF BalanceDirty(r) THEN q.seen \cup {r} ELSE applied
  /\ committed' = committed \cup {r}
  /\ audited' = IF AuditsApart(r) THEN audited ELSE audited \cup {r}
  /\ req' = [req EXCEPT ![r] =
               [Aborted(r) EXCEPT !.pc = IF AuditsApart(r) THEN "audit" ELSE "done"]]
  /\ UNCHANGED met

WriteAudit(r) ==
  /\ req[r].pc = "audit"
  /\ req' = [req EXCEPT ![r].pc = "done"]
  /\ audited' = audited \cup {r}
  /\ UNCHANGED <<row, open, balance, committed, applied, met>>

\* The process dies, the client goes away, or a statement fails.
Fail(r) == Active(r) /\ Proceed(r, Aborted(r))

\* PostgreSQL aborts a transaction of every cycle of waits.
BreakDeadlock(r) == InCycle(r) /\ Proceed(r, Aborted(r))

Step(r) ==
  \/ LoadAccount(r) \/ CountParts(r) \/ FetchParts(r)
  \/ WritePart(r) \/ WriteRow(r) \/ InsertRow(r) \/ InsertParts(r) \/ RejectParts(r)
  \/ LockAccount(r) \/ CloseAccount(r)
  \/ Commit(r) \/ WriteAudit(r)

Next == \E r \in Reqs : Begin(r) \/ Step(r) \/ Fail(r) \/ BreakDeadlock(r)

Spec == Init /\ [][Next]_vars

\* A served request is not left waiting for the processor or the database,
\* and the database's deadlock detection runs.  Nothing need fail.
Fairness ==
  /\ \A r \in Reqs : WF_vars(Step(r))
  /\ WF_vars(\E r \in Reqs : BreakDeadlock(r))

FairSpec == Spec /\ Fairness

-----------------------------------------------------------------------------
(* What holds however requests overlap                                     *)

RequestTypeOK(q) ==
  /\ q.pc \in {"new", "insert", "account", "count", "fetch", "parts", "write",
               "lock", "close", "commit", "audit", "done"}
  /\ q.op \in AllOps \cup {"none"}
  /\ q.tgt \in Txns \cup {NoTxn}
  /\ {q.amt, q.old, q.snap, q.delta} \subseteq Int
  /\ q.seen \subseteq committed
  /\ q.todo \in Seq(Txns)
  /\ DOMAIN q.writes \subseteq Txns
  /\ q.writes \in [DOMAIN q.writes -> RowType({"live", "deleted", "purged"})]
  /\ q.lock \in {"none", "keyshare", "nokey", "update"}

RequestsTypeOK ==
  /\ row \in [Txns -> RowType({"absent", "live", "deleted", "purged"})]
  /\ open \in BOOLEAN
  /\ balance \in Int
  /\ \A r \in Reqs : RequestTypeOK(req[r]) /\ met[r] \subseteq Reqs \ {r}
  /\ applied \subseteq committed
  /\ audited \subseteq committed
  /\ committed \subseteq Reqs

Posts(r) == r \in committed /\ req[r].op \in Posting /\ req[r].delta # 0

\* A committed posting is in the balance, or was overwritten by another posting
\* that was in progress at the same time: one that loaded the account before
\* and committed after it.  No failure, deadlock, split or join loses one.
OnlyOverlapLosesPostings ==
  \A r \in Reqs : Posts(r) =>
    \/ r \in applied
    \/ \E q \in met[r] : Posts(q) /\ r \notin req[q].seen

\* A live part without its live parent was inserted by a split that overlapped
\* the deletion of the parent, or ...
StrandedPartsNeedOverlap ==
  \A c \in Txns : row[c].st = "live" /\ row[c].parent # NoTxn =>
    \/ row[row[c].parent].st = "live"
    \/ \E r \in committed : \E q \in committed \cap met[r] :
         /\ req[r].op = "delete" /\ req[q].op = "split"
         /\ req[r].tgt = row[c].parent /\ req[q].tgt = row[c].parent

\* Nobody brings back a row: deleted rows stay deleted, purged rows purged, and
\* no row ever changes its parent, whatever stale copy a session holds.
RowsOnlyGoForward ==
  [][\A t \in Txns :
       /\ row[t].st # "absent" => row'[t].st # "absent" /\ row'[t].parent = row[t].parent
       /\ row[t].st = "deleted" => row'[t].st # "live"
       /\ row[t].st = "purged" => row'[t] = row[t]]_vars

\* Once a deletion of the account has committed, its balance is frozen, and so
\* are its rows other than parts, also for requests that found it open.
ClosedAccountIsFrozen ==
  [][~ open => /\ ~ open'
               /\ balance' = balance
               /\ \A t \in Txns : row'[t].parent = NoTxn => row'[t] = row[t]]_vars

\* Requests deadlock only in two ways: creations, which share a lock on the
\* account before each wants it alone, and walks through the parts of the same
\* row, when the order of the parts is not fixed by their amounts or an update
\* changed it meanwhile.
DeadlocksExplained ==
  LET stuck == {r \in Reqs : InCycle(r)}
      walkers(t) == {r \in stuck : req[r].op \in {"delete", "join"} /\ req[r].tgt = t}
      wanted(t) == UNION {RowsWanted(r) : r \in walkers(t)}
  IN \A r \in stuck :
       \/ req[r].op = "create" /\ \E q \in stuck \ {r} : req[q].op = "create"
       \/ /\ r \in walkers(req[r].tgt)
          /\ \/ \E c, d \in wanted(req[r].tgt) : c # d /\ row[c].amt = row[d].amt
             \/ \E q \in walkers(req[r].tgt) : \E u \in met[q] : req[u].op = "update"

\* Every request that arrives is answered.
EveryRequestAnswered ==
  \A r \in Reqs : Active(r) ~> req[r].pc = "done"

-----------------------------------------------------------------------------
(* What the documentation says, and overlap breaks                         *)

\* get_for_update is documented to make balance updates atomic: the balance has
\* every committed posting.
NoPostingLost == \A r \in Reqs : Posts(r) => r \in applied

\* Deleting a parent is documented to delete all of its parts.
DeletedParentHasNoParts ==
  \A c \in Txns : row[c].st = "live" /\ row[c].parent # NoTxn => row[row[c].parent].st = "live"

-----------------------------------------------------------------------------
(* The abstract specification                                              *)

Ledger == INSTANCE Ledger WITH
  Users <- {Owner}, Accounts <- {Acc}, NoUser <- NoTxn, Admins <- {},
  Openings <- {0}, NoAccount <- NoTxn,
  account <- [a \in {Acc} |-> [st |-> IF open THEN "live" ELSE "deleted", owner |-> Owner]],
  share <- [a \in {Acc} |-> [u \in {Owner} |-> "owner"]],
  txn <- [t \in Txns |->
            IF row[t].st = "absent"
            THEN [st |-> "absent", acct |-> NoTxn, amt |-> 0, parent |-> NoTxn, by |-> NoTxn]
            ELSE [st |-> row[t].st, acct |-> Acc, amt |-> row[t].amt,
                  parent |-> row[t].parent, by |-> Owner]],
  opening <- [a \in {Acc} |-> 0],
  balance <- [a \in {Acc} |-> balance],
  partNet <- [a \in {Acc} |-> balance - TopLevelSum(row)]

\* A request that met no other commits a step of module Ledger, balance and rows
\* included, or changes nothing that Ledger sees, whatever was lost before it.
IsolatedRequestsFollowLedger ==
  [][\A r \in committed' \ committed : met[r] = {} => [Ledger!Next]_(Ledger!vars)]_vars

=============================================================================
