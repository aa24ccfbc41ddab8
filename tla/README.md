# A verification of the Emerald backend

Emerald is a personal-finance backend: a FastAPI application over PostgreSQL
(SQLAlchemy, asyncio) in which users keep accounts, share them with other users,
and record transactions that move the accounts' balances. This directory holds
TLA+ models of it, the TLC configurations that check them, and proofs for TLAPS.
Paths below are relative to the repository's `src/` directory.

Every HTTP request gets a database session of its own (`get_db` in
`api/dependencies.py`), hence a transaction of its own. Several server processes
and many coroutines work on the same database, and nothing but the database
coordinates them. So the models have two levels:

* a *ledger* level, where a committed request is one atomic step: what the
  operations promise when requests do not overlap, and who may call them;
* a *request* level, where each SQL statement is a step: reads that go stale
  before they are used, row locks, waits, deadlocks, failures between any two
  statements, and a second transaction for the audit entry.

The request level is shown to implement the ledger level for every request that
meets no other, and to depart from it only in the ways its properties allow. It
comes in three parts, modelled apart: the transactions of one account, the refresh
tokens of one user, and the tables of users, catalogue, accounts, shares and cards.

## Inventory

| component | state | operations that change it | meets other components through |
|---|---|---|---|
| transactions (`services/transaction_service.py`) | `transactions` rows (amount, account, parent, creator, soft deletion) and `accounts.current_balance` | create, update, delete, split, join | permissions, the account row and its lock, the audit log |
| accounts (`services/account_service.py`) | `accounts` rows (owner, opening and current balance, soft deletion, unique names) | create, update, delete; three unused balance repairs | creates the owner's share; types and institutions by reference |
| sharing (same file) | `account_shares` (level, soft deletion, partial unique index) | share, update share, revoke | permissions read it on every request |
| permissions (`services/permission_service.py`) | none | none | reads accounts and shares |
| authentication (`services/auth_service.py`) | `refresh_tokens` (revoked, family, expiry), password, last login | register, login, refresh, logout, change password | users, audit log |
| users (`services/user_service.py`) | `users` (unique email and username, admin flag, soft deletion) | update profile, deactivate, delete | revokes tokens; everything refers to users |
| audit log (`services/audit_service.py`) | `audit_logs`, append only | `log_event`, which commits the session | called by every handler, before or after its own commit |
| session, generic repository (`api/dependencies.py`, `repositories/base.py`) | the session: objects read, pending writes | flush, refresh, commit, rollback | under everything |
| cards, account types, institutions | one table each, with unique keys and soft or hard deletion | create, update, delete | references from accounts and transactions |
| currencies, passwords, JWTs, encryption, routes, middleware, settings, migrations | none that the handlers depend on | none | pure functions, validation, start-up |

What is hard in it, and what makes it correct:

* **Transactions.** The account is read without a lock, with the permission check
  or the row, and locked later by `get_for_update`, which does not load it again:
  the balance is computed from the earlier read. Splitting adds parts beside the
  row they divide, outside the balance; editing or deleting a part goes through
  the balance all the same. Correct means: a balance is moved by exactly the rows
  that move, postings are lost only by overlap, parts never outlive their row
  except by overlap, deleted rows and closed accounts stay as they are, every
  request is answered, and it is known which requests can deadlock.
* **Accounts, sharing, permissions.** Shares outlive a deleted account, the
  creator of a row needs no share to edit it, and the owner appears twice, in a
  column and in a share. Correct means: one owner always, and no level that lets
  anybody post to a closed account.
* **Authentication.** A refresh checks the token and revokes it in two
  statements; a password change, a deactivation and the detection of reuse revoke
  in bulk what their statement sees. Correct means: a token is exchanged twice
  only by overlapping requests, a family forks only then, a bulk revocation misses
  only the tokens of requests it overlapped, and a deactivated user gets nothing.
* **Users, catalogue, accounts, shares, cards.** Every handler checks first and
  writes later, and between the two another request can take the email, remove the
  account type, delete the account or revoke the share that was checked. Unique
  indexes and foreign keys are the second line, but see other rows than the checks:
  deleted users keep their email, deleted cards their account. Users, types and
  institutions leave their tables, with cascades and RESTRICT; the audit log refers
  to the user who acts, also after a commit. Correct means: no key is had twice and
  no reference dangles; a write that comes too late, and an error that nobody asked
  for, need an overlap or one of a short list of reasons; no stale session undoes
  another's work; what is committed is audited; every deadlock is explained.
* **Queries.** Lists are selected by ownership and single rows by permission; pages
  are cut by arithmetic from a count taken separately. Correct means: what one
  answer shows another confirms, and the pages of a list are the list.

`PROJECT.json` lists the hazards line by line, with the properties that cover each
one, or why none does yet.

## Modules

| module | what it models |
|---|---|
| `Access` | accounts, owners, shares, `PermissionService`, and the account and sharing handlers |
| `Ledger` | extends `Access` with the transactions table, the balances and the five transaction handlers, one committed request per step |
| `TransactionRequests` | the transaction handlers and `delete_account` on one account, one statement per step, concurrently; `INSTANCE Ledger` under a refinement mapping |
| `RefreshTokens` | login, refresh, logout, password change and deactivation of one user, one statement per step, concurrently |
| `Queries` | extends `Ledger` with what the services answer: single rows, lists, pages, the recalculated balance |
| `Sessions` | the machinery of a request as a plan of SQL statements: schema, checks, writes, locks, commits, failures |
| `People` | extends `Sessions` with registration and the handlers of `UserService` |
| `Catalogue` | extends `People` with the handlers of account types and financial institutions |
| `Holdings` | extends `Catalogue` with the handlers of accounts, shares and cards |
| `Directory` | extends `Holdings`: all of these concurrently, their properties, and `INSTANCE Access` under a refinement mapping |
| `Ledger_proofs` | theorems about `Ledger`, `Access` and `Queries`, for all values of the constants |
| `TransactionRequests_proofs`, `Overlap_proofs` | theorems about `TransactionRequests`: what one state says of every request, and what the histories of overlapping requests say of each other |
| `RefreshTokens_proofs`, `TokenReuse_proofs` | the same two for `RefreshTokens` |
| `Finite_proofs` | lemmas on finite data, used by the others: sequences that enumerate a set, sums over finite sets, induction over numbers, rings in a relation, and flattened sequences |
| `Sessions_proofs` | lemmas about `Sessions`: what is true of tables, locks, writes and plans, and that no statement makes it false, whatever the plan |
| `Directory_proofs` | theorems about `Directory`, with a lemma on the plan of each handler of `People`, `Catalogue` and `Holdings` |
| `MCLedger`, `MCRequests`, `MCTokens`, `MCDirectory` | model values and bounds |

Definitions whose comment starts with "Fault:" describe plausible bugs. No
specification uses them. Replacing the definition that follows by the fault must
make a property fail; `PROJECT.json` pairs each property with one.

### Correspondence: `Access` and `Ledger`

`account[a]` and `share[a][u]` are the rows of `accounts` and `account_shares`;
the partial unique index on active shares is what makes `share` a function.
`Permission` is the implicit ownership test followed by the share lookup, `Allowed`
the ranking. `txn[t]` is a row of `transactions`; "deleted" is a set `deleted_at`
and "purged" a row that `join_split_transaction` removed. `opening` and `balance`
are the two columns. `partNet` is a history variable: the movements that edits and
deletions of parts made. Each action is one handler with its early returns as
guards. A request that is refused changes nothing and has no step. Amounts are
integers for NUMERIC(15,2), and zero is refused by the services. Names, dates,
texts, cards, currencies, types and institutions decide nothing about this state.

### Correspondence: `TransactionRequests`

`req[r]` is the session of a request: its position `pc`, what it read (`old`,
`snap`), what it still has to do (`todo`), the rows it wrote and so has locked
(`writes`), and its lock on the account row. `seen` and `met` are histories: the
postings contained in the balance it read, and the requests in progress at some
moment of it; `applied` holds the postings that the committed balance contains.

* `Begin` is the first statement of a handler; `LoadAccount` the `selectinload` of
  the account; `CountParts` and `FetchParts` are `has_children` and `get_children`
  (ordered by amount, ties in any order).
* `WritePart`, `WriteRow`, `InsertRow`, `InsertParts`, `LockAccount` and
  `CloseAccount` wait for their locks (`Granted`). An UPDATE by id applies to the
  latest version of the row, deleted or not, and fails only on a row that left the
  table.
* `AfterRefresh`: the flush of a row is followed by a refresh. Whether that reloads
  the account object depends on which relationships the session holds; the model
  allows both outcomes at every refresh.
* `Commit` flushes the balance computed in the session. `create` and `split` then
  write their audit entry in a transaction of their own; the other handlers commit
  with it.
* `Fail` is a crash, a client that goes away or a statement that fails, at any
  point. `BreakDeadlock` is PostgreSQL's deadlock detection. Either rolls back.

The database is external and modelled from the documented behaviour of PostgreSQL
at READ COMMITTED, the level the engine runs at: committed reads, row locks with
their conflict table, the key-share lock of an insert on the referenced account.

### Correspondence: `RefreshTokens`

`token[k]` is a row of `refresh_tokens`: whether it is revoked, its family (named
by its first token), its birth and its stored expiry. `held` are the tokens that
were handed out, the only ones a request can present. `ScanTokens` and
`RevokeNext` are the bulk UPDATE: the snapshot of the rows that match, visited in
any order, each locked and looked at again. There is one user, because every
statement selects by id, family or user. Credentials are right; with wrong ones a
request only reads. The bulk revocations ask their UPDATE for the rows it touched;
that this works is the driver's affair and taken from the integration tests of
password change and token reuse.

### Correspondence: `Queries`

`GetTransaction`, `ListTransactions`, `GetAccount`, `ListAccounts` and `ListShares`
are what the read handlers answer to user `u` in a state of `Ledger`. `Matching` is
`get_user_transactions`: the rows of the user's own accounts, whatever account the
path names. A filter keeps the account and the bounds of the amount; the others
narrow the list in the same way. `Ordered` stands for ORDER BY with the row's id as
second criterion, `Page`, `TotalPages` and `HasNext` for OFFSET, LIMIT and
`PaginationMetadata`. `Recalculated` is `recalculate_balance`.

### Correspondence: `Sessions`, `People`, `Catalogue`, `Holdings`, `Directory`

`db[x]` is a committed row of one of six tables, with its columns and `st`: "absent",
"live", "deleted" (`deleted_at` set) or "gone" (removed from the table). `full_name`,
`label` and `title` stand for the columns that nothing depends on, `title` for those that
are NOT NULL. `Keys` and `Refs` are what
the unique indexes and the foreign keys make of a row, as the migrations leave them;
`Restricted` and `Dependents` are ON DELETE RESTRICT, CASCADE and SET NULL.

`req[r]` is the session of a request: the operation `op`, the acting user `by`, the
row `x` it is about and the columns `want` it asks for; the statements still `todo`;
the rows it has `read` (a session keeps the first version of a row); its uncommitted
`writes`, its `locks`, whether it has `noted` an audit entry; the rows it `wrote` with
earlier commits; its `answer`. `committed` and `audited` are the requests with a
commit and with a committed audit entry; `met` is a history, as above.

* A handler is a plan, a sequence of statements, written in `People`, `Catalogue` and
  `Holdings` in the order of the source, each check with the answer for its failure.
  An endpoint chooses the caller and the body, passes the gate (`get_current_user`,
  `require_admin`) and starts the plan (`Arrive`).
* `Read` executes a check: `Verdict` says what it answers. The checks include the
  code's own peculiarities: a rename that always fails (`exists_by_name` does not take
  the argument it is given), the name of any account that counts as taken, a null
  code that is looked for like any other.
* `Write` waits for its locks (`Granted`), applies to the latest version of the row
  (`Updated` changes the columns that differ from what the session has read), and
  fails with a 500 if it violates a constraint (`Violates`): no handler catches the
  IntegrityError. A body can carry what its column cannot hold (`Storable`): null for a
  NOT NULL column, because every field of an update is optional and null is a value, and
  `Unfit`, what no schema bounds: a sort order, a credit limit or a URL that is too large.
* `CommitWrites` is one action for the three patterns in the code: the audit entry
  commits what the handler wrote (`AuditAndCommit`), or the handler commits and the
  entry follows in a second transaction (`CommitThenAudit`).
* `Fail` and `BreakDeadlock` are as in `TransactionRequests`; `Fail` includes a header that
  the audit entry cannot hold.

Abstractions: a statement takes all its locks at once, except that a DELETE locks its
row first and the rows it cascades to in a step of their own; the two reads of a
permission check are one; an empty body, which changes nothing, is left out; a request that ends without a commit leaves nothing behind, so
that nothing of it is kept; the revocation of tokens that follows a deactivation or a
password change is in `RefreshTokens`. `ViewUser` and `ListUsers` are reads, but write an
audit entry.

## Runs

| run | question | result |
|---|---|---|
| `ledger` | do the operations keep the ledger's promises, whatever the order and whoever the user, and do the answers agree with each other? | passes |
| `requests_two` | is every request that meets no other a step of `Ledger`; are all answered; what can two requests do to each other? | passes |
| `requests_three` | which postings can be lost, who can deadlock, is a closed account frozen, with three requests? | passes |
| `tokens` | what do overlapping logins, refreshes, logouts, password changes and deactivations leave valid? | passes |
| `tokens_reuse` | can a family fork other than by double use, with reuse detection and deadlocks between revocations? | passes |
| `people` | what do overlapping registrations, profile updates, deactivations, removals, openings, closings and sharing do to each other; is each, alone, a step of `Access`; are all answered? | passes |
| `things` | do unique indexes and foreign keys hold the catalogue, accounts and cards together when checks go stale? | passes |
| `ledger_emptied` | is an empty ledger at its opening balance, as `models/transaction.py` says? | violated |
| `lost_update` | does `get_for_update` make balance updates atomic, as it says? | violated |
| `stranded_part` | does deleting a parent cascade to all parts, as `models/transaction.py` says? | violated |
| `single_use` | is a refresh token used once, as `auth_service.py` says? | violated |
| `refresh_expiry` | does a refresh token live for `refresh_token_expire_days`, as its model says? | violated |

### What the properties say

`Ledger`: `OneOwner` (an existing account has exactly one owner share, that of its
owner column); `PartsFollowParent` (a live part has a live parent in the same
account that is no part itself); `BalanceExplained` (the balance is the opening
balance, the live rows that are no parts, and the movements of parts);
`BalanceFollowsRows` (a step moves the balance by what it moves one row, and no
row that is no part without the balance); `DeletedRowsAreFinal`;
`ClosedAccountFrozen`.

`Queries`: `ShownIsReadable` (a listed account or row can be got, by another rule than
the one that listed it, deleted accounts included; a part may be got only together
with its row); `PagesCoverLists` (following `has_next` shows every row of a list once,
in order); `UnsplitBalanceRight` (the recalculated balance is the cached one on
accounts that never had a split, and only promised there).

`TransactionRequests`: `OnlyOverlapLosesPostings` (a committed posting missing from
the balance was overwritten by one that read the balance before and committed
after it, never by a failure, a deadlock or a split);
`StrandedPartsNeedOverlap` (a live part of a deleted row was inserted by a split
that overlapped the deletion); `RowsOnlyGoForward` (no stale session revives a
row); `ClosedAccountIsFrozen` (also for requests that found the account open);
`DeadlocksExplained` (only creations among themselves, and
walks through the parts of one row whose order is not fixed);
`EveryRequestAnswered`; `IsolatedRequestsFollowLedger` (a request that met no other
commits a step of `Ledger`, of whichever operation, or none that `Ledger` sees).

`RefreshTokens`: `ReuseNeedsOverlap`, `ForkNeedsDoubleUse`,
`RevocationMissesOnlyOverlap`, `DeactivatedGetsNothing`.

`Directory`: `KeysUnique` and `ReferencesHold` (the constraints see everything that
matters, cascades included); `LateWritesNeedOverlap` (a commit that needs a deleted
user, account, type or institution overlapped the deletion); `FailuresExplained` (an
internal error without overlap has one of the reasons in `Predictable`: a value that its
column cannot hold, a null in a NOT NULL column above all, the email of a deleted user, a
rename, a null code, a RESTRICT reference, one's own removal);
`OnlyWhatWasAsked` (a row changes only in the columns a committing request named, or by
a cascade, and no deleted row comes back); `WishesComeTrue` (what a committed request
asked for is there, unless it overlapped another writer of the row);
`UnauditedExplained` (only creations and catalogue deletions can be committed without
an entry, and only by a failure or because the acting user was removed in between);
`DeadlocksExplained` (only over the removal of a user one of them acts for);
`OneOwner` (the invariant of `Access`, under overlap); `IsolatedSharingFollowsAccess`
(a request on accounts or shares that met no other commits a step that `Access` allows its
user, of whichever operation; what it asked for is in the properties `WishesComeTrue` and `OnlyWhatWasAsked`);
`EveryRequestAnswered`.

### Bounds

* `ledger`: one account, an owner and one partner who is also an administrator,
  four row identities, amounts 1 and 2, opening balance 0. Four rows are a parent
  with two parts and another row, or a parent split, joined and split again
  without its second part; two users meet as owner, creator, administrator and
  holder of any level. Rows are interchangeable (`RowSymmetry`). Handlers on
  different accounts share no state, and the proofs below have no bounds.
* `requests_two`: a row split in two equal or two different parts, all of which can
  be split, joined, edited and deleted, and four fresh rows, enough for two splits
  in two. Two requests are the smallest overlap; without symmetry, because of the
  liveness property.
* `requests_three`: the same three rows and a fresh one for each request; requests
  carry the amount 1. Three requests are needed for a posting to be overwritten by
  one that a third hides, and for an update to change the order in which two
  deletions walk through the parts. Splits are left to `requests_two`: they take no
  part in the balance.
* `tokens`: three requests, four tokens, a clock up to 3, access tokens that live
  1 and refresh tokens that live 2: both can expire and each can outlive a request.
* `tokens_reuse`: four refreshes, which is what reuse after a fork takes (two
  overlapping exchanges, then two detections that revoke the same two tokens in
  opposite orders); time does not matter and is fixed.

* `people`: two requests, numbered in order of arrival; two administrators, because
  they can remove each other, a user who holds a share, a deleted user whose email and
  username remain, two fresh identities; one account, two fresh ones; the levels editor
  and owner, one that is granted and the one that is refused. Two requests are the
  smallest overlap, and every property speaks of one request and what it met.
* `things`: two requests; an administrator and a user; types, institutions, accounts
  and cards each with one that is referred to, one that is not, or one that is still
  fresh; two databases to start from, with the account live and deleted. Bodies
  carry codes that are free, taken and null, and for every table a value that its column
  cannot hold.

Each request is served once, so every run ends; the runs do not check deadlock for
that reason (in the ledger, the row identities run out). Two requests waiting for
each other are not a TLC deadlock in these models, because the database breaks the
cycle: `DeadlocksExplained` and `EveryRequestAnswered` are about them.

### Fairness

`requests_two` and `people` check liveness. `requests_two` assumes weak fairness of every
request's own next statement (the event loop and the database keep serving a session whose
statement can run), and of the database's deadlock detection, which runs after
`deadlock_timeout`. `people` assumes less: only that, as long as some statement can run or
some deadlock be broken, one of them does; that is enough because plans are finite. Weak fairness is enough for waiting requests because each
request is served once and locks end with the transaction that holds them: a wait
is over for good when its last blocker ends. Nothing is assumed of clients: requests need
not arrive, and failures need not happen.

## Proofs

The theorems hold for every value of the constants that satisfies the named assumptions
of the modules; TLC evaluates the assumptions on every run.

| theorem | statement | module |
|---|---|---|
| `TypeCorrect` | `Spec => []TypeOK` | `Ledger_proofs` |
| `OneOwnerAlways` | `Spec => []OneOwner` | `Ledger_proofs` |
| `PartsAlwaysFollowParent` | `Spec => []PartsFollowParent` | `Ledger_proofs` |
| `DeletedRowsStay` | `Spec => DeletedRowsAreFinal` | `Ledger_proofs` |
| `ClosedAccountsStayFrozen` | `Spec => ClosedAccountFrozen` | `Ledger_proofs` |
| `BalancesFollowRows` | `Spec => BalanceFollowsRows` | `Ledger_proofs` |
| `ShownIsAlwaysReadable` | `Spec => []ShownIsReadable` | `Ledger_proofs` |
| `PagesShowLists` | `Spec => []PagesCoverLists` | `Ledger_proofs` |
| `BalancesAreExplained` | `Spec => []BalanceExplained` | `Ledger_proofs` |
| `UnsplitBalancesAreRight` | `Spec => []UnsplitBalanceRight` | `Ledger_proofs` |
| `RequestsTyped` | `Spec => []RequestsTypeOK` | `TransactionRequests_proofs` |
| `RowsNeverComeBack` | `Spec => RowsOnlyGoForward` | `TransactionRequests_proofs` |
| `ClosingFreezes` | `Spec => ClosedAccountIsFrozen` | `TransactionRequests_proofs` |
| `PostingsLostOnlyByOverlap` | `Spec => []OnlyOverlapLosesPostings` | `Overlap_proofs` |
| `PartsStrandedOnlyByOverlap` | `Spec => []StrandedPartsNeedOverlap` | `Overlap_proofs` |
| `IsolatedRequestsImplementLedger` | `Spec => IsolatedRequestsFollowLedger` | `Overlap_proofs` |
| `DeadlocksAreExplained` | `Spec => []DeadlocksExplained` | `Overlap_proofs` |
| `TokensTyped` | `Spec => []TokensTypeOK` | `RefreshTokens_proofs` |
| `ReuseOnlyByOverlap` | `Spec => []ReuseNeedsOverlap` | `TokenReuse_proofs` |
| `ForksOnlyByDoubleUse` | `Spec => []ForkNeedsDoubleUse` | `TokenReuse_proofs` |
| `NothingAfterDeactivation` | `Spec => []DeactivatedGetsNothing` | `TokenReuse_proofs` |
| `RevocationComplete` | `Spec => RevocationMissesOnlyOverlap` | `TokenReuse_proofs` |
| `DirectoryTyped` | `Spec => []DirectoryTypeOK` | `Directory_proofs` |
| `KeysAlwaysUnique` | `Spec => []KeysUnique` | `Directory_proofs` |
| `ReferencesAlwaysHold` | `Spec => []ReferencesHold` | `Directory_proofs` |
| `CommitsAreAudited` | `Spec => []UnauditedExplained` | `Directory_proofs` |
| `LateWritesOnlyByOverlap` | `Spec => LateWritesNeedOverlap` | `Directory_proofs` |
| `ChangesAreAskedFor` | `Spec => OnlyWhatWasAsked` | `Directory_proofs` |
| `WishesAreGranted` | `Spec => WishesComeTrue` | `Directory_proofs` |
| `OneOwnerUnderOverlap` | `Spec => []OneOwner` | `Directory_proofs` |
| `IsolatedSharingIsAccess` | `Spec => IsolatedSharingFollowsAccess` | `Directory_proofs` |
| `DeadlocksAreOverRemovals` | `Spec => []DeadlocksExplained` | `Directory_proofs` |

### Finite data

Sums, orders and cycles are finite, and the library's induction theorems are of no use to
the installed provers. `Finite_proofs` gets along without them: `CountingUp` says that a *set*
of numbers that holds 0 and, with a number, the next one, holds all (from the least element
of its complement), and a fact about every finite set becomes the set of the sizes for which
it holds. In this way the sum that the models take with a fold of the community modules is shown
to be one function on the subsets of a finite set, which may be summed in any order
(`SumsInAnyOrder`), so that changing what one row says moves the total by as much
(`TotalMoves`); and `FlattenSeq` to be what any function with its recursion gives
(`FlattenedIs`).

The models say that a request waits for itself with sets: it is in every set of requests that
has, with its blockers, their own. That is the transitive closure of `Blocks` without paths,
and so without induction. A `Ring` is what waits for each other. It is one and the same
for all its members (`OneRing`), each has a neighbour in it on either side (`NextInRing`), and
what passes from one who waits to who blocks it holds all the way round (`AllTheWayRound`).

### The ledger level

Assumed: finitely many row identities, amounts that are integers other than zero, and "no user", "no transaction" and "no
account" are distinct from real ones (`NoUserAssumption`, `LedgerAssumption`).
`TypeOK` is inductive, with `AccessStepTyped` for the handlers of accounts and
shares and `PostDeltaTyped` for the movement of a balance. `OneOwner` is inductive
with it: `OwnerCheckFindsOwner` shows that whoever passes an owner check is the
owner of the column, so that the exception "not your own owner share" protects the
only owner share there is. `PartsFollowParent` is inductive with `TypeOK` because
it says of a parent that it is no part itself: a deletion or a join then cannot
take away the parent of a part that it leaves. The action properties follow from
`TypeOK` and two summaries, `RowsAfterPosting` and `RowsAfterRegrouping`, of what
handlers do to rows; `PostingFollowsRow` relates the balance to the row it is
posted for. `ShownIsReadable` joins three of them: `OneOwner` says that the owner by the
column, who is listed the rows, is also the owner by the share, who may get them when the
account is deleted; `PartsFollowParent` that the row shown with a part is in the same
account and live. The missing link is `OwnersAreRecorded`, inductive with `TypeOK`: an
account that is not in the table has no owner, and a live row is in an account.

`BalanceExplained` is inductive with three facts about rows (`BalancesAddUp`): an account
has movements of parts only if it has parts, rows belong to accounts that have been opened, and
a fresh row belongs to none. A new account therefore starts with nothing to add up. A posting
moves the balance and one summand by the same amount, or the balance and `partNet`
(`PostingAddsUp`); a split or a join touches parts only, which are no summands.
`UnsplitBalanceRight` follows: on an account that never had a part, `partNet` is zero and the rows
that count are the rows that are summed up again.

`PagesCoverLists` needs nothing of the state but that a list is finite, and page sizes that are
at least 1 (`QueriesAssumption`). The number of pages, rounded up, times their size is no less than the total
(`PagesAreEnough`), so that there is a first page without a next one and the pages up to it
are enough (`LastPage`); each continues where those before it end (`NextPageShows`), and
put together they are the list (`PagesMakeTheList`, by `FlattenedIs`).

### Transactions under overlap

Assumed (`RequestsAssumption`): finitely many row identities, amounts other than zero, and
a table to start from that is well typed, whose rows have amounts other than zero, and whose
parts belong to a row that is no part, and is live while they are: what earlier requests
leave by `PartsFollowParent`.

A stale read is harmless or not depending on what the request holds when it uses it, so none
of the properties is inductive by itself. `Consistent` is: it says of every request where
its operation can take it (`Path`), which lock on the account it has there (`LockFits`), and
of every row it has written that the row is new, or is the *latest* version of a committed
row, changed as the operation changes it (`RowFits`); and of every two requests that they
have no written row in common and no conflicting locks (`LocksExclusive`). The locks keep the second
part true when somebody else commits. Each statement has a lemma that shows the state it
leaves its request in (`Fits`, lemmas `...Becomes`), and `MoveKeepsConsistent` and
`CommitKeeps` show that this is enough. `RowsOnlyGoForward` is then read off `RowFits` at a
commit, and `ClosedAccountIsFrozen` off the locks: whoever holds the account's lock found it
open, and deletion of the account excludes them.

`Histories` (in `Overlap_proofs`) adds what the requests know of each other. Requests in
progress together have met (`MeetingsKnown`). A posting not in the balance has been
overwritten (`PostingsKept`); a posting not in the balance that a request has *loaded* has been
overwritten or has met that request (`PostingsSeen`), which is what makes the first survive
that request's commit. A deletion that has asked for the parts of its row has all of them in its
list or among its writes, or has met the split that made them (`PartsSeen`), and a split whose
row was deleted has met the deletion (`SplitsSeen`); with these, `StrandedPartsNeedOverlap`
is inductive.

`IsolatedRequestsFollowLedger` is the refinement of `Ledger`, one of its steps for a whole
handler. Of a request that has met no other, `Undisturbed` says at every statement how far it
has come *relative to what is committed*: what it read is the row and the balance of now
(`ReadCurrent`), what it inserted, updated or removed is what its operation makes of them, a
split has one part for each amount, a join has each part among its writes or its list. It is
inductive (`Solitary`) because a commit of anybody else in between would mean that the two
have met. At the commit, the tables before and after are those of the operation of `Ledger`
(`CreateCommits` and its like). The sum of the rows moves with the row (`TopLevelStays`,
`RowReplaced`); nothing is assumed of the balance it started from, which other requests may
have left wrong.

`DeadlocksExplained` is about whole rings of requests. Whoever blocks another has written
a row it wants or holds a lock on the account (`BlockedBy`). Only one place has a request
hold a lock on the account and wait: a creation between its insert and `get_for_update`. If
anybody in a ring waits for the account, the ring is therefore all creations (`RingOfCreations`). The others are deletions and joins at the parts of a row
(`RingAtParts`), and of the same row all the way round (`RingOfOneRow`), because a part has one
parent. Each walks from larger amounts to smaller ones, so that what it has written is not
smaller than what it still wants, unless it met an update (`Walks`, inductive because only an
update changes an amount, and its commit is met by the walker). Round a ring that met
none, the amounts wanted are therefore equal (`RingIsLevel`), and, since locks are exclusive,
those of two neighbours are two parts.

### Tokens under overlap

Assumed (`TokensAssumption`): finitely many tokens, lifetimes that are natural numbers.
`Consistent` in `RefreshTokens_proofs` has the same form as above: what each request can be
about to do, that the tokens it has written are the latest versions, revoked, or a new one, and
that no two requests have a token or the user's row locked. `Histories` in
`TokenReuse_proofs` adds: nobody who had committed when a request arrived had used the token
it exchanges, or is going to exchange (`FirstUse`), or had deactivated the user, if it gets a
token (`FoundLive`); a bulk revocation that has taken its snapshot has every good token of
its scope in its list or among its writes, or has met the maker of the token
(`NoneOverlooked`); and two tokens of a family that nobody has exchanged are there only if
two requests that met exchanged the same one (`OneLastToken`). The second and third of these
need to know that requests in progress together have met (`MeetingsKnown`).

### Users, catalogue, accounts, shares and cards under overlap

Assumed: the identities of the six tables are distinct, and NULL is none of them
(`SessionsAssumption`); the tables to start from are what their constraints allow
(`DirectoryAssumption`), with the owner of each account recorded in a live share of level
owner, and in no other (`OwnersAssumption`); the bodies of updates name columns that the schemas have, and
institutions and types where a foreign key wants them, and levels are those of the column's
type (`PeopleAssumption`, `CatalogueAssumption`, `HoldingsAssumption`).

Neither `KeysUnique` nor `ReferencesHold` is inductive: whether a commit keeps them depends
on what the writer's statements were checked against, and on what others have written and
not committed. `Consistent` says

* of every plan, by `PlanFits`, what may follow what: a handler updates one row, or removes
  one with what depends on it, or inserts one or two new ones. Each of the plans has a lemma
  (`...Serves`), put together from the lemmas on checks, writes and endings;
* of every request, that a row it has written is new, to it and to everybody (`FreshToAll`),
  or is in the table and locked by it, in the mode that a removal needs if it removes it, and
  that it holds a key-share lock on each row it has come to refer to (`WritesFit`);
* of every two requests, that their locks do not conflict, that they have written no row in
  common, and that neither brings in a key that the other has, brings in or gives up (`Apart`);
* of the tables *as each request would leave them*, that keys are unique (`UniqueSeen`) and
  references hold (`ReferencesSeen`), except for the references to a row whose dependents are
  about to be removed by the statement that comes next.

`Granted` and `Violates` together establish these when a statement is executed (`WriteKeeps`):
what another has written and not committed is excluded by its locks, what is committed by the
check. When another request commits, its locks show that nothing changes under this one that
it has come to rely on (`CommitKeeps`): a referred row is key-share locked and cannot be
removed, a removed row is locked in the mode that no reference can be added to, and
`RemovedNotReferred` joins the two. Rows that refer to a removed row are removed with it
(`DependentsOrRestricted`), and a cascade locks what it removes.

The other theorems need to know what a request was asked, and whom it has met. The
lemmas `...Serves` say of each plan that its statements are about the row and the columns of
the request, that it looks for every row that the request needs, and how it ends. `Traced`
keeps these true of what is *left* of the plan, on top of `Consistent`:

* `RestServes`: a row that the request needs and is no longer live is still to be looked for,
  or was written by a request that it met. At the commit nothing is left to be looked for:
  `LateWritesNeedOverlap`;
* `WritesAsked`: what is written is what was asked for, or depends on what is removed; locks
  keep the row as it was when the UPDATE was made from it. At the commit this is
  `OnlyWhatWasAsked`;
* `EndsAudited`: a request that has not committed has an entry before its last commit, or
  has written it; one that has committed has an entry to write, no locks and nothing
  unwritten, so that it can be in no deadlock (`CommittedNotInCycle`), and violate no
  constraint but the entry's reference to the acting user. `ByKnown`: that user is in the
  table unless removed by a request that it met. What remains is `UnauditedExplained`;
* `AllMet`: requests in progress together have met, so that whoever commits under a request
  is among those it has met (`BystanderTraces`).

`WishesComeTrue` also needs what the session has read, because an UPDATE is made from it.
`Wished` says of a request whose row nobody it met has written that the copy in its session,
if there is one, is the row (`CopiesHold`); that the plan reads the row before it changes or
removes it (`LooksFirst`), so that the UPDATE names every column in which the row differs
from what was asked, and the removal finds a row; and that each column asked for is already
as the request will leave it, or the statement for it is still to come (`Attains`). At the
commit nothing is to come.

`OneOwner` compares two tables that no constraint of the database ties together: the owner
column of an account and the shares of level owner. By the unique key of shares and the
foreign keys it is `OwnersRecorded` (`RecordedIsOne`). `Owned` keeps that, on top of
`Traced`, by what every request in progress is still going to do:

* an account comes with a share of level owner for its owner, and a share of level owner only
  with its account, unless the plan holds a refusal that cannot be passed (`Paired`, over the
  rows inserted already and the ones to come);
* no update names the owner of an account, or the account or user of a share
  (`UpdatesKeep`);
* who changes a share has asked for permission on the account the share is then checked
  against, in that order, and once both checks are passed the share is not one of level owner:
  the acting user owns the account (`KnownOwner`, by `OwnerKnown`), so that the share, if it
  were the owner's, would be the acting user's own, which is refused (`ShareNotOwners`).
  Both facts outlive the reads, since no other request may change an owner or promote a share,
  and that is why the checks need no lock (`Minds`);
* what a cascade removes goes with a row that is gone by then (`Removes`), so that an owner's
  share among the writes is there with its account or its user, removed too (`Leaves`).

A commit could only leave an account without its owner's share by removing the share with the
user, and the account then refers to a user who is gone, which `ReferencesHold` excludes
(`CommitRecords`).

`IsolatedSharingFollowsAccess` is the refinement of `Access`, one step for a whole handler.
`Grounded` carries the handler's checks to its commit: of a request on accounts or shares
that has met no other, it says that it came with one of the five plans (`Grounds`: what is
checked, T, and what is inserted, N), that each check of T is still to be made or *would be
passed now*, and that N is inserted or still to be. It is inductive because a step of anybody
else means that the two have met (`NobodyElse`), and the request's own steps, before the
commit, leave the tables as they are (`PlainStays`). At the commit every check of T holds of
the tables; with `Wished`, for the columns that are asked for, `WritesAsked`, for those that
are not, and `Leaves`, for the shares that stay, the tables before and after are known
(`IsolatedCommit`). The rest is about tables only: by the unique key of shares the level of a
live share is the one that `Access` sees (`SharesOfTables`, `LevelIs`), so that each handler
is its operation there (`...IsAccess`).

`DeadlocksExplained` is, as for transactions, about whole rings. `LocksKnown` says how little
a request can hold while it waits: between the first statement that locks a row and the entry
of the audit log there is at most one more, the cascade of a removal or the share that comes
with a new account; and a handler locks a user's row against references only to remove that
user, unless it is the acting user's own. In a ring everybody waits, and is waited for, at that point
(`RingIsStuck`). A new account is known to nobody and its references are locked in a mode that
only removals conflict with, so nobody in the ring waits for a creation
(`CreationsAreNotWaitedFor`), and nobody is at one. Who waits with the entry waits for
whoever has locked the acting user's row (`EntryWaits`), and so removes that user, because the
other way, by an update of the other's own row, would have two requests hold the same row. A
cascade waits for a row that it removes, and whoever waits for the cascade does so with its entry: its
user is the one removed (`StuckOverRemoval`).

### What is only model-checked

* `EveryRequestAnswered`: liveness under fairness is out of the prover's reach altogether.
* `FailuresExplained` of `Directory`: it is about what a plan has still to check, not about
  what has been written, so that what is proved of writes (`Traced`, `Wished`) does not reach
  it. It needs, for each of the 21 plans, that every key a statement is going to use is looked
  for first or free since the request arrived, and that no type or institution is ever
  soft-deleted: types have no `SoftDeleteMixin`, institutions have one that the service never
  uses (it calls `delete`), but no assumption on `Tables` says so yet. It is next in the plan below.

## What disagrees with the documentation

The five violation runs are disagreements between a comment or docstring and the
code. Four need a precise order of statements or a sequence of legal calls: a lost
balance update, a part that outlives its parent, a balance that does not return to
its opening value, and a refresh token exchanged twice. The fifth is plain: refresh
tokens stop working when the access token issued with them does, because the stored
expiry is the access token's.

Others can be read off one line each, on every execution, and have no run of their own;
the models follow the code:

* `delete_user` and `delete_institution` are documented as soft deletions and remove the
  row; `delete_card` is documented to set `card_id` to NULL in transactions, and does not
  touch them.
* Renaming an account always fails with a 500: `exists_by_name` does not take `exclude_id`.
* A user's own deletion of their own row, and every deletion of an institution that has
  accounts, is a 500 instead of a refusal.
* The list of an account's transactions asks for a permission on the account in the path
  and then lists by ownership: a viewer, for whom the documentation says the permission
  is enough, sees nothing.

## Not modelled, and why

* Pure functions: currencies (a constant), hashing, JWT signatures, encryption, the
  validation and formatting of bodies.
* Middleware, logging and rate limiting keep no state the services use; start-up and the
  execution of migrations come before the program serves requests.
* Code without a caller, which cannot interleave with anything: `update_balance`,
  `verify_and_fix_balance`, `get_balance_at_date`, `delete_expired_tokens` (so that the
  table of refresh tokens only grows).
* The contents of the audit log and its queries; the other filters and sort criteria of
  lists; that a count and its page are two statements.
* NUMERIC(15,2) overflow is a failing statement, that is, `Fail`.

## Plan

Done, in this order: `Access` and `Ledger` (the core: what balances and splits
promise, and who may touch them), `TransactionRequests` (the same under overlap,
refining `Ledger`), `RefreshTokens`, `Ledger_proofs`, then `Sessions` with `People`,
`Catalogue`, `Holdings` and `Directory` (the other tables under overlap, refining
`Access`) and `Queries`.

Then the proofs about `RefreshTokens`, `TransactionRequests`, `Queries` and `Directory`.

Next:

1. The proof of what else `Directory` promises, `FailuresExplained`, from `Traced`, `Wished`
   and what `Grounded` says of checks, for all the operations.
2. The composition of deactivation in `People` with the tokens of `RefreshTokens`, and of
   cards and accounts that disappear with the transactions of `TransactionRequests`.

The modules to be proved about declare no recursive operator and bind their
assumptions to names; sums are folds of the community modules, and cycles are
stated with sets, so that both can be reasoned about.
