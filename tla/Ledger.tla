------------------------------- MODULE Ledger -------------------------------
(***************************************************************************)
(* Transactions and balances as TransactionService leaves them, one        *)
(* committed request per step, over the permissions of module Access.      *)
(* Requests here do not overlap: what overlap does to them is the subject  *)
(* of module TransactionRequests.                                          *)
(*                                                                         *)
(* A row of the transactions table is                                      *)
(*   st      "absent" (not inserted), "live", "deleted" (deleted_at set)   *)
(*           or "purged" (removed from the table by a join)                *)
(*   acct, amt, parent, by   account_id, amount, parent_transaction_id     *)
(*           and created_by.                                               *)
(* Dates, texts, review status, currency and card decide none of the       *)
(* state below and are left out; an update that changes only those is a    *)
(* stuttering step.                                                        *)
(***************************************************************************)
EXTENDS Access, FiniteSetsExt, Functions

CONSTANTS
  Admins,     \* users with is_admin set
  Txns,       \* identities a transaction row can take
  Amounts,    \* amounts a request can carry
  Openings,   \* opening balances a request can carry
  NoTxn,      \* parent of a row that is not a part of a split
  NoAccount   \* account of a row that does not exist yet

ASSUME LedgerAssumption ==
  /\ Admins \subseteq Users
  /\ Amounts \subseteq Int \ {0}
  /\ Openings \subseteq Int
  /\ NoTxn \notin Txns
  /\ IsFiniteSet(Txns)   \* UUIDs
  /\ NoAccount \notin Accounts

VARIABLES
  txn,        \* the transactions table
  opening,    \* accounts.opening_balance
  balance,    \* accounts.current_balance
  partNet     \* history: what edits and deletions of parts did to balance

ledgerVars == <<txn, opening, balance, partNet>>
vars == <<account, share, txn, opening, balance, partNet>>

NoRow == [st |-> "absent", acct |-> NoAccount, amt |-> 0,
          parent |-> NoTxn, by |-> NoUser]

RowStates == {"absent", "live", "deleted", "purged"}

TypeOK ==
  /\ AccessTypeOK
  /\ txn \in [Txns -> [st : RowStates, acct : Accounts \cup {NoAccount}, amt : Int,
                       parent : Txns \cup {NoTxn}, by : Users \cup {NoUser}]]
  /\ opening \in [Accounts -> Int]
  /\ balance \in [Accounts -> Int]
  /\ partNet \in [Accounts -> Int]

Init ==
  /\ AccessInit
  /\ txn = [t \in Txns |-> NoRow]
  /\ opening = [a \in Accounts |-> 0]
  /\ balance = [a \in Accounts |-> 0]
  /\ partNet = [a \in Accounts |-> 0]

-----------------------------------------------------------------------------
(* TransactionRepository                                                   *)

\* get_by_id sees live rows only.
Live(t) == txn[t].st = "live"
IsPart(t) == txn[t].parent # NoTxn

\* Fault: the query for the children forgets the soft-delete filter.
ChildrenUnfiltered(t) == {c \in Txns : txn[c].st \in {"live", "deleted"} /\ txn[c].parent = t}

\* get_children; has_children counts the same rows.
Children(t) == {c \in Txns : Live(c) /\ txn[c].parent = t}

\* Fault: the account is stored as the creator.
RowMisfiled(u, a, m, p) == [st |-> "live", acct |-> a, amt |-> m, parent |-> p, by |-> a]

Row(u, a, m, p) == [st |-> "live", acct |-> a, amt |-> m, parent |-> p, by |-> u]

-----------------------------------------------------------------------------
(* AccountService                                                          *)

\* create_account starts the balance at the opening balance.
OpenAccount(u, a, o) ==
  /\ CreateAccount(u, a)
  /\ opening' = [opening EXCEPT ![a] = o]
  /\ balance' = [balance EXCEPT ![a] = o]
  /\ UNCHANGED <<txn, partNet>>

CloseAccount(u, a) == DeleteAccount(u, a) /\ UNCHANGED ledgerVars

ChangeSharing(u, a, v) == SharingStep(u, a, v) /\ UNCHANGED ledgerVars

-----------------------------------------------------------------------------
(* TransactionService                                                      *)

\* Fault: the account row is locked without the soft-delete filter.
AnyAccountForUpdate(a) == account[a].st # "absent"

\* get_for_update finds live accounts only.  On any other the handler stops
\* with an AttributeError and the request is rolled back.
AccountForUpdate(a) == IsLive(a)

CreateTransaction(u, a, t, m) ==
  /\ Allowed(u, a, "editor")
  /\ IsLive(a)
  /\ txn[t].st = "absent"
  /\ txn' = [txn EXCEPT ![t] = Row(u, a, m, NoTxn)]
  /\ AccountForUpdate(a)
  /\ balance' = [balance EXCEPT ![a] = @ + m]
  /\ UNCHANGED <<accessVars, opening, partNet>>

\* Moves the balance and remembers the movement if the row is a part.
PostDelta(t, d) ==
  LET a == txn[t].acct IN
  /\ AccountForUpdate(a)
  /\ balance' = [balance EXCEPT ![a] = @ + d]
  /\ partNet' = [partNet EXCEPT ![a] = IF IsPart(t) THEN @ + d ELSE @]

\* Fault: the balance is moved by the new amount, not by the difference.
UpdateByNewAmount(u, t, m) ==
  /\ Live(t)
  /\ txn[t].by = u \/ u \in Admins \/ Allowed(u, txn[t].acct, "owner")
  /\ m # txn[t].amt
  /\ txn' = [txn EXCEPT ![t].amt = m]
  /\ PostDelta(t, m)
  /\ UNCHANGED <<accessVars, opening>>

\* update_transaction with a new amount.  A creator needs no permission on the
\* account, and the sum of a split's parts is not looked at.
UpdateTransaction(u, t, m) ==
  /\ Live(t)
  /\ txn[t].by = u \/ u \in Admins \/ Allowed(u, txn[t].acct, "owner")
  /\ m # txn[t].amt
  /\ txn' = [txn EXCEPT ![t].amt = m]
  /\ PostDelta(t, m - txn[t].amt)
  /\ UNCHANGED <<accessVars, opening>>

\* Fault: deleting a parent leaves its parts in place.
DeleteKeepingParts(u, t) ==
  /\ Live(t)
  /\ Allowed(u, txn[t].acct, "owner")
  /\ txn' = [txn EXCEPT ![t].st = "deleted"]
  /\ PostDelta(t, - txn[t].amt)
  /\ UNCHANGED <<accessVars, opening>>

\* Fault: the parts of a deleted parent are taken off the balance too.
DeleteChargingParts(u, t) ==
  LET gone == Children(t) \cup {t} IN
  /\ Live(t)
  /\ Allowed(u, txn[t].acct, "owner")
  /\ txn' = [c \in Txns |-> IF c \in gone THEN [txn[c] EXCEPT !.st = "deleted"] ELSE txn[c]]
  /\ PostDelta(t, - MapThenSumSet(LAMBDA c : txn[c].amt, gone))
  /\ UNCHANGED <<accessVars, opening>>

\* delete_transaction soft-deletes the parts, then the row, and takes the
\* amount of the row, part or not, off the balance.
DeleteTransaction(u, t) ==
  /\ Live(t)
  /\ Allowed(u, txn[t].acct, "owner")
  /\ txn' = [c \in Txns |-> IF c \in Children(t) \cup {t}
                              THEN [txn[c] EXCEPT !.st = "deleted"] ELSE txn[c]]
  /\ PostDelta(t, - txn[t].amt)
  /\ UNCHANGED <<accessVars, opening>>

\* split_transaction.  `amounts` maps the rows to insert to their amounts.
\* Neither the account's deletion nor an earlier split is looked at.
SplitTransaction(u, t, amounts) ==
  /\ Live(t)
  /\ ~ IsPart(t)
  /\ Cardinality(DOMAIN amounts) >= 2
  /\ SumFunction(amounts) = txn[t].amt
  /\ Allowed(u, txn[t].acct, "editor")
  /\ \A c \in DOMAIN amounts : txn[c].st = "absent"
  /\ txn' = [c \in Txns |-> IF c \in DOMAIN amounts
                              THEN Row(u, txn[t].acct, amounts[c], t) ELSE txn[c]]
  /\ UNCHANGED <<accessVars, opening, balance, partNet>>

\* join_split_transaction deletes the parts from the table.
JoinTransaction(u, t) ==
  /\ Live(t)
  /\ Children(t) # {}
  /\ Allowed(u, txn[t].acct, "editor")
  /\ txn' = [c \in Txns |-> IF c \in Children(t)
                              THEN [txn[c] EXCEPT !.st = "purged"] ELSE txn[c]]
  /\ UNCHANGED <<accessVars, opening, balance, partNet>>

-----------------------------------------------------------------------------
AccountStep(u, a) ==
  \/ \E o \in Openings : OpenAccount(u, a, o)
  \/ CloseAccount(u, a)
  \/ \E v \in Users : ChangeSharing(u, a, v)
  \/ \E t \in Txns, m \in Amounts : CreateTransaction(u, a, t, m)

RowStep(u, t) ==
  \/ \E m \in Amounts : UpdateTransaction(u, t, m)
  \/ DeleteTransaction(u, t)
  \/ \E new \in SUBSET Txns : \E amounts \in [new -> Amounts] : SplitTransaction(u, t, amounts)
  \/ JoinTransaction(u, t)

Next ==
  \E u \in Users :
    \/ \E a \in Accounts : AccountStep(u, a)
    \/ \E t \in Txns : RowStep(u, t)

Spec == Init /\ [][Next]_vars

-----------------------------------------------------------------------------
(* What the ledger promises                                                *)

LiveAmount(t) == IF Live(t) THEN txn[t].amt ELSE 0

\* A live part of a split has a live parent that is no part itself, in the
\* same account: deleting, joining, editing and splitting again, in any order
\* and by any of the users of a shared account, strand no part.
PartsFollowParent ==
  \A c \in Txns : Live(c) /\ IsPart(c) =>
    LET p == txn[c].parent IN
    Live(p) /\ ~ IsPart(p) /\ txn[p].acct = txn[c].acct

\* The balance is the opening balance plus the live rows that are no parts,
\* plus what edits and deletions of single parts did to it: nothing else ever
\* moves it, whatever is split, joined, deleted or closed in between.
BalanceExplained ==
  \A a \in Accounts :
    balance[a] = opening[a] + partNet[a]
      + MapThenSumSet(LiveAmount, {t \in Txns : txn[t].acct = a /\ ~ IsPart(t)})

\* The balance of an account moves in a step exactly by what the live amount
\* of one of its rows moves in that step, and whenever the live amount of a
\* row that is no part moves, the balance moves with it, in the same step.
BalanceFollowsRows ==
  [][\A a \in Accounts : account[a].st # "absent" =>
       LET moved(t) == LiveAmount(t)' - LiveAmount(t)
           delta == balance'[a] - balance[a]
           rows == {t \in Txns : txn'[t].acct = a}
       IN /\ delta # 0 => \E t \in rows : delta = moved(t)
          /\ \A t \in rows : txn'[t].parent = NoTxn => moved(t) \in {0, delta}]_vars

\* A row that was deleted, softly or by a join, is never changed, revived or
\* removed again, and it keeps its place in the audit trail.
DeletedRowsAreFinal ==
  [][\A t \in Txns : txn[t].st \in {"deleted", "purged"} => txn'[t] = txn[t]]_vars

\* A deleted account stays deleted and keeps its balance, and none of its rows
\* that is no part is added, changed or deleted any more, although the shares
\* of the account, and with them the permissions, outlive it.
ClosedAccountFrozen ==
  [][\A a \in Accounts : account[a].st = "deleted" =>
       /\ account'[a] = account[a]
       /\ balance'[a] = balance[a]
       /\ \A t \in Txns : txn'[t].acct = a /\ txn'[t].parent = NoTxn => txn'[t] = txn[t]]_vars

\* models/transaction.py gives current_balance as opening_balance plus the sum
\* of the transactions that are not deleted: with none left, it is back at the
\* opening balance.
EmptyLedgerAtOpening ==
  \A a \in Accounts :
    (\A t \in Txns : txn[t].acct = a => ~ Live(t)) => balance[a] = opening[a]

=============================================================================
