------------------------------ MODULE Queries ------------------------------
(***************************************************************************)
(* What the services answer when they are asked, in the states of module   *)
(* Ledger: single rows, lists, pages of lists, and the recalculation of a  *)
(* balance.  Nothing here changes anything.                                *)
(*                                                                         *)
(* A filter is [acct, least, most]: the account_id query parameter or      *)
(* NoAccount, and the bounds of the amount.  The other filters narrow a    *)
(* list in the same way and are left out.                                  *)
(***************************************************************************)
EXTENDS Ledger, SequencesExt

CONSTANTS
  Filters,     \* filters a request can carry
  PageSizes    \* page sizes a request can carry, at least 1

ASSUME QueriesAssumption == PageSizes \subseteq Nat \ {0}

-----------------------------------------------------------------------------
(* Transactions                                                            *)

GetTransaction(u, t) == Live(t) /\ Allowed(u, txn[t].acct, "viewer")

\* A row is shown along with the row it is a part of, which is loaded as a
\* relationship: nobody looks at its deletion or asks for permission.
Shown(t) == IF IsPart(t) THEN {t, txn[t].parent} ELSE {t}

\* Fault: the soft-delete filter is forgotten.
MatchingAny(u, f) ==
  {t \in Txns : /\ txn[t].st \in {"live", "deleted"}
                /\ account[txn[t].acct].owner = u
                /\ f.acct \in {NoAccount, txn[t].acct}
                /\ f.least <= txn[t].amt /\ txn[t].amt <= f.most}

\* The rows of the user's own accounts, deleted accounts included.
Matching(u, f) ==
  {t \in Txns : /\ Live(t)
                /\ account[txn[t].acct].owner = u
                /\ f.acct \in {NoAccount, txn[t].acct}
                /\ f.least <= txn[t].amt /\ txn[t].amt <= f.most}

\* The account of the path is asked for its permission and then forgotten.
ListTransactions(u, a, f) == IF Allowed(u, a, "viewer") THEN Matching(u, f) ELSE {}

\* By ascending amount; the second criterion, the row's id, can order equal
\* amounts in any way, but always in the same.
Ordered(rows) ==
  {s \in SetToSeqs(rows) : \A i \in 1 .. Len(s) - 1 : txn[s[i]].amt <= txn[s[i + 1]].amt}

-----------------------------------------------------------------------------
(* Pages                                                                   *)

\* OFFSET and LIMIT.
Page(list, page, size) ==
  LET offset == (page - 1) * size IN
  [i \in 1 .. Min({size, Max({0, Len(list) - offset})}) |-> list[offset + i]]

\* Fault: the last page, if it is not full, is not counted.
TotalPagesFull(total, size) == total \div size

TotalPages(total, size) == IF total > 0 THEN (total + size - 1) \div size ELSE 0
HasNext(total, page, size) == page < TotalPages(total, size)

-----------------------------------------------------------------------------
(* Accounts                                                                *)

GetAccount(u, a) == IsLive(a) /\ Permission(u, a) # NoAccess

\* The user's own live accounts, and none of those shared with the user.
ListAccounts(u) == {a \in Accounts : IsLive(a) /\ account[a].owner = u}

\* The owner sees who has a share, everybody else only their own.
ListShares(u, a) ==
  LET holders == {v \in Users : share[a][v] # NoAccess} IN
  IF Permission(u, a) = NoAccess THEN {}
  ELSE IF Permission(u, a) = "owner" THEN holders
  ELSE {u}

\* Fault: the soft-delete filter is forgotten.
RowSumAny(a) == MapThenSumSet(LAMBDA t : txn[t].amt, {t \in Txns : txn[t].acct = a})

\* calculate_account_balance sums all live rows, the parts of a split along with
\* the row they divide.
RowSum(a) == MapThenSumSet(LAMBDA t : txn[t].amt, {t \in Txns : Live(t) /\ txn[t].acct = a})

Recalculated(a) == opening[a] + RowSum(a)

-----------------------------------------------------------------------------
(* What the answers have to do with each other                             *)

\* Whatever one answer shows, another confirms: a listed account can be got, its
\* owner's share among those listed; a listed row can be got, by the permission
\* on its own account and not the one of the path, also when that account is
\* deleted; and whoever gets a part of a split may get the row it divides.
ShownIsReadable ==
  \A u \in Users :
    /\ \A a \in ListAccounts(u) : GetAccount(u, a) /\ u \in ListShares(u, a)
    /\ \A a \in Accounts, f \in Filters : \A t \in ListTransactions(u, a, f) : GetTransaction(u, t)
    /\ \A t \in Txns : GetTransaction(u, t) => \A p \in Shown(t) : GetTransaction(u, p)

\* Following has_next from the first page shows every row of a list once, in
\* order, and then stops.
PagesCoverLists ==
  \A u \in Users, a \in Accounts, f \in Filters, size \in PageSizes :
    LET rows == ListTransactions(u, a, f)
        total == Cardinality(rows)
        last == CHOOSE n \in 1 .. total + 1 :
                  ~ HasNext(total, n, size) /\ \A k \in 1 .. n - 1 : HasNext(total, k, size)
    IN \A list \in Ordered(rows) :
         FlattenSeq([n \in 1 .. last |-> Page(list, n, size)]) = list

\* recalculate_balance finds the cached balance right as long as the account has
\* never had a split; with one it counts the divided row and its parts.
UnsplitBalanceRight ==
  \A a \in Accounts :
    (\A t \in Txns : txn[t].acct = a => ~ IsPart(t)) => Recalculated(a) = balance[a]

=============================================================================
