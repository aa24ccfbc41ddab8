--------------------------- MODULE Ledger_proofs ---------------------------
(***************************************************************************)
(* Proofs about modules Ledger and Queries, for any users, accounts, rows  *)
(* and amounts.                                                            *)
(***************************************************************************)
EXTENDS Queries, SequenceTheorems, Finite_proofs

(***************************************************************************)
(* The steps of the specification, one disjunct per handler.               *)
(***************************************************************************)
LEMMA StepCases ==
  ASSUME Next
  PROVE  \E u \in Users :
           \/ \E a \in Accounts :
                \/ \E o \in Openings : OpenAccount(u, a, o)
                \/ CloseAccount(u, a)
                \/ \E v \in Users : ChangeSharing(u, a, v)
                \/ \E t \in Txns, m \in Amounts : CreateTransaction(u, a, t, m)
           \/ \E t \in Txns :
                \/ \E m \in Amounts : UpdateTransaction(u, t, m)
                \/ DeleteTransaction(u, t)
                \/ \E new \in SUBSET Txns : \E amounts \in [new -> Amounts] :
                     SplitTransaction(u, t, amounts)
                \/ JoinTransaction(u, t)
BY DEF Next, AccountStep, RowStep

LEMMA InitTypeOK == Init => TypeOK
BY DEF Init, AccessInit, TypeOK, AccessTypeOK, NoRow, RowStates, AccountStates, Levels,
       Grantable, NoAccess

(***************************************************************************)
(* What the account handlers and the sharing handlers leave typed.         *)
(***************************************************************************)
LEMMA AccessStepTyped ==
  ASSUME AccessTypeOK, NEW u \in Users, NEW a \in Accounts,
         \/ CreateAccount(u, a)
         \/ DeleteAccount(u, a)
         \/ \E v \in Users : SharingStep(u, a, v)
  PROVE  AccessTypeOK'
<1>1. CASE CreateAccount(u, a)
  BY <1>1 DEF CreateAccount, AccessTypeOK, AccountStates, Levels, Grantable, NoAccess
<1>2. CASE DeleteAccount(u, a)
  BY <1>2 DEF DeleteAccount, AccessTypeOK, AccountStates
<1>3. ASSUME NEW v \in Users, NEW level \in Levels, ShareAccount(u, a, v, level)
      PROVE  AccessTypeOK'
  BY <1>3 DEF ShareAccount, AccessTypeOK
<1>4. ASSUME NEW v \in Users, NEW level \in Levels, UpdateShare(u, a, v, level)
      PROVE  AccessTypeOK'
  BY <1>4 DEF UpdateShare, AccessTypeOK
<1>5. ASSUME NEW v \in Users, RevokeShare(u, a, v)
      PROVE  AccessTypeOK'
  BY <1>5 DEF RevokeShare, AccessTypeOK
<1> QED
  BY <1>1, <1>2, <1>3, <1>4, <1>5 DEF SharingStep

(***************************************************************************)
(* Moving a balance by an integer keeps the ledger's numbers integers.     *)
(***************************************************************************)
LEMMA PostDeltaTyped ==
  ASSUME TypeOK, NEW t \in Txns, NEW d \in Int, PostDelta(t, d)
  PROVE  /\ balance' \in [Accounts -> Int]
         /\ partNet' \in [Accounts -> Int]
<1> DEFINE a == txn[t].acct
<1>1. balance \in [Accounts -> Int] /\ partNet \in [Accounts -> Int]
  BY DEF TypeOK
<1>2. /\ balance' = [balance EXCEPT ![a] = balance[a] + d]
      /\ partNet' = [partNet EXCEPT ![a] = IF IsPart(t) THEN partNet[a] + d ELSE partNet[a]]
  BY DEF PostDelta
<1> HIDE DEF a
<1>3. CASE a \in Accounts
  BY <1>1, <1>2, <1>3
<1>4. CASE a \notin Accounts
  <2>1. balance' = balance /\ partNet' = partNet
    BY <1>1, <1>2, <1>4
  <2> QED
    BY <1>1, <2>1
<1> QED
  BY <1>3, <1>4

LEMMA NextTypeOK == TypeOK /\ [Next]_vars => TypeOK'
<1> SUFFICES ASSUME TypeOK, [Next]_vars PROVE TypeOK'
  OBVIOUS
<1> USE LedgerAssumption
<1>1. ASSUME NEW u \in Users, NEW a \in Accounts, NEW o \in Openings, OpenAccount(u, a, o)
      PROVE  TypeOK'
  <2>1. AccessTypeOK'
    BY <1>1, AccessStepTyped DEF OpenAccount, TypeOK
  <2> QED
    BY <1>1, <2>1 DEF OpenAccount, TypeOK
<1>2. ASSUME NEW u \in Users, NEW a \in Accounts, CloseAccount(u, a)
      PROVE  TypeOK'
  <2>1. AccessTypeOK'
    BY <1>2, AccessStepTyped DEF CloseAccount, TypeOK
  <2> QED
    BY <1>2, <2>1 DEF CloseAccount, TypeOK, ledgerVars
<1>3. ASSUME NEW u \in Users, NEW a \in Accounts, NEW v \in Users, ChangeSharing(u, a, v)
      PROVE  TypeOK'
  <2>1. AccessTypeOK'
    BY <1>3, AccessStepTyped DEF ChangeSharing, TypeOK
  <2> QED
    BY <1>3, <2>1 DEF ChangeSharing, TypeOK, ledgerVars
<1>4. ASSUME NEW u \in Users, NEW a \in Accounts, NEW t \in Txns, NEW m \in Amounts,
             CreateTransaction(u, a, t, m)
      PROVE  TypeOK'
  BY <1>4 DEF CreateTransaction, Row, TypeOK, AccessTypeOK, accessVars, RowStates
<1>5. ASSUME NEW u \in Users, NEW t \in Txns, NEW m \in Amounts, UpdateTransaction(u, t, m)
      PROVE  TypeOK'
  <2>1. m - txn[t].amt \in Int
    BY DEF TypeOK
  <2>2. balance' \in [Accounts -> Int] /\ partNet' \in [Accounts -> Int]
    BY <1>5, <2>1, PostDeltaTyped DEF UpdateTransaction
  <2> QED
    BY <1>5, <2>2 DEF UpdateTransaction, TypeOK, AccessTypeOK, accessVars
<1>6. ASSUME NEW u \in Users, NEW t \in Txns, DeleteTransaction(u, t)
      PROVE  TypeOK'
  <2>1. - txn[t].amt \in Int
    BY DEF TypeOK
  <2>2. balance' \in [Accounts -> Int] /\ partNet' \in [Accounts -> Int]
    BY <1>6, <2>1, PostDeltaTyped DEF DeleteTransaction
  <2> QED
    BY <1>6, <2>2 DEF DeleteTransaction, TypeOK, AccessTypeOK, accessVars, RowStates
<1>7. ASSUME NEW u \in Users, NEW t \in Txns, NEW new \in SUBSET Txns,
             NEW amounts \in [new -> Amounts], SplitTransaction(u, t, amounts)
      PROVE  TypeOK'
  BY <1>7 DEF SplitTransaction, Row, TypeOK, AccessTypeOK, accessVars, RowStates
<1>8. ASSUME NEW u \in Users, NEW t \in Txns, JoinTransaction(u, t)
      PROVE  TypeOK'
  BY <1>8 DEF JoinTransaction, TypeOK, AccessTypeOK, accessVars, RowStates
<1>9. CASE UNCHANGED vars
  BY <1>9 DEF vars, TypeOK, AccessTypeOK
<1> QED
  BY <1>1, <1>2, <1>3, <1>4, <1>5, <1>6, <1>7, <1>8, <1>9, StepCases

(***************************************************************************)
(* Every reachable state is well typed.                                    *)
(***************************************************************************)
THEOREM TypeCorrect == Spec => []TypeOK
<1>1. Init => TypeOK
  BY InitTypeOK
<1>2. TypeOK /\ [Next]_vars => TypeOK'
  BY NextTypeOK
<1> QED
  BY <1>1, <1>2, PTL DEF Spec

-----------------------------------------------------------------------------
(***************************************************************************)
(* Permissions.  The levels are ordered, and only an owner reaches the     *)
(* highest: whoever passes the owner check of a handler is the owner of    *)
(* the account, live or deleted.                                           *)
(***************************************************************************)
LEMMA OnlyOwnersRankHighest ==
  ASSUME NEW l \in Levels \cup {NoAccess}, Rank[l] >= Rank["owner"]
  PROVE  l = "owner"
BY DEF Rank, Levels, Grantable, NoAccess

LEMMA OwnerCheckFindsOwner ==
  ASSUME AccessTypeOK, OneOwner, NEW u \in Users, NEW a \in Accounts, Allowed(u, a, "owner")
  PROVE  account[a].st # "absent" /\ account[a].owner = u
<1>1. Permission(u, a) \in Levels \cup {NoAccess}
  BY DEF Permission, AccessTypeOK, Levels
<1>2. Permission(u, a) = "owner"
  BY <1>1, OnlyOwnersRankHighest DEF Allowed
<1> QED
  BY <1>2 DEF Permission, IsLive, OneOwner

(***************************************************************************)
(* The account and sharing handlers keep the owner's share where the owner *)
(* column says.                                                            *)
(***************************************************************************)
LEMMA AccessStepOneOwner ==
  ASSUME AccessTypeOK, OneOwner, NEW u \in Users, NEW a \in Accounts,
         \/ CreateAccount(u, a)
         \/ DeleteAccount(u, a)
         \/ \E v \in Users : SharingStep(u, a, v)
  PROVE  OneOwner'
<1>1. CASE CreateAccount(u, a)
  BY <1>1, NoUserAssumption DEF CreateAccount, AccessTypeOK, OneOwner
<1>2. CASE DeleteAccount(u, a)
  BY <1>2 DEF DeleteAccount, AccessTypeOK, OneOwner, IsLive
<1>3. ASSUME NEW v \in Users, NEW level \in Levels, ShareAccount(u, a, v, level)
      PROVE  OneOwner'
  BY <1>3 DEF ShareAccount, AccessTypeOK, OneOwner, NoAccess
<1>4. ASSUME NEW v \in Users, NEW level \in Levels, UpdateShare(u, a, v, level)
      PROVE  OneOwner'
  <2>1. account[a].st # "absent" /\ account[a].owner = u
    BY <1>4, OwnerCheckFindsOwner DEF UpdateShare
  <2>2. share[a][v] # "owner"
    BY <1>4, <2>1 DEF UpdateShare, OneOwner
  <2> QED
    BY <1>4, <2>2 DEF UpdateShare, AccessTypeOK, OneOwner
<1>5. ASSUME NEW v \in Users, RevokeShare(u, a, v)
      PROVE  OneOwner'
  <2>1. account[a].st # "absent" /\ account[a].owner = u
    BY <1>5, OwnerCheckFindsOwner DEF RevokeShare
  <2>2. share[a][v] # "owner"
    BY <1>5, <2>1 DEF RevokeShare, OneOwner
  <2> QED
    BY <1>5, <2>2 DEF RevokeShare, AccessTypeOK, OneOwner, NoAccess
<1> QED
  BY <1>1, <1>2, <1>3, <1>4, <1>5 DEF SharingStep

(***************************************************************************)
(* An account never has a second owner and never loses its first.  With    *)
(* TypeOK the property is inductive as it stands.                          *)
(***************************************************************************)
THEOREM OneOwnerAlways == Spec => []OneOwner
<1>1. Init => OneOwner
  BY NoUserAssumption DEF Init, AccessInit, OneOwner, NoAccess
<1>2. TypeOK /\ OneOwner /\ [Next]_vars => OneOwner'
  <2> SUFFICES ASSUME TypeOK, OneOwner, [Next]_vars PROVE OneOwner'
    OBVIOUS
  <2>1. ASSUME NEW u \in Users, NEW a \in Accounts, NEW o \in Openings, OpenAccount(u, a, o)
        PROVE  OneOwner'
    BY <2>1, AccessStepOneOwner DEF OpenAccount, TypeOK
  <2>2. ASSUME NEW u \in Users, NEW a \in Accounts, CloseAccount(u, a)
        PROVE  OneOwner'
    BY <2>2, AccessStepOneOwner DEF CloseAccount, TypeOK
  <2>3. ASSUME NEW u \in Users, NEW a \in Accounts, NEW v \in Users, ChangeSharing(u, a, v)
        PROVE  OneOwner'
    BY <2>3, AccessStepOneOwner DEF ChangeSharing, TypeOK
  <2>4. ASSUME UNCHANGED accessVars
        PROVE  OneOwner'
    BY <2>4 DEF accessVars, OneOwner
  <2>5. CASE UNCHANGED vars
    BY <2>4, <2>5 DEF vars, accessVars
  <2>6. ASSUME NEW u \in Users, NEW a \in Accounts, NEW t \in Txns, NEW m \in Amounts,
               CreateTransaction(u, a, t, m)
        PROVE  OneOwner'
    BY <2>4, <2>6 DEF CreateTransaction
  <2>7. ASSUME NEW u \in Users, NEW t \in Txns,
               \/ \E m \in Amounts : UpdateTransaction(u, t, m)
               \/ DeleteTransaction(u, t)
               \/ \E new \in SUBSET Txns : \E amounts \in [new -> Amounts] :
                    SplitTransaction(u, t, amounts)
               \/ JoinTransaction(u, t)
        PROVE  OneOwner'
    BY <2>4, <2>7 DEF UpdateTransaction, DeleteTransaction, SplitTransaction, JoinTransaction
  <2> QED
    BY <2>1, <2>2, <2>3, <2>5, <2>6, <2>7, StepCases
<1> QED
  BY <1>1, <1>2, TypeCorrect, PTL DEF Spec

-----------------------------------------------------------------------------
(***************************************************************************)
(* Splits.  PartsFollowParent is inductive with TypeOK: that a parent is   *)
(* no part itself is what makes it so, because a deletion or a join takes  *)
(* away the parts of one row, and these have no parts of their own.        *)
(***************************************************************************)
\* What PartsFollowParent says of one live part.
FollowsParent(c) ==
  LET p == txn[c].parent IN
  Live(p) /\ ~ IsPart(p) /\ txn[p].acct = txn[c].acct

LEMMA PartHasParent ==
  ASSUME TypeOK, PartsFollowParent, NEW c \in Txns, Live(c), IsPart(c)
  PROVE  txn[c].parent \in Txns /\ FollowsParent(c)
BY DEF TypeOK, PartsFollowParent, FollowsParent, IsPart

\* A part that a step leaves alone follows its parent after the step if the
\* step leaves the parent alone too.
LEMMA UntouchedPartFollows ==
  ASSUME TypeOK, PartsFollowParent, NEW c \in Txns, Live(c)', IsPart(c)', txn'[c] = txn[c],
         FollowsParent(c) => txn'[txn[c].parent] = txn[txn[c].parent]
  PROVE  FollowsParent(c)'
<1>1. Live(c) /\ IsPart(c)
  BY DEF Live, IsPart
<1>2. FollowsParent(c)
  BY <1>1, PartHasParent
<1> QED
  BY <1>2 DEF FollowsParent, Live, IsPart

LEMMA AllFollow ==
  ASSUME \A c \in Txns : Live(c)' /\ IsPart(c)' => FollowsParent(c)'
  PROVE  PartsFollowParent'
BY DEF PartsFollowParent, FollowsParent

LEMMA DeleteKeepsPartsWithParent ==
  ASSUME TypeOK, PartsFollowParent, NEW u \in Users, NEW t \in Txns, DeleteTransaction(u, t)
  PROVE  PartsFollowParent'
<1> SUFFICES ASSUME NEW c \in Txns, Live(c)', IsPart(c)' PROVE FollowsParent(c)'
  BY AllFollow
<1>1. c \notin Children(t) \cup {t} /\ txn'[c] = txn[c]
  BY DEF DeleteTransaction, TypeOK, Live
<1>2. Live(c) /\ IsPart(c)
  BY <1>1 DEF Live, IsPart
<1>3. txn[c].parent \in Txns /\ FollowsParent(c)
  BY <1>2, PartHasParent
<1>4. txn[c].parent # t
  BY <1>1, <1>2 DEF Children
<1>5. txn[c].parent \notin Children(t)
  BY <1>3, LedgerAssumption DEF Children, FollowsParent, IsPart
<1>6. txn'[txn[c].parent] = txn[txn[c].parent]
  BY <1>3, <1>4, <1>5 DEF DeleteTransaction
<1> QED
  BY <1>1, <1>6, UntouchedPartFollows

LEMMA JoinKeepsPartsWithParent ==
  ASSUME TypeOK, PartsFollowParent, NEW u \in Users, NEW t \in Txns, JoinTransaction(u, t)
  PROVE  PartsFollowParent'
<1> SUFFICES ASSUME NEW c \in Txns, Live(c)', IsPart(c)' PROVE FollowsParent(c)'
  BY AllFollow
<1>1. txn'[c] = txn[c]
  BY DEF JoinTransaction, TypeOK, Live
<1>2. Live(c) /\ IsPart(c)
  BY <1>1 DEF Live, IsPart
<1>3. txn[c].parent \in Txns /\ FollowsParent(c)
  BY <1>2, PartHasParent
<1>4. txn[c].parent \notin Children(t)
  BY <1>3, LedgerAssumption DEF Children, FollowsParent, IsPart
<1>5. txn'[txn[c].parent] = txn[txn[c].parent]
  BY <1>3, <1>4 DEF JoinTransaction
<1> QED
  BY <1>1, <1>5, UntouchedPartFollows

LEMMA SplitKeepsPartsWithParent ==
  ASSUME TypeOK, PartsFollowParent, NEW u \in Users, NEW t \in Txns,
         NEW new \in SUBSET Txns, NEW amounts \in [new -> Amounts],
         SplitTransaction(u, t, amounts)
  PROVE  PartsFollowParent'
<1> SUFFICES ASSUME NEW c \in Txns, Live(c)', IsPart(c)' PROVE FollowsParent(c)'
  BY AllFollow
<1>1. /\ Live(t) /\ ~ IsPart(t) /\ DOMAIN amounts = new
      /\ \A d \in new : txn[d].st = "absent"
      /\ txn' = [d \in Txns |-> IF d \in new THEN Row(u, txn[t].acct, amounts[d], t)
                                ELSE txn[d]]
  BY DEF SplitTransaction
<1>2. txn'[t] = txn[t]
  BY <1>1 DEF Live
<1>3. CASE c \in new
  <2>1. txn'[c].parent = t /\ txn'[c].acct = txn[t].acct
    BY <1>1, <1>3 DEF Row
  <2> QED
    BY <1>1, <1>2, <2>1 DEF FollowsParent, Live, IsPart
<1>4. CASE c \notin new
  <2>1. txn'[c] = txn[c]
    BY <1>1, <1>4
  <2>2. Live(c) /\ IsPart(c)
    BY <2>1 DEF Live, IsPart
  <2>3. txn[c].parent \in Txns /\ FollowsParent(c)
    BY <2>2, PartHasParent
  <2>4. txn'[txn[c].parent] = txn[txn[c].parent]
    BY <1>1, <2>3 DEF FollowsParent, Live
  <2> QED
    BY <2>1, <2>4, UntouchedPartFollows
<1> QED
  BY <1>3, <1>4

LEMMA CreateKeepsPartsWithParent ==
  ASSUME TypeOK, PartsFollowParent, NEW u \in Users, NEW a \in Accounts, NEW t \in Txns,
         NEW m \in Amounts, CreateTransaction(u, a, t, m)
  PROVE  PartsFollowParent'
<1> SUFFICES ASSUME NEW c \in Txns, Live(c)', IsPart(c)' PROVE FollowsParent(c)'
  BY AllFollow
<1>1. txn[t].st = "absent" /\ txn' = [txn EXCEPT ![t] = Row(u, a, m, NoTxn)]
  BY DEF CreateTransaction
<1>2. c # t /\ txn'[c] = txn[c]
  BY <1>1 DEF IsPart, Row, TypeOK
<1>3. Live(c) /\ IsPart(c)
  BY <1>2 DEF Live, IsPart
<1>4. txn[c].parent \in Txns /\ FollowsParent(c)
  BY <1>3, PartHasParent
<1>5. txn'[txn[c].parent] = txn[txn[c].parent]
  BY <1>1, <1>4 DEF FollowsParent, Live, TypeOK
<1> QED
  BY <1>2, <1>5, UntouchedPartFollows

(***************************************************************************)
(* No sequence of splits, joins, edits and deletions strands a part.       *)
(***************************************************************************)
THEOREM PartsAlwaysFollowParent == Spec => []PartsFollowParent
<1>1. Init => PartsFollowParent
  BY DEF Init, PartsFollowParent, NoRow, Live
<1>2. TypeOK /\ PartsFollowParent /\ [Next]_vars => PartsFollowParent'
  <2> SUFFICES ASSUME TypeOK, PartsFollowParent, [Next]_vars PROVE PartsFollowParent'
    OBVIOUS
  <2>1. ASSUME UNCHANGED txn
        PROVE  PartsFollowParent'
    BY <2>1 DEF PartsFollowParent, Live, IsPart
  <2>2. CASE UNCHANGED vars
    BY <2>1, <2>2 DEF vars
  <2>3. ASSUME NEW u \in Users, NEW a \in Accounts,
               \/ \E o \in Openings : OpenAccount(u, a, o)
               \/ CloseAccount(u, a)
               \/ \E v \in Users : ChangeSharing(u, a, v)
        PROVE  PartsFollowParent'
    BY <2>1, <2>3 DEF OpenAccount, CloseAccount, ChangeSharing, ledgerVars
  <2>4. ASSUME NEW u \in Users, NEW a \in Accounts, NEW t \in Txns, NEW m \in Amounts,
               CreateTransaction(u, a, t, m)
        PROVE  PartsFollowParent'
    BY <2>4, CreateKeepsPartsWithParent
  <2>5. ASSUME NEW u \in Users, NEW t \in Txns, NEW m \in Amounts, UpdateTransaction(u, t, m)
        PROVE  PartsFollowParent'
    <3>1. \A c \in Txns : /\ txn'[c].st = txn[c].st
                          /\ txn'[c].parent = txn[c].parent
                          /\ txn'[c].acct = txn[c].acct
      BY <2>5 DEF UpdateTransaction, TypeOK
    <3>2. \A c \in Txns : Live(c) /\ IsPart(c) => txn[c].parent \in Txns
      BY DEF TypeOK, IsPart
    <3> QED
      BY <3>1, <3>2 DEF PartsFollowParent, Live, IsPart
  <2>6. ASSUME NEW u \in Users, NEW t \in Txns, DeleteTransaction(u, t)
        PROVE  PartsFollowParent'
    BY <2>6, DeleteKeepsPartsWithParent
  <2>7. ASSUME NEW u \in Users, NEW t \in Txns, NEW new \in SUBSET Txns,
               NEW amounts \in [new -> Amounts], SplitTransaction(u, t, amounts)
        PROVE  PartsFollowParent'
    BY <2>7, SplitKeepsPartsWithParent
  <2>8. ASSUME NEW u \in Users, NEW t \in Txns, JoinTransaction(u, t)
        PROVE  PartsFollowParent'
    BY <2>8, JoinKeepsPartsWithParent
  <2> QED
    BY <2>2, <2>3, <2>4, <2>5, <2>6, <2>7, <2>8, StepCases
<1> QED
  BY <1>1, <1>2, TypeCorrect, PTL DEF Spec

-----------------------------------------------------------------------------
(***************************************************************************)
(* What a step does to the rows and the balances, handler by handler.      *)
(***************************************************************************)
LEMMA RowsAfterPosting ==
  ASSUME TypeOK, NEW u \in Users, NEW t \in Txns,
         (\E m \in Amounts : UpdateTransaction(u, t, m)) \/ DeleteTransaction(u, t)
  PROVE  /\ Live(t)
         /\ IsLive(txn[t].acct)
         /\ UNCHANGED account
         /\ \A c \in Txns \ {t} :
              \/ txn'[c] = txn[c]
              \/ Live(c) /\ txn'[c].parent = t
         /\ \A a \in Accounts : a # txn[t].acct => balance'[a] = balance[a]
<1>1. ASSUME NEW m \in Amounts, UpdateTransaction(u, t, m)
      PROVE  /\ \A c \in Txns \ {t} : txn'[c] = txn[c]
             /\ \A a \in Accounts : a # txn[t].acct => balance'[a] = balance[a]
  BY <1>1 DEF UpdateTransaction, PostDelta, TypeOK
<1>2. ASSUME DeleteTransaction(u, t)
      PROVE  /\ \A c \in Txns \ {t} :
                  \/ txn'[c] = txn[c]
                  \/ Live(c) /\ txn'[c].parent = t
             /\ \A a \in Accounts : a # txn[t].acct => balance'[a] = balance[a]
  BY <1>2 DEF DeleteTransaction, PostDelta, TypeOK, Children
<1> QED
  BY <1>1, <1>2 DEF UpdateTransaction, DeleteTransaction, PostDelta, AccountForUpdate, accessVars

LEMMA RowsAfterRegrouping ==
  ASSUME TypeOK, NEW u \in Users, NEW t \in Txns,
         \/ \E new \in SUBSET Txns : \E amounts \in [new -> Amounts] :
              SplitTransaction(u, t, amounts)
         \/ JoinTransaction(u, t)
  PROVE  /\ \A c \in Txns : \/ txn'[c] = txn[c]
                            \/ txn[c].st \in {"absent", "live"} /\ txn'[c].parent = t
         /\ UNCHANGED <<account, balance>>
<1>1. ASSUME NEW new \in SUBSET Txns, NEW amounts \in [new -> Amounts],
             SplitTransaction(u, t, amounts)
      PROVE  \A c \in Txns : \/ txn'[c] = txn[c]
                             \/ txn[c].st = "absent" /\ txn'[c].parent = t
  BY <1>1 DEF SplitTransaction, Row
<1>2. ASSUME JoinTransaction(u, t)
      PROVE  \A c \in Txns : \/ txn'[c] = txn[c]
                             \/ txn[c].st = "live" /\ txn'[c].parent = t
  BY <1>2 DEF JoinTransaction, Children, Live, TypeOK
<1> QED
  BY <1>1, <1>2 DEF SplitTransaction, JoinTransaction, accessVars

(***************************************************************************)
(* A row that was deleted or purged is never touched again.                *)
(***************************************************************************)
THEOREM DeletedRowsStay == Spec => DeletedRowsAreFinal
<1>1. TypeOK /\ [Next]_vars =>
        [\A t \in Txns : txn[t].st \in {"deleted", "purged"} => txn'[t] = txn[t]]_vars
  <2> SUFFICES ASSUME TypeOK, [Next]_vars, NEW t \in Txns, txn[t].st \in {"deleted", "purged"}
               PROVE  txn'[t] = txn[t]
    OBVIOUS
  <2>1. CASE UNCHANGED vars
    BY <2>1 DEF vars
  <2>2. ASSUME NEW u \in Users, NEW a \in Accounts,
               \/ \E o \in Openings : OpenAccount(u, a, o)
               \/ CloseAccount(u, a)
               \/ \E v \in Users : ChangeSharing(u, a, v)
        PROVE  txn'[t] = txn[t]
    BY <2>2 DEF OpenAccount, CloseAccount, ChangeSharing, ledgerVars
  <2>3. ASSUME NEW u \in Users, NEW a \in Accounts, NEW c \in Txns, NEW m \in Amounts,
               CreateTransaction(u, a, c, m)
        PROVE  txn'[t] = txn[t]
    BY <2>3 DEF CreateTransaction, TypeOK
  <2>4. ASSUME NEW u \in Users, NEW c \in Txns,
               (\E m \in Amounts : UpdateTransaction(u, c, m)) \/ DeleteTransaction(u, c)
        PROVE  txn'[t] = txn[t]
    BY <2>4, RowsAfterPosting DEF Live
  <2>5. ASSUME NEW u \in Users, NEW c \in Txns,
               \/ \E new \in SUBSET Txns : \E amounts \in [new -> Amounts] :
                    SplitTransaction(u, c, amounts)
               \/ JoinTransaction(u, c)
        PROVE  txn'[t] = txn[t]
    BY <2>5, RowsAfterRegrouping
  <2> QED
    BY <2>1, <2>2, <2>3, <2>4, <2>5, StepCases
<1> QED
  BY <1>1, TypeCorrect, PTL DEF Spec, DeletedRowsAreFinal

\* ClosedAccountFrozen, for one account in one step.
FrozenStep(a) ==
  account[a].st = "deleted" =>
    /\ account'[a] = account[a]
    /\ balance'[a] = balance[a]
    /\ \A t \in Txns : txn'[t].acct = a /\ txn'[t].parent = NoTxn => txn'[t] = txn[t]

(***************************************************************************)
(* A deleted account is frozen: every handler that posts to it looks it up *)
(* among the live ones, whatever the shares still permit.                  *)
(***************************************************************************)
THEOREM ClosedAccountsStayFrozen == Spec => ClosedAccountFrozen
<1>1. TypeOK /\ [Next]_vars => [\A a \in Accounts : FrozenStep(a)]_vars
  <2> SUFFICES ASSUME TypeOK, [Next]_vars, NEW a \in Accounts, account[a].st = "deleted"
               PROVE  /\ account'[a] = account[a]
                      /\ balance'[a] = balance[a]
                      /\ \A t \in Txns : txn'[t].acct = a /\ txn'[t].parent = NoTxn
                                          => txn'[t] = txn[t]
    BY DEF FrozenStep
  <2> DEFINE Frozen == /\ account'[a] = account[a]
                       /\ balance'[a] = balance[a]
                       /\ \A t \in Txns : txn'[t].acct = a /\ txn'[t].parent = NoTxn
                                           => txn'[t] = txn[t]
  <2>1. CASE UNCHANGED vars
    BY <2>1 DEF vars
  <2>2. ASSUME NEW u \in Users, NEW b \in Accounts, NEW o \in Openings, OpenAccount(u, b, o)
        PROVE  Frozen
    BY <2>2 DEF OpenAccount, CreateAccount, TypeOK, AccessTypeOK
  <2>3. ASSUME NEW u \in Users, NEW b \in Accounts,
               CloseAccount(u, b) \/ \E v \in Users : ChangeSharing(u, b, v)
        PROVE  Frozen
    BY <2>3 DEF CloseAccount, DeleteAccount, IsLive, ChangeSharing, SharingStep, ShareAccount,
                UpdateShare, RevokeShare, ledgerVars, TypeOK, AccessTypeOK
  <2>4. ASSUME NEW u \in Users, NEW b \in Accounts, NEW t \in Txns, NEW m \in Amounts,
               CreateTransaction(u, b, t, m)
        PROVE  Frozen
    BY <2>4 DEF CreateTransaction, IsLive, Row, TypeOK, accessVars
  <2>5. ASSUME NEW u \in Users, NEW t \in Txns,
               (\E m \in Amounts : UpdateTransaction(u, t, m)) \/ DeleteTransaction(u, t)
        PROVE  Frozen
    <3>1. /\ IsLive(txn[t].acct) /\ UNCHANGED account
          /\ \A c \in Txns \ {t} :
               \/ txn'[c] = txn[c]
               \/ Live(c) /\ txn'[c].parent = t
          /\ \A b \in Accounts : b # txn[t].acct => balance'[b] = balance[b]
      BY <2>5, RowsAfterPosting
    <3>2. txn[t].acct # a
      BY <3>1 DEF IsLive
    <3>3. txn'[t].acct = txn[t].acct
      BY <2>5 DEF UpdateTransaction, DeleteTransaction, TypeOK
    <3> QED
      BY <3>1, <3>2, <3>3, LedgerAssumption
  <2>6. ASSUME NEW u \in Users, NEW t \in Txns,
               \/ \E new \in SUBSET Txns : \E amounts \in [new -> Amounts] :
                    SplitTransaction(u, t, amounts)
               \/ JoinTransaction(u, t)
        PROVE  Frozen
    BY <2>6, RowsAfterRegrouping, LedgerAssumption
  <2> QED
    BY <2>1, <2>2, <2>3, <2>4, <2>5, <2>6, StepCases
<1>2. [\A a \in Accounts : FrozenStep(a)]_vars <=>
        [\A a \in Accounts : account[a].st = "deleted" =>
           /\ account'[a] = account[a]
           /\ balance'[a] = balance[a]
           /\ \A t \in Txns : txn'[t].acct = a /\ txn'[t].parent = NoTxn => txn'[t] = txn[t]]_vars
  BY DEF FrozenStep
<1> QED
  BY <1>1, <1>2, TypeCorrect, PTL DEF Spec, ClosedAccountFrozen

(***************************************************************************)
(* The balance moves by what one row moves, and a row that is no part      *)
(* moves the balance.  A posting moves both for the row it is about; the   *)
(* parts that go with a deleted parent move only their rows.               *)
(***************************************************************************)
\* What a step does to the live amount of a row.
Moved(t) == LiveAmount(t)' - LiveAmount(t)

\* BalanceFollowsRows, for one account in one step.
BalanceFollows(a) ==
  LET delta == balance'[a] - balance[a]
      rows == {t \in Txns : txn'[t].acct = a}
  IN /\ delta # 0 => \E t \in rows : delta = Moved(t)
     /\ \A t \in rows : txn'[t].parent = NoTxn => Moved(t) \in {0, delta}

LEMMA StillRow ==
  ASSUME TypeOK, NEW t \in Txns, txn'[t] = txn[t]
  PROVE  Moved(t) = 0
BY DEF Moved, LiveAmount, Live, TypeOK

LEMMA StillBalance ==
  ASSUME TypeOK, NEW a \in Accounts, balance'[a] = balance[a],
         \A t \in Txns : txn'[t].acct = a /\ txn'[t].parent = NoTxn => Moved(t) = 0
  PROVE  BalanceFollows(a)
<1>1. balance'[a] - balance[a] = 0
  BY DEF TypeOK
<1> QED
  BY <1>1 DEF BalanceFollows

LEMMA PostingFollowsRow ==
  ASSUME TypeOK, NEW u \in Users, NEW t \in Txns, NEW d \in Int, Moved(t) = d,
         txn'[t].acct = txn[t].acct, PostDelta(t, d),
         \A c \in Txns \ {t} : txn'[c] = txn[c] \/ txn'[c].parent = t
  PROVE  \A a \in Accounts : BalanceFollows(a)
<1> SUFFICES ASSUME NEW a \in Accounts PROVE BalanceFollows(a)
  OBVIOUS
<1>1. \A c \in Txns \ {t} : txn'[c].parent = NoTxn => Moved(c) = 0
  BY StillRow, LedgerAssumption
<1>2. CASE txn[t].acct = a
  <2>1. balance'[a] - balance[a] = d
    BY <1>2 DEF PostDelta, TypeOK
  <2>2. t \in {c \in Txns : txn'[c].acct = a}
    BY <1>2
  <2> QED
    BY <1>1, <2>1, <2>2 DEF BalanceFollows
<1>3. CASE txn[t].acct # a
  <2>1. balance'[a] = balance[a]
    BY <1>3 DEF PostDelta, TypeOK
  <2> QED
    BY <1>1, <1>3, <2>1, StillBalance
<1> QED
  BY <1>2, <1>3

(***************************************************************************)
(* Every handler keeps the balance in step with the rows: the property     *)
(* BalanceFollowsRows holds of every step.                                 *)
(***************************************************************************)
THEOREM BalancesFollowRows == Spec => BalanceFollowsRows
<1>1. TypeOK /\ [Next]_vars =>
        [\A a \in Accounts : account[a].st # "absent" => BalanceFollows(a)]_vars
  <2> SUFFICES ASSUME TypeOK, [Next]_vars, NEW a \in Accounts, account[a].st # "absent"
               PROVE  BalanceFollows(a)
    OBVIOUS
  <2>1. CASE UNCHANGED vars
    BY <2>1, StillRow, StillBalance DEF vars
  <2>2. ASSUME NEW u \in Users, NEW b \in Accounts, NEW o \in Openings, OpenAccount(u, b, o)
        PROVE  BalanceFollows(a)
    <3>1. balance'[a] = balance[a] /\ txn' = txn
      BY <2>2 DEF OpenAccount, CreateAccount, TypeOK
    <3> QED
      BY <3>1, StillRow, StillBalance
  <2>3. ASSUME NEW u \in Users, NEW b \in Accounts,
               CloseAccount(u, b) \/ \E v \in Users : ChangeSharing(u, b, v)
        PROVE  BalanceFollows(a)
    <3>1. balance' = balance /\ txn' = txn
      BY <2>3 DEF CloseAccount, ChangeSharing, ledgerVars
    <3> QED
      BY <3>1, StillRow, StillBalance
  <2>4. ASSUME NEW u \in Users, NEW b \in Accounts, NEW t \in Txns, NEW m \in Amounts,
               CreateTransaction(u, b, t, m)
        PROVE  BalanceFollows(a)
    <3>1. /\ txn[t].st = "absent"
          /\ txn'[t] = Row(u, b, m, NoTxn)
          /\ \A c \in Txns \ {t} : txn'[c] = txn[c]
          /\ balance' = [balance EXCEPT ![b] = balance[b] + m]
      BY <2>4 DEF CreateTransaction, TypeOK
    <3>2. \A c \in Txns \ {t} : Moved(c) = 0
      BY <3>1, StillRow
    <3>3. Moved(t) = m /\ txn'[t].acct = b /\ m \in Int
      BY <3>1, LedgerAssumption DEF Moved, LiveAmount, Live, Row
    <3>4. CASE a = b
      <4>1. balance'[a] - balance[a] = m
        BY <3>1, <3>3, <3>4 DEF TypeOK
      <4>2. t \in {c \in Txns : txn'[c].acct = a}
        BY <3>3, <3>4
      <4> QED
        BY <3>2, <3>3, <4>1, <4>2 DEF BalanceFollows
    <3>5. CASE a # b
      <4>1. balance'[a] = balance[a]
        BY <3>1, <3>5 DEF TypeOK
      <4> QED
        BY <3>2, <3>3, <3>5, <4>1, StillBalance
    <3> QED
      BY <3>4, <3>5
  <2>5. ASSUME NEW u \in Users, NEW t \in Txns, NEW m \in Amounts, UpdateTransaction(u, t, m)
        PROVE  BalanceFollows(a)
    <3>1. m - txn[t].amt \in Int /\ txn'[t].acct = txn[t].acct
      BY <2>5, LedgerAssumption DEF UpdateTransaction, TypeOK
    <3>2. Moved(t) = m - txn[t].amt
      BY <2>5 DEF UpdateTransaction, Moved, LiveAmount, Live, TypeOK
    <3>3. \A c \in Txns \ {t} : txn'[c] = txn[c]
      BY <2>5 DEF UpdateTransaction, TypeOK
    <3>4. PostDelta(t, m - txn[t].amt)
      BY <2>5 DEF UpdateTransaction
    <3> QED
      BY <3>1, <3>2, <3>3, <3>4, PostingFollowsRow
  <2>6. ASSUME NEW u \in Users, NEW t \in Txns, DeleteTransaction(u, t)
        PROVE  BalanceFollows(a)
    <3>1. - txn[t].amt \in Int /\ txn'[t].acct = txn[t].acct
      BY <2>6 DEF DeleteTransaction, TypeOK
    <3>2. txn'[t].st = "deleted" /\ Live(t)
      BY <2>6 DEF DeleteTransaction, TypeOK
    <3>3. Moved(t) = - txn[t].amt
      BY <3>1, <3>2 DEF Moved, LiveAmount, Live, TypeOK
    <3>4. \A c \in Txns \ {t} : txn'[c] = txn[c] \/ txn'[c].parent = t
      BY <2>6, RowsAfterPosting
    <3>5. PostDelta(t, - txn[t].amt)
      BY <2>6 DEF DeleteTransaction
    <3> QED
      BY <3>1, <3>3, <3>4, <3>5, PostingFollowsRow
  <2>7. ASSUME NEW u \in Users, NEW t \in Txns,
               \/ \E new \in SUBSET Txns : \E amounts \in [new -> Amounts] :
                    SplitTransaction(u, t, amounts)
               \/ JoinTransaction(u, t)
        PROVE  BalanceFollows(a)
    <3>1. balance' = balance
          /\ \A c \in Txns : txn'[c] = txn[c] \/ txn'[c].parent = t
      BY <2>7, RowsAfterRegrouping
    <3>2. \A c \in Txns : txn'[c].parent = NoTxn => Moved(c) = 0
      BY <3>1, StillRow, LedgerAssumption
    <3> QED
      BY <3>1, <3>2, StillBalance
  <2> QED
    BY <2>1, <2>2, <2>3, <2>4, <2>5, <2>6, <2>7, StepCases
<1>2. [\A a \in Accounts : account[a].st # "absent" => BalanceFollows(a)]_vars <=>
        [\A a \in Accounts : account[a].st # "absent" =>
           LET moved(t) == LiveAmount(t)' - LiveAmount(t)
               delta == balance'[a] - balance[a]
               rows == {t \in Txns : txn'[t].acct = a}
           IN /\ delta # 0 => \E t \in rows : delta = moved(t)
              /\ \A t \in rows : txn'[t].parent = NoTxn => moved(t) \in {0, delta}]_vars
  BY DEF BalanceFollows, Moved
<1> QED
  BY <1>1, <1>2, TypeCorrect, PTL DEF Spec, BalanceFollowsRows

-----------------------------------------------------------------------------
(* Queries                                                                 *)

(***************************************************************************)
(* What the answers rest on, beside the invariants of module Ledger: an    *)
(* account that is not in the table has no owner, and a live row is in an  *)
(* account.                                                                *)
(***************************************************************************)
OwnersAreRecorded ==
  /\ \A a \in Accounts : account[a].st = "absent" => account[a].owner = NoUser
  /\ \A t \in Txns : Live(t) => txn[t].acct \in Accounts

LEMMA AccessStepRecordsOwners ==
  ASSUME AccessTypeOK, NEW u \in Users, NEW a \in Accounts,
         \A b \in Accounts : account[b].st = "absent" => account[b].owner = NoUser,
         \/ CreateAccount(u, a)
         \/ DeleteAccount(u, a)
         \/ \E v \in Users : SharingStep(u, a, v)
  PROVE  \A b \in Accounts : (account[b].st = "absent" => account[b].owner = NoUser)'
<1>1. CASE CreateAccount(u, a)
  BY <1>1 DEF CreateAccount, AccessTypeOK
<1>2. CASE DeleteAccount(u, a)
  BY <1>2 DEF DeleteAccount, AccessTypeOK
<1>3. CASE \E v \in Users : SharingStep(u, a, v)
  BY <1>3 DEF SharingStep, ShareAccount, UpdateShare, RevokeShare
<1> QED
  BY <1>1, <1>2, <1>3

(***************************************************************************)
(* A row keeps its account as long as it is in the table, and is put into  *)
(* one that exists.                                                        *)
(***************************************************************************)
LEMMA RowStepKeepsAccounts ==
  ASSUME TypeOK, OwnersAreRecorded, NEW u \in Users, NEW t \in Txns,
         \/ \E m \in Amounts : UpdateTransaction(u, t, m)
         \/ DeleteTransaction(u, t)
         \/ \E new \in SUBSET Txns : \E amounts \in [new -> Amounts] :
              SplitTransaction(u, t, amounts)
         \/ JoinTransaction(u, t)
  PROVE  UNCHANGED account /\ \A c \in Txns : Live(c)' => txn'[c].acct \in Accounts
<1>1. ASSUME NEW m \in Amounts, UpdateTransaction(u, t, m)
      PROVE  \A c \in Txns : Live(c)' => txn'[c].acct \in Accounts
  BY <1>1 DEF UpdateTransaction, TypeOK, OwnersAreRecorded, Live
<1>2. ASSUME DeleteTransaction(u, t)
      PROVE  \A c \in Txns : Live(c)' => txn'[c].acct \in Accounts
  BY <1>2 DEF DeleteTransaction, TypeOK, OwnersAreRecorded, Live
<1>3. ASSUME NEW new \in SUBSET Txns, NEW amounts \in [new -> Amounts],
             SplitTransaction(u, t, amounts)
      PROVE  \A c \in Txns : Live(c)' => txn'[c].acct \in Accounts
  BY <1>3 DEF SplitTransaction, Row, OwnersAreRecorded, Live
<1>4. ASSUME JoinTransaction(u, t)
      PROVE  \A c \in Txns : Live(c)' => txn'[c].acct \in Accounts
  BY <1>4 DEF JoinTransaction, TypeOK, OwnersAreRecorded, Live
<1> QED
  BY <1>1, <1>2, <1>3, <1>4
     DEF UpdateTransaction, DeleteTransaction, SplitTransaction, JoinTransaction, accessVars

LEMMA OwnersStayRecorded == Spec => []OwnersAreRecorded
<1>1. Init => OwnersAreRecorded
  BY DEF Init, AccessInit, OwnersAreRecorded, NoRow, Live
<1>2. TypeOK /\ OwnersAreRecorded /\ [Next]_vars => OwnersAreRecorded'
  <2> SUFFICES ASSUME TypeOK, OwnersAreRecorded, [Next]_vars PROVE OwnersAreRecorded'
    OBVIOUS
  <2>1. CASE UNCHANGED vars
    BY <2>1 DEF vars, OwnersAreRecorded, Live
  <2>2. ASSUME NEW u \in Users, NEW a \in Accounts,
               \/ \E o \in Openings : OpenAccount(u, a, o)
               \/ CloseAccount(u, a)
               \/ \E v \in Users : ChangeSharing(u, a, v)
        PROVE  OwnersAreRecorded'
    <3>1. txn' = txn
      BY <2>2 DEF OpenAccount, CloseAccount, ChangeSharing, ledgerVars
    <3>2. \/ CreateAccount(u, a)
          \/ DeleteAccount(u, a)
          \/ \E v \in Users : SharingStep(u, a, v)
      BY <2>2 DEF OpenAccount, CloseAccount, ChangeSharing
    <3>3. \A b \in Accounts : (account[b].st = "absent" => account[b].owner = NoUser)'
      BY <3>2, AccessStepRecordsOwners DEF TypeOK, OwnersAreRecorded
    <3> QED
      BY <3>1, <3>3 DEF OwnersAreRecorded, Live
  <2>3. ASSUME NEW u \in Users, NEW a \in Accounts, NEW t \in Txns, NEW m \in Amounts,
               CreateTransaction(u, a, t, m)
        PROVE  OwnersAreRecorded'
    BY <2>3 DEF CreateTransaction, Row, TypeOK, accessVars, OwnersAreRecorded, Live
  <2>4. ASSUME NEW u \in Users, NEW t \in Txns,
               \/ \E m \in Amounts : UpdateTransaction(u, t, m)
               \/ DeleteTransaction(u, t)
               \/ \E new \in SUBSET Txns : \E amounts \in [new -> Amounts] :
                    SplitTransaction(u, t, amounts)
               \/ JoinTransaction(u, t)
        PROVE  OwnersAreRecorded'
    BY <2>4, RowStepKeepsAccounts DEF OwnersAreRecorded
  <2> QED
    BY <2>1, <2>2, <2>3, <2>4, StepCases
<1> QED
  BY <1>1, <1>2, TypeCorrect, PTL DEF Spec

-----------------------------------------------------------------------------
(***************************************************************************)
(* The owner of an account, deleted or not, passes every check for it: by  *)
(* the column while it is live, and always by the share.                   *)
(***************************************************************************)
LEMMA OwnerIsAllowed ==
  ASSUME OneOwner, OwnersAreRecorded,
         NEW u \in Users, NEW a \in Accounts, account[a].owner = u
  PROVE  /\ Permission(u, a) = "owner"
         /\ share[a][u] = "owner"
         /\ Allowed(u, a, "viewer")
<1>1. share[a][u] = "owner"
  BY NoUserAssumption DEF OneOwner, OwnersAreRecorded
<1>2. Permission(u, a) = "owner"
  BY <1>1 DEF Permission
<1>3. Rank["owner"] = 3 /\ Rank["viewer"] = 1
  BY DEF Rank, Levels, Grantable, NoAccess
<1> QED
  BY <1>1, <1>2, <1>3 DEF Allowed

(***************************************************************************)
(* Whatever one answer shows, another confirms, in every reachable state.  *)
(***************************************************************************)
THEOREM ShownIsAlwaysReadable == Spec => []ShownIsReadable
<1>1. OneOwner /\ OwnersAreRecorded /\ TypeOK /\ PartsFollowParent => ShownIsReadable
  <2> SUFFICES ASSUME OneOwner, OwnersAreRecorded, TypeOK, PartsFollowParent, NEW u \in Users
               PROVE  /\ \A a \in ListAccounts(u) : GetAccount(u, a) /\ u \in ListShares(u, a)
                      /\ \A a \in Accounts, f \in Filters :
                           \A t \in ListTransactions(u, a, f) : GetTransaction(u, t)
                      /\ \A t \in Txns : GetTransaction(u, t) =>
                           \A p \in Shown(t) : GetTransaction(u, p)
    BY DEF ShownIsReadable
  <2>1. ASSUME NEW a \in ListAccounts(u)
        PROVE  GetAccount(u, a) /\ u \in ListShares(u, a)
    <3>1. a \in Accounts /\ IsLive(a) /\ account[a].owner = u
      BY <2>1 DEF ListAccounts
    <3>2. Permission(u, a) = "owner" /\ share[a][u] = "owner"
      BY <3>1, OwnerIsAllowed
    <3> QED
      BY <3>1, <3>2 DEF GetAccount, ListShares, NoAccess
  <2>2. ASSUME NEW a \in Accounts, NEW f \in Filters, NEW t \in ListTransactions(u, a, f)
        PROVE  GetTransaction(u, t)
    <3>1. t \in Txns /\ Live(t) /\ account[txn[t].acct].owner = u
      BY <2>2 DEF ListTransactions, Matching
    <3>2. txn[t].acct \in Accounts
      BY <3>1 DEF OwnersAreRecorded
    <3>3. Allowed(u, txn[t].acct, "viewer")
      BY <3>1, <3>2, OwnerIsAllowed
    <3> QED
      BY <3>1, <3>3 DEF GetTransaction
  <2>3. ASSUME NEW t \in Txns, GetTransaction(u, t), NEW p \in Shown(t)
        PROVE  GetTransaction(u, p)
    <3>1. CASE p = t
      BY <2>3, <3>1
    <3>2. CASE p # t
      <4>1. IsPart(t) /\ p = txn[t].parent
        BY <2>3, <3>2 DEF Shown
      <4>2. FollowsParent(t)
        BY <2>3, <4>1, PartHasParent DEF GetTransaction
      <4> QED
        BY <2>3, <4>1, <4>2 DEF GetTransaction, FollowsParent
    <3> QED
      BY <3>1, <3>2
  <2> QED
    BY <2>1, <2>2, <2>3
<1> QED
  BY <1>1, OneOwnerAlways, OwnersStayRecorded, TypeCorrect, PartsAlwaysFollowParent, PTL

(***************************************************************************)
(* Pages.                                                                  *)
(***************************************************************************)
LEMMA MinMaxOfTwo ==
  ASSUME NEW a \in Int, NEW b \in Int
  PROVE  /\ Max({a, b}) = IF a <= b THEN b ELSE a
         /\ Min({a, b}) = IF a <= b THEN a ELSE b
<1>1. \E x \in {a, b} : \A y \in {a, b} : x >= y
  OBVIOUS
<1>2. \E x \in {a, b} : \A y \in {a, b} : x <= y
  OBVIOUS
<1>3. Max({a, b}) \in {a, b} /\ \A y \in {a, b} : Max({a, b}) >= y
  BY <1>1 DEF Max
<1>4. Min({a, b}) \in {a, b} /\ \A y \in {a, b} : Min({a, b}) <= y
  BY <1>2 DEF Min
<1> QED BY <1>3, <1>4

\* What a number of pages of a size hold of a list.
Beginning(list, m) == [i \in 1 .. m |-> list[i]]

Shows(list, n, size) == Beginning(list, Min({n * size, Len(list)}))

LEMMA ShowsIs ==
  ASSUME NEW S, NEW list \in Seq(S), NEW n \in Nat, NEW size \in Nat
  PROVE  Shows(list, n, size) = Beginning(list, IF n * size <= Len(list) THEN n * size ELSE Len(list))
<1>1. n * size \in Int /\ Len(list) \in Int
  OBVIOUS
<1>2. Min({n * size, Len(list)}) = IF n * size <= Len(list) THEN n * size ELSE Len(list)
  BY <1>1, MinMaxOfTwo
<1> QED BY <1>2 DEF Shows

Offset(n, size) == (n - 1) * size

Part(list, o, m) == [i \in 1 .. m |-> list[o + i]]

LEMMA PageIs ==
  ASSUME NEW S, NEW list \in Seq(S), NEW n \in Nat \ {0}, NEW size \in Nat \ {0}
  PROVE  LET o == Offset(n, size) IN
         /\ o \in Nat /\ n * size = o + size
         /\ Page(list, n, size) =
              Part(list, o, IF o >= Len(list) THEN 0
                            ELSE IF o + size <= Len(list) THEN size ELSE Len(list) - o)
<1> DEFINE o == Offset(n, size)
<1>1. o \in Nat /\ n * size = o + size /\ Len(list) \in Nat /\ size \in Int
  BY DEF Offset
<1> HIDE DEF o
<1>2. PICK m : m = Max({0, Len(list) - o})
  OBVIOUS
<1>3. m = IF 0 <= Len(list) - o THEN Len(list) - o ELSE 0
  BY <1>1, <1>2, MinMaxOfTwo
<1>4. m \in Int
  BY <1>1, <1>3
<1>5. Min({size, m}) = IF size <= m THEN size ELSE m
  BY <1>1, <1>4, MinMaxOfTwo
<1>6. Page(list, n, size) = [i \in 1 .. Min({size, m}) |-> list[o + i]]
  BY <1>2 DEF Page, Offset, o
<1>7. Min({size, m}) =
        IF o >= Len(list) THEN 0 ELSE IF o + size <= Len(list) THEN size ELSE Len(list) - o
  BY <1>1, <1>3, <1>5
<1> QED BY <1>1, <1>6, <1>7 DEF o, Part

LEMMA NextPageShows ==
  ASSUME NEW S, NEW list \in Seq(S), NEW n \in Nat \ {0}, NEW size \in Nat \ {0}
  PROVE  Shows(list, n, size) = Shows(list, n - 1, size) \o Page(list, n, size)
<1> DEFINE o == Offset(n, size)
           L == Len(list)
           before == Shows(list, n - 1, size)
           page == Page(list, n, size)
           both == Shows(list, n, size)
           c == IF o >= L THEN 0 ELSE IF o + size <= L THEN size ELSE L - o
           b == IF o <= L THEN o ELSE L
<1> HIDE DEF o, b, c, L, before, page, both
<1>1. list \in Seq(S) /\ n \in Nat /\ n \in Nat \ {0} /\ n - 1 \in Nat /\ size \in Nat /\ size \in Nat \ {0}
  OBVIOUS
<1>2. /\ o \in Nat /\ n * size = o + size /\ L \in Nat
      /\ page = [i \in 1 .. c |-> list[o + i]]
  <2>1. /\ Offset(n, size) \in Nat /\ n * size = Offset(n, size) + size
        /\ Page(list, n, size) =
              Part(list, Offset(n, size), IF Offset(n, size) >= Len(list) THEN 0
                            ELSE IF Offset(n, size) + size <= Len(list) THEN size
                            ELSE Len(list) - Offset(n, size))
    BY <1>1, PageIs
  <2>2. Len(list) \in Nat
    BY <1>1
  <2> QED BY <2>1, <2>2 DEF o, c, L, page, Part
<1>3. (n - 1) * size = o
  BY DEF o, Offset
<1>4. before = [i \in 1 .. b |-> list[i]]
  <2>1. before = Beginning(list, IF (n - 1) * size <= L THEN (n - 1) * size ELSE L)
    BY <1>1, ShowsIs DEF before, L
  <2> QED BY <1>3, <2>1 DEF b, Beginning
<1>5. both = [i \in 1 .. IF o + size <= L THEN o + size ELSE L |-> list[i]]
  <2>1. both = Beginning(list, IF n * size <= L THEN n * size ELSE L)
    BY <1>1, ShowsIs DEF both, L
  <2> QED BY <1>2, <2>1 DEF Beginning
<1>6. \A i \in 1 .. L : list[i] \in S
  BY DEF L
<1> USE DEF b, c
<1>7. b \in Nat /\ c \in Nat /\ b + c = IF o + size <= L THEN o + size ELSE L
  BY <1>2
<1>8. before \in Seq(S) /\ Len(before) = b
  <2>1. \A i \in 1 .. b : list[i] \in S
    BY <1>2, <1>6
  <2> HIDE DEF b
  <2> QED BY <1>4, <1>7, <2>1
<1>9. page \in Seq(S) /\ Len(page) = c
  <2>1. \A i \in 1 .. c : list[o + i] \in S
    BY <1>2, <1>6
  <2> HIDE DEF c
  <2> QED BY <1>2, <1>7, <2>1
<1>10. both = [i \in 1 .. b + c |-> list[i]]
  BY <1>5, <1>7
<1>11. \A i \in 1 .. b + c : list[i] = IF i <= b THEN before[i] ELSE page[i - b]
  <2> SUFFICES ASSUME NEW i \in 1 .. b + c PROVE list[i] = IF i <= b THEN before[i] ELSE page[i - b]
    OBVIOUS
  <2>1. CASE i <= b
    <3>1. i \in 1 .. b
      BY <1>7, <2>1
    <3> HIDE DEF b
    <3> QED BY <1>4, <2>1, <3>1
  <2>2. CASE ~ (i <= b)
    <3>1. i - b \in 1 .. c
      BY <1>7, <2>2
    <3>2. b = o /\ o + (i - b) = i
      BY <1>2, <1>7, <3>1
    <3> HIDE DEF b, c
    <3> QED BY <1>2, <2>2, <3>1, <3>2
  <2> QED BY <2>1, <2>2
<1> HIDE DEF b, c
<1>12. before \o page = [i \in 1 .. b + c |-> IF i <= b THEN before[i] ELSE page[i - b]]
  <2>1. before \o page \in Seq(S) /\ Len(before \o page) = b + c
    BY <1>7, <1>8, <1>9, ConcatProperties
  <2>2. \A i \in 1 .. b + c : (before \o page)[i] = IF i <= b THEN before[i] ELSE page[i - b]
    BY <1>7, <1>8, <1>9, ConcatProperties
  <2>3. before \o page = [i \in 1 .. b + c |-> (before \o page)[i]]
    BY <2>1, LenProperties
  <2> QED BY <2>2, <2>3
<1>13. both = before \o page
  BY <1>10, <1>11, <1>12
<1> QED BY <1>13 DEF both, before, page

\* The count of pages is rounded up.
LEMMA PagesAreEnough ==
  ASSUME NEW total \in Nat, NEW size \in Nat \ {0}
  PROVE  LET z == TotalPages(total, size) IN
         z \in Nat /\ z <= total /\ total <= z * size
<1> DEFINE z == TotalPages(total, size)
<1>1. CASE total = 0
  BY <1>1 DEF TotalPages
<1>2. CASE total > 0
  <2> DEFINE m == total + size - 1  d == m \div size  r == m % size
  <2>1. z = d
    BY <1>2 DEF TotalPages
  <2>2. m \in Nat /\ d \in Int /\ r \in 0 .. size - 1 /\ m = size * d + r
    BY <1>2
  <2> HIDE DEF d, r
  <2>3. total <= size * d /\ size * d <= total + size - 1
    BY <2>2
  <2>4. d >= 0
    <3> SUFFICES ASSUME d < 0 PROVE FALSE
      BY <2>2
    <3>1. size * d <= 0
      BY <2>2
    <3> QED BY <1>2, <2>2, <2>3, <3>1
  <2>5. d <= total
    <3> SUFFICES ASSUME d >= total + 1 PROVE FALSE
      BY <2>2
    <3> DEFINE e == d - 1
    <3>1. e \in Nat /\ e >= total /\ size * d = size * e + size
      BY <2>2
    <3>2. size * e >= e
      BY <3>1
    <3>3. size * e \in Int
      BY <3>1
    <3> HIDE DEF e
    <3> QED BY <2>2, <2>3, <3>1, <3>2, <3>3
  <2>6. d * size = size * d
    BY <2>2
  <2> HIDE DEF m
  <2> QED BY <2>1, <2>2, <2>3, <2>4, <2>5, <2>6
<1> QED BY <1>1, <1>2

\* Whoever follows has_next stops, and has been shown the whole list.
LEMMA LastPage ==
  ASSUME NEW total \in Nat, NEW size \in Nat \ {0}
  PROVE  LET last == CHOOSE n \in 1 .. total + 1 :
                       ~ HasNext(total, n, size) /\ \A k \in 1 .. n - 1 : HasNext(total, k, size)
         IN last \in Nat \ {0} /\ total <= last * size
<1> DEFINE z == TotalPages(total, size)
           IsLast(n) == ~ HasNext(total, n, size) /\ \A k \in 1 .. n - 1 : HasNext(total, k, size)
           last == CHOOSE n \in 1 .. total + 1 : IsLast(n)
<1>1. z \in Nat /\ z <= total /\ total <= z * size
  BY PagesAreEnough
<1>2. \A n \in Nat : HasNext(total, n, size) <=> n < z
  BY DEF HasNext
<1> HIDE DEF z
<1>3. \E n \in 1 .. total + 1 : IsLast(n)
  <2> DEFINE n == IF z = 0 THEN 1 ELSE z
  <2>1. n \in 1 .. total + 1 /\ ~ (n < z) /\ \A k \in 1 .. n - 1 : k \in Nat /\ k < z
    BY <1>1
  <2>2. IsLast(n)
    BY <1>2, <2>1
  <2> QED BY <2>1, <2>2
<1>4. last \in 1 .. total + 1 /\ IsLast(last)
  <2> HIDE DEF IsLast
  <2> QED BY <1>3
<1> HIDE DEF last
<1>5. last \in Nat \ {0} /\ z <= last
  BY <1>1, <1>2, <1>4
<1>6. z * size <= last * size
  <2> DEFINE d == last - z
  <2>1. d \in Nat /\ last = z + d
    BY <1>1, <1>5
  <2>2. last * size = z * size + d * size /\ d * size \in Nat /\ z * size \in Nat
    BY <1>1, <2>1
  <2> QED BY <2>2
<1>7. z * size \in Int /\ last * size \in Int
  BY <1>1, <1>5
<1>8. last \in Nat \ {0} /\ total <= last * size
  BY <1>1, <1>5, <1>6, <1>7
<1> QED BY <1>8 DEF last

LEMMA PagesMakeTheList ==
  ASSUME NEW S, NEW list \in Seq(S), NEW n \in Nat \ {0}, NEW size \in Nat \ {0}, Len(list) <= n * size
  PROVE  FlattenSeq([k \in 1 .. n |-> Page(list, k, size)]) = list
<1> DEFINE p == [k \in 1 .. n |-> Page(list, k, size)]
           g == [k \in 1 .. n |-> Shows(list, k, size)]
<1>1. Len(p) = n
  OBVIOUS
<1>2. Shows(list, 1, size) = Page(list, 1, size)
  <2>1. Offset(1, size) = 0 /\ 1 \in Nat \ {0} /\ 1 \in Nat /\ size \in Nat /\ size \in Nat \ {0} /\ list \in Seq(S)
    BY DEF Offset
  <2>2. /\ Page(list, 1, size) = Part(list, Offset(1, size), IF Offset(1, size) >= Len(list) THEN 0
                       ELSE IF Offset(1, size) + size <= Len(list) THEN size
                       ELSE Len(list) - Offset(1, size))
        /\ 1 * size = Offset(1, size) + size
    BY <2>1, PageIs
  <2>3. /\ Page(list, 1, size) = [i \in 1 .. IF 0 >= Len(list) THEN 0
                       ELSE IF 0 + size <= Len(list) THEN size ELSE Len(list) - 0 |-> list[0 + i]]
        /\ 1 * size = size
    BY <2>1, <2>2 DEF Part
  <2>4. Shows(list, 1, size) = Beginning(list, IF 1 * size <= Len(list) THEN 1 * size ELSE Len(list))
    BY <2>1, ShowsIs
  <2> DEFINE m == IF size <= Len(list) THEN size ELSE Len(list)
  <2>5. m = IF 0 >= Len(list) THEN 0 ELSE IF 0 + size <= Len(list) THEN size ELSE Len(list) - 0
    OBVIOUS
  <2>6. \A i \in 1 .. m : 0 + i = i
    OBVIOUS
  <2>7. Page(list, 1, size) = [i \in 1 .. m |-> list[0 + i]]
    BY <2>3, <2>5
  <2>8. Shows(list, 1, size) = [i \in 1 .. m |-> list[i]]
    BY <2>3, <2>4 DEF Beginning
  <2> HIDE DEF m
  <2> QED BY <2>6, <2>7, <2>8
<1>3. \A k \in 1 .. n : k \in Nat \ {0} /\ (k # 1 => k - 1 \in 1 .. n)
  OBVIOUS
<1>4. \A k \in 1 .. n : Shows(list, k, size) = Shows(list, k - 1, size) \o Page(list, k, size)
  BY <1>3, NextPageShows
<1>5. \A k \in 1 .. n : k # 1 => g[k] = g[k - 1] \o p[k]
  BY <1>3, <1>4
<1>6. g[1] = p[1]
  BY <1>2
<1>7. g[n] = Shows(list, n, size)
  OBVIOUS
<1> HIDE DEF g, p
<1>8. Flattening(g, p, n)
  BY <1>5, <1>6 DEF Flattening
<1>9. FlattenSeq(p) = g[n]
  BY <1>1, <1>8, FlattenedIs
<1>10. Shows(list, n, size) = list
  <2>1. n * size \in Int /\ Len(list) \in Nat /\ list = [i \in 1 .. Len(list) |-> list[i]]
    OBVIOUS
  <2>2. (IF n * size <= Len(list) THEN n * size ELSE Len(list)) = Len(list)
    BY <2>1
  <2>3. list \in Seq(S) /\ n \in Nat /\ size \in Nat
    OBVIOUS
  <2>4. Shows(list, n, size) = Beginning(list, IF n * size <= Len(list) THEN n * size ELSE Len(list))
    BY <2>3, ShowsIs
  <2> QED BY <2>1, <2>2, <2>4 DEF Beginning
<1> QED BY <1>7, <1>9, <1>10 DEF p

(***************************************************************************)
(* Whoever asks for pages until the answer has no next one has been shown  *)
(* every row of the list once, in its order, for any list and page size.   *)
(***************************************************************************)
THEOREM PagesShowLists == Spec => []PagesCoverLists
<1>1. PagesCoverLists
  <2> SUFFICES ASSUME NEW u \in Users, NEW a \in Accounts, NEW f \in Filters, NEW size \in PageSizes
               PROVE  LET rows == ListTransactions(u, a, f)
                          total == Cardinality(rows)
                          last == CHOOSE n \in 1 .. total + 1 :
                                    ~ HasNext(total, n, size) /\ \A k \in 1 .. n - 1 : HasNext(total, k, size)
                      IN \A list \in Ordered(rows) :
                           FlattenSeq([n \in 1 .. last |-> Page(list, n, size)]) = list
    BY DEF PagesCoverLists
  <2> DEFINE rows == ListTransactions(u, a, f)
             total == Cardinality(rows)
             last == CHOOSE n \in 1 .. total + 1 :
                       ~ HasNext(total, n, size) /\ \A k \in 1 .. n - 1 : HasNext(total, k, size)
  <2>1. rows \subseteq Txns
    BY DEF ListTransactions, Matching
  <2>2. total \in Nat
    BY <2>1, LedgerAssumption, FS_Subset, FS_CardinalityType
  <2>3. size \in Nat \ {0}
    BY QueriesAssumption
  <2> HIDE DEF total, rows
  <2>4. last \in Nat \ {0} /\ total <= last * size
    BY <2>2, <2>3, LastPage
  <2>5. ASSUME NEW list \in Ordered(rows)
        PROVE  list \in Seq(rows) /\ Len(list) = total
    <3>1. list \in [1 .. total -> rows]
      BY DEF Ordered, SetToSeqs, total
    <3> QED BY <2>2, <3>1
  <2> HIDE DEF last
  <2>6. \A list \in Ordered(rows) : FlattenSeq([n \in 1 .. last |-> Page(list, n, size)]) = list
    BY <2>3, <2>4, <2>5, PagesMakeTheList
  <2> QED BY <2>6 DEF rows, total, last
<1> QED BY <1>1, PTL

-----------------------------------------------------------------------------
(***************************************************************************)
(* Balances.  The rows that are no parts say of the balance of account a   *)
(* what they add up to.                                                    *)
(***************************************************************************)
PostedAmount(a, t) == IF Live(t) /\ ~ IsPart(t) /\ txn[t].acct = a THEN txn[t].amt ELSE 0
Posted(a) == [t \in Txns |-> PostedAmount(a, t)]

\* They are numbers.
LEMMA PostedTyped ==
  ASSUME TypeOK, NEW a
  PROVE  \A t \in Txns : Posted(a)[t] \in Int /\ Posted(a)[t] = PostedAmount(a, t)
BY DEF Posted, PostedAmount, TypeOK

\* The sum of BalanceExplained is a Total.
LEMMA PostedIs ==
  ASSUME TypeOK, NEW a \in Accounts
  PROVE  MapThenSumSet(LiveAmount, {t \in Txns : txn[t].acct = a /\ ~ IsPart(t)})
           = Total(Posted(a), Txns)
<1> DEFINE S == {t \in Txns : txn[t].acct = a /\ ~ IsPart(t)}
           f == Posted(a)
           E(k) == k = [s \in SUBSET S |-> IF s = {} THEN 0
                          ELSE LET x == CHOOSE y \in s : TRUE IN LiveAmount(x) + k[s \ {x}]]
           g == CHOOSE k : E(k)
<1>1. MapThenSumSet(LiveAmount, S) = g[S]
  BY DEF MapThenSumSet, MapThenFoldSet
<1>2. S \in SUBSET Txns /\ IsFiniteSet(S)
  BY FS_Subset, LedgerAssumption
<1>3. \A t \in Txns : f[t] \in Int
  BY PostedTyped
<1>4. \A t \in S : f[t] = LiveAmount(t)
  BY DEF Posted, PostedAmount, LiveAmount
<1>5. \A t \in Txns \ S : f[t] = 0
  BY DEF Posted, PostedAmount
<1> HIDE DEF S, f
<1>6. \A k : E(k) <=> Sums(k, f, S)
  <2>1. \A s \in SUBSET S : s # {} => f[Chosen(s)] = LiveAmount(Chosen(s))
    BY <1>4 DEF Chosen
  <2> QED BY <2>1 DEF Sums, Chosen
<1> HIDE DEF E
<1>7. \E k : E(k)
  BY <1>2, <1>6, SumsExist
<1>8. E(g)
  BY <1>7
<1>9. Sums(g, f, S)
  BY <1>6, <1>8
<1> HIDE DEF g
<1>10. g[S] = Total(f, S)
  BY <1>2, <1>9, TotalIs
<1>11. Total(f, Txns) = Total(f, S)
  BY <1>2, <1>3, <1>5, LedgerAssumption, TotalOfSome
<1> QED BY <1>1, <1>10, <1>11 DEF S, f

\* The balance is explained, as long as the deltas of parts come from parts and
\* rows belong to accounts that have been opened: an account starts with none.
BalancesAddUp ==
  /\ \A a \in Accounts : balance[a] = opening[a] + partNet[a] + Total(Posted(a), Txns)
  /\ \A a \in Accounts : partNet[a] # 0 => \E t \in Txns : txn[t].acct = a /\ IsPart(t)
  /\ \A t \in Txns : txn[t].acct \in Accounts => account[txn[t].acct].st # "absent"
  /\ \A t \in Txns : txn[t].st = "absent" => txn[t].acct \notin Accounts

\* A step that moves what one row says moves the total by as much.
LEMMA PostedMoves ==
  ASSUME TypeOK, TypeOK', NEW a, NEW t \in Txns,
         \A c \in Txns \ {t} : PostedAmount(a, c)' = PostedAmount(a, c)
  PROVE  /\ Total(Posted(a), Txns) \in Int
         /\ Total(Posted(a), Txns)' = Total(Posted(a), Txns) + (PostedAmount(a, t)' - PostedAmount(a, t))
<1> DEFINE f == Posted(a)  g == Posted(a)'
<1>1. \A c \in Txns : f[c] \in Int /\ f[c] = PostedAmount(a, c)
  BY PostedTyped
<1>2. \A c \in Txns : g[c] \in Int /\ g[c] = PostedAmount(a, c)'
  BY DEF Posted, PostedAmount, TypeOK
<1>3. \A c \in Txns \ {t} : f[c] = g[c]
  BY <1>1, <1>2
<1> HIDE DEF f, g
<1>4. Total(f, Txns) \in Int
  BY <1>1, LedgerAssumption, TotalFacts
<1>5. Total(g, Txns) = Total(f, Txns) + (g[t] - f[t])
  BY <1>1, <1>2, <1>3, LedgerAssumption, TotalMoves
<1> QED BY <1>1, <1>2, <1>4, <1>5 DEF f, g

\* And one that moves none leaves it.
LEMMA PostedStays ==
  ASSUME TypeOK, TypeOK', NEW a, \A c \in Txns : PostedAmount(a, c)' = PostedAmount(a, c)
  PROVE  Total(Posted(a), Txns)' = Total(Posted(a), Txns)
<1>1. Posted(a)' = Posted(a)
  BY DEF Posted
<1> QED BY <1>1

\* Requests that move no balance, those that divide and join rows among them.
LEMMA UnmovedAddUp ==
  ASSUME TypeOK, TypeOK', BalancesAddUp, UNCHANGED <<opening, balance, partNet>>,
         \A a \in Accounts : account[a].st # "absent" => account'[a].st # "absent",
         \A t \in Txns : \/ txn'[t] = txn[t]
                         \/ /\ txn'[t].acct = txn[t].acct /\ txn'[t].parent = txn[t].parent
                            /\ IsPart(t) /\ txn'[t].st # "absent"
                         \/ /\ txn[t].st = "absent" /\ txn'[t].parent # NoTxn
                            /\ txn'[t].st = "live" /\ \E p \in Txns : txn'[t].acct = txn[p].acct
  PROVE  BalancesAddUp'
<1>0. \A t \in Txns : txn[t].st = "absent" => txn[t].acct \notin Accounts
  BY DEF BalancesAddUp
<1>1. \A a \in Accounts, t \in Txns : PostedAmount(a, t)' = PostedAmount(a, t)
  BY <1>0 DEF PostedAmount, Live, IsPart
<1>2. \A a \in Accounts : Total(Posted(a), Txns)' = Total(Posted(a), Txns)
  BY <1>1, PostedStays
<1>3. \A a \in Accounts : balance'[a] = opening'[a] + partNet'[a] + Total(Posted(a), Txns)'
  BY <1>2 DEF BalancesAddUp
<1>4. \A a \in Accounts, t \in Txns : txn[t].acct = a /\ IsPart(t) => txn'[t].acct = a /\ IsPart(t)'
  BY <1>0 DEF IsPart
<1>5. \A a \in Accounts : partNet'[a] # 0 => \E t \in Txns : txn'[t].acct = a /\ IsPart(t)'
  BY <1>4 DEF BalancesAddUp
<1>6. \A t \in Txns : txn'[t].acct \in Accounts => account'[txn'[t].acct].st # "absent"
  BY DEF BalancesAddUp
<1>7. \A t \in Txns : txn'[t].st = "absent" => txn'[t].acct \notin Accounts
  BY <1>0
<1> QED BY <1>3, <1>5, <1>6, <1>7 DEF BalancesAddUp

\* A handler that posts the movement of a row.
LEMMA PostingAddsUp ==
  ASSUME TypeOK, TypeOK', BalancesAddUp, UNCHANGED <<account, opening>>,
         NEW t \in Txns, NEW d \in Int, PostDelta(t, d), Live(t),
         txn'[t].acct = txn[t].acct, txn'[t].parent = txn[t].parent, txn'[t].st # "absent",
         LiveAmount(t)' = LiveAmount(t) + d,
         \A c \in Txns \ {t} :
           \/ txn'[c] = txn[c]
           \/ /\ txn'[c].acct = txn[c].acct /\ txn'[c].parent = txn[c].parent
              /\ IsPart(c) /\ txn'[c].st # "absent"
  PROVE  BalancesAddUp'
<1>1. PICK b \in Accounts : b = txn[t].acct
  BY DEF PostDelta, AccountForUpdate, IsLive, BalancesAddUp, TypeOK, Live
<1>2. /\ balance' = [balance EXCEPT ![b] = balance[b] + d]
      /\ partNet' = [partNet EXCEPT ![b] = IF IsPart(t) THEN partNet[b] + d ELSE partNet[b]]
  BY <1>1 DEF PostDelta
<1>3. \A c \in Txns : txn'[c].acct = txn[c].acct /\ IsPart(c)' = IsPart(c)
  BY DEF IsPart
<1>4. \A a, c : c \in Txns \ {t} => PostedAmount(a, c)' = PostedAmount(a, c)
  BY <1>3 DEF PostedAmount, Live, IsPart
<1>5. PostedAmount(b, t)' - PostedAmount(b, t) = IF IsPart(t) THEN 0 ELSE d
  <2>1. LiveAmount(t) \in Int
    BY DEF LiveAmount, TypeOK
  <2>2. CASE IsPart(t)
    <3>1. PostedAmount(b, t)' = 0 /\ PostedAmount(b, t) = 0
      BY <1>1, <1>3, <2>2 DEF PostedAmount
    <3> QED BY <2>2, <3>1
  <2>3. CASE ~ IsPart(t)
    <3>1. PostedAmount(b, t)' = LiveAmount(t)' /\ PostedAmount(b, t) = LiveAmount(t)
      BY <1>1, <1>3, <2>3 DEF PostedAmount, LiveAmount
    <3> QED BY <2>1, <2>3, <3>1
  <2> QED BY <2>2, <2>3
<1>6. \A a \in Accounts \ {b} : \A c \in Txns : PostedAmount(a, c)' = PostedAmount(a, c)
  BY <1>1, <1>3, <1>4 DEF PostedAmount
<1>7. \A a \in Accounts : balance'[a] = opening'[a] + partNet'[a] + Total(Posted(a), Txns)'
  <2> SUFFICES ASSUME NEW a \in Accounts
               PROVE  balance'[a] = opening'[a] + partNet'[a] + Total(Posted(a), Txns)'
    OBVIOUS
  <2>1. balance[a] = opening[a] + partNet[a] + Total(Posted(a), Txns)
    BY DEF BalancesAddUp
  <2>2. balance[a] \in Int /\ opening[a] \in Int /\ partNet[a] \in Int
    BY DEF TypeOK
  <2>3. CASE a = b
    <3>1. /\ Total(Posted(a), Txns) \in Int
          /\ Total(Posted(a), Txns)' = Total(Posted(a), Txns) + (PostedAmount(a, t)' - PostedAmount(a, t))
      BY <1>4, PostedMoves
    <3>2. Total(Posted(a), Txns)' = Total(Posted(a), Txns) + (IF IsPart(t) THEN 0 ELSE d)
      BY <1>5, <2>3, <3>1
    <3>3. /\ balance'[a] = balance[a] + d /\ opening'[a] = opening[a]
          /\ partNet'[a] = IF IsPart(t) THEN partNet[a] + d ELSE partNet[a]
      BY <1>2, <2>3 DEF TypeOK
    <3>4. CASE IsPart(t)
      <4>1. partNet'[a] = partNet[a] + d /\ Total(Posted(a), Txns)' = Total(Posted(a), Txns) + 0
        BY <3>2, <3>3, <3>4
      <4> QED BY <2>1, <2>2, <3>1, <3>3, <4>1
    <3>5. CASE ~ IsPart(t)
      <4>1. partNet'[a] = partNet[a] /\ Total(Posted(a), Txns)' = Total(Posted(a), Txns) + d
        BY <3>2, <3>3, <3>5
      <4> QED BY <2>1, <2>2, <3>1, <3>3, <4>1
    <3> QED BY <3>4, <3>5
  <2>4. CASE a # b
    <3>1. Total(Posted(a), Txns)' = Total(Posted(a), Txns)
      BY <1>6, <2>4, PostedStays
    <3>2. balance'[a] = balance[a] /\ opening'[a] = opening[a] /\ partNet'[a] = partNet[a]
      BY <1>2, <2>4 DEF TypeOK
    <3> QED BY <2>1, <3>1, <3>2
  <2> QED BY <2>3, <2>4
<1>8. \A a \in Accounts : partNet'[a] # 0 => \E c \in Txns : txn'[c].acct = a /\ IsPart(c)'
  <2> SUFFICES ASSUME NEW a \in Accounts, partNet'[a] # 0
               PROVE  \E c \in Txns : txn[c].acct = a /\ IsPart(c)
    BY <1>3
  <2>1. CASE partNet[a] # 0
    BY <2>1 DEF BalancesAddUp
  <2>2. CASE partNet[a] = 0
    <3>1. a = b /\ IsPart(t)
      BY <1>2, <2>2 DEF TypeOK
    <3> QED BY <1>1, <3>1
  <2> QED BY <2>1, <2>2
<1>9. /\ \A c \in Txns : txn'[c].acct \in Accounts => account'[txn'[c].acct].st # "absent"
      /\ \A c \in Txns : txn'[c].st = "absent" => txn'[c].acct \notin Accounts
  BY <1>3 DEF BalancesAddUp
<1> QED BY <1>7, <1>8, <1>9 DEF BalancesAddUp

\* A row that is added.
LEMMA CreationAddsUp ==
  ASSUME TypeOK, TypeOK', BalancesAddUp, NEW u \in Users, NEW b \in Accounts, NEW t \in Txns,
         NEW m \in Amounts, CreateTransaction(u, b, t, m)
  PROVE  BalancesAddUp'
<1>1. /\ txn[t].st = "absent"
      /\ txn'[t] = Row(u, b, m, NoTxn)
      /\ \A c \in Txns \ {t} : txn'[c] = txn[c]
      /\ balance' = [balance EXCEPT ![b] = balance[b] + m]
      /\ UNCHANGED <<account, opening, partNet>>
      /\ account[b].st = "live" /\ m \in Int
  BY LedgerAssumption DEF CreateTransaction, TypeOK, accessVars, IsLive
<1>2. \A a, c : c \in Txns \ {t} => PostedAmount(a, c)' = PostedAmount(a, c)
  BY <1>1 DEF PostedAmount, Live, IsPart
<1>3. \A a : PostedAmount(a, t) = 0 /\ PostedAmount(a, t)' = IF a = b THEN m ELSE 0
  BY <1>1 DEF PostedAmount, Live, IsPart, Row
<1>4. \A a \in Accounts : balance'[a] = opening'[a] + partNet'[a] + Total(Posted(a), Txns)'
  <2> SUFFICES ASSUME NEW a \in Accounts
               PROVE  balance'[a] = opening'[a] + partNet'[a] + Total(Posted(a), Txns)'
    OBVIOUS
  <2>1. balance[a] = opening[a] + partNet[a] + Total(Posted(a), Txns)
    BY DEF BalancesAddUp
  <2>2. balance[a] \in Int /\ opening[a] \in Int /\ partNet[a] \in Int
    BY DEF TypeOK
  <2>3. /\ Total(Posted(a), Txns) \in Int
        /\ Total(Posted(a), Txns)' = Total(Posted(a), Txns) + (PostedAmount(a, t)' - PostedAmount(a, t))
    BY <1>2, PostedMoves
  <2>4. Total(Posted(a), Txns)' = Total(Posted(a), Txns) + (IF a = b THEN m ELSE 0)
    BY <1>1, <1>3, <2>3
  <2>5. /\ balance'[a] = balance[a] + (IF a = b THEN m ELSE 0)
        /\ opening'[a] = opening[a] /\ partNet'[a] = partNet[a]
    BY <1>1, <2>2 DEF TypeOK
  <2> QED BY <1>1, <2>1, <2>2, <2>3, <2>4, <2>5
<1>5. \A a \in Accounts : partNet'[a] # 0 => \E c \in Txns : txn'[c].acct = a /\ IsPart(c)'
  <2>1. \A c \in Txns : txn[c].acct \in Accounts => c # t
    BY <1>1 DEF BalancesAddUp
  <2> QED BY <1>1, <2>1 DEF BalancesAddUp, IsPart
<1>6. /\ \A c \in Txns : txn'[c].acct \in Accounts => account'[txn'[c].acct].st # "absent"
      /\ \A c \in Txns : txn'[c].st = "absent" => txn'[c].acct \notin Accounts
  BY <1>1 DEF BalancesAddUp, Row
<1> QED BY <1>4, <1>5, <1>6 DEF BalancesAddUp

\* An account that is opened.
LEMMA OpeningAddsUp ==
  ASSUME TypeOK, TypeOK', BalancesAddUp, NEW u \in Users, NEW b \in Accounts, NEW o \in Openings,
         OpenAccount(u, b, o)
  PROVE  BalancesAddUp'
<1>1. /\ account[b].st = "absent" /\ account'[b].st = "live"
      /\ \A a \in Accounts \ {b} : account'[a] = account[a]
      /\ balance' = [balance EXCEPT ![b] = o] /\ opening' = [opening EXCEPT ![b] = o]
      /\ UNCHANGED <<txn, partNet>> /\ o \in Int
  BY LedgerAssumption DEF OpenAccount, CreateAccount, TypeOK, AccessTypeOK
<1>2. \A t \in Txns : txn[t].acct # b
  BY <1>1 DEF BalancesAddUp
<1>3. partNet[b] = 0
  BY <1>2 DEF BalancesAddUp
<1>4. Total(Posted(b), Txns) = 0
  <2>1. \A t \in Txns : Posted(b)[t] = 0
    BY <1>2 DEF Posted, PostedAmount
  <2> QED BY <2>1, LedgerAssumption, TotalOfZeros
<1>5. \A a \in Accounts : Total(Posted(a), Txns)' = Total(Posted(a), Txns)
  <2>1. \A a, t : PostedAmount(a, t)' = PostedAmount(a, t)
    BY <1>1 DEF PostedAmount, Live, IsPart
  <2> QED BY <2>1, PostedStays
<1>6. \A a \in Accounts : balance'[a] = opening'[a] + partNet'[a] + Total(Posted(a), Txns)'
  <2> SUFFICES ASSUME NEW a \in Accounts
               PROVE  balance'[a] = opening'[a] + partNet'[a] + Total(Posted(a), Txns)'
    OBVIOUS
  <2>1. CASE a = b
    <3>1. balance'[b] = o /\ opening'[b] = o /\ partNet'[b] = 0 /\ Total(Posted(b), Txns)' = 0
      BY <1>1, <1>3, <1>4, <1>5 DEF TypeOK
    <3> QED BY <1>1, <2>1, <3>1
  <2>2. CASE a # b
    <3>1. balance'[a] = balance[a] /\ opening'[a] = opening[a] /\ partNet'[a] = partNet[a]
      BY <1>1, <2>2 DEF TypeOK
    <3> QED BY <1>5, <3>1 DEF BalancesAddUp
  <2> QED BY <2>1, <2>2
<1>7. /\ \A a \in Accounts : partNet'[a] # 0 => \E c \in Txns : txn'[c].acct = a /\ IsPart(c)'
      /\ \A c \in Txns : txn'[c].acct \in Accounts => account'[txn'[c].acct].st # "absent"
      /\ \A c \in Txns : txn'[c].st = "absent" => txn'[c].acct \notin Accounts
  BY <1>1 DEF BalancesAddUp, IsPart
<1> QED BY <1>6, <1>7 DEF BalancesAddUp

LEMMA BalancesStayExplained == Spec => []BalancesAddUp
<1>1. Init => BalancesAddUp
  <2> SUFFICES ASSUME Init PROVE BalancesAddUp
    OBVIOUS
  <2>1. \A a : \A t \in Txns : Posted(a)[t] = 0
    BY DEF Init, Posted, PostedAmount, Live, NoRow
  <2>2. \A a : Total(Posted(a), Txns) = 0
    BY <2>1, LedgerAssumption, TotalOfZeros
  <2> QED BY <2>2, LedgerAssumption DEF Init, BalancesAddUp, NoRow
<1>2. TypeOK /\ TypeOK' /\ BalancesAddUp /\ [Next]_vars => BalancesAddUp'
  <2> SUFFICES ASSUME TypeOK, TypeOK', BalancesAddUp, [Next]_vars PROVE BalancesAddUp'
    OBVIOUS
  <2>1. CASE UNCHANGED vars
    BY <2>1, UnmovedAddUp DEF vars
  <2>2. ASSUME NEW u \in Users, NEW a \in Accounts, NEW o \in Openings, OpenAccount(u, a, o)
        PROVE  BalancesAddUp'
    BY <2>2, OpeningAddsUp
  <2>3. ASSUME NEW u \in Users, NEW a \in Accounts,
               CloseAccount(u, a) \/ \E v \in Users : ChangeSharing(u, a, v)
        PROVE  BalancesAddUp'
    <3>1. UNCHANGED <<txn, opening, balance, partNet>>
      BY <2>3 DEF CloseAccount, ChangeSharing, ledgerVars
    <3>2. \A b \in Accounts : account[b].st # "absent" => account'[b].st # "absent"
      BY <2>3 DEF CloseAccount, ChangeSharing, DeleteAccount, SharingStep, ShareAccount, UpdateShare,
                  RevokeShare, TypeOK, AccessTypeOK
    <3> QED BY <3>1, <3>2, UnmovedAddUp
  <2>4. ASSUME NEW u \in Users, NEW a \in Accounts, NEW t \in Txns, NEW m \in Amounts,
               CreateTransaction(u, a, t, m)
        PROVE  BalancesAddUp'
    BY <2>4, CreationAddsUp
  <2>5. ASSUME NEW u \in Users, NEW t \in Txns, NEW m \in Amounts, UpdateTransaction(u, t, m)
        PROVE  BalancesAddUp'
    <3>1. /\ Live(t) /\ txn' = [txn EXCEPT ![t].amt = m] /\ PostDelta(t, m - txn[t].amt)
          /\ UNCHANGED <<account, opening>>
      BY <2>5 DEF UpdateTransaction, accessVars
    <3>2. /\ txn'[t].st = "live" /\ txn'[t].amt = m /\ txn'[t].acct = txn[t].acct
          /\ txn'[t].parent = txn[t].parent /\ \A c \in Txns \ {t} : txn'[c] = txn[c]
      BY <3>1 DEF TypeOK, Live
    <3>3. m \in Int /\ txn[t].amt \in Int
      BY LedgerAssumption DEF TypeOK
    <3>4. LiveAmount(t)' = LiveAmount(t) + (m - txn[t].amt)
      BY <3>1, <3>2, <3>3 DEF LiveAmount, Live
    <3> QED BY <3>1, <3>2, <3>3, <3>4, PostingAddsUp
  <2>6. ASSUME NEW u \in Users, NEW t \in Txns, DeleteTransaction(u, t)
        PROVE  BalancesAddUp'
    <3>1. /\ Live(t) /\ PostDelta(t, - txn[t].amt) /\ UNCHANGED <<account, opening>>
          /\ txn' = [c \in Txns |-> IF c \in Children(t) \cup {t}
                              THEN [txn[c] EXCEPT !.st = "deleted"] ELSE txn[c]]
      BY <2>6 DEF DeleteTransaction, accessVars
    <3>2. /\ txn'[t].st = "deleted" /\ txn'[t].acct = txn[t].acct
          /\ txn'[t].parent = txn[t].parent
      BY <3>1 DEF TypeOK
    <3>3. \A c \in Txns \ {t} : \/ txn'[c] = txn[c]
                                \/ /\ txn'[c].acct = txn[c].acct /\ txn'[c].parent = txn[c].parent
                                   /\ IsPart(c) /\ txn'[c].st # "absent"
      BY <3>1, LedgerAssumption DEF TypeOK, Children, IsPart
    <3>4. txn[t].amt \in Int
      BY DEF TypeOK
    <3>5. LiveAmount(t)' = LiveAmount(t) + (- txn[t].amt) /\ - txn[t].amt \in Int
      BY <3>1, <3>2, <3>4 DEF LiveAmount, Live
    <3> QED BY <3>1, <3>2, <3>3, <3>5, PostingAddsUp
  <2>7. ASSUME NEW u \in Users, NEW t \in Txns, NEW new \in SUBSET Txns,
               NEW amounts \in [new -> Amounts], SplitTransaction(u, t, amounts)
        PROVE  BalancesAddUp'
    <3>1. /\ UNCHANGED <<account, opening, balance, partNet>>
          /\ \A c \in Txns : \/ txn'[c] = txn[c]
                             \/ txn[c].st = "absent" /\ txn'[c] = Row(u, txn[t].acct, amounts[c], t)
      BY <2>7 DEF SplitTransaction, accessVars
    <3>2. \A c \in Txns : \/ txn'[c] = txn[c]
                         \/ /\ txn[c].st = "absent" /\ txn'[c].parent # NoTxn
                            /\ txn'[c].st = "live" /\ \E p \in Txns : txn'[c].acct = txn[p].acct
      <4> SUFFICES ASSUME NEW c \in Txns, txn'[c] # txn[c]
                   PROVE  /\ txn[c].st = "absent" /\ txn'[c].parent # NoTxn
                          /\ txn'[c].st = "live" /\ \E p \in Txns : txn'[c].acct = txn[p].acct
        OBVIOUS
      <4>1. txn[c].st = "absent" /\ txn'[c] = Row(u, txn[t].acct, amounts[c], t)
        BY <3>1
      <4>2. txn'[c].st = "live" /\ txn'[c].parent = t /\ txn'[c].acct = txn[t].acct
        BY <4>1 DEF Row
      <4> QED BY <4>1, <4>2, LedgerAssumption
    <3> QED BY <3>1, <3>2, UnmovedAddUp
  <2>8. ASSUME NEW u \in Users, NEW t \in Txns, JoinTransaction(u, t)
        PROVE  BalancesAddUp'
    <3>1. UNCHANGED <<account, opening, balance, partNet>>
      BY <2>8 DEF JoinTransaction, accessVars
    <3>2. \A c \in Txns : \/ txn'[c] = txn[c]
                         \/ /\ txn'[c].acct = txn[c].acct /\ txn'[c].parent = txn[c].parent
                            /\ IsPart(c) /\ txn'[c].st # "absent"
      BY <2>8, LedgerAssumption DEF JoinTransaction, TypeOK, Children, IsPart
    <3> QED BY <3>1, <3>2, UnmovedAddUp
  <2> QED BY <2>1, <2>2, <2>3, <2>4, <2>5, <2>6, <2>7, <2>8, StepCases
<1> QED BY <1>1, <1>2, TypeCorrect, PTL DEF Spec

(***************************************************************************)
(* Whatever is split, joined, edited, deleted or closed, the balance is    *)
(* the opening balance plus the live rows that are no parts, plus what     *)
(* edits and deletions of single parts did to it.                          *)
(***************************************************************************)
THEOREM BalancesAreExplained == Spec => []BalanceExplained
<1>1. TypeOK /\ BalancesAddUp => BalanceExplained
  BY PostedIs DEF BalancesAddUp, BalanceExplained
<1> QED BY <1>1, TypeCorrect, BalancesStayExplained, PTL

\* So is the sum of a recalculation, where there are no parts.
LEMMA RowSumIs ==
  ASSUME TypeOK, NEW a \in Accounts, \A t \in Txns : txn[t].acct = a => ~ IsPart(t)
  PROVE  RowSum(a) = Total(Posted(a), Txns)
<1> DEFINE S == {t \in Txns : Live(t) /\ txn[t].acct = a}
           f == Posted(a)
           E(k) == k = [s \in SUBSET S |-> IF s = {} THEN 0
                          ELSE LET x == CHOOSE y \in s : TRUE IN txn[x].amt + k[s \ {x}]]
           g == CHOOSE k : E(k)
<1>1. RowSum(a) = g[S]
  BY DEF RowSum, MapThenSumSet, MapThenFoldSet
<1>2. S \in SUBSET Txns /\ IsFiniteSet(S)
  BY FS_Subset, LedgerAssumption
<1>3. \A t \in Txns : f[t] \in Int
  BY PostedTyped
<1>4. \A t \in S : f[t] = txn[t].amt
  BY DEF Posted, PostedAmount
<1>5. \A t \in Txns \ S : f[t] = 0
  BY DEF Posted, PostedAmount
<1> HIDE DEF S, f
<1>6. \A k : E(k) <=> Sums(k, f, S)
  <2>1. \A s \in SUBSET S : s # {} => f[Chosen(s)] = txn[Chosen(s)].amt
    BY <1>4 DEF Chosen
  <2> QED BY <2>1 DEF Sums, Chosen
<1> HIDE DEF E
<1>7. \E k : E(k)
  BY <1>2, <1>6, SumsExist
<1>8. E(g)
  BY <1>7
<1>9. Sums(g, f, S)
  BY <1>6, <1>8
<1> HIDE DEF g
<1>10. g[S] = Total(f, S)
  BY <1>2, <1>9, TotalIs
<1>11. Total(f, Txns) = Total(f, S)
  BY <1>2, <1>3, <1>5, LedgerAssumption, TotalOfSome
<1> QED BY <1>1, <1>10, <1>11 DEF S, f

(***************************************************************************)
(* recalculate_balance agrees with the balance that the handlers keep for  *)
(* every account that has never had a split.                               *)
(***************************************************************************)
THEOREM UnsplitBalancesAreRight == Spec => []UnsplitBalanceRight
<1>1. TypeOK /\ BalancesAddUp => UnsplitBalanceRight
  <2> SUFFICES ASSUME TypeOK, BalancesAddUp, NEW a \in Accounts,
                      \A t \in Txns : txn[t].acct = a => ~ IsPart(t)
               PROVE  Recalculated(a) = balance[a]
    BY DEF UnsplitBalanceRight
  <2>1. partNet[a] = 0 /\ balance[a] = opening[a] + partNet[a] + Total(Posted(a), Txns)
    BY DEF BalancesAddUp
  <2>2. RowSum(a) = Total(Posted(a), Txns)
    BY RowSumIs
  <2>3. opening[a] \in Int
    BY DEF TypeOK
  <2> QED BY <2>1, <2>2, <2>3 DEF Recalculated
<1> QED BY <1>1, TypeCorrect, BalancesStayExplained, PTL

=============================================================================
