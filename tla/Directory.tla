------------------------------ MODULE Directory ------------------------------
(***************************************************************************)
(* The handlers of users, account types, institutions, accounts, shares    *)
(* and cards, running concurrently.                                        *)
(***************************************************************************)
EXTENDS Holdings

CONSTANT Ops   \* operations that the requests may ask for

Begin(r) ==
  \/ "register" \in Ops /\ Register(r)
  \/ "update_profile" \in Ops /\ UpdateProfile(r)
  \/ "deactivate" \in Ops /\ Deactivate(r)
  \/ "delete_user" \in Ops /\ DeleteUser(r)
  \/ "view_user" \in Ops /\ ViewUser(r)
  \/ "list_users" \in Ops /\ ListUsers(r)
  \/ "create_type" \in Ops /\ CreateType(r)
  \/ "update_type" \in Ops /\ UpdateType(r)
  \/ "delete_type" \in Ops /\ DeleteType(r)
  \/ "create_institution" \in Ops /\ CreateInstitution(r)
  \/ "update_institution" \in Ops /\ UpdateInstitution(r)
  \/ "delete_institution" \in Ops /\ DeleteInstitution(r)
  \/ "create_account" \in Ops /\ CreateAccount(r)
  \/ "update_account" \in Ops /\ UpdateAccount(r)
  \/ "delete_account" \in Ops /\ DeleteAccount(r)
  \/ "share_account" \in Ops /\ ShareAccount(r)
  \/ "update_share" \in Ops /\ UpdateShare(r)
  \/ "revoke_share" \in Ops /\ RevokeShare(r)
  \/ "create_card" \in Ops /\ CreateCard(r)
  \/ "update_card" \in Ops /\ UpdateCard(r)
  \/ "delete_card" \in Ops /\ DeleteCard(r)

Init ==
  /\ db \in Tables
  /\ req = [r \in Reqs |-> NewReq]
  /\ committed = {}
  /\ audited = {}
  /\ met = [r \in Reqs |-> {}]

Next == \E r \in Reqs : Begin(r) \/ Step(r) \/ Fail(r) \/ BreakDeadlock(r)

Spec == Init /\ [][Next]_vars

\* As long as some request can go on, or the database can break a deadlock, one
\* of them does: who is not said.
Fairness == WF_vars(\E r \in Reqs : Step(r) \/ BreakDeadlock(r))

FairSpec == Spec /\ Fairness

-----------------------------------------------------------------------------
(* What holds however requests overlap                                     *)

RowFits(x, row) ==
  \/ row \in {Absent, Gone}
  \/ IsRow(row) /\ Columns(x) \subseteq DOMAIN row /\ Fits(x, row)

\* The database to start from is one that its constraints allow.
ASSUME DirectoryAssumption ==
  \A table \in Tables, x \in Rows :
    /\ RowFits(x, table[x])
    /\ \A y \in Refs(x, table[x]) : IsRow(table[y])
    /\ \A y \in Rows \ {x} : Keys(x, table[x]) \cap Keys(y, table[y]) = {}

\* An account has a live share of level owner, and whoever has one is the owner.
OwnersRecorded(table) ==
  /\ \A a \in Accounts : IsRow(table[a]) =>
       \E s \in Shares : table[s].st = "live" /\ table[s].level = "owner" /\ table[s].account = a
  /\ \A s \in Shares : table[s].st = "live" /\ table[s].level = "owner" =>
       table[table[s].account].owner = table[s].user

ASSUME OwnersAssumption == \A table \in Tables : OwnersRecorded(table)

DirectoryTypeOK ==
  /\ DOMAIN db = Rows
  /\ \A x \in Rows : RowFits(x, db[x])
  /\ audited \subseteq committed /\ committed \subseteq Reqs
  /\ \A r \in Reqs :
       /\ met[r] \subseteq Reqs \ {r}
       /\ DOMAIN req[r].writes \cup DOMAIN req[r].read \cup req[r].wrote \subseteq Rows
       /\ req[r].locks \subseteq Rows \X {"keyshare", "nokey", "update"}
       /\ Active(r) <=> req[r].todo # << >>
       /\ ~ Active(r) => req[r].writes = Nothing /\ req[r].locks = {}

\* No two users have an email or a username in common, deleted users included;
\* nor two types a key, two institutions a code, two live accounts of a user a
\* name, or two live shares their account and user.
KeysUnique ==
  LET keys == [x \in Rows |-> Keys(x, db[x])]
  IN \A x, y \in Rows : x # y => keys[x] \cap keys[y] = {}

\* No row refers to one that has left its table.
ReferencesHold == \A x \in Rows : \A y \in Refs(x, db[x]) : IsRow(db[y])

\* A request commits its writes although something it needs has been deleted,
\* the acting user, the row it is about or a row it comes to refer to, only if
\* it overlapped the deletion.  No deactivated user does anything, no deleted
\* account gets a card or a share, no deleted user an account, by a request
\* that came later.
LateWritesNeedOverlap ==
  [][LET named(r) ==
           Rows \cap {req[r].want[c] : c \in DOMAIN req[r].want \cap DOMAIN Referring}
         needs(r) == {z \in named(r) \cup {req[r].by, req[r].x} : db[z].st # "absent"}
     IN \A r \in committed' \ committed : \A z \in needs(r) :
             \/ db[z].st = "live"
             \/ \E q \in met[r] \cap committed : z \in req[q].wrote]_vars

\* A request is answered by an internal error without having overlapped one that
\* committed only where the code has an error waiting, as listed in Predictable:
\* above all, a value in its body that its column cannot hold.  Failures from
\* outside, those of Fail, have an answer of their own.
FailuresExplained ==
  [][LET holder(r, u) == db[u].st = "deleted" /\ Keys(u, db[u]) \cap
                           {<<c, req[r].want[c]>> : c \in DOMAIN req[r].want} # {}
         unstorable(r) == \E c \in DOMAIN req[r].want : ~ Storable(c, req[r].want[c])
         Predictable(r) == unstorable(r) \/
           CASE req[r].op \in {"register", "update_profile"} -> \E u \in Users : holder(r, u)
             [] req[r].op = "update_account" -> "name" \in DOMAIN req[r].want
             [] req[r].op = "update_institution" ->
                  \E c \in {"swift", "routing"} \cap DOMAIN req[r].want : req[r].want[c] = None
             [] req[r].op \in {"delete_type", "delete_institution"} -> Restricted(req[r].x)
             [] req[r].op = "delete_user" -> req[r].x = req[r].by \/ Restricted(req[r].x)
             [] OTHER -> FALSE
     IN \A r \in Reqs : req[r].answer # "500" /\ req'[r].answer = "500" =>
             Predictable(r) \/ met[r] \cap committed # {}]_vars

\* A row changes only in the columns, and to the values, that the committing
\* request was asked for, or by the cascade of a deletion: no stale copy in a
\* session undoes what another request did, and no deleted row comes back.
OnlyWhatWasAsked ==
  [][LET asked(r, x, row) ==
           /\ x = req[r].x
           /\ \/ row = Gone /\ req[r].want.st = "gone"
              \/ row # Gone /\ \A c \in DOMAIN db[x] :
                   row[c] = db[x][c] \/ (c \in DOMAIN req[r].want /\ row[c] = req[r].want[c])
         cascaded(r, x, row) ==
           \/ req[r].op = "delete_user" /\ row = Gone /\ req[r].x \in Refs(x, db[x])
           \/ /\ req[r].op = "delete_user" /\ row = Gone /\ x \in Shares
              /\ db[db[x].account].owner = req[r].x
           \/ req[r].op = "delete_institution" /\ x \in Cards /\ row = [db[x] EXCEPT !.inst = None]
     IN \A x \in Rows : IsRow(db[x]) /\ db'[x] # db[x] =>
             \E r \in committed' \ committed : asked(r, x, db'[x]) \/ cascaded(r, x, db'[x])]_vars

\* What a committed request asked for is there when it commits, unless a request
\* that it overlapped has written the row: an UPDATE leaves out the columns that
\* have the wanted value in the session, whatever their value has become.
WishesComeTrue ==
  [][\A r \in committed' \ committed :
       \/ \E q \in met[r] \cap committed : req[r].x \in req[q].wrote
       \/ \A c \in DOMAIN req[r].want : db'[req[r].x][c] = req[r].want[c]]_vars

AuditedApart == {"register", "create_type", "delete_type", "create_institution",
                 "delete_institution", "create_account", "share_account", "create_card"}

\* What is committed is audited, but for creations and catalogue deletions that
\* fail between their two commits: because the process did, or because the
\* acting user was removed from the table meanwhile.
UnauditedExplained ==
  \A r \in committed \ audited :
    /\ req[r].op \in AuditedApart
    /\ \/ Active(r)
       \/ req[r].answer = "lost"
       \/ /\ req[r].answer = "500"
          /\ \E q \in met[r] \cap committed : req[q].op = "delete_user" /\ req[q].x = req[r].by

\* Requests deadlock only over the removal of the user one of them acts for: the
\* cascade waits for a row that the user's request has written, or two
\* administrators remove each other.
DeadlocksExplained ==
  LET stuck == {r \in Reqs : InCycle(r)}
      removes(q, r) == req[q].op = "delete_user" /\ req[q].x = req[r].by
  IN \A r \in stuck : \E q \in stuck \ {r} : removes(q, r) \/ removes(r, q)

\* Every request that arrives is answered.
EveryRequestAnswered == \A r \in Reqs : Active(r) ~> ~ Active(r)

-----------------------------------------------------------------------------
(* The abstract specification                                              *)

Access == INSTANCE Access WITH
  NoUser <- None,
  account <- [a \in Accounts |-> IF IsRow(db[a]) THEN [st |-> db[a].st, owner |-> db[a].owner]
                                 ELSE [st |-> "absent", owner |-> None]],
  share <- [a \in Accounts |-> [u \in Users |->
              LET held == {s \in Shares : db[s].st = "live" /\ db[s].account = a /\ db[s].user = u}
              IN IF held = {} THEN "none" ELSE db[CHOOSE s \in held : TRUE].level]]

\* Module Access's invariant under overlap: an account in the table, deleted or
\* not, has exactly one live share of level owner, its owner's.
OneOwner == Access!OneOwner

\* A request on accounts or shares that met no other commits a step that module
\* Access allows its user.
IsolatedSharingFollowsAccess ==
  [][LET sharing == {"create_account", "delete_account", "share_account", "update_share", "revoke_share"}
         allowed(u, a) ==
           \/ Access!CreateAccount(u, a)
           \/ Access!DeleteAccount(u, a)
           \/ \E v \in Users : Access!SharingStep(u, a, v)
     IN \A r \in committed' \ committed : req[r].op \in sharing /\ met[r] = {} =>
             \E a \in Accounts : allowed(req[r].by, a)]_vars

=============================================================================
