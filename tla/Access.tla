------------------------------- MODULE Access -------------------------------
(***************************************************************************)
(* Who may do what to which account: the committed state behind            *)
(* PermissionService, and the account and sharing handlers of              *)
(* AccountService that change it.  Every handler is one step: it stands    *)
(* for the effect of one committed request.                                *)
(*                                                                         *)
(* An active row of account_shares is unique for (account, user), so the   *)
(* table is the function `share` from the pair to a level, with            *)
(* NoAccess for "no active row".  Names, colours, IBAN, institution and    *)
(* type of an account decide nothing here and are left out.                *)
(***************************************************************************)
EXTENDS Integers, FiniteSets

CONSTANTS
  Users,      \* live users
  Accounts,   \* identities an account row can take
  NoUser      \* owner of an account that does not exist yet

ASSUME NoUserAssumption == NoUser \notin Users

VARIABLES
  account,    \* account[a] = [st, owner]
  share       \* share[a][u]: level of u's active share of a

accessVars == <<account, share>>

NoAccess == "none"
Grantable == {"viewer", "editor"}
Levels == Grantable \cup {"owner"}

\* PermissionService.PERMISSION_HIERARCHY, 0 standing for a missing share.
Rank == [l \in Levels \cup {NoAccess} |->
           CASE l = "owner"  -> 3
             [] l = "editor" -> 2
             [] l = "viewer" -> 1
             [] OTHER        -> 0]

AccountStates == {"absent", "live", "deleted"}

AccessTypeOK ==
  /\ account \in [Accounts -> [st : AccountStates, owner : Users \cup {NoUser}]]
  /\ share \in [Accounts -> [Users -> Levels \cup {NoAccess}]]

AccessInit ==
  /\ account = [a \in Accounts |-> [st |-> "absent", owner |-> NoUser]]
  /\ share = [a \in Accounts |-> [u \in Users |-> NoAccess]]

-----------------------------------------------------------------------------
(* PermissionService                                                       *)

IsLive(a) == account[a].st = "live"

\* The implicit ownership test looks at live accounts only; the share lookup
\* that follows it does not look at the account at all.
Permission(u, a) ==
  IF IsLive(a) /\ account[a].owner = u THEN "owner" ELSE share[a][u]

Allowed(u, a, level) == Rank[Permission(u, a)] >= Rank[level]

-----------------------------------------------------------------------------
(* AccountService                                                          *)

\* create_account inserts the account and its owner's share in one commit.
CreateAccount(u, a) ==
  /\ account[a].st = "absent"
  /\ account' = [account EXCEPT ![a] = [st |-> "live", owner |-> u]]
  /\ share' = [share EXCEPT ![a][u] = "owner"]

\* delete_account goes through get_account (live, at least viewer) and then
\* asks for the owner column itself.  It leaves the shares alone.
DeleteAccount(u, a) ==
  /\ IsLive(a)
  /\ account[a].owner = u
  /\ account' = [account EXCEPT ![a].st = "deleted"]
  /\ UNCHANGED share

ShareAccount(u, a, v, level) ==
  /\ IsLive(a)
  /\ Allowed(u, a, "owner")
  /\ v # u
  /\ level # "owner"
  /\ share[a][v] = NoAccess
  /\ share' = [share EXCEPT ![a][v] = level]
  /\ UNCHANGED account

\* Fault: update_share accepts a new level of owner.
UpdateShareToOwner(u, a, v, level) ==
  /\ Allowed(u, a, "owner")
  /\ share[a][v] # NoAccess
  /\ ~ (v = u /\ share[a][v] = "owner")
  /\ share' = [share EXCEPT ![a][v] = level]
  /\ UNCHANGED account

\* update_share and revoke_share find the share by its id and never look at
\* the account: the owner's own share keeps them open after delete_account.
UpdateShare(u, a, v, level) ==
  /\ Allowed(u, a, "owner")
  /\ share[a][v] # NoAccess
  /\ level # "owner"
  /\ ~ (v = u /\ share[a][v] = "owner")
  /\ share' = [share EXCEPT ![a][v] = level]
  /\ UNCHANGED account

RevokeShare(u, a, v) ==
  /\ Allowed(u, a, "owner")
  /\ share[a][v] # NoAccess
  /\ ~ (v = u /\ share[a][v] = "owner")
  /\ share' = [share EXCEPT ![a][v] = NoAccess]
  /\ UNCHANGED account

\* The steps that leave the set of accounts as it is.
SharingStep(u, a, v) ==
  \/ \E level \in Levels : ShareAccount(u, a, v, level) \/ UpdateShare(u, a, v, level)
  \/ RevokeShare(u, a, v)

-----------------------------------------------------------------------------
\* An account that exists, deleted or not, has exactly one active share of
\* level owner, and it is the one of the user in its owner column: no sequence
\* of sharing, changing and revoking levels makes a second owner, demotes the
\* first, or leaves an account that nobody may administer.
OneOwner ==
  \A a \in Accounts, u \in Users :
    share[a][u] = "owner" <=> (account[a].st # "absent" /\ account[a].owner = u)

=============================================================================
