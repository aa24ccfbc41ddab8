------------------------------- MODULE People -------------------------------
(***************************************************************************)
(* Registration and the handlers of UserService that write.  A user row    *)
(* has the columns email, username and admin; full_name stands for the     *)
(* columns that nothing depends on.                                        *)
(*                                                                         *)
(* Deactivating and deleting a user also revoke the user's refresh tokens, *)
(* which are the subject of module RefreshTokens.                          *)
(***************************************************************************)
EXTENDS Sessions

CONSTANTS
  Handles,         \* [email, username] of a registration
  ProfileChanges   \* columns and values of a profile update

ASSUME PeopleAssumption ==
  \A want \in ProfileChanges : DOMAIN want \subseteq {"email", "username", "full_name"}

NewUser(h) == [st |-> "live", email |-> h.email, username |-> h.username,
               full_name |-> None, admin |-> FALSE]

\* A token outlives its user: whoever has ever registered may ask.
Callers == {u \in Users : db[u].st # "absent"}

-----------------------------------------------------------------------------
(* Handlers                                                                *)

RegisterPlan(x, h) ==
  <<Free(<<"email", h.email>>), Free(<<"username", h.username>>), Insert(x, NewUser(h))>>
    \o CommitThenAudit

\* Fault: the new email is not looked for.
UpdateProfilePlanUnchecked(u, want) == <<Find(u, "404"), Update(u, want)>> \o AuditAndCommit

\* A new email or username is looked for among the live users, unless it is
\* null.
UpdateProfilePlan(u, want) ==
  LET rekey(col) == IF col \in DOMAIN want THEN <<Statement("rekey", u, <<col, want[col]>>)>>
                    ELSE << >>
  IN <<Find(u, "404")>> \o rekey("email") \o rekey("username") \o <<Update(u, want)>>
       \o AuditAndCommit

DeactivatePlan(u) == <<Find(u, "404"), SoftDelete(u)>> \o AuditAndCommit

\* Documented as a soft deletion; the row is deleted.
DeleteUserPlan(u) == <<Find(u, "404")>> \o Erase(u) \o AuditAndCommit

\* Looking at somebody else's profile, or at all of them, is audited.
ViewUserPlan(u) == <<Find(u, "404")>> \o AuditAndCommit
ListUsersPlan == AuditAndCommit

-----------------------------------------------------------------------------
(* Endpoints                                                               *)

Register(r) ==
  /\ FreshIn(Users) # {}
  /\ \E h \in Handles :
       LET x == CHOOSE x \in FreshIn(Users) : TRUE IN
       Arrive(r, "register", x, "ok", x, NewUser(h), RegisterPlan(x, h))

UpdateProfile(r) ==
  \E u \in Callers, want \in ProfileChanges :
    Arrive(r, "update_profile", u, CurrentUser(u), u, want, UpdateProfilePlan(u, want))

Deactivate(r) ==
  \E by, u \in Callers :
    Arrive(r, "deactivate", by, AdminUser(by), u, [st |-> "deleted"], DeactivatePlan(u))

DeleteUser(r) ==
  \E by, u \in Callers :
    Arrive(r, "delete_user", by, AdminUser(by), u, [st |-> "gone"], DeleteUserPlan(u))

ViewUser(r) ==
  \E by, u \in Callers :
    /\ by # u
    /\ Arrive(r, "view_user", by, AdminUser(by), u, Nothing, ViewUserPlan(u))

ListUsers(r) ==
  \E by \in Callers : Arrive(r, "list_users", by, AdminUser(by), by, Nothing, ListUsersPlan)

=============================================================================
