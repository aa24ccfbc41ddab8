------------------------------ MODULE Holdings ------------------------------
(***************************************************************************)
(* The handlers of AccountService and CardService that write accounts,     *)
(* their shares and their cards.  Balances are the subject of modules      *)
(* Ledger and TransactionRequests; currency and IBAN decide nothing here.  *)
(* title stands for the colour of an account and the name of a card, label *)
(* for the nullable columns that nothing depends on.                       *)
(***************************************************************************)
EXTENDS Catalogue

CONSTANTS
  NewAccounts,      \* [name, type, inst, title] of new accounts
  AccountChanges,   \* columns and values of an update of an account
  ShareLevels,      \* levels of a share
  CardChanges,      \* columns and values of an update of a card
  NewCards          \* [inst, title] of new cards, inst an institution or None

\* No update names an owner, a user or an account.
ASSUME HoldingsAssumption ==
  /\ \A a \in NewAccounts : a.type \in Types /\ a.inst \in Institutions
  /\ \A want \in AccountChanges :
       DOMAIN want \subseteq {"name", "type", "inst", "title", "label"} /\ \A a \in Accounts : Fits(a, want)
  /\ \A want \in CardChanges :
       DOMAIN want \subseteq {"inst", "title", "label"} /\ \A c \in Cards : Fits(c, want)
  /\ ShareLevels \subseteq PermissionLevel
  /\ \A i \in NewCards : i.inst \in Institutions \cup {None}

NewAccount(u, a) == [st |-> "live", owner |-> u, name |-> a.name, type |-> a.type,
                     inst |-> a.inst, title |-> a.title, label |-> None]
NewCard(a, i) == [st |-> "live", account |-> a, inst |-> i.inst, title |-> i.title, label |-> None]
NewShare(a, u, level) == [st |-> "live", account |-> a, user |-> u, level |-> level]

-----------------------------------------------------------------------------
(* Handlers                                                                *)

\* Fault: the type and the institution are not looked for.
CreateAccountPlanUnchecked(u, x, s, a) ==
  <<Statement("free name", None, a.name), Insert(x, NewAccount(u, a)),
    Insert(s, NewShare(x, u, "owner"))>> \o CommitThenAudit

\* The account and its owner's share are committed together.
CreateAccountPlan(u, x, s, a) ==
  <<Statement("free name", None, a.name), Find(a.type, "404"), Find(a.inst, "422"),
    Insert(x, NewAccount(u, a)), Insert(s, NewShare(x, u, "owner"))>> \o CommitThenAudit

\* A new name never gets past the look for another account of that name.
UpdateAccountPlan(x, want) ==
  <<Statement("mine", x, None)>>
    \o (IF "name" \in DOMAIN want THEN <<Statement("rename", x, want.name)>> ELSE << >>)
    \o (IF "type" \in DOMAIN want THEN <<Find(want.type, "404")>> ELSE << >>)
    \o (IF "inst" \in DOMAIN want THEN <<Find(want.inst, "422")>> ELSE << >>)
    \o <<Update(x, want)>> \o AuditAndCommit

DeleteAccountPlan(x) == <<Statement("mine", x, None), SoftDelete(x)>> \o AuditAndCommit

\* Fault: whoever finds the account may share it.
ShareAccountPlanUnguarded(x, a, v, level) ==
  <<Find(a, "404"), Statement("other", v, None)>>
    \o (IF level = "owner" THEN <<Refuse("422")>> ELSE << >>)
    \o <<Free(<<"share", a, v>>), Insert(x, NewShare(a, v, level))>> \o CommitThenAudit

ShareAccountPlan(x, a, v, level) ==
  <<Find(a, "404"), Statement("owner", a, None), Statement("other", v, None)>>
    \o (IF level = "owner" THEN <<Refuse("422")>> ELSE << >>)
    \o <<Free(<<"share", a, v>>), Insert(x, NewShare(a, v, level))>> \o CommitThenAudit

\* Fault: any level can be given.
UpdateSharePlanAnyLevel(s, a, level) ==
  <<Statement("owner", a, None), Statement("share", s, a), Update(s, [level |-> level])>>
    \o AuditAndCommit

\* Whether the account is deleted is not asked.
UpdateSharePlan(s, a, level) ==
  <<Statement("owner", a, None), Statement("share", s, a)>>
    \o (IF level = "owner" THEN <<Refuse("422")>> ELSE << >>)
    \o <<Update(s, [level |-> level])>> \o AuditAndCommit

RevokeSharePlan(s, a) ==
  <<Statement("owner", a, None), Statement("share", s, a), SoftDelete(s)>>
    \o AuditAndCommit

\* Fault: the account is not looked for.
CreateCardPlanUnchecked(x, a, i) ==
  (IF i.inst # None THEN <<Find(i.inst, "404")>> ELSE << >>)
    \o <<Insert(x, NewCard(a, i))>> \o CommitThenAudit

CreateCardPlan(x, a, i) ==
  <<Statement("my account", a, None)>>
    \o (IF i.inst # None THEN <<Find(i.inst, "404")>> ELSE << >>)
    \o <<Insert(x, NewCard(a, i))>> \o CommitThenAudit

\* Whether the card's account is deleted is not asked.
UpdateCardPlan(x, want) ==
  <<Statement("my card", x, None)>>
    \o (IF "inst" \in DOMAIN want /\ want.inst # None THEN <<Find(want.inst, "404")>> ELSE << >>)
    \o <<Update(x, want)>> \o AuditAndCommit

DeleteCardPlan(x) == <<Statement("my card", x, None), SoftDelete(x)>> \o AuditAndCommit

-----------------------------------------------------------------------------
(* Endpoints                                                               *)

CreateAccount(r) ==
  /\ FreshIn(Accounts) # {} /\ FreshIn(Shares) # {}
  /\ \E u \in Callers, a \in NewAccounts :
       LET x == CHOOSE x \in FreshIn(Accounts) : TRUE
           s == CHOOSE s \in FreshIn(Shares) : TRUE
       IN Arrive(r, "create_account", u, CurrentUser(u), x, NewAccount(u, a),
                 CreateAccountPlan(u, x, s, a))

UpdateAccount(r) ==
  \E u \in Callers, x \in Accounts, want \in AccountChanges :
    /\ db[x].st # "absent"
    /\ Arrive(r, "update_account", u, CurrentUser(u), x, want, UpdateAccountPlan(x, want))

DeleteAccount(r) ==
  \E u \in Callers, x \in Accounts :
    /\ db[x].st # "absent"
    /\ Arrive(r, "delete_account", u, CurrentUser(u), x, [st |-> "deleted"], DeleteAccountPlan(x))

ShareAccount(r) ==
  /\ FreshIn(Shares) # {}
  /\ \E u, v \in Callers, a \in Accounts, level \in ShareLevels :
       LET x == CHOOSE x \in FreshIn(Shares) : TRUE IN
       /\ db[a].st # "absent"
       /\ Arrive(r, "share_account", u, CurrentUser(u), x, NewShare(a, v, level),
                 ShareAccountPlan(x, a, v, level))

UpdateShare(r) ==
  \E u \in Callers, s \in Shares, a \in Accounts, level \in ShareLevels :
    /\ db[s].st # "absent" /\ db[a].st # "absent"
    /\ Arrive(r, "update_share", u, CurrentUser(u), s, [level |-> level],
              UpdateSharePlan(s, a, level))

RevokeShare(r) ==
  \E u \in Callers, s \in Shares, a \in Accounts :
    /\ db[s].st # "absent" /\ db[a].st # "absent"
    /\ Arrive(r, "revoke_share", u, CurrentUser(u), s, [st |-> "deleted"], RevokeSharePlan(s, a))

CreateCard(r) ==
  /\ FreshIn(Cards) # {}
  /\ \E u \in Callers, a \in Accounts, i \in NewCards :
       LET x == CHOOSE x \in FreshIn(Cards) : TRUE IN
       /\ db[a].st # "absent"
       /\ Arrive(r, "create_card", u, CurrentUser(u), x, NewCard(a, i), CreateCardPlan(x, a, i))

UpdateCard(r) ==
  \E u \in Callers, x \in Cards, want \in CardChanges :
    /\ db[x].st # "absent"
    /\ Arrive(r, "update_card", u, CurrentUser(u), x, want, UpdateCardPlan(x, want))

DeleteCard(r) ==
  \E u \in Callers, x \in Cards :
    /\ db[x].st # "absent"
    /\ Arrive(r, "delete_card", u, CurrentUser(u), x, [st |-> "deleted"], DeleteCardPlan(x))

=============================================================================
