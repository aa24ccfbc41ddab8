----------------------------- MODULE MCDirectory -----------------------------
(* Model values and bounds for TLC.                                        *)
EXTENDS Directory

CONSTANTS ann, bob, cat, zed, new1, new2, ty1, ty2, ty3, in1, in2, in3,
          ac1, ac2, ac3, cd1, cd2, cd3, sh1, sh2, sh3, sh4

User(n, state, admin) == [st |-> state, email |-> n, username |-> n, full_name |-> None,
                          admin |-> admin]

\* ann and cat are administrators, bob is not, zed is deleted.  ann has an
\* account that bob may see.
People0 == [x \in Rows |->
  CASE x = ann -> User("ann", "live", TRUE)
    [] x = bob -> User("bob", "live", FALSE)
    [] x = cat -> User("cat", "live", TRUE)
    [] x = zed -> User("zed", "deleted", FALSE)
    [] x = ty1 -> NewType([key |-> "checking", title |-> "T"])
    [] x = in1 -> NewInstitution([swift |-> "S1", routing |-> None, title |-> "T"])
    [] x = ac1 -> NewAccount(ann, [name |-> "A", type |-> ty1, inst |-> in1, title |-> "T"])
    [] x = sh1 -> NewShare(ac1, ann, "owner")
    [] x = sh2 -> NewShare(ac1, bob, "viewer")
    [] OTHER -> Absent]

MCPeopleTables == {People0}

\* The same with a card on the account, and a second type and institution; bob
\* has no share.
Things0 == [x \in Rows |->
  CASE x = ty2 -> NewType([key |-> "savings", title |-> "T"])
    [] x = in2 -> NewInstitution([swift |-> None, routing |-> "R2", title |-> "T"])
    [] x = cd1 -> NewCard(ac1, [inst |-> in1, title |-> "T"])
    [] x \in {cat, zed, sh2} -> Absent
    [] OTHER -> People0[x]]

\* And with a card of the second institution, and no account.
Things1 == [x \in Rows |->
  CASE x = ac1 -> [Things0[x] EXCEPT !.st = "deleted"]
    [] x = cd1 -> NewCard(ac1, [inst |-> in2, title |-> "T"])
    [] OTHER -> Things0[x]]

MCThingsTables == {Things0, Things1}

MCHandles == {[email |-> "ann", username |-> "new"], [email |-> "new", username |-> "zed"],
              [email |-> "new", username |-> "new"]}
MCProfileChanges == {[email |-> "new"], [email |-> None], [username |-> "zed"], [full_name |-> "F"]}
MCNewTypes == {[key |-> "savings", title |-> "T"], [key |-> "other", title |-> "T"],
               [key |-> "other", title |-> Unfit]}
MCTypeChanges == {[label |-> "L"], [title |-> None], [title |-> Unfit]}
MCCodes == {[swift |-> "S3", routing |-> None, title |-> "T"],
            [swift |-> "S1", routing |-> "R3", title |-> "T"],
            [swift |-> None, routing |-> None, title |-> Unfit]}
MCInstitutionChanges == {[swift |-> "S3"], [swift |-> None], [routing |-> None], [label |-> "L"],
                         [title |-> None], [label |-> Unfit]}
MCPeopleAccounts == {[name |-> n, type |-> ty1, inst |-> in1, title |-> "T"] : n \in {"A", "B"}}
MCThingsAccounts == {[name |-> "B", type |-> ty, inst |-> i, title |-> "T"] : ty \in {ty1, ty2}, i \in {in1, in2}}
                      \cup {[name |-> "B", type |-> ty1, inst |-> in1, title |-> Unfit]}
MCAccountChanges == {[name |-> "B"], [type |-> ty2], [inst |-> in2], [label |-> "L"],
                     [title |-> None], [label |-> Unfit]}
MCCardChanges == {[inst |-> in2], [inst |-> None], [label |-> "L"], [title |-> None], [label |-> Unfit]}
MCNewCards == {[inst |-> i, title |-> "T"] : i \in {in2, None}} \cup {[inst |-> in2, title |-> Unfit]}

=============================================================================
