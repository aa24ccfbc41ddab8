------------------------------ MODULE Catalogue ------------------------------
(***************************************************************************)
(* The handlers of AccountTypeService and FinancialInstitutionService that *)
(* write, all of them for administrators.  An account type has a key, an   *)
(* institution a SWIFT code and a routing number, each None or unique.     *)
(* title stands for the name and sort order of a type and for the names,   *)
(* country and kind of an institution, label for the nullable rest.        *)
(***************************************************************************)
EXTENDS People

CONSTANTS
  NewTypes,            \* [key, title] of new account types
  Codes,               \* [swift, routing, title] of new institutions
  TypeChanges,         \* columns and values of an update of a type
  InstitutionChanges   \* and of an institution

ASSUME CatalogueAssumption ==
  /\ \A want \in TypeChanges : DOMAIN want \subseteq {"title", "label"}
  /\ \A want \in InstitutionChanges : DOMAIN want \subseteq {"swift", "routing", "title", "label"}

NewType(k) == [st |-> "live", key |-> k.key, title |-> k.title, label |-> None]
NewInstitution(c) == [st |-> "live", swift |-> c.swift, routing |-> c.routing, title |-> c.title,
                      label |-> None]

-----------------------------------------------------------------------------
(* Handlers                                                                *)

CreateTypePlan(x, k) == <<Free(<<"key", k.key>>), Insert(x, NewType(k))>> \o CommitThenAudit

\* The key cannot be changed.
UpdateTypePlan(x, want) == <<Find(x, "404"), Update(x, want)>> \o AuditAndCommit

DeleteTypePlan(x) == <<Find(x, "404")>> \o Erase(x) \o CommitThenAudit

\* A code that is not given is not looked for.
CreateInstitutionPlan(x, c) ==
  LET free(col) == IF c[col] # None THEN <<Free(<<col, c[col]>>)>> ELSE << >>
  IN free("swift") \o free("routing") \o <<Insert(x, NewInstitution(c))>> \o CommitThenAudit

\* A code that is given as null is looked for.
UpdateInstitutionPlan(x, want) ==
  LET rekey(col) == IF col \in DOMAIN want THEN <<Statement("rekey", x, <<col, want[col]>>)>>
                    ELSE << >>
  IN <<Find(x, "404")>> \o rekey("swift") \o rekey("routing") \o <<Update(x, want)>>
       \o AuditAndCommit

\* Documented as a soft deletion; the row is deleted, once the accounts of the
\* institution, deleted ones too, have been looked for.
DeleteInstitutionPlan(x) ==
  <<Find(x, "404"), Statement("orphans", x, None)>> \o Erase(x) \o CommitThenAudit

-----------------------------------------------------------------------------
(* Endpoints                                                               *)

CreateType(r) ==
  /\ FreshIn(Types) # {}
  /\ \E by \in Callers, k \in NewTypes :
       LET x == CHOOSE x \in FreshIn(Types) : TRUE IN
       Arrive(r, "create_type", by, AdminUser(by), x, NewType(k), CreateTypePlan(x, k))

UpdateType(r) ==
  \E by \in Callers, x \in Types, want \in TypeChanges :
    /\ db[x].st # "absent"
    /\ Arrive(r, "update_type", by, AdminUser(by), x, want, UpdateTypePlan(x, want))

DeleteType(r) ==
  \E by \in Callers, x \in Types :
    /\ db[x].st # "absent"
    /\ Arrive(r, "delete_type", by, AdminUser(by), x, [st |-> "gone"], DeleteTypePlan(x))

CreateInstitution(r) ==
  /\ FreshIn(Institutions) # {}
  /\ \E by \in Callers, c \in Codes :
       LET x == CHOOSE x \in FreshIn(Institutions) : TRUE IN
       Arrive(r, "create_institution", by, AdminUser(by), x, NewInstitution(c),
              CreateInstitutionPlan(x, c))

UpdateInstitution(r) ==
  \E by \in Callers, x \in Institutions, want \in InstitutionChanges :
    /\ db[x].st # "absent"
    /\ Arrive(r, "update_institution", by, AdminUser(by), x, want, UpdateInstitutionPlan(x, want))

DeleteInstitution(r) ==
  \E by \in Callers, x \in Institutions :
    /\ db[x].st # "absent"
    /\ Arrive(r, "delete_institution", by, AdminUser(by), x, [st |-> "gone"],
              DeleteInstitutionPlan(x))

=============================================================================
