--------------------------- MODULE RefreshTokens ---------------------------
(***************************************************************************)
(* AuthService's refresh tokens, and the deactivation of their user by     *)
(* UserService, one SQL statement per step and one database transaction    *)
(* per request, under the locking rules of module TransactionRequests:     *)
(* a bulk UPDATE goes through the rows that match when it starts, waits    *)
(* for those that are locked, and then looks at their latest version.      *)
(*                                                                         *)
(* There is one user: every statement selects tokens by id, by family or   *)
(* by user, and tokens of different users meet in none of them.  The       *)
(* credentials of a request are right; with wrong ones it only reads.      *)
(***************************************************************************)
EXTENDS Integers, Sequences, FiniteSets, SequencesExt

CONSTANTS
  Reqs,        \* requests, each served once
  Ops,         \* operations they may ask for
  Keys,        \* identities a token row can take
  First,       \* the token of a login that is over when we start
  NoKey,       \* "no token"
  AccessTTL,   \* access_token_expire_minutes
  RefreshTTL,  \* refresh_token_expire_days
  MaxTime      \* bound on the clock

AllOps == {"login", "refresh", "logout", "change", "deactivate"}

ASSUME TokensAssumption ==
  /\ Ops \subseteq AllOps
  /\ First \in Keys /\ NoKey \notin Keys
  /\ IsFiniteSet(Keys)   \* UUIDs
  /\ {AccessTTL, RefreshTTL, MaxTime} \subseteq Nat
  /\ 0 < AccessTTL /\ AccessTTL < RefreshTTL

VARIABLES
  token,      \* committed table: st, fam (the family's first token), born, exp
  live,       \* committed: the user is not deactivated
  held,       \* tokens that were handed out
  now,        \* the clock
  req,        \* what each request knows, has written and has locked
  committed,  \* requests that have committed
  maker,      \* history: the request that inserted a token
  before,     \* history: before[r] = requests committed when r arrived
  met         \* history: met[r] = requests in progress at some moment of r

vars == <<token, live, held, now, req, committed, maker, before, met>>

NoToken == [st |-> "absent", fam |-> NoKey, born |-> 0, exp |-> 0]
NoWrites == [k \in {} |-> NoToken]

\* Fault: a login leaves the family of its token empty.
TokenWithoutFamily(k, family) == [st |-> "good", fam |-> family, born |-> now,
                                  exp |-> now + AccessTTL]

\* _generate_tokens stores the expiry of the access token with the refresh
\* token; the refresh token's own JWT expires RefreshTTL after its birth.
NewToken(k, family) == [st |-> "good", fam |-> IF family = NoKey THEN k ELSE family,
                        born |-> now, exp |-> now + AccessTTL]

JwtValid(k) == now <= token[k].born + RefreshTTL

\* key: the token presented.  new: the token inserted.  todo: tokens that a bulk
\* revocation has yet to visit.  writes: uncommitted rows, which are also the
\* rows locked.  userLock: the user's row is locked.
NewReq == [pc |-> "new", op |-> "none", key |-> NoKey, new |-> NoKey, todo |-> << >>,
           writes |-> NoWrites, userLock |-> FALSE, out |-> "none"]

Init ==
  /\ now = 0
  /\ token = [k \in Keys |-> IF k = First THEN NewToken(k, NoKey) ELSE NoToken]
  /\ live = TRUE
  /\ held = {First}
  /\ req = [r \in Reqs |-> NewReq]
  /\ committed = {}
  /\ maker = [k \in Keys |-> "nobody"]
  /\ before = [r \in Reqs |-> {}]
  /\ met = [r \in Reqs |-> {}]

-----------------------------------------------------------------------------
(* Locks                                                                   *)

Active(r) == req[r].pc \notin {"new", "done"}

TokensWanted(r) ==
  CASE req[r].pc = "revoke" -> {req[r].key}
    [] req[r].pc = "bulk" -> {Head(req[r].todo)}
    [] OTHER -> {}

UserWanted(r) == req[r].pc = "user" \/ (req[r].pc = "touch" /\ live)

Blocks(q, r) ==
  /\ q # r
  /\ \/ TokensWanted(r) \cap DOMAIN req[q].writes # {}
     \/ UserWanted(r) /\ req[q].userLock

Granted(r) == \A q \in Reqs : ~ Blocks(q, r)

\* r is among the requests it waits for: it is in every set of requests that has,
\* with r's blockers, their own.
WaitsForItself(r) ==
  \A S \in SUBSET Reqs : (\A x \in S \cup {r}, y \in Reqs : Blocks(y, x) => y \in S) => r \in S

InCycle(r) == ~ Granted(r) /\ WaitsForItself(r)

-----------------------------------------------------------------------------
(* Reads                                                                   *)

Arrive(r, next) ==
  LET others == {q \in Reqs \ {r} : Active(q)} IN
  /\ req[r].pc = "new"
  /\ req' = [req EXCEPT ![r] = next]
  /\ before' = [before EXCEPT ![r] = committed]
  /\ met' = [q \in Reqs |-> IF q = r THEN others
                            ELSE IF q \in others THEN met[q] \cup {r} ELSE met[q]]
  /\ UNCHANGED <<token, live, held, now, committed, maker>>

Answer(q, out) == [q EXCEPT !.pc = "done", !.out = out, !.writes = NoWrites,
                            !.userLock = FALSE, !.todo = << >>]

\* login, change_password and deactivate_user read the live user first.
BeginWithUser(r, op) ==
  LET q == [NewReq EXCEPT !.op = op] IN
  Arrive(r, IF ~ live THEN Answer(q, "no user")
            ELSE [q EXCEPT !.pc = IF op = "login" THEN "touch" ELSE "user"])

\* Fault: reuse is not detected.
BeginRefreshUnchecked(r, k) ==
  LET q == [NewReq EXCEPT !.op = "refresh", !.key = k] IN
  Arrive(r, IF ~ JwtValid(k) THEN Answer(q, "bad jwt")
            ELSE IF token[k].exp < now THEN Answer(q, "expired")
            ELSE [q EXCEPT !.pc = "owner"])

\* refresh_access_token reads the token; get_by_token_hash filters nothing.
BeginRefresh(r, k) ==
  LET q == [NewReq EXCEPT !.op = "refresh", !.key = k] IN
  Arrive(r, IF ~ JwtValid(k) THEN Answer(q, "bad jwt")
            ELSE IF token[k].st = "revoked" THEN [q EXCEPT !.pc = "scan"]
            ELSE IF token[k].exp < now THEN Answer(q, "expired")
            ELSE [q EXCEPT !.pc = "owner"])

\* logout revokes whatever token it finds.
BeginLogout(r, k) ==
  LET q == [NewReq EXCEPT !.op = "logout", !.key = k] IN
  Arrive(r, IF JwtValid(k) THEN [q EXCEPT !.pc = "revoke"] ELSE Answer(q, "bad jwt"))

Begin(r) ==
  \/ \E op \in Ops \cap {"login", "change", "deactivate"} : BeginWithUser(r, op)
  \/ "refresh" \in Ops /\ \E k \in held : BeginRefresh(r, k)
  \/ "logout" \in Ops /\ \E k \in held : BeginLogout(r, k)

Proceed(r, next) ==
  /\ req' = [req EXCEPT ![r] = next]
  /\ UNCHANGED <<token, live, held, now, committed, maker, before, met>>

\* Fault: the user is looked up without the soft-delete filter.
ReadAnyOwner(r) ==
  /\ req[r].pc = "owner"
  /\ Proceed(r, [req[r] EXCEPT !.pc = "revoke"])

\* The token's user must still be live.
ReadOwner(r) ==
  /\ req[r].pc = "owner"
  /\ Proceed(r, IF live THEN [req[r] EXCEPT !.pc = "revoke"] ELSE Answer(req[r], "no user"))

-----------------------------------------------------------------------------
(* Writes                                                                  *)

Revoked(k) == [token[k] EXCEPT !.st = "revoked"]

Written(r, k, new) == [c \in DOMAIN req[r].writes \cup {k} |->
                         IF c = k THEN new ELSE req[r].writes[c]]

\* Fault: the exchanged token is left as it is.
KeepToken(r) ==
  /\ req[r].pc = "revoke"
  /\ Proceed(r, [req[r] EXCEPT !.pc = IF req[r].op = "refresh" THEN "insert" ELSE "commit"])

\* revoke_token selects by id alone: it revokes a revoked token again.
RevokeToken(r) ==
  /\ req[r].pc = "revoke"
  /\ Granted(r)
  /\ Proceed(r, [req[r] EXCEPT !.writes = Written(r, req[r].key, Revoked(req[r].key)),
                   !.pc = IF req[r].op = "refresh" THEN "insert" ELSE "commit"])

\* update_last_login, which looks for the live user again.
TouchUser(r) ==
  /\ req[r].pc = "touch"
  /\ Granted(r)
  /\ Proceed(r, [req[r] EXCEPT !.pc = "insert", !.userLock = live])

\* The UPDATE of the user's password or deleted_at.
UpdateUser(r) ==
  /\ req[r].pc = "user"
  /\ Granted(r)
  /\ Proceed(r, [req[r] EXCEPT !.pc = "scan", !.userLock = TRUE])

Unused == {k \in Keys : token[k].st = "absent" /\ \A q \in Reqs : k \notin DOMAIN req[q].writes}

\* A refresh passes the family on; a login starts one.  The row's identity is a
\* random UUID: which unused one is taken makes no difference.
InsertToken(r) ==
  LET k == CHOOSE k \in Unused : TRUE
      family == IF req[r].op = "refresh" THEN token[req[r].key].fam ELSE NoKey
  IN
  /\ req[r].pc = "insert"
  /\ Unused # {}
  /\ Proceed(r, [req[r] EXCEPT !.pc = "commit", !.new = k,
                   !.writes = Written(r, k, NewToken(k, family))])

\* Fault: reuse revokes the presented token's row, not its family.
ScopeOfToken(r) == IF req[r].op = "refresh" THEN {req[r].key} ELSE Keys

\* revoke_token_family after reuse, revoke_user_tokens otherwise.
Scope(r) == IF req[r].op = "refresh" THEN {k \in Keys : token[k].fam = token[req[r].key].fam}
            ELSE Keys

AfterBulk(r, rest) == IF rest = << >> THEN "commit" ELSE "bulk"

\* The statement's snapshot: the tokens in scope that are not revoked, in the
\* order in which the chosen plan visits them.
ScanTokens(r) ==
  /\ req[r].pc = "scan"
  /\ \E s \in SetToSeqs({k \in Scope(r) : token[k].st = "good"}) :
       Proceed(r, [req[r] EXCEPT !.todo = s, !.pc = AfterBulk(r, s)])

RevokeNext(r) ==
  LET k == Head(req[r].todo) IN
  /\ req[r].pc = "bulk"
  /\ Granted(r)
  /\ Proceed(r, [req[r] EXCEPT !.todo = Tail(@), !.pc = AfterBulk(r, Tail(req[r].todo)),
                   !.writes = IF token[k].st = "revoked" THEN @ ELSE Written(r, k, Revoked(k))])

\* Reuse commits the revocation and ends in an error.  Every other request
\* writes its audit entry next; deactivation has it in the same commit.
Commit(r) ==
  LET q == req[r]
      over == q.op = "deactivate" \/ (q.op = "refresh" /\ q.new = NoKey)
  IN
  /\ q.pc = "commit"
  /\ token' = [k \in Keys |-> IF k \in DOMAIN q.writes THEN q.writes[k] ELSE token[k]]
  /\ maker' = [k \in Keys |-> IF k = q.new THEN r ELSE maker[k]]
  /\ live' = (live /\ q.op # "deactivate")
  /\ committed' = committed \cup {r}
  /\ req' = [req EXCEPT ![r] =
       LET free == Answer(q, IF q.op = "refresh" /\ q.new = NoKey THEN "reuse" ELSE "ok")
       IN IF over THEN free ELSE [free EXCEPT !.pc = "audit"]]
  /\ UNCHANGED <<held, now, before, met>>

\* The audit entry, in a transaction of its own, and the answer.
Reply(r) ==
  /\ req[r].pc = "audit"
  /\ req' = [req EXCEPT ![r].pc = "done"]
  /\ held' = held \cup ({req[r].new} \ {NoKey})
  /\ UNCHANGED <<token, live, now, committed, maker, before, met>>

\* The process dies, the client goes away, or a statement fails.
Fail(r) == Active(r) /\ Proceed(r, Answer(req[r], "failed"))

\* PostgreSQL aborts a transaction of every cycle of waits.
BreakDeadlock(r) == InCycle(r) /\ Proceed(r, Answer(req[r], "failed"))

Tick ==
  /\ now < MaxTime
  /\ now' = now + 1
  /\ UNCHANGED <<token, live, held, req, committed, maker, before, met>>

Step(r) ==
  \/ ReadOwner(r)
  \/ RevokeToken(r) \/ TouchUser(r) \/ UpdateUser(r) \/ InsertToken(r)
  \/ ScanTokens(r) \/ RevokeNext(r)
  \/ Commit(r) \/ Reply(r)

Next ==
  \/ \E r \in Reqs : Begin(r) \/ Step(r) \/ Fail(r) \/ BreakDeadlock(r)
  \/ Tick

Spec == Init /\ [][Next]_vars

-----------------------------------------------------------------------------
(* What holds however requests overlap                                     *)

TokensTypeOK ==
  /\ now \in 0 .. MaxTime
  /\ live \in BOOLEAN
  /\ \A k \in Keys :
       \/ token[k] = NoToken
       \/ /\ token[k].st \in {"good", "revoked"}
          /\ token[k].fam \in Keys
          /\ token[k].born \in 0 .. now
          /\ token[k].exp = token[k].born + AccessTTL
  /\ \A k \in held : token[k].st # "absent"
  /\ committed \subseteq Reqs
  /\ \A r \in Reqs : DOMAIN req[r].writes \subseteq Keys /\ req[r].userLock \in BOOLEAN

\* r exchanged the token it presented for another.
Exchanged(r) == r \in committed /\ req[r].op = "refresh" /\ req[r].new # NoKey

\* A token is exchanged twice only by requests that overlap, and not at all by
\* one that arrived after a logout or an exchange of the token was committed.
ReuseNeedsOverlap ==
  \A r \in Reqs : Exchanged(r) =>
    \A q \in before[r] : ~ (req[q].op \in {"refresh", "logout"} /\ req[q].key = req[r].key)

\* The exchange is atomic: a family never has two good tokens, unless one of its
\* tokens was exchanged twice.
ForkNeedsDoubleUse ==
  \A k, l \in Keys :
    k # l /\ token[k].st = "good" /\ token[l].st = "good" /\ token[k].fam = token[l].fam =>
      \E r \in Reqs : \E q \in met[r] :
        /\ Exchanged(r) /\ Exchanged(q)
        /\ req[r].key = req[q].key
        /\ token[req[r].key].fam = token[k].fam

\* When a password change, a deactivation or the detection of reuse commits,
\* the only tokens in its scope still good are those of requests that it
\* overlapped.
RevocationMissesOnlyOverlap ==
  [][\A r \in committed' \ committed, k \in Keys :
       /\ token'[k].st = "good"
       /\ \/ req[r].op \in {"change", "deactivate"}
          \/ req[r].op = "refresh" /\ req[r].new = NoKey /\ token'[k].fam = token[req[r].key].fam
       => maker'[k] \in met[r]]_vars

\* Nobody who arrives after a deactivation gets a token, whatever tokens
\* overlapping requests left good.
DeactivatedGetsNothing ==
  \A r \in committed :
    req[r].new # NoKey => \A q \in before[r] : req[q].op # "deactivate"

-----------------------------------------------------------------------------
(* What the documentation says                                             *)

\* "Each refresh token can only be used once".
SingleUse ==
  \A r, q \in Reqs : r # q /\ Exchanged(r) /\ Exchanged(q) => req[r].key # req[q].key

\* "Tokens expire after settings.refresh_token_expire_days".
ExpiryIsRefreshTTL ==
  \A r \in Reqs : req[r].out = "expired" => token[req[r].key].born + RefreshTTL < now

=============================================================================
