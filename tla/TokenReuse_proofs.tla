------------------------- MODULE TokenReuse_proofs -------------------------
(***************************************************************************)
(* Proofs of what module RefreshTokens says of reuse, deactivation, bulk   *)
(* revocation and families.  Each follows from what the requests of        *)
(* RefreshTokens_proofs do, and from which requests have met.              *)
(***************************************************************************)
EXTENDS RefreshTokens_proofs

(***************************************************************************)
(* Who has met whom.                                                       *)
(***************************************************************************)
MeetingsKnown ==
  /\ \A r, q \in Reqs : r # q /\ Active(r) /\ Active(q) => q \in met[r]
  /\ \A r \in Reqs : before[r] \subseteq committed
  /\ \A r \in Reqs : Active(r) => committed \subseteq before[r] \cup met[r] \cup {r}

\* A refresh that is going to exchange, or has exchanged, the token it presents.
Exchanging(q) == q.op = "refresh" /\ (q.pc \in {"owner", "revoke", "insert"} \/ q.new # NoKey)

Uses(q, k) == q.op \in {"refresh", "logout"} /\ q.key = k

FirstUse ==
  \A r \in Reqs : Exchanging(req[r]) => \A q \in before[r] : ~ Uses(req[q], req[r].key)

\* A request that is going to get, or has got, a token.
Getting(q) ==
  \/ q.new # NoKey \/ q.pc \in {"touch", "insert"}
  \/ q.op = "refresh" /\ q.pc = "revoke"

FoundLive == \A r \in Reqs : Getting(req[r]) => \A q \in before[r] : req[q].op # "deactivate"

\* A request whose bulk revocation has taken its snapshot.
Revoking(q) ==
  \/ q.op \in {"change", "deactivate"} /\ q.pc \in {"bulk", "commit"}
  \/ Detecting(q) /\ q.pc # "scan"

\* r still has k to visit, has revoked it, or has met the request that made it.
Accounted(r, k) ==
  \/ \E i \in 1 .. Len(req[r].todo) : req[r].todo[i] = k
  \/ k \in DOMAIN req[r].writes
  \/ maker[k] \in met[r]

NoneOverlooked ==
  \A r \in Reqs : Revoking(req[r]) =>
    \A k \in Scope(r) : token[k].st = "good" => Accounted(r, k)

\* Two requests that overlapped exchanged the same token of the family.
Forked(family) ==
  \E r \in Reqs : \E q \in met[r] :
    /\ Exchanged(r) /\ Exchanged(q)
    /\ req[r].key = req[q].key
    /\ token[req[r].key].fam = family

Unexchanged(k) == token[k].st # "absent" /\ \A r \in Reqs : Exchanged(r) => req[r].key # k

OneLastToken ==
  \A k, l \in Keys :
    k # l /\ Unexchanged(k) /\ Unexchanged(l) /\ token[k].fam = token[l].fam => Forked(token[k].fam)

-----------------------------------------------------------------------------
(***************************************************************************)
(* What a step does to its request.                                        *)
(***************************************************************************)
Order == {<<"owner", "revoke">>, <<"revoke", "insert">>, <<"revoke", "commit">>,
          <<"touch", "insert">>, <<"insert", "commit">>, <<"user", "scan">>,
          <<"scan", "bulk">>, <<"scan", "commit">>, <<"bulk", "bulk">>, <<"bulk", "commit">>}

Follows(w, v) ==
  /\ v.op = w.op /\ v.key = w.key
  /\ v.pc = "done" \/ <<w.pc, v.pc>> \in Order
  /\ v.new = w.new \/ (w.pc = "insert" /\ v.pc = "commit")
  /\ v.pc = "revoke" => live
  /\ w.pc = "insert" /\ v.pc = "commit" => v.new # NoKey
  /\ w.pc = "revoke" /\ v.pc = "commit" => w.op # "refresh"

LEMMA ProceedOneRequest ==
  ASSUME Consistent, NEW r \in Reqs, NEW next, Proceed(r, next)
  PROVE  /\ req'[r] = next
         /\ \A q \in Reqs \ {r} : req'[q] = req[q]
         /\ UNCHANGED <<token, live, held, now, committed, maker, before, met>>
BY DEF Consistent, Typed, Proceed

LEMMA StatementFollows ==
  ASSUME Consistent, NEW r \in Reqs, Statement(r), NEW w, w = req[r], NEW v, v = req'[r]
  PROVE  /\ Active(r)
         /\ \A q \in Reqs \ {r} : req'[q] = req[q]
         /\ UNCHANGED <<token, live, held, now, committed, maker, before, met>>
         /\ Control(w) /\ Control(v)
         /\ Follows(w, v)
         /\ w.pc = "scan" /\ v.pc # "done" => ScanTokens(r)
         /\ w.pc = "bulk" /\ v.pc # "done" => RevokeNext(r)
<1>1. w \in Requests /\ Control(w)
  BY AboutRequest
<1>2. PICK next : Proceed(r, next) /\ Fits(r, next)
  BY StatementFits
<1>3. /\ v = next
      /\ \A q \in Reqs \ {r} : req'[q] = req[q]
      /\ UNCHANGED <<token, live, held, now, committed, maker, before, met>>
      /\ Control(v)
  BY <1>2, ProceedOneRequest DEF Fits
<1>4. \A to : Proceed(r, to) => v = to
  BY ProceedOneRequest
<1>5. /\ Active(r) /\ Follows(w, v)
      /\ w.pc = "scan" /\ v.pc # "done" => ScanTokens(r)
      /\ w.pc = "bulk" /\ v.pc # "done" => RevokeNext(r)
  <2>1. CASE Fail(r) \/ BreakDeadlock(r)
    <3>1. Active(r) /\ v = Answer(w, "failed")
      BY <1>4, <2>1, FailsInProgress
    <3> QED
      BY <1>1, <3>1 DEF Follows, Answer, Requests
  <2>2. CASE ReadOwner(r)
    <3>1. w.pc = "owner" /\ ((live /\ v = [w EXCEPT !.pc = "revoke"]) \/ v = Answer(w, "no user"))
      BY <1>4, <2>2 DEF ReadOwner
    <3> QED
      BY <1>1, <3>1 DEF Follows, Order, Answer, Requests, Active
  <2>3. CASE RevokeToken(r)
    <3>1. PICK rows : rows = Written(r, req[r].key, Revoked(req[r].key))
      OBVIOUS
    <3>2. /\ w.pc = "revoke"
          /\ v = [w EXCEPT !.writes = rows, !.pc = IF w.op = "refresh" THEN "insert" ELSE "commit"]
      BY <1>4, <2>3, <3>1 DEF RevokeToken
    <3> QED
      BY <1>1, <3>2 DEF Follows, Order, Requests, Active
  <2>4. CASE TouchUser(r)
    <3>1. w.pc = "touch" /\ v = [w EXCEPT !.pc = "insert", !.userLock = live]
      BY <1>4, <2>4 DEF TouchUser
    <3> QED
      BY <1>1, <3>1 DEF Follows, Order, Requests, Active
  <2>5. CASE UpdateUser(r)
    <3>1. w.pc = "user" /\ v = [w EXCEPT !.pc = "scan", !.userLock = TRUE]
      BY <1>4, <2>5 DEF UpdateUser
    <3> QED
      BY <1>1, <3>1 DEF Follows, Order, Requests, Active
  <2>6. CASE InsertToken(r)
    <3>1. PICK k : k = CHOOSE c \in Unused : TRUE
      OBVIOUS
    <3>2. k # NoKey
      BY <2>6, <3>1, TokensAssumption DEF InsertToken, Unused
    <3>3. PICK rows : w.pc = "insert" /\ v = [w EXCEPT !.pc = "commit", !.new = k, !.writes = rows]
      BY <1>4, <2>6, <3>1 DEF InsertToken
    <3> QED
      BY <1>1, <3>2, <3>3 DEF Follows, Order, Requests, Active
  <2>7. CASE ScanTokens(r)
    <3>1. PICK s : w.pc = "scan" /\ v = [w EXCEPT !.todo = s, !.pc = AfterBulk(r, s)]
      BY <1>4, <2>7 DEF ScanTokens
    <3> QED
      BY <1>1, <2>7, <3>1 DEF Follows, Order, Requests, Active, AfterBulk
  <2>8. CASE RevokeNext(r)
    <3> DEFINE k == Head(req[r].todo)
               rest == Tail(req[r].todo)
               rows == IF token[k].st = "revoked" THEN req[r].writes ELSE Written(r, k, Revoked(k))
    <3>1. /\ w.pc = "bulk"
          /\ v = [w EXCEPT !.todo = rest, !.pc = AfterBulk(r, rest), !.writes = rows]
      BY <1>1, <1>4, <2>8 DEF RevokeNext, Requests
    <3> HIDE DEF rest, rows
    <3> QED
      BY <1>1, <2>8, <3>1 DEF Follows, Order, Requests, Active, AfterBulk
  <2> QED
    BY <2>1, <2>2, <2>3, <2>4, <2>5, <2>6, <2>7, <2>8 DEF Statement
<1> QED
  BY <1>1, <1>3, <1>5

\* The commit and the answer leave what a request asked for and what it made.
LEMMA EndFollows ==
  ASSUME Consistent, NEW r \in Reqs, Commit(r) \/ Reply(r), NEW w, w = req[r], NEW v, v = req'[r]
  PROVE  /\ Active(r)
         /\ \A q \in Reqs \ {r} : req'[q] = req[q]
         /\ UNCHANGED <<now, before, met>>
         /\ w \in Requests /\ Control(w)
         /\ v.op = w.op /\ v.key = w.key /\ v.new = w.new
         /\ v.pc \in {"audit", "done"}
<1>1. w \in Requests /\ Control(w)
  BY AboutRequest
<1>2. CASE Reply(r)
  <2>1. w.pc = "audit" /\ req' = [req EXCEPT ![r] = [w EXCEPT !.pc = "done"]]
    BY <1>2 DEF Reply
  <2>2. v = [w EXCEPT !.pc = "done"] /\ \A q \in Reqs \ {r} : req'[q] = req[q]
    BY <2>1 DEF Consistent, Typed
  <2> QED
    BY <1>1, <1>2, <2>1, <2>2 DEF Reply, Active, Requests
<1>3. CASE Commit(r)
  <2>1. PICK next, out : /\ req' = [req EXCEPT ![r] = next]
                         /\ next = Answer(w, out) \/ next = [Answer(w, out) EXCEPT !.pc = "audit"]
    BY <1>3 DEF Commit
  <2>2. v = next /\ \A q \in Reqs \ {r} : req'[q] = req[q]
    BY <2>1 DEF Consistent, Typed
  <2>3. PICK free : free = Answer(w, out)
    OBVIOUS
  <2>4. free.op = w.op /\ free.key = w.key /\ free.new = w.new /\ free.pc = "done"
        /\ [free EXCEPT !.pc = "audit"].pc = "audit" /\ [free EXCEPT !.pc = "audit"].op = w.op
        /\ [free EXCEPT !.pc = "audit"].key = w.key /\ [free EXCEPT !.pc = "audit"].new = w.new
    BY <1>1, <2>3 DEF Answer, Requests
  <2>5. v = free \/ v = [free EXCEPT !.pc = "audit"]
    BY <2>1, <2>2, <2>3
  <2>6. v.op = w.op /\ v.key = w.key /\ v.new = w.new /\ v.pc \in {"audit", "done"}
    BY <2>4, <2>5
  <2>7. w.pc = "commit" /\ UNCHANGED <<now, before, met>>
    BY <1>3 DEF Commit
  <2> QED
    BY <1>1, <2>2, <2>6, <2>7 DEF Active
<1> QED
  BY <1>2, <1>3

LEMMA BeginFollows ==
  ASSUME Consistent, NEW r \in Reqs, Begin(r), NEW v, v = req'[r]
  PROVE  /\ Arrive(r, v)
         /\ r \notin committed
         /\ \A q \in Reqs \ {r} : req'[q] = req[q]
         /\ v.new = NoKey
         /\ v.pc \in {"touch", "user", "owner", "scan", "revoke", "done"}
         /\ v.pc = "touch" => live
         /\ v.pc = "owner" => v.key \in Keys /\ token[v.key].st # "revoked"
         /\ v.op = "refresh" => v.pc # "revoke"
         /\ v.pc = "scan" => v.op = "refresh"
<1>1. \A next : Arrive(r, next) => v = next /\ \A q \in Reqs \ {r} : req'[q] = req[q]
  BY DEF Consistent, Typed, Arrive
<1>2. ASSUME NEW op \in {"login", "change", "deactivate"}, BeginWithUser(r, op)
      PROVE  \/ live /\ v = [[NewReq EXCEPT !.op = op] EXCEPT !.pc = IF op = "login" THEN "touch" ELSE "user"]
             \/ v = Answer([NewReq EXCEPT !.op = op], "no user")
  BY <1>1, <1>2 DEF BeginWithUser
<1>3. ASSUME NEW k \in held, BeginRefresh(r, k)
      PROVE  \E out : \/ v = Answer([NewReq EXCEPT !.op = "refresh", !.key = k], out)
                      \/ v = [[NewReq EXCEPT !.op = "refresh", !.key = k] EXCEPT !.pc = "scan"]
                      \/ /\ v = [[NewReq EXCEPT !.op = "refresh", !.key = k] EXCEPT !.pc = "owner"]
                         /\ token[k].st # "revoked"
  BY <1>1, <1>3 DEF BeginRefresh
<1>4. ASSUME NEW k \in held, BeginLogout(r, k)
      PROVE  \E out : \/ v = Answer([NewReq EXCEPT !.op = "logout", !.key = k], out)
                      \/ v = [[NewReq EXCEPT !.op = "logout", !.key = k] EXCEPT !.pc = "revoke"]
  BY <1>1, <1>4 DEF BeginLogout
<1>5. held \subseteq Keys
  BY DEF Consistent, Typed
<1>6. /\ v.new = NoKey
      /\ v.pc \in {"touch", "user", "owner", "scan", "revoke", "done"}
      /\ v.pc = "touch" => live
      /\ v.pc = "owner" => v.key \in Keys /\ token[v.key].st # "revoked"
      /\ v.op = "refresh" => v.pc # "revoke"
      /\ v.pc = "scan" => v.op = "refresh"
  <2>1. CASE \E op \in {"login", "change", "deactivate"} : BeginWithUser(r, op)
    BY <1>2, <2>1 DEF NewReq, Answer
  <2>2. CASE \E k \in held : BeginRefresh(r, k)
    <3>1. PICK k \in held : BeginRefresh(r, k)
      BY <2>2
    <3>2. PICK base : base = [NewReq EXCEPT !.op = "refresh", !.key = k]
      OBVIOUS
    <3>3. PICK out : \/ v = Answer(base, out)
                     \/ v = [base EXCEPT !.pc = "scan"]
                     \/ v = [base EXCEPT !.pc = "owner"] /\ token[k].st # "revoked"
      BY <1>3, <3>1, <3>2
    <3>4. v.new = NoKey /\ v.op = "refresh" /\ v.key = k
      BY <3>2, <3>3 DEF NewReq, Answer
    <3>5. v.pc = "done" \/ v.pc = "scan" \/ (v.pc = "owner" /\ token[k].st # "revoked")
      BY <3>2, <3>3 DEF NewReq, Answer
    <3> QED
      BY <1>5, <3>4, <3>5
  <2>3. CASE \E k \in held : BeginLogout(r, k)
    BY <1>4, <2>3 DEF NewReq, Answer
  <2> QED
    BY <2>1, <2>2, <2>3 DEF Begin
<1>7. \E next : Arrive(r, next)
  BY DEF Begin, BeginWithUser, BeginRefresh, BeginLogout
<1>8. req[r].pc = "new"
  BY <1>7 DEF Arrive
<1> QED
  BY <1>1, <1>6, <1>7, <1>8 DEF Consistent, OutcomeFits

\* The steps that leave the history of arrivals and meetings alone, in one.
LEMMA LaterStep ==
  ASSUME Consistent, NEW r \in Reqs, Statement(r) \/ Commit(r) \/ Reply(r),
         NEW w, w = req[r], NEW v, v = req'[r]
  PROVE  /\ Active(r)
         /\ \A q \in Reqs \ {r} : req'[q] = req[q]
         /\ UNCHANGED <<now, before, met>>
         /\ v.op = w.op /\ v.key = w.key
         /\ committed \subseteq committed'
         /\ committed' \subseteq committed \cup {r}
         /\ ~ Commit(r) => committed' = committed
         /\ ~ Commit(r) => UNCHANGED <<token, live, maker>>
<1>1. CASE Statement(r)
  BY <1>1, StatementFollows DEF Follows
<1>2. CASE Commit(r) \/ Reply(r)
  BY <1>2, EndFollows DEF Commit, Reply
<1> QED
  BY <1>1, <1>2

LEMMA TickOnly ==
  ASSUME Tick \/ UNCHANGED vars
  PROVE  UNCHANGED <<token, live, held, req, committed, maker, before, met>>
BY DEF Tick, vars

LEMMA MeetingsStay ==
  ASSUME Consistent, MeetingsKnown, [Next]_vars
  PROVE  MeetingsKnown'
<1>1. CASE Tick \/ UNCHANGED vars
  BY <1>1, TickOnly DEF MeetingsKnown, Active
<1>2. ASSUME NEW r \in Reqs, Begin(r)
      PROVE  MeetingsKnown'
  <2>1. /\ Arrive(r, req'[r])
        /\ \A q \in Reqs \ {r} : req'[q] = req[q]
    BY <1>2, BeginFollows
  <2>2. /\ before' = [before EXCEPT ![r] = committed]
        /\ committed' = committed
        /\ met' = [q \in Reqs |->
                     IF q = r THEN {x \in Reqs \ {r} : Active(x)}
                     ELSE IF q \in {x \in Reqs \ {r} : Active(x)} THEN met[q] \cup {r} ELSE met[q]]
    BY <2>1 DEF Arrive
  <2>3. \A q \in Reqs \ {r} : Active(q)' <=> Active(q)
    BY <2>1 DEF Active
  <2>4. before \in [Reqs -> SUBSET Reqs]
    BY DEF Consistent, Typed
  <2> QED
    BY <2>2, <2>3, <2>4 DEF MeetingsKnown
<1>3. ASSUME NEW r \in Reqs, Statement(r) \/ Commit(r) \/ Reply(r)
      PROVE  MeetingsKnown'
  <2>1. /\ Active(r)
        /\ \A q \in Reqs \ {r} : req'[q] = req[q]
        /\ UNCHANGED <<now, before, met>>
        /\ committed \subseteq committed' /\ committed' \subseteq committed \cup {r}
    BY <1>3, LaterStep
  <2>2. \A q \in Reqs \ {r} : Active(q)' <=> Active(q)
    BY <2>1 DEF Active
  <2>3. \A q \in Reqs : Active(q)' => Active(q)
    BY <2>1, <2>2
  <2>4. before' = before /\ met' = met
    BY <2>1
  <2>5. \A p \in Reqs : before'[p] \subseteq committed'
    BY <2>1, <2>4 DEF MeetingsKnown
  <2>6. \A p, q \in Reqs : p # q /\ Active(p)' /\ Active(q)' => q \in met'[p]
    BY <2>3, <2>4 DEF MeetingsKnown
  <2>7. ASSUME NEW p \in Reqs, Active(p)'
        PROVE  committed' \subseteq before'[p] \cup met'[p] \cup {p}
    <3>1. Active(p) /\ (p # r => r \in met[p])
      BY <2>1, <2>3, <2>7 DEF MeetingsKnown
    <3> QED
      BY <2>1, <2>4, <3>1 DEF MeetingsKnown
  <2> QED
    BY <2>5, <2>6, <2>7 DEF MeetingsKnown
<1> QED
  BY <1>1, <1>2, <1>3, StepCases

LEMMA FirstUseStays ==
  ASSUME Consistent, MeetingsKnown, FirstUse, [Next]_vars
  PROVE  FirstUse'
<1>1. CASE Tick \/ UNCHANGED vars
  BY <1>1, TickOnly DEF FirstUse
<1>2. ASSUME NEW r \in Reqs, Begin(r)
      PROVE  FirstUse'
  <2>1. /\ Arrive(r, req'[r]) /\ r \notin committed
        /\ \A q \in Reqs \ {r} : req'[q] = req[q]
        /\ req'[r].new = NoKey
        /\ req'[r].pc \in {"touch", "user", "owner", "scan", "revoke", "done"}
        /\ req'[r].pc = "owner" => req'[r].key \in Keys /\ token[req'[r].key].st # "revoked"
        /\ req'[r].op = "refresh" => req'[r].pc # "revoke"
    BY <1>2, BeginFollows
  <2>2. before' = [before EXCEPT ![r] = committed] /\ before \in [Reqs -> SUBSET Reqs]
    BY <2>1 DEF Arrive, Consistent, Typed
  <2>3. \A q \in committed : q \in Reqs \ {r} /\ req'[q] = req[q]
    BY <2>1 DEF Consistent, Typed
  <2>4. ASSUME NEW p \in Reqs \ {r}, Exchanging(req'[p]), NEW q \in before'[p]
        PROVE  ~ Uses(req'[q], req'[p].key)
    <3>1. q \in before[p] /\ q \in committed
      BY <2>2 DEF MeetingsKnown
    <3>2. req'[p] = req[p] /\ req'[q] = req[q]
      BY <2>1, <2>3, <3>1
    <3> QED
      BY <2>4, <3>1, <3>2 DEF FirstUse
  <2>5. ASSUME Exchanging(req'[r]), NEW q \in before'[r]
        PROVE  ~ Uses(req'[q], req'[r].key)
    <3>1. token[req'[r].key].st # "revoked"
      BY <2>1, <2>5 DEF Exchanging
    <3>2. q \in committed /\ req'[q] = req[q] /\ q \in Reqs
      BY <2>2, <2>3
    <3>3. req[q].op \in {"refresh", "logout"} => token[req[q].key].st = "revoked"
      BY <3>2 DEF Consistent, OutcomeFits
    <3> QED
      BY <3>1, <3>2, <3>3 DEF Uses
  <2> QED
    BY <2>4, <2>5 DEF FirstUse
<1>3. ASSUME NEW r \in Reqs, Statement(r) \/ Commit(r) \/ Reply(r)
      PROVE  FirstUse'
  <2>1. /\ \A q \in Reqs \ {r} : req'[q] = req[q]
        /\ before' = before
        /\ req'[r].op = req[r].op /\ req'[r].key = req[r].key
    BY <1>3, LaterStep
  <2>2. Exchanging(req'[r]) => Exchanging(req[r])
    <3>1. CASE Statement(r)
      <4>1. PICK w, v : w = req[r] /\ v = req'[r]
        OBVIOUS
      <4>2. Follows(w, v) /\ Control(w)
        BY <3>1, <4>1, StatementFollows
      <4>3. v.pc = "insert" /\ v.op = "refresh" => w.pc = "revoke"
        BY <4>2 DEF Follows, Order, Control, Path, AllOps
      <4>4. Exchanging(v) => Exchanging(w)
        BY <4>2, <4>3 DEF Follows, Order, Exchanging
      <4> QED
        BY <4>1, <4>4
    <3>2. CASE Commit(r) \/ Reply(r)
      BY <3>2, EndFollows DEF Exchanging
    <3> QED
      BY <1>3, <3>1, <3>2
  <2>3. before \in [Reqs -> SUBSET Reqs]
    BY DEF Consistent, Typed
  <2>4. ASSUME NEW p \in Reqs, Exchanging(req'[p]), NEW q \in before'[p]
        PROVE  ~ Uses(req'[q], req'[p].key)
    <3>1. q \in Reqs /\ q \in before[p] /\ Exchanging(req[p])
      BY <2>1, <2>2, <2>3, <2>4
    <3>2. req'[p].key = req[p].key /\ req'[q].op = req[q].op /\ req'[q].key = req[q].key
      BY <2>1, <3>1
    <3> QED
      BY <3>1, <3>2 DEF FirstUse, Uses
  <2> QED
    BY <2>4 DEF FirstUse
<1> QED
  BY <1>1, <1>2, <1>3, StepCases

LEMMA FoundLiveStays ==
  ASSUME Consistent, MeetingsKnown, FoundLive, [Next]_vars
  PROVE  FoundLive'
<1>1. CASE Tick \/ UNCHANGED vars
  BY <1>1, TickOnly DEF FoundLive
<1>2. \A q \in committed : q \in Reqs /\ (req[q].op = "deactivate" => ~ live)
  BY DEF Consistent, Typed, OutcomeFits
<1>3. ASSUME NEW r \in Reqs, Begin(r)
      PROVE  FoundLive'
  <2>1. /\ Arrive(r, req'[r]) /\ r \notin committed
        /\ \A q \in Reqs \ {r} : req'[q] = req[q]
        /\ req'[r].new = NoKey
        /\ req'[r].pc \in {"touch", "user", "owner", "scan", "revoke", "done"}
        /\ req'[r].pc = "touch" => live
        /\ req'[r].op = "refresh" => req'[r].pc # "revoke"
    BY <1>3, BeginFollows
  <2>2. before' = [before EXCEPT ![r] = committed] /\ before \in [Reqs -> SUBSET Reqs]
    BY <2>1 DEF Arrive, Consistent, Typed
  <2>3. \A q \in committed : q \in Reqs \ {r} /\ req'[q] = req[q]
    BY <1>2, <2>1
  <2>4. ASSUME NEW p \in Reqs \ {r}, Getting(req'[p]), NEW q \in before'[p]
        PROVE  req'[q].op # "deactivate"
    BY <2>1, <2>2, <2>3, <2>4 DEF MeetingsKnown, FoundLive
  <2>5. ASSUME Getting(req'[r]), NEW q \in before'[r]
        PROVE  req'[q].op # "deactivate"
    BY <1>2, <2>1, <2>2, <2>3, <2>5 DEF Getting
  <2> QED
    BY <2>4, <2>5 DEF FoundLive
<1>4. ASSUME NEW r \in Reqs, Statement(r) \/ Commit(r) \/ Reply(r)
      PROVE  FoundLive'
  <2>1. /\ \A q \in Reqs \ {r} : req'[q] = req[q]
        /\ before' = before
        /\ req'[r].op = req[r].op
    BY <1>4, LaterStep
  <2>2. Getting(req'[r]) => Getting(req[r]) \/ live
    <3>1. CASE Statement(r)
      <4>1. PICK w, v : w = req[r] /\ v = req'[r]
        OBVIOUS
      <4>2. Follows(w, v) /\ Control(w) /\ Control(v) /\ w.op \in AllOps \cup {"none"}
        BY <3>1, <4>1, StatementFollows, AboutRequest DEF Requests
      <4>3. v.pc = "insert" => w.pc = "touch" \/ (w.op = "refresh" /\ w.pc = "revoke")
        BY <4>2 DEF Follows, Order, Control, Path, AllOps
      <4>4. Getting(v) => Getting(w) \/ live
        BY <4>2, <4>3 DEF Follows, Order, Getting
      <4> QED
        BY <4>1, <4>4
    <3>2. CASE Commit(r) \/ Reply(r)
      BY <3>2, EndFollows DEF Getting
    <3> QED
      BY <1>4, <3>1, <3>2
  <2>3. ASSUME NEW p \in Reqs, Getting(req'[p]), NEW q \in before'[p]
        PROVE  req'[q].op # "deactivate"
    <3>1. q \in before[p] /\ q \in committed /\ q \in Reqs
      BY <1>2, <2>1 DEF MeetingsKnown
    <3>2. req'[q].op = req[q].op
      BY <2>1, <3>1
    <3>3. Getting(req[p]) \/ live
      BY <2>1, <2>2, <2>3
    <3> QED
      BY <1>2, <3>1, <3>2, <3>3 DEF FoundLive
  <2> QED
    BY <2>3 DEF FoundLive
<1> QED
  BY <1>1, <1>3, <1>4, StepCases

\* What Revoking says of the request's place in its code.
LEMMA RevokingPlaces ==
  ASSUME NEW q, Revoking(q)
  PROVE  /\ q.pc \in {"bulk", "commit"}
         /\ q.op \in {"change", "deactivate", "refresh"}
         /\ q.pc = "commit" /\ q.op = "refresh" => q.new = NoKey
BY DEF Revoking, Detecting

\* The snapshot of a bulk revocation lists every good token in its scope.
LEMMA ScanAccounts ==
  ASSUME Consistent, NEW r \in Reqs, ScanTokens(r), NEW k \in Scope(r), token[k].st = "good"
  PROVE  \E i \in 1 .. Len(req'[r].todo) : req'[r].todo[i] = k
<1> DEFINE S == {c \in Scope(r) : token[c].st = "good"}
<1>1. PICK s \in SetToSeqs(S) : Proceed(r, [req[r] EXCEPT !.todo = s, !.pc = AfterBulk(r, s)])
  BY DEF ScanTokens
<1>2. req'[r] = [req[r] EXCEPT !.todo = s, !.pc = AfterBulk(r, s)]
  BY <1>1, ProceedOneRequest
<1>3. req'[r].todo = s
  BY <1>2, AboutRequest DEF Requests
<1>4. IsFiniteSet(S) /\ k \in S
  BY TokensAssumption, FS_Subset DEF Scope
<1> HIDE DEF S
<1> QED
  BY <1>1, <1>3, <1>4, OrderCoversSet

LEMMA RevokeNextAccounts ==
  ASSUME Consistent, NEW r \in Reqs, RevokeNext(r), NEW k \in Keys, token[k].st = "good",
         Accounted(r, k)
  PROVE  Accounted(r, k)'
<1>1. PICK w : w = req[r]
  OBVIOUS
<1>2. w \in Requests /\ w.todo \in Seq(Keys) /\ w.todo # << >> /\ w.writes \in Writings
  BY <1>1, AboutRequest DEF RevokeNext, Control, Requests
<1>3. PICK head, rest : head = Head(w.todo) /\ rest = Tail(w.todo)
  OBVIOUS
<1>4. PICK rows : rows = IF token[head].st = "revoked" THEN w.writes ELSE Written(r, head, Revoked(head))
  OBVIOUS
<1>5. PICK next : next = [w EXCEPT !.todo = rest, !.pc = AfterBulk(r, rest), !.writes = rows]
  OBVIOUS
<1>6. Proceed(r, next)
  BY <1>1, <1>2, <1>3, <1>4, <1>5 DEF RevokeNext, Requests
<1>7. DOMAIN w.writes \subseteq DOMAIN rows /\ (head = k => k \in DOMAIN rows)
  BY <1>1, <1>4 DEF Written
<1>8. next.todo = rest /\ next.writes = rows
  BY <1>2, <1>5 DEF Requests
<1>9. req'[r] = next /\ maker' = maker /\ met' = met
  BY <1>6, ProceedOneRequest
<1>10. CASE \E i \in 1 .. Len(w.todo) : w.todo[i] = k
  <2>1. PICK i \in 1 .. Len(w.todo) : w.todo[i] = k
    BY <1>10
  <2>2. PICK s \in Seq(Keys) : s = w.todo
    BY <1>2
  <2>3. /\ \A j \in 1 .. Len(s) : s[j] = Head(s) \/ \E l \in 1 .. Len(Tail(s)) : Tail(s)[l] = s[j]
    BY <1>2, <2>2, HeadOrTail
  <2>4. head = k \/ \E j \in 1 .. Len(rest) : rest[j] = k
    BY <1>3, <2>1, <2>2, <2>3
  <2> QED
    BY <1>7, <1>8, <1>9, <2>4 DEF Accounted
<1>11. CASE k \in DOMAIN w.writes \/ maker[k] \in met[r]
  BY <1>7, <1>8, <1>9, <1>11 DEF Accounted
<1> QED
  BY <1>1, <1>10, <1>11 DEF Accounted

LEMMA NoneOverlookedStays ==
  ASSUME Consistent, MeetingsKnown, NoneOverlooked, [Next]_vars
  PROVE  NoneOverlooked'
<1>1. CASE Tick \/ UNCHANGED vars
  BY <1>1, TickOnly DEF NoneOverlooked, Accounted, Scope
<1> SUFFICES ASSUME NEW p \in Reqs, Revoking(req'[p]), NEW k \in Scope(p)', token'[k].st = "good",
                    NEW r \in Reqs, Begin(r) \/ Statement(r) \/ Commit(r) \/ Reply(r)
             PROVE  Accounted(p, k)'
  BY <1>1, StepCases DEF NoneOverlooked
<1>2. k \in Keys
  BY DEF Scope
<1>3. /\ req'[p].pc \in {"bulk", "commit"} /\ req'[p].op \in {"change", "deactivate", "refresh"}
      /\ req'[p].pc = "commit" /\ req'[p].op = "refresh" => req'[p].new = NoKey
  BY RevokingPlaces
<1>4. CASE Begin(r)
  <2>1. p # r /\ req'[p] = req[p] /\ Arrive(r, req'[r])
    BY <1>3, <1>4, BeginFollows
  <2>2. UNCHANGED <<token, maker>> /\ met[p] \subseteq met'[p]
    BY <2>1 DEF Arrive
  <2>3. Scope(p)' = Scope(p)
    BY <2>1, <2>2 DEF Scope
  <2> QED
    BY <2>1, <2>2, <2>3 DEF NoneOverlooked, Accounted
<1>5. CASE Reply(r)
  <2>1. p # r
    BY <1>3, <1>5, EndFollows
  <2>2. req'[p] = req[p] /\ met' = met
    BY <1>5, <2>1, LaterStep
  <2>3. UNCHANGED <<token, maker>>
    BY <1>5 DEF Reply
  <2>4. Scope(p)' = Scope(p)
    BY <2>2, <2>3 DEF Scope
  <2> QED
    BY <2>2, <2>3, <2>4 DEF NoneOverlooked, Accounted
<1>6. CASE Statement(r)
  <2>1. PICK w, v : w = req[r] /\ v = req'[r]
    OBVIOUS
  <2>2. /\ \A q \in Reqs \ {r} : req'[q] = req[q]
        /\ UNCHANGED <<token, live, held, now, committed, maker, before, met>>
        /\ Follows(w, v)
        /\ w.pc = "scan" /\ v.pc # "done" => ScanTokens(r)
        /\ w.pc = "bulk" /\ v.pc # "done" => RevokeNext(r)
    BY <1>6, <2>1, StatementFollows
  <2>3. req'[p].op = req[p].op /\ req'[p].key = req[p].key
    BY <2>1, <2>2 DEF Follows
  <2>4. Scope(p)' = Scope(p)
    BY <2>2, <2>3 DEF Scope
  <2>5. CASE p # r
    BY <2>2, <2>4, <2>5 DEF NoneOverlooked, Accounted
  <2>6. CASE p = r
    <3>1. Control(w) /\ w.op \in AllOps \cup {"none"}
      BY <2>1, AboutRequest DEF Requests
    \* An exchange, a login or a logout revokes nothing in bulk.
    <3>2. w.pc \in {"scan", "bulk"}
      <4>1. w.op \in {"change", "deactivate", "refresh"} /\ v.pc \in {"bulk", "commit"}
        BY <1>3, <2>1, <2>3, <2>6
      <4>2. v.pc = "commit" /\ v.op = "refresh" => v.new = NoKey
        BY <1>3, <2>1, <2>6
      <4> QED
        BY <2>2, <3>1, <4>1, <4>2 DEF Follows, Order, Control, Path, AllOps
    <3>3. CASE w.pc = "scan"
      BY <1>3, <2>1, <2>2, <2>4, <2>6, <3>3, ScanAccounts DEF Accounted
    <3>4. CASE w.pc = "bulk"
      <4>1. Revoking(w)
        BY <1>3, <2>1, <2>3, <2>6, <3>4 DEF Revoking, Detecting
      <4>2. Accounted(r, k)
        BY <2>1, <2>2, <2>4, <2>6, <4>1 DEF NoneOverlooked
      <4>3. RevokeNext(r)
        BY <1>3, <2>1, <2>2, <2>6, <3>4
      <4> QED
        BY <1>2, <2>2, <2>6, <4>2, <4>3, RevokeNextAccounts
    <3> QED
      BY <3>2, <3>3, <3>4
  <2> QED
    BY <2>5, <2>6
<1>7. CASE Commit(r)
  <2>1. PICK w : w = req[r]
    OBVIOUS
  <2>2. /\ \A c \in Keys : c \notin DOMAIN w.writes => token'[c] = token[c]
        /\ \A c \in DOMAIN w.writes \ {w.new} : c \in Keys /\ token'[c] = Revoked(c)
        /\ \A c \in Keys : token[c].st # "absent" => token'[c].fam = token[c].fam
        /\ w.new # NoKey => token[w.new].st = "absent"
    BY <1>7, <2>1, CommitWrites DEF FreshRow
  <2>3. p # r
    BY <1>3, <1>7, EndFollows
  <2>4. req'[p] = req[p] /\ met' = met /\ Active(r)
    BY <1>7, <2>3, LaterStep
  <2>5. Revoking(req[p]) /\ Active(p)
    BY <1>3, <2>4 DEF Active
  <2>6. maker' = [c \in Keys |-> IF c = w.new THEN r ELSE maker[c]]
    BY <1>7, <2>1 DEF Commit
  <2>7. CASE k = w.new
    <3>1. maker'[k] = r /\ r \in met'[p]
      BY <1>2, <2>3, <2>4, <2>5, <2>6, <2>7 DEF MeetingsKnown
    <3> QED
      BY <3>1 DEF Accounted
  <2>8. CASE k # w.new
    <3>1. k \notin DOMAIN w.writes
      <4> SUFFICES ASSUME k \in DOMAIN w.writes PROVE FALSE
        OBVIOUS
      <4>1. token'[k] = Revoked(k)
        BY <2>2, <2>8
      <4> QED
        BY <1>2, <4>1 DEF Revoked, Consistent, Typed, Rows
    <3>2. token'[k] = token[k] /\ maker'[k] = maker[k]
      BY <1>2, <2>2, <2>6, <2>8, <3>1
    <3>3. k \in Scope(p)
      <4>1. req[p].op = "refresh" =>
              req[p].key \in Keys /\ token[req[p].key].st # "absent"
        BY AboutRequest DEF Control
      <4> QED
        BY <1>2, <2>2, <2>4, <3>2, <4>1 DEF Scope
    <3> QED
      BY <2>4, <2>5, <3>2, <3>3 DEF NoneOverlooked, Accounted
  <2> QED
    BY <2>7, <2>8
<1> QED
  BY <1>4, <1>5, <1>6, <1>7

\* What is exchanged stays exchanged, and only a commit exchanges.
LEMMA ExchangesStay ==
  ASSUME Consistent, NEW r \in Reqs, Begin(r) \/ Statement(r) \/ Commit(r) \/ Reply(r)
  PROVE  /\ \A q \in Reqs : Exchanged(q) => Exchanged(q)' /\ req'[q].key = req[q].key
         /\ ~ Commit(r) => \A q \in Reqs : Exchanged(q)' <=> Exchanged(q)
         /\ \A q \in Reqs \ {r} : Exchanged(q)' <=> Exchanged(q)
         /\ \A q \in Reqs : Exchanged(q) => met[q] \subseteq met'[q]
<1>1. CASE Begin(r)
  <2>1. Arrive(r, req'[r]) /\ r \notin committed /\ \A q \in Reqs \ {r} : req'[q] = req[q]
    BY <1>1, BeginFollows
  <2>2. committed' = committed /\ \A q \in Reqs \ {r} : met[q] \subseteq met'[q]
    BY <2>1 DEF Arrive
  <2> QED
    BY <2>1, <2>2 DEF Exchanged
<1>2. CASE Statement(r)
  <2>1. PICK w, v : w = req[r] /\ v = req'[r]
    OBVIOUS
  <2>2. /\ \A q \in Reqs \ {r} : req'[q] = req[q]
        /\ committed' = committed /\ met' = met
        /\ Follows(w, v) /\ Control(w)
    BY <1>2, <2>1, StatementFollows
  <2>3. r \in committed => w.pc \in {"audit", "done"}
    BY <2>1 DEF Consistent, OutcomeFits
  <2> QED
    BY <2>1, <2>2, <2>3 DEF Exchanged, Follows
<1>3. CASE Commit(r) \/ Reply(r)
  <2>1. /\ \A q \in Reqs \ {r} : req'[q] = req[q]
        /\ met' = met
        /\ req'[r].op = req[r].op /\ req'[r].key = req[r].key /\ req'[r].new = req[r].new
    BY <1>3, EndFollows
  <2>2. /\ committed \subseteq committed' /\ committed' \subseteq committed \cup {r}
        /\ ~ Commit(r) => committed' = committed
    BY <1>3, LaterStep
  <2> QED
    BY <2>1, <2>2 DEF Exchanged
<1> QED
  BY <1>1, <1>2, <1>3

\* A family that has forked stays forked.
LEMMA ForksStay ==
  ASSUME Consistent, NEW r \in Reqs, Begin(r) \/ Statement(r) \/ Commit(r) \/ Reply(r),
         NEW family, Forked(family)
  PROVE  Forked(family)'
<1>1. PICK p, q : /\ p \in Reqs /\ q \in met[p]
                  /\ Exchanged(p) /\ Exchanged(q)
                  /\ req[p].key = req[q].key
                  /\ token[req[p].key].fam = family
  BY DEF Forked
<1>2. q \in Reqs
  BY <1>1 DEF Consistent, Typed
<1>3. /\ Exchanged(p)' /\ Exchanged(q)' /\ q \in met'[p]
      /\ req'[p].key = req[p].key /\ req'[q].key = req[q].key
  BY <1>1, <1>2, ExchangesStay
<1>4. req[p].key \in Keys /\ token[req[p].key].st # "absent"
  BY <1>1, AboutRequest DEF Exchanged, Control
<1>5. token'[req[p].key].fam = token[req[p].key].fam
  <2>1. CASE Commit(r)
    BY <1>4, <2>1, CommitWrites
  <2>2. CASE ~ Commit(r)
    BY <2>2, LaterStep, BeginFollows DEF Arrive
  <2> QED
    BY <2>1, <2>2
<1> QED
  BY <1>1, <1>3, <1>5 DEF Forked

LEMMA OneLastTokenStays ==
  ASSUME Consistent, MeetingsKnown, FirstUse, OneLastToken, [Next]_vars
  PROVE  OneLastToken'
<1>1. CASE Tick \/ UNCHANGED vars
  BY <1>1, TickOnly DEF OneLastToken, Unexchanged, Forked, Exchanged
<1>2. ASSUME NEW r \in Reqs, Begin(r) \/ Statement(r) \/ Reply(r), ~ Commit(r)
      PROVE  OneLastToken'
  <2>1. token' = token
    BY <1>2, LaterStep, BeginFollows DEF Arrive
  <2>2. /\ \A q \in Reqs : Exchanged(q) => Exchanged(q)' /\ req'[q].key = req[q].key
        /\ \A q \in Reqs : Exchanged(q)' <=> Exchanged(q)
    BY <1>2, ExchangesStay
  <2>3. \A k \in Keys : Unexchanged(k)' => Unexchanged(k)
    BY <2>1, <2>2 DEF Unexchanged
  <2>4. \A family : Forked(family) => Forked(family)'
    BY <1>2, ForksStay
  <2>5. ASSUME NEW k \in Keys, NEW l \in Keys, k # l, Unexchanged(k)', Unexchanged(l)',
               token'[k].fam = token'[l].fam, NEW family, family = token'[k].fam
        PROVE  Forked(family)'
    BY <2>1, <2>3, <2>4, <2>5 DEF OneLastToken
  <2> QED
    BY <2>5 DEF OneLastToken
<1>3. ASSUME NEW r \in Reqs, Commit(r)
      PROVE  OneLastToken'
  <2>1. PICK w : w = req[r]
    OBVIOUS
  <2>2. /\ \A c \in Keys : c \notin DOMAIN w.writes => token'[c] = token[c]
        /\ \A c \in DOMAIN w.writes \ {w.new} : c \in Keys /\ token[c].st # "absent"
        /\ w.new # NoKey => w.new \in Keys /\ FreshRow(w) /\ token'[w.new] = w.writes[w.new]
        /\ \A c \in Keys : token[c].st # "absent" => token'[c].fam = token[c].fam
    BY <1>3, <2>1, CommitWrites
  <2>3. \A family : Forked(family) => Forked(family)'
    BY <1>3, ForksStay
  <2>4. /\ \A q \in Reqs : Exchanged(q) => Exchanged(q)' /\ req'[q].key = req[q].key
        /\ \A q \in Reqs \ {r} : Exchanged(q)' <=> Exchanged(q)
    BY <1>3, ExchangesStay
  <2>5. \A k \in Keys : Unexchanged(k)' /\ k # w.new => Unexchanged(k)
    BY <2>2, <2>4 DEF Unexchanged
  <2>6. /\ w.pc = "commit" /\ Control(w) /\ r \notin committed /\ Active(r)
        /\ w.key # NoKey => w.key \in Keys /\ token[w.key].st # "absent"
    BY <1>3, <2>1, AboutRequest DEF Commit, Active
  <2>7. /\ req'[r].op = w.op /\ req'[r].key = w.key /\ req'[r].new = w.new
        /\ met' = met
    BY <1>3, <2>1, EndFollows
  <2>8. committed' = committed \cup {r}
    BY <1>3 DEF Commit
  \* The new token and another unexchanged one of its family.
  <2>9. ASSUME w.new # NoKey, NEW l \in Keys, l # w.new, Unexchanged(l)',
               token'[l].fam = token'[w.new].fam, NEW family, family = token'[l].fam
        PROVE  Forked(family)'
    <3>1. Unexchanged(l) /\ token[l].st # "absent" /\ token'[l].fam = token[l].fam
      BY <2>2, <2>5, <2>9 DEF Unexchanged
    <3>2. token[l].fam \in Keys /\ token[token[l].fam].st # "absent"
      BY <3>1 DEF Consistent, TokensFit, NoToken
    <3>3. token'[w.new].fam = Family(w) /\ token[w.new].st = "absent"
      BY <2>2, <2>9 DEF FreshRow
    <3>4. w.op = "refresh"
      BY <2>9, <3>1, <3>2, <3>3 DEF Family
    <3>5. w.key \in Keys /\ token[w.key].st # "absent" /\ token[w.key].fam = token[l].fam
      BY <2>6, <2>9, <3>1, <3>3, <3>4 DEF Family, Control
    <3>6. Exchanged(r)'
      BY <2>7, <2>9, <2>8, <3>4 DEF Exchanged
    <3>7. l # w.key
      BY <2>7, <2>9, <3>6 DEF Unexchanged
    <3>8. CASE Unexchanged(w.key)
      BY <2>3, <2>9, <3>1, <3>5, <3>7, <3>8 DEF OneLastToken
    <3>9. CASE ~ Unexchanged(w.key)
      <4>1. PICK q \in Reqs : Exchanged(q) /\ req[q].key = w.key
        BY <3>5, <3>9 DEF Unexchanged
      <4>2. Exchanging(w) /\ Uses(req[q], w.key)
        BY <2>9, <3>4, <4>1 DEF Exchanging, Uses, Exchanged
      <4>3. q \in met[r]
        BY <2>1, <2>6, <4>1, <4>2 DEF FirstUse, MeetingsKnown, Exchanged
      <4>4. Exchanged(q)' /\ req'[q].key = w.key
        BY <2>4, <4>1
      <4>5. token'[w.key].fam = token'[l].fam
        BY <2>2, <3>1, <3>5
      <4> QED
        BY <2>7, <2>9, <3>6, <4>3, <4>4, <4>5 DEF Forked
    <3> QED
      BY <3>8, <3>9
  <2>10. ASSUME NEW k \in Keys, NEW l \in Keys, k # l, Unexchanged(k)', Unexchanged(l)',
               token'[k].fam = token'[l].fam, NEW family, family = token'[k].fam
        PROVE  Forked(family)'
    <3>1. CASE k # w.new /\ l # w.new
      <4>1. Unexchanged(k) /\ Unexchanged(l)
        BY <2>5, <2>10, <3>1
      <4>2. token'[k].fam = token[k].fam /\ token'[l].fam = token[l].fam
        BY <2>2, <4>1 DEF Unexchanged
      <4> QED
        BY <2>3, <2>10, <4>1, <4>2 DEF OneLastToken
    <3>2. CASE k = w.new
      BY <2>9, <2>10, <3>2, TokensAssumption
    <3>3. CASE l = w.new
      BY <2>9, <2>10, <3>3, TokensAssumption
    <3> QED
      BY <3>1, <3>2, <3>3
  <2> QED
    BY <2>10 DEF OneLastToken
<1> QED
  BY <1>1, <1>2, <1>3, StepCases

-----------------------------------------------------------------------------
Histories ==
  /\ Consistent
  /\ MeetingsKnown
  /\ FirstUse
  /\ FoundLive
  /\ NoneOverlooked
  /\ OneLastToken

LEMMA HistoriesStart == Init => Histories
<1> SUFFICES ASSUME Init PROVE Histories
  OBVIOUS
<1>1. /\ \A r \in Reqs : /\ req[r].pc = "new" /\ req[r].new = NoKey /\ req[r].op = "none"
                         /\ before[r] = {} /\ met[r] = {}
      /\ committed = {}
      /\ \A k \in Keys \ {First} : token[k].st = "absent"
  BY DEF Init, NewReq, NoToken
<1>2. Consistent
  BY InitConsistent
<1>3. MeetingsKnown /\ FirstUse /\ FoundLive
  BY <1>1 DEF MeetingsKnown, Active, FirstUse, FoundLive
<1>4. NoneOverlooked
  BY <1>1 DEF NoneOverlooked, Revoking, Detecting
<1>5. OneLastToken
  BY <1>1 DEF OneLastToken, Unexchanged
<1> QED
  BY <1>2, <1>3, <1>4, <1>5 DEF Histories

LEMMA AlwaysHistories == Spec => []Histories
<1>1. Histories /\ [Next]_vars => Histories'
  BY ConsistentStays, MeetingsStay, FirstUseStays, FoundLiveStays, NoneOverlookedStays,
     OneLastTokenStays DEF Histories
<1> QED
  BY <1>1, HistoriesStart, PTL DEF Spec

(***************************************************************************)
(* refresh_access_token never exchanges a token whose exchange or logout   *)
(* had been committed when the request arrived: only requests that overlap *)
(* can use a token twice, in any number.                                   *)
(***************************************************************************)
THEOREM ReuseOnlyByOverlap == Spec => []ReuseNeedsOverlap
<1>1. ASSUME Histories PROVE ReuseNeedsOverlap
  BY <1>1 DEF Histories, FirstUse, ReuseNeedsOverlap, Exchanged, Exchanging, Uses
<1> QED
  BY <1>1, AlwaysHistories, PTL

(***************************************************************************)
(* Two good tokens in one family are always the work of two overlapping    *)
(* exchanges of one token: _generate_tokens and revoke_token commit        *)
(* together, and nothing else makes a token in an existing family.         *)
(***************************************************************************)
THEOREM ForksOnlyByDoubleUse == Spec => []ForkNeedsDoubleUse
<1>1. ASSUME Histories PROVE ForkNeedsDoubleUse
  <2>1. ASSUME NEW k \in Keys, token[k].st = "good"
        PROVE  Unexchanged(k)
    <3>1. \A r \in Reqs : Exchanged(r) => token[req[r].key].st = "revoked"
      BY <1>1 DEF Histories, Consistent, OutcomeFits, Exchanged
    <3> QED
      BY <2>1, <3>1 DEF Unexchanged
  <2> QED
    BY <1>1, <2>1 DEF Histories, OneLastToken, Forked, ForkNeedsDoubleUse
<1> QED
  BY <1>1, AlwaysHistories, PTL

(***************************************************************************)
(* Whoever arrives after deactivate_user has committed gets no token, not  *)
(* by a login nor by refreshing one that an overlapping request left good. *)
(***************************************************************************)
THEOREM NothingAfterDeactivation == Spec => []DeactivatedGetsNothing
<1>1. ASSUME Histories PROVE DeactivatedGetsNothing
  BY <1>1 DEF Histories, Consistent, Typed, FoundLive, Getting, DeactivatedGetsNothing
<1> QED
  BY <1>1, AlwaysHistories, PTL

(***************************************************************************)
(* revoke_user_tokens and revoke_token_family miss nothing they should     *)
(* have seen: a token in scope that is good when the revocation commits    *)
(* was made by a request that overlapped it.                               *)
(***************************************************************************)
THEOREM RevocationComplete == Spec => RevocationMissesOnlyOverlap
<1> DEFINE Missed ==
      \A r \in committed' \ committed, k \in Keys :
         /\ token'[k].st = "good"
         /\ \/ req[r].op \in {"change", "deactivate"}
            \/ req[r].op = "refresh" /\ req[r].new = NoKey /\ token'[k].fam = token[req[r].key].fam
         => maker'[k] \in met[r]
<1>1. ASSUME Histories, [Next]_vars PROVE [Missed]_vars
  <2> SUFFICES ASSUME NEW r \in committed' \ committed, NEW k \in Keys, token'[k].st = "good",
                      \/ req[r].op \in {"change", "deactivate"}
                      \/ /\ req[r].op = "refresh" /\ req[r].new = NoKey
                         /\ token'[k].fam = token[req[r].key].fam
               PROVE  maker'[k] \in met[r]
    OBVIOUS
  <2>1. Consistent /\ NoneOverlooked
    BY <1>1 DEF Histories
  <2>2. r \in Reqs /\ Commit(r)
    <3>1. \A q \in Reqs : Begin(q) => committed' = committed
      BY DEF Begin, BeginWithUser, BeginRefresh, BeginLogout, Arrive
    <3>2. ~ (Tick \/ UNCHANGED vars)
      BY TickOnly
    <3>3. PICK q \in Reqs : Statement(q) \/ Commit(q) \/ Reply(q)
      BY <1>1, <3>1, <3>2, StepCases
    <3>4. r = q /\ Commit(q)
      BY <2>1, <3>3, LaterStep
    <3> QED
      BY <3>4
  <2>3. PICK w : w = req[r]
    OBVIOUS
  <2>4. /\ w.pc = "commit" /\ Control(w) /\ w.todo = << >>
        /\ maker' = [c \in Keys |-> IF c = w.new THEN r ELSE maker[c]]
    BY <2>1, <2>2, <2>3, AboutRequest DEF Commit, Control
  <2>5. w.new = NoKey /\ Revoking(w)
    BY <2>3, <2>4 DEF Control, Revoking, Detecting
  <2>6. k \notin DOMAIN w.writes
    <3> SUFFICES ASSUME k \in DOMAIN w.writes PROVE FALSE
      OBVIOUS
    <3>1. token'[k] = Revoked(k)
      BY <2>1, <2>2, <2>3, <2>5, CommitWrites, TokensAssumption
    <3> QED
      BY <2>1, <3>1 DEF Revoked, Consistent, Typed, Rows
  <2>7. token'[k] = token[k] /\ maker'[k] = maker[k]
    BY <2>1, <2>2, <2>3, <2>4, <2>5, <2>6, CommitWrites, TokensAssumption
  <2>8. k \in Scope(r) /\ Accounted(r, k)
    BY <2>1, <2>2, <2>3, <2>5, <2>7 DEF Scope, NoneOverlooked
  <2> QED
    BY <2>3, <2>4, <2>6, <2>7, <2>8 DEF Accounted
<1> QED
  BY <1>1, AlwaysHistories, PTL DEF Spec, RevocationMissesOnlyOverlap

=============================================================================
