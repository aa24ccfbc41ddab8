------------------------ MODULE RefreshTokens_proofs ------------------------
(***************************************************************************)
(* Proofs about module RefreshTokens, for any requests and tokens, however *)
(* many and however they overlap.                                          *)
(***************************************************************************)
EXTENDS RefreshTokens, Finite_proofs

Positions == {"new", "touch", "user", "owner", "revoke", "insert", "scan", "bulk",
              "commit", "audit", "done"}
Outcomes == {"none", "no user", "bad jwt", "expired", "reuse", "ok", "failed"}
Rows == [st : {"absent", "good", "revoked"}, fam : Keys \cup {NoKey}, born : Int, exp : Int]
Writings == UNION {[ks -> Rows] : ks \in SUBSET Keys}
Requests == [pc : Positions, op : AllOps \cup {"none"}, key : Keys \cup {NoKey},
             new : Keys \cup {NoKey}, todo : Seq(Keys),
             writes : Writings, userLock : BOOLEAN, out : Outcomes]

Typed ==
  /\ now \in 0 .. MaxTime
  /\ token \in [Keys -> Rows]
  /\ live \in BOOLEAN
  /\ held \subseteq Keys
  /\ req \in [Reqs -> Requests]
  /\ committed \subseteq Reqs
  /\ maker \in [Keys -> Reqs \cup {"nobody"}]
  /\ before \in [Reqs -> SUBSET Reqs]
  /\ met \in [Reqs -> SUBSET Reqs]

(***************************************************************************)
(* The steps of a request inside its database transaction, and those of    *)
(* the specification: one disjunct per statement.                          *)
(***************************************************************************)
Statement(r) ==
  \/ ReadOwner(r) \/ RevokeToken(r) \/ TouchUser(r) \/ UpdateUser(r) \/ InsertToken(r)
  \/ ScanTokens(r) \/ RevokeNext(r) \/ Fail(r) \/ BreakDeadlock(r)

LEMMA StepCases ==
  ASSUME Next
  PROVE  \/ \E r \in Reqs : Begin(r) \/ Statement(r) \/ Commit(r) \/ Reply(r)
         \/ Tick
BY DEF Next, Step, Statement

(***************************************************************************)
(* What the helpers return.                                                *)
(***************************************************************************)
LEMMA WritingsAreFunctions ==
  ASSUME NEW w \in Writings
  PROVE  /\ DOMAIN w \subseteq Keys
         /\ w \in [DOMAIN w -> Rows]
<1>1. PICK ks \in SUBSET Keys : w \in [ks -> Rows]
  BY DEF Writings
<1> QED
  BY <1>1

LEMMA FunctionsAreWritings ==
  ASSUME NEW ks \in SUBSET Keys, NEW w \in [ks -> Rows]
  PROVE  w \in Writings
BY DEF Writings

LEMMA NothingWritten == NoWrites \in Writings /\ DOMAIN NoWrites = {}
<1>1. NoWrites \in [{} -> Rows] /\ DOMAIN NoWrites = {}
  BY DEF NoWrites
<1> QED
  BY <1>1, FunctionsAreWritings

LEMMA NewReqTyped == NewReq \in Requests
BY NothingWritten DEF NewReq, Requests, Positions, Outcomes

LEMMA AnswerTyped ==
  ASSUME NEW q \in Requests, NEW out \in Outcomes
  PROVE  Answer(q, out) \in Requests
<1>1. << >> \in Seq(Keys) /\ NoWrites \in Writings
  BY NothingWritten
<1>2. "done" \in Positions
  BY DEF Positions
<1> QED
  BY <1>1, <1>2 DEF Answer, Requests

LEMMA WrittenTyped ==
  ASSUME Typed, NEW r \in Reqs, NEW k \in Keys, NEW row \in Rows
  PROVE  /\ Written(r, k, row) \in Writings
         /\ DOMAIN Written(r, k, row) = DOMAIN req[r].writes \cup {k}
         /\ Written(r, k, row)[k] = row
         /\ \A c \in DOMAIN req[r].writes \ {k} : Written(r, k, row)[c] = req[r].writes[c]
<1>1. req[r].writes \in Writings
  BY DEF Typed, Requests
<1>2. DOMAIN req[r].writes \subseteq Keys /\ req[r].writes \in [DOMAIN req[r].writes -> Rows]
  BY <1>1, WritingsAreFunctions
<1>3. Written(r, k, row) \in [DOMAIN req[r].writes \cup {k} -> Rows]
  BY <1>2 DEF Written
<1>4. Written(r, k, row) \in Writings
  BY <1>2, <1>3, FunctionsAreWritings
<1> QED
  BY <1>2, <1>4 DEF Written

LEMMA RowsTyped ==
  ASSUME Typed, NEW k \in Keys, NEW family \in Keys \cup {NoKey}
  PROVE  Revoked(k) \in Rows /\ NewToken(k, family) \in Rows
BY TokensAssumption DEF Typed, Revoked, NewToken, Rows

LEMMA InitTyped == Init => Typed
<1> SUFFICES ASSUME Init PROVE Typed
  OBVIOUS
<1>1. NoToken \in Rows /\ NewToken(First, NoKey) \in Rows
  BY TokensAssumption DEF Init, NoToken, NewToken, Rows
<1>2. NewReq \in Requests
  BY NewReqTyped
<1> QED
  BY <1>1, <1>2, TokensAssumption DEF Init, Typed

-----------------------------------------------------------------------------
(***************************************************************************)
(* What is always true of one request: where its operation can take it,    *)
(* and what it has written there.                                          *)
(***************************************************************************)
Path == [op \in AllOps \cup {"none"} |->
  CASE op = "none" -> {"new"}
    [] op = "login" -> {"touch", "insert", "commit", "audit", "done"}
    [] op = "refresh" -> {"owner", "revoke", "insert", "scan", "bulk", "commit", "audit", "done"}
    [] op = "logout" -> {"revoke", "commit", "audit", "done"}
    [] OTHER -> {"user", "scan", "bulk", "commit", "audit", "done"}]

Control(q) ==
  /\ q.pc \in Path[q.op]
  /\ q.op \in {"refresh", "logout"} <=> q.key # NoKey
  /\ q.pc = "bulk" <=> q.todo # << >>
  /\ q.new # NoKey => q.op \in {"login", "refresh"} /\ q.pc \in {"commit", "audit", "done"}
  /\ q.pc = "commit" /\ q.op = "login" => q.new # NoKey
  /\ q.pc = "commit" /\ q.new # NoKey => q.new \in DOMAIN q.writes
  /\ q.pc \notin {"insert", "bulk", "commit"} => DOMAIN q.writes = {}

\* A refresh that found its token revoked.
Detecting(q) == q.op = "refresh" /\ (q.pc \in {"scan", "bulk"} \/ (q.pc = "commit" /\ q.new = NoKey))

\* The token presented has been revoked by the request, which has not committed.
HasRevoked(q) ==
  \/ q.op = "refresh" /\ (q.pc = "insert" \/ (q.pc = "commit" /\ q.new # NoKey))
  \/ q.op = "logout" /\ q.pc = "commit"

Family(q) == IF q.op = "refresh" THEN token[q.key].fam ELSE q.new

FreshRow(q) ==
  /\ token[q.new].st = "absent"
  /\ q.writes[q.new].st = "good"
  /\ q.writes[q.new].fam = Family(q)
  /\ q.writes[q.new].born \in 0 .. now
  /\ q.writes[q.new].exp = q.writes[q.new].born + AccessTTL

RowsFit(q) ==
  /\ q.key # NoKey => token[q.key].st # "absent"
  /\ \A k \in DOMAIN q.writes :
       IF k = q.new THEN FreshRow(q) ELSE q.writes[k] = Revoked(k) /\ token[k].st # "absent"
  /\ \A i \in 1 .. Len(q.todo) : token[q.todo[i]].st # "absent"
  /\ Detecting(q) => token[q.key].st = "revoked"
  /\ HasRevoked(q) => q.key \in DOMAIN q.writes

OutcomeFits(r) ==
  LET q == req[r] IN
  /\ q.pc = "audit" => r \in committed
  /\ r \in committed =>
       /\ q.pc \in {"audit", "done"}
       /\ q.op \in {"refresh", "logout"} => token[q.key].st = "revoked"
       /\ q.op = "deactivate" => ~ live
       /\ q.new # NoKey => token[q.new].st # "absent"

TokensFit ==
  /\ \A k \in Keys :
       \/ token[k] = NoToken
       \/ /\ token[k].st # "absent"
          /\ token[k].fam \in Keys
          /\ token[token[k].fam].st # "absent"
          /\ token[k].born \in 0 .. now
          /\ token[k].exp = token[k].born + AccessTTL
  /\ \A k \in held : token[k].st # "absent"

\* No two requests have a row locked.
LocksExclusive ==
  \A q, r \in Reqs : q # r => DOMAIN req[q].writes \cap DOMAIN req[r].writes = {}

Consistent ==
  /\ Typed
  /\ TokensFit
  /\ LocksExclusive
  /\ \A r \in Reqs : Control(req[r]) /\ RowsFit(req[r]) /\ OutcomeFits(r)

LEMMA InitConsistent == Init => Consistent
<1> SUFFICES ASSUME Init PROVE Consistent
  OBVIOUS
<1>1. Typed
  BY InitTyped
<1>2. TokensFit
  BY TokensAssumption DEF Init, TokensFit, NewToken, NoToken
<1>3. LocksExclusive
  BY NothingWritten DEF Init, LocksExclusive, NewReq
<1>4. ASSUME NEW r \in Reqs
      PROVE  Control(req[r]) /\ RowsFit(req[r]) /\ OutcomeFits(r)
  BY NothingWritten DEF Init, Control, Path, AllOps, RowsFit, OutcomeFits, Detecting, HasRevoked, NewReq
<1> QED
  BY <1>1, <1>2, <1>3, <1>4 DEF Consistent

(***************************************************************************)
(* A step that only moves one request keeps everything consistent if it    *)
(* leaves that request consistent.                                         *)
(***************************************************************************)
Moves(r, next) ==
  /\ req' = [req EXCEPT ![r] = next]
  /\ UNCHANGED <<token, live, held, now, committed, maker>>

LEMMA MoveKeepsConsistent ==
  ASSUME Consistent, NEW r \in Reqs, NEW next \in Requests, Moves(r, next),
         before' \in [Reqs -> SUBSET Reqs], met' \in [Reqs -> SUBSET Reqs],
         Control(next), RowsFit(next), next.pc # "audit",
         \A q \in Reqs \ {r} : DOMAIN next.writes \cap DOMAIN req[q].writes = {},
         r \in committed =>
           next.pc = "done" /\ next.op = req[r].op /\ next.key = req[r].key /\ next.new = req[r].new
  PROVE  Consistent'
<1>1. req'[r] = next /\ \A q \in Reqs \ {r} : req'[q] = req[q]
  BY DEF Consistent, Typed, Moves
<1>2. UNCHANGED <<token, live, held, now, committed, maker>>
  BY DEF Moves
<1>3. Typed'
  BY <1>2 DEF Consistent, Typed, Moves
<1>4. TokensFit'
  BY <1>2 DEF Consistent, TokensFit
<1>5. LocksExclusive'
  BY <1>1 DEF Consistent, LocksExclusive
<1>6. ASSUME NEW q \in Reqs
      PROVE  (Control(req[q]) /\ RowsFit(req[q]) /\ OutcomeFits(q))'
  <2>1. CASE q = r
    <3>1. Control(next)' /\ RowsFit(next)'
      BY <1>2 DEF Control, RowsFit, FreshRow, Family, Revoked
    <3>2. OutcomeFits(r)'
      BY <1>1, <1>2 DEF Consistent, OutcomeFits
    <3> QED
      BY <1>1, <2>1, <3>1, <3>2
  <2>2. CASE q # r
    <3>1. PICK w \in Requests : w = req[q]
      BY DEF Consistent, Typed
    <3>2. Control(w) /\ RowsFit(w) /\ OutcomeFits(q)
      BY <3>1 DEF Consistent
    <3>3. Control(w)' /\ RowsFit(w)'
      BY <1>2, <3>2 DEF Control, RowsFit, FreshRow, Family, Revoked
    <3>4. OutcomeFits(q)'
      BY <1>1, <1>2, <2>2, <3>2 DEF OutcomeFits
    <3> QED
      BY <1>1, <2>2, <3>1, <3>3, <3>4
  <2> QED
    BY <2>1, <2>2
<1> QED
  BY <1>3, <1>4, <1>5, <1>6 DEF Consistent

\* A request that ends has no locks and has written nothing.
LEMMA AnswerFits ==
  ASSUME NEW q \in Requests, NEW out \in Outcomes, q.op # "none",
         q.op \in {"refresh", "logout"} <=> q.key # NoKey,
         q.new # NoKey => q.op \in {"login", "refresh"},
         q.key # NoKey => token[q.key].st # "absent"
  PROVE  /\ Answer(q, out) \in Requests
         /\ Control(Answer(q, out))
         /\ RowsFit(Answer(q, out))
         /\ Answer(q, out).pc = "done"
         /\ DOMAIN Answer(q, out).writes = {}
         /\ Answer(q, out).op = q.op /\ Answer(q, out).key = q.key /\ Answer(q, out).new = q.new
<1> DEFINE a == Answer(q, out)
<1>1. a \in Requests
  BY AnswerTyped
<1>2. /\ a.pc = "done" /\ a.op = q.op /\ a.key = q.key /\ a.new = q.new
      /\ a.writes = NoWrites /\ a.todo = << >>
  BY DEF Answer, Requests
<1>3. q.op \in AllOps
  BY DEF Requests
<1>4. "done" \in Path[q.op]
  BY <1>3 DEF Path, AllOps
<1> HIDE DEF a
<1>5. Control(a)
  BY <1>2, <1>4, NothingWritten DEF Control
<1>6. RowsFit(a)
  BY <1>2, NothingWritten DEF RowsFit, Detecting, HasRevoked
<1> QED
  BY <1>1, <1>2, <1>5, <1>6, NothingWritten DEF a


-----------------------------------------------------------------------------
(***************************************************************************)
(* The statements, one by one.                                             *)
(***************************************************************************)
LEMMA BeginKeepsConsistent ==
  ASSUME Consistent, NEW r \in Reqs, Begin(r)
  PROVE  Consistent'
<1> SUFFICES ASSUME NEW next \in Requests, Arrive(r, next), Control(next), RowsFit(next),
                    next.pc # "audit", DOMAIN next.writes = {}
             PROVE  Consistent'
  <2>1. ASSUME NEW op \in {"login", "change", "deactivate"}, BeginWithUser(r, op)
        PROVE  \E next \in Requests : /\ Arrive(r, next)
                                      /\ Control(next) /\ RowsFit(next)
                                      /\ next.pc # "audit" /\ DOMAIN next.writes = {}
    <3> DEFINE q == [NewReq EXCEPT !.op = op]
               begun == [q EXCEPT !.pc = IF op = "login" THEN "touch" ELSE "user"]
               next == IF ~ live THEN Answer(q, "no user") ELSE begun
    <3>1. q \in Requests /\ q.op = op /\ q.key = NoKey /\ q.new = NoKey
      BY NewReqTyped DEF NewReq, Requests, AllOps
    <3>2. Answer(q, "no user") \in Requests /\ Control(Answer(q, "no user"))
          /\ RowsFit(Answer(q, "no user")) /\ Answer(q, "no user").pc = "done"
          /\ DOMAIN Answer(q, "no user").writes = {}
      BY <3>1, AnswerFits DEF Outcomes
    <3>3. /\ begun \in Requests /\ begun.pc = (IF op = "login" THEN "touch" ELSE "user")
          /\ begun.op = op /\ begun.key = NoKey /\ begun.new = NoKey
          /\ begun.writes = NoWrites /\ begun.todo = << >>
      BY NewReqTyped DEF NewReq, Requests, AllOps, Positions
    <3>4. Control(begun)
      BY <3>3, NothingWritten DEF Control, Path, AllOps
    <3>5. RowsFit(begun)
      BY <3>3, NothingWritten DEF RowsFit, Detecting, HasRevoked
    <3>6. Arrive(r, next)
      BY <2>1 DEF BeginWithUser
    <3> HIDE DEF begun, q
    <3> QED
      BY <3>2, <3>3, <3>4, <3>5, <3>6, NothingWritten
  <2>2. ASSUME NEW k \in held, BeginRefresh(r, k) \/ BeginLogout(r, k)
        PROVE  \E next \in Requests : /\ Arrive(r, next)
                                      /\ Control(next) /\ RowsFit(next)
                                      /\ next.pc # "audit" /\ DOMAIN next.writes = {}
    <3>1. k \in Keys /\ token[k].st # "absent" /\ k # NoKey
      BY TokensAssumption DEF Consistent, Typed, TokensFit
    <3>2. ASSUME NEW op \in {"refresh", "logout"}, NEW out \in Outcomes,
                 NEW next, next = Answer([NewReq EXCEPT !.op = op, !.key = k], out)
          PROVE  /\ next \in Requests /\ Control(next) /\ RowsFit(next)
                 /\ next.pc # "audit" /\ DOMAIN next.writes = {}
      <4> DEFINE q == [NewReq EXCEPT !.op = op, !.key = k]
      <4>1. q \in Requests /\ q.op = op /\ q.key = k /\ q.new = NoKey
        BY <3>1, NewReqTyped DEF NewReq, Requests, AllOps
      <4> HIDE DEF q
      <4> QED
        BY <3>1, <3>2, <4>1, AnswerFits DEF q
    <3>3. ASSUME NEW op \in {"refresh", "logout"}, NEW pc \in {"owner", "revoke", "scan"},
                 pc \in Path[op], pc = "scan" => token[k].st = "revoked",
                 NEW next, next = [[NewReq EXCEPT !.op = op, !.key = k] EXCEPT !.pc = pc]
          PROVE  /\ next \in Requests /\ Control(next) /\ RowsFit(next)
                 /\ next.pc # "audit" /\ DOMAIN next.writes = {}
      <4>1. /\ next \in Requests /\ next.pc = pc /\ next.op = op /\ next.key = k
            /\ next.new = NoKey /\ next.writes = NoWrites /\ next.todo = << >>
        BY <3>1, <3>3, NewReqTyped DEF NewReq, Requests, AllOps, Positions
      <4>2. Control(next)
        BY <3>1, <3>3, <4>1, NothingWritten DEF Control
      <4>3. RowsFit(next)
        BY <3>1, <3>3, <4>1, NothingWritten DEF RowsFit, Detecting, HasRevoked
      <4> QED
        BY <4>1, <4>2, <4>3, NothingWritten
    <3>4. CASE BeginRefresh(r, k)
      <4>1. "owner" \in Path["refresh"] /\ "scan" \in Path["refresh"]
        BY DEF Path, AllOps
      <4> DEFINE q == [NewReq EXCEPT !.op = "refresh", !.key = k]
      <4>2. PICK next : /\ Arrive(r, next)
                        /\ \/ next = Answer(q, "bad jwt")
                           \/ token[k].st = "revoked" /\ next = [q EXCEPT !.pc = "scan"]
                           \/ next = Answer(q, "expired")
                           \/ next = [q EXCEPT !.pc = "owner"]
        BY <3>4 DEF BeginRefresh
      <4> QED
        BY <3>2, <3>3, <4>1, <4>2 DEF Outcomes
    <3>5. CASE BeginLogout(r, k)
      <4>1. "revoke" \in Path["logout"]
        BY DEF Path, AllOps
      <4> DEFINE q == [NewReq EXCEPT !.op = "logout", !.key = k]
      <4>2. PICK next : /\ Arrive(r, next)
                        /\ next = [q EXCEPT !.pc = "revoke"] \/ next = Answer(q, "bad jwt")
        BY <3>5 DEF BeginLogout
      <4> QED
        BY <3>2, <3>3, <4>1, <4>2 DEF Outcomes
    <3> QED
      BY <2>2, <3>4, <3>5
  <2> QED
    BY <2>1, <2>2 DEF Begin
<1>1. req[r].pc = "new" /\ r \notin committed
  BY DEF Arrive, Consistent, OutcomeFits
<1>2. Moves(r, next)
  BY DEF Arrive, Moves
<1>3. before' \in [Reqs -> SUBSET Reqs] /\ met' \in [Reqs -> SUBSET Reqs]
  BY DEF Arrive, Consistent, Typed
<1> QED
  BY <1>1, <1>2, <1>3, MoveKeepsConsistent

\* The state a statement leaves its request in.
Fits(r, next) ==
  /\ next \in Requests
  /\ Control(next) /\ RowsFit(next)
  /\ next.pc # "audit"
  /\ \A q \in Reqs \ {r} : DOMAIN next.writes \cap DOMAIN req[q].writes = {}
  /\ r \in committed =>
       next.pc = "done" /\ next.op = req[r].op /\ next.key = req[r].key /\ next.new = req[r].new

\* What Consistent says of the request that takes a step.
LEMMA AboutRequest ==
  ASSUME Consistent, NEW r \in Reqs, NEW w, w = req[r]
  PROVE  /\ w \in Requests
         /\ Control(w) /\ RowsFit(w)
         /\ w.op # "none" \/ w.pc = "new"
         /\ w.pc \notin {"audit", "done"} => r \notin committed
         /\ w.key # NoKey => /\ w.key \in Keys /\ token[w.key].st # "absent"
                             /\ token[w.key].fam \in Keys
         /\ \A q \in Reqs \ {r} : DOMAIN w.writes \cap DOMAIN req[q].writes = {}
<1>1. w \in Requests /\ Control(w) /\ RowsFit(w) /\ OutcomeFits(r)
  BY DEF Consistent, Typed
<1>2. w.op # "none" \/ w.pc = "new"
  BY <1>1 DEF Control, Path
<1>3. w.pc \notin {"audit", "done"} => r \notin committed
  BY <1>1 DEF OutcomeFits
<1>4. w.key # NoKey => /\ w.key \in Keys /\ token[w.key].st # "absent"
                       /\ token[w.key].fam \in Keys
  <2> SUFFICES ASSUME w.key # NoKey
               PROVE  w.key \in Keys /\ token[w.key].st # "absent" /\ token[w.key].fam \in Keys
    OBVIOUS
  <2>1. w.key \in Keys /\ token[w.key].st # "absent"
    BY <1>1 DEF Requests, RowsFit
  <2> QED
    BY <2>1 DEF Consistent, TokensFit, NoToken
<1>5. \A q \in Reqs \ {r} : DOMAIN w.writes \cap DOMAIN req[q].writes = {}
  BY DEF Consistent, LocksExclusive
<1> QED
  BY <1>1, <1>2, <1>3, <1>4, <1>5

\* A request that fails or is chosen to break a cycle of waits is in progress.
LEMMA FailsInProgress ==
  ASSUME NEW r \in Reqs, Fail(r) \/ BreakDeadlock(r)
  PROVE  Active(r) /\ Proceed(r, Answer(req[r], "failed"))
<1>1. CASE Fail(r)
  BY <1>1 DEF Fail
<1>2. CASE BreakDeadlock(r)
  <2>1. InCycle(r) /\ Proceed(r, Answer(req[r], "failed"))
    BY <1>2, Zenon DEF BreakDeadlock
  <2>2. ~ Granted(r)
    BY <2>1, Zenon DEF InCycle
  <2> QED
    BY <2>1, <2>2 DEF Granted, Blocks, TokensWanted, UserWanted, Active
<1> QED
  BY <1>1, <1>2

LEMMA FailFits ==
  ASSUME Consistent, NEW r \in Reqs, Fail(r) \/ BreakDeadlock(r)
  PROVE  \E next : Proceed(r, next) /\ Fits(r, next)
<1> DEFINE next == Answer(req[r], "failed")
<1>1. Active(r) /\ Proceed(r, next)
  BY FailsInProgress
<1>2. PICK w : w = req[r]
  OBVIOUS
<1>3. w \in Requests /\ Control(w) /\ w.op # "none" /\ w.pc # "new"
      /\ (w.key # NoKey => token[w.key].st # "absent")
  BY <1>1, <1>2, AboutRequest DEF Active
<1>4. "failed" \in Outcomes
  BY DEF Outcomes
<1>5. /\ Answer(w, "failed") \in Requests
      /\ Control(Answer(w, "failed")) /\ RowsFit(Answer(w, "failed"))
      /\ Answer(w, "failed").pc = "done" /\ DOMAIN Answer(w, "failed").writes = {}
      /\ Answer(w, "failed").op = w.op /\ Answer(w, "failed").key = w.key
      /\ Answer(w, "failed").new = w.new
  BY <1>3, <1>4, AnswerFits DEF Control
<1>6. Fits(r, next)
  BY <1>2, <1>5 DEF Fits
<1> QED
  BY <1>1, <1>6

LEMMA ReadOwnerFits ==
  ASSUME Consistent, NEW r \in Reqs, ReadOwner(r)
  PROVE  \E next : Proceed(r, next) /\ Fits(r, next)
<1>1. CASE ~ live
  <2> DEFINE next == Answer(req[r], "no user")
  <2>1. PICK w : w = req[r]
    OBVIOUS
  <2>2. w \in Requests /\ Control(w) /\ w.op # "none"
        /\ (w.key # NoKey => token[w.key].st # "absent")
    BY <2>1, AboutRequest DEF ReadOwner
  <2>3. "no user" \in Outcomes
    BY DEF Outcomes
  <2>4. /\ Answer(w, "no user") \in Requests
        /\ Control(Answer(w, "no user")) /\ RowsFit(Answer(w, "no user"))
        /\ Answer(w, "no user").pc = "done" /\ DOMAIN Answer(w, "no user").writes = {}
        /\ Answer(w, "no user").op = w.op /\ Answer(w, "no user").key = w.key
        /\ Answer(w, "no user").new = w.new
    BY <2>2, <2>3, AnswerFits DEF Control
  <2>5. Fits(r, next)
    BY <2>1, <2>4 DEF Fits
  <2> QED
    BY <1>1, <2>5 DEF ReadOwner
<1>2. CASE live
  <2> DEFINE next == [req[r] EXCEPT !.pc = "revoke"]
  <2>1. PICK w : w = req[r]
    OBVIOUS
  <2>2. /\ w \in Requests /\ Control(w) /\ RowsFit(w) /\ w.pc = "owner" /\ r \notin committed
        /\ \A q \in Reqs \ {r} : DOMAIN w.writes \cap DOMAIN req[q].writes = {}
    BY <2>1, AboutRequest DEF ReadOwner
  <2>3. w.op = "refresh"
    BY <2>2 DEF Control, Path, Requests
  <2>4. /\ next \in Requests /\ next.pc = "revoke" /\ next.op = w.op /\ next.key = w.key
        /\ next.new = w.new /\ next.writes = w.writes /\ next.todo = w.todo
    BY <2>1, <2>2 DEF Requests, Positions
  <2> HIDE DEF next
  <2>5. Control(next)
    BY <2>2, <2>3, <2>4 DEF Control, Path, AllOps
  <2>6. DOMAIN w.writes = {}
    BY <2>2 DEF Control
  <2>7. RowsFit(next)
    BY <2>2, <2>4, <2>6 DEF RowsFit, Detecting, HasRevoked
  <2>8. Fits(r, next)
    BY <2>2, <2>4, <2>5, <2>7 DEF Fits
  <2>9. Proceed(r, next)
    BY <1>2 DEF ReadOwner, next
  <2> QED
    BY <2>8, <2>9
<1> QED
  BY <1>1, <1>2

LEMMA RevokeTokenFits ==
  ASSUME Consistent, NEW r \in Reqs, RevokeToken(r)
  PROVE  \E next : Proceed(r, next) /\ Fits(r, next)
<1>1. PICK w : w = req[r]
  OBVIOUS
<1>2. /\ w \in Requests /\ Control(w) /\ RowsFit(w) /\ w.pc = "revoke" /\ r \notin committed
      /\ w.key # NoKey => w.key \in Keys /\ token[w.key].st # "absent"
  BY <1>1, AboutRequest DEF RevokeToken
<1>3. w.op \in {"refresh", "logout"} /\ w.new = NoKey /\ DOMAIN w.writes = {}
  BY <1>2 DEF Control, Path, Requests
<1>4. w.key \in Keys /\ token[w.key].st # "absent"
  BY <1>2, <1>3 DEF Control
<1>5. PICK rows : rows = Written(r, w.key, Revoked(w.key))
  OBVIOUS
<1>6. rows \in Writings /\ DOMAIN rows = {w.key} /\ rows[w.key] = Revoked(w.key)
  <2>1. PICK row \in Rows : row = Revoked(w.key)
    BY <1>4, RowsTyped, TokensAssumption DEF Consistent
  <2>2. Typed
    BY DEF Consistent
  <2>3. PICK k \in Keys : k = w.key
    BY <1>4
  <2>4. rows = Written(r, k, row)
    BY <1>5, <2>1, <2>3
  <2>5. rows \in Writings /\ DOMAIN rows = DOMAIN req[r].writes \cup {k} /\ rows[k] = row
    BY <2>2, <2>4, WrittenTyped
  <2> QED
    BY <1>1, <1>3, <2>1, <2>3, <2>5
<1> DEFINE next == [w EXCEPT !.writes = rows,
                      !.pc = IF w.op = "refresh" THEN "insert" ELSE "commit"]
<1>7. Proceed(r, next)
  BY <1>1, <1>5 DEF RevokeToken
<1>8. /\ next \in Requests /\ next.pc = (IF w.op = "refresh" THEN "insert" ELSE "commit")
      /\ next.op = w.op /\ next.key = w.key
      /\ next.new = w.new /\ next.writes = rows /\ next.todo = w.todo
  BY <1>2, <1>6 DEF Requests, Positions
<1> HIDE DEF next
<1>9. Control(next)
  BY <1>2, <1>3, <1>8 DEF Control, Path, AllOps
<1>10. RowsFit(next)
  BY <1>2, <1>3, <1>4, <1>6, <1>8, TokensAssumption DEF RowsFit, Detecting, HasRevoked
<1>11. \A q \in Reqs \ {r} : DOMAIN next.writes \cap DOMAIN req[q].writes = {}
  BY <1>1, <1>2, <1>6, <1>8 DEF RevokeToken, Granted, Blocks, TokensWanted
<1>12. Fits(r, next)
  BY <1>2, <1>3, <1>8, <1>9, <1>10, <1>11 DEF Fits
<1> QED
  BY <1>7, <1>12

LEMMA TouchOrUpdateFits ==
  ASSUME Consistent, NEW r \in Reqs, TouchUser(r) \/ UpdateUser(r)
  PROVE  \E next : Proceed(r, next) /\ Fits(r, next)
<1>1. PICK w : w = req[r]
  OBVIOUS
<1>2. /\ w \in Requests /\ Control(w) /\ RowsFit(w) /\ w.pc \in {"touch", "user"}
      /\ r \notin committed
  BY <1>1, AboutRequest DEF TouchUser, UpdateUser
<1>3. /\ w.new = NoKey /\ DOMAIN w.writes = {} /\ w.key = NoKey
      /\ w.op = "login" \/ (w.op \in {"change", "deactivate"} /\ w.pc = "user")
      /\ w.pc = "touch" => w.op = "login"
      /\ w.pc = "user" => w.op # "login"
  BY <1>2 DEF Control, Path, Requests, AllOps
<1>4. PICK lock \in BOOLEAN : Proceed(r, [w EXCEPT !.pc = IF w.pc = "touch" THEN "insert" ELSE "scan",
                                            !.userLock = lock])
  BY <1>1 DEF TouchUser, UpdateUser, Consistent, Typed
<1> DEFINE next == [w EXCEPT !.pc = IF w.pc = "touch" THEN "insert" ELSE "scan",
                             !.userLock = lock]
<1>5. /\ next \in Requests /\ next.pc = (IF w.pc = "touch" THEN "insert" ELSE "scan")
      /\ next.op = w.op /\ next.key = w.key
      /\ next.new = w.new /\ next.writes = w.writes /\ next.todo = w.todo
  BY <1>2 DEF Requests, Positions
<1> HIDE DEF next
<1>6. Control(next)
  BY <1>2, <1>3, <1>5 DEF Control, Path, AllOps
<1>7. RowsFit(next)
  BY <1>2, <1>3, <1>5 DEF RowsFit, Detecting, HasRevoked
<1>8. Fits(r, next)
  BY <1>2, <1>3, <1>5, <1>6, <1>7 DEF Fits
<1> QED
  BY <1>4, <1>8 DEF next

LEMMA InsertTokenFits ==
  ASSUME Consistent, NEW r \in Reqs, InsertToken(r)
  PROVE  \E next : Proceed(r, next) /\ Fits(r, next)
<1>1. PICK w : w = req[r]
  OBVIOUS
<1>2. /\ w \in Requests /\ Control(w) /\ RowsFit(w) /\ w.pc = "insert" /\ r \notin committed
      /\ w.key # NoKey => w.key \in Keys /\ token[w.key].st # "absent" /\ token[w.key].fam \in Keys
      /\ \A q \in Reqs \ {r} : DOMAIN w.writes \cap DOMAIN req[q].writes = {}
  BY <1>1, AboutRequest DEF InsertToken
<1>3. PICK k : k = CHOOSE c \in Unused : TRUE
  OBVIOUS
<1>4. k \in Unused
  BY <1>3 DEF InsertToken
<1>5. /\ k \in Keys /\ token[k].st = "absent" /\ k # NoKey
      /\ \A q \in Reqs : k \notin DOMAIN req[q].writes
  BY <1>4, TokensAssumption DEF Unused
<1>6. /\ w.op \in {"login", "refresh"} /\ w.new = NoKey
      /\ w.op = "refresh" => w.key \in DOMAIN w.writes
  BY <1>2 DEF Control, Path, Requests, AllOps, RowsFit, HasRevoked
<1>7. PICK family : family = IF w.op = "refresh" THEN token[w.key].fam ELSE NoKey
  OBVIOUS
<1>8. /\ family \in Keys \cup {NoKey}
      /\ w.op = "refresh" => family \in Keys /\ family = token[w.key].fam
      /\ w.op = "login" => family = NoKey
  BY <1>2, <1>6, <1>7 DEF Control
<1>9. PICK rows : rows = Written(r, k, NewToken(k, family))
  OBVIOUS
<1>10. /\ rows \in Writings /\ DOMAIN rows = DOMAIN w.writes \cup {k}
       /\ rows[k] = NewToken(k, family)
       /\ \A c \in DOMAIN w.writes \ {k} : rows[c] = w.writes[c]
  <2>1. PICK row \in Rows : row = NewToken(k, family)
    BY <1>5, <1>8, RowsTyped DEF Consistent
  <2>2. Typed
    BY DEF Consistent
  <2>3. rows = Written(r, k, row)
    BY <1>9, <2>1
  <2>4. /\ rows \in Writings /\ DOMAIN rows = DOMAIN req[r].writes \cup {k} /\ rows[k] = row
        /\ \A c \in DOMAIN req[r].writes \ {k} : rows[c] = req[r].writes[c]
    BY <1>5, <2>2, <2>3, WrittenTyped
  <2> QED
    BY <1>1, <2>1, <2>4
<1> DEFINE next == [w EXCEPT !.pc = "commit", !.new = k, !.writes = rows]
<1>11. Proceed(r, next)
  BY <1>1, <1>3, <1>7, <1>9 DEF InsertToken
<1>12. /\ next \in Requests /\ next.pc = "commit" /\ next.op = w.op /\ next.key = w.key
       /\ next.new = k /\ next.writes = rows /\ next.todo = w.todo
  BY <1>2, <1>5, <1>10 DEF Requests, Positions
<1> HIDE DEF next
<1>13. Control(next)
  BY <1>2, <1>5, <1>6, <1>10, <1>12 DEF Control, Path, AllOps
<1>14. RowsFit(next)
  <2>1. next.key # NoKey => token[next.key].st # "absent"
    BY <1>2, <1>12
  <2>2. FreshRow(next)
    BY <1>2, <1>5, <1>6, <1>8, <1>10, <1>12, TokensAssumption
    DEF FreshRow, Family, NewToken, Consistent, Typed
  <2>3. ASSUME NEW c \in DOMAIN w.writes
        PROVE  c # k /\ rows[c] = Revoked(c) /\ token[c].st # "absent"
    <3>1. c \in Keys /\ c # k
      BY <1>1, <1>2, <1>5, WritingsAreFunctions DEF Requests
    <3> QED
      BY <3>1, <1>2, <1>6, <1>10, TokensAssumption DEF RowsFit
  <2>4. \A i \in 1 .. Len(next.todo) : token[next.todo[i]].st # "absent"
    BY <1>2, <1>12 DEF RowsFit
  <2>5. ~ Detecting(next) /\ (HasRevoked(next) => next.key \in DOMAIN next.writes)
    BY <1>5, <1>6, <1>10, <1>12 DEF Detecting, HasRevoked
  <2> QED
    BY <2>1, <2>2, <2>3, <2>4, <2>5, <1>10, <1>12 DEF RowsFit
<1>15. \A q \in Reqs \ {r} : DOMAIN next.writes \cap DOMAIN req[q].writes = {}
  BY <1>2, <1>5, <1>10, <1>12
<1>16. Fits(r, next)
  BY <1>2, <1>12, <1>13, <1>14, <1>15 DEF Fits
<1> QED
  BY <1>11, <1>16

LEMMA ScanTokensFits ==
  ASSUME Consistent, NEW r \in Reqs, ScanTokens(r)
  PROVE  \E next : Proceed(r, next) /\ Fits(r, next)
<1>1. PICK w : w = req[r]
  OBVIOUS
<1>2. /\ w \in Requests /\ Control(w) /\ RowsFit(w) /\ w.pc = "scan" /\ r \notin committed
  BY <1>1, AboutRequest DEF ScanTokens
<1> DEFINE S == {k \in Scope(r) : token[k].st = "good"}
<1>3. PICK s \in SetToSeqs(S) : Proceed(r, [w EXCEPT !.todo = s, !.pc = AfterBulk(r, s)])
  BY <1>1 DEF ScanTokens
<1>4. IsFiniteSet(S) /\ S \subseteq Keys
  BY TokensAssumption, FS_Subset DEF Scope
<1>5. s \in Seq(S)
  BY <1>3, <1>4, OrderCoversSet
<1>6. s \in Seq(Keys) /\ \A i \in 1 .. Len(s) : token[s[i]].st = "good"
  <2>1. \A i \in 1 .. Len(s) : s[i] \in S
    BY <1>5
  <2> QED
    BY <1>4, <1>5, <2>1
<1>7. w.op \in {"refresh", "change", "deactivate"} /\ w.new = NoKey /\ DOMAIN w.writes = {}
  BY <1>2 DEF Control, Path, Requests, AllOps
<1> DEFINE next == [w EXCEPT !.todo = s, !.pc = AfterBulk(r, s)]
<1>8. /\ next \in Requests /\ next.pc \in {"bulk", "commit"} /\ next.op = w.op /\ next.key = w.key
      /\ next.pc = "bulk" <=> s # << >>
      /\ next.new = w.new /\ next.writes = w.writes /\ next.todo = s
  BY <1>2, <1>6 DEF Requests, Positions, AfterBulk
<1> HIDE DEF next, S
<1>9. Control(next)
  BY <1>2, <1>7, <1>8 DEF Control, Path, AllOps
<1>10. RowsFit(next)
  BY <1>2, <1>6, <1>7, <1>8 DEF RowsFit, Detecting, HasRevoked
<1>11. Fits(r, next)
  BY <1>2, <1>7, <1>8, <1>9, <1>10 DEF Fits
<1> QED
  BY <1>3, <1>11 DEF next

LEMMA RevokeNextFits ==
  ASSUME Consistent, NEW r \in Reqs, RevokeNext(r)
  PROVE  \E next : Proceed(r, next) /\ Fits(r, next)
<1>1. PICK w : w = req[r]
  OBVIOUS
<1>2. /\ w \in Requests /\ Control(w) /\ RowsFit(w) /\ w.pc = "bulk" /\ r \notin committed
      /\ \A q \in Reqs \ {r} : DOMAIN w.writes \cap DOMAIN req[q].writes = {}
  BY <1>1, AboutRequest DEF RevokeNext
<1>3. w.todo \in Seq(Keys) /\ w.todo # << >>
  BY <1>2 DEF Requests, Control
<1>4. PICK k : k = Head(w.todo)
  OBVIOUS
<1>5. PICK rest : rest = Tail(w.todo)
  OBVIOUS
<1>6. /\ k \in Keys /\ rest \in Seq(Keys) /\ token[k].st # "absent"
      /\ \A i \in 1 .. Len(rest) : token[rest[i]].st # "absent"
  <2>1. \E i \in 1 .. Len(w.todo) : w.todo[i] = k
    BY <1>3, <1>4
  <2> QED
    BY <1>2, <1>3, <1>4, <1>5, <2>1, HeadOrTail DEF RowsFit
<1>7. w.op \in {"refresh", "change", "deactivate"} /\ w.new = NoKey
  BY <1>2 DEF Control, Path, Requests, AllOps
<1>8. PICK rows : rows = IF token[k].st = "revoked" THEN w.writes ELSE Written(r, k, Revoked(k))
  OBVIOUS
<1>9. /\ rows \in Writings /\ DOMAIN rows \subseteq DOMAIN w.writes \cup {k}
      /\ \A c \in DOMAIN rows : \/ c = k /\ rows[c] = Revoked(k)
                                \/ c \in DOMAIN w.writes /\ rows[c] = w.writes[c]
  <2>1. w.writes \in Writings
    BY <1>2 DEF Requests
  <2>2. PICK row \in Rows : row = Revoked(k)
    BY <1>6, RowsTyped, TokensAssumption DEF Consistent
  <2>3. CASE token[k].st = "revoked"
    BY <1>8, <2>1, <2>3
  <2>4. CASE token[k].st # "revoked"
    <3>1. Typed
      BY DEF Consistent
    <3>2. rows = Written(r, k, row)
      BY <1>8, <2>2, <2>4
    <3>3. /\ rows \in Writings /\ DOMAIN rows = DOMAIN req[r].writes \cup {k} /\ rows[k] = row
          /\ \A c \in DOMAIN req[r].writes \ {k} : rows[c] = req[r].writes[c]
      BY <1>6, <3>1, <3>2, WrittenTyped
    <3>4. ASSUME NEW c \in DOMAIN rows
          PROVE  \/ c = k /\ rows[c] = Revoked(k)
                 \/ c \in DOMAIN w.writes /\ rows[c] = w.writes[c]
      <4>1. CASE c = k
        BY <2>2, <3>3, <4>1
      <4>2. CASE c # k
        BY <1>1, <3>3, <4>2
      <4> QED
        BY <4>1, <4>2
    <3>5. rows \in Writings /\ DOMAIN rows \subseteq DOMAIN w.writes \cup {k}
      BY <1>1, <3>3
    <3>6. \A c \in DOMAIN rows : \/ c = k /\ rows[c] = Revoked(k)
                                 \/ c \in DOMAIN w.writes /\ rows[c] = w.writes[c]
      BY <3>4
    <3> QED
      BY <3>5, <3>6
  <2> QED
    BY <2>3, <2>4
<1>10. \A c \in DOMAIN w.writes : c # NoKey /\ w.writes[c] = Revoked(c) /\ token[c].st # "absent"
  <2>1. DOMAIN w.writes \subseteq Keys
    BY <1>2, WritingsAreFunctions DEF Requests
  <2> QED
    BY <1>2, <1>7, <2>1, TokensAssumption DEF RowsFit
<1> DEFINE next == [w EXCEPT !.todo = rest, !.pc = AfterBulk(r, rest), !.writes = rows]
<1>11. Proceed(r, next)
  BY <1>1, <1>2, <1>4, <1>5, <1>8 DEF RevokeNext, Requests
<1>12. /\ next \in Requests /\ next.pc \in {"bulk", "commit"} /\ next.op = w.op /\ next.key = w.key
       /\ next.pc = "bulk" <=> rest # << >>
       /\ next.new = w.new /\ next.writes = rows /\ next.todo = rest
  BY <1>2, <1>6, <1>9 DEF Requests, Positions, AfterBulk
<1> HIDE DEF next
<1>13. Control(next)
  BY <1>2, <1>7, <1>12 DEF Control, Path, AllOps
<1>14. RowsFit(next)
  <2>1. \A c \in DOMAIN rows : c # NoKey /\ rows[c] = Revoked(c) /\ token[c].st # "absent"
    BY <1>6, <1>9, <1>10, TokensAssumption
  <2> QED
    BY <1>2, <1>6, <1>7, <1>12, <2>1 DEF RowsFit, Detecting, HasRevoked
<1>15. \A q \in Reqs \ {r} : DOMAIN next.writes \cap DOMAIN req[q].writes = {}
  <2>1. \A q \in Reqs \ {r} : k \notin DOMAIN req[q].writes
    BY <1>1, <1>2, <1>4 DEF RevokeNext, Granted, Blocks, TokensWanted
  <2> QED
    BY <1>2, <1>9, <1>12, <2>1
<1>16. Fits(r, next)
  BY <1>2, <1>12, <1>13, <1>14, <1>15 DEF Fits
<1> QED
  BY <1>11, <1>16

LEMMA StatementFits ==
  ASSUME Consistent, NEW r \in Reqs, Statement(r)
  PROVE  \E next : Proceed(r, next) /\ Fits(r, next)
BY FailFits, ReadOwnerFits, RevokeTokenFits, TouchOrUpdateFits, InsertTokenFits,
   ScanTokensFits, RevokeNextFits DEF Statement

LEMMA StatementKeepsConsistent ==
  ASSUME Consistent, NEW r \in Reqs, Statement(r)
  PROVE  Consistent'
<1>1. PICK next : Proceed(r, next) /\ Fits(r, next)
  BY StatementFits
<1>2. Moves(r, next) /\ before' = before /\ met' = met
  BY <1>1 DEF Proceed, Moves
<1>3. before' \in [Reqs -> SUBSET Reqs] /\ met' \in [Reqs -> SUBSET Reqs]
  BY <1>2 DEF Consistent, Typed
<1> QED
  BY <1>1, <1>2, <1>3, MoveKeepsConsistent DEF Fits

\* A commit leaves every existing token its family, birth and expiry, and a
\* revoked one revoked.
LEMMA CommitWrites ==
  ASSUME Consistent, NEW r \in Reqs, Commit(r), NEW w, w = req[r]
  PROVE  /\ \A k \in Keys : k \notin DOMAIN w.writes => token'[k] = token[k]
         /\ \A k \in DOMAIN w.writes \ {w.new} :
              /\ k \in Keys /\ token[k].st # "absent"
              /\ token'[k] = Revoked(k)
         /\ w.new # NoKey =>
              /\ w.new \in Keys /\ w.new \in DOMAIN w.writes
              /\ FreshRow(w) /\ token'[w.new] = w.writes[w.new]
         /\ token' \in [Keys -> Rows]
         /\ \A k \in Keys : token[k].st # "absent" =>
              /\ token'[k].st # "absent"
              /\ token'[k].fam = token[k].fam /\ token'[k].born = token[k].born
              /\ token'[k].exp = token[k].exp
              /\ token[k].st = "revoked" => token'[k].st = "revoked"
<1>1. w \in Requests /\ Control(w) /\ RowsFit(w) /\ w.pc = "commit"
  BY AboutRequest DEF Commit
<1>2. DOMAIN w.writes \subseteq Keys /\ w.writes \in [DOMAIN w.writes -> Rows]
  BY <1>1, WritingsAreFunctions DEF Requests
<1>3. \A k \in Keys : token'[k] = IF k \in DOMAIN w.writes THEN w.writes[k] ELSE token[k]
  BY DEF Commit
<1>4. token \in [Keys -> Rows]
  BY DEF Consistent, Typed
<1>5. token' \in [Keys -> Rows]
  BY <1>2, <1>4 DEF Commit
<1>6. ASSUME NEW k \in DOMAIN w.writes \ {w.new}
      PROVE  k \in Keys /\ token[k].st # "absent" /\ token'[k] = Revoked(k)
  BY <1>1, <1>2, <1>3 DEF RowsFit
<1>7. ASSUME w.new # NoKey
      PROVE  /\ w.new \in Keys /\ w.new \in DOMAIN w.writes
             /\ FreshRow(w) /\ token'[w.new] = w.writes[w.new]
  <2>1. w.new \in Keys /\ w.new \in DOMAIN w.writes
    BY <1>1, <1>7 DEF Requests, Control
  <2> QED
    BY <1>1, <1>3, <2>1 DEF RowsFit
<1>8. ASSUME NEW k \in Keys, token[k].st # "absent"
      PROVE  /\ token'[k].st # "absent"
             /\ token'[k].fam = token[k].fam /\ token'[k].born = token[k].born
             /\ token'[k].exp = token[k].exp
             /\ token[k].st = "revoked" => token'[k].st = "revoked"
  <2>1. CASE k \in DOMAIN w.writes
    <3>1. k # w.new
      BY <1>1, <1>8, <2>1 DEF RowsFit, FreshRow
    <3>2. token'[k] = Revoked(k)
      BY <1>6, <2>1, <3>1
    <3> QED
      BY <1>4, <3>2 DEF Revoked, Rows
  <2>2. CASE k \notin DOMAIN w.writes
    BY <1>3, <1>8, <2>2
  <2> QED
    BY <2>1, <2>2
<1>9. \A k \in Keys : k \notin DOMAIN w.writes => token'[k] = token[k]
  BY <1>3
<1> QED
  BY <1>5, <1>6, <1>7, <1>8, <1>9

LEMMA CommitKeepsConsistent ==
  ASSUME Consistent, NEW r \in Reqs, Commit(r)
  PROVE  Consistent'
<1>1. PICK w : w = req[r]
  OBVIOUS
<1>2. /\ w \in Requests /\ Control(w) /\ RowsFit(w) /\ w.pc = "commit" /\ w.op # "none"
      /\ w.key # NoKey => w.key \in Keys /\ token[w.key].st # "absent" /\ token[w.key].fam \in Keys
      /\ r \notin committed
  BY <1>1, AboutRequest DEF Commit
<1>3. /\ \A k \in Keys : k \notin DOMAIN w.writes => token'[k] = token[k]
      /\ \A k \in DOMAIN w.writes \ {w.new} :
           k \in Keys /\ token[k].st # "absent" /\ token'[k] = Revoked(k)
      /\ w.new # NoKey => /\ w.new \in Keys /\ w.new \in DOMAIN w.writes
                          /\ FreshRow(w) /\ token'[w.new] = w.writes[w.new]
      /\ token' \in [Keys -> Rows]
  BY <1>1, CommitWrites
<1>4. \A k \in Keys : token[k].st # "absent" =>
        /\ token'[k].st # "absent"
        /\ token'[k].fam = token[k].fam /\ token'[k].born = token[k].born
        /\ token'[k].exp = token[k].exp
        /\ token[k].st = "revoked" => token'[k].st = "revoked"
  BY <1>1, CommitWrites
<1>5. PICK next : /\ req' = [req EXCEPT ![r] = next]
                  /\ \E out \in Outcomes : \/ next = Answer(w, out)
                                           \/ /\ next = [Answer(w, out) EXCEPT !.pc = "audit"]
                                              /\ w.op # "deactivate"
  BY <1>1 DEF Commit, Outcomes
<1>6. /\ next \in Requests /\ next.pc \in {"audit", "done"} /\ next.writes = NoWrites
      /\ next.pc = "audit" => w.op # "deactivate"
      /\ next.todo = << >> /\ next.op = w.op /\ next.key = w.key /\ next.new = w.new
  <2>1. PICK out \in Outcomes : \/ next = Answer(w, out)
                                \/ /\ next = [Answer(w, out) EXCEPT !.pc = "audit"]
                                   /\ w.op # "deactivate"
    BY <1>5
  <2>2. PICK free : free = Answer(w, out)
    OBVIOUS
  <2>3. /\ free \in Requests /\ free.pc = "done" /\ free.op = w.op /\ free.key = w.key
        /\ free.new = w.new /\ free.writes = NoWrites /\ free.todo = << >>
    BY <1>2, <2>2, AnswerTyped DEF Answer, Requests
  <2> QED
    BY <2>1, <2>2, <2>3 DEF Requests, Positions
<1>7. req'[r] = next /\ \A q \in Reqs \ {r} : req'[q] = req[q]
  BY <1>5 DEF Consistent, Typed
<1>8. /\ maker' = [k \in Keys |-> IF k = w.new THEN r ELSE maker[k]]
      /\ live' = (live /\ w.op # "deactivate")
      /\ committed' = committed \cup {r}
      /\ UNCHANGED <<held, now, before, met>>
  BY <1>1 DEF Commit
<1>9. Typed'
  BY <1>3, <1>5, <1>6, <1>8 DEF Consistent, Typed
<1>10. TokensFit'
  <2>1. \A k \in held' : token'[k].st # "absent"
    BY <1>4, <1>8 DEF Consistent, Typed, TokensFit
  <2>2. ASSUME NEW k \in Keys, token[k].st # "absent"
        PROVE  /\ token'[k].st # "absent"
               /\ token'[k].fam \in Keys
               /\ token'[token'[k].fam].st # "absent"
               /\ token'[k].born \in 0 .. now'
               /\ token'[k].exp = token'[k].born + AccessTTL
    <3>1. /\ token[k].fam \in Keys /\ token[token[k].fam].st # "absent"
          /\ token[k].born \in 0 .. now /\ token[k].exp = token[k].born + AccessTTL
      BY <2>2 DEF Consistent, TokensFit, NoToken
    <3> QED
      BY <1>4, <1>8, <2>2, <3>1
  <2>3. ASSUME NEW k \in Keys, token[k] = NoToken, k \notin DOMAIN w.writes
        PROVE  token'[k] = NoToken
    BY <1>3, <2>3
  <2>4. ASSUME NEW k \in Keys, token[k] = NoToken, k \in DOMAIN w.writes
        PROVE  /\ token'[k].st # "absent"
               /\ token'[k].fam \in Keys
               /\ token'[token'[k].fam].st # "absent"
               /\ token'[k].born \in 0 .. now'
               /\ token'[k].exp = token'[k].born + AccessTTL
    <3>1. k = w.new /\ k # NoKey
      BY <1>3, <2>4, TokensAssumption DEF NoToken
    <3>2. FreshRow(w) /\ token'[k] = w.writes[k]
      BY <1>3, <3>1
    <3>3. /\ token'[k].st = "good" /\ token'[k].fam = Family(w)
          /\ token'[k].born \in 0 .. now /\ token'[k].exp = token'[k].born + AccessTTL
      BY <3>1, <3>2 DEF FreshRow
    <3>4. Family(w) \in Keys /\ token'[Family(w)].st # "absent"
      <4>1. CASE w.op = "refresh"
        <5>1. w.key \in Keys /\ token[w.key].st # "absent" /\ Family(w) = token[w.key].fam
          BY <1>2, <4>1 DEF Control, Family
        <5>2. token[w.key].fam \in Keys /\ token[token[w.key].fam].st # "absent"
          BY <5>1 DEF Consistent, TokensFit, NoToken
        <5> QED
          BY <1>4, <5>1, <5>2
      <4>2. CASE w.op # "refresh"
        BY <3>1, <3>3, <4>2 DEF Family
      <4> QED
        BY <4>1, <4>2
    <3> QED
      BY <1>8, <3>3, <3>4
  <2>5. \A k \in Keys : token[k] = NoToken \/ token[k].st # "absent"
    BY DEF Consistent, TokensFit
  <2> QED
    BY <2>1, <2>2, <2>3, <2>4, <2>5 DEF TokensFit
<1>11. LocksExclusive'
  BY <1>6, <1>7, NothingWritten DEF Consistent, LocksExclusive
<1>12. (Control(req[r]) /\ RowsFit(req[r]) /\ OutcomeFits(r))'
  <2>1. Control(next)'
    BY <1>2, <1>6, NothingWritten DEF Control, Path, Requests
  <2>2. RowsFit(next)'
    BY <1>2, <1>4, <1>6, NothingWritten DEF RowsFit, Detecting, HasRevoked
  <2>3. w.new # NoKey => token'[w.new].st = "good"
    BY <1>3 DEF FreshRow
  <2>4. w.op \in {"refresh", "logout"} => token'[w.key].st = "revoked"
    <3> SUFFICES ASSUME w.op \in {"refresh", "logout"} PROVE token'[w.key].st = "revoked"
      OBVIOUS
    <3>1. w.key \in Keys /\ token[w.key].st # "absent" /\ w.key # NoKey
      BY <1>2 DEF Control
    <3>2. CASE Detecting(w)
      BY <1>2, <1>4, <3>1, <3>2 DEF RowsFit
    <3>3. CASE ~ Detecting(w)
      <4>1. w.key \in DOMAIN w.writes
        BY <1>2, <3>3 DEF RowsFit, Detecting, HasRevoked
      <4>2. w.key # w.new
        BY <1>3, <3>1 DEF FreshRow
      <4>3. token'[w.key] = Revoked(w.key)
        BY <1>3, <4>1, <4>2
      <4> QED
        BY <3>1, <4>3 DEF Revoked, Consistent, Typed, Rows
    <3> QED
      BY <3>2, <3>3
  <2>5. OutcomeFits(r)'
    BY <1>6, <1>7, <1>8, <2>3, <2>4 DEF OutcomeFits
  <2> QED
    BY <1>7, <2>1, <2>2, <2>5
<1>13. ASSUME NEW q \in Reqs \ {r}
       PROVE  (Control(req[q]) /\ RowsFit(req[q]) /\ OutcomeFits(q))'
  <2>1. PICK v : v = req[q]
    OBVIOUS
  <2>2. /\ v \in Requests /\ Control(v) /\ RowsFit(v)
        /\ v.key # NoKey => v.key \in Keys /\ token[v.key].st # "absent"
        /\ DOMAIN v.writes \cap DOMAIN w.writes = {}
    BY <1>1, <2>1, AboutRequest
  <2>3. OutcomeFits(q)
    BY DEF Consistent
  <2>4. DOMAIN v.writes \subseteq Keys
    BY <2>2, WritingsAreFunctions DEF Requests
  <2>5. Control(v)'
    BY <2>2 DEF Control
  <2>6. ASSUME NEW k \in DOMAIN v.writes
        PROVE  IF k = v.new THEN FreshRow(v)' ELSE v.writes[k] = Revoked(k)' /\ token'[k].st # "absent"
    <3>1. k \in Keys /\ token'[k] = token[k]
      BY <1>3, <2>2, <2>4
    <3>2. Family(v)' = Family(v)
      <4>1. v.op = "refresh" => v.key \in Keys /\ token[v.key].st # "absent"
        BY <2>2 DEF Control
      <4> QED
        BY <1>4, <4>1 DEF Family
    <3>3. CASE k = v.new
      BY <1>8, <2>2, <3>1, <3>2, <3>3 DEF RowsFit, FreshRow, Consistent, Typed
    <3>4. CASE k # v.new
      BY <2>2, <3>1, <3>4 DEF RowsFit, Revoked
    <3> QED
      BY <3>3, <3>4
  <2>7. \A i \in 1 .. Len(v.todo) : token'[v.todo[i]].st # "absent"
    <3>1. \A i \in 1 .. Len(v.todo) : v.todo[i] \in Keys
      BY <2>2 DEF Requests
    <3> QED
      BY <1>4, <2>2, <3>1 DEF RowsFit
  <2>8. /\ v.key # NoKey => token'[v.key].st # "absent"
        /\ Detecting(v) => token'[v.key].st = "revoked"
        /\ HasRevoked(v) => v.key \in DOMAIN v.writes
    BY <1>4, <2>2 DEF RowsFit, Detecting, Control
  <2>9. RowsFit(v)'
    BY <2>6, <2>7, <2>8 DEF RowsFit, Detecting, HasRevoked
  <2>10. OutcomeFits(q)'
    <3>1. q \in committed' <=> q \in committed
      BY <1>8
    <3>2. v.op \in {"refresh", "logout"} => v.key \in Keys
      BY <2>2 DEF Control
    <3>3. v.new # NoKey => v.new \in Keys
      BY <2>2 DEF Requests
    <3>4. /\ v.pc = "audit" => q \in committed
          /\ q \in committed =>
               /\ v.pc \in {"audit", "done"}
               /\ v.op \in {"refresh", "logout"} => token[v.key].st = "revoked"
               /\ v.op = "deactivate" => ~ live
               /\ v.new # NoKey => token[v.new].st # "absent"
      BY <2>1, <2>3 DEF OutcomeFits
    <3>5. /\ v.pc = "audit" => q \in committed'
          /\ q \in committed' =>
               /\ v.pc \in {"audit", "done"}
               /\ v.op \in {"refresh", "logout"} => token'[v.key].st = "revoked"
               /\ v.op = "deactivate" => ~ live'
               /\ v.new # NoKey => token'[v.new].st # "absent"
      BY <1>4, <1>8, <3>1, <3>2, <3>3, <3>4
    <3>6. req'[q] = v
      BY <1>7, <2>1
    <3> QED
      BY <3>5, <3>6 DEF OutcomeFits
  <2> QED
    BY <1>7, <2>1, <2>5, <2>9, <2>10
<1> QED
  BY <1>9, <1>10, <1>11, <1>12, <1>13 DEF Consistent

LEMMA ReplyKeepsConsistent ==
  ASSUME Consistent, NEW r \in Reqs, Reply(r)
  PROVE  Consistent'
<1>1. PICK w : w = req[r]
  OBVIOUS
<1>2. /\ w \in Requests /\ Control(w) /\ RowsFit(w) /\ w.pc = "audit" /\ w.op # "none"
      /\ OutcomeFits(r)
  BY <1>1, AboutRequest DEF Reply, Consistent
<1> DEFINE next == [w EXCEPT !.pc = "done"]
<1>3. req' = [req EXCEPT ![r] = next]
  BY <1>1 DEF Reply
<1>4. /\ next \in Requests /\ next.pc = "done" /\ next.op = w.op /\ next.key = w.key
      /\ next.new = w.new /\ next.writes = w.writes /\ next.todo = w.todo
  BY <1>2 DEF Requests, Positions
<1> HIDE DEF next
<1>5. req'[r] = next /\ \A q \in Reqs \ {r} : req'[q] = req[q]
  BY <1>3 DEF Consistent, Typed
<1>6. UNCHANGED <<token, live, now, committed, maker, before, met>>
      /\ held' = held \cup ({w.new} \ {NoKey})
  BY <1>1 DEF Reply
<1>7. Typed'
  BY <1>2, <1>3, <1>4, <1>6 DEF Consistent, Typed, Requests
<1>8. TokensFit'
  BY <1>1, <1>2, <1>6 DEF Consistent, TokensFit, OutcomeFits
<1>9. LocksExclusive'
  BY <1>1, <1>4, <1>5 DEF Consistent, LocksExclusive
<1>10. (Control(req[r]) /\ RowsFit(req[r]) /\ OutcomeFits(r))'
  <2>1. DOMAIN next.writes = {}
    BY <1>2, <1>4 DEF Control
  <2>2. Control(next)'
    BY <1>2, <1>4, <2>1 DEF Control, Path, Requests
  <2>3. RowsFit(next)'
    BY <1>2, <1>4, <1>6, <2>1 DEF RowsFit, Detecting, HasRevoked
  <2>4. OutcomeFits(r)'
    BY <1>1, <1>2, <1>4, <1>5, <1>6 DEF OutcomeFits
  <2> QED
    BY <1>5, <2>2, <2>3, <2>4
<1>11. ASSUME NEW q \in Reqs \ {r}
       PROVE  (Control(req[q]) /\ RowsFit(req[q]) /\ OutcomeFits(q))'
  <2>1. PICK v : v = req[q]
    OBVIOUS
  <2>2. Control(v) /\ RowsFit(v) /\ OutcomeFits(q)
    BY <2>1 DEF Consistent
  <2>3. Control(v)' /\ RowsFit(v)'
    BY <1>6, <2>2 DEF Control, RowsFit, FreshRow, Family, Revoked
  <2>4. OutcomeFits(q)'
    BY <1>5, <1>6, <2>2 DEF OutcomeFits
  <2> QED
    BY <1>5, <2>1, <2>3, <2>4
<1> QED
  BY <1>7, <1>8, <1>9, <1>10, <1>11 DEF Consistent

LEMMA TickKeepsConsistent ==
  ASSUME Consistent, Tick
  PROVE  Consistent'
<1>1. now' \in 0 .. MaxTime /\ \A t \in 0 .. now : t \in 0 .. now'
  BY TokensAssumption DEF Tick, Consistent, Typed
<1>2. UNCHANGED <<token, live, held, req, committed, maker, before, met>>
  BY DEF Tick
<1>3. Typed'
  BY <1>1, <1>2 DEF Consistent, Typed
<1>4. TokensFit' /\ LocksExclusive'
  BY <1>1, <1>2 DEF Consistent, TokensFit, LocksExclusive
<1>5. ASSUME NEW q \in Reqs
      PROVE  (Control(req[q]) /\ RowsFit(req[q]) /\ OutcomeFits(q))'
  <2>1. PICK v : v = req[q]
    OBVIOUS
  <2>2. Control(v) /\ RowsFit(v) /\ OutcomeFits(q)
    BY <2>1 DEF Consistent
  <2>3. Control(v)' /\ RowsFit(v)' /\ OutcomeFits(q)'
    BY <1>1, <1>2, <2>2 DEF Control, RowsFit, FreshRow, Family, Revoked, OutcomeFits
  <2> QED
    BY <1>2, <2>1, <2>3
<1> QED
  BY <1>3, <1>4, <1>5 DEF Consistent

LEMMA ConsistentStays == Consistent /\ [Next]_vars => Consistent'
<1> SUFFICES ASSUME Consistent, [Next]_vars PROVE Consistent'
  OBVIOUS
<1>1. CASE UNCHANGED vars
  <2>1. UNCHANGED <<token, live, held, now, req, committed, maker, before, met>>
    BY <1>1 DEF vars
  <2>2. Typed' /\ TokensFit' /\ LocksExclusive'
    BY <2>1 DEF Consistent, Typed, TokensFit, LocksExclusive
  <2>3. ASSUME NEW q \in Reqs
        PROVE  (Control(req[q]) /\ RowsFit(req[q]) /\ OutcomeFits(q))'
    <3>1. PICK v : v = req[q]
      OBVIOUS
    <3>2. Control(v) /\ RowsFit(v) /\ OutcomeFits(q)
      BY <3>1 DEF Consistent
    <3>3. Control(v)' /\ RowsFit(v)' /\ OutcomeFits(q)'
      BY <2>1, <3>2 DEF Control, RowsFit, FreshRow, Family, Revoked, OutcomeFits
    <3> QED
      BY <2>1, <3>1, <3>3
  <2> QED
    BY <2>2, <2>3 DEF Consistent
<1>2. CASE Next
  BY <1>2, StepCases, BeginKeepsConsistent, StatementKeepsConsistent, CommitKeepsConsistent,
     ReplyKeepsConsistent, TickKeepsConsistent
<1> QED
  BY <1>1, <1>2

LEMMA AlwaysConsistent == Spec => []Consistent
BY InitConsistent, ConsistentStays, PTL DEF Spec

(***************************************************************************)
(* The tables and the requests have the shape RefreshTokens gives them:    *)
(* every token belongs to a family, expires when its access token does and *)
(* is handed out only once it exists, however many requests of AuthService *)
(* and of deactivate_user overlap.                                         *)
(***************************************************************************)
THEOREM TokensTyped == Spec => []TokensTypeOK
<1>1. ASSUME Consistent PROVE TokensTypeOK
  <2>1. ASSUME NEW k \in Keys
        PROVE  \/ token[k] = NoToken
               \/ /\ token[k].st \in {"good", "revoked"}
                  /\ token[k].fam \in Keys
                  /\ token[k].born \in 0 .. now
                  /\ token[k].exp = token[k].born + AccessTTL
    BY <1>1 DEF Consistent, Typed, TokensFit, Rows
  <2>2. ASSUME NEW r \in Reqs
        PROVE  DOMAIN req[r].writes \subseteq Keys /\ req[r].userLock \in BOOLEAN
    <3>1. req[r].writes \in Writings /\ req[r].userLock \in BOOLEAN
      BY <1>1 DEF Consistent, Typed, Requests
    <3> QED
      BY <3>1, WritingsAreFunctions
  <2> QED
    BY <1>1, <2>1, <2>2 DEF TokensTypeOK, Consistent, Typed, TokensFit
<1> QED
  BY <1>1, AlwaysConsistent, PTL

=============================================================================
