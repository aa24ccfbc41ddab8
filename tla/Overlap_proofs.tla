--------------------------- MODULE Overlap_proofs ---------------------------
(***************************************************************************)
(* What overlapping requests can do to each other in TransactionRequests:  *)
(* postings are lost, and parts are left without their row, only between   *)
(* requests that were in progress at the same time; a request that met no  *)
(* other does what module Ledger says of its operation; and requests wait  *)
(* for each other in two ways only.                                        *)
(***************************************************************************)
EXTENDS TransactionRequests_proofs

\* Two requests in progress at the same time have met.
MeetingsKnown ==
  \A q, r \in Reqs : q # r /\ Active(q) /\ Active(r) => q \in met[r]

Overwritten(p) == \E q \in met[p] : Posts(q) /\ p \notin req[q].seen

\* A posting that is in the balance no more has been overwritten, ...
PostingsKept == \A p \in Reqs : Posts(p) => p \in applied \/ Overwritten(p)

\* ... or will be by a request that loaded the account before it was committed:
\* such a request has met it.
PostingsSeen ==
  \A r \in Reqs : Active(r) /\ r \notin committed /\ Loaded(req[r]) =>
    \A p \in Reqs : Posts(p) /\ p \notin req[r].seen => Overwritten(p) \/ r \in met[p]

\* A deletion that has asked for the parts of its row knows of them all, or has
\* met the split that made them.
PartsSeen == \A r \in Reqs : Covered(r, req[r])

Deletes(r, p) == r \in committed /\ req[r].op = "delete" /\ req[r].tgt = p
Splits(r, p) == r \in committed /\ req[r].op = "split" /\ req[r].tgt = p

\* A split whose row has been deleted since has met the deletion.
SplitsSeen ==
  \A q \in Reqs : Active(q) /\ q \notin committed /\ req[q].op = "split" =>
    \/ row[req[q].tgt].st = "live"
    \/ \E r \in Reqs : Deletes(r, req[q].tgt) /\ q \in met[r]

Histories ==
  /\ Consistent
  /\ MeetingsKnown
  /\ PostingsKept
  /\ PostingsSeen
  /\ PartsSeen
  /\ SplitsSeen
  /\ StrandedPartsNeedOverlap

-----------------------------------------------------------------------------
(***************************************************************************)
(* What is committed stays as it is.                                       *)
(***************************************************************************)
LEMMA InitHistories == Init => Histories
<1> SUFFICES ASSUME Init PROVE Histories
  OBVIOUS
<1>1. Consistent
  BY InitConsistent
<1>2. \A r \in Reqs : req[r] = NewReq /\ ~ Active(r) /\ ~ Spread(req[r])
  BY DEF Init, NewReq, Active, Spread
<1>3. committed = {} /\ \A r \in Reqs : ~ Posts(r)
  BY DEF Init, Posts
<1>4. MeetingsKnown /\ PostingsKept /\ PostingsSeen /\ PartsSeen /\ SplitsSeen
  BY <1>2, <1>3 DEF MeetingsKnown, PostingsKept, PostingsSeen, PartsSeen, Covered, SplitsSeen
<1>5. StrandedPartsNeedOverlap
  BY RequestsAssumption DEF Init, StrandedPartsNeedOverlap
<1> QED
  BY <1>1, <1>4, <1>5 DEF Histories

\* A step that commits nothing: r goes on to state next.
Quiet(r, next) ==
  /\ req' = [req EXCEPT ![r] = next]
  /\ UNCHANGED <<row, committed, applied>>
  /\ \A q \in Reqs \ {r} : met[q] \subseteq met'[q]
  /\ r \in committed \/ Spread(next) => met[r] \subseteq met'[r]
  /\ r \in committed => /\ next.op = req[r].op /\ next.tgt = req[r].tgt
                        /\ next.delta = req[r].delta /\ next.seen = req[r].seen

LEMMA QuietKeeps ==
  ASSUME Histories, NEW r \in Reqs, NEW next, Quiet(r, next), Consistent', MeetingsKnown',
         InProgress(next) /\ r \notin committed /\ Loaded(next) =>
           \/ next.seen = applied
           \/ Active(r) /\ Loaded(req[r]) /\ next.seen = req[r].seen,
         Covered(r, next),
         InProgress(next) /\ r \notin committed /\ next.op = "split" =>
           \/ row[next.tgt].st = "live"
           \/ Active(r) /\ req[r].op = "split" /\ req[r].tgt = next.tgt
  PROVE  Histories'
<1>1. /\ req'[r] = next /\ \A q \in Reqs \ {r} : req'[q] = req[q]
      /\ UNCHANGED <<row, committed, applied>> /\ committed \subseteq Reqs
  BY DEF Quiet, Histories, Consistent, Typed
<1>2. ASSUME NEW p \in committed
      PROVE  /\ req'[p].op = req[p].op /\ req'[p].tgt = req[p].tgt
             /\ req'[p].delta = req[p].delta /\ req'[p].seen = req[p].seen
             /\ met[p] \subseteq met'[p]
  BY <1>1 DEF Quiet
<1>3. \A p \in Reqs : Posts(p)' <=> Posts(p)
  BY <1>1, <1>2 DEF Posts
<1>4. \A p \in committed : Overwritten(p) => Overwritten(p)'
  BY <1>1, <1>2, <1>3 DEF Overwritten, Posts
<1>5. PostingsKept'
  BY <1>1, <1>3, <1>4 DEF Histories, PostingsKept, Posts
<1>6. PostingsSeen'
  <2> SUFFICES ASSUME NEW q \in Reqs, Active(q)', q \notin committed, Loaded(req'[q]),
                      NEW p \in Reqs, Posts(p), p \notin req'[q].seen
               PROVE  Overwritten(p)' \/ q \in met'[p]
    BY <1>1, <1>3 DEF PostingsSeen
  <2>1. p \in committed
    BY DEF Posts
  <2>2. CASE q # r \/ (Active(r) /\ Loaded(req[r]) /\ next.seen = req[r].seen)
    <3>1. Active(q) /\ Loaded(req[q]) /\ p \notin req[q].seen
      BY <1>1, <2>2 DEF Active
    <3>2. Overwritten(p) \/ q \in met[p]
      BY <3>1 DEF Histories, PostingsSeen
    <3> QED
      BY <1>2, <1>4, <2>1, <3>2
  <2>3. CASE q = r /\ next.seen = applied
    <3>1. Overwritten(p)
      BY <1>1, <2>3 DEF Histories, PostingsKept
    <3> QED
      BY <1>4, <2>1, <3>1
  <2> QED
    BY <1>1, <2>2, <2>3 DEF Active, InProgress
<1>7. PartsSeen'
  <2> SUFFICES ASSUME NEW q \in Reqs PROVE Covered(q, req[q])'
    BY DEF PartsSeen
  <2>1. PICK x : x = req'[q]
    OBVIOUS
  <2>2. Covered(q, x)
    BY <1>1, <2>1 DEF Histories, PartsSeen
  <2>3. Spread(x) => met[q] \subseteq met'[q]
    BY <1>1, <2>1 DEF Quiet
  <2>4. \A c \in Txns : Spread(x) /\ Accounted(q, x, c) => Accounted(q, x, c)'
    BY <1>1, <1>2, <2>3 DEF Accounted
  <2>5. \A c \in Txns : Child(c, x.tgt)' => Child(c, x.tgt)
    BY <1>1 DEF Child
  <2>6. Covered(q, x)'
    BY <2>2, <2>4, <2>5 DEF Covered, Spread
  <2> QED
    BY <2>1, <2>6
<1>8. \A x \in Reqs, p \in Txns : /\ Deletes(x, p) => Deletes(x, p)'
                                  /\ Splits(x, p) => Splits(x, p)'
  BY <1>1, <1>2 DEF Deletes, Splits
<1>9. SplitsSeen'
  <2> SUFFICES ASSUME NEW q \in Reqs, Active(q)', q \notin committed, req'[q].op = "split",
                      NEW p, p = req'[q].tgt
               PROVE  \/ row[p].st = "live"
                      \/ \E x \in Reqs : Deletes(x, p)' /\ q \in met'[x]
    BY <1>1 DEF SplitsSeen, Deletes
  <2>1. \/ row[p].st = "live"
        \/ Active(q) /\ req[q].op = "split" /\ req[q].tgt = p
    <3>1. CASE q = r
      BY <1>1, <3>1 DEF Active, InProgress
    <3>2. CASE q # r
      BY <1>1, <3>2 DEF Active
    <3> QED
      BY <3>1, <3>2
  <2>2. \/ row[p].st = "live"
        \/ \E x \in Reqs : Deletes(x, p) /\ q \in met[x]
    BY <2>1 DEF Histories, SplitsSeen
  <2>3. \A x \in Reqs : Deletes(x, p) => Deletes(x, p)' /\ met[x] \subseteq met'[x]
    BY <1>1, <1>2 DEF Deletes
  <2> QED
    BY <2>2, <2>3
<1>10. StrandedPartsNeedOverlap'
  <2> SUFFICES ASSUME NEW c \in Txns, row[c].st = "live", row[c].parent # NoTxn,
                      row[row[c].parent].st # "live"
               PROVE  \E x \in committed : \E q \in committed \cap met'[x] :
                        /\ req'[x].op = "delete" /\ req'[q].op = "split"
                        /\ req'[x].tgt = row[c].parent /\ req'[q].tgt = row[c].parent
    BY <1>1 DEF StrandedPartsNeedOverlap
  <2>1. PICK x \in committed, q \in committed : /\ q \in met[x]
                        /\ req[x].op = "delete" /\ req[q].op = "split"
                        /\ req[x].tgt = row[c].parent /\ req[q].tgt = row[c].parent
    BY DEF Histories, StrandedPartsNeedOverlap
  <2> QED
    BY <1>2, <2>1
<1> QED
  BY <1>5, <1>6, <1>7, <1>9, <1>10 DEF Histories

-----------------------------------------------------------------------------
(***************************************************************************)
(* The steps that commit nothing.                                          *)
(***************************************************************************)
LEMMA BeginKeepsHistories ==
  ASSUME Histories, NEW r \in Reqs, Begin(r)
  PROVE  Histories'
<1>1. Consistent /\ Consistent'
  BY BeginKeeps DEF Histories
<1>2. PICK next : Arrive(r, next) /\ Fits(r, next) /\ Starts(next)
  BY <1>1, BeginArrives DEF Arrives
<1>3. r \notin committed /\ req[r].pc = "new"
  BY <1>1, <1>2, AboutRequest DEF Arrive
<1>4. PICK now : /\ now = {q \in Reqs \ {r} : Active(q)}
                 /\ met' = [q \in Reqs |-> IF q = r THEN now ELSE IF q \in now THEN met[q] \cup {r} ELSE met[q]]
  BY <1>2 DEF Arrive, Meet
<1>5. ~ Spread(next)
  BY <1>2 DEF Starts, Spread, InProgress
<1>6. Quiet(r, next)
  BY <1>2, <1>3, <1>4, <1>5 DEF Arrive, Quiet
<1>7. MeetingsKnown'
  <2>1. req'[r] = next /\ \A q \in Reqs \ {r} : req'[q] = req[q]
    BY <1>1, <1>6 DEF Consistent, Typed, Quiet
  <2>2. \A q \in Reqs \ {r} : Active(q)' <=> q \in now
    BY <1>4, <2>1 DEF Active
  <2>3. ASSUME NEW p \in Reqs, NEW q \in Reqs, p # q, Active(p)', Active(q)'
        PROVE  p \in met'[q]
    <3>1. CASE q = r
      BY <1>4, <2>2, <2>3, <3>1
    <3>2. CASE p = r
      BY <1>4, <2>2, <2>3, <3>2
    <3>3. CASE p # r /\ q # r
      <4>1. p \in met[q]
        BY <1>4, <2>2, <2>3, <3>3 DEF Histories, MeetingsKnown
      <4> QED
        BY <1>4, <3>3, <4>1
    <3> QED
      BY <3>1, <3>2, <3>3
  <2> QED
    BY <2>3 DEF MeetingsKnown
<1> QED
  BY <1>1, <1>2, <1>5, <1>6, <1>7, QuietKeeps DEF Starts, Covered

LEMMA StatementKeepsHistories ==
  ASSUME Histories, NEW r \in Reqs, Statement(r)
  PROVE  Histories'
<1>1. Consistent /\ Consistent'
  BY StatementKeeps DEF Histories
<1>2. Active(r)
  BY <1>1, StatementBecomes
<1>3. PICK next : Proceed(r, next) /\ Fits(r, next) /\ Follows(r, next)
  BY <1>1, StatementBecomes DEF Becomes
<1>4. Quiet(r, next)
  BY <1>3 DEF Proceed, Quiet, Fits
<1>5. MeetingsKnown'
  <2>1. met' = met /\ \A q \in Reqs \ {r} : req'[q] = req[q]
    BY <1>1, <1>3 DEF Consistent, Typed, Proceed
  <2>2. \A q \in Reqs : Active(q)' => Active(q)
    BY <1>2, <2>1 DEF Active
  <2> QED
    BY <2>1, <2>2 DEF Histories, MeetingsKnown
<1>6. Covered(r, next)
  BY <1>3 DEF Follows, Histories, PartsSeen
<1>7. InProgress(next) /\ r \notin committed /\ Loaded(next) =>
        \/ next.seen = applied
        \/ Active(r) /\ Loaded(req[r]) /\ next.seen = req[r].seen
  BY <1>2, <1>3 DEF Follows
<1>8. next.op = "split" => Active(r) /\ req[r].op = "split" /\ req[r].tgt = next.tgt
  BY <1>2, <1>3 DEF Follows
<1> QED
  BY <1>1, <1>4, <1>5, <1>6, <1>7, <1>8, QuietKeeps

LEMMA WriteAuditKeepsHistories ==
  ASSUME Histories, NEW r \in Reqs, WriteAudit(r)
  PROVE  Histories'
<1>1. Consistent /\ Consistent'
  BY WriteAuditKeeps DEF Histories
<1>2. PICK w \in Requests : w = req[r]
  BY <1>1 DEF Consistent, Typed
<1>3. PICK next : next = [w EXCEPT !.pc = "done"]
  OBVIOUS
<1>4. /\ req' = [req EXCEPT ![r] = next] /\ UNCHANGED <<row, committed, applied, met>>
      /\ w.pc = "audit"
  BY <1>2, <1>3 DEF WriteAudit
<1>5. /\ next.pc = "done" /\ next.op = w.op /\ next.tgt = w.tgt
      /\ next.delta = w.delta /\ next.seen = w.seen
  BY <1>3 DEF Requests
<1>6. Quiet(r, next)
  BY <1>2, <1>4, <1>5 DEF Quiet
<1>7. MeetingsKnown'
  <2>1. \A q \in Reqs : Active(q)' => Active(q)
    BY <1>1, <1>2, <1>4, <1>5 DEF Active, Consistent, Typed
  <2> QED
    BY <1>4, <2>1 DEF Histories, MeetingsKnown
<1> QED
  BY <1>1, <1>5, <1>6, <1>7, QuietKeeps DEF InProgress, Covered, Spread

-----------------------------------------------------------------------------
(***************************************************************************)
(* The commit.                                                             *)
(***************************************************************************)

\* A live row was live, or is what a creation or a split has inserted.
LEMMA LiveAfterCommit ==
  ASSUME Consistent, NEW r \in Reqs, Commit(r), NEW w, w = req[r],
         NEW c \in Txns, row'[c].st = "live"
  PROVE  \/ row[c].st = "live" /\ row'[c].parent = row[c].parent
         \/ w.op = "create" /\ row'[c].parent = NoTxn
         \/ w.op = "split" /\ row'[c].parent = w.tgt /\ c \in DOMAIN w.writes
<1>1. w \in Requests /\ w.op \in AllOps
  BY AboutRequest DEF Commit, Requests
<1>2. CASE row[c].st # "absent"
  BY <1>2, RowsForward DEF Consistent, Typed, RowType, States
<1>3. CASE row[c].st = "absent"
  <2>1. c \in DOMAIN w.writes /\ row'[c] = w.writes[c] /\ RowFits(w, c)
    BY <1>3, CommitRows
  <2>2. w.op \in {"create", "split"}
    BY <1>1, <1>3, <2>1 DEF RowFits
  <2> QED
    BY <2>1, <2>2 DEF RowFits
<1> QED
  BY <1>2, <1>3

\* Only the deletion of a top-level row takes it out of use.
LEMMA OnlyDeletionRemoves ==
  ASSUME Consistent, NEW r \in Reqs, Commit(r), NEW w, w = req[r],
         NEW t \in Txns, row[t].st = "live", row[t].parent = NoTxn, row'[t].st # "live"
  PROVE  w.op = "delete" /\ w.tgt = t
<1>1. w \in Requests /\ w.op \in AllOps /\ Control(w) /\ w.pc = "commit"
  BY AboutRequest DEF Commit, Requests
<1>2. t \in DOMAIN w.writes /\ row'[t] = w.writes[t] /\ RowFits(w, t)
  BY CommitRows
<1>3. w.op \notin {"create", "split", "update"}
  BY <1>2 DEF RowFits
<1>4. w.op # "close"
  BY <1>1, <1>2 DEF Control
<1>5. w.op # "join"
  BY <1>1, <1>2 DEF RowFits, Control, OnRow
<1>6. w.op = "delete"
  BY <1>1, <1>3, <1>4, <1>5 DEF AllOps
<1>7. w.tgt # NoTxn
  BY <1>1, <1>6 DEF Control, OnRow
<1> QED
  BY <1>2, <1>6, <1>7 DEF RowFits

LEMMA CommitKeepsHistories ==
  ASSUME Histories, NEW r \in Reqs, Commit(r)
  PROVE  Histories'
<1>1. Consistent /\ Consistent'
  BY CommitKeeps DEF Histories
<1>2. PICK w : w = req[r]
  OBVIOUS
<1>3. /\ w \in Requests /\ Control(w) /\ RowsFit(w) /\ w.pc = "commit" /\ r \notin committed
  BY <1>1, <1>2, AboutRequest DEF Commit
<1>4. PICK next : next = [Aborted(r) EXCEPT !.pc = IF AuditsApart(r) THEN "audit" ELSE "done"]
  OBVIOUS
<1>5. next.op = w.op /\ next.tgt = w.tgt /\ next.delta = w.delta /\ next.seen = w.seen
      /\ next.pc \in {"audit", "done"}
  BY <1>2, <1>3, <1>4 DEF Aborted, Requests
<1>6. /\ req'[r] = next /\ \A q \in Reqs \ {r} : req'[q] = req[q]
      /\ committed' = committed \cup {r} /\ met' = met /\ committed \subseteq Reqs
      /\ applied' = IF w.lock = "update" THEN w.seen \cup {r} ELSE applied
  BY <1>1, <1>2, <1>4 DEF Commit, BalanceDirty, Consistent, Typed
<1>7. Active(r) /\ \A q \in Reqs : Active(q)' => Active(q)
  BY <1>2, <1>3, <1>6 DEF Active
<1>8. MeetingsKnown'
  BY <1>6, <1>7 DEF Histories, MeetingsKnown
<1>9. \A q \in Reqs \ {r} : Active(q) => q \in met[r] /\ r \in met[q]
  BY <1>7 DEF Histories, MeetingsKnown
<1>10. ASSUME NEW p \in committed
       PROVE  p \in Reqs \ {r} /\ p \in committed' /\ req'[p] = req[p]
  BY <1>3, <1>6
<1>11. w.op \in Posting /\ w.delta # 0 <=> w.lock = "update"
  BY <1>3 DEF Control, LockFits, Posting
<1>12. \A p \in Reqs : Posts(p)' <=> Posts(p) \/ (p = r /\ w.lock = "update")
  BY <1>3, <1>5, <1>6, <1>10, <1>11 DEF Posts
<1>13. \A p \in committed : Overwritten(p) => Overwritten(p)'
  BY <1>6, <1>10, <1>12 DEF Overwritten, Posts
<1>14. PostingsKept'
  <2> SUFFICES ASSUME NEW p \in Reqs, Posts(p)', p \notin applied'
               PROVE  Overwritten(p)'
    BY DEF PostingsKept
  <2>1. p # r /\ Posts(p) /\ p \in committed
    BY <1>3, <1>6, <1>12 DEF Posts
  <2>2. CASE w.lock = "update"
    <3>1. Overwritten(p) \/ r \in met[p]
      <4>1. Loaded(w)
        BY <1>3, <1>11, <2>2 DEF Loaded, Posting
      <4> QED
        BY <1>2, <1>3, <1>6, <1>7, <2>1, <2>2, <4>1 DEF Histories, PostingsSeen
    <3>2. CASE r \in met[p]
      BY <1>5, <1>6, <1>12, <2>2, <3>2 DEF Overwritten
    <3> QED
      BY <1>13, <2>1, <3>1, <3>2
  <2>3. CASE w.lock # "update"
    BY <1>6, <1>13, <2>1, <2>3 DEF Histories, PostingsKept
  <2> QED
    BY <2>2, <2>3
<1>15. PostingsSeen'
  <2> SUFFICES ASSUME NEW q \in Reqs, Active(q)', q \notin committed', Loaded(req'[q]),
                      NEW p \in Reqs, Posts(p)', p \notin req'[q].seen
               PROVE  Overwritten(p)' \/ q \in met'[p]
    BY DEF PostingsSeen
  <2>1. q # r /\ req'[q] = req[q] /\ Active(q) /\ q \notin committed
    BY <1>6, <1>7
  <2>2. CASE p = r
    BY <1>6, <1>9, <2>1, <2>2
  <2>3. CASE p # r
    <3>1. Posts(p) /\ p \in committed
      BY <1>12, <2>3 DEF Posts
    <3>2. Overwritten(p) \/ q \in met[p]
      BY <2>1, <3>1 DEF Histories, PostingsSeen
    <3> QED
      BY <1>6, <1>13, <3>1, <3>2
  <2> QED
    BY <2>2, <2>3
<1>16. PartsSeen'
  <2> SUFFICES ASSUME NEW q \in Reqs PROVE Covered(q, req[q])'
    BY DEF PartsSeen
  <2>1. PICK x : x = req'[q]
    OBVIOUS
  <2>2. CASE q = r
    BY <1>5, <1>6, <2>2 DEF Covered, Spread
  <2>3. CASE q # r
    <3> SUFFICES ASSUME Spread(x), NEW c \in Txns, row'[c].st = "live", row'[c].parent = x.tgt
                 PROVE  Accounted(q, x, c)'
      <4>1. Covered(q, x)'
        BY DEF Covered, Spread, Child
      <4> QED
        BY <2>1, <4>1
    <3>1. x = req[q] /\ x \in Requests /\ Control(x) /\ Active(q) /\ x.tgt # NoTxn
      BY <1>1, <1>6, <2>1, <2>3, AboutRequest DEF Spread, Active, Control, OnRow
    <3>2. CASE row[c].st = "live" /\ row'[c].parent = row[c].parent
      <4>1. Accounted(q, x, c)
        BY <3>1, <3>2 DEF Histories, PartsSeen, Covered, Child
      <4> QED
        BY <1>6, <1>10, <4>1 DEF Accounted
    <3>3. CASE w.op = "split" /\ row'[c].parent = w.tgt
      BY <1>5, <1>6, <1>9, <2>3, <3>1, <3>3 DEF Accounted
    <3> QED
      BY <1>1, <1>2, <3>1, <3>2, <3>3, LiveAfterCommit
  <2> QED
    BY <2>2, <2>3
<1>17. SplitsSeen'
  <2> SUFFICES ASSUME NEW q \in Reqs, Active(q)', q \notin committed', req'[q].op = "split",
                      NEW p, p = req'[q].tgt, row'[p].st # "live"
               PROVE  \E x \in Reqs : Deletes(x, p)' /\ q \in met'[x]
    BY DEF SplitsSeen, Deletes
  <2>1. q # r /\ req'[q] = req[q] /\ Active(q) /\ q \notin committed
    BY <1>6, <1>7
  <2>2. p \in Txns /\ row[p].parent = NoTxn
    <3>1. PICK x : x = req[q]
      OBVIOUS
    <3>2. x \in Requests /\ Control(x) /\ RowsFit(x) /\ x.op = "split" /\ x.tgt = p /\ InProgress(x)
      BY <1>1, <2>1, <3>1, AboutRequest DEF Active, InProgress
    <3> QED
      BY <3>2 DEF Control, OnRow, Requests, RowsFit, TargetFits
  <2>3. CASE row[p].st = "live"
    <3>1. w.op = "delete" /\ w.tgt = p
      BY <1>1, <1>2, <2>2, <2>3, OnlyDeletionRemoves
    <3> QED
      BY <1>5, <1>6, <1>9, <2>1, <3>1 DEF Deletes
  <2>4. CASE row[p].st # "live"
    <3>1. PICK x \in Reqs : Deletes(x, p) /\ q \in met[x]
      BY <2>1, <2>4 DEF Histories, SplitsSeen
    <3> QED
      BY <1>6, <1>10, <3>1 DEF Deletes
  <2> QED
    BY <2>3, <2>4
<1>18. StrandedPartsNeedOverlap'
  <2> SUFFICES ASSUME NEW c \in Txns, NEW p, p = row'[c].parent, row'[c].st = "live",
                      p # NoTxn, row'[p].st # "live"
               PROVE  \E x \in committed' : \E q \in committed' \cap met'[x] :
                        /\ req'[x].op = "delete" /\ req'[q].op = "split"
                        /\ req'[x].tgt = p /\ req'[q].tgt = p
    BY DEF StrandedPartsNeedOverlap
  <2>1. CASE row[c].st = "live" /\ row[c].parent = p
    <3>1. p \in Txns /\ row[p].parent = NoTxn
      BY <1>1, <2>1 DEF Consistent, Typed, RowType, TableFits
    <3>2. CASE row[p].st = "live"
      <4>1. w.op = "delete" /\ w.tgt = p
        BY <1>1, <1>2, <3>1, <3>2, OnlyDeletionRemoves
      <4>2. Accounted(r, w, c)
        BY <1>2, <1>3, <2>1, <4>1 DEF Histories, PartsSeen, Covered, Spread, Child
      <4>3. w.todo = << >>
        BY <1>3 DEF Control
      <4>4. c \notin DOMAIN w.writes
        <5> SUFFICES ASSUME c \in DOMAIN w.writes PROVE FALSE
          OBVIOUS
        <5>1. row'[c] = w.writes[c] /\ RowFits(w, c)
          BY <1>1, <1>2, CommitRows
        <5>2. PICK old \in RowType(States) : old = row[c]
          BY <1>1 DEF Consistent, Typed
        <5>3. row'[c] = [old EXCEPT !.st = "deleted"]
          BY <4>1, <5>1, <5>2 DEF RowFits
        <5> QED
          BY <5>3 DEF RowType
      <4>5. PICK q \in committed \cap met[r] : req[q].op = "split" /\ req[q].tgt = p
        BY <4>1, <4>2, <4>3, <4>4 DEF Accounted
      <4> QED
        BY <1>5, <1>6, <1>10, <4>1, <4>5
    <3>3. CASE row[p].st # "live"
      <4>1. PICK x \in committed, q \in committed : /\ q \in met[x]
                            /\ req[x].op = "delete" /\ req[q].op = "split"
                            /\ req[x].tgt = p /\ req[q].tgt = p
        BY <2>1, <3>3 DEF Histories, StrandedPartsNeedOverlap
      <4> QED
        BY <1>6, <1>10, <4>1
    <3> QED
      BY <3>2, <3>3
  <2>2. CASE w.op = "split" /\ p = w.tgt
    <3>1. p \in Txns /\ row[p].parent = NoTxn
      BY <1>3, <2>2 DEF Requests, RowsFit, TargetFits, InProgress
    <3>2. row[p].st # "live"
      BY <1>1, <1>2, <2>2, <3>1, OnlyDeletionRemoves
    <3>3. PICK x \in Reqs : Deletes(x, p) /\ r \in met[x]
      BY <1>2, <1>3, <1>7, <2>2, <3>2 DEF Histories, SplitsSeen
    <3> QED
      BY <1>5, <1>6, <1>10, <2>2, <3>3 DEF Deletes
  <2> QED
    BY <1>1, <1>2, <2>1, <2>2, LiveAfterCommit
<1> QED
  BY <1>1, <1>8, <1>14, <1>15, <1>16, <1>17, <1>18 DEF Histories

LEMMA HistoriesStay ==
  ASSUME Histories, [Next]_vars
  PROVE  Histories'
<1>1. CASE Next
  BY <1>1, StepCases, BeginKeepsHistories, StatementKeepsHistories, CommitKeepsHistories,
     WriteAuditKeepsHistories
<1>2. CASE UNCHANGED vars
  <2>1. UNCHANGED <<row, open, balance, req, committed, audited, applied, met>>
    BY <1>2 DEF vars
  <2>2. Consistent'
    BY <1>2, ConsistentStays DEF Histories
  <2>3. MeetingsKnown' /\ PostingsKept' /\ PostingsSeen'
    BY <2>1 DEF Histories, MeetingsKnown, PostingsKept, PostingsSeen, Overwritten, Posts, Active
  <2>4. PartsSeen' /\ SplitsSeen' /\ StrandedPartsNeedOverlap'
    BY <2>1 DEF Histories, PartsSeen, Covered, Child, Accounted, SplitsSeen, Deletes, Active,
                StrandedPartsNeedOverlap
  <2> QED
    BY <2>2, <2>3, <2>4 DEF Histories
<1> QED
  BY <1>1, <1>2

LEMMA AlwaysHistories == Spec => []Histories
BY InitHistories, HistoriesStay, PTL DEF Spec

-----------------------------------------------------------------------------
(***************************************************************************)
(* What a request has read and written, in a state q it reaches without    *)
(* having met another: all it knows is current, and its rows are what the  *)
(* ledger's operation makes them.                                          *)
(***************************************************************************)
ReadCurrent(q) ==
  /\ q.op \in {"create", "close"} => open
  /\ Loaded(q) => q.snap = balance
  /\ q.op \in OnRow => row[q.tgt].st = "live"
  /\ q.op \in {"update", "split"} => q.old = row[q.tgt].amt
  /\ q.op \in {"create", "update"} => q.amt \in Amounts
  /\ q.op = "join" /\ q.pc \in {"fetch", "parts", "commit"} => Parts(q.tgt) # {}

Inserted(q) == \E t \in Txns : q.writes = [c \in {t} |-> Row(q.amt, NoTxn)]

Updated(q) ==
  /\ q.delta = q.amt - q.old
  /\ DOMAIN q.writes = {q.tgt}
  /\ q.writes[q.tgt] = [row[q.tgt] EXCEPT !.amt = q.amt]

Removed(q) == q.delta = - row[q.tgt].amt /\ q.tgt \in DOMAIN q.writes

Divided(q) ==
  \E amounts \in [DOMAIN q.writes -> Amounts] :
    /\ Cardinality(DOMAIN q.writes) >= 2
    /\ SumFunction(amounts) = q.old
    /\ q.writes = [c \in DOMAIN q.writes |-> Row(amounts[c], q.tgt)]

Joining(q) == {q.todo[i] : i \in 1 .. Len(q.todo)} \cup DOMAIN q.writes = Parts(q.tgt)

Undisturbed(q) ==
  InProgress(q) =>
    /\ ReadCurrent(q)
    /\ q.op = "create" /\ q.pc \in {"lock", "commit"} => Inserted(q)
    /\ q.op = "update" /\ q.pc \in {"lock", "commit"} => Updated(q)
    /\ q.op = "delete" /\ q.pc \in {"lock", "commit"} => Removed(q)
    /\ q.op = "split" /\ q.pc = "commit" => Divided(q)
    /\ q.op = "join" /\ q.pc \in {"parts", "commit"} => Joining(q)

-----------------------------------------------------------------------------
(***************************************************************************)
(* The state of the ledger that a state of the requests stands for.        *)
(***************************************************************************)
LEMMA RowFields ==
  \A m, p : Row(m, p).st = "live" /\ Row(m, p).amt = m /\ Row(m, p).parent = p
BY DEF Row

\* What module Ledger takes from the libraries is what this one takes.
LEMMA SameSum == ASSUME NEW f PROVE Ledger!SumFunction(f) = SumFunction(f)
BY DEF Ledger!SumFunction, SumFunction, Ledger!SumFunctionOnSet, SumFunctionOnSet, Ledger!FoldFunctionOnSet, FoldFunctionOnSet, Ledger!MapThenFoldSet, MapThenFoldSet

LEMMA SameSize == ASSUME NEW S PROVE Ledger!Cardinality(S) = Cardinality(S)
BY DEF Ledger!Cardinality, Cardinality

\* No permission check of the owner fails.
LEMMA OwnerAllowed ==
  \A l \in {"owner", "editor", "viewer"} : Ledger!Allowed(Owner, Acc, l)
BY DEF Ledger!Allowed, Ledger!Permission, Ledger!IsLive, Ledger!Rank, Ledger!Levels, Ledger!Grantable, Ledger!NoAccess

\* What the top-level rows add up to moves with one row, and stays without.
LEMMA TopLevelMoves ==
  ASSUME NEW old \in [Txns -> RowType(States)], NEW new \in [Txns -> RowType(States)],
         NEW t \in Txns, \A c \in Txns \ {t} : TopLevel(new)[c] = TopLevel(old)[c]
  PROVE  TopLevelSum(new) = TopLevelSum(old) + (TopLevel(new)[t] - TopLevel(old)[t])
<1>1. IsFiniteSet(Txns)
  BY RequestsAssumption
<1>2. /\ \A c \in Txns : TopLevel(old)[c] \in Int /\ TopLevel(new)[c] \in Int
      /\ TopLevelSum(old) = Total(TopLevel(old), Txns)
      /\ TopLevelSum(new) = Total(TopLevel(new), Txns)
  BY TopLevelSumIs, TopLevelTyped
<1> QED
  BY <1>1, <1>2, TotalMoves

LEMMA TopLevelStays ==
  ASSUME NEW old \in [Txns -> RowType(States)], NEW new \in [Txns -> RowType(States)],
         \A c \in Txns : TopLevel(new)[c] = TopLevel(old)[c]
  PROVE  TopLevelSum(new) = TopLevelSum(old)
<1>1. IsFiniteSet(Txns)
  BY RequestsAssumption
<1> QED
  BY <1>1, TopLevelSumIs, TotalAgrees

\* The ledger's transactions.
LedgerRow(x) ==
  IF x.st = "absent"
  THEN [st |-> "absent", acct |-> NoTxn, amt |-> 0, parent |-> NoTxn, by |-> NoTxn]
  ELSE [st |-> x.st, acct |-> Acc, amt |-> x.amt, parent |-> x.parent, by |-> Owner]

LedgerRows == [t \in Txns |-> LedgerRow(row[t])]

LEMMA RowReplaced ==
  ASSUME NEW t \in Txns, NEW new, LedgerRow(row'[t]) = new, \A c \in Txns \ {t} : row'[c] = row[c]
  PROVE  LedgerRows' = [LedgerRows EXCEPT ![t] = new]
<1>1. PICK F, G : F = LedgerRows /\ G = LedgerRows'
  OBVIOUS
<1>2. F = [c \in Txns |-> F[c]] /\ G = [c \in Txns |-> G[c]]
  BY <1>1 DEF LedgerRows
<1>3. \A c \in Txns : F[c] = LedgerRow(row[c]) /\ G[c] = LedgerRow(row'[c])
  BY <1>1 DEF LedgerRows
<1>4. \A c \in Txns : G[c] = IF c = t THEN new ELSE F[c]
  BY <1>3
<1>5. G = [F EXCEPT ![t] = new]
  BY <1>2, <1>4
<1> QED
  BY <1>1, <1>5

-----------------------------------------------------------------------------
(***************************************************************************)
(* What each commit does to the rows and to the balance is an action of the *)
(* ledger.                                                                 *)
(***************************************************************************)
LEMMA CreateCommits ==
  ASSUME Typed, Typed', open, open', NEW t \in Txns, NEW m \in Amounts, row[t].st = "absent",
         row' = [row EXCEPT ![t] = Row(m, NoTxn)], balance' = balance + m
  PROVE  Ledger!CreateTransaction(Owner, Acc, t, m)
<1>1. TopLevelSum(row') = TopLevelSum(row) + m
  <2>1. m \in Int
    BY RequestsAssumption
  <2>2. /\ row \in [Txns -> RowType(States)] /\ row' \in [Txns -> RowType(States)]
        /\ row'[t] = Row(m, NoTxn) /\ \A c \in Txns \ {t} : row'[c] = row[c]
    BY DEF Typed
  <2>3. PICK old, new \in [Txns -> RowType(States)] : old = row /\ new = row'
    BY <2>2
  <2>4. /\ \A c \in Txns \ {t} : TopLevel(new)[c] = TopLevel(old)[c]
        /\ TopLevel(new)[t] = m /\ TopLevel(old)[t] = 0
    BY <2>2, <2>3 DEF Row, TopLevel
  <2>5. TopLevelSum(new) = TopLevelSum(old) + (m - 0)
    BY <2>4, TopLevelMoves
  <2> QED
    BY <2>1, <2>3, <2>5
<1>2. balance \in Int /\ TopLevelSum(row) \in Int /\ m \in Int
  BY TopLevelSumIs, RequestsAssumption DEF Typed
<1>3. balance' - TopLevelSum(row') = balance - TopLevelSum(row)
  BY <1>1, <1>2
<1>4. row'[t] = Row(m, NoTxn) /\ \A c \in Txns \ {t} : row'[c] = row[c]
  BY DEF Typed
<1>5. Ledger!IsLive(Acc) /\ Ledger!AccountForUpdate(Acc)
  BY DEF Ledger!IsLive, Ledger!AccountForUpdate
<1>6. UNCHANGED Ledger!accessVars
  BY DEF Ledger!accessVars
<1>7. LedgerRow(row'[t]) = Ledger!Row(Owner, Acc, m, NoTxn)
  BY <1>4 DEF LedgerRow, Row, Ledger!Row
<1>8. LedgerRows' = [LedgerRows EXCEPT ![t] = Ledger!Row(Owner, Acc, m, NoTxn)]
  BY <1>4, <1>7, RowReplaced
<1>9. LedgerRows[t].st = "absent"
  BY DEF LedgerRows, LedgerRow
<1> QED
  BY <1>3, <1>5, <1>6, <1>8, <1>9, OwnerAllowed
  DEF LedgerRows, LedgerRow, Ledger!CreateTransaction

\* A part's posting is not one of its parent: partNet takes it up.
LEMMA DeltaPosted ==
  ASSUME Typed, open, NEW t \in Txns, NEW d \in Int, row[t].st = "live", balance' = balance + d,
         TopLevelSum(row') = TopLevelSum(row) + (IF row[t].parent # NoTxn THEN 0 ELSE d)
  PROVE  Ledger!PostDelta(t, d)
<1>1. balance \in Int /\ TopLevelSum(row) \in Int
  BY TopLevelSumIs DEF Typed
<1>2. PICK net : net = balance - TopLevelSum(row)
  OBVIOUS
<1>3. balance' - TopLevelSum(row') = IF row[t].parent # NoTxn THEN net + d ELSE net
  BY <1>1, <1>2
<1>4. LedgerRows[t].acct = Acc /\ LedgerRows[t].parent = row[t].parent
  BY DEF LedgerRows, LedgerRow
<1>5. Ledger!IsPart(t) <=> row[t].parent # NoTxn
  BY <1>4 DEF Ledger!IsPart, LedgerRows, LedgerRow
<1>6. Ledger!AccountForUpdate(Acc)
  BY DEF Ledger!IsLive, Ledger!AccountForUpdate
<1>7. [a \in {Acc} |-> balance - TopLevelSum(row)]'
        = [[a \in {Acc} |-> balance - TopLevelSum(row)] EXCEPT
             ![Acc] = IF Ledger!IsPart(t) THEN [a \in {Acc} |-> balance - TopLevelSum(row)][Acc] + d
                      ELSE [a \in {Acc} |-> balance - TopLevelSum(row)][Acc]]
  BY <1>2, <1>3, <1>5
<1>8. [a \in {Acc} |-> balance]' = [[a \in {Acc} |-> balance] EXCEPT ![Acc] = [a \in {Acc} |-> balance][Acc] + d]
  OBVIOUS
<1> QED
  BY <1>4, <1>6, <1>7, <1>8 DEF Ledger!PostDelta, LedgerRows, LedgerRow

LEMMA UpdateCommits ==
  ASSUME Typed, Typed', open, open', NEW t \in Txns, NEW m \in Amounts, row[t].st = "live",
         m # row[t].amt, row'[t] = [row[t] EXCEPT !.amt = m],
         \A c \in Txns \ {t} : row'[c] = row[c], balance' = balance + (m - row[t].amt)
  PROVE  Ledger!UpdateTransaction(Owner, t, m)
<1> DEFINE d == m - row[t].amt
<1>1. m \in Int /\ row[t].amt \in Int /\ d \in Int
  BY RequestsAssumption DEF Typed, RowType
<1>2. /\ row'[t].st = "live" /\ row'[t].amt = m /\ row'[t].parent = row[t].parent
  BY DEF Typed, RowType
<1>3. TopLevelSum(row') = TopLevelSum(row) + (IF row[t].parent # NoTxn THEN 0 ELSE d)
  <2>1. PICK old, new \in [Txns -> RowType(States)] : old = row /\ new = row'
    BY DEF Typed
  <2>2. \A c \in Txns \ {t} : TopLevel(new)[c] = TopLevel(old)[c]
    BY <2>1 DEF TopLevel
  <2>3. TopLevelSum(new) = TopLevelSum(old) + (TopLevel(new)[t] - TopLevel(old)[t])
    BY <2>2, TopLevelMoves
  <2>4. CASE row[t].parent # NoTxn
    <3>1. TopLevel(new)[t] = 0 /\ TopLevel(old)[t] = 0
      BY <1>2, <2>1, <2>4 DEF TopLevel
    <3> QED
      BY <2>1, <2>3, <2>4, <3>1
  <2>5. CASE row[t].parent = NoTxn
    <3>1. TopLevel(new)[t] = m /\ TopLevel(old)[t] = row[t].amt
      BY <1>2, <2>1, <2>5 DEF TopLevel
    <3> QED
      BY <2>1, <2>3, <2>5, <3>1
  <2> QED
    BY <2>4, <2>5
<1>4. Ledger!PostDelta(t, d)
  BY <1>1, <1>3, DeltaPosted
<1>5. /\ LedgerRows[t] = [st |-> "live", acct |-> Acc, amt |-> row[t].amt, parent |-> row[t].parent, by |-> Owner]
      /\ LedgerRow(row'[t]) = [st |-> "live", acct |-> Acc, amt |-> m, parent |-> row[t].parent, by |-> Owner]
  BY <1>2 DEF LedgerRows, LedgerRow
<1>6. LedgerRow(row'[t]) = [LedgerRows[t] EXCEPT !.amt = m]
  BY <1>5
<1>7. LedgerRows' = [LedgerRows EXCEPT ![t] = [LedgerRows[t] EXCEPT !.amt = m]]
  BY <1>6, RowReplaced
<1>8. LedgerRows' = [LedgerRows EXCEPT ![t].amt = m]
  BY <1>7
<1>9. Ledger!Live(t)
  BY <1>5 DEF Ledger!Live, LedgerRows, LedgerRow
<1>10. UNCHANGED Ledger!accessVars
  BY DEF Ledger!accessVars
<1> QED
  BY <1>4, <1>5, <1>8, <1>9, <1>10 DEF Ledger!UpdateTransaction, LedgerRows, LedgerRow

LEMMA RowsRegrouped ==
  ASSUME NEW S, NEW st \in {"deleted", "purged"}, \A c \in S : row[c].st = "live", Typed,
         \A c \in Txns : row'[c] = IF c \in S THEN [row[c] EXCEPT !.st = st] ELSE row[c]
  PROVE  LedgerRows' = [c \in Txns |-> IF c \in S THEN [LedgerRows[c] EXCEPT !.st = st] ELSE LedgerRows[c]]
<1>1. PICK F, G : F = LedgerRows /\ G = LedgerRows'
  OBVIOUS
<1>2. G = [c \in Txns |-> G[c]]
  BY <1>1 DEF LedgerRows
<1>3. \A c \in Txns : F[c] = LedgerRow(row[c]) /\ G[c] = LedgerRow(row'[c])
  BY <1>1 DEF LedgerRows
<1>4. ASSUME NEW c \in Txns PROVE G[c] = IF c \in S THEN [F[c] EXCEPT !.st = st] ELSE F[c]
  <2>1. CASE c \in S
    <3>1. row'[c].st = st /\ row'[c].amt = row[c].amt /\ row'[c].parent = row[c].parent
      BY <2>1 DEF Typed, RowType
    <3>2. LedgerRow(row[c]) = [st |-> "live", acct |-> Acc, amt |-> row[c].amt, parent |-> row[c].parent, by |-> Owner]
      BY <2>1 DEF LedgerRow
    <3>3. LedgerRow(row'[c]) = [st |-> st, acct |-> Acc, amt |-> row[c].amt, parent |-> row[c].parent, by |-> Owner]
      BY <3>1 DEF LedgerRow
    <3> QED
      BY <1>3, <2>1, <3>2, <3>3
  <2>2. CASE c \notin S
    BY <1>3, <2>2
  <2> QED
    BY <2>1, <2>2
<1>5. G = [c \in Txns |-> IF c \in S THEN [F[c] EXCEPT !.st = st] ELSE F[c]]
  BY <1>2, <1>4
<1> QED
  BY <1>1, <1>5

LEMMA ChildrenAre ==
  ASSUME NEW t \in Txns
  PROVE  Ledger!Children(t) = Parts(t)
<1>1. \A c \in Txns : Ledger!Live(c) <=> row[c].st = "live"
  BY DEF Ledger!Live
<1>2. \A c \in Txns : row[c].st = "live" => LedgerRows[c].parent = row[c].parent
  BY DEF LedgerRows, LedgerRow
<1> QED
  BY <1>1, <1>2 DEF Ledger!Children, LedgerRows, LedgerRow, Parts

LEMMA DeleteCommits ==
  ASSUME Typed, Typed', open, open', NEW t \in Txns, row[t].st = "live",
         \A c \in Txns : row'[c] = IF c \in Parts(t) \cup {t} THEN [row[c] EXCEPT !.st = "deleted"] ELSE row[c],
         balance' = balance - row[t].amt
  PROVE  Ledger!DeleteTransaction(Owner, t)
<1> DEFINE d == - row[t].amt
<1>1. row[t].amt \in Int /\ d \in Int /\ balance \in Int
  BY DEF Typed, RowType
<1>2. t # NoTxn
  BY RequestsAssumption
<1>3. TopLevelSum(row') = TopLevelSum(row) + (IF row[t].parent # NoTxn THEN 0 ELSE d)
  <2>1. PICK old, new \in [Txns -> RowType(States)] : old = row /\ new = row'
    BY DEF Typed
  <2>2. \A c \in Parts(t) \ {t} : row[c].parent = t /\ row'[c].parent = t
    BY DEF Parts, Typed, RowType
  <2>3. \A c \in Txns \ {t} : TopLevel(new)[c] = TopLevel(old)[c]
    BY <1>2, <2>1, <2>2 DEF TopLevel
  <2>4. TopLevelSum(new) = TopLevelSum(old) + (TopLevel(new)[t] - TopLevel(old)[t])
    BY <2>3, TopLevelMoves
  <2>5. row'[t].st = "deleted"
    BY DEF Typed, RowType
  <2>6. TopLevel(new)[t] = 0 /\ TopLevel(old)[t] = IF row[t].parent # NoTxn THEN 0 ELSE row[t].amt
    BY <2>1, <2>5 DEF TopLevel
  <2>7. TopLevelSum(old) \in Int
    BY TopLevelSumIs
  <2> QED
    BY <1>1, <2>1, <2>4, <2>6, <2>7
<1>4. Ledger!PostDelta(t, d)
  <2>1. balance' = balance + d
    BY <1>1
  <2> HIDE DEF d
  <2> QED
    BY <1>1, <1>3, <2>1, DeltaPosted
<1>5. LedgerRows[t] = [st |-> "live", acct |-> Acc, amt |-> row[t].amt, parent |-> row[t].parent, by |-> Owner]
  BY DEF LedgerRows, LedgerRow
<1>6. Ledger!Children(t) = Parts(t)
  BY ChildrenAre
<1>7. LedgerRows' = [c \in Txns |-> IF c \in Ledger!Children(t) \cup {t}
                                     THEN [LedgerRows[c] EXCEPT !.st = "deleted"] ELSE LedgerRows[c]]
  <2>1. PICK S : S = Parts(t) \cup {t}
    OBVIOUS
  <2>2. /\ \A c \in S : row[c].st = "live"
        /\ \A c \in Txns : row'[c] = IF c \in S THEN [row[c] EXCEPT !.st = "deleted"] ELSE row[c]
    BY <2>1 DEF Parts
  <2>3. LedgerRows' = [c \in Txns |-> IF c \in S THEN [LedgerRows[c] EXCEPT !.st = "deleted"] ELSE LedgerRows[c]]
    BY <2>2, RowsRegrouped
  <2> QED
    BY <1>6, <2>1, <2>3
<1>8. Ledger!Live(t)
  BY <1>5 DEF Ledger!Live, LedgerRows, LedgerRow
<1>9. UNCHANGED Ledger!accessVars
  BY DEF Ledger!accessVars
<1>10. Ledger!Allowed(Owner, Acc, "owner")
  BY OwnerAllowed
<1>11. LedgerRows[t].acct = Acc /\ LedgerRows[t].amt = row[t].amt
  BY <1>5
<1> QED
  BY <1>4, <1>7, <1>8, <1>9, <1>10, <1>11 DEF Ledger!DeleteTransaction, LedgerRows, LedgerRow

\* Rows with a parent do not count.
LEMMA OnlyPartsChange ==
  ASSUME Typed, Typed', balance' = balance,
         \A c \in Txns : \/ row'[c] = row[c]
                         \/ /\ row'[c].parent # NoTxn \/ row'[c].st # "live"
                            /\ row[c].parent # NoTxn \/ row[c].st # "live"
  PROVE  /\ [a \in {Acc} |-> balance]' = [a \in {Acc} |-> balance]
         /\ [a \in {Acc} |-> balance - TopLevelSum(row)]' = [a \in {Acc} |-> balance - TopLevelSum(row)]
<1>1. PICK old, new \in [Txns -> RowType(States)] : old = row /\ new = row'
  BY DEF Typed
<1>2. \A c \in Txns : TopLevel(new)[c] = TopLevel(old)[c]
  BY <1>1 DEF TopLevel
<1>3. TopLevelSum(row') = TopLevelSum(row)
  BY <1>1, <1>2, TopLevelStays
<1> QED
  BY <1>3

LEMMA JoinCommits ==
  ASSUME Typed, Typed', UNCHANGED <<open, balance>>, NEW t \in Txns, row[t].st = "live", Parts(t) # {},
         \A c \in Txns : row'[c] = IF c \in Parts(t) THEN [row[c] EXCEPT !.st = "purged"] ELSE row[c]
  PROVE  Ledger!JoinTransaction(Owner, t)
<1>1. t # NoTxn
  BY RequestsAssumption
<1>2. \A c \in Parts(t) : row[c].st = "live" /\ row[c].parent = t /\ row'[c].parent = t
  BY DEF Parts, Typed, RowType
<1>3. /\ [a \in {Acc} |-> balance]' = [a \in {Acc} |-> balance]
      /\ [a \in {Acc} |-> balance - TopLevelSum(row)]' = [a \in {Acc} |-> balance - TopLevelSum(row)]
  BY <1>1, <1>2, OnlyPartsChange
<1>4. LedgerRows[t] = [st |-> "live", acct |-> Acc, amt |-> row[t].amt, parent |-> row[t].parent, by |-> Owner]
  BY DEF LedgerRows, LedgerRow
<1>5. Ledger!Children(t) = Parts(t)
  BY ChildrenAre
<1>6. LedgerRows' = [c \in Txns |-> IF c \in Ledger!Children(t)
                                     THEN [LedgerRows[c] EXCEPT !.st = "purged"] ELSE LedgerRows[c]]
  <2>1. PICK S : S = Parts(t)
    OBVIOUS
  <2>2. /\ \A c \in S : row[c].st = "live"
        /\ \A c \in Txns : row'[c] = IF c \in S THEN [row[c] EXCEPT !.st = "purged"] ELSE row[c]
    BY <1>2, <2>1
  <2>3. LedgerRows' = [c \in Txns |-> IF c \in S THEN [LedgerRows[c] EXCEPT !.st = "purged"] ELSE LedgerRows[c]]
    BY <2>2, RowsRegrouped
  <2> QED
    BY <1>5, <2>1, <2>3
<1>7. Ledger!Live(t)
  BY <1>4 DEF Ledger!Live, LedgerRows, LedgerRow
<1>8. UNCHANGED Ledger!accessVars
  BY DEF Ledger!accessVars
<1>9. LedgerRows[t].acct = Acc /\ Ledger!Allowed(Owner, Acc, "editor")
  BY <1>4, OwnerAllowed
<1> QED
  BY <1>3, <1>5, <1>6, <1>7, <1>8, <1>9 DEF Ledger!JoinTransaction, LedgerRows, LedgerRow

LEMMA SplitCommits ==
  ASSUME Typed, Typed', UNCHANGED <<open, balance>>, NEW t \in Txns,
         row[t].st = "live", row[t].parent = NoTxn,
         NEW new \in SUBSET Txns, NEW amounts \in [new -> Amounts],
         Cardinality(new) >= 2, SumFunction(amounts) = row[t].amt, \A c \in new : row[c].st = "absent",
         \A c \in Txns : row'[c] = IF c \in new THEN Row(amounts[c], t) ELSE row[c]
  PROVE  Ledger!SplitTransaction(Owner, t, amounts)
<1>1. t # NoTxn /\ DOMAIN amounts = new
  BY RequestsAssumption
<1>0. \A c \in new : row'[c] = Row(amounts[c], t)
  OBVIOUS
<1>2. \A c \in new : row'[c].parent = t
  BY <1>0, RowFields
<1>3. /\ [a \in {Acc} |-> balance]' = [a \in {Acc} |-> balance]
      /\ [a \in {Acc} |-> balance - TopLevelSum(row)]' = [a \in {Acc} |-> balance - TopLevelSum(row)]
  BY <1>1, <1>2, OnlyPartsChange
<1>4. LedgerRows[t] = [st |-> "live", acct |-> Acc, amt |-> row[t].amt, parent |-> NoTxn, by |-> Owner]
  BY DEF LedgerRows, LedgerRow
<1>5. LedgerRows' = [c \in Txns |-> IF c \in DOMAIN amounts THEN Ledger!Row(Owner, Acc, amounts[c], t)
                                     ELSE LedgerRows[c]]
  <2>1. PICK F, G : F = LedgerRows /\ G = LedgerRows'
    OBVIOUS
  <2>2. G = [c \in Txns |-> G[c]]
    BY <2>1 DEF LedgerRows
  <2>3. \A c \in Txns : F[c] = LedgerRow(row[c]) /\ G[c] = LedgerRow(row'[c])
    BY <2>1 DEF LedgerRows
  <2>4. \A c \in new : LedgerRow(row'[c]) = Ledger!Row(Owner, Acc, amounts[c], t)
    <3> SUFFICES ASSUME NEW c \in new PROVE LedgerRow(row'[c]) = Ledger!Row(Owner, Acc, amounts[c], t)
      OBVIOUS
    <3>1. PICK x : x = row'[c]
      OBVIOUS
    <3>2. x.st = "live" /\ x.amt = amounts[c] /\ x.parent = t
      BY <1>0, <3>1, RowFields
    <3>3. LedgerRow(x) = Ledger!Row(Owner, Acc, amounts[c], t)
      BY <3>2 DEF LedgerRow, Ledger!Row
    <3> QED
      BY <3>1, <3>3
  <2>5. \A c \in Txns : G[c] = IF c \in new THEN Ledger!Row(Owner, Acc, amounts[c], t) ELSE F[c]
    BY <2>3, <2>4
  <2>6. G = [c \in Txns |-> IF c \in new THEN Ledger!Row(Owner, Acc, amounts[c], t) ELSE F[c]]
    BY <2>2, <2>5
  <2> QED
    BY <1>1, <2>1, <2>6
<1>6. Ledger!Live(t) /\ ~ Ledger!IsPart(t)
  BY <1>4 DEF Ledger!Live, Ledger!IsPart, LedgerRows, LedgerRow
<1>7. Ledger!Cardinality(DOMAIN amounts) >= 2 /\ Ledger!SumFunction(amounts) = LedgerRows[t].amt
  BY <1>1, <1>4, SameSum, SameSize
<1>8. UNCHANGED Ledger!accessVars
  BY DEF Ledger!accessVars
<1>9. LedgerRows[t].acct = Acc /\ Ledger!Allowed(Owner, Acc, "editor")
  BY <1>4, OwnerAllowed
<1>10. \A c \in DOMAIN amounts : LedgerRows[c].st = "absent"
  BY <1>1 DEF LedgerRows, LedgerRow
<1> QED
  BY <1>3, <1>5, <1>6, <1>7, <1>8, <1>9, <1>10 DEF Ledger!SplitTransaction, LedgerRows, LedgerRow

LEMMA CloseCommits ==
  ASSUME open, ~ open', UNCHANGED <<row, balance>>
  PROVE  Ledger!CloseAccount(Owner, Acc)
<1>1. Ledger!IsLive(Acc)
  BY DEF Ledger!IsLive
<1>0. TopLevelSum(row') = TopLevelSum(row)
  OBVIOUS
<1>2. UNCHANGED Ledger!ledgerVars
  BY <1>0 DEF Ledger!ledgerVars
<1> QED
  BY <1>1, <1>2 DEF Ledger!CloseAccount, Ledger!DeleteAccount

LEMMA NothingCommits ==
  ASSUME UNCHANGED <<row, open, balance>>
  PROVE  UNCHANGED Ledger!vars
<1>1. TopLevelSum(row') = TopLevelSum(row)
  OBVIOUS
<1> QED
  BY <1>1 DEF Ledger!vars

\* An update to the amount that is there already leaves the ledger alone.
LEMMA CommitFollowsLedger ==
  ASSUME Histories, NEW r \in Reqs, Commit(r), Undisturbed(req[r]), met[r] = {}
  PROVE  [Ledger!Next]_(Ledger!vars)
<1>1. PICK w : w = req[r]
  OBVIOUS
<1>2. /\ w \in Requests /\ Control(w) /\ RowsFit(w) /\ w.pc = "commit" /\ w.op \in AllOps
      /\ w.lock = "update" => open
  BY <1>1, AboutRequest DEF Commit, Histories, Requests
<1>3. Typed /\ Typed'
  BY CommitKeeps DEF Histories, Consistent
<1>4. /\ row' \in [Txns -> RowType(States)]
      /\ \A t \in Txns : \/ t \in DOMAIN w.writes /\ row'[t] = w.writes[t] /\ RowFits(w, t)
                         \/ t \notin DOMAIN w.writes /\ row'[t] = row[t]
  BY <1>1, CommitRows DEF Histories
<1>5. /\ open' = (open /\ w.op # "close")
      /\ balance' = IF w.lock = "update" THEN w.snap + w.delta ELSE balance
  BY <1>1 DEF Commit, BalanceDirty
<1>6. /\ w.lock = "update" <=> w.op \in Posting /\ w.delta # 0
      /\ w.op \in OnRow => w.tgt \in Txns
      /\ w.todo = << >> /\ (w.op = "create" => w.delta = w.amt /\ w.amt # 0)
  BY <1>2 DEF Control, LockFits, Requests, Posting, AllOps, OnRow
<1>7. w.op \in Posting => w.snap = balance
  BY <1>1, <1>2 DEF Undisturbed, ReadCurrent, Loaded, InProgress, Posting
<1>8. w.op \in OnRow => row[w.tgt].st = "live"
  BY <1>1, <1>2 DEF Undisturbed, ReadCurrent, InProgress
<1>9. CASE w.op = "create"
  <2>1. PICK t \in Txns : w.writes = [c \in {t} |-> Row(w.amt, NoTxn)]
    <3>1. w.op = "create" /\ w.pc = "commit" /\ InProgress(w)
      BY <1>2, <1>9 DEF InProgress
    <3> QED
      BY <1>1, <3>1 DEF Undisturbed, Inserted
  <2>2. w.amt \in Amounts /\ w.amt \in Int
    BY <1>1, <1>2, <1>9, RequestsAssumption DEF Undisturbed, ReadCurrent, InProgress
  <2>3. DOMAIN w.writes = {t} /\ w.writes[t] = Row(w.amt, NoTxn)
    BY <2>1
  <2>4. row[t].st = "absent"
    BY <1>4, <1>9, <2>3 DEF RowFits
  <2>5. row' = [row EXCEPT ![t] = Row(w.amt, NoTxn)]
    BY <1>3, <1>4, <2>3 DEF Typed
  <2>6. open /\ open' /\ balance' = balance + w.amt
    BY <1>2, <1>5, <1>6, <1>7, <1>9 DEF Posting
  <2>7. Ledger!CreateTransaction(Owner, Acc, t, w.amt)
    BY <1>3, <2>2, <2>4, <2>5, <2>6, CreateCommits
  <2> QED
    BY <2>2, <2>7 DEF Ledger!Next, Ledger!AccountStep
<1>10. CASE w.op = "update"
  <2>1. /\ w.old = row[w.tgt].amt /\ w.amt \in Amounts /\ w.delta = w.amt - w.old
        /\ DOMAIN w.writes = {w.tgt} /\ w.writes[w.tgt] = [row[w.tgt] EXCEPT !.amt = w.amt]
    BY <1>1, <1>2, <1>10 DEF Undisturbed, ReadCurrent, Updated, InProgress, OnRow
  <2>2. w.tgt \in Txns /\ row[w.tgt].st = "live" /\ w.amt \in Int /\ w.old \in Int
    BY <1>2, <1>6, <1>8, <1>10 DEF OnRow, Requests
  <2>3. /\ row'[w.tgt] = [row[w.tgt] EXCEPT !.amt = w.amt]
        /\ \A c \in Txns \ {w.tgt} : row'[c] = row[c]
    BY <1>4, <2>1, <2>2
  <2>4. CASE w.amt = w.old
    <3>1. \A c \in Txns : row'[c] = row[c]
      BY <1>3, <2>1, <2>2, <2>3, <2>4 DEF Typed, RowType
    <3>2. row' = row /\ balance' = balance /\ open' = open
      BY <1>3, <1>5, <1>6, <1>10, <2>1, <2>2, <2>4, <3>1 DEF Typed
    <3> QED
      BY <3>2, NothingCommits
  <2>5. CASE w.amt # w.old
    <3>0. w.delta # 0
      BY <2>1, <2>2, <2>5
    <3>1. open /\ open' /\ balance' = balance + (w.amt - row[w.tgt].amt)
      BY <1>2, <1>5, <1>6, <1>7, <1>10, <2>1, <3>0 DEF Posting
    <3>2. Ledger!UpdateTransaction(Owner, w.tgt, w.amt)
      BY <1>3, <2>1, <2>2, <2>3, <2>5, <3>1, UpdateCommits
    <3> QED
      BY <2>1, <2>2, <3>2 DEF Ledger!Next, Ledger!RowStep
  <2> QED
    BY <2>4, <2>5
<1>11. CASE w.op = "delete"
  <2>1. w.tgt \in DOMAIN w.writes /\ w.delta = - row[w.tgt].amt
    BY <1>1, <1>2, <1>11 DEF Undisturbed, Removed, InProgress
  <2>2. w.tgt \in Txns /\ row[w.tgt].st = "live"
    BY <1>6, <1>8, <1>11 DEF OnRow
  <2>3. row[w.tgt].amt \in Int /\ row[w.tgt].amt # 0 /\ balance \in Int
    BY <1>3, <2>2 DEF Typed, RowType, Histories, Consistent, TableFits
  <2>4. Parts(w.tgt) \subseteq DOMAIN w.writes
    <3>1. Covered(r, w) /\ Spread(w)
      BY <1>1, <1>2, <1>11 DEF Histories, PartsSeen, Spread
    <3>2. \A c \in Parts(w.tgt) : Accounted(r, w, c)
      BY <3>1 DEF Covered, Child, Parts
    <3> QED
      BY <1>6, <3>2 DEF Accounted
  <2>5. \A c \in Txns : row'[c] = IF c \in Parts(w.tgt) \cup {w.tgt}
                                  THEN [row[c] EXCEPT !.st = "deleted"] ELSE row[c]
    <3> SUFFICES ASSUME NEW c \in Txns
                 PROVE  row'[c] = IF c \in Parts(w.tgt) \cup {w.tgt}
                                  THEN [row[c] EXCEPT !.st = "deleted"] ELSE row[c]
      OBVIOUS
    <3>1. CASE c \notin DOMAIN w.writes
      BY <1>4, <2>1, <2>4, <3>1
    <3>2. CASE c \in DOMAIN w.writes
      <4>1. /\ row'[c] = [row[c] EXCEPT !.st = "deleted"]
            /\ row[c].st \in {"live", "deleted"} /\ (c # w.tgt => row[c].parent = w.tgt)
        BY <1>4, <1>11, <3>2 DEF RowFits
      <4>2. c \notin Parts(w.tgt) \cup {w.tgt} => row[c].st = "deleted"
        BY <4>1 DEF Parts
      <4>3. row[c].st = "deleted" => [row[c] EXCEPT !.st = "deleted"] = row[c]
        BY <1>3 DEF Typed, RowType
      <4> QED
        BY <4>1, <4>2, <4>3
    <3> QED
      BY <3>1, <3>2
  <2>6. open /\ open' /\ balance' = balance - row[w.tgt].amt
    <3>1. w.delta # 0 /\ balance + w.delta = balance - row[w.tgt].amt
      BY <2>1, <2>3
    <3> QED
      BY <1>2, <1>5, <1>6, <1>7, <1>11, <3>1 DEF Posting
  <2>7. Ledger!DeleteTransaction(Owner, w.tgt)
    BY <1>3, <2>2, <2>5, <2>6, DeleteCommits
  <2> QED
    BY <2>2, <2>7 DEF Ledger!Next, Ledger!RowStep
<1>12. CASE w.op = "split"
  <2>1. PICK new : new = DOMAIN w.writes
    OBVIOUS
  <2>2. PICK amounts \in [new -> Amounts] :
          /\ Cardinality(new) >= 2
          /\ SumFunction(amounts) = row[w.tgt].amt
          /\ w.writes = [c \in new |-> Row(amounts[c], w.tgt)]
    BY <1>1, <1>2, <1>12, <2>1 DEF Undisturbed, ReadCurrent, Divided, InProgress, OnRow
  <2>3. w.tgt \in Txns /\ row[w.tgt].st = "live" /\ row[w.tgt].parent = NoTxn
    BY <1>2, <1>6, <1>8, <1>12, RequestsAssumption DEF OnRow, RowsFit, TargetFits, InProgress
  <2>4. new \in SUBSET Txns /\ \A c \in new : row[c].st = "absent"
    <3>1. w.writes \in Writings
      BY <1>2 DEF Requests
    <3>2. DOMAIN w.writes \subseteq Txns
      BY <3>1, WritingsAreFunctions
    <3> QED
      BY <1>4, <1>12, <2>1, <3>2 DEF RowFits
  <2>5. \A c \in Txns : row'[c] = IF c \in new THEN Row(amounts[c], w.tgt) ELSE row[c]
    BY <1>4, <2>1, <2>2
  <2>6. UNCHANGED <<open, balance>>
    BY <1>3, <1>5, <1>6, <1>12 DEF Posting, Typed
  <2>7. Ledger!SplitTransaction(Owner, w.tgt, amounts)
    BY <1>3, <2>2, <2>3, <2>4, <2>5, <2>6, SplitCommits
  <2> QED
    BY <2>2, <2>3, <2>4, <2>7 DEF Ledger!Next, Ledger!RowStep
<1>13. CASE w.op = "join"
  <2>1. Parts(w.tgt) # {} /\ DOMAIN w.writes = Parts(w.tgt)
    <3>1. w.op = "join" /\ w.pc = "commit" /\ InProgress(w)
      BY <1>2, <1>13 DEF InProgress
    <3>2. Parts(w.tgt) # {} /\ Joining(w)
      BY <1>1, <3>1 DEF Undisturbed, ReadCurrent
    <3>3. {w.todo[i] : i \in 1 .. Len(w.todo)} = {}
      BY <1>6
    <3> QED
      BY <3>2, <3>3 DEF Joining
  <2>2. w.tgt \in Txns /\ row[w.tgt].st = "live"
    BY <1>6, <1>8, <1>13 DEF OnRow
  <2>3. \A c \in Txns : row'[c] = IF c \in Parts(w.tgt) THEN [row[c] EXCEPT !.st = "purged"] ELSE row[c]
    BY <1>4, <1>13, <2>1 DEF RowFits
  <2>4. UNCHANGED <<open, balance>>
    BY <1>3, <1>5, <1>6, <1>13 DEF Posting, Typed
  <2>5. Ledger!JoinTransaction(Owner, w.tgt)
    BY <1>3, <2>1, <2>2, <2>3, <2>4, JoinCommits
  <2> QED
    BY <2>2, <2>5 DEF Ledger!Next, Ledger!RowStep
<1>14. CASE w.op = "close"
  <2>1. DOMAIN w.writes = {}
    BY <1>2, <1>14 DEF Control
  <2>2. row' = row
    BY <1>3, <1>4, <2>1 DEF Typed
  <2>3. open /\ ~ open' /\ balance' = balance
    BY <1>1, <1>2, <1>5, <1>6, <1>14 DEF Undisturbed, ReadCurrent, InProgress, Posting
  <2>4. Ledger!CloseAccount(Owner, Acc)
    BY <2>2, <2>3, CloseCommits
  <2> QED
    BY <2>4 DEF Ledger!Next, Ledger!AccountStep
<1> QED
  BY <1>2, <1>9, <1>10, <1>11, <1>12, <1>13, <1>14 DEF AllOps

-----------------------------------------------------------------------------
(***************************************************************************)
(* An undisturbed request stays undisturbed, whichever statement comes next. *)
(***************************************************************************)
StaysUndisturbed(r) == \E next : Proceed(r, next) /\ Undisturbed(next)

\* The state in which r takes a step.
LEMMA Proceeding ==
  ASSUME Consistent, NEW r \in Reqs, Active(r), NEW w, w = req[r], Undisturbed(w)
  PROVE  /\ w \in Requests /\ Control(w) /\ RowsFit(w) /\ ReadCurrent(w) /\ InProgress(w)
         /\ w.writes \in Writings /\ w.todo \in Seq(Txns) /\ w.snap \in Int /\ balance \in Int
         /\ w.op \in AllOps /\ (w.op \in OnRow => w.tgt \in Txns)
<1>1. w \in Requests /\ Control(w) /\ RowsFit(w) /\ InProgress(w)
  BY AboutRequest DEF Active, InProgress
<1>2. ReadCurrent(w)
  BY <1>1 DEF Undisturbed
<1>3. w.op # "none"
  BY <1>1 DEF Control, Path, InProgress
<1> QED
  BY <1>1, <1>2, <1>3 DEF Requests, Control, Consistent, Typed

\* A request that has ended is done with.
LEMMA AbortUndisturbed ==
  ASSUME Consistent, NEW r \in Reqs, Proceed(r, Aborted(r))
  PROVE  StaysUndisturbed(r)
<1>1. PICK next : next = Aborted(r)
  OBVIOUS
<1>2. req[r] \in Requests
  BY AboutRequest
<1>3. next.pc = "done"
  BY <1>1, <1>2 DEF Aborted, Requests
<1> QED
  BY <1>1, <1>3 DEF StaysUndisturbed, Undisturbed, InProgress

\* A refresh finds the balance that the session has already.
LEMMA RefreshCurrent ==
  ASSUME Consistent, NEW r \in Reqs, NEW next, AfterRefresh(r, next)
  PROVE  \E snap \in {req[r].snap, balance}, seen \in SUBSET Reqs :
           Proceed(r, [next EXCEPT !.snap = snap, !.seen = seen])
<1>1. PICK known \in {<<req[r].snap, req[r].seen>>, <<balance, applied>>} :
        Proceed(r, [next EXCEPT !.snap = known[1], !.seen = known[2]])
  BY DEF AfterRefresh
<1>2. PICK snap, seen : snap = known[1] /\ seen = known[2]
  OBVIOUS
<1>3. req[r].seen \subseteq Reqs /\ applied \subseteq Reqs
  BY DEF Consistent, Typed
<1>4. snap \in {req[r].snap, balance} /\ seen \in SUBSET Reqs
  BY <1>2, <1>3
<1> QED
  BY <1>1, <1>2, <1>4

LEMMA LoadAccountUndisturbed ==
  ASSUME Consistent, NEW r \in Reqs, Undisturbed(req[r]), LoadAccount(r)
  PROVE  StaysUndisturbed(r)
<1>1. PICK w : w = req[r]
  OBVIOUS
<1>2. w.pc = "account" /\ Active(r)
  BY <1>1 DEF LoadAccount, Active
<1>3. w \in Requests /\ Control(w) /\ ReadCurrent(w) /\ w.op \in AllOps /\ balance \in Int
  BY <1>1, <1>2, Proceeding
<1>4. w.op \in {"update", "delete"}
  BY <1>2, <1>3 DEF Control, Path, AllOps
<1>5. PICK next : next = [w EXCEPT !.snap = balance, !.seen = applied,
                                   !.pc = IF w.op = "delete" THEN "count" ELSE "write"]
  OBVIOUS
<1>6. /\ next.pc \in {"count", "write"} /\ next.snap = balance /\ next.op = w.op
      /\ next.tgt = w.tgt /\ next.amt = w.amt /\ next.old = w.old
  BY <1>3, <1>4, <1>5 DEF Requests
<1>7. Undisturbed(next)
  BY <1>3, <1>4, <1>6 DEF Undisturbed, ReadCurrent
<1>8. Proceed(r, next)
  BY <1>1, <1>5 DEF LoadAccount
<1> QED
  BY <1>7, <1>8 DEF StaysUndisturbed

LEMMA CountPartsUndisturbed ==
  ASSUME Consistent, NEW r \in Reqs, Undisturbed(req[r]), CountParts(r)
  PROVE  StaysUndisturbed(r)
<1>1. PICK w : w = req[r]
  OBVIOUS
<1>2. w.pc = "count" /\ Active(r)
  BY <1>1 DEF CountParts, Active
<1>3. w \in Requests /\ Control(w) /\ ReadCurrent(w) /\ w.op \in AllOps
  BY <1>1, <1>2, Proceeding
<1>4. w.op \in {"delete", "join"}
  BY <1>2, <1>3 DEF Control, Path, AllOps
<1>5. ASSUME NEW pc \in {"fetch", "write"},
             pc = "fetch" => Parts(w.tgt) # {}, pc = "write" => w.op = "delete",
             Proceed(r, [w EXCEPT !.pc = pc])
      PROVE  StaysUndisturbed(r)
  <2>1. PICK next : next = [w EXCEPT !.pc = pc]
    OBVIOUS
  <2>2. /\ next.pc = pc /\ next.snap = w.snap /\ next.op = w.op
        /\ next.tgt = w.tgt /\ next.amt = w.amt /\ next.old = w.old
    BY <1>3, <1>5, <2>1 DEF Requests
  <2>3. Undisturbed(next)
    BY <1>2, <1>3, <1>4, <1>5, <2>2 DEF Undisturbed, ReadCurrent, Loaded
  <2> QED
    BY <1>5, <2>1, <2>3 DEF StaysUndisturbed
<1>6. \/ \E pc \in {"fetch", "write"} :
           /\ pc = "fetch" => Parts(w.tgt) # {}
           /\ pc = "write" => w.op = "delete"
           /\ Proceed(r, [w EXCEPT !.pc = pc])
      \/ Proceed(r, Aborted(r))
  <2>1. PICK to : /\ Proceed(r, to)
                  /\ to = IF Parts(w.tgt) # {} THEN [w EXCEPT !.pc = "fetch"]
                          ELSE IF w.op = "delete" THEN [w EXCEPT !.pc = "write"]
                          ELSE Aborted(r)
    BY <1>1 DEF CountParts
  <2>2. \/ Parts(w.tgt) # {} /\ to = [w EXCEPT !.pc = "fetch"]
        \/ w.op = "delete" /\ to = [w EXCEPT !.pc = "write"]
        \/ to = Aborted(r)
    BY <2>1
  <2> QED
    BY <2>1, <2>2
<1> QED
  BY <1>5, <1>6, AbortUndisturbed

LEMMA FetchPartsUndisturbed ==
  ASSUME Consistent, NEW r \in Reqs, Undisturbed(req[r]), FetchParts(r)
  PROVE  StaysUndisturbed(r)
<1>1. PICK w : w = req[r]
  OBVIOUS
<1>2. w.pc = "fetch" /\ Active(r)
  BY <1>1 DEF FetchParts, Active
<1>3. w \in Requests /\ Control(w) /\ ReadCurrent(w) /\ w.op \in AllOps
  BY <1>1, <1>2, Proceeding
<1>4. w.op \in {"delete", "join"} /\ DOMAIN w.writes = {}
  BY <1>2, <1>3 DEF Control, Path, AllOps
<1>0. PICK s \in SetToSeqs(Parts(w.tgt)) :
          Proceed(r, [w EXCEPT !.todo = s, !.pc = IF s = << >> THEN AfterParts(r) ELSE "parts"])
  BY <1>1 DEF FetchParts
<1>5. PICK pc : /\ Proceed(r, [w EXCEPT !.todo = s, !.pc = pc])
                /\ pc = IF s = << >> THEN AfterParts(r) ELSE "parts"
  BY <1>0
<1>6. IsFiniteSet(Parts(w.tgt))
  BY RequestsAssumption, FS_Subset DEF Parts
<1>7. s \in Seq(Parts(w.tgt)) /\ \A c \in Parts(w.tgt) : \E i \in 1 .. Len(s) : s[i] = c
  BY <1>6, OrderCoversSet
<1>8. {s[i] : i \in 1 .. Len(s)} = Parts(w.tgt)
  BY <1>7
<1>9. pc = "parts" \/ (pc = "write" /\ w.op = "delete") \/ (pc = "commit" /\ w.op = "join")
  BY <1>1, <1>4, <1>5 DEF AfterParts
<1>10. PICK next : next = [w EXCEPT !.todo = s, !.pc = pc]
  OBVIOUS
<1>11. /\ next.pc = pc /\ next.snap = w.snap /\ next.op = w.op /\ next.todo = s
       /\ next.tgt = w.tgt /\ next.amt = w.amt /\ next.old = w.old /\ next.writes = w.writes
  BY <1>3, <1>10 DEF Requests
<1>12. Joining(next)
  BY <1>4, <1>8, <1>11 DEF Joining
<1>13. ReadCurrent(next)
  BY <1>2, <1>3, <1>4, <1>9, <1>11 DEF ReadCurrent, Loaded
<1>14. Undisturbed(next)
  BY <1>4, <1>9, <1>11, <1>12, <1>13 DEF Undisturbed
<1> QED
  BY <1>5, <1>10, <1>14 DEF StaysUndisturbed

LEMMA WritePartUndisturbed ==
  ASSUME Consistent, NEW r \in Reqs, Undisturbed(req[r]), WritePart(r)
  PROVE  StaysUndisturbed(r)
<1>1. PICK w : w = req[r]
  OBVIOUS
<1>2. w.pc = "parts" /\ Active(r)
  BY <1>1 DEF WritePart, Active
<1>3. /\ w \in Requests /\ Control(w) /\ ReadCurrent(w) /\ w.op \in AllOps
      /\ w.snap \in Int /\ w.todo \in Seq(Txns) /\ w.writes \in Writings
  BY <1>1, <1>2, Proceeding
<1>4. w.op \in {"delete", "join"} /\ w.todo # << >>
  BY <1>2, <1>3 DEF Control, Path, AllOps
<1>5. PICK c, rest, pc : /\ c = Head(w.todo) /\ rest = Tail(w.todo)
                         /\ pc = IF rest = << >> THEN AfterParts(r) ELSE "parts"
  OBVIOUS
<1>6. pc = "parts" \/ (pc = "write" /\ w.op = "delete") \/ (pc = "commit" /\ w.op = "join")
  BY <1>1, <1>4, <1>5 DEF AfterParts
<1>7. CASE w.op = "join"
  <2>1. Joining(w)
    BY <1>1, <1>2, <1>7 DEF Undisturbed, InProgress
  <2>2. {w.todo[i] : i \in 1 .. Len(w.todo)} = {c} \cup {rest[i] : i \in 1 .. Len(rest)}
    <3>1. \A d : (\E i \in 1 .. Len(w.todo) : w.todo[i] = d) <=>
                 d = c \/ \E i \in 1 .. Len(rest) : rest[i] = d
      <4>1. \A i \in 1 .. Len(rest) : i + 1 \in 1 .. Len(w.todo) /\ rest[i] = w.todo[i + 1]
        BY <1>3, <1>4, <1>5
      <4>2. 1 \in 1 .. Len(w.todo) /\ w.todo[1] = c
        BY <1>3, <1>4, <1>5
      <4>3. \A i \in 1 .. Len(w.todo) : w.todo[i] = c \/ \E j \in 1 .. Len(rest) : rest[j] = w.todo[i]
        BY <1>3, <1>4, <1>5, HeadOrTail
      <4> QED
        BY <4>1, <4>2, <4>3
    <3> QED
      BY <3>1
  <2>3. c \in Parts(w.tgt)
    BY <2>1, <2>2 DEF Joining
  <2>4. c \in Txns /\ row[c].st = "live"
    BY <2>3 DEF Parts
  <2>5. PICK new \in NewRowsOrChanged : new = [row[c] EXCEPT !.st = "purged"]
    BY <2>4 DEF Consistent, Typed, RowType, NewRowsOrChanged
  <2>6. PICK rows : rows = Written(r, c, new)
    OBVIOUS
  <2>7. DOMAIN rows = DOMAIN w.writes \cup {c}
    BY <1>1, <2>4, <2>6, WrittenTyped DEF Consistent
  <2>8. Proceed(r, [w EXCEPT !.todo = rest, !.pc = pc, !.writes = rows])
    <3>1. PICK to : /\ Proceed(r, to)
                    /\ to = [w EXCEPT !.todo = rest, !.pc = pc,
                               !.writes = IF row[c].st = "purged" THEN w.writes
                                          ELSE Written(r, c, [row[c] EXCEPT !.st = "purged"])]
      BY <1>1, <1>3, <1>5, <1>7 DEF WritePart, Requests
    <3>2. row[c].st # "purged"
      BY <2>4
    <3>3. to = [w EXCEPT !.todo = rest, !.pc = pc, !.writes = rows]
      BY <2>5, <2>6, <3>1, <3>2
    <3> QED
      BY <3>1, <3>3
  <2>9. PICK next : next = [w EXCEPT !.todo = rest, !.pc = pc, !.writes = rows]
    OBVIOUS
  <2>10. /\ next.pc = pc /\ next.snap = w.snap /\ next.op = w.op /\ next.todo = rest
         /\ next.tgt = w.tgt /\ next.amt = w.amt /\ next.old = w.old /\ next.writes = rows
    BY <1>3, <2>9 DEF Requests
  <2>11. Joining(next)
    BY <2>1, <2>2, <2>7, <2>10 DEF Joining
  <2>12. ReadCurrent(next)
    BY <1>2, <1>3, <1>6, <1>7, <2>10 DEF ReadCurrent, Loaded
  <2>13. Undisturbed(next)
    BY <1>6, <1>7, <2>10, <2>11, <2>12 DEF Undisturbed
  <2> QED
    BY <2>8, <2>9, <2>13 DEF StaysUndisturbed
<1>8. CASE w.op = "delete"
  <2>1. PICK rows : rows = Written(r, c, [row[c] EXCEPT !.st = "deleted"])
    OBVIOUS
  <2>2. \/ Proceed(r, Aborted(r))
        \/ AfterRefresh(r, [w EXCEPT !.todo = rest, !.pc = pc, !.writes = rows])
    BY <1>1, <1>5, <1>8, <2>1 DEF WritePart
  <2>3. CASE AfterRefresh(r, [w EXCEPT !.todo = rest, !.pc = pc, !.writes = rows])
    <3>1. PICK snap \in {w.snap, balance}, seen \in SUBSET Reqs :
            Proceed(r, [[w EXCEPT !.todo = rest, !.pc = pc, !.writes = rows]
                          EXCEPT !.snap = snap, !.seen = seen])
      BY <1>1, <2>3, RefreshCurrent
    <3>2. PICK next : next = [[w EXCEPT !.todo = rest, !.pc = pc, !.writes = rows]
                                EXCEPT !.snap = snap, !.seen = seen]
      OBVIOUS
    <3>3. /\ next.pc = pc /\ next.snap = snap /\ next.op = w.op
          /\ next.tgt = w.tgt /\ next.amt = w.amt /\ next.old = w.old
      BY <1>3, <3>2 DEF Requests
    <3>4. w.snap = balance
      BY <1>2, <1>3, <1>8 DEF ReadCurrent, Loaded
    <3>5. ReadCurrent(next)
      BY <1>3, <1>8, <3>3, <3>4 DEF ReadCurrent
    <3>6. Undisturbed(next)
      BY <1>6, <1>8, <3>3, <3>5 DEF Undisturbed
    <3> QED
      BY <3>1, <3>2, <3>6 DEF StaysUndisturbed
  <2> QED
    BY <2>2, <2>3, AbortUndisturbed
<1> QED
  BY <1>4, <1>7, <1>8

LEMMA WriteRowUndisturbed ==
  ASSUME Consistent, NEW r \in Reqs, Undisturbed(req[r]), WriteRow(r)
  PROVE  StaysUndisturbed(r)
<1>1. PICK w : w = req[r]
  OBVIOUS
<1>2. w.pc = "write" /\ Active(r)
  BY <1>1 DEF WriteRow, Active
<1>3. /\ w \in Requests /\ Control(w) /\ ReadCurrent(w) /\ w.op \in AllOps
      /\ w.snap \in Int /\ w.writes \in Writings /\ (w.op \in OnRow => w.tgt \in Txns)
  BY <1>1, <1>2, Proceeding
<1>4. w.op \in {"update", "delete"} /\ w.tgt \in Txns /\ (w.op = "update" => DOMAIN w.writes = {})
  BY <1>2, <1>3 DEF Control, Path, AllOps, OnRow
<1>5. /\ w.amt \in Int /\ w.old \in Int /\ row[w.tgt].amt \in Int
      /\ row[w.tgt] \in RowType(States) /\ row[w.tgt].st = "live"
      /\ w.op = "update" => w.old = row[w.tgt].amt
  BY <1>3, <1>4 DEF Requests, Consistent, Typed, RowType, ReadCurrent, OnRow
<1>6. PICK old \in RowType(States) : old = row[w.tgt]
  BY <1>5
<1>7. PICK delta : delta = IF w.op = "delete" THEN - old.amt ELSE w.amt - w.old
  OBVIOUS
<1>8. PICK new : new = IF w.op = "delete" THEN [old EXCEPT !.st = "deleted"]
                       ELSE IF w.amt # w.old THEN [old EXCEPT !.amt = w.amt]
                       ELSE old
  OBVIOUS
<1>9. delta = Delta(r, w.tgt) /\ new = Change(r, w.tgt)
  BY <1>1, <1>6, <1>7, <1>8 DEF Delta, Change
<1>10. new \in NewRowsOrChanged /\ (w.op = "update" => new = [old EXCEPT !.amt = w.amt])
  BY <1>4, <1>5, <1>6, <1>8 DEF NewRowsOrChanged, RowType
<1>11. PICK rows : rows = Written(r, w.tgt, new)
  OBVIOUS
<1>12. DOMAIN rows = DOMAIN w.writes \cup {w.tgt} /\ rows[w.tgt] = new
  <2>1. PICK t \in Txns : t = w.tgt
    BY <1>4
  <2>2. rows = Written(r, t, new) /\ Typed
    BY <1>11, <2>1 DEF Consistent
  <2>3. DOMAIN rows = DOMAIN req[r].writes \cup {t} /\ rows[t] = new
    BY <1>10, <2>2, WrittenTyped
  <2> QED
    BY <1>1, <2>1, <2>3
<1>13. PICK pc : pc = IF delta = 0 THEN "commit" ELSE "lock"
  OBVIOUS
<1>14. \/ Proceed(r, Aborted(r))
       \/ AfterRefresh(r, [w EXCEPT !.writes = rows, !.delta = delta, !.pc = pc])
  BY <1>1, <1>9, <1>11, <1>13 DEF WriteRow
<1>15. CASE AfterRefresh(r, [w EXCEPT !.writes = rows, !.delta = delta, !.pc = pc])
  <2>1. PICK snap \in {w.snap, balance}, seen \in SUBSET Reqs :
          Proceed(r, [[w EXCEPT !.writes = rows, !.delta = delta, !.pc = pc]
                        EXCEPT !.snap = snap, !.seen = seen])
    BY <1>1, <1>15, RefreshCurrent
  <2>2. PICK next : next = [[w EXCEPT !.writes = rows, !.delta = delta, !.pc = pc]
                              EXCEPT !.snap = snap, !.seen = seen]
    OBVIOUS
  <2>3. /\ next.pc = pc /\ next.snap = snap /\ next.op = w.op /\ next.writes = rows
        /\ next.tgt = w.tgt /\ next.amt = w.amt /\ next.old = w.old /\ next.delta = delta
    BY <1>3, <2>2 DEF Requests
  <2>4. w.snap = balance
    BY <1>2, <1>3, <1>4 DEF ReadCurrent, Loaded
  <2>5. ReadCurrent(next)
    BY <1>3, <1>4, <2>3, <2>4 DEF ReadCurrent
  <2>6. w.op = "update" => Updated(next)
    BY <1>4, <1>6, <1>7, <1>10, <1>12, <2>3 DEF Updated
  <2>7. w.op = "delete" => Removed(next)
    BY <1>6, <1>7, <1>12, <2>3 DEF Removed
  <2>8. Undisturbed(next)
    BY <1>4, <2>3, <2>5, <2>6, <2>7 DEF Undisturbed
  <2> QED
    BY <2>1, <2>2, <2>8 DEF StaysUndisturbed
<1> QED
  BY <1>14, <1>15, AbortUndisturbed

LEMMA InsertRowUndisturbed ==
  ASSUME Consistent, NEW r \in Reqs, Undisturbed(req[r]), InsertRow(r)
  PROVE  StaysUndisturbed(r)
<1>1. PICK w : w = req[r]
  OBVIOUS
<1>2. w.pc = "insert" /\ w.op = "create" /\ Active(r)
  BY <1>1 DEF InsertRow, Active
<1>3. w \in Requests /\ Control(w) /\ ReadCurrent(w) /\ w.snap \in Int
  BY <1>1, <1>2, Proceeding
<1>4. DOMAIN w.writes = {}
  BY <1>2, <1>3 DEF Control
<1>5. PICK t \in Fresh : AfterRefresh(r, [w EXCEPT !.writes = Written(r, t, Row(w.amt, NoTxn)),
                                                   !.lock = "keyshare", !.pc = "lock"])
  BY <1>1, NewRowsFresh, FreshCounts DEF InsertRow
<1>6. PICK rows : rows = Written(r, t, Row(w.amt, NoTxn))
  OBVIOUS
<1>7. rows = [c \in {t} |-> Row(w.amt, NoTxn)] /\ t \in Txns
  BY <1>1, <1>4, <1>5, <1>6 DEF Written, Fresh
<1>8. PICK snap \in {w.snap, balance}, seen \in SUBSET Reqs :
        Proceed(r, [[w EXCEPT !.writes = rows, !.lock = "keyshare", !.pc = "lock"]
                      EXCEPT !.snap = snap, !.seen = seen])
  BY <1>1, <1>5, <1>6, RefreshCurrent
<1>9. PICK next : next = [[w EXCEPT !.writes = rows, !.lock = "keyshare", !.pc = "lock"]
                            EXCEPT !.snap = snap, !.seen = seen]
  OBVIOUS
<1>10. /\ next.pc = "lock" /\ next.snap = snap /\ next.op = w.op /\ next.writes = rows
       /\ next.tgt = w.tgt /\ next.amt = w.amt /\ next.old = w.old
  BY <1>3, <1>9 DEF Requests
<1>11. ReadCurrent(next)
  BY <1>2, <1>3, <1>10 DEF ReadCurrent, Loaded, OnRow
<1>12. Inserted(next)
  BY <1>7, <1>10 DEF Inserted
<1>13. Undisturbed(next)
  BY <1>2, <1>10, <1>11, <1>12 DEF Undisturbed
<1> QED
  BY <1>8, <1>9, <1>13 DEF StaysUndisturbed

LEMMA InsertPartsUndisturbed ==
  ASSUME Consistent, NEW r \in Reqs, Undisturbed(req[r]), InsertParts(r)
  PROVE  StaysUndisturbed(r)
<1>1. PICK w : w = req[r]
  OBVIOUS
<1>2. w.pc = "insert" /\ w.op = "split" /\ Active(r)
  BY <1>1 DEF InsertParts, Active
<1>3. w \in Requests /\ Control(w) /\ ReadCurrent(w)
  BY <1>1, <1>2, Proceeding
<1>4. PICK n \in 2 .. Cardinality(Fresh) : \E amounts \in [NewRows(n) -> Amounts] :
        /\ SumFunction(amounts) = w.old
        /\ Proceed(r, [w EXCEPT !.writes = [c \in NewRows(n) |-> Row(amounts[c], w.tgt)],
                                !.lock = "keyshare", !.pc = "commit"])
  BY <1>1 DEF InsertParts
<1>5. PICK amounts \in [NewRows(n) -> Amounts] :
        /\ SumFunction(amounts) = w.old
        /\ Proceed(r, [w EXCEPT !.writes = [c \in NewRows(n) |-> Row(amounts[c], w.tgt)],
                                !.lock = "keyshare", !.pc = "commit"])
  BY <1>4
<1>6. PICK ts : ts = NewRows(n)
  OBVIOUS
<1>7. Cardinality(ts) >= 2
  <2>1. IsFiniteSet(Fresh)
    BY RequestsAssumption, FS_Subset DEF Fresh
  <2>2. n \in Nat /\ n >= 2 /\ n <= Cardinality(Fresh)
    BY FreshCounts
  <2>3. \E new \in SUBSET Fresh : Cardinality(new) = n
    BY <2>1, <2>2, SubsetOfSize
  <2>4. Cardinality(ts) = n
    BY <1>6, <2>3 DEF NewRows
  <2> QED
    BY <2>2, <2>4
<1>8. PICK rows : rows = [c \in ts |-> Row(amounts[c], w.tgt)]
  OBVIOUS
<1>9. PICK next : next = [w EXCEPT !.writes = rows, !.lock = "keyshare", !.pc = "commit"]
  OBVIOUS
<1>10. /\ next.pc = "commit" /\ next.snap = w.snap /\ next.op = w.op /\ next.writes = rows
       /\ next.tgt = w.tgt /\ next.amt = w.amt /\ next.old = w.old
  BY <1>3, <1>9 DEF Requests
<1>11. ReadCurrent(next)
  BY <1>2, <1>3, <1>10 DEF ReadCurrent, Loaded
<1>12. DOMAIN next.writes = ts /\ next.writes = [c \in ts |-> Row(amounts[c], next.tgt)]
  BY <1>8, <1>10
<1>13. amounts \in [DOMAIN next.writes -> Amounts]
  BY <1>5, <1>6, <1>12
<1>14. Divided(next)
  BY <1>5, <1>7, <1>10, <1>12, <1>13 DEF Divided
<1>15. Undisturbed(next)
  BY <1>2, <1>10, <1>11, <1>14 DEF Undisturbed
<1>16. Proceed(r, next)
  BY <1>5, <1>6, <1>8, <1>9
<1> QED
  BY <1>15, <1>16 DEF StaysUndisturbed

LEMMA LocksUndisturbed ==
  ASSUME Consistent, NEW r \in Reqs, Undisturbed(req[r]), LockAccount(r) \/ CloseAccount(r)
  PROVE  StaysUndisturbed(r)
<1>1. PICK w : w = req[r]
  OBVIOUS
<1>2. w.pc \in {"lock", "close"} /\ Active(r)
  BY <1>1 DEF LockAccount, CloseAccount, Active
<1>3. w \in Requests /\ Control(w) /\ ReadCurrent(w) /\ w.op \in AllOps
  BY <1>1, <1>2, Proceeding
<1>4. /\ w.pc = "lock" => w.op \in Posting
      /\ w.pc = "close" => w.op = "close"
  BY <1>3 DEF Control, Path, AllOps, Posting
<1>5. \/ Proceed(r, Aborted(r))
      \/ \E lock \in Locks : Proceed(r, [w EXCEPT !.lock = lock, !.pc = "commit"])
  <2>1. CASE CloseAccount(r)
    BY <1>1, <2>1 DEF CloseAccount, Locks
  <2>2. CASE LockAccount(r) /\ open
    BY <1>1, <2>2 DEF LockAccount, Locks
  <2>3. CASE LockAccount(r) /\ ~ open
    BY <2>3 DEF LockAccount
  <2> QED
    BY <2>1, <2>2, <2>3
<1>6. ASSUME NEW lock \in Locks, Proceed(r, [w EXCEPT !.lock = lock, !.pc = "commit"])
      PROVE  StaysUndisturbed(r)
  <2>1. PICK next : next = [w EXCEPT !.lock = lock, !.pc = "commit"]
    OBVIOUS
  <2>2. /\ next.pc = "commit" /\ next.snap = w.snap /\ next.op = w.op /\ next.writes = w.writes
        /\ next.tgt = w.tgt /\ next.amt = w.amt /\ next.old = w.old /\ next.delta = w.delta
    BY <1>3, <2>1 DEF Requests
  <2>3. ReadCurrent(next)
    BY <1>2, <1>3, <1>4, <2>2 DEF ReadCurrent, Loaded, Posting
  <2>4. /\ w.op = "create" => Inserted(next)
        /\ w.op = "update" => Updated(next)
        /\ w.op = "delete" => Removed(next)
    <3>1. /\ w.op = "create" => Inserted(w)
          /\ w.op = "update" => Updated(w)
          /\ w.op = "delete" => Removed(w)
      BY <1>1, <1>2, <1>4 DEF Undisturbed, InProgress, Posting
    <3>2. w.op = "create" => Inserted(next)
      BY <2>2, <3>1 DEF Inserted
    <3>3. w.op = "update" => Updated(next)
      BY <2>2, <3>1 DEF Updated
    <3>4. w.op = "delete" => Removed(next)
      BY <2>2, <3>1 DEF Removed
    <3> QED
      BY <3>2, <3>3, <3>4
  <2>5. Undisturbed(next)
    BY <1>2, <1>4, <2>2, <2>3, <2>4 DEF Undisturbed, Posting
  <2> QED
    BY <1>6, <2>1, <2>5 DEF StaysUndisturbed
<1> QED
  BY <1>5, <1>6, AbortUndisturbed

LEMMA StatementUndisturbed ==
  ASSUME Consistent, NEW r \in Reqs, Undisturbed(req[r]), Statement(r)
  PROVE  StaysUndisturbed(r)
<1>1. CASE LoadAccount(r) \/ CountParts(r) \/ FetchParts(r)
  BY <1>1, LoadAccountUndisturbed, CountPartsUndisturbed, FetchPartsUndisturbed
<1>2. CASE WritePart(r) \/ WriteRow(r) \/ InsertRow(r) \/ InsertParts(r)
  BY <1>2, WritePartUndisturbed, WriteRowUndisturbed, InsertRowUndisturbed, InsertPartsUndisturbed
<1>3. CASE LockAccount(r) \/ CloseAccount(r)
  BY <1>3, LocksUndisturbed
<1>4. CASE RejectParts(r) \/ Fail(r)
  BY <1>4, AbortUndisturbed DEF RejectParts, Fail
<1>5. CASE BreakDeadlock(r)
  <2>1. Proceed(r, Aborted(r))
    BY <1>5, Zenon DEF BreakDeadlock
  <2> QED
    BY <2>1, AbortUndisturbed
<1> QED
  BY <1>1, <1>2, <1>3, <1>4, <1>5 DEF Statement

\* A request starts from the latest committed state.
LEMMA BeginUndisturbed ==
  ASSUME Consistent, NEW r \in Reqs, Begin(r)
  PROVE  \E next : Arrive(r, next) /\ Undisturbed(next)
<1>1. NewReq \in Requests /\ NoTxn \notin Txns
  BY NewReqTyped, RequestsAssumption
<1>2. ASSUME NEW m \in Amounts, BeginCreate(r, m)
      PROVE  \E next : Arrive(r, next) /\ Undisturbed(next)
  <2>1. PICK next : /\ next = [NewReq EXCEPT !.op = "create", !.amt = m, !.delta = m,
                                             !.snap = balance, !.seen = applied,
                                             !.pc = IF open THEN "insert" ELSE "done"]
                    /\ Arrive(r, next)
    BY <1>2 DEF BeginCreate
  <2>2. /\ next.op = "create" /\ next.amt = m /\ next.snap = balance
        /\ next.pc = IF open THEN "insert" ELSE "done"
    BY <2>1 DEF NewReq
  <2>3. Undisturbed(next)
    BY <2>2 DEF Undisturbed, ReadCurrent, InProgress, Loaded, OnRow
  <2> QED
    BY <2>1, <2>3
<1>3. ASSUME NEW op \in OnRow, NEW t \in Txns, NEW m, op = "update" => m \in Amounts,
             BeginOnRow(r, op, t, m)
      PROVE  \E next : Arrive(r, next) /\ Undisturbed(next)
  <2>1. PICK pc : pc = IF ~ Found(t) THEN "done"
                       ELSE IF op \in {"update", "delete"} THEN "account"
                       ELSE IF op = "join" THEN "count"
                       ELSE IF row[t].parent = NoTxn THEN "insert" ELSE "done"
    OBVIOUS
  <2>2. PICK next : /\ next = [NewReq EXCEPT !.op = op, !.tgt = t, !.amt = m, !.old = row[t].amt,
                                             !.pc = pc]
                    /\ Arrive(r, next)
    BY <1>3, <2>1 DEF BeginOnRow
  <2>3. /\ next.op = op /\ next.tgt = t /\ next.amt = m /\ next.old = row[t].amt /\ next.pc = pc
    BY <2>2 DEF NewReq
  <2>4. CASE ~ Found(t)
    BY <2>1, <2>2, <2>3, <2>4 DEF Undisturbed, InProgress
  <2>5. CASE Found(t)
    <3>1. row[t].st = "live"
      BY <2>5 DEF Found
    <3>2. pc \in {"account", "count", "insert", "done"} /\ (op \in {"update", "delete"} => pc = "account")
      BY <2>1, <2>5
    <3>3. ReadCurrent(next)
      BY <1>3, <2>3, <3>1, <3>2 DEF ReadCurrent, Loaded, OnRow
    <3>4. Undisturbed(next)
      BY <2>3, <3>2, <3>3 DEF Undisturbed
    <3> QED
      BY <2>2, <3>4
  <2> QED
    BY <2>4, <2>5
<1>4. CASE BeginClose(r)
  <2>1. PICK next : /\ next = [NewReq EXCEPT !.op = "close", !.pc = IF open THEN "close" ELSE "done"]
                    /\ Arrive(r, next)
    BY <1>4 DEF BeginClose
  <2>2. next.op = "close" /\ next.pc = IF open THEN "close" ELSE "done"
    BY <2>1 DEF NewReq
  <2>3. Undisturbed(next)
    BY <2>2 DEF Undisturbed, ReadCurrent, InProgress, Loaded, OnRow
  <2> QED
    BY <2>1, <2>3
<1> QED
  BY <1>2, <1>3, <1>4 DEF Begin, OnRow

-----------------------------------------------------------------------------
(***************************************************************************)
(* Who has met nobody is undisturbed.                                      *)
(***************************************************************************)
Solitary ==
  \A r \in Reqs : met[r] = {} /\ r \notin committed => Undisturbed(req[r])

\* It depends on what is committed, and on that only.
LEMMA UndisturbedStays ==
  ASSUME UNCHANGED <<row, open, balance>>, NEW q
  PROVE  Undisturbed(q)' <=> Undisturbed(q)
BY DEF Undisturbed, ReadCurrent, Inserted, Updated, Removed, Divided, Joining, Parts

\* r goes on to state next, the others stay as they are.
LEMMA QuietSolitary ==
  ASSUME Histories, Solitary, NEW r \in Reqs, NEW next,
         req' = [req EXCEPT ![r] = next], UNCHANGED <<row, open, balance, committed>>,
         \A q \in Reqs \ {r} : met[q] \subseteq met'[q],
         met'[r] = {} /\ r \notin committed => Undisturbed(next)
  PROVE  Solitary'
<1>1. req'[r] = next /\ \A q \in Reqs \ {r} : req'[q] = req[q]
  BY DEF Histories, Consistent, Typed
<1>2. ASSUME NEW q \in Reqs, met'[q] = {}, q \notin committed'
      PROVE  Undisturbed(req[q])'
  <2>1. PICK x : x = req'[q]
    OBVIOUS
  <2>2. Undisturbed(x)
    BY <1>1, <1>2, <2>1 DEF Solitary
  <2>3. Undisturbed(x)'
    BY <2>2, UndisturbedStays
  <2> QED
    BY <2>1, <2>3
<1> QED
  BY <1>2 DEF Solitary

LEMMA SolitaryStays ==
  ASSUME Histories, Solitary, [Next]_vars
  PROVE  Solitary'
<1>1. Consistent
  BY DEF Histories
<1>2. ASSUME NEW r \in Reqs, Begin(r)
      PROVE  Solitary'
  <2>1. PICK next : Arrive(r, next) /\ Undisturbed(next)
    BY <1>1, <1>2, BeginUndisturbed
  <2>2. \A q \in Reqs \ {r} : met[q] \subseteq met'[q]
    BY <2>1 DEF Arrive, Meet
  <2> QED
    BY <2>1, <2>2, QuietSolitary DEF Arrive
<1>3. ASSUME NEW r \in Reqs, Statement(r)
      PROVE  Solitary'
  <2>1. CASE Undisturbed(req[r])
    <3>1. PICK next : Proceed(r, next) /\ Undisturbed(next)
      BY <1>1, <1>3, <2>1, StatementUndisturbed DEF StaysUndisturbed
    <3> QED
      BY <3>1, QuietSolitary DEF Proceed
  <2>2. CASE ~ Undisturbed(req[r])
    <3>1. PICK next : Proceed(r, next)
      BY <1>1, <1>3, StatementBecomes DEF Becomes
    <3>2. met[r] # {} \/ r \in committed
      BY <2>2 DEF Solitary
    <3> QED
      BY <3>1, <3>2, QuietSolitary DEF Proceed
  <2> QED
    BY <2>1, <2>2
<1>4. ASSUME NEW r \in Reqs, Commit(r)
      PROVE  Solitary'
  <2>1. /\ Active(r) /\ met' = met /\ committed' = committed \cup {r}
        /\ \A q \in Reqs \ {r} : req'[q] = req[q]
    BY <1>1, <1>4 DEF Commit, Active, Consistent, Typed
  <2>2. ASSUME NEW q \in Reqs \ {r}, met[q] = {}
        PROVE  Undisturbed(req[q])'
    <3>1. ~ Active(q)
      BY <2>1, <2>2 DEF Histories, MeetingsKnown
    <3>2. ~ InProgress(req'[q])
      BY <2>1, <3>1 DEF Active, InProgress
    <3> QED
      BY <3>2 DEF Undisturbed, InProgress
  <2> QED
    BY <2>1, <2>2 DEF Solitary
<1>5. ASSUME NEW r \in Reqs, WriteAudit(r)
      PROVE  Solitary'
  <2>1. PICK next : req' = [req EXCEPT ![r] = next]
    BY <1>5 DEF WriteAudit
  <2>2. r \in committed
    BY <1>1, <1>5 DEF WriteAudit, Consistent, OutcomeFits
  <2> QED
    BY <1>5, <2>1, <2>2, QuietSolitary DEF WriteAudit
<1>6. CASE UNCHANGED vars
  <2>1. UNCHANGED <<row, open, balance, req, committed, met>>
    BY <1>6 DEF vars
  <2>2. ASSUME NEW q \in Reqs, Undisturbed(req[q])
        PROVE  Undisturbed(req[q])'
    <3>1. PICK x : x = req[q] /\ x = req'[q]
      BY <2>1
    <3> QED
      BY <2>1, <2>2, <3>1, UndisturbedStays
  <2> QED
    BY <2>1, <2>2 DEF Solitary
<1> QED
  BY <1>2, <1>3, <1>4, <1>5, <1>6, StepCases

LEMMA InitSolitary == Init => Solitary
<1> SUFFICES ASSUME Init PROVE Solitary
  OBVIOUS
<1>1. \A r \in Reqs : ~ InProgress(req[r])
  BY DEF Init, NewReq, InProgress
<1> QED
  BY <1>1 DEF Solitary, Undisturbed

-----------------------------------------------------------------------------
(***************************************************************************)
(* Deadlocks: cycles of the relation of a request to those that it waits   *)
(* for.                                                                    *)
(***************************************************************************)
Waiting == {e \in Reqs \X Reqs : Blocks(e[1], e[2])}

RingOf(r) == Ring(Reqs, Waiting, r)

LEMMA CycleIsWaiting ==
  ASSUME NEW r \in Reqs
  PROVE  /\ \A q \in Reqs : <<q, r>> \in Waiting <=> Blocks(q, r)
         /\ InCycle(r) <=> r \in Waits(Reqs, Waiting, r)
<1>1. \A x, y \in Reqs : <<y, x>> \in Waiting <=> Blocks(y, x)
  BY DEF Waiting
<1>2. \A S \in SUBSET Reqs :
        Closed(Reqs, Waiting, S, r) <=> \A x \in S \cup {r}, y \in Reqs : Blocks(y, x) => y \in S
  BY <1>1 DEF Closed
<1>3. WaitsForItself(r) <=> r \in Waits(Reqs, Waiting, r)
  BY <1>2 DEF WaitsForItself, Waits
<1>4. ASSUME r \in Waits(Reqs, Waiting, r)
      PROVE  \E q \in Reqs : Blocks(q, r)
  <2>1. PICK q \in Ring(Reqs, Waiting, r) : <<q, r>> \in Waiting
    BY <1>4, NextInRing
  <2> QED
    BY <1>1, <2>1 DEF Ring, Waits
<1>5. InCycle(r) <=> (\E q \in Reqs : Blocks(q, r)) /\ WaitsForItself(r)
  BY DEF InCycle, Granted
<1> QED
  BY <1>1, <1>3, <1>4, <1>5

\* Everybody in the ring waits for another of it, and has one wait for him.
LEMMA RingIsOne ==
  ASSUME NEW r \in Reqs, InCycle(r), NEW q \in RingOf(r)
  PROVE  /\ q \in Reqs /\ InCycle(q) /\ RingOf(q) = RingOf(r) /\ r \in RingOf(r)
         /\ \E y \in RingOf(r) : Blocks(y, q)
         /\ \E x \in RingOf(r) : Blocks(q, x)
<1>1. r \in Waits(Reqs, Waiting, r)
  BY CycleIsWaiting
<1>2. /\ q \in Reqs /\ q \in Waits(Reqs, Waiting, q) /\ r \in RingOf(r) /\ RingOf(q) = RingOf(r)
      /\ \A x \in RingOf(r) : x \in Reqs
  BY <1>1, OneRing DEF RingOf
<1>3. (\E y \in RingOf(r) : <<y, q>> \in Waiting) /\ (\E x \in RingOf(r) : <<q, x>> \in Waiting)
  BY <1>2, NextInRing DEF RingOf
<1> QED
  BY <1>2, <1>3, CycleIsWaiting

\* What passes from a waiting request to those in the ring that block it, holds
\* all the way round.
LEMMA RoundTheRing ==
  ASSUME NEW r \in Reqs, InCycle(r), NEW T,
         \A x \in (RingOf(r) \cap T) \cup {r}, y \in RingOf(r) : Blocks(y, x) => y \in T
  PROVE  RingOf(r) \subseteq T
<1>1. r \in Waits(Reqs, Waiting, r)
  BY CycleIsWaiting
<1>2. \A x \in RingOf(r) : x \in Reqs
  BY RingIsOne
<1>3. \A x \in (RingOf(r) \cap T) \cup {r}, y \in RingOf(r) : <<y, x>> \in Waiting => y \in T
  BY <1>2, CycleIsWaiting
<1> QED
  BY <1>1, <1>3, AllTheWayRound DEF RingOf

-----------------------------------------------------------------------------
(***************************************************************************)
(* Walks through the parts of a row go from larger amounts to smaller      *)
(* ones, unless an update that they met has changed an amount.             *)
(***************************************************************************)
Descends(w) ==
  /\ \A i, j \in 1 .. Len(w.todo) : i < j => row[w.todo[i]].amt >= row[w.todo[j]].amt
  /\ \A c \in DOMAIN w.writes, i \in 1 .. Len(w.todo) : row[c].amt >= row[w.todo[i]].amt

Crossed(r) == \E u \in met[r] : req[u].op = "update"

WalkFits(r, w) ==
  /\ w.op = "delete" /\ w.pc \in {"parts", "write"} => \A t \in DOMAIN w.writes : row[t].parent = w.tgt
  /\ w.pc = "parts" => Crossed(r) \/ Descends(w)

Walks == \A r \in Reqs : WalkFits(r, req[r])

LEMMA InitWalks == Init => Walks
<1> SUFFICES ASSUME Init PROVE Walks
  OBVIOUS
<1>1. \A r \in Reqs : req[r].pc = "new"
  BY DEF Init, NewReq
<1> QED
  BY <1>1 DEF Walks, WalkFits

\* A statement takes r to next.
WalksOn(r) == \E next : Proceed(r, next) /\ WalkFits(r, next)

LEMMA ElsewhereWalks ==
  ASSUME NEW r \in Reqs, NEW next, Proceed(r, next), next.pc \notin {"parts", "write"}
  PROVE  WalksOn(r)
BY DEF WalksOn, WalkFits

LEMMA FetchPartsWalks ==
  ASSUME Consistent, NEW r \in Reqs, FetchParts(r)
  PROVE  WalksOn(r)
<1>1. PICK w : w = req[r]
  OBVIOUS
<1>2. w \in Requests /\ Control(w) /\ w.pc = "fetch"
  BY <1>1, AboutRequest DEF FetchParts
<1>3. DOMAIN w.writes = {}
  BY <1>2 DEF Control
<1>4. PICK s : /\ s \in SetToSeqs(Parts(w.tgt))
               /\ \A i, j \in DOMAIN s : i < j => row[s[i]].amt >= row[s[j]].amt
               /\ Proceed(r, [w EXCEPT !.todo = s, !.pc = IF s = << >> THEN AfterParts(r) ELSE "parts"])
  BY <1>1 DEF FetchParts
<1>5. IsFiniteSet(Parts(w.tgt))
  BY RequestsAssumption, FS_Subset DEF Parts
<1>6. DOMAIN s = 1 .. Len(s)
  BY <1>4, <1>5, OrderCoversSet
<1>7. PICK pc : pc = IF s = << >> THEN AfterParts(r) ELSE "parts"
  OBVIOUS
<1>8. PICK next : next = [w EXCEPT !.todo = s, !.pc = pc]
  OBVIOUS
<1>9. next.todo = s /\ next.writes = w.writes
  BY <1>2, <1>8 DEF Requests
<1>10. Descends(next)
  BY <1>3, <1>4, <1>6, <1>9 DEF Descends
<1>11. Proceed(r, next)
  BY <1>4, <1>7, <1>8
<1> QED
  BY <1>3, <1>9, <1>10, <1>11 DEF WalksOn, WalkFits

\* The next part joins the ones that are written.
LEMMA DescendsOn ==
  ASSUME NEW w, NEW next, w.todo \in Seq(Txns), w.todo # << >>, Descends(w),
         next.todo = Tail(w.todo), DOMAIN next.writes \subseteq DOMAIN w.writes \cup {Head(w.todo)}
  PROVE  Descends(next)
<1>1. /\ Len(w.todo) \in Nat \ {0} /\ Head(w.todo) = w.todo[1]
      /\ Len(next.todo) = Len(w.todo) - 1
      /\ \A i \in 1 .. Len(next.todo) : next.todo[i] = w.todo[i + 1]
  OBVIOUS
<1>2. \A i, j \in 1 .. Len(next.todo) : i < j => row[next.todo[i]].amt >= row[next.todo[j]].amt
  <2> SUFFICES ASSUME NEW i \in 1 .. Len(next.todo), NEW j \in 1 .. Len(next.todo), i < j
               PROVE  row[next.todo[i]].amt >= row[next.todo[j]].amt
    OBVIOUS
  <2>1. i + 1 \in 1 .. Len(w.todo) /\ j + 1 \in 1 .. Len(w.todo) /\ i + 1 < j + 1
    BY <1>1
  <2> QED
    BY <1>1, <2>1 DEF Descends
<1>3. \A c \in DOMAIN next.writes, i \in 1 .. Len(next.todo) : row[c].amt >= row[next.todo[i]].amt
  <2> SUFFICES ASSUME NEW c \in DOMAIN next.writes, NEW i \in 1 .. Len(next.todo)
               PROVE  row[c].amt >= row[next.todo[i]].amt
    OBVIOUS
  <2>1. i + 1 \in 1 .. Len(w.todo) /\ 1 \in 1 .. Len(w.todo) /\ 1 < i + 1
    BY <1>1
  <2> QED
    BY <1>1, <2>1 DEF Descends
<1> QED
  BY <1>2, <1>3 DEF Descends

LEMMA WritePartWalks ==
  ASSUME Consistent, NEW r \in Reqs, WalkFits(r, req[r]), WritePart(r)
  PROVE  WalksOn(r)
<1>1. PICK w : w = req[r]
  OBVIOUS
<1>2. w \in Requests /\ Control(w) /\ RowsFit(w) /\ w.pc = "parts"
  BY <1>1, AboutRequest DEF WritePart
<1>3. w.todo \in Seq(Txns) /\ w.todo # << >> /\ w.writes \in Writings
  BY <1>2 DEF Control, Requests
<1>4. PICK c, rest, pc : /\ c = Head(w.todo) /\ rest = Tail(w.todo)
                         /\ pc = IF rest = << >> THEN AfterParts(r) ELSE "parts"
  OBVIOUS
<1>5. c \in Txns /\ row[c].parent = w.tgt
  <2>1. c = w.todo[1] /\ 1 \in 1 .. Len(w.todo) /\ c \in Txns
    BY <1>3, <1>4
  <2> QED
    BY <1>2, <2>1 DEF RowsFit
<1>6. ASSUME NEW rows, DOMAIN rows \subseteq DOMAIN w.writes \cup {c}, NEW next, Proceed(r, next),
             next.op = w.op, next.tgt = w.tgt, next.todo = rest, next.writes = rows, next.pc = pc
      PROVE  WalksOn(r)
  <2>1. Descends(w) => Descends(next)
    BY <1>3, <1>4, <1>6, DescendsOn
  <2>2. next.op = "delete" => \A t \in DOMAIN next.writes : row[t].parent = next.tgt
    BY <1>1, <1>2, <1>5, <1>6 DEF WalkFits
  <2>3. Crossed(r) \/ Descends(next)
    BY <1>1, <1>2, <2>1 DEF WalkFits
  <2> QED
    BY <1>6, <2>2, <2>3 DEF WalksOn, WalkFits
<1>7. CASE w.op = "join"
  <2>1. PICK rows : rows = IF row[c].st = "purged" THEN w.writes
                           ELSE Written(r, c, [row[c] EXCEPT !.st = "purged"])
    OBVIOUS
  <2>2. DOMAIN rows \subseteq DOMAIN w.writes \cup {c}
    BY <1>1, <2>1 DEF Written
  <2>3. PICK next : next = [w EXCEPT !.todo = rest, !.pc = pc, !.writes = rows]
    OBVIOUS
  <2>4. Proceed(r, next)
    BY <1>1, <1>2, <1>4, <1>7, <2>1, <2>3 DEF WritePart, Requests
  <2>5. /\ next.op = w.op /\ next.tgt = w.tgt /\ next.todo = rest /\ next.writes = rows /\ next.pc = pc
    BY <1>2, <2>3 DEF Requests
  <2> QED
    BY <1>6, <2>2, <2>4, <2>5
<1>8. CASE w.op # "join"
  <2>1. PICK rows : rows = Written(r, c, [row[c] EXCEPT !.st = "deleted"])
    OBVIOUS
  <2>2. DOMAIN rows \subseteq DOMAIN w.writes \cup {c}
    BY <1>1, <2>1 DEF Written
  <2>3. \/ Proceed(r, Aborted(r))
        \/ AfterRefresh(r, [w EXCEPT !.todo = rest, !.pc = pc, !.writes = rows])
    BY <1>1, <1>4, <1>8, <2>1 DEF WritePart
  <2>4. CASE AfterRefresh(r, [w EXCEPT !.todo = rest, !.pc = pc, !.writes = rows])
    <3>1. PICK snap \in {w.snap, balance}, seen \in SUBSET Reqs :
            Proceed(r, [[w EXCEPT !.todo = rest, !.pc = pc, !.writes = rows]
                          EXCEPT !.snap = snap, !.seen = seen])
      BY <1>1, <2>4, RefreshCurrent
    <3>2. PICK next : next = [[w EXCEPT !.todo = rest, !.pc = pc, !.writes = rows]
                                EXCEPT !.snap = snap, !.seen = seen]
      OBVIOUS
    <3>3. /\ next.op = w.op /\ next.tgt = w.tgt /\ next.todo = rest /\ next.writes = rows /\ next.pc = pc
      BY <1>2, <3>2 DEF Requests
    <3> QED
      BY <1>6, <2>2, <3>1, <3>2, <3>3
  <2>5. CASE Proceed(r, Aborted(r))
    <3>1. Aborted(r).pc = "done"
      BY <1>1, <1>2 DEF Aborted, Requests
    <3> QED
      BY <2>5, <3>1, ElsewhereWalks
  <2> QED
    BY <2>3, <2>4, <2>5
<1> QED
  BY <1>7, <1>8

LEMMA UnwrittenWalks ==
  ASSUME NEW r \in Reqs, NEW next, Proceed(r, next), next.pc # "parts", DOMAIN next.writes = {}
  PROVE  WalksOn(r)
BY DEF WalksOn, WalkFits

LEMMA AbortWalks ==
  ASSUME Consistent, NEW r \in Reqs, Proceed(r, Aborted(r))
  PROVE  WalksOn(r)
<1>1. PICK next : next = Aborted(r)
  OBVIOUS
<1>2. req[r] \in Requests
  BY AboutRequest
<1>3. next.pc = "done"
  BY <1>1, <1>2 DEF Aborted, Requests
<1> QED
  BY <1>1, <1>3, ElsewhereWalks

LEMMA ReadsWalk ==
  ASSUME Consistent, NEW r \in Reqs, LoadAccount(r) \/ CountParts(r)
  PROVE  WalksOn(r)
<1>1. PICK w : w = req[r]
  OBVIOUS
<1>2. w \in Requests /\ Control(w) /\ w.pc \in {"account", "count"}
  BY <1>1, AboutRequest DEF LoadAccount, CountParts
<1>3. DOMAIN w.writes = {}
  BY <1>2 DEF Control
<1>4. CASE LoadAccount(r)
  <2>1. PICK pc : pc = IF w.op = "delete" THEN "count" ELSE "write"
    OBVIOUS
  <2>2. PICK next : next = [w EXCEPT !.snap = balance, !.seen = applied, !.pc = pc]
    OBVIOUS
  <2>3. Proceed(r, next)
    BY <1>1, <1>4, <2>1, <2>2 DEF LoadAccount
  <2>4. next.pc # "parts" /\ DOMAIN next.writes = {}
    BY <1>2, <1>3, <2>1, <2>2 DEF Requests
  <2> QED
    BY <2>3, <2>4, UnwrittenWalks
<1>5. CASE CountParts(r)
  <2>1. PICK to : /\ Proceed(r, to)
                  /\ to = IF Parts(w.tgt) # {} THEN [w EXCEPT !.pc = "fetch"]
                          ELSE IF w.op = "delete" THEN [w EXCEPT !.pc = "write"]
                          ELSE Aborted(r)
    BY <1>1, <1>5 DEF CountParts
  <2>2. CASE to = Aborted(r)
    BY <2>1, <2>2, AbortWalks
  <2>3. CASE to # Aborted(r)
    <3>1. PICK pc \in {"fetch", "write"} : to = [w EXCEPT !.pc = pc]
      BY <2>1, <2>3
    <3>2. to.pc # "parts" /\ DOMAIN to.writes = {}
      BY <1>2, <1>3, <3>1 DEF Requests
    <3> QED
      BY <2>1, <3>2, UnwrittenWalks
  <2> QED
    BY <2>2, <2>3
<1> QED
  BY <1>4, <1>5

LEMMA WritesWalk ==
  ASSUME Consistent, NEW r \in Reqs, WriteRow(r) \/ InsertRow(r) \/ InsertParts(r)
  PROVE  WalksOn(r)
<1>1. PICK w : w = req[r]
  OBVIOUS
<1>2. w \in Requests
  BY <1>1, AboutRequest
<1>3. ASSUME NEW rows, NEW delta, NEW lock, NEW pc \in {"commit", "lock"},
             AfterRefresh(r, [w EXCEPT !.writes = rows, !.delta = delta, !.lock = lock, !.pc = pc])
      PROVE  WalksOn(r)
  <2>1. PICK snap, seen :
          Proceed(r, [[w EXCEPT !.writes = rows, !.delta = delta, !.lock = lock, !.pc = pc]
                        EXCEPT !.snap = snap, !.seen = seen])
    BY <1>3, RefreshCases
  <2>2. PICK next : next = [[w EXCEPT !.writes = rows, !.delta = delta, !.lock = lock, !.pc = pc]
                              EXCEPT !.snap = snap, !.seen = seen]
    OBVIOUS
  <2>3. next.pc = pc
    BY <1>2, <2>2 DEF Requests
  <2> QED
    BY <2>1, <2>2, <2>3, ElsewhereWalks
<1>4. CASE WriteRow(r)
  <2>1. PICK delta, pc : /\ delta = Delta(r, w.tgt)
                         /\ pc = IF delta = 0 THEN "commit" ELSE "lock"
    OBVIOUS
  <2>2. PICK rows : rows = Written(r, w.tgt, Change(r, w.tgt))
    OBVIOUS
  <2>3. \/ Proceed(r, Aborted(r))
        \/ AfterRefresh(r, [w EXCEPT !.writes = rows, !.delta = delta, !.pc = pc])
    BY <1>1, <1>4, <2>1, <2>2 DEF WriteRow
  <2>4. [w EXCEPT !.writes = rows, !.delta = delta, !.pc = pc]
          = [w EXCEPT !.writes = rows, !.delta = delta, !.lock = w.lock, !.pc = pc]
    BY <1>2 DEF Requests
  <2>5. CASE AfterRefresh(r, [w EXCEPT !.writes = rows, !.delta = delta, !.pc = pc])
    <3>1. pc \in {"commit", "lock"}
      BY <2>1
    <3>2. AfterRefresh(r, [w EXCEPT !.writes = rows, !.delta = delta, !.lock = w.lock, !.pc = pc])
      BY <2>4, <2>5
    <3> QED
      BY <1>3, <3>1, <3>2
  <2> QED
    BY <2>3, <2>5, AbortWalks
<1>5. CASE InsertRow(r)
  <2>1. PICK rows : AfterRefresh(r, [w EXCEPT !.writes = rows, !.lock = "keyshare", !.pc = "lock"])
    BY <1>1, <1>5 DEF InsertRow
  <2>2. [w EXCEPT !.writes = rows, !.lock = "keyshare", !.pc = "lock"]
          = [w EXCEPT !.writes = rows, !.delta = w.delta, !.lock = "keyshare", !.pc = "lock"]
    BY <1>2 DEF Requests
  <2> QED
    BY <1>3, <2>1, <2>2
<1>6. CASE InsertParts(r)
  <2>1. PICK rows : Proceed(r, [w EXCEPT !.writes = rows, !.lock = "keyshare", !.pc = "commit"])
    BY <1>1, <1>6 DEF InsertParts
  <2>2. PICK next : next = [w EXCEPT !.writes = rows, !.lock = "keyshare", !.pc = "commit"]
    OBVIOUS
  <2>3. next.pc = "commit"
    BY <1>2, <2>2 DEF Requests
  <2> QED
    BY <2>1, <2>2, <2>3, ElsewhereWalks
<1> QED
  BY <1>4, <1>5, <1>6

LEMMA LocksWalk ==
  ASSUME Consistent, NEW r \in Reqs, LockAccount(r) \/ CloseAccount(r)
  PROVE  WalksOn(r)
<1>1. PICK w : w = req[r]
  OBVIOUS
<1>2. w \in Requests
  BY <1>1, AboutRequest
<1>3. PICK lock : \/ Proceed(r, [w EXCEPT !.lock = lock, !.pc = "commit"])
                  \/ Proceed(r, Aborted(r))
  BY <1>1 DEF LockAccount, CloseAccount
<1>4. CASE Proceed(r, [w EXCEPT !.lock = lock, !.pc = "commit"])
  <2>1. PICK next : next = [w EXCEPT !.lock = lock, !.pc = "commit"]
    OBVIOUS
  <2>2. next.pc = "commit"
    BY <1>2, <2>1 DEF Requests
  <2> QED
    BY <1>4, <2>1, <2>2, ElsewhereWalks
<1> QED
  BY <1>3, <1>4, AbortWalks

LEMMA StatementWalks ==
  ASSUME Consistent, NEW r \in Reqs, WalkFits(r, req[r]), Statement(r)
  PROVE  WalksOn(r)
<1>1. CASE LoadAccount(r) \/ CountParts(r) \/ FetchParts(r)
  BY <1>1, ReadsWalk, FetchPartsWalks
<1>2. CASE WritePart(r) \/ WriteRow(r) \/ InsertRow(r) \/ InsertParts(r)
  BY <1>2, WritePartWalks, WritesWalk
<1>3. CASE LockAccount(r) \/ CloseAccount(r)
  BY <1>3, LocksWalk
<1>4. CASE RejectParts(r) \/ Fail(r)
  BY <1>4, AbortWalks DEF RejectParts, Fail
<1>5. CASE BreakDeadlock(r)
  <2>1. Proceed(r, Aborted(r))
    BY <1>5, Zenon DEF BreakDeadlock
  <2> QED
    BY <2>1, AbortWalks
<1> QED
  BY <1>1, <1>2, <1>3, <1>4, <1>5 DEF Statement

-----------------------------------------------------------------------------
(***************************************************************************)
(* The walks of all.                                                       *)
(***************************************************************************)

\* What an update met, it may have changed.
LEMMA WalkStays ==
  ASSUME Consistent, NEW q \in Reqs, WalkFits(q, req[q]), req'[q] = req[q],
         \A t \in Txns : row[t].st # "absent" => row'[t].parent = row[t].parent,
         Crossed(q) => Crossed(q)',
         Crossed(q)' \/ \A t \in Txns : row[t].st # "absent" => row'[t].amt = row[t].amt
  PROVE  WalkFits(q, req[q])'
<1>1. PICK w : w = req[q]
  OBVIOUS
<1>2. w \in Requests /\ Control(w) /\ RowsFit(w) /\ w.writes \in Writings
  BY <1>1, AboutRequest DEF Requests
<1>3. DOMAIN w.writes \subseteq Txns
  BY <1>2, WritingsAreFunctions
<1>4. CASE w.pc \notin {"parts", "write"}
  BY <1>1, <1>4 DEF WalkFits
<1>5. CASE w.pc \in {"parts", "write"}
  <2>1. w.op \notin {"create", "split"}
    BY <1>2, <1>5 DEF Control, Path, Requests, AllOps
  <2>2. ASSUME NEW t \in DOMAIN w.writes
        PROVE  row[t].st # "absent"
    <3>1. RowFits(w, t)
      BY <1>2 DEF RowsFit
    <3> QED
      BY <2>1, <3>1 DEF RowFits
  <2>3. \A i \in 1 .. Len(w.todo) : w.todo[i] \in Txns /\ row[w.todo[i]].st # "absent"
    BY <1>2 DEF RowsFit, Requests
  <2>4. w.op = "delete" => \A t \in DOMAIN w.writes : row'[t].parent = w.tgt
    BY <1>1, <1>3, <1>5, <2>2 DEF WalkFits
  <2>5. Descends(w) /\ (\A t \in Txns : row[t].st # "absent" => row'[t].amt = row[t].amt) => Descends(w)'
    BY <1>3, <2>2, <2>3 DEF Descends
  <2>6. w.pc = "parts" => Crossed(q)' \/ Descends(w)'
    BY <1>1, <2>5 DEF WalkFits
  <2>7. WalkFits(q, w)'
    BY <2>4, <2>6 DEF WalkFits
  <2> QED
    BY <1>1, <2>7
<1> QED
  BY <1>4, <1>5

\* r goes on to state next, and nothing is committed.
LEMMA QuietWalks ==
  ASSUME Consistent, Walks, NEW r \in Reqs, NEW next,
         req' = [req EXCEPT ![r] = next], row' = row,
         req[r].op = "update" => next.op = "update",
         \A q \in Reqs \ {r} : met[q] \subseteq met'[q],
         WalkFits(r, next)'
  PROVE  Walks'
<1>1. req'[r] = next /\ \A q \in Reqs \ {r} : req'[q] = req[q]
  BY DEF Consistent, Typed
<1>2. ASSUME NEW q \in Reqs \ {r}
      PROVE  WalkFits(q, req[q])'
  <2>1. Crossed(q) => Crossed(q)'
    <3>1. met[q] \subseteq Reqs
      BY DEF Consistent, Typed
    <3> QED
      BY <1>1, <3>1 DEF Crossed
  <2>2. WalkFits(q, req[q]) /\ req'[q] = req[q]
    BY <1>1 DEF Walks
  <2> QED
    BY <2>1, <2>2, WalkStays
<1> QED
  BY <1>1, <1>2 DEF Walks

LEMMA BeginWalks ==
  ASSUME Consistent, Walks, NEW r \in Reqs, Begin(r)
  PROVE  Walks'
<1>1. PICK next : Arrive(r, next) /\ Starts(next)
  BY BeginArrives DEF Arrives
<1>2. next.pc \notin {"parts", "write"}
  BY <1>1 DEF Starts, InProgress
<1>3. req[r] \in Requests /\ Control(req[r]) /\ req[r].pc = "new"
  BY <1>1, AboutRequest DEF Arrive
<1>4. req[r].op # "update"
  BY <1>3 DEF Control, Path, Requests, AllOps
<1>5. \A q \in Reqs \ {r} : met[q] \subseteq met'[q]
  BY <1>1 DEF Arrive, Meet
<1>6. WalkFits(r, next)'
  BY <1>2 DEF WalkFits
<1> QED
  BY <1>1, <1>4, <1>5, <1>6, QuietWalks DEF Arrive

LEMMA StatementKeepsWalks ==
  ASSUME Consistent, Walks, NEW r \in Reqs, Statement(r)
  PROVE  Walks'
<1>1. PICK next : Proceed(r, next) /\ WalkFits(r, next)
  BY StatementWalks DEF Walks, WalksOn
<1>2. PICK other : Proceed(r, other) /\ other.op = req[r].op
  BY StatementBecomes DEF Becomes, Follows
<1>3. req'[r] = next /\ req'[r] = other /\ met' = met /\ row' = row
      /\ req' = [req EXCEPT ![r] = next] /\ \A q \in Reqs \ {r} : req'[q] = req[q]
  BY <1>1, <1>2 DEF Proceed, Consistent, Typed
<1>4. Crossed(r) => Crossed(r)'
  <2>1. met[r] \subseteq Reqs
    BY DEF Consistent, Typed
  <2> QED
    BY <1>2, <1>3, <2>1 DEF Crossed
<1>5. Descends(next) => Descends(next)'
  BY <1>3 DEF Descends
<1>6. WalkFits(r, next)'
  BY <1>1, <1>3, <1>4, <1>5 DEF WalkFits
<1>7. req[r].op = "update" => next.op = "update"
  BY <1>2, <1>3
<1> QED
  BY <1>3, <1>6, <1>7, QuietWalks

LEMMA WriteAuditWalks ==
  ASSUME Consistent, Walks, NEW r \in Reqs, WriteAudit(r)
  PROVE  Walks'
<1>1. req[r] \in Requests
  BY AboutRequest
<1>2. PICK next : next = [req[r] EXCEPT !.pc = "done"]
  OBVIOUS
<1>3. next.pc = "done" /\ next.op = req[r].op
  BY <1>1, <1>2 DEF Requests
<1>4. req' = [req EXCEPT ![r] = next] /\ row' = row /\ met' = met
  BY <1>2 DEF WriteAudit
<1>5. WalkFits(r, next)'
  BY <1>3 DEF WalkFits
<1> QED
  BY <1>3, <1>4, <1>5, QuietWalks

LEMMA CommitWalks ==
  ASSUME Consistent, MeetingsKnown, Walks, NEW r \in Reqs, Commit(r)
  PROVE  Walks'
<1>1. PICK w : w = req[r]
  OBVIOUS
<1>2. w \in Requests /\ Control(w) /\ RowsFit(w) /\ w.pc = "commit" /\ Active(r)
  BY <1>1, AboutRequest DEF Commit, Active
<1>3. PICK next : next = [Aborted(r) EXCEPT !.pc = IF AuditsApart(r) THEN "audit" ELSE "done"]
  OBVIOUS
<1>4. next.pc \in {"audit", "done"} /\ next.op = w.op
  BY <1>1, <1>2, <1>3 DEF Aborted, Requests
<1>5. req'[r] = next /\ met' = met /\ \A q \in Reqs \ {r} : req'[q] = req[q]
  BY <1>3 DEF Commit, Consistent, Typed
<1>6. WalkFits(r, req[r])'
  BY <1>4, <1>5 DEF WalkFits
<1>7. \A t \in Txns : row[t].st # "absent" => row'[t].parent = row[t].parent
  BY RowsForward
<1>8. ASSUME w.op # "update", NEW t \in Txns, row[t].st # "absent"
      PROVE  row'[t].amt = row[t].amt
  <2>1. CASE t \in DOMAIN w.writes /\ row'[t] = w.writes[t] /\ RowFits(w, t)
    <3>1. PICK old \in RowType(States) : old = row[t]
      BY DEF Consistent, Typed
    <3>2. w.op # "none" /\ w.op \notin {"create", "split"}
      BY <1>2, <1>8, <2>1 DEF RowFits, Control, Path
    <3>3. \/ row'[t] = [old EXCEPT !.st = "deleted"]
          \/ row'[t] = [old EXCEPT !.st = "purged"]
      BY <1>2, <1>8, <2>1, <3>1, <3>2 DEF RowFits, Requests, AllOps
    <3> QED
      BY <3>1, <3>3 DEF RowType
  <2> QED
    BY <1>1, <2>1, CommitRows
<1>9. ASSUME NEW q \in Reqs \ {r}
      PROVE  WalkFits(q, req[q])'
  <2>1. WalkFits(q, req[q]) /\ req'[q] = req[q]
    BY <1>5 DEF Walks
  <2>2. Crossed(q) => Crossed(q)'
    <3>1. met[q] \subseteq Reqs
      BY DEF Consistent, Typed
    <3> QED
      BY <1>1, <1>4, <1>5, <3>1 DEF Crossed
  <2>3. CASE w.op # "update"
    BY <1>7, <1>8, <2>1, <2>2, <2>3, WalkStays
  <2>4. CASE w.op = "update" /\ Active(q)
    <3>1. r \in met[q]
      BY <1>2, <2>4 DEF MeetingsKnown
    <3>2. Crossed(q)'
      BY <1>4, <1>5, <2>4, <3>1 DEF Crossed
    <3> QED
      BY <1>7, <2>1, <3>2, WalkStays
  <2>5. CASE ~ Active(q)
    BY <2>1, <2>5 DEF WalkFits, Active
  <2> QED
    BY <2>3, <2>4, <2>5
<1> QED
  BY <1>6, <1>9 DEF Walks

LEMMA WalksStay ==
  ASSUME Histories, Walks, [Next]_vars
  PROVE  Walks'
<1>1. Consistent /\ MeetingsKnown
  BY DEF Histories
<1>2. CASE Next
  BY <1>1, <1>2, StepCases, BeginWalks, StatementKeepsWalks, CommitWalks, WriteAuditWalks
<1>3. CASE UNCHANGED vars
  <2>1. UNCHANGED <<row, req, met>>
    BY <1>3 DEF vars
  <2>2. ASSUME NEW q \in Reqs
        PROVE  WalkFits(q, req[q])'
    <3>1. WalkFits(q, req[q]) /\ req'[q] = req[q] /\ (Crossed(q) => Crossed(q)')
      BY <2>1 DEF Walks, Crossed
    <3> QED
      BY <1>1, <2>1, <3>1, WalkStays
  <2> QED
    BY <2>2 DEF Walks
<1> QED
  BY <1>2, <1>3

-----------------------------------------------------------------------------
(***************************************************************************)
(* The rings.                                                              *)
(***************************************************************************)
Walker(r) == req[r].pc \in {"parts", "write"}

StuckCreation(r) == req[r].pc = "lock" /\ req[r].op = "create"

\* A walker waits for a row, any other request for the account.
LEMMA BlockedBy ==
  ASSUME Consistent, NEW q \in Reqs, NEW r \in Reqs, Blocks(q, r)
  PROVE  /\ q # r
         /\ Walker(r) => RowsWanted(r) \cap DOMAIN req[q].writes # {}
         /\ ~ Walker(r) => req[q].lock # "none" /\ req[r].pc \in {"insert", "lock", "close"}
<1>1. req[q].lock \in Locks
  BY DEF Consistent, Typed, Requests
<1>2. q # r
  BY DEF Blocks
<1>3. CASE Walker(r)
  <2>1. LockWanted(r) = "none"
    BY <1>3 DEF Walker, LockWanted
  <2>2. {"none", req[q].lock} \notin Conflict
    BY <1>1, LockTable DEF Locks
  <2> QED
    BY <1>2, <1>3, <2>1, <2>2 DEF Blocks
<1>4. CASE ~ Walker(r)
  <2>1. RowsWanted(r) = {}
    BY <1>4 DEF Walker, RowsWanted
  <2>2. {LockWanted(r), req[q].lock} \in Conflict
    BY <2>1 DEF Blocks
  <2>3. LockWanted(r) \in Locks
    BY DEF LockWanted, Locks
  <2>4. LockWanted(r) # "none" /\ req[q].lock # "none"
    BY <1>1, <2>2, <2>3, LockTable
  <2> QED
    BY <1>2, <1>4, <2>4 DEF LockWanted
<1> QED
  BY <1>3, <1>4

\* Who waits for the account waits for creations, and these for others.
LEMMA RingOfCreations ==
  ASSUME Consistent, NEW r \in Reqs, InCycle(r), NEW x \in RingOf(r), ~ Walker(x)
  PROVE  \A y \in RingOf(r) : StuckCreation(y)
<1>1. PICK T : T = {y \in RingOf(r) : StuckCreation(y)}
  OBVIOUS
<1>2. x \in Reqs /\ InCycle(x) /\ RingOf(x) = RingOf(r) /\ r \in RingOf(r)
  BY RingIsOne
<1>3. ASSUME NEW z \in (RingOf(x) \cap T) \cup {x}, NEW y \in RingOf(x), Blocks(y, z)
      PROVE  y \in T
  <2>1. z \in Reqs /\ y \in Reqs /\ InCycle(y) /\ ~ Walker(z)
    BY <1>1, <1>2, RingIsOne DEF StuckCreation, Walker
  <2>2. req[y].lock # "none"
    BY <1>3, <2>1, BlockedBy
  <2>3. LockFits(req[y])
    BY <2>1, AboutRequest DEF Control
  <2>4. PICK q \in Reqs : Blocks(q, y)
    BY <2>1, RingIsOne
  <2>5. req[y].pc \in {"insert", "lock", "close", "parts", "write"}
    BY <2>1, <2>4, BlockedBy DEF Walker
  <2>6. StuckCreation(y)
    BY <2>2, <2>3, <2>5 DEF LockFits, StuckCreation
  <2> QED
    BY <1>1, <1>2, <1>3, <2>6
<1>4. RingOf(x) \subseteq T
  BY <1>2, <1>3, RoundTheRing
<1> QED
  BY <1>1, <1>2, <1>4

\* What a walker has written are parts of its row.
LEMMA WalkersHoldParts ==
  ASSUME Consistent, Walks, NEW y \in Reqs, Walker(y), NEW t \in DOMAIN req[y].writes
  PROVE  /\ t \in Txns /\ row[t].st # "absent" /\ row[t].parent = req[y].tgt
         /\ req[y].op \in {"delete", "join"} /\ req[y].tgt \in Txns
<1>1. PICK w : w = req[y]
  OBVIOUS
<1>2. w \in Requests /\ Control(w) /\ RowsFit(w) /\ WalkFits(y, w) /\ w.writes \in Writings
  BY <1>1, AboutRequest DEF Walks, Requests
<1>3. t \in Txns
  BY <1>1, <1>2, WritingsAreFunctions
<1>4. w.op \in {"delete", "join"}
  BY <1>1, <1>2 DEF Walker, Control, Path, Requests, AllOps
<1>5. w.tgt \in Txns
  BY <1>2, <1>4 DEF Control, OnRow, Requests
<1>6. RowFits(w, t)
  BY <1>1, <1>2 DEF RowsFit
<1>7. row[t].st # "absent"
  BY <1>4, <1>6 DEF RowFits
<1>8. CASE w.op = "delete"
  BY <1>1, <1>2, <1>3, <1>4, <1>5, <1>7, <1>8 DEF WalkFits, Walker
<1>9. CASE w.op = "join"
  BY <1>1, <1>3, <1>4, <1>5, <1>6, <1>7, <1>9 DEF RowFits
<1> QED
  BY <1>4, <1>8, <1>9

AtParts(r, t) ==
  /\ req[r].pc = "parts" /\ req[r].op \in {"delete", "join"} /\ req[r].tgt = t

\* Walkers that wait for each other are all at the parts of their row: the row
\* itself is no part.
LEMMA RingAtParts ==
  ASSUME Consistent, Walks, NEW r \in Reqs, InCycle(r), \A x \in RingOf(r) : Walker(x),
         NEW y \in RingOf(r)
  PROVE  AtParts(y, req[y].tgt)
<1>1. y \in Reqs /\ InCycle(y) /\ RingOf(y) = RingOf(r) /\ Walker(y)
  BY RingIsOne
<1>2. PICK x \in RingOf(r) : Blocks(y, x)
  BY RingIsOne
<1>3. x \in Reqs /\ Walker(x)
  BY RingIsOne
<1>4. PICK c : c \in DOMAIN req[y].writes
  BY <1>1, <1>2, <1>3, BlockedBy
<1>5. /\ c \in Txns /\ row[c].st # "absent" /\ row[c].parent = req[y].tgt
      /\ req[y].op \in {"delete", "join"} /\ req[y].tgt \in Txns
  BY <1>1, <1>4, WalkersHoldParts
<1>6. row[req[y].tgt].st # "absent" /\ row[req[y].tgt].parent = NoTxn
  BY <1>5, RequestsAssumption DEF Consistent, TableFits
<1>7. req[y].pc # "write"
  <2> SUFFICES ASSUME req[y].pc = "write" PROVE FALSE
    OBVIOUS
  <2>1. PICK z \in RingOf(y) : Blocks(z, y)
    BY <1>1, RingIsOne
  <2>2. z \in Reqs /\ Walker(z)
    BY <1>1, <2>1, RingIsOne
  <2>3. req[y].tgt \in DOMAIN req[z].writes
    BY <1>1, <2>1, <2>2, BlockedBy DEF RowsWanted
  <2>4. row[req[y].tgt].parent = req[z].tgt /\ req[z].tgt \in Txns
    BY <2>2, <2>3, WalkersHoldParts
  <2> QED
    BY <1>6, <2>4, RequestsAssumption
<1> QED
  BY <1>1, <1>5, <1>7 DEF Walker, AtParts

Wanted(r) == Head(req[r].todo)

\* One of the ring wants a part that the next one has written: they are at the
\* parts of the same row.
LEMMA WantedOfNext ==
  ASSUME Consistent, Walks, NEW r \in Reqs, NEW q \in Reqs, Blocks(q, r),
         AtParts(r, req[r].tgt), AtParts(q, req[q].tgt)
  PROVE  /\ q # r /\ Wanted(r) \in DOMAIN req[q].writes
         /\ RowsWanted(r) = {Wanted(r)} /\ RowsWanted(q) = {Wanted(q)}
         /\ Wanted(r) \in Txns /\ row[Wanted(r)].amt \in Int
         /\ req[q].tgt = req[r].tgt
         /\ ~ Crossed(q) => row[Wanted(r)].amt >= row[Wanted(q)].amt
<1>1. Walker(r) /\ Walker(q)
  BY DEF AtParts, Walker
<1>2. RowsWanted(r) = {Wanted(r)} /\ RowsWanted(q) = {Wanted(q)}
  BY DEF AtParts, RowsWanted, Wanted
<1>3. q # r /\ Wanted(r) \in DOMAIN req[q].writes
  BY <1>1, <1>2, BlockedBy
<1>4. \A x \in Reqs : /\ req[x] \in Requests /\ Control(req[x]) /\ RowsFit(req[x])
                      /\ req[x].todo \in Seq(Txns)
  BY AboutRequest DEF Requests
<1>5. req[r].todo # << >> /\ req[q].todo # << >>
  BY <1>4 DEF Control, AtParts
<1>6. Wanted(r) = req[r].todo[1] /\ 1 \in 1 .. Len(req[r].todo) /\ Wanted(r) \in Txns
  BY <1>4, <1>5 DEF Wanted
<1>7. Wanted(q) = req[q].todo[1] /\ 1 \in 1 .. Len(req[q].todo) /\ Wanted(q) \in Txns
  BY <1>4, <1>5 DEF Wanted
<1>8. row[Wanted(r)].parent = req[r].tgt
  BY <1>4, <1>6 DEF RowsFit
<1>9. row[Wanted(r)].parent = req[q].tgt
  BY <1>1, <1>3, WalkersHoldParts
<1>10. row[Wanted(r)].amt \in Int
  BY <1>6 DEF Consistent, Typed, RowType
<1>11. ~ Crossed(q) => row[Wanted(r)].amt >= row[Wanted(q)].amt
  BY <1>3, <1>7 DEF Walks, WalkFits, Descends, AtParts
<1> QED
  BY <1>2, <1>3, <1>6, <1>8, <1>9, <1>10, <1>11

\* Nobody in a ring that met no update wants a larger part than another.
LEMMA RingIsLevel ==
  ASSUME Consistent, Walks, NEW r \in Reqs, InCycle(r),
         \A x \in RingOf(r) : AtParts(x, req[x].tgt) /\ ~ Crossed(x), NEW y \in RingOf(r)
  PROVE  row[Wanted(y)].amt = row[Wanted(r)].amt
<1>1. \A z \in RingOf(r) : z \in Reqs /\ row[Wanted(z)].amt \in Int
  <2> SUFFICES ASSUME NEW z \in RingOf(r) PROVE z \in Reqs /\ row[Wanted(z)].amt \in Int
    OBVIOUS
  <2>1. z \in Reqs /\ InCycle(z) /\ RingOf(z) = RingOf(r)
    BY RingIsOne
  <2>2. PICK n \in RingOf(z) : Blocks(n, z)
    BY <2>1, RingIsOne
  <2> QED
    BY <2>1, <2>2, RingIsOne, WantedOfNext
<1>2. ASSUME NEW q \in RingOf(r), NEW x \in RingOf(r)
      PROVE  row[Wanted(x)].amt <= row[Wanted(q)].amt
  <2>1. q \in Reqs /\ InCycle(q) /\ RingOf(q) = RingOf(r)
    BY RingIsOne
  <2>2. PICK T : T = {z \in RingOf(r) : row[Wanted(z)].amt <= row[Wanted(q)].amt}
    OBVIOUS
  <2>3. ASSUME NEW z \in (RingOf(q) \cap T) \cup {q}, NEW n \in RingOf(q), Blocks(n, z)
        PROVE  n \in T
    <3>1. z \in RingOf(r) /\ n \in RingOf(r) /\ row[Wanted(z)].amt <= row[Wanted(q)].amt
      BY <1>1, <2>1, <2>2
    <3>2. row[Wanted(z)].amt >= row[Wanted(n)].amt
      BY <1>1, <2>3, <3>1, WantedOfNext
    <3> QED
      BY <1>1, <2>2, <3>1, <3>2
  <2>4. RingOf(q) \subseteq T
    BY <2>1, <2>3, RoundTheRing
  <2> QED
    BY <2>1, <2>2, <2>4
<1>3. r \in RingOf(r) /\ r \in Reqs /\ y \in Reqs
  BY RingIsOne
<1> QED
  BY <1>1, <1>2, <1>3

LEMMA RingOfOneRow ==
  ASSUME Consistent, Walks, NEW r \in Reqs, InCycle(r), \A x \in RingOf(r) : Walker(x),
         NEW y \in RingOf(r)
  PROVE  AtParts(y, req[r].tgt)
<1>1. PICK T : T = {z \in RingOf(r) : req[z].tgt = req[r].tgt}
  OBVIOUS
<1>2. r \in RingOf(r)
  BY RingIsOne
<1>3. ASSUME NEW x \in (RingOf(r) \cap T) \cup {r}, NEW z \in RingOf(r), Blocks(z, x)
      PROVE  z \in T
  <2>1. x \in RingOf(r) /\ req[x].tgt = req[r].tgt
    BY <1>1, <1>2
  <2>2. x \in Reqs /\ z \in Reqs
    BY <2>1, RingIsOne
  <2>3. AtParts(x, req[x].tgt) /\ AtParts(z, req[z].tgt)
    BY <2>1, RingAtParts
  <2>4. req[z].tgt = req[x].tgt
    BY <1>3, <2>2, <2>3, WantedOfNext
  <2> QED
    BY <1>1, <2>1, <2>4
<1>4. RingOf(r) \subseteq T
  BY <1>3, RoundTheRing
<1>5. req[y].tgt = req[r].tgt
  BY <1>1, <1>4
<1> QED
  BY <1>5, RingAtParts

LEMMA CyclesExplained ==
  ASSUME Consistent, Walks
  PROVE  DeadlocksExplained
<1> DEFINE stuck == {r \in Reqs : InCycle(r)}
           walkersOn(t) == {r \in stuck : req[r].op \in {"delete", "join"} /\ req[r].tgt = t}
           wantedOn(t) == UNION {RowsWanted(r) : r \in walkersOn(t)}
<1> SUFFICES ASSUME NEW r \in stuck
             PROVE  \/ req[r].op = "create" /\ \E q \in stuck \ {r} : req[q].op = "create"
                    \/ /\ r \in walkersOn(req[r].tgt)
                       /\ \/ \E c, d \in wantedOn(req[r].tgt) : c # d /\ row[c].amt = row[d].amt
                          \/ \E q \in walkersOn(req[r].tgt) : \E u \in met[q] : req[u].op = "update"
  BY DEF DeadlocksExplained
<1>1. PICK walkers, wanted :
        /\ walkers = walkersOn(req[r].tgt) /\ wanted = wantedOn(req[r].tgt)
        /\ walkers = {q \in stuck : req[q].op \in {"delete", "join"} /\ req[q].tgt = req[r].tgt}
        /\ wanted = UNION {RowsWanted(q) : q \in walkers}
  OBVIOUS
<1> HIDE DEF walkersOn, wantedOn
<1>2. r \in Reqs /\ InCycle(r) /\ r \in RingOf(r) /\ RingOf(r) \subseteq stuck
  BY RingIsOne, CycleIsWaiting DEF RingOf, Ring
<1>3. PICK y \in RingOf(r) : Blocks(y, r)
  BY <1>2, RingIsOne
<1>4. y \in Reqs /\ InCycle(y) /\ RingOf(y) = RingOf(r) /\ y # r
  BY <1>2, <1>3, RingIsOne, BlockedBy
<1>5. ASSUME NEW x \in RingOf(r), ~ Walker(x)
      PROVE  req[r].op = "create" /\ \E q \in stuck \ {r} : req[q].op = "create"
  <2>1. StuckCreation(r) /\ StuckCreation(y)
    BY <1>2, <1>5, RingOfCreations
  <2> QED
    BY <1>2, <1>3, <1>4, <2>1 DEF StuckCreation
<1>6. ASSUME \A x \in RingOf(r) : Walker(x)
      PROVE  /\ r \in walkers
             /\ \/ \E c, d \in wanted : c # d /\ row[c].amt = row[d].amt
                \/ \E q \in walkers : \E u \in met[q] : req[u].op = "update"
  <2>1. \A x \in RingOf(r) : AtParts(x, req[r].tgt) /\ AtParts(x, req[x].tgt)
    BY <1>2, <1>6, RingOfOneRow, RingAtParts
  <2>2. \A x \in RingOf(r) : x \in walkers
    BY <1>1, <1>2, <2>1 DEF AtParts
  <2>3. CASE \E q \in RingOf(r) : Crossed(q)
    BY <1>2, <2>2, <2>3 DEF Crossed
  <2>4. CASE \A q \in RingOf(r) : ~ Crossed(q)
    <3>1. row[Wanted(y)].amt = row[Wanted(r)].amt
      BY <1>2, <1>3, <2>1, <2>4, RingIsLevel
    <3>2. /\ Wanted(r) \in DOMAIN req[y].writes /\ Wanted(r) \in Txns
          /\ RowsWanted(r) = {Wanted(r)} /\ RowsWanted(y) = {Wanted(y)}
      BY <1>2, <1>3, <1>4, <2>1, WantedOfNext
    <3>3. PICK z \in RingOf(r) : Blocks(z, y)
      BY <1>4, RingIsOne
    <3>4. z \in Reqs /\ z # y /\ Wanted(y) \in DOMAIN req[z].writes
      BY <1>2, <1>3, <1>4, <2>1, <3>3, RingIsOne, WantedOfNext
    <3>5. Wanted(r) # Wanted(y)
      BY <1>4, <3>2, <3>4 DEF Consistent, LocksExclusive
    <3>6. r \in walkers /\ y \in walkers
      BY <1>2, <1>3, <2>2
    <3>7. RowsWanted(r) \subseteq wanted /\ RowsWanted(y) \subseteq wanted
      BY <1>1, <3>6
    <3>8. Wanted(r) \in wanted /\ Wanted(y) \in wanted
      BY <3>2, <3>7
    <3> QED
      BY <1>2, <2>2, <3>1, <3>5, <3>8
  <2> QED
    BY <1>2, <2>2, <2>3, <2>4
<1> QED
  BY <1>1, <1>5, <1>6

-----------------------------------------------------------------------------
(***************************************************************************)
(* The properties.                                                         *)
(***************************************************************************)

\* The balance that a handler of TransactionService commits misses a committed
\* posting only if another request loaded the account before that posting was
\* committed and posted after it: no failure, deadlock, split or join loses
\* one, whatever the number of requests.
THEOREM PostingsLostOnlyByOverlap == Spec => []OnlyOverlapLosesPostings
<1>1. Histories => OnlyOverlapLosesPostings
  BY DEF Histories, PostingsKept, Overwritten, OnlyOverlapLosesPostings
<1> QED
  BY <1>1, AlwaysHistories, PTL

\* delete_transaction leaves a live part behind only when a split of the same
\* row overlapped it.
THEOREM PartsStrandedOnlyByOverlap == Spec => []StrandedPartsNeedOverlap
<1>1. Histories => StrandedPartsNeedOverlap
  BY DEF Histories
<1> QED
  BY <1>1, AlwaysHistories, PTL

\* A handler of TransactionService, or delete_account, that ran while no other
\* request on the account was in progress commits a step of module Ledger, or
\* one that Ledger does not see: whatever requests did before it, whatever they
\* left wrong, and however its account was reloaded on the way.
THEOREM IsolatedRequestsImplementLedger == Spec => IsolatedRequestsFollowLedger
<1> DEFINE Implements == \A r \in committed' \ committed : met[r] = {} => [Ledger!Next]_(Ledger!vars)
<1>1. ASSUME Histories, Solitary, [Next]_vars
      PROVE  Implements
  <2> SUFFICES ASSUME NEW r \in committed', r \notin committed, met[r] = {}
               PROVE  [Ledger!Next]_(Ledger!vars)
    OBVIOUS
  <2>1. Consistent
    BY <1>1 DEF Histories
  <2>2. Next
    BY <1>1 DEF vars
  <2>3. PICK q \in Reqs : Begin(q) \/ Statement(q) \/ Commit(q) \/ WriteAudit(q)
    BY <2>2, StepCases
  <2>4. Commit(q)
    <3>1. CASE Begin(q)
      BY <2>1, <3>1, BeginUndisturbed DEF Arrive
    <3>2. CASE Statement(q)
      BY <2>1, <3>2, StatementBecomes DEF Becomes, Proceed
    <3>3. CASE WriteAudit(q)
      BY <3>3 DEF WriteAudit
    <3> QED
      BY <2>3, <3>1, <3>2, <3>3
  <2>5. q = r
    BY <2>4 DEF Commit
  <2>6. Undisturbed(req[r])
    BY <1>1, <2>5 DEF Solitary
  <2> QED
    BY <1>1, <2>4, <2>5, <2>6, CommitFollowsLedger
<1>2. Histories /\ Solitary /\ [Next]_vars => [Implements]_vars
  BY <1>1
<1>3. Spec => []Solitary
  BY InitHistories, HistoriesStay, InitSolitary, SolitaryStays, PTL DEF Spec
<1> QED
  BY <1>2, <1>3, AlwaysHistories, PTL DEF Spec, IsolatedRequestsFollowLedger

\* Whatever the requests on an account and whatever rows they ask for, those of
\* TransactionService that wait for each other are creations, which insert under
\* a shared lock on the account before get_for_update asks for it alone, or
\* deletions and joins of one split row, with two parts of equal amount, whose
\* order get_children leaves open, or with an update in between.
THEOREM DeadlocksAreExplained == Spec => []DeadlocksExplained
<1>1. Histories /\ Walks => DeadlocksExplained
  BY CyclesExplained DEF Histories
<1>2. Spec => []Walks
  BY InitHistories, HistoriesStay, InitWalks, WalksStay, PTL DEF Spec
<1> QED
  BY <1>1, <1>2, AlwaysHistories, PTL

=============================================================================
