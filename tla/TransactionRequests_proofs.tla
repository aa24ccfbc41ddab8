--------------------- MODULE TransactionRequests_proofs ---------------------
(***************************************************************************)
(* Proofs about module TransactionRequests, for any requests, rows and     *)
(* amounts, however the requests overlap.                                  *)
(***************************************************************************)
EXTENDS TransactionRequests, Finite_proofs

States == {"absent", "live", "deleted", "purged"}
Positions == {"new", "insert", "account", "count", "fetch", "parts", "write",
              "lock", "close", "commit", "audit", "done"}
Locks == {"none", "keyshare", "nokey", "update"}
NewRowsOrChanged == RowType({"live", "deleted", "purged"})
Writings == UNION {[ts -> NewRowsOrChanged] : ts \in SUBSET Txns}
Requests == [pc : Positions, op : AllOps \cup {"none"}, tgt : Txns \cup {NoTxn},
             amt : Int, old : Int, snap : Int, seen : SUBSET Reqs, delta : Int,
             todo : Seq(Txns), writes : Writings, lock : Locks]

Typed ==
  /\ row \in [Txns -> RowType(States)]
  /\ open \in BOOLEAN
  /\ balance \in Int
  /\ req \in [Reqs -> Requests]
  /\ committed \subseteq Reqs
  /\ audited \subseteq committed
  /\ applied \subseteq committed
  /\ met \in [Reqs -> SUBSET Reqs]
  /\ \A r \in Reqs : req[r].seen \subseteq committed /\ r \notin met[r]

\* A row belongs to a top-level row or is one, and no amount is zero.
TableFits ==
  \A t \in Txns : row[t].st # "absent" =>
    /\ row[t].amt # 0
    /\ row[t].parent # NoTxn =>
         row[row[t].parent].st # "absent" /\ row[row[t].parent].parent = NoTxn

(***************************************************************************)
(* What is always true of one request: where its operation can take it,    *)
(* which lock it has there, and what it has written.                       *)
(***************************************************************************)
Path == [op \in AllOps \cup {"none"} |->
  CASE op = "none" -> {"new"}
    [] op = "create" -> {"insert", "lock", "commit", "audit", "done"}
    [] op = "update" -> {"account", "write", "lock", "commit", "done"}
    [] op = "delete" -> {"account", "count", "fetch", "parts", "write", "lock", "commit", "done"}
    [] op = "split" -> {"insert", "commit", "audit", "done"}
    [] op = "join" -> {"count", "fetch", "parts", "commit", "done"}
    [] OTHER -> {"close", "commit", "done"}]

OnRow == {"update", "delete", "split", "join"}

LockFits(q) ==
  /\ q.lock = "update" => q.pc = "commit" /\ q.op \in Posting /\ q.delta # 0
  /\ q.lock # "none" => q.pc \in {"lock", "commit"}
  /\ q.lock # "none" /\ q.pc = "lock" => q.op = "create"
  /\ q.pc = "lock" => q.delta # 0
  /\ q.pc = "commit" =>
       /\ q.op \in {"create", "delete"} => q.lock = "update"
       /\ q.op = "update" /\ q.delta # 0 => q.lock = "update"
       /\ q.op = "close" => q.lock = "nokey"

Control(q) ==
  /\ q.pc \in Path[q.op]
  /\ q.op \in OnRow <=> q.tgt # NoTxn
  /\ q.pc = "parts" <=> q.todo # << >>
  /\ q.op \in {"create", "update"} => q.amt # 0
  /\ q.op = "create" => q.delta = q.amt
  /\ q.pc \notin {"parts", "write", "lock", "commit"} => DOMAIN q.writes = {}
  /\ q.op = "close" \/ (q.op = "update" /\ q.pc = "write") => DOMAIN q.writes = {}
  /\ LockFits(q)

InProgress(q) == q.pc \notin {"new", "done"}

\* A row written is new, or is the latest version of an old one, changed.
RowFits(q, t) ==
  LET new == q.writes[t] IN
  CASE q.op \in {"create", "split"} ->
         /\ row[t].st = "absent"
         /\ new.st = "live" /\ new.amt # 0
         /\ new.parent = IF q.op = "split" THEN q.tgt ELSE NoTxn
    [] q.op = "update" ->
         /\ t = q.tgt
         /\ row[t].st \in {"live", "deleted"}
         /\ new.st = row[t].st /\ new.parent = row[t].parent /\ new.amt # 0
         /\ q.pc = "commit" /\ q.delta = 0 => new = row[t]
    [] q.op = "delete" ->
         /\ row[t].st \in {"live", "deleted"}
         /\ new = [row[t] EXCEPT !.st = "deleted"]
         /\ t # q.tgt => row[t].parent = q.tgt
    [] OTHER ->
         /\ row[t].st \in {"live", "deleted"}
         /\ new = [row[t] EXCEPT !.st = "purged"]
         /\ row[t].parent = q.tgt

TargetFits(q) ==
  InProgress(q) /\ q.tgt # NoTxn =>
    row[q.tgt].st # "absent" /\ (q.op = "split" => row[q.tgt].parent = NoTxn)

RowsFit(q) ==
  /\ TargetFits(q)
  /\ \A i \in 1 .. Len(q.todo) : row[q.todo[i]].st # "absent" /\ row[q.todo[i]].parent = q.tgt
  /\ \A t \in DOMAIN q.writes : RowFits(q, t)

OutcomeFits(r) ==
  /\ req[r].pc = "audit" => r \in committed
  /\ r \in committed => req[r].pc \in {"audit", "done"}

\* No two requests have a row locked, or conflicting locks on the account, and
\* nobody has locked a deleted account to change its balance.
LocksExclusive ==
  /\ \A q, r \in Reqs : q # r =>
       /\ DOMAIN req[q].writes \cap DOMAIN req[r].writes = {}
       /\ {req[q].lock, req[r].lock} \notin Conflict
  /\ \A r \in Reqs : req[r].lock = "update" => open

Consistent ==
  /\ Typed
  /\ TableFits
  /\ LocksExclusive
  /\ \A r \in Reqs : Control(req[r]) /\ RowsFit(req[r]) /\ OutcomeFits(r)

-----------------------------------------------------------------------------
(***************************************************************************)
(* The steps of a request before its commit, and those of the              *)
(* specification.                                                          *)
(***************************************************************************)
Statement(r) ==
  \/ LoadAccount(r) \/ CountParts(r) \/ FetchParts(r)
  \/ WritePart(r) \/ WriteRow(r) \/ InsertRow(r) \/ InsertParts(r) \/ RejectParts(r)
  \/ LockAccount(r) \/ CloseAccount(r) \/ Fail(r) \/ BreakDeadlock(r)

LEMMA StepCases ==
  ASSUME Next
  PROVE  \E r \in Reqs : Begin(r) \/ Statement(r) \/ Commit(r) \/ WriteAudit(r)
BY DEF Next, Step, Statement

(***************************************************************************)
(* What the helpers return.                                                *)
(***************************************************************************)
LEMMA WritingsAreFunctions ==
  ASSUME NEW w \in Writings
  PROVE  /\ DOMAIN w \subseteq Txns
         /\ w \in [DOMAIN w -> NewRowsOrChanged]
<1>1. PICK ts \in SUBSET Txns : w \in [ts -> NewRowsOrChanged]
  BY DEF Writings
<1> QED
  BY <1>1

LEMMA FunctionsAreWritings ==
  ASSUME NEW ts \in SUBSET Txns, NEW w \in [ts -> NewRowsOrChanged]
  PROVE  w \in Writings
BY DEF Writings

LEMMA NothingWritten == NoWrites \in Writings /\ DOMAIN NoWrites = {}
<1>1. NoWrites \in [{} -> NewRowsOrChanged] /\ DOMAIN NoWrites = {}
  BY DEF NoWrites
<1> QED
  BY <1>1, FunctionsAreWritings

LEMMA WrittenTyped ==
  ASSUME Typed, NEW r \in Reqs, NEW t \in Txns, NEW new \in NewRowsOrChanged
  PROVE  /\ Written(r, t, new) \in Writings
         /\ DOMAIN Written(r, t, new) = DOMAIN req[r].writes \cup {t}
         /\ Written(r, t, new)[t] = new
         /\ \A c \in DOMAIN req[r].writes \ {t} : Written(r, t, new)[c] = req[r].writes[c]
<1>1. req[r].writes \in Writings
  BY DEF Typed, Requests
<1>2. DOMAIN req[r].writes \subseteq Txns /\ req[r].writes \in [DOMAIN req[r].writes -> NewRowsOrChanged]
  BY <1>1, WritingsAreFunctions
<1>3. Written(r, t, new) \in [DOMAIN req[r].writes \cup {t} -> NewRowsOrChanged]
  BY <1>2 DEF Written
<1>4. Written(r, t, new) \in Writings
  BY <1>2, <1>3, FunctionsAreWritings
<1> QED
  BY <1>2, <1>4 DEF Written

\* Which pairs of locks on the account exclude each other.
LEMMA LockTable ==
  ASSUME NEW a \in Locks, NEW b \in Locks
  PROVE  {a, b} \in Conflict <=>
           \/ a = "update" /\ b # "none"
           \/ b = "update" /\ a # "none"
           \/ a = "nokey" /\ b = "nokey"
BY DEF Locks, Conflict

\* There are subsets of every size.
LEMMA SubsetOfSize ==
  ASSUME NEW S, IsFiniteSet(S), NEW n \in Nat, n <= Cardinality(S)
  PROVE  \E T \in SUBSET S : Cardinality(T) = n
<1>1. Cardinality(S) \in Nat /\ ExistsBijection(1 .. Cardinality(S), S)
  BY FS_CardinalityType
<1>2. PICK f \in Bijection(1 .. Cardinality(S), S) : TRUE
  BY <1>1 DEF ExistsBijection
<1>3. f \in [1 .. Cardinality(S) -> S] /\ \A i, j \in 1 .. Cardinality(S) : f[i] = f[j] => i = j
  BY <1>2 DEF Bijection, Injection, IsInjective
<1> DEFINE T == {f[i] : i \in 1 .. n}
           g == [i \in 1 .. n |-> f[i]]
<1>4. 1 .. n \subseteq 1 .. Cardinality(S)
  BY <1>1
<1>5. T \in SUBSET S
  BY <1>3, <1>4
<1>6. g \in Bijection(1 .. n, T)
  BY <1>3, <1>4 DEF Bijection, Injection, Surjection, IsInjective
<1>7. Cardinality(T) = n
  BY <1>6, FS_CountingElements DEF ExistsBijection
<1> QED
  BY <1>5, <1>7

LEMMA NewRowsFresh ==
  ASSUME NEW n \in Nat, n <= Cardinality(Fresh)
  PROVE  NewRows(n) \subseteq Fresh
<1>1. IsFiniteSet(Fresh)
  BY RequestsAssumption, FS_Subset DEF Fresh
<1>2. \E new \in SUBSET Fresh : Cardinality(new) = n
  BY <1>1, SubsetOfSize
<1> QED
  BY <1>2 DEF NewRows

LEMMA FreshCounts ==
  /\ Cardinality(Fresh) \in Nat
  /\ Fresh # {} => 1 <= Cardinality(Fresh)
<1>1. IsFiniteSet(Fresh)
  BY RequestsAssumption, FS_Subset DEF Fresh
<1> QED
  BY <1>1, FS_CardinalityType, FS_EmptySet

LEMMA NewReqTyped == NewReq \in Requests
BY NothingWritten DEF NewReq, Requests, Positions, Locks

-----------------------------------------------------------------------------
(***************************************************************************)
(* The state a statement leaves its request in.                            *)
(***************************************************************************)
Fits(r, next) ==
  /\ next \in Requests /\ next.seen \subseteq committed
  /\ Control(next) /\ RowsFit(next)
  /\ next.pc \notin {"new", "audit"}
  /\ \A q \in Reqs \ {r} : /\ DOMAIN next.writes \cap DOMAIN req[q].writes = {}
                           /\ {next.lock, req[q].lock} \notin Conflict
  /\ next.lock = "update" => open
  /\ r \in committed => /\ next.pc = "done"
                        /\ next.op = req[r].op /\ next.tgt = req[r].tgt
                        /\ next.delta = req[r].delta /\ next.seen = req[r].seen

Moves(r, next) ==
  /\ req' = [req EXCEPT ![r] = next]
  /\ UNCHANGED <<row, open, balance, committed, applied>>

(***************************************************************************)
(* What the rows of a table that are no parts add up to.                   *)
(***************************************************************************)
TopLevel(table) ==
  [t \in Txns |-> IF table[t].st = "live" /\ table[t].parent = NoTxn THEN table[t].amt ELSE 0]

LEMMA TopLevelTyped ==
  ASSUME NEW table \in [Txns -> RowType(States)]
  PROVE  \A t \in Txns :
           TopLevel(table)[t] \in Int /\
           TopLevel(table)[t] = IF table[t].st = "live" /\ table[t].parent = NoTxn
                                THEN table[t].amt ELSE 0
BY DEF TopLevel, RowType

LEMMA TopLevelSumIs ==
  ASSUME NEW table \in [Txns -> RowType(States)]
  PROVE  TopLevelSum(table) = Total(TopLevel(table), Txns) /\ TopLevelSum(table) \in Int
<1> DEFINE S == {t \in Txns : table[t].st = "live" /\ table[t].parent = NoTxn}
           f == TopLevel(table)
           E(k) == k = [s \in SUBSET S |-> IF s = {} THEN 0
                          ELSE LET x == CHOOSE y \in s : TRUE IN table[x].amt + k[s \ {x}]]
           g == CHOOSE k : E(k)
<1>1. TopLevelSum(table) = g[S]
  BY DEF TopLevelSum, MapThenSumSet, MapThenFoldSet
<1>2. S \in SUBSET Txns /\ IsFiniteSet(S) /\ IsFiniteSet(Txns)
  BY FS_Subset, RequestsAssumption
<1>3. \A t \in Txns : f[t] \in Int
  BY TopLevelTyped
<1>4. \A t \in S : f[t] = table[t].amt
  BY TopLevelTyped
<1>5. \A t \in Txns \ S : f[t] = 0
  BY TopLevelTyped
<1> HIDE DEF S, f
<1>6. \A k : E(k) <=> Sums(k, f, S)
  <2>1. \A s \in SUBSET S : s # {} => f[Chosen(s)] = table[Chosen(s)].amt
    BY <1>4 DEF Chosen
  <2> QED
    BY <2>1 DEF Sums, Chosen
<1> HIDE DEF E
<1>7. E(g)
  BY <1>2, <1>6, SumsExist
<1>8. Sums(g, f, S)
  BY <1>6, <1>7
<1> HIDE DEF g
<1>9. g[S] = Total(f, S)
  BY <1>2, <1>8, TotalIs
<1>10. Total(f, Txns) = Total(f, S)
  BY <1>2, <1>3, <1>5, TotalOfSome
<1>11. Total(f, Txns) \in Int
  BY <1>2, <1>3, TotalFacts
<1> QED
  BY <1>1, <1>9, <1>10, <1>11 DEF f

LEMMA InitConsistent == Init => Consistent
<1> SUFFICES ASSUME Init PROVE Consistent
  OBVIOUS
<1>1. row \in Tables /\ balance = TopLevelSum(row)
  BY DEF Init
<1>2. row \in [Txns -> RowType(States)] /\ balance \in Int
  BY <1>1, RequestsAssumption, TopLevelSumIs DEF States
<1>3. TableFits
  BY <1>1, RequestsAssumption DEF TableFits
<1>4. \A r \in Reqs : req[r] = NewReq
  BY DEF Init
<1>5. Typed
  BY <1>2, NewReqTyped DEF Init, Typed, NewReq
<1>6. LocksExclusive
  <2>1. {"none", "none"} \notin Conflict
    BY LockTable DEF Locks
  <2>2. \A r \in Reqs : DOMAIN req[r].writes = {} /\ req[r].lock = "none"
    BY <1>4, NothingWritten DEF NewReq
  <2> QED
    BY <2>1, <2>2 DEF LocksExclusive
<1>7. Control(NewReq) /\ RowsFit(NewReq)
  BY NothingWritten DEF Control, Path, AllOps, OnRow, LockFits, RowsFit, TargetFits, InProgress, NewReq
<1>8. \A r \in Reqs : OutcomeFits(r)
  BY <1>4 DEF Init, OutcomeFits, NewReq
<1> QED
  BY <1>3, <1>4, <1>5, <1>6, <1>7, <1>8 DEF Consistent

LEMMA MoveKeepsConsistent ==
  ASSUME Consistent, NEW r \in Reqs, NEW next, Moves(r, next), Fits(r, next),
         audited' \subseteq committed,
         met' \in [Reqs -> SUBSET Reqs], \A q \in Reqs : q \notin met'[q]
  PROVE  Consistent'
<1>1. req'[r] = next /\ \A q \in Reqs \ {r} : req'[q] = req[q]
  BY DEF Consistent, Typed, Moves
<1>2. UNCHANGED <<row, open, balance, committed, applied>>
  BY DEF Moves
<1>3. Typed'
  BY <1>1, <1>2 DEF Consistent, Typed, Moves, Fits
<1>4. TableFits'
  BY <1>2 DEF Consistent, TableFits
<1>5. LocksExclusive'
  <2>1. \A q \in Reqs : req[q].lock \in Locks
    BY DEF Consistent, Typed, Requests
  <2>2. next.lock \in Locks
    BY DEF Fits, Requests
  <2>3. ASSUME NEW q \in Reqs \ {r}
        PROVE  {next.lock, req[q].lock} \notin Conflict /\ {req[q].lock, next.lock} \notin Conflict
    BY <2>1, <2>2, LockTable DEF Fits
  <2>4. \A p, q \in Reqs : p # q =>
          /\ DOMAIN req'[p].writes \cap DOMAIN req'[q].writes = {}
          /\ {req'[p].lock, req'[q].lock} \notin Conflict
    <3>1. LocksExclusive /\ \A q \in Reqs \ {r} : DOMAIN next.writes \cap DOMAIN req[q].writes = {}
      BY DEF Consistent, Fits
    <3>2. ASSUME NEW p \in Reqs, NEW q \in Reqs, p # q
          PROVE  /\ DOMAIN req'[p].writes \cap DOMAIN req'[q].writes = {}
                 /\ {req'[p].lock, req'[q].lock} \notin Conflict
      <4>1. CASE p = r
        BY <1>1, <2>3, <3>1, <3>2, <4>1
      <4>2. CASE q = r
        BY <1>1, <2>3, <3>1, <3>2, <4>2
      <4>3. CASE p # r /\ q # r
        BY <1>1, <3>1, <3>2, <4>3 DEF LocksExclusive
      <4> QED
        BY <4>1, <4>2, <4>3
    <3> QED
      BY <3>2
  <2>5. \A q \in Reqs : req'[q].lock = "update" => open'
    BY <1>1, <1>2 DEF Consistent, LocksExclusive, Fits
  <2> QED
    BY <2>4, <2>5 DEF LocksExclusive
<1>6. ASSUME NEW q \in Reqs
      PROVE  (Control(req[q]) /\ RowsFit(req[q]) /\ OutcomeFits(q))'
  <2>1. CASE q = r
    <3>1. Control(next)' /\ RowsFit(next)'
      BY <1>2 DEF Control, LockFits, RowsFit, TargetFits, RowFits, Fits
    <3>2. OutcomeFits(r)'
      BY <1>1, <1>2 DEF Consistent, OutcomeFits, Fits
    <3> QED
      BY <1>1, <2>1, <3>1, <3>2
  <2>2. CASE q # r
    <3>1. PICK w \in Requests : w = req[q]
      BY DEF Consistent, Typed
    <3>2. Control(w) /\ RowsFit(w) /\ OutcomeFits(q)
      BY <3>1 DEF Consistent
    <3>3. Control(w)' /\ RowsFit(w)'
      BY <1>2, <3>2 DEF Control, LockFits, RowsFit, TargetFits, RowFits
    <3>4. OutcomeFits(q)'
      BY <1>1, <1>2, <2>2, <3>2 DEF OutcomeFits
    <3> QED
      BY <1>1, <2>2, <3>1, <3>3, <3>4
  <2> QED
    BY <2>1, <2>2
<1> QED
  BY <1>3, <1>4, <1>5, <1>6 DEF Consistent

\* What Consistent says of the request that takes a step.
LEMMA AboutRequest ==
  ASSUME Consistent, NEW r \in Reqs, NEW w, w = req[r]
  PROVE  /\ w \in Requests /\ w.seen \subseteq committed
         /\ Control(w) /\ RowsFit(w)
         /\ w.op # "none" \/ w.pc = "new"
         /\ w.pc \notin {"audit", "done"} => r \notin committed
         /\ \A q \in Reqs \ {r} : /\ DOMAIN w.writes \cap DOMAIN req[q].writes = {}
                                  /\ {w.lock, req[q].lock} \notin Conflict
                                  /\ {"none", req[q].lock} \notin Conflict
         /\ w.lock = "update" => open
<1>1. w \in Requests /\ w.seen \subseteq committed /\ Control(w) /\ RowsFit(w) /\ OutcomeFits(r)
  BY DEF Consistent, Typed
<1>2. w.op # "none" \/ w.pc = "new"
  BY <1>1 DEF Control, Path
<1>3. w.pc \notin {"audit", "done"} => r \notin committed
  BY <1>1 DEF OutcomeFits
<1>4. \A q \in Reqs \ {r} : {"none", req[q].lock} \notin Conflict
  BY LockTable DEF Consistent, Typed, Requests, Locks
<1> QED
  BY <1>1, <1>2, <1>3, <1>4 DEF Consistent, LocksExclusive

LEMMA AbortedFits ==
  ASSUME Consistent, NEW r \in Reqs, Active(r)
  PROVE  Fits(r, Aborted(r))
<1>1. PICK w : w = req[r]
  OBVIOUS
<1>2. /\ w \in Requests /\ w.seen \subseteq committed /\ Control(w) /\ w.op # "none"
      /\ \A q \in Reqs \ {r} : {"none", req[q].lock} \notin Conflict
  BY <1>1, AboutRequest DEF Active
<1>3. PICK next : next = Aborted(r)
  OBVIOUS
<1>4. /\ next \in Requests /\ next.pc = "done" /\ next.op = w.op /\ next.tgt = w.tgt
      /\ next.amt = w.amt /\ next.delta = w.delta /\ next.seen = w.seen
      /\ next.writes = NoWrites /\ next.lock = "none" /\ next.todo = << >>
  <2>1. next = [w EXCEPT !.pc = "done", !.writes = NoWrites, !.lock = "none", !.todo = << >>]
    BY <1>1, <1>3 DEF Aborted
  <2>2. NoWrites \in Writings /\ << >> \in Seq(Txns) /\ "done" \in Positions /\ "none" \in Locks
    BY NothingWritten DEF Positions, Locks
  <2> QED
    BY <1>2, <2>1, <2>2 DEF Requests
<1>5. Control(next)
  BY <1>2, <1>4, NothingWritten DEF Control, Path, AllOps, LockFits, Requests
<1>6. RowsFit(next)
  BY <1>4, NothingWritten DEF RowsFit, TargetFits, InProgress
<1>7. Fits(r, next)
  BY <1>1, <1>2, <1>4, <1>5, <1>6, NothingWritten DEF Fits
<1> QED
  BY <1>3, <1>7

-----------------------------------------------------------------------------
(***************************************************************************)
(* What a request knows of the others: a posting or a deletion that has    *)
(* read the balance or the parts it will change.                           *)
(***************************************************************************)
Loaded(q) == q.op = "create" \/ (q.op \in {"update", "delete"} /\ q.pc # "account")

Child(c, p) == row[c].st = "live" /\ row[c].parent = p

\* A deletion that has asked for the parts of its row.
Spread(q) == q.op = "delete" /\ q.pc \in {"parts", "write", "lock", "commit"}

\* r, in state q, will delete c or has, or has met the split that made it.
Accounted(r, q, c) ==
  \/ \E i \in 1 .. Len(q.todo) : q.todo[i] = c
  \/ c \in DOMAIN q.writes
  \/ \E x \in committed \cap met[r] : req[x].op = "split" /\ req[x].tgt = q.tgt

Covered(r, q) == Spread(q) => \A c \in Txns : Child(c, q.tgt) => Accounted(r, q, c)

\* How a statement changes its request.
Follows(r, next) ==
  /\ next.op = req[r].op /\ next.tgt = req[r].tgt
  /\ next.seen \in {req[r].seen, applied}
  /\ Loaded(next) /\ InProgress(next) => Loaded(req[r]) \/ next.seen = applied
  /\ Covered(r, req[r]) => Covered(r, next)

Becomes(r) == \E next : Proceed(r, next) /\ Fits(r, next) /\ Follows(r, next)

LEMMA AbortBecomes ==
  ASSUME Consistent, NEW r \in Reqs, Active(r), Proceed(r, Aborted(r))
  PROVE  Becomes(r)
<1>1. PICK w : w = req[r]
  OBVIOUS
<1>2. w \in Requests
  BY <1>1, AboutRequest
<1>3. PICK next : next = Aborted(r)
  OBVIOUS
<1>4. next.pc = "done" /\ next.op = w.op /\ next.tgt = w.tgt /\ next.seen = w.seen
  BY <1>1, <1>2, <1>3 DEF Aborted, Requests
<1>5. Follows(r, next)
  BY <1>1, <1>4 DEF Follows, InProgress, Covered, Spread
<1> QED
  BY <1>3, <1>5, AbortedFits DEF Becomes

\* A request that fails or is chosen to break a cycle of waits is in progress.
LEMMA FailBecomes ==
  ASSUME Consistent, NEW r \in Reqs, Fail(r) \/ BreakDeadlock(r)
  PROVE  Active(r) /\ Becomes(r)
<1>1. CASE Fail(r)
  BY <1>1, AbortBecomes DEF Fail
<1>2. CASE BreakDeadlock(r)
  <2>1. InCycle(r) /\ Proceed(r, Aborted(r))
    BY <1>2, Zenon DEF BreakDeadlock
  <2>2. ~ Granted(r)
    BY <2>1, Zenon DEF InCycle
  <2>3. PICK q \in Reqs : Blocks(q, r)
    BY <2>2 DEF Granted
  <2>4. Active(r)
    <3>1. CASE RowsWanted(r) \cap DOMAIN req[q].writes # {}
      BY <3>1 DEF RowsWanted, Active
    <3>2. CASE {LockWanted(r), req[q].lock} \in Conflict
      <4>1. req[q].lock \in Locks
        BY DEF Consistent, Typed, Requests
      <4>2. LockWanted(r) # "none"
        BY <3>2, <4>1, LockTable DEF Locks
      <4> QED
        BY <4>2 DEF LockWanted, Active
    <3> QED
      BY <2>3, <3>1, <3>2 DEF Blocks
  <2> QED
    BY <2>1, <2>4, AbortBecomes
<1> QED
  BY <1>1, <1>2

LEMMA LoadAccountBecomes ==
  ASSUME Consistent, NEW r \in Reqs, LoadAccount(r)
  PROVE  Active(r) /\ Becomes(r)
<1>1. PICK w : w = req[r]
  OBVIOUS
<1>2. /\ w \in Requests /\ Control(w) /\ RowsFit(w) /\ w.pc = "account" /\ r \notin committed
      /\ \A q \in Reqs \ {r} : {w.lock, req[q].lock} \notin Conflict
  BY <1>1, AboutRequest DEF LoadAccount
<1>3. w.op \in {"update", "delete"} /\ DOMAIN w.writes = {} /\ w.lock = "none"
  BY <1>2 DEF Control, Path, LockFits, Requests
<1> DEFINE next == [w EXCEPT !.snap = balance, !.seen = applied,
                             !.pc = IF w.op = "delete" THEN "count" ELSE "write"]
<1>4. Proceed(r, next)
  BY <1>1 DEF LoadAccount
<1>5. /\ next \in Requests /\ next.pc = (IF w.op = "delete" THEN "count" ELSE "write")
      /\ next.op = w.op /\ next.tgt = w.tgt /\ next.amt = w.amt /\ next.delta = w.delta
      /\ next.writes = w.writes /\ next.lock = w.lock /\ next.todo = w.todo
      /\ next.seen = applied
  BY <1>2 DEF Requests, Positions, Consistent, Typed
<1> HIDE DEF next
<1>6. Control(next)
  BY <1>2, <1>3, <1>5 DEF Control, Path, AllOps, LockFits
<1>7. RowsFit(next)
  BY <1>2, <1>3, <1>5 DEF RowsFit, TargetFits, InProgress
<1>8. Fits(r, next)
  BY <1>2, <1>3, <1>5, <1>6, <1>7 DEF Fits, Consistent, Typed
<1>9. Follows(r, next)
  BY <1>1, <1>3, <1>5, <1>2 DEF Follows, Covered, Spread, Accounted, Child
<1> QED
  BY <1>1, <1>2, <1>4, <1>8, <1>9 DEF Becomes, Active

LEMMA CountPartsBecomes ==
  ASSUME Consistent, NEW r \in Reqs, CountParts(r)
  PROVE  Active(r) /\ Becomes(r)
<1>1. PICK w : w = req[r]
  OBVIOUS
<1>2. /\ w \in Requests /\ Control(w) /\ RowsFit(w) /\ w.pc = "count" /\ r \notin committed
      /\ \A q \in Reqs \ {r} : {w.lock, req[q].lock} \notin Conflict
      /\ w.seen \subseteq committed
  BY <1>1, AboutRequest DEF CountParts
<1>3. w.op \in {"delete", "join"} /\ DOMAIN w.writes = {} /\ w.lock = "none"
  BY <1>2 DEF Control, Path, LockFits, Requests, AllOps
<1>4. Active(r)
  BY <1>1, <1>2 DEF Active
<1>5. ASSUME NEW pc, \/ pc = "fetch"
                     \/ pc = "write" /\ w.op = "delete" /\ Parts(w.tgt) = {},
             Proceed(r, [w EXCEPT !.pc = pc])
      PROVE  Becomes(r)
  <2>1. PICK next : next = [w EXCEPT !.pc = pc]
    OBVIOUS
  <2>2. /\ next \in Requests /\ next.pc = pc
        /\ next.op = w.op /\ next.tgt = w.tgt /\ next.amt = w.amt /\ next.delta = w.delta
        /\ next.writes = w.writes /\ next.lock = w.lock /\ next.todo = w.todo
        /\ next.seen = w.seen
    BY <1>2, <1>5, <2>1 DEF Requests, Positions
  <2>3. Control(next)
    BY <1>2, <1>3, <1>5, <2>2 DEF Control, Path, AllOps, LockFits
  <2>4. RowsFit(next)
    BY <1>2, <1>3, <1>5, <2>2 DEF RowsFit, TargetFits, InProgress
  <2>5. Fits(r, next)
    BY <1>2, <1>3, <1>5, <2>2, <2>3, <2>4 DEF Fits
  <2>6. Covered(r, next)
    BY <1>5, <2>2 DEF Covered, Spread, Child, Parts
  <2>7. Follows(r, next)
    BY <1>1, <1>2, <1>3, <2>2, <2>6 DEF Follows, Loaded
  <2> QED
    BY <1>5, <2>1, <2>5, <2>7 DEF Becomes
<1>6. \/ Proceed(r, [w EXCEPT !.pc = "fetch"])
      \/ Parts(w.tgt) = {} /\ w.op = "delete" /\ Proceed(r, [w EXCEPT !.pc = "write"])
      \/ Proceed(r, Aborted(r))
  <2>1. PICK to : /\ Proceed(r, to)
                  /\ to = IF Parts(w.tgt) # {} THEN [w EXCEPT !.pc = "fetch"]
                          ELSE IF w.op = "delete" THEN [w EXCEPT !.pc = "write"]
                          ELSE Aborted(r)
    BY <1>1 DEF CountParts
  <2>2. \/ to = [w EXCEPT !.pc = "fetch"]
        \/ Parts(w.tgt) = {} /\ w.op = "delete" /\ to = [w EXCEPT !.pc = "write"]
        \/ to = Aborted(r)
    BY <2>1
  <2> QED
    BY <2>1, <2>2
<1> QED
  BY <1>4, <1>5, <1>6, AbortBecomes

LEMMA FetchPartsBecomes ==
  ASSUME Consistent, NEW r \in Reqs, FetchParts(r)
  PROVE  Active(r) /\ Becomes(r)
<1>1. PICK w : w = req[r]
  OBVIOUS
<1>2. /\ w \in Requests /\ Control(w) /\ RowsFit(w) /\ w.pc = "fetch" /\ r \notin committed
      /\ \A q \in Reqs \ {r} : {w.lock, req[q].lock} \notin Conflict
      /\ w.seen \subseteq committed
  BY <1>1, AboutRequest DEF FetchParts
<1>3. w.op \in {"delete", "join"} /\ DOMAIN w.writes = {} /\ w.lock = "none"
  BY <1>2 DEF Control, Path, LockFits, Requests, AllOps
<1> DEFINE S == Parts(w.tgt)
<1>0. PICK s \in SetToSeqs(S) :
          Proceed(r, [w EXCEPT !.todo = s, !.pc = IF s = << >> THEN AfterParts(r) ELSE "parts"])
  BY <1>1 DEF FetchParts
<1>4. PICK pc : /\ Proceed(r, [w EXCEPT !.todo = s, !.pc = pc])
                /\ pc = IF s = << >> THEN AfterParts(r) ELSE "parts"
  BY <1>0
<1>5. IsFiniteSet(S) /\ S \subseteq Txns
  BY RequestsAssumption, FS_Subset DEF Parts
<1>6. s \in Seq(S) /\ \A c \in S : \E i \in 1 .. Len(s) : s[i] = c
  BY <1>4, <1>5, OrderCoversSet
<1>7. s \in Seq(Txns) /\ \A i \in 1 .. Len(s) : row[s[i]].st # "absent" /\ row[s[i]].parent = w.tgt
  <2>1. \A i \in 1 .. Len(s) : s[i] \in S
    BY <1>6
  <2> QED
    BY <1>5, <1>6, <2>1 DEF Parts
<1>8. /\ pc = "parts" <=> s # << >>
      /\ pc = "parts" \/ (pc = "write" /\ w.op = "delete") \/ (pc = "commit" /\ w.op = "join")
  BY <1>1, <1>3, <1>4 DEF AfterParts
<1>9. PICK next : next = [w EXCEPT !.todo = s, !.pc = pc]
  OBVIOUS
<1>10. /\ next \in Requests /\ next.pc = pc
       /\ next.op = w.op /\ next.tgt = w.tgt /\ next.amt = w.amt /\ next.delta = w.delta
       /\ next.writes = w.writes /\ next.lock = w.lock /\ next.todo = s
       /\ next.seen = w.seen
  BY <1>2, <1>7, <1>8, <1>9 DEF Requests, Positions
<1>11. Control(next)
  BY <1>2, <1>3, <1>8, <1>10 DEF Control, Path, AllOps, LockFits
<1>12. RowsFit(next)
  BY <1>2, <1>3, <1>7, <1>10 DEF RowsFit, TargetFits, InProgress
<1>13. Fits(r, next)
  BY <1>2, <1>3, <1>8, <1>10, <1>11, <1>12 DEF Fits
<1>14. Covered(r, next)
  <2>1. \A c \in Txns : Child(c, w.tgt) => c \in S
    BY DEF Child, Parts
  <2> QED
    BY <1>6, <1>10, <2>1 DEF Covered, Accounted
<1>15. Follows(r, next)
  BY <1>1, <1>2, <1>3, <1>10, <1>14 DEF Follows, Loaded
<1> QED
  BY <1>1, <1>2, <1>4, <1>9, <1>13, <1>15 DEF Becomes, Active

LEMMA WritePartBecomes ==
  ASSUME Consistent, NEW r \in Reqs, WritePart(r)
  PROVE  Active(r) /\ Becomes(r)
<1>1. PICK w : w = req[r]
  OBVIOUS
<1>2. /\ w \in Requests /\ Control(w) /\ RowsFit(w) /\ w.pc = "parts" /\ r \notin committed
      /\ \A q \in Reqs \ {r} : /\ {w.lock, req[q].lock} \notin Conflict
                               /\ DOMAIN w.writes \cap DOMAIN req[q].writes = {}
      /\ w.seen \subseteq committed
  BY <1>1, AboutRequest DEF WritePart
<1>3. /\ w.op \in {"delete", "join"} /\ w.lock = "none" /\ w.tgt # NoTxn
      /\ w.todo \in Seq(Txns) /\ w.todo # << >>
  BY <1>2 DEF Control, Path, LockFits, Requests, AllOps, OnRow
<1>4. Active(r)
  BY <1>1, <1>2 DEF Active
<1>5. PICK c, rest, pc : /\ c = Head(w.todo) /\ rest = Tail(w.todo)
                         /\ pc = IF rest = << >> THEN AfterParts(r) ELSE "parts"
  OBVIOUS
<1>6. /\ c \in Txns /\ rest \in Seq(Txns)
      /\ row[c].st # "absent" /\ row[c].parent = w.tgt
      /\ \A i \in 1 .. Len(rest) : row[rest[i]].st # "absent" /\ row[rest[i]].parent = w.tgt
  <2>1. \E i \in 1 .. Len(w.todo) : w.todo[i] = c
    BY <1>3, <1>5
  <2> QED
    BY <1>2, <1>3, <1>5, <2>1, HeadOrTail DEF RowsFit
<1>7. \A d : (\E i \in 1 .. Len(w.todo) : w.todo[i] = d) =>
               d = c \/ \E i \in 1 .. Len(rest) : rest[i] = d
  BY <1>3, <1>5, HeadOrTail
<1>8. /\ pc = "parts" <=> rest # << >>
      /\ pc = "parts" \/ (pc = "write" /\ w.op = "delete") \/ (pc = "commit" /\ w.op = "join")
  BY <1>1, <1>3, <1>5 DEF AfterParts
<1>9. PICK st : st = IF w.op = "delete" THEN "deleted" ELSE "purged"
  OBVIOUS
<1>10. PICK rows : rows = IF row[c].st = "purged" THEN w.writes ELSE Written(r, c, [row[c] EXCEPT !.st = st])
  OBVIOUS
<1>11. \/ Proceed(r, Aborted(r))
       \/ \E snap \in Int, seen \in {w.seen, applied} :
            /\ w.op = "delete" => row[c].st # "purged"
            /\ Proceed(r, [w EXCEPT !.todo = rest, !.pc = pc, !.writes = rows, !.snap = snap, !.seen = seen])
  <2>1. CASE w.op = "join"
    <3>1. Proceed(r, [w EXCEPT !.todo = rest, !.pc = pc, !.writes = rows])
      BY <1>1, <1>2, <1>5, <1>9, <1>10, <2>1 DEF WritePart, Requests
    <3>2. [w EXCEPT !.todo = rest, !.pc = pc, !.writes = rows]
            = [w EXCEPT !.todo = rest, !.pc = pc, !.writes = rows, !.snap = w.snap, !.seen = w.seen]
      BY <1>2 DEF Requests
    <3>3. w.snap \in Int
      BY <1>2 DEF Requests
    <3> QED
      BY <2>1, <3>1, <3>2, <3>3
  <2>2. CASE w.op = "delete" /\ row[c].st = "purged"
    BY <1>1, <1>5, <2>2 DEF WritePart
  <2>3. CASE w.op = "delete" /\ row[c].st # "purged"
    <3>1. AfterRefresh(r, [w EXCEPT !.todo = rest, !.pc = pc, !.writes = rows])
      BY <1>1, <1>5, <1>9, <1>10, <2>3 DEF WritePart
    <3>2. w.snap \in Int /\ balance \in Int
      BY <1>2 DEF Requests, Consistent, Typed
    <3>3. PICK known \in {<<w.snap, w.seen>>, <<balance, applied>>} :
            Proceed(r, [w EXCEPT !.todo = rest, !.pc = pc, !.writes = rows, !.snap = known[1], !.seen = known[2]])
      BY <1>1, <3>1 DEF AfterRefresh
    <3>4. PICK snap, seen : snap = known[1] /\ seen = known[2]
      OBVIOUS
    <3>5. snap \in Int /\ seen \in {w.seen, applied}
      BY <3>2, <3>4
    <3> QED
      BY <2>3, <3>3, <3>4, <3>5
  <2> QED
    BY <1>3, <2>1, <2>2, <2>3
<1>12. ASSUME NEW snap \in Int, NEW seen \in {w.seen, applied},
              w.op = "delete" => row[c].st # "purged",
              Proceed(r, [w EXCEPT !.todo = rest, !.pc = pc, !.writes = rows, !.snap = snap, !.seen = seen])
       PROVE  Becomes(r)
  <2>1. /\ rows \in Writings /\ DOMAIN w.writes \subseteq DOMAIN rows
        /\ DOMAIN rows \subseteq DOMAIN w.writes \cup {c}
        /\ \A t \in DOMAIN rows : \/ /\ t = c /\ row[c].st # "purged"
                                     /\ rows[t] = [row[c] EXCEPT !.st = st]
                                  \/ t \in DOMAIN w.writes /\ rows[t] = w.writes[t]
        /\ row[c].st # "purged" => c \in DOMAIN rows
    <3>1. CASE row[c].st = "purged"
      BY <1>2, <1>10, <3>1 DEF Requests
    <3>2. CASE row[c].st # "purged"
      <4>1. [row[c] EXCEPT !.st = st] \in NewRowsOrChanged
        BY <1>6, <1>9 DEF Consistent, Typed, RowType, NewRowsOrChanged
      <4>2. PICK new \in NewRowsOrChanged : new = [row[c] EXCEPT !.st = st]
        BY <4>1
      <4>3. rows = Written(r, c, new) /\ Typed /\ c \in Txns
        BY <1>6, <1>10, <3>2, <4>2 DEF Consistent
      <4>4. /\ rows \in Writings /\ DOMAIN rows = DOMAIN req[r].writes \cup {c} /\ rows[c] = new
            /\ \A t \in DOMAIN req[r].writes \ {c} : rows[t] = req[r].writes[t]
        BY <4>3, WrittenTyped
      <4>5. ASSUME NEW t \in DOMAIN rows
            PROVE  \/ t = c /\ rows[t] = [row[c] EXCEPT !.st = st]
                   \/ t \in DOMAIN w.writes /\ rows[t] = w.writes[t]
        <5>1. CASE t = c
          BY <4>2, <4>4, <5>1
        <5>2. CASE t # c
          BY <1>1, <4>4, <5>2
        <5> QED
          BY <5>1, <5>2
      <4>6. rows \in Writings /\ DOMAIN rows = DOMAIN w.writes \cup {c}
        BY <1>1, <4>4
      <4> QED
        BY <3>2, <4>5, <4>6
    <3> QED
      BY <3>1, <3>2
  <2>2. PICK next : next = [w EXCEPT !.todo = rest, !.pc = pc, !.writes = rows, !.snap = snap, !.seen = seen]
    OBVIOUS
  <2>3. /\ next \in Requests /\ next.pc = pc
        /\ next.op = w.op /\ next.tgt = w.tgt /\ next.amt = w.amt /\ next.delta = w.delta
        /\ next.writes = rows /\ next.lock = w.lock /\ next.todo = rest
        /\ next.seen = seen
    BY <1>2, <1>6, <1>8, <2>1, <2>2 DEF Requests, Positions, Consistent, Typed
  <2>4. Control(next)
    BY <1>2, <1>3, <1>8, <2>3 DEF Control, Path, AllOps, LockFits
  <2>5. \A t \in DOMAIN w.writes : RowFits(w, t)
    BY <1>2 DEF RowsFit
  <2>6. ASSUME NEW t \in DOMAIN rows
        PROVE  RowFits(next, t)
    <3>1. CASE t = c /\ row[c].st # "purged" /\ rows[t] = [row[c] EXCEPT !.st = st]
      <4>1. row[c].st \in {"live", "deleted"}
        BY <1>6, <3>1 DEF Consistent, Typed, RowType, States
      <4> QED
        BY <1>3, <1>6, <1>9, <2>3, <3>1, <4>1 DEF RowFits
    <3>2. CASE t \in DOMAIN w.writes /\ rows[t] = w.writes[t]
      BY <1>3, <2>3, <2>5, <3>2 DEF RowFits
    <3> QED
      BY <2>1, <3>1, <3>2
  <2>7. RowsFit(next)
    BY <1>2, <1>6, <2>3, <2>6 DEF RowsFit, TargetFits, InProgress
  <2>8. \A q \in Reqs \ {r} : DOMAIN next.writes \cap DOMAIN req[q].writes = {}
    <3>1. \A q \in Reqs \ {r} : c \notin DOMAIN req[q].writes
      BY <1>1, <1>2, <1>5 DEF WritePart, Granted, Blocks, RowsWanted
    <3> QED
      BY <1>2, <2>1, <2>3, <3>1
  <2>9. Fits(r, next)
    BY <1>2, <1>3, <1>8, <2>3, <2>4, <2>7, <2>8 DEF Fits, Consistent, Typed
  <2>10. ASSUME Covered(r, w)
         PROVE  Covered(r, next)
    <3> SUFFICES ASSUME Spread(next), NEW d \in Txns, Child(d, next.tgt)
                 PROVE  Accounted(r, next, d)
      BY DEF Covered
    <3>1. Accounted(r, w, d)
      BY <1>2, <2>3, <2>10 DEF Covered, Spread
    <3>2. row[c].st # "purged"
      BY <1>12, <2>3 DEF Spread
    <3> QED
      BY <1>7, <2>1, <2>3, <3>1, <3>2 DEF Accounted
  <2>11. Follows(r, next)
    BY <1>1, <1>2, <1>3, <1>12, <2>3, <2>10 DEF Follows, Loaded
  <2> QED
    BY <1>12, <2>2, <2>9, <2>11 DEF Becomes
<1> QED
  BY <1>4, <1>11, <1>12, AbortBecomes

\* What a refresh leaves a request with.
LEMMA RefreshCases ==
  ASSUME Consistent, NEW r \in Reqs, NEW next, AfterRefresh(r, next)
  PROVE  \E snap \in Int, seen \in {req[r].seen, applied} :
           Proceed(r, [next EXCEPT !.snap = snap, !.seen = seen])
<1>1. req[r].snap \in Int /\ balance \in Int
  BY DEF Consistent, Typed, Requests
<1>2. PICK known \in {<<req[r].snap, req[r].seen>>, <<balance, applied>>} :
        Proceed(r, [next EXCEPT !.snap = known[1], !.seen = known[2]])
  BY DEF AfterRefresh
<1>3. PICK snap, seen : snap = known[1] /\ seen = known[2]
  OBVIOUS
<1>4. snap \in Int /\ seen \in {req[r].seen, applied}
  BY <1>1, <1>3
<1> QED
  BY <1>2, <1>3, <1>4

LEMMA WrittenCases ==
  ASSUME Typed, NEW r \in Reqs, NEW t \in Txns, NEW new \in NewRowsOrChanged,
         NEW rows, rows = Written(r, t, new), NEW w, w = req[r]
  PROVE  /\ rows \in Writings
         /\ DOMAIN rows = DOMAIN w.writes \cup {t}
         /\ \A c \in DOMAIN rows : \/ c = t /\ rows[c] = new
                                   \/ c \in DOMAIN w.writes /\ rows[c] = w.writes[c]
<1>1. /\ rows \in Writings /\ DOMAIN rows = DOMAIN req[r].writes \cup {t} /\ rows[t] = new
      /\ \A c \in DOMAIN req[r].writes \ {t} : rows[c] = req[r].writes[c]
  BY WrittenTyped
<1>2. ASSUME NEW c \in DOMAIN rows
      PROVE  \/ c = t /\ rows[c] = new
             \/ c \in DOMAIN w.writes /\ rows[c] = w.writes[c]
  <2>1. CASE c = t
    BY <1>1, <2>1
  <2>2. CASE c # t
    BY <1>1, <2>2
  <2> QED
    BY <2>1, <2>2
<1> QED
  BY <1>1, <1>2

LEMMA WriteRowBecomes ==
  ASSUME Consistent, NEW r \in Reqs, WriteRow(r)
  PROVE  Active(r) /\ Becomes(r)
<1>1. PICK w : w = req[r]
  OBVIOUS
<1>2. /\ w \in Requests /\ Control(w) /\ RowsFit(w) /\ w.pc = "write" /\ r \notin committed
      /\ \A q \in Reqs \ {r} : /\ {w.lock, req[q].lock} \notin Conflict
                               /\ DOMAIN w.writes \cap DOMAIN req[q].writes = {}
      /\ w.seen \subseteq committed
  BY <1>1, AboutRequest DEF WriteRow
<1>3. /\ w.op \in {"update", "delete"} /\ w.lock = "none" /\ w.todo = << >>
      /\ w.op = "update" => DOMAIN w.writes = {} /\ w.amt # 0
  BY <1>2 DEF Control, Path, LockFits, Requests, AllOps
<1>4. Active(r)
  BY <1>1, <1>2 DEF Active
<1>5. PICK t : t = w.tgt
  OBVIOUS
<1>6. t \in Txns /\ row[t].st \in States \ {"absent"} /\ row[t].amt \in Int \ {0}
      /\ row[t] \in RowType(States)
  BY <1>2, <1>3, <1>5 DEF Control, OnRow, Requests, RowsFit, TargetFits, InProgress, RowType,
                          Consistent, Typed, TableFits
<1>7. PICK old \in RowType(States) : old = row[t]
  BY <1>6
<1>8. PICK delta : delta = IF w.op = "delete" THEN - old.amt ELSE w.amt - w.old
  OBVIOUS
<1>9. PICK new : new = IF w.op = "delete" THEN [old EXCEPT !.st = "deleted"]
                       ELSE IF w.amt # w.old THEN [old EXCEPT !.amt = w.amt]
                       ELSE old
  OBVIOUS
<1>10. delta = Delta(r, t) /\ new = Change(r, t)
  BY <1>1, <1>7, <1>8, <1>9 DEF Delta, Change
<1>11. PICK pc : pc = IF delta = 0 THEN "commit" ELSE "lock"
  OBVIOUS
<1>12. PICK rows : rows = Written(r, t, new)
  OBVIOUS
<1>13. \/ Proceed(r, Aborted(r))
       \/ /\ row[t].st # "purged"
          /\ AfterRefresh(r, [w EXCEPT !.writes = rows, !.delta = delta, !.pc = pc])
  BY <1>1, <1>5, <1>10, <1>11, <1>12 DEF WriteRow
<1>14. ASSUME row[t].st # "purged", NEW snap \in Int, NEW seen \in {w.seen, applied},
              Proceed(r, [w EXCEPT !.writes = rows, !.delta = delta, !.pc = pc,
                                   !.snap = snap, !.seen = seen])
       PROVE  Becomes(r)
  <2>1. /\ old.st \in {"live", "deleted"} /\ old.amt \in Int \ {0}
        /\ w.amt \in Int /\ w.old \in Int
    BY <1>2, <1>6, <1>7, <1>14 DEF States, Requests
  <2>2. new \in NewRowsOrChanged
    BY <1>7, <1>9, <2>1 DEF NewRowsOrChanged, RowType
  <2>3. /\ delta \in Int
        /\ w.op = "delete" => delta # 0
        /\ w.op = "update" => (delta = 0 <=> w.amt = w.old)
    BY <1>3, <1>8, <2>1
  <2>4. /\ rows \in Writings
        /\ DOMAIN rows = DOMAIN w.writes \cup {t}
        /\ \A c \in DOMAIN rows : \/ c = t /\ rows[c] = new
                                  \/ c \in DOMAIN w.writes /\ rows[c] = w.writes[c]
    BY <1>1, <1>6, <1>12, <2>2, WrittenCases DEF Consistent
  <2>5. PICK next : next = [w EXCEPT !.writes = rows, !.delta = delta, !.pc = pc,
                                     !.snap = snap, !.seen = seen]
    OBVIOUS
  <2>6. /\ next \in Requests /\ next.pc = pc
        /\ next.op = w.op /\ next.tgt = w.tgt /\ next.amt = w.amt /\ next.delta = delta
        /\ next.writes = rows /\ next.lock = w.lock /\ next.todo = w.todo
        /\ next.seen = seen
    BY <1>2, <1>11, <1>14, <2>3, <2>4, <2>5 DEF Requests, Positions, Consistent, Typed
  <2>7. Control(next)
    BY <1>2, <1>3, <1>11, <2>3, <2>6 DEF Control, Path, AllOps, LockFits
  <2>8. \A c \in DOMAIN w.writes : RowFits(w, c)
    BY <1>2 DEF RowsFit
  <2>9. ASSUME NEW c \in DOMAIN rows
        PROVE  RowFits(next, c)
    <3>1. CASE c = t /\ rows[c] = new
      <4>1. CASE w.op = "delete"
        BY <1>5, <1>7, <1>9, <2>1, <2>6, <3>1, <4>1 DEF RowFits
      <4>2. CASE w.op = "update"
        <5>1. new.st = old.st /\ new.parent = old.parent /\ new.amt # 0 /\ (delta = 0 => new = old)
          BY <1>3, <1>7, <1>9, <2>1, <2>3, <4>2 DEF RowType
        <5> QED
          BY <1>5, <1>7, <2>1, <2>6, <3>1, <4>2, <5>1 DEF RowFits
      <4> QED
        BY <1>3, <4>1, <4>2
    <3>2. CASE c \in DOMAIN w.writes /\ rows[c] = w.writes[c]
      BY <1>3, <2>6, <2>8, <3>2 DEF RowFits
    <3> QED
      BY <2>4, <3>1, <3>2
  <2>10. RowsFit(next)
    BY <1>2, <1>3, <2>6, <2>9 DEF RowsFit, TargetFits, InProgress
  <2>11. \A q \in Reqs \ {r} : DOMAIN next.writes \cap DOMAIN req[q].writes = {}
    <3>1. \A q \in Reqs \ {r} : t \notin DOMAIN req[q].writes
      BY <1>1, <1>2, <1>5 DEF WriteRow, Granted, Blocks, RowsWanted
    <3> QED
      BY <1>2, <2>4, <2>6, <3>1
  <2>12. Fits(r, next)
    BY <1>2, <1>3, <2>6, <2>7, <1>11, <2>10, <2>11 DEF Fits, Consistent, Typed
  <2>13. Covered(r, w) => Covered(r, next)
    BY <1>2, <2>4, <2>6 DEF Covered, Spread, Accounted
  <2>14. Follows(r, next)
    BY <1>1, <1>2, <1>3, <2>6, <2>13 DEF Follows, Loaded
  <2> QED
    BY <1>14, <2>5, <2>12, <2>14 DEF Becomes
<1>15. CASE row[t].st # "purged" /\ AfterRefresh(r, [w EXCEPT !.writes = rows, !.delta = delta, !.pc = pc])
  <2>1. PICK snap \in Int, seen \in {w.seen, applied} :
          Proceed(r, [[w EXCEPT !.writes = rows, !.delta = delta, !.pc = pc]
                        EXCEPT !.snap = snap, !.seen = seen])
    BY <1>1, <1>15, RefreshCases
  <2>2. [[w EXCEPT !.writes = rows, !.delta = delta, !.pc = pc] EXCEPT !.snap = snap, !.seen = seen]
          = [w EXCEPT !.writes = rows, !.delta = delta, !.pc = pc, !.snap = snap, !.seen = seen]
    OBVIOUS
  <2> QED
    BY <1>4, <1>14, <1>15, <2>1, <2>2
<1>16. CASE Proceed(r, Aborted(r))
  BY <1>4, <1>16, AbortBecomes
<1> QED
  BY <1>4, <1>13, <1>15, <1>16

LEMMA InsertRowBecomes ==
  ASSUME Consistent, NEW r \in Reqs, InsertRow(r)
  PROVE  Active(r) /\ Becomes(r)
<1>1. PICK w : w = req[r]
  OBVIOUS
<1>2. /\ w \in Requests /\ Control(w) /\ RowsFit(w) /\ w.pc = "insert" /\ r \notin committed
      /\ w.op = "create" /\ w.seen \subseteq committed
  BY <1>1, AboutRequest DEF InsertRow
<1>3. /\ w.lock = "none" /\ w.todo = << >> /\ DOMAIN w.writes = {} /\ w.tgt = NoTxn
      /\ w.amt \in Int \ {0} /\ w.delta = w.amt
  BY <1>2 DEF Control, Path, LockFits, Requests, AllOps, OnRow
<1>4. Active(r)
  BY <1>1, <1>2 DEF Active
<1>5. PICK t \in Fresh : AfterRefresh(r, [w EXCEPT !.writes = Written(r, t, Row(w.amt, NoTxn)),
                                                   !.lock = "keyshare", !.pc = "lock"])
  BY <1>1, NewRowsFresh, FreshCounts DEF InsertRow
<1>6. t \in Txns /\ row[t].st = "absent" /\ \A q \in Reqs : t \notin DOMAIN req[q].writes
  BY <1>5 DEF Fresh
<1>7. PICK new : new = Row(w.amt, NoTxn)
  OBVIOUS
<1>8. /\ new \in NewRowsOrChanged
      /\ new.st = "live" /\ new.amt = w.amt /\ new.parent = NoTxn
  BY <1>3, <1>7 DEF Row, NewRowsOrChanged, RowType
<1>9. PICK rows : rows = Written(r, t, new)
  OBVIOUS
<1>10. /\ rows \in Writings /\ DOMAIN rows = {t}
       /\ rows[t] = new
  <2>1. /\ rows \in Writings /\ DOMAIN rows = DOMAIN w.writes \cup {t}
        /\ \A c \in DOMAIN rows : \/ c = t /\ rows[c] = new
                                  \/ c \in DOMAIN w.writes /\ rows[c] = w.writes[c]
    BY <1>1, <1>6, <1>8, <1>9, WrittenCases DEF Consistent
  <2> QED
    BY <1>3, <2>1
<1>11. PICK snap \in Int, seen \in {w.seen, applied} :
         Proceed(r, [[w EXCEPT !.writes = rows, !.lock = "keyshare", !.pc = "lock"]
                       EXCEPT !.snap = snap, !.seen = seen])
  BY <1>1, <1>5, <1>7, <1>9, RefreshCases
<1>12. PICK next : next = [[w EXCEPT !.writes = rows, !.lock = "keyshare", !.pc = "lock"]
                             EXCEPT !.snap = snap, !.seen = seen]
  OBVIOUS
<1>13. /\ next \in Requests /\ next.pc = "lock"
       /\ next.op = w.op /\ next.tgt = w.tgt /\ next.amt = w.amt /\ next.delta = w.delta
       /\ next.writes = rows /\ next.lock = "keyshare" /\ next.todo = w.todo
       /\ next.seen = seen
  BY <1>2, <1>10, <1>11, <1>12 DEF Requests, Positions, Locks, Consistent, Typed
<1>14. Control(next)
  BY <1>2, <1>3, <1>13 DEF Control, Path, AllOps, LockFits
<1>15. RowsFit(next)
  BY <1>2, <1>3, <1>6, <1>8, <1>10, <1>13 DEF RowsFit, RowFits, TargetFits, InProgress
<1>16. \A q \in Reqs \ {r} : {"keyshare", req[q].lock} \notin Conflict
  BY <1>1, <1>2 DEF InsertRow, Granted, Blocks, LockWanted
<1>17. Fits(r, next)
  BY <1>2, <1>6, <1>10, <1>13, <1>14, <1>15, <1>16 DEF Fits, Consistent, Typed
<1>18. Follows(r, next)
  BY <1>1, <1>2, <1>13 DEF Follows, Loaded, Covered, Spread
<1> QED
  BY <1>4, <1>11, <1>12, <1>17, <1>18 DEF Becomes

LEMMA InsertPartsBecomes ==
  ASSUME Consistent, NEW r \in Reqs, InsertParts(r)
  PROVE  Active(r) /\ Becomes(r)
<1>1. PICK w : w = req[r]
  OBVIOUS
<1>2. /\ w \in Requests /\ Control(w) /\ RowsFit(w) /\ w.pc = "insert" /\ r \notin committed
      /\ w.op = "split" /\ w.seen \subseteq committed
  BY <1>1, AboutRequest DEF InsertParts
<1>3. w.lock = "none" /\ w.todo = << >> /\ w.tgt \in Txns
  BY <1>2 DEF Control, Path, LockFits, Requests, AllOps, OnRow
<1>4. Active(r)
  BY <1>1, <1>2 DEF Active
<1>0. PICK n \in 2 .. Cardinality(Fresh) : \E amounts \in [NewRows(n) -> Amounts] :
        Proceed(r, [w EXCEPT !.writes = [c \in NewRows(n) |-> Row(amounts[c], w.tgt)],
                             !.lock = "keyshare", !.pc = "commit"])
  BY <1>1 DEF InsertParts
<1>5. PICK amounts \in [NewRows(n) -> Amounts] :
        Proceed(r, [w EXCEPT !.writes = [c \in NewRows(n) |-> Row(amounts[c], w.tgt)],
                             !.lock = "keyshare", !.pc = "commit"])
  BY <1>0
<1>6. PICK ts : ts = NewRows(n)
  OBVIOUS
<1>7. ts \subseteq Fresh
  BY <1>5, <1>6, FreshCounts, NewRowsFresh
<1>8. \A c \in ts : /\ c \in Txns /\ row[c].st = "absent" /\ amounts[c] \in Int \ {0}
                    /\ \A q \in Reqs : c \notin DOMAIN req[q].writes
  BY <1>5, <1>6, <1>7, RequestsAssumption DEF Fresh
<1>9. PICK rows : rows = [c \in ts |-> Row(amounts[c], w.tgt)]
  OBVIOUS
<1>10. /\ rows \in Writings /\ DOMAIN rows = ts
       /\ \A c \in ts : rows[c].st = "live" /\ rows[c].amt # 0 /\ rows[c].parent = w.tgt
  <2>1. ASSUME NEW c \in ts
        PROVE  /\ Row(amounts[c], w.tgt) \in NewRowsOrChanged
               /\ rows[c] = Row(amounts[c], w.tgt)
               /\ rows[c].st = "live" /\ rows[c].amt # 0 /\ rows[c].parent = w.tgt
    BY <1>3, <1>8, <1>9, <2>1 DEF Row, NewRowsOrChanged, RowType
  <2>2. ts \in SUBSET Txns /\ rows \in [ts -> NewRowsOrChanged]
    BY <1>8, <1>9, <2>1
  <2>3. rows \in Writings
    BY <2>2, FunctionsAreWritings
  <2> QED
    BY <1>9, <2>1, <2>3
<1>11. PICK next : next = [w EXCEPT !.writes = rows, !.lock = "keyshare", !.pc = "commit"]
  OBVIOUS
<1>12. /\ next \in Requests /\ next.pc = "commit"
       /\ next.op = w.op /\ next.tgt = w.tgt /\ next.amt = w.amt /\ next.delta = w.delta
       /\ next.writes = rows /\ next.lock = "keyshare" /\ next.todo = w.todo
       /\ next.seen = w.seen
  BY <1>2, <1>10, <1>11 DEF Requests, Positions, Locks
<1>13. Control(next)
  BY <1>2, <1>3, <1>12 DEF Control, Path, AllOps, LockFits
<1>14. RowsFit(next)
  BY <1>2, <1>3, <1>8, <1>10, <1>12 DEF RowsFit, RowFits, TargetFits, InProgress
<1>15. \A q \in Reqs \ {r} : {"keyshare", req[q].lock} \notin Conflict
  BY <1>1, <1>2 DEF InsertParts, Granted, Blocks, LockWanted
<1>16. Fits(r, next)
  BY <1>2, <1>8, <1>10, <1>12, <1>13, <1>14, <1>15 DEF Fits
<1>17. Follows(r, next)
  BY <1>1, <1>2, <1>12 DEF Follows, Loaded, Covered, Spread
<1>18. Proceed(r, next)
  BY <1>5, <1>6, <1>9, <1>11
<1> QED
  BY <1>4, <1>16, <1>17, <1>18 DEF Becomes

LEMMA LockAccountBecomes ==
  ASSUME Consistent, NEW r \in Reqs, LockAccount(r)
  PROVE  Active(r) /\ Becomes(r)
<1>1. PICK w : w = req[r]
  OBVIOUS
<1>2. /\ w \in Requests /\ Control(w) /\ RowsFit(w) /\ w.pc = "lock" /\ r \notin committed
      /\ \A q \in Reqs \ {r} : DOMAIN w.writes \cap DOMAIN req[q].writes = {}
      /\ w.seen \subseteq committed
  BY <1>1, AboutRequest DEF LockAccount
<1>3. w.op \in Posting /\ w.delta # 0 /\ w.todo = << >>
  BY <1>2 DEF Control, Path, LockFits, Requests, AllOps, Posting
<1>4. Active(r)
  BY <1>1, <1>2 DEF Active
<1>5. CASE open
  <2>1. PICK next : next = [w EXCEPT !.lock = "update", !.pc = "commit"]
    OBVIOUS
  <2>2. Proceed(r, next)
    BY <1>1, <1>5, <2>1 DEF LockAccount
  <2>3. /\ next \in Requests /\ next.pc = "commit"
        /\ next.op = w.op /\ next.tgt = w.tgt /\ next.amt = w.amt /\ next.delta = w.delta
        /\ next.writes = w.writes /\ next.lock = "update" /\ next.todo = w.todo
        /\ next.seen = w.seen
    BY <1>2, <2>1 DEF Requests, Positions, Locks
  <2>4. Control(next)
    BY <1>2, <1>3, <2>3 DEF Control, Path, AllOps, LockFits, Posting
  <2>5. RowsFit(next)
    <3>1. ASSUME NEW t \in DOMAIN w.writes
          PROVE  RowFits(next, t)
      <4>1. RowFits(w, t)
        BY <1>2 DEF RowsFit
      <4> QED
        BY <1>3, <2>3, <4>1 DEF RowFits, Posting
    <3> QED
      BY <1>2, <1>3, <2>3, <3>1 DEF RowsFit, TargetFits, InProgress
  <2>6. \A q \in Reqs \ {r} : {"update", req[q].lock} \notin Conflict
    BY <1>1, <1>2, <1>5 DEF LockAccount, Granted, Blocks, LockWanted
  <2>7. Fits(r, next)
    BY <1>2, <1>5, <2>3, <2>4, <2>5, <2>6 DEF Fits
  <2>8. Follows(r, next)
    BY <1>1, <1>2, <1>3, <2>3 DEF Follows, Loaded, Covered, Spread, Accounted
  <2> QED
    BY <1>4, <2>2, <2>7, <2>8 DEF Becomes
<1>6. CASE ~ open
  <2>1. Proceed(r, Aborted(r))
    BY <1>6 DEF LockAccount
  <2> QED
    BY <1>4, <2>1, AbortBecomes
<1> QED
  BY <1>5, <1>6

LEMMA CloseAccountBecomes ==
  ASSUME Consistent, NEW r \in Reqs, CloseAccount(r)
  PROVE  Active(r) /\ Becomes(r)
<1>1. PICK w : w = req[r]
  OBVIOUS
<1>2. /\ w \in Requests /\ Control(w) /\ RowsFit(w) /\ w.pc = "close" /\ r \notin committed
      /\ w.seen \subseteq committed
  BY <1>1, AboutRequest DEF CloseAccount
<1>3. w.op = "close" /\ w.todo = << >> /\ DOMAIN w.writes = {} /\ w.tgt = NoTxn
  BY <1>2 DEF Control, Path, LockFits, Requests, AllOps, OnRow
<1>4. PICK next : next = [w EXCEPT !.lock = "nokey", !.pc = "commit"]
  OBVIOUS
<1>5. Proceed(r, next)
  BY <1>1, <1>4 DEF CloseAccount
<1>6. /\ next \in Requests /\ next.pc = "commit"
      /\ next.op = w.op /\ next.tgt = w.tgt /\ next.amt = w.amt /\ next.delta = w.delta
      /\ next.writes = w.writes /\ next.lock = "nokey" /\ next.todo = w.todo
      /\ next.seen = w.seen
  BY <1>2, <1>4 DEF Requests, Positions, Locks
<1>7. Control(next)
  BY <1>2, <1>3, <1>6 DEF Control, Path, AllOps, LockFits, OnRow
<1>8. RowsFit(next)
  BY <1>2, <1>3, <1>6 DEF RowsFit, TargetFits, InProgress
<1>9. \A q \in Reqs \ {r} : {"nokey", req[q].lock} \notin Conflict
  BY <1>1, <1>2 DEF CloseAccount, Granted, Blocks, LockWanted
<1>10. Fits(r, next)
  BY <1>2, <1>3, <1>6, <1>7, <1>8, <1>9 DEF Fits
<1>11. Follows(r, next)
  BY <1>1, <1>3, <1>6 DEF Follows, Loaded, Covered, Spread
<1>12. Active(r)
  BY <1>1, <1>2 DEF Active
<1> QED
  BY <1>5, <1>10, <1>11, <1>12 DEF Becomes

\* Whatever statement a request executes, it is in progress and goes on as its
\* operation allows.
LEMMA StatementBecomes ==
  ASSUME Consistent, NEW r \in Reqs, Statement(r)
  PROVE  Active(r) /\ Becomes(r)
<1>1. CASE RejectParts(r)
  BY <1>1, AbortBecomes DEF RejectParts, Active
<1>2. CASE Fail(r) \/ BreakDeadlock(r)
  BY <1>2, FailBecomes
<1>3. CASE LoadAccount(r) \/ CountParts(r) \/ FetchParts(r)
  BY <1>3, LoadAccountBecomes, CountPartsBecomes, FetchPartsBecomes
<1>4. CASE WritePart(r) \/ WriteRow(r)
  BY <1>4, WritePartBecomes, WriteRowBecomes
<1>5. CASE InsertRow(r) \/ InsertParts(r)
  BY <1>5, InsertRowBecomes, InsertPartsBecomes
<1>6. CASE LockAccount(r) \/ CloseAccount(r)
  BY <1>6, LockAccountBecomes, CloseAccountBecomes
<1> QED
  BY <1>1, <1>2, <1>3, <1>4, <1>5, <1>6 DEF Statement

-----------------------------------------------------------------------------
(***************************************************************************)
(* How a request begins.                                                   *)
(***************************************************************************)
Starts(next) ==
  InProgress(next) =>
    /\ next.pc \in {"insert", "account", "count", "close"}
    /\ next.op = "split" => row[next.tgt].st = "live"
    /\ Loaded(next) => next.seen = applied

Arrives(r) == \E next : Arrive(r, next) /\ Fits(r, next) /\ Starts(next)

LEMMA ArrivalFits ==
  ASSUME Consistent, NEW r \in Reqs, req[r].pc = "new", NEW next \in Requests,
         next.seen \subseteq committed, next.pc \notin {"new", "audit"},
         DOMAIN next.writes = {}, next.lock = "none", next.todo = << >>,
         Control(next), TargetFits(next)
  PROVE  Fits(r, next)
<1>1. r \notin committed /\ \A q \in Reqs \ {r} : {"none", req[q].lock} \notin Conflict
  BY AboutRequest
<1>2. RowsFit(next)
  BY DEF RowsFit
<1> QED
  BY <1>1, <1>2 DEF Fits

LEMMA CreateArrives ==
  ASSUME Consistent, NEW r \in Reqs, NEW m \in Amounts, BeginCreate(r, m)
  PROVE  Arrives(r)
<1>1. m \in Int \ {0}
  BY RequestsAssumption
<1>2. PICK next : next = [NewReq EXCEPT !.op = "create", !.amt = m, !.delta = m,
                                        !.snap = balance, !.seen = applied,
                                        !.pc = IF open THEN "insert" ELSE "done"]
  OBVIOUS
<1>3. Arrive(r, next) /\ req[r].pc = "new"
  BY <1>2 DEF BeginCreate, Arrive
<1>4. NewReq \in Requests /\ balance \in Int /\ applied \subseteq committed /\ committed \subseteq Reqs
  BY NewReqTyped DEF Consistent, Typed
<1>5. /\ next \in Requests /\ next.pc \in {"insert", "done"} /\ next.op = "create"
      /\ next.amt = m /\ next.delta = m /\ next.seen = applied
      /\ next.tgt = NoTxn /\ next.todo = << >> /\ next.writes = NoWrites /\ next.lock = "none"
  BY <1>1, <1>2, <1>4 DEF Requests, Positions, AllOps, NewReq
<1>6. Control(next)
  BY <1>1, <1>5, NothingWritten DEF Control, Path, AllOps, LockFits, OnRow
<1>7. TargetFits(next) /\ Starts(next)
  BY <1>5 DEF TargetFits, Starts, InProgress
<1> QED
  BY <1>3, <1>4, <1>5, <1>6, <1>7, NothingWritten, ArrivalFits DEF Arrives

LEMMA OnRowArrives ==
  ASSUME Consistent, NEW r \in Reqs, NEW op \in OnRow, NEW t \in Txns, NEW m \in Int,
         op = "update" => m # 0, BeginOnRow(r, op, t, m)
  PROVE  Arrives(r)
<1>1. PICK pc : pc = IF ~ Found(t) THEN "done"
                     ELSE IF op \in {"update", "delete"} THEN "account"
                     ELSE IF op = "join" THEN "count"
                     ELSE IF row[t].parent = NoTxn THEN "insert" ELSE "done"
  OBVIOUS
<1>2. PICK next : next = [NewReq EXCEPT !.op = op, !.tgt = t, !.amt = m, !.old = row[t].amt, !.pc = pc]
  OBVIOUS
<1>3. Arrive(r, next) /\ req[r].pc = "new"
  BY <1>1, <1>2 DEF BeginOnRow, Arrive
<1>4. NewReq \in Requests /\ row[t].amt \in Int /\ t # NoTxn
  BY NewReqTyped, RequestsAssumption DEF Consistent, Typed, RowType
<1>5. /\ pc # "done" => row[t].st = "live"
      /\ op = "split" /\ pc # "done" => row[t].parent = NoTxn
      /\ \/ pc = "done"
         \/ pc = "account" /\ op \in {"update", "delete"}
         \/ pc = "count" /\ op = "join"
         \/ pc = "insert" /\ op = "split"
  BY <1>1 DEF Found, OnRow
<1>6. /\ next \in Requests /\ next.pc = pc /\ next.op = op /\ next.amt = m
      /\ next.tgt = t /\ next.todo = << >> /\ next.writes = NoWrites /\ next.lock = "none"
      /\ next.seen = {}
  BY <1>2, <1>4, <1>5 DEF Requests, Positions, AllOps, NewReq, OnRow
<1>7. Control(next)
  BY <1>4, <1>5, <1>6, NothingWritten DEF Control, Path, AllOps, LockFits, OnRow
<1>8. TargetFits(next)
  BY <1>5, <1>6 DEF TargetFits, InProgress
<1>9. Starts(next)
  BY <1>5, <1>6 DEF Starts, InProgress, Loaded
<1> QED
  BY <1>3, <1>5, <1>6, <1>7, <1>8, <1>9, NothingWritten, ArrivalFits DEF Arrives

LEMMA CloseArrives ==
  ASSUME Consistent, NEW r \in Reqs, BeginClose(r)
  PROVE  Arrives(r)
<1>1. PICK next : next = [NewReq EXCEPT !.op = "close", !.pc = IF open THEN "close" ELSE "done"]
  OBVIOUS
<1>2. Arrive(r, next) /\ req[r].pc = "new"
  BY <1>1 DEF BeginClose, Arrive
<1>3. /\ next \in Requests /\ next.pc \in {"close", "done"} /\ next.op = "close"
      /\ next.tgt = NoTxn /\ next.todo = << >> /\ next.writes = NoWrites /\ next.lock = "none"
      /\ next.seen = {}
  BY <1>1, NewReqTyped DEF Requests, Positions, AllOps, NewReq
<1>4. Control(next)
  BY <1>3, NothingWritten DEF Control, Path, AllOps, LockFits, OnRow
<1>5. TargetFits(next) /\ Starts(next)
  BY <1>3 DEF TargetFits, Starts, InProgress, Loaded
<1> QED
  BY <1>2, <1>3, <1>4, <1>5, NothingWritten, ArrivalFits DEF Arrives

LEMMA BeginArrives ==
  ASSUME Consistent, NEW r \in Reqs, Begin(r)
  PROVE  Arrives(r)
<1>1. CASE \E m \in Amounts : BeginCreate(r, m)
  BY <1>1, CreateArrives
<1>2. CASE \E t \in Txns, m \in Amounts : BeginOnRow(r, "update", t, m)
  <2>1. PICK t \in Txns, m \in Amounts : BeginOnRow(r, "update", t, m)
    BY <1>2
  <2>2. m \in Int /\ m # 0 /\ "update" \in OnRow
    BY RequestsAssumption DEF OnRow
  <2> QED
    BY <2>1, <2>2, OnRowArrives
<1>3. CASE \E op \in Ops \cap {"delete", "split", "join"}, t \in Txns : BeginOnRow(r, op, t, 0)
  <2>1. PICK op \in {"delete", "split", "join"}, t \in Txns : BeginOnRow(r, op, t, 0)
    BY <1>3
  <2>2. op \in OnRow /\ op # "update"
    BY DEF OnRow
  <2> QED
    BY <2>1, <2>2, OnRowArrives
<1>4. CASE BeginClose(r)
  BY <1>4, CloseArrives
<1> QED
  BY <1>1, <1>2, <1>3, <1>4 DEF Begin

-----------------------------------------------------------------------------
(***************************************************************************)
(* Every step keeps the requests consistent.                               *)
(***************************************************************************)
LEMMA MeetTyped ==
  ASSUME Typed, NEW r \in Reqs, Meet(r)
  PROVE  met' \in [Reqs -> SUBSET Reqs] /\ \A q \in Reqs : q \notin met'[q]
<1>1. PICK now \in SUBSET (Reqs \ {r}) :
        met' = [q \in Reqs |-> IF q = r THEN now ELSE IF q \in now THEN met[q] \cup {r} ELSE met[q]]
  BY DEF Meet
<1> QED
  BY <1>1 DEF Typed

LEMMA BeginKeeps ==
  ASSUME Consistent, NEW r \in Reqs, Begin(r)
  PROVE  Consistent'
<1>1. PICK next : Arrive(r, next) /\ Fits(r, next)
  BY BeginArrives DEF Arrives
<1>2. Moves(r, next) /\ Meet(r) /\ audited' = audited /\ Typed
  BY <1>1 DEF Arrive, Moves, Consistent
<1>3. met' \in [Reqs -> SUBSET Reqs] /\ \A q \in Reqs : q \notin met'[q]
  BY <1>2, MeetTyped
<1>4. audited' \subseteq committed
  BY <1>2 DEF Typed
<1> QED
  BY <1>1, <1>2, <1>3, <1>4, MoveKeepsConsistent

LEMMA StatementKeeps ==
  ASSUME Consistent, NEW r \in Reqs, Statement(r)
  PROVE  Consistent'
<1>1. PICK next : Proceed(r, next) /\ Fits(r, next)
  BY StatementBecomes DEF Becomes
<1>2. Moves(r, next) /\ met' = met /\ audited' = audited /\ Typed
  BY <1>1 DEF Proceed, Moves, Consistent
<1>3. audited' \subseteq committed /\ met' \in [Reqs -> SUBSET Reqs] /\ \A q \in Reqs : q \notin met'[q]
  BY <1>2 DEF Typed
<1> QED
  BY <1>1, <1>2, <1>3, MoveKeepsConsistent

LEMMA WriteAuditKeeps ==
  ASSUME Consistent, NEW r \in Reqs, WriteAudit(r)
  PROVE  Consistent'
<1>1. PICK w : w = req[r]
  OBVIOUS
<1>2. /\ w \in Requests /\ w.seen \subseteq committed /\ Control(w) /\ RowsFit(w) /\ w.pc = "audit"
      /\ \A q \in Reqs \ {r} : /\ DOMAIN w.writes \cap DOMAIN req[q].writes = {}
                               /\ {w.lock, req[q].lock} \notin Conflict
  BY <1>1, AboutRequest DEF WriteAudit
<1>3. /\ w.op \in {"create", "split"} /\ w.lock = "none" /\ w.todo = << >> /\ DOMAIN w.writes = {}
      /\ r \in committed
  BY <1>1, <1>2 DEF Control, Path, LockFits, Requests, AllOps, Consistent, OutcomeFits
<1>4. PICK next : next = [w EXCEPT !.pc = "done"]
  OBVIOUS
<1>5. /\ next \in Requests /\ next.pc = "done" /\ next.op = w.op /\ next.tgt = w.tgt
      /\ next.amt = w.amt /\ next.delta = w.delta /\ next.writes = w.writes
      /\ next.lock = w.lock /\ next.todo = w.todo /\ next.seen = w.seen
  BY <1>2, <1>4 DEF Requests, Positions
<1>6. Control(next)
  BY <1>2, <1>3, <1>5 DEF Control, Path, AllOps, LockFits
<1>7. RowsFit(next)
  BY <1>2, <1>3, <1>5 DEF RowsFit, TargetFits, InProgress
<1>8. Fits(r, next)
  BY <1>1, <1>2, <1>3, <1>5, <1>6, <1>7 DEF Fits
<1>9. Moves(r, next)
  BY <1>1, <1>4 DEF WriteAudit, Moves
<1>10. /\ audited' \subseteq committed
       /\ met' \in [Reqs -> SUBSET Reqs] /\ \A q \in Reqs : q \notin met'[q]
  BY <1>3 DEF WriteAudit, Consistent, Typed
<1> QED
  BY <1>8, <1>9, <1>10, MoveKeepsConsistent

\* A commit writes the rows of its request.
LEMMA CommitRows ==
  ASSUME Consistent, NEW r \in Reqs, Commit(r), NEW w, w = req[r]
  PROVE  /\ row' \in [Txns -> RowType(States)]
         /\ \A t \in Txns : \/ t \in DOMAIN w.writes /\ row'[t] = w.writes[t] /\ RowFits(w, t)
                            \/ t \notin DOMAIN w.writes /\ row'[t] = row[t]
<1>1. w \in Requests /\ RowsFit(w) /\ row' = [t \in Txns |-> IF t \in DOMAIN w.writes THEN w.writes[t] ELSE row[t]]
  BY AboutRequest DEF Commit
<1>2. w.writes \in Writings
  BY <1>1 DEF Requests
<1>3. w.writes \in [DOMAIN w.writes -> NewRowsOrChanged]
  BY <1>2, WritingsAreFunctions
<1>4. \A t \in Txns : row[t] \in RowType(States)
  BY DEF Consistent, Typed
<1>5. \A t \in DOMAIN w.writes : w.writes[t] \in RowType(States)
  BY <1>3 DEF NewRowsOrChanged, RowType, States
<1>6. row' \in [Txns -> RowType(States)]
  BY <1>1, <1>4, <1>5
<1>7. ASSUME NEW t \in Txns
      PROVE  \/ t \in DOMAIN w.writes /\ row'[t] = w.writes[t] /\ RowFits(w, t)
             \/ t \notin DOMAIN w.writes /\ row'[t] = row[t]
  BY <1>1 DEF RowsFit
<1> QED
  BY <1>6, <1>7

\* Which ways a committed row may go.
LEMMA RowsForward ==
  ASSUME Consistent, NEW r \in Reqs, Commit(r), NEW t \in Txns
  PROVE  /\ row[t].st # "absent" => row'[t].st # "absent" /\ row'[t].parent = row[t].parent
         /\ row[t].st = "deleted" => row'[t].st # "live"
         /\ row[t].st = "purged" => row'[t] = row[t]
         /\ row'[t].st # "absent" => row'[t].amt # 0
<1>1. PICK w : w = req[r]
  OBVIOUS
<1>2. w \in Requests /\ w.op \in AllOps /\ w.pc = "commit" /\ Control(w)
  BY <1>1, AboutRequest DEF Commit, Requests
<1>3. CASE t \in DOMAIN w.writes /\ row'[t] = w.writes[t] /\ RowFits(w, t)
  <2>0. PICK old \in RowType(States) : old = row[t]
    BY DEF Consistent, Typed
  <2>1. PICK new : old = row[t] /\ new = w.writes[t]
    BY <2>0
  <2>2. old.st # "absent" => old.amt # 0
    BY <2>1 DEF Consistent, TableFits
  <2>3. CASE w.op \in {"create", "split"}
    BY <1>3, <2>1, <2>3 DEF RowFits
  <2>4. CASE w.op = "update"
    BY <1>3, <2>1, <2>4 DEF RowFits
  <2>5. CASE w.op = "delete"
    BY <1>3, <2>1, <2>2, <2>5 DEF RowFits, RowType
  <2>6. CASE w.op \in {"join", "close"}
    BY <1>3, <2>1, <2>2, <2>6 DEF RowFits, RowType
  <2> QED
    BY <1>2, <2>3, <2>4, <2>5, <2>6 DEF AllOps
<1>4. CASE row'[t] = row[t]
  BY <1>4 DEF Consistent, TableFits
<1> QED
  BY <1>1, <1>3, <1>4, CommitRows

LEMMA CommitKeeps ==
  ASSUME Consistent, NEW r \in Reqs, Commit(r)
  PROVE  Consistent'
<1>1. PICK w : w = req[r]
  OBVIOUS
<1>2. /\ w \in Requests /\ w.seen \subseteq committed /\ Control(w) /\ RowsFit(w) /\ w.pc = "commit"
      /\ \A q \in Reqs \ {r} : /\ DOMAIN w.writes \cap DOMAIN req[q].writes = {}
                               /\ {w.lock, req[q].lock} \notin Conflict
                               /\ {"none", req[q].lock} \notin Conflict
  BY <1>1, AboutRequest DEF Commit
<1>3. PICK pc : pc = IF AuditsApart(r) THEN "audit" ELSE "done"
  OBVIOUS
<1>4. PICK next : next = [Aborted(r) EXCEPT !.pc = pc]
  OBVIOUS
<1>5. /\ next \in Requests /\ next.pc = pc /\ next.op = w.op /\ next.tgt = w.tgt
      /\ next.amt = w.amt /\ next.delta = w.delta /\ next.seen = w.seen
      /\ next.writes = NoWrites /\ next.lock = "none" /\ next.todo = << >>
  <2>1. next = [w EXCEPT !.pc = pc, !.writes = NoWrites, !.lock = "none", !.todo = << >>]
    BY <1>1, <1>2, <1>4 DEF Aborted, Requests
  <2>2. NoWrites \in Writings /\ << >> \in Seq(Txns) /\ pc \in Positions /\ "none" \in Locks
    BY <1>3, NothingWritten DEF Positions, Locks
  <2> QED
    BY <1>2, <2>1, <2>2 DEF Requests
<1>6. /\ req' = [req EXCEPT ![r] = next]
      /\ committed' = committed \cup {r} /\ met' = met
      /\ open' = (open /\ w.op # "close")
      /\ audited' \subseteq audited \cup {r}
      /\ applied' \in {applied, w.seen \cup {r}}
      /\ balance' \in {balance, w.snap + w.delta}
  BY <1>1, <1>3, <1>4 DEF Commit
<1>7. req'[r] = next /\ \A q \in Reqs \ {r} : req'[q] = req[q]
  BY <1>6 DEF Consistent, Typed
<1>8. Typed'
  <2>1. row' \in [Txns -> RowType(States)] /\ Typed
    BY CommitRows DEF Consistent
  <2>2. open' \in BOOLEAN /\ balance' \in Int
    BY <1>2, <1>6, <2>1 DEF Typed, Requests
  <2>3. req' \in [Reqs -> Requests] /\ met' \in [Reqs -> SUBSET Reqs]
    BY <1>5, <1>6, <2>1 DEF Typed
  <2>4. /\ committed' \subseteq Reqs /\ audited' \subseteq committed'
        /\ applied' \subseteq committed'
    BY <1>2, <1>6, <2>1 DEF Typed
  <2>5. \A q \in Reqs : req'[q].seen \subseteq committed' /\ q \notin met'[q]
    BY <1>2, <1>5, <1>6, <1>7, <2>1 DEF Typed
  <2> QED
    BY <2>1, <2>2, <2>3, <2>4, <2>5 DEF Typed
<1>9. \A t \in Txns : /\ row[t].st # "absent" => row'[t].st # "absent" /\ row'[t].parent = row[t].parent
                      /\ row'[t].st # "absent" => row'[t].amt # 0
  BY RowsForward
<1>10. TableFits'
  <2> SUFFICES ASSUME NEW t \in Txns, row'[t].st # "absent", row'[t].parent # NoTxn
               PROVE  row'[row'[t].parent].st # "absent" /\ row'[row'[t].parent].parent = NoTxn
    BY <1>9 DEF TableFits
  <2>1. CASE row[t].st # "absent"
    <3>1. PICK p \in Txns : p = row[t].parent
      BY <1>9, <2>1 DEF Consistent, Typed, RowType
    <3>2. row[p].st # "absent" /\ row[p].parent = NoTxn
      BY <1>9, <2>1, <3>1 DEF Consistent, TableFits
    <3> QED
      BY <1>9, <2>1, <3>1, <3>2
  <2>2. CASE row[t].st = "absent"
    <3>1. t \in DOMAIN w.writes /\ row'[t] = w.writes[t] /\ RowFits(w, t)
      BY <1>1, <2>2, CommitRows
    <3>2. w.op \in {"create", "split"}
      BY <1>2, <2>2, <3>1 DEF RowFits, Requests
    <3>3. w.op = "split" /\ row'[t].parent = w.tgt
      BY <3>1, <3>2 DEF RowFits
    <3>4. w.tgt \in Txns /\ row[w.tgt].st # "absent" /\ row[w.tgt].parent = NoTxn
      BY <1>2, <3>3 DEF RowsFit, TargetFits, InProgress, Requests, Control, OnRow
    <3> QED
      BY <1>9, <3>3, <3>4
  <2> QED
    BY <2>1, <2>2
<1>11. LocksExclusive'
  <2>1. \A q \in Reqs \ {r} : {req[q].lock, "none"} \notin Conflict
    BY LockTable DEF Consistent, Typed, Requests, Locks
  <2>2. DOMAIN NoWrites = {}
    BY NothingWritten
  <2>3. ASSUME NEW q \in Reqs \ {r}, req[q].lock = "update"
        PROVE  open'
    <3>1. open /\ w.op # "close"
      BY <1>2, <2>3, LockTable DEF Consistent, LocksExclusive, Control, LockFits, Locks
    <3> QED
      BY <1>6, <3>1
  <2>4. \A p, q \in Reqs : p # q =>
          /\ DOMAIN req'[p].writes \cap DOMAIN req'[q].writes = {}
          /\ {req'[p].lock, req'[q].lock} \notin Conflict
    BY <1>2, <1>5, <1>7, <2>1, <2>2 DEF Consistent, LocksExclusive
  <2>5. \A q \in Reqs : req'[q].lock = "update" => open'
    BY <1>5, <1>7, <2>3
  <2> QED
    BY <2>4, <2>5 DEF LocksExclusive
<1>12. ASSUME NEW q \in Reqs
       PROVE  (Control(req[q]) /\ RowsFit(req[q]) /\ OutcomeFits(q))'
  <2>1. CASE q = r
    <3>1. w.tgt # NoTxn => w.tgt \in Txns /\ row[w.tgt].st # "absent" /\ (w.op = "split" => row[w.tgt].parent = NoTxn)
      BY <1>2 DEF RowsFit, TargetFits, InProgress, Requests
    <3>2. w.tgt # NoTxn => row'[w.tgt].st # "absent" /\ (w.op = "split" => row'[w.tgt].parent = NoTxn)
      BY <1>9, <3>1
    <3>3. Control(next)'
      <4>1. pc = "done" \/ (pc = "audit" /\ w.op \in {"create", "split"})
        BY <1>1, <1>3 DEF AuditsApart
      <4> QED
        BY <1>2, <1>5, <4>1, NothingWritten DEF Control, Path, AllOps, LockFits, Requests
    <3>4. RowsFit(next)'
      BY <1>5, <3>2, NothingWritten DEF RowsFit, TargetFits
    <3>5. OutcomeFits(r)'
      BY <1>3, <1>5, <1>6, <1>7 DEF OutcomeFits
    <3> QED
      BY <1>7, <2>1, <3>3, <3>4, <3>5
  <2>2. CASE q # r
    <3>1. PICK x \in Requests : x = req[q]
      BY DEF Consistent, Typed
    <3>2. Control(x) /\ RowsFit(x) /\ OutcomeFits(q) /\ x = req'[q]
      BY <1>7, <2>2, <3>1 DEF Consistent
    <3>3. Control(x)'
      BY <3>2 DEF Control, LockFits
    <3>4. TargetFits(x)'
      <4>1. InProgress(x) /\ x.tgt # NoTxn => x.tgt \in Txns
        BY DEF Requests
      <4> QED
        BY <1>9, <3>2, <4>1 DEF RowsFit, TargetFits
    <3>5. ASSUME NEW i \in 1 .. Len(x.todo)
          PROVE  row'[x.todo[i]].st # "absent" /\ row'[x.todo[i]].parent = x.tgt
      <4>1. x.todo[i] \in Txns
        BY DEF Requests
      <4> QED
        BY <1>9, <3>2, <4>1 DEF RowsFit
    <3>6. ASSUME NEW t \in DOMAIN x.writes
          PROVE  RowFits(x, t)'
      <4>1. t \in Txns /\ t \notin DOMAIN w.writes
        BY <1>2, <2>2, <3>1, WritingsAreFunctions DEF Requests
      <4>2. row'[t] = row[t] /\ RowFits(x, t)
        BY <1>1, <3>2, <4>1, CommitRows DEF RowsFit
      <4> QED
        BY <4>2 DEF RowFits
    <3>7. RowsFit(x)'
      BY <3>4, <3>5, <3>6 DEF RowsFit
    <3>8. OutcomeFits(q)'
      BY <1>6, <2>2, <3>1, <3>2 DEF OutcomeFits
    <3> QED
      BY <3>2, <3>3, <3>7, <3>8
  <2> QED
    BY <2>1, <2>2
<1> QED
  BY <1>8, <1>10, <1>11, <1>12 DEF Consistent

LEMMA ConsistentStays ==
  ASSUME Consistent, [Next]_vars
  PROVE  Consistent'
<1>1. CASE Next
  BY <1>1, StepCases, BeginKeeps, StatementKeeps, CommitKeeps, WriteAuditKeeps
<1>2. CASE UNCHANGED vars
  <2>1. UNCHANGED <<row, open, balance, req, committed, audited, applied, met>>
    BY <1>2 DEF vars
  <2>2. Typed' /\ TableFits' /\ LocksExclusive'
    BY <2>1 DEF Consistent, Typed, TableFits, LocksExclusive
  <2>3. ASSUME NEW r \in Reqs
        PROVE  (Control(req[r]) /\ RowsFit(req[r]) /\ OutcomeFits(r))'
    <3>1. PICK w : w = req[r]
      OBVIOUS
    <3>2. Control(w) /\ RowsFit(w) /\ OutcomeFits(r)
      BY <3>1 DEF Consistent
    <3>3. Control(w)' /\ RowsFit(w)'
      BY <2>1, <3>2 DEF Control, LockFits, RowsFit, TargetFits, RowFits
    <3>4. OutcomeFits(r)'
      BY <2>1, <3>2 DEF OutcomeFits
    <3> QED
      BY <2>1, <3>1, <3>3, <3>4
  <2> QED
    BY <2>2, <2>3 DEF Consistent
<1> QED
  BY <1>1, <1>2

LEMMA AlwaysConsistent == Spec => []Consistent
BY InitConsistent, ConsistentStays, PTL DEF Spec

-----------------------------------------------------------------------------
(***************************************************************************)
(* The properties.                                                         *)
(***************************************************************************)

\* TransactionService's handlers work on what the database holds: a request
\* writes existing or fresh rows of the table, with integer amounts, and
\* what it has seen posted, what is audited and what is in the balance has been
\* committed.
THEOREM RequestsTyped == Spec => []RequestsTypeOK
<1>1. ASSUME Consistent
      PROVE  RequestsTypeOK
  <2>1. ASSUME NEW r \in Reqs
        PROVE  RequestTypeOK(req[r]) /\ met[r] \subseteq Reqs \ {r}
    <3>1. PICK w \in Requests : w = req[r]
      BY <1>1 DEF Consistent, Typed
    <3>2. w.seen \subseteq committed /\ met[r] \subseteq Reqs \ {r}
      BY <1>1, <3>1 DEF Consistent, Typed
    <3>3. w.writes \in Writings
      BY DEF Requests
    <3>4. DOMAIN w.writes \subseteq Txns /\ w.writes \in [DOMAIN w.writes -> NewRowsOrChanged]
      BY <3>3, WritingsAreFunctions
    <3>5. /\ w.pc \in Positions /\ w.op \in AllOps \cup {"none"} /\ w.tgt \in Txns \cup {NoTxn}
          /\ {w.amt, w.old, w.snap, w.delta} \subseteq Int /\ w.todo \in Seq(Txns) /\ w.lock \in Locks
      BY DEF Requests
    <3> QED
      BY <3>1, <3>2, <3>4, <3>5 DEF RequestTypeOK, Positions, Locks, NewRowsOrChanged
  <2> QED
    BY <1>1, <2>1 DEF Consistent, Typed, RequestsTypeOK, States
<1> QED
  BY <1>1, AlwaysConsistent, PTL

\* Whatever stale copies the sessions of TransactionService hold, a commit
\* brings no deleted or purged transaction back, and none changes its parent.
THEOREM RowsNeverComeBack == Spec => RowsOnlyGoForward
<1> DEFINE Forward == \A t \in Txns :
      /\ row[t].st # "absent" => row'[t].st # "absent" /\ row'[t].parent = row[t].parent
      /\ row[t].st = "deleted" => row'[t].st # "live"
      /\ row[t].st = "purged" => row'[t] = row[t]
<1>1. ASSUME Consistent, Next
      PROVE  Forward \/ UNCHANGED row
  <2>1. PICK r \in Reqs : Begin(r) \/ Statement(r) \/ Commit(r) \/ WriteAudit(r)
    BY <1>1, StepCases
  <2>2. CASE Begin(r)
    BY <1>1, <2>2, BeginArrives DEF Arrives, Arrive
  <2>3. CASE Statement(r)
    BY <1>1, <2>3, StatementBecomes DEF Becomes, Proceed
  <2>4. CASE Commit(r)
    BY <1>1, <2>4, RowsForward
  <2>5. CASE WriteAudit(r)
    BY <2>5 DEF WriteAudit
  <2> QED
    BY <2>1, <2>2, <2>3, <2>4, <2>5
<1>2. ASSUME UNCHANGED row
      PROVE  Forward
  BY <1>2
<1>3. Consistent /\ [Next]_vars => [Forward]_vars
  BY <1>1, <1>2
<1> QED
  BY <1>3, AlwaysConsistent, PTL DEF Spec, RowsOnlyGoForward

\* delete_account locks the account against every handler that changes its
\* balance: once it has committed, requests that found the account open change
\* neither the balance nor any row but parts.
THEOREM ClosingFreezes == Spec => ClosedAccountIsFrozen
<1> DEFINE Frozen == ~ open =>
      /\ ~ open' /\ balance' = balance
      /\ \A t \in Txns : row'[t].parent = NoTxn => row'[t] = row[t]
<1>1. ASSUME Consistent, Next, ~ open
      PROVE  \/ UNCHANGED <<row, open, balance>>
             \/ /\ ~ open' /\ balance' = balance
                /\ \A t \in Txns : row'[t].parent = NoTxn => row'[t] = row[t]
  <2>1. PICK r \in Reqs : Begin(r) \/ Statement(r) \/ Commit(r) \/ WriteAudit(r)
    BY <1>1, StepCases
  <2>2. CASE Begin(r)
    BY <1>1, <2>2, BeginArrives DEF Arrives, Arrive
  <2>3. CASE Statement(r)
    BY <1>1, <2>3, StatementBecomes DEF Becomes, Proceed
  <2>4. CASE Commit(r)
    <3>1. PICK w : w = req[r]
      OBVIOUS
    <3>2. w \in Requests /\ Control(w) /\ w.pc = "commit" /\ w.lock # "update"
      BY <1>1, <2>4, <3>1, AboutRequest DEF Commit
    <3>3. /\ w.op \in {"update", "split", "join", "close"}
          /\ w.op = "update" => w.delta = 0
          /\ w.op = "close" => DOMAIN w.writes = {}
          /\ w.op \in {"split", "join"} => w.tgt # NoTxn
      BY <3>2 DEF Control, LockFits, Path, AllOps, OnRow, Requests
    <3>4. ~ open' /\ balance' = balance
      BY <1>1, <2>4, <3>1, <3>2 DEF Commit, BalanceDirty
    <3>5. ASSUME NEW t \in Txns, row'[t].parent = NoTxn
          PROVE  row'[t] = row[t]
      <4>1. CASE t \in DOMAIN w.writes /\ row'[t] = w.writes[t] /\ RowFits(w, t)
        <5>1. CASE w.op = "split"
          BY <3>3, <3>5, <4>1, <5>1 DEF RowFits
        <5>2. CASE w.op = "update"
          BY <3>2, <3>3, <4>1, <5>2 DEF RowFits
        <5>3. CASE w.op = "join"
          <6>1. PICK old \in RowType(States) : old = row[t]
            BY <1>1 DEF Consistent, Typed
          <6>2. row'[t] = [old EXCEPT !.st = "purged"] /\ old.parent = w.tgt
            BY <4>1, <5>3, <6>1 DEF RowFits
          <6> QED
            BY <3>3, <3>5, <5>3, <6>2 DEF RowType
        <5> QED
          BY <3>3, <4>1, <5>1, <5>2, <5>3
      <4> QED
        BY <1>1, <2>4, <3>1, <4>1, CommitRows
    <3> QED
      BY <3>4, <3>5
  <2>5. CASE WriteAudit(r)
    BY <2>5 DEF WriteAudit
  <2> QED
    BY <2>1, <2>2, <2>3, <2>4, <2>5
<1>2. Consistent /\ [Next]_vars => [Frozen]_vars
  BY <1>1
<1> QED
  BY <1>2, AlwaysConsistent, PTL DEF Spec, ClosedAccountIsFrozen

=============================================================================
