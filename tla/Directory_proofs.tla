--------------------------- MODULE Directory_proofs ---------------------------
(***************************************************************************)
(* Proofs about module Directory, for any users, catalogue, accounts,      *)
(* shares, cards and requests, however the requests overlap: the unique    *)
(* indexes and the foreign keys of the tables hold, what requests do to    *)
(* each other is what they have met, and deadlocks are over the removal of *)
(* a user.                                                                 *)
(***************************************************************************)
EXTENDS Sessions_proofs, Finite_proofs

-----------------------------------------------------------------------------
(* Every handler's plan fits                                               *)

LEMMA SeqIs ==
  ASSUME NEW S, NEW p \in Seq(S)
  PROVE  IsSeq(p) /\ Len(p) \in Nat /\ DOMAIN p = 1 .. Len(p)
<1> DEFINE T == {p[i] : i \in 1 .. Len(p)}
<1>1. p \in [1 .. Len(p) -> S] /\ Len(p) \in Nat
  BY LenProperties
<1>2. p \in [1 .. Len(p) -> T]
  BY <1>1
<1> HIDE DEF T
<1>3. p \in Seq(T)
  BY <1>1, <1>2, SeqDef
<1> QED BY <1>1, <1>3 DEF IsSeq, T

LEMMA IsSeqIs ==
  ASSUME NEW p, IsSeq(p)
  PROVE  Len(p) \in Nat /\ DOMAIN p = 1 .. Len(p)
BY LenProperties DEF IsSeq

LEMMA ConcatIs ==
  ASSUME NEW p, NEW q, IsSeq(p), IsSeq(q)
  PROVE  /\ IsSeq(p \o q) /\ Len(p) \in Nat /\ Len(q) \in Nat
         /\ Len(p \o q) = Len(p) + Len(q)
         /\ \A i \in 1 .. Len(p) : (p \o q)[i] = p[i]
         /\ \A i \in Len(p) + 1 .. Len(p) + Len(q) :
              (p \o q)[i] = q[i - Len(p)] /\ i - Len(p) \in 1 .. Len(q)
<1> DEFINE P == {p[i] : i \in 1 .. Len(p)}  Q == {q[i] : i \in 1 .. Len(q)}
<1>1. p \in Seq(P) /\ q \in Seq(Q)
  BY DEF IsSeq
<1> HIDE DEF P, Q
<1>2. p \in Seq(P \cup Q) /\ q \in Seq(P \cup Q)
  BY <1>1, SeqMonotonic
<1>3. /\ p \o q \in Seq(P \cup Q) /\ Len(p) \in Nat /\ Len(q) \in Nat
      /\ Len(p \o q) = Len(p) + Len(q)
      /\ \A i \in 1 .. Len(p) + Len(q) :
           (p \o q)[i] = IF i <= Len(p) THEN p[i] ELSE q[i - Len(p)]
  BY <1>2, ConcatProperties, LenProperties
<1>4. IsSeq(p \o q)
  BY <1>3, SeqIs
<1> QED BY <1>3, <1>4

\* The parts of a plan: checks, a body of checks and writes, and an ending.
IsCheck(s) == StatementFits(s) /\ s.do \in Checks
IsWrite(s) == StatementFits(s) /\ s.do \in {"insert", "update"}

Checking(p) == IsSeq(p) /\ \A i \in 1 .. Len(p) : StatementFits(p[i]) /\ p[i].do \in Checks

BodyFits(p) ==
  /\ IsSeq(p)
  /\ \A i \in 1 .. Len(p) : StatementFits(p[i]) /\ p[i].do \notin Ending
  /\ \A i, j \in 1 .. Len(p) : i < j => Follows(p, i, j)
  /\ \A i \in 1 .. Len(p) : p[i].do = "erase" => i < Len(p)

EndingFits(p) ==
  /\ IsSeq(p) /\ Len(p) > 0
  /\ \A i \in 1 .. Len(p) : StatementFits(p[i]) /\ p[i].do \in Ending
  /\ p[Len(p)].do = "commit"

LEMMA ChecksApart == Checks \cap (Ending \cup {"insert", "update", "erase", "cascade"}) = {}
BY DEF Checks, Loading, Ending

LEMMA CheckingMore ==
  ASSUME NEW p, NEW q, Checking(p), Checking(q)
  PROVE  Checking(p \o q)
<1> SUFFICES ASSUME NEW i \in 1 .. Len(p) + Len(q)
             PROVE  StatementFits((p \o q)[i]) /\ (p \o q)[i].do \in Checks
  BY ConcatIs DEF Checking
<1>1. CASE i \in 1 .. Len(p)
  BY <1>1, ConcatIs DEF Checking
<1>2. CASE i \in Len(p) + 1 .. Len(p) + Len(q)
  BY <1>2, ConcatIs DEF Checking
<1> QED BY <1>1, <1>2, ConcatIs DEF Checking

LEMMA CheckingLiterals ==
  /\ Checking(<< >>)
  /\ \A s : IsCheck(s) => Checking(<<s>>)
  /\ \A s, t : IsCheck(s) /\ IsCheck(t) => Checking(<<s, t>>)
  /\ \A s, t, u : IsCheck(s) /\ IsCheck(t) /\ IsCheck(u) => Checking(<<s, t, u>>)
<1>1. Checking(<< >>)
  BY SeqIs DEF Checking, IsSeq
<1>2. ASSUME NEW s, IsCheck(s)
      PROVE  Checking(<<s>>)
  <2> DEFINE p == <<s>>
  <2>1. p \in Seq({s}) /\ Len(p) = 1 /\ p[1] = s
    OBVIOUS
  <2> HIDE DEF p
  <2>2. IsSeq(p) /\ \A i \in 1 .. Len(p) : p[i] = s
    BY <2>1, SeqIs
  <2>3. Checking(p)
    BY <1>2, <2>2 DEF Checking, IsCheck
  <2> QED BY <2>3 DEF p
<1>3. ASSUME NEW s, NEW t, IsCheck(s), IsCheck(t)
      PROVE  Checking(<<s, t>>)
  <2> DEFINE p == <<s, t>>
  <2>1. p \in Seq({s, t}) /\ Len(p) = 2 /\ p[1] = s /\ p[2] = t
    OBVIOUS
  <2> HIDE DEF p
  <2>2. IsSeq(p) /\ \A i \in 1 .. Len(p) : p[i] \in {s, t}
    BY <2>1, SeqIs
  <2>3. Checking(p)
    BY <1>3, <2>2 DEF Checking, IsCheck
  <2> QED BY <2>3 DEF p
<1>4. ASSUME NEW s, NEW t, NEW u, IsCheck(s), IsCheck(t), IsCheck(u)
      PROVE  Checking(<<s, t, u>>)
  <2>1. <<s, t, u>> = <<s, t>> \o <<u>>
    OBVIOUS
  <2> QED BY <1>2, <1>3, <1>4, <2>1, CheckingMore
<1> QED BY <1>1, <1>2, <1>3, <1>4

LEMMA CheckingIsBody == ASSUME NEW p, Checking(p) PROVE BodyFits(p)
BY ChecksApart DEF Checking, BodyFits, Follows

LEMMA BodyAfterChecks ==
  ASSUME NEW p, NEW q, Checking(p), BodyFits(q)
  PROVE  BodyFits(p \o q)
<1>1. IsSeq(p) /\ IsSeq(q)
  BY DEF Checking, BodyFits
<1>2. \A i \in 1 .. Len(p) : StatementFits(p[i]) /\ p[i].do \in Checks
  BY DEF Checking
<1>3. \A i \in 1 .. Len(p) + Len(q) : i \in 1 .. Len(p) \/ i \in Len(p) + 1 .. Len(p) + Len(q)
  BY <1>1, ConcatIs
<1>4. \A i \in 1 .. Len(p) + Len(q) : StatementFits((p \o q)[i]) /\ (p \o q)[i].do \notin Ending
  BY <1>1, <1>2, <1>3, ConcatIs, ChecksApart DEF BodyFits
<1>5. ASSUME NEW i \in 1 .. Len(p) + Len(q), NEW j \in 1 .. Len(p) + Len(q), i < j
      PROVE  Follows(p \o q, i, j)
  <2>1. CASE i \in 1 .. Len(p)
    BY <1>1, <1>2, <2>1, ConcatIs, ChecksApart DEF Follows
  <2>2. CASE i \in Len(p) + 1 .. Len(p) + Len(q)
    <3>1. /\ (p \o q)[i] = q[i - Len(p)] /\ (p \o q)[j] = q[j - Len(p)]
          /\ i - Len(p) \in 1 .. Len(q) /\ j - Len(p) \in 1 .. Len(q)
          /\ i - Len(p) < j - Len(p) /\ (j = i + 1 <=> j - Len(p) = (i - Len(p)) + 1)
      BY <1>1, <1>5, <2>2, ConcatIs
    <3>2. Follows(q, i - Len(p), j - Len(p))
      BY <3>1 DEF BodyFits
    <3> QED BY <3>1, <3>2 DEF Follows
  <2> QED BY <1>3, <2>1, <2>2
<1>6. ASSUME NEW i \in 1 .. Len(p) + Len(q), (p \o q)[i].do = "erase"
      PROVE  i < Len(p) + Len(q)
  <2>1. i \in Len(p) + 1 .. Len(p) + Len(q)
    BY <1>1, <1>2, <1>3, <1>6, ConcatIs, ChecksApart
  <2>2. q[i - Len(p)].do = "erase" /\ i - Len(p) \in 1 .. Len(q)
    BY <1>1, <1>6, <2>1, ConcatIs
  <2>3. i - Len(p) < Len(q)
    BY <2>2 DEF BodyFits
  <2> QED BY <1>1, <2>3, ConcatIs
<1> QED BY <1>1, <1>4, <1>5, <1>6, ConcatIs DEF BodyFits

LEMMA PlanOfBody ==
  ASSUME NEW p, NEW q, BodyFits(p), EndingFits(q)
  PROVE  PlanFits(p \o q) /\ p \o q # << >>
<1>1. IsSeq(p) /\ IsSeq(q) /\ Len(q) > 0
  BY DEF BodyFits, EndingFits
<1>2. \A i \in 1 .. Len(q) : StatementFits(q[i]) /\ q[i].do \in Ending
  BY DEF EndingFits
<1>3. \A i \in 1 .. Len(p) + Len(q) : i \in 1 .. Len(p) \/ i \in Len(p) + 1 .. Len(p) + Len(q)
  BY <1>1, ConcatIs
<1>4. \A i \in 1 .. Len(p) + Len(q) : StatementFits((p \o q)[i])
  BY <1>1, <1>2, <1>3, ConcatIs DEF BodyFits
<1>5. ASSUME NEW i \in 1 .. Len(p) + Len(q), NEW j \in 1 .. Len(p) + Len(q), i < j
      PROVE  Follows(p \o q, i, j)
  <2>1. CASE j \in 1 .. Len(p)
    <3>1. i \in 1 .. Len(p) /\ (p \o q)[i] = p[i] /\ (p \o q)[j] = p[j]
      BY <1>1, <1>5, <2>1, ConcatIs
    <3>2. Follows(p, i, j)
      BY <1>5, <2>1, <3>1 DEF BodyFits
    <3> QED BY <3>1, <3>2 DEF Follows
  <2>2. CASE j \in Len(p) + 1 .. Len(p) + Len(q)
    <3>1. (p \o q)[j].do \in Ending
      BY <1>1, <1>2, <2>2, ConcatIs
    <3>2. (p \o q)[i].do = "erase" => j # i + 1
      <4>1. CASE i \in 1 .. Len(p)
        BY <1>1, <2>2, <4>1, ConcatIs DEF BodyFits
      <4>2. CASE i \in Len(p) + 1 .. Len(p) + Len(q)
        BY <1>1, <1>2, <4>2, ConcatIs DEF Ending
      <4> QED BY <1>3, <4>1, <4>2
    <3> QED BY <3>1, <3>2 DEF Follows
  <2> QED BY <1>3, <2>1, <2>2
<1>6. Len(p \o q) = Len(p) + Len(q) /\ Len(p) + Len(q) > 0 /\ IsSeq(p \o q)
  BY <1>1, ConcatIs
<1>7. (p \o q)[Len(p) + Len(q)].do = "commit"
  <2>1. /\ Len(p) + Len(q) \in Len(p) + 1 .. Len(p) + Len(q)
        /\ (Len(p) + Len(q)) - Len(p) = Len(q)
    BY <1>1, ConcatIs
  <2>2. (p \o q)[Len(p) + Len(q)] = q[Len(q)]
    BY <1>1, <2>1, ConcatIs
  <2> QED BY <2>2 DEF EndingFits
<1>8. p \o q # << >>
  BY <1>6
<1> QED BY <1>4, <1>5, <1>6, <1>7, <1>8 DEF PlanFits

LEMMA BodyLiterals ==
  /\ \A w : IsWrite(w) => BodyFits(<<w>>)
  /\ \A v, w : IsWrite(v) /\ IsWrite(w) /\ v.do = "insert" /\ w.do = "insert" /\ v.x # w.x
         /\ v.x \in Accounts /\ w.x \in Shares
       => BodyFits(<<v, w>>)
  /\ \A x \in Users \cup Types \cup Institutions : BodyFits(Erase(x))
<1>1. ASSUME NEW w, IsWrite(w)
      PROVE  BodyFits(<<w>>)
  <2> DEFINE p == <<w>>
  <2>1. p \in Seq({w}) /\ Len(p) = 1 /\ p[1] = w
    OBVIOUS
  <2> HIDE DEF p
  <2>2. IsSeq(p)
    BY <2>1, SeqIs
  <2>3. BodyFits(p)
    BY <1>1, <2>1, <2>2 DEF BodyFits, IsWrite, Ending
  <2> QED BY <2>3 DEF p
<1>2. ASSUME NEW v, NEW w, IsWrite(v), IsWrite(w), v.do = "insert", w.do = "insert", v.x # w.x,
             v.x \in Accounts, w.x \in Shares
      PROVE  BodyFits(<<v, w>>)
  <2> DEFINE p == <<v, w>>
  <2>1. p \in Seq({v, w}) /\ Len(p) = 2 /\ p[1] = v /\ p[2] = w
    OBVIOUS
  <2> HIDE DEF p
  <2>2. IsSeq(p)
    BY <2>1, SeqIs
  <2>3. \A i, j \in 1 .. Len(p) : i < j => Follows(p, i, j)
    BY <1>2, <2>1 DEF Follows, Ending
  <2>4. BodyFits(p)
    BY <1>2, <2>1, <2>2, <2>3 DEF BodyFits, IsWrite, Ending
  <2> QED BY <2>4 DEF p
<1>3. ASSUME NEW x \in Users \cup Types \cup Institutions
      PROVE  BodyFits(Erase(x))
  <2> DEFINE p == Erase(x)  v == Statement("erase", x, None)  w == Statement("cascade", x, None)
  <2>1. p \in Seq({v, w}) /\ Len(p) = 2 /\ p[1] = v /\ p[2] = w
    BY DEF Erase
  <2>2. v.do = "erase" /\ w.do = "cascade" /\ v.x = x /\ w.x = x
    BY DEF Statement
  <2> HIDE DEF p, v, w
  <2>3. IsSeq(p)
    BY <2>1, SeqIs
  <2>4. StatementFits(v) /\ StatementFits(w)
    BY <2>2 DEF StatementFits, Writes, Rows, Loading
  <2>5. \A i, j \in 1 .. Len(p) : i < j => Follows(p, i, j)
    BY <2>1, <2>2 DEF Follows, Ending
  <2>6. BodyFits(p)
    BY <2>1, <2>2, <2>3, <2>4, <2>5 DEF BodyFits, Ending
  <2> QED BY <2>6 DEF p
<1> QED BY <1>1, <1>2, <1>3

LEMMA EndingsFit == EndingFits(AuditAndCommit) /\ EndingFits(CommitThenAudit)
<1>1. /\ StatementFits(Audit) /\ StatementFits(Commit)
      /\ Audit.do = "audit" /\ Commit.do = "commit"
  BY DEF StatementFits, Audit, Commit, Statement, Writes, Loading
<1>2. EndingFits(AuditAndCommit)
  <2> DEFINE p == AuditAndCommit
  <2>1. p \in Seq({Audit, Commit}) /\ Len(p) = 2 /\ p[1] = Audit /\ p[2] = Commit
    BY DEF AuditAndCommit
  <2> HIDE DEF p
  <2>2. IsSeq(p)
    BY <2>1, SeqIs
  <2>3. EndingFits(p)
    BY <1>1, <2>1, <2>2 DEF EndingFits, Ending
  <2> QED BY <2>3 DEF p
<1>3. EndingFits(CommitThenAudit)
  <2> DEFINE p == CommitThenAudit
  <2>1. /\ p \in Seq({Audit, Commit}) /\ Len(p) = 3
        /\ p[1] = Commit /\ p[2] = Audit /\ p[3] = Commit
    BY DEF CommitThenAudit
  <2> HIDE DEF p
  <2>2. IsSeq(p)
    BY <2>1, SeqIs
  <2>3. EndingFits(p)
    BY <1>1, <2>1, <2>2 DEF EndingFits, Ending
  <2> QED BY <2>3 DEF p
<1> QED BY <1>2, <1>3

LEMMA InsertFits ==
  ASSUME NEW x \in Rows, NEW row, IsRow(row), RowFits(x, row)
  PROVE  /\ IsWrite(Insert(x, row))
         /\ Insert(x, row).do = "insert" /\ Insert(x, row).x = x
BY DEF IsWrite, StatementFits, Insert, Statement, Writes, Loading

LEMMA UpdateFits ==
  ASSUME NEW x \in Rows, NEW want, Fits(x, want),
         "st" \in DOMAIN want => want.st \in {"live", "deleted"}
  PROVE  IsWrite(Update(x, want))
BY DEF IsWrite, StatementFits, Update, Statement, Writes, Loading

LEMMA SoftDeleteFits == ASSUME NEW x \in Rows PROVE IsWrite(SoftDelete(x))
BY UpdateFits DEF SoftDelete, Fits, Referring, Columns

-----------------------------------------------------------------------------
(* The statements of a plan                                                *)

Said(p) == {p[i] : i \in 1 .. Len(p)}

LEMMA SaidMore ==
  ASSUME NEW p, NEW q, IsSeq(p), IsSeq(q)
  PROVE  Said(p \o q) = Said(p) \cup Said(q)
<1>1. \A i \in 1 .. Len(p) + Len(q) : i \in 1 .. Len(p) \/ i \in Len(p) + 1 .. Len(p) + Len(q)
  BY ConcatIs
<1>2. Said(p \o q) \subseteq Said(p) \cup Said(q)
  BY <1>1, ConcatIs DEF Said
<1>3. Said(p) \subseteq Said(p \o q)
  <2>1. \A i \in 1 .. Len(p) : i \in 1 .. Len(p) + Len(q)
    BY ConcatIs
  <2> QED BY <2>1, ConcatIs DEF Said
<1>4. Said(q) \subseteq Said(p \o q)
  <2>1. \A i \in 1 .. Len(q) :
          Len(p) + i \in Len(p) + 1 .. Len(p) + Len(q) /\ (Len(p) + i) - Len(p) = i
    BY ConcatIs
  <2>2. \A i \in 1 .. Len(q) : Len(p) + i \in 1 .. Len(p) + Len(q)
    BY ConcatIs
  <2> QED BY <2>1, <2>2, ConcatIs DEF Said
<1> QED BY <1>2, <1>3, <1>4

LEMMA SaidLiterals ==
  /\ Said(<< >>) = {}
  /\ \A s : Said(<<s>>) = {s}
  /\ \A s, t : Said(<<s, t>>) = {s, t}
  /\ \A s, t, u : Said(<<s, t, u>>) = {s, t, u}
<1>1. Said(<< >>) = {}
  BY DEF Said
<1>2. ASSUME NEW s
      PROVE  Said(<<s>>) = {s}
  <2> DEFINE p == <<s>>
  <2>1. Len(p) = 1 /\ p[1] = s
    OBVIOUS
  <2> HIDE DEF p
  <2>2. Said(p) = {s}
    BY <2>1 DEF Said
  <2> QED BY <2>2 DEF p
<1>3. ASSUME NEW s, NEW t
      PROVE  Said(<<s, t>>) = {s, t}
  <2> DEFINE p == <<s, t>>
  <2>1. Len(p) = 2 /\ p[1] = s /\ p[2] = t
    OBVIOUS
  <2> HIDE DEF p
  <2>2. Said(p) = {p[1], p[2]}
    BY <2>1 DEF Said
  <2> QED BY <2>1, <2>2 DEF p
<1>4. ASSUME NEW s, NEW t, NEW u
      PROVE  Said(<<s, t, u>>) = {s, t, u}
  <2> DEFINE p == <<s, t, u>>
  <2>1. Len(p) = 3 /\ p[1] = s /\ p[2] = t /\ p[3] = u
    OBVIOUS
  <2> HIDE DEF p
  <2>2. Said(p) = {p[1], p[2], p[3]}
    BY <2>1 DEF Said
  <2> QED BY <2>1, <2>2 DEF p
<1> QED BY <1>1, <1>2, <1>3, <1>4

Body(p, S) == BodyFits(p) /\ Said(p) = S

\* The entry of the audit log is written with the changes or, if three statements
\* end the plan, apart from them.
Closes(p, last) ==
  LET n == Len(p) IN
  /\ n >= last /\ p[n - 1].do = "audit" /\ p[n].do = "commit"
  /\ last = 3 => p[n - 2].do = "commit"
  /\ \A i \in 1 .. n - last : p[i].do \notin Ending

PlanFor(p, S, last) ==
  PlanFits(p) /\ p # << >> /\ Closes(p, last) /\ Said(p) = S \cup {Audit, Commit}

LEMMA AfterChecks ==
  ASSUME NEW p, NEW q, NEW S, Checking(p), Body(q, S)
  PROVE  Body(p \o q, Said(p) \cup S)
BY BodyAfterChecks, SaidMore DEF Body, BodyFits, Checking

LEMMA ClosesAfter ==
  ASSUME NEW p, NEW q, NEW last \in {2, 3}, BodyFits(p), IsSeq(q), Len(q) = last,
         q[last - 1].do = "audit", q[last].do = "commit", last = 3 => q[1].do = "commit"
  PROVE  Closes(p \o q, last)
<1> DEFINE t == p \o q  n == Len(p)
<1>1. /\ n \in Nat /\ Len(t) = n + last
      /\ \A i \in 1 .. n : t[i] = p[i]
      /\ \A i \in n + 1 .. n + last : t[i] = q[i - n]
  BY ConcatIs DEF BodyFits
<1>2. \A i \in 1 .. n : p[i].do \notin Ending
  BY DEF BodyFits
<1> HIDE DEF t, n
<1>3. CASE last = 2
  <2>1. n + 1 \in n + 1 .. n + last /\ n + 2 \in n + 1 .. n + last /\ (n + 1) - n = 1 /\ (n + 2) - n = 2
    BY <1>1, <1>3
  <2>2. t[n + 1] = q[1] /\ t[n + 2] = q[2]
    BY <1>1, <2>1
  <2>3. Closes(t, 2)
    BY <1>1, <1>2, <1>3, <2>2 DEF Closes
  <2> QED BY <1>3, <2>3 DEF t
<1>4. CASE last = 3
  <2>1. /\ n + 1 \in n + 1 .. n + last /\ n + 2 \in n + 1 .. n + last /\ n + 3 \in n + 1 .. n + last
        /\ (n + 1) - n = 1 /\ (n + 2) - n = 2 /\ (n + 3) - n = 3
    BY <1>1, <1>4
  <2>2. t[n + 1] = q[1] /\ t[n + 2] = q[2] /\ t[n + 3] = q[3]
    BY <1>1, <2>1
  <2>3. Closes(t, 3)
    BY <1>1, <1>2, <1>4, <2>2 DEF Closes
  <2> QED BY <1>4, <2>3 DEF t
<1> QED BY <1>3, <1>4

LEMMA PlansOf ==
  ASSUME NEW p, NEW S, Body(p, S)
  PROVE  PlanFor(p \o AuditAndCommit, S, 2) /\ PlanFor(p \o CommitThenAudit, S, 3)
<1>1. BodyFits(p) /\ IsSeq(p) /\ Said(p) = S
  BY DEF Body, BodyFits
<1>2. PlanFor(p \o AuditAndCommit, S, 2)
  <2> DEFINE q == AuditAndCommit
  <2>1. Len(q) = 2 /\ q[1].do = "audit" /\ q[2].do = "commit"
    BY DEF AuditAndCommit, Audit, Commit, Statement
  <2>2. EndingFits(q) /\ IsSeq(q) /\ Said(q) = {Audit, Commit}
    BY EndingsFit, SaidLiterals DEF AuditAndCommit, EndingFits
  <2> HIDE DEF q
  <2>3. Closes(p \o q, 2)
    BY <1>1, <2>1, <2>2, ClosesAfter
  <2>4. Said(p \o q) = S \cup {Audit, Commit}
    BY <1>1, <2>2, SaidMore
  <2>5. PlanFor(p \o q, S, 2)
    BY <1>1, <2>2, <2>3, <2>4, PlanOfBody DEF PlanFor
  <2> QED BY <2>5 DEF q
<1>3. PlanFor(p \o CommitThenAudit, S, 3)
  <2> DEFINE q == CommitThenAudit
  <2>1. Len(q) = 3 /\ q[1].do = "commit" /\ q[2].do = "audit" /\ q[3].do = "commit"
    BY DEF CommitThenAudit, Audit, Commit, Statement
  <2>2. EndingFits(q) /\ IsSeq(q) /\ Said(q) = {Audit, Commit}
    BY EndingsFit, SaidLiterals DEF CommitThenAudit, EndingFits
  <2> HIDE DEF q
  <2>3. Closes(p \o q, 3)
    BY <1>1, <2>1, <2>2, ClosesAfter
  <2>4. Said(p \o q) = S \cup {Audit, Commit}
    BY <1>1, <2>2, SaidMore
  <2>5. PlanFor(p \o q, S, 3)
    BY <1>1, <2>2, <2>3, <2>4, PlanOfBody DEF PlanFor
  <2> QED BY <2>5 DEF q
<1> QED BY <1>2, <1>3

\* The checks that the handlers make.
LEMMA ChecksFit ==
  /\ \A x \in Rows : \A arg :
       /\ IsCheck(Find(x, "404")) /\ IsCheck(Find(x, "422"))
       /\ \A do \in {"mine", "my account", "other", "share", "my card"} :
            IsCheck(Statement(do, x, arg))
  /\ \A x, arg :
       /\ IsCheck(Free(arg)) /\ IsCheck(Refuse("422"))
       /\ \A do \in {"rekey", "free name", "rename", "owner", "orphans"} :
            IsCheck(Statement(do, x, arg))
BY DEF IsCheck, StatementFits, Find, Free, Refuse, Statement, Checks, Loading

LEMMA CheckedWrite ==
  ASSUME NEW w, IsWrite(w)
  PROVE  /\ \A p : Checking(p) => Body(p \o <<w>>, Said(p) \cup {w})
         /\ \A s : IsCheck(s) => Body(<<s, w>>, {s, w})
         /\ \A s, t : IsCheck(s) /\ IsCheck(t) => Body(<<s, t, w>>, {s, t, w})
<1>1. Body(<<w>>, {w})
  BY BodyLiterals, SaidLiterals DEF Body
<1>2. \A p : Checking(p) => Body(p \o <<w>>, Said(p) \cup {w})
  BY <1>1, AfterChecks
<1>3. ASSUME NEW s, IsCheck(s)
      PROVE  Body(<<s, w>>, {s, w})
  <2>1. <<s, w>> = <<s>> \o <<w>>
    OBVIOUS
  <2>2. Checking(<<s>>)
    BY <1>3, CheckingLiterals
  <2>3. BodyFits(<<s>> \o <<w>>)
    BY <1>2, <2>2 DEF Body
  <2> QED BY <2>1, <2>3, SaidLiterals DEF Body
<1>4. ASSUME NEW s, NEW t, IsCheck(s), IsCheck(t)
      PROVE  Body(<<s, t, w>>, {s, t, w})
  <2>1. <<s, t, w>> = <<s, t>> \o <<w>>
    OBVIOUS
  <2>2. Checking(<<s, t>>)
    BY <1>4, CheckingLiterals
  <2>3. BodyFits(<<s, t>> \o <<w>>)
    BY <1>2, <2>2 DEF Body
  <2>4. BodyFits(<<s, t, w>>)
    BY <2>1, <2>3
  <2>5. Said(<<s, t, w>>) = {s, t, w}
    BY SaidLiterals
  <2> QED BY <2>4, <2>5 DEF Body
<1> QED BY <1>2, <1>3, <1>4


\* What the plan of an operation does: it updates the row x it is about, with
\* what was wanted; it removes that row or inserts new ones; and it looks for
\* every row that it needs and that is neither new nor the acting user's.
StatementOf(op, x, want, s) ==
  /\ s.do = "update" => s.x = x /\ s.arg = want
  /\ s.do = "insert" /\ s.x = x => s.arg = want
  /\ s.do \in {"erase", "cascade"} =>
       /\ s.x = x /\ want = [st |-> "gone"]
       /\ x \in Users => op = "delete_user"
       /\ x \in Institutions => op = "delete_institution"

Inserted(S) == {s.x : s \in {t \in S : t.do = "insert"}}
Looks(S) == {s.x : s \in {t \in S : t.do \in Loading}}

Needs(x, want) == {x} \cup (Rows \cap {want[c] : c \in DOMAIN want \cap DOMAIN Referring})

\* The handlers that change a share.
ShareOps == {"update_share", "revoke_share"}

\* The rows that are inserted: an account together with its owner's share, and
\* no other share of level owner, unless the request is going to be refused.
NewIn(S) == {<<s.x, s.arg>> : s \in {t \in S : t.do = "insert"}}

Refused(S) == \E s \in S : s.do = "refuse"

Paired(N, S) ==
  \A n \in N :
    /\ n[1] \in Accounts =>
         \E m \in N : m[1] \in Shares /\ m[2].st = "live" /\ m[2].level = "owner" /\ m[2].account = n[1]
    /\ n[1] \in Shares /\ n[2].level = "owner" =>
         \/ Refused(S)
         \/ \E m \in N : m[1] \in Accounts /\ m[1] = n[2].account /\ m[2].owner = n[2].user

\* Who changes a share first has to own the account that the share is checked
\* against, and cannot make it one of level owner.
Looked(x, S) == \E s \in S : s.do = "share" /\ s.x = x
OwnerAsked(a, S) == \E s \in S : s.do = "owner" /\ s.x = a
Promoted(want) == "level" \in DOMAIN want /\ want.level = "owner"

Minded(x, want, S) ==
  /\ x \in Shares /\ Looked(x, S)
  /\ \A s \in S : s.do = "share" => s.arg \in Accounts /\ OwnerAsked(s.arg, S)
  /\ Promoted(want) => Refused(S)

OwnerFirst(p) == Len(p) >= 1 /\ \A i \in 2 .. Len(p) : p[i].do # "owner"

\* The columns that say whose a row is are not changed.
Holders == {"owner", "account", "user"}

Owning(op, x, want, S) ==
  /\ \A s \in S : s.do = "update" =>
       DOMAIN s.arg \cap Holders = {} /\ (s.x \in Shares => op \in ShareOps)
  /\ \A s \in S : s.do = "cascade" => \E t \in S : t.do = "erase" /\ t.x = s.x
  /\ Paired(NewIn(S), S)
  /\ op \in ShareOps => Minded(x, want, S)

\* A statement that does what was asked for.
Grants(S, x) == \E s \in S : s.do \in {"insert", "update", "erase"} /\ s.x = x

Ends(op) == IF op \in AuditedApart THEN CommitThenAudit ELSE AuditAndCommit

Serves(op, by, x, want, new, plan) ==
  /\ PlanFits(plan) /\ plan # << >>
  /\ Closes(plan, IF op \in AuditedApart THEN 3 ELSE 2)
  /\ \A s \in Said(plan) : StatementOf(op, x, want, s)
  /\ Inserted(Said(plan)) = new
  /\ Needs(x, want) \subseteq {by} \cup new \cup Looks(Said(plan))
  /\ DOMAIN want = {} \/ Grants(Said(plan), x)
  /\ \A s \in Said(plan) : s.do \in {"update", "erase"} => x \in Looks(Said(plan))
  /\ Owning(op, x, want, Said(plan)) /\ (op \in ShareOps => OwnerFirst(plan))

LEMMA FirstMore ==
  ASSUME NEW p, NEW q, IsSeq(p), IsSeq(q), OwnerFirst(p), \A s \in Said(q) : s.do # "owner"
  PROVE  OwnerFirst(p \o q)
<1>1. /\ Len(p) \in Nat /\ Len(q) \in Nat /\ Len(p \o q) = Len(p) + Len(q)
      /\ \A i \in 1 .. Len(p) : (p \o q)[i] = p[i]
      /\ \A i \in Len(p) + 1 .. Len(p) + Len(q) :
           (p \o q)[i] = q[i - Len(p)] /\ i - Len(p) \in 1 .. Len(q)
  BY ConcatIs
<1> DEFINE t == p \o q
<1> HIDE DEF t
<1>2. ASSUME NEW i \in 2 .. Len(p) + Len(q)
      PROVE  t[i].do # "owner"
  <2>1. CASE i \in 2 .. Len(p)
    BY <1>1, <2>1 DEF OwnerFirst, t
  <2>2. CASE i \in Len(p) + 1 .. Len(p) + Len(q)
    BY <1>1, <2>2 DEF Said, t
  <2> QED BY <1>1, <2>1, <2>2
<1>3. Len(t) = Len(p) + Len(q) /\ Len(t) >= 1
  BY <1>1 DEF OwnerFirst, t
<1>4. OwnerFirst(t)
  BY <1>2, <1>3 DEF OwnerFirst
<1> QED BY <1>4 DEF t

\* The entry and the commit have nothing to do with owners.
LEMMA OwningMore ==
  ASSUME NEW op, NEW x, NEW want, NEW S, NEW T, Owning(op, x, want, S),
         T = S \cup {Audit, Commit}
  PROVE  Owning(op, x, want, T)
<1>1. Audit.do = "audit" /\ Commit.do = "commit"
  BY DEF Audit, Commit, Statement
<1>2. NewIn(T) = NewIn(S)
  BY <1>1 DEF NewIn
<1>3. Paired(NewIn(T), T)
  BY <1>2 DEF Owning, Paired, Refused
<1>4. op \in ShareOps => Minded(x, want, T)
  BY <1>1 DEF Owning, Minded, Looked, OwnerAsked, Refused
<1> QED BY <1>1, <1>3, <1>4 DEF Owning

\* Plans that insert nothing.
LEMMA OwningNothingNew ==
  ASSUME NEW S, \A s \in S : s.do # "insert"
  PROVE  Paired(NewIn(S), S)
<1>1. NewIn(S) = {}
  BY DEF NewIn
<1> QED BY <1>1 DEF Paired

LEMMA ServesBody ==
  ASSUME NEW op, NEW by, NEW x, NEW want, NEW new, NEW p, NEW b, NEW B,
         Checking(p), Body(b, B), \A s \in B : StatementOf(op, x, want, s), Inserted(B) = new,
         Needs(x, want) \subseteq {by} \cup new \cup Looks(Said(p)),
         DOMAIN want = {} \/ Grants(B, x),
         \A s \in B : s.do \in {"update", "erase"} => x \in Looks(Said(p)),
         Owning(op, x, want, Said(p) \cup B),
         op \in ShareOps => OwnerFirst(p) /\ \A s \in B : s.do # "owner"
  PROVE  Serves(op, by, x, want, new, p \o b \o Ends(op))
<1> DEFINE S == Said(p) \cup B  T == S \cup {Audit, Commit}  plan == p \o b \o Ends(op)
<1>1. PlanFor(plan, S, IF op \in AuditedApart THEN 3 ELSE 2)
  <2>1. Body(p \o b, S)
    BY AfterChecks
  <2> QED BY <2>1, PlansOf DEF Ends
<1>2. \A s \in Said(p) : s.do \in Checks
  BY DEF Checking, Said
<1>3. Audit.do = "audit" /\ Commit.do = "commit"
  BY DEF Audit, Commit, Statement
<1>4. \A s \in T : StatementOf(op, x, want, s)
  BY <1>2, <1>3, ChecksApart DEF StatementOf
<1>5. Inserted(T) = new
  BY <1>2, <1>3, ChecksApart DEF Inserted
<1>6. Looks(Said(p)) \subseteq Looks(T)
  BY DEF Looks
<1>7. PlanFits(plan) /\ plan # << >> /\ Closes(plan, IF op \in AuditedApart THEN 3 ELSE 2) /\ Said(plan) = T
  BY <1>1 DEF PlanFor
<1>8. DOMAIN want = {} \/ Grants(T, x)
  BY DEF Grants
<1>9. \A s \in T : s.do \in {"update", "erase"} => s \in B
  BY <1>2, <1>3, ChecksApart
<1>10. Owning(op, x, want, T)
  BY OwningMore
<1>11. op \in ShareOps => OwnerFirst(plan)
  <2> SUFFICES ASSUME op \in ShareOps
               PROVE  OwnerFirst(plan)
    OBVIOUS
  <2>1. IsSeq(p) /\ IsSeq(b) /\ Said(b) = B /\ IsSeq(p \o b)
    BY ConcatIs DEF Checking, Body, BodyFits
  <2>2. OwnerFirst(p \o b)
    BY <2>1, FirstMore
  <2>3. IsSeq(Ends(op)) /\ Said(Ends(op)) = {Audit, Commit}
    BY EndingsFit, SaidLiterals DEF Ends, AuditAndCommit, CommitThenAudit, EndingFits
  <2> QED BY <1>3, <2>1, <2>2, <2>3, FirstMore
<1> HIDE DEF T, plan
<1>12. Serves(op, by, x, want, new, plan)
  BY <1>4, <1>5, <1>6, <1>7, <1>8, <1>9, <1>10, <1>11 DEF Serves
<1> QED BY <1>12 DEF plan

\* The three things a plan can do after its checks.
LEMMA ServesUpdate ==
  ASSUME NEW op, NEW by, NEW x \in Rows, NEW want, NEW p, Checking(p), Fits(x, want),
         "st" \in DOMAIN want => want.st \in {"live", "deleted"},
         Needs(x, want) \subseteq {by} \cup Looks(Said(p)), x \in Looks(Said(p)),
         DOMAIN want \cap Holders = {}, x \in Shares => op \in ShareOps,
         op \in ShareOps => Minded(x, want, Said(p)) /\ OwnerFirst(p)
  PROVE  Serves(op, by, x, want, {}, p \o <<Update(x, want)>> \o Ends(op))
<1> DEFINE w == Update(x, want)
<1>1. IsWrite(w)
  BY UpdateFits
<1>2. w.do = "update" /\ w.x = x /\ w.arg = want
  BY DEF Update, Statement
<1> HIDE DEF w
<1>3. Body(<<w>>, {w})
  BY <1>1, BodyLiterals, SaidLiterals DEF Body
<1>4. StatementOf(op, x, want, w) /\ Inserted({w}) = {} /\ Grants({w}, x)
  BY <1>2 DEF StatementOf, Inserted, Grants
<1>5. Owning(op, x, want, Said(p) \cup {w})
  <2>1. \A s \in Said(p) : s.do \in Checks
    BY DEF Checking, Said
  <2>2. \A s \in Said(p) \cup {w} :
          s.do \notin {"insert", "cascade"} /\ (s.do = "update" => s = w)
    BY <1>2, <2>1, ChecksApart
  <2>3. op \in ShareOps => Minded(x, want, Said(p) \cup {w})
    BY <1>2 DEF Minded, Looked, OwnerAsked, Refused
  <2> QED BY <1>2, <2>2, <2>3, OwningNothingNew DEF Owning
<1>6. Serves(op, by, x, want, {}, p \o <<w>> \o Ends(op))
  BY <1>2, <1>3, <1>4, <1>5, ServesBody
<1> QED BY <1>6 DEF w

LEMMA ServesInsert ==
  ASSUME NEW op, NEW by, NEW x \in Rows, NEW row, NEW p, Checking(p), IsRow(row), RowFits(x, row),
         Needs(x, row) \subseteq {by, x} \cup Looks(Said(p)), op \notin ShareOps, x \notin Accounts,
         x \in Shares /\ row.level = "owner" => Refused(Said(p))
  PROVE  Serves(op, by, x, row, {x}, p \o <<Insert(x, row)>> \o Ends(op))
<1> DEFINE w == Insert(x, row)
<1>1. IsWrite(w) /\ w.do = "insert" /\ w.x = x /\ w.arg = row
  BY InsertFits DEF Insert, Statement
<1> HIDE DEF w
<1>2. Body(<<w>>, {w})
  BY <1>1, BodyLiterals, SaidLiterals DEF Body
<1>3. /\ StatementOf(op, x, row, w) /\ Inserted({w}) = {x} /\ Grants({w}, x)
      /\ w.do \notin {"update", "erase"}
  BY <1>1 DEF StatementOf, Inserted, Grants
<1>4. Owning(op, x, row, Said(p) \cup {w})
  <2>1. \A s \in Said(p) : s.do \in Checks
    BY DEF Checking, Said
  <2>2. \A s \in Said(p) \cup {w} :
          s.do \notin {"update", "cascade"} /\ (s.do = "insert" => s = w)
    BY <1>1, <2>1, ChecksApart
  <2>3. \A n \in NewIn(Said(p) \cup {w}) : n[1] = x /\ n[2] = row
    BY <1>1, <2>2 DEF NewIn
  <2>4. Paired(NewIn(Said(p) \cup {w}), Said(p) \cup {w})
    BY <2>3 DEF Paired, Refused
  <2> QED BY <2>2, <2>4 DEF Owning
<1>5. Serves(op, by, x, row, {x}, p \o <<w>> \o Ends(op))
  <2> DEFINE B == {w}  new == {x}  b == <<w>>
  <2>1. /\ Body(b, B) /\ \A s \in B : StatementOf(op, x, row, s) /\ s.do \notin {"update", "erase"}
        /\ Inserted(B) = new /\ Grants(B, x) /\ Needs(x, row) \subseteq {by} \cup new \cup Looks(Said(p))
        /\ Owning(op, x, row, Said(p) \cup B)
    BY <1>2, <1>3, <1>4
  <2> HIDE DEF B, new, b
  <2>2. Serves(op, by, x, row, new, p \o b \o Ends(op))
    BY <2>1, ServesBody
  <2> QED BY <2>2 DEF b, new
<1> QED BY <1>5 DEF w

LEMMA ServesErase ==
  ASSUME NEW op, NEW by, NEW x \in Users \cup Types \cup Institutions, NEW p, Checking(p),
         x \in Looks(Said(p)), x \in Users => op = "delete_user",
         x \in Institutions => op = "delete_institution", op \notin ShareOps
  PROVE  Serves(op, by, x, [st |-> "gone"], {}, p \o Erase(x) \o Ends(op))
<1> DEFINE v == Statement("erase", x, None)  w == Statement("cascade", x, None)
           want == [st |-> "gone"]
<1>1. BodyFits(Erase(x)) /\ Erase(x) = <<v, w>>
  BY BodyLiterals DEF Erase
<1>2. /\ v.do = "erase" /\ v.x = x /\ w.do = "cascade" /\ w.x = x
      /\ want = [st |-> "gone"] /\ DOMAIN want \cap DOMAIN Referring = {}
  BY DEF Statement, Referring
<1> HIDE DEF v, w, want
<1>3. Body(Erase(x), {v, w})
  BY <1>1, SaidLiterals DEF Body
<1>4. (\A s \in {v, w} : StatementOf(op, x, want, s)) /\ Inserted({v, w}) = {} /\ Grants({v, w}, x)
  BY <1>2 DEF StatementOf, Inserted, Grants
<1>5. Needs(x, want) \subseteq {by} \cup {} \cup Looks(Said(p))
  BY <1>2 DEF Needs
<1>6. Owning(op, x, want, Said(p) \cup {v, w})
  <2>1. \A s \in Said(p) : s.do \in Checks
    BY DEF Checking, Said
  <2>2. \A s \in Said(p) \cup {v, w} :
          s.do \notin {"insert", "update"} /\ (s.do = "cascade" => s = w)
    BY <1>2, <2>1, ChecksApart
  <2> QED BY <1>2, <2>2, OwningNothingNew DEF Owning
<1>7. Serves(op, by, x, want, {}, p \o Erase(x) \o Ends(op))
  BY <1>2, <1>3, <1>4, <1>5, <1>6, ServesBody, ZenonT(60)
<1> QED BY <1>7 DEF want

LEMMA LooksMore ==
  /\ \A p, q : Checking(p) /\ Checking(q) => Looks(Said(p \o q)) = Looks(Said(p)) \cup Looks(Said(q))
  /\ \A s : s.do \in Loading => s.x \in Looks(Said(<<s>>))
  /\ \A s, t : (s.do \in Loading => s.x \in Looks(Said(<<s, t>>)))
                 /\ (t.do \in Loading => t.x \in Looks(Said(<<s, t>>)))
  /\ \A s, t, u : (s.do \in Loading => s.x \in Looks(Said(<<s, t, u>>)))
                 /\ (t.do \in Loading => t.x \in Looks(Said(<<s, t, u>>)))
                 /\ (u.do \in Loading => u.x \in Looks(Said(<<s, t, u>>)))
<1>1. ASSUME NEW p, NEW q, Checking(p), Checking(q)
      PROVE  Looks(Said(p \o q)) = Looks(Said(p)) \cup Looks(Said(q))
  <2>1. Said(p \o q) = Said(p) \cup Said(q)
    BY <1>1, SaidMore DEF Checking
  <2> QED BY <2>1 DEF Looks
<1>2. \A S : \A s \in S : s.do \in Loading => s.x \in Looks(S)
  BY DEF Looks
<1>3. \A s : s \in Said(<<s>>)
  BY SaidLiterals
<1>4. \A s, t : s \in Said(<<s, t>>) /\ t \in Said(<<s, t>>)
  BY SaidLiterals
<1>5. \A s, t, u : s \in Said(<<s, t, u>>) /\ t \in Said(<<s, t, u>>) /\ u \in Said(<<s, t, u>>)
  BY SaidLiterals
<1> QED BY <1>1, <1>2, <1>3, <1>4, <1>5

\* What the loading checks look at.
LEMMA CheckLooks ==
  \A x, arg :
    /\ Find(x, arg).do \in Loading /\ Find(x, arg).x = x
    /\ \A do \in {"mine", "my account", "other", "share", "my card"} :
         Statement(do, x, arg).do \in Loading /\ Statement(do, x, arg).x = x
BY DEF Find, Statement, Loading

LEMMA EndsIs ==
  /\ \A op \in AuditedApart : Ends(op) = CommitThenAudit
  /\ \A op : op \notin AuditedApart => Ends(op) = AuditAndCommit
BY DEF Ends

\* Users.
LEMMA RegisterServes ==
  ASSUME NEW x \in Users, NEW h
  PROVE  Serves("register", x, x, NewUser(h), {x}, RegisterPlan(x, h))
<1> DEFINE row == NewUser(h)  w == Insert(x, row)
           s == Free(<<"email", h.email>>)  t == Free(<<"username", h.username>>)
<1>1. /\ x \in Rows /\ IsRow(row) /\ RowFits(x, row) /\ DOMAIN row \cap DOMAIN Referring = {}
      /\ x \notin Accounts \cup Shares
  BY KindsApart DEF Rows, NewUser, IsRow, RowFits, Columns, Fits, Referring
<1>2. IsCheck(s) /\ IsCheck(t)
  BY ChecksFit
<1>3. <<s, t, w>> = <<s, t>> \o <<w>>
  OBVIOUS
<1> HIDE DEF row, s, t
<1>4. Checking(<<s, t>>) /\ Needs(x, row) \subseteq {x, x} \cup Looks(Said(<<s, t>>))
  BY <1>1, <1>2, CheckingLiterals DEF Needs
<1>5. Serves("register", x, x, row, {x}, <<s, t>> \o <<w>> \o Ends("register"))
  BY <1>1, <1>4, ServesInsert DEF ShareOps
<1>6. Ends("register") = CommitThenAudit
  BY EndsIs DEF AuditedApart
<1>7. Serves("register", x, x, row, {x}, <<s, t, w>> \o CommitThenAudit)
  BY <1>3, <1>5, <1>6
<1> QED BY <1>7 DEF RegisterPlan, row, s, t

LEMMA RekeyChecks ==
  ASSUME NEW x \in Rows, NEW want, NEW col
  PROVE  Checking(IF col \in DOMAIN want THEN <<Statement("rekey", x, <<col, want[col]>>)>>
                  ELSE << >>)
BY ChecksFit, CheckingLiterals

\* An update of a row without foreign keys among its wanted columns, after a look
\* at it and checks of two unique columns.
\* Only shares have levels.
LEMMA LevelsOfShares == ASSUME NEW x \in Rows \ Shares PROVE "level" \notin Columns(x)
BY KindsApart DEF Columns, Rows

LEMMA RekeyingServes ==
  ASSUME NEW op, NEW by, NEW x \in Rows \ Shares, NEW want, NEW c, NEW d,
         op \notin AuditedApart \cup ShareOps,
         DOMAIN want \cap (DOMAIN Referring \cup {"st"}) = {}, DOMAIN want \subseteq Columns(x)
  PROVE  LET rekey(col) == IF col \in DOMAIN want
                           THEN <<Statement("rekey", x, <<col, want[col]>>)>> ELSE << >>
         IN Serves(op, by, x, want, {}, <<Find(x, "404")>> \o rekey(c) \o rekey(d)
                                           \o <<Update(x, want)>> \o AuditAndCommit)
<1> DEFINE rekey(col) == IF col \in DOMAIN want
                         THEN <<Statement("rekey", x, <<col, want[col]>>)>> ELSE << >>
           w == Update(x, want)  s == Find(x, "404")
<1>1. Fits(x, want) /\ "st" \notin DOMAIN want /\ DOMAIN want \cap Holders = {}
  BY LevelsOfShares DEF Fits, Holders, Referring
<1>2. Checking(<<s>>) /\ Checking(rekey(c)) /\ Checking(rekey(d))
  BY ChecksFit, CheckingLiterals, RekeyChecks
<1>3. s.do \in Loading /\ s.x = x
  BY CheckLooks
<1> HIDE DEF rekey, w, s
<1> DEFINE p == <<s>> \o rekey(c) \o rekey(d)
<1>4. Checking(p) /\ x \in Looks(Said(p))
  BY <1>2, <1>3, CheckingMore, LooksMore
<1> HIDE DEF p
<1>5. Needs(x, want) \subseteq {by} \cup Looks(Said(p))
  BY <1>4 DEF Needs
<1>6. Serves(op, by, x, want, {}, p \o <<w>> \o Ends(op))
  BY <1>1, <1>4, <1>5, ServesUpdate DEF w
<1> QED BY <1>6, EndsIs DEF p, w, s, rekey

LEMMA UpdateProfileServes ==
  ASSUME NEW x \in Users, NEW want \in ProfileChanges
  PROVE  Serves("update_profile", x, x, want, {}, UpdateProfilePlan(x, want))
<1>1. DOMAIN want \cap (DOMAIN Referring \cup {"st"}) = {} /\ x \in Rows \ Shares
  BY PeopleAssumption, KindsApart DEF Referring, Rows
<1>2. DOMAIN want \subseteq Columns(x)
  BY PeopleAssumption, KindsApart DEF Columns
<1> QED BY <1>1, <1>2, RekeyingServes DEF UpdateProfilePlan, AuditedApart, ShareOps

\* An update that looks for the row first.
LEMMA FindAndUpdateServes ==
  ASSUME NEW op, NEW by, NEW x \in Rows \ Shares, NEW want, NEW s,
         op \notin AuditedApart \cup ShareOps, IsCheck(s),
         s.do \in Loading, s.x = x, DOMAIN want \cap DOMAIN Referring = {},
         DOMAIN want \subseteq Columns(x),
         "st" \in DOMAIN want => want.st \in {"live", "deleted"}
  PROVE  Serves(op, by, x, want, {}, <<s, Update(x, want)>> \o AuditAndCommit)
<1> DEFINE w == Update(x, want)
<1>1. /\ Checking(<<s>>) /\ Fits(x, want) /\ x \in Looks(Said(<<s>>))
      /\ Needs(x, want) \subseteq {by} \cup Looks(Said(<<s>>)) /\ DOMAIN want \cap Holders = {}
  BY CheckingLiterals, LooksMore, LevelsOfShares DEF Needs, Fits, Holders, Referring
<1>2. Serves(op, by, x, want, {}, <<s>> \o <<w>> \o Ends(op))
  BY <1>1, ServesUpdate
<1> HIDE DEF w
<1>3. <<s, w>> = <<s>> \o <<w>>
  OBVIOUS
<1>4. Serves(op, by, x, want, {}, <<s, w>> \o AuditAndCommit)
  BY <1>2, <1>3, EndsIs
<1> QED BY <1>4 DEF w

LEMMA Deleting ==
  LET want == [st |-> "deleted"] IN
  /\ DOMAIN want \cap DOMAIN Referring = {} /\ want.st \in {"live", "deleted"}
  /\ \A x : SoftDelete(x) = Update(x, want) /\ DOMAIN want \subseteq Columns(x)
BY DEF Referring, SoftDelete, Columns

LEMMA DeactivateServes ==
  ASSUME NEW by \in Users, NEW x \in Users
  PROVE  Serves("deactivate", by, x, [st |-> "deleted"], {}, DeactivatePlan(x))
<1> DEFINE s == Find(x, "404")
<1>1. x \in Rows \ Shares /\ IsCheck(s) /\ s.do \in Loading /\ s.x = x
  BY ChecksFit, CheckLooks, KindsApart DEF Rows
<1> HIDE DEF s
<1>2. Serves("deactivate", by, x, [st |-> "deleted"], {},
              <<s, Update(x, [st |-> "deleted"])>> \o AuditAndCommit)
  BY <1>1, Deleting, FindAndUpdateServes DEF AuditedApart, ShareOps
<1> QED BY <1>2, Deleting DEF DeactivatePlan, s

LEMMA FindAndErase ==
  ASSUME NEW op, NEW by, NEW x \in Users \cup Types \cup Institutions,
         x \in Users => op = "delete_user", x \in Institutions => op = "delete_institution",
         op \notin ShareOps
  PROVE  Serves(op, by, x, [st |-> "gone"], {}, <<Find(x, "404")>> \o Erase(x) \o Ends(op))
<1>1. Checking(<<Find(x, "404")>>) /\ x \in Looks(Said(<<Find(x, "404")>>))
  BY ChecksFit, CheckingLiterals, CheckLooks, LooksMore DEF Rows
<1> QED BY <1>1, ServesErase

LEMMA DeleteUserServes ==
  ASSUME NEW by \in Users, NEW x \in Users
  PROVE  Serves("delete_user", by, x, [st |-> "gone"], {}, DeleteUserPlan(x))
<1>1. x \notin Institutions /\ Ends("delete_user") = AuditAndCommit
  BY KindsApart, EndsIs DEF AuditedApart
<1> QED BY <1>1, FindAndErase DEF DeleteUserPlan, ShareOps

LEMMA NothingWanted == DOMAIN Nothing \cap DOMAIN Referring = {}
BY DEF Nothing

LEMMA ViewServes ==
  ASSUME NEW op, NEW by, NEW x, NEW p, op \notin AuditedApart \cup ShareOps, Checking(p),
         x \in {by} \cup Looks(Said(p))
  PROVE  Serves(op, by, x, Nothing, {}, p \o AuditAndCommit)
<1>1. Body(<< >>, {})
  BY CheckingLiterals, CheckingIsBody, SaidLiterals DEF Body
<1>2. Needs(x, Nothing) \subseteq {by} \cup {} \cup Looks(Said(p)) /\ DOMAIN Nothing = {}
  BY NothingWanted, NothingWritten DEF Needs
<1>3. Inserted({}) = {}
  BY DEF Inserted
<1>4. Owning(op, x, Nothing, Said(p) \cup {})
  <2>1. \A s \in Said(p) : s.do \in Checks
    BY DEF Checking, Said
  <2>2. \A s \in Said(p) \cup {} : s.do \notin {"insert", "update", "cascade"}
    BY <2>1, ChecksApart
  <2> QED BY <2>2, OwningNothingNew DEF Owning
<1>5. Serves(op, by, x, Nothing, {}, p \o << >> \o Ends(op))
  BY <1>1, <1>2, <1>3, <1>4, ServesBody
<1>6. p \o << >> = p
  <2> DEFINE S == {p[i] : i \in 1 .. Len(p)}
  <2>1. p \in Seq(S)
    BY DEF Checking, IsSeq
  <2> HIDE DEF S
  <2> QED BY <2>1, ConcatEmptySeq
<1> QED BY <1>5, <1>6, EndsIs

LEMMA ViewUserServes ==
  ASSUME NEW by \in Users, NEW x \in Users
  PROVE  Serves("view_user", by, x, Nothing, {}, ViewUserPlan(x))
<1>1. Checking(<<Find(x, "404")>>) /\ x \in Looks(Said(<<Find(x, "404")>>))
  BY ChecksFit, CheckingLiterals, CheckLooks, LooksMore DEF Rows
<1> QED BY <1>1, ViewServes DEF ViewUserPlan, AuditedApart, ShareOps

LEMMA ListUsersServes ==
  ASSUME NEW by \in Users
  PROVE  Serves("list_users", by, by, Nothing, {}, ListUsersPlan)
<1>1. Serves("list_users", by, by, Nothing, {}, << >> \o AuditAndCommit)
  BY CheckingLiterals, ViewServes DEF AuditedApart, ShareOps
<1>2. << >> \o AuditAndCommit = AuditAndCommit
  BY DEF AuditAndCommit
<1> QED BY <1>1, <1>2 DEF ListUsersPlan

\* Account types and institutions.
LEMMA CreateTypeServes ==
  ASSUME NEW by \in Users, NEW x \in Types, NEW k
  PROVE  Serves("create_type", by, x, NewType(k), {x}, CreateTypePlan(x, k))
<1> DEFINE row == NewType(k)  w == Insert(x, row)  s == Free(<<"key", k.key>>)
<1>1. /\ x \in Rows /\ IsRow(row) /\ RowFits(x, row) /\ DOMAIN row \cap DOMAIN Referring = {}
      /\ x \notin Accounts \cup Shares
  BY KindsApart DEF Rows, NewType, IsRow, RowFits, Columns, Fits, Referring
<1>2. IsCheck(s)
  BY ChecksFit
<1>3. <<s, w>> = <<s>> \o <<w>>
  OBVIOUS
<1> HIDE DEF row, s
<1>4. Checking(<<s>>) /\ Needs(x, row) \subseteq {by, x} \cup Looks(Said(<<s>>))
  BY <1>1, <1>2, CheckingLiterals DEF Needs
<1>5. Serves("create_type", by, x, row, {x}, <<s>> \o <<w>> \o Ends("create_type"))
  BY <1>1, <1>4, ServesInsert DEF ShareOps
<1>6. Ends("create_type") = CommitThenAudit
  BY EndsIs DEF AuditedApart
<1>7. Serves("create_type", by, x, row, {x}, <<s, w>> \o CommitThenAudit)
  BY <1>3, <1>5, <1>6
<1> QED BY <1>7 DEF CreateTypePlan, row, s

LEMMA UpdateTypeServes ==
  ASSUME NEW by \in Users, NEW x \in Types, NEW want \in TypeChanges
  PROVE  Serves("update_type", by, x, want, {}, UpdateTypePlan(x, want))
<1> DEFINE s == Find(x, "404")
<1>1. x \in Rows \ Shares /\ IsCheck(s) /\ s.do \in Loading /\ s.x = x
  BY ChecksFit, CheckLooks, KindsApart DEF Rows
<1>2. DOMAIN want \cap DOMAIN Referring = {} /\ "st" \notin DOMAIN want
  BY CatalogueAssumption DEF Referring
<1>3. DOMAIN want \subseteq Columns(x)
  BY CatalogueAssumption, KindsApart DEF Columns
<1> HIDE DEF s
<1>4. Serves("update_type", by, x, want, {}, <<s, Update(x, want)>> \o AuditAndCommit)
  BY <1>1, <1>2, <1>3, FindAndUpdateServes DEF AuditedApart, ShareOps
<1> QED BY <1>4 DEF UpdateTypePlan, s

LEMMA DeleteTypeServes ==
  ASSUME NEW by \in Users, NEW x \in Types
  PROVE  Serves("delete_type", by, x, [st |-> "gone"], {}, DeleteTypePlan(x))
<1>1. x \notin Institutions /\ x \notin Users /\ Ends("delete_type") = CommitThenAudit
  BY KindsApart, EndsIs DEF AuditedApart
<1> QED BY <1>1, FindAndErase DEF DeleteTypePlan, ShareOps

LEMMA CreateInstitutionServes ==
  ASSUME NEW by \in Users, NEW x \in Institutions, NEW c
  PROVE  Serves("create_institution", by, x, NewInstitution(c), {x}, CreateInstitutionPlan(x, c))
<1> DEFINE row == NewInstitution(c)
           free(col) == IF c[col] # None THEN <<Free(<<col, c[col]>>)>> ELSE << >>
<1>1. /\ x \in Rows /\ IsRow(row) /\ RowFits(x, row) /\ DOMAIN row \cap DOMAIN Referring = {}
      /\ x \notin Accounts \cup Shares
  BY KindsApart DEF Rows, NewInstitution, IsRow, RowFits, Columns, Fits, Referring
<1>2. Checking(free("swift")) /\ Checking(free("routing"))
  BY ChecksFit, CheckingLiterals
<1> HIDE DEF row, free
<1> DEFINE p == free("swift") \o free("routing")
<1>3. Checking(p)
  BY <1>2, CheckingMore
<1>4. Needs(x, row) \subseteq {by, x} \cup Looks(Said(p))
  BY <1>1 DEF Needs
<1> HIDE DEF p
<1>5. Serves("create_institution", by, x, row, {x},
              p \o <<Insert(x, row)>> \o Ends("create_institution"))
  BY <1>1, <1>3, <1>4, ServesInsert DEF ShareOps
<1>6. Ends("create_institution") = CommitThenAudit
  BY EndsIs DEF AuditedApart
<1> QED BY <1>5, <1>6 DEF CreateInstitutionPlan, row, free, p

LEMMA UpdateInstitutionServes ==
  ASSUME NEW by \in Users, NEW x \in Institutions, NEW want \in InstitutionChanges
  PROVE  Serves("update_institution", by, x, want, {}, UpdateInstitutionPlan(x, want))
<1>1. DOMAIN want \cap (DOMAIN Referring \cup {"st"}) = {} /\ x \in Rows \ Shares
  BY CatalogueAssumption, KindsApart DEF Referring, Rows
<1>2. DOMAIN want \subseteq Columns(x)
  BY CatalogueAssumption, KindsApart DEF Columns
<1> QED BY <1>1, <1>2, RekeyingServes DEF UpdateInstitutionPlan, AuditedApart, ShareOps

LEMMA DeleteInstitutionServes ==
  ASSUME NEW by \in Users, NEW x \in Institutions
  PROVE  Serves("delete_institution", by, x, [st |-> "gone"], {}, DeleteInstitutionPlan(x))
<1> DEFINE s == Find(x, "404")  t == Statement("orphans", x, None)
<1>1. IsCheck(s) /\ IsCheck(t) /\ s.do \in Loading /\ s.x = x /\ x \notin Users
  BY ChecksFit, CheckLooks, KindsApart DEF Rows
<1> HIDE DEF s, t
<1>2. Checking(<<s, t>>) /\ x \in Looks(Said(<<s, t>>))
  BY <1>1, CheckingLiterals, LooksMore
<1>3. Serves("delete_institution", by, x, [st |-> "gone"], {},
              <<s, t>> \o Erase(x) \o Ends("delete_institution"))
  BY <1>1, <1>2, ServesErase DEF ShareOps
<1>4. Ends("delete_institution") = CommitThenAudit
  BY EndsIs DEF AuditedApart
<1> QED BY <1>3, <1>4 DEF DeleteInstitutionPlan, s, t

\* Accounts.
LEMMA CreateAccountServes ==
  ASSUME NEW u \in Users, NEW x \in Accounts, NEW s \in Shares, NEW a \in NewAccounts
  PROVE  Serves("create_account", u, x, NewAccount(u, a), {x, s}, CreateAccountPlan(u, x, s, a))
<1> DEFINE row == NewAccount(u, a)  share == NewShare(x, u, "owner")
           v == Insert(x, row)  w == Insert(s, share)
           c1 == Statement("free name", None, a.name)
           c2 == Find(a.type, "404")  c3 == Find(a.inst, "422")
<1>1. x \in Rows /\ s \in Rows /\ x # s /\ a.type \in Types /\ a.inst \in Institutions
  BY KindsApart, HoldingsAssumption DEF Rows
<1>2. IsRow(row) /\ RowFits(x, row)
  BY <1>1, KindsApart DEF NewAccount, IsRow, RowFits, Columns, Fits, Referring
<1>3. IsRow(share) /\ RowFits(s, share)
  BY <1>1, KindsApart DEF NewShare, IsRow, RowFits, Columns, Fits, Referring, PermissionLevel
<1>4. /\ IsWrite(v) /\ v.do = "insert" /\ v.x = x /\ v.arg = row
      /\ IsWrite(w) /\ w.do = "insert" /\ w.x = s /\ w.arg = share
  BY <1>1, <1>2, <1>3, InsertFits DEF Insert, Statement
<1>5. IsCheck(c1) /\ IsCheck(c2) /\ IsCheck(c3)
  BY <1>1, ChecksFit DEF Rows
<1>6. c2.do \in Loading /\ c2.x = a.type /\ c3.do \in Loading /\ c3.x = a.inst
  BY CheckLooks
<1>7. /\ DOMAIN row \cap DOMAIN Referring = {"owner", "type", "inst"}
      /\ row.owner = u /\ row.type = a.type /\ row.inst = a.inst
      /\ share.st = "live" /\ share.account = x /\ share.user = u /\ share.level = "owner"
  BY DEF NewAccount, NewShare, Referring
<1> HIDE DEF row, share, v, w, c1, c2, c3
<1>8. Body(<<v, w>>, {v, w})
  BY <1>1, <1>4, BodyLiterals, SaidLiterals DEF Body
<1>9. /\ \A t \in {v, w} : StatementOf("create_account", x, row, t)
      /\ Inserted({v, w}) = {x, s} /\ Grants({v, w}, x)
      /\ \A t \in {v, w} : t.do \notin {"update", "erase"}
  BY <1>1, <1>4 DEF StatementOf, Inserted, Grants
<1>10. Checking(<<c1, c2, c3>>)
  BY <1>5, CheckingLiterals
<1>11. a.type \in Looks(Said(<<c1, c2, c3>>)) /\ a.inst \in Looks(Said(<<c1, c2, c3>>))
  BY <1>6, LooksMore
<1>12. Needs(x, row) \subseteq {u} \cup {x, s} \cup Looks(Said(<<c1, c2, c3>>))
  BY <1>7, <1>11 DEF Needs
<1>13. Owning("create_account", x, row, Said(<<c1, c2, c3>>) \cup {v, w})
  <2> DEFINE S == Said(<<c1, c2, c3>>) \cup {v, w}
  <2>1. \A t \in Said(<<c1, c2, c3>>) : t.do \in Checks
    BY <1>10 DEF Checking, Said
  <2>2. \A t \in S : t.do \notin {"update", "cascade"} /\ (t.do = "insert" => t \in {v, w})
    BY <1>4, <2>1, ChecksApart
  <2>3. NewIn(S) = {<<x, row>>, <<s, share>>}
    BY <1>4, <2>2 DEF NewIn
  <2> HIDE DEF S
  <2>4. x \notin Shares /\ s \notin Accounts
    BY KindsApart
  <2>5. Paired({<<x, row>>, <<s, share>>}, S)
    BY <1>7, <2>4 DEF Paired
  <2>6. Owning("create_account", x, row, S)
    BY <2>2, <2>3, <2>5 DEF Owning, ShareOps
  <2> QED BY <2>6 DEF S
<1>14. Serves("create_account", u, x, row, {x, s},
               <<c1, c2, c3>> \o <<v, w>> \o Ends("create_account"))
  <2> DEFINE B == {v, w}  new == {x, s}  p == <<c1, c2, c3>>  b == <<v, w>>
  <2>1. /\ Checking(p) /\ Body(b, B) /\ \A t \in B : StatementOf("create_account", x, row, t)
        /\ Inserted(B) = new
        /\ Needs(x, row) \subseteq {u} \cup new \cup Looks(Said(p))
        /\ Grants(B, x) /\ \A t \in B : t.do \notin {"update", "erase"}
        /\ Owning("create_account", x, row, Said(p) \cup B)
    BY <1>8, <1>9, <1>10, <1>12, <1>13
  <2> HIDE DEF B, new, p, b
  <2>2. Serves("create_account", u, x, row, new, p \o b \o Ends("create_account"))
    BY <2>1, ServesBody DEF ShareOps
  <2> QED BY <2>2 DEF p, b, new
<1>15. <<c1, c2, c3>> \o <<v, w>> = <<c1, c2, c3, v, w>>
  <2> DEFINE S == {c1, c2, c3, v, w}  p == <<c1, c2, c3>>  q == <<v, w>>
             t == <<c1, c2, c3, v, w>>
  <2>1. /\ p \in Seq(S) /\ Len(p) = 3 /\ p[1] = c1 /\ p[2] = c2 /\ p[3] = c3
        /\ q \in Seq(S) /\ Len(q) = 2 /\ q[1] = v /\ q[2] = w
    OBVIOUS
  <2>2. /\ t \in Seq(S) /\ Len(t) = 5
        /\ t[1] = c1 /\ t[2] = c2 /\ t[3] = c3 /\ t[4] = v /\ t[5] = w
    OBVIOUS
  <2> HIDE DEF S, p, q, t
  <2> DEFINE pq == p \o q
  <2>3. pq \in Seq(S) /\ Len(pq) = 5 /\ \A i \in 1 .. 5 : pq[i] = IF i <= 3 THEN p[i] ELSE q[i - 3]
    <3>1. /\ pq \in Seq(S) /\ Len(pq) = Len(p) + Len(q)
          /\ \A i \in 1 .. Len(p) + Len(q) :
               pq[i] = IF i <= Len(p) THEN p[i] ELSE q[i - Len(p)]
      BY <2>1, ConcatProperties
    <3> HIDE DEF pq
    <3> QED BY <2>1, <3>1
  <2> HIDE DEF pq
  <2>4. \A i \in 1 .. 5 : pq[i] = t[i]
    <3>1. pq[1] = c1 /\ pq[2] = c2 /\ pq[3] = c3 /\ pq[4] = v /\ pq[5] = w
      BY <2>1, <2>3
    <3>2. \A i \in 1 .. 5 : i = 1 \/ i = 2 \/ i = 3 \/ i = 4 \/ i = 5
      OBVIOUS
    <3> QED BY <2>2, <3>1, <3>2
  <2>5. pq = t
    BY <2>2, <2>3, <2>4, SeqEqual
  <2> QED BY <2>5 DEF p, q, t, pq
<1>16. Ends("create_account") = CommitThenAudit
  BY EndsIs DEF AuditedApart
<1>17. Serves("create_account", u, x, row, {x, s}, <<c1, c2, c3, v, w>> \o CommitThenAudit)
  BY <1>14, <1>15, <1>16
<1> QED BY <1>17 DEF CreateAccountPlan, row, share, v, w, c1, c2, c3

LEMMA UpdateAccountServes ==
  ASSUME NEW by \in Users, NEW x \in Accounts, NEW want \in AccountChanges
  PROVE  Serves("update_account", by, x, want, {}, UpdateAccountPlan(x, want))
<1> DEFINE c1 == <<Statement("mine", x, None)>>
           c2 == IF "name" \in DOMAIN want THEN <<Statement("rename", x, want.name)>> ELSE << >>
           c3 == IF "type" \in DOMAIN want THEN <<Find(want.type, "404")>> ELSE << >>
           c4 == IF "inst" \in DOMAIN want THEN <<Find(want.inst, "422")>> ELSE << >>
           w == Update(x, want)
<1>1. x \in Rows /\ Fits(x, want) /\ "st" \notin DOMAIN want
  BY HoldingsAssumption DEF Rows
<1>2. /\ "type" \in DOMAIN want => want.type \in Rows
      /\ "inst" \in DOMAIN want => want.inst \in Rows
  BY <1>1, KindsApart DEF Fits, Referring, Rows
<1>3. DOMAIN want \cap DOMAIN Referring \subseteq {"type", "inst"}
  BY HoldingsAssumption DEF Referring
<1>4. Checking(c1) /\ Checking(c2) /\ Checking(c3) /\ Checking(c4)
  BY <1>1, <1>2, ChecksFit, CheckingLiterals
<1>5. x \in Looks(Said(c1))
  <2> DEFINE s == Statement("mine", x, None)
  <2>1. s.do \in Loading /\ s.x = x
    BY CheckLooks
  <2> HIDE DEF s
  <2>2. x \in Looks(Said(<<s>>))
    BY <2>1, LooksMore
  <2> QED BY <2>2 DEF s
<1>6. /\ "type" \in DOMAIN want => want.type \in Looks(Said(c3))
      /\ "inst" \in DOMAIN want => want.inst \in Looks(Said(c4))
  BY CheckLooks, LooksMore
<1> HIDE DEF c1, c2, c3, c4, w
<1> DEFINE p == c1 \o c2 \o c3 \o c4
<1>7. /\ Checking(p)
      /\ Looks(Said(p)) = Looks(Said(c1)) \cup Looks(Said(c2)) \cup Looks(Said(c3)) \cup Looks(Said(c4))
  BY <1>4, CheckingMore, LooksMore
<1> HIDE DEF p
<1>8. Needs(x, want) \subseteq {by} \cup Looks(Said(p)) /\ x \in Looks(Said(p))
  BY <1>3, <1>5, <1>6, <1>7 DEF Needs
<1>9. DOMAIN want \cap Holders = {} /\ x \notin Shares
  BY HoldingsAssumption, KindsApart DEF Holders
<1>10. Serves("update_account", by, x, want, {}, p \o <<w>> \o Ends("update_account"))
  BY <1>1, <1>7, <1>8, <1>9, ServesUpdate DEF w, ShareOps
<1>11. Ends("update_account") = AuditAndCommit
  BY EndsIs DEF AuditedApart
<1> QED BY <1>10, <1>11 DEF UpdateAccountPlan, p, c1, c2, c3, c4, w

LEMMA DeleteAccountServes ==
  ASSUME NEW by \in Users, NEW x \in Accounts
  PROVE  Serves("delete_account", by, x, [st |-> "deleted"], {}, DeleteAccountPlan(x))
<1> DEFINE s == Statement("mine", x, None)
<1>1. x \in Rows \ Shares /\ IsCheck(s) /\ s.do \in Loading /\ s.x = x
  BY ChecksFit, CheckLooks, KindsApart DEF Rows
<1> HIDE DEF s
<1>2. Serves("delete_account", by, x, [st |-> "deleted"], {},
              <<s, Update(x, [st |-> "deleted"])>> \o AuditAndCommit)
  BY <1>1, Deleting, FindAndUpdateServes DEF AuditedApart, ShareOps
<1> QED BY <1>2, Deleting DEF DeleteAccountPlan, s

\* Shares.
LEMMA ShareAccountServes ==
  ASSUME NEW by \in Users, NEW x \in Shares, NEW a \in Accounts, NEW v \in Users,
         NEW level \in ShareLevels
  PROVE  Serves("share_account", by, x, NewShare(a, v, level), {x}, ShareAccountPlan(x, a, v, level))
<1> DEFINE row == NewShare(a, v, level)  w == Insert(x, row)
           c1 == Find(a, "404")  c2 == Statement("owner", a, None)
           c3 == Statement("other", v, None)
           c4 == IF level = "owner" THEN <<Refuse("422")>> ELSE << >>
           c5 == Free(<<"share", a, v>>)
<1>1. x \in Rows /\ a \in Rows /\ v \in Rows
  BY DEF Rows
<1>2. IsRow(row) /\ RowFits(x, row)
  BY <1>1, KindsApart, HoldingsAssumption DEF NewShare, IsRow, RowFits, Columns, Fits, Referring
<1>3. /\ DOMAIN row \cap DOMAIN Referring = {"account", "user"}
      /\ row.account = a /\ row.user = v /\ row.level = level /\ x \notin Accounts
  BY KindsApart DEF NewShare, Referring
<1>4. IsCheck(c1) /\ IsCheck(c2) /\ IsCheck(c3) /\ Checking(c4) /\ IsCheck(c5)
  BY <1>1, ChecksFit, CheckingLiterals
<1>5. c1.do \in Loading /\ c1.x = a /\ c3.do \in Loading /\ c3.x = v
  BY CheckLooks
<1>6. level = "owner" => Refused(Said(c4))
  BY SaidLiterals DEF Refused, Refuse, Statement
<1>7. <<c5, w>> = <<c5>> \o <<w>>
  OBVIOUS
<1> HIDE DEF row, w, c1, c2, c3, c4, c5
<1> DEFINE p == <<c1, c2, c3>> \o c4
<1>8. Checking(<<c1, c2, c3>>) /\ Checking(p) /\ Checking(<<c5>>) /\ Checking(p \o <<c5>>)
  BY <1>4, CheckingLiterals, CheckingMore
<1>9. a \in Looks(Said(<<c1, c2, c3>>)) /\ v \in Looks(Said(<<c1, c2, c3>>))
  BY <1>5, LooksMore
<1>10. a \in Looks(Said(p \o <<c5>>)) /\ v \in Looks(Said(p \o <<c5>>))
  BY <1>4, <1>8, <1>9, LooksMore
<1>11. level = "owner" => Refused(Said(p \o <<c5>>))
  <2>1. Said(c4) \subseteq Said(p \o <<c5>>)
    BY <1>4, <1>8, SaidMore DEF Checking
  <2> QED BY <1>6, <2>1 DEF Refused
<1> HIDE DEF p
<1>12. Needs(x, row) \subseteq {by, x} \cup Looks(Said(p \o <<c5>>))
  BY <1>3, <1>10 DEF Needs
<1>13. Serves("share_account", by, x, row, {x}, p \o <<c5>> \o <<w>> \o Ends("share_account"))
  BY <1>1, <1>2, <1>3, <1>8, <1>11, <1>12, ServesInsert DEF w, ShareOps
<1>14. p \o <<c5>> \o <<w>> = p \o <<c5, w>>
  <2> DEFINE S == {p[i] : i \in 1 .. Len(p)} \cup {c5, w}
  <2>1. p \in Seq(S) /\ <<c5>> \in Seq(S) /\ <<w>> \in Seq(S)
    <3>1. p \in Seq({p[i] : i \in 1 .. Len(p)})
      BY <1>8 DEF Checking, IsSeq
    <3> QED BY <3>1, SeqMonotonic
  <2> HIDE DEF S
  <2>2. p \o <<c5>> \o <<w>> = p \o (<<c5>> \o <<w>>)
    BY <2>1, ConcatAssociative
  <2> QED BY <1>7, <2>2
<1>15. Ends("share_account") = CommitThenAudit
  BY EndsIs DEF AuditedApart
<1>16. Serves("share_account", by, x, row, {x}, p \o <<c5, w>> \o CommitThenAudit)
  BY <1>13, <1>14, <1>15
<1> QED BY <1>16 DEF ShareAccountPlan, p, row, w, c1, c2, c3, c4, c5

\* The checks before a change of a share.
LEMMA SharingMinds ==
  ASSUME NEW x \in Shares, NEW a \in Accounts, NEW want, NEW q, Checking(q),
         Promoted(want) => Refused(Said(q)), \A s \in Said(q) : s.do \notin {"owner", "share"}
  PROVE  LET p == <<Statement("owner", a, None), Statement("share", x, a)>>
         IN Minded(x, want, Said(p \o q)) /\ OwnerFirst(p \o q)
<1> DEFINE c1 == Statement("owner", a, None)  c2 == Statement("share", x, a)  p == <<c1, c2>>
<1>1. /\ c1.do = "owner" /\ c1.x = a /\ c2.do = "share" /\ c2.x = x /\ c2.arg = a
      /\ p \in Seq({c1, c2}) /\ Len(p) = 2 /\ p[1] = c1 /\ p[2] = c2
  BY DEF Statement
<1>2. Said(p) = {c1, c2}
  BY SaidLiterals
<1> HIDE DEF c1, c2, p
<1>3. IsSeq(p) /\ IsSeq(q)
  BY <1>1, SeqIs DEF Checking
<1>4. OwnerFirst(p)
  BY <1>1 DEF OwnerFirst
<1>5. OwnerFirst(p \o q)
  BY <1>3, <1>4, FirstMore
<1>6. Said(p \o q) = {c1, c2} \cup Said(q)
  BY <1>2, <1>3, SaidMore
<1>7. Minded(x, want, Said(p \o q))
  BY <1>1, <1>6 DEF Minded, Looked, OwnerAsked, Refused
<1> QED BY <1>5, <1>7 DEF p, c1, c2

LEMMA UpdateShareServes ==
  ASSUME NEW by \in Users, NEW x \in Shares, NEW a \in Accounts,
         NEW level \in ShareLevels
  PROVE  Serves("update_share", by, x, [level |-> level], {}, UpdateSharePlan(x, a, level))
<1> DEFINE c1 == Statement("owner", a, None)  c2 == Statement("share", x, a)
           c3 == IF level = "owner" THEN <<Refuse("422")>> ELSE << >>
           want == [level |-> level]  w == Update(x, want)
<1>1. /\ x \in Rows /\ DOMAIN want = {"level"} /\ DOMAIN want \cap DOMAIN Referring = {}
      /\ DOMAIN want \cap Holders = {} /\ want.level = level
  BY DEF Rows, Referring, Holders
<1>2. IsCheck(c1) /\ IsCheck(c2) /\ Checking(c3)
  BY <1>1, ChecksFit, CheckingLiterals
<1>3. c2.do \in Loading /\ c2.x = x
  BY CheckLooks
<1> DEFINE p == <<c1, c2>> \o c3
<1>4. Minded(x, want, Said(p)) /\ OwnerFirst(p)
  <2>1. /\ level = "owner" => Refused(Said(c3))
        /\ \A s \in Said(c3) : s.do \notin {"owner", "share"}
    BY SaidLiterals DEF Refused, Refuse, Statement
  <2> HIDE DEF c3, want
  <2>2. Promoted(want) => Refused(Said(c3))
    BY <1>1, <2>1 DEF Promoted
  <2> QED BY <1>2, <2>1, <2>2, SharingMinds
<1> HIDE DEF c1, c2, c3, want, w, p
<1>5. Checking(p) /\ x \in Looks(Said(p))
  BY <1>2, <1>3, CheckingLiterals, CheckingMore, LooksMore DEF p
<1>6. Fits(x, want) /\ "st" \notin DOMAIN want /\ Needs(x, want) \subseteq {by} \cup Looks(Said(p))
  BY <1>1, <1>5, KindsApart, HoldingsAssumption DEF Needs, Fits, Columns
<1>7. Serves("update_share", by, x, want, {}, p \o <<w>> \o Ends("update_share"))
  BY <1>1, <1>4, <1>5, <1>6, ServesUpdate DEF w, ShareOps
<1>8. Ends("update_share") = AuditAndCommit
  BY EndsIs DEF AuditedApart
<1> QED BY <1>7, <1>8 DEF UpdateSharePlan, p, c1, c2, c3, want, w

LEMMA RevokeShareServes ==
  ASSUME NEW by \in Users, NEW x \in Shares, NEW a \in Accounts
  PROVE  Serves("revoke_share", by, x, [st |-> "deleted"], {}, RevokeSharePlan(x, a))
<1> DEFINE c1 == Statement("owner", a, None)  c2 == Statement("share", x, a)
           want == [st |-> "deleted"]  w == Update(x, want)
<1>1. /\ x \in Rows /\ DOMAIN want \cap DOMAIN Referring = {} /\ want.st \in {"live", "deleted"}
      /\ DOMAIN want \subseteq Columns(x) /\ "level" \notin DOMAIN want
      /\ DOMAIN want \cap Holders = {} /\ ~ Promoted(want)
  BY Deleting DEF Rows, Holders, Promoted
<1>2. IsCheck(c1) /\ IsCheck(c2)
  BY <1>1, ChecksFit
<1>3. c2.do \in Loading /\ c2.x = x
  BY CheckLooks
<1>4. <<c1, c2, w>> = <<c1, c2>> \o <<w>> /\ <<c1, c2>> \o << >> = <<c1, c2>>
  OBVIOUS
<1>5. Minded(x, want, Said(<<c1, c2>>)) /\ OwnerFirst(<<c1, c2>>)
  <2>1. Checking(<< >>) /\ Said(<< >>) = {}
    BY CheckingLiterals, SaidLiterals
  <2> HIDE DEF want
  <2> DEFINE p == <<c1, c2>>  q == << >>
  <2>2. Minded(x, want, Said(p \o q)) /\ OwnerFirst(p \o q)
    BY <1>1, <2>1, SharingMinds
  <2> QED BY <1>4, <2>2
<1> HIDE DEF c1, c2, want, w
<1>6. Checking(<<c1, c2>>) /\ x \in Looks(Said(<<c1, c2>>))
  BY <1>2, <1>3, CheckingLiterals, LooksMore
<1>7. Fits(x, want) /\ Needs(x, want) \subseteq {by} \cup Looks(Said(<<c1, c2>>))
  BY <1>1, <1>6 DEF Needs, Fits
<1>8. Serves("revoke_share", by, x, want, {}, <<c1, c2>> \o <<w>> \o Ends("revoke_share"))
  BY <1>1, <1>5, <1>6, <1>7, ServesUpdate DEF w, ShareOps
<1>9. Ends("revoke_share") = AuditAndCommit
  BY EndsIs DEF AuditedApart
<1>10. Serves("revoke_share", by, x, want, {}, <<c1, c2, w>> \o AuditAndCommit)
  BY <1>4, <1>8, <1>9
<1> QED BY <1>10, Deleting DEF RevokeSharePlan, c1, c2, want, w

\* Cards.
LEMMA CreateCardServes ==
  ASSUME NEW by \in Users, NEW x \in Cards, NEW a \in Accounts, NEW i \in NewCards
  PROVE  Serves("create_card", by, x, NewCard(a, i), {x}, CreateCardPlan(x, a, i))
<1> DEFINE row == NewCard(a, i)  s == Statement("my account", a, None)
           j == i.inst
           c2 == IF j # None THEN <<Find(j, "404")>> ELSE << >>
<1>1. x \in Rows /\ a \in Rows /\ j \in Institutions \cup {None} /\ (j # None => j \in Rows)
  BY HoldingsAssumption DEF Rows
<1>2. IsRow(row) /\ RowFits(x, row)
  BY <1>1, KindsApart DEF NewCard, IsRow, RowFits, Columns, Fits, Referring
<1>3. /\ DOMAIN row \cap DOMAIN Referring = {"account", "inst"}
      /\ row.account = a /\ row.inst = j /\ x \notin Accounts \cup Shares
  BY KindsApart DEF NewCard, Referring
<1>4. IsCheck(s) /\ Checking(c2) /\ s.do \in Loading /\ s.x = a
  BY <1>1, ChecksFit, CheckingLiterals, CheckLooks
<1>5. j # None => j \in Looks(Said(c2))
  BY CheckLooks, LooksMore
<1> HIDE DEF row, s, c2, j
<1> DEFINE p == <<s>> \o c2
<1>6. Checking(p) /\ a \in Looks(Said(p)) /\ (j # None => j \in Looks(Said(p)))
  BY <1>4, <1>5, CheckingLiterals, CheckingMore, LooksMore
<1> HIDE DEF p
<1>7. Needs(x, row) \subseteq {by, x} \cup Looks(Said(p))
  BY <1>3, <1>6, SessionsAssumption DEF Needs
<1>8. Serves("create_card", by, x, row, {x}, p \o <<Insert(x, row)>> \o Ends("create_card"))
  BY <1>1, <1>2, <1>3, <1>6, <1>7, ServesInsert DEF ShareOps
<1>9. Ends("create_card") = CommitThenAudit
  BY EndsIs DEF AuditedApart
<1> QED BY <1>8, <1>9 DEF CreateCardPlan, p, row, s, c2, j

LEMMA UpdateCardServes ==
  ASSUME NEW by \in Users, NEW x \in Cards, NEW want \in CardChanges
  PROVE  Serves("update_card", by, x, want, {}, UpdateCardPlan(x, want))
<1> DEFINE s == Statement("my card", x, None)  w == Update(x, want)
           c2 == IF "inst" \in DOMAIN want /\ want.inst # None
                 THEN <<Find(want.inst, "404")>> ELSE << >>
<1>1. /\ x \in Rows /\ x \notin Shares /\ Fits(x, want) /\ "st" \notin DOMAIN want
      /\ DOMAIN want \cap Holders = {}
  BY HoldingsAssumption, KindsApart DEF Rows, Holders
<1>2. "inst" \in DOMAIN want /\ want.inst # None => want.inst \in Rows
  BY <1>1 DEF Fits, Referring, Rows
<1>3. DOMAIN want \cap DOMAIN Referring \subseteq {"inst"}
  BY HoldingsAssumption DEF Referring
<1>4. IsCheck(s) /\ Checking(c2) /\ s.do \in Loading /\ s.x = x
  BY <1>1, <1>2, ChecksFit, CheckingLiterals, CheckLooks
<1>5. "inst" \in DOMAIN want /\ want.inst # None => want.inst \in Looks(Said(c2))
  BY CheckLooks, LooksMore
<1> HIDE DEF s, c2, w
<1> DEFINE p == <<s>> \o c2
<1>6. /\ Checking(p) /\ x \in Looks(Said(p))
      /\ "inst" \in DOMAIN want /\ want.inst # None => want.inst \in Looks(Said(p))
  BY <1>4, <1>5, CheckingLiterals, CheckingMore, LooksMore
<1> HIDE DEF p
<1>7. Needs(x, want) \subseteq {by} \cup Looks(Said(p))
  BY <1>3, <1>6, SessionsAssumption DEF Needs
<1>8. Serves("update_card", by, x, want, {}, p \o <<w>> \o Ends("update_card"))
  BY <1>1, <1>6, <1>7, ServesUpdate DEF w, ShareOps
<1>9. Ends("update_card") = AuditAndCommit
  BY EndsIs DEF AuditedApart
<1> QED BY <1>8, <1>9 DEF UpdateCardPlan, p, s, c2, w

LEMMA DeleteCardServes ==
  ASSUME NEW by \in Users, NEW x \in Cards
  PROVE  Serves("delete_card", by, x, [st |-> "deleted"], {}, DeleteCardPlan(x))
<1> DEFINE s == Statement("my card", x, None)
<1>1. x \in Rows \ Shares /\ IsCheck(s) /\ s.do \in Loading /\ s.x = x
  BY ChecksFit, CheckLooks, KindsApart DEF Rows
<1> HIDE DEF s
<1>2. Serves("delete_card", by, x, [st |-> "deleted"], {},
              <<s, Update(x, [st |-> "deleted"])>> \o AuditAndCommit)
  BY <1>1, Deleting, FindAndUpdateServes DEF AuditedApart, ShareOps
<1> QED BY <1>2, Deleting DEF DeleteCardPlan, s

-----------------------------------------------------------------------------
(* A request arrives                                                       *)

\* Nobody knows of a fresh identity.
Fresh(x) ==
  x \in Rows /\ db[x].st = "absent" /\
    \A p \in Reqs : x \notin DOMAIN req[p].writes \cup Inserting(req[p])

LEMMA FreshOnes ==
  ASSUME Consistent, NEW table, table \subseteq Rows, FreshIn(table) # {}
  PROVE  LET x == CHOOSE x \in FreshIn(table) : TRUE IN x \in table /\ Fresh(x)
<1> DEFINE x == CHOOSE x \in FreshIn(table) : TRUE
<1>1. x \in FreshIn(table)
  OBVIOUS
<1> HIDE DEF x
<1>2. x \in table /\ db[x].st = "absent"
  BY <1>1 DEF FreshIn
<1>3. ASSUME NEW p \in Reqs
      PROVE  x \notin DOMAIN req[p].writes \cup Inserting(req[p])
  <2>1. DOMAIN req[p].todo = 1 .. Len(req[p].todo)
    <3> DEFINE q == req[p].todo  S == {q[i] : i \in 1 .. Len(q)}
    <3>1. q \in Seq(S)
      BY DEF Consistent, Typed, IsReq, PlanFits, IsSeq
    <3> HIDE DEF q, S
    <3>2. DOMAIN q = 1 .. Len(q)
      BY <3>1
    <3> QED BY <3>2 DEF q
  <2> QED BY <1>1, <2>1 DEF FreshIn, Inserting
<1>4. x \in table /\ Fresh(x)
  BY <1>2, <1>3 DEF Fresh
<1> QED BY <1>4 DEF x

LEMMA GatesAnswer ==
  ASSUME NEW u
  PROVE  /\ CurrentUser(u) # "pending" /\ (CurrentUser(u) = "ok" => db[u].st = "live")
         /\ AdminUser(u) # "pending" /\ (AdminUser(u) = "ok" => db[u].st = "live")
BY DEF CurrentUser, AdminUser, Exists

\* A request arrives for a handler whose plan does what its operation is about;
\* the acting user is live, or the one who registers.
Arrives(r, op, by, gate, x, want, new, plan) ==
  /\ Arrive(r, op, by, gate, x, want, plan)
  /\ by \in Users /\ gate # "pending" /\ (gate = "ok" => db[by].st = "live" \/ by \in new)
  /\ Serves(op, by, x, want, new, plan) /\ \A z \in new : Fresh(z)

Arrival(r) == \E op, by, gate, x, want, new, plan : Arrives(r, op, by, gate, x, want, new, plan)

LEMMA Arriving ==
  ASSUME NEW r, NEW op, NEW by \in Users, NEW gate, NEW x, NEW want, NEW new, NEW plan,
         gate # "pending", gate = "ok" => db[by].st = "live" \/ by \in new,
         Serves(op, by, x, want, new, plan), \A z \in new : Fresh(z),
         Arrive(r, op, by, gate, x, want, plan)
  PROVE  Arrival(r)
<1>1. Arrives(r, op, by, gate, x, want, new, plan)
  BY DEF Arrives
<1> QED BY <1>1 DEF Arrival

LEMMA ArrivingForARow ==
  ASSUME NEW r, NEW op, NEW by \in Users, NEW gate, NEW x, NEW want, NEW plan,
         gate # "pending", gate = "ok" => db[by].st = "live",
         Serves(op, by, x, want, {}, plan), Arrive(r, op, by, gate, x, want, plan)
  PROVE  Arrival(r)
<1>1. \A z \in {} : Fresh(z)
  OBVIOUS
<1> QED BY <1>1, Arriving

LEMMA ArrivingWithARow ==
  ASSUME NEW r, NEW op, NEW by \in Users, NEW gate, NEW x, NEW want, NEW plan,
         gate # "pending", gate = "ok" => db[by].st = "live" \/ by = x,
         Serves(op, by, x, want, {x}, plan), Fresh(x), Arrive(r, op, by, gate, x, want, plan)
  PROVE  Arrival(r)
<1>1. (\A z \in {x} : Fresh(z)) /\ (by = x => by \in {x})
  OBVIOUS
<1> QED BY <1>1, Arriving

LEMMA PeopleArrive ==
  ASSUME Consistent, NEW r \in Reqs,
         \/ Register(r) \/ UpdateProfile(r) \/ Deactivate(r) \/ DeleteUser(r) \/ ViewUser(r)
         \/ ListUsers(r)
  PROVE  Arrival(r)
<1>1. Callers \subseteq Users
  BY DEF Callers
<1>2. CASE Register(r)
  <2> DEFINE x == CHOOSE x \in FreshIn(Users) : TRUE
  <2>1. PICK h \in Handles :
          Arrive(r, "register", x, "ok", x, NewUser(h), RegisterPlan(x, h))
    BY <1>2 DEF Register
  <2>2. x \in Users /\ Fresh(x)
    BY <1>2, FreshOnes DEF Register, Rows
  <2> HIDE DEF x
  <2>3. Serves("register", x, x, NewUser(h), {x}, RegisterPlan(x, h))
    BY <2>2, RegisterServes
  <2> QED BY <2>1, <2>2, <2>3, ArrivingWithARow
<1>3. CASE UpdateProfile(r)
  <2>1. PICK u \in Callers, want \in ProfileChanges :
          Arrive(r, "update_profile", u, CurrentUser(u), u, want, UpdateProfilePlan(u, want))
    BY <1>3 DEF UpdateProfile
  <2> QED BY <1>1, <2>1, UpdateProfileServes, GatesAnswer, ArrivingForARow
<1>4. CASE Deactivate(r)
  <2>1. PICK by \in Callers, u \in Callers :
          Arrive(r, "deactivate", by, AdminUser(by), u, [st |-> "deleted"], DeactivatePlan(u))
    BY <1>4 DEF Deactivate
  <2> QED BY <1>1, <2>1, DeactivateServes, GatesAnswer, ArrivingForARow
<1>5. CASE DeleteUser(r)
  <2>1. PICK by \in Callers, u \in Callers :
          Arrive(r, "delete_user", by, AdminUser(by), u, [st |-> "gone"], DeleteUserPlan(u))
    BY <1>5 DEF DeleteUser
  <2> QED BY <1>1, <2>1, DeleteUserServes, GatesAnswer, ArrivingForARow
<1>6. CASE ViewUser(r)
  <2>1. PICK by \in Callers, u \in Callers :
          Arrive(r, "view_user", by, AdminUser(by), u, Nothing, ViewUserPlan(u))
    BY <1>6 DEF ViewUser
  <2> QED BY <1>1, <2>1, ViewUserServes, GatesAnswer, ArrivingForARow
<1>7. CASE ListUsers(r)
  <2>1. PICK by \in Callers :
          Arrive(r, "list_users", by, AdminUser(by), by, Nothing, ListUsersPlan)
    BY <1>7 DEF ListUsers
  <2> QED BY <1>1, <2>1, ListUsersServes, GatesAnswer, ArrivingForARow
<1> QED BY <1>2, <1>3, <1>4, <1>5, <1>6, <1>7

LEMMA CatalogueArrives ==
  ASSUME Consistent, NEW r \in Reqs,
         \/ CreateType(r) \/ UpdateType(r) \/ DeleteType(r)
         \/ CreateInstitution(r) \/ UpdateInstitution(r) \/ DeleteInstitution(r)
  PROVE  Arrival(r)
<1>1. Callers \subseteq Users
  BY DEF Callers
<1>2. CASE CreateType(r)
  <2> DEFINE x == CHOOSE x \in FreshIn(Types) : TRUE
  <2>1. PICK by \in Callers, k \in NewTypes :
          Arrive(r, "create_type", by, AdminUser(by), x, NewType(k), CreateTypePlan(x, k))
    BY <1>2 DEF CreateType
  <2>2. x \in Types /\ Fresh(x)
    BY <1>2, FreshOnes DEF CreateType, Rows
  <2> HIDE DEF x
  <2>3. Serves("create_type", by, x, NewType(k), {x}, CreateTypePlan(x, k))
    BY <1>1, <2>2, CreateTypeServes
  <2> QED BY <1>1, <2>1, <2>2, <2>3, GatesAnswer, ArrivingWithARow
<1>3. CASE UpdateType(r)
  <2>1. PICK by \in Callers, x \in Types, want \in TypeChanges :
          Arrive(r, "update_type", by, AdminUser(by), x, want, UpdateTypePlan(x, want))
    BY <1>3 DEF UpdateType
  <2> QED BY <1>1, <2>1, UpdateTypeServes, GatesAnswer, ArrivingForARow
<1>4. CASE DeleteType(r)
  <2>1. PICK by \in Callers, x \in Types :
          Arrive(r, "delete_type", by, AdminUser(by), x, [st |-> "gone"], DeleteTypePlan(x))
    BY <1>4 DEF DeleteType
  <2> QED BY <1>1, <2>1, DeleteTypeServes, GatesAnswer, ArrivingForARow
<1>5. CASE CreateInstitution(r)
  <2> DEFINE x == CHOOSE x \in FreshIn(Institutions) : TRUE
  <2>1. PICK by \in Callers, c \in Codes :
          Arrive(r, "create_institution", by, AdminUser(by), x, NewInstitution(c),
                 CreateInstitutionPlan(x, c))
    BY <1>5 DEF CreateInstitution
  <2>2. x \in Institutions /\ Fresh(x)
    BY <1>5, FreshOnes DEF CreateInstitution, Rows
  <2> HIDE DEF x
  <2>3. Serves("create_institution", by, x, NewInstitution(c), {x}, CreateInstitutionPlan(x, c))
    BY <1>1, <2>2, CreateInstitutionServes
  <2> QED BY <1>1, <2>1, <2>2, <2>3, GatesAnswer, ArrivingWithARow
<1>6. CASE UpdateInstitution(r)
  <2>1. PICK by \in Callers, x \in Institutions, want \in InstitutionChanges :
          Arrive(r, "update_institution", by, AdminUser(by), x, want,
                 UpdateInstitutionPlan(x, want))
    BY <1>6 DEF UpdateInstitution
  <2> QED BY <1>1, <2>1, UpdateInstitutionServes, GatesAnswer, ArrivingForARow
<1>7. CASE DeleteInstitution(r)
  <2>1. PICK by \in Callers, x \in Institutions :
          Arrive(r, "delete_institution", by, AdminUser(by), x, [st |-> "gone"],
                 DeleteInstitutionPlan(x))
    BY <1>7 DEF DeleteInstitution
  <2> QED BY <1>1, <2>1, DeleteInstitutionServes, GatesAnswer, ArrivingForARow
<1> QED BY <1>2, <1>3, <1>4, <1>5, <1>6, <1>7

LEMMA HoldingsArrive ==
  ASSUME Consistent, NEW r \in Reqs,
         \/ CreateAccount(r) \/ UpdateAccount(r) \/ DeleteAccount(r)
         \/ ShareAccount(r) \/ UpdateShare(r) \/ RevokeShare(r)
         \/ CreateCard(r) \/ UpdateCard(r) \/ DeleteCard(r)
  PROVE  Arrival(r)
<1>1. Callers \subseteq Users
  BY DEF Callers
<1>2. CASE CreateAccount(r)
  <2> DEFINE x == CHOOSE x \in FreshIn(Accounts) : TRUE
             s == CHOOSE s \in FreshIn(Shares) : TRUE
  <2>1. PICK u \in Callers, a \in NewAccounts :
          Arrive(r, "create_account", u, CurrentUser(u), x, NewAccount(u, a),
                 CreateAccountPlan(u, x, s, a))
    BY <1>2 DEF CreateAccount
  <2>2. x \in Accounts /\ Fresh(x)
    BY <1>2, FreshOnes DEF CreateAccount, Rows
  <2>3. s \in Shares /\ Fresh(s)
    BY <1>2, FreshOnes DEF CreateAccount, Rows
  <2> HIDE DEF x, s
  <2>4. Serves("create_account", u, x, NewAccount(u, a), {x, s}, CreateAccountPlan(u, x, s, a))
    BY <1>1, <2>2, <2>3, CreateAccountServes
  <2>5. \A z \in {x, s} : Fresh(z)
    BY <2>2, <2>3
  <2>6. CurrentUser(u) # "pending" /\ (CurrentUser(u) = "ok" => db[u].st = "live")
    BY GatesAnswer
  <2> QED BY <1>1, <2>1, <2>4, <2>5, <2>6, Arriving
<1>3. CASE UpdateAccount(r)
  <2>1. PICK u \in Callers, x \in Accounts, want \in AccountChanges :
          Arrive(r, "update_account", u, CurrentUser(u), x, want, UpdateAccountPlan(x, want))
    BY <1>3 DEF UpdateAccount
  <2> QED BY <1>1, <2>1, UpdateAccountServes, GatesAnswer, ArrivingForARow
<1>4. CASE DeleteAccount(r)
  <2>1. PICK u \in Callers, x \in Accounts :
          Arrive(r, "delete_account", u, CurrentUser(u), x, [st |-> "deleted"],
                 DeleteAccountPlan(x))
    BY <1>4 DEF DeleteAccount
  <2> QED BY <1>1, <2>1, DeleteAccountServes, GatesAnswer, ArrivingForARow
<1>5. CASE ShareAccount(r)
  <2> DEFINE x == CHOOSE x \in FreshIn(Shares) : TRUE
  <2>1. PICK u \in Callers, v \in Callers, a \in Accounts, level \in ShareLevels :
          Arrive(r, "share_account", u, CurrentUser(u), x, NewShare(a, v, level),
                 ShareAccountPlan(x, a, v, level))
    BY <1>5 DEF ShareAccount
  <2>2. x \in Shares /\ Fresh(x)
    BY <1>5, FreshOnes DEF ShareAccount, Rows
  <2> HIDE DEF x
  <2>3. Serves("share_account", u, x, NewShare(a, v, level), {x}, ShareAccountPlan(x, a, v, level))
    BY <1>1, <2>2, ShareAccountServes
  <2> QED BY <1>1, <2>1, <2>2, <2>3, GatesAnswer, ArrivingWithARow
<1>6. CASE UpdateShare(r)
  <2>1. PICK u \in Callers, s \in Shares, a \in Accounts, level \in ShareLevels :
          Arrive(r, "update_share", u, CurrentUser(u), s, [level |-> level],
                 UpdateSharePlan(s, a, level))
    BY <1>6 DEF UpdateShare
  <2> QED BY <1>1, <2>1, UpdateShareServes, GatesAnswer, ArrivingForARow
<1>7. CASE RevokeShare(r)
  <2>1. PICK u \in Callers, s \in Shares, a \in Accounts :
          Arrive(r, "revoke_share", u, CurrentUser(u), s, [st |-> "deleted"],
                 RevokeSharePlan(s, a))
    BY <1>7 DEF RevokeShare
  <2> QED BY <1>1, <2>1, RevokeShareServes, GatesAnswer, ArrivingForARow
<1>8. CASE CreateCard(r)
  <2> DEFINE x == CHOOSE x \in FreshIn(Cards) : TRUE
  <2>1. PICK u \in Callers, a \in Accounts, i \in NewCards :
          Arrive(r, "create_card", u, CurrentUser(u), x, NewCard(a, i), CreateCardPlan(x, a, i))
    BY <1>8 DEF CreateCard
  <2>2. x \in Cards /\ Fresh(x)
    BY <1>8, FreshOnes DEF CreateCard, Rows
  <2> HIDE DEF x
  <2>3. Serves("create_card", u, x, NewCard(a, i), {x}, CreateCardPlan(x, a, i))
    BY <1>1, <2>2, CreateCardServes
  <2> QED BY <1>1, <2>1, <2>2, <2>3, GatesAnswer, ArrivingWithARow
<1>9. CASE UpdateCard(r)
  <2>1. PICK u \in Callers, x \in Cards, want \in CardChanges :
          Arrive(r, "update_card", u, CurrentUser(u), x, want, UpdateCardPlan(x, want))
    BY <1>9 DEF UpdateCard
  <2> QED BY <1>1, <2>1, UpdateCardServes, GatesAnswer, ArrivingForARow
<1>10. CASE DeleteCard(r)
  <2>1. PICK u \in Callers, x \in Cards :
          Arrive(r, "delete_card", u, CurrentUser(u), x, [st |-> "deleted"], DeleteCardPlan(x))
    BY <1>10 DEF DeleteCard
  <2> QED BY <1>1, <2>1, DeleteCardServes, GatesAnswer, ArrivingForARow
<1> QED BY <1>2, <1>3, <1>4, <1>5, <1>6, <1>7, <1>8, <1>9, <1>10

LEMMA BeginArrives ==
  ASSUME Consistent, NEW r \in Reqs, Begin(r)
  PROVE  Arrival(r)
BY PeopleArrive, CatalogueArrives, HoldingsArrive DEF Begin

\* The request that has arrived.
LEMMA ArrivedIs ==
  ASSUME Consistent, NEW r \in Reqs, NEW op, NEW by, NEW gate, NEW x, NEW want, NEW new, NEW plan,
         Arrives(r, op, by, gate, x, want, new, plan)
  PROVE  /\ DOMAIN req' = Reqs /\ \A p \in Reqs \ {r} : req'[p] = req[p]
         /\ req' = [req EXCEPT ![r] = req'[r]]
         /\ req[r].answer = "none" /\ Meet(r)
         /\ db' = db /\ committed' = committed /\ audited' = audited
         /\ DOMAIN req'[r] = DOMAIN NewReq
         /\ req'[r].writes = Nothing /\ req'[r].locks = {} /\ req'[r].wrote = {}
         /\ req'[r].read \in {Nothing, Only(by, db[by])}
         /\ gate = "ok" =>
              /\ req'[r].answer = "pending" /\ req'[r].by = by /\ req'[r].todo = plan
              /\ req'[r].op = op /\ req'[r].x = x /\ req'[r].want = want
         /\ gate # "ok" => req'[r].answer # "pending" /\ req'[r].todo = << >>
<1> DEFINE q == IF gate # "ok" THEN [NewReq EXCEPT !.answer = gate]
                ELSE [NewReq EXCEPT !.op = op, !.by = by, !.x = x, !.want = want, !.todo = plan,
                                    !.read = IF by = x THEN Only(by, db[by]) ELSE @,
                                    !.answer = "pending"]
<1>1. Arrive(r, op, by, gate, x, want, plan) /\ gate # "pending"
  BY DEF Arrives
<1>2. r >= r
  BY SessionsAssumption
<1>3. /\ req' = [req EXCEPT ![r] = q] /\ req[r].answer = "none" /\ Meet(r)
      /\ db' = db /\ committed' = committed /\ audited' = audited
  BY <1>1, <1>2 DEF Arrive
<1>4. /\ DOMAIN q = DOMAIN NewReq /\ q.writes = Nothing /\ q.locks = {} /\ q.wrote = {}
      /\ q.read \in {Nothing, Only(by, db[by])}
  BY DEF NewReq
<1>5. ASSUME gate = "ok"
      PROVE  /\ q.answer = "pending" /\ q.by = by /\ q.todo = plan
             /\ q.op = op /\ q.x = x /\ q.want = want
  BY <1>5 DEF NewReq
<1>6. gate # "ok" => q.answer # "pending" /\ q.todo = << >>
  BY <1>1 DEF NewReq
<1> HIDE DEF q
<1>7. DOMAIN req' = Reqs /\ req'[r] = q /\ \A p \in Reqs \ {r} : req'[p] = req[p]
  BY <1>3 DEF Consistent, Typed
<1> QED BY <1>3, <1>4, <1>5, <1>6, <1>7

LEMMA ArriveKeeps ==
  ASSUME Consistent, NEW r \in Reqs, Arrival(r)
  PROVE  Consistent'
<1> DEFINE q == req'[r]
<1> PICK op, by, gate, x, want, new, plan : Arrives(r, op, by, gate, x, want, new, plan)
  BY DEF Arrival
<1>1. /\ DOMAIN req' = Reqs /\ \A p \in Reqs \ {r} : req'[p] = req[p]
      /\ Meet(r) /\ db' = db /\ committed' = committed /\ audited' = audited
  BY ArrivedIs
<1>2. req' = [req EXCEPT ![r] = q]
  BY ArrivedIs
<1>3. /\ DOMAIN q = DOMAIN NewReq /\ q.writes = Nothing /\ q.locks = {} /\ q.wrote = {}
      /\ gate = "ok" => q.answer = "pending" /\ q.by = by /\ q.todo = plan
      /\ gate # "ok" => q.answer # "pending" /\ q.todo = << >>
      /\ q.read \in {Nothing, Only(by, db[by])}
  BY ArrivedIs
<1> HIDE DEF q
<1>4. DOMAIN met' = Reqs /\ \A p \in Reqs : met'[p] \subseteq Reqs \ {p}
  BY <1>1 DEF Meet, Consistent, Typed
<1>5. /\ by \in Users /\ by \in Rows /\ PlanFits(plan) /\ plan # << >>
      /\ Inserted(Said(plan)) = new /\ \A z \in new : Fresh(z)
  BY DEF Arrives, Serves, Rows
<1>6. Unwritten(q)
  BY <1>3, NothingWritten DEF Unwritten
<1>7. PlanFits(q.todo) /\ (q.answer = "pending" <=> q.todo # << >>)
  BY <1>3, <1>5, NoPlanFits
<1>8. DOMAIN q.read \subseteq Rows /\ DOMAIN q.writes \subseteq Rows
  <2>1. DOMAIN Only(by, db[by]) = {by}
    BY OnlyIs
  <2> QED BY <1>3, <1>5, <2>1, NothingWritten
<1>9. IsReq(q)
  BY <1>3, <1>6, <1>7, <1>8 DEF IsReq
<1>10. Inserting(q) \subseteq new
  <2>1. CASE gate = "ok"
    BY <1>3, <1>5, <2>1 DEF Inserting, Inserted, Said
  <2>2. CASE gate # "ok"
    BY <1>3, <2>2 DEF Inserting
  <2> QED BY <2>1, <2>2
<1>11. ASSUME NEW z \in Inserting(q)
      PROVE  /\ db[z].st = "absent"
             /\ \A p \in Reqs \ {r} : z \notin DOMAIN req[p].writes \cup Inserting(req[p])
  BY <1>5, <1>10, <1>11 DEF Fresh
<1>12. q.writes = Nothing /\ q.locks = {} /\ (q.answer = "pending" => q.by \in Users)
  BY <1>3, <1>5
<1> QED BY <1>1, <1>2, <1>4, <1>9, <1>11, <1>12, ResetKeeps

-----------------------------------------------------------------------------
(* The theorems                                                            *)

LEMMA BeginKeeps ==
  ASSUME Consistent, NEW r \in Reqs, Begin(r)
  PROVE  Consistent'
BY BeginArrives, ArriveKeeps

LEMMA StepKeeps ==
  ASSUME Consistent, NEW r \in Reqs, Step(r) \/ Fail(r) \/ BreakDeadlock(r)
  PROVE  Consistent'
<1>1. CASE Step(r)
  BY <1>1, ReadKeeps, WriteKeeps, CommitKeeps DEF Step
<1>2. CASE Fail(r)
  BY <1>2, AnsweredKeeps DEF Fail
<1>3. CASE BreakDeadlock(r)
  BY <1>3, AnsweredKeeps DEF BreakDeadlock
<1> QED BY <1>1, <1>2, <1>3

LEMMA NothingChangesNothing ==
  ASSUME Consistent, UNCHANGED vars
  PROVE  Consistent'
<1>1. db' = db /\ req' = req /\ committed' = committed /\ audited' = audited /\ met' = met
  BY DEF vars
<1>2. Typed'
  BY <1>1 DEF Consistent, Typed, Active
<1>3. ASSUME NEW r \in Reqs
      PROVE  /\ FreshToAll(r)' /\ WritesFit(r)'
             /\ UniqueSeen(r)' /\ ReferencesSeen(r)'
  <2>1. FreshToAll(r)' /\ WritesFit(r)'
    BY <1>1 DEF Consistent, FreshToAll, WritesFit, RowWritten, RefsLocked
  <2>2. UniqueSeen(r)' /\ ReferencesSeen(r)'
    BY <1>1 DEF Consistent, UniqueSeen, ReferencesSeen, Seen, At, Active, Now
  <2> QED BY <2>1, <2>2
<1>4. Apart'
  BY <1>1 DEF Consistent, Apart, LocksApart, WritesApart, KeysApart
<1>5. KeysUnique' /\ ReferencesHold'
  BY <1>1 DEF Consistent, KeysUnique, ReferencesHold
<1> QED BY <1>2, <1>3, <1>4, <1>5 DEF Consistent

LEMMA InitConsistent ==
  ASSUME Init
  PROVE  Consistent
<1>1. /\ db \in Tables /\ committed = {} /\ audited = {} /\ DOMAIN req = Reqs /\ DOMAIN met = Reqs
      /\ \A r \in Reqs : req[r] = NewReq /\ met[r] = {}
  BY DEF Init
<1>2. DOMAIN db = Rows
  BY <1>1, SessionsAssumption
<1>3. \A x \in Rows :
        /\ RowFits(x, db[x])
        /\ \A y \in Refs(x, db[x]) : IsRow(db[y])
        /\ \A y \in Rows \ {x} : Keys(x, db[x]) \cap Keys(y, db[y]) = {}
  BY <1>1, DirectoryAssumption
<1>4. /\ NewReq.todo = << >> /\ NewReq.answer = "none" /\ NewReq.writes = Nothing
      /\ NewReq.read = Nothing /\ NewReq.locks = {} /\ NewReq.wrote = {}
  BY DEF NewReq
<1>5. IsReq(NewReq) /\ Inserting(NewReq) = {}
  BY <1>4, NoPlanFits, NothingWritten DEF IsReq, Unwritten, Inserting
<1>6. Typed
  BY <1>1, <1>2, <1>3, <1>4, <1>5 DEF Typed, Active
<1>7. \A r \in Reqs : FreshToAll(r) /\ WritesFit(r)
  BY <1>1, <1>4, <1>5, NothingWritten DEF FreshToAll, WritesFit
<1>8. Apart
  BY <1>1, <1>4, NothingWritten DEF Apart, LocksApart, WritesApart, KeysApart
<1>9. KeysUnique /\ ReferencesHold
  BY <1>3 DEF KeysUnique, ReferencesHold
<1>10. \A r \in Reqs : \A x : Seen(r, x) = db[x]
  BY <1>1, <1>4, NothingWritten DEF Seen
<1>11. \A r \in Reqs : UniqueSeen(r) /\ ReferencesSeen(r)
  BY <1>3, <1>10 DEF UniqueSeen, ReferencesSeen
<1> QED BY <1>6, <1>7, <1>8, <1>9, <1>11 DEF Consistent

LEMMA AlwaysConsistent == Spec => []Consistent
<1>1. Init => Consistent
  BY InitConsistent
<1>2. Consistent /\ [Next]_vars => Consistent'
  BY BeginKeeps, StepKeeps, NothingChangesNothing DEF Next
<1> QED BY <1>1, <1>2, PTL DEF Spec

\* Every row of every table is one of its table, with foreign keys of the tables
\* they refer to; and a request has locks and writes only while it is in
\* progress, which is as long as it has statements left: whatever ends a handler,
\* the rollback of get_db leaves nothing of it behind.
THEOREM DirectoryTyped == Spec => []DirectoryTypeOK
<1>1. Consistent => DirectoryTypeOK
  BY DEF Consistent, Typed, IsReq, Modes, Active, DirectoryTypeOK
<1> QED BY <1>1, AlwaysConsistent, PTL

\* Two requests that look for an email, a code or a share, and both find it
\* free, do not both commit it: the unique indexes of all the tables hold,
\* however requests overlap.
THEOREM KeysAlwaysUnique == Spec => []KeysUnique
<1>1. Consistent => KeysUnique
  BY DEF Consistent
<1> QED BY <1>1, AlwaysConsistent, PTL

\* No request commits a row that refers to one which another has removed
\* meanwhile, and no removal leaves a row behind that refers to what it removed:
\* the locks of the foreign keys, the cascades and the restrictions suffice.
THEOREM ReferencesAlwaysHold == Spec => []ReferencesHold
<1>1. Consistent => ReferencesHold
  BY DEF Consistent
<1> QED BY <1>1, AlwaysConsistent, PTL


-----------------------------------------------------------------------------
(* What a request does, and what it has met.  The inductive invariant is    *)
(* Traced, on top of Consistent.                                            *)

\* A user was removed by a request that r has met.
RemovedBy(r, u) ==
  \E q \in met[r] \cap committed : req[q].op = "delete_user" /\ req[q].x = u

\* A row was written by a request that r has met.
WrittenBy(r, z) == \E q \in met[r] \cap committed : z \in req[q].wrote

\* Requests in progress have met each other.
AllMet == \A r, q \in Reqs : r # q /\ Active(r) /\ Active(q) => q \in met[r]

\* How a request in progress ends: with its changes committed and the entry of
\* the audit log to write, or with the entry written, or neither yet.
EndsAudited(r) ==
  LET q == req[r]
      n == Len(q.todo)
  IN
  IF r \in committed
  THEN /\ q.op \in AuditedApart /\ DOMAIN q.writes = {}
       /\ \/ n = 2 /\ q.todo[1].do = "audit" /\ q.todo[2].do = "commit" /\ q.locks = {}
          \/ n = 1 /\ q.noted
  ELSE IF q.op \in AuditedApart THEN Closes(q.todo, 3)
  ELSE Closes(q.todo, 2) \/ (n = 1 /\ q.noted)

\* The acting user is there, unless it is to be inserted or was removed meanwhile.
ByKnown(r) ==
  LET q == req[r] IN
  \/ IsRow(db[q.by])
  \/ r \notin committed /\ q.by \in Inserting(q) \cup DOMAIN q.writes
  \/ RemovedBy(r, q.by)

\* What is written is what was asked, or depends on what was removed.
Asked(q, x) ==
  /\ x = q.x
  /\ \/ /\ q.writes[x] = Gone /\ q.want.st = "gone"
        /\ x \in Users => q.op = "delete_user"
     \/ /\ IsRow(q.writes[x])
        /\ \A c \in DOMAIN db[x] : \/ q.writes[x][c] = db[x][c]
                                   \/ c \in DOMAIN q.want /\ q.writes[x][c] = q.want[c]

Cascaded(q, x) ==
  \/ q.op = "delete_user" /\ q.writes[x] = Gone /\ x \in Accounts /\ db[x].owner = q.x
  \/ q.op = "delete_user" /\ q.writes[x] = Gone /\ x \in Shares /\ db[x].user = q.x
  \/ /\ q.op = "delete_user" /\ q.writes[x] = Gone /\ x \in Shares
     /\ db[x].account \in DOMAIN q.writes /\ db[db[x].account].owner = q.x
  \/ q.op = "delete_institution" /\ x \in Cards /\ q.writes[x] = [db[x] EXCEPT !.inst = None]

WritesAsked(r) ==
  \A x \in DOMAIN req[r].writes : IsRow(db[x]) => Asked(req[r], x) \/ Cascaded(req[r], x)

\* What is still to be executed is about the row asked for, and looks for every
\* row needed that has not been found live.
RestServes(r) ==
  LET q == req[r] IN
  /\ \A s \in Said(q.todo) : StatementOf(q.op, q.x, q.want, s)
  /\ \A z \in Needs(q.x, q.want) \cup {q.by} :
       /\ z \in Rows
       /\ db[z].st \in {"live", "absent"} \/ z \in Looks(Said(q.todo)) \/ WrittenBy(r, z)

\* A request that has ended without an entry of its changes in the audit log.
EndedUnaudited(r) ==
  /\ req[r].op \in AuditedApart
  /\ req[r].answer = "lost" \/ (req[r].answer = "500" /\ RemovedBy(r, req[r].by))

Traces(r) ==
  /\ Active(r) => EndsAudited(r) /\ ByKnown(r) /\ WritesAsked(r)
  /\ Active(r) /\ r \notin committed => RestServes(r)
  /\ r \in committed => req[r].answer # "none"
  /\ r \in committed \ audited /\ ~ Active(r) => EndedUnaudited(r)

Traced == AllMet /\ \A r \in Reqs : Traces(r)

\* The request that a step does not touch: the commits of requests it has met
\* are all that changes for it.
LEMMA BystanderTraces ==
  ASSUME Consistent, Traced, NEW r \in Reqs, req'[r] = req[r],
         r \in committed' <=> r \in committed, r \in audited' <=> r \in audited,
         met[r] \subseteq met'[r], committed \subseteq committed',
         \A q \in committed :
           /\ req'[q].op = req[q].op /\ req'[q].x = req[q].x
           /\ req[q].wrote \subseteq req'[q].wrote,
         Active(r) =>
           /\ \A z \in DOMAIN req[r].writes : db'[z] = db[z]
           /\ \A z \in Rows :
                \/ db'[z] = db[z]
                \/ \E q \in met'[r] \cap committed' :
                     /\ z \in req'[q].wrote
                     /\ (z \in Users /\ IsRow(db[z]) /\ ~ IsRow(db'[z])) =>
                          req'[q].op = "delete_user" /\ req'[q].x = z
  PROVE  Traces(r)'
<1>1. Traces(r)
  BY DEF Traced
<1>2. /\ \A u : RemovedBy(r, u) => RemovedBy(r, u)'
      /\ \A z : WrittenBy(r, z) => WrittenBy(r, z)'
  BY DEF RemovedBy, WrittenBy
<1>3. Active(r)' <=> Active(r)
  BY DEF Active
<1>4. ASSUME Active(r)
      PROVE  EndsAudited(r)' /\ ByKnown(r)' /\ WritesAsked(r)'
  <2>1. EndsAudited(r)'
    BY <1>1, <1>4 DEF Traces, EndsAudited
  <2>2. ByKnown(r)'
    <3>1. req[r].by \in Rows /\ req[r].by \in Users /\ ByKnown(r)
      BY <1>1, <1>4 DEF Traces, Consistent, Typed, Rows
    <3>2. CASE IsRow(db[req[r].by])
      BY <1>2, <1>4, <3>1, <3>2 DEF ByKnown, RemovedBy
    <3>3. CASE ~ IsRow(db[req[r].by])
      BY <1>2, <3>1, <3>3 DEF ByKnown
    <3> QED BY <3>2, <3>3
  <2>3. WritesAsked(r)'
    <3> SUFFICES ASSUME NEW x \in DOMAIN req[r].writes, IsRow(db'[x])
                 PROVE  Asked(req[r], x)' \/ Cascaded(req[r], x)'
      BY DEF WritesAsked
    <3>1. db'[x] = db[x]
      BY <1>4
    <3>2. Asked(req[r], x) \/ Cascaded(req[r], x)
      BY <1>1, <1>4, <3>1 DEF Traces, WritesAsked
    <3>3. Asked(req[r], x) => Asked(req[r], x)'
      BY <3>1 DEF Asked
    <3>4. Cascaded(req[r], x) => Cascaded(req[r], x)'
      BY <1>4, <3>1 DEF Cascaded
    <3> QED BY <3>2, <3>3, <3>4
  <2> QED BY <2>1, <2>2, <2>3
<1>5. ASSUME Active(r), r \notin committed
      PROVE  RestServes(r)'
  <2>1. RestServes(r)
    BY <1>1, <1>5 DEF Traces
  <2> DEFINE q == req[r]
  <2>2. ASSUME NEW z \in Needs(q.x, q.want) \cup {q.by}
        PROVE  /\ z \in Rows
               /\ \/ db'[z].st \in {"live", "absent"}
                  \/ z \in Looks(Said(q.todo))
                  \/ WrittenBy(r, z)'
    <3>1. /\ z \in Rows
          /\ db[z].st \in {"live", "absent"} \/ z \in Looks(Said(q.todo)) \/ WrittenBy(r, z)
      BY <2>1 DEF RestServes
    <3>2. db'[z] = db[z] \/ WrittenBy(r, z)'
      BY <1>5, <3>1 DEF WrittenBy
    <3> QED BY <1>2, <3>1, <3>2
  <2>3. \A s \in Said(q.todo) : StatementOf(q.op, q.x, q.want, s)
    BY <2>1 DEF RestServes
  <2> QED BY <2>2, <2>3 DEF RestServes
<1>6. r \in committed \ audited /\ ~ Active(r) => EndedUnaudited(r)'
  BY <1>1, <1>2 DEF Traces, EndedUnaudited
<1>7. r \in committed => req'[r].answer # "none"
  BY <1>1 DEF Traces
<1> QED BY <1>3, <1>4, <1>5, <1>6, <1>7 DEF Traces

\* Steps that change nothing but what one request is, and leave what others may
\* know of it if it has committed.
LEMMA OthersTrace ==
  ASSUME Consistent, Traced, NEW r \in Reqs, NEW p \in Reqs \ {r}, req'[p] = req[p],
         \A q \in Reqs \ {r} : req'[q] = req[q],
         r \in committed => req'[r].op = req[r].op /\ req'[r].x = req[r].x /\ req'[r].wrote = req[r].wrote,
         db' = db, committed' = committed, audited' = audited, met[p] \subseteq met'[p]
  PROVE  Traces(p)'
<1>1. \A q \in committed :
        /\ req'[q].op = req[q].op /\ req'[q].x = req[q].x
        /\ req[q].wrote \subseteq req'[q].wrote
  <2>1. committed \subseteq Reqs
    BY DEF Consistent, Typed
  <2> QED BY <2>1
<1> QED BY <1>1, BystanderTraces

LEMMA ArriveTraces ==
  ASSUME Consistent, Traced, NEW r \in Reqs, Arrival(r)
  PROVE  Traced'
<1> PICK op, by, gate, x, want, new, plan : Arrives(r, op, by, gate, x, want, new, plan)
  BY DEF Arrival
<1> DEFINE q == req'[r]
<1>1. /\ \A p \in Reqs \ {r} : req'[p] = req[p]
      /\ req[r].answer = "none"
      /\ Meet(r) /\ db' = db /\ committed' = committed /\ audited' = audited
  BY ArrivedIs
<1>2. /\ q.writes = Nothing
      /\ gate = "ok" => q.answer = "pending" /\ q.by = by /\ q.todo = plan /\ q.op = op
                          /\ q.x = x /\ q.want = want
      /\ gate # "ok" => q.answer # "pending"
  BY ArrivedIs
<1> HIDE DEF q
<1>3. /\ \A p \in Reqs \ {r} : met[p] \subseteq met'[p]
      /\ \A p \in Reqs \ {r} : Active(p) => p \in met'[r] /\ r \in met'[p]
  BY <1>1 DEF Meet
<1>4. r \notin committed
  BY <1>1 DEF Traced, Traces
<1>5. AllMet'
  <2> SUFFICES ASSUME NEW p1 \in Reqs, NEW p2 \in Reqs, p1 # p2, Active(p1)', Active(p2)'
               PROVE  p2 \in met'[p1]
    BY DEF AllMet
  <2>1. CASE p1 = r \/ p2 = r
    BY <1>1, <1>3, <2>1 DEF Active
  <2>2. CASE p1 # r /\ p2 # r
    BY <1>1, <1>3, <2>2 DEF Active, Traced, AllMet
  <2> QED BY <2>1, <2>2
<1>6. ASSUME NEW p \in Reqs \ {r}
      PROVE  Traces(p)'
  BY <1>1, <1>3, <1>4, OthersTrace
<1>7. Traces(r)'
  <2>1. CASE gate # "ok"
    <3>1. ~ Active(r)'
      BY <1>2, <2>1 DEF Active, q
    <3> QED BY <1>1, <1>4, <3>1 DEF Traces
  <2>2. CASE gate = "ok"
    <3>1. by \in Users /\ by \in Rows /\ (db[by].st = "live" \/ by \in new)
      BY <2>2 DEF Arrives, Rows
    <3>2. \A z \in new : z \in Rows /\ db[z].st = "absent"
      BY DEF Arrives, Fresh
    <3>3. /\ PlanFits(plan) /\ Closes(plan, IF op \in AuditedApart THEN 3 ELSE 2)
          /\ \A s \in Said(plan) : StatementOf(op, x, want, s)
          /\ Inserted(Said(plan)) = new
          /\ Needs(x, want) \subseteq {by} \cup new \cup Looks(Said(plan))
      BY DEF Arrives, Serves
    <3>4. Inserting(q) = new
      BY <1>2, <2>2, <3>3 DEF Inserting, Inserted, Said
    <3>5. Looks(Said(plan)) \subseteq Rows
      BY <3>3 DEF Looks, Said, PlanFits, StatementFits
    <3>6. EndsAudited(r)'
      BY <1>1, <1>2, <1>4, <2>2, <3>3 DEF EndsAudited, q
    <3>7. ByKnown(r)'
      BY <1>1, <1>2, <1>4, <2>2, <3>1, <3>4 DEF ByKnown, q, IsRow
    <3>8. WritesAsked(r)'
      BY <1>2, NothingWritten DEF WritesAsked, q
    <3>9. RestServes(r)'
      BY <1>1, <1>2, <2>2, <3>1, <3>2, <3>3, <3>5 DEF RestServes, q
    <3> QED BY <1>1, <1>4, <3>6, <3>7, <3>8, <3>9 DEF Traces
  <2> QED BY <2>1, <2>2
<1> QED BY <1>5, <1>6, <1>7 DEF Traced

\* What is left of a plan after a statement of it.
LEMMA RestOf ==
  ASSUME NEW p, PlanFits(p), p # << >>
  PROVE  /\ Said(p) = {Head(p)} \cup Said(Tail(p))
         /\ \A last \in {2, 3} : Closes(p, last) =>
              /\ Head(p).do \notin Ending => Closes(Tail(p), last)
              /\ Head(p).do \in Ending =>
                   Len(p) = last /\ (last = 2 => Head(p).do = "audit") /\ (last = 3 => Head(p).do = "commit")
<1> DEFINE t == Tail(p)  n == Len(p)  m == Len(t)
<1>1. /\ n \in Nat \ {0} /\ Head(p) = p[1] /\ m = n - 1
      /\ \A i \in 1 .. m : t[i] = p[i + 1]
  BY RestFits
<1> HIDE DEF t, n, m
<1>2. Said(p) = {p[1]} \cup Said(t)
  <2>1. \A i \in 1 .. n : i = 1 \/ (i - 1 \in 1 .. m /\ p[i] = t[i - 1])
    BY <1>1
  <2>2. \A i \in 1 .. m : i + 1 \in 1 .. n /\ t[i] = p[i + 1]
    BY <1>1
  <2>3. 1 \in 1 .. n
    BY <1>1
  <2>4. Said(p) = {p[i] : i \in 1 .. n} /\ Said(t) = {t[i] : i \in 1 .. m}
    BY DEF Said, n, m
  <2>5. Said(p) \subseteq {p[1]} \cup Said(t)
    BY <2>1, <2>4
  <2>6. {p[1]} \cup Said(t) \subseteq Said(p)
    BY <2>2, <2>3, <2>4
  <2> QED BY <2>5, <2>6
<1>3. ASSUME NEW last \in {2, 3}, Closes(p, last)
      PROVE  /\ p[1].do \notin Ending => Closes(t, last)
             /\ p[1].do \in Ending =>
                  n = last /\ (last = 2 => p[1].do = "audit") /\ (last = 3 => p[1].do = "commit")
  <2>1. /\ n >= last /\ p[n - 1].do = "audit" /\ p[n].do = "commit"
        /\ last = 3 => p[n - 2].do = "commit"
        /\ \A i \in 1 .. n - last : p[i].do \notin Ending
    BY <1>3 DEF Closes, n
  <2>2. CASE n = last
    BY <1>1, <2>1, <2>2 DEF Ending
  <2>3. CASE n > last
    <3>1. p[1].do \notin Ending
      BY <1>1, <2>1, <2>3
    <3>2. m >= last /\ t[m] = p[n] /\ t[m - 1] = p[n - 1] /\ (last = 3 => t[m - 2] = p[n - 2])
      BY <1>1, <2>3
    <3>3. \A i \in 1 .. m - last : t[i].do \notin Ending
      <4>1. \A i \in 1 .. m - last : i + 1 \in 1 .. n - last /\ i \in 1 .. m
        BY <1>1
      <4> QED BY <1>1, <2>1, <4>1
    <3>4. Closes(t, last)
      BY <2>1, <3>2, <3>3 DEF Closes, m
    <3> QED BY <3>1, <3>4
  <2> QED BY <1>1, <2>1, <2>2, <2>3
<1> QED BY <1>1, <1>2, <1>3 DEF t, n

LEMMA InsertingIs ==
  ASSUME NEW q, PlanFits(q.todo)
  PROVE  Inserting(q) = Inserted(Said(q.todo))
BY DEF Inserting, Inserted, Said

\* A request that ends, with an answer that explains what it leaves unaudited.
LEMMA AnsweredTraces ==
  ASSUME Consistent, Traced, NEW r \in Reqs, Active(r), NEW a, a # "pending",
         Proceed(r, Answered(r, a)),
         r \in committed => a = "lost" \/ (a = "500" /\ RemovedBy(r, req[r].by))
  PROVE  Traced'
<1>1. /\ \A p \in Reqs \ {r} : req'[p] = req[p]
      /\ req'[r] = Answered(r, a)
      /\ db' = db /\ committed' = committed /\ audited' = audited /\ met' = met
  BY DEF Proceed, Consistent, Typed
<1>2. DOMAIN req[r] = DOMAIN NewReq
  BY DEF Consistent, Typed, IsReq
<1>3. /\ req'[r].answer = a
      /\ r \in committed => /\ req'[r].op = req[r].op /\ req'[r].x = req[r].x
                            /\ req'[r].wrote = req[r].wrote /\ req'[r].by = req[r].by
  <2>1. CASE r \in committed
    BY <1>1, <1>2, <2>1 DEF Answered, NewReq
  <2>2. CASE r \notin committed
    BY <1>1, <2>2 DEF Answered, NewReq
  <2> QED BY <2>1, <2>2
<1>4. \A p \in Reqs \ {r} : Traces(p)'
  BY <1>1, <1>3, OthersTrace
<1>5. ~ Active(r)'
  BY <1>3 DEF Active
<1>6. Traces(r)'
  <2>1. CASE r \in committed
    <3>1. req[r].op \in AuditedApart
      BY <2>1 DEF Traced, Traces, EndsAudited
    <3>2. RemovedBy(r, req[r].by) => RemovedBy(r, req[r].by)'
      <4>1. \A q \in met[r] \cap committed : q \in Reqs /\ q # r
        BY DEF Consistent, Typed
      <4> QED BY <1>1, <1>3, <2>1, <4>1 DEF RemovedBy
    <3> QED BY <1>1, <1>3, <1>5, <2>1, <3>1, <3>2 DEF Traces, EndedUnaudited
  <2>2. CASE r \notin committed
    BY <1>1, <1>5, <2>2 DEF Traces
  <2> QED BY <2>1, <2>2
<1>7. AllMet'
  BY <1>1, <1>5 DEF AllMet, Traced, Active
<1> QED BY <1>4, <1>6, <1>7 DEF Traced

\* What a handler goes on with was live when it was looked for.
LEMMA LoadedLive ==
  ASSUME NEW r, NEW s, StatementFits(s), s.do \in Loading, Verdict(r, s) = "ok"
  PROVE  db[s.x].st = "live"
<1>1. s.do = "find" => s.arg # "ok"
  BY DEF StatementFits
<1>2. s.do = "find" => db[s.x].st = "live"
  BY <1>1 DEF Verdict, Exists
<1>3. s.do \in {"mine", "my account", "other"} => db[s.x].st = "live"
  BY DEF Verdict, Exists
<1>4. s.do = "share" => db[s.x].st = "live"
  BY DEF Verdict, Exists, ShareFound
<1>5. s.do = "my card" => db[s.x].st = "live"
  BY DEF Verdict, Exists, OwnsCard
<1> QED BY <1>2, <1>3, <1>4, <1>5 DEF Loading

LEMMA ReadTraces ==
  ASSUME Consistent, Traced, NEW r \in Reqs, Read(r)
  PROVE  Traced'
<1> DEFINE s == Now(r)
           q == [req[r] EXCEPT !.todo = Tail(@),
                   !.read = IF s.do \in Loading THEN Over(@, Only(s.x, db[s.x])) ELSE @]
<1>1. Active(r) /\ s.do \in Checks /\ IsReq(req[r]) /\ req[r].todo # << >> /\ PlanFits(req[r].todo)
  BY DEF Consistent, Typed, IsReq, Active, Read, At
<1>2. StatementFits(s) /\ Len(req[r].todo) \in Nat \ {0} /\ s = req[r].todo[1] /\ s = Head(req[r].todo)
  BY <1>1, RestFits DEF Now
<1>3. EndsAudited(r) /\ ByKnown(r) /\ WritesAsked(r)
  BY <1>1 DEF Traced, Traces
<1>4. r \notin committed
  <2>1. s.do \notin {"audit", "commit"}
    BY <1>1, ChecksApart DEF Ending
  <2>2. Len(req[r].todo) = 1 => s.do = "commit"
    BY <1>1, <1>2 DEF PlanFits
  <2> QED BY <1>2, <1>3, <2>1, <2>2 DEF EndsAudited
<1>5. CASE Verdict(r, s) # "ok"
  BY <1>1, <1>2, <1>4, <1>5, VerdictEnds, AnsweredTraces DEF Read
<1>6. CASE Verdict(r, s) = "ok"
  <2>1. /\ q.todo = Tail(req[r].todo) /\ q.writes = req[r].writes
        /\ q.by = req[r].by /\ q.answer = "pending" /\ q.wrote = req[r].wrote
        /\ q.op = req[r].op /\ q.x = req[r].x /\ q.want = req[r].want /\ q.noted = req[r].noted
    BY <1>1 DEF IsReq, NewReq, Active
  <2>2. Proceed(r, q)
    BY <1>6 DEF Read
  <2> HIDE DEF q, s
  <2>3. /\ \A p \in Reqs \ {r} : req'[p] = req[p]
        /\ req'[r] = q
        /\ db' = db /\ committed' = committed /\ audited' = audited /\ met' = met
    BY <2>2 DEF Proceed, Consistent, Typed
  <2>4. \A p \in Reqs \ {r} : Traces(p)'
    BY <1>4, <2>3, OthersTrace
  <2>5. Said(req[r].todo) = {s} \cup Said(q.todo)
    BY <1>1, <1>2, <2>1, RestOf
  <2>6. s.do \notin Ending /\ s.do # "insert"
    BY <1>1, ChecksApart
  <2>7. EndsAudited(r)'
    <3>1. Len(req[r].todo) # 1
      BY <1>1, <1>2, <2>6 DEF PlanFits, Ending
    <3>2. \A last \in {2, 3} : Closes(req[r].todo, last) => Closes(q.todo, last)
      BY <1>1, <1>2, <2>1, <2>6, RestOf
    <3> QED BY <1>3, <1>4, <2>1, <2>3, <3>1, <3>2 DEF EndsAudited
  <2>8. ByKnown(r)'
    <3>1. PlanFits(q.todo)
      BY <1>1, <2>1, RestFits
    <3>2. Inserting(q) = Inserting(req[r])
      BY <1>1, <2>5, <2>6, <3>1, InsertingIs DEF Inserted
    <3>3. \A u : RemovedBy(r, u) => RemovedBy(r, u)'
      BY <1>4, <2>3 DEF RemovedBy, Consistent, Typed
    <3> QED BY <1>3, <1>4, <2>1, <2>3, <3>2, <3>3 DEF ByKnown
  <2>9. WritesAsked(r)'
    BY <1>3, <2>1, <2>3 DEF WritesAsked, Asked, Cascaded
  <2>10. RestServes(r)'
    <3>1. RestServes(r)
      BY <1>1, <1>4 DEF Traced, Traces
    <3>2. \A z : WrittenBy(r, z) => WrittenBy(r, z)'
      BY <1>4, <2>3 DEF WrittenBy, Consistent, Typed
    <3>3. s.do \in Loading => db[s.x].st = "live"
      BY <1>2, <1>6, LoadedLive
    <3>4. \A z \in Looks(Said(req[r].todo)) : z \in Looks(Said(q.todo)) \/ db[z].st = "live"
      BY <2>5, <3>3 DEF Looks
    <3> QED BY <2>1, <2>3, <2>5, <3>1, <3>2, <3>4 DEF RestServes
  <2>11. Traces(r)'
    BY <1>4, <2>3, <2>7, <2>8, <2>9, <2>10 DEF Traces
  <2>12. AllMet'
    BY <1>1, <2>1, <2>3 DEF AllMet, Traced, Active
  <2> QED BY <2>4, <2>11, <2>12 DEF Traced
<1> QED BY <1>5, <1>6

\* A request that has committed its changes has only the entry left to write,
\* and fails to only if its user is no longer there.
LEMMA LateEntry ==
  ASSUME Consistent, Traced, NEW r \in Reqs, At(r, Writes), r \in committed
  PROVE  /\ Now(r).do = "audit" /\ Len(req[r].todo) = 2 /\ DOMAIN req[r].writes = {}
         /\ Violates(r, Now(r)) => RemovedBy(r, req[r].by)
<1> DEFINE s == Now(r)  q == req[r]
<1>1. Active(r) /\ s.do \in Writes /\ PlanFits(q.todo) /\ q.todo # << >> /\ EndsAudited(r) /\ ByKnown(r)
  BY DEF At, Active, Consistent, Typed, IsReq, Traced, Traces
<1>2. s = q.todo[1] /\ Len(q.todo) \in Nat \ {0}
  BY <1>1, RestFits DEF Now
<1>3. Len(q.todo) = 1 => s.do = "commit"
  BY <1>1, <1>2 DEF PlanFits
<1>4. s.do = "audit" /\ Len(q.todo) = 2 /\ DOMAIN q.writes = {}
  BY <1>1, <1>2, <1>3 DEF EndsAudited, Writes
<1>5. ASSUME Violates(r, s)
      PROVE  RemovedBy(r, q.by)
  <2>1. DOMAIN Effect(r, s) = {}
    BY <1>4, EffectIs
  <2>2. NewKeys(r, s) = {} /\ NewRefs(r, s) = {q.by}
    BY <1>4, <2>1 DEF NewKeys, NewRefs
  <2>3. ~ IsRow(Seen(r, q.by))
    BY <1>4, <1>5, <2>2 DEF Violates
  <2>4. ~ IsRow(db[q.by])
    BY <1>4, <2>3 DEF Seen
  <2> QED BY <1>1, <2>4 DEF ByKnown
<1> QED BY <1>4, <1>5

\* What a statement writes is what was asked, or depends on what is removed.
LEMMA EffectAsked ==
  ASSUME Consistent, NEW r \in Reqs, At(r, Writes), NEW q,
         q.op = req[r].op, q.x = req[r].x, q.want = req[r].want,
         StatementOf(q.op, q.x, q.want, Now(r)),
         DOMAIN Effect(r, Now(r)) \subseteq DOMAIN q.writes,
         NEW x \in DOMAIN Effect(r, Now(r)), q.writes[x] = Effect(r, Now(r))[x], IsRow(db[x])
  PROVE  Asked(q, x) \/ Cascaded(q, x)
<1> DEFINE s == Now(r)  E == Effect(r, s)
<1>1. IsReq(req[r]) /\ req[r].todo # << >> /\ Typed
  BY DEF Consistent, Typed, IsReq, Active, At
<1>2. StatementFits(s) /\ s.do \in Writes
  BY <1>1, RestFits DEF IsReq, Now, At
<1>3. RowsOf(r, s)
  BY EffectFits
<1>4. StatementOf(q.op, q.x, q.want, s) /\ DOMAIN E \subseteq DOMAIN q.writes
      /\ x \in DOMAIN E /\ q.writes[x] = E[x]
  OBVIOUS
<1>5. s.do = "update" => DOMAIN E \subseteq {s.x} /\ (DOMAIN E # {} => E[s.x] = Updated(r, s))
  BY EffectIs
<1>6. s.do = "erase" => DOMAIN E \subseteq {s.x} /\ (DOMAIN E # {} => E[s.x] = Gone)
  BY EffectIs
<1>7. s.do = "cascade" => DOMAIN E = Dependents(s.x) /\ \A y \in DOMAIN E : E[y] = LeftBy(y)
  <2>1. s.do = "cascade" => E = [y \in Dependents(s.x) |-> LeftBy(y)]
    BY DEF Effect
  <2> HIDE DEF E
  <2> QED BY <2>1
<1>8. s.do = "audit" => DOMAIN E = {}
  BY EffectIs
<1> HIDE DEF s, E
<1>9. CASE s.do = "insert"
  BY <1>3, <1>4, <1>9 DEF RowsOf, IsRow, E
<1>10. CASE s.do = "update"
  <2>1. x = s.x /\ x = q.x /\ s.arg = q.want /\ q.writes[x] = Updated(r, s)
    BY <1>4, <1>10, <1>5 DEF StatementOf
  <2>2. IsRow(Updated(r, s))
    BY <1>1, <1>2, <1>10, <2>1, UpdatedFits DEF StatementFits, Typed
  <2>3. DOMAIN Changes(r, s) \subseteq DOMAIN s.arg
        /\ \A c \in DOMAIN Changes(r, s) : Changes(r, s)[c] = s.arg[c]
    BY DEF Changes
  <2>4. \A c \in DOMAIN db[x] : \/ Updated(r, s)[c] = db[x][c]
                                \/ c \in DOMAIN s.arg /\ Updated(r, s)[c] = s.arg[c]
    <3> DEFINE c == Changes(r, s)  u == Updated(r, s)
    <3>1. u = [k \in DOMAIN c \cup DOMAIN db[x] |-> IF k \in DOMAIN c THEN c[k] ELSE db[x][k]]
      BY <2>1 DEF Updated, Over
    <3> HIDE DEF c, u
    <3>2. \A k \in DOMAIN db[x] : u[k] = IF k \in DOMAIN c THEN c[k] ELSE db[x][k]
      BY <3>1
    <3> QED BY <2>3, <3>2 DEF c, u
  <2> QED BY <2>1, <2>2, <2>4 DEF Asked
<1>11. CASE s.do = "erase"
  <2>1. x = s.x /\ q.writes[x] = Gone
    BY <1>4, <1>11, <1>6
  <2> QED BY <1>4, <1>11, <2>1 DEF StatementOf, Asked
<1>12. CASE s.do = "cascade"
  <2>1. /\ DOMAIN E = Dependents(s.x) /\ q.writes[x] = LeftBy(x)
        /\ s.x \in Users \cup Types \cup Institutions
    BY <1>2, <1>4, <1>12, <1>7 DEF StatementFits
  <2>2. s.x = q.x /\ (q.x \in Users => q.op = "delete_user")
        /\ (q.x \in Institutions => q.op = "delete_institution")
    BY <1>4, <1>12 DEF StatementOf
  <2>3. CASE s.x \in Users
    <3>1. q.writes[x] = Gone /\ x \in Accounts \cup Shares
      BY <1>1, <1>4, <2>1, <2>3, DependentsFit
    <3>2. \/ x \in Accounts /\ db[x].owner = s.x
          \/ x \in Shares /\ db[x].user = s.x
          \/ /\ x \in Shares /\ db[x].account \in Dependents(s.x)
             /\ db[db[x].account].owner = s.x
      <4>1. x \in Dependents(s.x)
        BY <1>4, <2>1
      <4> QED BY <2>3, <4>1, DependentsOfUser
    <3> QED BY <1>4, <2>1, <2>2, <2>3, <3>1, <3>2 DEF Cascaded
  <2>4. CASE s.x \notin Users
    <3>1. s.x \in Institutions /\ x \in Cards
      BY <1>1, <1>4, <2>1, <2>4, DependentsFit
    <3> QED BY <2>1, <2>2, <3>1 DEF Cascaded, LeftBy
  <2> QED BY <2>3, <2>4
<1>13. CASE s.do = "audit"
  BY <1>4, <1>13, <1>8
<1> QED BY <1>2, <1>9, <1>10, <1>11, <1>12, <1>13 DEF Writes

LEMMA WriteTraces ==
  ASSUME Consistent, Traced, NEW r \in Reqs, Write(r)
  PROVE  Traced'
<1> DEFINE s == Now(r)  q == Wrote(r)  E == Effect(r, s)
<1>1. Active(r) /\ At(r, Writes) /\ s.do \in Writes
      /\ IsReq(req[r]) /\ req[r].todo # << >> /\ PlanFits(req[r].todo)
  BY DEF Consistent, Typed, IsReq, Active, Write, At
<1>2. s = Head(req[r].todo) /\ s = req[r].todo[1] /\ Len(req[r].todo) \in Nat \ {0}
      /\ Len(Tail(req[r].todo)) = Len(req[r].todo) - 1
  BY <1>1, RestFits DEF Now
<1>3. EndsAudited(r) /\ ByKnown(r) /\ WritesAsked(r) /\ (r \notin committed => RestServes(r))
  BY <1>1 DEF Traced, Traces
<1>4. r \in committed => /\ s.do = "audit" /\ Len(req[r].todo) = 2 /\ DOMAIN req[r].writes = {}
                         /\ Violates(r, s) => RemovedBy(r, req[r].by)
  BY <1>1, LateEntry
<1>5. CASE Violates(r, s)
  BY <1>1, <1>4, <1>5, AnsweredTraces DEF Write
<1>6. CASE ~ Violates(r, s)
  <2>1. /\ q.todo = Tail(req[r].todo) /\ PlanFits(q.todo)
        /\ DOMAIN q.writes = DOMAIN E \cup DOMAIN req[r].writes
        /\ \A x \in DOMAIN E : q.writes[x] = E[x]
        /\ \A x \in DOMAIN req[r].writes : q.writes[x] = req[r].writes[x]
        /\ q.by = req[r].by /\ q.answer = "pending" /\ q.wrote = req[r].wrote
    BY <1>1, WroteIs
  <2>2. /\ q.op = req[r].op /\ q.x = req[r].x /\ q.want = req[r].want
        /\ s.do = "audit" => q.noted
    BY <1>1 DEF Wrote, IsReq, NewReq
  <2>3. Proceed(r, q)
    BY <1>6 DEF Write, Wrote
  <2>4. RowsOf(r, s)
    BY <1>1, EffectFits
  <2>5. s.do = "audit" => DOMAIN E = {}
    BY EffectIs
  <2>6. s.do = "insert" => DOMAIN E = {s.x}
    BY EffectIs
  <2>7. \A x \in DOMAIN E : r \notin committed /\ IsRow(db[x]) => Asked(q, x) \/ Cascaded(q, x)
    <3> SUFFICES ASSUME NEW x \in DOMAIN E, r \notin committed, IsRow(db[x])
                 PROVE  Asked(q, x) \/ Cascaded(q, x)
      OBVIOUS
    <3>1. s \in Said(req[r].todo)
      BY <1>1, <1>2, RestOf
    <3>2. StatementOf(q.op, q.x, q.want, s)
      BY <1>3, <2>2, <3>1 DEF RestServes
    <3>3. DOMAIN E \subseteq DOMAIN q.writes /\ q.writes[x] = E[x]
      BY <2>1
    <3> HIDE DEF q
    <3> QED BY <1>1, <2>2, <3>2, <3>3, EffectAsked
  <2> HIDE DEF q, s, E
  <2>8. /\ \A p \in Reqs \ {r} : req'[p] = req[p]
        /\ req'[r] = q
        /\ db' = db /\ committed' = committed /\ audited' = audited /\ met' = met
    BY <2>3 DEF Proceed, Consistent, Typed
  <2>9. \A p \in Reqs \ {r} : Traces(p)'
    BY <2>1, <2>2, <2>8, OthersTrace
  <2>10. Said(req[r].todo) = {s} \cup Said(q.todo)
    BY <1>1, <1>2, <2>1, RestOf
  <2>11. EndsAudited(r)'
    <3>1. CASE r \in committed
      <4>1. q.noted /\ Len(q.todo) = 1 /\ DOMAIN q.writes = {}
        BY <1>2, <1>4, <2>1, <2>2, <2>5, <3>1
      <4> QED BY <1>3, <2>2, <2>8, <3>1, <4>1 DEF EndsAudited
    <3>2. CASE r \notin committed
      <4>1. \A last \in {2, 3} : Closes(req[r].todo, last) =>
              /\ s.do \notin Ending => Closes(q.todo, last)
              /\ s.do \in Ending => Len(req[r].todo) = last /\ (last = 3 => s.do = "commit")
        BY <1>1, <1>2, <2>1, RestOf, ZenonT(60)
      <4>2. s.do # "commit"
        BY <1>1 DEF Writes
      <4>3. Len(req[r].todo) # 1
        BY <1>1, <1>2, <4>2 DEF PlanFits
      <4>4. CASE req[r].op \in AuditedApart
        BY <1>3, <2>2, <2>8, <3>2, <4>1, <4>2, <4>4 DEF EndsAudited
      <4>5. CASE req[r].op \notin AuditedApart
        <5>1. Closes(req[r].todo, 2)
          BY <1>3, <3>2, <4>3, <4>5 DEF EndsAudited
        <5>2. Closes(q.todo, 2) \/ (Len(q.todo) = 1 /\ q.noted)
          BY <1>2, <2>1, <2>2, <4>1, <4>2, <5>1 DEF Ending
        <5> QED BY <2>2, <2>8, <3>2, <4>5, <5>2 DEF EndsAudited
      <4> QED BY <4>4, <4>5
    <3> QED BY <3>1, <3>2
  <2>12. ByKnown(r)'
    <3>1. \A u : RemovedBy(r, u) => RemovedBy(r, u)'
      <4>1. \A p \in met[r] \cap committed : p \in Reqs \ {r}
        BY DEF Consistent, Typed
      <4> QED BY <2>8, <4>1 DEF RemovedBy
    <3>2. Inserting(req[r]) \subseteq Inserting(q) \cup DOMAIN E
      <4>1. Inserting(q) = Inserted(Said(q.todo)) /\ Inserting(req[r]) = Inserted(Said(req[r].todo))
        BY <1>1, <2>1, InsertingIs
      <4> QED BY <2>6, <2>10, <4>1 DEF Inserted
    <3> QED BY <1>3, <2>1, <2>8, <3>1, <3>2 DEF ByKnown
  <2>13. WritesAsked(r)'
    <3> SUFFICES ASSUME NEW x \in DOMAIN q.writes, IsRow(db[x])
                 PROVE  Asked(req[r], x)' \/ Cascaded(req[r], x)'
      BY <2>8 DEF WritesAsked
    <3>1. Asked(q, x) \/ Cascaded(q, x)
      <4>1. CASE x \in DOMAIN E
        BY <1>4, <2>5, <2>7, <4>1
      <4>2. CASE x \in DOMAIN req[r].writes
        <5>1. Asked(req[r], x) \/ Cascaded(req[r], x)
          BY <1>3, <4>2 DEF WritesAsked
        <5>2. Asked(req[r], x) => Asked(q, x)
          BY <2>1, <2>2, <4>2 DEF Asked
        <5>3. Cascaded(req[r], x) => Cascaded(q, x)
          BY <2>1, <2>2, <4>2 DEF Cascaded
        <5> QED BY <5>1, <5>2, <5>3
      <4> QED BY <2>1, <4>1, <4>2
    <3> QED BY <2>8, <3>1 DEF Asked, Cascaded
  <2>14. r \notin committed => RestServes(r)'
    <3> SUFFICES ASSUME r \notin committed
                 PROVE  RestServes(r)'
      OBVIOUS
    <3>1. \A z : WrittenBy(r, z) => WrittenBy(r, z)'
      <4>1. \A p \in met[r] \cap committed : p \in Reqs \ {r}
        BY DEF Consistent, Typed
      <4> QED BY <2>8, <4>1 DEF WrittenBy
    <3>2. s.do \notin Loading
      BY <1>1 DEF Loading, Writes
    <3>3. Looks(Said(req[r].todo)) \subseteq Looks(Said(q.todo))
      BY <2>10, <3>2 DEF Looks
    <3> QED BY <1>3, <2>1, <2>2, <2>8, <2>10, <3>1, <3>3 DEF RestServes
  <2>15. Traces(r)'
    BY <2>1, <2>8, <2>11, <2>12, <2>13, <2>14, <1>1 DEF Traces, Traced, Active
  <2>16. AllMet'
    BY <1>1, <2>1, <2>8 DEF AllMet, Traced, Active
  <2> QED BY <2>9, <2>15, <2>16 DEF Traced
<1> QED BY <1>5, <1>6

\* A user is removed from the table only on request.
LEMMA RemovalAsked ==
  ASSUME Consistent, NEW r \in Reqs, WritesAsked(r), NEW z \in Users \cap DOMAIN req[r].writes,
         IsRow(db[z]), ~ IsRow(req[r].writes[z])
  PROVE  req[r].op = "delete_user" /\ req[r].x = z
<1>1. Asked(req[r], z) \/ Cascaded(req[r], z)
  BY DEF WritesAsked
<1>2. ~ Cascaded(req[r], z)
  BY KindsApart DEF Cascaded
<1> QED BY <1>1, <1>2 DEF Asked

\* A request is at a commit: its last one, with the entry written, or the one
\* before the entry.
LEMMA AtCommit ==
  ASSUME Consistent, Traced, NEW r \in Reqs, At(r, {"commit"})
  PROVE  /\ Looks(Said(req[r].todo)) = {}
         /\ \/ Len(req[r].todo) = 1 /\ req[r].noted
            \/ /\ r \notin committed /\ req[r].op \in AuditedApart
               /\ Len(req[r].todo) = 3 /\ Len(Tail(req[r].todo)) = 2
               /\ Tail(req[r].todo)[1].do = "audit" /\ Tail(req[r].todo)[2].do = "commit"
               /\ Inserting(req[r]) = {}
<1> DEFINE p == req[r].todo  t == Tail(p)
<1>1. PlanFits(p) /\ p # << >> /\ Head(p).do = "commit" /\ EndsAudited(r)
  BY DEF At, Active, Now, Consistent, Typed, IsReq, Traced, Traces
<1>2. /\ Len(p) \in Nat \ {0} /\ Head(p) = p[1] /\ Len(t) = Len(p) - 1
      /\ \A i \in 1 .. Len(t) : t[i] = p[i + 1]
  BY <1>1, RestFits
<1>3. \A last \in {2, 3} : Closes(p, last) => Len(p) = last /\ last # 2
  BY <1>1, RestOf DEF Ending
<1> HIDE DEF p, t
<1>4. CASE Closes(p, 3) /\ r \notin committed /\ req[r].op \in AuditedApart
  <2>1. Len(p) = 3
    BY <1>3, <1>4
  <2>2. p[2].do = "audit" /\ p[3].do = "commit"
    BY <1>4, <2>1 DEF Closes
  <2>3. Len(t) = 2 /\ t[1] = p[2] /\ t[2] = p[3]
    BY <1>2, <2>1
  <2>4. \A i \in 1 .. Len(p) : i = 1 \/ i = 2 \/ i = 3
    BY <2>1
  <2>5. Inserting(req[r]) = {}
    BY <1>1, <1>2, <2>2, <2>4 DEF Inserting, p
  <2>6. Looks(Said(p)) = {}
    BY <1>1, <1>2, <2>2, <2>4 DEF Looks, Said, Loading
  <2> QED BY <1>4, <2>1, <2>2, <2>3, <2>5, <2>6 DEF p, t
<1>5. CASE Len(p) = 1 /\ req[r].noted
  <2>1. \A i \in 1 .. Len(p) : p[i].do = "commit"
    BY <1>1, <1>2, <1>5 DEF p
  <2>2. Looks(Said(p)) = {}
    BY <2>1 DEF Looks, Said, Loading
  <2> QED BY <1>5, <2>2 DEF p
<1> QED BY <1>1, <1>2, <1>3, <1>4, <1>5 DEF EndsAudited, p

LEMMA CommitTraces ==
  ASSUME Consistent, Traced, NEW r \in Reqs, CommitWrites(r)
  PROVE  Traced'
<1> DEFINE q == req'[r]
<1>1. /\ At(r, {"commit"}) /\ committed' = committed \cup {r} /\ met' = met
      /\ audited' = IF req[r].noted THEN audited \cup {r} ELSE audited
  BY DEF CommitWrites
<1>2. /\ \A p \in Reqs \ {r} : req'[p] = req[p]
      /\ DOMAIN db' = Rows /\ \A x \in Rows : db'[x] = Seen(r, x)
      /\ \A x \in Rows \ DOMAIN req[r].writes : db'[x] = db[x]
      /\ Active(r) /\ DOMAIN q.writes = {} /\ q.locks = {} /\ q.by = req[r].by
      /\ q = Committed(r)
  BY CommitIs
<1>3. /\ DOMAIN req[r] = DOMAIN NewReq /\ DOMAIN req[r].writes \subseteq Rows
      /\ req[r].answer = "pending"
  BY <1>2 DEF Consistent, Typed, IsReq, Active
<1>4. /\ q.op = req[r].op /\ q.x = req[r].x /\ q.todo = Tail(req[r].todo)
      /\ q.wrote = req[r].wrote \cup DOMAIN req[r].writes
      /\ q.answer = IF Len(req[r].todo) = 1 THEN "ok" ELSE "pending"
  BY <1>2, <1>3 DEF Committed, NewReq
<1> HIDE DEF q
<1>5. EndsAudited(r) /\ ByKnown(r) /\ WritesAsked(r) /\ WritesFit(r)
  BY <1>2 DEF Traced, Traces, Consistent
<1>6. \A x \in DOMAIN req[r].writes : db'[x] = req[r].writes[x]
  BY <1>2, <1>3 DEF Seen
<1>7. ASSUME NEW p \in Reqs \ {r}
      PROVE  Traces(p)'
  <2>1. p \in committed' <=> p \in committed
    BY <1>1
  <2>2. p \in audited' <=> p \in audited
    BY <1>1
  <2>3. \A c \in committed :
          /\ req'[c].op = req[c].op /\ req'[c].x = req[c].x
          /\ req[c].wrote \subseteq req'[c].wrote
    <3>1. committed \subseteq Reqs
      BY DEF Consistent, Typed
    <3> QED BY <1>2, <1>4, <3>1 DEF q
  <2>4. ASSUME Active(p)
        PROVE  /\ \A z \in DOMAIN req[p].writes : db'[z] = db[z]
               /\ \A z \in Rows :
                    \/ db'[z] = db[z]
                    \/ \E c \in met'[p] \cap committed' :
                         /\ z \in req'[c].wrote
                         /\ (z \in Users /\ IsRow(db[z]) /\ ~ IsRow(db'[z])) =>
                              req'[c].op = "delete_user" /\ req'[c].x = z
    <3>1. r \in met'[p] \cap committed'
      BY <1>1, <1>2, <2>4 DEF Traced, AllMet
    <3>2. \A z \in DOMAIN req[p].writes : z \in Rows \ DOMAIN req[r].writes
      BY DEF Consistent, Typed, IsReq, Apart, WritesApart
    <3>3. ASSUME NEW z \in DOMAIN req[r].writes
          PROVE  /\ z \in req'[r].wrote
                 /\ (z \in Users /\ IsRow(db[z]) /\ ~ IsRow(db'[z])) =>
                      req'[r].op = "delete_user" /\ req'[r].x = z
      BY <1>4, <1>5, <1>6, RemovalAsked DEF q
    <3>4. \A z \in Rows : db'[z] = db[z] \/ z \in DOMAIN req[r].writes
      BY <1>2
    <3> QED BY <1>2, <3>1, <3>2, <3>3, <3>4
  <2> QED BY <1>1, <1>2, <2>1, <2>2, <2>3, <2>4, BystanderTraces
<1>8. Traces(r)'
  <2>1. CASE Len(req[r].todo) = 1 /\ req[r].noted
    BY <1>1, <1>4, <2>1 DEF Traces, Active, q
  <2>2. CASE /\ r \notin committed /\ req[r].op \in AuditedApart
             /\ Len(req[r].todo) = 3 /\ Len(Tail(req[r].todo)) = 2
             /\ Tail(req[r].todo)[1].do = "audit" /\ Tail(req[r].todo)[2].do = "commit"
             /\ Inserting(req[r]) = {}
    <3>1. q.answer = "pending" /\ Len(q.todo) = 2 /\ q.todo[1].do = "audit" /\ q.todo[2].do = "commit"
      <4> DEFINE t == Tail(req[r].todo)  n == Len(req[r].todo)
      <4>1. q.todo = t /\ (n # 1 => q.answer = "pending")
        BY <1>4
      <4>2. n = 3 /\ Len(t) = 2 /\ t[1].do = "audit" /\ t[2].do = "commit"
        BY <2>2
      <4> HIDE DEF t, n
      <4> QED BY <4>1, <4>2
    <3>2. EndsAudited(r)'
      BY <1>1, <1>2, <1>4, <2>2, <3>1 DEF EndsAudited, q
    <3>3. req[r].by \in Users /\ req[r].by \in Rows
      BY <1>2 DEF Consistent, Typed, Rows
    <3>4. RemovedBy(r, req[r].by) => RemovedBy(r, req[r].by)'
      <4>1. \A c \in met[r] \cap committed : c \in Reqs \ {r}
        BY DEF Consistent, Typed
      <4> QED BY <1>1, <1>2, <4>1 DEF RemovedBy, q
    <3>5. IsRow(db'[req[r].by]) \/ RemovedBy(r, req[r].by)'
      <4>1. CASE req[r].by \in DOMAIN req[r].writes
        <5>1. RowWritten(req[r], req[r].by)
          BY <1>5, <4>1 DEF WritesFit
        <5>2. CASE IsRow(req[r].writes[req[r].by])
          BY <1>6, <4>1, <5>2 DEF IsRow
        <5>3. CASE ~ IsRow(req[r].writes[req[r].by])
          <6>1. IsRow(db[req[r].by])
            BY <5>1, <5>3 DEF RowWritten
          <6>2. req[r].op = "delete_user"
            BY <1>5, <3>3, <4>1, <5>3, <6>1, RemovalAsked
          <6> QED BY <2>2, <6>2 DEF AuditedApart
        <5> QED BY <5>2, <5>3
      <4>2. CASE req[r].by \notin DOMAIN req[r].writes
        <5>1. db'[req[r].by] = db[req[r].by]
          BY <1>2, <3>3, <4>2
        <5> QED BY <1>5, <2>2, <3>4, <4>2, <5>1 DEF ByKnown
      <4> QED BY <4>1, <4>2
    <3>6. ByKnown(r)'
      BY <1>2, <3>5 DEF ByKnown, q
    <3>7. WritesAsked(r)'
      BY <1>2 DEF WritesAsked, q
    <3> QED BY <1>1, <3>1, <3>2, <3>6, <3>7 DEF Traces, Active, q
  <2> QED BY <1>1, <2>1, <2>2, AtCommit
<1>9. AllMet'
  BY <1>1, <1>2 DEF AllMet, Traced, Active
<1> QED BY <1>7, <1>8, <1>9 DEF Traced

-----------------------------------------------------------------------------
(* Deadlocks                                                               *)

\* What a request that has committed still has to do stops nobody.
LEMMA CommittedNotInCycle ==
  ASSUME Consistent, Traced, NEW r \in Reqs, InCycle(r)
  PROVE  r \notin committed
<1> SUFFICES ASSUME r \in committed
             PROVE  FALSE
  OBVIOUS
<1>1. ~ Granted(r) /\ WaitsForItself(r)
  BY DEF InCycle
<1>2. At(r, Writes)
  BY <1>1 DEF Granted, Blocks
<1>3. Active(r) /\ DOMAIN req[r].writes = {} /\ Len(req[r].todo) = 2
  BY <1>2, LateEntry DEF At
<1>4. req[r].locks = {}
  BY <1>3 DEF Traced, Traces, EndsAudited
<1>5. \A p \in Reqs : ~ Blocks(r, p)
  BY <1>3, <1>4 DEF Blocks, Clash
<1> DEFINE S == Reqs \ {r}
<1>6. \A p \in S \cup {r}, y \in Reqs : Blocks(y, p) => y \in S
  BY <1>5
<1>7. S \in SUBSET Reqs /\ r \notin S
  OBVIOUS
<1> QED BY <1>1, <1>6, <1>7 DEF WaitsForItself

LEMMA EndTraces ==
  ASSUME Consistent, Traced, NEW r \in Reqs, Fail(r) \/ BreakDeadlock(r)
  PROVE  Traced'
<1>1. CASE Fail(r)
  BY <1>1, AnsweredTraces DEF Fail
<1>2. CASE BreakDeadlock(r)
  <2>1. Active(r)
    BY <1>2 DEF BreakDeadlock, InCycle, Granted, Blocks, At
  <2> QED BY <1>2, <2>1, CommittedNotInCycle, AnsweredTraces DEF BreakDeadlock
<1> QED BY <1>1, <1>2

LEMMA NothingTraces ==
  ASSUME Consistent, Traced, UNCHANGED vars
  PROVE  Traced'
<1>1. db' = db /\ req' = req /\ committed' = committed /\ audited' = audited /\ met' = met
  BY DEF vars
<1>2. \A r \in Reqs : Traces(r)'
  BY <1>1, BystanderTraces
<1>3. AllMet'
  BY <1>1 DEF Traced, AllMet, Active
<1> QED BY <1>2, <1>3 DEF Traced

LEMMA NextTraces ==
  ASSUME Consistent, Traced, [Next]_vars
  PROVE  Traced'
<1>1. ASSUME NEW r \in Reqs, Begin(r)
      PROVE  Traced'
  BY <1>1, BeginArrives, ArriveTraces
<1>2. ASSUME NEW r \in Reqs, Step(r)
      PROVE  Traced'
  BY <1>2, ReadTraces, WriteTraces, CommitTraces DEF Step
<1>3. ASSUME NEW r \in Reqs, Fail(r) \/ BreakDeadlock(r)
      PROVE  Traced'
  BY <1>3, EndTraces
<1> QED BY <1>1, <1>2, <1>3, NothingTraces DEF Next

LEMMA AlwaysTraced == Spec => [](Consistent /\ Traced)
<1>1. Init => Traced
  <2> SUFFICES ASSUME Init
               PROVE  Traced
    OBVIOUS
  <2>1. committed = {} /\ \A r \in Reqs : req[r].answer = "none"
    BY DEF Init, NewReq
  <2> QED BY <2>1 DEF Traced, AllMet, Traces, Active
<1>2. Init => Consistent
  BY InitConsistent
<1>3. Consistent /\ Traced /\ [Next]_vars => (Consistent /\ Traced)'
  BY BeginKeeps, StepKeeps, NothingChangesNothing, NextTraces DEF Next
<1> QED BY <1>1, <1>2, <1>3, PTL DEF Spec

-----------------------------------------------------------------------------
(* The theorems about what requests do                                     *)

\* The tables change, and a request becomes committed, by a commit of it; its
\* first one if it has written anything.
LEMMA CommitsAre ==
  ASSUME Consistent, Traced, [Next]_vars
  PROVE  /\ \A r \in committed' \ committed : r \in Reqs /\ CommitWrites(r)
         /\ \A x \in Rows : db'[x] # db[x] =>
              \E r \in committed' \ committed :
                /\ CommitWrites(r) /\ r \in Reqs
                /\ x \in DOMAIN req[r].writes /\ db'[x] = req[r].writes[x]
<1>1. ASSUME NEW r \in Reqs, CommitWrites(r)
      PROVE  /\ committed' = committed \cup {r}
             /\ \A x \in Rows : db'[x] # db[x] =>
                  r \notin committed /\ x \in DOMAIN req[r].writes /\ db'[x] = req[r].writes[x]
  <2>1. committed' = committed \cup {r}
    BY <1>1 DEF CommitWrites
  <2>2. /\ Active(r) /\ \A x \in Rows : db'[x] = Seen(r, x)
        /\ \A x \in Rows \ DOMAIN req[r].writes : db'[x] = db[x]
    BY <1>1, CommitIs
  <2>3. r \in committed => DOMAIN req[r].writes = {}
    BY <2>2 DEF Traced, Traces, EndsAudited
  <2> QED BY <2>1, <2>2, <2>3 DEF Seen
<1>2. ASSUME NEW r \in Reqs, Begin(r)
      PROVE  db' = db /\ committed' = committed
  BY <1>2, BeginArrives, ArrivedIs DEF Arrival
<1>3. ASSUME NEW r \in Reqs, Read(r) \/ Write(r) \/ Fail(r) \/ BreakDeadlock(r)
      PROVE  db' = db /\ committed' = committed
  BY <1>3 DEF Read, Write, Fail, BreakDeadlock, Proceed
<1>4. CASE \E r \in Reqs : CommitWrites(r)
  BY <1>1, <1>4
<1>5. CASE ~ \E r \in Reqs : CommitWrites(r)
  <2>1. db' = db /\ committed' = committed
    BY <1>2, <1>3, <1>5 DEF Next, Step, vars
  <2> QED BY <2>1
<1> QED BY <1>4, <1>5

\* No handler leaves changes without their entry in the audit log, and is
\* answered as if it had not, but those that commit twice, and only if the
\* process fails between or an administrator removes the acting user meanwhile.
THEOREM CommitsAreAudited == Spec => []UnauditedExplained
<1>1. ASSUME Consistent, Traced
      PROVE  UnauditedExplained
  <2> SUFFICES ASSUME NEW r \in committed \ audited
               PROVE  /\ req[r].op \in AuditedApart
                      /\ \/ Active(r)
                         \/ req[r].answer = "lost"
                         \/ req[r].answer = "500" /\ RemovedBy(r, req[r].by)
    BY DEF UnauditedExplained, RemovedBy
  <2>1. Traces(r)
    BY <1>1 DEF Consistent, Typed, Traced
  <2>2. CASE Active(r)
    BY <2>1, <2>2 DEF Traces, EndsAudited
  <2>3. CASE ~ Active(r)
    BY <2>1, <2>3 DEF Traces, EndedUnaudited
  <2> QED BY <2>2, <2>3
<1> QED BY <1>1, AlwaysTraced, PTL

\* A handler looks at rows before it writes, and takes no lock to keep them as
\* they were: the user may be deactivated, or the account deleted, between the
\* look and the commit, but not before the request came.  Every row that it
\* needs is looked for, by every handler.
THEOREM LateWritesOnlyByOverlap == Spec => LateWritesNeedOverlap
<1> DEFINE named(r) == Rows \cap {req[r].want[c] : c \in DOMAIN req[r].want \cap DOMAIN Referring}
           needs(r) == {z \in named(r) \cup {req[r].by, req[r].x} : db[z].st # "absent"}
           A == \A r \in committed' \ committed : \A z \in needs(r) :
                  \/ db[z].st = "live"
                  \/ \E q \in met[r] \cap committed : z \in req[q].wrote
<1>1. ASSUME Consistent, Traced, [Next]_vars
      PROVE  A
  <2> SUFFICES ASSUME NEW r \in committed' \ committed, NEW z \in needs(r)
               PROVE  db[z].st = "live" \/ WrittenBy(r, z)
    BY SMTT(40) DEF WrittenBy
  <2>1. r \in Reqs /\ At(r, {"commit"}) /\ Active(r)
    BY <1>1, CommitsAre DEF CommitWrites, At
  <2>2. RestServes(r) /\ Looks(Said(req[r].todo)) = {}
    BY <1>1, <2>1, AtCommit DEF Traced, Traces
  <2>3. z \in Needs(req[r].x, req[r].want) \cup {req[r].by} /\ db[z].st # "absent"
    BY DEF Needs
  <2> QED BY <2>2, <2>3 DEF RestServes
<1> HIDE DEF A
<1>2. Consistent /\ Traced /\ [Next]_vars => [A]_vars
  BY <1>1
<1>3. LateWritesNeedOverlap <=> [][A]_vars
  BY PTL DEF LateWritesNeedOverlap, A
<1> QED BY <1>2, <1>3, AlwaysTraced, PTL DEF Spec

\* The session's copies of rows may be old when it writes, but an UPDATE names
\* only what was asked for and has changed: two requests that change different
\* columns of a row both have their way, and a soft deletion is not undone by
\* an update that had read the row before.
THEOREM ChangesAreAskedFor == Spec => OnlyWhatWasAsked
<1> DEFINE asked(r, x, row) ==
             /\ x = req[r].x
             /\ \/ row = Gone /\ req[r].want.st = "gone"
                \/ row # Gone /\ \A c \in DOMAIN db[x] :
                     row[c] = db[x][c] \/ (c \in DOMAIN req[r].want /\ row[c] = req[r].want[c])
           cascaded(r, x, row) ==
             \/ req[r].op = "delete_user" /\ row = Gone /\ req[r].x \in Refs(x, db[x])
             \/ /\ req[r].op = "delete_user" /\ row = Gone /\ x \in Shares
                /\ db[db[x].account].owner = req[r].x
             \/ req[r].op = "delete_institution" /\ x \in Cards /\ row = [db[x] EXCEPT !.inst = None]
           A == \A x \in Rows : IsRow(db[x]) /\ db'[x] # db[x] =>
                  \E r \in committed' \ committed : asked(r, x, db'[x]) \/ cascaded(r, x, db'[x])
<1>1. ASSUME Consistent, Traced, [Next]_vars
      PROVE  A
  <2> SUFFICES ASSUME NEW x \in Rows, IsRow(db[x]), db'[x] # db[x]
               PROVE  \E r \in committed' \ committed :
                        asked(r, x, db'[x]) \/ cascaded(r, x, db'[x])
    OBVIOUS
  <2>1. PICK r \in committed' \ committed :
          /\ CommitWrites(r) /\ r \in Reqs
          /\ x \in DOMAIN req[r].writes /\ db'[x] = req[r].writes[x]
    BY <1>1, CommitsAre
  <2>2. WritesAsked(r)
    BY <1>1, <2>1 DEF CommitWrites, At, Traced, Traces
  <2>3. Asked(req[r], x) \/ Cascaded(req[r], x)
    BY <2>1, <2>2 DEF WritesAsked
  <2>4. RowFits(x, db[x])
    BY <1>1 DEF Consistent, Typed
  <2>5. CASE Asked(req[r], x)
    <3>1. asked(r, x, db'[x])
      BY <2>1, <2>5, StatesApart DEF Asked
    <3> QED BY <3>1
  <2>6. CASE Cascaded(req[r], x)
    <3>1. cascaded(r, x, db'[x])
      BY <2>1, <2>4, <2>6, ReferencesOf DEF Cascaded
    <3> QED BY <3>1
  <2> QED BY <2>3, <2>5, <2>6
<1> HIDE DEF A
<1>2. Consistent /\ Traced /\ [Next]_vars => [A]_vars
  BY <1>1
<1>3. OnlyWhatWasAsked <=> [][A]_vars
  BY PTL DEF OnlyWhatWasAsked, A
<1> QED BY <1>2, <1>3, AlwaysTraced, PTL DEF Spec

-----------------------------------------------------------------------------
(* What requests wish for.  The inductive invariant is Wished, on top of    *)
(* Consistent and Traced.                                                   *)

\* The session's copies of rows are as old as the last writer met.
CopiesHold(r) == \A y \in DOMAIN req[r].read : req[r].read[y] = db[y] \/ WrittenBy(r, y)

\* A row is read before it is updated, and found before it is removed.
LooksFirst(r) ==
  LET q == req[r] IN
  \A s \in Said(q.todo) :
    /\ s.do = "update" => q.x \in DOMAIN q.read \cup Looks(Said(q.todo))
    /\ s.do = "erase" =>
         q.x \in Looks(Said(q.todo)) \/ db[q.x].st # "absent" \/ WrittenBy(r, q.x)

\* What was asked for is still to be done, or is there for the request to see,
\* unless somebody else has written the row.
Attains(r) ==
  LET q == req[r] IN
  \/ DOMAIN q.want = {}
  \/ Grants(Said(q.todo), q.x)
  \/ WrittenBy(r, q.x)
  \/ \A c \in DOMAIN q.want : Seen(r, q.x)[c] = q.want[c]

Wishes(r) == CopiesHold(r) /\ LooksFirst(r) /\ Attains(r)

Wished == \A r \in Reqs \ committed : Active(r) => Wishes(r)

LEMMA BystanderWishes ==
  ASSUME Consistent, Traced, Wished, NEW r \in Reqs \ committed, Active(r), req'[r] = req[r],
         met[r] \subseteq met'[r], committed \subseteq committed',
         \A q \in committed : req[q].wrote \subseteq req'[q].wrote,
         \A z \in Rows : db'[z] = db[z] \/ WrittenBy(r, z)'
  PROVE  Wishes(r)'
<1> DEFINE q == req[r]
<1>1. CopiesHold(r) /\ LooksFirst(r) /\ Attains(r)
  BY DEF Wished, Wishes
<1>2. \A z : WrittenBy(r, z) => WrittenBy(r, z)'
  BY DEF WrittenBy
<1>3. DOMAIN q.read \subseteq Rows
  BY DEF Consistent, Typed, IsReq
<1>4. q.x \in Rows
  BY DEF Traced, Traces, RestServes, Needs
<1>5. CopiesHold(r)'
  BY <1>1, <1>2, <1>3 DEF CopiesHold
<1>6. LooksFirst(r)'
  BY <1>1, <1>2, <1>4 DEF LooksFirst
<1>7. Attains(r)'
  <2>1. CASE DOMAIN q.want = {} \/ Grants(Said(q.todo), q.x) \/ WrittenBy(r, q.x)
    BY <1>2, <2>1 DEF Attains
  <2>2. CASE \A c \in DOMAIN q.want : Seen(r, q.x)[c] = q.want[c]
    <3>1. Seen(r, q.x)' = Seen(r, q.x) \/ WrittenBy(r, q.x)'
      BY <1>4 DEF Seen
    <3> QED BY <2>2, <3>1 DEF Attains
  <2> QED BY <1>1, <2>1, <2>2 DEF Attains
<1> QED BY <1>5, <1>6, <1>7 DEF Wishes

\* Steps that change nothing but what one request is.
LEMMA OthersWish ==
  ASSUME Consistent, Traced, Wished, NEW r \in Reqs, \A q \in Reqs \ {r} : req'[q] = req[q],
         r \in committed => req'[r].wrote = req[r].wrote,
         db' = db, committed' = committed, \A q \in Reqs \ {r} : met[q] \subseteq met'[q],
         r \notin committed /\ Active(r)' => Wishes(r)'
  PROVE  Wished'
<1> SUFFICES ASSUME NEW p \in Reqs \ committed, p # r, Active(p)
             PROVE  Wishes(p)'
  BY DEF Wished, Active
<1>1. \A q \in committed : req[q].wrote \subseteq req'[q].wrote
  BY DEF Consistent, Typed
<1> QED BY <1>1, BystanderWishes

LEMMA ArriveWishes ==
  ASSUME Consistent, Traced, Wished, NEW r \in Reqs, Arrival(r)
  PROVE  Wished'
<1> PICK op, by, gate, x, want, new, plan : Arrives(r, op, by, gate, x, want, new, plan)
  BY DEF Arrival
<1> DEFINE q == req'[r]
<1>1. /\ \A p \in Reqs \ {r} : req'[p] = req[p]
      /\ req[r].answer = "none" /\ Meet(r) /\ db' = db /\ committed' = committed
  BY ArrivedIs
<1>2. /\ q.read \in {Nothing, Only(by, db[by])}
      /\ gate = "ok" => q.todo = plan /\ q.x = x /\ q.want = want
      /\ gate # "ok" => q.answer # "pending"
  BY ArrivedIs
<1> HIDE DEF q
<1>3. \A p \in Reqs \ {r} : met[p] \subseteq met'[p]
  BY <1>1 DEF Meet
<1>4. r \notin committed
  BY <1>1 DEF Traced, Traces
<1>5. ASSUME Active(r)'
      PROVE  Wishes(r)'
  <2>1. gate = "ok"
    BY <1>2, <1>5 DEF Active, q
  <2>2. /\ DOMAIN want = {} \/ Grants(Said(plan), x)
        /\ \A s \in Said(plan) : s.do \in {"update", "erase"} => x \in Looks(Said(plan))
    BY DEF Arrives, Serves
  <2>3. CopiesHold(r)'
    <3>1. \A y \in DOMAIN q.read : q.read[y] = db[y]
      BY <1>2 DEF Only, Nothing
    <3> QED BY <1>1, <3>1 DEF CopiesHold, q
  <2>4. LooksFirst(r)'
    BY <1>2, <2>1, <2>2 DEF LooksFirst, q
  <2>5. Attains(r)'
    BY <1>2, <2>1, <2>2 DEF Attains, q
  <2> QED BY <2>3, <2>4, <2>5 DEF Wishes
<1> QED BY <1>1, <1>3, <1>4, <1>5, OthersWish

LEMMA AnsweredWishes ==
  ASSUME Consistent, Traced, Wished, NEW r \in Reqs, Active(r), NEW a, a # "pending",
         Proceed(r, Answered(r, a))
  PROVE  Wished'
<1>1. /\ \A p \in Reqs \ {r} : req'[p] = req[p]
      /\ req'[r] = Answered(r, a)
      /\ db' = db /\ committed' = committed /\ met' = met
  BY DEF Proceed, Consistent, Typed
<1>2. DOMAIN req[r] = DOMAIN NewReq
  BY DEF Consistent, Typed, IsReq
<1>3. req'[r].answer = a /\ (r \in committed => req'[r].wrote = req[r].wrote)
  <2>1. CASE r \in committed
    BY <1>1, <1>2, <2>1 DEF Answered, NewReq
  <2>2. CASE r \notin committed
    BY <1>1, <2>2 DEF Answered, NewReq
  <2> QED BY <2>1, <2>2
<1>4. ~ Active(r)'
  BY <1>3 DEF Active
<1> QED BY <1>1, <1>3, <1>4, OthersWish

\* After a statement that changes a row, nothing is looked for.
LEMMA WritesComeLast ==
  ASSUME NEW p, PlanFits(p), p # << >>
  PROVE  /\ Head(p).do \in Ending => \A s \in Said(p) : s.do \in Ending
         /\ Head(p).do \in {"update", "erase"} => Looks(Said(p)) = {}
<1> DEFINE t == Tail(p)
<1>1. /\ Head(p) = p[1] /\ Len(t) \in Nat
      /\ \A i \in 1 .. Len(t) : t[i] = p[i + 1] /\ Follows(p, 1, i + 1)
  BY RestFits
<1>2. Said(p) = {Head(p)} \cup Said(t)
  BY RestOf
<1>3. \A i \in 1 .. Len(t) :
        /\ Head(p).do \in Ending \cup {"update"} => t[i].do \in Ending
        /\ Head(p).do = "erase" => t[i].do \in Ending \cup {"cascade"}
  BY <1>1 DEF Follows
<1> HIDE DEF t
<1>4. /\ Head(p).do \in Ending \cup {"update"} => \A s \in Said(t) : s.do \in Ending
      /\ Head(p).do = "erase" => \A s \in Said(t) : s.do \in Ending \cup {"cascade"}
  BY <1>3 DEF Said
<1>5. Head(p).do \in {"update", "erase"} => \A s \in Said(p) : s.do \notin Loading
  BY <1>2, <1>4 DEF Ending, Loading
<1> QED BY <1>2, <1>4, <1>5 DEF Looks

\* A row is looked for at the version that the tables have.
LEMMA ReadWishes ==
  ASSUME Consistent, Traced, Wished, NEW r \in Reqs, Read(r)
  PROVE  Wished'
<1> DEFINE s == Now(r)
           q == [req[r] EXCEPT !.todo = Tail(@),
                   !.read = IF s.do \in Loading THEN Over(@, Only(s.x, db[s.x])) ELSE @]
<1>1. Active(r) /\ s.do \in Checks /\ IsReq(req[r]) /\ req[r].todo # << >> /\ PlanFits(req[r].todo)
  BY DEF Consistent, Typed, IsReq, Active, Read, At
<1>2. StatementFits(s) /\ s = Head(req[r].todo)
  BY <1>1, RestFits DEF Now
<1>3. CASE Verdict(r, s) # "ok"
  BY <1>1, <1>2, <1>3, VerdictEnds, AnsweredWishes DEF Read
<1>4. CASE Verdict(r, s) = "ok"
  <2>1. /\ q.todo = Tail(req[r].todo) /\ q.writes = req[r].writes /\ q.wrote = req[r].wrote
        /\ q.x = req[r].x /\ q.want = req[r].want
        /\ q.read = IF s.do \in Loading THEN Over(req[r].read, Only(s.x, db[s.x])) ELSE req[r].read
    BY <1>1 DEF IsReq, NewReq
  <2>2. Proceed(r, q)
    BY <1>4 DEF Read
  <2> HIDE DEF q, s
  <2>3. /\ \A p \in Reqs \ {r} : req'[p] = req[p]
        /\ req'[r] = q
        /\ db' = db /\ committed' = committed /\ met' = met
    BY <2>2 DEF Proceed, Consistent, Typed
  <2>4. Said(req[r].todo) = {s} \cup Said(q.todo)
    BY <1>1, <1>2, <2>1, RestOf
  <2>5. s.do \notin {"insert", "update", "erase"}
    BY <1>1, ChecksApart
  <2>6. /\ DOMAIN q.read = DOMAIN req[r].read \cup (IF s.do \in Loading THEN {s.x} ELSE {})
        /\ \A y \in DOMAIN req[r].read : q.read[y] = req[r].read[y]
        /\ \A y \in DOMAIN q.read \ DOMAIN req[r].read : q.read[y] = db[y]
    <3>1. CASE s.do \in Loading
      BY <2>1, <3>1 DEF Over, Only
    <3>2. CASE s.do \notin Loading
      BY <2>1, <3>2
    <3> QED BY <3>1, <3>2
  <2>7. ASSUME r \notin committed
        PROVE  Wishes(r)'
    <3>1. CopiesHold(r) /\ LooksFirst(r) /\ Attains(r) /\ RestServes(r)
      BY <1>1, <2>7 DEF Wished, Wishes, Traced, Traces
    <3>2. \A z : WrittenBy(r, z) => WrittenBy(r, z)'
      BY <2>3, <2>7 DEF WrittenBy, Consistent, Typed
    <3>3. CopiesHold(r)'
      BY <2>3, <2>6, <3>1, <3>2 DEF CopiesHold
    <3>4. Looks(Said(req[r].todo)) = Looks(Said(q.todo)) \cup (IF s.do \in Loading THEN {s.x} ELSE {})
      BY <2>4 DEF Looks
    <3>5. \A t \in Said(q.todo) : t.do = "erase" =>
            q.x \in Looks(Said(q.todo)) \/ db[q.x].st # "absent" \/ WrittenBy(r, q.x)
      <4>1. s.do \in Loading => db[s.x].st = "live"
        BY <1>2, <1>4, LoadedLive
      <4> QED BY <2>1, <2>4, <3>1, <3>4, <4>1 DEF LooksFirst
    <3>6. \A t \in Said(q.todo) : t.do = "update" => q.x \in DOMAIN q.read \cup Looks(Said(q.todo))
      BY <2>1, <2>4, <2>6, <3>1, <3>4 DEF LooksFirst
    <3>7. LooksFirst(r)'
      BY <2>3, <3>2, <3>5, <3>6 DEF LooksFirst
    <3>8. Grants(Said(req[r].todo), q.x) => Grants(Said(q.todo), q.x)
      BY <2>4, <2>5 DEF Grants
    <3>9. Attains(r)'
      <4>1. \A z : Seen(r, z)' = Seen(r, z)
        BY <2>1, <2>3 DEF Seen
      <4> QED BY <2>1, <2>3, <3>1, <3>2, <3>8, <4>1 DEF Attains
    <3> QED BY <3>3, <3>7, <3>9 DEF Wishes
  <2> QED BY <2>1, <2>3, <2>7, OthersWish
<1> QED BY <1>3, <1>4

\* The row that was asked for is as it was asked for in what the statement leaves
\* the request to see, unless somebody else has written it.
LEMMA EffectGrants ==
  ASSUME Consistent, Traced, Wished, NEW r \in Reqs \ committed, At(r, Writes),
         ~ Violates(r, Now(r)), Now(r).do \in {"insert", "update", "erase"}, Now(r).x = req[r].x,
         ~ WrittenBy(r, req[r].x)
  PROVE  LET x == req[r].x  E == Effect(r, Now(r)) IN
         \A c \in DOMAIN req[r].want :
           (IF x \in DOMAIN E THEN E[x] ELSE Seen(r, x))[c] = req[r].want[c]
<1> DEFINE s == Now(r)  E == Effect(r, s)  q == req[r]  x == q.x  want == q.want
<1>1. Active(r) /\ IsReq(q) /\ q.todo # << >> /\ PlanFits(q.todo)
  BY DEF Consistent, Typed, IsReq, Active, At
<1>2. s = Head(q.todo) /\ s = q.todo[1] /\ Len(q.todo) \in Nat \ {0} /\ StatementFits(s)
      /\ s \in Said(q.todo)
  BY <1>1, RestFits, RestOf DEF Now
<1>3. CopiesHold(r) /\ LooksFirst(r) /\ StatementOf(q.op, x, want, s) /\ x \in Rows
  BY <1>1, <1>2 DEF Wished, Wishes, Traced, Traces, RestServes, Needs
<1>4. RowFits(x, db[x])
  BY <1>3 DEF Consistent, Typed
<1>5. s.do \in {"update", "erase"} => Looks(Said(q.todo)) = {} /\ DOMAIN q.writes = {}
  BY <1>1, <1>2, WritesComeLast DEF IsReq, Unwritten
<1>6. s.do = "insert" => DOMAIN E = {s.x} /\ E[s.x] = s.arg
  BY EffectIs
<1>7. /\ s.do = "update" /\ DOMAIN E # {} => E[s.x] = Updated(r, s)
      /\ s.do = "update" => DOMAIN E \subseteq {s.x}
  BY EffectIs
<1>8. s.do = "update" /\ IsRow(db[s.x]) /\ DOMAIN Changes(r, s) # {} => DOMAIN E = {s.x}
  BY OnlyIs DEF Effect
<1>9. s.do = "erase" => /\ DOMAIN E # {} => E[s.x] = Gone
                        /\ DOMAIN E \subseteq {s.x}
  BY EffectIs
<1>10. s.do = "erase" /\ IsRow(db[s.x]) => DOMAIN E = {s.x}
  BY OnlyIs DEF Effect
<1>11. s.x = x /\ s.do \in {"insert", "update", "erase"} /\ ~ Violates(r, s) /\ ~ WrittenBy(r, x)
  OBVIOUS
<1> SUFFICES \A c \in DOMAIN want : (IF x \in DOMAIN E THEN E[x] ELSE Seen(r, x))[c] = want[c]
  OBVIOUS
<1> HIDE DEF s, E, x, want
<1>12. CASE s.do = "insert"
  <2>1. x \in DOMAIN E /\ E[x] = s.arg /\ s.arg = want
    BY <1>3, <1>6, <1>11, <1>12 DEF StatementOf
  <2> QED BY <2>1
<1>13. CASE s.do = "update"
  <2>1. s.arg = want /\ Fits(x, want)
    BY <1>2, <1>3, <1>11, <1>13 DEF StatementOf, StatementFits
  <2>2. IsRow(db[x])
    BY <1>11, <1>13 DEF Violates
  <2>3. x \in DOMAIN q.read /\ q.read[x] = db[x]
    BY <1>2, <1>3, <1>5, <1>11, <1>13 DEF LooksFirst, CopiesHold, x
  <2>4. DOMAIN want \subseteq DOMAIN db[x]
    BY <1>4, <2>1, <2>2, StatesApart DEF RowFits, Fits
  <2> DEFINE C == Changes(r, s)
  <2>5. /\ \A c \in DOMAIN C : C[c] = want[c]
        /\ \A c \in DOMAIN want \ DOMAIN C : db[x][c] = want[c]
    BY <1>11, <2>1, <2>3 DEF Changes
  <2>6. x \in DOMAIN E => E[x] = Over(C, db[x])
    BY <1>7, <1>11, <1>13 DEF Updated
  <2>7. x \notin DOMAIN E => DOMAIN C = {}
    BY <1>8, <1>11, <1>13, <2>2
  <2>8. Seen(r, x) = db[x]
    BY <1>5, <1>13 DEF Seen
  <2> HIDE DEF C
  <2>9. CASE x \in DOMAIN E
    <3>1. \A c \in DOMAIN want : Over(C, db[x])[c] = want[c]
      BY <2>4, <2>5 DEF Over
    <3> QED BY <2>6, <2>9, <3>1
  <2>10. CASE x \notin DOMAIN E
    <3>1. \A c \in DOMAIN want : db[x][c] = want[c]
      BY <2>5, <2>7, <2>10
    <3> QED BY <2>8, <2>10, <3>1
  <2> QED BY <2>9, <2>10
<1>14. CASE s.do = "erase"
  <2>1. want = [st |-> "gone"]
    BY <1>3, <1>14 DEF StatementOf
  <2>2. \A c \in DOMAIN want : Gone[c] = want[c]
    BY <2>1 DEF Gone
  <2>3. x \in DOMAIN E => E[x] = Gone
    BY <1>9, <1>11, <1>14
  <2>4. x \notin DOMAIN E => ~ IsRow(db[x])
    BY <1>10, <1>11, <1>14
  <2>5. db[x].st # "absent"
    BY <1>2, <1>3, <1>5, <1>11, <1>14 DEF LooksFirst, x
  <2>6. x \notin DOMAIN E => db[x] = Gone
    BY <1>4, <2>4, <2>5 DEF RowFits, Absent
  <2>7. Seen(r, x) = db[x]
    BY <1>5, <1>14 DEF Seen
  <2> QED BY <2>2, <2>3, <2>6, <2>7
<1> QED BY <1>11, <1>12, <1>13, <1>14

\* No other statement writes it.
LEMMA OthersLeaveIt ==
  ASSUME Consistent, Traced, NEW r \in Reqs \ committed, At(r, Writes),
         ~ (Now(r).do \in {"insert", "update", "erase"} /\ Now(r).x = req[r].x)
  PROVE  req[r].x \notin DOMAIN Effect(r, Now(r))
<1> DEFINE s == Now(r)  x == req[r].x
<1>1. Active(r) /\ IsReq(req[r]) /\ req[r].todo # << >> /\ PlanFits(req[r].todo) /\ s.do \in Writes
      /\ Typed
  BY DEF Consistent, Typed, IsReq, Active, At
<1>2. StatementFits(s) /\ s \in Said(req[r].todo)
  BY <1>1, RestFits, RestOf DEF Now
<1>3. StatementOf(req[r].op, x, req[r].want, s)
  BY <1>1, <1>2 DEF Traced, Traces, RestServes
<1>4. s.do \notin {"update", "erase"} /\ (s.do = "insert" => s.x # x)
  BY <1>3 DEF StatementOf
<1>5. /\ s.do = "insert" => DOMAIN Effect(r, s) = {s.x}
      /\ s.do = "audit" => DOMAIN Effect(r, s) = {}
      /\ s.do = "cascade" => DOMAIN Effect(r, s) = Dependents(s.x)
  BY EffectIs
<1> SUFFICES x \notin DOMAIN Effect(r, s)
  OBVIOUS
<1> HIDE DEF s, x
<1>6. CASE s.do = "cascade"
  <2>1. s.x = x /\ x \in Users \cup Types \cup Institutions
    BY <1>2, <1>3, <1>6 DEF StatementOf, StatementFits
  <2>2. Dependents(x) \subseteq Accounts \cup Shares \cup Cards
    BY <2>1 DEF Dependents
  <2> QED BY <1>5, <1>6, <2>1, <2>2, KindsApart
<1> QED BY <1>1, <1>4, <1>5, <1>6 DEF Writes

LEMMA WriteWishes ==
  ASSUME Consistent, Traced, Wished, NEW r \in Reqs, Write(r)
  PROVE  Wished'
<1> DEFINE s == Now(r)  q == Wrote(r)  E == Effect(r, s)  x == req[r].x
<1>1. Active(r) /\ At(r, Writes) /\ s.do \in Writes
      /\ IsReq(req[r]) /\ req[r].todo # << >> /\ PlanFits(req[r].todo)
  BY DEF Consistent, Typed, IsReq, Active, Write, At
<1>2. s = Head(req[r].todo)
  BY DEF Now
<1>3. CASE Violates(r, s)
  BY <1>1, <1>3, AnsweredWishes DEF Write
<1>4. CASE ~ Violates(r, s)
  <2>1. /\ q.todo = Tail(req[r].todo)
        /\ DOMAIN q.writes = DOMAIN E \cup DOMAIN req[r].writes
        /\ \A z \in DOMAIN E : q.writes[z] = E[z]
        /\ \A z \in DOMAIN req[r].writes : q.writes[z] = req[r].writes[z]
        /\ q.wrote = req[r].wrote /\ q.read = req[r].read
    BY <1>1, WroteIs
  <2>2. q.x = x /\ q.want = req[r].want
    BY <1>1 DEF Wrote, IsReq, NewReq
  <2>3. Proceed(r, q)
    BY <1>4 DEF Write, Wrote
  <2>4. r \notin committed /\ s.do \in {"insert", "update", "erase"} /\ s.x = x =>
          \/ WrittenBy(r, x)
          \/ \A c \in DOMAIN req[r].want : (IF x \in DOMAIN E THEN E[x] ELSE Seen(r, x))[c] = req[r].want[c]
    BY <1>1, <1>4, EffectGrants
  <2>5. r \notin committed /\ ~ (s.do \in {"insert", "update", "erase"} /\ s.x = x) => x \notin DOMAIN E
    BY <1>1, OthersLeaveIt
  <2> HIDE DEF q, s, E
  <2>6. /\ \A p \in Reqs \ {r} : req'[p] = req[p]
        /\ req'[r] = q
        /\ db' = db /\ committed' = committed /\ met' = met
    BY <2>3 DEF Proceed, Consistent, Typed
  <2>7. Said(req[r].todo) = {s} \cup Said(q.todo)
    BY <1>1, <1>2, <2>1, RestOf
  <2>8. ASSUME r \notin committed
        PROVE  Wishes(r)'
    <3>1. CopiesHold(r) /\ LooksFirst(r) /\ Attains(r)
      BY <1>1, <2>8 DEF Wished, Wishes
    <3>2. \A z : WrittenBy(r, z) => WrittenBy(r, z)'
      <4>1. \A p \in met[r] \cap committed : p \in Reqs \ {r}
        BY DEF Consistent, Typed
      <4> QED BY <2>6, <4>1 DEF WrittenBy
    <3>3. CopiesHold(r)'
      BY <2>1, <2>6, <3>1, <3>2 DEF CopiesHold
    <3>4. s.do \notin Loading
      BY <1>1 DEF Loading, Writes
    <3>5. Looks(Said(req[r].todo)) \subseteq Looks(Said(q.todo))
      BY <2>7, <3>4 DEF Looks
    <3>6. LooksFirst(r)'
      BY <2>1, <2>2, <2>6, <2>7, <3>1, <3>2, <3>5 DEF LooksFirst
    <3>7. /\ x \in DOMAIN E => Seen(r, x)' = E[x]
          /\ x \notin DOMAIN E => Seen(r, x)' = Seen(r, x)
      BY <2>1, <2>2, <2>6 DEF Seen
    <3>8. Attains(r)'
      <4>1. CASE s.do \in {"insert", "update", "erase"} /\ s.x = x
        <5>1. \/ WrittenBy(r, x)
              \/ \A c \in DOMAIN req[r].want : Seen(r, x)'[c] = req[r].want[c]
          BY <2>4, <2>8, <3>7, <4>1
        <5> QED BY <2>2, <2>6, <3>2, <5>1 DEF Attains
      <4>2. CASE ~ (s.do \in {"insert", "update", "erase"} /\ s.x = x)
        <5>1. Seen(r, x)' = Seen(r, x)
          BY <2>5, <2>8, <3>7, <4>2
        <5>2. Grants(Said(req[r].todo), x) => Grants(Said(q.todo), x)
          BY <2>7, <4>2 DEF Grants
        <5> QED BY <2>2, <2>6, <3>1, <3>2, <5>1, <5>2 DEF Attains
      <4> QED BY <4>1, <4>2
    <3> QED BY <3>3, <3>6, <3>8 DEF Wishes
  <2> QED BY <2>1, <2>6, <2>8, OthersWish
<1> QED BY <1>3, <1>4

LEMMA CommitWishes ==
  ASSUME Consistent, Traced, Wished, NEW r \in Reqs, CommitWrites(r)
  PROVE  Wished'
<1>1. /\ committed' = committed \cup {r} /\ met' = met /\ Active(r)
      /\ \A p \in Reqs \ {r} : req'[p] = req[p]
      /\ \A z \in Rows \ DOMAIN req[r].writes : db'[z] = db[z]
      /\ req'[r] = Committed(r)
  BY CommitIs DEF CommitWrites
<1>2. req'[r].wrote = req[r].wrote \cup DOMAIN req[r].writes
  BY <1>1 DEF Committed, NewReq, Consistent, Typed, IsReq
<1> SUFFICES ASSUME NEW p \in Reqs \ committed, p # r, Active(p)
             PROVE  Wishes(p)'
  BY <1>1 DEF Wished, Active
<1>3. \A q \in committed : req[q].wrote \subseteq req'[q].wrote
  BY <1>1, <1>2 DEF Consistent, Typed
<1>4. r \in met'[p] \cap committed'
  BY <1>1 DEF Traced, AllMet
<1>5. \A z \in Rows : db'[z] = db[z] \/ WrittenBy(p, z)'
  BY <1>1, <1>2, <1>4 DEF WrittenBy
<1> QED BY <1>1, <1>3, <1>5, BystanderWishes

LEMMA NextWishes ==
  ASSUME Consistent, Traced, Wished, [Next]_vars
  PROVE  Wished'
<1>1. ASSUME NEW r \in Reqs, Begin(r)
      PROVE  Wished'
  BY <1>1, BeginArrives, ArriveWishes
<1>2. ASSUME NEW r \in Reqs, Step(r)
      PROVE  Wished'
  BY <1>2, ReadWishes, WriteWishes, CommitWishes DEF Step
<1>3. ASSUME NEW r \in Reqs, Fail(r) \/ BreakDeadlock(r)
      PROVE  Wished'
  <2>1. Active(r)
    BY <1>3 DEF Fail, BreakDeadlock, InCycle, Granted, Blocks, At
  <2> QED BY <1>3, <2>1, AnsweredWishes DEF Fail, BreakDeadlock
<1>4. CASE UNCHANGED vars
  <2>1. db' = db /\ req' = req /\ committed' = committed /\ met' = met
    BY <1>4 DEF vars
  <2> SUFFICES ASSUME NEW p \in Reqs \ committed, Active(p)
               PROVE  Wishes(p)'
    BY <2>1 DEF Wished, Active
  <2> QED BY <2>1, BystanderWishes
<1> QED BY <1>1, <1>2, <1>3, <1>4 DEF Next

\* What was asked for is there after the commit that says so: an UPDATE leaves
\* out the columns that had the wanted value when the row was read, and a row
\* that is gone is not removed again, but only another request that it
\* overlapped can have made them different.
THEOREM WishesAreGranted == Spec => WishesComeTrue
<1> DEFINE A == \A r \in committed' \ committed :
                  \/ \E q \in met[r] \cap committed : req[r].x \in req[q].wrote
                  \/ \A c \in DOMAIN req[r].want : db'[req[r].x][c] = req[r].want[c]
<1>1. ASSUME Consistent, Traced, Wished, [Next]_vars
      PROVE  A
  <2> SUFFICES ASSUME NEW r \in committed' \ committed, ~ WrittenBy(r, req[r].x)
               PROVE  \A c \in DOMAIN req[r].want : db'[req[r].x][c] = req[r].want[c]
    BY DEF WrittenBy
  <2>1. r \in Reqs /\ CommitWrites(r)
    BY <1>1, CommitsAre
  <2>2. At(r, {"commit"}) /\ Active(r) /\ PlanFits(req[r].todo) /\ req[r].todo # << >>
    BY <1>1, <2>1 DEF CommitWrites, At, Active, Consistent, Typed, IsReq
  <2>3. \A s \in Said(req[r].todo) : s.do \in Ending
    BY <2>2, WritesComeLast DEF At, Now, Ending
  <2>4. ~ Grants(Said(req[r].todo), req[r].x)
    BY <2>3 DEF Grants, Ending
  <2>5. Attains(r) /\ req[r].x \in Rows
    BY <1>1, <2>1, <2>2 DEF Wished, Wishes, Traced, Traces, RestServes, Needs
  <2>6. db'[req[r].x] = Seen(r, req[r].x)
    BY <1>1, <2>1, <2>5, CommitIs
  <2> QED BY <2>4, <2>5, <2>6 DEF Attains
<1> HIDE DEF A
<1>2. Consistent /\ Traced /\ Wished /\ [Next]_vars => [A]_vars
  BY <1>1
<1>3. WishesComeTrue <=> [][A]_vars
  BY PTL DEF WishesComeTrue, A
<1>4. Init => Wished
  <2> SUFFICES ASSUME Init
               PROVE  Wished
    OBVIOUS
  <2>1. \A r \in Reqs : ~ Active(r)
    BY DEF Init, NewReq, Active
  <2> QED BY <2>1 DEF Wished
<1>5. Consistent /\ Traced /\ Wished /\ [Next]_vars => Wished'
  BY NextWishes
<1> QED BY <1>2, <1>3, <1>4, <1>5, AlwaysTraced, PTL DEF Spec

-----------------------------------------------------------------------------
(* Whose the accounts are.  The inductive invariant is Owned, on top of     *)
(* Consistent and Traced.                                                   *)

\* The rows that the request inserts, or has inserted and not committed.
NewRows(r) ==
  LET q == req[r] IN
  NewIn(Said(q.todo)) \cup {<<x, q.writes[x]>> : x \in {y \in DOMAIN q.writes : db[y].st = "absent"}}

\* The account is the acting user's, and the share has not the level owner, for
\* as long as they are in the table.
KnownOwner(r, a) == db[a].st # "absent" /\ (IsRow(db[a]) => db[a].owner = req[r].by)
NotOwners(x) == db[x].st # "absent" /\ (IsRow(db[x]) => db[x].level # "owner")

\* Who changes a share has been found, or will be, to own its account.
Minds(r) ==
  LET q == req[r]
      S == Said(q.todo)
  IN
  q.op \in ShareOps =>
    /\ q.x \in Shares /\ (Looked(q.x, S) \/ NotOwners(q.x))
    /\ \A s \in S : s.do = "share" =>
         s.arg \in Accounts /\ (OwnerAsked(s.arg, S) \/ KnownOwner(r, s.arg))
    /\ Promoted(q.want) => Refused(S)
    /\ \A i \in 2 .. Len(q.todo) : q.todo[i].do # "owner"

UpdatesKeep(r) ==
  LET q == req[r] IN
  \A s \in Said(q.todo) : s.do = "update" =>
    DOMAIN s.arg \cap Holders = {} /\ (s.x \in Shares => q.op \in ShareOps)

\* What depends on a row is removed once the row has been.
Removes(r) ==
  LET S == Said(req[r].todo) IN
  \A s \in S :
    /\ s.do = "erase" => s.x \in Looks(S) \/ db[s.x].st # "absent"
    /\ s.do = "cascade" => \/ \E t \in S : t.do = "erase" /\ t.x = s.x
                           \/ db[s.x].st # "absent" /\ ~ IsRow(Seen(r, s.x))

\* An account keeps its owner, a share that is not of level owner does not come
\* to be one, and one that is goes only with its account or its user.
Leaves(r) ==
  LET w == req[r].writes
      removed(y) == y \in DOMAIN w /\ ~ IsRow(w[y])
  IN
  \A x \in DOMAIN w : IsRow(db[x]) =>
    /\ x \in Accounts /\ IsRow(w[x]) => w[x].owner = db[x].owner
    /\ x \in Shares /\ IsRow(w[x]) => w[x].level # "owner" /\ db[x].level # "owner"
    /\ x \in Shares /\ ~ IsRow(w[x]) => removed(db[x].account) \/ removed(db[x].user)

Owns(r) ==
  /\ Paired(NewRows(r), Said(req[r].todo))
  /\ Minds(r) /\ UpdatesKeep(r) /\ Removes(r) /\ Leaves(r)

Owned == OwnersRecorded(db) /\ \A r \in Reqs \ committed : Active(r) => Owns(r)

\* The request that a step does not touch, while another commits, perhaps.
LEMMA BystanderOwns ==
  ASSUME Consistent, Owned, NEW r \in Reqs \ committed, Active(r), req'[r] = req[r],
         \A z \in DOMAIN req[r].writes : db'[z] = db[z],
         \A z \in Rows :
           \/ db'[z] = db[z]
           \/ /\ db'[z].st # "absent" /\ (db[z].st = "absent" \/ IsRow(db[z]))
              /\ IsRow(db[z]) /\ IsRow(db'[z]) =>
                   /\ z \in Accounts => db'[z].owner = db[z].owner
                   /\ z \in Shares => db'[z].level # "owner"
  PROVE  Owns(r)'
<1> DEFINE q == req[r]  S == Said(q.todo)
<1>1. /\ Paired(NewRows(r), S) /\ Minds(r) /\ UpdatesKeep(r) /\ Removes(r) /\ Leaves(r)
      /\ DOMAIN q.writes \subseteq Rows /\ PlanFits(q.todo)
  BY DEF Owned, Owns, Consistent, Typed, IsReq
<1>2. \A s \in S : StatementFits(s)
  BY <1>1 DEF PlanFits, Said
<1>3. Paired(NewRows(r), S)'
  <2>1. NewRows(r)' = NewRows(r)
    BY DEF NewRows
  <2> QED BY <1>1, <2>1
<1>4. \A z \in Rows : db[z].st # "absent" => db'[z].st # "absent"
  OBVIOUS
<1>5. \A a \in Accounts : KnownOwner(r, a) => KnownOwner(r, a)'
  <2> SUFFICES ASSUME NEW a \in Accounts, KnownOwner(r, a)
               PROVE  KnownOwner(r, a)'
    OBVIOUS
  <2>1. a \in Rows
    BY DEF Rows
  <2> QED BY <1>4, <2>1 DEF KnownOwner
<1>6. \A x \in Shares : NotOwners(x) => NotOwners(x)'
  <2> SUFFICES ASSUME NEW x \in Shares, NotOwners(x)
               PROVE  NotOwners(x)'
    OBVIOUS
  <2>1. x \in Rows
    BY DEF Rows
  <2> QED BY <1>4, <2>1 DEF NotOwners
<1>7. Minds(r)'
  BY <1>1, <1>5, <1>6 DEF Minds
<1>8. UpdatesKeep(r)'
  BY <1>1 DEF UpdatesKeep
<1>9. Removes(r)'
  <2> SUFFICES ASSUME NEW s \in S
               PROVE  /\ s.do = "erase" => s.x \in Looks(S) \/ db'[s.x].st # "absent"
                      /\ s.do = "cascade" =>
                           \/ \E t \in S : t.do = "erase" /\ t.x = s.x
                           \/ db'[s.x].st # "absent" /\ ~ IsRow(Seen(r, s.x)')
    BY DEF Removes
  <2>1. s.do \in {"erase", "cascade"} => s.x \in Rows
    BY <1>2 DEF StatementFits
  <2>2. CASE s.do = "erase"
    BY <1>1, <1>4, <2>1, <2>2 DEF Removes
  <2>3. CASE s.do = "cascade"
    <3>1. CASE \E t \in S : t.do = "erase" /\ t.x = s.x
      BY <2>3, <3>1
    <3>2. CASE db[s.x].st # "absent" /\ ~ IsRow(Seen(r, s.x))
      <4>1. s.x \notin DOMAIN q.writes => db'[s.x] = db[s.x]
        BY <2>1, <2>3, <3>2 DEF Seen
      <4>2. Seen(r, s.x)' = Seen(r, s.x)
        BY <4>1 DEF Seen
      <4> QED BY <1>4, <2>1, <2>3, <3>2, <4>2
    <3> QED BY <1>1, <2>3, <3>1, <3>2 DEF Removes
  <2> QED BY <2>2, <2>3
<1>10. Leaves(r)'
  BY <1>1 DEF Leaves
<1> QED BY <1>3, <1>7, <1>8, <1>9, <1>10 DEF Owns

\* Steps that change nothing but what one request is.
LEMMA OthersOwn ==
  ASSUME Consistent, Owned, NEW r \in Reqs, \A q \in Reqs \ {r} : req'[q] = req[q],
         db' = db, committed' = committed, r \notin committed /\ Active(r)' => Owns(r)'
  PROVE  Owned'
<1> SUFFICES ASSUME NEW p \in Reqs \ committed, p # r, Active(p)
             PROVE  Owns(p)'
  <2>1. OwnersRecorded(db)'
    BY DEF Owned, OwnersRecorded
  <2> QED BY <2>1 DEF Owned, Active
<1> QED BY BystanderOwns

LEMMA ArriveOwns ==
  ASSUME Consistent, Traced, Owned, NEW r \in Reqs, Arrival(r)
  PROVE  Owned'
<1> PICK op, by, gate, x, want, new, plan : Arrives(r, op, by, gate, x, want, new, plan)
  BY DEF Arrival
<1> DEFINE q == req'[r]
<1>1. /\ \A p \in Reqs \ {r} : req'[p] = req[p]
      /\ db' = db /\ committed' = committed
  BY ArrivedIs
<1>2. /\ q.writes = Nothing
      /\ gate = "ok" => q.todo = plan /\ q.x = x /\ q.want = want /\ q.op = op
      /\ gate # "ok" => q.answer # "pending"
  BY ArrivedIs
<1> HIDE DEF q
<1>3. ASSUME Active(r)'
      PROVE  Owns(r)'
  <2>1. gate = "ok"
    BY <1>2, <1>3 DEF Active, q
  <2>2. /\ \A s \in Said(plan) : StatementOf(op, x, want, s)
        /\ \A s \in Said(plan) : s.do \in {"update", "erase"} => x \in Looks(Said(plan))
        /\ Owning(op, x, want, Said(plan)) /\ (op \in ShareOps => OwnerFirst(plan))
    BY DEF Arrives, Serves
  <2>3. Paired(NewRows(r), Said(req[r].todo))'
    <3>1. NewRows(r)' = NewIn(Said(plan))
      BY <1>2, <2>1, NothingWritten DEF NewRows, q
    <3> QED BY <1>2, <2>1, <2>2, <3>1 DEF Owning, q
  <2>4. Minds(r)'
    BY <1>2, <2>1, <2>2 DEF Minds, Owning, Minded, OwnerFirst, q
  <2>5. UpdatesKeep(r)'
    BY <1>2, <2>1, <2>2 DEF UpdatesKeep, Owning, q
  <2>6. Removes(r)'
    BY <1>2, <2>1, <2>2 DEF Removes, Owning, StatementOf, q
  <2>7. Leaves(r)'
    BY <1>2, NothingWritten DEF Leaves, q
  <2> QED BY <2>3, <2>4, <2>5, <2>6, <2>7 DEF Owns
<1> QED BY <1>1, <1>3, OthersOwn

LEMMA AnsweredOwns ==
  ASSUME Consistent, Owned, NEW r \in Reqs, Active(r), NEW a, a # "pending",
         Proceed(r, Answered(r, a))
  PROVE  Owned'
<1>1. /\ \A p \in Reqs \ {r} : req'[p] = req[p]
      /\ req'[r] = Answered(r, a)
      /\ db' = db /\ committed' = committed
  BY DEF Proceed, Consistent, Typed
<1>2. DOMAIN req[r] = DOMAIN NewReq
  BY DEF Consistent, Typed, IsReq
<1>3. req'[r].answer = a
  <2>1. CASE r \in committed
    BY <1>1, <1>2, <2>1 DEF Answered, NewReq
  <2>2. CASE r \notin committed
    BY <1>1, <2>2 DEF Answered, NewReq
  <2> QED BY <2>1, <2>2
<1>4. ~ Active(r)'
  BY <1>3 DEF Active
<1> QED BY <1>1, <1>4, OthersOwn

\* The database finds the acting user to own an account by its owner column or by
\* a share of level owner: they say the same.
LEMMA OwnerKnown ==
  ASSUME Consistent, Owned, NEW r \in Reqs, NEW a \in Accounts, OwnerOf(req[r].by, a) = "ok"
  PROVE  KnownOwner(r, a)
<1>1. CASE Exists(a) /\ db[a].owner = req[r].by
  BY <1>1 DEF Exists, KnownOwner
<1>2. CASE ~ (Exists(a) /\ db[a].owner = req[r].by)
  <2>1. PICK s \in ShareOf(req[r].by, a) : db[s].level = "owner"
    BY <1>2 DEF OwnerOf
  <2>2. s \in Shares /\ db[s].st = "live" /\ db[s].account = a /\ db[s].user = req[r].by
    BY <2>1 DEF ShareOf, Exists
  <2>3. db[a].owner = req[r].by
    BY <2>1, <2>2 DEF Owned, OwnersRecorded
  <2>4. IsRow(db[s]) /\ s \in Rows /\ RowFits(s, db[s])
    BY <2>2 DEF IsRow, Rows, Consistent, Typed
  <2>5. a \in Refs(s, db[s])
    BY <2>2, <2>4, ReferencesOf
  <2>6. IsRow(db[a])
    BY <2>4, <2>5 DEF Consistent, ReferencesHold
  <2> QED BY <2>3, <2>6 DEF KnownOwner, IsRow
<1> QED BY <1>1, <1>2

\* The share that its account's owner may change is somebody else's.
LEMMA ShareNotOwners ==
  ASSUME Consistent, Owned, NEW r \in Reqs, NEW x \in Shares, NEW a \in Accounts,
         KnownOwner(r, a), ShareFound(req[r].by, x, a) = "ok"
  PROVE  NotOwners(x)
<1>1. db[x].st = "live" /\ db[x].account = a
      /\ ~ (db[x].user = req[r].by /\ db[x].level = "owner")
  BY DEF ShareFound, Exists
<1>2. IsRow(db[x]) /\ x \in Rows /\ RowFits(x, db[x])
  BY <1>1 DEF IsRow, Rows, Consistent, Typed
<1>3. IsRow(db[a])
  <2>1. a \in Refs(x, db[x])
    BY <1>1, <1>2, ReferencesOf
  <2> QED BY <1>2, <2>1 DEF Consistent, ReferencesHold
<1>4. db[x].level = "owner" => db[a].owner = db[x].user
  BY <1>1 DEF Owned, OwnersRecorded
<1> QED BY <1>1, <1>3, <1>4 DEF KnownOwner, NotOwners

LEMMA ReadOwns ==
  ASSUME Consistent, Traced, Owned, NEW r \in Reqs, Read(r)
  PROVE  Owned'
<1> DEFINE s == Now(r)
           q == [req[r] EXCEPT !.todo = Tail(@),
                   !.read = IF s.do \in Loading THEN Over(@, Only(s.x, db[s.x])) ELSE @]
<1>1. Active(r) /\ s.do \in Checks /\ IsReq(req[r]) /\ req[r].todo # << >> /\ PlanFits(req[r].todo)
  BY DEF Consistent, Typed, IsReq, Active, Read, At
<1>2. StatementFits(s) /\ s = Head(req[r].todo)
  BY <1>1, RestFits DEF Now
<1>3. CASE Verdict(r, s) # "ok"
  BY <1>1, <1>2, <1>3, VerdictEnds, AnsweredOwns DEF Read
<1>4. CASE Verdict(r, s) = "ok"
  <2>1. /\ q.todo = Tail(req[r].todo) /\ q.writes = req[r].writes
        /\ q.x = req[r].x /\ q.want = req[r].want /\ q.op = req[r].op /\ q.by = req[r].by
    BY <1>1 DEF IsReq, NewReq
  <2>2. Proceed(r, q)
    BY <1>4 DEF Read
  <2>3. s.do \in Loading => db[s.x].st = "live"
    BY <1>2, <1>4, LoadedLive, SMTT(40)
  <2>4. s.do # "refuse"
    BY <1>2, <1>4 DEF Verdict, StatementFits
  <2>5. s.do = "owner" => OwnerOf(req[r].by, s.x) = "ok"
    BY <1>4 DEF Verdict
  <2>6. s.do = "share" => ShareFound(req[r].by, s.x, s.arg) = "ok"
    BY <1>4 DEF Verdict
  <2> DEFINE S == Said(req[r].todo)  T == Said(q.todo)
  <2> HIDE DEF q, s
  <2>7. /\ \A p \in Reqs \ {r} : req'[p] = req[p]
        /\ req'[r] = q
        /\ db' = db /\ committed' = committed
    BY <2>2 DEF Proceed, Consistent, Typed
  <2>8. S = {s} \cup T
    BY <1>1, <1>2, <2>1, RestOf
  <2>9. s.do \notin {"insert", "update", "erase", "cascade"}
    BY <1>1, ChecksApart
  <2>10. /\ Len(req[r].todo) \in Nat \ {0} /\ s = req[r].todo[1]
         /\ Len(q.todo) = Len(req[r].todo) - 1
         /\ \A i \in 1 .. Len(q.todo) : q.todo[i] = req[r].todo[i + 1]
    BY <1>1, <1>2, <2>1, RestFits
  <2> HIDE DEF S, T
  <2>11. ASSUME r \notin committed
         PROVE  Owns(r)'
    <3>1. Paired(NewRows(r), S) /\ Minds(r) /\ UpdatesKeep(r) /\ Removes(r) /\ Leaves(r)
      BY <1>1, <2>11 DEF Owned, Owns, S
    <3>2. /\ Said(req[r].todo)' = T /\ \A z : Seen(r, z)' = Seen(r, z)
          /\ \A a : KnownOwner(r, a)' = KnownOwner(r, a)
      BY <2>1, <2>7 DEF T, Seen, KnownOwner
    <3>3. Paired(NewRows(r), Said(req[r].todo))'
      <4>1. NewIn(T) = NewIn(S)
        BY <2>8, <2>9 DEF NewIn
      <4>2. NewRows(r)' = NewRows(r)
        BY <2>1, <2>7, <4>1 DEF NewRows, S, T
      <4>3. Refused(T) = Refused(S)
        BY <2>4, <2>8 DEF Refused
      <4>4. Paired(NewRows(r), T)
        BY <3>1, <4>3 DEF Paired
      <4> QED BY <3>2, <4>2, <4>4
    <3>4. Minds(r)'
      <4> SUFFICES ASSUME q.op \in ShareOps
                   PROVE  /\ q.x \in Shares /\ (Looked(q.x, T) \/ NotOwners(q.x))
                          /\ \A t \in T : t.do = "share" =>
                               t.arg \in Accounts /\ (OwnerAsked(t.arg, T) \/ KnownOwner(r, t.arg))
                          /\ Promoted(q.want) => Refused(T)
                          /\ \A i \in 2 .. Len(q.todo) : q.todo[i].do # "owner"
        BY <2>7, <3>2 DEF Minds, NotOwners
      <4>1. /\ q.x \in Shares /\ (Looked(q.x, S) \/ NotOwners(q.x))
            /\ \A t \in S : t.do = "share" =>
                 t.arg \in Accounts /\ (OwnerAsked(t.arg, S) \/ KnownOwner(r, t.arg))
            /\ Promoted(q.want) => Refused(S)
            /\ \A i \in 2 .. Len(req[r].todo) : req[r].todo[i].do # "owner"
        BY <2>1, <3>1 DEF Minds, S
      <4>2. \A t \in T : t.do # "owner"
        <5>1. \A i \in 1 .. Len(q.todo) : i + 1 \in 2 .. Len(req[r].todo)
          BY <2>10
        <5> QED BY <2>10, <4>1, <5>1 DEF Said, T
      <4>3. \A a \in Accounts : OwnerAsked(a, S) => KnownOwner(r, a)
        BY <2>5, <2>8, <4>2, OwnerKnown DEF OwnerAsked
      <4>4. Looked(q.x, S) => Looked(q.x, T) \/ NotOwners(q.x)
        <5> SUFFICES ASSUME s.do = "share", s.x = q.x
                     PROVE  NotOwners(q.x)
          BY <2>8 DEF Looked
        <5>1. s.arg \in Accounts /\ (OwnerAsked(s.arg, S) \/ KnownOwner(r, s.arg))
          BY <2>8, <4>1
        <5> QED BY <2>6, <4>1, <4>3, <5>1, ShareNotOwners
      <4>5. \A i \in 2 .. Len(q.todo) : q.todo[i].do # "owner"
        BY <2>10, <4>2 DEF Said, T
      <4>6. Refused(T) = Refused(S)
        BY <2>4, <2>8 DEF Refused
      <4> QED BY <2>8, <4>1, <4>3, <4>4, <4>5, <4>6
    <3>5. UpdatesKeep(r)'
      BY <2>1, <2>7, <2>8, <3>1 DEF UpdatesKeep, S, T
    <3>6. Removes(r)'
      <4>1. \A x \in Looks(S) : x \in Looks(T) \/ db[x].st = "live"
        BY <2>3, <2>8 DEF Looks
      <4>2. \A t \in T :
              /\ t.do = "erase" => t.x \in Looks(T) \/ db[t.x].st # "absent"
              /\ t.do = "cascade" => \/ \E u \in T : u.do = "erase" /\ u.x = t.x
                                     \/ db[t.x].st # "absent" /\ ~ IsRow(Seen(r, t.x))
        BY <2>8, <2>9, <3>1, <4>1 DEF Removes, S
      <4> QED BY <2>7, <3>2, <4>2 DEF Removes
    <3>7. Leaves(r)'
      BY <2>1, <2>7, <3>1 DEF Leaves
    <3> QED BY <3>3, <3>4, <3>5, <3>6, <3>7 DEF Owns
  <2> QED BY <2>7, <2>11, OthersOwn
<1> QED BY <1>3, <1>4

\* After a write, other writes follow only insertions and the removal of a row.
LEMMA WritesFollow ==
  ASSUME NEW p, PlanFits(p), p # << >>, Head(p).do \in Writes
  PROVE  \A t \in Said(Tail(p)) :
           \/ t.do \in Ending
           \/ t.do = "insert" /\ Head(p).do = "insert"
           \/ t.do = "cascade" /\ Head(p).do = "erase" /\ t.x = Head(p).x
<1> DEFINE q == Tail(p)
<1>1. /\ Head(p) = p[1] /\ Len(q) \in Nat
      /\ \A i \in 1 .. Len(q) : q[i] = p[i + 1] /\ Follows(p, 1, i + 1)
  BY RestFits
<1>2. Head(p).do \in {"insert", "update", "erase", "cascade"} \cup Ending
  BY DEF Writes, Ending
<1> HIDE DEF q
<1>3. \A i \in 1 .. Len(q) :
        \/ q[i].do \in Ending
        \/ q[i].do = "insert" /\ Head(p).do = "insert"
        \/ q[i].do = "cascade" /\ Head(p).do = "erase" /\ q[i].x = Head(p).x
  BY <1>1, <1>2 DEF Follows
<1> QED BY <1>3 DEF Said, q

\* What a statement leaves of accounts and shares.
LEMMA EffectLeaves ==
  ASSUME Consistent, Traced, Owned, NEW r \in Reqs \ committed, At(r, Writes),
         NEW x \in DOMAIN Effect(r, Now(r)), IsRow(db[x])
  PROVE  LET s == Now(r)  row == Effect(r, s)[x]  w == req[r].writes
             removed(y) == \/ y \in DOMAIN w /\ ~ IsRow(w[y])
                           \/ y \in DOMAIN Effect(r, s) /\ ~ IsRow(Effect(r, s)[y])
         IN /\ x \in Accounts /\ IsRow(row) => row.owner = db[x].owner
            /\ x \in Shares /\ IsRow(row) => row.level # "owner" /\ db[x].level # "owner"
            /\ x \in Shares /\ ~ IsRow(row) => removed(db[x].account) \/ removed(db[x].user)
<1> DEFINE s == Now(r)  E == Effect(r, s)  q == req[r]  w == q.writes  S == Said(q.todo)
           removed(y) == (y \in DOMAIN w /\ ~ IsRow(w[y])) \/ (y \in DOMAIN E /\ ~ IsRow(E[y]))
<1>1. Active(r) /\ IsReq(q) /\ q.todo # << >> /\ PlanFits(q.todo) /\ s.do \in Writes /\ Typed
  BY DEF Consistent, Typed, IsReq, Active, At
<1>2. s = Head(q.todo) /\ StatementFits(s) /\ S = {s} \cup Said(Tail(q.todo))
  BY <1>1, RestFits, RestOf DEF Now
<1>3. StatementOf(q.op, q.x, q.want, s)
  BY <1>1, <1>2 DEF Traced, Traces, RestServes
<1>4. Minds(r) /\ UpdatesKeep(r) /\ Removes(r)
  BY <1>1 DEF Owned, Owns
<1>5. x \in Rows /\ (s.do = "insert" => db[x].st = "absent") /\ RowFits(x, db[x])
  BY <1>1, EffectFits DEF RowsOf, Typed
<1>6. \A t \in S \ {s} : t.do \in Ending \/ (t.do = "cascade" /\ s.do = "erase")
                         \/ (t.do = "insert" /\ s.do = "insert")
  BY <1>1, <1>2, WritesFollow
<1>7. /\ s.do = "update" => DOMAIN E \subseteq {s.x} /\ (DOMAIN E # {} => E[s.x] = Updated(r, s))
      /\ s.do = "erase" => DOMAIN E \subseteq {s.x}
      /\ s.do = "audit" => DOMAIN E = {}
      /\ s.do = "cascade" => DOMAIN E = Dependents(s.x)
  BY EffectIs
<1>8. s.do = "cascade" => \A y \in DOMAIN E : E[y] = LeftBy(y)
  <2>1. s.do = "cascade" => E = [y \in Dependents(s.x) |-> LeftBy(y)]
    BY DEF Effect
  <2> HIDE DEF E
  <2> QED BY <2>1
<1> SUFFICES /\ x \in Accounts /\ IsRow(E[x]) => E[x].owner = db[x].owner
             /\ x \in Shares /\ IsRow(E[x]) => E[x].level # "owner" /\ db[x].level # "owner"
             /\ x \in Shares /\ ~ IsRow(E[x]) => removed(db[x].account) \/ removed(db[x].user)
  OBVIOUS
<1>9. x \in DOMAIN E
  OBVIOUS
<1> HIDE DEF s, E, S
<1>10. CASE s.do = "insert"
  BY <1>5, <1>10 DEF IsRow
<1>11. CASE s.do = "update"
  <2>1. s.x = x /\ E[x] = Updated(r, s) /\ x = q.x /\ s.arg = q.want
    BY <1>3, <1>7, <1>9, <1>11 DEF StatementOf
  <2>2. IsRow(E[x])
    BY <1>2, <1>5, <1>11, <2>1, UpdatedFits
  <2> DEFINE C == Changes(r, s)
  <2>3. DOMAIN C \subseteq DOMAIN s.arg /\ \A c \in DOMAIN C : C[c] = s.arg[c]
    BY DEF Changes
  <2>4. E[x] = Over(C, db[x])
    BY <2>1 DEF Updated
  <2>5. s \in S /\ DOMAIN s.arg \cap Holders = {} /\ (x \in Shares => q.op \in ShareOps)
    BY <1>2, <1>4, <1>11, <2>1 DEF UpdatesKeep, S
  <2> HIDE DEF C
  <2>6. IsRow(db[x]) /\ Columns(x) \subseteq DOMAIN db[x]
    BY <1>5, StatesApart DEF RowFits
  <2>7. \A c \in DOMAIN db[x] : E[x][c] = IF c \in DOMAIN C THEN s.arg[c] ELSE db[x][c]
    BY <2>3, <2>4 DEF Over
  <2>8. CASE x \in Accounts
    <3>1. "owner" \in DOMAIN db[x]
      BY <2>6, <2>8, KindsApart DEF Columns
    <3>2. "owner" \notin DOMAIN C
      BY <2>3, <2>5 DEF Holders
    <3> QED BY <2>7, <2>8, <3>1, <3>2, KindsApart
  <2>9. CASE x \in Shares
    <3>1. "level" \in DOMAIN db[x]
      BY <2>6, <2>9, KindsApart DEF Columns
    <3>2. ~ Looked(q.x, S)
      BY <1>2, <1>6, <1>11 DEF Looked, Ending
    <3>3. ~ Refused(S)
      BY <1>2, <1>6, <1>11 DEF Refused, Ending
    <3>4. NotOwners(x) /\ ~ Promoted(q.want)
      BY <1>4, <2>1, <2>5, <2>9, <3>2, <3>3 DEF Minds, S
    <3>5. db[x].level # "owner"
      BY <2>6, <3>4 DEF NotOwners
    <3>6. E[x].level # "owner"
      BY <2>1, <2>3, <2>7, <3>1, <3>4, <3>5 DEF Promoted
    <3> QED BY <2>2, <2>9, <3>5, <3>6, KindsApart
  <2> QED BY <2>8, <2>9
<1>12. CASE s.do = "erase"
  <2>1. x \in Users \cup Types \cup Institutions
    BY <1>2, <1>7, <1>9, <1>12 DEF StatementFits
  <2> QED BY <2>1, KindsApart
<1>13. CASE s.do = "cascade"
  <2>1. s.x \in Users \cup Types \cup Institutions /\ x \in Dependents(s.x)
    BY <1>2, <1>7, <1>9, <1>13 DEF StatementFits
  <2>2. CASE s.x \notin Users
    <3>1. x \in Cards
      BY <1>1, <2>1, <2>2, DependentsFit
    <3> QED BY <3>1, KindsApart
  <2>3. CASE s.x \in Users
    <3>1. E[x] = Gone /\ \A y \in DOMAIN E : E[y] = Gone
      BY <1>1, <1>7, <1>8, <1>9, <1>13, <2>1, <2>3, DependentsFit
    <3>2. ~ IsRow(Seen(r, s.x))
      <4>1. ~ \E t \in S : t.do = "erase" /\ t.x = s.x
        BY <1>2, <1>6, <1>13 DEF Ending
      <4> QED BY <1>2, <1>4, <1>13, <4>1 DEF Removes, S
    <3>3. \A y \in Rows : s.x \in Refs(y, db[y]) => removed(s.x)
      BY <3>2 DEF Seen, Consistent, ReferencesHold
    <3>4. CASE x \in Shares
      <4>1. /\ IsRow(db[x])
            /\ \/ db[x].user = s.x
               \/ db[x].account \in Dependents(s.x)
        BY <2>1, <2>3, <3>4, DependentsOfUser, KindsApart
      <4>2. CASE db[x].user = s.x
        <5>1. s.x \in Refs(x, db[x])
          BY <1>5, <3>4, <4>1, <4>2, ReferencesOf
        <5> QED BY <1>5, <3>1, <3>3, <3>4, <4>2, <5>1, StatesApart, KindsApart
      <4>3. CASE db[x].account \in Dependents(s.x)
        <5>1. removed(db[x].account)
          BY <1>7, <1>13, <3>1, <4>3, StatesApart
        <5> QED BY <3>1, <3>4, <5>1, StatesApart, KindsApart
      <4> QED BY <4>1, <4>2, <4>3
    <3> QED BY <3>1, <3>4, StatesApart
  <2> QED BY <2>2, <2>3
<1>14. CASE s.do = "audit"
  BY <1>7, <1>9, <1>14
<1> QED BY <1>1, <1>10, <1>11, <1>12, <1>13, <1>14 DEF Writes

LEMMA WriteOwns ==
  ASSUME Consistent, Traced, Owned, NEW r \in Reqs, Write(r)
  PROVE  Owned'
<1> DEFINE s == Now(r)  q == Wrote(r)  E == Effect(r, s)  w == req[r].writes
<1>1. Active(r) /\ At(r, Writes) /\ s.do \in Writes
      /\ IsReq(req[r]) /\ req[r].todo # << >> /\ PlanFits(req[r].todo)
  BY DEF Consistent, Typed, IsReq, Active, Write, At
<1>2. s = Head(req[r].todo) /\ StatementFits(s)
  BY <1>1, RestFits DEF Now
<1>3. CASE Violates(r, s)
  BY <1>1, <1>3, AnsweredOwns DEF Write
<1>4. CASE ~ Violates(r, s)
  <2>1. /\ q.todo = Tail(req[r].todo)
        /\ DOMAIN q.writes = DOMAIN E \cup DOMAIN w
        /\ \A z \in DOMAIN E : q.writes[z] = E[z]
        /\ \A z \in DOMAIN w : q.writes[z] = w[z]
    BY <1>1, WroteIs
  <2>2. q.x = req[r].x /\ q.want = req[r].want /\ q.op = req[r].op /\ q.by = req[r].by
    BY <1>1 DEF Wrote, IsReq, NewReq
  <2>3. Proceed(r, q)
    BY <1>4 DEF Write, Wrote
  <2>4. RowsOf(r, s)
    BY <1>1, EffectFits
  <2>5. s.do = "insert" => DOMAIN E = {s.x} /\ E[s.x] = s.arg
    BY EffectIs
  <2>6. s.do = "erase" => /\ DOMAIN E \subseteq {s.x}
                          /\ DOMAIN E # {} => E[s.x] = Gone
    BY EffectIs
  <2>7. s.do = "erase" /\ IsRow(db[s.x]) => DOMAIN E = {s.x}
    BY OnlyIs DEF Effect
  <2>8. r \notin committed => \A x \in DOMAIN E : IsRow(db[x]) =>
          LET removed(y) == \/ y \in DOMAIN w /\ ~ IsRow(w[y])
                            \/ y \in DOMAIN E /\ ~ IsRow(E[y])
          IN /\ x \in Accounts /\ IsRow(E[x]) => E[x].owner = db[x].owner
             /\ x \in Shares /\ IsRow(E[x]) => E[x].level # "owner" /\ db[x].level # "owner"
             /\ x \in Shares /\ ~ IsRow(E[x]) => removed(db[x].account) \/ removed(db[x].user)
    BY <1>1, EffectLeaves
  <2>9. /\ \A z \in DOMAIN E : s.do # "insert" => IsRow(db[z])
        /\ \A z \in DOMAIN E : s.do = "insert" => db[z].st = "absent"
        /\ DOMAIN E \cap DOMAIN w = {}
    BY <2>4 DEF RowsOf
  <2> DEFINE S == Said(req[r].todo)  T == Said(q.todo)
  <2> HIDE DEF q, s, E
  <2>10. /\ \A p \in Reqs \ {r} : req'[p] = req[p]
         /\ req'[r] = q
         /\ db' = db /\ committed' = committed
    BY <2>3 DEF Proceed, Consistent, Typed
  <2>11. S = {s} \cup T
    BY <1>1, <1>2, <2>1, RestOf
  <2>12. \A t \in T : \/ t.do \in Ending
                      \/ t.do = "insert" /\ s.do = "insert"
                      \/ t.do = "cascade" /\ s.do = "erase" /\ t.x = s.x
    BY <1>1, <1>2, <2>1, WritesFollow
  <2>13. /\ s.do \notin Loading \cup {"owner", "refuse"}
    BY <1>1 DEF Loading, Writes
  <2>14. s.do = "erase" => Looks(S) = {} /\ DOMAIN w = {}
    <3>1. s.do = "erase" => DOMAIN w = {}
      BY <1>1, <1>2, RestFits DEF IsReq, Unwritten
    <3> QED BY <1>1, <1>2, <3>1, WritesComeLast
  <2>15. /\ Len(req[r].todo) \in Nat \ {0} /\ Len(q.todo) = Len(req[r].todo) - 1
         /\ \A i \in 1 .. Len(q.todo) : q.todo[i] = req[r].todo[i + 1]
    BY <1>1, <2>1, RestFits
  <2>16. ASSUME r \notin committed
         PROVE  Owns(r)'
    <3>1. Paired(NewRows(r), S) /\ Minds(r) /\ UpdatesKeep(r) /\ Removes(r) /\ Leaves(r)
      BY <1>1, <2>16 DEF Owned, Owns
    <3>2. Said(req[r].todo)' = T /\ \A a : KnownOwner(r, a)' = KnownOwner(r, a)
      BY <2>2, <2>10 DEF KnownOwner
    <3> HIDE DEF S, T, w
    <3>3. Paired(NewRows(r), Said(req[r].todo))'
      <4> DEFINE W == {<<x, w[x]>> : x \in {y \in DOMAIN w : db[y].st = "absent"}}
                 V == {<<x, q.writes[x]>> : x \in {y \in DOMAIN q.writes : db[y].st = "absent"}}
      <4>1. NewRows(r) = NewIn(S) \cup W /\ NewRows(r)' = NewIn(T) \cup V
        BY <2>10 DEF NewRows, S, T, w
      <4>2. CASE s.do = "insert"
        <5>1. NewIn(S) = {<<s.x, s.arg>>} \cup NewIn(T)
          BY <2>11, <4>2 DEF NewIn
        <5>2. V = W \cup {<<s.x, s.arg>>}
          BY <2>1, <2>5, <2>9, <4>2
        <5> QED BY <4>1, <5>1, <5>2, <3>1, <3>2, <2>11, <2>13 DEF Paired, Refused
      <4>3. CASE s.do # "insert"
        <5>1. NewIn(S) = NewIn(T)
          BY <2>11, <4>3 DEF NewIn
        <5>2. V = W
          BY <2>1, <2>9, <4>3 DEF IsRow
        <5> QED BY <4>1, <5>1, <5>2, <3>1, <3>2, <2>11, <2>13 DEF Paired, Refused
      <4> QED BY <4>2, <4>3
    <3>4. Minds(r)'
      <4> SUFFICES ASSUME q.op \in ShareOps
                   PROVE  /\ q.x \in Shares /\ (Looked(q.x, T) \/ NotOwners(q.x))
                          /\ \A t \in T : t.do = "share" =>
                               t.arg \in Accounts /\ (OwnerAsked(t.arg, T) \/ KnownOwner(r, t.arg))
                          /\ Promoted(q.want) => Refused(T)
                          /\ \A i \in 2 .. Len(q.todo) : q.todo[i].do # "owner"
        BY <2>10, <3>2 DEF Minds, NotOwners
      <4>1. /\ q.x \in Shares /\ (Looked(q.x, S) \/ NotOwners(q.x))
            /\ Promoted(q.want) => Refused(S)
        BY <2>2, <3>1 DEF Minds, S
      <4>2. \A t \in T : t.do \notin {"owner", "share"}
        BY <2>12 DEF Ending
      <4>3. \A i \in 2 .. Len(q.todo) : q.todo[i].do # "owner"
        BY <2>15, <4>2 DEF Said, T
      <4>4. /\ Refused(S) => Refused(T)
            /\ Looked(q.x, S) => Looked(q.x, T)
        BY <2>11, <2>13 DEF Refused, Looked, Loading
      <4> QED BY <4>1, <4>2, <4>3, <4>4
    <3>5. UpdatesKeep(r)'
      BY <2>2, <2>10, <2>11, <3>1 DEF UpdatesKeep, S, T
    <3>6. Removes(r)'
      <4> SUFFICES ASSUME NEW t \in T, t.do \in {"erase", "cascade"}
                   PROVE  t.do = "cascade" /\ db[t.x].st # "absent" /\ ~ IsRow(Seen(r, t.x)')
        BY <2>10, <3>2 DEF Removes
      <4>1. t.do = "cascade" /\ s.do = "erase" /\ t.x = s.x
        BY <2>12 DEF Ending
      <4>2. db[s.x].st # "absent"
        BY <2>11, <2>14, <3>1, <4>1 DEF Removes, S
      <4>3. ~ IsRow(IF s.x \in DOMAIN q.writes THEN q.writes[s.x] ELSE db[s.x])
        <5>1. CASE IsRow(db[s.x])
          <6>1. s.x \in DOMAIN q.writes /\ q.writes[s.x] = Gone
            BY <2>1, <2>6, <2>7, <4>1, <5>1
          <6> QED BY <6>1, StatesApart
        <5>2. CASE ~ IsRow(db[s.x])
          <6>1. s.x \notin DOMAIN q.writes
            BY <2>1, <2>9, <2>14, <4>1, <5>2
          <6> QED BY <5>2, <6>1
        <5> QED BY <5>1, <5>2
      <4>4. \A z : Seen(r, z)' = IF z \in DOMAIN q.writes THEN q.writes[z] ELSE db[z]
        BY <2>10 DEF Seen
      <4> QED BY <4>1, <4>2, <4>3, <4>4
    <3>7. Leaves(r)'
      <4> DEFINE v == q.writes
                 removed(y) == y \in DOMAIN v /\ ~ IsRow(v[y])
      <4> SUFFICES ASSUME NEW x \in DOMAIN v, IsRow(db[x])
                   PROVE  /\ x \in Accounts /\ IsRow(v[x]) => v[x].owner = db[x].owner
                          /\ x \in Shares /\ IsRow(v[x]) => v[x].level # "owner" /\ db[x].level # "owner"
                          /\ x \in Shares /\ ~ IsRow(v[x]) => removed(db[x].account) \/ removed(db[x].user)
        BY <2>10 DEF Leaves
      <4>1. CASE x \in DOMAIN E
        BY <2>1, <2>8, <2>16, <4>1
      <4>2. CASE x \in DOMAIN w
        BY <2>1, <3>1, <4>2 DEF Leaves, w
      <4> QED BY <2>1, <4>1, <4>2
    <3> QED BY <3>3, <3>4, <3>5, <3>6, <3>7 DEF Owns
  <2> QED BY <2>10, <2>16, OthersOwn
<1> QED BY <1>3, <1>4

\* The tables after a commit record the owners.
LEMMA CommitRecords ==
  ASSUME Consistent, Traced, Owned, NEW r \in Reqs, CommitWrites(r)
  PROVE  OwnersRecorded(db)'
<1> DEFINE w == req[r].writes  N == NewRows(r)
<1>1. /\ Active(r) /\ Head(req[r].todo).do = "commit" /\ req[r].todo # << >> /\ PlanFits(req[r].todo)
      /\ Typed /\ ReferencesHold /\ OwnersRecorded(db) /\ WritesFit(r) /\ DOMAIN w \subseteq Rows
  BY DEF CommitWrites, At, Now, Active, Consistent, Typed, IsReq, Owned
<1>2. /\ \A x \in Rows \ DOMAIN w : db'[x] = db[x]
      /\ \A x \in DOMAIN w : db'[x] = w[x]
  BY <1>1, CommitIs DEF Seen
<1>3. Accounts \subseteq Rows /\ Shares \subseteq Rows /\ Users \subseteq Rows
  BY DEF Rows
<1>4. ReferencesHold' /\ \A x \in Rows : RowFits(x, db[x]) /\ RowFits(x, db'[x])
  BY CommitKeeps DEF Consistent, Typed
<1>5. \A s \in Said(req[r].todo) : s.do \in Ending
  BY <1>1, WritesComeLast DEF Ending
<1>6. r \notin committed => Paired(N, Said(req[r].todo)) /\ Leaves(r)
  BY <1>1 DEF Owned, Owns
<1>7. \A n \in N : n[1] \in DOMAIN w /\ db[n[1]].st = "absent" /\ n[2] = w[n[1]]
  <2>1. NewIn(Said(req[r].todo)) = {}
    BY <1>5 DEF NewIn, Ending
  <2> QED BY <2>1 DEF NewRows
<1>8. ~ Refused(Said(req[r].todo))
  BY <1>5 DEF Refused, Ending
<1>9. \A x \in DOMAIN w : <<x, w[x]>> \in N \/ IsRow(db[x])
  BY <1>1 DEF WritesFit, RowWritten, NewRows
<1>10. r \in committed => DOMAIN w = {}
  BY <1>1 DEF Traced, Traces, EndsAudited
<1> HIDE DEF w, N
<1>11. \A a \in Accounts : IsRow(db[a]) /\ IsRow(db'[a]) => db'[a].owner = db[a].owner
  <2> SUFFICES ASSUME NEW a \in Accounts, IsRow(db[a]), IsRow(db'[a]), a \in DOMAIN w
               PROVE  w[a].owner = db[a].owner
    BY <1>2, <1>3
  <2> QED BY <1>2, <1>6, <1>10 DEF Leaves, w
<1>12. ASSUME NEW a \in Accounts, IsRow(db'[a])
       PROVE  \E s \in Shares : db'[s].st = "live" /\ db'[s].level = "owner" /\ db'[s].account = a
  <2>1. CASE a \in DOMAIN w /\ <<a, w[a]>> \in N
    <3>1. PICK m \in N : m[1] \in Shares /\ m[2].st = "live" /\ m[2].level = "owner" /\ m[2].account = a
      BY <1>6, <1>10, <2>1 DEF Paired
    <3> QED BY <1>2, <1>7, <3>1
  <2>2. CASE IsRow(db[a])
    <3>1. PICK s \in Shares : db[s].st = "live" /\ db[s].level = "owner" /\ db[s].account = a
      BY <1>1, <2>2 DEF OwnersRecorded
    <3>2. IsRow(db[s]) /\ db[a].owner = db[s].user
      BY <1>1, <3>1 DEF OwnersRecorded, IsRow
    <3>3. CASE s \notin DOMAIN w
      BY <1>2, <1>3, <3>1, <3>3
    <3>4. CASE s \in DOMAIN w
      <4> DEFINE removed(y) == y \in DOMAIN w /\ ~ IsRow(w[y])
      <4>1. removed(a) \/ removed(db[s].user)
        <5>1. /\ IsRow(w[s]) => db[s].level # "owner"
              /\ ~ IsRow(w[s]) => removed(db[s].account) \/ removed(db[s].user)
          BY <1>6, <1>10, <3>2, <3>4 DEF Leaves, w
        <5> QED BY <3>1, <5>1
      <4>2. ~ removed(a)
        BY <1>2, <1>12
      <4>3. db'[a].owner = db[s].user
        BY <1>11, <1>12, <2>2, <3>2
      <4>4. db'[a].owner \in Refs(a, db'[a])
        BY <1>3, <1>4, <1>12, ReferencesOf
      <4>5. IsRow(db'[db[s].user])
        BY <1>3, <1>4, <4>3, <4>4 DEF ReferencesHold
      <4> QED BY <1>2, <4>1, <4>2, <4>5
    <3> QED BY <3>3, <3>4
  <2> QED BY <1>2, <1>3, <1>9, <1>12, <2>1, <2>2
<1>13. ASSUME NEW s \in Shares, db'[s].st = "live", db'[s].level = "owner"
       PROVE  db'[db'[s].account].owner = db'[s].user
  <2>1. IsRow(db'[s])
    BY <1>13 DEF IsRow
  <2>2. CASE s \notin DOMAIN w
    <3>1. db'[s] = db[s]
      BY <1>2, <1>3, <2>2
    <3>2. db[s].account \in Accounts /\ db[s].account \in Refs(s, db[s])
      BY <1>3, <1>4, <2>1, <3>1, ReferencesOf
    <3>3. IsRow(db[db[s].account]) /\ IsRow(db'[db[s].account])
      BY <1>1, <1>3, <1>4, <3>1, <3>2 DEF ReferencesHold
    <3>4. db[db[s].account].owner = db[s].user
      BY <1>1, <1>13, <3>1 DEF OwnersRecorded
    <3> QED BY <1>11, <3>1, <3>2, <3>3, <3>4
  <2>3. CASE s \in DOMAIN w /\ IsRow(db[s])
    BY <1>2, <1>6, <1>10, <1>13, <2>1, <2>3 DEF Leaves, w
  <2>4. CASE s \in DOMAIN w /\ <<s, w[s]>> \in N
    <3>1. PICK m \in N : m[1] \in Accounts /\ m[1] = w[s].account /\ m[2].owner = w[s].user
      BY <1>2, <1>6, <1>8, <1>10, <1>13, <2>4 DEF Paired
    <3> QED BY <1>2, <1>7, <2>4, <3>1
  <2> QED BY <1>9, <2>2, <2>3, <2>4
<1> QED BY <1>12, <1>13 DEF OwnersRecorded

LEMMA CommitOwns ==
  ASSUME Consistent, Traced, Owned, NEW r \in Reqs, CommitWrites(r)
  PROVE  Owned'
<1> DEFINE w == req[r].writes
<1>1. /\ committed' = committed \cup {r} /\ Active(r)
      /\ \A p \in Reqs \ {r} : req'[p] = req[p]
      /\ \A z \in Rows \ DOMAIN w : db'[z] = db[z]
      /\ \A z \in Rows : db'[z] = Seen(r, z)
  BY CommitIs DEF CommitWrites
<1>2. /\ r \in committed => DOMAIN w = {}
      /\ r \notin committed => Leaves(r)
      /\ WritesFit(r) /\ WritesAsked(r)
  BY <1>1 DEF Traced, Traces, EndsAudited, Owned, Owns, Consistent
<1>3. ASSUME NEW z \in Rows, z \in DOMAIN w
      PROVE  /\ db'[z].st # "absent" /\ (db[z].st = "absent" \/ IsRow(db[z]))
             /\ IsRow(db[z]) /\ IsRow(db'[z]) =>
                  /\ z \in Accounts => db'[z].owner = db[z].owner
                  /\ z \in Shares => db'[z].level # "owner"
  <2>1. db'[z] = w[z]
    BY <1>1, <1>3 DEF Seen
  <2>2. RowFits(z, w[z]) /\ ((db[z].st = "absent" /\ IsRow(w[z])) \/ IsRow(db[z]))
    BY <1>2, <1>3 DEF WritesFit, RowWritten
  <2>3. w[z].st # "absent"
    <3>1. CASE IsRow(db[z])
      <4>1. Asked(req[r], z) \/ Cascaded(req[r], z)
        BY <1>2, <1>3, <3>1 DEF WritesAsked
      <4>2. \/ w[z] = Gone
            \/ IsRow(w[z])
            \/ w[z] = [db[z] EXCEPT !.inst = None]
        BY <4>1 DEF Asked, Cascaded
      <4> HIDE DEF w
      <4>3. w[z] = [db[z] EXCEPT !.inst = None] => w[z].st = db[z].st
        <5>1. RowFits(z, db[z])
          BY DEF Consistent, Typed
        <5>2. "st" \in DOMAIN db[z]
          BY <3>1, <5>1, ReferencesOf
        <5> QED BY <5>2
      <4> QED BY <3>1, <4>2, <4>3, StatesApart DEF IsRow
    <3>2. CASE ~ IsRow(db[z])
      BY <2>2, <3>2 DEF IsRow
    <3> QED BY <3>1, <3>2
  <2>4. IsRow(db[z]) /\ IsRow(w[z]) =>
          /\ z \in Accounts => w[z].owner = db[z].owner
          /\ z \in Shares => w[z].level # "owner"
    BY <1>2, <1>3 DEF Leaves
  <2> QED BY <2>1, <2>2, <2>3, <2>4
<1>4. ASSUME NEW p \in Reqs \ committed, p # r, Active(p)
      PROVE  Owns(p)'
  <2>1. \A z \in DOMAIN req[p].writes : z \in Rows \ DOMAIN w
    BY <1>4 DEF Consistent, Typed, IsReq, Apart, WritesApart
  <2> HIDE DEF w
  <2>2. \A z \in DOMAIN req[p].writes : db'[z] = db[z]
    BY <1>1, <2>1
  <2> QED BY <1>1, <1>3, <1>4, <2>2, BystanderOwns
<1> QED BY <1>1, <1>4, CommitRecords DEF Owned, Active

LEMMA NextOwns ==
  ASSUME Consistent, Traced, Owned, [Next]_vars
  PROVE  Owned'
<1>1. ASSUME NEW r \in Reqs, Begin(r)
      PROVE  Owned'
  BY <1>1, BeginArrives, ArriveOwns
<1>2. ASSUME NEW r \in Reqs, Step(r)
      PROVE  Owned'
  BY <1>2, ReadOwns, WriteOwns, CommitOwns DEF Step
<1>3. ASSUME NEW r \in Reqs, Fail(r) \/ BreakDeadlock(r)
      PROVE  Owned'
  <2>1. Active(r)
    BY <1>3 DEF Fail, BreakDeadlock, InCycle, Granted, Blocks, At
  <2> QED BY <1>3, <2>1, AnsweredOwns DEF Fail, BreakDeadlock
<1>4. CASE UNCHANGED vars
  <2>1. db' = db /\ req' = req /\ committed' = committed
    BY <1>4 DEF vars
  <2>2. OwnersRecorded(db)'
    BY <2>1 DEF Owned, OwnersRecorded
  <2> SUFFICES ASSUME NEW p \in Reqs \ committed, Active(p)
               PROVE  Owns(p)'
    BY <2>1, <2>2 DEF Owned, Active
  <2> QED BY <2>1, BystanderOwns
<1> QED BY <1>1, <1>2, <1>3, <1>4 DEF Next

\* A user has one live share of an account at most, and those of level owner are
\* the owners' own: what module Access makes of the table says so too.
LEMMA RecordedIsOne ==
  ASSUME Consistent, OwnersRecorded(db)
  PROVE  OneOwner
<1> DEFINE held(a, u) == {s \in Shares : db[s].st = "live" /\ db[s].account = a /\ db[s].user = u}
           level(a, u) == IF held(a, u) = {} THEN "none" ELSE db[CHOOSE s \in held(a, u) : TRUE].level
           known(a) == IF IsRow(db[a]) THEN [st |-> db[a].st, owner |-> db[a].owner]
                       ELSE [st |-> "absent", owner |-> None]
<1> SUFFICES ASSUME NEW a \in Accounts, NEW u \in Users
             PROVE  level(a, u) = "owner" <=> known(a).st # "absent" /\ known(a).owner = u
  BY DEF OneOwner, Access!OneOwner
<1>1. known(a).st # "absent" /\ known(a).owner = u <=> IsRow(db[a]) /\ db[a].owner = u
  BY DEF IsRow
<1>2. \A s \in held(a, u) : /\ s \in Shares /\ s \in Rows /\ IsRow(db[s])
                            /\ db[s].st = "live" /\ db[s].account = a /\ db[s].user = u
  BY DEF IsRow, Rows
<1>3. \A s, t \in held(a, u) : s = t
  <2> SUFFICES ASSUME NEW s \in held(a, u), NEW t \in held(a, u), s # t
               PROVE  FALSE
    OBVIOUS
  <2>1. <<"share", a, u>> \in Keys(s, db[s]) /\ <<"share", a, u>> \in Keys(t, db[t])
    BY <1>2, KindsApart DEF Keys, ShareKeys
  <2>2. Keys(s, db[s]) \cap Keys(t, db[t]) = {}
    BY <1>2 DEF Consistent, KeysUnique
  <2> QED BY <2>1, <2>2
<1>4. level(a, u) = "owner" <=> \E s \in held(a, u) : db[s].level = "owner"
  BY <1>3
<1>5. ASSUME NEW s \in held(a, u), db[s].level = "owner"
      PROVE  IsRow(db[a]) /\ db[a].owner = u
  <2>1. db[a].owner = u
    BY <1>2, <1>5 DEF OwnersRecorded
  <2>2. RowFits(s, db[s]) /\ s \in Rows
    BY <1>2 DEF Consistent, Typed
  <2>3. a \in Refs(s, db[s])
    BY <1>2, <2>2, ReferencesOf
  <2> QED BY <2>1, <2>2, <2>3 DEF Consistent, ReferencesHold
<1>6. ASSUME IsRow(db[a]), db[a].owner = u
      PROVE  \E s \in held(a, u) : db[s].level = "owner"
  BY <1>6 DEF OwnersRecorded
<1> HIDE DEF held, level, known
<1> QED BY <1>1, <1>4, <1>5, <1>6

\* Somebody's share of an account is changed only once its account's owner has
\* been found to ask for it, and what is found is old by the time the share is
\* written: between the two, nobody makes it the owner's, an account never
\* changes hands, and an owner's share goes only along with the account or with
\* the user.  So a live share of level owner is never demoted, revoked or doubled,
\* and no account is left that nobody may administer.
THEOREM OneOwnerUnderOverlap == Spec => []OneOwner
<1>1. Init => Owned
  <2> SUFFICES ASSUME Init
               PROVE  Owned
    OBVIOUS
  <2>1. \A r \in Reqs : ~ Active(r)
    BY DEF Init, NewReq, Active
  <2>2. OwnersRecorded(db)
    BY OwnersAssumption DEF Init
  <2> QED BY <2>1, <2>2 DEF Owned
<1>2. Consistent /\ Traced /\ Owned /\ [Next]_vars => Owned'
  BY NextOwns
<1>3. Consistent /\ Owned => OneOwner
  BY RecordedIsOne DEF Owned
<1> QED BY <1>1, <1>2, <1>3, AlwaysTraced, PTL DEF Spec

-----------------------------------------------------------------------------
(* Requests on accounts and shares that meet no other.  The inductive       *)
(* invariant is Grounded, on top of Consistent, Traced, Wished and Owned.   *)

Sharing == {"create_account", "delete_account", "share_account", "update_share", "revoke_share"}

\* Checks whose verdict depends on the tables and the acting user alone.
Plain == {"find", "free", "refuse", "mine", "owner", "other", "share"}

\* T is what the handler of an operation checks, N what it inserts.
Refusing(level) == IF level = "owner" THEN {Refuse("422")} ELSE {}

Creates(by, x, want, T, N) ==
  /\ x \in Accounts /\ want.st = "live" /\ want.owner = by /\ T = {}
  /\ \E s \in Shares : N = {<<x, want>>, <<s, NewShare(x, by, "owner")>>}

Deletes(x, want, T, N) ==
  /\ x \in Accounts /\ want = [st |-> "deleted"]
  /\ T = {Statement("mine", x, None)} /\ N = {}

SharesWith(x, want, T, N) ==
  \E a \in Accounts, v \in Users, level \in ShareLevels :
    /\ x \in Shares /\ want = NewShare(a, v, level) /\ N = {<<x, want>>}
    /\ T = {Find(a, "404"), Statement("owner", a, None), Statement("other", v, None),
            Free(<<"share", a, v>>)} \cup Refusing(level)

Relevels(x, want, T, N) ==
  \E a \in Accounts, level \in ShareLevels :
    /\ x \in Shares /\ want = [level |-> level] /\ N = {}
    /\ T = {Statement("owner", a, None), Statement("share", x, a)} \cup Refusing(level)

Revokes(x, want, T, N) ==
  \E a \in Accounts :
    /\ x \in Shares /\ want = [st |-> "deleted"] /\ N = {}
    /\ T = {Statement("owner", a, None), Statement("share", x, a)}

Grounds(op, by, x, want, T, N) ==
  \/ op = "create_account" /\ Creates(by, x, want, T, N)
  \/ op = "delete_account" /\ Deletes(x, want, T, N)
  \/ op = "share_account" /\ SharesWith(x, want, T, N)
  \/ op = "update_share" /\ Relevels(x, want, T, N)
  \/ op = "revoke_share" /\ Revokes(x, want, T, N)

\* What has been checked still holds, for nobody has changed the tables since.
GroundedBy(r, T, N) ==
  LET q == req[r] IN
  /\ Grounds(q.op, q.by, q.x, q.want, T, N)
  /\ NewRows(r) = N
  /\ \A s \in T : s \in Said(q.todo) \/ Verdict(r, s) = "ok"

Isolated(r) == Active(r) /\ met[r] = {} /\ req[r].op \in Sharing

Grounded == \A r \in Reqs \ committed : Isolated(r) => \E T, N : GroundedBy(r, T, N)

LEMMA ListsAre ==
  /\ IsSeq(<< >>)
  /\ \A s : IsSeq(<<s>>)
  /\ \A s, t : IsSeq(<<s, t>>)
  /\ \A s, t, u : IsSeq(<<s, t, u>>)
  /\ \A s, t, u, v, w : IsSeq(<<s, t, u, v, w>>) /\ Said(<<s, t, u, v, w>>) = {s, t, u, v, w}
<1>1. IsSeq(<< >>)
  BY DEF IsSeq
<1>2. ASSUME NEW s
      PROVE  IsSeq(<<s>>)
  <2>1. <<s>> \in Seq({s})
    OBVIOUS
  <2> QED BY <2>1, SeqIs
<1>3. ASSUME NEW s, NEW t
      PROVE  IsSeq(<<s, t>>)
  <2>1. <<s, t>> \in Seq({s, t})
    OBVIOUS
  <2> QED BY <2>1, SeqIs
<1>4. ASSUME NEW s, NEW t, NEW u
      PROVE  IsSeq(<<s, t, u>>)
  <2>1. <<s, t, u>> \in Seq({s, t, u})
    OBVIOUS
  <2> QED BY <2>1, SeqIs
<1>5. ASSUME NEW s, NEW t, NEW u, NEW v, NEW w
      PROVE  IsSeq(<<s, t, u, v, w>>) /\ Said(<<s, t, u, v, w>>) = {s, t, u, v, w}
  <2> DEFINE p == <<s, t, u, v, w>>
  <2>1. /\ p \in Seq({s, t, u, v, w}) /\ Len(p) = 5
        /\ p[1] = s /\ p[2] = t /\ p[3] = u /\ p[4] = v /\ p[5] = w
    OBVIOUS
  <2> HIDE DEF p
  <2>2. Said(p) = {p[1], p[2], p[3], p[4], p[5]}
    BY <2>1 DEF Said
  <2>3. IsSeq(p)
    BY <2>1, SeqIs
  <2> QED BY <2>1, <2>2, <2>3 DEF p
<1> QED BY <1>1, <1>2, <1>3, <1>4, <1>5

LEMMA EndsSay ==
  /\ IsSeq(AuditAndCommit) /\ Said(AuditAndCommit) = {Audit, Commit}
  /\ IsSeq(CommitThenAudit) /\ Said(CommitThenAudit) = {Audit, Commit}
BY EndingsFit, SaidLiterals DEF AuditAndCommit, CommitThenAudit, EndingFits

\* What is inserted is an insertion among the statements.
LEMMA NewInMore ==
  /\ \A S, T : NewIn(S \cup T) = NewIn(S) \cup NewIn(T)
  /\ \A S : (\A s \in S : s.do # "insert") => NewIn(S) = {}
  /\ \A x, row : NewIn({Insert(x, row)}) = {<<x, row>>}
<1>1. \A S, T : NewIn(S \cup T) = NewIn(S) \cup NewIn(T)
  BY DEF NewIn
<1>2. \A S : (\A s \in S : s.do # "insert") => NewIn(S) = {}
  BY DEF NewIn
<1>3. ASSUME NEW x, NEW row
      PROVE  NewIn({Insert(x, row)}) = {<<x, row>>}
  <2> DEFINE s == Insert(x, row)
  <2>1. s.do = "insert" /\ s.x = x /\ s.arg = row
    BY DEF Insert, Statement
  <2> HIDE DEF s
  <2>2. NewIn({s}) = {<<x, row>>}
    BY <2>1 DEF NewIn
  <2> QED BY <2>2 DEF s
<1> QED BY <1>1, <1>2, <1>3

LEMMA CreateGrounds ==
  ASSUME NEW u \in Users, NEW x \in Accounts, NEW s \in Shares, NEW a \in NewAccounts
  PROVE  Creates(u, x, NewAccount(u, a), {}, NewIn(Said(CreateAccountPlan(u, x, s, a))))
<1> DEFINE v == Insert(x, NewAccount(u, a))  w == Insert(s, NewShare(x, u, "owner"))
           c1 == Statement("free name", None, a.name)
           c2 == Find(a.type, "404")  c3 == Find(a.inst, "422")
           C == {c1, c2, c3, Audit, Commit}
<1>1. NewIn({v}) = {<<x, NewAccount(u, a)>>} /\ NewIn({w}) = {<<s, NewShare(x, u, "owner")>>}
  BY NewInMore
<1>2. /\ c1.do = "free name" /\ c2.do = "find" /\ c3.do = "find"
      /\ Audit.do = "audit" /\ Commit.do = "commit"
  BY DEF Find, Statement, Audit, Commit
<1>3. NewAccount(u, a).st = "live" /\ NewAccount(u, a).owner = u
  BY DEF NewAccount
<1>4. CreateAccountPlan(u, x, s, a) = <<c1, c2, c3, v, w>> \o CommitThenAudit
  BY DEF CreateAccountPlan
<1> HIDE DEF v, w, c1, c2, c3
<1> DEFINE p == <<c1, c2, c3, v, w>>
<1>5. IsSeq(p) /\ Said(p) = {c1, c2, c3, v, w}
  BY ListsAre
<1> HIDE DEF p
<1>6. Said(p \o CommitThenAudit) = C \cup {v} \cup {w}
  BY <1>5, EndsSay, SaidMore
<1>7. NewIn(C) = {}
  BY <1>2, NewInMore
<1> HIDE DEF C
<1>8. NewIn(C \cup {v} \cup {w}) = {<<x, NewAccount(u, a)>>, <<s, NewShare(x, u, "owner")>>}
  <2> DEFINE D == C \cup {v}
  <2>1. NewIn(D) = NewIn(C) \cup NewIn({v})
    BY NewInMore
  <2> HIDE DEF D
  <2>2. NewIn(D \cup {w}) = NewIn(D) \cup NewIn({w})
    BY NewInMore
  <2> QED BY <1>1, <1>7, <2>1, <2>2 DEF D
<1> QED BY <1>3, <1>4, <1>6, <1>8 DEF Creates, p

LEMMA DeleteGrounds ==
  ASSUME NEW x \in Accounts
  PROVE  LET S == Said(DeleteAccountPlan(x))  T == {Statement("mine", x, None)}
         IN Deletes(x, [st |-> "deleted"], T, NewIn(S)) /\ T \subseteq S
<1> DEFINE c == Statement("mine", x, None)  w == SoftDelete(x)  S == {c, w} \cup {Audit, Commit}
<1>1. \A s \in S : s.do # "insert"
  BY DEF SoftDelete, Update, Statement, Audit, Commit
<1>2. DeleteAccountPlan(x) = <<c, w>> \o AuditAndCommit
  BY DEF DeleteAccountPlan
<1> HIDE DEF c, w
<1>3. Said(<<c, w>> \o AuditAndCommit) = S
  <2> DEFINE p == <<c, w>>
  <2>1. IsSeq(p) /\ Said(p) = {c, w}
    BY ListsAre, SaidLiterals
  <2> HIDE DEF p
  <2>2. Said(p \o AuditAndCommit) = S
    BY <2>1, EndsSay, SaidMore
  <2> QED BY <2>2 DEF p
<1>4. NewIn(S) = {} /\ {c} \subseteq S
  BY <1>1, NewInMore
<1> QED BY <1>2, <1>3, <1>4 DEF Deletes, c

LEMMA ShareGrounds ==
  ASSUME NEW x \in Shares, NEW a \in Accounts, NEW v \in Users, NEW level \in ShareLevels
  PROVE  LET S == Said(ShareAccountPlan(x, a, v, level))
         IN \E T : SharesWith(x, NewShare(a, v, level), T, NewIn(S)) /\ T \subseteq S
<1> DEFINE row == NewShare(a, v, level)  w == Insert(x, row)
           c1 == Find(a, "404")  c2 == Statement("owner", a, None)
           c3 == Statement("other", v, None)
           c4 == IF level = "owner" THEN <<Refuse("422")>> ELSE << >>
           c5 == Free(<<"share", a, v>>)
           T == {c1, c2, c3, c5} \cup Refusing(level)  C == T \cup {Audit, Commit}
<1>1. NewIn({w}) = {<<x, row>>}
  BY NewInMore
<1>2. \A c \in C : c.do # "insert"
  BY DEF Find, Free, Refuse, Refusing, Statement, Audit, Commit
<1>3. ShareAccountPlan(x, a, v, level) = <<c1, c2, c3>> \o c4 \o <<c5, w>> \o CommitThenAudit
  BY DEF ShareAccountPlan
<1>4. IsSeq(c4) /\ Said(c4) = Refusing(level)
  BY ListsAre, SaidLiterals DEF Refusing
<1>5. SharesWith(x, row, T, {<<x, row>>})
  BY DEF SharesWith
<1> HIDE DEF w, c1, c2, c3, c4, c5, row
<1> DEFINE p1 == <<c1, c2, c3>>  p2 == p1 \o c4  p3 == p2 \o <<c5, w>>
<1>6. IsSeq(p1) /\ Said(p1) = {c1, c2, c3}
  BY ListsAre, SaidLiterals
<1> HIDE DEF p1
<1>7. IsSeq(p2) /\ Said(p2) = {c1, c2, c3} \cup Refusing(level)
  BY <1>4, <1>6, ConcatIs, SaidMore
<1> HIDE DEF p2
<1>8. IsSeq(p3) /\ Said(p3) = {c1, c2, c3} \cup Refusing(level) \cup {c5, w}
  <2> DEFINE p == <<c5, w>>
  <2>1. IsSeq(p) /\ Said(p) = {c5, w}
    BY ListsAre, SaidLiterals
  <2> HIDE DEF p
  <2>2. IsSeq(p2 \o p) /\ Said(p2 \o p) = Said(p2) \cup Said(p)
    BY <1>7, <2>1, ConcatIs, SaidMore
  <2> QED BY <1>7, <2>1, <2>2 DEF p
<1> HIDE DEF p3
<1>9. Said(p3 \o CommitThenAudit) = C \cup {w}
  BY <1>8, EndsSay, SaidMore
<1> HIDE DEF C
<1>10. NewIn(C \cup {w}) = {<<x, row>>}
  <2>1. NewIn(C) = {} /\ NewIn(C \cup {w}) = NewIn(C) \cup NewIn({w})
    BY <1>2, NewInMore
  <2> QED BY <1>1, <2>1
<1>11. SharesWith(x, row, T, NewIn(Said(p3 \o CommitThenAudit))) /\ T \subseteq Said(p3 \o CommitThenAudit)
  BY <1>5, <1>9, <1>10 DEF C
<1>12. ShareAccountPlan(x, a, v, level) = p3 \o CommitThenAudit
  BY <1>3 DEF p1, p2, p3
<1> QED BY <1>11, <1>12 DEF row

LEMMA RelevelGrounds ==
  ASSUME NEW x \in Shares, NEW a \in Accounts, NEW level \in ShareLevels
  PROVE  LET S == Said(UpdateSharePlan(x, a, level))
         IN \E T : Relevels(x, [level |-> level], T, NewIn(S)) /\ T \subseteq S
<1> DEFINE want == [level |-> level]  w == Update(x, want)
           c1 == Statement("owner", a, None)  c2 == Statement("share", x, a)
           c3 == IF level = "owner" THEN <<Refuse("422")>> ELSE << >>
           T == {c1, c2} \cup Refusing(level)  S == T \cup {w, Audit, Commit}
<1>1. \A s \in S : s.do # "insert"
  BY DEF Refuse, Refusing, Update, Statement, Audit, Commit
<1>2. UpdateSharePlan(x, a, level) = <<c1, c2>> \o c3 \o <<w>> \o AuditAndCommit
  BY DEF UpdateSharePlan
<1>3. IsSeq(c3) /\ Said(c3) = Refusing(level)
  BY ListsAre, SaidLiterals DEF Refusing
<1>4. Relevels(x, want, T, {})
  BY DEF Relevels
<1> HIDE DEF w, c1, c2, c3, want
<1> DEFINE p1 == <<c1, c2>>  p2 == p1 \o c3  p3 == p2 \o <<w>>
<1>5. IsSeq(p1) /\ Said(p1) = {c1, c2}
  BY ListsAre, SaidLiterals
<1> HIDE DEF p1
<1>6. IsSeq(p2) /\ Said(p2) = T
  BY <1>3, <1>5, ConcatIs, SaidMore
<1> HIDE DEF p2
<1>7. IsSeq(p3) /\ Said(p3) = T \cup {w}
  BY <1>6, ListsAre, SaidLiterals, ConcatIs, SaidMore
<1> HIDE DEF p3
<1>8. Said(p3 \o AuditAndCommit) = S
  BY <1>7, EndsSay, SaidMore
<1>9. NewIn(S) = {} /\ T \subseteq S
  BY <1>1, NewInMore
<1> HIDE DEF S
<1>10. Relevels(x, want, T, NewIn(Said(p3 \o AuditAndCommit))) /\ T \subseteq Said(p3 \o AuditAndCommit)
  BY <1>4, <1>8, <1>9
<1>11. UpdateSharePlan(x, a, level) = p3 \o AuditAndCommit
  BY <1>2 DEF p1, p2, p3
<1> QED BY <1>10, <1>11 DEF want

LEMMA RevokeGrounds ==
  ASSUME NEW x \in Shares, NEW a \in Accounts
  PROVE  LET S == Said(RevokeSharePlan(x, a))
         IN \E T : Revokes(x, [st |-> "deleted"], T, NewIn(S)) /\ T \subseteq S
<1> DEFINE c1 == Statement("owner", a, None)  c2 == Statement("share", x, a)  w == SoftDelete(x)
           T == {c1, c2}  S == T \cup {w, Audit, Commit}
<1>1. \A s \in S : s.do # "insert"
  BY DEF SoftDelete, Update, Statement, Audit, Commit
<1>2. RevokeSharePlan(x, a) = <<c1, c2, w>> \o AuditAndCommit
  BY DEF RevokeSharePlan
<1>3. Revokes(x, [st |-> "deleted"], T, {})
  BY DEF Revokes
<1> HIDE DEF w, c1, c2
<1>4. Said(<<c1, c2, w>> \o AuditAndCommit) = S
  BY ListsAre, SaidLiterals, EndsSay, SaidMore
<1>5. NewIn(S) = {} /\ T \subseteq S
  BY <1>1, NewInMore
<1> HIDE DEF S
<1> QED BY <1>2, <1>3, <1>4, <1>5

\* The operation of a request that has arrived and passed its gate.
LEMMA ArrivedFor ==
  ASSUME Consistent, NEW r \in Reqs, NEW op, NEW by, NEW gate, NEW x, NEW want, NEW plan,
         gate # "pending", Arrive(r, op, by, gate, x, want, plan), Active(r)'
  PROVE  /\ req'[r].op = op /\ req'[r].by = by /\ req'[r].x = x
         /\ req'[r].want = want /\ req'[r].todo = plan /\ DOMAIN req'[r].writes = {}
<1> DEFINE q == IF gate # "ok" THEN [NewReq EXCEPT !.answer = gate]
                ELSE [NewReq EXCEPT !.op = op, !.by = by, !.x = x, !.want = want, !.todo = plan,
                                    !.read = IF by = x THEN Only(by, db[by]) ELSE @,
                                    !.answer = "pending"]
<1>1. req'[r] = q
  BY DEF Arrive, Consistent, Typed
<1>2. gate = "ok"
  BY <1>1 DEF Active, NewReq
<1>3. /\ q.op = op /\ q.by = by /\ q.x = x /\ q.want = want /\ q.todo = plan
      /\ q.writes = Nothing
  BY <1>2 DEF NewReq
<1> HIDE DEF q
<1> QED BY <1>1, <1>3, NothingWritten

\* The other handlers.
LEMMA OthersArrive ==
  ASSUME Consistent, NEW r \in Reqs, Begin(r), Active(r)', req'[r].op \in Sharing
  PROVE  \/ CreateAccount(r) \/ DeleteAccount(r) \/ ShareAccount(r)
         \/ UpdateShare(r) \/ RevokeShare(r)
<1> DEFINE Anyhow(op) == \E by, gate, x, want, plan :
                           gate # "pending" /\ Arrive(r, op, by, gate, x, want, plan)
<1>1. \A op : Anyhow(op) => req'[r].op = op
  BY ArrivedFor
<1> HIDE DEF Anyhow
<1>2. \A u : CurrentUser(u) # "pending" /\ AdminUser(u) # "pending"
  BY GatesAnswer
<1>3. /\ Register(r) => Anyhow("register")
      /\ UpdateProfile(r) => Anyhow("update_profile")
      /\ Deactivate(r) => Anyhow("deactivate")
      /\ DeleteUser(r) => Anyhow("delete_user")
      /\ ViewUser(r) => Anyhow("view_user")
      /\ ListUsers(r) => Anyhow("list_users")
  <2>1. Register(r) => Anyhow("register")
    BY <1>2 DEF Register, Anyhow
  <2>2. UpdateProfile(r) => Anyhow("update_profile")
    BY <1>2 DEF UpdateProfile, Anyhow
  <2>3. Deactivate(r) => Anyhow("deactivate")
    BY <1>2 DEF Deactivate, Anyhow
  <2>4. DeleteUser(r) => Anyhow("delete_user")
    BY <1>2 DEF DeleteUser, Anyhow
  <2>5. ViewUser(r) => Anyhow("view_user")
    BY <1>2 DEF ViewUser, Anyhow
  <2>6. ListUsers(r) => Anyhow("list_users")
    BY <1>2 DEF ListUsers, Anyhow
  <2> QED BY <2>1, <2>2, <2>3, <2>4, <2>5, <2>6
<1>4. /\ CreateType(r) => Anyhow("create_type")
      /\ UpdateType(r) => Anyhow("update_type")
      /\ DeleteType(r) => Anyhow("delete_type")
      /\ CreateInstitution(r) => Anyhow("create_institution")
      /\ UpdateInstitution(r) => Anyhow("update_institution")
      /\ DeleteInstitution(r) => Anyhow("delete_institution")
  <2>1. CreateType(r) => Anyhow("create_type")
    BY <1>2 DEF CreateType, Anyhow
  <2>2. UpdateType(r) => Anyhow("update_type")
    BY <1>2 DEF UpdateType, Anyhow
  <2>3. DeleteType(r) => Anyhow("delete_type")
    BY <1>2 DEF DeleteType, Anyhow
  <2>4. CreateInstitution(r) => Anyhow("create_institution")
    BY <1>2 DEF CreateInstitution, Anyhow
  <2>5. UpdateInstitution(r) => Anyhow("update_institution")
    BY <1>2 DEF UpdateInstitution, Anyhow
  <2>6. DeleteInstitution(r) => Anyhow("delete_institution")
    BY <1>2 DEF DeleteInstitution, Anyhow
  <2> QED BY <2>1, <2>2, <2>3, <2>4, <2>5, <2>6
<1>5. /\ UpdateAccount(r) => Anyhow("update_account")
      /\ CreateCard(r) => Anyhow("create_card")
      /\ UpdateCard(r) => Anyhow("update_card")
      /\ DeleteCard(r) => Anyhow("delete_card")
  <2>1. UpdateAccount(r) => Anyhow("update_account")
    BY <1>2 DEF UpdateAccount, Anyhow
  <2>2. CreateCard(r) => Anyhow("create_card")
    BY <1>2 DEF CreateCard, Anyhow
  <2>3. UpdateCard(r) => Anyhow("update_card")
    BY <1>2 DEF UpdateCard, Anyhow
  <2>4. DeleteCard(r) => Anyhow("delete_card")
    BY <1>2 DEF DeleteCard, Anyhow
  <2> QED BY <2>1, <2>2, <2>3, <2>4
<1> QED BY <1>1, <1>3, <1>4, <1>5 DEF Begin, Sharing

LEMMA SharingArrives ==
  ASSUME Consistent, NEW r \in Reqs, Begin(r), Active(r)', req'[r].op \in Sharing
  PROVE  LET q == req'[r]
             S == Said(q.todo)
         IN \E T : Grounds(q.op, q.by, q.x, q.want, T, NewIn(S)) /\ T \subseteq S
<1> DEFINE q == req'[r]
<1>1. Callers \subseteq Users
  BY DEF Callers
<1>2. \A u : CurrentUser(u) # "pending"
  BY GatesAnswer
<1>3. CASE CreateAccount(r)
  <2> DEFINE x == CHOOSE x \in FreshIn(Accounts) : TRUE
             s == CHOOSE s \in FreshIn(Shares) : TRUE
  <2>1. PICK u \in Callers, a \in NewAccounts :
          Arrive(r, "create_account", u, CurrentUser(u), x, NewAccount(u, a),
                 CreateAccountPlan(u, x, s, a))
    BY <1>3 DEF CreateAccount
  <2>2. x \in Accounts /\ s \in Shares
    BY <1>3, FreshOnes DEF CreateAccount, Rows
  <2> HIDE DEF x, s
  <2>3. /\ q.op = "create_account" /\ q.by = u /\ q.x = x /\ q.want = NewAccount(u, a)
        /\ q.todo = CreateAccountPlan(u, x, s, a)
    BY <1>2, <2>1, ArrivedFor
  <2>4. Creates(u, x, NewAccount(u, a), {}, NewIn(Said(CreateAccountPlan(u, x, s, a))))
    BY <1>1, <2>2, CreateGrounds
  <2>5. Grounds(q.op, q.by, q.x, q.want, {}, NewIn(Said(q.todo)))
    BY <2>3, <2>4 DEF Grounds
  <2> QED BY <2>5
<1>4. CASE DeleteAccount(r)
  <2>1. PICK u \in Callers, x \in Accounts :
          Arrive(r, "delete_account", u, CurrentUser(u), x, [st |-> "deleted"],
                 DeleteAccountPlan(x))
    BY <1>4 DEF DeleteAccount
  <2>2. /\ q.op = "delete_account" /\ q.x = x /\ q.want = [st |-> "deleted"]
        /\ q.todo = DeleteAccountPlan(x)
    BY <1>2, <2>1, ArrivedFor
  <2> DEFINE T == {Statement("mine", x, None)}
  <2>3. Deletes(q.x, q.want, T, NewIn(Said(q.todo))) /\ T \subseteq Said(q.todo)
    BY <2>2, DeleteGrounds
  <2> QED BY <2>2, <2>3 DEF Grounds
<1>5. CASE ShareAccount(r)
  <2> DEFINE x == CHOOSE x \in FreshIn(Shares) : TRUE
  <2>1. PICK u \in Callers, v \in Callers, a \in Accounts, level \in ShareLevels :
          Arrive(r, "share_account", u, CurrentUser(u), x, NewShare(a, v, level),
                 ShareAccountPlan(x, a, v, level))
    BY <1>5 DEF ShareAccount
  <2>2. x \in Shares
    BY <1>5, FreshOnes DEF ShareAccount, Rows
  <2> HIDE DEF x
  <2>3. /\ q.op = "share_account" /\ q.x = x /\ q.want = NewShare(a, v, level)
        /\ q.todo = ShareAccountPlan(x, a, v, level)
    BY <1>2, <2>1, ArrivedFor
  <2>4. PICK T : /\ SharesWith(q.x, q.want, T, NewIn(Said(q.todo)))
                 /\ T \subseteq Said(q.todo)
    BY <1>1, <2>2, <2>3, ShareGrounds
  <2> QED BY <2>3, <2>4 DEF Grounds
<1>6. CASE UpdateShare(r)
  <2>1. PICK u \in Callers, x \in Shares, a \in Accounts, level \in ShareLevels :
          Arrive(r, "update_share", u, CurrentUser(u), x, [level |-> level],
                 UpdateSharePlan(x, a, level))
    BY <1>6 DEF UpdateShare
  <2>2. /\ q.op = "update_share" /\ q.x = x /\ q.want = [level |-> level]
        /\ q.todo = UpdateSharePlan(x, a, level)
    BY <1>2, <2>1, ArrivedFor
  <2>3. PICK T : /\ Relevels(q.x, q.want, T, NewIn(Said(q.todo)))
                 /\ T \subseteq Said(q.todo)
    BY <2>2, RelevelGrounds
  <2> QED BY <2>2, <2>3 DEF Grounds
<1>7. CASE RevokeShare(r)
  <2>1. PICK u \in Callers, x \in Shares, a \in Accounts :
          Arrive(r, "revoke_share", u, CurrentUser(u), x, [st |-> "deleted"],
                 RevokeSharePlan(x, a))
    BY <1>7 DEF RevokeShare
  <2>2. /\ q.op = "revoke_share" /\ q.x = x /\ q.want = [st |-> "deleted"]
        /\ q.todo = RevokeSharePlan(x, a)
    BY <1>2, <2>1, ArrivedFor
  <2>3. PICK T : /\ Revokes(q.x, q.want, T, NewIn(Said(q.todo)))
                 /\ T \subseteq Said(q.todo)
    BY <2>2, RevokeGrounds
  <2> QED BY <2>2, <2>3 DEF Grounds
<1> QED BY <1>3, <1>4, <1>5, <1>6, <1>7, OthersArrive

\* Nobody acts while a request that meets no other is in progress.
LEMMA NobodyElse ==
  ASSUME Consistent, Traced, NEW r \in Reqs, NEW p \in Reqs, p # r, Active(p),
         \/ Active(r) /\ met' = met
         \/ Meet(r)
  PROVE  met'[p] # {}
<1>1. CASE Active(r) /\ met' = met
  BY <1>1 DEF Traced, AllMet
<1>2. CASE Meet(r)
  BY <1>2 DEF Meet
<1> QED BY <1>1, <1>2

LEMMA PlainStays ==
  ASSUME NEW r, NEW s, s.do \in Plain, db' = db, req'[r].by = req[r].by
  PROVE  Verdict(r, s)' = Verdict(r, s)
<1>1. Taken(s.arg)' = Taken(s.arg) /\ \A z : Exists(z)' = Exists(z)
  BY DEF Taken, Exists
<1>2. OwnerOf(req[r].by, s.x)' = OwnerOf(req[r].by, s.x)
  BY DEF OwnerOf, ShareOf, Exists
<1>3. ShareFound(req[r].by, s.x, s.arg)' = ShareFound(req[r].by, s.x, s.arg)
  BY DEF ShareFound, Exists
<1> QED BY <1>1, <1>2, <1>3 DEF Verdict, Plain

LEMMA GroundsArePlain ==
  ASSUME NEW op, NEW by, NEW x, NEW want, NEW T, NEW N, Grounds(op, by, x, want, T, N)
  PROVE  \A s \in T : s.do \in Plain
<1>1. \A level : \A s \in Refusing(level) : s.do \in Plain
  BY DEF Refusing, Refuse, Statement, Plain
<1>2. \A z, err : Find(z, err).do \in Plain
  BY DEF Find, Statement, Plain
<1>3. \A z, err : /\ Statement("mine", z, err).do \in Plain
                  /\ Statement("owner", z, err).do \in Plain
                  /\ Statement("other", z, err).do \in Plain
                  /\ Statement("share", z, err).do \in Plain
  BY DEF Statement, Plain
<1>4. \A key : Free(key).do \in Plain
  BY DEF Free, Statement, Plain
<1>5. Creates(by, x, want, T, N) \/ Deletes(x, want, T, N) => \A s \in T : s.do \in Plain
  BY <1>3 DEF Creates, Deletes
<1>6. SharesWith(x, want, T, N) => \A s \in T : s.do \in Plain
  <2> SUFFICES ASSUME SharesWith(x, want, T, N), NEW s \in T
               PROVE  s.do \in Plain
    OBVIOUS
  <2>1. PICK a \in Accounts, v \in Users, level \in ShareLevels :
          T = {Find(a, "404"), Statement("owner", a, None), Statement("other", v, None),
               Free(<<"share", a, v>>)} \cup Refusing(level)
    BY DEF SharesWith
  <2>2. \/ s = Find(a, "404") \/ s = Statement("owner", a, None) \/ s = Statement("other", v, None)
        \/ s = Free(<<"share", a, v>>) \/ s \in Refusing(level)
    BY <2>1
  <2> QED BY <1>1, <1>2, <1>3, <1>4, <2>2
<1>7. Relevels(x, want, T, N) \/ Revokes(x, want, T, N) => \A s \in T : s.do \in Plain
  <2>1. Revokes(x, want, T, N) => \A s \in T : s.do \in Plain
    BY <1>3 DEF Revokes
  <2> SUFFICES ASSUME Relevels(x, want, T, N), NEW s \in T
               PROVE  s.do \in Plain
    BY <2>1
  <2>2. PICK a \in Accounts, level \in ShareLevels :
          T = {Statement("owner", a, None), Statement("share", x, a)} \cup Refusing(level)
    BY DEF Relevels
  <2>3. s = Statement("owner", a, None) \/ s = Statement("share", x, a) \/ s \in Refusing(level)
    BY <2>2
  <2> QED BY <1>1, <1>3, <2>3
<1> QED BY <1>5, <1>6, <1>7 DEF Grounds

LEMMA ReadGrounds ==
  ASSUME Consistent, Traced, Grounded, NEW r \in Reqs \ committed, Read(r), Isolated(r)'
  PROVE  \E T, N : GroundedBy(r, T, N)'
<1> DEFINE s == Now(r)
           q == [req[r] EXCEPT !.todo = Tail(@),
                   !.read = IF s.do \in Loading THEN Over(@, Only(s.x, db[s.x])) ELSE @]
<1>1. Active(r) /\ s.do \in Checks /\ IsReq(req[r]) /\ req[r].todo # << >> /\ PlanFits(req[r].todo)
  BY DEF Consistent, Typed, IsReq, Active, Read, At
<1>2. StatementFits(s) /\ s = Head(req[r].todo)
  BY <1>1, RestFits DEF Now
<1>3. Verdict(r, s) = "ok"
  <2> SUFFICES ASSUME Verdict(r, s) # "ok"
               PROVE  FALSE
    OBVIOUS
  <2> DEFINE p == Answered(r, Verdict(r, s))
  <2>1. p.answer # "pending"
    BY <1>1, <1>2, VerdictEnds, AnsweredFits DEF Consistent
  <2>2. Proceed(r, p)
    BY DEF Read
  <2> HIDE DEF p
  <2>3. req'[r] = p
    BY <2>2 DEF Proceed, Consistent, Typed
  <2> QED BY <2>1, <2>3 DEF Isolated, Active
<1>4. /\ q.todo = Tail(req[r].todo) /\ q.writes = req[r].writes
      /\ q.x = req[r].x /\ q.want = req[r].want /\ q.op = req[r].op /\ q.by = req[r].by
  BY <1>1 DEF IsReq, NewReq
<1>5. Proceed(r, q)
  BY <1>3 DEF Read
<1> DEFINE S == Said(req[r].todo)  R == Said(q.todo)
<1> HIDE DEF q, s
<1>6. req'[r] = q /\ db' = db /\ met' = met
  BY <1>5 DEF Proceed, Consistent, Typed
<1>7. S = {s} \cup R
  BY <1>1, <1>2, <1>4, RestOf
<1>8. s.do # "insert"
  BY <1>1, ChecksApart
<1>9. Isolated(r)
  BY <1>1, <1>4, <1>6 DEF Isolated
<1>10. PICK T, N : GroundedBy(r, T, N)
  BY <1>9 DEF Grounded
<1>11. Said(req[r].todo)' = R
  BY <1>6
<1>12. NewRows(r)' = N
  <2>1. NewIn(R) = NewIn(S)
    BY <1>7, <1>8 DEF NewIn
  <2>2. NewRows(r)' = NewRows(r)
    BY <1>4, <1>6, <2>1 DEF NewRows
  <2> QED BY <1>10, <2>2 DEF GroundedBy
<1>13. Grounds(q.op, q.by, q.x, q.want, T, N)
  BY <1>4, <1>10 DEF GroundedBy
<1> HIDE DEF S, R
<1>14. ASSUME NEW t \in T
       PROVE  t \in R \/ Verdict(r, t)' = "ok"
  <2>1. t \in S \/ Verdict(r, t) = "ok"
    BY <1>10 DEF GroundedBy, S
  <2>2. t \in R \/ Verdict(r, t) = "ok"
    BY <1>3, <1>7, <2>1
  <2>3. Verdict(r, t)' = Verdict(r, t)
    BY <1>4, <1>6, <1>13, GroundsArePlain, PlainStays
  <2> QED BY <2>2, <2>3
<1>15. GroundedBy(r, T, N)'
  BY <1>6, <1>11, <1>12, <1>13, <1>14 DEF GroundedBy
<1> QED BY <1>15

LEMMA WriteGrounds ==
  ASSUME Consistent, Traced, Grounded, NEW r \in Reqs \ committed, Write(r), Isolated(r)'
  PROVE  \E T, N : GroundedBy(r, T, N)'
<1> DEFINE s == Now(r)  q == Wrote(r)  E == Effect(r, s)  w == req[r].writes
<1>1. /\ Active(r) /\ At(r, Writes) /\ s.do \in Writes
      /\ IsReq(req[r]) /\ req[r].todo # << >> /\ PlanFits(req[r].todo)
  BY DEF Consistent, Typed, IsReq, Active, Write, At
<1>2. s = Head(req[r].todo) /\ StatementFits(s)
  BY <1>1, RestFits DEF Now
<1>3. ~ Violates(r, s)
  <2> SUFFICES ASSUME Violates(r, s)
               PROVE  FALSE
    OBVIOUS
  <2> DEFINE p == Answered(r, "500")
  <2>1. p.answer # "pending"
    BY AnsweredFits DEF Consistent
  <2>2. Proceed(r, p)
    BY DEF Write
  <2> HIDE DEF p
  <2>3. req'[r] = p
    BY <2>2 DEF Proceed, Consistent, Typed
  <2> QED BY <2>1, <2>3 DEF Isolated, Active
<1>4. /\ q.todo = Tail(req[r].todo)
      /\ DOMAIN q.writes = DOMAIN E \cup DOMAIN w
      /\ \A z \in DOMAIN E : q.writes[z] = E[z]
      /\ \A z \in DOMAIN w : q.writes[z] = w[z]
  BY <1>1, WroteIs
<1>5. q.x = req[r].x /\ q.want = req[r].want /\ q.op = req[r].op /\ q.by = req[r].by
  BY <1>1 DEF Wrote, IsReq, NewReq
<1>6. Proceed(r, q)
  BY <1>3 DEF Write, Wrote
<1>7. RowsOf(r, s)
  BY <1>1, EffectFits
<1>8. s.do = "insert" => DOMAIN E = {s.x} /\ E[s.x] = s.arg
  BY EffectIs
<1>9. /\ \A z \in DOMAIN E : s.do # "insert" => IsRow(db[z])
      /\ \A z \in DOMAIN E : s.do = "insert" => db[z].st = "absent"
      /\ DOMAIN E \cap DOMAIN w = {}
  BY <1>7 DEF RowsOf
<1> DEFINE S == Said(req[r].todo)  R == Said(q.todo)
<1> HIDE DEF q, s, E
<1>10. req'[r] = q /\ db' = db /\ met' = met
  BY <1>6 DEF Proceed, Consistent, Typed
<1>11. S = {s} \cup R
  BY <1>1, <1>2, <1>4, RestOf
<1>12. Isolated(r)
  BY <1>1, <1>5, <1>10 DEF Isolated
<1>13. PICK T, N : GroundedBy(r, T, N)
  BY <1>12 DEF Grounded
<1>14. Grounds(q.op, q.by, q.x, q.want, T, N)
  BY <1>5, <1>13 DEF GroundedBy
<1>15. Said(req[r].todo)' = R
  BY <1>10
<1> HIDE DEF S, R, w
<1>16. NewRows(r)' = N
  <2> DEFINE W == {<<x, w[x]>> : x \in {y \in DOMAIN w : db[y].st = "absent"}}
             V == {<<x, q.writes[x]>> : x \in {y \in DOMAIN q.writes : db[y].st = "absent"}}
  <2>1. NewRows(r) = NewIn(S) \cup W /\ NewRows(r)' = NewIn(R) \cup V
    BY <1>10 DEF NewRows, S, R, w
  <2>2. CASE s.do = "insert"
    <3>1. NewIn(S) = {<<s.x, s.arg>>} \cup NewIn(R)
      BY <1>11, <2>2 DEF NewIn
    <3>2. V = W \cup {<<s.x, s.arg>>}
      BY <1>4, <1>8, <1>9, <2>2 DEF w
    <3> QED BY <1>13, <2>1, <3>1, <3>2 DEF GroundedBy
  <2>3. CASE s.do # "insert"
    <3>1. NewIn(S) = NewIn(R)
      BY <1>11, <2>3 DEF NewIn
    <3>2. V = W
      BY <1>4, <1>9, <2>3 DEF IsRow, w
    <3> QED BY <1>13, <2>1, <3>1, <3>2 DEF GroundedBy
  <2> QED BY <2>2, <2>3
<1>17. ASSUME NEW t \in T
       PROVE  t \in R \/ Verdict(r, t)' = "ok"
  <2>1. t.do \in Plain
    BY <1>14, GroundsArePlain
  <2>2. t # s
    BY <1>1, <2>1 DEF Plain, Writes
  <2>3. t \in R \/ Verdict(r, t) = "ok"
    BY <1>11, <1>13, <2>2 DEF GroundedBy, S
  <2>4. Verdict(r, t)' = Verdict(r, t)
    BY <1>5, <1>10, <2>1, PlainStays
  <2> QED BY <2>3, <2>4
<1>18. GroundedBy(r, T, N)'
  BY <1>10, <1>14, <1>15, <1>16, <1>17 DEF GroundedBy, R
<1> QED BY <1>18

LEMMA BeginGrounds ==
  ASSUME Consistent, NEW r \in Reqs, Begin(r), Isolated(r)'
  PROVE  \E T, N : GroundedBy(r, T, N)'
<1>1. PICK T, N : /\ Grounds(req'[r].op, req'[r].by, req'[r].x, req'[r].want, T, N)
                  /\ N = NewIn(Said(req'[r].todo)) /\ T \subseteq Said(req'[r].todo)
  BY SharingArrives DEF Isolated
<1>2. DOMAIN req'[r].writes = {}
  BY BeginArrives, ArrivedIs, NothingWritten DEF Arrival
<1>3. NewRows(r)' = N
  BY <1>1, <1>2 DEF NewRows
<1>4. GroundedBy(r, T, N)'
  BY <1>1, <1>3 DEF GroundedBy
<1> QED BY <1>4

\* Nobody acts besides a request that has met no other.
LEMMA BystanderMeets ==
  ASSUME Consistent, Traced, NEW r \in Reqs, Begin(r) \/ Step(r) \/ Fail(r) \/ BreakDeadlock(r),
         NEW p \in Reqs, p # r
  PROVE  ~ Isolated(p)'
<1>1. CASE Begin(r)
  <2>1. Meet(r) /\ req'[p] = req[p]
    BY <1>1, BeginArrives, ArrivedIs DEF Arrival
  <2>2. Active(p) => met'[p] # {}
    BY <2>1, NobodyElse
  <2> QED BY <2>1, <2>2 DEF Isolated, Active
<1>2. CASE ~ Begin(r)
  <2>1. Active(r) /\ met' = met /\ req'[p] = req[p]
    <3>1. InCycle(r) => Active(r)
      BY DEF InCycle, Granted, Blocks, At
    <3> QED BY <1>2, <3>1
         DEF Step, Read, Write, CommitWrites, Fail, BreakDeadlock, Proceed, At, Consistent, Typed
  <2>2. Active(p) => met'[p] # {}
    BY <2>1, NobodyElse
  <2> QED BY <2>1, <2>2 DEF Isolated, Active
<1> QED BY <1>1, <1>2

LEMMA NextGrounds ==
  ASSUME Consistent, Traced, Grounded, [Next]_vars
  PROVE  Grounded'
<1>1. ASSUME NEW r \in Reqs, Begin(r) \/ Step(r) \/ Fail(r) \/ BreakDeadlock(r)
      PROVE  Grounded'
  <2> SUFFICES ASSUME NEW p \in Reqs, p \notin committed', Isolated(p)'
               PROVE  \E T, N : GroundedBy(p, T, N)'
    BY DEF Grounded
  <2>1. p = r
    BY <1>1, BystanderMeets
  <2>2. CASE Begin(r)
    BY <2>1, <2>2, BeginGrounds
  <2>3. CASE Read(r)
    <3>1. r \notin committed
      BY <2>1, <2>3 DEF Read, Proceed
    <3> QED BY <2>1, <2>3, <3>1, ReadGrounds
  <2>4. CASE Write(r)
    <3>1. r \notin committed
      BY <2>1, <2>4 DEF Write, Proceed
    <3> QED BY <2>1, <2>4, <3>1, WriteGrounds
  <2>5. ~ CommitWrites(r)
    BY <2>1 DEF CommitWrites
  <2>6. CASE Fail(r) \/ BreakDeadlock(r)
    <3>1. PICK a : a # "pending" /\ Proceed(r, Answered(r, a))
      BY <2>6 DEF Fail, BreakDeadlock
    <3> DEFINE q == Answered(r, a)
    <3>2. q.answer # "pending"
      BY <3>1, AnsweredFits DEF Consistent
    <3> HIDE DEF q
    <3>3. req'[r] = q
      BY <3>1 DEF Proceed, Consistent, Typed, q
    <3> QED BY <2>1, <3>2, <3>3 DEF Isolated, Active
  <2> QED BY <1>1, <2>2, <2>3, <2>4, <2>5, <2>6 DEF Step
<1>2. CASE UNCHANGED vars
  <2>1. db' = db /\ req' = req /\ committed' = committed /\ met' = met
    BY <1>2 DEF vars
  <2> SUFFICES ASSUME NEW p \in Reqs, p \notin committed, Isolated(p)'
               PROVE  \E T, N : GroundedBy(p, T, N)'
    BY <2>1 DEF Grounded
  <2>2. Isolated(p)
    BY <2>1 DEF Isolated, Active
  <2>3. PICK T, N : GroundedBy(p, T, N)
    BY <2>2 DEF Grounded
  <2>4. NewRows(p)' = NewRows(p)
    BY <2>1 DEF NewRows
  <2>5. \A t \in T : Verdict(p, t)' = Verdict(p, t)
    BY <2>1, <2>3, GroundsArePlain, PlainStays DEF GroundedBy
  <2>6. GroundedBy(p, T, N)'
    BY <2>1, <2>3, <2>4, <2>5 DEF GroundedBy
  <2> QED BY <2>6
<1> QED BY <1>1, <1>2 DEF Next

LEMMA InitGrounds == Init => Grounded
BY DEF Init, Grounded, Isolated, Active, NewReq

\* What the commit of a request that has met no other does to the tables.
LEMMA IsolatedCommit ==
  ASSUME Consistent, Traced, Wished, Owned, Grounded, NEW r \in Reqs \ committed,
         CommitWrites(r), met[r] = {}, req[r].op \in Sharing
  PROVE  LET q == req[r]  x == q.x IN
         /\ q.by \in Users /\ x \in Rows
         /\ \A c \in DOMAIN q.want : db'[x][c] = q.want[c]
         /\ IsRow(db[x]) /\ IsRow(db'[x]) =>
              \A c \in DOMAIN db[x] \ DOMAIN q.want : db'[x][c] = db[x][c]
         /\ x \in Shares /\ IsRow(db[x]) => IsRow(db'[x])
         /\ \E T, N :
              /\ Grounds(q.op, q.by, x, q.want, T, N)
              /\ \A s \in T : Verdict(r, s) = "ok"
              /\ \A n \in N : n[1] \in Rows /\ db[n[1]].st = "absent" /\ db'[n[1]] = n[2]
              /\ \A y \in Rows : db'[y] = db[y] \/ y = x \/ \E n \in N : y = n[1]
<1> DEFINE q == req[r]  x == q.x  w == q.writes
<1>1. /\ Active(r) /\ Head(q.todo).do = "commit" /\ q.todo # << >> /\ PlanFits(q.todo)
      /\ Typed /\ ReferencesHold /\ WritesFit(r) /\ DOMAIN w \subseteq Rows /\ q.by \in Users
  BY DEF CommitWrites, At, Now, Active, Consistent, Typed, IsReq
<1>2. /\ \A y \in Rows \ DOMAIN w : db'[y] = db[y]
      /\ \A y \in DOMAIN w : db'[y] = w[y]
      /\ \A y \in Rows : db'[y] = Seen(r, y)
  BY <1>1, CommitIs DEF Seen
<1>3. \A s \in Said(q.todo) : s.do \in Ending
  BY <1>1, WritesComeLast DEF Ending
<1>4. x \in Rows /\ WritesAsked(r)
  BY <1>1 DEF Traced, Traces, RestServes, Needs
<1>5. Leaves(r)
  BY <1>1 DEF Owned, Owns
<1>6. \A c \in DOMAIN q.want : db'[x][c] = q.want[c]
  <2>1. Attains(r)
    BY <1>1 DEF Wished, Wishes
  <2>2. ~ Grants(Said(q.todo), x)
    BY <1>3 DEF Grants, Ending
  <2>3. ~ WrittenBy(r, x)
    BY DEF WrittenBy
  <2> QED BY <1>2, <1>4, <2>1, <2>2, <2>3 DEF Attains
<1>7. PICK T, N : GroundedBy(r, T, N)
  BY <1>1 DEF Grounded, Isolated
<1>8. \A s \in T : Verdict(r, s) = "ok"
  <2>1. \A s \in T : s.do \in Plain
    BY <1>7, GroundsArePlain DEF GroundedBy
  <2> QED BY <1>3, <1>7, <2>1 DEF GroundedBy, Plain, Ending
<1>9. N = {<<y, w[y]>> : y \in {z \in DOMAIN w : db[z].st = "absent"}}
  <2>1. NewIn(Said(q.todo)) = {}
    BY <1>3 DEF NewIn, Ending
  <2> QED BY <1>7, <2>1 DEF NewRows, GroundedBy
<1>10. \A y \in DOMAIN w : IsRow(db[y]) => y = x
  BY <1>4 DEF WritesAsked, Asked, Cascaded, Sharing
<1> HIDE DEF w
<1>11. \A n \in N : n[1] \in Rows /\ db[n[1]].st = "absent" /\ db'[n[1]] = n[2]
  BY <1>1, <1>2, <1>9 DEF w
<1>12. ASSUME NEW y \in Rows
       PROVE  db'[y] = db[y] \/ y = x \/ \E n \in N : y = n[1]
  <2> SUFFICES ASSUME y \in DOMAIN w, ~ IsRow(db[y])
               PROVE  \E n \in N : y = n[1]
    BY <1>2, <1>10
  <2>1. db[y].st = "absent"
    BY <1>1 DEF WritesFit, RowWritten, w
  <2>2. <<y, w[y]>> \in N
    BY <1>9, <2>1
  <2> QED BY <2>2
<1>13. ASSUME x \in Shares, IsRow(db[x])
       PROVE  IsRow(db'[x])
  <2> SUFFICES ASSUME x \in DOMAIN w, ~ IsRow(w[x])
               PROVE  FALSE
    BY <1>2, <1>4, <1>13
  <2>1. \/ db[x].account \in DOMAIN w
        \/ db[x].user \in DOMAIN w
    BY <1>5, <1>13 DEF Leaves, w
  <2>2. /\ db[x].account \in Accounts /\ db[x].user \in Users
        /\ Refs(x, db[x]) = {db[x].account, db[x].user}
    BY <1>1, <1>4, <1>13, ReferencesOf DEF Typed
  <2>3. IsRow(db[db[x].account]) /\ IsRow(db[db[x].user])
    BY <1>1, <1>4, <2>2 DEF ReferencesHold
  <2> QED BY <1>10, <1>13, <2>1, <2>2, <2>3, KindsApart
<1>14. ASSUME IsRow(db[x]), IsRow(db'[x]), NEW c \in DOMAIN db[x] \ DOMAIN q.want
       PROVE  db'[x][c] = db[x][c]
  <2> SUFFICES ASSUME x \in DOMAIN w
               PROVE  w[x][c] = db[x][c]
    BY <1>2, <1>4
  <2>1. Asked(q, x)
    BY <1>4, <1>14 DEF WritesAsked, Cascaded, Sharing, w
  <2>2. w[x] # Gone
    BY <1>2, <1>14, StatesApart
  <2> QED BY <1>14, <2>1, <2>2 DEF Asked, w
<1> QED BY <1>1, <1>4, <1>6, <1>7, <1>8, <1>11, <1>12, <1>13, <1>14 DEF GroundedBy

\* What module Access makes of a table.
Held(t, a, u) == {s \in Shares : t[s].st = "live" /\ t[s].account = a /\ t[s].user = u}
LevelIn(t, a, u) ==
  IF Held(t, a, u) = {} THEN "none" ELSE t[CHOOSE s \in Held(t, a, u) : TRUE].level
KnownIn(t, a) ==
  IF IsRow(t[a]) THEN [st |-> t[a].st, owner |-> t[a].owner] ELSE [st |-> "absent", owner |-> None]
AccountsIn(t) == [a \in Accounts |-> KnownIn(t, a)]
SharesIn(t) == [a \in Accounts |-> [u \in Users |-> LevelIn(t, a, u)]]

\* A user has one live share of an account at most.
OneShare(t) == \A a \in Accounts, u \in Users : \A s, p \in Held(t, a, u) : s = p

\* Its key is unique.
KeysApartIn(t) == \A s, p \in Shares : s # p => Keys(s, t[s]) \cap Keys(p, t[p]) = {}

LEMMA SharesAreOne ==
  ASSUME NEW t, KeysApartIn(t)
  PROVE  OneShare(t)
<1> SUFFICES ASSUME NEW a \in Accounts, NEW u \in Users, NEW s \in Held(t, a, u),
                    NEW p \in Held(t, a, u), s # p
             PROVE  FALSE
  BY DEF OneShare
<1>1. \A y \in Held(t, a, u) : <<"share", a, u>> \in Keys(y, t[y]) /\ y \in Shares
  BY KindsApart DEF Held, IsRow, Keys, ShareKeys
<1> QED BY <1>1 DEF KeysApartIn

LEMMA SharesOfTables ==
  /\ Consistent => OneShare(db)
  /\ Consistent' => OneShare(db')
<1>1. Consistent => KeysApartIn(db)
  BY DEF KeysApartIn, Consistent, KeysUnique, Rows
<1>2. Consistent' => KeysApartIn(db')
  BY DEF KeysApartIn, Consistent, KeysUnique, Rows
<1> QED BY <1>1, <1>2, SharesAreOne

LEMMA LevelIs ==
  ASSUME NEW t, OneShare(t), NEW a \in Accounts, NEW u \in Users
  PROVE  /\ \A s \in Held(t, a, u) : LevelIn(t, a, u) = t[s].level
         /\ Held(t, a, u) = {} => LevelIn(t, a, u) = "none"
BY DEF LevelIn, OneShare

\* The accounts and shares that a table has are decided by its rows of these.
LEMMA SameAccounts ==
  ASSUME NEW t, NEW v, \A a \in Accounts : v[a] = t[a]
  PROVE  AccountsIn(v) = AccountsIn(t)
<1>1. \A a \in Accounts : KnownIn(v, a) = KnownIn(t, a)
  BY DEF KnownIn
<1> QED BY <1>1 DEF AccountsIn

LEMMA SameShares ==
  ASSUME NEW t, NEW v, \A s \in Shares : v[s] = t[s]
  PROVE  SharesIn(v) = SharesIn(t)
<1>1. ASSUME NEW a \in Accounts, NEW u \in Users
      PROVE  LevelIn(v, a, u) = LevelIn(t, a, u)
  <2>1. Held(v, a, u) = Held(t, a, u)
    BY DEF Held
  <2>2. \A s \in Held(t, a, u) : v[s] = t[s]
    BY DEF Held
  <2> QED BY <2>1, <2>2 DEF LevelIn
<1> QED BY <1>1 DEF SharesIn

\* One share appears, changes its level or goes.
LEMMA OneShareChanges ==
  ASSUME NEW t, NEW v, NEW x \in Shares, \A s \in Shares \ {x} : v[s] = t[s],
         NEW a \in Accounts, NEW u \in Users,
         t[x].st = "live" => t[x].account = a /\ t[x].user = u,
         v[x].st = "live" => v[x].account = a /\ v[x].user = u,
         NEW level, level = LevelIn(v, a, u)
  PROVE  SharesIn(v) = [SharesIn(t) EXCEPT ![a][u] = level]
<1>1. ASSUME NEW b \in Accounts, NEW p \in Users, b # a \/ p # u
      PROVE  LevelIn(v, b, p) = LevelIn(t, b, p)
  <2>1. x \notin Held(v, b, p) /\ x \notin Held(t, b, p)
    BY <1>1 DEF Held
  <2>2. Held(v, b, p) = Held(t, b, p)
    BY <2>1 DEF Held
  <2>3. \A s \in Held(t, b, p) : v[s] = t[s]
    BY <2>1 DEF Held
  <2> QED BY <2>2, <2>3 DEF LevelIn
<1> DEFINE f == SharesIn(t)  g == SharesIn(v)  h == [f EXCEPT ![a][u] = level]
<1>2. /\ DOMAIN f = Accounts /\ \A b \in Accounts : DOMAIN f[b] = Users
      /\ \A b \in Accounts, p \in Users : f[b][p] = LevelIn(t, b, p)
  BY DEF SharesIn
<1>3. g = [b \in Accounts |-> [p \in Users |-> LevelIn(v, b, p)]]
  BY DEF SharesIn
<1> HIDE DEF f, g
<1>4. h = [b \in Accounts |-> IF b = a THEN [f[a] EXCEPT ![u] = level] ELSE f[b]]
  BY <1>2
<1>5. [f[a] EXCEPT ![u] = level] = [p \in Users |-> IF p = u THEN level ELSE f[a][p]]
  BY <1>2
<1>6. ASSUME NEW b \in Accounts
      PROVE  f[b] = [p \in Users |-> f[b][p]]
  <2>1. f[b] = [p \in Users |-> LevelIn(t, b, p)]
    BY DEF f, SharesIn
  <2> QED BY <2>1
<1>7. \A b \in Accounts : [p \in Users |-> LevelIn(v, b, p)] = h[b]
  BY <1>1, <1>2, <1>4, <1>5, <1>6
<1> QED BY <1>3, <1>4, <1>7 DEF f, g

\* The same of the step at hand, whose share goes.
LEMMA OneShareGoes ==
  ASSUME NEW x \in Shares, \A p \in Shares \ {x} : db'[p] = db[p],
         NEW a \in Accounts, NEW v \in Users,
         db[x].account = a, db[x].user = v, db'[x].st # "live",
         LevelIn(db', a, v) = "none"
  PROVE  SharesIn(db') = [SharesIn(db) EXCEPT ![a][v] = "none"]
BY OneShareChanges, SMTT(40)

\* What module Access says of a step from one table to another.
OwnsIn(t, u, a) ==
  \/ AccountsIn(t)[a].st = "live" /\ AccountsIn(t)[a].owner = u
  \/ SharesIn(t)[a][u] = "owner"

ChangesShare(t, v, a, p, level) ==
  AccountsIn(v) = AccountsIn(t) /\ SharesIn(v) = [SharesIn(t) EXCEPT ![a][p] = level]

OthersShare(t, u, a, p) == SharesIn(t)[a][p] # "none" /\ ~ (p = u /\ SharesIn(t)[a][p] = "owner")

CreatesIn(t, v, u, a) ==
  /\ AccountsIn(t)[a].st = "absent"
  /\ AccountsIn(v) = [AccountsIn(t) EXCEPT ![a] = [st |-> "live", owner |-> u]]
  /\ SharesIn(v) = [SharesIn(t) EXCEPT ![a][u] = "owner"]

DeletesIn(t, v, u, a) ==
  /\ AccountsIn(t)[a].st = "live" /\ AccountsIn(t)[a].owner = u
  /\ AccountsIn(v) = [AccountsIn(t) EXCEPT ![a].st = "deleted"]
  /\ SharesIn(v) = SharesIn(t)

SharesWithIn(t, v, u, a, p, level) ==
  /\ AccountsIn(t)[a].st = "live" /\ OwnsIn(t, u, a) /\ p # u /\ SharesIn(t)[a][p] = "none"
  /\ ChangesShare(t, v, a, p, level)

Grantable == {"viewer", "editor"}

RelevelsIn(t, v, u, a, p, level) ==
  OwnsIn(t, u, a) /\ OthersShare(t, u, a, p) /\ ChangesShare(t, v, a, p, level)

AccessSays(t, v, u, a) ==
  \/ CreatesIn(t, v, u, a) \/ DeletesIn(t, v, u, a)
  \/ \E p \in Users :
       \/ \E level \in Grantable : SharesWithIn(t, v, u, a, p, level) \/ RelevelsIn(t, v, u, a, p, level)
       \/ RelevelsIn(t, v, u, a, p, "none")

LEMMA OwnersAllowed ==
  ASSUME NEW r, NEW a \in Accounts, req[r].by \in Users, OwnsIn(db, req[r].by, a)
  PROVE  Access!Allowed(req[r].by, a, "owner")
<1>1. Access!Permission(req[r].by, a) = "owner"
  BY DEF OwnsIn, Access!Permission, Access!IsLive, AccountsIn, SharesIn, KnownIn, LevelIn, Held
<1> QED BY <1>1, SMTT(40) DEF Access!Allowed, Access!Rank, Access!Levels, Access!Grantable, Access!NoAccess

LEMMA AccessIs ==
  ASSUME NEW r, req[r].by \in Users, NEW a \in Accounts, AccessSays(db, db', req[r].by, a)
  PROVE  \/ Access!CreateAccount(req[r].by, a)
         \/ Access!DeleteAccount(req[r].by, a)
         \/ \E p \in Users : Access!SharingStep(req[r].by, a, p)
<1>1. CASE CreatesIn(db, db', req[r].by, a)
  <2>1. Access!CreateAccount(req[r].by, a)
    BY <1>1 DEF CreatesIn, Access!CreateAccount, AccountsIn, SharesIn, KnownIn, LevelIn, Held
  <2> QED BY <2>1, SMTT(40)
<1>2. CASE DeletesIn(db, db', req[r].by, a)
  <2>1. Access!DeleteAccount(req[r].by, a)
    BY <1>2 DEF DeletesIn, Access!DeleteAccount, Access!IsLive,
                AccountsIn, SharesIn, KnownIn, LevelIn, Held
  <2> QED BY <2>1
<1>3. ASSUME NEW p \in Users, NEW level \in Grantable, SharesWithIn(db, db', req[r].by, a, p, level)
      PROVE  \E q \in Users : Access!SharingStep(req[r].by, a, q)
  <2> WITNESS p \in Users
  <2>1. Access!Allowed(req[r].by, a, "owner")
    BY <1>3, OwnersAllowed, SMTT(40) DEF SharesWithIn
  <2>2. Access!ShareAccount(req[r].by, a, p, level)
    BY <1>3, <2>1 DEF SharesWithIn, ChangesShare, Grantable, Access!ShareAccount, Access!IsLive,
                      Access!NoAccess, AccountsIn, SharesIn, KnownIn, LevelIn, Held
  <2>3. level \in Access!Levels
    BY DEF Grantable, Access!Levels, Access!Grantable
  <2> QED BY <2>2, <2>3 DEF Access!SharingStep
<1>4. ASSUME NEW p \in Users, NEW level \in Grantable, RelevelsIn(db, db', req[r].by, a, p, level)
      PROVE  \E q \in Users : Access!SharingStep(req[r].by, a, q)
  <2> WITNESS p \in Users
  <2>1. Access!Allowed(req[r].by, a, "owner")
    BY <1>4, OwnersAllowed, SMTT(40) DEF RelevelsIn
  <2>2. Access!UpdateShare(req[r].by, a, p, level)
    BY <1>4, <2>1 DEF RelevelsIn, OthersShare, ChangesShare, Grantable, Access!UpdateShare,
                      Access!NoAccess, AccountsIn, SharesIn, KnownIn, LevelIn, Held
  <2>3. level \in Access!Levels
    BY DEF Grantable, Access!Levels, Access!Grantable
  <2> QED BY <2>2, <2>3 DEF Access!SharingStep
<1>5. ASSUME NEW p \in Users, RelevelsIn(db, db', req[r].by, a, p, "none")
      PROVE  \E q \in Users : Access!SharingStep(req[r].by, a, q)
  <2> WITNESS p \in Users
  <2>1. Access!Allowed(req[r].by, a, "owner")
    BY <1>5, OwnersAllowed, SMTT(40) DEF RelevelsIn
  <2>2. Access!RevokeShare(req[r].by, a, p)
    BY <1>5, <2>1 DEF RelevelsIn, OthersShare, ChangesShare, Access!RevokeShare,
                      Access!NoAccess, AccountsIn, SharesIn, KnownIn, LevelIn, Held
  <2> QED BY <2>2 DEF Access!SharingStep
<1> QED BY <1>1, <1>2, <1>3, <1>4, <1>5 DEF AccessSays

\* The five operations, committed by a request that has met no other.
Commits(r, T, N) ==
  LET q == req[r]  x == q.x IN
  /\ q.by \in Users /\ x \in Rows
  /\ \A c \in DOMAIN q.want : db'[x][c] = q.want[c]
  /\ IsRow(db[x]) /\ IsRow(db'[x]) =>
       \A c \in DOMAIN db[x] \ DOMAIN q.want : db'[x][c] = db[x][c]
  /\ x \in Shares /\ IsRow(db[x]) => IsRow(db'[x])
  /\ \A s \in T : Verdict(r, s) = "ok"
  /\ \A n \in N : n[1] \in Rows /\ db[n[1]].st = "absent" /\ db'[n[1]] = n[2]
  /\ \A y \in Rows : db'[y] = db[y] \/ y = x \/ \E n \in N : y = n[1]

LEMMA CreationIsAccess ==
  ASSUME Consistent, Consistent', NEW r \in Reqs, NEW T, NEW N, Commits(r, T, N),
         Creates(req[r].by, req[r].x, req[r].want, T, N)
  PROVE  CreatesIn(db, db', req[r].by, req[r].x)
<1> DEFINE u == req[r].by  x == req[r].x  want == req[r].want
<1>1. PICK s \in Shares : N = {<<x, want>>, <<s, NewShare(x, u, "owner")>>}
  BY DEF Creates
<1>2. x \in Accounts /\ u \in Users /\ want.st = "live" /\ want.owner = u
  BY DEF Creates, Commits
<1>3. /\ db[x].st = "absent" /\ db'[x] = want
      /\ db[s].st = "absent" /\ db'[s] = NewShare(x, u, "owner")
  BY <1>1 DEF Commits
<1>4. /\ Accounts \subseteq Rows /\ Shares \subseteq Rows
      /\ \A y \in Rows \ {x, s} : db'[y] = db[y]
  <2>1. Accounts \subseteq Rows /\ Shares \subseteq Rows
    BY DEF Rows
  <2>2. \A n \in N : n[1] \in {x, s}
    BY <1>1
  <2> QED BY <2>1, <2>2 DEF Commits
<1>5. /\ db'[s].st = "live" /\ db'[s].account = x /\ db'[s].user = u /\ db'[s].level = "owner"
  BY <1>3 DEF NewShare
<1> HIDE DEF u, x, want
<1>6. /\ AccountsIn(db)[x].st = "absent"
      /\ AccountsIn(db') = [AccountsIn(db) EXCEPT ![x] = [st |-> "live", owner |-> u]]
  <2>1. KnownIn(db, x).st = "absent"
    BY <1>3 DEF KnownIn, IsRow
  <2>2. KnownIn(db', x) = [st |-> "live", owner |-> u]
    BY <1>2, <1>3 DEF KnownIn, IsRow
  <2>3. \A a \in Accounts \ {x} : KnownIn(db', a) = KnownIn(db, a)
    BY <1>4, KindsApart DEF KnownIn
  <2> QED BY <1>2, <2>1, <2>2, <2>3 DEF AccountsIn
<1>7. SharesIn(db') = [SharesIn(db) EXCEPT ![x][u] = "owner"]
  <2>1. s \in Held(db', x, u)
    BY <1>5 DEF Held
  <2>2. LevelIn(db', x, u) = "owner"
    BY <1>2, <1>5, <2>1, SharesOfTables, LevelIs
  <2>3. \A p \in Shares \ {s} : db'[p] = db[p]
    BY <1>2, <1>4, KindsApart
  <2> QED BY <1>2, <1>3, <1>5, <2>2, <2>3, OneShareChanges
<1>8. CreatesIn(db, db', u, x)
  BY <1>6, <1>7 DEF CreatesIn
<1> QED BY <1>8 DEF u, x

LEMMA AccountsAre == ASSUME NEW t PROVE AccountsIn(t) = [a \in Accounts |-> AccountsIn(t)[a]]
BY DEF AccountsIn

LEMMA DeletionIsAccess ==
  ASSUME NEW r \in Reqs, Typed, NEW T, NEW N, Commits(r, T, N), Deletes(req[r].x, req[r].want, T, N)
  PROVE  DeletesIn(db, db', req[r].by, req[r].x)
<1> DEFINE u == req[r].by  x == req[r].x  want == req[r].want  s == Statement("mine", x, None)
<1>1. x \in Accounts /\ u \in Users /\ want = [st |-> "deleted"] /\ s \in T /\ N = {}
  BY DEF Deletes, Commits
<1>2. db[x].st = "live" /\ db[x].owner = u
  <2>1. s.do = "mine" /\ s.x = x
    BY DEF Statement
  <2>2. Verdict(r, s) = "ok"
    BY <1>1 DEF Commits
  <2> HIDE DEF s
  <2> QED BY <2>1, <2>2 DEF Verdict, Exists
<1>3. db'[x].st = "deleted"
  BY <1>1 DEF Commits
<1>4. db'[x].owner = u
  <2>1. IsRow(db[x]) /\ IsRow(db'[x]) /\ x \in Rows
    BY <1>1, <1>2, <1>3 DEF IsRow, Rows
  <2>2. Columns(x) \subseteq DOMAIN db[x]
    BY <2>1, StatesApart DEF RowFits, Typed
  <2>3. "owner" \in DOMAIN db[x] \ DOMAIN want
    BY <1>1, <2>2, KindsApart DEF Columns
  <2> QED BY <1>2, <2>1, <2>3 DEF Commits
<1>5. \A y \in Rows \ {x} : db'[y] = db[y]
  BY <1>1 DEF Commits
<1>6. Accounts \subseteq Rows /\ Shares \subseteq Rows
  BY DEF Rows
<1> HIDE DEF u, x, want
<1>7. KnownIn(db, x) = [st |-> "live", owner |-> u] /\ KnownIn(db', x) = [st |-> "deleted", owner |-> u]
  BY <1>2, <1>3, <1>4 DEF KnownIn, IsRow
<1>8. \A a \in Accounts \ {x} : KnownIn(db', a) = KnownIn(db, a)
  BY <1>5, <1>6 DEF KnownIn
<1>9. AccountsIn(db') = [AccountsIn(db) EXCEPT ![x].st = "deleted"]
  <2> DEFINE A == AccountsIn(db)  B == AccountsIn(db')
  <2>1. /\ DOMAIN A = Accounts /\ A[x] = [st |-> "live", owner |-> u]
        /\ B = [a \in Accounts |-> IF a = x THEN [st |-> "deleted", owner |-> u] ELSE A[a]]
    BY <1>1, <1>7, <1>8 DEF AccountsIn
  <2>2. [A[x] EXCEPT !.st = "deleted"] = [st |-> "deleted", owner |-> u]
    BY <2>1
  <2> HIDE DEF A, B
  <2>3. B = [A EXCEPT ![x] = [A[x] EXCEPT !.st = "deleted"]]
    BY <2>1, <2>2, AccountsAre DEF A
  <2> QED BY <2>3 DEF A, B
<1>10. SharesIn(db') = SharesIn(db)
  BY <1>1, <1>5, <1>6, SameShares, KindsApart
<1>11. AccountsIn(db)[x] = KnownIn(db, x)
  BY <1>1 DEF AccountsIn
<1>12. DeletesIn(db, db', u, x)
  BY <1>7, <1>9, <1>10, <1>11 DEF DeletesIn
<1> QED BY <1>12 DEF u, x

LEMMA OwnersFound ==
  ASSUME Consistent, NEW u \in Users, NEW a \in Accounts, OwnerOf(u, a) = "ok"
  PROVE  OwnsIn(db, u, a)
<1>1. AccountsIn(db)[a] = KnownIn(db, a) /\ SharesIn(db)[a][u] = LevelIn(db, a, u)
  BY DEF AccountsIn, SharesIn
<1>2. CASE Exists(a) /\ db[a].owner = u
  BY <1>1, <1>2 DEF OwnsIn, KnownIn, Exists, IsRow
<1>3. CASE ~ (Exists(a) /\ db[a].owner = u)
  <2>1. PICK s \in Held(db, a, u) : db[s].level = "owner"
    BY <1>3 DEF OwnerOf, ShareOf, Held, Exists
  <2>2. LevelIn(db, a, u) = "owner"
    BY <2>1, SharesOfTables, LevelIs
  <2> QED BY <1>1, <2>2 DEF OwnsIn
<1> QED BY <1>2, <1>3

\* A level of owner is refused.
LEMMA LevelGranted ==
  ASSUME NEW r, NEW T, NEW level \in ShareLevels, \A s \in T : Verdict(r, s) = "ok",
         Refusing(level) \subseteq T
  PROVE  level \in Grantable
<1>1. level \in {"owner", "editor", "viewer"}
  BY HoldingsAssumption DEF PermissionLevel
<1>2. level # "owner"
  <2> SUFFICES ASSUME level = "owner"
               PROVE  FALSE
    OBVIOUS
  <2> DEFINE s == Refuse("422")
  <2>1. s \in T
    BY DEF Refusing
  <2>2. s.do = "refuse" /\ s.arg = "422"
    BY DEF Refuse, Statement
  <2>3. Verdict(r, s) = "ok"
    BY <2>1
  <2> HIDE DEF s
  <2> QED BY <2>2, <2>3 DEF Verdict
<1> QED BY <1>1, <1>2 DEF Grantable

\* What the checks of the handlers of shares have found.
LEMMA OwnerChecked ==
  ASSUME Consistent, NEW r \in Reqs, req[r].by \in Users, NEW a \in Accounts,
         Verdict(r, Statement("owner", a, None)) = "ok"
  PROVE  OwnsIn(db, req[r].by, a)
<1> DEFINE s == Statement("owner", a, None)
<1>1. s.do = "owner" /\ s.x = a /\ Verdict(r, s) = "ok"
  BY DEF Statement
<1> HIDE DEF s
<1>2. OwnerOf(req[r].by, a) = "ok"
  BY <1>1 DEF Verdict
<1> QED BY <1>2, OwnersFound

LEMMA ShareChecked ==
  ASSUME NEW r \in Reqs, NEW x \in Shares, NEW a, Verdict(r, Statement("share", x, a)) = "ok"
  PROVE  /\ db[x].st = "live" /\ db[x].account = a
         /\ ~ (db[x].user = req[r].by /\ db[x].level = "owner")
<1> DEFINE s == Statement("share", x, a)
<1>1. s.do = "share" /\ s.x = x /\ s.arg = a /\ Verdict(r, s) = "ok"
  BY DEF Statement
<1> HIDE DEF s
<1>2. ShareFound(req[r].by, x, a) = "ok"
  BY <1>1 DEF Verdict
<1> QED BY <1>2 DEF ShareFound, Exists

LEMMA SharingIsAccess ==
  ASSUME Consistent, Consistent', NEW r \in Reqs, NEW T, NEW N, Commits(r, T, N),
         SharesWith(req[r].x, req[r].want, T, N)
  PROVE  \E a \in Accounts : AccessSays(db, db', req[r].by, a)
<1> DEFINE u == req[r].by  x == req[r].x  want == req[r].want
<1>1. PICK a \in Accounts, v \in Users, level \in ShareLevels :
        /\ x \in Shares /\ want = NewShare(a, v, level) /\ N = {<<x, want>>}
        /\ T = {Find(a, "404"), Statement("owner", a, None), Statement("other", v, None),
                Free(<<"share", a, v>>)} \cup Refusing(level)
  BY DEF SharesWith
<1>2. u \in Users /\ \A s \in T : Verdict(r, s) = "ok"
  BY DEF Commits
<1>3. level \in Grantable
  BY <1>1, <1>2, LevelGranted
<1>4. db[x].st = "absent" /\ db'[x] = want
  BY <1>1 DEF Commits
<1>5. db'[x].st = "live" /\ db'[x].account = a /\ db'[x].user = v /\ db'[x].level = level
  BY <1>1, <1>4 DEF NewShare
<1>6. \A y \in Rows \ {x} : db'[y] = db[y]
  <2>1. \A n \in N : n[1] = x
    BY <1>1
  <2> QED BY <2>1 DEF Commits
<1>7. Accounts \subseteq Rows /\ Shares \subseteq Rows
  BY DEF Rows
<1>8. OwnsIn(db, u, a)
  BY <1>1, <1>2, OwnerChecked
<1>9. db[a].st = "live"
  <2> DEFINE s == Find(a, "404")
  <2>1. s.do = "find" /\ s.x = a /\ s.arg = "404"
    BY DEF Find, Statement
  <2>2. Verdict(r, s) = "ok"
    BY <1>1, <1>2
  <2> HIDE DEF s
  <2> QED BY <2>1, <2>2 DEF Verdict, Exists
<1>10. v # u
  <2> DEFINE s == Statement("other", v, None)
  <2>1. s.do = "other" /\ s.x = v
    BY DEF Statement
  <2>2. Verdict(r, s) = "ok"
    BY <1>1, <1>2
  <2> HIDE DEF s
  <2> QED BY <2>1, <2>2 DEF Verdict
<1>11. Held(db, a, v) = {}
  <2> DEFINE s == Free(<<"share", a, v>>)
  <2>1. s.do = "free" /\ s.arg = <<"share", a, v>>
    BY DEF Free, Statement
  <2>2. Verdict(r, s) = "ok"
    BY <1>1, <1>2
  <2> HIDE DEF s
  <2>3. ~ Taken(<<"share", a, v>>)
    BY <2>1, <2>2 DEF Verdict
  <2>4. \A y \in Held(db, a, v) : y \in Rows /\ Exists(y) /\ <<"share", a, v>> \in Keys(y, db[y])
    BY <1>7, KindsApart DEF Held, Exists, IsRow, Keys, ShareKeys
  <2> QED BY <2>3, <2>4 DEF Taken
<1> HIDE DEF u, x, want
<1>12. AccountsIn(db') = AccountsIn(db)
  BY <1>1, <1>6, <1>7, SameAccounts, KindsApart
<1>13. SharesIn(db') = [SharesIn(db) EXCEPT ![a][v] = level]
  <2>1. x \in Held(db', a, v)
    BY <1>1, <1>5 DEF Held
  <2>2. LevelIn(db', a, v) = level
    BY <1>5, <2>1, SharesOfTables, LevelIs
  <2>3. \A p \in Shares \ {x} : db'[p] = db[p]
    BY <1>6, <1>7
  <2> QED BY <1>1, <1>4, <1>5, <2>2, <2>3, OneShareChanges
<1>14. AccountsIn(db)[a].st = "live" /\ SharesIn(db)[a][v] = "none"
  <2>1. AccountsIn(db)[a] = KnownIn(db, a) /\ SharesIn(db)[a][v] = LevelIn(db, a, v)
    BY DEF AccountsIn, SharesIn
  <2>2. LevelIn(db, a, v) = "none"
    BY <1>11 DEF LevelIn
  <2> QED BY <1>9, <2>1, <2>2 DEF KnownIn, IsRow
<1>15. SharesWithIn(db, db', u, a, v, level)
  BY <1>8, <1>10, <1>12, <1>13, <1>14 DEF SharesWithIn, ChangesShare
<1> QED BY <1>3, <1>15 DEF AccessSays, u

\* What a change of a share leaves as it was.
LEMMA ShareKeeps ==
  ASSUME Typed, NEW r \in Reqs, NEW T, NEW N, Commits(r, T, N), N = {}, req[r].x \in Shares,
         db[req[r].x].st = "live", DOMAIN req[r].want \subseteq {"st", "level"}
  PROVE  LET x == req[r].x IN
         /\ db[x].account \in Accounts /\ db[x].user \in Users /\ db[x].level \in PermissionLevel
         /\ db'[x].account = db[x].account /\ db'[x].user = db[x].user
         /\ "st" \notin DOMAIN req[r].want => db'[x].st = "live"
         /\ \A y \in Rows \ {x} : db'[y] = db[y]
         /\ AccountsIn(db') = AccountsIn(db)
<1> DEFINE x == req[r].x  want == req[r].want
<1>1. IsRow(db[x]) /\ IsRow(db'[x]) /\ x \in Rows
  BY DEF Commits, IsRow, Rows
<1>2. Columns(x) \subseteq DOMAIN db[x] /\ Fits(x, db[x])
  BY <1>1, StatesApart DEF RowFits, Typed
<1>3. Columns(x) = {"st", "account", "user", "level"}
  BY KindsApart DEF Columns
<1>4. {"account", "user"} \subseteq DOMAIN db[x] \ DOMAIN want /\ {"st", "level"} \subseteq DOMAIN db[x]
  BY <1>2, <1>3
<1>5. db'[x].account = db[x].account /\ db'[x].user = db[x].user
  BY <1>1, <1>4 DEF Commits
<1>6. "st" \notin DOMAIN want => db'[x].st = "live"
  BY <1>1, <1>4 DEF Commits
<1>7. db[x].account \in Accounts /\ db[x].user \in Users
  BY <1>1, ReferencesOf DEF Typed
<1>8. db[x].level \in PermissionLevel
  BY <1>2, <1>4 DEF Fits
<1>9. \A y \in Rows \ {x} : db'[y] = db[y]
  BY DEF Commits
<1>10. AccountsIn(db') = AccountsIn(db)
  <2>1. Accounts \subseteq Rows \ {x}
    BY KindsApart DEF Rows
  <2> QED BY <1>9, <2>1, SameAccounts
<1> QED BY <1>5, <1>6, <1>7, <1>8, <1>9, <1>10

\* The share of somebody else that the request was found to be about.
LEMMA OthersShareIs ==
  ASSUME Consistent, NEW u, NEW x \in Shares, NEW a \in Accounts, NEW v \in Users,
         db[x].st = "live", db[x].account = a, db[x].user = v, db[x].level \in PermissionLevel,
         ~ (v = u /\ db[x].level = "owner")
  PROVE  OthersShare(db, u, a, v)
<1>1. x \in Held(db, a, v)
  BY DEF Held
<1>2. LevelIn(db, a, v) = db[x].level
  BY <1>1, SharesOfTables, LevelIs
<1>3. SharesIn(db)[a][v] = db[x].level
  BY <1>2 DEF SharesIn
<1> QED BY <1>3 DEF OthersShare, PermissionLevel

LEMMA RelevellingIsAccess ==
  ASSUME Consistent, Consistent', NEW r \in Reqs, NEW T, NEW N, Commits(r, T, N),
         Relevels(req[r].x, req[r].want, T, N)
  PROVE  \E a \in Accounts : AccessSays(db, db', req[r].by, a)
<1> DEFINE u == req[r].by  x == req[r].x  want == req[r].want  v == db[x].user
<1>1. PICK a \in Accounts, level \in ShareLevels :
        /\ x \in Shares /\ want = [level |-> level] /\ N = {}
        /\ T = {Statement("owner", a, None), Statement("share", x, a)} \cup Refusing(level)
  BY DEF Relevels
<1>2. u \in Users /\ \A s \in T : Verdict(r, s) = "ok"
  BY DEF Commits
<1>3. level \in Grantable
  BY <1>1, <1>2, LevelGranted
<1>4. OwnsIn(db, u, a)
  BY <1>1, <1>2, OwnerChecked
<1>5. db[x].st = "live" /\ db[x].account = a /\ ~ (v = u /\ db[x].level = "owner")
  BY <1>1, <1>2, ShareChecked
<1>6. DOMAIN want \subseteq {"st", "level"} /\ "st" \notin DOMAIN want
  BY <1>1
<1>7. /\ v \in Users /\ db[x].level \in PermissionLevel
      /\ db'[x].account = a /\ db'[x].user = v /\ db'[x].st = "live"
      /\ \A y \in Rows \ {x} : db'[y] = db[y]
      /\ AccountsIn(db') = AccountsIn(db)
  BY <1>1, <1>5, <1>6, ShareKeeps DEF Consistent
<1>8. db'[x].level = level
  BY <1>1 DEF Commits
<1>9. OthersShare(db, u, a, v)
  BY <1>1, <1>5, <1>7, OthersShareIs
<1> HIDE DEF u, x, want, v
<1>10. SharesIn(db') = [SharesIn(db) EXCEPT ![a][v] = level]
  <2>1. x \in Held(db', a, v)
    BY <1>1, <1>7 DEF Held
  <2>2. LevelIn(db', a, v) = level
    BY <1>7, <1>8, <2>1, SharesOfTables, LevelIs
  <2>3. \A p \in Shares \ {x} : db'[p] = db[p]
    BY <1>7 DEF Rows
  <2>4. db[x].user = v
    BY DEF v
  <2> QED BY <1>1, <1>5, <1>7, <2>2, <2>3, <2>4, OneShareChanges
<1>11. RelevelsIn(db, db', u, a, v, level)
  BY <1>4, <1>7, <1>9, <1>10 DEF RelevelsIn, ChangesShare
<1> QED BY <1>3, <1>7, <1>11 DEF AccessSays, u

LEMMA RevocationIsAccess ==
  ASSUME Consistent, Consistent', NEW r \in Reqs, NEW T, NEW N, Commits(r, T, N),
         Revokes(req[r].x, req[r].want, T, N)
  PROVE  \E a \in Accounts : AccessSays(db, db', req[r].by, a)
<1> DEFINE u == req[r].by  x == req[r].x  want == req[r].want  v == db[x].user
<1>1. PICK a \in Accounts :
        /\ x \in Shares /\ want = [st |-> "deleted"] /\ N = {}
        /\ T = {Statement("owner", a, None), Statement("share", x, a)}
  BY DEF Revokes
<1>2. u \in Users /\ \A s \in T : Verdict(r, s) = "ok"
  BY DEF Commits
<1>3. OwnsIn(db, u, a)
  BY <1>1, <1>2, OwnerChecked
<1>4. db[x].st = "live" /\ db[x].account = a /\ ~ (v = u /\ db[x].level = "owner")
  BY <1>1, <1>2, ShareChecked
<1>5. DOMAIN want \subseteq {"st", "level"}
  BY <1>1
<1>6. /\ v \in Users /\ db[x].level \in PermissionLevel
      /\ \A y \in Rows \ {x} : db'[y] = db[y]
      /\ AccountsIn(db') = AccountsIn(db)
  BY <1>1, <1>4, <1>5, ShareKeeps DEF Consistent
<1>7. db'[x].st = "deleted"
  BY <1>1 DEF Commits
<1>8. OthersShare(db, u, a, v)
  BY <1>1, <1>4, <1>6, OthersShareIs
<1> HIDE DEF u, x, want, v
<1>9. SharesIn(db') = [SharesIn(db) EXCEPT ![a][v] = "none"]
  <2>1. \A p \in Shares \ {x} : db'[p] = db[p]
    BY <1>6 DEF Rows
  <2>2. x \in Held(db, a, v)
    BY <1>1, <1>4 DEF Held, v
  <2>3. \A p \in Held(db', a, v) : p \in Held(db, a, v) /\ p # x
    BY <1>7, <2>1 DEF Held
  <2>4. Held(db', a, v) = {}
    BY <1>6, <2>2, <2>3, SharesOfTables DEF OneShare
  <2>5. LevelIn(db', a, v) = "none"
    BY <2>4 DEF LevelIn
  <2>6. db[x].account = a /\ db[x].user = v /\ x \in Shares /\ v \in Users
    BY <1>1, <1>4, <1>6 DEF v
  <2>7. db'[x].st # "live"
    BY <1>7
  <2> QED BY <2>1, <2>5, <2>6, <2>7, OneShareGoes
<1>10. RelevelsIn(db, db', u, a, v, "none")
  BY <1>3, <1>6, <1>8, <1>9 DEF RelevelsIn, ChangesShare
<1> QED BY <1>6, <1>10 DEF AccessSays, u

LEMMA IsolatedIsAccess ==
  ASSUME Consistent, Traced, Wished, Owned, Grounded, NEW r \in Reqs \ committed,
         CommitWrites(r), met[r] = {}, req[r].op \in Sharing
  PROVE  req[r].by \in Users /\ \E a \in Accounts : AccessSays(db, db', req[r].by, a)
<1> DEFINE q == req[r]
<1>1. PICK T, N : Commits(r, T, N) /\ Grounds(q.op, q.by, q.x, q.want, T, N)
  BY IsolatedCommit DEF Commits
<1>2. Consistent' /\ Typed
  BY CommitKeeps DEF Consistent
<1>8. q.by \in Users
  BY <1>1 DEF Commits
<1>3. CASE Creates(q.by, q.x, q.want, T, N)
  <2>1. CreatesIn(db, db', q.by, q.x) /\ q.x \in Accounts
    BY <1>1, <1>2, <1>3, CreationIsAccess DEF Creates
  <2> QED BY <1>1, <2>1 DEF AccessSays, Commits
<1>4. CASE Deletes(q.x, q.want, T, N)
  <2>1. DeletesIn(db, db', q.by, q.x) /\ q.x \in Accounts
    BY <1>1, <1>2, <1>4, DeletionIsAccess DEF Deletes
  <2> QED BY <1>1, <2>1 DEF AccessSays, Commits
<1>5. CASE SharesWith(q.x, q.want, T, N)
  BY <1>1, <1>2, <1>5, <1>8, SharingIsAccess
<1>6. CASE Relevels(q.x, q.want, T, N)
  BY <1>1, <1>2, <1>6, <1>8, RelevellingIsAccess
<1>7. CASE Revokes(q.x, q.want, T, N)
  BY <1>1, <1>2, <1>7, <1>8, RevocationIsAccess
<1> QED BY <1>1, <1>3, <1>4, <1>5, <1>6, <1>7 DEF Grounds

\* An account is created with its owner's share, deleted by its owner, and its
\* shares given, changed and revoked by who the table says owns it, as module
\* Access has it, by a handler that looks at the account and at the shares in
\* some statements and writes and commits in others: while a request meets no
\* other, nothing that it has looked at changes before it commits.
THEOREM IsolatedSharingIsAccess == Spec => IsolatedSharingFollowsAccess
<1> DEFINE A == \A r \in committed' \ committed : req[r].op \in Sharing /\ met[r] = {} =>
                  \E a \in Accounts :
                    \/ Access!CreateAccount(req[r].by, a)
                    \/ Access!DeleteAccount(req[r].by, a)
                    \/ \E v \in Users : Access!SharingStep(req[r].by, a, v)
<1>1. ASSUME Consistent, Traced, Wished, Owned, Grounded, [Next]_vars
      PROVE  A
  <2> SUFFICES ASSUME NEW r \in committed' \ committed, req[r].op \in Sharing, met[r] = {}
               PROVE  \E a \in Accounts :
                        \/ Access!CreateAccount(req[r].by, a)
                        \/ Access!DeleteAccount(req[r].by, a)
                        \/ \E v \in Users : Access!SharingStep(req[r].by, a, v)
    OBVIOUS
  <2>1. r \in Reqs \ committed /\ CommitWrites(r)
    BY <1>1, CommitsAre
  <2>2. req[r].by \in Users
    BY <1>1, <2>1, IsolatedIsAccess
  <2>3. PICK a \in Accounts : AccessSays(db, db', req[r].by, a)
    BY <1>1, <2>1, IsolatedIsAccess
  <2> WITNESS a \in Accounts
  <2> QED BY <2>2, <2>3, AccessIs
<1> HIDE DEF A
<1>2. Consistent /\ Traced /\ Wished /\ Owned /\ Grounded /\ [Next]_vars => [A]_vars
  BY <1>1
<1>3. IsolatedSharingFollowsAccess <=> [][A]_vars
  BY PTL DEF IsolatedSharingFollowsAccess, Sharing, A
<1>4. Init => Wished /\ Owned /\ Grounded
  <2> SUFFICES ASSUME Init
               PROVE  Wished /\ Owned /\ Grounded
    OBVIOUS
  <2>1. \A r \in Reqs : ~ Active(r)
    BY DEF Init, NewReq, Active
  <2>2. OwnersRecorded(db)
    BY OwnersAssumption DEF Init
  <2> QED BY <2>1, <2>2, InitGrounds DEF Wished, Owned
<1>5. Consistent /\ Traced /\ Wished /\ [Next]_vars => Wished'
  BY NextWishes
<1>6. Consistent /\ Traced /\ Owned /\ [Next]_vars => Owned'
  BY NextOwns
<1>7. Consistent /\ Traced /\ Grounded /\ [Next]_vars => Grounded'
  BY NextGrounds
<1> QED BY <1>2, <1>3, <1>4, <1>5, <1>6, <1>7, AlwaysTraced, PTL DEF Spec

-----------------------------------------------------------------------------
(***************************************************************************)
(* Deadlocks: what a request that waits for another has locked by then.    *)
(***************************************************************************)

\* The tables that requests remove rows from, and whose rows refer to no other.
Roots == Users \cup Types \cup Institutions

Holds(q) == q.locks # {} \/ DOMAIN q.writes # {}

\* Between the first statement that locks a row and the entry of the audit log
\* there is at most one more: the cascade of a removal, or the share that comes
\* with an account.  A handler for a user other than the acting one locks that
\* user's row against references only to remove it.
LocksFit(q) ==
  LET s == Head(q.todo) IN
  /\ Holds(q) /\ s.do \notin Ending => s.do \in {"cascade", "insert"}
  /\ s.do = "cascade" => q.locks \subseteq {<<s.x, "update">>}
  /\ s.do = "insert" /\ Holds(q) =>
       /\ s.x \in Shares /\ DOMAIN q.writes \subseteq Accounts
       /\ q.locks \subseteq Roots \X {"keyshare"}
  /\ \A u \in Users : <<u, "update">> \in q.locks => u = q.x /\ (q.op = "delete_user" \/ q.x = q.by)
  /\ q.x \in Users /\ {"email", "username"} \cap DOMAIN q.want # {} => q.x = q.by

LocksKnown == \A r \in Reqs \ committed : Active(r) => LocksFit(req[r])

LEMMA OthersLock ==
  ASSUME Consistent, LocksKnown, NEW r \in Reqs, \A q \in Reqs \ {r} : req'[q] = req[q],
         committed \subseteq committed', r \notin committed' /\ Active(r)' => LocksFit(req'[r])
  PROVE  LocksKnown'
BY DEF LocksKnown, Active, LocksFit, Holds

LEMMA AnsweredLocks ==
  ASSUME Consistent, LocksKnown, NEW r \in Reqs, NEW a, a # "pending", Proceed(r, Answered(r, a))
  PROVE  LocksKnown'
<1>1. /\ \A p \in Reqs \ {r} : req'[p] = req[p]
      /\ req'[r] = Answered(r, a) /\ committed' = committed
  BY DEF Proceed, Consistent, Typed
<1>2. r \notin committed' => ~ Active(r)'
  BY <1>1 DEF Answered, NewReq, Active
<1> QED BY <1>1, <1>2, OthersLock

\* Nobody asks for another user's email or username to be changed.
LEMMA OwnNames ==
  ASSUME Consistent, NEW r \in Reqs, Begin(r), Active(r)'
  PROVE  LET q == req'[r] IN
         q.x \in Users /\ {"email", "username"} \cap DOMAIN q.want # {} => q.x = q.by
<1> DEFINE Plainly == \E op, by, gate, x, want, plan :
             /\ gate # "pending" /\ Arrive(r, op, by, gate, x, want, plan)
             /\ x \notin Users \/ x = by \/ {"email", "username"} \cap DOMAIN want = {}
<1>1. SUFFICES Plainly
  BY ArrivedFor
<1>2. /\ \A u : CurrentUser(u) # "pending" /\ AdminUser(u) # "pending" /\ "ok" # "pending"
      /\ DOMAIN Nothing = {}
  BY GatesAnswer, NothingWritten
<1>3. \A x \in Rows \ Users : x \notin Users
  OBVIOUS
<1>4. Types \cup Institutions \cup Accounts \cup Cards \cup Shares \subseteq Rows \ Users
  BY KindsApart DEF Rows
<1>5. \A st : {"email", "username"} \cap DOMAIN [st |-> st] = {}
  OBVIOUS
<1>6. Register(r) \/ UpdateProfile(r) => Plainly
  BY <1>2 DEF Register, UpdateProfile
<1>7. Deactivate(r) \/ DeleteUser(r) => Plainly
  BY <1>2, <1>5 DEF Deactivate, DeleteUser
<1>8. ViewUser(r) \/ ListUsers(r) => Plainly
  BY <1>2 DEF ViewUser, ListUsers
<1>9. CreateType(r) => Plainly
  <2>1. FreshIn(Types) # {} => (CHOOSE x \in FreshIn(Types) : TRUE) \in Types
    BY FreshOnes DEF Rows
  <2> QED BY <1>2, <1>4, <2>1 DEF CreateType
<1>10. UpdateType(r) \/ DeleteType(r) => Plainly
  BY <1>2, <1>4 DEF UpdateType, DeleteType
<1>11. CreateInstitution(r) => Plainly
  <2>1. FreshIn(Institutions) # {} => (CHOOSE x \in FreshIn(Institutions) : TRUE) \in Institutions
    BY FreshOnes DEF Rows
  <2> QED BY <1>2, <1>4, <2>1 DEF CreateInstitution
<1>12. UpdateInstitution(r) \/ DeleteInstitution(r) => Plainly
  BY <1>2, <1>4 DEF UpdateInstitution, DeleteInstitution
<1>13. CreateAccount(r) => Plainly
  <2>1. FreshIn(Accounts) # {} => (CHOOSE x \in FreshIn(Accounts) : TRUE) \in Accounts
    BY FreshOnes DEF Rows
  <2> QED BY <1>2, <1>4, <2>1 DEF CreateAccount
<1>14. UpdateAccount(r) \/ DeleteAccount(r) => Plainly
  BY <1>2, <1>4 DEF UpdateAccount, DeleteAccount
<1>15. ShareAccount(r) => Plainly
  <2>1. FreshIn(Shares) # {} => (CHOOSE x \in FreshIn(Shares) : TRUE) \in Shares
    BY FreshOnes DEF Rows
  <2> QED BY <1>2, <1>4, <2>1 DEF ShareAccount
<1>16. UpdateShare(r) \/ RevokeShare(r) => Plainly
  BY <1>2, <1>4 DEF UpdateShare, RevokeShare
<1>17. CreateCard(r) => Plainly
  <2>1. FreshIn(Cards) # {} => (CHOOSE x \in FreshIn(Cards) : TRUE) \in Cards
    BY FreshOnes DEF Rows
  <2> QED BY <1>2, <1>4, <2>1 DEF CreateCard
<1>18. UpdateCard(r) \/ DeleteCard(r) => Plainly
  BY <1>2, <1>4 DEF UpdateCard, DeleteCard
<1> HIDE DEF Plainly
<1> QED BY <1>6, <1>7, <1>8, <1>9, <1>10, <1>11, <1>12, <1>13, <1>14, <1>15, <1>16, <1>17, <1>18
        DEF Begin

LEMMA BeginLocks ==
  ASSUME Consistent, LocksKnown, NEW r \in Reqs, Begin(r)
  PROVE  LocksKnown'
<1>1. PICK op, by, gate, x, want, new, plan : Arrives(r, op, by, gate, x, want, new, plan)
  BY BeginArrives DEF Arrival
<1>2. /\ \A p \in Reqs \ {r} : req'[p] = req[p]
      /\ req'[r].writes = Nothing /\ req'[r].locks = {} /\ committed' = committed
  BY <1>1, ArrivedIs
<1>3. ~ Holds(req'[r])
  BY <1>2, NothingWritten DEF Holds
<1>4. Active(r)' => LocksFit(req'[r])
  BY <1>2, <1>3, OwnNames DEF LocksFit
<1> QED BY <1>2, <1>4, OthersLock

LEMMA ReadLocks ==
  ASSUME Consistent, LocksKnown, NEW r \in Reqs, Read(r)
  PROVE  LocksKnown'
<1> DEFINE s == Now(r)
           q == [req[r] EXCEPT !.todo = Tail(@),
                   !.read = IF s.do \in Loading THEN Over(@, Only(s.x, db[s.x])) ELSE @]
<1>1. Active(r) /\ s.do \in Checks /\ IsReq(req[r]) /\ req[r].todo # << >>
  BY DEF Consistent, Typed, IsReq, Active, Read, At
<1>2. StatementFits(s) /\ s = Head(req[r].todo)
  BY <1>1, RestFits DEF Now, IsReq
<1>3. CASE Verdict(r, s) # "ok"
  BY <1>1, <1>2, <1>3, VerdictEnds, AnsweredLocks DEF Read
<1>4. CASE Verdict(r, s) = "ok"
  <2>1. /\ q.writes = req[r].writes /\ q.locks = req[r].locks
        /\ q.x = req[r].x /\ q.want = req[r].want /\ q.op = req[r].op /\ q.by = req[r].by
    BY <1>1 DEF IsReq, NewReq
  <2>2. Proceed(r, q)
    BY <1>4 DEF Read
  <2> HIDE DEF q
  <2>3. (\A p \in Reqs \ {r} : req'[p] = req[p]) /\ req'[r] = q /\ committed' = committed
    BY <2>2 DEF Proceed, Consistent, Typed
  <2>4. ASSUME r \notin committed
        PROVE  LocksFit(q)
    <3>1. LocksFit(req[r])
      BY <1>1, <2>4 DEF LocksKnown
    <3>2. ~ Holds(req[r])
      BY <1>1, <1>2, <3>1, ChecksApart DEF LocksFit
    <3>3. ~ Holds(q) /\ q.locks = {}
      BY <2>1, <3>2 DEF Holds
    <3> QED BY <2>1, <3>1, <3>3 DEF LocksFit
  <2> QED BY <2>3, <2>4, OthersLock
<1> QED BY <1>3, <1>4

\* What a statement locks.
LEMMA WantedIs ==
  ASSUME Consistent, NEW r \in Reqs, At(r, Writes)
  PROVE  LET s == Now(r) IN
         /\ s.do = "audit" => Wanted(r, s) = {<<req[r].by, "keyshare">>} /\ NewKeys(r, s) = {}
         /\ s.do = "insert" =>
              /\ Wanted(r, s) \subseteq Refs(s.x, s.arg) \X {"keyshare"}
              /\ NewKeys(r, s) \subseteq Keys(s.x, s.arg)
         /\ s.do = "cascade" => Wanted(r, s) \subseteq (Rows \ Roots) \X Modes /\ NewKeys(r, s) = {}
         /\ s.do = "erase" => Wanted(r, s) \subseteq {<<s.x, "update">>}
         /\ s.do = "update" =>
              \A u \in Users : <<u, "update">> \in Wanted(r, s) =>
                u = s.x /\ {"email", "username"} \cap DOMAIN s.arg # {}
<1> DEFINE s == Now(r)  E == Effect(r, s)
<1>1. IsReq(req[r]) /\ req[r].todo # << >> /\ Typed
  BY DEF Consistent, Typed, IsReq, Active, At
<1>2. StatementFits(s) /\ s.do \in Writes
  BY <1>1, RestFits DEF IsReq, Now, At
<1>3. RowsOf(r, s)
  BY EffectFits
<1> HIDE DEF s
<1>4. /\ NewKeys(r, s) = UNION {Keys(y, E[y]) \ Keys(y, db[y]) : y \in DOMAIN E}
      /\ s.do # "audit" => NewRefs(r, s) = UNION {Refs(y, E[y]) \ Refs(y, db[y]) : y \in DOMAIN E}
      /\ Wanted(r, s) = {<<z, "keyshare">> : z \in NewRefs(r, s)}
            \cup (IF s.do = "insert" THEN {} ELSE {<<y, RowMode(r, s)>> : y \in DOMAIN E})
  BY DEF NewKeys, NewRefs, Wanted
<1>5. /\ s.do = "insert" => DOMAIN E = {s.x} /\ E[s.x] = s.arg
      /\ s.do = "update" => DOMAIN E \subseteq {s.x}
      /\ s.do = "erase" => DOMAIN E \subseteq {s.x}
      /\ s.do = "erase" /\ DOMAIN E # {} => E[s.x] = Gone
      /\ s.do = "cascade" =>
           DOMAIN E = Dependents(s.x) /\ \A y \in Dependents(s.x) : E[y] = LeftBy(y)
      /\ s.do = "audit" => DOMAIN E = {}
  BY EffectIs
<1> HIDE DEF E
<1>6. CASE s.do = "audit"
  <2>1. NewRefs(r, s) = {req[r].by}
    BY <1>6 DEF NewRefs
  <2> QED BY <1>4, <1>5, <1>6, <2>1 DEF s
<1>7. CASE s.do = "insert"
  BY <1>4, <1>5, <1>7 DEF s
<1>8. CASE s.do = "cascade"
  <2>1. s.x \in Roots
    BY <1>2, <1>8 DEF StatementFits, Roots
  <2>2. \A y \in Dependents(s.x) :
          /\ y \in Rows \ Roots /\ Keys(y, LeftBy(y)) = {}
          /\ Refs(y, LeftBy(y)) \ Refs(y, db[y]) = {}
    <3> SUFFICES ASSUME NEW y \in Dependents(s.x)
                 PROVE  /\ y \in Rows \ Roots /\ Keys(y, LeftBy(y)) = {}
                        /\ Refs(y, LeftBy(y)) \ Refs(y, db[y]) = {}
      OBVIOUS
    <3>1. /\ y \in Rows \ Roots /\ IsRow(db[y]) /\ Keys(y, LeftBy(y)) = {}
          /\ s.x \in Users => LeftBy(y) = Gone
          /\ s.x \notin Users => y \in Cards /\ Refs(y, LeftBy(y)) = {db[y].account}
      BY <1>1, <2>1, DependentsFit DEF Roots
    <3>2. CASE s.x \in Users
      BY <3>1, <3>2, StatesApart, NoRowNothing
    <3>3. CASE s.x \notin Users
      <4>1. db[y].account \in Accounts /\ Refs(y, db[y]) = {db[y].account, db[y].inst} \ {None}
        BY <1>1, <3>1, <3>3, ReferencesOf DEF Typed
      <4>2. db[y].account # None
        BY <4>1, KindsApart DEF Rows
      <4> QED BY <3>1, <3>3, <4>1, <4>2
    <3> QED BY <3>2, <3>3
  <2>3. NewRefs(r, s) = {} /\ NewKeys(r, s) = {}
    BY <1>4, <1>5, <1>8, <2>2
  <2>4. RowMode(r, s) \in Modes
    BY <1>8 DEF RowMode, Modes
  <2>5. Wanted(r, s) \subseteq (Rows \ Roots) \X Modes
    BY <1>4, <1>5, <1>8, <2>2, <2>3, <2>4
  <2> QED BY <1>8, <2>3, <2>5 DEF s
<1>9. CASE s.do = "erase"
  <2>1. NewRefs(r, s) = {}
    BY <1>4, <1>5, <1>9, StatesApart, NoRowNothing
  <2>2. RowMode(r, s) = "update"
    BY <1>9 DEF RowMode
  <2>3. Wanted(r, s) \subseteq {<<s.x, "update">>}
    BY <1>4, <1>5, <1>9, <2>1, <2>2
  <2> QED BY <1>9, <2>3 DEF s
<1>10. CASE s.do = "update"
  <2>1. RowMode(r, s) = "update" => {"email", "username"} \cap DOMAIN Changes(r, s) # {}
    BY <1>10 DEF RowMode
  <2>2. DOMAIN Changes(r, s) \subseteq DOMAIN s.arg
    BY DEF Changes
  <2>3. ASSUME NEW u, <<u, "update">> \in Wanted(r, s)
        PROVE  u = s.x /\ {"email", "username"} \cap DOMAIN s.arg # {}
    <3>1. PICK y \in DOMAIN E : u = y /\ RowMode(r, s) = "update"
      BY <1>4, <1>10, <2>3
    <3> QED BY <1>5, <1>10, <2>1, <2>2, <3>1
  <2> QED BY <1>10, <2>3 DEF s
<1> QED BY <1>2, <1>6, <1>7, <1>8, <1>9, <1>10 DEF Writes, s

LEMMA WriteLocks ==
  ASSUME Consistent, Traced, LocksKnown, NEW r \in Reqs, Write(r)
  PROVE  LocksKnown'
<1> DEFINE s == Now(r)  q == Wrote(r)
<1>1. Active(r) /\ At(r, Writes) /\ IsReq(req[r]) /\ req[r].todo # << >> /\ PlanFits(req[r].todo)
  BY DEF Consistent, Typed, IsReq, Active, Write, At
<1>2. s.do \in Writes /\ StatementFits(s) /\ s = Head(req[r].todo)
  BY <1>1, RestFits DEF At, Now
<1>3. CASE Violates(r, s)
  BY <1>3, AnsweredLocks DEF Write
<1>4. CASE ~ Violates(r, s)
  <2>1. Proceed(r, q)
    BY <1>4 DEF Write, Wrote
  <2>2. (\A p \in Reqs \ {r} : req'[p] = req[p]) /\ req'[r] = q /\ committed' = committed
    BY <2>1 DEF Proceed, Consistent, Typed
  <2>3. /\ q.todo = Tail(req[r].todo) /\ q.todo # << >> /\ PlanFits(q.todo)
        /\ DOMAIN q.writes = DOMAIN Effect(r, s) \cup DOMAIN req[r].writes
        /\ q.locks = req[r].locks \cup Wanted(r, s) /\ q.by = req[r].by
    BY <1>1, WroteIs
  <2>4. q.op = req[r].op /\ q.x = req[r].x /\ q.want = req[r].want
    BY <1>1 DEF IsReq, NewReq, Wrote
  <2>5. /\ s.do = "audit" => Wanted(r, s) = {<<req[r].by, "keyshare">>}
        /\ s.do = "insert" => Wanted(r, s) \subseteq Refs(s.x, s.arg) \X {"keyshare"}
        /\ s.do = "cascade" => Wanted(r, s) \subseteq (Rows \ Roots) \X Modes
        /\ s.do = "erase" => Wanted(r, s) \subseteq {<<s.x, "update">>}
        /\ s.do = "update" =>
             \A u \in Users : <<u, "update">> \in Wanted(r, s) =>
               u = s.x /\ {"email", "username"} \cap DOMAIN s.arg # {}
    BY <1>1, WantedIs
  <2>6. s.do = "insert" => DOMAIN Effect(r, s) = {s.x}
    BY EffectIs
  <2> DEFINE n == Head(q.todo)
  <2>7. /\ n.do \notin Ending => n.do \in {"insert", "cascade"}
        /\ n.do = "insert" => s.do = "insert" /\ s.x \in Accounts /\ n.x \in Shares
        /\ n.do = "cascade" => s.do = "erase" /\ n.x = s.x
    <3>1. Len(q.todo) \in Nat \ {0} /\ n = q.todo[1]
      BY <2>3, RestFits
    <3>2. PICK p : p = req[r].todo
      OBVIOUS
    <3>3. /\ s = p[1]
          /\ \A i \in 1 .. Len(q.todo) : q.todo[i] = p[i + 1] /\ Follows(p, 1, i + 1)
      BY <1>1, <1>2, <2>3, <3>2, RestFits
    <3>4. n = p[1 + 1] /\ Follows(p, 1, 1 + 1)
      BY <3>1, <3>3
    <3> QED BY <1>2, <3>3, <3>4 DEF Follows, Writes, Ending
  <2> HIDE DEF q, s, n
  <2>8. ASSUME r \notin committed
        PROVE  LocksFit(q)
    <3>1. LocksFit(req[r]) /\ RestServes(r)
      BY <1>1, <2>8 DEF LocksKnown, Traced, Traces
    <3>2. StatementOf(req[r].op, req[r].x, req[r].want, s)
      BY <1>1, <1>2, <3>1, RestOf DEF RestServes
    <3>3. n.do = "cascade" => q.locks \subseteq {<<n.x, "update">>}
      <4> SUFFICES ASSUME n.do = "cascade" PROVE q.locks \subseteq {<<n.x, "update">>}
        OBVIOUS
      <4>1. s.do = "erase" /\ n.x = s.x
        BY <2>7
      <4>2. req[r].locks = {}
        BY <1>2, <3>1, <4>1 DEF LocksFit, Holds, Ending
      <4> QED BY <2>3, <2>5, <4>1, <4>2
    <3>4. n.do = "insert" =>
            /\ n.x \in Shares /\ DOMAIN q.writes \subseteq Accounts
            /\ q.locks \subseteq Roots \X {"keyshare"}
      <4> SUFFICES ASSUME n.do = "insert"
                   PROVE  /\ n.x \in Shares /\ DOMAIN q.writes \subseteq Accounts
                          /\ q.locks \subseteq Roots \X {"keyshare"}
        OBVIOUS
      <4>1. s.do = "insert" /\ s.x \in Accounts /\ n.x \in Shares
        BY <2>7
      <4>2. ~ Holds(req[r])
        BY <1>2, <3>1, <4>1, KindsApart DEF LocksFit
      <4>3. req[r].locks = {} /\ DOMAIN req[r].writes = {}
        BY <4>2 DEF Holds
      <4>4. Refs(s.x, s.arg) \subseteq Roots
        <5>1. s.x \in Rows /\ IsRow(s.arg) /\ RowFits(s.x, s.arg)
          BY <1>2, <4>1 DEF StatementFits
        <5> QED BY <4>1, <5>1, ReferencesOf DEF Roots
      <4> QED BY <2>3, <2>5, <2>6, <4>1, <4>3, <4>4
    <3>5. ASSUME NEW u \in Users, <<u, "update">> \in q.locks
          PROVE  u = q.x /\ (q.op = "delete_user" \/ q.x = q.by)
      <4>1. CASE <<u, "update">> \in req[r].locks
        BY <2>3, <2>4, <3>1, <4>1 DEF LocksFit
      <4>2. CASE <<u, "update">> \in Wanted(r, s)
        <5>1. s.do \notin {"audit", "insert"}
          BY <2>5, <4>2
        <5>2. s.do # "cascade"
          BY <2>5, <4>2 DEF Roots
        <5>3. CASE s.do = "erase"
          BY <2>4, <2>5, <3>2, <4>2, <5>3 DEF StatementOf
        <5>4. CASE s.do = "update"
          <6>1. u = s.x /\ {"email", "username"} \cap DOMAIN s.arg # {}
            BY <2>5, <4>2, <5>4
          <6>2. s.x = q.x /\ s.arg = req[r].want
            BY <2>4, <3>2, <5>4 DEF StatementOf
          <6> QED BY <2>3, <2>4, <3>1, <6>1, <6>2 DEF LocksFit
        <5> QED BY <1>2, <5>1, <5>2, <5>3, <5>4 DEF Writes
      <4> QED BY <2>3, <3>5, <4>1, <4>2
    <3>6. q.x \in Users /\ {"email", "username"} \cap DOMAIN q.want # {} => q.x = q.by
      BY <2>3, <2>4, <3>1 DEF LocksFit
    <3> QED BY <2>7, <3>3, <3>4, <3>5, <3>6 DEF LocksFit, n
  <2> QED BY <2>2, <2>8, OthersLock
<1> QED BY <1>3, <1>4

LEMMA NextLocks ==
  ASSUME Consistent, Traced, LocksKnown, [Next]_vars
  PROVE  LocksKnown'
<1>1. ASSUME NEW r \in Reqs, Begin(r)
      PROVE  LocksKnown'
  BY <1>1, BeginLocks
<1>2. ASSUME NEW r \in Reqs, Step(r)
      PROVE  LocksKnown'
  <2>1. CASE Read(r)
    BY <2>1, ReadLocks
  <2>2. CASE Write(r)
    BY <2>2, WriteLocks
  <2>3. CASE CommitWrites(r)
    <3>1. (\A p \in Reqs \ {r} : req'[p] = req[p]) /\ committed' = committed \cup {r}
      BY <2>3 DEF CommitWrites, Consistent, Typed
    <3> QED BY <3>1, OthersLock
  <2> QED BY <1>2, <2>1, <2>2, <2>3 DEF Step
<1>3. ASSUME NEW r \in Reqs, Fail(r) \/ BreakDeadlock(r)
      PROVE  LocksKnown'
  BY <1>3, AnsweredLocks DEF Fail, BreakDeadlock
<1>4. CASE UNCHANGED vars
  BY <1>4 DEF vars, LocksKnown, Active
<1> QED BY <1>1, <1>2, <1>3, <1>4 DEF Next

(***************************************************************************)
(* The rings.                                                              *)
(***************************************************************************)
Waiting == {e \in Reqs \X Reqs : Blocks(e[1], e[2])}

RingOf(r) == Ring(Reqs, Waiting, r)

LEMMA CycleIsWaiting ==
  ASSUME NEW r \in Reqs
  PROVE  /\ \A q \in Reqs : <<q, r>> \in Waiting <=> Blocks(q, r)
         /\ InCycle(r) => r \in Waits(Reqs, Waiting, r)
         /\ r \in Waits(Reqs, Waiting, r) => InCycle(r)
<1>1. \A x, y \in Reqs : <<y, x>> \in Waiting <=> Blocks(y, x)
  BY DEF Waiting
<1>2. \A S \in SUBSET Reqs :
        Closed(Reqs, Waiting, S, r) <=> \A x \in S \cup {r}, y \in Reqs : Blocks(y, x) => y \in S
  BY <1>1 DEF Closed
<1>3. WaitsForItself(r) <=> r \in Waits(Reqs, Waiting, r)
  BY <1>2 DEF WaitsForItself, Waits
<1>4. ASSUME r \in Waits(Reqs, Waiting, r)
      PROVE  \E q \in Reqs : Blocks(q, r)
  <2>1. PICK q \in Ring(Reqs, Waiting, r) : <<q, r>> \in Waiting
    BY <1>4, NextInRing
  <2> QED
    BY <1>1, <2>1 DEF Ring, Waits
<1>5. InCycle(r) <=> (\E q \in Reqs : Blocks(q, r)) /\ WaitsForItself(r)
  BY DEF InCycle, Granted
<1> QED
  BY <1>1, <1>3, <1>4, <1>5

LEMMA RingIsOne ==
  ASSUME NEW r \in Reqs, InCycle(r), NEW q \in RingOf(r)
  PROVE  /\ q \in Reqs /\ InCycle(q) /\ RingOf(q) = RingOf(r) /\ r \in RingOf(r)
         /\ \E y \in RingOf(r) : Blocks(y, q)
         /\ \E x \in RingOf(r) : Blocks(q, x)
<1>1. r \in Waits(Reqs, Waiting, r)
  BY CycleIsWaiting
<1>2. /\ q \in Reqs /\ q \in Waits(Reqs, Waiting, q) /\ r \in RingOf(r) /\ RingOf(q) = RingOf(r)
      /\ \A x \in RingOf(r) : x \in Reqs
  BY <1>1, OneRing DEF RingOf
<1>3. (\E y \in RingOf(r) : <<y, q>> \in Waiting) /\ (\E x \in RingOf(r) : <<q, x>> \in Waiting)
  BY <1>2, NextInRing DEF RingOf
<1> QED
  BY <1>2, <1>3, CycleIsWaiting

\* A request in a ring waits at its second statement that locks, and has made
\* the first.
Stuck(q) ==
  /\ At(q, {"audit", "cascade", "insert"}) /\ Holds(req[q])
  /\ q \in Reqs \ committed /\ LocksFit(req[q]) /\ RestServes(q)
  /\ StatementFits(Now(q)) /\ StatementOf(req[q].op, req[q].x, req[q].want, Now(q))
  /\ Unwritten(req[q]) /\ req[q].by \in Users

LEMMA RingIsStuck ==
  ASSUME Consistent, Traced, LocksKnown, NEW r \in Reqs, InCycle(r), NEW q \in RingOf(r)
  PROVE  Stuck(q)
<1>1. q \in Reqs /\ InCycle(q) /\ q \notin committed
  BY RingIsOne, CommittedNotInCycle
<1>2. At(q, Writes) /\ Holds(req[q])
  BY RingIsOne DEF Blocks, Clash, Holds
<1>3. Active(q) /\ LocksFit(req[q]) /\ RestServes(q) /\ req[q].by \in Users
  BY <1>1, <1>2 DEF At, LocksKnown, Traced, Traces, Consistent, Typed
<1>4. IsReq(req[q]) /\ req[q].todo # << >> /\ PlanFits(req[q].todo) /\ Unwritten(req[q])
  BY <1>1, <1>3 DEF Consistent, Typed, IsReq, Active
<1>5. StatementFits(Now(q)) /\ StatementOf(req[q].op, req[q].x, req[q].want, Now(q))
  BY <1>3, <1>4, RestFits, RestOf DEF Now, RestServes
<1>6. Now(q).do \in {"audit", "cascade", "insert"}
  BY <1>2, <1>3 DEF LocksFit, Now, At, Writes, Ending
<1> QED BY <1>1, <1>2, <1>3, <1>4, <1>5, <1>6 DEF Stuck, At

LEMMA KeyshareConflicts ==
  \A a \in Modes : {"keyshare", a} \in Conflict \/ {a, "keyshare"} \in Conflict => a = "update"
BY DEF Modes, Conflict

\* Nobody in a ring waits for the creation of an account.
LEMMA CreationsAreNotWaitedFor ==
  ASSUME Consistent, NEW p, NEW z, Stuck(p), Stuck(z), Blocks(p, z)
  PROVE  Now(p).do # "insert"
<1> SUFFICES ASSUME Now(p).do = "insert" PROVE FALSE
  OBVIOUS
<1>1. /\ p \in Reqs /\ z \in Reqs /\ At(z, Writes)
      /\ Now(z).do \in {"audit", "cascade", "insert"}
  BY DEF Stuck, At, Writes
<1>2. DOMAIN req[p].writes \subseteq Accounts /\ req[p].locks \subseteq Roots \X {"keyshare"}
  BY DEF Stuck, LocksFit, Now
<1> DEFINE s == Now(z)
<1>3. /\ s.do = "audit" => Wanted(z, s) = {<<req[z].by, "keyshare">>} /\ NewKeys(z, s) = {}
      /\ s.do = "insert" =>
           /\ Wanted(z, s) \subseteq Refs(s.x, s.arg) \X {"keyshare"}
           /\ NewKeys(z, s) \subseteq Keys(s.x, s.arg)
      /\ s.do = "cascade" => Wanted(z, s) \subseteq (Rows \ Roots) \X Modes /\ NewKeys(z, s) = {}
  BY <1>1, WantedIs
<1> HIDE DEF s
<1>4. ~ \E w \in Wanted(z, s), l \in req[p].locks : w[1] = l[1] /\ {w[2], l[2]} \in Conflict
  <2> SUFFICES ASSUME NEW w \in Wanted(z, s), NEW l \in req[p].locks, w[1] = l[1],
                      {w[2], l[2]} \in Conflict
               PROVE  FALSE
    OBVIOUS
  <2>1. l[1] \in Roots /\ l[2] = "keyshare"
    BY <1>2
  <2>2. s.do # "cascade"
    BY <1>3, <2>1
  <2>3. w[2] = "keyshare"
    BY <1>1, <1>3, <2>2 DEF s
  <2> QED BY <2>1, <2>3 DEF Conflict
<1>5. Clash(p, z)
  BY <1>4 DEF Blocks, s
<1>6. PICK y \in DOMAIN req[p].writes :
        NewKeys(z, s) \cap (Keys(y, db[y]) \cup Keys(y, req[p].writes[y])) # {}
  BY <1>5 DEF Clash, s
<1>7. s.do = "insert"
  BY <1>1, <1>3, <1>6 DEF s
<1>8. s.x \in Shares
  BY <1>7 DEF Stuck, LocksFit, Now, s
<1>9. \A k \in Keys(s.x, s.arg) : k = <<"share", s.arg.account, s.arg.user>>
  BY <1>8, KindsApart DEF Keys, ShareKeys
<1>10. y \in Accounts
  BY <1>2
<1>11. \A row : \A k \in Keys(y, row) : k = <<"name", row.owner, row.name>>
  BY <1>10, KindsApart DEF Keys, AccountKeys
<1>12. PICK k \in NewKeys(z, s) : k \in Keys(y, db[y]) \/ k \in Keys(y, req[p].writes[y])
  BY <1>6
<1>13. k[1] = "share" /\ k[1] = "name"
  BY <1>3, <1>7, <1>9, <1>11, <1>12
<1> QED BY <1>13

\* The entry of a request waits for the removal of the user it acts for, or for
\* that user's own request, which waits for the removal.
LEMMA EntryWaits ==
  ASSUME Consistent, NEW q, NEW p, Stuck(q), Stuck(p), Blocks(q, p), Now(p).do = "audit"
  PROVE  <<req[p].by, "update">> \in req[q].locks
<1>1. p \in Reqs /\ At(p, Writes)
  BY DEF Stuck, At, Writes
<1>2. Wanted(p, Now(p)) = {<<req[p].by, "keyshare">>} /\ NewKeys(p, Now(p)) = {}
  BY <1>1, WantedIs
<1>3. ~ Clash(q, p)
  BY <1>2 DEF Clash
<1>4. PICK l \in req[q].locks : req[p].by = l[1] /\ {"keyshare", l[2]} \in Conflict
  BY <1>2, <1>3 DEF Blocks
<1>5. l \in Rows \X Modes
  BY DEF Stuck, Consistent, Typed, IsReq
<1>6. l[2] = "update"
  BY <1>4, <1>5, KeyshareConflicts
<1>7. l = <<l[1], l[2]>>
  BY <1>5
<1> QED BY <1>4, <1>6, <1>7

RemovesUserOf(q, r) == req[q].op = "delete_user" /\ req[q].x = req[r].by

LEMMA StuckOverRemoval ==
  ASSUME Consistent, Traced, LocksKnown, NEW r \in Reqs, InCycle(r)
  PROVE  \E q \in RingOf(r) \ {r} : RemovesUserOf(q, r) \/ RemovesUserOf(r, q)
<1>1. r \in RingOf(r)
  BY CycleIsWaiting DEF RingOf, Ring
<1>2. PICK q \in RingOf(r) : Blocks(q, r)
  BY <1>1, RingIsOne
<1>3. PICK z \in RingOf(r) : Blocks(r, z)
  BY <1>1, RingIsOne
<1>4. Stuck(r) /\ Stuck(q) /\ Stuck(z)
  BY <1>1, RingIsStuck
<1>5. q # r /\ z # r /\ Now(r).do \in {"audit", "cascade"}
  <2>1. q # r /\ z # r
    BY <1>2, <1>3 DEF Blocks
  <2>2. Now(r).do # "insert"
    BY <1>3, <1>4, CreationsAreNotWaitedFor
  <2> QED BY <1>4, <2>1, <2>2 DEF Stuck, At
<1>6. CASE Now(r).do = "audit"
  <2>1. req[r].by \in Users /\ <<req[r].by, "update">> \in req[q].locks
    BY <1>2, <1>4, <1>6, EntryWaits DEF Stuck
  <2>2. req[r].by = req[q].x /\ (req[q].op = "delete_user" \/ req[q].x = req[q].by)
    BY <1>4, <2>1 DEF Stuck, LocksFit
  <2>3. req[q].op = "delete_user"
    <3> SUFFICES ASSUME req[q].op # "delete_user" PROVE FALSE
      OBVIOUS
    <3>1. PICK x \in RingOf(r) : Blocks(q, x)
      BY RingIsOne
    <3>2. Stuck(x)
      BY RingIsStuck
    <3>3. Now(q).do # "insert"
      BY <1>4, <3>1, <3>2, CreationsAreNotWaitedFor
    <3>4. Now(q).do # "cascade"
      BY <1>4, <2>1, <2>2 DEF Stuck, StatementOf
    <3>5. Now(q).do = "audit"
      BY <1>4, <3>3, <3>4 DEF Stuck, At
    <3>6. PICK y \in RingOf(r) : Blocks(y, q)
      BY RingIsOne
    <3>7. Stuck(y)
      BY RingIsStuck
    <3>8. <<req[q].by, "update">> \in req[y].locks
      BY <1>4, <3>5, <3>6, <3>7, EntryWaits
    <3>9. req[q].by = req[r].by
      BY <2>2
    <3>10. y # q /\ y \in Reqs /\ q \in Reqs
      BY <1>4, <3>6, <3>7 DEF Blocks, Stuck
    <3>11. LocksApart(y, q)
      BY <3>10 DEF Consistent, Apart
    <3>12. {"update", "update"} \notin Conflict
      <4> DEFINE k == <<req[q].by, "update">>
      <4>1. k \in req[y].locks /\ k \in req[q].locks /\ k[2] = "update"
        BY <2>1, <3>8, <3>9
      <4> QED BY <3>11, <4>1 DEF LocksApart
    <3> QED BY <3>12 DEF Conflict
  <2> QED BY <1>2, <1>5, <2>2, <2>3 DEF RemovesUserOf
<1>7. CASE Now(r).do = "cascade"
  <2>1. req[r].locks \subseteq {<<Now(r).x, "update">>} /\ DOMAIN req[r].writes \subseteq {Now(r).x}
    <3>1. req[r].todo # << >> /\ PlanFits(req[r].todo)
      BY <1>4 DEF Stuck, At, Active, Consistent, Typed, IsReq
    <3>2. Len(req[r].todo) \in Nat \ {0} /\ Now(r) = req[r].todo[1]
      BY <3>1, RestFits DEF Now
    <3> QED BY <1>4, <1>7, <3>2 DEF Stuck, LocksFit, Unwritten, Now
  <2>2. Now(r).x \in Roots /\ Now(r).x = req[r].x
    BY <1>4, <1>7 DEF Stuck, StatementFits, StatementOf, Roots
  <2>3. Now(z).do # "insert"
    <3>1. PICK x \in RingOf(r) : Blocks(z, x)
      BY RingIsOne
    <3> QED BY <1>4, <3>1, RingIsStuck, CreationsAreNotWaitedFor
  <2>4. z \in Reqs /\ At(z, Writes)
    BY <1>4 DEF Stuck, At, Writes
  <2>5. Now(z).do # "cascade"
    <3> SUFFICES ASSUME Now(z).do = "cascade" PROVE FALSE
      OBVIOUS
    <3>1. Wanted(z, Now(z)) \subseteq (Rows \ Roots) \X Modes /\ NewKeys(z, Now(z)) = {}
      BY <2>4, WantedIs
    <3>2. ~ Clash(r, z)
      BY <3>1 DEF Clash
    <3>3. PICK w \in Wanted(z, Now(z)), l \in req[r].locks : w[1] = l[1]
      BY <1>3, <3>2 DEF Blocks
    <3>4. w[1] \notin Roots
      BY <3>1
    <3>5. l[1] = Now(r).x
      BY <2>1
    <3> QED BY <2>2, <3>3, <3>4, <3>5
  <2>6. Now(z).do = "audit"
    BY <1>4, <2>3, <2>5 DEF Stuck, At
  <2>7. <<req[z].by, "update">> \in req[r].locks
    BY <1>3, <1>4, <2>6, EntryWaits
  <2>8. req[z].by = req[r].x
    BY <2>1, <2>2, <2>7
  <2>9. req[z].by \in Users
    BY <1>4 DEF Stuck
  <2>10. req[r].op = "delete_user"
    BY <1>4, <1>7, <2>8, <2>9 DEF Stuck, StatementOf
  <2> QED BY <1>3, <1>5, <2>8, <2>10 DEF RemovesUserOf
<1> QED BY <1>5, <1>6, <1>7

\* However the requests on users, catalogue, accounts, shares and cards overlap,
\* whoever waits in a ring is removing the user that another in the ring acts
\* for, or acts for a user that another in it removes.
THEOREM DeadlocksAreOverRemovals == Spec => []DeadlocksExplained
<1>1. Consistent /\ Traced /\ LocksKnown => DeadlocksExplained
  <2> SUFFICES ASSUME Consistent, Traced, LocksKnown, NEW r \in Reqs, InCycle(r)
               PROVE  \E q \in {x \in Reqs : InCycle(x)} \ {r} : RemovesUserOf(q, r) \/ RemovesUserOf(r, q)
    BY DEF DeadlocksExplained, RemovesUserOf
  <2>1. PICK q \in RingOf(r) \ {r} : RemovesUserOf(q, r) \/ RemovesUserOf(r, q)
    BY StuckOverRemoval
  <2>2. q \in Reqs /\ InCycle(q)
    BY RingIsOne
  <2> QED BY <2>1, <2>2
<1>2. Init => LocksKnown
  BY DEF Init, LocksKnown, Active, NewReq
<1> QED BY <1>1, <1>2, NextLocks, AlwaysTraced, PTL DEF Spec

=============================================================================
