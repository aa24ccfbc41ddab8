----------------------------- MODULE MCRequests -----------------------------
(* Model values and bounds for TLC.                                        *)
EXTENDS TransactionRequests, TLC

CONSTANTS t1, t2, t3, t4, t5, t6, t7

ReqSymmetry == Permutations(Reqs)

MCAmounts == {1, 2}

Split(a, b) == [t \in Txns |-> CASE t = t1 -> Row(a + b, NoTxn)
                                 [] t = t2 -> Row(a, t1)
                                 [] t = t3 -> Row(b, t1)
                                 [] OTHER -> NoRow]

\* A row split in two equal parts, or in two different ones.
MCSplit == {Split(1, 1), Split(2, 1)}

\* Two rows that are no parts.
MCPlain == {[t \in Txns |-> CASE t = t1 -> Row(2, NoTxn)
                              [] t = t2 -> Row(1, NoTxn)
                              [] OTHER -> NoRow]}

=============================================================================
