------------------------------ MODULE MCLedger ------------------------------
(* Model values and bounds for TLC.                                        *)
EXTENDS Queries, TLC

\* Integer constants a cfg cannot write.
MCAmounts == {1, 2}
MCOpenings == {0}

MCFilters == [acct : Accounts \cup {NoAccount}, least : {1, 2}, most : {2}]

\* Row identities are interchangeable: UUIDs, compared for equality only.
RowSymmetry == Permutations(Txns)

=============================================================================
