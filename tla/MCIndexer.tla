----------------------------- MODULE MCIndexer -----------------------------
EXTENDS IncrementalIndexer

CONSTANTS Quiet, Deposit, Withdrawal, V13, V14

MCSelectors == [v \in Versions |-> IF v = V13 THEN {Deposit} ELSE {Deposit, Withdrawal}]
=============================================================================
