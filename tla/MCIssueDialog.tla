----------------------------- MODULE MCIssueDialog -----------------------------
(***************************************************************************)
(* IssueDialog for TLC.                                                    *)
(***************************************************************************)
EXTENDS IssueDialog, TLC

CONSTANTS i1, i2, x1, x2, c1, f1, r1, r2, r3

MCIssues == {i1, i2}
MCTexts == {x1, x2}
MCComments == {c1}
MCFiles == {f1}
MCRequests == {r1, r2, r3}

\* Nothing depends on which issue, text or request is which.
MCSymmetry == Permutations(MCIssues) \cup Permutations(MCTexts) \cup Permutations(MCRequests)
===============================================================================
