------------------------------- MODULE MCSession -------------------------------
(***************************************************************************)
(* Session for TLC.                                                        *)
(***************************************************************************)
EXTENDS Session, TLC

CONSTANTS t1, t2, f1, f2, c1, c2, e1, e2

MCTabs == {t1, t2}
MCForms == {f1, f2}
MCCalls == {c1, c2}
MCEmails == {e1, e2}

\* Nothing depends on which tab, request or address is which.
MCSymmetry ==
    UNION {Permutations(S) : S \in {MCTabs, MCForms, MCCalls, MCEmails}}
===============================================================================
