------------------------------ MODULE MCAccounts ------------------------------
(***************************************************************************)
(* Model checking of Accounts.                                             *)
(***************************************************************************)
EXTENDS AccountsSafety, TLC

CONSTANTS blank, e1, e1x, e2, n1, n2, d, s1, s1x

\* e1x and s1x are e1 and s1 with blanks around them.
AllTexts    == {blank, e1, e1x, e2, n1, n2, d, s1, s1x}
TrimBlanks  == [x \in AllTexts |-> CASE x = e1x -> e1 [] x = s1x -> s1 [] OTHER -> x]

Symm == Permutations(Ids) \cup Permutations(Txs)
=============================================================================
