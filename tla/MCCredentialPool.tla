------------------------- MODULE MCCredentialPool -------------------------
(* Instances of CredentialPool for TLC: l1 and l2 are known to share their *)
(* quota, l3 stands alone.                                                 *)
EXTENDS CredentialPool, TLC

CONSTANTS l1, l2, l3, s1

SharedScope == (l1 :> s1) @@ (l2 :> s1)
LimitOne == [l \in Lanes |-> 1]
NoScope == [l \in {} |-> s1]
=============================================================================
