------------------------ MODULE MCAccountDeletion ------------------------
(* Users, and nothing else to define: the other constants are numbers.      *)
EXTENDS AccountDeletion

CONSTANTS u1, u2
=============================================================================
