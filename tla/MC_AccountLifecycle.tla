------------------------ MODULE MC_AccountLifecycle ------------------------
(* One or two users.  The night tasks run before the hours of the first    *)
(* and within those of the second.                                         *)
EXTENDS AccountLifecycle

CONSTANTS u1, u2

Zones == [u \in User |-> IF u = u1 THEN 0 ELSE 1]
=============================================================================
