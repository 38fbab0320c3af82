-------------------------- MODULE MCAdminGameEdit ---------------------------
(* The tournaments of MCRescheduling, with superadmins editing games.      *)
EXTENDS MCRescheduling, AdminGameEdit

AnyOverride == BOOLEAN
NoOverride == {FALSE}
EditCapacity == [s \in Slot |-> IF s = "thu2" THEN 1 ELSE 2]
=============================================================================
