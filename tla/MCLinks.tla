------------------------------- MODULE MCLinks -------------------------------
(* A project with its owner, its unit and its sponsor, who is the owner;    *)
(* the owner belongs to the unit and manages it; the unit has no parent.    *)
(* With two levels the walk of a project looks the unit up through the      *)
(* owner without entering it, and meets the owner twice.                    *)
EXTENDS RelationshipResolver

CONSTANTS project, person, unit

SmallErp == {project, person, unit}
Ownership == [r \in SmallErp |-> CASE r = project -> <<person, unit, person>>
                                   [] r = person  -> <<unit>>
                                   [] r = unit    -> <<person, NoRecord>>]
=============================================================================
