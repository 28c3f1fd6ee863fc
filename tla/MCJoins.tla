------------------------------- MODULE MCJoins -------------------------------
(* Keys as the ERP's answers mix them: 7 as a number and in two texts, a    *)
(* name in two cases, the bool that equals 1 and reads "true", and a text   *)
(* that reads as the absent key does.                                       *)
EXTENDS JoinEngine

Absent == [eq |-> "None", num |-> {}, text |-> "none"]
True   == [eq |-> "1", num |-> {}, text |-> "true"]
MixedValues ==
  {Absent, True,
   [eq |-> "'None'", num |-> {}, text |-> "none"],
   [eq |-> "1", num |-> {1}, text |-> "1"],
   [eq |-> "'true'", num |-> {}, text |-> "true"],
   [eq |-> "7", num |-> {7}, text |-> "7"],
   [eq |-> "'7'", num |-> {7}, text |-> "7"],
   [eq |-> "' 7.0'", num |-> {7}, text |-> "7.0"],
   [eq |-> "'Ali'", num |-> {}, text |-> "ali"],
   [eq |-> "'ali '", num |-> {}, text |-> "ali"]}
OnlyTrue == {True}
=============================================================================
