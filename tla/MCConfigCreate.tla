--------------------------- MODULE MCConfigCreate ---------------------------
(* An instance of ConfigCreate for TLC: sizes of 4, 2 and 1 in the place of *)
(* 16 to 1, small VPCs of one and of two blocks, two foreign subnets.        *)
EXTENDS ConfigCreate

B(at_, size_) == [at |-> at_, size |-> size_]

MCVpcs == {<<B(0, 8)>>, <<B(0, 2), B(8, 8)>>, <<B(0, 2)>>, <<B(8, 16)>>}
MCSizes == <<4, 2, 1>>
MCAzLists == {<<"az1">>, <<"az2", "az1">>}

MCOthers ==
  {[at |-> 0, size |-> 1, az |-> "az1", table |-> "igw"],
   [at |-> 12, size |-> 2, az |-> "az2", table |-> "main"]}
=============================================================================
