------------------------------ MODULE MCDeploy ------------------------------
(* Instances of Deploy for TLC.  "v1" and "v2" differ in values only, "v3"  *)
(* has one more resource.                                                  *)
EXTENDS DeployRefinement, TLC

MCContents == {"v1", "v2", "v3"}
MCAddr == {"a", "b"}
MCAddresses ==
  [i \in Infra |-> CASE i = NoInfra -> {} [] i = "v3" -> {"a", "b"} [] OTHER -> {"a"}]

WantOf(w1, w2) == [c \in Cfgs |-> IF c = "c1" THEN w1 ELSE w2]

\* c1 and c2 have the same stacks, with other contents.
MCWantOne   == WantOf(<<"v1">>, <<"v2">>)
MCWantTwo   == WantOf(<<"v1", "v1">>, <<"v2", "v3">>)
MCWantThree == WantOf(<<"v1", "v1", "v1">>, <<"v2", "v1", "v3">>)
\* c2 has lost the pool of c1.
MCWantDropped == WantOf(<<"v1", "v1">>, <<"v1", NoInfra>>)

SharedDir == [p \in Procs |-> "d1"]
\* Every process has a working directory of its own: Dirs = Procs.
OwnDir    == [p \in Procs |-> p]
Symmetry  == Permutations(Procs)
=============================================================================
