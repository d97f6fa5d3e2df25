-------------------------- MODULE DeployRefinement --------------------------
(* What the state of Deploy means to Deployment: the state object is what   *)
(* is known of a stack, and who applies a plan is doing what it says.       *)
EXTENDS Deploy

Tracked == [s \in Stacks |-> state[s] \notin {NoState, NoInfra}]
Doing == [p \in Procs |-> IF Applying(p) THEN {Effect(work[p])} ELSE {}]

D == INSTANCE Deployment WITH tracked <- Tracked, agreed <- granted, doing <- Doing

\* With a working directory for every process, and as long as nobody purges,
\* the commands keep the promise of Deployment: lock objects, the serial of a
\* state and the comparison of plans leave no order of steps of several
\* processes, no failure and no kill in which a stack is changed by two of
\* them, from something else than was shown, or without an agreement.
ImplementsDeployment == D!Spec
=============================================================================
