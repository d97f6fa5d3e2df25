----------------------------- MODULE PoolProofs -----------------------------
(***************************************************************************)
(* Theorems about PoolConfig: what staging before destroying guarantees to *)
(* any number of users, and what a single user can rely on.                *)
(***************************************************************************)
EXTENDS PoolConfig, TLAPS

\* What is staged is the config that was read, without the pool, and another
\* pool is left in it.
Staging ==
  \A p \in Procs :
    /\ pc[p] = "prepare" => cmd[p].verb \in {"remove", "apply"}
    /\ pc[p] = "prepare" /\ cmd[p].verb = "remove" => cfg[p].pools # {cmd[p].pool}
    /\ pc[p] = "stage" => cfg[p].pools # {cmd[p].pool}
    /\ pc[p] \in {"destroy", "commit"} => staged[p] = Without(cfg[p], cmd[p].pool)

StagingInv == TypeOK /\ Staging

LEMMA InitStaging == Init => StagingInv
  BY DEF Init, StagingInv, Staging, TypeOK, Stack, Labels, Ended

\* The command ends: the process holds nothing any more.
LEMMA FinishStaging ==
  ASSUME StagingInv, NEW p \in Procs, NEW r \in {"ok", "failed"}, Finish(p, r),
         file' \in Configs, built' \in [Pools -> Stack], peers' \subseteq Pools,
         bucket' \in BOOLEAN, removed' \subseteq Pools
  PROVE  StagingInv'
  BY DEF StagingInv, Staging, TypeOK, Finish, Goto, Labels, Ended

LEMMA BeginStaging ==
  ASSUME StagingInv, NEW p \in Procs, NEW c \in Commands, NEW l \in Labels,
         Begin(p, c, l), l \in {"save", "prepare"},
         l = "prepare" => c.verb \in {"remove", "apply"},
         c.verb = "remove" => file.pools # {c.pool}
  PROVE  StagingInv'
  <1>1. TypeOK'
    BY DEF Begin, StagingInv, TypeOK, Goto, Labels, Ended, Configs
  <1>2. Staging'
    BY DEF Begin, StagingInv, TypeOK, Staging, Goto, Labels, Ended
  <1>3. QED
    BY <1>1, <1>2 DEF StagingInv

\* Every step of the system keeps the invariant, whatever the number of users.
LEMMA NextStaging == StagingInv /\ [Next]_vars => StagingInv'
  <1> SUFFICES ASSUME StagingInv, [Next]_vars PROVE StagingInv'
    OBVIOUS
  <1> USE DEF StagingInv
  <1>1. ASSUME NEW p \in Procs, Start(p) PROVE StagingInv'
    <2>1. PICK c \in Commands : StartAdd(p, c) \/ StartRemove(p, c) \/ StartApply(p, c)
      BY <1>1 DEF Start
    <2>2. CASE StartAdd(p, c)
      BY <2>2, BeginStaging DEF StartAdd, Labels
    <2>3. CASE StartRemove(p, c)
      BY <2>3, BeginStaging DEF StartRemove, Labels
    <2>4. CASE StartApply(p, c)
      BY <2>4, BeginStaging DEF StartApply, Labels
    <2>5. QED
      BY <2>1, <2>2, <2>3, <2>4
  <1>2. ASSUME NEW p \in Procs, Fail(p) PROVE StagingInv'
    BY <1>2, FinishStaging DEF Fail, TypeOK
  <1>16. ASSUME NEW p \in Procs, CreateBucket(p) PROVE StagingInv'
    BY <1>16 DEF CreateBucket, TypeOK, Staging, Ended
  <1>17. ASSUME NEW p \in Procs, Prepare(p) PROVE StagingInv'
    <2>1. TypeOK'
      BY <1>17 DEF Prepare, TypeOK, Goto, Labels, Ended
    <2>2. Staging'
      BY <1>17 DEF Prepare, TypeOK, Staging, Goto
    <2>3. QED
      BY <2>1, <2>2
  <1>3. ASSUME NEW p \in Procs, Save(p) PROVE StagingInv'
    <2>1. cfg[p] \in Configs /\ cmd[p] \in Commands
      BY <1>3 DEF Save, TypeOK, Ended
    <2>2. file' \in Configs
      BY <1>3, <2>1 DEF Save, With, Configs, Commands
    <2>3. QED
      BY <1>3, <2>2, FinishStaging DEF Save, TypeOK
  <1>4. ASSUME NEW p \in Procs, Stage(p) PROVE StagingInv'
    <2>1. cfg[p] \in Configs /\ cmd[p] \in Commands
      BY <1>4 DEF Stage, TypeOK, Ended
    <2>2. Without(cfg[p], cmd[p].pool) \in Configs
      BY <1>4, <2>1 DEF Stage, Staging, Without, Configs, Commands
    <2>3. TypeOK'
      BY <1>4, <2>2 DEF Stage, TypeOK, Goto, Labels, Ended
    <2>4. Staging'
      BY <1>4 DEF Stage, TypeOK, Staging, Goto
    <2>5. QED
      BY <2>3, <2>4
  <1>5. ASSUME NEW p \in Procs, DestroySome(p) PROVE StagingInv'
    BY <1>5 DEF DestroySome, TypeOK, Staging, Stack, Ended
  <1>6. ASSUME NEW p \in Procs, DestroyPool(p) PROVE StagingInv'
    <2>1. TypeOK'
      BY <1>6 DEF DestroyPool, TypeOK, Stack, Goto, Labels, Ended
    <2>2. Staging'
      BY <1>6 DEF DestroyPool, TypeOK, Staging, Goto
    <2>3. QED
      BY <2>1, <2>2
  <1>7. ASSUME NEW p \in Procs, Commit(p) PROVE StagingInv'
    <2>1. staged[p] \in Configs /\ cmd[p] \in Commands
      BY <1>7 DEF Commit, TypeOK, Ended
    <2>2. removed' \subseteq Pools
      BY <1>7, <2>1 DEF Commit, TypeOK, Commands
    <2>3. CASE staged[p].mgmt
      <3>1. TypeOK'
        BY <1>7, <2>1, <2>2, <2>3 DEF Commit, TypeOK, Goto, Labels, Ended
      <3>2. Staging'
        BY <1>7, <2>3 DEF Commit, TypeOK, Staging, Goto
      <3>3. QED
        BY <3>1, <3>2
    <2>4. CASE ~staged[p].mgmt
      BY <1>7, <2>1, <2>2, <2>4, FinishStaging DEF Commit, TypeOK
    <2>5. QED
      BY <2>3, <2>4
  <1>8. ASSUME NEW p \in Procs, Reopen(p) PROVE StagingInv'
    <2>1. TypeOK'
      BY <1>8 DEF Reopen, TypeOK, Goto, Labels, Ended
    <2>2. Staging'
      BY <1>8 DEF Reopen, TypeOK, Staging, Goto
    <2>3. QED
      BY <2>1, <2>2
  <1>9. ASSUME NEW p \in Procs, ApplyMgmt(p) PROVE StagingInv'
    <2>1. peers' \subseteq Pools
      BY <1>9 DEF ApplyMgmt, TypeOK
    <2>2. QED
      BY <1>9, <2>1, FinishStaging DEF ApplyMgmt, TypeOK
  <1>10. ASSUME NEW p \in Procs, NEW q \in Pools, ApplySome(p, q) PROVE StagingInv'
    BY <1>10 DEF ApplySome, TypeOK, Staging, Stack, Ended
  <1>11. ASSUME NEW p \in Procs, NEW q \in Pools, ApplyPool(p, q) PROVE StagingInv'
    BY <1>11 DEF ApplyPool, TypeOK, Staging, Stack, Ended
  <1>12. ASSUME NEW p \in Procs, PoolsApplied(p) PROVE StagingInv'
    <2>1. TypeOK'
      BY <1>12 DEF PoolsApplied, TypeOK, Goto, Labels, Ended
    <2>2. Staging'
      BY <1>12 DEF PoolsApplied, TypeOK, Staging, Goto
    <2>3. QED
      BY <2>1, <2>2
  <1>13. CASE EditFile
    BY <1>13 DEF EditFile, TypeOK, Staging, Configs, Ended
  <1>14. CASE UNCHANGED vars
    BY <1>14 DEF vars, TypeOK, Staging, Ended
  <1>15. QED
    BY <1>1, <1>2, <1>3, <1>4, <1>5, <1>6, <1>7, <1>8, <1>9, <1>10, <1>11, <1>12,
       <1>13, <1>14, <1>16, <1>17 DEF Next, Step

\* Every variable has its type, and a staged config always has a pool left.
THEOREM PoolTypeCorrect == Spec => []TypeOK
  <1>1. StagingInv => TypeOK
    BY DEF StagingInv
  <1>2. QED
    BY <1>1, InitStaging, NextStaging, PTL DEF Spec

-----------------------------------------------------------------------------
(* Staging comes first *)

GoesStaged ==
  \A q \in Pools : built'[q] # built[q] =>
    /\ built'[q] = "none" => Destroyers(q) # {}
    /\ \A p \in Destroyers(q) : staged[p] # NoConfig /\ q \notin staged[p].pools

\* Who is at destroying a pool has staged the config without it.
LEMMA DestroyersStaged ==
  ASSUME StagingInv, NEW q \in Pools, NEW p \in Destroyers(q)
  PROVE  staged[p] # NoConfig /\ q \notin staged[p].pools
  <1>1. p \in Procs /\ pc[p] = "destroy" /\ cmd[p].pool = q
    BY DEF Destroyers
  <1>2. staged[p] = Without(cfg[p], q)
    BY <1>1 DEF StagingInv, Staging
  <1>3. staged[p] \in Configs /\ cfg[p] \in Configs
    BY <1>1 DEF StagingInv, TypeOK, Ended
  <1>4. staged[p] # NoConfig
    BY <1>3, PoolConstants
  <1>5. q \notin staged[p].pools
    BY <1>2, <1>3 DEF Without, Configs
  <1>6. QED
    BY <1>4, <1>5

\* Only who is at destroying a pool makes it go.
LEMMA OnlyDestroyers ==
  ASSUME StagingInv, [Next]_vars, NEW q \in Pools, built'[q] # built[q], built'[q] = "none"
  PROVE  Destroyers(q) # {}
  <1>1. ASSUME NEW p \in Procs, DestroyPool(p) PROVE Destroyers(q) # {}
    <2>1. q = cmd[p].pool
      BY <1>1 DEF DestroyPool, StagingInv, TypeOK
    <2>2. QED
      BY <1>1, <2>1 DEF DestroyPool, Destroyers
  <1>2. ASSUME NEW p \in Procs,
               \/ DestroySome(p)
               \/ \E t \in Pools : ApplySome(p, t) \/ ApplyPool(p, t)
        PROVE  FALSE
    BY <1>2 DEF DestroySome, ApplySome, ApplyPool, StagingInv, TypeOK
  <1>3. QED
    BY <1>1, <1>2 DEF Next, Step, EditFile, Start, StartAdd, StartRemove, StartApply,
       Begin, Fail, CreateBucket, Prepare, Save, Stage, Commit, Reopen, ApplyMgmt, PoolsApplied, vars

LEMMA StepGoesStaged == StagingInv /\ [Next]_vars => [GoesStaged]_built
  BY DestroyersStaged, OnlyDestroyers DEF GoesStaged

\* Whoever destroys a pool, or a part of it, has the config without it on disk:
\* what the comment of poolRemoveCmd promises, for any number of users.
THEOREM StagedBeforeDestroyed == Spec => StagedFirst
  <1>1. Spec => []StagingInv
    BY InitStaging, NextStaging, PTL DEF Spec
  <1>2. Spec => [][GoesStaged]_built
    BY <1>1, StepGoesStaged, PTL DEF Spec
  <1>3. QED
    BY <1>2 DEF StagedFirst, GoesStaged

-----------------------------------------------------------------------------
(* One user *)

OneUser == \A p, q \in Procs : p = q

\* Nobody else writes the file: what a command has read is what it says, as far
\* as the pools go, until the command itself replaces it.
Alone ==
  \A p \in Procs :
    /\ pc[p] \in {"save", "prepare", "stage", "destroy", "commit"} => cfg[p].pools = file.pools
    /\ pc[p] \in {"prepare", "apply"} => todo[p] \subseteq file.pools
    /\ pc[p] = "commit" => built[cmd[p].pool] = "none"

AloneInv == StagingInv /\ Alone /\ UpIsListed /\ RemovedStaysRemoved

LEMMA InitAlone == Init => AloneInv
  <1> SUFFICES ASSUME Init PROVE AloneInv
    OBVIOUS
  <1>1. StagingInv
    BY InitStaging
  <1>2. Alone /\ UpIsListed /\ RemovedStaysRemoved
    BY DEF Init, Alone, UpIsListed, RemovedStaysRemoved
  <1>3. QED
    BY <1>1, <1>2 DEF AloneInv

LEMMA NextAlone ==
  ASSUME OneUser, AloneInv, [Next]_vars
  PROVE  AloneInv'
  <1> DEFINE Good == Alone /\ UpIsListed /\ RemovedStaysRemoved
  <1> SUFFICES Good'
    <2>1. StagingInv'
      BY NextStaging DEF AloneInv
    <2>2. QED
      BY <2>1 DEF AloneInv
  <1>0. StagingInv /\ TypeOK /\ Staging /\ Good
    BY DEF AloneInv, StagingInv
  <1>1. ASSUME NEW p \in Procs, Start(p) PROVE Good'
    <2>1. PICK c \in Commands, l \in {"save", "prepare"} : Begin(p, c, l)
      BY <1>1 DEF Start, StartAdd, StartRemove, StartApply
    <2>2. Alone'
      BY <1>0, <2>1 DEF OneUser, Begin, Goto, Alone, TypeOK
    <2>3. QED
      BY <1>0, <2>1, <2>2 DEF Begin, UpIsListed, RemovedStaysRemoved
  <1>2. ASSUME NEW p \in Procs, Fail(p) PROVE Good'
    BY <1>0, <1>2 DEF OneUser, Fail, Finish, Goto, Alone, UpIsListed, RemovedStaysRemoved, TypeOK
  <1>15. ASSUME NEW p \in Procs, CreateBucket(p) \/ Prepare(p) PROVE Good'
    BY <1>0, <1>15 DEF OneUser, CreateBucket, Prepare, Goto, Alone, UpIsListed, RemovedStaysRemoved, TypeOK
  <1>3. ASSUME NEW p \in Procs, Save(p) PROVE Good'
    <2>1. cfg[p] \in Configs /\ cfg[p].pools = file.pools
      BY <1>0, <1>3 DEF Save, Alone, TypeOK, Ended
    <2>2. file'.pools = file.pools \cup {cmd[p].pool}
      BY <1>3, <2>1 DEF Save, With, Configs
    <2>3. Alone'
      BY <1>0, <1>3 DEF OneUser, Save, Finish, Goto, Alone, TypeOK
    <2>4. QED
      BY <1>0, <1>3, <2>2, <2>3 DEF Save, UpIsListed, RemovedStaysRemoved
  <1>4. ASSUME NEW p \in Procs, Stage(p) PROVE Good'
    BY <1>0, <1>4 DEF OneUser, Stage, Goto, Alone, UpIsListed, RemovedStaysRemoved, TypeOK
  <1>5. ASSUME NEW p \in Procs, DestroySome(p) PROVE Good'
    BY <1>0, <1>5 DEF OneUser, DestroySome, Alone, UpIsListed, RemovedStaysRemoved, TypeOK
  <1>6. ASSUME NEW p \in Procs, DestroyPool(p) PROVE Good'
    <2>1. cmd[p].pool \in Pools
      BY <1>0, <1>6 DEF DestroyPool, TypeOK, Ended, Commands
    <2>2. Alone'
      BY <1>0, <1>6, <2>1 DEF OneUser, DestroyPool, Goto, Alone, TypeOK
    <2>3. QED
      BY <1>0, <1>6, <2>2 DEF DestroyPool, UpIsListed, RemovedStaysRemoved, TypeOK
  <1>7. ASSUME NEW p \in Procs, Commit(p) PROVE Good'
    <2>1. /\ cfg[p] \in Configs /\ cfg[p].pools = file.pools
          /\ staged[p] = Without(cfg[p], cmd[p].pool)
          /\ built[cmd[p].pool] = "none"
      BY <1>0, <1>7 DEF Commit, Alone, Staging, TypeOK, Ended
    <2>2. file'.pools = file.pools \ {cmd[p].pool}
      BY <1>7, <2>1 DEF Commit, Without, Configs
    <2>3. Alone'
      BY <1>0, <1>7 DEF OneUser, Commit, Finish, Goto, Alone, TypeOK
    <2>4. QED
      BY <1>0, <1>7, <2>1, <2>2, <2>3 DEF Commit, UpIsListed, RemovedStaysRemoved
  <1>8. ASSUME NEW p \in Procs, Reopen(p) PROVE Good'
    BY <1>0, <1>8 DEF OneUser, Reopen, Goto, Alone, UpIsListed, RemovedStaysRemoved, TypeOK
  <1>9. ASSUME NEW p \in Procs, ApplyMgmt(p) PROVE Good'
    BY <1>0, <1>9 DEF OneUser, ApplyMgmt, Finish, Goto, Alone, UpIsListed, RemovedStaysRemoved, TypeOK
  <1>10. ASSUME NEW p \in Procs, NEW q \in Pools, ApplySome(p, q) \/ ApplyPool(p, q) PROVE Good'
    <2>1. q \in file.pools
      BY <1>0, <1>10 DEF ApplySome, ApplyPool, Alone
    <2>2. Alone'
      BY <1>0, <1>10 DEF OneUser, ApplySome, ApplyPool, Alone, TypeOK
    <2>3. QED
      BY <1>0, <1>10, <2>1, <2>2 DEF ApplySome, ApplyPool, UpIsListed, RemovedStaysRemoved, TypeOK
  <1>11. ASSUME NEW p \in Procs, PoolsApplied(p) PROVE Good'
    BY <1>0, <1>11 DEF OneUser, PoolsApplied, Goto, Alone, UpIsListed, RemovedStaysRemoved, TypeOK
  <1>12. CASE EditFile
    <2>1. file'.pools = file.pools
      BY <1>0, <1>12 DEF EditFile, TypeOK, Configs
    <2>2. QED
      BY <1>0, <1>12, <2>1 DEF EditFile, Alone, UpIsListed, RemovedStaysRemoved
  <1>13. CASE UNCHANGED vars
    BY <1>0, <1>13 DEF vars, Alone, UpIsListed, RemovedStaysRemoved
  <1>14. QED
    BY <1>1, <1>2, <1>3, <1>4, <1>5, <1>6, <1>7, <1>8, <1>9, <1>10, <1>11, <1>12,
       <1>13, <1>15 DEF Next, Step

\* With one user, a pool that has anything in AWS is listed in the config,
\* wherever a command stops.
THEOREM NothingOrphaned ==
  ASSUME OneUser
  PROVE  Spec => []UpIsListed
  <1>1. AloneInv => UpIsListed
    BY DEF AloneInv
  <1>2. AloneInv /\ [Next]_vars => AloneInv'
    BY NextAlone
  <1>3. QED
    BY <1>1, <1>2, InitAlone, PTL DEF Spec

\* With one user, a pool that was removed stays out of the config.
THEOREM RemovedForGood ==
  ASSUME OneUser
  PROVE  Spec => []RemovedStaysRemoved
  <1>1. AloneInv => RemovedStaysRemoved
    BY DEF AloneInv
  <1>2. AloneInv /\ [Next]_vars => AloneInv'
    BY NextAlone
  <1>3. QED
    BY <1>1, <1>2, InitAlone, PTL DEF Spec

-----------------------------------------------------------------------------
(* One user: what exit status 0 of pool remove says *)

\* What is left to do once the file is renamed is to apply mgmt, and mgmt is
\* applied with the file as it is.
Forgetting ==
  \A p \in Procs :
    /\ pc[p] \in {"reopen", "mgmt"} /\ cmd[p].verb = "remove" => cmd[p].pool \notin file.pools
    /\ pc[p] \in {"prepare", "apply", "mgmt"} => cfg[p].mgmt = file.mgmt
    /\ pc[p] = "save" => cmd[p].verb = "add"
    /\ pc[p] = "apply" => cmd[p].verb = "apply"

LEMMA InitForgetting == Init => Forgetting
  BY DEF Init, Forgetting

LEMMA NextForgetting ==
  ASSUME OneUser, AloneInv, Forgetting, [Next]_vars
  PROVE  Forgetting'
  <1>0. TypeOK /\ Staging /\ Alone
    BY DEF AloneInv, StagingInv
  <1>1. ASSUME NEW p \in Procs, Start(p) PROVE Forgetting'
    <2>1. PICK c \in Commands, l \in {"save", "prepare"} :
            /\ Begin(p, c, l)
            /\ l = "save" => c.verb = "add"
      BY <1>1 DEF Start, StartAdd, StartRemove, StartApply
    <2>2. pc'[p] = l /\ cmd'[p] = c /\ cfg'[p] = file /\ file' = file
      BY <1>0, <2>1 DEF Begin, Goto, TypeOK
    <2>3. QED
      BY <2>1, <2>2 DEF OneUser, Forgetting
  <1>2. ASSUME NEW p \in Procs, Fail(p) \/ Save(p) \/ ApplyMgmt(p) PROVE Forgetting'
    <2>1. pc'[p] \in {"ok", "failed"}
      BY <1>0, <1>2 DEF Fail, Save, ApplyMgmt, Finish, Goto, TypeOK
    <2>2. QED
      BY <2>1 DEF OneUser, Forgetting
  <1>11. ASSUME NEW p \in Procs, CreateBucket(p) PROVE Forgetting'
    BY <1>11 DEF CreateBucket, Forgetting
  <1>12. ASSUME NEW p \in Procs, Prepare(p) PROVE Forgetting'
    <2>1. /\ pc[p] = "prepare" /\ UNCHANGED <<cmd, cfg, file>>
          /\ pc'[p] = IF cmd[p].verb = "remove" THEN "stage" ELSE "apply"
      BY <1>0, <1>12 DEF Prepare, Goto, TypeOK
    <2>2. cmd[p].verb \in {"remove", "apply"}
      BY <1>0, <2>1 DEF Staging
    <2>3. QED
      BY <2>1, <2>2 DEF OneUser, Forgetting
  <1>3. ASSUME NEW p \in Procs, Stage(p) \/ DestroyPool(p) PROVE Forgetting'
    <2>1. pc'[p] \in {"destroy", "commit"}
      BY <1>0, <1>3 DEF Stage, DestroyPool, Goto, TypeOK
    <2>2. QED
      BY <2>1 DEF OneUser, Forgetting
  <1>4. ASSUME NEW p \in Procs,
               DestroySome(p) \/ \E q \in Pools : ApplySome(p, q) \/ ApplyPool(p, q)
        PROVE  Forgetting'
    BY <1>4 DEF DestroySome, ApplySome, ApplyPool, Forgetting
  <1>5. ASSUME NEW p \in Procs, Commit(p) PROVE Forgetting'
    <2>1. pc'[p] \in {"reopen", "ok"} /\ (pc'[p] = "reopen" => cmd' = cmd)
      BY <1>0, <1>5 DEF Commit, Finish, Goto, TypeOK
    <2>2. file' = Without(cfg[p], cmd[p].pool) /\ cfg[p] \in Configs
      BY <1>0, <1>5 DEF Commit, Staging, TypeOK, Ended
    <2>3. cmd[p].pool \notin file'.pools
      BY <2>2 DEF Without, Configs
    <2>4. QED
      BY <2>1, <2>3 DEF OneUser, Forgetting
  <1>6. ASSUME NEW p \in Procs, Reopen(p) PROVE Forgetting'
    <2>1. /\ pc[p] = "reopen" /\ pc'[p] = "mgmt" /\ cfg'[p] = file
          /\ UNCHANGED <<cmd, file>>
      BY <1>0, <1>6 DEF Reopen, Goto, TypeOK
    <2>2. QED
      BY <2>1 DEF OneUser, Forgetting
  <1>7. ASSUME NEW p \in Procs, PoolsApplied(p) PROVE Forgetting'
    <2>1. pc[p] = "apply" /\ pc'[p] = "mgmt" /\ UNCHANGED <<cmd, cfg, file>>
      BY <1>0, <1>7 DEF PoolsApplied, Goto, TypeOK
    <2>2. QED
      BY <2>1 DEF OneUser, Forgetting
  <1>8. CASE EditFile
    <2>1. file'.pools = file.pools /\ file'.mgmt = file.mgmt
      BY <1>0, <1>8 DEF EditFile, TypeOK, Configs
    <2>2. QED
      BY <1>8, <2>1 DEF EditFile, Forgetting
  <1>9. CASE UNCHANGED vars
    BY <1>9 DEF vars, Forgetting
  <1>10. QED
    BY <1>1, <1>2, <1>3, <1>4, <1>5, <1>6, <1>7, <1>8, <1>9, <1>11, <1>12 DEF Next, Step

LEMMA StepMeansGone ==
  ASSUME OneUser, AloneInv, Forgetting, [Next]_vars, NEW p \in Procs, ~Ended(p), pc'[p] = "ok",
         cmd[p].verb = "remove"
  PROVE  LET q == cmd[p].pool
         IN /\ built'[q] = "none" /\ q \notin file'.pools
            /\ file'.mgmt => q \notin peers'
  <1> DEFINE q == cmd[p].pool
  <1>0. TypeOK /\ Staging /\ Alone /\ UpIsListed /\ q \in Pools
    BY DEF AloneInv, StagingInv, TypeOK, Commands
  <1>1. ASSUME NEW l, Goto(p, l) PROVE l = "ok"
    BY <1>0, <1>1 DEF Goto, TypeOK
  <1>2. (Commit(p) /\ ~staged[p].mgmt) \/ ApplyMgmt(p)
    <2>1. pc' # pc
      BY DEF Ended
    <2>2. Start(p) \/ Step(p) \/ Fail(p)
      BY <2>1 DEF Next, OneUser, EditFile, vars
    <2>3. ~Start(p) /\ ~Fail(p)
      BY <1>1 DEF Start, StartAdd, StartRemove, StartApply, Begin, Fail, Finish
    <2>4. ~Save(p)
      BY DEF Save, Forgetting
    <2>5. ~Prepare(p) /\ ~Stage(p) /\ ~DestroyPool(p) /\ ~Reopen(p) /\ ~PoolsApplied(p)
      BY <1>1 DEF Prepare, Stage, DestroyPool, Reopen, PoolsApplied
    <2>6. /\ ~CreateBucket(p) /\ ~DestroySome(p)
          /\ \A r \in Pools : ~ApplySome(p, r) /\ ~ApplyPool(p, r)
      BY <2>1 DEF CreateBucket, DestroySome, ApplySome, ApplyPool
    <2>7. Commit(p) => ~staged[p].mgmt
      BY <1>1 DEF Commit
    <2>8. QED
      BY <2>2, <2>3, <2>4, <2>5, <2>6, <2>7 DEF Step
  <1>3. CASE Commit(p) /\ ~staged[p].mgmt
    <2>1. /\ file' = staged[p] /\ staged[p] = Without(cfg[p], q) /\ cfg[p] \in Configs
          /\ built[q] = "none" /\ built' = built
      BY <1>0, <1>3 DEF Commit, Staging, Alone, TypeOK, Ended
    <2>2. q \notin file'.pools
      BY <2>1 DEF Without, Configs
    <2>3. QED
      BY <1>3, <2>1, <2>2
  <1>4. CASE ApplyMgmt(p)
    <2>1. pc[p] = "mgmt" /\ UNCHANGED <<file, built>>
      BY <1>4 DEF ApplyMgmt
    <2>2. q \notin file.pools /\ cfg[p].mgmt = file.mgmt
      BY <2>1 DEF Forgetting
    <2>3. built[q] = "none"
      BY <1>0, <2>2 DEF UpIsListed, TypeOK, Stack
    <2>4. file.mgmt => q \notin peers'
      BY <1>4, <2>2, <2>3 DEF ApplyMgmt
    <2>5. QED
      BY <2>1, <2>2, <2>3, <2>4
  <1>5. QED
    BY <1>2, <1>3, <1>4

\* With one user, exit status 0 of pool remove says that the pool is gone from
\* AWS and from the config, and that the mgmt plane has forgotten it.
THEOREM RemovedEverywhere ==
  ASSUME OneUser
  PROVE  Spec => RemoveMeansGone
  <1> DEFINE Inv == AloneInv /\ Forgetting
  <1>1. Inv /\ [Next]_vars => Inv'
    BY NextAlone, NextForgetting
  <1>2. Init => Inv
    BY InitAlone, InitForgetting
  <1>3. Inv /\ [Next]_vars =>
          [\A p \in Procs : ~Ended(p) /\ pc'[p] = "ok" /\ cmd[p].verb = "remove" =>
             LET q == cmd[p].pool
             IN /\ built'[q] = "none" /\ q \notin file'.pools
                /\ file'.mgmt => q \notin peers']_vars
    BY StepMeansGone
  <1> HIDE DEF Inv
  <1>4. QED
    BY <1>1, <1>2, <1>3, PTL DEF Spec, RemoveMeansGone

=============================================================================
