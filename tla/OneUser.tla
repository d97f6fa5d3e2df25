------------------------------ MODULE OneUser ------------------------------
(***************************************************************************)
(* One user, one thing at a time: the pool commands, the node secret, the  *)
(* module cache and the answers of the dashboard.  They share nothing but  *)
(* the user, so each behaviour is one of them, the others standing still;  *)
(* one search covers all.  The variables of the pool commands have their   *)
(* own names here.                                                         *)
(***************************************************************************)
EXTENDS PoolConfig, Sequences

CONSTANTS
  Absent, None, Failed,
  Keys, Given, Random, Limit, Verbs,    \* the secret: see Secrets
  Commits, NFiles, Marker, Inodes,      \* the cache: see ModuleCache
  Gateways, Metrics, Rich, NoPool, Ips, NoIp, Items,               \* the views: see Panels
  MaxDisks, Gaps, Times, Ranges, Now, Scrape, Points, Shortest, Longest, Usual

VARIABLES
  component,                                                         \* whose behaviour it is
  sParam, sPc, sCmd, sNext,                                          \* the secret
  cHead, cRefFile, cDir, cTmp, cContent, cPc, cSha, cAt, cInode,     \* the cache
  vPc, vRequest, vReplies, vAnswer                                   \* the views

S == INSTANCE Secrets WITH
  param <- sParam, pc <- sPc, cmd <- sCmd, next <- sNext

C == INSTANCE ModuleCache WITH
  NoDir <- None, NoCommit <- None,
  head <- cHead, refFile <- cRefFile, dir <- cDir, tmp <- cTmp, content <- cContent,
  pc <- cPc, sha <- cSha, at <- cAt, inode <- cInode

V == INSTANCE Panels WITH
  Pools <- Gateways, pc <- vPc, request <- vRequest, replies <- vReplies, answer <- vAnswer

ASSUME OneUserConstants == S!SecretsConstants /\ C!CacheConstants /\ V!PanelsConstants

sVars == <<sParam, sPc, sCmd, sNext>>
cVars == <<cHead, cRefFile, cDir, cTmp, cContent, cPc, cSha, cAt, cInode>>
vVars == <<vPc, vRequest, vReplies, vAnswer>>
allVars == <<component, vars, sVars, cVars, vVars>>

AllInit ==
  /\ component \in {"pool", "secret", "cache", "views"}
  /\ Init /\ S!Init /\ C!Init /\ V!Init
  /\ component # "pool" => file = (CHOOSE c \in Configs : TRUE) /\ ~bucket
  /\ component # "cache" => cHead = CHOOSE c \in Commits : TRUE

PoolNext == component = "pool" /\ Next /\ UNCHANGED <<component, sVars, cVars, vVars>>
SecretNext == component = "secret" /\ S!Next /\ UNCHANGED <<component, vars, cVars, vVars>>
CacheNext == component = "cache" /\ C!Next /\ UNCHANGED <<component, vars, sVars, vVars>>

ViewNext == component = "views" /\ V!Next /\ UNCHANGED <<component, vars, sVars, cVars>>

\* The fairness of the components' own specifications.
AllSpec ==
  /\ AllInit /\ [][PoolNext \/ SecretNext \/ CacheNext \/ ViewNext]_allVars
  /\ \A p \in Procs :
       /\ WF_vars(Step(p) \/ Fail(p))
       /\ WF_allVars(component = "cache" /\ C!Start(p) /\ UNCHANGED <<component, vars, sVars, vVars>>)
       /\ WF_cVars(C!Step(p) \/ C!Failure(p))

-----------------------------------------------------------------------------
(* Properties; those of the pool commands have their names from PoolConfig. *)

\* The variables of the component that moves have their types (poolCmd, secretsCmd,
\* EnsureModules).
TypesOK ==
  /\ component = "pool" => TypeOK
  /\ component = "secret" => S!TypeOK
  /\ component = "cache" => C!TypeOK

\* Without --force no command replaces a value that is in the secret
\* (ensureSecrets, secretsGenerateCmd).
ExistingKept == S!ExistingKept

\* `secrets set` loses no key and changes no other one, and what it was given
\* is read back (secretsSetCmd, ParseSecrets, FormatSecrets).
SetKeepsSecret == S!SetKeepsSecret

\* A directory that Ensure returns is a complete copy of the commit that was
\* resolved (EnsureModules).
ReturnedIsComplete == C!ReturnedIsComplete

\* A commit that is in the cache is not downloaded again (EnsureModules).
NeverDownloadedTwice == C!NeverDownloadedTwice

\* Whatever a broken download left behind, a run that is repeated gets its
\* directory in the end (EnsureModules).
CacheRecovers == component = "cache" => C!CacheRecovers

\* Of every pool that was asked the page gets all that it answered, each value
\* at its time, or else a warning (each, overview, cache, drawPanel, addLine).
AnswerIsComplete == V!AnswerIsComplete
=============================================================================
