--------------------------- MODULE OneUserProofs ---------------------------
(***************************************************************************)
(* Proofs about OneUser: what one user, who runs one command at a time,    *)
(* can rely on, for caches, secrets and dashboards of any size.            *)
(***************************************************************************)
EXTENDS OneUser, PoolProofs, SequenceTheorems, FiniteSetTheorems,
        WellFoundedInduction, TLAPS

-----------------------------------------------------------------------------
(* The module cache *)

LEMMA CacheAssumed ==
  /\ NFiles \in Nat \ {0} /\ Marker \in C!Files
  /\ None \notin Inodes /\ None \notin Commits
  /\ Procs \cap {"none", "part", "full"} = {}
  BY OneUserConstants DEF OneUserConstants, C!CacheConstants, C!Files

Whole(i) == \A f \in C!Files : cContent[i][f] = "full"

\* A directory has one name.
OneName ==
  \A c, d \in Commits :
    /\ cDir[c] # None => cDir[c] # cTmp[d]
    /\ cDir[c] # None /\ c # d => cDir[c] # cDir[d]
    /\ cTmp[c] # None /\ c # d => cTmp[c] # cTmp[d]

\* What has the name of a commit is complete: the name is taken only by what
\* was extracted to the end, and nobody else writes it.
Named == \A c \in Commits : cDir[c] # None => Whole(cDir[c])

Downloading == {"clean", "extract", "write", "rename"}

\* A download goes on only for a commit that is not there, and the files up to
\* the one it is at are in its directory.
Download ==
  \A p \in Procs :
    /\ cPc[p] \in {"ref", "write_ref"} => cSha[p] \in Commits
    /\ cPc[p] \in Downloading => cDir[cSha[p]] = None
    /\ cPc[p] = "clean" => cInode[p] = cTmp[cSha[p]]
    /\ cPc[p] \in {"extract", "write"} => cAt[p] \in C!Files
    /\ cPc[p] = "rename" => cAt[p] = NFiles + 1
    /\ cPc[p] \in {"extract", "write", "rename"} =>
         \A f \in C!Files : f < cAt[p] =>
           cTmp[cSha[p]] # None /\ cContent[cTmp[cSha[p]]][f] = "full"
    /\ cPc[p] = "write" =>
         cInode[p] = cTmp[cSha[p]] /\ cContent[cInode[p]][cAt[p]] = p
    /\ cPc[p] = "done" => cDir[cSha[p]] # None

CacheInv == C!TypeOK /\ OneName /\ Named /\ Download

LEMMA InitCache == C!Init => CacheInv
  <1> SUFFICES ASSUME C!Init PROVE CacheInv
    OBVIOUS
  <1>1. C!TypeOK
    BY CacheAssumed DEF C!Init, C!TypeOK, C!Labels, C!Files
  <1>2. OneName /\ Named /\ Download
    BY DEF C!Init, OneName, Named, Download, Downloading
  <1>3. QED
    BY <1>1, <1>2 DEF CacheInv

\* The command ends, or goes on to look for the commit, and the directories are
\* as they were.
LEMMA NoDownload ==
  ASSUME OneUser, CacheInv, NEW p \in Procs,
         cPc' = [cPc EXCEPT ![p] = cPc'[p]],
         cPc'[p] \notin Downloading,
         cPc'[p] \in {"ref", "write_ref"} => cSha'[p] \in Commits,
         cPc'[p] = "done" => cDir[cSha[p]] # None /\ cSha' = cSha,
         UNCHANGED <<cDir, cTmp>>,
         \A c \in Commits : cDir[c] # None => cContent'[cDir[c]] = cContent[cDir[c]]
  PROVE  OneName' /\ Named' /\ Download'
  <1>1. OneName' /\ Named'
    BY DEF CacheInv, OneName, Named, Whole
  <1>2. Download'
    BY DEF OneUser, Download, Downloading
  <1>3. QED
    BY <1>1, <1>2

LEMMA NextCache ==
  ASSUME OneUser, CacheInv, C!Next
  PROVE  CacheInv'
  <1> USE DEF CacheInv
  <1>1. CASE C!Push
    BY <1>1 DEF C!Push, C!disk, C!TypeOK, OneName, Named, Whole, Download, Downloading
  <1>2. ASSUME NEW p \in Procs, C!Start(p) PROVE CacheInv'
    <2>1. C!TypeOK'
      BY <1>2 DEF C!Start, C!Goto, C!disk, C!TypeOK, C!Labels
    <2>2. cPc'[p] = "resolve"
      BY <1>2 DEF C!Start, C!Goto, C!TypeOK
    <2>3. OneName' /\ Named' /\ Download'
      BY <1>2, <2>2, NoDownload DEF C!Start, C!Goto, C!disk, Downloading
    <2>4. QED
      BY <2>1, <2>3
  <1>3. ASSUME NEW p \in Procs,
               C!ResolveRef(p) \/ C!TruncateRef(p) \/ C!WriteRef(p) \/ C!RefNotWritten(p)
        PROVE  CacheInv'
    <2>1. C!TypeOK'
      BY <1>3 DEF C!ResolveRef, C!TruncateRef, C!WriteRef, C!RefNotWritten, C!Goto, C!disk,
                  C!TypeOK, C!Labels, Download
    <2>2. cPc'[p] \in {"ref", "write_ref", "look"} /\ UNCHANGED <<cDir, cTmp, cContent>>
      BY <1>3 DEF C!ResolveRef, C!TruncateRef, C!WriteRef, C!RefNotWritten, C!Goto, C!disk, C!TypeOK
    <2>3. OneName' /\ Named' /\ Download'
      <3>1. cPc'[p] \in {"ref", "write_ref"} => cSha'[p] \in Commits
        BY <1>3, <2>2 DEF C!ResolveRef, C!TruncateRef, C!WriteRef, C!RefNotWritten, C!Goto, C!TypeOK,
                          Download
      <3>2. cPc' = [cPc EXCEPT ![p] = cPc'[p]]
        BY <1>3, <2>2 DEF C!ResolveRef, C!TruncateRef, C!WriteRef, C!RefNotWritten, C!Goto, C!TypeOK
      <3>3. QED
        BY <2>2, <3>1, <3>2, NoDownload DEF Downloading
    <2>4. QED
      BY <2>1, <2>3
  <1>4. ASSUME NEW p \in Procs, C!Fallback(p) PROVE CacheInv'
    <2>1. /\ cPc'[p] \in {"failed", "panic", "look"} /\ UNCHANGED <<cHead, C!disk>>
          /\ cPc' = [cPc EXCEPT ![p] = cPc'[p]]
          /\ cSha' = cSha \/ (cSha' = [cSha EXCEPT ![p] = cRefFile] /\ cRefFile \in Commits)
          /\ cPc'[p] = "look" => cSha' = [cSha EXCEPT ![p] = cRefFile] /\ cRefFile \in Commits
          /\ cAt' \in [Procs -> 1..NFiles + 1] /\ cInode' \in [Procs -> Inodes \cup {None}]
      BY <1>4, CacheAssumed DEF C!Fallback, C!Finish, C!Goto, C!TypeOK, C!Torn
    <2>2. C!TypeOK'
      BY <2>1 DEF OneUser, C!TypeOK, C!Labels, C!disk
    <2>3. OneName' /\ Named' /\ Download'
      BY <2>1, NoDownload DEF C!disk, Downloading
    <2>4. QED
      BY <2>2, <2>3
  <1>5. ASSUME NEW p \in Procs, C!Look(p) PROVE CacheInv'
    <2>0. cSha[p] \in Commits /\ UNCHANGED <<cHead, C!disk, cSha>>
      BY <1>5 DEF C!Look, C!TypeOK
    <2>1. C!TypeOK'
      BY <1>5, CacheAssumed DEF C!Look, C!Finish, C!Goto, C!disk, C!TypeOK, C!Labels
    <2>2. CASE C!Cached(cSha[p])
      <3>1. cPc'[p] = "done" /\ cDir[cSha[p]] # None /\ cPc' = [cPc EXCEPT ![p] = cPc'[p]]
        BY <1>5, <2>2 DEF C!Look, C!Finish, C!Goto, C!TypeOK, C!Cached
      <3>2. QED
        BY <2>0, <2>1, <3>1, NoDownload DEF C!disk, Downloading
    <2>3. CASE ~C!Cached(cSha[p])
      <3>1. /\ cPc'[p] = "clean" /\ cInode'[p] = cTmp[cSha[p]]
            /\ UNCHANGED <<cDir, cTmp, cContent, cSha>>
        BY <1>5, <2>3 DEF C!Look, C!Goto, C!disk, C!TypeOK
      <3>2. cDir[cSha[p]] = None
        <4>1. Marker \in Marker..NFiles /\ Marker \in C!Files
          BY CacheAssumed DEF C!Files
        <4>2. QED
          BY <2>0, <2>3, <4>1 DEF C!Cached, Named, Whole
      <3>3. OneName' /\ Named'
        BY <3>1 DEF OneName, Named, Whole
      <3>4. Download'
        BY <3>1, <3>2 DEF OneUser, Download, Downloading
      <3>5. QED
        BY <2>1, <3>3, <3>4
    <2>4. QED
      BY <2>2, <2>3
  <1>6. ASSUME NEW p \in Procs, C!RemoveFile(p) PROVE CacheInv'
    <2>1. /\ cPc[p] = "clean" /\ cInode[p] \in Inodes /\ cAt[p] \in C!Files
          /\ cContent' = [cContent EXCEPT ![cInode[p]][cAt[p]] = "none"]
          /\ UNCHANGED <<cHead, cRefFile, cDir, cTmp, cPc, cSha, cInode>>
          /\ cAt' = [cAt EXCEPT ![p] = @ + 1]
          /\ cSha[p] \in Commits
      BY <1>6 DEF C!RemoveFile, C!TypeOK
    <2>2. C!TypeOK'
      <3>1. cAt[p] + 1 \in 1..NFiles + 1
        BY <2>1, CacheAssumed DEF C!Files
      <3>2. cAt' \in [Procs -> 1..NFiles + 1]
        BY <2>1, <3>1 DEF C!TypeOK
      <3>3. cContent' \in [Inodes -> [C!Files -> {"none", "part", "full"} \cup Procs]]
        BY <2>1 DEF C!TypeOK
      <3>4. QED
        BY <2>1, <3>2, <3>3 DEF C!TypeOK
    <2>3. cInode[p] = cTmp[cSha[p]]
      BY <2>1 DEF Download
    <2>4. \A c \in Commits : cDir[c] # None => cContent'[cDir[c]] = cContent[cDir[c]]
      BY <2>1, <2>3 DEF OneName, C!TypeOK
    <2>5. OneName' /\ Named'
      BY <2>1, <2>4 DEF OneName, Named, Whole
    <2>6. Download'
      BY <2>1 DEF OneUser, Download, Downloading
    <2>7. QED
      BY <2>2, <2>5, <2>6
  <1>7. ASSUME NEW p \in Procs, C!RemoveTmp(p) PROVE CacheInv'
    <2>1. /\ cPc[p] = "clean" /\ cPc'[p] = "extract" /\ cAt'[p] = 1
          /\ UNCHANGED <<cHead, cRefFile, cDir, cContent, cSha>>
          /\ cTmp' = cTmp \/ cTmp' = [cTmp EXCEPT ![cSha[p]] = None]
          /\ cSha[p] \in Commits
      BY <1>7 DEF C!RemoveTmp, C!Finish, C!Goto, C!TypeOK
    <2>2. C!TypeOK'
      <3>1. cPc' \in [Procs -> C!Labels] /\ cAt' \in [Procs -> 1..NFiles + 1]
        BY <1>7, CacheAssumed DEF C!RemoveTmp, C!Finish, C!Goto, C!TypeOK, C!Labels
      <3>2. cInode' \in [Procs -> Inodes \cup {None}]
        BY <1>7 DEF C!RemoveTmp, C!Finish, C!TypeOK
      <3>3. cTmp' \in [Commits -> Inodes \cup {None}] /\ \A c \in Commits : cDir[c] # None => cDir[c] # cTmp'[c]
        BY <2>1 DEF C!TypeOK
      <3>4. \A q \in Procs : cPc'[q] # "write" /\ (cPc'[q] \in {"look", "clean", "extract", "rename", "done"} => cSha[q] \in Commits)
        BY <2>1 DEF OneUser
      <3>5. QED
        BY <2>1, <3>1, <3>2, <3>3, <3>4 DEF C!TypeOK
    <2>3. OneName' /\ Named'
      BY <2>1 DEF OneName, Named, Whole, C!TypeOK
    <2>4. Download'
      <3>1. \A f \in C!Files : ~(f < 1)
        BY DEF C!Files
      <3>2. 1 \in C!Files
        BY CacheAssumed DEF C!Files
      <3>3. QED
        BY <2>1, <3>1, <3>2 DEF OneUser, Download, Downloading
    <2>5. QED
      BY <2>2, <2>3, <2>4
  <1>8. ASSUME NEW p \in Procs, C!OpenFile(p) PROVE CacheInv'
    <2>0. /\ cPc[p] = "extract" /\ cSha[p] \in Commits /\ cAt[p] \in C!Files
          /\ cDir[cSha[p]] = None
      BY <1>8 DEF C!OpenFile, C!TypeOK, Download, Downloading
    <2>1. PICK i \in Inodes :
            /\ IF cTmp[cSha[p]] = None
               THEN /\ i \in C!Unused
                    /\ cContent' = [cContent EXCEPT ![i] = [f \in C!Files |-> IF f = cAt[p] THEN p ELSE "none"]]
               ELSE /\ i = cTmp[cSha[p]]
                    /\ cContent' = [cContent EXCEPT ![i][cAt[p]] = p]
            /\ cTmp' = [cTmp EXCEPT ![cSha[p]] = i]
            /\ cInode' = [cInode EXCEPT ![p] = i]
      BY <1>8 DEF C!OpenFile
    <2>2. cPc'[p] = "write" /\ UNCHANGED <<cHead, cRefFile, cDir, cSha, cAt>>
      BY <1>8 DEF C!OpenFile, C!Goto, C!TypeOK
    <2>3. cTmp'[cSha[p]] = i /\ cInode'[p] = i /\ i # None
      BY <2>0, <2>1, CacheAssumed DEF C!TypeOK
    <2>4. \A c \in Commits : cDir[c] # None => cDir[c] # i
      BY <2>0, <2>1 DEF C!Unused, OneName
    <2>5. \A c \in Commits : c # cSha[p] => cTmp[c] # i
      BY <2>0, <2>1, CacheAssumed DEF C!Unused, OneName
    <2>6. /\ cContent'[i][cAt[p]] = p
          /\ \A j \in Inodes \ {i} : cContent'[j] = cContent[j]
      BY <2>0, <2>1 DEF C!TypeOK
    <2>7. C!TypeOK'
      <3>1. cPc' \in [Procs -> C!Labels]
        BY <1>8 DEF C!OpenFile, C!Goto, C!TypeOK, C!Labels
      <3>2. cContent' \in [Inodes -> [C!Files -> {"none", "part", "full"} \cup Procs]]
        <4>1. CASE cTmp[cSha[p]] = None
          BY <2>0, <2>1, <4>1 DEF C!TypeOK
        <4>2. CASE cTmp[cSha[p]] # None
          BY <2>0, <2>1, <4>2 DEF C!TypeOK
        <4>3. QED
          BY <4>1, <4>2
      <3>3. cTmp' \in [Commits -> Inodes \cup {None}] /\ cInode' \in [Procs -> Inodes \cup {None}]
        BY <2>1 DEF C!TypeOK
      <3>4. \A c \in Commits : cDir[c] # None => cDir[c] # cTmp'[c]
        BY <2>0, <2>1, <2>4 DEF C!TypeOK
      <3>5. \A q \in Procs : cInode'[q] \in Inodes /\ cSha[q] \in Commits
        BY <2>0, <2>3 DEF OneUser
      <3>6. QED
        BY <2>2, <3>1, <3>2, <3>3, <3>4, <3>5 DEF C!TypeOK
    <2>8. OneName'
      BY <2>1, <2>2, <2>4, <2>5 DEF OneName, C!TypeOK
    <2>9. Named'
      <3>1. \A c \in Commits : cDir[c] # None => cDir[c] \in Inodes \ {i}
        BY <2>4 DEF C!TypeOK
      <3>2. QED
        BY <2>2, <2>6, <3>1 DEF Named, Whole
    <2>10. Download'
      <3>1. ASSUME NEW f \in C!Files, f < cAt[p] PROVE cContent'[i][f] = "full"
        <4>1. cTmp[cSha[p]] # None /\ cContent[cTmp[cSha[p]]][f] = "full"
          BY <2>0, <3>1 DEF Download
        <4>2. cContent' = [cContent EXCEPT ![i][cAt[p]] = p] /\ i = cTmp[cSha[p]]
          BY <2>1, <4>1
        <4>3. f # cAt[p]
          BY <3>1, <2>0, CacheAssumed DEF C!Files
        <4>4. QED
          BY <4>1, <4>2, <4>3 DEF C!TypeOK
      <3>2. QED
        BY <2>0, <2>2, <2>3, <2>6, <3>1 DEF OneUser, Download, Downloading
    <2>11. QED
      BY <2>7, <2>8, <2>9, <2>10
  <1>9. ASSUME NEW p \in Procs, C!WriteFile(p) PROVE CacheInv'
    <2>0. /\ cPc[p] = "write" /\ cSha[p] \in Commits /\ cAt[p] \in C!Files
          /\ cDir[cSha[p]] = None /\ cInode[p] = cTmp[cSha[p]] /\ cInode[p] \in Inodes
          /\ cContent[cInode[p]][cAt[p]] = p
      BY <1>9 DEF C!WriteFile, C!TypeOK, Download, Downloading
    <2>1. /\ cContent' = [cContent EXCEPT ![cInode[p]][cAt[p]] = "full"]
          /\ cPc' = [cPc EXCEPT ![p] = IF cAt[p] = NFiles THEN "rename" ELSE "extract"]
          /\ cAt' = [cAt EXCEPT ![p] = @ + 1]
          /\ cInode' = [cInode EXCEPT ![p] = None]
          /\ UNCHANGED <<cHead, cRefFile, cDir, cTmp, cSha>>
      BY <1>9, <2>0 DEF C!WriteFile, C!Goto
    <2>2. cPc'[p] = (IF cAt[p] = NFiles THEN "rename" ELSE "extract") /\ cAt'[p] = cAt[p] + 1
      BY <2>1 DEF C!TypeOK
    <2>3. cAt[p] + 1 \in 1..NFiles + 1 /\ (cAt[p] # NFiles => cAt[p] + 1 \in C!Files)
      BY <2>0, CacheAssumed DEF C!Files
    <2>4. C!TypeOK'
      <3>1. cPc' \in [Procs -> C!Labels] /\ cAt' \in [Procs -> 1..NFiles + 1]
              /\ cInode' \in [Procs -> Inodes \cup {None}]
        BY <2>1, <2>3 DEF C!TypeOK, C!Labels
      <3>2. cContent' \in [Inodes -> [C!Files -> {"none", "part", "full"} \cup Procs]]
        BY <2>0, <2>1 DEF C!TypeOK
      <3>3. \A q \in Procs : cPc'[q] # "write" /\ cSha[q] \in Commits
        BY <2>0, <2>2 DEF OneUser
      <3>4. QED
        BY <2>1, <3>1, <3>2, <3>3 DEF C!TypeOK
    <2>5. \A c \in Commits : cDir[c] # None => cContent'[cDir[c]] = cContent[cDir[c]]
      BY <2>0, <2>1 DEF OneName, C!TypeOK
    <2>6. OneName' /\ Named'
      BY <2>1, <2>5 DEF OneName, Named, Whole
    <2>7. Download'
      <3>1. ASSUME NEW f \in C!Files, f < cAt[p] + 1
            PROVE  cTmp[cSha[p]] # None /\ cContent'[cTmp[cSha[p]]][f] = "full"
        <4>1. f < cAt[p] \/ f = cAt[p]
          BY <2>0, <3>1, CacheAssumed DEF C!Files
        <4>2. f < cAt[p] => cContent[cTmp[cSha[p]]][f] = "full"
          BY <2>0, <3>1 DEF Download
        <4>3. QED
          BY <2>0, <2>1, <4>1, <4>2, CacheAssumed DEF C!TypeOK
      <3>2. QED
        BY <2>0, <2>1, <2>2, <2>3, <3>1 DEF OneUser, Download, Downloading
    <2>8. QED
      BY <2>4, <2>6, <2>7
  <1>10. ASSUME NEW p \in Procs, C!Rename(p) PROVE CacheInv'
    <2>0. /\ cPc[p] = "rename" /\ cSha[p] \in Commits /\ cTmp[cSha[p]] \in Inodes
          /\ cDir[cSha[p]] = None
          /\ cDir' = [cDir EXCEPT ![cSha[p]] = cTmp[cSha[p]]]
          /\ cTmp' = [cTmp EXCEPT ![cSha[p]] = None]
          /\ UNCHANGED <<cHead, cRefFile, cContent, cSha>>
      BY <1>10 DEF C!Rename, C!TypeOK, Download, Downloading
    <2>1. cPc'[p] = "done"
      BY <1>10 DEF C!Rename, C!Finish, C!Goto, C!TypeOK
    <2>2. Whole(cTmp[cSha[p]])
      <3>1. \A f \in C!Files : f < cAt[p]
        BY <2>0, CacheAssumed DEF Download, C!Files
      <3>2. QED
        BY <2>0, <3>1 DEF Download, Whole
    <2>3. C!TypeOK'
      <3>1. cPc' \in [Procs -> C!Labels] /\ cAt' \in [Procs -> 1..NFiles + 1]
        BY <1>10, CacheAssumed DEF C!Rename, C!Finish, C!Goto, C!TypeOK, C!Labels
      <3>2. cInode' \in [Procs -> Inodes \cup {None}]
        BY <1>10 DEF C!Rename, C!Finish, C!TypeOK
      <3>3. cDir' \in [Commits -> Inodes \cup {None}] /\ cTmp' \in [Commits -> Inodes \cup {None}]
        BY <2>0 DEF C!TypeOK
      <3>4. \A c \in Commits : cDir'[c] # None => cDir'[c] # cTmp'[c]
        BY <2>0 DEF C!TypeOK
      <3>5. \A q \in Procs : cPc'[q] = "done" /\ cSha[q] \in Commits
        BY <2>0, <2>1 DEF OneUser
      <3>6. QED
        BY <2>0, <3>1, <3>2, <3>3, <3>4, <3>5 DEF C!TypeOK
    <2>4. OneName'
      BY <2>0 DEF OneName, C!TypeOK
    <2>5. Named'
      BY <2>0, <2>2 DEF Named, Whole, C!TypeOK
    <2>6. Download'
      <3>1. cDir'[cSha[p]] # None
        BY <2>0, CacheAssumed DEF C!TypeOK
      <3>2. QED
        BY <2>0, <2>1, <3>1 DEF OneUser, Download, Downloading
    <2>7. QED
      BY <2>3, <2>4, <2>5, <2>6
  <1>11. ASSUME NEW p \in Procs, C!Fail(p) PROVE CacheInv'
    <2>1. /\ cPc' = [cPc EXCEPT ![p] = "failed"] /\ cPc'[p] = "failed"
          /\ UNCHANGED <<cHead, cRefFile, cDir, cTmp, cSha>>
          /\ cContent' = C!Abandoned(p)
      BY <1>11 DEF C!Fail, C!Finish, C!Goto, C!TypeOK
    <2>2. \A c \in Commits : cDir[c] # None => cContent'[cDir[c]] = cContent[cDir[c]]
      <3>1. ASSUME NEW i \in Inodes, Whole(i) PROVE cContent'[i] = cContent[i]
        <4>1. cContent[i] = [f \in C!Files |-> cContent[i][f]]
          BY DEF C!TypeOK
        <4>2. \A f \in C!Files : cContent[i][f] # p
          BY <3>1, CacheAssumed DEF Whole
        <4>3. QED
          BY <2>1, <4>1, <4>2 DEF C!Abandoned
      <3>2. QED
        BY <3>1 DEF Named, C!TypeOK
    <2>3. C!TypeOK'
      <3>1. cPc' \in [Procs -> C!Labels] /\ cAt' \in [Procs -> 1..NFiles + 1]
        BY <1>11, CacheAssumed DEF C!Fail, C!Finish, C!Goto, C!TypeOK, C!Labels
      <3>2. cInode' \in [Procs -> Inodes \cup {None}]
        BY <1>11 DEF C!Fail, C!Finish, C!TypeOK
      <3>3. cContent' \in [Inodes -> [C!Files -> {"none", "part", "full"} \cup Procs]]
        BY <2>1 DEF C!Abandoned, C!TypeOK
      <3>4. \A q \in Procs : cPc'[q] = "failed"
        BY <2>1 DEF OneUser
      <3>5. QED
        BY <2>1, <3>1, <3>2, <3>3, <3>4 DEF C!TypeOK
    <2>4. OneName' /\ Named' /\ Download'
      BY <2>1, <2>2, NoDownload DEF Downloading
    <2>5. QED
      BY <2>3, <2>4
  <1>12. QED
    BY <1>1, <1>2, <1>3, <1>4, <1>5, <1>6, <1>7, <1>8, <1>9, <1>10, <1>11
      DEF C!Next, C!Step, C!Failure

\* The cache stays as it is while the user does something else.
LEMMA OtherCache == CacheInv /\ UNCHANGED cVars => CacheInv'
  BY DEF CacheInv, cVars, C!TypeOK, OneName, Named, Whole, Download, Downloading

AllNext == PoolNext \/ SecretNext \/ CacheNext \/ ViewNext

LEMMA AllCache ==
  ASSUME OneUser
  PROVE  AllSpec => []CacheInv
  <1>1. AllInit => CacheInv
    BY InitCache DEF AllInit
  <1>2. CacheInv /\ [AllNext]_allVars => CacheInv'
    <2>1. [AllNext]_allVars => C!Next \/ UNCHANGED cVars
      BY DEF AllNext, PoolNext, SecretNext, CacheNext, ViewNext, allVars
    <2>2. QED
      BY <2>1, NextCache, OtherCache
  <1>3. QED
    BY <1>1, <1>2, PTL DEF AllSpec, AllNext

\* With one user, a directory that EnsureModules returns is a complete copy of
\* the commit, whatever broke off before, for any tarball and any commits.
THEOREM CacheIsComplete ==
  ASSUME OneUser
  PROVE  AllSpec => []ReturnedIsComplete
  <1>1. CacheInv => ReturnedIsComplete
    BY DEF CacheInv, Download, Named, Whole, ReturnedIsComplete, C!ReturnedIsComplete, C!TypeOK
  <1>2. QED
    BY <1>1, AllCache, PTL

\* With one user, a commit that is in the cache is never downloaded again.
THEOREM DownloadedOnce ==
  ASSUME OneUser
  PROVE  AllSpec => NeverDownloadedTwice
  <1> DEFINE Once == \A p \in Procs : cPc[p] = "look" /\ cPc'[p] = "clean" => cDir[cSha[p]] = None
  <1>1. CacheInv' /\ [AllNext]_allVars => [Once]_C!vars
    <2> SUFFICES ASSUME CacheInv', [AllNext]_allVars, C!vars' # C!vars, NEW p \in Procs,
                        cPc[p] = "look", cPc'[p] = "clean"
                 PROVE  cDir[cSha[p]] = None
      OBVIOUS
    <2>0. cPc' # cPc
      OBVIOUS
    <2>1. C!Next
      BY <2>0 DEF AllNext, PoolNext, SecretNext, CacheNext, ViewNext, allVars, cVars
    <2>2. \/ C!Push
          \/ C!Start(p) \/ C!ResolveRef(p) \/ C!TruncateRef(p) \/ C!WriteRef(p) \/ C!Look(p)
          \/ C!RemoveFile(p) \/ C!RemoveTmp(p) \/ C!OpenFile(p) \/ C!WriteFile(p) \/ C!Rename(p)
          \/ C!Fallback(p) \/ C!RefNotWritten(p) \/ C!Fail(p)
      BY <2>1 DEF OneUser, C!Next, C!Step, C!Failure
    <2>3. C!Push \/ C!Start(p) \/ C!Look(p) \/ C!Fail(p)
      BY <2>2 DEF C!ResolveRef, C!TruncateRef, C!WriteRef, C!RemoveFile, C!RemoveTmp, C!OpenFile,
                  C!WriteFile, C!Rename, C!Fallback, C!RefNotWritten
    <2>4. cDir' = cDir /\ cSha'[p] = cSha[p]
      BY <2>3 DEF C!Push, C!Start, C!Ended, C!Look, C!Fail, C!disk
    <2>5. QED
      BY <2>4 DEF CacheInv, Download, Downloading
  <1>2. AllSpec => [][Once]_C!vars
    BY <1>1, AllCache, PTL DEF AllSpec, AllNext
  <1>3. QED
    BY <1>2 DEF NeverDownloadedTwice, C!NeverDownloadedTwice

-----------------------------------------------------------------------------
(* Numbers and sequences *)

\* A set of naturals that is not empty has a least element.
LEMMA HasLeast ==
  ASSUME NEW T \in SUBSET Nat, T # {}
  PROVE  \E m \in T : \A n \in T : m <= n
  <1> DEFINE R == OpToRel(<, Nat)
  <1>1. IsWellFoundedOn(R, Nat)
    BY NatLessThanWellFounded
  <1>2. \A m, n \in Nat : <<m, n>> \in R <=> m < n
    BY DEF OpToRel
  <1> HIDE DEF R
  <1>3. PICK m \in T : \A n \in T : <<n, m>> \notin R
    BY <1>1, WFMin
  <1>4. \A n \in T : ~(n < m)
    BY <1>2, <1>3
  <1>5. QED
    BY <1>4

\* One that is bounded has a greatest.
LEMMA HasGreatest ==
  ASSUME NEW k \in Nat, NEW T \in SUBSET (1..k), T # {}
  PROVE  \E m \in T : \A n \in T : m >= n
  <1> DEFINE U == {k - n : n \in T}
  <1>1. U \in SUBSET Nat /\ U # {}
    <2>1. \A n \in T : k - n \in Nat
      OBVIOUS
    <2>2. QED
      BY <2>1
  <1>2. PICK u \in U : \A w \in U : u <= w
    BY <1>1, HasLeast
  <1>3. PICK m \in T : u = k - m
    BY <1>2
  <1>4. \A n \in T : k - m <= k - n
    BY <1>2, <1>3
  <1>5. QED
    BY <1>3, <1>4

\* Induction, for the numbers up to n: a set that has the first of them and
\* with each the next has them all.
LEMMA Induction ==
  ASSUME NEW n \in Nat \ {0}, NEW T, 1 \in T,
         \A k \in 1..n : k \in T /\ k < n => k + 1 \in T
  PROVE  1..n \subseteq T
  <1> DEFINE Missing == (1..n) \ T
  <1>1. ASSUME Missing # {} PROVE FALSE
    <2>0. Missing \in SUBSET Nat
      OBVIOUS
    <2>1. PICK m \in Missing : \A k \in Missing : m <= k
      <3> HIDE DEF Missing
      <3>1. QED
        BY <1>1, <2>0, HasLeast
    <2>2. m # 1 /\ m - 1 \in 1..n /\ m - 1 < n
      BY <2>1
    <2>3. m - 1 \in T
      BY <2>1, <2>2
    <2>4. (m - 1) + 1 \in T
      BY <2>2, <2>3
    <2>5. QED
      BY <2>1, <2>4
  <1>2. QED
    BY <1>1

\* FlattenSeq puts one after the other.
LEMMA Flattened ==
  ASSUME NEW A, NEW ss \in Seq(Seq(A)), ss # <<>>
  PROVE  \E f \in [1..Len(ss) -> Seq(A)] :
           /\ f[1] = ss[1]
           /\ \A i \in 2..Len(ss) : f[i] = f[i - 1] \o ss[i]
           /\ S!FlattenSeq(ss) = f[Len(ss)]
  <1> DEFINE n == Len(ss)
             Flat(f, k) == f[1] = ss[1] /\ \A i \in 2..k : f[i] = f[i - 1] \o ss[i]
             T == {k \in 1..n : \E f \in [1..k -> Seq(A)] : Flat(f, k)}
  <1>1. n \in Nat \ {0} /\ \A i \in 1..n : ss[i] \in Seq(A)
    BY EmptySeq, LenProperties, ElementOfSeq
  <1>2. 1 \in T
    <2>1. [i \in 1..1 |-> ss[1]] \in [1..1 -> Seq(A)] /\ Flat([i \in 1..1 |-> ss[1]], 1)
      BY <1>1
    <2>2. \E f \in [1..1 -> Seq(A)] : Flat(f, 1)
      <3> HIDE DEF Flat
      <3>1. QED
        BY <2>1
    <2>3. 1 \in 1..n
      BY <1>1
    <2>4. QED
      BY <2>2, <2>3
  <1>3. ASSUME NEW k \in 1..n, k \in T, k < n PROVE k + 1 \in T
    <2>1. PICK f \in [1..k -> Seq(A)] : Flat(f, k)
      BY <1>3
    <2> DEFINE g == [i \in 1..(k + 1) |-> IF i = k + 1 THEN f[k] \o ss[k + 1] ELSE f[i]]
    <2>2. f[k] \o ss[k + 1] \in Seq(A)
      BY <1>1, <1>3, ConcatProperties
    <2>3. g \in [1..(k + 1) -> Seq(A)]
      BY <1>3, <2>2
    <2>4. Flat(g, k + 1)
      <3>1. g[1] = ss[1]
        BY <1>3, <2>1
      <3>2. ASSUME NEW i \in 2..(k + 1) PROVE g[i] = g[i - 1] \o ss[i]
        <4>1. CASE i = k + 1
          <5>1. g[i] = f[k] \o ss[k + 1] /\ g[i - 1] = f[k]
            BY <1>1, <1>3, <4>1
          <5>2. QED
            BY <4>1, <5>1
        <4>2. CASE i # k + 1
          <5>1. g[i] = f[i] /\ g[i - 1] = f[i - 1] /\ i \in 2..k
            BY <1>1, <1>3, <4>2
          <5>2. QED
            BY <2>1, <5>1
        <4>3. QED
          BY <4>1, <4>2
      <3>3. QED
        BY <3>1, <3>2
    <2>5. k + 1 \in 1..n
      BY <1>1, <1>3
    <2> HIDE DEF g
    <2>6. QED
      BY <2>3, <2>4, <2>5
  <1>4. n \in T
    <2> HIDE DEF T, n
    <2>1. 1..n \subseteq T
      BY <1>1, <1>2, <1>3, Induction
    <2>2. QED
      BY <1>1, <2>1
  <1>5. PICK f \in [1..n -> Seq(A)] : Flat(f, n)
    BY <1>4
  <1> DEFINE Body(g) == [i \in 1..n |-> IF i = 1 THEN ss[i] ELSE g[i - 1] \o ss[i]]
             flatten == CHOOSE g : g = Body(g)
  <1>6. f = Body(f)
    <2>1. f = [i \in 1..n |-> f[i]]
      BY <1>5
    <2>2. ASSUME NEW i \in 1..n PROVE f[i] = IF i = 1 THEN ss[i] ELSE f[i - 1] \o ss[i]
      <3>1. i = 1 \/ i \in 2..n
        BY <1>1
      <3>2. QED
        BY <1>5, <3>1
    <2> HIDE DEF n
    <2>3. QED
      BY <2>1, <2>2
  <1>7. flatten = Body(flatten)
    BY <1>6
  <1>8. S!FlattenSeq(ss) = flatten[n]
    BY <1>1 DEF S!FlattenSeq
  <1> HIDE DEF flatten
  <1>9. flatten[1] = ss[1] /\ \A i \in 2..n : flatten[i] = flatten[i - 1] \o ss[i]
    <2>1. ASSUME NEW i \in 1..n
          PROVE  flatten[i] = IF i = 1 THEN ss[i] ELSE flatten[i - 1] \o ss[i]
      BY <1>7
    <2>2. 1 \in 1..n /\ \A i \in 2..n : i \in 1..n /\ i # 1
      BY <1>1
    <2> HIDE DEF n
    <2>3. QED
      BY <2>1, <2>2
  <1>10. flatten \in [1..n -> Seq(A)]
    <2> DEFINE U == {k \in 1..n : flatten[k] \in Seq(A)}
    <2>1. 1 \in U
      BY <1>1, <1>9
    <2>2. ASSUME NEW k \in 1..n, k \in U, k < n PROVE k + 1 \in U
      <3>1. k + 1 \in 2..n /\ k + 1 \in 1..n /\ (k + 1) - 1 = k /\ flatten[k] \in Seq(A)
        BY <1>1, <2>2
      <3>2. flatten[k + 1] = flatten[k] \o ss[k + 1]
        BY <1>9, <3>1
      <3>3. flatten[k + 1] \in Seq(A)
        BY <1>1, <3>1, <3>2, ConcatProperties
      <3>4. QED
        BY <3>1, <3>3
    <2>3. 1..n \subseteq U
      <3> HIDE DEF U, n
      <3>1. QED
        BY <1>1, <2>1, <2>2, Induction
    <2>4. QED
      BY <1>7, <2>3
  <1>11. QED
    BY <1>8, <1>9, <1>10

-----------------------------------------------------------------------------
(* The format of the secret: what is written and what is read back *)

Quotes == {"dq", "sq"}

\* What stands between the quotes of KEY="value".
Middle(v) == S!FlattenSeq([i \in DOMAIN v |-> S!Escaped(v[i])])

LEMMA MiddleIs ==
  ASSUME NEW A, "dq" \in A, "bs" \in A, NEW v \in Seq(A)
  PROVE  /\ Middle(v) \in Seq(A)
         /\ v = <<>> => Middle(v) = <<>>
         /\ v # <<>> => Middle(v) # <<>> /\ Middle(v)[1] = S!Escaped(v[1])[1]
         /\ S!Plain(v) => Middle(v) = v
  <1> DEFINE n == Len(v)
             ss == [i \in 1..n |-> S!Escaped(v[i])]
  <1>1. n \in Nat /\ DOMAIN v = 1..n /\ \A i \in 1..n : v[i] \in A
    BY LenProperties, ElementOfSeq
  <1>2. \A i \in 1..n :
          /\ S!Escaped(v[i]) \in Seq(A)
          /\ Len(S!Escaped(v[i])) \in {1, 2}
          /\ v[i] \notin {"dq", "bs"} => S!Escaped(v[i]) = <<v[i]>>
    BY <1>1 DEF S!Escaped
  <1>3. Middle(v) = S!FlattenSeq(ss)
    BY <1>1 DEF Middle
  <1>4. ss \in Seq(Seq(A)) /\ Len(ss) = n /\ \A i \in 1..n : ss[i] = S!Escaped(v[i])
    BY <1>1, <1>2
  <1> HIDE DEF ss
  <1>5. CASE n = 0
    <2>1. v = <<>> /\ ss = <<>>
      BY <1>1, <1>4, <1>5, EmptySeq
    <2>2. Middle(v) = <<>>
      BY <1>3, <1>4, <1>5, <2>1 DEF S!FlattenSeq
    <2>3. QED
      BY <2>1, <2>2, EmptySeq
  <1>6. CASE n # 0
    <2>1. v # <<>> /\ ss # <<>> /\ n \in Nat \ {0} /\ 1 \in 1..n
      BY <1>1, <1>4, <1>6, EmptySeq
    <2>2. PICK f \in [1..n -> Seq(A)] :
            /\ f[1] = ss[1]
            /\ \A i \in 2..n : f[i] = f[i - 1] \o ss[i]
            /\ S!FlattenSeq(ss) = f[n]
      <3>1. \E f \in [1..Len(ss) -> Seq(A)] :
              /\ f[1] = ss[1]
              /\ \A i \in 2..Len(ss) : f[i] = f[i - 1] \o ss[i]
              /\ S!FlattenSeq(ss) = f[Len(ss)]
        BY <1>4, <2>1, Flattened
      <3>2. Len(ss) = n
        BY <1>4
      <3> HIDE DEF n
      <3>3. QED
        BY <3>1, <3>2
    <2>3. \A k \in 1..n : k < n =>
            /\ k + 1 \in 1..n /\ f[k + 1] = f[k] \o ss[k + 1]
            /\ f[k] \in Seq(A) /\ ss[k + 1] \in Seq(A)
      <3>1. ASSUME NEW k \in 1..n, k < n
            PROVE  k + 1 \in 1..n /\ k + 1 \in 2..n /\ (k + 1) - 1 = k
        BY <1>1, <3>1
      <3>2. \A k \in 1..n : f[k] \in Seq(A) /\ ss[k] \in Seq(A)
        BY <1>2, <1>4, <2>2
      <3>3. ASSUME NEW k \in 1..n, k < n PROVE f[k + 1] = f[k] \o ss[k + 1]
        <4>1. k + 1 \in 2..n /\ (k + 1) - 1 = k
          BY <3>1, <3>3
        <4>2. f[k + 1] = f[(k + 1) - 1] \o ss[k + 1]
          BY <2>2, <4>1
        <4>3. QED
          BY <4>1, <4>2
      <3>4. QED
        BY <3>1, <3>2, <3>3
    <2> DEFINE First == {k \in 1..n : Len(f[k]) >= 1 /\ f[k][1] = S!Escaped(v[1])[1]}
               Same == {k \in 1..n : Len(f[k]) = k /\ \A j \in 1..k : f[k][j] = v[j]}
    <2>4. n \in First
      <3>1. 1 \in First
        <4>0. Len(S!Escaped(v[1])) \in {1, 2}
          BY <1>2, <2>1
        <4>1. f[1] = S!Escaped(v[1])
          BY <1>4, <2>1, <2>2
        <4>2. f[1][1] = S!Escaped(v[1])[1]
          BY <4>1
        <4>3. Len(f[1]) = Len(S!Escaped(v[1]))
          BY <4>1
        <4>4. \A x \in {1, 2} : x >= 1
          OBVIOUS
        <4>5. Len(f[1]) >= 1
          BY <4>0, <4>3, <4>4, Zenon
        <4>6. QED
          BY <2>1, <4>2, <4>5
      <3>2. ASSUME NEW k \in 1..n, k \in First, k < n PROVE k + 1 \in First
        <4>1. /\ k + 1 \in 1..n /\ f[k + 1] = f[k] \o ss[k + 1]
              /\ f[k] \in Seq(A) /\ ss[k + 1] \in Seq(A)
              /\ Len(f[k]) >= 1 /\ f[k][1] = S!Escaped(v[1])[1]
          BY <2>3, <3>2
        <4>2. Len(f[k]) \in Nat /\ Len(ss[k + 1]) \in Nat
          BY <4>1, LenProperties
        <4>3. 1 \in 1..(Len(f[k]) + Len(ss[k + 1]))
          BY <4>1, <4>2
        <4>4. Len(f[k + 1]) = Len(f[k]) + Len(ss[k + 1]) /\ f[k + 1][1] = f[k][1]
          BY <4>1, <4>3, ConcatProperties
        <4>5. QED
          BY <4>1, <4>2, <4>4
      <3>3. 1..n \subseteq First
        <4> HIDE DEF First, n
        <4>1. QED
          BY <2>1, <3>1, <3>2, Induction
      <3>4. QED
        BY <2>1, <3>3
    <2>5. ASSUME S!Plain(v) PROVE n \in Same
      <3>1. \A i \in 1..n : ss[i] = <<v[i]>>
        BY <1>1, <1>2, <1>4, <2>5 DEF S!Plain, S!ToSet
      <3>2. 1 \in Same
        <4>1. f[1] = <<v[1]>>
          BY <2>1, <2>2, <3>1
        <4>2. Len(f[1]) = 1 /\ \A j \in 1..1 : f[1][j] = v[j]
          BY <4>1
        <4>3. QED
          BY <2>1, <4>2
      <3>3. ASSUME NEW k \in 1..n, k \in Same, k < n PROVE k + 1 \in Same
        <4>1. /\ k + 1 \in 1..n /\ f[k + 1] = f[k] \o <<v[k + 1]>>
              /\ f[k] \in Seq(A) /\ Len(f[k]) = k /\ \A j \in 1..k : f[k][j] = v[j]
              /\ <<v[k + 1]>> \in Seq(A)
          BY <2>3, <3>1, <3>3
        <4>2. Len(f[k + 1]) = k + 1
          BY <3>3, <4>1, ConcatProperties
        <4>3. ASSUME NEW j \in 1..(k + 1) PROVE f[k + 1][j] = v[j]
          <5>1. j \in 1..(Len(f[k]) + Len(<<v[k + 1]>>))
            BY <3>3, <4>1
          <5>2. f[k + 1][j] = IF j <= k THEN f[k][j] ELSE <<v[k + 1]>>[j - k]
            BY <4>1, <5>1, ConcatProperties
          <5>3. QED
            BY <3>3, <4>1, <5>2
        <4>4. QED
          BY <4>1, <4>2, <4>3
      <3>4. 1..n \subseteq Same
        <4> HIDE DEF Same, n
        <4>1. QED
          BY <2>1, <3>2, <3>3, Induction
      <3>5. QED
        BY <2>1, <3>4
    <2>6. Middle(v) = f[n] /\ f[n] \in Seq(A)
      BY <1>3, <2>1, <2>2
    <2>7. Middle(v) # <<>> /\ Middle(v)[1] = S!Escaped(v[1])[1]
      BY <2>4, <2>6, EmptySeq
    <2>8. S!Plain(v) => Middle(v) = v
      BY <1>1, <2>5, <2>6, SeqEqual
    <2>9. QED
      BY <2>1, <2>6, <2>7, <2>8
  <1>7. QED
    BY <1>5, <1>6

LEMMA FormatIs ==
  ASSUME NEW A, "dq" \in A, "bs" \in A, NEW v \in Seq(A)
  PROVE  LET t == S!FormatValue(v)
             m == Len(Middle(v))
         IN /\ t \in Seq(A) /\ m \in Nat /\ Len(t) = m + 2
            /\ t[1] = "dq" /\ t[m + 2] = "dq"
            /\ \A i \in 1..m : t[i + 1] = Middle(v)[i]
  <1> DEFINE t == S!FormatValue(v)
             m == Len(Middle(v))
             u == <<"dq">> \o Middle(v)
  <1>1. Middle(v) \in Seq(A) /\ m \in Nat /\ <<"dq">> \in Seq(A)
    BY MiddleIs, LenProperties
  <1>2. t = u \o <<"dq">>
    BY DEF S!FormatValue, Middle
  <1>3. u \in Seq(A) /\ Len(u) = m + 1
    BY <1>1, ConcatProperties
  <1>4. u[1] = "dq" /\ \A i \in 1..m : u[i + 1] = Middle(v)[i]
    <2>1. \A i \in 1..(1 + m) : u[i] = IF i <= 1 THEN <<"dq">>[i] ELSE Middle(v)[i - 1]
      BY <1>1, ConcatProperties
    <2>2. \A i \in 1..m : i + 1 \in 1..(1 + m) /\ ~(i + 1 <= 1) /\ (i + 1) - 1 = i
      BY <1>1
    <2>3. 1 \in 1..(1 + m)
      BY <1>1
    <2> HIDE DEF u, m
    <2>4. QED
      BY <2>1, <2>2, <2>3
  <1>5. t \in Seq(A) /\ Len(t) = m + 2
    BY <1>1, <1>2, <1>3, ConcatProperties
  <1>6. \A i \in 1..(m + 2) : t[i] = IF i <= m + 1 THEN u[i] ELSE <<"dq">>[i - (m + 1)]
    <2>1. \A i \in 1..(Len(u) + 1) : t[i] = IF i <= Len(u) THEN u[i] ELSE <<"dq">>[i - Len(u)]
      BY <1>1, <1>2, <1>3, ConcatProperties
    <2>2. Len(u) + 1 = m + 2
      BY <1>1, <1>3
    <2>3. QED
      BY <1>3, <2>1, <2>2
  <1>7. t[1] = "dq" /\ t[m + 2] = "dq"
    BY <1>1, <1>4, <1>6
  <1>8. ASSUME NEW i \in 1..m PROVE t[i + 1] = Middle(v)[i]
    <2>1. i + 1 \in 1..(m + 2) /\ i + 1 <= m + 1
      BY <1>1
    <2>2. QED
      BY <1>4, <1>6, <2>1
  <1>9. QED
    BY <1>1, <1>5, <1>7, <1>8

\* strings.Trim: from the first character that is no quote to the last.
LEMMA ParseIs ==
  ASSUME NEW A, NEW t \in Seq(A)
  PROVE  /\ S!ParseValue(t) \in Seq(A)
         /\ S!ParseValue(t) # <<>> => S!ParseValue(t)[1] \notin Quotes
         /\ (\A i \in 1..Len(t) : t[i] \in Quotes) => S!ParseValue(t) = <<>>
         /\ \A m, l \in 1..Len(t) :
              /\ t[m] \notin Quotes /\ \A i \in 1..Len(t) : i < m => t[i] \in Quotes
              /\ t[l] \notin Quotes /\ \A i \in 1..Len(t) : i > l => t[i] \in Quotes
              => S!ParseValue(t) = SubSeq(t, m, l)
  <1> DEFINE n == Len(t)
             inner == {i \in 1..n : t[i] \notin Quotes}
  <1>1. n \in Nat /\ DOMAIN t = 1..n /\ \A i \in 1..n : t[i] \in A
    BY LenProperties, ElementOfSeq
  <1>2. S!ParseValue(t) = IF inner = {} THEN <<>> ELSE SubSeq(t, S!Min(inner), S!Max(inner))
    BY <1>1 DEF S!ParseValue, Quotes
  <1>3. inner \in SUBSET (1..n) /\ inner \in SUBSET Nat
    BY <1>1
  <1>4. CASE inner = {}
    BY <1>2, <1>4, EmptySeq
  <1>5. CASE inner # {}
    <2>1. PICK m \in inner : \A i \in inner : m <= i
      <3> HIDE DEF inner, n
      <3>1. QED
        BY <1>3, <1>5, HasLeast
    <2>2. PICK l \in inner : \A i \in inner : l >= i
      <3> HIDE DEF inner, n
      <3>1. QED
        BY <1>1, <1>3, <1>5, HasGreatest
    <2>3. S!Min(inner) = m
      BY <1>3, <2>1 DEF S!Min
    <2>4. S!Max(inner) = l
      BY <1>3, <2>2 DEF S!Max
    <2>5. S!ParseValue(t) = SubSeq(t, m, l) /\ m \in 1..n /\ l \in 1..n /\ m <= l
      BY <1>2, <1>5, <2>1, <2>2, <2>3, <2>4
    <2>6. \A i \in m..l : t[i] \in A
      BY <1>1, <2>5
    <2>7. /\ SubSeq(t, m, l) \in Seq(A)
          /\ Len(SubSeq(t, m, l)) = l - m + 1
          /\ SubSeq(t, m, l)[1] = t[m]
      <3>1. m \in Int /\ l \in Int
        BY <1>1, <2>5
      <3>2. /\ SubSeq(t, m, l) \in Seq(A)
            /\ Len(SubSeq(t, m, l)) = IF m <= l THEN l - m + 1 ELSE 0
            /\ \A i \in 1..(l - m + 1) : SubSeq(t, m, l)[i] = t[m + i - 1]
        BY <2>6, <3>1, SubSeqProperties
      <3>3. 1 \in 1..(l - m + 1) /\ m + 1 - 1 = m
        BY <1>1, <2>5
      <3>4. QED
        BY <2>5, <3>2, <3>3
    <2>8. SubSeq(t, m, l)[1] \notin Quotes
      BY <2>1, <2>7
    <2>9. ASSUME NEW m2 \in 1..n, NEW l2 \in 1..n,
                 t[m2] \notin Quotes, \A i \in 1..n : i < m2 => t[i] \in Quotes,
                 t[l2] \notin Quotes, \A i \in 1..n : i > l2 => t[i] \in Quotes
          PROVE  m2 = m /\ l2 = l
      BY <1>1, <2>1, <2>2, <2>5, <2>9
    <2>10. ~(\A i \in 1..n : t[i] \in Quotes)
      BY <1>5
    <2>11. QED
      BY <2>5, <2>7, <2>8, <2>9, <2>10
  <1>6. QED
    BY <1>4, <1>5

-----------------------------------------------------------------------------
(* The secret *)

LEMMA SecretsAssumed ==
  /\ Limit \in Nat /\ Given \cup Random \subseteq S!Values
  /\ Absent \notin [Keys -> S!Values]
  /\ Absent \notin [verb : Verbs, sets : S!Assignments \cup {Absent}]
  BY OneUserConstants DEF OneUserConstants, S!SecretsConstants

Letters == {"dq", "sq", "bs", "lt"} \cup UNION {S!ToSet(v) : v \in Given \cup Random}

LEMMA ValuesAre == S!Values = Seq(Letters) /\ "dq" \in Letters /\ "bs" \in Letters
  BY DEF S!Values, Letters

Secret == [Keys -> S!Values]
SecretCmds == [verb : Verbs, sets : S!Assignments \cup {Absent}]

\* What a put will write was made from what is in the parameter: set keeps the
\* keys it was not given, and generate, also that of apply, found nothing.
Held ==
  \A p \in Procs :
    /\ ~S!Ended(p) => sCmd[p] \in SecretCmds /\ (sCmd[p].verb = "set" <=> sCmd[p].sets # Absent)
    /\ sPc[p] = "put" => sNext[p] \in Secret
    /\ sPc[p] = "put" /\ sCmd[p].verb = "set" =>
         sNext[p] = S!Overlay(S!Read(sParam), sCmd[p].sets)
    /\ sPc[p] = "put" /\ sCmd[p].verb \in {"apply", "generate"} => sParam = Absent

SecretInv ==
  /\ S!TypeOK
  /\ sParam \in Secret \cup {Absent}
  /\ DOMAIN sCmd = Procs /\ DOMAIN sNext = Procs
  /\ Held

\* What is read: values of which none begins with a quote.
LEMMA ReadIs ==
  ASSUME sParam \in Secret \cup {Absent}
  PROVE  /\ S!Read(sParam) \in Secret
         /\ \A k \in Keys : S!Read(sParam)[k] # <<>> => S!Read(sParam)[k][1] \notin Quotes
  <1>1. CASE sParam = Absent
    <2>1. <<>> \in S!Values
      BY ValuesAre, EmptySeq
    <2>2. QED
      BY <1>1, <2>1 DEF S!Read, Secret
  <1>2. CASE sParam # Absent
    <2>1. S!Read(sParam) = [k \in Keys |-> S!ParseValue(sParam[k])]
      BY <1>2 DEF S!Read, S!ParseSecrets
    <2>2. \A k \in Keys : sParam[k] \in Seq(Letters)
      BY <1>2, ValuesAre DEF Secret
    <2>3. \A k \in Keys :
            /\ S!ParseValue(sParam[k]) \in Seq(Letters)
            /\ S!ParseValue(sParam[k]) # <<>> => S!ParseValue(sParam[k])[1] \notin Quotes
      BY <2>2, ParseIs
    <2>4. QED
      BY <2>1, <2>3, ValuesAre DEF Secret
  <1>3. QED
    BY <1>1, <1>2

\* What is read back of a value that was written: a plain value as it was, and
\* of any other at least that it is there.
LEMMA ReadBack ==
  ASSUME NEW v \in S!Values
  PROVE  LET back == S!ParseValue(S!FormatValue(v))
         IN /\ S!FormatValue(v) \in S!Values
            /\ S!Plain(v) => back = v
            /\ v # <<>> /\ v[1] \notin Quotes => back # <<>> /\ back[1] = v[1]
  <1> DEFINE t == S!FormatValue(v)
             mid == Middle(v)
             m == Len(mid)
  <1>1. v \in Seq(Letters) /\ "dq" \in Letters /\ "bs" \in Letters
    BY ValuesAre
  <1>2. /\ mid \in Seq(Letters) /\ m \in Nat
        /\ v = <<>> => mid = <<>>
        /\ v # <<>> => mid # <<>> /\ mid[1] = S!Escaped(v[1])[1]
        /\ S!Plain(v) => mid = v
    BY <1>1, MiddleIs, LenProperties
  <1>3. /\ t \in Seq(Letters) /\ Len(t) = m + 2 /\ t[1] = "dq" /\ t[m + 2] = "dq"
        /\ \A i \in 1..m : t[i + 1] = mid[i]
    BY <1>1, FormatIs
  <1> HIDE DEF t, mid, m
  <1>4. t \in S!Values
    BY <1>3, ValuesAre
  <1>5. ASSUME v = <<>> PROVE S!ParseValue(t) = <<>>
    <2>1. m = 0
      BY <1>2, <1>5, EmptySeq DEF m
    <2>2. \A i \in 1..Len(t) : t[i] \in Quotes
      BY <1>3, <2>1 DEF Quotes
    <2>3. QED
      BY <1>3, <2>2, ParseIs
  <1>6. ASSUME v # <<>>, v[1] \notin Quotes
        PROVE  S!ParseValue(t) # <<>> /\ S!ParseValue(t)[1] = v[1]
    <2>1. m \in Nat \ {0}
      BY <1>2, <1>6, EmptySeq DEF m
    <2>2. mid[1] = v[1]
      BY <1>2, <1>6 DEF S!Escaped, Quotes
    <2>3. t[2] = v[1] /\ 2 \in 1..Len(t)
      <3>1. 1 \in 1..m /\ 1 + 1 = 2
        BY <2>1
      <3>2. t[1 + 1] = mid[1]
        BY <1>3, <3>1
      <3>3. QED
        BY <1>3, <2>1, <2>2, <3>2
    <2> DEFINE inner == {i \in 1..Len(t) : t[i] \notin Quotes}
    <2>4. inner \in SUBSET (1..(m + 2)) /\ 2 \in inner
      BY <1>3, <1>6, <2>3
    <2>5. PICK l \in inner : \A i \in inner : l >= i
      <3>1. m + 2 \in Nat /\ inner # {}
        BY <2>1, <2>4
      <3> HIDE DEF inner
      <3>2. QED
        BY <2>4, <3>1, HasGreatest
    <2>6. \A i \in 1..Len(t) : i < 2 => t[i] \in Quotes
      BY <1>3, <2>1 DEF Quotes
    <2>7. /\ l \in 1..Len(t) /\ t[l] \notin Quotes /\ 2 <= l
          /\ \A i \in 1..Len(t) : i > l => t[i] \in Quotes
      BY <1>3, <2>1, <2>4, <2>5
    <2>8. S!ParseValue(t) = SubSeq(t, 2, l)
      BY <1>3, <1>6, <2>3, <2>6, <2>7, ParseIs
    <2>9. \A i \in 2..l : t[i] \in Letters
      <3>1. \A i \in 1..Len(t) : t[i] \in Letters
        BY <1>3, ElementOfSeq
      <3>2. QED
        BY <1>3, <2>1, <2>7, <3>1
    <2>10. Len(SubSeq(t, 2, l)) = l - 1 /\ SubSeq(t, 2, l)[1] = t[2] /\ SubSeq(t, 2, l) \in Seq(Letters)
      <3>1. 2 \in Int /\ l \in Int /\ 1 \in 1..(l - 2 + 1) /\ 2 + 1 - 1 = 2 /\ l - 2 + 1 = l - 1
        BY <1>3, <2>1, <2>7
      <3>2. /\ SubSeq(t, 2, l) \in Seq(Letters)
            /\ Len(SubSeq(t, 2, l)) = IF 2 <= l THEN l - 2 + 1 ELSE 0
            /\ \A i \in 1..(l - 2 + 1) : SubSeq(t, 2, l)[i] = t[2 + i - 1]
        BY <2>9, <3>1, SubSeqProperties
      <3>3. QED
        BY <2>7, <3>1, <3>2
    <2>11. SubSeq(t, 2, l) # <<>>
      <3>1. l - 1 # 0
        BY <1>3, <2>1, <2>7
      <3>2. QED
        BY <2>10, <3>1, EmptySeq
    <2>12. QED
      BY <2>3, <2>8, <2>10, <2>11
  <1>7. ASSUME S!Plain(v) PROVE S!ParseValue(t) = v
    <2>1. CASE v = <<>>
      BY <1>5, <2>1
    <2>2. CASE v # <<>>
      <3>1. /\ m = Len(v) /\ m \in Nat \ {0} /\ DOMAIN v = 1..m
            /\ \A i \in 1..m : t[i + 1] = v[i] /\ v[i] \notin Quotes /\ v[i] \in Letters
        <4>1. m = Len(v) /\ mid = v
          BY <1>2, <1>7 DEF m
        <4>2. m \in Nat \ {0} /\ DOMAIN v = 1..m /\ \A i \in 1..m : v[i] \in Letters
          BY <1>1, <2>2, <4>1, LenProperties, ElementOfSeq, EmptySeq
        <4>3. \A i \in 1..m : v[i] \notin Quotes
          BY <1>7, <4>2 DEF S!Plain, S!ToSet, Quotes
        <4>4. QED
          BY <1>3, <4>1, <4>2, <4>3
      <3>2. \A i \in 2..(m + 1) : t[i] = v[i - 1] /\ t[i] \notin Quotes /\ t[i] \in Letters
        <4>1. ASSUME NEW i \in 2..(m + 1) PROVE i - 1 \in 1..m /\ (i - 1) + 1 = i
          BY <3>1
        <4>2. QED
          BY <3>1, <4>1
      <3>3. /\ 2 \in 1..Len(t) /\ m + 1 \in 1..Len(t) /\ 2 \in 2..(m + 1) /\ m + 1 \in 2..(m + 1)
            /\ \A i \in 1..Len(t) : i < 2 => i = 1
            /\ \A i \in 1..Len(t) : i > m + 1 => i = m + 2
        BY <1>3, <3>1
      <3>4. S!ParseValue(t) = SubSeq(t, 2, m + 1)
        <4>1. \A i \in 1..Len(t) : (i < 2 => t[i] \in Quotes) /\ (i > m + 1 => t[i] \in Quotes)
          BY <1>3, <3>3 DEF Quotes
        <4>2. t[2] \notin Quotes /\ t[m + 1] \notin Quotes
          BY <3>2, <3>3
        <4>3. QED
          BY <1>3, <3>3, <4>1, <4>2, ParseIs
      <3>5. SubSeq(t, 2, m + 1) = v
        <4>1. 2 \in Int /\ m + 1 \in Int /\ 2 <= m + 1 /\ (m + 1) - 2 + 1 = m
          BY <3>1
        <4>2. /\ SubSeq(t, 2, m + 1) \in Seq(Letters)
              /\ Len(SubSeq(t, 2, m + 1)) = IF 2 <= m + 1 THEN (m + 1) - 2 + 1 ELSE 0
              /\ \A i \in 1..((m + 1) - 2 + 1) : SubSeq(t, 2, m + 1)[i] = t[2 + i - 1]
          BY <3>2, <4>1, SubSeqProperties
        <4>3. \A i \in 1..m : 2 + i - 1 = i + 1
          BY <3>1
        <4>4. /\ Len(SubSeq(t, 2, m + 1)) = Len(v)
              /\ \A i \in 1..Len(v) : SubSeq(t, 2, m + 1)[i] = v[i]
          BY <3>1, <4>1, <4>2, <4>3
        <4>5. Len(SubSeq(t, 2, m + 1)) = Len(v)
          BY <4>4
        <4>6. QED
          BY <1>1, <4>2, <4>4, SeqEqual
      <3>6. QED
        BY <3>4, <3>5
    <2>3. QED
      BY <2>1, <2>2
  <1>8. QED
    BY <1>4, <1>6, <1>7 DEF t

LEMMA FormatSecretsIs ==
  ASSUME NEW s \in Secret
  PROVE  S!FormatSecrets(s) \in Secret /\ S!FormatSecrets(s) # Absent
  <1>1. \A k \in Keys : S!FormatValue(s[k]) \in S!Values
    BY ReadBack DEF Secret
  <1>2. S!FormatSecrets(s) \in Secret
    BY <1>1 DEF S!FormatSecrets, Secret
  <1>3. QED
    BY <1>2, SecretsAssumed DEF Secret

LEMMA InitSecret == S!Init => SecretInv
  <1> SUFFICES ASSUME S!Init PROVE SecretInv
    OBVIOUS
  <1>1. S!TypeOK
    BY DEF S!Init, S!TypeOK, S!Ended
  <1>2. Held /\ DOMAIN sCmd = Procs /\ DOMAIN sNext = Procs
    BY DEF S!Init, Held, S!Ended
  <1>3. QED
    BY <1>1, <1>2 DEF SecretInv, S!Init

\* A command ends.
LEMMA FinishSecret ==
  ASSUME OneUser, SecretInv, NEW p \in Procs, NEW r \in {"ok", "failed"}, S!Finish(p, r),
         sParam' \in Secret \cup {Absent},
         sParam' # Absent => \A k \in Keys : Len(sParam'[k]) <= Limit
  PROVE  SecretInv'
  <1>1. /\ sPc' = [sPc EXCEPT ![p] = r] /\ sCmd' = [sCmd EXCEPT ![p] = Absent]
        /\ sNext' = [sNext EXCEPT ![p] = Absent]
        /\ sPc \in [Procs -> {"idle", "read", "put", "check", "delete", "ok", "failed"}]
        /\ DOMAIN sCmd = Procs /\ DOMAIN sNext = Procs
    BY DEF S!Finish, S!Goto, SecretInv, S!TypeOK
  <1>2. DOMAIN sCmd' = Procs /\ DOMAIN sNext' = Procs
    BY <1>1
  <1>3. \A q \in Procs : sPc'[q] = r /\ sCmd'[q] = Absent
    BY <1>1 DEF OneUser
  <1>4. S!TypeOK'
    <2>1. sPc' \in [Procs -> {"idle", "read", "put", "check", "delete", "ok", "failed"}]
      BY <1>1
    <2>2. \A q \in Procs : (S!Ended(q)' <=> sCmd'[q] = Absent) /\ sPc'[q] # "put"
      BY <1>3 DEF S!Ended
    <2>3. sParam' # Absent => \A k \in Keys : sParam'[k] \in S!Values /\ Len(sParam'[k]) <= Limit
      BY DEF Secret
    <2>4. QED
      BY <2>1, <2>2, <2>3 DEF S!TypeOK
  <1>5. Held'
    BY <1>3 DEF Held, S!Ended
  <1>6. QED
    BY <1>2, <1>4, <1>5 DEF SecretInv

\* A command goes on, and the secret stays as it is.
LEMMA GotoSecret ==
  ASSUME OneUser, SecretInv, NEW p \in Procs, NEW l \in {"read", "put", "check", "delete"},
         S!Goto(p, l), sParam' \in Secret \cup {Absent},
         sParam' # Absent => \A k \in Keys : Len(sParam'[k]) <= Limit,
         DOMAIN sCmd' = Procs, DOMAIN sNext' = Procs,
         sCmd'[p] \in SecretCmds, sCmd'[p].verb = "set" <=> sCmd'[p].sets # Absent,
         l = "put" =>
           /\ sNext'[p] \in Secret
           /\ sCmd'[p].verb = "set" => sNext'[p] = S!Overlay(S!Read(sParam'), sCmd'[p].sets)
           /\ sCmd'[p].verb \in {"apply", "generate"} => sParam' = Absent
  PROVE  SecretInv'
  <1>1. /\ sPc' = [sPc EXCEPT ![p] = l]
        /\ sPc \in [Procs -> {"idle", "read", "put", "check", "delete", "ok", "failed"}]
    BY DEF S!Goto, SecretInv, S!TypeOK
  <1>2. sPc'[p] = l /\ \A q \in Procs : q = p
    BY <1>1 DEF OneUser
  <1>3. sCmd'[p] # Absent
    BY SecretsAssumed DEF SecretCmds
  <1>4. S!TypeOK'
    <2>1. sPc' \in [Procs -> {"idle", "read", "put", "check", "delete", "ok", "failed"}]
      BY <1>1
    <2>2. \A q \in Procs : S!Ended(q)' <=> sCmd'[q] = Absent
      BY <1>2, <1>3 DEF S!Ended
    <2>3. sParam' # Absent => \A k \in Keys : sParam'[k] \in S!Values /\ Len(sParam'[k]) <= Limit
      BY DEF Secret
    <2>4. \A q \in Procs : sPc'[q] = "put" => \A k \in Keys : sNext'[q][k] \in S!Values
      BY <1>2 DEF Secret
    <2>5. QED
      BY <2>1, <2>2, <2>3, <2>4 DEF S!TypeOK
  <1>5. Held'
    BY <1>2 DEF Held
  <1>6. QED
    BY <1>4, <1>5 DEF SecretInv

LEMMA NextSecret ==
  ASSUME OneUser
  PROVE  SecretInv /\ S!Next => SecretInv'
  <1> SUFFICES ASSUME SecretInv, S!Next PROVE SecretInv'
    OBVIOUS
  <1>0. /\ sParam \in Secret \cup {Absent} /\ DOMAIN sCmd = Procs /\ DOMAIN sNext = Procs
        /\ sParam # Absent => \A k \in Keys : Len(sParam[k]) <= Limit
        /\ sPc \in [Procs -> {"idle", "read", "put", "check", "delete", "ok", "failed"}]
    BY DEF SecretInv, S!TypeOK
  <1>1. ASSUME NEW p \in Procs, S!Start(p) PROVE SecretInv'
    <2>1. PICK v \in Verbs, sets \in S!Assignments \cup {Absent} :
            /\ v = "set" <=> sets # Absent
            /\ sCmd' = [sCmd EXCEPT ![p] = [verb |-> v, sets |-> sets]]
            /\ S!Goto(p, IF v = "delete" THEN "delete" ELSE "read")
      BY <1>1 DEF S!Start
    <2>2. /\ sCmd'[p] = [verb |-> v, sets |-> sets] /\ DOMAIN sCmd' = Procs
          /\ sParam' = sParam /\ sNext' = sNext
      BY <1>0, <1>1, <2>1 DEF S!Start
    <2>3. [verb |-> v, sets |-> sets] \in SecretCmds
      BY DEF SecretCmds
    <2>4. QED
      BY <1>0, <2>1, <2>2, <2>3, GotoSecret
  <1>2. ASSUME NEW p \in Procs, S!Fail(p) PROVE SecretInv'
    BY <1>0, <1>2, FinishSecret DEF S!Fail
  <1>3. ASSUME NEW p \in Procs, S!SetSecrets(p) PROVE SecretInv'
    <2>1. /\ sPc[p] = "read" /\ sCmd[p].verb = "set" /\ S!Goto(p, "put")
          /\ sParam' = sParam /\ sCmd' = sCmd
          /\ sNext' = [sNext EXCEPT ![p] = S!Overlay(S!Read(sParam), sCmd[p].sets)]
      BY <1>3 DEF S!SetSecrets
    <2>2. sCmd[p] \in SecretCmds /\ sCmd[p].sets # Absent
      BY <2>1 DEF SecretInv, Held, S!Ended
    <2>3. sCmd[p].sets \in S!Assignments
      BY <2>2 DEF SecretCmds
    <2>4. \A k \in DOMAIN sCmd[p].sets : sCmd[p].sets[k] \in S!Values
      BY <2>3, SecretsAssumed DEF S!Assignments
    <2>5. S!Overlay(S!Read(sParam), sCmd[p].sets) \in Secret
      BY <1>0, <2>4, ReadIs DEF S!Overlay, Secret
    <2>6. sNext'[p] = S!Overlay(S!Read(sParam), sCmd[p].sets) /\ DOMAIN sNext' = Procs
      BY <1>0, <2>1
    <2>7. QED
      BY <1>0, <2>1, <2>2, <2>5, <2>6, GotoSecret
  <1>4. ASSUME NEW p \in Procs, S!GenerateSecrets(p) PROVE SecretInv'
    <2>1. PICK s \in [Keys -> Random] : sNext' = [sNext EXCEPT ![p] = s]
      BY <1>4 DEF S!GenerateSecrets
    <2>2. /\ sPc[p] = "read" /\ sCmd[p].verb # "set" /\ S!Goto(p, "put")
          /\ sCmd[p].verb \in {"apply", "generate"} => sParam = Absent
          /\ sParam' = sParam /\ sCmd' = sCmd
      BY <1>4 DEF S!GenerateSecrets, S!Generates
    <2>3. sCmd[p] \in SecretCmds /\ (sCmd[p].verb = "set" <=> sCmd[p].sets # Absent)
      BY <2>2 DEF SecretInv, Held, S!Ended
    <2>4. s \in Secret /\ sNext'[p] = s /\ DOMAIN sNext' = Procs
      BY <1>0, <2>1, SecretsAssumed DEF Secret
    <2>5. QED
      BY <1>0, <2>2, <2>3, <2>4, GotoSecret
  <1>5. ASSUME NEW p \in Procs, S!LeaveAlone(p) PROVE SecretInv'
    <2>1. sParam' = sParam /\ sPc[p] = "read"
      BY <1>5 DEF S!LeaveAlone
    <2>2. CASE S!Finish(p, "ok")
      BY <1>0, <2>1, <2>2, FinishSecret
    <2>3. CASE S!Goto(p, "check") /\ UNCHANGED <<sCmd, sNext>>
      <3>1. sCmd[p] \in SecretCmds /\ (sCmd[p].verb = "set" <=> sCmd[p].sets # Absent)
        BY <2>1 DEF SecretInv, Held, S!Ended
      <3>2. QED
        BY <1>0, <2>1, <2>3, <3>1, GotoSecret
    <2>4. QED
      BY <1>5, <2>2, <2>3 DEF S!LeaveAlone
  <1>6. ASSUME NEW p \in Procs, S!PutSecrets(p) PROVE SecretInv'
    <2>1. /\ sPc[p] = "put" /\ sParam' = S!FormatSecrets(sNext[p])
          /\ \A k \in Keys : Len(S!FormatValue(sNext[p][k])) <= Limit
      BY <1>6 DEF S!PutSecrets
    <2>2. sNext[p] \in Secret
      BY <2>1 DEF SecretInv, Held
    <2>3. sParam' \in Secret
      BY <2>1, <2>2, FormatSecretsIs
    <2>4. \A k \in Keys : Len(sParam'[k]) <= Limit
      BY <2>1 DEF S!FormatSecrets
    <2>5. CASE S!Finish(p, "ok")
      BY <2>3, <2>4, <2>5, FinishSecret
    <2>6. CASE S!Goto(p, "check") /\ UNCHANGED <<sCmd, sNext>>
      <3>1. sCmd[p] \in SecretCmds /\ (sCmd[p].verb = "set" <=> sCmd[p].sets # Absent)
        BY <2>1 DEF SecretInv, Held, S!Ended
      <3>2. QED
        BY <1>0, <2>3, <2>4, <2>6, <3>1, GotoSecret
    <2>7. QED
      BY <1>6, <2>5, <2>6 DEF S!PutSecrets
  <1>7. ASSUME NEW p \in Procs, S!CheckSecrets(p) PROVE SecretInv'
    BY <1>0, <1>7, FinishSecret DEF S!CheckSecrets
  <1>8. ASSUME NEW p \in Procs, S!DeleteSecrets(p) PROVE SecretInv'
    BY <1>8, FinishSecret DEF S!DeleteSecrets
  <1>9. QED
    BY <1>1, <1>2, <1>3, <1>4, <1>5, <1>6, <1>7, <1>8 DEF S!Next

LEMMA OtherSecret == SecretInv /\ UNCHANGED sVars => SecretInv'
  BY DEF SecretInv, sVars, S!TypeOK, S!Ended, Held

LEMMA AllSecret ==
  ASSUME OneUser
  PROVE  AllSpec => []SecretInv
  <1>1. AllInit => SecretInv
    BY InitSecret DEF AllInit
  <1>2. SecretInv /\ [AllNext]_allVars => SecretInv'
    <2>1. [AllNext]_allVars => S!Next \/ UNCHANGED sVars
      BY DEF AllNext, PoolNext, SecretNext, CacheNext, ViewNext, allVars
    <2>2. QED
      BY <2>1, NextSecret, OtherSecret
  <1>3. QED
    BY <1>1, <1>2, PTL DEF AllSpec, AllNext

\* What puts a secret is PutSecrets.
LEMMA OnlyPut ==
  ASSUME OneUser, SecretInv, [AllNext]_allVars, sPc' # sPc, NEW p \in Procs, NEW verbs, S!Puts(p, verbs)
  PROVE  S!PutSecrets(p)
  <1>1. S!Next
    BY DEF AllNext, PoolNext, SecretNext, CacheNext, ViewNext, allVars, sVars
  <1>2. \/ S!Start(p) \/ S!SetSecrets(p) \/ S!GenerateSecrets(p) \/ S!LeaveAlone(p)
        \/ S!PutSecrets(p) \/ S!CheckSecrets(p) \/ S!DeleteSecrets(p) \/ S!Fail(p)
    BY <1>1 DEF S!Next, OneUser
  <1>3. sPc[p] = "put" /\ sPc'[p] # "failed" /\ sPc \in [Procs -> {"idle", "read", "put", "check", "delete", "ok", "failed"}]
    BY DEF S!Puts, SecretInv, S!TypeOK
  <1>4. ~S!Fail(p)
    BY <1>3 DEF S!Fail, S!Finish, S!Goto
  <1>5. QED
    BY <1>2, <1>3, <1>4 DEF S!Start, S!Ended, S!SetSecrets, S!GenerateSecrets, S!LeaveAlone,
                            S!CheckSecrets, S!DeleteSecrets

\* With one user, neither apply nor generate without --force ever replaces a
\* secret that is there, for any keys and values.
THEOREM SecretIsKept ==
  ASSUME OneUser
  PROVE  AllSpec => ExistingKept
  <1> DEFINE Kept == \A p \in Procs : S!Puts(p, {"apply", "generate"}) => sParam = Absent
  <1>1. SecretInv /\ [AllNext]_allVars => [Kept]_S!vars
    BY DEF SecretInv, Held, S!Puts
  <1>2. AllSpec => [][Kept]_S!vars
    BY <1>1, AllSecret, PTL DEF AllSpec, AllNext
  <1>3. QED
    BY <1>2 DEF ExistingKept, S!ExistingKept

\* With one user, `secrets set` leaves the plain values of the other keys as
\* they were, makes no key missing that it was not given, and plain values are
\* read back as they were given: for all keys, values and limits.
THEOREM SetIsReadBack ==
  ASSUME OneUser
  PROVE  AllSpec => SetKeepsSecret
  <1> DEFINE Kept ==
        \A p \in Procs : S!Puts(p, {"set"}) =>
          LET before == S!Read(sParam)
              after == S!Read(sParam')
              given == DOMAIN sCmd[p].sets
          IN /\ \A k \in Keys \ given : S!Plain(before[k]) => after[k] = before[k]
             /\ S!MissingSecrets(after) \subseteq S!MissingSecrets(before) \cup given
             /\ \A k \in given : S!Plain(sCmd[p].sets[k]) => after[k] = sCmd[p].sets[k]
  <1>1. SecretInv /\ [AllNext]_allVars => [Kept]_S!vars
    <2> SUFFICES ASSUME SecretInv, [AllNext]_allVars, NEW p \in Procs, S!Puts(p, {"set"})
                 PROVE  LET before == S!Read(sParam)
                            after == S!Read(sParam')
                            given == DOMAIN sCmd[p].sets
                        IN /\ \A k \in Keys \ given : S!Plain(before[k]) => after[k] = before[k]
                           /\ S!MissingSecrets(after) \subseteq S!MissingSecrets(before) \cup given
                           /\ \A k \in given : S!Plain(sCmd[p].sets[k]) => after[k] = sCmd[p].sets[k]
      OBVIOUS
    <2> DEFINE before == S!Read(sParam)
               after == S!Read(sParam')
               sets == sCmd[p].sets
    <2>1. sPc[p] = "put" /\ sCmd[p].verb = "set" /\ sPc' # sPc
      BY DEF S!Puts
    <2>2. S!PutSecrets(p)
      BY <2>1, OnlyPut
    <2>3. /\ sNext[p] = S!Overlay(before, sets) /\ sNext[p] \in Secret
          /\ sCmd[p] \in SecretCmds /\ sets # Absent
      BY <2>1 DEF SecretInv, Held, S!Ended
    <2>4. sets \in S!Assignments
      BY <2>3 DEF SecretCmds
    <2>5. DOMAIN sets \subseteq Keys
      BY <2>4 DEF S!Assignments
    <2>6. sParam' = S!FormatSecrets(sNext[p]) /\ sParam' # Absent
      BY <2>2, <2>3, FormatSecretsIs DEF S!PutSecrets
    <2>7. \A k \in Keys : after[k] = S!ParseValue(S!FormatValue(sNext[p][k]))
      BY <2>6 DEF S!Read, S!ParseSecrets, S!FormatSecrets
    <2>8. /\ \A k \in DOMAIN sets : sNext[p][k] = sets[k]
          /\ \A k \in Keys \ DOMAIN sets : sNext[p][k] = before[k]
      BY <2>3, <2>5 DEF S!Overlay
    <2>9. \A k \in Keys :
            /\ S!Plain(sNext[p][k]) => after[k] = sNext[p][k]
            /\ sNext[p][k] # <<>> /\ sNext[p][k][1] \notin Quotes
                 => after[k] # <<>> /\ after[k][1] = sNext[p][k][1]
      <3>1. \A k \in Keys : sNext[p][k] \in S!Values
        BY <2>3 DEF Secret
      <3>2. QED
        BY <2>7, <3>1, ReadBack
    <2>10. \A k \in Keys : before[k] # <<>> => before[k][1] \notin Quotes
      BY ReadIs DEF SecretInv
    <2> HIDE DEF before, after, sets
    <2>11. \A k \in Keys \ DOMAIN sets : S!Plain(before[k]) => after[k] = before[k]
      BY <2>8, <2>9
    <2>12. \A k \in DOMAIN sets : S!Plain(sets[k]) => after[k] = sets[k]
      BY <2>5, <2>8, <2>9
    <2>13. S!MissingSecrets(after) \subseteq S!MissingSecrets(before) \cup DOMAIN sets
      <3>1. ASSUME NEW k \in Keys, k \notin DOMAIN sets, before[k] # <<>>, before[k][1] # "lt"
            PROVE  after[k] # <<>> /\ after[k][1] # "lt"
        BY <2>8, <2>9, <2>10, <3>1
      <3>2. QED
        BY <3>1 DEF S!MissingSecrets
    <2>14. QED
      BY <2>11, <2>12, <2>13 DEF before, after, sets
  <1>2. AllSpec => [][Kept]_S!vars
    BY <1>1, AllSecret, PTL DEF AllSpec, AllNext
  <1>3. QED
    BY <1>2 DEF SetKeepsSecret, S!SetKeepsSecret

-----------------------------------------------------------------------------
(* The views *)

LEMMA ViewsAssumed ==
  /\ Metrics \subseteq Gateways /\ NoPool \notin Gateways /\ NoIp \notin Ips
  /\ Times \subseteq Nat /\ Ranges \subseteq Nat
  /\ Now \in Nat \ {0} /\ Scrape \in Nat \ {0} /\ Points \in Nat \ {0}
  /\ Shortest \in Nat \ {0} /\ Longest \in Nat \ {0} /\ Usual \in Nat \ {0}
  /\ Shortest <= Usual /\ Usual <= Longest /\ Longest <= Now
  BY OneUserConstants DEF OneUserConstants, V!PanelsConstants

\* Division of naturals.
LEMMA DivisionIs ==
  ASSUME NEW x \in Nat, NEW n \in Nat \ {0}
  PROVE  x \div n \in Nat /\ \A k \in Nat : k * n <= x => k <= x \div n
  OBVIOUS

\* A whole number of steps.
LEMMA WholeSteps ==
  ASSUME NEW x \in Nat, NEW n \in Nat \ {0}, x % n = 0
  PROVE  \E k \in Nat : x = k * n
  <1>1. x = (x \div n) * n /\ x \div n \in Nat
    OBVIOUS
  <1>2. QED
    BY <1>1

LEMMA MultipleIs ==
  ASSUME NEW m \in Nat, NEW n \in Nat \ {0}
  PROVE  /\ m * n \in Nat /\ (m * n) % n = 0 /\ (m * n) \div n = m
  OBVIOUS

LEMMA WindowIs ==
  ASSUME NEW w \in V!Windows
  PROVE  V!Start(w) \in Nat /\ V!End(w) \in Nat /\ V!Step(w) \in Nat \ {0}
  <1>1. V!Start(w) \in Nat /\ V!End(w) \in Nat
    <2>1. CASE V!Asked(w)
      <3>1. w \in [from : Times, to : Times]
        BY <2>1 DEF V!Asked, V!Windows
      <3>2. w.from \in Nat /\ w.to \in Nat
        BY <3>1, ViewsAssumed
      <3>3. V!Min({w.to, Now}) \in {w.to, Now}
        BY <3>2, ViewsAssumed DEF V!Min
      <3>4. QED
        BY <2>1, <3>2, <3>3, ViewsAssumed DEF V!Start, V!End
    <2>2. CASE ~V!Asked(w)
      <3>1. V!Span(w) \in Nat /\ V!Span(w) <= Now
        <4>1. CASE "range" \in DOMAIN w /\ w.range \in Shortest .. Longest
          BY <4>1, ViewsAssumed DEF V!Span
        <4>2. CASE ~("range" \in DOMAIN w /\ w.range \in Shortest .. Longest)
          BY <4>2, ViewsAssumed DEF V!Span
        <4>3. QED
          BY <4>1, <4>2
      <3>2. QED
        BY <2>2, <3>1, ViewsAssumed DEF V!Start, V!End
    <2>3. QED
      BY <2>1, <2>2
  <1>2. V!Step(w) \in Nat \ {0}
    <2> DEFINE d == IF V!End(w) < V!Start(w) THEN 0 ELSE (V!End(w) - V!Start(w)) \div Points
    <2>1. d \in Nat
      <3>1. CASE V!End(w) < V!Start(w)
        BY <3>1
      <3>2. CASE ~(V!End(w) < V!Start(w))
        <4>1. V!End(w) - V!Start(w) \in Nat
          BY <1>1, <3>2
        <4>2. (V!End(w) - V!Start(w)) \div Points \in Nat
          BY <4>1, ViewsAssumed, DivisionIs
        <4>3. QED
          BY <3>2, <4>2
      <3>3. QED
        BY <3>1, <3>2
    <2>2. V!Step(w) = V!Max({d, Scrape})
      BY DEF V!Step
    <2> HIDE DEF d
    <2>3. V!Max({d, Scrape}) \in {d, Scrape} /\ V!Max({d, Scrape}) >= Scrape
      BY <2>1, ViewsAssumed DEF V!Max
    <2>4. QED
      BY <2>1, <2>2, <2>3, ViewsAssumed
  <1>3. QED
    BY <1>1, <1>2

\* The grid of a time that does not end before it starts.
Ticks(w) == (V!End(w) - V!Start(w)) \div V!Step(w) + 1

LEMMA GridIs ==
  ASSUME NEW w \in V!Windows, V!Start(w) <= V!End(w)
  PROVE  /\ Ticks(w) \in Nat \ {0}
         /\ DOMAIN V!Grid(w) = 1 .. Ticks(w)
         /\ \A k \in 1 .. Ticks(w) : V!Grid(w)[k] = V!Start(w) + (k - 1) * V!Step(w)
         /\ V!Grid(w)[1] = V!Start(w)
         /\ V!Spacing(V!Grid(w)) = IF Ticks(w) > 1 THEN V!Step(w) ELSE 1
  <1> DEFINE n == Ticks(w)
             start == V!Start(w)
             step == V!Step(w)
  <1>1. start \in Nat /\ V!End(w) - start \in Nat /\ step \in Nat \ {0}
    BY WindowIs
  <1>2. n \in Nat \ {0}
    BY <1>1, DivisionIs DEF Ticks
  <1>3. V!Grid(w) = [k \in 1..n |-> start + (k - 1) * step]
    BY DEF V!Grid, Ticks
  <1> HIDE DEF n, start, step
  <1>4. \A k \in 1..n : start + (k - 1) * step \in Int
    BY <1>1, <1>2
  <1>5. V!Grid(w) \in Seq(Int) /\ Len(V!Grid(w)) = n /\ DOMAIN V!Grid(w) = 1..n
    BY <1>2, <1>3, <1>4
  <1>6. \A k \in 1..n : V!Grid(w)[k] = start + (k - 1) * step
    BY <1>3
  <1>7. V!Grid(w)[1] = start
    <2>1. 1 \in 1..n /\ start + (1 - 1) * step = start
      BY <1>1, <1>2
    <2>2. QED
      BY <1>6, <2>1
  <1>8. V!Spacing(V!Grid(w)) = IF n > 1 THEN step ELSE 1
    <2>1. CASE n > 1
      <3>1. 2 \in 1..n /\ start + (2 - 1) * step = start + step
        BY <1>1, <1>2, <2>1
      <3>2. V!Grid(w)[2] = start + step
        BY <1>6, <3>1
      <3>3. V!Grid(w)[2] - V!Grid(w)[1] = step
        BY <1>1, <1>7, <3>2
      <3>4. QED
        BY <1>5, <2>1, <3>3 DEF V!Spacing
    <2>2. CASE ~(n > 1)
      BY <1>5, <2>2 DEF V!Spacing
    <2>3. QED
      BY <2>1, <2>2
  <1>9. QED
    BY <1>2, <1>5, <1>6, <1>7, <1>8 DEF n, start, step

\* Times that are on the grid are drawn, each at its place, and nothing else is.
LEMMA ValuesAreDrawn ==
  ASSUME NEW w \in V!Windows, V!Start(w) <= V!End(w), NEW points \in SUBSET V!Between(w)
  PROVE  LET values == V!Values(V!Grid(w), points)
             drawn == {k \in DOMAIN values : values[k]}
         IN /\ \A t \in points : \E k \in DOMAIN values : values[k] /\ V!Grid(w)[k] = t
            /\ Cardinality(drawn) = Cardinality(points)
  <1> DEFINE n == Ticks(w)
             start == V!Start(w)
             step == V!Step(w)
             grid == V!Grid(w)
             spacing == V!Spacing(grid)
             values == V!Values(grid, points)
             drawn == {k \in DOMAIN values : values[k]}
             place == [t \in points |-> (t - start) \div step + 1]
  <1>1. /\ start \in Nat /\ V!End(w) \in Nat /\ step \in Nat \ {0} /\ start <= V!End(w)
        /\ n \in Nat \ {0} /\ DOMAIN grid = 1..n /\ grid[1] = start
        /\ \A k \in 1..n : grid[k] = start + (k - 1) * step
        /\ spacing = IF n > 1 THEN step ELSE 1
        /\ n = (V!End(w) - start) \div step + 1
    BY WindowIs, GridIs DEF Ticks
  <1>2. values = [k \in 1..n |-> \E t \in points : (t - start) % spacing = 0 /\ (t - start) \div spacing = k - 1]
    BY <1>1 DEF V!Values
  <1>3. ASSUME NEW t \in points
        PROVE  \E m \in Nat : t = start + m * step /\ t - start = m * step /\ m + 1 \in 1..n
    <2>1. t \in Nat /\ t - start \in Nat /\ t - start <= V!End(w) - start /\ (t - start) % step = 0
      BY <1>1 DEF V!Between
    <2>2. PICK m \in Nat : t - start = m * step
      BY <1>1, <2>1, WholeSteps
    <2>3. m <= (V!End(w) - start) \div step
      <3>1. V!End(w) - start \in Nat
        BY <1>1
      <3>2. m * step <= V!End(w) - start
        BY <2>1, <2>2
      <3> HIDE DEF start, step
      <3>3. QED
        BY <1>1, <3>1, <3>2, DivisionIs
    <2>4. m + 1 \in 1..n
      <3>1. (V!End(w) - start) \div step \in Nat
        <4>1. V!End(w) - start \in Nat
          BY <1>1
        <4>2. QED
          BY <1>1, <4>1, DivisionIs
      <3> HIDE DEF start, step, n
      <3>2. QED
        BY <1>1, <2>3, <3>1
    <2>5. t = start + m * step
      <3>1. m * step \in Nat
        BY <1>1
      <3>2. QED
        BY <1>1, <2>1, <2>2, <3>1
    <2>6. QED
      BY <2>2, <2>4, <2>5
  <1> HIDE DEF n, start, step, grid, spacing, values, drawn
  <1>4. ASSUME NEW t \in points
        PROVE  /\ place[t] \in 1..n /\ t = start + (place[t] - 1) * step
               /\ (t - start) % spacing = 0 /\ (t - start) \div spacing = place[t] - 1
    <2>1. PICK m \in Nat : t = start + m * step /\ t - start = m * step /\ m + 1 \in 1..n
      BY <1>3
    <2>2. (m * step) % step = 0 /\ (m * step) \div step = m
      BY <1>1, MultipleIs
    <2>3. place[t] = m + 1 /\ place[t] - 1 = m
      BY <2>1, <2>2
    <2>4. (t - start) % spacing = 0 /\ (t - start) \div spacing = m
      <3>1. CASE n > 1
        BY <1>1, <2>1, <2>2, <3>1
      <3>2. CASE ~(n > 1)
        <4>1. m = 0 /\ spacing = 1
          BY <1>1, <2>1, <3>2
        <4>2. m * step = 0
          BY <1>1, <4>1
        <4>3. t - start = 0
          BY <2>1, <4>2
        <4>4. QED
          BY <4>1, <4>3
      <3>3. QED
        BY <3>1, <3>2
    <2>5. QED
      BY <2>1, <2>3, <2>4
  <1>5. DOMAIN values = 1..n
    BY <1>2
  <1>6. \A t \in points : values[place[t]] /\ grid[place[t]] = t
    BY <1>1, <1>2, <1>4
  <1>7. ASSUME NEW k \in 1..n, values[k]
        PROVE  \E t \in points : place[t] = k
    <2>1. PICK t \in points : (t - start) \div spacing = k - 1
      BY <1>2, <1>7
    <2>2. place[t] - 1 = k - 1 /\ place[t] \in 1..n
      BY <1>4, <2>1
    <2>3. QED
      BY <1>1, <2>2
  <1>8. place \in Injection(points, drawn) /\ place \in Surjection(points, drawn)
    <2>1. \A t \in points : place[t] \in drawn
      BY <1>4, <1>5, <1>6 DEF drawn
    <2>2. place \in [points -> drawn]
      BY <2>1
    <2>3. \A s, t \in points : place[s] = place[t] => s = t
      BY <1>6
    <2>4. \A k \in drawn : \E t \in points : place[t] = k
      BY <1>5, <1>7 DEF drawn
    <2> HIDE DEF place
    <2>5. QED
      BY <2>2, <2>3, <2>4 DEF Injection, IsInjective, Surjection
  <1>9. Cardinality(drawn) = Cardinality(points)
    <2>1. IsFiniteSet(points)
      <3>1. IsFiniteSet(start .. V!End(w))
        BY <1>1, FS_Interval
      <3>2. points \in SUBSET (start .. V!End(w))
        BY DEF V!Between, start
      <3>3. QED
        BY <3>1, <3>2, FS_Subset
    <2>2. place \in Bijection(points, drawn)
      BY <1>8 DEF Bijection
    <2>3. ExistsBijection(points, drawn)
      BY <2>2 DEF ExistsBijection
    <2>4. QED
      BY <2>1, <2>3, FS_Bijection
  <1>10. \A t \in points : \E k \in DOMAIN values : values[k] /\ grid[k] = t
    BY <1>4, <1>5, <1>6
  <1>11. QED
    BY <1>9, <1>10 DEF grid, values, drawn

\* What the first k disks make of the RAIDs.
RaidsOf(disks, k, raids) ==
  /\ DOMAIN raids = {disks[j].ip : j \in 1..k}
  /\ \A i \in DOMAIN raids :
       /\ raids[i].noFailed <=> \A j \in 1..k : disks[j].ip = i => disks[j].noFailed
       /\ raids[i].stateOk <=> \A j \in 1..k : disks[j].ip = i => disks[j].stateOk
       /\ raids[i].ok <=> \A j \in 1..k : disks[j].ip = i =>
                            disks[j].value /\ disks[j].noFailed /\ disks[j].stateOk

LEMMA OneMoreDisk ==
  ASSUME NEW disks, NEW k \in Nat \ {0}, NEW raids, RaidsOf(disks, k - 1, raids)
  PROVE  RaidsOf(disks, k, V!AddDisk(raids, disks[k]))
  <1> DEFINE d == disks[k]
             new == V!AddDisk(raids, d)
             r == IF d.ip \in DOMAIN raids THEN raids[d.ip] ELSE [noFailed |-> TRUE, stateOk |-> TRUE, ok |-> TRUE]
             both == [noFailed |-> r.noFailed /\ d.noFailed, stateOk |-> r.stateOk /\ d.stateOk,
                      ok |-> r.ok /\ d.value /\ (r.noFailed /\ d.noFailed) /\ (r.stateOk /\ d.stateOk)]
  <1>1. new = [i \in DOMAIN raids \cup {d.ip} |-> IF i = d.ip THEN both ELSE raids[i]]
    BY DEF V!AddDisk
  <1>2. 1..k = (1..(k - 1)) \cup {k}
    OBVIOUS
  <1>3. DOMAIN new = {disks[j].ip : j \in 1..k}
    BY <1>1, <1>2 DEF RaidsOf
  <1>4. /\ r.noFailed <=> \A j \in 1..(k - 1) : disks[j].ip = d.ip => disks[j].noFailed
        /\ r.stateOk <=> \A j \in 1..(k - 1) : disks[j].ip = d.ip => disks[j].stateOk
        /\ r.ok <=> \A j \in 1..(k - 1) : disks[j].ip = d.ip =>
                        disks[j].value /\ disks[j].noFailed /\ disks[j].stateOk
    <2>1. CASE d.ip \in DOMAIN raids
      BY <2>1 DEF RaidsOf
    <2>2. CASE d.ip \notin DOMAIN raids
      <3>1. \A j \in 1..(k - 1) : disks[j].ip # d.ip
        BY <2>2 DEF RaidsOf
      <3>2. r.noFailed /\ r.stateOk /\ r.ok
        BY <2>2
      <3>3. QED
        BY <3>1, <3>2
    <2>3. QED
      BY <2>1, <2>2
  <1> HIDE DEF r, new
  <1>5. ASSUME NEW i \in DOMAIN new
        PROVE  /\ new[i].noFailed <=> \A j \in 1..k : disks[j].ip = i => disks[j].noFailed
               /\ new[i].stateOk <=> \A j \in 1..k : disks[j].ip = i => disks[j].stateOk
               /\ new[i].ok <=> \A j \in 1..k : disks[j].ip = i =>
                                    disks[j].value /\ disks[j].noFailed /\ disks[j].stateOk
    <2>1. CASE i = d.ip
      <3>1. new[i] = both
        BY <1>1, <2>1
      <3>2. /\ new[i].noFailed <=> r.noFailed /\ d.noFailed
            /\ new[i].stateOk <=> r.stateOk /\ d.stateOk
            /\ new[i].ok <=> r.ok /\ d.value /\ (r.noFailed /\ d.noFailed) /\ (r.stateOk /\ d.stateOk)
        <4>1. both.noFailed = (r.noFailed /\ d.noFailed)
          BY Zenon
        <4>2. both.stateOk = (r.stateOk /\ d.stateOk)
          BY Zenon
        <4>3. both.ok = (r.ok /\ d.value /\ (r.noFailed /\ d.noFailed) /\ (r.stateOk /\ d.stateOk))
          BY Zenon
        <4> HIDE DEF both
        <4>4. QED
          BY <3>1, <4>1, <4>2, <4>3, Zenon
      <3>4. \A j \in 1..k : j = k \/ j \in 1..(k - 1)
        BY <1>2
      <3>5. \A j \in 1..(k - 1) : j \in 1..k
        BY <1>2
      <3>6. k \in 1..k
        BY <1>2
      <3>7. new[i].noFailed <=> \A j \in 1..k : disks[j].ip = i => disks[j].noFailed
        BY <1>4, <2>1, <3>2, <3>4, <3>5, <3>6, Zenon
      <3>8. new[i].stateOk <=> \A j \in 1..k : disks[j].ip = i => disks[j].stateOk
        BY <1>4, <2>1, <3>2, <3>4, <3>5, <3>6, Zenon
      <3>9. new[i].ok => \A j \in 1..k : disks[j].ip = i =>
                           disks[j].value /\ disks[j].noFailed /\ disks[j].stateOk
        BY <1>4, <2>1, <3>2, <3>4, <3>5, <3>6, Zenon
      <3>10. (\A j \in 1..k : disks[j].ip = i =>
                           disks[j].value /\ disks[j].noFailed /\ disks[j].stateOk) => new[i].ok
        BY <1>4, <2>1, <3>2, <3>4, <3>5, <3>6, Zenon
      <3>11. QED
        BY <3>7, <3>8, <3>9, <3>10
    <2>2. CASE i # d.ip
      <3>1. i \in DOMAIN raids /\ new[i] = raids[i]
        BY <1>1, <2>2
      <3>2. QED
        BY <1>2, <2>2, <3>1 DEF RaidsOf
    <2>3. QED
      BY <2>1, <2>2
  <1>6. QED
    BY <1>3, <1>5 DEF RaidsOf, new

LEMMA RaidsAre ==
  ASSUME NEW n \in Nat, NEW disks \in [1..n -> V!Disk]
  PROVE  RaidsOf(disks, n, V!Raids(disks))
  <1> DEFINE Body(g, k) == [m \in 0..k |-> IF m = 0 THEN <<>> ELSE V!AddDisk(g[m - 1], disks[m])]
             T == {k \in 1..(n + 1) : \E f : f = Body(f, k - 1)}
             raids == CHOOSE f : f = Body(f, n)
  <1>1. Len(disks) = n
    BY LenProperties, SeqDef
  <1>2. 1 \in T
    <2> DEFINE z == [m \in 0..0 |-> <<>>]
    <2>0. \A m \in 0..0 : m = 0
      OBVIOUS
    <2>1. z = Body(z, 0)
      <3>1. \A m \in 0..0 : <<>> = IF m = 0 THEN <<>> ELSE V!AddDisk(z[m - 1], disks[m])
        BY <2>0
      <3> HIDE DEF z
      <3>2. [m \in 0..0 |-> <<>>] = Body(z, 0)
        BY <3>1, Zenon
      <3>3. z = [m \in 0..0 |-> <<>>]
        BY DEF z
      <3> HIDE DEF Body
      <3>4. QED
        BY <3>2, <3>3
    <2>2. \E f : f = Body(f, 1 - 1)
      <3> HIDE DEF Body, z
      <3>1. 1 - 1 = 0
        OBVIOUS
      <3>2. QED
        BY <2>1, <3>1
    <2> HIDE DEF Body
    <2>3. QED
      BY <2>2
  <1>3. ASSUME NEW k \in 1..(n + 1), k \in T, k < n + 1 PROVE k + 1 \in T
    <2>1. PICK f : f = Body(f, k - 1)
      BY <1>3
    <2> DEFINE g == [m \in 0..k |-> IF m = k THEN V!AddDisk(f[k - 1], disks[k]) ELSE f[m]]
    <2>2. ASSUME NEW m \in 0..k
          PROVE  g[m] = IF m = 0 THEN <<>> ELSE V!AddDisk(g[m - 1], disks[m])
      <3>1. CASE m = k
        <4>1. g[m] = V!AddDisk(f[k - 1], disks[k]) /\ g[m - 1] = f[k - 1] /\ m # 0
          BY <3>1
        <4>2. QED
          BY <3>1, <4>1
      <3>2. CASE m # k
        <4>1. m \in 0..(k - 1) /\ g[m] = f[m] /\ (m # 0 => g[m - 1] = f[m - 1])
          BY <3>2
        <4>2. f[m] = IF m = 0 THEN <<>> ELSE V!AddDisk(f[m - 1], disks[m])
          BY <2>1, <4>1
        <4>3. QED
          BY <4>1, <4>2
      <3>3. QED
        BY <3>1, <3>2
    <2>3. g = Body(g, k)
      <3>1. g = [m \in 0..k |-> g[m]]
        OBVIOUS
      <3> HIDE DEF g
      <3>2. QED
        BY <2>2, <3>1
    <2>4. k + 1 \in 1..(n + 1) /\ (k + 1) - 1 = k
      BY <1>3
    <2> HIDE DEF Body, g
    <2>5. QED
      BY <2>3, <2>4
  <1>4. raids = Body(raids, n)
    <2>1. \E f : f = Body(f, n)
      <3>1. 1..(n + 1) \subseteq T
        <4> HIDE DEF T
        <4>1. n + 1 \in Nat \ {0}
          OBVIOUS
        <4>2. QED
          BY <1>2, <1>3, <4>1, Induction
      <3>2. n + 1 \in T /\ (n + 1) - 1 = n
        BY <3>1
      <3>3. QED
        BY <3>2
    <2> HIDE DEF Body
    <2>2. QED
      BY <2>1
  <1>5. V!Raids(disks) = raids[n]
    BY <1>1 DEF V!Raids
  <1> HIDE DEF raids
  <1>6. raids[0] = <<>> /\ \A m \in 1..n : raids[m] = V!AddDisk(raids[m - 1], disks[m])
    <2>1. ASSUME NEW m \in 0..n
          PROVE  raids[m] = IF m = 0 THEN <<>> ELSE V!AddDisk(raids[m - 1], disks[m])
      BY <1>4
    <2>2. 0 \in 0..n /\ \A m \in 1..n : m \in 0..n /\ m # 0
      OBVIOUS
    <2>3. QED
      BY <2>1, <2>2
  <1> DEFINE U == {k \in 1..(n + 1) : RaidsOf(disks, k - 1, raids[k - 1])}
  <1>7. 1 \in U
    <2>1. RaidsOf(disks, 0, <<>>)
      BY DEF RaidsOf
    <2>2. QED
      BY <1>6, <2>1
  <1>8. ASSUME NEW k \in 1..(n + 1), k \in U, k < n + 1 PROVE k + 1 \in U
    <2>1. k \in 1..n /\ k \in Nat \ {0} /\ k + 1 \in 1..(n + 1) /\ (k + 1) - 1 = k
      BY <1>8
    <2>2. RaidsOf(disks, k, raids[k])
      BY <1>6, <1>8, <2>1, OneMoreDisk
    <2>3. QED
      BY <2>1, <2>2
  <1>9. 1..(n + 1) \subseteq U
    <2> HIDE DEF U
    <2>1. n + 1 \in Nat \ {0}
      OBVIOUS
    <2>2. QED
      BY <1>7, <1>8, <2>1, Induction
  <1>10. n + 1 \in U /\ (n + 1) - 1 = n
    BY <1>9
  <1>11. QED
    BY <1>5, <1>10

\* The pools that have answered gave an answer that they can give.
Replied ==
  /\ vRequest \in V!Requests
  /\ \A p \in DOMAIN vReplies : vReplies[p] \in V!Answers(vRequest, p) \cup {Failed}

\* The page has what was made of the replies of all.
Answered ==
  /\ DOMAIN vReplies = V!Shown(vRequest)
  /\ vAnswer.warnings = V!Warned
  /\ vAnswer.rows = V!AllRows
  /\ vRequest.view \in V!Tables => vAnswer.down = V!Down(vRequest, V!AllRows)

ViewInv ==
  /\ vPc = "idle" => vReplies = <<>>
  /\ vPc = "asking" => Replied
  /\ vPc = "answered" /\ vAnswer.status = 200 => Replied /\ Answered

LEMMA InitView == V!Init => ViewInv
  BY DEF V!Init, ViewInv

LEMMA PutView ==
  ASSUME ViewInv, NEW a, V!Put(a),
         a.status = 200 =>
           /\ a.warnings = V!Warned /\ a.rows = V!AllRows
           /\ vRequest.view \in V!Tables => a.down = V!Down(vRequest, V!AllRows)
  PROVE  ViewInv'
  <1>1. /\ vPc = "asking" /\ DOMAIN vReplies = V!Shown(vRequest) /\ vPc' = "answered"
        /\ vAnswer' = a /\ vRequest' = vRequest /\ vReplies' = vReplies
    BY DEF V!Put
  <1>2. Replied /\ Replied'
    BY <1>1 DEF ViewInv, Replied
  <1>3. V!Warned' = V!Warned /\ V!AllRows' = V!AllRows
    BY <1>1 DEF V!Warned, V!AllRows
  <1>4. ASSUME a.status = 200 PROVE Answered'
    BY <1>1, <1>3, <1>4 DEF Answered
  <1>5. QED
    BY <1>1, <1>2, <1>4 DEF ViewInv

LEMMA NextView == ViewInv /\ V!Next => ViewInv'
  <1> SUFFICES ASSUME ViewInv, V!Next PROVE ViewInv'
    OBVIOUS
  <1>1. ASSUME V!Ask PROVE ViewInv'
    <2>1. PICK r \in V!Requests :
            /\ vRequest' = r
            /\ IF V!Refused(r) THEN vPc' = "answered" /\ vAnswer' = V!BadRequest
               ELSE vPc' = "asking" /\ UNCHANGED vAnswer
      BY <1>1 DEF V!Ask
    <2>2. vReplies = <<>> /\ vReplies' = <<>>
      BY <1>1 DEF V!Ask, ViewInv
    <2>3. Replied'
      BY <2>1, <2>2 DEF Replied
    <2>4. vPc' = "answered" => vAnswer'.status # 200
      BY <2>1 DEF V!BadRequest
    <2>5. vPc' # "idle"
      BY <2>1
    <2>6. QED
      BY <2>3, <2>4, <2>5 DEF ViewInv
  <1>2. ASSUME NEW p \in Gateways, V!Reply(p) PROVE ViewInv'
    <2>1. PICK a \in V!Answers(vRequest, p) \cup {Failed} :
            vReplies' = [q \in DOMAIN vReplies \cup {p} |-> IF q = p THEN a ELSE vReplies[q]]
      BY <1>2 DEF V!Reply
    <2>2. vPc = "asking" /\ vPc' = "asking" /\ vRequest' = vRequest
      BY <1>2 DEF V!Reply
    <2>3. Replied
      BY <2>2 DEF ViewInv
    <2>4. ASSUME NEW q \in DOMAIN vReplies' PROVE vReplies'[q] \in V!Answers(vRequest, q) \cup {Failed}
      <3>1. CASE q = p
        BY <2>1, <3>1
      <3>2. CASE q # p
        BY <2>1, <2>3, <3>2 DEF Replied
      <3>3. QED
        BY <3>1, <3>2
    <2>5. Replied'
      BY <2>2, <2>3, <2>4 DEF Replied
    <2>6. QED
      BY <2>2, <2>5 DEF ViewInv
  <1>3. ASSUME V!AnswerTable PROVE ViewInv'
    <2> DEFINE a == [status |-> 200, warnings |-> V!Warned, rows |-> V!AllRows,
                     down |-> V!Down(vRequest, V!AllRows)]
    <2>1. V!Put(a)
      BY <1>3 DEF V!AnswerTable
    <2>2. a.warnings = V!Warned /\ a.rows = V!AllRows /\ a.down = V!Down(vRequest, V!AllRows)
      OBVIOUS
    <2> HIDE DEF a
    <2>3. QED
      BY <2>1, <2>2, PutView
  <1>4. ASSUME V!AnswerChart PROVE ViewInv'
    <2> DEFINE a == [status |-> 200, warnings |-> V!Warned, rows |-> V!AllRows]
    <2>1. V!Put(a) /\ vRequest.view \notin V!Tables
      BY <1>4 DEF V!AnswerChart, V!Charts, V!Tables
    <2>2. a.warnings = V!Warned /\ a.rows = V!AllRows
      OBVIOUS
    <2> HIDE DEF a
    <2>3. QED
      BY <2>1, <2>2, PutView
  <1>5. ASSUME V!AnswerHost PROVE ViewInv'
    <2> DEFINE b == [status |-> 200, warnings |-> {}, rows |-> V!AllRows]
               a == IF V!Warned # {} THEN V!BadGateway ELSE b
    <2>1. V!Put(a) /\ vRequest.view \notin V!Tables
      BY <1>5 DEF V!AnswerHost, V!Hosts, V!Tables
    <2>2. b.warnings = {} /\ b.rows = V!AllRows
      OBVIOUS
    <2>3. V!BadGateway.status # 200
      BY DEF V!BadGateway
    <2>4. a.status = 200 => a.warnings = V!Warned /\ a.rows = V!AllRows
      <3> HIDE DEF b
      <3>1. QED
        BY <2>2, <2>3
    <2> HIDE DEF a
    <2>5. QED
      BY <2>1, <2>4, PutView
  <1>6. ASSUME V!Again PROVE ViewInv'
    BY <1>6 DEF V!Again, ViewInv
  <1>7. QED
    BY <1>1, <1>2, <1>3, <1>4, <1>5, <1>6 DEF V!Next

LEMMA OtherView == ViewInv /\ UNCHANGED vVars => ViewInv'
  BY DEF ViewInv, vVars, Replied, Answered, V!Warned, V!AllRows

LEMMA AllView == AllSpec => []ViewInv
  <1>1. AllInit => ViewInv
    BY InitView DEF AllInit
  <1>2. ViewInv /\ [AllNext]_allVars => ViewInv'
    <2>1. [AllNext]_allVars => V!Next \/ UNCHANGED vVars
      BY DEF AllNext, PoolNext, SecretNext, CacheNext, ViewNext, allVars
    <2>2. QED
      BY <2>1, NextView, OtherView
  <1>3. QED
    BY <1>1, <1>2, PTL DEF AllSpec, AllNext

\* A pool's rows have its name.
LEMMA RowsAreNamed ==
  ASSUME NEW r, NEW p, NEW a
  PROVE  \A x \in V!Rows(r, p, a) : x.pool = p
  <1>1. \A x \in V!NodeRows(p, a) : x.pool = p
    BY DEF V!NodeRows
  <1>2. \A x \in V!RaidRows(p, a) \cup V!MountRows(p, a) : x.pool = p
    BY DEF V!RaidRows, V!MountRows
  <1>3. \A x \in V!VolumeRows(p, a) : x.pool = p
    BY DEF V!VolumeRows
  <1>4. \A x \in V!SnapshotRows(p, a) : x.pool = p
    BY DEF V!SnapshotRows
  <1>5. \A x \in {[pool |-> p, name |-> i] : i \in a} : x.pool = p
    OBVIOUS
  <1>6. \A x \in V!Lines(p, r.window, a) : x.pool = p
    BY DEF V!Lines
  <1>7. QED
    BY <1>1, <1>2, <1>3, <1>4, <1>5, <1>6 DEF V!Rows

\* In the answer they are those of its own reply, and none if it failed.
LEMMA RowsOfPool ==
  ASSUME vAnswer.rows = V!AllRows, NEW p \in DOMAIN vReplies
  PROVE  V!RowsOf(p) = IF vReplies[p] = Failed THEN {} ELSE V!Rows(vRequest, p, vReplies[p])
  <1> DEFINE RowsFrom(q) == V!Rows(vRequest, q, vReplies[q])
  <1>1. V!RowsOf(p) = {x \in V!AllRows : x.pool = p}
    BY DEF V!RowsOf
  <1>2. V!AllRows = UNION {RowsFrom(q) : q \in {q \in DOMAIN vReplies : vReplies[q] # Failed}}
    BY DEF V!AllRows
  <1>3. \A q : \A x \in RowsFrom(q) : x.pool = q
    BY RowsAreNamed
  <1> HIDE DEF RowsFrom
  <1>4. \A x : x \in V!RowsOf(p) <=> vReplies[p] # Failed /\ x \in RowsFrom(p)
    BY <1>1, <1>2, <1>3
  <1>5. QED
    BY <1>4 DEF RowsFrom

\* An instance has its own name for Cardinality.
LEMMA SameCardinality == \A T : V!Cardinality(T) = Cardinality(T)
  BY DEF V!Cardinality, Cardinality

LEMMA OverviewIs ==
  ASSUME NEW p, NEW a, vRequest.view = "overview", V!RowsOf(p) = V!Rows(vRequest, p, a), NEW i \in Ips
  PROVE  V!Cardinality({x \in V!RowsOf(p) : x.ip = i})
           = IF i \in a.members \cup a.hosts \/ a.up[i] # "none" THEN 1 ELSE 0
  <1> DEFINE Row(j) == [pool |-> p, ip |-> j, reports |-> j \in a.members, service |-> a.up[j],
                        kernel |-> j \in a.hosts]
             rows == {x \in V!RowsOf(p) : x.ip = i}
  <1>1. V!RowsOf(p) = {Row(j) : j \in V!Nodes(a)}
    BY DEF V!Rows, V!NodeRows
  <1>2. i \in V!Nodes(a) <=> i \in a.members \cup a.hosts \/ a.up[i] # "none"
    BY ViewsAssumed DEF V!Nodes
  <1>3. \A j : Row(j).ip = j
    OBVIOUS
  <1> HIDE DEF Row
  <1>4. CASE i \in V!Nodes(a)
    <2>1. rows = {Row(i)}
      BY <1>1, <1>3, <1>4
    <2>2. QED
      BY <1>2, <1>4, <2>1, FS_Singleton, SameCardinality
  <1>5. CASE i \notin V!Nodes(a)
    <2>1. rows = {}
      BY <1>1, <1>3, <1>5
    <2>2. QED
      BY <1>2, <1>5, <2>1, FS_EmptySet, SameCardinality
  <1>6. QED
    BY <1>4, <1>5

BrokenRaid(x) == "raid" \in DOMAIN x /\ ~x.raid.ok

\* What a row adds to the tiles above the table.
LEMMA DownIs ==
  ASSUME NEW p, NEW rows
  PROVE  /\ vRequest.view = "cache" => \A i : [pool |-> p, ip |-> i] \in V!Down(vRequest, rows)
               <=> \E x \in rows : BrokenRaid(x) /\ x.pool = p /\ x.ip = i
         /\ vRequest.view = "cache" => \A d : [pool |-> p, device |-> d] \in V!Down(vRequest, rows)
               <=> \E x \in rows : "device" \in DOMAIN x /\ x.pool = p /\ x.device = d
         /\ vRequest.view = "volumes" => \A i : [pool |-> p, name |-> i] \in V!Down(vRequest, rows)
               <=> \E x \in rows : ~x.ready /\ x.pool = p /\ x.name = i
  <1> DEFINE Host(q, i) == [pool |-> q, ip |-> i]
             Device(q, d) == [pool |-> q, device |-> d]
             Volume(q, i) == [pool |-> q, name |-> i]
  <1>1. \A q, i, d : Host(p, i) # Device(q, d)
    <2>1. ASSUME NEW q, NEW i, NEW d, Host(p, i) = Device(q, d) PROVE FALSE
      <3>1. DOMAIN Host(p, i) = {"pool", "ip"} /\ DOMAIN Device(q, d) = {"pool", "device"}
        OBVIOUS
      <3>2. QED
        BY <2>1, <3>1
    <2>2. QED
      BY <2>1
  <1>2. \A q, i, j : Host(p, i) = Host(q, j) <=> p = q /\ i = j
    OBVIOUS
  <1>3. \A q, i, j : Device(p, i) = Device(q, j) <=> p = q /\ i = j
    OBVIOUS
  <1>4. \A q, i, j : Volume(p, i) = Volume(q, j) <=> p = q /\ i = j
    OBVIOUS
  <1> HIDE DEF Host, Device, Volume
  <1>5. ASSUME vRequest.view = "cache"
        PROVE  /\ \A i : Host(p, i) \in V!Down(vRequest, rows)
                    <=> \E x \in rows : BrokenRaid(x) /\ x.pool = p /\ x.ip = i
               /\ \A d : Device(p, d) \in V!Down(vRequest, rows)
                    <=> \E x \in rows : "device" \in DOMAIN x /\ x.pool = p /\ x.device = d
    <2>1. V!Down(vRequest, rows) =
            {Host(x.pool, x.ip) : x \in {x \in rows : BrokenRaid(x)}}
              \cup {Device(x.pool, x.device) : x \in {x \in rows : "device" \in DOMAIN x}}
      BY <1>5 DEF V!Down, Host, Device, BrokenRaid
    <2> DEFINE broken == {x \in rows : BrokenRaid(x)}
               mounts == {x \in rows : "device" \in DOMAIN x}
               hosts == {Host(x.pool, x.ip) : x \in broken}
               devices == {Device(x.pool, x.device) : x \in mounts}
    <2>2. ASSUME NEW i PROVE Host(p, i) \in hosts <=> \E x \in broken : x.pool = p /\ x.ip = i
      <3> HIDE DEF broken
      <3>1. QED
        BY <1>2
    <2>3. ASSUME NEW d PROVE Device(p, d) \in devices <=> \E x \in mounts : x.pool = p /\ x.device = d
      <3> HIDE DEF mounts
      <3>1. QED
        BY <1>3
    <2>4. ASSUME NEW i PROVE Host(p, i) \notin devices
      <3> HIDE DEF mounts
      <3>1. QED
        BY <1>1
    <2>5. ASSUME NEW d PROVE Device(p, d) \notin hosts
      <3>1. \A q, i : Host(q, i) # Device(p, d)
        BY DEF Host, Device
      <3> HIDE DEF broken
      <3>2. QED
        BY <3>1
    <2>6. V!Down(vRequest, rows) = hosts \cup devices
      BY <2>1
    <2> HIDE DEF hosts, devices
    <2>7. \A i : Host(p, i) \in V!Down(vRequest, rows) <=> \E x \in broken : x.pool = p /\ x.ip = i
      <3> HIDE DEF broken
      <3>1. QED
        BY <2>2, <2>4, <2>6
    <2>8. \A d : Device(p, d) \in V!Down(vRequest, rows) <=> \E x \in mounts : x.pool = p /\ x.device = d
      <3> HIDE DEF mounts
      <3>1. QED
        BY <2>3, <2>5, <2>6
    <2>9. QED
      BY <2>7, <2>8
  <1>6. ASSUME vRequest.view = "volumes"
        PROVE  \A i : Volume(p, i) \in V!Down(vRequest, rows)
                 <=> \E x \in rows : ~x.ready /\ x.pool = p /\ x.name = i
    <2>1. V!Down(vRequest, rows) = {Volume(x.pool, x.name) : x \in {x \in rows : ~x.ready}}
      BY <1>6 DEF V!Down, Volume
    <2>2. QED
      BY <1>4, <2>1
  <1>7. QED
    BY <1>5, <1>6 DEF Host, Device, Volume

\* What a pool may answer.
LEMMA AnswersAre ==
  ASSUME NEW r \in V!Requests, NEW p, NEW a \in V!Answers(r, p)
  PROVE  /\ r.view = "cache" => \E n \in Nat : a.disks \in [1..n -> V!Disk]
         /\ r.view \in V!Charts \cup {"hostSeries"} =>
              /\ r.window \in V!Windows /\ V!Start(r.window) <= V!End(r.window)
              /\ DOMAIN a = V!Drawn(r, p)
              /\ \A i \in DOMAIN a : a[i] \subseteq V!Between(r.window)
  <1>1. a \in V!Replies(r, p) \/ a = V!Quiet(r, p)
    BY DEF V!Answers
  <1>2. ASSUME r.view = "cache" PROVE \E n \in Nat : a.disks \in [1..n -> V!Disk]
    <2>1. CASE a \in V!Replies(r, p)
      <3>1. a \in V!CacheReplies
        BY <1>2, <2>1 DEF V!Replies
      <3>2. a.disks \in UNION {[1 .. n -> V!Disk] : n \in 0 .. MaxDisks}
        BY <3>1 DEF V!CacheReplies
      <3>3. QED
        BY <3>2
    <2>2. CASE a = V!Quiet(r, p)
      <3>1. a.disks = <<>>
        BY <1>2, <2>2 DEF V!Quiet
      <3>2. <<>> \in Seq(V!Disk) /\ Len(<<>>) = 0
        BY EmptySeq
      <3>3. <<>> \in [1..0 -> V!Disk]
        BY <3>2, LenProperties
      <3>4. QED
        BY <3>1, <3>3
    <2>3. QED
      BY <1>1, <2>1, <2>2
  <1>3. ASSUME r.view \in V!Charts \cup {"hostSeries"}
        PROVE  /\ r.window \in V!Windows /\ V!Start(r.window) <= V!End(r.window)
               /\ DOMAIN a = V!Drawn(r, p)
               /\ \A i \in DOMAIN a : a[i] \subseteq V!Between(r.window)
    <2>0. r.view \in {"series", "volumeSeries", "hostSeries"}
      BY <1>3 DEF V!Charts
    <2>1. r.window \in V!Windows
      BY <2>0 DEF V!Requests, V!Tables, V!Charts, V!Hosts
    <2>2. ~(V!End(r.window) < V!Start(r.window))
      BY <1>3 DEF V!Answers
    <2>3. V!Start(r.window) <= V!End(r.window)
      BY <2>1, <2>2, WindowIs
    <2>4. CASE a \in V!Replies(r, p)
      <3>1. a \in V!ChartReplies(r.window, V!Drawn(r, p))
        BY <2>0, <2>4 DEF V!Replies
      <3>2. QED
        BY <2>1, <2>3, <3>1 DEF V!ChartReplies
    <2>5. CASE a = V!Quiet(r, p)
      <3>1. a = [i \in V!Drawn(r, p) |-> {}]
        BY <2>0, <2>5 DEF V!Quiet
      <3>2. QED
        BY <2>1, <2>3, <3>1
    <2>6. QED
      BY <1>1, <2>4, <2>5
  <1>4. QED
    BY <1>2, <1>3

LEMMA CacheViewIs ==
  ASSUME NEW p, NEW a, NEW n \in Nat, a.disks \in [1..n -> V!Disk],
         vRequest.view = "cache", V!RowsOf(p) = V!Rows(vRequest, p, a),
         V!RowsOf(p) = {x \in V!AllRows : x.pool = p}
  PROVE  /\ \A i : [pool |-> p, ip |-> i] \in V!Down(vRequest, V!AllRows)
              <=> \E k \in 1..n :
                    a.disks[k].ip = i /\ ~(a.disks[k].value /\ a.disks[k].noFailed /\ a.disks[k].stateOk)
         /\ \A d : [pool |-> p, device |-> d] \in V!Down(vRequest, V!AllRows)
              <=> \E m \in a.mounts : m[1] = d
  <1> DEFINE raids == V!Raids(a.disks)
             Raid(i) == [pool |-> p, ip |-> i, raid |-> raids[i]]
             Mount(m) == [pool |-> p, device |-> m[1], kind |-> m[2]]
  <1>1. RaidsOf(a.disks, n, raids)
    BY RaidsAre
  <1>2. V!RowsOf(p) = {Raid(i) : i \in DOMAIN raids} \cup {Mount(m) : m \in a.mounts}
    BY DEF V!Rows, V!RaidRows, V!MountRows
  <1>3. /\ \A i : (BrokenRaid(Raid(i)) <=> ~raids[i].ok) /\ Raid(i).ip = i
        /\ \A i : "device" \notin DOMAIN Raid(i)
        /\ \A m : ~BrokenRaid(Mount(m))
        /\ \A m : "device" \in DOMAIN Mount(m) /\ Mount(m).device = m[1]
    BY DEF BrokenRaid
  <1> HIDE DEF raids, Raid, Mount
  <1>4. ASSUME NEW i
        PROVE  (\E x \in V!AllRows : BrokenRaid(x) /\ x.pool = p /\ x.ip = i)
                 <=> i \in DOMAIN raids /\ ~raids[i].ok
    <2>1. (\E x \in V!AllRows : BrokenRaid(x) /\ x.pool = p /\ x.ip = i)
            <=> \E x \in V!RowsOf(p) : BrokenRaid(x) /\ x.ip = i
      OBVIOUS
    <2>2. (\E x \in V!RowsOf(p) : BrokenRaid(x) /\ x.ip = i)
            <=> \E j \in DOMAIN raids : BrokenRaid(Raid(j)) /\ Raid(j).ip = i
      BY <1>2, <1>3
    <2>3. (\E j \in DOMAIN raids : BrokenRaid(Raid(j)) /\ Raid(j).ip = i) <=> i \in DOMAIN raids /\ ~raids[i].ok
      BY <1>3
    <2>4. QED
      BY <2>1, <2>2, <2>3
  <1>5. ASSUME NEW i
        PROVE  i \in DOMAIN raids /\ ~raids[i].ok <=>
                 \E k \in 1..n :
                    a.disks[k].ip = i /\ ~(a.disks[k].value /\ a.disks[k].noFailed /\ a.disks[k].stateOk)
    BY <1>1 DEF RaidsOf
  <1>6. ASSUME NEW d
        PROVE  (\E x \in V!AllRows : "device" \in DOMAIN x /\ x.pool = p /\ x.device = d)
                 <=> \E m \in a.mounts : m[1] = d
    <2>1. (\E x \in V!AllRows : "device" \in DOMAIN x /\ x.pool = p /\ x.device = d)
            <=> \E x \in V!RowsOf(p) : "device" \in DOMAIN x /\ x.device = d
      OBVIOUS
    <2>2. (\E x \in V!RowsOf(p) : "device" \in DOMAIN x /\ x.device = d)
            <=> \E m \in a.mounts : Mount(m).device = d
      BY <1>2, <1>3
    <2>3. QED
      BY <1>3, <2>1, <2>2
  <1>7. ASSUME NEW i
        PROVE  [pool |-> p, ip |-> i] \in V!Down(vRequest, V!AllRows)
                 <=> \E x \in V!AllRows : BrokenRaid(x) /\ x.pool = p /\ x.ip = i
    BY DownIs
  <1>8. ASSUME NEW d
        PROVE  [pool |-> p, device |-> d] \in V!Down(vRequest, V!AllRows)
                 <=> \E x \in V!AllRows : "device" \in DOMAIN x /\ x.pool = p /\ x.device = d
    BY DownIs
  <1>9. QED
    BY <1>4, <1>5, <1>6, <1>7, <1>8, Zenon

LEMMA VolumesAre ==
  ASSUME NEW p, NEW a, vRequest.view = "volumes", V!RowsOf(p) = V!Rows(vRequest, p, a),
         V!RowsOf(p) = {x \in V!AllRows : x.pool = p}, NEW i \in DOMAIN a
  PROVE  [pool |-> p, name |-> i] \in V!Down(vRequest, V!AllRows) <=> ~a[i]
  <1> DEFINE Volume(j) == [pool |-> p, name |-> j, ready |-> a[j]]
  <1>1. V!RowsOf(p) = {Volume(j) : j \in DOMAIN a}
    BY DEF V!Rows, V!VolumeRows
  <1>2. \A j : Volume(j).name = j /\ Volume(j).ready = a[j]
    OBVIOUS
  <1> HIDE DEF Volume
  <1>3. (\E x \in V!AllRows : ~x.ready /\ x.pool = p /\ x.name = i)
          <=> \E x \in V!RowsOf(p) : ~x.ready /\ x.name = i
    OBVIOUS
  <1>4. (\E x \in V!RowsOf(p) : ~x.ready /\ x.name = i) <=> \E j \in DOMAIN a : ~Volume(j).ready /\ Volume(j).name = i
    BY <1>1
  <1>5. (\E j \in DOMAIN a : ~Volume(j).ready /\ Volume(j).name = i) <=> ~a[i]
    BY <1>2
  <1>6. QED
    BY <1>3, <1>4, <1>5, DownIs

LEMMA ChartIs ==
  ASSUME NEW p, NEW a, vRequest.view \in V!Charts \cup {"hostSeries"},
         V!RowsOf(p) = V!Rows(vRequest, p, a),
         vRequest.window \in V!Windows, V!Start(vRequest.window) <= V!End(vRequest.window),
         DOMAIN a = V!Drawn(vRequest, p), \A i \in DOMAIN a : a[i] \subseteq V!Between(vRequest.window)
  PROVE  V!ChartComplete(p, a)
  <1> SUFFICES ASSUME NEW i \in V!Drawn(vRequest, p)
               PROVE  \E x \in V!RowsOf(p) :
                        /\ x.item = i
                        /\ \A t \in a[i] : \E k \in DOMAIN x.values :
                             x.values[k] /\ V!Grid(vRequest.window)[k] = t
                        /\ V!Cardinality({k \in DOMAIN x.values : x.values[k]}) = V!Cardinality(a[i])
    BY DEF V!ChartComplete
  <1> DEFINE w == vRequest.window
  <1> DEFINE values == V!Values(V!Grid(w), a[i])
             row == [pool |-> p, item |-> i, values |-> values]
  <1>1. vRequest.view \in {"series", "volumeSeries", "hostSeries"}
    BY DEF V!Charts
  <1>2. V!Rows(vRequest, p, a) = V!Lines(p, w, a)
    BY <1>1 DEF V!Rows
  <1>3. row \in V!RowsOf(p)
    BY <1>2 DEF V!Lines
  <1>4. row.item = i /\ row.values = values
    OBVIOUS
  <1>5. /\ \A t \in a[i] : \E k \in DOMAIN values : values[k] /\ V!Grid(w)[k] = t
        /\ V!Cardinality({k \in DOMAIN values : values[k]}) = V!Cardinality(a[i])
    BY ValuesAreDrawn, SameCardinality
  <1> HIDE DEF values, row
  <1>6. QED
    BY <1>3, <1>4, <1>5

\* Of every pool that was asked the page gets all that it answered, each value
\* at its time, or else a warning: for any pools, nodes, disks and volumes, and
\* for series with any gaps.
THEOREM NothingIsMissing == AllSpec => []AnswerIsComplete
  <1>1. ViewInv => AnswerIsComplete
    <2> SUFFICES ASSUME ViewInv, vPc = "answered", vAnswer.status = 200, NEW p \in V!Shown(vRequest)
                 PROVE  IF vReplies[p] = Failed
                        THEN p \in vAnswer.warnings /\ V!RowsOf(p) = {}
                        ELSE /\ p \notin vAnswer.warnings
                             /\ vRequest.view \in V!Tables => V!TableComplete(p, vReplies[p])
                             /\ vRequest.view \in V!Charts \cup {"hostSeries"} => V!ChartComplete(p, vReplies[p])
      BY DEF AnswerIsComplete, V!AnswerIsComplete
    <2> DEFINE a == vReplies[p]
    <2>1. Replied /\ Answered
      BY DEF ViewInv
    <2>2. p \in DOMAIN vReplies /\ vAnswer.rows = V!AllRows
      BY <2>1 DEF Answered
    <2>3. p \in vAnswer.warnings <=> a = Failed
      BY <2>1, <2>2 DEF Answered, V!Warned
    <2>4. V!RowsOf(p) = IF a = Failed THEN {} ELSE V!Rows(vRequest, p, a)
      BY <2>2, RowsOfPool
    <2>5. V!RowsOf(p) = {x \in V!AllRows : x.pool = p}
      BY <2>2 DEF V!RowsOf
    <2>6. ASSUME a # Failed, vRequest.view \in V!Tables PROVE V!TableComplete(p, a)
      <3>1. a \in V!Answers(vRequest, p) /\ vRequest \in V!Requests /\ V!RowsOf(p) = V!Rows(vRequest, p, a)
        BY <2>1, <2>2, <2>4, <2>6 DEF Replied
      <3>2. vAnswer.down = V!Down(vRequest, V!AllRows)
        BY <2>1, <2>6 DEF Answered
      <3> HIDE DEF a
      <3>3. ASSUME vRequest.view = "overview"
            PROVE  \A i \in Ips : V!Cardinality({x \in V!RowsOf(p) : x.ip = i})
                     = IF i \in a.members \cup a.hosts \/ a.up[i] # "none" THEN 1 ELSE 0
        BY <3>1, <3>3, OverviewIs
      <3>4. ASSUME vRequest.view = "cache"
            PROVE  /\ \A i \in Ips :
                        ([pool |-> p, ip |-> i] \in vAnswer.down)
                          <=> \E k \in DOMAIN a.disks :
                                a.disks[k].ip = i /\ ~(a.disks[k].value /\ a.disks[k].noFailed /\ a.disks[k].stateOk)
                   /\ \A d \in Items : ([pool |-> p, device |-> d] \in vAnswer.down) <=> \E m \in a.mounts : m[1] = d
        <4>1. PICK n \in Nat : a.disks \in [1..n -> V!Disk]
          BY <3>1, <3>4, AnswersAre
        <4>2. DOMAIN a.disks = 1..n
          BY <4>1
        <4>3. QED
          BY <2>5, <3>1, <3>2, <3>4, <4>1, <4>2, CacheViewIs
      <3>5. ASSUME vRequest.view = "volumes"
            PROVE  \A i \in DOMAIN a : ([pool |-> p, name |-> i] \in vAnswer.down) <=> ~a[i]
        BY <2>5, <3>1, <3>2, <3>5, VolumesAre
      <3>6. QED
        BY <3>3, <3>4, <3>5, Zenon DEF V!TableComplete
    <2>7. ASSUME a # Failed, vRequest.view \in V!Charts \cup {"hostSeries"} PROVE V!ChartComplete(p, a)
      <3>1. a \in V!Answers(vRequest, p) /\ vRequest \in V!Requests /\ V!RowsOf(p) = V!Rows(vRequest, p, a)
        BY <2>1, <2>2, <2>4, <2>7 DEF Replied
      <3> HIDE DEF a
      <3>2. QED
        BY <2>7, <3>1, AnswersAre, ChartIs
    <2>8. QED
      BY <2>3, <2>4, <2>6, <2>7
  <1>2. QED
    BY <1>1, AllView, PTL

-----------------------------------------------------------------------------
(* The types *)

LEMMA AllPool == AllSpec => []StagingInv
  <1>1. AllInit => StagingInv
    BY InitStaging DEF AllInit
  <1>2. StagingInv /\ [AllNext]_allVars => StagingInv'
    <2>1. [AllNext]_allVars => [Next]_vars
      BY DEF AllNext, PoolNext, SecretNext, CacheNext, ViewNext, allVars
    <2>2. QED
      BY <2>1, NextStaging
  <1>3. QED
    BY <1>1, <1>2, PTL DEF AllSpec, AllNext

\* With one user, the variables of the pool commands, the secret and the cache
\* have their types.
THEOREM TypesCorrect ==
  ASSUME OneUser
  PROVE  AllSpec => []TypesOK
  <1>1. StagingInv /\ SecretInv /\ CacheInv => TypesOK
    BY DEF StagingInv, SecretInv, CacheInv, TypesOK
  <1>2. QED
    BY <1>1, AllPool, AllSecret, AllCache, PTL

============================================================================
