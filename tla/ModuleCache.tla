---------------------------- MODULE ModuleCache ----------------------------
(***************************************************************************)
(* EnsureModules: the cache of the terraform modules.  A ref is resolved   *)
(* to a commit, the commit's tarball is extracted into <commit>.tmp, and   *)
(* that directory is renamed to <commit>.  Every command that renders      *)
(* stacks does this, so several processes of a user may do it at once, and *)
(* each may fail or be killed anywhere.                                    *)
(*                                                                         *)
(* A directory is an inode: a rename moves it together with the files that *)
(* other processes have open in it.  With modules.path set nothing of this *)
(* happens.                                                                *)
(***************************************************************************)
EXTENDS Naturals, FiniteSets

CONSTANTS
  Procs,     \* the bbctl processes
  Commits,   \* the commits the ref may point to
  NFiles,    \* a tarball's files are 1..NFiles, in this order
  Marker,    \* those from here on are below modules/, which os.Stat looks for
  Inodes,    \* directories
  NoDir,     \* the name is not taken
  NoCommit   \* no commit; as refFile: there is no such file

Files == 1..NFiles

CacheConstants ==
  /\ NFiles \in Nat /\ Marker \in Files
  /\ NoDir \notin Inodes /\ NoCommit \notin Commits
  /\ Procs \cap {"none", "part", "full"} = {}

\* What os.WriteFile leaves between truncating a file and writing it.
Torn == "torn"

VARIABLES
  head,      \* the commit the ref points to on GitHub
  refFile,   \* refs/<ref>
  dir, tmp,  \* the inodes called <commit> and <commit>.tmp
  content,   \* of each inode and file: "none", "full" or who is writing it
  pc,        \* of each process: what it does next
  sha,       \* the commit it is after
  at,        \* the next file it extracts or removes
  inode      \* the directory it has open

disk == <<refFile, dir, tmp, content>>
vars == <<head, disk, pc, sha, at, inode>>

Labels == {"idle", "resolve", "ref", "write_ref", "look", "clean", "extract",
           "write", "rename", "done", "failed", "panic"}

\* "part": the writer is gone.
TypeOK ==
  /\ head \in Commits
  /\ refFile \in Commits \cup {NoCommit, Torn}
  /\ dir \in [Commits -> Inodes \cup {NoDir}]
  /\ tmp \in [Commits -> Inodes \cup {NoDir}]
  /\ content \in [Inodes -> [Files -> {"none", "part", "full"} \cup Procs]]
  /\ pc \in [Procs -> Labels]
  /\ sha \in [Procs -> Commits \cup {NoCommit}]
  /\ at \in [Procs -> 1..NFiles + 1]
  /\ inode \in [Procs -> Inodes \cup {NoDir}]
  /\ \A p \in Procs : pc[p] \in {"look", "clean", "extract", "write", "rename", "done"}
       => sha[p] \in Commits
  /\ \A p \in Procs : pc[p] = "write" => inode[p] \in Inodes
  /\ \A c \in Commits : dir[c] # NoDir => dir[c] # tmp[c]

Init ==
  /\ head \in Commits
  /\ refFile = NoCommit
  /\ dir = [c \in Commits |-> NoDir] /\ tmp = [c \in Commits |-> NoDir]
  /\ content = [i \in Inodes |-> [f \in Files |-> "none"]]
  /\ pc = [p \in Procs |-> "idle"]
  /\ sha = [p \in Procs |-> NoCommit]
  /\ at = [p \in Procs |-> 1]
  /\ inode = [p \in Procs |-> NoDir]

Goto(p, label) == pc' = [pc EXCEPT ![p] = label]
Ended(p) == pc[p] \in {"idle", "done", "failed", "panic"}

\* The command ends or dies.  A file it was writing stays half written.
Finish(p, result) ==
  /\ Goto(p, result)
  /\ at' = [at EXCEPT ![p] = 1]
  /\ inode' = [inode EXCEPT ![p] = NoDir]

Abandoned(p) ==
  [i \in Inodes |-> [f \in Files |-> IF content[i][f] = p THEN "part" ELSE content[i][f]]]

-----------------------------------------------------------------------------
(* Which commit *)

Start(p) ==
  /\ Ended(p)
  /\ sha' = [sha EXCEPT ![p] = NoCommit]
  /\ Goto(p, "resolve")
  /\ UNCHANGED <<head, disk, at, inode>>

ResolveRef(p) ==
  /\ pc[p] = "resolve"
  /\ sha' = [sha EXCEPT ![p] = head]
  /\ Goto(p, "ref")
  /\ UNCHANGED <<head, disk, at, inode>>

\* Offline: the last resolution, and an error if there is none.  An empty file
\* counts as one; the log line then takes the first 12 bytes of nothing.
Fallback(p) ==
  /\ pc[p] = "resolve"
  /\ CASE refFile = NoCommit -> Finish(p, "failed") /\ UNCHANGED sha
       [] refFile = Torn     -> Finish(p, "panic") /\ UNCHANGED sha
       [] OTHER              -> /\ sha' = [sha EXCEPT ![p] = refFile]
                                /\ Goto(p, "look")
                                /\ UNCHANGED <<at, inode>>
  /\ UNCHANGED <<head, disk>>

\* The resolution is kept by truncating and writing the file; errors are not
\* looked at.
TruncateRef(p) ==
  /\ pc[p] = "ref"
  /\ refFile' = Torn
  /\ Goto(p, "write_ref")
  /\ UNCHANGED <<head, dir, tmp, content, sha, at, inode>>

WriteRef(p) ==
  /\ pc[p] = "write_ref"
  /\ refFile' = sha[p]
  /\ Goto(p, "look")
  /\ UNCHANGED <<head, dir, tmp, content, sha, at, inode>>

RefNotWritten(p) ==
  /\ pc[p] \in {"ref", "write_ref"}
  /\ Goto(p, "look")
  /\ UNCHANGED <<head, disk, sha, at, inode>>

-----------------------------------------------------------------------------
(* The cached commit, or a download *)

\* Mutant of Cached: the name is enough, of either directory.
CachedAnywhere(c) == dir[c] # NoDir \/ tmp[c] # NoDir
\* Mutant of Cached: the file itself, in a place it is not.
CachedNever(c) == FALSE
Cached(c) == dir[c] # NoDir /\ \E f \in Marker..NFiles : content[dir[c]][f] # "none"

Look(p) ==
  /\ pc[p] = "look"
  /\ IF Cached(sha[p])
     THEN Finish(p, "done")
     ELSE /\ Goto(p, "clean")
          /\ inode' = [inode EXCEPT ![p] = tmp[sha[p]]]
          /\ at' = [at EXCEPT ![p] = 1]
  /\ UNCHANGED <<head, disk, sha>>

\* os.RemoveAll(tmp): file after file of the directory it opened.
RemoveFile(p) ==
  /\ pc[p] = "clean" /\ inode[p] # NoDir /\ at[p] \in Files
  /\ content' = [content EXCEPT ![inode[p]][at[p]] = "none"]
  /\ at' = [at EXCEPT ![p] = @ + 1]
  /\ UNCHANGED <<head, refFile, dir, tmp, pc, sha, inode>>

IsEmpty(i) == \A f \in Files : content[i][f] = "none"

\* Mutant of RemoveTmp: a directory that is there belongs to another download,
\* which is waited for.
LeaveTmp(p) ==
  /\ pc[p] = "clean" /\ tmp[sha[p]] = NoDir
  /\ Finish(p, "extract")
  /\ UNCHANGED <<head, disk, sha>>

\* ... then what is called tmp, if nothing is in it.  Errors are not looked at.
RemoveTmp(p) ==
  /\ pc[p] = "clean" /\ (inode[p] = NoDir \/ at[p] \notin Files)
  /\ LET i == tmp[sha[p]]
     IN tmp' = IF i # NoDir /\ IsEmpty(i) THEN [tmp EXCEPT ![sha[p]] = NoDir] ELSE tmp
  /\ Finish(p, "extract")
  /\ UNCHANGED <<head, refFile, dir, content, sha>>

Unused ==
  {i \in Inodes : /\ \A c \in Commits : dir[c] # i /\ tmp[c] # i
                  /\ \A p \in Procs : inode[p] # i}

\* The next file of the tarball is created, or truncated, in what is called tmp
\* now; the directory is made if there is none.
OpenFile(p) ==
  /\ pc[p] = "extract"
  /\ \E i \in Inodes :
       /\ IF tmp[sha[p]] = NoDir
          THEN /\ i \in Unused
               /\ content' = [content EXCEPT ![i] = [f \in Files |-> IF f = at[p] THEN p ELSE "none"]]
          ELSE /\ i = tmp[sha[p]]
               /\ content' = [content EXCEPT ![i][at[p]] = p]
       /\ tmp' = [tmp EXCEPT ![sha[p]] = i]
       /\ inode' = [inode EXCEPT ![p] = i]
  /\ Goto(p, "write")
  /\ UNCHANGED <<head, refFile, dir, sha, at>>

\* The file is whole unless somebody has truncated or removed it since.
WriteFile(p) ==
  /\ pc[p] = "write"
  /\ content' = IF content[inode[p]][at[p]] = p
                THEN [content EXCEPT ![inode[p]][at[p]] = "full"] ELSE content
  /\ Goto(p, IF at[p] = NFiles THEN "rename" ELSE "extract")
  /\ at' = [at EXCEPT ![p] = @ + 1]
  /\ inode' = [inode EXCEPT ![p] = NoDir]
  /\ UNCHANGED <<head, refFile, dir, tmp, sha>>

\* Mutant of Rename: both names are kept, as by a link.
LinkDir(p) ==
  /\ pc[p] = "rename"
  /\ tmp[sha[p]] # NoDir
  /\ dir' = [dir EXCEPT ![sha[p]] = tmp[sha[p]]]
  /\ Finish(p, "done")
  /\ UNCHANGED <<head, refFile, tmp, content, sha>>

\* A directory that is there already can be replaced only if it is empty.
Rename(p) ==
  /\ pc[p] = "rename"
  /\ LET c == sha[p]
     IN /\ tmp[c] # NoDir
        /\ dir[c] # NoDir => IsEmpty(dir[c])
        /\ dir' = [dir EXCEPT ![c] = tmp[c]]
        /\ tmp' = [tmp EXCEPT ![c] = NoDir]
  /\ Finish(p, "done")
  /\ UNCHANGED <<head, refFile, content, sha>>

\* A request, the tarball or the disk fails, or the process is killed.
Fail(p) ==
  /\ ~Ended(p)
  /\ Finish(p, "failed")
  /\ content' = Abandoned(p)
  /\ UNCHANGED <<head, refFile, dir, tmp, sha>>

\* Somebody pushes to the branch.
Push == head' \in Commits /\ UNCHANGED <<disk, pc, sha, at, inode>>

Step(p) ==
  \/ ResolveRef(p) \/ TruncateRef(p) \/ WriteRef(p) \/ Look(p)
  \/ RemoveFile(p) \/ RemoveTmp(p) \/ OpenFile(p) \/ WriteFile(p) \/ Rename(p)

Failure(p) == Fallback(p) \/ RefNotWritten(p) \/ Fail(p)

Next == Push \/ \E p \in Procs : Start(p) \/ Step(p) \/ Failure(p)

Spec == Init /\ [][Next]_vars

\* Commands are run again and again, and go on once they run.
RetrySpec ==
  Spec /\ \A p \in Procs : WF_vars(Start(p)) /\ WF_vars(Step(p) \/ Failure(p))

-----------------------------------------------------------------------------
(* Properties *)

\* EnsureModules "returns a local directory containing the terraform-aws-mgx
\* repo at ref": every file of the commit, whole, as long as it is used.
ReturnedIsComplete ==
  \A p \in Procs : pc[p] = "done" =>
    /\ dir[sha[p]] # NoDir
    /\ \A f \in Files : content[dir[sha[p]]][f] = "full"

\* "an unchanged commit is never downloaded twice": no download begins while
\* the whole commit is in the cache.
NeverDownloadedTwice ==
  [][\A p \in Procs : pc[p] = "look" /\ pc'[p] = "clean" => dir[sha[p]] = NoDir]_vars

\* A failed or killed download leaves nothing that keeps later ones from
\* succeeding.
CacheRecovers ==
  <>[][\A p \in Procs : ENABLED Step(p) => ~Failure(p)]_vars
    => \A p \in Procs : []<>(pc[p] = "done")

=============================================================================
