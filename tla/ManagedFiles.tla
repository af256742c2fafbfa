---------------------------- MODULE ManagedFiles ----------------------------
(***************************************************************************)
(* The configuration files of the services (OpenVPN, WireGuard, IPsec,     *)
(* another daemon, or the fwcloud script), which the agent receives in     *)
(* multipart uploads, removes, and tells the digests of.  The requests of  *)
(* a kind exclude each other with the tokio mutex of the kind; those of    *)
(* two kinds do not, and may name the same directory.  An upload receives  *)
(* its files into the temporary directory, under names nobody else uses,   *)
(* checks the request as a whole, and only then moves the files to their   *)
(* directory, one by one.  The agent may be killed at any step: what it    *)
(* has left in the directories stays.                                      *)
(***************************************************************************)
EXTENDS Integers, Sequences

CONSTANTS Uploads,    \* files_upload or upload_and_run requests,
          Removals,   \* files_remove requests,
          Digests,    \* and files_sha256 requests,
          Kinds,      \* of one kind of service or another:
          Kind,       \* Kind[r], the one whose mutex request r takes.
          Dirs,       \* The directories clients name,
          Joined,     \* and the path that naming two of them makes.
          Names,      \* File names.
          Creates,    \* create_dst_dir: the kinds that make a missing directory.
          Single,     \* expected_files: the kinds that expect one file, the script.
          MaxFiles,   \* max_files.
          ScriptName, \* "fwcloud.sh".
          NoDir, NoFile

Requests == Uploads \cup Removals \cup Digests

ASSUME RequestsAssumption ==
  /\ Uploads \cap Removals = {} /\ Uploads \cap Digests = {} /\ Removals \cap Digests = {}
  /\ Kind \in [Requests -> Kinds]
ASSUME DirsAssumption == Joined \notin Dirs /\ NoDir \notin Dirs \cup {Joined}
ASSUME LimitsAssumption ==
  /\ Creates \subseteq Kinds /\ Single \subseteq Kinds
  /\ MaxFiles \in Nat \ {0}

\* What is written to a file: part n of an upload, all of it or what has come so
\* far, with the permissions of the temporary file or the ones asked for.
Written == [by : Uploads, part : 1 .. MaxFiles, whole : BOOLEAN, perms : {"tmp", "asked"}]
File == Written \cup {NoFile}

ASSUME NamesAssumption == NoFile \notin Names /\ NoFile \notin Written

Paths == Dirs \cup {Joined}

VARIABLES
  dirs,     \* The directories there are.
  file,     \* file[d][n]: the file n of directory d.
  tmp,      \* The temporary files: whose, and which of its files.
  pc,       \* pc[r]: where request r is.
  dstDir,   \* dstDir[r]: dst_dir of an upload, dir of another request.
  permsOk,  \* permsOk[u]: whether perms has the form of file permissions.
  nFiles,   \* nFiles[u]: n_files.
  files,    \* files[u]: where the files received whole are to go.
  target,   \* target[u]: where the file being received is to go.
  moved,    \* moved[u]: how many of its files have been moved.
  left,     \* left[r]: the files still to be removed, or to be read.
  answer,   \* answer[r]: the contents a digest request has read so far.
  torn      \* History: the uploads somebody meddles with while they copy a file.

requestVars == <<dstDir, permsOk, nFiles, files, target, moved, left, answer, torn>>
vars == <<dirs, file, tmp, pc, requestVars>>

TypeOK ==
  /\ dirs \subseteq Paths
  /\ file \in [Paths -> [Names -> File]]
  /\ tmp \subseteq Uploads \X (1 .. MaxFiles)
  /\ pc \in [Requests -> {"idle", "parts", "receive", "move", "copy", "clear", "chmod",
                          "list", "ok", "error", "killed"}]
  /\ dstDir \in [Requests -> Paths \cup {NoDir}]
  /\ permsOk \in [Uploads -> BOOLEAN]
  /\ nFiles \in [Uploads -> 0 .. MaxFiles]
  /\ files \in [Uploads -> Seq(Paths \X Names)]
  /\ target \in [Uploads -> (Paths \X Names) \cup {NoFile}]
  /\ moved \in [Uploads -> 0 .. MaxFiles]
  /\ left \in [Removals \cup Digests -> SUBSET Names]
  /\ answer \in [Digests -> [Names -> File]]
  /\ torn \subseteq Uploads

NothingRead == [n \in Names |-> NoFile]

\* NoFile stands for whatever a file holds from before the agent started, too.
Init ==
  /\ dirs \in SUBSET Dirs
  /\ file = [d \in Paths |-> NothingRead]
  /\ tmp = {}
  /\ pc = [r \in Requests |-> "idle"]
  /\ dstDir = [r \in Requests |-> NoDir]
  /\ permsOk = [u \in Uploads |-> TRUE]
  /\ nFiles = [u \in Uploads |-> 0]
  /\ files = [u \in Uploads |-> <<>>]
  /\ target = [u \in Uploads |-> NoFile]
  /\ moved = [u \in Uploads |-> 0]
  /\ left = [r \in Removals \cup Digests |-> {}]
  /\ answer = [r \in Digests |-> NothingRead]
  /\ torn = {}

-----------------------------------------------------------------------------
(* The mutexes: a request holds that of its kind from its start to its end. *)

Goto(r, l) == pc' = [pc EXCEPT ![r] = l]

Running(r) == pc[r] \notin {"idle", "ok", "error", "killed"}

\* Slip: the digests are read without the mutex.
MutexFreeOfUploads(r) == \A s \in Requests \ Digests : Kind[s] = Kind[r] => ~Running(s)

MutexFree(r) == \A s \in Requests : Kind[s] = Kind[r] => ~Running(s)

-----------------------------------------------------------------------------
(* Uploads. *)

StartUpload(u) ==
  /\ pc[u] = "idle" /\ MutexFree(u)
  /\ Goto(u, "parts")
  /\ UNCHANGED <<dirs, file, tmp, requestVars>>

Received(u) == {u} \X (1 .. Len(files[u]))

\* Slip: the temporary files are not removed.
DropNothing(u) == UNCHANGED tmp

\* Dropping HttpFiles removes the temporary files of the files in its list.
DropFiles(u) == tmp' = tmp \ Received(u)

\* What uploads us were told goes with their HttpFiles; files and moved stay, as
\* the history of what they have done.
Forget(us) ==
  /\ dstDir' = [r \in Requests |-> IF r \in us THEN NoDir ELSE dstDir[r]]
  /\ permsOk' = [u \in Uploads |-> u \in us \/ permsOk[u]]
  /\ nFiles' = [u \in Uploads |-> IF u \in us THEN 0 ELSE nFiles[u]]
  /\ target' = [u \in Uploads |-> IF u \in us THEN NoFile ELSE target[u]]

\* Slip: a file that cannot be moved is skipped.
FailOfOneFile(u) ==
  /\ pc[u] \in {"copy", "clear", "chmod"}
  /\ moved' = [moved EXCEPT ![u] = @ + 1]
  /\ Goto(u, "move")
  /\ UNCHANGED <<dirs, file, tmp, dstDir, permsOk, nFiles, files, target, left, answer, torn>>

\* The request ends with an error: a field that is not accepted, no destination
\* directory, too many files, a failed operation on a file.
Fail(u) ==
  /\ pc[u] \in {"parts", "move", "copy", "clear", "chmod"}
  /\ DropFiles(u) /\ Forget({u})
  /\ Goto(u, "error") /\ torn' = torn \ {u}
  /\ UNCHANGED <<dirs, file, files, moved, left, answer>>

\* The field dst_dir.  Sent twice, its values are joined.
DstDirField(u, d) ==
  LET path == IF dstDir[u] = NoDir THEN d ELSE Joined
  IN  /\ pc[u] = "parts"
      /\ path \in dirs \/ Kind[u] \in Creates
      /\ dstDir' = [dstDir EXCEPT ![u] = path]
      /\ dirs' = dirs \cup {path}
      /\ UNCHANGED <<file, tmp, pc, permsOk, nFiles, files, target, moved, left, answer, torn>>

\* The field perms.  Sent twice, the last value counts.
PermsField(u, ok) ==
  /\ pc[u] = "parts"
  /\ permsOk' = [permsOk EXCEPT ![u] = ok]
  /\ UNCHANGED <<dirs, file, tmp, pc, dstDir, nFiles, files, target, moved, left, answer, torn>>

Expected(u) == IF Kind[u] \in Single THEN 1 ELSE 0

\* Slip: the files are compared with the limits before this one is counted.
UnderLimitsBefore(u) == nFiles[u] <= MaxFiles /\ (Expected(u) > 0 => nFiles[u] <= Expected(u))

\* The controls over the amount of files.
UnderLimits(u) == nFiles[u] < MaxFiles /\ (Expected(u) > 0 => nFiles[u] < Expected(u))

\* A file begins, for the directory named last: its temporary file is created,
\* and receives its chunks.
FilePart(u, n) ==
  /\ pc[u] = "parts" /\ dstDir[u] # NoDir
  /\ UnderLimits(u)
  /\ nFiles' = [nFiles EXCEPT ![u] = @ + 1]
  /\ target' = [target EXCEPT ![u] = <<dstDir[u], n>>]
  /\ tmp' = tmp \cup {<<u, nFiles'[u]>>}
  /\ Goto(u, "receive")
  /\ UNCHANGED <<dirs, file, dstDir, permsOk, files, moved, left, answer, torn>>

FileReceived(u) ==
  /\ pc[u] = "receive"
  /\ files' = [files EXCEPT ![u] = Append(@, target[u])]
  /\ target' = [target EXCEPT ![u] = NoFile]
  /\ Goto(u, "parts")
  /\ UNCHANGED <<dirs, file, tmp, dstDir, permsOk, nFiles, moved, left, answer, torn>>

\* A file that is too big, or a panic on a chunk that does not arrive or cannot
\* be written: the file is not in the list yet.
FileAborted(u) ==
  /\ pc[u] = "receive"
  /\ DropFiles(u) /\ Forget({u})
  /\ Goto(u, "error")
  /\ UNCHANGED <<dirs, file, files, moved, left, answer, torn>>

\* Slip: the permissions are not checked.
AcceptableAnyPerms(u) == files[u] # <<>> /\ nFiles[u] >= Expected(u)

\* check_data.
Acceptable(u) == permsOk[u] /\ dstDir[u] # NoDir /\ files[u] # <<>> /\ nFiles[u] >= Expected(u)

\* The one file of fwcloud_script is to have its name.
NamedAsExpected(u) == Expected(u) = 1 => files[u][1][2] = ScriptName

\* The stream ends, or breaks between two parts, which is taken for its end.
EndParts(u) ==
  /\ pc[u] = "parts" /\ Acceptable(u) /\ NamedAsExpected(u)
  /\ Goto(u, "move")
  /\ UNCHANGED <<dirs, file, tmp, requestVars>>

\* move_tmp_files.  The file being moved, and where it goes:
Moving(u) == moved[u] + 1
Target(u) == files[u][Moving(u)]
Content(u, whole) == [by |-> u, part |-> Moving(u), whole |-> whole, perms |-> "tmp"]
Put(path, content) == file' = [file EXCEPT ![path[1]][path[2]] = content]

Copying(path) == {u \in Uploads : pc[u] = "copy" /\ Target(u) = path}

\* fs::copy truncates the file, which an upload of another kind may be writing.
StartCopy(u) ==
  /\ pc[u] = "move" /\ moved[u] < Len(files[u])
  /\ Put(Target(u), Content(u, FALSE))
  /\ LET others == Copying(Target(u)) \ {u}
     IN  torn' = (torn \ {u}) \cup others \cup (IF others = {} THEN {} ELSE {u})
  /\ Goto(u, "copy")
  /\ UNCHANGED <<dirs, tmp, dstDir, permsOk, nFiles, files, target, moved, left, answer>>

\* What two of them leave may be the file of one, or a mixture; a file that has
\* been removed stays so.
EndCopy(u) ==
  /\ pc[u] = "copy"
  /\ \/ u \notin torn /\ Put(Target(u), Content(u, TRUE))
     \/ /\ u \in torn /\ file[Target(u)[1]][Target(u)[2]] # NoFile
        /\ \E whole \in BOOLEAN : Put(Target(u), Content(u, whole))
     \/ u \in torn /\ UNCHANGED file
  /\ torn' = torn \ {u}
  /\ Goto(u, "clear")
  /\ UNCHANGED <<dirs, tmp, dstDir, permsOk, nFiles, files, target, moved, left, answer>>

ClearTmp(u) ==
  /\ pc[u] = "clear"
  /\ tmp' = tmp \ {<<u, Moving(u)>>}
  /\ Goto(u, "chmod")
  /\ UNCHANGED <<dirs, file, requestVars>>

\* Slip: the permissions are left as they are.
SkipPermissions(u) ==
  /\ pc[u] = "chmod"
  /\ moved' = [moved EXCEPT ![u] = @ + 1]
  /\ Goto(u, "move")
  /\ UNCHANGED <<dirs, file, tmp, dstDir, permsOk, nFiles, files, target, left, answer, torn>>

\* The permissions of the file, whoever wrote it; without a file, an error.
SetPermissions(u) ==
  LET there == file[Target(u)[1]][Target(u)[2]] IN
  /\ pc[u] = "chmod" /\ there # NoFile
  /\ Put(Target(u), [there EXCEPT !.perms = "asked"])
  /\ moved' = [moved EXCEPT ![u] = @ + 1]
  /\ Goto(u, "move")
  /\ UNCHANGED <<dirs, tmp, dstDir, permsOk, nFiles, files, target, left, answer, torn>>

EndUpload(u) ==
  /\ pc[u] = "move" /\ moved[u] = Len(files[u])
  /\ DropFiles(u) /\ Forget({u})
  /\ Goto(u, "ok")
  /\ UNCHANGED <<dirs, file, files, moved, left, answer, torn>>

-----------------------------------------------------------------------------
(* Removals and digests. *)

\* A list of files of a directory.  Without the directory a removal fails, and
\* the digests are of no file.
StartList(r, d, ns) ==
  /\ pc[r] = "idle" /\ MutexFree(r)
  /\ dstDir' = [dstDir EXCEPT ![r] = d]
  /\ IF d \in dirs
     THEN Goto(r, "list") /\ left' = [left EXCEPT ![r] = ns]
     ELSE Goto(r, IF r \in Removals THEN "error" ELSE "ok") /\ UNCHANGED left
  /\ UNCHANGED <<dirs, file, tmp, permsOk, nFiles, files, target, moved, answer, torn>>

RemoveFile(r, n) ==
  /\ r \in Removals /\ pc[r] = "list" /\ n \in left[r]
  /\ Put(<<dstDir[r], n>>, NoFile)
  /\ torn' = torn \cup Copying(<<dstDir[r], n>>)
  /\ left' = [left EXCEPT ![r] = @ \ {n}]
  /\ UNCHANGED <<dirs, tmp, pc, dstDir, permsOk, nFiles, files, target, moved, answer>>

ReadFile(r, n) ==
  /\ r \in Digests /\ pc[r] = "list" /\ n \in left[r]
  /\ answer' = [answer EXCEPT ![r][n] = file[dstDir[r]][n]]
  /\ left' = [left EXCEPT ![r] = @ \ {n}]
  /\ UNCHANGED <<dirs, file, tmp, pc, dstDir, permsOk, nFiles, files, target, moved, torn>>

EndList(r) ==
  /\ pc[r] = "list"
  /\ \/ left[r] = {} /\ Goto(r, "ok")
     \/ Goto(r, "error")
  /\ left' = [left EXCEPT ![r] = {}]
  /\ answer' = [q \in Digests |-> IF q = r THEN NothingRead ELSE answer[q]]
  /\ UNCHANGED <<dirs, file, tmp, dstDir, permsOk, nFiles, files, target, moved, torn>>

\* The agent is killed, and starts again: nothing is dropped.
Kill ==
  /\ \E r \in Requests : Running(r)
  /\ pc' = [r \in Requests |-> IF Running(r) THEN "killed" ELSE pc[r]]
  /\ Forget(Uploads)
  /\ left' = [r \in Removals \cup Digests |-> {}]
  /\ answer' = [r \in Digests |-> NothingRead]
  /\ torn' = {}
  /\ UNCHANGED <<dirs, file, tmp, files, moved>>

Next ==
  \/ Kill
  \/ \E u \in Uploads :
       \/ StartUpload(u) \/ Fail(u)
       \/ \E d \in Dirs : DstDirField(u, d)
       \/ \E ok \in BOOLEAN : PermsField(u, ok)
       \/ \E n \in Names : FilePart(u, n)
       \/ FileReceived(u) \/ FileAborted(u) \/ EndParts(u)
       \/ StartCopy(u) \/ EndCopy(u) \/ ClearTmp(u) \/ SetPermissions(u) \/ EndUpload(u)
  \/ \E r \in Removals \cup Digests :
       \/ \E d \in Dirs, ns \in SUBSET Names : StartList(r, d, ns)
       \/ \E n \in Names : RemoveFile(r, n) \/ ReadFile(r, n)
       \/ EndList(r)

Spec == Init /\ [][Next]_vars

-----------------------------------------------------------------------------
(* Properties. *)

\* The directories a request is about.  Those of r are its own if no request of
\* another kind changes them.
DirsOf(r) == IF r \in Uploads THEN {files[r][k][1] : k \in DOMAIN files[r]} ELSE {dstDir[r]}
OwnDirs(r) ==
  \A s \in Uploads \cup Removals : DirsOf(s) \cap DirsOf(r) # {} => Kind[s] = Kind[r]

\* An upload that is answered with success leaves each of its files in the
\* directory that was named last before it, whole, with the permissions asked
\* for; of two parts with one name the later one.  The mutex of its kind is
\* enough for that, as long as its directories are its own.
LastPart(u, path) == CHOOSE k \in DOMAIN files[u] :
                /\ files[u][k] = path
                /\ \A j \in DOMAIN files[u] : files[u][j] = path => j <= k
UploadInstalls ==
  [][\A u \in Uploads : pc[u] # "ok" /\ pc'[u] = "ok" /\ OwnDirs(u) =>
       \A k \in DOMAIN files[u] :
         file[files[u][k][1]][files[u][k][2]] =
           [by |-> u, part |-> LastPart(u, files[u][k]), whole |-> TRUE, perms |-> "asked"]]_vars

\* A request that is refused for its permissions changes no file, although by
\* then all of its files have been received.
Changed(u) == \E d \in Paths, n \in Names : file[d][n] # NoFile /\ file[d][n].by = u
RefusedChangesNothing == \A u \in Uploads : Changed(u) => permsOk[u]

\* The digests are of the directory as it is when they are answered: no upload
\* or removal of the kind changes a file between the reading of two.
DigestsAgree ==
  \A r \in Digests : pc[r] = "list" /\ OwnDirs(r) =>
    \A n \in Names : answer[r][n] # NoFile => answer[r][n] = file[dstDir[r]][n]

\* However an upload ends, by an error between any two steps or with the agent,
\* the one file that it may leave cut short, or without its permissions, is the
\* one it was moving; and one that is answered with success leaves none.
HalfDone ==
  \A u \in Uploads, d \in Paths, n \in Names :
    LET f == file[d][n] IN
    f # NoFile /\ f.by = u /\ ~(f.whole /\ f.perms = "asked") /\ OwnDirs(u) =>
      /\ pc[u] \in {"copy", "clear", "chmod", "error", "killed"}
      /\ f.part = Moving(u) /\ <<d, n>> = Target(u)

\* A request leaves at most one temporary file behind, the one it was receiving
\* when it failed, and none when it succeeds.
Leftover(u) == {t \in tmp : t[1] = u}
OneLeftover ==
  \A u \in Uploads : /\ pc[u] = "ok" => Leftover(u) = {}
                     /\ pc[u] = "error" => Leftover(u) \subseteq {<<u, Len(files[u]) + 1>>}

-----------------------------------------------------------------------------
(* What a comment says and the code does not do. *)

\* Drop for HttpFiles: "Make sure that temporary files are removed after the
\* HttpFiles object instance goes out of scope."
TmpFilesRemoved == \A u \in Uploads : pc[u] \in {"ok", "error"} => Leftover(u) = {}
=============================================================================
