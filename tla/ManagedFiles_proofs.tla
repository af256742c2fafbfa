------------------------- MODULE ManagedFiles_proofs -------------------------
(***************************************************************************)
(* Proofs about ManagedFiles: types, temporary files, refused uploads and  *)
(* digests, for any number of requests, kinds, directories and files.      *)
(***************************************************************************)
EXTENDS ManagedFiles, SequenceTheorems, TLAPS

\* How many files an upload has begun, received and moved.
Counted ==
  \A u \in Uploads :
    /\ Len(files[u]) <= MaxFiles /\ moved[u] <= Len(files[u])
    /\ pc[u] = "idle" => files[u] = <<>> /\ nFiles[u] = 0
    /\ pc[u] = "parts" => nFiles[u] = Len(files[u])
    /\ pc[u] = "receive" => nFiles[u] = Len(files[u]) + 1 /\ target[u] \in Paths \X Names
    /\ pc[u] \in {"copy", "clear", "chmod"} => moved[u] < Len(files[u])

\* A list is of a directory.
Listed == \A r \in Removals \cup Digests : pc[r] = "list" => dstDir[r] \in Dirs

Typed == TypeOK /\ Counted /\ Listed

\* The steps of an upload, and those of another request.
StepOfUpload(u) ==
  \/ StartUpload(u) \/ Fail(u)
  \/ \E d \in Dirs : DstDirField(u, d)
  \/ \E ok \in BOOLEAN : PermsField(u, ok)
  \/ \E n \in Names : FilePart(u, n)
  \/ FileReceived(u) \/ FileAborted(u) \/ EndParts(u)
  \/ StartCopy(u) \/ EndCopy(u) \/ ClearTmp(u) \/ SetPermissions(u) \/ EndUpload(u)

StepOfList(r) ==
  \/ \E d \in Dirs, ns \in SUBSET Names : StartList(r, d, ns)
  \/ \E n \in Names : RemoveFile(r, n) \/ ReadFile(r, n)
  \/ EndList(r)

LEMMA NextSteps ==
  ASSUME [Next]_vars
  PROVE  \/ Kill
         \/ \E u \in Uploads : StepOfUpload(u)
         \/ \E r \in Removals \cup Digests : StepOfList(r)
         \/ UNCHANGED vars
BY DEF Next, StepOfUpload, StepOfList

LEMMA UploadsAreRequests ==
  /\ \A u \in Uploads : u \in Requests /\ u \notin Removals \cup Digests
  /\ \A r \in Removals \cup Digests : r \in Requests /\ r \notin Uploads
BY RequestsAssumption DEF Requests

\* The type of the list of files, and of its elements.
LEMMA FilesType ==
  ASSUME Typed, NEW u \in Uploads
  PROVE  /\ files[u] \in Seq(Paths \X Names) /\ Len(files[u]) \in 0 .. MaxFiles
         /\ \A k \in 1 .. Len(files[u]) : files[u][k] \in Paths \X Names
         /\ \A p \in Paths \X Names :
              /\ Append(files[u], p) \in Seq(Paths \X Names)
              /\ Len(Append(files[u], p)) = Len(files[u]) + 1
<1>1. files[u] \in Seq(Paths \X Names)
  BY DEF Typed, TypeOK
<1>2. Len(files[u]) \in Nat /\ Len(files[u]) <= MaxFiles
  BY <1>1, LenProperties DEF Typed, Counted
<1>3. \A k \in 1 .. Len(files[u]) : files[u][k] \in Paths \X Names
  BY <1>1, ElementOfSeq
<1> QED
  BY <1>1, <1>2, <1>3, LimitsAssumption, AppendProperties

\* The file an upload is about to move.
LEMMA MovingType ==
  ASSUME Typed, NEW u \in Uploads, moved[u] < Len(files[u])
  PROVE  /\ Moving(u) \in 1 .. MaxFiles /\ Moving(u) \in 1 .. Len(files[u])
         /\ Moving(u) = moved[u] + 1
         /\ Target(u) \in Paths \X Names
         /\ \A whole \in BOOLEAN : Content(u, whole) \in File
<1>1. Len(files[u]) \in 0 .. MaxFiles /\ moved[u] \in Nat
  BY FilesType DEF Typed, TypeOK
<1>2. Moving(u) \in 1 .. MaxFiles /\ Moving(u) \in 1 .. Len(files[u]) /\ Moving(u) = moved[u] + 1
  BY <1>1, LimitsAssumption DEF Moving
<1>3. Target(u) \in Paths \X Names
  BY <1>2, FilesType DEF Target
<1> QED
  BY <1>2, <1>3 DEF Content, File, Written

LEMMA PutType ==
  ASSUME TypeOK, NEW path \in Paths \X Names, NEW content \in File, Put(path, content)
  PROVE  /\ file' \in [Paths -> [Names -> File]]
         /\ \A d \in Paths, n \in Names :
              file'[d][n] = IF d = path[1] /\ n = path[2] THEN content ELSE file[d][n]
BY DEF TypeOK, Put

LEMMA InitTyped == Init => Typed
<1> SUFFICES ASSUME Init PROVE Typed
  OBVIOUS
<1>1. TypeOK
  <2>1. file \in [Paths -> [Names -> File]] /\ answer \in [Digests -> [Names -> File]]
    BY DEF Init, NothingRead, File, Written
  <2>2. files \in [Uploads -> Seq(Paths \X Names)]
    BY EmptySeq DEF Init
  <2>3. /\ dirs \subseteq Paths /\ tmp \subseteq Uploads \X (1 .. MaxFiles)
        /\ torn \subseteq Uploads
    BY DEF Init, Paths
  <2>4. nFiles \in [Uploads -> 0 .. MaxFiles] /\ moved \in [Uploads -> 0 .. MaxFiles]
    BY LimitsAssumption DEF Init
  <2> QED
    BY <2>1, <2>2, <2>3, <2>4 DEF Init, TypeOK
<1>2. Counted
  <2>1. Len(<<>>) = 0
    OBVIOUS
  <2>2. \A u \in Uploads : /\ pc[u] = "idle" /\ files[u] = <<>>
                           /\ nFiles[u] = 0 /\ moved[u] = 0
    BY UploadsAreRequests DEF Init
  <2>3. \A u \in Uploads : Len(files[u]) = 0
    BY <2>1, <2>2, Zenon
  <2>4. MaxFiles \in Nat /\ 0 <= MaxFiles /\ 0 <= 0
    BY LimitsAssumption
  <2>5. \A u \in Uploads : Len(files[u]) <= MaxFiles /\ moved[u] <= Len(files[u])
    BY <2>2, <2>3, <2>4, Zenon
  <2>6. \A u \in Uploads : pc[u] \notin {"parts", "receive", "copy", "clear", "chmod"}
    BY <2>2
  <2> QED
    BY <2>2, <2>5, <2>6, Zenon DEF Counted
<1>3. Listed
  BY UploadsAreRequests DEF Init, Listed
<1> QED
  BY <1>1, <1>2, <1>3 DEF Typed

LEMMA ForgetType ==
  ASSUME TypeOK, NEW us \in SUBSET Uploads, Forget(us)
  PROVE  /\ dstDir' \in [Requests -> Paths \cup {NoDir}] /\ permsOk' \in [Uploads -> BOOLEAN]
         /\ nFiles' \in [Uploads -> 0 .. MaxFiles]
         /\ target' \in [Uploads -> (Paths \X Names) \cup {NoFile}]
         /\ \A r \in Requests \ us : dstDir'[r] = dstDir[r]
         /\ \A v \in Uploads \ us : /\ nFiles'[v] = nFiles[v] /\ target'[v] = target[v]
                                    /\ permsOk'[v] = permsOk[v]
BY LimitsAssumption DEF TypeOK, Forget

\* A step of one upload leaves the other requests as they are.
LEMMA OthersAsTheyWere ==
  ASSUME TypeOK, NEW u \in Uploads, StepOfUpload(u)
  PROVE  /\ \A r \in Requests \ {u} : pc'[r] = pc[r] /\ dstDir'[r] = dstDir[r]
         /\ \A v \in Uploads \ {u} : /\ nFiles'[v] = nFiles[v] /\ files'[v] = files[v]
                                     /\ moved'[v] = moved[v] /\ target'[v] = target[v]
                                     /\ permsOk'[v] = permsOk[v]
         /\ UNCHANGED <<left, answer>>
<1>1. u \in Requests /\ {u} \in SUBSET Uploads
  BY UploadsAreRequests
<1>2. CASE Fail(u) \/ FileAborted(u) \/ EndUpload(u)
  BY <1>1, <1>2, ForgetType DEF TypeOK, Fail, FileAborted, EndUpload, Goto
<1>3. CASE StartUpload(u) \/ EndParts(u) \/ ClearTmp(u)
  BY <1>1, <1>3 DEF TypeOK, StartUpload, EndParts, ClearTmp, Goto, requestVars
<1>4. CASE \E d \in Dirs : DstDirField(u, d)
  BY <1>1, <1>4 DEF TypeOK, DstDirField
<1>5. CASE \E ok \in BOOLEAN : PermsField(u, ok)
  BY <1>1, <1>5 DEF TypeOK, PermsField
<1>6. CASE \E n \in Names : FilePart(u, n)
  BY <1>1, <1>6 DEF TypeOK, FilePart, Goto
<1>7. CASE FileReceived(u)
  BY <1>1, <1>7 DEF TypeOK, FileReceived, Goto
<1>8. CASE StartCopy(u) \/ EndCopy(u)
  BY <1>1, <1>8 DEF TypeOK, StartCopy, EndCopy, Goto
<1>9. CASE SetPermissions(u)
  BY <1>1, <1>9 DEF TypeOK, SetPermissions, Goto
<1> QED
  BY <1>2, <1>3, <1>4, <1>5, <1>6, <1>7, <1>8, <1>9 DEF StepOfUpload

\* And a step of another request leaves the uploads as they are.
LEMMA UploadsAsTheyWere ==
  ASSUME TypeOK, NEW r \in Removals \cup Digests, StepOfList(r)
  PROVE  /\ UNCHANGED <<permsOk, nFiles, files, target, moved>>
         /\ \A s \in Requests \ {r} : pc'[s] = pc[s] /\ dstDir'[s] = dstDir[s]
         /\ \A u \in Uploads : pc'[u] = pc[u]
<1>1. r \in Requests /\ r \notin Uploads
  BY UploadsAreRequests
<1>2. UNCHANGED <<permsOk, nFiles, files, target, moved>>
  BY DEF StepOfList, StartList, RemoveFile, ReadFile, EndList
<1>3. \A s \in Requests \ {r} : pc'[s] = pc[s] /\ dstDir'[s] = dstDir[s]
  BY <1>1 DEF TypeOK, StepOfList, StartList, RemoveFile, ReadFile, EndList, Goto
<1> QED
  BY <1>1, <1>2, <1>3, UploadsAreRequests

LEMMA UploadTypes ==
  ASSUME Typed, NEW u \in Uploads, StepOfUpload(u)
  PROVE  TypeOK'
<1>1. TypeOK /\ u \in Requests /\ {u} \in SUBSET Uploads
  BY UploadsAreRequests DEF Typed
<1>2. CASE Fail(u) \/ FileAborted(u) \/ EndUpload(u)
  <2>1. /\ tmp' \subseteq tmp /\ torn' \subseteq torn /\ Forget({u})
        /\ \E place \in {"ok", "error"} : Goto(u, place)
        /\ UNCHANGED <<dirs, file, files, moved, left, answer>>
    BY <1>2 DEF Fail, FileAborted, EndUpload, DropFiles
  <2> QED
    BY <1>1, <2>1, ForgetType DEF TypeOK, Goto
<1>3. CASE StartUpload(u) \/ EndParts(u) \/ ClearTmp(u)
  BY <1>1, <1>3 DEF TypeOK, StartUpload, EndParts, ClearTmp, Goto, requestVars
<1>4. CASE \E d \in Dirs : DstDirField(u, d)
  BY <1>1, <1>4 DEF TypeOK, DstDirField, Paths
<1>5. CASE \E ok \in BOOLEAN : PermsField(u, ok)
  BY <1>1, <1>5 DEF TypeOK, PermsField
<1>6. ASSUME NEW n \in Names, FilePart(u, n) PROVE TypeOK'
  <2>1. nFiles[u] + 1 \in 1 .. MaxFiles
    BY <1>1, <1>6, LimitsAssumption DEF TypeOK, FilePart, UnderLimits
  <2>2. nFiles' \in [Uploads -> 0 .. MaxFiles] /\ nFiles'[u] = nFiles[u] + 1
    BY <1>1, <1>6, <2>1 DEF TypeOK, FilePart
  <2>3. tmp' \subseteq Uploads \X (1 .. MaxFiles)
    BY <1>1, <1>6, <2>1, <2>2 DEF TypeOK, FilePart
  <2>4. target' \in [Uploads -> (Paths \X Names) \cup {NoFile}]
    <3>1. dstDir[u] \in Paths
      BY <1>1, <1>6 DEF TypeOK, FilePart
    <3>2. <<dstDir[u], n>> \in Paths \X Names
      BY <3>1
    <3>3. target' = [target EXCEPT ![u] = <<dstDir[u], n>>]
      BY <1>6 DEF FilePart
    <3> QED
      BY <1>1, <3>2, <3>3 DEF TypeOK
  <2> QED
    BY <1>1, <1>6, <2>2, <2>3, <2>4 DEF TypeOK, FilePart, Goto
<1>7. CASE FileReceived(u)
  <2>1. target[u] \in Paths \X Names
    BY <1>1, <1>7 DEF Typed, TypeOK, Counted, FileReceived
  <2>2. Append(files[u], target[u]) \in Seq(Paths \X Names)
    BY <2>1, FilesType
  <2>3. files' = [files EXCEPT ![u] = Append(files[u], target[u])]
    BY <1>7 DEF FileReceived
  <2>4. files' \in [Uploads -> Seq(Paths \X Names)]
    BY <1>1, <2>2, <2>3 DEF TypeOK
  <2> QED
    BY <1>1, <1>7, <2>4 DEF TypeOK, FileReceived, Goto
<1>8. CASE StartCopy(u)
  <2>1. Target(u) \in Paths \X Names /\ Content(u, FALSE) \in File
    BY <1>8, MovingType DEF StartCopy
  <2>2. file' \in [Paths -> [Names -> File]]
    BY <1>1, <1>8, <2>1, PutType DEF StartCopy
  <2>3. torn' \subseteq Uploads
    BY <1>1, <1>8 DEF TypeOK, StartCopy, Copying
  <2> QED
    BY <1>1, <1>8, <2>2, <2>3 DEF TypeOK, StartCopy, Goto
<1>9. CASE EndCopy(u)
  <2>1. Target(u) \in Paths \X Names /\ \A whole \in BOOLEAN : Content(u, whole) \in File
    BY <1>9, MovingType DEF EndCopy, Typed, Counted
  <2>2. UNCHANGED file \/ \E whole \in BOOLEAN : Put(Target(u), Content(u, whole))
    BY <1>9 DEF EndCopy
  <2>3. file' \in [Paths -> [Names -> File]]
    BY <1>1, <2>1, <2>2, PutType DEF TypeOK
  <2>4. torn' \subseteq Uploads
    BY <1>1, <1>9 DEF TypeOK, EndCopy
  <2> QED
    BY <1>1, <1>9, <2>3, <2>4 DEF TypeOK, EndCopy, Goto
<1>10. CASE SetPermissions(u)
  <2> DEFINE there == file[Target(u)[1]][Target(u)[2]]
  <2>1. Target(u) \in Paths \X Names /\ moved[u] + 1 \in 0 .. MaxFiles
    BY <1>10, MovingType DEF SetPermissions, Typed, Counted
  <2>2. there \in File /\ there # NoFile
    BY <1>1, <1>10, <2>1 DEF TypeOK, SetPermissions
  <2>3. [there EXCEPT !.perms = "asked"] \in File
    BY <2>2 DEF File, Written
  <2>4. file' \in [Paths -> [Names -> File]]
    BY <1>1, <1>10, <2>1, <2>3, PutType DEF SetPermissions
  <2>5. moved' \in [Uploads -> 0 .. MaxFiles]
    BY <1>1, <1>10, <2>1 DEF TypeOK, SetPermissions
  <2> QED
    BY <1>1, <1>10, <2>4, <2>5 DEF TypeOK, SetPermissions, Goto
<1> QED
  BY <1>2, <1>3, <1>4, <1>5, <1>6, <1>7, <1>8, <1>9, <1>10 DEF StepOfUpload

LEMMA UploadCounts ==
  ASSUME Typed, NEW u \in Uploads, StepOfUpload(u)
  PROVE  Counted'
<1>1. TypeOK /\ u \in Requests
  BY UploadsAreRequests DEF Typed
<1>2. /\ Len(files[u]) \in 0 .. MaxFiles /\ moved[u] \in Nat /\ nFiles[u] \in 0 .. MaxFiles
      /\ MaxFiles \in Nat
  BY <1>1, FilesType, LimitsAssumption DEF TypeOK
<1>3. /\ moved[u] <= Len(files[u])
      /\ pc[u] = "idle" => files[u] = <<>> /\ nFiles[u] = 0
      /\ pc[u] = "parts" => nFiles[u] = Len(files[u])
      /\ pc[u] = "receive" => nFiles[u] = Len(files[u]) + 1 /\ target[u] \in Paths \X Names
      /\ pc[u] \in {"copy", "clear", "chmod"} => moved[u] < Len(files[u])
  BY DEF Typed, Counted
<1>4. SUFFICES /\ Len(files'[u]) <= MaxFiles /\ moved'[u] <= Len(files'[u])
               /\ pc'[u] # "idle"
               /\ pc'[u] = "parts" => nFiles'[u] = Len(files'[u])
               /\ pc'[u] = "receive" => nFiles'[u] = Len(files'[u]) + 1 /\ target'[u] \in Paths \X Names
               /\ pc'[u] \in {"copy", "clear", "chmod"} => moved'[u] < Len(files'[u])
  <2>1. \A v \in Uploads \ {u} :
           /\ pc'[v] = pc[v] /\ nFiles'[v] = nFiles[v] /\ files'[v] = files[v]
           /\ moved'[v] = moved[v] /\ target'[v] = target[v]
    BY <1>1, OthersAsTheyWere, UploadsAreRequests
  <2> QED
    BY <2>1 DEF Typed, Counted
<1>5. CASE Fail(u) \/ FileAborted(u) \/ EndUpload(u)
  <2>1. pc'[u] \in {"ok", "error"} /\ UNCHANGED <<files, moved>>
    BY <1>1, <1>5 DEF TypeOK, Fail, FileAborted, EndUpload, Goto
  <2> QED
    BY <1>2, <1>3, <2>1
<1>6. CASE StartUpload(u)
  <2>1. pc[u] = "idle" /\ pc'[u] = "parts" /\ UNCHANGED <<files, moved, nFiles>>
    BY <1>1, <1>6 DEF TypeOK, StartUpload, Goto, requestVars
  <2>2. Len(<<>>) = 0
    OBVIOUS
  <2>3. Len(files[u]) = 0
    BY <1>3, <2>1, <2>2, Zenon
  <2> QED
    BY <1>2, <1>3, <2>1, <2>3
<1>7. CASE \/ \E d \in Dirs : DstDirField(u, d)
           \/ \E ok \in BOOLEAN : PermsField(u, ok)
  <2>1. pc[u] = "parts" /\ UNCHANGED <<pc, files, moved, nFiles>>
    BY <1>7 DEF DstDirField, PermsField
  <2> QED
    BY <1>2, <1>3, <2>1
<1>8. CASE \E n \in Names : FilePart(u, n)
  <2>1. /\ pc[u] = "parts" /\ pc'[u] = "receive" /\ UNCHANGED <<files, moved>>
        /\ nFiles'[u] = nFiles[u] + 1 /\ \E n \in Names : target'[u] = <<dstDir[u], n>>
        /\ dstDir[u] \in Paths
    BY <1>1, <1>8 DEF TypeOK, FilePart, Goto
  <2>2. target'[u] \in Paths \X Names
    BY <2>1
  <2> QED
    BY <1>2, <1>3, <2>1, <2>2
<1>9. CASE FileReceived(u)
  <2>1. /\ pc[u] = "receive" /\ pc'[u] = "parts" /\ UNCHANGED <<nFiles, moved>>
        /\ files'[u] = Append(files[u], target[u])
    BY <1>1, <1>9 DEF TypeOK, FileReceived, Goto
  <2>2. target[u] \in Paths \X Names
    BY <1>1, <1>3, <2>1 DEF TypeOK
  <2>3. Len(files'[u]) = Len(files[u]) + 1
    BY <2>1, <2>2, FilesType
  <2> QED
    BY <1>2, <1>3, <2>1, <2>3
<1>10. CASE EndParts(u)
  <2>1. pc'[u] = "move" /\ UNCHANGED <<files, moved>>
    BY <1>1, <1>10 DEF TypeOK, EndParts, Goto, requestVars
  <2> QED
    BY <1>2, <1>3, <2>1
<1>11. CASE StartCopy(u) \/ EndCopy(u) \/ ClearTmp(u)
  <2>1. /\ pc'[u] \in {"copy", "clear", "chmod"} /\ UNCHANGED <<files, moved>>
        /\ moved[u] < Len(files[u])
    BY <1>1, <1>3, <1>11 DEF TypeOK, StartCopy, EndCopy, ClearTmp, Goto, requestVars
  <2> QED
    BY <1>2, <1>3, <2>1
<1>12. CASE SetPermissions(u)
  <2>1. /\ pc[u] = "chmod" /\ pc'[u] = "move" /\ UNCHANGED files /\ moved'[u] = moved[u] + 1
    BY <1>1, <1>12 DEF TypeOK, SetPermissions, Goto
  <2> QED
    BY <1>2, <1>3, <2>1
<1> QED
  BY <1>5, <1>6, <1>7, <1>8, <1>9, <1>10, <1>11, <1>12 DEF StepOfUpload

LEMMA ListTypes ==
  ASSUME Typed, NEW r \in Removals \cup Digests, StepOfList(r)
  PROVE  TypeOK'
<1>1. TypeOK
  BY DEF Typed
<1>2. ASSUME NEW d \in Dirs, NEW ns \in SUBSET Names, StartList(r, d, ns) PROVE TypeOK'
  <2>1. \E place \in {"list", "ok", "error"} : Goto(r, place)
    BY <1>2, Zenon DEF StartList
  <2>2. pc' \in [Requests -> {"idle", "parts", "receive", "move", "copy", "clear", "chmod",
                              "list", "ok", "error", "killed"}]
    BY <1>1, <2>1 DEF TypeOK, Goto
  <2>3. left' \in [Removals \cup Digests -> SUBSET Names]
    BY <1>1, <1>2 DEF TypeOK, StartList
  <2>4. dstDir' \in [Requests -> Paths \cup {NoDir}]
    BY <1>1, <1>2 DEF TypeOK, StartList, Paths
  <2> QED
    BY <1>1, <1>2, <2>2, <2>3, <2>4 DEF TypeOK, StartList
<1>3. ASSUME NEW n \in Names, RemoveFile(r, n) PROVE TypeOK'
  <2>1. file' \in [Paths -> [Names -> File]]
    BY <1>1, <1>3 DEF TypeOK, RemoveFile, Put, File, Written
  <2> QED
    BY <1>1, <1>3, <2>1 DEF TypeOK, RemoveFile, Copying
<1>4. ASSUME NEW n \in Names, ReadFile(r, n) PROVE TypeOK'
  <2>1. r \in Digests /\ dstDir[r] \in Paths
    BY <1>4 DEF ReadFile, Typed, Listed, Paths
  <2>2. answer' = [answer EXCEPT ![r][n] = file[dstDir[r]][n]]
    BY <1>4 DEF ReadFile
  <2>3. answer' \in [Digests -> [Names -> File]]
    BY <1>1, <2>1, <2>2 DEF TypeOK
  <2> QED
    BY <1>1, <1>4, <2>3 DEF TypeOK, ReadFile
<1>5. CASE EndList(r)
  <2>1. answer' \in [Digests -> [Names -> File]]
    BY <1>1, <1>5 DEF TypeOK, EndList, NothingRead, File, Written
  <2> QED
    BY <1>1, <1>5, <2>1 DEF TypeOK, EndList, Goto
<1> QED
  BY <1>2, <1>3, <1>4, <1>5 DEF StepOfList

LEMMA KillTypes ==
  ASSUME Typed, Kill
  PROVE  Typed'
<1>1. /\ TypeOK /\ Forget(Uploads) /\ UNCHANGED <<dirs, file, tmp, files, moved>>
      /\ pc' = [r \in Requests |-> IF Running(r) THEN "killed" ELSE pc[r]]
  BY DEF Typed, Kill
<1>2. TypeOK'
  <2>1. /\ pc' \in [Requests -> {"idle", "parts", "receive", "move", "copy", "clear", "chmod",
                                 "list", "ok", "error", "killed"}]
        /\ left' \in [Removals \cup Digests -> SUBSET Names] /\ torn' \subseteq Uploads
    BY <1>1 DEF Kill, TypeOK
  <2>2. answer' \in [Digests -> [Names -> File]]
    BY DEF Kill, NothingRead, File, Written
  <2> QED
    BY <1>1, <2>1, <2>2, ForgetType DEF TypeOK
<1>3. \A r \in Requests : pc'[r] = IF Running(r) THEN "killed" ELSE pc[r]
  BY <1>1
<1>4. \A r \in Requests : pc'[r] \in {"idle", "ok", "error", "killed"}
  BY <1>3 DEF Running
<1>5. Counted'
  <2>1. \A u \in Uploads : pc'[u] = "idle" => pc[u] = "idle"
    BY <1>3, UploadsAreRequests
  <2>2. \A u \in Uploads : nFiles'[u] = 0
    BY <1>1 DEF Forget
  <2>3. \A u \in Uploads : pc'[u] \in {"idle", "ok", "error", "killed"}
    BY <1>4, UploadsAreRequests
  <2> QED
    BY <1>1, <2>1, <2>2, <2>3 DEF Typed, Counted
<1>6. Listed'
  BY <1>4, UploadsAreRequests DEF Listed
<1> QED
  BY <1>2, <1>5, <1>6 DEF Typed

LEMMA NextTyped == Typed /\ [Next]_vars => Typed'
<1> SUFFICES ASSUME Typed, [Next]_vars PROVE Typed'
  OBVIOUS
<1>0. TypeOK
  BY DEF Typed
<1>1. ASSUME NEW u \in Uploads, StepOfUpload(u) PROVE Typed'
  <2>1. \A r \in Removals \cup Digests : pc'[r] = pc[r] /\ dstDir'[r] = dstDir[r]
    BY <1>0, <1>1, OthersAsTheyWere, UploadsAreRequests
  <2>2. Listed'
    BY <2>1 DEF Typed, Listed
  <2> QED
    BY <1>1, <2>2, UploadTypes, UploadCounts DEF Typed
<1>2. ASSUME NEW r \in Removals \cup Digests, StepOfList(r) PROVE Typed'
  <2>1. /\ UNCHANGED <<nFiles, files, target, moved>>
        /\ \A u \in Uploads : pc'[u] = pc[u]
        /\ \A s \in (Removals \cup Digests) \ {r} : pc'[s] = pc[s] /\ dstDir'[s] = dstDir[s]
    BY <1>0, <1>2, UploadsAsTheyWere, UploadsAreRequests
  <2>2. Counted'
    BY <2>1 DEF Typed, Counted
  <2>3. pc'[r] = "list" => dstDir'[r] \in Dirs
    BY <1>0, <1>2, UploadsAreRequests
       DEF Typed, TypeOK, Listed, StepOfList, StartList, RemoveFile, ReadFile, EndList, Goto
  <2>4. Listed'
    BY <2>1, <2>3 DEF Typed, Listed
  <2> QED
    BY <1>2, <2>2, <2>4, ListTypes DEF Typed
<1>3. CASE Kill
  BY <1>3, KillTypes
<1>4. CASE UNCHANGED vars
  BY <1>4 DEF vars, requestVars, Typed, TypeOK, Counted, Listed
<1> QED
  BY <1>1, <1>2, <1>3, <1>4, NextSteps

LEMMA TypedAlways == Spec => []Typed
BY InitTyped, NextTyped, PTL DEF Spec

\* The directories, the temporary files and the requests keep their types, and
\* no upload counts more files than it may have (extract_multipart_data), however
\* requests of all kinds and kills are interleaved.
THEOREM TypeCorrect == Spec => []TypeOK
<1>1. Typed => TypeOK
  BY DEF Typed
<1> QED
  BY <1>1, TypedAlways, PTL

-----------------------------------------------------------------------------
(* Temporary files. *)

\* Which temporary files of an upload there may be.
TmpBound ==
  \A u \in Uploads, k \in 1 .. MaxFiles :
    <<u, k>> \in tmp =>
      /\ k <= Len(files[u]) + 1
      /\ pc[u] \notin {"receive", "error", "killed"} => k <= Len(files[u])
      /\ pc[u] = "error" => k = Len(files[u]) + 1
      /\ pc[u] # "ok"

LEMMA TmpBoundOfOne ==
  ASSUME Typed, TmpBound, NEW u \in Uploads, StepOfUpload(u),
         \A v \in Uploads \ {u}, k \in 1 .. MaxFiles : <<v, k>> \in tmp' => <<v, k>> \in tmp,
         \A k \in 1 .. MaxFiles : <<u, k>> \in tmp' =>
           /\ k <= Len(files'[u]) + 1
           /\ pc'[u] \notin {"receive", "error", "killed"} => k <= Len(files'[u])
           /\ pc'[u] = "error" => k = Len(files'[u]) + 1
           /\ pc'[u] # "ok"
  PROVE  TmpBound'
<1>1. \A v \in Uploads \ {u} : pc'[v] = pc[v] /\ files'[v] = files[v]
  BY OthersAsTheyWere, UploadsAreRequests DEF Typed
<1> QED
  BY <1>1 DEF TmpBound

LEMMA NextTmpBound == Typed /\ TmpBound /\ [Next]_vars => TmpBound'
<1> SUFFICES ASSUME Typed, TmpBound, [Next]_vars PROVE TmpBound'
  OBVIOUS
<1>0. TypeOK
  BY DEF Typed
<1>1. ASSUME NEW u \in Uploads, StepOfUpload(u) PROVE TmpBound'
  <2>1. u \in Requests /\ Len(files[u]) \in Nat /\ MaxFiles \in Nat
    BY UploadsAreRequests, FilesType, LimitsAssumption
  <2>2. \A k \in 1 .. MaxFiles : <<u, k>> \in tmp =>
           /\ k <= Len(files[u]) + 1
           /\ pc[u] \notin {"receive", "error", "killed"} => k <= Len(files[u])
           /\ pc[u] = "error" => k = Len(files[u]) + 1
           /\ pc[u] # "ok"
    BY DEF TmpBound
  <2>3. CASE Fail(u) \/ FileAborted(u) \/ EndUpload(u)
    <3>1. /\ \/ pc[u] \in {"parts", "move", "copy", "clear", "chmod"}
             \/ pc[u] = "receive" /\ pc'[u] = "error"
          /\ pc'[u] \in {"error", "ok"} /\ UNCHANGED files
          /\ tmp' = tmp \ ({u} \X (1 .. Len(files[u])))
      BY <1>0, <2>1, <2>3 DEF TypeOK, Fail, FileAborted, EndUpload, Goto, DropFiles, Received
    <3>2. \A k \in 1 .. MaxFiles : <<u, k>> \in tmp' => <<u, k>> \in tmp /\ k > Len(files[u])
      BY <2>1, <3>1
    <3>3. \A k \in 1 .. MaxFiles : <<u, k>> \in tmp' => pc[u] = "receive"
      BY <2>1, <2>2, <3>1, <3>2
    <3>4. \A k \in 1 .. MaxFiles : <<u, k>> \in tmp' => pc'[u] = "error" /\ k = Len(files[u]) + 1
      BY <2>1, <2>2, <3>1, <3>2, <3>3
    <3> QED
      BY <1>1, <2>1, <3>1, <3>4, TmpBoundOfOne
  <2>4. CASE \E n \in Names : FilePart(u, n)
    <3>1. /\ pc[u] = "parts" /\ pc'[u] = "receive" /\ UNCHANGED files
          /\ nFiles'[u] = nFiles[u] + 1 /\ tmp' = tmp \cup {<<u, nFiles'[u]>>}
      BY <1>0, <2>1, <2>4 DEF TypeOK, FilePart, Goto
    <3>2. nFiles'[u] = Len(files[u]) + 1
      BY <3>1 DEF Typed, Counted
    <3>3. \A k \in 1 .. MaxFiles : <<u, k>> \in tmp' => k <= Len(files[u]) + 1
      BY <2>1, <2>2, <3>1, <3>2
    <3> QED
      BY <1>1, <2>1, <3>1, <3>3, TmpBoundOfOne
  <2>5. CASE FileReceived(u)
    <3>1. /\ pc[u] = "receive" /\ pc'[u] = "parts" /\ UNCHANGED tmp
          /\ files'[u] = Append(files[u], target[u]) /\ target[u] \in Paths \X Names
      BY <1>0, <2>1, <2>5 DEF Typed, Counted, TypeOK, FileReceived, Goto
    <3>2. Len(files'[u]) = Len(files[u]) + 1
      BY <3>1, FilesType
    <3>3. \A k \in 1 .. MaxFiles : <<u, k>> \in tmp' => k <= Len(files'[u])
      BY <2>1, <2>2, <3>1, <3>2
    <3> QED
      BY <1>1, <2>1, <3>1, <3>2, <3>3, TmpBoundOfOne
  <2>6. CASE \/ StartUpload(u) \/ EndParts(u) \/ ClearTmp(u)
             \/ \E d \in Dirs : DstDirField(u, d)
             \/ \E ok \in BOOLEAN : PermsField(u, ok)
             \/ StartCopy(u) \/ EndCopy(u) \/ SetPermissions(u)
    <3>1. /\ UNCHANGED files /\ tmp' \subseteq tmp
          /\ pc[u] \notin {"receive", "error", "killed", "ok"}
          /\ pc'[u] \notin {"receive", "error", "killed", "ok"}
      BY <1>0, <2>1, <2>6 DEF TypeOK, StartUpload, EndParts, ClearTmp, DstDirField, PermsField,
                              StartCopy, EndCopy, SetPermissions, Goto, requestVars
    <3>2. \A k \in 1 .. MaxFiles : <<u, k>> \in tmp' => k <= Len(files[u])
      BY <2>2, <3>1
    <3>3. \A k \in 1 .. MaxFiles : k <= Len(files[u]) => k <= Len(files[u]) + 1
      BY <2>1
    <3> QED
      BY <1>1, <3>1, <3>2, <3>3, TmpBoundOfOne
  <2> QED
    BY <1>1, <2>3, <2>4, <2>5, <2>6 DEF StepOfUpload
<1>2. ASSUME NEW r \in Removals \cup Digests, StepOfList(r) PROVE TmpBound'
  <2>1. UNCHANGED <<files, tmp>> /\ \A u \in Uploads : pc'[u] = pc[u]
    BY <1>0, <1>2, UploadsAsTheyWere DEF StepOfList, StartList, RemoveFile, ReadFile, EndList
  <2> QED
    BY <2>1 DEF TmpBound
<1>3. CASE Kill
  <2>1. /\ UNCHANGED <<files, tmp>>
        /\ \A u \in Uploads : pc'[u] = pc[u] \/ pc'[u] = "killed"
    BY <1>3, UploadsAreRequests DEF Kill
  <2> QED
    BY <2>1 DEF TmpBound
<1>4. CASE UNCHANGED vars
  BY <1>4 DEF vars, requestVars, TmpBound
<1> QED
  BY <1>1, <1>2, <1>3, <1>4, NextSteps

\* Drop for HttpFiles: however an upload fails, at most the file it was receiving
\* is left, and one that succeeds leaves none.
THEOREM LeavesOneTmpFile == Spec => []OneLeftover
<1>1. Init => TmpBound
  BY DEF Init, TmpBound
<1>2. Spec => []TmpBound
  BY <1>1, TypedAlways, NextTmpBound, PTL DEF Spec
<1>3. ASSUME Typed, TmpBound PROVE OneLeftover
  <2>1. ASSUME NEW u \in Uploads, NEW t \in Leftover(u)
        PROVE  pc[u] # "ok" /\ (pc[u] = "error" => t = <<u, Len(files[u]) + 1>>)
    <3>1. t \in tmp /\ t[1] = u /\ tmp \subseteq Uploads \X (1 .. MaxFiles)
      BY <1>3, <2>1 DEF Leftover, Typed, TypeOK
    <3>2. t = <<u, t[2]>> /\ t[2] \in 1 .. MaxFiles
      BY <3>1
    <3>3. pc[u] # "ok" /\ (pc[u] = "error" => t[2] = Len(files[u]) + 1)
      BY <1>3, <3>1, <3>2 DEF TmpBound
    <3> QED
      BY <3>2, <3>3
  <2> QED
    BY <2>1 DEF OneLeftover
<1> QED
  BY <1>2, <1>3, TypedAlways, PTL

-----------------------------------------------------------------------------
(* What a step writes. *)

\* An upload writes the file it is moving,
LEMMA UploadWritesAt ==
  ASSUME Typed, NEW u \in Uploads, StepOfUpload(u), NEW d \in Paths, NEW n \in Names,
         file'[d][n] # file[d][n]
  PROVE  /\ StartCopy(u) \/ EndCopy(u) \/ SetPermissions(u)
         /\ pc[u] \in {"move", "copy", "chmod"} /\ moved[u] < Len(files[u])
         /\ <<d, n>> = Target(u)
         /\ \A content : Put(Target(u), content) => file'[d][n] = content
<1>1. TypeOK /\ u \in Requests
  BY UploadsAreRequests DEF Typed
<1>2. StartCopy(u) \/ EndCopy(u) \/ SetPermissions(u)
  BY DEF StepOfUpload, StartUpload, Fail, DstDirField, PermsField, FilePart, FileReceived,
         FileAborted, EndParts, ClearTmp, EndUpload
<1>3. pc[u] \in {"move", "copy", "chmod"} /\ moved[u] < Len(files[u])
  BY <1>2 DEF StartCopy, EndCopy, SetPermissions, Typed, Counted
<1>4. Target(u) \in Paths \X Names
  BY <1>3, MovingType
<1>5. ASSUME NEW content, Put(Target(u), content)
      PROVE  <<d, n>> = Target(u) /\ file'[d][n] = content
  BY <1>1, <1>4, <1>5 DEF TypeOK, Put
<1>6. \E content : Put(Target(u), content)
  BY <1>2 DEF StartCopy, EndCopy, SetPermissions
<1> QED
  BY <1>2, <1>3, <1>5, <1>6

\* with a content of its own, or with new permissions.
LEMMA UploadWrites ==
  ASSUME Typed, NEW u \in Uploads, StepOfUpload(u), NEW d \in Paths, NEW n \in Names,
         file'[d][n] # file[d][n]
  PROVE  \/ \E whole \in BOOLEAN : file'[d][n] = Content(u, whole)
         \/ /\ SetPermissions(u) /\ file[d][n] # NoFile
            /\ file'[d][n] = [file[d][n] EXCEPT !.perms = "asked"]
<1>1. <<d, n>> = Target(u) /\ \A content : Put(Target(u), content) => file'[d][n] = content
  BY UploadWritesAt
<1>2. CASE StartCopy(u) \/ EndCopy(u)
  <2>1. \E whole \in BOOLEAN : Put(Target(u), Content(u, whole))
    BY <1>2, UploadWritesAt DEF StartCopy, EndCopy
  <2> QED
    BY <1>1, <2>1
<1>3. CASE SetPermissions(u)
  <2>1. file[d][n] = file[Target(u)[1]][Target(u)[2]]
    BY <1>1
  <2>2. file[d][n] # NoFile /\ Put(Target(u), [file[d][n] EXCEPT !.perms = "asked"])
    BY <1>3, <2>1 DEF SetPermissions
  <2> QED
    BY <1>1, <1>3, <2>2
<1> QED
  BY <1>2, <1>3, UploadWritesAt

\* So it makes no file an upload's but its own, and a step of another request none.
LEMMA ChangesOfUpload ==
  ASSUME Typed, NEW u \in Uploads, StepOfUpload(u), NEW v \in Uploads, Changed(v)'
  PROVE  Changed(v) \/ (v = u /\ pc[u] \in {"move", "copy", "chmod"})
<1>1. PICK d \in Paths, n \in Names : file'[d][n] # NoFile /\ file'[d][n].by = v
  BY DEF Changed
<1>2. CASE file'[d][n] = file[d][n]
  BY <1>1, <1>2 DEF Changed
<1>3. CASE file'[d][n] # file[d][n]
  <2>1. pc[u] \in {"move", "copy", "chmod"}
    BY <1>3, UploadWritesAt
  <2>2. CASE \E whole \in BOOLEAN : file'[d][n] = Content(u, whole)
    BY <1>1, <2>1, <2>2 DEF Content
  <2>3. CASE file[d][n] # NoFile /\ file'[d][n] = [file[d][n] EXCEPT !.perms = "asked"]
    <3>1. file[d][n] \in File
      BY DEF Typed, TypeOK
    <3>2. file'[d][n].by = file[d][n].by
      BY <2>3, <3>1 DEF File, Written
    <3> QED
      BY <1>1, <2>3, <3>2 DEF Changed
  <2> QED
    BY <1>3, <2>2, <2>3, UploadWrites
<1> QED
  BY <1>2, <1>3

LEMMA ListWrites ==
  ASSUME Typed, NEW r \in Removals \cup Digests, StepOfList(r), NEW d \in Paths, NEW n \in Names,
         file'[d][n] # file[d][n]
  PROVE  r \in Removals /\ pc[r] = "list" /\ d = dstDir[r] /\ file'[d][n] = NoFile
<1>1. \E m \in Names : RemoveFile(r, m)
  BY DEF StepOfList, StartList, ReadFile, EndList
<1> QED
  BY <1>1 DEF RemoveFile, Put, Typed, TypeOK

-----------------------------------------------------------------------------
(* Refused uploads. *)

\* An upload has written nothing while its request is received, and its
\* permissions are good from then on.
Unwritten ==
  \A u \in Uploads : /\ pc[u] \in {"idle", "parts", "receive"} => ~Changed(u)
                     /\ pc[u] \notin {"parts", "receive"} => permsOk[u]

LEMMA NextUnwritten == Typed /\ Unwritten /\ [Next]_vars => Unwritten'
<1> SUFFICES ASSUME Typed, Unwritten, [Next]_vars PROVE Unwritten'
  OBVIOUS
<1>0. TypeOK
  BY DEF Typed
<1>1. ASSUME NEW u \in Uploads, StepOfUpload(u) PROVE Unwritten'
  <2>1. u \in Requests /\ {u} \in SUBSET Uploads
    BY UploadsAreRequests
  <2>2. ASSUME NEW v \in Uploads \ {u}
        PROVE  pc'[v] = pc[v] /\ permsOk'[v] = permsOk[v] /\ (Changed(v)' => Changed(v))
    BY <1>0, <1>1, OthersAsTheyWere, ChangesOfUpload, UploadsAreRequests
  <2>3. /\ pc'[u] \in {"idle", "parts", "receive"} => pc[u] \in {"idle", "parts", "receive"}
        /\ pc'[u] \notin {"parts", "receive"} => permsOk'[u]
    <3>1. CASE Fail(u) \/ FileAborted(u) \/ EndUpload(u)
      <4>1. pc'[u] \in {"ok", "error"} /\ permsOk'[u]
        BY <1>0, <2>1, <3>1 DEF TypeOK, Fail, FileAborted, EndUpload, Goto, Forget
      <4> QED
        BY <4>1
    <3>2. CASE StartUpload(u) \/ (\E d \in Dirs : DstDirField(u, d)) \/ FileReceived(u)
               \/ (\E n \in Names : FilePart(u, n)) \/ (\E ok \in BOOLEAN : PermsField(u, ok))
      <4>1. pc'[u] \in {"parts", "receive"} /\ pc[u] \in {"idle", "parts", "receive"}
        BY <1>0, <2>1, <3>2 DEF TypeOK, StartUpload, DstDirField, FileReceived, FilePart, PermsField, Goto
      <4> QED
        BY <4>1
    <3>3. CASE EndParts(u) \/ StartCopy(u) \/ EndCopy(u) \/ ClearTmp(u) \/ SetPermissions(u)
      <4>1. pc'[u] \notin {"idle", "parts", "receive"} /\ UNCHANGED permsOk
            /\ (pc[u] \notin {"parts", "receive"} \/ permsOk[u])
        BY <1>0, <2>1, <3>3 DEF TypeOK, EndParts, Acceptable, StartCopy, EndCopy, ClearTmp,
                                SetPermissions, Goto, requestVars
      <4> QED
        BY <4>1 DEF Unwritten
    <3> QED
      BY <1>1, <3>1, <3>2, <3>3 DEF StepOfUpload
  <2>4. pc'[u] \in {"idle", "parts", "receive"} => ~Changed(u)'
    BY <1>1, <2>3, ChangesOfUpload DEF Unwritten
  <2> QED
    BY <2>2, <2>3, <2>4 DEF Unwritten
<1>2. ASSUME NEW r \in Removals \cup Digests, StepOfList(r) PROVE Unwritten'
  <2>1. UNCHANGED permsOk /\ \A u \in Uploads : pc'[u] = pc[u]
    BY <1>0, <1>2, UploadsAsTheyWere
  <2>2. ASSUME NEW u \in Uploads, Changed(u)' PROVE Changed(u)
    BY <1>2, <2>2, ListWrites DEF Changed
  <2> QED
    BY <2>1, <2>2 DEF Unwritten
<1>3. CASE Kill
  <2>1. /\ UNCHANGED file /\ \A u \in Uploads : permsOk'[u]
        /\ \A u \in Uploads : pc'[u] = pc[u] \/ pc'[u] = "killed"
    BY <1>3, UploadsAreRequests DEF Kill, Forget
  <2> QED
    BY <2>1 DEF Unwritten, Changed
<1>4. CASE UNCHANGED vars
  BY <1>4 DEF vars, requestVars, Unwritten, Changed
<1> QED
  BY <1>1, <1>2, <1>3, <1>4, NextSteps

\* check_data comes before move_tmp_files: an upload refused for its permissions
\* has changed no file, whatever the other requests do.
THEOREM RefusedUploadsChangeNothing == Spec => []RefusedChangesNothing
<1>1. ASSUME Init PROVE Unwritten
  <2>1. \A d \in Paths, n \in Names : file[d][n] = NoFile
    BY <1>1 DEF Init, NothingRead
  <2>2. \A u \in Uploads : ~Changed(u) /\ permsOk[u]
    BY <1>1, <2>1 DEF Init, Changed
  <2> QED
    BY <2>2 DEF Unwritten
<1>2. Spec => []Unwritten
  BY <1>1, TypedAlways, NextUnwritten, PTL DEF Spec
<1>3. Unwritten => RefusedChangesNothing
  BY DEF Unwritten, RefusedChangesNothing
<1> QED
  BY <1>2, <1>3, PTL

-----------------------------------------------------------------------------
(* Digests. *)

\* The mutex of a kind is held by one request.
Exclusion ==
  \A r, s \in Requests : r # s /\ Kind[r] = Kind[s] => ~(Running(r) /\ Running(s))

\* A request starts when it gets the mutex.
LEMMA StartsWithMutex ==
  ASSUME TypeOK, NEW r \in Requests, StepOfUpload(r) \/ StepOfList(r), ~Running(r), Running(r)'
  PROVE  MutexFree(r)
BY DEF TypeOK, StepOfUpload, StepOfList, StartUpload, Fail, DstDirField, PermsField, FilePart,
       FileReceived, FileAborted, EndParts, StartCopy, EndCopy, ClearTmp, SetPermissions,
       EndUpload, StartList, RemoveFile, ReadFile, EndList, Running

LEMMA NextExclusion == Typed /\ Exclusion /\ [Next]_vars => Exclusion'
<1> SUFFICES ASSUME Typed, Exclusion, [Next]_vars PROVE Exclusion'
  OBVIOUS
<1>0. TypeOK
  BY DEF Typed
<1>1. ASSUME NEW r \in Requests, StepOfUpload(r) \/ StepOfList(r),
             \A s \in Requests \ {r} : pc'[s] = pc[s]
      PROVE  Exclusion'
  <2>1. \A s \in Requests \ {r} : Running(s)' => Running(s)
    BY <1>1 DEF Running
  <2>2. Running(r)' => Running(r) \/ MutexFree(r)
    BY <1>0, <1>1, StartsWithMutex
  <2>3. \A s \in Requests \ {r} : Kind[s] = Kind[r] => ~(Running(r)' /\ Running(s)')
    BY <2>1, <2>2 DEF Exclusion, MutexFree
  <2> QED
    BY <2>1, <2>3 DEF Exclusion
<1>2. CASE \E u \in Uploads : StepOfUpload(u)
  BY <1>0, <1>1, <1>2, OthersAsTheyWere, UploadsAreRequests
<1>3. CASE \E r \in Removals \cup Digests : StepOfList(r)
  BY <1>0, <1>1, <1>3, UploadsAsTheyWere, UploadsAreRequests
<1>4. CASE Kill
  BY <1>4 DEF Kill, Exclusion, Running
<1>5. CASE UNCHANGED vars
  BY <1>5 DEF vars, Exclusion, Running
<1> QED
  BY <1>2, <1>3, <1>4, <1>5, NextSteps

\* What a digest request has read is of the directory as it is; requests that
\* are not at it have read nothing, and the others that have not started name no
\* directory yet.
Digested ==
  /\ \A r \in Digests : pc[r] # "list" => answer[r] = NothingRead
  /\ \A r \in Removals : pc[r] = "idle" => dstDir[r] = NoDir
  /\ DigestsAgree

\* The directories of a request only grow, but for those of one that starts.
LEMMA DirsGrow ==
  ASSUME Typed, Digested, [Next]_vars
  PROVE  /\ \A u \in Uploads : DirsOf(u) \subseteq DirsOf(u)' /\ DirsOf(u) \subseteq Paths
         /\ \A s \in Removals : DirsOf(s)' = DirsOf(s) \/ DirsOf(s) = {NoDir}
         /\ \A r \in Digests : pc[r] = "list" => DirsOf(r)' = DirsOf(r) /\ DirsOf(r) \subseteq Dirs
<1>1. TypeOK
  BY DEF Typed
<1>2. \A q \in Removals \cup Digests :
         /\ dstDir'[q] = dstDir[q] \/ pc[q] = "idle"
         /\ q \in Requests /\ DirsOf(q) = {dstDir[q]} /\ DirsOf(q)' = {dstDir'[q]}
  <2>1. ASSUME NEW u \in Uploads, StepOfUpload(u), NEW q \in Removals \cup Digests
        PROVE  dstDir'[q] = dstDir[q]
    BY <1>1, <2>1, OthersAsTheyWere, UploadsAreRequests
  <2>2. ASSUME NEW r \in Removals \cup Digests, StepOfList(r), NEW q \in Removals \cup Digests
        PROVE  dstDir'[q] = dstDir[q] \/ pc[q] = "idle"
    <3>1. q # r => dstDir'[q] = dstDir[q]
      BY <1>1, <2>2, UploadsAsTheyWere, UploadsAreRequests
    <3>2. UNCHANGED dstDir \/ pc[r] = "idle"
      BY <2>2 DEF StepOfList, StartList, RemoveFile, ReadFile, EndList
    <3> QED
      BY <3>1, <3>2
  <2>3. Kill \/ UNCHANGED vars => \A q \in Removals \cup Digests : dstDir'[q] = dstDir[q]
    BY UploadsAreRequests DEF Kill, Forget, vars, requestVars
  <2>4. \A q \in Removals \cup Digests : dstDir'[q] = dstDir[q] \/ pc[q] = "idle"
    BY <2>1, <2>2, <2>3, NextSteps
  <2> QED
    BY <2>4, UploadsAreRequests DEF DirsOf
<1>3. ASSUME NEW u \in Uploads
      PROVE  DirsOf(u) \subseteq DirsOf(u)' /\ DirsOf(u) \subseteq Paths
  <2>1. /\ DOMAIN files[u] = 1 .. Len(files[u]) /\ Len(files[u]) \in Nat
        /\ files[u] \in Seq(Paths \X Names)
        /\ \A k \in 1 .. Len(files[u]) : files[u][k] \in Paths \X Names
    BY FilesType, LenProperties
  <2>2. files'[u] = files[u] \/ \E p \in Paths \X Names : files'[u] = Append(files[u], p)
    <3>1. ASSUME NEW v \in Uploads, StepOfUpload(v)
          PROVE  files'[u] = files[u] \/ \E p \in Paths \X Names : files'[u] = Append(files[u], p)
      <4>1. CASE u # v
        BY <1>1, <3>1, <4>1, OthersAsTheyWere
      <4>2. CASE FileReceived(v) /\ u = v
        BY <1>1, <4>2 DEF Typed, Counted, TypeOK, FileReceived
      <4>3. CASE ~FileReceived(v)
        BY <3>1, <4>3 DEF StepOfUpload, StartUpload, Fail, DstDirField, PermsField, FilePart,
              FileAborted, EndParts, StartCopy, EndCopy, ClearTmp, SetPermissions, EndUpload, requestVars
      <4> QED
        BY <4>1, <4>2, <4>3
    <3>2. (\E q \in Removals \cup Digests : StepOfList(q)) \/ Kill \/ UNCHANGED vars => UNCHANGED files
      BY <1>1, UploadsAsTheyWere DEF Kill, vars, requestVars
    <3> QED
      BY <3>1, <3>2, NextSteps
  <2>3. DOMAIN files[u] \subseteq DOMAIN files'[u]
        /\ \A k \in DOMAIN files[u] : files'[u][k] = files[u][k]
    BY <2>1, <2>2, AppendProperties
  <2> QED
    BY <2>1, <2>3 DEF DirsOf
<1>4. \A s \in Removals : DirsOf(s)' = DirsOf(s) \/ DirsOf(s) = {NoDir}
  BY <1>2 DEF Digested
<1>5. \A r \in Digests : pc[r] = "list" => DirsOf(r)' = DirsOf(r) /\ DirsOf(r) \subseteq Dirs
  BY <1>2 DEF Typed, Listed
<1> QED
  BY <1>3, <1>4, <1>5

\* So those that are a request's own have always been.
LEMMA StillOwn ==
  ASSUME Typed, Digested, [Next]_vars, NEW r \in Uploads \cup Digests,
         r \in Digests => pc[r] = "list", OwnDirs(r)'
  PROVE  OwnDirs(r)
<1>1. DirsOf(r) \subseteq DirsOf(r)' /\ NoDir \notin DirsOf(r)
  BY DirsGrow, DirsAssumption DEF Paths
<1>2. ASSUME NEW s \in Uploads \cup Removals, DirsOf(s) \cap DirsOf(r) # {}
      PROVE  DirsOf(s)' \cap DirsOf(r)' # {}
  <2>1. DirsOf(s) \subseteq DirsOf(s)'
    BY <1>1, <1>2, DirsGrow
  <2> QED
    BY <1>1, <1>2, <2>1
<1> QED
  BY <1>2 DEF OwnDirs

\* An upload writes to its directories, and a removal to its own.
LEMMA DirOfTarget ==
  ASSUME Typed, NEW u \in Uploads, moved[u] < Len(files[u])
  PROVE  Target(u)[1] \in DirsOf(u)
BY MovingType, FilesType, LenProperties DEF Target, DirsOf

\* While a request runs, no other changes a file of a directory of its own.
LEMMA Undisturbed ==
  ASSUME Typed, Exclusion, NEW r \in Requests, Running(r), OwnDirs(r),
         NEW d \in Paths, d \in DirsOf(r), NEW n \in Names,
         \/ \E u \in Uploads : u # r /\ StepOfUpload(u)
         \/ \E q \in Removals \cup Digests : q # r /\ StepOfList(q)
  PROVE  file'[d][n] = file[d][n]
<1>1. ASSUME NEW u \in Uploads, u # r, StepOfUpload(u), file'[d][n] # file[d][n] PROVE FALSE
  <2>1. /\ pc[u] \in {"move", "copy", "chmod"} /\ moved[u] < Len(files[u])
        /\ <<d, n>> = Target(u)
    BY <1>1, UploadWritesAt
  <2>2. d \in DirsOf(u)
    BY <2>1, DirOfTarget
  <2>3. Kind[u] = Kind[r]
    BY <2>2 DEF OwnDirs
  <2>4. Running(u) /\ u \in Requests
    BY <2>1, UploadsAreRequests DEF Running
  <2> QED
    BY <1>1, <2>3, <2>4 DEF Exclusion
<1>2. ASSUME NEW q \in Removals \cup Digests, q # r, StepOfList(q), file'[d][n] # file[d][n]
      PROVE  FALSE
  <2>1. q \in Removals /\ pc[q] = "list" /\ d = dstDir[q]
    BY <1>2, ListWrites
  <2>2. DirsOf(q) = {d} /\ q \in Requests
    BY <2>1, UploadsAreRequests DEF DirsOf
  <2>3. Kind[q] = Kind[r]
    BY <2>1, <2>2 DEF OwnDirs
  <2>4. Running(q)
    BY <2>1 DEF Running
  <2> QED
    BY <1>2, <2>2, <2>3, <2>4 DEF Exclusion
<1> QED
  BY <1>1, <1>2

LEMMA ReadsUndisturbed ==
  ASSUME Typed, Exclusion, [Next]_vars, NEW r \in Digests, pc[r] = "list", OwnDirs(r),
         NEW n \in Names, dstDir[r] \in Paths
  PROVE  file'[dstDir[r]][n] = file[dstDir[r]][n]
<1>1. r \in Requests /\ r \notin Uploads /\ r \notin Removals /\ Running(r)
  BY RequestsAssumption, UploadsAreRequests DEF Running
<1>2. dstDir[r] \in DirsOf(r)
  BY <1>1 DEF DirsOf
<1>3. CASE \/ \E u \in Uploads : u # r /\ StepOfUpload(u)
           \/ \E q \in Removals \cup Digests : q # r /\ StepOfList(q)
  BY <1>1, <1>2, <1>3, Undisturbed
<1>4. CASE StepOfList(r)
  BY <1>1, <1>4, ListWrites
<1>5. Kill \/ UNCHANGED vars => UNCHANGED file
  BY DEF Kill, vars
<1> QED
  BY <1>1, <1>3, <1>4, <1>5, NextSteps

LEMMA NextDigested == Typed /\ Exclusion /\ Digested /\ [Next]_vars => Digested'
<1> SUFFICES ASSUME Typed, Exclusion, Digested, [Next]_vars PROVE Digested'
  OBVIOUS
<1>1. TypeOK /\ Digests \subseteq Removals \cup Digests /\ Removals \subseteq Removals \cup Digests
  BY DEF Typed
<1>2. \A r \in Digests : pc'[r] # "list" => answer'[r] = NothingRead
  <2>1. ASSUME NEW u \in Uploads, StepOfUpload(u), NEW r \in Digests
        PROVE  pc'[r] = pc[r] /\ answer'[r] = answer[r]
    BY <1>1, <2>1, OthersAsTheyWere, UploadsAreRequests
  <2>2. ASSUME NEW q \in Removals \cup Digests, StepOfList(q), NEW r \in Digests, pc'[r] # "list"
        PROVE  answer'[r] = NothingRead
    <3>1. CASE r # q
      <4>1. pc'[r] = pc[r]
        BY <1>1, <2>2, <3>1, UploadsAsTheyWere, UploadsAreRequests
      <4>2. answer'[r] = answer[r]
        BY <1>1, <2>2, <3>1 DEF TypeOK, StepOfList, StartList, RemoveFile, ReadFile, EndList
      <4> QED
        BY <2>2, <4>1, <4>2 DEF Digested
    <3>2. CASE r = q /\ EndList(q)
      BY <3>2 DEF EndList
    <3>3. CASE r = q /\ ~EndList(q)
      <4>1. pc[r] = "idle" /\ UNCHANGED answer
        BY <2>2, <3>3 DEF StepOfList, StartList, RemoveFile, ReadFile
      <4> QED
        BY <4>1 DEF Digested
    <3> QED
      BY <3>1, <3>2, <3>3
  <2>3. Kill => \A r \in Digests : answer'[r] = NothingRead
    BY DEF Kill
  <2>4. UNCHANGED vars => UNCHANGED <<pc, answer>>
    BY DEF vars, requestVars
  <2> QED
    BY <2>1, <2>2, <2>3, <2>4, NextSteps DEF Digested
<1>3. \A r \in Removals : pc'[r] = "idle" => dstDir'[r] = NoDir
  <2>1. ASSUME NEW u \in Uploads, StepOfUpload(u), NEW r \in Removals
        PROVE  pc'[r] = pc[r] /\ dstDir'[r] = dstDir[r]
    BY <1>1, <2>1, OthersAsTheyWere, UploadsAreRequests
  <2>2. ASSUME NEW q \in Removals \cup Digests, StepOfList(q), NEW r \in Removals, pc'[r] = "idle"
        PROVE  pc[r] = "idle" /\ dstDir'[r] = dstDir[r]
    <3>1. CASE r # q
      BY <1>1, <2>2, <3>1, UploadsAsTheyWere, UploadsAreRequests
    <3>2. CASE r = q
      BY <1>1, <2>2, <3>2, UploadsAreRequests
         DEF TypeOK, StepOfList, StartList, RemoveFile, ReadFile, EndList, Goto
    <3> QED
      BY <3>1, <3>2
  <2>3. Kill => \A r \in Removals : dstDir'[r] = dstDir[r] /\ (pc'[r] = "idle" => pc[r] = "idle")
    BY UploadsAreRequests DEF Kill, Forget
  <2>4. UNCHANGED vars => UNCHANGED <<pc, dstDir>>
    BY DEF vars, requestVars
  <2> QED
    BY <2>1, <2>2, <2>3, <2>4, NextSteps DEF Digested
<1>4. ASSUME NEW r \in Digests, pc'[r] = "list", OwnDirs(r)', NEW n \in Names, answer'[r][n] # NoFile
      PROVE  answer'[r][n] = file'[dstDir'[r]][n]
  <2>1. CASE pc[r] # "list"
    <3>1. UNCHANGED answer
      <4>1. ASSUME NEW q \in Removals \cup Digests, StepOfList(q) PROVE UNCHANGED answer
        <5>1. CASE q = r
          BY <1>1, <1>4, <2>1, <4>1, <5>1, UploadsAreRequests
             DEF TypeOK, StepOfList, StartList, RemoveFile, ReadFile, EndList
        <5>2. CASE q # r
          <6>1. pc'[r] = pc[r]
            BY <1>1, <4>1, <5>2, UploadsAsTheyWere, UploadsAreRequests
          <6> QED
            BY <1>4, <2>1, <6>1
        <5> QED
          BY <5>1, <5>2
      <4>2. ~Kill
        BY <1>4, <2>1, UploadsAreRequests DEF Kill
      <4>3. ASSUME NEW u \in Uploads, StepOfUpload(u) PROVE UNCHANGED answer
        BY <1>1, <4>3, OthersAsTheyWere
      <4> QED
        BY <4>1, <4>2, <4>3, NextSteps DEF vars, requestVars
    <3>2. answer[r] = NothingRead
      BY <2>1 DEF Digested
    <3> QED
      BY <1>4, <3>1, <3>2 DEF NothingRead
  <2>2. CASE pc[r] = "list"
    <3>1. OwnDirs(r) /\ dstDir'[r] = dstDir[r] /\ dstDir[r] \in Paths
      <4>1. DirsOf(r) = {dstDir[r]} /\ DirsOf(r)' = {dstDir'[r]}
        BY RequestsAssumption DEF DirsOf
      <4> QED
        BY <1>4, <2>2, <4>1, StillOwn, DirsGrow DEF Typed, Listed, Paths
    <3>2. file'[dstDir[r]][n] = file[dstDir[r]][n]
      BY <2>2, <3>1, ReadsUndisturbed
    <3>3. answer'[r][n] = answer[r][n] \/ answer'[r][n] = file[dstDir[r]][n]
      <4>1. ASSUME NEW q \in Removals \cup Digests, StepOfList(q)
            PROVE  answer'[r][n] = answer[r][n] \/ answer'[r][n] = file[dstDir[r]][n]
        <5>1. CASE EndList(q)
          <6>1. q # r
            BY <1>1, <1>4, <5>1, UploadsAreRequests DEF TypeOK, EndList, Goto
          <6> QED
            BY <5>1, <6>1 DEF EndList
        <5>2. ASSUME NEW m \in Names, ReadFile(q, m)
              PROVE  answer'[r][n] = answer[r][n] \/ answer'[r][n] = file[dstDir[r]][n]
          <6>1. answer[r] \in [Names -> File] /\ answer \in [Digests -> [Names -> File]] /\ q \in Digests
            BY <1>1, <5>2 DEF TypeOK, ReadFile
          <6>2. answer' = [answer EXCEPT ![q][m] = file[dstDir[q]][m]]
            BY <5>2 DEF ReadFile
          <6>3. CASE q = r /\ m = n
            BY <6>1, <6>2, <6>3
          <6>4. CASE q # r \/ m # n
            BY <6>1, <6>2, <6>4
          <6> QED
            BY <6>3, <6>4
        <5>3. CASE ~EndList(q) /\ ~\E m \in Names : ReadFile(q, m)
          BY <4>1, <5>3 DEF StepOfList, StartList, RemoveFile
        <5> QED
          BY <5>1, <5>2, <5>3
      <4>2. ~Kill
        BY <1>4, UploadsAreRequests DEF Kill, Running
      <4>3. ASSUME NEW u \in Uploads, StepOfUpload(u) PROVE UNCHANGED answer
        BY <1>1, <4>3, OthersAsTheyWere
      <4> QED
        BY <4>1, <4>2, <4>3, NextSteps DEF vars, requestVars
    <3>4. answer[r][n] # NoFile => answer[r][n] = file[dstDir[r]][n]
      BY <2>2, <3>1 DEF Digested, DigestsAgree
    <3> QED
      BY <1>4, <3>1, <3>2, <3>3, <3>4
  <2> QED
    BY <2>1, <2>2
<1>5. DigestsAgree'
  BY <1>4 DEF DigestsAgree
<1> QED
  BY <1>2, <1>3, <1>5 DEF Digested

\* files_sha256 reads the files of a directory one by one under the mutex of its
\* kind: as long as nothing of another kind is told of the directory, what it has
\* read is still so when it reads the next one.
THEOREM DigestsOfOneState == Spec => []DigestsAgree
<1>1. ASSUME Init PROVE Exclusion /\ Digested
  <2>1. \A r \in Requests : pc[r] = "idle" /\ dstDir[r] = NoDir
    BY <1>1 DEF Init
  <2>2. \A r \in Digests : pc[r] = "idle" /\ answer[r] = NothingRead
    BY <1>1, <2>1, UploadsAreRequests DEF Init
  <2>3. Exclusion
    BY <2>1 DEF Exclusion, Running
  <2>4. Digested
    BY <2>1, <2>2, UploadsAreRequests DEF Digested, DigestsAgree
  <2> QED
    BY <2>3, <2>4
<1>2. Spec => [](Exclusion /\ Digested)
  BY <1>1, TypedAlways, NextExclusion, NextDigested, PTL DEF Spec
<1>3. Exclusion /\ Digested => DigestsAgree
  BY DEF Digested
<1> QED
  BY <1>2, <1>3, PTL

-----------------------------------------------------------------------------
(* What an upload leaves. *)

Installing(u) == pc[u] \in {"copy", "clear", "chmod"}

\* The files of an upload that has its directories for itself are as asked for,
\* but for the one that it was moving when it was last heard of.
AsAsked(u) ==
  \A d \in Paths, n \in Names :
    file[d][n] # NoFile /\ file[d][n].by = u =>
      \/ file[d][n].part <= moved[u] /\ file[d][n].whole /\ file[d][n].perms = "asked"
      \/ /\ file[d][n].part = Moving(u) /\ <<d, n>> = Target(u)
         /\ Installing(u) \/ pc[u] \in {"error", "killed"}
         /\ pc[u] \in {"clear", "chmod"} => file[d][n].whole

\* While it moves them, each name holds the last of its files moved so far.
Begun(u) == IF Installing(u) THEN moved[u] + 1 ELSE moved[u]
InPlace(u) ==
  \A k \in 1 .. Begun(u), d \in Paths, n \in Names :
    files[u][k] = <<d, n>> =>
      /\ file[d][n] # NoFile /\ file[d][n].by = u
      /\ file[d][n].part \in k .. Begun(u) /\ files[u][file[d][n].part] = <<d, n>>

Undone(u) == pc[u] \in {"idle", "parts", "receive"} => moved[u] = 0

Leaves(u) ==
  /\ Undone(u)
  /\ OwnDirs(u) => /\ u \notin torn /\ AsAsked(u)
                   /\ Installing(u) \/ pc[u] = "move" => InPlace(u)

\* Two requests do not run on one directory that is one's own.
LEMMA Alone ==
  ASSUME Exclusion, NEW r \in Requests, OwnDirs(r), Running(r),
         NEW s \in Uploads \cup Removals, s # r, Running(s),
         NEW d \in Paths, d \in DirsOf(r), d \in DirsOf(s)
  PROVE  FALSE
<1>1. Kind[s] = Kind[r] /\ s \in Requests
  BY UploadsAreRequests DEF OwnDirs
<1> QED
  BY <1>1 DEF Exclusion

LEMMA NotTorn ==
  ASSUME Typed, Exclusion, NEW u \in Uploads, OwnDirs(u), u \notin torn,
         \/ \E v \in Uploads : StepOfUpload(v)
         \/ \E q \in Removals \cup Digests : StepOfList(q)
  PROVE  u \notin torn'
<1>1. u \in Requests
  BY UploadsAreRequests
<1>2. ASSUME NEW v \in Uploads, v # u, Running(u), Running(v),
             moved[u] < Len(files[u]), moved[v] < Len(files[v]), Target(u) = Target(v)
      PROVE  FALSE
  <2>1. Target(u)[1] \in DirsOf(u) /\ Target(u)[1] \in DirsOf(v) /\ Target(u)[1] \in Paths
    BY <1>2, DirOfTarget, MovingType
  <2> QED
    BY <1>1, <1>2, <2>1, Alone
<1>3. ASSUME NEW v \in Uploads, StepOfUpload(v), u \in torn' PROVE FALSE
  <2>1. StartCopy(v)
    BY <1>3 DEF StepOfUpload, StartUpload, Fail, DstDirField, PermsField, FilePart, FileReceived,
          FileAborted, EndParts, EndCopy, ClearTmp, SetPermissions, EndUpload, requestVars
  <2>2. pc[v] = "move" /\ moved[v] < Len(files[v]) /\ Running(v)
    BY <2>1 DEF StartCopy, Running
  <2>3. PICK w \in Copying(Target(v)) \ {v} : w = u \/ v = u
    BY <1>3, <2>1 DEF StartCopy
  <2>4. /\ w \in Uploads /\ Target(w) = Target(v) /\ Running(w)
        /\ moved[w] < Len(files[w])
    BY <2>3 DEF Copying, Running, Typed, Counted
  <2>5. CASE w = u
    BY <1>2, <2>2, <2>3, <2>4, <2>5
  <2>6. CASE v = u
    BY <1>2, <2>2, <2>3, <2>4, <2>6
  <2> QED
    BY <2>3, <2>5, <2>6
<1>4. ASSUME NEW q \in Removals \cup Digests, StepOfList(q), u \in torn' PROVE FALSE
  <2>1. PICK n \in Names : RemoveFile(q, n)
    BY <1>4 DEF StepOfList, StartList, ReadFile, EndList
  <2>2. /\ pc[u] = "copy" /\ Target(u) = <<dstDir[q], n>> /\ q \in Removals
        /\ Running(u) /\ Running(q) /\ moved[u] < Len(files[u])
    BY <1>4, <2>1 DEF RemoveFile, Copying, Running, Typed, Counted
  <2>3. dstDir[q] \in DirsOf(q) /\ q # u
    BY <2>2, UploadsAreRequests DEF DirsOf
  <2>4. dstDir[q] \in DirsOf(u) /\ dstDir[q] \in Paths
    BY <2>2, DirOfTarget, MovingType
  <2> QED
    BY <1>1, <2>2, <2>3, <2>4, Alone
<1> QED
  BY <1>3, <1>4

LEMMA OthersLeave ==
  ASSUME Typed, Exclusion, Digested, [Next]_vars, NEW u \in Uploads, Leaves(u),
         \/ \E v \in Uploads : v # u /\ StepOfUpload(v)
         \/ \E q \in Removals \cup Digests : StepOfList(q)
  PROVE  Leaves(u)'
<1>1. TypeOK /\ u \in Requests /\ \A q \in Removals \cup Digests : q # u
  BY UploadsAreRequests DEF Typed
<1>2. pc'[u] = pc[u] /\ files'[u] = files[u] /\ moved'[u] = moved[u]
  BY <1>1, OthersAsTheyWere, UploadsAsTheyWere
<1>3. Undone(u)'
  BY <1>2 DEF Leaves, Undone
<1>4. ASSUME OwnDirs(u)' PROVE u \notin torn' /\ AsAsked(u)' /\ (Installing(u)' \/ pc'[u] = "move" => InPlace(u)')
  <2>1. OwnDirs(u)
    BY <1>1, <1>4, StillOwn, RequestsAssumption
  <2>2. u \notin torn /\ AsAsked(u) /\ (Installing(u) \/ pc[u] = "move" => InPlace(u))
    BY <2>1 DEF Leaves
  <2>3. u \notin torn'
    BY <1>1, <2>1, <2>2, NotTorn
  <2>4. /\ Moving(u)' = Moving(u) /\ Target(u)' = Target(u) /\ Installing(u)' = Installing(u)
        /\ Begun(u)' = Begun(u)
    BY <1>2 DEF Moving, Target, Installing, Begun
  <2>5. ASSUME NEW d \in Paths, NEW n \in Names, file'[d][n] # NoFile, file'[d][n].by = u
        PROVE  /\ file[d][n] # NoFile /\ file[d][n].by = u /\ file'[d][n].part = file[d][n].part
               /\ file'[d][n].whole = file[d][n].whole
               /\ file'[d][n].perms = file[d][n].perms \/ file'[d][n].perms = "asked"
    <3>1. CASE file'[d][n] = file[d][n]
      BY <2>5, <3>1
    <3>2. ASSUME file'[d][n] # file[d][n], NEW v \in Uploads, v # u, StepOfUpload(v)
          PROVE  /\ file[d][n] # NoFile /\ file[d][n] \in File
                 /\ file'[d][n] = [file[d][n] EXCEPT !.perms = "asked"]
      <4>1. \A whole \in BOOLEAN : file'[d][n] # Content(v, whole)
        BY <2>5, <3>2 DEF Content
      <4>2. file[d][n] \in File
        BY <1>1 DEF TypeOK
      <4> QED
        BY <3>2, <4>1, <4>2, UploadWrites
    <3>3. CASE \E q \in Removals \cup Digests : StepOfList(q)
      BY <2>5, <3>1, <3>3, ListWrites
    <3>4. CASE /\ file[d][n] # NoFile /\ file[d][n] \in File
               /\ file'[d][n] = [file[d][n] EXCEPT !.perms = "asked"]
      BY <2>5, <3>4 DEF File, Written
    <3> QED
      BY <3>1, <3>2, <3>3, <3>4
  <2>6. AsAsked(u)'
    BY <1>2, <2>2, <2>4, <2>5 DEF AsAsked
  <2>7. ASSUME Installing(u) \/ pc[u] = "move" PROVE InPlace(u)'
    <3>1. Running(u)
      BY <2>7 DEF Running, Installing
    <3>2. ASSUME NEW k \in 1 .. Begun(u), NEW d \in Paths, NEW n \in Names, files[u][k] = <<d, n>>
          PROVE  file'[d][n] = file[d][n]
      <4>1. k \in DOMAIN files[u]
        <5>1. Len(files[u]) \in Nat /\ moved[u] \in Nat /\ DOMAIN files[u] = 1 .. Len(files[u])
          BY <1>1, FilesType, LenProperties DEF TypeOK
        <5>2. Begun(u) \in Nat /\ Begun(u) <= Len(files[u])
          BY <5>1 DEF Begun, Installing, Typed, Counted
        <5> QED
          BY <5>1, <5>2
      <4>2. d \in DirsOf(u)
        BY <3>2, <4>1 DEF DirsOf
      <4> QED
        BY <1>1, <2>1, <3>1, <4>2, Undisturbed
    <3>3. InPlace(u)
      BY <2>2, <2>7
    <3> QED
      BY <1>2, <2>4, <3>2, <3>3 DEF InPlace
  <2> QED
    BY <1>2, <2>3, <2>4, <2>6, <2>7
<1> QED
  BY <1>3, <1>4 DEF Leaves

\* The steps of the upload itself: those that write no file,
LEMMA LeavesWithoutWriting ==
  ASSUME Typed, Exclusion, Digested, [Next]_vars, NEW u \in Uploads, StepOfUpload(u), Leaves(u),
         ~StartCopy(u), ~EndCopy(u), ~SetPermissions(u)
  PROVE  Leaves(u)'
<1>1. TypeOK /\ u \in Requests /\ moved[u] \in Nat
  BY UploadsAreRequests DEF Typed, TypeOK
<1>2. UNCHANGED <<file, moved>>
  BY DEF StepOfUpload, StartUpload, Fail, DstDirField, PermsField, FilePart, FileReceived,
         FileAborted, EndParts, ClearTmp, EndUpload, requestVars
<1>3. OwnDirs(u)' => u \notin torn' /\ OwnDirs(u) /\ u \notin torn
  BY StillOwn, NotTorn, RequestsAssumption DEF Leaves
<1>4. CASE \/ StartUpload(u) \/ EndParts(u) \/ FileReceived(u)
           \/ \E d \in Dirs : DstDirField(u, d)
           \/ \E ok \in BOOLEAN : PermsField(u, ok)
           \/ \E n \in Names : FilePart(u, n)
  <2>1. pc[u] \in {"idle", "parts", "receive"} /\ pc'[u] \in {"parts", "receive", "move"}
    BY <1>1, <1>4 DEF TypeOK, StartUpload, EndParts, FileReceived, DstDirField, PermsField,
                      FilePart, Goto, requestVars
  <2>2. moved'[u] = 0 /\ Begun(u)' = 0
    BY <1>2, <2>1 DEF Leaves, Undone, Begun, Installing
  <2>3. OwnDirs(u) => AsAsked(u)'
    BY <1>2, <2>1 DEF Leaves, AsAsked, Installing
  <2> QED
    BY <1>3, <2>1, <2>2, <2>3 DEF Leaves, Undone, InPlace
<1>5. CASE Fail(u) \/ FileAborted(u) \/ EndUpload(u)
  <2>1. /\ \/ pc'[u] = "error"
           \/ pc[u] = "move" /\ pc'[u] = "ok"
        /\ UNCHANGED files
    BY <1>1, <1>5 DEF TypeOK, Fail, FileAborted, EndUpload, Goto
  <2>2. OwnDirs(u) => AsAsked(u)'
    BY <1>2, <2>1 DEF Leaves, AsAsked, Installing, Moving, Target
  <2> QED
    BY <1>3, <2>1, <2>2 DEF Leaves, Undone, Installing
<1>6. CASE ClearTmp(u)
  <2>1. pc[u] = "clear" /\ pc'[u] = "chmod" /\ UNCHANGED files
    BY <1>1, <1>6 DEF TypeOK, ClearTmp, Goto, requestVars
  <2>2. OwnDirs(u) => AsAsked(u)' /\ InPlace(u)'
    BY <1>2, <2>1 DEF Leaves, AsAsked, InPlace, Begun, Installing, Moving, Target
  <2> QED
    BY <1>3, <2>1, <2>2 DEF Leaves, Undone
<1> QED
  BY <1>4, <1>5, <1>6 DEF StepOfUpload

\* and those that write the file that is being moved.
LEMMA LeavesWriting ==
  ASSUME Typed, Exclusion, Digested, [Next]_vars, NEW u \in Uploads, StepOfUpload(u), Leaves(u),
         StartCopy(u) \/ EndCopy(u) \/ SetPermissions(u)
  PROVE  Leaves(u)'
<1>1. TypeOK /\ u \in Requests
  BY UploadsAreRequests DEF Typed
<1>2. moved[u] < Len(files[u]) /\ moved[u] \in Nat /\ Len(files[u]) \in Nat
  <2>1. moved[u] \in Nat /\ Len(files[u]) \in Nat
    BY <1>1, FilesType DEF TypeOK
  <2>2. moved[u] < Len(files[u])
    BY DEF StartCopy, EndCopy, SetPermissions, Typed, Counted
  <2> QED
    BY <2>1, <2>2
<1>3. /\ Moving(u) = moved[u] + 1 /\ Moving(u) \in 1 .. Len(files[u])
      /\ Target(u) = files[u][Moving(u)] /\ Target(u) \in Paths \X Names
      /\ UNCHANGED files
  BY <1>2, MovingType DEF Target, StartCopy, EndCopy, SetPermissions
<1>4. \A whole \in BOOLEAN : Content(u, whole) \in File /\ Content(u, whole) # NoFile
  <2>1. \A whole \in BOOLEAN : Content(u, whole) \in Written
    BY <1>2, MovingType, NamesAssumption DEF Content, Written
  <2> QED
    BY <2>1, NamesAssumption DEF File
<1>5. OwnDirs(u)' => OwnDirs(u) /\ u \notin torn /\ u \notin torn' /\ AsAsked(u) /\ InPlace(u)
  BY StillOwn, NotTorn, RequestsAssumption
     DEF Leaves, Installing, StartCopy, EndCopy, SetPermissions
<1>6. ASSUME NEW content \in File, Put(Target(u), content)
      PROVE  \A d \in Paths, n \in Names :
               file'[d][n] = IF <<d, n>> = Target(u) THEN content ELSE file[d][n]
  <2>1. Target(u) = <<Target(u)[1], Target(u)[2]>>
    BY <1>3
  <2> QED
    BY <1>1, <1>3, <1>6, <2>1, PutType
<1>7. ASSUME StartCopy(u), OwnDirs(u)' PROVE AsAsked(u)' /\ InPlace(u)' /\ Undone(u)'
  <2>1. /\ pc[u] = "move" /\ pc'[u] = "copy" /\ UNCHANGED moved
        /\ Put(Target(u), Content(u, FALSE))
    BY <1>1, <1>7 DEF TypeOK, StartCopy, Goto
  <2>2. \A d \in Paths, n \in Names :
          file'[d][n] = IF <<d, n>> = Target(u) THEN Content(u, FALSE) ELSE file[d][n]
    BY <1>4, <1>6, <2>1
  <2>3. /\ Moving(u)' = Moving(u) /\ Target(u)' = Target(u) /\ Installing(u)'
        /\ Begun(u)' = Moving(u) /\ Begun(u) = moved[u] /\ ~Installing(u)
    BY <1>3, <2>1 DEF Moving, Target, Installing, Begun
  <2>4. /\ Content(u, FALSE).by = u /\ Content(u, FALSE).part = Moving(u)
    BY DEF Content
  <2>5. AsAsked(u)'
    BY <1>5, <1>7, <2>1, <2>2, <2>3, <2>4 DEF AsAsked
  <2>6. ASSUME NEW k \in 1 .. Begun(u)', NEW d \in Paths, NEW n \in Names, files'[u][k] = <<d, n>>
        PROVE  /\ file'[d][n] # NoFile /\ file'[d][n].by = u
               /\ file'[d][n].part \in k .. Begun(u)' /\ files'[u][file'[d][n].part] = <<d, n>>
    <3>0. k \in 1 .. Moving(u) /\ files[u][k] = <<d, n>> /\ Begun(u)' = Moving(u) /\ UNCHANGED files
      BY <1>3, <2>3, <2>6
    <3>1. CASE <<d, n>> = Target(u)
      <4>1. file'[d][n] = Content(u, FALSE)
        BY <2>2, <3>1
      <4>2. file'[d][n] # NoFile /\ file'[d][n].by = u /\ file'[d][n].part = Moving(u)
        BY <1>4, <2>4, <4>1
      <4>3. Moving(u) \in k .. Moving(u) /\ files[u][Moving(u)] = <<d, n>>
        BY <1>2, <1>3, <3>0, <3>1
      <4> QED
        BY <3>0, <4>2, <4>3
    <3>2. CASE <<d, n>> # Target(u)
      <4>1. k \in 1 .. moved[u]
        BY <1>2, <1>3, <3>0, <3>2
      <4>2. /\ file[d][n] # NoFile /\ file[d][n].by = u
            /\ file[d][n].part \in k .. moved[u] /\ files[u][file[d][n].part] = <<d, n>>
        BY <1>5, <1>7, <2>3, <3>0, <4>1 DEF InPlace
      <4>3. file'[d][n] = file[d][n]
        BY <2>2, <3>2
      <4>4. file[d][n].part \in k .. Moving(u)
        BY <1>2, <1>3, <4>2
      <4> QED
        BY <3>0, <4>2, <4>3, <4>4
    <3> QED
      BY <3>1, <3>2
  <2>7. InPlace(u)'
    BY <2>6 DEF InPlace
  <2> QED
    BY <2>1, <2>5, <2>7 DEF Undone
<1>8. ASSUME EndCopy(u), OwnDirs(u)' PROVE AsAsked(u)' /\ InPlace(u)' /\ Undone(u)'
  <2>1. /\ pc[u] = "copy" /\ pc'[u] = "clear" /\ UNCHANGED moved
        /\ Put(Target(u), Content(u, TRUE))
    BY <1>1, <1>5, <1>8 DEF TypeOK, EndCopy, Goto
  <2>2. \A d \in Paths, n \in Names :
          file'[d][n] = IF <<d, n>> = Target(u) THEN Content(u, TRUE) ELSE file[d][n]
    BY <1>4, <1>6, <2>1
  <2>3. /\ Moving(u)' = Moving(u) /\ Target(u)' = Target(u) /\ Installing(u)'
        /\ Begun(u)' = Moving(u) /\ Begun(u) = Moving(u)
    BY <1>3, <2>1 DEF Moving, Target, Installing, Begun
  <2>4. /\ Content(u, TRUE).by = u /\ Content(u, TRUE).part = Moving(u)
        /\ Content(u, TRUE).whole
    BY DEF Content
  <2>5. AsAsked(u)'
    BY <1>5, <1>8, <2>1, <2>2, <2>3, <2>4 DEF AsAsked
  <2>6. ASSUME NEW k \in 1 .. Begun(u)', NEW d \in Paths, NEW n \in Names, files'[u][k] = <<d, n>>
        PROVE  /\ file'[d][n] # NoFile /\ file'[d][n].by = u
               /\ file'[d][n].part \in k .. Begun(u)' /\ files'[u][file'[d][n].part] = <<d, n>>
    <3>0. k \in 1 .. Moving(u) /\ files[u][k] = <<d, n>> /\ Begun(u)' = Moving(u) /\ UNCHANGED files
      BY <1>3, <2>3, <2>6
    <3>1. CASE <<d, n>> = Target(u)
      <4>1. file'[d][n] = Content(u, TRUE)
        BY <2>2, <3>1
      <4>2. file'[d][n] # NoFile /\ file'[d][n].by = u /\ file'[d][n].part = Moving(u)
        BY <1>4, <2>4, <4>1
      <4>3. Moving(u) \in k .. Moving(u) /\ files[u][Moving(u)] = <<d, n>>
        BY <1>2, <1>3, <3>0, <3>1
      <4> QED
        BY <3>0, <4>2, <4>3
    <3>2. CASE <<d, n>> # Target(u)
      <4>1. /\ file[d][n] # NoFile /\ file[d][n].by = u
            /\ file[d][n].part \in k .. Moving(u) /\ files[u][file[d][n].part] = <<d, n>>
        BY <1>5, <1>8, <2>3, <3>0 DEF InPlace
      <4>2. file'[d][n] = file[d][n]
        BY <2>2, <3>2
      <4> QED
        BY <3>0, <4>1, <4>2
    <3> QED
      BY <3>1, <3>2
  <2>7. InPlace(u)'
    BY <2>6 DEF InPlace
  <2> QED
    BY <2>1, <2>5, <2>7 DEF Undone
<1>9. ASSUME SetPermissions(u), OwnDirs(u)' PROVE AsAsked(u)' /\ InPlace(u)' /\ Undone(u)'
  <2> DEFINE there == file[Target(u)[1]][Target(u)[2]]
             new == [there EXCEPT !.perms = "asked"]
  <2>1. /\ pc[u] = "chmod" /\ pc'[u] = "move" /\ moved'[u] = moved[u] + 1
        /\ there # NoFile /\ Put(Target(u), new)
    <3>1. /\ pc[u] = "chmod" /\ pc' = [pc EXCEPT ![u] = "move"]
          /\ moved' = [moved EXCEPT ![u] = @ + 1] /\ there # NoFile /\ Put(Target(u), new)
      BY <1>9 DEF SetPermissions, Goto
    <3>2. u \in DOMAIN pc /\ u \in DOMAIN moved
      BY <1>1 DEF TypeOK, Requests
    <3> QED
      BY <3>1, <3>2
  <2>2. there \in Written
    <3>1. Target(u) \in Paths \X Names
      BY <1>3
    <3>2. Target(u)[1] \in Paths /\ Target(u)[2] \in Names
      BY <3>1
    <3> QED
      BY <1>1, <2>1, <3>2 DEF TypeOK, File
  <2>3. /\ new \in Written /\ new # NoFile /\ new.by = there.by /\ new.part = there.part
        /\ new.whole = there.whole /\ new.perms = "asked"
    BY <2>2, NamesAssumption DEF Written
  <2> HIDE DEF new
  <2>4. \A d \in Paths, n \in Names :
          file'[d][n] = IF <<d, n>> = Target(u) THEN new ELSE file[d][n]
    BY <1>6, <2>1, <2>3 DEF File
  <2>5. /\ moved'[u] = Moving(u) /\ Begun(u)' = Moving(u) /\ Begun(u) = Moving(u)
        /\ ~Installing(u)' /\ Installing(u)
    BY <1>3, <2>1 DEF Installing, Begun
  <2>6. \A d \in Paths, n \in Names : <<d, n>> = Target(u) => file[d][n] = there
    BY <1>3
  <2> HIDE DEF there
  <2>7. ASSUME NEW d \in Paths, NEW n \in Names, file'[d][n] # NoFile, file'[d][n].by = u
        PROVE  file'[d][n].part <= moved'[u] /\ file'[d][n].whole /\ file'[d][n].perms = "asked"
    <3>1. file[d][n] # NoFile /\ file[d][n].by = u
      BY <2>1, <2>3, <2>4, <2>6, <2>7
    <3>2. \/ file[d][n].part <= moved[u] /\ file[d][n].whole /\ file[d][n].perms = "asked"
          \/ file[d][n].part = Moving(u) /\ <<d, n>> = Target(u) /\ file[d][n].whole
      BY <1>5, <1>9, <2>1, <3>1 DEF AsAsked
    <3>3. file[d][n].part \in Nat
      BY <1>1, <3>1 DEF TypeOK, File, Written
    <3>4. file'[d][n].part = file[d][n].part /\ file'[d][n].whole = file[d][n].whole
          /\ (file'[d][n].perms = "asked" \/ file'[d][n].perms = file[d][n].perms)
          /\ (<<d, n>> = Target(u) => file'[d][n].perms = "asked")
      BY <2>3, <2>4, <2>6
    <3> QED
      BY <1>2, <1>3, <2>5, <3>2, <3>3, <3>4
  <2>8. AsAsked(u)'
    BY <2>7 DEF AsAsked
  <2>9. ASSUME NEW k \in 1 .. Begun(u)', NEW d \in Paths, NEW n \in Names, files'[u][k] = <<d, n>>
        PROVE  /\ file'[d][n] # NoFile /\ file'[d][n].by = u
               /\ file'[d][n].part \in k .. Begun(u)' /\ files'[u][file'[d][n].part] = <<d, n>>
    <3>1. /\ file[d][n] # NoFile /\ file[d][n].by = u
          /\ file[d][n].part \in k .. Moving(u) /\ files[u][file[d][n].part] = <<d, n>>
      <4>1. k \in 1 .. Begun(u) /\ files[u][k] = <<d, n>> /\ Begun(u) = Moving(u)
        BY <1>3, <2>5, <2>9
      <4> QED
        BY <1>5, <1>9, <4>1 DEF InPlace
    <3>2. /\ file'[d][n] # NoFile /\ file'[d][n].by = u
          /\ file'[d][n].part = file[d][n].part
      BY <2>3, <2>4, <2>6, <3>1
    <3> QED
      BY <1>3, <2>5, <3>1, <3>2
  <2>10. InPlace(u)'
    BY <2>9 DEF InPlace
  <2> QED
    BY <2>1, <2>8, <2>10 DEF Undone
<1>10. Undone(u)'
  BY <1>1 DEF TypeOK, Undone, StartCopy, EndCopy, SetPermissions, Goto
<1> QED
  BY <1>5, <1>7, <1>8, <1>9, <1>10 DEF Leaves

LEMMA KillLeaves ==
  ASSUME Typed, Digested, Kill, NEW u \in Uploads, Leaves(u)
  PROVE  Leaves(u)'
<1>1. /\ pc'[u] = IF Running(u) THEN "killed" ELSE pc[u]
      /\ u \notin torn' /\ UNCHANGED <<file, files, moved>>
  BY UploadsAreRequests DEF Kill
<1>2. OwnDirs(u)' => OwnDirs(u)
  BY <1>1, StillOwn, RequestsAssumption DEF Next
<1>3. Undone(u)'
  BY <1>1 DEF Leaves, Undone
<1>4. ~Installing(u)' /\ pc'[u] # "move" /\ ((pc'[u] = pc[u] /\ ~Running(u)) \/ pc'[u] = "killed")
  BY <1>1 DEF Running, Installing
<1>5. OwnDirs(u) => AsAsked(u)'
  BY <1>1, <1>4 DEF Leaves, AsAsked, Installing, Running, Moving, Target
<1> QED
  BY <1>1, <1>2, <1>3, <1>4, <1>5 DEF Leaves

\* Each upload installs or leaves its files as it should, whatever the others do.
AllLeave == \A u \in Uploads : Leaves(u)

LEMMA NextLeaves == Typed /\ Exclusion /\ Digested /\ AllLeave /\ [Next]_vars => AllLeave'
<1> SUFFICES ASSUME Typed, Exclusion, Digested, [Next]_vars, NEW u \in Uploads, Leaves(u)
             PROVE  Leaves(u)'
  BY DEF AllLeave
<1>1. CASE \/ \E v \in Uploads : v # u /\ StepOfUpload(v)
           \/ \E q \in Removals \cup Digests : StepOfList(q)
  BY <1>1, OthersLeave
<1>2. CASE StepOfUpload(u)
  BY <1>2, LeavesWithoutWriting, LeavesWriting
<1>3. CASE Kill
  BY <1>3, KillLeaves
<1>4. CASE UNCHANGED vars
  <2>1. UNCHANGED <<file, pc, dstDir, files, moved, torn>>
    BY <1>4 DEF vars, requestVars
  <2>2. /\ OwnDirs(u)' = OwnDirs(u) /\ Undone(u)' = Undone(u) /\ Begun(u)' = Begun(u)
        /\ Installing(u)' = Installing(u) /\ Moving(u)' = Moving(u) /\ Target(u)' = Target(u)
    BY <2>1 DEF OwnDirs, DirsOf, Undone, Begun, Installing, Moving, Target
  <2>3. AsAsked(u)' = AsAsked(u) /\ InPlace(u)' = InPlace(u)
    BY <2>1, <2>2 DEF AsAsked, InPlace
  <2> QED
    BY <2>1, <2>2, <2>3 DEF Leaves
<1> QED
  BY <1>1, <1>2, <1>3, <1>4, NextSteps

LEMMA AllLeaveAlways == Spec => [](Exclusion /\ Digested /\ AllLeave)
<1>1. ASSUME Init PROVE Exclusion /\ Digested /\ AllLeave
  <2>1. \A r \in Requests : pc[r] = "idle" /\ dstDir[r] = NoDir
    BY <1>1 DEF Init
  <2>2. \A r \in Digests : pc[r] = "idle" /\ answer[r] = NothingRead
    BY <1>1, <2>1, UploadsAreRequests DEF Init
  <2>3. Exclusion
    BY <2>1 DEF Exclusion, Running
  <2>4. Digested
    BY <2>1, <2>2, UploadsAreRequests DEF Digested, DigestsAgree
  <2>5. AllLeave
    <3>1. \A d \in Paths, n \in Names : file[d][n] = NoFile
      BY <1>1 DEF Init, NothingRead
    <3>2. \A u \in Uploads : moved[u] = 0 /\ u \notin torn /\ pc[u] = "idle"
      BY <1>1, <2>1, UploadsAreRequests DEF Init
    <3> QED
      BY <3>1, <3>2 DEF AllLeave, Leaves, Undone, AsAsked, Installing
  <2> QED
    BY <2>3, <2>4, <2>5
<1> QED
  BY <1>1, TypedAlways, NextExclusion, NextDigested, NextLeaves, PTL DEF Spec

\* However an upload ends (an error in move_tmp_files, or the agent killed), the
\* one file that it leaves half done is the one that it was moving.
THEOREM LeavesOneHalfDone == Spec => []HalfDone
<1>1. ASSUME AllLeave PROVE HalfDone
  BY <1>1 DEF AllLeave, Leaves, AsAsked, Installing, HalfDone
<1> QED
  BY <1>1, AllLeaveAlways, PTL

LEMMA SuccessInstalls ==
  ASSUME Typed, AllLeave, [Next]_vars, NEW u \in Uploads, pc[u] # "ok", pc'[u] = "ok", OwnDirs(u),
         NEW k \in DOMAIN files[u]
  PROVE  file[files[u][k][1]][files[u][k][2]] =
           [by |-> u, part |-> LastPart(u, files[u][k]), whole |-> TRUE, perms |-> "asked"]
<1>1. TypeOK /\ u \in Requests /\ \A q \in Removals \cup Digests : q # u
  BY UploadsAreRequests DEF Typed
<1>2. pc[u] = "move" /\ moved[u] = Len(files[u])
  <2>1. StepOfUpload(u)
    <3>1. ~Kill /\ ~UNCHANGED vars
      BY <1>1 DEF Kill, vars
    <3>2. ASSUME NEW v \in Uploads, StepOfUpload(v) PROVE v = u
      BY <1>1, <3>2, OthersAsTheyWere
    <3>3. \A q \in Removals \cup Digests : ~StepOfList(q)
      BY <1>1, UploadsAsTheyWere
    <3> QED
      BY <3>1, <3>2, <3>3, NextSteps
  <2>2. EndUpload(u)
    BY <1>1, <2>1 DEF TypeOK, StepOfUpload, StartUpload, Fail, DstDirField, PermsField, FilePart,
       FileReceived, FileAborted, EndParts, StartCopy, EndCopy, ClearTmp, SetPermissions, Goto,
       requestVars
  <2> QED
    BY <2>2 DEF EndUpload
<1>3. /\ DOMAIN files[u] = 1 .. Begun(u) /\ Begun(u) \in Nat
      /\ files[u][k] \in Paths \X Names
  BY <1>2, FilesType, LenProperties DEF Begun, Installing
<1> DEFINE path == files[u][k]
           f == file[path[1]][path[2]]
<1>4. path = <<path[1], path[2]>> /\ path[1] \in Paths /\ path[2] \in Names
  BY <1>3
<1>5. AsAsked(u) /\ InPlace(u)
  BY <1>2 DEF AllLeave, Leaves
<1>6. \A j \in DOMAIN files[u] : files[u][j] = path =>
        /\ f # NoFile /\ f.by = u /\ f.part \in j .. Begun(u) /\ files[u][f.part] = path
  BY <1>3, <1>4, <1>5 DEF InPlace
<1>7. f # NoFile /\ f.by = u /\ f.part \in DOMAIN files[u] /\ files[u][f.part] = path
  <2> HIDE DEF f
  <2>1. f # NoFile /\ f.by = u /\ f.part \in k .. Begun(u) /\ files[u][f.part] = path
    BY <1>6
  <2> QED
    BY <1>3, <2>1
<1>8. f.whole /\ f.perms = "asked"
  <2>1. pc[u] = "move" /\ file[path[1]][path[2]] # NoFile /\ file[path[1]][path[2]].by = u
    BY <1>2, <1>7
  <2> QED
    BY <1>4, <1>5, <2>1 DEF AsAsked, Installing
<1>9. \A j \in DOMAIN files[u] : files[u][j] = path => j <= f.part
  <2> HIDE DEF f, path
  <2> TAKE j \in DOMAIN files[u]
  <2> HAVE files[u][j] = path
  <2>1. f.part \in j .. Begun(u) /\ j \in Nat /\ Begun(u) \in Nat
    BY <1>3, <1>6
  <2> QED
    BY <2>1
<1>10. LastPart(u, path) = f.part
  <2>1. ASSUME NEW i \in DOMAIN files[u], files[u][i] = path,
               \A j \in DOMAIN files[u] : files[u][j] = path => j <= i
        PROVE  i = f.part
    <3> HIDE DEF f, path
    <3>1. i <= f.part /\ f.part <= i
      BY <1>7, <1>9, <2>1
    <3>2. i \in Nat /\ f.part \in Nat
      BY <1>3, <1>7
    <3> QED
      BY <3>1, <3>2
  <2> QED
    BY <1>7, <1>9, <2>1 DEF LastPart
<1>11. f \in Written
  BY <1>1, <1>4, <1>7 DEF TypeOK, File
<1>12. f = [by |-> f.by, part |-> f.part, whole |-> f.whole, perms |-> f.perms] /\ f.whole \in BOOLEAN
  BY <1>11 DEF Written
<1> QED
  BY <1>7, <1>8, <1>10, <1>12

\* An upload that is answered with success has put the last part of each name in
\* its place, whole and with the permissions asked for, whatever uploads of its
\* kind have failed in the directory before, and whatever those of others do.
THEOREM UploadsInstall == Spec => UploadInstalls
<1>1. ASSUME Typed, AllLeave, [Next]_vars
      PROVE  [\A u \in Uploads : pc[u] # "ok" /\ pc'[u] = "ok" /\ OwnDirs(u) =>
                \A k \in DOMAIN files[u] :
                  file[files[u][k][1]][files[u][k][2]] =
                    [by |-> u, part |-> LastPart(u, files[u][k]), whole |-> TRUE,
                     perms |-> "asked"]]_vars
  BY <1>1, SuccessInstalls
<1> QED
  BY <1>1, TypedAlways, AllLeaveAlways, PTL DEF Spec, UploadInstalls
=============================================================================
